--------------------------- MODULE MCWeaselServer ---------------------------
EXTENDS WeaselServer, TLC

MCBases == {0, 3}
MCSymmetry == Permutations(Clients)
=============================================================================
