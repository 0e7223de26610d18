----------------------------- MODULE MCKeyChain -----------------------------
(* Codes of up to two digits have candidates, longer ones have none.       *)
EXTENDS KeyChain

MCTranslatable == {<<"2">>, <<"2", "2">>}
=============================================================================
