----------------------------- MODULE MCUserDict -----------------------------
(* Model values for UserDict: a word, and a phrase that has it as element. *)
EXTENDS UserDict, TLC

CONSTANTS m1, m2, word, phrase

\* One machine with two applications, one with a single one.
MCSessions == m1 :> {1, 2} @@ m2 :> {1}

MCElements == word :> {} @@ phrase :> {word}

\* Two groups of phrases: the second Save() touches the word of the first.
MCCommits == {<<word, phrase>>}

\* An imported entry has more commits than one event gives it.
MCCounts == {2}
=============================================================================
