----------------------------- MODULE MCContext ------------------------------
(***************************************************************************)
(* A small instance of Context: a letter, a delimiter and a punctuation key.*)
(* A letter alone is a syllable only before a delimiter, so that a code may *)
(* have a candidate for all of it, for parts of it, or none.                *)
(***************************************************************************)
EXTENDS Context

\* What the script translator offers (script_translator.cc, external to the
\* module): a candidate for every prefix of the code that ends with a complete
\* syllable and the delimiters after it, the longest prefix first.
MCTranslate(code) ==
  LET Covers(n) == /\ code[n] \in Letters \cup Delimiters
                   /\ n < Len(code) => code[n + 1] \notin Delimiters
                   /\ LET last == Max({0} \cup {i \in 1..n : code[i] \in Letters})
                      IN  last > 0 /\ (last < n \/ (n > 1 /\ code[n - 1] \in Letters))
      lengths == {n \in 1..Len(code) : Covers(n)}
      Longer(n) == Cardinality({m \in lengths : m > n})
  IN  [i \in 1..Cardinality(lengths) |-> CHOOSE n \in lengths : Longer(n) = i - 1]

\* express_editor and the punctuation of t9, and fluid_editor, where confirmed
\* segments stay, with punctuation that is confirmed.
Express(max_len) == [editor |-> "express", punct |-> "commit", max_len |-> max_len]
Fluid(max_len) == [editor |-> "fluid", punct |-> "unique", max_len |-> max_len]
MCSchemas == {Express(5), Fluid(3)}
MCShort == {Express(4)}
=============================================================================
