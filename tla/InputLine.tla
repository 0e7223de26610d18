----------------------------- MODULE InputLine ------------------------------
(***************************************************************************)
(* What a user relies on while typing a code: it is a line with a caret.    *)
(* However the code is segmented and converted, a key inserts one           *)
(* character at the caret, deletes next to the caret, moves the caret, or   *)
(* drops the end of the line; nothing else ever changes the code.           *)
(***************************************************************************)
EXTENDS Integers, SequencesExt

CONSTANT Chars

VARIABLES line, caret

InputLineInit == line = <<>> /\ caret = 0

\* Confirming the character at once may take the caret to the end.
Insert(ch) ==
  /\ line' = InsertAt(line, caret + 1, ch)
  /\ caret' \in {caret + 1, Len(line')}

DeleteBefore(n) ==
  /\ line' = SubSeq(line, 1, caret - n) \o SubSeq(line, caret + 1, Len(line))
  /\ caret' = caret - n

DeleteAfter ==
  /\ caret < Len(line)
  /\ line' = RemoveAt(line, caret + 1)
  /\ caret' = caret

Move ==
  /\ line' = line
  /\ caret' \in 0..Len(line)

\* Committing or cancelling everything leaves an empty line.
Truncate(n) ==
  /\ line' = SubSeq(line, 1, n)
  /\ caret' = n

InputLineNext ==
  \/ \E ch \in Chars : Insert(ch)
  \/ \E n \in 1..caret : DeleteBefore(n)
  \/ DeleteAfter
  \/ Move
  \/ \E n \in 0..Len(line) : Truncate(n)

InputLineSpec == InputLineInit /\ [][InputLineNext]_<<line, caret>>
=============================================================================
