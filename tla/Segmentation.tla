---------------------------- MODULE Segmentation ----------------------------
(***************************************************************************)
(* librime's Segmentation (rime/segmentation.cc) and the segmentors of the *)
(* t9 schema, as operators: an input is cut into segments, a segment gets   *)
(* candidates from the translators and the user selects one of them.        *)
(*                                                                         *)
(* A string is a sequence of characters; positions count characters from 0, *)
(* as in the code.  A candidate is represented by the position where it     *)
(* ends: candidates start where their segment starts.                       *)
(***************************************************************************)
EXTENDS Integers, FiniteSets, FiniteSetsExt, SequencesExt

CONSTANTS
  Letters,        \* speller/alphabet: '23456789'
  Delimiters,     \* speller/delimiter
  Puncts,         \* keys with a punctuator definition
  Translate(_)    \* a string of letters |-> the lengths its candidates cover

Chars == Letters \cup Delimiters \cup Puncts

\* Segment::Status
kVoid == 0
kGuess == 1
kSelected == 2
kConfirmed == 3

Tags == {"abc", "punct", "raw", "partial", "selected_before_editing"}

NewSegment(start, end, tags) ==
  [status |-> kVoid, start |-> start, end |-> end, length |-> end - start,
   tags |-> tags, menu |-> <<>>, selected_index |-> 0]

SetLast(s, e) == ReplaceAt(s, Len(s), e)
SubString(str, from, to) == SubSeq(str, from + 1, to)

------------------------------------------------------------------------------
(* Segment *)

HasCandidate(seg) == seg.selected_index < Len(seg.menu)

\* The end of GetSelectedCandidate().
CandidateEnd(seg) == seg.menu[seg.selected_index + 1]

\* Mutant: the rest of the code stays in the segment.
CloseWhole(seg) == [seg EXCEPT !.tags = @ \cup {"partial"}]

Close(seg) ==
  IF HasCandidate(seg) /\ CandidateEnd(seg) < seg.end
  THEN [seg EXCEPT !.end = CandidateEnd(seg), !.tags = @ \cup {"partial"}]
  ELSE seg

OriginalEnd(seg) == seg.start + seg.length

\* Mutant: the end is not restored.
ReopenSplit(seg, caret_pos) ==
  IF seg.status < kSelected THEN seg
  ELSE IF OriginalEnd(seg) # caret_pos THEN [seg EXCEPT !.status = kVoid]
  ELSE [seg EXCEPT !.status = kGuess]

Reopen(seg, caret_pos) ==
  IF seg.status < kSelected THEN seg
  ELSE IF OriginalEnd(seg) # caret_pos THEN [seg EXCEPT !.status = kVoid]
  ELSE IF seg.end < OriginalEnd(seg)
       THEN [seg EXCEPT !.end = OriginalEnd(seg), !.tags = @ \ {"partial"}, !.status = kGuess]
       ELSE [seg EXCEPT !.status = kGuess]

------------------------------------------------------------------------------
(* Segmentation: [input, segs] *)

CurrentStart(comp) == IF comp.segs = <<>> THEN 0 ELSE Last(comp.segs).start
CurrentEnd(comp) == IF comp.segs = <<>> THEN 0 ELSE Last(comp.segs).end
CurrentLength(comp) == CurrentEnd(comp) - CurrentStart(comp)

HasFinishedSegmentation(comp) == CurrentEnd(comp) >= Len(comp.input)

Forward(comp) ==
  IF comp.segs = <<>> \/ CurrentLength(comp) = 0 THEN comp
  ELSE [comp EXCEPT !.segs = Append(@, NewSegment(CurrentEnd(comp), CurrentEnd(comp), {}))]

CanTrim(comp) == comp.segs # <<>> /\ CurrentLength(comp) = 0

Trim(comp) == IF CanTrim(comp) THEN [comp EXCEPT !.segs = Front(@)] ELSE comp

\* The position of the first character of a that b does not have there.
DiffPos(a, b) ==
  Min({i \in 1..Len(a) : i > Len(b) \/ a[i] # b[i]} \cup {Len(a) + 1}) - 1

\* Mutant: a segment that ends where the input changes is popped, too.
RemainingBefore(segs, pos) == SelectLastInSeq(segs, LAMBDA seg : seg.end < pos)

\* Mutant: a segment that starts before the change is kept.
RemainingStarted(segs, pos) == SelectLastInSeq(segs, LAMBDA seg : seg.start < pos)

\* The number of segments that remain when those that end beyond pos are popped.
Remaining(segs, pos) == SelectLastInSeq(segs, LAMBDA seg : seg.end <= pos)

\* Segmentation::Reset(new_input)
ResetInput(comp, new_input) ==
  LET kept == Remaining(comp.segs, DiffPos(comp.input, new_input))
      disposed == [comp EXCEPT !.segs = SubSeq(@, 1, kept)]
  IN  [(IF kept < Len(comp.segs) THEN Forward(disposed) ELSE comp)
        EXCEPT !.input = new_input]

AddSegment(comp, seg) ==
  LET last == Last(comp.segs)
  IN  IF seg.start # CurrentStart(comp) THEN comp
      ELSE IF comp.segs = <<>> THEN [comp EXCEPT !.segs = <<seg>>]
      ELSE IF last.end > seg.end THEN comp
      ELSE IF last.end < seg.end THEN [comp EXCEPT !.segs = SetLast(@, seg)]
      ELSE [comp EXCEPT !.segs = SetLast(@, [last EXCEPT !.tags = @ \cup seg.tags])]

IsSelected(seg) == seg.status >= kSelected

\* The index of the last segment the user has selected, 0 if there is none.
LastSelected(segs) == SelectLastInSeq(segs, IsSelected)

ConfirmedPosition(comp) ==
  LET k == LastSelected(comp.segs) IN IF k = 0 THEN 0 ELSE comp.segs[k].end

------------------------------------------------------------------------------
(* The segmentors.  Each returns the segmentation and whether the round goes *)
(* on.  Every letter is an initial and none is a final in the t9 schema.     *)

AbcEnd(input, j) ==
  IF j >= Len(input) \/ input[j + 1] \in Delimiters THEN j
  ELSE Max({k \in j..Len(input) : \A i \in (j + 1)..k : input[i] \in Letters \cup Delimiters})

AbcSegmentor(comp) ==
  LET j == CurrentStart(comp)
      k == AbcEnd(comp.input, j)
  IN  IF j < k THEN AddSegment(comp, NewSegment(j, k, {"abc"})) ELSE comp

\* What follows in a round after the abc segmentor: punctuation is exclusive,
\* the rest falls back to a raw segment that absorbs one character a round.
PunctAt(comp) ==
  CurrentStart(comp) < Len(comp.input) /\ comp.input[CurrentStart(comp) + 1] \in Puncts

PunctSegmentor(comp) ==
  AddSegment(comp, NewSegment(CurrentStart(comp), CurrentStart(comp) + 1, {"punct"}))

FallbackSegmentor(comp) ==
  LET k == CurrentStart(comp)
      trimmed == Trim(comp)
      last == Last(trimmed.segs)
  IN  IF CurrentLength(comp) > 0 \/ k = Len(comp.input) THEN comp
      ELSE IF trimmed.segs # <<>> /\ "raw" \in last.tags
      THEN [trimmed EXCEPT !.segs =
              SetLast(@, [last EXCEPT !.end = k + 1, !.status = kVoid, !.tags = {"raw"},
                                      !.menu = <<>>, !.selected_index = 0])]
      ELSE AddSegment(Forward(trimmed), NewSegment(k, k + 1, {"raw"}))

AfterAbc(comp) == IF PunctAt(comp) THEN PunctSegmentor(comp) ELSE FallbackSegmentor(comp)

Round(comp) == AfterAbc(AbcSegmentor(comp))

EndPass(next, goes_on) ==
  [comp  |-> IF goes_on /\ ~HasFinishedSegmentation(next) THEN Forward(next) ELSE next,
   going |-> goes_on]

RoundDone(start, next, caret_pos) ==
  EndPass(next, start # CurrentEnd(next) /\ start < caret_pos)

\* A pass of the loop of ConcreteEngine::CalculateSegmentation, which ends when
\* there is nothing left, no progress, or one segment past the caret.
Pass(loop, caret_pos) ==
  IF ~loop.going \/ HasFinishedSegmentation(loop.comp) THEN loop
  ELSE RoundDone(CurrentStart(loop.comp), Round(loop.comp), caret_pos)

\* Every pass but the first takes a character at least.
Rounds(comp, caret_pos) ==
  LET after[n \in 0..(Len(comp.input) + 1)] ==
        IF n = 0 THEN [comp |-> comp, going |-> TRUE] ELSE Pass(after[n - 1], caret_pos)
  IN  after[Len(comp.input) + 1].comp

ForwardIfSelected(comp) ==
  IF comp.segs # <<>> /\ IsSelected(Last(comp.segs)) THEN Forward(comp) ELSE comp

CalculateSegmentation(comp, caret_pos) == ForwardIfSelected(Trim(Rounds(comp, caret_pos)))

------------------------------------------------------------------------------
(* ConcreteEngine::TranslateSegments *)

MenuFor(input, seg) ==
  LET code == SubString(input, seg.start, seg.end)
      lengths == IF "abc" \in seg.tags THEN Translate(code)
                 ELSE IF "punct" \in seg.tags /\ Len(code) = 1 THEN <<1>>
                 ELSE <<>>
  IN  [i \in DOMAIN lengths |-> seg.start + lengths[i]]

Translated(input, seg) ==
  IF seg.status >= kGuess THEN seg
  ELSE [seg EXCEPT !.status = kGuess, !.menu = MenuFor(input, seg), !.selected_index = 0]

TranslateSegments(comp) ==
  [comp EXCEPT !.segs = [i \in DOMAIN @ |-> Translated(comp.input, @[i])]]
=============================================================================
