------------------------------- MODULE Context ------------------------------
(***************************************************************************)
(* What a session does with the keys of a composition: librime's Context    *)
(* (rime/context.cc), the part of the engine that listens to it             *)
(* (rime/engine.cc) and the processors of the t9 schema that change it       *)
(* (speller, selector, punctuator, navigator, editor).                      *)
(*                                                                         *)
(* A session handles one key at a time, so a key is one step.  What a key   *)
(* does is a composition of the operations of Context, written as operators *)
(* on the record [schema, input, caret_pos, comp, out]; an operation that   *)
(* notifies the engine ends in Compose.                                     *)
(***************************************************************************)
EXTENDS Segmentation

CONSTANTS
  Schemas,     \* schemas a session may have, see SchemaType
  PageSize     \* menu/page_size

\* editor: express_editor or fluid_editor; punct: the kind of a punctuation
\* key, "commit" for {commit: x} as in t9, "unique" for a plain value;
\* max_len: bound on the length of the input.
SchemaType ==
  [editor : {"express", "fluid"}, punct : {"commit", "unique"}, max_len : Nat \ {0}]

\* A candidate covers a character at least, and no more than the code.
ASSUME ContextAssumption ==
  /\ Schemas \subseteq SchemaType
  /\ PageSize \in Nat \ {0}
  /\ \A schema \in Schemas : \A n \in 0..schema.max_len : \A code \in [1..n -> Chars] :
       Translate(code) \in Seq(1..n)

VARIABLE ctx   \* the context; out is what the last key committed

Editor == ctx.schema.editor
PunctKind == ctx.schema.punct
MaxLen == ctx.schema.max_len

\* The "_auto_commit" option, set by the editor's constructor.
AutoCommit == Editor = "express"

NoCommit == <<>>

EmptyContext(schema) ==
  [schema |-> schema, input |-> <<>>, caret_pos |-> 0,
   comp |-> [input |-> <<>>, segs |-> <<>>], out |-> NoCommit]

------------------------------------------------------------------------------
(* ConcreteEngine *)

\* The active input ends at the caret, unless all before the caret is confirmed.
ExtendPastCaret(comp, c) ==
  IF c.caret_pos < Len(c.input) /\ c.caret_pos = ConfirmedPosition(comp)
  THEN ResetInput(comp, c.input)
  ELSE comp

Compose(c) ==
  LET before_caret == ResetInput(c.comp, SubString(c.input, 0, c.caret_pos))
      active == ExtendPastCaret(before_caret, c)
  IN  [c EXCEPT !.comp = TranslateSegments(CalculateSegmentation(active, c.caret_pos))]

IsComposing(c) == c.input # <<>> \/ c.comp.segs # <<>>

Clear(c) == Compose([c EXCEPT !.input = <<>>, !.caret_pos = 0, !.comp.segs = <<>>])

\* Composition::GetCommitText: the pieces <<from, to>> of the code that make up
\* the text, each converted or as it was typed.
PieceOf(seg) == <<seg.start, IF HasCandidate(seg) THEN CandidateEnd(seg) ELSE seg.end>>

\* Mutant: what no segment covers is forgotten.
WithoutTail(pieces, comp) == pieces

WithTail(pieces, comp) ==
  LET end == IF pieces = <<>> THEN 0 ELSE Last(pieces)[2]
  IN  IF Len(comp.input) > end THEN Append(pieces, <<end, Len(comp.input)>>) ELSE pieces

CommitPieces(comp) ==
  WithTail([i \in DOMAIN comp.segs |-> PieceOf(comp.segs[i])], comp)

\* The code past a highlighted candidate that nobody selected
Unreached(comp) ==
  {pos \in 1..Len(comp.input) :
     \E seg \in ToSet(comp.segs) :
       ~IsSelected(seg) /\ HasCandidate(seg) /\ pos \in (CandidateEnd(seg) + 1)..seg.end}

\* out keeps what was committed next to the code it was committed from.
Said(comp, pieces) ==
  [pieces |-> pieces, length |-> Len(comp.input), unreached |-> Unreached(comp)]

\* Context::Commit and ConcreteEngine::OnCommit
Commit(c) ==
  IF IsComposing(c) THEN Clear([c EXCEPT !.out = Said(c.comp, CommitPieces(c.comp))]) ELSE c

set_caret_pos(c, pos) ==
  Compose([c EXCEPT !.caret_pos = IF pos > Len(c.input) THEN Len(c.input) ELSE pos])

set_input(c, value) == Compose([c EXCEPT !.input = value, !.caret_pos = Len(value)])

\* ConcreteEngine::OnSelect
OnSelect(c) ==
  LET seg == Close(Last(c.comp.segs))
      closed == [c EXCEPT !.comp.segs = SetLast(@, seg)]
      confirmed == [c EXCEPT !.comp.segs = SetLast(@, [seg EXCEPT !.status = kConfirmed])]
  IN  IF seg.end = Len(c.input)
      THEN IF AutoCommit THEN Commit(confirmed)
           ELSE [confirmed EXCEPT !.comp = Forward(@)]
      ELSE IF seg.end >= c.caret_pos
           THEN set_caret_pos([closed EXCEPT !.comp = Forward(@)], Len(c.input))
           ELSE Compose([closed EXCEPT !.comp = Forward(@)])

------------------------------------------------------------------------------
(* Context: operations that may fail return [ok, c]                         *)

Done(c) == [ok |-> TRUE, c |-> c]
Fail(c) == [ok |-> FALSE, c |-> c]

\* a || b
OrElse(r, Op(_)) == IF r.ok THEN r ELSE Op(r.c)
\* a && b
AndThen(r, Op(_)) == IF r.ok THEN Op(r.c) ELSE r

PushInput(c, ch) ==
  Compose([c EXCEPT
    !.input = SubString(@, 0, c.caret_pos) \o <<ch>> \o SubString(@, c.caret_pos, Len(@)),
    !.caret_pos = @ + 1])

\* Mutant: one character too many.
EraseMore(str, pos, len) == SubString(str, 0, pos) \o SubString(str, pos + len + 1, Len(str))

Erase(str, pos, len) == SubString(str, 0, pos) \o SubString(str, pos + len, Len(str))

\* Mutant: there may be less than len characters before the caret.
PopInputUnchecked(c, len) ==
  Done(Compose([c EXCEPT !.input = Erase(@, c.caret_pos - len, len), !.caret_pos = @ - len]))

PopInput(c, len) ==
  IF c.caret_pos < len THEN Fail(c)
  ELSE Done(Compose([c EXCEPT !.input = Erase(@, c.caret_pos - len, len),
                              !.caret_pos = @ - len]))

DeleteInput(c) ==
  IF c.caret_pos + 1 > Len(c.input) THEN Fail(c)
  ELSE Done(Compose([c EXCEPT !.input = Erase(@, c.caret_pos, 1)]))

Select(c, index) ==
  IF c.comp.segs = <<>> \/ index >= Len(Last(c.comp.segs).menu) THEN Fail(c)
  ELSE Done(OnSelect([c EXCEPT !.comp.segs =
         SetLast(@, [Last(@) EXCEPT !.selected_index = index, !.status = kSelected])]))

\* The status is set even when the empty segment is then refused.
ConfirmCurrentSelection(c) ==
  IF c.comp.segs = <<>> THEN Fail(c)
  ELSE LET seg == Last(c.comp.segs)
           selected == [c EXCEPT !.comp.segs = SetLast(@, [seg EXCEPT !.status = kSelected])]
       IN  IF ~HasCandidate(seg) /\ seg.end = seg.start THEN Fail(selected)
           ELSE Done(OnSelect(selected))

BeginEditing(c) ==
  LET latest == LastSelected(c.comp.segs)
  IN  IF latest > 0 /\ c.comp.segs[latest].status = kSelected
      THEN [c EXCEPT !.comp.segs[latest].tags = @ \cup {"selected_before_editing"}]
      ELSE c

ReopenPreviousSegment(c) ==
  IF ~CanTrim(c.comp) THEN Fail(c)
  ELSE LET trimmed == Front(c.comp.segs)
           segs == IF trimmed = <<>> THEN trimmed
                   ELSE SetLast(trimmed, Reopen(Last(trimmed), c.caret_pos))
       IN  Done(Compose([c EXCEPT !.comp.segs = segs]))

ClearPreviousSegment(c) ==
  IF c.comp.segs = <<>> \/ CurrentStart(c.comp) >= Len(c.input) THEN Fail(c)
  ELSE Done(set_input(c, SubString(c.input, 0, CurrentStart(c.comp))))

ReopenPreviousSelection(c) ==
  LET latest == LastSelected(c.comp.segs)
      seg == c.comp.segs[latest]
  IN  IF \/ latest = 0
         \/ seg.status > kSelected
         \/ "selected_before_editing" \in seg.tags
      THEN Fail(c)
      ELSE Done(Compose([c EXCEPT !.comp.segs =
                  Append(SubSeq(@, 1, latest - 1), Reopen(seg, c.caret_pos))]))

ClearNonConfirmedComposition(c) ==
  LET kept == LastSelected(c.comp.segs)
  IN  IF kept = Len(c.comp.segs) THEN c
      ELSE [c EXCEPT !.comp = Forward([c.comp EXCEPT !.segs = SubSeq(@, 1, kept)])]

RefreshNonConfirmedComposition(c) ==
  IF LastSelected(c.comp.segs) = Len(c.comp.segs) THEN c
  ELSE Compose(ClearNonConfirmedComposition(c))

HasMenu(c) == c.comp.segs # <<>> /\ Last(c.comp.segs).menu # <<>>

------------------------------------------------------------------------------
(* The composition on its way to the application                            *)

\* Composition::GetScriptText: a segment without a candidate stands for the
\* code since the end of the one before it.
ScriptPieces(comp) ==
  LET start(i) == IF i = 1 \/ HasCandidate(comp.segs[i]) THEN comp.segs[i].start
                  ELSE PieceOf(comp.segs[i - 1])[2]
  IN  WithTail([i \in DOMAIN comp.segs |-> <<start(i), PieceOf(comp.segs[i])[2]>>], comp)

\* Editor::CommitScriptText sends the text to the sink itself.
CommitScriptText(c) ==
  Clear([c EXCEPT !.out = Said(c.comp, ScriptPieces(c.comp))])

------------------------------------------------------------------------------
(* Editor: the handlers that combine several operations                     *)

\* a || b for handlers that ignore the final result
FirstOf(c, A(_), B(_)) == OrElse(A(c), B).c

CommitDone(c) == Done(Commit(c))

Confirm(c) == FirstOf(c, ConfirmCurrentSelection, CommitDone)

CommitUnlessMenu(r) == IF r.ok /\ HasMenu(r.c) THEN r.c ELSE Commit(r.c)

CommitComposition(c) == CommitUnlessMenu(ConfirmCurrentSelection(c))

CommitRawInput(c) == Commit(ClearNonConfirmedComposition(c))

PopOne(c) == PopInput(c, 1)

PopAndReopen(c) == AndThen(PopOne(c), ReopenPreviousSegment)

RevertLastEdit(c) == FirstOf(c, ReopenPreviousSelection, PopAndReopen)

BackToPreviousInput(c) ==
  OrElse(OrElse(ReopenPreviousSegment(c), ReopenPreviousSelection), PopOne).c

\* stop: the previous stop of the highlighted phrase, the caret when it has none.
BackToPreviousSyllable(c, stop) ==
  LET reverted == ReopenPreviousSelection(c)
      popped == IF stop < c.caret_pos THEN PopInput(reverted.c, c.caret_pos - stop)
                ELSE PopOne(reverted.c)
  IN  IF reverted.ok THEN reverted.c ELSE AndThen(popped, ReopenPreviousSegment).c

ClearDone(c) == Done(Clear(c))

CancelComposition(c) == FirstOf(c, ClearPreviousSegment, ClearDone)

AddToInput(c, ch) == BeginEditing(PushInput(c, ch))

------------------------------------------------------------------------------
(* The keys.  A key that no processor takes goes to the application.        *)

Fresh == [ctx EXCEPT !.out = NoCommit]

Becomes(c) == ctx' = c

HasRoom == Len(ctx.input) < MaxLen

\* Speller::ProcessKeyEvent; a letter is always an initial, a delimiter is not
\* taken where an initial is expected.
ExpectingAnInitial ==
  ctx.caret_pos \notin {p \in 1..Len(ctx.input) :
                          p # CurrentStart(ctx.comp) /\ ctx.input[p] \in Letters}

SpellLetter(ch) ==
  /\ HasRoom
  /\ Becomes(AddToInput(Fresh, ch))

SpellDelimiter(ch) ==
  /\ HasRoom
  /\ ~ExpectingAnInitial
  /\ Becomes(AddToInput(Fresh, ch))

\* The char handler of the editor gets the characters nobody took.
DirectCommit ==
  /\ Editor = "express"
  /\ IsComposing(ctx)
  /\ Becomes(Commit(Fresh))

AddDelimiter(ch) ==
  /\ Editor = "fluid"
  /\ HasRoom
  /\ ExpectingAnInitial
  /\ Becomes(AddToInput(Fresh, ch))

\* Punctuator::ProcessKeyEvent
PunctuationIsTranslated(c) ==
  c.comp.segs # <<>> /\ "punct" \in Last(c.comp.segs).tags /\ HasCandidate(Last(c.comp.segs))

Punctuate(ch) ==
  /\ HasRoom
  /\ LET pushed == PushInput(Fresh, ch)
     IN  Becomes(IF ~PunctuationIsTranslated(pushed) THEN pushed
                 ELSE IF PunctKind = "unique" THEN ConfirmCurrentSelection(pushed).c
                 ELSE Commit(pushed))

\* Selector::ProcessKeyEvent: the keys that move the highlight notify nobody.
SelectorActive ==
  ctx.comp.segs # <<>> /\ HasMenu(ctx) /\ "raw" \notin Last(ctx.comp.segs).tags

Highlighted == Last(ctx.comp.segs).selected_index
CandidateCount == Len(Last(ctx.comp.segs).menu)
PageStart(index) == (index \div PageSize) * PageSize

MoveHighlight(index) ==
  Becomes([Fresh EXCEPT !.comp.segs = SetLast(@, [Last(@) EXCEPT !.selected_index = index])])

SelectCandidateAt(index) ==
  /\ SelectorActive
  /\ PageStart(Highlighted) + index < CandidateCount
  /\ Becomes(Select(Fresh, PageStart(Highlighted) + index).c)

NextCandidate ==
  /\ SelectorActive
  /\ Highlighted + 1 < CandidateCount
  /\ MoveHighlight(Highlighted + 1)

PreviousCandidate ==
  /\ SelectorActive
  /\ Highlighted > 0
  /\ MoveHighlight(Highlighted - 1)

NextPage ==
  /\ SelectorActive
  /\ CandidateCount > PageStart(Highlighted + PageSize)
  /\ MoveHighlight(IF Highlighted + PageSize < CandidateCount THEN Highlighted + PageSize
                   ELSE CandidateCount - 1)

PreviousPage ==
  /\ SelectorActive
  /\ MoveHighlight(IF Highlighted < PageSize THEN 0 ELSE Highlighted - PageSize)

FirstCandidate ==
  /\ SelectorActive
  /\ Highlighted > 0
  /\ MoveHighlight(0)

\* Context::Highlight, the frontend's call when the mouse is on a candidate.
Highlight(index) ==
  /\ HasMenu(ctx)
  /\ index # Highlighted
  /\ Becomes(Compose([Fresh EXCEPT !.comp.segs =
                       SetLast(@, [Last(@) EXCEPT !.selected_index = index])]))

\* Navigator: every move begins with BeginMove, also one that leads nowhere.
BeginMove == BeginEditing(Fresh)

MoveCaret(pos) ==
  Becomes(IF pos = ctx.caret_pos THEN BeginMove ELSE set_caret_pos(BeginMove, pos))

LeftByChar ==
  /\ ctx.input # <<>>
  /\ MoveCaret(IF ctx.caret_pos > 0 THEN ctx.caret_pos - 1 ELSE Len(ctx.input))

\* GoHome: the start of what follows the last selected segment, and from there 0.
HomePos ==
  LET n == Len(ctx.comp.segs)
      open == {i \in 1..n : \A j \in i..n : ctx.comp.segs[j].status < kSelected}
      start == IF open = {} THEN ctx.caret_pos
               ELSE ctx.comp.segs[CHOOSE i \in open : \A j \in open : i <= j].start
  IN  IF start < ctx.caret_pos THEN start ELSE 0

RightByChar ==
  /\ ctx.input # <<>>
  /\ MoveCaret(IF ctx.caret_pos < Len(ctx.input) THEN ctx.caret_pos + 1 ELSE HomePos)

Home == ctx.input # <<>> /\ MoveCaret(HomePos)

End == ctx.input # <<>> /\ MoveCaret(Len(ctx.input))

\* A jump to a stop of the spans, which may be any position; where there is no
\* other stop the caret goes to the end.
JumpBySyllable(stop) ==
  /\ stop \in 0..Len(ctx.input)
  /\ stop = ctx.caret_pos => stop = Len(ctx.input)
  /\ ctx.input # <<>>
  /\ MoveCaret(stop)

\* Editor::ProcessKeyEvent binds its keys while something is composed.
Space == IsComposing(ctx) /\ Becomes(Confirm(Fresh))

BackSpace ==
  /\ IsComposing(ctx)
  /\ Becomes(IF Editor = "express" THEN RevertLastEdit(Fresh) ELSE BackToPreviousInput(Fresh))

\* Control+BackSpace
BackSyllable(stop) ==
  /\ IsComposing(ctx)
  /\ stop \in CurrentStart(ctx.comp)..ctx.caret_pos
  /\ Becomes(BackToPreviousSyllable(Fresh, stop))

Return ==
  /\ IsComposing(ctx)
  /\ Becomes(IF Editor = "express" THEN CommitRawInput(Fresh) ELSE CommitComposition(Fresh))

\* Control+Return in fluid_editor
ReturnRaw == Editor = "fluid" /\ IsComposing(ctx) /\ Becomes(CommitRawInput(Fresh))

\* Control+Return in express_editor, Shift+Return in fluid_editor
ReturnScript == IsComposing(ctx) /\ Becomes(CommitScriptText(Fresh))

Delete == IsComposing(ctx) /\ Becomes(DeleteInput(Fresh).c)

Escape == IsComposing(ctx) /\ Becomes(CancelComposition(Fresh))

\* rime_get_api()->commit_composition and clear_composition
ApiCommit == IsComposing(ctx) /\ Becomes(Commit(Fresh))
ApiClear == IsComposing(ctx) /\ Becomes(Clear(Fresh))

\* An option changes (ConcreteEngine::OnOptionUpdate) or a candidate is deleted
\* (Memory::OnDeleteEntry) while something is composed.
Refresh == IsComposing(ctx) /\ Becomes(RefreshNonConfirmedComposition(Fresh))

------------------------------------------------------------------------------
Init == ctx \in {EmptyContext(schema) : schema \in Schemas}

Typing ==
  \/ \E ch \in Letters : SpellLetter(ch)
  \/ \E ch \in Delimiters : SpellDelimiter(ch) \/ AddDelimiter(ch)
  \/ \E ch \in Puncts : Punctuate(ch)

Selecting ==
  \/ \E index \in 0..(PageSize - 1) : SelectCandidateAt(index)
  \/ NextCandidate \/ PreviousCandidate \/ NextPage \/ PreviousPage \/ FirstCandidate
  \/ HasMenu(ctx) /\ \E index \in 0..(CandidateCount - 1) : Highlight(index)

Moving ==
  \/ LeftByChar \/ RightByChar \/ Home \/ End
  \/ \E stop \in 0..MaxLen : JumpBySyllable(stop)

Editing ==
  \/ Space \/ BackSpace \/ Return \/ ReturnRaw \/ ReturnScript \/ Delete \/ Escape
  \/ \E stop \in 0..MaxLen : BackSyllable(stop)
  \/ DirectCommit

Api == ApiCommit \/ ApiClear \/ Refresh

Next == Typing \/ Selecting \/ Moving \/ Editing \/ Api

Spec == Init /\ [][Next]_ctx

------------------------------------------------------------------------------
(* Properties *)

SegmentType ==
  [status : kVoid..kConfirmed, start : 0..MaxLen, end : 0..MaxLen, length : 0..MaxLen,
   tags : SUBSET Tags, menu : Seq(0..MaxLen), selected_index : Nat]

TypeOK ==
  /\ ctx.schema \in Schemas
  /\ ctx.input \in Seq(Chars) /\ Len(ctx.input) <= MaxLen
  /\ ctx.caret_pos \in 0..Len(ctx.input)
  /\ ctx.comp.input \in Seq(Chars)
  /\ ctx.comp.segs \in Seq(SegmentType)

\* The segments tile the code from its beginning without a gap, and only the
\* last one may be empty, whatever was selected, reopened, deleted or inserted
\* in the middle (segmentation.cc, engine.cc:154-201).
Tiling ==
  LET segs == ctx.comp.segs
  IN  \A i \in DOMAIN segs :
        /\ segs[i].start = (IF i = 1 THEN 0 ELSE segs[i - 1].end)
        /\ segs[i].start <= segs[i].end
        /\ segs[i].start = segs[i].end => i = Len(segs) /\ i > 1
        /\ segs[i].end <= Len(ctx.comp.input)

\* A selected segment ends with its candidate (segmentation.cc:17-24), and no
\* candidate on offer claims code that is not in its segment, also after a
\* partly selected segment was reopened at another caret position.
SelectionFits ==
  \A i \in DOMAIN ctx.comp.segs :
    LET seg == ctx.comp.segs[i]
    IN  IF IsSelected(seg) THEN HasCandidate(seg) => CandidateEnd(seg) = seg.end
        ELSE ToSet(seg.menu) \subseteq (seg.start + 1)..seg.end

\* The text that reaches the application (composition.cc:102-120) uses no code
\* twice or out of order, and what it leaves out of the active code is only
\* what a highlighted candidate that nobody selected does not reach.
CommitFaithful ==
  ctx.out # NoCommit =>
    LET pieces == ctx.out.pieces
        used == UNION {(p[1] + 1)..p[2] : p \in ToSet(pieces)}
    IN  /\ \A i, j \in DOMAIN pieces : i < j => pieces[i][2] <= pieces[j][1]
        /\ (1..ctx.out.length) \ used \subseteq ctx.out.unreached

Choice(seg) == <<seg.start, seg.end, seg.menu, seg.selected_index>>

\* A key that inserts code or moves the caret keeps what the user has selected
\* before the caret (segmentation.cc:59).  A selected raw segment is the
\* exception: the next raw character reopens it (fallback_segmentor.cc:37-45).
InsertsOrMoves ==
  \/ Len(ctx'.input) > Len(ctx.input)
  \/ ctx'.input = ctx.input /\ ctx'.caret_pos # ctx.caret_pos

SelectionsKept ==
  [][InsertsOrMoves =>
       \A seg \in ToSet(ctx.comp.segs) :
         /\ IsSelected(seg)
         /\ "raw" \notin seg.tags
         /\ seg.end <= Min({ctx.caret_pos, ctx'.caret_pos})
         => \E kept \in ToSet(ctx'.comp.segs) :
              IsSelected(kept) /\ Choice(kept) = Choice(seg)]_ctx

\* Selecting a candidate of the last segment and pressing BackSpace.
Selection(index) == Select(Fresh, index)

UndoOf(c) == IF Editor = "express" THEN RevertLastEdit(c) ELSE BackToPreviousInput(c)

StillComposing(r) == r.ok /\ r.c.out = NoCommit

\* BackSpace right after a selection takes the selection back and leaves the
\* code, the caret and the segments as they were.  The caret is at the end and
\* the segment has not been reopened before at another caret position, or
\* edited: see RecentOperationDecides and the README.
UndoRestores ==
  ctx.comp.segs # <<>> /\ ctx.caret_pos = Len(ctx.input) =>
    LET seg == Last(ctx.comp.segs)
    IN  /\ ~IsSelected(seg)
        /\ OriginalEnd(seg) = seg.end
        /\ "selected_before_editing" \notin seg.tags
        => \A index \in 0..(Len(seg.menu) - 1) :
             StillComposing(Selection(index)) =>
               UndoOf(Selection(index).c) =
                 [Fresh EXCEPT !.comp.segs = SetLast(@, [seg EXCEPT !.selected_index = index])]

\* The code is an input line whatever the segments are doing.
Line == INSTANCE InputLine WITH line <- ctx.input, caret <- ctx.caret_pos

LineSpec == Line!InputLineSpec

------------------------------------------------------------------------------
(* What a comment says and the code does not do                              *)

\* editor.cc:126-127, "revert last selection or delete last input character
\* depending on recent operation type": directly after a selection, BackSpace
\* deletes nothing.
RecentOperationDecides ==
  ctx.comp.segs # <<>> /\ ctx.caret_pos = Len(ctx.input) =>
    \A index \in 0..(Len(Last(ctx.comp.segs).menu) - 1) :
      StillComposing(Selection(index)) => UndoOf(Selection(index).c).input = ctx.input

=============================================================================
