---------------------------- MODULE TextService ----------------------------
(***************************************************************************)
(* The text service in an application (WeaselTSF): key events go to the    *)
(* server, the answer stays in the buffer of the pipe, and an edit session *)
(* that the application grants now or later reads it there and brings the  *)
(* document up to date.                                                    *)
(*                                                                         *)
(* What one call changes is in the record s, because calls nest: an edit   *)
(* session requests others, which run at once inside it, and ending a      *)
(* composition calls back.  The server is abstract: a key has any effect   *)
(* on the code and may commit; modules Context and WeaselServer have it in *)
(* detail.                                                                 *)
(***************************************************************************)
EXTENDS Integers, Sequences, FiniteSets

\* Applications, each a record of what it does beside the usual and of the
\* bounds for it: does, see below; codes, what is typed and not yet committed,
\* when something is; commits, the texts that are committed; waiting, no more
\* sessions are deferred while so many wait; faults, times the server is lost.
CONSTANT Applications

NoCode == "no_code"
NoText == "empty"              \* of a composition that has no text
Space == "space"

\* "defer": edit sessions are granted later; "disable": the keyboard of a
\* context is disabled; "close": the user closes the keyboard; "retest":
\* OnTestKeyDown comes several times, and OnKeyDown after it in any case;
\* "unknown": there are keys that ConvertKeyEvent does not know.
ASSUME TextServiceAssumption ==
  \A app \in Applications :
    /\ app.does \subseteq {"defer", "disable", "close", "retest", "unknown"}
    /\ {app.commits, app.waiting, app.faults} \subseteq Nat
    /\ {NoCode, "nothing"} \cap app.codes = {}

None == 0                       \* no composition
Compositions == Nat \ {None}   \* a number is used again when nobody has it

VARIABLES
  s,           \* see Init
  queue,       \* the edit sessions that were requested and not yet granted
  down,        \* _fTestKeyDownPending
  up,          \* _fTestKeyUpPending
  async_edit,  \* _async_edit
  event,       \* the key event the application is busy with
  sent,        \* history: how often this event went to the server, 2 for more
  off,         \* the keyboard is closed or disabled
  focused,     \* the thread has the focus
  behind,      \* history: the document waits for the next key, see ShowsCode
  running,     \* the server runs
  made, due,   \* history: texts committed, those that are to be in the document
  faults       \* counts the losses of the server

keys == <<down, up, event, sent>>
history == <<behind, due, made>>
vars == <<s, queue, async_edit, off, focused, running, faults, keys, history>>

Environment == s.app.does
Codes == s.app.codes
MaxCommits == s.app.commits
MaxWaiting == s.app.waiting
MaxFaults == s.app.faults

-----------------------------------------------------------------------------
(* The pipe.  A request is written over the first bytes of the last        *)
(* response (PipeChannel::_Send); what is left of it parses to nothing.    *)

Response(commit, pre) == [commit |-> commit, pre |-> pre]
Spoilt == Response(<<>>, "nothing")

\* Mutant: a request has a buffer of its own
KeepResponse(t) == t

Spoil(t) == [t EXCEPT !.buffer = Spoilt]

\* An active session (_Active) is "good", or "stale" after the server was lost.
Active(t) == t.session # "none"

ClearComposition(t) ==
  IF t.session = "good" THEN Spoil([t EXCEPT !.pre = NoCode])
  ELSE IF Active(t) THEN Spoil(t) ELSE t

\* RimeWithWeaselHandler::_Respond, which takes the text committed so far
Respond(t) == [t EXCEPT !.buffer = Response(t.unread, t.pre), !.unread = <<>>]

\* _EnsureServerConnected, with Echo and _Reconnect
Connected(t) ==
  IF t.session = "good" THEN Spoil(t)
  ELSE IF running
  THEN Spoil([t EXCEPT !.session = "good", !.pre = NoCode, !.unread = <<>>,
                       !.composing = FALSE])
  ELSE Spoil([t EXCEPT !.session = "none"])

-----------------------------------------------------------------------------
(* The document.  live: the compositions in it, each with its text.        *)

Put(t, c, text) ==
  [t EXCEPT !.live = [d \in DOMAIN t.live \cup {c} |-> IF d = c THEN text ELSE t.live[d]]]
Drop(t, c) == [t EXCEPT !.live = [d \in DOMAIN t.live \ {c} |-> t.live[d]]]

Requested == {queue[i].composition : i \in DOMAIN queue}

\* CStartCompositionEditSession: with a space where the code is not inline
StartComposition(t) ==
  LET used == DOMAIN t.live \cup Requested
      c == CHOOSE d \in 1 .. Cardinality(used) + 1 : d \notin used
  IN  Put([t EXCEPT !.pComposition = c], c, IF t.inline THEN NoText ELSE Space)

\* Mutant: the server keeps the code of a composition that was terminated
TerminatedUntold(t) == [t EXCEPT !.pComposition = None]

\* OnCompositionTerminated calls _AbortComposition; its CEndCompositionEditSession
\* finds the composition ended and leaves _FinalizeComposition.
Terminated(t) == [ClearComposition(t) EXCEPT !.pComposition = None]

\* CEndCompositionEditSession.  A composition that ends empty is reported as
\* terminated although it is closed normally.
EndComposition(t, c, clear) ==
  IF c = None THEN t
  ELSE IF c \notin DOMAIN t.live THEN [t EXCEPT !.pComposition = None]
  ELSE IF clear THEN Terminated(Drop(t, c))
  ELSE [Drop(t, c) EXCEPT !.pComposition = None, !.text = @ \o t.live[c]]

InsertText(t, commit) ==
  IF t.pComposition \in DOMAIN t.live THEN Put(t, t.pComposition, commit) ELSE t

\* CInlinePreeditEditSession
ShowInlinePreedit(t, pre) ==
  IF t.pComposition \in DOMAIN t.live THEN Put(t, t.pComposition, pre) ELSE t

\* A composition that has no text when the session is over is terminated.
Closed(t) ==
  IF t.pComposition \in DOMAIN t.live /\ t.live[t.pComposition] = NoText
  THEN Terminated(Drop(t, t.pComposition)) ELSE t

\* CGetTextExtentEditSession asks for the position of the code, which the
\* application may not know; _SetCompositionPosition tells the server.
Extents(t) == {t} \cup (IF Active(t) THEN {Spoil(t)} ELSE {})

\* Mutant: the text is put into the composition there is
CommittedInPlace(t, commit) ==
  IF commit = <<>> THEN t
  ELSE LET u == InsertText(t, commit) IN EndComposition(u, u.pComposition, FALSE)

\* WeaselTSF::DoEditSession: first the commit, then the state of the code
Committed(t, commit) ==
  IF commit = <<>> THEN t
  ELSE LET t1 == IF t.pComposition = None THEN StartComposition(t) ELSE t
           t2 == InsertText(t1, commit)
       IN  EndComposition(t2, t2.pComposition, FALSE)

\* Mutant: starts a composition although there is one
StartedAgain(t) ==
  IF t.composing /\ Cardinality(DOMAIN t.live) < 2 THEN StartComposition(t)
  ELSE IF ~t.composing THEN EndComposition(t, t.pComposition, TRUE) ELSE t

Composed(t) ==
  IF t.composing /\ t.pComposition = None THEN StartComposition(t)
  ELSE IF ~t.composing THEN EndComposition(t, t.pComposition, TRUE) ELSE t

\* parsing it leaves _status as it was where it says nothing
Parsed(t) ==
  IF t.buffer = Spoilt THEN t ELSE [t EXCEPT !.composing = t.buffer.pre # NoCode]

\* Mutant: inline_preedit is remembered and the code is not
ShowsAnything(t) ==
  LET r == t.buffer
      u == Composed(Committed(Parsed(t), r.commit))
  IN  Extents(Closed(IF t.inline /\ u.pComposition # None
                     THEN ShowInlinePreedit(u, r.pre) ELSE u))

DoEditSession(t) ==
  LET r == t.buffer
      u == Composed(Committed(Parsed(t), r.commit))
  IN  Extents(Closed(IF t.inline /\ r # Spoilt /\ u.pComposition # None
                     THEN ShowInlinePreedit(u, r.pre) ELSE u))

-----------------------------------------------------------------------------
(* RequestEditSession.  The application grants it at once, or later and in *)
(* order.                                                                  *)

Session(kind, c) == [kind |-> kind, composition |-> c]

Run(t, x) ==
  CASE x.kind = "update" -> DoEditSession(t)
    [] x.kind = "end"    -> {EndComposition(t, x.composition, TRUE)}
    [] x.kind = "extent" -> Extents(t)

Waits(kind) == \E i \in DOMAIN queue : queue[i].kind = kind

AtOnce(outcomes) == queue = <<>> /\ s' \in outcomes /\ UNCHANGED queue
Later(t, xs) ==
  /\ "defer" \in Environment /\ Len(queue) < MaxWaiting
  /\ s' = [t EXCEPT !.crowded = @ \/ (Waits("update") /\ xs[1].kind # "extent")]
  /\ queue' = queue \o xs
Request(t, x) == AtOnce(Run(t, x)) \/ Later(t, <<x>>)

\* _EndComposition from outside an edit session
RequestEnd(t) == Request(t, Session("end", t.pComposition))

\* _AbortComposition
Abort(t) ==
  LET u == ClearComposition(t)
  IN  IF u.pComposition = None THEN s' = u /\ UNCHANGED queue ELSE RequestEnd(u)

\* _UpdateComposition, which notes whether its session has to wait
UpdateComposition(t) ==
  \/ /\ AtOnce(UNION {Extents(u) : u \in DoEditSession(t)})
     /\ async_edit' = FALSE
  \/ /\ Later(t, <<Session("update", None), Session("extent", None)>>)
     /\ async_edit' = TRUE

Grant ==
  /\ queue # <<>>
  /\ s' \in Run(s, Head(queue))
  /\ queue' = Tail(queue)
  /\ UNCHANGED <<async_edit, off, focused, running, faults, keys, history>>

-----------------------------------------------------------------------------
(* Keys.                                                                   *)

\* What the server makes of a key: it commits a text or not, leaves some
\* code or none.  A closing session takes no text with it.
NextCommits == {<<>>} \cup (IF made < MaxCommits THEN {<<made + 1>>} ELSE {})
Effect(t, pre, commit) == [t EXCEPT !.pre = pre, !.unread = @ \o commit]
Effects(t) == {Effect(t, p, c) : p \in Codes \cup {NoCode}, c \in NextCommits}

\* The texts that are new when the server's session goes from t to u.
NewTexts(t, u) == Len(u.unread) - Len(t.unread)

Commits(new) ==
  /\ made' = made + new
  /\ due' = IF new = 0 THEN due ELSE Append(due, made + 1)

Outcome(t, eaten, posted, new) ==
  [s |-> t, eaten |-> eaten, posted |-> posted, new |-> new]

\* _ProcessKeyEvent.  A key that ConvertKeyEvent does not know is not sent.
Posted(t, u, eaten) == Outcome(Respond(u), eaten, TRUE, NewTexts(t, u))
Kept(t) == Outcome(t, FALSE, FALSE, 0)
ProcessKeyEvent ==
  LET t == Connected(s)
      known == IF t.session = "good" THEN Effects(t) ELSE {}
      unknown == IF t.session # "good" \/ "unknown" \in Environment THEN {t} ELSE {}
  IN  IF off THEN {Kept(s)}
      ELSE {Posted(t, u, eaten) : u \in known, eaten \in BOOLEAN} \cup {Kept(u) : u \in unknown}

\* One of the outcomes, of which the caller keeps answer.s and answer.eaten
KeyStep(answer) ==
  /\ IF answer.posted
     THEN sent' = (IF sent = 0 THEN 1 ELSE 2) /\ behind' = FALSE /\ Commits(answer.new)
     ELSE UNCHANGED <<sent, history>>
  /\ UNCHANGED <<off, focused, running, faults>>
NoKeyStep ==
  UNCHANGED <<s, queue, async_edit, sent, history, off, focused, running, faults>>

\* The key event the application is busy with: "down" or "up", and what the
\* last OnTestKeyDown or OnTestKeyUp answered.
NoEvent == [key |-> "none", answer |-> "none"]
Event(key, answer) == [key |-> key, answer |-> answer]
Tested(key, eaten) ==
  event' = IF eaten THEN Event(key, "eaten")
           ELSE IF "retest" \in Environment THEN Event(key, "left") ELSE NoEvent

Key(key) ==
  /\ event = NoEvent /\ focused
  /\ Len(s.text) <= MaxCommits    \* bound: texts that are read again
  /\ event' = Event(key, "none")
  /\ sent' = 0
  /\ UNCHANGED <<s, queue, async_edit, down, up, off, focused, running, faults, history>>

OnTestKeyDown ==
  /\ event.key = "down"
  /\ up' = FALSE
  /\ IF down THEN NoKeyStep /\ UNCHANGED <<down, event>>
     ELSE \E answer \in ProcessKeyEvent :
            /\ KeyStep(answer) /\ UpdateComposition(answer.s)
            /\ down' = answer.eaten /\ Tested("down", answer.eaten)

\* Mutant: does not ask whether the key has been sent
OnKeyDownUnasked ==
  /\ event.key = "down"
  /\ up' = FALSE /\ down' = FALSE /\ event' = NoEvent
  /\ \E answer \in ProcessKeyEvent : KeyStep(answer) /\ UpdateComposition(answer.s)

OnKeyDown ==
  /\ event.key = "down"
  /\ up' = FALSE /\ down' = FALSE /\ event' = NoEvent
  /\ IF down THEN NoKeyStep
     ELSE \E answer \in ProcessKeyEvent :
            KeyStep(answer) /\ UpdateComposition(answer.s)

OnTestKeyUp ==
  /\ event.key = "up"
  /\ down' = FALSE
  /\ IF up THEN NoKeyStep /\ UNCHANGED <<up, event>>
     ELSE \E answer \in ProcessKeyEvent :
            /\ KeyStep(answer) /\ UpdateComposition(answer.s)
            /\ up' = answer.eaten /\ Tested("up", answer.eaten)

\* does not ask for a session while that of another key waits
OnKeyUp ==
  /\ event.key = "up"
  /\ down' = FALSE /\ up' = FALSE /\ event' = NoEvent
  /\ IF up THEN NoKeyStep
     ELSE \E answer \in ProcessKeyEvent :
            /\ KeyStep(answer)
            /\ IF async_edit THEN s' = answer.s /\ UNCHANGED <<queue, async_edit>>
               ELSE UpdateComposition(answer.s)

-----------------------------------------------------------------------------
(* The mouse, the focus, the keyboard, and what the application does to    *)
(* the composition.                                                        *)

\* the texts the server has handed over
Handed(t) == SubSeq(due, 1, Len(due) - Len(t.unread))

Undisturbed == UNCHANGED <<keys, off, focused, running, faults>>
Quiet == event = NoEvent /\ UNCHANGED <<keys, running, faults>>

\* _SelectCandidateOnCurrentPage; the key that it simulates comes later
Click ==
  /\ focused /\ ~off /\ s.pre # NoCode /\ s.pComposition # None
  /\ \E u \in Effects(s) : Commits(NewTexts(s, u)) /\ s' = Spoil(u)
  /\ behind' = TRUE
  /\ UNCHANGED <<queue, async_edit>> /\ Undisturbed

\* _HandleMousePageEvent, _HandleMouseHoverEvent
Mouse ==
  /\ focused /\ ~off /\ s.pComposition # None
  /\ UpdateComposition(IF s.session = "good" THEN Respond(s)
                       ELSE IF Active(s) THEN Spoil(s) ELSE s)
  /\ behind' = (behind /\ s.session # "good")
  /\ UNCHANGED <<made, due>> /\ Undisturbed

\* OnSetFocus
OnSetFocus(fForeground) ==
  /\ focused
  /\ IF fForeground THEN s' = Spoil(s) /\ UNCHANGED queue ELSE Abort(Spoil(s))
  /\ Quiet /\ UNCHANGED <<async_edit, off, focused, history>>

OnKillThreadFocus ==
  /\ focused /\ focused' = FALSE
  /\ Abort(s)
  /\ Quiet /\ UNCHANGED <<async_edit, off, history>>

\* takes the state of the code out of the answer and no text: that of a click
\* whose key went to another window is not awaited
OnSetThreadFocus ==
  /\ ~focused /\ focused' = TRUE
  /\ due' = Handed(s)
  /\ s' = IF s.session = "good"
          THEN [Respond(s) EXCEPT !.composing = s.pre # NoCode]
          ELSE IF Active(s) THEN Spoil(s) ELSE s
  /\ Quiet /\ UNCHANGED <<queue, async_edit, off, behind, made>>

\* _HandleCompartment, when the keyboard is closed and opened again
CloseKeyboard ==
  /\ "close" \in Environment /\ ~off /\ off' = TRUE
  /\ RequestEnd(ClearComposition([s EXCEPT !.been_off = TRUE]))
  /\ behind' = TRUE
  /\ Quiet /\ UNCHANGED <<async_edit, focused, made, due>>

DisableKeyboard ==
  /\ "disable" \in Environment /\ ~off /\ off' = TRUE
  /\ s' = [s EXCEPT !.been_off = TRUE]
  /\ behind' = TRUE
  /\ Quiet /\ UNCHANGED <<queue, async_edit, focused, made, due>>

OpenKeyboard ==
  /\ off /\ off' = FALSE
  /\ Quiet /\ UNCHANGED <<s, queue, async_edit, focused, history>>

\* _HandleCompartment, when opening and closing switches ascii_mode
ToggleAscii ==
  /\ s' = ClearComposition(Spoil(s))
  /\ behind' = TRUE
  /\ Quiet /\ UNCHANGED <<queue, async_edit, off, focused, made, due>>

\* _HandleCompartment, when the conversion mode is changed: the buffer is parsed
\* again, unless the keyboard is closed
ChangeConversion ==
  /\ off => "disable" \in Environment
  /\ s' = Parsed(s)
  /\ Quiet /\ UNCHANGED <<queue, async_edit, off, focused, history>>

\* OnEndEdit: the caret has left the composition
OnEndEdit ==
  /\ s.pComposition \in DOMAIN s.live
  /\ RequestEnd(s)
  /\ UNCHANGED <<async_edit, history>> /\ Undisturbed

OnLayoutChange ==
  /\ s.pComposition # None
  /\ Request(s, Session("extent", None))
  /\ UNCHANGED <<async_edit, history>> /\ Undisturbed

OnCompositionTerminated(c) ==
  /\ Abort(Drop(s, c))
  /\ UNCHANGED <<async_edit, history>> /\ Undisturbed

LoseServer ==
  /\ running /\ faults < MaxFaults /\ faults' = faults + 1
  /\ running' \in BOOLEAN
  /\ s' = [s EXCEPT !.session = IF @ = "good" THEN "stale" ELSE @,
                    !.pre = NoCode, !.unread = <<>>]
  /\ due' = Handed(s)
  /\ UNCHANGED <<queue, async_edit, keys, off, focused, behind, made>>

StartServer ==
  /\ ~running /\ running' = TRUE
  /\ UNCHANGED <<s, queue, async_edit, off, focused, faults, keys, history>>

-----------------------------------------------------------------------------
Init ==
  /\ s \in [app : Applications,     \* the application
             inline : BOOLEAN,       \* config.inline_preedit: the code is in the document
             pre : {NoCode},         \* the code in the server's session
             unread : {<<>>},        \* commit_text_ of that session
             session : {"good"},     \* session_id of the client
             buffer : {Spoilt},      \* the buffer of the pipe
             composing : {FALSE},    \* _status.composing
             pComposition : {None},  \* _pComposition
             live : {<<>>},          \* compositions of the document
             text : {<<>>},          \* committed text in the document
             been_off : {FALSE},     \* history: the keyboard has been closed or disabled
             crowded : {FALSE}]      \* history: while the update of the document waited,
                                     \* another session that changes it was requested
  /\ queue = <<>> /\ async_edit = FALSE
  /\ down = FALSE /\ up = FALSE /\ event = NoEvent /\ sent = 0
  /\ off = FALSE /\ focused = TRUE /\ running = TRUE /\ faults = 0
  /\ behind = FALSE /\ made = 0 /\ due = <<>>

Keyboard ==
  \/ \E k \in {"down", "up"} : Key(k)
  \/ OnTestKeyDown \/ OnKeyDown \/ OnTestKeyUp \/ OnKeyUp
Application ==
  \/ Grant \/ OnEndEdit \/ OnLayoutChange
  \/ \E c \in DOMAIN s.live : OnCompositionTerminated(c)
  \/ \E f \in BOOLEAN : OnSetFocus(f)
  \/ OnKillThreadFocus \/ OnSetThreadFocus
User ==
  \/ Click \/ Mouse \/ CloseKeyboard \/ DisableKeyboard \/ OpenKeyboard
  \/ ToggleAscii \/ ChangeConversion
Next == Keyboard \/ Application \/ User \/ LoseServer \/ StartServer

Spec == Init /\ [][Next]_vars

-----------------------------------------------------------------------------
Fields == {"app", "inline", "pre", "unread", "session", "buffer", "composing",
           "pComposition", "live", "text", "been_off", "crowded"}

\* of s, and of what s becomes in the course of a call
StateOK(t) ==
  /\ DOMAIN t = Fields /\ t.app \in Applications
  /\ {t.inline, t.composing, t.been_off, t.crowded} \subseteq BOOLEAN
  /\ t.pre \in t.app.codes \cup {NoCode}
  /\ {t.unread, t.text} \subseteq Seq(1 .. t.app.commits)
  /\ t.session \in {"good", "stale", "none"}
  /\ t.buffer \in {Spoilt} \cup
       [commit : Seq(1 .. t.app.commits), pre : t.app.codes \cup {NoCode}]
  /\ t.pComposition \in Compositions \cup {None}
  /\ DOMAIN t.live \subseteq Compositions /\ IsFiniteSet(DOMAIN t.live)
  /\ \A c \in DOMAIN t.live : t.live[c] \in t.app.codes \cup {NoText, Space}

Sessions == [kind : {"update", "end", "extent"}, composition : Compositions \cup {None}]

TypeOK ==
  /\ StateOK(s) /\ queue \in Seq(Sessions)
  /\ {down, up, async_edit, off, focused, behind, running} \subseteq BOOLEAN
  /\ event \in [key : {"none", "down", "up"}, answer : {"none", "eaten", "left"}]
  /\ sent \in 0 .. 2 /\ made \in 0 .. MaxCommits /\ due \in Seq(1 .. MaxCommits)
  /\ faults \in 0 .. MaxFaults

\* The text the server commits comes into the document once and in order
\* (Committed, Respond), whatever is clicked, moved, focused or terminated in
\* between.  Not awaited are the text of a click whose key goes to another
\* window, and what a server that is lost had not handed over.  A key
\* is not sent while the keyboard is off and reads what is in the buffer: a
\* response for the second time, or one that was not awaited.
\* A session that is granted late may find its response overwritten.
CommitsArrive ==
  queue = <<>> /\ ~s.been_off /\ "defer" \notin Environment => s.text \o s.unread = due

\* Between two calls the composition of the document is the one
\* _pComposition points to: none is left behind, none is forgotten
\* (StartComposition, EndComposition, Terminated).
OneComposition ==
  queue = <<>> /\ ~s.crowded => DOMAIN s.live = {s.pComposition} \ {None}

\* There is a composition in the document if and only if the server has code,
\* and inline it shows this code.  After a click, a switch to ascii or a key
\* that was not sent because the keyboard is off, the document is behind until
\* the next key; so it is while the server is away, with sessions that are
\* granted late, and after a key that is not converted, which shows again what
\* the application had terminated.
ShowsCode ==
  /\ s.session = "good" /\ ~behind /\ ~off /\ queue = <<>>
  /\ Environment \cap {"defer", "unknown"} = {}
  => /\ s.pComposition # None <=> s.pre # NoCode
     /\ s.inline => \A c \in DOMAIN s.live : s.live[c] = s.pre

\* Committed text comes into the document in the order it was committed and
\* at most once, whatever sessions wait (Grant) and whoever else writes over
\* the response in between: it may be lost there, but is not read again.
NothingTwice ==
  ~s.been_off /\ ~s.crowded => \A i, j \in DOMAIN s.text : i < j => s.text[i] < s.text[j]

\* A key event reaches the server once, though OnTestKeyDown and OnKeyDown
\* both come for it, with clicks and terminations in between, in applications
\* that test a key once.
SentOnce == "retest" \notin Environment => sent <= 1

=============================================================================
