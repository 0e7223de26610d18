------------------------------ MODULE KeyChain ------------------------------
(***************************************************************************)
(* The way of a key event through the processors of the T9 schema          *)
(* (ConcreteEngine::ProcessKey, data/t9.schema.yaml): schema menu, ascii   *)
(* composer, recognizer, key binder, and the processors that edit.  A      *)
(* processor takes the key, rejects it, or leaves it to the next; the key  *)
(* binder replaces keys by others, which it sends through the chain again  *)
(* while redirecting_ keeps it from seeing them.                           *)
(*                                                                         *)
(* Module Context has the composition in full; here it is the typed code,  *)
(* the caret at its end, and a selection commits all of it.                *)
(***************************************************************************)
EXTENDS Integers, SequencesExt

CONSTANTS
  Translatable,  \* the codes for whose last segment there are candidates
  MaxLen         \* bound: the longest code that is typed

ASSUME KeyChainAssumption ==
  /\ MaxLen \in Nat \ {0}
  /\ <<>> \notin Translatable

Keys == {"2", "KP_2", "KP_Subtract", "minus", "period", "a", "A", "at", "space", "BackSpace",
         "Return", "Escape", "Control_grave", "Control_Shift_2"}
Shifts == {"Shift_L", "Shift_R"}
ModKeys == Shifts \cup {"Control_L"}
ModOf(m) == IF m \in Shifts THEN "shift" ELSE "ctrl"

\* The keys are what KeyEvent::keycode() is; the modifiers it needs to be typed
\* (the ascii letter A is Shift+a, "at" is Shift+2).
Mods(key) ==
  CASE key \in {"at", "A"}       -> {"shift"}
    [] key = "Control_grave"     -> {"ctrl"}
    [] key = "Control_Shift_2"   -> {"shift", "ctrl"}
    [] OTHER                     -> {}

\* the printable character of a key, 0x20..0x7e
Printable == {"2", "minus", "period", "a", "A", "at", "space"}
Char(key) == CASE key = "minus" -> "-" [] key = "period" -> "." [] key = "at" -> "@"
               [] key = "space" -> " " [] OTHER -> key

VARIABLES
  e,       \* the engine: the fields the processors keep (see Fresh)
  held,    \* the modifier keys that are down
  caps,    \* the Caps Lock state of the keyboard
  soon,    \* now < toggle_expired_
  before,  \* history: the last key that was not for the schema menu or, under
           \* Caps Lock, for the application: a modifier, the period, "other"
  tapped,  \* history: "shift" or "ctrl" when no key was pressed since such a key
  by       \* history: what switched ascii_mode on

vars == <<e, held, caps, soon, before, tapped, by>>

\* The components of a schema that was just applied.
Fresh == [input |-> <<>>, paging |-> FALSE, ascii_mode |-> FALSE,
          connection_ |-> FALSE,          \* AsciiComposer listens to updates
          pressed |-> "none",             \* shift_key_pressed_, ctrl_key_pressed_
          toggle_with_caps_ |-> FALSE,
          last_key_ |-> "none",           \* KeyBinder
          active_ |-> FALSE]              \* Switcher

-----------------------------------------------------------------------------
(* The context.                                                            *)

IsComposing(s) == s.input # <<>>
HasMenu(s) == ~s.ascii_mode /\ s.input \in Translatable

\* a defect: the mode is not restored
ClearOnly(s) == [s EXCEPT !.input = <<>>, !.paging = FALSE, !.connection_ = FALSE]

\* a defect: the composer goes on listening
ClearKeeps(s) == [s EXCEPT !.input = <<>>, !.paging = FALSE]

\* Clear, and the update it notifies: AsciiComposer::OnContextUpdate leaves
\* the temporary ascii mode.
Clear(s) == [s EXCEPT !.input = <<>>, !.paging = FALSE, !.connection_ = FALSE,
                      !.ascii_mode = @ /\ ~s.connection_]

Commit(s) == IF IsComposing(s) THEN Clear(s) ELSE s

PushInput(s, c) == [s EXCEPT !.input = Append(@, c), !.paging = FALSE]

PopInput(s) == IF Len(s.input) = 1 THEN Clear(s)
               ELSE [s EXCEPT !.input = Front(@), !.paging = FALSE]

\* set_option, and the refresh of the composition
SetAsciiMode(s, on) == [s EXCEPT !.ascii_mode = on, !.paging = FALSE]

-----------------------------------------------------------------------------
(* The processors: each returns the engine and what became of the key.     *)

Res(s, r) == [s |-> s, r |-> r]
Noop(s) == Res(s, "noop")
Accepted(s) == Res(s, "accepted")
Rejected(s) == Res(s, "rejected")

Plain(ev) == ev.mods = {}

\* default.yaml, ascii_composer/switch_key
Style(m) == IF m = "Shift_L" THEN "inline" ELSE "commit_text"

\* AsciiComposer::SwitchAsciiMode
SwitchAsciiMode(s, on, style) ==
  LET t == [s EXCEPT !.connection_ = FALSE]
      ended == CASE style = "inline"      -> [t EXCEPT !.connection_ = on]
                 [] style = "commit_text" -> Commit(t)
                 [] style = "clear"       -> Clear(t)
  IN  SetAsciiMode(IF IsComposing(s) THEN ended ELSE s, on)

\* a defect: toggle_with_caps_ is not touched
ToggleAsciiModeOnly(s, m) ==
  IF m \in Shifts THEN SwitchAsciiMode(s, ~s.ascii_mode, Style(m)) ELSE s

\* AsciiComposer::ToggleAsciiModeWithKey
ToggleAsciiModeWithKey(s, m) ==
  IF m \in Shifts
    THEN [SwitchAsciiMode(s, ~s.ascii_mode, Style(m)) EXCEPT !.toggle_with_caps_ = FALSE]
    ELSE s

\* AsciiComposer::ProcessCapsLock, with good_old_caps_lock
ProcessCapsLock(s, ev) ==
  CASE ev.key = "Caps_Lock" ->
         LET t == [s EXCEPT !.pressed = "none"]
         IN  IF ~s.toggle_with_caps_ /\ s.ascii_mode THEN Rejected(t)
             ELSE Accepted(SwitchAsciiMode([t EXCEPT !.toggle_with_caps_ = ~ev.caps],
                                           ~ev.caps, "clear"))
    [] ev.key # "Caps_Lock" /\ ev.caps -> Rejected(s)
    [] OTHER -> Noop(s)

\* A Shift or Control key, down or up.
ModifierKey(s, ev, now) ==
  IF ev.release
    THEN LET t == [s EXCEPT !.pressed = "none"]
         IN  Noop(IF s.pressed = ModOf(ev.key) /\ now
                    THEN ToggleAsciiModeWithKey(t, ev.key) ELSE t)
    ELSE Noop(IF s.pressed = "none" THEN [s EXCEPT !.pressed = ModOf(ev.key)] ELSE s)

\* a defect: a key typed while Shift is down does not end the tap
OtherKeyOnly(s, ev) ==
  IF s.ascii_mode /\ ~IsComposing(s) THEN Rejected(s)
  ELSE IF s.ascii_mode /\ ev.key \in Printable THEN Accepted(PushInput(s, Char(ev.key)))
  ELSE Noop(s)

\* Any other key; in ascii mode it is for the application, or for the code.
OtherKey(s, ev) ==
  LET t == [s EXCEPT !.pressed = "none"]
  IN  IF "ctrl" \in ev.mods THEN Noop(t)
      ELSE IF s.ascii_mode /\ ~IsComposing(s) THEN Rejected(t)
      ELSE IF s.ascii_mode /\ ev.key \in Printable
        THEN Accepted(PushInput(t, Char(ev.key)))
      ELSE Noop(t)

\* AsciiComposer::ProcessKeyEvent
AsciiComposer(s, ev, now) ==
  LET byCaps == ProcessCapsLock(s, ev)
  IN  IF {"shift", "ctrl"} \subseteq ev.mods THEN Noop([s EXCEPT !.pressed = "none"])
      ELSE IF byCaps.r # "noop" THEN byCaps
      ELSE IF ev.key \in ModKeys THEN ModifierKey(s, ev, now)
      ELSE OtherKey(s, ev)

\* Recognizer::ProcessKeyEvent with the pattern "uppercase": a capital letter
\* and what may follow it, up to the end of the code.
Uppercase(code) == \E i \in 1..Len(code) :
  code[i] = "A" /\ \A j \in i..Len(code) : code[j] \notin {"@", " "}
Recognizer(s, ev) ==
  IF "ctrl" \notin ev.mods /\ ~ev.release /\ ev.key \in Printable \ {"space"}
     /\ Uppercase(Append(s.input, Char(ev.key)))
    THEN Accepted(PushInput(s, Char(ev.key)))
    ELSE Noop(s)

\* Speller::ProcessKeyEvent
Speller(s, ev) ==
  IF ev.key = "2" THEN Accepted(PushInput(s, Char(ev.key))) ELSE Noop(s)

\* Selector::ProcessKeyEvent; "at" is the second of alternative_select_keys.
Selector(s, ev) ==
  IF ~IsComposing(s) \/ s.ascii_mode THEN Noop(s)
  ELSE IF ev.key \in {"Page_Up", "Page_Down"} THEN Accepted([s EXCEPT !.paging = TRUE])
  ELSE IF ev.key = "at" THEN Accepted(IF HasMenu(s) THEN Commit(s) ELSE s)
  ELSE Noop(s)

\* Punctuator::ProcessKeyEvent; the period is { commit: ... }.
Punctuator(s, ev) ==
  IF ev.key = "period" THEN Accepted(Commit(PushInput(s, ".")))
  ELSE Noop(s)

\* ExpressEditor::ProcessKeyEvent
ExpressEditor(s, ev) ==
  IF ev.release THEN Rejected(s)
  ELSE IF IsComposing(s) /\ ev.key \in {"space", "Return"} THEN Accepted(Commit(s))
  ELSE IF IsComposing(s) /\ ev.key = "BackSpace" THEN Accepted(PopInput(s))
  ELSE IF IsComposing(s) /\ ev.key = "Escape" THEN Accepted(Clear(s))
  ELSE IF "ctrl" \notin ev.mods /\ ev.key \in Printable \ {"space"}
    THEN Rejected(Commit(s))                        \* DirectCommit
  ELSE Noop(s)

\* The next processor has the key when the ones before it left it.
Then(p, next) == IF p.r = "noop" THEN next ELSE p

Editing(s, ev) ==
  LET p1 == Speller(s, ev)
      p2 == Then(p1, Selector(p1.s, ev))
      p3 == Then(p2, Punctuator(p2.s, ev))
  IN  IF ev.release \/ "ctrl" \in ev.mods THEN ExpressEditor(s, ev)
      ELSE Then(p3, ExpressEditor(p3.s, ev))

-----------------------------------------------------------------------------
(* The key binder.                                                         *)

\* t9.schema.yaml, key_binder/bindings: what a key is replaced by, the first
\* binding whose condition holds (KeyBindingConditions).
Binding(s, key) ==
  CASE key = "2" /\ HasMenu(s)                       -> "at"
    [] key = "2" /\ ~HasMenu(s) /\ IsComposing(s)    -> "2"
    [] key = "2" /\ ~HasMenu(s) /\ ~IsComposing(s)   -> "F20"
    [] key = "KP_2"                                  -> "2"
    [] key = "KP_Subtract"                           -> "minus"
    [] key = "minus" /\ HasMenu(s)                   -> "Page_Up"
    [] key = "period" /\ HasMenu(s)                  -> "Page_Down"
    [] key = "Control_Shift_2"                       -> "toggle ascii_mode"
    [] OTHER                                         -> "none"

\* the defect that only a key other than the period is remembered by
ReinterpretPagingKeyOnly(s, ev) ==
  IF ev.release \/ ~Plain(ev) THEN s
  ELSE LET inserted == s.last_key_ = "period" /\ ev.key = "a" /\ IsComposing(s)
                       /\ Last(s.input) # "."
           t == IF inserted THEN PushInput(s, ".") ELSE s
       IN  IF ev.key = "period" THEN [t EXCEPT !.last_key_ = "period"] ELSE t

\* KeyBinder::ReinterpretPagingKey: a period that turned the page is typed
\* after all when a letter follows.  It always leaves the key to the next.
ReinterpretPagingKey(s, ev) ==
  LET ch == IF Plain(ev) THEN ev.key ELSE "none"
      again == ch = "period" /\ s.last_key_ = "period"
      inserted == s.last_key_ = "period" /\ ch = "a" /\ IsComposing(s)
                  /\ Last(s.input) # "."
      t == IF inserted THEN PushInput(s, ".") ELSE s
  IN  IF ev.release THEN s
      ELSE [t EXCEPT !.last_key_ = IF ch = "period" /\ ~again THEN ch ELSE "none"]

Reinterpreted(s, ev) == ReinterpretPagingKey(s, ev).input # s.input

\* ProcessKey for the keys of a binding: redirecting_ is set.
Redirected(s, key, now) ==
  LET ev == [key |-> key, mods |-> IF key = "at" THEN {"shift"} ELSE {},
             caps |-> FALSE, release |-> FALSE]
      p1 == AsciiComposer(s, ev, now)
      p2 == Then(p1, Recognizer(p1.s, ev))
  IN  Then(p2, Editing(p2.s, ev)).s

\* KeyBinder::PerformKeyBinding
PerformKeyBinding(s, send, now) ==
  IF send = "toggle ascii_mode" THEN SetAsciiMode(s, ~s.ascii_mode)
  ELSE Redirected(s, send, now)

\* a defect: the keys of a binding are rebound as if they had been typed
KeyBinderAgain(s, ev, now) ==
  LET t == ReinterpretPagingKey(s, ev)
      send == Binding(t, ev.key)
      again == Binding(t, send)
  IN  IF Reinterpreted(s, ev) \/ ev.release \/ send = "none" THEN Noop(t)
      ELSE Accepted(PerformKeyBinding(t, IF again = "none" THEN send ELSE again, now))

\* KeyBinder::ProcessKeyEvent
KeyBinder(s, ev, now) ==
  LET t == ReinterpretPagingKey(s, ev)
      send == Binding(t, ev.key)
  IN  IF Reinterpreted(s, ev) \/ ev.release \/ send = "none" THEN Noop(t)
      ELSE Accepted(PerformKeyBinding(t, send, now))

-----------------------------------------------------------------------------
(* The engine.                                                             *)

\* Switcher::ProcessKeyEvent: its hotkey, and every key while its menu is
\* open.  Return applies the schema that is highlighted.
Switcher(s, ev) ==
  IF ev.key = "Control_grave" THEN Accepted([s EXCEPT !.active_ = TRUE])
  ELSE IF ~s.active_ THEN Noop(s)
  ELSE IF ev.release THEN Accepted(s)
  ELSE IF ev.key = "Escape" THEN Accepted([s EXCEPT !.active_ = FALSE])
  ELSE IF ev.key = "Return" THEN Accepted(Fresh)
  ELSE Accepted(s)

\* ConcreteEngine::ProcessKey
ProcessKey(s, ev, now) ==
  LET p1 == Switcher(s, ev)
      p2 == Then(p1, AsciiComposer(p1.s, ev, now))
      p3 == Then(p2, Recognizer(p2.s, ev))
      p4 == Then(p3, KeyBinder(p3.s, ev, now))
  IN  Then(p4, Editing(p4.s, ev)).s

-----------------------------------------------------------------------------
(* The keyboard.                                                           *)

Init ==
  /\ e = Fresh /\ held = {} /\ caps = FALSE /\ soon = FALSE
  /\ before = "none" /\ tapped = "none" /\ by = "none"

\* What switched the ascii mode on, when cause changed the engine.
Cause(cause) ==
  CASE ~e'.ascii_mode -> "none"
    [] e'.ascii_mode /\ e.ascii_mode -> by
    [] OTHER -> cause

Event(key, down, on, release) ==
  [key |-> key, mods |-> {ModOf(m) : m \in down}, caps |-> on, release |-> release]

Pressed(ev) ==
  /\ e' = ProcessKey(e, ev, soon)
  /\ Len(e'.input) <= MaxLen
  /\ before' = IF e.active_ \/ ev.caps \/ ev.key = "Control_grave" THEN before
               ELSE IF ev.key \in ModKeys \cup {"period"} THEN ev.key ELSE "other"

\* A key that is no modifier.
Press(key) ==
  LET ev == Event(key, held, caps, FALSE) IN
  /\ ev.mods = Mods(key)
  /\ Pressed(ev)
  /\ tapped' = "none" /\ by' = Cause("binding")
  /\ UNCHANGED <<held, caps, soon>>

\* Caps Lock; the event is sent with the state before it.
PressCaps ==
  /\ held = {}
  /\ Pressed(Event("Caps_Lock", held, caps, FALSE))
  /\ caps' = ~caps
  /\ tapped' = "none" /\ by' = Cause("caps")
  /\ UNCHANGED <<held, soon>>

\* Another window had the keyboard when Caps Lock was pressed.
CapsElsewhere ==
  /\ held = {}
  /\ caps' = ~caps
  /\ UNCHANGED <<e, held, soon, before, tapped, by>>

\* A modifier key goes down, or repeats; the key pressed last does.
PressMod(m) ==
  /\ m \in held => before = m
  /\ Pressed(Event(m, held \cup {m}, caps, FALSE))
  /\ held' = held \cup {m}
  /\ tapped' = IF m \in held THEN tapped ELSE ModOf(m)
  /\ soon' = (soon \/ (e.pressed = "none" /\ e'.pressed # "none"))
  /\ by' = by /\ UNCHANGED caps

\* It goes up.  A toggle that happens while composing with Shift_L is meant
\* for this composition only.
ReleaseMod(m) ==
  /\ m \in held /\ held' = held \ {m}
  /\ e' = ProcessKey(e, Event(m, held', caps, TRUE), soon)
  /\ by' = Cause(IF m = "Shift_L" /\ IsComposing(e) THEN "temporary" ELSE "tap")
  /\ UNCHANGED <<caps, soon, before, tapped>>

\* 500 milliseconds have passed since toggle_expired_ was set.
Expire == soon /\ soon' = FALSE /\ UNCHANGED <<e, held, caps, before, tapped, by>>

Next ==
  \/ \E key \in Keys : Press(key)
  \/ PressCaps
  \/ CapsElsewhere
  \/ \E m \in ModKeys : PressMod(m) \/ ReleaseMod(m)
  \/ Expire

Spec == Init /\ [][Next]_vars

-----------------------------------------------------------------------------
(* Properties.                                                             *)

\* The composer listens for the end of a composition only while there is one.
Engines ==
  [input : Seq({Char(key) : key \in Printable}), paging : BOOLEAN, ascii_mode : BOOLEAN,
   connection_ : BOOLEAN, pressed : {"none", "shift", "ctrl"}, toggle_with_caps_ : BOOLEAN,
   last_key_ : {"none", "period"}, active_ : BOOLEAN]

TypeOK ==
  /\ e \in Engines /\ Len(e.input) <= MaxLen
  /\ e.connection_ => IsComposing(e)
  /\ e.paging => IsComposing(e)
  /\ held \subseteq ModKeys /\ caps \in BOOLEAN /\ soon \in BOOLEAN
  /\ before \in ModKeys \cup {"none", "period", "other"} /\ tapped \in {"none", "shift", "ctrl"}
  /\ by \in {"none", "binding", "caps", "tap", "temporary"}
  /\ (by = "none") = ~e.ascii_mode

\* An ascii mode that Shift_L switched on for a composition ends with the
\* composition, however that ends: committed, deleted, cleared, by a change
\* of the schema (AsciiComposer::OnContextUpdate).
TemporaryMode == [][by = "temporary" /\ ~IsComposing(e') => ~e'.ascii_mode]_vars

\* Releasing a modifier key changes the mode only if it went down within the
\* last half second and no key was pressed in between, not even one that the
\* schema menu took.
ToggleIsATap == [][\A m \in ModKeys :
  ReleaseMod(m) /\ e'.ascii_mode # e.ascii_mode => tapped = ModOf(m) /\ soon]_vars

\* "temporarily disable good-old (uppercase) Caps Lock as mode switch key in
\* case the user switched to ascii mode with other keys, eg. with Shift"
\* (ascii_composer.cc): what Shift switched on, Caps Lock does not touch.
CapsLeavesShiftMode ==
  [][PressCaps /\ by \in {"tap", "temporary"} => e'.ascii_mode]_vars

\* A letter that reaches the key binder types the period before it only if
\* the period was the key pressed last, whatever was composed, committed or
\* recognized since (last_key_ outlives all of that, and is not updated by the
\* keys that other processors take first); keys for the schema menu, and
\* those that Caps Lock passes to the application, do not count.
PeriodOnlyAfterPeriod == [][
  LET ev == Event("a", {}, FALSE, FALSE)
  IN  /\ Press("a") /\ ~caps /\ ~e.active_ /\ ~e.ascii_mode
      /\ Recognizer(e, ev).r = "noop" /\ Reinterpreted(e, ev)
      => before = "period"]_vars

\* A keypad digit extends the code whether or not candidates are shown
\* (t9.schema.yaml): it is not taken for a key of the main row.
KeypadSpells == [][Press("KP_2") /\ ~e.ascii_mode /\ ~e.active_ /\ ~caps =>
  e'.input = Append(e.input, "2")]_vars

=============================================================================
