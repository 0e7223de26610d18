--------------------------- MODULE KeyChainProofs ---------------------------
(***************************************************************************)
(* What the chain of processors does to the modes of the keyboard: TLAPS    *)
(* proves the properties of module KeyChain for codes of any length and any  *)
(* set of codes with candidates.                                            *)
(***************************************************************************)
EXTENDS KeyChain, SequenceTheorems, TLAPS

------------------------------------------------------------------------------
(* The context *)

Good(s) ==
  /\ s \in Engines
  /\ s.connection_ => IsComposing(s)
  /\ s.paging => IsComposing(s)

\* What editing the code leaves alone: all the processors keep, and the ascii
\* mode unless the composition it was for has ended.
Edited(s, t) ==
  /\ Good(t)
  /\ t.pressed = s.pressed /\ t.toggle_with_caps_ = s.toggle_with_caps_
  /\ t.last_key_ = s.last_key_ /\ t.active_ = s.active_
  /\ t.ascii_mode => s.ascii_mode /\ (s.connection_ => t.connection_)

LEMMA EditedAgain ==
  ASSUME NEW s, NEW t, NEW u, Edited(s, t), Edited(t, u)
  PROVE  Edited(s, u)
BY DEF Edited

LEMMA NotEdited == \A s : Good(s) => Edited(s, s)
BY DEF Edited

LEMMA CharIsChar ==
  ASSUME NEW key \in Printable
  PROVE  Char(key) \in {Char(k) : k \in Printable}
OBVIOUS

LEMMA ClearEdits ==
  ASSUME NEW s \in Engines
  PROVE  Edited(s, Clear(s)) /\ ~IsComposing(Clear(s)) /\ Clear(s).input = <<>>
<1> DEFINE t == Clear(s)
<1>1. /\ t.input = <<>> /\ ~t.paging /\ ~t.connection_ /\ t.pressed = s.pressed
      /\ t.toggle_with_caps_ = s.toggle_with_caps_ /\ t.last_key_ = s.last_key_ /\ t.active_ = s.active_
  BY DEF Clear, Engines
<1>2. t.ascii_mode => s.ascii_mode /\ ~s.connection_
  BY DEF Clear, Engines
<1>3. t \in Engines
  <2>1. <<>> \in Seq({Char(k) : k \in Printable})
    OBVIOUS
  <2>2. (s.ascii_mode /\ ~s.connection_) \in BOOLEAN
    OBVIOUS
  <2>. QED
    BY <2>1, <2>2 DEF Clear, Engines
<1>. HIDE DEF t
<1>4. Edited(s, t) /\ ~IsComposing(t) /\ t.input = <<>>
  BY <1>1, <1>2, <1>3 DEF Edited, Good, IsComposing
<1>. QED
  BY <1>4 DEF t

LEMMA PushEdits ==
  ASSUME NEW s, Good(s), NEW key \in Printable
  PROVE  /\ Edited(s, PushInput(s, Char(key)))
         /\ PushInput(s, Char(key)).input = Append(s.input, Char(key))
         /\ PushInput(s, Char(key)).ascii_mode = s.ascii_mode
<1> DEFINE t == PushInput(s, Char(key))
<1>1. s \in Engines /\ s.input \in Seq({Char(k) : k \in Printable})
  BY DEF Good, Engines
<1>2. /\ Append(s.input, Char(key)) \in Seq({Char(k) : k \in Printable})
      /\ Append(s.input, Char(key)) # <<>>
  BY <1>1, CharIsChar
<1>3. /\ t \in Engines /\ t.input = Append(s.input, Char(key)) /\ ~t.paging
      /\ t.ascii_mode = s.ascii_mode /\ t.connection_ = s.connection_ /\ t.pressed = s.pressed
      /\ t.toggle_with_caps_ = s.toggle_with_caps_ /\ t.last_key_ = s.last_key_ /\ t.active_ = s.active_
  BY <1>1, <1>2 DEF PushInput, Engines
<1>. HIDE DEF t
<1>4. Edited(s, t)
  BY <1>2, <1>3 DEF Edited, Good, IsComposing
<1>. QED
  BY <1>3, <1>4 DEF t

LEMMA CommitEdits ==
  ASSUME NEW s, Good(s)
  PROVE  Edited(s, Commit(s))
BY ClearEdits, NotEdited DEF Commit, Good

LEMMA PopEdits ==
  ASSUME NEW s, Good(s), IsComposing(s)
  PROVE  Edited(s, PopInput(s))
<1>1. s \in Engines /\ s.input \in Seq({Char(k) : k \in Printable}) /\ s.input # <<>>
  BY DEF Good, Engines, IsComposing
<1>2. CASE Len(s.input) = 1
  BY <1>1, <1>2, ClearEdits DEF PopInput
<1>3. CASE Len(s.input) # 1
  <2> DEFINE f == Front(s.input)
             t == PopInput(s)
  <2>1. f \in Seq({Char(k) : k \in Printable}) /\ f # <<>>
    <3> DEFINE n == Len(s.input)
    <3>1. n \in Nat /\ n > 1 /\ \A i \in 1..n : s.input[i] \in {Char(k) : k \in Printable}
      <4>1. n \in Nat /\ n # 0 /\ n # 1
        BY <1>1, <1>3, EmptySeq
      <4>2. \A i \in Nat : i # 0 /\ i # 1 => i > 1
        OBVIOUS
      <4>3. \A i \in 1..n : s.input[i] \in {Char(k) : k \in Printable}
        BY <1>1, ElementOfSeq
      <4>. HIDE DEF n
      <4>. QED
        BY <4>1, <4>2, <4>3
    <3>2. f = SubSeq(s.input, 1, n - 1)
      BY DEF Front
    <3>3. 1 \in Int /\ n - 1 \in Int /\ \A i \in 1 .. n - 1 : s.input[i] \in {Char(k) : k \in Printable}
      BY <3>1
    <3>. HIDE DEF n
    <3>4. /\ f \in Seq({Char(k) : k \in Printable})
          /\ Len(f) = IF 1 <= n - 1 THEN n - 1 - 1 + 1 ELSE 0
      BY <3>2, <3>3, SubSeqProperties
    <3>5. Len(f) # 0
      BY <3>1, <3>4
    <3>. QED
      BY <3>4, <3>5, EmptySeq
  <2>. HIDE DEF f
  <2>2. t = [s EXCEPT !.input = f, !.paging = FALSE]
    BY <1>3 DEF PopInput, f
  <2>3. /\ t \in Engines /\ t.input = f /\ ~t.paging
        /\ t.ascii_mode = s.ascii_mode /\ t.connection_ = s.connection_ /\ t.pressed = s.pressed
        /\ t.toggle_with_caps_ = s.toggle_with_caps_ /\ t.last_key_ = s.last_key_ /\ t.active_ = s.active_
    BY <1>1, <2>1, <2>2 DEF Engines
  <2>. HIDE DEF t
  <2>4. Edited(s, t)
    BY <2>1, <2>3 DEF Edited, Good, IsComposing
  <2>. QED
    BY <2>4 DEF t
<1>. QED
  BY <1>2, <1>3

\* One field of the engine.
LEMMA Fields ==
  ASSUME NEW s, Good(s), NEW p \in {"none", "shift", "ctrl"}, NEW k \in {"none", "period"}, NEW b \in BOOLEAN
  PROVE  /\ Good([s EXCEPT !.pressed = p]) /\ [s EXCEPT !.pressed = p].pressed = p
         /\ Good([s EXCEPT !.last_key_ = k]) /\ [s EXCEPT !.last_key_ = k].last_key_ = k
         /\ Good([s EXCEPT !.active_ = b]) /\ [s EXCEPT !.active_ = b].active_ = b
         /\ Good([s EXCEPT !.toggle_with_caps_ = b])
         /\ [s EXCEPT !.toggle_with_caps_ = b].toggle_with_caps_ = b
BY DEF Good, IsComposing, Engines

------------------------------------------------------------------------------
(* The processors that edit *)

LEMMA RecognizerEdits ==
  ASSUME NEW s, Good(s), NEW ev
  PROVE  /\ Edited(s, Recognizer(s, ev).s)
         /\ Recognizer(s, ev).r = "noop" => Recognizer(s, ev).s = s
         /\ Recognizer(s, ev).r # "noop" => Uppercase(Recognizer(s, ev).s.input)
<1>1. CASE "ctrl" \notin ev.mods /\ ~ev.release /\ ev.key \in Printable \ {"space"}
           /\ Uppercase(Append(s.input, Char(ev.key)))
  <2>1. Recognizer(s, ev) = Accepted(PushInput(s, Char(ev.key)))
    BY <1>1 DEF Recognizer
  <2>2. /\ Edited(s, PushInput(s, Char(ev.key)))
        /\ PushInput(s, Char(ev.key)).input = Append(s.input, Char(ev.key))
    BY <1>1, PushEdits
  <2>3. Recognizer(s, ev).s = PushInput(s, Char(ev.key)) /\ Recognizer(s, ev).r # "noop"
    BY <2>1 DEF Accepted, Res
  <2>. QED
    BY <1>1, <2>2, <2>3
<1>2. CASE ~("ctrl" \notin ev.mods /\ ~ev.release /\ ev.key \in Printable \ {"space"}
             /\ Uppercase(Append(s.input, Char(ev.key))))
  <2>1. Recognizer(s, ev) = Noop(s)
    BY <1>2 DEF Recognizer
  <2>. QED
    BY <2>1, NotEdited DEF Noop, Res
<1>. QED
  BY <1>1, <1>2

LEMMA PagingEdits ==
  ASSUME NEW s, Good(s), IsComposing(s)
  PROVE  Edited(s, [s EXCEPT !.paging = TRUE])
BY DEF Good, IsComposing, Engines, Edited

LEMMA ProcessorsEdit ==
  ASSUME NEW s, Good(s), NEW ev
  PROVE  /\ Edited(s, Speller(s, ev).s) /\ Edited(s, Selector(s, ev).s)
         /\ Edited(s, Punctuator(s, ev).s) /\ Edited(s, ExpressEditor(s, ev).s)
<1>1. Edited(s, Speller(s, ev).s)
  <2>1. Edited(s, PushInput(s, Char("2")))
    BY PushEdits DEF Printable
  <2>. QED
    BY <2>1, NotEdited DEF Speller, Accepted, Noop, Res
<1>2. Edited(s, Selector(s, ev).s)
  BY NotEdited, CommitEdits, PagingEdits DEF Selector, Accepted, Noop, Res
<1>3. Edited(s, Punctuator(s, ev).s)
  <2>1. Edited(s, PushInput(s, Char("period"))) /\ Char("period") = "."
    BY PushEdits DEF Printable, Char
  <2>2. Edited(s, Commit(PushInput(s, ".")))
    BY <2>1, CommitEdits, EditedAgain DEF Edited
  <2>. QED
    BY <2>2, NotEdited DEF Punctuator, Accepted, Noop, Res
<1>4. Edited(s, ExpressEditor(s, ev).s)
  <2>1. Edited(s, s) /\ Edited(s, Commit(s)) /\ Edited(s, Clear(s))
    BY NotEdited, CommitEdits, ClearEdits DEF Good
  <2>2. IsComposing(s) => Edited(s, PopInput(s))
    BY PopEdits
  <2>. QED
    BY <2>1, <2>2 DEF ExpressEditor, Accepted, Noop, Rejected, Res
<1>. QED
  BY <1>1, <1>2, <1>3, <1>4

LEMMA ThenEither ==
  ASSUME NEW p, NEW next
  PROVE  /\ p.r = "noop" => Then(p, next) = next
         /\ p.r # "noop" => Then(p, next) = p
BY DEF Then

LEMMA EditingEdits ==
  ASSUME NEW s, Good(s), NEW ev
  PROVE  Edited(s, Editing(s, ev).s)
<1> DEFINE p1 == Speller(s, ev)
           p2 == Then(p1, Selector(p1.s, ev))
           p3 == Then(p2, Punctuator(p2.s, ev))
           p4 == Then(p3, ExpressEditor(p3.s, ev))
<1>1. Edited(s, ExpressEditor(s, ev).s) /\ Edited(s, p1.s)
  BY ProcessorsEdit
<1>2. Editing(s, ev) = IF ev.release \/ "ctrl" \in ev.mods THEN ExpressEditor(s, ev) ELSE p4
  BY DEF Editing
<1>3. Edited(s, p2.s)
  <2>. HIDE DEF p1
  <2>1. Good(p1.s)
    BY <1>1 DEF Edited
  <2>2. Edited(p1.s, Selector(p1.s, ev).s)
    BY <2>1, ProcessorsEdit
  <2>. QED
    BY <1>1, <2>2, ThenEither, EditedAgain
<1>4. Edited(s, p3.s)
  <2>. HIDE DEF p2
  <2>1. Good(p2.s)
    BY <1>3 DEF Edited
  <2>2. Edited(p2.s, Punctuator(p2.s, ev).s)
    BY <2>1, ProcessorsEdit
  <2>. QED
    BY <1>3, <2>2, ThenEither, EditedAgain
<1>5. Edited(s, p4.s)
  <2>. HIDE DEF p3
  <2>1. Good(p3.s)
    BY <1>4 DEF Edited
  <2>2. Edited(p3.s, ExpressEditor(p3.s, ev).s)
    BY <2>1, ProcessorsEdit
  <2>. QED
    BY <1>4, <2>2, ThenEither, EditedAgain
<1>. HIDE DEF p4
<1>. QED
  BY <1>1, <1>2, <1>5

------------------------------------------------------------------------------
(* The ascii composer *)

\* The mode a schema was switched to by Shift while composing ends with the
\* composition or goes on.
Stays(s, t) == s.ascii_mode /\ t.ascii_mode /\ s.connection_ => t.connection_

LEMMA SetAsciiModeGood ==
  ASSUME NEW s, Good(s), NEW on \in BOOLEAN
  PROVE  LET t == SetAsciiMode(s, on)
         IN  /\ Good(t) /\ t.ascii_mode = on /\ t.connection_ = s.connection_ /\ t.input = s.input
             /\ t.pressed = s.pressed /\ t.toggle_with_caps_ = s.toggle_with_caps_
             /\ t.last_key_ = s.last_key_ /\ t.active_ = s.active_
BY DEF SetAsciiMode, Good, IsComposing, Engines

\* What SwitchAsciiMode does to the composition and to the mode.
LEMMA SwitchGood ==
  ASSUME NEW s, Good(s), NEW on \in BOOLEAN, NEW style \in {"inline", "commit_text", "clear"}
  PROVE  LET t == SwitchAsciiMode(s, on, style)
         IN  /\ Good(t) /\ t.ascii_mode = on
             /\ t.pressed = s.pressed /\ t.toggle_with_caps_ = s.toggle_with_caps_
             /\ t.last_key_ = s.last_key_ /\ t.active_ = s.active_
             /\ t.input \in {s.input, <<>>}
             /\ style = "inline" /\ IsComposing(s) /\ on => t.connection_
             /\ style = "clear" => t.input = <<>>
<1> DEFINE q == [s EXCEPT !.connection_ = FALSE]
           u == CASE style = "inline"      -> [q EXCEPT !.connection_ = on]
                  [] style = "commit_text" -> Commit(q)
                  [] style = "clear"       -> Clear(q)
           t == SwitchAsciiMode(s, on, style)
<1>1. t = SetAsciiMode(IF IsComposing(s) THEN u ELSE s, on)
  BY DEF SwitchAsciiMode
<1>2. Good(q) /\ q \in Engines /\ q.input = s.input
  BY DEF Good, IsComposing, Engines
<1>3. /\ q.pressed = s.pressed /\ q.toggle_with_caps_ = s.toggle_with_caps_
      /\ q.last_key_ = s.last_key_ /\ q.active_ = s.active_
  BY DEF Good, Engines
<1>4. IsComposing(s) => /\ Good([q EXCEPT !.connection_ = on]) /\ [q EXCEPT !.connection_ = on].connection_ = on
                        /\ [q EXCEPT !.connection_ = on].input = s.input
                        /\ [q EXCEPT !.connection_ = on].pressed = s.pressed
                        /\ [q EXCEPT !.connection_ = on].toggle_with_caps_ = s.toggle_with_caps_
                        /\ [q EXCEPT !.connection_ = on].last_key_ = s.last_key_
                        /\ [q EXCEPT !.connection_ = on].active_ = s.active_
  BY DEF Good, IsComposing, Engines
<1>5. Edited(q, Clear(q)) /\ Clear(q).input = <<>>
  BY <1>2, ClearEdits
<1>6. Edited(q, Commit(q)) /\ Commit(q).input \in {s.input, <<>>}
  BY <1>2, <1>5, CommitEdits DEF Commit
<1>. HIDE DEF q
<1> DEFINE v == IF IsComposing(s) THEN u ELSE s
<1>7. /\ Good(v) /\ v.input \in {s.input, <<>>}
      /\ v.pressed = s.pressed /\ v.toggle_with_caps_ = s.toggle_with_caps_
      /\ v.last_key_ = s.last_key_ /\ v.active_ = s.active_
      /\ style = "inline" /\ IsComposing(s) /\ on => v.connection_
      /\ style = "clear" => v.input = <<>>
  <2>1. CASE ~IsComposing(s)
    BY <2>1 DEF IsComposing
  <2>2. CASE IsComposing(s) /\ style = "inline"
    BY <1>4, <2>2
  <2>3. CASE IsComposing(s) /\ style = "commit_text"
    BY <1>3, <1>6, <2>3 DEF Edited
  <2>4. CASE IsComposing(s) /\ style = "clear"
    BY <1>3, <1>5, <2>4 DEF Edited
  <2>. QED
    BY <2>1, <2>2, <2>3, <2>4
<1>8. t = SetAsciiMode(v, on)
  BY <1>1
<1>. HIDE DEF v, t
<1>9. /\ Good(t) /\ t.ascii_mode = on
      /\ t.pressed = s.pressed /\ t.toggle_with_caps_ = s.toggle_with_caps_
      /\ t.last_key_ = s.last_key_ /\ t.active_ = s.active_
      /\ t.input \in {s.input, <<>>}
      /\ style = "inline" /\ IsComposing(s) /\ on => t.connection_
      /\ style = "clear" => t.input = <<>>
  BY <1>7, <1>8, SetAsciiModeGood
<1>. QED
  BY <1>9 DEF t

LEMMA ToggleGood ==
  ASSUME NEW s, Good(s), NEW m \in Shifts
  PROVE  LET t == ToggleAsciiModeWithKey(s, m)
         IN  /\ Good(t) /\ t.ascii_mode = ~s.ascii_mode /\ ~t.toggle_with_caps_
             /\ t.pressed = s.pressed /\ t.last_key_ = s.last_key_ /\ t.active_ = s.active_
             /\ t.input \in {s.input, <<>>}
             /\ m = "Shift_L" /\ IsComposing(s) /\ ~s.ascii_mode => t.connection_
<1> DEFINE v == SwitchAsciiMode(s, ~s.ascii_mode, Style(m))
           t == ToggleAsciiModeWithKey(s, m)
<1>1. Style(m) \in {"inline", "commit_text", "clear"} /\ (m = "Shift_L" => Style(m) = "inline")
      /\ (~s.ascii_mode) \in BOOLEAN
  BY DEF Style
<1>2. /\ Good(v) /\ v.ascii_mode = ~s.ascii_mode
      /\ v.pressed = s.pressed /\ v.last_key_ = s.last_key_ /\ v.active_ = s.active_
      /\ v.input \in {s.input, <<>>}
      /\ m = "Shift_L" /\ IsComposing(s) /\ ~s.ascii_mode => v.connection_
  <2>1. /\ Good(v) /\ v.ascii_mode = ~s.ascii_mode
        /\ v.pressed = s.pressed /\ v.last_key_ = s.last_key_ /\ v.active_ = s.active_
        /\ v.input \in {s.input, <<>>}
        /\ Style(m) = "inline" /\ IsComposing(s) /\ (~s.ascii_mode) => v.connection_
    BY <1>1, SwitchGood, ZenonT(60)
  <2>. HIDE DEF v
  <2>. QED
    BY <1>1, <2>1
<1>3. t = [v EXCEPT !.toggle_with_caps_ = FALSE]
  BY DEF ToggleAsciiModeWithKey
<1>. HIDE DEF v, t
<1>4. /\ Good(t) /\ t.ascii_mode = v.ascii_mode /\ ~t.toggle_with_caps_ /\ t.connection_ = v.connection_
      /\ t.pressed = v.pressed /\ t.last_key_ = v.last_key_ /\ t.active_ = v.active_
      /\ t.input = v.input
  BY <1>2, <1>3 DEF Good, IsComposing, Engines
<1>5. /\ Good(t) /\ t.ascii_mode = ~s.ascii_mode /\ ~t.toggle_with_caps_
      /\ t.pressed = s.pressed /\ t.last_key_ = s.last_key_ /\ t.active_ = s.active_
      /\ t.input \in {s.input, <<>>}
      /\ m = "Shift_L" /\ IsComposing(s) /\ ~s.ascii_mode => t.connection_
  BY <1>2, <1>4
<1>. QED
  BY <1>5 DEF t

Tapless(s) == [s EXCEPT !.pressed = "none"]

LEMMA TaplessGood ==
  ASSUME NEW s, Good(s)
  PROVE  LET t == Tapless(s)
         IN  /\ Good(t) /\ t.pressed = "none" /\ t.input = s.input /\ t.ascii_mode = s.ascii_mode
             /\ t.connection_ = s.connection_ /\ t.toggle_with_caps_ = s.toggle_with_caps_
             /\ t.last_key_ = s.last_key_ /\ t.active_ = s.active_
BY DEF Tapless, Good, IsComposing, Engines

\* A key that is neither a modifier nor Caps Lock ends the tap; the composer
\* takes it only in ascii mode.
LEMMA AsciiOther ==
  ASSUME NEW s, Good(s), NEW ev, NEW now,
         ev.key \notin ModKeys, ev.key # "Caps_Lock",
         ~ev.caps \/ {"shift", "ctrl"} \subseteq ev.mods
  PROVE  LET a == AsciiComposer(s, ev, now)
         IN  /\ Edited(Tapless(s), a.s)
             /\ a.r = "noop" => a.s = Tapless(s)
             /\ a.r # "noop" => s.ascii_mode /\ a.s.ascii_mode
<1> DEFINE a == AsciiComposer(s, ev, now)
           t == Tapless(s)
<1>1. Good(t) /\ t.ascii_mode = s.ascii_mode
  BY TaplessGood
<1>2. Edited(t, t)
  BY <1>1, NotEdited
<1>3. CASE a = Noop(t)
  BY <1>2, <1>3 DEF Noop, Res
<1>4. CASE a = OtherKey(s, ev)
  <2>1. CASE "ctrl" \in ev.mods
    BY <1>3, <1>4, <2>1 DEF OtherKey, Tapless
  <2>2. CASE "ctrl" \notin ev.mods /\ s.ascii_mode /\ ~IsComposing(s)
    <3>1. a = Rejected(t)
      BY <1>4, <2>2 DEF OtherKey, Tapless
    <3>2. a.s = t /\ a.r # "noop" /\ t.ascii_mode
      BY <1>1, <2>2, <3>1 DEF Rejected, Res
    <3>. QED
      BY <1>2, <2>2, <3>2
  <2>3. CASE "ctrl" \notin ev.mods /\ s.ascii_mode /\ IsComposing(s) /\ ev.key \in Printable
    <3>1. a = Accepted(PushInput(t, Char(ev.key)))
      BY <1>4, <2>3 DEF OtherKey, Tapless
    <3>2. Edited(t, PushInput(t, Char(ev.key))) /\ PushInput(t, Char(ev.key)).ascii_mode = s.ascii_mode
      BY <1>1, <2>3, PushEdits
    <3>3. a.s = PushInput(t, Char(ev.key)) /\ a.r # "noop"
      BY <3>1 DEF Accepted, Res
    <3>4. Edited(t, a.s) /\ a.s.ascii_mode
      BY <2>3, <3>2, <3>3
    <3>. QED
      BY <2>3, <3>3, <3>4
  <2>4. CASE "ctrl" \notin ev.mods /\ ~(s.ascii_mode /\ ~IsComposing(s))
             /\ ~(s.ascii_mode /\ ev.key \in Printable)
    BY <1>3, <1>4, <2>4 DEF OtherKey, Tapless
  <2>. QED
    BY <2>1, <2>2, <2>3, <2>4
<1>5. a = Noop(t) \/ a = OtherKey(s, ev)
  <2>1. CASE {"shift", "ctrl"} \subseteq ev.mods
    BY <2>1 DEF AsciiComposer, Tapless
  <2>2. CASE ~({"shift", "ctrl"} \subseteq ev.mods)
    <3>1. ProcessCapsLock(s, ev) = Noop(s)
      BY <2>2 DEF ProcessCapsLock
    <3>. QED
      BY <2>2, <3>1 DEF AsciiComposer, Noop, Res
  <2>. QED
    BY <2>1, <2>2
<1>. QED
  BY <1>3, <1>4, <1>5

\* Under Caps Lock a key is passed to the application.
LEMMA AsciiUnderCaps ==
  ASSUME NEW s, NEW ev, NEW now, ev.key # "Caps_Lock", ev.caps,
         ~({"shift", "ctrl"} \subseteq ev.mods)
  PROVE  AsciiComposer(s, ev, now) = Rejected(s)
BY DEF AsciiComposer, ProcessCapsLock, Rejected, Res

------------------------------------------------------------------------------
(* The key binder *)

\* The keys a binding sends go through the ascii composer, the recognizer
\* and the processors that edit.
LEMMA RedirectedEdits ==
  ASSUME NEW s, Good(s), NEW key \in {"at", "2", "F20", "minus", "Page_Up", "Page_Down"}, NEW now
  PROVE  Edited(Tapless(s), Redirected(s, key, now))
<1> DEFINE ev == [key |-> key, mods |-> IF key = "at" THEN {"shift"} ELSE {},
                  caps |-> FALSE, release |-> FALSE]
           p1 == AsciiComposer(s, ev, now)
           p2 == Then(p1, Recognizer(p1.s, ev))
           p3 == Then(p2, Editing(p2.s, ev))
<1>1. Redirected(s, key, now) = p3.s
  BY DEF Redirected
<1>2. ev.key \notin ModKeys /\ ev.key # "Caps_Lock" /\ ~ev.caps
  BY DEF ModKeys, Shifts
<1>. HIDE DEF ev
<1>3. Edited(Tapless(s), p1.s)
  BY <1>2, AsciiOther
<1>4. Edited(Tapless(s), p2.s)
  <2>. HIDE DEF p1
  <2>1. Edited(p1.s, Recognizer(p1.s, ev).s)
    BY <1>3, RecognizerEdits DEF Edited
  <2>. QED
    BY <1>3, <2>1, ThenEither, EditedAgain
<1>5. Edited(Tapless(s), p3.s)
  <2>. HIDE DEF p2
  <2>1. Edited(p2.s, Editing(p2.s, ev).s)
    BY <1>4, EditingEdits DEF Edited
  <2>. QED
    BY <1>4, <2>1, ThenEither, EditedAgain
<1>. QED
  BY <1>1, <1>5

\* What the reinterpretation of the period does: at most it types the period.
LEMMA Reinterprets ==
  ASSUME NEW s, Good(s), NEW ev, ~ev.release
  PROVE  LET t == ReinterpretPagingKey(s, ev)
         IN  /\ Good(t) /\ t.pressed = s.pressed /\ t.toggle_with_caps_ = s.toggle_with_caps_
             /\ t.active_ = s.active_ /\ t.ascii_mode = s.ascii_mode /\ t.connection_ = s.connection_
             /\ ev.key # "period" => t.last_key_ = "none"
             /\ t.input # s.input => s.last_key_ = "period" /\ ev.key = "a" /\ IsComposing(s)
<1> DEFINE ch == IF Plain(ev) THEN ev.key ELSE "none"
           again == ch = "period" /\ s.last_key_ = "period"
           inserted == s.last_key_ = "period" /\ ch = "a" /\ IsComposing(s) /\ Last(s.input) # "."
           u == IF inserted THEN PushInput(s, ".") ELSE s
           k == IF ch = "period" /\ ~again THEN ch ELSE "none"
           t == ReinterpretPagingKey(s, ev)
<1>1. t = [u EXCEPT !.last_key_ = k]
  BY DEF ReinterpretPagingKey
<1>2. k \in {"none", "period"} /\ (ev.key # "period" => k = "none")
  BY DEF Plain
<1>3. inserted => s.last_key_ = "period" /\ ev.key = "a" /\ IsComposing(s)
  BY DEF Plain
<1>4. /\ Good(PushInput(s, ".")) /\ Edited(s, PushInput(s, "."))
      /\ PushInput(s, ".").ascii_mode = s.ascii_mode
  <2>1. Char("period") = "." /\ "period" \in Printable
    BY DEF Char, Printable
  <2>2. Edited(s, PushInput(s, ".")) /\ PushInput(s, ".").ascii_mode = s.ascii_mode
    BY <2>1, PushEdits
  <2>. QED
    BY <2>2 DEF Edited
<1>5. PushInput(s, ".").connection_ = s.connection_
  BY DEF PushInput, Good, Engines
<1>. HIDE DEF inserted
<1>6. /\ Good(u) /\ u.pressed = s.pressed /\ u.toggle_with_caps_ = s.toggle_with_caps_
      /\ u.active_ = s.active_ /\ u.ascii_mode = s.ascii_mode /\ u.connection_ = s.connection_
      /\ u.input # s.input => inserted
  BY <1>4, <1>5 DEF Edited
<1>. HIDE DEF u, k, t
<1>7. /\ Good(t) /\ t.pressed = u.pressed /\ t.toggle_with_caps_ = u.toggle_with_caps_
      /\ t.active_ = u.active_ /\ t.ascii_mode = u.ascii_mode /\ t.connection_ = u.connection_
      /\ t.last_key_ = k /\ t.input = u.input
  BY <1>1, <1>2, <1>6 DEF Good, IsComposing, Engines
<1>8. /\ Good(t) /\ t.pressed = s.pressed /\ t.toggle_with_caps_ = s.toggle_with_caps_
      /\ t.active_ = s.active_ /\ t.ascii_mode = s.ascii_mode /\ t.connection_ = s.connection_
      /\ ev.key # "period" => t.last_key_ = "none"
      /\ t.input # s.input => s.last_key_ = "period" /\ ev.key = "a" /\ IsComposing(s)
  BY <1>2, <1>3, <1>6, <1>7
<1>. QED
  BY <1>8 DEF t

LEMMA BindingSends ==
  ASSUME NEW s, NEW key
  PROVE  Binding(s, key) \in {"at", "2", "F20", "minus", "Page_Up", "Page_Down",
                              "toggle ascii_mode", "none"}
BY DEF Binding

LEMMA Binder ==
  ASSUME NEW s, Good(s), s.pressed = "none", NEW ev, ~ev.release, NEW now
  PROVE  LET t == KeyBinder(s, ev, now).s
         IN  /\ Good(t) /\ Stays(s, t) /\ t.pressed = "none"
             /\ t.toggle_with_caps_ = s.toggle_with_caps_ /\ t.active_ = s.active_
             /\ ev.key # "period" => t.last_key_ = "none"
<1> DEFINE u == ReinterpretPagingKey(s, ev)
           send == Binding(u, ev.key)
           w == PerformKeyBinding(u, send, now)
           t == KeyBinder(s, ev, now).s
<1>1. /\ Good(u) /\ u.pressed = "none" /\ u.toggle_with_caps_ = s.toggle_with_caps_
      /\ u.active_ = s.active_ /\ u.ascii_mode = s.ascii_mode /\ u.connection_ = s.connection_
      /\ ev.key # "period" => u.last_key_ = "none"
  BY Reinterprets
<1>2. t = u \/ (send # "none" /\ t = w)
  BY DEF KeyBinder, Noop, Accepted, Res
<1>3. send \in {"at", "2", "F20", "minus", "Page_Up", "Page_Down", "toggle ascii_mode", "none"}
  BY BindingSends
<1>. HIDE DEF u, send, t
<1>4. CASE t = u
  BY <1>1, <1>4 DEF Stays, t
<1>5. CASE t = w /\ send = "toggle ascii_mode"
  <2>1. PICK on \in BOOLEAN : w = SetAsciiMode(u, on)
    <3>1. w = SetAsciiMode(u, ~u.ascii_mode) /\ (~u.ascii_mode) \in BOOLEAN
      BY <1>5 DEF PerformKeyBinding
    <3>. QED
      BY <3>1
  <2>. HIDE DEF w
  <2>2. /\ Good(t) /\ t.connection_ = u.connection_ /\ t.pressed = u.pressed
        /\ t.toggle_with_caps_ = u.toggle_with_caps_ /\ t.last_key_ = u.last_key_ /\ t.active_ = u.active_
    BY <1>1, <1>5, <2>1, SetAsciiModeGood
  <2>. QED
    BY <1>1, <2>2 DEF Stays, t
<1>6. CASE t = w /\ send \notin {"toggle ascii_mode", "none"}
  <2>1. w = Redirected(u, send, now)
    BY <1>6 DEF PerformKeyBinding
  <2>2. Edited(Tapless(u), t)
    BY <1>1, <1>3, <1>6, <2>1, RedirectedEdits
  <2>3. /\ Tapless(u).pressed = "none" /\ Tapless(u).ascii_mode = u.ascii_mode
        /\ Tapless(u).connection_ = u.connection_
        /\ Tapless(u).toggle_with_caps_ = u.toggle_with_caps_
        /\ Tapless(u).last_key_ = u.last_key_ /\ Tapless(u).active_ = u.active_
    BY <1>1, TaplessGood
  <2>4. /\ Good(t) /\ t.pressed = "none" /\ t.toggle_with_caps_ = u.toggle_with_caps_
        /\ t.last_key_ = u.last_key_ /\ t.active_ = u.active_
        /\ t.ascii_mode => u.ascii_mode /\ (u.connection_ => t.connection_)
    BY <2>2, <2>3 DEF Edited
  <2>. QED
    BY <1>1, <2>4 DEF Stays, t
<1>. QED
  BY <1>2, <1>3, <1>4, <1>5, <1>6

------------------------------------------------------------------------------
(* The keys, one kind after the other *)

\* The period that turned a page is not typed now: there is no code, or the
\* letter will be taken before the key binder sees it.
Excused(s) == ~IsComposing(s) \/ s.ascii_mode \/ Uppercase(s.input)

\* The chain, when the schema menu is closed.
LEMMA Chain ==
  ASSUME NEW s, ~s.active_, NEW ev, ev.key # "Control_grave", NEW now
  PROVE  LET a == AsciiComposer(s, ev, now)
             r == Recognizer(a.s, ev)
             b == KeyBinder(r.s, ev, now)
             d == Editing(b.s, ev)
         IN  /\ a.r # "noop" => ProcessKey(s, ev, now) = a.s
             /\ a.r = "noop" /\ r.r # "noop" => ProcessKey(s, ev, now) = r.s
             /\ a.r = "noop" /\ r.r = "noop" /\ b.r # "noop" => ProcessKey(s, ev, now) = b.s
             /\ a.r = "noop" /\ r.r = "noop" /\ b.r = "noop" => ProcessKey(s, ev, now) = d.s
<1> DEFINE a == AsciiComposer(s, ev, now)
           r == Recognizer(a.s, ev)
           b == KeyBinder(r.s, ev, now)
           d == Editing(b.s, ev)
           p1 == Switcher(s, ev)
           p2 == Then(p1, AsciiComposer(p1.s, ev, now))
           p3 == Then(p2, Recognizer(p2.s, ev))
           p4 == Then(p3, KeyBinder(p3.s, ev, now))
           p5 == Then(p4, Editing(p4.s, ev))
           t == ProcessKey(s, ev, now)
<1>1. t = p5.s
  BY DEF ProcessKey
<1>2. p1.s = s /\ p1.r = "noop"
  BY DEF Switcher, Noop, Res
<1>3. p2 = a
  BY <1>2 DEF Then
<1>. HIDE DEF p2
<1>4. (a.r = "noop" => p3 = r) /\ (a.r # "noop" => p3 = a)
  BY <1>3 DEF Then
<1>. HIDE DEF p3, r
<1>5. /\ p3.r # "noop" => p4 = p3
      /\ p3 = r /\ p3.r = "noop" => p4 = b
  BY DEF Then
<1>. HIDE DEF p4, b
<1>6. /\ p4.r # "noop" => p5 = p4
      /\ p4 = b /\ p4.r = "noop" => p5 = d
  BY DEF Then
<1>. HIDE DEF p5, d, a, t
<1>7. /\ a.r # "noop" => t = a.s
      /\ a.r = "noop" /\ r.r # "noop" => t = r.s
      /\ a.r = "noop" /\ r.r = "noop" /\ b.r # "noop" => t = b.s
      /\ a.r = "noop" /\ r.r = "noop" /\ b.r = "noop" => t = d.s
  BY <1>1, <1>4, <1>5, <1>6
<1>. QED
  BY <1>7 DEF a, r, b, d, t

\* A key that is no modifier and for neither the schema menu nor, under Caps
\* Lock, the application.
LEMMA Typed ==
  ASSUME NEW s, Good(s), ~s.active_, NEW ev, NEW now,
         ev.key \notin ModKeys, ev.key # "Caps_Lock", ev.key # "Control_grave", ~ev.release,
         ~ev.caps \/ {"shift", "ctrl"} \subseteq ev.mods
  PROVE  LET t == ProcessKey(s, ev, now)
         IN  /\ Good(t) /\ Stays(s, t) /\ t.pressed = "none" /\ ~t.active_
             /\ t.toggle_with_caps_ = s.toggle_with_caps_
             /\ t.last_key_ = "none" \/ ev.key = "period" \/ Excused(t)
<1> DEFINE a == AsciiComposer(s, ev, now)
           r == Recognizer(a.s, ev)
           b == KeyBinder(r.s, ev, now)
           d == Editing(b.s, ev)
           t == ProcessKey(s, ev, now)
           Fine(u) == /\ Good(u) /\ Stays(s, u) /\ u.pressed = "none" /\ ~u.active_
                      /\ u.toggle_with_caps_ = s.toggle_with_caps_
<1>1. /\ a.r # "noop" => t = a.s
      /\ a.r = "noop" /\ r.r # "noop" => t = r.s
      /\ a.r = "noop" /\ r.r = "noop" /\ b.r # "noop" => t = b.s
      /\ a.r = "noop" /\ r.r = "noop" /\ b.r = "noop" => t = d.s
  BY Chain
<1>2. /\ Good(Tapless(s)) /\ Fine(Tapless(s))
  BY TaplessGood DEF Stays
<1>3. Edited(Tapless(s), a.s) /\ (a.r # "noop" => a.s.ascii_mode)
  BY AsciiOther
<1>4. \A u, v : Fine(u) /\ Edited(u, v) => Fine(v)
  BY DEF Edited, Stays
<1>5. Fine(a.s)
  BY <1>2, <1>3, <1>4
<1>6. CASE a.r # "noop"
  BY <1>1, <1>3, <1>5, <1>6 DEF Excused
<1>7. CASE a.r = "noop" /\ r.r # "noop"
  <2>1. t = r.s
    BY <1>1, <1>7
  <2>2. Good(a.s)
    BY <1>5
  <2>3. Edited(a.s, r.s) /\ Uppercase(r.s.input)
    BY <1>7, <2>2, RecognizerEdits
  <2>4. Fine(r.s)
    BY <1>4, <1>5, <2>3
  <2>. QED
    BY <2>1, <2>3, <2>4 DEF Excused
<1>8. CASE a.r = "noop" /\ r.r = "noop"
  <2>1. r.s = a.s
    BY <1>5, <1>8, RecognizerEdits
  <2>2. Fine(b.s) /\ (ev.key # "period" => b.s.last_key_ = "none")
    <3>1. Good(r.s) /\ r.s.pressed = "none" /\ Fine(r.s) /\ r.s = Tapless(s)
      BY <1>5, <1>8, <2>1, AsciiOther
    <3>. HIDE DEF r
    <3>2. /\ Good(b.s) /\ Stays(r.s, b.s) /\ b.s.pressed = "none"
          /\ b.s.toggle_with_caps_ = r.s.toggle_with_caps_ /\ b.s.active_ = r.s.active_
          /\ ev.key # "period" => b.s.last_key_ = "none"
      BY <3>1, Binder
    <3>3. r.s.ascii_mode = s.ascii_mode /\ r.s.connection_ = s.connection_
      BY <3>1, TaplessGood
    <3>. QED
      BY <3>1, <3>2, <3>3 DEF Stays
  <2>3. Edited(b.s, d.s)
    BY <2>2, EditingEdits
  <2>4. Fine(d.s) /\ (ev.key # "period" => d.s.last_key_ = "none")
    <3>1. Fine(d.s)
      <4>. HIDE DEF Fine, b, d
      <4>. QED
        BY <1>4, <2>2, <2>3
    <3>2. d.s.last_key_ = b.s.last_key_
      BY <2>3 DEF Edited
    <3>. QED
      BY <2>2, <3>1, <3>2
  <2>5. t = d.s \/ t = b.s
    BY <1>1, <1>8
  <2>. HIDE DEF b, d
  <2>. QED
    BY <2>2, <2>4, <2>5
<1>. QED
  BY <1>6, <1>7, <1>8

LEMMA FreshGood == Good(Fresh)
BY DEF Good, Fresh, IsComposing, Engines

\* A key for the schema menu.
LEMMA ForMenu ==
  ASSUME NEW s, NEW ev, NEW now, s.active_ \/ ev.key = "Control_grave"
  PROVE  /\ ProcessKey(s, ev, now) \in {s, [s EXCEPT !.active_ = TRUE], [s EXCEPT !.active_ = FALSE], Fresh}
         /\ ev.key = "Control_grave" => ProcessKey(s, ev, now) = [s EXCEPT !.active_ = TRUE]
         /\ ev.key \notin {"Control_grave", "Escape", "Return"} => ProcessKey(s, ev, now) = s
<1> DEFINE p1 == Switcher(s, ev)
           p2 == Then(p1, AsciiComposer(p1.s, ev, now))
           p3 == Then(p2, Recognizer(p2.s, ev))
           p4 == Then(p3, KeyBinder(p3.s, ev, now))
           p5 == Then(p4, Editing(p4.s, ev))
           t == ProcessKey(s, ev, now)
<1>1. t = p5.s
  BY DEF ProcessKey
<1>2. /\ p1.r # "noop"
      /\ p1.s \in {s, [s EXCEPT !.active_ = TRUE], [s EXCEPT !.active_ = FALSE], Fresh}
      /\ ev.key = "Control_grave" => p1.s = [s EXCEPT !.active_ = TRUE]
      /\ ev.key \notin {"Control_grave", "Escape", "Return"} => p1.s = s
  BY DEF Switcher, Accepted, Res
<1>. HIDE DEF p1
<1>3. p2 = p1
  BY <1>2 DEF Then
<1>. HIDE DEF p2
<1>4. p3 = p1
  BY <1>2, <1>3 DEF Then
<1>. HIDE DEF p3
<1>5. p4 = p1
  BY <1>2, <1>4 DEF Then
<1>. HIDE DEF p4
<1>6. p5 = p1
  BY <1>2, <1>5 DEF Then
<1>. HIDE DEF p5
<1>. QED
  BY <1>1, <1>2, <1>6

\* A key that Caps Lock passes to the application.
LEMMA UnderCaps ==
  ASSUME NEW s, ~s.active_, NEW ev, NEW now, ev.key # "Control_grave", ev.key # "Caps_Lock",
         ev.caps, ~({"shift", "ctrl"} \subseteq ev.mods)
  PROVE  ProcessKey(s, ev, now) = s
<1> DEFINE a == AsciiComposer(s, ev, now)
<1>1. a = Rejected(s)
  BY AsciiUnderCaps
<1>2. a.s = s /\ a.r # "noop"
  BY <1>1 DEF Rejected, Res
<1>. QED
  BY <1>2, Chain

\* A modifier key goes down: the tap begins, goes on, or ends.
LEMMA Down ==
  ASSUME NEW s, Good(s), ~s.active_, NEW ev, NEW now,
         ev.key \in ModKeys, ~ev.release, ~ev.caps \/ {"shift", "ctrl"} \subseteq ev.mods
  PROVE  LET both == {"shift", "ctrl"} \subseteq ev.mods
             p == IF both THEN "none" ELSE IF s.pressed = "none" THEN ModOf(ev.key) ELSE s.pressed
         IN  ProcessKey(s, ev, now) = [s EXCEPT !.pressed = p, !.last_key_ = "none"]
<1> DEFINE both == {"shift", "ctrl"} \subseteq ev.mods
           p == IF both THEN "none" ELSE IF s.pressed = "none" THEN ModOf(ev.key) ELSE s.pressed
           q == [s EXCEPT !.pressed = p]
           u == [q EXCEPT !.last_key_ = "none"]
           a == AsciiComposer(s, ev, now)
           r == Recognizer(a.s, ev)
           b == KeyBinder(r.s, ev, now)
           d == Editing(b.s, ev)
<1>1. ev.key \notin Printable \cup Keys \cup {"Caps_Lock", "Page_Up", "Page_Down"}
  BY DEF ModKeys, Shifts, Printable, Keys
<1>2. s.pressed \in {"none", "shift", "ctrl"} /\ p \in {"none", "shift", "ctrl"} /\ s \in Engines
  BY DEF Good, Engines, ModOf
<1>3. a = Noop(q)
  <2>1. CASE both
    BY <2>1 DEF AsciiComposer
  <2>2. CASE ~both
    <3>1. ProcessCapsLock(s, ev) = Noop(s)
      BY <1>1, <2>2 DEF ProcessCapsLock
    <3>2. a = ModifierKey(s, ev, now)
      BY <2>2, <3>1 DEF AsciiComposer, Noop, Res
    <3>3. s.pressed # "none" => q = s
      BY <1>2, <2>2 DEF Engines
    <3>. QED
      BY <2>2, <3>2, <3>3 DEF ModifierKey
  <2>. QED
    BY <2>1, <2>2
<1>4. a.s = q /\ a.r = "noop"
  BY <1>3 DEF Noop, Res
<1>. HIDE DEF a
<1>5. r.s = q /\ r.r = "noop"
  BY <1>1, <1>4 DEF Recognizer, Noop, Res
<1>. HIDE DEF r
<1>6. b.s = u /\ b.r = "noop"
  <2>1. ReinterpretPagingKey(q, ev) = u
    BY <1>1 DEF ReinterpretPagingKey, Plain, Keys
  <2>2. Binding(u, ev.key) = "none"
    BY <1>1 DEF Binding, Keys
  <2>3. b = Noop(u)
    BY <1>5, <2>1, <2>2 DEF KeyBinder
  <2>. QED
    BY <2>3 DEF Noop, Res
<1>. HIDE DEF b, u
<1>7. d.s = u
  <2>1. ExpressEditor(u, ev) = Noop(u) /\ Speller(u, ev) = Noop(u) /\ Punctuator(u, ev) = Noop(u)
    BY <1>1 DEF ExpressEditor, Speller, Punctuator, Keys
  <2>2. Selector(u, ev) = Noop(u)
    BY <1>1 DEF Selector, Keys
  <2>3. Noop(u).s = u /\ Noop(u).r = "noop"
    BY DEF Noop, Res
  <2>4. Editing(u, ev) = Noop(u)
    BY <2>1, <2>2, <2>3 DEF Editing, Then
  <2>. QED
    BY <1>6, <2>3, <2>4
<1>8. ProcessKey(s, ev, now) = u
  BY <1>1, <1>4, <1>5, <1>6, <1>7, Chain DEF a, r, b, Keys
<1>9. u = [s EXCEPT !.pressed = p, !.last_key_ = "none"]
  BY <1>2 DEF u, Engines
<1>. QED
  BY <1>8, <1>9

\* It goes up: the tap ends, and switches the mode if it was one.
LEMMA Up ==
  ASSUME NEW s, Good(s), ~s.active_, NEW ev, NEW now,
         ev.key \in ModKeys, ev.release, ~ev.caps \/ {"shift", "ctrl"} \subseteq ev.mods
  PROVE  \/ ProcessKey(s, ev, now) = Tapless(s)
         \/ /\ s.pressed = ModOf(ev.key) /\ now
            /\ ProcessKey(s, ev, now) = ToggleAsciiModeWithKey(Tapless(s), ev.key)
<1> DEFINE a == AsciiComposer(s, ev, now)
           r == Recognizer(a.s, ev)
           b == KeyBinder(r.s, ev, now)
           d == Editing(b.s, ev)
<1>1. ev.key # "Caps_Lock" /\ ev.key # "Control_grave"
  BY DEF ModKeys, Shifts
<1>2. \/ a = Noop(Tapless(s))
      \/ s.pressed = ModOf(ev.key) /\ now /\ a = Noop(ToggleAsciiModeWithKey(Tapless(s), ev.key))
  <2>1. CASE {"shift", "ctrl"} \subseteq ev.mods
    BY <2>1 DEF AsciiComposer, Tapless
  <2>2. CASE ~({"shift", "ctrl"} \subseteq ev.mods)
    <3>1. ProcessCapsLock(s, ev) = Noop(s)
      BY <1>1, <2>2 DEF ProcessCapsLock
    <3>2. a = ModifierKey(s, ev, now)
      BY <2>2, <3>1 DEF AsciiComposer, Noop, Res
    <3>. QED
      BY <3>2 DEF ModifierKey, Tapless
  <2>. QED
    BY <2>1, <2>2
<1>3. /\ a.r = "noop"
      /\ \/ a.s = Tapless(s)
         \/ s.pressed = ModOf(ev.key) /\ now /\ a.s = ToggleAsciiModeWithKey(Tapless(s), ev.key)
  BY <1>2 DEF Noop, Res
<1>. HIDE DEF a
<1>4. r.s = a.s /\ r.r = "noop"
  BY DEF Recognizer, Noop, Res
<1>. HIDE DEF r
<1>5. b.s = a.s /\ b.r = "noop"
  <2>1. ReinterpretPagingKey(r.s, ev) = r.s
    BY DEF ReinterpretPagingKey
  <2>. QED
    BY <1>4, <2>1 DEF KeyBinder, Noop, Res
<1>. HIDE DEF b
<1>6. d.s = a.s
  BY <1>5 DEF Editing, ExpressEditor, Rejected, Res
<1>7. ProcessKey(s, ev, now) = a.s
  BY <1>1, <1>3, <1>4, <1>5, <1>6, Chain DEF a, r, b
<1>. QED
  BY <1>3, <1>7

\* Caps Lock leaves an ascii mode that it did not switch on; otherwise it
\* clears the composition and switches.
LEMMA CapsKey ==
  ASSUME NEW s, Good(s), ~s.active_, NEW ev, NEW now, ev.key = "Caps_Lock", ev.mods = {},
         ev.caps \in BOOLEAN
  PROVE  LET t == ProcessKey(s, ev, now)
         IN  /\ s.ascii_mode /\ ~s.toggle_with_caps_ => t = Tapless(s)
             /\ ~(s.ascii_mode /\ ~s.toggle_with_caps_) =>
                  Good(t) /\ t.pressed = "none" /\ ~t.active_ /\ t.input = <<>>
<1> DEFINE t == ProcessKey(s, ev, now)
           a == AsciiComposer(s, ev, now)
           on == ~ev.caps
           u == [Tapless(s) EXCEPT !.toggle_with_caps_ = on]
           v == SwitchAsciiMode(u, on, "clear")
<1>1. a = ProcessCapsLock(s, ev) \/ ProcessCapsLock(s, ev).r = "noop"
  BY DEF AsciiComposer
<1>2. ProcessCapsLock(s, ev) =
        IF ~s.toggle_with_caps_ /\ s.ascii_mode THEN Rejected(Tapless(s)) ELSE Accepted(v)
  BY DEF ProcessCapsLock, Tapless
<1>. HIDE DEF u, v, on
<1>3. /\ ProcessCapsLock(s, ev).r # "noop"
      /\ ProcessCapsLock(s, ev).s = IF ~s.toggle_with_caps_ /\ s.ascii_mode THEN Tapless(s) ELSE v
  BY <1>2 DEF Rejected, Accepted, Res
<1>4. a.r # "noop" /\ a.s = IF ~s.toggle_with_caps_ /\ s.ascii_mode THEN Tapless(s) ELSE v
  BY <1>1, <1>3
<1>5. t = IF ~s.toggle_with_caps_ /\ s.ascii_mode THEN Tapless(s) ELSE v
  BY <1>4, Chain
<1>6. Good(u) /\ u.pressed = "none" /\ ~u.active_
  <2>1. /\ Good(Tapless(s)) /\ Tapless(s).pressed = "none" /\ ~Tapless(s).active_ /\ on \in BOOLEAN
    BY TaplessGood DEF on
  <2>. QED
    BY <2>1 DEF u, Good, IsComposing, Engines
<1>7. Good(v) /\ v.pressed = "none" /\ ~v.active_ /\ v.input = <<>>
  <2>1. on \in BOOLEAN
    BY DEF on
  <2>2. PICK style \in {"inline", "commit_text", "clear"} :
          style = "clear" /\ v = SwitchAsciiMode(u, on, style)
    BY DEF v
  <2>3. /\ Good(v) /\ v.pressed = u.pressed /\ v.active_ = u.active_
        /\ style = "clear" => v.input = <<>>
    BY <1>6, <2>1, <2>2, SwitchGood
  <2>. QED
    BY <1>6, <2>2, <2>3
<1>. HIDE DEF t
<1>8. /\ s.ascii_mode /\ ~s.toggle_with_caps_ => t = Tapless(s)
      /\ ~(s.ascii_mode /\ ~s.toggle_with_caps_) =>
           Good(t) /\ t.pressed = "none" /\ ~t.active_ /\ t.input = <<>>
  BY <1>5, <1>7
<1>. QED
  BY <1>8 DEF t

------------------------------------------------------------------------------
(* The actions *)

\* What a key that is no modifier does to the engine.
LEMMA PressDoes ==
  ASSUME Good(e), held \subseteq ModKeys, caps \in BOOLEAN, NEW key \in Keys, Press(key)
  PROVE  /\ Good(e') /\ Stays(e, e') /\ (e'.toggle_with_caps_ => e.toggle_with_caps_)
         /\ e'.pressed = "none" \/ (e'.pressed = e.pressed /\ (e.active_ \/ caps \/ "Control_L" \in held))
         /\ \A m \in held : before' = m => caps \/ e'.active_
         /\ \/ e'.last_key_ = "none" \/ before' = "period" \/ Excused(e')
            \/ /\ e'.last_key_ = e.last_key_ /\ e'.input = e.input /\ e'.ascii_mode = e.ascii_mode
               /\ before' = before
<1> DEFINE ev == Event(key, held, caps, FALSE)
<1>1. /\ ev.key = key /\ ev.mods = {ModOf(m) : m \in held} /\ ev.caps = caps /\ ~ev.release
  BY DEF Event
<1>2. /\ ev.mods = Mods(key) /\ e' = ProcessKey(e, ev, soon)
      /\ before' = IF e.active_ \/ ev.caps \/ ev.key = "Control_grave" THEN before
                   ELSE IF ev.key \in ModKeys \cup {"period"} THEN ev.key ELSE "other"
  BY DEF Press, Pressed
<1>. HIDE DEF ev
<1>3. key \notin ModKeys /\ key # "Caps_Lock" /\ "other" \notin ModKeys /\ "period" \notin ModKeys
  BY DEF ModKeys, Shifts, Keys
<1>4. e \in Engines
  BY DEF Good
<1>5. CASE e.active_ \/ key = "Control_grave"
  <2>1. /\ e' \in {e, [e EXCEPT !.active_ = TRUE], [e EXCEPT !.active_ = FALSE], Fresh}
        /\ key = "Control_grave" => e' = [e EXCEPT !.active_ = TRUE]
        /\ key \notin {"Control_grave", "Escape", "Return"} => e' = e
    BY <1>1, <1>2, <1>5, ForMenu
  <2>2. before' = before
    BY <1>1, <1>2, <1>5
  <2>3. Fresh.pressed = "none" /\ ~Fresh.toggle_with_caps_ /\ Fresh.last_key_ = "none" /\ ~Fresh.ascii_mode
    BY DEF Fresh
  <2>4. CASE e' = Fresh
    <3>1. /\ Good(e') /\ Stays(e, e') /\ ~e'.toggle_with_caps_ /\ e'.pressed = "none" /\ e'.last_key_ = "none"
      BY <2>3, <2>4, FreshGood DEF Stays
    <3>2. e' # e => held = {}
      <4>1. e' # e => key \in {"Escape", "Return"}
        <5>1. key = "Control_grave" => e'.active_ 
          BY <1>4, <2>1 DEF Engines
        <5>2. ~Fresh.active_
          BY DEF Fresh
        <5>. QED
          BY <2>1, <2>4, <5>1, <5>2
      <4>2. key \in {"Escape", "Return"} => Mods(key) = {}
        BY DEF Mods
      <4>. QED
        BY <1>1, <1>2, <4>1, <4>2
    <3>3. e' = e => e'.active_ \/ key = "Control_grave"
      BY <1>5
    <3>4. key = "Control_grave" => e'.active_
      BY <1>4, <2>1 DEF Engines
    <3>. QED
      BY <3>1, <3>2, <3>3, <3>4
  <2>5. CASE e' # Fresh
    <3>1. PICK x \in {e.active_, TRUE, FALSE} : e' = [e EXCEPT !.active_ = x]
      <4>1. e = [e EXCEPT !.active_ = e.active_]
        BY <1>4 DEF Engines
      <4>. QED
        BY <2>1, <2>5, <4>1
    <3>2. x \in BOOLEAN
      BY <1>4, <3>1 DEF Engines
    <3>3. Good(e')
      BY <3>1, <3>2, Fields
    <3>4. /\ e'.toggle_with_caps_ = e.toggle_with_caps_ /\ e'.pressed = e.pressed
          /\ e'.last_key_ = e.last_key_ /\ e'.input = e.input /\ e'.ascii_mode = e.ascii_mode
          /\ e'.connection_ = e.connection_
      BY <1>4, <3>1 DEF Engines
    <3>5. key = "Control_grave" => e'.active_ /\ "Control_L" \in held
      <4>1. key = "Control_grave" => "ctrl" \in ev.mods
        BY <1>2 DEF Mods
      <4>2. "ctrl" \in ev.mods => "Control_L" \in held
        BY <1>1 DEF ModOf, ModKeys, Shifts
      <4>3. key = "Control_grave" => e'.active_
        BY <1>4, <2>1 DEF Engines
      <4>. QED
        BY <4>1, <4>2, <4>3
    <3>6. \A m \in held : e'.active_
      <4>1. CASE key \in {"Escape", "Return"}
        <5>1. Mods(key) = {}
          BY <4>1 DEF Mods
        <5>. QED
          BY <1>1, <1>2, <5>1
      <4>2. CASE key \notin {"Escape", "Return"}
        BY <1>5, <2>1, <3>5, <4>2
      <4>. QED
        BY <4>1, <4>2
    <3>. QED
      BY <1>5, <2>2, <3>3, <3>4, <3>5, <3>6 DEF Stays
  <2>. QED
    BY <2>4, <2>5
<1>6. CASE ~(e.active_ \/ key = "Control_grave") /\ caps /\ ~({"shift", "ctrl"} \subseteq ev.mods)
  <2>1. e' = e
    BY <1>1, <1>2, <1>3, <1>6, UnderCaps
  <2>2. before' = before
    BY <1>1, <1>2, <1>6
  <2>. QED
    BY <1>6, <2>1, <2>2 DEF Stays
<1>7. CASE ~(e.active_ \/ key = "Control_grave") /\ ~(caps /\ ~({"shift", "ctrl"} \subseteq ev.mods))
  <2>1. /\ Good(e') /\ Stays(e, e') /\ e'.pressed = "none" /\ ~e'.active_
        /\ e'.toggle_with_caps_ = e.toggle_with_caps_
        /\ e'.last_key_ = "none" \/ key = "period" \/ Excused(e')
    BY <1>1, <1>2, <1>3, <1>7, Typed
  <2>2. \A m \in held : before' = m => caps
    BY <1>1, <1>2, <1>3, <1>7
  <2>3. key = "period" => before' = "period"
    <3>1. key = "period" => Mods(key) = {}
      BY DEF Mods
    <3>. QED
      BY <1>1, <1>2, <1>7, <3>1
  <2>. QED
    BY <2>1, <2>2, <2>3
<1>. QED
  BY <1>5, <1>6, <1>7

\* What a modifier key does to it, down and up.
LEMMA PressModDoes ==
  ASSUME Good(e), held \subseteq ModKeys, caps \in BOOLEAN, NEW m \in ModKeys, PressMod(m)
  PROVE  /\ Good(e') /\ e'.ascii_mode = e.ascii_mode /\ e'.connection_ = e.connection_
         /\ e'.toggle_with_caps_ = e.toggle_with_caps_ /\ e'.active_ = e.active_ /\ e'.input = e.input
         /\ e'.last_key_ \in {"none", e.last_key_}
         /\ e'.last_key_ = "none" \/ before' = before
         /\ \/ e'.pressed = e.pressed /\ (e.active_ \/ caps)
            \/ e'.pressed = "none"
            \/ /\ e'.last_key_ = "none" /\ ~e.active_ /\ ~caps
               /\ ~({"shift", "ctrl"} \subseteq {ModOf(k) : k \in held \cup {m}})
               /\ e'.pressed = IF e.pressed = "none" THEN ModOf(m) ELSE e.pressed
         /\ before' = IF e.active_ \/ caps THEN before ELSE m
<1> DEFINE ev == Event(m, held \cup {m}, caps, FALSE)
<1>1. /\ ev.key = m /\ ev.mods = {ModOf(k) : k \in held \cup {m}} /\ ev.caps = caps /\ ~ev.release
  BY DEF Event
<1>2. /\ e' = ProcessKey(e, ev, soon)
      /\ before' = IF e.active_ \/ ev.caps \/ ev.key = "Control_grave" THEN before
                   ELSE IF ev.key \in ModKeys \cup {"period"} THEN ev.key ELSE "other"
  BY DEF PressMod, Pressed
<1>. HIDE DEF ev
<1>3. m \notin {"Caps_Lock", "Control_grave", "Escape", "Return"}
  BY DEF ModKeys, Shifts
<1>4. before' = IF e.active_ \/ caps THEN before ELSE m
  BY <1>1, <1>2, <1>3
<1>5. CASE e.active_
  <2>1. e' = e
    BY <1>1, <1>2, <1>3, <1>5, ForMenu
  <2>. QED
    BY <1>4, <1>5, <2>1
<1>6. CASE ~e.active_ /\ caps /\ ~({"shift", "ctrl"} \subseteq ev.mods)
  <2>1. e' = e
    BY <1>1, <1>2, <1>3, <1>6, UnderCaps
  <2>. QED
    BY <1>4, <1>6, <2>1
<1>7. CASE ~e.active_ /\ ~(caps /\ ~({"shift", "ctrl"} \subseteq ev.mods))
  <2>1. PICK p : /\ p = IF {"shift", "ctrl"} \subseteq ev.mods THEN "none"
                        ELSE IF e.pressed = "none" THEN ModOf(m) ELSE e.pressed
                 /\ e' = [e EXCEPT !.pressed = p, !.last_key_ = "none"]
    BY <1>1, <1>2, <1>7, Down
  <2>2. e \in Engines /\ p \in {"none", "shift", "ctrl"}
    BY <2>1 DEF Good, Engines, ModOf
  <2>3. /\ Good(e') /\ e'.ascii_mode = e.ascii_mode /\ e'.connection_ = e.connection_
        /\ e'.toggle_with_caps_ = e.toggle_with_caps_ /\ e'.active_ = e.active_ /\ e'.input = e.input
        /\ e'.last_key_ = "none" /\ e'.pressed = p
    BY <2>1, <2>2 DEF Good, IsComposing, Engines
  <2>. QED
    BY <1>1, <1>4, <1>7, <2>1, <2>3
<1>. QED
  BY <1>5, <1>6, <1>7

LEMMA ReleaseModDoes ==
  ASSUME Good(e), held \subseteq ModKeys, caps \in BOOLEAN, NEW m \in ModKeys, ReleaseMod(m)
  PROVE  /\ Good(e') /\ e'.active_ = e.active_ /\ e'.last_key_ = e.last_key_
         /\ e'.pressed = "none" \/ (e'.pressed = e.pressed /\ (e.active_ \/ caps))
         /\ \/ /\ e'.ascii_mode = e.ascii_mode /\ e'.connection_ = e.connection_
               /\ e'.toggle_with_caps_ = e.toggle_with_caps_ /\ e'.input = e.input
            \/ /\ m \in Shifts /\ e.pressed = "shift" /\ soon /\ ~e'.toggle_with_caps_
               /\ e'.ascii_mode = ~e.ascii_mode /\ e'.input \in {e.input, <<>>}
               /\ m = "Shift_L" /\ IsComposing(e) /\ ~e.ascii_mode => e'.connection_
<1> DEFINE ev == Event(m, held', caps, TRUE)
<1>1. /\ ev.key = m /\ ev.caps = caps /\ ev.release
  BY DEF Event
<1>2. e' = ProcessKey(e, ev, soon)
  BY DEF ReleaseMod
<1>. HIDE DEF ev
<1>3. m \notin {"Caps_Lock", "Control_grave", "Escape", "Return"}
  BY DEF ModKeys, Shifts
<1>4. CASE e.active_
  <2>1. e' = e
    BY <1>1, <1>2, <1>3, <1>4, ForMenu
  <2>. QED
    BY <1>4, <2>1
<1>5. CASE ~e.active_ /\ caps /\ ~({"shift", "ctrl"} \subseteq ev.mods)
  <2>1. e' = e
    BY <1>1, <1>2, <1>3, <1>5, UnderCaps
  <2>. QED
    BY <1>5, <2>1
<1>6. CASE ~e.active_ /\ ~(caps /\ ~({"shift", "ctrl"} \subseteq ev.mods))
  <2>1. \/ e' = Tapless(e)
        \/ e.pressed = ModOf(m) /\ soon /\ e' = ToggleAsciiModeWithKey(Tapless(e), m)
    BY <1>1, <1>2, <1>6, Up
  <2>2. PICK t : t = Tapless(e)
    OBVIOUS
  <2>3. /\ Good(t) /\ t.pressed = "none" /\ t.input = e.input /\ t.ascii_mode = e.ascii_mode
        /\ t.connection_ = e.connection_ /\ t.toggle_with_caps_ = e.toggle_with_caps_
        /\ t.last_key_ = e.last_key_ /\ t.active_ = e.active_
    BY <2>2, TaplessGood
  <2>4. CASE e' = t
    BY <2>3, <2>4
  <2>5. CASE m \in Shifts /\ e.pressed = ModOf(m) /\ soon /\ e' = ToggleAsciiModeWithKey(t, m)
    <3>1. /\ Good(e') /\ e'.ascii_mode = ~t.ascii_mode /\ ~e'.toggle_with_caps_
          /\ e'.pressed = t.pressed /\ e'.last_key_ = t.last_key_ /\ e'.active_ = t.active_
          /\ e'.input \in {t.input, <<>>}
          /\ m = "Shift_L" /\ IsComposing(t) /\ ~t.ascii_mode => e'.connection_
      BY <2>3, <2>5, ToggleGood
    <3>2. e.pressed = "shift" /\ IsComposing(t) = IsComposing(e)
      BY <2>3, <2>5 DEF ModOf, IsComposing
    <3>. QED
      BY <2>3, <2>5, <3>1, <3>2
  <2>6. m \notin Shifts => ToggleAsciiModeWithKey(t, m) = t
    BY DEF ToggleAsciiModeWithKey
  <2>. QED
    BY <2>1, <2>2, <2>4, <2>5, <2>6
<1>. QED
  BY <1>4, <1>5, <1>6

LEMMA PressCapsDoes ==
  ASSUME Good(e), caps \in BOOLEAN, PressCaps
  PROVE  /\ Good(e') /\ held = {} /\ (e'.pressed = "none" \/ (e'.pressed = e.pressed /\ e.active_))
         /\ \/ /\ e'.ascii_mode = e.ascii_mode /\ e'.connection_ = e.connection_ /\ e'.input = e.input
               /\ e'.toggle_with_caps_ = e.toggle_with_caps_ /\ e'.last_key_ = e.last_key_
               /\ before' = before \/ e'.ascii_mode
            \/ ~(e.ascii_mode /\ ~e.toggle_with_caps_) /\ e'.input = <<>>
<1> DEFINE ev == Event("Caps_Lock", held, caps, FALSE)
<1>1. held = {} /\ ev.key = "Caps_Lock" /\ ev.caps = caps
  BY DEF Event, PressCaps
<1>2. /\ e' = ProcessKey(e, ev, soon)
      /\ before' = IF e.active_ \/ ev.caps \/ ev.key = "Control_grave" THEN before
                   ELSE IF ev.key \in ModKeys \cup {"period"} THEN ev.key ELSE "other"
  BY DEF PressCaps, Pressed
<1>3. ev.mods = {}
  BY <1>1 DEF Event
<1>. HIDE DEF ev
<1>4. CASE e.active_
  <2>1. e' = e /\ before' = before
    BY <1>1, <1>2, <1>4, ForMenu
  <2>. QED
    BY <1>1, <1>4, <2>1
<1>5. CASE ~e.active_ /\ e.ascii_mode /\ ~e.toggle_with_caps_
  <2>1. e' = Tapless(e)
    BY <1>1, <1>2, <1>3, <1>5, CapsKey
  <2>2. PICK t : t = Tapless(e)
    OBVIOUS
  <2>3. /\ Good(t) /\ t.pressed = "none" /\ t.input = e.input /\ t.ascii_mode = e.ascii_mode
        /\ t.connection_ = e.connection_ /\ t.toggle_with_caps_ = e.toggle_with_caps_
        /\ t.last_key_ = e.last_key_
    BY <2>2, TaplessGood
  <2>. QED
    BY <1>1, <1>5, <2>1, <2>2, <2>3
<1>6. CASE ~e.active_ /\ ~(e.ascii_mode /\ ~e.toggle_with_caps_)
  <2>1. Good(e') /\ e'.pressed = "none" /\ e'.input = <<>>
    BY <1>1, <1>2, <1>3, <1>6, CapsKey
  <2>. QED
    BY <1>1, <1>6, <2>1
<1>. QED
  BY <1>4, <1>5, <1>6

------------------------------------------------------------------------------
(* The invariant *)

\* While the composer believes in a tap of Shift, Shift is down and nothing but
\* Shift went down since; and no key was pressed since the modifier that went
\* down last, if it is still down.
TapInv ==
  /\ e.pressed = "shift" => /\ tapped = "shift" /\ e.last_key_ = "none"
                            /\ ~e.active_ /\ ~caps
                            /\ held \cap Shifts # {} /\ "Control_L" \notin held
  /\ \A m \in held : before = m /\ ~e.active_ /\ ~caps => tapped = ModOf(m)

\* What Shift switched on is not marked as switched on by Caps Lock, and for a
\* mode that is meant for the composition the composer listens.
ModeInv ==
  /\ by \in {"tap", "temporary"} => ~e.toggle_with_caps_
  /\ by = "temporary" => e.connection_

\* A remembered period that is not the last key is one that cannot be typed.
PeriodInv == e.last_key_ = "period" /\ before # "period" => Excused(e)

KeyInv == TypeOK /\ TapInv /\ ModeInv /\ PeriodInv

LEMMA CauseIs ==
  ASSUME by \in {"none", "binding", "caps", "tap", "temporary"}, (by = "none") = ~e.ascii_mode,
         e.ascii_mode \in BOOLEAN, e'.ascii_mode \in BOOLEAN,
         NEW cause \in {"binding", "caps", "tap", "temporary"}, by' = Cause(cause)
  PROVE  /\ by' \in {"none", "binding", "caps", "tap", "temporary"}
         /\ (by' = "none") = ~e'.ascii_mode
         /\ by' \in {"tap", "temporary"} =>
              /\ e'.ascii_mode
              /\ (e.ascii_mode /\ by' = by) \/ (~e.ascii_mode /\ by' = cause)
<1>1. /\ ~e'.ascii_mode => by' = "none"
      /\ e'.ascii_mode /\ e.ascii_mode => by' = by
      /\ e'.ascii_mode /\ ~e.ascii_mode => by' = cause
  BY DEF Cause
<1>. QED
  BY <1>1

LEMMA GoodEngine ==
  ASSUME TypeOK
  PROVE  /\ Good(e) /\ e.ascii_mode \in BOOLEAN /\ held \subseteq ModKeys /\ caps \in BOOLEAN
         /\ by \in {"none", "binding", "caps", "tap", "temporary"} /\ (by = "none") = ~e.ascii_mode
<1>1. Good(e) /\ held \subseteq ModKeys /\ caps \in BOOLEAN
      /\ by \in {"none", "binding", "caps", "tap", "temporary"} /\ (by = "none") = ~e.ascii_mode
  BY DEF TypeOK, Good
<1>2. e.ascii_mode \in BOOLEAN
  BY <1>1 DEF Good, Engines
<1>. QED
  BY <1>1, <1>2

LEMMA InitOK == Init => KeyInv
<1> SUFFICES ASSUME Init PROVE KeyInv
  OBVIOUS
<1>1. Good(Fresh) /\ e = Fresh
  BY FreshGood DEF Init
<1>2. TypeOK
  <2>1. e \in Engines /\ (e.connection_ => IsComposing(e)) /\ (e.paging => IsComposing(e))
    BY <1>1 DEF Good
  <2>2. Len(e.input) <= MaxLen /\ e.ascii_mode = FALSE
    <3>1. Len(<<>>) = 0
      BY EmptySeq
    <3>2. 0 <= MaxLen
      BY KeyChainAssumption
    <3>3. Fresh.input = <<>> /\ Fresh.ascii_mode = FALSE
      BY DEF Fresh
    <3>. QED
      BY <1>1, <3>1, <3>2, <3>3
  <2>. QED
    BY <2>1, <2>2 DEF Init, TypeOK
<1>3. TapInv
  BY DEF Init, TapInv, Fresh
<1>4. ModeInv
  BY DEF Init, ModeInv
<1>5. PeriodInv
  BY DEF Init, PeriodInv, Fresh
<1>. QED
  BY <1>2, <1>3, <1>4, <1>5 DEF KeyInv

LEMMA PressKeeps ==
  ASSUME KeyInv, NEW key \in Keys, Press(key)
  PROVE  KeyInv'
<1>1. /\ Good(e) /\ e.ascii_mode \in BOOLEAN /\ held \subseteq ModKeys /\ caps \in BOOLEAN
      /\ by \in {"none", "binding", "caps", "tap", "temporary"} /\ (by = "none") = ~e.ascii_mode
  BY GoodEngine DEF KeyInv
<1>2. /\ Good(e') /\ Stays(e, e') /\ (e'.toggle_with_caps_ => e.toggle_with_caps_)
      /\ e'.pressed = "none" \/ (e'.pressed = e.pressed /\ (e.active_ \/ caps \/ "Control_L" \in held))
      /\ \A m \in held : before' = m => caps \/ e'.active_
      /\ \/ e'.last_key_ = "none" \/ before' = "period" \/ Excused(e')
         \/ /\ e'.last_key_ = e.last_key_ /\ e'.input = e.input /\ e'.ascii_mode = e.ascii_mode
            /\ before' = before
  BY <1>1, PressDoes
<1>3. /\ held' = held /\ caps' = caps /\ soon' = soon /\ tapped' = "none" /\ by' = Cause("binding")
      /\ Len(e'.input) <= MaxLen
      /\ before' \in {before, "period", "other"} \cup ModKeys
  BY DEF Press, Pressed
<1>4. e'.ascii_mode \in BOOLEAN
  BY <1>2 DEF Good, Engines
<1>5. /\ by' \in {"none", "binding", "caps", "tap", "temporary"} /\ (by' = "none") = ~e'.ascii_mode
      /\ by' \in {"tap", "temporary"} => e'.ascii_mode /\ e.ascii_mode /\ by' = by
  BY <1>1, <1>3, <1>4, CauseIs
<1>6. TypeOK'
  BY <1>2, <1>3, <1>5 DEF KeyInv, TypeOK, Good, IsComposing
<1>7. TapInv'
  BY <1>2, <1>3 DEF KeyInv, TapInv
<1>8. ModeInv'
  BY <1>2, <1>5 DEF KeyInv, ModeInv, Stays
<1>9. PeriodInv'
  BY <1>2 DEF KeyInv, PeriodInv, Excused, IsComposing
<1>. QED
  BY <1>6, <1>7, <1>8, <1>9 DEF KeyInv

LEMMA PressModKeeps ==
  ASSUME KeyInv, NEW m \in ModKeys, PressMod(m)
  PROVE  KeyInv'
<1>1. /\ Good(e) /\ e.ascii_mode \in BOOLEAN /\ held \subseteq ModKeys /\ caps \in BOOLEAN
      /\ by \in {"none", "binding", "caps", "tap", "temporary"} /\ (by = "none") = ~e.ascii_mode
  BY GoodEngine DEF KeyInv
<1>2. /\ Good(e') /\ e'.ascii_mode = e.ascii_mode /\ e'.connection_ = e.connection_
      /\ e'.toggle_with_caps_ = e.toggle_with_caps_ /\ e'.active_ = e.active_ /\ e'.input = e.input
      /\ e'.last_key_ \in {"none", e.last_key_}
      /\ e'.last_key_ = "none" \/ before' = before
      /\ \/ e'.pressed = e.pressed /\ (e.active_ \/ caps)
         \/ e'.pressed = "none"
         \/ /\ e'.last_key_ = "none" /\ ~e.active_ /\ ~caps
            /\ ~({"shift", "ctrl"} \subseteq {ModOf(k) : k \in held \cup {m}})
            /\ e'.pressed = IF e.pressed = "none" THEN ModOf(m) ELSE e.pressed
      /\ before' = IF e.active_ \/ caps THEN before ELSE m
  BY <1>1, PressModDoes
<1>3. /\ held' = held \cup {m} /\ caps' = caps /\ by' = by
      /\ m \in held => before = m
      /\ tapped' = IF m \in held THEN tapped ELSE ModOf(m)
      /\ soon' = (soon \/ (e.pressed = "none" /\ e'.pressed # "none"))
      /\ Len(e'.input) <= MaxLen
  BY DEF PressMod, Pressed
<1>4. ModOf(m) \in {"shift", "ctrl"} /\ (ModOf(m) = "shift") = (m \in Shifts)
      /\ \A k \in ModKeys : (ModOf(k) = "shift") = (k \in Shifts) /\ (k = "Control_L") = (ModOf(k) = "ctrl")
  BY DEF ModOf, ModKeys, Shifts
<1>5. TypeOK'
  <2>1. soon' \in BOOLEAN
    BY <1>3 DEF KeyInv, TypeOK
  <2>2. tapped' \in {"none", "shift", "ctrl"} /\ before' \in ModKeys \cup {"none", "period", "other"}
    BY <1>2, <1>3, <1>4 DEF KeyInv, TypeOK
  <2>. QED
    BY <1>1, <1>2, <1>3, <2>1, <2>2 DEF TypeOK, Good, IsComposing
<1>6. TapInv'
  <2>1. ASSUME e'.pressed = "shift"
        PROVE  /\ tapped' = "shift" /\ e'.last_key_ = "none" /\ ~e'.active_ /\ ~caps'
               /\ held' \cap Shifts # {} /\ "Control_L" \notin held'
    <3>1. /\ e'.last_key_ = "none" /\ ~e.active_ /\ ~caps
          /\ ~({"shift", "ctrl"} \subseteq {ModOf(k) : k \in held \cup {m}})
          /\ e'.pressed = IF e.pressed = "none" THEN ModOf(m) ELSE e.pressed
      BY <1>2, <2>1 DEF KeyInv, TapInv
    <3>2. PICK k \in held \cup {m} : k \in Shifts
      <4>1. CASE e.pressed = "none"
        BY <1>4, <2>1, <3>1, <4>1
      <4>2. CASE e.pressed # "none"
        BY <2>1, <3>1, <4>2 DEF KeyInv, TapInv
      <4>. QED
        BY <4>1, <4>2
    <3>3. "shift" \in {ModOf(j) : j \in held \cup {m}}
      BY <1>1, <1>4, <3>2
    <3>4. "Control_L" \notin held \cup {m}
      <4>1. ModOf("Control_L") = "ctrl"
        BY DEF ModOf, Shifts
      <4>. QED
        BY <3>1, <3>3, <4>1
    <3>5. m \in Shifts
      BY <3>4 DEF ModKeys
    <3>6. tapped' = "shift"
      <4>1. m \in held => tapped = ModOf(m)
        BY <1>3, <3>1 DEF KeyInv, TapInv
      <4>. QED
        BY <1>3, <1>4, <3>5, <4>1
    <3>. QED
      BY <1>2, <1>3, <3>1, <3>2, <3>4, <3>6
  <2>2. ASSUME NEW k \in held', before' = k, ~e'.active_, ~caps'
        PROVE  tapped' = ModOf(k)
    <3>1. k = m
      BY <1>2, <1>3, <2>2
    <3>2. m \in held => tapped = ModOf(m)
      BY <1>2, <1>3, <2>2 DEF KeyInv, TapInv
    <3>. QED
      BY <1>3, <3>1, <3>2
  <2>. QED
    BY <2>1, <2>2 DEF TapInv
<1>7. ModeInv'
  BY <1>2, <1>3 DEF KeyInv, ModeInv
<1>8. PeriodInv'
  BY <1>2 DEF KeyInv, PeriodInv, Excused, IsComposing
<1>. QED
  BY <1>5, <1>6, <1>7, <1>8 DEF KeyInv

LEMMA ReleaseModKeeps ==
  ASSUME KeyInv, NEW m \in ModKeys, ReleaseMod(m)
  PROVE  KeyInv'
<1>1. /\ Good(e) /\ e.ascii_mode \in BOOLEAN /\ held \subseteq ModKeys /\ caps \in BOOLEAN
      /\ by \in {"none", "binding", "caps", "tap", "temporary"} /\ (by = "none") = ~e.ascii_mode
  BY GoodEngine DEF KeyInv
<1>2. /\ Good(e') /\ e'.active_ = e.active_ /\ e'.last_key_ = e.last_key_
      /\ e'.pressed = "none" \/ (e'.pressed = e.pressed /\ (e.active_ \/ caps))
      /\ \/ /\ e'.ascii_mode = e.ascii_mode /\ e'.connection_ = e.connection_
            /\ e'.toggle_with_caps_ = e.toggle_with_caps_ /\ e'.input = e.input
         \/ /\ m \in Shifts /\ e.pressed = "shift" /\ soon /\ ~e'.toggle_with_caps_
            /\ e'.ascii_mode = ~e.ascii_mode /\ e'.input \in {e.input, <<>>}
            /\ m = "Shift_L" /\ IsComposing(e) /\ ~e.ascii_mode => e'.connection_
  BY <1>1, ReleaseModDoes
<1>3. /\ held' = held \ {m} /\ caps' = caps /\ soon' = soon /\ before' = before /\ tapped' = tapped
      /\ by' = Cause(IF m = "Shift_L" /\ IsComposing(e) THEN "temporary" ELSE "tap")
  BY DEF ReleaseMod
<1>4. e'.ascii_mode \in BOOLEAN
  BY <1>2 DEF Good, Engines
<1>5. /\ by' \in {"none", "binding", "caps", "tap", "temporary"} /\ (by' = "none") = ~e'.ascii_mode
      /\ by' \in {"tap", "temporary"} =>
           /\ e'.ascii_mode
           /\ \/ e.ascii_mode /\ by' = by
              \/ ~e.ascii_mode /\ by' = IF m = "Shift_L" /\ IsComposing(e) THEN "temporary" ELSE "tap"
  BY <1>1, <1>3, <1>4, CauseIs
<1>6. TypeOK'
  <2>1. Len(e'.input) <= MaxLen
    <3>1. Len(e.input) <= MaxLen /\ Len(<<>>) = 0
      BY EmptySeq DEF KeyInv, TypeOK
    <3>. QED
      BY <1>2, <3>1, KeyChainAssumption
  <2>. QED
    BY <1>2, <1>3, <1>5, <2>1 DEF KeyInv, TypeOK, Good, IsComposing
<1>7. TapInv'
  BY <1>2, <1>3 DEF KeyInv, TapInv
<1>8. ModeInv'
  BY <1>2, <1>5 DEF KeyInv, ModeInv
<1>9. PeriodInv'
  BY <1>2, <1>3 DEF KeyInv, PeriodInv, TapInv, Excused, IsComposing
<1>. QED
  BY <1>6, <1>7, <1>8, <1>9 DEF KeyInv

LEMMA PressCapsKeeps ==
  ASSUME KeyInv, PressCaps
  PROVE  KeyInv'
<1>1. /\ Good(e) /\ e.ascii_mode \in BOOLEAN /\ held \subseteq ModKeys /\ caps \in BOOLEAN
      /\ by \in {"none", "binding", "caps", "tap", "temporary"} /\ (by = "none") = ~e.ascii_mode
  BY GoodEngine DEF KeyInv
<1>2. /\ Good(e') /\ held = {} /\ (e'.pressed = "none" \/ (e'.pressed = e.pressed /\ e.active_))
      /\ \/ /\ e'.ascii_mode = e.ascii_mode /\ e'.connection_ = e.connection_ /\ e'.input = e.input
            /\ e'.toggle_with_caps_ = e.toggle_with_caps_ /\ e'.last_key_ = e.last_key_
            /\ before' = before \/ e'.ascii_mode
         \/ ~(e.ascii_mode /\ ~e.toggle_with_caps_) /\ e'.input = <<>>
  BY <1>1, PressCapsDoes
<1>3. /\ held' = held /\ caps' = ~caps /\ soon' = soon /\ tapped' = "none" /\ by' = Cause("caps")
      /\ Len(e'.input) <= MaxLen
      /\ before' \in {before, "period", "other"} \cup ModKeys
  BY DEF PressCaps, Pressed
<1>4. e'.ascii_mode \in BOOLEAN
  BY <1>2 DEF Good, Engines
<1>5. /\ by' \in {"none", "binding", "caps", "tap", "temporary"} /\ (by' = "none") = ~e'.ascii_mode
      /\ by' \in {"tap", "temporary"} => e'.ascii_mode /\ e.ascii_mode /\ by' = by
  BY <1>1, <1>3, <1>4, CauseIs
<1>6. TypeOK'
  BY <1>1, <1>2, <1>3, <1>5 DEF KeyInv, TypeOK, Good, IsComposing
<1>7. TapInv'
  BY <1>2, <1>3 DEF KeyInv, TapInv
<1>8. ModeInv'
  BY <1>2, <1>5 DEF KeyInv, ModeInv
<1>9. PeriodInv'
  BY <1>2 DEF KeyInv, PeriodInv, Excused, IsComposing
<1>. QED
  BY <1>6, <1>7, <1>8, <1>9 DEF KeyInv

LEMMA NextOK == KeyInv /\ [Next]_vars => KeyInv'
<1> SUFFICES ASSUME KeyInv, [Next]_vars PROVE KeyInv'
  OBVIOUS
<1>1. CASE \E key \in Keys : Press(key)
  BY <1>1, PressKeeps
<1>2. CASE PressCaps
  BY <1>2, PressCapsKeeps
<1>3. CASE CapsElsewhere
  <2>1. TypeOK'
    BY <1>3 DEF CapsElsewhere, KeyInv, TypeOK, IsComposing
  <2>2. TapInv'
    BY <1>3 DEF CapsElsewhere, KeyInv, TapInv
  <2>3. ModeInv' /\ PeriodInv'
    BY <1>3 DEF CapsElsewhere, KeyInv, ModeInv, PeriodInv, Excused, IsComposing
  <2>. QED
    BY <2>1, <2>2, <2>3 DEF KeyInv
<1>4. CASE \E m \in ModKeys : PressMod(m) \/ ReleaseMod(m)
  BY <1>4, PressModKeeps, ReleaseModKeeps
<1>5. CASE Expire
  <2>1. TypeOK'
    BY <1>5 DEF Expire, KeyInv, TypeOK, IsComposing
  <2>2. TapInv'
    BY <1>5 DEF Expire, KeyInv, TapInv
  <2>3. ModeInv' /\ PeriodInv'
    BY <1>5 DEF Expire, KeyInv, ModeInv, PeriodInv, Excused, IsComposing
  <2>. QED
    BY <2>1, <2>2, <2>3 DEF KeyInv
<1>6. CASE UNCHANGED vars
  <2>1. TypeOK'
    BY <1>6 DEF vars, KeyInv, TypeOK, IsComposing
  <2>2. TapInv'
    BY <1>6 DEF vars, KeyInv, TapInv
  <2>3. ModeInv' /\ PeriodInv'
    BY <1>6 DEF vars, KeyInv, ModeInv, PeriodInv, Excused, IsComposing
  <2>. QED
    BY <2>1, <2>2, <2>3 DEF KeyInv
<1>. QED
  BY <1>1, <1>2, <1>3, <1>4, <1>5, <1>6 DEF Next

------------------------------------------------------------------------------
(* The theorems *)

\* The engine keeps its shape: it listens for the end of a composition only
\* while there is one, and what is said to have switched the mode on is there
\* exactly while it is on.
THEOREM TypeCorrect == Spec => []TypeOK
<1>1. KeyInv => TypeOK
  BY DEF KeyInv
<1>. QED
  BY <1>1, InitOK, NextOK, PTL DEF Spec

\* The ascii mode that Shift_L switched on for a composition never outlives it.
THEOREM TemporaryModeEnds == Spec => TemporaryMode
<1>1. KeyInv /\ KeyInv' /\ [Next]_vars =>
        [by = "temporary" /\ ~IsComposing(e') => ~e'.ascii_mode]_vars
  <2>. SUFFICES ASSUME KeyInv, KeyInv', [Next]_vars, by = "temporary", e'.ascii_mode
                PROVE  IsComposing(e')
    OBVIOUS
  <2>1. e.ascii_mode
    BY DEF KeyInv, TypeOK, Engines
  <2>2. \A cause : by' = Cause(cause) => by' = "temporary"
    BY <2>1 DEF Cause
  <2>3. by' = "temporary"
    <3>1. CASE \E key \in Keys : Press(key)
      BY <2>2, <3>1 DEF Press
    <3>2. CASE PressCaps
      BY <2>2, <3>2 DEF PressCaps
    <3>3. CASE CapsElsewhere \/ Expire \/ UNCHANGED vars
      BY <3>3 DEF CapsElsewhere, Expire, vars
    <3>4. CASE \E m \in ModKeys : PressMod(m)
      BY <3>4 DEF PressMod
    <3>5. CASE \E m \in ModKeys : ReleaseMod(m)
      BY <2>2, <3>5 DEF ReleaseMod
    <3>. QED
      BY <3>1, <3>2, <3>3, <3>4, <3>5 DEF Next
  <2>4. e'.connection_ /\ (e'.connection_ => IsComposing(e'))
    BY <2>3 DEF KeyInv, ModeInv, TypeOK, IsComposing
  <2>. QED
    BY <2>4
<1>. QED
  BY <1>1, InitOK, NextOK, PTL DEF Spec, TemporaryMode

\* Only a tap of a modifier, within the half second, switches the mode when the
\* modifier is released.
THEOREM ToggleNeedsTap == Spec => ToggleIsATap
<1>1. KeyInv /\ [Next]_vars =>
        [\A m \in ModKeys :
           ReleaseMod(m) /\ e'.ascii_mode # e.ascii_mode => tapped = ModOf(m) /\ soon]_vars
  <2>. SUFFICES ASSUME KeyInv, NEW m \in ModKeys, ReleaseMod(m), e'.ascii_mode # e.ascii_mode
                PROVE  tapped = ModOf(m) /\ soon
    OBVIOUS
  <2>1. Good(e) /\ held \subseteq ModKeys /\ caps \in BOOLEAN
    BY GoodEngine DEF KeyInv
  <2>2. m \in Shifts /\ e.pressed = "shift" /\ soon
    BY <2>1, ReleaseModDoes
  <2>. QED
    BY <2>2 DEF KeyInv, TapInv, ModOf
<1>. QED
  BY <1>1, InitOK, NextOK, PTL DEF Spec, ToggleIsATap

\* Caps Lock does not end an ascii mode that Shift switched on.
THEOREM CapsLeavesShift == Spec => CapsLeavesShiftMode
<1>1. KeyInv /\ [Next]_vars =>
        [PressCaps /\ by \in {"tap", "temporary"} => e'.ascii_mode]_vars
  <2>. SUFFICES ASSUME KeyInv, PressCaps, by \in {"tap", "temporary"}
                PROVE  e'.ascii_mode
    OBVIOUS
  <2>1. Good(e) /\ caps \in BOOLEAN /\ e.ascii_mode \in BOOLEAN /\ (by = "none") = ~e.ascii_mode
    BY GoodEngine DEF KeyInv
  <2>2. e.ascii_mode /\ ~e.toggle_with_caps_
    BY <2>1 DEF KeyInv, ModeInv
  <2>. QED
    BY <2>1, <2>2, PressCapsDoes
<1>. QED
  BY <1>1, InitOK, NextOK, PTL DEF Spec, CapsLeavesShiftMode

LEMMA Appended ==
  ASSUME NEW S, NEW seq \in Seq(S), NEW elt \in S
  PROVE  \A i \in 1..Len(seq) :
           /\ i \in 1..Len(Append(seq, elt)) /\ Append(seq, elt)[i] = seq[i]
           /\ \A j \in i..Len(Append(seq, elt)) :
                \/ j \in i..Len(seq) /\ Append(seq, elt)[j] = seq[j]
                \/ Append(seq, elt)[j] = elt
<1>1. PICK longer : longer = Append(seq, elt)
  OBVIOUS
<1>2. PICK n \in Nat : n = Len(seq)
  BY LenProperties
<1>3. /\ Len(longer) = n + 1
      /\ \A i \in 1..n : longer[i] = seq[i]
      /\ longer[n + 1] = elt
  BY <1>1, <1>2, AppendProperties
<1>4. ASSUME NEW i \in 1..n
      PROVE  /\ i \in 1..(n + 1) /\ longer[i] = seq[i]
             /\ \A j \in i..(n + 1) : (j \in i..n /\ longer[j] = seq[j]) \/ longer[j] = elt
  BY <1>3
<1>. QED
  BY <1>1, <1>2, <1>3, <1>4

LEMMA UppercaseGoesOn ==
  ASSUME NEW S, NEW code \in Seq(S), NEW c \in S
  PROVE  Uppercase(code) /\ c \notin {"@", " "} => Uppercase(Append(code, c))
<1>0. \A i \in 1..Len(code) :
        /\ i \in 1..Len(Append(code, c)) /\ Append(code, c)[i] = code[i]
        /\ \A j \in i..Len(Append(code, c)) :
             \/ j \in i..Len(code) /\ Append(code, c)[j] = code[j]
             \/ Append(code, c)[j] = c
  BY Appended
<1> SUFFICES ASSUME Uppercase(code), c # "@", c # " " PROVE Uppercase(Append(code, c))
  BY Zenon
<1>1. PICK i \in 1..Len(code) : code[i] = "A" /\ \A j \in i..Len(code) : code[j] \notin {"@", " "}
  BY Zenon DEF Uppercase
<1>2. /\ i \in 1..Len(Append(code, c)) /\ Append(code, c)[i] = code[i]
      /\ \A j \in i..Len(Append(code, c)) :
           \/ j \in i..Len(code) /\ Append(code, c)[j] = code[j]
           \/ Append(code, c)[j] = c
  BY <1>0, Zenon
<1>3. c \notin {"@", " "}
  BY Zenon
<1>4. ASSUME NEW j \in i..Len(Append(code, c))
      PROVE  Append(code, c)[j] \notin {"@", " "}
  BY <1>1, <1>2, <1>3, <1>4, Zenon
<1>. QED
  BY <1>1, <1>2, <1>4, Zenon DEF Uppercase

\* A letter types the remembered period only right after it.
THEOREM PeriodAfterPeriod == Spec => PeriodOnlyAfterPeriod
<1>1. KeyInv /\ [Next]_vars => [
        LET ev == Event("a", {}, FALSE, FALSE)
        IN  /\ Press("a") /\ ~caps /\ ~e.active_ /\ ~e.ascii_mode
            /\ Recognizer(e, ev).r = "noop" /\ Reinterpreted(e, ev)
            => before = "period"]_vars
  <2> DEFINE ev == Event("a", {}, FALSE, FALSE)
  <2>. SUFFICES ASSUME KeyInv, ~e.ascii_mode, Recognizer(e, ev).r = "noop", Reinterpreted(e, ev),
                       before # "period"
                PROVE  FALSE
    OBVIOUS
  <2>1. ev.key = "a" /\ ev.mods = {} /\ ~ev.release
    BY DEF Event
  <2>. HIDE DEF ev
  <2>2. Good(e) /\ e \in Engines
    BY GoodEngine DEF KeyInv, Good
  <2>3. e.last_key_ = "period" /\ IsComposing(e)
    BY <2>1, <2>2, Reinterprets DEF Reinterpreted
  <2>4. Uppercase(e.input)
    BY <2>3 DEF KeyInv, PeriodInv, Excused
  <2>5. Char("a") = "a" /\ "a" \in Printable \ {"space"}
    BY DEF Char, Printable
  <2>6. Uppercase(Append(e.input, Char("a")))
    <3>1. e.input \in Seq({Char(k) : k \in Printable}) /\ Char("a") \in {Char(k) : k \in Printable}
      BY <2>2, <2>5 DEF Engines
    <3>2. Char("a") \notin {"@", " "}
      BY <2>5
    <3>. QED
      BY <2>4, <3>1, <3>2, UppercaseGoesOn
  <2>7. Recognizer(e, ev) = Accepted(PushInput(e, Char("a")))
    BY <2>1, <2>5, <2>6 DEF Recognizer
  <2>. QED
    BY <2>7 DEF Accepted, Res
<1>. QED
  BY <1>1, InitOK, NextOK, PTL DEF Spec, PeriodOnlyAfterPeriod

\* A keypad digit is one more digit of the code, whether or not the same digit
\* of the main row would choose a candidate now.
THEOREM KeypadExtends == Spec => KeypadSpells
<1>1. KeyInv /\ [Next]_vars => [
        Press("KP_2") /\ ~e.ascii_mode /\ ~e.active_ /\ ~caps =>
          e'.input = Append(e.input, "2")]_vars
  <2> DEFINE ev == Event("KP_2", held, caps, FALSE)
             a == AsciiComposer(e, ev, soon)
             r == Recognizer(a.s, ev)
             b == KeyBinder(r.s, ev, soon)
             u == ReinterpretPagingKey(r.s, ev)
  <2>. SUFFICES ASSUME KeyInv, Press("KP_2"), ~e.ascii_mode, ~e.active_, ~caps
                PROVE  e'.input = Append(e.input, "2")
    OBVIOUS
  <2>1. ev.key = "KP_2" /\ ev.caps = caps /\ ~ev.release
    BY DEF Event
  <2>2. ev.mods = {} /\ e' = ProcessKey(e, ev, soon)
    BY DEF Press, Pressed, Mods
  <2>3. "KP_2" \notin ModKeys \cup Printable
    BY DEF ModKeys, Shifts, Printable
  <2>. HIDE DEF ev
  <2>4. Good(e)
    BY GoodEngine DEF KeyInv
  <2>5. a.r = "noop" /\ a.s = Tapless(e)
    BY <2>1, <2>3, <2>4, AsciiOther
  <2>6. r.r = "noop" /\ r.s = Tapless(e)
    BY <2>1, <2>3, <2>5 DEF Recognizer, Noop, Res
  <2>7. Good(Tapless(e)) /\ Tapless(e).input = e.input /\ Tapless(e).ascii_mode = e.ascii_mode
    BY <2>4, TaplessGood
  <2>8. Good(u) /\ u.input = e.input /\ u.ascii_mode = e.ascii_mode
    BY <2>1, <2>6, <2>7, Reinterprets
  <2>9. b = Accepted(Redirected(u, "2", soon))
    <3>1. Binding(u, ev.key) = "2"
      BY <2>1 DEF Binding
    <3>2. ~Reinterpreted(r.s, ev)
      BY <2>6, <2>7, <2>8 DEF Reinterpreted
    <3>. HIDE DEF r
    <3>. QED
      BY <2>1, <3>1, <3>2 DEF KeyBinder, PerformKeyBinding
  <2>. HIDE DEF u
  <2>10. e' = Redirected(u, "2", soon)
    <3>1. b.r # "noop" /\ b.s = Redirected(u, "2", soon)
      BY <2>9 DEF Accepted, Res
    <3>. QED
      BY <2>1, <2>2, <2>5, <2>6, <3>1, Chain
  <2>11. Redirected(u, "2", soon).input = Append(u.input, "2")
    <3> DEFINE dig == [key |-> "2", mods |-> {}, caps |-> FALSE, release |-> FALSE]
               p1 == AsciiComposer(u, dig, soon)
               p2 == Then(p1, Recognizer(p1.s, dig))
               p3 == Then(p2, Editing(p2.s, dig))
               t == Tapless(u)
    <3>1. Redirected(u, "2", soon) = p3.s
      BY DEF Redirected
    <3>2. /\ dig.key = "2" /\ dig.mods = {} /\ ~dig.caps /\ ~dig.release
          /\ "2" \notin ModKeys /\ "2" \in Printable \ {"space"} /\ Char("2") = "2"
      BY DEF ModKeys, Shifts, Printable, Char
    <3>. HIDE DEF dig
    <3>3. p1.r = "noop" /\ p1.s = t
      BY <2>8, <3>2, AsciiOther
    <3>4. Good(t) /\ t.input = u.input
      BY <2>8, TaplessGood
    <3>. HIDE DEF p1, t
    <3>5. PushInput(t, "2").input = Append(u.input, "2")
      BY <3>2, <3>4, PushEdits
    <3>6. p2 = Accepted(PushInput(t, "2")) \/ p2 = Noop(t)
      BY <3>2, <3>3 DEF Then, Recognizer
    <3>. HIDE DEF p2
    <3>7. CASE p2 = Accepted(PushInput(t, "2"))
      <4>1. p3 = p2 /\ p2.s = PushInput(t, "2")
        BY <3>7 DEF Then, Accepted, Res
      <4>. QED
        BY <3>1, <3>5, <4>1
    <3>8. CASE p2 = Noop(t)
      <4>1. p3 = Editing(t, dig)
        BY <3>8 DEF Then, Noop, Res
      <4>2. Speller(t, dig) = Accepted(PushInput(t, "2"))
        BY <3>2 DEF Speller
      <4>3. Editing(t, dig) = Accepted(PushInput(t, "2"))
        BY <3>2, <4>2 DEF Editing, Then, Accepted, Res
      <4>4. p3.s = PushInput(t, "2")
        BY <4>1, <4>3 DEF Accepted, Res
      <4>. QED
        BY <3>1, <3>5, <4>4
    <3>. QED
      BY <3>6, <3>7, <3>8
  <2>. QED
    BY <2>8, <2>10, <2>11
<1>. QED
  BY <1>1, InitOK, NextOK, PTL DEF Spec, KeypadSpells
=============================================================================
