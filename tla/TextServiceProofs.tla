------------------------- MODULE TextServiceProofs -------------------------
(***************************************************************************)
(* What is proved about the text service: that the functions on the record *)
(* s make states of states, and from this the properties of module         *)
(* TextService, for all applications.                                      *)
(***************************************************************************)
EXTENDS TextService, FiniteSetTheorems, SequenceTheorems, TLAPS

\* No call changes the application, nor how it shows code.
Same(t, u) == /\ u.app = t.app /\ u.inline = t.inline
              /\ u.been_off = t.been_off /\ u.crowded = t.crowded
\* What is in the document
SameDocument(t, u) == /\ u.live = t.live /\ u.pComposition = t.pComposition
                      /\ u.text = t.text
\* What the server has
SameServer(t, u) == u.session = t.session /\ u.unread = t.unread

-----------------------------------------------------------------------------
(* The pipe.                                                               *)

\* A request spoils the buffer and nothing else.
LEMMA SpoilIs ==
  ASSUME NEW t, StateOK(t)
  PROVE  /\ StateOK(Spoil(t)) /\ Same(t, Spoil(t)) /\ SameDocument(t, Spoil(t))
         /\ SameServer(t, Spoil(t)) /\ Spoil(t).buffer = Spoilt
         /\ Spoil(t).pre = t.pre /\ Spoil(t).composing = t.composing
BY DEF StateOK, Fields, Spoil, Same, SameDocument, SameServer

\* Clearing the composition takes the code from the server.
LEMMA ClearCompositionIs ==
  ASSUME NEW t, StateOK(t)
  PROVE  /\ StateOK(ClearComposition(t)) /\ Same(t, ClearComposition(t))
         /\ SameDocument(t, ClearComposition(t)) /\ SameServer(t, ClearComposition(t))
         /\ ClearComposition(t).buffer \in {t.buffer, Spoilt}
         /\ ClearComposition(t).pre = (IF t.session = "good" THEN NoCode ELSE t.pre)
         /\ ClearComposition(t).composing = t.composing
<1> DEFINE u == [t EXCEPT !.pre = NoCode]
<1>1. /\ StateOK(u) /\ Same(t, u) /\ SameDocument(t, u) /\ SameServer(t, u)
      /\ u.buffer = t.buffer /\ u.pre = NoCode /\ u.composing = t.composing
  BY DEF StateOK, Fields, Same, SameDocument, SameServer
<1>2. ClearComposition(t) = IF t.session = "good" THEN Spoil(u)
                            ELSE IF Active(t) THEN Spoil(t) ELSE t
  BY DEF ClearComposition
<1>. HIDE DEF u
<1>3. CASE t.session = "good"
  BY <1>1, <1>2, <1>3, SpoilIs DEF Same, SameDocument, SameServer
<1>4. CASE t.session # "good"
  BY <1>2, <1>4, SpoilIs DEF Same, SameDocument, SameServer
<1>. QED
  BY <1>3, <1>4

\* The answer hands over the texts the server has.
LEMMA RespondIs ==
  ASSUME NEW t, StateOK(t)
  PROVE  /\ StateOK(Respond(t)) /\ Same(t, Respond(t)) /\ SameDocument(t, Respond(t))
         /\ Respond(t).session = t.session /\ Respond(t).unread = <<>>
         /\ Respond(t).buffer = Response(t.unread, t.pre)
         /\ Respond(t).pre = t.pre /\ Respond(t).composing = t.composing
<1>1. /\ Respond(t).buffer = Response(t.unread, t.pre) /\ Respond(t).unread = <<>>
      /\ DOMAIN Respond(t) = DOMAIN t
      /\ Same(t, Respond(t)) /\ SameDocument(t, Respond(t))
      /\ Respond(t).session = t.session /\ Respond(t).pre = t.pre
      /\ Respond(t).composing = t.composing
  BY DEF StateOK, Fields, Respond, Same, SameDocument
<1>2. Response(t.unread, t.pre) \in
        [commit : Seq(1 .. t.app.commits), pre : t.app.codes \cup {NoCode}]
  BY DEF StateOK, Response
<1>3. <<>> \in Seq(1 .. t.app.commits)
  OBVIOUS
<1>. QED
  BY <1>1, <1>2, <1>3 DEF StateOK, Same, SameDocument

-----------------------------------------------------------------------------
(* The document.                                                           *)

\* Only finitely many compositions are in use, so there is a free number.
LEMMA RequestedFinite ==
  ASSUME queue \in Seq(Sessions)
  PROVE  IsFiniteSet(Requested)
<1> DEFINE f == [i \in DOMAIN queue |-> queue[i].composition]
<1>1. DOMAIN queue = 1 .. Len(queue) /\ Len(queue) \in Nat
  OBVIOUS
<1>2. IsFiniteSet(DOMAIN queue)
  BY <1>1, FS_Interval
<1>3. f \in Surjection(DOMAIN queue, Requested)
  BY DEF Surjection, Requested
<1>. QED
  BY <1>2, <1>3, FS_Surjection

LEMMA FreeNumber ==
  ASSUME NEW S, IsFiniteSet(S)
  PROVE  \E d \in 1 .. Cardinality(S) + 1 : d \notin S
<1>1. Cardinality(S) \in Nat
  BY FS_CardinalityType
<1>2. Cardinality(1 .. Cardinality(S) + 1) = Cardinality(S) + 1
  BY <1>1, FS_Interval
<1>3. 1 .. Cardinality(S) + 1 \notin SUBSET S
  BY <1>1, <1>2, FS_Subset
<1>. QED
  BY <1>3

\* Dropping a composition leaves the others.
LEMMA DropIs ==
  ASSUME NEW t, StateOK(t), NEW c
  PROVE  /\ StateOK(Drop(t, c)) /\ Same(t, Drop(t, c)) /\ SameServer(t, Drop(t, c))
         /\ DOMAIN Drop(t, c).live = DOMAIN t.live \ {c}
         /\ \A d \in DOMAIN t.live \ {c} : Drop(t, c).live[d] = t.live[d]
         /\ Drop(t, c).pComposition = t.pComposition /\ Drop(t, c).text = t.text
         /\ Drop(t, c).pre = t.pre /\ Drop(t, c).buffer = t.buffer
         /\ Drop(t, c).composing = t.composing
<1> DEFINE u == Drop(t, c)
<1>1. /\ DOMAIN u = DOMAIN t
      /\ u.live = [d \in DOMAIN t.live \ {c} |-> t.live[d]]
      /\ Same(t, u) /\ SameServer(t, u)
      /\ u.pComposition = t.pComposition /\ u.text = t.text
      /\ u.pre = t.pre /\ u.buffer = t.buffer /\ u.composing = t.composing
  BY DEF Drop, StateOK, Fields, Same, SameServer
<1>2. /\ DOMAIN u.live = DOMAIN t.live \ {c}
      /\ \A d \in DOMAIN t.live \ {c} : u.live[d] = t.live[d]
  BY <1>1
<1>. HIDE DEF u
<1>3. DOMAIN u.live \subseteq Compositions /\ IsFiniteSet(DOMAIN u.live)
  <2>1. DOMAIN t.live \subseteq Compositions /\ IsFiniteSet(DOMAIN t.live)
    BY DEF StateOK
  <2>2. IsFiniteSet(DOMAIN t.live \ {c})
    BY <2>1, FS_RemoveElement
  <2>. QED
    BY <1>2, <2>1, <2>2
<1>4. StateOK(u)
  BY <1>1, <1>2, <1>3 DEF StateOK, Same, SameServer
<1>. QED
  BY <1>1, <1>2, <1>4 DEF u

\* A composition ends up with the text that is put into it.
LEMMA PutIs ==
  ASSUME NEW t, StateOK(t), NEW c \in Compositions, NEW x
  PROVE  /\ DOMAIN Put(t, c, x) = Fields
         /\ Same(t, Put(t, c, x)) /\ SameServer(t, Put(t, c, x))
         /\ DOMAIN Put(t, c, x).live = DOMAIN t.live \cup {c}
         /\ Put(t, c, x).live[c] = x
         /\ \A d \in DOMAIN t.live \ {c} : Put(t, c, x).live[d] = t.live[d]
         /\ Put(t, c, x).pComposition = t.pComposition /\ Put(t, c, x).text = t.text
         /\ Put(t, c, x).pre = t.pre /\ Put(t, c, x).buffer = t.buffer
         /\ Put(t, c, x).composing = t.composing
         /\ x \in t.app.codes \cup {NoText, Space} => StateOK(Put(t, c, x))
<1> DEFINE u == Put(t, c, x)
<1>1. /\ DOMAIN u = DOMAIN t
      /\ u.live = [d \in DOMAIN t.live \cup {c} |-> IF d = c THEN x ELSE t.live[d]]
      /\ Same(t, u) /\ SameServer(t, u)
      /\ u.pComposition = t.pComposition /\ u.text = t.text
      /\ u.pre = t.pre /\ u.buffer = t.buffer /\ u.composing = t.composing
  BY DEF Put, StateOK, Fields, Same, SameServer
<1>2. /\ DOMAIN u.live = DOMAIN t.live \cup {c} /\ u.live[c] = x
      /\ \A d \in DOMAIN t.live \ {c} : u.live[d] = t.live[d]
  BY <1>1
<1>. HIDE DEF u
<1>3. DOMAIN u.live \subseteq Compositions /\ IsFiniteSet(DOMAIN u.live)
  <2>1. DOMAIN t.live \subseteq Compositions /\ IsFiniteSet(DOMAIN t.live)
    BY DEF StateOK
  <2>2. IsFiniteSet(DOMAIN t.live \cup {c})
    BY <2>1, FS_AddElement
  <2>. QED
    BY <1>2, <2>1, <2>2
<1>4. ASSUME x \in t.app.codes \cup {NoText, Space} PROVE StateOK(u)
  <2>1. \A d \in DOMAIN u.live : u.live[d] \in t.app.codes \cup {NoText, Space}
    BY <1>2, <1>4 DEF StateOK
  <2>. QED
    BY <1>1, <1>3, <2>1 DEF StateOK, Same, SameServer
<1>. QED
  BY <1>1, <1>2, <1>4 DEF StateOK, u

\* The new composition has a number that no other has, and no text but the space.
LEMMA StartCompositionIs ==
  ASSUME NEW t, StateOK(t), queue \in Seq(Sessions)
  PROVE  LET u == StartComposition(t) IN
         /\ StateOK(u) /\ Same(t, u) /\ SameServer(t, u)
         /\ u.pComposition \in Compositions \ (DOMAIN t.live \cup Requested)
         /\ DOMAIN u.live = DOMAIN t.live \cup {u.pComposition}
         /\ t.inline => u.live[u.pComposition] = NoText
         /\ u.text = t.text /\ u.pre = t.pre /\ u.buffer = t.buffer
         /\ u.composing = t.composing
<1> DEFINE used == DOMAIN t.live \cup Requested
           c == CHOOSE d \in 1 .. Cardinality(used) + 1 : d \notin used
           t1 == [t EXCEPT !.pComposition = c]
           blank == IF t.inline THEN NoText ELSE Space
<1>1. c \in Compositions /\ c \notin used
  <2>1. IsFiniteSet(DOMAIN t.live) /\ IsFiniteSet(Requested)
    BY RequestedFinite DEF StateOK
  <2>2. IsFiniteSet(used)
    BY <2>1, FS_Union
  <2>3. Cardinality(used) \in Nat
    BY <2>2, FS_CardinalityType
  <2>. HIDE DEF used
  <2>4. c \in 1 .. Cardinality(used) + 1 /\ c \notin used
    BY <2>2, FreeNumber
  <2>. QED
    BY <2>3, <2>4 DEF Compositions, None
<1>2. StartComposition(t) = Put(t1, c, blank)
  BY DEF StartComposition
<1>. HIDE DEF c
<1>3. /\ StateOK(t1) /\ Same(t, t1) /\ SameServer(t, t1) /\ t1.pComposition = c
      /\ t1.live = t.live /\ t1.text = t.text /\ t1.pre = t.pre
      /\ t1.buffer = t.buffer /\ t1.composing = t.composing
  BY <1>1 DEF StateOK, Fields, Same, SameServer
<1>4. blank \in t1.app.codes \cup {NoText, Space}
  OBVIOUS
<1>. HIDE DEF t1, blank
<1> DEFINE u == Put(t1, c, blank)
<1>5. /\ StateOK(u) /\ Same(t1, u) /\ SameServer(t1, u)
      /\ DOMAIN u.live = DOMAIN t1.live \cup {c} /\ u.live[c] = blank
      /\ u.pComposition = c /\ u.text = t1.text /\ u.pre = t1.pre /\ u.buffer = t1.buffer
      /\ u.composing = t1.composing
  <2>1. c \in Compositions /\ StateOK(t1)
    BY <1>1, <1>3
  <2>. QED
    BY <1>3, <1>4, <2>1, PutIs
<1>. HIDE DEF u
<1>6. Same(t, u) /\ SameServer(t, u)
  BY <1>3, <1>5 DEF Same, SameServer
<1>7. t.inline => blank = NoText
  BY DEF blank
<1>8. StartComposition(t) = u
  BY <1>2 DEF u
<1>. QED
  BY <1>1, <1>3, <1>5, <1>6, <1>7, <1>8

\* A composition that ends without text takes its code along; the text service
\* forgets the composition it has.
LEMMA EndCompositionIs ==
  ASSUME NEW t, StateOK(t), NEW c \in Compositions
  PROVE  LET u == EndComposition(t, c, TRUE) IN
         /\ StateOK(u) /\ Same(t, u) /\ SameServer(t, u)
         /\ u.pComposition = None /\ DOMAIN u.live = DOMAIN t.live \ {c}
         /\ u.text = t.text /\ u.composing = t.composing
         /\ u.buffer \in {t.buffer, Spoilt}
         /\ u.pre = (IF c \in DOMAIN t.live /\ t.session = "good" THEN NoCode ELSE t.pre)
<1>1. c # None
  BY DEF Compositions
<1>2. CASE c \notin DOMAIN t.live
  <2> DEFINE u == [t EXCEPT !.pComposition = None]
  <2>1. EndComposition(t, c, TRUE) = u
    BY <1>1, <1>2 DEF EndComposition
  <2>2. /\ StateOK(u) /\ Same(t, u) /\ SameServer(t, u)
        /\ u.pComposition = None /\ u.live = t.live /\ u.text = t.text
        /\ u.composing = t.composing /\ u.buffer = t.buffer /\ u.pre = t.pre
    BY DEF StateOK, Fields, Same, SameServer
  <2>. HIDE DEF u
  <2>. QED
    BY <1>2, <2>1, <2>2
<1>3. CASE c \in DOMAIN t.live
  <2> DEFINE d == Drop(t, c)
             e == ClearComposition(d)
             u == [e EXCEPT !.pComposition = None]
  <2>1. EndComposition(t, c, TRUE) = u
    BY <1>1, <1>3 DEF EndComposition, Terminated
  <2>2. /\ StateOK(d) /\ Same(t, d) /\ SameServer(t, d)
        /\ DOMAIN d.live = DOMAIN t.live \ {c} /\ d.text = t.text
        /\ d.pre = t.pre /\ d.buffer = t.buffer /\ d.composing = t.composing
    BY DropIs
  <2>. HIDE DEF d
  <2>3. /\ StateOK(e) /\ Same(d, e) /\ SameDocument(d, e) /\ SameServer(d, e)
        /\ e.buffer \in {d.buffer, Spoilt} /\ e.composing = d.composing
        /\ e.pre = (IF d.session = "good" THEN NoCode ELSE d.pre)
    BY <2>2, ClearCompositionIs
  <2>. HIDE DEF e
  <2>4. /\ StateOK(u) /\ Same(e, u) /\ SameServer(e, u)
        /\ u.pComposition = None /\ u.live = e.live /\ u.text = e.text
        /\ u.composing = e.composing /\ u.buffer = e.buffer /\ u.pre = e.pre
    BY <2>3 DEF StateOK, Fields, Same, SameServer
  <2>. HIDE DEF u
  <2>5. Same(t, u) /\ SameServer(t, u)
    BY <2>2, <2>3, <2>4 DEF Same, SameServer
  <2>6. u.live = d.live /\ u.text = t.text /\ d.session = t.session
    BY <2>2, <2>3, <2>4 DEF SameDocument, SameServer
  <2>. QED
    BY <1>3, <2>1, <2>2, <2>3, <2>4, <2>5, <2>6
<1>. QED
  BY <1>2, <1>3

\* A commit ends the composition, with its text in the document unless the
\* composition had been terminated behind the text service's back.
LEMMA CommittedIs ==
  ASSUME NEW t, StateOK(t), queue \in Seq(Sessions),
         NEW commit \in Seq(1 .. t.app.commits), commit # <<>>
  PROVE  LET u == Committed(t, commit) IN
         /\ StateOK(u) /\ Same(t, u) /\ SameServer(t, u)
         /\ u.pComposition = None /\ DOMAIN u.live = DOMAIN t.live \ {t.pComposition}
         /\ u.text \in {t.text, t.text \o commit}
         /\ t.pComposition \in {None} \cup DOMAIN t.live => u.text = t.text \o commit
         /\ u.pre = t.pre /\ u.buffer = t.buffer /\ u.composing = t.composing
<1> DEFINE t1 == IF t.pComposition = None THEN StartComposition(t) ELSE t
           c == t1.pComposition
           t2 == InsertText(t1, commit)
           u == EndComposition(t2, c, FALSE)
<1>1. /\ StateOK(t1) /\ Same(t, t1) /\ SameServer(t, t1) /\ c \in Compositions
      /\ DOMAIN t1.live \ {c} = DOMAIN t.live \ {t.pComposition}
      /\ t.pComposition \in {None} \cup DOMAIN t.live => c \in DOMAIN t1.live
      /\ t1.text = t.text /\ t1.pre = t.pre /\ t1.buffer = t.buffer
      /\ t1.composing = t.composing
  <2>1. CASE t.pComposition = None
    <3>1. None \notin DOMAIN t.live
      BY DEF StateOK, Compositions
    <3>. QED
      BY <2>1, <3>1, StartCompositionIs
  <2>2. CASE t.pComposition # None
    <3>1. t.pComposition \in Compositions
      BY <2>2 DEF StateOK
    <3>. QED
      BY <2>2, <3>1 DEF Same, SameServer
  <2>. QED
    BY <2>1, <2>2
<1>2. c # None
  BY <1>1 DEF Compositions
<1>. HIDE DEF t1
<1>3. t2.pComposition = c
  BY <1>1, PutIs DEF InsertText
<1>4. Committed(t, commit) = u
  BY <1>3 DEF Committed, t1
<1>5. /\ StateOK(u) /\ Same(t1, u) /\ SameServer(t1, u)
      /\ u.pComposition = None /\ DOMAIN u.live = DOMAIN t1.live \ {c}
      /\ u.text = (IF c \in DOMAIN t1.live THEN t1.text \o commit ELSE t1.text)
      /\ u.pre = t1.pre /\ u.buffer = t1.buffer /\ u.composing = t1.composing
  <2>1. CASE c \notin DOMAIN t1.live
    <3>1. u = [t1 EXCEPT !.pComposition = None]
      BY <1>2, <2>1 DEF InsertText, EndComposition
    <3>. HIDE DEF u
    <3>2. /\ StateOK(u) /\ Same(t1, u) /\ SameServer(t1, u)
          /\ u.pComposition = None /\ u.live = t1.live /\ u.text = t1.text
          /\ u.pre = t1.pre /\ u.buffer = t1.buffer /\ u.composing = t1.composing
      BY <1>1, <3>1 DEF StateOK, Fields, Same, SameServer
    <3>. QED
      BY <2>1, <3>2
  <2>2. CASE c \in DOMAIN t1.live
    <3> DEFINE d == Drop(t2, c)
    <3>1. t2 = Put(t1, c, commit)
      BY <2>2 DEF InsertText
    <3>. HIDE DEF t2
    <3>2. /\ DOMAIN t2 = Fields /\ Same(t1, t2) /\ SameServer(t1, t2)
          /\ DOMAIN t2.live = DOMAIN t1.live \cup {c} /\ t2.live[c] = commit
          /\ \A e \in DOMAIN t1.live \ {c} : t2.live[e] = t1.live[e]
          /\ t2.pComposition = t1.pComposition /\ t2.text = t1.text /\ t2.pre = t1.pre
          /\ t2.buffer = t1.buffer /\ t2.composing = t1.composing
      BY <1>1, <3>1, PutIs
    <3>3. u = [d EXCEPT !.pComposition = None, !.text = @ \o t2.live[c]]
      BY <1>2, <2>2, <3>2 DEF EndComposition
    <3>4. /\ DOMAIN d = DOMAIN t2
          /\ d.live = [e \in DOMAIN t2.live \ {c} |-> t2.live[e]]
          /\ Same(t2, d) /\ SameServer(t2, d) /\ d.text = t2.text
          /\ d.pre = t2.pre /\ d.buffer = t2.buffer /\ d.composing = t2.composing
      BY <3>2 DEF Drop, Fields, Same, SameServer
    <3>. HIDE DEF d
    <3>5. /\ DOMAIN u = Fields /\ u.live = d.live /\ Same(d, u) /\ SameServer(d, u)
          /\ u.pComposition = None /\ u.text = d.text \o t2.live[c]
          /\ u.pre = d.pre /\ u.buffer = d.buffer /\ u.composing = d.composing
      <4>1. DOMAIN d = Fields
        BY <3>2, <3>4
      <4>2. /\ DOMAIN u = Fields /\ u.live = d.live /\ u.app = d.app /\ u.inline = d.inline
            /\ u.been_off = d.been_off /\ u.crowded = d.crowded
            /\ u.session = d.session /\ u.unread = d.unread
        BY <3>3, <4>1 DEF Fields
      <4>3. /\ u.pComposition = None /\ u.text = d.text \o t2.live[c]
            /\ u.pre = d.pre /\ u.buffer = d.buffer /\ u.composing = d.composing
        BY <3>3, <4>1 DEF Fields
      <4>. QED
        BY <4>2, <4>3 DEF Same, SameServer
    <3>. HIDE DEF u
    <3>6. Same(t1, u) /\ SameServer(t1, u)
      BY <3>2, <3>4, <3>5 DEF Same, SameServer
    <3>7. /\ DOMAIN u.live = DOMAIN t1.live \ {c}
          /\ \A e \in DOMAIN u.live : u.live[e] = t1.live[e]
      BY <3>2, <3>4, <3>5
    <3>8. IsFiniteSet(DOMAIN u.live)
      <4>1. IsFiniteSet(DOMAIN t1.live)
        BY <1>1 DEF StateOK
      <4>2. IsFiniteSet(DOMAIN t1.live \ {c})
        BY <4>1, FS_RemoveElement
      <4>. QED
        BY <3>7, <4>2
    <3>9. u.text = t1.text \o commit /\ u.text \in Seq(1 .. t1.app.commits)
      BY <1>1, <3>2, <3>4, <3>5 DEF StateOK, Same
    <3>10. u.pre = t1.pre /\ u.buffer = t1.buffer /\ u.composing = t1.composing
      BY <3>2, <3>4, <3>5
    <3>11. StateOK(u)
      BY <1>1, <3>5, <3>6, <3>7, <3>8, <3>9, <3>10 DEF StateOK, Same, SameServer
    <3>. QED
      BY <2>2, <3>5, <3>6, <3>7, <3>9, <3>10, <3>11
  <2>. QED
    BY <2>1, <2>2
<1>. HIDE DEF u
<1>6. Same(t, u) /\ SameServer(t, u)
  BY <1>1, <1>5 DEF Same, SameServer
<1>. QED
  BY <1>1, <1>4, <1>5, <1>6

\* The document has the composition that the text service knows, and no other.
Single(t) == DOMAIN t.live = {t.pComposition} \ {None}

\* It has one if the server has code, and inline it shows this code.
Shown(t) == /\ t.pComposition # None <=> t.pre # NoCode
            /\ t.inline => \A c \in DOMAIN t.live : t.live[c] = t.pre

\* After it there is a composition if and only if the last answer had code.
LEMMA ComposedIs ==
  ASSUME NEW t, StateOK(t), queue \in Seq(Sessions)
  PROVE  LET u == Composed(t) IN
         /\ StateOK(u) /\ Same(t, u) /\ SameServer(t, u)
         /\ u.pComposition # None <=> t.composing
         /\ u.text = t.text /\ u.composing = t.composing
         /\ u.buffer \in {t.buffer, Spoilt} /\ u.pre \in {t.pre, NoCode}
         /\ t.composing => u.pre = t.pre
         /\ Single(t) => Single(u)
<1>. t.composing \in BOOLEAN /\ t.pComposition \in Compositions \cup {None} /\ None \notin Compositions
  BY DEF StateOK, Compositions
<1>0. None \notin DOMAIN t.live
  BY DEF StateOK
<1>1. CASE t.composing /\ t.pComposition = None
  <2> DEFINE u == StartComposition(t)
  <2>1. Composed(t) = u
    BY <1>1 DEF Composed
  <2>2. /\ StateOK(u) /\ Same(t, u) /\ SameServer(t, u)
        /\ u.pComposition \in Compositions
        /\ DOMAIN u.live = DOMAIN t.live \cup {u.pComposition}
        /\ u.text = t.text /\ u.pre = t.pre /\ u.buffer = t.buffer
        /\ u.composing = t.composing
    BY StartCompositionIs
  <2>. HIDE DEF u
  <2>. QED
    BY <1>1, <2>1, <2>2 DEF Single
<1>2. CASE t.composing /\ t.pComposition # None
  BY <1>2 DEF Composed, Same, SameServer
<1>3. CASE ~t.composing /\ t.pComposition = None
  BY <1>3 DEF Composed, EndComposition, Same, SameServer
<1>4. CASE ~t.composing /\ t.pComposition # None
  <2> DEFINE u == EndComposition(t, t.pComposition, TRUE)
  <2>1. Composed(t) = u
    BY <1>4 DEF Composed
  <2>2. /\ StateOK(u) /\ Same(t, u) /\ SameServer(t, u)
        /\ u.pComposition = None /\ DOMAIN u.live = DOMAIN t.live \ {t.pComposition}
        /\ u.text = t.text /\ u.composing = t.composing
        /\ u.buffer \in {t.buffer, Spoilt} /\ u.pre \in {t.pre, NoCode}
    BY <1>4, EndCompositionIs
  <2>. HIDE DEF u
  <2>. QED
    BY <1>4, <2>1, <2>2 DEF Single
<1>. QED
  BY <1>1, <1>2, <1>3, <1>4

\* A composition without text is terminated, which takes its code along.
LEMMA ClosedIs ==
  ASSUME NEW t, StateOK(t)
  PROVE  LET u == Closed(t) IN
         /\ StateOK(u) /\ Same(t, u) /\ SameServer(t, u)
         /\ u.text = t.text /\ u.buffer \in {t.buffer, Spoilt}
         /\ u.pre \in {t.pre, NoCode}
         /\ Single(t) => Single(u)
         /\ Single(t) /\ t.session = "good" /\ Shown(t) => Shown(u)
<1> DEFINE c == t.pComposition
<1>1. CASE c \in DOMAIN t.live /\ t.live[c] = NoText
  <2> DEFINE u == EndComposition(t, c, TRUE)
  <2>1. c \in Compositions /\ c # None
    BY <1>1 DEF StateOK, Compositions
  <2>2. Closed(t) = u
    BY <1>1, <2>1 DEF Closed, EndComposition
  <2>3. /\ StateOK(u) /\ Same(t, u) /\ SameServer(t, u)
        /\ u.pComposition = None /\ DOMAIN u.live = DOMAIN t.live \ {c}
        /\ u.text = t.text /\ u.buffer \in {t.buffer, Spoilt}
        /\ u.pre = (IF t.session = "good" THEN NoCode ELSE t.pre)
    BY <1>1, <2>1, EndCompositionIs
  <2>. HIDE DEF u
  <2>. QED
    BY <1>1, <2>1, <2>2, <2>3 DEF Single, Shown
<1>2. CASE ~(c \in DOMAIN t.live /\ t.live[c] = NoText)
  BY <1>2 DEF Closed, Same, SameServer
<1>. QED
  BY <1>1, <1>2

LEMMA ExtentsAre ==
  ASSUME NEW t, StateOK(t), NEW u \in Extents(t)
  PROVE  /\ StateOK(u) /\ Same(t, u) /\ SameServer(t, u) /\ SameDocument(t, u)
         /\ u.buffer \in {t.buffer, Spoilt}
         /\ u.pre = t.pre /\ u.composing = t.composing
<1>1. u = t \/ u = Spoil(t)
  BY DEF Extents
<1>2. CASE u = t
  BY <1>2 DEF Same, SameServer, SameDocument
<1>3. CASE u = Spoil(t)
  BY <1>3, SpoilIs
<1>. QED
  BY <1>1, <1>2, <1>3

\* Parsing the buffer changes _status.composing and nothing else.
LEMMA ParsedIs ==
  ASSUME NEW t, StateOK(t)
  PROVE  /\ StateOK(Parsed(t)) /\ Same(t, Parsed(t)) /\ SameServer(t, Parsed(t))
         /\ SameDocument(t, Parsed(t))
         /\ Parsed(t).buffer = t.buffer /\ Parsed(t).pre = t.pre
         /\ t.buffer # Spoilt => Parsed(t).composing = (t.buffer.pre # NoCode)
<1>1. CASE t.buffer = Spoilt
  BY <1>1 DEF Parsed, Same, SameServer, SameDocument
<1>2. CASE t.buffer # Spoilt
  <2> DEFINE b == t.buffer.pre # NoCode
             p == Parsed(t)
  <2>1. p = [t EXCEPT !.composing = b] /\ b \in BOOLEAN
    BY <1>2 DEF Parsed
  <2>. HIDE DEF b, p
  <2>2. /\ StateOK(p) /\ Same(t, p) /\ SameServer(t, p) /\ SameDocument(t, p)
        /\ p.buffer = t.buffer /\ p.pre = t.pre /\ p.composing = b
    BY <2>1 DEF StateOK, Fields, Same, SameServer, SameDocument
  <2>. QED
    BY <2>2 DEF b, p
<1>. QED
  BY <1>1, <1>2

\* What the whole edit session makes of the document and of the buffer.
LEMMA DoEditSessionIs ==
  ASSUME NEW t, StateOK(t), queue \in Seq(Sessions),
         NEW v \in DoEditSession(t)
  PROVE  /\ StateOK(v) /\ Same(t, v) /\ SameServer(t, v)
         /\ v.text \in {t.text, t.text \o t.buffer.commit}
         /\ v.buffer \in {t.buffer, Spoilt} /\ v.pre \in {t.pre, NoCode}
         /\ Single(t) => Single(v) /\ v.text = t.text \o t.buffer.commit
         /\ /\ Single(t) /\ t.session = "good"
            /\ t.buffer # Spoilt /\ t.buffer.pre = t.pre
            => Shown(v)
<1> DEFINE r == t.buffer
           p == Parsed(t)
           q == Committed(p, r.commit)
           w == Composed(q)
           x == IF t.inline /\ r # Spoilt /\ w.pComposition # None
                THEN ShowInlinePreedit(w, r.pre) ELSE w
           y == Closed(x)
<1>1. /\ StateOK(p) /\ Same(t, p) /\ SameServer(t, p) /\ SameDocument(t, p)
      /\ p.buffer = t.buffer /\ p.pre = t.pre
      /\ r # Spoilt => p.composing = (r.pre # NoCode)
  BY ParsedIs
<1>2. r.commit \in Seq(1 .. t.app.commits) /\ (r # Spoilt => r.pre \in t.app.codes \cup {NoCode})
  <2>1. CASE r = Spoilt
    <3>1. Spoilt.commit = <<>>
      BY DEF Spoilt, Response
    <3>2. <<>> \in Seq(1 .. t.app.commits)
      OBVIOUS
    <3>3. r.commit = <<>>
      BY <2>1, <3>1
    <3>. QED
      BY <2>1, <3>2, <3>3
  <2>2. CASE r # Spoilt
    <3>1. r \in [commit : Seq(1 .. t.app.commits), pre : t.app.codes \cup {NoCode}]
      BY <2>2 DEF StateOK
    <3>. HIDE DEF r
    <3>. QED
      BY <3>1
  <2>. QED
    BY <2>1, <2>2
<1>3. t.text \in Seq(1 .. t.app.commits)
  BY DEF StateOK
<1>. HIDE DEF p
<1>4. /\ StateOK(q) /\ Same(p, q) /\ SameServer(p, q)
      /\ q.text \in {t.text, t.text \o r.commit}
      /\ Single(p) => Single(q) /\ q.text = t.text \o r.commit
      /\ q.pre = p.pre /\ q.buffer = p.buffer /\ q.composing = p.composing
  <2>1. CASE r.commit = <<>>
    <3>1. q = p
      BY <2>1 DEF Committed
    <3>2. t.text \o r.commit = t.text
      BY <1>3, <2>1, ConcatEmptySeq
    <3>. HIDE DEF q, r
    <3>. QED
      BY <1>1, <3>1, <3>2 DEF Same, SameServer, SameDocument
  <2>2. CASE r.commit # <<>>
    <3>1. p.app = t.app /\ p.text = t.text /\ r.commit \in Seq(1 .. p.app.commits)
      BY <1>1, <1>2 DEF Same, SameDocument
    <3>. HIDE DEF r
    <3>2. /\ StateOK(q) /\ Same(p, q) /\ SameServer(p, q)
          /\ q.pComposition = None /\ DOMAIN q.live = DOMAIN p.live \ {p.pComposition}
          /\ q.text \in {p.text, p.text \o r.commit}
          /\ p.pComposition \in {None} \cup DOMAIN p.live => q.text = p.text \o r.commit
          /\ q.pre = p.pre /\ q.buffer = p.buffer /\ q.composing = p.composing
      BY <1>1, <2>2, <3>1, CommittedIs
    <3>. HIDE DEF q
    <3>. QED
      BY <3>1, <3>2 DEF Single
  <2>. QED
    BY <2>1, <2>2
<1>. HIDE DEF q
<1>5. /\ StateOK(w) /\ Same(q, w) /\ SameServer(q, w)
      /\ w.pComposition # None <=> q.composing
      /\ w.text = q.text /\ w.buffer \in {q.buffer, Spoilt} /\ w.pre \in {q.pre, NoCode}
      /\ q.composing => w.pre = q.pre
      /\ Single(q) => Single(w)
  BY <1>4, ComposedIs
<1>. HIDE DEF w
<1>6. Same(t, w) /\ SameServer(t, w)
  BY <1>1, <1>4, <1>5 DEF Same, SameServer
<1>7. /\ StateOK(x) /\ Same(w, x) /\ SameServer(w, x) /\ x.text = w.text
      /\ x.buffer = w.buffer /\ x.pre = w.pre /\ x.pComposition = w.pComposition
      /\ DOMAIN x.live = DOMAIN w.live
      /\ Single(w) /\ t.inline /\ r # Spoilt => \A c \in DOMAIN x.live : x.live[c] = r.pre
  <2>1. CASE t.inline /\ r # Spoilt /\ w.pComposition # None /\ w.pComposition \in DOMAIN w.live
    <3>1. x = Put(w, w.pComposition, r.pre)
      BY <2>1 DEF ShowInlinePreedit
    <3>2. r.pre # NoCode
      BY <1>1, <1>4, <1>5, <2>1
    <3>3. r.pre \in w.app.codes \cup {NoText, Space} /\ w.pComposition \in Compositions
      BY <1>2, <1>5, <1>6, <2>1, <3>2 DEF Same, StateOK
    <3>. HIDE DEF x, r
    <3>4. /\ StateOK(x) /\ Same(w, x) /\ SameServer(w, x) /\ x.text = w.text
          /\ x.buffer = w.buffer /\ x.pre = w.pre /\ x.pComposition = w.pComposition
          /\ DOMAIN x.live = DOMAIN w.live \cup {w.pComposition}
          /\ x.live[w.pComposition] = r.pre
      BY <1>5, <3>1, <3>3, PutIs
    <3>. QED
      BY <2>1, <3>4 DEF Single
  <2>2. CASE ~(t.inline /\ r # Spoilt /\ w.pComposition # None /\ w.pComposition \in DOMAIN w.live)
    <3>1. x = w
      BY <2>2 DEF ShowInlinePreedit
    <3>. HIDE DEF x, r
    <3>. QED
      BY <1>5, <2>2, <3>1 DEF Single, Same, SameServer
  <2>. QED
    BY <2>1, <2>2
<1>. HIDE DEF x
<1>8. /\ StateOK(y) /\ Same(x, y) /\ SameServer(x, y)
      /\ y.text = x.text /\ y.buffer \in {x.buffer, Spoilt}
      /\ y.pre \in {x.pre, NoCode}
      /\ Single(x) => Single(y)
      /\ Single(x) /\ x.session = "good" /\ Shown(x) => Shown(y)
  BY <1>7, ClosedIs
<1>9. v \in Extents(y)
  BY DEF DoEditSession, p, q, w, x
<1>. HIDE DEF y
<1>10. /\ StateOK(v) /\ Same(y, v) /\ SameServer(y, v) /\ SameDocument(y, v)
       /\ v.buffer \in {y.buffer, Spoilt} /\ v.pre = y.pre
  BY <1>8, <1>9, ExtentsAre
<1>11. Same(t, v) /\ SameServer(t, v) /\ x.session = t.session
  BY <1>6, <1>7, <1>8, <1>10 DEF Same, SameServer
<1>12. v.buffer \in {t.buffer, Spoilt} /\ v.pre \in {t.pre, NoCode}
  BY <1>1, <1>4, <1>5, <1>7, <1>8, <1>10
<1>13. v.text = q.text
  BY <1>5, <1>7, <1>8, <1>10 DEF SameDocument
<1>14. ASSUME Single(t) PROVE Single(p) /\ Single(q) /\ Single(w) /\ Single(x) /\ Single(v)
  BY <1>1, <1>4, <1>5, <1>7, <1>8, <1>10, <1>14 DEF Single, SameDocument
<1>15. ASSUME Single(t), t.session = "good", t.buffer # Spoilt, t.buffer.pre = t.pre
       PROVE  Shown(v)
  <2>1. q.pre = t.pre /\ (q.composing <=> t.pre # NoCode)
    BY <1>1, <1>4, <1>15
  <2>2. x.pre = t.pre /\ (x.pComposition # None <=> t.pre # NoCode)
    BY <1>5, <1>7, <2>1
  <2>3. x.inline = t.inline
    BY <1>6, <1>7 DEF Same
  <2>4. Shown(x)
    BY <1>7, <1>14, <1>15, <2>2, <2>3 DEF Shown
  <2>. QED
    BY <1>8, <1>10, <1>11, <1>14, <1>15, <2>4 DEF Shown, Same, SameDocument
<1>. QED
  BY <1>4, <1>10, <1>11, <1>12, <1>13, <1>14, <1>15

-----------------------------------------------------------------------------
(* Requests.  Every step but Grant ends with one of them, or with none.    *)

\* crowded is all that a session that has to wait changes
Alike(t, u) == u.app = t.app /\ u.inline = t.inline /\ u.been_off = t.been_off

\* An abort without a composition clears what the server has and is done.
LEMMA AbortIs ==
  ASSUME NEW t, StateOK(t), Abort(t)
  PROVE  \/ t.pComposition = None /\ s' = ClearComposition(t) /\ UNCHANGED queue
         \/ t.pComposition # None /\ RequestEnd(ClearComposition(t))
<1>1. ClearComposition(t).pComposition = t.pComposition
  BY ClearCompositionIs DEF SameDocument
<1>. QED
  BY <1>1 DEF Abort

LEMMA LaterIs ==
  ASSUME NEW t, StateOK(t), queue \in Seq(Sessions),
         NEW xs \in Seq(Sessions), Later(t, xs)
  PROVE  /\ StateOK(s') /\ Alike(t, s') /\ SameDocument(t, s') /\ SameServer(t, s')
         /\ s'.buffer = t.buffer /\ s'.pre = t.pre
         /\ s'.crowded <=> t.crowded \/ (Waits("update") /\ xs[1].kind # "extent")
         /\ queue' = queue \o xs /\ queue' \in Seq(Sessions)
         /\ "defer" \in Environment
<1> DEFINE b == t.crowded \/ (Waits("update") /\ xs[1].kind # "extent")
<1>1. b \in BOOLEAN
  BY DEF StateOK
<1>2. s' = [t EXCEPT !.crowded = b] /\ queue' = queue \o xs /\ "defer" \in Environment
  BY DEF Later
<1>3. queue' \in Seq(Sessions)
  BY <1>2
<1>. HIDE DEF b
<1>4. /\ StateOK(s') /\ Alike(t, s') /\ SameDocument(t, s') /\ SameServer(t, s')
      /\ s'.buffer = t.buffer /\ s'.pre = t.pre /\ s'.crowded = b
  BY <1>1, <1>2 DEF StateOK, Fields, Alike, SameDocument, SameServer
<1>. QED
  BY <1>2, <1>3, <1>4 DEF b

\* A composition is ended at once, or nothing happens, or it will be.
LEMMA RequestEndIs ==
  ASSUME NEW t, StateOK(t), queue \in Seq(Sessions), RequestEnd(t)
  PROVE  /\ StateOK(s') /\ Alike(t, s') /\ SameServer(t, s') /\ s'.text = t.text
         /\ s'.buffer \in {t.buffer, Spoilt} /\ s'.pre \in {t.pre, NoCode}
         /\ \/ queue' = queue /\ s' = t /\ t.pComposition = None
            \/ /\ queue = <<>> /\ queue' = queue
               /\ s'.crowded = t.crowded /\ t.pComposition \in Compositions
               /\ s'.pComposition = None /\ DOMAIN s'.live = DOMAIN t.live \ {t.pComposition}
               /\ s'.pre = (IF t.pComposition \in DOMAIN t.live /\ t.session = "good"
                            THEN NoCode ELSE t.pre)
            \/ /\ queue' = Append(queue, Session("end", t.pComposition))
               /\ s'.crowded <=> t.crowded \/ Waits("update")
               /\ SameDocument(t, s') /\ s'.pre = t.pre /\ s'.buffer = t.buffer
               /\ "defer" \in Environment
         /\ queue' \in Seq(Sessions)
<1> DEFINE x == Session("end", t.pComposition)
<1>1. t.pComposition \in Compositions \cup {None} /\ x \in Sessions
  BY DEF StateOK, Session, Sessions
<1>2. CASE AtOnce(Run(t, x))
  <2>1. queue = <<>> /\ queue' = queue /\ s' = EndComposition(t, t.pComposition, TRUE)
    BY <1>2 DEF AtOnce, Run, Session
  <2>2. CASE t.pComposition = None
    BY <2>1, <2>2 DEF EndComposition, Alike, SameServer
  <2>3. CASE t.pComposition # None
    <3>1. /\ StateOK(s') /\ Same(t, s') /\ SameServer(t, s')
          /\ s'.pComposition = None /\ DOMAIN s'.live = DOMAIN t.live \ {t.pComposition}
          /\ s'.text = t.text /\ s'.buffer \in {t.buffer, Spoilt}
          /\ s'.pre = (IF t.pComposition \in DOMAIN t.live /\ t.session = "good"
                       THEN NoCode ELSE t.pre)
      BY <1>1, <2>1, <2>3, EndCompositionIs
    <3>. QED
      BY <1>1, <2>1, <2>3, <3>1 DEF Same, Alike
  <2>. QED
    BY <2>2, <2>3
<1>3. CASE Later(t, <<x>>)
  <2>1. <<x>> \in Seq(Sessions) /\ <<x>>[1].kind # "extent"
    BY <1>1 DEF Session
  <2>. HIDE DEF x
  <2>2. /\ StateOK(s') /\ Alike(t, s') /\ SameDocument(t, s') /\ SameServer(t, s')
        /\ s'.buffer = t.buffer /\ s'.pre = t.pre
        /\ s'.crowded <=> t.crowded \/ Waits("update")
        /\ queue' = queue \o <<x>> /\ queue' \in Seq(Sessions) /\ "defer" \in Environment
    BY <1>3, <2>1, LaterIs
  <2>3. queue' = Append(queue, x)
    BY <1>1, <2>2, AppendIsConcat
  <2>4. s'.text = t.text
    BY <2>2 DEF SameDocument
  <2>. QED
    BY <2>2, <2>3, <2>4 DEF x
<1>. QED
  BY <1>2, <1>3 DEF RequestEnd, Request

\* The edit session runs at once, or will.
LEMMA UpdateCompositionIs ==
  ASSUME NEW t, StateOK(t), queue \in Seq(Sessions), UpdateComposition(t)
  PROVE  /\ StateOK(s') /\ Alike(t, s') /\ SameServer(t, s')
         /\ s'.buffer \in {t.buffer, Spoilt} /\ s'.pre \in {t.pre, NoCode}
         /\ s'.text \in {t.text, t.text \o t.buffer.commit}
         /\ \/ /\ queue = <<>> /\ queue' = queue /\ ~async_edit'
               /\ s'.crowded = t.crowded
               /\ Single(t) => Single(s') /\ s'.text = t.text \o t.buffer.commit
               /\ /\ Single(t) /\ t.session = "good"
                  /\ t.buffer # Spoilt /\ t.buffer.pre = t.pre
                  => Shown(s')
            \/ /\ queue' = queue \o <<Session("update", None), Session("extent", None)>>
               /\ SameDocument(t, s') /\ s'.buffer = t.buffer
               /\ s'.crowded <=> t.crowded \/ Waits("update")
               /\ "defer" \in Environment
         /\ queue' \in Seq(Sessions) /\ async_edit' \in BOOLEAN
<1> DEFINE xs == <<Session("update", None), Session("extent", None)>>
<1>1. CASE AtOnce(UNION {Extents(u) : u \in DoEditSession(t)}) /\ async_edit' = FALSE
  <2>1. PICK u \in DoEditSession(t) : s' \in Extents(u)
    BY <1>1 DEF AtOnce
  <2>2. /\ StateOK(u) /\ Same(t, u) /\ SameServer(t, u)
        /\ u.text \in {t.text, t.text \o t.buffer.commit}
        /\ u.buffer \in {t.buffer, Spoilt} /\ u.pre \in {t.pre, NoCode}
        /\ Single(t) => Single(u) /\ u.text = t.text \o t.buffer.commit
        /\ /\ Single(t) /\ t.session = "good"
           /\ t.buffer # Spoilt /\ t.buffer.pre = t.pre
           => Shown(u)
    BY <2>1, DoEditSessionIs
  <2>3. /\ StateOK(s') /\ Same(u, s') /\ SameServer(u, s') /\ SameDocument(u, s')
        /\ s'.buffer \in {u.buffer, Spoilt} /\ s'.pre = u.pre
    BY <2>1, <2>2, ExtentsAre
  <2>4. Alike(t, s') /\ s'.crowded = t.crowded /\ SameServer(t, s') /\ s'.text = u.text
    BY <2>2, <2>3 DEF Same, Alike, SameServer, SameDocument
  <2>5. Single(u) => Single(s')
    BY <2>3 DEF Single, SameDocument
  <2>6. Shown(u) => Shown(s')
    BY <2>3 DEF Shown, Same, SameDocument
  <2>7. queue = <<>> /\ queue' = queue /\ async_edit' = FALSE
    BY <1>1 DEF AtOnce
  <2>. QED
    BY <2>2, <2>3, <2>4, <2>5, <2>6, <2>7
<1>2. CASE Later(t, xs) /\ async_edit' = TRUE
  <2>1. xs \in Seq(Sessions) /\ xs[1].kind # "extent"
    BY DEF Session, Sessions
  <2>. HIDE DEF xs
  <2>2. /\ StateOK(s') /\ Alike(t, s') /\ SameDocument(t, s') /\ SameServer(t, s')
        /\ s'.buffer = t.buffer /\ s'.pre = t.pre
        /\ s'.crowded <=> t.crowded \/ Waits("update")
        /\ queue' = queue \o xs /\ queue' \in Seq(Sessions) /\ "defer" \in Environment
    BY <1>2, <2>1, LaterIs
  <2>3. s'.text = t.text
    BY <2>2 DEF SameDocument
  <2>. QED
    BY <1>2, <2>2, <2>3 DEF xs
<1>. QED
  BY <1>1, <1>2 DEF UpdateComposition

\* Asking for the position of the code changes nothing but the buffer.
LEMMA LayoutIs ==
  ASSUME StateOK(s), queue \in Seq(Sessions), Request(s, Session("extent", None))
  PROVE  /\ StateOK(s') /\ Alike(s, s') /\ SameServer(s, s') /\ SameDocument(s, s')
         /\ s'.crowded = s.crowded /\ s'.pre = s.pre
         /\ s'.buffer \in {s.buffer, Spoilt}
         /\ \/ queue = <<>> /\ queue' = queue
            \/ /\ queue' = Append(queue, Session("extent", None)) /\ s'.buffer = s.buffer
               /\ "defer" \in Environment
         /\ queue' \in Seq(Sessions)
<1> DEFINE x == Session("extent", None)
<1>1. x \in Sessions /\ x.kind = "extent"
  BY DEF Session, Sessions
<1>2. CASE AtOnce(Run(s, x))
  <2>1. queue = <<>> /\ queue' = queue /\ s' \in Extents(s)
    BY <1>2 DEF AtOnce, Run, Session
  <2>. QED
    BY <2>1, ExtentsAre DEF Same, Alike
<1>3. CASE Later(s, <<x>>)
  <2>. HIDE DEF x
  <2>1. <<x>> \in Seq(Sessions) /\ <<x>>[1].kind = "extent"
    BY <1>1
  <2>2. /\ StateOK(s') /\ Alike(s, s') /\ SameDocument(s, s') /\ SameServer(s, s')
        /\ s'.buffer = s.buffer /\ s'.pre = s.pre /\ (s'.crowded <=> s.crowded)
        /\ queue' = queue \o <<x>> /\ queue' \in Seq(Sessions) /\ "defer" \in Environment
    BY <1>3, <2>1, LaterIs
  <2>3. queue' = Append(queue, x)
    BY <1>1, <2>2, AppendIsConcat
  <2>4. s'.crowded = s.crowded
    BY <2>2 DEF StateOK
  <2>. QED
    BY <2>2, <2>3, <2>4 DEF x
<1>. QED
  BY <1>2, <1>3 DEF Request

\* One of the sessions that wait runs.
LEMMA GrantIs ==
  ASSUME StateOK(s), queue \in Seq(Sessions), Grant
  PROVE  /\ StateOK(s') /\ Same(s, s') /\ SameServer(s, s')
         /\ s'.buffer \in {s.buffer, Spoilt} /\ s'.pre \in {s.pre, NoCode}
         /\ queue # <<>> /\ queue' = Tail(queue) /\ queue' \in Seq(Sessions)
         /\ Head(queue) \in Sessions
         /\ \/ /\ Head(queue).kind = "update"
               /\ s'.text \in {s.text, s.text \o s.buffer.commit}
               /\ Single(s) => Single(s')
            \/ Head(queue).kind = "extent" /\ SameDocument(s, s')
            \/ /\ Head(queue).kind = "end" /\ s'.text = s.text
               /\ \/ Head(queue).composition = None /\ s' = s
                  \/ /\ Head(queue).composition \in Compositions
                     /\ s'.pComposition = None
                     /\ DOMAIN s'.live = DOMAIN s.live \ {Head(queue).composition}
<1> DEFINE x == Head(queue)
<1>1. queue # <<>> /\ queue' = Tail(queue) /\ s' \in Run(s, x)
  BY DEF Grant
<1>2. x \in Sessions /\ Tail(queue) \in Seq(Sessions)
  BY <1>1
<1>3. /\ x.kind \in {"update", "end", "extent"}
      /\ x.composition \in Compositions \cup {None}
  BY <1>2 DEF Sessions
<1>. HIDE DEF x
<1>4. CASE x.kind = "update"
  <2>1. s' \in DoEditSession(s)
    BY <1>1, <1>4 DEF Run
  <2>2. /\ StateOK(s') /\ Same(s, s') /\ SameServer(s, s')
        /\ s'.text \in {s.text, s.text \o s.buffer.commit}
        /\ s'.buffer \in {s.buffer, Spoilt} /\ s'.pre \in {s.pre, NoCode}
        /\ Single(s) => Single(s')
    BY <2>1, DoEditSessionIs
  <2>. QED
    BY <1>1, <1>2, <1>4, <2>2 DEF x
<1>5. CASE x.kind = "extent"
  <2>1. s' \in Extents(s)
    BY <1>1, <1>5 DEF Run
  <2>. QED
    BY <1>1, <1>2, <1>5, <2>1, ExtentsAre DEF x
<1>6. CASE x.kind = "end"
  <2>1. s' = EndComposition(s, x.composition, TRUE)
    BY <1>1, <1>6 DEF Run
  <2>2. CASE x.composition = None
    BY <1>1, <1>2, <1>6, <2>1, <2>2 DEF EndComposition, Same, SameServer, x
  <2>3. CASE x.composition # None
    <3>1. /\ StateOK(s') /\ Same(s, s') /\ SameServer(s, s')
          /\ s'.pComposition = None /\ DOMAIN s'.live = DOMAIN s.live \ {x.composition}
          /\ s'.text = s.text /\ s'.buffer \in {s.buffer, Spoilt}
          /\ s'.pre \in {s.pre, NoCode}
      BY <1>3, <2>1, <2>3, EndCompositionIs
    <3>. QED
      BY <1>1, <1>2, <1>3, <1>6, <2>3, <3>1 DEF x
  <2>. QED
    BY <2>2, <2>3
<1>. QED
  BY <1>3, <1>4, <1>5, <1>6 DEF x

-----------------------------------------------------------------------------
(* Keys.                                                                   *)

\* After it the session is good, or there is none.
LEMMA ConnectedIs ==
  ASSUME NEW t, StateOK(t)
  PROVE  LET u == Connected(t) IN
         /\ StateOK(u) /\ Same(t, u) /\ SameDocument(t, u) /\ u.buffer = Spoilt
         /\ u.session \in {"good", "none"} /\ u.pre \in {t.pre, NoCode}
         /\ t.session = "good" => u.session = "good" /\ u.pre = t.pre /\ u.unread = t.unread
         /\ t.session # "good" /\ u.session = "good" => u.pre = NoCode /\ u.unread = <<>>
         /\ u.session = "none" => u.pre = t.pre /\ u.unread = t.unread
<1> DEFINE a == [t EXCEPT !.session = "good", !.pre = NoCode, !.unread = <<>>,
                          !.composing = FALSE]
           b == [t EXCEPT !.session = "none"]
<1>1. <<>> \in Seq(1 .. t.app.commits)
  OBVIOUS
<1>2. /\ StateOK(a) /\ Same(t, a) /\ SameDocument(t, a)
      /\ a.session = "good" /\ a.pre = NoCode /\ a.unread = <<>>
  BY <1>1 DEF StateOK, Fields, Same, SameDocument
<1>3. /\ StateOK(b) /\ Same(t, b) /\ SameDocument(t, b)
      /\ b.session = "none" /\ b.pre = t.pre /\ b.unread = t.unread
  BY DEF StateOK, Fields, Same, SameDocument
<1>4. Connected(t) = IF t.session = "good" THEN Spoil(t)
                     ELSE IF running THEN Spoil(a) ELSE Spoil(b)
  BY DEF Connected
<1>. HIDE DEF a, b
<1>5. CASE t.session = "good"
  BY <1>4, <1>5, SpoilIs DEF SameServer
<1>6. CASE t.session # "good" /\ running
  BY <1>2, <1>4, <1>6, SpoilIs DEF Same, SameDocument, SameServer
<1>7. CASE t.session # "good" /\ ~running
  BY <1>3, <1>4, <1>7, SpoilIs DEF Same, SameDocument, SameServer
<1>. QED
  BY <1>5, <1>6, <1>7

\* The server commits a text or not, and leaves some code or none.
LEMMA EffectsAre ==
  ASSUME NEW t, StateOK(t), t.app = s.app, made \in 0 .. MaxCommits, NEW u \in Effects(t)
  PROVE  /\ StateOK(u) /\ Same(t, u) /\ SameDocument(t, u) /\ u.session = t.session
         /\ u.buffer = t.buffer
         /\ \/ u.unread = t.unread /\ NewTexts(t, u) = 0
            \/ /\ u.unread = Append(t.unread, made + 1) /\ NewTexts(t, u) = 1
               /\ made < MaxCommits
<1>1. PICK p \in Codes \cup {NoCode}, c \in NextCommits : u = Effect(t, p, c)
  BY DEF Effects
<1>2. t.unread \in Seq(1 .. t.app.commits)
  BY DEF StateOK
<1> DEFINE w == t.unread \o c
<1>3. /\ w \in Seq(1 .. t.app.commits)
      /\ \/ w = t.unread
         \/ w = Append(t.unread, made + 1) /\ made < MaxCommits
  <2>0. c = <<>> \/ (c = <<made + 1>> /\ made < MaxCommits)
    BY DEF NextCommits
  <2>1. CASE c = <<>>
    <3>1. w = t.unread
      BY <1>2, <2>1, ConcatEmptySeq
    <3>. QED
      BY <1>2, <3>1
  <2>2. CASE c = <<made + 1>> /\ made < MaxCommits
    <3>1. made + 1 \in 1 .. t.app.commits /\ t.app.commits = MaxCommits
      BY <2>2, TextServiceAssumption DEF MaxCommits, StateOK
    <3>2. w = Append(t.unread, made + 1)
      BY <1>2, <2>2, <3>1, AppendIsConcat
    <3>. QED
      BY <1>2, <2>2, <3>1, <3>2
  <2>. QED
    BY <2>0, <2>1, <2>2
<1>4. p \in t.app.codes \cup {NoCode} /\ u = [t EXCEPT !.pre = p, !.unread = w]
  BY <1>1 DEF Codes, Effect
<1>. HIDE DEF w
<1>5. /\ StateOK(u) /\ Same(t, u) /\ SameDocument(t, u) /\ u.session = t.session
      /\ u.buffer = t.buffer /\ u.unread = w
  BY <1>3, <1>4 DEF StateOK, Fields, Same, SameDocument
<1>6. Len(w) = Len(t.unread) \/ Len(w) = Len(t.unread) + 1
  BY <1>2, <1>3
<1>7. NewTexts(t, u) = Len(w) - Len(t.unread)
  BY <1>5 DEF NewTexts
<1>8. Len(t.unread) \in Nat /\ Len(Append(t.unread, made + 1)) = Len(t.unread) + 1
  BY <1>2
<1>. QED
  BY <1>3, <1>5, <1>7, <1>8

\* What a key finds that is to be handed over
Unread == IF s.session = "good" THEN s.unread ELSE <<>>

\* A key is not asked for while the keyboard is off; or it is posted, and the
\* buffer has the answer; or the buffer is spoilt.
LEMMA ProcessKeyEventIs ==
  ASSUME StateOK(s), made \in 0 .. MaxCommits, NEW answer \in ProcessKeyEvent
  PROVE  /\ answer.eaten \in BOOLEAN
         /\ StateOK(answer.s) /\ Same(s, answer.s) /\ SameDocument(s, answer.s)
         /\ \/ off /\ answer.s = s /\ ~answer.posted
            \/ /\ ~off /\ answer.posted
               /\ answer.s.session = "good" /\ answer.s.unread = <<>>
               /\ \/ answer.new = 0 /\ answer.s.buffer = Response(Unread, answer.s.pre)
                  \/ /\ answer.new = 1 /\ made < MaxCommits
                     /\ answer.s.buffer = Response(Append(Unread, made + 1), answer.s.pre)
            \/ /\ ~off /\ ~answer.posted
               /\ answer.s.buffer = Spoilt /\ answer.s.session \in {"good", "none"}
               /\ answer.s.session = "good" => "unknown" \in Environment /\ answer.s.unread = Unread
               /\ answer.s.session = "none" =>
                    s.session # "good" /\ answer.s.unread = s.unread /\ answer.s.pre = s.pre
<1> DEFINE t == Connected(s)
<1>1. /\ StateOK(t) /\ Same(s, t) /\ SameDocument(s, t) /\ t.buffer = Spoilt
      /\ t.session \in {"good", "none"}
      /\ t.session = "good" => t.unread = Unread
      /\ t.session = "none" => s.session # "good" /\ t.unread = s.unread /\ t.pre = s.pre
  BY ConnectedIs DEF Unread
<1>2. CASE off
  <2>1. answer = Kept(s)
    BY <1>2 DEF ProcessKeyEvent
  <2>. QED
    BY <1>2, <2>1 DEF Kept, Outcome, Same, SameDocument
<1>3. CASE ~off /\ answer = Kept(t) /\ (t.session # "good" \/ "unknown" \in Environment)
  <2>. HIDE DEF t
  <2>. QED
    BY <1>1, <1>3 DEF Kept, Outcome
<1>4. ASSUME ~off, t.session = "good", NEW u \in Effects(t), NEW eaten \in BOOLEAN,
             answer = Posted(t, u, eaten)
      PROVE  /\ answer.eaten \in BOOLEAN /\ answer.posted
             /\ StateOK(answer.s) /\ Same(s, answer.s) /\ SameDocument(s, answer.s)
             /\ answer.s.session = "good" /\ answer.s.unread = <<>>
             /\ \/ answer.new = 0 /\ answer.s.buffer = Response(Unread, answer.s.pre)
                \/ /\ answer.new = 1 /\ made < MaxCommits
                   /\ answer.s.buffer = Response(Append(Unread, made + 1), answer.s.pre)
  <2>. HIDE DEF t
  <2>3. t.app = s.app
    BY <1>1 DEF Same
  <2>4. /\ StateOK(u) /\ Same(t, u) /\ SameDocument(t, u) /\ u.session = t.session
        /\ \/ u.unread = t.unread /\ NewTexts(t, u) = 0
           \/ /\ u.unread = Append(t.unread, made + 1) /\ NewTexts(t, u) = 1
              /\ made < MaxCommits
    BY <1>1, <2>3, EffectsAre
  <2> DEFINE v == Respond(u)
  <2>5. /\ StateOK(v) /\ Same(u, v) /\ SameDocument(u, v)
        /\ v.session = u.session /\ v.unread = <<>>
        /\ v.buffer = Response(u.unread, u.pre) /\ v.pre = u.pre
    BY <2>4, RespondIs
  <2>6. answer.s = v /\ answer.eaten = eaten /\ answer.posted = TRUE /\ answer.new = NewTexts(t, u)
    BY <1>4 DEF Posted, Outcome
  <2>. HIDE DEF v
  <2>7. Same(s, v) /\ SameDocument(s, v)
    BY <1>1, <2>4, <2>5 DEF Same, SameDocument
  <2>. QED
    BY <1>1, <1>4, <2>4, <2>5, <2>6, <2>7
<1>5. CASE ~off
  <2>. HIDE DEF t
  <2>1. \/ answer = Kept(t) /\ (t.session # "good" \/ "unknown" \in Environment)
        \/ /\ t.session = "good"
           /\ \E u \in Effects(t), eaten \in BOOLEAN : answer = Posted(t, u, eaten)
    BY <1>5 DEF ProcessKeyEvent, t
  <2>. QED
    BY <1>3, <1>4, <1>5, <2>1
<1>. QED
  BY <1>2, <1>5

\* A key is processed, and the edit session is requested unless one waits.
KeyProcessed ==
  \E answer \in ProcessKeyEvent :
    /\ KeyStep(answer)
    /\ \/ UpdateComposition(answer.s)
       \/ async_edit /\ s' = answer.s /\ UNCHANGED <<queue, async_edit>>

\* Nothing happens but to the key event.
Unmoved == UNCHANGED <<s, queue, async_edit, off, focused, running, faults, history>>

LEMMA KeyboardIs ==
  ASSUME Keyboard
  PROVE  KeyProcessed \/ Unmoved
<1>1. CASE \E k \in {"down", "up"} : Key(k)
  BY <1>1 DEF Key, Unmoved
<1>2. CASE OnTestKeyDown
  BY <1>2 DEF OnTestKeyDown, NoKeyStep, KeyProcessed, Unmoved
<1>3. CASE OnKeyDown
  BY <1>3 DEF OnKeyDown, NoKeyStep, KeyProcessed, Unmoved
<1>4. CASE OnTestKeyUp
  BY <1>4 DEF OnTestKeyUp, NoKeyStep, KeyProcessed, Unmoved
<1>5. CASE OnKeyUp
  BY <1>5 DEF OnKeyUp, NoKeyStep, KeyProcessed, Unmoved
<1>. QED
  BY <1>1, <1>2, <1>3, <1>4, <1>5 DEF Keyboard

-----------------------------------------------------------------------------
(* Types.                                                                  *)

KeysOK ==
  /\ down \in BOOLEAN /\ up \in BOOLEAN /\ sent \in 0 .. 2
  /\ event \in [key : {"none", "down", "up"}, answer : {"none", "eaten", "left"}]
FlagsOK ==
  /\ off \in BOOLEAN /\ focused \in BOOLEAN /\ behind \in BOOLEAN /\ running \in BOOLEAN
  /\ async_edit \in BOOLEAN
CountsOK ==
  made \in 0 .. MaxCommits /\ due \in Seq(1 .. MaxCommits) /\ faults \in 0 .. MaxFaults

LEMMA TypeParts ==
  TypeOK <=> StateOK(s) /\ queue \in Seq(Sessions) /\ KeysOK /\ FlagsOK /\ CountsOK
BY DEF TypeOK, KeysOK, FlagsOK, CountsOK

LEMMA Bounds ==
  ASSUME StateOK(s)
  PROVE  MaxCommits \in Nat /\ MaxFaults \in Nat /\ MaxWaiting \in Nat
BY TextServiceAssumption DEF StateOK, MaxCommits, MaxFaults, MaxWaiting

LEMMA InitTypes == Init => TypeOK
<1>. SUFFICES ASSUME Init PROVE TypeOK
  OBVIOUS
<1>1. /\ DOMAIN s = Fields /\ s.app \in Applications
      /\ s.inline \in BOOLEAN /\ s.pre = NoCode /\ s.unread = <<>> /\ s.session = "good"
      /\ s.buffer = Spoilt /\ s.composing = FALSE /\ s.pComposition = None
      /\ s.live = <<>> /\ s.text = <<>> /\ s.been_off = FALSE /\ s.crowded = FALSE
  BY DEF Init, Fields
<1>2. DOMAIN <<>> = {} /\ <<>> \in Seq(1 .. s.app.commits)
  OBVIOUS
<1>3. StateOK(s)
  BY <1>1, <1>2, FS_EmptySet DEF StateOK
<1>4. queue \in Seq(Sessions)
  BY DEF Init
<1>5. MaxCommits \in Nat /\ MaxFaults \in Nat
  BY <1>3, Bounds
<1>6. KeysOK /\ FlagsOK
  <2>1. down = FALSE /\ up = FALSE /\ event = NoEvent /\ sent = 0
    BY DEF Init
  <2>2. off = FALSE /\ focused = TRUE /\ running = TRUE /\ behind = FALSE /\ async_edit = FALSE
    BY DEF Init
  <2>3. NoEvent \in [key : {"none", "down", "up"}, answer : {"none", "eaten", "left"}]
    BY DEF NoEvent
  <2>4. KeysOK
    <3>1. down \in BOOLEAN /\ up \in BOOLEAN
      BY <2>1
    <3>2. sent \in 0 .. 2
      BY <2>1
    <3>. QED
      BY <2>1, <2>3, <3>1, <3>2 DEF KeysOK
  <2>5. FlagsOK
    BY <2>2 DEF FlagsOK
  <2>. QED
    BY <2>4, <2>5
<1>7. CountsOK
  BY <1>5 DEF Init, CountsOK
<1>. QED
  BY <1>3, <1>4, <1>6, <1>7, TypeParts

\* The handlers of keys count sent up to 2.
LEMMA KeysKept ==
  ASSUME KeysOK, made \in 0 .. MaxCommits, StateOK(s), Keyboard
  PROVE  KeysOK'
<1>0. ASSUME NEW answer \in ProcessKeyEvent, KeyStep(answer)
      PROVE  answer.eaten \in BOOLEAN /\ sent' \in 0 .. 2
  <2>1. answer.eaten \in BOOLEAN
    BY ProcessKeyEventIs
  <2>2. sent' \in {sent, 1, 2}
    BY <1>0 DEF KeyStep
  <2>. QED
    BY <2>1, <2>2 DEF KeysOK
<1>1. CASE \E k \in {"down", "up"} : Key(k)
  BY <1>1 DEF Key, KeysOK, Event
<1>2. CASE OnTestKeyDown
  <2>1. CASE down
    BY <1>2, <2>1 DEF OnTestKeyDown, NoKeyStep, KeysOK
  <2>2. CASE ~down
    <3>1. PICK answer \in ProcessKeyEvent :
            KeyStep(answer) /\ down' = answer.eaten /\ Tested("down", answer.eaten)
      BY <1>2, <2>2 DEF OnTestKeyDown
    <3>. QED
      BY <1>0, <1>2, <3>1 DEF OnTestKeyDown, Tested, Event, NoEvent, KeysOK
  <2>. QED
    BY <2>1, <2>2
<1>3. CASE OnKeyDown
  <2>1. sent' \in 0 .. 2
    BY <1>0, <1>3 DEF OnKeyDown, NoKeyStep, KeysOK
  <2>. QED
    BY <1>3, <2>1 DEF OnKeyDown, NoEvent, KeysOK
<1>4. CASE OnTestKeyUp
  <2>1. CASE up
    BY <1>4, <2>1 DEF OnTestKeyUp, NoKeyStep, KeysOK
  <2>2. CASE ~up
    <3>1. PICK answer \in ProcessKeyEvent :
            KeyStep(answer) /\ up' = answer.eaten /\ Tested("up", answer.eaten)
      BY <1>4, <2>2 DEF OnTestKeyUp
    <3>. QED
      BY <1>0, <1>4, <3>1 DEF OnTestKeyUp, Tested, Event, NoEvent, KeysOK
  <2>. QED
    BY <2>1, <2>2
<1>5. CASE OnKeyUp
  <2>1. sent' \in 0 .. 2
    BY <1>0, <1>5 DEF OnKeyUp, NoKeyStep, KeysOK
  <2>. QED
    BY <1>5, <2>1 DEF OnKeyUp, NoEvent, KeysOK
<1>. QED
  BY <1>1, <1>2, <1>3, <1>4, <1>5 DEF Keyboard

\* The texts the server has handed over are some of those it committed.
LEMMA HandedType ==
  ASSUME StateOK(s), due \in Seq(1 .. MaxCommits)
  PROVE  Handed(s) \in Seq(1 .. MaxCommits)
<1> DEFINE n == Len(due) - Len(s.unread)
<1>1. n \in Int /\ n <= Len(due) /\ Len(due) \in Nat
  BY DEF StateOK
<1>2. Handed(s) = SubSeq(due, 1, n)
  BY DEF Handed
<1>. HIDE DEF n
<1>3. CASE n >= 0
  <2>1. \A i \in 1 .. n : due[i] \in 1 .. MaxCommits
    <3>. TAKE i \in 1 .. n
    <3>1. i \in 1 .. Len(due)
      BY <1>1
    <3>. QED
      BY <3>1, ElementOfSeq
  <2>. QED
    BY <1>1, <1>2, <2>1, SubSeqProperties
<1>4. CASE n < 0
  BY <1>1, <1>2, <1>4, SubSeqEmpty
<1>. QED
  BY <1>1, <1>3, <1>4

\* A text that is committed is counted and awaited.
LEMMA CommitsType ==
  ASSUME StateOK(s), CountsOK, NEW new \in {0, 1}, new = 1 => made < MaxCommits, Commits(new)
  PROVE  /\ made' \in 0 .. MaxCommits /\ due' \in Seq(1 .. MaxCommits)
         /\ new = 0 => made' = made /\ due' = due
         /\ new = 1 => made' = made + 1 /\ due' = Append(due, made + 1)
<1>1. made \in 0 .. MaxCommits /\ due \in Seq(1 .. MaxCommits) /\ made + new \in Int
  BY DEF CountsOK
<1>2. made' = made + new /\ due' = (IF new = 0 THEN due ELSE Append(due, made + 1))
  BY DEF Commits
<1>3. CASE new = 0
  BY <1>1, <1>2, <1>3
<1>4. CASE new = 1
  <2>1. made + 1 \in 1 .. MaxCommits
    BY <1>1, <1>4, Bounds
  <2>2. Append(due, made + 1) \in Seq(1 .. MaxCommits)
    BY <1>1, <2>1
  <2>. QED
    BY <1>1, <1>2, <1>4, <2>1, <2>2
<1>. QED
  BY <1>3, <1>4

LEMMA CountsKept ==
  ASSUME s'.app = s.app, made' \in 0 .. MaxCommits, due' \in Seq(1 .. MaxCommits),
         faults' \in 0 .. MaxFaults
  PROVE  CountsOK'
BY DEF CountsOK, MaxCommits, MaxFaults

\* A state with another flag, or without a server
LEMMA BeenOffIs ==
  ASSUME NEW t, StateOK(t)
  PROVE  LET u == [t EXCEPT !.been_off = TRUE] IN
         /\ StateOK(u) /\ u.app = t.app /\ u.inline = t.inline /\ u.crowded = t.crowded
         /\ u.been_off = TRUE /\ SameDocument(t, u) /\ SameServer(t, u)
         /\ u.buffer = t.buffer /\ u.pre = t.pre
BY DEF StateOK, Fields, SameDocument, SameServer

LEMMA LostServerIs ==
  ASSUME NEW t, StateOK(t)
  PROVE  LET u == [t EXCEPT !.session = IF @ = "good" THEN "stale" ELSE @,
                            !.pre = NoCode, !.unread = <<>>] IN
         /\ StateOK(u) /\ Same(t, u) /\ SameDocument(t, u) /\ u.buffer = t.buffer
         /\ u.session # "good" /\ u.pre = NoCode /\ u.unread = <<>>
         /\ u.session \in {t.session, "stale"}
<1>1. <<>> \in Seq(1 .. t.app.commits)
  OBVIOUS
<1> DEFINE x == IF t.session = "good" THEN "stale" ELSE t.session
<1>2. /\ x \in {"good", "stale", "none"} /\ x # "good"
      /\ x \in {t.session, "stale"}
  BY DEF StateOK
<1>. HIDE DEF x
<1> DEFINE u == [t EXCEPT !.session = x, !.pre = NoCode, !.unread = <<>>]
<1>3. /\ StateOK(u) /\ Same(t, u) /\ SameDocument(t, u) /\ u.buffer = t.buffer
      /\ u.session = x /\ u.pre = NoCode /\ u.unread = <<>>
  BY <1>1, <1>2 DEF StateOK, Fields, Same, SameDocument
<1>4. u = [t EXCEPT !.session = IF @ = "good" THEN "stale" ELSE @,
                    !.pre = NoCode, !.unread = <<>>]
  BY DEF x
<1>. HIDE DEF u
<1>. QED
  BY <1>2, <1>3, <1>4

\* The focus comes back: the answer is read for the state of the code.
LEMMA FocusedIs ==
  ASSUME StateOK(s), OnSetThreadFocus
  PROVE  /\ StateOK(s') /\ Same(s, s') /\ SameDocument(s, s')
         /\ s'.session = s.session /\ s'.pre = s.pre
         /\ IF s.session = "good"
            THEN s'.buffer = Response(s.unread, s.pre) /\ s'.unread = <<>>
            ELSE s'.unread = s.unread /\ s'.buffer \in {s.buffer, Spoilt}
<1>1. CASE s.session = "good"
  <2> DEFINE u == Respond(s)
             b == s.pre # NoCode
  <2>1. /\ StateOK(u) /\ Same(s, u) /\ SameDocument(s, u)
        /\ u.session = s.session /\ u.unread = <<>>
        /\ u.buffer = Response(s.unread, s.pre) /\ u.pre = s.pre
    BY RespondIs
  <2>2. s' = [u EXCEPT !.composing = b] /\ b \in BOOLEAN
    BY <1>1 DEF OnSetThreadFocus
  <2>. HIDE DEF u, b
  <2>3. /\ StateOK(s') /\ Same(u, s') /\ SameDocument(u, s')
        /\ s'.session = u.session /\ s'.unread = u.unread
        /\ s'.buffer = u.buffer /\ s'.pre = u.pre
    BY <2>1, <2>2 DEF StateOK, Fields, Same, SameDocument
  <2>. QED
    BY <1>1, <2>1, <2>3 DEF Same, SameDocument
<1>2. CASE s.session # "good"
  <2>1. s' = Spoil(s) \/ s' = s
    BY <1>2 DEF OnSetThreadFocus
  <2>. QED
    BY <1>2, <2>1, SpoilIs DEF Same, SameDocument, SameServer
<1>. QED
  BY <1>1, <1>2

\* What a call of the mouse finds: the answer to it, or nothing.
Touched == IF s.session = "good" THEN Respond(s) ELSE IF Active(s) THEN Spoil(s) ELSE s

LEMMA TouchedIs ==
  ASSUME StateOK(s)
  PROVE  /\ StateOK(Touched) /\ Same(s, Touched) /\ SameDocument(s, Touched)
         /\ Touched.session = s.session /\ Touched.pre = s.pre
         /\ \/ /\ s.session = "good"
               /\ Touched.buffer = Response(s.unread, s.pre) /\ Touched.unread = <<>>
            \/ /\ s.session # "good" /\ Touched.unread = s.unread
               /\ Touched.buffer = (IF s.session = "none" THEN s.buffer ELSE Spoilt)
<1>1. CASE s.session = "good"
  BY <1>1, RespondIs DEF Touched
<1>2. CASE s.session # "good" /\ s.session # "none"
  BY <1>2, SpoilIs DEF Touched, Active, SameServer
<1>3. CASE s.session = "none"
  BY <1>3 DEF Touched, Active, Same, SameDocument
<1>. QED
  BY <1>1, <1>2, <1>3

-----------------------------------------------------------------------------
(* Steps.  Every step is of one of these kinds; each says what becomes of  *)
(* the server's session, of the answer in the buffer and of the document.  *)

SameHistory == UNCHANGED <<made, due>>

\* t is s with other contents of the pipe.
From(t) == StateOK(t) /\ Same(s, t) /\ SameDocument(s, t)

\* The edit session is requested, or one that waits will read the answer too.
Updates(t) ==
  UpdateComposition(t) \/ (s' = t /\ UNCHANGED <<queue, async_edit>> /\ async_edit)

\* The server has answered a key, which committed a text or not, or the mouse.
Answered(t) ==
  /\ From(t) /\ Updates(t) /\ ~off /\ ~behind' /\ UNCHANGED off
  /\ t.session = "good" /\ t.unread = <<>>
  /\ \/ SameHistory /\ t.buffer = Response(Unread, t.pre)
     \/ /\ made < MaxCommits /\ made' = made + 1 /\ due' = Append(due, made + 1)
        /\ t.buffer = Response(Append(Unread, made + 1), t.pre)

\* There is no answer, because the keyboard is off, the key is not known or
\* the server is away.
Unanswered(t) ==
  /\ From(t) /\ Updates(t) /\ SameHistory /\ behind' = behind /\ UNCHANGED off
  /\ \/ off /\ t = s
     \/ /\ ~off /\ t.session = "good" /\ "unknown" \in Environment
        /\ t.buffer = Spoilt /\ t.unread = Unread
     \/ /\ ~off /\ s.session # "good" /\ t.session # "good"
        /\ t.buffer = Spoilt \/ (s.session = "none" /\ t.buffer = s.buffer)
        /\ t.unread = s.unread /\ t.pre = s.pre

\* A click commits a text or not.
Clicked ==
  /\ StateOK(s') /\ Same(s, s') /\ SameDocument(s, s') /\ UNCHANGED <<queue, async_edit, off>>
  /\ behind' /\ s.pre # NoCode /\ s'.session = s.session /\ s'.buffer = Spoilt
  /\ \/ SameHistory /\ s'.unread = s.unread
     \/ /\ made < MaxCommits /\ made' = made + 1 /\ due' = Append(due, made + 1)
        /\ s'.unread = Append(s.unread, made + 1)

\* The text that is not handed over is not awaited: the focus comes back, or
\* the server is lost.
Forgotten ==
  /\ StateOK(s') /\ Same(s, s') /\ SameDocument(s, s') /\ UNCHANGED <<queue, async_edit, off>>
  /\ made' = made /\ due' = Handed(s) /\ behind' = behind
  /\ \/ /\ s.session = "good" /\ s'.session = "good" /\ s'.pre = s.pre
        /\ s'.buffer = Response(s.unread, s.pre) /\ s'.unread = <<>>
     \/ /\ s'.session = s.session /\ s'.session # "good" /\ s'.pre = s.pre
        /\ s'.buffer \in {s.buffer, Spoilt} /\ s'.unread = s.unread
     \/ /\ s'.session \in {s.session, "stale"} /\ s'.session # "good" /\ s'.buffer = s.buffer
        /\ s'.pre = NoCode /\ s'.unread = <<>>

\* t is s with the composition's end in sight.
Ended(t) ==
  /\ StateOK(t) /\ t.app = s.app /\ t.inline = s.inline /\ t.crowded = s.crowded
  /\ SameServer(s, t) /\ t.pComposition = s.pComposition /\ t.text = s.text
  /\ DOMAIN t.live \subseteq DOMAIN s.live
  /\ t.buffer \in {s.buffer, Spoilt} /\ t.pre \in {s.pre, NoCode}
  /\ RequestEnd(t) /\ SameHistory /\ UNCHANGED async_edit
  /\ \/ /\ behind' = behind /\ off' = off /\ t.been_off = s.been_off
        /\ t.pComposition # None
        /\ t.session = "good" => t.pre = NoCode \/ t.pComposition \in DOMAIN t.live
     \/ behind' /\ off' /\ t.been_off = TRUE

\* Nothing happens to the document, unless the application ends a composition
\* of which the text service has forgotten.
Quieted ==
  /\ StateOK(s') /\ s'.app = s.app /\ s'.inline = s.inline /\ s'.crowded = s.crowded
  /\ SameServer(s, s') /\ s'.pComposition = s.pComposition /\ s'.text = s.text
  /\ s'.buffer \in {s.buffer, Spoilt} /\ s'.pre \in {s.pre, NoCode}
  /\ SameHistory /\ UNCHANGED <<queue, async_edit>>
  /\ s'.been_off \in {s.been_off, TRUE}
  /\ \/ /\ s'.live = s.live
        /\ \/ s'.pre = s.pre /\ behind' = behind /\ s'.been_off = s.been_off /\ off' \in {off, FALSE}
           \/ behind' /\ s'.been_off = s.been_off /\ off' = off
           \/ behind' /\ off' /\ s'.been_off = TRUE
     \/ /\ s.pComposition = None /\ DOMAIN s'.live \subseteq DOMAIN s.live
        /\ behind' = behind /\ off' = off /\ s'.been_off = s.been_off

\* The application asks for a session that wants the position of the code.
Moved ==
  /\ Request(s, Session("extent", None))
  /\ SameHistory /\ UNCHANGED <<async_edit, behind, off>>

Step ==
  \/ \E t : Answered(t)
  \/ \E t : Unanswered(t)
  \/ Clicked \/ Forgotten
  \/ \E t : Ended(t)
  \/ Quieted \/ Moved \/ Grant

LEMMA KeyIs ==
  ASSUME StateOK(s), made \in 0 .. MaxCommits, KeyProcessed
  PROVE  (\E t : Answered(t)) \/ (\E t : Unanswered(t))
<1>1. PICK answer \in ProcessKeyEvent :
        /\ KeyStep(answer)
        /\ \/ UpdateComposition(answer.s)
           \/ async_edit /\ s' = answer.s /\ UNCHANGED <<queue, async_edit>>
  BY DEF KeyProcessed
<1> DEFINE t == answer.s
<1>2. Updates(t) /\ UNCHANGED off
  BY <1>1 DEF Updates, KeyStep
<1>3. answer.posted => ~behind' /\ Commits(answer.new)
  BY <1>1 DEF KeyStep
<1>4. ~answer.posted => SameHistory /\ behind' = behind
  BY <1>1 DEF KeyStep, SameHistory, history
<1>5. /\ From(t)
      /\ \/ off /\ t = s /\ ~answer.posted
         \/ /\ ~off /\ answer.posted /\ t.session = "good" /\ t.unread = <<>>
            /\ \/ answer.new = 0 /\ t.buffer = Response(Unread, t.pre)
               \/ /\ answer.new = 1 /\ made < MaxCommits
                  /\ t.buffer = Response(Append(Unread, made + 1), t.pre)
         \/ /\ ~off /\ ~answer.posted /\ t.buffer = Spoilt /\ t.session \in {"good", "none"}
            /\ t.session = "good" => "unknown" \in Environment /\ t.unread = Unread
            /\ t.session = "none" => s.session # "good" /\ t.unread = s.unread /\ t.pre = s.pre
  BY ProcessKeyEventIs DEF From
<1>. HIDE DEF t
<1>6. CASE answer.posted /\ answer.new = 0
  <2>1. SameHistory
    BY <1>3, <1>6 DEF Commits, SameHistory
  <2>. QED
    BY <1>2, <1>3, <1>5, <1>6, <2>1 DEF Answered
<1>7. CASE answer.posted /\ answer.new = 1
  <2>1. made' = made + 1 /\ due' = Append(due, made + 1)
    BY <1>3, <1>7 DEF Commits
  <2>. QED
    BY <1>2, <1>3, <1>5, <1>7, <2>1 DEF Answered
<1>8. CASE ~answer.posted
  BY <1>2, <1>4, <1>5, <1>8 DEF Unanswered
<1>. QED
  BY <1>5, <1>6, <1>7, <1>8

LEMMA ClickIs ==
  ASSUME StateOK(s), made \in 0 .. MaxCommits, Click
  PROVE  Clicked
<1>1. PICK u \in Effects(s) : Commits(NewTexts(s, u)) /\ s' = Spoil(u)
  BY DEF Click
<1>2. /\ StateOK(u) /\ Same(s, u) /\ SameDocument(s, u) /\ u.session = s.session
      /\ \/ u.unread = s.unread /\ NewTexts(s, u) = 0
         \/ /\ u.unread = Append(s.unread, made + 1) /\ NewTexts(s, u) = 1
            /\ made < MaxCommits
  BY EffectsAre
<1>3. /\ StateOK(s') /\ Same(u, s') /\ SameDocument(u, s') /\ SameServer(u, s')
      /\ s'.buffer = Spoilt
  BY <1>1, <1>2, SpoilIs
<1>4. /\ Same(s, s') /\ SameDocument(s, s')
      /\ s'.session = s.session /\ s'.unread = u.unread
  BY <1>2, <1>3 DEF Same, SameDocument, SameServer
<1>5. /\ UNCHANGED <<queue, async_edit, off>> /\ behind' /\ s.pre # NoCode
  BY DEF Click, Undisturbed
<1>6. \/ SameHistory /\ s'.unread = s.unread
      \/ /\ made < MaxCommits /\ made' = made + 1 /\ due' = Append(due, made + 1)
         /\ s'.unread = Append(s.unread, made + 1)
  <2>. HIDE DEF Spoil
  <2>1. CASE u.unread = s.unread /\ NewTexts(s, u) = 0
    BY <1>1, <1>4, <2>1 DEF Commits, SameHistory
  <2>2. CASE /\ u.unread = Append(s.unread, made + 1) /\ NewTexts(s, u) = 1
             /\ made < MaxCommits
    BY <1>1, <1>4, <2>2 DEF Commits
  <2>. QED
    BY <1>2, <2>1, <2>2
<1>. QED
  BY <1>3, <1>4, <1>5, <1>6 DEF Clicked

LEMMA MouseIs ==
  ASSUME StateOK(s), behind \in BOOLEAN, Mouse
  PROVE  (\E t : Answered(t)) \/ (\E t : Unanswered(t))
<1>1. ~off /\ UpdateComposition(Touched) /\ SameHistory /\ UNCHANGED off
  BY DEF Mouse, Touched, SameHistory, Undisturbed
<1>2. behind' = (behind /\ s.session # "good")
  BY DEF Mouse
<1>3. /\ StateOK(Touched) /\ Same(s, Touched) /\ SameDocument(s, Touched)
      /\ Touched.session = s.session /\ Touched.pre = s.pre
      /\ \/ /\ s.session = "good"
            /\ Touched.buffer = Response(s.unread, s.pre) /\ Touched.unread = <<>>
         \/ /\ s.session # "good" /\ Touched.unread = s.unread
            /\ Touched.buffer = (IF s.session = "none" THEN s.buffer ELSE Spoilt)
  BY TouchedIs
<1>4. CASE s.session = "good"
  <2>1. ~behind'
    BY <1>2, <1>4
  <2>. QED
    BY <1>1, <1>3, <1>4, <2>1 DEF Answered, From, Updates, Unread
<1>5. CASE s.session # "good"
  <2>1. behind' = behind
    BY <1>2, <1>5
  <2>. QED
    BY <1>1, <1>3, <1>5, <2>1 DEF Unanswered, From, Updates
<1>. QED
  BY <1>4, <1>5

LEMMA ForgottenIs ==
  ASSUME StateOK(s), OnSetThreadFocus \/ LoseServer
  PROVE  Forgotten
<1>1. CASE OnSetThreadFocus
  <2>1. /\ StateOK(s') /\ Same(s, s') /\ SameDocument(s, s')
        /\ s'.session = s.session /\ s'.pre = s.pre
        /\ IF s.session = "good"
           THEN s'.buffer = Response(s.unread, s.pre) /\ s'.unread = <<>>
           ELSE s'.unread = s.unread /\ s'.buffer \in {s.buffer, Spoilt}
    BY <1>1, FocusedIs
  <2>2. /\ UNCHANGED <<queue, async_edit, off>>
        /\ made' = made /\ due' = Handed(s) /\ behind' = behind
    BY <1>1 DEF OnSetThreadFocus
  <2>. QED
    BY <2>1, <2>2 DEF Forgotten
<1>2. CASE LoseServer
  <2> DEFINE u == [s EXCEPT !.session = IF @ = "good" THEN "stale" ELSE @,
                            !.pre = NoCode, !.unread = <<>>]
  <2>1. /\ StateOK(u) /\ Same(s, u) /\ SameDocument(s, u) /\ u.buffer = s.buffer
        /\ u.session # "good" /\ u.pre = NoCode /\ u.unread = <<>>
        /\ u.session \in {s.session, "stale"}
    BY LostServerIs
  <2>2. /\ s' = u /\ UNCHANGED <<queue, async_edit, off>>
        /\ made' = made /\ due' = Handed(s) /\ behind' = behind
    BY <1>2 DEF LoseServer
  <2>. HIDE DEF u
  <2>. QED
    BY <2>1, <2>2 DEF Forgotten
<1>. QED
  BY <1>1, <1>2

\* What an abort is asked to end, and what it finds
LEMMA AbortedIs ==
  ASSUME StateOK(s), NEW t, StateOK(t), Same(s, t), SameServer(s, t),
         t.pComposition = s.pComposition, t.text = s.text,
         DOMAIN t.live \subseteq DOMAIN s.live, t.buffer \in {s.buffer, Spoilt},
         t.pre = s.pre, Abort(t), SameHistory, UNCHANGED <<async_edit, behind, off>>
  PROVE  (\E u : Ended(u)) \/ Quieted
<1> DEFINE u == ClearComposition(t)
<1>1. /\ StateOK(u) /\ Same(t, u) /\ SameDocument(t, u) /\ SameServer(t, u)
      /\ u.buffer \in {t.buffer, Spoilt} /\ u.pre \in {t.pre, NoCode}
      /\ t.session = "good" => u.pre = NoCode
  BY ClearCompositionIs
<1>2. \/ t.pComposition = None /\ s' = u /\ UNCHANGED queue
      \/ t.pComposition # None /\ RequestEnd(u)
  BY AbortIs
<1>. HIDE DEF u
<1>3. /\ u.app = s.app /\ u.inline = s.inline /\ u.crowded = s.crowded
      /\ u.been_off = s.been_off /\ SameServer(s, u)
      /\ u.pComposition = s.pComposition /\ u.text = s.text
      /\ DOMAIN u.live \subseteq DOMAIN s.live
      /\ u.buffer \in {s.buffer, Spoilt} /\ u.pre \in {s.pre, NoCode}
      /\ u.session = "good" => u.pre = NoCode
  BY <1>1 DEF Same, SameServer, SameDocument
<1>4. CASE t.pComposition = None /\ s' = u /\ UNCHANGED queue
  BY <1>1, <1>3, <1>4 DEF Quieted
<1>5. CASE t.pComposition # None /\ RequestEnd(u)
  BY <1>1, <1>3, <1>5 DEF Ended
<1>. QED
  BY <1>2, <1>4, <1>5

LEMMA FocusIs ==
  ASSUME StateOK(s), behind \in BOOLEAN,
         (\E f \in BOOLEAN : OnSetFocus(f)) \/ OnKillThreadFocus
  PROVE  (\E t : Ended(t)) \/ Quieted
<1> DEFINE t == Spoil(s)
<1>1. /\ StateOK(t) /\ Same(s, t) /\ SameDocument(s, t) /\ SameServer(s, t)
      /\ t.buffer = Spoilt /\ t.pre = s.pre
  BY SpoilIs
<1>. HIDE DEF t
<1>2. SameHistory /\ UNCHANGED <<async_edit, behind, off>>
  BY DEF OnSetFocus, OnKillThreadFocus, history, SameHistory
<1>3. CASE OnSetFocus(TRUE)
  <2>1. s' = t /\ UNCHANGED queue
    BY <1>3 DEF OnSetFocus, t
  <2>. QED
    BY <1>1, <1>2, <2>1 DEF Quieted, Same, SameDocument
<1>4. CASE OnSetFocus(FALSE)
  <2>1. Abort(t)
    BY <1>4 DEF OnSetFocus, t
  <2>. QED
    BY <1>1, <1>2, <2>1, AbortedIs DEF SameDocument
<1>5. CASE OnKillThreadFocus
  <2>1. Abort(s)
    BY <1>5 DEF OnKillThreadFocus
  <2>. QED
    BY <1>2, <2>1, AbortedIs DEF Same, SameServer
<1>. QED
  BY <1>3, <1>4, <1>5

LEMMA TerminatedIs ==
  ASSUME StateOK(s), NEW c, OnCompositionTerminated(c)
  PROVE  (\E t : Ended(t)) \/ Quieted
<1> DEFINE t == Drop(s, c)
<1>1. /\ StateOK(t) /\ Same(s, t) /\ SameServer(s, t)
      /\ DOMAIN t.live \subseteq DOMAIN s.live
      /\ t.pComposition = s.pComposition /\ t.text = s.text
      /\ t.pre = s.pre /\ t.buffer = s.buffer
  BY DropIs
<1>. HIDE DEF t
<1>2. Abort(t) /\ SameHistory /\ UNCHANGED <<async_edit, behind, off>>
  BY DEF OnCompositionTerminated, Undisturbed, history, SameHistory, t
<1>. QED
  BY <1>1, <1>2, AbortedIs

LEMMA EndEditIs ==
  ASSUME StateOK(s), OnEndEdit
  PROVE  Ended(s)
<1>1. RequestEnd(s) /\ SameHistory /\ UNCHANGED <<async_edit, behind, off>>
  BY DEF OnEndEdit, Undisturbed, history, SameHistory
<1>2. s.pComposition \in DOMAIN s.live /\ s.pComposition # None
  BY DEF OnEndEdit, StateOK, Compositions
<1>. QED
  BY <1>1, <1>2 DEF Ended, SameServer

LEMMA CloseIs ==
  ASSUME StateOK(s), CloseKeyboard
  PROVE  \E t : Ended(t)
<1> DEFINE u == [s EXCEPT !.been_off = TRUE]
           t == ClearComposition(u)
<1>1. /\ StateOK(u) /\ u.app = s.app /\ u.inline = s.inline /\ u.crowded = s.crowded
      /\ u.been_off = TRUE /\ SameDocument(s, u) /\ SameServer(s, u)
      /\ u.buffer = s.buffer /\ u.pre = s.pre
  BY BeenOffIs
<1>2. RequestEnd(t) /\ off' /\ behind' /\ SameHistory /\ UNCHANGED async_edit
  BY DEF CloseKeyboard, SameHistory
<1>. HIDE DEF u
<1>3. /\ StateOK(t) /\ Same(u, t) /\ SameDocument(u, t) /\ SameServer(u, t)
      /\ t.buffer \in {u.buffer, Spoilt} /\ t.pre \in {u.pre, NoCode}
  BY <1>1, ClearCompositionIs
<1>. HIDE DEF t
<1>4. Ended(t)
  BY <1>1, <1>2, <1>3 DEF Ended, Same, SameDocument, SameServer
<1>. QED
  BY <1>4

LEMMA DisableIs ==
  ASSUME StateOK(s), DisableKeyboard
  PROVE  Quieted
<1> DEFINE u == [s EXCEPT !.been_off = TRUE]
<1>1. /\ StateOK(u) /\ u.app = s.app /\ u.inline = s.inline /\ u.crowded = s.crowded
      /\ u.been_off = TRUE /\ SameDocument(s, u) /\ SameServer(s, u)
      /\ u.buffer = s.buffer /\ u.pre = s.pre
  BY BeenOffIs
<1>2. s' = u /\ off' /\ behind' /\ SameHistory /\ UNCHANGED <<queue, async_edit>>
  BY DEF DisableKeyboard, SameHistory
<1>. HIDE DEF u
<1>. QED
  BY <1>1, <1>2 DEF Quieted, SameDocument

LEMMA ToggleIs ==
  ASSUME StateOK(s), ToggleAscii
  PROVE  Quieted
<1> DEFINE u == Spoil(s)
           t == ClearComposition(u)
<1>1. /\ StateOK(u) /\ Same(s, u) /\ SameDocument(s, u) /\ SameServer(s, u)
      /\ u.buffer = Spoilt /\ u.pre = s.pre
  BY SpoilIs
<1>2. s' = t /\ behind' /\ SameHistory /\ UNCHANGED <<queue, async_edit, off>>
  BY DEF ToggleAscii, SameHistory
<1>. HIDE DEF u
<1>3. /\ StateOK(t) /\ Same(u, t) /\ SameDocument(u, t) /\ SameServer(u, t)
      /\ t.buffer \in {u.buffer, Spoilt} /\ t.pre \in {u.pre, NoCode}
  BY <1>1, ClearCompositionIs
<1>. HIDE DEF t
<1>. QED
  BY <1>1, <1>2, <1>3 DEF Quieted, Same, SameDocument, SameServer

LEMMA ConversionIs ==
  ASSUME StateOK(s), ChangeConversion
  PROVE  Quieted
<1>1. s' = Parsed(s) /\ UNCHANGED <<queue, async_edit, off, history>>
  BY DEF ChangeConversion
<1>. QED
  BY <1>1, ParsedIs DEF Quieted, Same, SameDocument, SameServer, SameHistory, history

LEMMA UnchangedIs ==
  ASSUME StateOK(s), off \in BOOLEAN, UNCHANGED <<s, queue, async_edit, history>>,
         off' \in {off, FALSE}
  PROVE  Quieted
BY DEF Quieted, SameServer, SameHistory, history

\* Every step is of one of these kinds.
LEMMA StepIs ==
  ASSUME TypeOK, Next
  PROVE  Step
<1>1. /\ StateOK(s) /\ made \in 0 .. MaxCommits
      /\ behind \in BOOLEAN /\ off \in BOOLEAN
  BY TypeParts DEF CountsOK, FlagsOK
<1>2. CASE Keyboard
  <2>1. CASE KeyProcessed
    BY <1>1, <2>1, KeyIs DEF Step
  <2>2. CASE Unmoved
    BY <1>1, <2>2, UnchangedIs DEF Unmoved, Step
  <2>. QED
    BY <1>2, <2>1, <2>2, KeyboardIs
<1>3. CASE Application
  <2>1. CASE Grant
    BY <2>1 DEF Step
  <2>2. CASE OnEndEdit
    BY <1>1, <2>2, EndEditIs DEF Step
  <2>3. CASE OnLayoutChange
    BY <2>3 DEF OnLayoutChange, Undisturbed, history, SameHistory, Moved, Step
  <2>4. CASE \E c \in DOMAIN s.live : OnCompositionTerminated(c)
    BY <1>1, <2>4, TerminatedIs DEF Step
  <2>5. CASE (\E f \in BOOLEAN : OnSetFocus(f)) \/ OnKillThreadFocus
    BY <1>1, <2>5, FocusIs DEF Step
  <2>6. CASE OnSetThreadFocus
    BY <1>1, <2>6, ForgottenIs DEF Step
  <2>. QED
    BY <1>3, <2>1, <2>2, <2>3, <2>4, <2>5, <2>6 DEF Application
<1>4. CASE User
  <2>1. CASE Click
    BY <1>1, <2>1, ClickIs DEF Step
  <2>2. CASE Mouse
    BY <1>1, <2>2, MouseIs DEF Step
  <2>3. CASE CloseKeyboard
    BY <1>1, <2>3, CloseIs DEF Step
  <2>4. CASE DisableKeyboard
    BY <1>1, <2>4, DisableIs DEF Step
  <2>5. CASE OpenKeyboard
    BY <1>1, <2>5, UnchangedIs DEF OpenKeyboard, Step
  <2>6. CASE ToggleAscii
    BY <1>1, <2>6, ToggleIs DEF Step
  <2>7. CASE ChangeConversion
    BY <1>1, <2>7, ConversionIs DEF Step
  <2>. QED
    BY <1>4, <2>1, <2>2, <2>3, <2>4, <2>5, <2>6, <2>7 DEF User
<1>5. CASE LoseServer
  BY <1>1, <1>5, ForgottenIs DEF Step
<1>6. CASE StartServer
  BY <1>1, <1>6, UnchangedIs DEF StartServer, Step
<1>. QED
  BY <1>2, <1>3, <1>4, <1>5, <1>6 DEF Next

-----------------------------------------------------------------------------
(* Type correctness.                                                       *)

LEMMA UpdatesIs ==
  ASSUME NEW t, StateOK(t), queue \in Seq(Sessions), async_edit \in BOOLEAN, Updates(t)
  PROVE  /\ StateOK(s') /\ Alike(t, s') /\ SameServer(t, s')
         /\ s'.buffer \in {t.buffer, Spoilt} /\ s'.pre \in {t.pre, NoCode}
         /\ s'.text \in {t.text, t.text \o t.buffer.commit}
         /\ \/ /\ queue = <<>> /\ queue' = queue /\ ~async_edit'
               /\ s'.crowded = t.crowded
               /\ Single(t) => Single(s') /\ s'.text = t.text \o t.buffer.commit
               /\ /\ Single(t) /\ t.session = "good"
                  /\ t.buffer # Spoilt /\ t.buffer.pre = t.pre
                  => Shown(s')
            \/ /\ queue' = queue \o <<Session("update", None), Session("extent", None)>>
               /\ SameDocument(t, s') /\ s'.buffer = t.buffer
               /\ s'.crowded <=> t.crowded \/ Waits("update")
               /\ "defer" \in Environment
            \/ s' = t /\ queue' = queue /\ async_edit
         /\ queue' \in Seq(Sessions) /\ async_edit' \in BOOLEAN
<1>1. CASE UpdateComposition(t)
  BY <1>1, UpdateCompositionIs
<1>2. CASE s' = t /\ UNCHANGED <<queue, async_edit>> /\ async_edit
  BY <1>2 DEF Alike, SameServer
<1>. QED
  BY <1>1, <1>2 DEF Updates

\* What a step makes of the record, of the sessions that wait and of the texts
LEMMA StepTypes ==
  ASSUME TypeOK, Step
  PROVE  /\ StateOK(s') /\ s'.app = s.app
         /\ queue' \in Seq(Sessions) /\ async_edit' \in BOOLEAN
         /\ made' \in 0 .. MaxCommits /\ due' \in Seq(1 .. MaxCommits)
<1>1. /\ StateOK(s) /\ queue \in Seq(Sessions) /\ async_edit \in BOOLEAN
      /\ made \in 0 .. MaxCommits /\ due \in Seq(1 .. MaxCommits)
      /\ MaxCommits \in Nat
  BY TypeParts, Bounds DEF CountsOK, FlagsOK
<1>2. SameHistory => made' \in 0 .. MaxCommits /\ due' \in Seq(1 .. MaxCommits)
  BY <1>1 DEF SameHistory
<1>3. ASSUME made < MaxCommits, made' = made + 1, due' = Append(due, made + 1)
      PROVE  made' \in 0 .. MaxCommits /\ due' \in Seq(1 .. MaxCommits)
  <2>1. made + 1 \in 1 .. MaxCommits
    BY <1>1, <1>3
  <2>. QED
    BY <1>1, <1>3, <2>1
<1>4. ASSUME NEW t, Answered(t) \/ Unanswered(t)
      PROVE  /\ StateOK(s') /\ s'.app = s.app
             /\ queue' \in Seq(Sessions) /\ async_edit' \in BOOLEAN
  <2>1. StateOK(t) /\ t.app = s.app /\ Updates(t)
    BY <1>4 DEF Answered, Unanswered, From, Same
  <2>. QED
    BY <1>1, <2>1, UpdatesIs DEF Alike
<1>5. CASE \E t : Answered(t) \/ Unanswered(t)
  <2>1. SameHistory \/ (made < MaxCommits /\ made' = made + 1 /\ due' = Append(due, made + 1))
    BY <1>5 DEF Answered, Unanswered
  <2>. QED
    BY <1>2, <1>3, <1>4, <1>5, <2>1
<1>6. CASE Clicked
  <2>1. SameHistory \/ (made < MaxCommits /\ made' = made + 1 /\ due' = Append(due, made + 1))
    BY <1>6 DEF Clicked
  <2>2. StateOK(s') /\ s'.app = s.app /\ queue' = queue /\ async_edit' = async_edit
    BY <1>6 DEF Clicked, Same
  <2>. QED
    BY <1>1, <1>2, <1>3, <2>1, <2>2
<1>7. CASE Forgotten
  <2>1. due' = Handed(s) /\ Handed(s) \in Seq(1 .. MaxCommits)
    BY <1>1, <1>7, HandedType DEF Forgotten
  <2>. QED
    BY <1>1, <1>7, <2>1 DEF Forgotten, Same
<1>8. ASSUME NEW t, Ended(t)
      PROVE  /\ StateOK(s') /\ s'.app = s.app /\ SameHistory
             /\ queue' \in Seq(Sessions) /\ async_edit' \in BOOLEAN
  <2>1. StateOK(t) /\ t.app = s.app /\ RequestEnd(t) /\ async_edit' = async_edit /\ SameHistory
    BY <1>8 DEF Ended
  <2>2. StateOK(s') /\ s'.app = t.app /\ queue' \in Seq(Sessions)
    BY <1>1, <2>1, RequestEndIs DEF Alike
  <2>. QED
    BY <1>1, <2>1, <2>2
<1>9. CASE Quieted
  BY <1>1, <1>2, <1>9 DEF Quieted
<1>10. CASE Moved
  <2>1. Request(s, Session("extent", None)) /\ SameHistory /\ async_edit' = async_edit
    BY <1>10 DEF Moved
  <2>2. StateOK(s') /\ s'.app = s.app /\ queue' \in Seq(Sessions)
    BY <1>1, <2>1, LayoutIs DEF Alike
  <2>. QED
    BY <1>1, <1>2, <2>1, <2>2
<1>11. CASE Grant
  <2>1. StateOK(s') /\ s'.app = s.app /\ queue' \in Seq(Sessions)
    BY <1>1, <1>11, GrantIs DEF Same
  <2>2. SameHistory /\ async_edit' = async_edit
    BY <1>11 DEF Grant, history, SameHistory
  <2>. QED
    BY <1>1, <1>2, <2>1, <2>2
<1>. QED
  BY <1>2, <1>5, <1>6, <1>7, <1>8, <1>9, <1>10, <1>11 DEF Step

\* What it makes of the rest
LEMMA FlagsKept ==
  ASSUME FlagsOK, KeysOK, StateOK(s), CountsOK, Next
  PROVE  /\ off' \in BOOLEAN /\ focused' \in BOOLEAN /\ behind' \in BOOLEAN
         /\ running' \in BOOLEAN /\ faults' \in 0 .. MaxFaults /\ KeysOK'
<1>. /\ off \in BOOLEAN /\ focused \in BOOLEAN /\ behind \in BOOLEAN
     /\ running \in BOOLEAN
  BY DEF FlagsOK
<1>. faults \in 0 .. MaxFaults /\ MaxFaults \in Nat
  BY Bounds DEF CountsOK
<1>1. CASE Keyboard
  <2>1. UNCHANGED <<off, focused, running, faults>> /\ (behind' = FALSE \/ behind' = behind)
    <3>1. CASE KeyProcessed
      BY <3>1 DEF KeyProcessed, KeyStep, history
    <3>2. CASE Unmoved
      BY <3>2 DEF Unmoved, history
    <3>. QED
      BY <1>1, <3>1, <3>2, KeyboardIs
  <2>2. KeysOK'
    BY <1>1, KeysKept DEF CountsOK
  <2>. QED
    BY <2>1, <2>2
<1>2. UNCHANGED keys => KeysOK'
  BY DEF keys, KeysOK
<1>3. CASE Application
  <2>1. UNCHANGED <<keys, off, running, faults, behind>> /\ focused' \in {focused, TRUE, FALSE}
    BY <1>3 DEF Application, Grant, OnEndEdit, OnLayoutChange, OnCompositionTerminated,
                OnSetFocus, OnKillThreadFocus, OnSetThreadFocus, Quiet, Undisturbed, history
  <2>. QED
    BY <1>2, <2>1
<1>4. CASE User
  <2>1. UNCHANGED <<keys, focused, running, faults>> /\ off' \in {off, TRUE, FALSE}
    BY <1>4 DEF User, Click, Mouse, CloseKeyboard, DisableKeyboard, OpenKeyboard,
                ToggleAscii, ChangeConversion, Quiet, Undisturbed
  <2>2. behind' \in BOOLEAN
    BY <1>4 DEF User, Click, Mouse, CloseKeyboard, DisableKeyboard, OpenKeyboard,
                ToggleAscii, ChangeConversion, history
  <2>. QED
    BY <1>2, <2>1, <2>2
<1>5. CASE LoseServer
  <2>1. faults' = faults + 1 /\ faults < MaxFaults
    BY <1>5 DEF LoseServer
  <2>2. running' \in BOOLEAN /\ UNCHANGED <<keys, off, focused, behind>>
    BY <1>5 DEF LoseServer
  <2>. QED
    BY <1>2, <2>1, <2>2
<1>6. CASE StartServer
  <2>1. running' = TRUE /\ UNCHANGED <<keys, off, focused, behind, faults>>
    BY <1>6 DEF StartServer, history
  <2>. QED
    BY <1>2, <2>1
<1>. QED
  BY <1>1, <1>3, <1>4, <1>5, <1>6 DEF Next

LEMMA TypeStep ==
  ASSUME TypeOK, [Next]_vars
  PROVE  TypeOK'
<1>1. CASE Next
  <2>1. StateOK(s) /\ KeysOK /\ FlagsOK /\ CountsOK
    BY TypeParts
  <2>2. Step
    BY <1>1, StepIs
  <2>3. /\ StateOK(s') /\ s'.app = s.app
        /\ queue' \in Seq(Sessions) /\ async_edit' \in BOOLEAN
        /\ made' \in 0 .. MaxCommits /\ due' \in Seq(1 .. MaxCommits)
    BY <2>2, StepTypes
  <2>4. /\ off' \in BOOLEAN /\ focused' \in BOOLEAN /\ behind' \in BOOLEAN
        /\ running' \in BOOLEAN /\ faults' \in 0 .. MaxFaults /\ KeysOK'
    BY <1>1, <2>1, FlagsKept
  <2>5. CountsOK'
    BY <2>3, <2>4, CountsKept
  <2>6. FlagsOK'
    BY <2>3, <2>4 DEF FlagsOK
  <2>7. TypeOK' <=> (StateOK(s))' /\ (queue \in Seq(Sessions))' /\ KeysOK' /\ FlagsOK' /\ CountsOK'
    BY DEF TypeOK, KeysOK, FlagsOK, CountsOK
  <2>. QED
    BY <2>3, <2>4, <2>5, <2>6, <2>7
<1>2. CASE UNCHANGED vars
  BY <1>2 DEF vars, keys, history, TypeOK, StateOK, MaxCommits, MaxFaults
<1>. QED
  BY <1>1, <1>2

\* Every state has the types: in particular the record s, which calls hand on
\* to one another, is a state of the text service whenever a call ends; the
\* server never commits more texts than there are, and of what is due nothing
\* is made up.
THEOREM TypeCorrect == Spec => []TypeOK
<1>1. Init => TypeOK
  BY InitTypes
<1>2. TypeOK /\ [Next]_vars => TypeOK'
  BY TypeStep
<1>. QED
  BY <1>1, <1>2, PTL DEF Spec

-----------------------------------------------------------------------------
(* OneComposition.  While sessions wait, the composition that the text     *)
(* service has may be one that the application has terminated: then its    *)
(* end waits too.  No end waits for another one, so that none forgets a    *)
(* composition that was started since: the update of the document comes    *)
(* after the sessions it could disturb.                                    *)

NoneLeft(t) == DOMAIN t.live \subseteq {t.pComposition}
EndWaits == \E i \in DOMAIN queue : queue[i] = Session("end", s.pComposition)
EndsKnown ==
  \A i \in DOMAIN queue : queue[i].kind = "end" =>
    s.pComposition = None \/ queue[i].composition \in {None, s.pComposition}
UpdatesLast ==
  \A i, j \in DOMAIN queue : i < j /\ queue[i].kind = "update" => queue[j].kind = "extent"

OneInv ==
  ~s.crowded =>
    /\ NoneLeft(s)
    /\ s.pComposition \in {None} \cup DOMAIN s.live \/ EndWaits
    /\ EndsKnown /\ UpdatesLast

\* One more session waits, or none.
LEMMA OneMore ==
  ASSUME queue \in Seq(Sessions), NEW x \in Sessions, queue' = Append(queue, x)
  PROVE  /\ DOMAIN queue' = DOMAIN queue \cup {Len(queue) + 1}
         /\ \A i \in DOMAIN queue : queue'[i] = queue[i] /\ i < Len(queue) + 1
         /\ queue'[Len(queue) + 1] = x
BY AppendProperties

LEMMA TwoMore ==
  ASSUME queue \in Seq(Sessions), NEW x \in Sessions, NEW y \in Sessions,
         queue' = queue \o <<x, y>>
  PROVE  /\ DOMAIN queue' = DOMAIN queue \cup {Len(queue) + 1, Len(queue) + 2}
         /\ \A i \in DOMAIN queue : queue'[i] = queue[i] /\ i < Len(queue) + 1
         /\ queue'[Len(queue) + 1] = x /\ queue'[Len(queue) + 2] = y
OBVIOUS

LEMMA OneLess ==
  ASSUME queue \in Seq(Sessions), queue # <<>>, queue' = Tail(queue)
  PROVE  /\ Len(queue) \in Nat \ {0} /\ DOMAIN queue = 1 .. Len(queue)
         /\ Head(queue) = queue[1]
         /\ DOMAIN queue' = 1 .. (Len(queue) - 1)
         /\ \A i \in DOMAIN queue' : i + 1 \in DOMAIN queue /\ queue'[i] = queue[i + 1]
         /\ \A i \in DOMAIN queue : i # 1 => i - 1 \in DOMAIN queue' /\ queue'[i - 1] = queue[i]
OBVIOUS

\* What the update of the document finds, unless it was overtaken
LEMMA NoneLeftIsSingle ==
  ASSUME NEW t, StateOK(t)
  PROVE  /\ Single(t) => NoneLeft(t) /\ t.pComposition \in {None} \cup DOMAIN t.live
         /\ NoneLeft(t) /\ t.pComposition \in {None} \cup DOMAIN t.live => Single(t)
         /\ None \notin DOMAIN t.live
BY DEF StateOK, Compositions, Single, NoneLeft

LEMMA OneKept ==
  ASSUME OneInv, queue' = queue, s'.crowded = s.crowded,
         s'.pComposition = s.pComposition, DOMAIN s'.live \subseteq DOMAIN s.live,
         s.pComposition = None \/ s'.live = s.live
  PROVE  OneInv'
<1>. SUFFICES ASSUME ~s'.crowded PROVE OneInv'
  BY DEF OneInv
<1>1. NoneLeft(s) /\ EndsKnown /\ UpdatesLast
  BY DEF OneInv
<1>2. NoneLeft(s')
  BY <1>1 DEF NoneLeft
<1>3. EndsKnown'
  BY <1>1 DEF EndsKnown
<1>4. UpdatesLast'
  BY <1>1 DEF UpdatesLast
<1>5. s'.pComposition \in {None} \cup DOMAIN s'.live \/ EndWaits'
  BY DEF OneInv, EndWaits
<1>. QED
  BY <1>2, <1>3, <1>4, <1>5 DEF OneInv, NoneLeft

\* One more session waits: it may be an end, if no update waits.
LEMMA OneAppended ==
  ASSUME OneInv, queue \in Seq(Sessions), NEW x \in Sessions, queue' = Append(queue, x),
         NEW t, DOMAIN t.live \subseteq DOMAIN s.live, t.pComposition = s.pComposition,
         SameDocument(t, s'),
         ~s'.crowded => ~s.crowded,
         \/ x = Session("extent", None) /\ t.live = s.live
         \/ x = Session("end", s.pComposition) /\ (Waits("update") => s'.crowded)
  PROVE  OneInv'
<1>. SUFFICES ASSUME ~s'.crowded PROVE OneInv'
  BY DEF OneInv
<1>1. /\ NoneLeft(s) /\ EndsKnown /\ UpdatesLast
      /\ s.pComposition \in {None} \cup DOMAIN s.live \/ EndWaits
  BY DEF OneInv
<1>2. s'.live = t.live /\ s'.pComposition = s.pComposition
  BY DEF SameDocument
<1>3. /\ DOMAIN queue' = DOMAIN queue \cup {Len(queue) + 1}
      /\ \A i \in DOMAIN queue : queue'[i] = queue[i] /\ i < Len(queue) + 1
      /\ queue'[Len(queue) + 1] = x
  BY OneMore
<1>4. x.kind # "update" /\ (x.kind = "end" => x.composition = s.pComposition)
  BY DEF Session
<1>5. x.kind = "extent" \/ ~Waits("update")
  BY DEF Session
<1>. DEFINE n == Len(queue) + 1
<1>. HIDE DEF n
<1>6. /\ DOMAIN queue' = DOMAIN queue \cup {n} /\ queue'[n] = x
      /\ \A i \in DOMAIN queue : queue'[i] = queue[i] /\ i < n
  BY <1>3 DEF n
<1>7. NoneLeft(s')
  BY <1>1, <1>2 DEF NoneLeft
<1>8. EndsKnown'
  BY <1>1, <1>2, <1>4, <1>6 DEF EndsKnown
<1>9. UpdatesLast'
  <2>. SUFFICES ASSUME NEW i \in DOMAIN queue', NEW j \in DOMAIN queue', i < j,
                       queue'[i].kind = "update"
                PROVE  queue'[j].kind = "extent"
    BY DEF UpdatesLast
  <2>1. i \in DOMAIN queue
    BY <1>4, <1>6
  <2>2. CASE j \in DOMAIN queue
    BY <1>1, <1>6, <2>1, <2>2 DEF UpdatesLast
  <2>3. CASE j = n
    BY <1>5, <1>6, <2>1, <2>3 DEF Waits
  <2>. QED
    BY <1>6, <2>2, <2>3
<1>10. s'.pComposition \in {None} \cup DOMAIN s'.live \/ EndWaits'
  <2>1. CASE x = Session("extent", None) /\ t.live = s.live
    <3>1. EndWaits => EndWaits'
      BY <1>2, <1>6 DEF EndWaits
    <3>. QED
      BY <1>1, <1>2, <2>1, <3>1
  <2>2. CASE x = Session("end", s.pComposition)
    BY <1>2, <1>6, <2>2 DEF EndWaits
  <2>. QED
    BY <2>1, <2>2
<1>. QED
  BY <1>7, <1>8, <1>9, <1>10 DEF OneInv

LEMMA OneUpdated ==
  ASSUME OneInv, TypeOK, NEW t, From(t), Updates(t)
  PROVE  OneInv'
<1>. SUFFICES ASSUME ~s'.crowded PROVE OneInv'
  BY DEF OneInv
<1>1. StateOK(s) /\ StateOK(t) /\ queue \in Seq(Sessions) /\ async_edit \in BOOLEAN
  BY TypeParts DEF From, FlagsOK
<1>2. t.crowded = s.crowded /\ SameDocument(s, t)
  BY DEF From, Same
<1>3. CASE /\ queue = <<>> /\ queue' = queue /\ s'.crowded = t.crowded
           /\ Single(t) => Single(s')
  <2>1. NoneLeft(s) /\ (s.pComposition \in {None} \cup DOMAIN s.live \/ EndWaits)
    BY <1>2, <1>3 DEF OneInv
  <2>2. ~EndWaits
    BY <1>3 DEF EndWaits
  <2>3. Single(t)
    BY <1>1, <1>2, <2>1, <2>2, NoneLeftIsSingle DEF Single, SameDocument
  <2>4. StateOK(s')
    BY <1>1, UpdatesIs
  <2>5. NoneLeft(s') /\ s'.pComposition \in {None} \cup DOMAIN s'.live
    BY <1>3, <2>3, <2>4, NoneLeftIsSingle
  <2>6. EndsKnown' /\ UpdatesLast'
    BY <1>3 DEF EndsKnown, UpdatesLast
  <2>. QED
    BY <2>5, <2>6 DEF OneInv
<1>4. CASE /\ queue' = queue \o <<Session("update", None), Session("extent", None)>>
           /\ SameDocument(t, s') /\ (s'.crowded <=> t.crowded \/ Waits("update"))
  <2>1. ~s.crowded /\ ~Waits("update")
    BY <1>2, <1>4
  <2>2. /\ NoneLeft(s) /\ EndsKnown /\ UpdatesLast
        /\ s.pComposition \in {None} \cup DOMAIN s.live \/ EndWaits
    BY <2>1 DEF OneInv
  <2>3. s'.live = s.live /\ s'.pComposition = s.pComposition
    BY <1>2, <1>4 DEF SameDocument
  <2> DEFINE x == Session("update", None)
             y == Session("extent", None)
             n == Len(queue) + 1
  <2>4. x \in Sessions /\ y \in Sessions /\ x.kind = "update" /\ y.kind = "extent"
    BY DEF Session, Sessions
  <2>. HIDE DEF x, y
  <2>5. /\ DOMAIN queue' = DOMAIN queue \cup {Len(queue) + 1, Len(queue) + 2}
        /\ \A i \in DOMAIN queue : queue'[i] = queue[i] /\ i < Len(queue) + 1
        /\ queue'[Len(queue) + 1] = x /\ queue'[Len(queue) + 2] = y
    BY <1>1, <1>4, <2>4, TwoMore DEF x, y
  <2>6. /\ DOMAIN queue' = DOMAIN queue \cup {n, n + 1} /\ n \in Nat /\ DOMAIN queue \subseteq Nat
        /\ \A i \in DOMAIN queue : queue'[i] = queue[i] /\ i < n
        /\ queue'[n] = x /\ queue'[n + 1] = y
    BY <1>1, <2>5
  <2>. HIDE DEF n
  <2>7. EndsKnown'
    BY <2>2, <2>3, <2>4, <2>6 DEF EndsKnown
  <2>8. UpdatesLast'
    <3>. SUFFICES ASSUME NEW i \in DOMAIN queue', NEW j \in DOMAIN queue', i < j,
                         queue'[i].kind = "update"
                  PROVE  queue'[j].kind = "extent"
      BY DEF UpdatesLast
    <3>1. i \notin DOMAIN queue
      BY <2>1, <2>6 DEF Waits
    <3>2. i = n
      BY <2>4, <2>6, <3>1
    <3>3. j = n + 1
      BY <2>6, <3>2
    <3>. QED
      BY <2>4, <2>6, <3>3
  <2>9. EndWaits => EndWaits'
    BY <2>3, <2>6 DEF EndWaits
  <2>10. NoneLeft(s')
    BY <2>2, <2>3 DEF NoneLeft
  <2>. QED
    BY <2>2, <2>3, <2>7, <2>8, <2>9, <2>10 DEF OneInv
<1>5. CASE s' = t /\ queue' = queue
  BY <1>2, <1>5, OneKept DEF SameDocument
<1>. QED
  BY <1>1, <1>3, <1>4, <1>5, UpdatesIs

LEMMA OneEnded ==
  ASSUME OneInv, TypeOK, NEW t, Ended(t)
  PROVE  OneInv'
<1>. SUFFICES ASSUME ~s'.crowded PROVE OneInv'
  BY DEF OneInv
<1>1. /\ StateOK(s) /\ queue \in Seq(Sessions) /\ StateOK(t) /\ RequestEnd(t)
      /\ t.crowded = s.crowded /\ t.pComposition = s.pComposition
      /\ DOMAIN t.live \subseteq DOMAIN s.live
  BY TypeParts DEF Ended
<1>2. s.pComposition \in Compositions \cup {None}
  BY <1>1 DEF StateOK
<1>3. /\ \/ queue' = queue /\ s' = t /\ t.pComposition = None
         \/ /\ queue = <<>> /\ queue' = queue
            /\ s'.crowded = t.crowded
            /\ s'.pComposition = None /\ DOMAIN s'.live = DOMAIN t.live \ {t.pComposition}
         \/ /\ queue' = Append(queue, Session("end", t.pComposition))
            /\ s'.crowded <=> t.crowded \/ Waits("update")
            /\ SameDocument(t, s')
  BY <1>1, RequestEndIs
<1>4. CASE queue' = queue /\ s' = t /\ t.pComposition = None
  BY <1>1, <1>4, OneKept
<1>5. CASE /\ queue = <<>> /\ queue' = queue /\ s'.crowded = t.crowded
           /\ s'.pComposition = None /\ DOMAIN s'.live = DOMAIN t.live \ {t.pComposition}
  <2>1. NoneLeft(s)
    BY <1>1, <1>5 DEF OneInv
  <2>2. NoneLeft(s')
    BY <1>1, <1>5, <2>1 DEF NoneLeft
  <2>3. EndsKnown' /\ UpdatesLast'
    BY <1>5 DEF EndsKnown, UpdatesLast
  <2>. QED
    BY <1>5, <2>2, <2>3 DEF OneInv
<1>6. CASE /\ queue' = Append(queue, Session("end", t.pComposition))
           /\ s'.crowded <=> t.crowded \/ Waits("update")
           /\ SameDocument(t, s')
  <2> DEFINE x == Session("end", s.pComposition)
  <2>1. x \in Sessions
    BY <1>2 DEF Session, Sessions
  <2>2. queue' = Append(queue, x) /\ (Waits("update") => s'.crowded) /\ ~s.crowded
    BY <1>1, <1>6
  <2>. QED
    BY <1>1, <1>6, <2>1, <2>2, OneAppended
<1>. QED
  BY <1>3, <1>4, <1>5, <1>6

LEMMA OneGranted ==
  ASSUME OneInv, TypeOK, Grant
  PROVE  OneInv'
<1>. SUFFICES ASSUME ~s'.crowded PROVE OneInv'
  BY DEF OneInv
<1>1. StateOK(s) /\ queue \in Seq(Sessions)
  BY TypeParts
<1> DEFINE x == Head(queue)
<1>2. /\ StateOK(s') /\ s'.crowded = s.crowded
      /\ queue # <<>> /\ queue' = Tail(queue) /\ x \in Sessions
      /\ \/ x.kind = "update" /\ (Single(s) => Single(s'))
         \/ x.kind = "extent" /\ SameDocument(s, s')
         \/ /\ x.kind = "end"
            /\ \/ x.composition = None /\ s' = s
               \/ /\ x.composition \in Compositions
                  /\ s'.pComposition = None
                  /\ DOMAIN s'.live = DOMAIN s.live \ {x.composition}
  BY <1>1, GrantIs DEF Same
<1>3. /\ NoneLeft(s) /\ EndsKnown /\ UpdatesLast
      /\ s.pComposition \in {None} \cup DOMAIN s.live \/ EndWaits
  BY <1>2 DEF OneInv
<1>4. /\ Len(queue) \in Nat \ {0} /\ DOMAIN queue = 1 .. Len(queue) /\ x = queue[1]
      /\ DOMAIN queue' = 1 .. (Len(queue) - 1)
      /\ \A i \in DOMAIN queue' : i + 1 \in DOMAIN queue /\ queue'[i] = queue[i + 1]
      /\ \A i \in DOMAIN queue : i # 1 => i - 1 \in DOMAIN queue' /\ queue'[i - 1] = queue[i]
  BY <1>1, <1>2, OneLess
<1>. HIDE DEF x
<1>5. UpdatesLast'
  <2>. SUFFICES ASSUME NEW i \in DOMAIN queue', NEW j \in DOMAIN queue', i < j,
                       queue'[i].kind = "update"
                PROVE  queue'[j].kind = "extent"
    BY DEF UpdatesLast
  <2>1. i + 1 \in DOMAIN queue /\ j + 1 \in DOMAIN queue /\ i + 1 < j + 1
    BY <1>4
  <2>. QED
    BY <1>3, <1>4, <2>1 DEF UpdatesLast
<1>6. CASE x.kind = "update"
  <2>1. \A i \in DOMAIN queue' : queue'[i].kind = "extent"
    <3>. TAKE i \in DOMAIN queue'
    <3>1. 1 \in DOMAIN queue /\ i + 1 \in DOMAIN queue /\ 1 < i + 1
      BY <1>4
    <3>. QED
      BY <1>3, <1>4, <1>6, <3>1 DEF UpdatesLast
  <2>2. ~EndWaits
    <3>. SUFFICES ASSUME NEW i \in DOMAIN queue, queue[i] = Session("end", s.pComposition)
                  PROVE  FALSE
      BY DEF EndWaits
    <3>1. queue[i].kind = "end"
      BY DEF Session
    <3>2. i # 1
      BY <1>4, <1>6, <3>1
    <3>3. queue'[i - 1].kind = "extent"
      BY <1>4, <2>1, <3>2
    <3>. QED
      BY <1>4, <3>1, <3>2, <3>3
  <2>3. Single(s)
    BY <1>1, <1>3, <2>2, NoneLeftIsSingle
  <2>4. NoneLeft(s') /\ s'.pComposition \in {None} \cup DOMAIN s'.live
    BY <1>2, <1>6, <2>3, NoneLeftIsSingle
  <2>5. EndsKnown'
    BY <2>1 DEF EndsKnown
  <2>. QED
    BY <1>5, <2>4, <2>5 DEF OneInv
<1>7. ASSUME s'.live = s.live, s'.pComposition = s.pComposition,
             x # Session("end", s.pComposition) \/ s.pComposition = None
      PROVE  OneInv'
  <2>1. NoneLeft(s')
    BY <1>3, <1>7 DEF NoneLeft
  <2>2. EndsKnown'
    BY <1>3, <1>4, <1>7 DEF EndsKnown
  <2>3. s.pComposition # None /\ EndWaits => EndWaits'
    <3>. SUFFICES ASSUME s.pComposition # None, NEW i \in DOMAIN queue,
                         queue[i] = Session("end", s.pComposition)
                  PROVE  EndWaits'
      BY DEF EndWaits
    <3>1. i # 1
      BY <1>4, <1>7
    <3>2. i - 1 \in DOMAIN queue' /\ queue'[i - 1] = Session("end", s'.pComposition)
      BY <1>4, <1>7, <3>1
    <3>. QED
      BY <3>2 DEF EndWaits
  <2>. QED
    BY <1>3, <1>5, <1>7, <2>1, <2>2, <2>3 DEF OneInv
<1>8. CASE x.kind = "extent" /\ SameDocument(s, s')
  <2>1. x # Session("end", s.pComposition)
    BY <1>8 DEF Session
  <2>. QED
    BY <1>7, <1>8, <2>1 DEF SameDocument
<1>9. CASE x.kind = "end" /\ x.composition = None /\ s' = s
  <2>1. x # Session("end", s.pComposition) \/ s.pComposition = None
    BY <1>9 DEF Session
  <2>. QED
    BY <1>7, <1>9, <2>1
<1>10. CASE /\ x.kind = "end" /\ x.composition \in Compositions
            /\ s'.pComposition = None /\ DOMAIN s'.live = DOMAIN s.live \ {x.composition}
  <2>1. x.composition # None
    BY <1>10 DEF Compositions
  <2>2. s.pComposition = None \/ s.pComposition = x.composition
    BY <1>3, <1>4, <1>10, <2>1 DEF EndsKnown
  <2>3. None \notin DOMAIN s.live
    BY <1>1, NoneLeftIsSingle
  <2>4. DOMAIN s'.live = {}
    BY <1>3, <1>10, <2>2, <2>3 DEF NoneLeft
  <2>5. EndsKnown'
    BY <1>10 DEF EndsKnown
  <2>. QED
    BY <1>5, <1>10, <2>4, <2>5 DEF OneInv, NoneLeft
<1>. QED
  BY <1>2, <1>6, <1>8, <1>9, <1>10

LEMMA OneStep ==
  ASSUME OneInv, TypeOK, [Next]_vars
  PROVE  OneInv'
<1>1. CASE \E t : Answered(t) \/ Unanswered(t)
  BY <1>1, OneUpdated DEF Answered, Unanswered
<1>2. CASE Clicked \/ Forgotten
  BY <1>2, OneKept DEF Clicked, Forgotten, Same, SameDocument
<1>3. CASE \E t : Ended(t)
  BY <1>3, OneEnded
<1>4. CASE Quieted
  BY <1>4, OneKept DEF Quieted
<1>5. CASE Moved
  <2>1. StateOK(s) /\ queue \in Seq(Sessions)
    BY TypeParts
  <2>2. Request(s, Session("extent", None))
    BY <1>5 DEF Moved
  <2>3. /\ SameDocument(s, s') /\ s'.crowded = s.crowded
        /\ queue' = queue \/ queue' = Append(queue, Session("extent", None))
    BY <2>1, <2>2, LayoutIs
  <2>4. CASE queue' = queue
    BY <2>3, <2>4, OneKept DEF SameDocument
  <2>5. CASE queue' = Append(queue, Session("extent", None))
    <3>1. Session("extent", None) \in Sessions
      BY DEF Session, Sessions
    <3>. QED
      BY <2>1, <2>3, <2>5, <3>1, OneAppended
  <2>. QED
    BY <2>3, <2>4, <2>5
<1>6. CASE Grant
  BY <1>6, OneGranted
<1>7. CASE UNCHANGED vars
  BY <1>7, OneKept DEF vars
<1>8. CASE Next
  BY <1>1, <1>2, <1>3, <1>4, <1>5, <1>6, <1>8, StepIs DEF Step
<1>. QED
  BY <1>7, <1>8

LEMMA InitOne ==
  ASSUME Init
  PROVE  OneInv
<1>1. s.live = <<>> /\ s.pComposition = None /\ queue = <<>>
  BY DEF Init
<1>2. DOMAIN <<>> = {}
  OBVIOUS
<1>. QED
  BY <1>1, <1>2 DEF OneInv, NoneLeft, EndsKnown, UpdatesLast

\* Between two calls, and when no session waits, the document has the
\* composition that _pComposition points to and no other, whatever sessions
\* were granted late, unless one that changes the document was requested while
\* its update waited.
THEOREM NoCompositionLeftBehind == Spec => []OneComposition
<1>1. Init => OneInv
  BY InitOne
<1>2. TypeOK /\ OneInv /\ [Next]_vars => OneInv'
  BY OneStep
<1>3. TypeOK /\ OneInv => OneComposition
  <2>. SUFFICES ASSUME TypeOK, OneInv, queue = <<>>, ~s.crowded PROVE Single(s)
    BY DEF OneComposition, Single
  <2>1. ~EndWaits
    BY DEF EndWaits
  <2>. QED
    BY <2>1, NoneLeftIsSingle, TypeParts DEF OneInv
<1>. QED
  BY <1>1, <1>2, <1>3, TypeCorrect, PTL DEF Spec

-----------------------------------------------------------------------------
(* SentOnce.  A key event that has been sent is remembered as pending, or  *)
(* the application has done with it.                                       *)

Unsent == /\ sent <= 1
          /\ event.key = "down" /\ ~down => sent = 0
          /\ event.key = "up" /\ ~up => sent = 0
SentInv == "retest" \notin Environment => Unsent

LEMMA SentKeyboard ==
  ASSUME TypeOK, Unsent, "retest" \notin Environment, Keyboard
  PROVE  Unsent'
<1>0. sent \in 0 .. 2 /\ down \in BOOLEAN /\ up \in BOOLEAN
  BY TypeParts DEF KeysOK
<1>1. ASSUME sent = 0, NEW answer \in ProcessKeyEvent, KeyStep(answer)
      PROVE  answer.eaten \in BOOLEAN /\ sent' <= 1
  <2>1. answer.eaten \in BOOLEAN
    BY ProcessKeyEventIs, TypeParts DEF CountsOK
  <2>2. sent' \in {0, 1}
    BY <1>1 DEF KeyStep
  <2>. QED
    BY <2>1, <2>2
<1>2. NoEvent.key = "none"
  BY DEF NoEvent
<1>3. CASE \E k \in {"down", "up"} : Key(k)
  BY <1>3 DEF Key, Unsent
<1>4. CASE OnTestKeyDown
  <2>1. event.key = "down"
    BY <1>4 DEF OnTestKeyDown
  <2>2. CASE down
    BY <1>0, <1>4, <2>1, <2>2 DEF OnTestKeyDown, NoKeyStep, Unsent
  <2>3. CASE ~down
    <3>1. PICK answer \in ProcessKeyEvent :
            KeyStep(answer) /\ down' = answer.eaten /\ Tested("down", answer.eaten)
      BY <1>4, <2>3 DEF OnTestKeyDown
    <3>2. answer.eaten \in BOOLEAN /\ sent' <= 1
      BY <1>1, <2>1, <2>3, <3>1 DEF Unsent
    <3>3. CASE answer.eaten
      <4>1. event'.key = "down" /\ down'
        BY <3>1, <3>3 DEF Tested, Event
      <4>. QED
        BY <3>2, <4>1 DEF Unsent
    <3>4. CASE ~answer.eaten
      <4>1. event' = NoEvent
        BY <3>1, <3>4 DEF Tested
      <4>. QED
        BY <1>2, <3>2, <4>1 DEF Unsent
    <3>. QED
      BY <3>2, <3>3, <3>4
  <2>. QED
    BY <2>2, <2>3
<1>5. CASE OnTestKeyUp
  <2>1. event.key = "up"
    BY <1>5 DEF OnTestKeyUp
  <2>2. CASE up
    BY <1>0, <1>5, <2>1, <2>2 DEF OnTestKeyUp, NoKeyStep, Unsent
  <2>3. CASE ~up
    <3>1. PICK answer \in ProcessKeyEvent :
            KeyStep(answer) /\ up' = answer.eaten /\ Tested("up", answer.eaten)
      BY <1>5, <2>3 DEF OnTestKeyUp
    <3>2. answer.eaten \in BOOLEAN /\ sent' <= 1
      BY <1>1, <2>1, <2>3, <3>1 DEF Unsent
    <3>3. CASE answer.eaten
      <4>1. event'.key = "up" /\ up'
        BY <3>1, <3>3 DEF Tested, Event
      <4>. QED
        BY <3>2, <4>1 DEF Unsent
    <3>4. CASE ~answer.eaten
      <4>1. event' = NoEvent
        BY <3>1, <3>4 DEF Tested
      <4>. QED
        BY <1>2, <3>2, <4>1 DEF Unsent
    <3>. QED
      BY <3>2, <3>3, <3>4
  <2>. QED
    BY <2>2, <2>3
<1>6. CASE OnKeyDown
  <2>1. event.key = "down" /\ event' = NoEvent
    BY <1>6 DEF OnKeyDown
  <2>2. sent' <= 1
    BY <1>1, <1>6, <2>1 DEF OnKeyDown, NoKeyStep, Unsent
  <2>. QED
    BY <1>2, <2>1, <2>2 DEF Unsent
<1>7. CASE OnKeyUp
  <2>1. event.key = "up" /\ event' = NoEvent
    BY <1>7 DEF OnKeyUp
  <2>2. sent' <= 1
    BY <1>1, <1>7, <2>1 DEF OnKeyUp, NoKeyStep, Unsent
  <2>. QED
    BY <1>2, <2>1, <2>2 DEF Unsent
<1>. QED
  BY <1>3, <1>4, <1>5, <1>6, <1>7 DEF Keyboard

\* Only the keyboard changes what is known of the key event.
LEMMA OthersKeepKeys ==
  ASSUME Next
  PROVE  Keyboard \/ UNCHANGED keys
BY DEF Next, Application, User, Grant, OnEndEdit, OnLayoutChange, OnCompositionTerminated,
       OnSetFocus, OnKillThreadFocus, OnSetThreadFocus, Click, Mouse, CloseKeyboard,
       DisableKeyboard, OpenKeyboard, ToggleAscii, ChangeConversion, LoseServer, StartServer,
       Quiet, Undisturbed

LEMMA SentStep ==
  ASSUME TypeOK, SentInv, [Next]_vars
  PROVE  SentInv'
<1>1. Environment' = Environment
  <2>1. CASE Next
    BY <2>1, StepIs, StepTypes DEF Environment
  <2>2. CASE UNCHANGED vars
    BY <2>2 DEF vars, Environment
  <2>. QED
    BY <2>1, <2>2
<1>2. CASE Keyboard
  BY <1>1, <1>2, SentKeyboard DEF SentInv
<1>3. CASE UNCHANGED keys
  BY <1>1, <1>3 DEF keys, SentInv, Unsent
<1>. QED
  BY <1>2, <1>3, OthersKeepKeys DEF vars

\* A key event is sent to the server at most once, whatever comes between
\* OnTestKeyDown and OnKeyDown, in every application that tests a key once.
THEOREM KeySentOnce == Spec => []SentOnce
<1>1. Init => SentInv
  BY DEF Init, SentInv, Unsent, NoEvent
<1>2. TypeOK /\ SentInv /\ [Next]_vars => SentInv'
  BY SentStep
<1>3. SentInv => SentOnce
  BY DEF SentInv, Unsent, SentOnce
<1>. QED
  BY <1>1, <1>2, <1>3, TypeCorrect, PTL DEF Spec

-----------------------------------------------------------------------------
(* What is known without the server, without the keyboard, and in an       *)
(* application that grants every session at once.                          *)

NothingUnread == s.session # "good" => s.unread = <<>> /\ s.pre = NoCode
NothingToRead == s.session = "none" => s.buffer = Spoilt
BeenOff == off => s.been_off = TRUE /\ behind
GrantedAtOnce == "defer" \notin Environment => queue = <<>> /\ ~s.crowded /\ ~async_edit

AwayInv == NothingUnread /\ NothingToRead /\ BeenOff /\ GrantedAtOnce

LEMMA UnreadIs ==
  ASSUME NothingUnread
  PROVE  Unread = s.unread
BY DEF NothingUnread, Unread

LEMMA AwayKept ==
  ASSUME AwayInv, SameServer(s, s') \/ (s'.session = s.session /\ s.session = "good"),
         s'.pre \in {s.pre, NoCode}, s'.buffer \in {s.buffer, Spoilt}
  PROVE  NothingUnread' /\ NothingToRead'
BY DEF AwayInv, NothingUnread, NothingToRead, SameServer

LEMMA AwayUpdated ==
  ASSUME AwayInv, TypeOK, NEW t, Answered(t) \/ Unanswered(t)
  PROVE  AwayInv'
<1>1. StateOK(t) /\ queue \in Seq(Sessions) /\ async_edit \in BOOLEAN /\ Updates(t)
  BY TypeParts DEF Answered, Unanswered, From, FlagsOK
<1>2. /\ Alike(t, s') /\ SameServer(t, s')
      /\ s'.buffer \in {t.buffer, Spoilt} /\ s'.pre \in {t.pre, NoCode}
      /\ \/ queue = <<>> /\ queue' = queue /\ ~async_edit' /\ s'.crowded = t.crowded
         \/ "defer" \in Environment
         \/ s' = t /\ queue' = queue /\ async_edit
  BY <1>1, UpdatesIs
<1>3. s'.app = s.app /\ s'.been_off = s.been_off /\ t.crowded = s.crowded
  BY <1>2 DEF Answered, Unanswered, From, Same, Alike
<1>4. NothingUnread' /\ NothingToRead'
  BY <1>2 DEF AwayInv, NothingUnread, NothingToRead, Answered, Unanswered, SameServer
<1>5. BeenOff'
  BY <1>3 DEF AwayInv, BeenOff, Answered, Unanswered
<1>6. GrantedAtOnce'
  BY <1>2, <1>3 DEF AwayInv, GrantedAtOnce, Environment
<1>. QED
  BY <1>4, <1>5, <1>6 DEF AwayInv

LEMMA AwayStep ==
  ASSUME AwayInv, TypeOK, [Next]_vars
  PROVE  AwayInv'
<1>. StateOK(s) /\ queue \in Seq(Sessions)
  BY TypeParts
<1>1. CASE \E t : Answered(t) \/ Unanswered(t)
  BY <1>1, AwayUpdated
<1>2. CASE Clicked
  <2>1. s.session = "good"
    BY <1>2 DEF Clicked, AwayInv, NothingUnread
  <2>2. NothingUnread' /\ NothingToRead'
    BY <1>2, <2>1 DEF Clicked, NothingUnread, NothingToRead
  <2>3. BeenOff' /\ GrantedAtOnce'
    BY <1>2 DEF Clicked, Same, AwayInv, BeenOff, GrantedAtOnce, Environment
  <2>. QED
    BY <2>2, <2>3 DEF AwayInv
<1>3. CASE Forgotten
  <2>1. NothingUnread' /\ NothingToRead'
    BY <1>3 DEF Forgotten, AwayInv, NothingUnread, NothingToRead
  <2>2. BeenOff' /\ GrantedAtOnce'
    BY <1>3 DEF Forgotten, Same, AwayInv, BeenOff, GrantedAtOnce, Environment
  <2>. QED
    BY <2>1, <2>2 DEF AwayInv
<1>4. ASSUME NEW t, Ended(t) PROVE AwayInv'
  <2>1. StateOK(t) /\ RequestEnd(t) /\ SameServer(s, t) /\ t.app = s.app
        /\ t.crowded = s.crowded /\ async_edit' = async_edit
        /\ t.buffer \in {s.buffer, Spoilt} /\ t.pre \in {s.pre, NoCode}
    BY <1>4 DEF Ended
  <2>2. /\ Alike(t, s') /\ SameServer(t, s')
        /\ s'.buffer \in {t.buffer, Spoilt} /\ s'.pre \in {t.pre, NoCode}
        /\ \/ queue' = queue /\ s' = t
           \/ queue' = queue /\ s'.crowded = t.crowded
           \/ "defer" \in Environment
    BY <2>1, RequestEndIs
  <2>3. NothingUnread' /\ NothingToRead'
    BY <2>1, <2>2, AwayKept DEF SameServer
  <2>4. BeenOff'
    <3>1. s'.been_off = t.been_off
      BY <2>2 DEF Alike
    <3>2. CASE behind' = behind /\ off' = off /\ t.been_off = s.been_off
      BY <3>1, <3>2 DEF AwayInv, BeenOff
    <3>3. CASE behind' /\ off' /\ t.been_off = TRUE
      BY <3>1, <3>3 DEF BeenOff
    <3>. QED
      BY <1>4, <3>2, <3>3 DEF Ended
  <2>5. GrantedAtOnce'
    BY <2>1, <2>2 DEF Alike, AwayInv, GrantedAtOnce, Environment
  <2>. QED
    BY <2>3, <2>4, <2>5 DEF AwayInv
<1>5. CASE Quieted
  <2>1. NothingUnread' /\ NothingToRead'
    BY <1>5, AwayKept DEF Quieted
  <2>2. BeenOff'
    <3>1. CASE behind' = behind /\ s'.been_off = s.been_off /\ off' = off
      BY <3>1 DEF AwayInv, BeenOff
    <3>2. CASE off' = FALSE
      BY <3>2 DEF BeenOff
    <3>3. CASE behind' /\ s'.been_off = s.been_off /\ off' = off
      BY <3>3 DEF AwayInv, BeenOff
    <3>4. CASE behind' /\ off' /\ s'.been_off = TRUE
      BY <3>4 DEF BeenOff
    <3>. QED
      BY <1>5, <3>1, <3>2, <3>3, <3>4 DEF Quieted
  <2>3. GrantedAtOnce'
    BY <1>5 DEF Quieted, AwayInv, GrantedAtOnce, Environment
  <2>. QED
    BY <2>1, <2>2, <2>3 DEF AwayInv
<1>6. CASE Moved
  <2>1. /\ Alike(s, s') /\ SameServer(s, s') /\ s'.crowded = s.crowded /\ s'.pre = s.pre
        /\ s'.buffer \in {s.buffer, Spoilt}
        /\ queue' = queue \/ "defer" \in Environment
    BY <1>6, LayoutIs DEF Moved
  <2>2. NothingUnread' /\ NothingToRead'
    BY <2>1, AwayKept
  <2>3. BeenOff' /\ GrantedAtOnce'
    BY <1>6, <2>1 DEF Moved, Alike, AwayInv, BeenOff, GrantedAtOnce, Environment
  <2>. QED
    BY <2>2, <2>3 DEF AwayInv
<1>7. CASE Grant
  <2>1. /\ Same(s, s') /\ SameServer(s, s')
        /\ s'.buffer \in {s.buffer, Spoilt} /\ s'.pre \in {s.pre, NoCode}
        /\ queue # <<>>
    BY <1>7, GrantIs
  <2>2. NothingUnread' /\ NothingToRead'
    BY <2>1, AwayKept
  <2>3. off' = off /\ behind' = behind
    BY <1>7 DEF Grant, history
  <2>4. BeenOff' /\ GrantedAtOnce'
    BY <2>1, <2>3 DEF Same, AwayInv, BeenOff, GrantedAtOnce, Environment
  <2>. QED
    BY <2>2, <2>4 DEF AwayInv
<1>8. CASE UNCHANGED vars
  BY <1>8 DEF vars, history, AwayInv, NothingUnread, NothingToRead, BeenOff, GrantedAtOnce,
              Environment
<1>9. CASE Next
  BY <1>1, <1>2, <1>3, <1>4, <1>5, <1>6, <1>7, <1>9, StepIs DEF Step
<1>. QED
  BY <1>8, <1>9

LEMMA Inductive == Spec => [](TypeOK /\ OneInv /\ AwayInv)
<1>1. Init => AwayInv
  BY DEF Init, AwayInv, NothingUnread, NothingToRead, BeenOff, GrantedAtOnce
<1>2. TypeOK /\ AwayInv /\ [Next]_vars => AwayInv'
  BY AwayStep
<1>3. Init => OneInv
  BY InitOne
<1>4. TypeOK /\ OneInv /\ [Next]_vars => OneInv'
  BY OneStep
<1>. QED
  BY <1>1, <1>2, <1>3, <1>4, TypeCorrect, PTL DEF Spec

-----------------------------------------------------------------------------
(* CommitsArrive.                                                          *)

\* What a reader finds in the buffer
LEMMA BufferIs ==
  ASSUME NEW t, StateOK(t)
  PROVE  /\ t.buffer.commit \in Seq(1 .. t.app.commits)
         /\ t.buffer = Spoilt => t.buffer.commit = <<>>
<1>1. Spoilt.commit = <<>>
  BY DEF Spoilt, Response
<1>2. <<>> \in Seq(1 .. t.app.commits)
  OBVIOUS
<1>3. CASE t.buffer = Spoilt
  BY <1>1, <1>2, <1>3
<1>4. CASE t.buffer # Spoilt
  <2> DEFINE r == t.buffer
  <2>1. r \in [commit : Seq(1 .. t.app.commits), pre : t.app.codes \cup {NoCode}]
    BY <1>4 DEF StateOK
  <2>. HIDE DEF r
  <2>2. r.commit \in Seq(1 .. t.app.commits)
    BY <2>1
  <2>. QED
    BY <1>4, <2>2 DEF r
<1>. QED
  BY <1>3, <1>4

LEMMA ConcatAppend ==
  ASSUME NEW S, NEW p \in Seq(S), NEW q \in Seq(S), NEW x \in S
  PROVE  p \o Append(q, x) = Append(p \o q, x)
<1>1. Append(q, x) = q \o <<x>> /\ Append(p \o q, x) = (p \o q) \o <<x>>
  BY AppendIsConcat
<1>2. <<x>> \in Seq(S)
  OBVIOUS
<1>. QED
  BY <1>1, <1>2, ConcatAssociative

LEMMA HandedIs ==
  ASSUME StateOK(s), due = s.text \o s.unread
  PROVE  Handed(s) = s.text
<1>1. s.text \in Seq(1 .. s.app.commits) /\ s.unread \in Seq(1 .. s.app.commits)
  BY DEF StateOK
<1> DEFINE p == s.text  q == s.unread
<1>. HIDE DEF p, q
<1>2. p \in Seq(1 .. s.app.commits) /\ q \in Seq(1 .. s.app.commits) /\ due = p \o q
  BY <1>1 DEF p, q
<1>3. Len(due) = Len(p) + Len(q) /\ Len(p) \in Nat /\ Len(q) \in Nat
  BY <1>2
<1>4. Len(due) - Len(q) = Len(p)
  BY <1>3
<1>5. SubSeq(p \o q, 1, Len(p)) = p
  BY <1>2
<1>. QED
  BY <1>2, <1>4, <1>5 DEF Handed, p, q

ArriveInv ==
  "defer" \notin Environment /\ s.been_off = FALSE => s.text \o s.unread = due

\* An application that grants sessions at once has the composition that the
\* text service knows, between any two calls.
LEMMA AtOnceSingle ==
  ASSUME TypeOK, OneInv, AwayInv, "defer" \notin Environment
  PROVE  queue = <<>> /\ ~async_edit /\ Single(s)
<1>1. queue = <<>> /\ ~s.crowded /\ ~async_edit
  BY DEF AwayInv, GrantedAtOnce
<1>2. ~EndWaits
  BY <1>1 DEF EndWaits
<1>. QED
  BY <1>1, <1>2, NoneLeftIsSingle, TypeParts DEF OneInv

LEMMA ArriveUpdated ==
  ASSUME TypeOK, OneInv, AwayInv, "defer" \notin Environment, s.been_off = FALSE,
         s.text \o s.unread = due, NEW t, Answered(t) \/ Unanswered(t)
  PROVE  s'.text \o s'.unread = due'
<1>1. /\ StateOK(s) /\ queue \in Seq(Sessions) /\ async_edit \in BOOLEAN
      /\ made \in 0 .. MaxCommits
  BY TypeParts DEF FlagsOK, CountsOK
<1>2. /\ StateOK(t) /\ SameDocument(s, t) /\ t.app = s.app /\ Updates(t)
  BY DEF Answered, Unanswered, From, Same
<1>3. queue = <<>> /\ ~async_edit /\ Single(t)
  BY <1>2, AtOnceSingle DEF Single, SameDocument
<1>4. /\ s'.text = t.text \o t.buffer.commit
      /\ s'.unread = t.unread
  <2>1. <<>> # queue \o <<Session("update", None), Session("extent", None)>>
    BY <1>3
  <2>. QED
    BY <1>1, <1>2, <1>3, UpdatesIs DEF SameServer
<1>5. /\ s.text \in Seq(1 .. MaxCommits) /\ s.unread \in Seq(1 .. MaxCommits)
      /\ t.text = s.text
  BY <1>1, <1>2 DEF StateOK, MaxCommits, SameDocument
<1>6. due \in Seq(1 .. MaxCommits)
  BY <1>5, ConcatProperties
<1>7. Unread = s.unread
  BY UnreadIs DEF AwayInv
<1>8. CASE SameHistory /\ t.buffer = Response(Unread, t.pre) /\ t.unread = <<>>
  <2>1. t.buffer.commit = s.unread
    BY <1>7, <1>8 DEF Response
  <2>2. s'.text = due /\ due' = due /\ s'.unread = <<>>
    BY <1>4, <1>5, <1>8, <2>1 DEF SameHistory
  <2>. QED
    BY <1>6, <2>2, ConcatEmptySeq
<1>9. CASE /\ made < MaxCommits /\ due' = Append(due, made + 1) /\ t.unread = <<>>
           /\ t.buffer = Response(Append(Unread, made + 1), t.pre)
  <2>1. made + 1 \in 1 .. MaxCommits
    BY <1>1, <1>9, Bounds
  <2>2. t.buffer.commit = Append(s.unread, made + 1)
    BY <1>7, <1>9 DEF Response
  <2>3. s.text \o Append(s.unread, made + 1) = Append(s.text \o s.unread, made + 1)
    <3> DEFINE S == 1 .. MaxCommits
               x == made + 1
               p == s.text
               q == s.unread
    <3>1. p \in Seq(S) /\ q \in Seq(S) /\ x \in S
      BY <1>5, <2>1
    <3>. HIDE DEF S, x, p, q
    <3>2. p \o Append(q, x) = Append(p \o q, x)
      BY <3>1, ConcatAppend
    <3>. QED
      BY <3>2 DEF x, p, q
  <2>4. s'.text = Append(due, made + 1)
    BY <1>4, <1>5, <2>2, <2>3
  <2>5. Append(due, made + 1) \in Seq(1 .. MaxCommits)
    BY <1>6, <2>1
  <2>. QED
    BY <1>4, <1>9, <2>4, <2>5, ConcatEmptySeq
<1>10. CASE SameHistory /\ t.buffer = Spoilt /\ t.unread = s.unread
  <2>1. t.buffer.commit = <<>>
    BY <1>2, <1>10, BufferIs
  <2>2. s'.text = s.text
    BY <1>4, <1>5, <2>1, ConcatEmptySeq
  <2>. QED
    BY <1>4, <1>10, <2>2 DEF SameHistory
<1>11. CASE Answered(t)
  BY <1>8, <1>9, <1>11 DEF Answered
<1>12. CASE Unanswered(t)
  <2>1. ~off
    BY DEF AwayInv, BeenOff
  <2>2. s.session = "none" => s.buffer = Spoilt
    BY DEF AwayInv, NothingToRead
  <2>3. SameHistory /\ t.buffer = Spoilt /\ t.unread = s.unread
    BY <1>7, <1>12, <2>1, <2>2 DEF Unanswered
  <2>. QED
    BY <1>10, <2>3
<1>. QED
  BY <1>11, <1>12

LEMMA ArriveStep ==
  ASSUME TypeOK, OneInv, AwayInv, ArriveInv, [Next]_vars
  PROVE  ArriveInv'
<1>. StateOK(s) /\ queue \in Seq(Sessions)
  BY TypeParts
<1>1. Environment' = Environment
  <2>1. CASE Next
    BY <2>1, StepIs, StepTypes DEF Environment
  <2>2. CASE UNCHANGED vars
    BY <2>2 DEF vars, Environment
  <2>. QED
    BY <2>1, <2>2
<1>. SUFFICES ASSUME "defer" \notin Environment, s'.been_off = FALSE
              PROVE  s'.text \o s'.unread = due'
  BY <1>1 DEF ArriveInv
<1>2. s.been_off = FALSE => s.text \o s.unread = due
  BY DEF ArriveInv
<1>3. queue = <<>>
  BY AtOnceSingle
<1>4. ASSUME NEW t, Answered(t) \/ Unanswered(t)
      PROVE  s'.text \o s'.unread = due'
  <2>1. StateOK(t) /\ async_edit \in BOOLEAN /\ Updates(t) /\ t.been_off = s.been_off
    BY <1>4, TypeParts DEF FlagsOK, Answered, Unanswered, From, Same
  <2>2. s'.been_off = t.been_off
    BY <2>1, UpdatesIs DEF Alike
  <2>. QED
    BY <1>2, <1>4, <2>1, <2>2, ArriveUpdated
<1>5. s.unread \in Seq(1 .. MaxCommits) /\ s.text \in Seq(1 .. MaxCommits)
  BY DEF StateOK, MaxCommits
<1>6. CASE Clicked
  <2>1. s.text \o s.unread = due /\ s'.text = s.text
    BY <1>2, <1>6 DEF Clicked, Same, SameDocument
  <2>2. CASE SameHistory /\ s'.unread = s.unread
    BY <2>1, <2>2 DEF SameHistory
  <2>3. CASE /\ made < MaxCommits /\ due' = Append(due, made + 1)
             /\ s'.unread = Append(s.unread, made + 1)
    <3>1. made \in 0 .. MaxCommits /\ MaxCommits \in Nat
      BY TypeParts, Bounds DEF CountsOK
    <3> DEFINE S == 1 .. MaxCommits
               x == made + 1
               p == s.text
               q == s.unread
    <3>2. p \in Seq(S) /\ q \in Seq(S) /\ x \in S
      BY <1>5, <2>3, <3>1
    <3>. HIDE DEF S, x, p, q
    <3>3. p \o Append(q, x) = Append(p \o q, x)
      BY <3>2, ConcatAppend
    <3>. QED
      BY <2>1, <2>3, <3>3 DEF x, p, q
  <2>. QED
    BY <1>6, <2>2, <2>3 DEF Clicked
<1>7. CASE Forgotten
  <2>1. s.text \o s.unread = due /\ s'.text = s.text
    BY <1>2, <1>7 DEF Forgotten, Same, SameDocument
  <2>2. due' = s.text
    BY <1>7, <2>1, HandedIs DEF Forgotten
  <2>3. s'.unread = <<>>
    BY <1>7 DEF Forgotten, AwayInv, NothingUnread
  <2>. QED
    BY <1>5, <2>1, <2>2, <2>3, ConcatEmptySeq
<1>8. ASSUME s'.text = s.text, s'.unread = s.unread, due' = due, s'.been_off = s.been_off
      PROVE  s'.text \o s'.unread = due'
  BY <1>2, <1>8
<1>9. ASSUME NEW t, Ended(t)
      PROVE  s'.text \o s'.unread = due'
  <2>1. StateOK(t) /\ RequestEnd(t) /\ SameServer(s, t) /\ t.text = s.text /\ due' = due
    BY <1>9 DEF Ended, SameHistory
  <2>2. s'.text = t.text /\ SameServer(t, s') /\ s'.been_off = t.been_off
    BY <2>1, RequestEndIs DEF Alike
  <2>3. t.been_off = s.been_off
    BY <1>9, <2>2 DEF Ended
  <2>. QED
    BY <1>8, <2>1, <2>2, <2>3 DEF SameServer
<1>10. CASE Quieted
  BY <1>8, <1>10 DEF Quieted, SameServer, SameHistory
<1>11. CASE Moved
  BY <1>8, <1>11, LayoutIs DEF Moved, SameHistory, SameServer, SameDocument, Alike
<1>12. CASE Grant
  BY <1>3, <1>12, GrantIs
<1>13. CASE UNCHANGED vars
  BY <1>8, <1>13 DEF vars, history
<1>14. CASE Next
  BY <1>4, <1>6, <1>7, <1>9, <1>10, <1>11, <1>12, <1>14, StepIs DEF Step
<1>. QED
  BY <1>13, <1>14

\* In an application that grants every session at once, the text in the document
\* is, in this order and once each, what the server has committed and handed
\* over; what it has still to hand over is in its session.  Only the keyboard
\* that is closed or disabled makes an exception.
THEOREM EveryCommitArrives == Spec => []CommitsArrive
<1>1. Init => ArriveInv
  <2>. SUFFICES ASSUME Init PROVE <<>> \o <<>> = <<>>
    BY DEF Init, ArriveInv
  <2>1. <<>> \in Seq(Nat)
    OBVIOUS
  <2>. QED
    BY <2>1, ConcatEmptySeq
<1>2. TypeOK /\ OneInv /\ AwayInv /\ ArriveInv /\ [Next]_vars => ArriveInv'
  BY ArriveStep
<1>3. TypeOK /\ ArriveInv => CommitsArrive
  BY TypeParts DEF ArriveInv, CommitsArrive, StateOK
<1>. QED
  BY <1>1, <1>2, <1>3, Inductive, PTL DEF Spec

-----------------------------------------------------------------------------
(* ShowsCode.                                                              *)

ShownInv ==
  /\ s.session = "good" /\ ~behind
  /\ Environment \cap {"defer", "unknown"} = {}
  => Shown(s)

LEMMA ShownStep ==
  ASSUME TypeOK, OneInv, AwayInv, ShownInv, [Next]_vars
  PROVE  ShownInv'
<1>. StateOK(s) /\ queue \in Seq(Sessions)
  BY TypeParts
<1>1. Environment' = Environment
  <2>1. CASE Next
    BY <2>1, StepIs, StepTypes DEF Environment
  <2>2. CASE UNCHANGED vars
    BY <2>2 DEF vars, Environment
  <2>. QED
    BY <2>1, <2>2
<1>. SUFFICES ASSUME s'.session = "good", ~behind',
                     "defer" \notin Environment, "unknown" \notin Environment
              PROVE  Shown(s')
  BY <1>1 DEF ShownInv
<1>2. s.session = "good" /\ ~behind => Shown(s)
  BY DEF ShownInv
<1>3. queue = <<>> /\ ~async_edit /\ Single(s)
  BY AtOnceSingle
<1>4. ASSUME NEW t, Answered(t)
      PROVE  Shown(s')
  <2>1. /\ StateOK(t) /\ async_edit \in BOOLEAN /\ Updates(t) /\ SameDocument(s, t)
        /\ t.session = "good" /\ t.buffer.pre = t.pre
    BY <1>4, TypeParts DEF FlagsOK, Answered, From, Response
  <2>2. t.buffer # Spoilt
    <3>1. t.pre # "nothing"
      BY <2>1, TextServiceAssumption DEF StateOK, NoCode
    <3>2. Spoilt.pre = "nothing"
      BY DEF Spoilt, Response
    <3>. QED
      BY <2>1, <3>1, <3>2
  <2>3. Single(t)
    BY <1>3, <2>1 DEF Single, SameDocument
  <2>. QED
    BY <1>3, <2>1, <2>2, <2>3, UpdatesIs
<1>5. ASSUME NEW t, Unanswered(t)
      PROVE  Shown(s')
  <2>1. StateOK(t) /\ async_edit \in BOOLEAN /\ Updates(t)
    BY <1>5, TypeParts DEF FlagsOK, Unanswered, From
  <2>2. t.session = "good"
    BY <2>1, UpdatesIs DEF SameServer
  <2>3. off => behind
    BY DEF AwayInv, BeenOff
  <2>. QED
    BY <1>5, <2>2, <2>3 DEF Unanswered
<1>6. CASE Clicked
  BY <1>6 DEF Clicked
<1>7. ASSUME s.session = "good", behind' = behind, s'.inline = s.inline,
             s'.live = s.live, s'.pComposition = s.pComposition, s'.pre = s.pre
      PROVE  Shown(s')
  BY <1>2, <1>7 DEF Shown
<1>8. CASE Forgotten
  BY <1>7, <1>8 DEF Forgotten, Same, SameDocument
<1>9. ASSUME NEW t, Ended(t)
      PROVE  Shown(s')
  <2>1. /\ StateOK(t) /\ RequestEnd(t) /\ t.pComposition = s.pComposition
        /\ DOMAIN t.live \subseteq DOMAIN s.live /\ t.pComposition # None
        /\ t.session = "good" => t.pre = NoCode \/ t.pComposition \in DOMAIN t.live
    BY <1>9 DEF Ended
  <2>2. /\ t.session = "good" /\ s'.pComposition = None
        /\ DOMAIN s'.live = DOMAIN t.live \ {t.pComposition}
        /\ s'.pre = (IF t.pComposition \in DOMAIN t.live THEN NoCode ELSE t.pre)
    BY <2>1, RequestEndIs DEF SameServer
  <2>3. s'.pre = NoCode
    BY <2>1, <2>2
  <2>4. DOMAIN s'.live = {}
    BY <1>3, <2>1, <2>2 DEF Single
  <2>. QED
    BY <2>2, <2>3, <2>4 DEF Shown
<1>10. CASE Quieted
  <2>1. s.session = "good" /\ s'.inline = s.inline /\ s'.pComposition = s.pComposition
    BY <1>10 DEF Quieted, SameServer
  <2>2. CASE s'.live = s.live /\ s'.pre = s.pre /\ behind' = behind
    BY <1>7, <2>1, <2>2
  <2>3. CASE /\ s.pComposition = None /\ DOMAIN s'.live \subseteq DOMAIN s.live
             /\ behind' = behind
    <3>1. s.pre = NoCode
      BY <1>2, <2>1, <2>3 DEF Shown
    <3>2. s'.pre = NoCode
      BY <1>10, <3>1 DEF Quieted
    <3>3. DOMAIN s'.live = {}
      BY <1>3, <2>3 DEF Single
    <3>. QED
      BY <2>1, <2>3, <3>2, <3>3 DEF Shown
  <2>. QED
    BY <1>10, <2>2, <2>3 DEF Quieted
<1>11. CASE Moved
  <2>1. /\ SameServer(s, s') /\ SameDocument(s, s') /\ Alike(s, s') /\ s'.pre = s.pre
        /\ behind' = behind
    BY <1>11, LayoutIs DEF Moved
  <2>. QED
    BY <1>7, <2>1 DEF SameServer, SameDocument, Alike
<1>12. CASE Grant
  BY <1>3, <1>12, GrantIs
<1>13. CASE UNCHANGED vars
  BY <1>7, <1>13 DEF vars, history
<1>14. CASE Next
  BY <1>4, <1>5, <1>6, <1>8, <1>9, <1>10, <1>11, <1>12, <1>14, StepIs DEF Step
<1>. QED
  BY <1>13, <1>14

\* In an application that grants every session at once, there is a composition
\* if and only if the server has code, and inline it shows this code, whenever
\* the last key was answered.
THEOREM CodeIsShown == Spec => []ShowsCode
<1>1. Init => ShownInv
  <2>. SUFFICES ASSUME Init PROVE Shown(s)
    BY DEF ShownInv
  <2>1. s.live = <<>> /\ s.pComposition = None /\ s.pre = NoCode
    BY DEF Init
  <2>2. DOMAIN <<>> = {}
    OBVIOUS
  <2>. QED
    BY <2>1, <2>2 DEF Shown
<1>2. TypeOK /\ OneInv /\ AwayInv /\ ShownInv /\ [Next]_vars => ShownInv'
  BY ShownStep
<1>3. ShownInv => ShowsCode
  BY DEF ShownInv, Shown, ShowsCode
<1>. QED
  BY <1>1, <1>2, <1>3, Inductive, PTL DEF Spec

-----------------------------------------------------------------------------
(* NothingTwice.  Whatever waits to be read, in the server's session or in *)
(* the buffer, was committed after all that is in the document; the answer *)
(* in the buffer comes before what is still in the session.                *)

Rising(p) == \A i, j \in DOMAIN p : i < j => p[i] < p[j]
Before(p, q) == \A i \in DOMAIN p, j \in DOMAIN q : p[i] < q[j]
Upto(p, n) == \A i \in DOMAIN p : p[i] <= n

InOrder(text, unread, n) ==
  Rising(text) /\ Rising(unread) /\ Before(text, unread) /\ Upto(text, n) /\ Upto(unread, n)
Between(text, answer, unread, n) ==
  Rising(answer) /\ Before(text, answer) /\ Before(answer, unread) /\ Upto(answer, n)

Read == s.buffer.commit

OrderInv ==
  s.been_off = FALSE /\ ~s.crowded =>
    /\ InOrder(s.text, s.unread, made)
    /\ Waits("update") => Between(s.text, Read, s.unread, made)

\* A text that is committed now comes after all.
LEMMA Appended ==
  ASSUME NEW n \in Nat, NEW p \in Seq(Nat), NEW q \in Seq(Nat), InOrder(p, q, n)
  PROVE  InOrder(p, Append(q, n + 1), n + 1)
<1> DEFINE r == Append(q, n + 1)
<1>1. /\ Len(q) \in Nat /\ DOMAIN q = 1 .. Len(q) /\ DOMAIN r = 1 .. (Len(q) + 1)
      /\ \A i \in DOMAIN q : r[i] = q[i] /\ q[i] \in Nat
      /\ r[Len(q) + 1] = n + 1
  BY AppendProperties, ElementOfSeq
<1>2. \A i \in DOMAIN p : p[i] \in Nat
  BY ElementOfSeq
<1>. HIDE DEF r
<1>3. Rising(r)
  <2>. SUFFICES ASSUME NEW i \in DOMAIN r, NEW j \in DOMAIN r, i < j PROVE r[i] < r[j]
    BY DEF Rising
  <2>1. i \in DOMAIN q /\ r[i] = q[i]
    BY <1>1
  <2>2. CASE j \in DOMAIN q
    BY <1>1, <2>1, <2>2 DEF InOrder, Rising
  <2>3. CASE j = Len(q) + 1
    <3>1. q[i] <= n /\ q[i] \in Nat
      BY <1>1, <2>1 DEF InOrder, Upto
    <3>. QED
      BY <1>1, <2>1, <2>3, <3>1
  <2>. QED
    BY <1>1, <2>2, <2>3
<1>4. Before(p, r)
  <2>. SUFFICES ASSUME NEW i \in DOMAIN p, NEW j \in DOMAIN r PROVE p[i] < r[j]
    BY DEF Before
  <2>1. CASE j \in DOMAIN q
    BY <1>1, <2>1 DEF InOrder, Before
  <2>2. CASE j = Len(q) + 1
    <3>1. p[i] <= n /\ p[i] \in Nat
      BY <1>2 DEF InOrder, Upto
    <3>2. r[j] = n + 1
      BY <1>1, <2>2
    <3>. QED
      BY <3>1, <3>2
  <2>3. j \in DOMAIN q \/ j = Len(q) + 1
    BY <1>1
  <2>. QED
    BY <2>1, <2>2, <2>3
<1>5. Upto(r, n + 1)
  <2>. SUFFICES ASSUME NEW i \in DOMAIN r PROVE r[i] <= n + 1
    BY DEF Upto
  <2>1. CASE i \in DOMAIN q
    <3>1. q[i] <= n /\ q[i] \in Nat
      BY <1>1, <2>1 DEF InOrder, Upto
    <3>. QED
      BY <1>1, <2>1, <3>1
  <2>2. CASE i = Len(q) + 1
    BY <1>1, <2>2
  <2>. QED
    BY <1>1, <2>1, <2>2
<1>6. Upto(p, n + 1)
  <2>. SUFFICES ASSUME NEW i \in DOMAIN p PROVE p[i] <= n + 1
    BY DEF Upto
  <2>1. p[i] <= n /\ p[i] \in Nat
    BY <1>2 DEF InOrder, Upto
  <2>. QED
    BY <2>1
<1>. QED
  BY <1>3, <1>4, <1>5, <1>6 DEF InOrder, r

\* An answer that is read goes to the end of the text.
LEMMA Joined ==
  ASSUME NEW n \in Nat, NEW p \in Seq(Nat), NEW q \in Seq(Nat), NEW r \in Seq(Nat),
         InOrder(p, r, n), Between(p, q, r, n)
  PROVE  InOrder(p \o q, r, n)
<1> DEFINE t == p \o q
<1>1. /\ Len(p) \in Nat /\ Len(q) \in Nat
      /\ DOMAIN p = 1 .. Len(p) /\ DOMAIN q = 1 .. Len(q)
      /\ DOMAIN t = 1 .. (Len(p) + Len(q))
      /\ \A i \in DOMAIN t : t[i] = IF i <= Len(p) THEN p[i] ELSE q[i - Len(p)]
  BY ConcatProperties
<1>. HIDE DEF t
<1>2. \A i \in DOMAIN t : \/ i \in DOMAIN p /\ t[i] = p[i]
                          \/ i > Len(p) /\ i - Len(p) \in DOMAIN q /\ t[i] = q[i - Len(p)]
  BY <1>1
<1>3. Rising(t)
  <2>. SUFFICES ASSUME NEW i \in DOMAIN t, NEW j \in DOMAIN t, i < j PROVE t[i] < t[j]
    BY DEF Rising
  <2>1. CASE j \in DOMAIN p
    BY <1>1, <1>2, <2>1 DEF InOrder, Rising
  <2>2. CASE i \in DOMAIN p /\ j \notin DOMAIN p
    BY <1>1, <1>2, <2>2 DEF Between, Before
  <2>3. CASE i \notin DOMAIN p
    <3>1. /\ i > Len(p) /\ i - Len(p) \in DOMAIN q /\ t[i] = q[i - Len(p)]
          /\ j - Len(p) \in DOMAIN q /\ t[j] = q[j - Len(p)] /\ i - Len(p) < j - Len(p)
      BY <1>1, <1>2, <2>3
    <3>. QED
      BY <3>1 DEF Between, Rising
  <2>. QED
    BY <2>1, <2>2, <2>3
<1>4. Before(t, r)
  BY <1>2 DEF InOrder, Between, Before
<1>5. Upto(t, n)
  BY <1>2 DEF InOrder, Between, Upto
<1>. QED
  BY <1>3, <1>4, <1>5 DEF InOrder, t

LEMMA NoneIsOrdered ==
  ASSUME NEW p, NEW q, NEW n
  PROVE  /\ Rising(<<>>) /\ Before(p, <<>>) /\ Before(<<>>, q) /\ Upto(<<>>, n)
         /\ Between(p, <<>>, q, n)
BY DEF Rising, Before, Upto, Between

LEMMA MoreIsOrdered ==
  ASSUME NEW p \in Seq(Nat), NEW q \in Seq(Nat), NEW n \in Nat, InOrder(p, q, n)
  PROVE  InOrder(p, q, n + 1)
<1>1. \A i \in DOMAIN p : p[i] \in Nat
  BY ElementOfSeq
<1>2. \A i \in DOMAIN q : q[i] \in Nat
  BY ElementOfSeq
<1>. QED
  BY <1>1, <1>2 DEF InOrder, Upto

LEMMA TextsOfNumbers ==
  ASSUME StateOK(s), made \in 0 .. MaxCommits
  PROVE  /\ s.text \in Seq(Nat) /\ s.unread \in Seq(Nat) /\ Read \in Seq(Nat) /\ made \in Nat
         /\ s.buffer = Spoilt => Read = <<>>
<1>0. s.app.commits \in Nat
  BY Bounds DEF MaxCommits
<1>1. ASSUME NEW p \in Seq(1 .. s.app.commits) PROVE p \in Seq(Nat)
  <2>1. 1 .. s.app.commits \subseteq Nat
    BY <1>0
  <2>. QED
    BY <2>1, SeqMonotonic
<1>2. Read \in Seq(1 .. s.app.commits) /\ (s.buffer = Spoilt => Read = <<>>)
  BY BufferIs DEF Read
<1>3. s.text \in Seq(1 .. s.app.commits) /\ s.unread \in Seq(1 .. s.app.commits)
  BY DEF StateOK
<1>4. made \in Nat
  OBVIOUS
<1>. QED
  BY <1>1, <1>2, <1>3, <1>4

LEMMA OrderKept ==
  ASSUME OrderInv, s'.text = s.text, s'.unread \in {s.unread, <<>>}, Read' \in {Read, <<>>},
         made' = made, Waits("update")' => Waits("update"), ~s'.crowded => ~s.crowded,
         s'.been_off = FALSE => s.been_off = FALSE
  PROVE  OrderInv'
<1>. SUFFICES ASSUME s'.been_off = FALSE, ~s'.crowded
              PROVE  /\ InOrder(s'.text, s'.unread, made')
                     /\ Waits("update")' => Between(s'.text, Read', s'.unread, made')
  BY DEF OrderInv
<1>1. InOrder(s.text, s.unread, made)
  BY DEF OrderInv
<1>2. InOrder(s.text, <<>>, made)
  BY <1>1, NoneIsOrdered DEF InOrder
<1>3. ASSUME Waits("update")' PROVE Between(s'.text, Read', s'.unread, made')
  <2>1. Between(s.text, Read, s.unread, made)
    BY <1>3 DEF OrderInv
  <2>2. Between(s.text, Read, <<>>, made)
    BY <2>1, NoneIsOrdered DEF Between
  <2>3. Between(s.text, <<>>, s'.unread, made)
    BY NoneIsOrdered
  <2>. QED
    BY <2>1, <2>2, <2>3
<1>. QED
  BY <1>1, <1>2, <1>3

\* The buffer stays as it is or is spoilt.
LEMMA ReadKept ==
  ASSUME NEW b, s'.buffer \in {b, Spoilt}
  PROVE  Read' \in {b.commit, <<>>}
BY DEF Read, Spoilt, Response

\* What is handed over for a key
LEMMA AnswerInOrder ==
  ASSUME StateOK(s), made \in 0 .. MaxCommits, NothingUnread,
         InOrder(s.text, s.unread, made), NEW t, Answered(t)
  PROVE  /\ t.buffer.commit \in Seq(Nat) /\ made' \in Nat /\ made' >= made
         /\ InOrder(s.text, t.buffer.commit, made')
<1>1. s.text \in Seq(Nat) /\ s.unread \in Seq(Nat) /\ made \in Nat
  BY TextsOfNumbers
<1>2. Unread = s.unread
  BY UnreadIs
<1>3. CASE SameHistory /\ t.buffer = Response(Unread, t.pre)
  <2>1. t.buffer.commit = s.unread /\ made' = made
    BY <1>2, <1>3 DEF Response, SameHistory
  <2>. QED
    BY <1>1, <2>1
<1>4. CASE made' = made + 1 /\ t.buffer = Response(Append(Unread, made + 1), t.pre)
  <2>1. t.buffer.commit = Append(s.unread, made + 1) /\ made' = made + 1
    BY <1>2, <1>4 DEF Response
  <2> DEFINE q == s.unread
  <2>2. q \in Seq(Nat) /\ made + 1 \in Nat /\ t.buffer.commit = Append(q, made + 1)
    BY <1>1, <2>1
  <2>. HIDE DEF q
  <2>3. Append(q, made + 1) \in Seq(Nat)
    BY <2>2
  <2>4. InOrder(s.text, Append(q, made + 1), made + 1)
    BY <1>1, Appended DEF q
  <2>5. made' \in Nat /\ made' >= made
    BY <1>1, <2>1
  <2>. QED
    BY <2>1, <2>2, <2>3, <2>4, <2>5
<1>. QED
  BY <1>3, <1>4 DEF Answered

LEMMA OrderUpdated ==
  ASSUME TypeOK, AwayInv, OrderInv, NEW t, Answered(t) \/ Unanswered(t)
  PROVE  OrderInv'
<1>. SUFFICES ASSUME s'.been_off = FALSE, ~s'.crowded
              PROVE  /\ InOrder(s'.text, s'.unread, made')
                     /\ Between(s'.text, Read', s'.unread, made') \/ ~Waits("update")'
  BY DEF OrderInv
<1>1. /\ StateOK(s) /\ queue \in Seq(Sessions) /\ async_edit \in BOOLEAN
      /\ made \in 0 .. MaxCommits
  BY TypeParts DEF FlagsOK, CountsOK
<1>2. StateOK(t) /\ Same(s, t) /\ SameDocument(s, t) /\ Updates(t)
  BY DEF Answered, Unanswered, From
<1> DEFINE w == t.buffer.commit
<1>3. /\ Alike(t, s') /\ s'.unread = t.unread
      /\ s'.buffer \in {t.buffer, Spoilt} /\ s'.text \in {s.text, s.text \o w}
      /\ \/ queue' = <<>> /\ s'.crowded = t.crowded
         \/ /\ s'.text = s.text /\ s'.buffer = t.buffer
            /\ ~s'.crowded => ~t.crowded
  BY <1>1, <1>2, UpdatesIs DEF SameServer, SameDocument
<1>4. s.been_off = FALSE /\ ~s.crowded
  BY <1>2, <1>3 DEF Alike, Same
<1>5. InOrder(s.text, s.unread, made)
  BY <1>4 DEF OrderInv
<1>6. s.text \in Seq(Nat) /\ s.unread \in Seq(Nat) /\ made \in Nat
  BY <1>1, TextsOfNumbers
<1>7. CASE Answered(t)
  <2>1. w \in Seq(Nat) /\ made' \in Nat /\ InOrder(s.text, w, made')
    BY <1>1, <1>5, <1>7, AnswerInOrder DEF AwayInv
  <2>2. s'.unread = <<>> /\ <<>> \in Seq(Nat)
    BY <1>3, <1>7 DEF Answered
  <2>. HIDE DEF w
  <2>3. InOrder(s.text, <<>>, made') /\ Between(s.text, w, <<>>, made')
    BY <2>1, NoneIsOrdered DEF InOrder, Between
  <2>4. InOrder(s.text \o w, <<>>, made')
    BY <1>6, <2>1, <2>2, <2>3, Joined
  <2>5. CASE queue' = <<>>
    <3>1. ~Waits("update")'
      BY <2>5 DEF Waits
    <3>2. InOrder(s'.text, <<>>, made')
      BY <1>3, <2>3, <2>4 DEF w
    <3>. QED
      BY <2>2, <3>1, <3>2
  <2>6. CASE s'.text = s.text /\ s'.buffer = t.buffer
    <3>1. Read' = w
      BY <2>6 DEF Read, w
    <3>. QED
      BY <2>2, <2>3, <2>6, <3>1
  <2>. QED
    BY <1>3, <2>5, <2>6
<1>8. CASE Unanswered(t)
  <2>1. ~off
    BY <1>4 DEF AwayInv, BeenOff
  <2>2. t.buffer = Spoilt
    BY <1>8, <2>1 DEF Unanswered, AwayInv, NothingToRead
  <2>3. t.unread = s.unread /\ made' = made
    BY <1>8, <2>1, UnreadIs DEF Unanswered, AwayInv, SameHistory
  <2>4. w = <<>>
    BY <1>2, <2>2, BufferIs
  <2>. HIDE DEF w
  <2>5. s'.text = s.text
    BY <1>3, <1>6, <2>4, ConcatEmptySeq
  <2>6. Read' = <<>>
    BY <1>3, <2>2, <2>4 DEF Read, w
  <2>. QED
    BY <1>3, <1>5, <2>3, <2>5, <2>6, NoneIsOrdered
<1>. QED
  BY <1>7, <1>8

LEMMA WaitsKept ==
  ASSUME queue \in Seq(Sessions), NEW x \in Sessions, x.kind # "update",
         queue' = queue \/ queue' = Append(queue, x)
  PROVE  Waits("update")' => Waits("update")
<1>1. CASE queue' = queue
  BY <1>1 DEF Waits
<1>2. CASE queue' = Append(queue, x)
  BY <1>2, OneMore DEF Waits
<1>. QED
  BY <1>1, <1>2

LEMMA OrderGranted ==
  ASSUME TypeOK, OneInv, OrderInv, Grant
  PROVE  OrderInv'
<1>1. StateOK(s) /\ queue \in Seq(Sessions) /\ made \in 0 .. MaxCommits
  BY TypeParts DEF CountsOK
<1> DEFINE x == Head(queue)
<1>2. /\ Same(s, s') /\ SameServer(s, s') /\ s'.buffer \in {s.buffer, Spoilt}
      /\ queue # <<>> /\ queue' = Tail(queue)
      /\ \/ x.kind = "update" /\ s'.text \in {s.text, s.text \o s.buffer.commit}
         \/ s'.text = s.text
  BY <1>1, GrantIs DEF SameDocument
<1>3. /\ Len(queue) \in Nat \ {0} /\ DOMAIN queue = 1 .. Len(queue) /\ x = queue[1]
      /\ DOMAIN queue' = 1 .. (Len(queue) - 1)
      /\ \A i \in DOMAIN queue' : i + 1 \in DOMAIN queue /\ queue'[i] = queue[i + 1]
  BY <1>1, <1>2, OneLess
<1>. HIDE DEF x
<1>4. Waits("update")' => Waits("update")
  BY <1>3 DEF Waits
<1>5. made' = made
  BY DEF Grant, history
<1>6. /\ s'.been_off = s.been_off /\ s'.crowded = s.crowded /\ s'.unread = s.unread
      /\ Read' \in {Read, <<>>}
  BY <1>2, ReadKept DEF Same, SameServer, Read
<1>7. CASE s'.text = s.text
  BY <1>4, <1>5, <1>6, <1>7, OrderKept
<1>8. CASE x.kind = "update" /\ s'.text = s.text \o s.buffer.commit
  <2>. SUFFICES ASSUME s.been_off = FALSE, ~s.crowded
                PROVE  InOrder(s'.text, s.unread, made) /\ ~Waits("update")'
    BY <1>5, <1>6 DEF OrderInv
  <2>1. Waits("update") /\ 1 \in DOMAIN queue
    BY <1>3, <1>8 DEF Waits
  <2>2. InOrder(s.text, s.unread, made) /\ Between(s.text, Read, s.unread, made)
    BY <2>1 DEF OrderInv
  <2>3. s.text \in Seq(Nat) /\ s.unread \in Seq(Nat) /\ Read \in Seq(Nat) /\ made \in Nat
    BY <1>1, TextsOfNumbers
  <2>4. InOrder(s.text \o Read, s.unread, made)
    BY <2>2, <2>3, Joined
  <2>5. \A i \in DOMAIN queue' : queue'[i].kind = "extent"
    <3>. TAKE i \in DOMAIN queue'
    <3>1. i + 1 \in DOMAIN queue /\ 1 < i + 1
      BY <1>3
    <3>. QED
      BY <1>3, <1>8, <2>1, <3>1 DEF OneInv, UpdatesLast
  <2>. QED
    BY <1>8, <2>4, <2>5 DEF Read, Waits
<1>. QED
  BY <1>2, <1>7, <1>8

LEMMA OrderStep ==
  ASSUME TypeOK, OneInv, AwayInv, OrderInv, [Next]_vars
  PROVE  OrderInv'
<1>0. StateOK(s) /\ queue \in Seq(Sessions) /\ made \in 0 .. MaxCommits
  BY TypeParts DEF CountsOK
<1>1. CASE \E t : Answered(t) \/ Unanswered(t)
  BY <1>1, OrderUpdated
<1>2. CASE Clicked
  <2>. SUFFICES ASSUME s.been_off = FALSE, ~s.crowded
                PROVE  /\ InOrder(s.text, s'.unread, made')
                       /\ Between(s.text, <<>>, s'.unread, made')
    <3>1. Read' = <<>>
      BY <1>2 DEF Clicked, Read, Spoilt, Response
    <3>. QED
      BY <1>2, <3>1 DEF Clicked, Same, SameDocument, OrderInv
  <2>1. InOrder(s.text, s.unread, made)
    BY DEF OrderInv
  <2>2. CASE SameHistory /\ s'.unread = s.unread
    BY <2>1, <2>2, NoneIsOrdered DEF SameHistory
  <2>3. CASE made' = made + 1 /\ s'.unread = Append(s.unread, made + 1)
    <3>1. s.text \in Seq(Nat) /\ s.unread \in Seq(Nat) /\ made \in Nat
      BY <1>0, TextsOfNumbers
    <3>2. InOrder(s.text, Append(s.unread, made + 1), made + 1)
      BY <2>1, <3>1, Appended
    <3>. QED
      BY <2>3, <3>2, NoneIsOrdered
  <2>. QED
    BY <1>2, <2>2, <2>3 DEF Clicked
<1>3. CASE Forgotten
  <2>1. /\ s'.text = s.text /\ made' = made /\ queue' = queue
        /\ s'.crowded = s.crowded /\ s'.been_off = s.been_off
    BY <1>3 DEF Forgotten, Same, SameDocument
  <2>2. Waits("update")' => Waits("update")
    BY <2>1 DEF Waits
  <2>3. CASE s'.buffer = Response(s.unread, s.pre) /\ s'.unread = <<>>
    <3>1. Read' = s.unread
      BY <2>3 DEF Read, Response
    <3>2. ASSUME InOrder(s.text, s.unread, made)
          PROVE  InOrder(s.text, <<>>, made) /\ Between(s.text, s.unread, <<>>, made)
      BY <3>2, NoneIsOrdered DEF InOrder, Between
    <3>. QED
      BY <2>1, <2>3, <3>1, <3>2 DEF OrderInv
  <2>4. CASE s'.buffer \in {s.buffer, Spoilt} /\ s'.unread \in {s.unread, <<>>}
    <3>1. Read' \in {Read, <<>>}
      BY <2>4, ReadKept DEF Read
    <3>. QED
      BY <2>1, <2>2, <2>4, <3>1, OrderKept
  <2>. QED
    BY <1>3, <2>3, <2>4 DEF Forgotten
<1>4. ASSUME NEW t, Ended(t) PROVE OrderInv'
  <2>1. /\ StateOK(t) /\ RequestEnd(t) /\ SameServer(s, t) /\ t.text = s.text
        /\ t.buffer \in {s.buffer, Spoilt} /\ t.crowded = s.crowded /\ made' = made
    BY <1>4 DEF Ended, SameHistory
  <2>2. /\ Alike(t, s') /\ SameServer(t, s') /\ s'.text = t.text
        /\ s'.buffer \in {t.buffer, Spoilt}
        /\ \/ queue' = queue /\ s' = t
           \/ queue' = queue /\ s'.crowded = t.crowded
           \/ /\ queue' = Append(queue, Session("end", t.pComposition))
              /\ s'.crowded <=> t.crowded \/ Waits("update")
    BY <1>0, <2>1, RequestEndIs
  <2>3. Session("end", t.pComposition) \in Sessions
    BY <2>1 DEF StateOK, Session, Sessions
  <2>4. queue' = queue \/ queue' = Append(queue, Session("end", t.pComposition))
    BY <2>2
  <2>5. Waits("update")' => Waits("update")
    <3>1. Session("end", t.pComposition).kind # "update"
      BY DEF Session
    <3>. QED
      BY <1>0, <2>3, <2>4, <3>1, WaitsKept
  <2>6. ~s'.crowded => ~s.crowded
    BY <2>1, <2>2
  <2>7. s'.been_off = FALSE => s.been_off = FALSE
    BY <1>4, <2>2 DEF Ended, Alike
  <2>8. Read' \in {Read, <<>>}
    <3>1. s'.buffer \in {s.buffer, Spoilt}
      BY <2>1, <2>2
    <3>. QED
      BY <3>1, ReadKept DEF Read
  <2>. QED
    BY <2>1, <2>2, <2>5, <2>6, <2>7, <2>8, OrderKept DEF SameServer
<1>5. CASE Quieted
  <2>1. Read' \in {Read, <<>>}
    BY <1>5, ReadKept DEF Quieted, Read
  <2>2. Waits("update")' => Waits("update")
    BY <1>5 DEF Quieted, Waits
  <2>3. s'.been_off = FALSE => s.been_off = FALSE
    BY <1>5 DEF Quieted
  <2>. QED
    BY <1>5, <2>1, <2>2, <2>3, OrderKept DEF Quieted, SameServer, SameHistory
<1>6. CASE Moved
  <2>1. /\ Alike(s, s') /\ SameServer(s, s') /\ SameDocument(s, s')
        /\ s'.crowded = s.crowded /\ s'.buffer \in {s.buffer, Spoilt}
        /\ queue' = queue \/ queue' = Append(queue, Session("extent", None))
    BY <1>0, <1>6, LayoutIs DEF Moved
  <2>2. Session("extent", None) \in Sessions /\ Session("extent", None).kind # "update"
    BY DEF Session, Sessions
  <2>3. Waits("update")' => Waits("update")
    BY <1>0, <2>1, <2>2, WaitsKept
  <2>4. Read' \in {Read, <<>>}
    BY <2>1, ReadKept DEF Read
  <2>5. made' = made
    BY <1>6 DEF Moved, SameHistory
  <2>. QED
    BY <2>1, <2>3, <2>4, <2>5, OrderKept DEF Alike, SameServer, SameDocument
<1>7. CASE Grant
  BY <1>7, OrderGranted
<1>8. CASE UNCHANGED vars
  BY <1>8, OrderKept DEF vars, history, Read, Waits
<1>9. CASE Next
  BY <1>1, <1>2, <1>3, <1>4, <1>5, <1>6, <1>7, <1>9, StepIs DEF Step
<1>. QED
  BY <1>8, <1>9

\* The texts in the document are in the order in which they were committed, and
\* none is there twice, however late the application grants its sessions, unless
\* another one was requested while the update of the document waited, or the
\* keyboard was off.
THEOREM NoCommitTwice == Spec => []NothingTwice
<1>1. Init => OrderInv
  <2>. SUFFICES ASSUME Init PROVE OrderInv
    OBVIOUS
  <2>1. s.text = <<>> /\ s.unread = <<>> /\ queue = <<>>
    BY DEF Init
  <2>2. ~Waits("update")
    BY <2>1 DEF Waits
  <2>. QED
    BY <2>1, <2>2, NoneIsOrdered DEF OrderInv, InOrder
<1>2. TypeOK /\ OneInv /\ AwayInv /\ OrderInv /\ [Next]_vars => OrderInv'
  BY OrderStep
<1>3. TypeOK /\ OrderInv => NothingTwice
  BY TypeParts DEF OrderInv, InOrder, Rising, NothingTwice, StateOK
<1>. QED
  BY <1>1, <1>2, <1>3, Inductive, PTL DEF Spec

=============================================================================
