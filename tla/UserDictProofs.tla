---------------------------- MODULE UserDictProofs ----------------------------
(***************************************************************************)
(* No commit is lost and none is counted twice: TLAPS proves TypeOK,        *)
(* EveryCommitCounts and NothingLearnedTwice for any number of machines,    *)
(* sessions, entries, events and faults.                                    *)
(*                                                                         *)
(* Both properties are about what the database holds once the batch has     *)
(* been written to it.  Neither is inductive: a batch may be dropped, and   *)
(* then the database alone must have enough; a snapshot may be merged, and  *)
(* then what it holds must not be too much.                                 *)
(***************************************************************************)
EXTENDS UserDict, SequenceTheorems, TLAPS

------------------------------------------------------------------------------
(* Commit counts *)

LEMMA AbsNat == \A n \in Int : Abs(n) \in Nat
BY DEF Abs

\* A commit adds one and a touch nothing, whether or not the entry was deleted.
LEMMA UpdatedByCommit ==
  \A c \in Int : /\ Updated(c, 0) = c
                 /\ Updated(c, 1) \in Int
                 /\ Abs(Updated(c, 1)) = Abs(c) + 1
BY DEF Abs, Updated

LEMMA MinOfTwo == \A a, b \in Int : Min({a, b}) = IF a <= b THEN a ELSE b
<1>. TAKE a \in Int, b \in Int
<1> DEFINE w == IF a <= b THEN a ELSE b
<1>1. w \in {a, b} /\ \A y \in {a, b} : w <= y
  OBVIOUS
<1>2. \A x \in {a, b} : (\A y \in {a, b} : x <= y) => x = w
  OBVIOUS
<1>. QED
  BY <1>1, <1>2 DEF Min

LEMMA MaxOfTwo == \A a, b \in Int : Max({a, b}) = IF a >= b THEN a ELSE b
<1>. TAKE a \in Int, b \in Int
<1> DEFINE w == IF a >= b THEN a ELSE b
<1>1. w \in {a, b} /\ \A y \in {a, b} : w >= y
  OBVIOUS
<1>2. \A x \in {a, b} : (\A y \in {a, b} : x >= y) => x = w
  OBVIOUS
<1>. QED
  BY <1>1, <1>2 DEF Max

\* A deletion keeps the count, and leaves at least one.
LEMMA UpdatedByDeletion ==
  \A c \in Int : /\ Updated(c, -1) \in Int
                 /\ Abs(Updated(c, -1)) >= 1
                 /\ Abs(Updated(c, -1)) = 1 \/ Abs(Updated(c, -1)) = Abs(c)
<1>. TAKE c \in Int
<1>1. Updated(c, -1) = IF -1 <= -c THEN -1 ELSE -c
  BY MinOfTwo DEF Updated
<1>. QED
  BY <1>1 DEF Abs

\* A merge takes the larger of two counts.
LEMMA MergedIsLarger ==
  \A o, v \in Int : /\ MergedValue(o, v) \in {o, v}
                    /\ Abs(MergedValue(o, v)) >= Abs(o)
BY DEF MergedValue, Abs

\* An import takes away from the count only when it revives a deleted entry.
LEMMA ImportedIsLarger ==
  \A o \in Int, v \in Int \ {0} :
    /\ ImportedValue(o, v) \in Int
    /\ Abs(ImportedValue(o, v)) <= Abs(o) + Abs(v)
    /\ IF o < 0 /\ v > 0 THEN Abs(ImportedValue(o, v)) >= 1
                         ELSE Abs(ImportedValue(o, v)) >= Abs(o)
<1>. TAKE o \in Int, v \in Int \ {0}
<1>1. -Abs(o) \in Int
  BY DEF Abs
<1>2. ImportedValue(o, v) = IF v > 0 THEN IF o >= v THEN o ELSE v
                                     ELSE IF v <= -Abs(o) THEN v ELSE -Abs(o)
  BY <1>1, MinOfTwo, MaxOfTwo DEF ImportedValue
<1>. QED
  BY <1>2 DEF Abs

------------------------------------------------------------------------------
(* Types *)

LEMMA WithoutOne ==
  ASSUME NEW S, NEW q \in Seq(S), IsInjective(q), NEW s
  PROVE  /\ Without(q, s) \in Seq(S)
         /\ IsInjective(Without(q, s))
         /\ Range(Without(q, s)) = Range(q) \ {s}
<1>1. DOMAIN q = 1..Len(q) /\ Len(q) \in Nat /\ \A i \in 1..Len(q) : q[i] \in S
  BY LenProperties, ElementOfSeq
<1>2. CASE s \notin Range(q)
  BY <1>2 DEF Without
<1>3. CASE s \in Range(q)
  <2> DEFINE k == CHOOSE i \in DOMAIN q : q[i] = s
             a == SubSeq(q, 1, k - 1)
             b == SubSeq(q, k + 1, Len(q))
             w == a \o b
  <2>1. k \in 1..Len(q) /\ q[k] = s
    BY <1>1, <1>3 DEF Range
  <2>2. Without(q, s) = w
    <3>1. Without(q, s) = RemoveAt(q, k)
      BY <1>3, Zenon DEF Without
    <3>. HIDE DEF k
    <3>. QED
      BY <3>1 DEF RemoveAt
  <2>. HIDE DEF k
  <2>3. a \in Seq(S) /\ Len(a) = k - 1 /\ \A i \in 1..(k - 1) : a[i] = q[i]
    <3>1. 1 \in Int /\ k - 1 \in Int /\ \A i \in 1..(k - 1) : q[i] \in S
      BY <1>1, <2>1
    <3>2. /\ a \in Seq(S)
          /\ Len(a) = IF 1 <= k - 1 THEN k - 1 - 1 + 1 ELSE 0
          /\ \A i \in 1..(k - 1 - 1 + 1) : a[i] = q[1 + i - 1]
      BY <3>1, SubSeqProperties
    <3>3. Len(a) = k - 1
      BY <1>1, <2>1, <3>2
    <3>4. ASSUME NEW i \in 1..(k - 1) PROVE a[i] = q[i]
      <4>1. i \in 1..(k - 1 - 1 + 1) /\ 1 + i - 1 = i
        BY <1>1, <2>1
      <4>. QED
        BY <3>2, <4>1
    <3>. QED
      BY <3>2, <3>3, <3>4
  <2>4. b \in Seq(S) /\ Len(b) = Len(q) - k /\ \A i \in 1..(Len(q) - k) : b[i] = q[k + i]
    <3>1. k + 1 \in Int /\ Len(q) \in Int /\ \A i \in (k + 1)..Len(q) : q[i] \in S
      BY <1>1, <2>1
    <3>2. /\ b \in Seq(S)
          /\ Len(b) = IF k + 1 <= Len(q) THEN Len(q) - (k + 1) + 1 ELSE 0
          /\ \A i \in 1..(Len(q) - (k + 1) + 1) : b[i] = q[k + 1 + i - 1]
      BY <3>1, SubSeqProperties
    <3>3. Len(b) = Len(q) - k
      <4>1. CASE k + 1 <= Len(q)
        BY <1>1, <2>1, <3>2, <4>1
      <4>2. CASE k = Len(q)
        BY <1>1, <2>1, <3>2, <4>2
      <4>3. k \in Int /\ k <= Len(q) /\ Len(q) \in Int
        BY <1>1, <2>1
      <4>. QED
        BY <4>1, <4>2, <4>3
    <3>4. ASSUME NEW i \in 1..(Len(q) - k) PROVE b[i] = q[k + i]
      <4>1. i \in 1..(Len(q) - (k + 1) + 1) /\ k + 1 + i - 1 = k + i
        BY <1>1, <2>1
      <4>. QED
        BY <3>2, <4>1
    <3>. QED
      BY <3>2, <3>3, <3>4
  <2>. HIDE DEF a, b
  <2>5. /\ w \in Seq(S) /\ Len(w) = Len(q) - 1
        /\ \A i \in 1..(Len(q) - 1) : w[i] = IF i < k THEN q[i] ELSE q[i + 1]
    <3>1. /\ w \in Seq(S) /\ Len(w) = Len(a) + Len(b)
          /\ \A i \in 1..(Len(a) + Len(b)) : w[i] = IF i <= Len(a) THEN a[i] ELSE b[i - Len(a)]
      BY <2>3, <2>4, ConcatProperties
    <3>2. Len(w) = Len(q) - 1
      BY <1>1, <2>1, <2>3, <2>4, <3>1
    <3>3. ASSUME NEW i \in 1..(Len(q) - 1) PROVE w[i] = IF i < k THEN q[i] ELSE q[i + 1]
      <4>1. w[i] = IF i <= k - 1 THEN a[i] ELSE b[i - (k - 1)]
        BY <1>1, <2>1, <2>3, <2>4, <3>1
      <4>2. CASE i < k
        <5>1. i \in 1..(k - 1) /\ i <= k - 1
          BY <1>1, <2>1, <4>2
        <5>. QED
          BY <2>3, <4>1, <4>2, <5>1
      <4>3. CASE ~(i < k)
        <5>1. i - (k - 1) \in 1..(Len(q) - k) /\ k + (i - (k - 1)) = i + 1 /\ ~(i <= k - 1)
          BY <1>1, <2>1, <4>3
        <5>2. b[i - (k - 1)] = q[k + (i - (k - 1))]
          BY <2>4, <5>1
        <5>. QED
          BY <4>1, <4>3, <5>1, <5>2
      <4>. QED
        BY <4>2, <4>3
    <3>. QED
      BY <3>1, <3>2, <3>3
  <2>6. DOMAIN w = 1..(Len(q) - 1)
    BY <2>5, LenProperties
  <2>. HIDE DEF w
  <2>7. \A i, j \in 1..Len(q) : q[i] = q[j] => i = j
    BY <1>1 DEF IsInjective
  <2>8. IsInjective(w)
    BY <1>1, <2>1, <2>5, <2>6, <2>7 DEF IsInjective
  <2>9. Range(w) \subseteq Range(q) \ {s}
    <3>1. ASSUME NEW i \in 1..(Len(q) - 1) PROVE w[i] \in Range(q) \ {s}
      <4>1. PICK j \in 1..Len(q) : j # k /\ w[i] = q[j]
        BY <1>1, <2>1, <2>5
      <4>. QED
        BY <1>1, <2>1, <2>7, <4>1 DEF Range
    <3>. QED
      BY <2>6, <3>1 DEF Range
  <2>10. Range(q) \ {s} \subseteq Range(w)
    <3>1. ASSUME NEW j \in 1..Len(q), j # k PROVE q[j] \in Range(w)
      <4>1. PICK i \in 1..(Len(q) - 1) : w[i] = q[j]
        <5>1. CASE j < k
          BY <1>1, <2>1, <2>5, <5>1
        <5>2. CASE j > k
          <6>1. j - 1 \in 1..(Len(q) - 1) /\ ~(j - 1 < k) /\ j - 1 + 1 = j
            BY <1>1, <2>1, <5>2
          <6>. QED
            BY <2>5, <6>1
        <5>. QED
          BY <1>1, <2>1, <3>1, <5>1, <5>2
      <4>. QED
        BY <2>6, <4>1 DEF Range
    <3>2. ASSUME NEW x \in Range(q), x # s PROVE \E j \in 1..Len(q) : j # k /\ q[j] = x
      BY <1>1, <2>1, <3>2 DEF Range
    <3>. QED
      BY <3>1, <3>2
  <2>. QED
    BY <2>2, <2>5, <2>8, <2>9, <2>10
<1>. QED
  BY <1>2, <1>3

LEMMA AppendOne ==
  ASSUME NEW S, NEW q \in Seq(S), IsInjective(q), NEW s \in S, s \notin Range(q)
  PROVE  /\ Append(q, s) \in Seq(S)
         /\ IsInjective(Append(q, s))
         /\ Range(Append(q, s)) = Range(q) \cup {s}
<1> DEFINE a == Append(q, s)
<1>1. /\ a \in Seq(S) /\ Len(q) \in Nat /\ Len(a) = Len(q) + 1
      /\ \A i \in 1..Len(q) : a[i] = q[i]
      /\ a[Len(q) + 1] = s
  BY AppendProperties, LenProperties
<1>2. DOMAIN q = 1..Len(q) /\ DOMAIN a = 1..(Len(q) + 1)
  BY <1>1, LenProperties
<1>. HIDE DEF a
<1>3. \A i \in 1..(Len(q) + 1) : i \in 1..Len(q) \/ i = Len(q) + 1
  BY <1>1
<1>4. Range(a) = Range(q) \cup {s}
  BY <1>1, <1>2, <1>3 DEF Range
<1>5. \A i \in 1..Len(q) : a[i] # s
  BY <1>1, <1>2 DEF Range
<1>6. IsInjective(a)
  BY <1>1, <1>2, <1>3, <1>5 DEF IsInjective
<1>. QED
  BY <1>1, <1>4, <1>6 DEF a

LEMMA EmptyIsBatch == IsBatch(Empty)
<1>1. Empty \in [{} -> Int]
  BY DEF Empty
<1>. QED
  BY <1>1 DEF IsBatch

LEMMA BatchProperties ==
  ASSUME NEW b, IsBatch(b)
  PROVE  /\ DOMAIN b \subseteq Entries
         /\ \A e \in DOMAIN b : b[e] \in Int
BY DEF IsBatch

LEMMA FlushedType ==
  ASSUME Types, NEW m \in Machines
  PROVE  /\ Flushed(m) \in [Entries -> Int]
         /\ ~in_transaction_[m] => Flushed(m) = db[m]
<1>1. IsBatch(batch[m]) /\ db[m] \in [Entries -> Int]
  BY DEF Types
<1>. QED
  BY <1>1, BatchProperties DEF Flushed

\* What the saves of a commit write to the batch.
LEMMA MemorizeProperties ==
  ASSUME NEW d \in [Entries -> Int], NEW saved \in Commits
  PROVE  /\ IsBatch(Memorize(d, saved))
         /\ \A e \in Entries : CountedBy(saved, e) => e \in DOMAIN Memorize(d, saved)
         /\ \A e \in DOMAIN Memorize(d, saved) :
              Memorize(d, saved)[e] = IF CountedBy(saved, e) THEN Updated(d[e], 1) ELSE d[e]
<1> DEFINE touched == Range(saved) \cup UNION {Elements[e] : e \in Range(saved)}
           w == Memorize(d, saved)
<1>1. w = [e \in touched |-> Updated(d[e], IF CountedBy(saved, e) THEN 1 ELSE 0)]
  BY DEF Memorize
<1>2. saved \in Seq(Entries) /\ Elements \in [Entries -> SUBSET Entries]
  BY UserDictAssumption
<1>3. Range(saved) \subseteq Entries
  BY <1>2, LenProperties, ElementOfSeq DEF Range
<1>4. touched \in SUBSET Entries
  BY <1>2, <1>3
<1>5. \A e : CountedBy(saved, e) => e \in touched
  BY DEF CountedBy, Range
<1>. HIDE DEF touched, w
<1>6. ASSUME NEW e \in touched
      PROVE  /\ w[e] = IF CountedBy(saved, e) THEN Updated(d[e], 1) ELSE d[e]
             /\ w[e] \in Int
  <2>1. d[e] \in Int
    BY <1>4
  <2>2. w[e] = Updated(d[e], IF CountedBy(saved, e) THEN 1 ELSE 0)
    BY <1>1
  <2>. QED
    BY <2>1, <2>2, UpdatedByCommit
<1>7. w \in [touched -> Int]
  BY <1>1, <1>6
<1>8. IsBatch(w) /\ DOMAIN w = touched
  BY <1>4, <1>7 DEF IsBatch
<1>. QED
  BY <1>5, <1>6, <1>8 DEF w

\* Closing all sessions leaves nothing of recent.
LEMMA NoneRecent == <<>> \in Seq(AllSessions) /\ Range(<<>>) = {} /\ IsInjective(<<>>)
BY DEF Range, IsInjective

LEMMA TypeInit == Init => TypeOK
<1>. SUFFICES ASSUME Init PROVE TypeOK
  OBVIOUS
<1>1. Types
  BY EmptyIsBatch, UserDictAssumption DEF Init, Types, Absent
<1>2. ASSUME NEW m \in Machines PROVE Ties(m)
  BY <1>2, NoneRecent DEF Init, Ties
<1>. QED
  BY <1>1, <1>2 DEF TypeOK

LEMMA TypeOfCounter == TypeOK /\ Event => events' \in 0..MaxEvents /\ faults' \in 0..MaxFaults
<1>. SUFFICES ASSUME TypeOK, Event PROVE events' \in 0..MaxEvents /\ faults' \in 0..MaxFaults
  OBVIOUS
<1>1. events \in 0..MaxEvents /\ faults \in 0..MaxFaults
  BY DEF TypeOK, Types
<1>2. events < MaxEvents /\ events' = events + 1 /\ faults' = faults
  BY DEF Event
<1>. QED
  BY <1>1, <1>2, UserDictAssumption

LEMMA TypeOfSession ==
  ASSUME TypeOK, NEW m \in Machines, NEW s \in Sessions[m],
         \/ Load(m, s)
         \/ Destroy(m, s)
         \/ OnBackSpace(m, s)
         \/ OnOtherKey(m, s)
  PROVE  TypeOK'
<1>. USE DEF TypeOK
<1>1. /\ s \in AllSessions /\ IsBatch(Empty)
      /\ Flushed(m) \in [Entries -> Int]
      /\ recent[m] \in Seq(AllSessions) /\ IsInjective(recent[m])
      /\ IsBatch(batch[m])
  BY EmptyIsBatch, FlushedType DEF AllSessions, Types, Ties
<1>2. CASE Load(m, s)
  <2>1. Types'
    BY <1>1, <1>2 DEF Load, Types, learning, syncVars, history, counters
  <2>2. ASSUME NEW n \in Machines PROVE Ties(n)'
    BY <1>1, <1>2 DEF Load, Types, Ties, learning, syncVars, history, counters
  <2>. QED
    BY <2>1, <2>2
<1>3. CASE Destroy(m, s)
  <2>1. /\ Without(recent[m], s) \in Seq(AllSessions)
        /\ IsInjective(Without(recent[m], s))
        /\ Range(Without(recent[m], s)) = Range(recent[m]) \ {s}
    BY <1>1, WithoutOne
  <2>2. Types'
    BY <1>1, <1>3, <2>1 DEF Destroy, CommitPending, Settle, Types, syncVars, counters
  <2>3. ASSUME NEW n \in Machines PROVE Ties(n)'
    BY <1>1, <1>3, <2>1 DEF Destroy, CommitPending, Settle, Types, Ties, syncVars, counters
  <2>. QED
    BY <2>2, <2>3
<1>4. CASE OnBackSpace(m, s)
  <2>1. Types'
    <3>1. CASE Unlearn(m)
      BY <1>1, <1>4, <3>1 DEF OnBackSpace, AbortTransaction, Unlearn, Types, syncVars, counters
    <3>2. CASE Drop(m)
      <4>1. \A e \in Entries : dropped[m][e] + learned[m][e] - kept[m][e] \in Int
        BY DEF Types
      <4>. QED
        BY <1>1, <1>4, <3>2, <4>1
           DEF OnBackSpace, AbortTransaction, Drop, Settle, Types, syncVars, counters
    <3>. QED
      BY <1>4, <3>1, <3>2 DEF OnBackSpace
  <2>2. ASSUME NEW n \in Machines PROVE Ties(n)'
    BY <1>1, <1>4 DEF OnBackSpace, AbortTransaction, Types, Ties, syncVars, counters
  <2>. QED
    BY <2>1, <2>2
<1>5. CASE OnOtherKey(m, s)
  <2>1. Types'
    BY <1>1, <1>5 DEF OnOtherKey, CommitPending, Settle, Types, syncVars, counters
  <2>2. ASSUME NEW n \in Machines PROVE Ties(n)'
    BY <1>1, <1>5 DEF OnOtherKey, CommitPending, Types, Ties, syncVars, counters
  <2>. QED
    BY <2>1, <2>2
<1>. QED
  BY <1>2, <1>3, <1>4, <1>5

LEMMA TypeOfMachine ==
  ASSUME TypeOK, NEW m \in Machines,
         \/ SecondsPass(m)
         \/ ServerKilled(m)
         \/ StartSync(m)
         \/ Backup(m)
         \/ DeployerKilled(m)
         \/ \E n \in Machines : Restore(m, n) \/ RestoreFails(m, n)
  PROVE  TypeOK'
<1>. USE DEF TypeOK
<1>1. /\ IsBatch(Empty)
      /\ Flushed(m) \in [Entries -> Int]
      /\ recent[m] \in Seq(AllSessions) /\ IsInjective(recent[m])
      /\ IsBatch(batch[m])
  BY EmptyIsBatch, FlushedType DEF Types, Ties
<1>6. CASE SecondsPass(m)
  <2>1. /\ Tail(recent[m]) \in Seq(AllSessions)
        /\ IsInjective(Tail(recent[m]))
        /\ Range(Tail(recent[m])) \subseteq Range(recent[m])
    <3>1. recent[m] # <<>>
      BY <1>6 DEF SecondsPass
    <3>2. /\ Tail(recent[m]) \in Seq(AllSessions)
          /\ Len(Tail(recent[m])) = Len(recent[m]) - 1
          /\ \A i \in 1..Len(Tail(recent[m])) : Tail(recent[m])[i] = recent[m][i + 1]
      BY <1>1, <3>1, HeadTailProperties
    <3>3. /\ DOMAIN recent[m] = 1..Len(recent[m]) /\ Len(recent[m]) \in Nat
          /\ DOMAIN Tail(recent[m]) = 1..(Len(recent[m]) - 1)
      BY <1>1, <3>2, LenProperties
    <3>4. \A i \in DOMAIN Tail(recent[m]) :
             i + 1 \in DOMAIN recent[m] /\ Tail(recent[m])[i] = recent[m][i + 1]
      BY <3>2, <3>3
    <3>5. \A i, j \in DOMAIN Tail(recent[m]) : i + 1 = j + 1 => i = j
      BY <3>3
    <3>. QED
      BY <1>1, <3>2, <3>4, <3>5 DEF IsInjective, Range
  <2>2. Types'
    BY <1>1, <1>6, <2>1 DEF SecondsPass, Types, learning, syncVars, history, counters
  <2>3. ASSUME NEW n \in Machines PROVE Ties(n)'
    BY <1>1, <1>6, <2>1 DEF SecondsPass, Types, Ties, learning, syncVars, history, counters
  <2>. QED
    BY <2>2, <2>3
<1>7. CASE ServerKilled(m)
  <2>1. Types'
    BY <1>1, <1>7, NoneRecent, UserDictAssumption
       DEF ServerKilled, Fault, AbortTransaction, Unlearn, Types, syncVars
  <2>2. ASSUME NEW n \in Machines PROVE Ties(n)'
    BY <1>1, <1>7, NoneRecent
       DEF ServerKilled, AbortTransaction, Types, Ties, syncVars
  <2>. QED
    BY <2>1, <2>2
<1>8. CASE StartSync(m)
  <2>1. Types'
    BY <1>1, <1>8, NoneRecent DEF StartSync, CommitPending, Settle, Types, counters
  <2>2. ASSUME NEW n \in Machines PROVE Ties(n)'
    BY <1>1, <1>8, NoneRecent DEF StartSync, CommitPending, Types, Ties, counters
  <2>. QED
    BY <2>1, <2>2
<1>9. CASE Backup(m)
  <2>1. Types'
    BY <1>9 DEF Backup, Types, learning, history, counters
  <2>2. ASSUME NEW n \in Machines PROVE Ties(n)'
    BY <1>9 DEF Backup, Types, Ties, learning
  <2>. QED
    BY <2>1, <2>2
<1>10. CASE DeployerKilled(m)
  <2>1. Types'
    BY <1>10, UserDictAssumption DEF DeployerKilled, Fault, Types, learning, history
  <2>2. ASSUME NEW n \in Machines PROVE Ties(n)'
    BY <1>10 DEF DeployerKilled, Types, Ties, learning
  <2>. QED
    BY <2>1, <2>2
<1>11. ASSUME NEW n \in Machines, Restore(m, n) PROVE TypeOK'
  <2>1. ASSUME NEW e \in Entries PROVE MergedValue(db[m][e], snapshot[n][e]) \in Int
    BY MergedIsLarger DEF Types
  <2>2. Types'
    BY <1>11, <2>1 DEF Restore, Types, history, counters
  <2>3. ASSUME NEW k \in Machines PROVE Ties(k)'
    BY <1>11 DEF Restore, Types, Ties
  <2>. QED
    BY <2>2, <2>3
<1>12. ASSUME NEW n \in Machines, RestoreFails(m, n) PROVE TypeOK'
  <2>1. Types'
    BY <1>12, UserDictAssumption DEF RestoreFails, Fault, Types, learning, history
  <2>2. ASSUME NEW k \in Machines PROVE Ties(k)'
    BY <1>12 DEF RestoreFails, Types, Ties, learning
  <2>. QED
    BY <2>1, <2>2
<1>. QED
  BY <1>6, <1>7, <1>8, <1>9, <1>10, <1>11, <1>12

LEMMA TypeOfEvent ==
  ASSUME TypeOK, NEW m \in Machines,
         \/ \E s \in Sessions[m], saved \in Commits : OnCommit(m, s, saved)
         \/ \E s \in Sessions[m], e \in Entries : OnDeleteEntry(m, s, e)
         \/ \E e \in Entries, v \in Counts : Import(m, e, v)
  PROVE  TypeOK'
<1>. USE DEF TypeOK
<1>1. /\ IsBatch(Empty)
      /\ Flushed(m) \in [Entries -> Int]
      /\ recent[m] \in Seq(AllSessions) /\ IsInjective(recent[m])
      /\ IsBatch(batch[m]) /\ db[m] \in [Entries -> Int]
      /\ learned[m] \in [Entries -> Nat]
  BY EmptyIsBatch, FlushedType DEF Types, Ties
<1>2. ASSUME NEW s \in Sessions[m], NEW saved \in Commits, OnCommit(m, s, saved)
      PROVE  TypeOK'
  <2> DEFINE w == Without(recent[m], s)
  <2>1. /\ w \in Seq(AllSessions) /\ IsInjective(w)
        /\ Range(w) = Range(recent[m]) \ {s}
    BY <1>1, WithoutOne
  <2>2. s \in AllSessions /\ s \in sessions[m]
    BY <1>2 DEF OnCommit, AllSessions
  <2>. HIDE DEF w
  <2>3. /\ Append(w, s) \in Seq(AllSessions) /\ IsInjective(Append(w, s))
        /\ Range(Append(w, s)) = Range(w) \cup {s}
    BY <2>1, <2>2, AppendOne
  <2>4. IsBatch(Memorize(Flushed(m), saved))
    BY <1>1, MemorizeProperties
  <2>5. Types'
    <3> DEFINE Counted(f) == [e \in Entries |-> f[e] + IF CountedBy(saved, e) THEN 1 ELSE 0]
    <3>1. \A f \in [Entries -> Nat] : Counted(f) \in [Entries -> Nat]
      OBVIOUS
    <3>2. learned' = [learned EXCEPT ![m] = Counted(@)] /\ total' = Counted(total)
      BY <1>2 DEF OnCommit
    <3>. HIDE DEF Counted
    <3>3. learned' \in [Machines -> [Entries -> Nat]] /\ total' \in [Entries -> Nat]
      BY <1>1, <3>1, <3>2 DEF Types
    <3>4. events' \in 0..MaxEvents /\ faults' \in 0..MaxFaults
      <4>1. Event
        BY <1>2 DEF OnCommit
      <4>. QED
        BY <4>1, TypeOfCounter
    <3>5. /\ db' \in [Machines -> [Entries -> Int]]
          /\ DOMAIN batch' = Machines /\ \A k \in Machines : IsBatch(batch'[k])
          /\ in_transaction_' \in [Machines -> BOOLEAN]
          /\ recent' \in [Machines -> Seq(AllSessions)]
          /\ kept' \in [Machines -> [Entries -> Nat]]
          /\ dropped' \in [Machines -> [Entries -> Int]]
      BY <1>1, <1>2, <2>3, <2>4 DEF OnCommit, NewTransaction, Settle, Types, w
    <3>. QED
      BY <1>2, <3>3, <3>4, <3>5 DEF OnCommit, Types, syncVars
  <2>6. ASSUME NEW n \in Machines PROVE Ties(n)'
    BY <1>2, <2>1, <2>2, <2>3 DEF OnCommit, NewTransaction, Types, Ties, syncVars, w
  <2>. QED
    BY <2>5, <2>6
<1>3. ASSUME NEW s \in Sessions[m], NEW e \in Entries, OnDeleteEntry(m, s, e)
      PROVE  TypeOK'
  <2>1. Updated(db[m][e], -1) \in Int
    BY <1>1, UpdatedByDeletion
  <2>2. [Flushed(m) EXCEPT ![e] = Updated(db[m][e], -1)] \in [Entries -> Int]
    BY <1>1, <2>1
  <2>3. Types'
    <3>4. /\ Event /\ WriteAll(m, [Flushed(m) EXCEPT ![e] = Updated(db[m][e], -1)])
          /\ learned' = [learned EXCEPT ![m] = [learned[m] EXCEPT ![e] = 1]]
          /\ kept' = [kept EXCEPT ![m] = [learned[m] EXCEPT ![e] = 1]]
          /\ dropped' = [dropped EXCEPT ![m][e] = 0]
          /\ UNCHANGED <<sessions, recent, syncing, left, snapshot, total>>
      BY <1>3 DEF OnDeleteEntry, syncVars
    <3>1. events' \in 0..MaxEvents /\ faults' \in 0..MaxFaults
      BY <3>4, TypeOfCounter
    <3>2. /\ db' \in [Machines -> [Entries -> Int]]
          /\ DOMAIN batch' = Machines /\ \A k \in Machines : IsBatch(batch'[k])
          /\ in_transaction_' \in [Machines -> BOOLEAN]
      BY <1>1, <2>2, <3>4 DEF WriteAll, Types
    <3>3. /\ learned' \in [Machines -> [Entries -> Nat]]
          /\ kept' \in [Machines -> [Entries -> Nat]]
          /\ dropped' \in [Machines -> [Entries -> Int]]
      <4> DEFINE since == [learned[m] EXCEPT ![e] = 1]
      <4>1. since \in [Entries -> Nat]
        BY <1>1
      <4>2. learned' = [learned EXCEPT ![m] = since] /\ kept' = [kept EXCEPT ![m] = since]
        BY <3>4
      <4>. HIDE DEF since
      <4>3. learned' \in [Machines -> [Entries -> Nat]] /\ kept' \in [Machines -> [Entries -> Nat]]
        BY <4>1, <4>2 DEF Types
      <4>4. dropped' \in [Machines -> [Entries -> Int]]
        BY <3>4 DEF Types
      <4>. QED
        BY <4>3, <4>4
    <3>. QED
      BY <3>4, <3>1, <3>2, <3>3 DEF Types
  <2>4. ASSUME NEW n \in Machines PROVE Ties(n)'
    BY <1>3 DEF OnDeleteEntry, WriteAll, Types, Ties, syncVars
  <2>. QED
    BY <2>3, <2>4
<1>4. ASSUME NEW e \in Entries, NEW v \in Counts, Import(m, e, v)
      PROVE  TypeOK'
  <2>1. v \in Int \ {0} /\ Abs(v) \in Nat
    BY UserDictAssumption, AbsNat
  <2>2. ImportedValue(Flushed(m)[e], v) \in Int
    BY <1>1, <2>1, ImportedIsLarger
  <2>3. Types'
    <3>1. events' \in 0..MaxEvents /\ faults' \in 0..MaxFaults
      <4>1. Event
        BY <1>4 DEF Import
      <4>. QED
        BY <4>1, TypeOfCounter
    <3>2. /\ learned' \in [Machines -> [Entries -> Nat]]
          /\ kept' \in [Machines -> [Entries -> Nat]]
          /\ total' \in [Entries -> Nat]
          /\ dropped' \in [Machines -> [Entries -> Int]]
      <4> DEFINE since == IF Flushed(m)[e] < 0 /\ v > 0 THEN [learned[m] EXCEPT ![e] = 1]
                                                      ELSE learned[m]
      <4>1. since \in [Entries -> Nat]
        BY <1>1
      <4>2. learned' = [learned EXCEPT ![m] = since] /\ kept' = [kept EXCEPT ![m] = since]
        BY <1>4 DEF Import
      <4>3. total' = [total EXCEPT ![e] = @ + Abs(v)]
        BY <1>4 DEF Import
      <4>. HIDE DEF since
      <4>4. learned' \in [Machines -> [Entries -> Nat]] /\ kept' \in [Machines -> [Entries -> Nat]]
        BY <4>1, <4>2 DEF Types
      <4>5. total \in [Entries -> Nat]
        BY DEF Types
      <4>6. total[e] \in Nat
        BY <4>5
      <4>7. total[e] + Abs(v) \in Nat
        BY <2>1, <4>6
      <4>8. dropped' \in [Machines -> [Entries -> Int]]
        <5>1. dropped' = [dropped EXCEPT ![m][e] = IF Flushed(m)[e] < 0 /\ v > 0 THEN 0 ELSE @]
          BY <1>4 DEF Import
        <5>. QED
          BY <5>1 DEF Types
      <4>. QED
        BY <4>3, <4>4, <4>5, <4>7, <4>8
    <3>3. /\ db' \in [Machines -> [Entries -> Int]]
          /\ DOMAIN batch' = Machines /\ \A k \in Machines : IsBatch(batch'[k])
          /\ in_transaction_' \in [Machines -> BOOLEAN]
          /\ sessions' \in [Machines -> SUBSET AllSessions]
          /\ recent' \in [Machines -> Seq(AllSessions)]
      BY <1>1, <1>4, <2>2, NoneRecent DEF Import, WriteAll, Types
    <3>. QED
      BY <1>4, <3>1, <3>2, <3>3 DEF Import, Types, syncVars
  <2>4. ASSUME NEW n \in Machines PROVE Ties(n)'
    BY <1>4, NoneRecent DEF Import, WriteAll, Types, Ties, syncVars
  <2>. QED
    BY <2>3, <2>4
<1>. QED
  BY <1>2, <1>3, <1>4

LEMMA TypeStep == TypeOK /\ [Next]_vars => TypeOK'
<1>. SUFFICES ASSUME TypeOK, [Next]_vars PROVE TypeOK'
  OBVIOUS
<1>1. CASE UNCHANGED vars
  BY <1>1 DEF vars, TypeOK, Types, Ties
<1>2. CASE Next
  <2>1. PICK m \in Machines :
          \/ \E s \in Sessions[m] :
               \/ Load(m, s) \/ Destroy(m, s) \/ OnBackSpace(m, s) \/ OnOtherKey(m, s)
               \/ \E saved \in Commits : OnCommit(m, s, saved)
               \/ \E e \in Entries : OnDeleteEntry(m, s, e)
          \/ SecondsPass(m) \/ ServerKilled(m) \/ StartSync(m) \/ Backup(m) \/ DeployerKilled(m)
          \/ \E e \in Entries, v \in Counts : Import(m, e, v)
          \/ \E n \in Machines : Restore(m, n) \/ RestoreFails(m, n)
    BY <1>2 DEF Next, SyncStep
  <2>. QED
    BY <2>1, TypeOfSession, TypeOfMachine, TypeOfEvent
<1>. QED
  BY <1>1, <1>2

\* Whatever the machines do: an open transaction belongs to a session, a
\* machine that synchronises has none, and only sessions that are loaded may
\* take a commit back (UserDictionary and UserDictManager, as modelled).
THEOREM TypeCorrect == Spec => []TypeOK
<1>. QED
  BY TypeInit, TypeStep, PTL DEF Spec

------------------------------------------------------------------------------
(* No commit is lost *)

\* What the database alone must have, should the batch be dropped.
KeptInv == \A m \in Machines, e \in Entries :
  Abs(db[m][e]) + dropped[m][e] >= kept[m][e]

CommitsInv == EveryCommitCounts /\ KeptInv

\* What Flushed is after a step, when no transaction is open then.
LEMMA FlushedAfter ==
  ASSUME Types', NEW m \in Machines, ~in_transaction_'[m]
  PROVE  Flushed(m)' = db'[m]
<1>1. db'[m] \in [Entries -> Int]
  BY DEF Types
<1>. QED
  BY <1>1 DEF Flushed

\* Flushed is about one machine only.
LEMMA FlushedElsewhere ==
  ASSUME NEW m, db'[m] = db[m], batch'[m] = batch[m], in_transaction_'[m] = in_transaction_[m]
  PROVE  Flushed(m)' = Flushed(m)
BY DEF Flushed

\* The numbers the two parts of CommitsInv compare.
LEMMA CommitsNumbers ==
  ASSUME TypeOK, NEW m \in Machines, NEW e \in Entries
  PROVE  /\ db[m][e] \in Int /\ Abs(db[m][e]) \in Nat
         /\ Flushed(m)[e] \in Int /\ Abs(Flushed(m)[e]) \in Nat
         /\ learned[m][e] \in Nat /\ kept[m][e] \in Nat /\ dropped[m][e] \in Int
<1>1. /\ db[m] \in [Entries -> Int] /\ Flushed(m) \in [Entries -> Int]
      /\ learned[m] \in [Entries -> Nat] /\ kept[m] \in [Entries -> Nat]
      /\ dropped[m] \in [Entries -> Int]
  BY FlushedType DEF TypeOK, Types
<1>. QED
  BY <1>1, AbsNat

\* All that is pending is written, and the database has enough then.
LEMMA CommitsOfWrite ==
  ASSUME TypeOK, TypeOK', CommitsInv, NEW m \in Machines,
         NEW d \in [Entries -> Int], NEW since \in [Entries -> Nat], NEW lost \in [Entries -> Int],
         WriteAll(m, d),
         learned' = [learned EXCEPT ![m] = since], kept' = [kept EXCEPT ![m] = since],
         dropped' = [dropped EXCEPT ![m] = lost],
         \A e \in Entries : Abs(d[e]) + lost[e] >= since[e]
  PROVE  CommitsInv'
<1>1. /\ db' = [db EXCEPT ![m] = d] /\ batch' = [batch EXCEPT ![m] = Empty]
      /\ in_transaction_' = [in_transaction_ EXCEPT ![m] = FALSE]
  BY DEF WriteAll
<1>2. /\ DOMAIN db = Machines /\ DOMAIN batch = Machines /\ DOMAIN in_transaction_ = Machines
      /\ DOMAIN learned = Machines /\ DOMAIN kept = Machines /\ DOMAIN dropped = Machines
  BY DEF TypeOK, Types
<1>3. Flushed(m)' = db'[m] /\ db'[m] = d
  <2>1. ~in_transaction_'[m] /\ db'[m] = d
    BY <1>1, <1>2
  <2>. QED
    BY <2>1, FlushedAfter DEF TypeOK
<1>4. learned'[m] = since /\ kept'[m] = since /\ dropped'[m] = lost
  BY <1>2
<1>5. ASSUME NEW n \in Machines, n # m
      PROVE  /\ Flushed(n)' = Flushed(n) /\ db'[n] = db[n]
             /\ learned'[n] = learned[n] /\ kept'[n] = kept[n] /\ dropped'[n] = dropped[n]
  BY <1>1, <1>2, <1>5, FlushedElsewhere
<1>6. EveryCommitCounts'
  BY <1>3, <1>4, <1>5 DEF CommitsInv, EveryCommitCounts
<1>7. KeptInv'
  BY <1>3, <1>4, <1>5 DEF CommitsInv, KeptInv
<1>. QED
  BY <1>6, <1>7 DEF CommitsInv

\* The batch is aborted.  A commit that its session takes back, or that is lost
\* with the server, is unlearned; one that another session aborts is dropped.
LEMMA CommitsOfAbort ==
  ASSUME TypeOK, TypeOK', CommitsInv, NEW m \in Machines,
         AbortTransaction(m), Unlearn(m) \/ Drop(m)
  PROVE  CommitsInv'
<1>1. /\ db' = db /\ batch' = [batch EXCEPT ![m] = Empty]
      /\ in_transaction_' = [in_transaction_ EXCEPT ![m] = FALSE]
  BY DEF AbortTransaction
<1>2. /\ DOMAIN db = Machines /\ DOMAIN batch = Machines /\ DOMAIN in_transaction_ = Machines
      /\ DOMAIN learned = Machines /\ DOMAIN kept = Machines /\ DOMAIN dropped = Machines
  BY DEF TypeOK, Types
<1>3. Flushed(m)' = db[m]
  <2>1. ~in_transaction_'[m]
    BY <1>1, <1>2
  <2>. QED
    BY <1>1, <2>1, FlushedAfter DEF TypeOK
<1>4. ASSUME NEW n \in Machines, n # m
      PROVE  /\ Flushed(n)' = Flushed(n)
             /\ learned'[n] = learned[n] /\ kept'[n] = kept[n] /\ dropped'[n] = dropped[n]
  BY <1>1, <1>2, <1>4, FlushedElsewhere DEF Unlearn, Drop, Settle
<1>5. ASSUME NEW e \in Entries
      PROVE  /\ Abs(db[m][e]) + dropped'[m][e] >= learned'[m][e]
             /\ Abs(db[m][e]) + dropped'[m][e] >= kept'[m][e]
  <2>1. Abs(db[m][e]) + dropped[m][e] >= kept[m][e]
    BY DEF CommitsInv, KeptInv
  <2>2. /\ Abs(db[m][e]) \in Nat /\ dropped[m][e] \in Int
        /\ learned[m][e] \in Nat /\ kept[m][e] \in Nat
    BY CommitsNumbers
  <2>3. CASE Unlearn(m)
    <3>1. learned'[m] = kept[m] /\ kept' = kept /\ dropped' = dropped
      BY <1>2, <2>3 DEF Unlearn
    <3>. QED
      BY <2>1, <3>1
  <2>4. CASE Drop(m)
    <3>1. /\ learned' = learned /\ kept'[m] = learned[m]
          /\ dropped'[m][e] = dropped[m][e] + learned[m][e] - kept[m][e]
      BY <1>2, <2>4 DEF Drop, Settle
    <3>. QED
      BY <2>1, <2>2, <3>1
  <2>. QED
    BY <2>3, <2>4
<1>6. EveryCommitCounts'
  BY <1>3, <1>4, <1>5 DEF CommitsInv, EveryCommitCounts
<1>7. KeptInv'
  BY <1>1, <1>4, <1>5 DEF CommitsInv, KeptInv
<1>. QED
  BY <1>6, <1>7 DEF CommitsInv

LEMMA CommitsOfMachine ==
  ASSUME TypeOK, TypeOK', CommitsInv, NEW m \in Machines,
         \/ \E s \in Sessions[m] :
              Load(m, s) \/ Destroy(m, s) \/ OnBackSpace(m, s) \/ OnOtherKey(m, s)
         \/ SecondsPass(m) \/ ServerKilled(m) \/ StartSync(m) \/ Backup(m) \/ DeployerKilled(m)
  PROVE  CommitsInv'
<1>1. CASE UNCHANGED <<db, batch, in_transaction_, learned, kept, dropped>>
  BY <1>1 DEF CommitsInv, EveryCommitCounts, KeptInv, Flushed
<1>2. CASE CommitPending(m) /\ Settle(m) /\ UNCHANGED <<learned, dropped>>
  <2>1. /\ db' = [db EXCEPT ![m] = Flushed(m)] /\ ~in_transaction_'[m]
        /\ kept' = [kept EXCEPT ![m] = learned[m]]
    BY <1>2 DEF CommitPending, Settle, TypeOK, Types
  <2>2. Flushed(m)' = Flushed(m)
    BY <2>1, FlushedAfter DEF TypeOK, Types
  <2>3. ASSUME NEW n \in Machines, n # m PROVE Flushed(n)' = Flushed(n)
    BY <1>2, <2>3 DEF CommitPending, Flushed, TypeOK, Types
  <2>4. EveryCommitCounts'
    BY <1>2, <2>2, <2>3 DEF CommitsInv, EveryCommitCounts
  <2>5. KeptInv'
    BY <1>2, <2>1 DEF CommitsInv, EveryCommitCounts, KeptInv, TypeOK, Types
  <2>. QED
    BY <2>4, <2>5 DEF CommitsInv
<1>3. CASE AbortTransaction(m) /\ (Unlearn(m) \/ Drop(m))
  BY <1>3, CommitsOfAbort
<1>. QED
  BY <1>1, <1>2, <1>3
     DEF Load, Destroy, OnBackSpace, OnOtherKey, SecondsPass, ServerKilled, StartSync, Backup,
         DeployerKilled, learning, history

LEMMA CommitsOfCommit ==
  ASSUME TypeOK, TypeOK', CommitsInv, NEW m \in Machines,
         NEW s \in Sessions[m], NEW saved \in Commits, OnCommit(m, s, saved)
  PROVE  CommitsInv'
<1> DEFINE d == Flushed(m)
           w == Memorize(d, saved)
<1>1. d \in [Entries -> Int]
  BY FlushedType DEF TypeOK
<1>2. /\ db' = [db EXCEPT ![m] = d] /\ batch' = [batch EXCEPT ![m] = w]
      /\ in_transaction_' = [in_transaction_ EXCEPT ![m] = TRUE]
      /\ kept' = [kept EXCEPT ![m] = learned[m]] /\ dropped' = dropped
  BY DEF OnCommit, NewTransaction, Settle
<1>3. \A n \in Machines \ {m} : learned'[n] = learned[n]
  BY DEF OnCommit
<1>4. \A e \in Entries :
        learned'[m][e] = learned[m][e] + IF CountedBy(saved, e) THEN 1 ELSE 0
  BY DEF OnCommit, TypeOK, Types
<1>5. KeptInv'
  BY <1>2 DEF CommitsInv, EveryCommitCounts, KeptInv, TypeOK, Types
<1>6. ASSUME NEW e \in Entries PROVE Abs(Flushed(m)'[e]) + dropped'[m][e] >= learned'[m][e]
  <2>1. Flushed(m)'[e] = IF e \in DOMAIN w THEN w[e] ELSE d[e]
    BY <1>2 DEF Flushed, TypeOK, Types
  <2>2. Abs(d[e]) + dropped[m][e] >= learned[m][e]
    BY DEF CommitsInv, EveryCommitCounts
  <2>3. /\ d[e] \in Int /\ Abs(d[e]) \in Nat
        /\ dropped[m][e] \in Int /\ learned[m][e] \in Nat
    BY CommitsNumbers
  <2>4. CASE CountedBy(saved, e)
    <3>1. Flushed(m)'[e] = Updated(d[e], 1)
      BY <1>1, <2>1, <2>4, MemorizeProperties
    <3>2. Abs(Flushed(m)'[e]) = Abs(d[e]) + 1
      BY <2>3, <3>1, UpdatedByCommit
    <3>3. learned'[m][e] = learned[m][e] + 1
      BY <1>4, <2>4
    <3>. QED
      BY <1>2, <2>2, <2>3, <3>2, <3>3
  <2>5. CASE ~CountedBy(saved, e)
    <3>1. Flushed(m)'[e] = d[e]
      BY <1>1, <2>1, <2>5, MemorizeProperties
    <3>2. learned'[m][e] = learned[m][e]
      BY <1>4, <2>3, <2>5
    <3>. QED
      BY <1>2, <2>2, <3>1, <3>2
  <2>. QED
    BY <2>4, <2>5
<1>7. ASSUME NEW n \in Machines, n # m PROVE Flushed(n)' = Flushed(n)
  BY <1>2, <1>7 DEF Flushed, TypeOK, Types
<1>8. ASSUME NEW n \in Machines, n # m, NEW e \in Entries
      PROVE  Abs(Flushed(n)'[e]) + dropped'[n][e] >= learned'[n][e]
  <2>1. learned'[n][e] = learned[n][e]
    BY <1>3, <1>8
  <2>. QED
    BY <1>2, <1>7, <1>8, <2>1 DEF CommitsInv, EveryCommitCounts
<1>. QED
  BY <1>5, <1>6, <1>8 DEF CommitsInv, EveryCommitCounts

LEMMA CommitsOfDelete ==
  ASSUME TypeOK, TypeOK', CommitsInv, NEW m \in Machines,
         NEW s \in Sessions[m], NEW x \in Entries, OnDeleteEntry(m, s, x)
  PROVE  CommitsInv'
<1> DEFINE u == Updated(db[m][x], -1)
           d == [Flushed(m) EXCEPT ![x] = u]
           since == [learned[m] EXCEPT ![x] = 1]
           lost == [dropped[m] EXCEPT ![x] = 0]
<1>1. u \in Int /\ Abs(u) \in Nat /\ Abs(u) >= 1
  BY CommitsNumbers, UpdatedByDeletion, AbsNat
<1>2. /\ Flushed(m) \in [Entries -> Int]
      /\ learned[m] \in [Entries -> Nat] /\ dropped[m] \in [Entries -> Int]
  BY FlushedType DEF TypeOK, Types
<1>3. /\ WriteAll(m, d) /\ learned' = [learned EXCEPT ![m] = since]
      /\ kept' = [kept EXCEPT ![m] = since]
      /\ dropped' = [dropped EXCEPT ![m] = lost]
  BY DEF OnDeleteEntry
<1>. HIDE DEF u
<1>4. d \in [Entries -> Int] /\ since \in [Entries -> Nat] /\ lost \in [Entries -> Int]
  BY <1>1, <1>2
<1>5. ASSUME NEW e \in Entries PROVE Abs(d[e]) + lost[e] >= since[e]
  <2>1. CASE e = x
    BY <1>1, <1>2, <2>1
  <2>2. CASE e # x
    <3>1. d[e] = Flushed(m)[e] /\ since[e] = learned[m][e] /\ lost[e] = dropped[m][e]
      BY <1>2, <2>2
    <3>. QED
      BY <3>1 DEF CommitsInv, EveryCommitCounts
  <2>. QED
    BY <2>1, <2>2
<1>. HIDE DEF d, since, lost
<1>. QED
  BY <1>3, <1>4, <1>5, CommitsOfWrite

LEMMA CommitsOfImport ==
  ASSUME TypeOK, TypeOK', CommitsInv, NEW m \in Machines,
         NEW x \in Entries, NEW v \in Counts, Import(m, x, v)
  PROVE  CommitsInv'
<1> DEFINE o == Flushed(m)[x]
           u == ImportedValue(o, v)
           revived == o < 0 /\ v > 0
           d == [Flushed(m) EXCEPT ![x] = u]
           since == IF revived THEN [learned[m] EXCEPT ![x] = 1] ELSE learned[m]
           lost == [dropped[m] EXCEPT ![x] = IF revived THEN 0 ELSE @]
<1>1. /\ o \in Int /\ v \in Int \ {0} /\ Abs(o) \in Nat
      /\ learned[m][x] \in Nat /\ dropped[m][x] \in Int
  BY CommitsNumbers, UserDictAssumption
<1>2. /\ Flushed(m) \in [Entries -> Int]
      /\ learned[m] \in [Entries -> Nat] /\ dropped[m] \in [Entries -> Int]
  BY FlushedType DEF TypeOK, Types
<1>3. /\ WriteAll(m, d) /\ learned' = [learned EXCEPT ![m] = since]
      /\ kept' = [kept EXCEPT ![m] = since]
      /\ dropped' = [dropped EXCEPT ![m] = lost]
  BY DEF Import
<1>4. /\ u \in Int /\ Abs(u) \in Nat
      /\ IF revived THEN Abs(u) >= 1 ELSE Abs(u) >= Abs(o)
  BY <1>1, ImportedIsLarger, AbsNat
<1>5. Abs(o) + dropped[m][x] >= learned[m][x]
  BY DEF CommitsInv, EveryCommitCounts
<1>. HIDE DEF o, u, revived
<1>6. d \in [Entries -> Int] /\ since \in [Entries -> Nat] /\ lost \in [Entries -> Int]
  BY <1>2, <1>4
<1>7. ASSUME NEW e \in Entries PROVE Abs(d[e]) + lost[e] >= since[e]
  <2>1. CASE e = x
    <3>1. /\ d[e] = u
          /\ since[e] = IF revived THEN 1 ELSE learned[m][x]
          /\ lost[e] = IF revived THEN 0 ELSE dropped[m][x]
      BY <1>2, <2>1
    <3>. QED
      BY <1>1, <1>4, <1>5, <3>1
  <2>2. CASE e # x
    <3>1. d[e] = Flushed(m)[e] /\ since[e] = learned[m][e] /\ lost[e] = dropped[m][e]
      BY <1>2, <2>2
    <3>. QED
      BY <3>1 DEF CommitsInv, EveryCommitCounts
  <2>. QED
    BY <2>1, <2>2
<1>. HIDE DEF d, since, lost
<1>. QED
  BY <1>3, <1>6, <1>7, CommitsOfWrite

LEMMA CommitsOfRestore ==
  ASSUME TypeOK, TypeOK', CommitsInv, NEW m \in Machines, NEW k \in Machines,
         Restore(m, k) \/ RestoreFails(m, k)
  PROVE  CommitsInv'
<1>1. CASE Restore(m, k)
  <2>1. ~in_transaction_[m]
    BY <1>1 DEF Restore, TypeOK, Types, Ties
  <2>2. /\ UNCHANGED <<batch, in_transaction_, learned, kept, dropped>>
        /\ db' = [db EXCEPT ![m] = [e \in Entries |-> MergedValue(@[e], snapshot[k][e])]]
    BY <1>1 DEF Restore, history
  <2>3. db \in [Machines -> [Entries -> Int]] /\ snapshot \in [Machines -> [Entries -> Int]]
    BY DEF TypeOK, Types
  <2>4. \A e \in Entries : Abs(db'[m][e]) >= Abs(db[m][e])
    BY <2>2, <2>3, MergedIsLarger
  <2>5. Flushed(m)' = db'[m] /\ Flushed(m) = db[m]
    BY <2>1, <2>2, FlushedAfter, FlushedType DEF TypeOK
  <2>6. \A n \in Machines \ {m} : Flushed(n)' = Flushed(n) /\ db'[n] = db[n]
    BY <2>2, <2>3 DEF Flushed
  <2>7. \A e \in Entries : Abs(db'[m][e]) \in Nat
    <3>1. db'[m] \in [Entries -> Int]
      BY DEF TypeOK, Types
    <3>. QED
      BY <3>1, AbsNat
  <2>8. ASSUME NEW n \in Machines, NEW e \in Entries
        PROVE  /\ Abs(Flushed(n)'[e]) + dropped'[n][e] >= learned'[n][e]
               /\ Abs(db'[n][e]) + dropped'[n][e] >= kept'[n][e]
    <3>1. /\ Abs(Flushed(n)[e]) + dropped[n][e] >= learned[n][e]
          /\ Abs(db[n][e]) + dropped[n][e] >= kept[n][e]
      BY DEF CommitsInv, EveryCommitCounts, KeptInv
    <3>2. /\ learned'[n][e] = learned[n][e] /\ kept'[n][e] = kept[n][e]
          /\ dropped'[n][e] = dropped[n][e]
          /\ learned[n][e] \in Nat /\ kept[n][e] \in Nat /\ dropped[n][e] \in Int
          /\ Abs(db[n][e]) \in Nat
      BY <2>2, CommitsNumbers
    <3>3. CASE n = m
      BY <2>4, <2>5, <2>7, <3>1, <3>2, <3>3
    <3>4. CASE n # m
      BY <2>6, <3>1, <3>2, <3>4
    <3>. QED
      BY <3>3, <3>4
  <2>. QED
    BY <2>8 DEF CommitsInv, EveryCommitCounts, KeptInv
<1>2. CASE RestoreFails(m, k)
  BY <1>2 DEF RestoreFails, learning, history, CommitsInv, EveryCommitCounts, KeptInv, Flushed
<1>. QED
  BY <1>1, <1>2

LEMMA CommitsInit == Init => CommitsInv
BY DEF Init, CommitsInv, EveryCommitCounts, KeptInv, Flushed, Absent, Abs

LEMMA CommitsStep == TypeOK /\ TypeOK' /\ CommitsInv /\ [Next]_vars => CommitsInv'
<1>. SUFFICES ASSUME TypeOK, TypeOK', CommitsInv, [Next]_vars PROVE CommitsInv'
  OBVIOUS
<1>1. CASE UNCHANGED vars
  BY <1>1 DEF vars, CommitsInv, EveryCommitCounts, KeptInv, Flushed
<1>2. CASE Next
  BY <1>2, CommitsOfMachine, CommitsOfCommit, CommitsOfDelete, CommitsOfImport, CommitsOfRestore
     DEF Next, SyncStep
<1>. QED
  BY <1>1, <1>2

\* A commit counts, in the database or in the batch that will be written to
\* it, until its session takes it back, it is lost with the server before it
\* was written, or its entry is deleted (Memory::OnCommit,
\* UserDictionary::NewTransaction, ~UserDictionary, UserDictManager::Restore);
\* only the commits in a batch that another session's BackSpace aborted
\* (UserDictionary::RevertRecentTransaction) may be missing.
THEOREM CommitsCount == Spec => []EveryCommitCounts
<1>1. CommitsInv => EveryCommitCounts
  BY DEF CommitsInv
<1>. QED
  BY <1>1, TypeInit, TypeStep, CommitsInit, CommitsStep, PTL DEF Spec

------------------------------------------------------------------------------
(* No commit is counted twice *)

\* A snapshot is merged into every database, the one it came from included.
CountsInv == \A m \in Machines, e \in Entries :
  /\ Abs(db[m][e]) <= total[e] + 1
  /\ Abs(snapshot[m][e]) <= total[e] + 1
  /\ Abs(Flushed(m)[e]) <= total[e] + 1

LEMMA CountsInit == Init => CountsInv
BY DEF Init, CountsInv, Flushed, Absent, Abs

LEMMA CountsOfMachine ==
  ASSUME TypeOK, TypeOK', CountsInv, NEW m \in Machines,
         \/ \E s \in Sessions[m] :
              Load(m, s) \/ Destroy(m, s) \/ OnBackSpace(m, s) \/ OnOtherKey(m, s)
         \/ SecondsPass(m) \/ ServerKilled(m) \/ StartSync(m) \/ Backup(m) \/ DeployerKilled(m)
  PROVE  CountsInv'
<1>1. CASE UNCHANGED <<db, batch, in_transaction_, total, snapshot>>
  BY <1>1 DEF CountsInv, Flushed
<1>2. CASE CommitPending(m) /\ UNCHANGED <<total, snapshot>>
  <2>1. db' = [db EXCEPT ![m] = Flushed(m)] /\ ~in_transaction_'[m]
    BY <1>2 DEF CommitPending, TypeOK, Types
  <2>2. Flushed(m)' = Flushed(m) /\ db'[m] = Flushed(m)
    BY <2>1, FlushedAfter DEF TypeOK, Types
  <2>3. ASSUME NEW n \in Machines, n # m PROVE Flushed(n)' = Flushed(n) /\ db'[n] = db[n]
    BY <1>2, <2>3 DEF CommitPending, Flushed, TypeOK, Types
  <2>. QED
    BY <1>2, <2>2, <2>3 DEF CountsInv
<1>3. CASE AbortTransaction(m) /\ UNCHANGED <<total, snapshot>>
  <2>1. db' = db /\ ~in_transaction_'[m]
    BY <1>3 DEF AbortTransaction, TypeOK, Types
  <2>2. Flushed(m)' = db[m]
    BY <2>1, FlushedAfter DEF TypeOK
  <2>3. ASSUME NEW n \in Machines, n # m PROVE Flushed(n)' = Flushed(n)
    BY <1>3, <2>3 DEF AbortTransaction, Flushed, TypeOK, Types
  <2>. QED
    BY <1>3, <2>1, <2>2, <2>3 DEF CountsInv
<1>4. CASE Backup(m)
  <2>1. snapshot' = [snapshot EXCEPT ![m] = db[m]]
        /\ UNCHANGED <<db, batch, in_transaction_, total>>
    BY <1>4 DEF Backup, learning, history
  <2>. QED
    BY <2>1 DEF CountsInv, Flushed, TypeOK, Types
<1>. QED
  BY <1>1, <1>2, <1>3, <1>4
     DEF Load, Destroy, OnBackSpace, OnOtherKey, SecondsPass, ServerKilled, StartSync,
         DeployerKilled, learning, syncVars, history

LEMMA CountsOfCommit ==
  ASSUME TypeOK, TypeOK', CountsInv, NEW m \in Machines,
         NEW s \in Sessions[m], NEW saved \in Commits, OnCommit(m, s, saved)
  PROVE  CountsInv'
<1> DEFINE d == Flushed(m)
           w == Memorize(d, saved)
<1>1. d \in [Entries -> Int]
  BY FlushedType DEF TypeOK
<1>2. /\ db' = [db EXCEPT ![m] = d] /\ batch' = [batch EXCEPT ![m] = w]
      /\ in_transaction_' = [in_transaction_ EXCEPT ![m] = TRUE]
      /\ snapshot' = snapshot
  BY DEF OnCommit, NewTransaction, syncVars
<1>3. \A e \in Entries : /\ total[e] \in Nat /\ total'[e] \in Nat
                         /\ total'[e] >= total[e]
                         /\ CountedBy(saved, e) => total'[e] = total[e] + 1
  <2>1. total' = [e \in Entries |-> total[e] + IF CountedBy(saved, e) THEN 1 ELSE 0]
        /\ total \in [Entries -> Nat]
    BY DEF OnCommit, TypeOK, Types
  <2>. QED
    BY <2>1
<1>4. \A n \in Machines, e \in Entries :
        /\ Abs(db[n][e]) \in Nat /\ Abs(snapshot[n][e]) \in Nat
        /\ Flushed(n)[e] \in Int /\ Abs(Flushed(n)[e]) \in Nat
  <2>. SUFFICES ASSUME NEW n \in Machines, NEW e \in Entries
                PROVE  /\ Abs(db[n][e]) \in Nat /\ Abs(snapshot[n][e]) \in Nat
                       /\ Flushed(n)[e] \in Int /\ Abs(Flushed(n)[e]) \in Nat
    OBVIOUS
  <2>1. db[n] \in [Entries -> Int] /\ snapshot[n] \in [Entries -> Int]
    BY DEF TypeOK, Types
  <2>2. Flushed(n) \in [Entries -> Int]
    BY FlushedType DEF TypeOK
  <2>3. db[n][e] \in Int /\ snapshot[n][e] \in Int /\ Flushed(n)[e] \in Int
    BY <2>1, <2>2
  <2>. QED
    BY <2>3, AbsNat
<1>5. ASSUME NEW e \in Entries PROVE Abs(Flushed(m)'[e]) <= total'[e] + 1
  <2>1. Flushed(m)'[e] = IF e \in DOMAIN w THEN w[e] ELSE d[e]
    BY <1>2 DEF Flushed, TypeOK, Types
  <2>2. \/ Flushed(m)'[e] = d[e]
        \/ Flushed(m)'[e] = Updated(d[e], 1) /\ CountedBy(saved, e)
    BY <1>1, <2>1, MemorizeProperties
  <2>3. /\ Abs(d[e]) <= total[e] + 1 /\ Abs(d[e]) \in Nat
        /\ Abs(Updated(d[e], 1)) = Abs(d[e]) + 1
    BY <1>4, UpdatedByCommit DEF CountsInv
  <2>4. /\ total[e] \in Nat /\ total'[e] \in Nat /\ total'[e] >= total[e]
        /\ CountedBy(saved, e) => total'[e] = total[e] + 1
    BY <1>3
  <2>. QED
    BY <2>2, <2>3, <2>4
<1>6. ASSUME NEW n \in Machines, n # m
      PROVE  Flushed(n)' = Flushed(n) /\ db'[n] = db[n]
  BY <1>2, <1>6 DEF Flushed, TypeOK, Types
<1>7. db'[m] = d
  BY <1>2 DEF TypeOK, Types
<1>8. ASSUME NEW n \in Machines, NEW e \in Entries
      PROVE  /\ Abs(db'[n][e]) <= total'[e] + 1
             /\ Abs(snapshot'[n][e]) <= total'[e] + 1
             /\ Abs(Flushed(n)'[e]) <= total'[e] + 1
  <2>1. /\ Abs(db[n][e]) <= total[e] + 1
        /\ Abs(snapshot[n][e]) <= total[e] + 1
        /\ Abs(Flushed(n)[e]) <= total[e] + 1
    BY DEF CountsInv
  <2>2. total[e] \in Nat /\ total'[e] \in Nat /\ total'[e] >= total[e]
    BY <1>3
  <2>3. CASE n = m
    BY <1>2, <1>4, <1>5, <1>7, <2>1, <2>2, <2>3
  <2>4. CASE n # m
    BY <1>2, <1>4, <1>6, <2>1, <2>2, <2>4
  <2>. QED
    BY <2>3, <2>4
<1>. QED
  BY <1>8 DEF CountsInv

LEMMA CountsOfDelete ==
  ASSUME TypeOK, TypeOK', CountsInv, NEW m \in Machines,
         NEW s \in Sessions[m], NEW x \in Entries, OnDeleteEntry(m, s, x)
  PROVE  CountsInv'
<1> DEFINE u == Updated(db[m][x], -1)
           d == [Flushed(m) EXCEPT ![x] = u]
<1>1. /\ db \in [Machines -> [Entries -> Int]] /\ total \in [Entries -> Nat]
      /\ DOMAIN batch = Machines /\ in_transaction_ \in [Machines -> BOOLEAN]
      /\ Flushed(m) \in [Entries -> Int]
  BY FlushedType DEF TypeOK, Types
<1>2. u \in Int /\ Abs(u) <= total[x] + 1
  <2>1. u \in Int /\ (Abs(u) = 1 \/ Abs(u) = Abs(db[m][x]))
    BY <1>1, UpdatedByDeletion
  <2>2. Abs(db[m][x]) <= total[x] + 1 /\ total[x] \in Nat
    BY <1>1 DEF CountsInv
  <2>. QED
    BY <2>1, <2>2
<1>3. /\ db' = [db EXCEPT ![m] = d] /\ batch' = [batch EXCEPT ![m] = Empty]
      /\ in_transaction_' = [in_transaction_ EXCEPT ![m] = FALSE]
      /\ UNCHANGED <<total, snapshot>>
  BY DEF OnDeleteEntry, WriteAll, syncVars
<1>. HIDE DEF u
<1>4. \A e \in Entries : Abs(d[e]) <= total[e] + 1
  BY <1>1, <1>2 DEF CountsInv
<1>. HIDE DEF d
<1>5. Flushed(m)' = db'[m] /\ db'[m] = d
  <2>1. ~in_transaction_'[m] /\ db'[m] = d
    BY <1>1, <1>3
  <2>. QED
    BY <2>1, FlushedAfter DEF TypeOK
<1>6. ASSUME NEW n \in Machines, n # m PROVE Flushed(n)' = Flushed(n) /\ db'[n] = db[n]
  BY <1>1, <1>3, <1>6, FlushedElsewhere
<1>. QED
  BY <1>3, <1>4, <1>5, <1>6 DEF CountsInv

LEMMA CountsOfImport ==
  ASSUME TypeOK, TypeOK', CountsInv, NEW m \in Machines,
         NEW x \in Entries, NEW v \in Counts, Import(m, x, v)
  PROVE  CountsInv'
<1> DEFINE d == Flushed(m)
           u == ImportedValue(d[x], v)
<1>1. d \in [Entries -> Int] /\ v \in Int \ {0} /\ Abs(v) \in Nat
  BY FlushedType, AbsNat, UserDictAssumption DEF TypeOK
<1>2. /\ db' = [db EXCEPT ![m] = [d EXCEPT ![x] = u]]
      /\ batch' = [batch EXCEPT ![m] = Empty]
      /\ in_transaction_' = [in_transaction_ EXCEPT ![m] = FALSE]
      /\ total' = [total EXCEPT ![x] = @ + Abs(v)]
      /\ snapshot' = snapshot
  BY DEF Import, WriteAll, syncVars
<1>3. /\ db \in [Machines -> [Entries -> Int]]
      /\ DOMAIN batch = Machines /\ \A k \in Machines : IsBatch(batch[k])
      /\ in_transaction_ \in [Machines -> BOOLEAN]
      /\ snapshot \in [Machines -> [Entries -> Int]]
      /\ total \in [Entries -> Nat]
  BY DEF TypeOK, Types
<1>4. u \in Int /\ Abs(u) \in Nat /\ Abs(d[x]) \in Nat /\ Abs(u) <= Abs(d[x]) + Abs(v)
  BY <1>1, ImportedIsLarger, AbsNat
<1>5. \A e \in Entries : /\ total[e] \in Nat /\ total'[e] \in Nat
                         /\ total'[e] = IF e = x THEN total[e] + Abs(v) ELSE total[e]
  BY <1>1, <1>2, <1>3
<1>. HIDE DEF u
<1>6. ASSUME NEW e \in Entries PROVE Abs(db'[m][e]) <= total'[e] + 1
  <2>1. db'[m][e] = IF e = x THEN u ELSE d[e]
    BY <1>1, <1>2, <1>3
  <2>2. Abs(d[e]) <= total[e] + 1
    BY DEF CountsInv
  <2>3. /\ total[e] \in Nat
        /\ total'[e] = IF e = x THEN total[e] + Abs(v) ELSE total[e]
    BY <1>5
  <2>4. CASE e = x
    BY <1>1, <1>4, <2>1, <2>2, <2>3, <2>4
  <2>5. CASE e # x
    BY <2>1, <2>2, <2>3, <2>5
  <2>. QED
    BY <2>4, <2>5
<1>7. Flushed(m)' = db'[m]
  <2>1. ~in_transaction_'[m]
    BY <1>2, <1>3
  <2>. QED
    BY <2>1, FlushedAfter DEF TypeOK
<1>8. \A n \in Machines \ {m} : Flushed(n)' = Flushed(n) /\ db'[n] = db[n]
  BY <1>2, <1>3 DEF Flushed
<1>9. \A n \in Machines, e \in Entries :
        Abs(db[n][e]) \in Nat /\ Abs(snapshot[n][e]) \in Nat /\ Abs(Flushed(n)[e]) \in Nat
  BY <1>3, FlushedType, AbsNat DEF TypeOK
<1>10. ASSUME NEW n \in Machines, NEW e \in Entries
       PROVE  /\ Abs(db'[n][e]) <= total'[e] + 1
              /\ Abs(snapshot'[n][e]) <= total'[e] + 1
              /\ Abs(Flushed(n)'[e]) <= total'[e] + 1
  <2>1. /\ Abs(db[n][e]) <= total[e] + 1
        /\ Abs(snapshot[n][e]) <= total[e] + 1
        /\ Abs(Flushed(n)[e]) <= total[e] + 1
    BY DEF CountsInv
  <2>2. total[e] \in Nat /\ total'[e] \in Nat /\ total'[e] >= total[e]
    <3>1. /\ total[e] \in Nat /\ total'[e] \in Nat
          /\ total'[e] = IF e = x THEN total[e] + Abs(v) ELSE total[e]
      BY <1>5
    <3>. QED
      BY <1>1, <3>1
  <2>3. Abs(snapshot'[n][e]) <= total'[e] + 1
    BY <1>2, <1>9, <2>1, <2>2
  <2>4. CASE n = m
    BY <1>6, <1>7, <2>3, <2>4
  <2>5. CASE n # m
    BY <1>8, <1>9, <2>1, <2>2, <2>3, <2>5
  <2>. QED
    BY <2>4, <2>5
<1>. QED
  BY <1>10 DEF CountsInv

LEMMA CountsOfRestore ==
  ASSUME TypeOK, TypeOK', CountsInv, NEW m \in Machines, NEW k \in Machines,
         Restore(m, k) \/ RestoreFails(m, k)
  PROVE  CountsInv'
<1>1. CASE Restore(m, k)
  <2>1. ~in_transaction_[m]
    BY <1>1 DEF Restore, TypeOK, Types, Ties
  <2>2. /\ UNCHANGED <<batch, in_transaction_, snapshot, total>>
        /\ db' = [db EXCEPT ![m] = [e \in Entries |-> MergedValue(@[e], snapshot[k][e])]]
    BY <1>1 DEF Restore, history
  <2>3. db \in [Machines -> [Entries -> Int]] /\ snapshot \in [Machines -> [Entries -> Int]]
    BY DEF TypeOK, Types
  <2>4. \A e \in Entries : db'[m][e] \in {db[m][e], snapshot[k][e]}
    BY <2>2, <2>3, MergedIsLarger
  <2>5. Flushed(m)' = db'[m]
    BY <2>1, <2>2, FlushedAfter DEF TypeOK
  <2>6. \A n \in Machines \ {m} : Flushed(n)' = Flushed(n) /\ db'[n] = db[n]
    BY <2>2, <2>3 DEF Flushed
  <2>7. \A e \in Entries : Abs(db'[m][e]) <= total[e] + 1
    BY <2>4 DEF CountsInv
  <2>. QED
    BY <2>2, <2>5, <2>6, <2>7 DEF CountsInv
<1>2. CASE RestoreFails(m, k)
  BY <1>2 DEF RestoreFails, learning, history, CountsInv, Flushed
<1>. QED
  BY <1>1, <1>2

LEMMA CountsStep == TypeOK /\ TypeOK' /\ CountsInv /\ [Next]_vars => CountsInv'
<1>. SUFFICES ASSUME TypeOK, TypeOK', CountsInv, [Next]_vars PROVE CountsInv'
  OBVIOUS
<1>1. CASE UNCHANGED vars
  BY <1>1 DEF vars, CountsInv, Flushed
<1>2. CASE Next
  BY <1>2, CountsOfMachine, CountsOfCommit, CountsOfDelete, CountsOfImport, CountsOfRestore
     DEF Next, SyncStep
<1>. QED
  BY <1>1, <1>2

\* However often the machines exchange their snapshots, no database counts an
\* entry more often than it was committed or imported, but for one that a
\* deletion leaves (UserDbMerger::Put takes the larger count, never the sum).
THEOREM NothingCountedTwice == Spec => []NothingLearnedTwice
<1>1. CountsInv => NothingLearnedTwice
  BY DEF CountsInv, NothingLearnedTwice
<1>. QED
  BY <1>1, TypeInit, TypeStep, CountsInit, CountsStep, PTL DEF Spec

=============================================================================
