---------------------------- MODULE SyllabifierProofs ----------------------------
(***************************************************************************)
(* The graph of syllables is that of the best paths, for codes of any       *)
(* length, with any delimiters, whatever the prism knows of them.           *)
(*                                                                         *)
(* The first loop is a search that visits each position with its best type; *)
(* the second keeps what lies on a tolerated path, from the end of the code  *)
(* to its start.  The reference is recursive: its facts are two fixpoint     *)
(* lemmas, one for each direction.                                          *)
(***************************************************************************)
EXTENDS Syllabifier, NaturalsInduction, WellFoundedInduction, TLAPS

-----------------------------------------------------------------------------
(* Numbers.  Induction is on a least counterexample.                        *)

LEMMA LeastNumber ==
  ASSUME NEW S \in SUBSET Nat, S # {}
  PROVE  \E x \in S : \A y \in S : x <= y
<1>1. PICK x \in S : \A y \in S : ~(<<y, x>> \in OpToRel(<, Nat))
  BY NatLessThanWellFounded, WFMin
<1>2. ASSUME NEW y \in S PROVE x <= y
  <2>1. ~(y < x)
    BY <1>1, <1>2 DEF OpToRel
  <2>. QED
    BY <2>1
<1>. QED
  BY <1>2

LEMMA MinIsLeast ==
  ASSUME NEW S \in SUBSET Nat, S # {}
  PROVE  Min(S) \in S /\ \A y \in S : Min(S) <= y
BY LeastNumber DEF Min

LEMMA MaxIsGreatest ==
  ASSUME NEW n \in Nat, NEW S \in SUBSET (0..n), S # {}
  PROVE  Max(S) \in S /\ \A y \in S : y <= Max(S)
<1> DEFINE T == {n - x : x \in S}
<1>1. T \in SUBSET Nat /\ T # {}
  <2>1. \A x \in S : x \in 0..n /\ n - x \in Nat
    OBVIOUS
  <2>2. PICK x \in S : TRUE
    OBVIOUS
  <2>3. n - x \in T
    OBVIOUS
  <2>. QED
    BY <2>1, <2>3
<1>2. PICK t \in T : \A y \in T : t <= y
  BY <1>1, LeastNumber
<1>3. PICK x \in S : t = n - x
  OBVIOUS
<1>4. ASSUME NEW y \in S PROVE y <= x
  <2>1. n - y \in T
    OBVIOUS
  <2>2. n - x <= n - y /\ x \in Nat /\ y \in Nat
    BY <1>2, <1>3, <2>1
  <2>. QED
    BY <2>2
<1>. QED
  BY <1>4 DEF Max

-----------------------------------------------------------------------------
(* The inductive invariant                                                 *)

\* The first loop.  The queue holds what the paths so far lead to, no position
\* before those visited; the next is visited with its best type; and where an edge of a
\* visited position leads has been visited or is waiting, with no worse type
\* than the path that leads there.
SearchInv ==
  /\ \A v \in queue :
       /\ v = Vertex(v.pos, v.type) /\ v.type \in 0 .. 2 /\ v.pos \in ReachedBy(v.type)
       /\ \A p \in DOMAIN vertices : p <= v.pos /\ (p = v.pos => vertices[p] <= v.type)
  /\ \A p \in DOMAIN vertices :
       /\ p \in 0 .. farthest /\ vertices[p] \in 0 .. 2 /\ p \in ReachedBy(vertices[p])
       /\ \A e \in EdgesFrom(p) :
            \/ /\ e.to \in DOMAIN vertices
               /\ vertices[e.to] <= vertices[p] \/ vertices[e.to] <= e.type
            \/ \E v \in queue : v.pos = e.to /\ (v.type <= vertices[p] \/ v.type <= e.type)
  /\ Vertex(0, 0) \in queue \/ (0 \in DOMAIN vertices /\ vertices[0] = 0)
  /\ farthest = 0 \/ farthest \in DOMAIN vertices
  /\ edges = {e \in AllEdges : e.from \in DOMAIN vertices}
  /\ weak = {}

\* What is ever visited, and what is to remain of it
Visitable == ReachedBy(kInvalidSpelling)
OnPath == ReachedBy(Tolerated) \cap LeadingTo(Goal, Tolerated)

\* The second loop has done its work past i and has touched nothing else but
\* the types of the vertices that it marked.
PruneInv ==
  /\ i \in -1 .. Goal - 1
  /\ DOMAIN vertices = {p \in Visitable : p <= i} \cup {p \in OnPath : p > i}
  /\ \A p \in DOMAIN vertices :
       vertices[p] = IF \E x \in weak : x.from = p THEN kAmbiguousSpelling ELSE BestType(p)
  /\ weak = {x \in OnPaths : \E y, z \in Leading :
               /\ y.from = z.from /\ y.from > i /\ y.to = x.from /\ x.to = z.to
               /\ z.type < kAbbreviation}

\* The edges past i are those of the paths; the others are still all there.
EdgesInv ==
  edges = {e \in OnPaths : e.from > i}
            \cup {e \in AllEdges : e.from \in Visitable /\ e.from <= i}

\* What each loop has established when the next begins
SyllabifierInv ==
  /\ input \in Inputs
  /\ phase \in {"search", "prune", "complete", "done"}
  /\ phase = "search" => SearchInv
  /\ phase # "search" => PruneInv
  /\ phase = "prune" => farthest = Goal /\ EdgesInv
  /\ phase = "complete" => i = -1 /\ farthest = Goal /\ edges = OnPaths
  /\ phase = "done" => /\ i = -1 /\ farthest \in {Goal, input.length}
                       /\ {e \in edges : e.type # kCompletion} = OnPaths
-----------------------------------------------------------------------------
(* Edges lead forward, and have one of the types of the prism.             *)

LEMMA EndPosFacts ==
  ASSUME input \in Inputs, NEW end \in 1 .. input.length
  PROVE  EndPos(end) \in end .. input.length
<1> DEFINE P == {p \in end .. input.length : p \notin input.delimiters}
<1>1. input.length \in Nat /\ input.length \notin input.delimiters
  BY InputsAssumption
<1>2. P \subseteq Nat /\ input.length \in P
  BY <1>1
<1>3. Min(P) \in P
  BY <1>2, MinIsLeast
<1>. QED
  BY <1>3 DEF EndPos

LEMMA EdgeFacts ==
  ASSUME input \in Inputs, NEW pos, NEW e \in EdgesFrom(pos)
  PROVE  /\ e = Edge(e.from, e.to, e.type)
         /\ e.from = pos /\ pos \in 0 .. input.length - 1
         /\ e.to \in pos + 1 .. input.length /\ e.type \in 0 .. 2
<1>1. PICK sp \in input.spellings :
        sp.from = pos /\ e = Edge(pos, EndPos(pos + sp.length), sp.type)
  BY DEF EdgesFrom
<1>2. /\ input.length \in Nat
      /\ pos \in 0 .. input.length - 1 /\ sp.length \in 1 .. input.length - pos
      /\ sp.type \in 0 .. 2
  BY <1>1, InputsAssumption DEF kNormalSpelling, kFuzzySpelling, kAbbreviation
<1>3. pos + sp.length \in 1 .. input.length
  BY <1>2
<1>4. EndPos(pos + sp.length) \in pos + sp.length .. input.length
  BY <1>3, EndPosFacts
<1>5. e.from = pos /\ e.to = EndPos(pos + sp.length) /\ e.type = sp.type
  BY <1>1 DEF Edge
<1>. QED
  BY <1>1, <1>2, <1>4, <1>5 DEF Edge

LEMMA AllEdgesFacts ==
  ASSUME input \in Inputs
  PROVE  /\ \A e \in AllEdges : /\ e.from \in 0 .. input.length - 1
                                /\ e.to \in e.from + 1 .. input.length
                                /\ e.type \in 0 .. 2
         /\ \A pos : EdgesFrom(pos) = {e \in AllEdges : e.from = pos}
<1>1. \A pos : \A e \in EdgesFrom(pos) :
        /\ e.from = pos /\ pos \in 0 .. input.length - 1
        /\ e.to \in pos + 1 .. input.length /\ e.type \in 0 .. 2
  BY EdgeFacts
<1>2. \A e : e \in AllEdges <=> \E pos \in 0 .. input.length - 1 : e \in EdgesFrom(pos)
  BY DEF AllEdges
<1>. QED
  BY <1>1, <1>2

\* The program does not change its input, nor what is defined by it.
LEMMA SameInput ==
  ASSUME input' = input
  PROVE  /\ \A pos : EdgesFrom(pos)' = EdgesFrom(pos)
         /\ AllEdges' = AllEdges
         /\ \A t : ReachedBy(t)' = ReachedBy(t)
         /\ \A goal, t : LeadingTo(goal, t)' = LeadingTo(goal, t)
         /\ Goal' = Goal /\ Tolerated' = Tolerated
         /\ \A pos : BestType(pos)' = BestType(pos)
         /\ Leading' = Leading /\ OnPaths' = OnPaths
         /\ Visitable' = Visitable /\ OnPath' = OnPath
<1>1. \A pos : EdgesFrom(pos)' = EdgesFrom(pos)
  BY DEF EdgesFrom, Disqualified, EndPos
<1>2. AllEdges' = AllEdges
  BY <1>1 DEF AllEdges
<1>3. \A t : ReachedBy(t)' = ReachedBy(t)
  BY <1>2 DEF ReachedBy
<1>4. \A goal, t : LeadingTo(goal, t)' = LeadingTo(goal, t)
  BY <1>2 DEF LeadingTo
<1>5. Goal' = Goal
  BY <1>3 DEF Goal
<1>6. \A pos : BestType(pos)' = BestType(pos)
  BY <1>3 DEF BestType
<1>7. Tolerated' = Tolerated
  BY <1>5, <1>6 DEF Tolerated
<1>8. Leading' = Leading
  BY <1>2, <1>3, <1>4, <1>5, <1>7 DEF Leading
<1>9. OnPaths' = OnPaths
  BY <1>3, <1>7, <1>8 DEF OnPaths
<1>10. Visitable' = Visitable /\ OnPath' = OnPath
  BY <1>3, <1>4, <1>5, <1>7 DEF Visitable, OnPath
<1>. QED
  BY <1>1, <1>2, <1>3, <1>4, <1>5, <1>6, <1>7, <1>8, <1>9, <1>10

-----------------------------------------------------------------------------
(* The recursive definitions of the reference.  That there is such a          *)
(* function is Tarski's argument: the intersection of all sets that are      *)
(* closed under the edges is one.  That it holds only where a path leads is    *)
(* by a least counterexample.                                                *)

LEMMA ReachedFixpoint ==
  ASSUME input \in Inputs, NEW t
  PROVE  \A p : p \in ReachedBy(t) <=>
           /\ p \in 0 .. input.length
           /\ p = 0 \/ \E e \in AllEdges : e.to = p /\ e.type <= t /\ e.from \in ReachedBy(t)
<1> DEFINE D == 0 .. input.length
           A == AllEdges
           closed(X) == 0 \in X /\ \A e \in A : e.from \in X /\ e.type <= t => e.to \in X
           S == {p \in D : \A X \in SUBSET D : closed(X) => p \in X}
           step(f) == [p \in D |-> p = 0 \/ \E e \in A : e.to = p /\ e.type <= t /\ f[e.from]]
           f == CHOOSE f : f = step(f)
           g == [p \in D |-> p \in S]
<1>1. \A e \in A : e.from \in D /\ e.to \in D /\ 0 \in D
  BY AllEdgesFacts, InputsAssumption
<1>. HIDE DEF A, D
<1>2. closed(S)
  BY <1>1, InputsAssumption DEF D
<1>3. ASSUME NEW p \in S, p # 0, \A e \in A : ~(e.to = p /\ e.type <= t /\ e.from \in S)
      PROVE  FALSE
  <2>1. closed(S \ {p})
    BY <1>2, <1>3
  <2>2. S \ {p} \in SUBSET D
    OBVIOUS
  <2>3. p \in S \ {p}
    BY <2>1, <2>2
  <2>. QED
    BY <2>3
<1>4. ASSUME NEW p \in D
      PROVE  g[p] = (p = 0 \/ \E e \in A : e.to = p /\ e.type <= t /\ g[e.from])
  <2>1. \A e \in A : g[e.from] = (e.from \in S)
    BY <1>1
  <2>2. p \in S <=> p = 0 \/ \E e \in A : e.to = p /\ e.type <= t /\ e.from \in S
    BY <1>2, <1>3
  <2>. HIDE DEF S
  <2>3. g[p] = (p \in S)
    OBVIOUS
  <2>4. (\E e \in A : e.to = p /\ e.type <= t /\ e.from \in S)
          <=> (\E e \in A : e.to = p /\ e.type <= t /\ g[e.from])
    <3>. HIDE DEF g
    <3>. QED
      BY <2>1
  <2>. HIDE DEF g
  <2>. QED
    BY <2>2, <2>3, <2>4
<1>5. g = step(g)
  <2>. HIDE DEF S
  <2>. QED
    BY <1>4
<1>6. f = step(f)
  <2>. HIDE DEF g, step
  <2>. QED
    BY <1>5
<1>7. \A p \in D : f[p] = (p = 0 \/ \E e \in A : e.to = p /\ e.type <= t /\ f[e.from])
  <2>. HIDE DEF f
  <2>. QED
    BY <1>6
<1>8. ReachedBy(t) = {p \in D : f[p]}
  BY DEF ReachedBy, D, A
<1>. HIDE DEF f
<1>9. \A e \in A : e.from \in ReachedBy(t) <=> f[e.from]
  BY <1>1, <1>8
<1>. QED
  BY <1>7, <1>8, <1>9 DEF D, A

LEMMA ReachedLeast ==
  ASSUME input \in Inputs, NEW t, NEW X, 0 \in X,
         \A e \in AllEdges : e.from \in X /\ e.type <= t => e.to \in X
  PROVE  ReachedBy(t) \subseteq X
<1> DEFINE S == ReachedBy(t) \ X
<1>. SUFFICES ASSUME S # {} PROVE FALSE
  OBVIOUS
<1>1. S \subseteq Nat
  BY ReachedFixpoint, InputsAssumption
<1>2. PICK p \in S : \A q \in S : p <= q
  BY <1>1, LeastNumber
<1>3. p # 0
  OBVIOUS
<1>4. PICK e \in AllEdges : e.to = p /\ e.type <= t /\ e.from \in ReachedBy(t)
  BY <1>3, ReachedFixpoint
<1>5. e.from \in S
  BY <1>4
<1>6. e.from < e.to
  BY AllEdgesFacts, InputsAssumption
<1>. QED
  BY <1>1, <1>2, <1>4, <1>5, <1>6

LEMMA LeadingFixpoint ==
  ASSUME input \in Inputs, NEW t, NEW goal \in 0 .. input.length
  PROVE  \A p : p \in LeadingTo(goal, t) <=>
           /\ p \in 0 .. goal
           /\ p = goal \/ \E e \in AllEdges : e.from = p /\ e.type <= t /\ e.to \in LeadingTo(goal, t)
<1> DEFINE D == 0 .. goal
           A == AllEdges
           closed(X) == goal \in X /\ \A e \in A : e.to \in X /\ e.to <= goal /\ e.type <= t => e.from \in X
           S == {p \in D : \A X \in SUBSET D : closed(X) => p \in X}
           step(f) == [p \in D |-> p = goal \/ \E e \in A : e.from = p /\ e.to <= goal /\ e.type <= t /\ f[e.to]]
           f == CHOOSE f : f = step(f)
           g == [p \in D |-> p \in S]
<1>1. goal \in D /\ \A e \in A : e.to <= goal => e.from \in D /\ e.to \in D
  BY AllEdgesFacts, InputsAssumption
<1>2. \A p \in D : p <= goal
  BY InputsAssumption
<1>. HIDE DEF A, D
<1>3. closed(S)
  BY <1>1
<1>4. ASSUME NEW p \in S, p # goal, \A e \in A : ~(e.from = p /\ e.to <= goal /\ e.type <= t /\ e.to \in S)
      PROVE  FALSE
  <2>1. closed(S \ {p})
    BY <1>3, <1>4
  <2>2. S \ {p} \in SUBSET D
    OBVIOUS
  <2>3. p \in S \ {p}
    BY <2>1, <2>2
  <2>. QED
    BY <2>3
<1>5. ASSUME NEW p \in D
      PROVE  g[p] = (p = goal \/ \E e \in A : e.from = p /\ e.to <= goal /\ e.type <= t /\ g[e.to])
  <2>1. \A e \in A : e.to <= goal => g[e.to] = (e.to \in S)
    BY <1>1
  <2>2. p \in S <=> p = goal \/ \E e \in A : e.from = p /\ e.to <= goal /\ e.type <= t /\ e.to \in S
    BY <1>3, <1>4
  <2>. HIDE DEF S
  <2>3. g[p] = (p \in S)
    OBVIOUS
  <2>4. (\E e \in A : e.from = p /\ e.to <= goal /\ e.type <= t /\ e.to \in S)
          <=> (\E e \in A : e.from = p /\ e.to <= goal /\ e.type <= t /\ g[e.to])
    <3>. HIDE DEF g
    <3>. QED
      BY <2>1
  <2>. HIDE DEF g
  <2>. QED
    BY <2>2, <2>3, <2>4
<1>6. g = step(g)
  <2>. HIDE DEF S
  <2>. QED
    BY <1>5
<1>7. f = step(f)
  <2>. HIDE DEF g, step
  <2>. QED
    BY <1>6
<1>8. \A p \in D : f[p] = (p = goal \/ \E e \in A : e.from = p /\ e.to <= goal /\ e.type <= t /\ f[e.to])
  <2>. HIDE DEF f
  <2>. QED
    BY <1>7
<1>9. LeadingTo(goal, t) = {p \in D : f[p]}
  BY DEF LeadingTo, D, A
<1>. HIDE DEF f
<1>10. \A e \in A : e.to \in LeadingTo(goal, t) <=> e.to <= goal /\ f[e.to]
  BY <1>1, <1>2, <1>9
<1>. QED
  BY <1>8, <1>9, <1>10 DEF D, A

-----------------------------------------------------------------------------
(* Paths and their types                                                   *)

LEMMA ReachedIsPosition ==
  ASSUME input \in Inputs, NEW t
  PROVE  ReachedBy(t) \subseteq 0 .. input.length /\ 0 \in ReachedBy(t)
BY ReachedFixpoint, InputsAssumption

LEMMA ReachedAlong ==
  ASSUME input \in Inputs, NEW t, NEW e \in AllEdges, e.from \in ReachedBy(t), e.type <= t
  PROVE  e.to \in ReachedBy(t)
<1>1. e.to \in 0 .. input.length
  BY AllEdgesFacts, InputsAssumption
<1>. QED
  BY <1>1, ReachedFixpoint

\* A path of no worse type than t is one of no worse type than u.
LEMMA ReachedGrows ==
  ASSUME input \in Inputs, NEW t \in Int, NEW u \in Int, t <= u
  PROVE  ReachedBy(t) \subseteq ReachedBy(u)
<1>1. \A e \in AllEdges : e.type \in Int
  BY AllEdgesFacts
<1>2. \A e \in AllEdges : e.from \in ReachedBy(u) /\ e.type <= t => e.to \in ReachedBy(u)
  BY <1>1, ReachedAlong
<1>. QED
  BY <1>2, ReachedLeast, ReachedIsPosition

\* An abbreviation is the worst of a path.
LEMMA VisitableByPrism ==
  ASSUME input \in Inputs
  PROVE  Visitable = ReachedBy(kAbbreviation)
<1>1. \A e \in AllEdges : e.type <= 2
  BY AllEdgesFacts
<1>2. Visitable \subseteq ReachedBy(2)
  BY <1>1, ReachedAlong, ReachedLeast, ReachedIsPosition DEF Visitable
<1>3. ReachedBy(2) \subseteq Visitable
  BY ReachedGrows DEF Visitable, kInvalidSpelling
<1>. QED
  BY <1>2, <1>3 DEF kAbbreviation

LEMMA BestTypeFacts ==
  ASSUME input \in Inputs, NEW p \in Visitable
  PROVE  /\ BestType(p) \in 0 .. 2
         /\ \A t \in Nat : p \in ReachedBy(t) <=> BestType(p) <= t
<1> DEFINE S == {t \in kNormalSpelling .. kInvalidSpelling : p \in ReachedBy(t)}
<1>1. S \subseteq Nat /\ 2 \in S
  BY VisitableByPrism DEF kNormalSpelling, kInvalidSpelling, kAbbreviation
<1>2. Min(S) \in S /\ \A t \in S : Min(S) <= t
  BY <1>1, MinIsLeast
<1>3. BestType(p) = Min(S)
  BY DEF BestType
<1>4. BestType(p) \in S /\ \A t \in S : BestType(p) <= t
  BY <1>2, <1>3
<1>5. BestType(p) \in 0 .. 2
  BY <1>1, <1>4
<1>6. ASSUME NEW t \in Nat, p \in ReachedBy(t) PROVE BestType(p) <= t
  <2>1. CASE t <= 5
    BY <1>4, <1>6, <2>1 DEF kNormalSpelling, kInvalidSpelling
  <2>. QED
    BY <1>5, <2>1
<1>7. ASSUME NEW t \in Nat, BestType(p) <= t PROVE p \in ReachedBy(t)
  <2>1. p \in ReachedBy(BestType(p))
    BY <1>4
  <2>. QED
    BY <1>5, <1>7, <2>1, ReachedGrows
<1>. QED
  BY <1>5, <1>6, <1>7

LEMMA GoalFacts ==
  ASSUME input \in Inputs
  PROVE  /\ Goal \in Visitable /\ Goal \in 0 .. input.length
         /\ \A p \in Visitable : p \in 0 .. Goal
         /\ Tolerated = (IF BestType(Goal) = 2 THEN 2 ELSE 1)
         /\ Goal \in OnPath
<1>1. Visitable \subseteq 0 .. input.length /\ 0 \in Visitable
  BY ReachedIsPosition DEF Visitable
<1>2. Goal = Max(Visitable) /\ input.length \in Nat
  BY InputsAssumption DEF Goal, Visitable
<1>3. Goal \in Visitable /\ \A p \in Visitable : p <= Goal
  BY <1>1, <1>2, MaxIsGreatest
<1>4. Goal \in 0 .. input.length /\ \A p \in Visitable : p \in 0 .. Goal
  BY <1>1, <1>2, <1>3
<1>5. BestType(Goal) \in 0 .. 2
  BY <1>3, BestTypeFacts
<1>6. LET m == Max({BestType(Goal), 1}) IN m \in {BestType(Goal), 1} /\ BestType(Goal) <= m /\ 1 <= m
  BY <1>5, MaxIsGreatest, {BestType(Goal), 1} \in SUBSET (0 .. 2), {BestType(Goal), 1} # {}
<1>7. Tolerated = (IF BestType(Goal) = 2 THEN 2 ELSE 1)
  BY <1>5, <1>6 DEF Tolerated, kFuzzySpelling
<1>8. Goal \in ReachedBy(Tolerated)
  BY <1>3, <1>5, <1>7, BestTypeFacts
<1>9. Goal \in LeadingTo(Goal, Tolerated)
  BY <1>4, LeadingFixpoint, <1>2
<1>. QED
  BY <1>3, <1>4, <1>7, <1>8, <1>9 DEF OnPath

-----------------------------------------------------------------------------
(* The first loop                                                          *)

LEMMA TopFacts ==
  ASSUME queue # {}, \A v \in queue : v.pos \in Nat /\ v.type \in Nat
  PROVE  Top \in queue /\ \A w \in queue : Before(Top, w)
<1> DEFINE P == {v.pos : v \in queue}
           Q(p) == {w \in queue : w.pos = p}
           T(p) == {w.type : w \in Q(p)}
<1>1. PICK v \in queue : \A w \in queue : v.pos <= w.pos
  <2>1. P # {} /\ P \subseteq Nat
    OBVIOUS
  <2>2. PICK p \in P : \A q \in P : p <= q
    BY <2>1, LeastNumber
  <2>. QED
    BY <2>2
<1>2. PICK u \in Q(v.pos) : \A w \in Q(v.pos) : u.type <= w.type
  <2>1. T(v.pos) # {} /\ T(v.pos) \subseteq Nat
    OBVIOUS
  <2>2. PICK t \in T(v.pos) : \A s \in T(v.pos) : t <= s
    BY <2>1, LeastNumber
  <2>. QED
    BY <2>2
<1>3. \A w \in queue : Before(u, w)
  <2> TAKE w \in queue
  <2>1. CASE w.pos = v.pos
    BY <1>2, <2>1 DEF Before
  <2>2. CASE w.pos # v.pos
    BY <1>1, <1>2, <2>2 DEF Before
  <2>. QED
    BY <2>1, <2>2
<1>. QED
  BY <1>2, <1>3 DEF Top

\* An end is queued once, with the worse of the type of the path so far and of
\* the best type of the edges that go there.
LEMMA EndVerticesFacts ==
  ASSUME NEW v, v.type \in 0 .. 2,
         NEW from, \A e \in from : e.type \in 0 .. 2
  PROVE  /\ \A w \in EndVertices(v, from) : \E e \in from :
              /\ w = Vertex(e.to, w.type) /\ w.pos = e.to /\ w.type \in 0 .. 2
              /\ v.type <= w.type /\ e.type <= w.type
         /\ \A e \in from : \E w \in EndVertices(v, from) :
              w.pos = e.to /\ (w.type <= v.type \/ w.type <= e.type)
<1> DEFINE types(end) == {e.type : e \in {e \in from : e.to = end}}
           w(end) == Vertex(end, Max({v.type, Min(types(end))}))
<1>1. EndVertices(v, from) = {w(end) : end \in {e.to : e \in from}}
  BY DEF EndVertices
<1>2. ASSUME NEW end \in {e.to : e \in from}
      PROVE  /\ w(end) = Vertex(end, w(end).type) /\ w(end).pos = end /\ w(end).type \in 0 .. 2
             /\ v.type <= w(end).type
             /\ \E e \in from : e.to = end /\ e.type <= w(end).type
             /\ \A e \in from : e.to = end => w(end).type <= v.type \/ w(end).type <= e.type
  <2> DEFINE m == Min(types(end))
             M == Max({v.type, m})
  <2>1. types(end) # {} /\ types(end) \subseteq 0 .. 2
    OBVIOUS
  <2>2. m \in types(end) /\ \A t \in types(end) : m <= t
    <3>1. types(end) \subseteq Nat
      BY <2>1
    <3>. QED
      BY <2>1, <3>1, MinIsLeast
  <2>3. M \in {v.type, m} /\ v.type <= M /\ m <= M
    <3>1. {v.type, m} \subseteq 0 .. 2 /\ {v.type, m} # {}
      BY <2>1, <2>2
    <3>. HIDE DEF m
    <3>. QED
      BY <3>1, MaxIsGreatest
  <2>4. w(end).type = M /\ w(end).pos = end /\ w(end) = Vertex(end, M)
    BY DEF Vertex
  <2>. HIDE DEF w, M, m
  <2>5. M \in 0 .. 2
    BY <2>1, <2>2, <2>3
  <2>6. \E e \in from : e.to = end /\ e.type <= M
    BY <2>2, <2>3
  <2>7. \A e \in from : e.to = end => M <= v.type \/ M <= e.type
    BY <2>2, <2>3
  <2>. QED
    BY <2>3, <2>4, <2>5, <2>6, <2>7
<1>. HIDE DEF w
<1>3. ASSUME NEW x \in EndVertices(v, from)
      PROVE  \E e \in from :
              /\ x = Vertex(e.to, x.type) /\ x.pos = e.to /\ x.type \in 0 .. 2
              /\ v.type <= x.type /\ e.type <= x.type
  BY <1>1, <1>2
<1>4. ASSUME NEW e \in from
      PROVE  \E x \in EndVertices(v, from) : x.pos = e.to /\ (x.type <= v.type \/ x.type <= e.type)
  <2>1. w(e.to) \in EndVertices(v, from)
    BY <1>1
  <2>. QED
    BY <1>2, <2>1
<1>. QED
  BY <1>3, <1>4

LEMMA InitSearch == Init => SyllabifierInv
<1>. SUFFICES ASSUME Init PROVE SyllabifierInv
  OBVIOUS
<1>1. DOMAIN vertices = {} /\ input \in Inputs
  BY DEF Init
<1>2. 0 \in ReachedBy(0)
  BY <1>1, ReachedIsPosition
<1>3. SearchInv
  BY <1>1, <1>2 DEF Init, SearchInv, Vertex, kNormalSpelling
<1>. QED
  BY <1>1, <1>3 DEF Init, SyllabifierInv

\* The position has been visited with a better type.
LEMMA VisitAgain ==
  ASSUME SyllabifierInv, Visit, Top.pos \in DOMAIN vertices
  PROVE  SearchInv'
<1>1. /\ SearchInv /\ input \in Inputs /\ input' = input
      /\ queue' = queue \ {Top} /\ UNCHANGED <<vertices, edges, farthest, weak>>
  BY DEF SyllabifierInv, Visit
<1>2. ASSUME NEW v \in queue PROVE v.pos \in Nat /\ v.type \in Nat
  <2>1. v.pos \in 0 .. input.length /\ v.type \in 0 .. 2
    BY <1>1, ReachedIsPosition DEF SearchInv
  <2>. QED
    BY <2>1
<1>3. Top \in queue /\ \A w \in queue : Before(Top, w)
  BY <1>2, TopFacts DEF Visit
<1>4. \A pos, t : EdgesFrom(pos)' = EdgesFrom(pos) /\ AllEdges' = AllEdges /\ ReachedBy(t)' = ReachedBy(t)
  BY <1>1, SameInput
<1>. DEFINE p == Top.pos
<1>5. vertices[p] <= Top.type /\ vertices[p] \in 0 .. 2 /\ Top.type \in 0 .. 2
  BY <1>1, <1>3 DEF SearchInv
<1>6. ASSUME NEW q \in DOMAIN vertices, NEW e \in EdgesFrom(q)
      PROVE  \/ /\ e.to \in DOMAIN vertices
                /\ vertices[e.to] <= vertices[q] \/ vertices[e.to] <= e.type
             \/ \E v \in queue' : v.pos = e.to /\ (v.type <= vertices[q] \/ v.type <= e.type)
  <2>1. CASE \E v \in queue' : v.pos = e.to /\ (v.type <= vertices[q] \/ v.type <= e.type)
    BY <2>1
  <2>2. CASE e.to = p /\ (Top.type <= vertices[q] \/ Top.type <= e.type)
    <3>1. e.type \in 0 .. 2 /\ vertices[q] \in 0 .. 2
      BY <1>1, EdgeFacts DEF SearchInv
    <3>. QED
      BY <1>5, <2>2, <3>1
  <2>. QED
    BY <1>1, <2>1, <2>2 DEF SearchInv
<1>7. Vertex(0, 0) \in queue' \/ (0 \in DOMAIN vertices /\ vertices[0] = 0)
  <2>1. CASE Top = Vertex(0, 0)
    BY <1>5, <2>1 DEF Vertex
  <2>. QED
    BY <1>1, <2>1 DEF SearchInv
<1>8. \A v \in queue' : v \in queue
  BY <1>1
<1>. QED
  BY <1>1, <1>4, <1>6, <1>7, <1>8 DEF SearchInv

LEMMA VisitFirst ==
  ASSUME SyllabifierInv, Visit, Top.pos \notin DOMAIN vertices
  PROVE  SearchInv'
<1> DEFINE p == Top.pos
           from == EdgesFrom(p)
           new == EndVertices(Top, from)
<1>1. /\ SearchInv /\ input \in Inputs /\ input' = input /\ weak' = weak
      /\ vertices' = [q \in DOMAIN vertices \cup {p} |-> IF q = p THEN Top.type ELSE vertices[q]]
      /\ edges' = edges \cup from
      /\ queue' = (queue \ {Top}) \cup new
      /\ farthest' = Max({farthest, p})
  BY DEF SyllabifierInv, Visit
<1>2. ASSUME NEW v \in queue PROVE v.pos \in 0 .. input.length /\ v.pos \in Nat /\ v.type \in Nat
  <2>1. v.pos \in 0 .. input.length /\ v.type \in 0 .. 2
    BY <1>1, ReachedIsPosition DEF SearchInv
  <2>. QED
    BY <2>1
<1>3. Top \in queue /\ \A w \in queue : Before(Top, w)
  BY <1>2, TopFacts DEF Visit
<1>4. \A pos, t : EdgesFrom(pos)' = EdgesFrom(pos) /\ AllEdges' = AllEdges /\ ReachedBy(t)' = ReachedBy(t)
  BY <1>1, SameInput
<1>5. /\ Top = Vertex(p, Top.type) /\ Top.type \in 0 .. 2 /\ p \in ReachedBy(Top.type)
      /\ \A q \in DOMAIN vertices : q < p
      /\ p \in 0 .. input.length
  <2>1. \A q \in DOMAIN vertices : q <= p /\ q # p /\ q \in 0 .. farthest
    BY <1>1, <1>3 DEF SearchInv
  <2>2. \A q \in DOMAIN vertices : q \in Int
    BY <2>1
  <2>. QED
    BY <1>1, <1>2, <1>3, <2>1, <2>2 DEF SearchInv
<1>6. \A e \in from : /\ e.from = p /\ e.to \in p + 1 .. input.length /\ e.type \in 0 .. 2
                      /\ e \in AllEdges
  BY <1>1, EdgeFacts, AllEdgesFacts
<1>7. /\ \A w \in new : \E e \in from :
            /\ w = Vertex(e.to, w.type) /\ w.pos = e.to /\ w.type \in 0 .. 2
            /\ Top.type <= w.type /\ e.type <= w.type
      /\ \A e \in from : \E w \in new : w.pos = e.to /\ (w.type <= Top.type \/ w.type <= e.type)
  BY <1>5, <1>6, EndVerticesFacts
<1>8. /\ DOMAIN vertices' = DOMAIN vertices \cup {p}
      /\ vertices'[p] = Top.type
      /\ \A q \in DOMAIN vertices : vertices'[q] = vertices[q]
  BY <1>1, <1>5
<1>. HIDE DEF new, from
<1>9. ASSUME NEW v \in queue'
      PROVE  /\ v = Vertex(v.pos, v.type) /\ v.type \in 0 .. 2 /\ v.pos \in ReachedBy(v.type)
             /\ \A q \in DOMAIN vertices' : q <= v.pos /\ (q = v.pos => vertices'[q] <= v.type)
  <2>1. CASE v \in queue
    <3>1. p <= v.pos /\ (p = v.pos => Top.type <= v.type)
      BY <1>2, <1>3, <2>1 DEF Before
    <3>. QED
      BY <1>1, <1>8, <2>1, <3>1 DEF SearchInv
  <2>2. CASE v \in new
    <3>1. PICK e \in from : /\ v = Vertex(e.to, v.type) /\ v.pos = e.to /\ v.type \in 0 .. 2
                            /\ Top.type <= v.type /\ e.type <= v.type
      BY <1>7, <2>2
    <3>2. v.pos = e.to /\ p < v.pos /\ p \in Int /\ v.pos \in Int
      BY <1>5, <1>6, <3>1
    <3>3. p \in ReachedBy(v.type)
      BY <1>1, <1>5, <3>1, ReachedGrows
    <3>4. v.pos \in ReachedBy(v.type)
      BY <1>1, <1>6, <3>1, <3>2, <3>3, ReachedAlong
    <3>5. \A q \in DOMAIN vertices : q \in Int
      BY <1>1 DEF SearchInv
    <3>6. \A q \in DOMAIN vertices' : q < v.pos
      BY <1>5, <1>8, <3>2, <3>5
    <3>7. \A q \in DOMAIN vertices' : q <= v.pos /\ q # v.pos
      BY <1>8, <3>2, <3>5, <3>6
    <3>. QED
      BY <3>1, <3>2, <3>4, <3>7
  <2>. QED
    BY <1>1, <2>1, <2>2
<1>10. farthest \in Nat /\ (farthest = 0 \/ farthest \in DOMAIN vertices)
  <2>1. farthest \in DOMAIN vertices => farthest \in Nat
    BY <1>1 DEF SearchInv
  <2>. QED
    BY <1>1, <2>1 DEF SearchInv
<1>11. farthest' = p
  <2>1. farthest <= p
    BY <1>5, <1>10
  <2>2. {farthest, p} \subseteq 0 .. p /\ {farthest, p} # {}
    BY <1>5, <1>10, <2>1
  <2>3. Max({farthest, p}) \in {farthest, p} /\ p <= Max({farthest, p})
    BY <1>5, <2>2, MaxIsGreatest
  <2>. QED
    BY <1>1, <1>5, <1>10, <2>1, <2>3
<1>12. ASSUME NEW q \in DOMAIN vertices'
       PROVE  /\ q \in 0 .. farthest' /\ vertices'[q] \in 0 .. 2 /\ q \in ReachedBy(vertices'[q])
              /\ \A e \in EdgesFrom(q) :
                   \/ /\ e.to \in DOMAIN vertices'
                      /\ vertices'[e.to] <= vertices'[q] \/ vertices'[e.to] <= e.type
                   \/ \E v \in queue' : v.pos = e.to /\ (v.type <= vertices'[q] \/ v.type <= e.type)
  <2>1. CASE q = p
    <3>1. vertices'[q] = Top.type /\ EdgesFrom(q) = from
      BY <1>8, <2>1 DEF from
    <3>2. q \in 0 .. farthest' /\ vertices'[q] \in 0 .. 2 /\ q \in ReachedBy(vertices'[q])
      BY <1>5, <1>11, <2>1, <3>1
    <3>3. \A e \in EdgesFrom(q) :
            \E v \in queue' : v.pos = e.to /\ (v.type <= vertices'[q] \/ v.type <= e.type)
      BY <1>1, <1>7, <3>1
    <3>. QED
      BY <3>2, <3>3
  <2>2. CASE q # p
    <3>1. q \in DOMAIN vertices /\ vertices'[q] = vertices[q]
      BY <1>8, <2>2
    <3>2. q \in 0 .. farthest' /\ vertices'[q] \in 0 .. 2 /\ q \in ReachedBy(vertices'[q])
      <4>1. q \in 0 .. farthest /\ vertices[q] \in 0 .. 2 /\ q \in ReachedBy(vertices[q])
        BY <1>1, <3>1 DEF SearchInv
      <4>2. q < p /\ p \in Int
        BY <1>5, <3>1
      <4>3. q \in 0 .. p
        BY <4>1, <4>2
      <4>. QED
        BY <1>11, <3>1, <4>1, <4>3
    <3>3. ASSUME NEW e \in EdgesFrom(q)
          PROVE \/ /\ e.to \in DOMAIN vertices'
                   /\ vertices'[e.to] <= vertices'[q] \/ vertices'[e.to] <= e.type
                \/ \E v \in queue' : v.pos = e.to /\ (v.type <= vertices'[q] \/ v.type <= e.type)
      <4>1. CASE e.to \in DOMAIN vertices /\ (vertices[e.to] <= vertices[q] \/ vertices[e.to] <= e.type)
        BY <1>8, <3>1, <4>1
      <4>2. CASE \E v \in queue : v.pos = e.to /\ (v.type <= vertices[q] \/ v.type <= e.type)
        <5>1. PICK v \in queue : v.pos = e.to /\ (v.type <= vertices[q] \/ v.type <= e.type)
          BY <4>2
        <5>2. CASE v = Top
          BY <1>8, <3>1, <5>1, <5>2
        <5>3. CASE v # Top
          BY <1>1, <3>1, <5>1, <5>3
        <5>. QED
          BY <5>2, <5>3
      <4>. QED
        BY <1>1, <3>1, <4>1, <4>2 DEF SearchInv
    <3>. QED
      BY <3>2, <3>3
  <2>. QED
    BY <2>1, <2>2
<1>13. Vertex(0, 0) \in queue' \/ (0 \in DOMAIN vertices' /\ vertices'[0] = 0)
  <2>1. CASE Top = Vertex(0, 0)
    <3>1. p = 0 /\ Top.type = 0
      BY <2>1 DEF Vertex
    <3>. QED
      BY <1>8, <3>1
  <2>. QED
    BY <1>1, <1>8, <2>1 DEF SearchInv
<1>14. edges' = {e \in AllEdges : e.from \in DOMAIN vertices'}
  <2>1. from = {e \in AllEdges : e.from = p}
    BY <1>1, AllEdgesFacts DEF from
  <2>. QED
    BY <1>1, <1>8, <2>1 DEF SearchInv
<1>15. farthest' = 0 \/ farthest' \in DOMAIN vertices'
  BY <1>8, <1>11
<1>. HIDE DEF p
<1>16. weak' = {}
  BY <1>1 DEF SearchInv
<1>. QED
  BY <1>4, <1>9, <1>12, <1>13, <1>14, <1>15, <1>16 DEF SearchInv

\* When nothing is left to visit, all that paths lead to has been visited, with
\* the best type of a path.
LEMMA SearchIsDone ==
  ASSUME input \in Inputs, SearchInv, queue = {}
  PROVE  /\ DOMAIN vertices = Visitable
         /\ \A p \in Visitable : vertices[p] = BestType(p)
         /\ edges = {e \in AllEdges : e.from \in Visitable}
         /\ farthest = Goal
<1>1. /\ 0 \in DOMAIN vertices /\ vertices[0] = 0
      /\ \A p \in DOMAIN vertices :
           /\ p \in 0 .. farthest /\ vertices[p] \in 0 .. 2 /\ p \in ReachedBy(vertices[p])
           /\ \A e \in EdgesFrom(p) :
                /\ e.to \in DOMAIN vertices
                /\ vertices[e.to] <= vertices[p] \/ vertices[e.to] <= e.type
  BY DEF SearchInv
<1>2. ASSUME NEW t \in Nat PROVE ReachedBy(t) \subseteq {p \in DOMAIN vertices : vertices[p] <= t}
  <2> DEFINE X == {p \in DOMAIN vertices : vertices[p] <= t}
  <2>1. 0 \in X
    BY <1>1
  <2>2. ASSUME NEW e \in AllEdges, e.from \in X, e.type <= t PROVE e.to \in X
    <3>1. e \in EdgesFrom(e.from) /\ e.type \in 0 .. 2
      BY AllEdgesFacts
    <3>2. e.to \in DOMAIN vertices /\ (vertices[e.to] <= vertices[e.from] \/ vertices[e.to] <= e.type)
      BY <1>1, <2>2, <3>1
    <3>3. vertices[e.to] \in 0 .. 2 /\ vertices[e.from] \in 0 .. 2 /\ vertices[e.from] <= t
      BY <1>1, <2>2, <3>2
    <3>4. vertices[e.to] <= t
      BY <2>2, <3>1, <3>2, <3>3
    <3>. QED
      BY <3>2, <3>4
  <2>. QED
    BY <2>1, <2>2, ReachedLeast
<1>3. ASSUME NEW p \in DOMAIN vertices PROVE p \in Visitable
  <2>1. vertices[p] \in 0 .. 2 /\ p \in ReachedBy(vertices[p])
    BY <1>1
  <2>. QED
    BY <2>1, ReachedGrows DEF Visitable, kInvalidSpelling
<1>4. DOMAIN vertices = Visitable
  BY <1>2, <1>3 DEF Visitable, kInvalidSpelling
<1>5. ASSUME NEW p \in Visitable PROVE vertices[p] = BestType(p)
  <2>1. vertices[p] \in 0 .. 2 /\ BestType(p) \in 0 .. 2 /\ p \in ReachedBy(vertices[p])
    BY <1>1, <1>4, BestTypeFacts
  <2>2. BestType(p) <= vertices[p]
    BY <2>1, BestTypeFacts
  <2>3. p \in ReachedBy(BestType(p))
    BY <2>1, BestTypeFacts
  <2>4. vertices[p] <= BestType(p)
    BY <1>2, <2>1, <2>3
  <2>. QED
    BY <2>1, <2>2, <2>4
<1>6. farthest = Goal
  <2>1. farthest \in Visitable
    BY <1>1, <1>4 DEF SearchInv
  <2>2. Goal \in 0 .. farthest
    BY <1>1, <1>4, GoalFacts
  <2>3. farthest \in 0 .. Goal
    BY <2>1, GoalFacts
  <2>. QED
    BY <2>2, <2>3
<1>7. edges = {e \in AllEdges : e.from \in Visitable}
  BY <1>4 DEF SearchInv
<1>. QED
  BY <1>4, <1>5, <1>6, <1>7

-----------------------------------------------------------------------------
(* The second loop                                                         *)

LEMMA OnPathsFacts ==
  ASSUME input \in Inputs
  PROVE  /\ OnPath \subseteq Visitable /\ Goal \in OnPath
         /\ \A e : e \in Leading <=> /\ e \in AllEdges /\ e.type <= Tolerated
                                     /\ e.from \in Visitable
                                     /\ e.to \in LeadingTo(Goal, Tolerated)
         /\ \A e \in Leading : e.from \in 0 .. e.to - 1 /\ e.to \in 0 .. Goal
         /\ \A e : e \in OnPaths <=> e \in Leading /\ e.from \in ReachedBy(Tolerated)
         /\ \A e : e \in OnPaths <=> e \in AllEdges /\ e.type <= Tolerated /\ e.from \in OnPath /\ e.to \in OnPath
         /\ \A p \in ReachedBy(Tolerated) : p \in OnPath <=> p = Goal \/ \E e \in OnPaths : e.from = p
<1>1. Tolerated \in {1, 2} /\ Goal \in OnPath /\ Goal \in 0 .. input.length
  BY GoalFacts
<1>2. ReachedBy(Tolerated) \subseteq Visitable
  BY <1>1, ReachedGrows DEF Visitable, kInvalidSpelling
<1>3. \A e : e \in Leading <=> /\ e \in AllEdges /\ e.type <= Tolerated
                               /\ e.from \in Visitable
                               /\ e.to \in LeadingTo(Goal, Tolerated)
  BY DEF Leading, Visitable
<1>4. LeadingTo(Goal, Tolerated) \subseteq 0 .. Goal
  BY <1>1, LeadingFixpoint
<1>5. ASSUME NEW e \in Leading PROVE e.from \in 0 .. e.to - 1 /\ e.to \in 0 .. Goal
  <2>1. e.from \in 0 .. input.length - 1 /\ e.to \in e.from + 1 .. input.length
    BY <1>3, AllEdgesFacts
  <2>2. e.to \in 0 .. Goal /\ input.length \in Nat
    BY <1>3, <1>4, InputsAssumption
  <2>. QED
    BY <2>1, <2>2
<1>6. \A e : e \in OnPaths <=> e \in Leading /\ e.from \in ReachedBy(Tolerated)
  BY DEF OnPaths
<1>7. ASSUME NEW e \in OnPaths PROVE e.from \in OnPath /\ e.to \in OnPath
  <2>1. e \in AllEdges /\ e.type <= Tolerated /\ e.from \in ReachedBy(Tolerated) /\ e.to \in LeadingTo(Goal, Tolerated)
    BY <1>3, <1>6
  <2>2. e.to \in ReachedBy(Tolerated)
    BY <2>1, ReachedAlong
  <2>3. e.from \in 0 .. Goal
    BY <1>1, <1>5, <1>6
  <2>4. e.from \in LeadingTo(Goal, Tolerated)
    BY <1>1, <2>1, <2>3, LeadingFixpoint
  <2>. QED
    BY <2>1, <2>2, <2>4 DEF OnPath
<1>8. ASSUME NEW e \in AllEdges, e.type <= Tolerated, e.from \in OnPath, e.to \in OnPath PROVE e \in OnPaths
  BY <1>2, <1>3, <1>6, <1>8 DEF OnPath
<1>9. ASSUME NEW p \in ReachedBy(Tolerated), p \in OnPath, p # Goal PROVE \E e \in OnPaths : e.from = p
  <2>1. PICK e \in AllEdges : e.from = p /\ e.type <= Tolerated /\ e.to \in LeadingTo(Goal, Tolerated)
    BY <1>1, <1>9, LeadingFixpoint DEF OnPath
  <2>. QED
    BY <1>2, <1>3, <1>6, <2>1
<1>10. \A e : e \in OnPaths <=> e \in AllEdges /\ e.type <= Tolerated /\ e.from \in OnPath /\ e.to \in OnPath
  BY <1>3, <1>6, <1>7, <1>8
<1>11. \A p \in ReachedBy(Tolerated) : p \in OnPath <=> p = Goal \/ \E e \in OnPaths : e.from = p
  BY <1>1, <1>7, <1>9
<1>12. OnPath \subseteq Visitable
  BY <1>2 DEF OnPath
<1>. QED
  BY <1>1, <1>3, <1>5, <1>6, <1>10, <1>11, <1>12

LEMMA PruneStarts ==
  ASSUME SyllabifierInv, Searched
  PROVE  PruneInv' /\ EdgesInv' /\ farthest' = Goal'
<1>1. /\ input \in Inputs /\ SearchInv /\ queue = {} /\ input' = input /\ i' = farthest - 1
      /\ UNCHANGED <<vertices, edges, weak, farthest>>
  BY DEF SyllabifierInv, Searched
<1>2. /\ DOMAIN vertices = Visitable
      /\ \A p \in Visitable : vertices[p] = BestType(p)
      /\ edges = {e \in AllEdges : e.from \in Visitable}
      /\ farthest = Goal /\ weak = {}
  BY <1>1, SearchIsDone DEF SearchInv
<1>3. Goal \in 0 .. input.length /\ Goal \in Visitable /\ \A p \in Visitable : p \in 0 .. Goal
  BY <1>1, GoalFacts
<1>4. /\ OnPath \subseteq Visitable /\ Goal \in OnPath
      /\ \A e \in Leading : e.from \in 0 .. e.to - 1 /\ e.to \in 0 .. Goal
      /\ \A e \in OnPaths : e \in Leading
  BY <1>1, OnPathsFacts
<1>5. \A e \in Leading : ~(e.from > Goal - 1)
  BY <1>3, <1>4
<1>6. \A p \in Visitable : p <= Goal - 1 \/ p = Goal
  BY <1>3
<1>7. Visitable = {p \in Visitable : p <= Goal - 1} \cup {p \in OnPath : p > Goal - 1}
  <2>1. Goal > Goal - 1
    BY <1>3
  <2>2. \A p : p \in Visitable <=>
          (p \in Visitable /\ p <= Goal - 1) \/ (p \in OnPath /\ p > Goal - 1)
    BY <1>4, <1>6, <2>1
  <2>. QED
    BY <2>2
<1>8. i' \in -1 .. Goal - 1 /\ i' = Goal - 1
  BY <1>1, <1>2, <1>3
<1>9. PruneInv'
  <2>1. {x \in OnPaths : \E y, z \in Leading :
               /\ y.from = z.from /\ y.from > Goal - 1 /\ y.to = x.from /\ x.to = z.to
               /\ z.type < kAbbreviation} = {}
    BY <1>5
  <2>. QED
    BY <1>1, <1>2, <1>7, <1>8, <2>1, SameInput DEF PruneInv
<1>10. EdgesInv'
  <2>1. ASSUME NEW e \in edges PROVE e.from <= Goal - 1
    <3>1. e.from \in Visitable /\ e.type <= kInvalidSpelling /\ e \in AllEdges
      BY <1>1, <1>2, AllEdgesFacts DEF kInvalidSpelling
    <3>2. e.to \in Visitable
      BY <1>1, <3>1, ReachedAlong DEF Visitable
    <3>3. e.to \in 0 .. Goal /\ e.from \in 0 .. Goal /\ e.from < e.to
      BY <1>1, <1>3, <3>1, <3>2, AllEdgesFacts, InputsAssumption
    <3>. QED
      BY <1>3, <3>3
  <2>2. {e \in OnPaths : e.from > Goal - 1} = {}
    BY <1>4, <1>5
  <2>3. edges = {e \in AllEdges : e.from \in Visitable /\ e.from <= Goal - 1}
    BY <1>2, <2>1
  <2>. QED
    BY <1>1, <1>8, <2>2, <2>3, SameInput DEF EdgesInv
<1>. QED
  BY <1>1, <1>2, <1>9, <1>10, SameInput

\* The types that are tolerated do not change while vertices are marked: no
\* syllable begins where the farthest path ends.
LEMMA LastType ==
  ASSUME input \in Inputs, PruneInv, farthest = Goal
  PROVE  vertices[Goal] = BestType(Goal) /\ Goal \in DOMAIN vertices /\ last_type = Tolerated
<1>1. \A x \in weak : x.from # Goal
  <2>1. \A x \in weak : x.from \in 0 .. x.to - 1 /\ x.to \in 0 .. Goal
    BY OnPathsFacts DEF PruneInv
  <2>. QED
    BY <2>1, GoalFacts
<1>2. Goal \in DOMAIN vertices
  BY GoalFacts DEF PruneInv
<1>3. vertices[Goal] = BestType(Goal)
  BY <1>1, <1>2 DEF PruneInv
<1>. QED
  BY <1>2, <1>3 DEF last_type, Tolerated

\* A position that no path leads to is passed over.
LEMMA PruneNothing ==
  ASSUME SyllabifierInv, Prune, i \notin DOMAIN vertices
  PROVE  PruneInv' /\ EdgesInv'
<1>1. /\ input \in Inputs /\ PruneInv /\ EdgesInv /\ input' = input /\ i' = i - 1 /\ i >= 0
      /\ UNCHANGED <<vertices, edges, weak, farthest>>
  BY DEF SyllabifierInv, Prune
<1>2. Goal \in 0 .. input.length /\ \A p \in Visitable : p \in 0 .. Goal
  BY <1>1, GoalFacts
<1>3. i \in 0 .. Goal - 1 /\ i \notin Visitable
  BY <1>1, <1>2 DEF PruneInv
<1>4. /\ OnPath \subseteq Visitable
      /\ \A e \in Leading : e.from \in Visitable
      /\ \A e \in OnPaths : e \in Leading
  BY <1>1, OnPathsFacts
<1>5. \A p \in Visitable : (p > i <=> p > i - 1) /\ (p <= i <=> p <= i - 1)
  <2> TAKE p \in Visitable
  <2>1. p # i /\ p \in Int
    BY <1>2, <1>3
  <2>. QED
    BY <1>3, <2>1
<1>6. i - 1 \in -1 .. Goal - 1
  BY <1>2, <1>3
<1>7. PruneInv'
  <2>1. DOMAIN vertices = {p \in Visitable : p <= i - 1} \cup {p \in OnPath : p > i - 1}
    BY <1>1, <1>4, <1>5 DEF PruneInv
  <2>2. weak = {x \in OnPaths : \E y, z \in Leading :
               /\ y.from = z.from /\ y.from > i - 1 /\ y.to = x.from /\ x.to = z.to
               /\ z.type < kAbbreviation}
    BY <1>1, <1>4, <1>5 DEF PruneInv
  <2>3. \A p \in DOMAIN vertices :
       vertices[p] = IF \E x \in weak : x.from = p THEN kAmbiguousSpelling ELSE BestType(p)
    BY <1>1 DEF PruneInv
  <2>. QED
    BY <1>1, <1>6, <2>1, <2>2, <2>3, SameInput DEF PruneInv
<1>8. EdgesInv'
  <2>1. edges = {e \in OnPaths : e.from > i - 1}
            \cup {e \in AllEdges : e.from \in Visitable /\ e.from <= i - 1}
    BY <1>1, <1>4, <1>5 DEF EdgesInv
  <2>. QED
    BY <1>1, <2>1, SameInput DEF EdgesInv
<1>. QED
  BY <1>7, <1>8

\* What the loop does at a position that was visited
LEMMA PruneVisited ==
  ASSUME SyllabifierInv, Prune, i \in DOMAIN vertices
  PROVE  PruneInv' /\ EdgesInv'
<1> DEFINE kept == Kept(i)
           xs == Overlapped(kept)
           stale == vertices[i] > last_type \/ kept = {}
<1>1. /\ input \in Inputs /\ PruneInv /\ EdgesInv /\ farthest = Goal
      /\ input' = input /\ i' = i - 1 /\ i >= 0
      /\ edges' = {e \in edges : e.from # i} \cup (IF stale THEN {} ELSE kept)
      /\ weak' = weak \cup xs
      /\ vertices' = [p \in DOMAIN vertices \ (IF stale THEN {i} ELSE {}) |->
                        IF \E x \in xs : x.from = p THEN kAmbiguousSpelling ELSE vertices[p]]
  BY DEF SyllabifierInv, Prune
<1>2. Goal \in 0 .. input.length /\ \A p \in Visitable : p \in 0 .. Goal
  BY <1>1, GoalFacts
<1>3. /\ OnPath \subseteq Visitable /\ Goal \in OnPath
      /\ \A e : e \in Leading <=> /\ e \in AllEdges /\ e.type <= Tolerated
                                  /\ e.from \in Visitable
                                  /\ e.to \in LeadingTo(Goal, Tolerated)
      /\ \A e \in Leading : e.from \in 0 .. e.to - 1 /\ e.to \in 0 .. Goal
      /\ \A e : e \in OnPaths <=> e \in Leading /\ e.from \in ReachedBy(Tolerated)
      /\ \A e : e \in OnPaths <=> e \in AllEdges /\ e.type <= Tolerated /\ e.from \in OnPath /\ e.to \in OnPath
      /\ \A p \in ReachedBy(Tolerated) : p \in OnPath <=> p = Goal \/ \E e \in OnPaths : e.from = p
  BY <1>1, OnPathsFacts
<1>4. i \in 0 .. Goal - 1 /\ i \in Visitable /\ i # Goal
  <2>1. i \in -1 .. Goal - 1 /\ i \in Visitable
    BY <1>1, <1>3 DEF PruneInv
  <2>. QED
    BY <1>1, <1>2, <2>1
<1>5. \A p \in Visitable : /\ p \in Int
                           /\ p > i - 1 <=> p > i \/ p = i
                           /\ p <= i <=> p <= i - 1 \/ p = i
                           /\ ~(p > i /\ p <= i)
  BY <1>2, <1>4
<1>6. last_type = Tolerated /\ Tolerated \in {1, 2}
  BY <1>1, LastType, GoalFacts
<1>7. vertices[i] = BestType(i)
  <2>1. \A x \in weak : x.from # i
    <3> SUFFICES ASSUME NEW x \in weak, x.from = i PROVE FALSE
      OBVIOUS
    <3>1. PICK y \in Leading : y.from > i /\ y.to = x.from
      BY <1>1 DEF PruneInv
    <3>2. y.from \in 0 .. y.to - 1 /\ y.to \in 0 .. Goal
      BY <1>3
    <3>. QED
      BY <1>2, <1>4, <3>1, <3>2
  <2>. QED
    BY <1>1, <2>1 DEF PruneInv
<1>8. vertices[i] > last_type <=> i \notin ReachedBy(Tolerated)
  <2>1. BestType(i) \in 0 .. 2 /\ (i \in ReachedBy(Tolerated) <=> BestType(i) <= Tolerated)
    BY <1>1, <1>4, <1>6, BestTypeFacts
  <2>. QED
    BY <1>6, <1>7, <2>1
\* The edges that lead from here to what was kept
<1>9. kept = {e \in AllEdges : e.from = i /\ e.type <= Tolerated /\ e.to \in OnPath}
  <2>1. ASSUME NEW e PROVE e \in kept <=> e \in edges /\ e.from = i /\ e.to \in OnPath /\ e.to > i /\ e.type <= Tolerated
    <3>1. \A p : p \in Good <=> p \in OnPath /\ p > i
      BY <1>1, <1>3, <1>5 DEF Good, PruneInv
    <3>. QED
      BY <1>6, <3>1 DEF Kept
  <2>2. ASSUME NEW e, e.from = i PROVE e \in edges <=> e \in AllEdges
    <3>1. ~(i > i) /\ i <= i
      BY <1>4
    <3>. QED
      BY <1>1, <1>4, <2>2, <3>1 DEF EdgesInv
  <2>3. ASSUME NEW e \in AllEdges, e.from = i PROVE e.to > i
    BY <1>1, <1>4, <2>3, AllEdgesFacts, InputsAssumption
  <2>. QED
    BY <2>1, <2>2, <2>3
<1>. HIDE DEF kept
<1>10. i \in ReachedBy(Tolerated) => kept = {e \in OnPaths : e.from = i}
  <2> SUFFICES ASSUME i \in ReachedBy(Tolerated) PROVE kept = {e \in OnPaths : e.from = i}
    OBVIOUS
  <2>1. ASSUME NEW e \in kept PROVE e \in OnPaths
    <3>1. e \in AllEdges /\ e.from = i /\ e.type <= Tolerated /\ e.to \in OnPath
      BY <1>9
    <3>2. e \in Leading
      BY <1>3, <1>4, <3>1 DEF OnPath
    <3>. QED
      BY <1>3, <3>1, <3>2
  <2>2. ASSUME NEW e \in OnPaths, e.from = i PROVE e \in kept
    BY <1>3, <1>9, <2>2
  <2>3. \A e \in kept : e.from = i
    BY <1>9
  <2>. QED
    BY <2>1, <2>2, <2>3
<1>11. stale <=> i \notin OnPath
  <2>1. CASE i \in ReachedBy(Tolerated)
    BY <1>3, <1>4, <1>8, <1>10, <2>1
  <2>2. CASE i \notin ReachedBy(Tolerated)
    BY <1>8, <2>2 DEF OnPath
  <2>. QED
    BY <2>1, <2>2
<1>12. (IF stale THEN {} ELSE kept) = {e \in OnPaths : e.from = i}
  <2>1. CASE i \in OnPath
    BY <1>10, <1>11, <2>1 DEF OnPath
  <2>2. CASE i \notin OnPath
    <3>1. {e \in OnPaths : e.from = i} = {}
      BY <1>3, <2>2
    <3>. QED
      BY <1>11, <2>2, <3>1
  <2>. QED
    BY <2>1, <2>2
<1>. HIDE DEF stale, xs
<1>13. EdgesInv'
  <2>1. ASSUME NEW e
        PROVE  e \in edges' <=> \/ e \in OnPaths /\ e.from > i - 1
                                \/ e \in AllEdges /\ e.from \in Visitable /\ e.from <= i - 1
    <3>1. e \in edges' <=> (e \in edges /\ e.from # i) \/ (e \in OnPaths /\ e.from = i)
      BY <1>1, <1>12
    <3>2. e \in edges <=> \/ e \in OnPaths /\ e.from > i
                          \/ e \in AllEdges /\ e.from \in Visitable /\ e.from <= i
      BY <1>1 DEF EdgesInv
    <3>3. e \in OnPaths => e.from \in Visitable
      BY <1>3
    <3>4. e.from \in Visitable =>
            /\ e.from > i - 1 <=> e.from > i \/ e.from = i
            /\ e.from <= i <=> e.from <= i - 1 \/ e.from = i
            /\ ~(e.from > i /\ e.from = i) /\ ~(e.from <= i - 1 /\ e.from = i)
      BY <1>4, <1>5
    <3>. QED
      BY <3>1, <3>2, <3>3, <3>4
  <2>2. edges' = {e \in OnPaths : e.from > i - 1}
            \cup {e \in AllEdges : e.from \in Visitable /\ e.from <= i - 1}
    BY <2>1
  <2>. QED
    BY <1>1, <2>2, SameInput DEF EdgesInv
\* The syllables that are found to be overlapped
<1>14. weak' = {x \in OnPaths : \E y, z \in Leading :
               /\ y.from = z.from /\ y.from > i - 1 /\ y.to = x.from /\ x.to = z.to
               /\ z.type < kAbbreviation}
  <2>1. ASSUME NEW x
        PROVE  x \in xs <=> x \in OnPaths /\ \E y, z \in Leading :
                 /\ y.from = z.from /\ y.from = i /\ y.to = x.from /\ x.to = z.to
                 /\ z.type < kAbbreviation
    <3>1. x \in xs <=> x \in edges /\ \E y, z \in kept :
             y.to = x.from /\ z.to = x.to /\ z.type < kAbbreviation
      BY DEF xs, Overlapped
    <3>2. ASSUME NEW y \in kept, x \in edges, y.to = x.from PROVE x \in OnPaths
      <4>1. y \in AllEdges /\ y.from = i /\ y.to \in OnPath
        BY <1>9
      <4>2. y.from < y.to /\ y.to \in Int
        BY <1>1, <4>1, AllEdgesFacts, InputsAssumption
      <4>3. ~(x.from <= i)
        BY <1>4, <3>2, <4>1, <4>2
      <4>. QED
        BY <1>1, <3>2, <4>3 DEF EdgesInv
    <3>3. ASSUME NEW y \in kept PROVE y \in Leading /\ y.from = i
      BY <1>3, <1>4, <1>9 DEF OnPath
    <3>4. ASSUME NEW y \in Leading, y.from = i, y.to \in OnPath PROVE y \in kept
      BY <1>3, <1>9, <3>4
    <3>5. ASSUME x \in OnPaths PROVE x.from \in OnPath /\ x.to \in OnPath
      BY <1>3, <3>5
    <3>6. ASSUME x \in OnPaths, NEW y \in kept, y.to = x.from PROVE x \in edges
      <4>1. y \in AllEdges /\ y.from = i
        BY <1>9
      <4>2. y.from < y.to /\ y.to \in Int
        BY <1>1, <4>1, AllEdgesFacts, InputsAssumption
      <4>3. x.from > i
        BY <1>4, <3>6, <4>1, <4>2
      <4>. QED
        BY <1>1, <3>6, <4>3 DEF EdgesInv
    <3>7. ASSUME x \in xs
          PROVE  x \in OnPaths /\ \E y, z \in Leading :
                 /\ y.from = z.from /\ y.from = i /\ y.to = x.from /\ x.to = z.to
                 /\ z.type < kAbbreviation
      BY <3>1, <3>2, <3>3, <3>7
    <3>8. ASSUME x \in OnPaths, NEW y \in Leading, NEW z \in Leading, y.from = z.from, y.from = i,
                 y.to = x.from, x.to = z.to, z.type < kAbbreviation
          PROVE  x \in xs
      <4>1. y \in kept /\ z \in kept
        BY <3>4, <3>5, <3>8
      <4>2. x \in edges
        BY <3>6, <3>8, <4>1
      <4>. QED
        BY <3>1, <3>8, <4>1, <4>2
    <3>. QED
      BY <3>7, <3>8
  <2>2. \A y \in Leading : y.from > i - 1 <=> y.from > i \/ y.from = i
    BY <1>3, <1>5
  <2>3. weak = {x \in OnPaths : \E y, z \in Leading :
               /\ y.from = z.from /\ y.from > i /\ y.to = x.from /\ x.to = z.to
               /\ z.type < kAbbreviation}
    BY <1>1 DEF PruneInv
  <2>4. \A x : x \in weak' <=> x \in weak \/ x \in xs
    BY <1>1
  <2>. QED
    BY <2>1, <2>2, <2>3, <2>4
<1>15. DOMAIN vertices' = {p \in Visitable : p <= i - 1} \cup {p \in OnPath : p > i - 1}
  <2>1. \A p : p \in DOMAIN vertices <=> (p \in Visitable /\ p <= i) \/ (p \in OnPath /\ p > i)
    BY <1>1 DEF PruneInv
  <2>2. \A p : p \in DOMAIN vertices' <=> p \in DOMAIN vertices /\ (p = i => i \in OnPath)
    BY <1>1, <1>11
  <2>3. \A p \in Visitable : ~(p = i /\ p > i) /\ ~(p = i /\ p <= i - 1)
    BY <1>4, <1>5
  <2>4. \A p : p \in DOMAIN vertices' <=> (p \in Visitable /\ p <= i - 1) \/ (p \in OnPath /\ p > i - 1)
    BY <1>3, <1>4, <1>5, <2>1, <2>2, <2>3
  <2>. QED
    BY <2>4
<1>16. \A p \in DOMAIN vertices' :
         vertices'[p] = IF \E x \in weak' : x.from = p THEN kAmbiguousSpelling ELSE BestType(p)
  <2> TAKE p \in DOMAIN vertices'
  <2>1. p \in DOMAIN vertices
    BY <1>1
  <2>2. vertices[p] = IF \E x \in weak : x.from = p THEN kAmbiguousSpelling ELSE BestType(p)
    BY <1>1, <2>1 DEF PruneInv
  <2>3. vertices'[p] = IF \E x \in xs : x.from = p THEN kAmbiguousSpelling ELSE vertices[p]
    BY <1>1
  <2>. QED
    BY <1>1, <2>2, <2>3
<1>17. i - 1 \in -1 .. Goal - 1
  BY <1>2, <1>4
<1>18. PruneInv'
  BY <1>1, <1>14, <1>15, <1>16, <1>17, SameInput DEF PruneInv
<1>. QED
  BY <1>13, <1>18

-----------------------------------------------------------------------------
(* The results                                                             *)

\* What the two loops keep true, step by step
THEOREM SyllabifierInvariant == Spec => []SyllabifierInv
<1>1. SyllabifierInv /\ [Next]_vars => SyllabifierInv'
  <2> SUFFICES ASSUME SyllabifierInv, [Next]_vars PROVE SyllabifierInv'
    OBVIOUS
  <2>1. CASE Visit
    <3>1. SearchInv'
      BY <2>1, VisitAgain, VisitFirst
    <3>. QED
      BY <2>1, <3>1 DEF Visit, SyllabifierInv
  <2>2. CASE Searched
    BY <2>2, PruneStarts DEF Searched, SyllabifierInv
  <2>3. CASE Prune
    <3>1. PruneInv' /\ EdgesInv'
      BY <2>3, PruneNothing, PruneVisited
    <3>. QED
      BY <2>3, <3>1, SameInput DEF Prune, SyllabifierInv
  <2>4. CASE Pruned
    <3>1. /\ input \in Inputs /\ PruneInv /\ EdgesInv /\ farthest = Goal /\ i < 0
          /\ UNCHANGED <<input, queue, vertices, edges, weak, farthest, i>> /\ phase' = "complete"
      BY <2>4 DEF Pruned, SyllabifierInv
    <3>2. i = -1
      BY <3>1, GoalFacts, InputsAssumption DEF PruneInv
    <3>3. PruneInv'
      BY <3>1, SameInput DEF PruneInv
    <3>4. edges = OnPaths
      <4>1. \A e \in OnPaths : e.from > -1
        BY <3>1, OnPathsFacts, AllEdgesFacts, InputsAssumption
      <4>2. \A p \in Visitable : ~(p <= -1)
        BY <3>1, GoalFacts
      <4>. QED
        BY <3>1, <3>2, <4>1, <4>2 DEF EdgesInv
    <3>. QED
      BY <3>1, <3>2, <3>3, <3>4, SameInput DEF SyllabifierInv
  <2>5. CASE Complete
    <3>1. /\ input \in Inputs /\ PruneInv /\ i = -1 /\ farthest = Goal /\ edges = OnPaths
          /\ UNCHANGED <<input, queue, vertices, weak, i>> /\ phase' = "done"
      BY <2>5 DEF Complete, SyllabifierInv
    <3>2. PruneInv'
      BY <3>1, SameInput DEF PruneInv
    <3>3. {e \in edges' : e.type # kCompletion} = OnPaths
      <4>1. \A e \in OnPaths : e.type # kCompletion
        BY <3>1, OnPathsFacts, AllEdgesFacts DEF kCompletion
      <4>2. \/ edges' = edges
            \/ edges' = edges \cup {Edge(farthest, input.length, kCompletion)}
        BY <2>5 DEF Complete
      <4>3. Edge(farthest, input.length, kCompletion).type = kCompletion
        BY DEF Edge
      <4>. QED
        BY <3>1, <4>1, <4>2, <4>3
    <3>4. farthest' \in {Goal, input.length}
      BY <2>5, <3>1 DEF Complete
    <3>. QED
      BY <3>1, <3>2, <3>3, <3>4, SameInput DEF SyllabifierInv
  <2>6. CASE UNCHANGED vars
    BY <2>6, SameInput DEF vars, SyllabifierInv, SearchInv, PruneInv, EdgesInv
  <2>. QED
    BY <2>1, <2>2, <2>3, <2>4, <2>5, <2>6 DEF Next
<1>. QED
  BY <1>1, InitSearch, PTL DEF Spec

\* No path is missing from the graph, and nothing in it is a dead end or worse
\* than need be, whatever the prism knows of a code of any length.
THEOREM GraphCorrect == Spec => []GraphIsPaths
<1>1. SyllabifierInv => GraphIsPaths
  <2> SUFFICES ASSUME SyllabifierInv, phase \in {"complete", "done"}
               PROVE  /\ {e \in edges : e.type # kCompletion} = OnPaths
                      /\ DOMAIN vertices = OnPath
                      /\ vertices[Goal] = BestType(Goal)
                      /\ farthest \in {Goal, input.length}
    BY DEF GraphIsPaths, OnPath
  <2>1. input \in Inputs /\ PruneInv /\ i = -1 /\ farthest \in {Goal, input.length}
    BY DEF SyllabifierInv
  <2>2. {e \in edges : e.type # kCompletion} = OnPaths
    <3>1. \A e \in OnPaths : e.type # kCompletion
      BY <2>1, OnPathsFacts, AllEdgesFacts DEF kCompletion
    <3>. QED
      BY <3>1 DEF SyllabifierInv
  <2>3. DOMAIN vertices = OnPath
    <3>1. OnPath \subseteq Visitable /\ \A p \in Visitable : p > -1 /\ ~(p <= -1)
      BY <2>1, GoalFacts, OnPathsFacts
    <3>. QED
      BY <2>1, <3>1 DEF PruneInv
  <2>4. vertices[Goal] = BestType(Goal)
    <3>1. \A x \in weak : x.from # Goal
      <4>1. \A x \in weak : x.from \in 0 .. x.to - 1 /\ x.to \in 0 .. Goal
        BY <2>1, OnPathsFacts DEF PruneInv
      <4>. QED
        BY <2>1, <4>1, GoalFacts
    <3>. QED
      BY <2>1, <2>3, <3>1, GoalFacts DEF PruneInv
  <2>. QED
    BY <2>1, <2>2, <2>3, <2>4
<1>. QED
  BY <1>1, SyllabifierInvariant, PTL

\* Exactly the syllables that a whole one overlaps are discouraged.
THEOREM JointsCorrect == Spec => []AmbiguousJoints
<1>1. SyllabifierInv => AmbiguousJoints
  <2> SUFFICES ASSUME SyllabifierInv, phase = "done" PROVE AmbiguousJoints
    BY DEF AmbiguousJoints
  <2>1. input \in Inputs /\ PruneInv /\ i = -1
    BY DEF SyllabifierInv
  <2>2. OnPath \subseteq Visitable /\ \A p \in Visitable : p > -1 /\ ~(p <= -1)
    BY <2>1, GoalFacts, OnPathsFacts
  <2>3. weak = {x \in OnPaths : \E y, z \in Leading :
                  /\ y.from = z.from /\ y.to = x.from /\ x.to = z.to
                  /\ z.type < kAbbreviation}
    <3>1. \A y \in Leading : y.from > -1
      BY <2>1, <2>2, OnPathsFacts
    <3>. QED
      BY <2>1, <3>1 DEF PruneInv
  <2>4. \A x \in weak : x.from \in DOMAIN vertices
    BY <2>1, <2>2, <2>3, OnPathsFacts DEF PruneInv
  <2>5. \A p \in DOMAIN vertices : BestType(p) # kAmbiguousSpelling
    <3>1. \A p \in DOMAIN vertices : p \in Visitable
      BY <2>1, <2>2 DEF PruneInv
    <3>. QED
      BY <2>1, <3>1, BestTypeFacts DEF kAmbiguousSpelling
  <2>6. {p \in DOMAIN vertices : vertices[p] = kAmbiguousSpelling} = {x.from : x \in weak}
    BY <2>1, <2>4, <2>5 DEF PruneInv
  <2>. QED
    BY <2>3, <2>6 DEF AmbiguousJoints
<1>. QED
  BY <1>1, SyllabifierInvariant, PTL

=============================================================================
