------------------------ MODULE T9KeySettingsProofs -------------------------
(***************************************************************************)
(* What holds of the key settings for any schemas, groups, keys and files.  *)
(* The lemmas on bindings come first: the order in which the dialog         *)
(* collects them exists, and a file read back shows what was collected.     *)
(***************************************************************************)
EXTENDS T9KeySettings, FiniteSetTheorems, SequenceTheorems, WellFoundedInduction, TLAPS

-----------------------------------------------------------------------------
(* Numbers.  Induction is on a least counterexample.                        *)

LEMMA LeastNumber ==
  ASSUME NEW S \in SUBSET Nat, S # {}
  PROVE  \E x \in S : \A y \in S : x <= y
<1>1. PICK x \in S : \A y \in S : ~(<<y, x>> \in OpToRel(<, Nat))
  BY NatLessThanWellFounded, WFMin
<1>2. ASSUME NEW y \in S PROVE x <= y
  <2>1. ~(y < x)
    BY <1>1, <1>2 DEF OpToRel
  <2>. QED
    BY <2>1
<1>. QED
  BY <1>2

\* The greatest of a set of indices
LEMMA MaxIsGreatest ==
  ASSUME NEW n \in Nat, NEW S \in SUBSET (1..n), S # {}
  PROVE  Max(S) \in S /\ \A y \in S : y <= Max(S)
<1> DEFINE T == {n - x : x \in S}
<1>1. T \in SUBSET Nat /\ T # {}
  <2>1. \A x \in S : x \in 1..n /\ n - x \in Nat
    OBVIOUS
  <2>2. PICK x \in S : TRUE
    OBVIOUS
  <2>3. n - x \in T
    OBVIOUS
  <2>. QED
    BY <2>1, <2>3
<1>2. PICK t \in T : \A y \in T : t <= y
  BY <1>1, LeastNumber
<1>3. PICK x \in S : t = n - x
  OBVIOUS
<1>4. ASSUME NEW y \in S PROVE y <= x
  <2>1. n - y \in T
    OBVIOUS
  <2>. QED
    BY <1>2, <1>3, <2>1
<1>. QED
  BY <1>4 DEF Max

-----------------------------------------------------------------------------
(* The order of the groups *)

Increasing(order, n) == \A i, j \in 1..n : i < j => order[i] < order[j]

Ordered(S) ==
  \E order \in [1..Cardinality(S) -> S] : Increasing(order, Cardinality(S))

\* One element more, less than all others
LEMMA OrderedWithLeast ==
  ASSUME NEW S \in SUBSET Nat, IsFiniteSet(S), NEW least \in S,
         \A y \in S : least <= y, Ordered(S \ {least})
  PROVE  Ordered(S)
<1> DEFINE n == Cardinality(S)
           m == Cardinality(S \ {least})
<1>1. n \in Nat /\ m \in Nat /\ n = m + 1
  <2>1. IsFiniteSet(S \ {least}) /\ m = n - 1
    BY FS_RemoveElement
  <2>. QED
    BY <2>1, FS_CardinalityType
<1>. HIDE DEF n, m
<1>2. PICK order \in [1..m -> S \ {least}] : Increasing(order, m)
  BY DEF Ordered, m
<1> DEFINE more == [i \in 1..n |-> IF i = 1 THEN least ELSE order[i - 1]]
<1>3. more \in [1..n -> S]
  BY <1>1, <1>2
<1>4. Increasing(more, n)
  <2>. SUFFICES ASSUME NEW i \in 1..n, NEW j \in 1..n, i < j PROVE more[i] < more[j]
    BY DEF Increasing
  <2>1. j - 1 \in 1..m /\ more[j] = order[j - 1] /\ order[j - 1] \in S \ {least}
    BY <1>1, <1>2
  <2>2. CASE i = 1
    <3>1. more[i] = least /\ least \in Nat /\ order[j - 1] \in Nat
      BY <1>1, <2>1, <2>2
    <3>2. least <= order[j - 1] /\ least # order[j - 1]
      BY <2>1
    <3>. QED
      BY <2>1, <3>1, <3>2
  <2>3. CASE i # 1
    <3>1. i - 1 \in 1..m /\ i - 1 < j - 1 /\ more[i] = order[i - 1]
      BY <1>1, <2>3
    <3>. QED
      BY <1>2, <2>1, <3>1 DEF Increasing
  <2>. QED
    BY <2>2, <2>3
<1>. HIDE DEF more
<1>. QED
  BY <1>3, <1>4 DEF Ordered, n

\* Every finite set of numbers can be put in order: a least counterexample
\* would have a least element.
LEMMA FiniteIsOrdered ==
  ASSUME NEW S \in SUBSET Nat, IsFiniteSet(S)
  PROVE  Ordered(S)
<1> DEFINE Bad == {T \in FiniteSubsetsOf(S) : ~Ordered(T)}
<1>1. SUFFICES ASSUME Bad # {} PROVE FALSE
  <2>1. S \in FiniteSubsetsOf(S)
    BY DEF FiniteSubsetsOf
  <2>. QED
    BY <1>1, <2>1
<1>2. PICK T \in Bad : \A U \in Bad : ~(<<U, T>> \in StrictSubsetOrdering(S))
  BY <1>1, FS_StrictSubsetOrderingWellFounded, WFMin
<1>3. T \in SUBSET Nat /\ IsFiniteSet(T) /\ T \subseteq S /\ ~Ordered(T)
  BY DEF FiniteSubsetsOf
<1>4. T # {}
  <2>1. Cardinality({}) = 0
    BY FS_EmptySet
  <2>2. Ordered({})
    <3>1. [i \in 1..0 |-> 0] \in [1..0 -> {}] /\ Increasing([i \in 1..0 |-> 0], 0)
      BY DEF Increasing
    <3>. QED
      BY <2>1, <3>1 DEF Ordered
  <2>. QED
    BY <1>3, <2>2
<1>5. PICK least \in T : \A y \in T : least <= y
  BY <1>3, <1>4, LeastNumber
<1>6. Ordered(T \ {least})
  <2>1. IsFiniteSet(T \ {least})
    BY <1>3, FS_RemoveElement
  <2>2. T \ {least} \in FiniteSubsetsOf(S)
    BY <1>3, <2>1 DEF FiniteSubsetsOf
  <2>3. <<T \ {least}, T>> \in StrictSubsetOrdering(S)
    BY <1>3 DEF StrictSubsetOrdering
  <2>. QED
    BY <1>2, <2>2, <2>3
<1>. QED
  BY <1>3, <1>5, <1>6, OrderedWithLeast

\* InOrder has every element once.
LEMMA InOrderIs ==
  ASSUME NEW S \in SUBSET Nat, IsFiniteSet(S)
  PROVE  /\ Cardinality(S) \in Nat
         /\ InOrder(S) \in [1..Cardinality(S) -> S]
         /\ \A i, j \in 1..Cardinality(S) : InOrder(S)[i] = InOrder(S)[j] => i = j
         /\ \A x \in S : \E i \in 1..Cardinality(S) : InOrder(S)[i] = x
<1> DEFINE n == Cardinality(S)
           order == InOrder(S)
<1>1. n \in Nat
  BY FS_CardinalityType
<1>2. order \in [1..n -> S] /\ \A i, j \in 1..n : i < j => order[i] < order[j]
  BY FiniteIsOrdered DEF Ordered, Increasing, InOrder
<1>3. IsFiniteSet(1..n) /\ Cardinality(1..n) = n
  BY <1>1, FS_Interval
<1>. HIDE DEF n, order
<1>4. ASSUME NEW i \in 1..n, NEW j \in 1..n, order[i] = order[j] PROVE i = j
  <2>1. order[i] \in Nat /\ order[j] \in Nat
    BY <1>2
  <2>. QED
    BY <1>1, <1>2, <1>4, <2>1
<1>5. order \in Injection(1..n, S)
  BY <1>2, <1>4 DEF Injection, IsInjective
<1>6. order \in Surjection(1..n, S)
  BY <1>3, <1>5, FS_Injection DEF n
<1>7. ASSUME NEW x \in S PROVE \E i \in 1..n : order[i] = x
  BY <1>6 DEF Surjection
<1>. QED
  BY <1>1, <1>2, <1>4, <1>7 DEF n, order

-----------------------------------------------------------------------------
(* Bindings *)

\* in a file
BindingSet == [accept : Keys, when : {"composing", "always"}, group : Groups]

\* of a schema
AnyBinding == [accept : Keys, when : Conditions, group : Groups \cup {NoGroup}]

LEMMA Constants ==
  /\ Groups \subseteq Nat /\ IsFiniteSet(Groups)
  /\ DefaultKeys \in [Schemas -> [Groups -> Keys]]
  /\ \A schema \in Schemas : /\ DefaultKeys[schema] \in [Groups -> Keys]
                             /\ \A g, h \in Groups : DefaultKeys[schema][g] = DefaultKeys[schema][h]
                                                       => g = h
<1>1. /\ Groups \subseteq Nat /\ IsFiniteSet(Groups)
      /\ DefaultKeys \in [Schemas -> [Groups -> Keys]]
      /\ \A schema \in Schemas : IsInjective(DefaultKeys[schema])
  BY T9KeySettingsAssumption DEF T9KeySettingsAssumption
<1>. QED
  BY <1>1 DEF IsInjective

\* What is collected: one binding for each group that does not have its
\* default key.
LEMMA EntriesIs ==
  ASSUME NEW schema \in Schemas, NEW shown \in [Groups -> Keys]
  PROVE  LET b == Entries(schema, shown)
         IN  /\ b \in Seq(BindingSet) /\ AsWritten(b)
             /\ \A i \in DOMAIN b : b[i].group \in Groups /\ b[i].accept = shown[b[i].group]
             /\ \A g \in Groups : shown[g] # DefaultKeys[schema][g]
                                    => \E i \in DOMAIN b : b[i].group = g
<1> DEFINE changed == {g \in Groups : shown[g] # DefaultKeys[schema][g]}
           n == Cardinality(changed)
           order == InOrder(changed)
           b == Entries(schema, shown)
<1>1. changed \in SUBSET Nat /\ IsFiniteSet(changed)
  <2>1. changed \in SUBSET Groups
    OBVIOUS
  <2>. QED
    BY <2>1, Constants, FS_Subset
<1>2. /\ n \in Nat /\ order \in [1..n -> changed]
      /\ \A i, j \in 1..n : order[i] = order[j] => i = j
      /\ \A x \in changed : \E i \in 1..n : order[i] = x
  BY <1>1, InOrderIs
<1>3. b = [i \in 1..n |-> Binding(shown[order[i]], "always", order[i])]
  BY DEF Entries
<1>. HIDE DEF n, order, b
<1>4. ASSUME NEW i \in 1..n
      PROVE  /\ order[i] \in changed
             /\ b[i].group = order[i] /\ b[i].accept = shown[order[i]]
             /\ b[i].when = "always" /\ b[i] \in BindingSet
  <2>1. order[i] \in Groups /\ b[i] = Binding(shown[order[i]], "always", order[i])
    BY <1>2, <1>3
  <2>. QED
    BY <1>2, <2>1 DEF Binding, BindingSet
<1>5. b \in Seq(BindingSet) /\ DOMAIN b = 1..n
  BY <1>2, <1>3, <1>4
<1>6. AsWritten(b)
  <2>1. ASSUME NEW i \in DOMAIN b, NEW j \in DOMAIN b, b[i].group = b[j].group
        PROVE  i = j
    <3>1. i \in 1..n /\ j \in 1..n
      BY <1>5
    <3>2. order[i] = order[j]
      BY <1>4, <2>1, <3>1
    <3>. QED
      BY <1>2, <3>1, <3>2
  <2>2. \A i \in DOMAIN b : b[i].when = "always"
    BY <1>4, <1>5
  <2>. QED
    BY <2>1, <2>2 DEF AsWritten
<1>7. \A i \in DOMAIN b : b[i].group \in Groups /\ b[i].accept = shown[b[i].group]
  BY <1>4, <1>5
<1>8. \A g \in Groups : shown[g] # DefaultKeys[schema][g] => \E i \in DOMAIN b : b[i].group = g
  <2>. SUFFICES ASSUME NEW g \in Groups, g \in changed
                PROVE  \E i \in DOMAIN b : b[i].group = g
    OBVIOUS
  <2>1. PICK i \in 1..n : order[i] = g
    BY <1>2
  <2>. QED
    BY <1>4, <1>5, <2>1
<1>. QED
  BY <1>5, <1>6, <1>7, <1>8 DEF b

\* Reading a file: the last binding of a group, or the default
LEMMA BoundIs ==
  ASSUME NEW k \in [Groups -> Keys], NEW b \in Seq(BindingSet), NEW g \in Groups
  PROVE  \/ Bound(k, b)[g] = k[g] /\ \A i \in DOMAIN b : b[i].group # g
         \/ \E i \in DOMAIN b : b[i].group = g /\ Bound(k, b)[g] = b[i].accept
<1> DEFINE of == {i \in DOMAIN b : b[i].group = g}
<1>1. Bound(k, b)[g] = IF of = {} THEN k[g] ELSE b[Max(of)].accept
  BY DEF Bound
<1>2. CASE of = {}
  BY <1>1, <1>2
<1>3. CASE of # {}
  <2>1. Len(b) \in Nat /\ of \in SUBSET (1..Len(b))
    OBVIOUS
  <2>2. Max(of) \in of
    BY <1>3, <2>1, MaxIsGreatest
  <2>. QED
    BY <1>1, <1>3, <2>2
<1>. QED
  BY <1>2, <1>3

LEMMA BoundType ==
  ASSUME NEW k \in [Groups -> Keys], NEW b \in Seq(BindingSet)
  PROVE  Bound(k, b) \in [Groups -> Keys]
<1>1. ASSUME NEW g \in Groups PROVE Bound(k, b)[g] \in Keys
  <2>1. ASSUME NEW i \in DOMAIN b PROVE b[i].accept \in Keys
    <3>1. b[i] \in BindingSet
      OBVIOUS
    <3>. QED
      BY <3>1 DEF BindingSet
  <2>. QED
    BY <2>1, BoundIs
<1>. QED
  BY <1>1 DEF Bound

\* Where a group has one binding at most, this one decides.
LEMMA BoundIfAsWritten ==
  ASSUME NEW k \in [Groups -> Keys], NEW b \in Seq(BindingSet), AsWritten(b),
         NEW i \in DOMAIN b
  PROVE  b[i].group \in Groups /\ Bound(k, b)[b[i].group] = b[i].accept
<1>1. b[i].group \in Groups
  <2>1. b[i] \in BindingSet
    OBVIOUS
  <2>. QED
    BY <2>1 DEF BindingSet
<1>2. PICK j \in DOMAIN b : b[j].group = b[i].group /\ Bound(k, b)[b[i].group] = b[j].accept
  BY <1>1, BoundIs
<1>. QED
  BY <1>1, <1>2 DEF AsWritten

\* What is collected and read again is what was shown.
LEMMA BoundIsShown ==
  ASSUME NEW schema \in Schemas, NEW shown \in [Groups -> Keys]
  PROVE  Bound(DefaultKeys[schema], Entries(schema, shown)) = shown
<1> DEFINE b == Entries(schema, shown)
           k == DefaultKeys[schema]
<1>1. /\ b \in Seq(BindingSet)
      /\ \A i \in DOMAIN b : b[i].group \in Groups /\ b[i].accept = shown[b[i].group]
      /\ \A g \in Groups : shown[g] # k[g] => \E i \in DOMAIN b : b[i].group = g
  BY EntriesIs
<1>2. k \in [Groups -> Keys]
  BY Constants
<1>. HIDE DEF b, k
<1>3. ASSUME NEW g \in Groups PROVE Bound(k, b)[g] = shown[g]
  BY <1>1, <1>2, BoundIs
<1>. QED
  BY <1>3 DEF Bound, b, k

\* If nothing is collected, all keys are the defaults.
LEMMA NothingCollected ==
  ASSUME NEW schema \in Schemas, NEW shown \in [Groups -> Keys], Entries(schema, shown) = <<>>
  PROVE  shown = DefaultKeys[schema]
<1>1. \A g \in Groups : shown[g] = DefaultKeys[schema][g]
  BY EntriesIs
<1>. QED
  BY <1>1, Constants

LEMMA DefaultsBound ==
  ASSUME NEW schema \in Schemas
  PROVE  Bound(DefaultKeys[schema], <<>>) = DefaultKeys[schema]
<1>1. DefaultKeys[schema] \in [Groups -> Keys]
  BY Constants
<1>. QED
  BY <1>1 DEF Bound

LEMMA ConditionsAre ==
  /\ Conditions = {"predicting", "paging", "has_menu", "composing", "always"}
  /\ Rank["always"] \in Int
BY DEF Conditions, Rank

LEMMA BindingKinds == BindingSet \subseteq AnyBinding
BY ConditionsAre DEF BindingSet, AnyBinding

LEMMA SchemaBindingsAre ==
  ASSUME NEW schema \in Schemas
  PROVE  /\ SchemaBindings[schema] \in Seq(AnyBinding)
         /\ \A g \in Groups : \E i \in DOMAIN SchemaBindings[schema] :
              /\ SchemaBindings[schema][i] = Binding(DefaultKeys[schema][g], "always", g)
              /\ \A j \in DOMAIN SchemaBindings[schema] \ {i} :
                   SchemaBindings[schema][j].accept # SchemaBindings[schema][i].accept
<1>1. SchemaBindings[schema] \in Seq(AnyBinding) /\ BindsDefaults(schema)
  BY T9KeySettingsAssumption DEF T9KeySettingsAssumption, AnyBinding
<1>. QED
  BY <1>1 DEF BindsDefaults

\* The key binder: where all bindings of a key that apply are under no
\* condition, the one that was read last decides.
LEMMA LastDecides ==
  ASSUME NEW all \in Seq(AnyBinding), NEW ofKey \in SUBSET DOMAIN all, ofKey # {},
         \A i \in ofKey : all[i].when = "always"
  PROVE  \E p \in ofKey : /\ p = CHOOSE i \in ofKey : \A j \in ofKey \ {i} : Precedes(all, i, j)
                          /\ \A q \in ofKey : q <= p
<1>1. Len(all) \in Nat /\ ofKey \in SUBSET (1..Len(all))
  OBVIOUS
<1>2. \A i, j \in ofKey : Precedes(all, i, j) <=> i > j
  <2>. SUFFICES ASSUME NEW i \in ofKey, NEW j \in ofKey
                PROVE  Precedes(all, i, j) <=> i > j
    OBVIOUS
  <2>1. all[i].when = "always" /\ all[j].when = "always"
    OBVIOUS
  <2>. QED
    BY <1>1, <2>1, ConditionsAre DEF Precedes
<1>3. Max(ofKey) \in ofKey /\ \A q \in ofKey : q <= Max(ofKey)
  BY <1>1, MaxIsGreatest
<1> DEFINE First(i) == \A j \in ofKey \ {i} : Precedes(all, i, j)
           p == CHOOSE i \in ofKey : First(i)
<1>4. First(Max(ofKey))
  <2>. SUFFICES ASSUME NEW j \in ofKey \ {Max(ofKey)} PROVE Precedes(all, Max(ofKey), j)
    OBVIOUS
  <2>1. Max(ofKey) > j
    BY <1>1, <1>3
  <2>. QED
    BY <1>2, <1>3, <2>1
<1>5. p \in ofKey /\ First(p)
  <2>. HIDE DEF First
  <2>. QED
    BY <1>3, <1>4
<1>. HIDE DEF p
<1>6. ASSUME NEW q \in ofKey PROVE q <= p
  <2>1. q = p \/ p > q
    BY <1>2, <1>5, <1>6
  <2>. QED
    BY <1>1, <1>5, <2>1
<1>. QED
  BY <1>5, <1>6 DEF p

\* A key that one group alone shows, where no condition holds under which the
\* schema file binds it: the bindings that apply are under no condition, there
\* is one, and the last of them is this group's.
LEMMA SendsItsGroup ==
  ASSUME NEW schema \in Schemas, NEW f, f.bindings \in Seq(BindingSet), AsWritten(f.bindings),
         NEW g \in Groups, NEW key, key = Bound(DefaultKeys[schema], f.bindings)[g],
         \A h \in Groups \ {g} : Bound(DefaultKeys[schema], f.bindings)[h] # key,
         NEW conditions \in SUBSET Conditions, "always" \in conditions,
         ~BoundMoreSpecific(schema, key, conditions)
  PROVE  Sends(schema, f, key, conditions) = g
<1> DEFINE b == f.bindings
           d == SchemaBindings[schema]
           k == DefaultKeys[schema]
           all == d \o b
           ofKey == {i \in DOMAIN all : all[i].accept = key /\ all[i].when \in conditions}
<1>1. k \in [Groups -> Keys]
  BY Constants
<1>2. /\ d \in Seq(AnyBinding) /\ b \in Seq(AnyBinding)
      /\ \A x \in Groups : \E i \in DOMAIN d :
           /\ d[i] = Binding(k[x], "always", x)
           /\ \A j \in DOMAIN d \ {i} : d[j].accept # d[i].accept
  <2>1. b \in Seq(AnyBinding)
    BY BindingKinds
  <2>. QED
    BY <2>1, SchemaBindingsAre
<1>3. ASSUME NEW i \in DOMAIN b
      PROVE  b[i].when = "always" /\ (b[i].accept = key => b[i].group = g)
  <2>1. b[i].group \in Groups /\ Bound(k, b)[b[i].group] = b[i].accept
    BY <1>1, BoundIfAsWritten
  <2>. QED
    BY <2>1 DEF AsWritten
<1>4. ASSUME NEW i \in DOMAIN d, d[i].accept = key, d[i].when \in conditions
      PROVE  d[i].when = "always"
  BY <1>4 DEF BoundMoreSpecific
<1>5. \/ key = k[g] /\ \A i \in DOMAIN b : b[i].group # g
      \/ \E i \in DOMAIN b : b[i].group = g /\ key = b[i].accept
  BY <1>1, BoundIs
<1>6. Sends(schema, f, key, conditions) =
        IF ofKey = {} THEN NoGroup
        ELSE all[CHOOSE i \in ofKey : \A j \in ofKey \ {i} : Precedes(all, i, j)].group
  BY DEF Sends
<1>. HIDE DEF b, d, k
<1>7. /\ all \in Seq(AnyBinding) /\ Len(d) \in Nat /\ Len(b) \in Nat
      /\ DOMAIN all = 1..(Len(d) + Len(b)) /\ DOMAIN d = 1..Len(d) /\ DOMAIN b = 1..Len(b)
      /\ \A j \in DOMAIN d : j \in DOMAIN all /\ all[j] = d[j]
      /\ \A j \in DOMAIN b : Len(d) + j \in DOMAIN all /\ all[Len(d) + j] = b[j]
  BY <1>2, ConcatProperties
<1>8. \A j \in DOMAIN all : j \notin DOMAIN d => j - Len(d) \in DOMAIN b /\ all[j] = b[j - Len(d)]
  <2>. SUFFICES ASSUME NEW j \in DOMAIN all, j \notin DOMAIN d
                PROVE  j - Len(d) \in DOMAIN b /\ all[j] = b[j - Len(d)]
    OBVIOUS
  <2>1. j - Len(d) \in DOMAIN b /\ Len(d) + (j - Len(d)) = j
    BY <1>7
  <2>. QED
    BY <1>7, <2>1
<1>. HIDE DEF all
<1>9. ASSUME key = k[g]
      PROVE  \E i \in DOMAIN d : /\ d[i].accept = key /\ d[i].when = "always" /\ d[i].group = g
                                 /\ \A j \in DOMAIN d \ {i} : d[j].accept # key
  <2>1. PICK i \in DOMAIN d : /\ d[i] = Binding(k[g], "always", g)
                              /\ \A j \in DOMAIN d \ {i} : d[j].accept # d[i].accept
    BY <1>2
  <2>2. d[i].accept = key /\ d[i].when = "always" /\ d[i].group = g
    BY <1>9, <2>1 DEF Binding
  <2>. QED
    BY <2>1, <2>2
<1>10. ofKey # {}
  <2>1. CASE key = k[g]
    BY <1>7, <1>9, <2>1
  <2>2. CASE \E i \in DOMAIN b : b[i].group = g /\ key = b[i].accept
    BY <1>3, <1>7, <2>2
  <2>. QED
    BY <1>5, <2>1, <2>2
<1>11. \A i \in ofKey : all[i].when = "always"
  <2>. SUFFICES ASSUME NEW i \in ofKey PROVE all[i].when = "always"
    OBVIOUS
  <2>1. CASE i \in DOMAIN d
    BY <1>4, <1>7, <2>1
  <2>2. CASE i \notin DOMAIN d
    BY <1>3, <1>8, <2>2
  <2>. QED
    BY <2>1, <2>2
<1>12. PICK p \in ofKey : /\ Sends(schema, f, key, conditions) = all[p].group
                          /\ \A q \in ofKey : q <= p
  <2>. HIDE DEF ofKey
  <2>1. ofKey \in SUBSET DOMAIN all
    BY DEF ofKey
  <2>. QED
    BY <1>6, <1>7, <1>10, <1>11, <2>1, LastDecides
<1>13. CASE p \notin DOMAIN d
  BY <1>3, <1>8, <1>12, <1>13
<1>14. CASE p \in DOMAIN d
  <2>1. ASSUME NEW i \in DOMAIN b, b[i].accept = key PROVE FALSE
    <3>1. Len(d) + i \in ofKey
      BY <1>3, <1>7, <2>1
    <3>2. Len(d) + i <= p
      BY <1>12, <3>1
    <3>. QED
      BY <1>7, <1>14, <3>2
  <2>2. key = k[g]
    BY <1>5, <2>1
  <2>3. all[p] = d[p] /\ d[p].accept = key
    BY <1>7, <1>12, <1>14
  <2>. QED
    BY <1>9, <1>12, <1>14, <2>2, <2>3
<1>. QED
  BY <1>13, <1>14

-----------------------------------------------------------------------------
(* Types *)

Prompts ==
  {UsedPrompt} \cup {RestorePrompt(s) : s \in Schemas}
    \cup UNION {{OverwritePrompt(s, Entries(s, shown)) : shown \in [Groups -> Keys]} : s \in Schemas}

IsFile(f) ==
  /\ f = NoFile \/ f = File(f.marker, f.bindings, f.other)
  /\ f.marker \in BOOLEAN /\ f.other \in BOOLEAN
  /\ f.bindings \in Seq(BindingSet)
  /\ HandWork(f) \/ AsWritten(f.bindings)

FilesOK == DOMAIN file = Schemas /\ \A s \in Schemas : IsFile(file[s])

Types ==
  /\ keys \in [Schemas -> [Groups -> Keys]]
  /\ manual_content \in [Schemas -> BOOLEAN] /\ dirty \in [Schemas -> BOOLEAN]
  /\ current \in Schemas /\ capture \in Groups \cup {NoGroup}
  /\ prompts \in Seq(Prompts)
  /\ saving \in 0..(Len(SchemaIds) + 1)
  /\ result \in {"none", "open", "ok", "cancel"}
  /\ lost \in SUBSET Schemas
  /\ pressed \in 0..MaxPressed /\ faults \in 0..MaxFaults

\* Types, where a file that no user wrote has one binding for a group, a box
\* about overwriting has what was collected, and before the dialog was opened
\* nothing is under way.
TypeOK ==
  /\ Types /\ FilesOK
  /\ result = "none" => prompts = <<>> /\ saving = 0

LEMMA Numbers ==
  /\ MaxPressed \in Nat /\ MaxPrompts \in Nat /\ MaxFaults \in Nat
  /\ SchemaIds \in Seq(Schemas) /\ Len(SchemaIds) \in Nat /\ SchemaIds # <<>>
  /\ DOMAIN SchemaIds = 1..Len(SchemaIds)
  /\ \A i \in DOMAIN SchemaIds : SchemaIds[i] \in Schemas
  /\ \A i, j \in DOMAIN SchemaIds : SchemaIds[i] = SchemaIds[j] => i = j
  /\ \A s \in Schemas : \E i \in DOMAIN SchemaIds : SchemaIds[i] = s
<1>1. /\ {MaxPressed, MaxPrompts, MaxFaults} \subseteq Nat
      /\ SchemaIds \in Seq(Schemas) /\ SchemaIds # <<>> /\ IsInjective(SchemaIds)
  BY T9KeySettingsAssumption DEF T9KeySettingsAssumption
<1>2. Schemas = {SchemaIds[i] : i \in DOMAIN SchemaIds}
  BY DEF Schemas, ToSet
<1>3. Len(SchemaIds) \in Nat /\ DOMAIN SchemaIds = 1..Len(SchemaIds)
  BY <1>1
<1>. QED
  BY <1>1, <1>2, <1>3 DEF IsInjective

LEMMA PromptIs ==
  /\ UsedPrompt \in Prompts
  /\ \A s \in Schemas : RestorePrompt(s) \in Prompts
  /\ \A s \in Schemas, shown \in [Groups -> Keys] : OverwritePrompt(s, Entries(s, shown)) \in Prompts
BY DEF Prompts

LEMMA PromptKinds ==
  ASSUME NEW p \in Prompts
  PROVE  /\ p.kind \in {"used", "restore", "overwrite"}
         /\ p.kind # "used" => p.schema \in Schemas
         /\ p.kind = "overwrite" =>
              \E shown \in [Groups -> Keys] : p.bindings = Entries(p.schema, shown)
<1>1. CASE p = UsedPrompt
  BY <1>1 DEF UsedPrompt
<1>2. CASE \E s \in Schemas : p = RestorePrompt(s)
  BY <1>2 DEF RestorePrompt
<1>3. ASSUME NEW s \in Schemas, NEW shown \in [Groups -> Keys],
             p = OverwritePrompt(s, Entries(s, shown))
      PROVE  p.kind = "overwrite" /\ p.schema = s /\ p.bindings = Entries(s, shown)
  BY <1>3 DEF OverwritePrompt
<1>. QED
  BY <1>1, <1>2, <1>3 DEF Prompts

LEMMA Pop ==
  ASSUME NEW S, NEW q \in Seq(S), q # <<>>
  PROVE  /\ Front(q) \in Seq(S)
         /\ \A i \in DOMAIN Front(q) : i \in DOMAIN q /\ Front(q)[i] = q[i]
         /\ Last(q) \in S /\ Len(q) \in DOMAIN q /\ Last(q) = q[Len(q)]
<1>1. Len(q) \in Nat /\ Len(q) >= 1 /\ DOMAIN q = 1..Len(q)
  OBVIOUS
<1>2. SubSeq(q, 1, Len(q) - 1) \in Seq(S) /\ Len(SubSeq(q, 1, Len(q) - 1)) = Len(q) - 1
      /\ \A i \in 1..(Len(q) - 1) : SubSeq(q, 1, Len(q) - 1)[i] = q[i]
  BY <1>1
<1>3. q[Len(q)] \in S
  BY <1>1
<1>. QED
  BY <1>1, <1>2, <1>3 DEF Front, Last

LEMMA Push ==
  ASSUME NEW S, NEW q \in Seq(S), NEW x \in S
  PROVE  /\ Append(q, x) \in Seq(S)
         /\ \A i \in DOMAIN Append(q, x) :
              (i \in DOMAIN q /\ Append(q, x)[i] = q[i]) \/ Append(q, x)[i] = x
BY AppendProperties

LEMMA FileIs ==
  /\ IsFile(NoFile) /\ ~HandWork(NoFile) /\ NoFile.bindings = <<>>
  /\ \A b \in Seq(BindingSet) : /\ AsWritten(b) => IsFile(File(TRUE, b, FALSE))
                                /\ ~HandWork(File(TRUE, b, FALSE))
                                /\ File(TRUE, b, FALSE).bindings = b
<1>1. /\ NoFile.exists = FALSE /\ NoFile.marker = FALSE /\ NoFile.other = FALSE
      /\ NoFile.bindings = <<>>
  BY DEF NoFile, File
<1>2. <<>> \in Seq(BindingSet) /\ AsWritten(<<>>)
  BY DEF AsWritten
<1>3. \A b : /\ File(TRUE, b, FALSE).marker = TRUE /\ File(TRUE, b, FALSE).other = FALSE
             /\ File(TRUE, b, FALSE).bindings = b
  BY DEF File
<1>. QED
  BY <1>1, <1>2, <1>3 DEF IsFile, HandWork

LEMMA InitType == Init => TypeOK
<1>. SUFFICES ASSUME Init PROVE TypeOK
  OBVIOUS
<1>1. Head(SchemaIds) \in Schemas
  BY Numbers
<1>2. <<>> \in Seq(Prompts)
  OBVIOUS
<1>3. Types
  BY <1>1, <1>2, Constants, Numbers DEF Init, Types
<1>4. ASSUME NEW f \in Files PROVE IsFile(f)
  BY T9KeySettingsAssumption DEF T9KeySettingsAssumption, IsFile, BindingSet
<1>5. FilesOK
  BY <1>4 DEF Init, FilesOK
<1>. QED
  BY <1>3, <1>5 DEF Init, TypeOK

LEMMA FaultType ==
  ASSUME Types, Fault \/ UNCHANGED faults
  PROVE  faults' \in 0..MaxFaults
BY Numbers DEF Types, Fault

\* The two ways to write or remove a file keep it one of the files there are.
LEMMA FileType ==
  ASSUME FilesOK, NEW s \in Schemas, NEW b \in Seq(BindingSet), AsWritten(b),
         \/ file' = file
         \/ file' = [file EXCEPT ![s] = NoFile]
         \/ file' = [file EXCEPT ![s] = File(TRUE, b, FALSE)]
  PROVE  FilesOK'
<1>1. IsFile(NoFile) /\ IsFile(File(TRUE, b, FALSE))
  BY FileIs
<1>2. DOMAIN file' = Schemas
  BY DEF FilesOK
<1>3. ASSUME NEW t \in Schemas PROVE IsFile(file'[t])
  <2>1. file'[t] \in {file[t], NoFile, File(TRUE, b, FALSE)}
    BY DEF FilesOK
  <2>. QED
    BY <1>1, <2>1 DEF FilesOK
<1>. QED
  BY <1>2, <1>3 DEF FilesOK

LEMMA RemoveFileType ==
  ASSUME Types, FilesOK, NEW s \in Schemas, RemoveFile(s)
  PROVE  /\ manual_content' \in [Schemas -> BOOLEAN] /\ dirty' \in [Schemas -> BOOLEAN]
         /\ lost' \in SUBSET Schemas /\ faults' \in 0..MaxFaults /\ FilesOK'
<1>1. manual_content' \in [Schemas -> BOOLEAN] /\ dirty' \in [Schemas -> BOOLEAN]
  BY DEF RemoveFile, Settled, Types
<1>2. faults' \in 0..MaxFaults
  BY FaultType DEF RemoveFile
<1>3. lost' \in SUBSET Schemas
  BY DEF RemoveFile, Types
<1>4. FilesOK'
  <2>1. <<>> \in Seq(BindingSet) /\ AsWritten(<<>>)
    BY DEF AsWritten
  <2>2. file' = file \/ file' = [file EXCEPT ![s] = NoFile]
    BY DEF RemoveFile
  <2>. QED
    BY <2>1, <2>2, FileType
<1>. QED
  BY <1>1, <1>2, <1>3, <1>4

LEMMA WriteFileType ==
  ASSUME Types, FilesOK, NEW s \in Schemas, NEW b \in Seq(BindingSet), AsWritten(b),
         NEW next \in 0..(Len(SchemaIds) + 1), WriteFile(s, b, next)
  PROVE  /\ manual_content' \in [Schemas -> BOOLEAN] /\ dirty' \in [Schemas -> BOOLEAN]
         /\ lost' \in SUBSET Schemas /\ faults' \in 0..MaxFaults /\ FilesOK'
         /\ keys' = keys /\ current' \in Schemas /\ saving' \in 0..(Len(SchemaIds) + 1)
<1>1. manual_content' \in [Schemas -> BOOLEAN] /\ dirty' \in [Schemas -> BOOLEAN]
  BY DEF WriteFile, Settled, Types
<1>2. faults' \in 0..MaxFaults
  BY FaultType DEF WriteFile
<1>3. lost' \in SUBSET Schemas /\ keys' = keys /\ current' \in Schemas
  BY DEF WriteFile, Types
<1>4. FilesOK'
  <2>1. file' = file \/ file' = [file EXCEPT ![s] = File(TRUE, b, FALSE)]
    BY DEF WriteFile
  <2>. QED
    BY <2>1, FileType
<1>5. saving' \in 0..(Len(SchemaIds) + 1)
  <2>1. saving' = next \/ saving' = 0
    BY DEF WriteFile
  <2>. QED
    BY <2>1, Numbers
<1>. QED
  BY <1>1, <1>2, <1>3, <1>4, <1>5

LEMMA FilesKept ==
  ASSUME FilesOK, UNCHANGED file
  PROVE  FilesOK'
BY DEF FilesOK

LEMMA TypeOfSave ==
  ASSUME TypeOK, SaveNext \/ SavedAll
  PROVE  TypeOK'
<1>. USE Numbers
<1>1. Types /\ FilesOK
  BY DEF TypeOK
<1>2. CASE SavedAll
  <2>1. Types' /\ UNCHANGED file
    BY <1>1, <1>2 DEF SavedAll, shownVars, Types
  <2>2. result' = "ok"
    BY <1>2 DEF SavedAll
  <2>. QED
    BY <1>1, <2>1, <2>2, FilesKept DEF TypeOK
<1>3. CASE SaveNext
  <2> DEFINE s == SchemaIds[saving]
             b == Entries(s, keys[s])
  <2>1. saving \in 1..Len(SchemaIds) /\ s \in Schemas /\ saving + 1 \in 0..(Len(SchemaIds) + 1)
    BY <1>3 DEF SaveNext
  <2>2. /\ UNCHANGED <<capture, result, pressed>>
        /\ SaveSchemaKeys(s) \/ (saving' = saving + 1 /\ UNCHANGED <<shownVars, current, prompts>>)
    BY <1>3 DEF SaveNext
  <2>3. keys[s] \in [Groups -> Keys]
    BY <1>1, <2>1 DEF Types
  <2>4. b \in Seq(BindingSet) /\ AsWritten(b)
    BY <2>1, <2>3, EntriesIs
  <2>5. result' # "none"
    BY <2>1, <2>2 DEF TypeOK
  <2>. HIDE DEF s
  <2>6. CASE saving' = saving + 1 /\ UNCHANGED <<shownVars, current, prompts>>
    <3>1. Types' /\ UNCHANGED file
      BY <1>1, <2>1, <2>2, <2>6 DEF shownVars, Types
    <3>. QED
      BY <1>1, <2>5, <3>1, FilesKept DEF TypeOK
  <2>7. CASE /\ b = <<>> /\ RemoveFile(s) /\ saving' = saving + 1
             /\ UNCHANGED <<keys, current, prompts>>
    <3>1. Types' /\ FilesOK'
      BY <1>1, <2>1, <2>2, <2>7, RemoveFileType DEF Types
    <3>. QED
      BY <2>5, <3>1 DEF TypeOK
  <2>8. CASE /\ Prompt(OverwritePrompt(s, b)) /\ saving' = 0
             /\ UNCHANGED <<shownVars, current>>
    <3>1. OverwritePrompt(s, b) \in Prompts
      BY <2>1, <2>3, PromptIs
    <3>2. prompts' \in Seq(Prompts)
      BY <1>1, <2>8, <3>1, Push DEF Prompt, Types
    <3>3. Types' /\ UNCHANGED file
      BY <1>1, <2>2, <2>8, <3>2 DEF shownVars, Types
    <3>. QED
      BY <1>1, <2>5, <3>3, FilesKept DEF TypeOK
  <2>9. CASE WriteFile(s, b, saving + 1) /\ UNCHANGED prompts
    <3>1. Types' /\ FilesOK'
      BY <1>1, <2>1, <2>2, <2>4, <2>9, WriteFileType DEF Types
    <3>. QED
      BY <2>5, <3>1 DEF TypeOK
  <2>. QED
    BY <2>2, <2>6, <2>7, <2>8, <2>9 DEF SaveSchemaKeys
<1>. QED
  BY <1>2, <1>3

LEMMA LoadType ==
  ASSUME FilesOK, NEW s \in Schemas
  PROVE  /\ LoadSchemaKeys(s, file[s]).keys = Bound(DefaultKeys[s], file[s].bindings)
         /\ LoadSchemaKeys(s, file[s]).keys \in [Groups -> Keys]
         /\ LoadSchemaKeys(s, file[s]).manual_content = HandWork(file[s])
         /\ LoadSchemaKeys(s, file[s]).manual_content \in BOOLEAN
<1>1. /\ file[s].bindings \in Seq(BindingSet)
      /\ file[s].marker \in BOOLEAN /\ file[s].other \in BOOLEAN
  BY DEF FilesOK, IsFile
<1>2. DefaultKeys[s] \in [Groups -> Keys]
  BY Constants
<1>3. Bound(DefaultKeys[s], file[s].bindings) \in [Groups -> Keys]
  BY <1>1, <1>2, BoundType
<1>4. HandWork(file[s]) \in BOOLEAN
  BY DEF HandWork
<1>. QED
  BY <1>3, <1>4 DEF LoadSchemaKeys

LEMMA TypeOfPoll ==
  ASSUME TypeOK, PollCapturedKey
  PROVE  TypeOK'
<1>1. Types /\ FilesOK
  BY DEF TypeOK
<1>2. /\ UNCHANGED <<current, saving, result>> /\ capture \in Groups /\ current \in Schemas
      /\ pressed' \in 0..MaxPressed /\ result # "none"
  BY Numbers DEF PollCapturedKey, TypeOK, Types
<1>3. CASE (StopCapture /\ UNCHANGED <<shownVars, prompts>>)
             \/ (Prompt(UsedPrompt) /\ UNCHANGED <<shownVars, capture>>)
  <2>1. prompts' \in Seq(Prompts)
    BY <1>1, <1>3, PromptIs, Push DEF Prompt, Types
  <2>2. Types' /\ UNCHANGED file
    BY <1>1, <1>2, <1>3, <2>1 DEF StopCapture, shownVars, Types
  <2>. QED
    BY <1>1, <1>2, <2>2, FilesKept DEF TypeOK
<1>4. ASSUME NEW key \in Keys, Change(key) PROVE TypeOK'
  <2>1. keys' \in [Schemas -> [Groups -> Keys]] /\ dirty' \in [Schemas -> BOOLEAN]
        /\ lost' \in SUBSET Schemas
    BY <1>1, <1>2, <1>4 DEF Change, Types
  <2>2. UNCHANGED <<manual_content, prompts, file, faults>> /\ capture' = NoGroup
    BY <1>4 DEF Change, StopCapture
  <2>3. Types'
    BY <1>1, <1>2, <2>1, <2>2 DEF Types
  <2>. QED
    BY <1>1, <1>2, <2>2, <2>3, FilesKept DEF TypeOK
<1>5. DefaultKeys[current][capture] \in Keys
  BY <1>2, Constants
<1>. QED
  BY <1>3, <1>4, <1>5 DEF PollCapturedKey, BackSpace

LEMMA TypeOfClick ==
  ASSUME TypeOK,
         \/ \E s \in Schemas : OnInitDialog(s) \/ OnSchemaSelChange(s)
         \/ \E g \in Groups : OnKeyBtn(g)
         \/ OnRestore \/ OnOk \/ OnCancel
  PROVE  TypeOK'
<1>. USE Numbers
<1>1. Types /\ FilesOK
  BY DEF TypeOK
<1>2. ASSUME NEW s \in Schemas, OnInitDialog(s) PROVE TypeOK'
  <2>1. keys' \in [Schemas -> [Groups -> Keys]] /\ manual_content' \in [Schemas -> BOOLEAN]
    BY <1>1, <1>2, LoadType DEF OnInitDialog
  <2>2. /\ dirty' \in [Schemas -> BOOLEAN] /\ lost' = {} /\ current' = s /\ capture' = NoGroup
        /\ result' = "open" /\ UNCHANGED <<prompts, saving, file, pressed, faults>>
    BY <1>2 DEF OnInitDialog, StopCapture
  <2>3. Types'
    BY <1>1, <2>1, <2>2 DEF Types
  <2>. QED
    BY <1>1, <2>2, <2>3, FilesKept DEF TypeOK
<1>3. ASSUME NEW s \in Schemas, OnSchemaSelChange(s) PROVE TypeOK'
  <2>1. Types' /\ UNCHANGED file /\ result' # "none"
    BY <1>1, <1>3 DEF OnSchemaSelChange, Enabled, StopCapture, shownVars, Types
  <2>. QED
    BY <1>1, <2>1, FilesKept DEF TypeOK
<1>4. ASSUME NEW g \in Groups, OnKeyBtn(g) PROVE TypeOK'
  <2>1. Types' /\ UNCHANGED file /\ result' # "none"
    BY <1>1, <1>4 DEF OnKeyBtn, Enabled, shownVars, Types
  <2>. QED
    BY <1>1, <2>1, FilesKept DEF TypeOK
<1>5. CASE OnRestore
  <2>1. RestorePrompt(current) \in Prompts
    BY <1>1, PromptIs DEF Types
  <2>2. prompts' \in Seq(Prompts)
    BY <1>1, <1>5, <2>1, Push DEF OnRestore, Prompt, Types
  <2>3. Types' /\ UNCHANGED file /\ result' # "none"
    BY <1>1, <1>5, <2>2 DEF OnRestore, Enabled, StopCapture, shownVars, Types
  <2>. QED
    BY <1>1, <2>3, FilesKept DEF TypeOK
<1>6. CASE OnOk
  <2>1. Types' /\ UNCHANGED file /\ result' # "none"
    BY <1>1, <1>6 DEF OnOk, Enabled, StopCapture, shownVars, Types
  <2>. QED
    BY <1>1, <2>1, FilesKept DEF TypeOK
<1>7. CASE OnCancel
  <2>1. Types' /\ UNCHANGED file /\ result' # "none"
    BY <1>1, <1>7 DEF OnCancel, Enabled, StopCapture, shownVars, Types
  <2>. QED
    BY <1>1, <2>1, FilesKept DEF TypeOK
<1>. QED
  BY <1>2, <1>3, <1>4, <1>5, <1>6, <1>7

\* The box on top and the boxes under it
LEMMA TopIs ==
  ASSUME TypeOK, NEW kind, Answers(kind)
  PROVE  /\ prompts' \in Seq(Prompts) /\ TopPrompt \in Prompts /\ TopPrompt.kind = kind
         /\ Len(prompts) \in DOMAIN prompts /\ TopPrompt = prompts[Len(prompts)]
         /\ \A i \in DOMAIN prompts' : i \in DOMAIN prompts /\ prompts'[i] = prompts[i]
         /\ UNCHANGED <<capture, result, pressed>> /\ result # "none" /\ saving = 0
<1>1. prompts \in Seq(Prompts) /\ prompts # <<>> /\ prompts' = Front(prompts)
      /\ TopPrompt = Last(prompts) /\ TopPrompt.kind = kind
      /\ UNCHANGED <<capture, result, pressed>> /\ saving = 0
  BY DEF TypeOK, Types, Answers, TopPrompt, Idle
<1>2. result # "none"
  BY <1>1 DEF TypeOK
<1>. QED
  BY <1>1, <1>2, Pop

LEMMA TypeOfAnswer ==
  ASSUME TypeOK, Dismiss \/ AnswerNo \/ ConfirmRestore \/ ConfirmOverwrite
  PROVE  TypeOK'
<1>. USE Numbers
<1>1. Types /\ FilesOK
  BY DEF TypeOK
<1>2. ASSUME NEW kind, Answers(kind)
      PROVE  /\ prompts' \in Seq(Prompts) /\ UNCHANGED <<capture, result, pressed>> /\ result # "none"
             /\ kind # "used" => TopPrompt.schema \in Schemas
             /\ kind = "overwrite" => \E shown \in [Groups -> Keys] :
                                        TopPrompt.bindings = Entries(TopPrompt.schema, shown)
  <2>1. /\ prompts' \in Seq(Prompts) /\ TopPrompt \in Prompts /\ TopPrompt.kind = kind
        /\ UNCHANGED <<capture, result, pressed>> /\ result # "none"
    BY <1>2, TopIs
  <2>. QED
    BY <2>1, PromptKinds
<1>3. ASSUME NEW kind, Answers(kind), UNCHANGED shownVars, current' \in Schemas, saving' \in {0, saving}
      PROVE  TypeOK'
  <2>1. Types' /\ UNCHANGED file
    BY <1>1, <1>2, <1>3 DEF shownVars, Types
  <2>. QED
    BY <1>1, <1>2, <1>3, <2>1, FilesKept DEF TypeOK
<1>4. CASE Dismiss \/ AnswerNo
  <2>1. CASE Dismiss
    BY <1>1, <1>3, <2>1 DEF Dismiss, Types
  <2>2. CASE Answers("restore") /\ UNCHANGED <<shownVars, current, saving>>
    BY <1>1, <1>3, <2>2 DEF Types
  <2>3. CASE Answers("overwrite") /\ StayOpen(TopPrompt.schema)
    BY <1>2, <1>3, <2>3 DEF StayOpen
  <2>. QED
    BY <1>4, <2>1, <2>2, <2>3 DEF AnswerNo
<1>5. CASE ConfirmRestore
  <2> DEFINE s == TopPrompt.schema
  <2>1. Answers("restore") /\ s \in Schemas /\ RemoveFile(s) /\ SetDefaults(s)
        /\ UNCHANGED <<current, saving>>
    BY <1>2, <1>5 DEF ConfirmRestore
  <2>. HIDE DEF s
  <2>2. keys' \in [Schemas -> [Groups -> Keys]]
    BY <1>1, <2>1, Constants DEF SetDefaults, Types
  <2>3. Types' /\ FilesOK'
    BY <1>1, <1>2, <2>1, <2>2, RemoveFileType DEF Types
  <2>. QED
    BY <1>2, <2>1, <2>3 DEF TypeOK
<1>6. CASE ConfirmOverwrite
  <2> DEFINE s == TopPrompt.schema
             b == TopPrompt.bindings
  <2>1. PICK i \in DOMAIN SchemaIds : Answers("overwrite") /\ WriteFile(s, b, i + 1)
    BY <1>6 DEF ConfirmOverwrite
  <2>2. s \in Schemas /\ b \in Seq(BindingSet) /\ AsWritten(b)
    BY <1>2, <2>1, EntriesIs
  <2>. HIDE DEF s, b
  <2>3. i + 1 \in 0..(Len(SchemaIds) + 1)
    OBVIOUS
  <2>4. Types' /\ FilesOK'
    BY <1>1, <1>2, <2>1, <2>2, <2>3, WriteFileType DEF Types
  <2>. QED
    BY <1>2, <2>1, <2>4 DEF TypeOK
<1>. QED
  BY <1>4, <1>5, <1>6

LEMMA TypeStep ==
  ASSUME TypeOK, [Next]_vars
  PROVE  TypeOK'
<1>1. CASE UNCHANGED vars
  <2>1. Types' /\ UNCHANGED <<file, prompts, saving, result>>
    BY <1>1 DEF vars, shownVars, TypeOK, Types
  <2>. QED
    BY <2>1, FilesKept DEF TypeOK
<1>. QED
  BY <1>1, TypeOfSave, TypeOfPoll, TypeOfClick, TypeOfAnswer DEF Next

\* The dialog is in a state the program can be in, and so are the files: one
\* the dialog has written binds no group twice (SaveSchemaKeys).
THEOREM TypeCorrect == Spec => []TypeOK
BY InitType, TypeStep, PTL DEF Spec

-----------------------------------------------------------------------------
(* What is shown is saved *)

\* The second part is what makes it safe to write without asking.
ShownOf(s) ==
  /\ ~dirty[s] /\ s \notin lost => keys[s] = Bound(DefaultKeys[s], file[s].bindings)
  /\ HandWork(file[s]) => manual_content[s] \/ s \in lost

ShownInv == result # "none" => \A s \in Schemas : ShownOf(s)

LEMMA ShownKept ==
  ASSUME NEW s, ShownOf(s),
         keys'[s] = keys[s], file'[s] = file[s], dirty'[s] = dirty[s],
         manual_content'[s] = manual_content[s], s \in lost' <=> s \in lost
  PROVE  ShownOf(s)'
BY DEF ShownOf

\* The file is gone, or it could not be removed and lost says so.
LEMMA ShownAfterRemove ==
  ASSUME TypeOK, \A t \in Schemas : ShownOf(t), NEW s \in Schemas, RemoveFile(s),
         keys' = keys \/ SetDefaults(s), keys'[s] = DefaultKeys[s]
  PROVE  \A t \in Schemas : ShownOf(t)'
<1>1. /\ dirty' = [dirty EXCEPT ![s] = FALSE]
      /\ manual_content' = [manual_content EXCEPT ![s] = FALSE]
      /\ \/ file' = [file EXCEPT ![s] = NoFile] /\ lost' = lost \ {s}
         \/ file' = file /\ lost' = lost \cup {s}
  BY DEF RemoveFile, Settled
<1>2. /\ DOMAIN dirty = Schemas /\ DOMAIN manual_content = Schemas /\ DOMAIN file = Schemas
      /\ DOMAIN keys = Schemas
  BY DEF TypeOK, Types, FilesOK
<1>3. ASSUME NEW t \in Schemas, t # s PROVE ShownOf(t)'
  <2>1. keys'[t] = keys[t]
    BY <1>2, <1>3 DEF SetDefaults
  <2>2. /\ file'[t] = file[t] /\ dirty'[t] = dirty[t] /\ manual_content'[t] = manual_content[t]
        /\ (t \in lost' <=> t \in lost)
    BY <1>1, <1>2, <1>3
  <2>. QED
    BY <2>1, <2>2, ShownKept
<1>4. ShownOf(s)'
  <2>1. CASE file' = [file EXCEPT ![s] = NoFile]
    <3>1. file'[s] = NoFile
      BY <1>2, <2>1
    <3>2. file'[s].bindings = <<>> /\ ~HandWork(file'[s])
      BY <3>1, FileIs
    <3>. QED
      BY <3>2, DefaultsBound DEF ShownOf
  <2>2. CASE lost' = lost \cup {s}
    BY <2>2 DEF ShownOf
  <2>. QED
    BY <1>1, <2>1, <2>2
<1>. QED
  BY <1>3, <1>4

\* What was collected is in the file; if it is no longer what is shown, lost
\* says so.
LEMMA ShownAfterWrite ==
  ASSUME TypeOK, \A t \in Schemas : ShownOf(t), NEW s \in Schemas,
         NEW b \in Seq(BindingSet), NEW next, WriteFile(s, b, next)
  PROVE  \A t \in Schemas : ShownOf(t)'
<1>1. CASE /\ Settled(s)
           /\ file' = [file EXCEPT ![s] = File(TRUE, b, FALSE)]
           /\ lost' = IF b = Entries(s, keys[s]) THEN lost \ {s} ELSE lost \cup {s}
           /\ UNCHANGED keys
  <2>1. /\ DOMAIN dirty = Schemas /\ DOMAIN manual_content = Schemas /\ DOMAIN file = Schemas
        /\ keys[s] \in [Groups -> Keys]
    BY DEF TypeOK, Types, FilesOK
  <2>2. ASSUME NEW t \in Schemas, t # s PROVE ShownOf(t)'
    <3>1. /\ file'[t] = file[t] /\ dirty'[t] = dirty[t] /\ manual_content'[t] = manual_content[t]
          /\ (t \in lost' <=> t \in lost) /\ keys'[t] = keys[t]
      BY <1>1, <2>1, <2>2 DEF Settled
    <3>. QED
      BY <3>1, ShownKept
  <2>3. ShownOf(s)'
    <3>1. file'[s] = File(TRUE, b, FALSE)
      BY <1>1, <2>1
    <3>2. file'[s].bindings = b /\ ~HandWork(file'[s])
      BY <3>1, FileIs
    <3>3. CASE b = Entries(s, keys[s])
      BY <1>1, <2>1, <3>2, <3>3, BoundIsShown DEF ShownOf
    <3>4. CASE b # Entries(s, keys[s])
      BY <1>1, <3>2, <3>4 DEF ShownOf
    <3>. QED
      BY <3>3, <3>4
  <2>. QED
    BY <2>2, <2>3
<1>2. CASE UNCHANGED <<keys, manual_content, dirty, file, lost>>
  BY <1>2 DEF ShownOf
<1>. QED
  BY <1>1, <1>2 DEF WriteFile

\* A key that changes is marked for saving.
LEMMA ShownAfterChange ==
  ASSUME TypeOK, \A t \in Schemas : ShownOf(t), NEW key, Change(key)
  PROVE  \A t \in Schemas : ShownOf(t)'
<1>1. /\ keys' = [keys EXCEPT ![current][capture] = key]
      /\ dirty' = [dirty EXCEPT ![current] = TRUE]
      /\ lost' = lost \/ lost' = lost \cup {current}
      /\ UNCHANGED <<manual_content, file>>
  BY DEF Change
<1>2. DOMAIN dirty = Schemas /\ DOMAIN keys = Schemas /\ current \in Schemas
  BY DEF TypeOK, Types
<1>3. ASSUME NEW t \in Schemas, t # current PROVE ShownOf(t)'
  <2>1. /\ keys'[t] = keys[t] /\ dirty'[t] = dirty[t] /\ (t \in lost' <=> t \in lost)
        /\ manual_content'[t] = manual_content[t] /\ file'[t] = file[t]
    BY <1>1, <1>2, <1>3
  <2>. QED
    BY <2>1, ShownKept
<1>4. ASSUME NEW t \in Schemas, t = current PROVE ShownOf(t)'
  <2>1. dirty'[t] = TRUE
    BY <1>1, <1>2, <1>4
  <2>2. HandWork(file[t]) => manual_content[t] \/ t \in lost
    BY DEF ShownOf
  <2>. QED
    BY <1>1, <2>1, <2>2 DEF ShownOf
<1>. QED
  BY <1>3, <1>4

\* Steps that write no file and change no key
Quiet == UNCHANGED shownVars /\ result' \in {"open", "ok", "cancel"} /\ result # "none"

LEMMA ShownIfQuiet ==
  ASSUME ShownInv, Quiet
  PROVE  ShownInv'
BY DEF ShownInv, Quiet, ShownOf, shownVars

LEMMA ShownStep ==
  ASSUME TypeOK, TypeOK', ShownInv, [Next]_vars
  PROVE  ShownInv'
<1>1. Types /\ FilesOK
  BY DEF TypeOK
<1>2. CASE Quiet
  BY <1>2, ShownIfQuiet
<1>3. CASE UNCHANGED vars
  BY <1>3 DEF ShownInv, ShownOf, vars, shownVars
<1>4. ASSUME NEW s \in Schemas, OnInitDialog(s) PROVE ShownInv'
  <2>1. ASSUME NEW t \in Schemas PROVE ShownOf(t)'
    <3>1. /\ keys'[t] = Bound(DefaultKeys[t], file[t].bindings)
          /\ manual_content'[t] = HandWork(file[t])
      BY <1>1, <1>4, LoadType DEF OnInitDialog
    <3>2. file' = file
      BY <1>4 DEF OnInitDialog
    <3>. QED
      BY <3>1, <3>2 DEF ShownOf
  <2>. QED
    BY <2>1 DEF ShownInv
<1>5. ASSUME NEW s \in Schemas, OnSchemaSelChange(s) PROVE Quiet
  BY <1>5 DEF OnSchemaSelChange, Enabled, Quiet
<1>6. ASSUME NEW g \in Groups, OnKeyBtn(g) PROVE Quiet
  BY <1>6 DEF OnKeyBtn, Enabled, Quiet
<1>7. CASE OnRestore \/ OnOk \/ OnCancel
  BY <1>7, <1>2 DEF OnRestore, OnOk, OnCancel, Enabled, Quiet
<1>8. result # "none" => \A t \in Schemas : ShownOf(t)
  BY DEF ShownInv
<1>9. CASE PollCapturedKey
  <2>1. result # "none" /\ result' = result /\ result \in {"none", "open", "ok", "cancel"}
    BY <1>1, <1>9 DEF PollCapturedKey, TypeOK, Types
  <2>2. CASE UNCHANGED shownVars
    BY <1>2, <2>1, <2>2 DEF Quiet
  <2>3. ASSUME NEW key, Change(key) PROVE ShownInv'
    BY <1>8, <2>1, <2>3, ShownAfterChange DEF ShownInv
  <2>. QED
    BY <1>9, <2>2, <2>3 DEF PollCapturedKey, BackSpace
<1>10. CASE SavedAll
  <2>1. Quiet
    BY <1>10, Numbers DEF SavedAll, Quiet, TypeOK
  <2>. QED
    BY <1>2, <2>1
<1>11. CASE SaveNext
  <2> DEFINE s == SchemaIds[saving]
             b == Entries(s, keys[s])
  <2>1. saving \in DOMAIN SchemaIds /\ s \in Schemas /\ result' = result
    BY <1>11, Numbers DEF SaveNext
  <2>2. result # "none" /\ result \in {"none", "open", "ok", "cancel"}
    BY <1>1, <2>1, Numbers DEF TypeOK, Types
  <2>3. CASE UNCHANGED shownVars
    BY <1>2, <2>1, <2>2, <2>3 DEF Quiet
  <2>4. keys[s] \in [Groups -> Keys]
    BY <1>1, <2>1 DEF Types
  <2>5. CASE b = <<>> /\ RemoveFile(s) /\ UNCHANGED keys
    <3>1. keys'[s] = DefaultKeys[s]
      BY <2>1, <2>4, <2>5, NothingCollected
    <3>. QED
      BY <1>8, <2>1, <2>2, <2>5, <3>1, ShownAfterRemove DEF ShownInv
  <2>6. CASE WriteFile(s, b, saving + 1)
    <3>1. b \in Seq(BindingSet)
      BY <2>1, <2>4, EntriesIs
    <3>. HIDE DEF b, s
    <3>. QED
      BY <1>8, <2>1, <2>2, <2>6, <3>1, ShownAfterWrite DEF ShownInv
  <2>. QED
    BY <1>11, <2>3, <2>5, <2>6 DEF SaveNext, SaveSchemaKeys
<1>12. CASE Dismiss \/ AnswerNo
  <2>1. ASSUME NEW kind, Answers(kind), UNCHANGED shownVars PROVE Quiet
    BY <1>1, <2>1, TopIs DEF Quiet, Types
  <2>2. UNCHANGED shownVars /\ \E kind \in {"used", "restore", "overwrite"} : Answers(kind)
    BY <1>12 DEF Dismiss, AnswerNo, StayOpen
  <2>. QED
    BY <1>2, <2>1, <2>2
<1>13. CASE ConfirmRestore
  <2> DEFINE s == TopPrompt.schema
  <2>1. Answers("restore") /\ RemoveFile(s) /\ SetDefaults(s)
    BY <1>13 DEF ConfirmRestore
  <2>2. s \in Schemas /\ result # "none" /\ result' = result
    BY <2>1, TopIs, PromptKinds
  <2>. HIDE DEF s
  <2>3. keys'[s] = DefaultKeys[s]
    BY <1>1, <2>1, <2>2 DEF SetDefaults, Types
  <2>. QED
    BY <1>8, <2>1, <2>2, <2>3, ShownAfterRemove DEF ShownInv
<1>14. CASE ConfirmOverwrite
  <2> DEFINE s == TopPrompt.schema
             b == TopPrompt.bindings
  <2>1. PICK i \in DOMAIN SchemaIds : Answers("overwrite") /\ WriteFile(s, b, i + 1)
    BY <1>14 DEF ConfirmOverwrite
  <2>2. TopPrompt \in Prompts /\ TopPrompt.kind = "overwrite" /\ result # "none" /\ result' = result
    BY <2>1, TopIs
  <2>3. s \in Schemas /\ b \in Seq(BindingSet)
    BY <2>2, PromptKinds, EntriesIs
  <2>. HIDE DEF s, b
  <2>. QED
    BY <1>8, <2>1, <2>2, <2>3, ShownAfterWrite DEF ShownInv
<1>. QED
  BY <1>2, <1>3, <1>4, <1>5, <1>6, <1>7, <1>9, <1>10, <1>11, <1>12, <1>13, <1>14 DEF Next

\* A schema that has nothing left to save shows what is in its file, whatever
\* is captured, restored and refused (dirty_).
THEOREM NothingUnsavedIsShown == Spec => []ShownIsSaved
<1>1. Init => ShownInv
  BY DEF Init, ShownInv
<1>2. ShownInv => ShownIsSaved
  BY DEF ShownInv, ShownOf, ShownIsSaved
<1>3. TypeOK /\ TypeOK' /\ ShownInv /\ [Next]_vars => ShownInv'
  BY ShownStep
<1>. QED
  BY TypeCorrect, <1>1, <1>2, <1>3, PTL DEF Spec

\* A key that one group alone shows sends this group's digit once it is saved
\* (KeyBinder), also where it is the default key of another group or the schema
\* file binds it, unless a condition holds under which the schema file does.
THEOREM ShownKeyDecides == Spec => []ShownKeyTypes
<1>1. Init => ShownInv
  BY DEF Init, ShownInv
<1>2. TypeOK /\ ShownInv => ShownKeyTypes
  <2>. SUFFICES ASSUME TypeOK, ShownInv, result \in {"open", "ok"}, NEW s \in Schemas,
                       ~dirty[s], s \notin lost, ~HandWork(file[s]), NEW g \in Groups,
                       \A h \in Groups \ {g} : keys[s][h] # keys[s][g],
                       NEW conditions \in Holding,
                       ~BoundMoreSpecific(s, keys[s][g], conditions)
                PROVE  Sends(s, file[s], keys[s][g], conditions) = g
    BY DEF ShownKeyTypes
  <2>1. keys[s] = Bound(DefaultKeys[s], file[s].bindings)
    BY DEF ShownInv, ShownOf
  <2>2. file[s].bindings \in Seq(BindingSet) /\ AsWritten(file[s].bindings)
    BY DEF TypeOK, FilesOK, IsFile
  <2>3. conditions \in SUBSET Conditions /\ "always" \in conditions
    BY ConditionsAre DEF Holding
  <2>. QED
    BY <2>1, <2>2, <2>3, SendsItsGroup
<1>3. TypeOK /\ TypeOK' /\ ShownInv /\ [Next]_vars => ShownInv'
  BY ShownStep
<1>. QED
  BY TypeCorrect, <1>1, <1>2, <1>3, PTL DEF Spec

\* The work of the user in a file goes only after a box that asked about this
\* file, or when all keys are the defaults (manual_content_, SaveSchemaKeys).
THEOREM HandWorkSafe == Spec => HandWorkIsAsked
<1>1. Init => ShownInv
  BY DEF Init, ShownInv
<1>2. TypeOK /\ TypeOK' /\ ShownInv /\ [Next]_vars => ShownInv'
  BY ShownStep
<1>3. ASSUME TypeOK, ShownInv, Next, NEW s \in Schemas, HandWork(file[s]),
             result = "open", file'[s] # file[s]
      PROVE  \/ prompts # <<>> /\ TopPrompt.kind # "used" /\ TopPrompt.schema = s
             \/ keys[s] = DefaultKeys[s]
             \/ s \in lost
  <2>1. DOMAIN file = Schemas
    BY <1>3 DEF TypeOK, FilesOK
  <2>2. ASSUME NEW t \in Schemas, RemoveFile(t) PROVE s = t
    BY <1>3, <2>1, <2>2 DEF RemoveFile
  <2>3. ASSUME NEW t \in Schemas, NEW b, NEW next, WriteFile(t, b, next) PROVE s = t
    BY <1>3, <2>1, <2>3 DEF WriteFile
  <2>4. manual_content[s] \/ s \in lost
    BY <1>3 DEF ShownInv, ShownOf
  <2>5. CASE SaveNext
    <3> DEFINE t == SchemaIds[saving]
    <3>1. t \in Schemas /\ (SaveSchemaKeys(t) \/ UNCHANGED shownVars)
      BY <2>5, Numbers DEF SaveNext
    <3>2. CASE UNCHANGED shownVars
      BY <1>3, <3>2 DEF shownVars
    <3>3. CASE SaveSchemaKeys(t)
      <4>1. keys[t] \in [Groups -> Keys]
        BY <1>3, <3>1 DEF TypeOK, Types
      <4>2. CASE Entries(t, keys[t]) = <<>> /\ RemoveFile(t)
        BY <2>2, <3>1, <4>1, <4>2, NothingCollected
      <4>3. CASE ~manual_content[t] /\ WriteFile(t, Entries(t, keys[t]), saving + 1)
        BY <2>3, <2>4, <3>1, <4>3
      <4>4. CASE UNCHANGED shownVars
        BY <1>3, <4>4 DEF shownVars
      <4>. QED
        BY <3>3, <4>2, <4>3, <4>4 DEF SaveSchemaKeys
    <3>. QED
      BY <3>1, <3>2, <3>3
  <2>6. ASSUME NEW kind, Answers(kind)
        PROVE  prompts # <<>> /\ TopPrompt.kind = kind /\ (kind # "used" => TopPrompt.schema \in Schemas)
    <3>1. TopPrompt \in Prompts /\ TopPrompt.kind = kind
      BY <1>3, <2>6, TopIs
    <3>. QED
      BY <2>6, <3>1, PromptKinds DEF Answers
  <2>7. CASE ConfirmRestore \/ ConfirmOverwrite
    <3>1. CASE ConfirmRestore
      BY <2>2, <2>6, <3>1 DEF ConfirmRestore
    <3>2. CASE ConfirmOverwrite
      BY <2>3, <2>6, <3>2 DEF ConfirmOverwrite
    <3>. QED
      BY <2>7, <3>1, <3>2
  <2>8. UNCHANGED file \/ SaveNext \/ ConfirmRestore \/ ConfirmOverwrite
    BY <1>3 DEF Next, OnInitDialog, OnSchemaSelChange, OnKeyBtn, PollCapturedKey, BackSpace, Change,
                OnRestore, OnOk, OnCancel, SavedAll, Dismiss, AnswerNo, StayOpen, shownVars
  <2>. QED
    BY <1>3, <2>5, <2>7, <2>8
<1>4. TypeOK /\ ShownInv /\ [Next]_vars =>
        [\A schema \in Schemas :
           HandWork(file[schema]) /\ result = "open" /\ file'[schema] # file[schema] =>
             \/ prompts # <<>> /\ TopPrompt.kind # "used" /\ TopPrompt.schema = schema
             \/ keys[schema] = DefaultKeys[schema]
             \/ schema \in lost]_vars
  BY <1>3
<1>5. Spec => [](TypeOK /\ ShownInv)
  BY TypeCorrect, <1>1, <1>2, PTL DEF Spec
<1>. QED
  BY <1>4, <1>5, PTL DEF Spec, HandWorkIsAsked

-----------------------------------------------------------------------------
(* After OK nothing is left to save *)

CleanOf(s) == ~dirty[s] \/ s \in lost
Clean(n) == \A i \in DOMAIN SchemaIds : i < n => CleanOf(SchemaIds[i])

\* The loop of OnOk leaves nothing to save behind it, neither while it runs nor
\* while a box about overwriting keeps it waiting.
BoxClean(p) ==
  p.kind = "overwrite" => \A i \in DOMAIN SchemaIds : SchemaIds[i] = p.schema => Clean(i)

OkInv ==
  /\ Clean(saving)
  /\ \A k \in DOMAIN prompts : BoxClean(prompts[k])
  /\ result = "ok" => Clean(Len(SchemaIds) + 1)

\* The same in the next state
CleanedOf(s) == ~dirty'[s] \/ s \in lost'
Cleaned(n) == \A i \in DOMAIN SchemaIds : i < n => CleanedOf(SchemaIds[i])
BoxCleaned(p) ==
  p.kind = "overwrite" => \A i \in DOMAIN SchemaIds : SchemaIds[i] = p.schema => Cleaned(i)

LEMMA OkNext ==
  ASSUME Cleaned(saving'),
         \A k \in DOMAIN prompts' : BoxCleaned(prompts'[k]),
         result' = "ok" => Cleaned(Len(SchemaIds) + 1)
  PROVE  OkInv'
BY DEF OkInv, Clean, CleanOf, BoxClean, Cleaned, CleanedOf, BoxCleaned

\* A schema becomes unclean only when a key changes in time.
KeepsClean == \A s \in Schemas : CleanOf(s) => CleanedOf(s)

LEMMA CleanKept ==
  ASSUME KeepsClean
  PROVE  /\ \A n : Clean(n) => Cleaned(n)
         /\ \A p : BoxClean(p) => BoxCleaned(p)
<1>1. ASSUME NEW n, Clean(n) PROVE Cleaned(n)
  BY <1>1, Numbers DEF Clean, Cleaned, KeepsClean
<1>. QED
  BY <1>1 DEF BoxClean, BoxCleaned

\* The boxes that stay open and the schemas that were done stay so.
LEMMA OkKept ==
  ASSUME OkInv, KeepsClean, Clean(saving') \/ Cleaned(saving'),
         \A k \in DOMAIN prompts' : k \in DOMAIN prompts /\ prompts'[k] = prompts[k],
         result' = "ok" => result = "ok"
  PROVE  OkInv'
<1>1. Cleaned(saving')
  BY CleanKept
<1>2. \A k \in DOMAIN prompts' : BoxCleaned(prompts'[k])
  BY CleanKept DEF OkInv
<1>3. result' = "ok" => Cleaned(Len(SchemaIds) + 1)
  BY CleanKept DEF OkInv
<1>. QED
  BY <1>1, <1>2, <1>3, OkNext

LEMMA CleanZero == Clean(0)
BY Numbers DEF Clean

LEMMA CleanNext ==
  ASSUME NEW i \in DOMAIN SchemaIds, Cleaned(i), CleanedOf(SchemaIds[i])
  PROVE  Cleaned(i + 1)
<1>. SUFFICES ASSUME NEW j \in DOMAIN SchemaIds, j < i + 1 PROVE CleanedOf(SchemaIds[j])
  BY DEF Cleaned
<1>1. j = i \/ j < i
  BY Numbers
<1>. QED
  BY <1>1 DEF Cleaned

LEMMA RemoveFileCleans ==
  ASSUME TypeOK, NEW s \in Schemas, RemoveFile(s)
  PROVE  KeepsClean /\ CleanedOf(s)
<1>1. dirty' = [dirty EXCEPT ![s] = FALSE] /\ (lost' = lost \ {s} \/ lost' = lost \cup {s})
  BY DEF RemoveFile, Settled
<1>2. DOMAIN dirty = Schemas
  BY DEF TypeOK, Types
<1>3. CleanedOf(s)
  BY <1>1, <1>2 DEF CleanOf, CleanedOf
<1>4. ASSUME NEW t \in Schemas, t # s, CleanOf(t) PROVE CleanedOf(t)
  BY <1>1, <1>2, <1>4 DEF CleanOf, CleanedOf
<1>. QED
  BY <1>3, <1>4 DEF KeepsClean

LEMMA WriteFileCleans ==
  ASSUME TypeOK, NEW s \in Schemas, NEW b, NEW next, WriteFile(s, b, next)
  PROVE  KeepsClean /\ (saving' = 0 \/ (saving' = next /\ CleanedOf(s)))
<1>1. CASE /\ dirty' = [dirty EXCEPT ![s] = FALSE]
           /\ lost' = lost \ {s} \/ lost' = lost \cup {s}
           /\ saving' = next
  <2>1. DOMAIN dirty = Schemas
    BY DEF TypeOK, Types
  <2>2. CleanedOf(s)
    BY <1>1, <2>1 DEF CleanOf, CleanedOf
  <2>3. ASSUME NEW t \in Schemas, t # s, CleanOf(t) PROVE CleanedOf(t)
    BY <1>1, <2>1, <2>3 DEF CleanOf, CleanedOf
  <2>. QED
    BY <1>1, <2>2, <2>3 DEF KeepsClean
<1>2. CASE saving' = 0 /\ UNCHANGED <<dirty, lost>>
  BY <1>2 DEF KeepsClean, CleanOf, CleanedOf
<1>. QED
  BY <1>1, <1>2 DEF WriteFile, Settled

LEMMA CleanAfterChange ==
  ASSUME TypeOK, NEW key, Change(key), TooLate
  PROVE  KeepsClean
<1>1. dirty' = [dirty EXCEPT ![current] = TRUE] /\ lost' = lost \cup {current}
  BY DEF Change
<1>2. DOMAIN dirty = Schemas
  BY DEF TypeOK, Types
<1>3. ASSUME NEW t \in Schemas, CleanOf(t) PROVE CleanedOf(t)
  BY <1>1, <1>2, <1>3 DEF CleanOf, CleanedOf
<1>. QED
  BY <1>3 DEF KeepsClean

LEMMA KeptIfShown ==
  ASSUME UNCHANGED shownVars
  PROVE  KeepsClean
BY DEF shownVars, KeepsClean, CleanOf, CleanedOf

\* A box that opens is about the schema the loop is at.
LEMMA OkAfterPrompt ==
  ASSUME TypeOK, OkInv, UNCHANGED shownVars, NEW p, BoxClean(p), p \in Prompts, Prompt(p),
         saving' \in {0, saving}, result' = result
  PROVE  OkInv'
<1>1. KeepsClean
  BY KeptIfShown
<1>2. Cleaned(saving')
  BY <1>1, CleanKept, CleanZero DEF OkInv
<1>3. ASSUME NEW k \in DOMAIN prompts' PROVE BoxCleaned(prompts'[k])
  <2>1. prompts \in Seq(Prompts) /\ prompts' = Append(prompts, p)
    BY DEF TypeOK, Types, Prompt
  <2>2. (k \in DOMAIN prompts /\ prompts'[k] = prompts[k]) \/ prompts'[k] = p
    BY <2>1, Push
  <2>. QED
    BY <1>1, <2>2, CleanKept DEF OkInv
<1>4. result' = "ok" => Cleaned(Len(SchemaIds) + 1)
  BY <1>1, CleanKept DEF OkInv
<1>. QED
  BY <1>2, <1>3, <1>4, OkNext

LEMMA OkOfSave ==
  ASSUME TypeOK, OkInv, SaveNext \/ SavedAll
  PROVE  OkInv'
<1>1. CASE SavedAll
  <2>1. KeepsClean /\ saving' = 0 /\ prompts' = prompts
    BY <1>1, KeptIfShown DEF SavedAll
  <2>2. Clean(Len(SchemaIds) + 1)
    BY <1>1 DEF SavedAll, OkInv
  <2>3. Cleaned(saving') /\ Cleaned(Len(SchemaIds) + 1)
    BY <2>1, <2>2, CleanKept, CleanZero
  <2>4. \A k \in DOMAIN prompts' : BoxCleaned(prompts'[k])
    BY <2>1, CleanKept DEF OkInv
  <2>. QED
    BY <2>3, <2>4, OkNext
<1>2. CASE SaveNext
  <2> DEFINE s == SchemaIds[saving]
             b == Entries(s, keys[s])
  <2>1. saving \in DOMAIN SchemaIds /\ s \in Schemas /\ result' = result
    BY <1>2, Numbers DEF SaveNext
  <2>2. keys[s] \in [Groups -> Keys]
    BY <2>1 DEF TypeOK, Types
  <2>3. ASSUME KeepsClean, saving' = 0 \/ (saving' = saving + 1 /\ CleanedOf(s)), prompts' = prompts
        PROVE  OkInv'
    <3>1. Cleaned(saving)
      BY <2>3, CleanKept DEF OkInv
    <3>2. Cleaned(saving + 1) \/ saving' = 0
      BY <2>1, <2>3, <3>1, CleanNext
    <3>3. Clean(saving') \/ Cleaned(saving')
      BY <2>3, <3>2, CleanZero
    <3>. QED
      BY <2>1, <2>3, <3>3, OkKept
  <2>4. CASE ~Unsaved(s) /\ saving' = saving + 1 /\ UNCHANGED <<shownVars, current, prompts>>
    <3>1. KeepsClean /\ CleanOf(s)
      BY <2>4, KeptIfShown DEF Unsaved, CleanOf
    <3>2. CleanedOf(s)
      BY <2>1, <3>1 DEF KeepsClean
    <3>. QED
      BY <2>3, <2>4, <3>1, <3>2
  <2>5. CASE RemoveFile(s) /\ saving' = saving + 1 /\ UNCHANGED prompts
    BY <2>1, <2>3, <2>5, RemoveFileCleans
  <2>6. CASE WriteFile(s, b, saving + 1) /\ UNCHANGED prompts
    BY <2>1, <2>3, <2>6, WriteFileCleans
  <2>7. CASE Prompt(OverwritePrompt(s, b)) /\ saving' = 0 /\ UNCHANGED shownVars
    <3>1. OverwritePrompt(s, b) \in Prompts
      BY <2>1, <2>2, PromptIs
    <3>2. OverwritePrompt(s, b).schema = s
      BY DEF OverwritePrompt
    <3>3. \A i \in DOMAIN SchemaIds : SchemaIds[i] = s => Clean(i)
      BY <2>1, Numbers DEF OkInv
    <3>4. BoxClean(OverwritePrompt(s, b))
      BY <3>2, <3>3 DEF BoxClean
    <3>. QED
      BY <2>1, <2>7, <3>1, <3>4, OkAfterPrompt
  <2>. QED
    BY <1>2, <2>4, <2>5, <2>6, <2>7 DEF SaveNext, SaveSchemaKeys
<1>. QED
  BY <1>1, <1>2

LEMMA OkOfAnswer ==
  ASSUME TypeOK, OkInv, Dismiss \/ AnswerNo \/ ConfirmRestore \/ ConfirmOverwrite
  PROVE  OkInv'
<1>1. ASSUME NEW kind, Answers(kind), KeepsClean, Clean(saving') \/ Cleaned(saving')
      PROVE  OkInv'
  <2>1. /\ \A k \in DOMAIN prompts' : k \in DOMAIN prompts /\ prompts'[k] = prompts[k]
        /\ result' = result
    BY <1>1, TopIs
  <2>. QED
    BY <1>1, <2>1, OkKept
<1>2. CASE Dismiss \/ AnswerNo
  <2>1. /\ UNCHANGED shownVars /\ saving' \in {0, saving}
        /\ \E kind \in {"used", "restore", "overwrite"} : Answers(kind)
    BY <1>2 DEF Dismiss, AnswerNo, StayOpen
  <2>2. Clean(saving')
    BY <2>1, CleanZero DEF OkInv
  <2>. QED
    BY <1>1, <2>1, <2>2, KeptIfShown
<1>3. CASE ConfirmRestore
  <2>1. Answers("restore") /\ RemoveFile(TopPrompt.schema) /\ saving' = saving
    BY <1>3 DEF ConfirmRestore
  <2>2. TopPrompt.schema \in Schemas
    BY <2>1, TopIs, PromptKinds
  <2>3. KeepsClean
    BY <2>1, <2>2, RemoveFileCleans
  <2>. QED
    BY <1>1, <2>1, <2>3 DEF OkInv
<1>4. CASE ConfirmOverwrite
  <2> DEFINE s == TopPrompt.schema
  <2>1. PICK i \in DOMAIN SchemaIds :
               Answers("overwrite") /\ SchemaIds[i] = s /\ WriteFile(s, TopPrompt.bindings, i + 1)
    BY <1>4 DEF ConfirmOverwrite
  <2>2. /\ s \in Schemas /\ TopPrompt.kind = "overwrite"
        /\ Len(prompts) \in DOMAIN prompts /\ TopPrompt = prompts[Len(prompts)]
    BY <2>1, TopIs, PromptKinds
  <2>3. Clean(i)
    BY <2>1, <2>2 DEF OkInv, BoxClean
  <2>4. KeepsClean /\ (saving' = 0 \/ (saving' = i + 1 /\ CleanedOf(s)))
    BY <2>1, <2>2, WriteFileCleans
  <2>5. Cleaned(i)
    BY <2>3, <2>4, CleanKept
  <2>6. CASE saving' = 0
    BY <1>1, <2>1, <2>4, <2>6, CleanZero
  <2>7. CASE saving' = i + 1 /\ CleanedOf(s)
    <3>1. CleanedOf(SchemaIds[i])
      BY <2>1, <2>7 DEF CleanedOf
    <3>2. Cleaned(i + 1)
      BY <2>5, <3>1, CleanNext
    <3>. QED
      BY <1>1, <2>1, <2>4, <2>7, <3>2
  <2>. QED
    BY <2>4, <2>6, <2>7
<1>. QED
  BY <1>2, <1>3, <1>4

LEMMA OkOfPoll ==
  ASSUME TypeOK, OkInv, PollCapturedKey
  PROVE  OkInv'
<1>1. saving' = saving /\ saving = 0 /\ result' = result
  BY DEF PollCapturedKey, Idle
<1>2. CASE UNCHANGED <<shownVars, prompts>>
  BY <1>1, <1>2, KeptIfShown, CleanZero, OkKept
<1>3. CASE Prompt(UsedPrompt) /\ UNCHANGED shownVars
  <2>1. BoxClean(UsedPrompt) /\ UsedPrompt \in Prompts
    BY PromptIs DEF BoxClean, UsedPrompt
  <2>. QED
    BY <1>1, <1>3, <2>1, OkAfterPrompt
<1>4. ASSUME NEW key, Change(key) PROVE OkInv'
  <2>1. prompts' = prompts
    BY <1>4 DEF Change
  <2>2. CASE TooLate
    BY <1>1, <1>4, <2>1, <2>2, CleanAfterChange, CleanZero, OkKept
  <2>3. CASE ~TooLate
    <3>1. result # "ok" /\ \A k \in DOMAIN prompts : prompts[k].kind # "overwrite"
      BY <2>3 DEF TooLate
    <3>2. Cleaned(saving')
      BY <1>1, Numbers DEF Cleaned
    <3>. QED
      BY <1>1, <2>1, <3>1, <3>2, OkNext DEF BoxCleaned
  <2>. QED
    BY <2>2, <2>3
<1>. QED
  BY <1>2, <1>3, <1>4 DEF PollCapturedKey, BackSpace

LEMMA OkOfClick ==
  ASSUME TypeOK, OkInv,
         \/ \E s \in Schemas : OnInitDialog(s) \/ OnSchemaSelChange(s)
         \/ \E g \in Groups : OnKeyBtn(g)
         \/ OnRestore \/ OnOk \/ OnCancel
  PROVE  OkInv'
<1>1. ASSUME NEW s \in Schemas, OnInitDialog(s) PROVE OkInv'
  <2>1. /\ dirty' = [t \in Schemas |-> FALSE] /\ prompts' = prompts /\ prompts = <<>>
        /\ result' = "open"
    BY <1>1 DEF OnInitDialog
  <2>2. ASSUME NEW n PROVE Cleaned(n)
    BY <2>1, Numbers DEF Cleaned, CleanedOf
  <2>. QED
    BY <2>1, <2>2, OkNext
<1>2. ASSUME UNCHANGED <<shownVars, prompts>>, saving' \in {saving, 1}, result' \in {result, "cancel"}
      PROVE  OkInv'
  <2>1. Clean(1)
    BY Numbers DEF Clean
  <2>2. Clean(saving')
    BY <1>2, <2>1 DEF OkInv
  <2>. QED
    BY <1>2, <2>2, KeptIfShown, OkKept
<1>3. ASSUME NEW s \in Schemas, OnSchemaSelChange(s) PROVE OkInv'
  BY <1>2, <1>3 DEF OnSchemaSelChange
<1>4. ASSUME NEW g \in Groups, OnKeyBtn(g) PROVE OkInv'
  BY <1>2, <1>4 DEF OnKeyBtn
<1>5. CASE OnOk \/ OnCancel
  BY <1>2, <1>5 DEF OnOk, OnCancel
<1>6. CASE OnRestore
  <2>1. RestorePrompt(current) \in Prompts /\ BoxClean(RestorePrompt(current))
    BY PromptIs DEF TypeOK, Types, BoxClean, RestorePrompt
  <2>. QED
    BY <1>6, <2>1, OkAfterPrompt DEF OnRestore
<1>. QED
  BY <1>1, <1>3, <1>4, <1>5, <1>6

\* After OK nothing is left to save in any schema: the loop of OnOk saves all,
\* through boxes that it waits for and captures that go on meanwhile.
THEOREM OkLeavesNothing == Spec => []OkSavesAll
<1>1. Init => OkInv
  BY CleanZero DEF Init, OkInv
<1>2. TypeOK /\ OkInv => OkSavesAll
  <2>. SUFFICES ASSUME OkInv, result = "ok", NEW s \in Schemas \ lost PROVE ~dirty[s]
    BY DEF OkSavesAll
  <2>1. PICK i \in DOMAIN SchemaIds : SchemaIds[i] = s
    BY Numbers
  <2>2. i < Len(SchemaIds) + 1
    BY Numbers
  <2>. QED
    BY <2>1, <2>2 DEF OkInv, Clean, CleanOf
<1>3. TypeOK /\ OkInv /\ [Next]_vars => OkInv'
  <2>. SUFFICES ASSUME TypeOK, OkInv, [Next]_vars PROVE OkInv'
    OBVIOUS
  <2>1. CASE UNCHANGED vars
    BY <2>1 DEF vars, shownVars, OkInv, BoxClean, Clean, CleanOf
  <2>. QED
    BY <2>1, OkOfSave, OkOfAnswer, OkOfPoll, OkOfClick DEF Next
<1>. QED
  BY TypeCorrect, <1>1, <1>2, <1>3, PTL DEF Spec

=============================================================================
