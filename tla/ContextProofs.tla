--------------------------- MODULE ContextProofs ----------------------------
(***************************************************************************)
(* What holds of a composition for any alphabet, any translator, any menu   *)
(* size and codes of any length.  The first part is about the operations of *)
(* Segmentation: what they preserve of the shape of a list of segments.     *)
(***************************************************************************)
EXTENDS Context, SequenceTheorems, WellFoundedInduction, TLAPS

-----------------------------------------------------------------------------
(* Numbers.  Induction is on a least counterexample.                        *)

LEMMA LeastNumber ==
  ASSUME NEW S \in SUBSET Nat, S # {}
  PROVE  \E x \in S : \A y \in S : x <= y
<1>1. PICK x \in S : \A y \in S : ~(<<y, x>> \in OpToRel(<, Nat))
  BY NatLessThanWellFounded, WFMin
<1>2. ASSUME NEW y \in S PROVE x <= y
  <2>1. ~(y < x)
    BY <1>1, <1>2 DEF OpToRel
  <2>. QED
    BY <2>1
<1>. QED
  BY <1>2

LEMMA MinIsLeast ==
  ASSUME NEW S \in SUBSET Nat, S # {}
  PROVE  Min(S) \in S /\ \A y \in S : Min(S) <= y
BY LeastNumber DEF Min

LEMMA MaxIsGreatest ==
  ASSUME NEW n \in Nat, NEW S \in SUBSET (0..n), S # {}
  PROVE  Max(S) \in S /\ \A y \in S : y <= Max(S)
<1> DEFINE T == {n - x : x \in S}
<1>1. T \in SUBSET Nat /\ T # {}
  <2>1. \A x \in S : x \in 0..n /\ n - x \in Nat
    OBVIOUS
  <2>2. PICK x \in S : TRUE
    OBVIOUS
  <2>3. n - x \in T
    OBVIOUS
  <2>. QED
    BY <2>1, <2>3
<1>2. PICK t \in T : \A y \in T : t <= y
  BY <1>1, LeastNumber
<1>3. PICK x \in S : t = n - x
  OBVIOUS
<1>4. ASSUME NEW y \in S PROVE y <= x
  <2>1. n - y \in T
    OBVIOUS
  <2>2. n - x <= n - y /\ x \in Nat /\ y \in Nat
    BY <1>2, <1>3, <2>1
  <2>. QED
    BY <2>2
<1>. QED
  BY <1>4 DEF Max

\* The element of a sequence that is chosen last
LEMMA LastInSeq ==
  ASSUME NEW S, NEW q \in Seq(S), NEW I \in SUBSET (1..Len(q))
  PROVE  LET k == IF I # {} THEN Max(I) ELSE 0
         IN  /\ k \in 0..Len(q) /\ (k > 0 => k \in I)
             /\ \A i \in (k + 1)..Len(q) : i \notin I
<1>1. CASE I = {}
  BY <1>1
<1>2. CASE I # {}
  <2>1. Len(q) \in Nat /\ I \in SUBSET (0..Len(q))
    OBVIOUS
  <2>2. Max(I) \in I /\ \A y \in I : y <= Max(I)
    BY <1>2, <2>1, MaxIsGreatest
  <2>3. Max(I) \in 1..Len(q)
    BY <2>1, <2>2
  <2>4. ASSUME NEW i \in (Max(I) + 1)..Len(q) PROVE i \notin I
    <3>1. i \in Int /\ Max(I) \in Int /\ Max(I) < i
      BY <2>1, <2>3
    <3>. QED
      BY <2>2, <3>1
  <2>. QED
    BY <1>2, <2>2, <2>3, <2>4
<1>. QED
  BY <1>1, <1>2

-----------------------------------------------------------------------------
(* Segments *)

Segment ==
  [status : kVoid..kConfirmed, start : Nat, end : Nat, length : Nat,
   tags : SUBSET Tags, menu : Seq(Nat), selected_index : Nat]

\* A candidate is for code the segment had when it was made.  A segment that
\* is neither void nor selected has all of that code; one that is selected has
\* the code of its candidate.  Only a raw segment may have grown since then.
Offers(seg) ==
  /\ \A i \in DOMAIN seg.menu : seg.start < seg.menu[i] /\ seg.menu[i] <= OriginalEnd(seg)
  /\ seg.status = kGuess => \A i \in DOMAIN seg.menu : seg.menu[i] <= seg.end
  /\ IsSelected(seg) => /\ seg.start < seg.end
                        /\ HasCandidate(seg) => CandidateEnd(seg) = seg.end
  /\ "raw" \notin seg.tags =>
       seg.end <= OriginalEnd(seg) /\ ("partial" \in seg.tags => seg.end < OriginalEnd(seg))

\* A raw segment begins with a character that nobody else wants.
RawOK(seg, input) ==
  "raw" \in seg.tags => /\ seg.menu = <<>> /\ "abc" \notin seg.tags /\ "punct" \notin seg.tags
                        /\ seg.start < seg.end
                        /\ input[seg.start + 1] \in Delimiters \ Puncts

SegmentOK(seg, input, max) ==
  /\ seg \in Segment
  /\ seg.start <= seg.end /\ seg.end <= max /\ OriginalEnd(seg) <= max
  /\ Offers(seg)
  /\ RawOK(seg, input)

IsEmpty(seg) == seg.start = seg.end

Tiled(segs) ==
  \A i \in 1..Len(segs) :
    /\ segs[i].start = (IF i = 1 THEN 0 ELSE segs[i - 1].end)
    /\ IsEmpty(segs[i]) => i = Len(segs) /\ i > 1

Shaped(segs, input, max) ==
  /\ segs \in Seq(Segment)
  /\ Tiled(segs)
  /\ \A i \in 1..Len(segs) : SegmentOK(segs[i], input, max)

Within(segs, n) == \A i \in 1..Len(segs) : segs[i].end <= n

\* The last segment is the one that is being edited.
Open(segs) == segs # <<>> => ~IsSelected(Last(segs))

Whole(segs) == segs # <<>> => ~IsEmpty(Last(segs))

EndOf(segs) == IF segs = <<>> THEN 0 ELSE Last(segs).end

\* What follows a selected segment may be empty.
Ended(segs) ==
  segs # <<>> /\ IsEmpty(Last(segs)) => Len(segs) > 1 /\ IsSelected(segs[Len(segs) - 1])

LEMMA Statuses == kVoid = 0 /\ kGuess = 1 /\ kSelected = 2 /\ kConfirmed = 3
BY DEF kVoid, kGuess, kSelected, kConfirmed

LEMMA SegmentType1 ==
  ASSUME NEW seg \in Segment
  PROVE  /\ seg.status \in 0..3 /\ seg.start \in Nat /\ seg.end \in Nat /\ seg.length \in Nat
         /\ seg.tags \in SUBSET Tags /\ seg.menu \in Seq(Nat) /\ seg.selected_index \in Nat
         /\ OriginalEnd(seg) \in Nat
BY Statuses DEF Segment, OriginalEnd

LEMMA NewSegmentIs ==
  ASSUME NEW start \in Nat, NEW end \in Nat, NEW tags \in SUBSET Tags,
         NEW max \in Nat, NEW input, start <= end, end <= max,
         "raw" \in tags => /\ tags = {"raw"} /\ start < end
                           /\ input[start + 1] \in Delimiters \ Puncts,
         "partial" \notin tags
  PROVE  LET seg == NewSegment(start, end, tags)
         IN  /\ SegmentOK(seg, input, max) /\ ~IsSelected(seg) /\ seg.menu = <<>>
             /\ seg.start = start /\ seg.end = end /\ seg.tags = tags
<1> DEFINE seg == NewSegment(start, end, tags)
<1>1. /\ seg.start = start /\ seg.end = end /\ seg.tags = tags /\ seg.length = end - start
      /\ seg.menu = <<>> /\ seg.status = 0
  BY Statuses DEF NewSegment
<1>2. seg \in Segment
  BY Statuses DEF NewSegment, Segment
<1>. HIDE DEF seg
<1>3. ~IsSelected(seg)
  BY <1>1, Statuses DEF IsSelected
<1>4. OriginalEnd(seg) = end
  BY <1>1 DEF OriginalEnd
<1>5. Offers(seg)
  BY <1>1, <1>3, <1>4, Statuses DEF Offers
<1>6. RawOK(seg, input)
  BY <1>1 DEF RawOK
<1>. QED
  BY <1>1, <1>2, <1>3, <1>4, <1>5, <1>6 DEF SegmentOK, seg

-----------------------------------------------------------------------------
(* Lists of segments *)

LEMMA LastIs ==
  ASSUME NEW S, NEW s \in Seq(S), s # <<>>
  PROVE  Len(s) \in Nat \ {0} /\ Last(s) = s[Len(s)] /\ Last(s) \in S
BY EmptySeq DEF Last

\* The first k segments, a segment more, another last segment
Cut(front, segs, k) ==
  front \in Seq(Segment) /\ Len(front) = k /\ \A i \in 1..k : front[i] = segs[i]

Grown(more, segs, seg) ==
  /\ more \in Seq(Segment) /\ Len(more) = Len(segs) + 1
  /\ \A i \in 1..Len(segs) : more[i] = segs[i]
  /\ more[Len(segs) + 1] = seg

Swapped(other, segs, seg) ==
  /\ other \in Seq(Segment) /\ Len(other) = Len(segs)
  /\ \A i \in 1..Len(segs) : other[i] = IF i = Len(segs) THEN seg ELSE segs[i]

LEMMA SubSeqCuts ==
  ASSUME NEW segs \in Seq(Segment), NEW k \in 0..Len(segs)
  PROVE  Cut(SubSeq(segs, 1, k), segs, k)
<1>1. \A i \in 1..k : segs[i] \in Segment
  OBVIOUS
<1>2. k \in Nat /\ Len(segs) \in Nat
  OBVIOUS
<1>. QED
  BY <1>1, <1>2, SubSeqProperties DEF Cut

LEMMA AppendGrows ==
  ASSUME NEW segs \in Seq(Segment), NEW seg \in Segment
  PROVE  Grown(Append(segs, seg), segs, seg)
BY AppendProperties DEF Grown

LEMMA SetLastSwaps ==
  ASSUME NEW segs \in Seq(Segment), segs # <<>>, NEW seg \in Segment
  PROVE  Swapped(SetLast(segs, seg), segs, seg)
<1>1. Len(segs) \in 1..Len(segs)
  BY LastIs
<1>. QED
  BY <1>1, ExceptSeq DEF Swapped, SetLast, ReplaceAt

LEMMA NoSegments ==
  ASSUME NEW input, NEW max
  PROVE  Shaped(<<>>, input, max) /\ Open(<<>>) /\ Whole(<<>>) /\ Within(<<>>, 0)
BY DEF Shaped, Open, Tiled, Whole, Within

LEMMA Ordered ==
  ASSUME NEW segs \in Seq(Segment), Tiled(segs),
         \A i \in 1..Len(segs) : segs[i].start <= segs[i].end
  PROVE  \A j \in 1..Len(segs) : \A i \in 1..(j - 1) : segs[i].end <= segs[j].start
<1> DEFINE Bad == {j \in 1..Len(segs) : \E i \in 1..(j - 1) : ~(segs[i].end <= segs[j].start)}
<1>1. \A i \in 1..Len(segs) : segs[i].start \in Nat /\ segs[i].end \in Nat
  BY SegmentType1
<1>2. Len(segs) \in Nat
  OBVIOUS
<1>3. SUFFICES ASSUME Bad # {} PROVE FALSE
  OBVIOUS
<1>4. Bad \in SUBSET Nat
  BY <1>2
<1>5. PICK j \in Bad : \A k \in Bad : j <= k
  BY <1>3, <1>4, LeastNumber
<1>6. PICK i \in 1..(j - 1) : ~(segs[i].end <= segs[j].start)
  BY <1>5
<1>7. j \in 1..Len(segs) /\ j > 1 /\ j \in Nat /\ i \in Nat /\ j - 1 \in 1..Len(segs)
  BY <1>2, <1>5, <1>6
<1>8. segs[j].start = segs[j - 1].end
  BY <1>7 DEF Tiled
<1>9. CASE i = j - 1
  BY <1>1, <1>6, <1>7, <1>8, <1>9
<1>10. CASE i < j - 1
  <2>1. j - 1 \notin Bad
    BY <1>5, <1>7
  <2>2. i \in 1..((j - 1) - 1)
    BY <1>6, <1>7, <1>10
  <2>3. segs[i].end <= segs[j - 1].start
    BY <1>7, <2>1, <2>2
  <2>4. i \in 1..Len(segs)
    BY <1>2, <1>6, <1>7
  <2>5. segs[j - 1].start <= segs[j - 1].end
    BY <1>7
  <2>6. /\ segs[i].end \in Nat /\ segs[j - 1].start \in Nat
        /\ segs[j - 1].end \in Nat /\ segs[j].start \in Nat
    BY <1>1, <1>7, <2>4
  <2>. QED
    BY <1>6, <1>8, <2>3, <2>5, <2>6
<1>. QED
  BY <1>6, <1>7, <1>9, <1>10

LEMMA Prefix ==
  ASSUME NEW segs, NEW input, NEW max, Shaped(segs, input, max), NEW k \in 0..Len(segs),
         NEW front, Cut(front, segs, k)
  PROVE  /\ Shaped(front, input, max)
         /\ Len(front) = k /\ \A i \in 1..k : front[i] = segs[i]
         /\ k < Len(segs) => Whole(front)
         /\ k > 0 => front # <<>> /\ Last(front) = segs[k]
         /\ k = 0 => front = <<>>
<1>0. segs \in Seq(Segment) /\ Len(segs) \in Nat /\ k \in Nat
  BY DEF Shaped
<1>1. front \in Seq(Segment) /\ Len(front) = k /\ \A i \in 1..k : front[i] = segs[i]
  BY DEF Cut
<1>2. \A i \in 1..Len(front) : SegmentOK(front[i], input, max)
  BY <1>0, <1>1 DEF Shaped
<1>3. ASSUME NEW i \in 1..k
      PROVE  /\ front[i].start = (IF i = 1 THEN 0 ELSE front[i - 1].end)
             /\ IsEmpty(front[i]) => i = Len(segs) /\ i > 1
  <2>1. i \in 1..Len(segs) /\ (i # 1 => i - 1 \in 1..k)
    BY <1>0
  <2>2. /\ segs[i].start = (IF i = 1 THEN 0 ELSE segs[i - 1].end)
        /\ IsEmpty(segs[i]) => i = Len(segs) /\ i > 1
    BY <2>1 DEF Shaped, Tiled
  <2>3. front[i] = segs[i] /\ (i # 1 => front[i - 1] = segs[i - 1])
    BY <1>1, <2>1
  <2>. QED
    BY <2>2, <2>3
<1>4. Tiled(front)
  BY <1>0, <1>1, <1>3 DEF Tiled
<1>5. k > 0 => front # <<>> /\ Last(front) = segs[k]
  BY <1>0, <1>1, LastIs
<1>6. k < Len(segs) => Whole(front)
  <2>1. SUFFICES ASSUME k < Len(segs), front # <<>> PROVE ~IsEmpty(Last(front))
    BY DEF Whole
  <2>2. k \in 1..k /\ Last(front) = front[k]
    BY <1>0, <1>1, <2>1, LastIs
  <2>. QED
    BY <1>0, <1>3, <2>1, <2>2
<1>7. k = 0 => front = <<>>
  BY <1>1, EmptySeq
<1>. QED
  BY <1>1, <1>2, <1>4, <1>5, <1>6, <1>7 DEF Shaped

LEMMA Extended ==
  ASSUME NEW segs, NEW input, NEW max, Shaped(segs, input, max), Whole(segs),
         NEW seg, SegmentOK(seg, input, max), seg.start = EndOf(segs),
         segs = <<>> => ~IsEmpty(seg),
         NEW more, Grown(more, segs, seg)
  PROVE  /\ Shaped(more, input, max)
         /\ more # <<>> /\ Last(more) = seg /\ Len(more) = Len(segs) + 1
         /\ \A i \in 1..Len(segs) : more[i] = segs[i]
<1> DEFINE n == Len(segs)
<1>0. segs \in Seq(Segment) /\ n \in Nat /\ seg \in Segment
  BY DEF Shaped, SegmentOK
<1>1. /\ more \in Seq(Segment) /\ more # <<>> /\ Len(more) = n + 1
      /\ (\A i \in 1..n : more[i] = segs[i]) /\ more[n + 1] = seg
  BY <1>0, EmptySeq DEF Grown
<1>2. Last(more) = seg
  BY <1>1, LastIs
<1>3. n > 0 => segs # <<>> /\ Last(segs) = segs[n]
  BY <1>0, EmptySeq, LastIs
<1>4. n = 0 => segs = <<>>
  BY <1>0, EmptySeq
<1>5. ASSUME NEW i \in 1..(n + 1)
      PROVE  /\ SegmentOK(more[i], input, max)
             /\ more[i].start = (IF i = 1 THEN 0 ELSE more[i - 1].end)
             /\ IsEmpty(more[i]) => i = n + 1 /\ i > 1
  <2>1. CASE i \in 1..n
    <3>1. more[i] = segs[i] /\ (i # 1 => more[i - 1] = segs[i - 1])
      BY <1>0, <1>1, <2>1
    <3>2. /\ SegmentOK(segs[i], input, max)
          /\ segs[i].start = (IF i = 1 THEN 0 ELSE segs[i - 1].end)
          /\ IsEmpty(segs[i]) => i = n
      BY <2>1 DEF Shaped, Tiled
    <3>3. ~IsEmpty(segs[i])
      BY <1>0, <1>3, <2>1, <3>2 DEF Whole
    <3>. QED
      BY <3>1, <3>2, <3>3
  <2>2. CASE i = n + 1
    <3>1. more[i] = seg
      BY <1>1, <2>2
    <3>2. n > 0 => more[i - 1] = Last(segs) /\ i # 1
      BY <1>0, <1>1, <1>3, <2>2
    <3>3. seg.start = IF i = 1 THEN 0 ELSE more[i - 1].end
      BY <1>0, <1>3, <1>4, <2>2, <3>2 DEF EndOf
    <3>4. IsEmpty(seg) => i > 1
      BY <1>0, <1>4, <2>2
    <3>. QED
      BY <2>2, <3>1, <3>3, <3>4
  <2>. QED
    BY <1>0, <2>1, <2>2
<1>6. Tiled(more)
  BY <1>1, <1>5 DEF Tiled
<1>. QED
  BY <1>1, <1>2, <1>5, <1>6 DEF Shaped

LEMMA Replaced ==
  ASSUME NEW segs, NEW input, NEW max, Shaped(segs, input, max), segs # <<>>,
         NEW seg, SegmentOK(seg, input, max), seg.start = Last(segs).start,
         IsEmpty(seg) => IsEmpty(Last(segs)),
         NEW other, Swapped(other, segs, seg)
  PROVE  /\ Shaped(other, input, max)
         /\ other # <<>> /\ Last(other) = seg /\ Len(other) = Len(segs)
         /\ \A i \in 1..(Len(segs) - 1) : other[i] = segs[i]
<1> DEFINE n == Len(segs)
<1>0. segs \in Seq(Segment) /\ seg \in Segment
  BY DEF Shaped, SegmentOK
<1>1. n \in Nat /\ n >= 1 /\ n \in 1..n /\ Last(segs) = segs[n]
  BY <1>0, LastIs
<1>3. other \in Seq(Segment) /\ Len(other) = n /\ \A i \in 1..n : other[i] = IF i = n THEN seg ELSE segs[i]
  BY DEF Swapped
<1>4. other # <<>> /\ Last(other) = seg
  BY <1>1, <1>3, EmptySeq, LastIs
<1>5. ASSUME NEW i \in 1..n
      PROVE  /\ SegmentOK(other[i], input, max)
             /\ other[i].start = (IF i = 1 THEN 0 ELSE other[i - 1].end)
             /\ IsEmpty(other[i]) => i = n /\ i > 1
  <2>1. /\ SegmentOK(segs[i], input, max)
        /\ segs[i].start = (IF i = 1 THEN 0 ELSE segs[i - 1].end)
        /\ IsEmpty(segs[i]) => i = n /\ i > 1
    BY DEF Shaped, Tiled
  <2>2. i # 1 => i - 1 \in 1..n /\ i - 1 # n
    BY <1>1
  <2>3. i # 1 => other[i - 1] = segs[i - 1]
    BY <1>3, <2>2
  <2>. QED
    BY <1>1, <1>3, <2>1, <2>3
<1>6. Tiled(other)
  BY <1>3, <1>5 DEF Tiled
<1>7. \A i \in 1..(n - 1) : other[i] = segs[i]
  BY <1>1, <1>3
<1>. QED
  BY <1>3, <1>4, <1>5, <1>6, <1>7 DEF Shaped

-----------------------------------------------------------------------------
(* Segmentation *)

Comps == [input : Seq(Chars), segs : Seq(Segment)]

CompOK(comp, max) ==
  /\ comp \in Comps
  /\ Shaped(comp.segs, comp.input, max)
  /\ Within(comp.segs, Len(comp.input))
  /\ Len(comp.input) <= max

LEMMA CompTypes ==
  ASSUME NEW comp \in Comps
  PROVE  /\ comp.input \in Seq(Chars) /\ Len(comp.input) \in Nat
         /\ comp.segs \in Seq(Segment) /\ Len(comp.segs) \in Nat
         /\ \A segs \in Seq(Segment) :
              /\ [comp EXCEPT !.segs = segs] \in Comps
              /\ [comp EXCEPT !.segs = segs].segs = segs
              /\ [comp EXCEPT !.segs = segs].input = comp.input
         /\ \A input \in Seq(Chars) :
              /\ [comp EXCEPT !.input = input] \in Comps
              /\ [comp EXCEPT !.input = input].input = input
              /\ [comp EXCEPT !.input = input].segs = comp.segs
<1>1. comp.input \in Seq(Chars) /\ comp.segs \in Seq(Segment)
  BY DEF Comps
<1>2. Len(comp.input) \in Nat /\ Len(comp.segs) \in Nat
  BY <1>1
<1>. QED
  BY <1>1, <1>2 DEF Comps

\* The segments change, and the input stays.
Recut(next, comp, segs) == next \in Comps /\ next.segs = segs /\ next.input = comp.input

LEMMA SetSegs ==
  ASSUME NEW comp \in Comps, NEW segs \in Seq(Segment)
  PROVE  Recut([comp EXCEPT !.segs = segs], comp, segs)
BY CompTypes DEF Recut

LEMMA CompFacts ==
  ASSUME NEW max \in Nat, NEW comp, CompOK(comp, max)
  PROVE  /\ CurrentStart(comp) \in Nat /\ CurrentEnd(comp) \in Nat
         /\ CurrentStart(comp) <= CurrentEnd(comp) /\ CurrentEnd(comp) <= Len(comp.input)
         /\ CurrentEnd(comp) = EndOf(comp.segs)
         /\ CurrentLength(comp) = 0 <=> CurrentStart(comp) = CurrentEnd(comp)
         /\ CurrentLength(comp) > 0 <=> CurrentStart(comp) < CurrentEnd(comp)
         /\ comp.segs # <<>> =>
              /\ Last(comp.segs) \in Segment /\ SegmentOK(Last(comp.segs), comp.input, max)
              /\ CurrentStart(comp) = Last(comp.segs).start
              /\ CurrentEnd(comp) = Last(comp.segs).end
              /\ Len(comp.segs) \in Nat \ {0} /\ Last(comp.segs) = comp.segs[Len(comp.segs)]
         /\ CurrentLength(comp) = 0 => comp.segs = <<>> \/ IsEmpty(Last(comp.segs))
<1>1. /\ comp.segs \in Seq(Segment) /\ Len(comp.input) \in Nat
      /\ \A i \in 1..Len(comp.segs) : SegmentOK(comp.segs[i], comp.input, max)
      /\ \A i \in 1..Len(comp.segs) : comp.segs[i].end <= Len(comp.input)
  BY CompTypes DEF CompOK, Shaped, Within
<1>2. CASE comp.segs = <<>>
  BY <1>1, <1>2 DEF CurrentStart, CurrentEnd, CurrentLength, EndOf
<1>3. CASE comp.segs # <<>>
  <2> DEFINE last == Last(comp.segs)
  <2>1. Len(comp.segs) \in Nat \ {0} /\ last = comp.segs[Len(comp.segs)] /\ last \in Segment
    BY <1>1, <1>3, LastIs
  <2>2. Len(comp.segs) \in 1..Len(comp.segs)
    BY <2>1
  <2>3. SegmentOK(last, comp.input, max) /\ last.end <= Len(comp.input)
    BY <1>1, <2>1, <2>2
  <2>4. last.start \in Nat /\ last.end \in Nat /\ last.start <= last.end
    BY <2>1, <2>3, SegmentType1 DEF SegmentOK
  <2>5. CurrentStart(comp) = last.start /\ CurrentEnd(comp) = last.end /\ EndOf(comp.segs) = last.end
    BY <1>3 DEF CurrentStart, CurrentEnd, EndOf
  <2>. HIDE DEF last
  <2>6. CurrentLength(comp) = last.end - last.start
    BY <2>5 DEF CurrentLength
  <2>7. CurrentLength(comp) = 0 => IsEmpty(last)
    BY <2>4, <2>6 DEF IsEmpty
  <2>. QED
    BY <1>3, <2>1, <2>3, <2>4, <2>5, <2>6, <2>7 DEF last
<1>. QED
  BY <1>2, <1>3

LEMMA ForwardIs ==
  ASSUME NEW max \in Nat, NEW comp, CompOK(comp, max)
  PROVE  LET next == Forward(comp)
         IN  /\ CompOK(next, max) /\ next.input = comp.input
             /\ CurrentStart(next) = CurrentEnd(comp) /\ CurrentEnd(next) = CurrentEnd(comp)
             /\ Open(next.segs)
             /\ Len(comp.segs) <= Len(next.segs) /\ Len(next.segs) <= Len(comp.segs) + 1
             /\ \A i \in 1..Len(comp.segs) : next.segs[i] = comp.segs[i]
             /\ \A i \in 1..Len(next.segs) : i > Len(comp.segs) =>
                  /\ next.segs[i].menu = <<>> /\ IsEmpty(next.segs[i]) /\ ~IsSelected(next.segs[i])
                  /\ "raw" \notin next.segs[i].tags
             /\ comp.segs # <<>> /\ Whole(comp.segs) => CurrentLength(next) = 0 /\ next.segs # <<>> /\ "raw" \notin Last(next.segs).tags
<1> DEFINE pos == CurrentEnd(comp)
           seg == NewSegment(pos, pos, {})
           more == Append(comp.segs, seg)
           next == Forward(comp)
<1>1. CASE comp.segs = <<>> \/ CurrentLength(comp) = 0
  <2>1. next = comp
    BY <1>1 DEF Forward
  <2>2. Open(comp.segs)
    <3>1. SUFFICES ASSUME comp.segs # <<>> PROVE ~IsSelected(Last(comp.segs))
      BY DEF Open
    <3>2. /\ SegmentOK(Last(comp.segs), comp.input, max) /\ IsEmpty(Last(comp.segs))
          /\ Last(comp.segs) \in Segment
      BY <1>1, <3>1, CompFacts
    <3>3. ~(Last(comp.segs).start < Last(comp.segs).end)
      BY <3>2, SegmentType1 DEF IsEmpty
    <3>. QED
      BY <3>2, <3>3 DEF SegmentOK, Offers
  <2>3. CurrentStart(comp) = CurrentEnd(comp)
    BY <1>1, CompFacts DEF CurrentStart, CurrentEnd
  <2>4. ~(comp.segs # <<>> /\ Whole(comp.segs))
    BY <1>1, CompFacts DEF Whole
  <2>5. Len(comp.segs) \in Nat
    BY CompTypes DEF CompOK
  <2>. QED
    BY <2>1, <2>2, <2>3, <2>4, <2>5
<1>2. CASE comp.segs # <<>> /\ CurrentLength(comp) # 0
  <2>1. next = [comp EXCEPT !.segs = more]
    BY <1>2 DEF Forward
  <2>2. /\ pos \in Nat /\ pos <= max /\ pos <= Len(comp.input) /\ pos = EndOf(comp.segs)
        /\ Len(comp.input) \in Nat
    BY CompFacts, CompTypes DEF CompOK
  <2>3. /\ SegmentOK(seg, comp.input, max) /\ ~IsSelected(seg) /\ seg.menu = <<>>
        /\ seg.start = pos /\ seg.end = pos /\ seg.tags = {}
    BY <2>2, NewSegmentIs
  <2>. HIDE DEF seg, pos
  <2>4. Whole(comp.segs)
    <3>1. CurrentStart(comp) # CurrentEnd(comp)
      BY <1>2, CompFacts
    <3>. QED
      BY <3>1, CompFacts DEF Whole, IsEmpty
  <2>4a. Shaped(comp.segs, comp.input, max) /\ Grown(more, comp.segs, seg)
    BY <2>3, AppendGrows DEF CompOK, Shaped, SegmentOK
  <2>. HIDE DEF more, next
  <2>5. /\ Shaped(more, comp.input, max) /\ more # <<>> /\ Last(more) = seg
        /\ Len(more) = Len(comp.segs) + 1 /\ \A i \in 1..Len(comp.segs) : more[i] = comp.segs[i]
    BY <1>2, <2>2, <2>3, <2>4, <2>4a, Extended
  <2>6. comp \in Comps /\ Len(comp.segs) \in Nat
    BY CompTypes DEF CompOK
  <2>7. more \in Seq(Segment)
    BY <2>5 DEF Shaped
  <2>8. next \in Comps /\ next.segs = more /\ next.input = comp.input
    BY <2>1, <2>6, <2>7, SetSegs DEF Recut
  <2>9. more[Len(more)] = seg
    BY <2>5, <2>7, LastIs
  <2>10. Within(more, Len(comp.input))
    BY <2>2, <2>3, <2>5, <2>6, <2>9 DEF CompOK, Within
  <2>11. CompOK(next, max)
    BY <2>5, <2>8, <2>10 DEF CompOK
  <2>12. CurrentStart(next) = pos /\ CurrentEnd(next) = pos
    BY <2>3, <2>5, <2>8 DEF CurrentStart, CurrentEnd
  <2>13. Open(next.segs)
    BY <2>3, <2>5, <2>8 DEF Open
  <2>14. \A i \in 1..Len(next.segs) : i > Len(comp.segs) =>
           /\ next.segs[i].menu = <<>> /\ "raw" \notin next.segs[i].tags
           /\ IsEmpty(next.segs[i]) /\ ~IsSelected(next.segs[i])
    BY <2>3, <2>5, <2>6, <2>8, <2>9 DEF IsEmpty
  <2>15. CurrentLength(next) = 0
    BY <2>2, <2>12 DEF CurrentLength
  <2>. QED
    BY <2>3, <2>5, <2>6, <2>8, <2>11, <2>12, <2>13, <2>14, <2>15 DEF pos, next
<1>. QED
  BY <1>1, <1>2

LEMMA TrimIs ==
  ASSUME NEW max \in Nat, NEW comp, CompOK(comp, max)
  PROVE  LET next == Trim(comp)
         IN  /\ CompOK(next, max) /\ next.input = comp.input
             /\ Whole(next.segs) /\ CurrentEnd(next) = CurrentEnd(comp)
             /\ Len(next.segs) <= Len(comp.segs)
             /\ \A i \in 1..Len(next.segs) : next.segs[i] = comp.segs[i]
             /\ \A i \in 1..Len(comp.segs) : i > Len(next.segs) => IsEmpty(comp.segs[i])
<1> DEFINE next == Trim(comp)
           n == Len(comp.segs)
           front == SubSeq(comp.segs, 1, n - 1)
<1>0. /\ comp \in Comps /\ n \in Nat /\ Len(comp.input) \in Nat
      /\ Shaped(comp.segs, comp.input, max) /\ Within(comp.segs, Len(comp.input))
  BY CompTypes DEF CompOK
<1>1. CASE ~CanTrim(comp)
  <2>1. next = comp
    BY <1>1 DEF Trim
  <2>2. Whole(comp.segs)
    <3>1. SUFFICES ASSUME comp.segs # <<>>, IsEmpty(Last(comp.segs)) PROVE FALSE
      BY DEF Whole
    <3>. QED
      BY <1>1, <3>1, CompFacts DEF CanTrim, IsEmpty
  <2>. QED
    BY <1>0, <2>1, <2>2
<1>2. CASE CanTrim(comp)
  <2>1. /\ comp.segs # <<>> /\ IsEmpty(Last(comp.segs)) /\ n \in Nat \ {0}
        /\ Last(comp.segs) = comp.segs[n] /\ CurrentEnd(comp) = Last(comp.segs).end
    BY <1>2, CompFacts DEF CanTrim
  <2>2. next = [comp EXCEPT !.segs = front]
    BY <1>2 DEF Trim, Front
  <2>3. n - 1 \in 0..n /\ n - 1 < n /\ n - 1 > 0
    <3>1. n \in 1..n
      BY <2>1
    <3>2. n > 1
      BY <1>0, <2>1, <3>1 DEF Shaped, Tiled
    <3>. QED
      BY <2>1, <3>2
  <2>4. /\ Shaped(front, comp.input, max) /\ Len(front) = n - 1
        /\ (\A i \in 1..(n - 1) : front[i] = comp.segs[i])
        /\ Whole(front) /\ front # <<>> /\ Last(front) = comp.segs[n - 1]
    <3> DEFINE k == n - 1
    <3>1. k \in 0..Len(comp.segs) /\ k < Len(comp.segs) /\ k > 0 /\ Cut(front, comp.segs, k)
      BY <1>0, <2>3, SubSeqCuts DEF Shaped
    <3>. HIDE DEF k, front
    <3>2. /\ Shaped(front, comp.input, max)
          /\ Len(front) = k
          /\ \A i \in 1..k : front[i] = comp.segs[i]
          /\ Whole(front) /\ front # <<>> /\ Last(front) = comp.segs[k]
      BY <1>0, <3>1, Prefix
    <3>. QED
      BY <3>2 DEF k
  <2>. HIDE DEF front
  <2>5. front \in Seq(Segment)
    BY <2>4 DEF Shaped
  <2>6. next \in Comps /\ next.segs = front /\ next.input = comp.input
    BY <1>0, <2>2, <2>5, SetSegs DEF Recut
  <2>7. Within(front, Len(comp.input))
    <3>1. \A i \in 1..Len(front) : i \in 1..n /\ front[i] = comp.segs[i]
      BY <1>0, <2>3, <2>4
    <3>. QED
      BY <1>0, <3>1 DEF Within
  <2>8. CompOK(next, max)
    BY <2>4, <2>6, <2>7 DEF CompOK
  <2>9. CurrentEnd(next) = comp.segs[n - 1].end
    BY <2>4, <2>6 DEF CurrentEnd
  <2>10. comp.segs[n].start = comp.segs[n - 1].end
    <3>1. n \in 1..n /\ n # 1
      BY <2>1, <2>3
    <3>. QED
      BY <1>0, <3>1 DEF Shaped, Tiled
  <2>11. CurrentEnd(next) = CurrentEnd(comp)
    BY <2>1, <2>9, <2>10 DEF IsEmpty
  <2>12. ASSUME NEW i \in 1..n, i > n - 1 PROVE IsEmpty(comp.segs[i])
    <3>1. i = n
      BY <1>0, <2>12
    <3>. QED
      BY <2>1, <3>1
  <2>. QED
    BY <2>1, <2>4, <2>6, <2>8, <2>11, <2>12
<1>. QED
  BY <1>1, <1>2

LEMMA AddSegmentIs ==
  ASSUME NEW max \in Nat, NEW comp, CompOK(comp, max), Open(comp.segs),
         NEW seg, SegmentOK(seg, comp.input, max), ~IsSelected(seg), ~IsEmpty(seg),
         seg.end <= Len(comp.input),
         comp.segs # <<>> /\ seg.start = Last(comp.segs).start /\ seg.end = Last(comp.segs).end
           => "raw" \notin seg.tags /\ "raw" \notin Last(comp.segs).tags,
         "partial" \notin seg.tags
  PROVE  LET next == AddSegment(comp, seg)
         IN  /\ CompOK(next, max) /\ next.input = comp.input
             /\ Open(next.segs) /\ CurrentStart(next) = CurrentStart(comp)
             /\ seg.start = CurrentStart(comp) => CurrentEnd(next) > CurrentStart(next)
<1> DEFINE next == AddSegment(comp, seg)
           last == Last(comp.segs)
           merged == [last EXCEPT !.tags = @ \cup seg.tags]
<1>0. /\ comp \in Comps /\ comp.segs \in Seq(Segment) /\ Len(comp.input) \in Nat
      /\ Shaped(comp.segs, comp.input, max) /\ Within(comp.segs, Len(comp.input))
      /\ Len(comp.input) <= max
  BY CompTypes DEF CompOK
<1>1. /\ seg \in Segment /\ seg.start \in Nat /\ seg.end \in Nat /\ seg.start < seg.end
      /\ seg.tags \in SUBSET Tags
  BY SegmentType1 DEF SegmentOK, IsEmpty
<1>2. ASSUME NEW segs, Shaped(segs, comp.input, max), segs # <<>>, next = [comp EXCEPT !.segs = segs],
             ~IsSelected(Last(segs)), Last(segs).start = CurrentStart(comp),
             Last(segs).end \in Nat, Last(segs).end > CurrentStart(comp), Within(segs, Len(comp.input))
      PROVE  /\ CompOK(next, max) /\ next.input = comp.input
             /\ Open(next.segs) /\ CurrentStart(next) = CurrentStart(comp)
             /\ CurrentEnd(next) > CurrentStart(next)
  <2>1. segs \in Seq(Segment)
    BY <1>2 DEF Shaped
  <2>2. next \in Comps /\ next.segs = segs /\ next.input = comp.input
    BY <1>0, <1>2, <2>1, SetSegs DEF Recut
  <2>. HIDE DEF next
  <2>. QED
    BY <1>0, <1>2, <2>2 DEF CompOK, Open, CurrentStart, CurrentEnd
<1>3. CASE seg.start # CurrentStart(comp)
  BY <1>3 DEF AddSegment
<1>4. CASE seg.start = CurrentStart(comp) /\ comp.segs = <<>>
  <2>1. next = [comp EXCEPT !.segs = <<seg>>]
    BY <1>4 DEF AddSegment
  <2>2. EndOf(<<>>) = 0 /\ seg.start = 0
    BY <1>4 DEF EndOf, CurrentStart
  <2> DEFINE one == <<seg>>
  <2>3. Grown(one, <<>>, seg)
    BY <1>1 DEF Grown
  <2>4. /\ Shaped(<<seg>>, comp.input, max) /\ <<seg>> # <<>> /\ Last(<<seg>>) = seg
    <3>1. Shaped(<<>>, comp.input, max) /\ Whole(<<>>)
      BY NoSegments
    <3>. HIDE DEF one
    <3>2. Shaped(one, comp.input, max) /\ Last(one) = seg
      BY <2>2, <2>3, <3>1, Extended
    <3>. QED
      BY <3>2 DEF one
  <2>5. Within(<<seg>>, Len(comp.input))
    BY DEF Within
  <2>. QED
    BY <1>1, <1>2, <1>4, <2>1, <2>4, <2>5
<1>5. ASSUME seg.start = CurrentStart(comp), comp.segs # <<>>
      PROVE  /\ last \in Segment /\ SegmentOK(last, comp.input, max) /\ last.start = seg.start
             /\ last.end \in Nat /\ ~IsSelected(last) /\ last.end <= Len(comp.input)
             /\ Len(comp.segs) \in Nat \ {0}
    BY <1>5, CompFacts, SegmentType1 DEF Open
<1>6. ASSUME NEW e, SegmentOK(e, comp.input, max), e.start = last.start, e.end \in Nat,
             IsEmpty(e) => IsEmpty(last), e.end <= Len(comp.input),
             seg.start = CurrentStart(comp), comp.segs # <<>>
      PROVE  LET segs == SetLast(comp.segs, e)
             IN  /\ Shaped(segs, comp.input, max) /\ segs # <<>> /\ Last(segs) = e
                 /\ Within(segs, Len(comp.input))
  <2> DEFINE segs == SetLast(comp.segs, e)
  <2>0. Swapped(segs, comp.segs, e)
    BY <1>0, <1>6, SetLastSwaps DEF SegmentOK
  <2>. HIDE DEF segs
  <2>1. /\ Shaped(segs, comp.input, max) /\ segs # <<>> /\ Last(segs) = e
        /\ Len(segs) = Len(comp.segs) /\ \A i \in 1..(Len(comp.segs) - 1) : segs[i] = comp.segs[i]
    BY <1>0, <1>6, <2>0, Replaced
  <2>2. Last(segs) = segs[Len(segs)] /\ Len(segs) \in Nat \ {0}
    BY <2>1, LastIs DEF Shaped
  <2>3. ASSUME NEW i \in 1..Len(segs) PROVE segs[i].end <= Len(comp.input)
    <3>1. i = Len(segs) \/ i \in 1..(Len(comp.segs) - 1)
      BY <2>1, <2>2
    <3>2. i \in 1..Len(comp.segs)
      BY <2>1
    <3>. QED
      BY <1>0, <1>6, <2>1, <2>2, <3>1, <3>2 DEF Within
  <2>. QED
    BY <2>1, <2>3 DEF Within, segs
<1>7. CASE seg.start = CurrentStart(comp) /\ comp.segs # <<>> /\ last.end > seg.end
  <2>1. next = comp
    BY <1>7 DEF AddSegment
  <2>2. last.end > CurrentStart(comp) /\ CurrentEnd(comp) = last.end
    BY <1>1, <1>5, <1>7, CompFacts
  <2>. QED
    BY <1>7, <2>1, <2>2
<1>8. CASE seg.start = CurrentStart(comp) /\ comp.segs # <<>> /\ last.end < seg.end
  <2>1. next = [comp EXCEPT !.segs = SetLast(@, seg)]
    BY <1>1, <1>5, <1>8 DEF AddSegment
  <2>2. next = [comp EXCEPT !.segs = SetLast(comp.segs, seg)]
    BY <1>0, <2>1 DEF Comps
  <2>3. LET segs == SetLast(comp.segs, seg)
        IN  /\ Shaped(segs, comp.input, max) /\ segs # <<>> /\ Last(segs) = seg
            /\ Within(segs, Len(comp.input))
    BY <1>1, <1>5, <1>6, <1>8
  <2>. QED
    BY <1>1, <1>2, <1>8, <2>2, <2>3
<1>9. CASE seg.start = CurrentStart(comp) /\ comp.segs # <<>> /\ last.end = seg.end
  <2>1. next = [comp EXCEPT !.segs = SetLast(comp.segs, merged)]
    BY <1>0, <1>1, <1>5, <1>9 DEF AddSegment, Comps
  <2>2. /\ merged \in Segment /\ merged.start = last.start /\ merged.end = last.end
        /\ merged.menu = last.menu /\ merged.status = last.status /\ merged.length = last.length
        /\ merged.selected_index = last.selected_index /\ merged.tags = last.tags \cup seg.tags
    BY <1>1, <1>5, <1>9 DEF Segment
  <2>3. "raw" \notin last.tags /\ "raw" \notin merged.tags
    BY <1>5, <1>9, <2>2
  <2>. HIDE DEF merged
  <2>4. OriginalEnd(merged) = OriginalEnd(last) /\ (IsSelected(merged) <=> IsSelected(last))
    BY <2>2 DEF OriginalEnd, IsSelected
  <2>5. HasCandidate(merged) => HasCandidate(last) /\ CandidateEnd(merged) = CandidateEnd(last)
    BY <2>2 DEF HasCandidate, CandidateEnd
  <2>6. Offers(merged)
    BY <1>5, <1>9, <2>2, <2>3, <2>4, <2>5 DEF SegmentOK, Offers
  <2>7. SegmentOK(merged, comp.input, max)
    BY <1>5, <1>9, <2>2, <2>3, <2>4, <2>6 DEF SegmentOK, RawOK
  <2>8. ~IsSelected(merged)
    BY <1>5, <1>9, <2>4
  <2>9. LET segs == SetLast(comp.segs, merged)
        IN  /\ Shaped(segs, comp.input, max) /\ segs # <<>> /\ Last(segs) = merged
            /\ Within(segs, Len(comp.input))
    BY <1>5, <1>6, <1>9, <2>2, <2>7 DEF IsEmpty
  <2>. QED
    BY <1>1, <1>2, <1>5, <1>9, <2>1, <2>2, <2>8, <2>9
<1>. QED
  BY <1>1, <1>3, <1>4, <1>5, <1>7, <1>8, <1>9

-----------------------------------------------------------------------------
(* The segmentors *)

LEMMA SetLastIs ==
  ASSUME NEW max \in Nat, NEW comp, CompOK(comp, max), comp.segs # <<>>,
         NEW seg, SegmentOK(seg, comp.input, max), seg.start = Last(comp.segs).start,
         IsEmpty(seg) => IsEmpty(Last(comp.segs)), seg.end <= Len(comp.input),
         NEW next, Recut(next, comp, SetLast(comp.segs, seg))
  PROVE  /\ CompOK(next, max) /\ next.input = comp.input
         /\ next.segs # <<>> /\ Last(next.segs) = seg /\ Len(next.segs) = Len(comp.segs)
         /\ \A i \in 1..(Len(comp.segs) - 1) : next.segs[i] = comp.segs[i]
<1> DEFINE segs == SetLast(comp.segs, seg)
<1>1. /\ comp \in Comps /\ Shaped(comp.segs, comp.input, max) /\ comp.segs \in Seq(Segment)
      /\ Within(comp.segs, Len(comp.input)) /\ Len(comp.segs) \in Nat /\ seg \in Segment
  BY CompTypes DEF CompOK, SegmentOK
<1>2. Swapped(segs, comp.segs, seg)
  BY <1>1, SetLastSwaps
<1>3. next \in Comps /\ next.segs = segs /\ next.input = comp.input
  BY DEF Recut
<1>. HIDE DEF segs
<1>4. /\ Shaped(segs, comp.input, max) /\ segs # <<>> /\ Last(segs) = seg
      /\ Len(segs) = Len(comp.segs) /\ \A i \in 1..(Len(comp.segs) - 1) : segs[i] = comp.segs[i]
  BY <1>1, <1>2, Replaced
<1>5. Within(segs, Len(comp.input))
  BY <1>1, <1>2 DEF Within, Swapped
<1>. QED
  BY <1>3, <1>4, <1>5 DEF CompOK

LEMMA AbcEndIs ==
  ASSUME NEW input \in Seq(Chars), NEW j \in 0..Len(input)
  PROVE  /\ AbcEnd(input, j) \in j..Len(input)
         /\ AbcEnd(input, j) > j => j < Len(input) /\ input[j + 1] \notin Delimiters
         /\ AbcEnd(input, j) = j /\ j < Len(input) => input[j + 1] \in Delimiters \cup Puncts
<1> DEFINE S == {k \in j..Len(input) : \A i \in (j + 1)..k : input[i] \in Letters \cup Delimiters}
<1>1. Len(input) \in Nat /\ j \in Nat
  OBVIOUS
<1>2. CASE j >= Len(input) \/ input[j + 1] \in Delimiters
  BY <1>1, <1>2 DEF AbcEnd
<1>3. CASE ~(j >= Len(input) \/ input[j + 1] \in Delimiters)
  <2>1. AbcEnd(input, j) = Max(S)
    BY <1>3 DEF AbcEnd
  <2>2. S \in SUBSET (0..Len(input)) /\ S \in SUBSET (j..Len(input)) /\ j \in S
    BY <1>1
  <2>3. input[j + 1] \notin Puncts => j + 1 \in S
    <3>1. j + 1 \in 1..Len(input)
      BY <1>1, <1>3
    <3>2. input[j + 1] \in Chars
      BY <3>1, ElementOfSeq
    <3>. QED
      BY <1>1, <1>3, <3>1, <3>2 DEF Chars
  <2>. HIDE DEF S
  <2>4. Max(S) \in S /\ \A y \in S : y <= Max(S)
    BY <1>1, <2>2, MaxIsGreatest
  <2>5. Max(S) \in j..Len(input)
    BY <2>2, <2>4
  <2>6. Max(S) = j => input[j + 1] \in Puncts
    BY <1>1, <2>3, <2>4
  <2>. QED
    BY <1>1, <1>3, <2>1, <2>5, <2>6
<1>. QED
  BY <1>2, <1>3

LEMMA AbcSegmentorIs ==
  ASSUME NEW max \in Nat, NEW comp, CompOK(comp, max), Open(comp.segs)
  PROVE  LET next == AbcSegmentor(comp)
         IN  /\ CompOK(next, max) /\ next.input = comp.input /\ Open(next.segs)
             /\ CurrentStart(next) = CurrentStart(comp)
             /\ CurrentLength(next) = 0 /\ CurrentStart(next) < Len(comp.input)
                  => comp.input[CurrentStart(next) + 1] \in Delimiters \cup Puncts
<1> DEFINE next == AbcSegmentor(comp)
           input == comp.input
           j == CurrentStart(comp)
           k == AbcEnd(input, j)
           seg == NewSegment(j, k, {"abc"})
<1>1. /\ input \in Seq(Chars) /\ Len(input) \in Nat /\ Len(input) <= max
      /\ j \in Nat /\ j <= Len(input)
  BY CompFacts, CompTypes DEF CompOK
<1>2. /\ k \in j..Len(input)
      /\ k > j => j < Len(input) /\ input[j + 1] \notin Delimiters
      /\ k = j /\ j < Len(input) => input[j + 1] \in Delimiters \cup Puncts
  BY <1>1, AbcEndIs
<1>3. next = IF j < k THEN AddSegment(comp, seg) ELSE comp
  BY DEF AbcSegmentor
<1>4. CASE j < k
  <2>1. /\ {"abc"} \in SUBSET Tags /\ "raw" \notin {"abc"} /\ "partial" \notin {"abc"} /\ k \in Nat /\ k <= max
        /\ k <= Len(input) /\ j <= k
    BY <1>1, <1>2 DEF Tags
  <2>. HIDE DEF j, k
  <2>2. /\ SegmentOK(seg, input, max) /\ ~IsSelected(seg)
        /\ seg.start = j /\ seg.end = k /\ seg.tags = {"abc"}
    BY <1>1, <2>1, NewSegmentIs
  <2>. HIDE DEF seg
  <2>3. comp.segs # <<>> => "raw" \notin Last(comp.segs).tags
    <3>1. SUFFICES ASSUME comp.segs # <<>>, "raw" \in Last(comp.segs).tags PROVE FALSE
      OBVIOUS
    <3>2. SegmentOK(Last(comp.segs), input, max) /\ Last(comp.segs).start = j
      BY <3>1, CompFacts DEF j
    <3>. QED
      BY <1>2, <1>4, <3>1, <3>2 DEF SegmentOK, RawOK
  <2>4. ~IsEmpty(seg)
    BY <1>1, <1>4, <2>1, <2>2 DEF IsEmpty
  <2>5. /\ CompOK(next, max) /\ next.input = comp.input /\ Open(next.segs)
        /\ CurrentStart(next) = j /\ CurrentEnd(next) > CurrentStart(next)
    <3>1. seg.start = CurrentStart(comp) /\ seg.end <= Len(comp.input) /\ "raw" \notin seg.tags
      BY <2>1, <2>2 DEF j
    <3>2. next = AddSegment(comp, seg)
      BY <1>3, <1>4
    <3>. HIDE DEF next
    <3>3. /\ CompOK(next, max) /\ next.input = comp.input
          /\ Open(next.segs) /\ CurrentStart(next) = CurrentStart(comp)
          /\ CurrentEnd(next) > CurrentStart(next)
      BY <2>2, <2>3, <2>4, <3>1, <3>2, AddSegmentIs
    <3>. QED
      BY <3>3 DEF j
  <2>. HIDE DEF next
  <2>6. CurrentLength(next) # 0
    <3>1. /\ CurrentStart(next) \in Nat /\ CurrentEnd(next) \in Nat
          /\ CurrentLength(next) = 0 <=> CurrentStart(next) = CurrentEnd(next)
      BY <2>5, CompFacts
    <3>. QED
      BY <2>5, <3>1
  <2>. QED
    BY <2>5, <2>6 DEF next, j
<1>5. CASE ~(j < k)
  <2>1. next = comp
    BY <1>3, <1>5
  <2>2. k = j
    BY <1>1, <1>2, <1>5
  <2>. QED
    BY <1>2, <2>1, <2>2
<1>. QED
  BY <1>4, <1>5

LEMMA PunctSegmentorIs ==
  ASSUME NEW max \in Nat, NEW comp, CompOK(comp, max), Open(comp.segs), PunctAt(comp)
  PROVE  LET next == PunctSegmentor(comp)
         IN  /\ CompOK(next, max) /\ next.input = comp.input /\ Open(next.segs)
             /\ CurrentEnd(next) > CurrentStart(comp)
<1> DEFINE next == PunctSegmentor(comp)
           input == comp.input
           j == CurrentStart(comp)
           seg == NewSegment(j, j + 1, {"punct"})
<1>1. /\ j \in Nat /\ j < Len(input) /\ input[j + 1] \in Puncts /\ Len(input) <= max
      /\ Len(input) \in Nat
  BY CompFacts, CompTypes DEF CompOK, PunctAt
<1>2. {"punct"} \in SUBSET Tags /\ "raw" \notin {"punct"} /\ j + 1 \in Nat /\ j + 1 <= max /\ j <= j + 1
  BY <1>1 DEF Tags
<1>3. /\ SegmentOK(seg, input, max) /\ ~IsSelected(seg)
      /\ seg.start = j /\ seg.end = j + 1 /\ seg.tags = {"punct"}
  BY <1>2, <1>1, NewSegmentIs
<1>4. comp.segs # <<>> => "raw" \notin Last(comp.segs).tags
  <2>1. SUFFICES ASSUME comp.segs # <<>>, "raw" \in Last(comp.segs).tags PROVE FALSE
    OBVIOUS
  <2>2. SegmentOK(Last(comp.segs), input, max) /\ Last(comp.segs).start = j
    BY <2>1, CompFacts
  <2>. QED
    BY <1>1, <2>1, <2>2 DEF SegmentOK, RawOK
<1>5. next = AddSegment(comp, seg)
  BY DEF PunctSegmentor
<1>. HIDE DEF seg
<1>6. ~IsEmpty(seg) /\ seg.end <= Len(input)
  BY <1>1, <1>3 DEF IsEmpty
<1>7. "raw" \notin seg.tags /\ "partial" \notin seg.tags /\ seg.start = CurrentStart(comp)
  BY <1>3
<1>. HIDE DEF next
<1>8. /\ CompOK(next, max) /\ next.input = comp.input /\ Open(next.segs)
      /\ CurrentStart(next) = CurrentStart(comp) /\ CurrentEnd(next) > CurrentStart(next)
  BY <1>3, <1>4, <1>5, <1>6, <1>7, AddSegmentIs
<1>. QED
  BY <1>8 DEF next

LEMMA RawGrows ==
  ASSUME NEW seg \in Segment, NEW end \in Nat
  PROVE  LET grown == [seg EXCEPT !.end = end, !.status = kVoid, !.tags = {"raw"},
                                  !.menu = <<>>, !.selected_index = 0]
         IN  /\ grown \in Segment /\ grown.start = seg.start /\ grown.end = end
             /\ grown.length = seg.length /\ grown.tags = {"raw"} /\ grown.menu = <<>>
             /\ grown.status = kVoid
<1> DEFINE grown == [seg EXCEPT !.end = end, !.status = kVoid, !.tags = {"raw"},
                                !.menu = <<>>, !.selected_index = 0]
           raw == {"raw"}
           none == <<>>
<1>1. kVoid \in kVoid..kConfirmed /\ raw \in SUBSET Tags /\ none \in Seq(Nat)
  BY Statuses DEF Tags
<1> HIDE DEF raw, none
<1> DEFINE s1 == [seg EXCEPT !.end = end, !.status = kVoid]
           s2 == [s1 EXCEPT !.tags = raw, !.menu = none]
           s3 == [s2 EXCEPT !.selected_index = 0]
<1>2. s1 \in Segment /\ s1.start = seg.start /\ s1.end = end /\ s1.length = seg.length /\ s1.status = kVoid
  BY <1>1 DEF Segment
<1>6. grown = s3
  BY DEF raw, none, Segment
<1>. HIDE DEF s1
<1>3. s2 \in Segment /\ s2.start = seg.start /\ s2.end = end /\ s2.length = seg.length /\ s2.status = kVoid
      /\ s2.tags = raw /\ s2.menu = none
  BY <1>1, <1>2 DEF Segment
<1>. HIDE DEF s2
<1>4. s3 \in Segment /\ s3.start = seg.start /\ s3.end = end /\ s3.length = seg.length /\ s3.status = kVoid
      /\ s3.tags = raw /\ s3.menu = none
  BY <1>3 DEF Segment
<1>. HIDE DEF s3, grown
<1>. QED
  BY <1>4, <1>6 DEF raw, none, grown

LEMMA FallbackSegmentorIs ==
  ASSUME NEW max \in Nat, NEW comp, CompOK(comp, max), Open(comp.segs), ~PunctAt(comp),
         CurrentLength(comp) = 0 /\ CurrentStart(comp) < Len(comp.input)
           => comp.input[CurrentStart(comp) + 1] \in Delimiters \cup Puncts
  PROVE  LET next == FallbackSegmentor(comp)
         IN  /\ CompOK(next, max) /\ next.input = comp.input /\ Open(next.segs)
             /\ CurrentStart(comp) < Len(comp.input) => CurrentEnd(next) > CurrentStart(comp)
<1> DEFINE next == FallbackSegmentor(comp)
           k == CurrentStart(comp)
           trimmed == Trim(comp)
           last == Last(trimmed.segs)
           grown == [last EXCEPT !.end = k + 1, !.status = kVoid, !.tags = {"raw"},
                                 !.menu = <<>>, !.selected_index = 0]
           seg == NewSegment(k, k + 1, {"raw"})
<1>1. CASE CurrentLength(comp) > 0 \/ k = Len(comp.input)
  <2>1. next = comp
    BY <1>1 DEF FallbackSegmentor
  <2>2. CurrentLength(comp) > 0 => CurrentEnd(comp) > CurrentStart(comp)
    BY CompFacts
  <2>3. k \in Nat
    BY CompFacts
  <2>. QED
    BY <1>1, <2>1, <2>2, <2>3
<1>2. CASE ~(CurrentLength(comp) > 0 \/ k = Len(comp.input))
  <2>1. /\ k \in Nat /\ k < Len(comp.input) /\ Len(comp.input) \in Nat /\ Len(comp.input) <= max
        /\ CurrentLength(comp) = 0 /\ CurrentEnd(comp) = k
    BY <1>2, CompFacts, CompTypes DEF CompOK
  <2>2. comp.input[k + 1] \in Delimiters \ Puncts
    BY <2>1 DEF PunctAt
  <2>3. /\ CompOK(trimmed, max) /\ trimmed.input = comp.input /\ Whole(trimmed.segs)
        /\ CurrentEnd(trimmed) = k
    BY <2>1, TrimIs
  <2>4. {"raw"} \in SUBSET Tags /\ k + 1 \in Nat /\ k + 1 <= max /\ k + 1 <= Len(comp.input)
    BY <2>1 DEF Tags
  <2>5. CASE trimmed.segs # <<>> /\ "raw" \in last.tags
    <3>1. next = [trimmed EXCEPT !.segs = SetLast(@, grown)]
      BY <1>2, <2>5 DEF FallbackSegmentor
    <3>. HIDE DEF trimmed, next, k
    <3>2. next = [trimmed EXCEPT !.segs = SetLast(trimmed.segs, grown)]
      BY <2>3, <3>1 DEF CompOK, Comps
    <3>2a. trimmed \in Comps /\ trimmed.segs \in Seq(Segment) /\ trimmed.segs # <<>>
      BY <2>3, <2>5, CompTypes DEF CompOK
    <3>3. last \in Segment /\ SegmentOK(last, comp.input, max) /\ last.end = k
      BY <2>3, <2>5, CompFacts
    <3>. HIDE DEF last
    <3>4. /\ last.start \in Nat /\ last.start < last.end /\ OriginalEnd(last) <= max
          /\ comp.input[last.start + 1] \in Delimiters \ Puncts
      BY <2>5, <3>3, SegmentType1 DEF SegmentOK, RawOK
    <3>5. /\ grown \in Segment /\ grown.start = last.start /\ grown.end = k + 1
          /\ grown.length = last.length /\ grown.tags = {"raw"} /\ grown.menu = <<>>
          /\ grown.status = kVoid
      BY <2>4, <3>3, RawGrows, ZenonT(30)
    <3>. HIDE DEF grown
    <3>6. OriginalEnd(grown) = OriginalEnd(last)
      BY <3>5 DEF OriginalEnd
    <3>7. Offers(grown) /\ ~IsSelected(grown)
      BY <3>5, Statuses DEF Offers, IsSelected
    <3>8. RawOK(grown, comp.input)
      BY <2>1, <3>3, <3>4, <3>5 DEF RawOK
    <3>9. SegmentOK(grown, trimmed.input, max) /\ ~IsEmpty(grown)
      BY <2>1, <2>3, <2>4, <3>3, <3>4, <3>5, <3>6, <3>7, <3>8 DEF SegmentOK, IsEmpty
    <3>10. grown.start = Last(trimmed.segs).start /\ grown.end <= Len(trimmed.input)
      BY <2>3, <2>4, <3>5 DEF last
    <3>11. /\ CompOK(next, max) /\ next.input = trimmed.input
           /\ next.segs # <<>> /\ Last(next.segs) = grown
      <4>1. SetLast(trimmed.segs, grown) \in Seq(Segment)
        BY <3>2a, <3>5, SetLastSwaps DEF Swapped
      <4>2. Recut(next, trimmed, SetLast(trimmed.segs, grown))
        BY <3>2, <3>2a, <4>1, SetSegs
      <4>. QED
        BY <2>3, <3>2a, <3>9, <3>10, <4>2, SetLastIs
    <3>12. CurrentEnd(next) = k + 1
      BY <3>5, <3>11 DEF CurrentEnd
    <3>. QED
      BY <2>1, <2>3, <3>7, <3>11, <3>12 DEF Open, next, k
  <2>6. CASE ~(trimmed.segs # <<>> /\ "raw" \in last.tags)
    <3> DEFINE forward == Forward(trimmed)
    <3>1. next = AddSegment(forward, seg)
      BY <1>2, <2>6 DEF FallbackSegmentor
    <3>. HIDE DEF trimmed, next, k
    <3>2. /\ CompOK(forward, max) /\ forward.input = comp.input /\ Open(forward.segs)
          /\ CurrentStart(forward) = k /\ CurrentEnd(forward) = k
      BY <2>3, ForwardIs
    <3>3. /\ SegmentOK(seg, comp.input, max) /\ ~IsSelected(seg)
          /\ seg.start = k /\ seg.end = k + 1 /\ seg.tags = {"raw"}
      BY <2>1, <2>2, <2>4, NewSegmentIs
    <3>. HIDE DEF seg, forward
    <3>4. forward.segs # <<>> => Last(forward.segs).end # seg.end
      BY <2>1, <3>2, <3>3, CompFacts
    <3>5. ~IsEmpty(seg) /\ seg.end <= Len(forward.input)
      BY <2>1, <2>4, <3>2, <3>3 DEF IsEmpty
    <3>6. "partial" \notin seg.tags /\ seg.start = CurrentStart(forward)
      BY <3>2, <3>3
    <3>7. /\ CompOK(next, max) /\ next.input = forward.input /\ Open(next.segs)
          /\ CurrentStart(next) = CurrentStart(forward) /\ CurrentEnd(next) > CurrentStart(next)
      BY <3>1, <3>2, <3>3, <3>4, <3>5, <3>6, AddSegmentIs
    <3>. QED
      BY <3>2, <3>7 DEF next, k
  <2>. QED
    BY <2>5, <2>6
<1>. QED
  BY <1>1, <1>2

LEMMA RoundIs ==
  ASSUME NEW max \in Nat, NEW comp, CompOK(comp, max), Open(comp.segs)
  PROVE  LET next == Round(comp)
         IN  /\ CompOK(next, max) /\ next.input = comp.input /\ Open(next.segs)
             /\ CurrentStart(comp) < Len(comp.input) => CurrentEnd(next) > CurrentStart(comp)
<1> DEFINE abc == AbcSegmentor(comp)
           next == Round(comp)
<1>1. next = IF PunctAt(abc) THEN PunctSegmentor(abc) ELSE FallbackSegmentor(abc)
  BY DEF Round, AfterAbc
<1>2. /\ CompOK(abc, max) /\ abc.input = comp.input /\ Open(abc.segs)
      /\ CurrentStart(abc) = CurrentStart(comp)
      /\ CurrentLength(abc) = 0 /\ CurrentStart(abc) < Len(abc.input)
           => abc.input[CurrentStart(abc) + 1] \in Delimiters \cup Puncts
  BY AbcSegmentorIs
<1>. HIDE DEF abc
<1>3. CASE PunctAt(abc)
  BY <1>1, <1>2, <1>3, PunctSegmentorIs
<1>4. CASE ~PunctAt(abc)
  BY <1>1, <1>2, <1>4, FallbackSegmentorIs
<1>. QED
  BY <1>3, <1>4

LEMMA PassIs ==
  ASSUME NEW max \in Nat, NEW loop, CompOK(loop.comp, max), Open(loop.comp.segs), NEW caret_pos
  PROVE  LET next == Pass(loop, caret_pos).comp
         IN  CompOK(next, max) /\ next.input = loop.comp.input /\ Open(next.segs)
<1> DEFINE next == Round(loop.comp)
           goes_on == CurrentStart(loop.comp) # CurrentEnd(next) /\ CurrentStart(loop.comp) < caret_pos
<1>1. CASE ~loop.going \/ HasFinishedSegmentation(loop.comp)
  BY <1>1 DEF Pass
<1>2. CASE ~(~loop.going \/ HasFinishedSegmentation(loop.comp))
  <2>1. Pass(loop, caret_pos).comp
          = IF goes_on /\ ~HasFinishedSegmentation(next) THEN Forward(next) ELSE next
    BY <1>2 DEF Pass, RoundDone, EndPass
  <2>2. CompOK(next, max) /\ next.input = loop.comp.input /\ Open(next.segs)
    BY RoundIs
  <2>. HIDE DEF next, goes_on
  <2>3. LET forward == Forward(next)
        IN  CompOK(forward, max) /\ forward.input = next.input /\ Open(forward.segs)
    BY <2>2, ForwardIs
  <2>. QED
    BY <2>1, <2>2, <2>3
<1>. QED
  BY <1>1, <1>2

\* The first n passes of the loop, of which there are as many as one likes
PassesOf(f, comp, caret_pos, n) ==
  f = [m \in 0..n |-> IF m = 0 THEN [comp |-> comp, going |-> TRUE] ELSE Pass(f[m - 1], caret_pos)]

LEMMA PassesExist ==
  ASSUME NEW comp, NEW caret_pos, NEW n \in Nat
  PROVE  \E f : PassesOf(f, comp, caret_pos, n)
<1> DEFINE first == [comp |-> comp, going |-> TRUE]
           Passes(f, k) == f = [m \in 0..k |-> IF m = 0 THEN first ELSE Pass(f[m - 1], caret_pos)]
           Bad == {k \in Nat : ~\E f : Passes(f, k)}
<1>. HIDE DEF first
<1>1. SUFFICES ASSUME Bad # {} PROVE FALSE
  BY DEF PassesOf, first
<1>2. PICK k \in Bad : \A j \in Bad : k <= j
  BY <1>1, LeastNumber
<1>2a. k \in Nat
  OBVIOUS
<1>3. k # 0
  <2>1. Passes([m \in 0..0 |-> first], 0)
    OBVIOUS
  <2>. QED
    BY <1>2, <2>1
<1>4. k \in Nat /\ k - 1 \in Nat /\ k - 1 \notin Bad
  <2>. HIDE DEF Bad
  <2>. QED
    BY <1>2, <1>2a, <1>3
<1>5. PICK f : Passes(f, k - 1)
  BY <1>4
<1> DEFINE g == [m \in 0..k |-> IF m < k THEN f[m] ELSE Pass(f[k - 1], caret_pos)]
<1>6. ASSUME NEW m \in 0..k
      PROVE  g[m] = IF m = 0 THEN first ELSE Pass(g[m - 1], caret_pos)
  <2>1. CASE m = 0
    <3>1. 0 \in 0..(k - 1) /\ 0 < k
      BY <1>4
    <3>2. f[0] = first
      BY <1>5, <3>1
    <3>. QED
      BY <2>1, <3>1, <3>2
  <2>2. CASE m # 0 /\ m < k
    <3>1. m \in 0..(k - 1) /\ m - 1 \in 0..k /\ m - 1 < k
      BY <1>4, <2>2
    <3>2. f[m] = Pass(f[m - 1], caret_pos)
      BY <1>5, <2>2, <3>1
    <3>. QED
      BY <2>2, <3>1, <3>2
  <2>3. CASE m = k
    <3>1. k - 1 \in 0..k /\ k - 1 < k /\ ~(k < k)
      BY <1>4
    <3>. QED
      BY <1>3, <2>3, <3>1
  <2>. QED
    BY <1>4, <2>1, <2>2, <2>3
<1>7. Passes(g, k)
  <2>1. g = [m \in 0..k |-> g[m]]
    OBVIOUS
  <2>. HIDE DEF g
  <2>. QED
    BY <1>6, <2>1
<1>. HIDE DEF Passes
<1>. QED
  BY <1>2, <1>7

LEMMA RoundsAre ==
  ASSUME NEW comp, NEW caret_pos, Len(comp.input) \in Nat
  PROVE  \E f : /\ f[0] = [comp |-> comp, going |-> TRUE]
                /\ \A n \in 1..(Len(comp.input) + 1) : f[n] = Pass(f[n - 1], caret_pos)
                /\ Rounds(comp, caret_pos) = f[Len(comp.input) + 1].comp
<1> DEFINE N == Len(comp.input) + 1
           f == CHOOSE g : g = [n \in 0..N |-> IF n = 0 THEN [comp |-> comp, going |-> TRUE]
                                               ELSE Pass(g[n - 1], caret_pos)]
<1>1. f = [n \in 0..N |-> IF n = 0 THEN [comp |-> comp, going |-> TRUE] ELSE Pass(f[n - 1], caret_pos)]
  <2>1. N \in Nat
    OBVIOUS
  <2>. HIDE DEF N
  <2>2. \E g : PassesOf(g, comp, caret_pos, N)
    BY <2>1, PassesExist
  <2>3. f = CHOOSE g : PassesOf(g, comp, caret_pos, N)
    BY DEF PassesOf
  <2>. HIDE DEF f
  <2>4. PassesOf(f, comp, caret_pos, N)
    BY <2>2, <2>3
  <2>. QED
    BY <2>4 DEF PassesOf
<1>2. Rounds(comp, caret_pos) = f[N].comp
  BY DEF Rounds
<1>. HIDE DEF f
<1>3. N \in Nat /\ 0 \in 0..N /\ \A n \in 1..N : n \in 0..N /\ n # 0
  OBVIOUS
<1>. HIDE DEF N
<1>4. f[0] = [comp |-> comp, going |-> TRUE]
  BY <1>1, <1>3
<1>5. \A n \in 1..N : f[n] = Pass(f[n - 1], caret_pos)
  BY <1>1, <1>3
<1>. QED
  BY <1>2, <1>4, <1>5 DEF N

LEMMA RoundsKeep ==
  ASSUME NEW max \in Nat, NEW comp, CompOK(comp, max), Open(comp.segs), NEW caret_pos
  PROVE  LET next == Rounds(comp, caret_pos)
         IN  CompOK(next, max) /\ next.input = comp.input /\ Open(next.segs)
<1> DEFINE N == Len(comp.input) + 1
           Kept(next) == CompOK(next, max) /\ next.input = comp.input /\ Open(next.segs)
<1>1. Len(comp.input) \in Nat
  BY CompTypes DEF CompOK
<1>2. PICK f : /\ f[0] = [comp |-> comp, going |-> TRUE]
               /\ \A n \in 1..N : f[n] = Pass(f[n - 1], caret_pos)
               /\ Rounds(comp, caret_pos) = f[N].comp
  BY <1>1, RoundsAre
<1>3. Kept(f[0].comp)
  BY <1>2
<1>4. ASSUME NEW n \in 1..N, Kept(f[n - 1].comp) PROVE Kept(f[n].comp)
  BY <1>2, <1>4, PassIs
<1> DEFINE Bad == {n \in 0..N : ~Kept(f[n].comp)}
<1>. HIDE DEF Kept
<1>5. Bad = {}
  <2>1. SUFFICES ASSUME Bad # {} PROVE FALSE
    OBVIOUS
  <2>2. Bad \in SUBSET Nat
    OBVIOUS
  <2>3. PICK n \in Bad : \A k \in Bad : n <= k
    BY <2>1, <2>2, LeastNumber
  <2>4. n \in 0..N /\ ~Kept(f[n].comp) /\ N \in Nat
    BY <1>1
  <2>5. n \in 1..N /\ n - 1 \in 0..N /\ ~(n <= n - 1)
    BY <1>3, <2>4
  <2>6. Kept(f[n - 1].comp)
    BY <2>3, <2>5
  <2>. QED
    BY <1>4, <2>4, <2>5, <2>6
<1>6. Kept(f[N].comp)
  BY <1>1, <1>5
<1>. QED
  BY <1>2, <1>6 DEF Kept

\* With the caret at the end every pass takes a character at least, so that
\* the passes there are suffice.
LEMMA RoundsFinish ==
  ASSUME NEW max \in Nat, NEW comp, CompOK(comp, max), Open(comp.segs)
  PROVE  HasFinishedSegmentation(Rounds(comp, Len(comp.input)))
<1> DEFINE len == Len(comp.input)
           N == len + 1
           Kept(next) == CompOK(next, max) /\ next.input = comp.input /\ Open(next.segs)
           Far(loop, n) == \/ HasFinishedSegmentation(loop.comp)
                           \/ loop.going /\ CurrentStart(loop.comp) >= n
           Sound(loop, n) == Kept(loop.comp) /\ Far(loop, n)
<1>1. len \in Nat
  BY CompTypes DEF CompOK
<1>2. PICK f : /\ f[0] = [comp |-> comp, going |-> TRUE]
               /\ \A n \in 1..N : f[n] = Pass(f[n - 1], len)
               /\ Rounds(comp, len) = f[N].comp
  BY <1>1, RoundsAre
<1>3. Sound(f[0], 0)
  <2>1. f[0].comp = comp /\ f[0].going
    BY <1>2
  <2>2. CurrentStart(comp) \in Nat
    BY CompFacts
  <2>. QED
    BY <2>1, <2>2
<1>4. ASSUME NEW n \in Nat, NEW loop, Sound(loop, n) PROVE Sound(Pass(loop, len), n + 1)
  <2> DEFINE next == Round(loop.comp)
             start == CurrentStart(loop.comp)
             forward == Forward(next)
  <2>1. CASE HasFinishedSegmentation(loop.comp)
    <3>1. Pass(loop, len) = loop
      BY <2>1 DEF Pass
    <3>. QED
      BY <1>4, <2>1, <3>1
  <2>2. CASE ~HasFinishedSegmentation(loop.comp)
    <3>1. /\ CompOK(loop.comp, max) /\ loop.comp.input = comp.input /\ Open(loop.comp.segs)
          /\ loop.going /\ start >= n
      BY <1>4, <2>2
    <3>2. /\ start \in Nat /\ CurrentEnd(loop.comp) \in Nat /\ start <= CurrentEnd(loop.comp)
          /\ CurrentEnd(loop.comp) < len
      BY <1>1, <2>2, <3>1, CompFacts DEF HasFinishedSegmentation
    <3>3. /\ CompOK(next, max) /\ next.input = comp.input /\ Open(next.segs)
          /\ CurrentEnd(next) > start
      BY <1>1, <3>1, <3>2, RoundIs
    <3>. HIDE DEF next, start
    <3>4. CurrentEnd(next) \in Nat
      BY <3>3, CompFacts
    <3>5. start # CurrentEnd(next) /\ start < len
      BY <1>1, <3>2, <3>3, <3>4
    <3>6. /\ Pass(loop, len).comp = IF ~HasFinishedSegmentation(next) THEN forward ELSE next
          /\ Pass(loop, len).going
      BY <2>2, <3>1, <3>5 DEF Pass, RoundDone, EndPass, start, next
    <3>7. /\ CompOK(forward, max) /\ forward.input = next.input /\ Open(forward.segs)
          /\ CurrentStart(forward) = CurrentEnd(next)
      BY <3>3, ForwardIs
    <3>. HIDE DEF forward
    <3>8. CurrentStart(forward) >= n + 1
      BY <3>1, <3>2, <3>3, <3>4, <3>7
    <3>. QED
      BY <3>3, <3>6, <3>7, <3>8
  <2>. QED
    BY <2>1, <2>2
<1> DEFINE Bad == {n \in 0..N : ~Sound(f[n], n)}
<1>. HIDE DEF Sound
<1>5. Bad = {}
  <2>1. SUFFICES ASSUME Bad # {} PROVE FALSE
    OBVIOUS
  <2>2. Bad \in SUBSET Nat
    OBVIOUS
  <2>3. PICK n \in Bad : \A k \in Bad : n <= k
    BY <2>1, <2>2, LeastNumber
  <2>4. n \in 0..N /\ ~Sound(f[n], n) /\ N \in Nat
    BY <1>1
  <2>5. n \in 1..N /\ n - 1 \in 0..N /\ ~(n <= n - 1) /\ n - 1 \in Nat /\ (n - 1) + 1 = n
    BY <1>3, <2>4
  <2>6. Sound(f[n - 1], n - 1)
    BY <2>3, <2>5
  <2>7. Sound(Pass(f[n - 1], len), (n - 1) + 1)
    BY <1>4, <2>5, <2>6
  <2>. QED
    BY <1>2, <2>4, <2>5, <2>7
<1>6. Sound(f[N], N) /\ N \in Nat
  BY <1>1, <1>5
<1>7. CASE CurrentStart(f[N].comp) >= N /\ CompOK(f[N].comp, max) /\ f[N].comp.input = comp.input
  <2>1. /\ CurrentStart(f[N].comp) \in Nat /\ CurrentEnd(f[N].comp) \in Nat
        /\ CurrentStart(f[N].comp) <= CurrentEnd(f[N].comp) /\ CurrentEnd(f[N].comp) <= len
    BY <1>7, CompFacts
  <2>. QED
    BY <1>1, <1>7, <2>1
<1>. QED
  BY <1>2, <1>6, <1>7 DEF Sound

LEMMA CalculateSegmentationIs ==
  ASSUME NEW max \in Nat, NEW comp, CompOK(comp, max), Open(comp.segs), NEW caret_pos
  PROVE  LET next == CalculateSegmentation(comp, caret_pos)
         IN  /\ CompOK(next, max) /\ next.input = comp.input /\ Open(next.segs)
             /\ caret_pos = Len(comp.input) => CurrentEnd(next) = Len(comp.input)
             /\ Ended(next.segs)
<1> DEFINE rounds == Rounds(comp, caret_pos)
           trimmed == Trim(rounds)
<1>1. CompOK(rounds, max) /\ rounds.input = comp.input
  BY RoundsKeep
<1>1a. caret_pos = Len(comp.input) => HasFinishedSegmentation(rounds)
  BY RoundsFinish
<1>. HIDE DEF rounds
<1>1b. caret_pos = Len(comp.input) => CurrentEnd(rounds) = Len(comp.input)
  BY <1>1, <1>1a, CompFacts, CompTypes DEF HasFinishedSegmentation, CompOK
<1>2. /\ CompOK(trimmed, max) /\ trimmed.input = rounds.input
      /\ CurrentEnd(trimmed) = CurrentEnd(rounds) /\ Whole(trimmed.segs)
  BY <1>1, TrimIs
<1>3. CalculateSegmentation(comp, caret_pos) = ForwardIfSelected(trimmed)
  BY DEF CalculateSegmentation, rounds
<1>. HIDE DEF trimmed
<1>4. CASE trimmed.segs # <<>> /\ IsSelected(Last(trimmed.segs))
  <2> DEFINE next == Forward(trimmed)
             n == Len(trimmed.segs)
  <2>1. ForwardIfSelected(trimmed) = next
    BY <1>4 DEF ForwardIfSelected
  <2>2. /\ CompOK(next, max) /\ next.input = trimmed.input /\ Open(next.segs)
        /\ CurrentEnd(next) = CurrentEnd(trimmed)
        /\ n <= Len(next.segs) /\ Len(next.segs) <= n + 1
        /\ \A i \in 1..n : next.segs[i] = trimmed.segs[i]
    BY <1>2, ForwardIs
  <2>. HIDE DEF next
  <2>3. /\ n \in Nat \ {0} /\ n \in 1..n /\ trimmed.segs[n] = Last(trimmed.segs)
        /\ next.segs \in Seq(Segment) /\ Len(next.segs) \in Nat
    <3>1. trimmed.segs \in Seq(Segment) /\ next.segs \in Seq(Segment) /\ Len(next.segs) \in Nat
      BY <1>2, <2>2, CompTypes DEF CompOK
    <3>. QED
      BY <1>4, <3>1, LastIs
  <2>4. ASSUME next.segs # <<>>, IsEmpty(Last(next.segs))
        PROVE  Len(next.segs) > 1 /\ IsSelected(next.segs[Len(next.segs) - 1])
    <3>1. Last(next.segs) = next.segs[Len(next.segs)]
      BY <2>3, <2>4, LastIs
    <3>2. ~IsEmpty(trimmed.segs[n])
      BY <1>2, <1>4, <2>3 DEF Whole
    <3>3. Len(next.segs) # n
      BY <2>2, <2>3, <2>4, <3>1, <3>2
    <3>4. Len(next.segs) = n + 1 /\ Len(next.segs) - 1 = n
      <4> DEFINE len == Len(next.segs)
      <4>1. n \in Nat /\ len \in Nat /\ n <= len /\ len <= n + 1 /\ len # n
        BY <2>2, <2>3, <3>3
      <4>. HIDE DEF n, len
      <4>2. len = n + 1 /\ len - 1 = n
        BY <4>1
      <4>. QED
        BY <4>2 DEF len
    <3>. QED
      BY <1>4, <2>2, <2>3, <3>4
  <2>5. Ended(next.segs)
    BY <2>4 DEF Ended
  <2>. QED
    BY <1>1, <1>1b, <1>2, <1>3, <2>1, <2>2, <2>5
<1>5. CASE ~(trimmed.segs # <<>> /\ IsSelected(Last(trimmed.segs)))
  BY <1>1, <1>1b, <1>2, <1>3, <1>5 DEF ForwardIfSelected, Open, Ended, Whole
<1>. QED
  BY <1>4, <1>5

-----------------------------------------------------------------------------
(* Translation *)

\* What a translator of any kind may do: ContextAssumption for codes up to max.
Translates(max) ==
  \A n \in 0..max : \A code \in [1..n -> Chars] : Translate(code) \in Seq(1..n)

LEMMA MenuForIs ==
  ASSUME NEW max \in Nat, Translates(max), NEW input \in Seq(Chars), Len(input) <= max,
         NEW seg, SegmentOK(seg, input, max), seg.end <= Len(input)
  PROVE  LET menu == MenuFor(input, seg)
         IN  /\ menu \in Seq(Nat)
             /\ \A i \in DOMAIN menu : seg.start < menu[i] /\ menu[i] <= seg.end
             /\ "raw" \in seg.tags => menu = <<>>
<1> DEFINE code == SubString(input, seg.start, seg.end)
           n == seg.end - seg.start
           lengths == IF "abc" \in seg.tags THEN Translate(code)
                      ELSE IF "punct" \in seg.tags /\ Len(code) = 1 THEN <<1>>
                      ELSE <<>>
           menu == MenuFor(input, seg)
<1>1. /\ seg.start \in Nat /\ seg.end \in Nat /\ Len(input) \in Nat /\ n \in 0..max
      /\ seg.start <= seg.end /\ n \in Nat /\ seg.end = seg.start + n
  BY SegmentType1 DEF SegmentOK
<1>2. code \in [1..n -> Chars] /\ Len(code) = n
  <2>1. /\ seg.start + 1 \in Int /\ seg.end \in Int
        /\ \A i \in (seg.start + 1)..seg.end : i \in 1..Len(input)
    BY <1>1
  <2>2. \A i \in (seg.start + 1)..seg.end : input[i] \in Chars
    BY <2>1, ElementOfSeq
  <2>3. code \in Seq(Chars) /\ Len(code) = IF seg.start + 1 <= seg.end THEN seg.end - (seg.start + 1) + 1 ELSE 0
    BY <2>1, <2>2, SubSeqProperties DEF SubString
  <2>. HIDE DEF code
  <2>4. Len(code) = n
    BY <1>1, <2>3
  <2>. QED
    BY <2>3, <2>4, LenProperties
<1>3. menu = [i \in DOMAIN lengths |-> seg.start + lengths[i]]
  BY DEF MenuFor
<1>. HIDE DEF code, n
<1>4. Translate(code) \in Seq(1..n)
  BY <1>1, <1>2 DEF Translates
<1>5. lengths \in Seq(1..n)
  <2>1. CASE "abc" \in seg.tags
    BY <1>4, <2>1
  <2>2. CASE "abc" \notin seg.tags /\ "punct" \in seg.tags /\ Len(code) = 1
    <3>1. n = 1
      BY <1>2, <2>2
    <3>2. 1 \in 1..n
      BY <3>1
    <3>3. <<1>> \in Seq(1..n)
      BY <3>2
    <3>. QED
      BY <2>2, <3>3
  <2>3. CASE "abc" \notin seg.tags /\ ~("punct" \in seg.tags /\ Len(code) = 1)
    <3>1. <<>> \in Seq(1..n)
      BY EmptySeq
    <3>. QED
      BY <2>3, <3>1
  <2>. QED
    BY <2>1, <2>2, <2>3
<1>6. "raw" \in seg.tags => lengths = <<>>
  BY DEF SegmentOK, RawOK
<1>. HIDE DEF lengths, menu
<1>7. DOMAIN lengths = 1..Len(lengths) /\ Len(lengths) \in Nat
  BY <1>5, LenProperties
<1>8. \A i \in 1..Len(lengths) : lengths[i] \in 1..n
  BY <1>5, ElementOfSeq
<1>9. DOMAIN menu = 1..Len(lengths) /\ \A i \in 1..Len(lengths) : menu[i] = seg.start + lengths[i]
  BY <1>3, <1>7
<1>10. ASSUME NEW i \in 1..Len(lengths)
       PROVE  menu[i] \in Nat /\ seg.start < menu[i] /\ menu[i] <= seg.end
  <2> DEFINE len == lengths[i]
  <2>1. len \in 1..n /\ menu[i] = seg.start + len
    BY <1>8, <1>9
  <2>. HIDE DEF len
  <2>. QED
    BY <1>1, <2>1
<1>11. menu \in Seq(Nat)
  <2>1. menu = [i \in 1..Len(lengths) |-> menu[i]]
    BY <1>3, <1>7
  <2>2. menu \in [1..Len(lengths) -> Nat]
    BY <1>10, <2>1
  <2>. QED
    BY <1>7, <2>2, SeqDef
<1>12. "raw" \in seg.tags => menu = <<>>
  <2>1. SUFFICES ASSUME "raw" \in seg.tags PROVE menu = <<>>
    OBVIOUS
  <2>2. Len(lengths) = 0
    BY <1>5, <1>6, <2>1, EmptySeq
  <2>3. Len(menu) = 0
    BY <1>9, <1>11, <2>2, LenProperties
  <2>. QED
    BY <1>11, <2>3, EmptySeq
<1>. QED
  BY <1>9, <1>10, <1>11, <1>12 DEF menu

LEMMA MenuIsSet ==
  ASSUME NEW seg \in Segment, NEW menu \in Seq(Nat)
  PROVE  LET next == [seg EXCEPT !.status = kGuess, !.menu = menu, !.selected_index = 0]
         IN  /\ next \in Segment /\ next.start = seg.start /\ next.end = seg.end
             /\ next.length = seg.length /\ next.tags = seg.tags /\ next.menu = menu
             /\ next.status = kGuess
<1>1. kGuess \in kVoid..kConfirmed
  BY Statuses
<1>. QED
  BY <1>1 DEF Segment

LEMMA TranslatedIs ==
  ASSUME NEW max \in Nat, Translates(max), NEW input \in Seq(Chars), Len(input) <= max,
         NEW seg, SegmentOK(seg, input, max), seg.end <= Len(input)
  PROVE  LET next == Translated(input, seg)
         IN  /\ SegmentOK(next, input, max) /\ next.status # kVoid
             /\ next.start = seg.start /\ next.end = seg.end
             /\ IsSelected(next) <=> IsSelected(seg)
<1> DEFINE next == Translated(input, seg)
           menu == MenuFor(input, seg)
<1>0. seg \in Segment
  BY DEF SegmentOK
<1>1. CASE seg.status >= kGuess
  <2>1. next = seg
    BY <1>1 DEF Translated
  <2>2. seg.status # kVoid
    BY <1>0, <1>1, Statuses, SegmentType1
  <2>. QED
    BY <2>1, <2>2
<1>2. CASE ~(seg.status >= kGuess)
  <2>1. next = [seg EXCEPT !.status = kGuess, !.menu = menu, !.selected_index = 0]
    BY <1>2 DEF Translated
  <2>2. /\ menu \in Seq(Nat)
        /\ \A i \in DOMAIN menu : seg.start < menu[i] /\ menu[i] <= seg.end
        /\ "raw" \in seg.tags => menu = <<>>
    BY MenuForIs
  <2>. HIDE DEF menu, next
  <2>3. /\ next \in Segment /\ next.start = seg.start /\ next.end = seg.end
        /\ next.length = seg.length /\ next.tags = seg.tags /\ next.menu = menu
        /\ next.status = kGuess
    <3> DEFINE e == [seg EXCEPT !.status = kGuess, !.menu = menu, !.selected_index = 0]
    <3>1. /\ e \in Segment /\ e.start = seg.start /\ e.end = seg.end
          /\ e.length = seg.length /\ e.tags = seg.tags /\ e.menu = menu
          /\ e.status = kGuess
      BY <1>0, <2>2, MenuIsSet
    <3>. HIDE DEF e
    <3>. QED
      BY <2>1, <3>1 DEF e
  <2>4. ~IsSelected(next) /\ ~IsSelected(seg) /\ next.status # kVoid
    <3>1. seg.status \in 0..3
      BY <1>0, SegmentType1
    <3>2. seg.status = 0
      BY <1>2, <3>1, Statuses
    <3>. QED
      BY <2>3, <3>2, Statuses DEF IsSelected
  <2>5. OriginalEnd(next) = OriginalEnd(seg)
    BY <2>3 DEF OriginalEnd
  <2>6. "raw" \notin seg.tags =>
          seg.end <= OriginalEnd(seg) /\ ("partial" \in seg.tags => seg.end < OriginalEnd(seg))
    BY DEF SegmentOK, Offers
  <2>7. \A i \in DOMAIN menu : menu[i] <= OriginalEnd(seg)
    <3>1. TAKE i \in DOMAIN menu
    <3>2. CASE "raw" \in seg.tags
      BY <2>2, <3>2
    <3>3. CASE "raw" \notin seg.tags
      <4>1. menu[i] \in Nat /\ seg.end \in Nat /\ OriginalEnd(seg) \in Nat
        BY <1>0, <2>2, SegmentType1, LenProperties, ElementOfSeq
      <4>. QED
        BY <2>2, <2>6, <3>3, <4>1
    <3>. QED
      BY <3>2, <3>3
  <2>8. Offers(next)
    BY <2>2, <2>3, <2>4, <2>5, <2>6, <2>7 DEF Offers
  <2>9. RawOK(next, input)
    BY <2>2, <2>3 DEF SegmentOK, RawOK
  <2>10. SegmentOK(next, input, max)
    BY <2>3, <2>5, <2>8, <2>9 DEF SegmentOK
  <2>. QED
    BY <2>3, <2>4, <2>10 DEF next
<1>. QED
  BY <1>1, <1>2

LEMMA TranslateSegmentsIs ==
  ASSUME NEW max \in Nat, Translates(max), NEW comp, CompOK(comp, max), Open(comp.segs)
  PROVE  LET next == TranslateSegments(comp)
         IN  /\ CompOK(next, max) /\ next.input = comp.input /\ Open(next.segs)
             /\ \A i \in 1..Len(next.segs) : next.segs[i].status # kVoid
             /\ CurrentEnd(next) = CurrentEnd(comp) /\ Len(next.segs) = Len(comp.segs)
             /\ \A i \in 1..Len(next.segs) : next.segs[i] = Translated(comp.input, comp.segs[i])
             /\ Ended(comp.segs) => Ended(next.segs)
<1> DEFINE next == TranslateSegments(comp)
           n == Len(comp.segs)
           segs == [i \in 1..n |-> Translated(comp.input, comp.segs[i])]
<1>1. /\ comp \in Comps /\ Shaped(comp.segs, comp.input, max) /\ Within(comp.segs, Len(comp.input))
      /\ Len(comp.input) <= max /\ comp.input \in Seq(Chars) /\ comp.segs \in Seq(Segment) /\ n \in Nat
      /\ DOMAIN comp.segs = 1..n
  BY CompTypes DEF CompOK
<1>2. next = [comp EXCEPT !.segs = segs]
  BY <1>1 DEF TranslateSegments, Comps
<1>3. ASSUME NEW i \in 1..n
      PROVE  /\ SegmentOK(segs[i], comp.input, max) /\ segs[i].status # kVoid
             /\ segs[i].start = comp.segs[i].start /\ segs[i].end = comp.segs[i].end
             /\ IsSelected(segs[i]) <=> IsSelected(comp.segs[i])
  <2>1. SegmentOK(comp.segs[i], comp.input, max) /\ comp.segs[i].end <= Len(comp.input)
    BY <1>1 DEF Shaped, Within
  <2>2. segs[i] = Translated(comp.input, comp.segs[i])
    OBVIOUS
  <2>. HIDE DEF segs
  <2>. QED
    BY <1>1, <2>1, <2>2, TranslatedIs
<1>3a. \A i \in 1..n : segs[i] = Translated(comp.input, comp.segs[i])
  OBVIOUS
<1>4. segs \in Seq(Segment) /\ Len(segs) = n
  <2>1. segs = [i \in 1..n |-> segs[i]]
    OBVIOUS
  <2>2. \A i \in 1..n : segs[i] \in Segment
    BY <1>3 DEF SegmentOK
  <2>. HIDE DEF segs
  <2>3. segs \in [1..n -> Segment]
    BY <2>1, <2>2
  <2>4. segs \in Seq(Segment)
    BY <1>1, <2>3, SeqDef
  <2>. QED
    BY <1>1, <2>3, <2>4, LenProperties
<1>. HIDE DEF segs, next
<1>5. next \in Comps /\ next.segs = segs /\ next.input = comp.input
  BY <1>1, <1>2, <1>4, SetSegs DEF Recut
<1>6. Tiled(segs)
  <2>1. ASSUME NEW i \in 1..n
        PROVE  /\ segs[i].start = (IF i = 1 THEN 0 ELSE segs[i - 1].end)
               /\ IsEmpty(segs[i]) => i = n /\ i > 1
    <3>1. /\ comp.segs[i].start = (IF i = 1 THEN 0 ELSE comp.segs[i - 1].end)
          /\ IsEmpty(comp.segs[i]) => i = n /\ i > 1
      BY <1>1 DEF Shaped, Tiled
    <3>2. i # 1 => i - 1 \in 1..n
      BY <1>1
    <3>. QED
      BY <1>3, <3>1, <3>2 DEF IsEmpty
  <2>. QED
    BY <1>4, <2>1 DEF Tiled
<1>7. Within(segs, Len(comp.input))
  BY <1>1, <1>3, <1>4 DEF Within
<1>8. CompOK(next, max)
  BY <1>1, <1>3, <1>4, <1>5, <1>6, <1>7 DEF CompOK, Shaped
<1>9. Open(segs)
  <2>1. SUFFICES ASSUME segs # <<>> PROVE ~IsSelected(Last(segs))
    BY DEF Open
  <2>2. n \in 1..n /\ Last(segs) = segs[n]
    BY <1>4, <2>1, LastIs
  <2>3. comp.segs # <<>>
    BY <1>1, <2>2, EmptySeq
  <2>4. Last(comp.segs) = comp.segs[n]
    BY <1>1, <2>3, LastIs
  <2>. QED
    BY <1>3, <2>2, <2>3, <2>4 DEF Open
<1>10. EndOf(segs) = EndOf(comp.segs)
  <2>1. CASE n = 0
    BY <1>1, <1>4, <2>1, EmptySeq DEF EndOf
  <2>2. CASE n # 0
    <3>1. segs # <<>> /\ comp.segs # <<>> /\ n \in 1..n
      BY <1>1, <1>4, <2>2
    <3>2. Last(segs) = segs[n] /\ Last(comp.segs) = comp.segs[n]
      BY <1>1, <1>4, <3>1, LastIs
    <3>. QED
      BY <1>3, <3>1, <3>2 DEF EndOf
  <2>. QED
    BY <2>1, <2>2
<1>11. CurrentEnd(next) = CurrentEnd(comp)
  BY <1>5, <1>8, <1>10, CompFacts
<1>12. ASSUME Ended(comp.segs) PROVE Ended(segs)
  <2>1. SUFFICES ASSUME segs # <<>>, IsEmpty(Last(segs)) PROVE n > 1 /\ IsSelected(segs[n - 1])
    BY <1>4 DEF Ended
  <2>2. n \in 1..n /\ comp.segs # <<>>
    BY <1>1, <1>4, <2>1, LastIs
  <2>3. Last(segs) = segs[n] /\ Last(comp.segs) = comp.segs[n]
    BY <1>1, <1>4, <2>1, <2>2, LastIs
  <2>4. IsEmpty(Last(comp.segs))
    BY <1>3, <2>1, <2>2, <2>3 DEF IsEmpty
  <2>5. n > 1 /\ IsSelected(comp.segs[n - 1])
    BY <1>12, <2>2, <2>4 DEF Ended
  <2>6. n - 1 \in 1..n
    BY <1>1, <2>5
  <2>. QED
    BY <1>3, <2>5, <2>6
<1>. QED
  BY <1>3, <1>3a, <1>4, <1>5, <1>8, <1>9, <1>11, <1>12 DEF next

-----------------------------------------------------------------------------
(* A new input *)

LEMMA DiffPosIs ==
  ASSUME NEW a \in Seq(Chars), NEW b \in Seq(Chars)
  PROVE  /\ DiffPos(a, b) \in 0..Len(a) /\ DiffPos(a, b) <= Len(b)
         /\ \A i \in 1..DiffPos(a, b) : a[i] = b[i]
         /\ \A n \in 0..Len(a) : n <= Len(b) /\ (\A i \in 1..n : a[i] = b[i]) => n <= DiffPos(a, b)
<1> DEFINE S == {i \in 1..Len(a) : i > Len(b) \/ a[i] # b[i]} \cup {Len(a) + 1}
           m == Min(S)
<1>1. Len(a) \in Nat /\ Len(b) \in Nat
  OBVIOUS
<1>2. S \in SUBSET (1..(Len(a) + 1)) /\ S \in SUBSET Nat /\ Len(a) + 1 \in S
  BY <1>1
<1>3. \A i \in 1..Len(a) : i \notin S => i <= Len(b) /\ a[i] = b[i]
  BY <1>1
<1>4. Len(b) < Len(a) => Len(b) + 1 \in S
  BY <1>1
<1>4a. \A i \in S : i <= Len(a) => i > Len(b) \/ a[i] # b[i]
  BY <1>1
<1>5. DiffPos(a, b) = m - 1
  BY DEF DiffPos
<1>. HIDE DEF S
<1>6. m \in S /\ \A y \in S : m <= y
  BY <1>2, MinIsLeast
<1>7. m \in 1..(Len(a) + 1)
  BY <1>2, <1>6
<1>. HIDE DEF m
<1>8. m - 1 \in 0..Len(a) /\ m - 1 <= Len(b)
  BY <1>1, <1>4, <1>6, <1>7
<1>9. ASSUME NEW i \in 1..(m - 1) PROVE a[i] = b[i]
  <2>1. i \in 1..Len(a) /\ ~(m <= i)
    BY <1>1, <1>7
  <2>. QED
    BY <1>3, <1>6, <2>1
<1>10. ASSUME NEW n \in 0..Len(a), n <= Len(b), \A i \in 1..n : a[i] = b[i], ~(n <= m - 1)
       PROVE  FALSE
  <2>1. m \in 1..n /\ m <= Len(a) /\ ~(m > Len(b))
    BY <1>1, <1>7, <1>10
  <2>. QED
    BY <1>4a, <1>6, <1>10, <2>1
<1>. QED
  BY <1>5, <1>8, <1>9, <1>10

LEMMA RemainingIs ==
  ASSUME NEW segs \in Seq(Segment), NEW pos
  PROVE  /\ Remaining(segs, pos) \in 0..Len(segs)
         /\ Remaining(segs, pos) > 0 => segs[Remaining(segs, pos)].end <= pos
         /\ \A i \in 1..Len(segs) : segs[i].end <= pos => i <= Remaining(segs, pos)
<1> DEFINE I == {i \in 1..Len(segs) : segs[i].end <= pos}
<1>1. Remaining(segs, pos) = IF I # {} THEN Max(I) ELSE 0
  BY DEF Remaining, SelectLastInSeq
<1>2. I \in SUBSET (1..Len(segs)) /\ \A i \in 1..Len(segs) : i \in I <=> segs[i].end <= pos
  OBVIOUS
<1>. HIDE DEF I
<1> DEFINE k == Remaining(segs, pos)
<1>3. k \in 0..Len(segs) /\ (k > 0 => k \in I) /\ \A i \in (k + 1)..Len(segs) : i \notin I
  BY <1>1, <1>2, LastInSeq
<1>. HIDE DEF k
<1>4. k > 0 => k \in 1..Len(segs)
  BY <1>3
<1>5. ASSUME NEW i \in 1..Len(segs), segs[i].end <= pos PROVE i <= k
  <2>1. i \notin (k + 1)..Len(segs)
    BY <1>2, <1>3, <1>5
  <2>. QED
    BY <1>3, <2>1
<1>. QED
  BY <1>2, <1>3, <1>4, <1>5 DEF k

LEMMA LastSelectedIs ==
  ASSUME NEW segs \in Seq(Segment)
  PROVE  /\ LastSelected(segs) \in 0..Len(segs)
         /\ LastSelected(segs) > 0 => IsSelected(segs[LastSelected(segs)])
         /\ \A i \in (LastSelected(segs) + 1)..Len(segs) : ~IsSelected(segs[i])
<1> DEFINE I == {i \in 1..Len(segs) : IsSelected(segs[i])}
<1>1. LastSelected(segs) = IF I # {} THEN Max(I) ELSE 0
  BY DEF LastSelected, SelectLastInSeq
<1>2. I \in SUBSET (1..Len(segs)) /\ \A i \in 1..Len(segs) : i \in I <=> IsSelected(segs[i])
  OBVIOUS
<1>. HIDE DEF I
<1>3. /\ LastSelected(segs) \in 0..Len(segs)
      /\ LastSelected(segs) > 0 => LastSelected(segs) \in I
      /\ \A i \in (LastSelected(segs) + 1)..Len(segs) : i \notin I
  BY <1>1, <1>2, LastInSeq
<1>4. \A i \in (LastSelected(segs) + 1)..Len(segs) : i \in 1..Len(segs)
  BY <1>3
<1>. QED
  BY <1>2, <1>3, <1>4

LEMMA EndsBefore ==
  ASSUME NEW segs, NEW input, NEW max, Shaped(segs, input, max)
  PROVE  /\ Within(segs, EndOf(segs))
         /\ \A i \in 1..Len(segs) : \A j \in 1..(i - 1) : segs[j].end <= segs[i].start
<1>1. /\ segs \in Seq(Segment) /\ Tiled(segs) /\ Len(segs) \in Nat
      /\ \A i \in 1..Len(segs) : segs[i].start <= segs[i].end
  BY DEF Shaped, SegmentOK
<1>2. \A j \in 1..Len(segs) : \A i \in 1..(j - 1) : segs[i].end <= segs[j].start
  BY <1>1, Ordered
<1>3. ASSUME NEW i \in 1..Len(segs) PROVE segs[i].end <= EndOf(segs)
  <2> DEFINE n == Len(segs)
  <2>1. segs # <<>> /\ n \in 1..n /\ i \in Nat /\ n \in Nat
    BY <1>1, EmptySeq
  <2>2. EndOf(segs) = segs[n].end
    BY <1>1, <2>1, LastIs DEF EndOf
  <2>3. /\ segs[i].end \in Nat /\ segs[n].end \in Nat /\ segs[n].start \in Nat
        /\ segs[n].start <= segs[n].end
    BY <1>1, <2>1, SegmentType1
  <2>4. i < n => i \in 1..(n - 1)
    BY <2>1
  <2>5. i < n => segs[i].end <= segs[n].start
    BY <1>2, <2>1, <2>4
  <2>. QED
    BY <2>1, <2>2, <2>3, <2>5
<1>. QED
  BY <1>2, <1>3 DEF Within

\* Segments before the place where the input changes do not notice.
LEMMA Rebased ==
  ASSUME NEW max \in Nat, NEW comp \in Comps, Shaped(comp.segs, comp.input, max),
         NEW input \in Seq(Chars), Len(input) <= max,
         NEW d \in Nat, d <= Len(input), \A i \in 1..d : comp.input[i] = input[i],
         EndOf(comp.segs) <= d
  PROVE  LET next == [comp EXCEPT !.input = input]
         IN  CompOK(next, max) /\ next.input = input /\ next.segs = comp.segs
<1> DEFINE next == [comp EXCEPT !.input = input]
<1>1. next \in Comps /\ next.input = input /\ next.segs = comp.segs
  BY CompTypes
<1>. HIDE DEF next
<1>2. comp.segs \in Seq(Segment) /\ Within(comp.segs, EndOf(comp.segs)) /\ Len(input) \in Nat
  <2>1. Within(comp.segs, EndOf(comp.segs))
    BY EndsBefore
  <2>2. comp.segs \in Seq(Segment)
    BY CompTypes
  <2>. QED
    BY <2>1, <2>2
<1>3. ASSUME NEW i \in 1..Len(comp.segs)
      PROVE  SegmentOK(comp.segs[i], input, max) /\ comp.segs[i].end <= Len(input)
  <2> DEFINE seg == comp.segs[i]
  <2>1. SegmentOK(seg, comp.input, max) /\ seg.end <= EndOf(comp.segs)
    BY <1>2 DEF Shaped, Within
  <2>. HIDE DEF seg
  <2>2. seg \in Segment /\ seg.end \in Nat /\ seg.start \in Nat
    BY <2>1, SegmentType1 DEF SegmentOK
  <2>3. EndOf(comp.segs) \in Nat
    BY <1>2, LastIs, SegmentType1 DEF EndOf
  <2>4. seg.start < seg.end => comp.input[seg.start + 1] = input[seg.start + 1]
    <3>1. SUFFICES ASSUME seg.start < seg.end PROVE comp.input[seg.start + 1] = input[seg.start + 1]
      OBVIOUS
    <3>2. seg.start + 1 \in 1..d
      BY <2>1, <2>2, <2>3, <3>1
    <3>. QED
      BY <3>2
  <2>5. RawOK(seg, input)
    BY <2>1, <2>4 DEF SegmentOK, RawOK
  <2>6. SegmentOK(seg, input, max)
    BY <2>1, <2>5 DEF SegmentOK
  <2>7. seg.end <= Len(input)
    BY <1>2, <2>1, <2>2, <2>3
  <2>. QED
    BY <2>6, <2>7 DEF seg
<1>4. Shaped(comp.segs, input, max)
  BY <1>2, <1>3 DEF Shaped
<1>5. Within(comp.segs, Len(input))
  BY <1>3 DEF Within
<1>. QED
  BY <1>1, <1>4, <1>5 DEF CompOK, next

LEMMA ResetInputIs ==
  ASSUME NEW max \in Nat, NEW comp \in Comps, Len(comp.input) <= max,
         Shaped(comp.segs, comp.input, max), Open(comp.segs),
         NEW input \in Seq(Chars), Len(input) <= max
  PROVE  LET next == ResetInput(comp, input)
             kept == Remaining(comp.segs, DiffPos(comp.input, input))
         IN  /\ CompOK(next, max) /\ next.input = input /\ Open(next.segs)
             /\ kept <= Len(next.segs) /\ \A i \in 1..kept : next.segs[i] = comp.segs[i]
             /\ \A i \in 1..Len(next.segs) : i > kept => ~IsSelected(next.segs[i])
<1> DEFINE d == DiffPos(comp.input, input)
           kept == Remaining(comp.segs, d)
           front == SubSeq(comp.segs, 1, kept)
           disposed == [comp EXCEPT !.segs = front]
           base == IF kept < Len(comp.segs) THEN Forward(disposed) ELSE comp
           next == ResetInput(comp, input)
<1>1. /\ comp.input \in Seq(Chars) /\ Len(comp.input) \in Nat
      /\ comp.segs \in Seq(Segment) /\ Len(comp.segs) \in Nat
  BY CompTypes
<1>2. /\ d \in Nat /\ d <= Len(comp.input) /\ d <= Len(input)
      /\ \A i \in 1..d : comp.input[i] = input[i]
  BY <1>1, DiffPosIs
<1>3. kept \in 0..Len(comp.segs) /\ (kept > 0 => comp.segs[kept].end <= d)
  BY <1>1, RemainingIs
<1>4. next = [base EXCEPT !.input = input]
  <2>1. disposed = [comp EXCEPT !.segs = SubSeq(@, 1, kept)]
    BY DEF Comps
  <2>. QED
    BY <2>1 DEF ResetInput
<1>5. Cut(front, comp.segs, kept)
  BY <1>1, <1>3, SubSeqCuts
<1>. HIDE DEF d, kept, front, next
<1>6. /\ Shaped(front, comp.input, max) /\ Len(front) = kept
      /\ \A i \in 1..kept : front[i] = comp.segs[i]
      /\ kept < Len(comp.segs) => Whole(front)
      /\ kept > 0 => front # <<>> /\ Last(front) = comp.segs[kept]
      /\ kept = 0 => front = <<>>
  BY <1>3, <1>5, Prefix
<1>7. EndOf(front) <= d
  BY <1>2, <1>3, <1>6 DEF EndOf
<1>8. disposed \in Comps /\ disposed.segs = front /\ disposed.input = comp.input
  BY <1>5, SetSegs DEF Cut, Recut
<1>. HIDE DEF disposed
<1>9. /\ base \in Comps /\ base.input = comp.input /\ Shaped(base.segs, comp.input, max)
      /\ Open(base.segs) /\ EndOf(base.segs) <= d
      /\ kept <= Len(base.segs) /\ \A i \in 1..kept : base.segs[i] = comp.segs[i]
      /\ \A i \in 1..Len(base.segs) : i > kept => ~IsSelected(base.segs[i])
  <2>1. CASE kept < Len(comp.segs)
    <3>1. Within(front, d)
      <4>1. Within(front, EndOf(front)) /\ front \in Seq(Segment)
        BY <1>6, EndsBefore DEF Shaped
      <4>2. EndOf(front) \in Nat
        BY <4>1, LastIs, SegmentType1 DEF EndOf
      <4>3. \A i \in 1..Len(front) : front[i].end \in Nat
        BY <4>1, SegmentType1
      <4>. QED
        BY <1>2, <1>7, <4>1, <4>2, <4>3 DEF Within
    <3>2. Within(front, Len(comp.input))
      <4>1. front \in Seq(Segment) /\ \A i \in 1..Len(front) : front[i].end \in Nat
        BY <1>6, SegmentType1 DEF Shaped
      <4>. QED
        BY <1>1, <1>2, <3>1, <4>1 DEF Within
    <3>3. CompOK(disposed, max)
      BY <1>6, <1>8, <3>2 DEF CompOK
    <3>4. base = Forward(disposed)
      BY <2>1
    <3>. HIDE DEF base
    <3>5. /\ CompOK(base, max) /\ base.input = comp.input /\ Open(base.segs)
          /\ CurrentEnd(base) = CurrentEnd(disposed)
          /\ kept <= Len(base.segs) /\ \A i \in 1..kept : base.segs[i] = comp.segs[i]
          /\ \A i \in 1..Len(base.segs) : i > kept => ~IsSelected(base.segs[i])
      BY <1>6, <1>8, <3>3, <3>4, ForwardIs
    <3>6. EndOf(base.segs) = EndOf(front)
      BY <1>8, <3>3, <3>5, CompFacts
    <3>. QED
      BY <1>7, <3>5, <3>6 DEF CompOK
  <2>2. CASE ~(kept < Len(comp.segs))
    <3>1. kept = Len(comp.segs)
      BY <1>1, <1>3, <2>2
    <3>2. EndOf(comp.segs) <= d
      <4>1. CASE comp.segs = <<>>
        BY <1>2, <4>1 DEF EndOf
      <4>2. CASE comp.segs # <<>>
        BY <1>1, <1>3, <3>1, <4>2, LastIs DEF EndOf
      <4>. QED
        BY <4>1, <4>2
    <3>3. base = comp
      BY <2>2
    <3>4. /\ kept <= Len(comp.segs)
          /\ \A i \in 1..Len(comp.segs) : i > kept => ~IsSelected(comp.segs[i])
      BY <1>1, <3>1
    <3>. HIDE DEF base
    <3>. QED
      BY <3>2, <3>3, <3>4
  <2>. QED
    BY <2>1, <2>2
<1>. HIDE DEF base
<1>10. LET rebased == [base EXCEPT !.input = input]
       IN  CompOK(rebased, max) /\ rebased.input = input /\ rebased.segs = base.segs
  BY <1>2, <1>9, Rebased
<1>. QED
  BY <1>4, <1>9, <1>10 DEF next, kept, d

-----------------------------------------------------------------------------
(* Contexts *)

Bound(c) == c.schema.max_len

CtxType(c) ==
  /\ c \in [schema : Schemas, input : Seq(Chars), caret_pos : Nat, comp : Comps, out : {c.out}]
  /\ Len(c.input) <= Bound(c) /\ c.caret_pos <= Len(c.input) /\ Len(c.comp.input) <= Bound(c)

\* Only an empty segment is yet to be translated, and it offers nothing.
Offered(segs) ==
  \A i \in 1..Len(segs) : segs[i].status = kVoid => segs[i].menu = <<>> /\ IsEmpty(segs[i])

\* What Compose needs, and what it leaves behind
Composable(c) ==
  CtxType(c) /\ Shaped(c.comp.segs, c.comp.input, Bound(c)) /\ Open(c.comp.segs)

\* The composition has the code of the line, from its beginning on, and with
\* the caret at the end the segments cover all of it.
Lined(c) ==
  /\ Len(c.comp.input) <= Len(c.input)
  /\ \A i \in 1..Len(c.comp.input) : c.comp.input[i] = c.input[i]
  /\ c.caret_pos = Len(c.input) => c.comp.input = c.input /\ CurrentEnd(c.comp) = Len(c.input)

Settled(c) ==
  /\ CtxType(c) /\ CompOK(c.comp, Bound(c)) /\ Open(c.comp.segs) /\ Offered(c.comp.segs)
  /\ Lined(c)

SameLine(d, c) ==
  d.schema = c.schema /\ d.input = c.input /\ d.caret_pos = c.caret_pos /\ d.out = c.out

LEMMA LinedStays ==
  ASSUME NEW c, Lined(c), NEW d, SameLine(d, c), d.comp.input = c.comp.input,
         CurrentEnd(d.comp) = CurrentEnd(c.comp)
  PROVE  Lined(d)
BY DEF Lined, SameLine

LEMMA CtxFacts ==
  ASSUME NEW c, CtxType(c)
  PROVE  /\ c.schema \in Schemas /\ Bound(c) \in Nat /\ Translates(Bound(c))
         /\ c.input \in Seq(Chars) /\ Len(c.input) \in Nat
         /\ c.caret_pos \in Nat /\ c.comp \in Comps
<1>1. /\ c.schema \in Schemas /\ c.input \in Seq(Chars) /\ c.caret_pos \in Nat /\ c.comp \in Comps
  BY DEF CtxType
<1>2. c.schema.max_len \in Nat
  BY <1>1, ContextAssumption DEF SchemaType
<1>3. Translates(Bound(c))
  BY <1>1, ContextAssumption DEF Translates, Bound
<1>. QED
  BY <1>1, <1>2, <1>3 DEF Bound

\* A context with another composition, or with another line
LEMMA WithComp ==
  ASSUME NEW c, CtxType(c), NEW comp \in Comps, Len(comp.input) <= Bound(c)
  PROVE  LET d == [c EXCEPT !.comp = comp]
         IN  CtxType(d) /\ SameLine(d, c) /\ d.comp = comp /\ Bound(d) = Bound(c)
<1> DEFINE d == [c EXCEPT !.comp = comp]
<1>1. /\ d \in [schema : Schemas, input : Seq(Chars), caret_pos : Nat, comp : Comps, out : {d.out}]
      /\ SameLine(d, c) /\ d.comp = comp
  BY DEF CtxType, SameLine
<1>. HIDE DEF d
<1>2. Bound(d) = Bound(c)
  BY <1>1 DEF Bound, SameLine
<1>3. CtxType(d)
  BY <1>1, <1>2 DEF CtxType, SameLine
<1>. QED
  BY <1>1, <1>2, <1>3 DEF d

LEMMA WithSegs ==
  ASSUME NEW c, CtxType(c), NEW segs \in Seq(Segment)
  PROVE  LET d == [c EXCEPT !.comp.segs = segs]
         IN  /\ CtxType(d) /\ SameLine(d, c) /\ Bound(d) = Bound(c)
             /\ d.comp \in Comps /\ d.comp.segs = segs /\ d.comp.input = c.comp.input
<1> DEFINE comp == [c.comp EXCEPT !.segs = segs]
           d == [c EXCEPT !.comp = comp]
<1>1. c.comp \in Comps /\ Len(c.comp.input) <= Bound(c)
  BY CtxFacts DEF CtxType
<1>2. comp \in Comps /\ comp.segs = segs /\ comp.input = c.comp.input
  BY <1>1, SetSegs DEF Recut
<1>3. [c EXCEPT !.comp.segs = segs] = d
  BY DEF CtxType
<1>. HIDE DEF comp
<1>4. CtxType(d) /\ SameLine(d, c) /\ d.comp = comp /\ Bound(d) = Bound(c)
  BY <1>1, <1>2, WithComp
<1>. HIDE DEF d
<1>. QED
  BY <1>2, <1>3, <1>4

\* d is c with another line.
Relined(d, c, input, caret_pos) ==
  /\ d \in [schema : {c.schema}, input : {input}, caret_pos : {caret_pos}, comp : {c.comp}, out : {c.out}]

LEMMA WithLine ==
  ASSUME NEW c, CtxType(c), NEW input, input \in Seq(Chars), Len(input) <= Bound(c),
         NEW caret_pos, caret_pos \in Nat, caret_pos <= Len(input),
         NEW d, Relined(d, c, input, caret_pos)
  PROVE  /\ CtxType(d) /\ Bound(d) = Bound(c) /\ d.comp = c.comp /\ d.out = c.out
         /\ d.schema = c.schema /\ d.input = input /\ d.caret_pos = caret_pos
<1>1. /\ d \in [schema : Schemas, input : Seq(Chars), caret_pos : Nat, comp : Comps, out : {d.out}]
      /\ d.schema = c.schema /\ d.input = input /\ d.caret_pos = caret_pos
      /\ d.comp = c.comp /\ d.out = c.out
  BY DEF CtxType, Relined
<1>2. Bound(d) = Bound(c)
  BY <1>1 DEF Bound
<1>. QED
  BY <1>1, <1>2 DEF CtxType

\* The line up to the caret
LEMMA LineStart ==
  ASSUME NEW str \in Seq(Chars), NEW to \in Nat, to <= Len(str)
  PROVE  LET cut == SubString(str, 0, to)
         IN  /\ cut \in Seq(Chars) /\ Len(cut) = to /\ \A i \in 1..to : cut[i] = str[i]
             /\ to = Len(str) => cut = str
<1> DEFINE cut == SubString(str, 0, to)
<1>1. cut = SubSeq(str, 1, to)
  <2>1. 0 + 1 = 1
    OBVIOUS
  <2>. QED
    BY <2>1 DEF SubString
<1>2. 1 \in Int /\ to \in Int /\ \A i \in 1..to : str[i] \in Chars
  BY ElementOfSeq
<1>. HIDE DEF cut
<1>3. /\ cut \in Seq(Chars) /\ Len(cut) = IF 1 <= to THEN to - 1 + 1 ELSE 0
      /\ \A i \in 1..(to - 1 + 1) : cut[i] = str[1 + i - 1]
  BY <1>1, <1>2, SubSeqProperties
<1>4. Len(cut) = to /\ \A i \in 1..to : cut[i] = str[i]
  BY <1>3
<1>5. to = Len(str) => cut = str
  BY <1>3, <1>4, SeqEqual
<1>. QED
  BY <1>3, <1>4, <1>5 DEF cut

LEMMA ComposeIs ==
  ASSUME NEW c, Composable(c)
  PROVE  LET d == Compose(c) IN Settled(d) /\ SameLine(d, c) /\ Ended(d.comp.segs)
<1> DEFINE max == Bound(c)
           before == SubString(c.input, 0, c.caret_pos)
           reset == ResetInput(c.comp, before)
           active == ExtendPastCaret(reset, c)
           cut == CalculateSegmentation(active, c.caret_pos)
           comp == TranslateSegments(cut)
           d == Compose(c)
<1>1. /\ CtxType(c) /\ max \in Nat /\ Translates(max) /\ c.input \in Seq(Chars)
      /\ Len(c.input) \in Nat /\ Len(c.input) <= max /\ c.caret_pos \in Nat
      /\ c.caret_pos <= Len(c.input) /\ c.comp \in Comps /\ Len(c.comp.input) <= max
      /\ Shaped(c.comp.segs, c.comp.input, max) /\ Open(c.comp.segs)
  BY CtxFacts DEF Composable, CtxType
<1>2. d = [c EXCEPT !.comp = comp]
  BY DEF Compose
<1>3. /\ before \in Seq(Chars) /\ Len(before) = c.caret_pos
      /\ \A i \in 1..c.caret_pos : before[i] = c.input[i]
      /\ c.caret_pos = Len(c.input) => before = c.input
  BY <1>1, LineStart
<1>. HIDE DEF max, before, d
<1>4. CompOK(reset, max) /\ Open(reset.segs) /\ reset.input = before
  <2>1. before \in Seq(Chars) /\ Len(before) <= max
    BY <1>1, <1>3
  <2>2. LET next == ResetInput(c.comp, before)
        IN  CompOK(next, max) /\ Open(next.segs) /\ next.input = before
    BY <1>1, <2>1, ResetInputIs
  <2>. QED
    BY <2>2
<1>. HIDE DEF reset
<1>5. CompOK(active, max) /\ Open(active.segs) /\ active.input \in {before, c.input}
  <2>1. CASE active = reset
    BY <1>4, <2>1
  <2>2. CASE active = ResetInput(reset, c.input)
    <3>1. reset \in Comps /\ Shaped(reset.segs, reset.input, max) /\ Len(reset.input) <= max
      BY <1>4 DEF CompOK
    <3>2. LET next == ResetInput(reset, c.input)
          IN  CompOK(next, max) /\ Open(next.segs) /\ next.input = c.input
      BY <1>1, <1>4, <3>1, ResetInputIs
    <3>. QED
      BY <2>2, <3>2
  <2>. QED
    BY <2>1, <2>2 DEF ExtendPastCaret
<1>. HIDE DEF active
<1>6. /\ CompOK(cut, max) /\ Open(cut.segs) /\ cut.input = active.input /\ Ended(cut.segs)
      /\ c.caret_pos = Len(active.input) => CurrentEnd(cut) = Len(active.input)
  BY <1>1, <1>5, CalculateSegmentationIs
<1>. HIDE DEF cut
<1>7. /\ CompOK(comp, max) /\ Open(comp.segs)
      /\ \A i \in 1..Len(comp.segs) : comp.segs[i].status # kVoid
      /\ comp.input = cut.input /\ CurrentEnd(comp) = CurrentEnd(cut) /\ Ended(comp.segs)
  BY <1>1, <1>6, TranslateSegmentsIs
<1>. HIDE DEF comp
<1>8. comp \in Comps /\ Len(comp.input) <= Bound(c)
  BY <1>7 DEF CompOK, max
<1>9. CtxType(d) /\ SameLine(d, c) /\ d.comp = comp /\ Bound(d) = Bound(c)
  BY <1>1, <1>2, <1>8, WithComp
<1>10. Lined(d)
  <2>1. /\ Len(comp.input) <= Len(c.input)
        /\ \A i \in 1..Len(comp.input) : comp.input[i] = c.input[i]
    BY <1>1, <1>3, <1>5, <1>6, <1>7
  <2>2. c.caret_pos = Len(c.input) => comp.input = c.input /\ CurrentEnd(comp) = Len(c.input)
    BY <1>1, <1>3, <1>5, <1>6, <1>7
  <2>. QED
    BY <1>9, <2>1, <2>2 DEF Lined, SameLine
<1>. QED
  BY <1>7, <1>9, <1>10 DEF Settled, Offered, d, max

LEMMA SettledIsComposable ==
  ASSUME NEW c, Settled(c)
  PROVE  Composable(c)
BY DEF Settled, Composable, CompOK

\* Whatever was there before, an empty line has no segments.
LEMMA ClearIs ==
  ASSUME NEW c, CtxType(c)
  PROVE  LET d == Clear(c)
         IN  /\ Settled(d) /\ d.schema = c.schema /\ d.out = c.out
             /\ d.input = <<>> /\ d.caret_pos = 0
<1> DEFINE empty == [c EXCEPT !.input = <<>>, !.caret_pos = 0]
           cleared == [empty EXCEPT !.comp.segs = <<>>]
<1>1. /\ <<>> \in Seq(Chars) /\ Len(<<>>) = 0 /\ 0 \in Nat /\ Bound(c) \in Nat /\ <<>> \in Seq(Segment)
  BY CtxFacts, EmptySeq
<1>2. /\ CtxType(empty) /\ Bound(empty) = Bound(c) /\ empty.out = c.out
      /\ empty.schema = c.schema /\ empty.input = <<>> /\ empty.caret_pos = 0
  <2>1. empty \in [schema : {c.schema}, input : {<<>>}, caret_pos : {0}, comp : {c.comp}, out : {c.out}]
    BY DEF CtxType
  <2> DEFINE none == <<>>
             zero == 0
  <2>2. none \in Seq(Chars) /\ Len(none) <= Bound(c) /\ zero \in Nat /\ zero <= Len(none)
    BY <1>1
  <2>3. Relined(empty, c, none, zero)
    BY <2>1 DEF Relined
  <2>. HIDE DEF empty, none, zero
  <2>4. /\ CtxType(empty) /\ Bound(empty) = Bound(c) /\ empty.out = c.out
        /\ empty.schema = c.schema /\ empty.input = none /\ empty.caret_pos = zero
    BY <2>2, <2>3, WithLine
  <2>. QED
    BY <2>4 DEF none, zero
<1>3. Clear(c) = Compose(cleared)
  BY DEF Clear, CtxType
<1>. HIDE DEF empty
<1>4. /\ CtxType(cleared) /\ SameLine(cleared, empty) /\ cleared.comp.segs = <<>>
  <2> DEFINE none == <<>>
  <2>1. none \in Seq(Segment)
    BY <1>1
  <2>. HIDE DEF none
  <2>2. LET e == [empty EXCEPT !.comp.segs = none]
        IN  CtxType(e) /\ SameLine(e, empty) /\ e.comp.segs = none
    BY <1>2, <2>1, WithSegs
  <2>. QED
    BY <2>2 DEF none
<1>. HIDE DEF cleared
<1>5. Composable(cleared)
  BY <1>4, NoSegments DEF Composable
<1>6. LET d == Compose(cleared) IN Settled(d) /\ SameLine(d, cleared)
  BY <1>5, ComposeIs
<1>. QED
  BY <1>2, <1>3, <1>4, <1>6 DEF SameLine

-----------------------------------------------------------------------------
(* What was selected before the change stays *)

\* A selected segment that no segmentor reopens
Fixed(segs, k) ==
  /\ k \in 1..Len(segs)
  /\ IsSelected(segs[k])
  /\ "raw" \notin segs[k].tags
  /\ \A j \in 1..k : segs[j].status # kVoid

Stay(next, cur, k) == k <= Len(next) /\ \A j \in 1..k : next[j] = cur[j]

\* The selections before pos stay, and nothing else gets selected.
Follows(next, cur, pos) ==
  /\ \A k \in 1..Len(cur) : Fixed(cur, k) /\ cur[k].end <= pos => Stay(next, cur, k)
  /\ \A i \in 1..Len(next) : IsSelected(next[i]) => i \in 1..Len(cur) /\ next[i] = cur[i]

LEMMA FollowsItself ==
  ASSUME NEW segs \in Seq(Segment), NEW pos
  PROVE  Follows(segs, segs, pos)
<1>1. Len(segs) \in Nat
  OBVIOUS
<1>. QED
  BY <1>1 DEF Follows, Stay

LEMMA FollowsOn ==
  ASSUME NEW a \in Seq(Segment), NEW b \in Seq(Segment), NEW c, NEW pos,
         Follows(b, a, pos), Follows(c, b, pos)
  PROVE  Follows(c, a, pos)
<1>1. Len(a) \in Nat /\ Len(b) \in Nat
  OBVIOUS
<1>2. ASSUME NEW k \in 1..Len(a), Fixed(a, k), a[k].end <= pos PROVE Stay(c, a, k)
  <2>1. k <= Len(b) /\ \A j \in 1..k : b[j] = a[j]
    BY <1>2 DEF Follows, Stay
  <2>2. k \in 1..Len(b) /\ k \in 1..k
    BY <1>1, <2>1
  <2>3. Fixed(b, k) /\ b[k].end <= pos
    BY <1>2, <2>1, <2>2 DEF Fixed
  <2>4. Stay(c, b, k)
    BY <2>2, <2>3 DEF Follows
  <2>. QED
    BY <2>1, <2>4 DEF Stay
<1>3. ASSUME NEW i \in 1..Len(c), IsSelected(c[i]) PROVE i \in 1..Len(a) /\ c[i] = a[i]
  <2>1. i \in 1..Len(b) /\ c[i] = b[i]
    BY <1>3 DEF Follows
  <2>2. i \in 1..Len(a) /\ b[i] = a[i]
    BY <1>3, <2>1 DEF Follows
  <2>. QED
    BY <2>1, <2>2
<1>. QED
  BY <1>2, <1>3 DEF Follows

LEMMA FollowsFrom ==
  ASSUME NEW next \in Seq(Segment), NEW cur \in Seq(Segment), NEW m \in Nat, NEW pos,
         m <= Len(next), m <= Len(cur), \A i \in 1..m : next[i] = cur[i],
         \A i \in 1..Len(next) : i > m => ~IsSelected(next[i]),
         \A k \in 1..Len(cur) : Fixed(cur, k) /\ cur[k].end <= pos => k <= m
  PROVE  Follows(next, cur, pos)
<1>1. Len(next) \in Nat /\ Len(cur) \in Nat
  OBVIOUS
<1>2. ASSUME NEW k \in 1..Len(cur), Fixed(cur, k), cur[k].end <= pos PROVE Stay(next, cur, k)
  <2>1. k <= m
    BY <1>2
  <2>. QED
    BY <1>1, <2>1 DEF Stay
<1>3. ASSUME NEW i \in 1..Len(next), IsSelected(next[i])
      PROVE  i \in 1..Len(cur) /\ next[i] = cur[i]
  <2>1. i <= m
    BY <1>1, <1>3
  <2>. QED
    BY <1>1, <2>1
<1>. QED
  BY <1>2, <1>3 DEF Follows

LEMMA EmptyIsOpen ==
  ASSUME NEW seg, NEW input, NEW max, SegmentOK(seg, input, max), IsEmpty(seg)
  PROVE  ~IsSelected(seg)
<1>1. seg.start \in Nat /\ seg.end \in Nat
  BY SegmentType1 DEF SegmentOK
<1>. QED
  BY <1>1 DEF SegmentOK, Offers, IsEmpty

LEMMA ForwardFollows ==
  ASSUME NEW max \in Nat, NEW comp, CompOK(comp, max), NEW pos
  PROVE  Follows(Forward(comp).segs, comp.segs, pos)
<1> DEFINE next == Forward(comp)
           m == Len(comp.segs)
<1>1. /\ CompOK(next, max) /\ m <= Len(next.segs)
      /\ \A i \in 1..m : next.segs[i] = comp.segs[i]
      /\ \A i \in 1..Len(next.segs) : i > m => ~IsSelected(next.segs[i])
  BY ForwardIs
<1>. HIDE DEF next
<1>2. comp.segs \in Seq(Segment) /\ next.segs \in Seq(Segment) /\ m \in Nat
  BY <1>1, CompTypes DEF CompOK
<1>3. \A k \in 1..Len(comp.segs) : k <= m
  BY <1>2
<1>4. m <= Len(comp.segs)
  BY <1>2
<1>5. Follows(next.segs, comp.segs, pos)
  <2>. HIDE DEF m
  <2>. QED
    BY <1>1, <1>2, <1>3, <1>4, FollowsFrom
<1>. QED
  BY <1>5 DEF next

LEMMA TrimFollows ==
  ASSUME NEW max \in Nat, NEW comp, CompOK(comp, max), NEW pos
  PROVE  Follows(Trim(comp).segs, comp.segs, pos)
<1> DEFINE next == Trim(comp)
           m == Len(next.segs)
<1>1. /\ CompOK(next, max) /\ m <= Len(comp.segs)
      /\ \A i \in 1..m : next.segs[i] = comp.segs[i]
      /\ \A i \in 1..Len(comp.segs) : i > m => IsEmpty(comp.segs[i])
  BY TrimIs
<1>. HIDE DEF next
<1>2. comp.segs \in Seq(Segment) /\ next.segs \in Seq(Segment) /\ m \in Nat /\ Len(comp.segs) \in Nat
  BY <1>1, CompTypes DEF CompOK
<1>3. ASSUME NEW k \in 1..Len(comp.segs), Fixed(comp.segs, k) PROVE k <= m
  <2>1. SUFFICES ASSUME k > m PROVE FALSE
    BY <1>2
  <2>2. SegmentOK(comp.segs[k], comp.input, max) /\ IsEmpty(comp.segs[k]) /\ IsSelected(comp.segs[k])
    BY <1>1, <1>3, <2>1 DEF CompOK, Shaped, Fixed
  <2>. QED
    BY <2>2, EmptyIsOpen
<1>4. m <= Len(next.segs) /\ \A i \in 1..Len(next.segs) : i > m => ~IsSelected(next.segs[i])
  BY <1>2
<1>5. Follows(next.segs, comp.segs, pos)
  <2>. HIDE DEF m
  <2>. QED
    BY <1>1, <1>2, <1>3, <1>4, FollowsFrom
<1>. QED
  BY <1>5 DEF next

LEMMA SwapFollows ==
  ASSUME NEW segs \in Seq(Segment), segs # <<>>, NEW seg \in Segment, ~IsSelected(seg),
         ~IsSelected(Last(segs)) \/ "raw" \in Last(segs).tags, NEW pos
  PROVE  Follows(SetLast(segs, seg), segs, pos)
<1> DEFINE next == SetLast(segs, seg)
           m == Len(segs) - 1
<1>1. Swapped(next, segs, seg)
  BY SetLastSwaps
<1>. HIDE DEF next
<1>2. Len(segs) \in Nat \ {0} /\ Last(segs) = segs[Len(segs)]
  BY LastIs
<1>3. /\ next \in Seq(Segment) /\ m \in Nat /\ m <= Len(next) /\ m <= Len(segs)
      /\ \A i \in 1..m : next[i] = segs[i]
      /\ \A i \in 1..Len(next) : i > m => ~IsSelected(next[i])
  <2>1. Len(next) = Len(segs) /\ next \in Seq(Segment)
    BY <1>1 DEF Swapped
  <2>2. \A i \in 1..m : i \in 1..Len(segs) /\ i # Len(segs)
    BY <1>2
  <2>3. \A i \in 1..Len(segs) : i > m => i = Len(segs)
    BY <1>2
  <2>. QED
    BY <1>1, <1>2, <2>1, <2>2, <2>3 DEF Swapped
<1>4. ASSUME NEW k \in 1..Len(segs), Fixed(segs, k) PROVE k <= m
  <2>1. k # Len(segs)
    BY <1>2, <1>4 DEF Fixed
  <2>. QED
    BY <1>2, <2>1
<1>5. Follows(next, segs, pos)
  <2>. HIDE DEF m
  <2>. QED
    BY <1>3, <1>4, FollowsFrom
<1>. QED
  BY <1>5 DEF next

LEMMA NewIsOpen ==
  ASSUME NEW start \in Nat, NEW end \in Nat, NEW tags \in SUBSET Tags, start <= end
  PROVE  NewSegment(start, end, tags) \in Segment /\ ~IsSelected(NewSegment(start, end, tags))
<1>1. NewSegment(start, end, tags) \in Segment
  BY Statuses DEF NewSegment, Segment
<1>2. NewSegment(start, end, tags).status = 0
  BY Statuses DEF NewSegment
<1>. QED
  BY <1>1, <1>2, Statuses DEF IsSelected

LEMMA AddSegmentFollows ==
  ASSUME NEW max \in Nat, NEW comp, CompOK(comp, max), Open(comp.segs),
         NEW seg \in Segment, ~IsSelected(seg), NEW pos
  PROVE  Follows(AddSegment(comp, seg).segs, comp.segs, pos)
<1> DEFINE next == AddSegment(comp, seg)
           last == Last(comp.segs)
           merged == [last EXCEPT !.tags = @ \cup seg.tags]
<1>1. comp \in Comps /\ comp.segs \in Seq(Segment)
  BY CompTypes DEF CompOK
<1>2. CASE next = comp
  BY <1>1, <1>2, FollowsItself
<1>3. CASE comp.segs = <<>> /\ next = [comp EXCEPT !.segs = <<seg>>]
  <2> DEFINE one == <<seg>>
             none == <<>>
             zero == 0
  <2>1. one \in Seq(Segment) /\ Len(one) = 1 /\ one[1] = seg
    OBVIOUS
  <2>2. next.segs = one
    <3>1. next = [comp EXCEPT !.segs = one]
      BY <1>3
    <3>. HIDE DEF one, next
    <3>. QED
      BY <1>1, <2>1, <3>1, SetSegs DEF Recut
  <2>3. none \in Seq(Segment) /\ Len(none) = 0 /\ zero \in Nat /\ 1..0 = {}
    BY EmptySeq
  <2>. HIDE DEF one
  <2>4. /\ zero <= Len(one) /\ zero <= Len(none) /\ \A i \in 1..zero : one[i] = none[i]
        /\ \A i \in 1..Len(one) : i > zero => ~IsSelected(one[i])
        /\ \A k \in 1..Len(none) : k <= zero
    BY <2>1, <2>3
  <2>. HIDE DEF none, zero
  <2>5. Follows(one, none, pos)
    BY <2>1, <2>3, <2>4, FollowsFrom
  <2>. QED
    BY <1>3, <2>2, <2>5 DEF none
<1>4. ASSUME comp.segs # <<>>, NEW e \in Segment, ~IsSelected(e),
             next = [comp EXCEPT !.segs = SetLast(@, e)]
      PROVE  Follows(next.segs, comp.segs, pos)
  <2> DEFINE segs == SetLast(comp.segs, e)
  <2>1. segs \in Seq(Segment)
    BY <1>1, <1>4, SetLastSwaps DEF Swapped
  <2>2. next = [comp EXCEPT !.segs = segs]
    BY <1>1, <1>4 DEF Comps
  <2>. HIDE DEF next, segs
  <2>3. next.segs = segs
    BY <1>1, <2>1, <2>2, SetSegs DEF Recut
  <2>4. ~IsSelected(Last(comp.segs))
    BY <1>4 DEF Open
  <2>. QED
    BY <1>1, <1>4, <2>3, <2>4, SwapFollows DEF segs
<1>5. comp.segs # <<>> => merged \in Segment /\ ~IsSelected(merged)
  <2>1. SUFFICES ASSUME comp.segs # <<>> PROVE merged \in Segment /\ ~IsSelected(merged)
    OBVIOUS
  <2>2. last \in Segment /\ ~IsSelected(last) /\ seg.tags \in SUBSET Tags
    BY <1>1, <2>1, LastIs, SegmentType1 DEF Open
  <2>. HIDE DEF last
  <2>3. merged \in Segment /\ merged.status = last.status
    BY <2>2 DEF Segment
  <2>. QED
    BY <2>2, <2>3 DEF IsSelected
<1>6. \/ next = comp
      \/ comp.segs = <<>> /\ next = [comp EXCEPT !.segs = <<seg>>]
      \/ comp.segs # <<>> /\ next = [comp EXCEPT !.segs = SetLast(@, seg)]
      \/ comp.segs # <<>> /\ next = [comp EXCEPT !.segs = SetLast(@, merged)]
  BY DEF AddSegment
<1>. HIDE DEF next, merged
<1>. QED
  BY <1>2, <1>3, <1>4, <1>5, <1>6 DEF next

LEMMA AbcFollows ==
  ASSUME NEW max \in Nat, NEW comp, CompOK(comp, max), Open(comp.segs), NEW pos
  PROVE  Follows(AbcSegmentor(comp).segs, comp.segs, pos)
<1> DEFINE j == CurrentStart(comp)
           k == AbcEnd(comp.input, j)
           tags == {"abc"}
<1>1. /\ comp.input \in Seq(Chars) /\ Len(comp.input) \in Nat /\ comp.segs \in Seq(Segment)
      /\ j \in Nat /\ j <= Len(comp.input)
  BY CompFacts, CompTypes DEF CompOK
<1>2. k \in j..Len(comp.input)
  BY <1>1, AbcEndIs
<1>3. AbcSegmentor(comp) = IF j < k THEN AddSegment(comp, NewSegment(j, k, tags)) ELSE comp
  BY DEF AbcSegmentor
<1>4. tags \in SUBSET Tags
  BY DEF Tags
<1>. HIDE DEF j, k, tags
<1>5. NewSegment(j, k, tags) \in Segment /\ ~IsSelected(NewSegment(j, k, tags))
  BY <1>1, <1>2, <1>4, NewIsOpen
<1>. QED
  BY <1>1, <1>3, <1>5, FollowsItself, AddSegmentFollows

LEMMA PunctFollows ==
  ASSUME NEW max \in Nat, NEW comp, CompOK(comp, max), Open(comp.segs), NEW pos
  PROVE  Follows(PunctSegmentor(comp).segs, comp.segs, pos)
<1> DEFINE j == CurrentStart(comp)
           tags == {"punct"}
<1>1. j \in Nat /\ j + 1 \in Nat /\ j <= j + 1 /\ tags \in SUBSET Tags
  BY CompFacts DEF Tags
<1>2. PunctSegmentor(comp) = AddSegment(comp, NewSegment(j, j + 1, tags))
  BY DEF PunctSegmentor
<1>. HIDE DEF j, tags
<1>3. NewSegment(j, j + 1, tags) \in Segment /\ ~IsSelected(NewSegment(j, j + 1, tags))
  BY <1>1, NewIsOpen
<1>. QED
  BY <1>2, <1>3, AddSegmentFollows

LEMMA FallbackFollows ==
  ASSUME NEW max \in Nat, NEW comp, CompOK(comp, max), Open(comp.segs), NEW pos
  PROVE  Follows(FallbackSegmentor(comp).segs, comp.segs, pos)
<1> DEFINE next == FallbackSegmentor(comp)
           k == CurrentStart(comp)
           trimmed == Trim(comp)
           last == Last(trimmed.segs)
           grown == [last EXCEPT !.end = k + 1, !.status = kVoid, !.tags = {"raw"},
                                 !.menu = <<>>, !.selected_index = 0]
           tags == {"raw"}
           seg == NewSegment(k, k + 1, tags)
           forward == Forward(trimmed)
<1>1. /\ comp.segs \in Seq(Segment) /\ k \in Nat /\ k + 1 \in Nat /\ k <= k + 1
      /\ tags \in SUBSET Tags
  BY CompFacts, CompTypes DEF CompOK, Tags
<1>2. /\ trimmed \in Comps /\ trimmed.segs \in Seq(Segment) /\ CompOK(trimmed, max)
      /\ Follows(trimmed.segs, comp.segs, pos)
  <2>1. CompOK(trimmed, max)
    BY TrimIs
  <2>2. Follows(trimmed.segs, comp.segs, pos)
    BY TrimFollows
  <2>. HIDE DEF trimmed
  <2>. QED
    BY <2>1, <2>2, CompTypes DEF CompOK
<1>3. \/ next = comp
      \/ /\ trimmed.segs # <<>> /\ "raw" \in last.tags
         /\ next = [trimmed EXCEPT !.segs = SetLast(@, grown)]
      \/ next = AddSegment(forward, seg)
  BY DEF FallbackSegmentor
<1>4. seg \in Segment /\ ~IsSelected(seg)
  BY <1>1, NewIsOpen
<1>. HIDE DEF next, k, trimmed, tags, seg
<1>5. CASE next = comp
  BY <1>1, <1>5, FollowsItself DEF next
<1>6. CASE /\ trimmed.segs # <<>> /\ "raw" \in last.tags
           /\ next = [trimmed EXCEPT !.segs = SetLast(@, grown)]
  <2>1. last \in Segment
    BY <1>2, <1>6, LastIs
  <2>2. grown \in Segment /\ grown.status = kVoid
    <3>. HIDE DEF last
    <3>. QED
      BY <1>1, <2>1, RawGrows
  <2> DEFINE segs == SetLast(trimmed.segs, grown)
  <2>3. next = [trimmed EXCEPT !.segs = segs]
    BY <1>2, <1>6 DEF Comps
  <2>. HIDE DEF grown
  <2>4. ~IsSelected(grown)
    BY <2>2, Statuses DEF IsSelected
  <2>5. Follows(segs, trimmed.segs, pos)
    BY <1>2, <1>6, <2>2, <2>4, SwapFollows
  <2>6. segs \in Seq(Segment)
    BY <1>2, <1>6, <2>2, SetLastSwaps DEF Swapped
  <2>. HIDE DEF segs
  <2>7. next.segs = segs
    BY <1>2, <2>3, <2>6, SetSegs DEF Recut
  <2>. QED
    BY <1>1, <1>2, <2>5, <2>6, <2>7, FollowsOn DEF next
<1>7. CASE next = AddSegment(forward, seg)
  <2>1. CompOK(forward, max) /\ Open(forward.segs)
    BY <1>2, ForwardIs
  <2>2. Follows(forward.segs, trimmed.segs, pos)
    BY <1>2, ForwardFollows
  <2>. HIDE DEF forward
  <2>3. forward.segs \in Seq(Segment)
    BY <2>1, CompTypes DEF CompOK
  <2>4. Follows(next.segs, forward.segs, pos)
    BY <1>4, <1>7, <2>1, AddSegmentFollows
  <2>5. Follows(next.segs, trimmed.segs, pos)
    BY <1>2, <2>2, <2>3, <2>4, FollowsOn
  <2>. QED
    BY <1>1, <1>2, <2>5, FollowsOn DEF next
<1>. QED
  BY <1>3, <1>5, <1>6, <1>7 DEF next

LEMMA RoundFollows ==
  ASSUME NEW max \in Nat, NEW comp, CompOK(comp, max), Open(comp.segs), NEW pos
  PROVE  Follows(Round(comp).segs, comp.segs, pos)
<1> DEFINE abc == AbcSegmentor(comp)
           next == Round(comp)
<1>1. next = IF PunctAt(abc) THEN PunctSegmentor(abc) ELSE FallbackSegmentor(abc)
  BY DEF Round, AfterAbc
<1>2. CompOK(abc, max) /\ Open(abc.segs)
  BY AbcSegmentorIs
<1>3. Follows(abc.segs, comp.segs, pos)
  BY AbcFollows
<1>. HIDE DEF abc, next
<1>4. Follows(next.segs, abc.segs, pos)
  BY <1>1, <1>2, PunctFollows, FallbackFollows
<1>5. abc.segs \in Seq(Segment) /\ comp.segs \in Seq(Segment)
  BY <1>2, CompTypes DEF CompOK
<1>. QED
  BY <1>3, <1>4, <1>5, FollowsOn DEF next

LEMMA PassFollows ==
  ASSUME NEW max \in Nat, NEW loop, CompOK(loop.comp, max), Open(loop.comp.segs), NEW caret_pos,
         NEW pos
  PROVE  Follows(Pass(loop, caret_pos).comp.segs, loop.comp.segs, pos)
<1> DEFINE next == Round(loop.comp)
           goes_on == CurrentStart(loop.comp) # CurrentEnd(next) /\ CurrentStart(loop.comp) < caret_pos
<1>0. loop.comp.segs \in Seq(Segment)
  BY CompTypes DEF CompOK
<1>1. CASE ~loop.going \/ HasFinishedSegmentation(loop.comp)
  BY <1>0, <1>1, FollowsItself DEF Pass
<1>2. CASE ~(~loop.going \/ HasFinishedSegmentation(loop.comp))
  <2>1. Pass(loop, caret_pos).comp
          = IF goes_on /\ ~HasFinishedSegmentation(next) THEN Forward(next) ELSE next
    BY <1>2 DEF Pass, RoundDone, EndPass
  <2>2. CompOK(next, max)
    BY RoundIs
  <2>3. Follows(next.segs, loop.comp.segs, pos)
    BY RoundFollows
  <2>. HIDE DEF next, goes_on
  <2>4. next.segs \in Seq(Segment)
    BY <2>2, CompTypes DEF CompOK
  <2>5. Follows(Forward(next).segs, next.segs, pos)
    BY <2>2, ForwardFollows
  <2>6. Follows(Forward(next).segs, loop.comp.segs, pos)
    BY <1>0, <2>3, <2>4, <2>5, FollowsOn
  <2>. QED
    BY <2>1, <2>3, <2>6
<1>. QED
  BY <1>1, <1>2

LEMMA RoundsFollow ==
  ASSUME NEW max \in Nat, NEW comp, CompOK(comp, max), Open(comp.segs), NEW caret_pos, NEW pos
  PROVE  Follows(Rounds(comp, caret_pos).segs, comp.segs, pos)
<1> DEFINE N == Len(comp.input) + 1
           Kept(next) == CompOK(next, max) /\ Open(next.segs) /\ Follows(next.segs, comp.segs, pos)
<1>1. Len(comp.input) \in Nat /\ comp.segs \in Seq(Segment)
  BY CompTypes DEF CompOK
<1>2. PICK f : /\ f[0] = [comp |-> comp, going |-> TRUE]
               /\ \A n \in 1..N : f[n] = Pass(f[n - 1], caret_pos)
               /\ Rounds(comp, caret_pos) = f[N].comp
  BY <1>1, RoundsAre
<1>3. Kept(f[0].comp)
  BY <1>1, <1>2, FollowsItself
<1>4. ASSUME NEW n \in 1..N, Kept(f[n - 1].comp) PROVE Kept(f[n].comp)
  <2> DEFINE loop == f[n - 1]
             next == Pass(loop, caret_pos).comp
  <2>1. CompOK(loop.comp, max) /\ Open(loop.comp.segs) /\ Follows(loop.comp.segs, comp.segs, pos)
    BY <1>4
  <2>2. f[n].comp = next
    BY <1>2
  <2>. HIDE DEF loop
  <2>3. CompOK(next, max) /\ Open(next.segs)
    BY <2>1, PassIs
  <2>4. Follows(next.segs, loop.comp.segs, pos)
    BY <2>1, PassFollows
  <2>5. loop.comp.segs \in Seq(Segment)
    BY <2>1, CompTypes DEF CompOK
  <2>. HIDE DEF next
  <2>6. Follows(next.segs, comp.segs, pos)
    BY <1>1, <2>1, <2>4, <2>5, FollowsOn
  <2>. QED
    BY <2>2, <2>3, <2>6
<1> DEFINE Bad == {n \in 0..N : ~Kept(f[n].comp)}
<1>. HIDE DEF Kept
<1>5. Bad = {}
  <2>1. SUFFICES ASSUME Bad # {} PROVE FALSE
    OBVIOUS
  <2>2. Bad \in SUBSET Nat
    OBVIOUS
  <2>3. PICK n \in Bad : \A k \in Bad : n <= k
    BY <2>1, <2>2, LeastNumber
  <2>4. n \in 0..N /\ ~Kept(f[n].comp) /\ N \in Nat
    BY <1>1
  <2>5. n \in 1..N /\ n - 1 \in 0..N /\ ~(n <= n - 1)
    BY <1>3, <2>4
  <2>6. Kept(f[n - 1].comp)
    BY <2>3, <2>5
  <2>. QED
    BY <1>4, <2>4, <2>5, <2>6
<1>6. Kept(f[N].comp)
  BY <1>1, <1>5
<1>. QED
  BY <1>2, <1>6 DEF Kept

LEMMA CalculateSegmentationFollows ==
  ASSUME NEW max \in Nat, NEW comp, CompOK(comp, max), Open(comp.segs), NEW caret_pos, NEW pos
  PROVE  Follows(CalculateSegmentation(comp, caret_pos).segs, comp.segs, pos)
<1> DEFINE rounds == Rounds(comp, caret_pos)
           trimmed == Trim(rounds)
           forward == Forward(trimmed)
<1>1. CompOK(rounds, max)
  BY RoundsKeep
<1>2. Follows(rounds.segs, comp.segs, pos)
  BY RoundsFollow
<1>3. CalculateSegmentation(comp, caret_pos) \in {trimmed, forward}
  BY DEF CalculateSegmentation, ForwardIfSelected
<1>. HIDE DEF rounds
<1>4. CompOK(trimmed, max)
  BY <1>1, TrimIs
<1>5. Follows(trimmed.segs, rounds.segs, pos)
  BY <1>1, TrimFollows
<1>. HIDE DEF trimmed
<1>6. Follows(forward.segs, trimmed.segs, pos)
  BY <1>4, ForwardFollows
<1>. HIDE DEF forward
<1>7. comp.segs \in Seq(Segment) /\ rounds.segs \in Seq(Segment) /\ trimmed.segs \in Seq(Segment)
  BY <1>1, <1>4, CompTypes DEF CompOK
<1>8. Follows(trimmed.segs, comp.segs, pos)
  BY <1>2, <1>5, <1>7, FollowsOn
<1>9. Follows(forward.segs, comp.segs, pos)
  BY <1>6, <1>7, <1>8, FollowsOn
<1>. QED
  BY <1>3, <1>8, <1>9

LEMMA TranslateSegmentsFollows ==
  ASSUME NEW max \in Nat, Translates(max), NEW comp, CompOK(comp, max), Open(comp.segs), NEW pos
  PROVE  Follows(TranslateSegments(comp).segs, comp.segs, pos)
<1> DEFINE segs == TranslateSegments(comp).segs
<1>1. /\ Len(segs) = Len(comp.segs)
      /\ \A i \in 1..Len(segs) : segs[i] = Translated(comp.input, comp.segs[i])
  BY TranslateSegmentsIs
<1>2. /\ comp.segs \in Seq(Segment) /\ Len(comp.segs) \in Nat
      /\ comp.input \in Seq(Chars) /\ Len(comp.input) <= max
      /\ \A i \in 1..Len(comp.segs) : SegmentOK(comp.segs[i], comp.input, max)
      /\ \A i \in 1..Len(comp.segs) : comp.segs[i].end <= Len(comp.input)
  BY CompTypes DEF CompOK, Shaped, Within
<1>. HIDE DEF segs
<1>3. ASSUME NEW i \in 1..Len(comp.segs), comp.segs[i].status # kVoid
      PROVE  segs[i] = comp.segs[i]
  <2>1. comp.segs[i].status >= kGuess
    <3> DEFINE status == comp.segs[i].status
    <3>1. status \in 0..3 /\ status # 0
      BY <1>2, <1>3, SegmentType1, Statuses
    <3>. HIDE DEF status
    <3>2. status >= kGuess
      BY <3>1, Statuses
    <3>. QED
      BY <3>2 DEF status
  <2>. QED
    BY <1>1, <2>1 DEF Translated
<1>4. ASSUME NEW k \in 1..Len(comp.segs), Fixed(comp.segs, k) PROVE Stay(segs, comp.segs, k)
  <2>1. \A j \in 1..k : j \in 1..Len(comp.segs) /\ comp.segs[j].status # kVoid
    BY <1>2, <1>4 DEF Fixed
  <2>2. k <= Len(segs)
    BY <1>1, <1>2
  <2>. QED
    BY <1>3, <2>1, <2>2 DEF Stay
<1>5. ASSUME NEW i \in 1..Len(segs), IsSelected(segs[i])
      PROVE  i \in 1..Len(comp.segs) /\ segs[i] = comp.segs[i]
  <2>1. i \in 1..Len(comp.segs)
    BY <1>1
  <2>2. IsSelected(comp.segs[i])
    BY <1>1, <1>2, <1>5, <2>1, TranslatedIs
  <2>3. comp.segs[i].status # kVoid
    BY <2>2, Statuses DEF IsSelected
  <2>. QED
    BY <1>3, <2>1, <2>3
<1>. QED
  BY <1>4, <1>5 DEF Follows, segs

\* Up to the place where the new input differs
LEMMA ResetInputFollows ==
  ASSUME NEW max \in Nat, NEW comp \in Comps, Len(comp.input) <= max,
         Shaped(comp.segs, comp.input, max), Open(comp.segs),
         NEW input \in Seq(Chars), Len(input) <= max,
         NEW pos \in Nat, pos <= Len(comp.input), pos <= Len(input),
         \A i \in 1..pos : comp.input[i] = input[i]
  PROVE  Follows(ResetInput(comp, input).segs, comp.segs, pos)
<1> DEFINE d == DiffPos(comp.input, input)
           m == Remaining(comp.segs, d)
           next == ResetInput(comp, input)
<1>1. /\ comp.input \in Seq(Chars) /\ Len(comp.input) \in Nat
      /\ comp.segs \in Seq(Segment) /\ Len(comp.segs) \in Nat
  BY CompTypes
<1>2. d \in Nat /\ pos <= d
  <2>1. pos \in 0..Len(comp.input) /\ pos <= Len(input)
    BY <1>1
  <2>2. /\ d \in 0..Len(comp.input)
        /\ \A n \in 0..Len(comp.input) :
             n <= Len(input) /\ (\A i \in 1..n : comp.input[i] = input[i]) => n <= d
    BY <1>1, DiffPosIs
  <2>. HIDE DEF d
  <2>. QED
    BY <1>1, <2>1, <2>2
<1>3. /\ m \in 0..Len(comp.segs)
      /\ \A i \in 1..Len(comp.segs) : comp.segs[i].end <= d => i <= m
  BY <1>1, RemainingIs
<1>4. /\ CompOK(next, max)
      /\ m <= Len(next.segs) /\ \A i \in 1..m : next.segs[i] = comp.segs[i]
      /\ \A i \in 1..Len(next.segs) : i > m => ~IsSelected(next.segs[i])
  BY ResetInputIs
<1>. HIDE DEF d, m, next
<1>5. next.segs \in Seq(Segment) /\ m \in Nat /\ m <= Len(comp.segs)
  BY <1>1, <1>3, <1>4, CompTypes DEF CompOK
<1>6. ASSUME NEW k \in 1..Len(comp.segs), comp.segs[k].end <= pos PROVE k <= m
  <2>1. comp.segs[k].end \in Nat
    BY <1>1, SegmentType1
  <2>2. comp.segs[k].end <= d
    BY <1>2, <1>6, <2>1
  <2>. QED
    BY <1>3, <2>2
<1>7. Follows(next.segs, comp.segs, pos)
  BY <1>1, <1>4, <1>5, <1>6, FollowsFrom
<1>. QED
  BY <1>7 DEF next

LEMMA ComposeFollows ==
  ASSUME NEW c, Composable(c), NEW pos \in Nat, pos <= c.caret_pos, pos <= Len(c.comp.input),
         \A i \in 1..pos : c.comp.input[i] = c.input[i]
  PROVE  Follows(Compose(c).comp.segs, c.comp.segs, pos)
<1> DEFINE max == Bound(c)
           before == SubString(c.input, 0, c.caret_pos)
           reset == ResetInput(c.comp, before)
           active == ExtendPastCaret(reset, c)
           cut == CalculateSegmentation(active, c.caret_pos)
           comp == TranslateSegments(cut)
           d == Compose(c)
<1>1. /\ CtxType(c) /\ max \in Nat /\ Translates(max) /\ c.input \in Seq(Chars)
      /\ Len(c.input) \in Nat /\ Len(c.input) <= max /\ c.caret_pos \in Nat
      /\ c.caret_pos <= Len(c.input) /\ c.comp \in Comps /\ Len(c.comp.input) <= max
      /\ Shaped(c.comp.segs, c.comp.input, max) /\ Open(c.comp.segs)
  BY CtxFacts DEF Composable, CtxType
<1>2. d.comp = comp
  BY <1>1 DEF Compose, CtxType
<1>3. /\ before \in Seq(Chars) /\ Len(before) = c.caret_pos
      /\ \A i \in 1..c.caret_pos : before[i] = c.input[i]
  BY <1>1, LineStart
<1>. HIDE DEF max, before, d
<1>4. CompOK(reset, max) /\ Open(reset.segs) /\ reset.input = before
  <2>1. before \in Seq(Chars) /\ Len(before) <= max
    BY <1>1, <1>3
  <2>2. LET next == ResetInput(c.comp, before)
        IN  CompOK(next, max) /\ Open(next.segs) /\ next.input = before
    BY <1>1, <2>1, ResetInputIs
  <2>. QED
    BY <2>2
<1>5. Follows(reset.segs, c.comp.segs, pos)
  <2>1. before \in Seq(Chars) /\ Len(before) <= max /\ pos <= Len(before)
    BY <1>1, <1>3
  <2>2. \A i \in 1..pos : c.comp.input[i] = before[i]
    BY <1>1, <1>3
  <2>. QED
    BY <1>1, <2>1, <2>2, ResetInputFollows
<1>. HIDE DEF reset
<1>6. reset \in Comps /\ Shaped(reset.segs, reset.input, max) /\ Len(reset.input) <= max
  BY <1>4 DEF CompOK
<1>7. CompOK(active, max) /\ Open(active.segs) /\ Follows(active.segs, reset.segs, pos)
  <2>1. CASE active = reset
    <3>1. reset.segs \in Seq(Segment)
      BY <1>6, CompTypes
    <3>. QED
      BY <1>4, <2>1, <3>1, FollowsItself
  <2>2. CASE active = ResetInput(reset, c.input)
    <3>1. LET next == ResetInput(reset, c.input)
          IN  CompOK(next, max) /\ Open(next.segs)
      BY <1>1, <1>4, <1>6, ResetInputIs
    <3>2. pos <= Len(reset.input) /\ pos <= Len(c.input)
      BY <1>1, <1>3, <1>4
    <3>3. \A i \in 1..pos : reset.input[i] = c.input[i]
      BY <1>1, <1>3, <1>4
    <3>4. Follows(ResetInput(reset, c.input).segs, reset.segs, pos)
      BY <1>1, <1>4, <1>6, <3>2, <3>3, ResetInputFollows
    <3>. QED
      BY <2>2, <3>1, <3>4
  <2>. QED
    BY <2>1, <2>2 DEF ExtendPastCaret
<1>. HIDE DEF active
<1>8. CompOK(cut, max) /\ Open(cut.segs)
  BY <1>1, <1>7, CalculateSegmentationIs
<1>9. Follows(cut.segs, active.segs, pos)
  BY <1>1, <1>7, CalculateSegmentationFollows
<1>. HIDE DEF cut
<1>10. Follows(comp.segs, cut.segs, pos)
  BY <1>1, <1>8, TranslateSegmentsFollows
<1>. HIDE DEF comp
<1>11. /\ c.comp.segs \in Seq(Segment) /\ reset.segs \in Seq(Segment)
       /\ active.segs \in Seq(Segment) /\ cut.segs \in Seq(Segment)
  BY <1>1, <1>6, <1>7, <1>8, CompTypes DEF CompOK
<1>12. Follows(active.segs, c.comp.segs, pos)
  BY <1>5, <1>7, <1>11, FollowsOn
<1>13. Follows(cut.segs, c.comp.segs, pos)
  BY <1>9, <1>11, <1>12, FollowsOn
<1>14. Follows(comp.segs, c.comp.segs, pos)
  BY <1>10, <1>11, <1>13, FollowsOn
<1>. QED
  BY <1>2, <1>14 DEF d

-----------------------------------------------------------------------------
(* Selecting and reopening a segment *)

LEMMA ReopenIs ==
  ASSUME NEW max \in Nat, NEW input, NEW seg, SegmentOK(seg, input, max), NEW caret_pos
  PROVE  LET next == Reopen(seg, caret_pos)
         IN  /\ SegmentOK(next, input, max) /\ ~IsSelected(next) /\ next.start = seg.start
             /\ IsEmpty(next) => IsEmpty(seg)
<1> DEFINE next == Reopen(seg, caret_pos)
<1>1. /\ seg \in Segment /\ seg.start \in Nat /\ seg.end \in Nat /\ seg.tags \in SUBSET Tags
      /\ OriginalEnd(seg) \in Nat /\ seg.status \in 0..3 /\ seg.start <= seg.end
      /\ seg.end <= max /\ OriginalEnd(seg) <= max /\ Offers(seg) /\ RawOK(seg, input)
  BY SegmentType1 DEF SegmentOK
<1>2. CASE seg.status < kSelected
  <2>1. ~IsSelected(seg)
    BY <1>1, <1>2, Statuses DEF IsSelected
  <2>. QED
    BY <1>2, <2>1 DEF Reopen
<1>3. ASSUME NEW end \in Nat, NEW tags \in SUBSET Tags, NEW status \in {kVoid, kGuess},
             next = [seg EXCEPT !.end = end, !.tags = tags, !.status = status],
             seg.status >= kSelected,
             \/ end = seg.end
             \/ seg.end < OriginalEnd(seg) /\ end = OriginalEnd(seg) /\ "partial" \notin tags,
             status = kGuess => OriginalEnd(seg) <= end,
             "raw" \in tags <=> "raw" \in seg.tags, tags \subseteq seg.tags
      PROVE  /\ SegmentOK(next, input, max) /\ ~IsSelected(next) /\ next.start = seg.start
             /\ IsEmpty(next) => IsEmpty(seg)
  <2>1. IsSelected(seg) /\ seg.start < seg.end /\ seg.start < end /\ end <= max
    BY <1>1, <1>3 DEF IsSelected, Offers
  <2>2. status \in kVoid..kConfirmed /\ status < 2 /\ status \in 0..1
    BY <1>3, Statuses
  <2>. HIDE DEF next
  <2>3. /\ next \in Segment /\ next.end = end /\ next.tags = tags /\ next.status = status
        /\ next.start = seg.start /\ next.length = seg.length /\ next.menu = seg.menu
        /\ next.selected_index = seg.selected_index
    BY <1>1, <1>3, <2>2 DEF Segment
  <2>4. OriginalEnd(next) = OriginalEnd(seg)
    BY <2>3 DEF OriginalEnd
  <2>5. ~IsSelected(next)
    BY <2>2, <2>3, Statuses DEF IsSelected
  <2>6. ASSUME status = kGuess, NEW i \in DOMAIN seg.menu PROVE seg.menu[i] <= end
    <3>1. seg.menu[i] <= OriginalEnd(seg) /\ OriginalEnd(seg) <= end /\ seg.menu[i] \in Nat
      BY <1>1, <1>3, <2>6, SegmentType1, LenProperties, ElementOfSeq DEF Offers
    <3>. QED
      BY <1>1, <3>1
  <2>7. "raw" \notin seg.tags =>
          end <= OriginalEnd(seg) /\ ("partial" \in tags => end < OriginalEnd(seg))
    BY <1>1, <1>3 DEF Offers
  <2>8. Offers(next)
    BY <1>1, <1>3, <2>3, <2>4, <2>5, <2>6, <2>7 DEF Offers
  <2>9. RawOK(next, input)
    BY <1>1, <1>3, <2>1, <2>3 DEF RawOK
  <2>10. SegmentOK(next, input, max)
    BY <1>1, <2>1, <2>3, <2>4, <2>8, <2>9 DEF SegmentOK
  <2>11. ~IsEmpty(next)
    BY <1>1, <2>1, <2>3 DEF IsEmpty
  <2>. QED
    BY <2>3, <2>5, <2>10, <2>11
<1>4. CASE seg.status >= kSelected /\ OriginalEnd(seg) # caret_pos
  <2>1. ~(seg.status < kSelected)
    BY <1>1, <1>4, Statuses
  <2>2. next = [seg EXCEPT !.status = kVoid]
    BY <1>4, <2>1 DEF Reopen
  <2>3. next = [seg EXCEPT !.end = seg.end, !.tags = seg.tags, !.status = kVoid]
    BY <1>1, <2>2 DEF Segment
  <2>4. kVoid # kGuess
    BY Statuses
  <2>. QED
    BY <1>1, <1>3, <1>4, <2>3, <2>4
<1>5. CASE seg.status >= kSelected /\ OriginalEnd(seg) = caret_pos /\ seg.end < OriginalEnd(seg)
  <2> DEFINE tags == seg.tags \ {"partial"}
  <2>1. ~(seg.status < kSelected)
    BY <1>1, <1>5, Statuses
  <2>2. next = [seg EXCEPT !.end = OriginalEnd(seg), !.tags = tags, !.status = kGuess]
    BY <1>1, <1>5, <2>1 DEF Reopen, Segment
  <2>3. /\ tags \in SUBSET Tags /\ tags \subseteq seg.tags /\ ("raw" \in tags <=> "raw" \in seg.tags)
        /\ "partial" \notin tags
    BY <1>1
  <2>. HIDE DEF next, tags
  <2>4. OriginalEnd(seg) <= OriginalEnd(seg)
    BY <1>1
  <2>5. /\ SegmentOK(next, input, max) /\ ~IsSelected(next) /\ next.start = seg.start
        /\ IsEmpty(next) => IsEmpty(seg)
    BY <1>1, <1>3, <1>5, <2>2, <2>3, <2>4
  <2>. QED
    BY <2>5 DEF next
<1>6. CASE seg.status >= kSelected /\ OriginalEnd(seg) = caret_pos /\ ~(seg.end < OriginalEnd(seg))
  <2>1. ~(seg.status < kSelected)
    BY <1>1, <1>6, Statuses
  <2>2. next = [seg EXCEPT !.status = kGuess]
    BY <1>6, <2>1 DEF Reopen
  <2>3. next = [seg EXCEPT !.end = seg.end, !.tags = seg.tags, !.status = kGuess]
    BY <1>1, <2>2 DEF Segment
  <2>4. OriginalEnd(seg) <= seg.end
    BY <1>1, <1>6
  <2>. HIDE DEF next
  <2>5. /\ SegmentOK(next, input, max) /\ ~IsSelected(next) /\ next.start = seg.start
        /\ IsEmpty(next) => IsEmpty(seg)
    BY <1>1, <1>3, <1>6, <2>3, <2>4
  <2>. QED
    BY <2>5 DEF next
<1>7. seg.status < kSelected \/ seg.status >= kSelected
  BY <1>1, Statuses
<1>. QED
  BY <1>2, <1>4, <1>5, <1>6, <1>7

-----------------------------------------------------------------------------
(* What is committed *)

Faithful(pieces, from) ==
  LET used == UNION {(p[1] + 1)..p[2] : p \in ToSet(pieces)}
  IN  /\ \A i, j \in DOMAIN pieces : i < j => pieces[i][2] <= pieces[j][1]
      /\ \A pos \in 1..Len(from.input) \ used :
           \E seg \in ToSet(from.segs) :
             ~IsSelected(seg) /\ HasCandidate(seg) /\ pos \in (CandidateEnd(seg) + 1)..seg.end

OutFaithful(out) ==
  LET used == UNION {(p[1] + 1)..p[2] : p \in ToSet(out.pieces)}
  IN  /\ \A i, j \in DOMAIN out.pieces : i < j => out.pieces[i][2] <= out.pieces[j][1]
      /\ (1..out.length) \ used \subseteq out.unreached

OutOK(c) == c.out # NoCommit => OutFaithful(c.out)

\* What has to hold of a segment to be committed
Sayable(seg) ==
  /\ seg.start <= seg.end
  /\ HasCandidate(seg) => /\ CandidateEnd(seg) \in Nat
                          /\ seg.start < CandidateEnd(seg) /\ CandidateEnd(seg) <= seg.end
                          /\ IsSelected(seg) => CandidateEnd(seg) = seg.end

Spelled(comp) ==
  /\ comp \in Comps /\ Tiled(comp.segs)
  /\ \A i \in 1..Len(comp.segs) : Sayable(comp.segs[i])

\* A piece for each segment: up to the end of its candidate, or its own
Matches(pieces, segs) ==
  /\ pieces \in Seq(Nat \X Nat) /\ Len(pieces) = Len(segs)
  /\ \A i \in 1..Len(segs) :
       /\ pieces[i][1] <= segs[i].start /\ pieces[i][2] = PieceOf(segs[i])[2]
       /\ i > 1 => pieces[i - 1][2] <= pieces[i][1]

Tailed(all, pieces, end, len) ==
  /\ \A i \in 1..Len(pieces) : all[i] = pieces[i]
  /\ \/ len <= end /\ DOMAIN all = 1..Len(pieces)
     \/ /\ end < len /\ DOMAIN all = 1..(Len(pieces) + 1)
        /\ all[Len(pieces) + 1] = <<end, len>>

LEMMA WithTailIs ==
  ASSUME NEW pieces \in Seq(Nat \X Nat), NEW comp \in Comps
  PROVE  LET end == IF pieces = <<>> THEN 0 ELSE pieces[Len(pieces)][2]
         IN  end \in Nat /\ Tailed(WithTail(pieces, comp), pieces, end, Len(comp.input))
<1> DEFINE end == IF pieces = <<>> THEN 0 ELSE pieces[Len(pieces)][2]
           tail == <<end, Len(comp.input)>>
<1>1. Len(comp.input) \in Nat /\ Len(pieces) \in Nat
  BY CompTypes
<1>2. pieces # <<>> => Last(pieces) = pieces[Len(pieces)] /\ pieces[Len(pieces)] \in Nat \X Nat
  BY LastIs
<1>3. end \in Nat
  BY <1>2
<1>4. WithTail(pieces, comp) = IF Len(comp.input) > end THEN Append(pieces, tail) ELSE pieces
  BY <1>2 DEF WithTail
<1>5. tail \in Nat \X Nat
  BY <1>1, <1>3
<1>. HIDE DEF end
<1>6. CASE Len(comp.input) > end
  <2>. HIDE DEF tail
  <2>1. LET all == Append(pieces, tail)
        IN  /\ all \in Seq(Nat \X Nat) /\ Len(all) = Len(pieces) + 1
            /\ \A i \in 1..Len(pieces) : all[i] = pieces[i]
            /\ all[Len(pieces) + 1] = tail
    BY <1>5, AppendProperties
  <2> DEFINE all == Append(pieces, tail)
  <2>2. DOMAIN all = 1..(Len(pieces) + 1)
    BY <2>1, LenProperties
  <2>. HIDE DEF all
  <2>3. WithTail(pieces, comp) = all
    BY <1>4, <1>6 DEF all
  <2>4. end < Len(comp.input)
    BY <1>1, <1>3, <1>6
  <2>. QED
    BY <1>3, <2>1, <2>2, <2>3, <2>4 DEF Tailed, all, tail, end
<1>7. CASE ~(Len(comp.input) > end)
  <2>1. WithTail(pieces, comp) = pieces
    BY <1>4, <1>7
  <2>2. Len(comp.input) <= end
    BY <1>1, <1>3, <1>7
  <2>3. DOMAIN pieces = 1..Len(pieces)
    BY LenProperties
  <2>. QED
    BY <1>3, <2>1, <2>2, <2>3 DEF Tailed, end
<1>. QED
  BY <1>6, <1>7

LEMMA PieceEnds ==
  ASSUME NEW seg \in Segment, Sayable(seg)
  PROVE  /\ PieceOf(seg)[1] = seg.start
         /\ PieceOf(seg)[2] \in Nat /\ seg.start <= PieceOf(seg)[2] /\ PieceOf(seg)[2] <= seg.end
         /\ PieceOf(seg)[2] # seg.end =>
              ~IsSelected(seg) /\ HasCandidate(seg) /\ PieceOf(seg)[2] = CandidateEnd(seg)
<1>1. seg.start \in Nat /\ seg.end \in Nat
  BY SegmentType1
<1>. QED
  BY <1>1 DEF PieceOf, Sayable

LEMMA MatchesAreFaithful ==
  ASSUME NEW comp, Spelled(comp), NEW pieces, Matches(pieces, comp.segs)
  PROVE  Faithful(WithTail(pieces, comp), comp)
<1> DEFINE segs == comp.segs
           n == Len(segs)
           len == Len(comp.input)
           end == IF pieces = <<>> THEN 0 ELSE pieces[Len(pieces)][2]
           all == WithTail(pieces, comp)
<1>1. comp \in Comps /\ segs \in Seq(Segment) /\ n \in Nat /\ len \in Nat /\ Tiled(segs)
  BY CompTypes DEF Spelled
<1>2. pieces \in Seq(Nat \X Nat) /\ Len(pieces) = n
  BY DEF Matches
<1>3. end \in Nat /\ Tailed(all, pieces, end, len)
  BY <1>1, <1>2, WithTailIs
<1>4. end = IF n = 0 THEN 0 ELSE pieces[n][2]
  BY <1>1, <1>2, EmptySeq
<1>5. ASSUME NEW i \in 1..n
      PROVE  /\ segs[i] \in Segment /\ segs[i].start \in Nat /\ segs[i].end \in Nat
             /\ segs[i].start <= segs[i].end /\ segs[i].start = (IF i = 1 THEN 0 ELSE segs[i - 1].end)
             /\ pieces[i][1] \in Nat /\ pieces[i][2] \in Nat
             /\ pieces[i][1] <= segs[i].start /\ segs[i].start <= pieces[i][2]
             /\ pieces[i][2] <= segs[i].end
             /\ i > 1 => pieces[i - 1][2] <= pieces[i][1]
             /\ pieces[i][2] # segs[i].end =>
                  ~IsSelected(segs[i]) /\ HasCandidate(segs[i]) /\ pieces[i][2] = CandidateEnd(segs[i])
  <2>1. segs[i] \in Segment /\ Sayable(segs[i]) /\ pieces[i] \in Nat \X Nat
    BY <1>1, <1>2 DEF Spelled
  <2>2. segs[i].start = (IF i = 1 THEN 0 ELSE segs[i - 1].end)
    BY <1>1 DEF Tiled
  <2>. QED
    BY <2>1, <2>2, PieceEnds, SegmentType1 DEF Matches, Sayable
<1>6. \A j \in 1..n : \A i \in 1..(j - 1) : segs[i].end <= segs[j].start
  BY <1>1, <1>5, Ordered
<1>. HIDE DEF segs, n, len, end, all
<1>7. ASSUME NEW i \in 1..n, NEW j \in 1..n, i < j
      PROVE  pieces[i][2] <= pieces[j][1]
  <2>1. i \in Nat /\ j \in Nat /\ j > 1 /\ j - 1 \in 1..n
    BY <1>1, <1>7
  <2>2. CASE i = j - 1
    BY <1>5, <2>1, <2>2
  <2>3. CASE i < j - 1
    <3>1. i \in 1..((j - 1) - 1)
      BY <2>1, <2>3
    <3>2. segs[i].end <= segs[j - 1].start
      BY <1>6, <2>1, <3>1
    <3>3. pieces[i][2] <= segs[i].end /\ segs[j - 1].start <= pieces[j - 1][2]
          /\ pieces[j - 1][2] <= pieces[j][1]
      BY <1>5, <2>1
    <3>4. /\ pieces[i][2] \in Nat /\ segs[i].end \in Nat /\ segs[j - 1].start \in Nat
          /\ pieces[j - 1][2] \in Nat /\ pieces[j][1] \in Nat
      BY <1>5, <2>1
    <3>. QED
      BY <3>2, <3>3, <3>4
  <2>. QED
    BY <1>7, <2>1, <2>2, <2>3
<1>8. ASSUME NEW i \in 1..n PROVE pieces[i][2] <= end
  <2>1. n \in 1..n /\ end = pieces[n][2]
    BY <1>1, <1>4
  <2>2. CASE i = n
    BY <1>5, <2>1, <2>2
  <2>3. CASE i < n
    <3>1. pieces[i][2] <= pieces[n][1] /\ pieces[n][1] <= segs[n].start /\ segs[n].start <= pieces[n][2]
      BY <1>5, <1>7, <2>1, <2>3
    <3>2. pieces[i][2] \in Nat /\ pieces[n][1] \in Nat /\ segs[n].start \in Nat /\ pieces[n][2] \in Nat
      BY <1>5, <2>1
    <3>. QED
      BY <2>1, <3>1, <3>2
  <2>. QED
    BY <1>1, <2>2, <2>3
<1>9. ASSUME NEW i \in DOMAIN all, NEW j \in DOMAIN all, i < j
      PROVE  all[i][2] <= all[j][1]
  <2>1. DOMAIN all \subseteq 1..(n + 1) /\ \A k \in 1..n : all[k] = pieces[k]
    BY <1>1, <1>2, <1>3 DEF Tailed
  <2>2. i \in 1..n /\ all[i] = pieces[i]
    BY <1>1, <1>9, <2>1
  <2>3. CASE j \in 1..n
    BY <1>7, <1>9, <2>1, <2>2, <2>3
  <2>4. CASE j = n + 1
    <3>1. all[j] = <<end, len>>
      BY <1>1, <1>2, <1>3, <2>4 DEF Tailed
    <3>. QED
      BY <1>8, <2>2, <3>1
  <2>. QED
    BY <1>1, <2>1, <2>3, <2>4
<1> DEFINE used == UNION {(p[1] + 1)..p[2] : p \in ToSet(all)}
<1>10. ASSUME NEW pos \in (1..len) \ used
       PROVE  \E seg \in ToSet(segs) :
                ~IsSelected(seg) /\ HasCandidate(seg) /\ pos \in (CandidateEnd(seg) + 1)..seg.end
  <2>0. pos \in 1..len /\ pos \in Nat
    BY <1>1
  <2>1. ASSUME NEW i \in DOMAIN all PROVE ~(pos \in (all[i][1] + 1)..all[i][2])
    <3>1. all[i] \in ToSet(all)
      BY DEF ToSet
    <3>. QED
      BY <3>1
  <2>. HIDE DEF used
  <2>2. pos <= end
    <3>1. SUFFICES ASSUME end < pos PROVE FALSE
      BY <1>3, <2>0
    <3>2. end < len
      BY <1>1, <1>3, <2>0, <3>1
    <3>3. n + 1 \in DOMAIN all /\ all[n + 1] = <<end, len>>
      BY <1>1, <1>2, <1>3, <3>2 DEF Tailed
    <3>4. ~(pos \in (end + 1)..len)
      BY <2>1, <3>3
    <3>. QED
      BY <1>1, <1>3, <2>0, <3>1, <3>4
  <2> DEFINE S == {i \in 1..n : pos <= segs[i].end}
  <2>3. n \in S
    <3>1. n \in 1..n /\ end = pieces[n][2]
      BY <1>1, <1>4, <2>0, <2>2
    <3>2. pieces[n][2] <= segs[n].end /\ pieces[n][2] \in Nat /\ segs[n].end \in Nat
      BY <1>5, <3>1
    <3>. QED
      BY <2>0, <2>2, <3>1, <3>2
  <2>4. S \in SUBSET Nat
    BY <1>1
  <2>5. PICK i \in S : \A k \in S : i <= k
    BY <2>3, <2>4, LeastNumber
  <2>6. i \in 1..n /\ pos <= segs[i].end /\ i \in Nat
    BY <1>1, <2>5
  <2>7. segs[i].start < pos
    <3>1. CASE i = 1
      BY <1>5, <2>0, <2>6, <3>1
    <3>2. CASE i # 1
      <4>1. i - 1 \in 1..n /\ ~(i <= i - 1)
        BY <1>1, <2>6, <3>2
      <4>2. i - 1 \notin S
        BY <2>5, <4>1
      <4>3. ~(pos <= segs[i - 1].end) /\ segs[i - 1].end \in Nat /\ segs[i].start = segs[i - 1].end
        BY <1>5, <2>6, <3>2, <4>1, <4>2
      <4>. QED
        BY <2>0, <4>3
    <3>. QED
      BY <3>1, <3>2
  <2>. HIDE DEF S
  <2>8. i \in DOMAIN all /\ all[i] = pieces[i]
    BY <1>1, <1>2, <1>3, <2>6 DEF Tailed
  <2>9. /\ pieces[i][1] \in Nat /\ pieces[i][1] <= segs[i].start /\ segs[i].start \in Nat
        /\ pieces[i][2] \in Nat /\ segs[i].end \in Nat
    BY <1>5, <2>6
  <2>10. pieces[i][2] < pos
    BY <2>0, <2>1, <2>7, <2>8, <2>9
  <2>11. pieces[i][2] # segs[i].end
    BY <2>0, <2>6, <2>9, <2>10
  <2>12. ~IsSelected(segs[i]) /\ HasCandidate(segs[i]) /\ pieces[i][2] = CandidateEnd(segs[i])
    BY <1>5, <2>6, <2>11
  <2>13. pos \in (CandidateEnd(segs[i]) + 1)..segs[i].end
    BY <2>0, <2>6, <2>9, <2>10, <2>12
  <2>14. segs[i] \in ToSet(segs)
    BY <1>1, <2>6, LenProperties DEF ToSet, n
  <2>. QED
    BY <2>12, <2>13, <2>14
<1>. QED
  BY <1>9, <1>10 DEF Faithful, all, segs, len

LEMMA CommitPiecesAreFaithful ==
  ASSUME NEW comp, Spelled(comp)
  PROVE  Faithful(CommitPieces(comp), comp)
<1> DEFINE segs == comp.segs
           pieces == [i \in DOMAIN segs |-> PieceOf(segs[i])]
<1>1. /\ segs \in Seq(Segment) /\ Len(segs) \in Nat /\ DOMAIN segs = 1..Len(segs)
      /\ Tiled(segs) /\ \A i \in 1..Len(segs) : Sayable(segs[i])
  BY CompTypes, LenProperties DEF Spelled
<1>. HIDE DEF segs
<1>2. ASSUME NEW i \in 1..Len(segs)
      PROVE  /\ segs[i].start \in Nat /\ segs[i].end \in Nat
             /\ PieceOf(segs[i]) \in Nat \X Nat /\ PieceOf(segs[i])[1] = segs[i].start
             /\ PieceOf(segs[i])[2] <= segs[i].end
             /\ i > 1 => segs[i].start = segs[i - 1].end
  <2>1. segs[i] \in Segment /\ Sayable(segs[i])
    BY <1>1
  <2>2. segs[i].start \in Nat /\ segs[i].end \in Nat
    BY <2>1, SegmentType1
  <2>3. PieceOf(segs[i])[1] = segs[i].start /\ PieceOf(segs[i])[2] \in Nat /\ PieceOf(segs[i])[2] <= segs[i].end
    BY <2>1, PieceEnds
  <2>4. PieceOf(segs[i]) = <<PieceOf(segs[i])[1], PieceOf(segs[i])[2]>>
    BY DEF PieceOf
  <2>5. ASSUME i > 1 PROVE segs[i].start = segs[i - 1].end
    <3>1. i # 1
      BY <2>5
    <3>. QED
      BY <1>1, <3>1 DEF Tiled
  <2>. QED
    BY <2>2, <2>3, <2>4, <2>5
<1>3. pieces \in Seq(Nat \X Nat) /\ Len(pieces) = Len(segs)
  BY <1>1, <1>2
<1>4. \A i \in 1..Len(segs) : pieces[i] = PieceOf(segs[i])
  BY <1>1
<1>. HIDE DEF pieces
<1>5. ASSUME NEW i \in 1..Len(segs)
      PROVE  /\ pieces[i][1] <= segs[i].start /\ pieces[i][2] = PieceOf(segs[i])[2]
             /\ i > 1 => pieces[i - 1][2] <= pieces[i][1]
  <2>1. pieces[i] = PieceOf(segs[i]) /\ pieces[i][1] <= segs[i].start
    BY <1>2, <1>4
  <2>2. ASSUME i > 1 PROVE pieces[i - 1][2] <= pieces[i][1]
    <3>1. i - 1 \in 1..Len(segs)
      BY <1>1, <2>2
    <3>2. pieces[i - 1] = PieceOf(segs[i - 1]) /\ PieceOf(segs[i - 1])[2] <= segs[i - 1].end
      BY <1>2, <1>4, <3>1
    <3>. QED
      BY <1>2, <2>1, <2>2, <3>2
  <2>. QED
    BY <2>1, <2>2
<1>6. Matches(pieces, comp.segs)
  BY <1>3, <1>5 DEF Matches, segs
<1>7. Faithful(WithTail(pieces, comp), comp)
  BY <1>6, MatchesAreFaithful
<1>. QED
  BY <1>7 DEF CommitPieces, pieces, segs

LEMMA ScriptPiecesAreFaithful ==
  ASSUME NEW comp, Spelled(comp)
  PROVE  Faithful(ScriptPieces(comp), comp)
<1> DEFINE segs == comp.segs
           start(i) == IF i = 1 \/ HasCandidate(comp.segs[i]) THEN comp.segs[i].start
                       ELSE PieceOf(comp.segs[i - 1])[2]
           pieces == [i \in DOMAIN comp.segs |-> <<start(i), PieceOf(comp.segs[i])[2]>>]
<1>1. /\ segs \in Seq(Segment) /\ Len(segs) \in Nat /\ DOMAIN segs = 1..Len(segs)
      /\ Tiled(segs) /\ \A i \in 1..Len(segs) : Sayable(segs[i])
  BY CompTypes, LenProperties DEF Spelled
<1>2. ASSUME NEW i \in 1..Len(segs)
      PROVE  /\ segs[i].start \in Nat /\ PieceOf(segs[i])[2] \in Nat
             /\ i > 1 => PieceOf(segs[i - 1])[2] \in Nat /\ PieceOf(segs[i - 1])[2] <= segs[i].start
  <2>1. segs[i] \in Segment /\ Sayable(segs[i])
    BY <1>1
  <2>2. ASSUME i > 1
        PROVE  PieceOf(segs[i - 1])[2] \in Nat /\ PieceOf(segs[i - 1])[2] <= segs[i].start
    <3>1. i - 1 \in 1..Len(segs) /\ i # 1
      BY <1>1, <2>2
    <3>2. segs[i - 1] \in Segment /\ Sayable(segs[i - 1]) /\ segs[i].start = segs[i - 1].end
      BY <1>1, <3>1 DEF Tiled
    <3>. QED
      BY <3>2, PieceEnds
  <2>. QED
    BY <2>1, <2>2, SegmentType1, PieceEnds
<1>3. ASSUME NEW i \in 1..Len(segs)
      PROVE  /\ start(i) \in Nat /\ start(i) <= segs[i].start
             /\ i > 1 => PieceOf(segs[i - 1])[2] <= start(i)
  <2>1. CASE i = 1 \/ HasCandidate(comp.segs[i])
    BY <1>2, <2>1
  <2>2. CASE ~(i = 1 \/ HasCandidate(comp.segs[i]))
    <3>1. i > 1
      BY <1>1, <2>2
    <3>. QED
      BY <1>2, <2>2, <3>1
  <2>. QED
    BY <2>1, <2>2
<1>4. \A i \in 1..Len(segs) : pieces[i][1] = start(i) /\ pieces[i][2] = PieceOf(segs[i])[2]
  BY <1>1
<1>5. pieces \in Seq(Nat \X Nat) /\ Len(pieces) = Len(segs)
  <2>1. \A i \in 1..Len(segs) : <<start(i), PieceOf(comp.segs[i])[2]>> \in Nat \X Nat
    BY <1>2, <1>3
  <2>. HIDE DEF start
  <2>. QED
    BY <1>1, <2>1
<1>. HIDE DEF pieces, start
<1>6. ASSUME NEW i \in 1..Len(segs)
      PROVE  /\ pieces[i][1] <= segs[i].start /\ pieces[i][2] = PieceOf(segs[i])[2]
             /\ i > 1 => pieces[i - 1][2] <= pieces[i][1]
  <2>1. i > 1 => i - 1 \in 1..Len(segs)
    BY <1>1
  <2>. QED
    BY <1>3, <1>4, <2>1
<1>7. Matches(pieces, comp.segs)
  BY <1>5, <1>6 DEF Matches
<1>8. Faithful(WithTail(pieces, comp), comp)
  BY <1>7, MatchesAreFaithful
<1>. QED
  BY <1>8 DEF ScriptPieces, pieces, start

LEMMA SpelledIs ==
  ASSUME NEW max \in Nat, NEW comp, CompOK(comp, max), Offered(comp.segs)
  PROVE  Spelled(comp)
<1>1. /\ comp \in Comps /\ Tiled(comp.segs)
      /\ \A i \in 1..Len(comp.segs) : SegmentOK(comp.segs[i], comp.input, max)
  BY DEF CompOK, Shaped
<1>2. ASSUME NEW i \in 1..Len(comp.segs) PROVE Sayable(comp.segs[i])
  <2> DEFINE seg == comp.segs[i]
             k == seg.selected_index + 1
  <2>1. /\ SegmentOK(seg, comp.input, max) /\ seg \in Segment /\ seg.status \in 0..3
        /\ seg.start \in Nat /\ seg.end \in Nat /\ seg.start <= seg.end
        /\ seg.menu \in Seq(Nat) /\ seg.selected_index \in Nat
    BY <1>1, SegmentType1 DEF SegmentOK
  <2>2. seg.status = kVoid => seg.menu = <<>>
    BY DEF Offered
  <2>. HIDE DEF seg
  <2>3. ASSUME HasCandidate(seg)
        PROVE  /\ CandidateEnd(seg) \in Nat /\ seg.start < CandidateEnd(seg)
               /\ CandidateEnd(seg) <= seg.end
               /\ IsSelected(seg) => CandidateEnd(seg) = seg.end
    <3>1. k \in 1..Len(seg.menu) /\ DOMAIN seg.menu = 1..Len(seg.menu)
      <4>1. Len(seg.menu) \in Nat /\ DOMAIN seg.menu = 1..Len(seg.menu)
        BY <2>1, LenProperties
      <4>2. seg.selected_index < Len(seg.menu)
        BY <2>3 DEF HasCandidate
      <4>. QED
        BY <2>1, <4>1, <4>2
    <3>2. CandidateEnd(seg) = seg.menu[k] /\ seg.menu[k] \in Nat
      <4>1. CandidateEnd(seg) = seg.menu[k]
        BY DEF CandidateEnd
      <4>. HIDE DEF k
      <4>2. seg.menu[k] \in Nat
        BY <2>1, <3>1, ElementOfSeq
      <4>. QED
        BY <4>1, <4>2
    <3>3. seg.menu # <<>>
      BY <3>1, EmptySeq
    <3>. HIDE DEF k
    <3>4. seg.start < seg.menu[k] /\ (seg.status = kGuess => seg.menu[k] <= seg.end)
      BY <2>1, <3>1 DEF SegmentOK, Offers
    <3>5. IsSelected(seg) => CandidateEnd(seg) = seg.end
      BY <2>1, <2>3 DEF SegmentOK, Offers
    <3>6. seg.status = kGuess \/ IsSelected(seg)
      BY <2>1, <2>2, <3>3, Statuses DEF IsSelected
    <3>. QED
      BY <2>1, <3>2, <3>4, <3>5, <3>6
  <2>4. Sayable(seg)
    BY <2>1, <2>3 DEF Sayable
  <2>. QED
    BY <2>4 DEF seg
<1>. QED
  BY <1>1, <1>2 DEF Spelled

\* What every key starts from and ends in
Good(c) == Settled(c) /\ OutOK(c)

LEMMA GoodFacts ==
  ASSUME NEW c, Good(c)
  PROVE  /\ CtxType(c) /\ CompOK(c.comp, Bound(c)) /\ Open(c.comp.segs) /\ Offered(c.comp.segs)
         /\ Composable(c) /\ OutOK(c) /\ Lined(c)
         /\ Bound(c) \in Nat /\ c.schema \in Schemas
         /\ c.input \in Seq(Chars) /\ Len(c.input) \in Nat /\ Len(c.input) <= Bound(c)
         /\ c.caret_pos \in Nat /\ c.caret_pos <= Len(c.input)
         /\ c.comp \in Comps /\ c.comp.segs \in Seq(Segment) /\ Len(c.comp.segs) \in Nat
         /\ c.comp.segs # <<>> =>
              /\ Len(c.comp.segs) \in Nat \ {0}
              /\ Last(c.comp.segs) = c.comp.segs[Len(c.comp.segs)]
              /\ Last(c.comp.segs) \in Segment /\ ~IsSelected(Last(c.comp.segs))
              /\ SegmentOK(Last(c.comp.segs), c.comp.input, Bound(c))
              /\ Last(c.comp.segs).status = kVoid =>
                   Last(c.comp.segs).menu = <<>> /\ IsEmpty(Last(c.comp.segs))
<1>1. /\ CtxType(c) /\ CompOK(c.comp, Bound(c)) /\ Open(c.comp.segs) /\ Offered(c.comp.segs)
      /\ OutOK(c) /\ Lined(c)
  BY DEF Good, Settled
<1>2. /\ Bound(c) \in Nat /\ c.schema \in Schemas /\ c.input \in Seq(Chars) /\ Len(c.input) \in Nat
      /\ Len(c.input) <= Bound(c) /\ c.caret_pos \in Nat /\ c.caret_pos <= Len(c.input)
      /\ c.comp \in Comps /\ c.comp.segs \in Seq(Segment) /\ Len(c.comp.segs) \in Nat
  BY <1>1, CtxFacts, CompTypes DEF CtxType
<1>3. Composable(c)
  BY SettledIsComposable DEF Good
<1>4. c.comp.segs # <<>> =>
              /\ Len(c.comp.segs) \in Nat \ {0}
              /\ Last(c.comp.segs) = c.comp.segs[Len(c.comp.segs)]
              /\ Last(c.comp.segs) \in Segment
              /\ SegmentOK(Last(c.comp.segs), c.comp.input, Bound(c))
  BY <1>1, <1>2, CompFacts
<1>5. c.comp.segs # <<>> => Len(c.comp.segs) \in 1..Len(c.comp.segs)
  BY <1>4
<1>. QED
  BY <1>1, <1>2, <1>3, <1>4, <1>5 DEF Open, Offered

LEMMA ClearsWithOut ==
  ASSUME NEW c, CtxType(c), NEW pieces, Faithful(pieces, c.comp)
  PROVE  LET d == Clear([c EXCEPT !.out = Said(c.comp, pieces)])
         IN  Good(d) /\ d.schema = c.schema /\ d.input = <<>> /\ d.caret_pos = 0
<1> DEFINE out == Said(c.comp, pieces)
           said == [c EXCEPT !.out = out]
           d == Clear(said)
<1>1. /\ said \in [schema : Schemas, input : Seq(Chars), caret_pos : Nat, comp : Comps, out : {said.out}]
      /\ said.schema = c.schema /\ said.input = c.input /\ said.caret_pos = c.caret_pos
      /\ said.comp = c.comp /\ said.out = out
  BY DEF CtxType
<1>2. OutFaithful(out)
  <2>1. /\ out.pieces = pieces /\ out.length = Len(c.comp.input)
        /\ out.unreached = Unreached(c.comp)
    BY DEF Said
  <2>. HIDE DEF out
  <2>. QED
    BY <2>1 DEF OutFaithful, Faithful, Unreached
<1>. HIDE DEF said, out
<1>3. CtxType(said)
  BY <1>1 DEF CtxType, Bound
<1>4. /\ Settled(d) /\ d.schema = said.schema /\ d.out = said.out
      /\ d.input = <<>> /\ d.caret_pos = 0
  BY <1>3, ClearIs
<1>. HIDE DEF d
<1>5. OutOK(d)
  BY <1>1, <1>2, <1>4 DEF OutOK
<1>. QED
  BY <1>1, <1>4, <1>5 DEF Good, d, said, out

\* The code that was committed is gone.
Emptied(d) == d.input = <<>> /\ d.caret_pos = 0

LEMMA CommitsSpelled ==
  ASSUME NEW c, CtxType(c), Spelled(c.comp), IsComposing(c)
  PROVE  LET d == Commit(c) IN Good(d) /\ d.schema = c.schema /\ Emptied(d)
BY CommitPiecesAreFaithful, ClearsWithOut DEF Commit, Emptied

LEMMA GoodSpells ==
  ASSUME NEW c, Good(c)
  PROVE  CtxType(c) /\ Spelled(c.comp)
<1>1. CtxType(c) /\ CompOK(c.comp, Bound(c)) /\ Offered(c.comp.segs)
  BY DEF Good, Settled
<1>2. Bound(c) \in Nat
  BY <1>1, CtxFacts
<1>. QED
  BY <1>1, <1>2, SpelledIs

LEMMA CommitIs ==
  ASSUME NEW c, Good(c)
  PROVE  LET d == Commit(c) IN Good(d) /\ d.schema = c.schema /\ Emptied(d)
<1>1. CASE IsComposing(c)
  BY <1>1, GoodSpells, CommitsSpelled
<1>2. CASE ~IsComposing(c)
  <2>1. Commit(c) = c /\ c.input = <<>>
    BY <1>2 DEF Commit, IsComposing
  <2>2. c.caret_pos \in Nat /\ c.caret_pos <= Len(c.input) /\ Len(c.input) = 0
    BY <2>1, EmptySeq DEF Good, Settled, CtxType
  <2>3. c.caret_pos = 0
    BY <2>2
  <2>. QED
    BY <2>1, <2>3 DEF Emptied
<1>. QED
  BY <1>1, <1>2

LEMMA CommitScriptTextIs ==
  ASSUME NEW c, Good(c)
  PROVE  LET d == CommitScriptText(c) IN Good(d) /\ d.schema = c.schema /\ Emptied(d)
BY GoodSpells, ScriptPiecesAreFaithful, ClearsWithOut DEF CommitScriptText, Emptied

LEMMA ClearsGood ==
  ASSUME NEW c, Good(c)
  PROVE  LET d == Clear(c) IN Good(d) /\ d.schema = c.schema /\ Emptied(d)
BY ClearIs DEF Good, Settled, OutOK, Emptied

-----------------------------------------------------------------------------
(* A selection is kept when its segment is still there, as it was chosen.   *)

Keeping(d, c, pos) ==
  \A k \in 1..Len(c.comp.segs) :
    IsSelected(c.comp.segs[k]) /\ "raw" \notin c.comp.segs[k].tags /\ c.comp.segs[k].end <= pos =>
      /\ k \in 1..Len(d.comp.segs)
      /\ IsSelected(d.comp.segs[k]) /\ "raw" \notin d.comp.segs[k].tags
      /\ Choice(d.comp.segs[k]) = Choice(c.comp.segs[k])

LEMMA KeepingItself ==
  ASSUME NEW c, NEW pos
  PROVE  Keeping(c, c, pos)
BY DEF Keeping

LEMMA KeepingOn ==
  ASSUME NEW c, NEW d, NEW e, NEW pos, Keeping(d, c, pos), Keeping(e, d, pos)
  PROVE  Keeping(e, c, pos)
<1>1. SUFFICES ASSUME NEW k \in 1..Len(c.comp.segs), IsSelected(c.comp.segs[k]),
                      "raw" \notin c.comp.segs[k].tags, c.comp.segs[k].end <= pos
               PROVE  /\ k \in 1..Len(e.comp.segs)
                      /\ IsSelected(e.comp.segs[k]) /\ "raw" \notin e.comp.segs[k].tags
                      /\ Choice(e.comp.segs[k]) = Choice(c.comp.segs[k])
  BY DEF Keeping
<1>2. /\ k \in 1..Len(d.comp.segs) /\ IsSelected(d.comp.segs[k]) /\ "raw" \notin d.comp.segs[k].tags
      /\ Choice(d.comp.segs[k]) = Choice(c.comp.segs[k])
  BY <1>1 DEF Keeping
<1>3. d.comp.segs[k].end = c.comp.segs[k].end
  BY <1>2 DEF Choice
<1>. QED
  BY <1>1, <1>2, <1>3 DEF Keeping

LEMMA KeepingLess ==
  ASSUME NEW c, Good(c), NEW d, NEW pos \in Nat, NEW less \in Nat, less <= pos, Keeping(d, c, pos)
  PROVE  Keeping(d, c, less)
<1>1. \A k \in 1..Len(c.comp.segs) : c.comp.segs[k].end \in Nat
  BY GoodFacts, SegmentType1
<1>2. \A k \in 1..Len(c.comp.segs) : c.comp.segs[k].end <= less => c.comp.segs[k].end <= pos
  BY <1>1
<1>. QED
  BY <1>2 DEF Keeping

\* In a good context a selected segment is not the last one, and nothing
\* before it is void.
LEMMA GoodFixes ==
  ASSUME NEW c, Good(c), NEW k \in 1..Len(c.comp.segs), IsSelected(c.comp.segs[k]),
         "raw" \notin c.comp.segs[k].tags
  PROVE  k < Len(c.comp.segs) /\ Fixed(c.comp.segs, k)
<1>1. /\ Len(c.comp.segs) \in Nat /\ c.comp.segs \in Seq(Segment) /\ CompOK(c.comp, Bound(c))
      /\ Offered(c.comp.segs)
  BY GoodFacts
<1>2. k # Len(c.comp.segs)
  <2>1. c.comp.segs # <<>>
    BY <1>1, EmptySeq
  <2>. QED
    BY <2>1, GoodFacts
<1>3. ASSUME NEW j \in 1..k PROVE c.comp.segs[j].status # kVoid
  <2>1. j \in 1..Len(c.comp.segs) /\ j # Len(c.comp.segs)
    BY <1>1, <1>2
  <2>2. ~IsEmpty(c.comp.segs[j])
    BY <1>1, <2>1 DEF CompOK, Shaped, Tiled
  <2>. QED
    BY <1>1, <2>1, <2>2 DEF Offered
<1>. QED
  BY <1>1, <1>2, <1>3 DEF Fixed

\* d has the segments of c but for the last one.
Continues(d, c) ==
  /\ Len(c.comp.segs) <= Len(d.comp.segs)
  /\ \A k \in 1..Len(c.comp.segs) : k # Len(c.comp.segs) => d.comp.segs[k] = c.comp.segs[k]

LEMMA ContinuesKeeping ==
  ASSUME NEW c, Good(c), NEW d, d.comp.segs \in Seq(Segment), Continues(d, c), NEW pos
  PROVE  Keeping(d, c, pos)
<1>1. Len(c.comp.segs) \in Nat /\ Len(d.comp.segs) \in Nat
  BY GoodFacts
<1>2. ASSUME NEW k \in 1..Len(c.comp.segs), IsSelected(c.comp.segs[k]), "raw" \notin c.comp.segs[k].tags
      PROVE  k \in 1..Len(d.comp.segs) /\ d.comp.segs[k] = c.comp.segs[k]
  <2>1. k < Len(c.comp.segs)
    BY <1>2, GoodFixes
  <2>. QED
    BY <1>1, <2>1 DEF Continues
<1>. QED
  BY <1>2 DEF Keeping

\* The line up to pos is the one that the composition was made from.
LEMMA ComposeKeeps ==
  ASSUME NEW c, Good(c), NEW d, Composable(d), Continues(d, c), d.comp.input = c.comp.input,
         NEW pos \in Nat, pos <= d.caret_pos, \A i \in 1..pos : d.input[i] = c.input[i]
  PROVE  Keeping(Compose(d), c, pos)
<1> DEFINE e == Compose(d)
<1>1. /\ Len(c.comp.segs) \in Nat /\ c.comp.segs \in Seq(Segment) /\ CompOK(c.comp, Bound(c))
      /\ Lined(c) /\ Len(c.comp.input) \in Nat /\ Len(c.input) \in Nat
  BY GoodFacts, CompTypes
<1>2. d.comp.segs \in Seq(Segment) /\ Len(d.comp.segs) \in Nat /\ d.caret_pos \in Nat
  BY CtxFacts, CompTypes DEF Composable
<1>. HIDE DEF e
<1>3. SUFFICES ASSUME NEW k \in 1..Len(c.comp.segs), IsSelected(c.comp.segs[k]),
                      "raw" \notin c.comp.segs[k].tags, c.comp.segs[k].end <= pos
               PROVE  k \in 1..Len(e.comp.segs) /\ e.comp.segs[k] = c.comp.segs[k]
  BY DEF Keeping, e
<1> DEFINE end == c.comp.segs[k].end
<1>4. k < Len(c.comp.segs) /\ Fixed(c.comp.segs, k)
  BY <1>3, GoodFixes
<1>5. /\ k \in 1..Len(d.comp.segs)
      /\ \A j \in 1..k : d.comp.segs[j] = c.comp.segs[j]
  BY <1>1, <1>2, <1>4 DEF Continues
<1>6. k \in 1..k
  BY <1>1
<1>7. Fixed(d.comp.segs, k) /\ d.comp.segs[k].end = end
  BY <1>4, <1>5, <1>6 DEF Fixed
<1>8. end \in Nat /\ end <= Len(c.comp.input) /\ end <= pos
  BY <1>1, <1>3, SegmentType1 DEF CompOK, Within
<1>. HIDE DEF end
<1>9. /\ end <= d.caret_pos
      /\ \A i \in 1..end : i \in 1..pos /\ i \in 1..Len(c.comp.input)
  BY <1>1, <1>2, <1>8
<1>10. \A i \in 1..end : d.comp.input[i] = d.input[i]
  BY <1>1, <1>9 DEF Lined
<1>11. Follows(e.comp.segs, d.comp.segs, end)
  BY <1>8, <1>9, <1>10, ComposeFollows DEF e
<1>12. end <= end
  BY <1>8
<1>13. Stay(e.comp.segs, d.comp.segs, k)
  BY <1>5, <1>7, <1>11, <1>12 DEF Follows
<1>14. e.comp.segs \in Seq(Segment) /\ Len(e.comp.segs) \in Nat
  BY ComposeIs, CompTypes, CtxFacts DEF Settled, e
<1>. QED
  BY <1>5, <1>6, <1>13, <1>14 DEF Stay

-----------------------------------------------------------------------------
(* Selecting a candidate *)

\* The segment with a choice made, and the segment that Close makes of it
Chosen(next, seg, index) ==
  /\ next \in Segment /\ next.status = kSelected /\ next.selected_index = index
  /\ next.start = seg.start /\ next.end = seg.end /\ next.length = seg.length
  /\ next.tags = seg.tags /\ next.menu = seg.menu

Closed(next, seg) ==
  /\ next \in Segment /\ IsSelected(next) /\ next.selected_index = seg.selected_index
  /\ next.start = seg.start /\ next.length = seg.length /\ next.menu = seg.menu
  /\ next.end = IF HasCandidate(seg) /\ CandidateEnd(seg) < seg.end THEN CandidateEnd(seg) ELSE seg.end
  /\ \A tag \in {"raw", "abc", "punct"} : tag \in next.tags <=> tag \in seg.tags
  /\ "partial" \in next.tags => "partial" \in seg.tags \/ next.end < seg.end

LEMMA CloseIs ==
  ASSUME NEW seg \in Segment, IsSelected(seg), HasCandidate(seg) => CandidateEnd(seg) \in Nat
  PROVE  Closed(Close(seg), seg) /\ Closed([Close(seg) EXCEPT !.status = kConfirmed], seg)
<1> DEFINE end == CandidateEnd(seg)
           tags == seg.tags \cup {"partial"}
           next == Close(seg)
           confirmed == [next EXCEPT !.status = kConfirmed]
<1>1. /\ seg.status \in kVoid..kConfirmed /\ seg.tags \in SUBSET Tags /\ kConfirmed \in kVoid..kConfirmed
      /\ tags \in SUBSET Tags /\ seg.end \in Nat
  BY Statuses, SegmentType1 DEF Segment, Tags
<1>2. Closed(next, seg)
  <2>1. CASE HasCandidate(seg) /\ CandidateEnd(seg) < seg.end
    <3>1. next = [seg EXCEPT !.end = end, !.tags = tags]
      BY <2>1 DEF Close
    <3>2. \A tag \in {"raw", "abc", "punct"} : tag \in tags <=> tag \in seg.tags
      OBVIOUS
    <3>3. end \in Nat
      BY <2>1
    <3>. HIDE DEF tags, end, next
    <3>4. /\ next \in Segment /\ next.status = seg.status /\ next.selected_index = seg.selected_index
          /\ next.start = seg.start /\ next.length = seg.length /\ next.menu = seg.menu
          /\ next.end = end /\ next.tags = tags
      BY <1>1, <3>1, <3>3 DEF Segment
    <3>. QED
      BY <2>1, <3>2, <3>4 DEF Closed, IsSelected, end
  <2>2. CASE ~(HasCandidate(seg) /\ CandidateEnd(seg) < seg.end)
    BY <2>2 DEF Close, Closed
  <2>. QED
    BY <2>1, <2>2
<1>. HIDE DEF next, end, tags
<1>3. /\ confirmed \in Segment /\ confirmed.status = kConfirmed /\ confirmed.start = next.start
      /\ confirmed.end = next.end /\ confirmed.length = next.length /\ confirmed.tags = next.tags
      /\ confirmed.menu = next.menu /\ confirmed.selected_index = next.selected_index
  BY <1>1, <1>2 DEF Closed, Segment
<1>4. IsSelected(confirmed)
  BY <1>3, Statuses DEF IsSelected
<1>. HIDE DEF confirmed
<1>5. Closed(confirmed, seg)
  BY <1>2, <1>3, <1>4 DEF Closed
<1>. QED
  BY <1>2, <1>5 DEF next, confirmed

LEMMA ClosedIsOK ==
  ASSUME NEW max \in Nat, NEW input, NEW seg, SegmentOK(seg, input, max), ~IsSelected(seg),
         seg.status = kVoid => seg.menu = <<>>,
         NEW index \in Nat, index < Len(seg.menu) \/ ~IsEmpty(seg),
         NEW chosen, Chosen(chosen, seg, index), NEW next, Closed(next, chosen)
  PROVE  /\ SegmentOK(next, input, max) /\ IsSelected(next)
         /\ next.start = seg.start /\ ~IsEmpty(next) /\ next.end <= seg.end
<1> DEFINE k == index + 1
<1>1. /\ seg \in Segment /\ seg.start \in Nat /\ seg.end \in Nat /\ seg.start <= seg.end
      /\ seg.end <= max /\ seg.menu \in Seq(Nat) /\ OriginalEnd(seg) \in Nat
      /\ OriginalEnd(seg) <= max /\ Offers(seg) /\ RawOK(seg, input)
  BY SegmentType1 DEF SegmentOK
<1>2. /\ next \in Segment /\ IsSelected(next) /\ next.selected_index = index
      /\ next.start = seg.start /\ next.length = seg.length /\ next.menu = seg.menu
      /\ HasCandidate(chosen) <=> index < Len(seg.menu)
      /\ CandidateEnd(chosen) = seg.menu[k]
      /\ \A tag \in {"raw", "abc", "punct"} : tag \in next.tags <=> tag \in seg.tags
      /\ next.end = IF index < Len(seg.menu) /\ seg.menu[k] < seg.end THEN seg.menu[k] ELSE seg.end
  BY DEF Closed, Chosen, HasCandidate, CandidateEnd
<1>3. (HasCandidate(next) <=> index < Len(seg.menu)) /\ CandidateEnd(next) = seg.menu[k]
      /\ OriginalEnd(next) = OriginalEnd(seg)
  BY <1>2 DEF HasCandidate, CandidateEnd, OriginalEnd
<1>4. ASSUME index < Len(seg.menu)
      PROVE  seg.menu[k] \in Nat /\ seg.start < seg.menu[k] /\ seg.menu[k] <= seg.end
  <2>1. k \in 1..Len(seg.menu) /\ DOMAIN seg.menu = 1..Len(seg.menu)
    BY <1>1, <1>4, LenProperties
  <2>2. seg.menu # <<>>
    BY <2>1, EmptySeq
  <2>3. seg.status = kGuess
    <3>1. seg.status \in 0..3
      BY <1>1, SegmentType1
    <3>. QED
      BY <2>2, <3>1, Statuses DEF IsSelected
  <2>. HIDE DEF k
  <2>. QED
    BY <1>1, <2>1, <2>3 DEF Offers
<1>. HIDE DEF k
<1>5. /\ next.end \in Nat /\ next.start < next.end /\ next.end <= seg.end
      /\ index < Len(seg.menu) => seg.menu[k] = next.end
  <2>1. CASE index < Len(seg.menu)
    BY <1>1, <1>2, <1>4, <2>1
  <2>2. CASE ~(index < Len(seg.menu))
    <3>1. seg.start # seg.end
      BY <2>2 DEF IsEmpty
    <3>. QED
      BY <1>1, <1>2, <2>2, <3>1
  <2>. QED
    BY <2>1, <2>2
<1>6. RawOK(next, input)
  BY <1>1, <1>2, <1>5 DEF RawOK
<1>7. \A i \in DOMAIN next.menu : next.start < next.menu[i] /\ next.menu[i] <= OriginalEnd(next)
  BY <1>1, <1>2, <1>3 DEF Offers
<1>8. next.status # kGuess
  BY <1>2, SegmentType1, Statuses DEF IsSelected
<1>9. "raw" \notin next.tags =>
        next.end <= OriginalEnd(next) /\ ("partial" \in next.tags => next.end < OriginalEnd(next))
  <2> SUFFICES ASSUME "raw" \notin next.tags
               PROVE  /\ next.end <= OriginalEnd(next)
                      /\ "partial" \in next.tags => next.end < OriginalEnd(next)
    OBVIOUS
  <2>1. /\ "raw" \notin seg.tags /\ seg.end <= OriginalEnd(seg)
        /\ "partial" \in seg.tags => seg.end < OriginalEnd(seg)
    BY <1>1, <1>2 DEF Offers
  <2>2. "partial" \in next.tags => "partial" \in seg.tags \/ next.end < seg.end
    BY DEF Closed, Chosen
  <2>. QED
    BY <1>1, <1>3, <1>5, <2>1, <2>2
<1>10. Offers(next)
  BY <1>2, <1>3, <1>5, <1>7, <1>8, <1>9 DEF Offers
<1>11. next.end <= max /\ next.start <= next.end
  BY <1>1, <1>2, <1>5
<1>12. SegmentOK(next, input, max)
  BY <1>1, <1>2, <1>3, <1>6, <1>10, <1>11 DEF SegmentOK
<1>13. ~IsEmpty(next)
  BY <1>1, <1>2, <1>5 DEF IsEmpty
<1>. QED
  BY <1>2, <1>5, <1>12, <1>13

\* A composition whose last segment is another one
LEMMA SwapIs ==
  ASSUME NEW max \in Nat, NEW comp, CompOK(comp, max), comp.segs # <<>>, Offered(comp.segs),
         NEW seg, SegmentOK(seg, comp.input, max), seg.start = Last(comp.segs).start,
         IsEmpty(seg) => IsEmpty(Last(comp.segs)), seg.end <= Len(comp.input),
         seg.status = kVoid => seg.menu = <<>> /\ IsEmpty(seg),
         NEW segs, Swapped(segs, comp.segs, seg), NEW next, Recut(next, comp, segs)
  PROVE  /\ CompOK(next, max) /\ Offered(next.segs)
         /\ next.segs # <<>> /\ Last(next.segs) = seg
<1>1. /\ comp \in Comps /\ Shaped(comp.segs, comp.input, max) /\ comp.segs \in Seq(Segment)
      /\ Within(comp.segs, Len(comp.input)) /\ Len(comp.segs) \in Nat /\ seg \in Segment
  BY CompTypes DEF CompOK, SegmentOK
<1>2. next \in Comps /\ next.segs = segs /\ next.input = comp.input
  BY DEF Recut
<1>3. /\ Shaped(segs, comp.input, max) /\ segs # <<>> /\ Last(segs) = seg
      /\ Len(segs) = Len(comp.segs) /\ \A i \in 1..(Len(comp.segs) - 1) : segs[i] = comp.segs[i]
  BY <1>1, Replaced
<1>4. Within(segs, Len(comp.input))
  BY <1>1 DEF Within, Swapped
<1>5. Offered(segs)
  BY <1>1 DEF Offered, Swapped
<1>. QED
  BY <1>2, <1>3, <1>4, <1>5 DEF CompOK

LEMMA ForwardOffers ==
  ASSUME NEW max \in Nat, NEW comp, CompOK(comp, max), Offered(comp.segs)
  PROVE  Offered(Forward(comp).segs)
<1> DEFINE next == Forward(comp)
<1>1. /\ \A i \in 1..Len(comp.segs) : next.segs[i] = comp.segs[i]
      /\ \A i \in 1..Len(next.segs) : i > Len(comp.segs) =>
           next.segs[i].menu = <<>> /\ IsEmpty(next.segs[i])
  BY ForwardIs
<1>2. Len(comp.segs) \in Nat
  BY CompTypes DEF CompOK
<1>. HIDE DEF next
<1>3. Offered(next.segs)
  BY <1>1, <1>2 DEF Offered
<1>. QED
  BY <1>3 DEF next

\* A context that goes on to its next segment
LEMMA ForwardIn ==
  ASSUME NEW c, CtxType(c), CompOK(c.comp, Bound(c)), Offered(c.comp.segs)
  PROVE  LET d == [c EXCEPT !.comp = Forward(@)]
         IN  /\ Composable(d) /\ CompOK(d.comp, Bound(d)) /\ Offered(d.comp.segs)
             /\ SameLine(d, c) /\ Bound(d) = Bound(c) /\ d.comp = Forward(c.comp)
             /\ d.comp.input = c.comp.input /\ CurrentEnd(d.comp) = CurrentEnd(c.comp)
<1> DEFINE comp == Forward(c.comp)
           d == [c EXCEPT !.comp = comp]
<1>1. Bound(c) \in Nat
  BY CtxFacts
<1>2. /\ CompOK(comp, Bound(c)) /\ Open(comp.segs) /\ Offered(comp.segs)
      /\ comp.input = c.comp.input /\ CurrentEnd(comp) = CurrentEnd(c.comp)
  BY <1>1, ForwardIs, ForwardOffers
<1>3. comp \in Comps /\ Len(comp.input) <= Bound(c) /\ Shaped(comp.segs, comp.input, Bound(c))
  BY <1>2 DEF CompOK
<1>4. [c EXCEPT !.comp = Forward(@)] = d /\ comp = Forward(c.comp)
  OBVIOUS
<1>. HIDE DEF comp
<1>5. CtxType(d) /\ SameLine(d, c) /\ d.comp = comp /\ Bound(d) = Bound(c)
  BY <1>3, WithComp
<1>. HIDE DEF d
<1>6. Composable(d)
  BY <1>2, <1>3, <1>5 DEF Composable
<1>. QED
  BY <1>2, <1>4, <1>5, <1>6

LEMMA SetCaretIs ==
  ASSUME NEW c, Composable(c), NEW pos \in Nat
  PROVE  LET d == set_caret_pos(c, pos)
         IN  /\ Settled(d) /\ d.schema = c.schema /\ d.input = c.input /\ d.out = c.out
             /\ d.caret_pos = IF pos > Len(c.input) THEN Len(c.input) ELSE pos
<1> DEFINE caret == IF pos > Len(c.input) THEN Len(c.input) ELSE pos
           moved == [c EXCEPT !.caret_pos = caret]
<1>1. CtxType(c) /\ c.input \in Seq(Chars) /\ Len(c.input) \in Nat /\ Len(c.input) <= Bound(c)
  BY CtxFacts DEF Composable, CtxType
<1>2. caret \in Nat /\ caret <= Len(c.input)
  BY <1>1
<1>3. Relined(moved, c, c.input, caret)
  BY <1>1 DEF CtxType, Relined
<1>4. set_caret_pos(c, pos) = Compose(moved)
  BY DEF set_caret_pos
<1>. HIDE DEF moved, caret
<1>5. /\ CtxType(moved) /\ Bound(moved) = Bound(c) /\ moved.comp = c.comp /\ moved.out = c.out
      /\ moved.schema = c.schema /\ moved.input = c.input /\ moved.caret_pos = caret
  BY <1>1, <1>2, <1>3, WithLine
<1>6. Composable(moved)
  BY <1>5 DEF Composable
<1>7. LET d == Compose(moved) IN Settled(d) /\ SameLine(d, moved)
  BY <1>6, ComposeIs
<1>. QED
  BY <1>4, <1>5, <1>7 DEF SameLine, caret

LEMMA SetCaretKeeps ==
  ASSUME NEW c, Good(c), NEW d, Composable(d), Continues(d, c), d.comp.input = c.comp.input,
         d.input = c.input, NEW caret \in Nat, caret <= Len(c.input),
         NEW pos \in Nat, pos <= caret
  PROVE  Keeping(set_caret_pos(d, caret), c, pos)
<1> DEFINE to == IF caret > Len(d.input) THEN Len(d.input) ELSE caret
           moved == [d EXCEPT !.caret_pos = to]
<1>1. CtxType(d) /\ d.input \in Seq(Chars) /\ Len(d.input) \in Nat /\ Len(d.input) <= Bound(d)
  BY CtxFacts DEF Composable, CtxType
<1>2. to = caret
  BY <1>1
<1>3. Relined(moved, d, d.input, to)
  BY <1>1 DEF CtxType, Relined
<1>4. set_caret_pos(d, caret) = Compose(moved)
  BY DEF set_caret_pos
<1>. HIDE DEF moved, to
<1>5. /\ CtxType(moved) /\ Bound(moved) = Bound(d) /\ moved.comp = d.comp
      /\ moved.input = d.input /\ moved.caret_pos = to
  BY <1>1, <1>2, <1>3, WithLine
<1>6. Composable(moved) /\ Continues(moved, c)
  BY <1>5 DEF Composable, Continues
<1>7. Keeping(Compose(moved), c, pos)
  BY <1>2, <1>5, <1>6, ComposeKeeps
<1>. QED
  BY <1>4, <1>7

\* What the line is after a selection: what it was, with the earlier selections
\* kept, or empty
Taken(d, c) ==
  \/ /\ d.input = c.input /\ d.caret_pos \in {c.caret_pos, Len(c.input)}
     /\ Keeping(d, c, c.caret_pos)
  \/ Emptied(d)

\* d is c with the last segment of c replaced, before or after it is closed.
LastIsIn(d, c, seg) ==
  /\ CtxType(d) /\ SameLine(d, c) /\ Bound(d) = Bound(c)
  /\ d.comp.input = c.comp.input /\ Swapped(d.comp.segs, c.comp.segs, seg)

LEMMA SetLastIn ==
  ASSUME NEW c, Good(c), c.comp.segs # <<>>, NEW d, NEW old, LastIsIn(d, c, old),
         NEW seg \in Segment
  PROVE  LastIsIn([d EXCEPT !.comp.segs = SetLast(@, seg)], c, seg)
<1> DEFINE segs == SetLast(d.comp.segs, seg)
           e == [d EXCEPT !.comp.segs = segs]
<1>1. /\ CtxType(d) /\ SameLine(d, c) /\ Bound(d) = Bound(c) /\ d.comp.input = c.comp.input
      /\ d.comp.segs \in Seq(Segment) /\ Len(d.comp.segs) = Len(c.comp.segs)
      /\ \A i \in 1..Len(c.comp.segs) : i # Len(c.comp.segs) => d.comp.segs[i] = c.comp.segs[i]
  BY DEF LastIsIn, Swapped
<1>2. Len(c.comp.segs) \in Nat \ {0}
  <2>1. c.comp.segs \in Seq(Segment)
    BY CtxFacts, CompTypes DEF Good, Settled
  <2>. QED
    BY <2>1, LastIs
<1>3. d.comp.segs # <<>>
  BY <1>1, <1>2, EmptySeq
<1>4. Swapped(segs, d.comp.segs, seg)
  BY <1>1, <1>3, SetLastSwaps
<1>. HIDE DEF segs
<1>5. segs \in Seq(Segment) /\ Swapped(segs, c.comp.segs, seg)
  BY <1>1, <1>4 DEF Swapped
<1>6. /\ CtxType(e) /\ SameLine(e, d) /\ Bound(e) = Bound(d)
      /\ e.comp \in Comps /\ e.comp.segs = segs /\ e.comp.input = d.comp.input
  BY <1>1, <1>5, WithSegs
<1>7. [d EXCEPT !.comp.segs = SetLast(@, seg)] = e
  BY DEF segs
<1>. HIDE DEF e
<1>8. LastIsIn(e, c, seg)
  BY <1>1, <1>5, <1>6 DEF LastIsIn, SameLine
<1>. QED
  BY <1>7, <1>8

LEMMA ClosedIn ==
  ASSUME NEW c, Good(c), c.comp.segs # <<>>,
         NEW seg, SegmentOK(seg, c.comp.input, Bound(c)), seg.start = Last(c.comp.segs).start,
         IsSelected(seg), ~IsEmpty(seg), seg.end <= Last(c.comp.segs).end,
         NEW d, LastIsIn(d, c, seg)
  PROVE  /\ CtxType(d) /\ SameLine(d, c) /\ Bound(d) = Bound(c)
         /\ CompOK(d.comp, Bound(c)) /\ Offered(d.comp.segs) /\ d.comp.segs # <<>>
         /\ Last(d.comp.segs) = seg /\ d.comp.input = c.comp.input
<1>1. /\ CompOK(c.comp, Bound(c)) /\ Offered(c.comp.segs) /\ Bound(c) \in Nat
  BY CtxFacts DEF Good, Settled
<1>2. /\ CtxType(d) /\ SameLine(d, c) /\ Bound(d) = Bound(c) /\ d.comp \in Comps
      /\ Recut(d.comp, c.comp, d.comp.segs) /\ Swapped(d.comp.segs, c.comp.segs, seg)
  BY CtxFacts DEF LastIsIn, Recut
<1>3. seg.end <= Len(c.comp.input)
  <2>1. /\ Last(c.comp.segs).end <= Len(c.comp.input) /\ Len(c.comp.input) \in Nat
        /\ Last(c.comp.segs) \in Segment /\ seg \in Segment
    BY <1>1, CompFacts, CompTypes DEF CompOK, SegmentOK
  <2>2. Last(c.comp.segs).end \in Nat /\ seg.end \in Nat
    BY <2>1, SegmentType1
  <2>. QED
    BY <2>1, <2>2
<1>4. seg.status # kVoid
  BY SegmentType1, Statuses DEF IsSelected, SegmentOK
<1>5. /\ CompOK(d.comp, Bound(c)) /\ Offered(d.comp.segs) /\ d.comp.segs # <<>>
      /\ Last(d.comp.segs) = seg
  BY <1>1, <1>2, <1>3, <1>4, SwapIs
<1>. QED
  BY <1>2, <1>5 DEF Recut

LEMMA ForwardContinues ==
  ASSUME NEW c, Good(c), NEW seg, NEW d, LastIsIn(d, c, seg), CompOK(d.comp, Bound(d)),
         NEW e, e.comp = Forward(d.comp)
  PROVE  Continues(e, c)
<1>1. /\ Len(d.comp.segs) = Len(c.comp.segs) /\ Len(c.comp.segs) \in Nat
      /\ \A i \in 1..Len(c.comp.segs) : i # Len(c.comp.segs) => d.comp.segs[i] = c.comp.segs[i]
  BY GoodFacts DEF LastIsIn, Swapped
<1>2. Bound(d) \in Nat
  BY CtxFacts DEF LastIsIn
<1>3. /\ Len(d.comp.segs) <= Len(e.comp.segs)
      /\ \A i \in 1..Len(d.comp.segs) : e.comp.segs[i] = d.comp.segs[i]
  BY <1>2, ForwardIs
<1>. QED
  BY <1>1, <1>3 DEF Continues

LEMMA OnSelectIs ==
  ASSUME NEW c, Good(c), c.comp.segs # <<>>,
         NEW index \in Nat, index < Len(Last(c.comp.segs).menu) \/ ~IsEmpty(Last(c.comp.segs)),
         NEW chosen, Chosen(chosen, Last(c.comp.segs), index), NEW d, LastIsIn(d, c, chosen)
  PROVE  LET e == OnSelect(d) IN Good(e) /\ e.schema = c.schema /\ Taken(e, c)
<1> DEFINE last == Last(c.comp.segs)
           seg == Close(chosen)
           sure == [seg EXCEPT !.status = kConfirmed]
           closed == [d EXCEPT !.comp.segs = SetLast(@, seg)]
           confirmed == [d EXCEPT !.comp.segs = SetLast(@, sure)]
           input == c.comp.input
           max == Bound(c)
           e == OnSelect(d)
<1>1. /\ CtxType(c) /\ max \in Nat /\ SegmentOK(last, input, max) /\ last \in Segment
      /\ ~IsSelected(last) /\ (last.status = kVoid => last.menu = <<>>) /\ OutOK(c)
      /\ c.input \in Seq(Chars) /\ Len(c.input) \in Nat /\ Lined(c)
  <2>1. /\ CtxType(c) /\ CompOK(c.comp, max) /\ Open(c.comp.segs) /\ Offered(c.comp.segs) /\ OutOK(c)
        /\ Lined(c) /\ max \in Nat /\ c.input \in Seq(Chars) /\ Len(c.input) \in Nat
    BY CtxFacts DEF Good, Settled
  <2>2. /\ SegmentOK(last, input, max) /\ last \in Segment
        /\ Len(c.comp.segs) \in Nat \ {0} /\ last = c.comp.segs[Len(c.comp.segs)]
    BY <2>1, CompFacts
  <2>3. Len(c.comp.segs) \in 1..Len(c.comp.segs)
    BY <2>2
  <2>. QED
    BY <2>1, <2>2, <2>3 DEF Open, Offered
<1>2. Last(d.comp.segs) = chosen
  <2>1. /\ d.comp.segs \in Seq(Segment) /\ Len(d.comp.segs) = Len(c.comp.segs)
        /\ \A i \in 1..Len(c.comp.segs) : i = Len(c.comp.segs) => d.comp.segs[i] = chosen
    BY DEF LastIsIn, Swapped
  <2>2. Len(c.comp.segs) \in Nat \ {0}
    BY CtxFacts, CompTypes, LastIs DEF Good, Settled
  <2>3. d.comp.segs # <<>>
    BY <2>1, <2>2, EmptySeq
  <2>. QED
    BY <2>1, <2>2, <2>3, LastIs
<1>3. chosen \in Segment /\ IsSelected(chosen) /\ (HasCandidate(chosen) => CandidateEnd(chosen) \in Nat)
  <2>1. /\ chosen \in Segment /\ chosen.status = kSelected /\ chosen.selected_index = index
        /\ chosen.menu = last.menu /\ last.menu \in Seq(Nat)
    BY <1>1, SegmentType1 DEF Chosen
  <2>2. ASSUME HasCandidate(chosen) PROVE CandidateEnd(chosen) \in Nat
    <3>1. index + 1 \in 1..Len(last.menu) /\ CandidateEnd(chosen) = last.menu[index + 1]
      BY <2>1, <2>2 DEF HasCandidate, CandidateEnd
    <3>. QED
      BY <2>1, <3>1, ElementOfSeq
  <2>. QED
    BY <2>1, <2>2, Statuses DEF IsSelected
<1>4. Closed(seg, chosen) /\ Closed(sure, chosen)
  BY <1>3, CloseIs
<1>5. /\ d.input = c.input /\ d.caret_pos = c.caret_pos /\ d.schema = c.schema /\ d.out = c.out
  BY DEF LastIsIn, SameLine
<1>6. e = IF seg.end = Len(c.input)
          THEN IF AutoCommit THEN Commit(confirmed) ELSE [confirmed EXCEPT !.comp = Forward(@)]
          ELSE IF seg.end >= c.caret_pos
               THEN set_caret_pos([closed EXCEPT !.comp = Forward(@)], Len(c.input))
               ELSE Compose([closed EXCEPT !.comp = Forward(@)])
  BY <1>2, <1>5 DEF OnSelect
<1>. HIDE DEF last, input, max, sure, e
<1>7. SegmentOK(seg, input, max) /\ IsSelected(seg) /\ seg.start = last.start /\ ~IsEmpty(seg)
      /\ seg.end <= last.end
  <2>. HIDE DEF seg
  <2>. QED
    BY <1>1, <1>4, ClosedIsOK DEF last
<1>8. SegmentOK(sure, input, max) /\ IsSelected(sure) /\ sure.start = last.start /\ ~IsEmpty(sure)
      /\ sure.end <= last.end
  BY <1>1, <1>4, ClosedIsOK DEF last
<1>8a. sure.end = seg.end
  BY <1>4 DEF Closed
<1>. HIDE DEF seg
<1>9. LastIsIn(closed, c, seg) /\ LastIsIn(confirmed, c, sure)
  BY <1>7, <1>8, SetLastIn DEF SegmentOK
<1>. HIDE DEF closed, confirmed
<1>10. /\ CtxType(closed) /\ SameLine(closed, c) /\ Bound(closed) = Bound(c)
       /\ CompOK(closed.comp, Bound(closed)) /\ Offered(closed.comp.segs)
  BY <1>7, <1>9, ClosedIn DEF last, input, max
<1>11. /\ CtxType(confirmed) /\ SameLine(confirmed, c) /\ Bound(confirmed) = Bound(c)
       /\ CompOK(confirmed.comp, Bound(confirmed)) /\ Offered(confirmed.comp.segs)
       /\ confirmed.comp.segs # <<>> /\ Last(confirmed.comp.segs) = sure
       /\ confirmed.comp.input = c.comp.input
  BY <1>8, <1>9, ClosedIn DEF last, input, max
<1> DEFINE next == [closed EXCEPT !.comp = Forward(@)]
           final == [confirmed EXCEPT !.comp = Forward(@)]
<1>12. /\ Composable(next) /\ SameLine(next, closed)
       /\ next.comp.input = closed.comp.input /\ next.comp = Forward(closed.comp)
  BY <1>10, ForwardIn
<1>13. /\ Composable(final) /\ CompOK(final.comp, Bound(final)) /\ Offered(final.comp.segs)
       /\ SameLine(final, confirmed) /\ final.comp.input = confirmed.comp.input
       /\ CurrentEnd(final.comp) = CurrentEnd(confirmed.comp)
       /\ final.comp = Forward(confirmed.comp)
  BY <1>11, ForwardIn
<1>. HIDE DEF next, final
<1>13a. Continues(next, c) /\ next.comp.input = c.comp.input
  BY <1>9, <1>10, <1>12, ForwardContinues DEF LastIsIn
<1>13b. Continues(final, c)
  BY <1>9, <1>11, <1>13, ForwardContinues
<1>14. CASE seg.end = Len(c.input) /\ AutoCommit
  <2>1. Spelled(confirmed.comp) /\ IsComposing(confirmed)
    BY <1>11, CtxFacts, SpelledIs DEF IsComposing
  <2>2. LET x == Commit(confirmed) IN Good(x) /\ x.schema = confirmed.schema /\ Emptied(x)
    BY <1>11, <2>1, CommitsSpelled
  <2>. QED
    BY <1>6, <1>11, <1>14, <2>2 DEF SameLine, Taken, e
<1>15. CASE seg.end = Len(c.input) /\ ~AutoCommit
  <2>1. e = final
    BY <1>6, <1>15 DEF final
  <2>2. CurrentEnd(final.comp) = Len(c.input)
    BY <1>8a, <1>11, <1>13, <1>15 DEF CurrentEnd
  <2>3. Lined(final)
    BY <1>1, <1>11, <1>13, <2>2 DEF Lined, SameLine
  <2>4. Good(final)
    BY <1>1, <1>11, <1>13, <2>3 DEF Good, Settled, Composable, OutOK, SameLine
  <2>5. Keeping(final, c, c.caret_pos)
    BY <1>13b, <2>4, GoodFacts, ContinuesKeeping
  <2>. QED
    BY <1>11, <1>13, <2>1, <2>4, <2>5 DEF SameLine, Taken, e
<1>16. CASE seg.end # Len(c.input) /\ seg.end >= c.caret_pos
  <2>1. e = set_caret_pos(next, Len(c.input))
    BY <1>6, <1>16 DEF next
  <2>2. LET x == set_caret_pos(next, Len(c.input))
        IN  /\ Settled(x) /\ x.schema = next.schema /\ x.input = next.input /\ x.out = next.out
            /\ x.caret_pos = IF Len(c.input) > Len(next.input) THEN Len(next.input) ELSE Len(c.input)
    BY <1>1, <1>12, SetCaretIs
  <2>3. next.schema = c.schema /\ next.input = c.input /\ next.out = c.out
    BY <1>10, <1>12 DEF SameLine
  <2>4. Settled(e) /\ e.schema = c.schema /\ e.input = c.input /\ e.out = c.out /\ e.caret_pos = Len(c.input)
    BY <1>1, <2>1, <2>2, <2>3
  <2>5. Keeping(e, c, c.caret_pos)
    <3>1. c.caret_pos \in Nat /\ c.caret_pos <= Len(c.input) /\ Len(c.input) <= Len(c.input)
      BY GoodFacts
    <3>. QED
      BY <1>1, <1>12, <1>13a, <2>1, <2>3, <3>1, SetCaretKeeps DEF e
  <2>. QED
    BY <1>1, <2>4, <2>5 DEF Good, OutOK, Taken, e
<1>17. CASE seg.end # Len(c.input) /\ ~(seg.end >= c.caret_pos)
  <2>1. e = Compose(next)
    BY <1>6, <1>17 DEF next
  <2>2. LET x == Compose(next) IN Settled(x) /\ SameLine(x, next)
    BY <1>12, ComposeIs
  <2>3. Keeping(e, c, c.caret_pos)
    <3>1. /\ c.caret_pos \in Nat /\ next.caret_pos = c.caret_pos /\ c.caret_pos <= c.caret_pos
          /\ next.input = c.input
      BY <1>10, <1>12, GoodFacts DEF SameLine
    <3>. QED
      BY <1>12, <1>13a, <2>1, <3>1, ComposeKeeps DEF e
  <2>. QED
    BY <1>1, <1>10, <1>12, <2>1, <2>2, <2>3 DEF Good, OutOK, SameLine, Taken, e
<1>. QED
  BY <1>14, <1>15, <1>16, <1>17

-----------------------------------------------------------------------------
(* The operations of Context *)

LEMMA SwapsIn ==
  ASSUME NEW c, Good(c), c.comp.segs # <<>>, NEW seg \in Segment
  PROVE  LastIsIn([c EXCEPT !.comp.segs = SetLast(@, seg)], c, seg)
<1>1. LastIsIn(c, c, Last(c.comp.segs))
  BY GoodFacts DEF LastIsIn, SameLine, Swapped
<1>. QED
  BY <1>1, SetLastIn

LEMMA SelectIs ==
  ASSUME NEW c, Good(c), NEW index \in Nat
  PROVE  LET d == Select(c, index).c IN Good(d) /\ d.schema = c.schema /\ Taken(d, c)
<1> DEFINE last == Last(c.comp.segs)
           chosen == [last EXCEPT !.selected_index = index, !.status = kSelected]
           changed == [c EXCEPT !.comp.segs = SetLast(@, chosen)]
<1>1. CASE c.comp.segs = <<>> \/ index >= Len(last.menu)
  BY <1>1, KeepingItself DEF Select, Fail, Taken
<1>2. CASE ~(c.comp.segs = <<>> \/ index >= Len(last.menu))
  <2>1. last \in Segment /\ last.menu \in Seq(Nat) /\ c.comp.segs # <<>>
    BY <1>2, GoodFacts, SegmentType1
  <2>2. Len(last.menu) \in Nat
    BY <2>1
  <2>3. index < Len(last.menu)
    BY <1>2, <2>2
  <2>4. Select(c, index).c =
          OnSelect([c EXCEPT !.comp.segs =
            SetLast(@, [Last(@) EXCEPT !.selected_index = index, !.status = kSelected])])
    BY <1>2 DEF Select, Done
  <2>5. [c EXCEPT !.comp.segs =
            SetLast(@, [Last(@) EXCEPT !.selected_index = index, !.status = kSelected])] = changed
    OBVIOUS
  <2>6. kSelected \in kVoid..kConfirmed
    BY Statuses
  <2>. HIDE DEF last
  <2>7. Chosen(chosen, last, index)
    BY <2>1, <2>6 DEF Chosen, Segment
  <2>. HIDE DEF chosen
  <2>8. LastIsIn(changed, c, chosen)
    BY <2>1, <2>7, SwapsIn DEF Chosen
  <2>. HIDE DEF changed
  <2>9. LET d == OnSelect(changed) IN Good(d) /\ d.schema = c.schema /\ Taken(d, c)
    BY <2>1, <2>3, <2>7, <2>8, OnSelectIs DEF last
  <2>. QED
    BY <2>4, <2>5, <2>9
<1>. QED
  BY <1>1, <1>2

\* What is refused is an empty segment, and that it has been marked as
\* selected shows only if the composition is committed.
LEMMA ConfirmCurrentSelectionIs ==
  ASSUME NEW c, Good(c)
  PROVE  LET r == ConfirmCurrentSelection(c)
             d == r.c
         IN  /\ r.ok \in BOOLEAN
             /\ (r.ok \/ c.comp.segs = <<>>) => Good(d) /\ d.schema = c.schema /\ Taken(d, c)
             /\ ~r.ok => \/ c.comp.segs = <<>>
                         \/ /\ CtxType(d) /\ Spelled(d.comp) /\ IsComposing(d)
                            /\ d.schema = c.schema
             /\ c.comp.segs # <<>> /\ HasCandidate(Last(c.comp.segs)) => r.ok
<1> DEFINE last == Last(c.comp.segs)
           chosen == [last EXCEPT !.status = kSelected]
           changed == [c EXCEPT !.comp.segs = SetLast(@, chosen)]
           r == ConfirmCurrentSelection(c)
<1>1. CASE c.comp.segs = <<>>
  BY <1>1, KeepingItself DEF ConfirmCurrentSelection, Fail, Taken
<1>2. CASE c.comp.segs # <<>>
  <2>1. /\ last \in Segment /\ last.menu \in Seq(Nat) /\ last.selected_index \in Nat
        /\ last.start \in Nat /\ last.end \in Nat /\ Len(last.menu) \in Nat
    BY <1>2, GoodFacts, SegmentType1
  <2>2. r = IF ~HasCandidate(last) /\ last.end = last.start THEN Fail(changed) ELSE Done(OnSelect(changed))
    BY <1>2 DEF ConfirmCurrentSelection
  <2>3. kSelected \in kVoid..kConfirmed
    BY Statuses
  <2>. HIDE DEF last
  <2>4. Chosen(chosen, last, last.selected_index)
    BY <2>1, <2>3 DEF Chosen, Segment
  <2>. HIDE DEF chosen
  <2>5. LastIsIn(changed, c, chosen)
    BY <1>2, <2>4, SwapsIn DEF Chosen
  <2>. HIDE DEF changed, r
  <2>6. CASE HasCandidate(last) \/ last.end # last.start
    <3>1. last.selected_index < Len(last.menu) \/ ~IsEmpty(last)
      BY <2>6 DEF HasCandidate, IsEmpty
    <3>2. LET d == OnSelect(changed) IN Good(d) /\ d.schema = c.schema /\ Taken(d, c)
      BY <1>2, <2>1, <2>4, <2>5, <3>1, OnSelectIs DEF last
    <3>3. r.ok = TRUE /\ r.c = OnSelect(changed)
      BY <2>2, <2>6 DEF Done
    <3>. QED
      BY <3>2, <3>3 DEF r
  <2>7. CASE ~HasCandidate(last) /\ last.end = last.start
    <3>1. r.ok = FALSE /\ r.c = changed
      BY <2>2, <2>7 DEF Fail
    <3>2. /\ CtxType(changed) /\ SameLine(changed, c)
          /\ Swapped(changed.comp.segs, c.comp.segs, chosen) /\ changed.comp \in Comps
      BY <2>5, CtxFacts DEF LastIsIn
    <3>3. /\ Len(c.comp.segs) \in Nat \ {0} /\ last = c.comp.segs[Len(c.comp.segs)]
      BY <1>2, GoodFacts DEF last
    <3>4. Len(changed.comp.segs) = Len(c.comp.segs) /\ changed.comp.segs # <<>>
      BY <3>2, <3>3, EmptySeq DEF Swapped
    <3>5. Spelled(c.comp)
      BY GoodSpells
    <3>6. ~HasCandidate(chosen) /\ chosen.start = last.start /\ chosen.end = last.end
      BY <2>4, <2>7 DEF Chosen, HasCandidate
    <3>7. ASSUME NEW i \in 1..Len(c.comp.segs)
          PROVE  /\ Sayable(changed.comp.segs[i])
                 /\ changed.comp.segs[i].start = c.comp.segs[i].start
                 /\ changed.comp.segs[i].end = c.comp.segs[i].end
      BY <2>1, <2>7, <3>2, <3>3, <3>5, <3>6 DEF Spelled, Swapped, Sayable
    <3>8. Tiled(changed.comp.segs)
      <4>1. SUFFICES ASSUME NEW i \in 1..Len(c.comp.segs)
                     PROVE  /\ changed.comp.segs[i].start = (IF i = 1 THEN 0 ELSE changed.comp.segs[i - 1].end)
                            /\ IsEmpty(changed.comp.segs[i]) => i = Len(changed.comp.segs) /\ i > 1
        BY <3>4 DEF Tiled
      <4>2. /\ c.comp.segs[i].start = (IF i = 1 THEN 0 ELSE c.comp.segs[i - 1].end)
            /\ IsEmpty(c.comp.segs[i]) => i = Len(c.comp.segs) /\ i > 1
        BY <3>5 DEF Spelled, Tiled
      <4>3. i # 1 => i - 1 \in 1..Len(c.comp.segs)
        BY <3>3
      <4>. QED
        BY <3>4, <3>7, <4>2, <4>3 DEF IsEmpty
    <3>9. Spelled(changed.comp)
      BY <3>2, <3>4, <3>7, <3>8 DEF Spelled
    <3>10. IsComposing(changed) /\ changed.schema = c.schema
      BY <3>2, <3>4 DEF IsComposing, SameLine
    <3>. QED
      BY <1>2, <2>7, <3>1, <3>2, <3>9, <3>10 DEF r, last
  <2>. QED
    BY <2>6, <2>7
<1>. QED
  BY <1>1, <1>2

\* A segment with a tag that nobody segments by
Retagged(next, seg) ==
  /\ next \in Segment /\ next.status = seg.status /\ next.selected_index = seg.selected_index
  /\ next.start = seg.start /\ next.end = seg.end /\ next.length = seg.length /\ next.menu = seg.menu
  /\ \A tag \in {"raw", "abc", "punct", "partial"} : tag \in next.tags <=> tag \in seg.tags

LEMMA RetaggedIsOK ==
  ASSUME NEW max \in Nat, NEW input, NEW seg, SegmentOK(seg, input, max),
         NEW next, Retagged(next, seg)
  PROVE  SegmentOK(next, input, max) /\ (IsSelected(next) <=> IsSelected(seg))
<1>1. /\ OriginalEnd(next) = OriginalEnd(seg) /\ CandidateEnd(next) = CandidateEnd(seg)
      /\ (HasCandidate(next) <=> HasCandidate(seg)) /\ (IsSelected(next) <=> IsSelected(seg))
  BY DEF Retagged, OriginalEnd, CandidateEnd, HasCandidate, IsSelected
<1>2. Offers(next)
  BY <1>1 DEF Retagged, SegmentOK, Offers
<1>3. RawOK(next, input)
  BY DEF Retagged, SegmentOK, RawOK
<1>. QED
  BY <1>1, <1>2, <1>3 DEF Retagged, SegmentOK

LEMMA BeginEditingIs ==
  ASSUME NEW c, Good(c)
  PROVE  LET d == BeginEditing(c)
         IN  /\ Good(d) /\ SameLine(d, c) /\ d.comp.input = c.comp.input
             /\ \A pos : Keeping(d, c, pos)
<1> DEFINE latest == LastSelected(c.comp.segs)
           seg == c.comp.segs[latest]
           tags == seg.tags \cup {"selected_before_editing"}
           next == [seg EXCEPT !.tags = tags]
           segs == [c.comp.segs EXCEPT ![latest] = next]
           d == [c EXCEPT !.comp.segs = segs]
<1>1. /\ CtxType(c) /\ CompOK(c.comp, Bound(c)) /\ Open(c.comp.segs) /\ Offered(c.comp.segs)
      /\ Bound(c) \in Nat /\ c.comp.segs \in Seq(Segment) /\ Len(c.comp.segs) \in Nat
      /\ Shaped(c.comp.segs, c.comp.input, Bound(c)) /\ Within(c.comp.segs, Len(c.comp.input))
  BY GoodFacts DEF CompOK
<1>2. latest \in 0..Len(c.comp.segs)
  BY <1>1, LastSelectedIs
<1>3. CASE ~(latest > 0 /\ seg.status = kSelected)
  BY <1>3, KeepingItself DEF BeginEditing, SameLine
<1>4. CASE latest > 0 /\ seg.status = kSelected
  <2>1. latest \in 1..Len(c.comp.segs)
    BY <1>1, <1>2, <1>4
  <2>2. seg \in Segment /\ tags \in SUBSET Tags
    BY <1>1, <2>1, SegmentType1 DEF Tags
  <2>3. \A tag \in {"raw", "abc", "punct", "partial"} : tag \in tags <=> tag \in seg.tags
    OBVIOUS
  <2>4. BeginEditing(c) = d
    <3>1. BeginEditing(c) = [c EXCEPT !.comp.segs[latest].tags = @ \cup {"selected_before_editing"}]
      BY <1>4 DEF BeginEditing
    <3>. QED
      BY <3>1
  <2>. HIDE DEF seg, tags
  <2>5. Retagged(next, seg)
    BY <2>2, <2>3 DEF Retagged, Segment
  <2>. HIDE DEF next, latest
  <2>6. /\ segs \in Seq(Segment) /\ Len(segs) = Len(c.comp.segs)
        /\ \A i \in 1..Len(c.comp.segs) : segs[i] = IF i = latest THEN next ELSE c.comp.segs[i]
    BY <1>1, <2>1, <2>5, ExceptSeq DEF Retagged
  <2>. HIDE DEF segs
  <2>7. ASSUME NEW i \in 1..Len(c.comp.segs)
        PROVE  Retagged(segs[i], c.comp.segs[i])
    <3>1. c.comp.segs[i] \in Segment
      BY <1>1
    <3>2. Retagged(c.comp.segs[i], c.comp.segs[i])
      BY <3>1 DEF Retagged
    <3>. QED
      BY <2>5, <2>6, <3>2 DEF seg
  <2>8. ASSUME NEW i \in 1..Len(c.comp.segs)
        PROVE  /\ SegmentOK(segs[i], c.comp.input, Bound(c))
               /\ IsSelected(segs[i]) <=> IsSelected(c.comp.segs[i])
               /\ segs[i].status = c.comp.segs[i].status /\ segs[i].menu = c.comp.segs[i].menu
               /\ segs[i].start = c.comp.segs[i].start /\ segs[i].end = c.comp.segs[i].end
    <3>1. SegmentOK(c.comp.segs[i], c.comp.input, Bound(c))
      BY <1>1 DEF Shaped
    <3>. QED
      BY <1>1, <2>7, <3>1, RetaggedIsOK DEF Retagged
  <2>9. Tiled(segs)
    <3>1. SUFFICES ASSUME NEW i \in 1..Len(c.comp.segs)
                   PROVE  /\ segs[i].start = (IF i = 1 THEN 0 ELSE segs[i - 1].end)
                          /\ IsEmpty(segs[i]) => i = Len(segs) /\ i > 1
      BY <2>6 DEF Tiled
    <3>2. /\ c.comp.segs[i].start = (IF i = 1 THEN 0 ELSE c.comp.segs[i - 1].end)
          /\ IsEmpty(c.comp.segs[i]) => i = Len(c.comp.segs) /\ i > 1
      BY <1>1 DEF Shaped, Tiled
    <3>3. i # 1 => i - 1 \in 1..Len(c.comp.segs)
      BY <1>1
    <3>. QED
      BY <2>6, <2>8, <3>2, <3>3 DEF IsEmpty
  <2>10. Shaped(segs, c.comp.input, Bound(c)) /\ Within(segs, Len(c.comp.input)) /\ Offered(segs)
    BY <1>1, <2>6, <2>8, <2>9 DEF Shaped, Within, Offered, IsEmpty
  <2>11. Open(segs)
    <3>1. SUFFICES ASSUME segs # <<>> PROVE ~IsSelected(Last(segs))
      BY DEF Open
    <3>2. /\ Last(segs) = segs[Len(c.comp.segs)] /\ Len(c.comp.segs) \in 1..Len(c.comp.segs)
      BY <2>6, <3>1, LastIs
    <3>3. c.comp.segs # <<>>
      BY <3>2, EmptySeq
    <3>4. ~IsSelected(c.comp.segs[Len(c.comp.segs)])
      BY <3>3, GoodFacts
    <3>. QED
      BY <2>8, <3>2, <3>4
  <2>12. /\ CtxType(d) /\ SameLine(d, c) /\ Bound(d) = Bound(c)
         /\ d.comp \in Comps /\ d.comp.segs = segs /\ d.comp.input = c.comp.input
    BY <1>1, <2>6, WithSegs
  <2>. HIDE DEF d
  <2>13. Len(c.comp.input) <= Bound(c) /\ OutOK(c) /\ Lined(c)
    BY <1>1, GoodFacts DEF CompOK
  <2>14. CurrentEnd(d.comp) = CurrentEnd(c.comp)
    <3>1. segs # <<>> /\ c.comp.segs # <<>> /\ Len(c.comp.segs) \in 1..Len(c.comp.segs)
      BY <1>1, <2>1, <2>6, EmptySeq
    <3>2. /\ Last(segs) = segs[Len(c.comp.segs)]
          /\ Last(c.comp.segs) = c.comp.segs[Len(c.comp.segs)]
      BY <1>1, <2>6, <3>1, LastIs
    <3>. QED
      BY <2>8, <2>12, <3>1, <3>2 DEF CurrentEnd
  <2>15. Lined(d)
    BY <2>12, <2>13, <2>14, LinedStays
  <2>16. Good(d)
    BY <2>10, <2>11, <2>12, <2>13, <2>15 DEF Good, Settled, CompOK, OutOK, SameLine
  <2>17. ASSUME NEW i \in 1..Len(c.comp.segs)
         PROVE  /\ IsSelected(segs[i]) <=> IsSelected(c.comp.segs[i])
                /\ "raw" \in segs[i].tags <=> "raw" \in c.comp.segs[i].tags
                /\ Choice(segs[i]) = Choice(c.comp.segs[i])
    BY <2>7, <2>8 DEF Retagged, Choice
  <2>18. \A pos : Keeping(d, c, pos)
    BY <2>6, <2>12, <2>17 DEF Keeping
  <2>. QED
    BY <2>4, <2>12, <2>16, <2>18
<1>. QED
  BY <1>3, <1>4

\* A context that is composed again
LEMMA ComposesGood ==
  ASSUME NEW c, Composable(c), OutOK(c)
  PROVE  LET d == Compose(c) IN Good(d) /\ SameLine(d, c)
BY ComposeIs DEF Good, OutOK, SameLine

\* and one that is so with another line
LEMMA RelinedGood ==
  ASSUME NEW c, Good(c), NEW input, input \in Seq(Chars), Len(input) <= Bound(c),
         NEW caret_pos, caret_pos \in Nat, caret_pos <= Len(input),
         NEW d, Relined(d, c, input, caret_pos)
  PROVE  LET e == Compose(d)
         IN  /\ Good(e) /\ e.schema = c.schema /\ e.out = c.out
             /\ e.input = input /\ e.caret_pos = caret_pos
             /\ \A pos \in Nat : pos <= caret_pos /\ (\A i \in 1..pos : input[i] = c.input[i]) =>
                  Keeping(e, c, pos)
<1>1. /\ CtxType(d) /\ Bound(d) = Bound(c) /\ d.comp = c.comp /\ d.out = c.out
      /\ d.schema = c.schema /\ d.input = input /\ d.caret_pos = caret_pos
  BY GoodFacts, WithLine
<1>2. Composable(d) /\ OutOK(d)
  BY <1>1, GoodFacts DEF Composable, OutOK
<1>3. Continues(d, c)
  BY <1>1, GoodFacts DEF Continues
<1>4. ASSUME NEW pos \in Nat, pos <= caret_pos, \A i \in 1..pos : input[i] = c.input[i]
      PROVE  Keeping(Compose(d), c, pos)
  BY <1>1, <1>2, <1>3, <1>4, ComposeKeeps
<1>. QED
  BY <1>1, <1>2, <1>4, ComposesGood DEF SameLine

LEMMA SetCaretGood ==
  ASSUME NEW c, Good(c), NEW pos \in Nat
  PROVE  LET d == set_caret_pos(c, pos)
         IN  /\ Good(d) /\ d.schema = c.schema /\ d.input = c.input
             /\ d.caret_pos \in 0..Len(c.input)
             /\ \A before \in Nat : before <= d.caret_pos => Keeping(d, c, before)
<1>1. Composable(c) /\ OutOK(c) /\ Len(c.input) \in Nat
  BY GoodFacts
<1> DEFINE d == set_caret_pos(c, pos)
<1>2. /\ Settled(d) /\ d.schema = c.schema /\ d.input = c.input /\ d.out = c.out
      /\ d.caret_pos = IF pos > Len(c.input) THEN Len(c.input) ELSE pos
  BY <1>1, SetCaretIs
<1> DEFINE caret == IF pos > Len(c.input) THEN Len(c.input) ELSE pos
<1>3. caret \in Nat /\ caret <= Len(c.input) /\ set_caret_pos(c, caret) = d
  BY <1>1 DEF set_caret_pos
<1>4. Continues(c, c)
  BY GoodFacts DEF Continues
<1>. HIDE DEF d, caret
<1>5. ASSUME NEW before \in Nat, before <= caret PROVE Keeping(d, c, before)
  BY <1>1, <1>3, <1>4, <1>5, SetCaretKeeps
<1>. QED
  BY <1>1, <1>2, <1>5 DEF Good, OutOK, d, caret

\* Cutting a line and putting it together
LEMMA SubStringIs ==
  ASSUME NEW str \in Seq(Chars), NEW from \in Nat, NEW to \in Nat, to <= Len(str)
  PROVE  /\ SubString(str, from, to) \in Seq(Chars)
         /\ Len(SubString(str, from, to)) = IF from < to THEN to - from ELSE 0
<1>1. from + 1 \in Int /\ to \in Int /\ \A i \in (from + 1)..to : str[i] \in Chars
  BY ElementOfSeq
<1>2. /\ SubString(str, from, to) \in Seq(Chars)
      /\ Len(SubString(str, from, to)) = IF from + 1 <= to THEN to - (from + 1) + 1 ELSE 0
  BY <1>1, SubSeqProperties DEF SubString
<1>. QED
  BY <1>2

LEMMA SuffixIs ==
  ASSUME NEW str \in Seq(Chars), NEW from \in Nat
  PROVE  /\ SubString(str, from, Len(str)) \in Seq(Chars)
         /\ Len(SubString(str, from, Len(str))) = IF from < Len(str) THEN Len(str) - from ELSE 0
<1> DEFINE to == Len(str)
<1>1. to \in Nat /\ to <= Len(str)
  OBVIOUS
<1>. HIDE DEF to
<1>2. /\ SubString(str, from, to) \in Seq(Chars)
      /\ Len(SubString(str, from, to)) = IF from < to THEN to - from ELSE 0
  BY <1>1, SubStringIs
<1>. QED
  BY <1>2 DEF to

LEMMA JoinIs ==
  ASSUME NEW a \in Seq(Chars), NEW b \in Seq(Chars)
  PROVE  a \o b \in Seq(Chars) /\ Len(a \o b) = Len(a) + Len(b)
BY ConcatProperties

Inserted(input, pos, ch) ==
  SubString(input, 0, pos) \o <<ch>> \o SubString(input, pos, Len(input))

LEMMA SingleIs ==
  ASSUME NEW S, NEW e \in S
  PROVE  <<e>> \in Seq(S) /\ Len(<<e>>) = 1
OBVIOUS

LEMMA PushInputIs ==
  ASSUME NEW c, Good(c), NEW ch \in Chars, Len(c.input) < Bound(c)
  PROVE  LET d == PushInput(c, ch)
         IN  /\ Good(d) /\ d.schema = c.schema
             /\ d.input = Inserted(c.input, c.caret_pos, ch) /\ d.caret_pos = c.caret_pos + 1
             /\ Len(d.input) = Len(c.input) + 1
             /\ Keeping(d, c, c.caret_pos)
<1> DEFINE left == SubString(c.input, 0, c.caret_pos)
           right == SubString(c.input, c.caret_pos, Len(c.input))
           mid == <<ch>>
           input == left \o mid \o right
           caret == c.caret_pos + 1
           pushed == [c EXCEPT !.input = input, !.caret_pos = caret]
<1>1. /\ CtxType(c) /\ Bound(c) \in Nat /\ c.input \in Seq(Chars) /\ Len(c.input) \in Nat
      /\ c.caret_pos \in Nat /\ c.caret_pos <= Len(c.input)
  BY GoodFacts
<1>2. /\ left \in Seq(Chars) /\ Len(left) = c.caret_pos
      /\ right \in Seq(Chars) /\ Len(right) = Len(c.input) - c.caret_pos
  <2>1. left \in Seq(Chars) /\ Len(left) = IF 0 < c.caret_pos THEN c.caret_pos - 0 ELSE 0
    BY <1>1, SubStringIs
  <2>2. /\ right \in Seq(Chars)
        /\ Len(right) = IF c.caret_pos < Len(c.input) THEN Len(c.input) - c.caret_pos ELSE 0
    BY <1>1, SuffixIs
  <2>. HIDE DEF left, right
  <2>. QED
    BY <1>1, <2>1, <2>2
<1>3. mid \in Seq(Chars) /\ Len(mid) = 1
  BY SingleIs
<1>4. PushInput(c, ch) = Compose(pushed)
  BY DEF PushInput
<1>. HIDE DEF left, right, mid
<1>5. left \o mid \in Seq(Chars) /\ Len(left \o mid) = c.caret_pos + 1
  <2>1. left \o mid \in Seq(Chars) /\ Len(left \o mid) = Len(left) + Len(mid)
    BY <1>2, <1>3, JoinIs
  <2>. QED
    BY <1>2, <1>3, <2>1
<1>6. input \in Seq(Chars) /\ Len(input) = Len(c.input) + 1
  <2> DEFINE begun == left \o mid
  <2>1. input \in Seq(Chars) /\ Len(input) = Len(begun) + Len(right)
    <3>1. begun \in Seq(Chars) /\ input = begun \o right
      BY <1>5
    <3>. HIDE DEF input, begun
    <3>2. begun \o right \in Seq(Chars) /\ Len(begun \o right) = Len(begun) + Len(right)
      BY <1>2, <3>1, JoinIs
    <3>. QED
      BY <3>1, <3>2
  <2>2. Len(begun) = c.caret_pos + 1
    BY <1>5
  <2>. HIDE DEF input, begun
  <2>. QED
    BY <1>1, <1>2, <2>1, <2>2
<1>7. Inserted(c.input, c.caret_pos, ch) = input
  BY DEF Inserted, left, right, mid
<1>. HIDE DEF input, caret
<1>8. Relined(pushed, c, input, caret)
  BY <1>1 DEF CtxType, Relined
<1>. HIDE DEF pushed
<1>9. Len(input) <= Bound(c) /\ caret \in Nat /\ caret <= Len(input)
  BY <1>1, <1>6 DEF caret
<1>10. LET e == Compose(pushed)
       IN  /\ Good(e) /\ e.schema = c.schema /\ e.out = c.out
           /\ e.input = input /\ e.caret_pos = caret
           /\ Keeping(e, c, c.caret_pos)
  <2>1. \A i \in 1..c.caret_pos : input[i] = c.input[i]
    <3>1. \A i \in 1..c.caret_pos : left[i] = c.input[i]
      BY <1>1, LineStart DEF left
    <3> DEFINE begun == left \o mid
    <3>2. ASSUME NEW i \in 1..c.caret_pos PROVE begun[i] = left[i] /\ i \in 1..(c.caret_pos + 1)
      BY <1>1, <1>2, <1>3, <3>2
    <3>3. begun \in Seq(Chars) /\ Len(begun) = c.caret_pos + 1
      BY <1>5
    <3>. HIDE DEF begun
    <3>4. \A i \in 1..(c.caret_pos + 1) : (begun \o right)[i] = begun[i]
      BY <1>1, <1>2, <3>3
    <3>. QED
      BY <3>1, <3>2, <3>4 DEF begun, input
  <2>2. c.caret_pos \in Nat /\ c.caret_pos <= caret
    BY <1>1 DEF caret
  <2>. QED
    BY <1>6, <1>8, <1>9, <2>1, <2>2, RelinedGood
<1>. QED
  BY <1>4, <1>6, <1>7, <1>10 DEF caret

LEMMA EraseIs ==
  ASSUME NEW str \in Seq(Chars), NEW pos \in Nat, NEW len \in Nat, pos + len <= Len(str)
  PROVE  Erase(str, pos, len) \in Seq(Chars) /\ Len(Erase(str, pos, len)) = Len(str) - len
<1> DEFINE from == pos + len
           left == SubString(str, 0, pos)
           right == SubString(str, from, Len(str))
<1>1. /\ left \in Seq(Chars) /\ Len(left) = pos
      /\ right \in Seq(Chars) /\ Len(right) = Len(str) - (pos + len)
  <2>1. Len(str) \in Nat /\ from \in Nat /\ from = pos + len /\ pos <= Len(str)
    OBVIOUS
  <2>2. left \in Seq(Chars) /\ Len(left) = IF 0 < pos THEN pos - 0 ELSE 0
    BY <2>1, SubStringIs
  <2>3. /\ right \in Seq(Chars)
        /\ Len(right) = IF from < Len(str) THEN Len(str) - from ELSE 0
    <3>. HIDE DEF from
    <3>. QED
      BY <2>1, SuffixIs
  <2>. HIDE DEF left, right, from
  <2>. QED
    BY <2>1, <2>2, <2>3
<1>2. Erase(str, pos, len) = left \o right
  BY DEF Erase
<1>. HIDE DEF left, right
<1>3. left \o right \in Seq(Chars) /\ Len(left \o right) = Len(left) + Len(right)
  BY <1>1, JoinIs
<1> DEFINE both == left \o right
<1>. HIDE DEF both
<1>4. both \in Seq(Chars) /\ Len(both) = Len(left) + Len(right) /\ Erase(str, pos, len) = both
  BY <1>2, <1>3 DEF both
<1>5. Len(str) \in Nat
  OBVIOUS
<1>. QED
  BY <1>1, <1>4, <1>5

LEMMA PopInputIs ==
  ASSUME NEW c, Good(c), NEW len \in Nat \ {0}
  PROVE  LET r == PopInput(c, len)
             d == r.c
         IN  /\ Good(d) /\ d.schema = c.schema /\ r.ok \in BOOLEAN
             /\ ~r.ok => d = c
             /\ r.ok => /\ len <= c.caret_pos
                        /\ d.input = Erase(c.input, c.caret_pos - len, len)
                        /\ d.caret_pos = c.caret_pos - len
<1> DEFINE caret == c.caret_pos - len
           input == Erase(c.input, caret, len)
           popped == [c EXCEPT !.input = input, !.caret_pos = caret]
<1>1. /\ CtxType(c) /\ Bound(c) \in Nat /\ c.input \in Seq(Chars) /\ Len(c.input) \in Nat
      /\ c.caret_pos \in Nat /\ c.caret_pos <= Len(c.input) /\ Len(c.input) <= Bound(c)
  BY GoodFacts
<1>2. CASE c.caret_pos < len
  BY <1>2 DEF PopInput, Fail
<1>3. CASE ~(c.caret_pos < len)
  <2>1. PopInput(c, len) = Done(Compose(popped))
    BY <1>3 DEF PopInput
  <2>2. caret \in Nat /\ caret + len = c.caret_pos /\ len <= c.caret_pos
    BY <1>1, <1>3
  <2>. HIDE DEF caret
  <2>3. input \in Seq(Chars) /\ Len(input) = Len(c.input) - len
    BY <1>1, <2>2, EraseIs
  <2>. HIDE DEF input
  <2>4. Relined(popped, c, input, caret)
    BY <1>1 DEF CtxType, Relined
  <2>. HIDE DEF popped
  <2>5. input \in Seq(Chars) /\ Len(input) <= Bound(c) /\ caret \in Nat /\ caret <= Len(input)
    BY <1>1, <2>2, <2>3
  <2>6. LET e == Compose(popped)
        IN  /\ Good(e) /\ e.schema = c.schema /\ e.out = c.out
            /\ e.input = input /\ e.caret_pos = caret
    BY <2>4, <2>5, RelinedGood
  <2>. QED
    BY <2>1, <2>2, <2>6 DEF Done, input, caret
<1>. QED
  BY <1>2, <1>3

LEMMA DeleteInputIs ==
  ASSUME NEW c, Good(c)
  PROVE  LET r == DeleteInput(c)
             d == r.c
         IN  /\ Good(d) /\ d.schema = c.schema
             /\ \/ d = c
                \/ /\ c.caret_pos < Len(c.input) /\ d.caret_pos = c.caret_pos
                   /\ d.input = Erase(c.input, c.caret_pos, 1)
<1> DEFINE input == Erase(c.input, c.caret_pos, 1)
           erased == [c EXCEPT !.input = input]
<1>1. /\ CtxType(c) /\ Bound(c) \in Nat /\ c.input \in Seq(Chars) /\ Len(c.input) \in Nat
      /\ c.caret_pos \in Nat /\ c.caret_pos <= Len(c.input) /\ Len(c.input) <= Bound(c)
  BY GoodFacts
<1>2. CASE c.caret_pos + 1 > Len(c.input)
  BY <1>2 DEF DeleteInput, Fail
<1>3. CASE ~(c.caret_pos + 1 > Len(c.input))
  <2>1. DeleteInput(c) = Done(Compose(erased))
    BY <1>3 DEF DeleteInput
  <2>2. c.caret_pos + 1 <= Len(c.input) /\ c.caret_pos < Len(c.input)
    BY <1>1, <1>3
  <2>3. input \in Seq(Chars) /\ Len(input) = Len(c.input) - 1
    BY <1>1, <2>2, EraseIs
  <2>. HIDE DEF input
  <2>4. Relined(erased, c, input, c.caret_pos)
    BY <1>1 DEF CtxType, Relined
  <2>. HIDE DEF erased
  <2>5. Len(input) <= Bound(c) /\ c.caret_pos <= Len(input)
    BY <1>1, <2>2, <2>3
  <2>6. LET e == Compose(erased)
        IN  /\ Good(e) /\ e.schema = c.schema /\ e.out = c.out
            /\ e.input = input /\ e.caret_pos = c.caret_pos
    BY <1>1, <2>3, <2>4, <2>5, RelinedGood
  <2>. QED
    BY <2>1, <2>2, <2>6 DEF Done, input
<1>. QED
  BY <1>2, <1>3

\* A context with other segments, composed again
LEMMA ResegmentedGood ==
  ASSUME NEW c, Good(c), NEW segs, Shaped(segs, c.comp.input, Bound(c)), Open(segs)
  PROVE  LET d == Compose([c EXCEPT !.comp.segs = segs]) IN Good(d) /\ SameLine(d, c)
<1> DEFINE cut == [c EXCEPT !.comp.segs = segs]
<1>1. CtxType(c) /\ segs \in Seq(Segment) /\ OutOK(c)
  BY GoodFacts DEF Shaped
<1>2. /\ CtxType(cut) /\ SameLine(cut, c) /\ Bound(cut) = Bound(c)
      /\ cut.comp \in Comps /\ cut.comp.segs = segs /\ cut.comp.input = c.comp.input
  BY <1>1, WithSegs
<1>. HIDE DEF cut
<1>3. Composable(cut) /\ OutOK(cut)
  BY <1>1, <1>2 DEF Composable, OutOK, SameLine
<1>4. LET d == Compose(cut) IN Good(d) /\ SameLine(d, cut)
  BY <1>3, ComposesGood
<1>. QED
  BY <1>2, <1>4 DEF SameLine, cut

LEMMA ReopenPreviousSegmentIs ==
  ASSUME NEW c, Good(c)
  PROVE  LET r == ReopenPreviousSegment(c)
         IN  Good(r.c) /\ SameLine(r.c, c) /\ r.ok \in BOOLEAN /\ (~r.ok => r.c = c)
<1> DEFINE n == Len(c.comp.segs)
           trimmed == SubSeq(c.comp.segs, 1, n - 1)
           last == Reopen(Last(trimmed), c.caret_pos)
           segs == IF trimmed = <<>> THEN trimmed ELSE SetLast(trimmed, last)
           max == Bound(c)
           input == c.comp.input
<1>1. CASE ~CanTrim(c.comp)
  BY <1>1 DEF ReopenPreviousSegment, Fail, SameLine
<1>2. CASE CanTrim(c.comp)
  <2>1. /\ c.comp.segs # <<>> /\ n \in Nat \ {0} /\ max \in Nat
        /\ Shaped(c.comp.segs, input, max) /\ c.comp.segs \in Seq(Segment)
    BY <1>2, GoodFacts DEF CanTrim, CompOK
  <2>2. ReopenPreviousSegment(c) = Done(Compose([c EXCEPT !.comp.segs = segs]))
    BY <1>2 DEF ReopenPreviousSegment, Front
  <2>3. Cut(trimmed, c.comp.segs, n - 1) /\ n - 1 \in 0..n
    <3>1. n - 1 \in 0..n
      BY <2>1
    <3>. QED
      BY <2>1, <3>1, SubSeqCuts
  <2>. HIDE DEF trimmed
  <2>4. Shaped(trimmed, input, max)
    BY <2>1, <2>3, Prefix
  <2>. HIDE DEF input, max
  <2>5. Shaped(segs, input, max) /\ Open(segs)
    <3>1. CASE trimmed = <<>>
      BY <2>4, <3>1 DEF Open
    <3>2. CASE trimmed # <<>>
      <4>1. /\ trimmed \in Seq(Segment) /\ Len(trimmed) \in 1..Len(trimmed)
            /\ Last(trimmed) = trimmed[Len(trimmed)]
        BY <2>4, <3>2, LastIs DEF Shaped
      <4>2. SegmentOK(Last(trimmed), input, max)
        BY <2>4, <4>1 DEF Shaped
      <4>3. /\ SegmentOK(last, input, max) /\ ~IsSelected(last) /\ last.start = Last(trimmed).start
            /\ IsEmpty(last) => IsEmpty(Last(trimmed))
        BY <2>1, <4>2, ReopenIs DEF max
      <4>. HIDE DEF last
      <4>4. Swapped(SetLast(trimmed, last), trimmed, last)
        BY <3>2, <4>1, <4>3, SetLastSwaps DEF SegmentOK
      <4> DEFINE other == SetLast(trimmed, last)
      <4>. HIDE DEF other
      <4>5. Swapped(other, trimmed, last)
        BY <4>4 DEF other
      <4>6. Shaped(other, input, max) /\ other # <<>> /\ Last(other) = last
        BY <2>4, <3>2, <4>3, <4>5, Replaced
      <4>7. segs = other
        BY <3>2 DEF other
      <4>. HIDE DEF segs
      <4>. QED
        BY <4>3, <4>6, <4>7 DEF Open
    <3>. QED
      BY <3>1, <3>2
  <2>. HIDE DEF segs
  <2>6. LET d == Compose([c EXCEPT !.comp.segs = segs]) IN Good(d) /\ SameLine(d, c)
    BY <2>5, ResegmentedGood DEF input, max
  <2>. QED
    BY <2>2, <2>6 DEF Done
<1>. QED
  BY <1>1, <1>2

LEMMA ReopenPreviousSelectionIs ==
  ASSUME NEW c, Good(c)
  PROVE  LET r == ReopenPreviousSelection(c)
         IN  Good(r.c) /\ SameLine(r.c, c) /\ r.ok \in BOOLEAN /\ (~r.ok => r.c = c)
<1> DEFINE latest == LastSelected(c.comp.segs)
           seg == c.comp.segs[latest]
           k == latest - 1
           front == SubSeq(c.comp.segs, 1, k)
           last == Reopen(seg, c.caret_pos)
           segs == Append(front, last)
           max == Bound(c)
           input == c.comp.input
           refused == \/ latest = 0
                      \/ seg.status > kSelected
                      \/ "selected_before_editing" \in seg.tags
<1>1. CASE refused
  BY <1>1 DEF ReopenPreviousSelection, Fail, SameLine
<1>2. CASE ~refused
  <2>1. /\ Len(c.comp.segs) \in Nat /\ max \in Nat
        /\ Shaped(c.comp.segs, input, max) /\ c.comp.segs \in Seq(Segment)
    BY GoodFacts DEF CompOK
  <2>2. latest \in 0..Len(c.comp.segs) /\ (latest > 0 => IsSelected(c.comp.segs[latest]))
    BY <2>1, LastSelectedIs
  <2>3. latest \in 1..Len(c.comp.segs) /\ latest \in Nat /\ latest > 0
    BY <1>2, <2>1, <2>2
  <2>4. ReopenPreviousSelection(c) = Done(Compose([c EXCEPT !.comp.segs = segs]))
    BY <1>2 DEF ReopenPreviousSelection
  <2>5. SegmentOK(seg, input, max) /\ IsSelected(seg) /\ seg.start = (IF latest = 1 THEN 0 ELSE c.comp.segs[latest - 1].end)
    BY <2>1, <2>2, <2>3 DEF Shaped, Tiled
  <2>. HIDE DEF latest
  <2>6. k \in 0..Len(c.comp.segs) /\ k < Len(c.comp.segs) /\ (k = 0 <=> latest = 1) /\ k \in Nat
    BY <2>1, <2>3
  <2>7. Cut(front, c.comp.segs, k)
    BY <2>1, <2>6, SubSeqCuts
  <2>7a. seg.start = IF k = 0 THEN 0 ELSE c.comp.segs[k].end
    BY <2>5, <2>6
  <2>. HIDE DEF front, seg, max, input, refused, k
  <2>8. /\ Shaped(front, input, max) /\ Whole(front)
        /\ k > 0 => front # <<>> /\ Last(front) = c.comp.segs[k]
        /\ k = 0 => front = <<>>
    BY <2>1, <2>6, <2>7, Prefix
  <2>9. seg.start = EndOf(front)
    BY <2>6, <2>7a, <2>8 DEF EndOf
  <2>10. ~IsEmpty(seg)
    <3>1. seg.start < seg.end /\ seg.start \in Nat /\ seg.end \in Nat
      BY <2>5, SegmentType1 DEF SegmentOK, Offers
    <3>. QED
      BY <3>1 DEF IsEmpty
  <2>11. /\ SegmentOK(last, input, max) /\ ~IsSelected(last) /\ last.start = seg.start
         /\ IsEmpty(last) => IsEmpty(seg)
    BY <2>1, <2>5, ReopenIs
  <2>. HIDE DEF last
  <2>12. Grown(segs, front, last)
    BY <2>8, <2>11, AppendGrows DEF Shaped, SegmentOK
  <2>. HIDE DEF segs
  <2>13. Shaped(segs, input, max) /\ segs # <<>> /\ Last(segs) = last
    BY <2>8, <2>9, <2>10, <2>11, <2>12, Extended
  <2>14. Open(segs)
    BY <2>11, <2>13 DEF Open
  <2>15. LET d == Compose([c EXCEPT !.comp.segs = segs]) IN Good(d) /\ SameLine(d, c)
    BY <2>13, <2>14, ResegmentedGood DEF input, max
  <2>. QED
    BY <2>4, <2>15 DEF Done
<1>. QED
  BY <1>1, <1>2

LEMMA ClearPreviousSegmentIs ==
  ASSUME NEW c, Good(c)
  PROVE  LET r == ClearPreviousSegment(c)
             d == r.c
         IN  /\ Good(d) /\ d.schema = c.schema /\ r.ok \in BOOLEAN
             /\ ~r.ok => d = c
             /\ r.ok => \E n \in 0..Len(c.input) :
                          n < Len(c.input) /\ d.input = SubString(c.input, 0, n) /\ d.caret_pos = n
<1> DEFINE start == CurrentStart(c.comp)
           value == SubString(c.input, 0, start)
           cut == [c EXCEPT !.input = value, !.caret_pos = Len(value)]
<1>1. /\ CtxType(c) /\ Bound(c) \in Nat /\ c.input \in Seq(Chars) /\ Len(c.input) \in Nat
      /\ Len(c.input) <= Bound(c) /\ CompOK(c.comp, Bound(c))
  BY GoodFacts
<1>2. CASE c.comp.segs = <<>> \/ start >= Len(c.input)
  BY <1>2 DEF ClearPreviousSegment, Fail
<1>3. CASE ~(c.comp.segs = <<>> \/ start >= Len(c.input))
  <2>1. ClearPreviousSegment(c) = Done(Compose(cut))
    BY <1>3 DEF ClearPreviousSegment, set_input
  <2>2. start \in Nat
    BY <1>1, CompFacts
  <2>3. start < Len(c.input) /\ start <= Len(c.input)
    BY <1>1, <1>3, <2>2
  <2>. HIDE DEF start
  <2>4. value \in Seq(Chars) /\ Len(value) = start
    <3>1. value \in Seq(Chars) /\ Len(value) = IF 0 < start THEN start - 0 ELSE 0
      BY <1>1, <2>2, <2>3, SubStringIs
    <3>. HIDE DEF value
    <3>. QED
      BY <2>2, <3>1
  <2>. HIDE DEF value
  <2>5. cut \in [schema : {c.schema}, input : {value}, caret_pos : {start}, comp : {c.comp}, out : {c.out}]
    BY <1>1, <2>4 DEF CtxType
  <2>. HIDE DEF cut
  <2>6. Relined(cut, c, value, start)
    BY <2>5 DEF Relined
  <2>7. value \in Seq(Chars) /\ Len(value) <= Bound(c) /\ start \in Nat /\ start <= Len(value)
    BY <1>1, <2>2, <2>3, <2>4
  <2>8. LET e == Compose(cut)
        IN  /\ Good(e) /\ e.schema = c.schema /\ e.out = c.out
            /\ e.input = value /\ e.caret_pos = start
    BY <2>6, <2>7, RelinedGood
  <2>9. start \in 0..Len(c.input)
    BY <1>1, <2>2, <2>3
  <2>. QED
    BY <2>1, <2>3, <2>8, <2>9 DEF Done, value
<1>. QED
  BY <1>2, <1>3

LEMMA ClearNonConfirmedIs ==
  ASSUME NEW c, Good(c)
  PROVE  LET d == ClearNonConfirmedComposition(c)
         IN  /\ Composable(d) /\ CompOK(d.comp, Bound(d)) /\ Offered(d.comp.segs) /\ OutOK(d)
             /\ SameLine(d, c) /\ d.comp.input = c.comp.input
<1> DEFINE kept == LastSelected(c.comp.segs)
           front == SubSeq(c.comp.segs, 1, kept)
           cut == [c.comp EXCEPT !.segs = front]
           comp == Forward(cut)
           d == [c EXCEPT !.comp = comp]
           max == Bound(c)
<1>1. /\ CtxType(c) /\ CompOK(c.comp, max) /\ Offered(c.comp.segs) /\ OutOK(c) /\ max \in Nat
      /\ c.comp \in Comps /\ c.comp.segs \in Seq(Segment) /\ Len(c.comp.segs) \in Nat
  BY GoodFacts
<1>2. CASE kept = Len(c.comp.segs)
  BY <1>2, GoodFacts DEF ClearNonConfirmedComposition, SameLine
<1>3. CASE kept # Len(c.comp.segs)
  <2>1. ClearNonConfirmedComposition(c) = d
    BY <1>3 DEF ClearNonConfirmedComposition
  <2>2. kept \in 0..Len(c.comp.segs)
    BY <1>1, LastSelectedIs
  <2>3. Cut(front, c.comp.segs, kept)
    BY <1>1, <2>2, SubSeqCuts
  <2>. HIDE DEF kept, front
  <2>4. Shaped(front, c.comp.input, max) /\ Len(front) = kept /\ \A i \in 1..kept : front[i] = c.comp.segs[i]
    BY <1>1, <2>2, <2>3, Prefix DEF CompOK
  <2>5. Recut(cut, c.comp, front)
    BY <1>1, <2>4, SetSegs DEF Shaped
  <2>. HIDE DEF cut, max
  <2>6. CompOK(cut, max) /\ Offered(cut.segs)
    <3>1. Within(front, Len(c.comp.input)) /\ Offered(front) /\ Len(c.comp.input) <= max
      <4>1. \A i \in 1..Len(front) : i \in 1..Len(c.comp.segs) /\ front[i] = c.comp.segs[i]
        BY <1>1, <2>2, <2>4
      <4>2. Within(c.comp.segs, Len(c.comp.input)) /\ Len(c.comp.input) <= max
        BY <1>1 DEF CompOK
      <4>3. Within(front, Len(c.comp.input))
        BY <4>1, <4>2 DEF Within
      <4>4. Offered(front)
        BY <1>1, <4>1 DEF Offered
      <4>. QED
        BY <4>2, <4>3, <4>4
    <3>. QED
      BY <2>4, <2>5, <3>1 DEF CompOK, Recut
  <2>7. CompOK(comp, max) /\ Open(comp.segs) /\ Offered(comp.segs) /\ comp.input = cut.input
    BY <1>1, <2>6, ForwardIs, ForwardOffers
  <2>. HIDE DEF comp
  <2>8. comp \in Comps /\ Len(comp.input) <= Bound(c)
    BY <2>7 DEF CompOK, max
  <2>9. CtxType(d) /\ SameLine(d, c) /\ d.comp = comp /\ Bound(d) = Bound(c)
    BY <1>1, <2>8, WithComp
  <2>. HIDE DEF d
  <2>10. /\ Composable(d) /\ CompOK(d.comp, Bound(d)) /\ Offered(d.comp.segs) /\ OutOK(d)
         /\ d.comp.input = c.comp.input
    BY <1>1, <2>5, <2>7, <2>9 DEF Composable, CompOK, OutOK, SameLine, Recut, max
  <2>. QED
    BY <2>1, <2>9, <2>10
<1>. QED
  BY <1>2, <1>3

LEMMA RefreshIs ==
  ASSUME NEW c, Good(c)
  PROVE  LET d == RefreshNonConfirmedComposition(c) IN Good(d) /\ SameLine(d, c)
<1> DEFINE cleared == ClearNonConfirmedComposition(c)
<1>1. Composable(cleared) /\ OutOK(cleared) /\ SameLine(cleared, c)
  BY ClearNonConfirmedIs
<1>. HIDE DEF cleared
<1>2. LET d == Compose(cleared) IN Good(d) /\ SameLine(d, cleared)
  BY <1>1, ComposesGood
<1>3. SameLine(c, c)
  BY DEF SameLine
<1>4. RefreshNonConfirmedComposition(c) \in {c, Compose(cleared)}
  BY DEF RefreshNonConfirmedComposition, cleared
<1>. QED
  BY <1>1, <1>2, <1>3, <1>4 DEF SameLine

\* The highlight is on another candidate.
LEMMA HighlightIs ==
  ASSUME NEW c, Good(c), c.comp.segs # <<>>, NEW index \in Nat
  PROVE  LET d == [c EXCEPT !.comp.segs = SetLast(@, [Last(@) EXCEPT !.selected_index = index])]
         IN  Good(d) /\ SameLine(d, c)
<1> DEFINE last == Last(c.comp.segs)
           next == [last EXCEPT !.selected_index = index]
           d == [c EXCEPT !.comp.segs = SetLast(@, next)]
           max == Bound(c)
           input == c.comp.input
<1>1. /\ CompOK(c.comp, max) /\ Offered(c.comp.segs) /\ OutOK(c) /\ Lined(c) /\ max \in Nat
      /\ SegmentOK(last, input, max) /\ last \in Segment /\ ~IsSelected(last)
      /\ last.status = kVoid => last.menu = <<>> /\ IsEmpty(last)
  BY GoodFacts
<1>2. [c EXCEPT !.comp.segs = SetLast(@, [Last(@) EXCEPT !.selected_index = index])] = d
  OBVIOUS
<1>3. last.end <= Len(input)
  BY <1>1, CompFacts
<1>. HIDE DEF last, input, max
<1>4. /\ next \in Segment /\ next.selected_index = index /\ next.status = last.status
      /\ next.start = last.start /\ next.end = last.end /\ next.length = last.length
      /\ next.tags = last.tags /\ next.menu = last.menu
  BY <1>1 DEF Segment
<1>. HIDE DEF next
<1>5. OriginalEnd(next) = OriginalEnd(last) /\ ~IsSelected(next)
  BY <1>1, <1>4 DEF OriginalEnd, IsSelected
<1>6. Offers(next) /\ RawOK(next, input)
  BY <1>1, <1>4, <1>5 DEF SegmentOK, Offers, RawOK
<1>7. SegmentOK(next, input, max)
  BY <1>1, <1>4, <1>5, <1>6 DEF SegmentOK
<1>8. LastIsIn(d, c, next)
  BY <1>4, SwapsIn
<1>. HIDE DEF d
<1>9. /\ CtxType(d) /\ SameLine(d, c) /\ Bound(d) = Bound(c)
      /\ Recut(d.comp, c.comp, d.comp.segs) /\ Swapped(d.comp.segs, c.comp.segs, next)
  BY <1>8, CtxFacts DEF LastIsIn, Recut
<1>10. IsEmpty(next) <=> IsEmpty(last)
  BY <1>4 DEF IsEmpty
<1>11. /\ CompOK(d.comp, max) /\ Offered(d.comp.segs) /\ d.comp.segs # <<>> /\ Last(d.comp.segs) = next
  BY <1>1, <1>3, <1>4, <1>7, <1>9, <1>10, SwapIs DEF input, last
<1>12. Lined(d)
  <2>1. CurrentEnd(d.comp) = CurrentEnd(c.comp)
    BY <1>4, <1>11 DEF CurrentEnd, last
  <2>. QED
    BY <1>1, <1>9, <2>1, LinedStays DEF Recut
<1>13. Good(d)
  BY <1>1, <1>5, <1>9, <1>11, <1>12 DEF Good, Settled, Open, OutOK, SameLine, max
<1>. QED
  BY <1>2, <1>9, <1>13

-----------------------------------------------------------------------------
(* The handlers of the editor *)

LEMMA ConfirmIs ==
  ASSUME NEW c, Good(c)
  PROVE  LET d == Confirm(c) IN Good(d) /\ d.schema = c.schema /\ Taken(d, c)
<1> DEFINE r == ConfirmCurrentSelection(c)
<1>1. Confirm(c) = IF r.ok THEN r.c ELSE Commit(r.c)
  BY DEF Confirm, FirstOf, OrElse, CommitDone, Done
<1>2. /\ r.ok \in BOOLEAN
      /\ (r.ok \/ c.comp.segs = <<>>) => Good(r.c) /\ r.c.schema = c.schema /\ Taken(r.c, c)
      /\ ~r.ok => \/ c.comp.segs = <<>>
                  \/ CtxType(r.c) /\ Spelled(r.c.comp) /\ IsComposing(r.c) /\ r.c.schema = c.schema
  BY ConfirmCurrentSelectionIs
<1>. HIDE DEF r
<1>3. CASE r.ok
  BY <1>1, <1>2, <1>3
<1>4. CASE ~r.ok
  <2>1. LET d == Commit(r.c) IN Good(d) /\ d.schema = r.c.schema /\ Emptied(d)
    BY <1>2, <1>4, CommitIs, CommitsSpelled
  <2>2. r.c.schema = c.schema
    BY <1>2, <1>4
  <2>. QED
    BY <1>1, <1>4, <2>1, <2>2 DEF Taken
<1>. QED
  BY <1>3, <1>4

LEMMA CommitCompositionIs ==
  ASSUME NEW c, Good(c)
  PROVE  LET d == CommitComposition(c) IN Good(d) /\ d.schema = c.schema /\ Taken(d, c)
<1> DEFINE r == ConfirmCurrentSelection(c)
<1>1. CommitComposition(c) = IF r.ok /\ HasMenu(r.c) THEN r.c ELSE Commit(r.c)
  BY DEF CommitComposition, CommitUnlessMenu
<1>2. /\ r.ok \in BOOLEAN
      /\ (r.ok \/ c.comp.segs = <<>>) => Good(r.c) /\ r.c.schema = c.schema /\ Taken(r.c, c)
      /\ ~r.ok => \/ c.comp.segs = <<>>
                  \/ CtxType(r.c) /\ Spelled(r.c.comp) /\ IsComposing(r.c) /\ r.c.schema = c.schema
  BY ConfirmCurrentSelectionIs
<1>. HIDE DEF r
<1>3. CASE r.ok /\ HasMenu(r.c)
  BY <1>1, <1>2, <1>3
<1>4. CASE ~(r.ok /\ HasMenu(r.c))
  <2>1. LET d == Commit(r.c) IN Good(d) /\ d.schema = r.c.schema /\ Emptied(d)
    BY <1>2, CommitIs, CommitsSpelled
  <2>2. r.c.schema = c.schema
    BY <1>2
  <2>. QED
    BY <1>1, <1>4, <2>1, <2>2 DEF Taken
<1>. QED
  BY <1>3, <1>4

LEMMA CommitRawInputIs ==
  ASSUME NEW c, Good(c)
  PROVE  LET d == CommitRawInput(c) IN Good(d) /\ d.schema = c.schema /\ Emptied(d)
<1> DEFINE cleared == ClearNonConfirmedComposition(c)
<1>1. /\ Composable(cleared) /\ CompOK(cleared.comp, Bound(cleared)) /\ Offered(cleared.comp.segs)
      /\ OutOK(cleared) /\ SameLine(cleared, c) /\ cleared.comp.input = c.comp.input
  BY ClearNonConfirmedIs
<1>2. CommitRawInput(c) = Commit(cleared)
  BY DEF CommitRawInput
<1>. HIDE DEF cleared
<1>3. LET d == Commit(cleared) IN Good(d) /\ d.schema = cleared.schema /\ Emptied(d)
  <2>1. CASE IsComposing(cleared)
    <3>1. CtxType(cleared) /\ Bound(cleared) \in Nat
      BY <1>1, CtxFacts DEF Composable
    <3>2. Spelled(cleared.comp)
      BY <1>1, <3>1, SpelledIs
    <3>. QED
      BY <2>1, <3>1, <3>2, CommitsSpelled
  <2>2. CASE ~IsComposing(cleared)
    <3>1. cleared.input = <<>> /\ cleared.comp.segs = <<>> /\ c.input = <<>>
      BY <1>1, <2>2 DEF IsComposing, SameLine
    <3>2. CurrentEnd(cleared.comp) = 0 /\ Len(cleared.input) = 0
      BY <3>1 DEF CurrentEnd
    <3>3. c.caret_pos = Len(c.input) /\ Lined(c)
      BY <3>1, GoodFacts
    <3>4. Lined(cleared)
      BY <1>1, <3>2, <3>3 DEF Lined, SameLine
    <3>5. Good(cleared)
      BY <1>1, <3>4 DEF Good, Settled, Composable
    <3>. QED
      BY <3>5, CommitIs
  <2>. QED
    BY <2>1, <2>2
<1>. QED
  BY <1>1, <1>2, <1>3 DEF SameLine

\* What the line is after an edit: what it was, or shorter before the caret
Shortened(d, c) ==
  \/ d.input = c.input /\ d.caret_pos = c.caret_pos
  \/ \E len \in 1..c.caret_pos :
       d.input = Erase(c.input, c.caret_pos - len, len) /\ d.caret_pos = c.caret_pos - len

LEMMA PopShortens ==
  ASSUME NEW c, Good(c), NEW len \in Nat \ {0}
  PROVE  LET d == PopInput(c, len).c IN Good(d) /\ d.schema = c.schema /\ Shortened(d, c)
<1> DEFINE r == PopInput(c, len)
<1>1. /\ Good(r.c) /\ r.c.schema = c.schema /\ r.ok \in BOOLEAN
      /\ ~r.ok => r.c = c
      /\ r.ok => /\ len <= c.caret_pos
                 /\ r.c.input = Erase(c.input, c.caret_pos - len, len)
                 /\ r.c.caret_pos = c.caret_pos - len
  BY PopInputIs
<1>. HIDE DEF r
<1>2. c.caret_pos \in Nat
  BY GoodFacts
<1>3. CASE r.ok
  <2>1. len \in 1..c.caret_pos
    BY <1>1, <1>2, <1>3
  <2>. QED
    BY <1>1, <1>3, <2>1 DEF Shortened, r
<1>4. CASE ~r.ok
  BY <1>1, <1>4 DEF Shortened, r
<1>. QED
  BY <1>3, <1>4

LEMMA PopThenReopens ==
  ASSUME NEW c, Good(c), NEW len \in Nat \ {0}
  PROVE  LET d == AndThen(PopInput(c, len), ReopenPreviousSegment).c
         IN  Good(d) /\ d.schema = c.schema /\ Shortened(d, c)
<1> DEFINE r == PopInput(c, len)
           d == AndThen(r, ReopenPreviousSegment).c
<1>1. Good(r.c) /\ r.c.schema = c.schema /\ Shortened(r.c, c)
  BY PopShortens
<1>2. d \in {r.c, ReopenPreviousSegment(r.c).c}
  BY DEF AndThen
<1>. HIDE DEF r, d
<1>3. Good(ReopenPreviousSegment(r.c).c) /\ SameLine(ReopenPreviousSegment(r.c).c, r.c)
  BY <1>1, ReopenPreviousSegmentIs
<1>4. Good(d) /\ d.schema = c.schema /\ d.input = r.c.input /\ d.caret_pos = r.c.caret_pos
  BY <1>1, <1>2, <1>3 DEF SameLine
<1>5. Shortened(d, c)
  BY <1>1, <1>4 DEF Shortened
<1>. QED
  BY <1>4, <1>5 DEF d, r

LEMMA RevertLastEditIs ==
  ASSUME NEW c, Good(c)
  PROVE  LET d == RevertLastEdit(c) IN Good(d) /\ d.schema = c.schema /\ Shortened(d, c)
<1> DEFINE r == ReopenPreviousSelection(c)
           popped == AndThen(PopInput(r.c, 1), ReopenPreviousSegment).c
<1>1. RevertLastEdit(c) = IF r.ok THEN r.c ELSE popped
  BY DEF RevertLastEdit, FirstOf, OrElse, PopAndReopen, PopOne
<1>2. Good(r.c) /\ SameLine(r.c, c) /\ r.ok \in BOOLEAN
  BY ReopenPreviousSelectionIs
<1>3. Good(popped) /\ popped.schema = r.c.schema /\ Shortened(popped, r.c)
  BY <1>2, PopThenReopens
<1>. HIDE DEF r, popped
<1>. QED
  BY <1>1, <1>2, <1>3 DEF SameLine, Shortened

LEMMA BackToPreviousInputIs ==
  ASSUME NEW c, Good(c)
  PROVE  LET d == BackToPreviousInput(c) IN Good(d) /\ d.schema = c.schema /\ Shortened(d, c)
<1> DEFINE r1 == ReopenPreviousSegment(c)
           r2 == ReopenPreviousSelection(r1.c)
           popped == PopInput(r2.c, 1).c
<1>1. BackToPreviousInput(c) \in {r1.c, r2.c, PopInput(r1.c, 1).c, popped}
  BY DEF BackToPreviousInput, OrElse, PopOne
<1>2. Good(r1.c) /\ SameLine(r1.c, c)
  BY ReopenPreviousSegmentIs
<1>3. Good(r2.c) /\ SameLine(r2.c, r1.c)
  BY <1>2, ReopenPreviousSelectionIs
<1> DEFINE early == PopInput(r1.c, 1).c
<1>4. /\ Good(popped) /\ popped.schema = r2.c.schema /\ Shortened(popped, r2.c)
      /\ Good(early) /\ early.schema = r1.c.schema /\ Shortened(early, r1.c)
  BY <1>2, <1>3, PopShortens
<1>. HIDE DEF r1, r2, popped, early
<1>5. BackToPreviousInput(c) \in {r1.c, r2.c, early, popped}
  BY <1>1 DEF early
<1>. QED
  BY <1>2, <1>3, <1>4, <1>5 DEF SameLine, Shortened

LEMMA BackToPreviousSyllableIs ==
  ASSUME NEW c, Good(c), NEW stop \in Nat
  PROVE  LET d == BackToPreviousSyllable(c, stop)
         IN  Good(d) /\ d.schema = c.schema /\ Shortened(d, c)
<1> DEFINE r == ReopenPreviousSelection(c)
           len == IF stop < c.caret_pos THEN c.caret_pos - stop ELSE 1
           popped == AndThen(PopInput(r.c, len), ReopenPreviousSegment).c
<1>1. BackToPreviousSyllable(c, stop) = IF r.ok THEN r.c ELSE popped
  BY DEF BackToPreviousSyllable, PopOne
<1>2. Good(r.c) /\ SameLine(r.c, c) /\ r.ok \in BOOLEAN
  BY ReopenPreviousSelectionIs
<1>3. len \in Nat \ {0}
  BY GoodFacts
<1>. HIDE DEF len
<1>4. Good(popped) /\ popped.schema = r.c.schema /\ Shortened(popped, r.c)
  BY <1>2, <1>3, PopThenReopens
<1>. HIDE DEF r, popped
<1>. QED
  BY <1>1, <1>2, <1>4 DEF SameLine, Shortened

-----------------------------------------------------------------------------
(* Taking a selection back                                                  *)

\* Contexts are equal when their parts are.
LEMMA SameContext ==
  ASSUME NEW c, CtxType(c), NEW d, CtxType(d), SameLine(d, c),
         d.comp.input = c.comp.input, d.comp.segs = c.comp.segs
  PROVE  d = c
<1>1. /\ c \in [schema : Schemas, input : Seq(Chars), caret_pos : Nat, comp : Comps, out : {c.out}]
      /\ d \in [schema : Schemas, input : Seq(Chars), caret_pos : Nat, comp : Comps, out : {d.out}]
  BY DEF CtxType
<1>2. d.comp = c.comp
  <2>1. d.comp \in [input : Seq(Chars), segs : Seq(Segment)] /\ c.comp \in [input : Seq(Chars), segs : Seq(Segment)]
    BY <1>1 DEF Comps
  <2>. QED
    BY <2>1
<1>. QED
  BY <1>1, <1>2 DEF SameLine

\* A finished composition is not segmented again.
LEMMA RoundsOfFinished ==
  ASSUME NEW comp, Len(comp.input) \in Nat, HasFinishedSegmentation(comp), NEW caret_pos
  PROVE  Rounds(comp, caret_pos) = comp
<1> DEFINE N == Len(comp.input) + 1
           first == [comp |-> comp, going |-> TRUE]
<1>1. PICK f : /\ f[0] = first
               /\ \A n \in 1..N : f[n] = Pass(f[n - 1], caret_pos)
               /\ Rounds(comp, caret_pos) = f[N].comp
  BY RoundsAre
<1>2. Pass(first, caret_pos) = first
  BY DEF Pass
<1>3. first.comp = comp
  OBVIOUS
<1>4. N \in Nat
  OBVIOUS
<1>. HIDE DEF first, N
<1> DEFINE S == {n \in 0..N : f[n] # first}
<1>5. S = {}
  <2>1. SUFFICES ASSUME S # {} PROVE FALSE
    OBVIOUS
  <2>2. S \in SUBSET Nat
    BY <1>4
  <2>3. PICK n \in S : \A m \in S : n <= m
    <3>. HIDE DEF S
    <3>. QED
      BY <2>1, <2>2, LeastNumber
  <2>4. n \in 1..N /\ n - 1 \in 0..N /\ ~(n <= n - 1) /\ f[n] # first
    BY <1>1, <1>4, <2>3
  <2>5. f[n - 1] = first
    BY <2>3, <2>4
  <2>. QED
    BY <1>1, <1>2, <2>4, <2>5
<1>6. f[N] = first
  BY <1>4, <1>5
<1>. QED
  BY <1>1, <1>3, <1>6

\* With the caret at the end and nothing empty, composing again changes nothing.
LEMMA ComposeSame ==
  ASSUME NEW c, Good(c), c.caret_pos = Len(c.input), c.comp.segs # <<>>, Whole(c.comp.segs)
  PROVE  Compose(c) = c
<1> DEFINE comp == c.comp
           segs == c.comp.segs
           input == c.comp.input
           before == SubString(c.input, 0, c.caret_pos)
<1>1. /\ CtxType(c) /\ CompOK(comp, Bound(c)) /\ Open(segs) /\ Offered(segs)
      /\ Bound(c) \in Nat /\ c.input \in Seq(Chars) /\ Len(c.input) \in Nat /\ c.caret_pos \in Nat
      /\ comp \in Comps /\ segs \in Seq(Segment) /\ Len(segs) \in Nat \ {0} /\ Last(segs) = segs[Len(segs)]
      /\ Last(segs) \in Segment
      /\ ~IsSelected(Last(segs)) /\ input = c.input /\ CurrentEnd(comp) = Len(c.input)
  BY GoodFacts DEF Lined
<1>2. before = input
  BY <1>1, LineStart
<1>3. ResetInput(comp, before) = comp
  <2> DEFINE pos == DiffPos(input, input)
             kept == Remaining(segs, pos)
  <2>1. pos = Len(input)
    <3>1. pos \in 0..Len(input) /\ (Len(input) \in 0..Len(input) /\ Len(input) <= Len(input) => Len(input) <= pos)
      BY <1>1, DiffPosIs
    <3>. QED
      BY <1>1, <3>1
  <2>2. kept = Len(segs)
    <3>1. /\ kept \in 0..Len(segs)
          /\ \A i \in 1..Len(segs) : segs[i].end <= pos => i <= kept
      BY <1>1, RemainingIs
    <3>2. Len(segs) \in 1..Len(segs) /\ segs[Len(segs)].end <= pos
      BY <1>1, <2>1 DEF CompOK, Within
    <3>. HIDE DEF kept
    <3>. QED
      BY <1>1, <3>1, <3>2
  <2>3. ResetInput(comp, before) = [comp EXCEPT !.input = input]
    BY <1>1, <1>2, <2>2 DEF ResetInput
  <2>4. [comp EXCEPT !.input = input] = comp
    BY <1>1 DEF Comps
  <2>. QED
    BY <2>3, <2>4
<1>4. ExtendPastCaret(comp, c) = comp
  BY <1>1 DEF ExtendPastCaret
<1>5. CalculateSegmentation(comp, c.caret_pos) = comp
  <2>1. Rounds(comp, c.caret_pos) = comp
    BY <1>1, RoundsOfFinished DEF HasFinishedSegmentation
  <2>2. Trim(comp) = comp
    <3>1. CurrentLength(comp) # 0
      BY <1>1, CompFacts DEF Whole
    <3>. QED
      BY <3>1 DEF Trim, CanTrim
  <2>3. ForwardIfSelected(comp) = comp
    BY <1>1 DEF ForwardIfSelected
  <2>. QED
    BY <2>1, <2>2, <2>3 DEF CalculateSegmentation
<1>6. TranslateSegments(comp) = comp
  <2>1. ASSUME NEW i \in 1..Len(segs) PROVE Translated(input, segs[i]) = segs[i]
    <3>1. ~IsEmpty(segs[i])
      BY <1>1 DEF Whole, CompOK, Shaped, Tiled
    <3>2. segs[i].status # kVoid
      BY <1>1, <3>1 DEF Offered
    <3>3. segs[i].status >= kGuess
      <4>1. segs[i] \in Segment
        BY <1>1
      <4>2. segs[i].status \in 0..3
        BY <4>1, SegmentType1
      <4>. QED
        BY <3>2, <4>2, Statuses
    <3>. QED
      BY <3>3 DEF Translated
  <2> DEFINE next == [i \in DOMAIN segs |-> Translated(input, segs[i])]
  <2>2. next = segs
    <3>1. DOMAIN segs = 1..Len(segs) /\ segs = [i \in 1..Len(segs) |-> segs[i]]
      BY <1>1
    <3>. QED
      BY <2>1, <3>1
  <2>3. TranslateSegments(comp) = [comp EXCEPT !.segs = next]
    BY DEF TranslateSegments
  <2>. HIDE DEF next
  <2>4. [comp EXCEPT !.segs = segs] = comp
    BY <1>1 DEF Comps
  <2>. QED
    BY <2>2, <2>3, <2>4
<1>7. Compose(c) = [c EXCEPT !.comp = comp]
  BY <1>3, <1>4, <1>5, <1>6 DEF Compose
<1>8. [c EXCEPT !.comp = comp] = c
  BY <1>1 DEF CtxType
<1>. QED
  BY <1>7, <1>8

Lit(seg, index) == [seg EXCEPT !.selected_index = index]

Picked(seg, index) == [seg EXCEPT !.selected_index = index, !.status = kSelected]

\* c with another candidate highlighted, and with other segments
Highlit(c, index) == [c EXCEPT !.comp.segs = SetLast(@, Lit(Last(c.comp.segs), index))]

Resegmented(c, segs) == [c EXCEPT !.comp.segs = segs]

\* What UndoRestores asks of the last segment
Undoable(c, index) ==
  /\ c.comp.segs # <<>> /\ c.caret_pos = Len(c.input)
  /\ OriginalEnd(Last(c.comp.segs)) = Last(c.comp.segs).end
  /\ "selected_before_editing" \notin Last(c.comp.segs).tags
  /\ index \in 0..(Len(Last(c.comp.segs).menu) - 1)

LEMMA UndoableIs ==
  ASSUME NEW c, Good(c), NEW index, Undoable(c, index)
  PROVE  LET seg == Last(c.comp.segs)
         IN  /\ seg \in Segment /\ seg.status = kGuess /\ ~IsEmpty(seg) /\ index \in Nat
             /\ "raw" \notin seg.tags /\ "partial" \notin seg.tags
             /\ seg.start \in Nat /\ seg.menu[index + 1] \in Nat
             /\ index < Len(seg.menu) /\ seg.start < seg.menu[index + 1] /\ seg.menu[index + 1] <= seg.end
             /\ c.comp.input = c.input /\ seg.end = Len(c.input)
<1> DEFINE seg == Last(c.comp.segs)
<1>1. /\ c.comp.segs # <<>> /\ c.caret_pos = Len(c.input) /\ OriginalEnd(seg) = seg.end
      /\ index \in 0..(Len(seg.menu) - 1)
  BY DEF Undoable
<1>2. /\ seg \in Segment /\ ~IsSelected(seg) /\ SegmentOK(seg, c.comp.input, Bound(c))
      /\ seg.status = kVoid => seg.menu = <<>>
      /\ c.comp.input = c.input /\ CurrentEnd(c.comp) = Len(c.input)
  BY <1>1, GoodFacts DEF Lined
<1>3. seg.end = Len(c.input)
  BY <1>1, <1>2 DEF CurrentEnd
<1>. HIDE DEF seg
<1>4. /\ seg.status \in 0..3 /\ seg.start \in Nat /\ seg.end \in Nat /\ seg.menu \in Seq(Nat)
  BY <1>2, SegmentType1
<1>5. Len(seg.menu) \in Nat /\ index \in Nat /\ index < Len(seg.menu) /\ index + 1 \in DOMAIN seg.menu
  BY <1>1, <1>4
<1>6. seg.menu # <<>>
  BY <1>5, EmptySeq
<1>7. seg.status = kGuess
  BY <1>2, <1>4, <1>6, Statuses DEF IsSelected
<1>8. seg.start < seg.menu[index + 1] /\ seg.menu[index + 1] <= seg.end /\ seg.menu[index + 1] \in Nat
  BY <1>2, <1>4, <1>5, <1>7 DEF SegmentOK, Offers
<1>9. ~IsEmpty(seg)
  BY <1>4, <1>8 DEF IsEmpty
<1>10. "raw" \notin seg.tags
  BY <1>2, <1>6 DEF SegmentOK, RawOK
<1>11. "partial" \notin seg.tags
  BY <1>1, <1>2, <1>4, <1>10 DEF SegmentOK, Offers
<1>. QED
  BY <1>2, <1>3, <1>4, <1>5, <1>7, <1>8, <1>9, <1>10, <1>11 DEF seg

\* Reopened, the segment is what it was, with another candidate highlighted.
LEMMA ReopenRestores ==
  ASSUME NEW seg \in Segment, seg.status = kGuess, OriginalEnd(seg) = seg.end,
         "partial" \notin seg.tags, NEW index \in Nat, index < Len(seg.menu),
         seg.menu[index + 1] \in Nat, seg.menu[index + 1] <= seg.end,
         NEW status \in {kSelected, kConfirmed}
  PROVE  LET next == [Close(Picked(seg, index)) EXCEPT !.status = status]
         IN  Reopen(next, seg.end) = Lit(seg, index)
<1> DEFINE end == seg.menu[index + 1]
           more == seg.tags \cup {"partial"}
           picked == Picked(seg, index)
           closed == Close(picked)
           next == [closed EXCEPT !.status = status]
           lit == Lit(seg, index)
<1>1. /\ seg.start \in Nat /\ seg.end \in Nat /\ seg.length \in Nat /\ seg.start + seg.length = seg.end
      /\ seg.tags \in SUBSET Tags /\ kGuess = 1 /\ status >= kSelected
  BY SegmentType1, Statuses DEF OriginalEnd
<1>2. more \ {"partial"} = seg.tags
  OBVIOUS
<1>3. /\ HasCandidate(picked) /\ CandidateEnd(picked) = end
      /\ picked.end = seg.end /\ picked.tags = seg.tags
  BY DEF HasCandidate, CandidateEnd, Picked, Segment
<1>4. CASE end < seg.end
  <2>1. closed = [picked EXCEPT !.end = end, !.tags = more]
    BY <1>3, <1>4 DEF Close
  <2>. HIDE DEF end, more, closed
  <2>2. next = [seg EXCEPT !.selected_index = index, !.status = status, !.end = end, !.tags = more]
    BY <2>1 DEF Picked, Segment
  <2>3. /\ next.status = status /\ next.start = seg.start /\ next.length = seg.length
        /\ next.end = end /\ next.tags = more
    BY <2>2 DEF Segment
  <2>4. OriginalEnd(next) = seg.end
    BY <1>1, <2>3 DEF OriginalEnd
  <2>5. ~(next.status < kSelected) /\ next.end < OriginalEnd(next)
    BY <1>1, <1>4, <2>3, <2>4, Statuses
  <2>6. Reopen(next, seg.end) = [next EXCEPT !.end = seg.end, !.tags = seg.tags, !.status = kGuess]
    BY <1>2, <2>3, <2>4, <2>5 DEF Reopen
  <2>7. [next EXCEPT !.end = seg.end, !.tags = seg.tags, !.status = kGuess] = lit
    BY <2>2 DEF Lit, Segment
  <2>. QED
    BY <2>6, <2>7 DEF closed
<1>5. CASE ~(end < seg.end)
  <2>1. closed = picked
    BY <1>3, <1>5 DEF Close
  <2>2. next = [seg EXCEPT !.selected_index = index, !.status = status]
    BY <2>1 DEF Picked, Segment
  <2>3. /\ next.status = status /\ next.start = seg.start /\ next.length = seg.length
        /\ next.end = seg.end
    BY <2>2 DEF Segment
  <2>4. OriginalEnd(next) = seg.end
    BY <1>1, <2>3 DEF OriginalEnd
  <2>5. ~(next.status < kSelected) /\ ~(next.end < OriginalEnd(next))
    BY <1>1, <2>3, <2>4, Statuses
  <2>6. Reopen(next, seg.end) = [next EXCEPT !.status = kGuess]
    BY <2>4, <2>5 DEF Reopen
  <2>7. [next EXCEPT !.status = kGuess] = lit
    BY <2>2 DEF Lit, Segment
  <2>. QED
    BY <2>6, <2>7
<1>. QED
  BY <1>4, <1>5

\* The segment that was picked and closed
LEMMA PickedIs ==
  ASSUME NEW c, Good(c), NEW index, Undoable(c, index)
  PROVE  LET seg == Last(c.comp.segs)
             closed == Close(Picked(seg, index))
             sure == [closed EXCEPT !.status = kConfirmed]
         IN  /\ Chosen(Picked(seg, index), seg, index)
             /\ SegmentOK(closed, c.comp.input, Bound(c)) /\ closed \in Segment
             /\ closed.status = kSelected /\ closed.start = seg.start /\ ~IsEmpty(closed)
             /\ closed.end = seg.menu[index + 1] /\ closed.end <= seg.end
             /\ "raw" \notin closed.tags /\ "selected_before_editing" \notin closed.tags
             /\ SegmentOK(sure, c.comp.input, Bound(c)) /\ sure \in Segment /\ IsSelected(sure)
             /\ sure.start = seg.start /\ ~IsEmpty(sure) /\ sure.end = closed.end
             /\ Reopen(closed, c.caret_pos) = Lit(seg, index)
             /\ Reopen(sure, c.caret_pos) = Lit(seg, index)
<1> DEFINE seg == Last(c.comp.segs)
           picked == Picked(seg, index)
           closed == Close(picked)
           sure == [closed EXCEPT !.status = kConfirmed]
           end == seg.menu[index + 1]
<1>1. /\ seg \in Segment /\ seg.status = kGuess /\ ~IsEmpty(seg) /\ index \in Nat
      /\ "raw" \notin seg.tags /\ "partial" \notin seg.tags /\ seg.start \in Nat /\ seg.end \in Nat
      /\ end \in Nat /\ index < Len(seg.menu) /\ seg.start < end /\ end <= seg.end
      /\ seg.end = Len(c.input)
  BY UndoableIs, SegmentType1
<1>2. /\ c.comp.segs # <<>> /\ c.caret_pos = seg.end /\ OriginalEnd(seg) = seg.end
      /\ "selected_before_editing" \notin seg.tags
  BY <1>1 DEF Undoable
<1>3. SegmentOK(seg, c.comp.input, Bound(c)) /\ ~IsSelected(seg) /\ Bound(c) \in Nat
  BY <1>2, GoodFacts
<1>. HIDE DEF seg
<1>4. Chosen(picked, seg, index)
  <2>1. kSelected \in kVoid..kConfirmed
    BY Statuses
  <2>2. picked = [seg EXCEPT !.selected_index = index, !.status = kSelected]
    BY DEF Picked
  <2>. HIDE DEF picked
  <2>. QED
    BY <1>1, <2>1, <2>2 DEF Chosen, Segment
<1>5. /\ HasCandidate(picked) /\ CandidateEnd(picked) = end /\ picked.tags = seg.tags
      /\ picked.end = seg.end /\ picked \in Segment /\ picked.status = kSelected /\ IsSelected(picked)
  BY <1>1, <1>4, Statuses DEF Chosen, HasCandidate, CandidateEnd, IsSelected
<1>. HIDE DEF picked
<1>6. Closed(closed, picked) /\ Closed(sure, picked)
  BY <1>1, <1>5, CloseIs
<1>7. closed.status = kSelected /\ "selected_before_editing" \notin closed.tags
  <2>1. CASE end < seg.end
    <3> DEFINE more == picked.tags \cup {"partial"}
    <3>1. closed = [picked EXCEPT !.end = end, !.tags = more]
      BY <1>5, <2>1 DEF Close
    <3>2. "selected_before_editing" \notin more
      BY <1>2, <1>5
    <3>. HIDE DEF more, closed
    <3>. QED
      BY <1>5, <3>1, <3>2 DEF Segment
  <2>2. CASE ~(end < seg.end)
    BY <1>2, <1>5, <2>2 DEF Close
  <2>. QED
    BY <2>1, <2>2
<1>8. closed \in Segment /\ sure = [closed EXCEPT !.status = kConfirmed] /\ closed = [closed EXCEPT !.status = kSelected]
  <2>1. closed \in Segment
    BY <1>6 DEF Closed
  <2>. HIDE DEF closed
  <2>. QED
    BY <1>7, <2>1 DEF Segment
<1>9. /\ Reopen([closed EXCEPT !.status = kSelected], seg.end) = Lit(seg, index)
      /\ Reopen([closed EXCEPT !.status = kConfirmed], seg.end) = Lit(seg, index)
  BY <1>1, <1>2, ReopenRestores DEF picked
<1>. HIDE DEF closed, sure
<1>10. closed.end = end /\ sure.end = end /\ "raw" \notin closed.tags
  BY <1>1, <1>5, <1>6 DEF Closed
<1>11. /\ SegmentOK(closed, c.comp.input, Bound(c)) /\ closed.start = seg.start /\ ~IsEmpty(closed)
       /\ SegmentOK(sure, c.comp.input, Bound(c)) /\ sure.start = seg.start /\ ~IsEmpty(sure)
       /\ IsSelected(sure)
  BY <1>1, <1>3, <1>4, <1>6, Statuses, ClosedIsOK
<1>. QED
  BY <1>1, <1>2, <1>4, <1>6, <1>7, <1>8, <1>9, <1>10, <1>11 DEF seg, picked, closed, sure, end, SegmentOK

\* Something was said.
LEMMA CommitSpeaks ==
  ASSUME NEW c, CtxType(c), c.comp.segs # <<>>
  PROVE  Commit(c).out # NoCommit
<1> DEFINE out == Said(c.comp, CommitPieces(c.comp))
           said == [c EXCEPT !.out = out]
<1>1. Commit(c) = Clear(said)
  BY DEF Commit, IsComposing
<1>2. out # NoCommit
  <2>1. "length" \in DOMAIN out
    BY DEF Said
  <2>2. DOMAIN NoCommit = 1..0
    BY DEF NoCommit
  <2>3. "length" \notin 1..0
    OBVIOUS
  <2>. HIDE DEF out
  <2>. QED
    BY <2>1, <2>2, <2>3
<1>3. /\ said \in [schema : Schemas, input : Seq(Chars), caret_pos : Nat, comp : Comps, out : {said.out}]
      /\ said.schema = c.schema /\ said.input = c.input /\ said.caret_pos = c.caret_pos
      /\ said.comp = c.comp /\ said.out = out
  BY DEF CtxType
<1>. HIDE DEF said
<1>4. CtxType(said)
  BY <1>3 DEF CtxType, Bound
<1>5. Clear(said).out = said.out
  BY <1>4, ClearIs
<1>. QED
  BY <1>1, <1>2, <1>3, <1>5

\* To highlight another candidate leaves a good context, and a settled one.
LEMMA HighlitIs ==
  ASSUME NEW c, Good(c), NEW index, Undoable(c, index)
  PROVE  LET want == Highlit(c, index)
         IN  /\ Good(want) /\ LastIsIn(want, c, Lit(Last(c.comp.segs), index))
             /\ Compose(want) = want
<1> DEFINE seg == Last(c.comp.segs)
           lit == Lit(seg, index)
           want == [c EXCEPT !.comp.segs = SetLast(@, lit)]
<1>1. /\ seg \in Segment /\ ~IsEmpty(seg) /\ index \in Nat
      /\ c.comp.segs # <<>> /\ c.caret_pos = Len(c.input)
  BY UndoableIs DEF Undoable
<1>2. want = [c EXCEPT !.comp.segs = SetLast(@, [Last(@) EXCEPT !.selected_index = index])]
  BY DEF Lit
<1>. HIDE DEF seg
<1>3. lit \in Segment /\ lit.start = seg.start /\ lit.end = seg.end
  BY <1>1 DEF Lit, Segment
<1>. HIDE DEF lit
<1>4. Good(want) /\ SameLine(want, c)
  BY <1>1, <1>2, HighlightIs
<1>5. LastIsIn(want, c, lit)
  BY <1>1, <1>3, SwapsIn
<1>. HIDE DEF want
<1>6. /\ want.comp.segs \in Seq(Segment) /\ Len(want.comp.segs) = Len(c.comp.segs)
      /\ Len(c.comp.segs) \in Nat \ {0}
      /\ want.comp.segs[Len(c.comp.segs)] = lit
  <2>1. Len(c.comp.segs) \in Nat \ {0} /\ Len(c.comp.segs) \in 1..Len(c.comp.segs)
    BY <1>1, GoodFacts
  <2>. QED
    BY <1>5, <2>1 DEF LastIsIn, Swapped
<1>7. want.comp.segs # <<>>
  BY <1>6, EmptySeq
<1>8. Last(want.comp.segs) = lit
  BY <1>6, <1>7, LastIs
<1>9. Whole(want.comp.segs)
  BY <1>1, <1>3, <1>8 DEF Whole, IsEmpty
<1>10. want.caret_pos = Len(want.input)
  BY <1>1, <1>4 DEF SameLine
<1>11. Compose(want) = want
  BY <1>4, <1>7, <1>9, <1>10, ComposeSame
<1>. QED
  BY <1>4, <1>5, <1>11 DEF want, lit, seg, Highlit

LEMMA BackTo ==
  ASSUME NEW c, Good(c), NEW index, Undoable(c, index),
         NEW d, CtxType(d), SameLine(d, c), d.comp.input = c.comp.input,
         NEW segs, Swapped(segs, c.comp.segs, Lit(Last(c.comp.segs), index))
  PROVE  Compose(Resegmented(d, segs)) = Highlit(c, index)
<1> DEFINE lit == Lit(Last(c.comp.segs), index)
           want == Highlit(c, index)
           e == Resegmented(d, segs)
<1>1. Good(want) /\ LastIsIn(want, c, lit) /\ Compose(want) = want
  BY HighlitIs
<1>2. segs \in Seq(Segment)
  BY DEF Swapped
<1>3. /\ CtxType(e) /\ SameLine(e, d) /\ e.comp.segs = segs /\ e.comp.input = d.comp.input
  BY <1>2, WithSegs DEF Resegmented
<1>. HIDE DEF e, want, lit
<1>4. CtxType(want) /\ SameLine(want, c) /\ want.comp.input = c.comp.input
      /\ Swapped(want.comp.segs, c.comp.segs, lit)
  BY <1>1 DEF LastIsIn
<1>5. want.comp.segs = segs
  <2>1. /\ segs \in Seq(Segment) /\ Len(segs) = Len(c.comp.segs)
        /\ \A i \in 1..Len(c.comp.segs) : segs[i] = IF i = Len(c.comp.segs) THEN lit ELSE c.comp.segs[i]
    BY DEF Swapped, lit
  <2>2. /\ want.comp.segs \in Seq(Segment) /\ Len(want.comp.segs) = Len(c.comp.segs)
        /\ \A i \in 1..Len(c.comp.segs) :
             want.comp.segs[i] = IF i = Len(c.comp.segs) THEN lit ELSE c.comp.segs[i]
    BY <1>4 DEF Swapped
  <2>. QED
    BY <2>1, <2>2, SeqEqual
<1>6. e = want
  BY <1>3, <1>4, <1>5, SameContext DEF SameLine
<1>. QED
  BY <1>1, <1>6 DEF e, want

\* f is c with its last segment replaced by seg, and an empty one after it.
OnePast(f, c, seg) ==
  /\ CtxType(f) /\ Composable(f) /\ CompOK(f.comp, Bound(f)) /\ SameLine(f, c) /\ f.comp.input = c.comp.input
  /\ Len(f.comp.segs) = Len(c.comp.segs) + 1
  /\ \A j \in 1..Len(c.comp.segs) : f.comp.segs[j] = IF j = Len(c.comp.segs) THEN seg ELSE c.comp.segs[j]
  /\ ~IsSelected(f.comp.segs[Len(c.comp.segs) + 1])
  /\ CurrentLength(f.comp) = 0

LEMMA OnePastIs ==
  ASSUME NEW c, Good(c), c.comp.segs # <<>>,
         NEW seg, SegmentOK(seg, c.comp.input, Bound(c)), seg.start = Last(c.comp.segs).start,
         IsSelected(seg), ~IsEmpty(seg), seg.end <= Last(c.comp.segs).end,
         NEW d, LastIsIn(d, c, seg)
  PROVE  OnePast([d EXCEPT !.comp = Forward(@)], c, seg)
<1> DEFINE f == [d EXCEPT !.comp = Forward(@)]
           m == Len(c.comp.segs)
<1>1. /\ CtxType(d) /\ SameLine(d, c) /\ Bound(d) = Bound(c)
      /\ CompOK(d.comp, Bound(d)) /\ Offered(d.comp.segs) /\ d.comp.segs # <<>>
      /\ Last(d.comp.segs) = seg /\ d.comp.input = c.comp.input
  BY ClosedIn
<1>2. /\ Composable(f) /\ CompOK(f.comp, Bound(f)) /\ SameLine(f, d) /\ f.comp = Forward(d.comp)
      /\ f.comp.input = d.comp.input
  BY <1>1, ForwardIn
<1>. HIDE DEF f
<1>3. Bound(d) \in Nat
  BY <1>1, CtxFacts
<1>4. /\ Len(d.comp.segs) <= Len(f.comp.segs) /\ Len(f.comp.segs) <= Len(d.comp.segs) + 1
      /\ \A i \in 1..Len(d.comp.segs) : f.comp.segs[i] = d.comp.segs[i]
      /\ \A i \in 1..Len(f.comp.segs) : i > Len(d.comp.segs) => ~IsSelected(f.comp.segs[i])
      /\ d.comp.segs # <<>> /\ Whole(d.comp.segs) => CurrentLength(f.comp) = 0 /\ f.comp.segs # <<>>
  BY <1>1, <1>2, <1>3, ForwardIs
<1>5. /\ Len(d.comp.segs) = m
      /\ \A i \in 1..m : d.comp.segs[i] = IF i = m THEN seg ELSE c.comp.segs[i]
  BY DEF LastIsIn, Swapped
<1>6. m \in Nat \ {0}
  BY GoodFacts
<1>7. Whole(d.comp.segs)
  BY <1>1 DEF Whole
<1>8. CurrentLength(f.comp) = 0 /\ f.comp.segs # <<>>
  BY <1>1, <1>4, <1>7
<1>. HIDE DEF m
<1>9. /\ Len(f.comp.segs) \in Nat /\ Last(f.comp.segs) = f.comp.segs[Len(f.comp.segs)]
      /\ IsEmpty(Last(f.comp.segs))
  <2>1. Bound(f) \in Nat
    BY <1>2, CtxFacts DEF Composable
  <2>. QED
    BY <1>2, <1>8, <2>1, CompFacts
<1>10. Len(f.comp.segs) # m
  <2>1. SUFFICES ASSUME Len(f.comp.segs) = m PROVE FALSE
    OBVIOUS
  <2>2. f.comp.segs[m] = seg
    BY <1>4, <1>5, <1>6
  <2>. QED
    BY <1>9, <2>1, <2>2
<1>11. Len(f.comp.segs) = m + 1
  BY <1>4, <1>5, <1>6, <1>9, <1>10
<1>12. m + 1 \in 1..Len(f.comp.segs) /\ m + 1 > m
  BY <1>6, <1>11
<1>13. ~IsSelected(f.comp.segs[m + 1])
  BY <1>4, <1>5, <1>12
<1>14. CtxType(f) /\ SameLine(f, c) /\ f.comp.input = c.comp.input
  BY <1>1, <1>2 DEF Composable, SameLine
<1>15. \A j \in 1..m : f.comp.segs[j] = IF j = m THEN seg ELSE c.comp.segs[j]
  BY <1>4, <1>5
<1>16. OnePast(f, c, seg)
  BY <1>2, <1>8, <1>11, <1>13, <1>14, <1>15 DEF OnePast, m
<1>. QED
  BY <1>16 DEF f

\* A candidate for the rest of the code: the empty segment goes, and the one
\* before it is reopened.
LEMMA UndoWhole ==
  ASSUME NEW c, Good(c), NEW index, Undoable(c, index),
         NEW f, OnePast(f, c, [Close(Picked(Last(c.comp.segs), index)) EXCEPT !.status = kConfirmed])
  PROVE  ReopenPreviousSegment(f) = Done(Highlit(c, index))
<1> DEFINE seg == Last(c.comp.segs)
           sure == [Close(Picked(seg, index)) EXCEPT !.status = kConfirmed]
           lit == Lit(seg, index)
           m == Len(c.comp.segs)
           trimmed == SubSeq(f.comp.segs, 1, Len(f.comp.segs) - 1)
           segs == SetLast(trimmed, lit)
<1>1. /\ CtxType(f) /\ SameLine(f, c) /\ f.comp.input = c.comp.input /\ CompOK(f.comp, Bound(f))
      /\ Len(f.comp.segs) = m + 1 /\ CurrentLength(f.comp) = 0
      /\ \A j \in 1..m : f.comp.segs[j] = IF j = m THEN sure ELSE c.comp.segs[j]
  BY DEF OnePast
<1>2. Reopen(sure, c.caret_pos) = lit
  BY PickedIs
<1>3. m \in Nat \ {0} /\ c.comp.segs # <<>>
  BY GoodFacts DEF Undoable
<1>4. lit \in Segment
  BY UndoableIs DEF Lit, Segment
<1>5. f.comp.segs \in Seq(Segment)
  BY <1>1, CompTypes DEF CompOK
<1>. HIDE DEF m, sure, lit
<1>6. Len(f.comp.segs) - 1 = m /\ m \in 0..Len(f.comp.segs) /\ m \in 1..m
  BY <1>1, <1>3
<1>7. Cut(trimmed, f.comp.segs, m)
  BY <1>5, <1>6, SubSeqCuts
<1>8. f.comp.segs # <<>>
  BY <1>1, <1>3, EmptySeq
<1>. HIDE DEF trimmed
<1>9. /\ trimmed \in Seq(Segment) /\ Len(trimmed) = m
      /\ \A j \in 1..m : trimmed[j] = IF j = m THEN sure ELSE c.comp.segs[j]
  BY <1>1, <1>7 DEF Cut
<1>10. trimmed # <<>>
  BY <1>3, <1>9, EmptySeq
<1>11. Last(trimmed) = sure
  BY <1>6, <1>9, <1>10, LastIs
<1>12. Reopen(Last(trimmed), f.caret_pos) = lit
  BY <1>1, <1>2, <1>11 DEF SameLine
<1>13. ReopenPreviousSegment(f) = Done(Compose(Resegmented(f, segs)))
  <2>1. CanTrim(f.comp) /\ Front(f.comp.segs) = trimmed
    BY <1>1, <1>8 DEF CanTrim, Front, trimmed
  <2>. QED
    BY <1>10, <1>12, <2>1 DEF ReopenPreviousSegment, Resegmented
<1>14. Swapped(segs, trimmed, lit)
  BY <1>4, <1>9, <1>10, SetLastSwaps
<1>. HIDE DEF segs
<1>15. Swapped(segs, c.comp.segs, lit)
  BY <1>3, <1>9, <1>14 DEF Swapped, m
<1>16. Compose(Resegmented(f, segs)) = Highlit(c, index)
  BY <1>1, <1>15, BackTo DEF lit
<1>. QED
  BY <1>13, <1>16

\* A candidate for less: what was composed after it has no selection and is
\* not empty, so it goes, and the segment is reopened.
LEMMA UndoPart ==
  ASSUME NEW c, Good(c), NEW index, Undoable(c, index),
         NEW f, OnePast(f, c, Close(Picked(Last(c.comp.segs), index))),
         Close(Picked(Last(c.comp.segs), index)).end # Len(c.input)
  PROVE  LET d == Compose(f)
         IN  /\ ReopenPreviousSelection(d) = Done(Highlit(c, index))
             /\ ReopenPreviousSegment(d) = Fail(d)
<1> DEFINE seg == Last(c.comp.segs)
           closed == Close(Picked(seg, index))
           lit == Lit(seg, index)
           m == Len(c.comp.segs)
           end == closed.end
           d == Compose(f)
<1>1. /\ CtxType(f) /\ Composable(f) /\ SameLine(f, c) /\ f.comp.input = c.comp.input
      /\ Len(f.comp.segs) = m + 1 /\ ~IsSelected(f.comp.segs[m + 1])
      /\ \A j \in 1..m : f.comp.segs[j] = IF j = m THEN closed ELSE c.comp.segs[j]
  BY DEF OnePast
<1>2. /\ closed \in Segment /\ closed.status = kSelected /\ "raw" \notin closed.tags
      /\ "selected_before_editing" \notin closed.tags /\ end <= seg.end
      /\ Reopen(closed, c.caret_pos) = lit
  BY PickedIs
<1>3. /\ m \in Nat \ {0} /\ c.comp.segs # <<>> /\ c.caret_pos = Len(c.input) /\ Len(c.input) \in Nat
      /\ CompOK(c.comp, Bound(c)) /\ Offered(c.comp.segs) /\ c.comp.segs \in Seq(Segment)
  BY GoodFacts DEF Undoable
<1>4. /\ seg \in Segment /\ c.comp.input = c.input /\ seg.end = Len(c.input)
  BY UndoableIs
<1>5. lit \in Segment
  BY <1>4, UndoableIs DEF Lit, Segment
<1>6. end \in Nat /\ end < Len(c.input)
  BY <1>2, <1>3, <1>4, SegmentType1
<1>7. /\ Settled(d) /\ SameLine(d, f) /\ Ended(d.comp.segs)
  BY <1>1, ComposeIs
<1>. HIDE DEF seg, closed, lit, m, end, d
<1>8. Fixed(f.comp.segs, m)
  <2>1. m \in 1..Len(f.comp.segs) /\ m \in 1..m
    BY <1>1, <1>3
  <2>2. ASSUME NEW j \in 1..m PROVE f.comp.segs[j].status # kVoid
    <3>1. CASE j = m
      BY <1>1, <1>2, <3>1, Statuses
    <3>2. CASE j # m
      <4>1. ~IsEmpty(c.comp.segs[j])
        BY <1>3, <3>2 DEF CompOK, Shaped, Tiled, m
      <4>2. c.comp.segs[j].status # kVoid
        BY <1>3, <4>1 DEF Offered, m
      <4>. QED
        BY <1>1, <3>2, <4>2
    <3>. QED
      BY <3>1, <3>2
  <2>3. f.comp.segs[m] = closed
    BY <1>1, <2>1
  <2>. QED
    BY <1>2, <2>1, <2>2, <2>3, Statuses DEF Fixed, IsSelected
<1>9. Follows(d.comp.segs, f.comp.segs, end)
  <2>1. /\ end <= f.caret_pos /\ end <= Len(f.comp.input) /\ f.comp.input = f.input
    BY <1>1, <1>3, <1>4, <1>6 DEF SameLine
  <2>2. \A i \in 1..end : f.comp.input[i] = f.input[i]
    BY <2>1
  <2>. QED
    BY <1>1, <1>6, <2>1, <2>2, ComposeFollows DEF d
<1>10. m \in 1..Len(f.comp.segs) /\ m \in 1..m /\ f.comp.segs[m] = closed
  BY <1>1, <1>3
<1>11. /\ m <= Len(d.comp.segs)
       /\ \A j \in 1..m : d.comp.segs[j] = f.comp.segs[j]
  BY <1>6, <1>8, <1>9, <1>10 DEF Follows, Stay, end
<1>12. /\ d.comp.segs \in Seq(Segment) /\ Len(d.comp.segs) \in Nat /\ CtxType(d) /\ Lined(d)
       /\ CompOK(d.comp, Bound(d)) /\ Open(d.comp.segs) /\ Bound(d) \in Nat
  BY <1>7, CtxFacts, CompTypes DEF Settled
<1>13. d.comp.segs[m] = closed /\ IsSelected(d.comp.segs[m]) /\ m \in 1..Len(d.comp.segs)
  BY <1>2, <1>3, <1>10, <1>11, <1>12, Statuses DEF IsSelected
<1>14. ASSUME NEW i \in 1..Len(d.comp.segs), IsSelected(d.comp.segs[i]) PROVE i <= m
  <2>1. i \in 1..Len(f.comp.segs) /\ d.comp.segs[i] = f.comp.segs[i]
    BY <1>9, <1>14 DEF Follows
  <2>2. i # m + 1
    BY <1>1, <1>14, <2>1
  <2>. QED
    BY <1>1, <1>3, <2>1, <2>2
<1>15. /\ SameLine(d, c) /\ d.caret_pos = Len(d.input) /\ d.caret_pos = c.caret_pos
       /\ d.input = c.input
  BY <1>1, <1>3, <1>7 DEF SameLine
<1>16. d.comp.input = c.comp.input /\ CurrentEnd(d.comp) = Len(c.input)
  BY <1>4, <1>12, <1>15 DEF Lined
<1>17. ReopenPreviousSelection(d) = Done(Highlit(c, index))
  <2> DEFINE latest == LastSelected(d.comp.segs)
             front == SubSeq(d.comp.segs, 1, m - 1)
             segs == Append(front, lit)
  <2>1. latest = m
    <3>1. /\ latest \in 0..Len(d.comp.segs)
          /\ latest > 0 => IsSelected(d.comp.segs[latest])
          /\ \A i \in (latest + 1)..Len(d.comp.segs) : ~IsSelected(d.comp.segs[i])
      BY <1>12, LastSelectedIs
    <3>. HIDE DEF latest
    <3>2. m \notin (latest + 1)..Len(d.comp.segs)
      BY <1>13, <3>1
    <3>3. latest >= m
      BY <1>12, <1>13, <3>1, <3>2
    <3>4. latest \in 1..Len(d.comp.segs) /\ latest > 0
      BY <1>12, <1>13, <3>1, <3>3
    <3>5. latest <= m
      BY <1>14, <3>1, <3>4
    <3>. QED
      BY <1>3, <3>1, <3>3, <3>5
  <2>2. ReopenPreviousSelection(d) = Done(Compose(Resegmented(d, segs)))
    <3>1. latest # 0 /\ ~(closed.status > kSelected)
      BY <1>2, <1>3, <2>1, Statuses
    <3>2. Reopen(closed, d.caret_pos) = lit
      BY <1>2, <1>15
    <3>3. d.comp.segs[latest] = closed
      BY <1>13, <2>1
    <3>. QED
      BY <1>2, <2>1, <3>1, <3>2, <3>3 DEF ReopenPreviousSelection, Resegmented
  <2>3. m - 1 \in 0..Len(d.comp.segs) /\ m - 1 + 1 = m
    BY <1>3, <1>12, <1>13
  <2>4. Cut(front, d.comp.segs, m - 1)
    BY <1>12, <2>3, SubSeqCuts
  <2>. HIDE DEF front
  <2>5. Grown(segs, front, lit)
    BY <1>5, <2>4, AppendGrows DEF Cut
  <2>. HIDE DEF segs
  <2>6. /\ segs \in Seq(Segment) /\ Len(segs) = m /\ segs[m] = lit
        /\ \A i \in 1..(m - 1) : segs[i] = d.comp.segs[i]
    BY <2>3, <2>4, <2>5 DEF Cut, Grown
  <2>7. ASSUME NEW i \in 1..m PROVE segs[i] = IF i = m THEN lit ELSE c.comp.segs[i]
    <3>1. i # m => i \in 1..(m - 1)
      BY <1>3
    <3>. QED
      BY <1>1, <1>11, <2>6, <3>1
  <2>8. Swapped(segs, c.comp.segs, lit)
    BY <2>6, <2>7 DEF Swapped, m
  <2>9. Compose(Resegmented(d, segs)) = Highlit(c, index)
    BY <1>12, <1>15, <1>16, <2>8, BackTo DEF lit, seg
  <2>. QED
    BY <2>2, <2>9
<1>18. ReopenPreviousSegment(d) = Fail(d)
  <2>1. SUFFICES ASSUME CanTrim(d.comp) PROVE FALSE
    BY DEF ReopenPreviousSegment
  <2> DEFINE n == Len(d.comp.segs)
  <2>2. /\ d.comp.segs # <<>> /\ CurrentLength(d.comp) = 0
    BY <2>1 DEF CanTrim
  <2>3. /\ n \in Nat \ {0} /\ Last(d.comp.segs) = d.comp.segs[n] /\ IsEmpty(Last(d.comp.segs))
        /\ CurrentEnd(d.comp) = Last(d.comp.segs).end
    BY <1>12, <2>2, CompFacts
  <2>4. n > 1 /\ IsSelected(d.comp.segs[n - 1]) /\ ~IsSelected(d.comp.segs[n])
    BY <1>7, <1>12, <2>2, <2>3 DEF Ended, Open
  <2>. HIDE DEF n
  <2>5. n # m /\ n - 1 \in 1..n /\ n \in 1..n /\ n # 1
    BY <1>13, <2>3, <2>4
  <2>6. n - 1 <= m
    BY <1>14, <2>4, <2>5 DEF n
  <2>7. n - 1 = m
    BY <1>3, <1>11, <2>3, <2>5, <2>6 DEF n
  <2>8. d.comp.segs[n].start = d.comp.segs[n - 1].end
    BY <1>12, <2>5 DEF CompOK, Shaped, Tiled, n
  <2>9. d.comp.segs[n].end = end
    BY <1>13, <2>3, <2>7, <2>8 DEF IsEmpty, end
  <2>. QED
    BY <1>6, <1>16, <2>3, <2>9
<1>. QED
  BY <1>17, <1>18 DEF d, lit, seg

\* BackSpace after a selection that leaves something to compose is highlighting
\* the candidate that was selected.
LEMMA UndoIs ==
  ASSUME NEW c, Good(c), NEW index, Undoable(c, index), StillComposing(Select(c, index))
  PROVE  UndoOf(Select(c, index).c) = Highlit(c, index)
<1> DEFINE last == Last(c.comp.segs)
           picked == Picked(last, index)
           changed == [c EXCEPT !.comp.segs = SetLast(@, picked)]
           seg == Close(picked)
           sure == [seg EXCEPT !.status = kConfirmed]
           closed == [changed EXCEPT !.comp.segs = SetLast(@, seg)]
           confirmed == [changed EXCEPT !.comp.segs = SetLast(@, sure)]
           next == [closed EXCEPT !.comp = Forward(@)]
           final == [confirmed EXCEPT !.comp = Forward(@)]
           want == Highlit(c, index)
           e == Select(c, index).c
<1>1. /\ c.comp.segs # <<>> /\ c.caret_pos = Len(c.input) /\ Len(c.input) \in Nat
      /\ last \in Segment /\ c.comp.segs \in Seq(Segment)
  BY GoodFacts DEF Undoable
<1>2. /\ last.end = Len(c.input) /\ index < Len(last.menu) /\ index \in Nat /\ last.menu \in Seq(Nat)
  BY <1>1, UndoableIs, SegmentType1
<1>3. /\ Chosen(picked, last, index)
      /\ SegmentOK(seg, c.comp.input, Bound(c)) /\ seg \in Segment
      /\ seg.status = kSelected /\ seg.start = last.start /\ ~IsEmpty(seg) /\ seg.end <= last.end
      /\ SegmentOK(sure, c.comp.input, Bound(c)) /\ sure \in Segment /\ IsSelected(sure)
      /\ sure.start = last.start /\ ~IsEmpty(sure) /\ sure.end = seg.end
  BY PickedIs
<1>4. e = OnSelect(changed)
  <2>1. ~(c.comp.segs = <<>> \/ index >= Len(last.menu))
    <3>1. Len(last.menu) \in Nat
      BY <1>2
    <3>. QED
      BY <1>1, <1>2, <3>1
  <2>2. e = OnSelect([c EXCEPT !.comp.segs =
              SetLast(@, [Last(@) EXCEPT !.selected_index = index, !.status = kSelected])])
    BY <2>1 DEF Select, Done
  <2>3. [c EXCEPT !.comp.segs =
              SetLast(@, [Last(@) EXCEPT !.selected_index = index, !.status = kSelected])] = changed
    BY DEF Picked
  <2>. QED
    BY <2>2, <2>3
<1>5. e.out = NoCommit
  BY DEF StillComposing
<1>. HIDE DEF last, picked, want, e
<1>6. LastIsIn(changed, c, picked)
  BY <1>1, <1>3, SwapsIn DEF Chosen
<1>. HIDE DEF changed
<1>7. Last(changed.comp.segs) = picked
  <2>1. /\ changed.comp.segs \in Seq(Segment) /\ Len(changed.comp.segs) = Len(c.comp.segs)
        /\ \A i \in 1..Len(c.comp.segs) : i = Len(c.comp.segs) => changed.comp.segs[i] = picked
    BY <1>6 DEF LastIsIn, Swapped
  <2>2. Len(c.comp.segs) \in Nat \ {0}
    BY <1>1, GoodFacts
  <2>3. changed.comp.segs # <<>>
    BY <2>1, <2>2, EmptySeq
  <2>. QED
    BY <2>1, <2>2, <2>3, LastIs
<1>8. changed.input = c.input /\ changed.caret_pos = c.caret_pos
  BY <1>6 DEF LastIsIn, SameLine
<1>9. e = IF seg.end = Len(c.input)
          THEN IF AutoCommit THEN Commit(confirmed) ELSE final
          ELSE IF seg.end >= c.caret_pos
               THEN set_caret_pos(next, Len(c.input))
               ELSE Compose(next)
  BY <1>4, <1>7, <1>8 DEF OnSelect
<1>. HIDE DEF sure
<1>10. LastIsIn(confirmed, c, sure)
  BY <1>1, <1>3, <1>6, SetLastIn
<1>. HIDE DEF seg
<1>11. LastIsIn(closed, c, seg)
  BY <1>1, <1>3, <1>6, SetLastIn
<1>. HIDE DEF closed, confirmed
<1>12. OnePast(final, c, sure)
  BY <1>1, <1>3, <1>10, OnePastIs DEF last
<1>13. IsSelected(seg)
  BY <1>3, Statuses DEF IsSelected
<1>14. OnePast(next, c, seg)
  BY <1>1, <1>3, <1>11, <1>13, OnePastIs DEF last
<1>. HIDE DEF next, final
<1>15. CASE seg.end = Len(c.input)
  <2>1. ~AutoCommit
    <3>1. SUFFICES ASSUME AutoCommit PROVE FALSE
      OBVIOUS
    <3>2. CtxType(confirmed) /\ confirmed.comp.segs # <<>>
      BY <1>1, <1>3, <1>10, ClosedIn DEF last
    <3>. QED
      BY <1>5, <1>9, <1>15, <3>1, <3>2, CommitSpeaks
  <2>2. e = final
    BY <1>9, <1>15, <2>1
  <2>3. ReopenPreviousSegment(final) = Done(want)
    BY <1>12, UndoWhole DEF want, sure, seg, picked, last
  <2>4. BackToPreviousInput(final) = want
    BY <2>3 DEF BackToPreviousInput, OrElse, Done
  <2>. QED
    BY <2>1, <2>2, <2>4 DEF UndoOf, AutoCommit, e, want
<1>16. CASE seg.end # Len(c.input)
  <2>1. ~(seg.end >= c.caret_pos)
    BY <1>1, <1>2, <1>3, <1>16, SegmentType1
  <2>2. e = Compose(next)
    BY <1>9, <1>16, <2>1
  <2>3. ReopenPreviousSelection(e) = Done(want) /\ ReopenPreviousSegment(e) = Fail(e)
    BY <1>14, <1>16, <2>2, UndoPart DEF want, seg, picked, last
  <2>4. RevertLastEdit(e) = want
    BY <2>3 DEF RevertLastEdit, FirstOf, OrElse, Done
  <2>5. BackToPreviousInput(e) = want
    BY <2>3 DEF BackToPreviousInput, OrElse, Done, Fail
  <2>. QED
    BY <2>4, <2>5 DEF UndoOf, e, want
<1>. QED
  BY <1>15, <1>16

-----------------------------------------------------------------------------
(* What a key does to the line                                              *)

LineStep(c, d) ==
  \/ \E ch \in Chars :
       /\ d.input = InsertAt(c.input, c.caret_pos + 1, ch)
       /\ d.caret_pos \in {c.caret_pos + 1, Len(d.input)}
  \/ \E n \in 1..c.caret_pos :
       /\ d.input = SubSeq(c.input, 1, c.caret_pos - n) \o SubSeq(c.input, c.caret_pos + 1, Len(c.input))
       /\ d.caret_pos = c.caret_pos - n
  \/ /\ c.caret_pos < Len(c.input)
     /\ d.input = RemoveAt(c.input, c.caret_pos + 1) /\ d.caret_pos = c.caret_pos
  \/ d.input = c.input /\ d.caret_pos \in 0..Len(c.input)
  \/ \E n \in 0..Len(c.input) : d.input = SubSeq(c.input, 1, n) /\ d.caret_pos = n

LEMMA SubStringFrom0 ==
  ASSUME NEW str, NEW to
  PROVE  SubString(str, 0, to) = SubSeq(str, 1, to)
<1>1. 0 + 1 = 1
  OBVIOUS
<1>. QED
  BY <1>1 DEF SubString

LEMMA EmptiedStep ==
  ASSUME NEW c, Good(c), NEW d, Emptied(d)
  PROVE  LineStep(c, d)
<1>1. SubSeq(c.input, 1, 0) = <<>> /\ 0 \in 0..Len(c.input)
  BY GoodFacts, SubSeqEmpty
<1>. QED
  BY <1>1 DEF Emptied, LineStep

LEMMA TakenStep ==
  ASSUME NEW c, Good(c), NEW d, Taken(d, c)
  PROVE  LineStep(c, d)
<1>1. CASE Emptied(d)
  BY <1>1, EmptiedStep
<1>2. CASE d.input = c.input /\ d.caret_pos \in {c.caret_pos, Len(c.input)}
  <2>1. d.caret_pos \in 0..Len(c.input)
    BY <1>2, GoodFacts
  <2>. QED
    BY <1>2, <2>1 DEF LineStep
<1>. QED
  BY <1>1, <1>2 DEF Taken

LEMMA ShortenedStep ==
  ASSUME NEW c, Good(c), NEW d, Shortened(d, c)
  PROVE  LineStep(c, d)
<1>1. c.caret_pos \in Nat /\ c.caret_pos \in 0..Len(c.input)
  BY GoodFacts
<1>2. CASE d.input = c.input /\ d.caret_pos = c.caret_pos
  BY <1>1, <1>2 DEF LineStep
<1>3. CASE \E len \in 1..c.caret_pos :
             d.input = Erase(c.input, c.caret_pos - len, len) /\ d.caret_pos = c.caret_pos - len
  <2>1. PICK len \in 1..c.caret_pos :
          d.input = Erase(c.input, c.caret_pos - len, len) /\ d.caret_pos = c.caret_pos - len
    BY <1>3
  <2>2. (c.caret_pos - len) + len = c.caret_pos
    BY <1>1
  <2>3. SubString(c.input, (c.caret_pos - len) + len, Len(c.input)) = SubSeq(c.input, c.caret_pos + 1, Len(c.input))
    BY <2>2 DEF SubString
  <2>4. d.input = SubSeq(c.input, 1, c.caret_pos - len) \o SubSeq(c.input, c.caret_pos + 1, Len(c.input))
    BY <2>1, <2>3, SubStringFrom0 DEF Erase
  <2>. QED
    BY <2>1, <2>4 DEF LineStep
<1>. QED
  BY <1>2, <1>3 DEF Shortened

LEMMA InsertedStep ==
  ASSUME NEW c, Good(c), NEW ch \in Chars, NEW d, d.input = Inserted(c.input, c.caret_pos, ch),
         d.caret_pos \in {c.caret_pos + 1, Len(d.input)}
  PROVE  LineStep(c, d)
<1>1. (c.caret_pos + 1) - 1 = c.caret_pos
  BY GoodFacts
<1>2. SubSeq(c.input, 1, (c.caret_pos + 1) - 1) = SubString(c.input, 0, c.caret_pos)
  BY <1>1, SubStringFrom0
<1>3. SubSeq(c.input, c.caret_pos + 1, Len(c.input)) = SubString(c.input, c.caret_pos, Len(c.input))
  BY DEF SubString
<1>4. InsertAt(c.input, c.caret_pos + 1, ch) = Inserted(c.input, c.caret_pos, ch)
  BY <1>2, <1>3 DEF InsertAt, Inserted
<1>. QED
  BY <1>4 DEF LineStep

LEMMA DeletedStep ==
  ASSUME NEW c, Good(c), NEW d, c.caret_pos < Len(c.input), d.caret_pos = c.caret_pos,
         d.input = Erase(c.input, c.caret_pos, 1)
  PROVE  LineStep(c, d)
<1>1. (c.caret_pos + 1) - 1 = c.caret_pos
  BY GoodFacts
<1>2. SubString(c.input, 0, c.caret_pos) = SubSeq(c.input, 1, (c.caret_pos + 1) - 1)
  BY <1>1, SubStringFrom0
<1>3. SubString(c.input, c.caret_pos + 1, Len(c.input)) = SubSeq(c.input, (c.caret_pos + 1) + 1, Len(c.input))
  BY DEF SubString
<1>4. d.input = RemoveAt(c.input, c.caret_pos + 1)
  BY <1>2, <1>3 DEF Erase, RemoveAt
<1>. QED
  BY <1>4 DEF LineStep

-----------------------------------------------------------------------------
(* What a key that inserts code or moves the caret does to the selections    *)

Moves(d, c) ==
  \/ Len(d.input) > Len(c.input)
  \/ d.input = c.input /\ d.caret_pos # c.caret_pos

Kept(d, c) ==
  Moves(d, c) =>
    \A pos \in Nat : pos <= c.caret_pos /\ pos <= d.caret_pos => Keeping(d, c, pos)

LEMMA ShorterIsKept ==
  ASSUME NEW c, Good(c), NEW d, Len(d.input) \in Nat, Len(d.input) < Len(c.input)
  PROVE  Kept(d, c)
<1>1. Len(c.input) \in Nat
  BY GoodFacts
<1>. QED
  BY <1>1 DEF Kept, Moves

LEMMA EmptiedIsKept ==
  ASSUME NEW c, Good(c), NEW d, Emptied(d)
  PROVE  Kept(d, c)
<1>1. /\ Len(c.input) \in Nat /\ c.caret_pos \in Nat /\ c.caret_pos <= Len(c.input)
  BY GoodFacts
<1>2. d.input = <<>> /\ d.caret_pos = 0 /\ Len(d.input) = 0
  BY EmptySeq DEF Emptied
<1>3. d.input = c.input => c.caret_pos = 0
  BY <1>1, <1>2
<1>. QED
  BY <1>1, <1>2, <1>3 DEF Kept, Moves

LEMMA TakenIsKept ==
  ASSUME NEW c, Good(c), NEW d, Taken(d, c)
  PROVE  Kept(d, c)
<1>1. CASE Emptied(d)
  BY <1>1, EmptiedIsKept
<1>2. CASE Keeping(d, c, c.caret_pos)
  <2>1. c.caret_pos \in Nat
    BY GoodFacts
  <2>. QED
    BY <1>2, <2>1, KeepingLess DEF Kept
<1>. QED
  BY <1>1, <1>2 DEF Taken

LEMMA ShortenedIsKept ==
  ASSUME NEW c, Good(c), NEW d, Shortened(d, c)
  PROVE  Kept(d, c)
<1>1. /\ c.input \in Seq(Chars) /\ Len(c.input) \in Nat /\ c.caret_pos \in Nat
      /\ c.caret_pos <= Len(c.input)
  BY GoodFacts
<1>2. CASE d.input = c.input /\ d.caret_pos = c.caret_pos
  BY <1>1, <1>2 DEF Kept, Moves
<1>3. ASSUME NEW len \in 1..c.caret_pos, d.input = Erase(c.input, c.caret_pos - len, len)
      PROVE  Kept(d, c)
  <2> DEFINE from == c.caret_pos - len
  <2>1. from \in Nat /\ len \in Nat /\ from + len <= Len(c.input)
    BY <1>1
  <2>2. d.input = Erase(c.input, from, len)
    BY <1>3
  <2>. HIDE DEF from
  <2>3. Len(d.input) = Len(c.input) - len
    BY <1>1, <2>1, <2>2, EraseIs
  <2>4. Len(d.input) \in Nat /\ Len(d.input) < Len(c.input)
    BY <1>1, <2>3
  <2>. QED
    BY <2>4, ShorterIsKept
<1>. QED
  BY <1>2, <1>3 DEF Shortened

\* The selections that c kept from b are kept on.
LEMMA KeptOn ==
  ASSUME NEW b, Good(b), NEW c, Keeping(c, b, b.caret_pos), Good(c), b.caret_pos <= c.caret_pos,
         NEW d, Keeping(d, c, c.caret_pos)
  PROVE  Kept(d, b)
<1>1. b.caret_pos \in Nat /\ c.caret_pos \in Nat
  BY GoodFacts
<1>2. Keeping(d, c, b.caret_pos)
  BY <1>1, KeepingLess
<1>3. Keeping(d, b, b.caret_pos)
  BY <1>2, KeepingOn
<1>. QED
  BY <1>1, <1>3, KeepingLess DEF Kept

-----------------------------------------------------------------------------
(* The keys.  Every one of them takes a good context to a good context, the  *)
(* line to what LineStep allows, and keeps the selections before the caret.  *)

Held == Good(ctx') /\ LineStep(ctx, ctx') /\ Kept(ctx', ctx)

LEMMA FreshIs ==
  ASSUME Good(ctx)
  PROVE  /\ Good(Fresh) /\ Bound(Fresh) = Bound(ctx) /\ Fresh.comp = ctx.comp
         /\ Fresh.input = ctx.input /\ Fresh.caret_pos = ctx.caret_pos
         /\ \A d : LineStep(Fresh, d) <=> LineStep(ctx, d)
         /\ \A d : Kept(d, Fresh) <=> Kept(d, ctx)
<1>1. /\ Fresh \in [schema : Schemas, input : Seq(Chars), caret_pos : Nat, comp : Comps, out : {Fresh.out}]
      /\ Fresh.schema = ctx.schema /\ Fresh.input = ctx.input /\ Fresh.caret_pos = ctx.caret_pos
      /\ Fresh.comp = ctx.comp /\ Fresh.out = NoCommit
  BY GoodFacts DEF CtxType, Fresh
<1>2. Bound(Fresh) = Bound(ctx)
  BY <1>1 DEF Bound
<1>3. CtxType(Fresh)
  BY <1>1, <1>2, GoodFacts DEF CtxType
<1>4. Good(Fresh)
  BY <1>1, <1>2, <1>3, GoodFacts DEF Good, Settled, OutOK, Lined
<1>5. \A d : LineStep(Fresh, d) <=> LineStep(ctx, d)
  BY <1>1 DEF LineStep
<1>6. \A d : Kept(d, Fresh) <=> Kept(d, ctx)
  BY <1>1 DEF Kept, Moves, Keeping
<1>. QED
  BY <1>1, <1>2, <1>4, <1>5, <1>6

LEMMA AddToInputHolds ==
  ASSUME Good(ctx), NEW ch \in Chars, HasRoom, Becomes(AddToInput(Fresh, ch))
  PROVE  Held
<1> DEFINE pushed == PushInput(Fresh, ch)
           d == BeginEditing(pushed)
<1>1. Len(Fresh.input) < Bound(Fresh)
  BY FreshIs DEF HasRoom, MaxLen, Bound
<1>2. /\ Good(pushed) /\ pushed.input = Inserted(Fresh.input, Fresh.caret_pos, ch)
      /\ pushed.caret_pos = Fresh.caret_pos + 1
      /\ Keeping(pushed, Fresh, Fresh.caret_pos) /\ Fresh.caret_pos <= pushed.caret_pos
  BY <1>1, FreshIs, GoodFacts, PushInputIs
<1>. HIDE DEF pushed
<1>3. Good(d) /\ SameLine(d, pushed) /\ Keeping(d, pushed, pushed.caret_pos)
  BY <1>2, BeginEditingIs
<1>4. ctx' = d
  BY DEF Becomes, AddToInput, pushed
<1>. HIDE DEF d
<1>5. LineStep(Fresh, d)
  BY <1>2, <1>3, FreshIs, InsertedStep DEF SameLine
<1>6. Kept(d, Fresh)
  BY <1>2, <1>3, FreshIs, KeptOn
<1>. QED
  BY <1>3, <1>4, <1>5, <1>6, FreshIs DEF Held

LEMMA PunctuateHolds ==
  ASSUME Good(ctx), NEW ch \in Chars, Punctuate(ch)
  PROVE  Held
<1> DEFINE pushed == PushInput(Fresh, ch)
           r == ConfirmCurrentSelection(pushed)
           d == Commit(pushed)
<1>1. Len(Fresh.input) < Bound(Fresh)
  BY FreshIs DEF Punctuate, HasRoom, MaxLen, Bound
<1>2. /\ Good(pushed) /\ pushed.input = Inserted(Fresh.input, Fresh.caret_pos, ch)
      /\ pushed.caret_pos = Fresh.caret_pos + 1
      /\ Keeping(pushed, Fresh, Fresh.caret_pos) /\ Fresh.caret_pos <= pushed.caret_pos
  BY <1>1, FreshIs, GoodFacts, PushInputIs
<1>3. ctx' = IF ~PunctuationIsTranslated(pushed) THEN pushed
             ELSE IF PunctKind = "unique" THEN r.c ELSE d
  BY DEF Punctuate, Becomes
<1>. HIDE DEF pushed
<1>4. CASE ~PunctuationIsTranslated(pushed)
  <2>1. LineStep(Fresh, pushed)
    BY <1>2, FreshIs, InsertedStep
  <2>2. Kept(pushed, Fresh)
    BY <1>2, FreshIs, KeepingItself, KeptOn
  <2>. QED
    BY <1>2, <1>3, <1>4, <2>1, <2>2, FreshIs DEF Held
<1>5. CASE PunctuationIsTranslated(pushed) /\ PunctKind = "unique"
  <2>1. pushed.comp.segs # <<>> /\ HasCandidate(Last(pushed.comp.segs))
    BY <1>5 DEF PunctuationIsTranslated
  <2>2. Good(r.c) /\ Taken(r.c, pushed)
    BY <1>2, <2>1, ConfirmCurrentSelectionIs
  <2>. HIDE DEF r
  <2>3. LineStep(Fresh, r.c)
    <3>1. CASE Emptied(r.c)
      BY <3>1, FreshIs, EmptiedStep
    <3>2. CASE ~Emptied(r.c)
      <4>1. /\ r.c.input = Inserted(Fresh.input, Fresh.caret_pos, ch)
            /\ r.c.caret_pos \in {Fresh.caret_pos + 1, Len(r.c.input)}
        BY <1>2, <2>2, <3>2 DEF Taken
      <4>. QED
        BY <4>1, FreshIs, InsertedStep
    <3>. QED
      BY <3>1, <3>2
  <2>4. Kept(r.c, Fresh)
    <3>1. CASE Emptied(r.c)
      BY <3>1, FreshIs, EmptiedIsKept
    <3>2. CASE Keeping(r.c, pushed, pushed.caret_pos)
      BY <1>2, <3>2, FreshIs, KeptOn
    <3>. QED
      BY <2>2, <3>1, <3>2 DEF Taken
  <2>. QED
    BY <1>3, <1>5, <2>2, <2>3, <2>4, FreshIs DEF Held
<1>6. CASE PunctuationIsTranslated(pushed) /\ PunctKind # "unique"
  <2>1. Good(d) /\ Emptied(d)
    BY <1>2, CommitIs
  <2>. HIDE DEF d
  <2>2. LineStep(Fresh, d) /\ Kept(d, Fresh)
    BY <2>1, FreshIs, EmptiedStep, EmptiedIsKept
  <2>. QED
    BY <1>3, <1>6, <2>1, <2>2, FreshIs DEF Held
<1>. QED
  BY <1>4, <1>5, <1>6

\* A key after which the line is what it was, or empty, or shorter
LEMMA Holds ==
  ASSUME Good(ctx), NEW d, Good(d), ctx' = d,
         SameLine(d, Fresh) \/ Emptied(d) \/ Taken(d, Fresh) \/ Shortened(d, Fresh)
  PROVE  Held
<1>1. SameLine(d, Fresh) => Shortened(d, Fresh)
  BY DEF SameLine, Shortened
<1>2. LineStep(Fresh, d)
  BY <1>1, FreshIs, EmptiedStep, TakenStep, ShortenedStep
<1>3. Kept(d, Fresh)
  BY <1>1, FreshIs, EmptiedIsKept, TakenIsKept, ShortenedIsKept
<1>. QED
  BY <1>2, <1>3, FreshIs DEF Held

LEMMA TypingHolds ==
  ASSUME Good(ctx), Typing
  PROVE  Held
<1>1. ASSUME NEW ch \in Letters, SpellLetter(ch) PROVE Held
  BY <1>1, AddToInputHolds DEF SpellLetter, Chars
<1>2. ASSUME NEW ch \in Delimiters, SpellDelimiter(ch) PROVE Held
  BY <1>2, AddToInputHolds DEF SpellDelimiter, Chars
<1>3. ASSUME NEW ch \in Delimiters, AddDelimiter(ch) PROVE Held
  BY <1>3, AddToInputHolds DEF AddDelimiter, Chars
<1>4. ASSUME NEW ch \in Puncts, Punctuate(ch) PROVE Held
  BY <1>4, PunctuateHolds DEF Chars
<1>. QED
  BY <1>1, <1>2, <1>3, <1>4 DEF Typing

LEMMA PageStartIs ==
  ASSUME NEW index \in Nat
  PROVE  PageStart(index) \in Nat
<1>1. PageSize \in Nat \ {0}
  BY ContextAssumption
<1>2. index \div PageSize \in Nat
  BY <1>1
<1> DEFINE page == index \div PageSize
<1>. HIDE DEF page
<1>3. page * PageSize \in Nat
  BY <1>1, <1>2 DEF page
<1>. QED
  BY <1>3 DEF PageStart, page

LEMMA MoveHighlightHolds ==
  ASSUME Good(ctx), ctx.comp.segs # <<>>, NEW index \in Nat, MoveHighlight(index)
  PROVE  Held
<1> DEFINE d == [Fresh EXCEPT !.comp.segs = SetLast(@, [Last(@) EXCEPT !.selected_index = index])]
<1>1. ctx' = d
  BY DEF MoveHighlight, Becomes
<1>2. Good(d) /\ SameLine(d, Fresh)
  BY FreshIs, HighlightIs
<1>. HIDE DEF d
<1>. QED
  BY <1>1, <1>2, Holds

LEMMA SelectingHolds ==
  ASSUME Good(ctx), Selecting
  PROVE  Held
<1>1. ASSUME ctx.comp.segs # <<>>, HasMenu(ctx)
      PROVE  /\ Highlighted \in Nat /\ CandidateCount \in Nat \ {0} /\ PageSize \in Nat \ {0}
             /\ PageStart(Highlighted) \in Nat
  <2>1. /\ Last(ctx.comp.segs).selected_index \in Nat /\ Last(ctx.comp.segs).menu \in Seq(Nat)
        /\ Last(ctx.comp.segs).menu # <<>>
    BY <1>1, GoodFacts, SegmentType1 DEF HasMenu
  <2>2. Len(Last(ctx.comp.segs).menu) \in Nat \ {0}
    BY <2>1, LastIs
  <2>. QED
    BY <2>1, <2>2, ContextAssumption, PageStartIs DEF Highlighted, CandidateCount
<1>2. ASSUME NEW index \in 0..(PageSize - 1), SelectCandidateAt(index) PROVE Held
  <2> DEFINE pos == PageStart(Highlighted) + index
             d == Select(Fresh, pos).c
  <2>1. pos \in Nat
    BY <1>1, <1>2 DEF SelectCandidateAt, SelectorActive
  <2>2. ctx' = d
    BY <1>2 DEF SelectCandidateAt, Becomes
  <2>. HIDE DEF pos
  <2>3. Good(d) /\ Taken(d, Fresh)
    BY <2>1, FreshIs, SelectIs
  <2>. HIDE DEF d
  <2>. QED
    BY <2>2, <2>3, Holds
<1>3. ASSUME NextCandidate PROVE Held
  <2>1. Highlighted + 1 \in Nat /\ ctx.comp.segs # <<>>
    BY <1>1, <1>3 DEF NextCandidate, SelectorActive
  <2>. QED
    BY <1>3, <2>1, MoveHighlightHolds DEF NextCandidate
<1>4. ASSUME PreviousCandidate PROVE Held
  <2>1. Highlighted - 1 \in Nat /\ ctx.comp.segs # <<>>
    BY <1>1, <1>4 DEF PreviousCandidate, SelectorActive
  <2>. QED
    BY <1>4, <2>1, MoveHighlightHolds DEF PreviousCandidate
<1>5. ASSUME NextPage PROVE Held
  <2> DEFINE index == IF Highlighted + PageSize < CandidateCount THEN Highlighted + PageSize
                      ELSE CandidateCount - 1
  <2>1. index \in Nat /\ ctx.comp.segs # <<>>
    BY <1>1, <1>5 DEF NextPage, SelectorActive
  <2>2. MoveHighlight(index)
    BY <1>5 DEF NextPage
  <2>. HIDE DEF index
  <2>. QED
    BY <2>1, <2>2, MoveHighlightHolds
<1>6. ASSUME PreviousPage PROVE Held
  <2> DEFINE index == IF Highlighted < PageSize THEN 0 ELSE Highlighted - PageSize
  <2>1. index \in Nat /\ ctx.comp.segs # <<>>
    BY <1>1, <1>6 DEF PreviousPage, SelectorActive
  <2>2. MoveHighlight(index)
    BY <1>6 DEF PreviousPage
  <2>. HIDE DEF index
  <2>. QED
    BY <2>1, <2>2, MoveHighlightHolds
<1>7. ASSUME FirstCandidate PROVE Held
  <2>1. 0 \in Nat /\ ctx.comp.segs # <<>> /\ MoveHighlight(0)
    BY <1>7 DEF FirstCandidate, SelectorActive
  <2>. QED
    BY <2>1, MoveHighlightHolds
<1>8. ASSUME HasMenu(ctx), NEW index \in 0..(CandidateCount - 1), Highlight(index) PROVE Held
  <2> DEFINE lit == [Fresh EXCEPT !.comp.segs = SetLast(@, [Last(@) EXCEPT !.selected_index = index])]
             d == Compose(lit)
  <2>1. index \in Nat /\ Fresh.comp.segs # <<>>
    BY <1>1, <1>8, FreshIs DEF HasMenu
  <2>2. Good(lit) /\ SameLine(lit, Fresh)
    BY <2>1, FreshIs, HighlightIs
  <2>3. ctx' = d
    BY <1>8 DEF Highlight, Becomes
  <2>. HIDE DEF lit
  <2>4. Good(d) /\ SameLine(d, lit)
    BY <2>2, GoodFacts, ComposesGood
  <2>. HIDE DEF d
  <2>5. SameLine(d, Fresh)
    BY <2>2, <2>4 DEF SameLine
  <2>. QED
    BY <2>3, <2>4, <2>5, Holds
<1>. QED
  BY <1>2, <1>3, <1>4, <1>5, <1>6, <1>7, <1>8 DEF Selecting

LEMMA MoveCaretHolds ==
  ASSUME Good(ctx), NEW pos \in Nat, MoveCaret(pos)
  PROVE  Held
<1> DEFINE begun == BeginMove
           d == set_caret_pos(begun, pos)
<1>1. Good(begun) /\ SameLine(begun, Fresh) /\ \A before : Keeping(begun, Fresh, before)
  BY FreshIs, BeginEditingIs DEF BeginMove
<1>2. ctx' = IF pos = ctx.caret_pos THEN begun ELSE d
  BY DEF MoveCaret, Becomes
<1>. HIDE DEF begun
<1>3. CASE pos = ctx.caret_pos
  BY <1>1, <1>2, <1>3, Holds
<1>4. CASE pos # ctx.caret_pos
  <2>1. /\ Good(d) /\ d.input = begun.input /\ d.caret_pos \in 0..Len(begun.input)
        /\ \A before \in Nat : before <= d.caret_pos => Keeping(d, begun, before)
    BY <1>1, SetCaretGood
  <2>2. ctx' = d
    BY <1>2, <1>4
  <2>. HIDE DEF d
  <2>3. LineStep(ctx, d)
    BY <1>1, <2>1, FreshIs DEF LineStep, SameLine
  <2>4. Kept(d, Fresh)
    BY <1>1, <2>1, KeepingOn DEF Kept
  <2>. QED
    BY <2>1, <2>2, <2>3, <2>4, FreshIs DEF Held
<1>. QED
  BY <1>3, <1>4

LEMMA HomePosIs ==
  ASSUME Good(ctx)
  PROVE  HomePos \in Nat
<1> DEFINE n == Len(ctx.comp.segs)
           open == {i \in 1..n : \A j \in i..n : ctx.comp.segs[j].status < kSelected}
           first == CHOOSE i \in open : \A j \in open : i <= j
<1>1. n \in Nat /\ ctx.comp.segs \in Seq(Segment) /\ ctx.caret_pos \in Nat
  BY GoodFacts
<1>2. ASSUME open # {} PROVE ctx.comp.segs[first].start \in Nat
  <2>1. open \in SUBSET Nat
    BY <1>1
  <2>2. \E i \in open : \A j \in open : i <= j
    BY <1>2, <2>1, LeastNumber
  <2>3. first \in open
    BY <2>2
  <2>4. first \in 1..n
    BY <2>3
  <2>. HIDE DEF first
  <2>. QED
    BY <1>1, <2>4, SegmentType1
<1>. HIDE DEF first
<1>. QED
  BY <1>1, <1>2 DEF HomePos, first

LEMMA MovingHolds ==
  ASSUME Good(ctx), Moving
  PROVE  Held
<1>1. ctx.caret_pos \in Nat /\ Len(ctx.input) \in Nat /\ HomePos \in Nat
  BY GoodFacts, HomePosIs
<1>2. ASSUME LeftByChar PROVE Held
  <2> DEFINE pos == IF ctx.caret_pos > 0 THEN ctx.caret_pos - 1 ELSE Len(ctx.input)
  <2>1. pos \in Nat /\ MoveCaret(pos)
    BY <1>1, <1>2 DEF LeftByChar
  <2>. HIDE DEF pos
  <2>. QED
    BY <2>1, MoveCaretHolds
<1>3. ASSUME RightByChar PROVE Held
  <2> DEFINE pos == IF ctx.caret_pos < Len(ctx.input) THEN ctx.caret_pos + 1 ELSE HomePos
  <2>1. pos \in Nat /\ MoveCaret(pos)
    BY <1>1, <1>3 DEF RightByChar
  <2>. HIDE DEF pos
  <2>. QED
    BY <2>1, MoveCaretHolds
<1>4. ASSUME Home PROVE Held
  BY <1>1, <1>4, MoveCaretHolds DEF Home
<1>5. ASSUME End PROVE Held
  <2> DEFINE pos == Len(ctx.input)
  <2>1. pos \in Nat /\ MoveCaret(pos)
    BY <1>1, <1>5 DEF End
  <2>. HIDE DEF pos
  <2>. QED
    BY <2>1, MoveCaretHolds
<1>6. ASSUME NEW stop \in 0..MaxLen, JumpBySyllable(stop) PROVE Held
  <2>1. stop \in Nat /\ MoveCaret(stop)
    BY <1>1, <1>6 DEF JumpBySyllable
  <2>. QED
    BY <2>1, MoveCaretHolds
<1>. QED
  BY <1>2, <1>3, <1>4, <1>5, <1>6 DEF Moving

LEMMA EditingHolds ==
  ASSUME Good(ctx), Editing
  PROVE  Held
<1>0. Good(Fresh)
  BY FreshIs
<1>1. ASSUME Space PROVE Held
  <2> DEFINE d == Confirm(Fresh)
  <2>1. Good(d) /\ Taken(d, Fresh) /\ ctx' = d
    BY <1>0, <1>1, ConfirmIs DEF Space, Becomes
  <2>. HIDE DEF d
  <2>. QED
    BY <2>1, Holds
<1>2. ASSUME BackSpace PROVE Held
  <2> DEFINE d == IF Editor = "express" THEN RevertLastEdit(Fresh) ELSE BackToPreviousInput(Fresh)
  <2>1. ctx' = d
    BY <1>2 DEF BackSpace, Becomes
  <2>2. Good(d) /\ Shortened(d, Fresh)
    BY <1>0, RevertLastEditIs, BackToPreviousInputIs
  <2>. HIDE DEF d
  <2>. QED
    BY <2>1, <2>2, Holds
<1>3. ASSUME Return PROVE Held
  <2> DEFINE d == IF Editor = "express" THEN CommitRawInput(Fresh) ELSE CommitComposition(Fresh)
  <2>1. ctx' = d
    BY <1>3 DEF Return, Becomes
  <2>2. Good(d) /\ (Emptied(d) \/ Taken(d, Fresh))
    BY <1>0, CommitRawInputIs, CommitCompositionIs
  <2>. HIDE DEF d
  <2>. QED
    BY <2>1, <2>2, Holds
<1>4. ASSUME ReturnRaw PROVE Held
  <2> DEFINE d == CommitRawInput(Fresh)
  <2>1. Good(d) /\ Emptied(d) /\ ctx' = d
    BY <1>0, <1>4, CommitRawInputIs DEF ReturnRaw, Becomes
  <2>. HIDE DEF d
  <2>. QED
    BY <2>1, Holds
<1>5. ASSUME ReturnScript PROVE Held
  <2> DEFINE d == CommitScriptText(Fresh)
  <2>1. Good(d) /\ Emptied(d) /\ ctx' = d
    BY <1>0, <1>5, CommitScriptTextIs DEF ReturnScript, Becomes
  <2>. HIDE DEF d
  <2>. QED
    BY <2>1, Holds
<1>6. ASSUME Delete PROVE Held
  <2> DEFINE d == DeleteInput(Fresh).c
  <2>1. ctx' = d
    BY <1>6 DEF Delete, Becomes
  <2>2. /\ Good(d)
        /\ \/ d = Fresh
           \/ /\ Fresh.caret_pos < Len(Fresh.input) /\ d.caret_pos = Fresh.caret_pos
              /\ d.input = Erase(Fresh.input, Fresh.caret_pos, 1)
    BY <1>0, DeleteInputIs
  <2>. HIDE DEF d
  <2>3. CASE d = Fresh
    BY <2>1, <2>2, <2>3, Holds DEF SameLine
  <2>4. CASE d # Fresh
    <3>1. LineStep(Fresh, d)
      BY <1>0, <2>2, <2>4, DeletedStep
    <3>2. /\ Fresh.input \in Seq(Chars) /\ Fresh.caret_pos \in Nat /\ Len(Fresh.input) \in Nat
          /\ Fresh.caret_pos + 1 <= Len(Fresh.input) /\ 1 \in Nat
      BY <1>0, <2>2, <2>4, GoodFacts
    <3>3. Len(d.input) = Len(Fresh.input) - 1
      <4> DEFINE str == Fresh.input
                 pos == Fresh.caret_pos
                 one == 1
      <4>1. /\ str \in Seq(Chars) /\ pos \in Nat /\ one \in Nat /\ pos + one <= Len(str)
            /\ d.input = Erase(str, pos, one)
        BY <2>2, <2>4, <3>2
      <4>. HIDE DEF str, pos, one
      <4>2. Len(Erase(str, pos, one)) = Len(str) - one
        BY <4>1, EraseIs
      <4>. QED
        BY <4>1, <4>2 DEF str, one
    <3>4. Kept(d, Fresh)
      BY <1>0, <3>2, <3>3, ShorterIsKept
    <3>. QED
      BY <2>1, <2>2, <3>1, <3>4, FreshIs DEF Held
  <2>. QED
    BY <2>3, <2>4
<1>7. ASSUME Escape PROVE Held
  <2> DEFINE r == ClearPreviousSegment(Fresh)
             cleared == Clear(r.c)
             d == CancelComposition(Fresh)
  <2>1. ctx' = d
    BY <1>7 DEF Escape, Becomes
  <2>2. d = IF r.ok THEN r.c ELSE cleared
    BY DEF CancelComposition, FirstOf, OrElse, ClearDone, Done
  <2>3. /\ Good(r.c) /\ r.ok \in BOOLEAN
        /\ r.ok => \E n \in 0..Len(Fresh.input) :
                     /\ n < Len(Fresh.input)
                     /\ r.c.input = SubString(Fresh.input, 0, n) /\ r.c.caret_pos = n
    BY <1>0, ClearPreviousSegmentIs
  <2>4. Good(cleared) /\ Emptied(cleared)
    BY <2>3, ClearsGood
  <2>. HIDE DEF r, cleared, d
  <2>5. CASE r.ok
    <3>1. PICK n \in 0..Len(Fresh.input) :
                     /\ n < Len(Fresh.input)
                     /\ r.c.input = SubString(Fresh.input, 0, n) /\ r.c.caret_pos = n
      BY <2>3, <2>5
    <3>2. r.c.input = SubSeq(Fresh.input, 1, n)
      BY <3>1, SubStringFrom0
    <3>3. LineStep(Fresh, r.c)
      BY <3>1, <3>2 DEF LineStep
    <3>4. Len(r.c.input) \in Nat /\ Len(r.c.input) < Len(Fresh.input)
      <4>1. Fresh.input \in Seq(Chars) /\ n \in Nat /\ n <= Len(Fresh.input)
        BY <1>0, <3>1, GoodFacts
      <4>. QED
        BY <3>1, <4>1, LineStart
    <3>5. Kept(r.c, Fresh)
      BY <1>0, <3>4, ShorterIsKept
    <3>. QED
      BY <2>1, <2>2, <2>3, <2>5, <3>3, <3>5, FreshIs DEF Held
  <2>6. CASE ~r.ok
    BY <2>1, <2>2, <2>4, <2>6, Holds
  <2>. QED
    BY <2>3, <2>5, <2>6
<1>8. ASSUME NEW stop \in 0..MaxLen, BackSyllable(stop) PROVE Held
  <2> DEFINE d == BackToPreviousSyllable(Fresh, stop)
  <2>0. stop \in Nat
    BY <1>8
  <2>1. Good(d) /\ Shortened(d, Fresh) /\ ctx' = d
    BY <1>0, <1>8, <2>0, BackToPreviousSyllableIs DEF BackSyllable, Becomes
  <2>. HIDE DEF d
  <2>. QED
    BY <2>1, Holds
<1>9. ASSUME DirectCommit PROVE Held
  <2> DEFINE d == Commit(Fresh)
  <2>1. Good(d) /\ Emptied(d) /\ ctx' = d
    BY <1>0, <1>9, CommitIs DEF DirectCommit, Becomes
  <2>. HIDE DEF d
  <2>. QED
    BY <2>1, Holds
<1>. QED
  BY <1>1, <1>2, <1>3, <1>4, <1>5, <1>6, <1>7, <1>8, <1>9 DEF Editing

LEMMA ApiHolds ==
  ASSUME Good(ctx), Api
  PROVE  Held
<1>0. Good(Fresh)
  BY FreshIs
<1>1. ASSUME ApiCommit PROVE Held
  <2> DEFINE d == Commit(Fresh)
  <2>1. Good(d) /\ Emptied(d) /\ ctx' = d
    BY <1>0, <1>1, CommitIs DEF ApiCommit, Becomes
  <2>. HIDE DEF d
  <2>. QED
    BY <2>1, Holds
<1>2. ASSUME ApiClear PROVE Held
  <2> DEFINE d == Clear(Fresh)
  <2>1. Good(d) /\ Emptied(d) /\ ctx' = d
    BY <1>0, <1>2, ClearsGood DEF ApiClear, Becomes
  <2>. HIDE DEF d
  <2>. QED
    BY <2>1, Holds
<1>3. ASSUME Refresh PROVE Held
  <2> DEFINE d == RefreshNonConfirmedComposition(Fresh)
  <2>1. Good(d) /\ SameLine(d, Fresh) /\ ctx' = d
    BY <1>0, <1>3, RefreshIs DEF Refresh, Becomes
  <2>. HIDE DEF d
  <2>. QED
    BY <2>1, Holds
<1>. QED
  BY <1>1, <1>2, <1>3 DEF Api

LEMMA NextHolds ==
  ASSUME Good(ctx), Next
  PROVE  Held
BY TypingHolds, SelectingHolds, MovingHolds, EditingHolds, ApiHolds DEF Next

LEMMA InitGood ==
  ASSUME Init
  PROVE  Good(ctx) /\ Emptied(ctx)
<1>1. PICK schema \in Schemas : ctx = EmptyContext(schema)
  BY DEF Init
<1> DEFINE none == <<>>
           comp == [input |-> none, segs |-> none]
<1>2. none \in Seq(Chars) /\ none \in Seq(Segment) /\ Len(none) = 0
  BY EmptySeq
<1>3. schema.max_len \in Nat
  BY ContextAssumption DEF SchemaType
<1>4. Shaped(none, none, schema.max_len) /\ Open(none) /\ Within(none, 0) /\ Offered(none)
  BY <1>2, NoSegments DEF Offered
<1>5. /\ ctx.schema = schema /\ ctx.input = none /\ ctx.caret_pos = 0 /\ ctx.comp = comp
      /\ ctx.out = NoCommit
      /\ ctx = [schema |-> schema, input |-> none, caret_pos |-> 0, comp |-> comp, out |-> NoCommit]
  BY <1>1 DEF EmptyContext
<1>. HIDE DEF none
<1>6. comp \in Comps /\ comp.input = none /\ comp.segs = none
  BY <1>2 DEF Comps
<1>. HIDE DEF comp
<1>7. ctx \in [schema : Schemas, input : Seq(Chars), caret_pos : Nat, comp : Comps, out : {ctx.out}]
  BY <1>2, <1>5, <1>6
<1>8. CtxType(ctx)
  BY <1>2, <1>3, <1>5, <1>6, <1>7 DEF CtxType, Bound
<1>9. CompOK(ctx.comp, Bound(ctx))
  BY <1>2, <1>3, <1>4, <1>5, <1>6 DEF CompOK, Bound
<1>9a. Lined(ctx)
  <2>1. CurrentEnd(comp) = 0
    BY <1>6 DEF CurrentEnd, none
  <2>. QED
    BY <1>2, <1>5, <1>6, <2>1 DEF Lined
<1>10. Good(ctx)
  BY <1>4, <1>5, <1>6, <1>8, <1>9, <1>9a DEF Good, Settled, OutOK
<1>. QED
  BY <1>5, <1>10 DEF Emptied, none

-----------------------------------------------------------------------------
(* The theorems *)

LEMMA Narrowed ==
  ASSUME NEW S, NEW T, NEW s \in Seq(S), \A k \in 1..Len(s) : s[k] \in T
  PROVE  s \in Seq(T)
<1>1. s = [k \in 1..Len(s) |-> s[k]] /\ Len(s) \in Nat
  OBVIOUS
<1>. QED
  BY <1>1

LEMMA GoodStep ==
  ASSUME Good(ctx), [Next]_ctx
  PROVE  Good(ctx') /\ (ctx' = ctx \/ (LineStep(ctx, ctx') /\ Kept(ctx', ctx)))
<1>1. CASE Next
  BY <1>1, NextHolds DEF Held
<1>2. CASE ctx' = ctx
  BY <1>2
<1>. QED
  BY <1>1, <1>2

\* The inductive invariant: the composition stays in shape, its last segment
\* is open, nothing is on offer where nothing was translated, and what was
\* committed was spelled as the composition had it.
THEOREM AlwaysGood == Spec => []Good(ctx)
<1>1. Init => Good(ctx)
  BY InitGood
<1>2. Good(ctx) /\ [Next]_ctx => Good(ctx)'
  <2>1. SUFFICES ASSUME Good(ctx), [Next]_ctx PROVE Good(ctx')
    OBVIOUS
  <2>. QED
    BY <2>1, GoodStep
<1>. QED
  BY <1>1, <1>2, PTL DEF Spec

\* Every part of the context has its type; the caret is in the code, and no
\* segment ends beyond the longest code the speller accepts.
THEOREM TypeCorrect == Spec => []TypeOK
<1>1. Good(ctx) => TypeOK
  <2>1. SUFFICES ASSUME Good(ctx) PROVE TypeOK
    OBVIOUS
  <2> DEFINE segs == ctx.comp.segs
  <2>2. /\ ctx.schema \in Schemas /\ ctx.input \in Seq(Chars) /\ Len(ctx.input) <= MaxLen
        /\ ctx.caret_pos \in 0..Len(ctx.input) /\ ctx.comp.input \in Seq(Chars)
        /\ segs \in Seq(Segment) /\ MaxLen \in Nat
        /\ \A i \in 1..Len(segs) : SegmentOK(segs[i], ctx.comp.input, MaxLen)
    BY <2>1, GoodFacts, CompTypes DEF MaxLen, Bound, CompOK, Shaped
  <2>3. ASSUME NEW i \in 1..Len(segs) PROVE segs[i] \in SegmentType
    <3> DEFINE seg == segs[i]
    <3>1. /\ seg \in Segment /\ seg.start \in Nat /\ seg.end \in Nat /\ seg.length \in Nat
          /\ seg.menu \in Seq(Nat) /\ SegmentOK(seg, ctx.comp.input, MaxLen)
      BY <2>2, SegmentType1
    <3>. HIDE DEF segs, seg
    <3>2. /\ seg.start <= seg.end /\ seg.end <= MaxLen /\ seg.start + seg.length <= MaxLen
          /\ \A k \in DOMAIN seg.menu : seg.menu[k] <= seg.start + seg.length
      BY <3>1 DEF SegmentOK, Offers, OriginalEnd
    <3>3. seg.start \in 0..MaxLen /\ seg.end \in 0..MaxLen /\ seg.length \in 0..MaxLen
      BY <2>2, <3>1, <3>2
    <3>4. seg.menu \in Seq(0..MaxLen)
      <4>1. DOMAIN seg.menu = 1..Len(seg.menu) /\ Len(seg.menu) \in Nat
        BY <3>1, LenProperties
      <4>2. \A k \in 1..Len(seg.menu) : seg.menu[k] \in 0..MaxLen
        <5>1. SUFFICES ASSUME NEW k \in 1..Len(seg.menu) PROVE seg.menu[k] \in 0..MaxLen
          OBVIOUS
        <5>2. seg.menu[k] \in Nat
          BY <3>1, <5>1, ElementOfSeq
        <5>3. seg.menu[k] <= seg.start + seg.length
          BY <3>2, <4>1, <5>1
        <5> DEFINE end == seg.menu[k]
        <5>4. end \in Nat /\ end <= seg.start + seg.length
          BY <5>2, <5>3
        <5>. HIDE DEF end
        <5>5. end \in 0..MaxLen
          BY <2>2, <3>1, <3>2, <5>4
        <5>. QED
          BY <5>5 DEF end
      <4>. QED
        BY <3>1, <4>2, Narrowed
    <3>5. seg \in SegmentType
      BY <3>1, <3>3, <3>4 DEF Segment, SegmentType
    <3>. QED
      BY <3>5 DEF seg
  <2>4. segs \in Seq(SegmentType)
    <3>1. Len(segs) \in Nat /\ segs = [i \in 1..Len(segs) |-> segs[i]]
      BY <2>2, LenProperties
    <3>. HIDE DEF segs
    <3>. QED
      BY <2>3, <3>1
  <2>. QED
    BY <2>2, <2>4 DEF TypeOK
<1>. QED
  BY <1>1, AlwaysGood, PTL

\* Whatever is selected, reopened, deleted or inserted, the segments tile the
\* code from its beginning, and only the last of several may be empty
\* (segmentation.cc, engine.cc:154-201).
THEOREM AlwaysTiled == Spec => []Tiling
<1>1. Good(ctx) => Tiling
  <2>1. SUFFICES ASSUME Good(ctx) PROVE Tiling
    OBVIOUS
  <2> DEFINE segs == ctx.comp.segs
  <2>2. /\ segs \in Seq(Segment) /\ Tiled(segs) /\ Within(segs, Len(ctx.comp.input))
        /\ \A i \in 1..Len(segs) : segs[i].start <= segs[i].end
    BY <2>1, GoodFacts DEF CompOK, Shaped, SegmentOK
  <2>3. DOMAIN segs = 1..Len(segs)
    BY <2>2, LenProperties
  <2>4. ASSUME NEW i \in DOMAIN segs
        PROVE  /\ segs[i].start = (IF i = 1 THEN 0 ELSE segs[i - 1].end)
               /\ segs[i].start <= segs[i].end
               /\ segs[i].start = segs[i].end => i = Len(segs) /\ i > 1
               /\ segs[i].end <= Len(ctx.comp.input)
    BY <2>2, <2>3 DEF Tiled, Within, IsEmpty
  <2>. QED
    BY <2>4 DEF Tiling
<1>. QED
  BY <1>1, AlwaysGood, PTL

\* A selected segment ends with its candidate, and what is on offer lies in
\* its segment, for every translator whose candidates are no longer than the
\* code (segmentation.cc:17-55).
THEOREM SelectionsFit == Spec => []SelectionFits
<1>1. Good(ctx) => SelectionFits
  <2>1. SUFFICES ASSUME Good(ctx), NEW i \in DOMAIN ctx.comp.segs
                 PROVE  LET seg == ctx.comp.segs[i]
                        IN  IF IsSelected(seg) THEN HasCandidate(seg) => CandidateEnd(seg) = seg.end
                            ELSE ToSet(seg.menu) \subseteq (seg.start + 1)..seg.end
    BY DEF SelectionFits
  <2> DEFINE seg == ctx.comp.segs[i]
  <2>2. /\ seg \in Segment /\ SegmentOK(seg, ctx.comp.input, Bound(ctx))
        /\ seg.status = kVoid => seg.menu = <<>>
    BY <2>1, GoodFacts, LenProperties DEF CompOK, Shaped, Offered
  <2>. HIDE DEF seg
  <2>3. CASE IsSelected(seg)
    BY <2>2, <2>3 DEF SegmentOK, Offers, seg
  <2>4. CASE ~IsSelected(seg)
    <3>1. SUFFICES ASSUME NEW k \in DOMAIN seg.menu
                   PROVE  seg.menu[k] \in (seg.start + 1)..seg.end
      BY <2>4 DEF ToSet, seg
    <3>2. /\ seg.start \in Nat /\ seg.end \in Nat /\ seg.menu \in Seq(Nat) /\ seg.status \in 0..3
      BY <2>2, SegmentType1
    <3>3. seg.menu[k] \in Nat /\ seg.menu # <<>>
      BY <3>2, LenProperties, ElementOfSeq, EmptySeq
    <3>4. seg.status = kGuess
      BY <2>2, <2>4, <3>2, <3>3, Statuses DEF IsSelected
    <3>5. seg.start < seg.menu[k] /\ seg.menu[k] <= seg.end
      BY <2>2, <3>4 DEF SegmentOK, Offers
    <3>. QED
      BY <3>2, <3>3, <3>5
  <2>. QED
    BY <2>3, <2>4
<1>. QED
  BY <1>1, AlwaysGood, PTL

\* What reaches the application uses no code twice or out of order, and leaves
\* out only what a highlighted candidate does not reach (composition.cc:26-120).
THEOREM CommitsAreFaithful == Spec => []CommitFaithful
<1>1. Good(ctx) => CommitFaithful
  BY DEF Good, OutOK, OutFaithful, CommitFaithful
<1>. QED
  BY <1>1, AlwaysGood, PTL

\* Every key is an edit of a line with a caret, or does not touch the line:
\* the context implements InputLine.
THEOREM IsInputLine == Spec => LineSpec
<1>1. Init => Line!InputLineInit
  BY InitGood DEF Emptied, Line!InputLineInit
<1>2. Good(ctx) /\ [Next]_ctx => [Line!InputLineNext]_<<ctx.input, ctx.caret_pos>>
  <2>1. SUFFICES ASSUME Good(ctx), [Next]_ctx
                 PROVE  [Line!InputLineNext]_<<ctx.input, ctx.caret_pos>>
    OBVIOUS
  <2>2. CASE ctx' = ctx
    BY <2>2
  <2>3. CASE LineStep(ctx, ctx')
    <3>1. CASE \E ch \in Chars :
                 /\ ctx'.input = InsertAt(ctx.input, ctx.caret_pos + 1, ch)
                 /\ ctx'.caret_pos \in {ctx.caret_pos + 1, Len(ctx'.input)}
      <4>1. \E ch \in Chars : Line!Insert(ch)
        BY <3>1 DEF Line!Insert, Line!InsertAt, InsertAt
      <4>. QED
        BY <4>1 DEF Line!InputLineNext
    <3>2. CASE \E n \in 1..ctx.caret_pos :
                 /\ ctx'.input = SubSeq(ctx.input, 1, ctx.caret_pos - n)
                                   \o SubSeq(ctx.input, ctx.caret_pos + 1, Len(ctx.input))
                 /\ ctx'.caret_pos = ctx.caret_pos - n
      <4>1. \E n \in 1..ctx.caret_pos : Line!DeleteBefore(n)
        BY <3>2 DEF Line!DeleteBefore
      <4>. QED
        BY <4>1 DEF Line!InputLineNext
    <3>3. CASE /\ ctx.caret_pos < Len(ctx.input)
               /\ ctx'.input = RemoveAt(ctx.input, ctx.caret_pos + 1)
               /\ ctx'.caret_pos = ctx.caret_pos
      <4>1. Line!DeleteAfter
        BY <3>3 DEF Line!DeleteAfter, Line!RemoveAt, RemoveAt
      <4>. QED
        BY <4>1 DEF Line!InputLineNext
    <3>4. CASE ctx'.input = ctx.input /\ ctx'.caret_pos \in 0..Len(ctx.input)
      BY <3>4 DEF Line!InputLineNext, Line!Move
    <3>5. CASE \E n \in 0..Len(ctx.input) :
                 ctx'.input = SubSeq(ctx.input, 1, n) /\ ctx'.caret_pos = n
      <4>1. \E n \in 0..Len(ctx.input) : Line!Truncate(n)
        BY <3>5 DEF Line!Truncate
      <4>. QED
        BY <4>1 DEF Line!InputLineNext
    <3>. QED
      BY <2>3, <3>1, <3>2, <3>3, <3>4, <3>5 DEF LineStep
  <2>. QED
    BY <2>1, <2>2, <2>3, GoodStep
<1>. QED
  BY <1>1, <1>2, AlwaysGood, PTL DEF Spec, LineSpec, Line!InputLineSpec

\* A key that inserts code or moves the caret leaves every selected segment
\* before the caret as the user has chosen it, but for a raw one, which the
\* next raw character reopens.
THEOREM SelectionsStay == Spec => SelectionsKept
<1> DEFINE Keeps ==
      InsertsOrMoves =>
        \A seg \in ToSet(ctx.comp.segs) :
          /\ IsSelected(seg)
          /\ "raw" \notin seg.tags
          /\ seg.end <= Min({ctx.caret_pos, ctx'.caret_pos})
          => \E kept \in ToSet(ctx'.comp.segs) :
               IsSelected(kept) /\ Choice(kept) = Choice(seg)
<1>1. Good(ctx) /\ [Next]_ctx => [Keeps]_ctx
  <2>1. SUFFICES ASSUME Good(ctx), [Next]_ctx, ctx' # ctx, InsertsOrMoves,
                        NEW seg \in ToSet(ctx.comp.segs), IsSelected(seg), "raw" \notin seg.tags,
                        seg.end <= Min({ctx.caret_pos, ctx'.caret_pos})
                 PROVE  \E kept \in ToSet(ctx'.comp.segs) :
                          IsSelected(kept) /\ Choice(kept) = Choice(seg)
    OBVIOUS
  <2>2. Good(ctx') /\ Kept(ctx', ctx)
    BY <2>1, GoodStep
  <2>3. /\ ctx.caret_pos \in Nat /\ ctx'.caret_pos \in Nat
        /\ ctx.comp.segs \in Seq(Segment) /\ ctx'.comp.segs \in Seq(Segment)
    BY <2>1, <2>2, GoodFacts
  <2> DEFINE carets == {ctx.caret_pos, ctx'.caret_pos}
             pos == Min(carets)
  <2>4. pos \in Nat /\ pos <= ctx.caret_pos /\ pos <= ctx'.caret_pos
    <3>1. carets \in SUBSET Nat /\ carets # {}
      BY <2>3
    <3>2. pos \in carets /\ \A n \in carets : pos <= n
      <4>. HIDE DEF carets
      <4>. QED
        BY <3>1, MinIsLeast
    <3>. QED
      BY <2>3, <3>2
  <2>. HIDE DEF pos, carets
  <2>5. Keeping(ctx', ctx, pos)
    BY <2>1, <2>2, <2>4 DEF Kept, Moves, InsertsOrMoves
  <2>6. PICK k \in 1..Len(ctx.comp.segs) : ctx.comp.segs[k] = seg
    BY <2>1, <2>3 DEF ToSet
  <2>7. seg.end <= pos
    BY <2>1 DEF pos, carets
  <2>8. /\ k \in 1..Len(ctx'.comp.segs) /\ IsSelected(ctx'.comp.segs[k])
        /\ Choice(ctx'.comp.segs[k]) = Choice(seg)
    BY <2>1, <2>5, <2>6, <2>7 DEF Keeping
  <2>9. ctx'.comp.segs[k] \in ToSet(ctx'.comp.segs)
    BY <2>3, <2>8 DEF ToSet
  <2>. QED
    BY <2>8, <2>9
<1>. HIDE DEF Keeps
<1>2. Spec => [][Keeps]_ctx
  BY <1>1, AlwaysGood, PTL DEF Spec
<1>. QED
  BY <1>2 DEF Keeps, SelectionsKept
\* BackSpace right after a selection takes the selection back: code, caret and
\* segments are what they were before it, with the candidate that had been
\* selected highlighted.
THEOREM UndoIsExact == Spec => []UndoRestores
<1>1. Good(ctx) => UndoRestores
  <2>1. SUFFICES ASSUME Good(ctx), ctx.comp.segs # <<>>, ctx.caret_pos = Len(ctx.input),
                        OriginalEnd(Last(ctx.comp.segs)) = Last(ctx.comp.segs).end,
                        "selected_before_editing" \notin Last(ctx.comp.segs).tags,
                        NEW index \in 0..(Len(Last(ctx.comp.segs).menu) - 1),
                        StillComposing(Selection(index))
                 PROVE  UndoOf(Selection(index).c) =
                          [Fresh EXCEPT !.comp.segs =
                            SetLast(@, [Last(ctx.comp.segs) EXCEPT !.selected_index = index])]
    BY DEF UndoRestores
  <2>2. /\ Good(Fresh) /\ Fresh.comp = ctx.comp
        /\ Fresh.input = ctx.input /\ Fresh.caret_pos = ctx.caret_pos
    BY <2>1, FreshIs
  <2>3. Undoable(Fresh, index)
    BY <2>1, <2>2 DEF Undoable
  <2>4. UndoOf(Select(Fresh, index).c) = Highlit(Fresh, index)
    BY <2>1, <2>2, <2>3, UndoIs DEF Selection
  <2>. QED
    BY <2>2, <2>4 DEF Selection, Highlit, Lit
<1>. QED
  BY <1>1, AlwaysGood, PTL
=============================================================================
