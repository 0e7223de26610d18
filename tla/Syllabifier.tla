----------------------------- MODULE Syllabifier ----------------------------
(***************************************************************************)
(* How a code is cut into syllables (algo/syllabifier.cc): the graph whose  *)
(* vertices are positions in the code and whose edges are what the prism    *)
(* knows of the code between two of them.                                  *)
(*                                                                         *)
(* A spelling stands for the syllables that it spells with one type, which  *)
(* are treated alike: where it begins, its length and the type.            *)
(***************************************************************************)
EXTENDS Integers, FiniteSetsExt

\* What is to be cut, each a record: length; delimiters, the positions of
\* delimiters; spellings, what the prism matches; strict, strict_spelling_.
CONSTANT Inputs

kNormalSpelling    == 0
kFuzzySpelling     == 1
kAbbreviation      == 2
kCompletion        == 3
kAmbiguousSpelling == 4
kInvalidSpelling   == 5

Spelling(from, length, type) == [from |-> from, length |-> length, type |-> type]

\* The prism's spellings have no delimiters in them.
ASSUME InputsAssumption ==
  \A in \in Inputs :
    /\ in.length \in Nat \ {0} /\ in.strict \in BOOLEAN
    /\ in.delimiters \subseteq 1 .. in.length - 1
    /\ \A sp \in in.spellings :
         /\ sp.from \in 0 .. in.length - 1 /\ sp.length \in 1 .. in.length - sp.from
         /\ sp.type \in {kNormalSpelling, kFuzzySpelling, kAbbreviation}
         /\ sp.from .. sp.from + sp.length - 1 \cap in.delimiters = {}

VARIABLES
  input,     \* one of Inputs
  phase,     \* the loop of BuildSyllableGraph that is running
  queue,     \* positions to visit, with the type of the path to each
  vertices,  \* graph->vertices
  edges,     \* graph->edges, a syllable of an edge being its type
  weak,      \* those whose credibility has been lowered
  farthest,
  i          \* the position the second loop is at

vars == <<input, phase, queue, vertices, edges, weak, farthest, i>>

Vertex(pos, type) == [pos |-> pos, type |-> type]
Edge(from, to, type) == [from |-> from, to |-> to, type |-> type]

-----------------------------------------------------------------------------
(* The first loop goes where a syllable leads.                             *)

\* consume trailing delimiters
EndPos(end) == Min({p \in end .. input.length : p \notin input.delimiters})

\* What the strict option leaves: no fuzzy spelling as a single word
Disqualified(e) ==
  input.strict /\ e.from = 0 /\ e.to = input.length /\ e.type # kNormalSpelling

EdgesFrom(pos) ==
  {e \in {Edge(pos, EndPos(pos + sp.length), sp.type) :
            sp \in {sp \in input.spellings : sp.from = pos}} : ~Disqualified(e)}

\* The order of Vertex, position first
Before(v, w) == v.pos < w.pos \/ (v.pos = w.pos /\ v.type <= w.type)

Top == CHOOSE v \in queue : \A w \in queue : Before(v, w)

\* Mutant: the type of the last syllable is that of the path
EndVerticesOfEdge(v, from) ==
  {Vertex(end, Min({e.type : e \in {e \in from : e.to = end}})) : end \in {e.to : e \in from}}

\* The best type that spells the edge, or that of the path to its start, if
\* this is worse
EndVertices(v, from) ==
  {Vertex(end, Max({v.type, Min({e.type : e \in {e \in from : e.to = end}})})) :
     end \in {e.to : e \in from}}

Visit ==
  /\ phase = "search" /\ queue # {}
  /\ LET v == Top
         from == EdgesFrom(v.pos)
     IN  IF v.pos \in DOMAIN vertices
         THEN queue' = queue \ {v} /\ UNCHANGED <<vertices, edges, farthest>>
         ELSE /\ vertices' = [p \in DOMAIN vertices \cup {v.pos} |->
                                IF p = v.pos THEN v.type ELSE vertices[p]]
              /\ edges' = edges \cup from
              /\ queue' = (queue \ {v}) \cup EndVertices(v, from)
              /\ farthest' = Max({farthest, v.pos})
  /\ UNCHANGED <<input, phase, weak, i>>

Searched ==
  /\ phase = "search" /\ queue = {}
  /\ phase' = "prune" /\ i' = farthest - 1
  /\ UNCHANGED <<input, queue, vertices, edges, weak, farthest>>

-----------------------------------------------------------------------------
(* The second loop goes back and removes what leads nowhere, and what is    *)
(* abbreviated while a path of better types leads as far.                   *)

last_type == Max({vertices[farthest], kFuzzySpelling})

\* The set good: those past i that were not removed
Good == {p \in DOMAIN vertices : p > i}

Kept(pos) == {e \in edges : e.from = pos /\ e.to \in Good /\ e.type <= last_type}

\* Mutant: abbreviations are as ambiguous as the rest
OverlappedByAny(kept) ==
  {x \in edges : /\ \E y \in kept : y.to = x.from
                 /\ \E z \in kept : z.to = x.to}

\* CheckOverlappedSpellings: if Z = YX, the syllables X
Overlapped(kept) ==
  {x \in edges : /\ \E y \in kept : y.to = x.from
                 /\ \E z \in kept : z.to = x.to /\ z.type < kAbbreviation}

Prune ==
  /\ phase = "prune" /\ i >= 0
  /\ IF i \notin DOMAIN vertices THEN UNCHANGED <<vertices, edges, weak>>
     ELSE LET kept == Kept(i)
              xs == Overlapped(kept)
              stale == vertices[i] > last_type \/ kept = {}
          IN  /\ edges' = {e \in edges : e.from # i} \cup (IF stale THEN {} ELSE kept)
              /\ weak' = weak \cup xs
              /\ vertices' = [p \in DOMAIN vertices \ (IF stale THEN {i} ELSE {}) |->
                                IF \E x \in xs : x.from = p THEN kAmbiguousSpelling
                                ELSE vertices[p]]
  /\ i' = i - 1
  /\ UNCHANGED <<input, phase, queue, farthest>>

Pruned ==
  /\ phase = "prune" /\ i < 0
  /\ phase' = "complete"
  /\ UNCHANGED <<input, queue, vertices, edges, weak, farthest, i>>

\* Whether the rest is the beginning of a spelling is up to the prism.
Complete ==
  /\ phase = "complete" /\ phase' = "done"
  /\ \/ /\ farthest < input.length
        /\ edges' = edges \cup {Edge(farthest, input.length, kCompletion)}
        /\ farthest' = input.length
     \/ UNCHANGED <<edges, farthest>>
  /\ UNCHANGED <<input, queue, vertices, weak, i>>

-----------------------------------------------------------------------------
Init ==
  /\ input \in Inputs
  /\ phase = "search" /\ queue = {Vertex(0, kNormalSpelling)}
  /\ vertices = <<>> /\ edges = {} /\ weak = {} /\ farthest = 0 /\ i = -1

Next == Visit \/ Searched \/ Prune \/ Pruned \/ Complete

Spec == Init /\ [][Next]_vars

-----------------------------------------------------------------------------
(* Reference: the graph defined by its paths.                              *)

AllEdges == UNION {EdgesFrom(pos) : pos \in 0 .. input.length - 1}

\* Positions that paths of no worse type lead to
ReachedBy(type) ==
  LET all == AllEdges
      reached[p \in 0 .. input.length] ==
        p = 0 \/ \E e \in all : e.to = p /\ e.type <= type /\ reached[e.from]
  IN  {p \in 0 .. input.length : reached[p]}

LeadingTo(goal, type) ==
  LET all == AllEdges
      leads[p \in 0 .. goal] ==
        p = goal \/ \E e \in all : e.from = p /\ e.to <= goal /\ e.type <= type /\ leads[e.to]
  IN  {p \in 0 .. goal : leads[p]}

Goal == Max(ReachedBy(kInvalidSpelling))
BestType(pos) ==
  Min({t \in kNormalSpelling .. kInvalidSpelling : pos \in ReachedBy(t)})
Tolerated == Max({BestType(Goal), kFuzzySpelling})

\* Edges that lead to the goal by types that are tolerated
Leading ==
  LET type == Tolerated
      leads == LeadingTo(Goal, type)
      visited == ReachedBy(kInvalidSpelling)
  IN  {e \in AllEdges : e.type <= type /\ e.from \in visited /\ e.to \in leads}
OnPaths == LET reached == ReachedBy(Tolerated) IN {e \in Leading : e.from \in reached}

\* The graph consists of the paths as far as any path leads, none missing and
\* no dead end, whose types are not worse than those of the best such path,
\* fuzzy ones being tolerated beside normal ones ("there is a path of more
\* favored type"), and the last vertex has that type (BuildSyllableGraph).
GraphIsPaths ==
  phase \in {"complete", "done"} =>
    /\ {e \in edges : e.type # kCompletion} = OnPaths
    /\ DOMAIN vertices = ReachedBy(Tolerated) \cap LeadingTo(Goal, Tolerated)
    /\ vertices[Goal] = BestType(Goal)
    /\ farthest \in {Goal, input.length}

\* "if Z = YX, mark the vertex between Y and X an ambiguous syllable joint": a
\* syllable is discouraged if and only if it is the X of such a pair, Z not
\* being an abbreviation; and only the vertices before such syllables are
\* marked.  Z and Y may have been removed with the vertex where they begin.
AmbiguousJoints ==
  phase = "done" =>
    /\ LET leading == Leading
       IN  weak = {x \in OnPaths : \E y, z \in leading :
                     /\ y.from = z.from /\ y.to = x.from /\ x.to = z.to
                     /\ z.type < kAbbreviation}
    /\ {p \in DOMAIN vertices : vertices[p] = kAmbiguousSpelling} = {x.from : x \in weak}

=============================================================================
