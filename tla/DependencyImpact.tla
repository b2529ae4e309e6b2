--------------------------- MODULE DependencyImpact ---------------------------
(***************************************************************************)
(* The impact traversal of src/src/doraops/continuity.py over the          *)
(* dependency edges of module Inventory: which nodes are within a number   *)
(* of edges of the origins of a disruption, and which edges say so.        *)
(***************************************************************************)
EXTENDS Inventory, Sequences

CONSTANT MaxDepth   \* bound on maximum_depth

ASSUME DependencyImpactAssumption == MaxDepth \in Nat

Direction == {"outbound", "inbound", "both"}

RegisteredEdges(e) == {d \in Edge : edges[e][d] # None}

\* The candidates an edge contributes for a set of nodes.
Candidates(e, d, direction, frontier) ==
  LET edge == edges[e][d]
  IN  (IF direction # "inbound" /\ edge.source \in frontier
         THEN {edge.target} ELSE {})
      \cup
      (IF direction # "outbound" /\ edge.target \in frontier
         THEN {edge.source} ELSE {})

Start(origins) == [seen |-> origins, frontier |-> origins, traversed |-> {}]

\* Mutant: the frontier stays where it is.
WaveInPlace(e, direction, old) ==
  LET hit(d) == Candidates(e, d, direction, old.frontier)
  IN  [seen      |-> old.seen \cup UNION {hit(d) : d \in RegisteredEdges(e)},
       frontier  |-> old.frontier,
       traversed |-> old.traversed \cup {d \in RegisteredEdges(e) : hit(d) # {}}]

\* One round of the loop over the depth.
Wave(e, direction, old) ==
  LET hit(d) == Candidates(e, d, direction, old.frontier)
      next   == (UNION {hit(d) : d \in RegisteredEdges(e)}) \ old.seen
  IN  [seen      |-> old.seen \cup next,
       frontier  |-> next,
       traversed |-> old.traversed \cup {d \in RegisteredEdges(e) : hit(d) # {}}]

\* The loop.  It stops early when a frontier is empty, and then nothing would
\* change any more.
Waves(e, origins, direction, depth) ==
  LET wave[k \in 0..depth] ==
        IF k = 0 THEN Start(origins) ELSE Wave(e, direction, wave[k - 1])
  IN  wave[depth]

\* Where build_dependency_impact_snapshot does not raise.
Originates(e, origins) ==
  origins # {} /\ KnownEntity(e) /\ \A ref \in origins : KnownNode(e, ref)

\* build_dependency_impact_snapshot, without the inventory digest it carries.
Impact(e, origins, direction, depth) ==
  LET last == Waves(e, origins, direction, depth)
  IN  [impacted |-> last.seen \ origins, traversed |-> last.traversed]

-----------------------------------------------------------------------------

\* The paths of at most `depth` edges, as the sequences of their nodes.
Paths(e, direction, depth) ==
  {p \in UNION {[1..n -> NodeRef] : n \in 1..(depth + 1)} :
     \A i \in 1..(Len(p) - 1) : \E d \in RegisteredEdges(e) :
       p[i + 1] \in Candidates(e, d, direction, {p[i]})}

End(path) == path[Len(path)]

\* The impacted nodes are the ends of the paths of at most `depth` edges from an
\* origin, whatever loops and parallel edges there are, and all registered; the
\* traversed edges are those that lead on from a path with fewer edges.
ImpactIsReachability(depth) ==
  \A e \in Entity, direction \in Direction :
    LET paths == Paths(e, direction, depth) IN
    \A origins \in SUBSET NodeRef :
      Originates(e, origins) =>
        LET impact == Impact(e, origins, direction, depth)
            from   == {p \in paths : p[1] \in origins}
        IN  /\ impact.impacted = {End(p) : p \in from} \ origins
            /\ \A ref \in impact.impacted : KnownNode(e, ref)
            /\ impact.traversed =
                 {d \in RegisteredEdges(e) :
                    \E p \in from : /\ Len(p) <= depth
                                    /\ Candidates(e, d, direction, {End(p)}) # {}}

\* A registration never takes a node or an edge out of an impact: a snapshot that
\* went stale may say too little, but nothing that is not so any more.
ImpactOnlyGrows(depth) ==
  \A e \in Entity, direction \in Direction, ref \in NodeRef :
    Originates(e, {ref}) =>
      LET before == Impact(e, {ref}, direction, depth)
          after  == Impact(e, {ref}, direction, depth)'
      IN  /\ before.impacted \subseteq after.impacted
          /\ before.traversed \subseteq after.traversed

\* At every depth, the traversal of build_dependency_impact_snapshot misses
\* nothing and makes nothing up.
ImpactIsExact == \A depth \in 1..MaxDepth : ImpactIsReachability(depth)

\* For every step that changes an edge: a snapshot that went stale understates the
\* impact, and never overstates it.
StaleImpactUnderstates ==
  [][edges' # edges => \A depth \in 1..MaxDepth : ImpactOnlyGrows(depth)]_vars
=============================================================================
