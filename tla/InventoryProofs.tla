-------------------------- MODULE InventoryProofs --------------------------
(***************************************************************************)
(* Theorems about Inventory and DependencyImpact, for any sets of          *)
(* identifiers, any bounds on ranks and depths, and any order of the       *)
(* registrations.                                                          *)
(*                                                                         *)
(* For the impact, the nodes where walks of at most n nodes end are        *)
(* described twice: as ends of sequences, and by one more step from the    *)
(* ends of shorter walks (LongerWalks).  The second description is what a  *)
(* round of the loop computes (WaveLengthensWalks), the first what the     *)
(* property speaks of.                                                     *)
(***************************************************************************)
EXTENDS DependencyImpact, SequenceTheorems, WellFoundedInduction, TLAPS

-----------------------------------------------------------------------------
(* Type correctness. *)

LEMMA ManifestTyped ==
  ASSUME TypeOK, NEW e \in Entity
  PROVE  Manifest(e) \in ManifestType
BY DEF TypeOK, Manifest, ManifestType

\* Every register holds well-formed records only, and a pinned digest is the
\* digest of some well-formed inventory.
THEOREM InventoryTypeCorrect == Spec => []TypeOK
<1>1. Init => TypeOK
  BY DEF Init, TypeOK, Optional
<1>2. TypeOK /\ [Next]_vars => TypeOK'
  <2> SUFFICES ASSUME TypeOK, [Next]_vars PROVE TypeOK'
    OBVIOUS
  <2>1. CASE UNCHANGED vars
    BY <2>1 DEF TypeOK, vars
  <2>2. ASSUME NEW e \in Entity, NEW c \in Content, RegisterEntity(e, c)
        PROVE  TypeOK'
    BY <2>2 DEF TypeOK, RegisterEntity, Optional
  <2>3. ASSUME NEW e \in Entity, NEW p \in Provider, NEW c \in Content,
               RegisterProvider(e, p, c)
        PROVE  TypeOK'
    BY <2>3 DEF TypeOK, RegisterProvider, Optional
  <2>4. ASSUME NEW e \in Entity, NEW s \in Service, NEW r \in ServiceRecord,
               RegisterService(e, s, r)
        PROVE  TypeOK'
    BY <2>4 DEF TypeOK, RegisterService, Optional
  <2>5. ASSUME NEW e \in Entity, NEW n \in Node, NEW c \in Content,
               RegisterNode(e, n, c)
        PROVE  TypeOK'
    BY <2>5 DEF TypeOK, RegisterNode, Optional
  <2>6. ASSUME NEW e \in Entity, NEW d \in Edge, NEW r \in EdgeRecord,
               RegisterEdge(e, d, r)
        PROVE  TypeOK'
    BY <2>6 DEF TypeOK, RegisterEdge, Optional
  <2>7. ASSUME NEW e \in Entity, PinSnapshot(e)
        PROVE  TypeOK'
    BY <2>7, ManifestTyped DEF TypeOK, PinSnapshot, Optional
  <2>8. QED
    BY <2>1, <2>2, <2>3, <2>4, <2>5, <2>6, <2>7 DEF Next
<1>3. QED
  BY <1>1, <1>2, PTL DEF Spec

-----------------------------------------------------------------------------
(* What never happens to a stored record. *)

\* No step replaces or removes a record of any of the five registers.
RecordsStay ==
  \A e \in Entity :
    /\ entities[e] # None => entities'[e] = entities[e]
    /\ \A p \in Provider :
         providers[e][p] # None => providers'[e][p] = providers[e][p]
    /\ \A s \in Service :
         services[e][s] # None => services'[e][s] = services[e][s]
    /\ \A n \in Node : nodes[e][n] # None => nodes'[e][n] = nodes[e][n]
    /\ \A d \in Edge : edges[e][d] # None => edges'[e][d] = edges[e][d]

LEMMA StepKeepsRecords ==
  ASSUME TypeOK, [Next]_vars
  PROVE  RecordsStay
<1>1. CASE UNCHANGED vars
  BY <1>1 DEF RecordsStay, vars
<1>2. ASSUME NEW e \in Entity, NEW c \in Content, RegisterEntity(e, c)
      PROVE  RecordsStay
  BY <1>2 DEF RecordsStay, RegisterEntity, MayStore, TypeOK
<1>3. ASSUME NEW e \in Entity, NEW p \in Provider, NEW c \in Content,
             RegisterProvider(e, p, c)
      PROVE  RecordsStay
  BY <1>3 DEF RecordsStay, RegisterProvider, MayStore, TypeOK
<1>4. ASSUME NEW e \in Entity, NEW s \in Service, NEW r \in ServiceRecord,
             RegisterService(e, s, r)
      PROVE  RecordsStay
  BY <1>4 DEF RecordsStay, RegisterService, MayStore, TypeOK
<1>5. ASSUME NEW e \in Entity, NEW n \in Node, NEW c \in Content,
             RegisterNode(e, n, c)
      PROVE  RecordsStay
  BY <1>5 DEF RecordsStay, RegisterNode, MayStore, TypeOK
<1>6. ASSUME NEW e \in Entity, NEW d \in Edge, NEW r \in EdgeRecord,
             RegisterEdge(e, d, r)
      PROVE  RecordsStay
  BY <1>6 DEF RecordsStay, RegisterEdge, MayStore, TypeOK
<1>7. ASSUME NEW e \in Entity, PinSnapshot(e)
      PROVE  RecordsStay
  BY <1>7 DEF RecordsStay, PinSnapshot
<1>8. QED
  BY <1>1, <1>2, <1>3, <1>4, <1>5, <1>6, <1>7 DEF Next

-----------------------------------------------------------------------------
(* The supply chain. *)

\* Whatever the order of the registrations, each stored service names a stored
\* provider and, when subcontracted, a stored parent strictly nearer.
THEOREM SupplyChainIsSound == Spec => []SupplyChainSound
<1>1. Init => SupplyChainSound
  BY DEF Init, SupplyChainSound
<1>2. TypeOK /\ SupplyChainSound /\ [Next]_vars => SupplyChainSound'
  <2> SUFFICES ASSUME TypeOK, SupplyChainSound, [Next]_vars,
                      NEW e \in Entity, NEW s \in Service,
                      services'[e][s] # None
               PROVE  LET r == services'[e][s] IN
                        /\ providers'[e][r.provider] # None
                        /\ r.parent # None =>
                             /\ services'[e][r.parent] # None
                             /\ services'[e][r.parent].rank < r.rank
    BY DEF SupplyChainSound
  <2> DEFINE r == services'[e][s]
  <2>1. RecordsStay
    BY StepKeepsRecords
  <2>2. CASE services[e][s] # None
    <3>1. r = services[e][s] /\ r \in ServiceRecord
      BY <2>1, <2>2 DEF RecordsStay, TypeOK, Optional
    <3>2. /\ providers[e][r.provider] # None
          /\ r.parent # None => /\ services[e][r.parent] # None
                                /\ services[e][r.parent].rank < r.rank
      BY <2>2, <3>1 DEF SupplyChainSound
    <3>3. r.provider \in Provider /\ (r.parent # None => r.parent \in Service)
      BY <3>1 DEF ServiceRecord
    <3>4. QED
      BY <2>1, <3>2, <3>3 DEF RecordsStay
  <2>3. CASE services[e][s] = None
    <3>1. PICK f \in Entity, t \in Service, q \in ServiceRecord :
            RegisterService(f, t, q)
      BY <2>3, services'[e][s] # services[e][s]
      DEF Next, vars, RegisterEntity, RegisterProvider, RegisterNode,
          RegisterEdge, PinSnapshot
    <3>2. e = f /\ s = t /\ r = q
      BY <2>3, <3>1 DEF RegisterService, TypeOK
    <3>3. /\ providers[e][q.provider] # None
          /\ q.parent # None => /\ services[e][q.parent] # None
                                /\ services[e][q.parent].rank < q.rank
      BY <3>1, <3>2 DEF RegisterService, ParentPrecedes
    <3>4. q.provider \in Provider /\ (q.parent # None => q.parent \in Service)
      BY DEF ServiceRecord
    <3>5. QED
      BY <2>1, <3>2, <3>3, <3>4 DEF RecordsStay
  <2>4. QED
    BY <2>2, <2>3
<1>3. QED
  BY <1>1, <1>2, InventoryTypeCorrect, PTL DEF Spec

\* The endpoints of every stored edge stay resolvable: nodes never disappear.
THEOREM GraphIsClosed == Spec => []GraphClosed
<1>1. Init => GraphClosed
  BY DEF Init, GraphClosed
<1>2. TypeOK /\ GraphClosed /\ [Next]_vars => GraphClosed'
  <2> SUFFICES ASSUME TypeOK, GraphClosed, [Next]_vars,
                      NEW e \in Entity, NEW d \in Edge, edges'[e][d] # None
               PROVE  /\ KnownNode(e, edges[e][d].source)'
                      /\ KnownNode(e, edges[e][d].target)'
    BY DEF GraphClosed
  <2>1. \A ref : KnownNode(e, ref) => KnownNode(e, ref)'
    BY StepKeepsRecords DEF RecordsStay, KnownNode
  <2>2. CASE edges[e][d] # None
    <3>1. edges'[e][d] = edges[e][d]
      BY <2>2, StepKeepsRecords DEF RecordsStay
    <3>2. QED
      BY <2>1, <2>2, <3>1 DEF GraphClosed
  <2>3. CASE edges[e][d] = None
    <3>1. PICK f \in Entity, t \in Edge, q \in EdgeRecord :
            RegisterEdge(f, t, q)
      BY <2>3, edges'[e][d] # edges[e][d]
      DEF Next, vars, RegisterEntity, RegisterProvider, RegisterNode,
          RegisterService, PinSnapshot
    <3>2. e = f /\ d = t /\ edges'[e][d] = q
      BY <2>3, <3>1 DEF RegisterEdge, TypeOK
    <3>3. QED
      BY <2>1, <3>1, <3>2 DEF RegisterEdge
  <2>4. QED
    BY <2>2, <2>3
<1>3. QED
  BY <1>1, <1>2, InventoryTypeCorrect, PTL DEF Spec

-----------------------------------------------------------------------------
(* Staleness is permanent. *)

\* A pinned digest is the digest of an earlier inventory: whatever it lists is
\* still stored, unchanged.
PinnedIsEarlier ==
  \A e \in Entity :
    pinned[e] # None =>
      /\ pinned[e].entity # None => entities[e] = pinned[e].entity
      /\ \A p \in Provider : pinned[e].providers[p] # None =>
           providers[e][p] = pinned[e].providers[p]
      /\ \A s \in Service : pinned[e].services[s] # None =>
           services[e][s] = pinned[e].services[s]
      /\ \A n \in Node : pinned[e].nodes[n] # None =>
           nodes[e][n] = pinned[e].nodes[n]
      /\ \A d \in Edge : pinned[e].edges[d] # None =>
           edges[e][d] = pinned[e].edges[d]

\* A pin, once taken, stays as it is.
LEMMA PinStays ==
  ASSUME TypeOK, [Next]_vars, NEW e \in Entity, pinned[e] # None
  PROVE  pinned'[e] = pinned[e]
BY DEF Next, vars, TypeOK, RegisterEntity, RegisterProvider, RegisterService,
       RegisterNode, RegisterEdge, PinSnapshot

LEMMA PinnedIsEarlierInvariant == Spec => []PinnedIsEarlier
<1>1. Init => PinnedIsEarlier
  BY DEF Init, PinnedIsEarlier
<1>2. TypeOK /\ PinnedIsEarlier /\ [Next]_vars => PinnedIsEarlier'
  <2> SUFFICES ASSUME TypeOK, PinnedIsEarlier, [Next]_vars
               PROVE  PinnedIsEarlier'
    OBVIOUS
  <2>1. RecordsStay
    BY StepKeepsRecords
  <2>2. ASSUME NEW f \in Entity, PinSnapshot(f)
        PROVE  PinnedIsEarlier'
    BY <2>2 DEF PinSnapshot, PinnedIsEarlier, Manifest, TypeOK
  <2>3. CASE pinned' = pinned
    BY <2>1, <2>3 DEF RecordsStay, PinnedIsEarlier
  <2>4. QED
    BY <2>2, <2>3 DEF Next, vars, RegisterEntity, RegisterProvider,
       RegisterService, RegisterNode, RegisterEdge
<1>3. QED
  BY <1>1, <1>2, InventoryTypeCorrect, PTL DEF Spec

\* An artifact that is stale stays stale in every later state: no sequence of
\* registrations brings the inventory back to the digest the artifact carries.
THEOREM StalenessIsPermanent == Spec => StaleForever
<1>1. TypeOK /\ PinnedIsEarlier /\ [Next]_vars =>
        [\A e \in Entity :
           pinned[e] # None /\ ~Current(e) =>
             pinned'[e] = pinned[e] /\ ~Current(e)']_vars
  <2> SUFFICES ASSUME TypeOK, PinnedIsEarlier, [Next]_vars,
                      NEW e \in Entity, pinned[e] # None, Current(e)'
               PROVE  Current(e)
    BY PinStays
  <2>1. RecordsStay /\ pinned'[e] = pinned[e]
    BY StepKeepsRecords, PinStays
  <2> DEFINE p == pinned[e]
  <2>2. /\ p.entity = entities'[e] /\ p.providers = providers'[e]
        /\ p.services = services'[e] /\ p.nodes = nodes'[e]
        /\ p.edges = edges'[e]
    BY <2>1 DEF Current, Manifest
  <2>3. p \in ManifestType
    BY DEF TypeOK, Optional
  <2>4. p.entity = entities[e]
    BY <2>1, <2>2 DEF RecordsStay, PinnedIsEarlier
  <2>5. p.providers = providers[e]
    <3>1. \A x \in Provider : p.providers[x] = providers[e][x]
      BY <2>1, <2>2 DEF RecordsStay, PinnedIsEarlier
    <3>2. QED
      BY <2>3, <3>1 DEF TypeOK, ManifestType
  <2>6. p.services = services[e]
    <3>1. \A x \in Service : p.services[x] = services[e][x]
      BY <2>1, <2>2 DEF RecordsStay, PinnedIsEarlier
    <3>2. QED
      BY <2>3, <3>1 DEF TypeOK, ManifestType
  <2>7. p.nodes = nodes[e]
    <3>1. \A x \in Node : p.nodes[x] = nodes[e][x]
      BY <2>1, <2>2 DEF RecordsStay, PinnedIsEarlier
    <3>2. QED
      BY <2>3, <3>1 DEF TypeOK, ManifestType
  <2>8. p.edges = edges[e]
    <3>1. \A x \in Edge : p.edges[x] = edges[e][x]
      BY <2>1, <2>2 DEF RecordsStay, PinnedIsEarlier
    <3>2. QED
      BY <2>3, <3>1 DEF TypeOK, ManifestType
  <2>9. QED
    BY <2>3, <2>4, <2>5, <2>6, <2>7, <2>8 DEF Current, Manifest, ManifestType
<1>2. QED
  BY <1>1, InventoryTypeCorrect, PinnedIsEarlierInvariant, PTL
  DEF Spec, StaleForever

-----------------------------------------------------------------------------
(* The impact of a disruption: walks along the edges. *)

\* p is a walk of m nodes from one of the origins.
IsWalk(e, direction, origins, m, p) ==
  /\ p \in [1..m -> NodeRef]
  /\ p[1] \in origins
  /\ \A i \in 1..(m - 1) : \E d \in RegisteredEdges(e) :
       p[i + 1] \in Candidates(e, d, direction, {p[i]})

\* Where the walks of at most n nodes end.
Ends(e, direction, origins, n) ==
  {ref \in NodeRef : \E m \in 1..n : \E p \in [1..m -> NodeRef] :
                       IsWalk(e, direction, origins, m, p) /\ p[m] = ref}

\* One edge from a set of nodes.
Neighbours(e, direction, from) ==
  UNION {Candidates(e, d, direction, from) : d \in RegisteredEdges(e)}

LEMMA CandidatesOfEach ==
  ASSUME NEW e, NEW d, NEW direction, NEW from, NEW ref
  PROVE  ref \in Candidates(e, d, direction, from) <=>
           \E last \in from : ref \in Candidates(e, d, direction, {last})
BY DEF Candidates

LEMMA NeighboursOfEach ==
  ASSUME NEW e, NEW direction, NEW from, NEW ref
  PROVE  ref \in Neighbours(e, direction, from) <=>
           \E last \in from : \E d \in RegisteredEdges(e) :
             ref \in Candidates(e, d, direction, {last})
<1>1. ref \in Neighbours(e, direction, from) <=>
        \E d \in RegisteredEdges(e) : ref \in Candidates(e, d, direction, from)
  BY DEF Neighbours
<1>2. \A d : ref \in Candidates(e, d, direction, from) <=>
               \E last \in from : ref \in Candidates(e, d, direction, {last})
  BY CandidatesOfEach
<1> QED
  BY <1>1, <1>2, Zenon

LEMMA NeighboursAreNodes ==
  ASSUME TypeOK, NEW e \in Entity, NEW direction, NEW from
  PROVE  Neighbours(e, direction, from) \subseteq NodeRef
<1>1. ASSUME NEW d \in RegisteredEdges(e)
      PROVE  edges[e][d].source \in NodeRef /\ edges[e][d].target \in NodeRef
  BY DEF TypeOK, RegisteredEdges, Optional, EdgeRecord
<1> QED
  BY <1>1 DEF Neighbours, Candidates

LEMMA NoWalks ==
  ASSUME NEW e, NEW direction, NEW origins
  PROVE  Ends(e, direction, origins, 0) = {}
BY DEF Ends

LEMMA FirstWalks ==
  ASSUME NEW e, NEW direction, NEW origins \in SUBSET NodeRef
  PROVE  Ends(e, direction, origins, 1) = origins
<1>1. ASSUME NEW ref \in origins
      PROVE  ref \in Ends(e, direction, origins, 1)
  <2> DEFINE p == [i \in 1..1 |-> ref]
  <2>1. p \in [1..1 -> NodeRef] /\ p[1] = ref
    OBVIOUS
  <2> HIDE DEF p
  <2>2. IsWalk(e, direction, origins, 1, p)
    BY <2>1 DEF IsWalk
  <2> QED
    BY <2>1, <2>2 DEF Ends
<1>2. ASSUME NEW ref \in Ends(e, direction, origins, 1)
      PROVE  ref \in origins
  BY DEF Ends, IsWalk
<1> QED
  BY <1>1, <1>2

LEMMA ShorterWalks ==
  ASSUME NEW e, NEW direction, NEW origins, NEW n \in Nat
  PROVE  Ends(e, direction, origins, n) \subseteq Ends(e, direction, origins, n + 1)
<1>1. 1..n \subseteq 1..(n + 1)
  OBVIOUS
<1> QED
  BY <1>1 DEF Ends

\* Walks of one more node end where shorter ones do, or one edge on.
LEMMA LongerWalks ==
  ASSUME TypeOK, NEW e \in Entity, NEW direction, NEW origins, NEW n \in Nat \ {0}
  PROVE  Ends(e, direction, origins, n + 1) =
           Ends(e, direction, origins, n)
             \cup Neighbours(e, direction, Ends(e, direction, origins, n))
<1> DEFINE Walk(m, p) == IsWalk(e, direction, origins, m, p)
           Reached(k) == Ends(e, direction, origins, k)
           Leads(last, ref) ==
             \E d \in RegisteredEdges(e) : ref \in Candidates(e, d, direction, {last})
<1>1. ASSUME NEW ref \in Neighbours(e, direction, Reached(n))
      PROVE  ref \in Reached(n + 1)
  <2>1. PICK last \in Reached(n) : Leads(last, ref)
    BY NeighboursOfEach
  <2>2. PICK m \in 1..n : \E p \in [1..m -> NodeRef] : Walk(m, p) /\ p[m] = last
    BY DEF Ends
  <2>3. PICK p \in [1..m -> NodeRef] : Walk(m, p) /\ p[m] = last
    BY <2>2
  <2> DEFINE q == [i \in 1..(m + 1) |-> IF i = m + 1 THEN ref ELSE p[i]]
  <2>4. ref \in NodeRef
    BY NeighboursAreNodes
  <2>5. /\ q \in [1..(m + 1) -> NodeRef] /\ m + 1 \in 1..(n + 1)
        /\ q[m + 1] = ref
        /\ \A i \in 1..m : q[i] = p[i]
    BY <2>3, <2>4
  <2>6. p[1] \in origins /\ \A i \in 1..(m - 1) : Leads(p[i], p[i + 1])
    BY <2>3 DEF IsWalk
  <2> HIDE DEF q, Leads
  <2>7. ASSUME NEW i \in 1..m
        PROVE  Leads(q[i], q[i + 1])
    <3>1. CASE i = m
      BY <2>1, <2>3, <2>5, <3>1
    <3>2. CASE i # m
      <4>1. i \in 1..(m - 1) /\ i + 1 \in 1..m
        BY <3>2
      <4> QED
        BY <2>5, <2>6, <4>1
    <3> QED
      BY <3>1, <3>2
  <2>8. q[1] \in origins /\ (m + 1) - 1 = m
    BY <2>5, <2>6
  <2>9. Walk(m + 1, q)
    BY <2>5, <2>7, <2>8 DEF IsWalk, Leads
  <2> QED
    BY <2>4, <2>5, <2>9 DEF Ends
<1>2. ASSUME NEW ref \in Reached(n + 1), ref \notin Reached(n)
      PROVE  ref \in Neighbours(e, direction, Reached(n))
  <2>1. PICK m \in 1..(n + 1) : \E p \in [1..m -> NodeRef] : Walk(m, p) /\ p[m] = ref
    BY DEF Ends
  <2>2. PICK p \in [1..m -> NodeRef] : Walk(m, p) /\ p[m] = ref
    BY <2>1
  <2>3. ref \in NodeRef
    BY DEF Ends
  <2>4. m = n + 1
    <3>1. SUFFICES ASSUME m \in 1..n PROVE FALSE
      OBVIOUS
    <3> QED
      BY <1>2, <2>2, <2>3, <3>1 DEF Ends
  <2> DEFINE q == [i \in 1..n |-> p[i]]
  <2>5. /\ q \in [1..n -> NodeRef] /\ n \in 1..n
        /\ \A i \in 1..n : q[i] = p[i] /\ p[i] \in NodeRef
    BY <2>2, <2>4
  <2>6. p[1] \in origins /\ \A i \in 1..n : Leads(p[i], p[i + 1])
    <3>1. m - 1 = n
      BY <2>4
    <3> QED
      BY <2>2, <3>1 DEF IsWalk
  <2> HIDE DEF q, Leads
  <2>7. ASSUME NEW i \in 1..(n - 1)
        PROVE  Leads(q[i], q[i + 1])
    <3>1. i \in 1..n /\ i + 1 \in 1..n
      OBVIOUS
    <3> QED
      BY <2>5, <2>6, <3>1
  <2>8. q[1] \in origins
    BY <2>5, <2>6
  <2>9. Walk(n, q)
    BY <2>5, <2>7, <2>8 DEF IsWalk, Leads
  <2>10. p[n] \in Reached(n) /\ Leads(p[n], ref)
    BY <2>2, <2>4, <2>5, <2>6, <2>9 DEF Ends
  <2> QED
    BY <2>10, NeighboursOfEach DEF Leads
<1>3. Reached(n) \subseteq Reached(n + 1)
  BY ShorterWalks
<1> HIDE DEF Reached
<1>4. Reached(n + 1) = Reached(n) \cup Neighbours(e, direction, Reached(n))
  BY <1>1, <1>2, <1>3
<1> QED
  BY <1>4 DEF Reached

-----------------------------------------------------------------------------
(* The impact of a disruption: the loop of the traversal. *)

\* Where the loop is after n rounds: it has seen the ends of the walks of n edges,
\* and its frontier are those it had not seen a round ago.
StateAfter(e, direction, origins, n) ==
  LET reached == Ends(e, direction, origins, n + 1)
      before  == Ends(e, direction, origins, n)
  IN  [seen      |-> reached,
       frontier  |-> reached \ before,
       traversed |-> {d \in RegisteredEdges(e) :
                        Candidates(e, d, direction, before) # {}}]

LEMMA StartsWithTheOrigins ==
  ASSUME NEW e, NEW direction, NEW origins \in SUBSET NodeRef
  PROVE  StateAfter(e, direction, origins, 0) = Start(origins)
<1>1. /\ Ends(e, direction, origins, 0 + 1) = origins
      /\ Ends(e, direction, origins, 0) = {}
  BY FirstWalks, NoWalks
<1>2. \A d : Candidates(e, d, direction, {}) = {}
  BY DEF Candidates
<1> QED
  BY <1>1, <1>2 DEF StateAfter, Start

\* A round from the frontier alone misses nothing: what is behind it has already
\* led to what was seen.
LEMMA WaveLengthensWalks ==
  ASSUME TypeOK, NEW e \in Entity, NEW direction,
         NEW origins \in SUBSET NodeRef, NEW n \in Nat
  PROVE  Wave(e, direction, StateAfter(e, direction, origins, n))
           = StateAfter(e, direction, origins, n + 1)
<1> DEFINE A == Ends(e, direction, origins, n)
           B == Ends(e, direction, origins, n + 1)
           C == Ends(e, direction, origins, n + 2)
           hit(d) == Candidates(e, d, direction, B \ A)
           next == Neighbours(e, direction, B \ A) \ B
           old == StateAfter(e, direction, origins, n)
<1>1. /\ n + 1 \in Nat \ {0} /\ (n + 1) + 1 = n + 2
      /\ old.seen = B /\ old.frontier = B \ A
      /\ old.traversed =
           {d \in RegisteredEdges(e) : Candidates(e, d, direction, A) # {}}
  BY DEF StateAfter
<1>2. A \subseteq B
  BY ShorterWalks
<1>3. Neighbours(e, direction, A) \subseteq B
  <2>1. CASE n = 0
    <3>1. A = {}
      BY <2>1, NoWalks
    <3> QED
      BY <3>1, NeighboursOfEach
  <2>2. CASE n # 0
    BY <2>2, LongerWalks
  <2> QED
    BY <2>1, <2>2
<1>4. C = B \cup Neighbours(e, direction, B)
  BY <1>1, LongerWalks
<1> HIDE DEF A, B, C, old
<1>5. Neighbours(e, direction, B) \subseteq
        Neighbours(e, direction, A) \cup Neighbours(e, direction, B \ A)
  BY NeighboursOfEach
<1>6. Neighbours(e, direction, B \ A) \subseteq Neighbours(e, direction, B)
  BY NeighboursOfEach
<1>7. C = B \cup next /\ C \ B = next
  BY <1>3, <1>4, <1>5, <1>6
<1>8. \A d \in RegisteredEdges(e) :
        Candidates(e, d, direction, B) # {} <=>
          Candidates(e, d, direction, A) # {} \/ hit(d) # {}
  BY <1>2 DEF Candidates
<1>9. Wave(e, direction, old) =
        [seen      |-> old.seen \cup next,
         frontier  |-> next,
         traversed |-> old.traversed \cup {d \in RegisteredEdges(e) : hit(d) # {}}]
  <2>1. Neighbours(e, direction, old.frontier) \ old.seen = next
    BY <1>1
  <2>2. \A d : Candidates(e, d, direction, old.frontier) = hit(d)
    BY <1>1
  <2> HIDE DEF next
  <2>3. Wave(e, direction, old) =
          [seen      |-> old.seen \cup
                           (Neighbours(e, direction, old.frontier) \ old.seen),
           frontier  |-> Neighbours(e, direction, old.frontier) \ old.seen,
           traversed |-> old.traversed \cup
             {d \in RegisteredEdges(e) :
                Candidates(e, d, direction, old.frontier) # {}}]
    BY Zenon DEF Wave, Neighbours
  <2> QED
    BY <2>1, <2>2, <2>3
<1>10. old.traversed \cup {d \in RegisteredEdges(e) : hit(d) # {}}
         = {d \in RegisteredEdges(e) : Candidates(e, d, direction, B) # {}}
  BY <1>1, <1>8
<1>11. StateAfter(e, direction, origins, n + 1) =
         [seen      |-> C,
          frontier  |-> C \ B,
          traversed |-> {d \in RegisteredEdges(e) :
                           Candidates(e, d, direction, B) # {}}]
  BY <1>1 DEF StateAfter, B, C
<1>12. Wave(e, direction, old) = StateAfter(e, direction, origins, n + 1)
  BY <1>1, <1>7, <1>9, <1>10, <1>11
<1> QED
  BY <1>12 DEF old

\* Induction over the rounds, as a fact about sets of numbers.
LEMMA LeastNumber ==
  ASSUME NEW T \in SUBSET Nat, T # {}
  PROVE  \E m \in T : \A n \in T : m <= n
<1> DEFINE Before == {p \in Nat \X Nat : p[1] < p[2]}
<1>1. Before = OpToRel(<, Nat)
  BY DEF OpToRel
<1> HIDE DEF Before
<1>2. IsWellFoundedOn(Before, Nat)
  BY <1>1, NatLessThanWellFounded
<1>3. PICK m \in T : \A n \in T : ~ (<<n, m>> \in Before)
  BY <1>2, WFMin
<1>4. ASSUME NEW n \in T PROVE m <= n
  <2>1. ~ (n < m)
    BY <1>3 DEF Before
  <2> QED
    BY <2>1
<1> QED
  BY <1>4

\* The recursion of Waves has that solution and no other.
LEMMA WavesAreWalks ==
  ASSUME TypeOK, NEW e \in Entity, NEW direction,
         NEW origins \in SUBSET NodeRef, NEW depth \in Nat
  PROVE  Waves(e, origins, direction, depth)
           = StateAfter(e, direction, origins, depth)
<1> DEFINE At(n) == StateAfter(e, direction, origins, n)
           Round(old) == Wave(e, direction, old)
           Body(f) == [k \in 0..depth |->
                         IF k = 0 THEN Start(origins) ELSE Round(f[k - 1])]
           g == [k \in 0..depth |-> At(k)]
           wave == CHOOSE f : f = Body(f)
<1>1. At(0) = Start(origins)
  BY StartsWithTheOrigins
<1>2. ASSUME NEW k \in 1..depth
      PROVE  Round(At(k - 1)) = At(k)
  <2>1. k - 1 \in Nat /\ (k - 1) + 1 = k
    OBVIOUS
  <2>2. Round(At(k - 1)) = At((k - 1) + 1)
    BY <2>1, WaveLengthensWalks
  <2> QED
    BY <2>1, <2>2
<1>3. Waves(e, origins, direction, depth) = wave[depth]
  BY DEF Waves
<1> HIDE DEF At, Round
<1>4. g = Body(g)
  <2>1. ASSUME NEW k \in 0..depth
        PROVE  g[k] = IF k = 0 THEN Start(origins) ELSE Round(g[k - 1])
    <3>1. CASE k = 0
      BY <1>1, <3>1
    <3>2. CASE k # 0
      <4>1. k \in 1..depth /\ k - 1 \in 0..depth
        BY <3>2
      <4> QED
        BY <1>2, <3>2, <4>1
    <3> QED
      BY <3>1, <3>2
  <2> QED
    BY <2>1
<1>5. wave = Body(wave)
  BY <1>4
<1> HIDE DEF wave
<1> DEFINE Differ == {k \in Nat : k <= depth /\ wave[k] # At(k)}
<1>6. ASSUME Differ # {} PROVE FALSE
  <2>1. PICK k \in Differ : \A j \in Differ : k <= j
    BY <1>6, LeastNumber
  <2>2. k \in 0..depth /\ wave[k] # At(k)
    OBVIOUS
  <2>3. CASE k = 0
    BY <1>1, <1>5, <2>2, <2>3
  <2>4. CASE k # 0
    <3>1. k \in 1..depth /\ k - 1 \in Nat /\ k - 1 <= depth /\ k - 1 \notin Differ
      BY <2>1, <2>2, <2>4
    <3>2. wave[k - 1] = At(k - 1)
      BY <3>1
    <3>3. wave[k] = Round(wave[k - 1])
      BY <1>5, <2>2, <2>4
    <3> QED
      BY <1>2, <2>2, <3>1, <3>2, <3>3
  <2> QED
    BY <2>3, <2>4
<1>7. wave[depth] = At(depth)
  BY <1>6
<1> QED
  BY <1>3, <1>7 DEF At

-----------------------------------------------------------------------------
(* The impact of a disruption: exact at every depth, and growing. *)

\* The paths the property speaks of are the walks.
LEMMA PathsAreWalks ==
  ASSUME NEW e, NEW direction, NEW origins, NEW depth \in Nat, NEW p
  PROVE  p \in Paths(e, direction, depth) /\ p[1] \in origins <=>
           \E m \in 1..(depth + 1) : /\ IsWalk(e, direction, origins, m, p)
                                     /\ Len(p) = m /\ End(p) = p[m]
<1>1. ASSUME NEW m \in 1..(depth + 1), p \in [1..m -> NodeRef]
      PROVE  /\ Len(p) = m /\ End(p) = p[m]
             /\ p \in Paths(e, direction, depth) /\ p[1] \in origins
                  <=> IsWalk(e, direction, origins, m, p)
  <2>1. Len(p) = m
    <3>1. p \in Seq(NodeRef)
      BY <1>1
    <3>2. Len(p) \in Nat /\ DOMAIN p = 1..Len(p)
      BY <3>1, LenProperties
    <3> QED
      BY <1>1, <3>2
  <2>2. p \in UNION {[1..k -> NodeRef] : k \in 1..(depth + 1)}
    BY <1>1
  <2> QED
    BY <1>1, <2>1, <2>2 DEF Paths, IsWalk, End
<1>2. p \in Paths(e, direction, depth) =>
        \E m \in 1..(depth + 1) : p \in [1..m -> NodeRef]
  BY DEF Paths
<1>3. \A m : IsWalk(e, direction, origins, m, p) => p \in [1..m -> NodeRef]
  BY DEF IsWalk
<1> QED
  BY <1>1, <1>2, <1>3

\* A path of at most n nodes from one of the origins ends here.
EndsPath(e, direction, origins, depth, n, ref) ==
  \E p \in Paths(e, direction, depth) :
    p[1] \in origins /\ Len(p) <= n /\ ref = End(p)

LEMMA EndsOfPaths ==
  ASSUME NEW e, NEW direction, NEW origins, NEW depth \in Nat,
         NEW n \in 0..(depth + 1), NEW ref
  PROVE  ref \in Ends(e, direction, origins, n) <=>
           EndsPath(e, direction, origins, depth, n, ref)
<1> DEFINE Path(q) == q \in Paths(e, direction, depth) /\ q[1] \in origins
           Walk(m, q) == IsWalk(e, direction, origins, m, q)
<1>1. ASSUME ref \in Ends(e, direction, origins, n)
      PROVE  \E q : Path(q) /\ Len(q) <= n /\ ref = End(q)
  <2>1. PICK m \in 1..n : \E q \in [1..m -> NodeRef] : Walk(m, q) /\ q[m] = ref
    BY <1>1 DEF Ends
  <2>2. PICK q : Walk(m, q) /\ q[m] = ref
    BY <2>1
  <2>3. m \in 1..(depth + 1)
    OBVIOUS
  <2>4. Len(q) = m /\ End(q) = q[m]
    <3>1. q \in [1..m -> NodeRef] /\ m \in Nat
      BY <2>2 DEF IsWalk
    <3>2. q \in Seq(NodeRef)
      BY <3>1
    <3>3. Len(q) \in Nat /\ DOMAIN q = 1..Len(q)
      BY <3>2, LenProperties
    <3> QED
      BY <3>1, <3>3 DEF End
  <2>5. Path(q)
    BY <2>2, <2>3, <2>4, PathsAreWalks
  <2> QED
    BY <2>2, <2>4, <2>5
<1>2. ASSUME NEW q, Path(q), Len(q) <= n
      PROVE  End(q) \in Ends(e, direction, origins, n)
  <2>1. PICK m \in 1..(depth + 1) : Walk(m, q) /\ Len(q) = m /\ End(q) = q[m]
    <3>1. q \in Paths(e, direction, depth) /\ q[1] \in origins
      BY <1>2
    <3>2. q \in Paths(e, direction, depth) /\ q[1] \in origins <=>
            \E m \in 1..(depth + 1) : Walk(m, q) /\ Len(q) = m /\ End(q) = q[m]
      BY PathsAreWalks
    <3> QED
      BY <3>1, <3>2
  <2>2. m \in 1..n
    BY <1>2, <2>1
  <2>3. q \in [1..m -> NodeRef] /\ q[m] \in NodeRef
    BY <2>1 DEF IsWalk
  <2> QED
    BY <2>1, <2>2, <2>3 DEF Ends
<1> QED
  BY <1>1, <1>2 DEF EndsPath

\* Everything reached is registered, since every edge is between nodes that are.
LEMMA EndsAreKnown ==
  ASSUME TypeOK, GraphClosed, NEW e \in Entity, NEW direction,
         NEW origins \in SUBSET NodeRef, \A ref \in origins : KnownNode(e, ref),
         NEW n \in Nat, NEW ref \in Ends(e, direction, origins, n)
  PROVE  KnownNode(e, ref)
<1>1. PICK m \in 1..n : \E p \in [1..m -> NodeRef] :
             IsWalk(e, direction, origins, m, p) /\ p[m] = ref
  BY DEF Ends
<1>2. PICK p \in [1..m -> NodeRef] :
             IsWalk(e, direction, origins, m, p) /\ p[m] = ref
  BY <1>1
<1>3. CASE m = 1
  BY <1>2, <1>3 DEF IsWalk
<1>4. CASE m # 1
  <2>1. m - 1 \in 1..(m - 1) /\ (m - 1) + 1 = m
    BY <1>4
  <2>2. PICK d \in RegisteredEdges(e) :
               ref \in Candidates(e, d, direction, {p[m - 1]})
    BY <1>2, <2>1 DEF IsWalk
  <2>3. ref \in {edges[e][d].source, edges[e][d].target}
    BY <2>2 DEF Candidates
  <2> QED
    BY <2>3 DEF GraphClosed, RegisteredEdges
<1> QED
  BY <1>3, <1>4

LEMMA TraversalIsExact ==
  ASSUME TypeOK, GraphClosed, NEW depth \in Nat
  PROVE  ImpactIsReachability(depth)
<1> SUFFICES
      ASSUME NEW e \in Entity, NEW direction \in Direction,
             NEW origins \in SUBSET NodeRef, Originates(e, origins)
      PROVE  LET impact == Impact(e, origins, direction, depth)
                 from   == {p \in Paths(e, direction, depth) : p[1] \in origins}
             IN  /\ impact.impacted = {End(p) : p \in from} \ origins
                 /\ \A ref \in impact.impacted : KnownNode(e, ref)
                 /\ impact.traversed =
                      {d \in RegisteredEdges(e) :
                         \E p \in from : /\ Len(p) <= depth
                                         /\ Candidates(e, d, direction, {End(p)}) # {}}
  BY DEF ImpactIsReachability
<1> DEFINE impact == Impact(e, origins, direction, depth)
           from == {p \in Paths(e, direction, depth) : p[1] \in origins}
           Reached(n) == Ends(e, direction, origins, n)
<1>1. /\ impact.impacted = Reached(depth + 1) \ origins
      /\ impact.traversed =
           {d \in RegisteredEdges(e) :
              Candidates(e, d, direction, Reached(depth)) # {}}
  <2>1. Waves(e, origins, direction, depth)
          = StateAfter(e, direction, origins, depth)
    BY WavesAreWalks
  <2>2. impact = [impacted |-> StateAfter(e, direction, origins, depth).seen \ origins,
                  traversed |-> StateAfter(e, direction, origins, depth).traversed]
    BY <2>1 DEF Impact
  <2> HIDE DEF impact
  <2> QED
    BY <2>2 DEF StateAfter
<1>2. /\ Reached(depth) = {End(p) : p \in {q \in from : Len(q) <= depth}}
      /\ Reached(depth + 1) = {End(p) : p \in {q \in from : Len(q) <= depth + 1}}
  <2>1. ASSUME NEW n \in 0..(depth + 1)
        PROVE  Reached(n) = {End(p) : p \in {q \in from : Len(q) <= n}}
    <3>1. \A ref : ref \in Reached(n) <=>
                     EndsPath(e, direction, origins, depth, n, ref)
      BY EndsOfPaths
    <3> QED
      BY <3>1 DEF EndsPath
  <2> QED
    BY <2>1
<1>3. \A q \in from : Len(q) <= depth + 1
  BY PathsAreWalks
<1>4. \A ref \in origins : KnownNode(e, ref)
  BY DEF Originates
<1>5. \A ref \in Reached(depth + 1) : KnownNode(e, ref)
  BY <1>4, EndsAreKnown
<1> HIDE DEF impact, from, Reached
<1>6. Reached(depth + 1) = {End(p) : p \in from}
  BY <1>2, <1>3
<1>7. \A d : Candidates(e, d, direction, Reached(depth)) # {} <=>
               \E p \in from : /\ Len(p) <= depth
                               /\ Candidates(e, d, direction, {End(p)}) # {}
  <2>1. \A d : Candidates(e, d, direction, Reached(depth)) # {} <=>
                 \E last \in Reached(depth) :
                   Candidates(e, d, direction, {last}) # {}
    BY CandidatesOfEach
  <2>2. \A last : last \in Reached(depth) <=>
                    \E p \in from : Len(p) <= depth /\ last = End(p)
    BY <1>2
  <2> QED
    BY <2>1, <2>2, Zenon
<1> QED
  BY <1>1, <1>5, <1>6, <1>7 DEF impact, from

\* At every depth, over every graph that registrations can make, the impact of a
\* disruption is what the edges reach: build_dependency_impact_snapshot misses no
\* node and no edge, and makes none up, whatever loops and parallel edges there
\* are; and every node it names is registered.
THEOREM ImpactIsAlwaysExact == Spec => []ImpactIsExact
<1>1. TypeOK /\ GraphClosed => ImpactIsExact
  BY TraversalIsExact DEF ImpactIsExact
<1> QED
  BY <1>1, InventoryTypeCorrect, GraphIsClosed, PTL

\* A snapshot that went stale says too little at most: every path it rests on is
\* still there after any registration, so every node and edge it names still is
\* part of the impact.
THEOREM StaleImpactAlwaysUnderstates == Spec => StaleImpactUnderstates
<1>1. TypeOK /\ ImpactIsExact /\ ImpactIsExact' /\ [Next]_vars =>
        [edges' # edges => \A depth \in 1..MaxDepth : ImpactOnlyGrows(depth)]_vars
  <2> SUFFICES ASSUME TypeOK, ImpactIsExact, ImpactIsExact', [Next]_vars,
                      NEW depth \in 1..MaxDepth, NEW e \in Entity,
                      NEW direction \in Direction, NEW ref \in NodeRef,
                      Originates(e, {ref})
               PROVE  LET before == Impact(e, {ref}, direction, depth)
                          after  == Impact(e, {ref}, direction, depth)'
                      IN  /\ before.impacted \subseteq after.impacted
                          /\ before.traversed \subseteq after.traversed
    BY DEF ImpactOnlyGrows
  <2> DEFINE before == Impact(e, {ref}, direction, depth)
             after == Impact(e, {ref}, direction, depth)'
             from == {p \in Paths(e, direction, depth) : p[1] \in {ref}}
             later == {p \in Paths(e, direction, depth)' : p[1] \in {ref}}
  <2>1. RecordsStay
    BY StepKeepsRecords
  <2>2. Originates(e, {ref})'
    BY <2>1 DEF RecordsStay, Originates, KnownEntity, KnownNode
  <2>3. ASSUME NEW d \in RegisteredEdges(e), NEW nodeRefs
        PROVE  /\ d \in RegisteredEdges(e)'
               /\ Candidates(e, d, direction, nodeRefs)'
                    = Candidates(e, d, direction, nodeRefs)
    BY <2>1 DEF RecordsStay, RegisteredEdges, Candidates
  <2>4. from \subseteq later
    <3> SUFFICES ASSUME NEW p \in from PROVE p \in later
      OBVIOUS
    <3>1. /\ p \in UNION {[1..n -> NodeRef] : n \in 1..(depth + 1)}
          /\ \A i \in 1..(Len(p) - 1) : \E d \in RegisteredEdges(e) :
               p[i + 1] \in Candidates(e, d, direction, {p[i]})
      BY DEF Paths
    <3>2. \A i \in 1..(Len(p) - 1) : \E d \in RegisteredEdges(e)' :
            p[i + 1] \in Candidates(e, d, direction, {p[i]})'
      BY <2>3, <3>1
    <3> QED
      BY <3>1, <3>2 DEF Paths
  <2>5. /\ before.impacted = {End(p) : p \in from} \ {ref}
        /\ before.traversed =
             {d \in RegisteredEdges(e) :
                \E p \in from : /\ Len(p) <= depth
                                /\ Candidates(e, d, direction, {End(p)}) # {}}
    <3>1. ImpactIsReachability(depth) /\ {ref} \in SUBSET NodeRef
      BY DEF ImpactIsExact
    <3> QED
      BY <3>1, Zenon DEF ImpactIsReachability
  <2>6. /\ after.impacted = {End(p) : p \in later} \ {ref}
        /\ after.traversed =
             {d \in RegisteredEdges(e)' :
                \E p \in later : /\ Len(p) <= depth
                                 /\ Candidates(e, d, direction, {End(p)})' # {}}
    <3>1. ImpactIsReachability(depth)' /\ {ref} \in SUBSET NodeRef
      BY DEF ImpactIsExact
    <3> QED
      BY <2>2, <3>1, Zenon DEF ImpactIsReachability
  <2> HIDE DEF before, after, from, later
  <2>7. before.impacted \subseteq after.impacted
    BY <2>4, <2>5, <2>6
  <2>8. before.traversed \subseteq after.traversed
    BY <2>3, <2>4, <2>5, <2>6
  <2> QED
    BY <2>7, <2>8 DEF before, after
<1> QED
  BY <1>1, InventoryTypeCorrect, ImpactIsAlwaysExact, PTL
  DEF Spec, StaleImpactUnderstates
=============================================================================
