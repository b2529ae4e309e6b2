------------------------------ MODULE Inventory ------------------------------
(***************************************************************************)
(* InventoryRegistry (src/src/doraops/inventory.py): the append-only,      *)
(* entity-scoped register of a financial entity's functions, assets, ICT   *)
(* services, third-party providers, their services and the dependency      *)
(* edges between them.  Every other registry of the library pins the       *)
(* digest of this one, so what matters is which states it can reach and    *)
(* whether a pinned digest that went stale can ever become current again.  *)
(*                                                                         *)
(* A record stands for its own SHA-256 digest: two records have the same   *)
(* digest exactly when they are equal (canonical_json is injective on the  *)
(* records modelled here, and collisions are ignored).                     *)
(***************************************************************************)
EXTENDS Naturals

CONSTANTS
  Entity,    \* financial entities
  Provider,  \* provider_id values
  Service,   \* third_party_service_id values
  Node,      \* (kind, id) of every other node: functions, processes, assets
  Edge,      \* edge_id values
  Content,   \* what the descriptive fields of a record may say
  MaxRank,   \* bound on supply_chain_rank
  None       \* "not registered", and Python's None

ASSUME InventoryAssumption ==
  /\ MaxRank \in Nat
  /\ None \notin Service \cup Content
  /\ Service \cap Node = {}

VARIABLES
  entities,   \* _entities
  providers,  \* _providers, by entity
  services,   \* _nodes of kind THIRD_PARTY_SERVICE, by entity
  nodes,      \* _nodes of the other kinds, by entity
  edges,      \* _edges, by entity
  pinned      \* the inventory digest a downstream artifact carries, by entity

vars == <<entities, providers, services, nodes, edges, pinned>>

Rank == 1..MaxRank

\* A ThirdPartyService that passes __post_init__: direct services, and only
\* they, have rank 1 and no parent.  direct_provider is therefore rank = 1.
ServiceRecord ==
  {r \in [provider : Provider, rank : Rank, parent : Service \cup {None}] :
     r.rank = 1 <=> r.parent = None}

NodeRef == Service \cup Node

\* A DependencyEdge that passes __post_init__: no self reference.
EdgeRecord ==
  {r \in [source : NodeRef, target : NodeRef] : r.source # r.target}

Optional(S) == S \cup {None}

\* Mutant: a manifest that forgets the dependency edges.
ManifestWithoutEdges(e) ==
  [entity |-> entities[e], providers |-> providers[e],
   services |-> services[e], nodes |-> nodes[e]]

\* What snapshot_manifest digests: every record of the entity, and no other's.
Manifest(e) ==
  [entity    |-> entities[e],
   providers |-> providers[e],
   services  |-> services[e],
   nodes     |-> nodes[e],
   edges     |-> edges[e]]

ManifestType ==
  [entity    : Optional(Content),
   providers : [Provider -> Optional(Content)],
   services  : [Service -> Optional(ServiceRecord)],
   nodes     : [Node -> Optional(Content)],
   edges     : [Edge -> Optional(EdgeRecord)]]

TypeOK ==
  /\ entities  \in [Entity -> Optional(Content)]
  /\ providers \in [Entity -> [Provider -> Optional(Content)]]
  /\ services  \in [Entity -> [Service -> Optional(ServiceRecord)]]
  /\ nodes     \in [Entity -> [Node -> Optional(Content)]]
  /\ edges     \in [Entity -> [Edge -> Optional(EdgeRecord)]]
  /\ pinned    \in [Entity -> Optional(ManifestType)]

Init ==
  /\ entities  = [e \in Entity |-> None]
  /\ providers = [e \in Entity |-> [p \in Provider |-> None]]
  /\ services  = [e \in Entity |-> [s \in Service |-> None]]
  /\ nodes     = [e \in Entity |-> [n \in Node |-> None]]
  /\ edges     = [e \in Entity |-> [d \in Edge |-> None]]
  /\ pinned    = [e \in Entity |-> None]

-----------------------------------------------------------------------------

KnownEntity(e) == entities[e] # None      \* _require_entity

KnownNode(e, ref) ==                      \* _require_node
  \/ ref \in Service /\ services[e][ref] # None
  \/ ref \in Node /\ nodes[e][ref] # None

\* Mutant: the last registration wins.
MayStoreOverwriting(stored, record) == record # None

\* Same identity, same content: accepted again; other content: refused.
MayStore(stored, record) == stored \in {None, record}

RegisterEntity(e, c) ==
  /\ MayStore(entities[e], c)
  /\ entities' = [entities EXCEPT ![e] = c]
  /\ UNCHANGED <<providers, services, nodes, edges, pinned>>

RegisterProvider(e, p, c) ==
  /\ KnownEntity(e)
  /\ MayStore(providers[e][p], c)
  /\ providers' = [providers EXCEPT ![e][p] = c]
  /\ UNCHANGED <<entities, services, nodes, edges, pinned>>

\* Mutant: parent and child may share a rank.
ParentPrecedesOrEqual(e, r) ==
  r.parent # None =>
    services[e][r.parent] # None /\ services[e][r.parent].rank <= r.rank

\* The parent of a subcontracted service is registered in the same entity,
\* nearer to the entity in the supply chain.
ParentPrecedes(e, r) ==
  r.parent # None =>
    /\ services[e][r.parent] # None
    /\ services[e][r.parent].rank < r.rank

RegisterService(e, s, r) ==
  /\ KnownEntity(e)
  /\ providers[e][r.provider] # None
  /\ ParentPrecedes(e, r)
  /\ MayStore(services[e][s], r)
  /\ services' = [services EXCEPT ![e][s] = r]
  /\ UNCHANGED <<entities, providers, nodes, edges, pinned>>

RegisterNode(e, n, c) ==
  /\ KnownEntity(e)
  /\ MayStore(nodes[e][n], c)
  /\ nodes' = [nodes EXCEPT ![e][n] = c]
  /\ UNCHANGED <<entities, providers, services, edges, pinned>>

\* Mutant: only the source of an edge is resolved.
RegisterEdgeToAnything(e, d, r) ==
  /\ KnownEntity(e)
  /\ KnownNode(e, r.source)
  /\ MayStore(edges[e][d], r)
  /\ edges' = [edges EXCEPT ![e][d] = r]
  /\ UNCHANGED <<entities, providers, services, nodes, pinned>>

RegisterEdge(e, d, r) ==
  /\ KnownEntity(e)
  /\ KnownNode(e, r.source)
  /\ KnownNode(e, r.target)
  /\ MayStore(edges[e][d], r)
  /\ edges' = [edges EXCEPT ![e][d] = r]
  /\ UNCHANGED <<entities, providers, services, nodes, pinned>>

\* A caller (an incident, a risk decision, an arrangement, a dossier builder)
\* takes snapshot_digest and stores it in an immutable artifact.  One artifact
\* per entity is followed; when it is taken is arbitrary, so it stands for any.
PinSnapshot(e) ==
  /\ KnownEntity(e)
  /\ pinned[e] = None
  /\ pinned' = [pinned EXCEPT ![e] = Manifest(e)]
  /\ UNCHANGED <<entities, providers, services, nodes, edges>>

Next ==
  \E e \in Entity :
    \/ \E c \in Content : RegisterEntity(e, c)
    \/ \E p \in Provider, c \in Content : RegisterProvider(e, p, c)
    \/ \E s \in Service, r \in ServiceRecord : RegisterService(e, s, r)
    \/ \E n \in Node, c \in Content : RegisterNode(e, n, c)
    \/ \E d \in Edge, r \in EdgeRecord : RegisterEdge(e, d, r)
    \/ PinSnapshot(e)

Spec == Init /\ [][Next]_vars

-----------------------------------------------------------------------------

\* A pinned artifact is accepted by the currentness checks of the other
\* registries exactly when its digest is the live one.
Current(e) == pinned[e] = Manifest(e)

\* Every registered service names a provider its entity has registered and,
\* when subcontracted, a parent service that is registered and strictly nearer
\* to the entity.  register_node compares ranks once, with the parent as it is
\* at that call; third_party.py walks the chain later and relies on it.
SupplyChainSound ==
  \A e \in Entity, s \in Service :
    LET r == services[e][s] IN
      r # None =>
        /\ providers[e][r.provider] # None
        /\ r.parent # None =>
             /\ services[e][r.parent] # None
             /\ services[e][r.parent].rank < r.rank

\* Both endpoints of every registered dependency edge resolve within the edge's
\* own entity, at any later time: the impact traversal of continuity.py follows
\* edges without checking them again.
GraphClosed ==
  \A e \in Entity, d \in Edge :
    edges[e][d] # None =>
      /\ KnownNode(e, edges[e][d].source)
      /\ KnownNode(e, edges[e][d].target)

\* Once the inventory has moved past the digest an artifact carries, no
\* sequence of registrations makes that artifact current again: staleness,
\* which every assert_*_current of the library tests by digest equality, is
\* permanent.
StaleForever ==
  [][\A e \in Entity :
       pinned[e] # None /\ ~Current(e) => pinned'[e] = pinned[e] /\ ~Current(e)']_vars
=============================================================================
