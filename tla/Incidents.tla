------------------------------ MODULE Incidents ------------------------------
(***************************************************************************)
(* IncidentRegistry and the human classification of an incident            *)
(* (src/src/doraops/incidents.py), for one incident of one entity: every   *)
(* register is keyed by (entity_id, incident_id), and no operation reads   *)
(* another key.                                                            *)
(*                                                                         *)
(* The inventory is a counter here: its digest never returns to an earlier *)
(* value (theorem StalenessIsPermanent of InventoryProofs).                *)
(* A value stands for its own digest.                                      *)
(***************************************************************************)
EXTENDS Naturals, Sequences

CONSTANTS
  EventId,             \* event_id values
  EventKind,           \* IncidentEventType
  ImpactId,            \* impact_id values
  Dimension,           \* ImpactDimension
  RequiredKinds,       \* the event types the classification policy requires
  RequiredDimensions,  \* its required_impact_dimensions
  Verdict,             \* HumanClassificationDecision
  EventTime,           \* occurred_at values offered to append_event
  ReviewTime,          \* reviewed_at values
  Occurred,            \* occurred_at of the incident
  MaxInventory,        \* bound on the growth of the inventory
  MaxReviews,          \* bound on the classification reviews
  None

ASSUME IncidentsAssumption ==
  /\ EventTime \subseteq Nat /\ ReviewTime \subseteq Nat /\ Occurred \in Nat
  /\ RequiredKinds \subseteq EventKind
  /\ RequiredDimensions \subseteq Dimension /\ RequiredDimensions # {}
  /\ MaxInventory \in Nat /\ MaxReviews \in Nat
  /\ None \notin Dimension \cup Nat

VARIABLES
  inventory,  \* the live inventory digest
  incident,   \* None, or the inventory digest the registered incident pins
  events,     \* _events: the append-only sequence
  impacts,    \* _impacts, by impact_id
  readiness,  \* the readiness assessment a caller holds, None before the first
  reviews     \* the classification reviews in the callers' hands

incidentVars == <<inventory, incident, events, impacts, readiness, reviews>>

Event == [id : EventId, kind : EventKind, at : EventTime]

\* What evidence_snapshot_digest digests.
SnapshotType ==
  [incident : 0..MaxInventory,
   events   : Seq(Event),
   impacts  : [ImpactId -> Dimension \cup {None}]]

Snapshot == [incident |-> incident, events |-> events, impacts |-> impacts]

Review == [snapshot : SnapshotType, verdict : Verdict, at : ReviewTime]

IncidentsTypeOK ==
  /\ inventory \in 0..MaxInventory
  /\ incident \in 0..MaxInventory \cup {None}
  /\ events \in Seq(Event)
  /\ impacts \in [ImpactId -> Dimension \cup {None}]
  /\ readiness = None
     \/ readiness \in [snapshot : SnapshotType,
                       missing  : SUBSET (RequiredKinds \cup RequiredDimensions)]
  /\ reviews \in Seq(Review)

IncidentsInit ==
  /\ inventory = 0
  /\ incident = None
  /\ events = <<>>
  /\ impacts = [i \in ImpactId |-> None]
  /\ readiness = None
  /\ reviews = <<>>

-----------------------------------------------------------------------------

\* Any registration in InventoryRegistry that stores a new record.
GrowInventory ==
  /\ inventory < MaxInventory
  /\ inventory' = inventory + 1
  /\ UNCHANGED <<incident, events, impacts, readiness, reviews>>

\* The digest of the live inventory is demanded first, so even an exact repeat
\* of an accepted registration is refused once the inventory has grown.
RegisterIncident(pin) ==
  /\ pin = inventory
  /\ incident \in {None, pin}
  /\ incident' = pin
  /\ UNCHANGED <<inventory, events, impacts, readiness, reviews>>

\* A repeated event_id is answered without a change or refused.
AppendEvent(event) ==
  /\ incident # None
  /\ \A i \in DOMAIN events : events[i].id # event.id
  /\ event.at >= Occurred
  /\ events' = Append(events, event)
  /\ UNCHANGED <<inventory, incident, impacts, readiness, reviews>>

\* Mutant: an observation can be corrected in place.
RegisterImpactInPlace(id, dimension) ==
  /\ incident # None
  /\ impacts' = [impacts EXCEPT ![id] = dimension]
  /\ UNCHANGED <<inventory, incident, events, readiness, reviews>>

RegisterImpact(id, dimension) ==
  /\ incident # None
  /\ impacts[id] \in {None, dimension}
  /\ impacts' = [impacts EXCEPT ![id] = dimension]
  /\ UNCHANGED <<inventory, incident, events, readiness, reviews>>

\* missing_inputs.  A policy requires at least one dimension, so that no
\* observation at all (impact_observation) implies a missing dimension.
Missing(snapshot) ==
  (RequiredKinds \ {snapshot.events[i].kind : i \in DOMAIN snapshot.events})
    \cup (RequiredDimensions \ {snapshot.impacts[i] : i \in ImpactId})

\* Mutant: readiness is judged without the impact observations.
AssessReadinessOnEvents ==
  /\ incident # None
  /\ readiness' = [snapshot |-> Snapshot,
                   missing  |-> Missing(Snapshot) \ RequiredDimensions]
  /\ UNCHANGED <<inventory, incident, events, impacts, reviews>>

\* assess_classification_readiness: the caller keeps the result, and evidence
\* may be appended before it is used.
AssessReadiness ==
  /\ incident # None
  /\ readiness' = [snapshot |-> Snapshot, missing |-> Missing(Snapshot)]
  /\ UNCHANGED <<inventory, incident, events, impacts, reviews>>

\* review_incident_classification
ReviewClassification(verdict, at) ==
  /\ readiness # None
  /\ readiness.missing = {}
  /\ readiness.snapshot = Snapshot
  /\ Len(reviews) < MaxReviews
  /\ reviews' = Append(reviews, [snapshot |-> Snapshot,
                                 verdict |-> verdict, at |-> at])
  /\ UNCHANGED <<inventory, incident, events, impacts, readiness>>

IncidentsNext ==
  \/ GrowInventory
  \/ \E pin \in 0..MaxInventory : RegisterIncident(pin)
  \/ \E event \in Event : AppendEvent(event)
  \/ \E id \in ImpactId, dimension \in Dimension : RegisterImpact(id, dimension)
  \/ AssessReadiness
  \/ \E verdict \in Verdict, at \in ReviewTime : ReviewClassification(verdict, at)

IncidentsSpec == IncidentsInit /\ [][IncidentsNext]_incidentVars

-----------------------------------------------------------------------------

\* `earlier` is evidence the incident had on its way to `later`.
Extends(later, earlier) ==
  /\ later.incident = earlier.incident
  /\ Len(earlier.events) <= Len(later.events)
  /\ \A i \in 1..Len(earlier.events) : later.events[i] = earlier.events[i]
  /\ \A i \in ImpactId :
       earlier.impacts[i] # None => later.impacts[i] = earlier.impacts[i]

\* A human decision is only ever taken on complete evidence, and on evidence
\* that is still part of the incident's record: readiness is assessed in one
\* call and reviewed in another, with any number of registrations between.
ReviewsStandOnCompleteEvidence ==
  \A i \in DOMAIN reviews :
    /\ Missing(reviews[i].snapshot) = {}
    /\ Extends(Snapshot, reviews[i].snapshot)

\* Evidence that arrives after a review makes that review stale for good: the
\* snapshot never becomes again what the reviewer saw.
StaleReviewStaysStale ==
  [][\A i \in DOMAIN reviews :
       reviews[i].snapshot # Snapshot =>
         reviews'[i] = reviews[i] /\ reviews'[i].snapshot # Snapshot']_incidentVars
=============================================================================
