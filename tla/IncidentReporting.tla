-------------------------- MODULE IncidentReporting --------------------------
(***************************************************************************)
(* IncidentReportingRegistry and assess_reporting_workflow                 *)
(* (src/src/doraops/reporting.py, reporting_strict.py) on top of the       *)
(* incident evidence of module Incidents: applicability decisions, routes, *)
(* report packages and their revisions, submission receipts, authority     *)
(* acknowledgements, deadline adjustments and delay notices of one         *)
(* incident, and the workflow state computed from them.                    *)
(*                                                                         *)
(* Every timestamp is supplied by a caller, so an action takes any that    *)
(* its guards allow.  One route_id is followed; the registry reads only    *)
(* the route it is given.                                                  *)
(***************************************************************************)
EXTENDS Incidents, Calendar, FiniteSets

CONSTANTS
  Time,                \* timestamps of submissions, deadlines and assessments
  GovernanceTime,      \* decided_at, registered_at and prepared_at values
  Detected,            \* detected_at of the incident
  ClassificationSpan,  \* _INITIAL_CLASSIFICATION_SECONDS
  AwarenessSpan,       \* _INITIAL_AWARENESS_SECONDS
  IntermediateSpan,    \* _INTERMEDIATE_SECONDS
  Key,                 \* (report_type, sequence) pairs callers use
  AdjustableKey,       \* those adjustments and notices are offered for
  RefusableKey,        \* those whose first registration may be refused
  AckStatus,           \* AcknowledgementStatus values offered
  MaxDecisions, MaxRoutes, MaxRevisions   \* bounds on the histories

ReportType == {"INITIAL", "INTERMEDIATE", "FINAL", "RECLASSIFICATION"}
RefusedAck == {"REJECTED", "TECHNICAL_ERROR"}
Initial == <<"INITIAL", 1>>
Intermediate == <<"INTERMEDIATE", 1>>
Final == <<"FINAL", 1>>

ASSUME ReportingAssumption ==
  /\ Time \subseteq Nat /\ GovernanceTime \subseteq Nat /\ Detected \in Nat
  /\ {ClassificationSpan, AwarenessSpan, IntermediateSpan} \subseteq Nat
  /\ \A t \in Time : InCalendar(t)
  /\ Key \subseteq ReportType \X (Nat \ {0})
  /\ \A k \in Key : k[1] # "INTERMEDIATE" => k[2] = 1
  /\ {Initial, Intermediate, Final} \cup AdjustableKey \cup RefusableKey \subseteq Key
  /\ {"MAJOR", "NON_MAJOR"} \subseteq Verdict
  /\ {MaxDecisions, MaxRoutes, MaxRevisions} \subseteq Nat

VARIABLES
  decisions,    \* _decisions: the applicability history
  routes,       \* _routes: registered_at of every route version
  known,        \* the keys present in the _packages dictionary
  packages,     \* _packages: the revisions of every key
  receipts,     \* _receipts, by package
  acks,         \* _acknowledgements, by receipt
  adjustments,  \* _adjustments
  delays        \* _delay_notifications

reportingVars == <<decisions, routes, known, packages, receipts, acks,
                   adjustments, delays>>
vars == <<incidentVars, reportingVars>>

CalendarMonth == [t \in Time |-> AddCalendarMonth(t)]

Applicability == {"APPLICABLE", "NOT_APPLICABLE"}

Decision ==
  [review : Review, applicability : Applicability, at : GovernanceTime]

\* A package binds its decision, and through it the review and the evidence,
\* and its route, by digest; versions identify them here.
Package == [decision : 1..MaxDecisions, route : 1..MaxRoutes,
            at : GovernanceTime]

Receipt == [key : Key, revision : 1..MaxRevisions, at : Time]
Ack == [key : Key, revision : 1..MaxRevisions, status : AckStatus]
Adjustment == [original : Nat, adjusted : Nat]

TypeOK ==
  /\ IncidentsTypeOK
  /\ decisions \in Seq(Decision)
  /\ routes \in Seq(GovernanceTime)
  /\ known \in SUBSET Key
  /\ packages \in [Key -> Seq(Package)]
  /\ receipts \in SUBSET Receipt
  /\ acks \in SUBSET Ack
  /\ adjustments \in [Key -> Adjustment \cup {None}]
  /\ delays \in [Key -> Nat \cup {None}]

Init ==
  /\ IncidentsInit
  /\ decisions = <<>>
  /\ routes = <<>>
  /\ known = {}
  /\ packages = [k \in Key |-> <<>>]
  /\ receipts = {}
  /\ acks = {}
  /\ adjustments = [k \in Key |-> None]
  /\ delays = [k \in Key |-> None]

-----------------------------------------------------------------------------
(* Applicability and routes. *)

\* Mutant: the decision is not compared with the live evidence.
RegisterApplicabilityOfAnyReview(review, applicability, at) ==
  /\ at >= review.at
  /\ at >= Detected
  /\ decisions # <<>> => at > decisions[Len(decisions)].at
  /\ Len(decisions) < MaxDecisions
  /\ decisions' = Append(decisions, [review |-> review,
                                     applicability |-> applicability, at |-> at])
  /\ UNCHANGED <<incidentVars, routes, known, packages, receipts, acks,
                 adjustments, delays>>

\* A repeated decision_version is answered without a change or refused, so the
\* version registered here is the next one; decision_id is the same throughout.
RegisterApplicability(review, applicability, at) ==
  /\ incident # None
  /\ review.snapshot = Snapshot
  /\ at >= review.at
  /\ at >= Detected
  /\ decisions # <<>> => at > decisions[Len(decisions)].at
  /\ Len(decisions) < MaxDecisions
  /\ decisions' = Append(decisions, [review |-> review,
                                     applicability |-> applicability, at |-> at])
  /\ UNCHANGED <<incidentVars, routes, known, packages, receipts, acks,
                 adjustments, delays>>

RegisterRoute(at) ==
  /\ routes # <<>> => at > routes[Len(routes)]
  /\ Len(routes) < MaxRoutes
  /\ routes' = Append(routes, at)
  /\ UNCHANGED <<incidentVars, decisions, known, packages, receipts, acks,
                 adjustments, delays>>

\* assert_applicability_current, for the decision of version d and its review.
DecisionCurrent(d) ==
  /\ d \in 1..Len(decisions)
  /\ d = Len(decisions)
  /\ decisions[d].review.snapshot = Snapshot

\* assert_route_current, for the route of version r; 0 stands for no route.
RouteCurrent(r) == r # 0 /\ r = Len(routes)

-----------------------------------------------------------------------------
(* Packages. *)

\* packages() takes revisions[-1] of every key of the dictionary that has the
\* asked types: it raises IndexError when one of them has no revision.
Readable(keys, types) ==
  \A k \in keys : k[1] \in types => packages[k] # <<>>

\* receipts(): only the receipt of a key's latest revision counts.
LatestReceipts(type) ==
  {r \in receipts : r.key[1] = type /\ r.revision = Len(packages[r.key])}

\* Mutant: any represented intermediate package will do.
NeedsPriorOnlyForUpdates(k) == k[2] > 1

\* The package types whose registration asks for an earlier submission.
NeedsPrior(k) == k[1] \in {"RECLASSIFICATION", "FINAL"} \/ k[2] > 1

PriorType(k) == IF k[1] = "RECLASSIFICATION" THEN "INITIAL" ELSE "INTERMEDIATE"

PriorReceipts(k) ==
  {r \in LatestReceipts(PriorType(k)) : k[2] > 1 => r.key[2] = k[2] - 1}

RequiredVerdict(k) ==
  IF k[1] = "RECLASSIFICATION" THEN "NON_MAJOR" ELSE "MAJOR"

\* Mutant: chronology is checked against the decision and the route only.
GovernedWithoutRouteTime(k, d, r, at) ==
  /\ DecisionCurrent(d)
  /\ RouteCurrent(r)
  /\ decisions[d].applicability = "APPLICABLE"
  /\ at >= decisions[d].at
  /\ decisions[d].review.verdict = RequiredVerdict(k)

\* The bindings register_package demands before it looks at other packages.
Governed(k, d, r, at) ==
  /\ DecisionCurrent(d)
  /\ RouteCurrent(r)
  /\ decisions[d].applicability = "APPLICABLE"
  /\ at >= decisions[d].at
  /\ at >= routes[r]
  /\ decisions[d].review.verdict = RequiredVerdict(k)

\* Mutant: a revision may carry the preparation time of its predecessor.
ContiguousInTime(k, at) ==
  packages[k] # <<>> => at >= packages[k][Len(packages[k])].at

\* The revision follows the last one; its digest is the one it supersedes.
Contiguous(k, at) ==
  packages[k] # <<>> => at > packages[k][Len(packages[k])].at

\* How a call of register_package with the next revision of key k ends.  The
\* key is in the dictionary before anything is checked (setdefault), so a first
\* revision reads its own empty list when it asks for receipts of its own type.
PackageOutcome(k, d, r, at) ==
  IF \/ ~Governed(k, d, r, at)
     \/ k[1] # "RECLASSIFICATION" /\ ~Contiguous(k, at)
    THEN "GovernanceError"
  ELSE IF NeedsPrior(k) /\ ~Readable(known \cup {k}, {PriorType(k)})
    THEN "IndexError"
  ELSE IF \/ NeedsPrior(k) /\ PriorReceipts(k) = {}
          \/ ~Contiguous(k, at)
    THEN "GovernanceError"
  ELSE "registered"

\* Mutant: the package records the route version after the one it was checked
\* against.
RegisterPackageOfNextRoute(k, d, r, at) ==
  /\ Len(packages[k]) < MaxRevisions
  /\ PackageOutcome(k, d, r, at) = "registered"
  /\ known' = known \cup {k}
  /\ packages' = [packages EXCEPT ![k] =
                    Append(@, [decision |-> d, route |-> r + 1, at |-> at])]
  /\ UNCHANGED <<incidentVars, decisions, routes, receipts, acks, adjustments,
                 delays>>

RegisterPackage(k, d, r, at) ==
  /\ Len(packages[k]) < MaxRevisions
  /\ PackageOutcome(k, d, r, at) = "registered"
  /\ known' = known \cup {k}
  /\ packages' = [packages EXCEPT ![k] =
                    Append(@, [decision |-> d, route |-> r, at |-> at])]
  /\ UNCHANGED <<incidentVars, decisions, routes, receipts, acks, adjustments,
                 delays>>

\* A refused first revision leaves its key behind with an empty list.  d and r
\* are 0 when the caller's decision or route was never registered.
RefusePackage(k, d, r, at) ==
  /\ k \notin known
  /\ PackageOutcome(k, d, r, at) # "registered"
  /\ known' = known \cup {k}
  /\ UNCHANGED <<incidentVars, decisions, routes, packages, receipts, acks,
                 adjustments, delays>>

-----------------------------------------------------------------------------
(* Submission evidence. *)

\* Any revision may be submitted, superseded or not, current or stale.
RegisterReceipt(k, revision, at) ==
  /\ revision \in DOMAIN packages[k]
  /\ \A r \in receipts : r.key # k \/ r.revision # revision
  /\ at >= packages[k][revision].at
  /\ receipts' = receipts \cup {[key |-> k, revision |-> revision, at |-> at]}
  /\ UNCHANGED <<incidentVars, decisions, routes, known, packages, acks,
                 adjustments, delays>>

RegisterAcknowledgement(receipt, status) ==
  /\ \A a \in acks : a.key # receipt.key \/ a.revision # receipt.revision
  /\ acks' = acks \cup {[key |-> receipt.key, revision |-> receipt.revision,
                         status |-> status]}
  /\ UNCHANGED <<incidentVars, decisions, routes, known, packages, receipts,
                 adjustments, delays>>

\* original_due_at is what the caller says it is: nothing is compared here.
RegisterAdjustment(k, original, adjusted) ==
  /\ adjustments[k] = None
  /\ adjusted > original
  /\ adjustments' = [adjustments EXCEPT ![k] = [original |-> original,
                                                adjusted |-> adjusted]]
  /\ UNCHANGED <<incidentVars, decisions, routes, known, packages, receipts,
                 acks, delays>>

RegisterDelay(k, due) ==
  /\ delays[k] = None
  /\ delays' = [delays EXCEPT ![k] = due]
  /\ UNCHANGED <<incidentVars, decisions, routes, known, packages, receipts,
                 acks, adjustments>>

Next ==
  \/ IncidentsNext /\ UNCHANGED reportingVars
  \/ \E i \in DOMAIN reviews, a \in Applicability, at \in GovernanceTime :
       RegisterApplicability(reviews[i], a, at)
  \/ \E at \in GovernanceTime : RegisterRoute(at)
  \/ \E k \in Key, d \in 0..Len(decisions), r \in 0..Len(routes),
        at \in GovernanceTime :
       \/ RegisterPackage(k, d, r, at)
       \/ k \in RefusableKey /\ RefusePackage(k, d, r, at)
  \/ \E k \in Key, revision \in 1..MaxRevisions, at \in Time :
       RegisterReceipt(k, revision, at)
  \/ \E receipt \in receipts, status \in AckStatus :
       RegisterAcknowledgement(receipt, status)
  \/ \E k \in AdjustableKey, original, adjusted \in Time :
       RegisterAdjustment(k, original, adjusted)
  \/ \E k \in AdjustableKey, due \in Time : RegisterDelay(k, due)

Spec == Init /\ [][Next]_vars
=============================================================================
