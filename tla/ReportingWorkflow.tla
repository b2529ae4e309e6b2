-------------------------- MODULE ReportingWorkflow --------------------------
(***************************************************************************)
(* assess_reporting_workflow (src/src/doraops/reporting.py) as an operator *)
(* of the state of IncidentReporting, and the properties of the registry   *)
(* and of the assessments it leads to.                                     *)
(***************************************************************************)
EXTENDS IncidentReporting

(* Deadlines of an incident that is applicable and classified as major. *)

\* Mutant: the awareness cap is left out.
InitialDueWithoutCap(d) == decisions[d].review.at + ClassificationSpan

\* _initial_deadline
InitialDue(d) ==
  LET reviewed == decisions[d].review.at
      cap == Detected + AwarenessSpan
      due == reviewed + ClassificationSpan
  IN IF reviewed <= cap /\ cap < due THEN cap ELSE due

SubmissionTimes(k) == {r.at : r \in {q \in LatestReceipts(k[1]) : q.key = k}}

\* The receipt of the intermediate report with the highest sequence.
LastIntermediate ==
  CHOOSE r \in LatestReceipts("INTERMEDIATE") :
    \A q \in LatestReceipts("INTERMEDIATE") : q.key[2] <= r.key[2]

InitialSubmitted == LatestReceipts("INITIAL") # {}
IntermediateSubmitted == InitialSubmitted /\ LatestReceipts("INTERMEDIATE") # {}

\* The incident recovered after the last intermediate report: an update is due
\* without undue delay, which no numeric deadline represents.
RecoveryPending ==
  /\ IntermediateSubmitted
  /\ \E i \in DOMAIN events :
       events[i].kind = "RECOVERED" /\ events[i].at > LastIntermediate.at

\* The reports with a numeric statutory deadline, and that deadline.
Obligations(d) ==
  {[key |-> Initial, due |-> InitialDue(d)]}
    \cup {[key |-> Intermediate, due |-> at + IntermediateSpan] :
            at \in SubmissionTimes(Initial)}
    \cup {[key |-> Final, due |-> CalendarMonth[r.at]] :
            r \in {q \in LatestReceipts("INTERMEDIATE") :
                     /\ InitialSubmitted /\ ~RecoveryPending
                     /\ q = LastIntermediate}}

Adjusted(o) == adjustments[o.key] # None

StaleAdjustment(o) == Adjusted(o) /\ adjustments[o.key].original # o.due

EffectiveDue(o) == IF Adjusted(o) THEN adjustments[o.key].adjusted ELSE o.due

Submitted(o) == SubmissionTimes(o.key) # {}

\* Mutant: a missing report is late up to its deadline, not after it.
LateBeforeDue(o, t) ==
  IF Submitted(o) THEN \A at \in SubmissionTimes(o.key) : at > EffectiveDue(o)
  ELSE t <= EffectiveDue(o)

\* _deadline_finding: submitted late, or not submitted and past due at t.
Late(o, t) ==
  IF Submitted(o) THEN \A at \in SubmissionTimes(o.key) : at > EffectiveDue(o)
  ELSE t > EffectiveDue(o)

StaleDelay(o, t) ==
  Late(o, t) /\ delays[o.key] # None /\ delays[o.key] # EffectiveDue(o)

RefusedByAuthority == \E a \in acks : a.status \in RefusedAck

\* Mutant: a recovery that asks for an update does not keep the workflow open.
MajorStateWithoutRecovery(d, t) ==
  LET due == Obligations(d) IN
    IF \E o \in due : StaleAdjustment(o) \/ StaleDelay(o, t)
      THEN "GovernanceError"
    ELSE IF RefusedByAuthority \/ \E o \in due : Late(o, t)
      THEN "BREACHED"
    ELSE IF \E o \in due : ~Submitted(o)
      THEN "PENDING"
    ELSE IF LatestReceipts("FINAL") # {}
      THEN "COMPLETE"
    ELSE "INCOMPLETE"

MajorState(d, t) ==
  LET due == Obligations(d) IN
    IF \E o \in due : StaleAdjustment(o) \/ StaleDelay(o, t)
      THEN "GovernanceError"
    ELSE IF RefusedByAuthority \/ \E o \in due : Late(o, t)
      THEN "BREACHED"
    ELSE IF RecoveryPending \/ \E o \in due : ~Submitted(o)
      THEN "PENDING"
    ELSE IF LatestReceipts("FINAL") # {}
      THEN "COMPLETE"
    ELSE "INCOMPLETE"

NonMajorState ==
  IF ~InitialSubmitted THEN "NOT_REQUIRED"
  ELSE IF LatestReceipts("RECLASSIFICATION") # {} THEN "COMPLETE"
  ELSE "PENDING"

\* The state assess_reporting_workflow reports for decision version d, route
\* version r (0: none) at time t, or the name of the exception it raises.
\* Every branch lists packages() and receipts() of the incident first.
Assess(d, r, t) ==
  IF ~Readable(known, ReportType) THEN "IndexError"
  ELSE IF \/ ~DecisionCurrent(d)
          \/ decisions[d].applicability = "APPLICABLE" /\ ~RouteCurrent(r)
    THEN "REVALIDATION_REQUIRED"
  ELSE IF decisions[d].applicability = "NOT_APPLICABLE" THEN "NOT_REQUIRED"
  ELSE IF decisions[d].review.verdict = "MAJOR" THEN MajorState(d, t)
  ELSE IF decisions[d].review.verdict = "NON_MAJOR" THEN NonMajorState
  ELSE "INCOMPLETE"

Assessed == (1..Len(decisions)) \X (0..Len(routes))

-----------------------------------------------------------------------------
(* The registry. *)

\* The history only moves forward: later decisions are taken later and stand on
\* evidence that extends what the earlier ones saw; and along the revisions of one
\* report, preparation advances and neither the decision nor the route a revision
\* binds goes back to an older version, although register_package compares a
\* revision with its predecessor's time and digest only, and with the registries
\* as they are at that call.
HistoryAdvances ==
  /\ \A i, j \in DOMAIN decisions : i < j =>
       /\ decisions[i].at < decisions[j].at
       /\ Extends(decisions[j].review.snapshot, decisions[i].review.snapshot)
  /\ \A k \in Key : \A i, j \in DOMAIN packages[k] : i < j =>
       /\ packages[k][i].at < packages[k][j].at
       /\ packages[k][i].decision <= packages[k][j].decision
       /\ packages[k][i].route <= packages[k][j].route

\* Every registered package rests on an accountable decision: an applicable
\* one, with the verdict its type calls for, taken on complete evidence, and
\* nothing it binds is younger than the package.
PackagesAreJustified ==
  \A k \in Key : \A i \in DOMAIN packages[k] :
    LET p == packages[k][i] IN
      /\ p.decision \in DOMAIN decisions /\ p.route \in DOMAIN routes
      /\ decisions[p.decision].applicability = "APPLICABLE"
      /\ decisions[p.decision].review.verdict = RequiredVerdict(k)
      /\ Missing(decisions[p.decision].review.snapshot) = {}
      /\ decisions[p.decision].review.at <= decisions[p.decision].at
      /\ decisions[p.decision].at <= p.at /\ routes[p.route] <= p.at

\* A final report exists only after an intermediate one was submitted, and a
\* reclassification notice only after an initial one was: still true when the
\* earlier report has been revised since.
ReportsFollowSubmissions ==
  /\ \A k \in Key : k[1] = "FINAL" /\ packages[k] # <<>> =>
       \E r \in receipts : r.key[1] = "INTERMEDIATE"
  /\ \A k \in Key : k[1] = "RECLASSIFICATION" /\ packages[k] # <<>> =>
       \E r \in receipts : r.key[1] = "INITIAL"

-----------------------------------------------------------------------------
(* The assessment. *)

ReportedInTime(k, due) ==
  \E r \in receipts :
    /\ r.key = k /\ r.revision = Len(packages[k])
    /\ \/ adjustments[k] = None /\ r.at <= due
       \/ adjustments[k] # None /\ adjustments[k].original = due
                                /\ r.at <= adjustments[k].adjusted

\* "complete" is earned: by a major incident only with all three reports
\* submitted, each by the deadline that follows from the submission before it,
\* nothing refused by the authority and no recovery left unreported; by a
\* reclassified one only with the notice submitted.
CompleteIsEarned ==
  \A dr \in Assessed, t \in Time : Assess(dr[1], dr[2], t) = "COMPLETE" =>
    LET d == decisions[dr[1]]
        major ==
          \E i, m \in receipts :
            /\ i.key = Initial /\ i.revision = Len(packages[Initial])
            /\ m.key[1] = "INTERMEDIATE" /\ m.revision = Len(packages[m.key])
            /\ \/ ReportedInTime(Initial, d.review.at + ClassificationSpan)
               \/ ReportedInTime(Initial, Detected + AwarenessSpan)
            /\ d.review.at <= Detected + AwarenessSpan /\ adjustments[Initial] = None
                 => i.at <= Detected + AwarenessSpan
            /\ ReportedInTime(Intermediate, i.at + IntermediateSpan)
            /\ ReportedInTime(Final, OneMonthAfter(m.at))
            /\ \A e \in DOMAIN events :
                 events[e].kind = "RECOVERED" => events[e].at <= m.at
            /\ \A a \in acks : a.status \notin RefusedAck
    IN /\ d.applicability = "APPLICABLE" /\ RouteCurrent(dr[2])
       /\ d.review.verdict = "MAJOR" => major
       /\ d.review.verdict = "NON_MAJOR" =>
            \E r \in receipts : r.key[1] = "RECLASSIFICATION"

\* With the evidence left as it is, time alone never repairs a breach and never
\* undoes completion; a pending workflow can only become breached, or unreadable
\* because the delay notice on file names another deadline.
TimeOnlyWorsens ==
  \A dr \in Assessed : \A t, u \in Time : t < u =>
    LET before == Assess(dr[1], dr[2], t)
        after == Assess(dr[1], dr[2], u)
    IN /\ before = "PENDING" => after \in {"PENDING", "BREACHED", "GovernanceError"}
       /\ before = "BREACHED" => after \in {"BREACHED", "GovernanceError"}
       /\ before \notin {"PENDING", "BREACHED"} => after = before

\* A major incident is never reported as incomplete: once nothing is late and
\* nothing is open the final report has been submitted, so the finding
\* final_report_sequence_not_yet_reachable cannot be produced.
MajorIsNeverIncomplete ==
  \A dr \in Assessed, t \in Time :
    Assess(dr[1], dr[2], t) = "INCOMPLETE" =>
      decisions[dr[1]].review.verdict \notin {"MAJOR", "NON_MAJOR"}

-----------------------------------------------------------------------------
(* What the documentation and the tests say, and the code does not do. *)

\* reporting.py: "intermediate update requires prior intermediate submission
\* evidence", so that one which has it is registered.
RecoveryUpdateCanBeRegistered ==
  \A k \in Key, d \in DOMAIN decisions, r \in DOMAIN routes,
    at \in GovernanceTime :
    /\ k[1] = "INTERMEDIATE" /\ k[2] > 1
    /\ Governed(k, d, r, at) /\ Contiguous(k, at)
    /\ PriorReceipts(k) # {}
    => PackageOutcome(k, d, r, at) = "registered"

\* tests/test_reporting.py: a non-major reclassification "after prior initial
\* submission requires notification evidence".
SubmittedInitialIsNotForgotten ==
  \A dr \in Assessed, t \in Time :
    /\ decisions[dr[1]].applicability = "APPLICABLE"
    /\ \E r \in receipts : r.key = Initial
    => Assess(dr[1], dr[2], t) # "NOT_REQUIRED"

=============================================================================
