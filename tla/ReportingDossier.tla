--------------------------- MODULE ReportingDossier ---------------------------
(***************************************************************************)
(* Incident reporting in a governance dossier: what add_incident and       *)
(* add_incident_reporting (dossier.py, dossier_reporting.py) embed while   *)
(* evidence keeps arriving, what the offline verifier                      *)
(* (dossier_verify_reporting.py) recomputes from the result, and the state *)
(* assurance.py gives the domain.                                          *)
(*                                                                         *)
(* The builder is called by somebody who holds an assessment made earlier, *)
(* and who may call it again while evidence keeps arriving.  That it pins  *)
(* the inventory meanwhile is in ContinuityDossier.                        *)
(***************************************************************************)
EXTENDS ReportingWorkflow

CONSTANTS
  MaxCorrected,  \* bound on the reports that have more than one revision
  MaxNotices,    \* bound on acknowledgements, adjustments and delay notices
  MaxDrift       \* bound on the registrations after the first of the two below

ASSUME DossierAssumption == {MaxCorrected, MaxNotices, MaxDrift} \subseteq Nat

VARIABLES
  held,     \* the workflow assessment the caller holds, None before it
  dossier,  \* what the builder holds, None before add_incident
  drift     \* registrations since an assessment is held or a dossier started

dossierVars == <<vars, held, dossier, drift>>

DossierInit == Init /\ held = None /\ dossier = None /\ drift = 0

-----------------------------------------------------------------------------
(* The assessment as an artifact. *)

\* ReportingDeadline of every obligation; the update after a recovery has none.
DeadlinesOf(d) ==
  {[key |-> o.key, statutory |-> o.due, effective |-> EffectiveDue(o),
    adjustment |-> adjustments[o.key]] : o \in Obligations(d)}
    \cup {[key |-> <<"INTERMEDIATE", r.key[2] + 1>>, statutory |-> None,
           effective |-> None, adjustment |-> None] :
            r \in {q \in LatestReceipts("INTERMEDIATE") :
                     RecoveryPending /\ q = LastIntermediate}}

\* assess_reporting_workflow with everything it returns; a state that names an
\* exception stands for no assessment at all.
AssessmentOf(d, r, t) ==
  LET state == Assess(d, r, t)
      judged == state # "REVALIDATION_REQUIRED"
  IN  [decision  |-> d,
       route     |-> IF judged /\ decisions[d].applicability = "NOT_APPLICABLE"
                     THEN 0 ELSE r,
       review    |-> decisions[d].review,
       snapshot  |-> Snapshot,
       at        |-> t,
       state     |-> state,
       deadlines |-> IF /\ judged /\ decisions[d].applicability = "APPLICABLE"
                        /\ decisions[d].review.verdict = "MAJOR"
                     THEN DeadlinesOf(d) ELSE {},
       packages  |-> {<<k, Len(packages[k])>> : k \in {j \in Key : packages[j] # <<>>}},
       receipts  |-> {r0 \in receipts : r0.revision = Len(packages[r0.key])}]

\* The caller assesses the decision and the route registered last, or no route;
\* what it may be given of older ones is REVALIDATION_REQUIRED too.
TakeAssessment(t) ==
  /\ held = None /\ decisions # <<>>
  /\ Assess(Len(decisions), Len(routes), t) \notin {"GovernanceError", "IndexError"}
  /\ held' = AssessmentOf(Len(decisions), Len(routes), t)
  /\ UNCHANGED <<vars, dossier, drift>>

-----------------------------------------------------------------------------
(* The builder. *)

\* add_incident with a review.  Evidence is complete whenever there is a review
\* (ReviewsStandOnCompleteEvidence), so that readiness adds no gap of its own.
AddIncident(review) ==
  /\ dossier = None
  /\ incident # None
  /\ dossier' =
       [incident  |-> [snapshot |-> Snapshot,
                       review   |-> review,
                       pinned   |-> incident = inventory,
                       state    |-> IF incident = inventory
                                       /\ review.snapshot = Snapshot
                                    THEN "current" ELSE "revalidation_required"],
        reporting |-> None,
        overtaken |-> FALSE]
  /\ UNCHANGED <<vars, held, drift>>

\* A repeated add_incident: the incident itself must have kept its state.  The newer
\* events and observations are embedded before the readiness that counts them is
\* compared with the embedded one, and stay when the call raises.  With nothing newer
\* the call changes nothing, whether it raises or not.
AddIncidentOvertaken ==
  /\ dossier # None
  /\ dossier.incident.pinned = (incident = inventory)
  /\ dossier.incident.snapshot # Snapshot
  /\ dossier' = [dossier EXCEPT !.incident.snapshot = Snapshot, !.overtaken = TRUE]
  /\ UNCHANGED <<vars, held, drift>>

\* Mutant: the state of the assessment is taken at its word.
AssessmentArtifactStateTrusting(assessment) ==
  IF assessment.state = "REVALIDATION_REQUIRED" THEN "revalidation_required"
  ELSE IF assessment.state \in {"PENDING", "INCOMPLETE", "BREACHED"}
    THEN "with_gaps"
  ELSE "current"

\* The state of the workflow_assessment artifact: the assessment is repeated for
\* its own time, on the evidence as it is now.
AssessmentArtifactState(assessment) ==
  IF assessment #
       AssessmentOf(assessment.decision, assessment.route, assessment.at)
    THEN "revalidation_required"
  ELSE IF assessment.state = "REVALIDATION_REQUIRED" THEN "revalidation_required"
  ELSE IF assessment.state \in {"PENDING", "INCOMPLETE", "BREACHED"}
    THEN "with_gaps"
  ELSE "current"

\* The audit histories of reporting_audit.py, in full, with the assessment.
Reporting(assessment, state) ==
  [decisions |-> decisions, routes |-> routes, packages |-> packages,
   receipts |-> receipts, acks |-> acks, adjustments |-> adjustments,
   delays |-> delays, assessment |-> assessment, state |-> state]

\* Mutant: the embedded review is not compared.
MayAddReportingOfAnyReview ==
  /\ dossier # None
  /\ held # None

\* add_incident must have added the exact classification review.
MayAddReporting ==
  /\ dossier # None
  /\ held # None
  /\ dossier.incident.review = held.review

EvidenceTaken == dossier # None /\ dossier.reporting # None

AssessmentEmbedded == EvidenceTaken /\ dossier.reporting.assessment # None

\* add_incident_reporting: all histories as they are now, then the assessment.  When
\* there is one in the dossier, the call returns if the artifact is still the same.
AddReporting ==
  /\ MayAddReporting
  /\ Readable(known, ReportType)
  /\ AssessmentEmbedded => dossier.reporting.state = AssessmentArtifactState(held)
  /\ dossier' = [dossier EXCEPT !.reporting =
                   Reporting(held, AssessmentArtifactState(held))]
  /\ UNCHANGED <<vars, held, drift>>

\* The repeated assessment lists the packages and raises IndexError for a key that
\* a refused package left behind: the builder keeps the histories it has added.
AddReportingPartly ==
  /\ MayAddReporting
  /\ ~Readable(known, ReportType)
  /\ ~AssessmentEmbedded
  /\ dossier' = [dossier EXCEPT !.reporting = Reporting(None, "current")]
  /\ UNCHANGED <<vars, held, drift>>

\* A repeated call that raises, because the artifact of the assessment has another
\* state or other findings now, because another assessment is passed, or with the
\* IndexError: the newer histories stay beside the older assessment.
AddReportingOvertaken ==
  /\ MayAddReporting
  /\ AssessmentEmbedded
  /\ dossier' = [dossier EXCEPT
                   !.reporting = Reporting(dossier.reporting.assessment,
                                           dossier.reporting.state),
                   !.overtaken = TRUE]
  /\ UNCHANGED <<vars, held, drift>>

\* Any registration, review or growth of the inventory, between any two calls.
\* A second review, decision or route is one that comes after the work has begun.
EvidenceMoves ==
  /\ IF held = None /\ dossier = None THEN UNCHANGED drift
     ELSE drift < MaxDrift /\ drift' = drift + 1
  /\ Next
  /\ held = None /\ dossier = None =>
       Len(reviews') <= 1 /\ Len(decisions') <= 1 /\ Len(routes') <= 1
  /\ Cardinality({k \in Key : Len(packages'[k]) > 1}) <= MaxCorrected
  /\ Cardinality(acks') + Cardinality({k \in Key : adjustments'[k] # None})
       + Cardinality({k \in Key : delays'[k] # None}) <= MaxNotices
  /\ UNCHANGED <<held, dossier>>

DossierNext ==
  \/ EvidenceMoves
  \/ \E t \in Time : TakeAssessment(t)
  \/ \E i \in DOMAIN reviews : AddIncident(reviews[i])
  \/ AddIncidentOvertaken
  \/ AddReporting
  \/ AddReportingPartly
  \/ AddReportingOvertaken

DossierSpec == DossierInit /\ [][DossierNext]_dossierVars

-----------------------------------------------------------------------------
(* The offline verifier.  It reads the document only. *)

\* Artifacts are sorted by identity, as strings, so that :r10 precedes :r2; this
\* orders the first 99 revisions of a report the same way.
FilePosition(revision) ==
  IF revision < 10 THEN 100 * revision ELSE 10 * revision + 1

LastInFile(revisions) ==
  CHOOSE i \in DOMAIN revisions :
    \A j \in DOMAIN revisions : FilePosition(j) <= FilePosition(i)

\* The submission of a report that the verifier takes for the latest: of all
\* revisions, by sequence and time.
LastSubmission(rep, type) ==
  CHOOSE r \in {q \in rep.receipts : q.key[1] = type} :
    \A q \in {p \in rep.receipts : p.key[1] = type} :
      \/ q.key[2] < r.key[2]
      \/ q.key[2] = r.key[2] /\ q.at <= r.at

HasSubmission(rep, type) == \E r \in rep.receipts : r.key[1] = type

\* The decision in force and the route in force are the ones assessed.
BindingsHold(doc) ==
  LET rep == doc.reporting
      a == rep.assessment
      last == Len(rep.decisions)
  IN  /\ a.review = doc.incident.review
      /\ a.snapshot = a.review.snapshot
      /\ a.decision = last
      /\ rep.decisions[last].review = a.review
      /\ IF rep.decisions[last].applicability = "NOT_APPLICABLE"
         THEN a.route = 0
         ELSE a.route # 0 /\ a.route = Len(rep.routes)

\* Packages name embedded decisions and routes, receipts embedded packages and
\* acknowledgements embedded receipts, each in the order in time.
HistoriesHold(rep) ==
  /\ \A k \in Key : \A i \in DOMAIN rep.packages[k] :
       LET p == rep.packages[k][i] IN
         /\ p.decision \in DOMAIN rep.decisions /\ p.route \in DOMAIN rep.routes
         /\ i > 1 => p.at > rep.packages[k][i - 1].at
  /\ \A r \in rep.receipts :
       /\ r.revision \in DOMAIN rep.packages[r.key]
       /\ r.at >= rep.packages[r.key][r.revision].at
       /\ \A q \in rep.receipts :
            q.key = r.key /\ q.revision = r.revision => q = r
  /\ \A a \in rep.acks :
       \E r \in rep.receipts : r.key = a.key /\ r.revision = a.revision
  /\ \A k \in Key : rep.adjustments[k] # None =>
       rep.adjustments[k].adjusted > rep.adjustments[k].original

\* The statutory deadline that the embedded evidence gives for a report.
StatutoryHolds(doc, o) ==
  LET rep == doc.reporting
      cap == Detected + AwarenessSpan
      due == doc.incident.review.at + ClassificationSpan
  IN  /\ o.key[1] = "INITIAL" =>
           o.statutory = IF doc.incident.review.at <= cap /\ due > cap
                         THEN cap ELSE due
      /\ o.key = Intermediate =>
           /\ HasSubmission(rep, "INITIAL")
           /\ o.statutory = LastSubmission(rep, "INITIAL").at + IntermediateSpan
      /\ o.key[1] = "FINAL" =>
           /\ HasSubmission(rep, "INTERMEDIATE")
           /\ o.statutory = CalendarMonth[LastSubmission(rep, "INTERMEDIATE").at]

\* A recovery update without undue delay has no deadline to check.
DeadlinesHold(doc) ==
  \A o \in doc.reporting.assessment.deadlines : o.statutory # None =>
    /\ o.adjustment = doc.reporting.adjustments[o.key]
    /\ IF o.adjustment = None THEN o.effective = o.statutory
       ELSE /\ o.adjustment.original = o.statutory
            /\ o.adjustment.adjusted = o.effective
    /\ StatutoryHolds(doc, o)

\* latest_package_digests and latest_receipt_digests
LatestHold(rep) ==
  LET latest == {<<k, LastInFile(rep.packages[k])>> :
                   k \in {j \in Key : rep.packages[j] # <<>>}}
  IN  /\ rep.assessment.packages = latest
      /\ rep.assessment.receipts =
           {r \in rep.receipts : <<r.key, r.revision>> \in latest}

\* _verify_reporting.  The state of the assessment is not recomputed.
Verifies(doc) ==
  /\ doc.reporting.assessment # None
  /\ BindingsHold(doc)
  /\ HistoriesHold(doc.reporting)
  /\ DeadlinesHold(doc)
  /\ LatestHold(doc.reporting)

\* _semantic_state and _domain_summary of assurance.py, for this domain.
DomainState(rep) ==
  IF rep.state = "revalidation_required" THEN rep.state
  ELSE CASE rep.assessment.state = "REVALIDATION_REQUIRED" -> "revalidation_required"
         [] rep.assessment.state = "BREACHED"              -> "breached"
         [] rep.assessment.state = "INCOMPLETE"            -> "incomplete"
         [] rep.assessment.state = "PENDING"               -> "attention"
         [] OTHER -> IF rep.state = "with_gaps" THEN "attention" ELSE "healthy"

-----------------------------------------------------------------------------

\* The corrections of a report were submitted in the order of their revisions, and
\* there are fewer than ten of them: the verifier reads neither otherwise.
OrderlySubmissions(rep) ==
  /\ \A r, q \in rep.receipts : r.key = q.key /\ r.revision < q.revision => r.at <= q.at
  /\ \A k \in Key : Len(rep.packages[k]) < 10

\* docs/INCIDENT_REPORTING.md: the verifier "recomputes cross-bindings, revision
\* chains, [...] and the initial/72-hour/final calendar-month deadline
\* relationships from embedded evidence".  What it recomputes from the document is
\* what the builder computed from the registries, whatever arrived between the
\* assessment and the calls of add_incident and add_incident_reporting, repeated ones
\* included: a dossier whose assessment the builder does not mark for revalidation
\* passes, unless a repeated call raised and left newer evidence beside it.
CurrentReportingVerifies ==
  /\ AssessmentEmbedded
  /\ ~dossier.overtaken
  /\ dossier.reporting.state # "revalidation_required"
  /\ OrderlySubmissions(dossier.reporting)
  => Verifies(dossier)

EmbeddedLatest(rep, type) ==
  {r \in rep.receipts : r.key[1] = type /\ r.revision = Len(rep.packages[r.key])}

\* The verifier trusts the state of the assessment, so that the builder must not
\* embed one that no longer holds.  In a dossier that verifies, a healthy domain
\* has, for a major incident, all three reports among the embedded receipts, each in
\* time for the one before it, nothing refused, and no recovery among the embedded
\* events later than the intermediate report; for one that is not major, the notice
\* if the initial notification went out; and the incident is the one assessed.  The
\* exception is the same: a repeated call that raised.
HealthyReportingIsEarned ==
  /\ EvidenceTaken
  /\ ~dossier.overtaken
  /\ Verifies(dossier)
  /\ DomainState(dossier.reporting) = "healthy"
  => LET rep == dossier.reporting
         decision == rep.decisions[Len(rep.decisions)]
         evidence == dossier.incident.snapshot
         InTime(r, due) ==
           r.at <= IF rep.adjustments[r.key] = None THEN due
                   ELSE rep.adjustments[r.key].adjusted
     IN  /\ evidence = decision.review.snapshot
         /\ decision.applicability = "APPLICABLE"
              /\ decision.review.verdict = "MAJOR" =>
              \E i \in EmbeddedLatest(rep, "INITIAL"),
                 m \in EmbeddedLatest(rep, "INTERMEDIATE"),
                 f \in EmbeddedLatest(rep, "FINAL") :
                /\ InTime(i, decision.review.at + ClassificationSpan)
                /\ InTime(m, i.at + IntermediateSpan)
                /\ InTime(f, CalendarMonth[m.at])
                /\ \A e \in DOMAIN evidence.events :
                     evidence.events[e].kind = "RECOVERED"
                       => evidence.events[e].at <= m.at
                /\ \A a \in rep.acks : a.status \notin RefusedAck
         /\ decision.applicability = "APPLICABLE"
              /\ decision.review.verdict = "NON_MAJOR" =>
              \/ EmbeddedLatest(rep, "INITIAL") = {}
              \/ EmbeddedLatest(rep, "RECLASSIFICATION") # {}
=============================================================================
