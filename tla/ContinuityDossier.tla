-------------------------- MODULE ContinuityDossier --------------------------
(***************************************************************************)
(* Continuity evidence in a governance dossier: what the builder of        *)
(* dossier_strict.py makes of the evidence while the inventory and the     *)
(* evidence move on, what the offline verifier of dossier_verify_strict.py *)
(* makes of the result, and the state assurance.py gives the domain.       *)
(*                                                                         *)
(* A caller hands the builder all the evidence there is of an assessment,  *)
(* as often as it likes.  _add raises when a key is embedded with other    *)
(* content already, and the builder keeps what it has added by then.       *)
(***************************************************************************)
EXTENDS Continuity

CONSTANT MaxEvidence  \* bound on the pieces of evidence altogether

ASSUME EvidenceAssumption == MaxEvidence \in Nat

VARIABLES
  resolution,  \* the resolution the caller holds, None before the first
  dossier      \* the dossier under construction or built, None before it

vars == <<continuityVars, resolution, dossier>>

EvidenceOf(basis) ==
  LET F == {f \in findings : f.of = basis}
      M == {m \in remediations : m.finding \in F}
  IN  [F |-> F, M |-> M, T |-> {r \in retests : r.remediation \in M}]

\* Two resolutions have one digest when this agrees: the history lists all the
\* evidence, and the statuses follow from it.
ResolutionOf(basis, evidence) ==
  [basis    |-> basis,
   evidence |-> evidence,
   state    |-> Resolve(basis, evidence.F, evidence.M, evidence.T)]

ArtifactState == {"current", "with_gaps", "revalidation_required"}

ResolutionState ==
  {"successful", "successful_with_findings", "blocked", "incomplete"}

\* The continuity artifacts of a builder before the first call.  What is not there
\* counts as current.
NoArtifacts ==
  [objective |-> None, plan |-> None, execution |-> None, observations |-> {},
   basis |-> None, assessment |-> None, objection |-> "none",
   evidence |-> [F |-> {}, M |-> {}, T |-> {}], resolution |-> None,
   states |-> [name \in {"objective", "plan", "assessment", "resolution"}
                 |-> "current"]]

TypeOK ==
  /\ ContinuityTypeOK
  /\ resolution = None \/ resolution.state \in ResolutionState
  /\ dossier # None =>
       /\ dossier.inventory \in 0..MaxInventory
       /\ {dossier.overtaken, dossier.built} \subseteq BOOLEAN
       /\ \A name \in DOMAIN dossier.artifacts.states :
            dossier.artifacts.states[name] \in ArtifactState

Init == ContinuityInit /\ resolution = None /\ dossier = None

-----------------------------------------------------------------------------

\* Mutant: the caller keeps the refusal of the resolver for a resolution.
ResolveFindingsAnyway(basis) ==
  /\ assessments[basis] # None
  /\ resolution' = ResolutionOf(basis, EvidenceOf(basis))
  /\ UNCHANGED <<continuityVars, dossier>>

\* resolve_continuity, called with all the evidence of the assessment.
ResolveFindings(basis) ==
  /\ assessments[basis] # None
  /\ ResolutionOf(basis, EvidenceOf(basis)).state # "refused"
  /\ resolution' = ResolutionOf(basis, EvidenceOf(basis))
  /\ UNCHANGED <<continuityVars, dossier>>

\* GovernanceDossierBuilder.__init__ pins and embeds the inventory.
StartDossier ==
  /\ dossier = None
  /\ dossier' = [inventory |-> inventory, artifacts |-> NoArtifacts,
                 overtaken |-> FALSE, built |-> FALSE]
  /\ UNCHANGED <<continuityVars, resolution>>

PinState(current) == IF current THEN "current" ELSE "revalidation_required"

\* What the builder objects to in an assessment, which it makes again from the
\* observations supplied, as of the time of the assessment.
Objection(assessment) ==
  IF ~PlanCurrent THEN "stale plan"
  ELSE IF \E o \in observations : o.at > assessment.at THEN "future observation"
  ELSE IF ~MayAssess(observations, assessment.at) THEN "conflicting observations"
  ELSE IF AssessmentOf(observations, assessment.at) # assessment
    THEN "stale assessment"
  ELSE "none"

\* Mutant: the builder takes the assessment at its word.
AssessmentStateTrusting(assessment) ==
  IF assessment.state = "met" THEN "current" ELSE "with_gaps"

\* The state of the recovery_assessment artifact.
AssessmentArtifactState(assessment) ==
  IF Objection(assessment) # "none" THEN "revalidation_required"
  ELSE IF assessment.state = "met" THEN "current" ELSE "with_gaps"

\* The state of the continuity_resolution artifact.
ResolutionArtifactState(basis, held) ==
  IF held # ResolutionOf(basis, EvidenceOf(basis)) THEN "revalidation_required"
  ELSE IF held.state \in {"blocked", "incomplete"} THEN "with_gaps" ELSE "current"

\* What the builder holds of artifacts that have an identity when _add raises at
\* one of those supplied.
Unique(artifacts) == \A x, y \in artifacts : x.id = y.id => x = y

StoppedAt(embedded, supplied) ==
  {kept \in SUBSET supplied :
     /\ embedded \subseteq kept /\ Unique(kept)
     /\ \E next \in supplied : ~Unique(kept \cup {next})}

\* The same for remediations and retests, whose identities are left out: any two
\* of a kind may have one.
MayStopAt(embedded, supplied) ==
  {kept \in SUBSET supplied : embedded \subseteq kept /\ kept \notin {{}, supplied}}

\* The artifacts as add_continuity_recovery goes: with the exercise and (some of)
\* its observations, then the assessment, then (some of) the lifecycle evidence,
\* and then the resolution the caller holds, if any.
WithObservations(a, embedded) ==
  [a EXCEPT !.objective = objective, !.plan = plan, !.execution = execution,
            !.observations = embedded,
            !.states = [@ EXCEPT !.objective = PinState(ObjectiveCurrent),
                                 !.plan = PinState(PlanCurrent)]]

WithAssessment(a, basis) ==
  [WithObservations(a, observations) EXCEPT
     !.basis = basis, !.assessment = assessments[basis],
     !.objection = Objection(assessments[basis]),
     !.states = [@ EXCEPT !.assessment = AssessmentArtifactState(assessments[basis])]]

WithEvidence(a, basis, embedded) ==
  [WithAssessment(a, basis) EXCEPT !.evidence = embedded]

WithResolution(a, basis, held) ==
  IF held = None THEN WithEvidence(a, basis, EvidenceOf(basis))
  ELSE [WithEvidence(a, basis, EvidenceOf(basis)) EXCEPT
          !.resolution = held,
          !.states = [@ EXCEPT !.resolution = ResolutionArtifactState(basis, held)]]

\* The inventory has moved since the objective was embedded as current.
PinConflicts(a) ==
  /\ a.objective # None
  /\ \/ a.states.objective # PinState(ObjectiveCurrent)
     \/ a.states.plan # PinState(PlanCurrent)

\* Another assessment is embedded, or this one with another verdict on it.
AssessmentConflicts(a, basis) ==
  /\ a.assessment # None
  /\ \/ a.basis # basis
     \/ a.objection # Objection(assessments[basis])

ResolutionConflicts(a, basis, held) ==
  /\ {a.resolution, held} \cap {None} = {}
  /\ \/ a.resolution # held
     \/ a.states.resolution # ResolutionArtifactState(basis, held)

\* The lifecycle evidence a builder may be left with.
EvidenceStops(embedded, all) ==
  {[F |-> kept, M |-> embedded.M, T |-> embedded.T] :
     kept \in StoppedAt(embedded.F, all.F)}
  \cup {e \in {[F |-> all.F, M |-> kept, T |-> embedded.T] :
                 kept \in MayStopAt(embedded.M, all.M)}
          \cup {[F |-> all.F, M |-> all.M, T |-> kept] :
                 kept \in MayStopAt(embedded.T, all.T)} : Unique(all.F)}

Callable(basis) ==
  /\ dossier # None /\ ~dossier.built
  /\ assessments[basis] # None

\* The call gets as far as the assessment.
ReachesAssessment(basis) ==
  /\ Callable(basis)
  /\ ~PinConflicts(dossier.artifacts)
  /\ Unique(observations)

\* The call gets past the assessment.
PassesAssessment(basis) ==
  ReachesAssessment(basis) /\ ~AssessmentConflicts(dossier.artifacts, basis)

\* add_continuity_recovery, with or without the resolution the caller holds.
AddContinuity(basis, held) ==
  /\ PassesAssessment(basis)
  /\ Unique(EvidenceOf(basis).F)
  /\ ~ResolutionConflicts(dossier.artifacts, basis, held)
  /\ dossier' = [dossier EXCEPT !.artifacts = WithResolution(@, basis, held)]
  /\ UNCHANGED <<continuityVars, resolution>>

\* add_continuity_recovery raising before it is through with the assessment: at the
\* objective or the plan, at an observation, or at the assessment.
AddContinuityOvertaken(basis) ==
  /\ \/ /\ Callable(basis) /\ PinConflicts(dossier.artifacts)
        /\ dossier' = [dossier EXCEPT !.overtaken = TRUE]
     \/ /\ Callable(basis) /\ ~PinConflicts(dossier.artifacts)
        /\ \E embedded \in StoppedAt(dossier.artifacts.observations, observations) :
             dossier' = [dossier EXCEPT !.artifacts = WithObservations(@, embedded),
                                        !.overtaken = TRUE]
     \/ /\ ReachesAssessment(basis) /\ AssessmentConflicts(dossier.artifacts, basis)
        /\ dossier' = [dossier EXCEPT !.artifacts = WithObservations(@, observations),
                                      !.overtaken = TRUE]
  /\ UNCHANGED <<continuityVars, resolution>>

\* add_continuity_recovery raising at the lifecycle evidence or at the resolution.
AddContinuityPartly(basis, held) ==
  /\ PassesAssessment(basis)
  /\ \/ \E embedded \in EvidenceStops(dossier.artifacts.evidence, EvidenceOf(basis)) :
          dossier' = [dossier EXCEPT !.artifacts = WithEvidence(@, basis, embedded)]
     \/ /\ Unique(EvidenceOf(basis).F)
        /\ ResolutionConflicts(dossier.artifacts, basis, held)
        /\ dossier' = [dossier EXCEPT !.artifacts =
                         WithEvidence(@, basis, EvidenceOf(basis))]
  /\ UNCHANGED <<continuityVars, resolution>>

\* Mutant: the dossier is built whatever happened to the inventory meanwhile.
BuildAnyTime ==
  /\ dossier # None /\ ~dossier.built
  /\ dossier' = [dossier EXCEPT !.built = TRUE]
  /\ UNCHANGED <<continuityVars, resolution>>

\* build
Build ==
  /\ dossier # None /\ ~dossier.built
  /\ inventory = dossier.inventory
  /\ dossier' = [dossier EXCEPT !.built = TRUE]
  /\ UNCHANGED <<continuityVars, resolution>>

Built == dossier # None /\ dossier.built

\* Any creation, registration or receipt; nothing still matters to a dossier that is
\* built.
EvidenceMoves ==
  /\ ~Built
  /\ ContinuityNext
  /\ Cardinality(observations') + Cardinality(findings')
       + Cardinality(remediations') + Cardinality(retests') <= MaxEvidence
  /\ UNCHANGED <<resolution, dossier>>

Next ==
  \/ EvidenceMoves
  \/ ~Built /\ \E basis \in Basis : ResolveFindings(basis)
  \/ StartDossier
  \/ \E basis \in Basis, held \in {None, resolution} :
       AddContinuity(basis, held) \/ AddContinuityPartly(basis, held)
  \/ \E basis \in Basis : AddContinuityOvertaken(basis)
  \/ Build

Spec == Init /\ [][Next]_vars

-----------------------------------------------------------------------------

\* _dossier_state, for the continuity artifacts.
DossierState(document) ==
  LET states == {document.artifacts.states[name] :
                   name \in DOMAIN document.artifacts.states}
  IN  IF "revalidation_required" \in states THEN "revalidation_required"
      ELSE IF "with_gaps" \in states THEN "with_gaps" ELSE "current"

\* The checks the verifier makes of the assessment against the observations
\* embedded with it.
AssessmentHolds(a) ==
  /\ a.assessment.at >= a.execution.completed
  /\ ~Conflicting(Latest(a.observations))
  /\ \A o \in a.observations : o.at <= a.assessment.at
  /\ a.assessment.seen = AssessmentOf(a.observations, a.assessment.at).seen
  /\ a.assessment.state =
       Aggregate(Metrics(IF a.assessment.seen = None THEN Nothing
                         ELSE a.assessment.seen.measured))

\* Mutant: the order in time of the lifecycle evidence is left to its creators.
LifecycleHoldsInAnyOrder(a) ==
  \A f \in a.evidence.F : f.of = a.basis /\ a.assessment.state # "met"

\* The checks it makes of the findings, remediations and retests.
LifecycleHolds(a) ==
  /\ \A f \in a.evidence.F : f.of = a.basis /\ a.assessment.state # "met"
  /\ \A m \in a.evidence.M : m.at >= m.finding.at
  /\ \A r \in a.evidence.T : r.at >= r.remediation.at

\* The checks it makes of the resolution.  It looks up what the resolution names
\* among the embedded artifacts, and does not look for later evidence.
ResolutionHolds(a) ==
  a.resolution # None =>
    LET F == a.resolution.evidence.F
        M == a.resolution.evidence.M
        T == a.resolution.evidence.T
        open == Unresolved(F, M, T)
    IN  /\ a.resolution.basis = a.basis
        /\ F \subseteq a.evidence.F
        /\ \A f \in F : /\ Standing(f, M) \subseteq a.evidence.M
                        /\ Verdicts(f, M, T) \subseteq a.evidence.T
        /\ a.resolution.state =
             IF open # {} THEN IF a.assessment.state = "incomplete"
                               THEN "incomplete" ELSE "blocked"
             ELSE IF F # {} THEN "successful_with_findings"
             ELSE CASE a.assessment.state = "met"        -> "successful"
                    [] a.assessment.state = "incomplete" -> "incomplete"
                    [] a.assessment.state = "breached"   -> "blocked"

\* _verify_continuity, the offline verification of what the dossier embeds.  It asks
\* for no assessment.
Verifies(document) ==
  LET a == document.artifacts
  IN  a.objective # None =>
        /\ a.objective = document.inventory
        /\ a.plan = document.inventory
        /\ a.execution.started <= a.execution.completed
        /\ \A o \in a.observations : o.at >= a.execution.started
        /\ a.assessment # None => AssessmentHolds(a)
        /\ LifecycleHolds(a)
        /\ ResolutionHolds(a)

\* _domain_summary and _semantic_state of assurance.py, for this domain.
DomainState(document) ==
  LET a == document.artifacts
      represented == {r.state : r \in {a.assessment, a.resolution} \ {None}}
      state == DossierState(document)
  IN  IF a.objective = None                         THEN "missing"
      ELSE IF state = "revalidation_required"       THEN state
      ELSE IF represented \cap {"breached", "blocked"} # {} THEN "breached"
      ELSE IF "incomplete" \in represented          THEN "incomplete"
      ELSE IF state = "with_gaps"                   THEN "attention"
      ELSE "healthy"

-----------------------------------------------------------------------------

\* Builder and verifier are two implementations of one semantics: whatever moved
\* between the calls, and however often the evidence was added or not quite added, a
\* dossier that the builder does not mark for revalidation passes the verifier, if
\* its retests respect the order in time, and unless a call raised before it was
\* through with the assessment.
CurrentDossierVerifies ==
  /\ Built
  /\ DossierState(dossier) # "revalidation_required"
  /\ \A r \in dossier.artifacts.evidence.T : r.at >= r.remediation.at
  /\ ~dossier.overtaken
  => Verifies(dossier)

\* In a dossier that verifies, with a resolution the builder found current, a
\* finding is only closed by a retest that follows its remediation, which follows
\* the finding, by somebody who may give it, and no remediation that the resolution
\* was made from is later; even if a retest was not made by
\* create_continuity_retest, and whatever other calls embedded before and after.
VerifiedClosureIsEarned ==
  Built =>
    LET a == dossier.artifacts
        given == a.resolution.evidence
    IN  /\ Verifies(dossier)
        /\ a.resolution # None
        /\ a.states.resolution # "revalidation_required"
        => \A f \in given.F \ Unresolved(given.F, given.M, given.T) :
             \E r \in a.evidence.T :
               /\ r.outcome = "passed" /\ r.remediation.finding = f
               /\ r.at >= r.remediation.at /\ r.remediation.at >= f.at
               /\ Reviewer # None => r.reviewer = Reviewer
               /\ f.blocking => r.reviewer # r.remediation.owner
               /\ \A m \in given.M :
                    m.finding = f /\ m # r.remediation => m.at < r.remediation.at

\* The latest observation embedded met every threshold of the objective, which was
\* set for the inventory of the dossier.
Measured(document) ==
  LET a == document.artifacts
  IN  /\ a.objective = document.inventory
      /\ \E o \in a.observations :
           /\ \A other \in a.observations \ {o} : other.at < o.at
           /\ None \notin {o.measured.restoration, o.measured.loss,
                           o.measured.level}
           /\ o.measured.restoration <= Rto
           /\ o.measured.loss <= Rpo
           /\ o.measured.level >= MinLevel

\* In a dossier that verifies, the domain is only healthy in a portfolio if the
\* recovery was measured and every threshold met.  There is one exception: a call
\* that raised at an observation leaves the exercise without an assessment, which
\* neither the verifier nor the portfolio misses.
HealthyIsMeasured ==
  Built /\ Verifies(dossier) /\ DomainState(dossier) = "healthy" =>
    \/ Measured(dossier)
    \/ dossier.overtaken /\ dossier.artifacts.assessment = None
=============================================================================
