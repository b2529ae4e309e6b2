---------------------------- MODULE ContinuityProofs ----------------------------
(***************************************************************************)
(* Proofs about ContinuityDossier, for any inventory, any observations and *)
(* thresholds, any evidence, and any time at which the builder is called.  *)
(*                                                                         *)
(* The argument has two halves.  What the builder embeds stays part of     *)
(* what there is (Embedded): callers only ever make more evidence (Grows), *)
(* and each stage of add_continuity_recovery adds some of it, whether the  *)
(* call returns or raises.  What the builder found current when it was     *)
(* added is what the verifier computes (Assessed), and is pinned between   *)
(* the inventory the dossier took and the live one (PinnedBetween).  The   *)
(* properties of a built dossier follow, because building closes that gap. *)
(*                                                                         *)
(* The findings of exercises need neither half: every step adds one piece  *)
(* of evidence or none, and FindingProofs says what that does to them.     *)
(***************************************************************************)
EXTENDS ContinuityDossier, FindingProofs

\* The evidence at any moment, whatever order callers made it in: an exercise of a
\* plan of an objective, each pinned to the inventory of its time, observations of
\* the exercise, assessments that rest on one of them, and what was found.
EvidenceInOrder ==
  /\ objective # None => objective <= inventory
  /\ plan # None => objective # None /\ plan <= inventory
  /\ execution # None => plan # None /\ execution.started <= execution.completed
  /\ \A o \in observations : execution # None /\ o.at >= execution.started
  /\ HasLatest(observations)
  /\ \A b \in Basis : assessments[b] # None =>
       execution # None /\ assessments[b].seen \in observations \cup {None}
  /\ \A f \in findings : /\ assessments[f.of] # None
                         /\ assessments[f.of].state # "met"
  /\ \A m \in remediations : m.at >= m.finding.at

EvidenceInv == ContinuityTypeOK /\ EvidenceInOrder

States ==
  [objective : ArtifactState, plan : ArtifactState,
   assessment : ArtifactState, resolution : ArtifactState]

Shaped(a) ==
  a \in [objective : {a.objective}, plan : {a.plan}, execution : {a.execution},
         observations : {a.observations}, basis : {a.basis},
         assessment : {a.assessment}, objection : {a.objection},
         evidence : {a.evidence}, resolution : {a.resolution}, states : States]

Within(e, all) == e.F \subseteq all.F /\ e.M \subseteq all.M /\ e.T \subseteq all.T

\* What the builder holds is part of what there is; a resolution it found current
\* names nothing that is not embedded, and has the state the verifier computes.
Embedded(a) ==
  /\ a.objective # None =>
       /\ a.objective = objective /\ a.plan = plan /\ a.execution = execution
       /\ a.execution # None
  /\ a.observations \subseteq observations
  /\ a.assessment # None =>
       /\ a.objective # None /\ a.basis \in Basis
       /\ a.assessment = assessments[a.basis]
       /\ a.assessment.seen \in a.observations \cup {None}
       /\ Within(a.evidence, EvidenceOf(a.basis))
  /\ a.assessment = None => Within(a.evidence, NoArtifacts.evidence)
  /\ a.resolution # None => a.assessment # None
  /\ a.resolution # None /\ a.states.resolution # "revalidation_required" =>
       Within(a.resolution.evidence, a.evidence) /\ ResolutionHolds(a)

\* Between the inventory the dossier pinned and the live one lies whatever an
\* artifact was found current for; building closes the gap.
PinnedBetween(a, pinned) ==
  /\ a.objective # None /\ a.states.objective # "revalidation_required" =>
       pinned <= a.objective
  /\ a.objective # None /\ a.states.plan # "revalidation_required" =>
       pinned <= a.plan

\* What a call leaves that got through with the assessment.
Assessed(a) ==
  a.objective # None =>
    /\ a.assessment # None
    /\ a.states.assessment # "revalidation_required" => AssessmentHolds(a)

DossierPinned ==
  dossier # None =>
    LET a == dossier.artifacts
    IN  /\ dossier \in [inventory : 0..MaxInventory, artifacts : {a},
                        overtaken : BOOLEAN, built : BOOLEAN]
        /\ dossier.inventory <= inventory
        /\ dossier.built => inventory = dossier.inventory
        /\ Shaped(a) /\ Embedded(a)
        /\ PinnedBetween(a, dossier.inventory)
        /\ ~dossier.overtaken => Assessed(a)

\* What the caller holds is a resolution, not a refusal.
ResolutionHeld == resolution = None \/ resolution.state \in ResolutionState

DossierInv == EvidenceInv /\ ResolutionHeld /\ DossierPinned

-----------------------------------------------------------------------------

\* Any part of evidence that has a latest piece has one too.
LEMMA PartHasLatest ==
  ASSUME NEW evidence, HasLatest(evidence), NEW part \in SUBSET evidence
  PROVE  HasLatest(part)
BY DEF HasLatest

\* The aggregate is one of the three states, and "met" only if every metric was
\* measured and within its threshold (_metric and the aggregate of
\* assess_continuity_recovery).
LEMMA AggregateTyped == \A states : Aggregate(states) \in AssessmentState
BY DEF Aggregate, AssessmentState

LEMMA MetIsMeasured ==
  ASSUME NEW measured, Aggregate(Metrics(measured)) = "met"
  PROVE  /\ None \notin {measured.restoration, measured.loss, measured.level}
         /\ measured.restoration <= Rto
         /\ measured.loss <= Rpo
         /\ measured.level >= MinLevel
<1>1. "incomplete" \notin Metrics(measured) /\ "breached" \notin Metrics(measured)
  BY DEF Aggregate
<1>2. /\ AtMost(measured.restoration, Rto) \in Metrics(measured)
      /\ AtMost(measured.loss, Rpo) \in Metrics(measured)
      /\ AtLeast(measured.level, MinLevel) \in Metrics(measured)
  BY DEF Metrics
<1>3. \A value, threshold : AtMost(value, threshold) \notin {"incomplete", "breached"}
                              => value # None /\ value <= threshold
  BY DEF AtMost
<1>4. \A value, threshold : AtLeast(value, threshold) \notin {"incomplete", "breached"}
                              => value # None /\ value >= threshold
  BY DEF AtLeast
<1> QED
  BY <1>1, <1>2, <1>3, <1>4

\* An assessment that is met rests on an observation: without one, every metric
\* is missing.
LEMMA NothingIsIncomplete == Aggregate(Metrics(Nothing)) = "incomplete"
<1>1. AtMost(Nothing.loss, Rpo) = "incomplete"
  BY DEF AtMost, Nothing
<1>2. "incomplete" \in Metrics(Nothing)
  BY <1>1 DEF Metrics
<1> QED
  BY <1>2 DEF Aggregate

\* The observation an assessment rests on is one of those supplied.
LEMMA SeenIsLatest ==
  ASSUME NEW supplied \in SUBSET Observation, HasLatest(supplied), NEW at
  PROVE  LET seen == AssessmentOf(supplied, at).seen
         IN  IF supplied = {} THEN seen = None
             ELSE seen \in supplied /\ seen \in Latest(supplied)
<1>1. CASE supplied = {}
  BY <1>1 DEF AssessmentOf
<1>2. CASE supplied # {}
  <2>1. \E o \in supplied : o \in Latest(supplied)
    BY <1>2 DEF HasLatest, Latest
  <2>2. AssessmentOf(supplied, at).seen
          = CHOOSE o \in supplied : o \in Latest(supplied)
    BY <1>2 DEF AssessmentOf
  <2> QED
    BY <1>2, <2>1, <2>2
<1> QED
  BY <1>1, <1>2

LEMMA AssessmentTyped ==
  ASSUME NEW supplied \in SUBSET Observation, HasLatest(supplied), NEW at \in Time
  PROVE  AssessmentOf(supplied, at) \in Assessment
<1> DEFINE a == AssessmentOf(supplied, at)
<1>1. a.seen \in Observation \cup {None}
  BY SeenIsLatest
<1>2. a.state \in AssessmentState
  BY AggregateTyped DEF AssessmentOf
<1>3. a = [at |-> at, seen |-> a.seen, state |-> a.state]
  BY DEF AssessmentOf
<1> QED
  BY <1>1, <1>2, <1>3 DEF Assessment

-----------------------------------------------------------------------------

\* Nothing that callers hold ever changes or goes.
Grows ==
  /\ inventory <= inventory'
  /\ objective # None => objective' = objective
  /\ plan # None => plan' = plan
  /\ execution # None => execution' = execution
  /\ observations \subseteq observations'
  /\ \A b \in Basis : assessments[b] # None => assessments'[b] = assessments[b]
  /\ findings \subseteq findings' /\ remediations \subseteq remediations'
  /\ retests \subseteq retests'

LEMMA EvidenceGrows ==
  ASSUME ContinuityTypeOK, ContinuityNext \/ UNCHANGED continuityVars
  PROVE  Grows
<1> USE DEF Grows
<1>0. inventory \in Nat
  BY ContinuityAssumption DEF ContinuityTypeOK
<1>1. CASE GrowInventory \/ BuildObjective \/ BuildPlan
  BY <1>0, <1>1 DEF GrowInventory, BuildObjective, BuildPlan, lifecycleVars, recoveryVars
<1>2. CASE \E started, completed \in Time : RecordExecution(started, completed)
  BY <1>0, <1>2 DEF RecordExecution, lifecycleVars
<1>3. CASE \E observation \in Observation : RecordObservation(observation)
  BY <1>0, <1>3 DEF RecordObservation, lifecycleVars
<1>4. CASE \E basis \in Basis, supplied \in SUBSET observations, at \in Time :
             Assess(basis, supplied, at)
  BY <1>0, <1>4 DEF Assess, lifecycleVars, ContinuityTypeOK
<1>5. CASE \E finding \in Finding : RaiseFinding(finding)
  BY <1>0, <1>5 DEF RaiseFinding, CreateFinding, recoveryVars
<1>6. CASE Lifecycle
  <2>1. UNCHANGED <<inventory, recoveryVars>>
    BY <1>6 DEF Lifecycle
  <2>2. /\ findings \subseteq findings' /\ remediations \subseteq remediations'
        /\ retests \subseteq retests'
    BY <1>6 DEF Lifecycle, CreateRemediation, CreateRetest, ConstructRetest
  <2> QED
    BY <1>0, <2>1, <2>2 DEF recoveryVars
<1>7. CASE UNCHANGED continuityVars
  BY <1>0, <1>7 DEF continuityVars, lifecycleVars, recoveryVars
<1> QED
  BY <1>1, <1>2, <1>3, <1>4, <1>5, <1>6, <1>7 DEF ContinuityNext

LEMMA EvidenceStaysInOrder ==
  ASSUME EvidenceInv, ContinuityNext \/ UNCHANGED continuityVars
  PROVE  EvidenceInv'
<1> USE DEF EvidenceInv, EvidenceInOrder, ContinuityTypeOK, LifecycleTypeOK
<1>0. /\ inventory \in Nat
      /\ objective # None => objective \in Nat
      /\ plan # None => plan \in Nat
      /\ \A o \in observations : o.at \in Nat
  <2>1. \A o \in observations : o.at \in Nat
    BY FindingLifecycleAssumption DEF Observation
  <2>2. inventory \in Nat
    BY ContinuityAssumption
  <2>3. objective # None => objective \in Nat
    BY ContinuityAssumption
  <2>4. plan # None => plan \in Nat
    BY ContinuityAssumption
  <2> QED
    BY <2>1, <2>2, <2>3, <2>4
<1>1. CASE GrowInventory
  <2>1. inventory' \in 0..MaxInventory /\ inventory' = inventory + 1
    BY <1>1, ContinuityAssumption DEF GrowInventory
  <2> QED
    BY <1>0, <1>1, <2>1 DEF GrowInventory, lifecycleVars, recoveryVars
<1>2. CASE BuildObjective
  BY <1>0, <1>2, ContinuityAssumption DEF BuildObjective, lifecycleVars
<1>3. CASE BuildPlan
  BY <1>0, <1>3, ContinuityAssumption DEF BuildPlan, lifecycleVars
<1>4. ASSUME NEW started \in Time, NEW completed \in Time,
             RecordExecution(started, completed)
      PROVE  EvidenceInv'
  BY <1>0, <1>4, ContinuityAssumption DEF RecordExecution, lifecycleVars
<1>5. ASSUME NEW observation \in Observation, RecordObservation(observation)
      PROVE  EvidenceInv'
  <2>1. observation.at \in Nat
    BY FindingLifecycleAssumption DEF Observation
  <2>2. observations' = observations \cup {observation}
    BY <1>5 DEF RecordObservation
  <2>3. HasLatest(observations \cup {observation})
    BY <1>0, <2>1, MoreHasLatest
  <2> QED
    BY <1>5, <2>2, <2>3, ContinuityAssumption DEF RecordObservation, lifecycleVars
<1>6. ASSUME NEW basis \in Basis, NEW supplied \in SUBSET observations,
             NEW at \in Time, Assess(basis, supplied, at)
      PROVE  EvidenceInv'
  <2> DEFINE made == AssessmentOf(supplied, at)
  <2>1. HasLatest(supplied) /\ supplied \in SUBSET Observation
    BY PartHasLatest
  <2>2. made \in Assessment
    BY <2>1, AssessmentTyped
  <2>3. made.seen \in observations \cup {None}
    BY <2>1, SeenIsLatest
  <2> HIDE DEF made
  <2>4. /\ assessments' = [assessments EXCEPT ![basis] = made]
        /\ assessments[basis] = None /\ execution # None
        /\ UNCHANGED <<findings, remediations, retests, inventory, objective, plan,
                       execution, observations>>
    BY <1>6 DEF Assess, MayAssess, lifecycleVars, made
  <2>5. assessments' \in [Basis -> Assessment \cup {None}]
    BY <2>2, <2>4
  <2>6. ASSUME NEW f \in findings
        PROVE  assessments'[f.of] # None /\ assessments'[f.of].state # "met"
    <3>1. f.of \in Basis /\ f.of # basis
      BY <2>4 DEF Finding
    <3> QED
      BY <2>4, <3>1
  <2>7. \A b \in Basis : assessments'[b] # None =>
          execution # None /\ assessments'[b].seen \in observations \cup {None}
    BY <2>3, <2>4
  <2> QED
    BY <2>4, <2>5, <2>6, <2>7, ContinuityAssumption
<1>7. ASSUME NEW finding \in Finding, RaiseFinding(finding)
      PROVE  EvidenceInv'
  BY <1>7, ContinuityAssumption DEF RaiseFinding, CreateFinding, recoveryVars
<1>8. CASE Lifecycle
  <2>1. UNCHANGED <<inventory, objective, plan, execution, observations,
                    assessments>>
    BY <1>8 DEF Lifecycle, recoveryVars
  <2>2. LifecycleTypeOK' /\ UNCHANGED findings
          /\ \A m \in remediations' : m.at >= m.finding.at
    <3>1. ASSUME NEW remediation \in Remediation, CreateRemediation(remediation)
          PROVE  LifecycleTypeOK' /\ UNCHANGED findings
                   /\ \A m \in remediations' : m.at >= m.finding.at
      BY <3>1 DEF CreateRemediation
    <3>2. ASSUME NEW retest \in Retest,
                 CreateRetest(retest) \/ ConstructRetest(retest)
          PROVE  LifecycleTypeOK' /\ UNCHANGED findings
                   /\ \A m \in remediations' : m.at >= m.finding.at
      BY <3>2 DEF CreateRetest, ConstructRetest
    <3>3. ASSUME NEW m \in remediations, NEW reviewer \in Person,
                 NEW at \in Time, NEW outcome \in Outcome
          PROVE  [remediation |-> m, reviewer |-> reviewer,
                  at |-> at, outcome |-> outcome] \in Retest
      BY DEF Retest
    <3> QED
      BY <1>8, <3>1, <3>2, <3>3 DEF Lifecycle
  <2> QED
    BY <2>1, <2>2, ContinuityAssumption
<1>9. CASE UNCHANGED continuityVars
  BY <1>9 DEF continuityVars, lifecycleVars, recoveryVars
<1> QED
  BY <1>1, <1>2, <1>3, <1>4, <1>5, <1>6, <1>7, <1>8, <1>9 DEF ContinuityNext

\* What is embedded stays part of what there is.
LEMMA EmbeddedStays ==
  ASSUME EvidenceInv, Grows, NEW a, Embedded(a)
  PROVE  Embedded(a)'
<1>1. a.objective # None =>
        /\ a.objective = objective' /\ a.plan = plan' /\ a.execution = execution'
        /\ a.execution # None
  BY DEF Embedded, Grows, EvidenceInv, EvidenceInOrder
<1>2. ASSUME NEW b PROVE Within(EvidenceOf(b), EvidenceOf(b)')
  BY DEF Grows, Within, EvidenceOf
<1>3. ASSUME a.assessment # None
      PROVE  /\ a.assessment = assessments'[a.basis]
             /\ Within(a.evidence, EvidenceOf(a.basis)')
  <2>1. Within(EvidenceOf(a.basis), EvidenceOf(a.basis)')
    BY <1>2
  <2> QED
    BY <1>3, <2>1 DEF Embedded, Grows, Within
<1>4. a.resolution # None /\ a.states.resolution # "revalidation_required" =>
        Within(a.resolution.evidence, a.evidence) /\ ResolutionHolds(a)'
  BY DEF Embedded, ResolutionHolds
<1>5. a.observations \subseteq observations'
  BY DEF Embedded, Grows
<1> QED
  BY <1>1, <1>3, <1>4, <1>5 DEF Embedded, Within, NoArtifacts

-----------------------------------------------------------------------------

\* The four stages of add_continuity_recovery, field by field.
LEMMA ObservedFields ==
  ASSUME NEW a, Shaped(a), NEW S
  PROVE  LET b == WithObservations(a, S)
         IN  /\ Shaped(b)
             /\ b.objective = objective /\ b.plan = plan /\ b.execution = execution
             /\ b.observations = S
             /\ b.basis = a.basis /\ b.assessment = a.assessment
             /\ b.objection = a.objection
             /\ b.evidence = a.evidence /\ b.resolution = a.resolution
             /\ b.states.objective = PinState(ObjectiveCurrent)
             /\ b.states.plan = PinState(PlanCurrent)
             /\ b.states.assessment = a.states.assessment
             /\ b.states.resolution = a.states.resolution
<1>1. /\ PinState(ObjectiveCurrent) \in ArtifactState
      /\ PinState(PlanCurrent) \in ArtifactState
  BY DEF PinState, ArtifactState
<1> DEFINE os == PinState(ObjectiveCurrent)
           ps == PinState(PlanCurrent)
           states == [a.states EXCEPT !.objective = os, !.plan = ps]
<1> HIDE DEF os, ps
<1>2. a.states \in States
  BY DEF Shaped
<1>3. /\ states \in States
      /\ states.objective = os /\ states.plan = ps
      /\ states.assessment = a.states.assessment
      /\ states.resolution = a.states.resolution
  BY <1>1, <1>2 DEF States, os, ps
<1> HIDE DEF states
<1> DEFINE b == [a EXCEPT !.objective = objective, !.plan = plan,
                          !.execution = execution, !.observations = S,
                          !.states = states]
<1>4. b = WithObservations(a, S)
  BY DEF WithObservations, states, os, ps
<1>5. /\ b.objective = objective /\ b.plan = plan /\ b.execution = execution
      /\ b.observations = S
      /\ b.basis = a.basis /\ b.assessment = a.assessment
      /\ b.objection = a.objection
      /\ b.evidence = a.evidence /\ b.resolution = a.resolution
      /\ b.states = states
      /\ b \in [objective : {objective}, plan : {plan}, execution : {execution},
                observations : {S}, basis : {a.basis},
                assessment : {a.assessment}, objection : {a.objection},
                evidence : {a.evidence}, resolution : {a.resolution},
                states : States]
  BY <1>3 DEF Shaped
<1> HIDE DEF b
<1>6. Shaped(b)
  BY <1>5 DEF Shaped
<1> QED
  BY <1>3, <1>4, <1>5, <1>6 DEF os, ps

LEMMA AssessedFields ==
  ASSUME NEW a, Shaped(a), NEW basis
  PROVE  LET b == WithAssessment(a, basis)
             c == WithObservations(a, observations)
         IN  /\ Shaped(b)
             /\ b.objective = c.objective /\ b.plan = c.plan
             /\ b.execution = c.execution /\ b.observations = c.observations
             /\ b.basis = basis /\ b.assessment = assessments[basis]
             /\ b.objection = Objection(assessments[basis])
             /\ b.evidence = c.evidence /\ b.resolution = c.resolution
             /\ b.states.objective = c.states.objective
             /\ b.states.plan = c.states.plan
             /\ b.states.assessment = AssessmentArtifactState(assessments[basis])
             /\ b.states.resolution = c.states.resolution
<1> DEFINE s == AssessmentArtifactState(assessments[basis])
           c == WithObservations(a, observations)
           o == Objection(assessments[basis])
           states == [c.states EXCEPT !.assessment = s]
<1>1. s \in ArtifactState
  BY DEF AssessmentArtifactState, ArtifactState
<1>2. Shaped(c)
  BY ObservedFields
<1> HIDE DEF s, c, o
<1>3. /\ states \in States
      /\ states.objective = c.states.objective /\ states.plan = c.states.plan
      /\ states.assessment = s
      /\ states.resolution = c.states.resolution
  BY <1>1, <1>2 DEF States, Shaped
<1> HIDE DEF states
<1> DEFINE b == [c EXCEPT !.basis = basis, !.assessment = assessments[basis],
                          !.objection = o, !.states = states]
<1>4. b = WithAssessment(a, basis)
  BY DEF WithAssessment, states, s, o, c
<1>5. /\ b.objective = c.objective /\ b.plan = c.plan
      /\ b.execution = c.execution /\ b.observations = c.observations
      /\ b.basis = basis /\ b.assessment = assessments[basis]
      /\ b.objection = o
      /\ b.evidence = c.evidence /\ b.resolution = c.resolution
      /\ b.states = states
      /\ b \in [objective : {c.objective}, plan : {c.plan}, execution : {c.execution},
                observations : {c.observations}, basis : {basis},
                assessment : {assessments[basis]}, objection : {o},
                evidence : {c.evidence}, resolution : {c.resolution},
                states : States]
  BY <1>2, <1>3 DEF Shaped
<1> HIDE DEF b
<1>6. Shaped(b)
  BY <1>5 DEF Shaped
<1> QED
  BY <1>3, <1>4, <1>5, <1>6 DEF s, c, o

LEMMA EvidenceFields ==
  ASSUME NEW a, Shaped(a), NEW basis, NEW e
  PROVE  LET b == WithEvidence(a, basis, e)
             c == WithAssessment(a, basis)
         IN  /\ Shaped(b)
             /\ b.objective = c.objective /\ b.plan = c.plan
             /\ b.execution = c.execution /\ b.observations = c.observations
             /\ b.basis = c.basis /\ b.assessment = c.assessment
             /\ b.evidence = e /\ b.resolution = c.resolution
             /\ b.states = c.states
<1> DEFINE c == WithAssessment(a, basis)
           b == [c EXCEPT !.evidence = e]
<1>1. Shaped(c)
  BY AssessedFields
<1>2. b = WithEvidence(a, basis, e)
  BY DEF WithEvidence
<1> HIDE DEF c
<1>3. /\ b.objective = c.objective /\ b.plan = c.plan
      /\ b.execution = c.execution /\ b.observations = c.observations
      /\ b.basis = c.basis /\ b.assessment = c.assessment
      /\ b.objection = c.objection
      /\ b.evidence = e /\ b.resolution = c.resolution
      /\ b.states = c.states
      /\ b \in [objective : {c.objective}, plan : {c.plan}, execution : {c.execution},
                observations : {c.observations}, basis : {c.basis},
                assessment : {c.assessment}, objection : {c.objection},
                evidence : {e}, resolution : {c.resolution}, states : States]
  BY <1>1 DEF Shaped
<1> HIDE DEF b
<1>4. Shaped(b)
  BY <1>3 DEF Shaped
<1> QED
  BY <1>2, <1>3, <1>4 DEF c

LEMMA ResolvedFields ==
  ASSUME NEW a, Shaped(a), NEW basis, NEW held
  PROVE  LET b == WithResolution(a, basis, held)
             c == WithEvidence(a, basis, EvidenceOf(basis))
         IN  /\ Shaped(b)
             /\ b.objective = c.objective /\ b.plan = c.plan
             /\ b.execution = c.execution /\ b.observations = c.observations
             /\ b.basis = c.basis /\ b.assessment = c.assessment
             /\ b.evidence = c.evidence
             /\ b.states.objective = c.states.objective
             /\ b.states.plan = c.states.plan
             /\ b.states.assessment = c.states.assessment
             /\ held = None => b = c
             /\ held # None =>
                  /\ b.resolution = held
                  /\ b.states.resolution = ResolutionArtifactState(basis, held)
<1> DEFINE c == WithEvidence(a, basis, EvidenceOf(basis))
           r == ResolutionArtifactState(basis, held)
           states == [c.states EXCEPT !.resolution = r]
           b == [c EXCEPT !.resolution = held, !.states = states]
<1>1. Shaped(c)
  BY EvidenceFields
<1>2. r \in ArtifactState
  BY DEF ResolutionArtifactState, ArtifactState
<1>3. WithResolution(a, basis, held) = IF held = None THEN c ELSE b
  BY DEF WithResolution
<1> HIDE DEF c, r
<1>4. /\ states \in States
      /\ states.objective = c.states.objective /\ states.plan = c.states.plan
      /\ states.assessment = c.states.assessment
      /\ states.resolution = r
  BY <1>1, <1>2 DEF States, Shaped
<1> HIDE DEF states
<1>5. /\ b.objective = c.objective /\ b.plan = c.plan
      /\ b.execution = c.execution /\ b.observations = c.observations
      /\ b.basis = c.basis /\ b.assessment = c.assessment
      /\ b.objection = c.objection
      /\ b.evidence = c.evidence /\ b.resolution = held
      /\ b.states = states
      /\ b \in [objective : {c.objective}, plan : {c.plan}, execution : {c.execution},
                observations : {c.observations}, basis : {c.basis},
                assessment : {c.assessment}, objection : {c.objection},
                evidence : {c.evidence}, resolution : {held}, states : States]
  BY <1>1, <1>4 DEF Shaped
<1> HIDE DEF b
<1>6. Shaped(b)
  BY <1>5 DEF Shaped
<1> QED
  BY <1>1, <1>3, <1>4, <1>5, <1>6 DEF c, r

\* What the exercise and the assessment are after a call that got through with them.
Called(b, basis) ==
  /\ Shaped(b)
  /\ b.objective = objective /\ b.plan = plan /\ b.execution = execution
  /\ b.observations = observations /\ b.assessment = assessments[basis]
  /\ b.states.objective = PinState(ObjectiveCurrent)
  /\ b.states.plan = PinState(PlanCurrent)
  /\ b.states.assessment = AssessmentArtifactState(assessments[basis])

LEMMA EvidenceCalled ==
  ASSUME NEW a, Shaped(a), NEW basis, NEW e
  PROVE  Called(WithEvidence(a, basis, e), basis)
<1> DEFINE c == WithObservations(a, observations)
           d == WithAssessment(a, basis)
           b == WithEvidence(a, basis, e)
<1>1. /\ c.objective = objective /\ c.plan = plan /\ c.execution = execution
      /\ c.observations = observations
      /\ c.states.objective = PinState(ObjectiveCurrent)
      /\ c.states.plan = PinState(PlanCurrent)
  BY ObservedFields
<1>2. /\ d.objective = c.objective /\ d.plan = c.plan /\ d.execution = c.execution
      /\ d.observations = c.observations /\ d.assessment = assessments[basis]
      /\ d.states.objective = c.states.objective /\ d.states.plan = c.states.plan
      /\ d.states.assessment = AssessmentArtifactState(assessments[basis])
  BY AssessedFields
<1>3. /\ Shaped(b)
      /\ b.objective = d.objective /\ b.plan = d.plan /\ b.execution = d.execution
      /\ b.observations = d.observations /\ b.assessment = d.assessment
      /\ b.states = d.states
  BY EvidenceFields
<1> HIDE DEF b, c, d
<1>4. Called(b, basis)
  BY <1>1, <1>2, <1>3 DEF Called
<1> QED
  BY <1>4 DEF b

LEMMA ResolutionCalled ==
  ASSUME NEW a, Shaped(a), NEW basis, NEW held
  PROVE  Called(WithResolution(a, basis, held), basis)
<1> DEFINE c == WithEvidence(a, basis, EvidenceOf(basis))
           b == WithResolution(a, basis, held)
<1>1. Called(c, basis)
  BY EvidenceCalled
<1>2. /\ Shaped(b)
      /\ b.objective = c.objective /\ b.plan = c.plan /\ b.execution = c.execution
      /\ b.observations = c.observations /\ b.assessment = c.assessment
      /\ b.states.objective = c.states.objective /\ b.states.plan = c.states.plan
      /\ b.states.assessment = c.states.assessment
  BY ResolvedFields
<1> HIDE DEF b, c
<1>3. Called(b, basis)
  BY <1>1, <1>2 DEF Called
<1> QED
  BY <1>3 DEF b

-----------------------------------------------------------------------------

\* Whatever the call leaves embedded is part of what there is.
LEMMA ExerciseEmbedded ==
  ASSUME EvidenceInv, NEW basis \in Basis, assessments[basis] # None
  PROVE  /\ execution # None /\ plan # None /\ objective # None
         /\ objective \in Nat /\ plan \in Nat /\ inventory \in Nat
         /\ objective <= inventory /\ plan <= inventory
BY ContinuityAssumption DEF EvidenceInv, EvidenceInOrder, ContinuityTypeOK

LEMMA ObservedIsEmbedded ==
  ASSUME EvidenceInv, NEW basis \in Basis, assessments[basis] # None,
         NEW a, Shaped(a), Embedded(a),
         NEW S \in SUBSET observations, a.observations \subseteq S
  PROVE  Embedded(WithObservations(a, S))
<1> DEFINE b == WithObservations(a, S)
<1>1. /\ b.objective = objective /\ b.plan = plan /\ b.execution = execution
      /\ b.observations = S
      /\ b.basis = a.basis /\ b.assessment = a.assessment
      /\ b.evidence = a.evidence /\ b.resolution = a.resolution
      /\ b.states.resolution = a.states.resolution
  BY ObservedFields
<1> HIDE DEF b
<1>2. execution # None /\ objective # None
  BY ExerciseEmbedded
<1>3. ResolutionHolds(a) => ResolutionHolds(b)
  BY <1>1 DEF ResolutionHolds
<1>4. Embedded(b)
  BY <1>1, <1>2, <1>3 DEF Embedded
<1> QED
  BY <1>4 DEF b

\* An assessment embedded before is the one the call is about.
LEMMA AssessedIsEmbedded ==
  ASSUME EvidenceInv, NEW basis \in Basis, assessments[basis] # None,
         NEW a, Shaped(a), Embedded(a), ~AssessmentConflicts(a, basis)
  PROVE  Embedded(WithAssessment(a, basis))
<1> DEFINE c == WithObservations(a, observations)
           b == WithAssessment(a, basis)
<1>1. a.observations \subseteq observations
  BY DEF Embedded
<1>2. Embedded(c)
  BY <1>1, ObservedIsEmbedded
<1>3. /\ c.objective = objective /\ c.observations = observations
      /\ c.assessment = a.assessment /\ c.basis = a.basis
  BY ObservedFields
<1>4. /\ b.objective = c.objective /\ b.plan = c.plan
      /\ b.execution = c.execution /\ b.observations = c.observations
      /\ b.basis = basis /\ b.assessment = assessments[basis]
      /\ b.evidence = c.evidence /\ b.resolution = c.resolution
      /\ b.states.resolution = c.states.resolution
  BY AssessedFields
<1> HIDE DEF c, b
<1>5. c.assessment # None => c.basis = basis /\ c.assessment = assessments[basis]
  BY <1>2, <1>3 DEF AssessmentConflicts, Embedded
<1>6. assessments[basis].seen \in observations \cup {None}
  BY DEF EvidenceInv, EvidenceInOrder
<1>7. objective # None
  BY ExerciseEmbedded
<1>8. Within(b.evidence, EvidenceOf(basis))
  <2>1. CASE c.assessment = None
    BY <1>2, <1>4, <2>1 DEF Embedded, Within, NoArtifacts
  <2>2. CASE c.assessment # None
    BY <1>2, <1>4, <1>5, <2>2 DEF Embedded
  <2> QED
    BY <2>1, <2>2
<1>9. b.resolution # None /\ b.states.resolution # "revalidation_required" =>
        Within(b.resolution.evidence, b.evidence) /\ ResolutionHolds(b)
  <2>1. SUFFICES ASSUME b.resolution # None,
                        b.states.resolution # "revalidation_required"
                 PROVE  Within(b.resolution.evidence, b.evidence) /\ ResolutionHolds(b)
    OBVIOUS
  <2>2. /\ c.assessment # None
        /\ Within(c.resolution.evidence, c.evidence) /\ ResolutionHolds(c)
    BY <1>2, <1>4, <2>1 DEF Embedded
  <2>3. b.basis = c.basis /\ b.assessment = c.assessment
    BY <1>4, <1>5, <2>2
  <2> QED
    BY <1>4, <2>2, <2>3 DEF ResolutionHolds
<1>10. Embedded(b)
  <2>1. b.objective # None =>
          /\ b.objective = objective /\ b.plan = plan /\ b.execution = execution
          /\ b.execution # None
    BY <1>2, <1>3, <1>4 DEF Embedded
  <2> QED
    BY <1>3, <1>4, <1>6, <1>7, <1>8, <1>9, <2>1 DEF Embedded
<1> QED
  BY <1>10 DEF b

LEMMA EvidenceIsEmbedded ==
  ASSUME EvidenceInv, NEW basis \in Basis, assessments[basis] # None,
         NEW a, Shaped(a), Embedded(a), ~AssessmentConflicts(a, basis),
         NEW e, Within(a.evidence, e), Within(e, EvidenceOf(basis))
  PROVE  Embedded(WithEvidence(a, basis, e))
<1> DEFINE c == WithAssessment(a, basis)
           b == WithEvidence(a, basis, e)
<1>1. Embedded(c)
  BY AssessedIsEmbedded
<1>2. c.basis = basis /\ c.assessment # None /\ c.evidence = a.evidence
  BY AssessedFields, ObservedFields
<1>3. /\ b.objective = c.objective /\ b.plan = c.plan
      /\ b.execution = c.execution /\ b.observations = c.observations
      /\ b.basis = c.basis /\ b.assessment = c.assessment
      /\ b.evidence = e /\ b.resolution = c.resolution
      /\ b.states = c.states
  BY EvidenceFields
<1> HIDE DEF c, b
<1>4. ResolutionHolds(c) => ResolutionHolds(b)
  BY <1>2, <1>3 DEF ResolutionHolds, Within
<1>5. \A given : Within(given, c.evidence) => Within(given, e)
  BY <1>2 DEF Within
<1>6. Embedded(b)
  BY <1>1, <1>2, <1>3, <1>4, <1>5 DEF Embedded
<1> QED
  BY <1>6 DEF b

\* A resolution the builder finds current names nothing that is not embedded with
\* it, and its state is the one the verifier computes: resolve_continuity looked
\* at the same evidence, and raised where the verifier has no answer.
LEMMA ResolutionTaken ==
  ASSUME EvidenceInv, NEW basis \in Basis, assessments[basis] # None,
         NEW held, held.state \in ResolutionState,
         ResolutionArtifactState(basis, held) # "revalidation_required",
         NEW a, a.basis = basis, a.assessment = assessments[basis],
         a.evidence = EvidenceOf(basis), a.resolution = held
  PROVE  a.resolution.evidence = a.evidence /\ ResolutionHolds(a)
<1> DEFINE evidence == EvidenceOf(basis)
           F == evidence.F
           M == evidence.M
           T == evidence.T
           made == assessments[basis]
           open == Unresolved(F, M, T)
<1>1. /\ a.basis = basis /\ a.assessment = made /\ a.evidence = evidence
      /\ a.resolution = held
  OBVIOUS
<1>2. held = ResolutionOf(basis, evidence)
  BY DEF ResolutionArtifactState
<1>3. /\ held.basis = basis /\ held.evidence = evidence
      /\ held.state = Resolve(basis, F, M, T)
  BY <1>2 DEF ResolutionOf
<1>4. \A f \in F : Standing(f, M) \subseteq M /\ Verdicts(f, M, T) \subseteq T
  BY DEF Standing, Verdicts, Latest
<1>5. /\ made.state \in AssessmentState
      /\ F # {} => made.state # "met"
  BY DEF EvidenceInv, EvidenceInOrder, ContinuityTypeOK, LifecycleTypeOK,
         Assessment, EvidenceOf
<1>6. held.state =
        IF open # {} THEN IF made.state = "incomplete" THEN "incomplete" ELSE "blocked"
        ELSE IF F # {} THEN "successful_with_findings"
        ELSE CASE made.state = "met"        -> "successful"
               [] made.state = "incomplete" -> "incomplete"
               [] made.state = "breached"   -> "blocked"
  <2>1. Resolve(basis, F, M, T) # "refused"
    BY <1>3 DEF ResolutionState
  <2>2. F = {} => open = {}
    BY DEF Unresolved
  <2>3. Resolve(basis, F, M, T) =
          IF made.state = "incomplete" /\ (F = {} \/ open # {}) THEN "incomplete"
          ELSE IF made.state # "met" /\ (F = {} \/ open # {}) THEN "blocked"
          ELSE IF F # {} THEN "successful_with_findings" ELSE "successful"
    BY <2>1 DEF Resolve
  <2> HIDE DEF F, M, T, open, made
  <2>4. CASE made.state = "met"
    BY <1>3, <1>5, <2>2, <2>3, <2>4
  <2>5. CASE made.state = "incomplete"
    BY <1>3, <1>5, <2>2, <2>3, <2>5
  <2>6. CASE made.state = "breached"
    BY <1>3, <1>5, <2>2, <2>3, <2>6
  <2> QED
    BY <1>5, <2>4, <2>5, <2>6 DEF AssessmentState
<1> HIDE DEF made
<1>7. ResolutionHolds(a)
  BY <1>1, <1>3, <1>4, <1>6 DEF ResolutionHolds
<1> QED
  BY <1>1, <1>3, <1>7

LEMMA ResolvedIsEmbedded ==
  ASSUME EvidenceInv, NEW basis \in Basis, assessments[basis] # None,
         NEW a, Shaped(a), Embedded(a), ~AssessmentConflicts(a, basis),
         Within(a.evidence, EvidenceOf(basis)),
         NEW held, held # None => held.state \in ResolutionState
  PROVE  Embedded(WithResolution(a, basis, held))
<1> DEFINE c == WithEvidence(a, basis, EvidenceOf(basis))
           b == WithResolution(a, basis, held)
<1>1. Within(EvidenceOf(basis), EvidenceOf(basis))
  BY DEF Within
<1>2. Embedded(c)
  BY <1>1, EvidenceIsEmbedded
<1>3. /\ c.basis = basis /\ c.assessment = assessments[basis]
      /\ c.evidence = EvidenceOf(basis)
  BY EvidenceFields, AssessedFields
<1>4. /\ b.objective = c.objective /\ b.plan = c.plan
      /\ b.execution = c.execution /\ b.observations = c.observations
      /\ b.basis = c.basis /\ b.assessment = c.assessment
      /\ b.evidence = c.evidence
      /\ held = None => b = c
      /\ held # None =>
           /\ b.resolution = held
           /\ b.states.resolution = ResolutionArtifactState(basis, held)
  BY ResolvedFields
<1> HIDE DEF c, b
<1>5. held # None /\ b.states.resolution # "revalidation_required" =>
        b.resolution.evidence = b.evidence /\ ResolutionHolds(b)
  BY <1>3, <1>4, ResolutionTaken
<1>6. \A given : given = b.evidence => Within(given, b.evidence)
  BY DEF Within
<1>7. Embedded(b)
  <2>1. CASE held = None
    BY <1>2, <1>4, <2>1
  <2>2. CASE held # None
    BY <1>2, <1>3, <1>4, <1>5, <1>6, <2>2 DEF Embedded
  <2> QED
    BY <2>1, <2>2
<1> QED
  BY <1>7 DEF b

\* An assessment the builder finds current passes the verifier's checks of it.
LEMMA CurrentAssessmentHolds ==
  ASSUME EvidenceInv, NEW basis \in Basis, assessments[basis] # None,
         AssessmentArtifactState(assessments[basis]) # "revalidation_required",
         NEW a, a.assessment = assessments[basis], a.execution = execution,
         a.observations = observations
  PROVE  AssessmentHolds(a)
<1> DEFINE made == assessments[basis]
<1>1. MayAssess(observations, made.at)
      /\ AssessmentOf(observations, made.at) = made
  BY DEF AssessmentArtifactState, Objection
<1>2. made.seen = AssessmentOf(observations, made.at).seen
  BY <1>1
<1>3. made.state = AssessmentOf(observations, made.at).state
  BY <1>1
<1>4. made.state = Aggregate(Metrics(IF made.seen = None THEN Nothing
                                     ELSE made.seen.measured))
  BY <1>2, <1>3 DEF AssessmentOf
<1> HIDE DEF made
<1>5. a.assessment = made
  BY DEF made
<1> QED
  BY <1>1, <1>2, <1>4, <1>5 DEF AssessmentHolds, MayAssess

-----------------------------------------------------------------------------

\* Pins the call finds current are those of the live inventory.
LEMMA FreshPins ==
  ASSUME NEW b, b.objective = objective, b.plan = plan,
         b.states.objective = PinState(ObjectiveCurrent),
         b.states.plan = PinState(PlanCurrent),
         NEW pinned, pinned <= inventory
  PROVE  PinnedBetween(b, pinned)
BY DEF PinnedBetween, PinState, ObjectiveCurrent, PlanCurrent

\* What a step that leaves the evidence alone makes of the dossier.
LEMMA DossierWith ==
  ASSUME EvidenceInv, DossierPinned, dossier # None, ~dossier.built,
         UNCHANGED continuityVars,
         NEW b, Shaped(b), Embedded(b), PinnedBetween(b, dossier.inventory),
         NEW raised \in BOOLEAN, ~raised => Assessed(b),
         dossier' = [dossier EXCEPT !.artifacts = b, !.overtaken = raised]
  PROVE  DossierPinned'
<1>1. Embedded(b)'
  <2>1. Grows
    BY EvidenceGrows DEF EvidenceInv
  <2> QED
    BY <2>1, EmbeddedStays
<1>2. dossier \in [inventory : 0..MaxInventory, artifacts : {dossier.artifacts},
                   overtaken : BOOLEAN, built : BOOLEAN]
  BY DEF DossierPinned
<1>3. /\ dossier' \in [inventory : 0..MaxInventory, artifacts : {b},
                       overtaken : BOOLEAN, built : BOOLEAN]
      /\ dossier'.inventory = dossier.inventory /\ dossier'.artifacts = b
      /\ dossier'.overtaken = raised /\ dossier'.built = dossier.built
  BY <1>2
<1>4. inventory' = inventory /\ dossier.inventory <= inventory
  BY DEF continuityVars, DossierPinned
<1>5. PICK d : d = dossier'
  OBVIOUS
<1>6. /\ d \in [inventory : 0..MaxInventory, artifacts : {d.artifacts},
                overtaken : BOOLEAN, built : BOOLEAN]
      /\ d.inventory <= inventory' /\ ~d.built
      /\ d.artifacts = b /\ d.inventory = dossier.inventory /\ d.overtaken = raised
  BY <1>3, <1>4, <1>5
<1>7. /\ Shaped(d.artifacts) /\ Embedded(d.artifacts)'
      /\ PinnedBetween(d.artifacts, d.inventory)
      /\ ~d.overtaken => Assessed(d.artifacts)
  BY <1>1, <1>6
<1>8. (Shaped(d.artifacts) /\ PinnedBetween(d.artifacts, d.inventory)
         /\ (~d.overtaken => Assessed(d.artifacts)))'
  BY <1>7 DEF Shaped, PinnedBetween, Assessed, AssessmentHolds
<1> QED
  BY <1>5, <1>6, <1>7, <1>8 DEF DossierPinned, Shaped, PinnedBetween, Assessed, AssessmentHolds

\* The dossier stays pinned while the evidence grows, until it is built.
LEMMA PinnedWhileGrowing ==
  ASSUME EvidenceInv, DossierPinned, EvidenceInv', Grows, UNCHANGED dossier,
         dossier # None => (dossier.built => inventory' = inventory)
  PROVE  DossierPinned'
<1>1. PICK d : d = dossier
  OBVIOUS
<1>2. CASE d = None
  BY <1>1, <1>2 DEF DossierPinned
<1>3. CASE d # None
  <2>1. /\ d \in [inventory : 0..MaxInventory, artifacts : {d.artifacts},
                  overtaken : BOOLEAN, built : BOOLEAN]
        /\ d.inventory <= inventory
        /\ d.built => inventory = d.inventory
        /\ Shaped(d.artifacts) /\ Embedded(d.artifacts)
        /\ PinnedBetween(d.artifacts, d.inventory)
        /\ ~d.overtaken => Assessed(d.artifacts)
    BY <1>1, <1>3 DEF DossierPinned
  <2>2. Embedded(d.artifacts)'
    BY <2>1, EmbeddedStays
  <2>3. inventory \in Nat /\ inventory' \in Nat /\ inventory <= inventory'
    BY ContinuityAssumption DEF EvidenceInv, ContinuityTypeOK, Grows
  <2>4. d.inventory <= inventory' /\ (d.built => inventory' = d.inventory)
    BY <1>1, <1>3, <2>1, <2>3
  <2> QED
    BY <1>1, <1>3, <2>1, <2>2, <2>4
       DEF DossierPinned, Shaped, PinnedBetween, Assessed, AssessmentHolds
<1> QED
  BY <1>2, <1>3

\* An untouched builder embeds nothing.
LEMMA NothingEmbedded ==
  /\ Shaped(NoArtifacts) /\ Embedded(NoArtifacts)
  /\ \A pinned : PinnedBetween(NoArtifacts, pinned)
  /\ Assessed(NoArtifacts)
<1>1. /\ NoArtifacts.objective = None /\ NoArtifacts.observations = {}
      /\ NoArtifacts.assessment = None /\ NoArtifacts.resolution = None
  BY DEF NoArtifacts
<1>2. NoArtifacts.states \in States
  BY DEF NoArtifacts, States, ArtifactState
<1>3. Shaped(NoArtifacts)
  BY <1>2 DEF Shaped, NoArtifacts
<1>4. Within(NoArtifacts.evidence, NoArtifacts.evidence)
  BY DEF Within
<1> QED
  BY <1>1, <1>3, <1>4 DEF Embedded, PinnedBetween, Assessed

LEMMA InitPinned == Init => DossierInv
<1> SUFFICES ASSUME Init PROVE DossierInv
  OBVIOUS
<1>1. HasLatest({})
  BY DEF HasLatest
<1>2. EvidenceInv
  BY <1>1, ContinuityAssumption
     DEF Init, ContinuityInit, LifecycleInit, EvidenceInv, EvidenceInOrder,
         ContinuityTypeOK, LifecycleTypeOK
<1> QED
  BY <1>2 DEF Init, DossierInv, DossierPinned, ResolutionHeld

LEMMA StartsPinned ==
  ASSUME EvidenceInv, StartDossier
  PROVE  DossierPinned'
<1>1. /\ UNCHANGED continuityVars
      /\ dossier' = [inventory |-> inventory, artifacts |-> NoArtifacts,
                     overtaken |-> FALSE, built |-> FALSE]
  BY DEF StartDossier
<1>2. Embedded(NoArtifacts)'
  <2>1. Grows
    BY <1>1, EvidenceGrows DEF EvidenceInv
  <2> QED
    BY <2>1, EmbeddedStays, NothingEmbedded
<1>3. inventory' = inventory /\ inventory \in 0..MaxInventory /\ inventory <= inventory
  BY <1>1, ContinuityAssumption DEF continuityVars, EvidenceInv, ContinuityTypeOK
<1>4. PICK d : d = dossier'
  OBVIOUS
<1>5. PICK none : none = NoArtifacts
  OBVIOUS
<1>6. d = [inventory |-> inventory, artifacts |-> none,
           overtaken |-> FALSE, built |-> FALSE]
  BY <1>1, <1>4, <1>5
<1>7. /\ Shaped(none) /\ Embedded(none)' /\ Assessed(none)
      /\ PinnedBetween(none, inventory)
  BY <1>2, <1>5, NothingEmbedded DEF NoArtifacts
<1>8. /\ d \in [inventory : 0..MaxInventory, artifacts : {none},
                overtaken : BOOLEAN, built : BOOLEAN]
      /\ d.artifacts = none /\ d.inventory = inventory /\ ~d.overtaken /\ ~d.built
  BY <1>3, <1>6
<1> QED
  BY <1>3, <1>4, <1>7, <1>8
     DEF DossierPinned, Shaped, PinnedBetween, Assessed, AssessmentHolds

LEMMA AddKeepsPinned ==
  ASSUME EvidenceInv, ResolutionHeld, DossierPinned,
         NEW basis \in Basis, NEW held \in {None, resolution},
         AddContinuity(basis, held)
  PROVE  DossierPinned'
<1> DEFINE a == dossier.artifacts
           b == WithResolution(a, basis, held)
<1>1. /\ dossier # None /\ ~dossier.built /\ assessments[basis] # None
      /\ ~AssessmentConflicts(a, basis)
      /\ UNCHANGED continuityVars
      /\ dossier' = [dossier EXCEPT !.artifacts = b]
  BY DEF AddContinuity, PassesAssessment, ReachesAssessment, Callable
<1>2. /\ Shaped(a) /\ Embedded(a) /\ dossier.inventory <= inventory
      /\ dossier \in [inventory : 0..MaxInventory, artifacts : {a},
                      overtaken : BOOLEAN, built : BOOLEAN]
  BY <1>1 DEF DossierPinned
<1>3. held # None => held.state \in ResolutionState
  BY DEF ResolutionHeld
<1>4. Within(a.evidence, EvidenceOf(basis))
  <2>1. CASE a.assessment = None
    BY <1>2, <2>1 DEF Embedded, Within, NoArtifacts
  <2>2. CASE a.assessment # None
    BY <1>1, <1>2, <2>2 DEF Embedded, AssessmentConflicts
  <2> QED
    BY <2>1, <2>2
<1>5. Embedded(b)
  BY <1>1, <1>2, <1>3, <1>4, ResolvedIsEmbedded
<1>6. Called(b, basis)
  BY <1>2, ResolutionCalled
<1> HIDE DEF b, a
<1>7. PinnedBetween(b, dossier.inventory)
  BY <1>2, <1>6, FreshPins DEF Called
<1>8. Assessed(b)
  BY <1>1, <1>6, CurrentAssessmentHolds DEF Called, Assessed
<1>9. /\ dossier.overtaken \in BOOLEAN
      /\ dossier' = [dossier EXCEPT !.artifacts = b, !.overtaken = dossier.overtaken]
  BY <1>1, <1>2
<1> QED
  BY <1>1, <1>5, <1>6, <1>7, <1>8, <1>9, DossierWith DEF Called

LEMMA OvertakenKeepsPinned ==
  ASSUME EvidenceInv, DossierPinned, NEW basis \in Basis,
         AddContinuityOvertaken(basis)
  PROVE  DossierPinned'
<1> DEFINE a == dossier.artifacts
<1>1. /\ dossier # None /\ ~dossier.built /\ assessments[basis] # None
      /\ UNCHANGED continuityVars
  BY DEF AddContinuityOvertaken, ReachesAssessment, Callable
<1>2. /\ Shaped(a) /\ Embedded(a) /\ dossier.inventory <= inventory
      /\ PinnedBetween(a, dossier.inventory)
      /\ dossier \in [inventory : 0..MaxInventory, artifacts : {a},
                      overtaken : BOOLEAN, built : BOOLEAN]
  BY <1>1 DEF DossierPinned
<1>3. \/ dossier' = [dossier EXCEPT !.overtaken = TRUE]
      \/ \E S \in SUBSET observations :
           /\ a.observations \subseteq S
           /\ dossier' = [dossier EXCEPT !.artifacts = WithObservations(a, S),
                                         !.overtaken = TRUE]
  <2>1. a.observations \subseteq observations
    BY <1>2 DEF Embedded
  <2>2. \A S \in StoppedAt(a.observations, observations) :
          S \in SUBSET observations /\ a.observations \subseteq S
    BY DEF StoppedAt
  <2> QED
    BY <2>1, <2>2 DEF AddContinuityOvertaken
<1> HIDE DEF a
<1>4. CASE dossier' = [dossier EXCEPT !.overtaken = TRUE]
  <2>1. dossier' = [dossier EXCEPT !.artifacts = a, !.overtaken = TRUE]
    BY <1>2, <1>4
  <2> QED
    BY <1>1, <1>2, <2>1, DossierWith
<1>5. ASSUME NEW S \in SUBSET observations, a.observations \subseteq S,
             dossier' = [dossier EXCEPT !.artifacts = WithObservations(a, S),
                                        !.overtaken = TRUE]
      PROVE  DossierPinned'
  <2> DEFINE b == WithObservations(a, S)
  <2>1. Embedded(b)
    BY <1>1, <1>2, <1>5, ObservedIsEmbedded
  <2>2. /\ Shaped(b) /\ b.objective = objective /\ b.plan = plan
        /\ b.states.objective = PinState(ObjectiveCurrent)
        /\ b.states.plan = PinState(PlanCurrent)
    BY <1>2, ObservedFields
  <2>3. dossier' = [dossier EXCEPT !.artifacts = b, !.overtaken = TRUE]
    BY <1>5
  <2> HIDE DEF b
  <2>4. PinnedBetween(b, dossier.inventory)
    BY <1>2, <2>2, FreshPins
  <2> QED
    BY <1>1, <2>1, <2>2, <2>3, <2>4, DossierWith
<1> QED
  BY <1>3, <1>4, <1>5

LEMMA StopsWithin ==
  ASSUME NEW e, NEW all, Within(e, all), NEW kept \in EvidenceStops(e, all)
  PROVE  Within(e, kept) /\ Within(kept, all)
<1>1. \A S \in StoppedAt(e.F, all.F) : e.F \subseteq S /\ S \subseteq all.F
  BY DEF StoppedAt
<1>2. \A x, y : \A S \in MayStopAt(x, y) : x \subseteq S /\ S \subseteq y
  BY DEF MayStopAt
<1>3. \/ \E S \in StoppedAt(e.F, all.F) : kept = [F |-> S, M |-> e.M, T |-> e.T]
      \/ \E S \in MayStopAt(e.M, all.M) : kept = [F |-> all.F, M |-> S, T |-> e.T]
      \/ \E S \in MayStopAt(e.T, all.T) : kept = [F |-> all.F, M |-> all.M, T |-> S]
  BY DEF EvidenceStops
<1>4. CASE \E S \in StoppedAt(e.F, all.F) : kept = [F |-> S, M |-> e.M, T |-> e.T]
  BY <1>1, <1>4 DEF Within
<1>5. CASE \E S \in MayStopAt(e.M, all.M) : kept = [F |-> all.F, M |-> S, T |-> e.T]
  BY <1>2, <1>5 DEF Within
<1>6. CASE \E S \in MayStopAt(e.T, all.T) : kept = [F |-> all.F, M |-> all.M, T |-> S]
  BY <1>2, <1>6 DEF Within
<1> QED
  BY <1>3, <1>4, <1>5, <1>6

LEMMA PartlyKeepsPinned ==
  ASSUME EvidenceInv, DossierPinned, NEW basis \in Basis, NEW held,
         AddContinuityPartly(basis, held)
  PROVE  DossierPinned'
<1> DEFINE a == dossier.artifacts
<1>1. /\ dossier # None /\ ~dossier.built /\ assessments[basis] # None
      /\ ~AssessmentConflicts(a, basis)
      /\ UNCHANGED continuityVars
  BY DEF AddContinuityPartly, PassesAssessment, ReachesAssessment, Callable
<1>2. /\ Shaped(a) /\ Embedded(a) /\ dossier.inventory <= inventory
      /\ dossier \in [inventory : 0..MaxInventory, artifacts : {a},
                      overtaken : BOOLEAN, built : BOOLEAN]
  BY <1>1 DEF DossierPinned
<1>3. Within(a.evidence, EvidenceOf(basis))
  <2>1. CASE a.assessment = None
    BY <1>2, <2>1 DEF Embedded, Within, NoArtifacts
  <2>2. CASE a.assessment # None
    BY <1>1, <1>2, <2>2 DEF Embedded, AssessmentConflicts
  <2> QED
    BY <2>1, <2>2
<1>4. PICK e : /\ Within(a.evidence, e) /\ Within(e, EvidenceOf(basis))
               /\ dossier' = [dossier EXCEPT !.artifacts = WithEvidence(a, basis, e)]
  <2>1. Within(EvidenceOf(basis), EvidenceOf(basis))
    BY DEF Within
  <2>2. CASE \E e \in EvidenceStops(a.evidence, EvidenceOf(basis)) :
               dossier' = [dossier EXCEPT !.artifacts = WithEvidence(@, basis, e)]
    BY <1>3, <2>2, StopsWithin
  <2>3. CASE dossier' = [dossier EXCEPT !.artifacts =
                           WithEvidence(@, basis, EvidenceOf(basis))]
    BY <1>3, <2>1, <2>3
  <2> QED
    BY <2>2, <2>3 DEF AddContinuityPartly
<1> DEFINE b == WithEvidence(a, basis, e)
<1>5. Embedded(b)
  BY <1>1, <1>2, <1>4, EvidenceIsEmbedded
<1>6. Called(b, basis)
  BY <1>2, EvidenceCalled
<1>7. dossier' = [dossier EXCEPT !.artifacts = b]
  BY <1>4
<1> HIDE DEF b, a
<1>8. PinnedBetween(b, dossier.inventory)
  BY <1>2, <1>6, FreshPins DEF Called
<1>9. Assessed(b)
  BY <1>1, <1>6, CurrentAssessmentHolds DEF Called, Assessed
<1>10. /\ dossier.overtaken \in BOOLEAN
       /\ dossier' = [dossier EXCEPT !.artifacts = b, !.overtaken = dossier.overtaken]
  BY <1>2, <1>7
<1> QED
  BY <1>1, <1>5, <1>6, <1>8, <1>9, <1>10, DossierWith DEF Called

LEMMA BuildKeepsPinned ==
  ASSUME EvidenceInv, DossierPinned, Build
  PROVE  DossierPinned'
<1>1. PICK d : d = dossier
  OBVIOUS
<1>2. /\ d # None /\ inventory = d.inventory /\ UNCHANGED continuityVars
      /\ dossier' = [d EXCEPT !.built = TRUE]
  BY <1>1 DEF Build
<1>3. /\ d \in [inventory : 0..MaxInventory, artifacts : {d.artifacts},
                overtaken : BOOLEAN, built : BOOLEAN]
      /\ Shaped(d.artifacts) /\ Embedded(d.artifacts)
      /\ PinnedBetween(d.artifacts, d.inventory)
      /\ ~d.overtaken => Assessed(d.artifacts)
  BY <1>1, <1>2 DEF DossierPinned
<1>4. PICK e : e = dossier'
  OBVIOUS
<1>5. /\ e \in [inventory : 0..MaxInventory, artifacts : {e.artifacts},
                overtaken : BOOLEAN, built : BOOLEAN]
      /\ e.inventory = d.inventory /\ e.artifacts = d.artifacts
      /\ e.overtaken = d.overtaken
  BY <1>2, <1>3, <1>4
<1>6. Embedded(d.artifacts)'
  <2>1. Grows
    BY <1>2, EvidenceGrows DEF EvidenceInv
  <2> QED
    BY <1>3, <2>1, EmbeddedStays
<1>7. inventory' = inventory /\ inventory <= inventory
  BY <1>2, ContinuityAssumption DEF continuityVars, EvidenceInv, ContinuityTypeOK
<1> QED
  BY <1>2, <1>3, <1>4, <1>5, <1>6, <1>7
     DEF DossierPinned, Shaped, PinnedBetween, Assessed, AssessmentHolds

LEMMA NextPinned == DossierInv /\ [Next]_vars => DossierInv'
<1> SUFFICES ASSUME DossierInv, [Next]_vars PROVE DossierInv'
  OBVIOUS
<1>1. EvidenceInv /\ ResolutionHeld /\ DossierPinned
  BY DEF DossierInv
<1>2. ASSUME UNCHANGED continuityVars
      PROVE  EvidenceInv'
  BY <1>1, <1>2, EvidenceStaysInOrder
<1>3. ASSUME UNCHANGED resolution
      PROVE  ResolutionHeld'
  BY <1>1, <1>3 DEF ResolutionHeld
<1>4. ASSUME ContinuityNext \/ UNCHANGED continuityVars, UNCHANGED dossier,
             ~Built \/ inventory' = inventory
      PROVE  EvidenceInv' /\ DossierPinned'
  <2>1. EvidenceInv' /\ Grows
    BY <1>1, <1>4, EvidenceStaysInOrder, EvidenceGrows DEF EvidenceInv
  <2> QED
    BY <1>1, <1>4, <2>1, PinnedWhileGrowing DEF Built
<1>5. CASE EvidenceMoves
  <2>1. ContinuityNext /\ UNCHANGED dossier /\ UNCHANGED resolution /\ ~Built
    BY <1>5 DEF EvidenceMoves
  <2> QED
    BY <1>3, <1>4, <2>1 DEF DossierInv
<1>6. ASSUME NEW basis \in Basis, ResolveFindings(basis)
      PROVE  DossierInv'
  <2>1. /\ resolution' = ResolutionOf(basis, EvidenceOf(basis))
        /\ resolution'.state # "refused"
        /\ UNCHANGED <<continuityVars, dossier>>
    BY <1>6 DEF ResolveFindings
  <2>2. ResolutionHeld'
    BY <2>1 DEF ResolutionHeld, ResolutionState, ResolutionOf, Resolve
  <2> QED
    BY <1>4, <2>1, <2>2 DEF DossierInv, continuityVars
<1>7. CASE StartDossier
  BY <1>1, <1>2, <1>3, <1>7, StartsPinned DEF StartDossier, DossierInv
<1>8. ASSUME NEW basis \in Basis, NEW held \in {None, resolution},
             AddContinuity(basis, held)
      PROVE  DossierInv'
  <2>1. UNCHANGED <<continuityVars, resolution>>
    BY <1>8 DEF AddContinuity
  <2> QED
    BY <1>1, <1>2, <1>3, <1>8, <2>1, AddKeepsPinned DEF DossierInv
<1>9. ASSUME NEW basis \in Basis, NEW held \in {None, resolution},
             AddContinuityPartly(basis, held)
      PROVE  DossierInv'
  <2>1. UNCHANGED <<continuityVars, resolution>>
    BY <1>9 DEF AddContinuityPartly
  <2> QED
    BY <1>1, <1>2, <1>3, <1>9, <2>1, PartlyKeepsPinned DEF DossierInv
<1>10. ASSUME NEW basis \in Basis, AddContinuityOvertaken(basis)
       PROVE  DossierInv'
  <2>1. UNCHANGED <<continuityVars, resolution>>
    BY <1>10 DEF AddContinuityOvertaken
  <2> QED
    BY <1>1, <1>2, <1>3, <1>10, <2>1, OvertakenKeepsPinned DEF DossierInv
<1>11. CASE Build
  BY <1>1, <1>2, <1>3, <1>11, BuildKeepsPinned DEF Build, DossierInv
<1>12. CASE UNCHANGED vars
  BY <1>3, <1>4, <1>12 DEF vars, continuityVars, DossierInv
<1> QED
  BY <1>5, <1>6, <1>7, <1>8, <1>9, <1>10, <1>11, <1>12 DEF Next

LEMMA AlwaysPinned == Spec => []DossierInv
BY InitPinned, NextPinned, PTL DEF Spec

\* Evidence, resolution and dossier stay well formed, whenever callers make
\* evidence, resolve it or hand it to the builder.
THEOREM ContinuityTypeCorrect == Spec => []TypeOK
<1>1. DossierInv => TypeOK
  <2> SUFFICES ASSUME DossierInv PROVE TypeOK
    OBVIOUS
  <2>1. ASSUME dossier # None
        PROVE  \A name \in DOMAIN dossier.artifacts.states :
                 dossier.artifacts.states[name] \in ArtifactState
    <3>1. dossier.artifacts.states \in States
      BY <2>1 DEF DossierInv, DossierPinned, Shaped
    <3> QED
      BY <3>1 DEF States
  <2> QED
    BY <2>1 DEF DossierInv, DossierPinned, EvidenceInv, ResolutionHeld, TypeOK
<1> QED
  BY <1>1, AlwaysPinned, PTL

-----------------------------------------------------------------------------

\* Builder and verifier agree: whatever the inventory and the evidence did between
\* the calls, and however often evidence was added, a built dossier that needs no
\* revalidation passes the offline verifier, unless one of its retests is dated
\* before its remediation or a call raised before it was through with the assessment.
THEOREM BuilderAndVerifierAgree == Spec => []CurrentDossierVerifies
<1>1. DossierInv => CurrentDossierVerifies
  <2> DEFINE a == dossier.artifacts
  <2> SUFFICES ASSUME DossierInv, Built,
                      DossierState(dossier) # "revalidation_required",
                      \A r \in a.evidence.T : r.at >= r.remediation.at,
                      ~dossier.overtaken, a.objective # None
               PROVE  /\ a.objective = dossier.inventory
                      /\ a.plan = dossier.inventory
                      /\ a.execution.started <= a.execution.completed
                      /\ \A o \in a.observations : o.at >= a.execution.started
                      /\ a.assessment # None => AssessmentHolds(a)
                      /\ LifecycleHolds(a)
                      /\ ResolutionHolds(a)
    BY DEF CurrentDossierVerifies, Verifies
  <2>1. /\ inventory = dossier.inventory
        /\ Shaped(a) /\ Embedded(a) /\ Assessed(a)
        /\ PinnedBetween(a, dossier.inventory)
    BY DEF Built, DossierInv, DossierPinned
  <2>2. \A name \in {"objective", "plan", "assessment", "resolution"} :
          a.states[name] # "revalidation_required"
    <3>1. a.states \in States
      BY <2>1 DEF Shaped
    <3>2. "revalidation_required" \notin {a.states[name] : name \in DOMAIN a.states}
      BY DEF DossierState
    <3> QED
      BY <3>1, <3>2 DEF States
  <2>3. EvidenceInv /\ EvidenceInOrder /\ ContinuityTypeOK
    BY DEF DossierInv, EvidenceInv
  <2>4. a.execution = execution /\ execution # None
    BY <2>1 DEF Embedded
  <2>5. a.objective = dossier.inventory /\ a.plan = dossier.inventory
    <3>1. dossier.inventory <= a.objective /\ dossier.inventory <= a.plan
      BY <2>1, <2>2 DEF PinnedBetween
    <3>2. a.objective <= dossier.inventory /\ a.plan <= dossier.inventory
      BY <2>1, <2>3, <2>4 DEF Embedded, EvidenceInOrder
    <3>3. dossier.inventory \in Nat /\ a.objective \in Nat /\ a.plan \in Nat
      BY <2>1, <2>3, <2>4, ContinuityAssumption
         DEF Embedded, ContinuityTypeOK, EvidenceInOrder
    <3> QED
      BY <3>1, <3>2, <3>3
  <2>6. /\ a.execution.started <= a.execution.completed
        /\ \A o \in a.observations : o.at >= a.execution.started
    BY <2>1, <2>3, <2>4 DEF Embedded, EvidenceInOrder
  <2>7. a.assessment # None /\ AssessmentHolds(a)
    BY <2>1, <2>2 DEF Assessed
  <2>8. LifecycleHolds(a)
    <3>1. Within(a.evidence, EvidenceOf(a.basis)) /\ a.assessment = assessments[a.basis]
      BY <2>1, <2>7 DEF Embedded
    <3>2. \A f \in a.evidence.F : f \in findings /\ f.of = a.basis
      BY <3>1 DEF Within, EvidenceOf
    <3>3. \A m \in a.evidence.M : m \in remediations
      BY <3>1 DEF Within, EvidenceOf
    <3> QED
      BY <2>3, <3>1, <3>2, <3>3 DEF LifecycleHolds, EvidenceInOrder
  <2>9. ResolutionHolds(a)
    <3>1. CASE a.resolution = None
      BY <3>1 DEF ResolutionHolds
    <3>2. CASE a.resolution # None
      BY <2>1, <2>2, <3>2 DEF Embedded
    <3> QED
      BY <3>1, <3>2
  <2> QED
    BY <2>5, <2>6, <2>7, <2>8, <2>9
<1> QED
  BY <1>1, AlwaysPinned, PTL

\* A finding that a verified dossier shows closed, from a resolution the builder
\* found current, was closed by a retest that respects the order in time, of the
\* remediation that stood among those resolved, by somebody who may give it; even if
\* the retest was constructed without create_continuity_retest.
THEOREM VerifiedClosureIsAlwaysEarned == Spec => []VerifiedClosureIsEarned
<1>1. DossierInv => VerifiedClosureIsEarned
  <2> DEFINE a == dossier.artifacts
             given == a.resolution.evidence
  <2> SUFFICES
        ASSUME DossierInv, Built, Verifies(dossier), a.resolution # None,
               a.states.resolution # "revalidation_required",
               NEW f \in given.F \ Unresolved(given.F, given.M, given.T)
        PROVE  \E r \in a.evidence.T :
                 /\ r.outcome = "passed" /\ r.remediation.finding = f
                 /\ r.at >= r.remediation.at /\ r.remediation.at >= f.at
                 /\ Reviewer # None => r.reviewer = Reviewer
                 /\ f.blocking => r.reviewer # r.remediation.owner
                 /\ \A m \in given.M :
                      m.finding = f /\ m # r.remediation => m.at < r.remediation.at
    BY DEF VerifiedClosureIsEarned
  <2>1. Embedded(a) /\ LifecycleTypeOK
    BY DEF Built, DossierInv, DossierPinned, EvidenceInv, ContinuityTypeOK
  <2>2. a.objective # None /\ Within(given, a.evidence)
          /\ Within(a.evidence, EvidenceOf(a.basis))
    BY <2>1 DEF Embedded
  <2>3. given.M \in SUBSET Remediation /\ given.T \in SUBSET Retest
    BY <2>1, <2>2 DEF Within, EvidenceOf, LifecycleTypeOK
  <2>4. Status(f, given.M, given.T) = "closed"
    BY DEF Unresolved
  <2>5. PICK r \in given.T :
          /\ r.outcome = "passed" /\ r.remediation.finding = f
          /\ Independent(r)
          /\ r.remediation \in given.M
          /\ \A m \in given.M :
               m.finding = f /\ m # r.remediation => m.at < r.remediation.at
    BY <2>3, <2>4, ClosedByOneVerdict
  <2>6. r \in a.evidence.T /\ r.remediation \in a.evidence.M
    BY <2>2, <2>5 DEF Within
  <2>7. r.at >= r.remediation.at /\ r.remediation.at >= f.at
    BY <2>2, <2>5, <2>6 DEF Verifies, LifecycleHolds
  <2> QED
    BY <2>5, <2>6, <2>7, ContinuityAssumption DEF Independent
<1> QED
  BY <1>1, AlwaysPinned, PTL

\* A domain that a portfolio shows healthy was measured: its verified dossier
\* embeds one latest observation, which met the recovery time, the recovery point
\* and the service level set for the inventory the dossier pins.  The only other
\* healthy domains have no assessment, because a call raised.
THEOREM HealthyIsAlwaysMeasured == Spec => []HealthyIsMeasured
<1>1. DossierInv => HealthyIsMeasured
  <2> DEFINE a == dossier.artifacts
             o == a.assessment.seen
  <2> SUFFICES
        ASSUME DossierInv, Built, Verifies(dossier),
               DomainState(dossier) = "healthy",
               ~(dossier.overtaken /\ a.assessment = None)
        PROVE  /\ a.objective = dossier.inventory
               /\ o \in a.observations
               /\ \A other \in a.observations \ {o} : other.at < o.at
               /\ None \notin {o.measured.restoration, o.measured.loss,
                               o.measured.level}
               /\ o.measured.restoration <= Rto
               /\ o.measured.loss <= Rpo
               /\ o.measured.level >= MinLevel
    BY Zenon DEF HealthyIsMeasured, Measured
  <2>1. Embedded(a) /\ (~dossier.overtaken => Assessed(a))
    BY DEF Built, DossierInv, DossierPinned
  <2>2. a.objective # None
    BY DEF DomainState
  <2>3. a.assessment # None
    BY <2>1, <2>2 DEF Assessed
  <2>4. a.objective = dossier.inventory /\ AssessmentHolds(a)
    BY <2>2, <2>3 DEF Verifies
  <2>5. EvidenceInOrder /\ ContinuityTypeOK
    BY DEF DossierInv, EvidenceInv
  <2>6. a.observations \in SUBSET Observation /\ HasLatest(a.observations)
    BY <2>1, <2>5, PartHasLatest DEF Embedded, ContinuityTypeOK, EvidenceInOrder
  <2>7. a.assessment.state \in AssessmentState
    BY <2>1, <2>3, <2>5 DEF Embedded, ContinuityTypeOK, Assessment
  <2>8. a.assessment.state \notin {"breached", "incomplete"}
    BY <2>3 DEF DomainState
  <2>9. Aggregate(Metrics(IF o = None THEN Nothing ELSE o.measured)) = "met"
    BY <2>4, <2>7, <2>8 DEF AssessmentHolds, AssessmentState
  <2>10. o # None
    BY <2>9, NothingIsIncomplete
  <2>11. o = AssessmentOf(a.observations, a.assessment.at).seen
    BY <2>4 DEF AssessmentHolds
  <2>12. o \in a.observations /\ o \in Latest(a.observations)
    BY <2>6, <2>10, <2>11, SeenIsLatest
  <2>13. \A other \in a.observations : other.at \in Nat
    BY <2>6, FindingLifecycleAssumption DEF Observation
  <2>14. \A other \in a.observations \ {o} : other.at < o.at
    BY <2>4, <2>12, <2>13, LatestPrecedes DEF AssessmentHolds
  <2>15. Aggregate(Metrics(o.measured)) = "met"
    BY <2>9, <2>10
  <2> QED
    BY <2>4, <2>12, <2>14, <2>15, MetIsMeasured
<1> QED
  BY <1>1, AlwaysPinned, PTL

-----------------------------------------------------------------------------

\* Before the dossier, with no premise on the dossier at all: a finding of an
\* exercise is closed only by a passing retest of its latest remediation, given by
\* the configured reviewer, and by somebody else than the owner when the finding
\* is blocking, whether or not the retest came through create_continuity_retest
\* (resolve_continuity of continuity_strict.py).
THEOREM ContinuityClosureIsIndependent == Spec => []ClosureIsIndependent
<1>1. TypeOK => ClosureIsIndependent
  BY ClosureByTypes DEF TypeOK, ContinuityTypeOK
<1> QED
  BY <1>1, ContinuityTypeCorrect, PTL

\* Every step adds one piece of evidence, or none.
LEMMA StepAddsOnePiece ==
  ASSUME PiecewiseInv, [Next]_vars
  PROVE  OnePieceMore
<1>1. CASE ContinuityNext
  <2>1. CASE GrowInventory \/ BuildObjective \/ BuildPlan
    BY <2>1 DEF GrowInventory, BuildObjective, BuildPlan, lifecycleVars, OnePieceMore
  <2>2. CASE \E started, completed \in Time : RecordExecution(started, completed)
    BY <2>2 DEF RecordExecution, lifecycleVars, OnePieceMore
  <2>3. CASE \E observation \in Observation : RecordObservation(observation)
    BY <2>3 DEF RecordObservation, lifecycleVars, OnePieceMore
  <2>4. CASE \E basis \in Basis, supplied \in SUBSET observations, at \in Time :
               Assess(basis, supplied, at)
    BY <2>4 DEF Assess, lifecycleVars, OnePieceMore
  <2>5. CASE \E finding \in Finding : RaiseFinding(finding)
    BY <2>5 DEF RaiseFinding, CreateFinding, OnePieceMore
  <2>6. CASE Lifecycle
    <3>1. remediations \in SUBSET Remediation
      BY DEF PiecewiseInv
    <3> QED
      BY <2>6, <3>1, RemediationIsOnePiece, RetestIsOnePiece DEF Lifecycle
  <2> QED
    BY <1>1, <2>1, <2>2, <2>3, <2>4, <2>5, <2>6 DEF ContinuityNext
<1>2. CASE UNCHANGED continuityVars
  BY <1>2 DEF continuityVars, lifecycleVars, OnePieceMore
<1>3. [Next]_vars => ContinuityNext \/ UNCHANGED continuityVars
  BY DEF Next, vars, EvidenceMoves, ResolveFindings, StartDossier, AddContinuity,
         AddContinuityPartly, AddContinuityOvertaken, Build
<1> QED
  BY <1>1, <1>2, <1>3

\* Findings of exercises keep the promise too, whatever the builder does meanwhile:
\* continuity.py and resilience.py are two implementations of FindingPromise.
THEOREM ContinuityFindingsKeepThePromise == Spec => FindingsKeepThePromise
<1>1. Init => PiecewiseInv /\ Promise!Init
  BY NothingIsPiecewise, NothingIsUntouched DEF Init, ContinuityInit, LifecycleInit
<1>2. PiecewiseInv /\ [Next]_vars => PiecewiseInv'
  BY StepAddsOnePiece, OnePieceKeepsInv
<1>3. PiecewiseInv /\ [Next]_vars
        => [Promise!Next]_([f \in Finding |-> Record(f)])
  BY StepAddsOnePiece, OnePieceKeepsThePromise
<1> QED
  BY <1>1, <1>2, <1>3, PTL DEF Spec, FindingsKeepThePromise, Promise!Spec

-----------------------------------------------------------------------------

\* What the builder marks is behind the inventory, and stays behind; or it is an
\* assessment that the observations embedded with it contradict.
Behind(a) ==
  \/ ~(a.objective = inventory /\ a.plan = inventory)
  \/ a.assessment # None /\ ~AssessmentHolds(a)

BasisMarked(a) ==
  "revalidation_required" \in {a.states.objective, a.states.plan, a.states.assessment}

Marked(a) == BasisMarked(a) => a.objective # None /\ Behind(a)

MarkedIsBehind == dossier # None => Marked(dossier.artifacts)

\* An assessment the verifier accepts with more observations, it accepts with fewer,
\* if the one it rests on is among them.
LEMMA FewerObservations ==
  ASSUME NEW S \in SUBSET Observation, HasLatest(S),
         NEW a, a.observations \subseteq S,
         a.assessment.seen \in a.observations \cup {None},
         NEW b, b.observations = S, b.assessment = a.assessment,
         b.execution = a.execution, AssessmentHolds(b)
  PROVE  AssessmentHolds(a)
<1> DEFINE few == a.observations
           made == a.assessment
<1>1. /\ made.at >= a.execution.completed
      /\ ~Conflicting(Latest(S))
      /\ \A o \in S : o.at <= made.at
      /\ made.seen = AssessmentOf(S, made.at).seen
      /\ made.state = Aggregate(Metrics(IF made.seen = None THEN Nothing
                                        ELSE made.seen.measured))
  BY DEF AssessmentHolds
<1>2. few \in SUBSET Observation /\ HasLatest(few)
  BY PartHasLatest
<1>3. \A o \in S : o.at \in Nat
  BY FindingLifecycleAssumption DEF Observation
<1>4. IF S = {} THEN made.seen = None ELSE made.seen \in S /\ made.seen \in Latest(S)
  BY <1>1, SeenIsLatest
<1>5. IF few = {} THEN AssessmentOf(few, made.at).seen = None
      ELSE /\ AssessmentOf(few, made.at).seen \in few
           /\ AssessmentOf(few, made.at).seen \in Latest(few)
  BY <1>2, SeenIsLatest
<1> HIDE DEF made, few
<1>6. a.observations = few /\ a.assessment = made
  BY DEF made, few
<1>7. CASE S = {}
  <2>1. few = {}
    BY <1>6, <1>7
  <2>2. made.seen = AssessmentOf(few, made.at).seen
    BY <1>4, <1>5, <1>7, <2>1
  <2>3. ~Conflicting(Latest(few))
    BY <2>1 DEF Conflicting, Latest
  <2> QED
    BY <1>1, <1>6, <2>1, <2>2, <2>3 DEF AssessmentHolds
<1>8. CASE S # {}
  <2>1. made.seen \in Latest(S) /\ made.seen \in few
    BY <1>4, <1>6, <1>8, ContinuityAssumption
  <2>2. ASSUME NEW o \in Latest(few) PROVE o = made.seen
    <3>1. o \in S /\ made.seen.at <= o.at
      BY <1>6, <2>1, <2>2 DEF Latest
    <3>2. \A other \in S : other.at <= made.seen.at
      BY <2>1 DEF Latest
    <3>3. \A other \in S : other.at <= o.at
      BY <1>3, <2>1, <3>1, <3>2 DEF Latest
    <3>4. o \in Latest(S)
      BY <3>1, <3>3 DEF Latest
    <3> QED
      BY <1>1, <2>1, <3>4 DEF Conflicting
  <2>3. ~Conflicting(Latest(few))
    BY <2>2 DEF Conflicting
  <2>4. made.seen = AssessmentOf(few, made.at).seen
    BY <1>5, <2>1, <2>2
  <2>5. \A o \in few : o.at <= made.at
    BY <1>1, <1>6
  <2> QED
    BY <1>1, <1>6, <2>3, <2>4, <2>5 DEF AssessmentHolds
<1> QED
  BY <1>7, <1>8

\* The builder marks what a call embeds for no other reason.
LEMMA MarkedWhenAdded ==
  ASSUME EvidenceInv, NEW basis \in Basis, assessments[basis] # None,
         NEW b, Called(b, basis)
  PROVE  Marked(b)
<1> DEFINE made == assessments[basis]
<1>1. execution # None /\ objective # None
  BY ExerciseEmbedded
<1>2. ASSUME PlanCurrent, AssessmentHolds(b)
      PROVE  AssessmentArtifactState(made) # "revalidation_required"
  <2>1. made \in Assessment
    BY DEF EvidenceInv, ContinuityTypeOK
  <2>2. made.at \in Nat /\ \A o \in observations : o.at \in Nat
    BY <2>1, FindingLifecycleAssumption
       DEF EvidenceInv, ContinuityTypeOK, Assessment, Observation
  <2>3. /\ b.assessment = made /\ b.observations = observations
        /\ b.execution = execution
    BY DEF Called
  <2> HIDE DEF made
  <2>4. \A o \in observations : o.at <= made.at
    BY <1>2, <2>3 DEF AssessmentHolds
  <2>5. execution \in [started : Time, completed : Time]
    BY <1>1 DEF EvidenceInv, ContinuityTypeOK
  <2>6. \A o \in observations : execution.started <= o.at
    <3>1. execution.started \in Nat
      BY <2>5, FindingLifecycleAssumption
    <3>2. \A o \in observations : o.at >= execution.started
      BY DEF EvidenceInv, EvidenceInOrder
    <3> QED
      BY <2>2, <3>1, <3>2
  <2>7. MayAssess(observations, made.at)
    BY <1>1, <1>2, <2>3, <2>4, <2>6 DEF MayAssess, AssessmentHolds
  <2> DEFINE again == AssessmentOf(observations, made.at)
  <2>8. again.at = made.at /\ again.seen = made.seen
    <3>1. again.at = made.at
      BY DEF AssessmentOf
    <3>2. again.seen = made.seen
      BY <1>2, <2>3 DEF AssessmentHolds
    <3> QED
      BY <3>1, <3>2
  <2>9. again.state = made.state
    <3>1. again.state = Aggregate(Metrics(IF again.seen = None THEN Nothing
                                          ELSE again.seen.measured))
      BY DEF AssessmentOf
    <3>2. made.state = Aggregate(Metrics(IF made.seen = None THEN Nothing
                                         ELSE made.seen.measured))
      BY <1>2, <2>3 DEF AssessmentHolds
    <3> QED
      BY <2>8, <3>1, <3>2
  <2>10. again = made
    <3>1. again = [at |-> again.at, seen |-> again.seen, state |-> again.state]
      BY DEF AssessmentOf
    <3>2. made = [at |-> made.at, seen |-> made.seen, state |-> made.state]
      BY <2>1 DEF Assessment
    <3> HIDE DEF again
    <3> QED
      BY <2>8, <2>9, <3>1, <3>2
  <2>11. Objection(made) = "none"
    <3>1. ~\E o \in observations : o.at > made.at
      BY <2>2, <2>4
    <3> HIDE DEF again
    <3>2. AssessmentOf(observations, made.at) = made
      BY <2>10 DEF again
    <3> QED
      BY <1>2, <2>7, <3>1, <3>2 DEF Objection
  <2> QED
    BY <2>11 DEF AssessmentArtifactState
<1>3. ASSUME BasisMarked(b), ~Behind(b)
      PROVE  FALSE
  <2>1. /\ b.objective = objective /\ b.plan = plan
        /\ b.states.objective = PinState(ObjectiveCurrent)
        /\ b.states.plan = PinState(PlanCurrent)
        /\ b.states.assessment = AssessmentArtifactState(made)
        /\ b.assessment = made
    BY DEF Called
  <2>2. objective = inventory /\ plan = inventory /\ AssessmentHolds(b)
    BY <1>3, <2>1 DEF Behind
  <2>3. ObjectiveCurrent /\ PlanCurrent
    BY <2>2 DEF ObjectiveCurrent, PlanCurrent
  <2>4. b.states.assessment # "revalidation_required"
    BY <1>2, <2>1, <2>2, <2>3
  <2> QED
    BY <1>3, <2>1, <2>3, <2>4 DEF BasisMarked, PinState
<1> QED
  BY <1>1, <1>3 DEF Marked, Called

\* Nor is there another once a call raised at an observation or at the assessment.
LEMMA MarkedWhenObserved ==
  ASSUME EvidenceInv, NEW basis \in Basis, assessments[basis] # None,
         NEW a, Shaped(a), Embedded(a), Marked(a),
         NEW S \in SUBSET observations, a.observations \subseteq S
  PROVE  Marked(WithObservations(a, S))
<1> DEFINE b == WithObservations(a, S)
<1>1. /\ b.objective = objective /\ b.plan = plan /\ b.execution = execution
      /\ b.observations = S /\ b.assessment = a.assessment
      /\ b.states.objective = PinState(ObjectiveCurrent)
      /\ b.states.plan = PinState(PlanCurrent)
      /\ b.states.assessment = a.states.assessment
  BY ObservedFields
<1> HIDE DEF b
<1>2. objective # None
  BY ExerciseEmbedded
<1>3. ASSUME BasisMarked(b), ~Behind(b)
      PROVE  FALSE
  <2>1. objective = inventory /\ plan = inventory
    BY <1>1, <1>3 DEF Behind
  <2>2. a.states.assessment = "revalidation_required"
    BY <1>1, <1>3, <2>1 DEF BasisMarked, PinState, ObjectiveCurrent, PlanCurrent
  <2>3. a.objective # None /\ Behind(a)
    BY <2>2 DEF Marked, BasisMarked
  <2>4. /\ a.objective = objective /\ a.plan = plan /\ a.execution = execution
    BY <2>3 DEF Embedded
  <2>5. a.assessment # None /\ ~AssessmentHolds(a)
    BY <2>1, <2>3, <2>4 DEF Behind
  <2>6. AssessmentHolds(b)
    BY <1>1, <1>3, <2>5 DEF Behind
  <2>7. a.assessment.seen \in a.observations \cup {None}
    BY <2>5 DEF Embedded
  <2>8. S \in SUBSET Observation /\ HasLatest(S)
    BY PartHasLatest DEF EvidenceInv, EvidenceInOrder, ContinuityTypeOK
  <2>9. b.assessment = a.assessment /\ b.execution = a.execution /\ b.observations = S
    BY <1>1, <2>4
  <2>10. AssessmentHolds(a)
    BY <2>6, <2>7, <2>8, <2>9, FewerObservations
  <2> QED
    BY <2>5, <2>10
<1>4. Marked(b)
  BY <1>1, <1>2, <1>3 DEF Marked
<1> QED
  BY <1>4 DEF b

\* What is behind stays behind.
LEMMA MarkedStays ==
  ASSUME EvidenceInv, EvidenceInv', Grows, NEW a, Embedded(a), Marked(a)
  PROVE  Marked(a)'
<1>1. ASSUME a.objective # None, ~(a.objective = inventory /\ a.plan = inventory)
      PROVE  ~(a.objective = inventory' /\ a.plan = inventory')
  <2>1. /\ inventory \in Nat /\ inventory' \in Nat /\ inventory <= inventory'
        /\ a.objective \in Nat /\ a.plan \in Nat
        /\ a.objective <= inventory /\ a.plan <= inventory
    BY <1>1, ContinuityAssumption
       DEF EvidenceInv, EvidenceInOrder, ContinuityTypeOK, Embedded, Grows
  <2> QED
    BY <1>1, <2>1
<1> QED
  BY <1>1 DEF Marked, BasisMarked, Behind, AssessmentHolds

LEMMA StaleInvariant == Spec => []MarkedIsBehind
<1>1. Init => MarkedIsBehind
  BY DEF Init, MarkedIsBehind
<1>2. DossierInv /\ DossierInv' /\ MarkedIsBehind /\ [Next]_vars => MarkedIsBehind'
  <2> SUFFICES ASSUME DossierInv, DossierInv', MarkedIsBehind, [Next]_vars
               PROVE  MarkedIsBehind'
    OBVIOUS
  <2>1. EvidenceInv /\ EvidenceInv' /\ DossierPinned
    BY DEF DossierInv
  <2>2. ContinuityNext \/ UNCHANGED continuityVars
    BY DEF Next, vars, EvidenceMoves, ResolveFindings, StartDossier, AddContinuity,
           AddContinuityPartly, AddContinuityOvertaken, Build
  <2>3. Grows
    BY <2>1, <2>2, EvidenceGrows DEF EvidenceInv
  <2>4. ASSUME NEW b, Embedded(b), Marked(b), dossier' # None => dossier'.artifacts = b
        PROVE  MarkedIsBehind'
    <3>1. Marked(b)'
      BY <2>1, <2>3, <2>4, MarkedStays
    <3>2. PICK d : d = dossier'
      OBVIOUS
    <3>3. d # None => d.artifacts = b
      BY <2>4, <3>2
    <3> QED
      BY <3>1, <3>2, <3>3
         DEF MarkedIsBehind, Marked, BasisMarked, Behind, AssessmentHolds
  <2>5. dossier # None =>
          /\ Shaped(dossier.artifacts) /\ Embedded(dossier.artifacts)
          /\ Marked(dossier.artifacts)
          /\ dossier \in [inventory : 0..MaxInventory,
                          artifacts : {dossier.artifacts},
                          overtaken : BOOLEAN, built : BOOLEAN]
    BY <2>1 DEF DossierPinned, MarkedIsBehind
  <2>6. ASSUME dossier # None => dossier' # None /\ dossier'.artifacts = dossier.artifacts,
               dossier = None => dossier' = None
        PROVE  MarkedIsBehind'
    <3>1. CASE dossier = None
      BY <2>6, <3>1 DEF MarkedIsBehind
    <3>2. CASE dossier # None
      BY <2>4, <2>5, <2>6, <3>2
    <3> QED
      BY <3>1, <3>2
  <2>7. CASE EvidenceMoves
    BY <2>6, <2>7 DEF EvidenceMoves
  <2>8. CASE \E basis \in Basis : ResolveFindings(basis)
    BY <2>6, <2>8 DEF ResolveFindings
  <2>9. CASE StartDossier
    <3>1. Marked(NoArtifacts)
      BY DEF Marked, BasisMarked, NoArtifacts
    <3>2. dossier'.artifacts = NoArtifacts
      BY <2>9 DEF StartDossier
    <3> QED
      BY <2>4, <3>1, <3>2, NothingEmbedded
  <2>10. CASE Build
    <3>1. dossier # None /\ dossier' = [dossier EXCEPT !.built = TRUE]
      BY <2>10 DEF Build
    <3>2. dossier'.artifacts = dossier.artifacts
      BY <2>5, <3>1
    <3> QED
      BY <2>4, <2>5, <3>1, <3>2
  <2>11. ASSUME NEW basis \in Basis, NEW held \in {None, resolution},
                AddContinuity(basis, held)
         PROVE  MarkedIsBehind'
    <3> DEFINE b == WithResolution(dossier.artifacts, basis, held)
    <3>1. /\ dossier # None /\ assessments[basis] # None
          /\ UNCHANGED continuityVars
          /\ dossier' = [dossier EXCEPT !.artifacts = b]
      BY <2>11 DEF AddContinuity, PassesAssessment, ReachesAssessment, Callable
    <3>2. Marked(b)
      BY <2>1, <2>5, <3>1, ResolutionCalled, MarkedWhenAdded
    <3> HIDE DEF b
    <3>3. dossier'.artifacts = b
      BY <2>5, <3>1
    <3>4. MarkedIsBehind'
      BY <3>1, <3>2, <3>3 DEF MarkedIsBehind, Marked, BasisMarked, Behind,
                              AssessmentHolds, continuityVars
    <3> QED
      BY <3>4
  <2>12. ASSUME NEW basis \in Basis, NEW held \in {None, resolution},
                AddContinuityPartly(basis, held)
         PROVE  MarkedIsBehind'
    <3>1. /\ dossier # None /\ assessments[basis] # None
          /\ UNCHANGED continuityVars
      BY <2>12 DEF AddContinuityPartly, PassesAssessment, ReachesAssessment, Callable
    <3>2. PICK e : dossier' = [dossier EXCEPT !.artifacts =
                                 WithEvidence(dossier.artifacts, basis, e)]
      BY <2>12 DEF AddContinuityPartly
    <3> DEFINE b == WithEvidence(dossier.artifacts, basis, e)
    <3>3. Marked(b)
      BY <2>1, <2>5, <3>1, EvidenceCalled, MarkedWhenAdded
    <3> HIDE DEF b
    <3>4. dossier'.artifacts = b
      BY <2>5, <3>1, <3>2 DEF b
    <3> QED
      BY <3>1, <3>3, <3>4 DEF MarkedIsBehind, Marked, BasisMarked, Behind,
                              AssessmentHolds, continuityVars
  <2>13. ASSUME NEW basis \in Basis, AddContinuityOvertaken(basis)
         PROVE  MarkedIsBehind'
    <3> DEFINE a == dossier.artifacts
    <3>1. /\ dossier # None /\ assessments[basis] # None
          /\ UNCHANGED continuityVars
      BY <2>13 DEF AddContinuityOvertaken, ReachesAssessment, Callable
    <3>2. \/ dossier' = [dossier EXCEPT !.overtaken = TRUE]
          \/ \E S \in SUBSET observations :
               /\ a.observations \subseteq S
               /\ dossier' = [dossier EXCEPT !.artifacts = WithObservations(a, S),
                                             !.overtaken = TRUE]
      <4>1. a.observations \subseteq observations
        BY <2>5, <3>1 DEF Embedded
      <4>2. \A S \in StoppedAt(a.observations, observations) :
              S \in SUBSET observations /\ a.observations \subseteq S
        BY DEF StoppedAt
      <4> QED
        BY <2>13, <4>1, <4>2 DEF AddContinuityOvertaken
    <3>3. CASE dossier' = [dossier EXCEPT !.overtaken = TRUE]
      <4>1. dossier'.artifacts = dossier.artifacts
        BY <2>5, <3>1, <3>3
      <4> QED
        BY <2>4, <2>5, <3>1, <4>1
    <3>4. ASSUME NEW S \in SUBSET observations, a.observations \subseteq S,
                 dossier' = [dossier EXCEPT !.artifacts = WithObservations(a, S),
                                            !.overtaken = TRUE]
          PROVE  MarkedIsBehind'
      <4> DEFINE b == WithObservations(a, S)
      <4>1. Marked(b)
        BY <2>1, <2>5, <3>1, <3>4, MarkedWhenObserved
      <4>2. dossier' = [dossier EXCEPT !.artifacts = b, !.overtaken = TRUE]
        BY <3>4
      <4> HIDE DEF b
      <4>3. dossier'.artifacts = b
        BY <2>5, <3>1, <4>2
      <4> QED
        BY <3>1, <4>1, <4>3 DEF MarkedIsBehind, Marked, BasisMarked, Behind,
                                AssessmentHolds, continuityVars
    <3> QED
      BY <3>2, <3>3, <3>4
  <2>14. CASE UNCHANGED vars
    BY <2>6, <2>14 DEF vars
  <2> QED
    BY <2>7, <2>8, <2>9, <2>10, <2>11, <2>12, <2>13, <2>14 DEF Next
<1> QED
  BY <1>1, <1>2, AlwaysPinned, PTL DEF Spec

\* The other direction of BuilderAndVerifierAgree, without exception: a dossier whose
\* objective, plan or assessment the builder marks for revalidation passes no
\* verifier, however the inventory and the evidence went on before it was built.  Only
\* of a stale resolution can a portfolio learn from a dossier that verifies.
THEOREM StaleBasisNeverVerifies ==
  Spec => [](Built /\ BasisMarked(dossier.artifacts) => ~Verifies(dossier))
<1>1. DossierInv /\ MarkedIsBehind
        => (Built /\ BasisMarked(dossier.artifacts) => ~Verifies(dossier))
  <2> SUFFICES ASSUME DossierInv, MarkedIsBehind, Built,
                      BasisMarked(dossier.artifacts), Verifies(dossier)
               PROVE  FALSE
    OBVIOUS
  <2>1. inventory = dossier.inventory
    BY DEF Built, DossierInv, DossierPinned
  <2>2. dossier.artifacts.objective # None /\ Behind(dossier.artifacts)
    BY DEF Built, MarkedIsBehind, Marked
  <2> QED
    BY <2>1, <2>2 DEF Behind, Verifies
<1> QED
  BY <1>1, AlwaysPinned, StaleInvariant, PTL

=============================================================================
