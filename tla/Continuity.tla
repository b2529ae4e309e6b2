------------------------------ MODULE Continuity ------------------------------
(***************************************************************************)
(* Continuity exercises (src/src/doraops/continuity.py and                 *)
(* continuity_strict.py): one recovery objective, one plan, one execution, *)
(* the observations of the recovery, the assessments made from them and    *)
(* the findings bound to an assessment.  A basis is the digest of one      *)
(* assessment: assessments are made whenever a caller asks, and may differ *)
(* because observations arrive late.                                       *)
(***************************************************************************)
EXTENDS FindingLifecycle

CONSTANTS
  ObservationId,   \* observation_id values
  Measurement,     \* what an observation can have measured
  Mtd, Rto,        \* maximum tolerable disruption, recovery time objective
  Rpo, MinLevel,   \* recovery point objective, minimum service level
  MaxObservations, \* bound on the observations
  MaxInventory     \* bound on the growth of the inventory

Observation == [id : ObservationId, measured : Measurement, at : Time]

ASSUME ContinuityAssumption ==
  /\ Mtd \in Nat /\ Rto \in 1..Mtd /\ Rpo \in Nat /\ MinLevel \in Nat \ {0}
  /\ Measurement \subseteq [restoration : Nat \cup {None},
                            loss        : Nat \cup {None},
                            level       : Nat \cup {None}]
  /\ MaxObservations \in Nat /\ MaxInventory \in Nat
  /\ None \notin Observation
  /\ ~OwnerMayRetest      \* of a blocking finding, in continuity.py

VARIABLES
  inventory,     \* the live inventory digest
  objective,     \* the inventory digest the objective pins, None before it
  plan,          \* the inventory digest the plan pins, None before it
  execution,     \* the start and end of the exercise, None before it
  observations,  \* the recovery observations recorded so far
  assessments    \* by basis, None before it is made

recoveryVars == <<objective, plan, execution, observations, assessments>>

continuityVars == <<lifecycleVars, inventory, recoveryVars>>

AssessmentState == {"met", "breached", "incomplete"}

\* `seen` is the observation an assessment rests on, None when there was none.
Assessment ==
  [at : Time, seen : Observation \cup {None}, state : AssessmentState]

ContinuityTypeOK ==
  /\ LifecycleTypeOK
  /\ inventory \in 0..MaxInventory
  /\ objective \in 0..MaxInventory \cup {None}
  /\ plan \in 0..MaxInventory \cup {None}
  /\ execution \in [started : Time, completed : Time] \cup {None}
  /\ observations \subseteq Observation
  /\ assessments \in [Basis -> Assessment \cup {None}]

ContinuityInit ==
  /\ LifecycleInit
  /\ inventory = 0
  /\ objective = None
  /\ plan = None
  /\ execution = None
  /\ observations = {}
  /\ assessments = [b \in Basis |-> None]

-----------------------------------------------------------------------------

\* Any registration in InventoryRegistry that stores a new record.
GrowInventory ==
  /\ inventory < MaxInventory
  /\ inventory' = inventory + 1
  /\ UNCHANGED <<lifecycleVars, recoveryVars>>

\* build_recovery_objective
BuildObjective ==
  /\ objective = None
  /\ objective' = inventory
  /\ UNCHANGED <<lifecycleVars, inventory, plan, execution, observations,
                 assessments>>

\* assert_recovery_objective_current
ObjectiveCurrent == objective = inventory

\* build_continuity_exercise_plan
BuildPlan ==
  /\ objective # None /\ plan = None
  /\ ObjectiveCurrent
  /\ plan' = objective
  /\ UNCHANGED <<lifecycleVars, inventory, objective, execution, observations,
                 assessments>>

\* assert_continuity_plan_current
PlanCurrent == ObjectiveCurrent /\ plan = inventory

\* record_continuity_execution; the exercise is planned before the first time.
RecordExecution(started, completed) ==
  /\ plan # None /\ execution = None
  /\ PlanCurrent
  /\ started <= completed
  /\ execution' = [started |-> started, completed |-> completed]
  /\ UNCHANGED <<lifecycleVars, inventory, objective, plan, observations,
                 assessments>>

\* record_recovery_observation: neither the topology nor the end of the exercise
\* matters to it, and nobody keeps the identities apart.
RecordObservation(observation) ==
  /\ execution # None
  /\ Cardinality(observations) < MaxObservations
  /\ observation.at >= execution.started
  /\ observations' = observations \cup {observation}
  /\ UNCHANGED <<lifecycleVars, inventory, objective, plan, execution,
                 assessments>>

\* _metric: the state of one of the four metrics.
AtMost(value, threshold) ==
  IF value = None THEN "incomplete"
  ELSE IF value <= threshold THEN "met" ELSE "breached"

AtLeast(value, threshold) ==
  IF value = None THEN "incomplete"
  ELSE IF value >= threshold THEN "met" ELSE "breached"

Nothing == [restoration |-> None, loss |-> None, level |-> None]

Metrics(measured) ==
  {AtMost(measured.restoration, Mtd), AtMost(measured.restoration, Rto),
   AtMost(measured.loss, Rpo), AtLeast(measured.level, MinLevel)}

\* Mutant: metrics nobody measured are left out of the aggregate.
AggregateOfMeasured(states) ==
  IF "breached" \in states THEN "breached" ELSE "met"

Aggregate(states) ==
  IF "incomplete" \in states THEN "incomplete"
  ELSE IF "breached" \in states THEN "breached" ELSE "met"

\* What assess_continuity_recovery makes of the observations supplied, at most
\* one of which is the latest.
AssessmentOf(supplied, at) ==
  LET seen == IF supplied = {} THEN None
              ELSE CHOOSE o \in supplied : o \in Latest(supplied)
  IN  [at    |-> at,
       seen  |-> seen,
       state |-> Aggregate(Metrics(IF seen = None THEN Nothing
                                   ELSE seen.measured))]

\* Where assess_continuity_recovery does not raise.
MayAssess(supplied, at) ==
  /\ execution # None /\ PlanCurrent
  /\ at >= execution.completed
  /\ \A o \in supplied : execution.started <= o.at /\ o.at <= at
  /\ ~Conflicting(Latest(supplied))

Assess(basis, supplied, at) ==
  /\ assessments[basis] = None
  /\ MayAssess(supplied, at)
  /\ \A other \in Basis : assessments[other] # AssessmentOf(supplied, at)
  /\ assessments' = [assessments EXCEPT ![basis] = AssessmentOf(supplied, at)]
  /\ UNCHANGED <<lifecycleVars, inventory, objective, plan, execution,
                 observations>>

\* create_continuity_finding
RaiseFinding(finding) ==
  /\ assessments[finding.of] # None
  /\ assessments[finding.of].state # "met"
  /\ CreateFinding(finding, assessments[finding.of].at)
  /\ UNCHANGED <<inventory, recoveryVars>>

Lifecycle ==
  /\ \/ \E remediation \in Remediation : CreateRemediation(remediation)
     \/ \E m \in remediations, reviewer \in Person, at \in Time, outcome \in Outcome :
          LET retest == [remediation |-> m, reviewer |-> reviewer,
                         at |-> at, outcome |-> outcome]
          IN  CreateRetest(retest) \/ ConstructRetest(retest)
  /\ UNCHANGED <<inventory, recoveryVars>>

ContinuityNext ==
  \/ GrowInventory
  \/ BuildObjective
  \/ BuildPlan
  \/ \E started, completed \in Time : RecordExecution(started, completed)
  \/ \E observation \in Observation : RecordObservation(observation)
  \/ \E basis \in Basis, supplied \in SUBSET observations, at \in Time :
       Assess(basis, supplied, at)
  \/ \E finding \in Finding : RaiseFinding(finding)
  \/ Lifecycle

-----------------------------------------------------------------------------

\* resolve_continuity of the strict module: the state it reports, or "refused"
\* when it raises.  Without findings it returns before it looks at the evidence.
Resolve(basis, F, M, T) ==
  LET state   == assessments[basis].state
      refused == \/ state = "met" /\ F # {}
                 \/ \E f, g \in F : f.id = g.id /\ f # g
                 \/ \E f \in F : f.of # basis
                 \/ /\ state = "met" \/ F # {}
                    /\ \/ ~Coherent(F, M, T)
                       \/ \E f \in F : Status(f, M, T) = "refused"
  IN  IF refused THEN "refused"
      ELSE IF state = "incomplete" /\ (F = {} \/ Unresolved(F, M, T) # {})
           THEN "incomplete"
      ELSE IF state # "met" /\ (F = {} \/ Unresolved(F, M, T) # {})
           THEN "blocked"
      ELSE IF F # {} THEN "successful_with_findings"
      ELSE "successful"
=============================================================================
