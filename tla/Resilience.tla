------------------------------ MODULE Resilience ------------------------------
(***************************************************************************)
(* Resilience tests (src/src/doraops/resilience.py): one plan, one         *)
(* execution of it, and the findings bound to that execution, whose        *)
(* lifecycle is FindingLifecycle.  As in Incidents the inventory is a      *)
(* counter, and a record stands for its digest.                            *)
(***************************************************************************)
EXTENDS FindingLifecycle

CONSTANTS
  RiskContent,    \* what distinguishes two decisions on the same inventory
  PlanTime,       \* planned_at values
  MaxInventory    \* bound on the growth of the inventory

ASSUME ResilienceAssumption == PlanTime \subseteq Nat /\ MaxInventory \in Nat

VARIABLES
  inventory,   \* the live inventory digest
  plan,        \* the test plan, None before it is built
  execution    \* its execution, None before it is recorded

vars == <<findings, remediations, retests, inventory, plan, execution>>

RiskDecision == [inventory : 0..MaxInventory, content : RiskContent]

ExecutionOutcome == {"passed", "passed_with_findings", "failed", "incomplete"}

TypeOK ==
  /\ LifecycleTypeOK
  /\ inventory \in 0..MaxInventory
  /\ plan \in [inventory : 0..MaxInventory, risk : RiskDecision, at : PlanTime]
            \cup {None}
  /\ execution \in [outcome : ExecutionOutcome, at : Time] \cup {None}

Init ==
  /\ LifecycleInit
  /\ inventory = 0
  /\ plan = None
  /\ execution = None

\* Any registration in InventoryRegistry that stores a new record.  Nothing here
\* reads the inventory after the execution, so its growth stops there.
GrowInventory ==
  /\ inventory < MaxInventory /\ execution = None
  /\ inventory' = inventory + 1
  /\ UNCHANGED <<lifecycleVars, plan, execution>>

\* build_resilience_test_plan, with the risk decision the caller supplies.
BuildPlan(risk, at) ==
  /\ plan = None
  /\ risk.inventory = inventory
  /\ plan' = [inventory |-> inventory, risk |-> risk, at |-> at]
  /\ UNCHANGED <<lifecycleVars, inventory, execution>>

\* assert_test_plan_current, for the decision the caller supplies.
PlanCurrent(risk) ==
  /\ plan.inventory = inventory
  /\ risk.inventory = inventory
  /\ plan.risk = risk

\* Mutant: the outcome is not taken over.
RecordExecutionUnset(risk, outcome, at) ==
  /\ plan # None /\ execution = None
  /\ PlanCurrent(risk)
  /\ at >= plan.at
  /\ execution' = [outcome |-> None, at |-> at]
  /\ UNCHANGED <<lifecycleVars, inventory, plan>>

\* record_test_execution
RecordExecution(risk, outcome, at) ==
  /\ plan # None /\ execution = None
  /\ PlanCurrent(risk)
  /\ at >= plan.at
  /\ execution' = [outcome |-> outcome, at |-> at]
  /\ UNCHANGED <<lifecycleVars, inventory, plan>>

\* Evidence of a finding may follow the execution, whatever happened to the
\* inventory since.
Lifecycle ==
  /\ execution # None
  /\ \/ \E finding \in Finding : CreateFinding(finding, execution.at)
     \/ \E remediation \in Remediation : CreateRemediation(remediation)
     \/ \E m \in remediations, reviewer \in Person, at \in Time, outcome \in Outcome :
          LET retest == [remediation |-> m, reviewer |-> reviewer,
                         at |-> at, outcome |-> outcome]
          IN  CreateRetest(retest) \/ ConstructRetest(retest)
  /\ UNCHANGED <<inventory, plan, execution>>

Next ==
  \/ GrowInventory
  \/ \E risk \in RiskDecision, at \in PlanTime : BuildPlan(risk, at)
  \/ \E risk \in RiskDecision, outcome \in ExecutionOutcome, at \in Time :
       RecordExecution(risk, outcome, at)
  \/ Lifecycle

Spec == Init /\ [][Next]_vars

-----------------------------------------------------------------------------

\* Mutant: only open findings block, not those that wait for a retest.
ResolveOpenOnly(F, M, T) ==
  LET refused ==
        \/ execution.outcome = "passed_with_findings" /\ F = {}
        \/ ~Coherent(F, M, T)
        \/ \E f \in F : Status(f, M, T) = "refused"
      blocked ==
        \/ execution.outcome = "failed"
        \/ \E f \in F : f.blocking /\ Status(f, M, T) = "open"
  IN  IF refused                               THEN "refused"
      ELSE IF execution.outcome = "incomplete" THEN "incomplete"
      ELSE IF blocked                          THEN "blocked"
      ELSE IF F # {}                           THEN "successful_with_findings"
      ELSE "successful"

\* resolve_test: the state it reports, or "refused" when it raises.
Resolve(F, M, T) ==
  LET refused ==
        \/ execution.outcome = "passed_with_findings" /\ F = {}
        \/ ~Coherent(F, M, T)
        \/ \E f \in F : Status(f, M, T) = "refused"
      blocked ==
        \/ execution.outcome = "failed"
        \/ \E f \in Unresolved(F, M, T) : f.blocking
  IN  IF refused                               THEN "refused"
      ELSE IF execution.outcome = "incomplete" THEN "incomplete"
      ELSE IF blocked                          THEN "blocked"
      ELSE IF F # {}                           THEN "successful_with_findings"
      ELSE "successful"

\* Whatever part of the evidence a caller hands to resolve_test, it reports
\* success only for a passed execution, with the findings that such an outcome
\* announces, and with a passing retest, by the configured reviewer, of the
\* latest remediation of every blocking finding in it.
SuccessIsEarned ==
  execution # None =>
    \A F \in SUBSET findings, M \in SUBSET remediations :
    \A T \in SUBSET {r \in retests : r.remediation \in M} :
      Resolve(F, M, T) \in {"successful", "successful_with_findings"} =>
        /\ execution.outcome \in {"passed", "passed_with_findings"}
        /\ execution.outcome = "passed_with_findings" => F # {}
        /\ \A f \in F : f.blocking =>
             \E r \in T :
               /\ r.outcome = "passed" /\ r.remediation.finding = f
               /\ Reviewer # None => r.reviewer = Reviewer
               /\ \A m \in M : m.finding = f /\ m # r.remediation
                                => m.at < r.remediation.at
=============================================================================
