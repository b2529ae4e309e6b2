--------------------------- MODULE ResilienceProofs ---------------------------
(***************************************************************************)
(* Proofs about Resilience, for any findings, persons and times, and any   *)
(* amount of evidence, from the lemmas of FindingProofs.                   *)
(***************************************************************************)
EXTENDS Resilience, FindingProofs

\* Evidence, plan and execution stay well formed, whatever callers do with the
\* creators of resilience.py.
THEOREM ResilienceTypeCorrect == Spec => []TypeOK
<1>1. Init => TypeOK
  BY ResilienceAssumption DEF Init, LifecycleInit, TypeOK, LifecycleTypeOK
<1>2. TypeOK /\ [Next]_vars => TypeOK'
  <2> SUFFICES ASSUME TypeOK, [Next]_vars PROVE TypeOK'
    OBVIOUS
  <2> USE DEF TypeOK, LifecycleTypeOK
  <2>1. CASE GrowInventory
    BY <2>1, ResilienceAssumption DEF GrowInventory, lifecycleVars
  <2>2. ASSUME NEW risk \in RiskDecision, NEW at \in PlanTime, BuildPlan(risk, at)
        PROVE  TypeOK'
    BY <2>2 DEF BuildPlan, lifecycleVars
  <2>3. ASSUME NEW risk \in RiskDecision, NEW outcome \in ExecutionOutcome,
               NEW at \in Time, RecordExecution(risk, outcome, at)
        PROVE  TypeOK'
    BY <2>3 DEF RecordExecution, lifecycleVars
  <2>4. CASE Lifecycle
    <3>1. UNCHANGED <<inventory, plan, execution>>
      BY <2>4 DEF Lifecycle
    <3>2. LifecycleTypeOK'
      <4>1. ASSUME NEW finding \in Finding, CreateFinding(finding, execution.at)
            PROVE  LifecycleTypeOK'
        BY <4>1 DEF CreateFinding
      <4>2. ASSUME NEW remediation \in Remediation, CreateRemediation(remediation)
            PROVE  LifecycleTypeOK'
        BY <4>2 DEF CreateRemediation
      <4>3. ASSUME NEW retest \in Retest,
                   CreateRetest(retest) \/ ConstructRetest(retest)
            PROVE  LifecycleTypeOK'
        BY <4>3 DEF CreateRetest, ConstructRetest
      <4>4. ASSUME NEW m \in remediations, NEW reviewer \in Person,
                   NEW at \in Time, NEW outcome \in Outcome
            PROVE  [remediation |-> m, reviewer |-> reviewer,
                    at |-> at, outcome |-> outcome] \in Retest
        BY DEF Retest
      <4> QED
        BY <2>4, <4>1, <4>2, <4>3, <4>4 DEF Lifecycle
    <3> QED
      BY <3>1, <3>2
  <2>5. CASE UNCHANGED vars
    BY <2>5 DEF vars
  <2> QED
    BY <2>1, <2>2, <2>3, <2>4, <2>5 DEF Next
<1> QED
  BY <1>1, <1>2, PTL DEF Spec

\* Whatever the order, the times and the origin of the evidence, a finding is
\* closed only by a passing retest of its latest remediation, given by somebody
\* who may (resolve_test, and resolve_continuity where OwnerMayRetest is FALSE).
THEOREM ClosureIsAlwaysIndependent == Spec => []ClosureIsIndependent
<1>1. TypeOK => ClosureIsIndependent
  BY ClosureByTypes DEF TypeOK
<1> QED
  BY <1>1, ResilienceTypeCorrect, PTL

\* Whatever part of the evidence resolve_test is given, it reports success only
\* for an execution that passed, with the findings announced, and every blocking
\* finding retested by the configured reviewer.
THEOREM SuccessIsAlwaysEarned == Spec => []SuccessIsEarned
<1>1. TypeOK => SuccessIsEarned
  <2> SUFFICES
        ASSUME TypeOK, execution # None,
               NEW F \in SUBSET findings, NEW M \in SUBSET remediations,
               NEW T \in SUBSET {r \in retests : r.remediation \in M},
               Resolve(F, M, T) \in {"successful", "successful_with_findings"}
        PROVE  /\ execution.outcome \in {"passed", "passed_with_findings"}
               /\ execution.outcome = "passed_with_findings" => F # {}
               /\ \A f \in F : f.blocking =>
                    \E r \in T :
                      /\ r.outcome = "passed" /\ r.remediation.finding = f
                      /\ Reviewer # None => r.reviewer = Reviewer
                      /\ \A m \in M : m.finding = f /\ m # r.remediation
                                       => m.at < r.remediation.at
    BY DEF SuccessIsEarned
  <2>1. execution.outcome \in ExecutionOutcome
    BY DEF TypeOK
  <2>2. /\ ~(execution.outcome = "passed_with_findings" /\ F = {})
        /\ execution.outcome # "incomplete"
        /\ execution.outcome # "failed"
        /\ ~\E f \in Unresolved(F, M, T) : f.blocking
    BY DEF Resolve
  <2>3. ASSUME NEW f \in F, f.blocking
        PROVE  \E r \in T :
                 /\ r.outcome = "passed" /\ r.remediation.finding = f
                 /\ Reviewer # None => r.reviewer = Reviewer
                 /\ \A m \in M : m.finding = f /\ m # r.remediation
                                  => m.at < r.remediation.at
    <3>1. Status(f, M, T) = "closed"
      BY <2>2, <2>3 DEF Unresolved
    <3>2. M \in SUBSET Remediation /\ T \in SUBSET Retest
      BY DEF TypeOK, LifecycleTypeOK
    <3> QED
      BY <3>1, <3>2, ClosedByOneVerdict DEF Independent
  <2> QED
    BY <2>1, <2>2, <2>3 DEF ExecutionOutcome
<1> QED
  BY <1>1, ResilienceTypeCorrect, PTL

-----------------------------------------------------------------------------

\* Every step of resilience.py adds one piece of evidence, or none.
LEMMA StepAddsOnePiece ==
  ASSUME PiecewiseInv, [Next]_vars
  PROVE  OnePieceMore
<1>1. CASE GrowInventory
  BY <1>1 DEF GrowInventory, lifecycleVars, OnePieceMore
<1>2. CASE \E risk \in RiskDecision, at \in PlanTime : BuildPlan(risk, at)
  BY <1>2 DEF BuildPlan, lifecycleVars, OnePieceMore
<1>3. CASE \E risk \in RiskDecision, outcome \in ExecutionOutcome, at \in Time :
             RecordExecution(risk, outcome, at)
  BY <1>3 DEF RecordExecution, lifecycleVars, OnePieceMore
<1>4. CASE Lifecycle
  <2>1. ASSUME NEW finding \in Finding, CreateFinding(finding, execution.at)
        PROVE  OnePieceMore
    BY <2>1 DEF CreateFinding, OnePieceMore
  <2>2. remediations \in SUBSET Remediation
    BY DEF PiecewiseInv
  <2> QED
    BY <1>4, <2>1, <2>2, RemediationIsOnePiece, RetestIsOnePiece DEF Lifecycle
<1>5. CASE UNCHANGED vars
  BY <1>5 DEF vars, OnePieceMore
<1> QED
  BY <1>1, <1>2, <1>3, <1>4, <1>5 DEF Next

\* Whatever order evidence arrives in, however it is back-dated, and whether or not
\* a retest came through create_retest, the resolvers (resolve_test) move a
\* finding forward only: later evidence re-opens or decides it, and evidence of
\* the same age blocks it.
THEOREM FindingsAlwaysKeepThePromise == Spec => FindingsKeepThePromise
<1>1. Init => PiecewiseInv /\ Promise!Init
  BY NothingIsPiecewise, NothingIsUntouched DEF Init, LifecycleInit
<1>2. PiecewiseInv /\ [Next]_vars => PiecewiseInv'
  BY StepAddsOnePiece, OnePieceKeepsInv
<1>3. PiecewiseInv /\ [Next]_vars
        => [Promise!Next]_([f \in Finding |-> Record(f)])
  BY StepAddsOnePiece, OnePieceKeepsThePromise
<1> QED
  BY <1>1, <1>2, <1>3, PTL DEF Spec, FindingsKeepThePromise, Promise!Spec

=============================================================================
