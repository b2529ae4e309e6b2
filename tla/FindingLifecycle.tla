--------------------------- MODULE FindingLifecycle ---------------------------
(***************************************************************************)
(* Findings, remediations and retests, as resilience.py and continuity.py  *)
(* treat them.  No registry holds this evidence: callers keep immutable    *)
(* artifacts, may obtain them in any order, and hand them to a resolver    *)
(* that selects by the timestamps the artifacts carry.                     *)
(*                                                                         *)
(* The two sources differ in one rule only: continuity.py bars the owner   *)
(* of a remediation from passing its retest when the finding is blocking   *)
(* (OwnerMayRetest).  What a finding is bound to, an execution or an       *)
(* assessment, is a Basis.                                                 *)
(***************************************************************************)
EXTENDS Naturals, FiniteSets

CONSTANTS
  Basis,            \* digests a finding can be bound to
  FindingId,        \* finding_id values
  Person,           \* owners of remediations and reviewers of retests
  Reviewer,         \* independent_reviewer_id of the plan, or None
  OwnerMayRetest,   \* TRUE in resilience.py, FALSE in continuity.py
  Time,             \* the timestamps evidence can carry
  MaxFindings, MaxRemediations, MaxRetests,   \* bounds on the evidence
  None

ASSUME FindingLifecycleAssumption ==
  /\ Time \subseteq Nat
  /\ OwnerMayRetest \in BOOLEAN
  /\ Reviewer \in Person \cup {None} /\ None \notin Person

VARIABLES
  findings,      \* the findings created so far
  remediations,  \* the remediation evidence created so far
  retests        \* the retest evidence created or received so far

lifecycleVars == <<findings, remediations, retests>>

Finding == [of : Basis, id : FindingId, blocking : BOOLEAN, at : Time]

Remediation == [finding : Finding, owner : Person, at : Time]

Outcome == {"passed", "failed"}

Retest ==
  [remediation : Remediation, reviewer : Person, at : Time, outcome : Outcome]

LifecycleTypeOK ==
  /\ findings \subseteq Finding
  /\ remediations \subseteq Remediation
  /\ retests \subseteq Retest

LifecycleInit ==
  /\ findings = {}
  /\ remediations = {}
  /\ retests = {}

-----------------------------------------------------------------------------

\* create_finding, create_continuity_finding; `since` is the time of the basis.
CreateFinding(finding, since) ==
  /\ Cardinality(findings) < MaxFindings
  /\ finding.at >= since
  /\ findings' = findings \cup {finding}
  /\ UNCHANGED <<remediations, retests>>

\* create_remediation, create_continuity_remediation
CreateRemediation(remediation) ==
  /\ Cardinality(remediations) < MaxRemediations
  /\ remediation.finding \in findings
  /\ remediation.at >= remediation.finding.at
  /\ remediations' = remediations \cup {remediation}
  /\ UNCHANGED <<findings, retests>>

\* Who may pass a retest.
Independent(retest) ==
  /\ Reviewer # None => retest.reviewer = Reviewer
  /\ retest.remediation.finding.blocking /\ ~OwnerMayRetest =>
       retest.reviewer # retest.remediation.owner

\* create_retest, create_continuity_retest
CreateRetest(retest) ==
  /\ Cardinality(retests) < MaxRetests
  /\ retest.remediation \in remediations
  /\ retest.at >= retest.remediation.at
  /\ retest.outcome = "passed" => Independent(retest)
  /\ retests' = retests \cup {retest}
  /\ UNCHANGED <<findings, remediations>>

\* A retest built by its constructor alone, which checks shapes only.
ConstructRetest(retest) ==
  /\ Cardinality(retests) < MaxRetests
  /\ retest.remediation \in remediations
  /\ retests' = retests \cup {retest}
  /\ UNCHANGED <<findings, remediations>>

-----------------------------------------------------------------------------

\* _latest_unique: the evidence with the highest timestamp.  Two artifacts with
\* that timestamp are in conflict, and the resolver raises.
Latest(evidence) ==
  {e \in evidence : \A other \in evidence : other.at <= e.at}

Conflicting(evidence) == \E a, b \in evidence : a # b

Standing(finding, supplied) ==
  Latest({m \in supplied : m.finding = finding})

\* Mutant: a verdict on any remediation of the finding counts.
VerdictsOnAny(finding, suppliedRemediations, suppliedRetests) ==
  Latest({r \in suppliedRetests : r.remediation.finding = finding})

\* The retests that count: of the standing remediation, not of an earlier one.
Verdicts(finding, suppliedRemediations, suppliedRetests) ==
  Latest({r \in suppliedRetests :
            r.remediation \in Standing(finding, suppliedRemediations)})

\* Mutant: the resolver trusts that its retests came through create_retest.
RefusedTrusting(finding, M, T) ==
  \/ Conflicting(Standing(finding, M))
  \/ Conflicting(Verdicts(finding, M, T))

\* Where the loop over the findings raises: contradictory latest evidence, or a
\* passing verdict of somebody who may not give it.
Refused(finding, M, T) ==
  \/ Conflicting(Standing(finding, M))
  \/ Conflicting(Verdicts(finding, M, T))
  \/ \E r \in Verdicts(finding, M, T) : r.outcome = "passed" /\ ~Independent(r)

\* The status the loop gives a finding, from remediations M and retests T.
Status(finding, M, T) ==
  LET verdicts == Verdicts(finding, M, T)
  IN  IF Refused(finding, M, T)                  THEN "refused"
      ELSE IF Standing(finding, M) = {}          THEN "open"
      ELSE IF verdicts = {}                      THEN "remediation_submitted"
      ELSE IF \E r \in verdicts : r.outcome = "passed" THEN "closed"
      ELSE "retest_failed"

\* The checks the resolvers make of the evidence as a whole, before the loop.
Coherent(F, M, T) ==
  /\ \A f, g \in F : f.id = g.id => f = g
  /\ \A m \in M : m.finding \in F
  /\ \A r \in T : r.remediation \in M

Unresolved(F, M, T) == {f \in F : Status(f, M, T) # "closed"}

-----------------------------------------------------------------------------

\* The time of the latest evidence, moved by one so that 0 means none.
Stamp(latest) ==
  IF latest = {} THEN 0 ELSE 1 + CHOOSE t \in Time : \E e \in latest : e.at = t

\* What all the evidence there is says of a finding, and how recent that
\* evidence is.
Record(finding) ==
  LET standing == Standing(finding, remediations)
  IN  [status     |-> IF Conflicting(standing) THEN "contradicted"
                      ELSE Status(finding, remediations, retests),
       remediated |-> Stamp(standing),
       retested   |-> IF Conflicting(standing) THEN 0
                      ELSE Stamp(Verdicts(finding, remediations, retests))]

Promise == INSTANCE FindingPromise WITH record <- [f \in Finding |-> Record(f)]

\* Whatever order evidence arrives in, and however it is back-dated, each finding
\* moves as FindingPromise says: only later evidence re-opens or closes it, a
\* tie is refused and not broken (_latest_unique and the resolvers).
FindingsKeepThePromise == Promise!Spec

\* A finding is only ever closed by a passing retest of its latest remediation,
\* given by somebody who may give it, even if the retest did not come through
\* create_retest; and nothing of the same age contradicts it.
ClosureIsIndependent ==
  \A finding \in findings :
    Status(finding, remediations, retests) = "closed" =>
      \E r \in retests :
        /\ r.outcome = "passed" /\ r.remediation.finding = finding
        /\ Reviewer # None => r.reviewer = Reviewer
        /\ finding.blocking /\ ~OwnerMayRetest =>
             r.reviewer # r.remediation.owner
        /\ \A m \in remediations :
             m.finding = finding /\ m # r.remediation => m.at < r.remediation.at
        /\ \A other \in retests :
             other.remediation = r.remediation /\ other # r => other.at < r.at
=============================================================================
