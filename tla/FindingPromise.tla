---------------------------- MODULE FindingPromise ----------------------------
(***************************************************************************)
(* What a finding promises, whatever the order in which the evidence of    *)
(* its remediations and retests arrives: its record moves forward in the   *)
(* time of the evidence.  0 stands for no evidence.                        *)
(***************************************************************************)
EXTENDS Naturals

CONSTANT Finding

VARIABLE record   \* of each finding: its status and the times of its evidence

Untouched == [status |-> "open", remediated |-> 0, retested |-> 0]

\* A later remediation re-opens the finding: no earlier verdict counts for it.
Remediated(old, new) ==
  /\ new.remediated > old.remediated
  /\ new.retested = 0
  /\ new.status = "remediation_submitted"

\* A later retest of the standing remediation decides; a retest that does not
\* count for what it claims blocks the resolution.
Retested(old, new) ==
  /\ old.remediated > 0 /\ old.status # "contradicted"
  /\ new.remediated = old.remediated
  /\ new.retested > old.retested
  /\ new.status \in {"closed", "retest_failed", "refused"}

\* Evidence of the same age that says something else.
Contradicted(old, new) ==
  /\ old.remediated > 0
  /\ new.remediated = old.remediated
  /\ \/ new.status = "contradicted" /\ new.retested = 0
     \/ new.status = "refused" /\ new.retested = old.retested /\ new.retested > 0

Init == record = [f \in Finding |-> Untouched]

Next ==
  \E f \in Finding :
    /\ record' = [record EXCEPT ![f] = record'[f]]
    /\ \/ Remediated(record[f], record'[f])
       \/ Retested(record[f], record'[f])
       \/ Contradicted(record[f], record'[f])

Spec == Init /\ [][Next]_record
=============================================================================
