----------------------------- MODULE FindingProofs -----------------------------
(***************************************************************************)
(* Lemmas about FindingLifecycle, for any findings, persons and times, and *)
(* any amount of evidence; ResilienceProofs and ContinuityProofs apply     *)
(* them to the two sources that use the lifecycle.                         *)
(*                                                                         *)
(* What is closed rests on one fact about the resolvers,                   *)
(* ClosedByOneVerdict: what they call closed, from whatever evidence they  *)
(* are given, was closed by the one latest retest of the one latest        *)
(* remediation.  That findings keep their promise rests on what one more   *)
(* piece of evidence can do to the latest of a set (LatestMoves), applied  *)
(* first to the remediations and then to the retests of the one standing.  *)
(***************************************************************************)
EXTENDS FindingLifecycle, TLAPS

\* The latest of a set of evidence is later than all the rest of it, when nothing
\* of its age contradicts it (_latest_unique).
LEMMA LatestPrecedes ==
  ASSUME NEW evidence, \A e \in evidence : e.at \in Nat,
         ~Conflicting(Latest(evidence)),
         NEW last \in Latest(evidence), NEW other \in evidence, other # last
  PROVE  other.at < last.at
<1>1. last \in evidence /\ \A e \in evidence : e.at <= last.at
  BY DEF Latest
<1>2. other \notin Latest(evidence)
  BY DEF Conflicting
<1>3. PICK e \in evidence : ~(e.at <= other.at)
  BY <1>2 DEF Latest
<1> QED
  BY <1>1, <1>3

\* A finding counts as closed only if one retest passed it that may, of the one
\* remediation later than all others, and later than all other retests of it.
LEMMA ClosedByOneVerdict ==
  ASSUME NEW M \in SUBSET Remediation, NEW T \in SUBSET Retest, NEW finding,
         Status(finding, M, T) = "closed"
  PROVE  \E r \in T :
           /\ r.outcome = "passed" /\ r.remediation.finding = finding
           /\ Independent(r)
           /\ r.remediation \in M
           /\ \A m \in M :
                m.finding = finding /\ m # r.remediation
                  => m.at < r.remediation.at
           /\ \A other \in T :
                other.remediation = r.remediation /\ other # r => other.at < r.at
<1> DEFINE Mine == {m \in M : m.finding = finding}
           Counting == {r \in T : r.remediation \in Standing(finding, M)}
<1>1. /\ ~Refused(finding, M, T)
      /\ \E r \in Verdicts(finding, M, T) : r.outcome = "passed"
  BY DEF Status
<1>2. PICK r \in Verdicts(finding, M, T) : r.outcome = "passed"
  BY <1>1
<1>3. /\ ~Conflicting(Latest(Mine))
      /\ ~Conflicting(Latest(Counting))
      /\ Independent(r)
  BY <1>1, <1>2 DEF Refused, Standing, Verdicts
<1>4. r \in T /\ r \in Latest(Counting) /\ r.remediation \in Latest(Mine)
  BY <1>2 DEF Verdicts, Standing, Latest
<1>5. r.remediation \in Mine
  BY <1>4 DEF Latest
<1>6. /\ \A m \in Mine : m.at \in Nat
      /\ \A other \in Counting : other.at \in Nat
  BY FindingLifecycleAssumption DEF Remediation, Retest
<1>7. ASSUME NEW m \in M, m.finding = finding, m # r.remediation
      PROVE  m.at < r.remediation.at
  BY <1>3, <1>4, <1>6, <1>7, LatestPrecedes
<1>8. ASSUME NEW other \in T, other.remediation = r.remediation, other # r
      PROVE  other.at < r.at
  <2>1. other \in Counting
    BY <1>4, <1>8 DEF Standing
  <2> QED
    BY <1>3, <1>4, <1>6, <1>8, <2>1, LatestPrecedes
<1> QED
  BY <1>2, <1>3, <1>4, <1>5, <1>7, <1>8

-----------------------------------------------------------------------------

\* Evidence is finite because it arrives piece by piece: any part of it has a
\* latest piece, as max in _latest_unique needs.
HasLatest(evidence) == \A part \in SUBSET evidence : part # {} => Latest(part) # {}

LEMMA MoreHasLatest ==
  ASSUME NEW evidence, NEW x, x.at \in Nat, \A e \in evidence : e.at \in Nat,
         HasLatest(evidence)
  PROVE  HasLatest(evidence \cup {x})
<1> SUFFICES ASSUME NEW part \in SUBSET (evidence \cup {x}), part # {}
             PROVE  Latest(part) # {}
  BY DEF HasLatest
<1> DEFINE rest == part \ {x}
<1>1. CASE x \notin part
  <2>1. part \in SUBSET evidence
    BY <1>1
  <2> QED
    BY <2>1 DEF HasLatest
<1>2. CASE x \in part /\ rest = {}
  <2>1. \A e \in part : e = x
    BY <1>2
  <2>2. x \in Latest(part)
    BY <1>2, <2>1 DEF Latest
  <2> QED
    BY <2>2
<1>3. CASE x \in part /\ rest # {}
  <2>1. rest \in SUBSET evidence
    OBVIOUS
  <2>2. PICK last \in Latest(rest) : TRUE
    BY <1>3, <2>1 DEF HasLatest
  <2>3. last \in rest /\ \A e \in rest : e.at <= last.at
    BY <2>2 DEF Latest
  <2>4. last.at \in Nat
    BY <2>1, <2>3
  <2>5. CASE x.at <= last.at
    <3>1. last \in Latest(part)
      BY <2>3, <2>5 DEF Latest
    <3> QED
      BY <3>1
  <2>6. CASE last.at < x.at
    <3>1. \A e \in rest : e.at <= x.at
      BY <2>1, <2>3, <2>4, <2>6
    <3>2. x \in Latest(part)
      BY <1>3, <3>1 DEF Latest
    <3> QED
      BY <3>2
  <2> QED
    BY <2>4, <2>5, <2>6
<1> QED
  BY <1>1, <1>2, <1>3

\* One more piece of evidence is later than all the rest, of the age of the
\* latest, or makes no difference.
LEMMA LatestMoves ==
  ASSUME NEW evidence, NEW x, x.at \in Nat, \A e \in evidence : e.at \in Nat,
         HasLatest(evidence), x \notin evidence
  PROVE  \/ /\ Latest(evidence \cup {x}) = {x}
            /\ \A e \in evidence : e.at < x.at
         \/ /\ Latest(evidence \cup {x}) = Latest(evidence) \cup {x}
            /\ Latest(evidence) # {}
            /\ \A e \in Latest(evidence) : e.at = x.at
         \/ Latest(evidence \cup {x}) = Latest(evidence)
<1>1. CASE evidence = {}
  <2>1. evidence \cup {x} = {x}
    BY <1>1
  <2>2. Latest({x}) = {x}
    BY DEF Latest
  <2> QED
    BY <1>1, <2>1, <2>2
<1>2. CASE evidence # {}
  <2>1. PICK last \in Latest(evidence) : TRUE
    BY <1>2 DEF HasLatest
  <2>2. last \in evidence /\ \A e \in evidence : e.at <= last.at
    BY <2>1 DEF Latest
  <2>3. last.at \in Nat
    BY <2>2
  <2>4. \A e \in Latest(evidence) : e.at = last.at
    BY <2>2, <2>3 DEF Latest
  <2>5. CASE last.at < x.at
    <3>1. \A e \in evidence : e.at < x.at
      BY <2>2, <2>3, <2>5
    <3>2. Latest(evidence \cup {x}) = {x}
      BY <3>1 DEF Latest
    <3> QED
      BY <3>1, <3>2
  <2>6. CASE last.at = x.at
    <3>1. Latest(evidence \cup {x}) = Latest(evidence) \cup {x}
      BY <2>2, <2>3, <2>6 DEF Latest
    <3> QED
      BY <2>1, <2>4, <2>6, <3>1
  <2>7. CASE x.at < last.at
    <3>1. Latest(evidence \cup {x}) = Latest(evidence)
      BY <2>2, <2>3, <2>7 DEF Latest
    <3> QED
      BY <3>1
  <2> QED
    BY <2>3, <2>5, <2>6, <2>7
<1> QED
  BY <1>1, <1>2

\* The stamp of a set of evidence of one age.
LEMMA StampIsTheAge ==
  ASSUME NEW latest, NEW age \in Time, latest # {}, \A e \in latest : e.at = age
  PROVE  Stamp(latest) = 1 + age
<1>1. \E e \in latest : e.at = age
  OBVIOUS
<1>2. \A t \in Time : (\E e \in latest : e.at = t) => t = age
  OBVIOUS
<1>3. (CHOOSE t \in Time : \E e \in latest : e.at = t) = age
  BY <1>1, <1>2
<1> QED
  BY <1>3 DEF Stamp

LEMMA StampOfLatest ==
  ASSUME NEW evidence, \A e \in evidence : e.at \in Time, Latest(evidence) # {}
  PROVE  \E last \in evidence :
           /\ \A e \in Latest(evidence) : e.at = last.at
           /\ Stamp(Latest(evidence)) = 1 + last.at
<1>1. PICK last \in Latest(evidence) : TRUE
  OBVIOUS
<1>2. last \in evidence /\ \A e \in evidence : e.at <= last.at
  BY <1>1 DEF Latest
<1>3. \A e \in Latest(evidence) : e \in evidence /\ last.at <= e.at
  BY <1>2 DEF Latest
<1>4. \A e \in evidence : e.at \in Nat
  BY FindingLifecycleAssumption
<1>5. \A e \in Latest(evidence) : e.at = last.at
  BY <1>2, <1>3, <1>4
<1>6. Stamp(Latest(evidence)) = 1 + last.at
  BY <1>2, <1>5, StampIsTheAge
<1> QED
  BY <1>2, <1>5, <1>6

-----------------------------------------------------------------------------

\* Record, of any evidence.
RecordOf(finding, M, T) ==
  LET standing == Standing(finding, M)
  IN  [status     |-> IF Conflicting(standing) THEN "contradicted"
                      ELSE Status(finding, M, T),
       remediated |-> Stamp(standing),
       retested   |-> IF Conflicting(standing) THEN 0
                      ELSE Stamp(Verdicts(finding, M, T))]

\* What a step may do to the record of a finding.
Moved(old, new) ==
  \/ Promise!Remediated(old, new)
  \/ Promise!Retested(old, new)
  \/ Promise!Contradicted(old, new)

LEMMA EvidenceHasTimes ==
  ASSUME NEW M \in SUBSET Remediation, NEW T \in SUBSET Retest
  PROVE  /\ \A m \in M : m.at \in Time /\ m.at \in Nat
         /\ \A r \in T : r.at \in Time /\ r.at \in Nat
BY FindingLifecycleAssumption DEF Remediation, Retest

\* The evidence of one finding says nothing of another.
LEMMA OthersUnmoved ==
  ASSUME NEW M, NEW T, NEW finding,
         NEW N, NEW U,
         {m \in N : m.finding = finding} = {m \in M : m.finding = finding},
         \A r \in (U \ T) \cup (T \ U) : r.remediation \notin Standing(finding, M)
  PROVE  RecordOf(finding, N, U) = RecordOf(finding, M, T)
<1>1. Standing(finding, N) = Standing(finding, M)
  BY DEF Standing
<1>2. {r \in U : r.remediation \in Standing(finding, M)}
        = {r \in T : r.remediation \in Standing(finding, M)}
  OBVIOUS
<1>3. Verdicts(finding, N, U) = Verdicts(finding, M, T)
  BY <1>1, <1>2 DEF Verdicts
<1>4. Status(finding, N, U) = Status(finding, M, T)
  BY <1>1, <1>3 DEF Status, Refused
<1> QED
  BY <1>1, <1>3, <1>4 DEF RecordOf

\* One more remediation re-opens its finding, contradicts the one that stood, or
\* changes nothing.
LEMMA RemediationMoves ==
  ASSUME NEW M \in SUBSET Remediation, NEW T \in SUBSET Retest,
         NEW x \in Remediation, x \notin M, HasLatest(M),
         \A r \in T : r.remediation \in M
  PROVE  \/ Moved(RecordOf(x.finding, M, T), RecordOf(x.finding, M \cup {x}, T))
         \/ RecordOf(x.finding, M \cup {x}, T) = RecordOf(x.finding, M, T)
<1> DEFINE f == x.finding
           mine == {m \in M : m.finding = f}
           old == RecordOf(f, M, T)
           new == RecordOf(f, M \cup {x}, T)
<1>1. /\ Standing(f, M) = Latest(mine)
      /\ Standing(f, M \cup {x}) = Latest(mine \cup {x})
  <2>1. {m \in M \cup {x} : m.finding = f} = mine \cup {x}
    OBVIOUS
  <2> QED
    BY <2>1 DEF Standing
<1>2. /\ HasLatest(mine) /\ x \notin mine
      /\ \A m \in mine : m.at \in Time /\ m.at \in Nat
      /\ x.at \in Time /\ x.at \in Nat
  <2>1. \A m \in M \cup {x} : m.at \in Time /\ m.at \in Nat
    BY EvidenceHasTimes
  <2>2. mine \subseteq M
    OBVIOUS
  <2> HIDE DEF mine
  <2>3. HasLatest(mine)
    BY <2>2 DEF HasLatest
  <2> QED
    BY <2>1, <2>2, <2>3
<1>3. \A s : s = Latest(mine) /\ s # {} => \E last \in mine : Stamp(s) = 1 + last.at
  <2> HIDE DEF mine
  <2> QED
    BY <1>2, StampOfLatest
<1>4. CASE /\ Latest(mine \cup {x}) = {x}
           /\ \A m \in mine : m.at < x.at
  <2>1. Verdicts(f, M \cup {x}, T) = {}
    <3>1. {r \in T : r.remediation \in {x}} = {}
      OBVIOUS
    <3>2. Latest({}) = {}
      BY DEF Latest
    <3> QED
      BY <1>1, <1>4, <3>1, <3>2 DEF Verdicts
  <2>2. ~Conflicting({x}) /\ ~Conflicting({})
    BY DEF Conflicting
  <2>3. Status(f, M \cup {x}, T) = "remediation_submitted"
    BY <1>1, <1>4, <2>1, <2>2 DEF Status, Refused
  <2>4. Stamp({x}) = 1 + x.at /\ Stamp({}) = 0
    BY <1>2, StampIsTheAge DEF Stamp
  <2>5. new = [status |-> "remediation_submitted",
               remediated |-> 1 + x.at, retested |-> 0]
    BY <1>1, <1>4, <2>1, <2>2, <2>3, <2>4 DEF RecordOf
  <2>6. old.remediated = Stamp(Latest(mine))
    BY <1>1 DEF RecordOf
  <2>7. 1 + x.at > Stamp(Latest(mine))
    <3>1. CASE Latest(mine) = {}
      <4>1. Stamp(Latest(mine)) = 0
        BY <2>4, <3>1
      <4> HIDE DEF mine
      <4> QED
        BY <1>2, <4>1
    <3>2. CASE Latest(mine) # {}
      BY <1>2, <1>3, <1>4, <3>2
    <3> QED
      BY <3>1, <3>2
  <2> QED
    BY <2>5, <2>6, <2>7 DEF Moved, Promise!Remediated
<1>5. CASE /\ Latest(mine \cup {x}) = Latest(mine) \cup {x}
           /\ Latest(mine) # {}
           /\ \A m \in Latest(mine) : m.at = x.at
  <2>1. Conflicting(Latest(mine) \cup {x})
    <3>1. PICK m \in Latest(mine) : TRUE
      BY <1>5
    <3>2. m \in mine
      BY <3>1 DEF Latest
    <3>3. m # x
      BY <1>2, <3>2
    <3> HIDE DEF mine
    <3> QED
      BY <3>1, <3>3 DEF Conflicting
  <2>2. Stamp(Latest(mine) \cup {x}) = 1 + x.at
    BY <1>2, <1>5, StampIsTheAge
  <2>3. Stamp(Latest(mine)) = 1 + x.at
    BY <1>2, <1>5, StampIsTheAge
  <2>4. /\ new.status = "contradicted" /\ new.retested = 0
        /\ new.remediated = 1 + x.at
    BY <1>1, <1>5, <2>1, <2>2 DEF RecordOf
  <2>5. old.remediated = 1 + x.at
    BY <1>1, <2>3 DEF RecordOf
  <2>6. 1 + x.at > 0
    BY <1>2
  <2> QED
    BY <2>4, <2>5, <2>6 DEF Moved, Promise!Contradicted
<1>6. CASE Latest(mine \cup {x}) = Latest(mine)
  <2>1. Verdicts(f, M \cup {x}, T) = Verdicts(f, M, T)
    BY <1>1, <1>6 DEF Verdicts
  <2>2. Status(f, M \cup {x}, T) = Status(f, M, T)
    BY <1>1, <1>6, <2>1 DEF Status, Refused
  <2>3. new = old
    BY <1>1, <1>6, <2>1, <2>2 DEF RecordOf
  <2> QED
    BY <2>3
<1>7. \/ /\ Latest(mine \cup {x}) = {x}
         /\ \A m \in mine : m.at < x.at
      \/ /\ Latest(mine \cup {x}) = Latest(mine) \cup {x}
         /\ Latest(mine) # {}
         /\ \A m \in Latest(mine) : m.at = x.at
      \/ Latest(mine \cup {x}) = Latest(mine)
  <2> HIDE DEF mine
  <2> QED
    BY <1>2, LatestMoves
<1> QED
  BY <1>4, <1>5, <1>6, <1>7

\* One more retest decides its finding, contradicts the verdict that counted, or
\* changes nothing; nothing when its remediation does not stand.
LEMMA RetestMoves ==
  ASSUME NEW M \in SUBSET Remediation, NEW T \in SUBSET Retest,
         NEW x \in Retest, x \notin T, HasLatest(T)
  PROVE  LET f == x.remediation.finding
         IN  \/ Moved(RecordOf(f, M, T), RecordOf(f, M, T \cup {x}))
             \/ RecordOf(f, M, T \cup {x}) = RecordOf(f, M, T)
<1> DEFINE f == x.remediation.finding
           standing == Standing(f, M)
           counting == {r \in T : r.remediation \in standing}
           old == RecordOf(f, M, T)
           new == RecordOf(f, M, T \cup {x})
<1>1. CASE Conflicting(standing)
  <2>1. Status(f, M, T) = Status(f, M, T \cup {x})
    BY <1>1 DEF Status, Refused
  <2>2. new = old
    BY <1>1, <2>1 DEF RecordOf
  <2> QED
    BY <2>2
<1>2. CASE x.remediation \notin standing
  <2>1. new = old
    BY <1>2, OthersUnmoved
  <2> QED
    BY <2>1
<1>3. CASE ~Conflicting(standing) /\ x.remediation \in standing
  <2>1. /\ Verdicts(f, M, T) = Latest(counting)
        /\ Verdicts(f, M, T \cup {x}) = Latest(counting \cup {x})
    <3>1. {r \in T \cup {x} : r.remediation \in standing} = counting \cup {x}
      BY <1>3
    <3> QED
      BY <3>1 DEF Verdicts
  <2>2. /\ HasLatest(counting) /\ x \notin counting
        /\ \A r \in counting : r.at \in Time /\ r.at \in Nat
        /\ x.at \in Time /\ x.at \in Nat
    <3>1. \A r \in T \cup {x} : r.at \in Time /\ r.at \in Nat
      BY EvidenceHasTimes
    <3>2. counting \subseteq T
      OBVIOUS
    <3> HIDE DEF counting
    <3>3. HasLatest(counting)
      BY <3>2 DEF HasLatest
    <3> QED
      BY <3>1, <3>2, <3>3
  <2>3. \E age \in Nat : Stamp(standing) = 1 + age
    <3> DEFINE mine == {m \in M : m.finding = f}
    <3>1. standing = Latest(mine) /\ standing # {}
      BY <1>3 DEF Standing
    <3>2. \A m \in mine : m.at \in Time /\ m.at \in Nat
      BY EvidenceHasTimes
    <3> HIDE DEF mine
    <3> QED
      BY <3>1, <3>2, StampOfLatest
  <2>4. /\ old.remediated = Stamp(standing) /\ new.remediated = Stamp(standing)
        /\ old.status = Status(f, M, T)
        /\ old.retested = Stamp(Latest(counting))
        /\ new.status = Status(f, M, T \cup {x})
        /\ new.retested = Stamp(Latest(counting \cup {x}))
    BY <1>3, <2>1 DEF RecordOf
  <2>5. old.status # "contradicted"
    BY <2>4 DEF Status
  <2> HIDE DEF counting, standing, old, new
  <2>6. Stamp({x}) = 1 + x.at /\ Stamp({}) = 0
    BY <2>2, StampIsTheAge DEF Stamp
  <2>7. CASE /\ Latest(counting \cup {x}) = {x}
             /\ \A r \in counting : r.at < x.at
    <3>1. new.status \in {"closed", "retest_failed", "refused"}
      <4>1. standing # {} /\ Verdicts(f, M, T \cup {x}) # {}
        BY <1>3, <2>1, <2>7
      <4> QED
        BY <2>4, <4>1 DEF Status, standing
    <3>2. 1 + x.at > Stamp(Latest(counting))
      <4>1. CASE Latest(counting) = {}
        <5>1. Stamp(Latest(counting)) = 0
          BY <2>6, <4>1
        <5> QED
          BY <2>2, <5>1
      <4>2. CASE Latest(counting) # {}
        <5>1. PICK last \in counting : Stamp(Latest(counting)) = 1 + last.at
          BY <2>2, <4>2, StampOfLatest
        <5> QED
          BY <2>2, <2>7, <5>1
      <4> QED
        BY <4>1, <4>2
    <3>3. new.retested = 1 + x.at
      BY <2>4, <2>6, <2>7
    <3>4. Promise!Retested(old, new)
      BY <2>3, <2>4, <2>5, <3>1, <3>2, <3>3 DEF Promise!Retested
    <3> QED
      BY <3>4 DEF Moved, old, new
  <2>8. CASE /\ Latest(counting \cup {x}) = Latest(counting) \cup {x}
             /\ Latest(counting) # {}
             /\ \A r \in Latest(counting) : r.at = x.at
    <3>1. Conflicting(Latest(counting) \cup {x})
      <4>1. PICK r \in Latest(counting) : TRUE
        BY <2>8
      <4>2. r \in counting
        BY <4>1 DEF Latest
      <4>3. r # x
        BY <2>2, <4>2
      <4> QED
        BY <4>1, <4>3 DEF Conflicting
    <3>2. new.status = "refused"
      BY <2>1, <2>4, <2>8, <3>1 DEF Status, Refused
    <3>3. /\ Stamp(Latest(counting)) = 1 + x.at
          /\ Stamp(Latest(counting) \cup {x}) = 1 + x.at
      BY <2>2, <2>8, StampIsTheAge
    <3>4. new.retested = old.retested /\ new.retested > 0
      <4>1. new.retested = 1 + x.at /\ old.retested = 1 + x.at
        BY <2>4, <2>8, <3>3
      <4>2. 1 + x.at > 0
        BY <2>2
      <4> QED
        BY <4>1, <4>2
    <3>5. Promise!Contradicted(old, new)
      BY <2>3, <2>4, <3>2, <3>4 DEF Promise!Contradicted
    <3> QED
      BY <3>5 DEF Moved, old, new
  <2>9. CASE Latest(counting \cup {x}) = Latest(counting)
    <3>1. Verdicts(f, M, T \cup {x}) = Verdicts(f, M, T)
      BY <2>1, <2>9
    <3>2. Status(f, M, T \cup {x}) = Status(f, M, T)
      BY <3>1 DEF Status, Refused
    <3> QED
      BY <3>1, <3>2 DEF RecordOf
  <2>10. \/ /\ Latest(counting \cup {x}) = {x}
            /\ \A r \in counting : r.at < x.at
         \/ /\ Latest(counting \cup {x}) = Latest(counting) \cup {x}
            /\ Latest(counting) # {}
            /\ \A r \in Latest(counting) : r.at = x.at
         \/ Latest(counting \cup {x}) = Latest(counting)
    BY <2>2, LatestMoves
  <2> QED
    BY <2>7, <2>8, <2>9, <2>10
<1> QED
  BY <1>1, <1>2, <1>3

-----------------------------------------------------------------------------

\* What the promise rests on besides the types: retests are of remediations there
\* are, and evidence has a latest piece.
PiecewiseInv ==
  /\ remediations \in SUBSET Remediation /\ retests \in SUBSET Retest
  /\ \A r \in retests : r.remediation \in remediations
  /\ HasLatest(remediations)
  /\ HasLatest(retests)

\* How callers change the evidence of remediations and retests: by one piece.
OnePieceMore ==
  \/ UNCHANGED <<remediations, retests>>
  \/ \E x \in Remediation : /\ x \notin remediations
                            /\ remediations' = remediations \cup {x}
                            /\ retests' = retests
  \/ \E x \in Retest : /\ x \notin retests /\ x.remediation \in remediations
                       /\ retests' = retests \cup {x}
                       /\ remediations' = remediations

LEMMA RemediationIsOnePiece ==
  ASSUME NEW x \in Remediation, CreateRemediation(x)
  PROVE  OnePieceMore
<1>1. remediations' = remediations \cup {x} /\ retests' = retests
  BY DEF CreateRemediation
<1>2. CASE x \in remediations
  BY <1>1, <1>2 DEF OnePieceMore
<1>3. CASE x \notin remediations
  BY <1>1, <1>3 DEF OnePieceMore
<1> QED
  BY <1>2, <1>3

LEMMA RetestIsOnePiece ==
  ASSUME remediations \in SUBSET Remediation,
         NEW m \in remediations, NEW reviewer \in Person,
         NEW at \in Time, NEW outcome \in Outcome,
         LET retest == [remediation |-> m, reviewer |-> reviewer,
                        at |-> at, outcome |-> outcome]
         IN  CreateRetest(retest) \/ ConstructRetest(retest)
  PROVE  OnePieceMore
<1> DEFINE x == [remediation |-> m, reviewer |-> reviewer,
                 at |-> at, outcome |-> outcome]
<1>1. x \in Retest
  BY DEF Retest
<1> HIDE DEF x
<1>2. /\ retests' = retests \cup {x}
      /\ x.remediation \in remediations
      /\ remediations' = remediations
  BY DEF CreateRetest, ConstructRetest, x
<1>3. CASE x \in retests
  BY <1>2, <1>3 DEF OnePieceMore
<1>4. CASE x \notin retests
  BY <1>1, <1>2, <1>4 DEF OnePieceMore
<1> QED
  BY <1>3, <1>4

LEMMA NothingIsPiecewise == remediations = {} /\ retests = {} => PiecewiseInv
BY DEF PiecewiseInv, HasLatest

LEMMA OnePieceKeepsInv ==
  ASSUME PiecewiseInv, OnePieceMore
  PROVE  PiecewiseInv'
<1>1. /\ remediations \in SUBSET Remediation /\ retests \in SUBSET Retest
      /\ \A r \in retests : r.remediation \in remediations
      /\ HasLatest(remediations) /\ HasLatest(retests)
  BY DEF PiecewiseInv
<1>2. CASE UNCHANGED <<remediations, retests>>
  BY <1>1, <1>2 DEF PiecewiseInv, HasLatest, Latest
<1>3. ASSUME NEW x \in Remediation, remediations' = remediations \cup {x},
             retests' = retests
      PROVE  PiecewiseInv'
  <2>1. x.at \in Nat /\ \A m \in remediations : m.at \in Nat
    BY <1>1, EvidenceHasTimes
  <2>2. HasLatest(remediations \cup {x})
    BY <1>1, <2>1, MoreHasLatest
  <2> QED
    BY <1>1, <1>3, <2>2 DEF PiecewiseInv, HasLatest, Latest
<1>4. ASSUME NEW x \in Retest, x.remediation \in remediations,
             retests' = retests \cup {x}, remediations' = remediations
      PROVE  PiecewiseInv'
  <2>1. x.at \in Nat /\ \A r \in retests : r.at \in Nat
    BY <1>1, EvidenceHasTimes
  <2>2. HasLatest(retests \cup {x})
    BY <1>1, <2>1, MoreHasLatest
  <2> QED
    BY <1>1, <1>4, <2>2 DEF PiecewiseInv, HasLatest, Latest
<1> QED
  BY <1>2, <1>3, <1>4 DEF OnePieceMore

\* One piece of evidence moves the record of one finding as FindingPromise says, or none.
LEMMA OnePieceKeepsThePromise ==
  ASSUME PiecewiseInv, OnePieceMore
  PROVE  [Promise!Next]_([f \in Finding |-> Record(f)])
<1> DEFINE record == [f \in Finding |-> Record(f)]
<1>1. /\ remediations \in SUBSET Remediation /\ retests \in SUBSET Retest
      /\ \A r \in retests : r.remediation \in remediations
      /\ HasLatest(remediations) /\ HasLatest(retests)
  BY DEF PiecewiseInv
<1>2. /\ \A f : Record(f) = RecordOf(f, remediations, retests)
      /\ \A f : Record(f)' = RecordOf(f, remediations', retests')
  BY DEF Record, RecordOf, Status, Refused, Verdicts, Standing, Latest,
         Conflicting, Stamp, Independent
<1>3. ASSUME NEW f \in Finding,
             Moved(Record(f), Record(f)') \/ Record(f)' = Record(f),
             \A g \in Finding : g # f => Record(g)' = Record(g)
      PROVE  [Promise!Next]_record
  <2>1. CASE Record(f)' = Record(f)
    BY <1>3, <2>1
  <2>2. CASE Moved(Record(f), Record(f)')
    <3>1. record' = [record EXCEPT ![f] = record'[f]]
      BY <1>3
    <3>2. record[f] = Record(f) /\ record'[f] = Record(f)'
      OBVIOUS
    <3> QED
      BY <2>2, <3>1, <3>2 DEF Moved, Promise!Next
  <2> QED
    BY <1>3, <2>1, <2>2
<1>4. CASE UNCHANGED <<remediations, retests>>
  <2>1. \A f \in Finding : Record(f)' = Record(f)
    BY <1>2, <1>4
  <2> QED
    BY <2>1
<1>5. ASSUME NEW x \in Remediation, x \notin remediations,
             remediations' = remediations \cup {x}, retests' = retests
      PROVE  [Promise!Next]_record
  <2>1. x.finding \in Finding
    BY DEF Remediation
  <2>2. \/ Moved(Record(x.finding), Record(x.finding)')
        \/ Record(x.finding)' = Record(x.finding)
    BY <1>1, <1>2, <1>5, RemediationMoves
  <2>3. ASSUME NEW g \in Finding, g # x.finding
        PROVE  Record(g)' = Record(g)
    <3>1. {m \in remediations \cup {x} : m.finding = g}
            = {m \in remediations : m.finding = g}
      BY <2>3
    <3> QED
      BY <1>2, <1>5, <3>1, OthersUnmoved
  <2> QED
    BY <1>3, <2>1, <2>2, <2>3
<1>6. ASSUME NEW x \in Retest, x \notin retests, x.remediation \in remediations,
             retests' = retests \cup {x}, remediations' = remediations
      PROVE  [Promise!Next]_record
  <2> DEFINE f == x.remediation.finding
  <2>1. f \in Finding
    BY <1>1, <1>6 DEF Remediation
  <2>2. Moved(Record(f), Record(f)') \/ Record(f)' = Record(f)
    BY <1>1, <1>2, <1>6, RetestMoves
  <2>3. ASSUME NEW g \in Finding, g # f
        PROVE  Record(g)' = Record(g)
    <3>1. x.remediation \notin Standing(g, remediations)
      BY <2>3 DEF Standing, Latest
    <3> QED
      BY <1>2, <1>6, <3>1, OthersUnmoved
  <2> QED
    BY <1>3, <2>1, <2>2, <2>3
<1> QED
  BY <1>4, <1>5, <1>6 DEF OnePieceMore

\* Without evidence, a finding is as FindingPromise has it in the beginning.
LEMMA NothingIsUntouched ==
  ASSUME remediations = {}, retests = {}
  PROVE  Promise!Init
<1> SUFFICES ASSUME NEW f \in Finding
             PROVE  Record(f) = Promise!Untouched
  BY DEF Promise!Init
<1>1. Standing(f, remediations) = {}
  BY DEF Standing, Latest
<1>2. Verdicts(f, remediations, retests) = {}
  BY DEF Verdicts, Latest
<1>3. ~Conflicting({}) /\ Stamp({}) = 0
  BY DEF Conflicting, Stamp
<1>4. Status(f, remediations, retests) = "open"
  BY <1>1, <1>2, <1>3 DEF Status, Refused
<1> QED
  BY <1>1, <1>2, <1>3, <1>4 DEF Record, Promise!Untouched

-----------------------------------------------------------------------------

\* What the resolvers call closed needs no history: it follows from the types of
\* the evidence there is.
LEMMA ClosureByTypes == LifecycleTypeOK => ClosureIsIndependent
<1> SUFFICES ASSUME LifecycleTypeOK, NEW finding \in findings,
                    Status(finding, remediations, retests) = "closed"
             PROVE  \E r \in retests :
                      /\ r.outcome = "passed" /\ r.remediation.finding = finding
                      /\ Reviewer # None => r.reviewer = Reviewer
                      /\ finding.blocking /\ ~OwnerMayRetest =>
                           r.reviewer # r.remediation.owner
                      /\ \A m \in remediations :
                           m.finding = finding /\ m # r.remediation
                             => m.at < r.remediation.at
                      /\ \A other \in retests :
                           other.remediation = r.remediation /\ other # r
                             => other.at < r.at
  BY DEF ClosureIsIndependent
<1>1. remediations \in SUBSET Remediation /\ retests \in SUBSET Retest
  BY DEF LifecycleTypeOK
<1> QED
  BY <1>1, ClosedByOneVerdict DEF Independent
=============================================================================
