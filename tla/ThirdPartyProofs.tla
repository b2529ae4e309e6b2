--------------------------- MODULE ThirdPartyProofs ---------------------------
(***************************************************************************)
(* Proofs about ThirdParty, for any arrangements, evidence, policies and   *)
(* times.                                                                  *)
(*                                                                         *)
(* The strengthening IInv adds to the types that no arrangement is from a  *)
(* later inventory and that evidence about an arrangement has a latest     *)
(* element, which spares the proofs an induction over finite sets: a step  *)
(* adds one element (LatestMoves).                                         *)
(***************************************************************************)
EXTENDS ThirdParty, TLAPS

HasLatest(evidence) ==
  \A e \in evidence : Latest(evidence, e.arrangement) # {}

IInv ==
  /\ TypeOK
  /\ \A a \in arrangements : a.inventory <= inventory
  /\ HasLatest(observations)
  /\ HasLatest(exitPlans)

Dated(evidence) == \A e \in evidence : e.at \in Nat

\* One more piece of evidence either leaves a latest one in place or is later.
LEMMA LatestMoves ==
  ASSUME NEW evidence, Dated(evidence), NEW new, new.at \in Nat,
         NEW a, NEW e \in Latest(evidence, a)
  PROVE  \E n \in Latest(evidence \cup {new}, a) : n = e \/ n.at > e.at
<1> DEFINE mine == {f \in evidence : f.arrangement.id = a.id}
<1>1. e \in mine /\ \A f \in mine : f.at <= e.at
  BY DEF Latest
<1>2. e.at \in Nat /\ \A f \in mine : f.at \in Nat
  BY <1>1 DEF Dated
<1>3. CASE new.arrangement.id = a.id /\ new.at > e.at
  <2>1. new \in Latest(evidence \cup {new}, a)
    BY <1>1, <1>2, <1>3 DEF Latest
  <2> QED
    BY <2>1, <1>3
<1>4. CASE ~(new.arrangement.id = a.id /\ new.at > e.at)
  <2>1. e \in Latest(evidence \cup {new}, a)
    BY <1>1, <1>2, <1>4 DEF Latest
  <2> QED
    BY <2>1
<1> QED
  BY <1>3, <1>4

\* Hence there is always a latest one.
LEMMA AddingKeepsALatest ==
  ASSUME NEW evidence, Dated(evidence), HasLatest(evidence),
         NEW new, new.at \in Nat
  PROVE  HasLatest(evidence \cup {new})
<1> SUFFICES ASSUME NEW e \in evidence \cup {new}
             PROVE  Latest(evidence \cup {new}, e.arrangement) # {}
  BY DEF HasLatest
<1>1. CASE \E f \in evidence : f.arrangement.id = e.arrangement.id
  <2>1. PICK f \in evidence : f.arrangement.id = e.arrangement.id
    BY <1>1
  <2>2. PICK l : l \in Latest(evidence, f.arrangement)
    BY DEF HasLatest
  <2>3. l \in Latest(evidence, e.arrangement)
    BY <2>1, <2>2 DEF Latest
  <2> QED
    BY <2>3, LatestMoves
<1>2. CASE ~\E f \in evidence : f.arrangement.id = e.arrangement.id
  <2>1. e = new
    BY <1>2
  <2>2. new \in Latest(evidence \cup {new}, e.arrangement)
    BY <1>2, <2>1 DEF Latest
  <2> QED
    BY <2>2
<1> QED
  BY <1>1, <1>2

LEMMA EvidenceIsDated ==
  ASSUME TypeOK
  PROVE  Dated(observations) /\ Dated(exitPlans)
BY ThirdPartyAssumption DEF TypeOK, Dated, Observation, ExitPlan

-----------------------------------------------------------------------------

LEMMA InitIInv == Init => IInv
BY ThirdPartyAssumption DEF Init, IInv, TypeOK, OneRecordPerKey, HasLatest

LEMMA NextIInv == IInv /\ [Next]_vars => IInv'
<1> SUFFICES ASSUME IInv, [Next]_vars PROVE IInv'
  OBVIOUS
<1>0. TypeOK
  BY DEF IInv
<1>1. CASE GrowInventory
  <2>1. TypeOK'
    BY <1>0, <1>1, ThirdPartyAssumption DEF GrowInventory, TypeOK
  <2>2. \A a \in arrangements' : a.inventory <= inventory'
    BY <1>0, <1>1, ThirdPartyAssumption DEF GrowInventory, TypeOK, IInv, Arrangement
  <2> QED
    BY <1>1, <2>1, <2>2 DEF GrowInventory, IInv
<1>2. ASSUME NEW a \in Arrangement, RegisterArrangement(a)
      PROVE  IInv'
  <2>1. TypeOK'
    BY <1>0, <1>2 DEF RegisterArrangement, TypeOK
  <2>2. \A b \in arrangements' : b.inventory <= inventory'
    BY <1>0, <1>2, ThirdPartyAssumption DEF RegisterArrangement, Current, TypeOK, IInv
  <2> QED
    BY <1>2, <2>1, <2>2 DEF RegisterArrangement, IInv
<1>3. ASSUME NEW o \in Observation, RegisterObservation(o)
      PROVE  IInv'
  <2>1. TypeOK'
    BY <1>0, <1>3 DEF RegisterObservation, Accepts, TypeOK
  <2>2. o.at \in Nat
    BY ThirdPartyAssumption DEF Observation
  <2>3. HasLatest(observations')
    BY <1>0, <1>3, <2>2, EvidenceIsDated, AddingKeepsALatest
       DEF RegisterObservation, IInv
  <2> QED
    BY <1>3, <2>1, <2>3 DEF RegisterObservation, IInv
<1>4. ASSUME NEW p \in ExitPlan, RegisterExitPlan(p)
      PROVE  IInv'
  <2>1. TypeOK'
    BY <1>0, <1>4 DEF RegisterExitPlan, Accepts, TypeOK
  <2>2. p.at \in Nat
    BY ThirdPartyAssumption DEF ExitPlan
  <2>3. HasLatest(exitPlans')
    BY <1>0, <1>4, <2>2, EvidenceIsDated, AddingKeepsALatest
       DEF RegisterExitPlan, IInv
  <2> QED
    BY <1>4, <2>1, <2>3 DEF RegisterExitPlan, IInv
<1>5. CASE UNCHANGED vars
  BY <1>5 DEF vars, IInv, TypeOK
<1>6. ASSUME NEW a \in arrangements, NEW id \in EvidenceId, NEW at \in Time
      PROVE  /\ [arrangement |-> a, id |-> id, at |-> at] \in ExitPlan
             /\ \A r \in Rating :
                  [arrangement |-> a, id |-> id, at |-> at, rating |-> r]
                    \in Observation
  BY <1>0 DEF TypeOK, ExitPlan, Observation
<1> QED
  BY <1>1, <1>2, <1>3, <1>4, <1>5, <1>6 DEF Next

LEMMA Inductive == Spec => []IInv
BY InitIInv, NextIInv, PTL DEF Spec

\* Whatever is registered, the register keeps its types: one record for every
\* key, and evidence only about registered arrangements (register_arrangement,
\* register_observation, register_exit_plan).
THEOREM ThirdPartyTypeCorrect == Spec => []TypeOK
BY Inductive, PTL DEF IInv

-----------------------------------------------------------------------------

\* What an arrangement without gaps has.
LEMMA WithoutGaps ==
  ASSUME NEW a, NEW policy, NEW asOf, GapsOf(a, policy, asOf) = {}
  PROVE  /\ a.terms.missing \cap policy.documents = {}
         /\ policy.observation => Latest(observations, a) # {}
         /\ \A o \in Latest(observations, a) :
              /\ ~Outdated(o, policy, asOf)
              /\ o.rating.substitutability # "not_assessed"
              /\ o.rating.concentration # "not_assessed"
         /\ ExitRequired(a, policy) => Latest(exitPlans, a) # {}
<1>1. a.terms.missing \cap policy.documents = {}
  BY DEF GapsOf
<1>2. "missing_dependency_observation" \notin GapsOf(a, policy, asOf)
      /\ "stale_dependency_observation" \notin GapsOf(a, policy, asOf)
      /\ "substitutability_not_assessed" \notin GapsOf(a, policy, asOf)
      /\ "concentration_not_assessed" \notin GapsOf(a, policy, asOf)
      /\ "missing_exit_plan" \notin GapsOf(a, policy, asOf)
  OBVIOUS
<1>3. policy.observation => Latest(observations, a) # {}
  BY <1>2 DEF GapsOf
<1>4. \A o \in Latest(observations, a) : ~Outdated(o, policy, asOf)
  BY <1>2 DEF GapsOf
<1>5. \A o \in Latest(observations, a) : o.rating.substitutability # "not_assessed"
  BY <1>2 DEF GapsOf
<1>6. \A o \in Latest(observations, a) : o.rating.concentration # "not_assessed"
  BY <1>2 DEF GapsOf
<1>7. ExitRequired(a, policy) => Latest(exitPlans, a) # {}
  BY <1>2 DEF GapsOf
<1> QED
  BY <1>1, <1>3, <1>4, <1>5, <1>6, <1>7

\* In a register that can be reported, evidence about an arrangement in force is
\* no later than the report, and the latest of it is later than all the rest.
LEMMA Reportable ==
  ASSUME IInv, NEW asOf \in Time, ~Refused(asOf), NEW a \in Active(asOf),
         NEW evidence, evidence \in {observations, exitPlans}
  PROVE  /\ \A e \in evidence : e.arrangement = a => e.at <= asOf
         /\ \A l \in Latest(evidence, a) :
              /\ l \in evidence /\ l.arrangement = a
              /\ \A e \in evidence : e.arrangement = a /\ e # l => e.at < l.at
         /\ (\E e \in evidence : e.arrangement = a) => Latest(evidence, a) # {}
<1>1. Dated(evidence)
  BY EvidenceIsDated DEF IInv
<1>2. /\ \A e \in evidence : e.arrangement \in arrangements
      /\ a \in arrangements
      /\ \A b \in arrangements : b.id = a.id => b = a
  BY DEF IInv, TypeOK, Active
<1>3. \A e \in Latest(evidence, a) : e.at <= asOf
  <2>1. ~\E e \in Latest(evidence, a) : e.at > asOf
    BY DEF Refused
  <2> QED
    BY <2>1, <1>1, ThirdPartyAssumption DEF Latest, Dated
<1>4. ~Conflicting(Latest(evidence, a))
  BY DEF Refused
<1>5. (\E e \in evidence : e.arrangement = a) => Latest(evidence, a) # {}
  BY DEF IInv, HasLatest
<1>6. ASSUME NEW l \in Latest(evidence, a)
      PROVE  /\ l \in evidence /\ l.arrangement = a
             /\ \A e \in evidence : e.arrangement = a /\ e # l => e.at < l.at
  <2>1. l \in evidence /\ l.arrangement = a
    BY <1>2, <1>6 DEF Latest
  <2>2. ASSUME NEW e \in evidence, e.arrangement = a, e # l
        PROVE  e.at < l.at
    <3>1. e \notin Latest(evidence, a)
      BY <1>4, <1>6, <2>2 DEF Conflicting
    <3>2. PICK f \in evidence : f.arrangement.id = a.id /\ ~(f.at <= e.at)
      BY <3>1, <2>2 DEF Latest
    <3>3. f.at <= l.at
      BY <3>2, <1>6 DEF Latest
    <3> QED
      BY <3>2, <3>3, <2>1, <2>2, <1>1 DEF Dated
  <2> QED
    BY <2>1, <2>2
<1>7. ASSUME NEW e \in evidence, e.arrangement = a
      PROVE  e.at <= asOf
  <2>1. PICK l : l \in Latest(evidence, a)
    BY <1>5, <1>7
  <2>2. l.at <= asOf /\ e.at <= l.at /\ l \in evidence
    BY <2>1, <1>3, <1>7 DEF Latest
  <2> QED
    BY <2>2, <1>1, ThirdPartyAssumption DEF Dated
<1> QED
  BY <1>5, <1>6, <1>7

\* The register is never COMPLETE without the evidence the policy asks for: of
\* every arrangement in force, undisputed, young enough, and not of a later date
\* (build_register_snapshot).
THEOREM CompleteIsAlwaysEvidenced == Spec => []CompleteIsEvidenced
<1>1. IInv => CompleteIsEvidenced
  <2> SUFFICES ASSUME IInv, NEW policy \in Policy, NEW asOf \in Time,
                      Complete(policy, asOf), NEW a \in arrangements,
                      a.terms.from <= asOf, a.terms.to = None \/ asOf <= a.terms.to
               PROVE
         LET about == {o \in observations : o.arrangement = a}
             plans == {p \in exitPlans : p.arrangement = a}
             last  == {o \in about : \A other \in about \ {o} : other.at < o.at}
         IN
          /\ a.terms.missing \cap policy.documents = {}
          /\ \A e \in about \cup plans : e.at <= asOf
          /\ policy.observation => last # {}
          /\ about # {} => \E o \in last :
               /\ policy.maxAge # None => asOf <= o.at + policy.maxAge
               /\ "not_assessed" \notin
                    {o.rating.substitutability, o.rating.concentration}
               /\ o.rating.concentration = "high"
                    /\ "high_concentration" \in policy.exitFor => plans # {}
               /\ o.rating.substitutability = "difficult"
                    /\ "difficult_substitutability" \in policy.exitFor => plans # {}
          /\ a.terms.critical /\ "critical_functions" \in policy.exitFor
               => plans # {}
    BY DEF CompleteIsEvidenced
  <2> DEFINE about == {o \in observations : o.arrangement = a}
             plans == {p \in exitPlans : p.arrangement = a}
             last  == {o \in about : \A other \in about \ {o} : other.at < o.at}
  <2>1. a \in Active(asOf) /\ ~Refused(asOf)
    <3>1. a.terms \in Terms
      BY DEF IInv, TypeOK, Arrangement
    <3>2. a.terms.to = None \/ a.terms.to >= asOf
      BY <3>1, ThirdPartyAssumption
    <3> QED
      BY <3>2 DEF Complete, Active
  <2>2. GapsOf(a, policy, asOf) = {}
    BY <2>1 DEF Complete
  <2>3. \A e \in about \cup plans : e.at <= asOf
    BY <2>1, Reportable
  <2>4. Latest(observations, a) \subseteq last
    BY <2>1, Reportable
  <2>5. ExitRequired(a, policy) => plans # {}
    BY <2>1, <2>2, Reportable, WithoutGaps
  <2>6. ASSUME NEW o \in Latest(observations, a)
        PROVE  /\ policy.maxAge # None => asOf <= o.at + policy.maxAge
               /\ "not_assessed" \notin
                    {o.rating.substitutability, o.rating.concentration}
               /\ o.rating.concentration = "high"
                    /\ "high_concentration" \in policy.exitFor => plans # {}
               /\ o.rating.substitutability = "difficult"
                    /\ "difficult_substitutability" \in policy.exitFor => plans # {}
    <3>1. policy.maxAge # None => asOf <= o.at + policy.maxAge
      <4>1. ~Outdated(o, policy, asOf)
        BY <2>2, <2>6, WithoutGaps
      <4>2. o.at \in Nat /\ asOf \in Nat /\ policy.maxAge \in Nat \cup {None}
        BY <2>6, EvidenceIsDated, ThirdPartyAssumption DEF IInv, Dated, Latest
      <4> QED
        BY <4>1, <4>2 DEF Outdated
    <3>2. "not_assessed" \notin
            {o.rating.substitutability, o.rating.concentration}
      BY <2>2, <2>6, WithoutGaps
    <3> QED
      BY <3>1, <3>2, <2>5, <2>6 DEF ExitRequired
  <2>7. policy.observation => last # {}
    BY <2>2, <2>4, WithoutGaps
  <2>8. about # {} => Latest(observations, a) # {}
    BY <2>1, Reportable
  <2>9. a.terms.critical /\ "critical_functions" \in policy.exitFor => plans # {}
    BY <2>5 DEF ExitRequired
  <2>10. a.terms.missing \cap policy.documents = {}
    BY <2>2, WithoutGaps
  <2>11. about # {} => \E o \in last :
               /\ policy.maxAge # None => asOf <= o.at + policy.maxAge
               /\ "not_assessed" \notin
                    {o.rating.substitutability, o.rating.concentration}
               /\ o.rating.concentration = "high"
                    /\ "high_concentration" \in policy.exitFor => plans # {}
               /\ o.rating.substitutability = "difficult"
                    /\ "difficult_substitutability" \in policy.exitFor => plans # {}
    BY <2>4, <2>6, <2>8
  <2> QED
    BY <2>3, <2>7, <2>9, <2>10, <2>11
<1> QED
  BY <1>1, Inductive, PTL

\* A gap that a snapshot shows is shown by every later one of the same register,
\* for any policy: age only adds gaps (build_register_snapshot).
THEOREM TimeNeverClosesAGap == Spec => []TimeClosesNoGap
<1>1. IInv => TimeClosesNoGap
  <2> SUFFICES ASSUME IInv, NEW policy \in Policy,
                      NEW earlier \in Time, NEW later \in Time, earlier < later,
                      NEW a
               PROVE  GapsOf(a, policy, earlier) \subseteq GapsOf(a, policy, later)
    BY DEF TimeClosesNoGap
  <2>1. ASSUME NEW o \in Latest(observations, a), Outdated(o, policy, earlier)
        PROVE  Outdated(o, policy, later)
    <3>1. /\ o.at \in Nat /\ policy.maxAge \in Nat \cup {None}
          /\ earlier \in Nat /\ later \in Nat
      BY EvidenceIsDated, ThirdPartyAssumption DEF IInv, Dated, Latest
    <3> QED
      BY <2>1, <3>1 DEF Outdated
  <2> QED
    BY <2>1 DEF GapsOf
<1> QED
  BY <1>1, Inductive, PTL

-----------------------------------------------------------------------------

\* A step adds at most one piece of evidence.
AtMostOneMore ==
  /\ observations' = observations
     \/ \E o : o.at \in Nat /\ observations' = observations \cup {o}
  /\ exitPlans' = exitPlans
     \/ \E p : p.at \in Nat /\ exitPlans' = exitPlans \cup {p}
  /\ arrangements \subseteq arrangements'
  /\ inventory' >= inventory /\ inventory \in Nat /\ inventory' \in Nat

LEMMA OneAtATime == IInv /\ [Next]_vars => AtMostOneMore
<1> SUFFICES ASSUME IInv, [Next]_vars PROVE AtMostOneMore
  OBVIOUS
<1>1. inventory \in Nat
  BY ThirdPartyAssumption DEF IInv, TypeOK
<1>2. CASE GrowInventory
  BY <1>1, <1>2 DEF AtMostOneMore, GrowInventory
<1>3. ASSUME NEW a \in Arrangement, RegisterArrangement(a)
      PROVE  AtMostOneMore
  BY <1>1, <1>3 DEF AtMostOneMore, RegisterArrangement
<1>4. ASSUME NEW o, o.at \in Time, RegisterObservation(o)
      PROVE  AtMostOneMore
  <2>1. o.at \in Nat
    BY <1>4, ThirdPartyAssumption
  <2> QED
    BY <1>1, <1>4, <2>1 DEF AtMostOneMore, RegisterObservation
<1>5. ASSUME NEW p, p.at \in Time, RegisterExitPlan(p)
      PROVE  AtMostOneMore
  <2>1. p.at \in Nat
    BY <1>5, ThirdPartyAssumption
  <2> QED
    BY <1>1, <1>5, <2>1 DEF AtMostOneMore, RegisterExitPlan
<1>6. CASE UNCHANGED vars
  BY <1>1, <1>6 DEF AtMostOneMore, vars
<1>7. ASSUME NEW a \in arrangements, NEW id \in EvidenceId, NEW at \in Time,
             \/ \E r \in Rating :
                  RegisterObservation([arrangement |-> a, id |-> id, at |-> at, rating |-> r])
             \/ RegisterExitPlan([arrangement |-> a, id |-> id, at |-> at])
      PROVE  AtMostOneMore
  <2>1. ASSUME NEW r \in Rating,
               RegisterObservation([arrangement |-> a, id |-> id, at |-> at, rating |-> r])
        PROVE  AtMostOneMore
    BY <1>4, <2>1
  <2>2. CASE RegisterExitPlan([arrangement |-> a, id |-> id, at |-> at])
    BY <1>5, <2>2
  <2> QED
    BY <1>7, <2>1, <2>2
<1> QED
  BY <1>2, <1>3, <1>6, <1>7 DEF Next

\* What a snapshot names stays named or is superseded, for any evidence that
\* grows as the register's does.
LEMMA NamedMovesForward ==
  ASSUME IInv, IInv', [Next]_vars, NEW asOf \in Time
  PROVE  /\ Active(asOf) \subseteq Active(asOf)'
         /\ \A o \in Named(observations, asOf) : \E n \in Named(observations, asOf)' :
              n = o \/ (n.arrangement = o.arrangement /\ n.at > o.at)
         /\ \A p \in Named(exitPlans, asOf) : \E n \in Named(exitPlans, asOf)' :
              n = p \/ (n.arrangement = p.arrangement /\ n.at > p.at)
<1>1. Active(asOf) \subseteq Active(asOf)'
  BY OneAtATime DEF AtMostOneMore, Active
<1>2. Dated(observations) /\ Dated(exitPlans)
  BY EvidenceIsDated DEF IInv
<1>3. /\ \A e \in observations' \cup exitPlans' : e.arrangement \in arrangements'
      /\ \A a, b \in arrangements' : a.id = b.id => a = b
      /\ observations \subseteq observations' /\ exitPlans \subseteq exitPlans'
  BY OneAtATime DEF AtMostOneMore, IInv, TypeOK
<1>4. ASSUME NEW o \in Named(observations, asOf)
      PROVE  \E n \in Named(observations, asOf)' :
               n = o \/ (n.arrangement = o.arrangement /\ n.at > o.at)
  <2>1. PICK a \in Active(asOf) : o \in Latest(observations, a)
    BY <1>4 DEF Named
  <2>2. PICK n \in Latest(observations', a) : n = o \/ n.at > o.at
    BY <2>1, <1>2, OneAtATime, LatestMoves DEF AtMostOneMore
  <2>3. n \in Named(observations, asOf)'
    BY <1>1, <2>2 DEF Named
  <2>4. n.arrangement = o.arrangement
    BY <2>1, <2>2, <1>3 DEF Latest
  <2> QED
    BY <2>2, <2>3, <2>4
<1>5. ASSUME NEW p \in Named(exitPlans, asOf)
      PROVE  \E n \in Named(exitPlans, asOf)' :
               n = p \/ (n.arrangement = p.arrangement /\ n.at > p.at)
  <2>1. PICK a \in Active(asOf) : p \in Latest(exitPlans, a)
    BY <1>5 DEF Named
  <2>2. PICK n \in Latest(exitPlans', a) : n = p \/ n.at > p.at
    BY <2>1, <1>2, OneAtATime, LatestMoves DEF AtMostOneMore
  <2>3. n \in Named(exitPlans, asOf)'
    BY <1>1, <2>2 DEF Named
  <2>4. n.arrangement = p.arrangement
    BY <2>1, <2>2, <1>3 DEF Latest
  <2> QED
    BY <2>2, <2>3, <2>4
<1> QED
  BY <1>1, <1>4, <1>5

\* Whatever is registered between two snapshots for the same time, and with
\* whatever dates, the second names nothing older than the first did.
THEOREM SnapshotsAlwaysMoveForward == Spec => SnapshotsMoveForward
<1>1. IInv /\ IInv' /\ [Next]_vars =>
        [\A asOf \in Time : ~Refused(asOf) /\ ~Refused(asOf)' =>
       /\ Active(asOf) \subseteq Active(asOf)'
       /\ \A o \in Named(observations, asOf) : \E n \in Named(observations, asOf)' :
            n = o \/ (n.arrangement = o.arrangement /\ n.at > o.at)
       /\ \A p \in Named(exitPlans, asOf) : \E n \in Named(exitPlans, asOf)' :
            n = p \/ (n.arrangement = p.arrangement /\ n.at > p.at)]_vars
  BY NamedMovesForward
<1> QED
  BY <1>1, Inductive, PTL DEF Spec, SnapshotsMoveForward

\* A register that cannot be reported for some time because of a stale
\* arrangement, or of evidence of a later date, never can again.
THEOREM OnlyConflictsEverHeal == Spec => OnlyConflictsHeal
<1>1. IInv /\ IInv' /\ [Next]_vars =>
        [\A asOf \in Time : Refused(asOf) /\ ~Refused(asOf)' =>
       /\ \A a \in arrangements : Current(a)
       /\ \A e \in Named(observations, asOf) \cup Named(exitPlans, asOf) :
            e.at <= asOf]_vars
  <2> SUFFICES ASSUME IInv, IInv', [Next]_vars, NEW asOf \in Time, ~Refused(asOf)'
               PROVE  /\ \A a \in arrangements : Current(a)
                      /\ \A e \in Named(observations, asOf) \cup Named(exitPlans, asOf) :
                           e.at <= asOf
    OBVIOUS
  <2>1. ASSUME NEW a \in arrangements
        PROVE  Current(a)
    <3>1. a.inventory = inventory'
      BY <2>1, OneAtATime DEF AtMostOneMore, Refused, Current
    <3>2. a.inventory <= inventory
      BY DEF IInv
    <3> QED
      BY <3>1, <3>2, OneAtATime DEF AtMostOneMore, Current
  <2>2. \A n \in (Named(observations, asOf) \cup Named(exitPlans, asOf))' :
          ~(n.at > asOf) /\ n.at \in Nat
    <3>1. \A n \in Named(observations, asOf)' : ~(n.at > asOf)
      BY DEF Refused, Named
    <3>2. \A n \in Named(exitPlans, asOf)' : ~(n.at > asOf)
      BY DEF Refused, Named
    <3>3. \A n \in observations' \cup exitPlans' : n.at \in Nat
      BY ThirdPartyAssumption DEF IInv, TypeOK, Observation, ExitPlan
    <3> QED
      BY <3>1, <3>2, <3>3 DEF Named, Latest
  <2>3. ASSUME NEW e \in Named(observations, asOf) \cup Named(exitPlans, asOf)
        PROVE  e.at <= asOf
    <3>1. \E n \in (Named(observations, asOf) \cup Named(exitPlans, asOf))' :
            n = e \/ n.at > e.at
      BY <2>3, NamedMovesForward
    <3>2. e.at \in Nat
      BY <2>3, EvidenceIsDated DEF IInv, Dated, Named, Latest
    <3> QED
      BY <2>2, <3>1, <3>2, ThirdPartyAssumption
  <2> QED
    BY <2>1, <2>3
<1> QED
  BY <1>1, Inductive, PTL DEF Spec, OnlyConflictsHeal
=============================================================================
