------------------------------ MODULE ThirdParty ------------------------------
(***************************************************************************)
(* ThirdPartyRegister and build_register_snapshot (third_party.py, with    *)
(* the enum checks of third_party_strict.py) for one financial entity.     *)
(*                                                                         *)
(* Arrangements are pinned to the inventory they were built against;       *)
(* observations and exit plans are pinned to an arrangement.  A snapshot   *)
(* is computed on demand, for any policy and any time, and either raises   *)
(* or lists gaps.  As in Incidents, the inventory is a counter of its      *)
(* digests: StalenessIsPermanent shows that none ever comes back.          *)
(***************************************************************************)
EXTENDS Naturals, FiniteSets

CONSTANTS
  ArrangementId, EvidenceId,   \* arrangement_id; observation_id, exit_plan_id
  Time,           \* effective_from, effective_to, observed_at, updated_at, as_of
  Document,       \* what the policy may want documented: a provider designation,
                  \* locations, contract and control evidence (the gap's code)
  Terms,          \* what an arrangement can say
  Rating,         \* what an observation can say
  Policy,         \* the institution's policies
  MaxInventory,   \* bound on inventory changes
  MaxEvidence,    \* bound on observations and exit plans
  None

Trigger == {"critical_functions", "high_concentration", "difficult_substitutability"}

ASSUME ThirdPartyAssumption ==
  /\ Time \subseteq Nat /\ None \notin Nat
  /\ MaxInventory \in Nat
  /\ Terms \subseteq [missing : SUBSET Document, critical : BOOLEAN,
                      from : Time, to : Time \cup {None}]
  /\ \A t \in Terms : t.to = None \/ t.to >= t.from
  /\ Rating \subseteq [substitutability : {"not_assessed", "easy", "difficult"},
                       concentration : {"not_assessed", "low", "high"}]
  /\ Policy \subseteq [documents : SUBSET Document, observation : BOOLEAN,
                       maxAge : Nat \cup {None}, exitFor : SUBSET Trigger]

VARIABLES
  inventory,      \* the live inventory digest
  arrangements,   \* _arrangements
  observations,   \* _observations
  exitPlans       \* _exit_plans

vars == <<inventory, arrangements, observations, exitPlans>>

Arrangement == [id : ArrangementId, inventory : 0..MaxInventory, terms : Terms]

Observation ==
  [arrangement : Arrangement, id : EvidenceId, at : Time, rating : Rating]

ExitPlan == [arrangement : Arrangement, id : EvidenceId, at : Time]

\* Evidence is bound to an arrangement by digest, and identified within it.
OneRecordPerKey(evidence) ==
  \A e, f \in evidence : e.arrangement.id = f.arrangement.id /\ e.id = f.id => e = f

TypeOK ==
  /\ inventory \in 0..MaxInventory
  /\ arrangements \subseteq Arrangement
  /\ \A a, b \in arrangements : a.id = b.id => a = b
  /\ observations \subseteq Observation /\ OneRecordPerKey(observations)
  /\ exitPlans \subseteq ExitPlan /\ OneRecordPerKey(exitPlans)
  /\ \A e \in observations \cup exitPlans : e.arrangement \in arrangements

Init ==
  /\ inventory = 0
  /\ arrangements = {}
  /\ observations = {}
  /\ exitPlans = {}

-----------------------------------------------------------------------------

GrowInventory ==
  /\ inventory < MaxInventory
  /\ inventory' = inventory + 1
  /\ UNCHANGED <<arrangements, observations, exitPlans>>

\* _validate_arrangement: it compares digests first; what it then asks of services
\* and functions depends on the inventory of that digest alone, and Terms are
\* those that pass.
Current(a) == a.inventory = inventory

\* Mutant: an arrangement of the same id is replaced by its renewal.
RegisterArrangementRenewing(a) ==
  /\ Current(a)
  /\ arrangements' = {b \in arrangements : b.id # a.id} \cup {a}
  /\ UNCHANGED <<inventory, observations, exitPlans>>

RegisterArrangement(a) ==
  /\ Current(a)
  /\ \A b \in arrangements : b.id = a.id => b = a
  /\ arrangements' = arrangements \cup {a}
  /\ UNCHANGED <<inventory, observations, exitPlans>>

\* Mutant: evidence of the same id is accepted with other content.
AcceptsAnyContent(e, evidence) ==
  /\ Cardinality(observations) + Cardinality(exitPlans) < MaxEvidence
  /\ e.arrangement \in arrangements
  /\ e.at >= e.arrangement.terms.from

\* The arrangement may be stale or lapsed by now: only its digest and its start
\* are looked at.
Accepts(e, evidence) ==
  /\ Cardinality(observations) + Cardinality(exitPlans) < MaxEvidence
  /\ e.arrangement \in arrangements
  /\ e.at >= e.arrangement.terms.from
  /\ OneRecordPerKey(evidence \cup {e})

\* Mutant: the last registration under an observation_id wins.
RegisterObservationAnew(o) ==
  /\ o.arrangement \in arrangements /\ o.at >= o.arrangement.terms.from
  /\ observations' = {f \in observations : OneRecordPerKey({f, o})} \cup {o}
  /\ UNCHANGED <<inventory, arrangements, exitPlans>>

RegisterObservation(o) ==
  /\ Accepts(o, observations)
  /\ observations' = observations \cup {o}
  /\ UNCHANGED <<inventory, arrangements, exitPlans>>

RegisterExitPlan(p) ==
  /\ Accepts(p, exitPlans)
  /\ exitPlans' = exitPlans \cup {p}
  /\ UNCHANGED <<inventory, arrangements, observations>>

Next ==
  \/ GrowInventory
  \/ \E a \in Arrangement : RegisterArrangement(a)
  \/ \E a \in arrangements, id \in EvidenceId, at \in Time :
       \/ \E r \in Rating :
            RegisterObservation([arrangement |-> a, id |-> id, at |-> at, rating |-> r])
       \/ RegisterExitPlan([arrangement |-> a, id |-> id, at |-> at])

Spec == Init /\ [][Next]_vars

-----------------------------------------------------------------------------

\* latest_observation, latest_exit_plan: empty when there is none; more than one
\* element is a conflict.
Latest(evidence, a) ==
  LET mine == {e \in evidence : e.arrangement.id = a.id} IN
    {e \in mine : \A f \in mine : f.at <= e.at}

Active(asOf) ==
  {a \in arrangements :
     a.terms.from <= asOf /\ (a.terms.to = None \/ a.terms.to >= asOf)}

Conflicting(latest) == \E e, f \in latest : e # f

\* Mutant: evidence from the future is taken for present.
RefusedUnlessCurrent(asOf) ==
  \/ \E a \in arrangements : ~Current(a)
  \/ \E a \in Active(asOf), evidence \in {observations, exitPlans} :
       Conflicting(Latest(evidence, a))

\* build_register_snapshot raises: one stale arrangement is enough, active or not.
Refused(asOf) ==
  \/ \E a \in arrangements : ~Current(a)
  \/ \E a \in Active(asOf), evidence \in {observations, exitPlans} :
       \/ Conflicting(Latest(evidence, a))
       \/ \E e \in Latest(evidence, a) : e.at > asOf

\* Mutant: the last trigger looked at decides.
ExitRequiredByTheLast(a, policy) ==
  LET o == Latest(observations, a) IN
    IF o = {} THEN "critical_functions" \in policy.exitFor /\ a.terms.critical
    ELSE /\ "difficult_substitutability" \in policy.exitFor
         /\ \E r \in o : r.rating.substitutability = "difficult"

ExitRequired(a, policy) ==
  \/ "critical_functions" \in policy.exitFor /\ a.terms.critical
  \/ \E o \in Latest(observations, a) :
       \/ "high_concentration" \in policy.exitFor
            /\ o.rating.concentration = "high"
       \/ "difficult_substitutability" \in policy.exitFor
            /\ o.rating.substitutability = "difficult"

\* Mutant: the comparison with the age allowed is the wrong way round.
OutdatedWhenYoung(o, policy, asOf) ==
  policy.maxAge # None /\ o.at + policy.maxAge > asOf

Outdated(o, policy, asOf) ==
  policy.maxAge # None /\ o.at + policy.maxAge < asOf

\* The gap codes of one arrangement in a snapshot.  What is not assessed is a gap
\* whatever the policy says.
GapsOf(a, policy, asOf) ==
  LET seen == Latest(observations, a)
      Holds(code) ==
        CASE code = "missing_dependency_observation" ->
               policy.observation /\ seen = {}
          [] code = "stale_dependency_observation" ->
               \E o \in seen : Outdated(o, policy, asOf)
          [] code = "substitutability_not_assessed" ->
               \E o \in seen : o.rating.substitutability = "not_assessed"
          [] code = "concentration_not_assessed" ->
               \E o \in seen : o.rating.concentration = "not_assessed"
          [] code = "missing_exit_plan" ->
               ExitRequired(a, policy) /\ Latest(exitPlans, a) = {}
  IN  (a.terms.missing \cap policy.documents) \cup
      {code \in {"missing_dependency_observation", "stale_dependency_observation",
                 "substitutability_not_assessed", "concentration_not_assessed",
                 "missing_exit_plan"} : Holds(code)}

Complete(policy, asOf) ==
  /\ ~Refused(asOf)
  /\ \A a \in Active(asOf) : GapsOf(a, policy, asOf) = {}

\* The arrangements and the evidence a snapshot names.
Named(evidence, asOf) == UNION {Latest(evidence, a) : a \in Active(asOf)}

-----------------------------------------------------------------------------

\* The state COMPLETE that build_register_snapshot reports for a time rests on
\* evidence of that time: every arrangement in force has what the policy wants
\* documented, an undisputed observation that is young enough and leaves nothing
\* unassessed, and an exit plan made by then if the observation or its functions
\* call for one.  Nothing dated later has been registered for it.
CompleteIsEvidenced ==
  \A policy \in Policy, asOf \in Time : Complete(policy, asOf) =>
    \A a \in arrangements :
      a.terms.from <= asOf /\ (a.terms.to = None \/ asOf <= a.terms.to) =>
        LET about == {o \in observations : o.arrangement = a}
            plans == {p \in exitPlans : p.arrangement = a}
            last  == {o \in about : \A other \in about \ {o} : other.at < o.at}
        IN
          /\ a.terms.missing \cap policy.documents = {}
          /\ \A e \in about \cup plans : e.at <= asOf
          /\ policy.observation => last # {}
          /\ about # {} => \E o \in last :
               /\ policy.maxAge # None => asOf <= o.at + policy.maxAge
               /\ "not_assessed" \notin
                    {o.rating.substitutability, o.rating.concentration}
               /\ o.rating.concentration = "high"
                    /\ "high_concentration" \in policy.exitFor => plans # {}
               /\ o.rating.substitutability = "difficult"
                    /\ "difficult_substitutability" \in policy.exitFor => plans # {}
          /\ a.terms.critical /\ "critical_functions" \in policy.exitFor
               => plans # {}

\* Waiting closes no gap: while nothing is registered, every gap that a snapshot
\* shows is still there in a snapshot of any later time at which the arrangement
\* is in force.
TimeClosesNoGap ==
  \A policy \in Policy, earlier, later \in Time :
    earlier < later /\ ~Refused(earlier) =>
      \A a \in Active(earlier) \cap Active(later) :
        GapsOf(a, policy, earlier) \subseteq GapsOf(a, policy, later)

\* A snapshot taken again for the same time never falls back: every arrangement
\* it named is still named, and every observation and exit plan it named is named
\* again or superseded by one that is strictly newer, whatever was registered in
\* between and with whatever dates.
SnapshotsMoveForward ==
  [][\A asOf \in Time : ~Refused(asOf) /\ ~Refused(asOf)' =>
       /\ Active(asOf) \subseteq Active(asOf)'
       /\ \A o \in Named(observations, asOf) : \E n \in Named(observations, asOf)' :
            n = o \/ (n.arrangement = o.arrangement /\ n.at > o.at)
       /\ \A p \in Named(exitPlans, asOf) : \E n \in Named(exitPlans, asOf)' :
            n = p \/ (n.arrangement = p.arrangement /\ n.at > p.at)]_vars

\* Only a conflict heals.  A register that cannot be reported for some time can be
\* again only if no arrangement was stale and nothing about the arrangements in
\* force was from after that time: a stale arrangement, even one that has lapsed,
\* and evidence dated later shut out that time for good.
OnlyConflictsHeal ==
  [][\A asOf \in Time : Refused(asOf) /\ ~Refused(asOf)' =>
       /\ \A a \in arrangements : Current(a)
       /\ \A e \in Named(observations, asOf) \cup Named(exitPlans, asOf) :
            e.at <= asOf]_vars
=============================================================================
