------------------------------ MODULE Portfolio ------------------------------
(***************************************************************************)
(* PortfolioAssuranceRegistry (src/src/doraops/assurance.py): the policies *)
(* of one portfolio, the governance dossiers of its entities, and series   *)
(* of snapshots assembled from the latest dossiers under a policy.         *)
(*                                                                         *)
(* A registered document has passed the offline verifier.  A record stands *)
(* for its digest: documents, policies or snapshots are equal when their   *)
(* digests are.                                                            *)
(***************************************************************************)
EXTENDS AssuranceView, Sequences

CONSTANTS
  Entity,
  Document,       \* the dossiers that callers hold: generated_at and content
  Policy,         \* the policies that callers hold: registered_at and rule
  PolicyId,
  SnapshotId,
  Time,           \* generated_at, registered_at and assembled_at values
  MaxDossiers, MaxVersions, MaxSequence   \* bounds on the histories

ASSUME PortfolioAssumption ==
  /\ Time \subseteq Nat /\ {MaxDossiers, MaxVersions, MaxSequence} \subseteq Nat
  /\ \A d \in Document :
       DOMAIN d = {"at", "content"} /\ d.at \in Time /\ IsContent(d.content)
  /\ \A p \in Policy :
       DOMAIN p = {"at", "rule"} /\ p.at \in Time /\ IsRule(p.rule)
  /\ None \notin Document

VARIABLES
  policies,   \* _policies: the versions of every policy_id
  dossiers,   \* _dossiers: the documents registered for every entity
  latest,     \* _latest_dossier
  snapshots   \* _snapshots: the sequence of every snapshot_id

vars == <<policies, dossiers, latest, snapshots>>

Init ==
  /\ policies = [p \in PolicyId |-> <<>>]
  /\ dossiers = [e \in Entity |-> {}]
  /\ latest = [e \in Entity |-> None]
  /\ snapshots = [s \in SnapshotId |-> <<>>]

-----------------------------------------------------------------------------
PolicyOf(ref) == policies[ref.id][ref.version]

\* assert_policy_current
PolicyCurrent(ref) ==
  ref.version \in DOMAIN policies[ref.id] /\ ref.version = Len(policies[ref.id])

\* A PortfolioAssuranceSnapshot with these positions that is consistent in itself.
SnapshotOf(ref, positions, exposures, at) ==
  [policy    |-> ref,
   positions |-> positions,
   exposures |-> exposures,
   state     |-> PortfolioState(positions, exposures),
   findings  |-> FindingsOf(positions, exposures),
   at        |-> at]

\* What the constructor of a snapshot and verify_portfolio_snapshot demand of it.
\* Of the findings, that is only whether there are any.
WellFormed(s) ==
  /\ s.state = PortfolioState(s.positions, s.exposures)
  /\ s.state = "healthy" <=> s.findings = {}

\* The snapshot of the given documents, one for every entity in it.
Assemble(ref, documents, at) ==
  LET policy == PolicyOf(ref)
      positions == [e \in DOMAIN documents |-> EntityPosition(documents[e], policy, at)]
  IN  SnapshotOf(ref, positions, PortfolioExposures(positions, policy.rule), at)

\* Whether build_snapshot returns, and the snapshot it returns then.
MayBuild(ref, entities, at) ==
  /\ PolicyCurrent(ref)
  /\ \A e \in entities : latest[e] # None /\ MayAssess(latest[e], PolicyOf(ref), at)

BuildSnapshot(ref, entities, at) ==
  Assemble(ref, [e \in entities |-> latest[e]], at)

-----------------------------------------------------------------------------
(* The registry. *)

\* A repeated version is answered without a change or refused, so that the
\* version registered is the next one.
RegisterPolicy(id, policy) ==
  /\ Len(policies[id]) < MaxVersions
  /\ policies[id] # <<>> => policy.at >= policies[id][Len(policies[id])].at
  /\ policies' = [policies EXCEPT ![id] = Append(@, policy)]
  /\ UNCHANGED <<dossiers, latest, snapshots>>

\* Mutant: a document that is registered again becomes the latest one.
RegisterDossierRewinding(e, document) ==
  /\ \/ document \in dossiers[e]
     \/ /\ Cardinality(dossiers[e]) < MaxDossiers
        /\ latest[e] # None => document.at > latest[e].at
  /\ dossiers' = [dossiers EXCEPT ![e] = @ \cup {document}]
  /\ latest' = [latest EXCEPT ![e] = document]
  /\ UNCHANGED <<policies, snapshots>>

\* Mutant: documents become the latest one in the order of their arrival.
RegisterDossierInAnyOrder(e, document) ==
  /\ document \notin dossiers[e]
  /\ Cardinality(dossiers[e]) < MaxDossiers
  /\ dossiers' = [dossiers EXCEPT ![e] = @ \cup {document}]
  /\ latest' = [latest EXCEPT ![e] = document]
  /\ UNCHANGED <<policies, snapshots>>

\* A document registered before is answered without a change.  Another one of the
\* time of the latest is refused, and so is an earlier one.
RegisterDossier(e, document) ==
  /\ document \notin dossiers[e]
  /\ Cardinality(dossiers[e]) < MaxDossiers
  /\ latest[e] # None => document.at > latest[e].at
  /\ dossiers' = [dossiers EXCEPT ![e] = @ \cup {document}]
  /\ latest' = [latest EXCEPT ![e] = document]
  /\ UNCHANGED <<policies, snapshots>>

\* The positions reproduce the latest dossiers under the policy they name.
Reproduces(s) ==
  \A e \in DOMAIN s.positions :
    /\ latest[e] # None
    /\ latest[e] = s.positions[e].dossier
    /\ MayAssess(latest[e], PolicyOf(s.policy), s.at)
    /\ s.positions[e] = EntityPosition(latest[e], PolicyOf(s.policy), s.at)

\* Mutant: a position need not be of the latest dossier.
AcceptsSuperseded(id, s) ==
  /\ WellFormed(s)
  /\ PolicyCurrent(s.policy)
  /\ snapshots[id] # <<>> => s.at >= snapshots[id][Len(snapshots[id])].at
  /\ \A e \in DOMAIN s.positions : s.positions[e].dossier \in dossiers[e]
  /\ s.exposures = PortfolioExposures(s.positions, PolicyOf(s.policy).rule)

\* Mutant: the snapshot after the last must be later.
AcceptsLater(id, s) ==
  /\ WellFormed(s)
  /\ PolicyCurrent(s.policy)
  /\ snapshots[id] # <<>> => s.at > snapshots[id][Len(snapshots[id])].at
  /\ Reproduces(s)
  /\ s.exposures = PortfolioExposures(s.positions, PolicyOf(s.policy).rule)

\* What register_snapshot demands of a next snapshot of the series.
Accepts(id, s) ==
  /\ WellFormed(s)
  /\ PolicyCurrent(s.policy)
  /\ snapshots[id] # <<>> => s.at >= snapshots[id][Len(snapshots[id])].at
  /\ Reproduces(s)
  /\ s.exposures = PortfolioExposures(s.positions, PolicyOf(s.policy).rule)

\* A repeated sequence is answered without a change or refused.
RegisterSnapshot(id, s) ==
  /\ Len(snapshots[id]) < MaxSequence
  /\ Accepts(id, s)
  /\ snapshots' = [snapshots EXCEPT ![id] = Append(@, s)]
  /\ UNCHANGED <<policies, dossiers, latest>>

\* The documents a caller may have assembled a snapshot from, now or earlier.
Choice == UNION {[E -> UNION {dossiers[e] : e \in Entity}] : E \in (SUBSET Entity) \ {{}}}

PolicyRef ==
  UNION {{[id |-> p, version |-> v] : v \in DOMAIN policies[p]} : p \in PolicyId}

\* What callers offer: a snapshot that was built at some time, of these documents
\* and for this policy, or a copy of one with another state or other findings, with a
\* position that says what another document says, or without the exposures.
Offers(ref, documents, at) ==
  LET built == Assemble(ref, documents, at)
      rule == PolicyOf(ref).rule
      Other(e, d) ==
        [built.positions EXCEPT ![e] =
           [EntityPosition(d, PolicyOf(ref), at) EXCEPT !.dossier = documents[e]]]
  IN  (UNION {{[built EXCEPT !.state = s, !.findings = f] : s \in AssuranceState} :
                f \in {built.findings, {}, {<<None, "unheard of">>}}})
        \cup {SnapshotOf(ref, built.positions, [p \in {} |-> {}], at)}
        \cup UNION {{SnapshotOf(ref, Other(e, d), PortfolioExposures(Other(e, d), rule), at) :
                       d \in dossiers[e]} : e \in DOMAIN documents}

Next ==
  \/ \E id \in PolicyId, policy \in Policy : RegisterPolicy(id, policy)
  \/ \E e \in Entity, document \in Document : RegisterDossier(e, document)
  \/ \E id \in SnapshotId, ref \in PolicyRef, documents \in Choice, at \in Time :
       /\ \A e \in DOMAIN documents :
            /\ documents[e] \in dossiers[e]
            /\ MayAssess(documents[e], PolicyOf(ref), at)
       /\ \E s \in Offers(ref, documents, at) : RegisterSnapshot(id, s)

Spec == Init /\ [][Next]_vars

-----------------------------------------------------------------------------

\* assert_snapshot_current, for the registered snapshot i of a series.
SnapshotCurrent(id, i) ==
  LET s == snapshots[id][i]
  IN  /\ i = Len(snapshots[id])
      /\ PolicyCurrent(s.policy)
      /\ \A e \in DOMAIN s.positions : latest[e] = s.positions[e].dossier

Registered == UNION {{snapshots[id][i] : i \in DOMAIN snapshots[id]} : id \in SnapshotId}

TypeOK ==
  /\ policies \in [PolicyId -> Seq(Policy)]
  /\ dossiers \in [Entity -> SUBSET Document]
  /\ latest \in [Entity -> Document \cup {None}]
  /\ snapshots \in [SnapshotId -> Seq(Registered)]
  /\ \A s \in Registered :
       /\ s.policy \in PolicyRef
       /\ DOMAIN s.positions \subseteq Entity
       /\ s.state \in AssuranceState /\ s.at \in Time

\* A series never falls back on older evidence: an entity's position in a later
\* snapshot stands on the same dossier as in an earlier one, or on one that was
\* generated later, and assembly times follow.
SeriesMoveForward ==
  \A id \in SnapshotId : \A i, j \in DOMAIN snapshots[id] : i < j =>
    LET s == snapshots[id][i]
        t == snapshots[id][j]
    IN  /\ s.at <= t.at
        /\ \A e \in DOMAIN s.positions \cap DOMAIN t.positions :
             \/ s.positions[e].dossier = t.positions[e].dossier
             \/ s.positions[e].dossier.at < t.positions[e].dossier.at

\* A snapshot that passes as current is the one build_snapshot would build now for
\* its entities and its time, to the last exposure, but for its findings: of those it
\* has some exactly if that one has, and nobody compares them.
CurrentIsReproducible ==
  \A id \in SnapshotId : \A i \in DOMAIN snapshots[id] : SnapshotCurrent(id, i) =>
    LET s == snapshots[id][i]
        built == BuildSnapshot(s.policy, DOMAIN s.positions, s.at)
    IN  /\ MayBuild(s.policy, DOMAIN s.positions, s.at)
        /\ [s EXCEPT !.findings = built.findings] = built
        /\ s.findings = {} <=> built.findings = {}

\* Builder and registrar agree: whatever happened before, a snapshot just built at
\* a time that is not before the last of the series is accepted by register_snapshot.
BuiltIsAccepted ==
  \A id \in SnapshotId, ref \in PolicyRef, E \in (SUBSET Entity) \ {{}}, at \in Time :
    /\ MayBuild(ref, E, at)
    /\ snapshots[id] # <<>> => at >= snapshots[id][Len(snapshots[id])].at
    => Accepts(id, BuildSnapshot(ref, E, at))

\* Stale evidence anywhere asks for revalidation, whatever else is wrong; breached
\* is some artifact's own breach or block; and a snapshot is only healthy if every
\* dossier was young enough, has something current to say in every required domain
\* and nothing else in any, and no provider reaches a threshold.
StateIsEarned(s) ==
  LET rule == PolicyOf(s.policy).rule
      Of(e) == s.positions[e].dossier
      artifacts == UNION {Of(e).content.artifacts : e \in DOMAIN s.positions}
      old == \E e \in DOMAIN s.positions : s.at - Of(e).at > rule.maxAge
      stale == old \/ \E a \in artifacts : "revalidation_required" \in {a.state, a.says}
      breach == \E a \in artifacts : a.says \in {"breached", "blocked"}
      Uses(e, p) == {x \in Of(e).content.arrangements : x.provider = p}
      users(p) == {e \in DOMAIN s.positions : Uses(e, p) # {}}
      exposed(p) == UNION {{<<e, f>> : f \in UNION {x.critical : x \in Uses(e, p)}} :
                             e \in users(p)}
  IN  /\ s.state = "revalidation_required" <=> stale
      /\ s.state = "breached" <=> breach /\ ~stale
      /\ s.state = "healthy" =>
           /\ \A a \in artifacts : a.state = "current" /\ a.says = "nothing"
           /\ \A e \in DOMAIN s.positions :
                /\ rule.required \subseteq {a.domain : a \in Of(e).content.artifacts}
                /\ \A x \in Of(e).content.arrangements :
                     /\ ~(Cardinality(users(x.provider)) >= rule.entities)
                     /\ ~(Cardinality(exposed(x.provider)) >= rule.functions)

\* docs/RESILIENCE_ASSURANCE.md, State model, end to end: the state of a registered
\* snapshot is what the dossiers below it say, artifact by artifact.
StatesAreEarned ==
  \A id \in SnapshotId : \A i \in DOMAIN snapshots[id] : StateIsEarned(snapshots[id][i])

\* A registered snapshot that stopped being current never passes as current again:
\* no later policy, dossier or snapshot, and no document offered once more,
\* brings superseded evidence back.
StaleStaysStale ==
  [][\A id \in SnapshotId : \A i \in DOMAIN snapshots[id] :
       ~SnapshotCurrent(id, i) => ~SnapshotCurrent(id, i)']_vars
=============================================================================
