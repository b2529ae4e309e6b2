--------------------------- MODULE PortfolioProofs ---------------------------
(***************************************************************************)
(* Proofs about Portfolio, for any entities, documents, policies and       *)
(* times.                                                                  *)
(*                                                                         *)
(* The strengthening IInv says where the parts of a registered snapshot    *)
(* come from: every position stands on a document of its entity, none of   *)
(* which is younger than the latest, and the snapshot is the one that      *)
(* build_snapshot assembles from these documents.                          *)
(***************************************************************************)
EXTENDS Portfolio, SequenceTheorems, TLAPS

\* The latest document of an entity is later than every other one it has.
LatestIsLatest ==
  \A e \in Entity : \A d \in dossiers[e] :
    latest[e] # None /\ (d = latest[e] \/ d.at < latest[e].at)

LatestIsRegistered ==
  \A e \in Entity : latest[e] # None => latest[e] \in dossiers[e]

\* Every registered snapshot is assembled from registered documents.
DocumentsOf(s) == [e \in DOMAIN s.positions |-> s.positions[e].dossier]

IsAssembled(s) ==
  /\ \A e \in DOMAIN s.positions :
       /\ s.positions[e].dossier \in dossiers[e]
       /\ MayAssess(s.positions[e].dossier, PolicyOf(s.policy), s.at)
  /\ LET built == Assemble(s.policy, DocumentsOf(s), s.at)
     IN  /\ [s EXCEPT !.findings = built.findings] = built
         /\ s.findings = {} <=> built.findings = {}

Assembled ==
  \A id \in SnapshotId : \A i \in DOMAIN snapshots[id] : IsAssembled(snapshots[id][i])

IInv == TypeOK /\ LatestIsLatest /\ LatestIsRegistered /\ Assembled

-----------------------------------------------------------------------------
(* The algebra of states. *)

LEMMA WorstIsHead ==
  ASSUME NEW states \in SUBSET AssuranceState, states # {}
  PROVE  Worst(states) \in states /\ \A t \in states : Rank[t] <= Rank[Worst(states)]
<1> DEFINE Heads(s) == \A t \in states : Rank[t] <= Rank[s]
<1>1. \E s \in states : Heads(s)
  <2>1. CASE "revalidation_required" \in states
    BY <2>1 DEF AssuranceState, Rank
  <2>2. CASE "revalidation_required" \notin states /\ "breached" \in states
    BY <2>2 DEF AssuranceState, Rank
  <2>3. CASE /\ {"revalidation_required", "breached"} \cap states = {}
             /\ "incomplete" \in states
    BY <2>3 DEF AssuranceState, Rank
  <2>4. CASE /\ {"revalidation_required", "breached", "incomplete"} \cap states = {}
             /\ "attention" \in states
    BY <2>4 DEF AssuranceState, Rank
  <2>5. CASE states = {"healthy"}
    BY <2>5 DEF Rank
  <2> QED
    BY <2>1, <2>2, <2>3, <2>4, <2>5 DEF AssuranceState
<1>2. /\ (CHOOSE s \in states : Heads(s)) \in states
      /\ Heads(CHOOSE s \in states : Heads(s))
  BY <1>1, Zenon
<1> QED
  BY <1>2, Zenon DEF Worst

LEMMA WorstIsAState ==
  ASSUME NEW states \in SUBSET AssuranceState
  PROVE  Worst(states) \in AssuranceState
<1>1. CASE states = {}
  BY <1>1 DEF Worst, AssuranceState
<1>2. CASE states # {}
  BY <1>2, WorstIsHead
<1> QED
  BY <1>1, <1>2

\* The worst of some states, by the rank of each.
LEMMA WorstByRank ==
  ASSUME NEW states \in SUBSET AssuranceState
  PROVE  /\ Worst(states) = "revalidation_required" <=> "revalidation_required" \in states
         /\ Worst(states) = "breached" <=>
              "breached" \in states /\ "revalidation_required" \notin states
         /\ Worst(states) = "healthy" => states \subseteq {"healthy"}
         /\ states \subseteq {"healthy"} => Worst(states) = "healthy"
<1>1. CASE states = {}
  BY <1>1 DEF Worst
<1>2. CASE states # {}
  <2> DEFINE w == Worst(states)
             Heads(s) == \A t \in states : Rank[t] <= Rank[s]
  <2>1. w \in states /\ \A t \in states : Rank[t] <= Rank[w]
    BY <1>2, WorstIsHead
  <2> HIDE DEF w
  <2>2. /\ w = "revalidation_required" <=> "revalidation_required" \in states
        /\ w = "breached" <=> "breached" \in states /\ "revalidation_required" \notin states
        /\ w = "healthy" => states \subseteq {"healthy"}
        /\ states \subseteq {"healthy"} => w = "healthy"
    BY <2>1 DEF AssuranceState, Rank
  <2> QED
    BY <2>2 DEF w
<1> QED
  BY <1>1, <1>2

\* There are findings exactly when the state is not healthy (build_snapshot, and the
\* constructor of the snapshot).
LEMMA FindingsTellTheState ==
  ASSUME NEW positions, NEW exposures,
         \A e \in DOMAIN positions : positions[e].state \in AssuranceState
  PROVE  PortfolioState(positions, exposures) = "healthy"
           <=> FindingsOf(positions, exposures) = {}
<1> DEFINE own == {positions[e].state : e \in DOMAIN positions}
           raised == {"attention" : p \in {q \in DOMAIN exposures : Concentrated(exposures[q])}}
           unhealthy == {x \in DOMAIN positions : positions[x].state # "healthy"}
           entities == {<<e, positions[e].state>> : e \in unhealthy}
           Of(p) == {<<p, c>> : c \in Conditions(exposures[p])}
           providers == UNION {Of(p) : p \in DOMAIN exposures}
<1>1. own \cup raised \in SUBSET AssuranceState
  BY DEF AssuranceState
<1>2. PortfolioState(positions, exposures) = "healthy"
        <=> own \subseteq {"healthy"} /\ raised \subseteq {"healthy"}
  <2> HIDE DEF own, raised
  <2>1. Worst(own \cup raised) = "healthy" <=> own \cup raised \subseteq {"healthy"}
    BY <1>1, WorstByRank
  <2> QED
    BY <2>1 DEF PortfolioState, own, raised
<1>3. own \subseteq {"healthy"} <=> entities = {}
  BY Zenon
<1>4. raised \subseteq {"healthy"} <=> \A p \in DOMAIN exposures : ~Concentrated(exposures[p])
  OBVIOUS
<1>5. providers = {} <=> \A p \in DOMAIN exposures : ~Concentrated(exposures[p])
  <2>1. \A p : Of(p) = {} <=> ~Concentrated(exposures[p])
    BY DEF Concentrated
  <2> HIDE DEF Of
  <2> QED
    BY <2>1
<1>6. FindingsOf(positions, exposures) = entities \cup providers
  BY DEF FindingsOf
<1> HIDE DEF own, raised, entities, providers
<1> QED
  BY <1>2, <1>3, <1>4, <1>5, <1>6

LEMMA DomainHasAState ==
  ASSUME NEW content, NEW domain
  PROVE  DomainState(content, domain) \in AssuranceState
<1>1. \A says : Represented(says) \in AssuranceState
  BY DEF Represented, AssuranceState
<1>2. {Represented(a.says) : a \in ArtifactsOf(content, domain)} \in SUBSET AssuranceState
  BY <1>1
<1>3. SemanticState(ArtifactsOf(content, domain)) \in AssuranceState
  BY <1>2, WorstIsAState DEF SemanticState
<1> QED
  BY <1>3 DEF DomainState, AssuranceState

LEMMA PositionHasAState ==
  ASSUME NEW document, NEW policy, NEW at
  PROVE  /\ EntityPosition(document, policy, at).state \in AssuranceState
         /\ EntityPosition(document, policy, at).dossier = document
<1> DEFINE content == document.content
           domains == [d \in Summarised(content, policy.rule) |-> DomainState(content, d)]
           freshness == Freshness(document, policy, at)
<1>1. freshness \in AssuranceState
  BY DEF Freshness, AssuranceState
<1>2. {domains[d] : d \in DOMAIN domains} \in SUBSET AssuranceState
  BY DomainHasAState
<1>3. Worst({domains[d] : d \in DOMAIN domains} \cup {freshness}) \in AssuranceState
  <2> HIDE DEF domains, freshness
  <2> QED
    BY <1>1, <1>2, WorstIsAState
<1> QED
  BY <1>3 DEF EntityPosition

LEMMA PortfolioHasAState ==
  ASSUME NEW positions, NEW exposures,
         \A e \in DOMAIN positions : positions[e].state \in AssuranceState
  PROVE  PortfolioState(positions, exposures) \in AssuranceState
<1> DEFINE states == {positions[e].state : e \in DOMAIN positions}
           raised == {"attention" : p \in {q \in DOMAIN exposures : Concentrated(exposures[q])}}
<1>1. states \cup raised \in SUBSET AssuranceState
  BY DEF AssuranceState
<1> QED
  BY <1>1, WorstIsAState DEF PortfolioState

-----------------------------------------------------------------------------
(* A snapshot that callers offer. *)

HasSnapshotShape(s) ==
  /\ s.positions = [e \in DOMAIN s.positions |-> s.positions[e]]
  /\ s = [policy |-> s.policy, positions |-> s.positions,
          exposures |-> s.exposures, state |-> s.state,
          findings |-> s.findings, at |-> s.at]

LEMMA OfChoice ==
  ASSUME NEW documents \in Choice
  PROVE  DOMAIN documents \subseteq Entity
BY DEF Choice

\* Whatever is offered has the shape of a snapshot and stands on its documents.
LEMMA OfferedIsASnapshot ==
  ASSUME NEW ref \in PolicyRef, NEW documents \in Choice, NEW at \in Time,
         NEW s \in Offers(ref, documents, at)
  PROVE  /\ s.policy = ref /\ s.at = at /\ s.state \in AssuranceState
         /\ DOMAIN s.positions = DOMAIN documents
         /\ HasSnapshotShape(s)
<1> DEFINE policy == PolicyOf(ref)
           built == Assemble(ref, documents, at)
           positions == [e \in DOMAIN documents |-> EntityPosition(documents[e], policy, at)]
           other(e, d) ==
             [built.positions EXCEPT ![e] =
                [EntityPosition(d, policy, at) EXCEPT !.dossier = documents[e]]]
<1>1. \A e \in DOMAIN positions : positions[e].state \in AssuranceState
  BY PositionHasAState
<1>3. built = SnapshotOf(ref, positions, PortfolioExposures(positions, policy.rule), at)
  BY DEF Assemble
<1>7. built.positions = positions
  BY <1>3 DEF SnapshotOf
<1>2. \A e \in DOMAIN documents : \A d \in dossiers[e] :
        \A f \in DOMAIN other(e, d) : other(e, d)[f].state \in AssuranceState
  <2> SUFFICES ASSUME NEW e \in DOMAIN documents, NEW d \in dossiers[e],
                      NEW f \in DOMAIN other(e, d)
               PROVE  other(e, d)[f].state \in AssuranceState
    OBVIOUS
  <2>1. CASE f # e
    BY <1>1, <1>7, <2>1
  <2>2. CASE f = e
    <3>1. EntityPosition(d, policy, at).state \in AssuranceState
      BY PositionHasAState
    <3>2. [EntityPosition(d, policy, at) EXCEPT !.dossier = documents[e]].state
            = EntityPosition(d, policy, at).state
      BY DEF EntityPosition
    <3> QED
      BY <1>7, <2>2, <3>1, <3>2
  <2> QED
    BY <2>1, <2>2
<1>4. CASE \E st \in AssuranceState : \E f : s = [built EXCEPT !.state = st, !.findings = f]
  <2> HIDE DEF positions, policy
  <2>1. DOMAIN positions = DOMAIN documents /\ positions = [e \in DOMAIN positions |-> positions[e]]
    BY DEF positions
  <2>2. PICK st \in AssuranceState : \E f : s = [built EXCEPT !.state = st, !.findings = f]
    BY <1>4, Zenon
  <2>3. PICK f : s = [built EXCEPT !.state = st, !.findings = f]
    BY <2>2, Zenon
  <2> DEFINE exposures == PortfolioExposures(positions, policy.rule)
  <2>4. built = [policy |-> ref, positions |-> positions, exposures |-> exposures,
                 state |-> PortfolioState(positions, exposures),
                 findings |-> FindingsOf(positions, exposures), at |-> at]
    BY <1>3 DEF SnapshotOf
  <2> HIDE DEF built, exposures
  <2>5. s = [policy |-> ref, positions |-> positions, exposures |-> exposures,
             state |-> st, findings |-> f, at |-> at]
    BY <2>3, <2>4
  <2> QED
    BY <2>1, <2>5 DEF HasSnapshotShape
<1>5. CASE s = SnapshotOf(ref, built.positions, [p \in {} |-> {}], at)
  <2>2. PortfolioState(positions, [p \in {} |-> {}]) \in AssuranceState
    <3> HIDE DEF positions
    <3> QED
      BY <1>1, PortfolioHasAState
  <2>3. DOMAIN positions = DOMAIN documents /\ positions = [e \in DOMAIN positions |-> positions[e]]
    OBVIOUS
  <2> HIDE DEF positions, policy
  <2> QED
    BY <1>5, <1>7, <2>2, <2>3 DEF SnapshotOf, HasSnapshotShape
<1>6. CASE \E e \in DOMAIN documents : \E d \in dossiers[e] :
             s = SnapshotOf(ref, other(e, d), PortfolioExposures(other(e, d), policy.rule), at)
  <2>0. PICK e \in DOMAIN documents : \E d \in dossiers[e] :
          s = SnapshotOf(ref, other(e, d), PortfolioExposures(other(e, d), policy.rule), at)
    BY <1>6
  <2>1. PICK d \in dossiers[e] :
          s = SnapshotOf(ref, other(e, d), PortfolioExposures(other(e, d), policy.rule), at)
    BY <2>0
  <2> DEFINE o == other(e, d)
  <2>2. \A f \in DOMAIN o : o[f].state \in AssuranceState
    BY <1>2
  <2>3. DOMAIN o = DOMAIN documents /\ o = [f \in DOMAIN o |-> o[f]]
    BY <1>7
  <2>4. s = SnapshotOf(ref, o, PortfolioExposures(o, policy.rule), at)
    BY <2>1
  <2> HIDE DEF o, policy
  <2>5. PortfolioState(o, PortfolioExposures(o, policy.rule)) \in AssuranceState
    BY <2>2, PortfolioHasAState
  <2> QED
    BY <2>3, <2>4, <2>5 DEF SnapshotOf, HasSnapshotShape
<1> DEFINE Restated(st, f) == [built EXCEPT !.state = st, !.findings = f]
           stated == {built.findings, {}, {<<None, "unheard of">>}}
           Bare == SnapshotOf(ref, built.positions, [p \in {} |-> {}], at)
           Mixed(e, d) == SnapshotOf(ref, other(e, d),
                                     PortfolioExposures(other(e, d), policy.rule), at)
           altered == UNION {{Restated(st, f) : st \in AssuranceState} : f \in stated}
           mixed == UNION {{Mixed(e, d) : d \in dossiers[e]} : e \in DOMAIN documents}
<1>8. Offers(ref, documents, at) = altered \cup {Bare} \cup mixed
  BY Zenon DEF Offers
<1>9. \/ \E st \in AssuranceState : \E f : s = Restated(st, f)
      \/ s = Bare
      \/ \E e \in DOMAIN documents : \E d \in dossiers[e] : s = Mixed(e, d)
  <2>1. s \in altered \/ s = Bare \/ s \in mixed
    <3> HIDE DEF altered, Bare, mixed
    <3> QED
      BY <1>8
  <2>2. s \in altered => \E f \in stated : s \in {Restated(st, f) : st \in AssuranceState}
    <3> HIDE DEF Restated, stated
    <3> QED
      BY Zenon
  <2>3. \A f : s \in {Restated(st, f) : st \in AssuranceState} =>
                \E st \in AssuranceState : s = Restated(st, f)
    <3> HIDE DEF Restated
    <3> QED
      BY Zenon
  <2>4. s \in mixed => \E e \in DOMAIN documents : \E d \in dossiers[e] : s = Mixed(e, d)
    <3> HIDE DEF Mixed
    <3> QED
      BY Zenon
  <2> HIDE DEF altered, Restated, Bare, Mixed, mixed
  <2> QED
    BY <2>1, <2>2, <2>3, <2>4, Zenon
<1> QED
  BY <1>4, <1>5, <1>6, <1>9, Zenon

\* What register_snapshot accepts of it is what build_snapshot would return.
LEMMA AcceptedIsAssembled ==
  ASSUME TypeOK, LatestIsRegistered, NEW id \in SnapshotId,
         NEW ref \in PolicyRef, NEW documents \in Choice, NEW at \in Time,
         NEW s \in Offers(ref, documents, at), Accepts(id, s)
  PROVE  /\ IsAssembled(s)
         /\ \A e \in DOMAIN s.positions : s.positions[e].dossier = latest[e]
<1> DEFINE own == DocumentsOf(s)
           policy == PolicyOf(s.policy)
           positions == [e \in DOMAIN own |-> EntityPosition(own[e], policy, s.at)]
<1>1. /\ DOMAIN s.positions \subseteq Entity
      /\ s.positions = [e \in DOMAIN s.positions |-> s.positions[e]]
      /\ s = [policy |-> s.policy, positions |-> s.positions,
              exposures |-> s.exposures, state |-> s.state,
              findings |-> s.findings, at |-> s.at]
  <2>1. DOMAIN s.positions = DOMAIN documents /\ HasSnapshotShape(s)
    BY OfferedIsASnapshot
  <2> QED
    BY <2>1, OfChoice DEF HasSnapshotShape
<1>2. /\ s.state = PortfolioState(s.positions, s.exposures)
      /\ s.state = "healthy" <=> s.findings = {}
      /\ s.exposures = PortfolioExposures(s.positions, policy.rule)
  BY DEF Accepts, WellFormed
<1>3. \A e \in DOMAIN s.positions :
        /\ latest[e] # None
        /\ s.positions[e].dossier = latest[e]
        /\ MayAssess(latest[e], policy, s.at)
        /\ s.positions[e] = EntityPosition(latest[e], policy, s.at)
  BY DEF Accepts, Reproduces
<1>4. DOMAIN own = DOMAIN s.positions /\ \A e \in DOMAIN own : own[e] = latest[e]
  BY <1>3 DEF DocumentsOf
<1>5. positions = s.positions
  <2> HIDE DEF own, policy
  <2> QED
    BY <1>1, <1>3, <1>4
<1> DEFINE exposures == PortfolioExposures(positions, policy.rule)
           built == SnapshotOf(s.policy, positions, exposures, s.at)
<1>6. [s EXCEPT !.findings = built.findings] = built
  <2> HIDE DEF positions, policy, exposures
  <2>1. s.positions = positions /\ s.exposures = exposures
        /\ s.state = PortfolioState(positions, exposures)
    BY <1>2, <1>5 DEF exposures
  <2> QED
    BY <1>1, <2>1 DEF SnapshotOf
<1>7. s.findings = {} <=> built.findings = {}
  <2>1. \A e \in DOMAIN positions : positions[e].state \in AssuranceState
    BY PositionHasAState
  <2> HIDE DEF positions, policy
  <2>2. PortfolioState(positions, exposures) = "healthy"
          <=> FindingsOf(positions, exposures) = {}
    BY <2>1, FindingsTellTheState
  <2>3. s.state = PortfolioState(positions, exposures)
    BY <1>2, <1>5
  <2>4. built.findings = FindingsOf(positions, exposures)
    BY DEF SnapshotOf
  <2> HIDE DEF exposures, built
  <2> QED
    BY <1>2, <2>2, <2>3, <2>4
<1>8. \A e \in DOMAIN s.positions : s.positions[e].dossier \in dossiers[e]
  BY <1>1, <1>3 DEF LatestIsRegistered
<1>9. built = Assemble(s.policy, own, s.at)
  BY DEF Assemble
<1> HIDE DEF positions, built
<1> QED
  BY <1>3, <1>6, <1>7, <1>8, <1>9 DEF IsAssembled

\* The steps that register a snapshot.
Registers(id, s) ==
  \E ref \in PolicyRef, documents \in Choice, at \in Time :
    s \in Offers(ref, documents, at) /\ RegisterSnapshot(id, s)

LEMMA StepsOfTheRegistry ==
  ASSUME Next
  PROVE  \/ \E id \in PolicyId, policy \in Policy : RegisterPolicy(id, policy)
         \/ \E e \in Entity, document \in Document : RegisterDossier(e, document)
         \/ \E id \in SnapshotId : \E s : Registers(id, s)
BY Zenon DEF Next, Registers

-----------------------------------------------------------------------------
(* The types. *)

\* What a registration leaves of the references to policies.
LEMMA PoliciesAreKept ==
  ASSUME TypeOK, NEW id \in PolicyId, NEW policy \in Policy, RegisterPolicy(id, policy)
  PROVE  /\ PolicyRef \subseteq PolicyRef'
         /\ \A ref \in PolicyRef : PolicyOf(ref)' = PolicyOf(ref)
<1>1. \A p \in PolicyId : policies[p] \in Seq(Policy) /\ policies'[p] \in Seq(Policy)
        /\ DOMAIN policies[p] \subseteq DOMAIN policies'[p]
        /\ \A v \in DOMAIN policies[p] : policies'[p][v] = policies[p][v]
  BY DEF TypeOK, RegisterPolicy
<1> QED
  BY <1>1 DEF PolicyRef, PolicyOf

LEMMA TypesAreInductive ==
  ASSUME TypeOK, LatestIsRegistered, [Next]_vars
  PROVE  TypeOK'
<1>1. CASE UNCHANGED vars
  <2>1. Registered' = Registered /\ PolicyRef' = PolicyRef
    BY <1>1 DEF vars, Registered, PolicyRef
  <2> QED
    BY <1>1, <2>1 DEF vars, TypeOK
<1>2. ASSUME NEW id \in PolicyId, NEW policy \in Policy, RegisterPolicy(id, policy)
      PROVE  TypeOK'
  <2>1. policies' \in [PolicyId -> Seq(Policy)]
    BY <1>2 DEF TypeOK, RegisterPolicy
  <2>2. Registered' = Registered
    BY <1>2 DEF RegisterPolicy, Registered
  <2>3. PolicyRef \subseteq PolicyRef'
    BY <1>2, PoliciesAreKept
  <2> QED
    BY <1>2, <2>1, <2>2, <2>3 DEF TypeOK, RegisterPolicy
<1>3. ASSUME NEW e \in Entity, NEW document \in Document, RegisterDossier(e, document)
      PROVE  TypeOK'
  <2>1. dossiers' \in [Entity -> SUBSET Document] /\ latest' \in [Entity -> Document \cup {None}]
    BY <1>3 DEF TypeOK, RegisterDossier
  <2>2. Registered' = Registered /\ PolicyRef' = PolicyRef
    BY <1>3 DEF RegisterDossier, Registered, PolicyRef
  <2> QED
    BY <1>3, <2>1, <2>2 DEF TypeOK, RegisterDossier
<1>4. ASSUME NEW id \in SnapshotId, NEW s, Registers(id, s)
      PROVE  TypeOK'
  <2>1. PICK ref \in PolicyRef, documents \in Choice, at \in Time :
          s \in Offers(ref, documents, at) /\ RegisterSnapshot(id, s)
    BY <1>4 DEF Registers
  <2>2. /\ s.policy \in PolicyRef /\ DOMAIN s.positions \subseteq Entity
        /\ s.state \in AssuranceState /\ s.at \in Time
    <3>1. /\ s.policy = ref /\ s.at = at /\ s.state \in AssuranceState
          /\ DOMAIN s.positions = DOMAIN documents
      BY <2>1, OfferedIsASnapshot
    <3> QED
      BY <3>1, OfChoice
  <2>3. /\ snapshots' = [snapshots EXCEPT ![id] = Append(@, s)]
        /\ UNCHANGED <<policies, dossiers, latest>>
    BY <2>1 DEF RegisterSnapshot
  <2>4. \A i \in SnapshotId : snapshots[i] \in Seq(Registered)
    BY DEF TypeOK
  <2>5. \A i \in SnapshotId : snapshots'[i] \in Seq(Registered \cup {s})
    BY <2>3, <2>4 DEF TypeOK
  <2>6. Registered' = Registered \cup {s}
    <3>1. \A i \in SnapshotId : i # id => snapshots'[i] = snapshots[i]
      BY <2>3 DEF TypeOK
    <3>2. snapshots'[id] = Append(snapshots[id], s)
      BY <2>3 DEF TypeOK
    <3>3. {snapshots'[id][j] : j \in DOMAIN snapshots'[id]}
            = {snapshots[id][j] : j \in DOMAIN snapshots[id]} \cup {s}
      BY <2>4, <3>2
    <3> QED
      BY <3>1, <3>3 DEF Registered
  <2>7. PolicyRef' = PolicyRef
    BY <2>3 DEF PolicyRef
  <2> QED
    BY <2>2, <2>3, <2>5, <2>6, <2>7 DEF TypeOK
<1> QED
  BY <1>1, <1>2, <1>3, <1>4, StepsOfTheRegistry

-----------------------------------------------------------------------------
(* Where the parts of a snapshot come from. *)

LEMMA LatestIsInductive ==
  ASSUME TypeOK, LatestIsLatest, LatestIsRegistered, [Next]_vars
  PROVE  LatestIsLatest' /\ LatestIsRegistered'
<1>1. CASE UNCHANGED <<dossiers, latest>>
  BY <1>1 DEF LatestIsLatest, LatestIsRegistered
<1>2. ASSUME NEW e \in Entity, NEW document \in Document, RegisterDossier(e, document)
      PROVE  LatestIsLatest' /\ LatestIsRegistered'
  <2>1. /\ dossiers'[e] = dossiers[e] \cup {document} /\ latest'[e] = document
        /\ \A f \in Entity : f # e => dossiers'[f] = dossiers[f] /\ latest'[f] = latest[f]
    BY <1>2 DEF RegisterDossier, TypeOK
  <2>2. document # None
    BY PortfolioAssumption
  <2>3. \A d \in dossiers[e] : d.at < document.at
    <3>1. \A d \in Document : d.at \in Nat
      BY PortfolioAssumption
    <3>2. latest[e] # None => document.at > latest[e].at
      BY <1>2 DEF RegisterDossier
    <3> QED
      BY <3>1, <3>2 DEF LatestIsLatest, TypeOK
  <2> QED
    BY <2>1, <2>2, <2>3 DEF LatestIsLatest, LatestIsRegistered
<1>3. CASE UNCHANGED vars
  BY <1>1, <1>3 DEF vars
<1>4. CASE Next
  <2>1. ASSUME NEW id \in PolicyId, NEW policy \in Policy, RegisterPolicy(id, policy)
        PROVE  UNCHANGED <<dossiers, latest>>
    BY <2>1 DEF RegisterPolicy
  <2>2. ASSUME NEW id \in SnapshotId, NEW s, Registers(id, s)
        PROVE  UNCHANGED <<dossiers, latest>>
    BY <2>2 DEF Registers, RegisterSnapshot
  <2> QED
    BY <1>1, <1>2, <1>4, <2>1, <2>2, StepsOfTheRegistry
<1> QED
  BY <1>3, <1>4

LEMMA AssembledIsInductive ==
  ASSUME IInv, [Next]_vars
  PROVE  Assembled'
<1> USE DEF IInv
<1>1. ASSUME UNCHANGED snapshots,
             \A e \in Entity : dossiers[e] \subseteq dossiers'[e],
             \A ref \in PolicyRef : PolicyOf(ref)' = PolicyOf(ref)
      PROVE  Assembled'
  <2> SUFFICES ASSUME NEW id \in SnapshotId, NEW i \in DOMAIN snapshots[id]
               PROVE  IsAssembled(snapshots[id][i])'
    BY <1>1 DEF Assembled
  <2> DEFINE s == snapshots[id][i]
  <2>1. s' = s /\ IsAssembled(s) /\ s.policy \in PolicyRef /\ DOMAIN s.positions \subseteq Entity
    BY <1>1 DEF Assembled, TypeOK, Registered
  <2>2. PolicyOf(s.policy)' = PolicyOf(s.policy)
    BY <1>1, <2>1
  <2>3. Assemble(s.policy, DocumentsOf(s), s.at)' = Assemble(s.policy, DocumentsOf(s), s.at)
    BY <2>1, <2>2 DEF Assemble, DocumentsOf
  <2> QED
    BY <1>1, <2>1, <2>2, <2>3 DEF IsAssembled
<1>2. ASSUME NEW id \in PolicyId, NEW policy \in Policy, RegisterPolicy(id, policy)
      PROVE  Assembled'
  <2>1. \A ref \in PolicyRef : PolicyOf(ref)' = PolicyOf(ref)
    BY <1>2, PoliciesAreKept
  <2> QED
    BY <1>1, <1>2, <2>1 DEF RegisterPolicy
<1>3. ASSUME NEW e \in Entity, NEW document \in Document, RegisterDossier(e, document)
      PROVE  Assembled'
  <2>1. \A f \in Entity : dossiers[f] \subseteq dossiers'[f]
    BY <1>3 DEF RegisterDossier, TypeOK
  <2>2. UNCHANGED <<policies, snapshots>>
    BY <1>3 DEF RegisterDossier
  <2>3. \A ref \in PolicyRef : PolicyOf(ref)' = PolicyOf(ref)
    BY <2>2 DEF PolicyOf
  <2> QED
    BY <1>1, <2>1, <2>2, <2>3
<1>4. ASSUME NEW id \in SnapshotId, NEW s, Registers(id, s)
      PROVE  Assembled'
  <2>1. PICK ref \in PolicyRef, documents \in Choice, at \in Time :
          s \in Offers(ref, documents, at) /\ RegisterSnapshot(id, s)
    BY <1>4 DEF Registers
  <2>2. /\ Accepts(id, s)
        /\ snapshots' = [snapshots EXCEPT ![id] = Append(@, s)]
        /\ UNCHANGED <<policies, dossiers, latest>>
    BY <2>1 DEF RegisterSnapshot
  <2>3. IsAssembled(s)
    BY <2>1, <2>2, AcceptedIsAssembled
  <2>4. \A x : IsAssembled(x) => IsAssembled(x)'
    BY <2>2 DEF IsAssembled, Assemble, PolicyOf, DocumentsOf
  <2>5. \A j \in SnapshotId : \A i \in DOMAIN snapshots'[j] :
          \/ snapshots'[j][i] = s
          \/ i \in DOMAIN snapshots[j] /\ snapshots'[j][i] = snapshots[j][i]
    BY <2>2 DEF TypeOK
  <2> QED
    BY <2>3, <2>4, <2>5 DEF Assembled
<1>5. CASE UNCHANGED vars
  <2>1. /\ UNCHANGED <<policies, dossiers, snapshots>>
        /\ \A ref \in PolicyRef : PolicyOf(ref)' = PolicyOf(ref)
    BY <1>5 DEF vars, PolicyOf
  <2> QED
    BY <1>1, <2>1
<1> QED
  BY <1>2, <1>3, <1>4, <1>5, StepsOfTheRegistry

LEMMA InitIsInductive == Init => IInv
BY DEF Init, IInv, TypeOK, Registered, LatestIsLatest, LatestIsRegistered, Assembled

LEMMA IInvIsInductive == IInv /\ [Next]_vars => IInv'
BY TypesAreInductive, LatestIsInductive, AssembledIsInductive DEF IInv

\* Every reachable state of the registry has its types.
THEOREM PortfolioTypeCorrect == Spec => []TypeOK
<1>1. IInv => TypeOK
  BY DEF IInv
<1> QED
  BY <1>1, InitIsInductive, IInvIsInductive, PTL DEF Spec

-----------------------------------------------------------------------------
(* Series of snapshots. *)

\* What SeriesMoveForward says of an earlier and a later snapshot of a series.
Follows(x, y) ==
  /\ x.at <= y.at
  /\ \A e \in DOMAIN x.positions \cap DOMAIN y.positions :
       \/ x.positions[e].dossier = y.positions[e].dossier
       \/ x.positions[e].dossier.at < y.positions[e].dossier.at

LEMMA SeriesStepForward ==
  ASSUME IInv, SeriesMoveForward, [Next]_vars
  PROVE  SeriesMoveForward'
<1> USE DEF IInv
<1>1. CASE UNCHANGED snapshots
  BY <1>1 DEF SeriesMoveForward
<1>2. ASSUME NEW id \in SnapshotId, NEW s, Registers(id, s)
      PROVE  SeriesMoveForward'
  <2>1. PICK ref \in PolicyRef, documents \in Choice, at \in Time :
          s \in Offers(ref, documents, at) /\ RegisterSnapshot(id, s)
    BY <1>2 DEF Registers
  <2>2. /\ Accepts(id, s)
        /\ snapshots' = [snapshots EXCEPT ![id] = Append(@, s)]
    BY <2>1 DEF RegisterSnapshot
  <2>3. s.at \in Nat /\ DOMAIN s.positions \subseteq Entity
    <3>1. s.at = at /\ DOMAIN s.positions = DOMAIN documents
      BY <2>1, OfferedIsASnapshot
    <3> QED
      BY <3>1, OfChoice, PortfolioAssumption
  <2>4. \A e \in DOMAIN s.positions : s.positions[e].dossier = latest[e]
    BY <2>1, <2>2, AcceptedIsAssembled
  <2> DEFINE n == Len(snapshots[id])
  <2>5. snapshots[id] \in Seq(Registered) /\ n \in Nat /\ DOMAIN snapshots[id] = 1..n
    BY DEF TypeOK
  <2>6. \A i \in 1..n : /\ snapshots[id][i].at \in Nat
                        /\ IsAssembled(snapshots[id][i])
    <3>1. \A i \in 1..n : snapshots[id][i] \in Registered
      BY <2>5 DEF Registered
    <3>2. \A x \in Registered : x.at \in Nat
      BY PortfolioAssumption DEF TypeOK
    <3> QED
      BY <2>5, <3>1, <3>2 DEF Assembled
  <2>7. \A i \in 1..n : snapshots[id][i].at <= s.at
    <3> SUFFICES ASSUME NEW i \in 1..n
                 PROVE  snapshots[id][i].at <= s.at
      OBVIOUS
    <3>1. snapshots[id] # <<>>
      BY <2>5
    <3>2. s.at >= snapshots[id][n].at
      BY <2>2, <3>1 DEF Accepts
    <3>3. snapshots[id][i].at <= snapshots[id][n].at
      BY <2>5, <2>6 DEF SeriesMoveForward
    <3> QED
      BY <2>3, <2>5, <2>6, <3>2, <3>3
  <2>8. \A i \in 1..n : \A e \in DOMAIN snapshots[id][i].positions \cap DOMAIN s.positions :
          \/ snapshots[id][i].positions[e].dossier = s.positions[e].dossier
          \/ snapshots[id][i].positions[e].dossier.at < s.positions[e].dossier.at
    BY <2>3, <2>4, <2>6 DEF LatestIsLatest, IsAssembled
  <2>9. /\ \A j \in SnapshotId : j # id => snapshots'[j] = snapshots[j]
        /\ DOMAIN snapshots'[id] = 1..(n + 1)
        /\ snapshots'[id][n + 1] = s
        /\ \A i \in 1..n : snapshots'[id][i] = snapshots[id][i]
    BY <2>2, <2>5 DEF TypeOK
  <2> SUFFICES ASSUME NEW k \in SnapshotId, NEW i \in DOMAIN snapshots'[k],
                      NEW j \in DOMAIN snapshots'[k], i < j
               PROVE  Follows(snapshots'[k][i], snapshots'[k][j])
    BY DEF SeriesMoveForward, Follows
  <2>10. \A h \in SnapshotId : \A x, y \in DOMAIN snapshots[h] :
           x < y => Follows(snapshots[h][x], snapshots[h][y])
    BY DEF SeriesMoveForward, Follows
  <2>11. CASE k # id
    BY <2>9, <2>10, <2>11
  <2>12. CASE k = id /\ j = n + 1
    <3>1. i \in 1..n
      BY <2>5, <2>9, <2>12
    <3>2. Follows(snapshots[id][i], s)
      BY <2>7, <2>8, <3>1 DEF Follows
    <3> QED
      BY <2>9, <2>12, <3>1, <3>2
  <2>13. CASE k = id /\ j # n + 1
    <3>1. i \in 1..n /\ j \in 1..n
      BY <2>5, <2>9, <2>13
    <3> QED
      BY <2>5, <2>9, <2>10, <2>13, <3>1
  <2> QED
    BY <2>11, <2>12, <2>13
<1>3. ASSUME NEW id \in PolicyId, NEW policy \in Policy, RegisterPolicy(id, policy)
      PROVE  SeriesMoveForward'
  BY <1>1, <1>3 DEF RegisterPolicy
<1>4. ASSUME NEW e \in Entity, NEW document \in Document, RegisterDossier(e, document)
      PROVE  SeriesMoveForward'
  BY <1>1, <1>4 DEF RegisterDossier
<1>5. CASE UNCHANGED vars
  BY <1>1, <1>5 DEF vars
<1> QED
  BY <1>2, <1>3, <1>4, <1>5, StepsOfTheRegistry

\* A later snapshot of a series never stands on older evidence.
THEOREM SeriesAlwaysMoveForward == Spec => []SeriesMoveForward
<1>1. Init => SeriesMoveForward
  BY DEF Init, SeriesMoveForward
<1> QED
  BY <1>1, InitIsInductive, IInvIsInductive, SeriesStepForward, PTL DEF Spec

\* A snapshot that passes as current is the one build_snapshot would return, but for
\* its findings: of those it has some exactly if that one has, and any will do.
THEOREM CurrentIsAlwaysReproducible == Spec => []CurrentIsReproducible
<1>1. IInv => CurrentIsReproducible
  <2> SUFFICES ASSUME IInv, NEW id \in SnapshotId, NEW i \in DOMAIN snapshots[id],
                      SnapshotCurrent(id, i)
               PROVE  LET s == snapshots[id][i]
                          built == BuildSnapshot(s.policy, DOMAIN s.positions, s.at)
                      IN  /\ MayBuild(s.policy, DOMAIN s.positions, s.at)
                          /\ [s EXCEPT !.findings = built.findings] = built
                          /\ s.findings = {} <=> built.findings = {}
    BY DEF CurrentIsReproducible
  <2> DEFINE s == snapshots[id][i]
             built == BuildSnapshot(s.policy, DOMAIN s.positions, s.at)
  <2>1. IsAssembled(s) /\ DOMAIN s.positions \subseteq Entity
    BY DEF IInv, Assembled, TypeOK, Registered
  <2>2. /\ PolicyCurrent(s.policy)
        /\ \A e \in DOMAIN s.positions : latest[e] = s.positions[e].dossier
    BY DEF SnapshotCurrent
  <2>3. MayBuild(s.policy, DOMAIN s.positions, s.at)
    BY <2>1, <2>2 DEF MayBuild, IsAssembled, IInv, LatestIsLatest
  <2>4. DocumentsOf(s) = [e \in DOMAIN s.positions |-> latest[e]]
    BY <2>2 DEF DocumentsOf
  <2>5. built = Assemble(s.policy, DocumentsOf(s), s.at)
    BY <2>4 DEF BuildSnapshot
  <2> HIDE DEF built, s
  <2>6. [s EXCEPT !.findings = built.findings] = built /\ (s.findings = {} <=> built.findings = {})
    BY <2>1, <2>5 DEF IsAssembled
  <2> QED
    BY <2>3, <2>6 DEF built, s
<1> QED
  BY <1>1, InitIsInductive, IInvIsInductive, PTL DEF Spec

\* A registered snapshot that is stale never passes as current again.
THEOREM StaleAlwaysStaysStale == Spec => StaleStaysStale
<1> DEFINE Kept == \A id \in SnapshotId : \A i \in DOMAIN snapshots[id] :
                     ~SnapshotCurrent(id, i) => ~SnapshotCurrent(id, i)'
<1>1. IInv /\ [Next]_vars => [Kept]_vars
  <2> SUFFICES ASSUME IInv, Next, NEW id \in SnapshotId, NEW i \in DOMAIN snapshots[id],
                      ~SnapshotCurrent(id, i)
               PROVE  ~SnapshotCurrent(id, i)'
    OBVIOUS
  <2> DEFINE s == snapshots[id][i]
  <2>1. /\ IsAssembled(s) /\ s.policy \in PolicyRef /\ DOMAIN s.positions \subseteq Entity
        /\ snapshots[id] \in Seq(Registered)
    BY DEF IInv, Assembled, TypeOK, Registered
  <2>2. /\ s.policy.id \in PolicyId /\ s.policy.version \in DOMAIN policies[s.policy.id]
        /\ policies[s.policy.id] \in Seq(Policy)
    BY <2>1 DEF PolicyRef, IInv, TypeOK
  <2>3. ASSUME NEW p \in PolicyId, NEW policy \in Policy, RegisterPolicy(p, policy)
        PROVE  ~SnapshotCurrent(id, i)'
    <3>1. \/ policies'[s.policy.id] = policies[s.policy.id]
          \/ policies'[s.policy.id] = Append(policies[s.policy.id], policy)
      BY <2>2, <2>3 DEF RegisterPolicy, IInv, TypeOK
    <3>2. UNCHANGED <<latest, snapshots>>
      BY <2>3 DEF RegisterPolicy
    <3>3. CASE ~PolicyCurrent(s.policy)
      <4>1. s.policy.version \in 1..Len(policies[s.policy.id])
        BY <2>2
      <4>2. s.policy.version # Len(policies[s.policy.id])
        BY <2>2, <3>3 DEF PolicyCurrent
      <4>3. s.policy.version # Len(policies'[s.policy.id])
        BY <2>2, <3>1, <4>1, <4>2
      <4> QED
        BY <3>2, <4>3 DEF SnapshotCurrent, PolicyCurrent
    <3>4. CASE PolicyCurrent(s.policy)
      BY <3>2, <3>4 DEF SnapshotCurrent
    <3> QED
      BY <3>3, <3>4
  <2>4. ASSUME NEW e \in Entity, NEW document \in Document, RegisterDossier(e, document)
        PROVE  ~SnapshotCurrent(id, i)'
    <3>1. \A f \in DOMAIN s.positions :
            latest[f] # s.positions[f].dossier => latest'[f] # s.positions[f].dossier
      BY <2>1, <2>4 DEF RegisterDossier, IsAssembled, IInv, TypeOK
    <3>2. UNCHANGED <<policies, snapshots>>
      BY <2>4 DEF RegisterDossier
    <3>3. PolicyCurrent(s.policy)' = PolicyCurrent(s.policy)
      BY <3>2 DEF PolicyCurrent
    <3> QED
      BY <3>1, <3>2, <3>3 DEF SnapshotCurrent
  <2>5. ASSUME NEW j \in SnapshotId, NEW t, Registers(j, t)
        PROVE  ~SnapshotCurrent(id, i)'
    <3>1. /\ snapshots' = [snapshots EXCEPT ![j] = Append(@, t)]
          /\ UNCHANGED <<policies, latest>>
      BY <2>5 DEF Registers, RegisterSnapshot
    <3>2. i \in 1..Len(snapshots[id]) /\ Len(snapshots[id]) \in Nat
      BY <2>1
    <3>4. /\ snapshots'[id][i] = s
          /\ snapshots'[id] = snapshots[id] \/ Len(snapshots'[id]) = Len(snapshots[id]) + 1
      <4>1. CASE j # id
        BY <3>1, <4>1 DEF IInv, TypeOK
      <4>2. CASE j = id
        <5>1. snapshots'[id] = Append(snapshots[id], t)
          BY <3>1, <4>2 DEF IInv, TypeOK
        <5> HIDE DEF s
        <5> QED
          BY <2>1, <3>2, <5>1 DEF s
      <4> QED
        BY <4>1, <4>2
    <3>3. PolicyCurrent(s.policy)' = PolicyCurrent(s.policy)
      BY <3>1, <3>4 DEF PolicyCurrent
    <3> QED
      BY <3>1, <3>2, <3>3, <3>4 DEF SnapshotCurrent
  <2> QED
    BY <2>3, <2>4, <2>5, StepsOfTheRegistry
<1> QED
  BY <1>1, InitIsInductive, IInvIsInductive, PTL DEF Spec, StaleStaysStale

\* Builder and registrar agree in every state, reachable or not.
THEOREM BuiltIsAlwaysAccepted == Spec => []BuiltIsAccepted
<1>1. BuiltIsAccepted
  <2> SUFFICES ASSUME NEW id \in SnapshotId, NEW ref \in PolicyRef,
                      NEW E \in (SUBSET Entity) \ {{}}, NEW at \in Time, MayBuild(ref, E, at),
                      snapshots[id] # <<>> => at >= snapshots[id][Len(snapshots[id])].at
               PROVE  Accepts(id, BuildSnapshot(ref, E, at))
    BY DEF BuiltIsAccepted
  <2> DEFINE documents == [e \in E |-> latest[e]]
             policy == PolicyOf(ref)
             positions == [e \in DOMAIN documents |-> EntityPosition(documents[e], policy, at)]
             exposures == PortfolioExposures(positions, policy.rule)
             s == BuildSnapshot(ref, E, at)
  <2>1. s = SnapshotOf(ref, positions, exposures, at)
    BY DEF BuildSnapshot, Assemble
  <2>2. /\ s.policy = ref /\ s.positions = positions /\ s.exposures = exposures /\ s.at = at
        /\ s.state = PortfolioState(positions, exposures)
        /\ s.findings = FindingsOf(positions, exposures)
    <3> HIDE DEF positions, exposures, s
    <3> QED
      BY <2>1 DEF SnapshotOf
  <2>3. DOMAIN positions = E /\ \A e \in E : positions[e] = EntityPosition(latest[e], policy, at)
    OBVIOUS
  <2>4. \A e \in E : positions[e].dossier = latest[e]
    BY <2>3, PositionHasAState
  <2>5. \A e \in DOMAIN positions : positions[e].state \in AssuranceState
    BY PositionHasAState
  <2> HIDE DEF positions, exposures, s
  <2>6. WellFormed(s)
    BY <2>2, <2>5, FindingsTellTheState DEF WellFormed
  <2>7. Reproduces(s)
    BY <2>2, <2>3, <2>4 DEF Reproduces, MayBuild
  <2> QED
    BY <2>2, <2>6, <2>7 DEF Accepts, MayBuild, exposures, s
<1> QED
  BY <1>1, PTL

-----------------------------------------------------------------------------
(* What a state says of the evidence. *)

\* The state of a domain, by its artifacts.
LEMMA DomainByArtifacts ==
  ASSUME NEW content, NEW domain,
         \A a \in content.artifacts : IsArtifact(a)
  PROVE  LET mine == ArtifactsOf(content, domain)
             state == DomainState(content, domain)
         IN  /\ state = "revalidation_required" <=>
                  \E a \in mine : "revalidation_required" \in {a.state, a.says}
             /\ state = "breached" =>
                  \E a \in mine : a.says \in {"breached", "blocked"}
             /\ (\E a \in mine : a.says \in {"breached", "blocked"}) =>
                  state \in {"breached", "revalidation_required"}
             /\ state = "healthy" =>
                  mine # {} /\ \A a \in mine : a.state = "current" /\ a.says = "nothing"
<1> DEFINE mine == ArtifactsOf(content, domain)
           said == {Represented(a.says) : a \in mine}
           semantic == SemanticState(mine)
           state == DomainState(content, domain)
<1>1. \A says :
         /\ Represented(says) \in AssuranceState
         /\ Represented(says) = "revalidation_required" <=> says = "revalidation_required"
         /\ Represented(says) = "breached" <=> says \in {"breached", "blocked"}
         /\ Represented(says) = "healthy" <=> says = "nothing"
  BY DEF Represented, AssuranceState
<1>2. semantic = Worst(said) /\ said \in SUBSET AssuranceState
  BY <1>1 DEF SemanticState
<1>3. /\ semantic = "revalidation_required" <=> \E a \in mine : a.says = "revalidation_required"
      /\ semantic = "breached" <=>
           /\ \E a \in mine : a.says \in {"breached", "blocked"}
           /\ ~\E a \in mine : a.says = "revalidation_required"
      /\ semantic = "healthy" => \A a \in mine : a.says = "nothing"
      /\ mine = {} => semantic = "healthy"
  <2> HIDE DEF mine, semantic
  <2> QED
    BY <1>1, <1>2, WorstByRank
<1>4. \A a \in mine : a.state \in {"current", "with_gaps", "revalidation_required"}
  BY DEF ArtifactsOf, IsArtifact
<1>5. state = IF mine = {} THEN "incomplete"
              ELSE IF "revalidation_required" \in {a.state : a \in mine} THEN "revalidation_required"
              ELSE IF semantic # "healthy" THEN semantic
              ELSE IF "with_gaps" \in {a.state : a \in mine} THEN "attention" ELSE "healthy"
  BY DEF DomainState
<1> HIDE DEF mine, semantic, state
<1>6. /\ state = "revalidation_required" <=>
           \E a \in mine : "revalidation_required" \in {a.state, a.says}
      /\ state = "breached" => \E a \in mine : a.says \in {"breached", "blocked"}
      /\ (\E a \in mine : a.says \in {"breached", "blocked"}) =>
           state \in {"breached", "revalidation_required"}
      /\ state = "healthy" =>
           mine # {} /\ \A a \in mine : a.state = "current" /\ a.says = "nothing"
  BY <1>3, <1>4, <1>5
<1> QED
  BY <1>6 DEF mine, state

StaleArtifact(a) == "revalidation_required" \in {a.state, a.says}
BreachedArtifact(a) == a.says \in {"breached", "blocked"}
TooOld(document, policy, at) == at - document.at > policy.rule.maxAge

\* The state of a position, by the artifacts of its document.
LEMMA PositionByArtifacts ==
  ASSUME NEW document, NEW policy, NEW at,
         \A a \in document.content.artifacts : IsArtifact(a)
  PROVE  LET artifacts == document.content.artifacts
             state == EntityPosition(document, policy, at).state
             stale == TooOld(document, policy, at) \/ \E a \in artifacts : StaleArtifact(a)
         IN  /\ state = "revalidation_required" <=> stale
             /\ state = "breached" <=> (\E a \in artifacts : BreachedArtifact(a)) /\ ~stale
             /\ state = "healthy" =>
                  /\ policy.rule.required \subseteq {a.domain : a \in artifacts}
                  /\ \A a \in artifacts : a.state = "current" /\ a.says = "nothing"
<1> DEFINE content == document.content
           artifacts == content.artifacts
           old == TooOld(document, policy, at)
           summarised == Summarised(content, policy.rule)
           domains == [d \in summarised |-> DomainState(content, d)]
           freshness == Freshness(document, policy, at)
           states == {domains[d] : d \in DOMAIN domains} \cup {freshness}
           state == EntityPosition(document, policy, at).state
<1>1. state = Worst(states)
  BY DEF EntityPosition
<1>2. /\ freshness = "revalidation_required" <=> old
      /\ freshness \in {"healthy", "revalidation_required"}
  BY DEF Freshness, TooOld
<1>3. \A a \in artifacts : a.domain \in summarised /\ a \in ArtifactsOf(content, a.domain)
  BY DEF Summarised, ArtifactsOf
<1>4. \A d : ArtifactsOf(content, d) = {a \in artifacts : a.domain = d}
  BY DEF ArtifactsOf
<1>5. policy.rule.required \subseteq summarised
  BY DEF Summarised
<1> DEFINE Of(d) == DomainState(content, d)
<1>6. \A d : /\ Of(d) \in AssuranceState
             /\ Of(d) = "revalidation_required" <=>
                  \E a \in ArtifactsOf(content, d) : StaleArtifact(a)
             /\ Of(d) = "breached" => \E a \in ArtifactsOf(content, d) : BreachedArtifact(a)
             /\ (\E a \in ArtifactsOf(content, d) : BreachedArtifact(a)) =>
                  Of(d) \in {"breached", "revalidation_required"}
             /\ Of(d) = "healthy" =>
                  /\ ArtifactsOf(content, d) # {}
                  /\ \A a \in ArtifactsOf(content, d) : a.state = "current" /\ a.says = "nothing"
  BY DomainByArtifacts, DomainHasAState DEF StaleArtifact, BreachedArtifact
<1>7. states = {Of(d) : d \in summarised} \cup {freshness}
  OBVIOUS
<1> HIDE DEF Of, states, summarised, freshness, artifacts, content, old, state
<1>8. states \in SUBSET AssuranceState
  BY <1>2, <1>6, <1>7 DEF AssuranceState
<1>9. "revalidation_required" \in states <=> old \/ \E a \in artifacts : StaleArtifact(a)
  BY <1>2, <1>3, <1>4, <1>6, <1>7
<1>10. /\ "breached" \in states => \E a \in artifacts : BreachedArtifact(a)
       /\ (\E a \in artifacts : BreachedArtifact(a)) =>
            "breached" \in states \/ "revalidation_required" \in states
  BY <1>2, <1>3, <1>4, <1>6, <1>7
<1>11. states \subseteq {"healthy"} =>
         /\ policy.rule.required \subseteq {a.domain : a \in artifacts}
         /\ \A a \in artifacts : a.state = "current" /\ a.says = "nothing"
  <2> SUFFICES ASSUME states \subseteq {"healthy"}
               PROVE  /\ policy.rule.required \subseteq {a.domain : a \in artifacts}
                      /\ \A a \in artifacts : a.state = "current" /\ a.says = "nothing"
    OBVIOUS
  <2>1. \A d \in summarised : Of(d) = "healthy"
    BY <1>7
  <2>2. \A d \in policy.rule.required : \E a \in artifacts : a.domain = d
    BY <1>4, <1>5, <1>6, <2>1
  <2> QED
    BY <1>3, <1>6, <2>1, <2>2
<1>12. /\ state = "revalidation_required" <=> "revalidation_required" \in states
       /\ state = "breached" <=>
            "breached" \in states /\ "revalidation_required" \notin states
       /\ state = "healthy" => states \subseteq {"healthy"}
  BY <1>1, <1>8, WorstByRank
<1>13. /\ state = "revalidation_required" <=> (old \/ \E a \in artifacts : StaleArtifact(a))
       /\ state = "breached" <=> /\ \E a \in artifacts : BreachedArtifact(a)
                                 /\ ~(old \/ \E a \in artifacts : StaleArtifact(a))
       /\ state = "healthy" =>
            /\ policy.rule.required \subseteq {a.domain : a \in artifacts}
            /\ \A a \in artifacts : a.state = "current" /\ a.says = "nothing"
  BY <1>9, <1>10, <1>11, <1>12
<1> QED
  BY <1>13 DEF old, artifacts, content, state

\* The state of a snapshot, by its positions and exposures.
LEMMA SnapshotByPositions ==
  ASSUME NEW positions, NEW exposures,
         \A e \in DOMAIN positions : positions[e].state \in AssuranceState
  PROVE  LET state == PortfolioState(positions, exposures)
             Some(st) == \E e \in DOMAIN positions : positions[e].state = st
         IN  /\ state = "revalidation_required" <=> Some("revalidation_required")
             /\ state = "breached" <=> Some("breached") /\ ~Some("revalidation_required")
             /\ state = "healthy" =>
                  /\ \A e \in DOMAIN positions : positions[e].state = "healthy"
                  /\ \A p \in DOMAIN exposures : ~Concentrated(exposures[p])
<1> DEFINE own == {positions[e].state : e \in DOMAIN positions}
           raised == {"attention" : p \in {q \in DOMAIN exposures : Concentrated(exposures[q])}}
           states == own \cup raised
           state == PortfolioState(positions, exposures)
<1>1. state = Worst(states)
  BY DEF PortfolioState
<1>2. raised \subseteq {"attention"} /\ \A p \in DOMAIN exposures :
        Concentrated(exposures[p]) => "attention" \in raised
  OBVIOUS
<1>3. \A st : st \in own <=> \E e \in DOMAIN positions : positions[e].state = st
  OBVIOUS
<1>4. own \subseteq AssuranceState
  BY <1>3
<1> HIDE DEF own, raised, state
<1>5. states \in SUBSET AssuranceState
  BY <1>2, <1>4 DEF AssuranceState
<1>6. /\ state = "revalidation_required" <=> "revalidation_required" \in states
      /\ state = "breached" <=>
           "breached" \in states /\ "revalidation_required" \notin states
      /\ state = "healthy" => states \subseteq {"healthy"}
  BY <1>1, <1>5, WorstByRank
<1>7. /\ state = "revalidation_required" <=> "revalidation_required" \in own
      /\ state = "breached" <=> "breached" \in own /\ "revalidation_required" \notin own
      /\ state = "healthy" => own \subseteq {"healthy"} /\ "attention" \notin raised
  BY <1>2, <1>6
<1> QED
  BY <1>2, <1>3, <1>7 DEF state

\* The users of a provider and the critical functions they have on it.
UsesOf(positions, f, p) ==
  {y \in positions[f].dossier.content.arrangements : y.provider = p}

UsersOf(positions, p) == {f \in DOMAIN positions : UsesOf(positions, f, p) # {}}

ExposedOf(positions, p) ==
  UNION {{<<f, g>> : g \in UNION {y.critical : y \in UsesOf(positions, f, p)}} :
           f \in UsersOf(positions, p)}

\* The exposures of a portfolio, in terms of the documents.
LEMMA ExposureByArrangements ==
  ASSUME NEW positions, NEW rule, NEW e \in DOMAIN positions,
         \A f \in DOMAIN positions :
           positions[f].exposures = ProviderExposures(positions[f].dossier.content),
         NEW x \in positions[e].dossier.content.arrangements
  PROVE  LET exposures == PortfolioExposures(positions, rule)
             p == x.provider
         IN  /\ p \in DOMAIN exposures
             /\ exposures[p].entitiesReached =
                  (Cardinality(UsersOf(positions, p)) >= rule.entities)
             /\ exposures[p].functionsReached =
                  (Cardinality(ExposedOf(positions, p)) >= rule.functions)
<1> DEFINE p == x.provider
           Uses(f) == {y \in positions[f].dossier.content.arrangements : y.provider = p}
           users == {f \in DOMAIN positions : Uses(f) # {}}
           Critical(f) == UNION {y.critical : y \in Uses(f)}
           exposed == UNION {{<<f, g>> : g \in Critical(f)} : f \in users}
           providers == UNION {DOMAIN positions[f].exposures : f \in DOMAIN positions}
           of(q, part) == UNION {{<<f, g>> : g \in positions[f].exposures[q][part]} :
                                   f \in {h \in DOMAIN positions :
                                           q \in DOMAIN positions[h].exposures}}
<1>1. \A f \in DOMAIN positions :
        /\ p \in DOMAIN positions[f].exposures <=> Uses(f) # {}
        /\ Uses(f) # {} => positions[f].exposures[p]["critical"] = Critical(f)
  <2> SUFFICES ASSUME NEW f \in DOMAIN positions
               PROVE  /\ p \in DOMAIN positions[f].exposures <=> Uses(f) # {}
                      /\ Uses(f) # {} => positions[f].exposures[p]["critical"] = Critical(f)
    OBVIOUS
  <2> DEFINE content == positions[f].dossier.content
             own == {y \in content.arrangements : y.provider = p}
  <2>1. own = Uses(f) /\ positions[f].exposures = ProviderExposures(content)
    OBVIOUS
  <2>2. DOMAIN ProviderExposures(content) = {y.provider : y \in content.arrangements}
    BY DEF ProviderExposures
  <2>3. p \in DOMAIN ProviderExposures(content) <=> own # {}
    <3> HIDE DEF content, p
    <3> QED
      BY <2>2 DEF p
  <2>4. p \in DOMAIN ProviderExposures(content) =>
          ProviderExposures(content)[p]["critical"] = UNION {y.critical : y \in own}
    <3> HIDE DEF content, p
    <3> QED
      BY DEF ProviderExposures
  <2> QED
    BY <2>1, <2>3, <2>4
<1>2. users = {f \in DOMAIN positions : p \in DOMAIN positions[f].exposures}
  <2> HIDE DEF Uses, p
  <2> QED
    BY <1>1
<1>3. p \in providers
  <2>1. x \in Uses(e)
    OBVIOUS
  <2> QED
    BY <1>1, <2>1
<1>4. of(p, "critical") = exposed
  <2>1. \A f \in users : positions[f].exposures[p]["critical"] = Critical(f)
    BY <1>1
  <2>2. of(p, "critical") = UNION {{<<f, g>> : g \in positions[f].exposures[p]["critical"]} :
                                     f \in users}
    BY <1>2, Zenon
  <2> HIDE DEF users, Critical, p, of
  <2> QED
    BY <2>1, <2>2
<1>5. PortfolioExposures(positions, rule)[p].entitiesReached = (Cardinality(users) >= rule.entities)
  BY <1>2, <1>3 DEF PortfolioExposures
<1>6. PortfolioExposures(positions, rule)[p].functionsReached =
        (Cardinality(of(p, "critical")) >= rule.functions)
  BY <1>3 DEF PortfolioExposures
<1>7. p \in DOMAIN PortfolioExposures(positions, rule)
  BY <1>3 DEF PortfolioExposures
<1>8. users = UsersOf(positions, p) /\ exposed = ExposedOf(positions, p)
  BY DEF UsersOf, ExposedOf, UsesOf
<1> QED
  BY <1>4, <1>5, <1>6, <1>7, <1>8

LEMMA AssembledIsEarned ==
  ASSUME IInv, NEW s, IsAssembled(s), DOMAIN s.positions \subseteq Entity
  PROVE  StateIsEarned(s)
<1> DEFINE policy == PolicyOf(s.policy)
           Of(e) == s.positions[e].dossier
           Artifacts(e) == Of(e).content.artifacts
           artifacts == UNION {Artifacts(e) : e \in DOMAIN s.positions}
           old == \E e \in DOMAIN s.positions : s.at - Of(e).at > policy.rule.maxAge
           stale == old \/ \E a \in artifacts : "revalidation_required" \in {a.state, a.says}
           breach == \E a \in artifacts : a.says \in {"breached", "blocked"}
           users(p) == UsersOf(s.positions, p)
           exposed(p) == ExposedOf(s.positions, p)
           exposures == PortfolioExposures(s.positions, policy.rule)
<1>1. /\ s.positions = [e \in DOMAIN s.positions |-> EntityPosition(Of(e), policy, s.at)]
      /\ s.exposures = exposures
      /\ s.state = PortfolioState(s.positions, s.exposures)
  <2> DEFINE positions == [e \in DOMAIN DocumentsOf(s) |->
                             EntityPosition(DocumentsOf(s)[e], policy, s.at)]
  <2> DEFINE built == SnapshotOf(s.policy, positions,
                                 PortfolioExposures(positions, policy.rule), s.at)
  <2>1. [s EXCEPT !.findings = built.findings] = built
    BY DEF IsAssembled, Assemble
  <2>2. positions = [e \in DOMAIN s.positions |-> EntityPosition(Of(e), policy, s.at)]
    BY DEF DocumentsOf
  <2>3. /\ s.positions = positions
        /\ s.exposures = PortfolioExposures(positions, policy.rule)
        /\ s.state = PortfolioState(positions, PortfolioExposures(positions, policy.rule))
    <3> DEFINE changed == [s EXCEPT !.findings = built.findings]
    <3>1. DOMAIN s = DOMAIN changed
      OBVIOUS
    <3>2. /\ {"positions", "exposures", "state"} \subseteq DOMAIN built
          /\ built.positions = positions
          /\ built.exposures = PortfolioExposures(positions, policy.rule)
          /\ built.state = PortfolioState(positions, PortfolioExposures(positions, policy.rule))
      <4> HIDE DEF positions, policy
      <4> QED
        BY DEF SnapshotOf
    <3>3. {"positions", "exposures", "state"} \subseteq DOMAIN s
      <4> HIDE DEF changed, built
      <4> QED
        BY <2>1, <3>1, <3>2 DEF changed
    <3>4. /\ changed.positions = s.positions
          /\ changed.exposures = s.exposures
          /\ changed.state = s.state
      <4> HIDE DEF built
      <4> QED
        BY <3>3
    <3> HIDE DEF changed, built, positions, policy
    <3> QED
      BY <2>1, <3>2, <3>4 DEF changed
  <2> HIDE DEF positions, policy, Of
  <2> QED
    BY <2>2, <2>3
<1>2. \A e \in DOMAIN s.positions :
        /\ s.positions[e] = EntityPosition(Of(e), policy, s.at)
        /\ s.positions[e].state \in AssuranceState
        /\ s.positions[e].exposures = ProviderExposures(Of(e).content)
  <2>1. \A e \in DOMAIN s.positions : s.positions[e] = EntityPosition(Of(e), policy, s.at)
    <3> HIDE DEF policy, Of
    <3> QED
      BY <1>1
  <2>2. \A e : EntityPosition(Of(e), policy, s.at).exposures = ProviderExposures(Of(e).content)
    BY DEF EntityPosition
  <2> QED
    BY <2>1, <2>2, PositionHasAState
<1>3. \A e \in DOMAIN s.positions : \A a \in Artifacts(e) : IsArtifact(a)
  BY PortfolioAssumption DEF IsAssembled, IInv, TypeOK, IsContent
<1>4. \A e \in DOMAIN s.positions :
        LET state == s.positions[e].state
            spent == s.at - Of(e).at > policy.rule.maxAge \/ \E a \in Artifacts(e) : StaleArtifact(a)
        IN  /\ state = "revalidation_required" <=> spent
            /\ state = "breached" <=> (\E a \in Artifacts(e) : BreachedArtifact(a)) /\ ~spent
            /\ state = "healthy" =>
                 /\ policy.rule.required \subseteq {a.domain : a \in Artifacts(e)}
                 /\ \A a \in Artifacts(e) : a.state = "current" /\ a.says = "nothing"
  BY <1>2, <1>3, PositionByArtifacts DEF TooOld
<1>5. LET Some(st) == \E e \in DOMAIN s.positions : s.positions[e].state = st
      IN  /\ s.state = "revalidation_required" <=> Some("revalidation_required")
          /\ s.state = "breached" <=> Some("breached") /\ ~Some("revalidation_required")
          /\ s.state = "healthy" =>
               /\ \A e \in DOMAIN s.positions : s.positions[e].state = "healthy"
               /\ \A p \in DOMAIN exposures : ~Concentrated(exposures[p])
  BY <1>1, <1>2, SnapshotByPositions
<1>6. \A a : a \in artifacts <=> \E e \in DOMAIN s.positions : a \in Artifacts(e)
  OBVIOUS
<1>7. /\ s.state = "revalidation_required" <=> stale
      /\ s.state = "breached" <=> breach /\ ~stale
  <2> HIDE DEF Artifacts, artifacts, Of, policy
  <2> QED
    BY <1>4, <1>5, <1>6 DEF StaleArtifact, BreachedArtifact
<1>8. ASSUME s.state = "healthy"
      PROVE  /\ \A a \in artifacts : a.state = "current" /\ a.says = "nothing"
             /\ \A e \in DOMAIN s.positions :
                  policy.rule.required \subseteq {a.domain : a \in Artifacts(e)}
  <2> HIDE DEF Artifacts, artifacts, Of, policy
  <2> QED
    BY <1>4, <1>5, <1>6, <1>8
<1>9. ASSUME s.state = "healthy", NEW e \in DOMAIN s.positions, NEW x \in Of(e).content.arrangements
      PROVE  /\ ~(Cardinality(users(x.provider)) >= policy.rule.entities)
             /\ ~(Cardinality(exposed(x.provider)) >= policy.rule.functions)
  <2>1. /\ x.provider \in DOMAIN exposures
        /\ exposures[x.provider].entitiesReached =
             (Cardinality(users(x.provider)) >= policy.rule.entities)
        /\ exposures[x.provider].functionsReached =
             (Cardinality(exposed(x.provider)) >= policy.rule.functions)
    <3>1. \A f \in DOMAIN s.positions :
            s.positions[f].exposures = ProviderExposures(s.positions[f].dossier.content)
      BY <1>2
    <3> QED
      BY <3>1, ExposureByArrangements
  <2>2. ~Concentrated(exposures[x.provider])
    BY <1>5, <1>9, <2>1
  <2> QED
    BY <2>1, <2>2 DEF Concentrated, Conditions
<1>10. /\ s.state = "revalidation_required" <=> stale
       /\ s.state = "breached" <=> breach /\ ~stale
       /\ s.state = "healthy" =>
            /\ \A a \in artifacts : a.state = "current" /\ a.says = "nothing"
            /\ \A e \in DOMAIN s.positions :
                 /\ policy.rule.required \subseteq {a.domain : a \in Artifacts(e)}
                 /\ \A x \in Of(e).content.arrangements :
                      /\ ~(Cardinality(users(x.provider)) >= policy.rule.entities)
                      /\ ~(Cardinality(exposed(x.provider)) >= policy.rule.functions)
  <2> HIDE DEF stale, breach, artifacts, Artifacts, users, exposed, policy
  <2> QED
    BY <1>7, <1>8, <1>9, Zenon
<1> QED
  BY <1>10, Zenon DEF StateIsEarned, UsersOf, ExposedOf, UsesOf

\* The state of every registered snapshot follows from the artifacts, ages and
\* arrangements of the dossiers below it.
THEOREM StatesAreAlwaysEarned == Spec => []StatesAreEarned
<1>1. IInv => StatesAreEarned
  <2> SUFFICES ASSUME IInv, NEW id \in SnapshotId, NEW i \in DOMAIN snapshots[id]
               PROVE  StateIsEarned(snapshots[id][i])
    BY DEF StatesAreEarned
  <2>1. IsAssembled(snapshots[id][i]) /\ DOMAIN snapshots[id][i].positions \subseteq Entity
    BY DEF IInv, Assembled, TypeOK, Registered
  <2> QED
    BY <2>1, AssembledIsEarned
<1> QED
  BY <1>1, InitIsInductive, IInvIsInductive, PTL DEF Spec
=============================================================================
