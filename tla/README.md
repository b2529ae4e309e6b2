# A verification project for DORAOps

DORAOps is a Python library that keeps governance evidence for the EU Digital
Operational Resilience Act: append-only registries of a financial entity's ICT
inventory, incidents, incident reports, tests, exercises and third-party
arrangements, assessments computed from them, dossiers that embed both, and a
tool that publishes the one authorized release of the library.

The registries are sequential Python objects, so the hard part is not threads.
It is **order and staleness**: artifacts are immutable and bind each other by
digest, timestamps come from callers, evidence arrives in any order, and every
assessment must say of an artifact bound earlier whether it still stands. The
publication tool is the one concurrent part: it shares a repository with people
and workflows, between any two of its calls.

## 1. Inventory of the system

| component (src/src/doraops unless said otherwise) | state | operations | depends on |
|---|---|---|---|
| Inventory registry, `inventory.py` | entities, providers, nodes, edges by identity | `register_entity/provider/node/edge`, `snapshot_digest` | - |
| Incident evidence, `incidents.py` | incidents, event sequences, impact observations | `register_incident`, `append_event`, `register_impact`, readiness, human review | inventory digest |
| Incident reporting, `reporting.py`, `reporting_strict.py` | decision and route histories, package revisions, receipts, acknowledgements, adjustments, delay notices | eight registrations, `assess_reporting_workflow` | incident snapshot, review |
| Resilience testing, `resilience.py` | none: callers keep plans, executions, findings, remediations and retests | one creator per kind of evidence, `resolve_test` | inventory digest, risk decisions |
| Continuity, `continuity.py`, `continuity_strict.py` | none: callers keep objectives, plans, executions, observations, assessments and the evidence of findings | one creator per kind of evidence, assessment, resolution, impact traversal | inventory graph |
| Third-party register, `third_party.py`, `third_party_strict.py` | arrangements, observations, exit plans | three registrations, `build_register_snapshot` | inventory digest and supply chain |
| Assurance portfolio, `assurance.py` | policies, verified dossiers, snapshots | `register_policy/dossier/snapshot`, currentness checks | dossiers |
| Dossiers and verifiers, `dossier*.py`, `reporting_audit.py` | the artifacts a builder collects | `add_*`, `build`; offline verification | all registries |
| Risk, `risk.py` | - | scores and acceptance rules | inventory digest |
| Publication, `tools/publish_release.py`, `.github/workflows/publish-release.yml` | the repository: main, workflow runs, tag, release | gate, publish | hosting service |
| Security, release evidence, release candidate, control matrix, operational controls, canonical, cli | - | stateless checks of documents and bytes | - |

What must hold, by component:

* *Inventory*: the supply chain is well founded whatever the order of the
  registrations; edges stay resolvable; a stale digest stays stale.
* *Incidents*: a human review stands on complete evidence and goes stale for good
  when evidence arrives.
* *Reporting*: the history never goes backwards; packages are justified by what
  they bind; `complete` is earned; time alone only worsens a state.
* *Resilience, continuity*: a finding is closed only by an independent retest of
  the latest remediation.
* *Third party*: a snapshot is `complete` only on current, undisputed evidence of
  its time; taken again it never falls back on older evidence.
* *Assurance*: a portfolio is never better than its worst dossier.
* *Publication*: one tag, set once; one release, created once, on a tested commit.

PROJECT.json lists every hazard with the line where it bites.

## 2. Modules

| module | models | state and actions |
|---|---|---|
| `Inventory` | `InventoryRegistry` | one variable per dictionary; one action per `register_*`; `PinSnapshot` is any caller that stores `snapshot_digest` in an artifact |
| `DependencyImpact` (extends `Inventory`) | `build_dependency_impact_snapshot` of `continuity.py` | no state of its own; `Wave` is one turn of the loop over the depth, `Waves` the loop from `Start`, compared with the paths of the graph for every depth up to `MaxDepth` |
| `MCInventory` | instance for TLC | which entities and services are symmetric |
| `InventoryProofs` (extends `DependencyImpact`) | proofs about `Inventory` and `DependencyImpact` | |
| `Incidents` | `IncidentRegistry`, readiness and review | one incident; the inventory is a counter, which `StalenessIsPermanent` justifies |
| `IncidentReporting` (extends `Incidents`) | `IncidentReportingRegistry` | one variable per dictionary; `known` are the keys of `_packages`, which a refused package leaves behind |
| `Calendar` | `_add_calendar_month` | no state; months of any lengths, days of any number of ticks, the clamp at the end of a month |
| `ReportingWorkflow` (extends `IncidentReporting`) | `assess_reporting_workflow` | `Assess(d, r, t)`: the state reported for decision version d, route version r and time t, or the exception raised |
| `MCReporting` | instances for TLC | key sets and the lengths of the months |
| `ReportingDossier` (extends `ReportingWorkflow`) | `add_incident`, `add_incident_reporting` of the builder, `reporting_audit.py`, `dossier_verify_reporting.py` | the assessment a caller holds and the builder between its calls, each of which may be repeated, while `EvidenceMoves` goes on; `AddIncidentOvertaken` and `AddReportingOvertaken` are repeated calls that raise and leave what they embedded before (`overtaken`); `Verifies` is the offline verification, `DomainState` the domain summary of a portfolio |
| `MCReportingDossier` | instance for TLC | |
| `ReportingProofs` (extends `ReportingDossier`) | proofs about `Calendar`, `Incidents`, `IncidentReporting`, `ReportingWorkflow` and `ReportingDossier`, a part for each | |
| `FindingLifecycle` | findings, remediations and retests of `resilience.py` and `continuity.py` | the evidence that exists, in three sets; one action per creator, and `ConstructRetest` for a retest built by its class alone; `Status` is the loop of the resolvers |
| `FindingPromise` | what the evidence of a finding promises | abstract specification: a record per finding that only later evidence moves |
| `Resilience` (extends `FindingLifecycle`) | `resilience.py` | one plan and its execution; `Resolve` is `resolve_test` for any part of the evidence |
| `FindingProofs` (extends `FindingLifecycle`) | lemmas about findings, for the two modules that use them | |
| `ResilienceProofs` (extends `Resilience`, `FindingProofs`) | proofs about `Resilience` | |
| `Continuity` (extends `FindingLifecycle`) | `continuity.py`, `continuity_strict.py` | one objective, plan and execution, observations that may come late and share an `observation_id`, assessments made at any time from any of them |
| `ContinuityDossier` (extends `Continuity`) | the continuity part of `dossier_strict.py`, `dossier_verify_strict.py` and `assurance.py` | the builder between its calls, what it embeds and marks. `AddContinuity` is a call that returns, `AddContinuityOvertaken` one that `_add` stops at the objective, the plan, an observation or the assessment (recorded in `overtaken`), `AddContinuityPartly` one stopped later; all may be repeated. `Verifies` is the offline verification of the result, `DomainState` the domain summary of a portfolio |
| `MCContinuity` | instances for TLC | what an observation can have measured |
| `ContinuityProofs` (extends `ContinuityDossier`, `FindingProofs`) | proofs about `Continuity` and `ContinuityDossier` | |
| `ThirdParty` | `ThirdPartyRegister`, `build_register_snapshot` | one set per dictionary, one action per registration; `Refused` and `GapsOf` are what a snapshot raises or lists, for any policy and time; the inventory is a counter |
| `MCThirdParty` | instance for TLC | terms, ratings and policies |
| `ThirdPartyProofs` | proofs about `ThirdParty` | |
| `AssuranceView` | what `assurance.py` computes from dossiers | no state: the state of a domain, an entity, a portfolio; exposures to providers |
| `Portfolio` (extends `AssuranceView`) | `PortfolioAssuranceRegistry` | one variable per dictionary, one action per registration; `Offers` is what a caller may bring: a snapshot assembled now or earlier, a copy with another state or other findings, with another position, or without its exposures; `WellFormed` is what a snapshot is asked in itself |
| `MCPortfolio` | instance for TLC | what dossiers say and policies ask for |
| `PortfolioProofs` | proofs about `Portfolio` | |
| `VersionPublication` | what docs/RELEASE_PROCESS.md promises | abstract specification |
| `Publication` | publish_release.py and its workflow | one action per call of the hosting service; people, workflows and failures as environment |
| `PublicationProofs` | proofs about `Publication` | |

Conventions. A record stands for its SHA-256 digest (collisions are ignored).
A raised `GovernanceError` that changes nothing is a disabled action; where the
refusal does change the state (`RefusePackage`) or the kind of exception matters
(`PackageOutcome`, `Assess`), it is modelled. Answering a repeated registration
is a stuttering step. Versions identify decisions, routes and revisions.
Operators introduced by "Mutant:" are plausible bugs; no behaviour uses them.

What is abstracted: descriptive text, identifiers of persons, the content of
digests, the checks of constructors that need no state (except where a property
depends on them: ranks and parents, self references, sequences of reports),
entity and incident scopes other than the one followed (every register is keyed
by them), and acknowledgement times.

## 3. Runs

| run | asks | bounds |
|---|---|---|
| `inventory` | can any order of registrations break or loop a supply chain, leave an edge dangling, or bring a stale digest back? is the impact traversal exact on every graph reached? | 3 services, ranks 1..3: the smallest set with a loop through a re-registered middle service; 1 other node; 2 edges, so that depths 1 and 2 (`MaxDepth`) are all there are; services and edges are symmetric |
| `incident_evidence` | may evidence change between readiness, review and use? | 2 events, 2 impacts, 2 reviews, inventory growing once |
| `reporting_history` | what can the immutable history contain? | 2 decisions, 2 routes, 2 revisions of each of four reports, governance times 0 and 1, refusals of the initial package |
| `reporting_deadlines` | what does the assessed state mean? | one revision of the three main reports, times 3, 4, 6 and 7 around every deadline, reviews before, at and after the awareness cap, one adjustable report, accepted and technical-error acknowledgements; days of two ticks and months of one to three days, so that a month from tick 4 is the clamped tick 6 and a month from tick 3 the tick 7 |
| `reporting_dossier` | do builder and verifier agree whatever is registered between the assessment, `add_incident` and `add_incident_reporting`, and what is a healthy domain worth when the verifier trusts the embedded state? | times 1 and 2; one report with a second revision, one acknowledgement, adjustment or delay notice; `MaxDrift`: one registration after the assessment or the incident was taken, before or after the reporting evidence was; a second review, decision or route only as that one; calls repeated without bound |
| `resilience_test` | can order, back-dating, ties or a hand-made retest close a finding or earn a success? | 2 findings, 2 remediations, 2 retests, 2 persons, times 1 and 2, every part of the evidence given to the resolver |
| `continuity` | do builder and verifier agree whatever arrives between their calls, and what may a dossier show as closed or healthy? | 2 observations (everything met, or the RTO missed and the loss unknown) of 2 identities or of one, 2 findings of one identity, 2 remediations, 1 retest, also constructed, 4 of these altogether (`MaxEvidence`), 2 persons, inventory growing once at any moment, calls repeated without bound |
| `third_party_register` | what can a snapshot for a given time rest on, and how may it change when evidence arrives late, back-dated or in conflict? | 2 arrangements of 4 kinds, 3 pieces of evidence with 3 identities, times 0..2, inventory growing once; 4 ratings; a policy that wants everything, one that wants one thing, one that wants nothing but fresh evidence |
| `portfolio` | can a series of snapshots fall back, can a superseded one pass as current again, and does its state say what the dossiers below it say? | 2 symmetric entities, 2 dossiers of each out of 6 (two that share a provider, a high concentration, a breach, a breach on stale evidence, one that no position can be computed from), 2 policies, a series of 2 snapshots, times 1..3 |
| `publication` | does the publisher keep its promise, and does it ever publish? | 2 commits, 2 workflows, no bound on re-runs, failures or interventions |

The spans of the deadlines and the months are a few ticks long and keep the order
that the run needs. One commit more or one workflow more adds no new interleaving to
the publication: a run follows one commit, and every other commit is either before
or after it.

`CHECK_DEADLOCK FALSE` in the reporting, resilience, continuity, third-party and
portfolio runs: their histories are bounded, and when they are full, or the dossier
is built, there is nothing left to do.

Two persons are enough for independence: an owner and somebody else. Two times
are enough for "earlier", "later" and "at the same time", which is all that the
selection of the latest evidence tells apart. What distinguishes two artifacts
besides what the records name (titles, notes, evidence digests) would only add
further ties, and a tie needs two artifacts.

Two things the continuity run takes from the callers: each call of the builder is given
all the evidence there is of the assessment at that moment, with or without the
resolution held, and the exercise is planned before the first time. Evidence goes on
being made between the calls, and a call may be repeated. That matters because `_add`
raises when a key is embedded with other content already (dossier.py:252), and the
builder keeps what the call has added by then: newer observations stay beside an older
assessment. In which order a call is given the evidence is left open, so that a call
that stops may leave any part it can have reached (`StoppedAt`). The identities of
remediations and retests are left out, and any of them may stop a call (`MayStopAt`).
`MaxEvidence = 4` leaves room for two observations, of one identity or of two, with a
finding and its remediation; for one observation with a finding, its remediation and a
retest; and, without observations, for a second remediation besides.

The calls of the reporting dossier may be repeated in the same way. One registration,
which may come between any two calls, is enough for each kind of evidence to be newer
than what is held or embedded. The verifier needs two premises that nothing enforces
(`OrderlySubmissions`, see below).

Three pieces of evidence are the fewest that show a conflict and its end, or two
arrangements of which one is covered. Documents that an arrangement lacks are all
treated alike by the code, so one kind stands for the five.

Two entities are the fewest with a concentration between them. Both hold the same
six dossiers, so that swapping them changes no property (`EntitySymmetry`).

### Where the code does something else than its documents say

Each of these runs must be violated; PROJECT.json quotes the sentences.

| run | what happens |
|---|---|
| `recovery_update` | registering the intermediate update that a recovery demands raises `IndexError`: `register_package` creates the key with an empty list and then takes the last element of every list |
| `revised_initial` | revising a submitted initial notification makes the workflow forget the submission; a non-major reclassification is then `not_required` |

Publication assumes tag protection (`TagsAreProtected`), which
`docs/RELEASE_PROCESS.md` relies on and no code here enforces.

What the models also show, without a run of its own:

* the empty list behind `recovery_update`, left by any refused first revision,
  makes the assessment of a stale workflow raise `IndexError` where
  docs/INCIDENT_REPORTING.md has it fail closed as `revalidation_required`;
* main can move, or a workflow be re-run, after the last gate of a publication:
  the release is then of a commit that was green when it was the head
  (`ReleaseIsOfATestedCommit`), not of the current one, as README.md has it;
* the check after the creation of a release is given the tag reference read before
  it (publish_release.py:300) and so cannot fail: were the service to let a
  maintainer move the tag in between, it would be reported as published at the
  tested commit;
* an exercise that missed one recovery objective and has another unmeasured counts
  as `incomplete`, although docs/RESILIENCE_ASSURANCE.md ranks `breached` first;
* a late initial notification stops being a breach after the next review, because
  the deadline is recomputed from it, although a late submission "remains `breached`"
  (docs/INCIDENT_REPORTING.md:53);
* a dossier whose objective, plan or assessment of continuity the builder marks
  `revalidation_required` does not pass the verifier that guards the portfolio
  (`StaleBasisNeverVerifies`), which therefore cannot report of it the state that
  docs/RESILIENCE_ASSURANCE.md:41 describes; the same goes for a reporting assessment
  that is `REVALIDATION_REQUIRED` (`RevalidationNeverVerifies`). A stale resolution does
  pass, since the verifier does not look for evidence later than it;
* a continuity domain can be healthy without having been assessed: when two
  observations of one `observation_id` differ, `_add` raises at the second
  (dossier.py:252) and the builder keeps objective, plan, execution and the first, which
  may show a breach. The assessment would be added next (dossier_strict.py:196); neither
  the verifier nor the portfolio asks for one. This is the exception in
  `HealthyIsMeasured`, and the only one;
* when a repeated `add_continuity_recovery` raises before it is through with the
  assessment, the newer observations stay beside the older assessment in a dossier that
  is not marked: the verifier refuses it although the builder calls it current (the
  premise `~dossier.overtaken` of `CurrentDossierVerifies`). A repeated call without the
  resolution embeds a later remediation beside an older resolution, whose closure of the
  finding then verifies although it no longer stands (`VerifiedClosureIsEarned` is
  about the evidence the resolution was made from);
* a repeated `add_incident_reporting` adds the newer histories before it raises at the
  assessment (dossier_reporting.py:151): a refused acknowledgement then stands beside
  the older `COMPLETE` assessment, the dossier verifies, and the domain is healthy. With
  a newer decision the verifier refuses the dossier, again unmarked. A repeated
  `add_incident` likewise leaves newer events beside the review and the assessment that
  do not know of them, in a dossier that verifies (the premise `~dossier.overtaken` of
  `CurrentReportingVerifies` and `HealthyReportingIsEarned`);
* with ten revisions of a report the artifact `:r10` sorts before `:r2`, and the
  verifier takes the last of the unsorted list (dossier_verify_reporting.py:400): it
  refuses a dossier that is in order (`FilePosition`);
* when the receipt of an earlier revision carries a later submission time than the one
  of its correction, the verifier computes deadlines from the former
  (dossier_verify_reporting.py:372), the assessment from the latter, and the
  dossier is refused although the builder calls it current. Both are premises of
  `CurrentReportingVerifies` (`OrderlySubmissions`).

Things that no document contradicts: the findings of a portfolio snapshot are computed
by `build_snapshot` (assurance.py:888) and not compared by `register_snapshot` or
`verify_portfolio_snapshot`, which only ask that there are some exactly if the state
is not healthy, so that a snapshot whose findings were altered is registered and
passes as current (hence the exception in `CurrentIsReproducible`); nothing can remove
or renew an arrangement, so one that the inventory has outgrown, even a lapsed one,
stops every later snapshot of the register (`OnlyConflictsHeal`); the dossier collects
the observations of all arrangements by `observation_id` alone, so two arrangements
that each have an observation of one name cannot be embedded together; the resolver of
continuity findings accepts a hand-made retest that is older than the remediation it
retests, and the builder calls the resolution current, but the verifier refuses the
dossier (hence the premise about retests in `CurrentDossierVerifies`); a builder whose
`add_incident_reporting` raised `IndexError` on the key of a refused package keeps the
histories, and what it builds is refused by the verifier; the command line (cli.py:57)
verifies with `dossier_verify_strict` only, `register_dossier` (assurance.py:9) with
the reporting verifier, so that a dossier may pass the one and not the other; a
dossier whose arrangements contradict each other is registered all the same and then
keeps every snapshot of its entity from being built (`Consistent`); a rejected
acknowledgement keeps the workflow breached after a corrected revision was accepted
(`RejectionIsForever`); an adjustment or a delay notice whose deadline moved makes the
assessment raise `GovernanceError` from then on, since neither can be replaced.

### Fairness

Only `Publication` has liveness. `FairSpec` assumes weak fairness of the steps of
a run (every call of the tool has a timeout or an answer, and the runner goes on)
and of the start of the pending run (the service's concurrency group). Nothing is
assumed of people, of the workflows, or of failures; `Fail` may strike at any
step, and nothing retries. `UndisturbedRunPublishes` is therefore conditional on
a run during which nothing else happens, recorded in `disturbed`.

## 4. Proofs

`InventoryProofs`, without any bound on entities, services, edges or ranks:

* `InventoryTypeCorrect`, `SupplyChainIsSound` and `GraphIsClosed`: each invariant
  is inductive given the types, because records are never changed: the lemma
  `StepKeepsRecords` (a stored record stays what it is) carries all of them.
* `StalenessIsPermanent`: needs the strengthening that a pinned manifest is an
  earlier state of the inventory (`PinnedIsEarlier`). A record that was added since is
  still there after any step, so the manifests stay different.
* `ImpactIsAlwaysExact`: for any `MaxDepth`. `Waves` is a recursive function of the depth,
  and the property speaks of paths of any length. Both are brought to the ends of
  walks: `LongerWalks` describes those of n + 1 nodes by one more step from those of n,
  `WaveLengthensWalks` says that this step is what a turn of the loop computes, and
  `WavesAreWalks` that the recursion has this solution and no other (by the least number
  for which another would differ); `EndsOfPaths` and `TraversalIsExact` return to paths.
* `StaleImpactAlwaysUnderstates`: edges are only added (`StepKeepsRecords`), so every walk
  of a stale graph is one of the current graph.

`PublicationProofs`, for any number of commits and workflows:

* `ReleaseIsTested` and `ReleaseIsOfTheCandidate`, under `TagsAreProtected`. The
  inductive invariant says what a run that got this far knows: past its first
  gate its candidate is in the history of green commits (`Gated`, which needs
  `History`), and past the check of the tag the tag is its candidate (`TagRead`,
  which needs that tags do not move).
* `PublicationKeepsThePromise`: every step of `Publication` is a step of
  `VersionPublication` or leaves its variables alone.

`FindingProofs`, lemmas about the lifecycle of findings, assuming that times are natural
numbers (`FindingLifecycleAssumption`). None of them depends on who moves the evidence:

* `ClosedByOneVerdict` holds of any sets of remediations and retests, in an order of
  arrival that does not matter: two latest pieces of evidence of the same age and
  different content are refused, hence the latest is later than all the rest
  (`LatestPrecedes`).
* `OnePieceKeepsThePromise`: a new piece of evidence is later than all the rest, of the
  age of the latest, or makes no difference (`LatestMoves`); applied to the
  remediations of a finding (`RemediationMoves`) and to the retests of the one that
  stands (`RetestMoves`) this gives the three moves of `FindingPromise`. Its invariant,
  `PiecewiseInv`, says that evidence has a latest piece at all (`HasLatest`, kept because
  evidence arrives piece by piece) and that no retest is of a remediation yet to come, or
  a later remediation could arrive with its verdict.

`ResilienceProofs`, assuming further that the inventory's digests are numbers
(`ResilienceAssumption`):

* `ResilienceTypeCorrect`: inductive as it stands; one step per action.
* `ClosureIsAlwaysIndependent` and `SuccessIsAlwaysEarned` need no induction of their
  own. The resolvers read whatever evidence there is, so both follow from the types
  and `ClosedByOneVerdict`.
* `FindingsAlwaysKeepThePromise`: every step adds one piece of evidence or none
  (`StepAddsOnePiece`), so the evidence implements `FindingPromise`.

`ContinuityProofs`, for any observations, thresholds, evidence and times, assuming
`ContinuityAssumption`, of which `~OwnerMayRetest` is the rule by which continuity.py
differs from resilience.py:

* `ContinuityClosureIsIndependent` and `ContinuityFindingsKeepThePromise`: the second
  implementation of `FindingPromise`, from the same lemmas.
* `ContinuityTypeCorrect`, `BuilderAndVerifierAgree`, `VerifiedClosureIsAlwaysEarned` and
  `HealthyIsAlwaysMeasured`, from one inductive invariant, `DossierInv`. To the types it
  adds the order of the evidence (`EvidenceInOrder`: findings are of assessments that are
  not met, remediations do not precede their findings, the exercise does not end before it
  starts) and `DossierPinned`. The verifier sees nothing but the copies embedded, which
  later calls may add to but not change: `Embedded` says that they are part of the
  evidence there is, that the observation the assessment rests on is among them, and what
  a resolution found current satisfies. A call that gets through with the assessment
  leaves one that agrees with the observations embedded (`Assessed`, by
  `CurrentAssessmentHolds`); a call that raises before may add observations that do not,
  which is why `Assessed` has `~dossier.overtaken` before it. A call that raises later
  adds lifecycle evidence only (`StopsWithin`, `PartlyKeepsPinned`). What may still move
  is the inventory, so `PinnedBetween` places the digests an artifact was found current
  for between the pinned inventory and the live one; a successful `build` makes the two
  equal, and the verifier's comparison holds.
  `MetIsMeasured` and `SeenIsLatest` carry `HealthyIsAlwaysMeasured`: an unmeasured metric
  makes the aggregate incomplete, so a state `met` has a latest observation behind it.
  In an overtaken dossier with an assessment the verifier's own comparison with the
  observations does the rest; without one nothing does, and that is the exception.
* `StaleBasisNeverVerifies`, the other direction of `BuilderAndVerifierAgree`: what is
  marked pins an earlier inventory than the live one and stays behind it
  (`MarkedIsBehind`), or its observations contradict the assessment, and more of them
  still do (`FewerObservations`). It needs no exception for calls that raised.

`ThirdPartyProofs`, for any arrangements, evidence and policies, assuming what
`ThirdPartyAssumption` says of their shapes and that times are natural numbers:

* all five properties of the run. The inductive invariant adds to the types that
  no arrangement is from a later inventory (or growing could make it current) and
  that evidence about an arrangement has a latest element, which is where `max` of
  the code would otherwise need an induction over finite sets.
* `LatestMoves`, that one more piece of evidence leaves the latest in place or is
  later itself, carries `SnapshotsAlwaysMoveForward`, and with it
  `OnlyConflictsEverHeal`; `Reportable` and `WithoutGaps`, what a snapshot that does
  not raise and one that lists no gap say of the evidence, carry
  `CompleteIsAlwaysEvidenced`.

`ReportingProofs`, for any calendar, spans, events, impacts, keys, times and bounds, in
five parts:

* *Calendar.* `MonthIsStatutory`: `AddCalendarMonth` is the last moment of the next month
  at the same time of a day no later in its month (`OneMonthAfter`). `DaysThrough` is a
  recursive function. That it exists and increases is proved by the least number for
  which it would not (`LeastNumber`), since the induction theorems of the library cannot
  be instantiated.
* *Incidents.* `ReviewsAlwaysStand` and `StaleReviewAlwaysStaysStale`. `ReadinessIsExact`
  (an assessment of readiness lists what its own snapshot misses) carries the first;
  the second rests on the order `Extends` of snapshots, which steps follow and
  which is antisymmetric.
* *Reporting.* `ReportingTypeCorrect`, `HistoryAlwaysAdvances`,
  `PackagesAreAlwaysJustified`, `ReportsAlwaysFollowSubmissions` and
  `UpdatesAreNeverRegistered`, from one inductive invariant, `ReportingInv`: to the
  invariants of the incident it adds the bounds of the histories and
  `DecisionsStandOnReviews`, that what a decision is about is still on record. The
  histories change by appending only (`HistoriesChangeByAppending`, `NothingIsLost`), so
  that what justified a package goes on doing so. `UpdatesAreNeverRegistered` is the
  finding of `recovery_update` in general: not only does one call raise, no history of
  any length ever contains an intermediate update.
* *Workflow.* `TimeAlwaysOnlyWorsens`, `MajorIsAlwaysDecided` and
  `CompleteIsAlwaysEarned`. The state is computed from the registers, so each is a lemma
  about any state in which `WorkflowInv` holds. Besides `ReportingInv` it needs
  `ReceiptsAreBounded`, that the intermediate reports submitted have a last one: the
  code takes a maximum there. `RejectionIsForever` needs no induction beyond
  acknowledgements being kept: a property no document asks for, and so none a run checks.
* *Dossier.* `CurrentReportingAlwaysVerifies` and `HealthyReportingIsAlwaysEarned`, of
  `DossierSpec`. Builder and verifier compute the same things from different sources, the
  live registers and the embedded histories, so the inductive invariant (`DossierInv`)
  says how the two are related at every moment: an assessment that is held did not raise
  (`HeldStands`), and the embedded incident lies between the reviewed snapshot and the
  live one (`IncidentEmbedded`). That the embedded histories are the live ones
  (`ReportingEmbedded`) is not invariant, since evidence goes on arriving after they were
  taken. It holds at the end of every call that returns (`ReportingIsEmbedded`); whatever
  then follows about the dossier speaks of the dossier alone, and a dossier changes by
  calls only (`DossierChangesByCalls`), so that it stays true until the next call
  returns, or raises and sets `overtaken`. Three facts make the results agree: `Extends`
  is antisymmetric, so an assessment found current is of the embedded incident; a
  submission is unique for its revision (`SubmissionsStand`); and there are no updates
  (`NoUpdates`), so that every kind of report has one key and, under
  `OrderlySubmissions`, the verifier's latest receipt by time is the assessment's receipt
  of the latest revision. `RevalidationNeverVerifies`: such an assessment was made of
  evidence newer than its review, or of no route, and decisions are never replaced
  (`HeldIsBound`).

`PortfolioProofs`, for any entities, dossiers, policies and bounds, assuming what
`PortfolioAssumption` says of their shapes:

* all five properties of the run, and the types. The inductive invariant `IInv` adds to
  the types that the latest dossier of an entity is later than its others
  (`LatestIsLatest`) and registered (`LatestIsRegistered`), and that a registered
  snapshot is the one assembled from the dossiers it names but for its findings
  (`Assembled`), whatever callers offered.
* `CurrentIsAlwaysReproducible` and `BuiltIsAlwaysAccepted` rest on `FindingsTellTheState`:
  `build_snapshot` lists findings exactly when the state it computes is not healthy,
  which is all that the registrar asks of them.
* `StatesAreAlwaysEarned` goes down the aggregation: `WorstByRank`, `DomainByArtifacts`,
  `PositionByArtifacts` and `SnapshotByPositions` say of each level which of its parts
  give it its state, `ExposureByArrangements` the same of concentrations.

Only model-checked: liveness (`UndisturbedRunPublishes`), which is out of the prover's
reach; every other property of a passing run has a theorem. The
two runs that must be violated have counterexamples and need no proof. Some
theorems state what no run asks for: `UpdatesAreNeverRegistered`, `RejectionIsForever`,
`StaleBasisNeverVerifies`, `RevalidationNeverVerifies`, and the two of continuity that the
resilience run checks of tests. TLC agreed on the instances of the runs (for the last, on a
smaller one) before they were proved, except for `RejectionIsForever`.

## 5. Plan

1. *Done*: inventory, incidents, reporting, publication, with proofs.
2. *Done*: `FindingLifecycle` with resilience and continuity as its two users, and
   the continuity part of the dossiers; `DependencyImpact`. `ResilienceProofs`
   proves all properties of the resilience run.
3. *Done*: `ThirdParty`, arrangements and register snapshots, with proofs.
4. *Done*: `AssuranceView` and `Portfolio`, with proofs of all its properties.
5. *Done*: `ReportingDossier`, from the same state as `ReportingWorkflow`.
6. *Done*: `Calendar`, with a proof against the statutory month.
7. *Done*: proofs about incidents, the reporting registry and the workflow.
8. *Done*: proofs about both dossiers and the impact traversal, and that findings of
   exercises implement `FindingPromise`.
9. *Done*: theorems for what section 3 says the models show, where it is about every
   history: `StaleBasisNeverVerifies`, `RevalidationNeverVerifies`, `RejectionIsForever`.
10. The rest of that list: that a key left by a refused package keeps the assessment
   raising until its first revision is stored, and what a stale resolution that
   verifies may still claim.

Not modelled and why: risk (a score of two small integers and acceptance rules, each
one comparison of a caller's input; a decision appears where it is bound, in
`Resilience`); security (cryptography and token formats, one call each); release
evidence, release candidate, control matrix, operational controls (stateless
comparisons of documents); canonical encoding (string processing); the command
line, schemas and deployment manifests. Of the dossier builder, the operations for
inventory, risk, resilience tests and third parties, which embed an artifact and
compare one digest as `AddIncident` does; of its verifiers, the shapes of route
evidence and of each payload. The publication policy file is taken to be valid,
and one version is followed.
