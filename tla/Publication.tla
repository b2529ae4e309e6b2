----------------------------- MODULE Publication -----------------------------
(***************************************************************************)
(* The publication of one authorized version: tools/publish_release.py     *)
(* under .github/workflows/publish-release.yml, and the repository on the  *)
(* hosting service it reads and writes.                                    *)
(*                                                                         *)
(* The service and the people who push to it are external and modelled     *)
(* from what the tool asks of them: main moves, required workflows finish  *)
(* and are re-run, maintainers create (and, when TagsAreProtected is       *)
(* FALSE, move) the tag and create releases, at any point between two      *)
(* calls of the tool.  A call can fail, and a write that fails may have    *)
(* taken effect.  The concurrency group of the workflow lets one run       *)
(* proceed and keeps one pending, which a newer one replaces.              *)
(***************************************************************************)
EXTENDS Naturals

CONSTANTS
  Commit,            \* the commits main goes through, in order: 1, 2, ...
  Workflow,          \* policy["required_workflows"]
  TagsAreProtected,  \* whether the service refuses to move a tag
  Skip,              \* the pending run whose jobs will be skipped
  None

ASSUME PublicationAssumption ==
  /\ Commit \subseteq Nat /\ 1 \in Commit
  /\ None \notin Commit \cup {Skip} /\ Skip \notin Commit
  /\ TagsAreProtected \in BOOLEAN
  /\ Workflow # {}
  /\ None \notin {"ours", "foreign"}

VARIABLES
  main,       \* the head of main
  passed,     \* by commit, the workflows whose latest attempt succeeded
  tested,     \* history: the commits all of whose workflows passed at once
  tag,        \* the commit the version's tag resolves to
  release,    \* the version's release: None, "ours" or "foreign"
  pending,    \* the pending run's candidate, or Skip
  step,       \* what the active run does next; "idle": no run
  sha,        \* its candidate
  reference,  \* the tag it read last
  outcome,    \* how the last run ended
  disturbed   \* history: a call failed or the repository changed during the run

repository == <<main, passed, tested, tag, release>>
run == <<step, sha, reference, outcome>>
vars == <<repository, pending, run, disturbed>>

\* The steps of a run, one per call of the service: the gate job, then
\* publish() with its two gates.
Steps ==
  {"idle", "gate main", "gate runs", "publish main", "publish runs", "read tag",
   "read release", "create tag", "reread tag", "recheck main", "recheck runs",
   "create release", "verify"}

TypeOK ==
  /\ main \in Commit
  /\ passed \in [Commit -> SUBSET Workflow]
  /\ tested \in SUBSET Commit
  /\ tag \in Commit \cup {None}
  /\ release \in {None, "ours", "foreign"}
  /\ pending \in Commit \cup {None, Skip}
  /\ step \in Steps
  /\ sha \in Commit \cup {None}
  /\ reference \in Commit \cup {None}
  /\ outcome \in {"none", "published", "retained", "failed"}
  /\ disturbed \in BOOLEAN

Init ==
  /\ main = 1
  /\ passed = [c \in Commit |-> {}]
  /\ tested = {}
  /\ tag = None
  /\ release = None
  /\ pending = None
  /\ step = "idle"
  /\ sha = None
  /\ reference = None
  /\ outcome = "none"
  /\ disturbed = FALSE

-----------------------------------------------------------------------------
(* The repository and the people who work on it. *)

MoveMain ==
  /\ main + 1 \in Commit
  /\ main' = main + 1
  /\ disturbed' = TRUE
  /\ UNCHANGED <<passed, tested, tag, release, pending, run>>

\* The completion of a workflow on a push to main starts a publication run,
\* which waits in the concurrency group and takes the place of a pending one.
WorkflowSucceeds(c, w) ==
  /\ c <= main
  /\ w \notin passed[c]
  /\ passed' = [passed EXCEPT ![c] = @ \cup {w}]
  /\ tested' = IF passed'[c] = Workflow THEN tested \cup {c} ELSE tested
  /\ pending' = c
  /\ UNCHANGED <<main, tag, release, run, disturbed>>

\* The jobs of the run that an unsuccessful completion starts are skipped.
WorkflowFails(c, w) ==
  /\ c <= main
  /\ passed' = [passed EXCEPT ![c] = @ \ {w}]
  /\ pending' = Skip
  /\ disturbed' = TRUE
  /\ UNCHANGED <<main, tested, tag, release, run>>

\* A new attempt: queued is not successful.
WorkflowQueued(c, w) ==
  /\ w \in passed[c]
  /\ passed' = [passed EXCEPT ![c] = @ \ {w}]
  /\ disturbed' = TRUE
  /\ UNCHANGED <<main, tested, tag, release, pending, run>>

\* A maintainer re-runs a publication run that ended.
Rerun(c) ==
  /\ passed[c] # {}
  /\ pending' = c
  /\ UNCHANGED <<repository, run, disturbed>>

SetTagByHand(c) ==
  /\ c <= main
  /\ tag = None \/ ~TagsAreProtected
  /\ tag' = c
  /\ disturbed' = TRUE
  /\ UNCHANGED <<main, passed, tested, release, pending, run>>

ReleaseByHand ==
  /\ tag # None
  /\ release = None
  /\ release' = "foreign"
  /\ disturbed' = TRUE
  /\ UNCHANGED <<main, passed, tested, tag, pending, run>>

-----------------------------------------------------------------------------
(* A run.  Every step is one call of the service. *)

\* Mutant: the jobs run whatever the triggering workflow's conclusion is.
StartRunOfAny ==
  /\ step = "idle"
  /\ pending # None
  /\ pending' = None
  /\ step' = "gate main"
  /\ sha' = pending
  /\ reference' = None
  /\ disturbed' = FALSE
  /\ UNCHANGED <<repository, outcome>>

\* The concurrency group lets the pending run start once no run is active.
StartRun ==
  /\ step = "idle"
  /\ pending # None
  /\ pending' = None
  /\ IF pending = Skip THEN UNCHANGED <<run, disturbed>>
     ELSE /\ step' = "gate main"
          /\ sha' = pending
          /\ reference' = None
          /\ disturbed' = FALSE
          /\ UNCHANGED outcome
  /\ UNCHANGED repository

Continue(next) == step' = next /\ UNCHANGED <<sha, outcome>>

End(result) ==
  /\ step' = "idle"
  /\ outcome' = result
  /\ UNCHANGED <<sha, reference>>

\* The candidate must still be the head of main.
ReadMain(here, next) ==
  /\ step = here
  /\ IF main = sha THEN Continue(next) /\ UNCHANGED reference
     ELSE End("failed")
  /\ UNCHANGED <<repository, pending, disturbed>>

\* Mutant: one successful workflow is enough.
ReadRunsOfAny(here, next) ==
  /\ step = here
  /\ IF passed[sha] # {} THEN Continue(next) /\ UNCHANGED reference
     ELSE End("failed")
  /\ UNCHANGED <<repository, pending, disturbed>>

\* workflow_gaps: the latest attempt of every required workflow succeeded.
ReadRuns(here, next) ==
  /\ step = here
  /\ IF passed[sha] = Workflow
       THEN Continue(next) /\ UNCHANGED reference
     ELSE End("failed")
  /\ UNCHANGED <<repository, pending, disturbed>>

ReadTag ==
  /\ step = "read tag"
  /\ reference' = tag
  /\ Continue("read release")
  /\ UNCHANGED <<repository, pending, disturbed>>

\* Mutant: any tag that is there already is completed.
ReadReleaseWithAnyTag ==
  /\ step = "read release"
  /\ IF release # None
       THEN End(IF reference # None /\ release = "ours" THEN "retained"
                ELSE "failed")
     ELSE IF reference = None
       THEN Continue("create tag") /\ UNCHANGED reference
     ELSE Continue("recheck main") /\ UNCHANGED reference
  /\ UNCHANGED <<repository, pending, disturbed>>

\* Mutant: a tag that is there already is never completed.
ReadReleaseWithNoTag ==
  /\ step = "read release"
  /\ IF release # None
       THEN End(IF reference # None /\ release = "ours" THEN "retained"
                ELSE "failed")
     ELSE IF reference = None
       THEN Continue("create tag") /\ UNCHANGED reference
     ELSE End("failed")
  /\ UNCHANGED <<repository, pending, disturbed>>

\* An existing release is retained or, when it is not the one the policy
\* describes or its tag was not seen, refused; nothing is written.  A tag of
\* another commit is not moved.
ReadRelease ==
  /\ step = "read release"
  /\ IF release # None
       THEN End(IF reference # None /\ release = "ours" THEN "retained"
                ELSE "failed")
     ELSE IF reference = None
       THEN Continue("create tag") /\ UNCHANGED reference
     ELSE IF reference = sha
       THEN Continue("recheck main") /\ UNCHANGED reference
     ELSE End("failed")
  /\ UNCHANGED <<repository, pending, disturbed>>

\* Mutant: the tag is set with an update instead of a creation.
CreateTagOverwriting ==
  /\ step = "create tag"
  /\ tag' = sha
  /\ Continue("reread tag") /\ UNCHANGED reference
  /\ UNCHANGED <<main, passed, tested, release, pending, disturbed>>

\* POST git/refs creates a reference or refuses.
CreateTag ==
  /\ step = "create tag"
  /\ IF tag = None
       THEN tag' = sha /\ Continue("reread tag") /\ UNCHANGED reference
     ELSE UNCHANGED tag /\ End("failed")
  /\ UNCHANGED <<main, passed, tested, release, pending, disturbed>>

RereadTag ==
  /\ step = "reread tag"
  /\ IF tag = sha THEN reference' = tag /\ Continue("recheck main")
     ELSE End("failed")
  /\ UNCHANGED <<repository, pending, disturbed>>

\* gh release create --verify-tag: refused without the tag or with a release.
CreateRelease ==
  /\ step = "create release"
  /\ IF tag # None /\ release = None
       THEN release' = "ours" /\ Continue("verify") /\ UNCHANGED reference
     ELSE UNCHANGED release /\ End("failed")
  /\ UNCHANGED <<main, passed, tested, tag, pending, disturbed>>

\* The release is read again; the tag is the one that was read before.
Verify ==
  /\ step = "verify"
  /\ End(IF release = "ours" /\ reference = sha THEN "published" ELSE "failed")
  /\ UNCHANGED <<repository, pending, disturbed>>

\* A call is refused or times out, or the runner is lost; nothing retries it.
Fail ==
  /\ step # "idle"
  /\ End("failed")
  /\ disturbed' = TRUE
  /\ UNCHANGED <<repository, pending>>

\* A write takes effect, but its answer is lost.
LoseAnswer ==
  /\ \/ step = "create tag" /\ tag = None
        /\ tag' = sha /\ UNCHANGED release
     \/ step = "create release" /\ tag # None /\ release = None
        /\ release' = "ours" /\ UNCHANGED tag
  /\ End("failed")
  /\ disturbed' = TRUE
  /\ UNCHANGED <<main, passed, tested, pending>>

RunStep ==
  \/ ReadMain("gate main", "gate runs")
  \/ ReadRuns("gate runs", "publish main")
  \/ ReadMain("publish main", "publish runs")
  \/ ReadRuns("publish runs", "read tag")
  \/ ReadTag \/ ReadRelease
  \/ CreateTag \/ RereadTag
  \/ ReadMain("recheck main", "recheck runs")
  \/ ReadRuns("recheck runs", "create release")
  \/ CreateRelease \/ Verify

Next ==
  \/ MoveMain
  \/ \E c \in Commit, w \in Workflow :
       WorkflowSucceeds(c, w) \/ WorkflowFails(c, w) \/ WorkflowQueued(c, w)
  \/ \E c \in Commit : Rerun(c) \/ SetTagByHand(c)
  \/ ReleaseByHand
  \/ StartRun
  \/ RunStep
  \/ Fail
  \/ LoseAnswer

Spec == Init /\ [][Next]_vars

\* The runner takes the next step of a run, and the service starts the pending
\* run when the active one is over.  Nothing is assumed of people, of the
\* workflows or of failures.
FairSpec == Spec /\ WF_vars(RunStep) /\ WF_vars(StartRun)

-----------------------------------------------------------------------------

\* A release that the publisher created stands on a commit that was the head of
\* main and whose required workflows had all succeeded at one time: whoever set
\* the tag, and however many runs were interrupted on the way.
ReleaseIsOfATestedCommit ==
  release = "ours" => tag \in tested /\ tag <= main

\* A release is only ever created by a run whose own candidate the tag names,
\* so that a tag left by an interrupted run is completed at that commit only.
ReleasedAtTheCandidate ==
  [][release = None /\ release' = "ours" => tag = sha /\ tag' = tag]_vars

\* The implementation keeps the promise of VersionPublication.
Promise == INSTANCE VersionPublication
KeepsThePromise == Promise!Spec

\* A run that examines the head of main with every workflow green and the tag
\* absent or its own publishes the version, unless something happens meanwhile:
\* a tag left behind by an interrupted run never stands in its way.
Publishable(c) ==
  /\ step = "gate main" /\ sha = c
  /\ main = c /\ passed[c] = Workflow /\ tag \in {None, c}

UndisturbedRunPublishes ==
  \A c \in Commit :
    Publishable(c) /\ ~disturbed ~> release # None \/ disturbed
=============================================================================
