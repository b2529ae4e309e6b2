-------------------------- MODULE PublicationProofs --------------------------
(***************************************************************************)
(* Proofs about Publication for any number of commits and workflows.       *)
(***************************************************************************)
EXTENDS Publication, TLAPS

LEMMA TypeInit == Init => TypeOK
  BY PublicationAssumption DEF Init, TypeOK, Steps

LEMMA TypeNext == TypeOK /\ [Next]_vars => TypeOK'
<1> SUFFICES ASSUME TypeOK, [Next]_vars PROVE TypeOK'
  OBVIOUS
<1> USE DEF TypeOK, repository, run
<1>1. CASE MoveMain
  BY <1>1 DEF MoveMain
<1>2. ASSUME NEW c \in Commit, NEW w \in Workflow,
             WorkflowSucceeds(c, w) \/ WorkflowFails(c, w) \/ WorkflowQueued(c, w)
      PROVE TypeOK'
  BY <1>2 DEF WorkflowSucceeds, WorkflowFails, WorkflowQueued
<1>3. ASSUME NEW c \in Commit, Rerun(c) \/ SetTagByHand(c) PROVE TypeOK'
  BY <1>3 DEF Rerun, SetTagByHand
<1>4. CASE ReleaseByHand
  BY <1>4 DEF ReleaseByHand
<1>5. CASE StartRun
  BY <1>5 DEF StartRun, Steps
<1>6. ASSUME NEW here, NEW next \in Steps,
             ReadMain(here, next) \/ ReadRuns(here, next)
      PROVE TypeOK'
  BY <1>6 DEF ReadMain, ReadRuns, Continue, End, Steps
<1>7. CASE ReadTag \/ ReadRelease
  BY <1>7 DEF ReadTag, ReadRelease, Continue, End, Steps
<1>8. CASE CreateTag \/ RereadTag
  BY <1>8 DEF CreateTag, RereadTag, Continue, End, Steps
<1>9. CASE CreateRelease \/ Verify
  BY <1>9 DEF CreateRelease, Verify, Continue, End, Steps
<1>10. CASE Fail \/ LoseAnswer
  BY <1>10 DEF Fail, LoseAnswer, End, Steps
<1>11. CASE UNCHANGED vars
  BY <1>11 DEF vars
<1> QED
  BY <1>1, <1>2, <1>3, <1>4, <1>5, <1>6, <1>7, <1>8, <1>9, <1>10, <1>11
     DEF Next, RunStep, Steps

\* The version's tag, release, candidate, reference and outcome keep their
\* types through every step, for any number of commits and workflows.
THEOREM PublicationTypeCorrect == Spec => []TypeOK
  BY TypeInit, TypeNext, PTL DEF Spec

-----------------------------------------------------------------------------
(* What the history remembers of main and of the workflows. *)

History ==
  /\ \A c \in Commit : passed[c] = Workflow => c \in tested
  /\ \A c \in tested : c <= main

LEMMA HistoryInit == Init => History
  BY PublicationAssumption DEF Init, History

\* A step that does not complete a workflow leaves no commit newly green.
LEMMA HistoryNext == TypeOK /\ History /\ [Next]_vars => History'
<1> SUFFICES ASSUME TypeOK, History, [Next]_vars PROVE History'
  OBVIOUS
<1> USE DEF TypeOK, History
<1>1. CASE MoveMain
  BY <1>1, PublicationAssumption DEF MoveMain
<1>2. ASSUME NEW c \in Commit, NEW w \in Workflow, WorkflowSucceeds(c, w)
      PROVE History'
  <2>1. tested \subseteq tested' /\ main' = main
    BY <1>2 DEF WorkflowSucceeds
  <2>2. passed'[c] = Workflow => c \in tested'
    BY <1>2 DEF WorkflowSucceeds
  <2>3. \A d \in Commit \ {c} : passed'[d] = passed[d]
    BY <1>2 DEF WorkflowSucceeds
  <2>4. \A d \in tested' : d <= main'
    BY <1>2 DEF WorkflowSucceeds
  <2> QED
    BY <2>1, <2>2, <2>3, <2>4
<1>3. ASSUME NEW c \in Commit, NEW w \in Workflow,
             WorkflowFails(c, w) \/ WorkflowQueued(c, w)
      PROVE History'
  <2>1. UNCHANGED <<main, tested>>
    BY <1>3 DEF WorkflowFails, WorkflowQueued
  <2>2. w \notin passed'[c] /\ \A d \in Commit \ {c} : passed'[d] = passed[d]
    BY <1>3 DEF WorkflowFails, WorkflowQueued
  <2> QED
    BY <2>1, <2>2
<1>4. CASE UNCHANGED <<main, passed, tested>>
  BY <1>4
<1>5. (\E c \in Commit : Rerun(c) \/ SetTagByHand(c)) \/ ReleaseByHand
        \/ StartRun \/ RunStep \/ Fail \/ LoseAnswer \/ UNCHANGED vars
      => UNCHANGED <<main, passed, tested>>
  BY DEF Rerun, SetTagByHand, ReleaseByHand, StartRun, RunStep, ReadMain,
         ReadRuns, ReadTag, ReadRelease, CreateTag, RereadTag, CreateRelease,
         Verify, Fail, LoseAnswer, repository, vars
<1> QED
  BY <1>1, <1>2, <1>3, <1>4, <1>5 DEF Next

LEMMA HistoryGrows == TypeOK /\ [Next]_vars =>
                        tested \subseteq tested' /\ main <= main'
<1> SUFFICES ASSUME TypeOK, [Next]_vars
             PROVE tested \subseteq tested' /\ main <= main'
  OBVIOUS
<1> USE PublicationAssumption DEF TypeOK
<1>1. CASE MoveMain
  BY <1>1 DEF MoveMain
<1>2. ASSUME NEW c \in Commit, NEW w \in Workflow,
             WorkflowSucceeds(c, w) \/ WorkflowFails(c, w) \/ WorkflowQueued(c, w)
      PROVE tested \subseteq tested' /\ main' = main
  BY <1>2 DEF WorkflowSucceeds, WorkflowFails, WorkflowQueued
<1>3. (\E c \in Commit : Rerun(c) \/ SetTagByHand(c)) \/ ReleaseByHand
        \/ StartRun \/ RunStep \/ Fail \/ LoseAnswer \/ UNCHANGED vars
      => UNCHANGED <<main, tested>>
  BY DEF Rerun, SetTagByHand, ReleaseByHand, StartRun, RunStep, ReadMain,
         ReadRuns, ReadTag, ReadRelease, CreateTag, RereadTag, CreateRelease,
         Verify, Fail, LoseAnswer, repository, vars
<1> QED
  BY <1>1, <1>2, <1>3 DEF Next

-----------------------------------------------------------------------------
(* What a run that got this far knows. *)

PastFirstGate ==
  {"publish main", "publish runs", "read tag", "read release", "create tag",
   "reread tag", "recheck main", "recheck runs", "create release", "verify"}

PastTagCheck == {"recheck main", "recheck runs", "create release", "verify"}

\* A gate that passed was told that its candidate is green, which the history
\* keeps although it may be so no more.
Gated ==
  /\ step # "idle" => sha \in Commit
  /\ step \in PastFirstGate => sha \in tested

\* What a run was told of the tag stays true when tags cannot move.
TagRead ==
  /\ step = "read release" => reference \in {None, tag}
  /\ step \in PastTagCheck => tag = sha

LEMMA GatedInit == Init => Gated
  BY DEF Init, Gated, PastFirstGate

LEMMA GatedNext == TypeOK /\ History /\ Gated /\ [Next]_vars => Gated'
<1> SUFFICES ASSUME TypeOK, History, Gated, [Next]_vars PROVE Gated'
  OBVIOUS
<1>1. tested \subseteq tested'
  BY HistoryGrows
<1> USE DEF Gated
<1>2. CASE UNCHANGED <<step, sha>>
  BY <1>1, <1>2
<1>3. CASE StartRun
  BY <1>3, <1>2, PublicationAssumption
     DEF StartRun, PastFirstGate, TypeOK, run, repository
<1>4. ASSUME NEW here \in Steps \ {"idle"}, NEW next \in Steps \ {"idle"},
             ReadMain(here, next), here \in PastFirstGate \/ next \notin PastFirstGate
      PROVE Gated'
  BY <1>1, <1>4 DEF ReadMain, Continue, End, PastFirstGate
<1>5. ASSUME NEW here \in Steps \ {"idle"}, NEW next \in Steps \ {"idle"},
             ReadRuns(here, next)
      PROVE Gated'
  BY <1>1, <1>5 DEF ReadRuns, Continue, End, PastFirstGate, History
<1>6. CASE ReadTag \/ ReadRelease \/ CreateTag \/ RereadTag
  BY <1>1, <1>6 DEF ReadTag, ReadRelease, CreateTag, RereadTag, Continue, End,
                    PastFirstGate
<1>7. CASE CreateRelease \/ Verify \/ Fail \/ LoseAnswer
  BY <1>1, <1>7 DEF CreateRelease, Verify, Fail, LoseAnswer, Continue, End,
                    PastFirstGate
<1>8. ASSUME NEW c \in Commit, NEW w \in Workflow,
             MoveMain \/ WorkflowSucceeds(c, w) \/ WorkflowFails(c, w)
               \/ WorkflowQueued(c, w) \/ Rerun(c) \/ SetTagByHand(c)
               \/ ReleaseByHand
      PROVE UNCHANGED <<step, sha>>
  BY <1>8 DEF MoveMain, WorkflowSucceeds, WorkflowFails, WorkflowQueued, Rerun,
              SetTagByHand, ReleaseByHand, run
<1> QED
  BY <1>2, <1>3, <1>4, <1>5, <1>6, <1>7, <1>8, PublicationAssumption
     DEF Next, RunStep, vars, run, Steps, PastFirstGate

LEMMA TagReadInit == Init => TagRead
  BY DEF Init, TagRead, PastTagCheck

\* A tag that is set stays where it is, when the service protects tags.
LEMMA TagStays ==
  ASSUME TagsAreProtected, TypeOK, [Next]_vars
  PROVE  tag = None \/ tag' = tag
<1>1. CASE \E c \in Commit : SetTagByHand(c)
  BY <1>1 DEF SetTagByHand
<1>2. CASE CreateTag \/ LoseAnswer
  BY <1>2 DEF CreateTag, LoseAnswer
<1>3. ASSUME NEW c \in Commit, NEW w \in Workflow,
             MoveMain \/ WorkflowSucceeds(c, w) \/ WorkflowFails(c, w)
               \/ WorkflowQueued(c, w) \/ Rerun(c) \/ ReleaseByHand
      PROVE tag' = tag
  BY <1>3 DEF MoveMain, WorkflowSucceeds, WorkflowFails, WorkflowQueued, Rerun,
              ReleaseByHand, repository
<1>4. StartRun \/ Fail \/ ReadTag \/ ReadRelease \/ RereadTag \/ CreateRelease
        \/ Verify => tag' = tag
  BY DEF StartRun, Fail, ReadTag, ReadRelease, RereadTag, CreateRelease, Verify,
         repository
<1>5. ASSUME NEW here, NEW next, ReadMain(here, next) \/ ReadRuns(here, next)
      PROVE tag' = tag
  BY <1>5 DEF ReadMain, ReadRuns, repository
<1> QED
  BY <1>1, <1>2, <1>3, <1>4, <1>5, PublicationAssumption
     DEF Next, RunStep, vars, repository

LEMMA TagReadNext ==
  TagsAreProtected /\ TypeOK /\ Gated /\ TagRead /\ [Next]_vars => TagRead'
<1> SUFFICES ASSUME TagsAreProtected, TypeOK, Gated, TagRead, [Next]_vars
             PROVE TagRead'
  OBVIOUS
<1>1. tag = None \/ tag' = tag
  BY TagStays
<1>2. step \in PastTagCheck => tag # None
  BY PublicationAssumption DEF TagRead, Gated, PastTagCheck
<1> USE DEF TagRead
<1>3. CASE UNCHANGED <<step, sha, reference>>
  BY <1>1, <1>2, <1>3
<1>4. CASE StartRun
  <2>1. UNCHANGED <<step, sha, reference>> \/ step' = "gate main"
    BY <1>4 DEF StartRun, run
  <2> QED
    BY <1>3, <2>1 DEF PastTagCheck
<1>5. ASSUME NEW here \in Steps, NEW next \in Steps \ {"read release"},
             ReadMain(here, next) \/ ReadRuns(here, next),
             here \in PastTagCheck \/ next \notin PastTagCheck
      PROVE TagRead'
  BY <1>1, <1>2, <1>5 DEF ReadMain, ReadRuns, Continue, End, PastTagCheck
<1>6. CASE ReadTag
  BY <1>6 DEF ReadTag, Continue, repository, PastTagCheck
<1>7. CASE ReadRelease
  BY <1>7, PublicationAssumption
     DEF ReadRelease, Continue, End, repository, PastTagCheck, Gated, PastFirstGate
<1>8. CASE CreateTag \/ RereadTag
  BY <1>8 DEF CreateTag, RereadTag, Continue, End, repository, PastTagCheck
<1>9. CASE CreateRelease \/ Verify \/ Fail \/ LoseAnswer
  BY <1>1, <1>2, <1>9 DEF CreateRelease, Verify, Fail, LoseAnswer, Continue, End,
                          PastTagCheck
<1>10. ASSUME NEW c \in Commit, NEW w \in Workflow,
              MoveMain \/ WorkflowSucceeds(c, w) \/ WorkflowFails(c, w)
                \/ WorkflowQueued(c, w) \/ Rerun(c) \/ SetTagByHand(c)
                \/ ReleaseByHand
       PROVE UNCHANGED <<step, sha, reference>>
  BY <1>10 DEF MoveMain, WorkflowSucceeds, WorkflowFails, WorkflowQueued, Rerun,
               SetTagByHand, ReleaseByHand, run
<1> QED
  BY <1>3, <1>4, <1>5, <1>6, <1>7, <1>8, <1>9, <1>10, PublicationAssumption
     DEF Next, RunStep, vars, run, Steps, PastTagCheck

-----------------------------------------------------------------------------
(* The release. *)

RunInv == TypeOK /\ History /\ Gated

LEMMA RunInvariant == Spec => []RunInv
<1>1. Init => RunInv
  BY TypeInit, HistoryInit, GatedInit DEF RunInv
<1>2. RunInv /\ [Next]_vars => RunInv'
  BY TypeNext, HistoryNext, GatedNext DEF RunInv
<1> QED
  BY <1>1, <1>2, PTL DEF Spec

LEMMA TagReadInvariant == TagsAreProtected => (Spec => []TagRead)
<1> SUFFICES ASSUME TagsAreProtected PROVE Spec => []TagRead
  OBVIOUS
<1>1. TypeOK /\ Gated /\ TagRead /\ [Next]_vars => TagRead'
  BY TagReadNext
<1> QED
  BY <1>1, RunInvariant, TagReadInit, PTL DEF Spec, RunInv

\* The publisher creates a release in one way only.
LEMMA HowAReleaseIsCreated ==
  ASSUME [Next]_vars, release # "ours", release' = "ours"
  PROVE  /\ step = "create release"
         /\ tag' = tag /\ tested' = tested /\ main' = main
         /\ release = None
<1>1. CASE CreateRelease \/ LoseAnswer
  BY <1>1 DEF CreateRelease, LoseAnswer
<1>2. CASE ReleaseByHand
  BY <1>2 DEF ReleaseByHand
<1>3. ASSUME NEW c \in Commit, NEW w \in Workflow,
             MoveMain \/ WorkflowSucceeds(c, w) \/ WorkflowFails(c, w)
               \/ WorkflowQueued(c, w) \/ Rerun(c) \/ SetTagByHand(c)
      PROVE release' = release
  BY <1>3 DEF MoveMain, WorkflowSucceeds, WorkflowFails, WorkflowQueued, Rerun,
              SetTagByHand, repository
<1>4. StartRun \/ Fail \/ ReadTag \/ ReadRelease \/ CreateTag \/ RereadTag
        \/ Verify => release' = release
  BY DEF StartRun, Fail, ReadTag, ReadRelease, CreateTag, RereadTag, Verify,
         repository
<1>5. ASSUME NEW here, NEW next, ReadMain(here, next) \/ ReadRuns(here, next)
      PROVE release' = release
  BY <1>5 DEF ReadMain, ReadRuns, repository
<1> QED
  BY <1>1, <1>2, <1>3, <1>4, <1>5, PublicationAssumption
     DEF Next, RunStep, vars, repository

\* When tags cannot be moved, a release the publisher created stands on a commit
\* that was the head of main and had passed every required workflow, whoever set
\* the tag and however many runs were interrupted.
THEOREM ReleaseIsTested == TagsAreProtected => (Spec => []ReleaseIsOfATestedCommit)
<1> SUFFICES ASSUME TagsAreProtected PROVE Spec => []ReleaseIsOfATestedCommit
  OBVIOUS
<1> DEFINE Released == release = "ours" => tag \in tested
<1>1. Init => Released
  BY PublicationAssumption DEF Init
<1>2. ASSUME RunInv, TagRead, Released, [Next]_vars PROVE Released'
  <2>1. tested \subseteq tested'
    BY <1>2, HistoryGrows DEF RunInv
  <2>2. tag = None \/ tag' = tag
    BY <1>2, TagStays DEF RunInv
  <2>3. None \notin tested
    BY <1>2, PublicationAssumption DEF RunInv, TypeOK
  <2>4. CASE release = "ours"
    BY <1>2, <2>1, <2>2, <2>3, <2>4
  <2>5. CASE release # "ours" /\ release' = "ours"
    <3>1. step = "create release" /\ tag' = tag /\ tested' = tested
      BY <1>2, <2>5, HowAReleaseIsCreated
    <3>2. tag = sha /\ sha \in tested
      BY <1>2, <3>1 DEF TagRead, RunInv, Gated, PastTagCheck, PastFirstGate
    <3> QED
      BY <3>1, <3>2
  <2> QED
    BY <2>4, <2>5
<1>3. RunInv /\ Released => ReleaseIsOfATestedCommit
  BY DEF RunInv, History, ReleaseIsOfATestedCommit
<1>4. RunInv /\ TagRead /\ Released /\ [Next]_vars => Released'
  BY <1>2
<1> HIDE DEF Released
<1> QED
  BY <1>1, <1>3, <1>4, RunInvariant, TagReadInvariant, PTL DEF Spec

\* When tags cannot be moved, a release is only ever created by a run whose
\* candidate the tag names.
THEOREM ReleaseIsOfTheCandidate == TagsAreProtected => (Spec => ReleasedAtTheCandidate)
<1> SUFFICES ASSUME TagsAreProtected PROVE Spec => ReleasedAtTheCandidate
  OBVIOUS
<1> DEFINE Created == release = None /\ release' = "ours" => tag = sha /\ tag' = tag
<1>1. TagRead /\ [Next]_vars => [Created]_vars
  BY HowAReleaseIsCreated, PublicationAssumption DEF TagRead, PastTagCheck
<1> QED
  BY <1>1, TagReadInvariant, PTL DEF Spec, ReleasedAtTheCandidate

-----------------------------------------------------------------------------
(* The refinement. *)

LEMMA StepKeepsThePromise ==
  ASSUME TagsAreProtected, RunInv, TagRead, [Next]_vars
  PROVE  [Promise!Next]_(Promise!vars)
<1> USE DEF RunInv, Promise!vars, repository
<1> DEFINE Quiet == UNCHANGED <<tested, tag, release>>
<1>1. ASSUME NEW c \in Commit, NEW w \in Workflow, WorkflowSucceeds(c, w)
      PROVE Quiet \/ Promise!Test(c)
  BY <1>1 DEF WorkflowSucceeds, Promise!Test
<1>2. ASSUME NEW c \in Commit, SetTagByHand(c) PROVE Promise!SetTag(c)
  BY <1>2 DEF SetTagByHand, Promise!SetTag
<1>3. ReleaseByHand => Promise!PublishByHand
  BY DEF ReleaseByHand, Promise!PublishByHand
<1>4. step \in {"create tag", "create release"} => sha \in Commit
  BY DEF Gated
<1>5. CreateTag => Quiet \/ Promise!SetTag(sha)
  BY DEF CreateTag, Promise!SetTag
<1>6. step = "create release" => tag \in tested
  BY DEF Gated, TagRead, PastTagCheck, PastFirstGate
<1>7. CreateRelease => Quiet \/ Promise!Publish
  BY <1>6 DEF CreateRelease, Promise!Publish
<1>8. LoseAnswer => Promise!SetTag(sha) \/ Promise!Publish
  BY <1>6 DEF LoseAnswer, Promise!SetTag, Promise!Publish
<1>9. ASSUME NEW c \in Commit, NEW w \in Workflow,
             MoveMain \/ WorkflowFails(c, w) \/ WorkflowQueued(c, w) \/ Rerun(c)
      PROVE Quiet
  BY <1>9 DEF MoveMain, WorkflowFails, WorkflowQueued, Rerun
<1>10. StartRun \/ Fail \/ ReadTag \/ ReadRelease \/ RereadTag \/ Verify => Quiet
  BY DEF StartRun, Fail, ReadTag, ReadRelease, RereadTag, Verify
<1>11. ASSUME NEW here, NEW next, ReadMain(here, next) \/ ReadRuns(here, next)
       PROVE Quiet
  BY <1>11 DEF ReadMain, ReadRuns
<1>12. UNCHANGED vars => Quiet
  BY DEF vars
<1>13. CreateTag \/ LoseAnswer => step \in {"create tag", "create release"}
  BY DEF CreateTag, LoseAnswer
<1> HIDE DEF Quiet
<1>14. Quiet => UNCHANGED Promise!vars
  BY DEF Quiet
<1> QED
  BY <1>1, <1>2, <1>3, <1>4, <1>5, <1>7, <1>8, <1>9, <1>10, <1>11, <1>12, <1>13,
     <1>14, PublicationAssumption
     DEF Next, RunStep, Promise!Next

\* When tags cannot be moved, the publisher, its interrupted runs and the people
\* who share the repository with it together implement VersionPublication: one
\* tag, set once; one release, created once, the publisher's on a tested commit.
THEOREM PublicationKeepsThePromise ==
  TagsAreProtected => (Spec => KeepsThePromise)
<1> SUFFICES ASSUME TagsAreProtected PROVE Spec => KeepsThePromise
  OBVIOUS
<1>1. Init => Promise!Init
  BY DEF Init, Promise!Init
<1>2. RunInv /\ TagRead /\ [Next]_vars => [Promise!Next]_(Promise!vars)
  BY StepKeepsThePromise
<1> QED
  BY <1>1, <1>2, RunInvariant, TagReadInvariant, PTL
     DEF Spec, KeepsThePromise, Promise!Spec
=============================================================================
