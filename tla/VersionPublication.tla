------------------------- MODULE VersionPublication -------------------------
(***************************************************************************)
(* What docs/RELEASE_PROCESS.md promises of the one authorized version:    *)
(* its tag is set once and never moved, its release is created once and    *)
(* never edited, and a release the publisher created stands on a commit    *)
(* that was the head of main and passed every required workflow.           *)
(***************************************************************************)
CONSTANTS Commit, None

VARIABLES
  tested,   \* the commits that were on main and passed every workflow
  tag,      \* the commit of the version's tag
  release   \* None, "ours" or a maintainer's: "foreign"

vars == <<tested, tag, release>>

Init == tested = {} /\ tag = None /\ release = None

Test(c) == tested' = tested \cup {c} /\ UNCHANGED <<tag, release>>

SetTag(c) == tag = None /\ tag' = c /\ UNCHANGED <<tested, release>>

Publish ==
  /\ release = None
  /\ tag \in tested
  /\ release' = "ours"
  /\ UNCHANGED <<tested, tag>>

PublishByHand ==
  /\ release = None
  /\ tag # None
  /\ release' = "foreign"
  /\ UNCHANGED <<tested, tag>>

Next == (\E c \in Commit : Test(c) \/ SetTag(c)) \/ Publish \/ PublishByHand

Spec == Init /\ [][Next]_vars
=============================================================================
