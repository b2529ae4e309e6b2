----------------------------- MODULE MCThirdParty -----------------------------
(***************************************************************************)
(* An instance of ThirdParty for TLC: arrangements that differ in what     *)
(* they lack, whether they support critical functions and when they are in *)
(* force, the ratings that call for an exit plan and those that do not,    *)
(* and the extremes of a policy.                                           *)
(***************************************************************************)
EXTENDS ThirdParty, TLC

MCTerms ==
  {[missing |-> {},         critical |-> TRUE,  from |-> 1, to |-> None],
   [missing |-> {},         critical |-> FALSE, from |-> 0, to |-> None],
   [missing |-> {},         critical |-> FALSE, from |-> 0, to |-> 1],
   [missing |-> {"contract"}, critical |-> FALSE, from |-> 1, to |-> None]}

MCRating ==
  {[substitutability |-> "easy",         concentration |-> "low"],
   [substitutability |-> "easy",         concentration |-> "high"],
   [substitutability |-> "difficult",    concentration |-> "low"],
   [substitutability |-> "not_assessed", concentration |-> "high"]}

MCPolicy ==
  {[documents |-> {"contract"}, observation |-> TRUE, maxAge |-> 1,
    exitFor |-> Trigger],
   [documents |-> {}, observation |-> FALSE, maxAge |-> None,
    exitFor |-> {"high_concentration"}],
   [documents |-> {}, observation |-> FALSE, maxAge |-> 0, exitFor |-> {}]}

MCSymmetry == Permutations(ArrangementId) \cup Permutations(EvidenceId)
=============================================================================
