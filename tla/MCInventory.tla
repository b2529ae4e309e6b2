---------------------------- MODULE MCInventory ----------------------------
(***************************************************************************)
(* Instances of Inventory and DependencyImpact for TLC.                    *)
(***************************************************************************)
EXTENDS DependencyImpact, TLC

\* Nothing tells two services apart, nor two edges.
MCSymmetry == Permutations(Service) \cup Permutations(Edge)
=============================================================================
