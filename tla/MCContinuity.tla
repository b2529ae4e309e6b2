----------------------------- MODULE MCContinuity -----------------------------
(***************************************************************************)
(* Instances of ContinuityDossier for TLC: what an observation can have    *)
(* measured, around thresholds MTD 2, RTO 1, RPO 1 and service level 1.    *)
(***************************************************************************)
EXTENDS ContinuityDossier, TLC

Observed(restoration, loss, level) ==
  [restoration |-> restoration, loss |-> loss, level |-> level]

\* Every objective just met; the RTO missed but not the MTD; one metric missing.
MCMeasurement ==
  {Observed(1, 1, 1), Observed(2, 1, 1), Observed(1, None, 1)}

\* The RTO missed and the loss not known; everything met.
MCOutcome == {Observed(2, None, 1), Observed(1, 1, 1)}

\* Observations and persons are told apart by nothing else.
Interchangeable == Permutations(ObservationId) \cup Permutations(Person)
=============================================================================
