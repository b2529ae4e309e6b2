---------------------------- MODULE MCReporting ----------------------------
(***************************************************************************)
(* Instances of ReportingWorkflow for TLC.  The statutory spans keep their *)
(* order (4h < 24h < 72h < a month) where a run's deadlines need it, and   *)
(* are a few ticks long, so that every report can be early, on time or     *)
(* late within Time.                                                       *)
(***************************************************************************)
EXTENDS ReportingWorkflow

\* Months of one day each, so that a month is a day.
DayMonths == [m \in 1..4 |-> 1]

\* Days of two ticks: the month of the ticks 2 to 5 has two days, the next one.  A
\* report of tick 3 is due a month later at 7, one of tick 4 at 6.
ShortMonths == <<1, 2, 1, 3, 3>>

MainKeys == {Initial, Intermediate, Final}
ReclassificationKeys == MainKeys \cup {<<"RECLASSIFICATION", 1>>}
UpdateKeys == MainKeys \cup {<<"INTERMEDIATE", 2>>}

NoKeys == {}
InitialKey == {Initial}
IntermediateKey == {Intermediate}
=============================================================================
