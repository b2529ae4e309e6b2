------------------------- MODULE MCReportingDossier -------------------------
(***************************************************************************)
(* Instance of ReportingDossier for TLC, with the keys and the calendar of *)
(* MCReporting.                                                            *)
(***************************************************************************)
EXTENDS ReportingDossier, MCReporting
=============================================================================
