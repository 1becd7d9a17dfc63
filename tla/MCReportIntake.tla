--------------------------- MODULE MCReportIntake ---------------------------
(* A small instance of ReportIntake for TLC. *)
EXTENDS ReportIntake

CONSTANTS b1, b2, k1, k2
=============================================================================
