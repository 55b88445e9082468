--------------------------- MODULE MCReportChain ----------------------------
(* ReportChain for TLC.  Liveness is among the properties of its run, so the *)
(* sandboxes, though interchangeable, are not a symmetry set.                *)
EXTENDS ReportChain

=============================================================================
