----------------------------- MODULE MCHomeSync -----------------------------
(* HomeSync for TLC.  Liveness is among the properties, so the copies of the *)
(* runner are no symmetry set.                                               *)
EXTENDS HomeSync

=============================================================================
