--------------------------- MODULE MCHealthCheck ---------------------------
(* HealthStreak on one machine, for one check after the other. *)
EXTENDS HealthStreak
=============================================================================
