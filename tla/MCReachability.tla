--------------------------- MODULE MCReachability ---------------------------
(* Reachability, with its history, on one machine. *)
EXTENDS Reachability
=============================================================================
