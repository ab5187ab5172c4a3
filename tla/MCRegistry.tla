----------------------------- MODULE MCRegistry -----------------------------
(* The instance of Registry for TLC. *)
EXTENDS Registry
=============================================================================
