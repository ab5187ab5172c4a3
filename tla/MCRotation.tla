----------------------------- MODULE MCRotation -----------------------------
(* Rotation of one machine.                                                *)
EXTENDS RotationImplements
=============================================================================
