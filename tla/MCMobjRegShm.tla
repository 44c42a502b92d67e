---------------------------- MODULE MCMobjRegShm ----------------------------
(* TLC instances of MobjRegShm; liveness is checked, so without symmetry. *)
EXTENDS MobjRegShm
=============================================================================
