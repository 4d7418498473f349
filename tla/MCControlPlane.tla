--------------------------- MODULE MCControlPlane ---------------------------
(* Small instances of ControlPlane for TLC. *)
EXTENDS ControlPlane, TLC

ClientSymmetry == Permutations(Clients)
TaskSymmetry == Permutations(Tasks)
=============================================================================
