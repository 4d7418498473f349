---------------------------- MODULE MCHostWatch -----------------------------
(* A small host for HostWatch: an allow-listed service that is heavy and     *)
(* whose executable was replaced under it, a build of the same identity that *)
(* is not allow-listed, a listener and a peer.                               *)
EXTENDS HostWatch

CONSTANTS service, build

MCProcs == {service, build}
MCFlags == [p \in MCProcs |-> IF p = service THEN {"deleted_exe"} ELSE {}]
MCIdentity == [p \in MCProcs |-> "build"]
MCAllowed == {service}
=============================================================================
