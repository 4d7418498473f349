---------------------------- MODULE MCCycleClose ----------------------------
(* Small instances of CycleClose for TLC: one member with two sobres, whose  *)
(* weights divide no net evenly, and one whose only sobre takes no share.    *)
EXTENDS CycleClose, TLC

CONSTANTS m1, m2, s1, s2, s3

MCMembers == {m1, m2}
MCSobres == {s1, s2, s3}
MCOwner == s1 :> m1 @@ s2 :> m1 @@ s3 :> m2
MCWeight == s1 :> 2 @@ s2 :> 1 @@ s3 :> 0
=============================================================================
