----------------------------- MODULE MCMirrors ------------------------------
(* A small catalogue for Mirrors: a weekly routine of two members, a monthly *)
(* one of one member, and a tarea.                                           *)
EXTENDS Mirrors, TLC

CONSTANTS m1, m2, weekly, monthly, chore

MCMembers == {m1, m2}
MCAssignee == chore :> m1
MCRoutine(targets, todo) ==
  [targets |-> targets, retired |-> FALSE, todo |-> todo, dated |-> TRUE, text |-> 0,
   ids |-> [m \in MCMembers |-> 0]]
MCAtFirst == weekly :> MCRoutine({m1, m2}, FALSE) @@ monthly :> MCRoutine({m1}, TRUE)
=============================================================================
