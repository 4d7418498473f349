---------------------------- MODULE MCCompletions ----------------------------
(* Small instances of Completions for TLC: "beds" is a personal routine of    *)
(* m1, "dishes" a pool routine of everybody; the tareas go round the members. *)
EXTENDS Completions, TLC

CONSTANTS m1, m2, t1, t2

MCAssigned == [r \in Routines |-> IF r = "beds" THEN {m1} ELSE Members]
MCDoerOf == [t \in Tareas |-> IF t = t1 THEN m1 ELSE m2]
=============================================================================
