----------------------------- MODULE MCFactory -----------------------------
(* Small instances of Factory for TLC. *)
EXTENDS Factory, TLC

FactorySymmetry == Permutations(Slots) \cup Permutations(Operators)
=============================================================================
