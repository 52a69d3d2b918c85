---------------------------- MODULE MCEventModule ----------------------------
(* One event of each kind, two callbacks. Lists and callbacks can be exchanged. *)
EXTENDS EventModule, TLC

MCSymmetry == Permutations(Lists) \cup Permutations(Callbacks)
===============================================================================
