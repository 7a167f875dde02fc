---------------------------- MODULE MCCallQueue ----------------------------
(* Instances of CallQueue for TLC: the threads are interchangeable. *)
EXTENDS CallQueue, TLC

ThreadSymmetry == Permutations(Workers) \union Permutations(Hosts)
=============================================================================
