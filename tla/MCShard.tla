------------------------------- MODULE MCShard -------------------------------
(* TLC instances of Shard. *)
EXTENDS Shard, TLC

Permutation == Permutations(Writers)
===============================================================================
