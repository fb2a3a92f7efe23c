----------------------------- MODULE MCShardLen -----------------------------
(* TLC instance of ShardLen. *)
EXTENDS ShardLen
===============================================================================
