----------------------------- MODULE MCShardWrap -----------------------------
(* TLC instances of ShardWrap. *)
EXTENDS ShardWrap
===============================================================================
