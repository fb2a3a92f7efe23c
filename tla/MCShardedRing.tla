---------------------------- MODULE MCShardedRing ----------------------------
(* TLC instances of ShardedRing. *)
EXTENDS ShardedRing, TLC

\* Both have shard 0 when there are two shards; one roams, the other stays.
TwoOnOneShard == {0, 2}
OneRoams == (0 :> "NextShard") @@ (2 :> "Write")
RoamerWritesMost == (0 :> 4) @@ (2 :> 2)

\* With four shards all of these start at shard 0 and get into each other's way,
\* so the two that roam reach other shards.
ThreeProducers == {0, 4, 8}
TwoRoam == (0 :> "SleepBackoff") @@ (4 :> "Hybrid") @@ (8 :> "RandomShard")
OneWriteEach == [p \in ThreeProducers |-> 1]
===============================================================================
