------------------------------- MODULE Routes -------------------------------
(***************************************************************************)
(* Which shards a write goes to, strategy by strategy (strategies.go).     *)
(* A strategy that fails repeats a cycle of shards; RetryWriter counts     *)
(* what happens in the cycles, ShardedRing moves the values.  n is the     *)
(* number of shards, home the shard of the producer's ID, turn the number  *)
(* of shards of the cycle that come before.                                *)
(***************************************************************************)
EXTENDS Integers

Roaming == {"NextShard", "Hybrid"}

\* Mutant: the loop over the shards stops one short.
AllButOneShard(strategy, n) ==
    CASE strategy \in Roaming -> n - 1
      [] strategy = "RandomShard" -> n
      [] OTHER -> 1

\* NextShard and Hybrid try every shard; RandomShard its own and n - 1 random
\* ones; the others their own.
ShardsPerCycle(strategy, n) ==
    CASE strategy \in Roaming -> n
      [] strategy = "RandomShard" -> 1 + (n - 1)
      [] OTHER -> 1

\* Mutant: a random shard that falls on the producer's own is kept.
AnyShard(home, n) == 0 .. n - 1

\* A random shard that falls on the producer's own is replaced by the next.
OtherChoices(home, n) ==
    {IF r = home THEN (r + 1) % n ELSE r : r \in 0 .. n - 1}

\* Mutant: the index is not masked.
ShardsAtUnmasked(strategy, home, n, turn) ==
    CASE strategy \in Roaming -> {home + turn}
      [] strategy = "RandomShard" /\ turn > 0 -> OtherChoices(home, n)
      [] OTHER -> {home}

\* The shards that may come after turn of the cycle's shards.
ShardsAt(strategy, home, n, turn) ==
    CASE strategy \in Roaming -> {(home + turn) % n}
      [] strategy = "RandomShard" /\ turn > 0 -> OtherChoices(home, n)
      [] OTHER -> {home}
===============================================================================
