----------------------------- MODULE BoundedQueue -----------------------------
(***************************************************************************)
(* What one shard promises, without slots, sequence numbers or program     *)
(* counters.  A write takes effect in two steps: it reserves the next      *)
(* place of an unbounded log (Claim) and later makes the value there       *)
(* visible (Commit).  Commits happen in any order; values leave in log     *)
(* order, each once, and only when committed (Take).  At most Capacity     *)
(* values are reserved and not yet taken.                                  *)
(***************************************************************************)
EXTENDS Integers, Sequences

CONSTANTS
    Values,     \* what may be stored
    Capacity    \* the slots of the shard

VARIABLES
    log,        \* the values in the order in which their places were reserved
    committed,  \* the places of log whose value is visible
    out         \* the values taken so far

queueVars == <<log, committed, out>>

QueueInit ==
    /\ log = <<>>
    /\ committed = {}
    /\ out = <<>>

Claim(v) ==
    /\ Len(log) - Len(out) < Capacity
    /\ log' = Append(log, v)
    /\ UNCHANGED <<committed, out>>

Commit(i) ==
    /\ i \in 1 .. Len(log)
    /\ i \notin committed
    /\ committed' = committed \cup {i}
    /\ UNCHANGED <<log, out>>

Take ==
    /\ Len(out) + 1 \in committed
    /\ out' = Append(out, log[Len(out) + 1])
    /\ UNCHANGED <<log, committed>>

QueueNext ==
    \/ \E v \in Values : Claim(v)
    \/ \E i \in 1 .. Len(log) : Commit(i)
    \/ Take

QueueSpec == QueueInit /\ [][QueueNext]_queueVars
===============================================================================
