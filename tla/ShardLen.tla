------------------------------ MODULE ShardLen ------------------------------
(***************************************************************************)
(* Len of ring.go on one shard, called by any goroutine while writers and  *)
(* the consumer are at work.  Len takes no snapshot: it loads writePos and *)
(* then readPos, and anything may happen in between.                       *)
(***************************************************************************)
EXTENDS Shard

VARIABLES
    lpc,        \* where the observer is in Len
    lwrite,     \* the writePos it loaded
    lstart,     \* history: the number of undelivered values at that load
    lresult     \* what the last call of Len returned

lenVars == <<lpc, lwrite, lstart, lresult>>

LenInit ==
    /\ Init
    /\ lpc = "idle"
    /\ lwrite = 0
    /\ lstart = 0
    /\ lresult = 0

\* The values that are accepted and not delivered.
Outstanding == Len(accepted) - Len(delivered)

LenLoadWritePos ==
    /\ lpc = "idle"
    /\ lwrite' = writePos
    /\ lstart' = Outstanding
    /\ lresult' = 0
    /\ lpc' = "loadRead"
    /\ UNCHANGED vars

\* Mutant: the difference without the test, which wraps around below zero.
LengthUnguarded(w, r) == (w - r) % 256

Length(w, r) == IF w > r THEN w - r ELSE 0

LenLoadReadPos ==
    /\ lpc = "loadRead"
    /\ lresult' = Length(lwrite, readPos)
    /\ lpc' = "idle"
    /\ lwrite' = 0
    /\ UNCHANGED <<vars, lstart>>

LenNext ==
    \/ Next /\ UNCHANGED lenVars
    \/ LenLoadWritePos
    \/ LenLoadReadPos

LenSpec == LenInit /\ [][LenNext]_<<vars, lenVars>>

\* The writers and the consumer keep running whatever the observer does.
LenLiveSpec == LenSpec /\ Fairness

-------------------------------------------------------------------------------
\* Len never counts too many: its answer is at most the number of undelivered
\* values when it began and at most their number when it ended, though neither
\* load saw both counters.  (It may count too few: a consumer that reads in
\* between can bring it down to zero while values remain.)
LenNeverOvercounts ==
    [][(lpc = "loadRead" /\ lpc' = "idle") =>
          lresult' <= lstart /\ lresult' <= Outstanding]_<<vars, lenVars>>
===============================================================================
