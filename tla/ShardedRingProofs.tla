-------------------------- MODULE ShardedRingProofs --------------------------
(***************************************************************************)
(* Proofs about ShardedRing, for every number of shards, slots, producers  *)
(* and strategies: the inductive invariant Inv, and what follows from it.  *)
(* The argument: every accepted value is in one place of one log, the      *)
(* consumer has exactly what is taken, and takes a log in its order; so    *)
(* values of one shard stay in order, and a value can overtake only what   *)
(* other shards still hold.                                                *)
(***************************************************************************)
EXTENDS ShardedRing, Arithmetic, SequenceTheorems, TLAPS

LEMMA RingFacts ==
  /\ NumShards \in Nat \ {0}
  /\ ShardSize \in Nat /\ ShardSize >= 2
  /\ StartModulus \in Nat \ {0}
  /\ \A p \in Producers : p \in Nat /\ MaxWrites[p] \in Nat
BY RingAssumption

LEMMA ModShards == \A x \in Nat : x % NumShards \in Shards
BY DivMod, RingFacts DEF Shards

\* A value is a producer and the number of one of its writes.
LEMMA WriteParts ==
  \A x \in AllWrites :
      /\ x[1] \in Producers /\ x[2] \in Nat \ {0} /\ x[2] <= MaxWrites[x[1]]
      /\ x = <<x[1], x[2]>>
<1> SUFFICES ASSUME NEW x \in AllWrites
             PROVE  /\ x[1] \in Producers /\ x[2] \in Nat \ {0} /\ x[2] <= MaxWrites[x[1]]
                    /\ x = <<x[1], x[2]>>
  OBVIOUS
<1>1. PICK p \in Producers : x \in {p} \X (1 .. MaxWrites[p])
  BY DEF AllWrites
<1> QED
  BY <1>1, RingFacts

LEMMA WriteIn ==
  ASSUME NEW p \in Producers, NEW n \in 1 .. MaxWrites[p]
  PROVE  <<p, n>> \in AllWrites
BY DEF AllWrites

LEMMA MinPair ==
  ASSUME NEW a \in Int, NEW b \in Int
  PROVE  Min({a, b}) = IF a <= b THEN a ELSE b
<1>1. \A x \in {a, b} : (\A y \in {a, b} : x <= y) <=> x = IF a <= b THEN a ELSE b
  OBVIOUS
<1> QED
  BY <1>1 DEF Min

-------------------------------------------------------------------------------
(* Sequences *)

LEMMA AppendParts ==
  ASSUME NEW S, NEW q \in Seq(S), NEW v \in S
  PROVE  /\ Append(q, v) \in Seq(S)
         /\ Len(q) \in Nat
         /\ Len(Append(q, v)) = Len(q) + 1
         /\ \A i \in 1 .. Len(q) : Append(q, v)[i] = q[i]
         /\ Append(q, v)[Len(q) + 1] = v
OBVIOUS

LEMMA ConcatAppend ==
  ASSUME NEW S, NEW q \in Seq(S), NEW r \in Seq(S), NEW v \in S
  PROVE  q \o Append(r, v) = Append(q \o r, v)
OBVIOUS

LEMMA ConcatEmpty ==
  ASSUME NEW S, NEW q \in Seq(S)
  PROVE  q \o <<>> = q
OBVIOUS

\* A prefix of a sequence, one longer.
LEMMA PrefixGrows ==
  ASSUME NEW S, NEW q \in Seq(S), NEW k \in Nat, k + 1 <= Len(q)
  PROVE  /\ Len(SubSeq(q, 1, k)) = k
         /\ SubSeq(q, 1, k + 1) = Append(SubSeq(q, 1, k), q[k + 1])
<1>1. \A i \in 1 .. k + 1 : q[i] \in S
  BY ElementOfSeq
<1>2. /\ SubSeq(q, 1, k) \in Seq(S) /\ Len(SubSeq(q, 1, k)) = k
      /\ \A i \in 1 .. k : SubSeq(q, 1, k)[i] = q[i]
  BY <1>1, SubSeqProperties
<1>3. /\ SubSeq(q, 1, k + 1) \in Seq(S) /\ Len(SubSeq(q, 1, k + 1)) = k + 1
      /\ \A i \in 1 .. k + 1 : SubSeq(q, 1, k + 1)[i] = q[i]
  BY <1>1, SubSeqProperties
<1> DEFINE a == SubSeq(q, 1, k)
           b == SubSeq(q, 1, k + 1)
           c == Append(a, q[k + 1])
<1>4. /\ c \in Seq(S) /\ Len(c) = k + 1 /\ c[k + 1] = q[k + 1]
      /\ \A i \in 1 .. k : c[i] = a[i]
  BY <1>1, <1>2, AppendParts
<1> HIDE DEF a, b, c
<1>5. \A i \in 1 .. Len(b) : b[i] = c[i]
  BY <1>2, <1>3, <1>4 DEF a, b
<1>6. b = c
  BY <1>3, <1>4, <1>5, SeqEqual DEF b
<1> QED
  BY <1>2, <1>6 DEF a, b, c

LEMMA GotType == TypeOK => Got \in Seq(AllWrites) /\ Len(Got) \in Nat
BY DEF TypeOK, Got

LEMMA LogType ==
  ASSUME TypeOK, NEW s \in Shards
  PROVE  /\ Len(log[s]) \in Nat
         /\ \A i \in 1 .. Len(log[s]) : log[s][i] \in AllWrites
BY DEF TypeOK

-------------------------------------------------------------------------------
(* Where a producer goes *)

LEMMA RouteInRing ==
  ASSUME NEW strategy, NEW home \in Shards, NEW turn \in Nat,
         NEW s \in ShardsAt(strategy, home, NumShards, turn)
  PROVE  s \in Shards
<1>1. CASE s = (home + turn) % NumShards
  BY <1>1, ModShards DEF Shards
<1>2. CASE s \in OtherChoices(home, NumShards)
  <2>1. PICK r \in 0 .. NumShards - 1 : s = IF r = home THEN (r + 1) % NumShards ELSE r
    BY <1>2 DEF OtherChoices
  <2> QED
    BY <2>1, ModShards DEF Shards
<1>3. CASE s = home
  BY <1>3
<1> QED
  BY <1>1, <1>2, <1>3 DEF ShardsAt

LEMMA HomeInRing == \A p \in Producers : selectShard(p) \in Shards
BY ModShards, RingFacts DEF selectShard

\* A cycle of one shard is the shard of the producer's ID.
LEMMA RouteHome ==
  ASSUME NEW p \in Producers, StaysHome(p), NEW turn \in Nat,
         NEW s \in ShardsAt(Strategy[p], selectShard(p), NumShards, turn)
  PROVE  s = selectShard(p)
<1>1. s \in Shards /\ selectShard(p) \in Shards
  BY RouteInRing, HomeInRing
<1>2. CASE NumShards = 1
  BY <1>1, <1>2 DEF Shards
<1>3. CASE NumShards # 1
  <2>1. Strategy[p] \notin Roaming /\ Strategy[p] # "RandomShard"
    BY <1>3, RingFacts DEF StaysHome, ShardsPerCycle
  <2> QED
    BY <2>1 DEF ShardsAt
<1> QED
  BY <1>2, <1>3

-------------------------------------------------------------------------------
(* What each part of the invariant depends on *)

LEMMA SameShards ==
  ASSUME ShardsOK, UNCHANGED <<log, committed, taken>> PROVE ShardsOK'
BY DEF ShardsOK

LEMMA SameWrites ==
  ASSUME WritesOK, UNCHANGED <<log, pcount>> PROVE WritesOK'
<1>1. \A x : Placed(x)' <=> Placed(x)
  BY DEF Placed
<1> QED
  BY <1>1 DEF WritesOK

LEMMA SameDelivery ==
  ASSUME DeliveryOK, UNCHANGED <<log, taken>>, Got' = Got PROVE DeliveryOK'
BY DEF DeliveryOK

LEMMA SameOvertaken ==
  ASSUME OvertakenFits, Got' = Got PROVE OvertakenFits'
BY DEF OvertakenFits, Overtaken

LEMMA SameScan ==
  ASSUME ScanOK, UNCHANGED <<committed, taken, readStartShard, callVars>> PROVE ScanOK'
BY DEF ScanOK, callVars

LEMMA SameRotation ==
  ASSUME RotationOK, UNCHANGED <<readStartShard, cpc, start, passedOver>> PROVE RotationOK'
BY DEF RotationOK

LEMMA SameGot == ASSUME UNCHANGED <<received, callVars>> PROVE Got' = Got
BY DEF Got, callVars

-------------------------------------------------------------------------------
(* Steps of a producer that move no value *)

\* The producer goes to a shard of its route, or leaves Write.
LEMMA QuietProducerStep ==
  ASSUME Inv, NEW p \in Producers, NEW x \in {"idle", "try"}, NEW s \in Shards,
         ppc' = [ppc EXCEPT ![p] = x], pshard' = [pshard EXCEPT ![p] = s],
         pturn' \in [Producers -> Nat], pseen' \in [Producers -> Nat],
         StaysHome(p) => s = selectShard(p),
         x = "try" => pcount[p] < MaxWrites[p],
         UNCHANGED <<log, committed, taken, pplace, pcount, readStartShard, callVars,
                     received, passedOver>>
  PROVE  Inv'
<1> USE DEF Inv
<1>1. TypeOK'
  BY DEF TypeOK, callVars
<1>2. ShardsOK' /\ WritesOK' /\ ScanOK'
  BY SameShards, SameWrites, SameScan
<1>3. RotationOK'
  BY SameRotation DEF callVars
<1>4. DeliveryOK' /\ OvertakenFits'
  BY SameGot, SameDelivery, SameOvertaken
<1>5. ProducersOK'
  <2> SUFFICES ASSUME NEW y \in Producers
               PROVE  /\ StaysHome(y) => pshard'[y] = selectShard(y)
                      /\ ppc'[y] = "try" => pcount[y] < MaxWrites[y]
                      /\ ppc'[y] = "store" =>
                            /\ pplace[y] \in 1 .. Len(log[pshard'[y]])
                            /\ pplace[y] \notin committed[pshard'[y]]
                            /\ log[pshard'[y]][pplace[y]][1] = y
    BY DEF ProducersOK
  <2>1. CASE y = p
    BY <2>1 DEF TypeOK
  <2>2. CASE y # p
    BY <2>2 DEF TypeOK, ProducersOK
  <2> QED
    BY <2>1, <2>2
<1> QED
  BY <1>1, <1>2, <1>3, <1>4, <1>5

LEMMA TryInv ==
  ASSUME Inv, NEW p \in Producers, NEW s \in Shards, NEW turn \in Nat, Try(p, s, turn),
         StaysHome(p) => s = selectShard(p), pcount[p] < MaxWrites[p],
         UNCHANGED <<log, committed, taken, pplace, pcount, readStartShard, callVars,
                     received, passedOver>>
  PROVE  Inv'
<1>1. pturn' \in [Producers -> Nat] /\ pseen' \in [Producers -> Nat]
  BY LogType DEF Try, Inv, TypeOK
<1> QED
  BY <1>1, QuietProducerStep DEF Try

LEMMA TryTurnInv ==
  ASSUME Inv, NEW p \in Producers, NEW turn \in Nat, TryTurn(p, turn),
         pcount[p] < MaxWrites[p],
         UNCHANGED <<log, committed, taken, pplace, pcount, readStartShard, callVars,
                     received, passedOver>>
  PROVE  Inv'
<1>1. PICK s \in ShardsAt(Strategy[p], selectShard(p), NumShards, turn) : Try(p, s, turn)
  BY DEF TryTurn
<1>2. s \in Shards /\ (StaysHome(p) => s = selectShard(p))
  BY RouteInRing, RouteHome, HomeInRing
<1> QED
  BY <1>1, <1>2, TryInv

LEMMA ReturnHome ==
  ASSUME Inv, NEW p \in Producers, Return(p)
  PROVE  /\ ppc' = [ppc EXCEPT ![p] = "idle"]
         /\ pshard' = [pshard EXCEPT ![p] = selectShard(p)]
         /\ pturn' \in [Producers -> Nat] /\ pseen' \in [Producers -> Nat]
         /\ selectShard(p) \in Shards
BY HomeInRing DEF Return, selectShard, Inv, TypeOK

LEMMA QuietStepsInv ==
  ASSUME Inv, NEW p \in Producers,
         BeginWrite(p) \/ RetryShard(p) \/ MoveOn(p) \/ StartOver(p) \/ RejectWrite(p)
  PROVE  Inv'
<1>1. CASE BeginWrite(p)
  BY <1>1, TryTurnInv DEF BeginWrite
<1>2. ASSUME WriteRefused(p)
      PROVE  /\ pcount[p] < MaxWrites[p] /\ pturn[p] \in Nat /\ pshard[p] \in Shards
             /\ StaysHome(p) => pshard[p] = selectShard(p)
             /\ UNCHANGED <<log, committed, taken, pplace, pcount, readStartShard, callVars,
                            received, passedOver>>
  BY <1>2 DEF WriteRefused, Inv, TypeOK, ProducersOK
<1>3. CASE RetryShard(p)
  BY <1>2, <1>3, TryInv DEF RetryShard
<1>4. CASE MoveOn(p)
  <2>1. pturn[p] + 1 \in Nat
    BY <1>2, <1>4 DEF MoveOn
  <2> QED
    BY <1>2, <1>4, <2>1, TryTurnInv DEF MoveOn
<1>5. CASE StartOver(p)
  BY <1>2, <1>5, TryTurnInv DEF StartOver
<1>6. CASE RejectWrite(p)
  <2>1. "idle" \in {"idle", "try"} /\ "idle" # "try"
    OBVIOUS
  <2> QED
    BY <1>2, <1>6, <2>1, ReturnHome, QuietProducerStep DEF RejectWrite
<1> QED
  BY <1>1, <1>3, <1>4, <1>5, <1>6

-------------------------------------------------------------------------------
(* Steps of a producer that move a value *)

LEMMA ClaimPlaceInv ==
  ASSUME Inv, NEW p \in Producers, ClaimPlace(p)
  PROVE  Inv'
<1> DEFINE s == pshard[p]
           n == pcount[p] + 1
           v == <<p, n>>
<1> USE DEF Inv
<1>1. /\ s \in Shards /\ n \in 1 .. MaxWrites[p] /\ v \in AllWrites /\ pcount[p] \in Nat
      /\ v[1] = p /\ v[2] = n
  <2>1. s \in Shards /\ pcount[p] \in Nat /\ MaxWrites[p] \in Nat
    BY RingFacts DEF TypeOK
  <2>2. pcount[p] < MaxWrites[p]
    BY DEF ClaimPlace, ProducersOK
  <2>3. n \in 1 .. MaxWrites[p]
    BY <2>1, <2>2
  <2> QED
    BY <2>1, <2>3, WriteIn
<1>2. /\ log' = [log EXCEPT ![s] = Append(log[s], v)]
      /\ pplace' = [pplace EXCEPT ![p] = Len(log[s]) + 1]
      /\ pcount' = [pcount EXCEPT ![p] = n]
      /\ ppc' = [ppc EXCEPT ![p] = "store"]
      /\ UNCHANGED <<committed, taken, pseen, pshard, pturn, readStartShard, callVars,
                     received, passedOver>>
      /\ Len(log[s]) - taken[s] # ShardSize
  BY DEF ClaimPlace, HasRoom, Full
<1> HIDE DEF s, n, v
<1>3. \A t \in Shards : Len(log[t]) \in Nat /\ log[t] \in Seq(AllWrites)
  BY LogType DEF TypeOK
<1>4. /\ \A t \in Shards : Len(log'[t]) = IF t = s THEN Len(log[s]) + 1 ELSE Len(log[t])
      /\ \A t \in Shards : \A i \in 1 .. Len(log[t]) : log'[t][i] = log[t][i]
      /\ log'[s][Len(log[s]) + 1] = v
      /\ log' \in [Shards -> Seq(AllWrites)]
  <2>1. log'[s] = Append(log[s], v) /\ \A t \in Shards \ {s} : log'[t] = log[t]
    BY <1>1, <1>2 DEF TypeOK
  <2>2. /\ Append(log[s], v) \in Seq(AllWrites)
        /\ Len(Append(log[s], v)) = Len(log[s]) + 1
        /\ \A i \in 1 .. Len(log[s]) : Append(log[s], v)[i] = log[s][i]
        /\ Append(log[s], v)[Len(log[s]) + 1] = v
    BY <1>1, <1>3, AppendParts
  <2>3. log' \in [Shards -> Seq(AllWrites)]
    BY <1>2, <2>2 DEF TypeOK
  <2> QED
    BY <2>1, <2>2, <2>3
<1>5. \A q \in Producers : pcount'[q] = (IF q = p THEN n ELSE pcount[q]) /\ pcount[q] \in Nat
  BY <1>2 DEF TypeOK
<1>6. TypeOK'
  <2>1. Len(log[s]) + 1 \in Nat /\ n \in Nat
    BY <1>1, <1>3
  <2>2. /\ ppc' \in [Producers -> {"idle", "try", "store"}]
        /\ pplace' \in [Producers -> Nat] /\ pcount' \in [Producers -> Nat]
    BY <1>2, <2>1 DEF TypeOK
  <2> QED
    BY <1>2, <1>4, <2>2 DEF TypeOK, callVars
<1>7. ShardsOK'
  <2> SUFFICES ASSUME NEW t \in Shards
               PROVE  /\ 1 .. taken[t] \subseteq committed[t]
                      /\ committed[t] \subseteq 1 .. Len(log'[t])
                      /\ taken[t] <= Len(log'[t])
                      /\ Len(log'[t]) <= taken[t] + ShardSize
    BY <1>2 DEF ShardsOK
  <2>1. taken[t] \in Nat /\ ShardSize \in Nat /\ Len(log[t]) \in Nat
    BY <1>3, RingFacts DEF TypeOK
  <2>2. /\ 1 .. taken[t] \subseteq committed[t] /\ committed[t] \subseteq 1 .. Len(log[t])
        /\ taken[t] <= Len(log[t]) /\ Len(log[t]) <= taken[t] + ShardSize
    BY DEF ShardsOK
  <2>3. Len(log'[t]) = IF t = s THEN Len(log[t]) + 1 ELSE Len(log[t])
    BY <1>4
  <2>4. Len(log[s]) - taken[s] # ShardSize
    BY <1>2
  <2>5. t = s => Len(log[t]) < taken[t] + ShardSize
    BY <2>1, <2>2, <2>4
  <2> QED
    BY <2>1, <2>2, <2>3, <2>5
\* Where an entry of the new logs comes from.
<1>8. ASSUME NEW t \in Shards, NEW i \in 1 .. Len(log'[t])
      PROVE  \/ i \in 1 .. Len(log[t]) /\ log'[t][i] = log[t][i] /\ log[t][i] \in AllWrites
                /\ log[t][i][1] \in Producers /\ log[t][i][2] <= pcount[log[t][i][1]]
                /\ log[t][i][2] \in Nat /\ log[t][i] # v
             \/ t = s /\ i = Len(log[s]) + 1 /\ log'[t][i] = v
  <2>1. CASE i \in 1 .. Len(log[t])
    <3>1. log[t][i] \in AllWrites
      BY <2>1, LogType
    <3>2. log[t][i][1] \in Producers /\ log[t][i][2] \in Nat
          /\ log[t][i][2] <= pcount[log[t][i][1]]
      BY <2>1, <3>1, WriteParts DEF WritesOK
    <3>3. log[t][i] # v
      BY <3>2, <1>1 DEF n
    <3> QED
      BY <1>4, <2>1, <3>1, <3>2, <3>3
  <2>2. CASE i \notin 1 .. Len(log[t])
    BY <1>3, <1>4, <2>2
  <2> QED
    BY <2>1, <2>2
<1>9. WritesOK'
  <2>1. \A t \in Shards : \A i \in 1 .. Len(log'[t]) :
            log'[t][i][2] <= pcount'[log'[t][i][1]]
    <3> SUFFICES ASSUME NEW t \in Shards, NEW i \in 1 .. Len(log'[t])
                 PROVE  log'[t][i][2] <= pcount'[log'[t][i][1]]
      OBVIOUS
    <3>1. CASE log'[t][i] = v
      BY <3>1, <1>1, <1>5
    <3>2. CASE log'[t][i] # v
      <4>1. /\ log'[t][i] = log[t][i] /\ log[t][i][1] \in Producers
            /\ log[t][i][2] <= pcount[log[t][i][1]] /\ log[t][i][2] \in Nat
        BY <3>2, <1>8
      <4>2. pcount[log[t][i][1]] <= pcount'[log[t][i][1]]
        BY <4>1, <1>1, <1>5 DEF n
      <4>3. pcount[log[t][i][1]] \in Nat /\ pcount'[log[t][i][1]] \in Nat
        BY <4>1, <1>1, <1>5
      <4> QED
        BY <4>1, <4>2, <4>3
    <3> QED
      BY <3>1, <3>2
  <2>2. \A q \in Producers : \A m \in 1 .. pcount'[q] : Placed(<<q, m>>)'
    <3> SUFFICES ASSUME NEW q \in Producers, NEW m \in 1 .. pcount'[q]
                 PROVE  \E t \in Shards : \E i \in 1 .. Len(log'[t]) : log'[t][i] = <<q, m>>
      BY DEF Placed
    <3>1. CASE m \in 1 .. pcount[q]
      <4>0. PICK t \in Shards : \E i \in 1 .. Len(log[t]) : log[t][i] = <<q, m>>
        BY <3>1 DEF WritesOK, Placed
      <4>1. PICK i \in 1 .. Len(log[t]) : log[t][i] = <<q, m>>
        BY <4>0
      <4>2. i \in 1 .. Len(log'[t])
        BY <1>3, <1>4
      <4> QED
        BY <1>4, <4>1, <4>2
    <3>2. CASE m \notin 1 .. pcount[q]
      <4>1. q = p /\ m = n
        BY <1>1, <1>5, <3>2 DEF n
      <4>2. Len(log[s]) + 1 \in 1 .. Len(log'[s])
        BY <1>1, <1>3, <1>4
      <4> QED
        BY <1>1, <1>4, <4>1, <4>2 DEF v
    <3> QED
      BY <3>1, <3>2
  <2>3. \A t, u \in Shards : \A i \in 1 .. Len(log'[t]), j \in 1 .. Len(log'[u]) :
            log'[t][i] = log'[u][j] => t = u /\ i = j
    <3> SUFFICES ASSUME NEW t \in Shards, NEW u \in Shards, NEW i \in 1 .. Len(log'[t]),
                        NEW j \in 1 .. Len(log'[u]), log'[t][i] = log'[u][j]
                 PROVE  t = u /\ i = j
      OBVIOUS
    <3>1. CASE i \in 1 .. Len(log[t]) /\ log'[t][i] = log[t][i] /\ log[t][i] # v
      <4>1. j \in 1 .. Len(log[u]) /\ log'[u][j] = log[u][j]
        BY <3>1, <1>8
      <4>2. log[t][i] = log[u][j]
        BY <3>1, <4>1
      <4>3. \A x \in 1 .. Len(log[t]), y \in 1 .. Len(log[u]) :
                log[t][x] = log[u][y] => t = u /\ x = y
        BY DEF WritesOK
      <4> QED
        BY <3>1, <4>1, <4>2, <4>3
    <3>2. CASE t = s /\ i = Len(log[s]) + 1 /\ log'[t][i] = v
      <4>1. log'[u][j] = v
        BY <3>2
      <4>2. ~(log'[u][j] = log[u][j] /\ log[u][j] # v)
        BY <4>1
      <4>3. u = s /\ j = Len(log[s]) + 1
        BY <1>8, <4>2
      <4> QED
        BY <3>2, <4>3
    <3> QED
      BY <1>8, <3>1, <3>2
  <2>4. \A t \in Shards : \A i, j \in 1 .. Len(log'[t]) :
            i < j /\ log'[t][i][1] = log'[t][j][1] => log'[t][i][2] < log'[t][j][2]
    <3> SUFFICES ASSUME NEW t \in Shards, NEW i \in 1 .. Len(log'[t]),
                        NEW j \in 1 .. Len(log'[t]), i < j, log'[t][i][1] = log'[t][j][1]
                 PROVE  log'[t][i][2] < log'[t][j][2]
      OBVIOUS
    <3>1. CASE j \in 1 .. Len(log[t])
      <4>1. i \in 1 .. Len(log[t])
        BY <3>1, <1>3
      <4>2. log'[t][i] = log[t][i] /\ log'[t][j] = log[t][j]
        BY <3>1, <4>1, <1>4
      <4>3. \A x, y \in 1 .. Len(log[t]) :
                x < y /\ log[t][x][1] = log[t][y][1] => log[t][x][2] < log[t][y][2]
        BY DEF WritesOK
      <4> QED
        BY <3>1, <4>1, <4>2, <4>3
    <3>2. CASE j \notin 1 .. Len(log[t])
      <4>1. t = s /\ j = Len(log[s]) + 1 /\ log'[t][j] = v
        BY <3>2, <1>8
      <4>2. i \in 1 .. Len(log[t]) /\ log'[t][i] = log[t][i]
            /\ log[t][i][2] <= pcount[log[t][i][1]] /\ log[t][i][2] \in Nat
        BY <4>1, <1>3, <1>8
      <4>3. log[t][i][1] = p
        BY <4>1, <4>2, <1>1
      <4>4. log[t][i][2] < n
        BY <4>2, <4>3, <1>1 DEF n
      <4> QED
        BY <4>1, <4>2, <4>4, <1>1
    <3> QED
      BY <3>1, <3>2
  <2>5. \A t \in Shards : \A i \in 1 .. Len(log'[t]) :
            StaysHome(log'[t][i][1]) => t = selectShard(log'[t][i][1])
    <3> SUFFICES ASSUME NEW t \in Shards, NEW i \in 1 .. Len(log'[t]),
                        StaysHome(log'[t][i][1])
                 PROVE  t = selectShard(log'[t][i][1])
      OBVIOUS
    <3>1. CASE i \in 1 .. Len(log[t]) /\ log'[t][i] = log[t][i]
      BY <3>1 DEF WritesOK
    <3>2. CASE t = s /\ log'[t][i] = v
      BY <3>2, <1>1 DEF ProducersOK, s
    <3> QED
      BY <3>1, <3>2, <1>8
  <2> QED
    BY <2>1, <2>2, <2>3, <2>4, <2>5 DEF WritesOK
<1>10. ProducersOK'
  <2> SUFFICES ASSUME NEW y \in Producers
               PROVE  /\ StaysHome(y) => pshard[y] = selectShard(y)
                      /\ ppc'[y] = "try" => pcount'[y] < MaxWrites[y]
                      /\ ppc'[y] = "store" =>
                            /\ pplace'[y] \in 1 .. Len(log'[pshard[y]])
                            /\ pplace'[y] \notin committed[pshard[y]]
                            /\ log'[pshard[y]][pplace'[y]][1] = y
    BY <1>2 DEF ProducersOK
  <2>1. pshard[y] \in Shards
    BY DEF TypeOK
  <2>2. CASE y = p
    <3>1. /\ pshard[y] = s /\ pplace'[y] = Len(log[s]) + 1 /\ ppc'[y] = "store"
      BY <1>2, <2>2 DEF TypeOK, s
    <3>2. committed[s] \subseteq 1 .. Len(log[s])
      BY <1>1 DEF ShardsOK
    <3> QED
      BY <2>2, <3>1, <3>2, <1>1, <1>3, <1>4 DEF ProducersOK
  <2>3. CASE y # p
    <3>1. ppc'[y] = ppc[y] /\ pplace'[y] = pplace[y] /\ pcount'[y] = pcount[y]
      BY <1>2, <2>3 DEF TypeOK
    <3> QED
      BY <2>1, <3>1, <1>3, <1>4 DEF ProducersOK
  <2> QED
    BY <2>2, <2>3
<1>11. Got' = Got
  BY <1>2, SameGot
<1>12. \A t \in Shards : \A k \in 1 .. taken[t] : k \in 1 .. Len(log[t]) /\ log'[t][k] = log[t][k]
  BY <1>3, <1>4 DEF ShardsOK, TypeOK
<1>13. DeliveryOK'
  BY <1>2, <1>11, <1>12 DEF DeliveryOK
<1>14. OvertakenFits' /\ ScanOK'
  BY <1>2, <1>11, SameOvertaken, SameScan
<1>15. RotationOK'
  BY <1>2, SameRotation DEF callVars
<1> QED
  BY <1>6, <1>7, <1>9, <1>10, <1>13, <1>14, <1>15

LEMMA CommitPlaceInv ==
  ASSUME Inv, NEW p \in Producers, CommitPlace(p)
  PROVE  Inv'
<1> DEFINE s == pshard[p]
<1> USE DEF Inv
<1>1. /\ s \in Shards /\ ppc[p] = "store"
      /\ committed' = [committed EXCEPT ![s] = committed[s] \cup {pplace[p]}]
      /\ pplace' = [pplace EXCEPT ![p] = 0]
      /\ Return(p)
      /\ UNCHANGED <<log, taken, pcount, readStartShard, callVars, received, passedOver>>
  BY DEF CommitPlace, TypeOK
<1>2. /\ ppc' = [ppc EXCEPT ![p] = "idle"]
      /\ pshard' = [pshard EXCEPT ![p] = selectShard(p)]
      /\ pturn' \in [Producers -> Nat] /\ pseen' \in [Producers -> Nat]
      /\ selectShard(p) \in Shards
  BY <1>1, ReturnHome
<1>3. pplace[p] \in 1 .. Len(log[s]) /\ log[s][pplace[p]][1] = p /\ pplace[p] \in Nat
  BY <1>1 DEF ProducersOK, TypeOK
<1> HIDE DEF s
<1>4. \A t \in Shards : committed'[t] = committed[t] \/ (t = s /\ committed'[t] = committed[s] \cup {pplace[p]})
  BY <1>1 DEF TypeOK
<1>5. TypeOK'
  BY <1>1, <1>2, <1>3 DEF TypeOK, callVars
<1>6. ShardsOK'
  BY <1>1, <1>3, <1>4 DEF ShardsOK
<1>7. WritesOK' /\ DeliveryOK' /\ OvertakenFits'
  BY <1>1, SameGot, SameWrites, SameDelivery, SameOvertaken
<1>8. RotationOK'
  BY <1>1, SameRotation DEF callVars
<1>9. ScanOK'
  BY <1>1, <1>4 DEF ScanOK, callVars
<1>10. ProducersOK'
  <2> SUFFICES ASSUME NEW y \in Producers
               PROVE  /\ StaysHome(y) => pshard'[y] = selectShard(y)
                      /\ ppc'[y] = "try" => pcount[y] < MaxWrites[y]
                      /\ ppc'[y] = "store" =>
                            /\ pplace'[y] \in 1 .. Len(log[pshard'[y]])
                            /\ pplace'[y] \notin committed'[pshard'[y]]
                            /\ log[pshard'[y]][pplace'[y]][1] = y
    BY <1>1 DEF ProducersOK
  <2>1. CASE y = p
    BY <1>2, <2>1 DEF TypeOK
  <2>2. CASE y # p
    <3>1. ppc'[y] = ppc[y] /\ pplace'[y] = pplace[y] /\ pshard'[y] = pshard[y] /\ pshard[y] \in Shards
      BY <1>1, <1>2, <2>2 DEF TypeOK
    <3> QED
      BY <2>2, <3>1, <1>3, <1>4 DEF ProducersOK
  <2> QED
    BY <2>1, <2>2
<1> QED
  BY <1>5, <1>6, <1>7, <1>8, <1>9, <1>10

-------------------------------------------------------------------------------
(* A read begins *)

\* The frontier of a shard exists: places without a gap from the taken ones on.
LEMMA FrontierOK ==
  ASSUME TypeOK, ShardsOK, NEW s \in Shards
  PROVE  /\ Frontier(s) \in Nat
         /\ taken[s] <= Frontier(s)
         /\ 1 .. Frontier(s) \subseteq committed[s]
<1> DEFINE T == {n \in Nat : taken[s] <= n /\ n + 1 \notin committed[s]}
           IsFrontier(n) == /\ \A i \in taken[s] + 1 .. n : i \in committed[s]
                            /\ n + 1 \notin committed[s]
<1>1. /\ taken[s] \in Nat /\ Len(log[s]) \in Nat /\ taken[s] <= Len(log[s])
      /\ committed[s] \subseteq 1 .. Len(log[s]) /\ 1 .. taken[s] \subseteq committed[s]
  BY LogType DEF TypeOK, ShardsOK
<1>2. Len(log[s]) \in T
  BY <1>1
<1>3. PICK x \in T : \A y \in T : x <= y
  <2>1. T \in SUBSET Nat /\ T # {}
    BY <1>2
  <2> HIDE DEF T
  <2> QED
    BY <2>1, LeastElement
<1>4. x \in taken[s] .. Len(log[s]) /\ x + 1 \notin committed[s]
  BY <1>1, <1>2, <1>3
<1>5. ASSUME NEW i \in taken[s] + 1 .. x PROVE i \in committed[s]
  <2>1. i - 1 \notin T
    BY <1>1, <1>3, <1>4
  <2>2. i - 1 \in Nat /\ taken[s] <= i - 1 /\ (i - 1) + 1 = i
    BY <1>1, <1>4
  <2> QED
    BY <2>1, <2>2
<1>6. IsFrontier(x)
  BY <1>4, <1>5
<1>7. Frontier(s) = CHOOSE n \in taken[s] .. Len(log[s]) : IsFrontier(n)
  BY DEF Frontier
<1>8. Frontier(s) \in taken[s] .. Len(log[s]) /\ IsFrontier(Frontier(s))
  <2> HIDE DEF IsFrontier
  <2> QED
    BY <1>4, <1>6, <1>7
<1>9. \A i \in 1 .. Frontier(s) : i \in 1 .. taken[s] \/ i \in taken[s] + 1 .. Frontier(s)
  BY <1>1, <1>8
<1> QED
  BY <1>1, <1>8, <1>9

LEMMA BeginReadInv ==
  ASSUME Inv, NEW items \in Nat \ {0}, BeginRead(items)
  PROVE  Inv'
<1> USE DEF Inv
<1>1. /\ cpc = "idle" /\ cpc' = "scan" /\ start' = readStartShard /\ offset' = 0
      /\ limit' = items /\ result' = <<>> /\ taken0' = taken
      /\ readStartShard' = (start' + 1) % StartModulus
      /\ ready0' = [s \in Shards |-> Frontier(s)]
      /\ UNCHANGED <<log, committed, taken, producerVars, received, passedOver>>
  BY DEF BeginRead, NextStart
<1>2. \A s \in Shards : Frontier(s) \in Nat /\ 1 .. Frontier(s) \subseteq committed[s]
  BY FrontierOK
<1>3. TypeOK'
  <2>1. readStartShard' \in 0 .. StartModulus - 1
    <3>1. start' + 1 \in Nat
      BY <1>1 DEF TypeOK
    <3> QED
      BY <1>1, <3>1, DivMod, RingFacts
  <2>2. ready0' \in [Shards -> Nat] /\ taken0' \in [Shards -> Nat] /\ limit' \in Nat
        /\ start' \in 0 .. StartModulus - 1 /\ result' \in Seq(AllWrites)
        /\ offset' \in 0 .. NumShards
    BY <1>1, <1>2, RingFacts DEF TypeOK
  <2> QED
    BY <1>1, <2>1, <2>2 DEF TypeOK, producerVars
<1>4. ShardsOK' /\ WritesOK'
  BY <1>1, SameShards, SameWrites DEF producerVars
<1>5. ProducersOK'
  BY <1>1 DEF ProducersOK, producerVars
<1>6. DeliveryOK' /\ OvertakenFits'
  <2>1. Got' = Got
    BY <1>1 DEF Got, ScanOK
  <2> QED
    BY <1>1, <2>1, SameDelivery, SameOvertaken
<1>7. ScanOK'
  BY <1>1, <1>2 DEF ScanOK, TypeOK
<1>8. RotationOK'
  BY <1>1 DEF RotationOK
<1> QED
  BY <1>3, <1>4, <1>5, <1>6, <1>7, <1>8

-------------------------------------------------------------------------------
(* A read takes a value *)

\* A value that is missing when a later one of its producer is taken is held by
\* another shard.
LEMMA HeldElsewhere ==
  ASSUME Inv, NEW s \in Shards, taken[s] + 1 \in committed[s],
         NEW n \in 1 .. log[s][taken[s] + 1][2] - 1,
         \A j \in 1 .. Len(Got) : Got[j] # <<log[s][taken[s] + 1][1], n>>
  PROVE  \E t \in Shards \ {s} : \E d \in 1 .. ShardSize :
            log[t][taken[t] + d] = <<log[s][taken[s] + 1][1], n>>
<1> DEFINE h == taken[s] + 1
           p == log[s][h][1]
<1> USE DEF Inv
<1>1. h \in 1 .. Len(log[s]) /\ taken[s] \in Nat
  BY DEF ShardsOK, TypeOK
<1>2. p \in Producers /\ log[s][h][2] \in Nat /\ log[s][h][2] <= pcount[p] /\ pcount[p] \in Nat
  <2>1. log[s][h] \in AllWrites
    BY <1>1, LogType
  <2>2. p \in Producers /\ log[s][h][2] \in Nat
    BY <2>1, WriteParts
  <2>3. pcount[p] \in Nat
    BY <2>2 DEF TypeOK
  <2>4. log[s][h][2] <= pcount[p]
    BY <1>1 DEF WritesOK
  <2> QED
    BY <2>2, <2>3, <2>4
<1>3. n \in 1 .. pcount[p]
  BY <1>2
<1>4. PICK t \in Shards : \E i \in 1 .. Len(log[t]) : log[t][i] = <<p, n>>
  <2>1. Placed(<<p, n>>)
    BY <1>2, <1>3 DEF WritesOK
  <2> QED
    BY <2>1 DEF Placed
<1>5. PICK k \in 1 .. Len(log[t]) : log[t][k] = <<p, n>>
  BY <1>4
<1>6. taken[t] \in Nat /\ Len(log[t]) \in Nat /\ Len(log[t]) <= taken[t] + ShardSize
  BY LogType DEF TypeOK, ShardsOK
<1>7. k \notin 1 .. taken[t]
  BY <1>5 DEF DeliveryOK
<1>8. t # s
  <2> SUFFICES ASSUME t = s PROVE FALSE
    OBVIOUS
  <2>1. k >= h
    BY <1>1, <1>5, <1>6, <1>7
  <2>2. k # h
    BY <1>2, <1>5
  <2>3. log[s][h][1] = log[s][k][1] /\ h < k /\ k \in 1 .. Len(log[s])
    BY <1>1, <1>5, <2>1, <2>2
  <2>4. log[s][h][2] < log[s][k][2]
    BY <1>1, <2>3 DEF WritesOK
  <2>5. log[s][k][2] = n
    BY <1>5
  <2> QED
    BY <1>2, <2>4, <2>5
<1>9. k - taken[t] \in 1 .. ShardSize /\ taken[t] + (k - taken[t]) = k
  BY <1>5, <1>6, <1>7, RingFacts
<1> QED
  BY <1>5, <1>8, <1>9

\* The other shards together hold at most (NumShards - 1) * ShardSize values.
LEMMA HeldBound ==
  ASSUME Inv, NEW s \in Shards, taken[s] + 1 \in committed[s],
         NEW O \in SUBSET (1 .. log[s][taken[s] + 1][2] - 1),
         \A n \in O : \A j \in 1 .. Len(Got) : Got[j] # <<log[s][taken[s] + 1][1], n>>
  PROVE  Cardinality(O) <= (NumShards - 1) * ShardSize
<1> DEFINE T == (Shards \ {s}) \X (1 .. ShardSize)
           p == log[s][taken[s] + 1][1]
           Holds(x, n) == log[x[1]][taken[x[1]] + x[2]] = <<p, n>>
           f == [n \in O |-> CHOOSE x \in T : Holds(x, n)]
<1>1. \A n \in O : \E x \in T : Holds(x, n)
  <2> SUFFICES ASSUME NEW n \in O PROVE \E x \in T : Holds(x, n)
    OBVIOUS
  <2>1. PICK t \in Shards \ {s} : \E d \in 1 .. ShardSize : log[t][taken[t] + d] = <<p, n>>
    BY HeldElsewhere
  <2>2. PICK d \in 1 .. ShardSize : log[t][taken[t] + d] = <<p, n>>
    BY <2>1
  <2>3. <<t, d>> \in T /\ Holds(<<t, d>>, n)
    BY <2>2
  <2> QED
    BY <2>3
<1>2. IsFiniteSet(T) /\ Cardinality(T) = (NumShards - 1) * ShardSize
  <2>1. IsFiniteSet(Shards) /\ Cardinality(Shards) = NumShards
    BY FS_Interval, RingFacts DEF Shards
  <2>2. IsFiniteSet(Shards \ {s}) /\ Cardinality(Shards \ {s}) = NumShards - 1
    BY <2>1, FS_RemoveElement
  <2>3. IsFiniteSet(1 .. ShardSize) /\ Cardinality(1 .. ShardSize) = ShardSize
    BY FS_Interval, RingFacts
  <2> HIDE DEF p
  <2>4. /\ IsFiniteSet((Shards \ {s}) \X (1 .. ShardSize))
        /\ Cardinality((Shards \ {s}) \X (1 .. ShardSize))
               = Cardinality(Shards \ {s}) * Cardinality(1 .. ShardSize)
    BY <2>2, <2>3, FS_Product
  <2> QED
    BY <2>2, <2>3, <2>4
<1>3. \A n \in O : f[n] \in T /\ Holds(f[n], n)
  <2> HIDE DEF T, Holds
  <2> QED
    BY <1>1
<1>4. f \in [O -> T]
  <2> HIDE DEF Holds, T
  <2> QED
    BY <1>3
<1>5. ASSUME NEW x \in O, NEW y \in O, f[x] = f[y] PROVE x = y
  <2>1. <<p, x>> = <<p, y>>
    BY <1>3, <1>5
  <2> QED
    BY <2>1
<1> HIDE DEF T, f
<1>6. Cardinality(O) <= Cardinality(T)
  BY <1>2, <1>4, <1>5, InjectionFits
<1> QED
  BY <1>2, <1>6

LEMMA TakeHeadInv ==
  ASSUME Inv, TakeHead
  PROVE  Inv'
<1> DEFINE s == ScanShard
           h == taken[s] + 1
           v == log[s][h]
<1> USE DEF Inv
<1>1. /\ s \in Shards /\ h \in committed[s] /\ h \in 1 .. Len(log[s]) /\ v \in AllWrites
      /\ taken[s] \in Nat
  <2>1. start + offset \in Nat
    BY DEF TypeOK
  <2>2. s \in Shards /\ h \in committed[s]
    BY <2>1, ModShards DEF TakeHead, HeadReady, ScanShard
  <2> QED
    BY <2>2, LogType DEF ShardsOK, TypeOK
<1>2. /\ cpc = "scan" /\ taken' = [taken EXCEPT ![s] = h] /\ result' = Append(result, v)
      /\ offset < NumShards
      /\ UNCHANGED <<log, committed, producerVars, readStartShard, cpc, start,
                     offset, limit, received, ready0, taken0, passedOver>>
  BY DEF TakeHead, Scanning
<1>3. s = (start + offset) % NumShards
  BY DEF ScanShard
<1> HIDE DEF s, v
<1>4. /\ Got' = Append(Got, v) /\ Got \in Seq(AllWrites) /\ Len(Got) \in Nat
      /\ Len(Got') = Len(Got) + 1 /\ Got'[Len(Got) + 1] = v
      /\ \A i \in 1 .. Len(Got) : Got'[i] = Got[i]
  <2>1. received \in Seq(AllWrites) /\ result \in Seq(AllWrites)
    BY DEF TypeOK
  <2>2. Got' = Append(Got, v)
    BY <1>1, <1>2, <2>1, ConcatAppend DEF Got
  <2> QED
    BY <1>1, <2>2, GotType, AppendParts
<1>5. \A t \in Shards : taken'[t] = (IF t = s THEN h ELSE taken[t]) /\ taken[t] \in Nat
  BY <1>1, <1>2 DEF TypeOK
<1>6. TypeOK'
  <2>1. result' \in Seq(AllWrites)
    BY <1>1, <1>2, AppendParts DEF TypeOK
  <2>2. taken' \in [Shards -> Nat]
    BY <1>1, <1>2 DEF TypeOK
  <2> QED
    BY <1>2, <2>1, <2>2 DEF TypeOK, producerVars
<1>7. ShardsOK'
  <2> SUFFICES ASSUME NEW t \in Shards
               PROVE  /\ 1 .. taken'[t] \subseteq committed[t]
                      /\ committed[t] \subseteq 1 .. Len(log[t])
                      /\ taken'[t] <= Len(log[t])
                      /\ Len(log[t]) <= taken'[t] + ShardSize
    BY <1>2 DEF ShardsOK
  <2>1. /\ 1 .. taken[t] \subseteq committed[t] /\ committed[t] \subseteq 1 .. Len(log[t])
        /\ taken[t] <= Len(log[t]) /\ Len(log[t]) <= taken[t] + ShardSize
        /\ Len(log[t]) \in Nat /\ ShardSize \in Nat /\ taken[t] \in Nat
    BY <1>5, LogType, RingFacts DEF ShardsOK
  <2>2. CASE t = s
    BY <2>1, <2>2, <1>1, <1>5
  <2>3. CASE t # s
    BY <2>1, <2>3, <1>5
  <2> QED
    BY <2>2, <2>3
<1>8. WritesOK'
  BY <1>2, SameWrites DEF producerVars
<1>9. ProducersOK'
  BY <1>2 DEF ProducersOK, producerVars
\* The new value has not been delivered: its place is not among the taken ones.
<1>10. \A i \in 1 .. Len(Got) : Got[i] # v
  <2> SUFFICES ASSUME NEW i \in 1 .. Len(Got), Got[i] = v PROVE FALSE
    OBVIOUS
  <2>1. PICK t \in Shards : \E k \in 1 .. taken[t] : Got[i] = log[t][k]
    BY DEF DeliveryOK
  <2>2. PICK k \in 1 .. taken[t] : Got[i] = log[t][k]
    BY <2>1
  <2>3. k \in 1 .. Len(log[t]) /\ taken[t] \in Nat
    BY <1>5, LogType DEF ShardsOK
  <2>4. log[t][k] = log[s][h]
    BY <2>2 DEF v
  <2>5. t = s /\ k = h
    BY <1>1, <2>3, <2>4 DEF WritesOK
  <2> QED
    BY <1>1, <2>5
\* What is taken of a shard now was taken before, or is the new value.
<1>11. ASSUME NEW t \in Shards, NEW k \in 1 .. taken'[t]
       PROVE  \/ k \in 1 .. taken[t]
              \/ t = s /\ k = h /\ log[t][k] = v
  BY <1>1, <1>5 DEF v
<1>13. DeliveryOK'
  <2>1. \A i \in 1 .. Len(Got') : \E t \in Shards : \E k \in 1 .. taken'[t] : Got'[i] = log'[t][k]
    <3> SUFFICES ASSUME NEW i \in 1 .. Len(Got')
                 PROVE  \E t \in Shards : \E k \in 1 .. taken'[t] : Got'[i] = log[t][k]
      BY <1>2
    <3>1. CASE i \in 1 .. Len(Got)
      <4>1. PICK t \in Shards : \E k \in 1 .. taken[t] : Got[i] = log[t][k]
        BY <3>1 DEF DeliveryOK
      <4>2. PICK k \in 1 .. taken[t] : Got[i] = log[t][k]
        BY <4>1
      <4>3. k \in 1 .. taken'[t]
        BY <1>1, <1>5
      <4> QED
        BY <1>4, <3>1, <4>2, <4>3
    <3>2. CASE i = Len(Got) + 1
      <4>1. h \in 1 .. taken'[s] /\ log[s][h] = v
        BY <1>1, <1>5 DEF v
      <4> QED
        BY <1>1, <1>4, <3>2, <4>1
    <3> QED
      BY <1>4, <3>1, <3>2
  <2>2. \A t \in Shards : \A k \in 1 .. taken'[t] : \E i \in 1 .. Len(Got') : Got'[i] = log'[t][k]
    <3> SUFFICES ASSUME NEW t \in Shards, NEW k \in 1 .. taken'[t]
                 PROVE  \E i \in 1 .. Len(Got') : Got'[i] = log[t][k]
      BY <1>2
    <3>1. CASE k \in 1 .. taken[t]
      <4>1. PICK i \in 1 .. Len(Got) : Got[i] = log[t][k]
        BY <3>1 DEF DeliveryOK
      <4>2. i \in 1 .. Len(Got') /\ Got'[i] = Got[i]
        BY <1>4
      <4> QED
        BY <4>1, <4>2
    <3>2. CASE log[t][k] = v
      <4>1. Len(Got) + 1 \in 1 .. Len(Got')
        BY <1>4
      <4> QED
        BY <1>4, <3>2, <4>1
    <3> QED
      BY <1>11, <3>1, <3>2
  <2>3. \A i, j \in 1 .. Len(Got') : Got'[i] = Got'[j] => i = j
    <3> SUFFICES ASSUME NEW i \in 1 .. Len(Got'), NEW j \in 1 .. Len(Got'), Got'[i] = Got'[j]
                 PROVE  i = j
      OBVIOUS
    <3>1. CASE i \in 1 .. Len(Got) /\ j \in 1 .. Len(Got)
      BY <1>4, <3>1 DEF DeliveryOK
    <3>2. CASE i = Len(Got) + 1 /\ j \in 1 .. Len(Got)
      BY <1>4, <1>10, <3>2
    <3>3. CASE j = Len(Got) + 1 /\ i \in 1 .. Len(Got)
      BY <1>4, <1>10, <3>3
    <3> QED
      BY <1>4, <3>1, <3>2, <3>3
  <2>4. \A t \in Shards : \A k, l \in 1 .. taken'[t] : \A i, j \in 1 .. Len(Got') :
            k < l /\ Got'[i] = log'[t][k] /\ Got'[j] = log'[t][l] => i < j
    <3> SUFFICES ASSUME NEW t \in Shards, NEW k \in 1 .. taken'[t], NEW l \in 1 .. taken'[t],
                        NEW i \in 1 .. Len(Got'), NEW j \in 1 .. Len(Got'),
                        k < l, Got'[i] = log[t][k], Got'[j] = log[t][l]
                 PROVE  i < j
      BY <1>2
    <3>1. k \in 1 .. taken[t]
      BY <1>1, <1>5
    <3>2. Got'[i] # v
      <4>1. PICK x \in 1 .. Len(Got) : Got[x] = log[t][k]
        BY <3>1 DEF DeliveryOK
      <4> QED
        BY <1>10, <4>1
    <3>3. i \in 1 .. Len(Got) /\ Got[i] = log[t][k]
      BY <1>4, <3>2
    <3>4. CASE j \in 1 .. Len(Got)
      <4>1. Got[j] = log[t][l]
        BY <1>4, <3>4
      <4>2. l \in 1 .. taken[t]
        BY <1>10, <1>11, <3>4, <4>1
      <4> QED
        BY <3>1, <3>3, <3>4, <4>1, <4>2 DEF DeliveryOK
    <3>5. CASE j = Len(Got) + 1
      BY <1>4, <3>3, <3>5
    <3> QED
      BY <1>4, <3>4, <3>5
  <2> QED
    BY <2>1, <2>2, <2>3, <2>4 DEF DeliveryOK
<1>14. OvertakenFits'
  <2> SUFFICES ASSUME NEW i \in 1 .. Len(Got')
               PROVE  Cardinality(Overtaken(i)') <= (NumShards - 1) * ShardSize
    BY DEF OvertakenFits
  <2>1. Overtaken(i)' = {n \in 1 .. Got'[i][2] - 1 :
                           \A j \in 1 .. i - 1 : Got'[j] # <<Got'[i][1], n>>}
    BY DEF Overtaken
  <2>2. CASE i \in 1 .. Len(Got)
    <3>1. Got'[i] = Got[i] /\ \A j \in 1 .. i - 1 : Got'[j] = Got[j]
      BY <1>4, <2>2
    <3>2. Overtaken(i)' = Overtaken(i)
      BY <2>1, <3>1 DEF Overtaken
    <3> QED
      BY <2>2, <3>2 DEF OvertakenFits
  <2>3. CASE i = Len(Got) + 1
    <3> DEFINE O == Overtaken(i)'
    <3>1. O \in SUBSET (1 .. log[s][taken[s] + 1][2] - 1)
      BY <1>4, <2>1, <2>3 DEF v
    <3>2. \A n \in O : \A j \in 1 .. Len(Got) : Got[j] # <<log[s][taken[s] + 1][1], n>>
      BY <1>4, <2>1, <2>3 DEF v
    <3>3. taken[s] + 1 \in committed[s]
      BY <1>1
    <3> HIDE DEF O
    <3>4. Cardinality(O) <= (NumShards - 1) * ShardSize
      BY <1>1, <3>1, <3>2, <3>3, HeldBound
    <3> QED
      BY <3>4 DEF O
  <2> QED
    BY <1>4, <2>2, <2>3
<1>15. ScanOK'
  <2>1. \A t \in Shards : taken[t] <= taken'[t] /\ taken'[t] \in Nat
    BY <1>1, <1>5
  <2>2. \A t \in Shards : taken0[t] <= taken'[t] /\ 1 .. ready0[t] \subseteq committed[t]
    BY <1>2, <1>5, <2>1 DEF ScanOK, TypeOK
  <2>3. \A d \in 0 .. offset - 1 :
            ready0[(start + d) % NumShards] <= taken'[(start + d) % NumShards]
    <3> SUFFICES ASSUME NEW d \in 0 .. offset - 1
                 PROVE  ready0[(start + d) % NumShards] <= taken'[(start + d) % NumShards]
      OBVIOUS
    <3>1. start + d \in Nat
      BY DEF TypeOK
    <3>2. (start + d) % NumShards \in Shards
      BY <3>1, ModShards
    <3>3. ready0[(start + d) % NumShards] <= taken[(start + d) % NumShards]
      BY <1>2 DEF ScanOK
    <3> QED
      BY <1>5, <2>1, <3>2, <3>3 DEF TypeOK
  <2>4. offset = 0 => taken0[start % NumShards] < taken'[start % NumShards]
    <3> SUFFICES ASSUME offset = 0 PROVE taken0[start % NumShards] < taken'[start % NumShards]
      OBVIOUS
    <3>1. start % NumShards = s
      BY <1>3 DEF TypeOK
    <3>2. taken0[s] <= taken[s] /\ taken0[s] \in Nat
      BY <1>1, <1>2 DEF ScanOK, TypeOK
    <3> QED
      BY <1>1, <1>5, <3>1, <3>2
  <2>5. cpc' = "scan"
    BY <1>2
  <2> QED
    BY <1>2, <2>2, <2>3, <2>4, <2>5 DEF ScanOK
<1>16. RotationOK'
  BY <1>2, SameRotation
<1> QED
  BY <1>6, <1>7, <1>8, <1>9, <1>13, <1>14, <1>15, <1>16

-------------------------------------------------------------------------------
(* A read goes on and returns *)

LEMMA SkipShardInv ==
  ASSUME Inv, SkipShard
  PROVE  Inv'
<1> DEFINE s == ScanShard
<1> USE DEF Inv
<1>1. /\ s \in Shards /\ taken[s] + 1 \notin committed[s] /\ taken[s] \in Nat /\ ready0[s] \in Nat
      /\ start + offset \in Nat
  <2>1. start + offset \in Nat
    BY DEF TypeOK
  <2> QED
    BY <2>1, ModShards DEF SkipShard, HeadReady, ScanShard, TypeOK
<1>2. /\ cpc = "scan" /\ offset' = offset + 1 /\ offset < NumShards
      /\ UNCHANGED <<log, committed, taken, producerVars, readStartShard, cpc, start,
                     limit, result, received, ready0, taken0, passedOver>>
  BY DEF SkipShard, Scanning
<1>3. s = (start + offset) % NumShards
  BY DEF ScanShard
<1> HIDE DEF s
<1>4. TypeOK'
  <2>1. offset' \in 0 .. NumShards
    BY <1>2, RingFacts DEF TypeOK
  <2> QED
    BY <1>2, <2>1 DEF TypeOK, producerVars
<1>5. ShardsOK' /\ WritesOK' /\ RotationOK'
  BY <1>2, SameShards, SameWrites, SameRotation DEF producerVars
<1>6. ProducersOK'
  BY <1>2 DEF ProducersOK, producerVars
<1>7. DeliveryOK' /\ OvertakenFits'
  <2>1. Got' = Got
    BY <1>2 DEF Got
  <2> QED
    BY <1>2, <2>1, SameDelivery, SameOvertaken
<1>8. ready0[s] <= taken[s]
  <2>1. 1 .. ready0[s] \subseteq committed[s]
    BY <1>1, <1>2 DEF ScanOK
  <2> QED
    BY <1>1, <2>1
<1>9. ScanOK'
  <2>1. \A d \in 0 .. offset' - 1 :
            ready0[(start + d) % NumShards] <= taken[(start + d) % NumShards]
    <3> SUFFICES ASSUME NEW d \in 0 .. offset' - 1
                 PROVE  ready0[(start + d) % NumShards] <= taken[(start + d) % NumShards]
      OBVIOUS
    <3>1. CASE d = offset
      BY <1>3, <1>8, <3>1
    <3>2. CASE d \in 0 .. offset - 1
      BY <1>2, <3>2 DEF ScanOK
    <3> QED
      BY <1>2, <3>1, <3>2 DEF TypeOK
  <2>2. offset' # 0
    BY <1>2 DEF TypeOK
  <2> QED
    BY <1>2, <2>1, <2>2 DEF ScanOK
<1> QED
  BY <1>4, <1>5, <1>6, <1>7, <1>9

\* A read that ends has emptied, up to what was ready, every shard it has passed;
\* if it has passed them all, these are all shards.
LEMMA AllPassed ==
  ASSUME Inv, cpc = "scan", offset = NumShards, NEW s \in Shards
  PROVE  ready0[s] <= taken[s]
<1>1. start \in Nat /\ s \in Nat
  BY DEF Inv, TypeOK, Shards
<1>2. PICK q \in start .. start + NumShards - 1 : q % NumShards = s % NumShards
  BY <1>1, ModWindow, RingFacts
<1>3. s % NumShards = s
  BY ModSmall, RingFacts DEF Shards
<1>4. q - start \in 0 .. offset - 1 /\ start + (q - start) = q
  BY <1>1, <1>2, RingFacts
<1>5. ready0[(start + (q - start)) % NumShards] <= taken[(start + (q - start)) % NumShards]
  BY <1>4 DEF Inv, ScanOK
<1> QED
  BY <1>2, <1>3, <1>4, <1>5

\* The first shard of a read is not passed over.
LEMMA FirstServed ==
  ASSUME Inv, cpc = "scan", ~Scanning, NEW s \in Shards, start % NumShards = s,
         ready0[s] > taken0[s]
  PROVE  taken[s] # taken0[s]
<1> USE DEF Inv
<1>1. /\ taken[s] \in Nat /\ taken0[s] \in Nat /\ ready0[s] \in Nat /\ start \in Nat
      /\ offset \in 0 .. NumShards /\ limit > 0 /\ limit \in Nat
  BY DEF TypeOK, ScanOK
<1>2. CASE offset > 0
  <2>1. 0 \in 0 .. offset - 1 /\ start + 0 = start
    BY <1>1, <1>2
  <2>2. ready0[(start + 0) % NumShards] <= taken[(start + 0) % NumShards]
    BY <2>1 DEF ScanOK
  <2> QED
    BY <1>1, <2>1, <2>2
<1>3. CASE offset = 0
  <2>1. result # <<>>
    BY <1>1, <1>3, RingFacts DEF Scanning
  <2> QED
    BY <1>1, <1>3, <2>1 DEF ScanOK
<1> QED
  BY <1>1, <1>2, <1>3

\* With the next read the shards' turns come one nearer.
LEMMA NextTurn ==
  ASSUME NEW r \in Nat, NEW s \in Shards
  PROVE  LET x == (r + (NumShards - 1 - s)) % NumShards
             y == (((r + 1) % StartModulus) + (NumShards - 1 - s)) % NumShards
         IN  /\ r % NumShards # s => y = x + 1
             /\ x \in Nat /\ y \in Nat /\ y < NumShards
<1> DEFINE c == NumShards - 1 - s
           m == NumShards
<1>1. m \in Nat \ {0} /\ c \in 0 .. m - 1 /\ s \in 0 .. m - 1 /\ c + s = m - 1
  BY RingFacts DEF Shards
<1> HIDE DEF c
\* The wrap of the counter does not change the turn.
<1>2. (((r + 1) % StartModulus) + c) % m = (r + 1 + c) % m
  <2> DEFINE w == (r + 1) \div StartModulus
             u == (r + 1) % StartModulus
             k == StartModulus \div m
  <2>1. r + 1 \in Nat /\ StartModulus \in Nat \ {0}
    BY RingFacts
  <2>2. w \in Nat /\ u \in Nat /\ r + 1 = StartModulus * w + u
    BY <2>1, DivMod
  <2>3. k \in Nat /\ StartModulus = m * k
    <3>1. StartModulus % m = 0 /\ StartModulus \in Nat
      BY RingAssumption
    <3>2. k \in Nat /\ StartModulus = m * k + (StartModulus % m)
      BY <1>1, <3>1, DivMod
    <3>3. m * k \in Int
      BY <1>1, <3>2
    <3> QED
      BY <3>1, <3>2, <3>3
  <2> HIDE DEF w, u, k
  <2>4. k * w \in Nat /\ u + c \in Nat /\ StartModulus * w = m * (k * w)
    <3>1. (m * k) * w = m * (k * w)
      BY <1>1, <2>2, <2>3, SMTT(20)
    <3>2. k * w \in Nat /\ u + c \in Nat
      BY <1>1, <2>2, <2>3
    <3> QED
      BY <2>3, <3>1, <3>2
  <2>5. (u + c + m * (k * w)) % m = (u + c) % m
    BY <1>1, <2>4, ModShift
  <2>6. r + 1 + c = u + c + m * (k * w)
    <3>1. m * (k * w) \in Int /\ r + 1 = m * (k * w) + u
      BY <1>1, <2>2, <2>4
    <3> QED
      BY <1>1, <2>2, <3>1
  <2> QED
    BY <2>5, <2>6 DEF u
<1>3. (r + c) \in Nat /\ (r + c) + 1 = r + 1 + c
  BY <1>1
<1>4. (r + 1 + c) % m = IF (r + c) % m = m - 1 THEN 0 ELSE ((r + c) % m) + 1
  BY <1>1, <1>3, ModNext
<1>5. (r + c) % m = m - 1 => r % m = s
  <2> SUFFICES ASSUME (r + c) % m = m - 1 PROVE r % m = s
    OBVIOUS
  <2> DEFINE a == (r + c) \div m
             b == r \div m
             z == r % m
  <2>1. a \in Nat /\ r + c = m * a + (m - 1)
    BY <1>1, <1>3, DivMod
  <2>2. b \in Nat /\ z \in 0 .. m - 1 /\ r = m * b + z
    BY <1>1, DivMod
  <2> HIDE DEF a, b, z
  <2>3. m * a \in Int /\ m * b \in Int
    BY <1>1, <2>1, <2>2
  <2>4. a \in Int /\ b \in Int /\ m * a + s = m * b + z
    BY <1>1, <2>1, <2>2, <2>3
  <2> HIDE DEF m
  <2>5. a = b /\ s = z
    BY <1>1, <2>2, <2>4, DivModUnique
  <2> QED
    BY <2>5 DEF z, m
<1>6. (r + c) % m \in 0 .. m - 1
  BY <1>1, <1>3, DivMod
<1> QED
  BY <1>1, <1>2, <1>4, <1>5, <1>6 DEF c

LEMMA ReturnReadInv ==
  ASSUME Inv, ReturnRead
  PROVE  Inv'
<1> USE DEF Inv
<1>1. /\ cpc = "scan" /\ ~Scanning /\ cpc' = "idle" /\ received' = received \o result
      /\ start' = 0 /\ offset' = 0 /\ limit' = 0 /\ result' = <<>>
      /\ ready0' = [s \in Shards |-> 0] /\ taken0' = [s \in Shards |-> 0]
      /\ passedOver' = [s \in Shards |->
                           IF ready0[s] > taken0[s] /\ taken[s] = taken0[s]
                           THEN Min({passedOver[s] + 1, NumShards}) ELSE 0]
      /\ UNCHANGED <<log, committed, taken, producerVars, readStartShard>>
  BY DEF ReturnRead
<1>2. \A s \in Shards :
          /\ passedOver[s] \in Nat
          /\ passedOver'[s] = IF ready0[s] > taken0[s] /\ taken[s] = taken0[s]
                              THEN IF passedOver[s] + 1 <= NumShards THEN passedOver[s] + 1
                                                                     ELSE NumShards
                              ELSE 0
  <2> SUFFICES ASSUME NEW s \in Shards
               PROVE  /\ passedOver[s] \in Nat
                      /\ passedOver'[s] =
                            IF ready0[s] > taken0[s] /\ taken[s] = taken0[s]
                            THEN IF passedOver[s] + 1 <= NumShards THEN passedOver[s] + 1
                                                                   ELSE NumShards
                            ELSE 0
    OBVIOUS
  <2>1. passedOver[s] \in Nat /\ passedOver[s] + 1 \in Int /\ NumShards \in Int
    BY RingFacts DEF TypeOK
  <2>2. Min({passedOver[s] + 1, NumShards}) =
            IF passedOver[s] + 1 <= NumShards THEN passedOver[s] + 1 ELSE NumShards
    BY <2>1, MinPair
  <2> QED
    BY <1>1, <2>1, <2>2
<1>3. Got' = Got
  <2>1. received \o result \in Seq(AllWrites)
    BY GotType DEF Got
  <2> QED
    BY <1>1, <2>1, ConcatEmpty DEF Got
<1>4. TypeOK'
  <2>1. received' \in Seq(AllWrites) /\ result' \in Seq(AllWrites)
    BY <1>1, GotType DEF Got
  <2>2. passedOver' \in [Shards -> Nat]
    <3>1. \A s \in Shards : passedOver'[s] \in Nat
      BY <1>2, RingFacts
    <3>2. passedOver' = [s \in Shards |-> passedOver'[s]]
      BY <1>1
    <3> QED
      BY <3>1, <3>2
  <2>3. /\ start' \in 0 .. StartModulus - 1 /\ offset' \in 0 .. NumShards /\ limit' \in Nat
        /\ ready0' \in [Shards -> Nat] /\ taken0' \in [Shards -> Nat]
    BY <1>1, RingFacts
  <2> QED
    BY <1>1, <2>1, <2>2, <2>3 DEF TypeOK, producerVars
<1>5. ShardsOK' /\ WritesOK'
  BY <1>1, SameShards, SameWrites DEF producerVars
<1>6. ProducersOK'
  BY <1>1 DEF ProducersOK, producerVars
<1>7. DeliveryOK' /\ OvertakenFits'
  BY <1>1, <1>3, SameDelivery, SameOvertaken
<1>8. ScanOK'
  BY <1>1 DEF ScanOK
<1>9. RotationOK'
  <2> SUFFICES ASSUME NEW s \in Shards
               PROVE  passedOver'[s] <= (readStartShard + (NumShards - 1 - s)) % NumShards
    BY <1>1 DEF RotationOK
  <2> DEFINE x == (start + (NumShards - 1 - s)) % NumShards
             y == (readStartShard + (NumShards - 1 - s)) % NumShards
  <2>1. /\ start % NumShards # s => y = x + 1
        /\ x \in Nat /\ y \in Nat /\ y < NumShards
    <3>1. start \in Nat
      BY DEF TypeOK
    <3>2. readStartShard = (start + 1) % StartModulus
      BY <1>1 DEF ScanOK
    <3> QED
      BY <3>1, <3>2, NextTurn
  <2>2. passedOver[s] <= x
    BY <1>1 DEF RotationOK
  <2> HIDE DEF x, y
  <2>3. CASE start % NumShards = s
    <3>1. passedOver'[s] = 0
      BY <1>1, <1>2, <2>3, FirstServed
    <3> QED
      BY <2>1, <3>1 DEF y
  <2>4. CASE start % NumShards # s
    <3>1. passedOver'[s] <= y
      BY <1>2, <2>1, <2>2, <2>4, RingFacts
    <3> QED
      BY <3>1 DEF y
  <2> QED
    BY <2>3, <2>4
<1> QED
  BY <1>4, <1>5, <1>6, <1>7, <1>8, <1>9

-------------------------------------------------------------------------------
(* The invariant *)

LEMMA InitInv == Init => Inv
<1> SUFFICES ASSUME Init PROVE Inv
  OBVIOUS
<1> USE DEF Init
<1>1. TypeOK
  <2>1. \A p \in Producers : p % NumShards \in Shards
    BY ModShards, RingFacts
  <2>2. 0 \in 0 .. StartModulus - 1 /\ 0 \in 0 .. NumShards
    BY RingFacts
  <2> QED
    BY <2>1, <2>2 DEF TypeOK
<1>2. \A s \in Shards : log[s] = <<>> /\ Len(log[s]) = 0 /\ taken[s] = 0 /\ committed[s] = {}
  OBVIOUS
<1>3. ShardsOK
  BY <1>2, RingFacts DEF ShardsOK
<1>4. WritesOK
  BY <1>2 DEF WritesOK
<1>5. ProducersOK
  BY DEF ProducersOK, selectShard
<1>6. Got = <<>> /\ Len(Got) = 0
  BY DEF Got
<1>7. DeliveryOK /\ OvertakenFits
  BY <1>2, <1>6 DEF DeliveryOK, OvertakenFits
<1>8. ScanOK
  BY DEF ScanOK
<1>9. RotationOK
  <2> SUFFICES ASSUME NEW s \in Shards
               PROVE  passedOver[s] <= (readStartShard + (NumShards - 1 - s)) % NumShards
    BY DEF RotationOK
  <2>1. (readStartShard + (NumShards - 1 - s)) % NumShards \in Nat
    <3>1. readStartShard \in Nat
      OBVIOUS
    <3> QED
      BY <3>1, NextTurn
  <2> QED
    BY <2>1
<1> QED
  BY <1>1, <1>3, <1>4, <1>5, <1>7, <1>8, <1>9 DEF Inv

LEMMA StutterInv == ASSUME Inv, UNCHANGED vars PROVE Inv'
<1> USE DEF Inv, vars
<1>1. UNCHANGED callVars
  BY DEF callVars
<1>2. TypeOK'
  BY DEF TypeOK
<1>3. ProducersOK'
  BY DEF ProducersOK
<1> QED
  BY <1>1, <1>2, <1>3, SameShards, SameWrites, SameGot, SameDelivery, SameOvertaken, SameScan,
     SameRotation

LEMMA NextInv == Inv /\ [Next]_vars => Inv'
<1> SUFFICES ASSUME Inv, [Next]_vars PROVE Inv'
  OBVIOUS
<1>1. ASSUME NEW p \in Producers, BeginWrite(p) \/ ProducerStep(p) PROVE Inv'
  BY <1>1, QuietStepsInv, ClaimPlaceInv, CommitPlaceInv DEF ProducerStep
<1>2. CASE TryRead
  <2>1. 1 \in Nat \ {0}
    OBVIOUS
  <2> QED
    BY <1>2, <2>1, BeginReadInv DEF TryRead
<1>3. ASSUME NEW maxItems \in BatchSizes, ReadBatchInto(maxItems) PROVE Inv'
  <2>1. maxItems \in Nat \ {0}
    BY RingAssumption
  <2> QED
    BY <1>3, <2>1, BeginReadInv DEF ReadBatchInto
<1>4. CASE ConsumerStep
  BY <1>4, TakeHeadInv, SkipShardInv, ReturnReadInv DEF ConsumerStep
<1>5. CASE UNCHANGED vars
  BY <1>5, StutterInv
<1> QED
  BY <1>1, <1>2, <1>3, <1>4, <1>5 DEF Next

\* Every accepted value is in one place of one shard, the consumer has exactly
\* the taken ones, and a scan leaves nothing behind that was ready when it began
\* (ring.go:87-213 with the writers of strategies.go).
THEOREM Invariance == Spec => []Inv
  BY InitInv, NextInv, PTL DEF Spec

-------------------------------------------------------------------------------
(* What follows *)

\* What the consumer has, and where it comes from.
LEMMA Source ==
  ASSUME Inv, NEW i \in 1 .. Len(Got)
  PROVE  /\ Got[i] \in AllWrites
         /\ \E s \in Shards : \E k \in 1 .. taken[s] :
                k \in 1 .. Len(log[s]) /\ Got[i] = log[s][k]
         /\ Got[i][1] \in Producers /\ Got[i][2] \in 1 .. pcount[Got[i][1]]
<1> USE DEF Inv
<1>1. PICK s \in Shards : \E k \in 1 .. taken[s] : Got[i] = log[s][k]
  BY DEF DeliveryOK
<1>2. PICK k \in 1 .. taken[s] : Got[i] = log[s][k]
  BY <1>1
<1>3. k \in 1 .. Len(log[s])
  BY LogType DEF ShardsOK, TypeOK
<1>4. log[s][k] \in AllWrites
  BY <1>3, LogType
<1>5. log[s][k][1] \in Producers /\ log[s][k][2] \in Nat \ {0}
  BY <1>4, WriteParts
<1>6. log[s][k][2] <= pcount[log[s][k][1]] /\ pcount[log[s][k][1]] \in Nat
  BY <1>3, <1>5 DEF WritesOK, TypeOK
<1> QED
  BY <1>2, <1>3, <1>4, <1>5, <1>6

\* An earlier value of the same producer in the same shard came before.
LEMMA EarlierFirst ==
  ASSUME Inv, NEW i \in 1 .. Len(Got), NEW n \in Nat, n < Got[i][2],
         InOneShard(<<Got[i][1], n>>, Got[i])
  PROVE  \E j \in 1 .. i - 1 : Got[j] = <<Got[i][1], n>>
<1> DEFINE p == Got[i][1]
<1> USE DEF Inv
<1>1. PICK s \in Shards : \E a, b \in 1 .. Len(log[s]) : log[s][a] = <<p, n>> /\ log[s][b] = Got[i]
  BY DEF InOneShard
<1>2. PICK a \in 1 .. Len(log[s]) : \E b \in 1 .. Len(log[s]) :
          log[s][a] = <<p, n>> /\ log[s][b] = Got[i]
  BY <1>1
<1>3. PICK b \in 1 .. Len(log[s]) : log[s][a] = <<p, n>> /\ log[s][b] = Got[i]
  BY <1>2
<1>4. b \in 1 .. taken[s]
  <2>1. PICK t \in Shards : \E k \in 1 .. taken[t] : k \in 1 .. Len(log[t]) /\ Got[i] = log[t][k]
    BY Source
  <2>2. PICK k \in 1 .. taken[t] : k \in 1 .. Len(log[t]) /\ Got[i] = log[t][k]
    BY <2>1
  <2>3. log[s][b] = log[t][k]
    BY <1>3, <2>2
  <2>4. s = t /\ b = k
    BY <2>2, <2>3 DEF WritesOK
  <2> QED
    BY <2>2, <2>4
<1>5. Got[i][2] \in Nat
  <2>1. Got[i][1] \in Producers /\ Got[i][2] \in 1 .. pcount[Got[i][1]]
    BY Source
  <2> QED
    BY <2>1
<1>6. a < b
  <2>1. a # b
    BY <1>3, <1>5
  <2>2. ~(b < a)
    <3> SUFFICES ASSUME b < a PROVE FALSE
      OBVIOUS
    <3>1. log[s][b][1] = log[s][a][1] /\ log[s][a][2] = n /\ log[s][b][2] = Got[i][2]
      BY <1>3
    <3>2. log[s][b][2] < log[s][a][2]
      BY <3>1 DEF WritesOK
    <3> QED
      BY <1>5, <3>1, <3>2
  <2> QED
    BY <2>1, <2>2
<1>7. a \in 1 .. taken[s] /\ taken[s] \in Nat
  <2>1. taken[s] \in Nat
    BY DEF TypeOK
  <2>2. a \in Nat /\ 1 <= a
    BY <1>2
  <2> QED
    BY <2>1, <2>2, <1>4, <1>6
<1>8. PICK j \in 1 .. Len(Got) : Got[j] = log[s][a]
  BY <1>7 DEF DeliveryOK
<1>9. j < i
  <2>1. \A k, l \in 1 .. taken[s] : \A x, y \in 1 .. Len(Got) :
            k < l /\ Got[x] = log[s][k] /\ Got[y] = log[s][l] => x < y
    BY DEF DeliveryOK
  <2>2. Got[i] = log[s][b]
    BY <1>3
  <2> QED
    BY <1>4, <1>6, <1>7, <1>8, <2>1, <2>2
<1>10. j \in 1 .. i - 1
  BY <1>9
<1> QED
  BY <1>3, <1>8, <1>10

\* A roaming producer's values may overtake one another, but none comes twice,
\* only values in other shards are overtaken, and at most as many as those hold
\* (strategies.go, DESIGN-RETRY-STRATEGIES.md:514-528).
THEOREM Overtaking == Spec => []OvertakingBounded
<1>1. ASSUME Inv PROVE OvertakingBounded
  <2> SUFFICES ASSUME NEW i \in 1 .. Len(Got)
               PROVE  /\ \A j \in 1 .. i - 1 : Got[j] # Got[i]
                      /\ \A n \in Overtaken(i) : ~InOneShard(<<Got[i][1], n>>, Got[i])
                      /\ Cardinality(Overtaken(i)) <= (NumShards - 1) * ShardSize
    BY DEF OvertakingBounded
  <2>1. ASSUME NEW j \in 1 .. i - 1 PROVE Got[j] # Got[i]
    <3>1. j \in 1 .. Len(Got) /\ j # i
      BY <1>1, GotType DEF Inv
    <3> QED
      BY <1>1, <3>1 DEF Inv, DeliveryOK
  <2>2. ASSUME NEW n \in Overtaken(i) PROVE ~InOneShard(<<Got[i][1], n>>, Got[i])
    <3>1. Got[i][2] \in Nat
      <4>1. Got[i][1] \in Producers /\ Got[i][2] \in 1 .. pcount[Got[i][1]]
        BY <1>1, Source
      <4> QED
        BY <4>1
    <3>2. /\ n \in Nat /\ n < Got[i][2]
          /\ \A j \in 1 .. i - 1 : Got[j] # <<Got[i][1], n>>
      BY <2>2, <3>1 DEF Overtaken
    <3> QED
      BY <1>1, <3>2, EarlierFirst
  <2>3. Cardinality(Overtaken(i)) <= (NumShards - 1) * ShardSize
    BY <1>1 DEF Inv, OvertakenFits
  <2> QED
    BY <2>1, <2>2, <2>3
<1> QED
  BY <1>1, Invariance, PTL

\* The values of a producer that stays with its shard arrive in the order in
\* which they were written, without gaps: the n-th to arrive is the n-th written
\* (ring.go:87-98).
THEOREM HomeOrder == Spec => []ProducerOrder
<1>1. ASSUME Inv PROVE ProducerOrder
  <2> SUFFICES ASSUME NEW i \in 1 .. Len(Got), StaysHome(Got[i][1])
               PROVE  Got[i][2] = Cardinality({j \in 1 .. i : Got[j][1] = Got[i][1]})
    BY DEF ProducerOrder
  <2> DEFINE p == Got[i][1]
             n == Got[i][2]
             J == {j \in 1 .. i : Got[j][1] = p}
             f == [j \in J |-> Got[j][2]]
  <2>1. p \in Producers /\ n \in 1 .. pcount[p] /\ n \in Nat /\ i \in 1 .. Len(Got) /\ Len(Got) \in Nat
    <3>1. Got[i][1] \in Producers /\ Got[i][2] \in 1 .. pcount[Got[i][1]]
      BY <1>1, Source
    <3> QED
      BY <1>1, <3>1, GotType DEF Inv
\* All values of p are in its own shard.
  <2>2. \A s \in Shards : \A k \in 1 .. Len(log[s]) : log[s][k][1] = p => s = selectShard(p)
    BY <1>1 DEF Inv, WritesOK
  <2>3. ASSUME NEW j \in 1 .. Len(Got), Got[j][1] = p
        PROVE  /\ Got[j] = <<p, Got[j][2]>> /\ Got[j][2] \in Nat \ {0}
               /\ \E k \in 1 .. Len(log[selectShard(p)]) : Got[j] = log[selectShard(p)][k]
    <3>1. Got[j] \in AllWrites
      BY <1>1, Source
    <3>2. Got[j] = <<p, Got[j][2]>> /\ Got[j][2] \in Nat \ {0}
      BY <2>3, <3>1, WriteParts
    <3>3. PICK s \in Shards : \E k \in 1 .. taken[s] : k \in 1 .. Len(log[s]) /\ Got[j] = log[s][k]
      BY <1>1, Source
    <3>4. PICK k \in 1 .. taken[s] : k \in 1 .. Len(log[s]) /\ Got[j] = log[s][k]
      BY <3>3
    <3> QED
      BY <2>2, <2>3, <3>2, <3>4
\* A smaller value of p comes earlier.
  <2>4. ASSUME NEW j \in 1 .. Len(Got), Got[j][1] = p, NEW m \in 1 .. Got[j][2] - 1
        PROVE  \E x \in 1 .. j - 1 : Got[x] = <<p, m>>
    <3>1. m \in Nat /\ m < Got[j][2] /\ m \in 1 .. pcount[p]
      <4>1. Got[j][2] \in 1 .. pcount[p] /\ pcount[p] \in Nat
        <5>1. Got[j][2] \in 1 .. pcount[Got[j][1]]
          BY <1>1, Source
        <5>2. pcount[p] \in Nat
          BY <1>1, <2>1 DEF Inv, TypeOK
        <5> QED
          BY <2>4, <5>1, <5>2
      <4> QED
        BY <4>1
    <3>2. PICK s \in Shards : \E k \in 1 .. Len(log[s]) : log[s][k] = <<p, m>>
      BY <1>1, <2>1, <3>1 DEF Inv, WritesOK, Placed
    <3>3. PICK k \in 1 .. Len(log[s]) : log[s][k] = <<p, m>>
      BY <3>2
    <3>4. s = selectShard(p)
      BY <2>2, <3>3
    <3>5. InOneShard(<<p, m>>, Got[j])
      BY <2>3, <2>4, <3>3, <3>4 DEF InOneShard
    <3> QED
      BY <1>1, <2>4, <3>1, <3>5, EarlierFirst
  <2>5. ASSUME NEW j \in J PROVE Got[j][2] \in 1 .. n /\ j \in 1 .. Len(Got) /\ Got[j][1] = p
    <3>1. j \in 1 .. Len(Got) /\ Got[j][1] = p /\ j <= i
      BY <2>1
    <3>2. Got[j][2] \in Nat \ {0}
      BY <2>3, <3>1
    <3>3. ~(n < Got[j][2])
      <4> SUFFICES ASSUME n < Got[j][2] PROVE FALSE
        OBVIOUS
      <4>1. n \in 1 .. Got[j][2] - 1
        BY <2>1, <3>2
      <4>2. PICK x \in 1 .. j - 1 : Got[x] = <<p, n>>
        BY <2>4, <3>1, <4>1
      <4>3. Got[i] = <<p, n>>
        BY <2>1, <2>3
      <4>4. x \in 1 .. Len(Got) /\ x # i
        BY <2>1, <3>1
      <4>5. Got[x] = Got[i]
        BY <4>2, <4>3
      <4> QED
        BY <1>1, <4>4, <4>5 DEF Inv, DeliveryOK
    <3> QED
      BY <2>1, <3>1, <3>2, <3>3
  <2>6. f \in [J -> 1 .. n]
    BY <2>5
  <2>7. ASSUME NEW x \in J, NEW y \in J, f[x] = f[y] PROVE x = y
    <3>1. Got[x] = Got[y]
      BY <2>3, <2>5, <2>7
    <3> QED
      BY <1>1, <2>5, <3>1 DEF Inv, DeliveryOK
  <2>8. ASSUME NEW m \in 1 .. n PROVE \E x \in J : f[x] = m
    <3>1. CASE m = n
      BY <2>1, <3>1
    <3>2. CASE m # n
      <4>1. m \in 1 .. n - 1
        BY <2>1, <3>2
      <4>2. PICK x \in 1 .. i - 1 : Got[x] = <<p, m>>
        BY <2>1, <2>4, <4>1
      <4>3. x \in J
        BY <2>1, <4>2
      <4> QED
        BY <4>2, <4>3
    <3> QED
      BY <3>1, <3>2
  <2>9. IsFiniteSet(1 .. n) /\ Cardinality(1 .. n) = n
    BY <2>1, UpTo
  <2> HIDE DEF J, f, n
  <2>10. Cardinality(J) = n
    BY <2>6, <2>7, <2>8, <2>9, SameSize
  <2> QED
    BY <2>10 DEF J, n
<1> QED
  BY <1>1, Invariance, PTL

\* A read that returns less than it may has missed nothing that was published
\* when it began, although its scan takes many steps (ring.go:134-147, 194-213).
THEOREM ShortReads == Spec => ShortReadIsComplete
<1>1. ASSUME Inv, [Next]_vars, cpc = "scan", cpc' = "idle", Len(result) < limit
      PROVE  \A s \in Shards : taken[s] >= ready0[s]
  <2>1. ReturnRead
    BY <1>1 DEF Next, BeginWrite, ProducerStep, ClaimPlace, CommitPlace, RetryShard, MoveOn,
       StartOver, RejectWrite, WriteRefused, TryRead, ReadBatchInto, BeginRead, ConsumerStep,
       TakeHead, SkipShard, callVars, vars
  <2>2. offset = NumShards
    BY <1>1, <2>1, RingFacts DEF ReturnRead, Scanning, Inv, TypeOK
  <2> SUFFICES ASSUME NEW s \in Shards PROVE taken[s] >= ready0[s]
    OBVIOUS
  <2>3. ready0[s] <= taken[s] /\ ready0[s] \in Nat /\ taken[s] \in Nat
    BY <1>1, <2>2, AllPassed DEF Inv, TypeOK
  <2> QED
    BY <2>3
<1> QED
  BY <1>1, Invariance, PTL DEF Spec, ShortReadIsComplete

\* No shard with a value to deliver is passed over by as many successive reads as
\* there are shards (ring.go:138-139, 196-197).
THEOREM Rotation == Spec => []RotationIsFair
<1>1. ASSUME Inv, NEW s \in Shards PROVE passedOver[s] < NumShards
  <2> DEFINE r == IF cpc = "idle" THEN readStartShard ELSE start
             x == (r + (NumShards - 1 - s)) % NumShards
  <2>1. r + (NumShards - 1 - s) \in Nat
    BY <1>1, RingFacts DEF Inv, TypeOK, Shards
  <2>2. x \in 0 .. NumShards - 1
    BY <2>1, DivMod, RingFacts
  <2>3. passedOver[s] <= x /\ passedOver[s] \in Nat
    BY <1>1 DEF Inv, RotationOK, TypeOK
  <2> HIDE DEF x
  <2> QED
    BY <2>2, <2>3, RingFacts
<1>2. Inv => RotationIsFair
  BY <1>1 DEF RotationIsFair
<1> QED
  BY <1>2, Invariance, PTL

-------------------------------------------------------------------------------
(* Each shard is a bounded queue *)

LEMMA ClaimRefines ==
  ASSUME Inv, NEW p \in Producers, ClaimPlace(p), NEW s \in Shards
  PROVE  Queue(s)!QueueNext \/ UNCHANGED <<log[s], committed[s], taken[s]>>
<1> USE DEF Inv
<1>1. CASE s = pshard[p]
  <2> DEFINE v == <<p, pcount[p] + 1>>
  <2>1. v \in AllWrites
    <3>1. pcount[p] \in Nat /\ MaxWrites[p] \in Nat /\ pcount[p] < MaxWrites[p]
      BY RingFacts DEF ClaimPlace, TypeOK, ProducersOK
    <3>2. pcount[p] + 1 \in 1 .. MaxWrites[p]
      BY <3>1
    <3> QED
      BY <3>2, WriteIn
  <2>2. /\ log'[s] = Append(log[s], v) /\ committed'[s] = committed[s] /\ taken'[s] = taken[s]
        /\ Len(log[s]) - taken[s] # ShardSize
    BY <1>1 DEF ClaimPlace, HasRoom, Full, TypeOK
  <2>3. /\ log[s] \in Seq(AllWrites) /\ Len(log[s]) \in Nat /\ taken[s] \in Nat
        /\ taken[s] <= Len(log[s]) /\ Len(log[s]) <= taken[s] + ShardSize /\ ShardSize \in Nat
    BY LogType, RingFacts DEF TypeOK, ShardsOK
  <2> HIDE DEF v
  <2>4. SubSeq(log'[s], 1, taken'[s]) = SubSeq(log[s], 1, taken[s])
    BY <2>1, <2>2, <2>3
  <2>5. Len(SubSeq(log[s], 1, taken[s])) = taken[s]
    BY <2>3
  <2>6. Len(log[s]) - Len(SubSeq(log[s], 1, taken[s])) < ShardSize
    <3> DEFINE length == Len(log[s])
               number == taken[s]
    <3>1. /\ length \in Nat /\ number \in Nat /\ ShardSize \in Nat
          /\ length <= number + ShardSize /\ length - number # ShardSize
      BY <2>2, <2>3
    <3> HIDE DEF length, number
    <3>2. length - number < ShardSize
      BY <3>1
    <3> QED
      BY <3>2, <2>5 DEF length, number
  <2> QED
    BY <2>1, <2>2, <2>4, <2>6 DEF Queue!QueueNext, Queue!Claim
<1>2. CASE s # pshard[p]
  BY <1>2 DEF ClaimPlace, TypeOK
<1> QED
  BY <1>1, <1>2

LEMMA CommitRefines ==
  ASSUME Inv, NEW p \in Producers, CommitPlace(p), NEW s \in Shards
  PROVE  Queue(s)!QueueNext \/ UNCHANGED <<log[s], committed[s], taken[s]>>
<1> USE DEF Inv
<1>1. CASE s = pshard[p]
  <2>1. /\ pplace[p] \in 1 .. Len(log[s]) /\ pplace[p] \notin committed[s]
        /\ log' = log /\ taken' = taken
        /\ committed'[s] = committed[s] \cup {pplace[p]}
    BY <1>1 DEF CommitPlace, ProducersOK, TypeOK
  <2> QED
    BY <2>1 DEF Queue!QueueNext, Queue!Commit
<1>2. CASE s # pshard[p]
  BY <1>2 DEF CommitPlace, TypeOK
<1> QED
  BY <1>1, <1>2

LEMMA TakeRefines ==
  ASSUME Inv, TakeHead, NEW s \in Shards
  PROVE  Queue(s)!QueueNext \/ UNCHANGED <<log[s], committed[s], taken[s]>>
<1> USE DEF Inv
<1>1. CASE s = ScanShard
  <2>1. /\ taken[s] + 1 \in committed[s] /\ log' = log /\ committed' = committed
        /\ taken'[s] = taken[s] + 1
    BY <1>1 DEF TakeHead, HeadReady, TypeOK
  <2>2. log[s] \in Seq(AllWrites) /\ taken[s] \in Nat /\ taken[s] + 1 \in 1 .. Len(log[s])
    BY <2>1 DEF TypeOK, ShardsOK
  <2>3. taken[s] + 1 <= Len(log[s])
    BY <2>2
  <2>4. /\ Len(SubSeq(log[s], 1, taken[s])) = taken[s]
        /\ SubSeq(log[s], 1, taken[s] + 1)
              = Append(SubSeq(log[s], 1, taken[s]), log[s][taken[s] + 1])
    BY <2>2, <2>3, PrefixGrows
  <2> QED
    BY <2>1, <2>4 DEF Queue!QueueNext, Queue!Take
<1>2. CASE s # ScanShard
  BY <1>2 DEF TakeHead, TypeOK
<1> QED
  BY <1>1, <1>2

\* Each shard of the ring does what BoundedQueue, which Shard implements, allows:
\* the ring does not go past a shard's interface (ring.go:93-98, 134-213).
THEOREM RingOfQueues == Spec => ShardsAreQueues
<1>1. Init => \A s \in Shards : Queue(s)!QueueInit
  <2> SUFFICES ASSUME Init, NEW s \in Shards PROVE Queue(s)!QueueInit
    OBVIOUS
  <2>1. log[s] = <<>> /\ committed[s] = {} /\ SubSeq(log[s], 1, taken[s]) = <<>>
    BY DEF Init
  <2> QED
    BY <2>1 DEF Queue!QueueInit
<1>2. ASSUME Inv, [Next]_vars, NEW s \in Shards
      PROVE  Queue(s)!QueueNext \/ UNCHANGED <<log[s], committed[s], taken[s]>>
  <2>1. ASSUME NEW p \in Producers, ProducerStep(p) \/ BeginWrite(p)
        PROVE  Queue(s)!QueueNext \/ UNCHANGED <<log[s], committed[s], taken[s]>>
    <3>1. CASE ClaimPlace(p)
      BY <1>2, <3>1, ClaimRefines
    <3>2. CASE CommitPlace(p)
      BY <1>2, <3>2, CommitRefines
    <3>3. CASE BeginWrite(p) \/ RetryShard(p) \/ MoveOn(p) \/ StartOver(p) \/ RejectWrite(p)
      BY <3>3 DEF BeginWrite, RetryShard, MoveOn, StartOver, RejectWrite, WriteRefused
    <3> QED
      BY <2>1, <3>1, <3>2, <3>3 DEF ProducerStep
  <2>2. CASE TryRead \/ \E maxItems \in BatchSizes : ReadBatchInto(maxItems)
    BY <2>2 DEF TryRead, ReadBatchInto, BeginRead
  <2>3. CASE ConsumerStep
    <3>1. CASE TakeHead
      BY <1>2, <3>1, TakeRefines
    <3>2. CASE SkipShard \/ ReturnRead
      BY <3>2 DEF SkipShard, ReturnRead
    <3> QED
      BY <2>3, <3>1, <3>2 DEF ConsumerStep
  <2>4. CASE UNCHANGED vars
    BY <2>4 DEF vars
  <2> QED
    BY <1>2, <2>1, <2>2, <2>3, <2>4 DEF Next
<1>3. Inv /\ [Next]_vars =>
          [\A s \in Shards :
              Queue(s)!QueueNext \/ UNCHANGED <<log[s], committed[s], taken[s]>>]_vars
  BY <1>2
<1> QED
  BY <1>1, <1>3, Invariance, PTL DEF Spec, ShardsAreQueues

===============================================================================
