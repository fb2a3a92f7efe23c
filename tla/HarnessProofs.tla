---------------------------- MODULE HarnessProofs ----------------------------
(***************************************************************************)
(* What the harness reports about the runs of the program, for any list of *)
(* test cases, any limits and whatever the children do: a run that passes  *)
(* earned it, the tables say what the results say, the recommendations are *)
(* the best of the tables, and every test case has one result.             *)
(***************************************************************************)
EXTENDS Harness, Arithmetic

-------------------------------------------------------------------------------
(* The inductive invariant *)

Output == [intervals : Nat, average : Nat, shutdown : Nat, drop : Nat, produced : Nat]

Results == [test : Nat, passed : BOOLEAN, valid : BOOLEAN, lines : Nat,
            expected : Nat \ {0}, rate : Nat, shutdown : Nat, drop : Nat]

Metrics == [count : Nat, pass : Nat, fail : Nat, expected : Nat, drop : Nat, achieved : Nat]

TypeOK ==
    /\ mode \in Modes
    /\ current \in 1 .. Len(Tests) + 1
    /\ pc \in {"next", "child", "over", "done"}
    /\ ctxDone \in BOOLEAN
    /\ out \in Output
    /\ phase \in {"running", "ended", "summed"}
    /\ exit \in {-1, 0, 2}
    /\ results \in Seq(Results)
    /\ suite \in [total : Nat, passed : Nat, failed : Nat]
    /\ byStrategy \in [Strategies -> Metrics]
    /\ byProcs \in [Procs -> Metrics]
    /\ matrix \in [Strategies -> [Procs -> Metrics]]

\* A child that prints its shutdown reports a duration, and one that ended by itself
\* got to the end of its output.
ChildOK ==
    /\ phase # "running" => out.shutdown \in ShutdownTimes
    /\ (pc = "over" /\ exit = 0) => phase = "summed"

\* The results are those of the first tests, in their order.
OneResultEach ==
    /\ Len(results) = current - 1
    /\ \A i \in DOMAIN results : results[i].test = i
    /\ pc \in {"child", "over"} => current <= Len(Tests)
    /\ pc = "done" => current = Len(Tests) + 1

Inv ==
    /\ TypeOK
    /\ ChildOK
    /\ OneResultEach
    /\ PassesAreEarned
    /\ TablesAgree
    /\ BestIsBest

-------------------------------------------------------------------------------
(* The constants and the lists *)

LEMMA Constants ==
  /\ Modes \subseteq {"suite", "comparison"}
  /\ Rates \subseteq Nat /\ Drops \subseteq Nat /\ ShutdownTimes \subseteq Nat \ {0}
  /\ RateTolerance \in 0 .. 99
  /\ MaxDropRate \in Nat /\ MaxShutdownTime \in Nat /\ MaxIntervals \in Nat
BY HarnessAssumption

LEMMA Lists ==
  /\ Len(SuiteTests) \in Nat /\ DOMAIN SuiteTests = 1 .. Len(SuiteTests)
  /\ Len(ComparisonTests) \in Nat /\ DOMAIN ComparisonTests = 1 .. Len(ComparisonTests)
  /\ \A i \in DOMAIN ComparisonTests : ComparisonTests[i].strategy # ""
<1>1. /\ SuiteTests \in Seq(Range(SuiteTests))
      /\ ComparisonTests \in Seq(Range(ComparisonTests))
  BY HarnessAssumption
<1>2. /\ Len(SuiteTests) \in Nat /\ DOMAIN SuiteTests = 1 .. Len(SuiteTests)
      /\ Len(ComparisonTests) \in Nat /\ DOMAIN ComparisonTests = 1 .. Len(ComparisonTests)
  BY <1>1
<1>3. \A i \in DOMAIN ComparisonTests : ComparisonTests[i].strategy # ""
  BY HarnessAssumption DEF Range
<1> QED
  BY <1>2, <1>3

LEMMA TestList ==
  /\ Len(Tests) \in Nat /\ DOMAIN Tests = 1 .. Len(Tests)
  /\ mode # "suite" => Tests = ComparisonTests
BY Lists DEF Tests

\* The kinds of tests that are looked up are in the tables.
LEMMA Kinds ==
  ASSUME mode # "suite", NEW i \in 1 .. Len(Tests)
  PROVE  Tests[i].strategy \in Strategies /\ Tests[i].procs \in Procs
BY TestList DEF Strategies, Procs

LEMMA AtLeastOneIs ==
  ASSUME NEW n \in Nat
  PROVE  AtLeastOne(n) = IF n = 0 THEN 1 ELSE n
<1>1. CASE n = 0
  BY <1>1 DEF AtLeastOne, Max
<1>2. CASE n # 0
  <2>1. \A x \in {n, 1} : (\A y \in {n, 1} : x >= y) => x = n
    BY <1>2
  <2>2. n \in {n, 1} /\ \A y \in {n, 1} : n >= y
    BY <1>2
  <2> QED
    BY <1>2, <2>1, <2>2 DEF AtLeastOne, Max
<1> QED
  BY <1>1, <1>2
-------------------------------------------------------------------------------
(* The tally of the results *)

\* One more run, as the counters take it.
Plus(sm, r) ==
    [count    |-> sm.count + 1,
     pass     |-> sm.pass + (IF r.passed THEN 1 ELSE 0),
     fail     |-> sm.fail + (IF r.passed THEN 0 ELSE 1),
     expected |-> sm.expected + (IF r.valid THEN r.expected ELSE 0),
     drop     |-> sm.drop + r.drop,
     achieved |-> sm.achieved + (IF r.valid THEN r.rate ELSE 0)]

\* The records of a sequence, one by one and appended to.
LEMMA Appended ==
  ASSUME NEW rs \in Seq(Results), NEW r \in Results
  PROVE  LET new == Append(rs, r)
         IN  /\ Len(rs) \in Nat /\ DOMAIN rs = 1 .. Len(rs)
             /\ \A i \in DOMAIN rs : rs[i] \in Results /\ new[i] = rs[i]
             /\ new \in Seq(Results) /\ Len(new) = Len(rs) + 1
             /\ DOMAIN new = DOMAIN rs \cup {Len(rs) + 1}
             /\ new[Len(rs) + 1] = r
             /\ Len(rs) + 1 \notin DOMAIN rs
OBVIOUS

\* A subset of the runs, and one of it that is selected by a property.
LEMMA Runs ==
  ASSUME NEW rs \in Seq(Results), NEW J \in SUBSET DOMAIN rs
  PROVE  IsFiniteSet(J) /\ Cardinality(J) \in Nat
<1>1. Len(rs) \in Nat /\ DOMAIN rs = 1 .. Len(rs)
  OBVIOUS
<1> QED
  BY <1>1, IntervalSubset

\* Runs that were there already count as before.
LEMMA TallySame ==
  ASSUME NEW rs \in Seq(Results), NEW r \in Results, NEW J \in SUBSET DOMAIN rs
  PROVE  Tally(Append(rs, r), J) = Tally(rs, J)
<1> DEFINE new == Append(rs, r)
           V == {i \in J : rs[i].valid}
           Drop(q) == [i \in DOMAIN q |-> q[i].drop]
           Due(q) == [i \in DOMAIN q |-> q[i].expected]
           Rate(q) == [i \in DOMAIN q |-> q[i].rate]
<1>1. \A i \in J : new[i] = rs[i] /\ i \in DOMAIN new /\ i \in DOMAIN rs /\ rs[i] \in Results
  BY Appended
<1>2. V \in SUBSET J
  OBVIOUS
<1>3. IsFiniteSet(J) /\ IsFiniteSet(V)
  <2> HIDE DEF V
  <2> QED
    BY <1>2, Runs
<1>4. /\ {i \in J : new[i].valid} = V
      /\ {i \in J : new[i].passed} = {i \in J : rs[i].passed}
      /\ {i \in J : ~new[i].passed} = {i \in J : ~rs[i].passed}
  BY <1>1
<1>5. \A i \in J : /\ Drop(new)[i] = Drop(rs)[i] /\ Drop(rs)[i] \in Nat
                   /\ Due(new)[i] = Due(rs)[i] /\ Due(rs)[i] \in Nat
                   /\ Rate(new)[i] = Rate(rs)[i] /\ Rate(rs)[i] \in Nat
  BY <1>1 DEF Results
<1> HIDE DEF Drop, Due, Rate, new, V
<1>6. SumFunctionOnSet(Drop(new), J) = SumFunctionOnSet(Drop(rs), J)
  BY <1>3, <1>5, SumSame
<1>7. /\ SumFunctionOnSet(Rate(new), V) = SumFunctionOnSet(Rate(rs), V)
      /\ SumFunctionOnSet(Due(new), V) = SumFunctionOnSet(Due(rs), V)
  BY <1>2, <1>3, <1>5, SumSame
<1> QED
  BY <1>4, <1>6, <1>7 DEF Tally, Drop, Due, Rate, new, V

LEMMA CountAdd ==
  ASSUME NEW S, IsFiniteSet(S), NEW e, e \notin S
  PROVE  Cardinality(S \cup {e}) = Cardinality(S) + 1
BY FS_AddElement

\* The run appended counts once.
LEMMA TallyPlus ==
  ASSUME NEW rs \in Seq(Results), NEW r \in Results, NEW J \in SUBSET DOMAIN rs
  PROVE  Tally(Append(rs, r), J \cup {Len(rs) + 1}) = Plus(Tally(rs, J), r)
<1> DEFINE new == Append(rs, r)
           e == Len(rs) + 1
           K == J \cup {e}
           V(q, I) == {i \in I : q[i].valid}
           P(q, I) == {i \in I : q[i].passed}
           F(q, I) == {i \in I : ~q[i].passed}
           Drop(q) == [i \in DOMAIN q |-> q[i].drop]
           Due(q) == [i \in DOMAIN q |-> q[i].expected]
           Rate(q) == [i \in DOMAIN q |-> q[i].rate]
<1>1. /\ \A i \in J : new[i] = rs[i] /\ i \in DOMAIN new /\ i \in DOMAIN rs /\ rs[i] \in Results
      /\ e \in DOMAIN new /\ new[e] = r /\ e \notin J
  BY Appended
<1>2. V(rs, J) \in SUBSET J /\ P(rs, J) \in SUBSET J /\ F(rs, J) \in SUBSET J
  OBVIOUS
<1>3. /\ V(new, K) = IF r.valid THEN V(rs, J) \cup {e} ELSE V(rs, J)
      /\ P(new, K) = IF r.passed THEN P(rs, J) \cup {e} ELSE P(rs, J)
      /\ F(new, K) = IF r.passed THEN F(rs, J) ELSE F(rs, J) \cup {e}
  BY <1>1
<1>4. /\ \A i \in J : /\ Drop(new)[i] = Drop(rs)[i] /\ Drop(rs)[i] \in Nat
                      /\ Due(new)[i] = Due(rs)[i] /\ Due(rs)[i] \in Nat
                      /\ Rate(new)[i] = Rate(rs)[i] /\ Rate(rs)[i] \in Nat
      /\ Drop(new)[e] = r.drop /\ Due(new)[e] = r.expected /\ Rate(new)[e] = r.rate
      /\ r.drop \in Nat /\ r.expected \in Nat /\ r.rate \in Nat
  BY <1>1 DEF Results
<1>5. IsFiniteSet(J) /\ Cardinality(J) \in Nat
  BY Runs
<1> HIDE DEF new, e, V, P, F, Drop, Due, Rate
<1>6. /\ IsFiniteSet(V(rs, J)) /\ Cardinality(V(rs, J)) \in Nat /\ e \notin V(rs, J)
      /\ IsFiniteSet(P(rs, J)) /\ Cardinality(P(rs, J)) \in Nat /\ e \notin P(rs, J)
      /\ IsFiniteSet(F(rs, J)) /\ Cardinality(F(rs, J)) \in Nat /\ e \notin F(rs, J)
  BY <1>1, <1>2, Runs
<1>7. /\ Cardinality(K) = Cardinality(J) + 1
      /\ Cardinality(V(new, K)) = Cardinality(V(rs, J)) + (IF r.valid THEN 1 ELSE 0)
      /\ Cardinality(P(new, K)) = Cardinality(P(rs, J)) + (IF r.passed THEN 1 ELSE 0)
      /\ Cardinality(F(new, K)) = Cardinality(F(rs, J)) + (IF r.passed THEN 0 ELSE 1)
  <2>1. /\ Cardinality(K) = Cardinality(J) + 1
        /\ Cardinality(V(rs, J) \cup {e}) = Cardinality(V(rs, J)) + 1
        /\ Cardinality(P(rs, J) \cup {e}) = Cardinality(P(rs, J)) + 1
        /\ Cardinality(F(rs, J) \cup {e}) = Cardinality(F(rs, J)) + 1
    BY <1>1, <1>5, <1>6, CountAdd
  <2> QED
    BY <1>3, <1>6, <2>1
<1>8. SumFunctionOnSet(Drop(new), K) = SumFunctionOnSet(Drop(rs), J) + r.drop
  <2>1. SumFunctionOnSet(Drop(new), K) = SumFunctionOnSet(Drop(new), J) + Drop(new)[e]
    <3>1. \A i \in J \cup {e} : Drop(new)[i] \in Nat
      BY <1>4
    <3> QED
      BY <1>1, <1>5, <3>1, SumAdd DEF K
  <2>2. SumFunctionOnSet(Drop(new), J) = SumFunctionOnSet(Drop(rs), J)
    BY <1>4, <1>5, SumSame
  <2> QED
    BY <1>4, <2>1, <2>2
<1>9. /\ SumFunctionOnSet(Rate(new), V(new, K))
             = SumFunctionOnSet(Rate(rs), V(rs, J)) + (IF r.valid THEN r.rate ELSE 0)
      /\ SumFunctionOnSet(Due(new), V(new, K))
             = SumFunctionOnSet(Due(rs), V(rs, J)) + (IF r.valid THEN r.expected ELSE 0)
  <2> DEFINE W == V(rs, J)
  <2>0. IsFiniteSet(W) /\ e \notin W /\ \A i \in W : i \in J
    BY <1>2, <1>6
  <2> HIDE DEF W
  <2>1. ASSUME NEW G, NEW H, \A i \in W : G[i] = H[i] /\ H[i] \in Nat, G[e] \in Nat
        PROVE  /\ SumFunctionOnSet(G, W \cup {e}) = SumFunctionOnSet(H, W) + G[e]
               /\ SumFunctionOnSet(G, W) = SumFunctionOnSet(H, W)
               /\ SumFunctionOnSet(H, W) \in Nat
    <3>1. SumFunctionOnSet(G, W) = SumFunctionOnSet(H, W) /\ SumFunctionOnSet(H, W) \in Nat
      BY <2>0, <2>1, SumSame, SumType
    <3>2. \A i \in W \cup {e} : G[i] \in Nat
      BY <2>1
    <3>3. SumFunctionOnSet(G, W \cup {e}) = SumFunctionOnSet(G, W) + G[e]
      BY <2>0, <3>2, SumAdd
    <3> QED
      BY <3>1, <3>3
  <2>2. /\ \A i \in W : Rate(new)[i] = Rate(rs)[i] /\ Rate(rs)[i] \in Nat
        /\ Rate(new)[e] \in Nat /\ Rate(new)[e] = r.rate
        /\ \A i \in W : Due(new)[i] = Due(rs)[i] /\ Due(rs)[i] \in Nat
        /\ Due(new)[e] \in Nat /\ Due(new)[e] = r.expected
    BY <1>4, <2>0
  <2>3. /\ SumFunctionOnSet(Rate(new), W \cup {e}) = SumFunctionOnSet(Rate(rs), W) + r.rate
        /\ SumFunctionOnSet(Rate(new), W) = SumFunctionOnSet(Rate(rs), W)
        /\ SumFunctionOnSet(Rate(rs), W) \in Nat
    BY <2>1, <2>2, Zenon
  <2>4. /\ SumFunctionOnSet(Due(new), W \cup {e}) = SumFunctionOnSet(Due(rs), W) + r.expected
        /\ SumFunctionOnSet(Due(new), W) = SumFunctionOnSet(Due(rs), W)
        /\ SumFunctionOnSet(Due(rs), W) \in Nat
    BY <2>1, <2>2, Zenon
  <2> QED
    BY <1>3, <2>3, <2>4 DEF W
<1> QED
  BY <1>7, <1>8, <1>9 DEF Tally, Plus, new, e, V, P, F, Drop, Due, Rate

\* No runs, and any runs.
LEMMA TallyNone ==
  ASSUME NEW rs
  PROVE  Tally(rs, {}) = NoMetrics
<1>1. Cardinality({}) = 0
  BY FS_EmptySet
<1>2. \A F : SumFunctionOnSet(F, {}) = 0
  BY SumEmpty
<1>3. /\ {i \in {} : rs[i].valid} = {}
      /\ {i \in {} : rs[i].passed} = {}
      /\ {i \in {} : ~rs[i].passed} = {}
  OBVIOUS
<1> QED
  BY <1>1, <1>2, <1>3 DEF Tally, NoMetrics

LEMMA TallyType ==
  ASSUME NEW rs \in Seq(Results), NEW J \in SUBSET DOMAIN rs
  PROVE  /\ Tally(rs, J) \in Metrics
         /\ J # {} => Tally(rs, J).count > 0
         /\ Tally(rs, J).count = 0 => Tally(rs, J).drop = 0
         /\ Tally(rs, J).expected = 0 => Tally(rs, J).achieved = 0
<1> DEFINE V == {i \in J : rs[i].valid}
           P == {i \in J : rs[i].passed}
           F == {i \in J : ~rs[i].passed}
           Drop == [i \in DOMAIN rs |-> rs[i].drop]
           Due == [i \in DOMAIN rs |-> rs[i].expected]
           Rate == [i \in DOMAIN rs |-> rs[i].rate]
<1>1. V \in SUBSET J /\ P \in SUBSET J /\ F \in SUBSET J
  OBVIOUS
<1>2. \A i \in J : Drop[i] \in Nat /\ Due[i] \in Nat \ {0} /\ Rate[i] \in Nat
  <2>1. \A i \in J : i \in DOMAIN rs /\ rs[i] \in Results
    BY Appended
  <2> QED
    BY <2>1 DEF Results
<1>3. Tally(rs, J) = [count |-> Cardinality(J), pass |-> Cardinality(P), fail |-> Cardinality(F),
                      expected |-> SumFunctionOnSet(Due, V),
                      drop |-> SumFunctionOnSet(Drop, J),
                      achieved |-> SumFunctionOnSet(Rate, V)]
  BY DEF Tally
<1> HIDE DEF V, P, F, Drop, Due, Rate
<1>4. /\ IsFiniteSet(J) /\ Cardinality(J) \in Nat
      /\ IsFiniteSet(V) /\ Cardinality(V) \in Nat
      /\ IsFiniteSet(P) /\ Cardinality(P) \in Nat
      /\ IsFiniteSet(F) /\ Cardinality(F) \in Nat
  BY <1>1, Runs
<1>5. /\ SumFunctionOnSet(Drop, J) \in Nat
      /\ SumFunctionOnSet(Due, V) \in Nat
      /\ SumFunctionOnSet(Rate, V) \in Nat
  BY <1>1, <1>2, <1>4, SumType
<1>6. Cardinality(J) = 0 <=> J = {}
  BY <1>4, FS_EmptySet
<1>7. /\ J = {} => SumFunctionOnSet(Drop, J) = 0
      /\ V = {} => SumFunctionOnSet(Rate, V) = 0
  BY SumEmpty
<1>8. SumFunctionOnSet(Due, V) = 0 => V = {}
  BY <1>1, <1>2, <1>4, SumPositive
<1> QED
  BY <1>3, <1>4, <1>5, <1>6, <1>7, <1>8 DEF Metrics
-------------------------------------------------------------------------------
(* The judgement of a run *)

LEMMA AverageRateType ==
  ASSUME TypeOK
  PROVE  /\ AverageRate \in Nat
         /\ out.intervals = 0 => AverageRate = 0
         /\ HasValidStats \in BOOLEAN
         /\ ~HasValidStats => AverageRate = 0
<1>1. out.intervals \in Nat /\ out.average \in Nat /\ out.produced \in Nat
  BY DEF TypeOK, Output
<1> QED
  BY <1>1 DEF AverageRate, HasValidStats

LEMMA ExpectedRateType ==
  ASSUME TypeOK, current <= Len(Tests)
  PROVE  ExpectedRate \in Nat \ {0}
<1>1. current \in 1 .. Len(Tests)
  BY TestList DEF TypeOK
<1>2. Tests[current] \in Range(SuiteTests) \cup Range(ComparisonTests)
  BY <1>1, Lists DEF Tests, Range
<1> QED
  BY <1>2, HarnessAssumption DEF ExpectedRate

LEMMA ResultIs ==
  ASSUME TypeOK, current <= Len(Tests), NEW passed \in BOOLEAN
  PROVE  /\ Result(passed) \in Results
         /\ Result(passed).test = current
         /\ Result(passed).passed = passed
         /\ Result(passed).valid = HasValidStats
         /\ Result(passed).lines = out.intervals
         /\ Result(passed).expected = ExpectedRate
         /\ Result(passed).rate = AverageRate
         /\ Result(passed).shutdown = out.shutdown
         /\ Result(passed).drop = out.drop
<1>1. /\ out.intervals \in Nat /\ out.shutdown \in Nat /\ out.drop \in Nat
      /\ current \in Nat
  BY TestList DEF TypeOK, Output
<1> QED
  BY <1>1, AverageRateType, ExpectedRateType DEF Result, Results

\* A run that passes ran at a rate that lies within the tolerance, hence not at 0.
LEMMA PassIsEarned ==
  ASSUME TypeOK, current <= Len(Tests), AllValid
  PROVE  out.intervals > 0 /\ out.shutdown <= MaxShutdownTime
<1> DEFINE e == ExpectedRate
           t == RateTolerance
<1>1. 100 * (AverageRate - e) \in (-t * e) .. (t * e)
  BY DEF AllValid, RateValid
<1>2. e \in Nat \ {0} /\ t \in 0 .. 99 /\ AverageRate \in Nat
  BY AverageRateType, ExpectedRateType, Constants
<1> HIDE DEF e, t
<1>3. -t * e > -(100 * e)
  BY <1>2, SMTT(30)
<1>4. AverageRate # 0
  BY <1>1, <1>2, <1>3
<1>5. out.intervals \in Nat
  BY DEF TypeOK, Output
<1> QED
  BY <1>4, <1>5, AverageRateType DEF AllValid

LEMMA SumOfTwo ==
  ASSUME NEW a \in Nat, NEW b \in Nat
  PROVE  a + b \in Nat
OBVIOUS

\* The counters take what the result says.
LEMMA UpdatedIsPlus ==
  ASSUME TypeOK, current <= Len(Tests), NEW sm \in Metrics
  PROVE  /\ Updated(sm) = Plus(sm, Result(ComparisonPassed))
         /\ UpdatedCell(sm) = Updated(sm)
         /\ Updated(sm) \in Metrics
<1>1. ComparisonPassed \in BOOLEAN
  BY AverageRateType DEF ComparisonPassed, AllValid, RateValid
<1> DEFINE r == Result(ComparisonPassed)
<1>2. /\ r \in Results /\ r.passed = ComparisonPassed /\ r.valid = HasValidStats
      /\ r.drop = out.drop /\ r.expected = ExpectedRate /\ r.rate = AverageRate
  BY <1>1, ResultIs
<1> HIDE DEF r
<1>3. AverageRate = IF HasValidStats THEN r.rate ELSE 0
  BY <1>2, AverageRateType
<1>4. Updated(sm) = Plus(sm, r)
  BY <1>2, <1>3 DEF Updated, Plus
<1>5. /\ sm.count \in Nat /\ sm.pass \in Nat /\ sm.fail \in Nat /\ sm.expected \in Nat
      /\ sm.drop \in Nat /\ sm.achieved \in Nat
      /\ out.drop \in Nat /\ AverageRate \in Nat /\ ExpectedRate \in Nat
  BY AverageRateType, ExpectedRateType DEF Metrics, TypeOK, Output
<1>6. Updated(sm) \in Metrics
  <2> DEFINE p == IF ComparisonPassed THEN 1 ELSE 0
             f == IF ComparisonPassed THEN 0 ELSE 1
             d == IF HasValidStats THEN ExpectedRate ELSE 0
             g == IF HasValidStats THEN AverageRate ELSE 0
  <2>1. p \in Nat /\ f \in Nat /\ d \in Nat /\ g \in Nat
    BY <1>5
  <2>2. Updated(sm) = [count |-> sm.count + 1, pass |-> sm.pass + p, fail |-> sm.fail + f,
                       expected |-> sm.expected + d, drop |-> sm.drop + out.drop,
                       achieved |-> sm.achieved + g]
    BY DEF Updated
  <2> HIDE DEF p, f, d, g
  <2>3. /\ sm.count + 1 \in Nat /\ sm.pass + p \in Nat /\ sm.fail + f \in Nat
        /\ sm.expected + d \in Nat /\ sm.drop + out.drop \in Nat /\ sm.achieved + g \in Nat
    BY <1>5, <2>1, SumOfTwo, Zenon
  <2> QED
    BY <2>2, <2>3 DEF Metrics
<1> QED
  BY <1>4, <1>6 DEF r, UpdatedCell

-------------------------------------------------------------------------------
(* The tables *)

\* What BestIsBest says, of the tables instead of the results.
BestInTables ==
    LET best == report.throughput
        low == report.lowDrop
    IN  (mode = "comparison" /\ pc = "done") =>
            /\ IF best = "" THEN \A s \in Strategies : byStrategy[s].achieved = 0
               ELSE /\ best \in Strategies /\ byStrategy[best].expected > 0
                    /\ \A s \in Strategies :
                           byStrategy[s].achieved * byStrategy[best].expected
                               <= byStrategy[best].achieved * byStrategy[s].expected
            /\ IF low = "" THEN \A s \in Strategies : byStrategy[s].drop >= byStrategy[s].count
               ELSE /\ low \in Strategies /\ byStrategy[low].drop < byStrategy[low].count
                    /\ \A s \in Strategies :
                           byStrategy[low].drop * byStrategy[s].count
                               <= byStrategy[s].drop * byStrategy[low].count

LEMMA BestOfBoth == TablesAgree => (BestIsBest <=> BestInTables)
<1> SUFFICES ASSUME TablesAgree PROVE BestIsBest <=> BestInTables
  OBVIOUS
<1>1. mode = "comparison" => \A s \in Strategies : Tally(results, WithStrategy(s)) = byStrategy[s]
  BY DEF TablesAgree
<1>2. CASE mode = "comparison"
  BY <1>1, <1>2, Zenon DEF BestIsBest, BestInTables
<1>3. CASE mode # "comparison"
  BY <1>3 DEF BestIsBest, BestInTables
<1> QED
  BY <1>2, <1>3

\* Steps that record nothing; the last one may still report.
LEMMA NothingRecorded ==
  ASSUME Inv, UNCHANGED <<mode, results, suite, byStrategy, byProcs, matrix>>
  PROVE  /\ PassesAreEarned' /\ TablesAgree'
         /\ report' = report /\ (pc' = "done" => pc = "done") => BestIsBest'
<1>1. /\ mode' = mode /\ results' = results /\ suite' = suite /\ byStrategy' = byStrategy
      /\ byProcs' = byProcs /\ matrix' = matrix
  OBVIOUS
<1>2. PassesAreEarned'
  BY <1>1 DEF Inv, PassesAreEarned
<1>3. Tests' = Tests
  BY <1>1 DEF Tests
<1>4. (\A s : WithStrategy(s)' = WithStrategy(s)) /\ (\A p : WithProcs(p)' = WithProcs(p))
  BY <1>1, <1>3 DEF WithStrategy, WithProcs
<1>5. TablesAgree'
  BY <1>1, <1>4, Zenon DEF Inv, TablesAgree
<1>6. ASSUME report' = report, pc' = "done" => pc = "done" PROVE BestIsBest'
  BY <1>1, <1>4, <1>6, Zenon DEF Inv, BestIsBest
<1> QED
  BY <1>2, <1>5, <1>6

\* A step that leaves the lists and tables alone keeps their types.
LEMMA TallyTypesStay ==
  ASSUME TypeOK, UNCHANGED <<mode, results, suite, byStrategy, byProcs, matrix>>
  PROVE  /\ mode' \in Modes /\ results' \in Seq(Results)
         /\ suite' \in [total : Nat, passed : Nat, failed : Nat]
         /\ byStrategy' \in [Strategies -> Metrics]
         /\ byProcs' \in [Procs -> Metrics]
         /\ matrix' \in [Strategies -> [Procs -> Metrics]]
         /\ Tests' = Tests
BY DEF TypeOK, Tests
-------------------------------------------------------------------------------
(* The initial state, and the steps of the child and of the executor *)

LEMMA InitInv == Init => Inv
<1> SUFFICES ASSUME Init PROVE Inv
  OBVIOUS
<1>1. results = <<>> /\ DOMAIN results = {} /\ results \in Seq(Results) /\ Len(results) = 0
  BY DEF Init
<1>2. NoMetrics \in Metrics /\ Silent \in Output
  BY DEF NoMetrics, Metrics, Silent, Output
<1>3. current \in 1 .. Len(Tests) + 1
  BY TestList DEF Init
<1>4. TypeOK
  BY <1>1, <1>2, <1>3 DEF Init, TypeOK
<1>5. ChildOK /\ OneResultEach /\ PassesAreEarned /\ BestIsBest
  BY <1>1 DEF Init, ChildOK, OneResultEach, PassesAreEarned, BestIsBest
<1>6. TablesAgree
  <2>1. \A s \in Strategies, p \in Procs : WithStrategy(s) = {} /\ WithStrategy(s) \cap WithProcs(p) = {}
    BY <1>1 DEF WithStrategy
  <2>2. \A s \in Strategies : WithStrategy(s) = {}
    BY <1>1 DEF WithStrategy
  <2>3. \A p \in Procs : WithProcs(p) = {}
    BY <1>1 DEF WithProcs
  <2>4. Tally(results, {}) = NoMetrics
    BY TallyNone
  <2>5. /\ \A s \in Strategies : byStrategy[s] = NoMetrics
        /\ \A p \in Procs : byProcs[p] = NoMetrics
        /\ \A s \in Strategies, p \in Procs : matrix[s][p] = NoMetrics
        /\ suite = [total |-> 0, passed |-> 0, failed |-> 0]
    BY DEF Init
  <2>6. NoMetrics.count = 0 /\ NoMetrics.pass = 0 /\ NoMetrics.fail = 0
    BY DEF NoMetrics
  <2> QED
    BY <1>1, <2>1, <2>2, <2>3, <2>4, <2>5, <2>6, Zenon DEF TablesAgree
<1> QED
  BY <1>4, <1>5, <1>6 DEF Inv

LEMMA PrintsStatsInv ==
  ASSUME Inv, NEW rate \in Rates, ChildPrintsStats(rate)
  PROVE  Inv'
<1> USE DEF Inv
<1>1. PassesAreEarned' /\ TablesAgree' /\ BestIsBest'
  BY NothingRecorded DEF tallies, ChildPrintsStats
<1>2. out' \in Output /\ out'.shutdown = out.shutdown
  <2>1. out \in Output /\ rate \in Nat
    BY Constants DEF TypeOK
  <2>2. out.intervals + 1 \in Nat
    BY <2>1 DEF Output
  <2>3. out' = [out EXCEPT !.intervals = out.intervals + 1, !.average = rate]
    BY DEF ChildPrintsStats
  <2> QED
    BY <2>1, <2>2, <2>3 DEF Output
<1>3. TypeOK'
  BY <1>2, TallyTypesStay DEF ChildPrintsStats, tallies, TypeOK
<1>4. ChildOK' /\ OneResultEach'
  BY TallyTypesStay DEF ChildPrintsStats, ChildOK, OneResultEach, tallies
<1> QED
  BY <1>1, <1>3, <1>4

LEMMA ShutsDownInv ==
  ASSUME Inv, NEW time \in ShutdownTimes, ChildShutsDown(time)
  PROVE  Inv'
<1> USE DEF Inv
<1>1. PassesAreEarned' /\ TablesAgree' /\ BestIsBest'
  BY NothingRecorded DEF tallies, ChildShutsDown
<1>2. out' \in Output /\ out'.shutdown \in ShutdownTimes
  <2>1. out \in Output /\ time \in Nat
    BY Constants DEF TypeOK
  <2> QED
    BY <2>1 DEF ChildShutsDown, Output
<1>3. TypeOK'
  BY <1>2, TallyTypesStay DEF ChildShutsDown, tallies, TypeOK
<1>4. ChildOK' /\ OneResultEach'
  BY <1>2, TallyTypesStay DEF ChildShutsDown, ChildOK, OneResultEach, tallies
<1> QED
  BY <1>1, <1>3, <1>4

LEMMA SumsUpInv ==
  ASSUME Inv, NEW produced \in {0, 1}, ChildSumsUp(produced)
  PROVE  Inv'
<1> USE DEF Inv
<1>1. PassesAreEarned' /\ TablesAgree' /\ BestIsBest'
  BY NothingRecorded DEF tallies, ChildSumsUp
<1>2. out' \in Output /\ out'.shutdown \in ShutdownTimes
  <2>1. PICK drop \in DropsOf(produced) :
            out' = [out EXCEPT !.produced = produced, !.drop = drop]
    BY DEF ChildSumsUp
  <2>2. out \in Output /\ drop \in Nat /\ produced \in Nat
    BY Constants DEF TypeOK, DropsOf
  <2>3. out.shutdown \in ShutdownTimes
    BY DEF ChildSumsUp, ChildOK
  <2> QED
    BY <2>1, <2>2, <2>3 DEF Output
<1>3. TypeOK'
  BY <1>2, TallyTypesStay DEF ChildSumsUp, tallies, TypeOK
<1>4. ChildOK' /\ OneResultEach'
  BY <1>2, TallyTypesStay DEF ChildSumsUp, ChildOK, OneResultEach, tallies
<1> QED
  BY <1>1, <1>3, <1>4

\* The child finishes, dies or is killed.
LEMMA EndsInv ==
  ASSUME Inv, NEW code \in {-1, 0, 2}, code = 0 => phase = "summed", ChildEnds(code)
  PROVE  Inv'
<1> USE DEF Inv
<1>1. PassesAreEarned' /\ TablesAgree' /\ BestIsBest'
  BY NothingRecorded DEF tallies, ChildEnds
<1>2. TypeOK'
  BY TallyTypesStay DEF ChildEnds, tallies, TypeOK
<1>3. ChildOK' /\ OneResultEach'
  BY TallyTypesStay DEF ChildEnds, ChildOK, OneResultEach, tallies
<1> QED
  BY <1>1, <1>2, <1>3

LEMMA StartsInv ==
  ASSUME Inv, StartChild \/ FailToStart
  PROVE  Inv'
<1> USE DEF Inv
<1>1. /\ UNCHANGED <<mode, results, tallies>> /\ current' = current /\ ctxDone' = ctxDone
      /\ pc' \in {"child", "over"} /\ (pc' = "over" => exit' = -1)
      /\ exit' \in {-1, exit} /\ out' = out /\ phase' = phase /\ current <= Len(Tests)
  BY DEF StartChild, FailToStart, MoreTests, childVars
<1>2. PassesAreEarned' /\ TablesAgree' /\ BestIsBest'
  BY <1>1, NothingRecorded DEF tallies
<1>3. TypeOK'
  BY <1>1, TallyTypesStay DEF tallies, TypeOK
<1>4. ChildOK' /\ OneResultEach'
  BY <1>1, TallyTypesStay DEF ChildOK, OneResultEach, tallies
<1> QED
  BY <1>2, <1>3, <1>4

\* The caller cancels, the suite is over, or nothing happens.
LEMMA QuietInv ==
  ASSUME Inv, Cancel \/ FinishSuite \/ UNCHANGED vars
  PROVE  Inv'
<1> USE DEF Inv
<1>1. /\ UNCHANGED <<mode, results, suite, byStrategy, byProcs, matrix>>
      /\ report' = report /\ current' = current /\ out' = out /\ phase' = phase /\ exit' = exit
      /\ ctxDone' \in BOOLEAN
      /\ pc' = pc \/ (mode = "suite" /\ pc' = "done" /\ ~MoreTests)
  BY DEF Cancel, FinishSuite, vars, childVars, tallies, TypeOK
<1>2. PassesAreEarned' /\ TablesAgree' /\ BestIsBest'
  <2>1. CASE pc' = pc
    BY <1>1, <2>1, NothingRecorded
  <2>2. CASE mode = "suite" /\ pc' = "done"
    <3>1. BestIsBest'
      BY <1>1, <2>2 DEF BestIsBest
    <3>2. PassesAreEarned' /\ TablesAgree'
      BY <1>1, NothingRecorded
    <3> QED
      BY <3>1, <3>2
  <2> QED
    BY <1>1, <2>1, <2>2
<1>3. TypeOK'
  BY <1>1, TallyTypesStay DEF TypeOK
<1>4. ChildOK' /\ OneResultEach'
  <2>1. TypeOK /\ Len(Tests) \in Nat
    BY TestList
  <2> QED
    BY <1>1, <2>1, TallyTypesStay DEF ChildOK, OneResultEach, MoreTests, TypeOK
<1> QED
  BY <1>2, <1>3, <1>4
-------------------------------------------------------------------------------
(* A run is recorded *)

\* What both loops do with a result.
LEMMA Recorded ==
  ASSUME Inv, NEW r \in Results, r.test = current, pc = "over", mode' = mode,
         r.passed => r.lines > 0 /\ (mode = "suite" => r.shutdown \in 1 .. MaxShutdownTime),
         results' = Append(results, r), NextTest
  PROVE  ChildOK' /\ OneResultEach' /\ PassesAreEarned' /\ BestIsBest'
<1> USE DEF Inv
<1>1. /\ current \in 1 .. Len(Tests) /\ Len(Tests) \in Nat /\ Len(results) = current - 1
      /\ Tests' = Tests /\ mode \in Modes /\ results \in Seq(Results)
  BY TestList DEF OneResultEach, TypeOK, Tests
<1>2. /\ DOMAIN results' = DOMAIN results \cup {current}
      /\ \A i \in DOMAIN results : results'[i] = results[i]
      /\ results'[current] = r /\ Len(results') = current
  <2>1. Len(results) + 1 = current
    BY <1>1
  <2> QED
    BY <1>1, <2>1, Appended
<1>3. ChildOK' /\ BestIsBest'
  BY DEF NextTest, Silent, ChildOK, BestIsBest
<1>4. OneResultEach'
  <2>1. Len(results') = current' - 1 /\ pc' = "next"
    BY <1>1, <1>2 DEF NextTest
  <2>2. \A i \in DOMAIN results' : results'[i].test = i
    BY <1>2 DEF OneResultEach
  <2> QED
    BY <2>1, <2>2 DEF OneResultEach
<1>5. PassesAreEarned'
  BY <1>2 DEF PassesAreEarned
<1> QED
  BY <1>3, <1>4, <1>5

\* The types that do not depend on the loop.
LEMMA NextTestTypes ==
  ASSUME Inv, NEW r \in Results, pc = "over", mode' = mode,
         results' = Append(results, r), NextTest
  PROVE  /\ mode' \in Modes /\ current' \in 1 .. Len(Tests)' + 1 /\ pc' = "next"
         /\ ctxDone' \in BOOLEAN /\ out' \in Output
         /\ phase' \in {"running", "ended", "summed"} /\ exit' \in {-1, 0, 2}
         /\ results' \in Seq(Results)
<1>1. Len(Tests)' = Len(Tests) /\ Len(Tests) \in Nat
  BY TestList DEF Tests
<1>2. Silent \in Output
  BY DEF Silent, Output
<1> QED
  BY <1>1, <1>2 DEF Inv, TypeOK, OneResultEach, NextTest

LEMMA RecordInSuiteInv ==
  ASSUME Inv, RecordInSuite
  PROVE  Inv'
<1> DEFINE r == Result(SuitePassed)
<1> USE DEF Inv
<1>1. /\ mode = "suite" /\ mode' = mode /\ pc = "over" /\ NextTest
      /\ results' = Append(results, r)
      /\ suite' = [total |-> suite.total + 1,
                   passed |-> suite.passed + (IF SuitePassed THEN 1 ELSE 0),
                   failed |-> suite.failed + (IF SuitePassed THEN 0 ELSE 1)]
      /\ byStrategy' = byStrategy /\ byProcs' = byProcs /\ matrix' = matrix
  BY DEF RecordInSuite, NextTest
<1>0. current <= Len(Tests)
  BY <1>1 DEF OneResultEach
<1>2. SuitePassed \in BOOLEAN
  BY AverageRateType DEF SuitePassed, AllValid, RateValid
<1>3. /\ r \in Results /\ r.test = current /\ r.passed = SuitePassed
      /\ r.lines = out.intervals /\ r.shutdown = out.shutdown
  BY <1>2, <1>0, ResultIs
<1>4. r.passed => r.lines > 0 /\ r.shutdown \in 1 .. MaxShutdownTime
  <2> SUFFICES ASSUME SuitePassed
               PROVE  out.intervals > 0 /\ out.shutdown \in 1 .. MaxShutdownTime
    BY <1>3
  <2>1. out.intervals > 0 /\ out.shutdown <= MaxShutdownTime
    BY <1>0, PassIsEarned DEF SuitePassed
  <2>2. out.shutdown \in Nat \ {0} /\ MaxShutdownTime \in Nat
    BY <1>1, Constants DEF SuitePassed, ChildOK
  <2> QED
    BY <2>1, <2>2
<1> HIDE DEF r
<1>5. ChildOK' /\ OneResultEach' /\ PassesAreEarned' /\ BestIsBest'
  BY <1>1, <1>3, <1>4, Recorded
<1>6. /\ suite.total \in Nat /\ suite.passed \in Nat /\ suite.failed \in Nat
      /\ results \in Seq(Results)
  BY DEF TypeOK
<1>7. TypeOK'
  <2>1. suite' \in [total : Nat, passed : Nat, failed : Nat]
    BY <1>1, <1>6
  <2>2. /\ byStrategy' \in [Strategies -> Metrics] /\ byProcs' \in [Procs -> Metrics]
        /\ matrix' \in [Strategies -> [Procs -> Metrics]]
    BY <1>1 DEF TypeOK
  <2> QED
    BY <1>1, <1>3, <2>1, <2>2, NextTestTypes DEF TypeOK
<1>8. TablesAgree'
  <2> DEFINE all == Tally(results, DOMAIN results)
  <2>1. Tally(results, DOMAIN results)' = Plus(all, r)
    <3>1. DOMAIN results' = DOMAIN results \cup {Len(results) + 1}
      BY <1>1, <1>3, <1>6, Appended
    <3>2. DOMAIN results \in SUBSET DOMAIN results
      OBVIOUS
    <3> QED
      BY <1>1, <1>3, <1>6, <3>1, <3>2, TallyPlus
  <2>2. suite = [total |-> all.count, passed |-> all.pass, failed |-> all.fail]
    BY <1>1 DEF TablesAgree
  <2> HIDE DEF all
  <2>3. suite' = [total |-> Plus(all, r).count, passed |-> Plus(all, r).pass,
                  failed |-> Plus(all, r).fail]
    BY <1>1, <1>3, <2>2 DEF Plus
  <2> QED
    BY <1>1, <2>1, <2>3 DEF TablesAgree
<1> QED
  BY <1>5, <1>7, <1>8

\* The new run joins the runs of its strategy and of its GOMAXPROCS.
LEMMA NewKinds ==
  ASSUME Inv, NEW r \in Results, r.test = current, mode' = mode, results' = Append(results, r)
  PROVE  LET new == Len(results) + 1
         IN  /\ \A s : WithStrategy(s)' = IF Tests[current].strategy = s
                                         THEN WithStrategy(s) \cup {new} ELSE WithStrategy(s)
             /\ \A p : WithProcs(p)' = IF Tests[current].procs = p
                                      THEN WithProcs(p) \cup {new} ELSE WithProcs(p)
             /\ \A s : WithStrategy(s) \in SUBSET DOMAIN results /\ new \notin WithStrategy(s)
             /\ \A p : WithProcs(p) \in SUBSET DOMAIN results /\ new \notin WithProcs(p)
<1> DEFINE new == Len(results) + 1
<1>1. results \in Seq(Results) /\ Tests' = Tests
  BY DEF Inv, TypeOK, Tests
<1>2. /\ DOMAIN results' = DOMAIN results \cup {new} /\ new \notin DOMAIN results
      /\ \A i \in DOMAIN results : results'[i] = results[i]
      /\ results'[new] = r
  BY <1>1, Appended
<1> HIDE DEF new
<1>3. /\ \A s : WithStrategy(s) \in SUBSET DOMAIN results /\ new \notin WithStrategy(s)
      /\ \A p : WithProcs(p) \in SUBSET DOMAIN results /\ new \notin WithProcs(p)
  BY <1>2 DEF WithStrategy, WithProcs
<1>4. ASSUME NEW s
      PROVE  WithStrategy(s)' = IF Tests[current].strategy = s
                                THEN WithStrategy(s) \cup {new} ELSE WithStrategy(s)
  BY <1>1, <1>2 DEF WithStrategy
<1>5. ASSUME NEW p
      PROVE  WithProcs(p)' = IF Tests[current].procs = p
                             THEN WithProcs(p) \cup {new} ELSE WithProcs(p)
  BY <1>1, <1>2 DEF WithProcs
<1> QED
  BY <1>3, <1>4, <1>5, Zenon DEF new

LEMMA RecordInComparisonInv ==
  ASSUME Inv, RecordInComparison
  PROVE  Inv'
<1> DEFINE r == Result(ComparisonPassed)
           s0 == Tests[current].strategy
           p0 == Tests[current].procs
           new == Len(results) + 1
<1> USE DEF Inv
<1>1. /\ mode = "comparison" /\ mode' = mode /\ pc = "over" /\ NextTest
      /\ results' = Append(results, r)
      /\ byStrategy' = [byStrategy EXCEPT ![s0] = Updated(@)]
      /\ byProcs' = [byProcs EXCEPT ![p0] = Updated(@)]
      /\ matrix' = [matrix EXCEPT ![s0][p0] = UpdatedCell(@)]
      /\ suite' = suite
  BY DEF RecordInComparison, NextTest
<1>0. current <= Len(Tests)
  BY <1>1 DEF OneResultEach
<1>2. ComparisonPassed \in BOOLEAN
  BY AverageRateType DEF ComparisonPassed, AllValid, RateValid
<1>3. /\ r \in Results /\ r.test = current /\ r.passed = ComparisonPassed
      /\ r.lines = out.intervals
  BY <1>0, <1>2, ResultIs
<1>4. r.passed => r.lines > 0
  BY <1>0, <1>3, PassIsEarned DEF ComparisonPassed
<1>5. s0 \in Strategies /\ p0 \in Procs
  <2>1. current \in 1 .. Len(Tests)
    BY <1>1, TestList DEF OneResultEach, TypeOK
  <2> QED
    BY <1>1, <2>1, Kinds
<1>6. \A sm \in Metrics : /\ Updated(sm) = Plus(sm, r) /\ UpdatedCell(sm) = Updated(sm)
                          /\ Updated(sm) \in Metrics
  BY <1>0, UpdatedIsPlus
<1> HIDE DEF r, s0, p0, new
<1>7. ChildOK' /\ OneResultEach' /\ PassesAreEarned' /\ BestIsBest'
  BY <1>1, <1>3, <1>4, Recorded
<1>8. /\ byStrategy \in [Strategies -> Metrics] /\ byProcs \in [Procs -> Metrics]
      /\ matrix \in [Strategies -> [Procs -> Metrics]] /\ results \in Seq(Results)
  BY DEF TypeOK
<1>9. TypeOK'
  <2>1. /\ byStrategy' \in [Strategies -> Metrics] /\ byProcs' \in [Procs -> Metrics]
    BY <1>1, <1>5, <1>6, <1>8
  <2>2. matrix' \in [Strategies -> [Procs -> Metrics]]
    <3>1. UpdatedCell(matrix[s0][p0]) \in Metrics
      BY <1>5, <1>6, <1>8
    <3> QED
      BY <1>1, <1>8, <3>1
  <2>3. suite' \in [total : Nat, passed : Nat, failed : Nat]
    BY <1>1 DEF TypeOK
  <2> QED
    BY <1>1, <1>3, <2>1, <2>2, <2>3, NextTestTypes DEF TypeOK
<1>10. TablesAgree'
  <2> DEFINE S(s) == WithStrategy(s)
             P(p) == WithProcs(p)
  <2>1. /\ \A s : S(s)' = IF s0 = s THEN S(s) \cup {new} ELSE S(s)
        /\ \A p : P(p)' = IF p0 = p THEN P(p) \cup {new} ELSE P(p)
        /\ \A s : S(s) \in SUBSET DOMAIN results /\ new \notin S(s)
        /\ \A p : P(p) \in SUBSET DOMAIN results /\ new \notin P(p)
    BY <1>1, <1>3, NewKinds DEF s0, p0, new
  <2>2. \A J \in SUBSET DOMAIN results :
            /\ Tally(results', J) = Tally(results, J)
            /\ Tally(results', J \cup {new}) = Plus(Tally(results, J), r)
    BY <1>1, <1>3, <1>8, TallySame, TallyPlus DEF new
  <2>3. /\ \A s \in Strategies : byStrategy[s] = Tally(results, S(s))
        /\ \A p \in Procs : byProcs[p] = Tally(results, P(p))
        /\ \A s \in Strategies, p \in Procs : matrix[s][p] = Tally(results, S(s) \cap P(p))
    BY <1>1, Zenon DEF TablesAgree
  <2> HIDE DEF S, P
  <2>4. ASSUME NEW s \in Strategies PROVE byStrategy'[s] = Tally(results', S(s)')
    <3>1. byStrategy[s] \in Metrics
      BY <1>8
    <3>2. byStrategy'[s] = IF s0 = s THEN Plus(byStrategy[s], r) ELSE byStrategy[s]
      BY <1>1, <1>6, <1>8, <3>1
    <3> QED
      BY <2>1, <2>2, <2>3, <3>2
  <2>5. ASSUME NEW p \in Procs PROVE byProcs'[p] = Tally(results', P(p)')
    <3>1. byProcs[p] \in Metrics
      BY <1>8
    <3>2. byProcs'[p] = IF p0 = p THEN Plus(byProcs[p], r) ELSE byProcs[p]
      BY <1>1, <1>6, <1>8, <3>1
    <3> QED
      BY <2>1, <2>2, <2>3, <3>2
  <2>6. ASSUME NEW s \in Strategies, NEW p \in Procs
        PROVE  matrix'[s][p] = Tally(results', S(s)' \cap P(p)')
    <3> DEFINE J == S(s) \cap P(p)
    <3>1. matrix[s][p] \in Metrics /\ matrix[s] \in [Procs -> Metrics]
      BY <1>8
    <3>2. matrix'[s][p] = IF s0 = s /\ p0 = p THEN Plus(matrix[s][p], r) ELSE matrix[s][p]
      BY <1>1, <1>6, <1>8, <3>1
    <3>3. S(s)' \cap P(p)' = IF s0 = s /\ p0 = p THEN J \cup {new} ELSE J
      BY <2>1
    <3>4. J \in SUBSET DOMAIN results /\ matrix[s][p] = Tally(results, J)
      BY <2>1, <2>3
    <3> HIDE DEF J
    <3> QED
      BY <2>2, <3>2, <3>3, <3>4
  <2> QED
    BY <1>1, <2>4, <2>5, <2>6, Zenon DEF TablesAgree, S, P
<1> QED
  BY <1>7, <1>9, <1>10
-------------------------------------------------------------------------------
(* The report *)

\* At the end of a comparison every strategy has been run.
LEMMA AllStrategiesRun ==
  ASSUME Inv, mode = "comparison", current = Len(Tests) + 1, NEW s \in Strategies
  PROVE  LET sm == byStrategy[s]
         IN  /\ sm = Tally(results, WithStrategy(s))
             /\ sm.count \in Nat \ {0} /\ sm.drop \in Nat /\ sm.expected \in Nat
             /\ sm.achieved \in Nat
             /\ sm.expected = 0 => sm.achieved = 0
<1>1. PICK i \in 1 .. Len(Tests) : Tests[i].strategy = s
  BY TestList DEF Strategies
<1>2. /\ results \in Seq(Results) /\ Len(results) = Len(Tests)
      /\ \A j \in DOMAIN results : results[j].test = j
  BY TestList DEF Inv, TypeOK, OneResultEach
<1>3. i \in DOMAIN results
  BY <1>1, <1>2
<1>4. WithStrategy(s) \in SUBSET DOMAIN results /\ WithStrategy(s) # {}
  BY <1>1, <1>2, <1>3 DEF WithStrategy
<1>5. byStrategy[s] = Tally(results, WithStrategy(s))
  BY Zenon DEF Inv, TablesAgree
<1>6. /\ byStrategy[s] \in Metrics
      /\ byStrategy[s].count > 0
      /\ byStrategy[s].expected = 0 => byStrategy[s].achieved = 0
  BY <1>2, <1>4, <1>5, TallyType
<1> QED
  BY <1>5, <1>6 DEF Metrics

\* Over the tests of a list, one has the greatest ratio of its strategy.
LEMMA GreatestOfAll ==
  ASSUME Strategies # {}, NEW A, NEW D, \A s \in Strategies : A[s] \in Int /\ D[s] \in Nat \ {0}
  PROVE  \E m \in Strategies : \A s \in Strategies : A[s] * D[m] <= A[m] * D[s]
<1> DEFINE n == Len(ComparisonTests)
           S(i) == ComparisonTests[i].strategy
           AA == [i \in 1 .. n |-> A[S(i)]]
           DD == [i \in 1 .. n |-> D[S(i)]]
<1>1. /\ n \in Nat /\ Strategies = {S(i) : i \in 1 .. n}
  BY Lists DEF Strategies
<1>2. n # 0
  BY <1>1
<1>3. AA \in [1 .. n -> Int] /\ DD \in [1 .. n -> Nat \ {0}]
  BY <1>1
<1>4. \A i \in 1 .. n : AA[i] = A[S(i)] /\ DD[i] = D[S(i)]
  OBVIOUS
<1> HIDE DEF n, S, AA, DD
<1>5. PICK m \in 1 .. n : \A i \in 1 .. n : AA[i] * DD[m] <= AA[m] * DD[i]
  BY <1>1, <1>2, <1>3, GreatestRatio
<1>6. S(m) \in Strategies
  BY <1>1
<1>7. ASSUME NEW s \in Strategies PROVE A[s] * D[S(m)] <= A[S(m)] * D[s]
  <2>1. PICK i \in 1 .. n : s = S(i)
    BY <1>1
  <2>2. AA[i] * DD[m] <= AA[m] * DD[i]
    BY <1>5
  <2> QED
    BY <1>4, <2>1, <2>2
<1> QED
  BY <1>6, <1>7

LEMMA ReportsBest ==
  ASSUME Inv, Report
  PROVE  LET best == report'.throughput
             of(s) == byStrategy[s]
         IN  IF best = "" THEN \A s \in Strategies : of(s).achieved = 0
             ELSE /\ best \in Strategies /\ of(best).expected > 0
                  /\ \A s \in Strategies :
                         of(s).achieved * of(best).expected <= of(best).achieved * of(s).expected
<1> DEFINE A == [s \in Strategies |-> byStrategy[s].achieved]
           V == [s \in Strategies |-> byStrategy[s].expected]
           D == [s \in Strategies |-> AtLeastOne(byStrategy[s].expected)]
           best == {s \in Strategies :
                      \A t \in Strategies : ~MoreEfficient(byStrategy[t], byStrategy[s], 0)}
<1>1. /\ mode = "comparison" /\ current = Len(Tests) + 1
      /\ report'.throughput \in OrNone(BestAboveZero(best))
  <2>1. mode = "comparison" /\ ~MoreTests /\ report'.throughput \in OrNone(BestAboveZero(best))
    BY DEF Report
  <2> HIDE DEF best
  <2> QED
    BY <2>1, TestList DEF Inv, TypeOK, MoreTests
<1>2. \A s \in Strategies :
          /\ A[s] = byStrategy[s].achieved /\ V[s] = byStrategy[s].expected
          /\ A[s] \in Nat /\ V[s] \in Nat /\ (V[s] = 0 => A[s] = 0)
          /\ D[s] = IF V[s] = 0 THEN 1 ELSE V[s]
          /\ D[s] \in Nat \ {0}
  BY <1>1, AllStrategiesRun, AtLeastOneIs
<1>3. best = {s \in Strategies : \A t \in Strategies : A[t] * D[s] <= A[s] * D[t]}
  <2>1. ASSUME NEW s \in Strategies, NEW t \in Strategies
        PROVE  ~MoreEfficient(byStrategy[t], byStrategy[s], 0) <=> A[t] * D[s] <= A[s] * D[t]
    <3>1. MoreEfficient(byStrategy[t], byStrategy[s], 0)
              <=> 100 * A[t] * D[s] > (100 * A[s] + 0 * D[s]) * D[t]
      BY DEF MoreEfficient
    <3> HIDE DEF A, D
    <3>2. A[s] \in Nat /\ A[t] \in Nat /\ D[s] \in Nat /\ D[t] \in Nat
      BY <1>2
    <3>3. A[t] * D[s] \in Int /\ A[s] * D[t] \in Int
      BY <3>2
    <3>4. /\ 100 * A[t] * D[s] = 100 * (A[t] * D[s])
          /\ (100 * A[s] + 0 * D[s]) * D[t] = 100 * (A[s] * D[t])
      BY <3>2, SMTT(20)
    <3> QED
      BY <3>1, <3>3, <3>4
  <2> HIDE DEF A, D
  <2> QED
    BY <2>1
<1>4. BestAboveZero(best) = {s \in best : A[s] > 0}
  BY DEF BestAboveZero
<1> HIDE DEF A, V, D, best
<1>5. CASE \E s \in Strategies : A[s] # 0
  <2>1. PICK s \in Strategies : A[s] # 0
    BY <1>5
  <2>2. PICK m \in Strategies : \A t \in Strategies : A[t] * D[m] <= A[m] * D[t]
    BY <1>2, <2>1, GreatestOfAll
  <2>3. A[m] # 0
    <3>1. A[s] \in Nat \ {0} /\ D[m] \in Nat \ {0} /\ D[s] \in Nat
      BY <1>2, <2>1
    <3>2. A[s] * D[m] > 0
      BY <3>1, SMTT(20)
    <3>3. A[s] * D[m] <= A[m] * D[s]
      BY <2>2
    <3>4. A[m] = 0 => A[m] * D[s] = 0
      BY <3>1
    <3>5. A[s] * D[m] \in Nat
      BY <3>1
    <3> QED
      BY <3>2, <3>3, <3>4, <3>5
  <2>4. m \in BestAboveZero(best)
    BY <1>2, <1>3, <1>4, <2>2, <2>3
  <2> DEFINE b == report'.throughput
  <2>5. b \in BestAboveZero(best)
    BY <1>1, <2>4 DEF OrNone
  <2> HIDE DEF b
  <2>6. /\ b \in Strategies /\ A[b] > 0
        /\ \A t \in Strategies : A[t] * D[b] <= A[b] * D[t]
    BY <1>3, <1>4, <2>5
  <2>7. b # ""
    BY <2>6, Lists DEF Strategies
  <2>8. V[b] \in Nat /\ V[b] > 0 /\ D[b] = V[b] /\ A[b] \in Nat
    BY <1>2, <2>6
  <2>9. ASSUME NEW t \in Strategies PROVE A[t] * V[b] <= A[b] * V[t]
    <3>1. CASE V[t] = 0
      <4>1. A[t] = 0 /\ A[t] * V[b] = 0 /\ A[b] * V[t] = 0
        BY <1>2, <2>8, <3>1
      <4> QED
        BY <4>1
    <3>2. CASE V[t] # 0
      <4>1. D[t] = V[t]
        BY <1>2, <3>2
      <4> QED
        BY <2>6, <2>8, <4>1
    <3> QED
      BY <3>1, <3>2
  <2> QED
    BY <1>2, <2>6, <2>7, <2>8, <2>9 DEF b
<1>6. CASE \A s \in Strategies : A[s] = 0
  <2>1. BestAboveZero(best) = {}
    BY <1>3, <1>4, <1>6
  <2>2. report'.throughput = ""
    BY <1>1, <2>1 DEF OrNone
  <2> QED
    BY <1>2, <1>6, <2>2
<1> QED
  BY <1>5, <1>6

LEMMA ReportsLeastDrops ==
  ASSUME Inv, Report
  PROVE  LET low == report'.lowDrop
             of(s) == byStrategy[s]
         IN  IF low = "" THEN \A s \in Strategies : of(s).drop >= of(s).count
             ELSE /\ low \in Strategies /\ of(low).drop < of(low).count
                  /\ \A s \in Strategies : of(low).drop * of(s).count <= of(s).drop * of(low).count
<1> DEFINE A == [s \in Strategies |-> byStrategy[s].drop]
           D == [s \in Strategies |-> byStrategy[s].count]
           low == {s \in Strategies :
                     /\ \A t \in Strategies : ~DropsLess(byStrategy[t], byStrategy[s])
                     /\ DropsBelow(byStrategy[s], 1000)}
<1>1. /\ mode = "comparison" /\ current = Len(Tests) + 1
      /\ report'.lowDrop \in OrNone(low)
  <2>1. mode = "comparison" /\ ~MoreTests /\ report'.lowDrop \in OrNone(low)
    BY DEF Report
  <2> HIDE DEF low
  <2> QED
    BY <2>1, TestList DEF Inv, TypeOK, MoreTests
<1>2. \A s \in Strategies :
          /\ A[s] = byStrategy[s].drop /\ D[s] = byStrategy[s].count
          /\ A[s] \in Nat /\ D[s] \in Nat \ {0}
          /\ AtLeastOne(byStrategy[s].count) = D[s]
  BY <1>1, AllStrategiesRun, AtLeastOneIs
<1>3. low = {s \in Strategies : /\ \A t \in Strategies : A[s] * D[t] <= A[t] * D[s]
                                /\ A[s] < D[s]}
  <2>1. ASSUME NEW s \in Strategies, NEW t \in Strategies
        PROVE  ~DropsLess(byStrategy[t], byStrategy[s]) <=> A[s] * D[t] <= A[t] * D[s]
    <3>1. DropsLess(byStrategy[t], byStrategy[s]) <=> A[t] * D[s] < A[s] * D[t]
      BY <1>2 DEF DropsLess
    <3> HIDE DEF A, D
    <3>2. A[s] * D[t] \in Int /\ A[t] * D[s] \in Int
      BY <1>2
    <3> QED
      BY <3>1, <3>2
  <2>2. ASSUME NEW s \in Strategies PROVE DropsBelow(byStrategy[s], 1000) <=> A[s] < D[s]
    <3>1. DropsBelow(byStrategy[s], 1000) <=> 1000 * A[s] < 1000 * D[s]
      BY <1>2 DEF DropsBelow
    <3> HIDE DEF A, D
    <3> QED
      BY <1>2, <3>1
  <2> HIDE DEF A, D
  <2> QED
    BY <2>1, <2>2
<1> HIDE DEF A, D, low
<1>4. CASE \E s \in Strategies : A[s] < D[s]
  <2>1. PICK s \in Strategies : A[s] < D[s]
    BY <1>4
  <2> DEFINE N == [t \in Strategies |-> -A[t]]
  <2>2. \A t \in Strategies : N[t] = -A[t] /\ N[t] \in Int /\ D[t] \in Nat \ {0}
    BY <1>2
  <2> HIDE DEF N
  <2>3. PICK m \in Strategies : \A t \in Strategies : N[t] * D[m] <= N[m] * D[t]
    BY <2>1, <2>2, GreatestOfAll
  <2>4. ASSUME NEW t \in Strategies PROVE A[m] * D[t] <= A[t] * D[m]
    <3>1. A[t] \in Nat /\ A[m] \in Nat /\ D[t] \in Nat /\ D[m] \in Nat
      BY <1>2
    <3>2. /\ (-A[t]) * D[m] = -(A[t] * D[m]) /\ (-A[m]) * D[t] = -(A[m] * D[t])
          /\ A[t] * D[m] \in Int /\ A[m] * D[t] \in Int
      BY <3>1, SMTT(20)
    <3>3. (-A[t]) * D[m] <= (-A[m]) * D[t]
      BY <2>2, <2>3
    <3> QED
      BY <3>2, <3>3
  <2>5. A[m] < D[m]
    <3>1. A[s] \in Nat /\ A[m] \in Nat /\ D[s] \in Nat \ {0} /\ D[m] \in Nat \ {0} /\ A[s] < D[s]
      BY <1>2, <2>1
    <3>2. A[m] * D[s] <= A[s] * D[m]
      BY <2>4
    <3>3. A[s] * D[m] < D[s] * D[m]
      BY <3>1, SMTT(20)
    <3>4. D[m] <= A[m] => D[m] * D[s] <= A[m] * D[s]
      BY <3>1, SMTT(20)
    <3>5. /\ A[m] * D[s] \in Int /\ A[s] * D[m] \in Int /\ D[s] * D[m] \in Int
          /\ D[s] * D[m] = D[m] * D[s]
      BY <3>1
    <3> QED
      BY <3>1, <3>2, <3>3, <3>4, <3>5
  <2> DEFINE b == report'.lowDrop
  <2>6. b \in low
    <3>1. m \in low
      BY <1>3, <2>4, <2>5
    <3> QED
      BY <1>1, <3>1 DEF OrNone
  <2> HIDE DEF b
  <2>7. b \in Strategies /\ A[b] < D[b] /\ \A t \in Strategies : A[b] * D[t] <= A[t] * D[b]
    BY <1>3, <2>6
  <2>8. b # ""
    BY <2>7, Lists DEF Strategies
  <2>9. /\ b \in Strategies /\ byStrategy[b].drop < byStrategy[b].count
        /\ \A t \in Strategies :
               byStrategy[b].drop * byStrategy[t].count <= byStrategy[t].drop * byStrategy[b].count
    BY <1>2, <2>7
  <2> QED
    BY <2>8, <2>9 DEF b
<1>5. CASE \A s \in Strategies : ~(A[s] < D[s])
  <2>1. low = {}
    BY <1>3, <1>5
  <2>2. report'.lowDrop = ""
    BY <1>1, <2>1 DEF OrNone
  <2>3. \A s \in Strategies : byStrategy[s].drop >= byStrategy[s].count
    <3> SUFFICES ASSUME NEW s \in Strategies PROVE byStrategy[s].drop >= byStrategy[s].count
      OBVIOUS
    <3>1. A[s] \in Nat /\ D[s] \in Nat /\ ~(A[s] < D[s])
      BY <1>2, <1>5
    <3> QED
      BY <1>2, <3>1
  <2> QED
    BY <2>2, <2>3
<1> QED
  BY <1>4, <1>5

LEMMA ReportInv ==
  ASSUME Inv, Report
  PROVE  Inv'
<1> USE DEF Inv
<1>1. /\ UNCHANGED <<mode, results, suite, byStrategy, byProcs, matrix>>
      /\ current' = current /\ ctxDone' = ctxDone /\ out' = out /\ phase' = phase /\ exit' = exit
      /\ mode = "comparison" /\ ~MoreTests /\ pc' = "done"
  BY DEF Report, childVars
<1>2. PassesAreEarned' /\ TablesAgree'
  BY <1>1, NothingRecorded
<1>3. TypeOK'
  BY <1>1, TallyTypesStay DEF TypeOK
<1>4. current = Len(Tests) + 1
  BY <1>1, TestList DEF TypeOK, MoreTests
<1>5. ChildOK' /\ OneResultEach'
  BY <1>1, <1>4, TallyTypesStay DEF ChildOK, OneResultEach
<1>6. BestInTables'
  BY <1>1, ReportsBest, ReportsLeastDrops DEF BestInTables
<1>7. BestIsBest'
  <2>1. TablesAgree' => (BestIsBest' <=> BestInTables')
    BY BestOfBoth, PTL
  <2> QED
    BY <1>2, <1>6, <2>1
<1> QED
  BY <1>2, <1>3, <1>5, <1>7
-------------------------------------------------------------------------------
(* The theorems *)

LEMMA NextInv == Inv /\ [Next]_vars => Inv'
<1> SUFFICES ASSUME Inv, [Next]_vars PROVE Inv'
  OBVIOUS
<1>1. CASE \E rate \in Rates : ChildPrintsStats(rate)
  BY <1>1, PrintsStatsInv
<1>2. CASE \E time \in ShutdownTimes : ChildShutsDown(time)
  BY <1>2, ShutsDownInv
<1>3. CASE \E produced \in {0, 1} : ChildSumsUp(produced)
  BY <1>3, SumsUpInv
<1>4. CASE ChildFinishes
  BY <1>4, EndsInv DEF ChildFinishes
<1>5. CASE ChildDies \/ KillChild
  BY <1>5, EndsInv DEF ChildDies, KillChild
<1>6. CASE StartChild \/ FailToStart
  BY <1>6, StartsInv
<1>7. CASE Cancel \/ FinishSuite \/ UNCHANGED vars
  BY <1>7, QuietInv
<1>8. CASE RecordInSuite
  BY <1>8, RecordInSuiteInv
<1>9. CASE RecordInComparison
  BY <1>9, RecordInComparisonInv
<1>10. CASE Report
  BY <1>10, ReportInv
<1> QED
  BY <1>1, <1>2, <1>3, <1>4, <1>5, <1>6, <1>7, <1>8, <1>9, <1>10 DEF Next

THEOREM Invariance == Spec => []Inv
BY InitInv, NextInv, PTL DEF Spec

\* Validate lets no run pass that printed nothing, and the suite none that was killed
\* or that did not shut down in time (RunTest, Validate).
THEOREM Passes == Spec => []PassesAreEarned
<1>1. Inv => PassesAreEarned
  BY DEF Inv
<1> QED
  BY <1>1, Invariance, PTL

\* The suite's counters, and the tables by strategy, by GOMAXPROCS and by both, are
\* the tallies of one list of results (AddResult, updateStrategyMetrics).
THEOREM Tables == Spec => []TablesAgree
<1>1. Inv => TablesAgree
  BY DEF Inv
<1> QED
  BY <1>1, Invariance, PTL

\* The report of the comparison names a strategy whose rates achieved by the rates
\* expected, both summed over its measured runs, are not exceeded by any strategy, for
\* any tests and targets, and one of the lowest drop rate (ThroughputEfficiency,
\* generateStrategyRecommendations).
THEOREM Recommendations == Spec => []BestIsBest
<1>1. Inv => BestIsBest
  BY DEF Inv
<1> QED
  BY <1>1, Invariance, PTL

\* When the loop is over every test case has one result, in the order of the list,
\* whatever became of the children.
THEOREM EveryTestOnce ==
  Spec => [](pc = "done" => /\ Len(results) = Len(Tests)
                            /\ \A i \in DOMAIN results : results[i].test = i)
<1>1. Inv => (pc = "done" => /\ Len(results) = Len(Tests)
                             /\ \A i \in DOMAIN results : results[i].test = i)
  BY TestList DEF Inv, OneResultEach
<1> QED
  BY <1>1, Invariance, PTL
===============================================================================
