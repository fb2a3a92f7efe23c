------------------------------ MODULE MatrixRuns ------------------------------
(***************************************************************************)
(* The harness (Harness) on the test cases that the matrices of config.go  *)
(* produce (TestMatrix).  The tests of the suite are thinned out by a      *)
(* filter, those of the comparison are run as they are.                    *)
(***************************************************************************)
EXTENDS Harness, TestMatrix

CONSTANTS
    Matrix,         \* TestMatrixConfig, of the suite
    StrategyMatrix, \* StrategyTestMatrixConfig, of the comparison
    Filter(_)       \* the TestFilter, of the suite

-------------------------------------------------------------------------------
(* Filters *)

FilterByMaxRate(maxTotalRate, tc) == ExpectedTotalRate(tc) <= maxTotalRate

FilterByProducers(counts, tc) == tc.producers \in counts

FilterByPacketSize(sizes, tc) == tc.packetSize \in sizes

\* A test case without a strategy is let through.
FilterByStrategy(strategies, tc) == tc.strategy = "" \/ tc.strategy \in strategies

FilterByGOMAXPROCS(values, tc) == tc.procs \in values

-------------------------------------------------------------------------------
(* The test cases *)

\* Mutant: the loop is left at the first test case the filter rejects.
GeneratedToFirst ==
    LET all == GenerateTestCases(Matrix)
    IN  SelectSeq(all, LAMBDA tc : \A j \in 1 .. tc.id : Filter(all[j]))

\* The test cases keep the numbers they have in the whole matrix.
GeneratedTests == SelectSeq(GenerateTestCases(Matrix), Filter)

GeneratedStrategyTests == GenerateStrategyTestCases(StrategyMatrix)

ASSUME MatrixAssumption ==
    /\ SuiteTests = GeneratedTests
    /\ ComparisonTests = GeneratedStrategyTests

-------------------------------------------------------------------------------
(* Properties *)

\* What distinguishes test cases, and what the matrix of this mode asks for.
Combination(tc) == <<tc.strategy, tc.procs, tc.producers, tc.rate, tc.packetSize, tc.frequency>>

Asked ==
    IF mode = "suite"
    THEN [strategy : {""}, procs : {0}, producers : Range(Matrix.producers),
          rate : Range(Matrix.rates), packetSize : Range(Matrix.packetSizes),
          frequency : Range(Matrix.frequencies)]
    ELSE [strategy : Range(StrategyMatrix.strategies), procs : Range(StrategyMatrix.procs),
          producers : Range(StrategyMatrix.producers), rate : Range(StrategyMatrix.rates),
          packetSize : {StrategyMatrix.packetSize}, frequency : {StrategyMatrix.frequency}]

\* nextPowerOf2 is the least power of two that is not below n, for small n and
\* around every power of two up to 2^17.
LeastPowersOf2 ==
    \A n \in 1 .. 40 \cup UNION {(2^k - 1) .. (2^k + 1) : k \in 6 .. 17} :
        /\ nextPowerOf2(n) \in {2^k : k \in 0 .. 18}
        /\ nextPowerOf2(n) >= n
        /\ nextPowerOf2(n) < 2 * n

\* At the end every combination of parameters that the matrix asks for, in a suite
\* those that the filter keeps, has exactly one result, whatever became of its
\* child, and was run with the fewest shards that NewShardedRing accepts, a power
\* of two (ring.go:38-45), and that give each producer a shard of its own.
EveryCombinationRun ==
    pc = "done" =>
        LET ran    == [i \in DOMAIN results |-> Tests[results[i].test]]
            wanted == {tc \in Asked : mode = "suite" => Filter(tc)}
        IN  /\ {Combination(ran[i]) : i \in DOMAIN ran} = {Combination(tc) : tc \in wanted}
            /\ Len(results) = Cardinality(wanted)
            /\ \A i \in DOMAIN ran :
                   /\ ran[i].ringShards \in {2^k : k \in 0 .. 6}
                   /\ ran[i].producers <= ran[i].ringShards
                   /\ ran[i].ringShards < 2 * ran[i].producers
            /\ LeastPowersOf2
===============================================================================
