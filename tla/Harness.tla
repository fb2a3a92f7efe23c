------------------------------- MODULE Harness -------------------------------
(***************************************************************************)
(* The integration tests: Executor.Run (executor.go) runs the program      *)
(* cmd/ring as a child process under a timeout, ParseOutput (parser.go)    *)
(* reads what it printed, Validate (results.go) judges it.  Two loops use  *)
(* them: a suite of RunTest and AddResult (results.go), and                *)
(* RunStrategyComparison (strategy_runner.go), which aggregates by         *)
(* strategy, by GOMAXPROCS and by both.                                    *)
(*                                                                         *)
(* The child is external: it may print any part of its output and then     *)
(* finish, die or hang.  Of the output only what Validate reads is kept.   *)
(* Two error paths of the code are dead and left out: Run returns no       *)
(* error, and neither does ParseOutput.                                    *)
(***************************************************************************)
EXTENDS Integers, Sequences, FiniteSetsExt

CONSTANTS
    Modes,          \* subset of {"suite", "comparison"}
    SuiteTests,     \* the test cases of the suite, a sequence
    ComparisonTests, \* those of the comparison, each with a strategy
    Rates,          \* what the [stats] lines may come to on average, in Mb/s
    Drops,          \* drop rates the child may report, in percent
    ShutdownTimes,  \* durations of a clean shutdown it may report
    RateTolerance, MaxDropRate, MaxShutdownTime,    \* ValidationConfig
    MaxIntervals    \* bound of the model: [stats] lines per run

\* In Mb/s.
ExpectedTotalRate(tc) == tc.producers * tc.rate

ASSUME HarnessAssumption ==
    /\ Modes \subseteq {"suite", "comparison"}
    /\ SuiteTests \in Seq(Range(SuiteTests))
    /\ ComparisonTests \in Seq(Range(ComparisonTests))
    /\ \A tc \in Range(ComparisonTests) : tc.strategy # ""
    /\ \A tc \in Range(SuiteTests) \cup Range(ComparisonTests) :
          ExpectedTotalRate(tc) \in Nat \ {0}
    /\ Rates \cup Drops \cup ShutdownTimes \subseteq Nat
    /\ 0 \notin ShutdownTimes
    /\ RateTolerance \in 0 .. 99
    /\ {MaxDropRate, MaxShutdownTime, MaxIntervals} \subseteq Nat

Strategies == {ComparisonTests[i].strategy : i \in DOMAIN ComparisonTests}
Procs == {ComparisonTests[i].procs : i \in DOMAIN ComparisonTests}

VARIABLES
    mode,
    current,        \* the index of the test in hand
    pc,             \* "next", "child", "over" or "done"
    ctxDone,        \* the caller's context is cancelled
    out,            \* what the child has printed so far
    phase,          \* "running", "ended" (shutdown line printed) or "summed" (statistics too)
    exit,           \* ExecutionResult.ExitCode; -1 when killed or not started
    results,        \* TestSuiteResult.Results, StrategyComparisonResult.TestResults
    suite,          \* TotalTests, PassedTests, FailedTests
    byStrategy, byProcs, matrix,    \* StrategyMetrics per key
    report          \* what the comparison report recommends

childVars == <<out, phase, exit>>
tallies == <<suite, byStrategy, byProcs, matrix, report>>
vars == <<mode, current, pc, ctxDone, out, phase, exit, results, suite,
          byStrategy, byProcs, matrix, report>>

Tests == IF mode = "suite" THEN SuiteTests ELSE ComparisonTests

\* No line printed yet.  average is that of the rates in the [stats] lines so far;
\* shutdown = 0: no "Clean shutdown" line; produced is the number of packets in the
\* final statistics, 0 when they are missing.
Silent == [intervals |-> 0, average |-> 0, shutdown |-> 0, drop |-> 0, produced |-> 0]

NoMetrics == [count |-> 0, pass |-> 0, fail |-> 0, expected |-> 0, drop |-> 0, achieved |-> 0]

NoReport == [top |-> "", throughput |-> "", lowDrop |-> "", contention |-> "", advice |-> {}]

Init ==
    /\ mode \in Modes
    /\ current = 1
    /\ pc = "next"
    /\ ctxDone = FALSE
    /\ out = Silent
    /\ phase = "running"
    /\ exit = 0
    /\ results = <<>>
    /\ suite = [total |-> 0, passed |-> 0, failed |-> 0]
    /\ byStrategy = [s \in Strategies |-> NoMetrics]
    /\ byProcs = [p \in Procs |-> NoMetrics]
    /\ matrix = [s \in Strategies |-> [p \in Procs |-> NoMetrics]]
    /\ report = NoReport

-------------------------------------------------------------------------------
(* The child process *)

\* One more line, of a rate that makes it the average.
ChildPrintsStats(rate) ==
    /\ pc = "child"
    /\ phase = "running"
    /\ out.intervals < MaxIntervals
    /\ out' = [out EXCEPT !.intervals = @ + 1, !.average = rate]
    /\ UNCHANGED <<mode, current, pc, ctxDone, phase, exit, results, tallies>>

ChildShutsDown(time) ==
    /\ pc = "child"
    /\ phase = "running"
    /\ phase' = "ended"
    /\ out' = [out EXCEPT !.shutdown = time]
    /\ UNCHANGED <<mode, current, pc, ctxDone, exit, results, tallies>>

\* Of no packets at all the percentage is not a number, the parser does not match
\* it; if none was accepted it is 100.
DropsOf(produced) == IF produced = 0 THEN {0, 100} ELSE Drops

ChildSumsUp(produced) ==
    /\ pc = "child"
    /\ phase = "ended"
    /\ phase' = "summed"
    /\ \E drop \in DropsOf(produced) :
           out' = [out EXCEPT !.produced = produced, !.drop = drop]
    /\ UNCHANGED <<mode, current, pc, ctxDone, exit, results, tallies>>

ChildEnds(code) ==
    /\ pc = "child"
    /\ pc' = "over"
    /\ exit' = code
    /\ UNCHANGED <<mode, current, ctxDone, out, phase, results, tallies>>

ChildFinishes == phase = "summed" /\ ChildEnds(0)

\* It panics, or rejects its flags.
ChildDies == ChildEnds(2)

-------------------------------------------------------------------------------
(* Executor.Run *)

MoreTests == current <= Len(Tests)

StartChild ==
    /\ pc = "next"
    /\ MoreTests
    /\ ~ctxDone
    /\ pc' = "child"
    /\ UNCHANGED <<mode, current, ctxDone, childVars, results, tallies>>

\* The binary cannot be started, or the context is done already.
FailToStart ==
    /\ pc = "next"
    /\ MoreTests
    /\ pc' = "over"
    /\ exit' = -1
    /\ UNCHANGED <<mode, current, ctxDone, out, phase, results, tallies>>

\* Mutant: the caller's context without the timeout.
KillOnCancel ==
    /\ ctxDone
    /\ ChildEnds(-1)

\* The context of the command ends: by its timeout of Duration + 30 s, which may
\* come at any moment of the model, or with the caller's context.
KillChild == ChildEnds(-1)

\* The caller of the comparison cancels; RunTest has no context to cancel.
Cancel ==
    /\ mode = "comparison"
    /\ ~ctxDone
    /\ ctxDone' = TRUE
    /\ UNCHANGED <<mode, current, pc, childVars, results, tallies>>

-------------------------------------------------------------------------------
(* ParseOutput and Validate *)

HasValidStats == out.produced > 0 \/ out.intervals > 0

\* The mean of the [stats] lines, 0 without any.
AverageRate == IF out.intervals = 0 THEN 0 ELSE out.average

ExpectedRate == ExpectedTotalRate(Tests[current])

\* Mutant: the deviation is not taken by its absolute value.
RateAtMost == 100 * (AverageRate - ExpectedRate) <= RateTolerance * ExpectedRate

\* RateDeviation in percent, multiplied by the expected rate.
RateValid ==
    100 * (AverageRate - ExpectedRate)
        \in (-RateTolerance * ExpectedRate) .. (RateTolerance * ExpectedRate)

AllValid ==
    /\ RateValid
    /\ out.drop <= MaxDropRate
    /\ out.shutdown <= MaxShutdownTime

Result(passed) ==
    [test |-> current, passed |-> passed, valid |-> HasValidStats, lines |-> out.intervals,
     expected |-> ExpectedRate, rate |-> AverageRate, shutdown |-> out.shutdown, drop |-> out.drop]

\* What Run returned of this test is looked at no more.
NextTest ==
    /\ current' = current + 1
    /\ pc' = "next"
    /\ out' = Silent
    /\ phase' = "running"
    /\ exit' = 0
    /\ UNCHANGED <<mode, ctxDone>>

-------------------------------------------------------------------------------
(* RunTest and AddResult *)

\* Mutant: the exit code is not looked at.
SuitePassedWhatever == HasValidStats /\ AllValid

SuitePassed == exit = 0 /\ HasValidStats /\ AllValid

RecordInSuite ==
    /\ mode = "suite"
    /\ pc = "over"
    /\ results' = Append(results, Result(SuitePassed))
    /\ suite' = [total |-> suite.total + 1,
                 passed |-> suite.passed + (IF SuitePassed THEN 1 ELSE 0),
                 failed |-> suite.failed + (IF SuitePassed THEN 0 ELSE 1)]
    /\ NextTest
    /\ UNCHANGED <<byStrategy, byProcs, matrix, report>>

-------------------------------------------------------------------------------
(* RunStrategyComparison *)

ComparisonPassed == HasValidStats /\ AllValid

\* updateStrategyMetrics: the rates are those of validated runs only, the drop
\* rates of every run.
Updated(sm) ==
    [count    |-> sm.count + 1,
     pass     |-> sm.pass + (IF ComparisonPassed THEN 1 ELSE 0),
     fail     |-> sm.fail + (IF ComparisonPassed THEN 0 ELSE 1),
     expected |-> sm.expected + (IF HasValidStats THEN ExpectedRate ELSE 0),
     drop     |-> sm.drop + out.drop,
     achieved |-> sm.achieved + (IF HasValidStats THEN AverageRate ELSE 0)]

\* Mutant: the cell of the matrix is left out when a run has no statistics.
UpdatedCellIfMeasured(cell) == IF HasValidStats THEN Updated(cell) ELSE cell

UpdatedCell(cell) == Updated(cell)

RecordInComparison ==
    LET s == Tests[current].strategy
        p == Tests[current].procs
    IN  /\ mode = "comparison"
        /\ pc = "over"
        /\ results' = Append(results, Result(ComparisonPassed))
        /\ byStrategy' = [byStrategy EXCEPT ![s] = Updated(@)]
        /\ byProcs' = [byProcs EXCEPT ![p] = Updated(@)]
        /\ matrix' = [matrix EXCEPT ![s][p] = UpdatedCell(@)]
        /\ NextTest
        /\ UNCHANGED <<suite, report>>

FinishSuite ==
    /\ mode = "suite"
    /\ pc = "next"
    /\ ~MoreTests
    /\ pc' = "done"
    /\ UNCHANGED <<mode, current, ctxDone, childVars, results, tallies>>

-------------------------------------------------------------------------------
(* The comparison report.  Ratios are compared by products, those of       *)
(* nothing are 0.  Where strategies are equal, the order of Go's map decides. *)

AtLeastOne(n) == Max({n, 1})

\* Mutant: the rates achieved are compared, whatever was expected of the runs.
MoreAchieved(a, b, margin) == 100 * a.achieved > (100 + margin) * b.achieved

\* The ThroughputEfficiency of a is above that of b by more than margin percent: the
\* rates achieved in all validated runs by the rates expected in them.
MoreEfficient(a, b, margin) ==
    LET x == AtLeastOne(a.expected)
        y == AtLeastOne(b.expected)
    IN  100 * a.achieved * y > (100 * b.achieved + margin * y) * x

\* Mutant: the first strategy is taken even if nothing was achieved.
BestIfAny(best) == best

\* The best starts from an efficiency of 0 and must be above it.
BestAboveZero(best) == {s \in best : byStrategy[s].achieved > 0}

DropsLess(a, b) == a.drop * AtLeastOne(b.count) < b.drop * AtLeastOne(a.count)

\* Mutant: <= for <.
DropsBelowOrAt(sm, permille) == 1000 * sm.drop <= permille * AtLeastOne(sm.count)

\* AvgDropRate is below so many thousandths of a percent.
DropsBelow(sm, permille) == 1000 * sm.drop < permille * AtLeastOne(sm.count)

OrNone(set) == IF set = {} THEN {""} ELSE set

\* BestForContention, whose order of preference is fixed.
ForContention ==
    LET Good(s) == /\ \E i \in DOMAIN Tests : Tests[i].strategy = s /\ Tests[i].procs = 1
                   /\ DropsBelow(matrix[s][1], 1000)
    IN  CASE Good("NextShard") -> "NextShard"
          [] ~Good("NextShard") /\ Good("SpinThenYield") -> "SpinThenYield"
          [] OTHER -> ""

Advice ==
    {a \in {"contention", "NextShard", "SpinThenYield"} :
        CASE a = "contention" ->
               /\ {0, 1} \subseteq Procs
               /\ DropsLess([byProcs[0] EXCEPT !.drop = 2 * @], byProcs[1])
          [] a = "NextShard" ->
               /\ {"NextShard", "SleepBackoff"} \subseteq Strategies
               /\ MoreEfficient(byStrategy["NextShard"], byStrategy["SleepBackoff"], 5)
          [] a = "SpinThenYield" ->
               /\ "SpinThenYield" \in Strategies
               /\ DropsBelow(byStrategy["SpinThenYield"], 500)}

Report ==
    LET best == {s \in Strategies :
                   \A t \in Strategies : ~MoreEfficient(byStrategy[t], byStrategy[s], 0)}
        low  == {s \in Strategies :
                   /\ \A t \in Strategies : ~DropsLess(byStrategy[t], byStrategy[s])
                   /\ DropsBelow(byStrategy[s], 1000)}
    IN  /\ mode = "comparison"
        /\ pc = "next"
        /\ ~MoreTests
        /\ report' \in [top : OrNone(best), throughput : OrNone(BestAboveZero(best)),
                         lowDrop : OrNone(low), contention : {ForContention}, advice : {Advice}]
        /\ pc' = "done"
        /\ UNCHANGED <<mode, current, ctxDone, childVars, results, suite, byStrategy,
                       byProcs, matrix>>

Next ==
    \/ \E rate \in Rates : ChildPrintsStats(rate)
    \/ \E time \in ShutdownTimes : ChildShutsDown(time)
    \/ \E produced \in {0, 1} : ChildSumsUp(produced)
    \/ ChildFinishes
    \/ ChildDies
    \/ StartChild
    \/ FailToStart
    \/ KillChild
    \/ Cancel
    \/ RecordInSuite
    \/ RecordInComparison
    \/ FinishSuite
    \/ Report

Spec == Init /\ [][Next]_vars

HarnessStep ==
    \/ StartChild
    \/ FailToStart
    \/ KillChild
    \/ RecordInSuite
    \/ RecordInComparison
    \/ FinishSuite
    \/ Report

\* The loops run on, and a timeout or a cancellation that is due happens.  Nothing
\* is assumed of the child.
LiveSpec == Spec /\ WF_vars(HarnessStep)

-------------------------------------------------------------------------------
(* Properties *)

\* A run that passes printed a [stats] line: Validate has no such check, the final
\* statistics alone satisfy HasValidStats, and it is the average of 0 that lies
\* outside the tolerance.  One that the suite passes also ended by itself and
\* reported a shutdown within the limit: Validate takes a missing line for a
\* duration of 0, so it takes the exit code that RunTest looks at first.
PassesAreEarned ==
    \A i \in DOMAIN results : results[i].passed =>
        /\ results[i].lines > 0
        /\ mode = "suite" => results[i].shutdown \in 1 .. MaxShutdownTime

\* What the tables are to say of the runs with these indices.
Tally(runs, indices) ==
    LET validated == {i \in indices : runs[i].valid}
    IN  [count    |-> Cardinality(indices),
         pass     |-> Cardinality({i \in indices : runs[i].passed}),
         fail     |-> Cardinality({i \in indices : ~runs[i].passed}),
         expected |-> SumFunctionOnSet([i \in DOMAIN runs |-> runs[i].expected], validated),
         drop     |-> SumFunctionOnSet([i \in DOMAIN runs |-> runs[i].drop], indices),
         achieved |-> SumFunctionOnSet([i \in DOMAIN runs |-> runs[i].rate], validated)]

WithStrategy(s) == {i \in DOMAIN results : Tests[results[i].test].strategy = s}
WithProcs(p) == {i \in DOMAIN results : Tests[results[i].test].procs = p}

\* The counters of a suite and the tables of a comparison report one and the same
\* set of runs, no run is counted twice or left out, whatever became of the child.
TablesAgree ==
    /\ mode = "comparison" =>
          /\ \A s \in Strategies : byStrategy[s] = Tally(results, WithStrategy(s))
          /\ \A p \in Procs : byProcs[p] = Tally(results, WithProcs(p))
          /\ \A s \in Strategies, p \in Procs :
                 matrix[s][p] = Tally(results, WithStrategy(s) \cap WithProcs(p))
    /\ mode = "suite" =>
          LET all == Tally(results, DOMAIN results)
          IN  suite = [total |-> all.count, passed |-> all.pass, failed |-> all.fail]

\* What the report recommends is what the results say.  The strategy recommended
\* for its throughput has been measured, and none has a higher ratio of the rates
\* achieved to the rates expected, both summed over its runs that were measured,
\* whatever their targets and however many of them failed to report; none is named
\* only if none achieved anything.  The one with the lowest drop rate has the lowest
\* mean, below one percent, but over all its runs: one that died before it reported
\* counts as a run without drops, so a strategy may be recommended that was never
\* measured (strategy_runner.go:69-73, 428-453).
BestIsBest ==
    LET Of(s) == Tally(results, WithStrategy(s))
        best == report.throughput
        low == report.lowDrop
    IN  (mode = "comparison" /\ pc = "done") =>
            /\ IF best = "" THEN \A s \in Strategies : Of(s).achieved = 0
               ELSE /\ best \in Strategies /\ Of(best).expected > 0
                    /\ \A s \in Strategies :
                           Of(s).achieved * Of(best).expected <= Of(best).achieved * Of(s).expected
            /\ IF low = "" THEN \A s \in Strategies : Of(s).drop >= Of(s).count
               ELSE /\ low \in Strategies /\ Of(low).drop < Of(low).count
                    /\ \A s \in Strategies :
                           Of(low).drop * Of(s).count <= Of(s).drop * Of(low).count

\* Every run of the harness ends, though the child may hang and never print a line.
LoopEnds == <>(pc = "done")

\* integration-tests/README.md:102 of every run that passes: "Shutdown Time | < 2s |
\* Clean shutdown must complete quickly".  The comparison ignores the exit code.
PassedMeansCleanShutdown ==
    \A i \in DOMAIN results :
        results[i].passed => results[i].shutdown \in 1 .. MaxShutdownTime

===============================================================================
