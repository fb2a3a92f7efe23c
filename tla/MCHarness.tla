------------------------------ MODULE MCHarness ------------------------------
(* TLC instances of Harness. *)
EXTENDS MatrixRuns

\* Four combinations of which the filter keeps three, one of them of the expected
\* rate 100; three producers need four shards, and so do four.
MCMatrix == [producers |-> <<3, 4>>, rates |-> <<50, 25>>, packetSizes |-> <<1450>>,
             frequencies |-> <<10>>]

\* Two strategies, each with two expected rates, 20 and 100.
MCStrategyMatrix == [strategies |-> <<"SleepBackoff", "NextShard">>, procs |-> <<1>>,
                     producers |-> <<2>>, rates |-> <<10, 50>>, packetSize |-> 1450,
                     frequency |-> 10]

MCFilter(tc) ==
    /\ FilterByMaxRate(160, tc)
    /\ FilterByProducers({3, 4}, tc)
    /\ FilterByPacketSize({1450}, tc)
    /\ FilterByStrategy({"NextShard", "SleepBackoff"}, tc)
    /\ FilterByGOMAXPROCS({0}, tc)

MCSuiteTests == GeneratedTests
MCComparisonTests == GeneratedStrategyTests
===============================================================================
