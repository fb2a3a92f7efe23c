----------------------------- MODULE TestMatrix -----------------------------
(***************************************************************************)
(* The test cases of the harness (config.go): nested loops over lists of   *)
(* parameters, numbered in their order.  Names, durations and the          *)
(* constants of a matrix are left out.                                     *)
(***************************************************************************)
EXTENDS Integers, Sequences, SequencesExt, Bitwise

\* Mutant: the n-- is forgotten, so a power of two is doubled.
nextPowerOf2Undecremented(n) ==
    IF n <= 1 THEN 1
    ELSE LET a == n | shiftR(n, 1)
             b == a | shiftR(a, 2)
             c == b | shiftR(b, 4)
             d == c | shiftR(c, 8)
         IN  (d | shiftR(d, 16)) + 1

\* The highest bit of n - 1 is spread to all the bits below it.
nextPowerOf2(n) ==
    IF n <= 1 THEN 1
    ELSE LET m == n - 1
             a == m | shiftR(m, 1)
             b == a | shiftR(a, 2)
             c == b | shiftR(b, 4)
             d == c | shiftR(c, 8)
         IN  (d | shiftR(d, 16)) + 1

\* A loop over a list that appends what its body makes of each element.
ForEach(list, Body(_)) == FlattenSeq([i \in DOMAIN list |-> Body(list[i])])

Numbered(tests) == [i \in DOMAIN tests |-> [id |-> i] @@ tests[i]]

GenerateTestCases(cfg) == Numbered(
    ForEach(cfg.producers, LAMBDA n :
        ForEach(cfg.rates, LAMBDA rate :
            ForEach(cfg.packetSizes, LAMBDA size :
                ForEach(cfg.frequencies, LAMBDA frequency :
                    <<[producers |-> n, rate |-> rate, packetSize |-> size,
                       frequency |-> frequency, ringShards |-> nextPowerOf2(n),
                       strategy |-> "", procs |-> 0]>>)))))

GenerateStrategyTestCases(cfg) == Numbered(
    ForEach(cfg.strategies, LAMBDA strategy :
        ForEach(cfg.procs, LAMBDA procs :
            ForEach(cfg.producers, LAMBDA n :
                ForEach(cfg.rates, LAMBDA rate :
                    <<[producers |-> n, rate |-> rate, packetSize |-> cfg.packetSize,
                       frequency |-> cfg.frequency, ringShards |-> nextPowerOf2(n),
                       strategy |-> strategy, procs |-> procs]>>)))))
===============================================================================
