# A verification project for go-lock-free-ring

TLA+ modules that model the repository's code, TLC configurations that check them on small
instances, and TLAPS proofs, for every value of the constants, of all safety properties but one (the
product of the test matrix). `PROJECT.json` is the index: which definition models which lines, which
run checks which property, which plausible bug ("mutant") each property catches.

To check something: `tlc -config MCShard.cfg MCShard`; to prove: `tlapm ShardProofs.tla`,
and so for each module whose name ends in `Proofs`.

## 1. The system

| Component | Source | State | Operations |
|---|---|---|---|
| Shard | `ring.go` 13-24, 100-175 | `writePos`, `readPos` (atomic), per slot `seq` (atomic) and `value` (plain) | `write` (any number of goroutines), `tryRead` (one consumer) |
| ShardedRing | `ring.go` 26-98, 134-241 | the shards, `mask`, `readStartShard` (the consumer's) | `NewShardedRing`, `Write`, `TryRead`, `ReadBatch`, `ReadBatchInto`, `Len`, `Cap`, `NumShards` |
| Writer, retry strategies | `writer.go`, `strategies.go` | `writerState`: `backoffCount`, `currentBackoff`, `adaptiveMode`, `idleIterations`, `warmupRemaining` | `Writer.Write` with seven strategies, `Reset`, `ShardedRing.WriteWithBackoff` |
| Writer configuration | `writer.go` | none | presets (constants) |
| Data generator | `data-generator/` | `packetCount`, two atomic counters, a rate limiter, a context | `Read`, `Stats`, end by cancellation |
| Test harness | `integration-tests/` `executor.go`, `parser.go`, `results.go`, `strategy_runner.go` | results, suite counters, metrics per strategy / GOMAXPROCS / both | `Executor.Run`, `ParseOutput`, `Validate`, `RunTest`, `AddResult`, `RunStrategyComparison` |
| Profiling | `profiler.go`, `analyzer.go` | files in the profile directories, lists of runs and analyses | `RunWithProfiling`, `ProfileTestSuite.Run`, `Analyze` |
| Test matrix | `config.go` | none | the nested loops over parameters, `nextPowerOf2`, filters; presets, literal tables |
| Reports | `reporter.go`, half of `strategy_runner.go` | report files, the link `report-latest.html` | `GenerateReport`: create, write, unlink, link; HTML and text |
| `cmd/ring` | only its README is in the repository | - | the program the harness runs |

**How they interact.** Producers call `Write` (or a `Writer`, which repeats `shard.write` under its
strategy); a producer's ID fixes its home shard. One consumer scans the shards, from a start that
moves by one with each read. Producers and consumer share a shard's counters and slots and nothing
else; the sequence number of a slot is what hands its plain `value` from one to the other. The
harness starts `cmd/ring` as a child process under a timeout and judges what it printed.

**What is hard.**

* *Interleaving.* A `write` is five shared accesses, a `tryRead` five; writers publish in another
  order than they claim. Between loading a position and checking its slot the position may have
  been taken, read and released for the next lap.
* *The release window.* `tryRead` gives the slot back (`ring.go:169`) before it moves `readPos`
  (`ring.go:172`).
* *Plain accesses.* `slot.value` is not atomic. A race there would be undefined behaviour.
* *Scans that are not atomic.* "The ring is empty" is concluded from looks at different moments.
* *Roaming.* With `NextShard`, `RandomShard` and `Hybrid` the values of one producer sit in several
  shards at once, and producers of one shard meet again in others.
* *Fixed-width counters.* All comparisons of `write` and `tryRead` are on `uint64` values that wrap.
* *Files that are replaced while others may read them*: a report, then the link to the latest.
* *State that outlives a call* in `writerState`: budgets, backoff, mode and warmup.
* *Cancellation against busy-waiting* in the generator, and statistics read one counter at a time.
* *A child that dies, hangs or is killed* after any part of its output.

**What makes each component correct.** Shard: first in first out in the order of the claims, no
race, no overrun, refusal and emptiness only when justified, nothing stuck. Ring: order per
producer, complete short reads, no shard starved. Strategies: budgets, coverage of the promised
shards, modes and caps, termination. Generator: never ahead of its rate, prompt end after
cancellation, bounded tearing. Harness: a pass means what it says, all tables count the same runs,
the loop ends.

The hazards are listed one by one, at their lines, in `PROJECT.json`.

## 2. The modules

```
BoundedQueue      what a shard promises           <--- Shard, proved and checked to implement it
  ^                                                     ShardLen      Shard with an observer in Len
  |                                                     ShardWrap     ShardLen with counters that wrap,
  |                                                                   proved to implement Shard
ShardedRing       the scan over shards that are bounded queues, each proved to be one
  ^                 producers stay or roam
Routes            which shards each strategy tries    ---> RetryWriter   one producer's attempts, cycles
                                                                         and waits
DataGenerator     Read, Stats, time and cancellation
Harness           the child process, its judgement, the tables, the recommendations, for any tests
  ^ MatrixRuns    Harness on the tests of TestMatrix (loops over parameters, numbering); filters
Profiling         the profile files of many child processes, moved and analysed
  ^ Reports       the report and the link to the latest one, at the end of a session
MC*               TLC instances; the bounds are in the .cfg files

Arithmetic        lemmas on remainders, induction, sizes of finite sets, sums over sets, ratios
ShardProofs <- ShardWrapProofs      the shard; with Len, and with counters that wrap
ShardedRingProofs, RetryWriterProofs, DataGeneratorProofs, HarnessProofs, ProfilingProofs (with Reports)
```

**Shard.** Each atomic operation and each access to `slot.value` is one action. `wpc` and `rpc` are
program counters: `load` is the top of the loop in `write` (103), `check` 108-111, `claim` 118,
`store` 125, `publish` 128; for the consumer `check` 155-157, `read` 162, `clear` 165, `release`
169, `advance` 172. `accepted` and `delivered` are histories. `tryRead` loads `readPos` once and it
alone writes it, so the model uses `readPos` for the local copy. `sync/atomic` is sequentially
consistent; the plain accesses may be interleaved in the same way because `NoDataRace` holds, which
is a result and not an assumption. Positions are natural numbers here; `ShardWrap` gives them a width.

**BoundedQueue.** The promise, without slots: `Claim` reserves the next place of a log, `Commit`
makes it visible in any order, `Take` removes in order. `Shard` implements it under
`log <- accepted`, `committed <- Committed`, `out <- Taken`, where `Taken` runs ahead of `delivered`
in the release window, since room is made by the store to `seq`, not by the one to `readPos`.

**ShardLen.** `Shard` with a goroutine that calls `Len`, two loads with anything in between.

**ShardWrap.** `ShardLen` as the machine runs it: every comparison in `write`, `tryRead` and `Len` is
made on positions modulo `Modulus`, 2^64 in the code. The variables keep the positions without the
wrap, so that the property that nothing is confused is simply `Spec`: the wrapped shard takes only
steps that `Shard` allows. That needs two things the code does not enforce, both assumptions of the
module: the size divides the modulus, and no goroutine sleeps between its load of `writePos` and its
compare-and-swap while the others go nearly once round the counter (`MaxLag`; at least 1, since 0
would forbid all competition).

**Routes.** `ShardsPerCycle` and `ShardsAt`: the shards a strategy tries in one cycle, used by both
`RetryWriter` (which shards must have refused before a cycle counts as failed) and `ShardedRing`
(where the values end up).

**ShardedRing.** A shard is its log, the committed places and the number taken: what `Shard` is
proved to implement. `RejectWrite` is allowed wherever `RejectionJustified` allows it (full, or a
competitor has claimed since; the model counts from the start of the attempt, the code from its last
load of `writePos`, so the model refuses a little more). Each producer writes with `ShardedRing.Write`
or with a strategy. What `RetryWriter` counts is left open: after a refusal the producer tries the
same shard again (`RetryShard`), goes to the next shard of the cycle (`MoveOn`), and after the last
one begins another cycle (`StartOver`) or gives up (`RejectWrite`), so every budget and every wait is
covered. A read is a loop of `TakeHead` and
`SkipShard`, and producers run between the steps. `TryRead` is a read with a limit of one item.
A call with `maxItems <= 0` takes nothing and only moves the start; it is left out.

**RetryWriter.** All strategies are one loop: try the shards of a cycle `MaxRetries` times each,
count the failed cycle, give up or wait. The module's operators say where they differ.
`WriteWithBackoff` is the strategy `"Direct"`, whose count is local to the call. Shards are
occupation numbers that other goroutines change. An attempt may be refused when the shard is full,
or when other producers compete (`Contended`), again by `RejectionJustified`. The number of attempts,
the budget and whether there are competitors are chosen in `Init`, zero attempts and no budget
included, for nothing in the code replaces a zero.

**DataGenerator.** High-rate mode is the schedule of `waitHighRate` with its busy-wait and its look
at the context every so many rounds; low-rate mode a token bucket (external, `x/time/rate`);
unlimited mode neither.

**Harness.** `mode` chooses between a suite (`RunTest`, `AddResult`) and a comparison
(`RunStrategyComparison`). The child is external: it may print any part of its output in the order
in which the logs under `integration-tests/output/logs` show it, then exit, die, hang or be killed.
A metric the parser does not find keeps its zero value, as in the code; the judgement is computed
from that. Rates are in Mb/s, those of the child and those expected of each test (`ExpectedTotalRate`);
a deviation in percent is compared by products, without rounding. Of its `[stats]` lines the model keeps
their number and their average, which may be any of `Rates` after each line. `Report` is what the
comparison report recommends, by the ratio of the rates achieved to the rates expected, each summed over
the runs that were measured (`ThroughputEfficiency`); among equal strategies Go's map order decides, so
it is a choice. What the tables are to say is `Tally`, the counts and sums over a set of results. The
lists of tests are constants; in the runs `MatrixRuns` has them generated by `TestMatrix`: a product of
parameter lists in the order of the nested loops, numbered from 1. Those of the suite are thinned by
filters without renumbering, those of the comparison are not filtered, as in the code.

**Profiling.** A file is the run that wrote it and whether it is whole; a history says whether a fault
left it behind, and where. The profiles directory is shared by all runs, types and sessions (`mem`, `heap` and `allocs` even share a file name); each
step of the move - rename, or else read, write, remove - may fail, and the errors of the last two
are not looked at in the code. The results of a test are analysed one by one (`AnalyzeRun`; `NextTest`
is the end of that loop); `go tool pprof` cannot read a trace and may fail on anything else. No type is
listed twice: test and type name a stored profile. `Restart` interrupts the harness and its child at any
moment and begins a new session, whose directory is named by the second: an empty one, or that of the
session before. What is left in the directories is then of an `Earlier` run. A session ends with
a report (`Reports`): every step of creating it, writing it and moving the link may fail or be the last
before a restart, and two sessions may report within the same second, which is the same file name.

## 3. What the runs show

| Run | Instance | Properties |
|---|---|---|
| `shard_safety` | 3 writers (symmetric), 2 slots, 2 values, six claims, three laps | `Inv` (the inductive invariant), `Fifo`, `NoDataRace`, `OverrunOnlyInWindow`, `RejectionJustified`, `AcceptedOnlyWithRoom`, `EmptyJustified`, `ImplementsQueue` |
| `shard_live` | 2 writers, 3 slots, an observer | `EverythingDelivered` under fairness, `LenNeverOvercounts` |
| `shard_one_slot` | 2 writers, 1 slot | violates `AcceptedOnlyWithRoom` |
| `shard_wrap` | 2 writers, 2 slots, counters modulo 6, two wraps, an observer | `ImplementsWide`, `LenOvercountsOnlyAtWrap` |
| `ring_safety` | 2 shards of 2; a `NextShard` producer with 4 values and a `Write` producer with 2 on one home shard; batches of 3 and single reads | `ProducerOrder`, `OvertakingBounded`, `ShortReadIsComplete`, `RotationIsFair`, `ShardsAreQueues`, `Inv` |
| `ring_liveness` | 4 shards; `SleepBackoff`, `Hybrid` and `RandomShard` producers on one home shard | `EverythingReceived` under fairness |
| `retry_safety` | 7 strategies and `WriteWithBackoff`, 0 or 2 attempts, no budget or 4 cycles, 3 calls, competitors or none | `WithinBudget`, `RefusedEverywhere`, `SleepsOnlyWhenIdle`, `BackoffCapped`, `CallsEnd`, `CallsSucceed`, `Inv` |
| `retry_budget` | `SleepBackoff`, a budget of 2, 2 calls | violates `GivesUpAfterMaxBackoffs` |
| `generator` | 3 modes, interval 2, time up to 5, 4 packets, short and long buffers | `NeverAhead`, `OneAfterCancel`, `StatsAlmostConsistent`, `CancelEndsRead`, `Inv` |
| `harness` | a suite of 4 combinations, 3 left by the filters; a comparison of 2 strategies with the expected rates 20 and 100; a child that reports the rate 100 or none, at most one `[stats]` line | `PassesAreEarned`, `EveryCombinationRun`, `TablesAgree`, `BestIsBest`, `LoopEnds` |
| `harness_killed` | the same, comparison only | violates `PassedMeansCleanShutdown` |
| `profiling` | 2 tests that share a file per type, 2 types (one a trace), 2 sessions, 2 seconds, every fault | `ForeignOnlyIfLeftBehind`, `NothingLost`, `AnalysedOnce`, `LatestIsWhole` |

`Inv` is the inductive invariant of its module, type correctness included; section 5 says what it is for.
The harness and the profiling session have theirs in `HarnessProofs` and `ProfilingProofs`.

**Why the bounds are enough.** `MaxPos` stops calls from *starting* at position 4; the calls inside
go on, so with three writers six positions are claimed. On two slots that is three laps: a
writer can hold a position loaded two laps ago, which is all the staleness the sequence numbers
distinguish. Three writers are needed for one to lose the race while two others publish out of
order. The proofs need none of these bounds. In the ring a batch of 3 is larger than a shard and
smaller than the ring, and `StartModulus` 2 lets the start wrap (2^64 in the code, a multiple of
the number of shards, as the model assumes). The roaming producer writes 4 values, so that 3 of them
are earlier than the last, one more than `OvertakingBounded` lets be overtaken; the
other producer fills the home shard and makes it roam. With 4 shards and one home the liveness run
sends values to all of them. `Modulus` 6 is three laps of 2 slots and `MaxPos` 13 two wraps; `MaxLag`
is as large as the assumption allows, and with one more lap (`MaxLag` = `Modulus`) TLC finds the
compare-and-swap that succeeds on a position of the previous round. The retry parameters are the smallest with a budget
that outlives a call, a backoff that reaches its cap, and a warmup followed by idle cycles;
`CountCap` saturates counters above every threshold that reads them. In the generator the buffer
may be shorter than the payload and the clock may stop for ever. In the harness a rate of 100
is the one expected, too high or too low, depending on the test, and a missing line is a rate of 0. The
strategies of the comparison differ in which of their runs are measured, and with unequal targets that
decides which has the higher ratio; `TablesAgree` is proved for any number of strategies and values of
GOMAXPROCS, of which the instance has one. Three
producers need four shards and so do four, which tells `nextPowerOf2` from its neighbours; the filters drop the third of four
combinations or the first of them, never the last, so that stopping at a rejected one is noticed. In the
profiling run a second session meets every leftover the first can leave. Every bound
is a CONSTANT; only guards that start new work use them.

**Fairness.** Weak fairness of a goroutine that is inside a call: the Go scheduler preempts and runs
every runnable goroutine. The consumer calls in a loop in every use the repository shows. Nobody is
forced to start a write, to cancel or to drain, and time need not pass. `CallsSucceed` has draining
(`DrainFairness`), no budget, at least one attempt and no competitors as its hypotheses; without each
of them it is false. `LoopEnds` assumes that the context's timeout fires and nothing
of the child. Compare-and-swap alone is not lock-freedom per writer: `EverythingDelivered` speaks of
accepted values, and no run claims that a single `write` finishes under unbounded contention.

Deadlock is checked in the runs whose system never stops. `CHECK_DEADLOCK FALSE` is set where it
may: after the last call with nothing left to drain, and after the last test of a harness.

## 4. What disagrees with the documentation

1. **A ring with one slot per shard overwrites unread values** (`shard_one_slot`; `ring.go:111`).
   The number of a published value, `pos + 1`, is that of "free for the next lap" when the size is
   1. The constructor accepts such rings, and `ring_test.go:21` tests that it does.
2. **`MaxBackoffs` is a budget for all calls of a `Writer`** (`retry_budget`; `strategies.go:27`).
   Documented as the number of cycles "before giving up"; `backoffCount` is only cleared by `Reset`.
   A `Writer` that has spent it gives up after one failed cycle from then on.
3. **A killed child can pass the strategy comparison** (`harness_killed`; `strategy_runner.go:128`).
   The exit code is ignored, and a missing "Clean shutdown" line is a duration of 0, within the
   limit that `integration-tests/README.md:102` states. `RunTest` does look at the exit code, and
   `PassesAreEarned` holds of it.

Smaller differences, which have an exact statement that holds instead of a run of their own:

* `README.md:623` promises that writers never overrun the reader. `writePos - readPos` can be
  `size + 1` inside the release window, harmlessly: `OverrunOnlyInWindow`.
* `ring.go:94` and `112` say a write is refused when the shard is full. It is also refused when a
  competitor overtook it between its load and its check: `RejectionJustified`.
* `ring.go:135` says `TryRead` returns false if all shards are empty. A shard whose head is claimed
  and not yet published counts as empty, whatever is published behind it: `EmptyJustified`,
  `ShortReadIsComplete`.
* `writer.go:60` and `README.md:252` give `MaxRetries` a default of 10. Nothing replaces a zero: a
  `Writer` or a `WriteWithBackoff` with a literal configuration that leaves it out makes no attempt at
  all, and without a budget never returns: `CallsSucceed` needs `MaxRetries > 0`.
* `README.md:571-578` calls `WriteWithBackoff` with a `Strategy` and says it "creates strategy state per
  call". The code (`writer.go:296-319`) does not look at `Strategy`: it is `"Direct"` in `RetryWriter`.
* `ErrInvalidSize` (`ring.go:10`) says the capacity must be divisible by the number of shards. The
  constructor rounds down instead, and also accepts shards whose size does not divide 2^64, whose
  slots are mixed up when a position wraps: `WidthAssumption` of `ShardWrap`.
* `Len` never counts too many (`LenNeverOvercounts`) except when the consumer wraps around between its
  two loads: it then counts nearly 2^64: `LenOvercountsOnlyAtWrap`.
* `AllStrategies` (`config.go:348`) "lists all available retry strategies" and leaves out `AutoAdaptive`.
* A report rewritten within its second is truncated while `report-latest.html` links to it, and stays
  so if the harness ends there: the exception in `LatestIsWhole`.
* A comment at `strategy_runner.go:414` says "lowest drop rate at GOMAXPROCS=1". The code names
  NextShard whenever its drop rate is below one percent there, and a strategy of which no run could
  be measured has a drop rate of 0, so that it may be the one recommended for low drops (`:446`):
  `ForContention`, `Report`; `BestIsBest` counts such a run as a drop rate of 0, as the code does.
* `profiler.go:131` says "Check if profile file was created". The code checks that one exists:
  `ForeignOnlyIfLeftBehind` says exactly when it can be another run's.

## 5. What is proved

For every value of the constants that the assumptions of the modules allow: any number of writers,
producers, shards, slots, values, tests, types and sessions, any bound on calls or time.

| Module | Theorems (and the properties they state) |
|---|---|
| `ShardProofs` | `TypeCorrect` (`TypeOK`); `Invariance` (`Inv`), `Delivery` (`Fifo`), `RaceFreedom` (`NoDataRace`), `Overrun` (`OverrunOnlyInWindow`), `Rejections` (`RejectionJustified`), `Acceptance` (`AcceptedOnlyWithRoom`), `Emptiness` (`EmptyJustified`), `Refinement` (`ImplementsQueue`) |
| `ShardWrapProofs` | with Len: `LenInvariance`, `NeverOvercounts` (`LenNeverOvercounts`); with counters that wrap: `WrapInvariance`, `WrapIsHarmless` (`ImplementsWide`), `QueueDespiteWrap` (`ImplementsQueue`, `Fifo`, `NoDataRace`), `AnswersDespiteWrap` (`RejectionJustified`, `AcceptedOnlyWithRoom`, `EmptyJustified`), `LenWraps` (`LenOvercountsOnlyAtWrap`) |
| `ShardedRingProofs` | `Invariance` (`Inv`), `HomeOrder` (`ProducerOrder`), `Overtaking` (`OvertakingBounded`), `ShortReads` (`ShortReadIsComplete`), `Rotation` (`RotationIsFair`), `RingOfQueues` (`ShardsAreQueues`) |
| `RetryWriterProofs` | `Invariance` (`Inv`), `Budget` (`WithinBudget`), `Refusals` (`RefusedEverywhere`), `Idle` (`SleepsOnlyWhenIdle`), `Backoff` (`BackoffCapped`) |
| `DataGeneratorProofs` | `Invariance` (`Inv`), `RateLimit` (`NeverAhead`), `Cancellation` (`OneAfterCancel`), `Statistics` (`StatsAlmostConsistent`) |
| `HarnessProofs` | `Invariance` (`Inv`), `Passes` (`PassesAreEarned`), `Tables` (`TablesAgree`), `Recommendations` (`BestIsBest`), `EveryTestOnce` |
| `ProfilingProofs` | `Invariance` (`Inv`), `ForeignProfiles` (`ForeignOnlyIfLeftBehind`), `ProfilesKept` (`NothingLost`), `Analyses` (`AnalysedOnce`), `LatestReport` (`LatestIsWhole`) |

**Assumptions.** `Size >= 2` is a hypothesis of the theorems about a shard (all but `TypeCorrect`) and
not of the module, because the code accepts 1, where they are false (finding 1); `ShardedRing` and
`RetryWriter` assume it, being about shards that are queues. `ShardWrap` assumes that the size divides
the modulus and bounds the lag (section 2). All others are what the code's types and constructors give:
naturals, non-empty lists, no profile type twice, a start that wraps at a multiple of the shards.

**Shard.** `Fifo` is not inductive: nothing in it says what a slot holds. `Inv` adds

* `CountersOK`: the histories have the lengths of the counters, and `writePos` is at most one lap
  ahead of `Released`, which is `readPos`, or `readPos + 1` in the release window;
* `SeqOK`: for each position `p` of the lap that starts at `Released`, the slot's number is `p + 1`
  if `p` is published and `p` otherwise. This is the protocol in one line, and `Released` makes it
  true in the window as well;
* `ValueOK`: a published position the consumer has not cleared holds its accepted value;
* `WritersOK`: a claimed position belongs to one writer; a writer that found its slot free either
  still has a free position or is going to fail its compare-and-swap. That is the ABA argument: a
  stale check does no harm since `writePos` never returns to an old value;
* `ReaderOK`: inside the slot, the head is published and the local copy is right.

Steps that change only a writer's or the reader's locals go through `QuietWriterStep` and
`QuietReaderStep`; the others have proofs of their own, one step per conjunct they disturb. `Size >= 2`
enters where the number of a published value must differ from that of a free slot (`FreeMeansRoom`).
For the refinement, `Claim`, `Publish` and `ReleaseSlot` map to the queue's steps, all others stutter.

**Len and the width of the counters.** `LenInv` adds that the `writePos` Len has loaded is not ahead of
the real one; both counters only grow, so the later load of `readPos` can only make the difference
smaller. `WrapInv` adds that a writer about to use its copy of `writePos` is at most `MaxLag` behind.
Of any two numbers that the wrapped code compares, neither is then ahead of the other by `Modulus`
(for the number in a slot because of `SeqOK`), so equal remainders mean equal numbers, and each step
of the wrapped shard is one of `Shard` (`StepWide`). With that, everything in `ShardProofs` holds of it:
`QueueDespiteWrap` and `AnswersDespiteWrap` say so of the queue and of the answers it gives.

**Ring.** `ProducerOrder` and `OvertakingBounded` speak of what the consumer has; they need to know
where everything is. `WritesOK`: each accepted value is in one place of one log, the values of a
producer in ascending order within a log, those of one that stays all in its home. `DeliveryOK`: the
consumer has exactly what is taken, once each, and that of one shard in the order of its log. A missing
earlier value is then in another shard and not taken, and `ShardsOK` bounds how many of those there
are. That count is of the moment of delivery, so `OvertakenFits` carries it along; it is proved with a
map of the overtaken values into the slots of the other shards and the lemmas on sizes of sets in
`Arithmetic`. `ScanOK` says that the shards a read has passed had nothing ready left: what lets a scan
that is not atomic speak of the moment it began. `RotationOK` bounds how often a shard may have been
passed over by its distance from the present start, which falls by one with each read, also where the
start wraps. For `RingOfQueues` each step is a step of a shard's queue or leaves that shard alone.

**Strategies.** The state of a `Writer` outlives its calls, so `Inv` must hold between them: `BudgetOK`
(inside a call the cycles so far are among the counted and below the budget), `CycleOK` (the shards of
the route before the present one have refused as often as they were to be tried: what `RefusedEverywhere`
says of the end, at every step), `IdleOK` (each failed cycle since the last success has run down the
warmup or counted as idle).

**Generator.** `ScheduleOK`: the packet in hand is not let out before its time. `BucketOK`: packets,
the one in hand and the tokens left never exceed what time and burst have given. `CancelOK`: at most
one packet was on its way at the cancellation. `BytesOK`: only the last packet may be missing from the
bytes, whose value after each packet is the history `due`.

**Harness.** `OneResultEach`: the results so far are those of the first tests of the list, in order.
`ChildOK`: a child that ended by itself has printed its shutdown line. With these and the types,
`PassesAreEarned`, `TablesAgree` and `BestIsBest` are inductive. The tables are a matter of `Tally`: a
result appended leaves the tally of a set without it as it was (`TallySame`) and adds one run to that of
a set with it (`TallyPlus`), which is what `updateStrategyMetrics` does to each counter (`UpdatedIsPlus`;
a run without a validation adds no rate, and its average is 0). The tallies contain sums over sets,
defined by recursion; that a sum does not depend on the order and grows by the element added (`SumAdd`)
is proved in `Arithmetic`. For the recommendations, the averages are ratios compared by products:
`GreatestRatio` finds one that none exceeds, so that the report names no strategy only when none
qualifies. The denominators are sums of expected rates, positive as soon as one run was measured
(`SumPositive`); that every strategy has been run by then (`AllStrategiesRun`) comes from `OneResultEach`.
TLC finds `TypeOK`, `ChildOK` and `OneResultEach` true on the instance of the `harness` run, which
checks the other three parts of this `Inv`.

**Profiling.** `FilesOK`: a file in the profiles directory is of the child in hand or has been left
behind by a fault, and of the child in hand if it has created it. `StoredOK`: one stored profile per
path, none of a run to come unless a session of the same second left it, and a foreign one only with its
excuse. `CopyOK`: what is about to be removed has been copied, unless the write failed. `ResultsOK` and
`AnalysesOK`: the loops are where their lists say. `ReportsOK`: the report is whole before the link is
touched. `NothingLost` speaks of steps: each whole profile is after the step where it was or at its path
in the session, except in the three cases the property names, and `CopyOK` is what excludes the others.
The `profiling` run checks the four properties that follow from this `Inv`; TLC finds `Inv` true on the
same instance.

**Only model-checked.**

* Liveness (`EverythingDelivered`, `EverythingReceived`, `CallsEnd`, `CallsSucceed`, `CancelEndsRead`,
  `LoopEnds`): fairness and ENABLED are beyond the prover.
* `EveryCombinationRun`: `TestMatrix` uses the bit operations of the community modules for
  `nextPowerOf2`, and the prover cannot read these. What does not depend on the matrix, that every test
  of the list has exactly one result, is `EveryTestOnce`.

Where a proof here needed an induction (least elements, sizes of sets, sums, the greatest ratio), the
lemma `SetInduction` of `Arithmetic` gives it for a set of naturals; it follows from the pigeonhole
principle, so that no theorem with an operator as a parameter is needed. No module the proofs use
declares a RECURSIVE operator.

## 6. Plan

Done, in this order: Shard, BoundedQueue and their proofs; ShardLen; ShardedRing; RetryWriter;
DataGenerator; Harness; Profiling; the strategies over the ring (Routes); ShardWrap; TestMatrix and
Reports; the proofs about ShardLen, ShardWrap, ShardedRing, RetryWriter, DataGenerator and Profiling;
the harness apart from its matrix (MatrixRuns), sums and ratios, and the proofs about Harness.
What could follow: a model of `nextPowerOf2` without the bit operations, so that `EveryCombinationRun`
can be proved for every matrix and filter.

## 7. Not modelled, and why

* *Wrapping positions on shards whose size does not divide 2^64*: the slots are mixed up at the wrap
  (see 4), which is 2^64 writes to one shard away; `ShardWrap` assumes the contrary.
* *Padding, boxing, allocation and pooling*: performance, no state that a property sees.
* *Presets of the writer and of the matrices, the literal test tables, names and statistics of a
  matrix* (`config.go`, `GetMatrixStats`): constants and wording. *What a report says*: formatting;
  the recommendations of the comparison are in Harness, the files in Reports.
* *Building the binary, log files*: plain I/O whose failure ends or does not touch the run.
* *`cmd/ring`*: its source is not in the repository; Harness has it as an external child.
* *The text of pprof* and the advice drawn from it (`analyzer.go`): parsing and wording.
* *Backoff durations and jitter* are modelled by integers in units of the run; sleeping is a step.
