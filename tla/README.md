# Verification of SymbFuzz

This directory holds TLA+ models of SymbFuzz, a hybrid RTL fuzzer that alternates
constrained-random simulation with bounded model checking (BMC), TLC runs on small
instances of them, and theorems about them proved with TLAPS for every value of the
constants.  Line numbers refer to the repository this directory belongs to; the map
from definitions to lines is in `PROJECT.json`.

## 1. The system

| Component | State it keeps | Operations | Hard behaviour |
|---|---|---|---|
| Campaign loop, `orchestrator.py` `run()` | `pending_replay`, `last_target`, `target_retries`, `unproductive_streak`, `_reg_attempts`, `global_cycle` | replay, judge, mutate, random batch, poll, pick, solve | one thread, but what the simulator, the reporter, the solver and the clock answer is arbitrary; polls change the bookkeeping under a running call |
| Coverage database, `coverage_db.py` | `coverage_points`, retired points, tiers, dead signals, exhausted goals, `_cycle`, `_last_new_cycle`, `_last_new_native_cycle`, narrow-signal cache | `record_state`, `record_coverage_snapshot`, `get_uncovered_coverage_target`, `promote_coverage_point`, `detect_dead_signals`, ... | several causes of permanent retirement; three clocks that are set by different callers |
| Checkpoint corpus, `corpus_store.py` | `corpus_entries`, the simulator session | `add_entry`, `restore`, eviction, `pick_deepest`, sampling | entries outlive the process and the RTL; restores fail half-way; the path is kept by the orchestrator, not by the store |
| Mutations, `mutations.py` | none | `havoc`, `splice` | operate on a restored path |
| Register probe and register targets, `validate_registers` and `get_unvisited_neighbor_target` | `design.registers`, `visited_states`, `_exhausted_targets`, `_dead_signals` | force, reset, read back; pick a value or a joint state; count states | the probe, the filter, the simulator and the database disagree on what the registers are; states outlive a campaign |
| Value classes, `value_classes.py` | `_sig_buffer`, table `value_class_hits` | classify, attribute at polls, diversification pass | the buffer is filled by whoever drives the design and drained by polls |
| Input bias, `input_bias.py` | window of draws, credit per port and value | sample, record, credit, seed from case labels | draws are recorded before they are driven, and rewarded by polls |
| BMC interface, `bmc_interface.py` | a subprocess | `find_sequence` | watchdog against the solver's own budget; every failure looks like UNSAT |
| BMC engine, `src/src/**` (C++) | depth | depth loop, query, witness extraction | two half-cycles to a cycle, sampled flops, a flip compares two samples |
| Drivers, `drivers/*.py`, `templates/*.j2` | pipes to the simulator process | `step`, `step_trace`, `force`, `reset`, polls | request and reply matched by order alone, no deadline, broken batches |
| State forcing, testbench generation, design parser, command line | none that changes | rendering, parsing | none of concurrency |

Interactions.  `run()` drives the simulator through a driver, records every state it
reads in the coverage database and, when it is new, in the corpus; polls copy the
simulator's native coverage into the database; the stall gate of the database decides
when a target is picked; a witness of the BMC binary is replayed on the next turn and
judged by a probe or by coverage; a failed call promotes the point to the next time
budget or retires it; mutation bursts restore a corpus entry first.

What makes each part correct:

* Campaign: expensive budgets are earned; nothing is retired without cause; no work is
  repeated; the loop ends; the streak that ends it counts distinct targets.
* Clocks and gates: gates open when the simulated cycles say so, and never keep a
  stalled campaign from the solver.
* Corpus: an entry leads to the state it is stored for, on today's RTL, or is evicted.
* BMC: a witness replays to its goal and is the shortest; "no path" is true; calls agree.
* Registers: the probe drops only what a reset cannot reach; no value or joint state is
  forgotten, and a campaign that ends as complete is.
* Feedback: credit and signatures stay with the poll window they were made in.
* Drivers: a call returns, with its own answer, and both sides count the same clock cycles.

## 2. Modules

| Module | Models | Uses |
|---|---|---|
| `Campaign` | `Orchestrator.run()` with the part of `CoverageDB` it schedules from | `FiniteSetsExt` |
| `TargetLadder` | abstract: what the tier machine of docs/ARCHITECTURE.md section 5 promises | |
| `StallClock` | the clocks, the stall gate, the dead-signal gate, the narrow-cache stamp, the poll cadence | |
| `DesignRuns` | what a simulator does when `step_trace` drives it: the states a run of inputs passes through | |
| `Corpus` | `CorpusStore` composed with every writer of `current_path` | `DesignRuns` |
| `BmcSearch` | one goal: `run_bmc`, `find_sequence`, cycle wrapping, replay, promotion | `DesignRuns` |
| `DriverLink` | `BaseStdioDriver` and the two servers, the Verilator harness and the Tcl bridge | |
| `RegisterTargets` | `validate_registers`, the picker of register values and joint states, the full-coverage check, campaigns on one database | |
| `Feedback` | `value_classes.py`, `input_bias.py` and the two windows `run()` keeps for them | |
| `MC_Campaign`, `MC_StallClock`, `MC_Corpus`, `MC_BmcSearch`, `MC_DriverLink`, `MC_RegisterTargets`, `MC_Feedback` | the designs and command lines the runs use | |
| `DesignRunsProofs` | induction over the natural numbers, and what it gives of runs | `TLAPS`, `WellFoundedInduction`, `SequenceTheorems` |
| `CorpusProofs`, `BmcSearchProofs` | theorems about the module of that name | `DesignRunsProofs` |
| `CampaignProofs`, `StallClockProofs`, `DriverLinkProofs`, `RegisterTargetsProofs`, `FeedbackProofs` | theorems about the module of that name | `TLAPS`, `SequenceTheorems`, `FiniteSetTheorems` |

### Campaign

One turn of the loop is cut where the environment answers; `phase` says which answer is
due: `seeds` (seed runs and the forced poll before the loop), `loop` (top of the loop), `judge`
(a replay was driven), `explore` (mutation burst, then random batch), `pick` (the stall gate is
open), `solve` (the BMC binary runs).  `Seeds`, `Replay`, `JudgeProductive`,
`JudgeUnproductive`, `MutationBurst`, `RandomBatch`, `PickPoint`, `PickGoal`, `SolveSat`,
`SolveNone`, `Timeout`, `SimulatorFails` are the stretches of `run()` between these cuts; the poll
(`Poll`: a snapshot with the dead-signal sweep that is part of it, or no answer) and the state
recording (`RecordStates`) are conjuncts of the actions that call them.

A point is a model value with a kind: rising or falling bin of a flop, wire, `alien` (a bin
whose signal the design does not have, so `_toggle_target_to_bmc_target` returns None) or source
line.  `Key` gives the BMC target: two points may share one.  A goal is a register value of
the neighbour picker.  `known` is the state of `coverage_point_universe`: empty until the first
snapshot of a fresh database, there from the start in an old one; the total that
`is_native_complete` compares with is of this campaign's snapshots only.  `room` bounds the
states still to be found: any of them, not only one that reaches a goal, makes a burst or the
replay of a goal productive.  `verdict` is `_narrow_effective_cache` by signal name: verdicts are given
when first asked for, and dropped by a snapshot with new points, or kept where the stamp of the
cache happens to come back (`StallClock`).  `retired` keeps the cause of a
retirement, which the code does not; `failed` is a history variable: the tiers on which a call for the
point failed, what `bmc.jsonl` logs.  `attempts` counts up to `Budget + 1`, no comparison
tells more apart.  Whether a stall gate is open at a poll is left open here
(`RandomBatch(TRUE)`, `RandomBatch(FALSE)`): that is `StallClock`'s subject.

`Fetches` is the query with its limit, toggles first and otherwise in any order; `Cheapest` is
the sort by tier, which is stable; the rarity ranking of toggles is left open.

### TargetLadder

Each point has a rung, is hit, closed, or busy; at most one is busy; failing climbs one
rung or closes at the top (anywhere for padded signals); nothing hit or closed is started.
`Campaign!Ladder` maps rung to `tier`, hit to `covered`, closed to the retired points, busy
to the point aimed at.

### StallClock

`globalCycle`, `cycle`, `lastNew`, `lastNative` are the four counters of the code.  A BMC
replay sets the first back to 0 while the second keeps its maximum and new events are
stamped with the first.  `idle` and `nativeIdle` are history variables with the cycles
that really passed.  The properties compare what the gates do with them.

`RandomBatch` ends with the computation of the stall, whose verdict is kept in `phase`
(`stalled`, `running`); `DiversificationPass` may come between it and `Gate`, whether it finds a state or
not, and moves the clocks; `Gate` uses the verdict.  Then a target is taken up: `GiveUp` (the same
target for the fourth turn), `Precheck` (a forced state is recorded at the present cycle, no cycle is
made), `BmcNone`, or `Replay`.  A promotion may or may not ask for a narrow-effective verdict
(`MayQuery`): register goals, points at the top tier and points that are no toggles do not.

### DesignRuns

`Trajectory(next, from, inputs)` is the recursive function of the state after each number of
cycles, `Run` its last value, `Through` the states a caller of `step_trace` gets to see.  `Corpus`
and `BmcSearch` share it: the same simulator runs batches and replays.

### Corpus

The design is any deterministic machine `[States \X Inputs -> States]`, with the set of states that a
reset may leave for each state it is applied in: a reset is some clock cycles with the reset port
asserted, registers without a reset clause keep what they have or follow the inputs, and where there is no reset port
all of them do.  `path` is `current_path` with, as a history field, the state it was
begun in; the store keeps the inputs only.  `Drive` is `_batch_step_and_track` followed by `_record` for each
state, in that order; `Dies` is a process that ends while these are recorded, between any two commits.
`setting` says which of four things may happen in a history (replays, mutations, forced
states, broken batches and crashes).  Restoring resets and drives the stored inputs, and compares the state reached
(`Verified`).  A BMC replay has any number of cycles, none included.  `ForceMatch` forces a recorded state and records what is
read back with the path as it is.  `clean` is a history variable: FALSE after a step that may
leave path and simulator apart (`Untidy`: a failed restore, a forced state, a replay from a
zero state that no reset leaves, an RTL edit).

### BmcSearch

A trace of the solver gives every step a clock and inputs.  `Flops` is the transition chain of
clk2fflogic: a flop takes over when the clock was 0 and is 1, and an asynchronous reset (`rst`,
`clear`; yosys is run without async2sync) acts in every step whatever the clock, also in the step after it is released.
`Sample` is what a query sees of a flop (its sampler, one step late), `GoalHolds` the assertion at the
last step, `Solutions` the traces that satisfy the query, none where the initial values of the design (`init`) contradict the zeros
asserted for the same flops; `Inspect` are the steps whose inputs `get-value` asks for.  The
solver is exact: `SolveSat` takes any trace that satisfies the query of this depth,
`SolveUnsat` requires that there is none; it may give up (`SolveUnknown`), crash (`Fail`) or be
killed (`Kill`) at any point, so seconds need no clock.  `CycleInputs` is
`_bmc_steps_to_cycle_inputs`, a recursion over the steps like the code's loop; `Simulate` is the simulator from the
forced zero state, with `Cycle`, the two evaluations of the harness's `clk_posedge`, where a reset acts at once.
Each design also has one wire.  `log` is `bmc.jsonl` with
one history field, `proved`: an "unsat" the loop ended with, not a solver that gave up.

### DriverLink

`requests` and `lines` are the pipes.  The simulator is abstracted to `ticked`, its clock
cycles since reset, and the driver's callers to `counted`, the cycles they account for.  Replies
carry the number of the request they answer, which real lines do not: `OwnAnswer` is about it.
The Tcl bridge looks for a command word with its quotes anywhere in the line (`*"step"*`), so
only a signal whose whole name is such a word is taken for one: `inputs` and `registers` of a build say
which of these names the design has, and `TclOrder` is the order of the tests.  What the design prints is assumed not to be a
JSON object.  `garbled` is a history variable: the reply to this call was no JSON.

### RegisterTargets

A design gives each register a kind: a flop with a reset clause, one that holds its value or
takes another while reset is asserted, a stub the simulator folded, a name the harness does
not show.  `ProbePattern` is one turn of `validate_registers` (force, reset, read back, count),
`ProbeDone` replaces the list.  `tracked` is `design.registers`, from which the picker works;
a state is a function on `Shown`, all registers the simulator reports, tracked or not; stubs show what
the probe left in them.  `Offers` has the three loops of the picker, `Pick` takes the first
in the order of its loops (`Before`).  What comes of a target is open: a replay that records a new state
(`FindsState`), one that finds native points only (`FindsPoint`), or a failure.  `Restart` is a new
campaign on the same database, after any end or crash.

### Feedback

`window` and `table` are the input-bias model's (a value has credit or none), `buffer` is
`_sig_buffer`, `hits` the table `value_class_hits`.  The five sources of inputs differ in what they feed:
`RandomCycle` both windows, `SeedCycle` the draw before one port is pinned, or two where the
extremes are crossed, the other three the buffer only.  The reset port is one of `data_inputs`, which leave out only the clock: it is
drawn, credited and classified, and then overwritten (`WithReset`).  `Poll` is what
`_poll_native_coverage` does with a snapshot: credit, then attribution to covered points short
of their target, then a fresh buffer.  `drawn` and `driven` are history variables: everything
drawn or driven since the last snapshot.  `Classify` and `Representatives` are functions of value
and width (the alternating patterns are 64-bit constants cut to it); `MC_Feedback` states as assumptions, which TLC evaluates for all widths up to
ten, for which classes a representative is of its class.

## 3. Runs

| Run | What it shows | Bounds |
|---|---|---|
| `Campaign_core` | types; tiers are earned (`TierEarned`); the streak is paid for by distinct targets (`StreakPaidFor`); no budget is spent twice (`NoRepeatedWork`); the query's limit hides no open toggle while the uncovered toggles fit into it (`TogglesNotCrowdedOut`); the ladder is implemented | a register with both bins, a wire, a line, a goal; 3 tiers; streak limit 2; query limit 2; 2 new states; dead-signal filter on |
| `Campaign_levers` | every retirement has its cause (`RetiredForCause`) and narrow signals a live sibling (`NarrowHasLiveSibling`), with everything that retires on: tiers, dead-signal filter, budget, narrow signals with cached verdicts; aliases, an untranslatable bin, a query limit below the universe, witness mutations, small state space, a duplicated coverage row | 4 points of one signal, a goal; 2 tiers; budget 2; query limit 2 |
| `Campaign_ends` | the campaign ends without its wall clock, or forces states for ever (`Termination`), with the pre-check on, two bins that share the retry counter, a line, a duplicated row | 3 points, a goal; 2 tiers; no streak limit |
| `Campaign_fall` (violation) | a falling bin of a zeroed register is judged unproductive although the poll shows it covered | 1 point |
| `StallClock_gates` | until the first replay gates are exact (`GateExactUntilReplay`), the sweep is quiet, cached verdicts are fresh; after replays BMC is never kept waiting (`GateNeverLate`) | gates of 3 and 5 cycles, batches of 2, replays, seed runs and passes of none and 3 cycles, 2 discoveries, 2 targets taken up; 6 command lines |
| `Corpus_all` | types; entries are for recorded states; `current_path` leads to the simulator's state and entries pass through theirs as long as the campaign is clean; a restore passes through the entry's state where a reset leaves one state (`ReplayIsDeterministic`); bursts write true paths whatever happened before | two states, two inputs, three RTL revisions (a toggle with reset, an edit of it, the toggle that a reset leaves alone), paths up to 3; two settings with replays and mutations: broken batches and crashes, or forced states |
| `BmcSearch_all` | types; witnesses whose resets are all replayed lead to their goal (`WitnessReproduces`), in the fewest cycles (`ShortestWitness`); running out of depths means there is no path, where the initial values allow the zero state (`UnsatIsHonest`); all witnesses of a goal are equally deep (`DepthIsTheGoals`) and deeper than what was refuted (`RefutedStaysRefuted`) | 7 designs of 3 states and 2 inputs, three with an asynchronous reset, one with an initial value; 7 goals of every sort; tiers of 3 and 6 steps, 4 for a register value; 3 calls |
| `BmcSearch_wire` (violation) | the witness for a wire does not drive it to its value | as above |
| `DriverLink_all` | types; no call gets another's answer (`OwnAnswer`); it was served by its handler (`ServedAsSent`); cycles are accounted for (`CyclesKnown`); every call returns (`CallsReturn`) | 3 calls, batches of up to 2; Verilator with and without coverage, xsim without and with inputs or registers called `step` or `reset` |
| `RegisterTargets_all` | types; a flop with a reset clause is never dropped (`ResettableKept`); a drained campaign has seen or given up every value and joint state (`NoneMeansDone`); one that ends as complete has every joint state (`FullMeansAll`); targets are new as long as single values are left or no register is missing from the list (`OffersUnseen`); targets run out (`TargetsRunOut`) | 3 registers of 4, 2 and 2 values; 4 designs of every kind, one without reset port; 2 campaigns |
| `RegisterTargets_joint` (violation) | with a dropped stub the picker offers recorded values of a flop as joint states | a stub and a flop of one bit |
| `Feedback_all` | types and window caps; credit only for draws since the last poll, when it found something (`CreditIsEarned`); signatures only for covered points, from the window that ends (`AttributionInWindow`) | a one-bit input with a case label and the reset port, one point, target 2, samples of 2, windows of 2, up to 3 cycles between polls |

Why the bounds suffice.  Bookkeeping of one point depends on the others through the dead and
narrow percentages, the tier order and the query limit: two bins of one signal, a second
signal and a tier in the middle reach every branch, and the runs' coverage shows that every
action and disjunct fires.  5% and 30% of a signal's bins need more bins than a run has to
be hit exactly; the models keep the formulas, and the theorems hold for every number.  The
gates of `StallClock` are shorter and longer than a batch and than the replays, and do not
divide each other.  Each counter there is bounded by `Finds`, `Calls` and the gates: without
a discovery the gate opens, and an open gate costs a call.  The query limit of 256 cannot bind on four
points: `Campaign_core` and `Campaign_levers` set it to 2, where two rows of four are what 256 are of a
larger universe.  `NewStates` bounds what a campaign finds; the states of a design are finitely many.  In `Corpus` the
edit and the unresettable design make stored paths wrong in both ways there are; `MaxPath` allows a restored
path plus a batch, and a batch plus a burst.

In `RegisterTargets` the reset values 2 and 0 of the flops equal probe patterns, the widest register is not always the first
with a value left, and the joint space of the registers left is smaller than what the table can
hold; in `Feedback` three cycles overfill windows of two, odd and even halves of the buffer differ
from both, and a second poll sees what the first should have drained.

In `BmcSearch` a tier
ends once between a rise and a fall of the clock and once after it, the lock needs two cycles with
the right inputs in the right order and the latch has goals that are never reached; of the resets one sets
everything to zero, one sets a flag, and one leaves a flag alone.  In
`DriverLink` a reply out of step shows in the second call, and a third sees it persist.

`CHECK_DEADLOCK FALSE` is set where the program really stops (`phase = "ended"`, a goal that is
done, a closed process, or the bound on calls).

Fairness.  `FairSpec` has weak fairness on `Progress`: one thread runs the loop and every
call in it returns (the BMC call has a watchdog; a driver call returns unless its
reply is garbled, `CallsReturn`), and strong fairness on `RandomBatch(TRUE)`: a campaign that keeps exploring
without finding anything is found stalled.  `GateNeverLate` of `StallClock` is what justifies
the latter: once `StallCycles` cycles brought nothing new the next gate is open, and there are
finitely many new things.  It needs `value_class_bias` off and a source other than
`value_class`.  The timeout gets no fairness: `Termination` says what the loop does without its wall clock.  It does not
say that every campaign ends.  With the pre-check (lever 5) on, a bin whose goal bit some recorded state
holds is forced, not solved; nothing retires it, the fourth turn in a row only gives up a key that is never looked up
for coverage targets and starts counting again, and so on until the wall clock, unless a poll shows the
bin: this is the alternative `[]<><<Forced>>_vars`.  And `Termination` assumes that a bit the probe saw
toggling is shown by the reporter; see the note on grey toggle rows in section 5.
`FairSpec` of `DriverLink` has weak fairness on the process reading its input and on
the driver reading its pipe, not on death or close.  `FairSpec` of `RegisterTargets` has weak fairness on the work of the one thread
and on `RandomBatch(TRUE)`, which `Campaign` and `StallClock` justify as above; none on `Restart`.

## 4. Theorems

All are proved for every design, tier table, limit and option that `CampaignAssumption`,
`SearchAssumption`, `CorpusAssumption`, `LinkAssumption`, `StallClockAssumption`, `TargetsAssumption` and `FeedbackAssumption` allow (finite sets of points and goals, at least one
tier, at least one input vector that does not reset, ...), none for a fixed instance.

| Theorem | States |
|---|---|
| `TypeCorrect` | `Spec => []TypeOK` |
| `BooksInvariant` | `Spec => []Books`, the inductive invariant |
| `TiersEarned`, `RetirementsJust`, `WorkNotRepeated` | `[]TierEarned`, `[]RetiredForCause`, `NoRepeatedWork`, from it |
| `CampaignImplementsLadder` | `Spec => Ladder!LSpec`, the refinement |
| `StreakIsPaid` | `[]StreakPaidFor` |
| `NarrowIsAlive` | `[]NarrowHasLiveSibling` |
| `OpenTogglesAreSeen` | `[]TogglesNotCrowdedOut` |
| `CorpusInvariant`, `TypeCorrect` | of `Corpus`: the inductive invariant and `[]TypeOK` |
| `EntriesAreVisited`, `PathLeadsBack`, `EntriesAreOnTheirPath`, `BurstsAreTrue` | `[]EntriesVisited`, `[]PathReproduces`, `[]EntriesPassThrough`, `BurstsWriteTruePaths`, from it |
| `ResettableIsDeterministic` | `[]ReplayIsDeterministic`, the README's deterministic replay, in designs whose reset leaves one state |
| `SearchTypes`, `AnswersInOrder` | of `BmcSearch`: `[]TypeOK` and the inductive invariant `[]SearchedInOrder` |
| `SameDepthOnEveryTier`, `RefutationsHold` | `[]DepthIsTheGoals`, `[]RefutedStaysRefuted`, from it |
| `WitnessesReproduce`, `WitnessesAreShortest`, `RefutationsAreHonest` | `[]WitnessReproduces`, `[]ShortestWitness`, `[]UnsatIsHonest`: half-cycle model and simulator agree |
| `LinkInStep`, `TypeCorrect` | of `DriverLink`: types, the inductive invariant `InStep`, and the history's books |
| `AnswersAreOwn`, `CallsServedAsSent`, `CyclesAreKnown` | `[]OwnAnswer`, `[]ServedAsSent`, `[]CyclesKnown`, from it |
| `StallInvariant`, `TypeCorrect` | of `StallClock`: the inductive invariant and `[]TypeOK` |
| `SweepIsQuiet`, `CacheIsFresh`, `GateIsExact`, `GateIsNeverLate` | `[]SweepQuietUntilReplay`, `[]CacheFreshUntilReplay`, `GateExactUntilReplay`, `GateNeverLate`, from it |
| `TargetsInvariant`, `TypeCorrect` | of `RegisterTargets`: the inductive invariant and `[]TypeOK` |
| `ResettableStays`, `NoneIsDone`, `OffersAreUnseen` | `[]ResettableKept`, `[]NoneMeansDone`, `[]OffersUnseen`, from it |
| `FullIsAll` | `[]FullMeansAll` |
| `FeedbackInvariant`, `TypeCorrect` | of `Feedback`: the inductive invariant and `[]TypeOK` |
| `CreditNeedsCoverage`, `AttributionStaysInWindow`, `HitsStayBounded` | `CreditIsEarned`, `AttributionInWindow`, and that no point gets more signatures than its target and a sample |

The argument.  `RetiredForCause` is not inductive.  It knows what an unretired point has
failed on, but the point being solved may be retired by a dead-signal sweep during the poll
of its own replay; afterwards nothing in it says that the call was made on a fresh tier.
`FreshAim` adds that: the point aimed at has failed on exactly the tiers below its own.  It
holds when the point is picked because the picker only offers unretired points (`OfferIsFresh`),
and nothing between pick and judge touches tiers or failures.  `LiveVerdicts` adds that a cached narrow verdict had a
covered sibling when it was given, and covered points stay covered, so a stale one is no worse.  `Books` is the
conjunction of the types, both invariants, `LiveVerdicts` and `FreshAim`.  Steps are grouped by what they do to the books:
`BooksUndisturbed` (most), `BooksPolled` (polls), `BooksJudged` (a failed call), and `PickGoal`'s
budget retirement.  `StreakPaidFor` has the same weakness and a stronger form, `Paid`: the streak
is paid for by targets other than the one being worked on, so the one that fails next is
always a new one.  The ladder refinement takes `Books` for its steps.
`TogglesNotCrowdedOut` follows from what the query is, in every state of the right types: a subset of a finite set that is
as large as the set is the set, so a limit that the toggles fit into fetches all of them.

`DepthIsTheGoals` compares two entries of a log and says nothing of the search that makes the
third.  `SearchedInOrder` does: while `run_bmc` stands at depth k, no depth from `MinDepth` to
k - 1 has a solution; so a witness has the first depth with a solution, which depends on design
and goal only, and a refutation has passed every depth of its tier.  The proof uses nothing
about what a solution is but that design, goal and depth determine it.

`OwnAnswer` speaks of finished calls.  `InStep` says why: at most one request is under way and
then nothing is written; of what is written only the last line can be a reply, to the
present call, and what the driver will count from it brings its count to the simulator's; when no
call is waiting both pipes are empty.  A process that dies keeps its last lines, a closed one
nothing.

`GateNeverLate` must hold after replays, when neither `global_cycle` nor the stamps mean anything.
The invariant, `InTime`, is a disjunction: either the gate's difference already reaches the
threshold, and then no batch without an event can shrink it because `_cycle` never falls; or
`global_cycle` is at least the idle cycles ahead of the stamp the gate looks at.  A replay sets
`global_cycle` to 0 and breaks the second, but BMC is only called with the gate open, which
is the first.  `Exact` is the same for the time before the first replay, in both
directions: the stamp plus the idle cycles is `global_cycle`, or one less.  Between the computation of the stall and the
gate the verdict stands for the cycle before this turn's diversification pass, and `pass` says by how much.

`ResettableKept` needs the count of leaks during the probe: of the patterns done, a flop with a
reset clause has leaked at most those equal to its reset value, and the first and the last
differ.  `NoneMeansDone` and `OffersUnseen` speak of a moment after the pick; the
invariant `OfferStands` keeps the target among what the picker offered until it is judged.
`CreditIsEarned` and `AttributionInWindow` need that what waits in a window was drawn or driven since the
last snapshot (`Fresh`), which is true because both windows are drained by the same poll.

Induction.  The induction rules of the library take a predicate as a parameter, which the provers
cannot instantiate.  `DesignRunsProofs` goes around them: `<` is well-founded on the natural
numbers, a well-founded relation gives every nonempty set a least element (`NatLeast`; both facts are about
sets), and so a set that holds 0 and with n also n + 1 holds every number (`NatSetInduction`).
From it come that the recursion behind `Trajectory` has a solution and only one, that it stays
among the states of the design, and that a run continued is one run after the other (`RunConcat`).

`CorpusInvariant` has two parts for two kinds of history.  In a clean one `current_path` leads from a state that a
reset may leave, the one it was begun in, to the simulator's state, and what a batch records is on the path that is recorded with it, because the path
already ends with the batch.  In any history the path is true between a verified restore and the end of
the burst after it (`BurstReproduces`), which is all `BurstsWriteTruePaths` needs.  `SeedSeen` says that the state a seed run stands in is
recorded: the poll after the seeds stores an entry for it.  A restore of today begins where today's reset leaves the design, not where the path was
begun: the two are one state when every reset leaves one, and then (`ResettableIsDeterministic`) replay is deterministic.

The theorems about witnesses translate between two time scales.  In one direction (`WrapKeepsPace`): by induction
over the steps of a trace, as long as each step that resets is followed by a rise, the cycles wrapped so far lead the simulator where the flops were in the step
before, and two cycles cannot be closer than two steps, as a rise needs a clock at 0.  So a solution at depth k
wraps into at most k/2 cycles which end where the query looks.  In the other (`AlternatingFlops`): the trace that
holds each input for two steps, clock low and then high, has after 2j - 1 and 2j steps the flops
the simulator has after j cycles; so a run of n cycles that meets the goal is a solution at depth 2n, or at 1 when n is 0, or up to
2n - 1 for a wire.  Were it shorter than a witness, or within a refuted tier, `SearchedInOrder` would not hold.

`FullMeansAll` compares a count with a product.  No product has to be computed: what recorded states say of
the registers left is an injection into their joint states, since dropped stubs show a constant
(`TracksTellApart`), and between finite sets of the same size an injection hits everything.  That
the recorded states are all readings of the same simulator, across campaigns, is the invariant `Counted`.

Only model-checked: `Termination`, `CallsReturn` and `TargetsRunOut` (liveness under fairness is out of
TLAPS's reach here).  Every other property of a passing run is a theorem.

## 5. What the models say about the code

The three violation runs are disagreements with the documentation and docstrings; `PROJECT.json` quotes the
lines.  Further observations made while modelling, each read in the code.  First those where the code does not keep what
a document says of it; the properties of section 3 state what it does keep.

* The target query takes 256 of the uncovered rows and drops retired points afterwards (`coverage_db.py:603-638`).  With more
  uncovered toggles than that, a point on a higher tier can be solved while one on tier 0 waits, against
  docs/ARCHITECTURE.md:151, and the answer can be None although points are open, against the docstring (588).
  With fewer, `OpenTogglesAreSeen`.
* The rows left are sorted by tier alone (`coverage_db.py:632`).  A line of source stays on tier 0, since BMC cannot be asked about
  it, and so comes before every promoted toggle; the docstring says toggles come first.
* `is_native_complete` compares distinct covered ids with the number of rows of the report (`coverage_db.py:667`).  Rows that share an
  id (lines and branches of two instances of a module) keep a campaign with nothing left to cover from ending as complete.
* After a replay the stall gate can open before `--stall-cycles` cycles have passed since the last discovery, as a discovery is stamped with the
  restarted clock and compared with one that is not (`coverage_db.py:150`); for the same reason the dead-signal sweep can run in the
  poll that records new points (536), and a narrow-effective verdict can outlive a discovery (468).  Without any replay the gate opens although the
  diversification pass of the same turn has just found a state (`orchestrator.py:1199`).  USER_MANUAL.md:167 and 249 and the
  docstring at `coverage_db.py:453` say otherwise; the properties that end in `UntilReplay` say how far they are right.
* A batch is on `current_path` before its first state is recorded (`orchestrator.py:329`), so every state but the last of a
  batch is stored with inputs that lead past it, and its restore evicts it as stale; ARCHITECTURE.md:112 speaks of the inputs that
  produced the state.  `EntriesPassThrough` is what holds.
* Replay is deterministic (README.md:11) where a reset leaves one state.  It sets only registers with a reset clause, by the reset port
  (`verilator_harness.cpp.j2:272`); elsewhere a restore starts from what the campaign has left.
* A witness may assert an asynchronous reset in a step that no rise of the clock follows; the wrapping drops the step
  (`orchestrator.py:355`) and the replay ends elsewhere.  `WitnessReproduces` excepts such witnesses.
* The query asserts the initial values of the design beside zeros for the same flops (`smt2_builder.cpp:43`): one initial value other than zero makes every
  depth unsatisfiable, and a path that exists is answered with "no path", against bmc_engine.h:18.

The others:

* A bin whose probe hits but that the reporter never shows (a grey toggle row) stays
  productive and open: it is solved and replayed again and again.  `Termination` assumes it away.
* docs/ARCHITECTURE.md:149 says a point that UNSATs is promoted; on a narrow-effective signal it
  is retired instead (`coverage_db.py:444`).
* The per-register budget is counted for register goals but only checked for points
  (`orchestrator.py:1220`, `1288`).
* After a forced pre-check match the point stays open and no call is made
  (`orchestrator.py:1281`).  On the fourth turn the target is given up (1257), which marks a register key that
  is not looked up for coverage targets and sets the retries back: the same point is forced again, three turns of four,
  until a poll shows it, a sweep or the dead-signal filter retires it, or the wall clock ends the campaign.
* A pick before the first snapshot of a fresh database sees no points (`coverage_db.py:324`), turns to register goals and
  ends the campaign when there are none; the picker's docstring allows None for an empty universe.
* A diversification pass that finds a state after the stall was computed can, after the next replay, also keep
  the stall gate shut; one that finds nothing makes the gate late by the length of the pass.
* The value-class stall reads a clock that a replay sets back (`orchestrator.py:1195`), and
  `--value-class-stall` is stored but not read there.
* A failed restore leaves `current_path` describing the run before it (`orchestrator.py:854`), and
  a replay from a forced zero state records a path that does not start from reset.
* The `.wdb` restore tier is unreachable: the constructor downgrades the modes that use it.
* `_step_and_track` (`orchestrator.py:281`) is never called, so the predicate module and the
  second simulator it consults "every cycle" (docs/ARCHITECTURE.md section 9) are never used.
* A falling or rising bin of a one-bit wire is asked of the solver without its goal
  (`BmcSearch_wire`); its first answer is the trace of depth 1.
* "Unknown" and "no path" share exit code 2 (`bmc_engine.cpp:43`, `main.cpp`), and both are logged as unsat.
  The per-call timeout is set on a solver object that the query does not use.
* In xsim a force of a register whose whole name is `step` or `reset` is served as a step or a reset: the bridge
  looks for the quoted word anywhere in the line, tests for these two before `force`
  (`tcl_bridge.tcl.j2:240`, `250`, `273`), and answers as if all was well.  Inputs of these names do no harm, since the commands that
  carry inputs are tested for first; nor do longer names.
* A register that is unknown in xsim prints as `x`, and text printed without a newline stands before
  the brace: either way the reply is skipped and `_recv` waits for ever.  The campaign's
  timeout is only read between calls.
* docs/ARCHITECTURE.md:241 says every command returns one line and errors never crash the harness.
  The harness has no branch for a command it does not know, and outside batches a Tcl
  error or a C++ exception ends the process.

* An unproductive goal is promoted because a deeper witness may do better (`orchestrator.py:1108`), but
  the search starts over from the first depth: `DepthIsTheGoals` proves that every witness is
  as deep as the first.
* `validate_registers` speaks of two patterns (`drivers/base.py:209`); there are three.  A flop without a reset
  clause that holds its value is dropped like a stub; `FullMeansAll` then no longer holds, since
  the states counted are those of a register that changes.
* `representative_value` promises a value of the class (`value_classes.py:62`): for powers of two it may return 1 to
  8, which are one or small, and for alternating bits of five-bit ports a small value.  Below five
  bits only zero, one and small exist, so most signatures a pass looks for have no input.
* The reset port is among the ports drawn, credited and classified, and is overwritten before the
  design sees it: a signature that varies it is never driven, and a pass whose missing
  signatures all do may stay with one point for ever, as the picker prefers the fullest
  point (`coverage_db.py:383`; its docstring says "fewest").
* Seed stimuli credit the value drawn for the pinned port, not the value pinned, and a batch that breaks
  credits draws that were never driven; points found by replays or mutation bursts credit the
  random draws of the same window.
* docs/ARCHITECTURE.md:190 attributes signatures to newly covered points; the code attributes to every
  covered point under its target.  ARCHITECTURE.md:212 says input bias needs no RTL parsing; it
  is seeded from case labels.
* `driver.load()`, the probe and the constructors of corpus and orchestrator run before `cli.py` enters the
  `try` whose `finally` closes the driver (501-571): an error there leaves the simulator process
  running.  The second driver is never loaded or closed.
* The command line is documented to win over the YAML file; `--no-...` flags, abbreviated options and
  positional files are overwritten by it (`cli.py:119`).

## 6. Not modelled

Seconds (the watchdog's margin, tier budgets), a killed solver told apart from a refutation (the code does not), amounts of credit and their decay, which eight signatures a
diversification pass tries, corpus sampling energies and the meta table, the rarity ranking of toggles, `step_raw` and
`checkpoint` (the run loop sends neither), several goals in one solver call, reporting
queries, and everything that renders or parses text.  The text of the SMT formula is
out of TLC's reach; `BmcSearch` has its meaning.  `backups/` is an old copy of the sources, and the grammar, examples and benchmark data are
not the program.

## 7. What is left

1. The safety half of the liveness properties as theorems: that each turn of the loop lowers a measure
   (open tiers, unseen values, requests under way) unless the environment brings something new.
2. A composition of `StallClock` and `RegisterTargets` that would replace the fairness of the latter
   by the gate's own behaviour; `GateNeverLate` is the link between them today.
3. An abstract specification of a remote call (asked, then answered or broken) that `DriverLink` implements.
4. Corpus sampling energies: probabilities of restores that are all possible in `Corpus`.
5. The merge of YAML file and command line (`cli.py:94-137`), a pure function of two dictionaries.
