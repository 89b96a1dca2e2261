----------------------------- MODULE StallClock -----------------------------
(***************************************************************************)
(* The clocks of a campaign and the gates that read them: run()'s          *)
(* global_cycle, CoverageDB's _cycle, _last_new_cycle and                  *)
(* _last_new_native_cycle, the stall gate that decides when BMC is asked,  *)
(* the gate of the dead-signal sweep and the stamp of the narrow-effective *)
(* cache.  A BMC replay sets global_cycle back to 0, and new coverage is   *)
(* stamped with it while _cycle keeps the maximum: what the gates measure  *)
(* then is not what the simulator did.  idle and nativeIdle are history    *)
(* variables: the cycles really simulated since the last event.            *)
(*                                                                         *)
(* What is found is abstract: a batch finds its last new state at some     *)
(* offset or finds none, a poll shows new points or none.  Finds bounds    *)
(* the discoveries (states and points are finitely many), Calls the        *)
(* targets taken up, so that every counter below is bounded.               *)
(***************************************************************************)
EXTENDS Integers

CONSTANTS Batch,        \* step_batch
          Burst,        \* mutation_burst
          Depths,       \* lengths of replays, seed runs and passes in clock cycles
          StallCycles,  \* stall_cycles
          QuietCycles,  \* dead_signal_stall_cycles, and the 500 of the narrow rule
          PollEvery,    \* coverage_poll, in batches
          Options,      \* the command lines: stall_source, seed_stimuli (runs
                        \* with a pinned port before the loop), value_class_bias,
                        \* bmc_corpus_precheck
          Finds, Calls

ASSUME StallClockAssumption ==
    /\ Batch \in Nat \ {0} /\ Burst \in Nat \ {0} /\ PollEvery \in Nat \ {0}
    /\ Depths \subseteq Nat
    /\ StallCycles \in Nat \ {0} /\ QuietCycles \in Nat
    /\ Options \subseteq [source : {"tuple", "native", "any", "value_class"},
                          seeds : BOOLEAN, bias : BOOLEAN, precheck : BOOLEAN]
    /\ Finds \in Nat /\ Calls \in Nat

VARIABLES
    options,      \* the command line of this campaign
    phase,        \* "seed", "poll", "head", "batch", "stalled" and "running" (the
                  \* stall of this turn is computed), "decide", "judge", "ended"
    globalCycle, cycle, lastNew, lastNative,
    lastDiversified, \* _last_diversified_cycle
    sincePoll,    \* _batches_since_poll
    stamp,        \* _narrow_effective_stamp, -1 for no cache
    cachedAt,     \* history: the value of version the cache was filled at
    version,      \* history: native discoveries so far
    idle,         \* history: cycles simulated since the last event of the source
    nativeIdle,   \* history: cycles simulated since the last native discovery
    swept,        \* the last poll ran the dead-signal sweep
    pass,         \* history: cycles of this turn's diversification pass
    replayed,     \* history: a replay has set global_cycle back
    finds, calls  \* what is left of the bounds

clocks == <<globalCycle, cycle, lastNew, lastNative, lastDiversified>>
cache  == <<stamp, cachedAt>>
history == <<version, idle, nativeIdle, replayed>>
vars == <<options, phase, clocks, cache, history, pass, sincePoll, swept, finds, calls>>

Larger(a, b) == IF a > b THEN a ELSE b

Init ==
    /\ options \in Options
    /\ phase = IF options.seeds THEN "seed" ELSE "head"
    /\ globalCycle = 0 /\ cycle = 0 /\ lastNew = 0 /\ lastNative = 0
    /\ lastDiversified = 0
    /\ sincePoll = 0 /\ swept = FALSE
    /\ stamp = -1 /\ cachedAt = 0 /\ version = 0
    /\ idle = 0 /\ nativeIdle = 0 /\ pass = 0 /\ replayed = FALSE
    /\ finds = Finds /\ calls = Calls

(* stale_since, or the value-class stall of run()                          *)
Stall == CASE options.source = "tuple"  -> cycle - lastNew
           [] options.source = "native" -> cycle - lastNative
           [] options.source = "any"    -> cycle - Larger(lastNew, lastNative)
           [] OTHER             -> globalCycle - lastDiversified
-----------------------------------------------------------------------------
(* Broken variants: _cycle follows global_cycle back after a replay; new   *)
(* states are stamped with the cycle the batch began at.                   *)
RecordedFollowing(n, base, i) ==
    [cycle |-> base + n, new |-> IF i > 0 THEN base + i ELSE lastNew]
RecordedAtStart(n, base, i) ==
    [cycle |-> Larger(cycle, base + n), new |-> IF i > 0 THEN base ELSE lastNew]

(* record_state for n states, the last new one (if any) at offset i; the   *)
(* first state carries cycle base + 1.                                     *)
Recorded(n, base, i) ==
    [cycle |-> Larger(cycle, base + n),
     new   |-> IF i > 0 THEN base + i ELSE lastNew]

(* record_coverage_snapshot at cycle c after the states were recorded      *)
Snapshot(r, c, found) ==
    [cycle  |-> Larger(r.cycle, c),
     new    |-> IF found THEN c ELSE r.new,
     native |-> IF found THEN c ELSE lastNative]

(* The events that count for the source: a new state, new points, a new        *)
(* diversified bin.  Native points touch the state clock as well.          *)
IdleAfter(n, i, found, diversified) ==
    CASE options.source \in {"tuple", "any"} -> IF found THEN 0 ELSE IF i > 0 THEN n - i ELSE idle + n
      [] options.source = "native" -> IF found THEN 0 ELSE idle + n
      [] OTHER -> IF diversified THEN 0 ELSE idle + n

Spend(i, found, diversified) ==
    LET spent == (IF i > 0 THEN 1 ELSE 0) + (IF found THEN 1 ELSE 0)
                   + (IF diversified THEN 1 ELSE 0)
    IN  spent <= finds /\ finds' = finds - spent

(* Broken variant: the gate is read before the snapshot is recorded.       *)
SweepsBeforeSnapshot(s) == s.cycle - lastNative >= QuietCycles

(* detect_dead_signals' gate, read by every poll after the snapshot        *)
Sweeps(s) == s.cycle - s.native >= QuietCycles

(* A batch of n cycles from base, then a poll if one is due, then the      *)
(* clocks; the dead-signal sweep is part of the poll.                      *)
Simulate(n, base, i, polls, found, diversified) ==
    LET r == Recorded(n, base, i)
        s == IF polls THEN Snapshot(r, base + n, found)
             ELSE [cycle |-> r.cycle, new |-> r.new, native |-> lastNative]
    IN  /\ found => polls
        /\ Spend(i, found, diversified)
        /\ globalCycle' = base + n
        /\ cycle' = s.cycle /\ lastNew' = s.new /\ lastNative' = s.native
        /\ lastDiversified' = IF diversified THEN base + n ELSE lastDiversified
        /\ swept' = (polls /\ Sweeps(s))
        /\ version' = IF found THEN version + 1 ELSE version
        /\ idle' = IdleAfter(n, i, found, diversified)
        /\ nativeIdle' = IF found THEN 0 ELSE nativeIdle + n

(* A run whose states carry cycles from global_cycle on, one less than     *)
(* every other batch gives them, and that no poll follows.                 *)
SimulateEarly(n, i) ==
    LET r == Recorded(n, globalCycle - 1, i)
    IN  /\ Spend(i, FALSE, FALSE)
        /\ globalCycle' = globalCycle + n
        /\ cycle' = r.cycle /\ lastNew' = r.new
        /\ idle' = IdleAfter(n, i, FALSE, FALSE)
        /\ nativeIdle' = nativeIdle + n
        /\ UNCHANGED <<lastNative, lastDiversified, version, swept>>

(* _run_seed_stimuli, all its runs in one, then the forced poll.           *)
SeedStimuli ==
    /\ phase = "seed" /\ phase' = "poll"
    /\ \E n \in Depths : \E i \in 0..n : SimulateEarly(n, i)
    /\ UNCHANGED <<cache, pass, replayed, sincePoll, calls>>

SeedPoll ==
    /\ phase = "poll" /\ phase' = "head"
    /\ \E found \in BOOLEAN : Simulate(0, globalCycle, 0, TRUE, found, FALSE)
    /\ UNCHANGED <<cache, pass, replayed, sincePoll, calls>>

(* _mutation_step: a burst that finds a new state goes back to the head.   *)
MutationBurst ==
    /\ phase = "head"
    /\ \E n \in 1..Burst : \E i \in 0..n :
          /\ Simulate(n, globalCycle, i, FALSE, FALSE, FALSE)
          /\ phase' = IF i > 0 THEN "head" ELSE "batch"
    /\ UNCHANGED <<cache, pass, sincePoll, replayed, calls>>

(* The batch counter has reached the poll cadence; the broken variant lets *)
(* one batch too many pass.                                                *)
PollLate == sincePoll + 1 > PollEvery
PollDue == sincePoll + 1 >= PollEvery

(* The random batch, the poll when PollEvery batches have passed, the      *)
(* progress tick (it may see diversification grow), and the stall.         *)
RandomBatch ==
    /\ phase \in {"head", "batch"}
    /\ sincePoll' = IF PollDue THEN 0 ELSE sincePoll + 1
    /\ \E i \in 0..Batch, found, diversified \in BOOLEAN :
          /\ diversified => options.source = "value_class"
          /\ Simulate(Batch, globalCycle, i, PollDue, found, diversified)
    /\ phase' = IF Stall' >= StallCycles THEN "stalled" ELSE "running"
    /\ pass' = 0
    /\ UNCHANGED <<cache, replayed, calls>>

(* _run_diversification_pass, between the computation of the stall and its *)
(* use: the clocks move, the verdict stays.                                *)
DiversificationPass ==
    /\ phase \in {"stalled", "running"} /\ options.bias /\ pass = 0
    /\ \E n \in Depths : \E i \in 0..n : SimulateEarly(n, i) /\ pass' = n
    /\ UNCHANGED <<phase, cache, replayed, sincePoll, calls>>

(* stall < stall_cycles goes back to the head of the loop.                 *)
Gate ==
    /\ phase \in {"stalled", "running"}
    /\ phase' = IF phase = "stalled" THEN "decide" ELSE "head"
    /\ pass' = 0
    /\ UNCHANGED <<clocks, cache, history, sincePoll, swept, finds, calls>>

(* Broken variant: the stamp is renewed but the old verdicts are kept.     *)
NarrowQueryKeeping ==
    IF cycle - lastNative < QuietCycles \/ stamp = lastNative
    THEN UNCHANGED cache
    ELSE stamp' = lastNative /\ cachedAt' = IF stamp = -1 THEN version ELSE cachedAt

(* _is_point_on_narrow_effective_signal: after the quiet gate, refill the  *)
(* cache when its stamp is not the current _last_new_native_cycle.         *)
NarrowQuery ==
    IF cycle - lastNative < QuietCycles \/ stamp = lastNative
    THEN UNCHANGED cache
    ELSE stamp' = lastNative /\ cachedAt' = version

(* A promotion below the top tier asks whether the signal is narrow; a     *)
(* register goal, a point at the top and other kinds of points do not.     *)
MayQuery == NarrowQuery \/ UNCHANGED cache

(* A target is taken up.                                                   *)
TakeUp == phase = "decide" /\ calls > 0 /\ calls' = calls - 1

(* The same target for the fourth turn in a row: it is marked exhausted.   *)
GiveUp ==
    /\ TakeUp
    /\ phase' = "head"
    /\ UNCHANGED <<clocks, cache, history, pass, sincePoll, swept, finds>>

(* The corpus pre-check forces a stored state and records what it reads    *)
(* back, at the present global_cycle; nothing is simulated.                *)
Precheck ==
    /\ TakeUp /\ options.precheck
    /\ \E i \in 0..1 :
          LET r == Recorded(1, globalCycle - 1, i)
          IN  /\ Spend(i, FALSE, FALSE)
              /\ cycle' = r.cycle /\ lastNew' = r.new
              /\ idle' = IF i > 0 /\ options.source \in {"tuple", "any"} THEN 0 ELSE idle
    /\ phase' = "head"
    /\ UNCHANGED <<globalCycle, lastNative, lastDiversified, cache, version, nativeIdle,
                   replayed, pass, sincePoll, swept>>

(* find_sequence returned None and the point is promoted or retired.       *)
BmcNone ==
    /\ TakeUp
    /\ MayQuery
    /\ phase' = "head"
    /\ UNCHANGED <<clocks, history, pass, sincePoll, swept, finds>>

(* SAT: the witness is replayed from cycle 0 and coverage is polled.       *)
Replay ==
    /\ TakeUp
    /\ sincePoll' = 0
    /\ \E n \in Depths : \E i \in 0..n, found \in BOOLEAN :
          Simulate(n, 0, i, TRUE, found, FALSE)
    /\ replayed' = TRUE
    /\ phase' = "judge"
    /\ UNCHANGED <<cache, pass>>

(* Unproductive: the point is promoted or retired.                         *)
JudgeUnproductive ==
    /\ phase = "judge"
    /\ MayQuery
    /\ phase' = "head"
    /\ UNCHANGED <<clocks, history, pass, sincePoll, swept, finds, calls>>

(* Productive: mutated witnesses may be replayed, all of them in one run.  *)
JudgeProductive ==
    /\ phase = "judge"
    /\ \/ UNCHANGED <<clocks, version, idle, nativeIdle, swept, finds>>
       \/ \E n \in Depths : \E i \in 0..n : SimulateEarly(n, i)
    /\ phase' = "head"
    /\ UNCHANGED <<cache, pass, replayed, sincePoll, calls>>

(* No target is left.                                                      *)
NoMoreTargets ==
    /\ phase = "decide" /\ calls = 0
    /\ phase' = "ended"
    /\ UNCHANGED <<clocks, cache, history, pass, sincePoll, swept, finds, calls>>

Turn == \/ SeedStimuli \/ SeedPoll
        \/ MutationBurst \/ RandomBatch \/ DiversificationPass \/ Gate
        \/ GiveUp \/ Precheck \/ BmcNone \/ Replay \/ JudgeUnproductive \/ JudgeProductive
        \/ NoMoreTargets

Next == UNCHANGED options /\ Turn

Spec == Init /\ [][Next]_vars
-----------------------------------------------------------------------------
(* Properties *)

(* Types of the clocks.                                                    *)
TypeOK ==
    /\ options \in Options
    /\ phase \in {"seed", "poll", "head", "batch", "stalled", "running",
                  "decide", "judge", "ended"}
    /\ globalCycle \in Nat /\ cycle \in Nat /\ lastNew \in Nat /\ lastNative \in Nat
    /\ lastDiversified \in Nat
    /\ sincePoll \in 0..(PollEvery - 1)
    /\ stamp \in Nat \cup {-1} /\ cachedAt \in Nat /\ version \in Nat
    /\ idle \in Nat /\ nativeIdle \in Nat
    /\ pass \in Nat /\ swept \in BOOLEAN /\ replayed \in BOOLEAN
    /\ finds \in Nat /\ calls \in Nat

Early == IF options.seeds \/ options.bias THEN 1 ELSE 0

(* The stall gate lets BMC in exactly when StallCycles cycles have been    *)
(* simulated without an event of its source - until the first replay, one  *)
(* cycle early after a state found by seeds or a diversification pass, and *)
(* as of before this turn's pass: the gate is late by the pass, and opens  *)
(* although the pass has just found something (idle < pass).               *)
GateExactUntilReplay ==
    [][~replayed /\ Gate =>
         /\ idle >= StallCycles + pass => phase' = "decide"
         /\ phase' = "decide" /\ idle >= pass => idle + Early >= StallCycles + pass]_vars

(* Even across replays a stalled campaign is never kept from BMC: once     *)
(* StallCycles cycles brought nothing new, the next gate is open.  This is *)
(* what makes the strong fairness of Campaign.tla honest.  Not so when     *)
(* value_class_bias is on: a pass that finds a state after the stall was   *)
(* computed stamps it with a cycle a replay then needs as long to regain;  *)
(* nor for value_class, whose stamp a replay does not set back.            *)
GateNeverLate ==
    [][Gate /\ ~options.bias /\ options.source # "value_class"
         /\ idle >= StallCycles => phase' = "decide"]_vars

(* Signals are declared dead only in a poll that ends QuietCycles cycles   *)
(* without native discoveries - until the first replay.                    *)
SweepQuietUntilReplay == swept /\ ~replayed => nativeIdle >= QuietCycles

(* A narrow-effective verdict in use was computed after the last native    *)
(* discovery - until the first replay.                                     *)
CacheFreshUntilReplay == ~replayed /\ stamp = lastNative => cachedAt = version
=============================================================================
