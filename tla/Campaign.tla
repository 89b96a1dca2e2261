------------------------------ MODULE Campaign ------------------------------
(***************************************************************************)
(* Target scheduling of a fuzzing campaign: Orchestrator.run() together    *)
(* with the part of CoverageDB it schedules from (covered points, retired  *)
(* points, tiers, dead signals, exhausted register goals).                 *)
(*                                                                         *)
(* The orchestrator is one thread.  Its environment is the simulator       *)
(* (which points and states a run reaches), the coverage reporter (which   *)
(* of them a poll shows, or whether a poll fails), the BMC binary (which   *)
(* calls are SAT) and the clock.  One turn of run()'s loop is cut at the   *)
(* places where that environment answers; phase says which answer is due.  *)
(*                                                                         *)
(* The cycle arithmetic of the stall gates is in StallClock.tla: here a    *)
(* gate may be open or closed at any poll (over-approximation).            *)
(***************************************************************************)
EXTENDS Integers, FiniteSets, FiniteSetsExt

CONSTANTS
    Points,          \* ids of coverage_point_universe
    Goals,           \* register-value targets of the neighbour picker
    Signals,         \* arch_names
    Kind,            \* Points -> "rise" | "fall" | "wire" | "alien" | "line"
    Sig,             \* Points \cup Goals -> Signals \cup {NoTarget}
    Key,             \* Points -> BMC target dict; aliased points share one
    Zeroed,          \* flop points whose register force(zero_state) reaches
    Siblings,        \* Points -> the points `LIKE '%.sig'` counts with it
    NumTiers,        \* len(bmc_depth_tiers)
    Limit,           \* bmc_unproductive_limit, 0 = off
    Budget,          \* bmc_per_reg_budget, 0 = unlimited
    FetchLimit,      \* the LIMIT of get_uncovered_coverage_target (256)
    NewStates,       \* bound: states a campaign still finds at most
    DuplicateRows,   \* cov.dat rows that repeat an id of another row
    DeadFilter, Precheck, WitnessMutations, SmallSpace,
    NoTarget         \* Python's None

Tiers == 0..(NumTiers - 1)
Top == NumTiers - 1
Targets == Points \cup Goals
Keys == {Key[p] : p \in Points} \cup Goals

ASSUME CampaignAssumption ==
    /\ NumTiers \in Nat \ {0}
    /\ Limit \in Nat /\ Budget \in Nat /\ FetchLimit \in Nat \ {0}
    /\ DuplicateRows \in Nat /\ NewStates \in Nat
    /\ IsFiniteSet(Points) /\ IsFiniteSet(Goals)
    /\ Points \cap Goals = {} /\ NoTarget \notin Points \cup Goals
    /\ Kind \in [Points -> {"rise", "fall", "wire", "alien", "line"}]
    /\ \A t \in Points \cup Goals : Sig[t] \in Signals \cup {NoTarget}
    /\ Siblings \in [Points -> SUBSET Points]
    /\ Zeroed \subseteq Points
    /\ {DeadFilter, Precheck, WitnessMutations, SmallSpace} \subseteq BOOLEAN

VARIABLES
    phase,           \* the answer run() waits for
    termination,     \* CampaignResult.terminated_by, NoTarget while running
    known,           \* table coverage_point_universe: "none", "stored" by an
                     \* earlier campaign, "reported" to this one
    covered,         \* table coverage_points
    retired,         \* _exhausted_coverage_points, with why each went in
    tier,            \* _point_tier
    dead,            \* _dead_signals (= Orchestrator._dead_signals_marked)
    verdict,         \* _narrow_effective_cache, by signal name
    exhaustedGoals,  \* _exhausted_targets, register goals only: a coverage
                     \* target's key is never looked up
    unseen,          \* goals no recorded state satisfies yet
    room,            \* states that can still be found
    held,            \* flop points whose goal bit some recorded state holds
    attempts,        \* _reg_attempts, saturated above Budget
    aim,             \* target being solved, or of pending_replay
    lastTarget, retries, streak, \* last_target, target_retries, unproductive_streak
    outcome,         \* what the replay showed: direct_hit and the deltas
    failed           \* history (bmc.jsonl): tiers a call on p failed at

cover == <<known, covered, dead>>
seen  == <<unseen, room, held>>
pool  == <<cover, retired, tier, verdict, exhaustedGoals, seen, failed>>
loop  == <<aim, lastTarget, retries, streak, outcome, attempts>>
vars  == <<phase, termination, pool, loop>>

MAX_TARGET_RETRIES == 3
NoOutcome == [probe |-> "none", gained |-> FALSE]

Retired   == {p \in Points : retired[p] # "no"}
IsToggle(p)     == Kind[p] # "line"
Translatable(p) == Kind[p] \in {"rise", "fall", "wire"}
IsFlop(p)       == Kind[p] \in {"rise", "fall"}

(* The database knows the bins of the design from the first snapshot on.   *)
Universe == IF known = "none" THEN {} ELSE Points
NoVerdict == [p \in Points |-> "unasked"]

(* A fresh database knows no points; an old one has states, points and     *)
(* covered points.  Retirements, tiers, dead signals and verdicts live in  *)
(* memory.  A campaign that did not restore its corpus may run seeds.      *)
Init ==
    /\ phase \in {"seeds", "loop"} /\ termination = NoTarget
    /\ known \in {"none", "stored"} /\ covered \in SUBSET Universe
    /\ dead = {} /\ exhaustedGoals = {} /\ verdict = NoVerdict
    /\ retired = [p \in Points |-> "no"]
    /\ tier = [p \in Points |-> 0]
    /\ failed = [p \in Points |-> {}]
    /\ unseen \in SUBSET Goals
    /\ room \in 0..NewStates /\ (unseen # {} => room > 0)
    /\ held \in IF Precheck THEN SUBSET {p \in Points : IsFlop(p)} ELSE {{}}
    /\ attempts = [s \in Signals |-> 0]
    /\ aim = NoTarget /\ lastTarget = NoTarget
    /\ retries = 0 /\ streak = 0 /\ outcome = NoOutcome

EndWith(why) == phase' = "ended" /\ termination' = why
GoOn(where)  == phase' = where /\ UNCHANGED termination
-----------------------------------------------------------------------------
(* CoverageDB and the coverage poll *)

(* record_state for the states of a batch: new ones use up room, more      *)
(* goals are seen, and more points have a state that holds their goal bit. *)
RecordStates ==
    /\ unseen' \in SUBSET unseen /\ room' \in 0..room
    /\ unseen' # unseen => room' < room
    /\ unseen' # {} => room' > 0
    /\ held' \in IF Precheck THEN {held \cup h : h \in SUBSET {p \in Points : IsFlop(p)}}
                 ELSE {held}

NewState == room' < room

(* detect_dead_signals: at most 5% of the signal's bins are covered.       *)
DeadSignals(cov) ==
    {s \in Signals \ dead :
        LET bins == {p \in Points : Sig[p] = s}
        IN  bins # {} /\ 20 * Cardinality(bins \cap cov) <= Cardinality(bins)}

(* A snapshot brings the universe and may add covered points; then the     *)
(* dead-signal filter retires every bin of the signals it finds, covered   *)
(* ones as well.  New points drop the verdicts, unless the stamp they were *)
(* given under comes back after a replay (StallClock.tla).                 *)
Snapshot ==
    \E snap \in SUBSET (Points \ covered), quiet \in BOOLEAN :
        LET fresh == IF DeadFilter /\ quiet THEN DeadSignals(covered \cup snap) ELSE {}
        IN  /\ known' = "reported"
            /\ covered' = covered \cup snap
            /\ dead' = dead \cup fresh
            /\ retired' = [p \in Points |->
                   IF retired[p] = "no" /\ Sig[p] \in fresh THEN "dead" ELSE retired[p]]
            /\ verdict' \in IF covered' = covered THEN {verdict} ELSE {verdict, NoVerdict}

(* _poll_native_coverage: gated by the batch counter, or without an answer *)
(* of the driver, it does nothing.                                         *)
Poll == Snapshot \/ UNCHANGED <<cover, retired, verdict>>

(* Broken variant: no lower bound, a signal nobody ever toggled is narrow. *)
NarrowWithoutFloor(p) ==
    LET n == Cardinality(Siblings[p] \cap covered)
        m == Cardinality(Siblings[p])
    IN  m > 0 /\ 10 * n <= 3 * m

(* _is_point_on_narrow_effective_signal: more than 5% and at most 30% of   *)
(* the bins with the signal's name are covered.                            *)
NarrowEffective(p) ==
    LET n == Cardinality(Siblings[p] \cap covered)
        m == Cardinality(Siblings[p])
    IN  m > 0 /\ 20 * n > m /\ 10 * n <= 3 * m

(* The cached verdict on the signal's name, or a new one.                  *)
Narrow(p) == IF verdict[p] = "unasked" THEN NarrowEffective(p) ELSE verdict[p] = "narrow"

(* Broken variant: the tier table is one longer.                           *)
PromotablePastTop(p, quiet) == tier[p] <= Top /\ ~(quiet /\ Narrow(p))

(* promote_coverage_point's answer; quiet is its 500-cycle gate.           *)
Promotable(p, quiet) == tier[p] < Top /\ ~(quiet /\ Narrow(p))

(* The verdict is asked for below the top and once it is quiet, and kept   *)
(* for every point of the name.  No sibling at all is never narrow.        *)
KeepVerdict(p, quiet) ==
    verdict' = [q \in Points |->
        IF quiet /\ tier[p] < Top /\ Siblings[p] # {} /\ Siblings[q] = Siblings[p]
        THEN (IF Narrow(p) THEN "narrow" ELSE "wide") ELSE verdict[q]]

(* Broken variants: promotion jumps to the deepest budget; a point at the  *)
(* top is not retired.                                                     *)
PromoteToTop(p) == tier' = [tier EXCEPT ![p] = Top] /\ UNCHANGED retired
RetireNothing(p) == UNCHANGED <<tier, retired>>

(* A call on aim failed: promote it one tier, or retire it for good.       *)
Promote(p) == tier' = [tier EXCEPT ![p] = @ + 1] /\ UNCHANGED retired

Retire(p) ==
    LET why == IF tier[p] < Top THEN "narrow" ELSE "spent"
    IN  /\ retired' = [retired EXCEPT ![p] = IF @ = "no" THEN why ELSE @]
        /\ UNCHANGED tier

NoteFailure(p) == failed' = [failed EXCEPT ![p] = @ \cup {tier[p]}]
-----------------------------------------------------------------------------
(* The main loop *)

(* Structured seeds, then a forced poll.                                   *)
Seeds ==
    /\ phase = "seeds"
    /\ RecordStates
    /\ Poll
    /\ GoOn("loop")
    /\ UNCHANGED <<tier, exhaustedGoals, failed, loop>>

Timeout ==
    /\ phase = "loop"
    /\ EndWith("timeout")
    /\ UNCHANGED <<pool, loop>>

(* direct_hit of the replay.  A wire is not in read_state().  The value    *)
(* before the replay is read after force(zero_state), so a falling bit of  *)
(* a forced register was never 1 before it.                                *)
Probes(t) ==
    IF t \in Goals \/ ~IsFlop(t) THEN {"none"}
    ELSE {"none", "miss"} \cup (IF Kind[t] = "fall" /\ t \in Zeroed THEN {} ELSE {"hit"})

(* Reset, force zero, drive the witness in one batch, record the states,   *)
(* force a poll, read the state back.                                      *)
Replay ==
    /\ phase = "loop" /\ aim # NoTarget
    /\ RecordStates
    /\ Poll
    /\ \E probe \in Probes(aim) :
          outcome' = [probe |-> probe, gained |-> NewState \/ covered' # covered]
    /\ GoOn("judge")
    /\ UNCHANGED <<tier, exhaustedGoals, failed, aim, lastTarget, retries, streak, attempts>>

Productive ==
    CASE aim \in Goals -> outcome.gained
      [] outcome.probe = "none" -> aim \in covered
      [] OTHER -> outcome.probe = "hit"

JudgeProductive ==
    /\ phase = "judge" /\ Productive
    /\ lastTarget' = NoTarget /\ retries' = 0 /\ streak' = 0
    /\ aim' = NoTarget /\ outcome' = NoOutcome
    /\ IF WitnessMutations THEN RecordStates ELSE UNCHANGED seen
    /\ GoOn("explore")
    /\ UNCHANGED <<cover, retired, tier, verdict, exhaustedGoals, failed, attempts>>

(* Broken variant: a promotion counts towards the streak.                  *)
PromotionCounts ==
    /\ aim \in Points
    /\ NoteFailure(aim)
    /\ \E quiet \in BOOLEAN : /\ KeepVerdict(aim, quiet)
                              /\ IF Promotable(aim, quiet) THEN Promote(aim) ELSE Retire(aim)
    /\ streak' = streak + 1
    /\ UNCHANGED exhaustedGoals

(* A promotion resets the streak; only a retirement counts towards it.     *)
UnproductivePoint ==
    /\ aim \in Points
    /\ NoteFailure(aim)
    /\ \E quiet \in BOOLEAN :
          /\ KeepVerdict(aim, quiet)
          /\ IF Promotable(aim, quiet) THEN Promote(aim) /\ streak' = 0
             ELSE Retire(aim) /\ streak' = streak + 1
    /\ UNCHANGED exhaustedGoals

UnproductiveGoal ==
    /\ aim \in Goals
    /\ exhaustedGoals' = exhaustedGoals \cup {aim}
    /\ streak' = streak + 1
    /\ UNCHANGED <<retired, tier, verdict, failed>>

JudgeUnproductive ==
    /\ phase = "judge" /\ ~Productive
    /\ UnproductivePoint \/ UnproductiveGoal
    /\ aim' = NoTarget /\ outcome' = NoOutcome
    /\ IF Limit > 0 /\ streak' >= Limit THEN EndWith("no_productive_bmc") ELSE GoOn("explore")
    /\ UNCHANGED <<cover, seen, lastTarget, retries, attempts>>

Exploring == phase = "explore" \/ (phase = "loop" /\ aim = NoTarget)

(* A mutation burst that finds a new state goes straight to the loop head. *)
MutationBurst ==
    /\ Exploring
    /\ RecordStates /\ NewState
    /\ GoOn("loop")
    /\ UNCHANGED <<cover, retired, tier, verdict, exhaustedGoals, failed, loop>>

(* is_native_complete compares distinct covered ids with the row count of  *)
(* the last snapshot.                                                      *)
NativeComplete(kn, cov) ==
    /\ kn = "reported" /\ Points # {}
    /\ Cardinality(cov) >= Cardinality(Points) + DuplicateRows

RandomBatch(stalled) ==
    /\ Exploring
    /\ RecordStates
    /\ Poll
    /\ IF (SmallSpace /\ room' = 0) \/ NativeComplete(known', covered')
       THEN EndWith("full_coverage")
       ELSE IF stalled THEN GoOn("pick") ELSE GoOn("loop")
    /\ UNCHANGED <<tier, exhaustedGoals, failed, loop>>

(* A RuntimeError of a reset, a burst, a batch or a replay leaves run().   *)
SimulatorFails ==
    /\ Exploring \/ phase \in {"seeds", "loop"}
    /\ RecordStates
    /\ EndWith("error")
    /\ UNCHANGED <<cover, retired, tier, verdict, exhaustedGoals, failed, loop>>
-----------------------------------------------------------------------------
(* Picking and solving *)

(* Broken variants: the covered set is not subtracted from the universe;   *)
(* the rows are taken in random order alone.                               *)
FetchesCoveredToo == {Universe}
FetchesUnordered ==
    LET uncovered == Universe \ covered
    IN  IF Cardinality(uncovered) <= FetchLimit THEN {uncovered} ELSE kSubset(FetchLimit, uncovered)

(* What the picker's query may return: the first FetchLimit uncovered      *)
(* points, toggles first, in random order.                                 *)
Fetches ==
    LET uncovered == Universe \ covered
        toggles   == {p \in uncovered : IsToggle(p)}
        n == FetchLimit
    IN  IF Cardinality(uncovered) <= n THEN {uncovered}
        ELSE IF Cardinality(toggles) >= n THEN kSubset(n, toggles)
        ELSE {toggles \cup r : r \in kSubset(n - Cardinality(toggles), uncovered \ toggles)}

(* The lowest tier, and in it toggles before lines: the sort is stable.    *)
Cheapest(S) ==
    {p \in S : \A q \in S : \/ tier[p] < tier[q]
                            \/ tier[p] = tier[q] /\ (IsToggle(q) => IsToggle(p))}

(* get_uncovered_coverage_target: what it may return, NoTarget for None.   *)
Offers == UNION {IF F \ Retired = {} THEN {NoTarget} ELSE Cheapest(F \ Retired) : F \in Fetches}

(* Broken variant: the last attempt of the budget is refused.              *)
OverBudgetEarly(p) == Budget > 0 /\ Sig[p] \in Signals /\ attempts[Sig[p]] + 1 >= Budget

OverBudget(p) == Budget > 0 /\ Sig[p] \in Signals /\ attempts[Sig[p]] >= Budget

(* get_unvisited_neighbor_target *)
OpenGoals == {g \in unseen \ exhaustedGoals : Sig[g] \notin dead}

KeyOf(t) == IF t \in Points THEN Key[t] ELSE t

CountAttempt(t) ==
    attempts' = [s \in Signals |-> IF Budget > 0 /\ s = Sig[t] /\ attempts[s] <= Budget
                                   THEN attempts[s] + 1 ELSE attempts[s]]

(* The third retry of one target in a row skips a turn.                    *)
GiveUp(t) ==
    /\ exhaustedGoals' = exhaustedGoals \cup ({t} \cap Goals)
    /\ lastTarget' = NoTarget /\ retries' = 0
    /\ GoOn("loop")
    /\ UNCHANGED <<seen, aim, attempts>>

(* Lever 5: force a recorded state that holds the goal bit, skip the call. *)
ForceMatch(t) ==
    /\ Precheck /\ t \in held
    /\ RecordStates
    /\ GoOn("loop")
    /\ UNCHANGED <<exhaustedGoals, aim, attempts>>

Call(t) ==
    /\ CountAttempt(t)
    /\ aim' = t
    /\ GoOn("solve")
    /\ UNCHANGED <<exhaustedGoals, seen>>

Aim(t) ==
    LET n == IF KeyOf(t) = lastTarget THEN retries + 1 ELSE 0
    IN  IF n >= MAX_TARGET_RETRIES THEN GiveUp(t)
        ELSE /\ lastTarget' = KeyOf(t) /\ retries' = n
             /\ ForceMatch(t) \/ Call(t)

PickPoint ==
    /\ phase = "pick"
    /\ \E p \in Offers \ {NoTarget} : Translatable(p) /\ ~OverBudget(p) /\ Aim(p)
    /\ UNCHANGED <<cover, retired, tier, verdict, failed, streak, outcome>>

(* No point, one over budget (it is retired) or one BMC cannot be asked    *)
(* about: fall back to a register goal, or stop when there is none.        *)
PickGoal ==
    /\ phase = "pick"
    /\ \E p \in Offers :
          /\ p # NoTarget => OverBudget(p) \/ ~Translatable(p)
          /\ retired' = IF p # NoTarget /\ OverBudget(p)
                        THEN [retired EXCEPT ![p] = "budget"] ELSE retired
    /\ IF OpenGoals = {}
       THEN EndWith("no_more_targets") /\ UNCHANGED <<aim, lastTarget, retries, attempts, exhaustedGoals, seen>>
       ELSE \E g \in OpenGoals : Aim(g)
    /\ UNCHANGED <<cover, tier, verdict, failed, streak, outcome>>

(* find_sequence returned a witness: it is replayed on the next turn.      *)
SolveSat ==
    /\ phase = "solve"
    /\ GoOn("loop")
    /\ UNCHANGED <<pool, loop>>

(* find_sequence returned None: UNSAT, timeout or an error.                *)
SolveNone ==
    /\ phase = "solve"
    /\ IF aim \in Goals
       THEN exhaustedGoals' = exhaustedGoals \cup {aim} /\ UNCHANGED <<retired, tier, verdict, failed>>
       ELSE /\ NoteFailure(aim)
            /\ \E quiet \in BOOLEAN : /\ KeepVerdict(aim, quiet)
                                      /\ IF Promotable(aim, quiet) THEN Promote(aim) ELSE Retire(aim)
            /\ UNCHANGED exhaustedGoals
    /\ aim' = NoTarget
    /\ GoOn("loop")
    /\ UNCHANGED <<cover, seen, lastTarget, retries, streak, outcome, attempts>>

Progress == \/ Seeds \/ Replay \/ JudgeProductive \/ JudgeUnproductive
            \/ MutationBurst \/ RandomBatch(FALSE) \/ RandomBatch(TRUE)
            \/ PickPoint \/ PickGoal \/ SolveSat \/ SolveNone

Next == Progress \/ Timeout \/ SimulatorFails

Spec == Init /\ [][Next]_vars

(* The loop keeps turning, and a campaign that keeps exploring is found    *)
(* stalled sooner or later (StallClock.tla).  No fairness on the timeout.  *)
FairSpec == Spec /\ WF_vars(Progress) /\ SF_vars(RandomBatch(TRUE))
-----------------------------------------------------------------------------
(* Properties *)

(* Types of the variables; causes of retirement and reasons of termination *)
(* are the ones the code has.                                              *)
TypeOK ==
    /\ phase \in {"seeds", "loop", "judge", "explore", "pick", "solve", "ended"}
    /\ termination \in {NoTarget, "timeout", "error", "no_productive_bmc",
                        "full_coverage", "no_more_targets"}
    /\ known \in {"none", "stored", "reported"} /\ covered \subseteq Universe
    /\ retired \in [Points -> {"no", "spent", "narrow", "budget", "dead"}]
    /\ tier \in [Points -> Tiers]
    /\ failed \in [Points -> SUBSET Tiers]
    /\ dead \subseteq Signals
    /\ verdict \in [Points -> {"unasked", "narrow", "wide"}]
    /\ room \in Nat
    /\ exhaustedGoals \subseteq Goals /\ unseen \subseteq Goals
    /\ held \subseteq Points
    /\ attempts \in [Signals -> Nat]
    /\ aim \in Targets \cup {NoTarget}
    /\ (phase \in {"judge", "solve"} => aim # NoTarget)
    /\ (phase \in {"seeds", "explore", "pick"} => aim = NoTarget)
    /\ lastTarget \in Keys \cup {NoTarget}
    /\ retries \in 0..MAX_TARGET_RETRIES
    /\ streak \in Nat
    /\ outcome \in [probe : {"none", "miss", "hit"}, gained : BOOLEAN]

(* Deep budgets are earned: a point stands on tier k only after a solver   *)
(* call or a replay failed for it on every cheaper tier, whatever replays, *)
(* dead-signal sweeps and budget skips came in between.                    *)
TierEarned == \A p \in Points : 0..(tier[p] - 1) \subseteq failed[p]

(* No point is blacklisted unfairly: a spent point failed on every tier, a *)
(* narrow one failed at least once and has siblings that make it narrow,   *)
(* and a point dropped unattempted lies on a dead signal or over budget.   *)
RetiredForCause ==
    \A p \in Points :
        CASE retired[p] = "spent"  -> failed[p] = Tiers
          [] retired[p] = "narrow" -> failed[p] # {} /\ Siblings[p] # {}
          [] retired[p] = "dead"   -> Sig[p] \in dead
          [] retired[p] = "budget" ->
                 Budget > 0 /\ Sig[p] \in Signals /\ attempts[Sig[p]] >= Budget
          [] OTHER -> failed[p] = 0..(tier[p] - 1)

(* Promotion is withheld from a signal only because part of it is alive: a *)
(* point capped as narrow failed once and has a covered sibling.           *)
NarrowHasLiveSibling ==
    \A p \in Points : retired[p] = "narrow" => failed[p] # {} /\ Siblings[p] \cap covered # {}

(* Solver time is never spent twice on the same bin with the same budget   *)
(* after it failed, nor on a bin already covered or retired.               *)
NoRepeatedWork ==
    [][phase = "pick" /\ aim' \in Points =>
         /\ tier[aim'] \notin failed[aim']
         /\ aim' \notin covered \cup Retired]_vars

(* The unproductive streak is paid for: each unit of it is a different     *)
(* point or goal retired for good, so the streak limit ends a campaign     *)
(* only after that many distinct targets were given up.                    *)
StreakPaidFor == streak <= Cardinality(Retired) + Cardinality(exhaustedGoals)

(* The query's limit is taken before retired points are dropped, so it may *)
(* hide open points.  Never toggles, as long as there are no more of them  *)
(* uncovered, retired ones included, than it takes: the picker is not out  *)
(* of points while one is open, its tier comes first, and in its tier no   *)
(* line of source does.  Without the order "toggles first" of the query    *)
(* any row could be the one left out.                                      *)
TogglesNotCrowdedOut ==
    phase = "pick" /\ Cardinality({q \in Universe \ covered : IsToggle(q)}) <= FetchLimit =>
        \A q \in Universe \ (covered \cup Retired), p \in Offers : IsToggle(q) =>
            /\ p # NoTarget
            /\ tier[p] <= tier[q]
            /\ tier[p] = tier[q] => IsToggle(p)

(* A turn that lever 5 spent on a state of the corpus instead of a call.   *)
Forced == phase = "pick" /\ phase' = "loop" /\ lastTarget' # NoTarget

(* Without its wall-clock limit a campaign still ends, unless lever 5      *)
(* forces states for ever (a forced bin need not be reported, and nothing  *)
(* retires it), or the probe sees a bit toggle that the poll never shows:  *)
(* such a bin stays productive and is solved again and again.              *)
Termination ==
    [](phase = "judge" /\ outcome.probe = "hit" => aim \in covered)
        => <>(phase = "ended") \/ []<><<Forced>>_vars

(* docs/ARCHITECTURE.md section 4.4: the replay "checks whether the        *)
(* targeted bin actually toggled".  A replay that got its target covered   *)
(* is not held against the target.                                         *)
CoveredTargetIsNoFailure ==
    [][phase = "judge" /\ aim \in covered => UNCHANGED failed]_vars

(* Every point goes through the tier machine of docs/ARCHITECTURE.md.      *)
Ladder == INSTANCE TargetLadder WITH
              Padded  <- {p \in Points : Siblings[p] # {}},
              NoPoint <- NoTarget,
              rung    <- tier,
              hit     <- covered,
              closed  <- Retired,
              busy    <- IF aim \in Points THEN aim ELSE NoTarget

ImplementsLadder == Ladder!LSpec
=============================================================================
