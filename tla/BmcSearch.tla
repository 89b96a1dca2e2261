----------------------------- MODULE BmcSearch -----------------------------
(***************************************************************************)
(* One goal on its way through the bounded model checker: run_bmc unrolls  *)
(* the design deeper and deeper, find_sequence turns what the process did  *)
(* into a witness or None, the orchestrator wraps the witness into clock   *)
(* cycles, replays it and promotes the goal to the next tier when it was   *)
(* not productive.                                                         *)
(*                                                                         *)
(* The solver is exact: it answers with any trace that satisfies the query *)
(* or says there is none, unless it gives up.  The query is the one of     *)
(* build_bmc_query over the model that yosys' clk2fflogic makes of a       *)
(* design: time is counted in steps, a flop takes over in step i when the  *)
(* clock was 0 in step i-1 and is 1 in step i what its input was in step   *)
(* i-1, and an asynchronous reset acts in every step, whatever the clock.  *)
(* Time is not measured: the watchdog may end a call anywhere.             *)
(***************************************************************************)
EXTENDS Naturals, Sequences, FiniteSets, DesignRuns

CONSTANTS States, Zero, Inputs,
          Designs,      \* see DesignType
          Goals,        \* see GoalType
          Tiers,        \* bmc_depth_tiers: steps allowed on each tier
          DefaultSteps, \* max_steps of the interface, for a register value
          MaxCalls      \* bound on the calls for one goal

(* What the flops take over at the clock, a combinational bit, the inputs  *)
(* that assert an asynchronous reset and what it leaves of the flops (some *)
(* may have none), and the states the initial values of the source allow:  *)
(* all of them when it gives none.                                         *)
DesignType == [next:  [States \X Inputs -> States],
               wire:  [States \X Inputs -> BOOLEAN],
               rst:   SUBSET Inputs,
               clear: [States -> States],
               init:  SUBSET States]

(* A goal is about a bit of a flop (to turn to the value it has in want),  *)
(* a bit of a wire (to be val), or a register value (to be reached).       *)
GoalType ==      [sort: {"flop", "value"}, want: SUBSET States]
            \cup [sort: {"wire", "bus"}, val: BOOLEAN]

(* The bit of one flop is set to a constant by the reset or left alone.    *)
Cleared(d, want) == \A s, t \in States : d.clear[s] \in want <=> d.clear[t] \in want
Kept(d, want)    == \A s \in States : d.clear[s] \in want <=> s \in want

ASSUME SearchAssumption ==
    /\ Zero \in States /\ Inputs # {} /\ Designs \subseteq DesignType /\ Goals \subseteq GoalType
    /\ Tiers \in Seq(Nat \ {0}) /\ Tiers # <<>>
    /\ DefaultSteps \in Nat \ {0} /\ MaxCalls \in Nat
    /\ \A d \in Designs : /\ d.rst # Inputs
                          /\ \A s \in States : d.clear[d.clear[s]] = d.clear[s]
                          /\ \A g \in Goals : g.sort = "flop" =>
                                Cleared(d, g.want) \/ Kept(d, g.want)

VARIABLES
    design, goal,
    phase,   \* "pick", "search" (in run_bmc), "replay", "done"
    tier,    \* tier of the coverage point
    depth,   \* k of run_bmc
    witness, \* pending_replay.steps
    log      \* the answers for this goal so far

vars == <<design, goal, phase, tier, depth, witness, log>>

Toggle == goal.sort # "value"
Limit  == IF Toggle THEN Tiers[tier + 1] ELSE DefaultSteps

Init == /\ design \in Designs /\ goal \in Goals
        /\ phase = "pick" /\ tier = 0 /\ depth = 0
        /\ witness = <<>> /\ log = <<>>
-----------------------------------------------------------------------------
(* The query *)

Step == [clk: {0, 1}, in: Inputs]

(* Where the asynchronous reset leaves a state under an input.             *)
Settled(d, s, in) == IF in \in d.rst THEN d.clear[s] ELSE s

(* The flops in the steps of a trace over 0..k: clk2fflogic ors a reset    *)
(* with its sample, so it also acts in the step after.                     *)
Clocked(d, trace, i, s) ==
    IF trace[i - 1].clk = 0 /\ trace[i].clk = 1 THEN d.next[<<s, trace[i - 1].in>>] ELSE s

Flops(d, trace, k) ==
    LET q[i \in 0..k] ==
            IF i = 0 THEN Settled(d, Zero, trace[0].in)
            ELSE Settled(d, Settled(d, Clocked(d, trace, i, q[i - 1]), trace[i - 1].in),
                         trace[i].in)
    IN  q

(* What the query sees of a flop in a step is the sample of the step       *)
(* before; at step 0 it is zero.                                           *)
Sample(q, i) == IF i = 0 THEN Zero ELSE q[i - 1]

(* The goal constraint at the last step.  The bit of a one-bit wire is     *)
(* extracted from a Bool; the solver reports the ill-typed assertion and   *)
(* goes on without it, and z3_solve skips the report.                      *)
GoalHolds(d, g, trace, k) ==
    LET q == Flops(d, trace, k) IN
    CASE g.sort = "flop"  -> /\ Sample(q, k) \in g.want
                             /\ Sample(q, k - 1) \notin g.want
      [] g.sort = "value" -> Sample(q, k) \in g.want
      [] g.sort = "bus"   -> d.wire[<<q[k], trace[k].in>>] = g.val
      [] g.sort = "wire"  -> TRUE

(* mod_i asserts the initial values of the design for step 0, and the      *)
(* builder asserts zero for the same flops: when the two differ no depth   *)
(* has a solution.                                                         *)
Solutions(d, g, k) ==
    {trace \in [0..k -> Step] : Zero \in d.init /\ GoalHolds(d, g, trace, k)}

(* get-value asks for the inputs of the steps before the last.             *)
Inspect(trace, k) == [i \in 1..k |-> trace[i - 1]]
-----------------------------------------------------------------------------
(* The call *)

(* Broken variants: the search goes on where the last tier stopped; it     *)
(* never tries depth 1.                                                    *)
MinDepthResumed(g) == IF tier > 0 THEN Tiers[tier] + 1 ELSE 1
MinDepthLate(g) == 2

(* A flip compares two samples, so it starts at 2.                         *)
MinDepth(g) == IF g.sort = "flop" THEN 2 ELSE 1

Start ==
    /\ phase = "pick" /\ Len(log) < MaxCalls
    /\ phase' = "search" /\ depth' = MinDepth(goal)
    /\ UNCHANGED <<design, goal, tier, witness, log>>

(* Broken variant: promoted past the top tier before it is retired.        *)
PromotePastTop ==
    IF Toggle /\ tier < Len(Tiers)
    THEN tier' = tier + 1 /\ phase' = "pick"
    ELSE tier' = tier /\ phase' = "done"

(* promote_coverage_point, or mark_coverage_point_exhausted                *)
Promote ==
    IF Toggle /\ tier + 1 < Len(Tiers)
    THEN tier' = tier + 1 /\ phase' = "pick"
    ELSE tier' = tier /\ phase' = "done"

Answer(outcome, proved) ==
    log' = Append(log, [outcome |-> outcome, steps |-> Limit, depth |-> depth, proved |-> proved])

(* find_sequence returns None: promote, or retire on the top tier.         *)
NoWitness(outcome, proved) ==
    /\ Answer(outcome, proved)
    /\ Promote
    /\ depth' = 0
    /\ UNCHANGED <<design, goal, witness>>

(* Broken variant: the last depth is not tried.                            *)
WithinLimitStrictly(k) == k < Limit

WithinLimit(k) == k <= Limit

SolveSat ==
    /\ phase = "search" /\ WithinLimit(depth)
    /\ \E trace \in Solutions(design, goal, depth) : witness' = Inspect(trace, depth)
    /\ Answer("sat", TRUE)
    /\ phase' = "replay"
    /\ UNCHANGED <<design, goal, tier, depth>>

SolveUnsat ==
    /\ phase = "search" /\ WithinLimit(depth)
    /\ Solutions(design, goal, depth) = {}
    /\ depth' = depth + 1
    /\ UNCHANGED <<design, goal, phase, tier, witness, log>>

(* The loop is over: exit code 2, logged as unsat.                         *)
NoPath ==
    /\ phase = "search" /\ ~WithinLimit(depth)
    /\ NoWitness("unsat", TRUE)

(* The solver gives up: also exit code 2.                                  *)
SolveUnknown ==
    /\ phase = "search" /\ WithinLimit(depth)
    /\ NoWitness("unsat", FALSE)

(* Yosys fails, an exception in the solver, a crash: another exit code.    *)
Fail ==
    /\ phase = "search"
    /\ NoWitness("error", FALSE)

(* The watchdog of find_sequence kills the process.                        *)
Kill ==
    /\ phase = "search"
    /\ NoWitness("timeout", FALSE)
-----------------------------------------------------------------------------
(* The replay *)

Rises(steps, j) == j > 1 /\ steps[j - 1].clk = 0 /\ steps[j].clk = 1

(* Broken variant: the inputs of the step with the clock at 1.             *)
CycleInputsPosedge(steps) ==
    LET upto[j \in 0..Len(steps)] ==
            IF j = 0 THEN <<>>
            ELSE IF Rises(steps, j) THEN Append(upto[j - 1], steps[j].in) ELSE upto[j - 1]
    IN  upto[Len(steps)]

(* _bmc_steps_to_cycle_inputs: one cycle per rise of the clock, with the   *)
(* inputs of the step before it.                                           *)
CycleInputs(steps) ==
    LET upto[j \in 0..Len(steps)] ==
            IF j = 0 THEN <<>>
            ELSE IF Rises(steps, j) THEN Append(upto[j - 1], steps[j - 1].in) ELSE upto[j - 1]
    IN  upto[Len(steps)]

(* A cycle of the simulator: the inputs are set with the clock at 0, where *)
(* a reset acts at once, and again at the posedge.                         *)
Cycle(d) == [p \in States \X Inputs |->
                Settled(d, d.next[<<Settled(d, p[1], p[2]), p[2]>>], p[2])]

(* One cycle per set of inputs, from the forced zero state.                *)
Simulate(cycles) == Run(Cycle(design), Zero, cycles)

(* direct_hit for a flop: the bit before the replay, in the zero state,    *)
(* must differ.  For a wire the reporter decides, for a register value any *)
(* new state or point does: both are left open.                            *)
Productive(cycles) ==
    IF goal.sort = "flop" THEN {Simulate(cycles) \in goal.want /\ Zero \notin goal.want}
    ELSE BOOLEAN

(* A productive goal is covered, or the reporter does not show it and it   *)
(* stays on its tier; an unproductive one is promoted or retired.          *)
Replay ==
    /\ phase = "replay"
    /\ \E productive \in Productive(CycleInputs(witness)) :
          IF productive THEN tier' = tier /\ phase' \in {"pick", "done"} ELSE Promote
    /\ witness' = <<>> /\ depth' = 0
    /\ UNCHANGED <<design, goal, log>>

Next == Start \/ SolveSat \/ SolveUnsat \/ NoPath \/ SolveUnknown \/ Fail \/ Kill \/ Replay

Spec == Init /\ [][Next]_vars
-----------------------------------------------------------------------------
(* Properties *)

Outcomes == {"sat", "unsat", "error", "timeout"}

TypeOK ==
    /\ design \in Designs /\ goal \in Goals
    /\ phase \in {"pick", "search", "replay", "done"}
    /\ tier \in 0..Len(Tiers) - 1
    /\ depth \in 0..Limit + 1
    /\ witness \in Seq(Step)
    /\ log \in Seq([outcome: Outcomes, steps: Nat \ {0}, depth: Nat, proved: BOOLEAN])

(* A run of clock cycles from the zero state ends by meeting the goal: the *)
(* bit turns in its last cycle, the value is reached, the wire is seen.    *)
Meets(cycles) ==
    LET after == Trajectory(Cycle(design), Zero, cycles)
        last  == Len(cycles)
    IN  CASE goal.sort = "flop"  -> last > 0 /\ after[last] \in goal.want
                                             /\ after[last - 1] \notin goal.want
          [] goal.sort = "value" -> after[last] \in goal.want
          [] OTHER -> \E n \in 1..last :
                \/ design.wire[<<Settled(design, after[n - 1], cycles[n]), cycles[n]>>] = goal.val
                \/ design.wire[<<after[n], cycles[n]>>] = goal.val

Stateful == goal.sort \in {"flop", "value"}

(* Every reset of a witness is asserted in a step that becomes a cycle.    *)
ResetsKept(steps) ==
    \A j \in 1..Len(steps) :
        steps[j].in \in design.rst => j < Len(steps) /\ Rises(steps, j + 1)

(* The replayed cycles do in the simulator what the solver saw in the      *)
(* half-cycle model, unless the witness resets the design in a half-cycle  *)
(* that is not replayed: cycle-wrapping (orchestrator.py:333) takes the    *)
(* right inputs and neither too many nor too few cycles.                   *)
WitnessReproduces ==
    phase = "replay" /\ Stateful /\ ResetsKept(witness) => Meets(CycleInputs(witness))

(* No shorter run of cycles meets the goal (bmc_engine.h:15), in spite of  *)
(* half-cycles, samples, resets and the later start for a flip.            *)
ShortestWitness ==
    phase = "replay" /\ Stateful =>
        \A n \in 0..Len(CycleInputs(witness)) - 1 : \A cycles \in [1..n -> Inputs] : ~Meets(cycles)

(* No run of half as many cycles as a call had steps meets the goal; a     *)
(* wire may even be seen half a cycle later.                               *)
NoneWithin(steps) ==
    \A n \in 0..(IF Stateful THEN steps ELSE steps + 1) \div 2 :
        \A cycles \in [1..n -> Inputs] : ~Meets(cycles)

(* When the loop of run_bmc runs out of depths there is no such run, where *)
(* the initial values allow the zero state the replay starts in.           *)
UnsatIsHonest ==
    \A m \in DOMAIN log :
        log[m].outcome = "unsat" /\ log[m].proved /\ Zero \in design.init => NoneWithin(log[m].steps)

(* The depth of a witness is a property of the goal: whichever tier finds  *)
(* it, and whatever happened on the tiers before.                          *)
DepthIsTheGoals ==
    \A m, n \in DOMAIN log :
        log[m].outcome = "sat" /\ log[n].outcome = "sat" => log[m].depth = log[n].depth

(* What one call has refuted no other call finds: a witness is deeper than *)
(* every tier that ran out of depths for this goal.                        *)
RefutedStaysRefuted ==
    \A m, n \in DOMAIN log :
        (log[m].outcome = "unsat" /\ log[m].proved) /\ log[n].outcome = "sat"
            => log[n].depth > log[m].steps

(* The inductive invariant behind the last two: a search stands at the     *)
(* first depth that may have a solution, and so does every witness.        *)
Searched(d, g, k) == \A j \in MinDepth(g)..k - 1 : Solutions(d, g, j) = {}
Answered(d, g, e) ==
    /\ e.outcome = "sat" => /\ e.depth >= MinDepth(g) /\ Searched(d, g, e.depth)
                            /\ Solutions(d, g, e.depth) # {}
    /\ e.outcome = "unsat" /\ e.proved => Searched(d, g, e.steps + 1)
SearchedInOrder ==
    /\ phase = "search" => depth >= MinDepth(goal) /\ Searched(design, goal, depth)
    /\ \A n \in DOMAIN log : Answered(design, goal, log[n])

(* bmc_interface.py:99: the witness drives the design to the target, also  *)
(* when that is a wire.                                                    *)
WitnessMeetsGoal == phase = "replay" => Meets(CycleInputs(witness))
=============================================================================
