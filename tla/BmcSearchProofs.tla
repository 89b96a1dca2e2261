-------------------------- MODULE BmcSearchProofs --------------------------
(***************************************************************************)
(* For every design, goal and tier table: what a call has refuted stays    *)
(* refuted, all witnesses of a goal have the same depth, and what the      *)
(* solver finds or refutes in half cycles is so in cycles of the simulator.*)
(***************************************************************************)
EXTENDS BmcSearch, DesignRunsProofs

(* A promotion leaves the tier in the table and goes to pick or done.      *)
LEMMA PromoteType ==
    ASSUME TypeOK, Promote
    PROVE  tier' \in 0..Len(Tiers) - 1 /\ phase' \in {"pick", "done"}
  <1>1. Len(Tiers) \in Nat \ {0}
    BY SearchAssumption
  <1> QED
    BY <1>1 DEF TypeOK, Promote

(* Every tier of the table allows a positive number of steps.              *)
LEMMA TierSteps ==
    ASSUME NEW t \in 0..Len(Tiers) - 1
    PROVE  Tiers[t + 1] \in Nat \ {0}
  <1>1. Len(Tiers) \in Nat \ {0}
    BY SearchAssumption
  <1>2. t + 1 \in 1..Len(Tiers)
    BY <1>1
  <1> QED
    BY <1>2, SearchAssumption

(* The limit of a call is a positive number.                               *)
LEMMA LimitType ==
    ASSUME TypeOK
    PROVE  Limit \in Nat \ {0}
  <1>1. Tiers[tier + 1] \in Nat \ {0}
    BY TierSteps DEF TypeOK
  <1> QED
    BY <1>1, SearchAssumption DEF Limit

(* So it is for the tier a promotion leads to.                             *)
LEMMA NextLimitType ==
    ASSUME tier' \in 0..Len(Tiers) - 1, depth' = 0
    PROVE  depth' \in 0..Limit' + 1
  <1>1. Tiers[tier' + 1] \in Nat \ {0}
    BY TierSteps
  <1>2. Limit' \in Nat
    BY <1>1, SearchAssumption DEF Limit
  <1>3. \A m \in Nat : 0 \in 0..m + 1
    OBVIOUS
  <1>4. 0 \in 0..Limit' + 1
    BY <1>2, <1>3, Zenon
  <1> QED
    BY <1>4

(* Answers are well-formed log entries.                                    *)
LEMMA AnswerType ==
    ASSUME TypeOK, NEW outcome \in Outcomes, NEW proved \in BOOLEAN, Answer(outcome, proved)
    PROVE  log' \in Seq([outcome: Outcomes, steps: Nat \ {0}, depth: Nat, proved: BOOLEAN])
  <1>1. Limit \in Nat \ {0}
    BY LimitType
  <1>2. depth \in Nat
    BY <1>1 DEF TypeOK
  <1> DEFINE e == [outcome |-> outcome, steps |-> Limit, depth |-> depth, proved |-> proved]
  <1>3. e \in [outcome: Outcomes, steps: Nat \ {0}, depth: Nat, proved: BOOLEAN]
    BY <1>1, <1>2
  <1> HIDE DEF e
  <1>4. log' = Append(log, e)
    BY DEF Answer, e
  <1> QED
    BY <1>3, <1>4 DEF TypeOK

(* What get-value returns is a sequence of steps.                          *)
LEMMA InspectType ==
    ASSUME NEW d, NEW g, NEW k \in Nat, NEW trace \in Solutions(d, g, k)
    PROVE  Inspect(trace, k) \in Seq(Step)
  <1>1. trace \in [0..k -> Step]
    BY DEF Solutions
  <1>2. \A i \in 1..k : trace[i - 1] \in Step
    BY <1>1
  <1>3. Inspect(trace, k) \in [1..k -> Step]
    BY <1>2 DEF Inspect
  <1> QED
    BY <1>3

(* Ending a call without a witness keeps the types.                        *)
LEMMA NoWitnessType ==
    ASSUME TypeOK, NEW outcome \in Outcomes, NEW proved \in BOOLEAN, NoWitness(outcome, proved)
    PROVE  TypeOK'
  <1>1. /\ log' \in Seq([outcome: Outcomes, steps: Nat \ {0}, depth: Nat, proved: BOOLEAN])
        /\ tier' \in 0..Len(Tiers) - 1 /\ phase' \in {"pick", "done"}
    BY AnswerType, PromoteType DEF NoWitness
  <1>2. design' \in Designs /\ goal' \in Goals /\ witness' \in Seq(Step) /\ depth' = 0
    BY DEF NoWitness, TypeOK
  <1>3. depth' \in 0..Limit' + 1
    BY <1>1, <1>2, NextLimitType
  <1> QED
    BY <1>1, <1>2, <1>3 DEF TypeOK

THEOREM SearchTypes == Spec => []TypeOK
  <1>1. Init => TypeOK
    <2> SUFFICES ASSUME Init PROVE TypeOK
      OBVIOUS
    <2>1. Len(Tiers) \in Nat \ {0}
      BY SearchAssumption
    <2>2. 0 \in 0..Len(Tiers) - 1
      BY <2>1
    <2>3. tier = 0 /\ Tiers[tier + 1] \in Nat
      BY <2>2, TierSteps DEF Init
    <2>4. Limit \in Nat
      BY <2>3, SearchAssumption DEF Limit
    <2> QED
      BY <2>1, <2>4 DEF Init, TypeOK
  <1>2. TypeOK /\ [Next]_vars => TypeOK'
    <2> SUFFICES ASSUME TypeOK, [Next]_vars PROVE TypeOK'
      OBVIOUS
    <2> USE LimitType
    <2>1. CASE Start
      <3>1. Limit' = Limit
        BY <2>1 DEF Start, Limit, Toggle
      <3>2. depth' \in 0..Limit + 1
        BY <2>1 DEF Start, MinDepth
      <3> QED
        BY <2>1, <3>1, <3>2 DEF Start, TypeOK
    <2>2. CASE SolveSat
      <3>1. Limit' = Limit /\ depth \in Nat
        BY <2>2 DEF SolveSat, Limit, Toggle, TypeOK
      <3>2. witness' \in Seq(Step)
        BY <2>2, <3>1, InspectType DEF SolveSat
      <3>3. log' \in Seq([outcome: Outcomes, steps: Nat \ {0}, depth: Nat, proved: BOOLEAN])
        BY <2>2, AnswerType DEF SolveSat, Outcomes
      <3> QED
        BY <2>2, <3>1, <3>2, <3>3 DEF SolveSat, TypeOK
    <2>3. CASE SolveUnsat
      <3>1. Limit' = Limit
        BY <2>3 DEF SolveUnsat, Limit, Toggle
      <3> QED
        BY <2>3, <3>1 DEF SolveUnsat, WithinLimit, TypeOK
    <2>4. CASE NoPath
      BY <2>4, NoWitnessType DEF NoPath, Outcomes
    <2>5. CASE SolveUnknown
      BY <2>5, NoWitnessType DEF SolveUnknown, Outcomes
    <2>6. CASE Fail
      BY <2>6, NoWitnessType DEF Fail, Outcomes
    <2>7. CASE Kill
      BY <2>7, NoWitnessType DEF Kill, Outcomes
    <2>8. CASE Replay
      <3>1. tier' \in 0..Len(Tiers) - 1 /\ phase' \in {"pick", "done"}
        <4>1. PICK productive \in Productive(CycleInputs(witness)) :
                 IF productive THEN tier' = tier /\ phase' \in {"pick", "done"} ELSE Promote
          BY <2>8 DEF Replay
        <4>2. CASE productive
          BY <4>1, <4>2 DEF TypeOK
        <4>3. CASE ~productive
          BY <4>1, <4>3, PromoteType
        <4> QED
          BY <4>2, <4>3
      <3>2. depth' \in 0..Limit' + 1
        BY <2>8, <3>1, NextLimitType DEF Replay
      <3>3. witness' \in Seq(Step)
        BY <2>8 DEF Replay
      <3> QED
        BY <2>8, <3>1, <3>2, <3>3 DEF Replay, TypeOK
    <2>9. CASE UNCHANGED vars
      BY <2>9 DEF vars, TypeOK, Limit, Toggle
    <2> QED
      BY <2>1, <2>2, <2>3, <2>4, <2>5, <2>6, <2>7, <2>8, <2>9 DEF Next
  <1> QED
    BY <1>1, <1>2, PTL DEF Spec

-----------------------------------------------------------------------------
(* The last answer is the new one, the others are the old ones.            *)
LEMMA AnswerLog ==
    ASSUME TypeOK, NEW outcome, NEW proved, Answer(outcome, proved)
    PROVE  \A n \in DOMAIN log' :
              \/ n \in DOMAIN log /\ log'[n] = log[n]
              \/ log'[n] = [outcome |-> outcome, steps |-> Limit, depth |-> depth, proved |-> proved]
  <1> DEFINE e == [outcome |-> outcome, steps |-> Limit, depth |-> depth, proved |-> proved]
  <1>1. log' = Append(log, e)
    BY DEF Answer
  <1>2. log \in Seq([outcome: Outcomes, steps: Nat \ {0}, depth: Nat, proved: BOOLEAN])
    BY DEF TypeOK
  <1> HIDE DEF e
  <1>3. \A n \in DOMAIN log' : (n \in DOMAIN log /\ log'[n] = log[n]) \/ log'[n] = e
    BY <1>1, <1>2
  <1> QED
    BY <1>3 DEF e

(* A new log keeps the invariant if its last answer is in order.           *)
LEMMA AnswerInOrder ==
    ASSUME TypeOK, SearchedInOrder, NEW outcome, NEW proved, Answer(outcome, proved),
           design' = design, goal' = goal, phase' # "search",
           Answered(design, goal, [outcome |-> outcome, steps |-> Limit, depth |-> depth, proved |-> proved])
    PROVE  SearchedInOrder'
  <1>1. \A n \in DOMAIN log' : Answered(design, goal, log'[n])
    BY AnswerLog DEF SearchedInOrder
  <1> QED
    BY <1>1 DEF SearchedInOrder

(* A call without a witness keeps the invariant if what it claims is true. *)
LEMMA NoWitnessInOrder ==
    ASSUME TypeOK, SearchedInOrder, NEW outcome, NEW proved, NoWitness(outcome, proved),
           outcome # "sat", outcome = "unsat" /\ proved => Searched(design, goal, Limit + 1)
    PROVE  SearchedInOrder'
  <1>1. Answered(design, goal, [outcome |-> outcome, steps |-> Limit, depth |-> depth, proved |-> proved])
    BY DEF Answered
  <1>2. phase' # "search"
    BY PromoteType DEF NoWitness
  <1> QED
    BY <1>1, <1>2, AnswerInOrder DEF NoWitness

(* Depths are searched in order, and answers say what was searched.        *)
THEOREM AnswersInOrder == Spec => []SearchedInOrder
  <1>1. Init => SearchedInOrder
    BY DEF Init, SearchedInOrder
  <1>2. TypeOK /\ SearchedInOrder /\ [Next]_vars => SearchedInOrder'
    <2> SUFFICES ASSUME TypeOK, SearchedInOrder, [Next]_vars PROVE SearchedInOrder'
      OBVIOUS
    <2>0. Limit \in Nat /\ depth \in 0..Limit + 1
      BY LimitType DEF TypeOK
    <2>a. MinDepth(goal) \in Nat
      BY DEF MinDepth
    <2>1. CASE Start
      <3>1. MinDepth(goal) >= MinDepth(goal) /\ Searched(design, goal, MinDepth(goal))
        BY <2>a DEF Searched
      <3>2. (phase = "search" => depth >= MinDepth(goal) /\ Searched(design, goal, depth))'
        BY <2>1, <3>1 DEF Start
      <3>3. \A n \in DOMAIN log' : Answered(design', goal', log'[n])
        BY <2>1 DEF Start, SearchedInOrder
      <3> QED
        BY <3>2, <3>3 DEF SearchedInOrder
    <2>2. CASE SolveSat
      <3>1. depth >= MinDepth(goal) /\ Searched(design, goal, depth) /\ Solutions(design, goal, depth) # {}
        BY <2>2 DEF SolveSat, SearchedInOrder
      <3>2. Answered(design, goal, [outcome |-> "sat", steps |-> Limit, depth |-> depth, proved |-> TRUE])
        BY <3>1 DEF Answered
      <3> QED
        BY <2>2, <3>2, AnswerInOrder DEF SolveSat
    <2>3. CASE SolveUnsat
      <3>1. depth >= MinDepth(goal) /\ Searched(design, goal, depth) /\ Solutions(design, goal, depth) = {}
        BY <2>3 DEF SolveUnsat, SearchedInOrder
      <3>2. depth + 1 >= MinDepth(goal) /\ \A j \in MinDepth(goal)..(depth + 1) - 1 : Solutions(design, goal, j) = {}
        <4>1. \A j \in MinDepth(goal)..(depth + 1) - 1 : j = depth \/ j \in MinDepth(goal)..depth - 1
          BY <2>0, <2>a
        <4> QED
          BY <2>0, <2>a, <3>1, <4>1 DEF Searched
      <3>3. (phase = "search" => depth >= MinDepth(goal) /\ Searched(design, goal, depth))'
        BY <2>3, <3>2 DEF SolveUnsat, Searched
      <3>4. \A n \in DOMAIN log' : Answered(design', goal', log'[n])
        BY <2>3 DEF SolveUnsat, SearchedInOrder
      <3> QED
        BY <3>3, <3>4 DEF SearchedInOrder
    <2>4. CASE NoPath
      <3>1. depth = Limit + 1
        BY <2>0, <2>4 DEF NoPath, WithinLimit
      <3>2. Searched(design, goal, Limit + 1)
        BY <2>4, <3>1 DEF NoPath, SearchedInOrder
      <3> QED
        BY <2>4, <3>2, NoWitnessInOrder DEF NoPath
    <2>5. CASE SolveUnknown
      BY <2>5, NoWitnessInOrder DEF SolveUnknown
    <2>6. CASE Fail
      BY <2>6, NoWitnessInOrder DEF Fail
    <2>7. CASE Kill
      BY <2>7, NoWitnessInOrder DEF Kill
    <2>8. CASE Replay
      <3>1. phase' # "search"
        BY <2>8, PromoteType DEF Replay
      <3>2. \A n \in DOMAIN log' : Answered(design', goal', log'[n])
        BY <2>8 DEF Replay, SearchedInOrder
      <3> QED
        BY <3>1, <3>2 DEF SearchedInOrder
    <2>9. CASE UNCHANGED vars
      <3>1. \A n \in DOMAIN log' : Answered(design', goal', log'[n])
        BY <2>9 DEF vars, SearchedInOrder
      <3>2. (phase = "search" => depth >= MinDepth(goal) /\ Searched(design, goal, depth))'
        BY <2>9 DEF vars, SearchedInOrder
      <3> QED
        BY <3>1, <3>2 DEF SearchedInOrder
    <2> QED
      BY <2>1, <2>2, <2>3, <2>4, <2>5, <2>6, <2>7, <2>8, <2>9 DEF Next
  <1> QED
    BY <1>1, <1>2, SearchTypes, PTL DEF Spec

(* A log entry has numbers in it.                                          *)
LEMMA LogNumbers ==
    ASSUME TypeOK, NEW n \in DOMAIN log
    PROVE  log[n].depth \in Nat /\ log[n].steps \in Nat \ {0}
  <1>1. \A S : \A s \in Seq(S) : \A k \in DOMAIN s : s[k] \in S
    OBVIOUS
  <1>2. log[n] \in [outcome: Outcomes, steps: Nat \ {0}, depth: Nat, proved: BOOLEAN]
    BY <1>1, Zenon DEF TypeOK
  <1> QED
    BY <1>2

(* Two depths that both have a solution and nothing below are one depth:   *)
(* every witness of a goal is as deep as the first one, on every tier.     *)
THEOREM SameDepthOnEveryTier == Spec => []DepthIsTheGoals
  <1>1. TypeOK /\ SearchedInOrder => DepthIsTheGoals
    <2> SUFFICES ASSUME TypeOK, SearchedInOrder, NEW m \in DOMAIN log, NEW n \in DOMAIN log,
                        log[m].outcome = "sat", log[n].outcome = "sat"
                 PROVE  log[m].depth = log[n].depth
      BY DEF DepthIsTheGoals
    <2>1. log[m].depth \in Nat /\ log[n].depth \in Nat /\ MinDepth(goal) \in Nat
      BY LogNumbers DEF MinDepth
    <2>2. Answered(design, goal, log[m]) /\ Answered(design, goal, log[n])
      BY DEF SearchedInOrder
    <2>3. ~(log[m].depth < log[n].depth)
      BY <2>1, <2>2 DEF Answered, Searched
    <2>4. ~(log[n].depth < log[m].depth)
      BY <2>1, <2>2 DEF Answered, Searched
    <2> QED
      BY <2>1, <2>3, <2>4
  <1> QED
    BY <1>1, SearchTypes, AnswersInOrder, PTL

(* What one tier refutes no other tier finds.                              *)
THEOREM RefutationsHold == Spec => []RefutedStaysRefuted
  <1>1. TypeOK /\ SearchedInOrder => RefutedStaysRefuted
    <2> SUFFICES ASSUME TypeOK, SearchedInOrder, NEW m \in DOMAIN log, NEW n \in DOMAIN log,
                        log[m].outcome = "unsat", log[m].proved, log[n].outcome = "sat"
                 PROVE  log[n].depth > log[m].steps
      BY DEF RefutedStaysRefuted
    <2>1. log[n].depth \in Nat /\ log[m].steps \in Nat /\ MinDepth(goal) \in Nat
      BY LogNumbers DEF MinDepth
    <2>2. Answered(design, goal, log[m]) /\ Answered(design, goal, log[n])
      BY DEF SearchedInOrder
    <2>3. Searched(design, goal, log[m].steps + 1)
      BY <2>2 DEF Answered
    <2>4. log[n].depth >= MinDepth(goal) /\ Solutions(design, goal, log[n].depth) # {}
      BY <2>2 DEF Answered
    <2> QED
      BY <2>1, <2>3, <2>4 DEF Searched
  <1> QED
    BY <1>1, SearchTypes, AnswersInOrder, PTL

-----------------------------------------------------------------------------
(* Flops and CycleInputs are recursions; both have a solution because they *)
(* are trajectories of a machine that is driven with the numbers 1, 2, ... *)

Numbers(n) == [i \in 1..n |-> i]

LEMMA NumbersType ==
    ASSUME NEW n \in Nat
    PROVE  /\ Numbers(n) \in Seq(1..n) /\ Len(Numbers(n)) = n
           /\ \A i \in 1..n : Numbers(n)[i] = i
  BY DEF Numbers

(* A machine on a set of states driven for n steps has its trajectory.     *)
Drives(machine, from, n, f) ==
    f[0] = from /\ \A i \in 1..n : f[i] = machine[<<f[i - 1], i>>]

LEMMA MachineRuns ==
    ASSUME NEW S, NEW n \in Nat, NEW machine \in [S \X (1..n) -> S], NEW from \in S
    PROVE  \E f \in [0..n -> S] : Drives(machine, from, n, f)
  <1> DEFINE T == Trajectory(machine, from, Numbers(n))
             f == [i \in 0..n |-> T[i]]
  <1>1. Numbers(n) \in Seq(1..n) /\ Len(Numbers(n)) = n /\ \A i \in 1..n : Numbers(n)[i] = i
    BY NumbersType
  <1>2. \A i \in 0..n : T[i] \in S
    <2>1. \A i \in 0..Len(Numbers(n)) : T[i] \in S
      BY <1>1, TrajectoryType
    <2> QED
      BY <1>1, <2>1
  <1>3. Follows(T, machine, from, Numbers(n))
    BY <1>1, TrajectoryFollows
  <1>4. T[0] = from /\ \A i \in 1..n : T[i] = machine[<<T[i - 1], i>>]
    BY <1>1, <1>3 DEF Follows
  <1> HIDE DEF T
  <1>5. f \in [0..n -> S] /\ f[0] = from
    BY <1>2, <1>4
  <1>6. \A i \in 1..n : f[i] = machine[<<f[i - 1], i>>]
    <2>1. \A i \in 1..n : i \in 0..n /\ i - 1 \in 0..n
      OBVIOUS
    <2> QED
      BY <1>4, <2>1
  <1> QED
    BY <1>5, <1>6 DEF Drives

(* What a reset and a clock make of a state.                               *)
LEMMA SettledType ==
    ASSUME NEW d \in Designs, NEW s \in States, NEW in \in Inputs
    PROVE  /\ Settled(d, s, in) \in States
           /\ d.next[<<s, in>>] \in States
           /\ Settled(d, Settled(d, s, in), in) = Settled(d, s, in)
  <1>1. d.clear \in [States -> States] /\ d.next \in [States \X Inputs -> States]
    BY SearchAssumption DEF DesignType
  <1>2. d.clear[d.clear[s]] = d.clear[s]
    BY SearchAssumption
  <1> QED
    BY <1>1, <1>2 DEF Settled

(* A cycle of the simulator.                                               *)
LEMMA CycleType ==
    ASSUME NEW d \in Designs
    PROVE  /\ Cycle(d) \in [States \X Inputs -> States]
           /\ \A s \in States, in \in Inputs :
                 Cycle(d)[<<s, in>>] = Settled(d, d.next[<<Settled(d, s, in), in>>], in)
  <1>1. \A s \in States, in \in Inputs :
            Settled(d, d.next[<<Settled(d, s, in), in>>], in) \in States
    BY SettledType
  <1>2. \A pair \in States \X Inputs : pair[1] \in States /\ pair[2] \in Inputs
    OBVIOUS
  <1>3. \A pair \in States \X Inputs :
            Settled(d, d.next[<<Settled(d, pair[1], pair[2]), pair[2]>>], pair[2]) \in States
    BY <1>1, <1>2
  <1>4. Cycle(d) \in [States \X Inputs -> States]
    BY <1>3 DEF Cycle
  <1>5. ASSUME NEW s \in States, NEW in \in Inputs
        PROVE  Cycle(d)[<<s, in>>] = Settled(d, d.next[<<Settled(d, s, in), in>>], in)
    <2>1. <<s, in>> \in States \X Inputs /\ <<s, in>>[1] = s /\ <<s, in>>[2] = in
      OBVIOUS
    <2> QED
      BY <2>1, Zenon DEF Cycle
  <1> QED
    BY <1>4, <1>5

(* The flops start at zero, change when the clock rises and settle.        *)
Clocks(trace, i) == trace[i - 1].clk = 0 /\ trace[i].clk = 1

Stepped(d, trace, i, s) ==
    Settled(d, Settled(d, Clocked(d, trace, i, s), trace[i - 1].in), trace[i].in)

FlopsFollow(q, d, trace, k) ==
    /\ q[0] = Settled(d, Zero, trace[0].in)
    /\ \A i \in 1..k : q[i - 1] \in States /\ q[i] = Stepped(d, trace, i, q[i - 1])
    /\ q[k] \in States

LEMMA FlopsAre ==
    ASSUME NEW d \in Designs, NEW k \in Nat, NEW trace \in [0..k -> Step]
    PROVE  FlopsFollow(Flops(d, trace, k), d, trace, k)
  <1> DEFINE zero == Settled(d, Zero, trace[0].in)
             machine == [pair \in States \X (1..k) |-> Stepped(d, trace, pair[2], pair[1])]
             Is(q) == q = [i \in 0..k |->
                             IF i = 0 THEN Settled(d, Zero, trace[0].in)
                             ELSE Settled(d, Settled(d, Clocked(d, trace, i, q[i - 1]), trace[i - 1].in),
                                          trace[i].in)]
  <1>1. \A i \in 0..k : trace[i].in \in Inputs
    BY DEF Step
  <1>2. zero \in States
    <2>1. trace[0].in \in Inputs /\ Zero \in States
      BY <1>1, SearchAssumption
    <2> QED
      BY <2>1, SettledType
  <1>3. \A i \in 1..k, st \in States : Stepped(d, trace, i, st) \in States
    <2> SUFFICES ASSUME NEW i \in 1..k, NEW st \in States PROVE Stepped(d, trace, i, st) \in States
      OBVIOUS
    <2>1. i \in 0..k /\ i - 1 \in 0..k
      OBVIOUS
    <2>2. trace[i - 1].in \in Inputs /\ trace[i].in \in Inputs
      BY <1>1, <2>1
    <2>3. Clocked(d, trace, i, st) \in States
      BY <2>2, SettledType DEF Clocked
    <2>4. Settled(d, Clocked(d, trace, i, st), trace[i - 1].in) \in States
      BY <2>2, <2>3, SettledType
    <2> QED
      BY <2>2, <2>4, SettledType DEF Stepped
  <1>4. machine \in [States \X (1..k) -> States]
    <2>1. \A pair \in States \X (1..k) : pair[1] \in States /\ pair[2] \in 1..k
      OBVIOUS
    <2> QED
      BY <1>3, <2>1
  <1>5. PICK f \in [0..k -> States] : Drives(machine, zero, k, f)
    <2> HIDE DEF machine, zero
    <2> QED
      BY <1>2, <1>4, MachineRuns
  <1>6. \A i \in 1..k : f[i - 1] \in States /\ i - 1 \in 0..k /\ i \in 0..k /\ i # 0
    BY <1>5
  <1>7. \A i \in 1..k : f[i] = Stepped(d, trace, i, f[i - 1])
    <2> SUFFICES ASSUME NEW i \in 1..k
                 PROVE  machine[<<f[i - 1], i>>] = Stepped(d, trace, i, f[i - 1])
      BY <1>5 DEF Drives
    <2>1. <<f[i - 1], i>> \in States \X (1..k)
      BY <1>6
    <2>2. <<f[i - 1], i>>[1] = f[i - 1] /\ <<f[i - 1], i>>[2] = i
      OBVIOUS
    <2> QED
      BY <2>1, <2>2, Zenon
  <1>8. Is(f)
    <2>1. f[0] = zero
      BY <1>5 DEF Drives
    <2>2. \A i \in 0..k : i # 0 => i \in 1..k
      OBVIOUS
    <2>3. f = [i \in 0..k |-> f[i]]
      BY <1>5
    <2>4. \A i \in 0..k :
             f[i] = IF i = 0 THEN Settled(d, Zero, trace[0].in)
                    ELSE Settled(d, Settled(d, Clocked(d, trace, i, f[i - 1]), trace[i - 1].in),
                                 trace[i].in)
      BY <1>7, <2>1, <2>2 DEF Stepped
    <2> QED
      BY <2>3, <2>4, Zenon
  <1>9. Flops(d, trace, k) = CHOOSE q : Is(q)
    BY Zenon DEF Flops
  <1> DEFINE q == Flops(d, trace, k)
  <1>10. Is(q)
    BY <1>8, <1>9, Zenon
  <1> HIDE DEF q
  <1>11. 0 \in 0..k /\ \A i \in 1..k : i \in 0..k /\ i # 0
    OBVIOUS
  <1>12. q[0] = zero
    BY <1>10, <1>11, Zenon
  <1>13. \A i \in 1..k : q[i] = Stepped(d, trace, i, q[i - 1])
    <2> SUFFICES ASSUME NEW i \in 1..k PROVE q[i] = Stepped(d, trace, i, q[i - 1])
      OBVIOUS
    <2>1. i \in 0..k /\ i # 0
      BY <1>11
    <2>2. q[i] = IF i = 0 THEN Settled(d, Zero, trace[0].in)
                 ELSE Settled(d, Settled(d, Clocked(d, trace, i, q[i - 1]), trace[i - 1].in),
                              trace[i].in)
      BY <1>10, <2>1, Zenon
    <2> QED
      BY <2>1, <2>2, Zenon DEF Stepped
  <1>14. \A i \in 0..k : q[i] \in States
    <2> DEFINE T == {i \in Nat : i <= k => q[i] \in States}
    <2>1. 0 \in T
      BY <1>2, <1>12
    <2>2. ASSUME NEW i \in Nat, i \in T PROVE i + 1 \in T
      <3> SUFFICES ASSUME i + 1 <= k PROVE q[i + 1] \in States
        OBVIOUS
      <3>1. i + 1 \in 1..k /\ (i + 1) - 1 = i /\ q[i] \in States
        BY <2>2
      <3>2. q[i + 1] = Stepped(d, trace, i + 1, q[i])
        BY <1>13, <3>1
      <3> QED
        BY <1>3, <3>1, <3>2
    <2> HIDE DEF T
    <2>3. Nat \subseteq T
      BY <2>1, <2>2, NatSetInduction
    <2> QED
      BY <2>3 DEF T
  <1>15. \A i \in 1..k : i - 1 \in 0..k
    OBVIOUS
  <1>16. k \in 0..k
    OBVIOUS
  <1> QED
    BY <1>12, <1>13, <1>14, <1>15, <1>16 DEF FlopsFollow, q

(* The cycles wrapped up to each step: one more with each rise.            *)
UptoFollows(u, steps) ==
    /\ u[0] = <<>>
    /\ \A j \in 1..Len(steps) :
          u[j] = IF Rises(steps, j) THEN Append(u[j - 1], steps[j - 1].in) ELSE u[j - 1]

LEMMA CycleInputsAre ==
    ASSUME NEW steps \in Seq(Step)
    PROVE  \E u : UptoFollows(u, steps) /\ CycleInputs(steps) = u[Len(steps)]
  <1> DEFINE n == Len(steps)
             S == Seq(Inputs)
             machine == [p \in S \X (1..n) |->
                            IF Rises(steps, p[2]) THEN Append(p[1], steps[p[2] - 1].in) ELSE p[1]]
             Is(u) == u = [j \in 0..n |->
                             IF j = 0 THEN <<>>
                             ELSE IF Rises(steps, j) THEN Append(u[j - 1], steps[j - 1].in)
                             ELSE u[j - 1]]
  <1>1. n \in Nat /\ <<>> \in S
    OBVIOUS
  <1>2. \A j \in 1..n : Rises(steps, j) => steps[j - 1].in \in Inputs
    <2> SUFFICES ASSUME NEW j \in 1..n, j > 1 PROVE steps[j - 1].in \in Inputs
      BY DEF Rises
    <2>1. j - 1 \in 1..n
      OBVIOUS
    <2>2. steps[j - 1] \in Step
      BY <2>1
    <2> QED
      BY <2>2 DEF Step
  <1>3. machine \in [S \X (1..n) -> S]
    <2> SUFFICES ASSUME NEW p \in S \X (1..n)
                 PROVE  (IF Rises(steps, p[2]) THEN Append(p[1], steps[p[2] - 1].in) ELSE p[1]) \in S
      OBVIOUS
    <2>1. p[1] \in S /\ p[2] \in 1..n
      OBVIOUS
    <2>2. Rises(steps, p[2]) => steps[p[2] - 1].in \in Inputs
      BY <1>2, <2>1
    <2> QED
      BY <2>1, <2>2
  <1>4. PICK f \in [0..n -> S] : Drives(machine, <<>>, n, f)
    <2> HIDE DEF machine, S, n
    <2> QED
      BY <1>1, <1>3, MachineRuns
  <1>5. \A j \in 1..n : f[j - 1] \in S
    BY <1>4
  <1>6. \A j \in 1..n : f[j] = IF Rises(steps, j) THEN Append(f[j - 1], steps[j - 1].in)
                               ELSE f[j - 1]
    <2> SUFFICES ASSUME NEW j \in 1..n
                 PROVE  machine[<<f[j - 1], j>>] =
                           IF Rises(steps, j) THEN Append(f[j - 1], steps[j - 1].in) ELSE f[j - 1]
      BY <1>4 DEF Drives
    <2>1. <<f[j - 1], j>> \in S \X (1..n)
      BY <1>5
    <2> QED
      BY <2>1
  <1>7. Is(f)
    <2>1. f[0] = <<>>
      BY <1>4 DEF Drives
    <2>2. \A j \in 0..n : f[j] = IF j = 0 THEN <<>>
                                 ELSE IF Rises(steps, j) THEN Append(f[j - 1], steps[j - 1].in)
                                 ELSE f[j - 1]
      <3> HIDE DEF machine, S, n
      <3>1. \A j \in 0..n : j = 0 \/ (j # 0 /\ j \in 1..n)
        BY <1>1
      <3> QED
        BY <1>6, <2>1, <3>1
    <2>3. f = [j \in 0..n |-> f[j]]
      BY <1>4
    <2> HIDE DEF machine, S, n
    <2> QED
      BY <2>2, <2>3, Zenon
  <1> DEFINE u == CHOOSE v : Is(v)
  <1>8. CycleInputs(steps) = u[n]
    BY Zenon DEF CycleInputs
  <1>9. Is(u)
    BY <1>7, Zenon
  <1> HIDE DEF u
  <1>10. 0 \in 0..n /\ \A j \in 1..n : j \in 0..n /\ j # 0
    OBVIOUS
  <1>11. u[0] = <<>>
    BY <1>9, <1>10
  <1>12. \A j \in 1..n : u[j] = IF Rises(steps, j) THEN Append(u[j - 1], steps[j - 1].in)
                                ELSE u[j - 1]
    BY <1>9, <1>10
  <1> QED
    BY <1>8, <1>11, <1>12 DEF UptoFollows

-----------------------------------------------------------------------------
(* From the half-cycle model to clock cycles *)

(* The cycles wrapped up to step j lead the simulator where the flops are  *)
(* in the step before, but for a reset asserted in it; two steps make a    *)
(* cycle at most.                                                          *)
Wrapped(u, j, q, steps) ==
    /\ u[j] \in Seq(Inputs)
    /\ Len(u[j]) + Len(u[j]) <= j
    /\ j > 0 /\ steps[j].clk = 0 => Len(u[j]) + Len(u[j]) <= j - 1
    /\ Run(Cycle(design), Zero, u[j]) \in States
    /\ ResetsKept(steps) =>
          IF j = 0 THEN Run(Cycle(design), Zero, u[j]) = Zero
          ELSE q[j - 1] = Settled(design, Run(Cycle(design), Zero, u[j]), steps[j].in)

LEMMA WrapKeepsPace ==
    ASSUME TypeOK, NEW k \in Nat \ {0}, NEW trace \in [0..k -> Step], NEW q, NEW u,
           FlopsFollow(q, design, trace, k), UptoFollows(u, Inspect(trace, k))
    PROVE  \A j \in 0..k : Wrapped(u, j, q, Inspect(trace, k))
  <1> DEFINE steps == Inspect(trace, k)
             C == Cycle(design)
             S == {j \in Nat : j <= k => Wrapped(u, j, q, steps)}
  <1>1. Len(steps) = k /\ \A j \in 1..k : /\ steps[j] = trace[j - 1] /\ steps[j] \in Step
                                          /\ steps[j].in \in Inputs
    <2>1. \A j \in 1..k : trace[j - 1] \in Step
      OBVIOUS
    <2>2. steps \in [1..k -> Step]
      BY <2>1 DEF Inspect
    <2> QED
      BY <2>1, <2>2 DEF Inspect, Step
  <1> HIDE DEF steps
  <1>2. design \in Designs /\ Zero \in States
    BY SearchAssumption DEF TypeOK
  <1>3. /\ C \in [States \X Inputs -> States]
        /\ \A st \in States, in \in Inputs :
              C[<<st, in>>] = Settled(design, design.next[<<Settled(design, st, in), in>>], in)
    BY <1>2, CycleType
  <1> HIDE DEF C
  <1>4. u[0] = <<>> /\ q[0] = Settled(design, Zero, trace[0].in)
    BY DEF UptoFollows, FlopsFollow
  <1>5. \A j \in 1..k : u[j] = IF Rises(steps, j) THEN Append(u[j - 1], steps[j - 1].in) ELSE u[j - 1]
    BY <1>1 DEF UptoFollows, steps
  <1>6. Run(C, Zero, <<>>) = Zero
    BY RunOfNone
  <1>7. 0 \in S
    <2>1. Len(<<>>) = 0 /\ <<>> \in Seq(Inputs)
      OBVIOUS
    <2> QED
      BY <1>2, <1>4, <1>6, <2>1 DEF Wrapped, C
  <1>8. ASSUME NEW j \in Nat, j \in S PROVE j + 1 \in S
    <2> SUFFICES ASSUME j + 1 <= k PROVE Wrapped(u, j + 1, q, steps)
      OBVIOUS
    <2>1. /\ Wrapped(u, j, q, steps)
          /\ j + 1 \in 1..k /\ (j + 1) - 1 = j /\ steps[j + 1] = trace[j] /\ steps[j + 1].in \in Inputs
      <3>1. Wrapped(u, j, q, steps)
        BY <1>8
      <3>2. j + 1 \in 1..k /\ (j + 1) - 1 = j
        BY <1>8
      <3> QED
        BY <1>1, <3>1, <3>2
    <2>2. u[j + 1] = IF Rises(steps, j + 1) THEN Append(u[j], steps[j].in) ELSE u[j]
      BY <1>5, <2>1
    <2>3. Len(u[j]) \in Nat /\ u[j] \in Seq(Inputs)
      BY <2>1 DEF Wrapped
    <2>4. CASE j = 0
      <3>1. u[j + 1] = <<>>
        BY <1>4, <2>2, <2>4 DEF Rises
      <3>2. u[j] = <<>> /\ Len(<<>>) = 0 /\ <<>> \in Seq(Inputs) /\ j + 1 = 1 /\ q[(j + 1) - 1] = q[0]
        BY <1>4, <2>4
      <3>3. q[0] = Settled(design, Zero, steps[1].in)
        BY <1>4, <2>1, <2>4
      <3> QED
        BY <1>2, <1>6, <3>1, <3>2, <3>3 DEF Wrapped, C
    <2>5. CASE j # 0
      <3> DEFINE m == Run(C, Zero, u[j])
                 a == steps[j].in
                 b == steps[j + 1].in
      <3>1. j \in 1..k /\ steps[j] = trace[j - 1] /\ a \in Inputs /\ b \in Inputs
        BY <1>1, <2>1, <2>5
      <3>2. q[j - 1] \in States /\ q[j] = Stepped(design, trace, j, q[j - 1])
        BY <3>1 DEF FlopsFollow
      <3>3. Rises(steps, j + 1) <=> Clocks(trace, j)
        BY <2>1, <2>5, <3>1 DEF Rises, Clocks
      <3>4. m \in States /\ (ResetsKept(steps) => q[j - 1] = Settled(design, m, a))
        BY <2>1, <2>5 DEF Wrapped, C
      <3>5. ResetsKept(steps) => (a \in design.rst => Rises(steps, j + 1))
        BY <1>1, <3>1 DEF ResetsKept
      <3>6. CASE Rises(steps, j + 1)
        <4>1. steps[j].clk = 0 /\ steps[j + 1].clk = 1
          BY <2>1, <3>6 DEF Rises
        <4>2. u[j + 1] = Append(u[j], a)
          BY <2>2, <3>6
        <4>3. u[j + 1] \in Seq(Inputs) /\ Len(u[j + 1]) = Len(u[j]) + 1
          BY <2>3, <3>1, <4>2
        <4>4. Len(u[j]) + Len(u[j]) <= j - 1
          BY <2>1, <2>5, <4>1 DEF Wrapped
        <4>5. Run(C, Zero, u[j + 1]) = C[<<m, a>>]
          <5>1. OneCycleMore(C, Zero, u[j], a)
            BY <2>3, <3>1, RunAppend
          <5> QED
            BY <4>2, <5>1 DEF OneCycleMore
        <4>6. Run(C, Zero, u[j + 1]) \in States
          BY <1>3, <3>1, <3>4, <4>5
        <4>7. ResetsKept(steps) => q[j] = Settled(design, Run(C, Zero, u[j + 1]), b)
          <5> SUFFICES ASSUME ResetsKept(steps)
                       PROVE  q[j] = Settled(design, Run(C, Zero, u[j + 1]), b)
            OBVIOUS
          <5>1. q[j] = Settled(design, Settled(design, design.next[<<q[j - 1], a>>], a), b)
            BY <2>1, <3>1, <3>2, <3>3, <3>6 DEF Stepped, Clocked, Clocks
          <5>2. Run(C, Zero, u[j + 1]) = Settled(design, design.next[<<q[j - 1], a>>], a)
            BY <1>3, <3>1, <3>4, <4>5
          <5> QED
            BY <5>1, <5>2
        <4> QED
          BY <2>1, <2>3, <4>1, <4>3, <4>4, <4>6, <4>7 DEF Wrapped, C
      <3>7. CASE ~Rises(steps, j + 1)
        <4>1. u[j + 1] = u[j]
          BY <2>2, <3>7
        <4>2. ResetsKept(steps) => q[j] = Settled(design, m, b)
          <5> SUFFICES ASSUME ResetsKept(steps) PROVE q[j] = Settled(design, m, b)
            OBVIOUS
          <5>1. q[j] = Settled(design, Settled(design, q[j - 1], a), b)
            BY <2>1, <3>1, <3>2, <3>3, <3>7 DEF Stepped, Clocked, Clocks
          <5>2. a \notin design.rst
            BY <3>5, <3>7
          <5>3. q[j - 1] = m /\ Settled(design, m, a) = m
            BY <3>4, <5>2 DEF Settled
          <5> QED
            BY <5>1, <5>3
        <4>3. Wrapped(u, j, q, steps)
          BY <2>1
        <4> HIDE DEF m
        <4> QED
          BY <2>1, <2>3, <3>4, <4>1, <4>2, <4>3 DEF Wrapped, C, m
      <3> QED
        BY <3>6, <3>7
    <2> QED
      BY <2>4, <2>5
  <1> HIDE DEF S
  <1>9. Nat \subseteq S
    BY <1>7, <1>8, NatSetInduction
  <1> QED
    BY <1>9 DEF S, steps

(* A witness under replay is one the solver found at the first depth that  *)
(* has any: what the next two theorems need of the history of a call.      *)
WitnessFound ==
    phase = "replay" =>
        /\ depth >= MinDepth(goal) /\ Searched(design, goal, depth)
        /\ \E trace \in Solutions(design, goal, depth) : witness = Inspect(trace, depth)

LEMMA WitnessIsFound == Spec => []WitnessFound
  <1>1. Init => WitnessFound
    BY DEF Init, WitnessFound
  <1>2. TypeOK /\ SearchedInOrder /\ WitnessFound /\ [Next]_vars => WitnessFound'
    <2> SUFFICES ASSUME TypeOK, SearchedInOrder, WitnessFound, [Next]_vars, phase' = "replay"
                 PROVE  /\ depth' >= MinDepth(goal') /\ Searched(design', goal', depth')
                        /\ \E trace \in Solutions(design', goal', depth') :
                              witness' = Inspect(trace, depth')
      BY DEF WitnessFound
    <2>1. CASE SolveSat
      <3>1. phase = "search" /\ depth' = depth /\ design' = design /\ goal' = goal
        BY <2>1 DEF SolveSat
      <3> QED
        BY <2>1, <3>1 DEF SolveSat, SearchedInOrder
    <2>2. CASE UNCHANGED vars
      BY <2>2 DEF vars, WitnessFound
    <2>3. CASE Next /\ ~SolveSat
      <3>1. phase' # "replay"
        BY <2>3, PromoteType DEF Next, Start, SolveUnsat, NoPath, SolveUnknown, Fail, Kill,
                                 NoWitness, Replay, Promote
      <3> QED
        BY <3>1
    <2> QED
      BY <2>1, <2>2, <2>3
  <1> QED
    BY <1>1, <1>2, SearchTypes, AnswersInOrder, PTL DEF Spec

(* A solution of depth k wraps into at most k/2 cycles, and they meet the  *)
(* goal in the simulator, if it is about state and no reset is lost.       *)
LEMMA SolutionWraps ==
    ASSUME TypeOK, NEW k \in Nat, k >= MinDepth(goal), NEW trace \in Solutions(design, goal, k)
    PROVE  LET cycles == CycleInputs(Inspect(trace, k))
           IN  /\ cycles \in Seq(Inputs) /\ Len(cycles) + Len(cycles) <= k
               /\ Stateful /\ ResetsKept(Inspect(trace, k)) => Meets(cycles)
  <1> DEFINE steps == Inspect(trace, k)
             cycles == CycleInputs(steps)
             q == Flops(design, trace, k)
             C == Cycle(design)
  <1>1. k \in Nat \ {0} /\ (goal.sort = "flop" => k >= 2)
    BY DEF MinDepth
  <1>2. trace \in [0..k -> Step] /\ GoalHolds(design, goal, trace, k)
    BY DEF Solutions
  <1>3. design \in Designs /\ goal \in Goals
    BY DEF TypeOK
  <1>4. steps \in Seq(Step) /\ Len(steps) = k
    <2>1. steps \in Seq(Step)
      BY InspectType
    <2>2. Len(steps) = k
      BY DEF Inspect
    <2> QED
      BY <2>1, <2>2
  <1>5. FlopsFollow(q, design, trace, k)
    BY <1>2, <1>3, FlopsAre
  <1>6. PICK u : UptoFollows(u, steps) /\ cycles = u[Len(steps)]
    BY <1>4, CycleInputsAre
  <1> HIDE DEF cycles, q
  <1>7. \A j \in 0..k : Wrapped(u, j, q, steps)
    BY <1>1, <1>2, <1>5, <1>6, WrapKeepsPace
  <1> HIDE DEF steps
  <1>8. cycles = u[k] /\ Wrapped(u, k, q, steps)
    BY <1>1, <1>4, <1>6, <1>7
  <1>9. cycles \in Seq(Inputs) /\ Len(cycles) + Len(cycles) <= k
    BY <1>8 DEF Wrapped
  <1>10. \A j \in 1..k : steps[j].in \in Inputs
    <2>1. \A j \in 1..k : steps[j] \in Step
      BY <1>4
    <2> QED
      BY <2>1 DEF Step
  <1> SUFFICES ASSUME Stateful, ResetsKept(steps) PROVE Meets(cycles)
    BY <1>9 DEF cycles, steps
  <1>11. q[k - 1] = Run(C, Zero, cycles)
    <2>1. steps[k].in \notin design.rst
      BY <1>1, <1>4 DEF ResetsKept
    <2>2. q[k - 1] = Settled(design, Run(C, Zero, cycles), steps[k].in)
      BY <1>1, <1>8 DEF Wrapped
    <2> QED
      BY <2>1, <2>2 DEF Settled
  <1>12. CASE goal.sort = "value"
    <2>1. q[k - 1] \in goal.want
      BY <1>1, <1>2, <1>12 DEF GoalHolds, Sample, q
    <2> QED
      BY <1>9, <1>11, <1>12, <2>1 DEF Meets, Run
  <1>13. CASE goal.sort = "flop"
    <2>1. q[k - 1] \in goal.want /\ q[(k - 1) - 1] \notin goal.want
      BY <1>1, <1>2, <1>13 DEF GoalHolds, Sample, q
    <2>2. /\ k - 1 \in 1..k /\ k - 1 \in 0..k /\ k \in 1..k /\ (k - 1) + 1 = k
          /\ (k - 1) - 1 \in Nat /\ k - 1 < k
      BY <1>1, <1>13
    <2> DEFINE m == Run(C, Zero, u[k - 1])
               a == steps[k - 1].in
    <2>3. u[k] = IF Rises(steps, k) THEN Append(u[k - 1], a) ELSE u[k - 1]
      BY <1>4, <1>6, <2>2 DEF UptoFollows
    <2>4. /\ u[k - 1] \in Seq(Inputs) /\ m \in States
          /\ q[(k - 1) - 1] = Settled(design, m, a)
      <3>1. Wrapped(u, k - 1, q, steps) /\ k - 1 # 0
        BY <1>7, <2>2
      <3> QED
        BY <3>1 DEF Wrapped
    <2>5. a \in Inputs /\ (a \in design.rst => Rises(steps, k))
      BY <1>4, <1>10, <2>2 DEF ResetsKept
    <2>6. Rises(steps, k)
      <3> SUFFICES ASSUME ~Rises(steps, k) PROVE FALSE
        OBVIOUS
      <3>1. cycles = u[k - 1] /\ Settled(design, m, a) = m
        BY <1>8, <2>3, <2>5 DEF Settled
      <3> QED
        BY <1>11, <2>1, <2>4, <3>1
    <2>7. cycles = Append(u[k - 1], a)
      BY <1>8, <2>3, <2>6
    <2>8. /\ Trajectory(C, Zero, cycles)[Len(u[k - 1])] = m
          /\ Run(C, Zero, cycles) = C[<<m, a>>]
      <3>1. OneCycleMore(C, Zero, u[k - 1], a)
        BY <2>4, <2>5, RunAppend
      <3> QED
        BY <2>7, <3>1 DEF OneCycleMore
    <2>9. Len(cycles) > 0 /\ Len(cycles) - 1 = Len(u[k - 1])
      BY <2>4, <2>5, <2>7
    <2>10. m \notin goal.want
      <3>1. CASE a \notin design.rst
        BY <2>1, <2>4, <3>1 DEF Settled
      <3>2. CASE a \in design.rst
        <4> DEFINE taken == design.next[<<Settled(design, m, a), a>>]
        <4>1. q[(k - 1) - 1] = design.clear[m]
          BY <2>4, <3>2 DEF Settled
        <4>2. q[k - 1] = design.clear[taken] /\ taken \in States
          <5>1. Settled(design, m, a) \in States
            BY <1>3, <2>4, <2>5, SettledType
          <5>2. taken \in States
            BY <1>3, <2>5, <5>1, SettledType
          <5>3. C[<<m, a>>] = Settled(design, taken, a)
            BY <1>3, <2>4, <2>5, CycleType
          <5> HIDE DEF taken, m, C
          <5> QED
            BY <1>11, <2>8, <3>2, <5>2, <5>3 DEF Settled
        <4>3. Cleared(design, goal.want) \/ Kept(design, goal.want)
          BY <1>3, <1>13, SearchAssumption
        <4> HIDE DEF taken, m
        <4>4. ~Cleared(design, goal.want)
          BY <2>1, <2>4, <4>1, <4>2 DEF Cleared
        <4> QED
          BY <2>1, <2>4, <4>1, <4>3, <4>4 DEF Kept
      <3> QED
        BY <3>1, <3>2
    <2> QED
      BY <1>9, <1>11, <1>13, <2>1, <2>8, <2>9, <2>10 DEF Meets, Run
  <1> QED
    BY <1>12, <1>13 DEF Stateful

(* The replayed cycles meet the goal in the simulator, unless the witness  *)
(* asserts a reset in a half-cycle that is not replayed.                   *)
THEOREM WitnessesReproduce == Spec => []WitnessReproduces
  <1>1. TypeOK /\ WitnessFound => WitnessReproduces
    <2> SUFFICES ASSUME TypeOK, WitnessFound, phase = "replay", Stateful, ResetsKept(witness)
                 PROVE  Meets(CycleInputs(witness))
      BY DEF WitnessReproduces
    <2>1. depth \in Nat
      BY LimitType DEF TypeOK
    <2>2. PICK trace \in Solutions(design, goal, depth) : witness = Inspect(trace, depth)
      BY DEF WitnessFound
    <2> QED
      BY <2>1, <2>2, SolutionWraps DEF WitnessFound
  <1> QED
    BY <1>1, SearchTypes, WitnessIsFound, PTL

-----------------------------------------------------------------------------
(* From clock cycles to the half-cycle model *)

(* The trace that holds the clock at 0 and then at 1 for each cycle, with  *)
(* the inputs of the cycle in both steps.                                  *)
Alternating(cycles, k) ==
    [i \in 0..k |-> [clk |-> i % 2,
                     in  |-> IF i \div 2 < Len(cycles) THEN cycles[(i \div 2) + 1]
                             ELSE CHOOSE input \in Inputs : TRUE]]

LEMMA AlternatingSteps ==
    ASSUME NEW cycles \in Seq(Inputs), NEW k \in Nat
    PROVE  /\ Alternating(cycles, k) \in [0..k -> Step]
           /\ \A j \in 1..Len(cycles) :
                 /\ j + j - 2 \in 0..k => /\ Alternating(cycles, k)[j + j - 2].clk = 0
                                          /\ Alternating(cycles, k)[j + j - 2].in = cycles[j]
                 /\ j + j - 1 \in 0..k => /\ Alternating(cycles, k)[j + j - 1].clk = 1
                                          /\ Alternating(cycles, k)[j + j - 1].in = cycles[j]
  <1>1. (CHOOSE input \in Inputs : TRUE) \in Inputs
    BY SearchAssumption
  <1>2. \A i \in 0..k : i % 2 \in {0, 1} /\ i \div 2 \in Nat
    OBVIOUS
  <1>3. \A i \in 0..k : i \div 2 < Len(cycles) => cycles[(i \div 2) + 1] \in Inputs
    <2> SUFFICES ASSUME NEW i \in 0..k, i \div 2 < Len(cycles)
                 PROVE  cycles[(i \div 2) + 1] \in Inputs
      OBVIOUS
    <2>1. (i \div 2) + 1 \in 1..Len(cycles)
      BY <1>2
    <2> QED
      BY <2>1
  <1>4. Alternating(cycles, k) \in [0..k -> Step]
    BY <1>1, <1>2, <1>3 DEF Alternating, Step
  <1>5. ASSUME NEW j \in 1..Len(cycles), j + j - 2 \in 0..k
        PROVE  /\ Alternating(cycles, k)[j + j - 2].clk = 0
               /\ Alternating(cycles, k)[j + j - 2].in = cycles[j]
    <2>1. (j + j - 2) % 2 = 0 /\ (j + j - 2) \div 2 = j - 1
      OBVIOUS
    <2>2. j - 1 < Len(cycles) /\ (j - 1) + 1 = j
      OBVIOUS
    <2> QED
      BY <1>5, <2>1, <2>2 DEF Alternating
  <1>6. ASSUME NEW j \in 1..Len(cycles), j + j - 1 \in 0..k
        PROVE  /\ Alternating(cycles, k)[j + j - 1].clk = 1
               /\ Alternating(cycles, k)[j + j - 1].in = cycles[j]
    <2>1. (j + j - 1) % 2 = 1 /\ (j + j - 1) \div 2 = j - 1
      OBVIOUS
    <2>2. j - 1 < Len(cycles) /\ (j - 1) + 1 = j
      OBVIOUS
    <2> QED
      BY <1>6, <2>1, <2>2 DEF Alternating
  <1> QED
    BY <1>4, <1>5, <1>6

(* In a trace that drives the first cycles like this the flops are after   *)
(* 2j-1 steps where the simulator is after j cycles, and after 2j where    *)
(* the reset of that step leaves it.                                       *)
Driven(trace, cycles, k, n) ==
    \A j \in 1..n :
       /\ j + j - 2 \in 0..k => trace[j + j - 2].clk = 0 /\ trace[j + j - 2].in = cycles[j]
       /\ j + j - 1 \in 0..k => trace[j + j - 1].clk = 1 /\ trace[j + j - 1].in = cycles[j]

InPace(trace, cycles, k, n) ==
    LET q == Flops(design, trace, k)
        T == Trajectory(Cycle(design), Zero, cycles)
    IN  \A j \in 0..n : /\ T[j] \in States
                        /\ j + j <= k => q[j + j] = Settled(design, T[j], trace[j + j].in)
                        /\ j > 0 /\ j + j - 1 <= k => q[j + j - 1] = T[j]

LEMMA DrivenFlops ==
    ASSUME TypeOK, NEW cycles \in Seq(Inputs), NEW k \in Nat, NEW trace \in [0..k -> Step],
           NEW n \in 0..Len(cycles), Driven(trace, cycles, k, n)
    PROVE  InPace(trace, cycles, k, n)
  <1> DEFINE q == Flops(design, trace, k)
             C == Cycle(design)
             T == Trajectory(C, Zero, cycles)
             Agree(j) == /\ j + j <= k => q[j + j] = Settled(design, T[j], trace[j + j].in)
                         /\ j > 0 /\ j + j - 1 <= k => q[j + j - 1] = T[j]
             S == {j \in Nat : j <= n => Agree(j)}
  <1>1. design \in Designs /\ Zero \in States /\ Len(cycles) \in Nat
    BY SearchAssumption DEF TypeOK
  <1>2. FlopsFollow(q, design, trace, k)
    BY <1>1, FlopsAre
  <1>3. /\ C \in [States \X Inputs -> States]
        /\ \A st \in States, in \in Inputs :
              C[<<st, in>>] = Settled(design, design.next[<<Settled(design, st, in), in>>], in)
    BY <1>1, CycleType
  <1> HIDE DEF C, q
  <1>4. Follows(T, C, Zero, cycles)
    BY <1>1, TrajectoryFollows, Zenon
  <1>5. \A j \in 0..Len(cycles) : T[j] \in States
    BY <1>1, <1>3, TrajectoryType
  <1> HIDE DEF T
  <1>6. \A j \in 0..k : trace[j].in \in Inputs
    BY DEF Step
  <1>7. 0 \in S
    BY <1>2, <1>4 DEF FlopsFollow, Follows
  <1>8. ASSUME NEW j \in Nat, j \in S PROVE j + 1 \in S
    <2> SUFFICES ASSUME j + 1 <= n PROVE Agree(j + 1)
      OBVIOUS
    <2> DEFINE odd == j + j + 1
               even == j + j + 2
               input == cycles[j + 1]
    <2>1. /\ j + 1 \in 1..n /\ j + 1 \in 1..Len(cycles) /\ (j + 1) - 1 = j /\ j \in 0..Len(cycles)
          /\ (j + 1) + (j + 1) = even /\ (j + 1) + (j + 1) - 1 = odd /\ (j + 1) + (j + 1) - 2 = j + j
      OBVIOUS
    <2>2. input \in Inputs /\ T[j] \in States
      BY <1>5, <2>1
    <2>3. T[j + 1] = Settled(design, design.next[<<Settled(design, T[j], input), input>>], input)
      BY <1>3, <1>4, <2>1, <2>2 DEF Follows
    <2>4. Settled(design, T[j + 1], input) = T[j + 1]
      <3>1. Settled(design, T[j], input) \in States
        BY <1>1, <2>2, SettledType
      <3>2. design.next[<<Settled(design, T[j], input), input>>] \in States
        BY <1>1, <2>2, <3>1, SettledType
      <3> QED
        BY <1>1, <2>2, <2>3, <3>2, SettledType
    <2>5. odd <= k => q[odd] = T[j + 1]
      <3> SUFFICES ASSUME odd <= k PROVE q[odd] = T[j + 1]
        OBVIOUS
      <3>1. j + j \in 0..k /\ odd \in 0..k /\ odd \in 1..k /\ odd - 1 = j + j
        OBVIOUS
      <3>2. /\ trace[j + j].clk = 0 /\ trace[j + j].in = input
            /\ trace[odd].clk = 1 /\ trace[odd].in = input
        BY <2>1, <3>1 DEF Driven
      <3>3. q[j + j] = Settled(design, T[j], input)
        BY <1>8, <3>1, <3>2
      <3>4. q[odd] = Stepped(design, trace, odd, q[odd - 1])
        BY <1>2, <3>1 DEF FlopsFollow
      <3>5. Stepped(design, trace, odd, q[odd - 1]) = Settled(design, T[j + 1], input)
        BY <2>3, <3>1, <3>2, <3>3 DEF Stepped, Clocked
      <3> QED
        BY <2>4, <3>4, <3>5
    <2>6. even <= k => q[even] = Settled(design, T[j + 1], trace[even].in)
      <3> SUFFICES ASSUME even <= k PROVE q[even] = Settled(design, T[j + 1], trace[even].in)
        OBVIOUS
      <3>1. odd <= k /\ odd \in 0..k /\ even \in 1..k /\ even - 1 = odd
        OBVIOUS
      <3>2. trace[odd].clk = 1 /\ trace[odd].in = input
        BY <2>1, <3>1 DEF Driven
      <3>3. q[even] = Stepped(design, trace, even, q[even - 1])
        BY <1>2, <3>1 DEF FlopsFollow
      <3>4. Clocked(design, trace, even, q[even - 1]) = T[j + 1]
        BY <2>5, <3>1, <3>2 DEF Clocked
      <3> QED
        BY <2>4, <3>1, <3>2, <3>3, <3>4 DEF Stepped
    <2> QED
      BY <2>1, <2>5, <2>6
  <1> HIDE DEF S
  <1>9. Nat \subseteq S
    BY <1>7, <1>8, NatSetInduction
  <1>10. \A j \in 0..n : T[j] \in States /\ Agree(j)
    BY <1>5, <1>9 DEF S
  <1> QED
    BY <1>10, Zenon DEF q, T, C, InPace

(* Hence the solver has a solution within two steps for each cycle of a    *)
(* run that meets the goal.                                                *)
HasSolution(k) == k >= MinDepth(goal) /\ Solutions(design, goal, k) # {}

LEMMA ValueIsFound ==
    ASSUME TypeOK, Zero \in design.init, goal.sort = "value",
           NEW cycles \in Seq(Inputs), Meets(cycles)
    PROVE  HasSolution(IF cycles = <<>> THEN 1 ELSE Len(cycles) + Len(cycles))
  <1> DEFINE n == Len(cycles)
             T == Trajectory(Cycle(design), Zero, cycles)
  <1>1. n \in Nat /\ T[n] \in goal.want
    BY DEF Meets
  <1>2. CASE n > 0
    <2> DEFINE k == n + n
               trace == Alternating(cycles, k)
               q == Flops(design, trace, k)
    <2>1. k \in Nat \ {0} /\ k - 1 # 0 - 1 /\ n + n - 1 = k - 1 /\ n + n - 1 <= k
          /\ n \in 0..n /\ k >= MinDepth(goal)
      BY <1>1, <1>2 DEF MinDepth
    <2>2. trace \in [0..k -> Step] /\ Driven(trace, cycles, k, n)
      BY <2>1, AlternatingSteps DEF Driven
    <2>3. q[n + n - 1] = T[n]
      <3>1. InPace(trace, cycles, k, n)
        BY <1>1, <2>1, <2>2, DrivenFlops
      <3> QED
        BY <1>1, <1>2, <2>1, <3>1 DEF InPace
    <2> HIDE DEF T, q, trace
    <2>4. Sample(q, k) \in goal.want
      BY <1>1, <2>1, <2>3 DEF Sample
    <2>5. trace \in Solutions(design, goal, k)
      BY <2>2, <2>4 DEF Solutions, GoalHolds, q
    <2> QED
      BY <1>2, <2>1, <2>5 DEF HasSolution
  <1>3. CASE n = 0
    <2>1. cycles = <<>>
      BY <1>3
    <2>2. T[0] = Zero
      <3>1. Follows(T, Cycle(design), Zero, cycles)
        BY <1>1, TrajectoryFollows, Zenon
      <3> QED
        BY <3>1 DEF Follows
    <2>3. PICK quiet \in Inputs : quiet \notin design.rst
      <3>1. design.rst \subseteq Inputs /\ design.rst # Inputs
        BY SearchAssumption DEF TypeOK, DesignType
      <3> QED
        BY <3>1
    <2> DEFINE trace == [i \in 0..1 |-> [clk |-> 0, in |-> quiet]]
               q == Flops(design, trace, 1)
    <2>4. trace \in [0..1 -> Step] /\ trace[0].in = quiet
      BY DEF Step
    <2>5. q[0] = Settled(design, Zero, quiet)
      <3>1. FlopsFollow(q, design, trace, 1)
        BY <2>4, FlopsAre DEF TypeOK
      <3> QED
        BY <2>4, <3>1 DEF FlopsFollow
    <2> HIDE DEF trace, q, T
    <2>6. Sample(q, 1) \in goal.want
      BY <1>1, <1>3, <2>2, <2>3, <2>5 DEF Sample, Settled
    <2>7. trace \in Solutions(design, goal, 1)
      BY <2>4, <2>6 DEF Solutions, GoalHolds, q
    <2> QED
      BY <2>1, <2>7 DEF HasSolution, MinDepth
  <1> QED
    BY <1>1, <1>2, <1>3

(* A bit that turns in the last cycle, by the clock or by the reset of the *)
(* cycle: the trace then waits half a cycle before it asserts the reset.   *)
LEMMA FlipIsFound ==
    ASSUME TypeOK, Zero \in design.init, goal.sort = "flop",
           NEW cycles \in Seq(Inputs), Meets(cycles)
    PROVE  cycles # <<>> /\ HasSolution(Len(cycles) + Len(cycles))
  <1> DEFINE n == Len(cycles)
             k == n + n
             C == Cycle(design)
             T == Trajectory(C, Zero, cycles)
             input == cycles[n]
  <1>1. n \in Nat \ {0} /\ T[n] \in goal.want /\ T[n - 1] \notin goal.want
    BY DEF Meets
  <1>2. /\ design \in Designs /\ goal \in Goals /\ Zero \in States
        /\ Cleared(design, goal.want) \/ Kept(design, goal.want)
    BY SearchAssumption DEF TypeOK
  <1>3. n - 1 \in 0..n /\ n \in 0..n /\ k \in Nat /\ k >= MinDepth(goal) /\ k # 0 /\ k - 1 # 0
        /\ n + n - 1 = k - 1 /\ (n - 1) + (n - 1) = (k - 1) - 1 /\ k - 1 \in 1..k /\ k - 1 \in 0..k
        /\ (k - 1) - 1 \in 0..k /\ n + n - 1 <= k /\ (n - 1) + (n - 1) <= k
    BY <1>1 DEF MinDepth
  <1>4. input \in Inputs /\ cycles # <<>>
    BY <1>1
  <1>5. ASSUME NEW trace \in [0..k -> Step], NEW q, q = Flops(design, trace, k),
               q[k - 1] \in goal.want, q[(k - 1) - 1] \notin goal.want
        PROVE  HasSolution(k)
    <2>1. Sample(q, k) \in goal.want /\ Sample(q, k - 1) \notin goal.want
      BY <1>3, <1>5 DEF Sample
    <2>2. trace \in Solutions(design, goal, k)
      BY <1>5, <2>1 DEF Solutions, GoalHolds
    <2> QED
      BY <1>3, <2>2 DEF HasSolution
  <1>6. CASE input \notin design.rst \/ Kept(design, goal.want)
    <2> DEFINE trace == Alternating(cycles, k)
               q == Flops(design, trace, k)
    <2>1. trace \in [0..k -> Step] /\ Driven(trace, cycles, k, n)
      BY <1>3, AlternatingSteps DEF Driven
    <2>2. trace[(k - 1) - 1].in = input
      <3>1. n \in 1..n /\ n + n - 2 = (k - 1) - 1
        BY <1>1
      <3> QED
        BY <1>3, <2>1, <3>1 DEF Driven
    <2>3. /\ T[n - 1] \in States /\ q[k - 1] = T[n]
          /\ q[(k - 1) - 1] = Settled(design, T[n - 1], trace[(k - 1) - 1].in)
      <3>1. \A j \in 0..n : /\ T[j] \in States
                            /\ j + j <= k => q[j + j] = Settled(design, T[j], trace[j + j].in)
                            /\ j > 0 /\ j + j - 1 <= k => q[j + j - 1] = T[j]
        <4>1. InPace(trace, cycles, k, n)
          BY <1>3, <2>1, DrivenFlops
        <4> QED
          BY <4>1 DEF InPace
      <3> HIDE DEF q, T, trace
      <3>2. q[(n - 1) + (n - 1)] = Settled(design, T[n - 1], trace[(n - 1) + (n - 1)].in)
        BY <1>3, <3>1
      <3>3. q[n + n - 1] = T[n]
        BY <1>1, <1>3, <3>1
      <3> QED
        BY <1>3, <3>1, <3>2, <3>3
    <2> HIDE DEF q, T, trace, input
    <2>4. Settled(design, T[n - 1], input) \notin goal.want
      BY <1>1, <1>6, <2>3 DEF Settled, Kept
    <2> QED
      BY <1>1, <1>5, <2>1, <2>2, <2>3, <2>4 DEF q
  <1>7. CASE input \in design.rst /\ Cleared(design, goal.want)
    <2>1. PICK quiet \in Inputs : quiet \notin design.rst
      <3>1. design.rst \subseteq Inputs /\ design.rst # Inputs
        BY <1>2, SearchAssumption DEF DesignType
      <3> QED
        BY <3>1
    <2> DEFINE held == (k - 1) - 1
               trace == [i \in 0..k |-> IF i = held THEN [clk |-> 0, in |-> quiet]
                                        ELSE IF i = k - 1 THEN [clk |-> 0, in |-> input]
                                        ELSE Alternating(cycles, k)[i]]
               q == Flops(design, trace, k)
    <2>2. /\ trace \in [0..k -> Step]
          /\ trace[held] = [clk |-> 0, in |-> quiet] /\ trace[k - 1] = [clk |-> 0, in |-> input]
          /\ \A i \in 0..k : i < held => trace[i] = Alternating(cycles, k)[i]
      <3>1. [clk |-> 0, in |-> quiet] \in Step /\ [clk |-> 0, in |-> input] \in Step
        BY <1>4, <2>1 DEF Step
      <3>2. Alternating(cycles, k) \in [0..k -> Step]
        BY <1>3, AlternatingSteps
      <3>3. held \in 0..k /\ held # k - 1 /\ \A i \in 0..k : i < held => i # held /\ i # k - 1
        BY <1>3
      <3> HIDE DEF held
      <3> QED
        BY <1>3, <3>1, <3>2, <3>3
    <2> HIDE DEF trace
    <2>3. Driven(trace, cycles, k, n - 1)
      <3> SUFFICES ASSUME NEW j \in 1..n - 1
                   PROVE  /\ trace[j + j - 2].clk = 0 /\ trace[j + j - 2].in = cycles[j]
                          /\ trace[j + j - 1].clk = 1 /\ trace[j + j - 1].in = cycles[j]
        BY DEF Driven
      <3>1. j + j - 2 \in 0..k /\ j + j - 2 < held /\ j + j - 1 \in 0..k /\ j + j - 1 < held
            /\ j \in 1..n
        BY <1>1
      <3>2. /\ trace[j + j - 2] = Alternating(cycles, k)[j + j - 2]
            /\ trace[j + j - 1] = Alternating(cycles, k)[j + j - 1]
        BY <2>2, <3>1
      <3>3. Driven(Alternating(cycles, k), cycles, k, n)
        BY <1>3, AlternatingSteps DEF Driven
      <3> QED
        BY <3>1, <3>2, <3>3 DEF Driven
    <2>4. T[n - 1] \in States /\ q[held] = T[n - 1]
      <3>1. T[n - 1] \in States
            /\ q[(n - 1) + (n - 1)] = Settled(design, T[n - 1], trace[(n - 1) + (n - 1)].in)
        <4> DEFINE p == n - 1
        <4>1. p \in 0..p /\ p + p <= k /\ p \in 0..Len(cycles) /\ Driven(trace, cycles, k, p)
          BY <1>1, <2>3
        <4> HIDE DEF p
        <4>2. \A j \in 0..p :
                 /\ T[j] \in States
                 /\ j + j <= k => q[j + j] = Settled(design, T[j], trace[j + j].in)
          <5>1. InPace(trace, cycles, k, p)
            BY <1>3, <2>2, <4>1, DrivenFlops
          <5> QED
            BY <5>1 DEF InPace
        <4> HIDE DEF q, T
        <4> QED
          BY <4>1, <4>2 DEF p
      <3> HIDE DEF q, T
      <3> QED
        BY <1>3, <2>1, <2>2, <3>1 DEF Settled
    <2>5. q[k - 1] = design.clear[T[n - 1]]
      <3>1. FlopsFollow(q, design, trace, k)
        BY <1>2, <1>3, <2>2, FlopsAre
      <3> HIDE DEF q, T
      <3>2. q[k - 1] = Stepped(design, trace, k - 1, q[held])
        BY <1>3, <3>1 DEF FlopsFollow
      <3>3. Clocked(design, trace, k - 1, q[held]) = T[n - 1]
        BY <2>2, <2>4 DEF Clocked
      <3>4. trace[k - 1].in = input /\ trace[(k - 1) - 1].in = quiet
        BY <2>2
      <3> QED
        BY <1>7, <2>1, <3>2, <3>3, <3>4 DEF Stepped, Settled
    <2>6. \E s \in States : T[n] = design.clear[s]
      <3>1. T[n - 1] \in States
        BY <2>4
      <3>2. T[n] = C[<<T[n - 1], input>>]
        <4>1. Follows(T, C, Zero, cycles)
          BY <1>1, TrajectoryFollows, Zenon
        <4> QED
          BY <1>1, <4>1 DEF Follows
      <3> HIDE DEF T, C, input
      <3>3. C[<<T[n - 1], input>>] =
               Settled(design, design.next[<<Settled(design, T[n - 1], input), input>>], input)
        BY <1>2, <1>4, <3>1, CycleType DEF C
      <3>4. Settled(design, T[n - 1], input) \in States
        BY <1>2, <1>4, <3>1, SettledType
      <3>5. design.next[<<Settled(design, T[n - 1], input), input>>] \in States
        BY <1>2, <1>4, <3>4, SettledType
      <3> QED
        BY <1>7, <3>2, <3>3, <3>5 DEF Settled
    <2> HIDE DEF q, T, input
    <2>7. q[k - 1] \in goal.want
      BY <1>1, <1>7, <2>4, <2>5, <2>6 DEF Cleared
    <2> QED
      BY <1>1, <1>5, <2>2, <2>4, <2>7 DEF q
  <1> QED
    BY <1>2, <1>4, <1>6, <1>7

LEMMA StateIsFound ==
    ASSUME TypeOK, Zero \in design.init, Stateful, NEW cycles \in Seq(Inputs), Meets(cycles)
    PROVE  HasSolution(IF cycles = <<>> THEN 1 ELSE Len(cycles) + Len(cycles))
  <1>1. CASE goal.sort = "flop"
    BY <1>1, FlipIsFound
  <1>2. CASE goal.sort = "value"
    BY <1>2, ValueIsFound
  <1> QED
    BY <1>1, <1>2 DEF Stateful

(* A wire seen before the first clock edge is seen while the clock rests.  *)
LEMMA RestingFlops ==
    ASSUME TypeOK, NEW input \in Inputs
    PROVE  LET trace == [i \in 0..1 |-> [clk |-> 0, in |-> input]]
           IN  /\ trace \in [0..1 -> Step]
               /\ Flops(design, trace, 1)[1] = Settled(design, Zero, input)
  <1> DEFINE trace == [i \in 0..1 |-> [clk |-> 0, in |-> input]]
             q == Flops(design, trace, 1)
             zero == Settled(design, Zero, input)
  <1>1. trace \in [0..1 -> Step] /\ \A i \in 0..1 : trace[i].clk = 0 /\ trace[i].in = input
    BY DEF Step
  <1> HIDE DEF trace
  <1>2. design \in Designs /\ Zero \in States
    BY SearchAssumption DEF TypeOK
  <1>3. FlopsFollow(q, design, trace, 1)
    BY <1>1, <1>2, FlopsAre
  <1> HIDE DEF q
  <1>4. 1 \in 1..1 /\ 1 \in 0..1 /\ 0 \in 0..1 /\ 1 - 1 = 0
    OBVIOUS
  <1>5. q[0] = zero /\ q[1] = Stepped(design, trace, 1, q[0])
    BY <1>1, <1>3, <1>4 DEF FlopsFollow
  <1>6. Clocked(design, trace, 1, q[0]) = zero /\ trace[0].in = input /\ trace[1].in = input
    BY <1>1, <1>4, <1>5 DEF Clocked
  <1>7. Settled(design, zero, input) = zero
    BY <1>2, SettledType
  <1>8. Stepped(design, trace, 1, q[0]) = zero
    BY <1>4, <1>6, <1>7 DEF Stepped
  <1> QED
    BY <1>1, <1>5, <1>8 DEF q, trace

LEMMA WireIsFound ==
    ASSUME TypeOK, Zero \in design.init, ~Stateful, NEW cycles \in Seq(Inputs), Meets(cycles)
    PROVE  \E k \in Nat : /\ HasSolution(k) /\ (k = 1 \/ k + 1 <= Len(cycles) + Len(cycles))
                          /\ k > 0
  <1> DEFINE n == Len(cycles)
             T == Trajectory(Cycle(design), Zero, cycles)
             Sees(s, j) == design.wire[<<s, cycles[j]>>] = goal.val
  <1>1. MinDepth(goal) = 1 /\ n \in Nat
    BY DEF MinDepth, Stateful
  <1>2. goal.sort \in {"wire", "bus"}
    BY SearchAssumption DEF Stateful, TypeOK, GoalType
  <1>3. PICK j \in 1..n : Sees(Settled(design, T[j - 1], cycles[j]), j) \/ Sees(T[j], j)
    BY <1>2 DEF Meets
  <1>4. ASSUME NEW k \in Nat \ {0}, NEW trace \in [0..k -> Step],
               design.wire[<<Flops(design, trace, k)[k], trace[k].in>>] = goal.val
        PROVE  HasSolution(k)
    <2>1. GoalHolds(design, goal, trace, k)
      BY <1>2, <1>4 DEF GoalHolds
    <2> QED
      BY <1>1, <2>1 DEF HasSolution, Solutions
  <1>5. \A k \in Nat : Alternating(cycles, k) \in [0..k -> Step] /\ Driven(Alternating(cycles, k), cycles, k, n)
    BY AlternatingSteps DEF Driven
  <1>6. \A k \in Nat : InPace(Alternating(cycles, k), cycles, k, n)
    <2>1. n \in 0..Len(cycles)
      BY <1>1
    <2> QED
      BY <1>5, <2>1, DrivenFlops
  <1> HIDE DEF T
  <1>7. CASE Sees(T[j], j)
    <2> DEFINE k == j + j - 1
               trace == Alternating(cycles, k)
    <2>1. k \in Nat \ {0} /\ k + 1 <= n + n /\ j \in 0..n /\ j > 0 /\ k <= k /\ k \in 0..k
      BY <1>1
    <2>2. Flops(design, trace, k)[k] = T[j]
      <3>1. InPace(trace, cycles, k, n)
        BY <1>6, <2>1
      <3> HIDE DEF k, trace
      <3>2. j + j - 1 <= k /\ j + j - 1 = k
        BY <2>1 DEF k
      <3> QED
        BY <2>1, <3>1, <3>2 DEF InPace, T
    <2>3. trace[k].in = cycles[j]
      BY <1>5, <2>1 DEF Driven
    <2>4. trace \in [0..k -> Step]
      BY <1>5, <2>1
    <2> HIDE DEF k, trace
    <2>5. HasSolution(k)
      BY <1>4, <1>7, <2>1, <2>2, <2>3, <2>4
    <2> QED
      BY <2>1, <2>5
  <1>8. CASE Sees(Settled(design, T[j - 1], cycles[j]), j) /\ j > 1
    <2> DEFINE k == j + j - 2
               trace == Alternating(cycles, k)
    <2>1. k \in Nat \ {0} /\ k + 1 <= n + n /\ j - 1 \in 0..n /\ k <= k /\ k \in 0..k
          /\ (j - 1) + (j - 1) = k
      BY <1>1, <1>8
    <2>2. trace[k].in = cycles[j]
      BY <1>5, <2>1 DEF Driven
    <2>3. Flops(design, trace, k)[k] = Settled(design, T[j - 1], trace[k].in)
      <3>1. (j - 1) + (j - 1) <= k
        BY <2>1
      <3>2. Flops(design, trace, k)[(j - 1) + (j - 1)]
               = Settled(design, T[j - 1], trace[(j - 1) + (j - 1)].in)
        <4>1. InPace(trace, cycles, k, n)
          BY <1>6, <2>1
        <4> HIDE DEF k, trace
        <4> QED
          BY <2>1, <3>1, <4>1 DEF InPace, T
      <3> QED
        BY <2>1, <3>2
    <2>4. trace \in [0..k -> Step]
      BY <1>5, <2>1
    <2> HIDE DEF k, trace
    <2>5. HasSolution(k)
      BY <1>4, <1>8, <2>1, <2>2, <2>3, <2>4
    <2> QED
      BY <2>1, <2>5
  <1>9. CASE Sees(Settled(design, T[j - 1], cycles[j]), j) /\ j = 1
    <2> DEFINE trace == [i \in 0..1 |-> [clk |-> 0, in |-> cycles[1]]]
    <2>1. cycles[1] \in Inputs
      BY <1>9
    <2>2. trace \in [0..1 -> Step] /\ Flops(design, trace, 1)[1] = Settled(design, Zero, cycles[1])
      BY <2>1, RestingFlops
    <2>3. T[0] = Zero
      <3>1. Follows(T, Cycle(design), Zero, cycles)
        BY <1>1, TrajectoryFollows, Zenon DEF T
      <3> QED
        BY <3>1 DEF Follows
    <2>4. trace[1].in = cycles[1]
      OBVIOUS
    <2> HIDE DEF trace
    <2>5. design.wire[<<Settled(design, Zero, cycles[1]), cycles[1]>>] = goal.val
      <3>1. j - 1 = 0
        BY <1>9
      <3> QED
        BY <1>9, <2>3, <3>1
    <2>6. HasSolution(1)
      <3>1. design.wire[<<Flops(design, trace, 1)[1], trace[1].in>>] = goal.val
        BY <2>2, <2>4, <2>5
      <3>2. 1 \in Nat \ {0}
        OBVIOUS
      <3> QED
        BY <1>4, <2>2, <3>1, <3>2
    <2> QED
      BY <2>6
  <1>10. j = 1 \/ j > 1
    OBVIOUS
  <1> HIDE DEF Sees
  <1> QED
    BY <1>3, <1>7, <1>8, <1>9, <1>10

(* No shorter run of cycles meets the goal: it would have been a solution  *)
(* at a depth below the one of the witness.                                *)
THEOREM WitnessesAreShortest == Spec => []ShortestWitness
  <1>1. TypeOK /\ WitnessFound => ShortestWitness
    <2> DEFINE m == Len(CycleInputs(witness))
    <2> SUFFICES ASSUME TypeOK, WitnessFound, phase = "replay", Stateful,
                        NEW n \in 0..m - 1, NEW cycles \in [1..n -> Inputs], Meets(cycles)
                 PROVE  FALSE
      BY DEF ShortestWitness
    <2>1. depth \in Nat
      BY LimitType DEF TypeOK
    <2>2. PICK trace \in Solutions(design, goal, depth) : witness = Inspect(trace, depth)
      BY DEF WitnessFound
    <2>3. CycleInputs(witness) \in Seq(Inputs) /\ m + m <= depth
      BY <2>1, <2>2, SolutionWraps DEF WitnessFound
    <2>4. m \in Nat
      BY <2>3
    <2> HIDE DEF m
    <2>5. n \in Nat /\ n + n < m + m /\ m > 0
      BY <2>4
    <2>6. cycles \in Seq(Inputs) /\ Len(cycles) = n
      BY <2>5
    <2>7. PICK k \in Nat : HasSolution(k) /\ k < depth
      <3> DEFINE k == IF cycles = <<>> THEN 1 ELSE Len(cycles) + Len(cycles)
      <3>1. HasSolution(k)
        <4>1. Zero \in design.init
          BY <2>2 DEF Solutions
        <4> QED
          BY <2>6, <4>1, StateIsFound
      <3>2. k \in Nat /\ k < depth
        BY <2>1, <2>3, <2>4, <2>5, <2>6
      <3> QED
        BY <3>1, <3>2
    <2>8. k \in MinDepth(goal)..depth - 1
      BY <2>1, <2>7 DEF HasSolution, MinDepth
    <2> QED
      BY <2>7, <2>8 DEF HasSolution, WitnessFound, Searched
  <1> QED
    BY <1>1, SearchTypes, WitnessIsFound, PTL

(* A search that ran out of depths has refuted every run of half as many   *)
(* cycles, if the initial values allow the zero state.                     *)
THEOREM RefutationsAreHonest == Spec => []UnsatIsHonest
  <1>1. TypeOK /\ SearchedInOrder => UnsatIsHonest
    <2> SUFFICES ASSUME TypeOK, SearchedInOrder, NEW e \in DOMAIN log,
                        log[e].outcome = "unsat", log[e].proved, Zero \in design.init,
                        NEW n \in 0..((IF Stateful THEN log[e].steps ELSE log[e].steps + 1) \div 2),
                        NEW cycles \in [1..n -> Inputs], Meets(cycles)
                 PROVE  FALSE
      BY DEF UnsatIsHonest, NoneWithin
    <2>1. log[e].steps \in Nat \ {0}
      BY LogNumbers
    <2>2. Searched(design, goal, log[e].steps + 1)
      BY DEF SearchedInOrder, Answered
    <2>3. n \in Nat /\ n + n <= (IF Stateful THEN log[e].steps ELSE log[e].steps + 1)
      BY <2>1
    <2>4. cycles \in Seq(Inputs) /\ Len(cycles) = n
      BY <2>3
    <2>5. PICK k \in Nat : HasSolution(k) /\ k <= log[e].steps
      <3>1. CASE Stateful
        <4> DEFINE k == IF cycles = <<>> THEN 1 ELSE Len(cycles) + Len(cycles)
        <4>1. HasSolution(k)
          BY <2>4, <3>1, StateIsFound
        <4>2. k \in Nat /\ k <= log[e].steps
          BY <2>1, <2>3, <2>4, <3>1
        <4> QED
          BY <4>1, <4>2
      <3>2. CASE ~Stateful
        <4>1. PICK k \in Nat : HasSolution(k) /\ (k = 1 \/ k + 1 <= n + n) /\ k > 0
          BY <2>4, <3>2, WireIsFound
        <4>2. k <= log[e].steps
          BY <2>1, <2>3, <3>2, <4>1
        <4> QED
          BY <4>1, <4>2
      <3> QED
        BY <3>1, <3>2
    <2>6. k \in MinDepth(goal)..(log[e].steps + 1) - 1
      BY <2>1, <2>5 DEF HasSolution, MinDepth
    <2> QED
      BY <2>2, <2>5, <2>6 DEF HasSolution, Searched
  <1> QED
    BY <1>1, SearchTypes, AnswersInOrder, PTL
=============================================================================
