----------------------- MODULE RegisterTargetsProofs -----------------------
(***************************************************************************)
(* For any number of registers of any size, any reset values, any mixture  *)
(* of flops and stubs: the probe never drops a flop that answers to reset, *)
(* the picker gives up only when everything was seen or given up, and what *)
(* it offers was not seen unless registers were dropped.                   *)
(***************************************************************************)
EXTENDS RegisterTargets, FiniteSetTheorems, FunctionTheorems, TLAPS

(* Of a flop that answers to reset, a pattern leaks only when it is the    *)
(* reset value; the first and the third pattern differ.                    *)
LeaksAreResets ==
    \A r \in Regs :
        /\ leaks[r] <= probed
        /\ design.kind[r] = "reset" =>
              /\ probed >= 1 /\ Patterns[r][1] # ResetValue[r] => leaks[r] <= probed - 1
              /\ probed = 3 /\ Patterns[r][3] # ResetValue[r] => leaks[r] <= 2

OfferStands == phase = "solve" => target \in Offers

IInv ==
    /\ TypeOK
    /\ phase = "probe" => tracked = Regs /\ LeaksAreResets
    /\ ResettableKept
    /\ OfferStands
    /\ NoneMeansDone

Targets == UNION {Assignments(regs) : regs \in SUBSET Regs}

-----------------------------------------------------------------------------
(* What the picker looks at *)

(* One register value is an assignment to one register.                    *)
LEMMA OneType ==
    ASSUME NEW r \in Regs, NEW v \in Values(r)
    PROVE  One(r, v) \in Targets /\ DOMAIN One(r, v) = {r} /\ One(r, v)[r] = v
  <1>1. One(r, v) \in Assignments({r})
    BY DEF One, Assignments
  <1> QED
    BY <1>1 DEF One, Targets

(* The empty assignment is one.                                            *)
LEMMA NoTargetType == NoTarget \in Targets
  <1>1. NoTarget \in [{} -> UNION {Values(r) : r \in {}}]
    BY DEF NoTarget
  <1>2. NoTarget \in Assignments({})
    BY <1>1 DEF Assignments
  <1> QED
    BY <1>2 DEF Targets

(* What is offered is a value of a live register that no state showed, or  *)
(* a joint state that is no recorded one.                                  *)
LEMMA OffersAre ==
    ASSUME TypeOK, NEW t \in Offers
    PROVE  /\ t \in Targets
           /\ \/ \E r \in Live : t \in Open(r)
              \/ /\ t \in Joint
                 /\ \A r \in Live : Open(r) = {}
  <1>1. Live \subseteq Regs
    BY DEF Live, TypeOK
  <1>2. OpenWidest \subseteq UNION {Open(r) : r \in Live}
    BY DEF OpenWidest, Widest
  <1>3. \/ \E r \in Live : t \in Open(r)
        \/ t \in Joint /\ \A r \in Live : Open(r) = {}
    BY <1>2 DEF Offers
  <1>4. ASSUME NEW r \in Live, t \in Open(r) PROVE t \in Targets
    <2>1. PICK v \in Unseen(r) : t = One(r, v)
      BY <1>4 DEF Open
    <2>2. r \in Regs /\ v \in Values(r)
      BY <1>1, <2>1 DEF Unseen
    <2> QED
      BY <2>1, <2>2, OneType
  <1>5. Joint \subseteq Targets
    BY <1>1 DEF Joint, Targets
  <1> QED
    BY <1>3, <1>4, <1>5

(* Nothing to offer: each value of each live register, and each joint      *)
(* state of the live registers, was recorded or given up.                  *)
LEMMA NothingLeft ==
    ASSUME TypeOK, Offers = {}
    PROVE  /\ \A r \in Live : \A v \in Values(r) : Given(One(r, v))
           /\ Live # {} => \A c \in Assignments(Live) : Given(c)
  <1>1. Live \subseteq Regs
    BY DEF Live, TypeOK
  <1>2. \A r \in Live : Open(r) = {}
    BY DEF Offers
  <1>3. ASSUME NEW r \in Live, NEW v \in Values(r) PROVE Given(One(r, v))
    <2>1. CASE v \in Unseen(r)
      BY <1>2, <2>1 DEF Open, Given
    <2>2. CASE v \notin Unseen(r)
      <3>1. PICK s \in visited : r \in DOMAIN s /\ s[r] = v
        BY <2>2 DEF Unseen, SeenIn
      <3>2. DOMAIN One(r, v) = {r} /\ One(r, v)[r] = v
        BY <1>1, OneType
      <3> QED
        BY <3>1, <3>2 DEF Given
    <2> QED
      BY <2>1, <2>2
  <1>4. ASSUME Live # {}, NEW c \in Assignments(Live) PROVE Given(c)
    <2>1. Joint = {}
      BY <1>2, <1>4 DEF Offers, OpenWidest, Widest
    <2>2. c \in visited \/ c \in exhausted
      BY <2>1, <1>4 DEF Joint
    <2> QED
      BY <2>2, <1>4 DEF Given, Assignments
  <1> QED
    BY <1>3, <1>4

(* What is offered was not seen, while single values are left and when all *)
(* registers that are shown are live.                                      *)
LEMMA OfferedIsUnseen ==
    ASSUME TypeOK, target \in Offers,
           Shown \subseteq Live \/ \E r \in Live : Open(r) # {}
    PROVE  NotYetSeen
  <1>1. Live \subseteq Regs
    BY DEF Live, TypeOK
  <1> SUFFICES ASSUME NEW s \in visited
               PROVE  \E r \in DOMAIN target : r \notin DOMAIN s \/ s[r] # target[r]
    BY DEF NotYetSeen
  <1>2. CASE \E r \in Live : target \in Open(r)
    <2>0. PICK r \in Live : target \in Open(r)
      BY <1>2
    <2>1. PICK v \in Unseen(r) : target = One(r, v)
      BY <2>0 DEF Open
    <2>2. v \in Values(r) /\ v \notin SeenIn(visited, r)
      BY <2>1 DEF Unseen
    <2>3. DOMAIN target = {r} /\ target[r] = v
      BY <1>1, <2>1, <2>2, OneType
    <2> QED
      BY <2>2, <2>3 DEF SeenIn
  <1>3. CASE target \in Joint /\ \A r \in Live : Open(r) = {}
    <2>1. Shown \subseteq Live
      BY <1>3
    <2>2. target \in Assignments(Live) /\ target # s
      BY <1>3 DEF Joint
    <2>3. target \in [Live -> UNION {Values(r) : r \in Live}]
      BY <2>2 DEF Assignments
    <2>4. s \in [Shown -> UNION {Values(r) : r \in Shown}]
      BY DEF TypeOK, Assignments
    <2>5. CASE Shown = Live
      BY <2>2, <2>3, <2>4, <2>5
    <2>6. CASE Shown # Live
      BY <2>1, <2>3, <2>4, <2>6
    <2> QED
      BY <2>5, <2>6
  <1> QED
    BY <1>2, <1>3, OffersAre

-----------------------------------------------------------------------------
(* The probe *)

(* One pattern adds at most one leak, and of a flop that answers to reset  *)
(* only when the pattern is the reset value.                               *)
LEMMA ProbeStep ==
    ASSUME IInv, ProbePattern
    PROVE  /\ leaks' \in [Regs -> 0..3] /\ probed' \in 0..3
           /\ LeaksAreResets'
  <1>1. /\ phase = "probe" /\ probed \in 0..2 /\ probed' = probed + 1
        /\ leaks \in [Regs -> 0..3] /\ LeaksAreResets
        /\ design' = design
    BY DEF ProbePattern, IInv, TypeOK
  <1>2. PICK leaked \in SUBSET Regs :
          /\ \A r \in leaked : Patterns[r][probed'] \in AfterReset(r, Patterns[r][probed'])
          /\ leaks' = [r \in Regs |-> IF r \in leaked THEN CountsLeak(r) ELSE leaks[r]]
    BY DEF ProbePattern
  <1>3. ASSUME NEW r \in Regs
        PROVE  /\ leaks[r] \in 0..3 /\ leaks'[r] \in {leaks[r], leaks[r] + 1}
               /\ leaks'[r] # leaks[r] => r \in leaked
    BY <1>1, <1>2 DEF CountsLeak
  <1>4. ASSUME NEW r \in leaked, design.kind[r] = "reset"
        PROVE  Patterns[r][probed'] = ResetValue[r]
    BY <1>2, <1>4 DEF AfterReset
  <1>5. \A r \in Regs : leaks[r] <= probed /\ leaks'[r] <= probed'
    BY <1>1, <1>3 DEF LeaksAreResets
  <1>6. leaks' \in [Regs -> 0..3]
    BY <1>1, <1>2, <1>3, <1>5
  <1>7. ASSUME NEW r \in Regs, design.kind[r] = "reset",
               probed' >= 1, Patterns[r][1] # ResetValue[r]
        PROVE  leaks'[r] <= probed' - 1
    <2>1. CASE probed = 0
      <3>1. r \notin leaked
        BY <1>1, <1>4, <1>7, <2>1
      <3> QED
        BY <1>1, <1>3, <1>5, <2>1, <3>1
    <2>2. CASE probed # 0
      <3>1. leaks[r] <= probed - 1
        BY <1>1, <1>7, <2>2 DEF LeaksAreResets
      <3> QED
        BY <1>1, <1>3, <3>1
    <2> QED
      BY <2>1, <2>2
  <1>8. ASSUME NEW r \in Regs, design.kind[r] = "reset",
               probed' = 3, Patterns[r][3] # ResetValue[r]
        PROVE  leaks'[r] <= 2
    <2>1. r \notin leaked
      BY <1>4, <1>8
    <2> QED
      BY <1>1, <1>3, <1>5, <1>8, <2>1
  <1> QED
    BY <1>1, <1>5, <1>6, <1>7, <1>8 DEF LeaksAreResets

(* After three patterns a flop that answers to reset has two leaks at      *)
(* most, and is kept.                                                      *)
LEMMA ProbeKeeps ==
    ASSUME IInv, ProbeDone
    PROVE  ResettableKept'
  <1>1. CASE ~design.resetPort
    BY <1>1 DEF ProbeDone, ResettableKept
  <1>2. CASE design.resetPort
    <2>1. /\ phase = "probe" /\ probed = 3 /\ LeaksAreResets
          /\ tracked' = {r \in Regs : ~Drops(r)} /\ design' = design
          /\ leaks \in [Regs -> 0..3]
      BY <1>2 DEF ProbeDone, IInv, TypeOK
    <2>2. ASSUME NEW r \in Regs, design.kind[r] = "reset" PROVE leaks[r] <= 2
      <3>1. Patterns[r][1] # ResetValue[r] \/ Patterns[r][3] # ResetValue[r]
        BY TargetsAssumption
      <3>2. leaks[r] \in 0..3
        BY <2>1
      <3>3. CASE Patterns[r][1] # ResetValue[r]
        <4>1. leaks[r] <= probed - 1
          BY <2>1, <2>2, <3>3 DEF LeaksAreResets
        <4> QED
          BY <2>1, <4>1
      <3>4. CASE Patterns[r][3] # ResetValue[r]
        BY <2>1, <2>2, <3>4 DEF LeaksAreResets
      <3> QED
        BY <3>1, <3>3, <3>4
    <2>3. \A r \in Regs : design.kind[r] = "reset" => ~Drops(r)
      BY <2>1, <2>2 DEF Drops
    <2> QED
      BY <2>1, <2>3 DEF ResettableKept
  <1> QED
    BY <1>1, <1>2

-----------------------------------------------------------------------------
LEMMA InitInvariant == Init => IInv
  <1> SUFFICES ASSUME Init PROVE IInv
    OBVIOUS
  <1>1. TypeOK
    <2>1. target \in Targets
      BY NoTargetType DEF Init
    <2>2. natives \in 0..NativePoints /\ restarts \in 0..Restarts
      BY TargetsAssumption DEF Init
    <2> QED
      BY <2>1, <2>2 DEF Init, TypeOK, Targets
  <1>2. LeaksAreResets
    BY DEF Init, LeaksAreResets
  <1> QED
    BY <1>1, <1>2 DEF Init, IInv, ResettableKept, OfferStands, NoneMeansDone

(* Steps that touch neither the registers nor what the picker has offered. *)
LEMMA QuietStep ==
    ASSUME IInv, TypeOK', UNCHANGED <<design, tracked>>,
           phase # "probe" /\ phase' \in {"loop", "pick", "full"}
    PROVE  IInv'
  BY DEF IInv, ResettableKept, OfferStands, NoneMeansDone

(* The states a step may record are states of the shown registers.         *)
LEMMA ReadingsType ==
    ASSUME TypeOK, NEW s \in Readings
    PROVE  visited \cup {s} \subseteq Assignments(Shown)
  BY DEF TypeOK, Readings

LEMMA ProbeSteps == IInv /\ (ProbePattern \/ ProbeDone) => IInv'
  <1>1. ASSUME IInv, ProbePattern PROVE IInv'
    <2>1. /\ leaks' \in [Regs -> 0..3] /\ probed' \in 0..3
          /\ LeaksAreResets'
      BY <1>1, ProbeStep
    <2>2. UNCHANGED <<design, phase, tracked, dead, visited, exhausted, target, natives, restarts>>
          /\ phase = "probe"
      BY <1>1 DEF ProbePattern
    <2>3. TypeOK'
      BY <1>1, <2>1, <2>2 DEF IInv, TypeOK, Shown, Assignments
    <2> QED
      BY <1>1, <2>1, <2>2, <2>3 DEF IInv, ResettableKept, OfferStands, NoneMeansDone
  <1>2. ASSUME IInv, ProbeDone PROVE IInv'
    <2>1. ResettableKept'
      BY <1>2, ProbeKeeps
    <2>2. /\ UNCHANGED <<design, probed, leaks, dead, visited, exhausted, target, natives, restarts>>
          /\ phase' = "ready" /\ tracked' \subseteq Regs
      BY <1>2 DEF ProbeDone
    <2>3. TypeOK'
      BY <1>2, <2>2 DEF IInv, TypeOK, Shown, Assignments
    <2> QED
      BY <2>1, <2>2, <2>3 DEF IInv, OfferStands, NoneMeansDone
  <1> QED
    BY <1>1, <1>2

LEMMA LoopSteps ==
    IInv /\ (Begin \/ RandomBatch(TRUE) \/ RandomBatch(FALSE) \/ FindsState \/ FindsPoint \/ Fails) => IInv'
  <1> SUFFICES ASSUME IInv,
                      Begin \/ RandomBatch(TRUE) \/ RandomBatch(FALSE)
                        \/ FindsState \/ FindsPoint \/ Fails
               PROVE  IInv'
    OBVIOUS
  <1>1. UNCHANGED <<design, probed, leaks, tracked, target, restarts>>
    BY DEF Begin, RandomBatch, FindsState, FindsPoint, Fails, probeVars
  <1>2. phase # "probe" /\ phase' \in {"loop", "pick", "full"}
    BY DEF Begin, RandomBatch, FindsState, FindsPoint, Fails
  <1>3. visited' \subseteq Assignments(Shown)
    <2>1. CASE \E s \in Readings : visited' = visited \cup {s}
      BY <2>1, ReadingsType DEF IInv
    <2>2. CASE visited' = visited
      BY <2>2 DEF IInv, TypeOK
    <2> QED
      BY <2>1, <2>2 DEF Begin, RandomBatch, FindsState, FindsPoint, Fails
  <1>4. dead' \subseteq Regs /\ natives' \in 0..NativePoints
    <2>1. dead' \subseteq Regs
      BY DEF Begin, RandomBatch, FindsState, FindsPoint, Fails, IInv, TypeOK
    <2>2. natives' = natives \/ (natives > 0 /\ natives' = natives - 1)
      BY DEF Begin, RandomBatch, FindsState, FindsPoint, Fails
    <2> QED
      BY <2>1, <2>2, TargetsAssumption DEF IInv, TypeOK
  <1>5. exhausted' \subseteq Targets
    <2>1. exhausted' \in {exhausted, exhausted \cup {target}}
      BY DEF Begin, RandomBatch, FindsState, FindsPoint, Fails, Exhaust
    <2> QED
      BY <2>1 DEF IInv, TypeOK, Targets
  <1>6. TypeOK'
    <2>1. Assignments(Shown)' = Assignments(Shown) /\ Targets' = Targets
      BY <1>1 DEF Assignments, Shown, Targets
    <2> QED
      BY <1>1, <1>2, <1>3, <1>4, <1>5, <2>1 DEF IInv, TypeOK, Targets
  <1> QED
    BY <1>1, <1>2, <1>6, QuietStep

LEMMA PickSteps == IInv /\ (NoMoreTargets \/ \E t \in Offers : Pick(t)) => IInv'
  <1>1. ASSUME IInv, NoMoreTargets PROVE IInv'
    <2>1. /\ UNCHANGED <<design, probed, leaks, tracked, dead, visited, exhausted, target, natives, restarts>>
          /\ phase' = "drained" /\ phase = "pick" /\ Offers = {}
      BY <1>1 DEF NoMoreTargets, probeVars
    <2>2. TypeOK'
      BY <1>1, <2>1 DEF IInv, TypeOK, Shown, Assignments
    <2>3. NoneMeansDone'
      <3>1. /\ \A r \in Live : \A v \in Values(r) : Given(One(r, v))
            /\ Live # {} => \A c \in Assignments(Live) : Given(c)
        BY <1>1, <2>1, NothingLeft DEF IInv
      <3> QED
        BY <2>1, <3>1 DEF NoneMeansDone, Live, Given, Assignments
    <2> QED
      BY <1>1, <2>1, <2>2, <2>3 DEF IInv, ResettableKept, OfferStands
  <1>2. ASSUME IInv, NEW t \in Offers, Pick(t) PROVE IInv'
    <2>1. /\ UNCHANGED <<design, probed, leaks, tracked, dead, visited, exhausted, natives, restarts>>
          /\ phase' = "solve" /\ phase = "pick" /\ target' = t
      BY <1>2 DEF Pick, probeVars
    <2>2. t \in Targets
      BY <1>2, OffersAre DEF IInv
    <2>3. TypeOK'
      <3>1. target' \in Targets
        BY <2>1, <2>2
      <3> QED
        BY <1>2, <2>1, <3>1 DEF IInv, TypeOK, Shown, Assignments, Targets
    <2>4. Offers' = Offers
      BY <2>1 DEF Offers, OpenWidest, Widest, Open, Unseen, SeenIn, Live, Joint, Assignments
    <2> QED
      BY <1>2, <2>1, <2>3, <2>4 DEF IInv, ResettableKept, OfferStands, NoneMeansDone
  <1> QED
    BY <1>1, <1>2

LEMMA RestartStep == IInv /\ Restart => IInv'
  <1> SUFFICES ASSUME IInv, Restart PROVE IInv'
    OBVIOUS
  <1>1. TypeOK'
    <2>1. target' \in Targets
      BY NoTargetType DEF Restart
    <2>2. restarts' \in 0..Restarts
      BY TargetsAssumption DEF Restart, IInv, TypeOK
    <2>3. leaks' \in [Regs -> 0..3] /\ probed' \in 0..3
      BY DEF Restart
    <2> QED
      BY <2>1, <2>2, <2>3 DEF Restart, IInv, TypeOK, Targets, Shown, Assignments
  <1>2. LeaksAreResets'
    BY DEF Restart, LeaksAreResets
  <1> QED
    BY <1>1, <1>2 DEF Restart, IInv, ResettableKept, OfferStands, NoneMeansDone

LEMMA StutterStep == IInv /\ UNCHANGED vars => IInv'
  <1> SUFFICES ASSUME IInv, UNCHANGED vars PROVE IInv'
    OBVIOUS
  <1>1. TypeOK'
    BY DEF vars, probeVars, IInv, TypeOK, Shown, Assignments
  <1>2. (phase = "probe" => tracked = Regs /\ LeaksAreResets)' /\ ResettableKept'
    BY DEF vars, probeVars, IInv, LeaksAreResets, ResettableKept
  <1>3. OfferStands'
    <2>1. UNCHANGED <<phase, tracked, dead, visited, exhausted, target>>
      BY DEF vars, probeVars
    <2>2. Offers' = Offers
      BY <2>1 DEF Offers, OpenWidest, Widest, Open, Unseen, SeenIn, Live, Joint, Assignments
    <2> QED
      BY <2>1, <2>2 DEF IInv, OfferStands
  <1>4. NoneMeansDone'
    BY DEF vars, probeVars, IInv, NoneMeansDone, Live, Given, Assignments
  <1> QED
    BY <1>1, <1>2, <1>3, <1>4 DEF IInv

(* The inductive invariant: types; what the probe has counted; that the    *)
(* target of a running call is still one the picker would offer.           *)
THEOREM TargetsInvariant == Spec => []IInv
  <1>1. IInv /\ [Next]_vars => IInv'
    BY ProbeSteps, LoopSteps, PickSteps, RestartStep, StutterStep DEF Next, Work
  <1> QED
    BY <1>1, InitInvariant, PTL DEF Spec

(* Types of the probe's counts, the database and the targets.              *)
THEOREM TypeCorrect == Spec => []TypeOK
  BY TargetsInvariant, PTL DEF IInv

(* The probe never drops a flop with a reset clause.                       *)
THEOREM ResettableStays == Spec => []ResettableKept
  BY TargetsInvariant, PTL DEF IInv

(* The campaign ends for want of targets only when nothing is left.        *)
THEOREM NoneIsDone == Spec => []NoneMeansDone
  BY TargetsInvariant, PTL DEF IInv

(* A call is asked for something no state has shown, as long as single     *)
(* values are left or all registers shown are live.                        *)
THEOREM OffersAreUnseen == Spec => []OffersUnseen
  <1>1. IInv => OffersUnseen
    <2> SUFFICES ASSUME IInv, Shown \subseteq Live \/ \E r \in Live : Open(r) # {}
                 PROVE  NotYetSeen
      BY DEF OffersUnseen
    <2>1. CASE phase = "solve"
      BY <2>1, OfferedIsUnseen DEF IInv, OfferStands
    <2>2. CASE phase # "solve"
      BY <2>2 DEF NotYetSeen
    <2> QED
      BY <2>1, <2>2
  <1> QED
    BY <1>1, TargetsInvariant, PTL

-----------------------------------------------------------------------------
(* Full coverage.  States are only counted, but no two recorded states     *)
(* agree on the registers that are left, so as many states as there are    *)
(* joint states are all of them.                                           *)

(* Every recorded state is a reading of this design, in a later campaign   *)
(* too; a campaign that has ended as full has counted enough of them.      *)
Counted == /\ visited \subseteq Readings
           /\ phase = "full" => Full(visited)

LEMMA CountedAlways == Spec => []Counted
  <1>1. Init => Counted
    BY DEF Init, Counted
  <1>2. Counted /\ [Next]_vars => Counted'
    <2> SUFFICES ASSUME Counted, [Next]_vars PROVE Counted'
      OBVIOUS
    <2>1. design' = design
      BY DEF Next, Work, ProbePattern, ProbeDone, Begin, Pick, NoMoreTargets, FindsState, FindsPoint,
             Fails, RandomBatch, Restart, vars
    <2>2. Readings' = Readings
      BY <2>1 DEF Readings, Shown, Assignments
    <2>3. visited' = visited \/ \E s \in Readings : visited' = visited \cup {s}
      BY DEF Next, Work, ProbePattern, ProbeDone, Begin, Pick, NoMoreTargets, FindsState, FindsPoint,
             Fails, RandomBatch, Restart, vars
    <2>4. phase' = "full" => Full(visited)'
      <3>1. CASE \E stalled \in BOOLEAN : RandomBatch(stalled)
        <4>1. tracked' = tracked
          BY <3>1 DEF RandomBatch, probeVars
        <4>2. phase' = "full" => Full(visited')
          BY <3>1 DEF RandomBatch
        <4> QED
          BY <4>1, <4>2 DEF Full, MaxStateSpace, Assignments
      <3>2. CASE UNCHANGED vars
        BY <3>2 DEF vars, probeVars, Counted, Full, MaxStateSpace, Assignments
      <3>3. CASE Work \/ Restart
        BY <3>3 DEF Work, ProbePattern, ProbeDone, Begin, Pick, NoMoreTargets, FindsState, FindsPoint,
                    Fails, Restart
      <3> QED
        BY <3>1, <3>2, <3>3 DEF Next
    <2> QED
      BY <2>2, <2>3, <2>4 DEF Counted
  <1> QED
    BY <1>1, <1>2, PTL DEF Spec

(* Finitely many registers have finitely many joint states.                *)
LEMMA AssignmentsFinite ==
    ASSUME NEW regs \in SUBSET Regs
    PROVE  IsFiniteSet(Assignments(regs))
  <1> DEFINE values == UNION {Values(r) : r \in regs}
             pairs == SUBSET (regs \X values)
             ranges == [r \in regs |-> Values(r)]
             graph == [t \in Assignments(regs) |-> {<<r, t[r]>> : r \in regs}]
  <1>1. IsFiniteSet(regs)
    <2>1. IsFiniteSet(1..NumRegs)
      BY FS_Interval, TargetsAssumption
    <2> QED
      BY <2>1, FS_Subset DEF Regs
  <1>2. IsFiniteSet(values)
    <2>1. \A r \in regs : IsFiniteSet(Values(r))
      <3> SUFFICES ASSUME NEW r \in regs PROVE IsFiniteSet(Values(r))
        OBVIOUS
      <3>1. 0 \in Int /\ Space[r] - 1 \in Int
        BY TargetsAssumption
      <3> QED
        BY <3>1, FS_Interval DEF Values
    <2>2. ranges \in Surjection(regs, {Values(r) : r \in regs})
      BY DEF Surjection
    <2>3. IsFiniteSet({Values(r) : r \in regs})
      BY <1>1, <2>2, FS_Surjection
    <2> QED
      BY <2>1, <2>3, FS_UNION
  <1>3. IsFiniteSet(pairs)
    BY <1>1, <1>2, FS_Product, FS_SUBSET
  <1>4. graph \in Injection(Assignments(regs), pairs)
    <2>1. graph \in [Assignments(regs) -> pairs]
      BY DEF Assignments
    <2>2. ASSUME NEW t \in Assignments(regs), NEW u \in Assignments(regs), graph[t] = graph[u]
          PROVE  t = u
      <3>1. \A r \in regs : t[r] = u[r]
        <4> SUFFICES ASSUME NEW r \in regs PROVE t[r] = u[r]
          OBVIOUS
        <4>1. <<r, t[r]>> \in {<<q, u[q]>> : q \in regs}
          BY <2>2
        <4> QED
          BY <4>1
      <3> QED
        BY <3>1 DEF Assignments
    <2> QED
      BY <2>1, <2>2 DEF Injection, IsInjective
  <1> QED
    BY <1>3, <1>4, FS_Injection

(* What a recorded state says of the tracked registers; of one the harness *)
(* does not show it says nothing, and 0 stands for that.                   *)
Tracks == [s \in visited |-> [r \in tracked |-> IF r \in Shown THEN s[r] ELSE 0]]

(* Two recorded states differ in a tracked register, because the registers *)
(* that were dropped never change.                                         *)
LEMMA TracksTellApart ==
    ASSUME TypeOK, Counted, \A r \in Regs \ tracked : design.kind[r] \in {"folded", "missing"}
    PROVE  Tracks \in Injection(visited, Assignments(tracked))
  <1>1. \A s \in visited : s \in [Shown -> UNION {Values(r) : r \in Shown}]
                            /\ \A r \in Shown : s[r] \in Values(r)
    BY DEF TypeOK, Assignments
  <1>2. ASSUME NEW s \in visited PROVE Tracks[s] \in Assignments(tracked)
    <2>1. \A r \in tracked : r \in Regs /\ 0 \in Values(r)
      BY TargetsAssumption DEF TypeOK, Values
    <2>2. \A r \in tracked : (IF r \in Shown THEN s[r] ELSE 0) \in Values(r)
      BY <1>1, <2>1
    <2>3. Tracks[s] = [r \in tracked |-> IF r \in Shown THEN s[r] ELSE 0]
      BY DEF Tracks
    <2> QED
      BY <2>2, <2>3 DEF Assignments
  <1>3. ASSUME NEW s \in visited, NEW t \in visited, Tracks[s] = Tracks[t] PROVE s = t
    <2>1. ASSUME NEW r \in Shown PROVE s[r] = t[r]
      <3>1. CASE r \in tracked
        <4>1. Tracks[s][r] = s[r] /\ Tracks[t][r] = t[r]
          BY <2>1, <3>1 DEF Tracks
        <4> QED
          BY <1>3, <4>1
      <3>2. CASE r \notin tracked
        <4>1. design.kind[r] = "folded"
          BY <2>1, <3>2 DEF Shown
        <4>2. s \in Readings /\ t \in Readings
          BY DEF Counted
        <4> QED
          BY <2>1, <4>1, <4>2 DEF Readings
      <3> QED
        BY <3>1, <3>2
    <2> QED
      BY <1>1, <2>1
  <1>4. Tracks \in [visited -> Assignments(tracked)]
    BY <1>2 DEF Tracks
  <1> QED
    BY <1>3, <1>4 DEF Injection, IsInjective

(* A campaign that ends as full has recorded every joint state of its      *)
(* registers, whatever earlier campaigns and stubs have added to the count.*)
THEOREM FullIsAll == Spec => []FullMeansAll
  <1>1. TypeOK /\ Counted => FullMeansAll
    <2> SUFFICES ASSUME TypeOK, Counted, phase = "full",
                        \A r \in Regs \ tracked : design.kind[r] \in {"folded", "missing"},
                        NEW c \in Assignments(tracked)
                 PROVE  \E s \in visited : \A r \in tracked : s[r] = c[r]
      BY DEF FullMeansAll
    <2> DEFINE all == Assignments(tracked)
    <2>1. Tracks \in Injection(visited, all)
      BY TracksTellApart
    <2>2. IsFiniteSet(all)
      BY AssignmentsFinite DEF TypeOK
    <2>3. IsFiniteSet(visited) /\ Cardinality(visited) <= Cardinality(all)
      BY <2>1, <2>2, FS_Injection
    <2>4. Cardinality(visited) >= Cardinality(all)
      BY DEF Counted, Full, MaxStateSpace
    <2>5. Cardinality(visited) \in Nat /\ Cardinality(all) \in Nat
      BY <2>2, <2>3, FS_CardinalityType
    <2>6. Cardinality(visited) = Cardinality(all)
      BY <2>3, <2>4, <2>5
    <2>7. Tracks \in Surjection(visited, all)
      BY <2>1, <2>2, <2>6, FS_Injection
    <2>8. \A a \in all : \E s \in visited : Tracks[s] = a
      BY <2>7 DEF Surjection
    <2>9. tracked \subseteq Shown
      <3> SUFFICES ASSUME NEW r \in tracked, r \notin Shown PROVE FALSE
        OBVIOUS
      <3> DEFINE a == [q \in tracked |-> IF q = r THEN 1 ELSE 0]
      <3>1. \A q \in tracked : 0 \in Values(q) /\ 1 \in Values(q)
        BY TargetsAssumption DEF TypeOK, Values
      <3>2. a \in all
        BY <3>1 DEF Assignments
      <3>3. PICK s \in visited : Tracks[s] = a
        BY <2>8, <3>2
      <3>4. Tracks[s][r] = 0
        BY DEF Tracks
      <3>5. a[r] = 1
        OBVIOUS
      <3> QED
        BY <3>3, <3>4, <3>5
    <2>10. PICK s \in visited : Tracks[s] = c
      BY <2>8
    <2>11. \A r \in tracked : Tracks[s][r] = s[r]
      BY <2>9 DEF Tracks
    <2> QED
      BY <2>10, <2>11
  <1> QED
    BY <1>1, TypeCorrect, CountedAlways, PTL
=============================================================================
