--------------------------- MODULE RegisterTargets ---------------------------
(***************************************************************************)
(* Which registers a campaign works on, and which register values it asks  *)
(* the solver for.  Before the campaign validate_registers probes every    *)
(* register: it is forced to three patterns, the design is reset after     *)
(* each, and a register that kept all three is taken for a stub and        *)
(* dropped.  During the campaign get_unvisited_neighbor_target looks in    *)
(* the recorded states for register values, and at last for joint states,  *)
(* that have not been seen; the campaign ends when it finds none, or when  *)
(* as many states were recorded as the registers have joint states.        *)
(*                                                                         *)
(* The three parts disagree on what a register is: the probe and the       *)
(* dead-signal filter shorten the list the picker works with, but the      *)
(* simulator goes on reporting, and the database goes on storing, states   *)
(* of all registers.  States of earlier campaigns stay in the database.    *)
(***************************************************************************)
EXTENDS Integers, FiniteSets

CONSTANTS
    NumRegs,      \* registers 1..NumRegs, in the order of design.registers
    Space,        \* Space[r] = 2^width: number of values of a register
    Patterns,     \* Patterns[r][k], k \in 1..3: what the probe forces
    ResetValue,   \* what a reset clause sets a register to
    Designs,      \* set of [kind, resetPort]
    FullCap,      \* 2^20: larger joint spaces are never "full"
    NativePoints, \* bound on replays that find native coverage only
    Restarts      \* bound on further campaigns on the same database

Regs == 1..NumRegs
Values(r) == 0..(Space[r] - 1)

(* A flop with a reset clause; a flop that keeps its value, or takes some  *)
(* other, while reset is asserted; a stub without a driver, folded by the  *)
(* simulator; a name the harness does not show.                            *)
Kinds == {"reset", "holds", "follows", "folded", "missing"}

ASSUME TargetsAssumption ==
    /\ NumRegs \in Nat /\ FullCap \in Nat /\ NativePoints \in Nat /\ Restarts \in Nat
    /\ Space \in [Regs -> Nat \ {0, 1}]
    /\ \A r \in Regs :
          /\ \A k \in 1..3 : Patterns[r][k] \in Values(r)
          /\ Patterns[r][1] # Patterns[r][3]
          /\ ResetValue[r] \in Values(r)
    /\ Designs \subseteq [kind : [Regs -> Kinds], resetPort : BOOLEAN]

VARIABLES
    design,    \* the registers of the RTL and of its simulation
    phase,     \* "probe", "ready", "loop", "pick", "solve", "full", "drained"
    probed,    \* patterns the probe is through with
    leaks,     \* leak_count
    tracked,   \* design.registers
    dead,      \* _dead_signals, as far as they are registers
    visited,   \* table visited_states
    exhausted, \* _exhausted_targets
    target,    \* the register values the solver is asked for
    natives,   \* what is left of NativePoints
    restarts   \* what is left of Restarts

probeVars == <<probed, leaks, tracked>>
vars == <<design, phase, probeVars, dead, visited, exhausted, target, natives, restarts>>

NoTarget == <<>>

(* Functions from a set of registers to values of theirs.                  *)
Assignments(regs) ==
    {t \in [regs -> UNION {Values(r) : r \in regs}] : \A r \in regs : t[r] \in Values(r)}

Shown == {r \in Regs : design.kind[r] # "missing"}

Init ==
    /\ design \in Designs
    /\ phase = "probe" /\ probed = 0 /\ leaks = [r \in Regs |-> 0]
    /\ tracked = Regs /\ dead = {} /\ exhausted = {} /\ target = NoTarget
    /\ visited = {}
    /\ natives = NativePoints /\ restarts = Restarts
-----------------------------------------------------------------------------
(* validate_registers *)

(* What a register may read after it was forced to a value and reset.      *)
AfterReset(r, forced) ==
    CASE design.kind[r] = "reset"   -> {ResetValue[r]}
      [] design.kind[r] = "follows" -> Values(r)
      [] OTHER                      -> {forced}

(* Broken variant: a missing register also counts as equal.                *)
CountsTwice(r) == leaks[r] + IF design.kind[r] = "missing" THEN 2 ELSE 1

CountsLeak(r) == leaks[r] + 1

(* One pattern: force, reset, read back.  A register that is missing from  *)
(* the reply counts as if it had kept the pattern.                         *)
ProbePattern ==
    /\ phase = "probe" /\ design.resetPort /\ probed < 3
    /\ probed' = probed + 1
    /\ \E leaked \in SUBSET Regs :
          /\ \A r \in Regs :
                LET forced == Patterns[r][probed']
                IN  /\ r \in leaked => forced \in AfterReset(r, forced)
                    /\ r \notin leaked => AfterReset(r, forced) # {forced}
          /\ leaks' = [r \in Regs |-> IF r \in leaked THEN CountsLeak(r) ELSE leaks[r]]
    /\ UNCHANGED <<design, phase, tracked, dead, visited, exhausted, target, natives, restarts>>

(* Broken variant: leaking twice is enough.                                *)
DropsAtTwo(r) == leaks[r] >= 2

Drops(r) == leaks[r] >= 3

(* The list is replaced once all patterns are through.  Without a reset    *)
(* port there is no probe.                                                 *)
ProbeDone ==
    /\ phase = "probe" /\ (design.resetPort => probed = 3)
    /\ tracked' = IF design.resetPort THEN {r \in Regs : ~Drops(r)} ELSE Regs
    /\ phase' = "ready"
    /\ UNCHANGED <<design, probed, leaks, dead, visited, exhausted, target, natives, restarts>>
-----------------------------------------------------------------------------
(* States *)

(* What read_state may return during the campaign: a stub shows what the   *)
(* last pattern of the probe left in it, or 0 when there was none.         *)
Readings ==
    {s \in Assignments(Shown) :
        \A r \in Shown : design.kind[r] = "folded" =>
            s[r] = IF design.resetPort THEN Patterns[r][3] ELSE 0}

SeenIn(states, r) == {s[r] : s \in {v \in states : r \in DOMAIN v}}
Unseen(r) == Values(r) \ SeenIn(visited, r)

Live == tracked \ dead

(* max_state_space: the product of the registers' sizes                    *)
MaxStateSpace == Cardinality(Assignments(tracked))

(* Broken variant: one state short counts as full.                         *)
FullShort(states) == MaxStateSpace \in 2..FullCap /\ Cardinality(states) + 1 >= MaxStateSpace

(* The full-coverage check of run(): states are counted, not compared.     *)
Full(states) == MaxStateSpace \in 2..FullCap /\ Cardinality(states) >= MaxStateSpace

(* run() records the state it starts in.                                   *)
Begin ==
    /\ phase = "ready" /\ phase' = "loop"
    /\ \E s \in Readings : visited' = visited \cup {s}
    /\ UNCHANGED <<design, probeVars, dead, exhausted, target, natives, restarts>>

(* A random batch records a state.  The poll after it may declare          *)
(* registers dead that never left one value; then the full-coverage check  *)
(* and the stall gate, which is StallClock's subject.                      *)
RandomBatch(stalled) ==
    /\ phase = "loop"
    /\ \E s \in Readings : visited' = visited \cup {s}
    /\ dead' \in {dead, dead \cup {r \in Regs : Cardinality(SeenIn(visited', r)) <= 1}}
    /\ phase' = IF Full(visited') THEN "full" ELSE IF stalled THEN "pick" ELSE "loop"
    /\ UNCHANGED <<design, probeVars, exhausted, target, natives, restarts>>
-----------------------------------------------------------------------------
(* get_unvisited_neighbor_target *)

One(r, v) == [q \in {r} |-> v]
Open(r) == {One(r, v) : v \in Unseen(r)} \ exhausted

(* The first register among those with the most unseen values.             *)
Widest == {r \in Live : \A q \in Live : Cardinality(Unseen(q)) <= Cardinality(Unseen(r))}
OpenWidest == UNION {Open(r) : r \in {w \in Widest : \A q \in Widest : w <= q}}

(* The order in which the loops of the picker come to targets.             *)
Before(t, u) ==
    \E r \in DOMAIN t :
        /\ \A q \in DOMAIN u : q < r => q \in DOMAIN t /\ t[q] = u[q]
        /\ r \in DOMAIN u => t[r] < u[r]

Joint == Assignments(Live) \ (visited \cup exhausted)

(* Broken variants: after the widest register the picker gives up; values  *)
(* already seen are offered.                                               *)
OffersWidest == OpenWidest
OffersSeen == UNION {{One(r, v) : v \in Values(r)} : r \in Live} \ exhausted

(* A single value of the register with the most unseen ones; else of any   *)
(* register; else a joint state of all registers that is not, as a whole,  *)
(* one of the recorded states.                                             *)
Offers ==
    IF Live = {} THEN {}
    ELSE IF OpenWidest # {} THEN OpenWidest
    ELSE IF \E r \in Live : Open(r) # {} THEN UNION {Open(r) : r \in Live}
    ELSE Joint

(* The first of them.                                                      *)
Pick(t) ==
    /\ phase = "pick" /\ t \in Offers
    /\ \A u \in Offers \ {t} : Before(t, u)
    /\ target' = t
    /\ phase' = "solve"
    /\ UNCHANGED <<design, probeVars, dead, visited, exhausted, natives, restarts>>

NoMoreTargets ==
    /\ phase = "pick" /\ Offers = {}
    /\ phase' = "drained"
    /\ UNCHANGED <<design, probeVars, dead, visited, exhausted, target, natives, restarts>>
-----------------------------------------------------------------------------
(* What comes of a target *)

(* A witness is replayed and records a new state: productive, be it the    *)
(* target or not.                                                          *)
FindsState ==
    /\ phase = "solve" /\ phase' = "loop"
    /\ \E s \in Readings \ visited : visited' = visited \cup {s}
    /\ UNCHANGED <<design, probeVars, dead, exhausted, target, natives, restarts>>

(* Productive by new native points alone: the target stays open.           *)
FindsPoint ==
    /\ phase = "solve" /\ phase' = "loop"
    /\ natives > 0 /\ natives' = natives - 1
    /\ UNCHANGED <<design, probeVars, dead, visited, exhausted, target, restarts>>

(* Broken variant: a failed target is not remembered.                      *)
ForgetTarget == UNCHANGED exhausted

Exhaust == exhausted' = exhausted \cup {target}

(* No witness, or a replay that found nothing: mark_target_exhausted.      *)
Fails ==
    /\ phase = "solve" /\ phase' = "loop"
    /\ Exhaust
    /\ UNCHANGED <<design, probeVars, dead, visited, target, natives, restarts>>

(* A new campaign on the same database, after the end or a crash: the      *)
(* states are kept, what was in memory is not.                             *)
Restart ==
    /\ phase # "probe" /\ restarts > 0
    /\ restarts' = restarts - 1
    /\ phase' = "probe" /\ probed' = 0 /\ leaks' = [r \in Regs |-> 0]
    /\ tracked' = Regs /\ dead' = {} /\ exhausted' = {} /\ target' = NoTarget
    /\ UNCHANGED <<design, visited, natives>>

Work == \/ ProbePattern \/ ProbeDone \/ Begin
        \/ \E t \in Offers : Pick(t)
        \/ NoMoreTargets
        \/ FindsState \/ FindsPoint \/ Fails

Next == Work \/ RandomBatch(TRUE) \/ RandomBatch(FALSE) \/ Restart

Spec == Init /\ [][Next]_vars

(* One thread runs the loop, its calls return, and a campaign that keeps   *)
(* finding nothing new is found stalled (Campaign.tla).                    *)
FairSpec == Spec /\ WF_vars(Work) /\ WF_vars(RandomBatch(TRUE))
-----------------------------------------------------------------------------
(* Properties *)

(* Types of what the three parts keep.                                     *)
TypeOK ==
    /\ design \in Designs
    /\ phase \in {"probe", "ready", "loop", "pick", "solve", "full", "drained"}
    /\ probed \in 0..3 /\ leaks \in [Regs -> 0..3]
    /\ tracked \subseteq Regs /\ dead \subseteq Regs
    /\ visited \subseteq Assignments(Shown)
    /\ exhausted \subseteq UNION {Assignments(regs) : regs \in SUBSET Regs}
    /\ target \in UNION {Assignments(regs) : regs \in SUBSET Regs}
    /\ natives \in 0..NativePoints /\ restarts \in 0..Restarts

(* validate_registers, docstring: a flop with a reset clause is told from  *)
(* a stub whatever its reset value is, even if it equals one pattern.      *)
ResettableKept == \A r \in Regs : design.kind[r] = "reset" => r \in tracked

(* get_unvisited_neighbor_target, docstring: None when full coverage is    *)
(* achieved.  When the campaign ends for want of targets, each value of    *)
(* each live register was recorded or given up, and so was each joint      *)
(* state of the live registers.                                            *)
Given(t) == t \in exhausted \/ \E s \in visited : \A r \in DOMAIN t : r \in DOMAIN s /\ s[r] = t[r]
NoneMeansDone ==
    phase = "drained" =>
        /\ \A r \in Live : \A v \in Values(r) : Given(One(r, v))
        /\ Live # {} => \A c \in Assignments(Live) : Given(c)

(* A campaign that ends with full_coverage has recorded every joint state  *)
(* of its registers, although it only counts, counts states of dropped     *)
(* registers and those of earlier campaigns: as long as what the probe     *)
(* dropped cannot change.                                                  *)
FullMeansAll ==
    phase = "full" /\ (\A r \in Regs \ tracked : design.kind[r] \in {"folded", "missing"}) =>
        \A c \in Assignments(tracked) : \E s \in visited : \A r \in tracked : s[r] = c[r]

(* get_unvisited_neighbor_target, docstring: a target has not yet been     *)
(* seen in the coverage database.                                          *)
NotYetSeen == phase = "solve" =>
    \A s \in visited : \E r \in DOMAIN target : r \notin DOMAIN s \/ s[r] # target[r]

(* That holds as long as values of single registers are left, and for the  *)
(* joint states when the picker works with all registers that are shown.   *)
OffersUnseen == Shown \subseteq Live \/ (\E r \in Live : Open(r) # {}) => NotYetSeen

(* Targets run out: the campaign ends.                                     *)
TargetsRunOut == <>(phase \in {"full", "drained"})
=============================================================================
