------------------------------- MODULE Feedback -------------------------------
(***************************************************************************)
(* What a campaign learns from the inputs it drives.  Two windows are kept *)
(* between coverage polls: InputBiasModel.window holds the values drawn    *)
(* for the data inputs, which get credit when the poll reports new points; *)
(* _sig_buffer holds the value-class signatures of the inputs that were    *)
(* driven, which are recorded for covered points that are still short of   *)
(* their target.  The windows are fed at different places: draws when they *)
(* are made, before a pin or the reset port is put in, signatures when the *)
(* simulator has executed the cycle, whoever chose its inputs.             *)
(*                                                                         *)
(* Amounts of credit, and their decay, are left out: a value has credit or *)
(* it has none.  A poll that gets no snapshot drains nothing: no step.     *)
(***************************************************************************)
EXTENDS Integers, FiniteSets, Sequences

CONSTANTS
    Ports,      \* design.data_inputs: every input but the clock
    Width,      \* Width[p]: bits of a port
    ResetPort,  \* one of Ports, or a value outside when there is none
    Deasserted, \* what run() drives the reset port with
    CaseLabels, \* CaseLabels[p]: values found in case statements
    Points,     \* coverage points
    Target,     \* value_class_target
    PerPoll,    \* k_per_poll: signatures recorded for a point at one poll
    WindowCap,  \* window_cap
    BufMax,     \* _sig_buf_max
    Burst       \* bound on inputs between two snapshots

Values(p) == 0..(2 ^ Width[p] - 1)
Inputs == {i \in [Ports -> UNION {Values(p) : p \in Ports}] : \A p \in Ports : i[p] \in Values(p)}

Classes == 0..8
Signatures == [Ports -> Classes]

ASSUME FeedbackAssumption ==
    /\ Width \in [Ports -> Nat \ {0}]
    /\ ResetPort \in Ports => Deasserted \in Values(ResetPort)
    /\ CaseLabels \in [Ports -> SUBSET Nat]
    /\ \A p \in Ports : CaseLabels[p] \subseteq Values(p)
    /\ Target \in Nat \ {0} /\ PerPoll \in Nat \ {0}
    /\ WindowCap \in Nat \ {0} /\ BufMax \in Nat \ {0} /\ Burst \in Nat

VARIABLES
    window,  \* draws that wait for credit, oldest first
    table,   \* per port, the values with credit
    buffer,  \* signatures since the last snapshot, oldest first
    hits,    \* table value_class_hits, per point
    covered, \* table coverage_points
    sent,    \* inputs since the last snapshot
    drawn,   \* history: draws since the last snapshot
    driven   \* history: signatures driven since the last snapshot

vars == <<window, table, buffer, hits, covered, sent, drawn, driven>>

InSeq(s) == {s[i] : i \in 1..Len(s)}
Least(a, b) == IF a < b THEN a ELSE b
LastOf(s, n) == SubSeq(s, Len(s) - Least(n, Len(s)) + 1, Len(s))
-----------------------------------------------------------------------------
(* value_classes.py *)

Ones(w) == 2 ^ w - 1
Top(w) == 2 ^ (w - 1)
PowersOf2(w) == {2 ^ b : b \in 0..(w - 1)}

(* 0x5555555555555555 and 0xAAAAAAAAAAAAAAAA, cut to the width: the upper   *)
(* bits of a port of more than 64 are zero.                                *)
PatternBits(w) == Least(w, 64)
Low(w) == (4 ^ ((PatternBits(w) + 1) \div 2) - 1) \div 3
Alternating(w) == {Low(w), Ones(PatternBits(w)) - Low(w)}

(* classify: the first test that fits.                                     *)
Classify(v, w) ==
    CASE v = 0                              -> 0  \* VC_ZERO
      [] v = 1                              -> 1  \* VC_ONE
      [] v \in 2..15                        -> 2  \* VC_SMALL
      [] v > 15 /\ v = Top(w)               -> 3  \* VC_MSB
      [] v > 15 /\ v = Ones(w)              -> 4  \* VC_NEG1
      [] v > 15 /\ v = Ones(w) - Top(w)     -> 5  \* VC_MAX
      [] v > 15 /\ v \in PowersOf2(w) \ {Top(w)} -> 6  \* VC_POW2
      [] v > 15 /\ v \in Alternating(w)     -> 7  \* VC_ALT
      [] OTHER                              -> 8  \* VC_MID

SignatureFor(input) == [p \in Ports |-> Classify(input[p], Width[p])]

(* representative_value: values it may return for a class; they need not   *)
(* be of the class.                                                        *)
Representatives(c, w) ==
    CASE c = 0 -> {0}
      [] c = 1 -> {1}
      [] c = 2 -> IF w >= 4 THEN 2..15 ELSE {2 % 2 ^ w}
      [] c = 3 -> {Top(w)}
      [] c = 4 -> {Ones(w)}
      [] c = 5 -> {Ones(w) - Top(w)}
      [] c = 6 -> IF w = 1 THEN {0} ELSE PowersOf2(w) \ {Top(w)}
      [] c = 7 -> Alternating(w)
      [] OTHER -> 0..Ones(w)

InputsForSignature(sig) ==
    {i \in Inputs : \A p \in Ports : i[p] \in Representatives(sig[p], Width[p])}

(* missing_signatures: one class away from a seen one.                     *)
MissingSignatures(seen) ==
    {s \in Signatures \ seen : \E t \in seen, p \in Ports : \A q \in Ports \ {p} : s[q] = t[q]}
-----------------------------------------------------------------------------
(* Windows *)

Init ==
    /\ window = <<>> /\ buffer = <<>>
    /\ table = CaseLabels
    /\ hits = [p \in Points |-> {}]
    /\ covered = {}
    /\ sent = 0 /\ drawn = {} /\ driven = {}

(* record_draw: a deque with a maximal length                              *)
Recorded(draw) == LastOf(Append(window, draw), WindowCap)

(* Broken variant: the buffer is not cut.                                  *)
BufferedAll(sig) == Append(buffer, sig)

(* _record_signature: too long a buffer loses its older half.              *)
Buffered(sig) ==
    IF Len(buffer) + 1 > BufMax THEN LastOf(Append(buffer, sig), (BufMax + 1) \div 2)
    ELSE Append(buffer, sig)

Draw(draw) == window' = Recorded(draw) /\ drawn' = drawn \cup {draw}

(* _batch_step_and_track, for an input that was executed                   *)
Drive(input) ==
    /\ buffer' = Buffered(SignatureFor(input))
    /\ driven' = driven \cup {SignatureFor(input)}

WithReset(input) == [p \in Ports |-> IF p = ResetPort THEN Deasserted ELSE input[p]]

(* A random cycle: sample may return any value of a port, since the model  *)
(* explores now and then whatever has credit.                              *)
RandomCycle(draw) ==
    /\ sent < Burst /\ sent' = sent + 1
    /\ Draw(draw) /\ Drive(WithReset(draw))
    /\ UNCHANGED <<table, hits, covered>>

Pinned(draw, ports, pins) == [p \in Ports |-> IF p \in ports THEN pins[p] ELSE draw[p]]

(* A cycle of the seed stimuli: the draw is recorded as it was, one port   *)
(* is pinned, or two where the extremes are crossed.  A batch that broke   *)
(* before it leaves only the draw.                                         *)
SeedCycle(draw, ports, pins) ==
    /\ sent < Burst /\ sent' = sent + 1
    /\ Cardinality(ports) \in 1..2
    /\ Draw(draw)
    /\ \/ Drive(WithReset(Pinned(draw, ports, pins)))
       \/ UNCHANGED <<buffer, driven>>
    /\ UNCHANGED <<table, hits, covered>>

(* Cycles of replays and mutation bursts are driven, not drawn.            *)
OtherCycle(input) ==
    /\ sent < Burst /\ sent' = sent + 1
    /\ Drive(input)
    /\ UNCHANGED <<window, table, hits, covered, drawn>>
-----------------------------------------------------------------------------
(* _poll_native_coverage, with a snapshot *)

(* Broken variant: what was drawn without success waits for the next poll. *)
CreditBanked(new) ==
    IF new = {} THEN UNCHANGED <<window, table>>
    ELSE /\ \E first \in 1..Len(window) :
               table' = [p \in Ports |-> table[p] \cup {window[i][p] : i \in first..Len(window)}]
         /\ window' = <<>>

(* credit: the window is drained, with or without new points.  Draws that  *)
(* are too old to matter get nothing.                                      *)
Credit(new) ==
    /\ window' = <<>>
    /\ IF new = {} \/ window = <<>> THEN table' = table
       ELSE \E first \in 1..Len(window) :
               table' = [p \in Ports |-> table[p] \cup {window[i][p] : i \in first..Len(window)}]

(* Broken variant: uncovered points are not left out.                      *)
UnderAnywhere(points) == {p \in Points : Cardinality(hits[p]) < Target}

(* value_class_under_target_points                                         *)
UnderTarget(points) == {p \in points : Cardinality(hits[p]) < Target}

Samples ==
    {few \in SUBSET InSeq(buffer) :
        Cardinality(few) = Least(PerPoll, Cardinality(InSeq(buffer)))}

Attribute(points) ==
    \E sample \in Samples :
        hits' = [p \in Points |-> hits[p] \cup IF p \in UnderTarget(points) THEN sample ELSE {}]

Poll(new) ==
    /\ covered' = covered \cup new
    /\ Credit(new)
    /\ Attribute(covered')
    /\ buffer' = <<>>
    /\ sent' = 0 /\ drawn' = {} /\ driven' = {}
-----------------------------------------------------------------------------
(* _run_diversification_pass *)

(* get_under_diversified_point: of the covered points that have some       *)
(* signatures but not enough, one with the most.                           *)
Candidates == {p \in UnderTarget(covered) : hits[p] # {}}
UnderDiversified ==
    {p \in Candidates : \A q \in Candidates : Cardinality(hits[q]) <= Cardinality(hits[p])}

(* A cycle of the pass.  Which eight of the missing signatures the pass    *)
(* tries, and that it holds each for four cycles, is left open.            *)
PassCycle(point, sig, input) ==
    /\ sent < Burst /\ sent' = sent + 1
    /\ point \in UnderDiversified
    /\ sig \in MissingSignatures(hits[point])
    /\ input \in InputsForSignature(sig)
    /\ Drive(WithReset(input))
    /\ UNCHANGED <<window, table, hits, covered, drawn>>
-----------------------------------------------------------------------------
(* A new campaign on the same database: windows and credit are gone.       *)
Restart ==
    /\ window' = <<>> /\ buffer' = <<>>
    /\ table' = CaseLabels
    /\ sent' = 0 /\ drawn' = {} /\ driven' = {}
    /\ UNCHANGED <<hits, covered>>

Next ==
    \/ \E draw \in Inputs : RandomCycle(draw)
    \/ \E draw \in Inputs, ports \in SUBSET Ports, pins \in Inputs : SeedCycle(draw, ports, pins)
    \/ \E input \in Inputs : OtherCycle(input)
    \/ \E new \in SUBSET (Points \ covered) : Poll(new)
    \/ \E point \in Points, sig \in Signatures, input \in Inputs : PassCycle(point, sig, input)
    \/ Restart

Spec == Init /\ [][Next]_vars
-----------------------------------------------------------------------------
(* Properties *)

(* Types, and the bounds of the two windows.                               *)
TypeOK ==
    /\ window \in Seq(Inputs) /\ Len(window) <= WindowCap
    /\ buffer \in Seq(Signatures) /\ Len(buffer) <= BufMax
    /\ table \in [Ports -> SUBSET UNION {Values(p) : p \in Ports}]
    /\ hits \in [Points -> SUBSET Signatures]
    /\ covered \subseteq Points
    /\ sent \in 0..Burst
    /\ drawn \subseteq Inputs /\ driven \subseteq Signatures

(* input_bias.py, credit: a value gets credit at a poll that found new     *)
(* points, and was drawn since the snapshot before it; draws that brought  *)
(* nothing are not banked against a later burst.  Except for the labels a  *)
(* campaign starts with.                                                   *)
CreditIsEarned ==
    [][\A p \in Ports : \A v \in table'[p] \ table[p] :
          v \in CaseLabels[p] \/ (covered' # covered /\ \E d \in drawn : d[p] = v)]_vars

(* orchestrator.py, _record_signature: a signature is recorded for covered *)
(* points only, and at the poll that ends the window it was driven in.     *)
AttributionInWindow ==
    [][\A p \in Points : \A s \in hits'[p] \ hits[p] : p \in covered' /\ s \in driven]_vars

(* A point that has its target gets no more signatures, and one poll never *)
(* carries it past the target by more than a sample.                       *)
HitsBounded == \A p \in Points : Cardinality(hits[p]) <= Target - 1 + PerPoll
=============================================================================
