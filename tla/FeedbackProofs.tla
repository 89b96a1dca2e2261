--------------------------- MODULE FeedbackProofs ---------------------------
(***************************************************************************)
(* For every set of ports, every width, target, sample size and capacity   *)
(* of the windows: credit goes to what was drawn since the last snapshot,  *)
(* signatures are recorded for covered points and from the window they     *)
(* were driven in, and a poll never overshoots the target by more than a   *)
(* sample.                                                                 *)
(***************************************************************************)
EXTENDS Feedback, SequenceTheorems, FiniteSetTheorems, TLAPS

(* The end of a sequence is a sequence of some of its elements.            *)
LEMMA LastOfProperties ==
    ASSUME NEW S, NEW s \in Seq(S), NEW n \in Nat
    PROVE  /\ LastOf(s, n) \in Seq(S)
           /\ Len(LastOf(s, n)) <= n
           /\ Len(LastOf(s, n)) <= Len(s)
           /\ InSeq(LastOf(s, n)) \subseteq InSeq(s)
  <1> DEFINE k == Least(n, Len(s))
             m == Len(s) - k + 1
             t == SubSeq(s, m, Len(s))
  <1>1. Len(s) \in Nat /\ k \in Nat /\ k <= n /\ k <= Len(s)
    BY DEF Least
  <1>2. m \in 1..(Len(s) + 1) /\ m \in Int
    BY <1>1
  <1>3. \A i \in m..Len(s) : s[i] \in S
    BY <1>1, <1>2
  <1>4. /\ t \in Seq(S)
        /\ Len(t) = IF m <= Len(s) THEN Len(s) - m + 1 ELSE 0
        /\ \A i \in 1..(Len(s) - m + 1) : t[i] = s[m + i - 1]
    BY <1>1, <1>2, <1>3, SubSeqProperties
  <1>5. Len(t) = k
    BY <1>1, <1>2, <1>4
  <1>6. InSeq(t) \subseteq InSeq(s)
    <2>1. m = Len(s) - k + 1
      OBVIOUS
    <2>2. ASSUME NEW i \in 1..k
          PROVE  m + i - 1 \in 1..Len(s) /\ t[i] = s[m + i - 1]
      <3>1. m + i - 1 \in 1..Len(s) /\ i \in 1..(Len(s) - m + 1)
        BY <1>1, <2>1
      <3> QED
        BY <1>4, <3>1
    <2> HIDE DEF t, m, k
    <2> QED
      BY <1>5, <2>2 DEF InSeq
  <1> QED
    BY <1>1, <1>4, <1>5, <1>6 DEF LastOf

(* Appending adds the new element to those of the sequence.                *)
LEMMA AppendElements ==
    ASSUME NEW S, NEW s \in Seq(S), NEW e \in S
    PROVE  /\ Append(s, e) \in Seq(S)
           /\ Len(Append(s, e)) = Len(s) + 1
           /\ InSeq(Append(s, e)) \subseteq InSeq(s) \cup {e}
  <1>1. /\ Append(s, e) \in Seq(S)
        /\ Len(Append(s, e)) = Len(s) + 1
        /\ \A i \in 1..Len(s) : Append(s, e)[i] = s[i]
        /\ Append(s, e)[Len(s) + 1] = e
    BY AppendProperties
  <1>2. \A i \in 1..(Len(s) + 1) : Append(s, e)[i] \in InSeq(s) \cup {e}
    BY <1>1 DEF InSeq
  <1> QED
    BY <1>1, <1>2 DEF InSeq

(* A sequence has finitely many elements.                                  *)
LEMMA InSeqFinite ==
    ASSUME NEW S, NEW s \in Seq(S)
    PROVE  IsFiniteSet(InSeq(s))
  <1>1. Len(s) \in Nat /\ s \in [1..Len(s) -> S]
    OBVIOUS
  <1>2. s \in Surjection(1..Len(s), InSeq(s))
    BY <1>1 DEF Surjection, InSeq
  <1>3. IsFiniteSet(1..Len(s))
    BY <1>1, FS_Interval
  <1> QED
    BY <1>2, <1>3, FS_Surjection

(* The classes of an input are a signature, and the reset port takes a     *)
(* value of its own.                                                       *)
LEMMA SignatureType ==
    ASSUME NEW input \in Inputs
    PROVE  SignatureFor(input) \in Signatures /\ WithReset(input) \in Inputs
  <1>1. \A v, w : Classify(v, w) \in Classes
    BY DEF Classify, Classes
  <1>2. SignatureFor(input) \in Signatures
    BY <1>1 DEF SignatureFor, Signatures
  <1>3. \A p \in Ports : WithReset(input)[p] \in Values(p)
    BY FeedbackAssumption DEF WithReset, Inputs
  <1>4. WithReset(input) \in Inputs
    BY <1>3 DEF WithReset, Inputs
  <1> QED
    BY <1>2, <1>4

-----------------------------------------------------------------------------
(* The windows hold nothing from before the last snapshot, and a point has *)
(* finitely many signatures.                                               *)
Fresh == InSeq(window) \subseteq drawn /\ InSeq(buffer) \subseteq driven

IInv ==
    /\ TypeOK
    /\ Fresh
    /\ \A p \in Points : IsFiniteSet(hits[p])
    /\ HitsBounded

(* record_draw keeps the window within its capacity.                       *)
LEMMA DrawKeeps ==
    ASSUME TypeOK, Fresh, NEW draw \in Inputs, Draw(draw)
    PROVE  /\ window' \in Seq(Inputs) /\ Len(window') <= WindowCap
           /\ drawn' \subseteq Inputs
           /\ InSeq(window') \subseteq drawn'
  <1>1. /\ Append(window, draw) \in Seq(Inputs)
        /\ InSeq(Append(window, draw)) \subseteq InSeq(window) \cup {draw}
    BY AppendElements DEF TypeOK
  <1>2. /\ window' \in Seq(Inputs) /\ Len(window') <= WindowCap
        /\ InSeq(window') \subseteq InSeq(Append(window, draw))
    BY <1>1, LastOfProperties, FeedbackAssumption DEF Draw, Recorded
  <1> QED
    BY <1>1, <1>2 DEF Draw, TypeOK, Fresh

(* _record_signature keeps the buffer within its capacity.                 *)
LEMMA DriveKeeps ==
    ASSUME TypeOK, Fresh, NEW input \in Inputs, Drive(input)
    PROVE  /\ buffer' \in Seq(Signatures) /\ Len(buffer') <= BufMax
           /\ driven' \subseteq Signatures
           /\ InSeq(buffer') \subseteq driven'
  <1> DEFINE sig == SignatureFor(input)
             half == (BufMax + 1) \div 2
  <1>1. sig \in Signatures
    BY SignatureType
  <1>2. /\ Append(buffer, sig) \in Seq(Signatures)
        /\ Len(Append(buffer, sig)) = Len(buffer) + 1
        /\ InSeq(Append(buffer, sig)) \subseteq InSeq(buffer) \cup {sig}
    BY <1>1, AppendElements DEF TypeOK
  <1>3. half \in Nat /\ half <= BufMax
    BY FeedbackAssumption
  <1> HIDE DEF sig, half
  <1>4. /\ LastOf(Append(buffer, sig), half) \in Seq(Signatures)
        /\ Len(LastOf(Append(buffer, sig), half)) <= half
        /\ InSeq(LastOf(Append(buffer, sig), half)) \subseteq InSeq(Append(buffer, sig))
    BY <1>2, <1>3, LastOfProperties
  <1>5. buffer' = IF Len(buffer) + 1 > BufMax THEN LastOf(Append(buffer, sig), half)
                  ELSE Append(buffer, sig)
    BY DEF Drive, Buffered, sig, half
  <1>6. buffer' \in Seq(Signatures) /\ Len(buffer') <= BufMax
    BY <1>2, <1>3, <1>4, <1>5, FeedbackAssumption DEF TypeOK
  <1>7. InSeq(buffer') \subseteq InSeq(buffer) \cup {sig}
    BY <1>2, <1>4, <1>5
  <1> QED
    BY <1>1, <1>6, <1>7 DEF Drive, TypeOK, Fresh, sig

(* credit: only values of recorded draws, and only with new points.        *)
LEMMA CreditGives ==
    ASSUME TypeOK, Fresh, NEW new \in SUBSET (Points \ covered), Credit(new)
    PROVE  /\ table' \in [Ports -> SUBSET UNION {Values(p) : p \in Ports}]
           /\ \A p \in Ports : \A v \in table'[p] \ table[p] :
                 new # {} /\ \E d \in drawn : d[p] = v
  <1>1. CASE table' = table
    BY <1>1 DEF TypeOK
  <1>2. CASE table' # table
    <2>1. new # {}
      BY <1>2 DEF Credit
    <2>2. PICK first \in 1..Len(window) :
             table' = [p \in Ports |-> table[p] \cup {window[i][p] : i \in first..Len(window)}]
      BY <1>2 DEF Credit
    <2>3. \A i \in first..Len(window) : window[i] \in drawn /\ window[i] \in Inputs
      BY <2>2 DEF TypeOK, Fresh, InSeq
    <2>4. \A i \in first..Len(window), p \in Ports :
             window[i][p] \in UNION {Values(q) : q \in Ports}
      BY <2>3 DEF Inputs
    <2>5. ASSUME NEW p \in Ports
          PROVE  /\ table'[p] \subseteq UNION {Values(q) : q \in Ports}
                 /\ \A v \in table'[p] \ table[p] : \E d \in drawn : d[p] = v
      BY <2>2, <2>3, <2>4 DEF TypeOK
    <2> QED
      BY <2>1, <2>2, <2>5
  <1> QED
    BY <1>1, <1>2

(* Attribution: signatures of the window, for covered points, and at most  *)
(* a sample beyond the target.                                             *)
LEMMA AttributeGives ==
    ASSUME IInv, NEW points \in SUBSET Points, Attribute(points)
    PROVE  /\ hits' \in [Points -> SUBSET Signatures]
           /\ \A p \in Points : \A s \in hits'[p] \ hits[p] : p \in points /\ s \in driven
           /\ \A p \in Points : /\ IsFiniteSet(hits'[p])
                                /\ Cardinality(hits'[p]) <= Target - 1 + PerPoll
  <1>1. PICK sample \in Samples :
           hits' = [p \in Points |-> hits[p] \cup IF p \in UnderTarget(points) THEN sample ELSE {}]
    BY DEF Attribute
  <1>2. IsFiniteSet(InSeq(buffer))
    BY InSeqFinite DEF IInv, TypeOK
  <1>3. /\ sample \subseteq InSeq(buffer)
        /\ Cardinality(sample) = Least(PerPoll, Cardinality(InSeq(buffer)))
    BY DEF Samples
  <1>4. IsFiniteSet(sample) /\ Cardinality(sample) \in Nat /\ Cardinality(sample) <= PerPoll
    BY <1>2, <1>3, FS_Subset, FS_CardinalityType, FeedbackAssumption DEF Least
  <1>5. sample \subseteq driven /\ sample \subseteq Signatures
    BY <1>3 DEF IInv, Fresh, TypeOK
  <1>6. hits' \in [Points -> SUBSET Signatures]
    BY <1>1, <1>5 DEF IInv, TypeOK
  <1>7. ASSUME NEW p \in Points, NEW s \in hits'[p] \ hits[p]
        PROVE  p \in points /\ s \in driven
    BY <1>1, <1>5, <1>7 DEF UnderTarget
  <1>8. ASSUME NEW p \in Points
        PROVE  IsFiniteSet(hits'[p]) /\ Cardinality(hits'[p]) <= Target - 1 + PerPoll
    <2>1. IsFiniteSet(hits[p]) /\ Cardinality(hits[p]) \in Nat
      BY FS_CardinalityType DEF IInv
    <2>2. CASE p \in UnderTarget(points)
      <3>1. hits'[p] = hits[p] \cup sample
        BY <1>1, <2>2
      <3>2. Cardinality(hits[p]) < Target
        BY <2>2 DEF UnderTarget
      <3>3. IsFiniteSet(hits[p] \cap sample) /\ Cardinality(hits[p] \cap sample) \in Nat
        BY <1>4, FS_Subset, FS_CardinalityType
      <3>4. /\ IsFiniteSet(hits[p] \cup sample)
            /\ Cardinality(hits[p] \cup sample) =
                  Cardinality(hits[p]) + Cardinality(sample) - Cardinality(hits[p] \cap sample)
        BY <1>4, <2>1, FS_Union
      <3> QED
        BY <1>4, <2>1, <3>1, <3>2, <3>3, <3>4, FeedbackAssumption
    <2>3. CASE p \notin UnderTarget(points)
      <3>1. hits'[p] = hits[p]
        BY <1>1, <2>3
      <3> QED
        BY <2>1, <3>1 DEF IInv, HitsBounded
    <2> QED
      BY <2>2, <2>3
  <1> QED
    BY <1>6, <1>7, <1>8

-----------------------------------------------------------------------------
LEMMA InitInvariant == Init => IInv
  <1> SUFFICES ASSUME Init PROVE IInv
    OBVIOUS
  <1>1. \A p \in Ports : CaseLabels[p] \subseteq UNION {Values(q) : q \in Ports}
    BY FeedbackAssumption
  <1>2. IsFiniteSet({}) /\ Cardinality({}) = 0
    BY FS_EmptySet
  <1>3. TypeOK
    <2>1. CaseLabels \in [Ports -> SUBSET UNION {Values(p) : p \in Ports}]
      BY <1>1, FeedbackAssumption
    <2>2. table \in [Ports -> SUBSET UNION {Values(p) : p \in Ports}]
      BY <2>1 DEF Init
    <2> QED
      BY <2>2, FeedbackAssumption DEF Init, TypeOK
  <1>4. Fresh
    BY DEF Init, Fresh, InSeq
  <1>5. \A p \in Points : IsFiniteSet(hits[p]) /\ Cardinality(hits[p]) <= Target - 1 + PerPoll
    BY <1>2, FeedbackAssumption DEF Init
  <1> QED
    BY <1>3, <1>4, <1>5 DEF IInv, HitsBounded

(* Cycles feed the windows and leave what the polls keep.                  *)
LEMMA CycleKeeps ==
    ASSUME IInv, UNCHANGED <<table, hits, covered>>, sent < Burst, sent' = sent + 1,
           \/ UNCHANGED <<window, drawn>>
           \/ \E draw \in Inputs : Draw(draw),
           \/ UNCHANGED <<buffer, driven>>
           \/ \E input \in Inputs : Drive(input)
    PROVE  IInv'
  <1>1. TypeOK /\ Fresh
    BY DEF IInv
  <1>2. /\ window' \in Seq(Inputs) /\ Len(window') <= WindowCap
        /\ drawn' \subseteq Inputs
        /\ InSeq(window') \subseteq drawn'
    <2>1. CASE UNCHANGED <<window, drawn>>
      BY <1>1, <2>1 DEF TypeOK, Fresh
    <2>2. CASE \E draw \in Inputs : Draw(draw)
      BY <1>1, <2>2, DrawKeeps
    <2> QED
      BY <2>1, <2>2
  <1>3. /\ buffer' \in Seq(Signatures) /\ Len(buffer') <= BufMax
        /\ driven' \subseteq Signatures
        /\ InSeq(buffer') \subseteq driven'
    <2>1. CASE UNCHANGED <<buffer, driven>>
      BY <1>1, <2>1 DEF TypeOK, Fresh
    <2>2. CASE \E input \in Inputs : Drive(input)
      BY <1>1, <2>2, DriveKeeps
    <2> QED
      BY <2>1, <2>2
  <1>4. TypeOK'
    BY <1>1, <1>2, <1>3, FeedbackAssumption DEF TypeOK
  <1> QED
    BY <1>2, <1>3, <1>4 DEF IInv, Fresh, HitsBounded

LEMMA PollKeeps ==
    ASSUME IInv, NEW new \in SUBSET (Points \ covered), Poll(new)
    PROVE  IInv'
  <1>1. TypeOK /\ Fresh /\ covered' \in SUBSET Points
    BY DEF IInv, TypeOK, Poll
  <1>2. /\ hits' \in [Points -> SUBSET Signatures]
        /\ \A p \in Points : /\ IsFiniteSet(hits'[p])
                             /\ Cardinality(hits'[p]) <= Target - 1 + PerPoll
    BY <1>1, AttributeGives DEF Poll
  <1>3. table' \in [Ports -> SUBSET UNION {Values(p) : p \in Ports}]
    BY <1>1, CreditGives DEF Poll
  <1>4. window' = <<>> /\ buffer' = <<>> /\ sent' = 0 /\ drawn' = {} /\ driven' = {}
    BY DEF Poll, Credit
  <1>5. TypeOK'
    BY <1>1, <1>2, <1>3, <1>4, FeedbackAssumption DEF TypeOK
  <1>6. Fresh'
    BY <1>4 DEF Fresh, InSeq
  <1> QED
    BY <1>2, <1>5, <1>6 DEF IInv, HitsBounded

LEMMA RestartKeeps == IInv /\ Restart => IInv'
  <1> SUFFICES ASSUME IInv, Restart PROVE IInv'
    OBVIOUS
  <1>1. \A p \in Ports : CaseLabels[p] \subseteq UNION {Values(q) : q \in Ports}
    BY FeedbackAssumption
  <1>2. CaseLabels \in [Ports -> SUBSET UNION {Values(p) : p \in Ports}]
    BY <1>1, FeedbackAssumption
  <1>3. TypeOK'
    BY <1>2, FeedbackAssumption DEF IInv, TypeOK, Restart
  <1>4. Fresh'
    BY DEF Fresh, InSeq, Restart
  <1> QED
    BY <1>3, <1>4 DEF IInv, HitsBounded, Restart

LEMMA StepInvariant == IInv /\ [Next]_vars => IInv'
  <1> SUFFICES ASSUME IInv, [Next]_vars PROVE IInv'
    OBVIOUS
  <1>1. ASSUME NEW draw \in Inputs, RandomCycle(draw) PROVE IInv'
    <2>1. WithReset(draw) \in Inputs
      BY SignatureType
    <2> QED
      BY <1>1, <2>1, CycleKeeps DEF RandomCycle
  <1>2. ASSUME NEW draw \in Inputs, NEW ports \in SUBSET Ports, NEW pins \in Inputs,
               SeedCycle(draw, ports, pins)
        PROVE  IInv'
    <2>1. Pinned(draw, ports, pins) \in Inputs
      <3>1. \A p \in Ports : Pinned(draw, ports, pins)[p] \in Values(p)
        BY DEF Inputs, Pinned
      <3> QED
        BY <3>1 DEF Inputs, Pinned
    <2>2. WithReset(Pinned(draw, ports, pins)) \in Inputs
      BY <2>1, SignatureType
    <2> QED
      BY <1>2, <2>2, CycleKeeps DEF SeedCycle
  <1>3. ASSUME NEW input \in Inputs, OtherCycle(input) PROVE IInv'
    BY <1>3, CycleKeeps DEF OtherCycle
  <1>4. ASSUME NEW new \in SUBSET (Points \ covered), Poll(new) PROVE IInv'
    BY <1>4, PollKeeps
  <1>5. ASSUME NEW point \in Points, NEW sig \in Signatures, NEW input \in Inputs,
               PassCycle(point, sig, input)
        PROVE  IInv'
    <2>1. WithReset(input) \in Inputs
      BY SignatureType
    <2> QED
      BY <1>5, <2>1, CycleKeeps DEF PassCycle
  <1>6. CASE Restart
    BY <1>6, RestartKeeps
  <1>7. CASE UNCHANGED vars
    BY <1>7 DEF vars, IInv, TypeOK, Fresh, InSeq, HitsBounded
  <1> QED
    BY <1>1, <1>2, <1>3, <1>4, <1>5, <1>6, <1>7 DEF Next

(* The inductive invariant: types and bounds, windows without anything     *)
(* from before the last snapshot, finitely many signatures of a point.     *)
THEOREM FeedbackInvariant == Spec => []IInv
  BY InitInvariant, StepInvariant, PTL DEF Spec

(* Types, and the capacities of the credit window and signature buffer.    *)
THEOREM TypeCorrect == Spec => []TypeOK
  BY FeedbackInvariant, PTL DEF IInv

(* A point has at most its target and a sample of signatures.              *)
THEOREM HitsStayBounded == Spec => []HitsBounded
  BY FeedbackInvariant, PTL DEF IInv

(* One step gives credit only for a draw of this window, at a poll that    *)
(* found something.                                                        *)
LEMMA CreditStep ==
    ASSUME IInv, Next, NEW p \in Ports, NEW v \in table'[p] \ table[p]
    PROVE  v \in CaseLabels[p] \/ (covered' # covered /\ \E d \in drawn : d[p] = v)
  <1>1. CASE Restart
    BY <1>1 DEF Restart
  <1>2. CASE \E new \in SUBSET (Points \ covered) : Poll(new)
    <2>1. PICK new \in SUBSET (Points \ covered) : Poll(new)
      BY <1>2
    <2>2. new # {} /\ \E d \in drawn : d[p] = v
      BY <2>1, CreditGives DEF IInv, Poll
    <2>3. covered' # covered
      BY <2>1, <2>2 DEF Poll
    <2> QED
      BY <2>2, <2>3
  <1>3. CASE table' = table
    BY <1>3
  <1> QED
    BY <1>1, <1>2, <1>3 DEF Next, RandomCycle, SeedCycle, OtherCycle, PassCycle

(* Draws that brought no new point are never credited later.               *)
THEOREM CreditNeedsCoverage == Spec => CreditIsEarned
  <1>1. IInv /\ [Next]_vars =>
           [\A p \in Ports : \A v \in table'[p] \ table[p] :
               v \in CaseLabels[p] \/ (covered' # covered /\ \E d \in drawn : d[p] = v)]_vars
    BY CreditStep
  <1> QED
    BY <1>1, FeedbackInvariant, PTL DEF Spec, CreditIsEarned

(* One step records signatures of this window, for covered points.         *)
LEMMA AttributionStep ==
    ASSUME IInv, Next, NEW p \in Points, NEW s \in hits'[p] \ hits[p]
    PROVE  p \in covered' /\ s \in driven
  <1>1. CASE \E new \in SUBSET (Points \ covered) : Poll(new)
    <2>1. PICK new \in SUBSET (Points \ covered) : Poll(new)
      BY <1>1
    <2>2. covered' \in SUBSET Points
      BY <2>1 DEF Poll, IInv, TypeOK
    <2> QED
      BY <2>1, <2>2, AttributeGives DEF Poll
  <1>2. CASE hits' = hits
    BY <1>2
  <1> QED
    BY <1>1, <1>2 DEF Next, RandomCycle, SeedCycle, OtherCycle, PassCycle, Restart

(* No signature outlives its window, none goes to an uncovered point.      *)
THEOREM AttributionStaysInWindow == Spec => AttributionInWindow
  <1>1. IInv /\ [Next]_vars =>
           [\A p \in Points : \A s \in hits'[p] \ hits[p] : p \in covered' /\ s \in driven]_vars
    BY AttributionStep
  <1> QED
    BY <1>1, FeedbackInvariant, PTL DEF Spec, AttributionInWindow
=============================================================================
