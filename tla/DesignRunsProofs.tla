-------------------------- MODULE DesignRunsProofs --------------------------
(***************************************************************************)
(* Lemmas about runs of a design.  They rest on induction over the natural *)
(* numbers, stated for a set instead of a predicate: the library's own     *)
(* induction rules take an operator as a parameter, the least element of a *)
(* well-founded set does not.                                              *)
(***************************************************************************)
EXTENDS DesignRuns, Integers, WellFoundedInduction, SequenceTheorems, TLAPS

(* A set of numbers has a least one.                                       *)
LEMMA NatLeast ==
    ASSUME NEW T \in SUBSET Nat, T # {}
    PROVE  \E n \in T : \A m \in T : n <= m
  <1> DEFINE R == {p \in Nat \X Nat : p[1] < p[2]}
  <1>1. IsWellFoundedOn(R, Nat)
    BY NatLessThanWellFounded DEF OpToRel
  <1> HIDE DEF R
  <1>2. PICK n \in T : \A m \in T : ~(<<m, n>> \in R)
    BY <1>1, WFMin
  <1>3. \A m \in Nat : m < n => <<m, n>> \in R
    BY DEF R
  <1>4. \A m \in T : ~(m < n)
    BY <1>2, <1>3
  <1> QED
    BY <1>4

(* Induction: a set that holds 0, and with each number the next, holds all *)
(* of them.                                                                *)
LEMMA NatSetInduction ==
    ASSUME NEW S, 0 \in S, \A n \in Nat : n \in S => n + 1 \in S
    PROVE  Nat \subseteq S
  <1> DEFINE T == {n \in Nat : n \notin S}
  <1> SUFFICES ASSUME T # {} PROVE FALSE
    OBVIOUS
  <1>1. PICK n \in T : \A m \in T : n <= m
    BY NatLeast
  <1>2. n # 0 /\ n \in Nat /\ n - 1 \in Nat /\ n - 1 \notin T
    BY <1>1
  <1> QED
    BY <1>1, <1>2

-----------------------------------------------------------------------------
(* A function is the trajectory over n cycles when it solves the recursion *)
(* that defines trajectories.                                              *)
IsTrajectory(f, n, next, from, inputs) ==
    f = [k \in 0..n |-> IF k = 0 THEN from ELSE next[<<f[k - 1], inputs[k]>>]]

(* The recursion has a solution: the CHOOSE behind the recursive function  *)
(* of Trajectory finds one.                                                *)
LEMMA TrajectoryExists ==
    ASSUME NEW next, NEW from, NEW inputs
    PROVE  \A n \in Nat : \E f : IsTrajectory(f, n, next, from, inputs)
  <1> DEFINE S == {n \in Nat : \E f : IsTrajectory(f, n, next, from, inputs)}
  <1>1. 0 \in S
    <2> DEFINE f == [k \in 0..0 |-> from]
    <2>1. IsTrajectory(f, 0, next, from, inputs)
      BY DEF IsTrajectory
    <2> QED
      BY <2>1
  <1>2. ASSUME NEW n \in Nat, n \in S PROVE n + 1 \in S
    <2>1. PICK f : IsTrajectory(f, n, next, from, inputs)
      BY <1>2
    <2> DEFINE g == [k \in 0..(n + 1) |->
                        IF k = n + 1 THEN next[<<f[n], inputs[n + 1]>>] ELSE f[k]]
    <2>2. ASSUME NEW k \in 0..(n + 1)
          PROVE  g[k] = IF k = 0 THEN from ELSE next[<<g[k - 1], inputs[k]>>]
      <3>1. CASE k = n + 1
        BY <3>1
      <3>2. CASE k # n + 1
        <4>1. k \in 0..n /\ (k # 0 => k - 1 \in 0..n)
          BY <3>2
        <4>2. f[k] = IF k = 0 THEN from ELSE next[<<f[k - 1], inputs[k]>>]
          BY <2>1, <4>1 DEF IsTrajectory
        <4> QED
          BY <4>1, <4>2
      <3> QED
        BY <3>1, <3>2
    <2>3. g = [k \in 0..(n + 1) |-> g[k]]
      OBVIOUS
    <2> HIDE DEF g
    <2>4. IsTrajectory(g, n + 1, next, from, inputs)
      BY <2>2, <2>3 DEF IsTrajectory
    <2> QED
      BY <2>4
  <1> HIDE DEF S
  <1>3. Nat \subseteq S
    BY <1>1, <1>2, NatSetInduction
  <1> QED
    BY <1>3 DEF S

(* The state after 0 cycles is where the run starts, and each cycle takes  *)
(* the design from one state to the next.                                  *)
Follows(T, next, from, inputs) ==
    /\ T[0] = from
    /\ \A k \in 1..Len(inputs) : T[k] = next[<<T[k - 1], inputs[k]>>]

LEMMA TrajectoryFollows ==
    ASSUME NEW next, NEW from, NEW inputs, Len(inputs) \in Nat
    PROVE  Follows(Trajectory(next, from, inputs), next, from, inputs)
  <1> DEFINE T == Trajectory(next, from, inputs)
             n == Len(inputs)
  <1>1. PICK f : IsTrajectory(f, n, next, from, inputs)
    BY TrajectoryExists
  <1>2. T = CHOOSE g : g = [k \in 0..n |-> IF k = 0 THEN from ELSE next[<<g[k - 1], inputs[k]>>]]
    BY Zenon DEF Trajectory
  <1>3. T = [k \in 0..n |-> IF k = 0 THEN from ELSE next[<<T[k - 1], inputs[k]>>]]
    BY <1>1, <1>2, Zenon DEF IsTrajectory
  <1> HIDE DEF T
  <1>4. \A k \in 0..n : T[k] = IF k = 0 THEN from ELSE next[<<T[k - 1], inputs[k]>>]
    BY <1>3
  <1>5. 0 \in 0..n
    OBVIOUS
  <1>6. T[0] = from
    BY <1>4, <1>5
  <1>7. \A k \in 1..n : T[k] = next[<<T[k - 1], inputs[k]>>]
    BY <1>4
  <1> QED
    BY <1>6, <1>7 DEF T, Follows

(* Whatever starts there and steps like that is the trajectory.            *)
LEMMA TrajectoryUnique ==
    ASSUME NEW next, NEW from, NEW inputs, Len(inputs) \in Nat,
           NEW m \in 0..Len(inputs), NEW f, f[0] = from,
           \A k \in 1..m : f[k] = next[<<f[k - 1], inputs[k]>>]
    PROVE  \A k \in 0..m : f[k] = Trajectory(next, from, inputs)[k]
  <1> DEFINE T == Trajectory(next, from, inputs)
             S == {k \in Nat : k <= m => f[k] = T[k]}
  <1>0. T[0] = from /\ \A k \in 1..Len(inputs) : T[k] = next[<<T[k - 1], inputs[k]>>]
    <2>1. Len(inputs) \in Nat
      OBVIOUS
    <2>2. Follows(T, next, from, inputs)
      BY <2>1, TrajectoryFollows, Zenon
    <2> QED
      BY <2>2 DEF Follows
  <1> HIDE DEF T
  <1>1. 0 \in S
    BY <1>0
  <1>2. ASSUME NEW n \in Nat, n \in S PROVE n + 1 \in S
    <2> SUFFICES ASSUME n + 1 <= m PROVE f[n + 1] = T[n + 1]
      OBVIOUS
    <2>1. n + 1 \in 1..m /\ n + 1 \in 1..Len(inputs) /\ (n + 1) - 1 = n
      OBVIOUS
    <2>2. f[n] = T[n]
      BY <1>2
    <2> QED
      BY <1>0, <2>1, <2>2
  <1> HIDE DEF S
  <1>3. Nat \subseteq S
    BY <1>1, <1>2, NatSetInduction
  <1> QED
    BY <1>3 DEF S, T

(* A trajectory stays among the states of the design.                      *)
LEMMA TrajectoryType ==
    ASSUME NEW States, NEW Inputs, NEW next \in [States \X Inputs -> States],
           NEW from \in States, NEW inputs \in Seq(Inputs)
    PROVE  \A k \in 0..Len(inputs) : Trajectory(next, from, inputs)[k] \in States
  <1> DEFINE T == Trajectory(next, from, inputs)
             S == {k \in Nat : k <= Len(inputs) => T[k] \in States}
  <1>0. T[0] = from /\ \A k \in 1..Len(inputs) : T[k] = next[<<T[k - 1], inputs[k]>>]
    <2>1. Len(inputs) \in Nat
      OBVIOUS
    <2>2. Follows(T, next, from, inputs)
      BY <2>1, TrajectoryFollows, Zenon
    <2> QED
      BY <2>2 DEF Follows
  <1> HIDE DEF T
  <1>1. 0 \in S
    BY <1>0
  <1>2. ASSUME NEW n \in Nat, n \in S PROVE n + 1 \in S
    <2> SUFFICES ASSUME n + 1 <= Len(inputs) PROVE T[n + 1] \in States
      OBVIOUS
    <2>1. n + 1 \in 1..Len(inputs) /\ (n + 1) - 1 = n /\ inputs[n + 1] \in Inputs
      OBVIOUS
    <2>2. T[n] \in States
      BY <1>2
    <2> QED
      BY <1>0, <2>1, <2>2
  <1> HIDE DEF S
  <1>3. Nat \subseteq S
    BY <1>1, <1>2, NatSetInduction
  <1> QED
    BY <1>3 DEF S, T

(* The trajectory of a run continued is that of the run, and then that of  *)
(* the continuation from where the run ended.                              *)
LEMMA TrajectoryConcat ==
    ASSUME NEW Inputs, NEW next, NEW from, NEW a \in Seq(Inputs), NEW b \in Seq(Inputs)
    PROVE  \A k \in 0..Len(b) :
              Trajectory(next, from, a \o b)[Len(a) + k] =
                  Trajectory(next, Run(next, from, a), b)[k]
  <1> DEFINE ab == a \o b
             T == Trajectory(next, from, ab)
             A == Trajectory(next, from, a)
             mid == Run(next, from, a)
             f == [k \in 0..Len(b) |-> T[Len(a) + k]]
  <1>1. /\ ab \in Seq(Inputs) /\ Len(ab) = Len(a) + Len(b)
        /\ \A k \in 1..Len(a) : ab[k] = a[k]
        /\ \A k \in 1..Len(b) : ab[Len(a) + k] = b[k]
        /\ Len(a) \in Nat /\ Len(b) \in Nat
    BY ConcatProperties
  <1> HIDE DEF ab
  <1>2. T[0] = from /\ \A k \in 1..Len(ab) : T[k] = next[<<T[k - 1], ab[k]>>]
    <2>1. Len(ab) \in Nat
      BY <1>1
    <2>2. Follows(T, next, from, ab)
      BY <2>1, TrajectoryFollows, Zenon
    <2> QED
      BY <2>2 DEF Follows
  <1> HIDE DEF T
  <1>3. \A k \in 1..Len(a) : T[k] = next[<<T[k - 1], a[k]>>]
    BY <1>1, <1>2
  <1>4. \A k \in 0..Len(a) : T[k] = A[k]
    BY <1>1, <1>2, <1>3, TrajectoryUnique
  <1>5. f[0] = mid
    BY <1>1, <1>4 DEF Run
  <1>6. ASSUME NEW k \in 1..Len(b) PROVE f[k] = next[<<f[k - 1], b[k]>>]
    <2>1. /\ Len(a) + k \in 1..Len(ab) /\ (Len(a) + k) - 1 = Len(a) + (k - 1)
          /\ k \in 0..Len(b) /\ k - 1 \in 0..Len(b) /\ ab[Len(a) + k] = b[k]
      BY <1>1
    <2>2. T[Len(a) + k] = next[<<T[Len(a) + (k - 1)], b[k]>>]
      BY <1>2, <2>1
    <2> QED
      BY <2>1, <2>2
  <1>7. \A k \in 0..Len(b) : f[k] = T[Len(a) + k]
    OBVIOUS
  <1> HIDE DEF f, mid
  <1>8. \A k \in 0..Len(b) : f[k] = Trajectory(next, mid, b)[k]
    BY <1>1, <1>5, <1>6, TrajectoryUnique
  <1> QED
    BY <1>7, <1>8 DEF T, ab, mid

-----------------------------------------------------------------------------
(* What the specifications ask of a run.                                   *)

LEMMA RunType ==
    ASSUME NEW States, NEW Inputs, NEW next \in [States \X Inputs -> States],
           NEW from \in States, NEW inputs \in Seq(Inputs)
    PROVE  /\ Run(next, from, inputs) \in States
           /\ Through(next, from, inputs) \subseteq States
  <1>1. Len(inputs) \in 0..Len(inputs) /\ 1..Len(inputs) \subseteq 0..Len(inputs)
    OBVIOUS
  <1>2. \A k \in 0..Len(inputs) : Trajectory(next, from, inputs)[k] \in States
    BY TrajectoryType
  <1> QED
    BY <1>1, <1>2 DEF Run, Through

LEMMA RunOfNone ==
    ASSUME NEW next, NEW from
    PROVE  Run(next, from, <<>>) = from /\ Through(next, from, <<>>) = {}
  <1>1. Len(<<>>) = 0
    OBVIOUS
  <1>2. Follows(Trajectory(next, from, <<>>), next, from, <<>>)
    BY <1>1, TrajectoryFollows
  <1> QED
    BY <1>1, <1>2 DEF Run, Through, Follows

(* A run ends in a state it passes through, unless it is empty.            *)
LEMMA RunEndsThrough ==
    ASSUME NEW Inputs, NEW next, NEW from, NEW inputs \in Seq(Inputs), inputs # <<>>
    PROVE  Run(next, from, inputs) \in Through(next, from, inputs)
  <1>1. Len(inputs) \in 1..Len(inputs)
    OBVIOUS
  <1> QED
    BY <1>1 DEF Run, Through

(* One run after another is the run of both.                               *)
LEMMA RunConcat ==
    ASSUME NEW Inputs, NEW next, NEW from, NEW a \in Seq(Inputs), NEW b \in Seq(Inputs)
    PROVE  /\ Run(next, from, a \o b) = Run(next, Run(next, from, a), b)
           /\ Through(next, Run(next, from, a), b) \subseteq Through(next, from, a \o b)
  <1> DEFINE T == Trajectory(next, from, a \o b)
             B == Trajectory(next, Run(next, from, a), b)
  <1>1. \A k \in 0..Len(b) : T[Len(a) + k] = B[k]
    BY TrajectoryConcat
  <1>2. Len(a) \in Nat /\ Len(b) \in Nat /\ Len(a \o b) = Len(a) + Len(b)
    BY ConcatProperties
  <1>3. \A k \in 1..Len(b) : Len(a) + k \in 1..Len(a \o b) /\ k \in 0..Len(b)
    BY <1>2
  <1>4. T[Len(a \o b)] = B[Len(b)]
    <2>1. Len(b) \in 0..Len(b)
      BY <1>2
    <2> QED
      BY <1>1, <1>2, <2>1
  <1>5. ASSUME NEW k \in 1..Len(b) PROVE B[k] \in Through(next, from, a \o b)
    <2>1. B[k] = T[Len(a) + k] /\ Len(a) + k \in 1..Len(a \o b)
      BY <1>1, <1>3
    <2> QED
      BY <2>1 DEF Through
  <1> QED
    BY <1>4, <1>5 DEF Run, Through

(* One cycle more is one step of the design more.                          *)
OneCycleMore(next, from, inputs, input) ==
    /\ Trajectory(next, from, Append(inputs, input))[Len(inputs)] = Run(next, from, inputs)
    /\ Run(next, from, Append(inputs, input)) = next[<<Run(next, from, inputs), input>>]

LEMMA RunAppend ==
    ASSUME NEW Inputs, NEW next, NEW from, NEW inputs \in Seq(Inputs), NEW input \in Inputs
    PROVE  OneCycleMore(next, from, inputs, input)
  <1> DEFINE longer == Append(inputs, input)
             T == Trajectory(next, from, longer)
  <1>1. /\ Len(inputs) \in Nat /\ Len(longer) = Len(inputs) + 1
        /\ \A k \in 1..Len(inputs) : longer[k] = inputs[k]
        /\ longer[Len(inputs) + 1] = input
    OBVIOUS
  <1> HIDE DEF longer
  <1>2. Follows(T, next, from, longer)
    BY <1>1, TrajectoryFollows
  <1>3. T[0] = from /\ \A k \in 1..Len(longer) : T[k] = next[<<T[k - 1], longer[k]>>]
    BY <1>2 DEF Follows
  <1> HIDE DEF T
  <1>4. \A k \in 1..Len(inputs) : T[k] = next[<<T[k - 1], inputs[k]>>]
    BY <1>1, <1>3
  <1>5. Len(inputs) \in 0..Len(inputs)
    BY <1>1
  <1>6. \A k \in 0..Len(inputs) : T[k] = Trajectory(next, from, inputs)[k]
    BY <1>1, <1>3, <1>4, <1>5, TrajectoryUnique
  <1>7. T[Len(inputs)] = Run(next, from, inputs)
    BY <1>5, <1>6 DEF Run
  <1>8. T[Len(inputs) + 1] = next[<<T[(Len(inputs) + 1) - 1], longer[Len(inputs) + 1]>>]
    BY <1>1, <1>3
  <1>9. (Len(inputs) + 1) - 1 = Len(inputs)
    BY <1>1
  <1>10. T[Len(longer)] = next[<<Run(next, from, inputs), input>>]
    BY <1>1, <1>7, <1>8, <1>9
  <1> QED
    BY <1>7, <1>10 DEF Run, T, longer, OneCycleMore
=============================================================================
