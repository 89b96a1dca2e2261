----------------------------- MODULE DesignRuns -----------------------------
(***************************************************************************)
(* What a simulator does when it is driven with a run of inputs, one clock *)
(* cycle each: the states a deterministic design passes through.           *)
(***************************************************************************)
EXTENDS Naturals, Sequences

(* The state after each number of cycles, from 0 on.                       *)
Trajectory(next, from, inputs) ==
    LET after[k \in 0..Len(inputs)] ==
            IF k = 0 THEN from ELSE next[<<after[k - 1], inputs[k]>>]
    IN  after

(* The state the run ends in, and the ones it passes through.              *)
Run(next, from, inputs) == Trajectory(next, from, inputs)[Len(inputs)]
Through(next, from, inputs) == {Trajectory(next, from, inputs)[k] : k \in 1..Len(inputs)}
=============================================================================
