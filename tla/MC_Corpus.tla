----------------------------- MODULE MC_Corpus -----------------------------
(* Small instances of Corpus.tla: a flop that toggles on input 1; the same *)
(* flop after an edit that clears it on input 1; and the first one without *)
(* a reset port, where a reset is cycles with all inputs at 0.             *)
EXTENDS Corpus

Bits == {0, 1}
Toggles == [c \in Bits \X Bits |-> (c[1] + c[2]) % 2]
Clears == [c \in Bits \X Bits |-> IF c[2] = 1 THEN 0 ELSE c[1]]
ToZero == [s \in Bits |-> {0}]
Stays == [s \in Bits |-> {s}]
WithReset == [next |-> Toggles, reset |-> ToZero]
Edited == [next |-> Clears, reset |-> ToZero]
WithoutReset == [next |-> Toggles, reset |-> Stays]
AllDesigns == {WithReset, Edited, WithoutReset}
Busy == {{"replays", "mutates", "breaks"}, {"replays", "mutates", "forces"}}
=============================================================================
