--------------------------- MODULE MC_StallClock ---------------------------
(* A small instance of StallClock.tla: gates of a few cycles, batches that *)
(* do not divide them, replays shorter and longer than a gate.             *)
EXTENDS StallClock

SmallDepths == {0, 3}
CommandLine(source, seeds, bias, precheck) ==
    [source |-> source, seeds |-> seeds, bias |-> bias, precheck |-> precheck]
CommandLines ==
    {CommandLine(s, FALSE, FALSE, FALSE) : s \in {"native", "value_class"}}
      \cup {CommandLine(s, FALSE, FALSE, TRUE) : s \in {"tuple", "any"}}
      \cup {CommandLine("any", TRUE, FALSE, FALSE), CommandLine("tuple", TRUE, TRUE, FALSE)}
=============================================================================
