---------------------------- MODULE MC_BmcSearch ----------------------------
(***************************************************************************)
(* Small designs for BmcSearch.  Without an asynchronous reset: a counter  *)
(* that counts when the input is 1, a lock that opens on 1 then 0, one     *)
(* that stays in the state it enters first, and the counter with an        *)
(* initial value that is not zero.  With one, on the input 1: a counter,   *)
(* one that is reset to 1, and one of whose two flags the reset clears.    *)
(* The wire is a decoded state, gated by the input.                        *)
(***************************************************************************)
EXTENDS BmcSearch

Three == {0, 1, 2}
Pairs == Three \X {0, 1}

Design(next, rst, clear, init) ==
    [next |-> next, wire |-> [p \in Pairs |-> p[1] = 2 /\ p[2] = 1],
     rst |-> rst, clear |-> clear, init |-> init]
Plain(next)        == Design(next, {}, [s \in Three |-> s], Three)
Reset(next, clear) == Design(next, {1}, clear, Three)

Count   == [p \in Pairs |-> (p[1] + p[2]) % 3]
Forward == [p \in Pairs |-> (p[1] + 1) % 3]

Counter == Plain(Count)
Lock    == Plain([p \in Pairs |-> IF p = <<0, 1>> THEN 1 ELSE IF p = <<1, 0>> THEN 2 ELSE 0])
Latch   == Plain([p \in Pairs |-> IF p[1] = 0 THEN p[2] ELSE p[1]])
Initial == Design(Count, {}, [s \in Three |-> s], {1})
ToZero  == Reset(Forward, [s \in Three |-> 0])
ToOne   == Reset(Forward, [s \in Three |-> 1])
OneFlag == Reset(Forward, [s \in Three |-> IF s = 2 THEN 0 ELSE s])

AllDesigns == {Counter, Lock, Latch, Initial, ToZero, ToOne, OneFlag}

FlopGoals  == {[sort |-> "flop", want |-> w] : w \in {{2}, {0, 1}, {1}}}
ValueGoals == {[sort |-> "value", want |-> w] : w \in {{0}, {2}}}
WireGoals  == {[sort |-> s, val |-> TRUE] : s \in {"wire", "bus"}}

AllGoals == FlopGoals \cup ValueGoals \cup WireGoals

ShortTiers == <<3, 6>>
=============================================================================
