------------------------- MODULE MC_RegisterTargets -------------------------
(* Small instances of RegisterTargets.tla.  The patterns are computed as   *)
(* the code does: all ones, 0101..., 1010... cut to the register's width.  *)
EXTENDS RegisterTargets

LowPattern[n \in Nat] == IF n < 2 THEN 0 ELSE 1 + 4 * LowPattern[n \div 4]
ProbePatterns ==
    [r \in Regs |-> <<Space[r] - 1, LowPattern[Space[r]], Space[r] - 1 - LowPattern[Space[r]]>>]
SpaceOfThree == <<4, 2, 2>>
SpaceOfTwo == <<2, 2>>
ResetToTwo == <<2, 0, 1>>
ResetToZero == <<0, 0>>
Rtl(kinds, port) == [kind |-> kinds, resetPort |-> port]
Mixed == {Rtl(<<"reset", "folded", "missing">>, TRUE),
          Rtl(<<"folded", "reset", "reset">>, TRUE),
          Rtl(<<"missing", "holds", "follows">>, TRUE),
          Rtl(<<"folded", "reset", "missing">>, FALSE)}
StubAndFlop == {Rtl(<<"reset", "folded">>, TRUE)}
=============================================================================
