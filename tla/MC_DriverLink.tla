--------------------------- MODULE MC_DriverLink ---------------------------
(* Instances of DriverLink: both backends, with and without coverage, and  *)
(* designs with signals that are called step or reset.                     *)
EXTENDS DriverLink

Verilator(c) == [backend |-> "verilator", coverage |-> c, inputs |-> {}, registers |-> {"step"}]
Xsim(i, r) == [backend |-> "xsim", coverage |-> TRUE, inputs |-> i, registers |-> r]

BothBackends ==
    {Verilator(c) : c \in BOOLEAN}
    \cup {Xsim({}, {}), Xsim({"step"}, {}), Xsim({"reset"}, {"step"}), Xsim({}, {"reset"})}
=============================================================================
