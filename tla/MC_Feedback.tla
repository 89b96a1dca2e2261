----------------------------- MODULE MC_Feedback -----------------------------
(* Small instances of Feedback.tla, and value_classes.py over all values   *)
(* of all widths up to MaxWidth.                                           *)
EXTENDS Feedback

CONSTANTS MaxWidth, p1

OneBitEach == [p \in Ports |-> 1]
LabelOne == [p \in Ports |-> IF p = "op" THEN {1} ELSE {}]

(* representative_value, docstring: the class is the one asked for.  It    *)
(* is, for the classes a width has, but for powers of two below 16.        *)
HasClass(c, w) == \E v \in 0..Ones(w) : Classify(v, w) = c
ASSUME RepresentativesFit ==
    \A w \in 1..MaxWidth, c \in Classes \ {6, 7, 8} :
        HasClass(c, w) => \A v \in Representatives(c, w) : Classify(v, w) = c

(* A power of two may come out as one or as a small value; an alternating  *)
(* value as a small one at width five; nothing else.                       *)
ASSUME PowersMayBeSmall ==
    \A w \in 5..MaxWidth :
        /\ {Classify(v, w) : v \in Representatives(6, w)} \subseteq {1, 2, 6}
        /\ {Classify(v, w) : v \in Representatives(7, w)} \subseteq {2, 7}

(* Below five bits everything is zero, one or small.                       *)
ASSUME NarrowClasses ==
    \A w \in 1..4 : \A v \in 0..Ones(w) : Classify(v, w) \in 0..2
=============================================================================
