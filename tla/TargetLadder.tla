---------------------------- MODULE TargetLadder ----------------------------
(***************************************************************************)
(* What the tier machine of docs/ARCHITECTURE.md section 5 promises of     *)
(* every native-coverage point, without the campaign loop around it.  A    *)
(* point starts on rung 0; at most one point is being worked on; work that *)
(* fails moves the point one rung up, or closes it when it stands on the   *)
(* top rung.  Points on padded signals may be closed after any failed      *)
(* rung (the narrow-effective rule), and points may be closed unattempted  *)
(* by pruning (dead signals, the per-register budget).  Nothing that is    *)
(* hit or closed is ever worked on again.                                  *)
(* Campaign.tla implements this module.                                    *)
(***************************************************************************)
EXTENDS Naturals

CONSTANTS Points,     \* the native-coverage universe
          Padded,     \* points the narrow-effective rule can apply to
          Top,        \* the most expensive rung
          NoPoint     \* nobody is being worked on

VARIABLES rung,       \* rung[p]: the budget the next call on p gets
          hit,        \* points the simulator has reported covered
          closed,     \* points retired from target selection
          busy        \* the point being solved, replayed or judged

lvars == <<rung, hit, closed, busy>>

LInit == /\ rung = [p \in Points |-> 0]
         /\ hit \in SUBSET Points
         /\ closed = {}
         /\ busy = NoPoint

(* Coverage arrives and points are pruned at any time, also under a call.  *)
Observe == /\ hit' \in SUBSET Points /\ hit \subseteq hit'
           /\ closed' \in SUBSET Points /\ closed \subseteq closed'
           /\ UNCHANGED <<rung, busy>>

Start(p) == /\ busy = NoPoint
            /\ p \notin hit \cup closed
            /\ busy' = p
            /\ UNCHANGED <<rung, hit, closed>>

(* The work paid off: the point stays where it is.                         *)
Succeed == /\ busy # NoPoint
           /\ busy' = NoPoint
           /\ UNCHANGED <<rung, hit, closed>>

Climb == /\ busy \in Points
         /\ rung[busy] < Top
         /\ rung' = [rung EXCEPT ![busy] = @ + 1]
         /\ busy' = NoPoint
         /\ UNCHANGED <<hit, closed>>

Close == /\ busy \in Points
         /\ rung[busy] = Top \/ busy \in Padded
         /\ closed' = closed \cup {busy}
         /\ busy' = NoPoint
         /\ UNCHANGED <<rung, hit>>

LNext == \/ Observe
         \/ \E p \in Points : Start(p)
         \/ Succeed
         \/ Climb
         \/ Close

LSpec == LInit /\ [][LNext]_lvars
=============================================================================
