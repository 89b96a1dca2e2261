---------------------------- MODULE MC_Campaign ----------------------------
(* Small instances of Campaign.tla.  A design is a record of its points,   *)
(* goals and signals; each run picks one.                                  *)
EXTENDS Campaign, TLC

CONSTANTS up, down, net, cond, up2, \* points
          g1,                  \* a goal
          reg, wire            \* signals

(* A register with a rising and a falling bit, a wire and a line of source. *)
FlopKind == (up :> "rise") @@ (down :> "fall") @@ (net :> "wire") @@ (cond :> "line")
FlopSig  == (up :> reg) @@ (down :> reg) @@ (net :> wire) @@ (cond :> NoTarget) @@ (g1 :> reg)
FlopKey  == [p \in {up, down, net, cond} |-> p]
NoSiblings == [p \in {up, down, net, cond} |-> {}]

(* Four bins that share the name of a submodule register: two hierarchical *)
(* names of one register bit, a wire of it, and a bin outside the design.  *)
Pad == {up, up2, net, down}
PadKind == (up :> "rise") @@ (up2 :> "rise") @@ (net :> "wire") @@ (down :> "alien")
PadSig  == [p \in Pad \cup {g1} |-> reg]
PadKey  == (up :> up) @@ (up2 :> up) @@ (net :> net) @@ (down :> down)
PadSiblings == [p \in Pad |-> Pad]

(* Two hierarchical names of one register bit, and a line of source.       *)
EndsKind == (up :> "rise") @@ (up2 :> "rise") @@ (cond :> "line")
EndsSig  == (up :> reg) @@ (up2 :> reg) @@ (cond :> NoTarget) @@ (g1 :> reg)
EndsKey  == (up :> up) @@ (up2 :> up) @@ (cond :> cond)
EndsSiblings == (up :> {up, up2}) @@ (up2 :> {up, up2}) @@ (cond :> {})

(* One falling bit.                                                        *)
DownKind == down :> "fall"
DownSig  == (down :> reg) @@ (g1 :> reg)
DownKey  == down :> down
DownSiblings == down :> {}
=============================================================================
