------------------------------- MODULE Corpus -------------------------------
(***************************************************************************)
(* The checkpoint corpus: which input path is stored for which register    *)
(* state, and whether replaying the path gets back to the state.           *)
(* CorpusStore (add_entry, restore, eviction) is composed with the parts   *)
(* of Orchestrator that drive the simulator and keep current_path: random  *)
(* batches, mutation bursts, BMC replays, witness mutations and seeds,     *)
(* forcing, and a restart of the campaign on the same database.            *)
(*                                                                         *)
(* The design is an arbitrary deterministic machine over abstract states   *)
(* and inputs.  A reset is a run of clock cycles with the reset asserted:  *)
(* registers without a reset clause, and all of them where there is no     *)
(* reset port, go on from where they are, so what it leaves depends on the *)
(* state it is applied in (and on inputs, hence a set).  A path is kept    *)
(* uncompressed (run-length encoding is lossless); restoring it is a       *)
(* replay after a reset (tier 1): the .wdb tier is unreachable, the        *)
(* constructor downgrades the modes that use it.                           *)
(***************************************************************************)
EXTENDS Naturals, Sequences, FiniteSets, DesignRuns

CONSTANTS States, Inputs,
          Designs,      \* RTL revisions: what a cycle does, what a reset may leave
          ZeroState,    \* after force(zero_state)
          BatchSize, BurstSize,
          Settings,     \* what may happen in a history, see setting
          MaxPath       \* bound on the length of current_path

ASSUME CorpusAssumption ==
    /\ Designs # {}
    /\ Designs \subseteq [next : [States \X Inputs -> States],
                          reset : [States -> (SUBSET States) \ {{}}]]
    /\ ZeroState \in States
    /\ BatchSize \in Nat \ {0} /\ BurstSize \in Nat \ {0} /\ MaxPath \in Nat
    /\ Settings \subseteq SUBSET {"replays", "mutates", "forces", "breaks"}

VARIABLES
    phase,    \* "off" between campaigns, "seed", "run", "burst" after a restore
    design,   \* the RTL the simulator was built from
    sim,      \* register state of the simulator
    path,     \* current_path, and (history) the state it was begun in
    visited,  \* table visited_states
    corpus,   \* table corpus_entries: state -> stored path
    setting,  \* which of the four below may happen in this history
    clean     \* history: no Untidy step so far

vars == <<phase, design, sim, path, visited, corpus, setting, clean>>

Replays == "replays" \in setting \* a BMC replay
Mutates == "mutates" \in setting \* mutation_rate > 0
Forces  == "forces" \in setting  \* the corpus pre-check forces a recorded state
Breaks  == "breaks" \in setting  \* step_trace fails half-way, or the process dies

(* A path of inputs that was begun in a state, and one more batch on it.   *)
Begun(from) == [from |-> from, inputs |-> <<>>]
Longer(p, inputs) == [p EXCEPT !.inputs = @ \o inputs]

(* The states driver.reset may leave, whatever came before it.             *)
AfterReset == UNION {design.reset[s] : s \in States}

(* The state a path leads to and the ones it passes through, on the design *)
(* of today, from where it was begun.                                      *)
End(p) == Run(design.next, p.from, p.inputs)
On(p)  == Through(design.next, p.from, p.inputs)

(* The process is gone, and the simulator and current_path with it.        *)
Leave == phase' = "off" /\ sim' = ZeroState /\ path' = Begun(ZeroState)

(* The batches of n inputs, as far as step_trace may execute them.         *)
Batches(n) == UNION {[1..k -> Inputs] : k \in (IF Breaks THEN 0 ELSE n)..n}

Init == /\ phase = "off"
        /\ design \in Designs
        /\ sim = ZeroState
        /\ path = Begun(ZeroState)
        /\ visited = {}
        /\ corpus = <<>>
        /\ setting \in Settings /\ clean = TRUE
-----------------------------------------------------------------------------
(* CorpusStore *)

(* Broken variant: an empty path is stored too.                            *)
AddEmpty(rows, new, p) ==
    [h \in DOMAIN rows \cup new |->
        IF h \in new /\ (h \notin DOMAIN rows \/ Len(rows[h].inputs) > Len(p.inputs))
        THEN p ELSE rows[h]]

(* add_entry for a set of states, all with the same path: the shorter path *)
(* wins, an empty path is not stored.                                      *)
Keeps(rows, h, p) == h \in DOMAIN rows /\ Len(rows[h].inputs) <= Len(p.inputs)
Add(rows, new, p) ==
    IF p.inputs = <<>> THEN rows
    ELSE [h \in DOMAIN rows \cup new |->
             IF h \in new /\ ~Keeps(rows, h, p) THEN p ELSE rows[h]]

Evict(h) == [g \in DOMAIN corpus \ {h} |-> corpus[g]]

(* restore: reset, replay, and what _verify_and_evict_on_mismatch compares *)
Restored(h, r) == Run(design.next, r, corpus[h].inputs)
Verified(h, r) == Restored(h, r) = h

Deepest == {h \in DOMAIN corpus :
               \A g \in DOMAIN corpus : Len(corpus[h].inputs) >= Len(corpus[g].inputs)}
-----------------------------------------------------------------------------
(* Orchestrator *)

(* _record for each state of a batch that _batch_step_and_track has driven *)
(* at the end of a path: the whole batch is on current_path before the     *)
(* first state is recorded.  If a poll follows and shows new points, the   *)
(* state reached is offered as a native entry.                             *)
Record(start, before, inputs, polls) ==
    LET new == Through(design.next, start, inputs) \ visited
    IN  /\ Len(before.inputs) + Len(inputs) <= MaxPath
        /\ visited' = visited \cup new
        /\ \E native \in BOOLEAN :
              /\ native => polls
              /\ corpus' = Add(corpus,
                               new \cup (IF native THEN {Run(design.next, start, inputs)} ELSE {}),
                               Longer(before, inputs))

Drive(start, before, inputs, polls) ==
    /\ Record(start, before, inputs, polls)
    /\ sim' = Run(design.next, start, inputs) /\ path' = Longer(before, inputs)

(* Broken variant: the entry is committed before the state.                *)
DiesEntryFirst(start, before, inputs) ==
    LET new == Through(design.next, start, inputs) \ visited
    IN  /\ Breaks /\ Leave
        /\ Len(before.inputs) + Len(inputs) <= MaxPath
        /\ \E stored \in SUBSET new, last \in SUBSET new :
              /\ Cardinality(last) <= 1
              /\ visited' = visited \cup (stored \ last)
              /\ corpus' = Add(corpus, stored, Longer(before, inputs))

(* The campaign dies while it records a batch, or when it has recorded     *)
(* what a broken one reached.  record_state and add_entry commit one after *)
(* the other: the last state may be left without its entry.                *)
Dies(start, before, inputs) ==
    LET new == Through(design.next, start, inputs) \ visited
    IN  /\ Breaks /\ Leave
        /\ Len(before.inputs) + Len(inputs) <= MaxPath
        /\ \E stored \in SUBSET new, last \in SUBSET new :
              /\ Cardinality(last) <= 1
              /\ visited' = visited \cup stored
              /\ corpus' = Add(corpus, stored \ last, Longer(before, inputs))

(* A broken random batch, burst or BMC replay raises and ends run(), after *)
(* the states that were reached have been recorded.                        *)
DriveOrLeave(start, before, n, polls) ==
    \/ \E inputs \in [1..n -> Inputs] : Drive(start, before, inputs, polls) /\ phase' = "run"
    \/ \E inputs \in Batches(n) : Dies(start, before, inputs)

(* A broken seed run or mutated witness is logged, and the loop goes on.   *)
DriveOn(start, before) ==
    \E inputs \in Batches(BatchSize) :
        \/ Drive(start, before, inputs, FALSE) /\ UNCHANGED phase
        \/ Dies(start, before, inputs)

(* A new campaign on the database: resume from the deepest entry, or start *)
(* from reset when there is none or it does not verify; with or without    *)
(* seeds to follow.                                                        *)
StartFresh(rows) ==
    /\ \E r \in AfterReset :
          /\ sim' = r /\ path' = Begun(r)
          /\ visited' = visited \cup {r}
          /\ corpus' = Add(rows, {r} \ visited, Begun(r))
    /\ phase' \in {"seed", "run"}

Start ==
    /\ phase = "off"
    /\ UNCHANGED design
    /\ IF corpus = <<>> THEN StartFresh(corpus)
       ELSE \E h \in Deepest, r \in AfterReset :
              \/ /\ Verified(h, r)
                 /\ sim' = h /\ path' = [from |-> r, inputs |-> corpus[h].inputs]
                 /\ visited' = visited \cup {h}
                 /\ phase' = "run"
                 /\ UNCHANGED corpus
              \/ ~Verified(h, r) /\ StartFresh(Evict(h))
              \/ Breaks /\ StartFresh(corpus)

(* Broken variant: a seed run does not clear the path.                     *)
SeedRunAppending ==
    /\ phase = "seed"
    /\ \E r \in design.reset[sim] : DriveOn(r, path)
    /\ UNCHANGED design

(* _run_seed_stimuli: every seed run starts from a reset.                  *)
SeedRun ==
    /\ phase = "seed"
    /\ \E r \in design.reset[sim] : DriveOn(r, Begun(r))
    /\ UNCHANGED design

(* The poll after the seeds may add a native entry; then a reset.          *)
SeedsDone ==
    /\ phase = "seed" /\ phase' = "run"
    /\ corpus' \in {corpus, Add(corpus, {sim}, path)}
    /\ \E r \in design.reset[sim] : sim' = r /\ path' = Begun(r)
    /\ UNCHANGED <<design, visited>>

RandomBatch ==
    /\ phase = "run"
    /\ DriveOrLeave(sim, path, BatchSize, TRUE)
    /\ UNCHANGED design

(* Broken variant: current_path is not set to the path of the seed.        *)
RestoreSeedOnly ==
    /\ phase = "run" /\ Mutates
    /\ \E h \in DOMAIN corpus, r \in design.reset[sim] : Verified(h, r) /\ sim' = h
    /\ phase' = "burst"
    /\ UNCHANGED <<design, path, visited, corpus>>

(* _mutation_step up to the burst.                                         *)
RestoreSeed ==
    /\ phase = "run" /\ Mutates
    /\ \E h \in DOMAIN corpus, r \in design.reset[sim] :
          /\ Verified(h, r)
          /\ sim' = h /\ path' = [from |-> r, inputs |-> corpus[h].inputs]
    /\ phase' = "burst"
    /\ UNCHANGED <<design, visited, corpus>>

(* When the restore fails the step is abandoned: the simulator has been    *)
(* reset and driven, current_path has not followed it.                     *)
RestoreFails ==
    /\ phase = "run" /\ Mutates
    /\ \E h \in DOMAIN corpus, r \in design.reset[sim] :
          \/ ~Verified(h, r) /\ sim' = Restored(h, r) /\ corpus' = Evict(h)
          \/ /\ Breaks
             /\ \E k \in 0..Len(corpus[h].inputs) :
                   sim' = Trajectory(design.next, r, corpus[h].inputs)[k]
             /\ UNCHANGED corpus
    /\ UNCHANGED <<phase, design, path, visited>>

(* havoc draws 1 to mutation_burst inputs, splice may draw none.           *)
MutationBurst ==
    /\ phase = "burst"
    /\ \E n \in 0..BurstSize : DriveOrLeave(sim, path, n, FALSE)
    /\ UNCHANGED design

(* Broken variant: the replay's inputs are appended to the old path.       *)
ReplayAppending(from) ==
    /\ phase = "run" /\ Replays
    /\ \E n \in 0..BatchSize : DriveOrLeave(from, path, n, TRUE)
    /\ UNCHANGED design

(* A BMC witness of any number of cycles, none included, is replayed from  *)
(* the forced zero state, or from what the reset left when the force       *)
(* fails.                                                                  *)
Replay(from) ==
    /\ phase = "run" /\ Replays
    /\ \E n \in 0..BatchSize : DriveOrLeave(from, Begun(from), n, TRUE)
    /\ UNCHANGED design

(* A mutated witness is replayed from a reset; an error is logged.         *)
MutatedWitness ==
    /\ phase = "run" /\ Replays
    /\ \E r \in design.reset[sim] : DriveOn(r, Begun(r))
    /\ UNCHANGED design

(* The corpus pre-check forces a recorded state.  What the simulator makes *)
(* of it is read back and recorded with current_path, which knows nothing  *)
(* of the force; a force that fails leaves some registers set.             *)
ForceMatch ==
    /\ phase = "run" /\ Forces /\ visited # {}
    /\ sim' \in States
    /\ \/ visited' = visited \cup {sim'} /\ corpus' = Add(corpus, {sim'} \ visited, path)
       \/ UNCHANGED <<visited, corpus>>
    /\ UNCHANGED <<phase, design, path>>

(* The campaign ends or dies.                                              *)
Stop ==
    /\ phase # "off" /\ Leave
    /\ UNCHANGED <<design, visited, corpus>>

(* The RTL is edited and the simulator rebuilt between two campaigns.      *)
EditRtl ==
    /\ phase = "off"
    /\ design' \in Designs \ {design}
    /\ UNCHANGED <<phase, sim, path, visited, corpus>>

(* Steps after which current_path or an entry may no longer lead where it  *)
(* says, and all the others.                                               *)
Untidy == \/ RestoreFails \/ ForceMatch \/ EditRtl
          \/ ZeroState \notin AfterReset /\ Replay(ZeroState)
Tidy == \/ Start \/ SeedRun \/ SeedsDone \/ RandomBatch \/ RestoreSeed \/ MutationBurst
        \/ \E from \in design.reset[sim] \cup ({ZeroState} \cap AfterReset) : Replay(from)
        \/ MutatedWitness \/ Stop

Next == /\ UNCHANGED setting
        /\ \/ Tidy /\ UNCHANGED clean
           \/ Untidy /\ clean' = FALSE

Spec == Init /\ [][Next]_vars
-----------------------------------------------------------------------------
(* Properties *)

(* Types of the tables and of the path.                                    *)
Paths == [from : States, inputs : Seq(Inputs)]
TypeOK ==
    /\ phase \in {"off", "seed", "run", "burst"}
    /\ design \in Designs
    /\ sim \in States
    /\ path \in Paths /\ clean \in BOOLEAN /\ setting \in Settings
    /\ visited \subseteq States
    /\ DOMAIN corpus \subseteq States
    /\ \A h \in DOMAIN corpus : corpus[h] \in Paths /\ corpus[h].inputs # <<>>

(* The two tables agree: an entry is for a state that was recorded, though *)
(* native entries are added by another way than recorded states, and the   *)
(* process may die between the commit to one table and to the other.       *)
EntriesVisited == DOMAIN corpus \subseteq visited

(* Bursts heal: whatever wrong paths the corpus holds (an edited RTL, a    *)
(* forced or half-restored simulator), an entry written by a burst passes  *)
(* through its state on the RTL of today, from the reset it was begun      *)
(* after.                                                                  *)
BurstsWriteTruePaths ==
    [][phase = "burst" =>
         \A h \in DOMAIN corpus' :
             \/ h \in DOMAIN corpus /\ corpus'[h] = corpus[h]
             \/ corpus'[h].from \in AfterReset /\ h \in On(corpus'[h])]_vars

(* Orchestrator, comment on current_path: "RLE log of inputs applied since *)
(* the last reset/restore": from what that reset left they lead to the     *)
(* simulator's state.  True until a restore fails, a state is forced, a    *)
(* witness is replayed from a state no reset leaves or the RTL is edited.  *)
PathReproduces == clean /\ phase # "off" => path.from \in AfterReset /\ End(path) = sim

(* Entries of a clean history are not lost: replaying one after the reset  *)
(* it was recorded after passes through its state, whoever recorded it.    *)
EntriesPassThrough ==
    clean => \A h \in DOMAIN corpus : corpus[h].from \in AfterReset /\ h \in On(corpus[h])

(* README, features: "visited-state corpus with lossless input logs,       *)
(* deterministic replay": a restore attempted now, from wherever the       *)
(* simulator has got to, passes through the state of the entry, in a       *)
(* design whose reset leaves one state.  Where it does not, a stored path  *)
(* starts from a state the restore need not reset to.                      *)
Resettable == \E one \in States : \A s \in States : design.reset[s] = {one}
ReplayIsDeterministic ==
    clean /\ phase = "run" /\ Resettable =>
        \A h \in DOMAIN corpus, r \in design.reset[sim] :
            h \in Through(design.next, r, corpus[h].inputs)
=============================================================================
