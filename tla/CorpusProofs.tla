---------------------------- MODULE CorpusProofs ----------------------------
(***************************************************************************)
(* Theorems about Corpus.tla, for every design, whatever its reset leaves, *)
(* every batch and burst size and length of path: what the store and       *)
(* current_path are worth as long as no restore failed, nothing was forced *)
(* and the RTL is the same; that a burst writes true paths whatever        *)
(* happened before it; and on which designs a replay is deterministic.     *)
(***************************************************************************)
EXTENDS Corpus, DesignRunsProofs

(* During the seeds the state the poll after them may store was recorded.  *)
SeedSeen == phase = "seed" /\ path.inputs # <<>> => sim \in visited

(* A burst starts from a verified entry, and nothing comes between the     *)
(* two, also when the campaign is not clean.                               *)
BurstReproduces == phase = "burst" => path.from \in AfterReset /\ End(path) = sim

(* The inductive invariant.                                                *)
IInv == /\ TypeOK /\ EntriesVisited /\ SeedSeen
        /\ PathReproduces /\ EntriesPassThrough /\ BurstReproduces

Path == Seq(Inputs)

(* A path that is true of the design of today.                             *)
Leads(p, s) == p.from \in AfterReset /\ End(p) = s

-----------------------------------------------------------------------------
(* What the operators of the specification return *)

LEMMA BatchIsPath ==
    ASSUME NEW n \in Nat, NEW inputs \in Batches(n)
    PROVE  inputs \in Path
  <1>1. PICK k \in (IF Breaks THEN 0 ELSE n)..n : inputs \in [1..k -> Inputs]
    BY DEF Batches
  <1>2. k \in Nat
    BY <1>1
  <1> QED
    BY <1>1, <1>2 DEF Path

(* A path with a batch on it.                                              *)
LEMMA LongerIs ==
    ASSUME NEW p \in Paths, NEW inputs \in Path
    PROVE  /\ Longer(p, inputs) \in Paths
           /\ Longer(p, inputs).from = p.from
           /\ Longer(p, inputs).inputs = p.inputs \o inputs
  <1> DEFINE all == p.inputs \o inputs
  <1>1. all \in Seq(Inputs) /\ p.from \in States
    BY ConcatProperties DEF Path, Paths
  <1>2. Longer(p, inputs) = [p EXCEPT !.inputs = all]
    BY DEF Longer
  <1> HIDE DEF all
  <1>3. [p EXCEPT !.inputs = all] = [from |-> p.from, inputs |-> all]
    BY DEF Paths
  <1> QED
    BY <1>1, <1>2, <1>3 DEF Paths, all

LEMMA BegunIs ==
    ASSUME NEW s \in States
    PROVE  Begun(s) \in Paths /\ Begun(s).inputs = <<>> /\ Begun(s).from = s /\ End(Begun(s)) = s
  <1>1. Begun(s) \in Paths /\ Begun(s).inputs = <<>> /\ Begun(s).from = s
    BY DEF Begun, Paths
  <1>2. Run(design.next, s, <<>>) = s
    BY RunOfNone
  <1> QED
    BY <1>1, <1>2 DEF End

(* add_entry gives some of the states the path and leaves the others.      *)
LEMMA AddIs ==
    ASSUME NEW rows, NEW new, NEW p \in Paths
    PROVE  /\ DOMAIN Add(rows, new, p) \subseteq DOMAIN rows \cup new
           /\ \A h \in DOMAIN Add(rows, new, p) :
                 \/ h \in DOMAIN rows /\ Add(rows, new, p)[h] = rows[h]
                 \/ h \in new /\ p.inputs # <<>> /\ Add(rows, new, p)[h] = p
  <1>1. CASE p.inputs = <<>>
    BY <1>1 DEF Add
  <1>2. CASE p.inputs # <<>>
    <2> DEFINE a == [h \in DOMAIN rows \cup new |->
                        IF h \in new /\ ~Keeps(rows, h, p) THEN p ELSE rows[h]]
    <2>1. Add(rows, new, p) = a
      BY <1>2 DEF Add
    <2>2. \A h \in DOMAIN rows \cup new :
             \/ h \in DOMAIN rows /\ a[h] = rows[h]
             \/ h \in new /\ a[h] = p
      BY DEF Keeps
    <2> QED
      BY <1>2, <2>1, <2>2
  <1> QED
    BY <1>1, <1>2

(* A design, and what a reset may leave.                                   *)
LEMMA DesignIs ==
    ASSUME TypeOK
    PROVE  /\ design.next \in [States \X Inputs -> States]
           /\ AfterReset \subseteq States
           /\ \A s \in States : design.reset[s] \subseteq AfterReset
  <1>1. design \in [next : [States \X Inputs -> States],
                    reset : [States -> (SUBSET States) \ {{}}]]
    BY CorpusAssumption DEF TypeOK
  <1>2. design.next \in [States \X Inputs -> States]
    BY <1>1
  <1>3. design.reset \in [States -> (SUBSET States) \ {{}}]
    BY <1>1
  <1>4. \A s \in States : design.reset[s] \subseteq States
    BY <1>3
  <1> QED
    BY <1>2, <1>4 DEF AfterReset

(* The states a run ends in and passes through are states.                 *)
LEMMA DesignRun ==
    ASSUME TypeOK, NEW from \in States, NEW inputs \in Path
    PROVE  /\ Run(design.next, from, inputs) \in States
           /\ Through(design.next, from, inputs) \subseteq States
  <1>1. design.next \in [States \X Inputs -> States]
    BY DesignIs
  <1> QED
    BY <1>1, RunType DEF Path

(* When the path before leads to where a batch started, the path with the  *)
(* batch leads to where the batch ends, and through what it went through.  *)
LEMMA WholePath ==
    ASSUME NEW before \in Paths, NEW inputs \in Path, NEW start, End(before) = start
    PROVE  /\ End(Longer(before, inputs)) = Run(design.next, start, inputs)
           /\ Through(design.next, start, inputs) \subseteq On(Longer(before, inputs))
  <1>1. before.inputs \in Seq(Inputs) /\ inputs \in Seq(Inputs)
    BY DEF Paths, Path
  <1>2. Run(design.next, before.from, before.inputs) = start
    BY DEF End
  <1>3. /\ Run(design.next, before.from, before.inputs \o inputs) = Run(design.next, start, inputs)
        /\ Through(design.next, start, inputs) \subseteq
              Through(design.next, before.from, before.inputs \o inputs)
    BY <1>1, <1>2, RunConcat
  <1> QED
    BY <1>3, LongerIs DEF End, On

(* What does not change the design does not change what paths lead to.     *)
LEMMA SameDesign ==
    ASSUME UNCHANGED design
    PROVE  AfterReset' = AfterReset
  BY DEF AfterReset

-----------------------------------------------------------------------------
(* Recording and driving *)

(* What a batch leaves in the two tables: an entry is as it was, or it is  *)
(* for a state the batch passed through, with the whole path.              *)
Recorded(start, before, inputs) ==
    /\ visited \subseteq visited' /\ visited' \subseteq States
    /\ DOMAIN corpus' \subseteq visited'
    /\ \A h \in DOMAIN corpus' :
          \/ h \in DOMAIN corpus /\ corpus'[h] = corpus[h]
          \/ /\ h \in Through(design.next, start, inputs)
             /\ corpus'[h] = Longer(before, inputs) /\ corpus'[h].inputs # <<>>

(* Storing the path for some of the states a batch went through, all of    *)
(* which are recorded.                                                     *)
LEMMA StoreWrites ==
    ASSUME TypeOK, EntriesVisited, NEW start \in States, NEW before \in Paths,
           NEW inputs \in Path, NEW stored, NEW kept \in SUBSET Through(design.next, start, inputs),
           visited' = visited \cup kept,
           stored \subseteq Through(design.next, start, inputs),
           stored \subseteq visited',
           corpus' = Add(corpus, stored, Longer(before, inputs))
    PROVE  Recorded(start, before, inputs)
  <1> DEFINE p == Longer(before, inputs)
             through == Through(design.next, start, inputs)
  <1>1. p \in Paths
    BY LongerIs
  <1>2. through \subseteq States
    BY DesignRun
  <1> HIDE DEF p, through
  <1>3. /\ DOMAIN corpus' \subseteq DOMAIN corpus \cup stored
        /\ \A h \in DOMAIN corpus' :
              \/ h \in DOMAIN corpus /\ corpus'[h] = corpus[h]
              \/ h \in stored /\ p.inputs # <<>> /\ corpus'[h] = p
    BY <1>1, AddIs DEF p
  <1>4. visited \subseteq visited' /\ visited' \subseteq States
    BY <1>2 DEF TypeOK, through
  <1>5. DOMAIN corpus' \subseteq visited'
    BY <1>3, <1>4 DEF EntriesVisited
  <1>6. \A h \in DOMAIN corpus' :
           \/ h \in DOMAIN corpus /\ corpus'[h] = corpus[h]
           \/ h \in through /\ corpus'[h] = p /\ corpus'[h].inputs # <<>>
    BY <1>3 DEF through
  <1> QED
    BY <1>4, <1>5, <1>6 DEF Recorded, p, through

LEMMA RecordWrites ==
    ASSUME TypeOK, EntriesVisited, NEW start \in States, NEW before \in Paths,
           NEW inputs \in Path, NEW polls \in BOOLEAN,
           polls => inputs # <<>> \/ before.inputs = <<>>,
           Record(start, before, inputs, polls)
    PROVE  /\ Recorded(start, before, inputs)
           /\ Through(design.next, start, inputs) \subseteq visited'
  <1> DEFINE p == Longer(before, inputs)
             through == Through(design.next, start, inputs)
             new == through \ visited
  <1>1. PICK native \in BOOLEAN :
           /\ native => polls
           /\ corpus' = Add(corpus, new \cup (IF native THEN {Run(design.next, start, inputs)} ELSE {}), p)
    BY DEF Record
  <1> DEFINE all == new \cup (IF native THEN {Run(design.next, start, inputs)} ELSE {})
  <1>2. visited' = visited \cup new
    BY DEF Record
  <1>3. CASE inputs = <<>> /\ before.inputs = <<>>
    <2>1. <<>> \o <<>> = <<>>
      BY ConcatEmptySeq, EmptySeq
    <2>2. p.inputs = <<>>
      BY <1>3, <2>1, LongerIs
    <2>3. corpus' = corpus
      BY <1>1, <2>2 DEF Add
    <2>4. through = {}
      BY <1>3, RunOfNone
    <2>5. visited' = visited
      BY <1>2, <2>4
    <2> QED
      BY <2>3, <2>4, <2>5 DEF Recorded, TypeOK, EntriesVisited
  <1>4. CASE ~(inputs = <<>> /\ before.inputs = <<>>)
    <2>1. native => inputs # <<>>
      BY <1>1, <1>4
    <2>2. native => Run(design.next, start, inputs) \in through
      BY <2>1, RunEndsThrough DEF Path
    <2>3. all \subseteq through
      BY <2>2
    <2>4. all \subseteq visited' /\ through \subseteq visited'
      BY <1>2, <2>3
    <2>5. corpus' = Add(corpus, all, Longer(before, inputs))
      BY <1>1
    <2>6. new \in SUBSET through /\ visited' = visited \cup new
      BY <1>2
    <2> HIDE DEF all, new
    <2>7. Recorded(start, before, inputs)
      BY <2>3, <2>4, <2>5, <2>6, StoreWrites
    <2> QED
      BY <2>4, <2>7
  <1> QED
    BY <1>3, <1>4

LEMMA DyingWrites ==
    ASSUME TypeOK, EntriesVisited, NEW start \in States, NEW before \in Paths,
           NEW inputs \in Path, Dies(start, before, inputs)
    PROVE  Recorded(start, before, inputs)
  <1>1. PICK stored \in SUBSET (Through(design.next, start, inputs) \ visited),
             last \in SUBSET (Through(design.next, start, inputs) \ visited) :
           /\ visited' = visited \cup stored
           /\ corpus' = Add(corpus, stored \ last, Longer(before, inputs))
    BY DEF Dies
  <1>2. /\ stored \in SUBSET Through(design.next, start, inputs)
        /\ stored \ last \subseteq Through(design.next, start, inputs)
        /\ stored \ last \subseteq visited'
    BY <1>1
  <1> QED
    BY <1>1, <1>2, StoreWrites

(* What recording does to the invariants about the tables.                 *)
Tables == /\ visited' \subseteq States /\ DOMAIN corpus' \subseteq States
          /\ \A h \in DOMAIN corpus' : corpus'[h] \in Paths /\ corpus'[h].inputs # <<>>
          /\ EntriesVisited' /\ EntriesPassThrough'

LEMMA TablesKept ==
    ASSUME TypeOK, EntriesPassThrough, UNCHANGED <<design, setting>>, clean' \in {clean, FALSE},
           NEW start \in States, NEW before \in Paths, NEW inputs \in Path,
           clean' => Leads(before, start),
           Recorded(start, before, inputs)
    PROVE  Tables
  <1>1. Longer(before, inputs) \in Paths /\ Longer(before, inputs).from = before.from
    BY LongerIs
  <1>2. \A h \in DOMAIN corpus' : corpus'[h] \in Paths /\ corpus'[h].inputs # <<>>
    BY <1>1 DEF TypeOK, Recorded
  <1>3. EntriesPassThrough'
    <2> SUFFICES ASSUME clean', NEW h \in DOMAIN corpus'
                 PROVE  corpus'[h].from \in AfterReset /\ h \in On(corpus'[h])
      BY SameDesign DEF EntriesPassThrough, On
    <2>1. CASE h \in DOMAIN corpus /\ corpus'[h] = corpus[h]
      BY <2>1 DEF EntriesPassThrough
    <2>2. CASE h \in Through(design.next, start, inputs) /\ corpus'[h] = Longer(before, inputs)
      BY <1>1, <2>2, WholePath DEF Leads
    <2> QED
      BY <2>1, <2>2 DEF Recorded
  <1> QED
    BY <1>2, <1>3 DEF Recorded, EntriesVisited, Tables

(* A batch driven on the path.                                             *)
LEMMA DriveKeeps ==
    ASSUME IInv, UNCHANGED <<design, setting>>, clean' \in {clean, FALSE},
           NEW start \in States, NEW before \in Paths, NEW inputs \in Path,
           NEW polls \in BOOLEAN, polls => inputs # <<>> \/ before.inputs = <<>>,
           clean' => Leads(before, start),
           Drive(start, before, inputs, polls),
           phase' = "run" \/ (phase' = "seed" /\ before.inputs = <<>>)
    PROVE  IInv'
  <1>1. /\ Recorded(start, before, inputs)
        /\ Through(design.next, start, inputs) \subseteq visited'
    BY RecordWrites DEF IInv, Drive
  <1>2. Tables
    BY <1>1, TablesKept DEF IInv
  <1>3. sim' = Run(design.next, start, inputs) /\ path' = Longer(before, inputs)
    BY DEF Drive
  <1>4. sim' \in States /\ path' \in Paths /\ path'.from = before.from
        /\ path'.inputs = before.inputs \o inputs
    BY <1>3, DesignRun, LongerIs DEF IInv
  <1>5. TypeOK'
    BY <1>2, <1>4 DEF IInv, TypeOK, Tables
  <1>6. SeedSeen'
    <2> SUFFICES ASSUME phase' = "seed", path'.inputs # <<>> PROVE sim' \in visited'
      BY DEF SeedSeen
    <2>1. <<>> \o <<>> = <<>>
      BY ConcatEmptySeq, EmptySeq
    <2>2. inputs # <<>>
      BY <1>4, <2>1
    <2> QED
      BY <1>1, <1>3, <2>2, RunEndsThrough DEF Path
  <1>7. PathReproduces'
    <2> SUFFICES ASSUME clean' PROVE path'.from \in AfterReset /\ End(path') = sim'
      BY SameDesign DEF PathReproduces, End
    <2> QED
      BY <1>3, <1>4, WholePath DEF Leads
  <1>8. BurstReproduces'
    BY DEF BurstReproduces
  <1> QED
    BY <1>2, <1>5, <1>6, <1>7, <1>8 DEF IInv, Tables

(* The process is gone; what it recorded stays.                            *)
LEMMA LeaveKeeps ==
    ASSUME IInv, UNCHANGED <<design, setting>>, clean' \in {clean, FALSE}, Leave, Tables
    PROVE  IInv'
  <1>1. ZeroState \in States
    BY CorpusAssumption
  <1>2. Begun(ZeroState) \in Paths
    BY <1>1, BegunIs
  <1>3. TypeOK'
    BY <1>1, <1>2 DEF IInv, TypeOK, Leave, Tables
  <1> QED
    BY <1>3 DEF IInv, Leave, Tables, SeedSeen, PathReproduces, BurstReproduces

LEMMA DiesKeeps ==
    ASSUME IInv, UNCHANGED <<design, setting>>, clean' \in {clean, FALSE},
           NEW start \in States, NEW before \in Paths, NEW inputs \in Path,
           clean' => Leads(before, start), Dies(start, before, inputs)
    PROVE  IInv'
  <1>1. Recorded(start, before, inputs)
    BY DyingWrites DEF IInv
  <1>2. Tables
    BY <1>1, TablesKept DEF IInv
  <1> QED
    BY <1>2, LeaveKeeps DEF Dies

(* A batch that may break, and take the campaign with it.                  *)
LEMMA DriveOrLeaveKeeps ==
    ASSUME IInv, UNCHANGED <<design, setting>>, clean' \in {clean, FALSE},
           NEW start \in States, NEW before \in Paths, NEW n \in Nat,
           NEW polls \in BOOLEAN, polls => n > 0 \/ before.inputs = <<>>,
           clean' => Leads(before, start),
           DriveOrLeave(start, before, n, polls)
    PROVE  IInv'
  <1>1. CASE \E inputs \in [1..n -> Inputs] : Drive(start, before, inputs, polls) /\ phase' = "run"
    <2>1. PICK inputs \in [1..n -> Inputs] : Drive(start, before, inputs, polls) /\ phase' = "run"
      BY <1>1
    <2>2. inputs \in Path /\ Len(inputs) = n
      BY DEF Path
    <2>3. polls => inputs # <<>> \/ before.inputs = <<>>
      BY <2>2
    <2> QED
      BY <2>1, <2>2, <2>3, DriveKeeps
  <1>2. CASE \E inputs \in Batches(n) : Dies(start, before, inputs)
    BY <1>2, BatchIsPath, DiesKeeps
  <1> QED
    BY <1>1, <1>2 DEF DriveOrLeave

(* A batch from a reset, which may break.                                  *)
LEMMA DriveOnKeeps ==
    ASSUME IInv, UNCHANGED <<design, setting, clean>>, phase \in {"seed", "run"},
           NEW r \in design.reset[sim], DriveOn(r, Begun(r))
    PROVE  IInv'
  <1>1. r \in States /\ r \in AfterReset
    BY DesignIs DEF IInv, TypeOK
  <1>2. Begun(r) \in Paths /\ Begun(r).inputs = <<>> /\ Leads(Begun(r), r)
    BY <1>1, BegunIs DEF Leads
  <1>3. PICK inputs \in Batches(BatchSize) :
           \/ Drive(r, Begun(r), inputs, FALSE) /\ UNCHANGED phase
           \/ Dies(r, Begun(r), inputs)
    BY DEF DriveOn
  <1>4. inputs \in Path
    BY BatchIsPath, CorpusAssumption
  <1>5. CASE Drive(r, Begun(r), inputs, FALSE) /\ UNCHANGED phase
    BY <1>1, <1>2, <1>4, <1>5, DriveKeeps
  <1>6. CASE Dies(r, Begun(r), inputs)
    BY <1>1, <1>2, <1>4, <1>6, DiesKeeps
  <1> QED
    BY <1>3, <1>5, <1>6

-----------------------------------------------------------------------------
(* The actions *)

LEMMA InitHolds == Init => IInv
  <1> SUFFICES ASSUME Init PROVE IInv
    OBVIOUS
  <1>1. ZeroState \in States
    BY CorpusAssumption
  <1>2. DOMAIN corpus = {} /\ Begun(ZeroState) \in Paths
    BY <1>1, BegunIs DEF Init
  <1> QED
    BY <1>1, <1>2, CorpusAssumption
       DEF Init, IInv, TypeOK, EntriesVisited, SeedSeen, PathReproduces,
           EntriesPassThrough, BurstReproduces

(* Steps that leave or evict entries and record more states keep the two   *)
(* tables.                                                                 *)
LEMMA FewerEntries ==
    ASSUME IInv, UNCHANGED <<design, clean>>,
           DOMAIN corpus' \subseteq DOMAIN corpus,
           \A h \in DOMAIN corpus' : corpus'[h] = corpus[h],
           visited \subseteq visited', visited' \subseteq States
    PROVE  Tables
  <1>1. EntriesPassThrough'
    BY SameDesign DEF IInv, EntriesPassThrough, On
  <1> QED
    BY <1>1 DEF IInv, Tables, TypeOK, EntriesVisited

(* A path that is set to one that leads to the simulator's new state.      *)
LEMMA PathSet ==
    ASSUME IInv, UNCHANGED <<design, setting, clean>>, Tables,
           sim' \in States, path' \in Paths, Leads(path', sim'),
           phase' \in {"seed", "run", "burst"}, phase' = "seed" => path'.inputs = <<>>
    PROVE  IInv'
  <1>1. TypeOK'
    BY DEF IInv, TypeOK, Tables
  <1>2. AfterReset' = AfterReset
    BY SameDesign
  <1>3. PathReproduces' /\ BurstReproduces'
    BY <1>2 DEF PathReproduces, BurstReproduces, Leads, End
  <1>4. SeedSeen'
    BY DEF SeedSeen
  <1> QED
    BY <1>1, <1>3, <1>4 DEF IInv, Tables

(* A start from reset adds the reset state, and no entry.                  *)
LEMMA FreshKeeps ==
    ASSUME IInv, UNCHANGED <<design, setting, clean>>,
           NEW rows, DOMAIN rows \subseteq DOMAIN corpus,
           \A h \in DOMAIN rows : rows[h] = corpus[h],
           StartFresh(rows)
    PROVE  IInv'
  <1>1. PICK r \in AfterReset :
           /\ sim' = r /\ path' = Begun(r) /\ visited' = visited \cup {r}
           /\ corpus' = Add(rows, {r} \ visited, Begun(r))
    BY DEF StartFresh
  <1>2. r \in States
    BY DesignIs DEF IInv
  <1>3. /\ Begun(r) \in Paths /\ Begun(r).inputs = <<>> /\ Leads(Begun(r), r)
    BY <1>2, BegunIs DEF Leads
  <1>4. corpus' = rows
    BY <1>1, <1>3 DEF Add
  <1>5. Tables
    BY <1>1, <1>2, <1>4, FewerEntries DEF IInv, TypeOK
  <1> QED
    BY <1>1, <1>2, <1>3, <1>5, PathSet DEF StartFresh

(* A restored entry was verified: its path leads to its state.             *)
LEMMA RestoredKeeps ==
    ASSUME IInv, UNCHANGED <<design, setting, clean, corpus>>,
           NEW h \in DOMAIN corpus, NEW r \in AfterReset, Verified(h, r),
           sim' = h, path' = [from |-> r, inputs |-> corpus[h].inputs],
           visited' \in {visited, visited \cup {h}}, phase' \in {"run", "burst"}
    PROVE  IInv'
  <1>1. h \in States /\ corpus[h] \in Paths /\ r \in States
    BY DesignIs DEF IInv, TypeOK
  <1>2. path' \in Paths
    BY <1>1 DEF Paths
  <1>3. Leads(path', sim')
    BY DEF Leads, End, Verified, Restored
  <1>4. Tables
    BY <1>1, FewerEntries DEF IInv, TypeOK
  <1> QED
    BY <1>1, <1>2, <1>3, <1>4, PathSet

LEMMA StartKeeps ==
    ASSUME IInv, UNCHANGED <<setting, clean>>, Start
    PROVE  IInv'
  <1>0. UNCHANGED design
    BY DEF Start
  <1>1. CASE corpus = <<>>
    BY <1>0, <1>1, FreshKeeps DEF Start
  <1>2. CASE corpus # <<>>
    <2>1. PICK h \in Deepest, r \in AfterReset :
             \/ /\ Verified(h, r)
                /\ sim' = h /\ path' = [from |-> r, inputs |-> corpus[h].inputs]
                /\ visited' = visited \cup {h}
                /\ phase' = "run"
                /\ UNCHANGED corpus
             \/ ~Verified(h, r) /\ StartFresh(Evict(h))
             \/ Breaks /\ StartFresh(corpus)
      BY <1>2 DEF Start
    <2>2. h \in DOMAIN corpus
      BY DEF Deepest
    <2>3. CASE /\ Verified(h, r) /\ sim' = h
               /\ path' = [from |-> r, inputs |-> corpus[h].inputs]
               /\ visited' = visited \cup {h} /\ phase' = "run" /\ UNCHANGED corpus
      BY <1>0, <2>2, <2>3, RestoredKeeps
    <2>4. CASE StartFresh(Evict(h))
      <3>1. DOMAIN Evict(h) \subseteq DOMAIN corpus /\ \A g \in DOMAIN Evict(h) : Evict(h)[g] = corpus[g]
        BY DEF Evict
      <3> QED
        BY <1>0, <2>4, <3>1, FreshKeeps
    <2>5. CASE StartFresh(corpus)
      BY <1>0, <2>5, FreshKeeps
    <2> QED
      BY <2>1, <2>3, <2>4, <2>5
  <1> QED
    BY <1>1, <1>2

(* The poll after the seeds may store the state they ended in.             *)
LEMMA SeedsDoneKeeps ==
    ASSUME IInv, UNCHANGED <<setting, clean>>, SeedsDone
    PROVE  IInv'
  <1>1. PICK r \in design.reset[sim] : sim' = r /\ path' = Begun(r)
    BY DEF SeedsDone
  <1>2. r \in States /\ r \in AfterReset
    BY DesignIs DEF IInv, TypeOK
  <1>3. Begun(r) \in Paths /\ Leads(Begun(r), r)
    BY <1>2, BegunIs DEF Leads
  <1>4. /\ DOMAIN corpus' \subseteq DOMAIN corpus \cup {sim}
        /\ \A h \in DOMAIN corpus' :
              \/ h \in DOMAIN corpus /\ corpus'[h] = corpus[h]
              \/ h = sim /\ path.inputs # <<>> /\ corpus'[h] = path
    <2>1. CASE corpus' = corpus
      BY <2>1
    <2>2. CASE corpus' = Add(corpus, {sim}, path)
      <3>1. path \in Paths
        BY DEF IInv, TypeOK
      <3> QED
        BY <2>2, <3>1, AddIs
    <2> QED
      BY <2>1, <2>2 DEF SeedsDone
  <1>5. visited' = visited /\ UNCHANGED design /\ phase = "seed"
    BY DEF SeedsDone
  <1>6. \A h \in DOMAIN corpus' : h \in visited
    BY <1>4, <1>5 DEF IInv, EntriesVisited, SeedSeen
  <1>7. EntriesPassThrough'
    <2> SUFFICES ASSUME clean', NEW h \in DOMAIN corpus'
                 PROVE  corpus'[h].from \in AfterReset /\ h \in On(corpus'[h])
      BY <1>5, SameDesign DEF EntriesPassThrough, On
    <2>1. CASE h \in DOMAIN corpus /\ corpus'[h] = corpus[h]
      BY <2>1 DEF IInv, EntriesPassThrough
    <2>2. CASE h = sim /\ path.inputs # <<>> /\ corpus'[h] = path
      <3>1. path.from \in AfterReset /\ End(path) = h /\ path.inputs \in Seq(Inputs)
        BY <1>5, <2>2 DEF IInv, TypeOK, PathReproduces, Paths
      <3>2. h \in Through(design.next, path.from, path.inputs)
        BY <2>2, <3>1, RunEndsThrough DEF End
      <3> QED
        BY <2>2, <3>1, <3>2 DEF On
    <2> QED
      BY <1>4, <2>1, <2>2
  <1>8. Tables
    BY <1>4, <1>5, <1>6, <1>7 DEF Tables, IInv, TypeOK, EntriesVisited
  <1> QED
    BY <1>1, <1>2, <1>3, <1>5, <1>8, PathSet DEF SeedsDone

LEMMA RestoreSeedKeeps ==
    ASSUME IInv, UNCHANGED <<setting, clean>>, RestoreSeed
    PROVE  IInv'
  <1>1. PICK h \in DOMAIN corpus, r \in design.reset[sim] :
           /\ Verified(h, r)
           /\ sim' = h /\ path' = [from |-> r, inputs |-> corpus[h].inputs]
    BY DEF RestoreSeed
  <1>2. r \in AfterReset
    BY DesignIs DEF IInv, TypeOK
  <1> QED
    BY <1>1, <1>2, RestoredKeeps DEF RestoreSeed

(* The steps that make a campaign unclean write no entry, except that a    *)
(* failed restore may evict one and a forced state may be stored.          *)
LEMMA UncleanKeeps ==
    ASSUME IInv, UNCHANGED <<setting, path>>, clean' = FALSE, design' \in Designs,
           sim' \in States, phase' = phase, phase \notin {"seed", "burst"},
           visited \subseteq visited', visited' \subseteq States, DOMAIN corpus' \subseteq visited',
           \A h \in DOMAIN corpus' : corpus'[h] \in Paths /\ corpus'[h].inputs # <<>>
    PROVE  IInv'
  <1>1. TypeOK'
    BY DEF IInv, TypeOK
  <1> QED
    BY <1>1
       DEF IInv, EntriesVisited, SeedSeen, PathReproduces, EntriesPassThrough, BurstReproduces

LEMMA RestoreFailsKeeps ==
    ASSUME IInv, UNCHANGED setting, clean' = FALSE, RestoreFails
    PROVE  IInv'
  <1>1. PICK h \in DOMAIN corpus, r \in design.reset[sim] :
          \/ ~Verified(h, r) /\ sim' = Restored(h, r) /\ corpus' = Evict(h)
          \/ /\ Breaks
             /\ \E k \in 0..Len(corpus[h].inputs) :
                   sim' = Trajectory(design.next, r, corpus[h].inputs)[k]
             /\ UNCHANGED corpus
    BY DEF RestoreFails
  <1>2. corpus[h].inputs \in Path /\ design.next \in [States \X Inputs -> States] /\ r \in States
    BY DesignIs DEF IInv, TypeOK, Path, Paths
  <1>3. sim' \in States
    <2>1. CASE sim' = Restored(h, r)
      BY <1>2, <2>1, DesignRun DEF IInv, Restored
    <2>2. ASSUME NEW k \in 0..Len(corpus[h].inputs),
                 sim' = Trajectory(design.next, r, corpus[h].inputs)[k]
          PROVE  sim' \in States
      <3>1. \A j \in 0..Len(corpus[h].inputs) :
               Trajectory(design.next, r, corpus[h].inputs)[j] \in States
        BY <1>2, TrajectoryType DEF Path
      <3> QED
        BY <2>2, <3>1
    <2> QED
      BY <1>1, <2>1, <2>2
  <1>4. /\ DOMAIN corpus' \subseteq DOMAIN corpus
        /\ \A g \in DOMAIN corpus' : corpus'[g] = corpus[g]
    BY <1>1 DEF Evict
  <1>5. UNCHANGED <<path, phase, visited>> /\ design' \in Designs /\ phase = "run"
    BY DEF RestoreFails, IInv, TypeOK
  <1> QED
    BY <1>3, <1>4, <1>5, UncleanKeeps DEF IInv, TypeOK, EntriesVisited

LEMMA ForceMatchKeeps ==
    ASSUME IInv, UNCHANGED setting, clean' = FALSE, ForceMatch
    PROVE  IInv'
  <1>1. UNCHANGED <<path, phase>> /\ design' \in Designs /\ phase = "run" /\ sim' \in States
    BY DEF ForceMatch, IInv, TypeOK
  <1>2. visited \subseteq visited' /\ visited' \subseteq States
    BY <1>1 DEF ForceMatch, IInv, TypeOK
  <1>3. path \in Paths
    BY DEF IInv, TypeOK
  <1>4. /\ DOMAIN corpus' \subseteq visited'
        /\ \A h \in DOMAIN corpus' : corpus'[h] \in Paths /\ corpus'[h].inputs # <<>>
    <2>1. CASE UNCHANGED <<visited, corpus>>
      BY <2>1 DEF IInv, TypeOK, EntriesVisited
    <2>2. CASE visited' = visited \cup {sim'} /\ corpus' = Add(corpus, {sim'} \ visited, path)
      <3>1. /\ DOMAIN corpus' \subseteq DOMAIN corpus \cup ({sim'} \ visited)
            /\ \A h \in DOMAIN corpus' :
                  \/ h \in DOMAIN corpus /\ corpus'[h] = corpus[h]
                  \/ path.inputs # <<>> /\ corpus'[h] = path
        BY <1>3, <2>2, AddIs
      <3> QED
        BY <1>3, <2>2, <3>1 DEF IInv, TypeOK, EntriesVisited
    <2> QED
      BY <2>1, <2>2 DEF ForceMatch
  <1> QED
    BY <1>1, <1>2, <1>4, UncleanKeeps

LEMMA EditRtlKeeps ==
    ASSUME IInv, UNCHANGED setting, clean' = FALSE, EditRtl
    PROVE  IInv'
  <1>1. UNCHANGED <<phase, sim, path, visited, corpus>> /\ design' \in Designs /\ phase = "off"
    BY DEF EditRtl
  <1> QED
    BY <1>1, UncleanKeeps DEF IInv, TypeOK, EntriesVisited

(* A replay from a state a reset leaves, or from any other in a campaign   *)
(* that is not clean any more.                                             *)
LEMMA ReplayKeeps ==
    ASSUME IInv, UNCHANGED setting, clean' \in {clean, FALSE}, NEW from \in States,
           clean' => from \in AfterReset, Replay(from)
    PROVE  IInv'
  <1>1. PICK n \in 0..BatchSize : DriveOrLeave(from, Begun(from), n, TRUE)
    BY DEF Replay
  <1>2. n \in Nat /\ UNCHANGED design
    BY <1>1, CorpusAssumption DEF Replay
  <1>3. Begun(from) \in Paths /\ Begun(from).inputs = <<>> /\ (clean' => Leads(Begun(from), from))
    BY BegunIs DEF Leads
  <1> QED
    BY <1>1, <1>2, <1>3, DriveOrLeaveKeeps

(* Random batches and bursts go on from where the simulator is.            *)
LEMMA GoOnKeeps ==
    ASSUME IInv, UNCHANGED <<setting, clean>>, RandomBatch \/ MutationBurst
    PROVE  IInv'
  <1>1. sim \in States /\ path \in Paths /\ UNCHANGED design
    BY DEF IInv, TypeOK, RandomBatch, MutationBurst
  <1>2. clean' => Leads(path, sim)
    BY DEF IInv, PathReproduces, RandomBatch, MutationBurst, Leads
  <1>3. CASE RandomBatch
    <2>1. BatchSize \in Nat /\ BatchSize > 0
      BY CorpusAssumption
    <2>2. DriveOrLeave(sim, path, BatchSize, TRUE)
      BY <1>3 DEF RandomBatch
    <2> QED
      BY <1>1, <1>2, <2>1, <2>2, DriveOrLeaveKeeps
  <1>4. CASE MutationBurst
    <2>1. PICK n \in 0..BurstSize : DriveOrLeave(sim, path, n, FALSE)
      BY <1>4 DEF MutationBurst
    <2>2. n \in Nat
      BY <2>1, CorpusAssumption
    <2> QED
      BY <1>1, <1>2, <2>1, <2>2, DriveOrLeaveKeeps
  <1> QED
    BY <1>3, <1>4

LEMMA StopKeeps ==
    ASSUME IInv, UNCHANGED <<setting, clean>>, Stop
    PROVE  IInv'
  <1>1. UNCHANGED <<design, visited, corpus>>
    BY DEF Stop
  <1>2. Tables
    BY <1>1, FewerEntries DEF IInv, TypeOK
  <1> QED
    BY <1>1, <1>2, LeaveKeeps DEF Stop

LEMMA StepKeeps == IInv /\ [Next]_vars => IInv'
  <1> SUFFICES ASSUME IInv, [Next]_vars PROVE IInv'
    OBVIOUS
  <1>1. CASE Next
    <2>1. UNCHANGED setting
      BY <1>1 DEF Next
    <2>2. CASE Tidy /\ UNCHANGED clean
      <3>1. CASE SeedRun \/ MutatedWitness
        <4>1. PICK r \in design.reset[sim] : DriveOn(r, Begun(r))
          BY <3>1 DEF SeedRun, MutatedWitness
        <4>2. UNCHANGED design /\ phase \in {"seed", "run"}
          BY <3>1 DEF SeedRun, MutatedWitness
        <4> QED
          BY <2>1, <2>2, <4>1, <4>2, DriveOnKeeps
      <3>2. CASE \E from \in design.reset[sim] \cup ({ZeroState} \cap AfterReset) : Replay(from)
        <4>1. PICK from \in design.reset[sim] \cup ({ZeroState} \cap AfterReset) : Replay(from)
          BY <3>2
        <4>2. from \in AfterReset /\ from \in States
          BY DesignIs DEF IInv, TypeOK
        <4> QED
          BY <2>1, <2>2, <4>1, <4>2, ReplayKeeps
      <3> QED
        BY <2>1, <2>2, <3>1, <3>2, StartKeeps, SeedsDoneKeeps, GoOnKeeps,
           RestoreSeedKeeps, StopKeeps DEF Tidy
    <2>3. CASE Untidy /\ clean' = FALSE
      <3>1. ZeroState \in States
        BY CorpusAssumption
      <3> QED
        BY <2>1, <2>3, <3>1, RestoreFailsKeeps, ForceMatchKeeps, EditRtlKeeps, ReplayKeeps
           DEF Untidy
    <2> QED
      BY <1>1, <2>2, <2>3 DEF Next
  <1>2. CASE UNCHANGED vars
    BY <1>2 DEF vars, IInv, TypeOK, EntriesVisited, SeedSeen, PathReproduces,
                EntriesPassThrough, BurstReproduces, AfterReset, End, On
  <1> QED
    BY <1>1, <1>2

-----------------------------------------------------------------------------
(* The theorems *)

(* The inductive invariant: types, the two tables, the path, the seeds and *)
(* the bursts together.                                                    *)
THEOREM CorpusInvariant == Spec => []IInv
  BY InitHolds, StepKeeps, PTL DEF Spec

(* The tables and current_path keep to their types: no empty path is ever  *)
(* stored, whatever breaks.                                                *)
THEOREM TypeCorrect == Spec => []TypeOK
  <1>1. IInv => TypeOK
    BY DEF IInv
  <1> QED
    BY <1>1, CorpusInvariant, PTL

(* Every entry is for a recorded state, native entries, entries of earlier *)
(* campaigns and of campaigns that died between two commits included.      *)
THEOREM EntriesAreVisited == Spec => []EntriesVisited
  <1>1. IInv => EntriesVisited
    BY DEF IInv
  <1> QED
    BY <1>1, CorpusInvariant, PTL

(* In a clean history current_path leads from what the last reset left to  *)
(* the state of the simulator, whatever resets leave.                      *)
THEOREM PathLeadsBack == Spec => []PathReproduces
  <1>1. IInv => PathReproduces
    BY DEF IInv
  <1> QED
    BY <1>1, CorpusInvariant, PTL

(* In a clean history an entry's path passes through its state when it is  *)
(* replayed after the reset it was begun after, for any length of the      *)
(* batches that recorded it.                                               *)
THEOREM EntriesAreOnTheirPath == Spec => []EntriesPassThrough
  <1>1. IInv => EntriesPassThrough
    BY DEF IInv
  <1> QED
    BY <1>1, CorpusInvariant, PTL

(* What a burst writes is true of the design of today, however wrong the   *)
(* other entries are.                                                      *)
THEOREM BurstsAreTrue == Spec => BurstsWriteTruePaths
  <1> DEFINE True == phase = "burst" =>
                        \A h \in DOMAIN corpus' :
                           \/ h \in DOMAIN corpus /\ corpus'[h] = corpus[h]
                           \/ corpus'[h].from \in AfterReset /\ h \in On(corpus'[h])
  <1>1. IInv /\ [Next]_vars => [True]_vars
    <2> SUFFICES ASSUME IInv, Next, phase = "burst", NEW h \in DOMAIN corpus'
                 PROVE  \/ h \in DOMAIN corpus /\ corpus'[h] = corpus[h]
                        \/ corpus'[h].from \in AfterReset /\ h \in On(corpus'[h])
      OBVIOUS
    <2>1. CASE Stop
      BY <2>1 DEF Stop
    <2>2. CASE MutationBurst
      <3>1. PICK n \in 0..BurstSize : DriveOrLeave(sim, path, n, FALSE)
        BY <2>2 DEF MutationBurst
      <3>2. n \in Nat
        BY <3>1, CorpusAssumption
      <3>3. path \in Paths /\ sim \in States /\ Leads(path, sim)
        BY DEF IInv, TypeOK, BurstReproduces, Leads
      <3>4. PICK inputs \in Path : Recorded(sim, path, inputs)
        <4>1. CASE \E inputs \in [1..n -> Inputs] : Drive(sim, path, inputs, FALSE)
          <5>1. PICK inputs \in [1..n -> Inputs] : Record(sim, path, inputs, FALSE)
            BY <4>1 DEF Drive
          <5>2. inputs \in Path
            BY <3>2 DEF Path
          <5>3. Recorded(sim, path, inputs)
            BY <3>3, <5>1, <5>2, RecordWrites DEF IInv
          <5> QED
            BY <5>2, <5>3
        <4>2. CASE \E inputs \in Batches(n) : Dies(sim, path, inputs)
          <5>1. PICK inputs \in Batches(n) : Dies(sim, path, inputs)
            BY <4>2
          <5>2. inputs \in Path
            BY <3>2, BatchIsPath
          <5>3. Recorded(sim, path, inputs)
            BY <3>3, <5>1, <5>2, DyingWrites DEF IInv
          <5> QED
            BY <5>2, <5>3
        <4> QED
          BY <3>1, <4>1, <4>2 DEF DriveOrLeave
      <3>5. /\ Through(design.next, sim, inputs) \subseteq On(Longer(path, inputs))
            /\ Longer(path, inputs).from = path.from
        BY <3>3, WholePath, LongerIs DEF Leads
      <3> QED
        BY <3>3, <3>4, <3>5 DEF Recorded, Leads
    <2>3. Stop \/ MutationBurst
      BY DEF Next, Tidy, Untidy, Start, SeedRun, SeedsDone, RandomBatch, RestoreSeed, Replay,
             MutatedWitness, RestoreFails, ForceMatch, EditRtl
    <2> QED
      BY <2>1, <2>2, <2>3
  <1> QED
    BY <1>1, CorpusInvariant, PTL DEF Spec, BurstsWriteTruePaths

(* The README's "deterministic replay" holds of designs whose reset leaves *)
(* one state, whatever comes before it: all registers have a reset clause. *)
(* Whatever was recorded, restored and driven before.                      *)
THEOREM ResettableIsDeterministic == Spec => []ReplayIsDeterministic
  <1>1. IInv => ReplayIsDeterministic
    <2> SUFFICES ASSUME IInv, clean, Resettable, NEW h \in DOMAIN corpus, NEW r \in design.reset[sim]
                 PROVE  h \in Through(design.next, r, corpus[h].inputs)
      BY DEF ReplayIsDeterministic
    <2>1. PICK one \in States : \A s \in States : design.reset[s] = {one}
      BY DEF Resettable
    <2>2. AfterReset \subseteq {one}
      BY <2>1 DEF AfterReset
    <2>3. r = one
      BY <2>1 DEF IInv, TypeOK
    <2>4. corpus[h].from = one /\ h \in On(corpus[h])
      BY <2>2 DEF IInv, EntriesPassThrough
    <2> QED
      BY <2>3, <2>4 DEF On
  <1> QED
    BY <1>1, CorpusInvariant, PTL
=============================================================================
