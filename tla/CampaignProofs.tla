--------------------------- MODULE CampaignProofs ---------------------------
(***************************************************************************)
(* Theorems about Campaign.tla, for every design, tier table and option.   *)
(*                                                                         *)
(* The steps of run() are grouped by what they do to the bookkeeping:      *)
(* most of them touch neither tiers nor retirements; Poll and OverBudget   *)
(* retire without a call; a failed call (JudgeUnproductive, SolveNone)     *)
(* goes through PromoteOrRetire.                                           *)
(*                                                                         *)
(* Five parts: the books of tiers, retirements and cached verdicts, the    *)
(* refinement of TargetLadder, the streak, the narrow-effective rule, and  *)
(* the picker's query.                                                     *)
(***************************************************************************)
EXTENDS Campaign, FiniteSetTheorems, TLAPS

-----------------------------------------------------------------------------
(* What the picker offers is an uncovered, unretired point, or None.       *)
LEMMA FetchesUncovered == \A F \in Fetches : F \subseteq Universe \ covered
<1> DEFINE uncovered == Universe \ covered
           toggles == {p \in uncovered : IsToggle(p)}
           n == FetchLimit
<1>1. CASE Cardinality(uncovered) <= n
  BY <1>1 DEF Fetches
<1>2. CASE ~(Cardinality(uncovered) <= n) /\ Cardinality(toggles) >= n
  <2>1. Fetches = kSubset(n, toggles)
    BY <1>2 DEF Fetches
  <2> QED
    BY <2>1 DEF kSubset
<1>3. CASE ~(Cardinality(uncovered) <= n) /\ ~(Cardinality(toggles) >= n)
  <2>1. Fetches = {toggles \cup r : r \in kSubset(n - Cardinality(toggles), uncovered \ toggles)}
    BY <1>3 DEF Fetches
  <2> QED
    BY <2>1 DEF kSubset
<1> QED
  BY <1>1, <1>2, <1>3

LEMMA UniverseIsPoints == Universe \subseteq Points
BY DEF Universe

LEMMA OffersOpen == Offers \subseteq (Points \ (covered \cup Retired)) \cup {NoTarget}
<1> SUFFICES ASSUME NEW p \in Offers
             PROVE  p = NoTarget \/ p \in Points \ (covered \cup Retired)
  OBVIOUS
<1>1. PICK F \in Fetches :
         p \in IF F \ Retired = {} THEN {NoTarget} ELSE Cheapest(F \ Retired)
  BY DEF Offers
<1>2. F \subseteq Points \ covered
  BY FetchesUncovered, UniverseIsPoints
<1>3. CASE F \ Retired = {}
  BY <1>1, <1>3
<1>4. CASE F \ Retired # {}
  BY <1>1, <1>2, <1>4 DEF Cheapest
<1> QED
  BY <1>3, <1>4

-----------------------------------------------------------------------------
(* A failed call moves the point one tier up or retires it, in every step  *)
(* that judges one.                                                        *)
PromoteOrRetire(p) ==
    /\ NoteFailure(p)
    /\ \E quiet \in BOOLEAN : /\ KeepVerdict(p, quiet)
                              /\ IF Promotable(p, quiet) THEN Promote(p) ELSE Retire(p)

LEMMA TopIsNat == Top \in Nat /\ NumTiers \in Nat /\ Tiers = 0..Top /\ 0 \in Tiers
BY CampaignAssumption DEF Top, Tiers

LEMMA PromoteOrRetireTypes ==
    ASSUME TypeOK, NEW p \in Points, PromoteOrRetire(p)
    PROVE  /\ retired' \in [Points -> {"no", "spent", "narrow", "budget", "dead"}]
           /\ tier' \in [Points -> Tiers]
           /\ failed' \in [Points -> SUBSET Tiers]
           /\ verdict' \in [Points -> {"unasked", "narrow", "wide"}]
<1> USE TopIsNat
<1>1. tier[p] \in Tiers /\ failed[p] \subseteq Tiers
  BY DEF TypeOK
<1>2. failed' \in [Points -> SUBSET Tiers]
  BY <1>1 DEF TypeOK, PromoteOrRetire, NoteFailure
<1>3. PICK quiet \in BOOLEAN : /\ KeepVerdict(p, quiet)
                              /\ IF Promotable(p, quiet) THEN Promote(p) ELSE Retire(p)
  BY DEF PromoteOrRetire
<1>6. verdict' \in [Points -> {"unasked", "narrow", "wide"}]
  BY <1>3 DEF KeepVerdict, TypeOK
<1>4. CASE Promotable(p, quiet)
  <2>1. tier[p] + 1 \in Tiers
    BY <1>1, <1>4 DEF Promotable
  <2>2. Promote(p)
    BY <1>3, <1>4
  <2>3. tier' \in [Points -> Tiers] /\ retired' = retired
    BY <2>1, <2>2 DEF TypeOK, Promote
  <2> QED
    BY <1>2, <1>6, <2>3 DEF TypeOK
<1>5. CASE ~Promotable(p, quiet)
  BY <1>2, <1>3, <1>5, <1>6 DEF TypeOK, Retire
<1> QED
  BY <1>4, <1>5

LEMMA RecordStatesTypes ==
    ASSUME TypeOK, RecordStates
    PROVE  unseen' \subseteq Goals /\ room' \in Nat /\ held' \subseteq Points
BY DEF TypeOK, RecordStates

LEMMA PollTypes ==
    ASSUME TypeOK, Poll
    PROVE  /\ known' \in {"none", "stored", "reported"} /\ covered' \subseteq Universe'
           /\ dead' \subseteq Signals
           /\ retired' \in [Points -> {"no", "spent", "narrow", "budget", "dead"}]
           /\ verdict' \in [Points -> {"unasked", "narrow", "wide"}]
<1>1. CASE UNCHANGED <<cover, retired, verdict>>
  BY <1>1 DEF TypeOK, cover, Universe
<1>2. CASE Snapshot
  <2>1. PICK snap \in SUBSET (Points \ covered), quiet \in BOOLEAN :
        LET fresh == IF DeadFilter /\ quiet THEN DeadSignals(covered \cup snap) ELSE {}
        IN  /\ known' = "reported"
            /\ covered' = covered \cup snap
            /\ dead' = dead \cup fresh
            /\ retired' = [p \in Points |->
                   IF retired[p] = "no" /\ Sig[p] \in fresh THEN "dead" ELSE retired[p]]
            /\ verdict' \in IF covered' = covered THEN {verdict} ELSE {verdict, NoVerdict}
    BY <1>2 DEF Snapshot
  <2>2. DeadSignals(covered \cup snap) \subseteq Signals
    BY DEF DeadSignals
  <2>3. covered' \subseteq Points /\ Universe' = Points
    BY <2>1, UniverseIsPoints DEF TypeOK, Universe
  <2>4. verdict' \in [Points -> {"unasked", "narrow", "wide"}]
    BY <2>1 DEF TypeOK, NoVerdict
  <2> QED
    BY <2>1, <2>2, <2>3, <2>4 DEF TypeOK
<1> QED
  BY <1>1, <1>2 DEF Poll

(* What a poll does to the books: coverage, dead signals and retirements   *)
(* only grow, a point it retires lies on a dead signal, and verdicts are   *)
(* kept or dropped.                                                        *)
LEMMA PollGrows ==
    ASSUME TypeOK, Poll
    PROVE  /\ covered \subseteq covered' /\ dead \subseteq dead'
           /\ \A p \in Points : \/ retired'[p] = retired[p]
                                \/ retired[p] = "no" /\ retired'[p] = "dead" /\ Sig[p] \in dead'
           /\ \A p \in Points : verdict'[p] = "narrow" => verdict[p] = "narrow"
<1>1. CASE UNCHANGED <<cover, retired, verdict>>
  BY <1>1 DEF cover
<1>2. CASE Snapshot
  <2>1. PICK snap \in SUBSET (Points \ covered), quiet \in BOOLEAN :
        LET fresh == IF DeadFilter /\ quiet THEN DeadSignals(covered \cup snap) ELSE {}
        IN  /\ known' = "reported"
            /\ covered' = covered \cup snap
            /\ dead' = dead \cup fresh
            /\ retired' = [p \in Points |->
                   IF retired[p] = "no" /\ Sig[p] \in fresh THEN "dead" ELSE retired[p]]
            /\ verdict' \in IF covered' = covered THEN {verdict} ELSE {verdict, NoVerdict}
    BY <1>2 DEF Snapshot
  <2>2. \A p \in Points : verdict'[p] = "narrow" => verdict[p] = "narrow"
    BY <2>1 DEF NoVerdict
  <2> QED
    BY <2>1, <2>2
<1> QED
  BY <1>1, <1>2 DEF Poll

LEMMA AimTypes ==
    ASSUME TypeOK, NEW t \in Targets, Aim(t), phase = "pick"
    PROVE  /\ phase' \in {"loop", "solve"} /\ UNCHANGED termination
           /\ exhaustedGoals' \subseteq Goals /\ unseen' \subseteq Goals
           /\ room' \in Nat
           /\ held' \subseteq Points /\ attempts' \in [Signals -> Nat]
           /\ aim' = IF phase' = "solve" THEN t ELSE NoTarget
           /\ lastTarget' \in Keys \cup {NoTarget}
           /\ retries' \in 0..MAX_TARGET_RETRIES
<1> DEFINE n == IF KeyOf(t) = lastTarget THEN retries + 1 ELSE 0
<1> USE DEF MAX_TARGET_RETRIES, seen
<1>1. aim = NoTarget
  BY DEF TypeOK
<1>2. KeyOf(t) \in Keys
  BY DEF KeyOf, Keys, Targets
<1>3. n \in Nat
  BY DEF TypeOK
<1>4. CASE n >= MAX_TARGET_RETRIES
  <2>1. GiveUp(t)
    BY <1>4 DEF Aim
  <2> QED
    BY <1>1, <2>1 DEF TypeOK, GiveUp, GoOn
<1>5. CASE ~(n >= MAX_TARGET_RETRIES)
  <2>1. /\ lastTarget' = KeyOf(t) /\ retries' = n
        /\ ForceMatch(t) \/ Call(t)
    BY <1>5 DEF Aim
  <2>2. retries' \in 0..MAX_TARGET_RETRIES /\ lastTarget' \in Keys
    BY <1>2, <1>3, <1>5, <2>1
  <2>3. CASE ForceMatch(t)
    BY <1>1, <2>2, <2>3, RecordStatesTypes DEF TypeOK, ForceMatch, GoOn
  <2>4. CASE Call(t)
    <3>1. attempts' \in [Signals -> Nat]
      BY <2>4 DEF TypeOK, Call, CountAttempt
    <3> QED
      BY <2>2, <2>4, <3>1 DEF TypeOK, Call, GoOn
  <2> QED
    BY <2>1, <2>3, <2>4
<1> QED
  BY <1>4, <1>5

-----------------------------------------------------------------------------
LEMMA TypeInit == Init => TypeOK
<1> SUFFICES ASSUME Init PROVE TypeOK
  OBVIOUS
<1>1. held \subseteq Points
  BY DEF Init
<1> QED
  BY <1>1, TopIsNat, CampaignAssumption
     DEF Init, TypeOK, NoOutcome, NoVerdict, Universe, MAX_TARGET_RETRIES

LEMMA TypeStep == TypeOK /\ [Next]_vars => TypeOK'
<1> SUFFICES ASSUME TypeOK, [Next]_vars PROVE TypeOK'
  OBVIOUS
<1> USE CampaignAssumption DEF EndWith, GoOn, loop, pool, cover, seen, Universe
<1>1. CASE Replay
  <2>1. outcome' \in [probe : {"none", "miss", "hit"}, gained : BOOLEAN]
    <3>1. PICK probe \in Probes(aim) :
            outcome' = [probe |-> probe, gained |-> NewState \/ covered' # covered]
      BY <1>1 DEF Replay
    <3>2. probe \in {"none", "miss", "hit"}
      BY DEF Probes
    <3>3. (NewState \/ covered' # covered) \in BOOLEAN
      BY DEF NewState
    <3> QED
      BY <3>1, <3>2, <3>3
  <2>2. RecordStates /\ Poll
    BY <1>1 DEF Replay
  <2> QED
    BY <1>1, <2>1, <2>2, RecordStatesTypes, PollTypes DEF Replay, TypeOK
<1>2. CASE JudgeProductive
  <2>1. unseen' \subseteq Goals /\ room' \in Nat /\ held' \subseteq Points
    BY <1>2, RecordStatesTypes DEF JudgeProductive, TypeOK
  <2> QED
    BY <1>2, <2>1 DEF JudgeProductive, TypeOK, NoOutcome, MAX_TARGET_RETRIES
<1>3. CASE JudgeUnproductive
  <2>1. CASE UnproductivePoint
    <3>1. aim \in Points /\ PromoteOrRetire(aim) /\ UNCHANGED exhaustedGoals
      BY <2>1 DEF UnproductivePoint, PromoteOrRetire
    <3>2. streak' \in Nat
      BY <2>1 DEF UnproductivePoint, TypeOK
    <3>3. phase' \in {"ended", "explore"} /\ termination' \in {termination, "no_productive_bmc"}
      BY <1>3 DEF JudgeUnproductive
    <3> QED
      BY <1>3, <3>1, <3>2, <3>3, PromoteOrRetireTypes DEF JudgeUnproductive, TypeOK, NoOutcome
  <2>2. CASE UnproductiveGoal
    BY <1>3, <2>2 DEF JudgeUnproductive, UnproductiveGoal, TypeOK, NoOutcome
  <2> QED
    BY <1>3, <2>1, <2>2 DEF JudgeUnproductive
<1>4. CASE MutationBurst
  <2>1. RecordStates
    BY <1>4 DEF MutationBurst
  <2> QED
    BY <1>4, <2>1, RecordStatesTypes DEF MutationBurst, Exploring, TypeOK
<1>5. ASSUME NEW stalled \in BOOLEAN, RandomBatch(stalled)
      PROVE  TypeOK'
  <2>1. RecordStates /\ Poll /\ aim = NoTarget
    BY <1>5 DEF RandomBatch, Exploring, TypeOK
  <2>2. /\ phase' \in {"ended", "pick", "loop"}
        /\ termination' \in {termination, "full_coverage"}
    BY <1>5 DEF RandomBatch
  <2> QED
    BY <1>5, <2>1, <2>2, RecordStatesTypes, PollTypes DEF RandomBatch, TypeOK
<1>6. CASE PickPoint
  <2>1. PICK p \in Offers \ {NoTarget} : Aim(p)
    BY <1>6 DEF PickPoint
  <2>2. p \in Targets
    BY <2>1, OffersOpen DEF Targets
  <2> QED
    BY <1>6, <2>1, <2>2, AimTypes DEF PickPoint, TypeOK, Targets
<1>7. CASE PickGoal
  <2>1. retired' \in [Points -> {"no", "spent", "narrow", "budget", "dead"}]
    BY <1>7 DEF PickGoal, TypeOK
  <2>2. CASE OpenGoals = {}
    BY <1>7, <2>1, <2>2 DEF PickGoal, TypeOK
  <2>3. CASE OpenGoals # {}
    <3>1. PICK g \in OpenGoals : Aim(g)
      BY <1>7, <2>3 DEF PickGoal
    <3>2. g \in Targets
      BY <3>1 DEF OpenGoals, Targets, TypeOK
    <3> QED
      BY <1>7, <2>1, <3>1, <3>2, AimTypes DEF PickGoal, TypeOK, Targets
  <2> QED
    BY <2>2, <2>3
<1>8. CASE SolveSat
  BY <1>8 DEF SolveSat, TypeOK
<1>9. CASE SolveNone
  <2>1. CASE aim \in Goals
    BY <1>9, <2>1 DEF SolveNone, TypeOK
  <2>2. CASE aim \notin Goals
    <3>1. aim \in Points /\ PromoteOrRetire(aim) /\ UNCHANGED exhaustedGoals
      BY <1>9, <2>2 DEF SolveNone, PromoteOrRetire, TypeOK, Targets
    <3> QED
      BY <1>9, <3>1, PromoteOrRetireTypes DEF SolveNone, TypeOK
  <2> QED
    BY <2>1, <2>2
<1>10. CASE Timeout
  BY <1>10 DEF Timeout, TypeOK
<1>11. CASE SimulatorFails
  <2>1. RecordStates
    BY <1>11 DEF SimulatorFails
  <2> QED
    BY <1>11, <2>1, RecordStatesTypes DEF SimulatorFails, TypeOK
<1>12. CASE UNCHANGED vars
  BY <1>12 DEF vars, TypeOK
<1>13. CASE Seeds
  <2>1. RecordStates /\ Poll
    BY <1>13 DEF Seeds
  <2> QED
    BY <1>13, <2>1, RecordStatesTypes, PollTypes DEF Seeds, TypeOK
<1> QED
  BY <1>1, <1>2, <1>3, <1>4, <1>5, <1>6, <1>7, <1>8, <1>9, <1>10, <1>11, <1>12, <1>13
     DEF Next, Progress

(* Every variable keeps its type, whatever the design and the options.     *)
THEOREM TypeCorrect == Spec => []TypeOK
BY TypeInit, TypeStep, PTL DEF Spec

-----------------------------------------------------------------------------
(* A verdict may be older than the coverage it is used with, but coverage  *)
(* never shrinks: a name once found narrow keeps a covered bin.            *)
LiveVerdicts == \A p \in Points : verdict[p] = "narrow" => Siblings[p] \cap covered # {}

(* The narrow rule needs a covered sibling when it computes a verdict.     *)
LEMMA NarrowHasCovered ==
    ASSUME TypeOK, NEW p \in Points, NarrowEffective(p)
    PROVE  Siblings[p] \cap covered # {}
<1>1. IsFiniteSet(Siblings[p]) /\ Cardinality(Siblings[p]) > 0
      /\ 20 * Cardinality(Siblings[p] \cap covered) > Cardinality(Siblings[p])
  BY CampaignAssumption, FS_Subset DEF NarrowEffective
<1>2. Cardinality(Siblings[p]) \in Nat
  BY <1>1, FS_CardinalityType
<1>3. Cardinality({}) = 0
  BY FS_EmptySet
<1> QED
  BY <1>1, <1>2, <1>3

LEMMA NarrowIsLive ==
    ASSUME TypeOK, LiveVerdicts, NEW p \in Points, Narrow(p)
    PROVE  Siblings[p] \cap covered # {}
BY NarrowHasCovered DEF Narrow, LiveVerdicts

LEMMA LiveKept ==
    ASSUME LiveVerdicts, covered \subseteq covered',
           \A p \in Points : verdict'[p] = "narrow" => verdict[p] = "narrow"
    PROVE  LiveVerdicts'
BY DEF LiveVerdicts

LEMMA LiveJudged ==
    ASSUME TypeOK, LiveVerdicts, NEW p \in Points, PromoteOrRetire(p), UNCHANGED covered
    PROVE  LiveVerdicts'
<1>1. PICK quiet \in BOOLEAN : KeepVerdict(p, quiet)
  BY DEF PromoteOrRetire
<1>2. \A q \in Points : verdict'[q] = "narrow" =>
         verdict[q] = "narrow" \/ (Narrow(p) /\ Siblings[q] = Siblings[p])
  BY <1>1 DEF KeepVerdict
<1> QED
  BY <1>2, NarrowIsLive DEF LiveVerdicts

LEMMA LiveStep == TypeOK /\ LiveVerdicts /\ [Next]_vars => LiveVerdicts'
<1> SUFFICES ASSUME TypeOK, LiveVerdicts, [Next]_vars PROVE LiveVerdicts'
  OBVIOUS
<1> USE DEF loop, pool, cover
<1>a. ASSUME UNCHANGED <<covered, verdict>> PROVE LiveVerdicts'
  BY <1>a, LiveKept
<1>1. CASE Replay \/ Seeds \/ RandomBatch(TRUE) \/ RandomBatch(FALSE)
  BY <1>1, PollGrows, LiveKept DEF Replay, Seeds, RandomBatch
<1>2. CASE JudgeUnproductive
  <2>1. CASE UnproductivePoint
    BY <1>2, <2>1, LiveJudged DEF JudgeUnproductive, UnproductivePoint, PromoteOrRetire
  <2>2. CASE UnproductiveGoal
    BY <1>2, <2>2, <1>a DEF JudgeUnproductive, UnproductiveGoal
  <2> QED
    BY <1>2, <2>1, <2>2 DEF JudgeUnproductive
<1>3. CASE SolveNone
  <2>1. CASE aim \in Goals
    BY <1>3, <2>1, <1>a DEF SolveNone
  <2>2. CASE aim \notin Goals
    BY <1>3, <2>2, LiveJudged DEF SolveNone, PromoteOrRetire, TypeOK, Targets
  <2> QED
    BY <2>1, <2>2
<1>4. CASE \/ JudgeProductive \/ MutationBurst \/ PickPoint \/ PickGoal \/ SolveSat
           \/ Timeout \/ SimulatorFails \/ UNCHANGED vars
  BY <1>4, <1>a DEF JudgeProductive, MutationBurst, PickPoint, PickGoal, SolveSat, Timeout,
                    SimulatorFails, vars
<1> QED
  BY <1>1, <1>2, <1>3, <1>4 DEF Next, Progress

-----------------------------------------------------------------------------
(* TierEarned and RetiredForCause are not inductive: a point may be        *)
(* retired by a dead-signal sweep while a call on it is under way, and     *)
(* nothing in them says that the call was made on a tier that had not      *)
(* failed yet.  FreshAim says it of the point being worked on.             *)
FreshAim == aim \in Points => failed[aim] = 0..(tier[aim] - 1)
Books == TypeOK /\ LiveVerdicts /\ TierEarned /\ RetiredForCause /\ FreshAim

(* One point's part of RetiredForCause.                                    *)
Cause(p) ==
    CASE retired[p] = "spent"  -> failed[p] = Tiers
      [] retired[p] = "narrow" -> failed[p] # {} /\ Siblings[p] # {}
      [] retired[p] = "dead"   -> Sig[p] \in dead
      [] retired[p] = "budget" ->
             Budget > 0 /\ Sig[p] \in Signals /\ attempts[Sig[p]] >= Budget
      [] OTHER -> failed[p] = 0..(tier[p] - 1)

LEMMA CauseIsCause == RetiredForCause <=> \A p \in Points : Cause(p)
BY DEF RetiredForCause, Cause

(* A step that leaves tiers, failures and retirements alone, only adds     *)
(* dead signals and attempts, and takes up no point, keeps the books.      *)
LEMMA BooksUndisturbed ==
    ASSUME Books, TypeOK', LiveVerdicts', UNCHANGED <<tier, failed, retired>>, dead \subseteq dead',
           \A s \in Signals : attempts'[s] >= attempts[s],
           aim' = aim \/ aim' \notin Points \/ failed[aim'] = 0..(tier[aim'] - 1)
    PROVE  Books'
<1> USE DEF Books
<1>1. TierEarned' /\ FreshAim'
  BY DEF TierEarned, FreshAim
<1>2. \A p \in Points : Cause(p)'
  <2> SUFFICES ASSUME NEW p \in Points PROVE Cause(p)'
    OBVIOUS
  <2>1. Cause(p)
    BY CauseIsCause
  <2>2. CASE retired[p] = "budget"
    <3>1. Sig[p] \in Signals /\ attempts'[Sig[p]] >= attempts[Sig[p]] /\ attempts[Sig[p]] >= Budget
      BY <2>1, <2>2 DEF Cause
    <3>2. attempts[Sig[p]] \in Nat /\ attempts'[Sig[p]] \in Nat /\ Budget \in Nat
      BY <3>1, CampaignAssumption DEF TypeOK
    <3> QED
      BY <2>1, <2>2, <3>1, <3>2 DEF Cause
  <2>3. CASE retired[p] # "budget"
    BY <2>1, <2>3 DEF Cause
  <2> QED
    BY <2>2, <2>3
<1>3. RetiredForCause'
  BY <1>2 DEF RetiredForCause, Cause
<1> QED
  BY <1>1, <1>3

(* The same when points are retired without a call: the poll's dead        *)
(* signals.                                                                *)
LEMMA BooksPolled ==
    ASSUME Books, TypeOK', LiveVerdicts', Poll, UNCHANGED <<tier, failed, attempts, aim>>
    PROVE  Books'
<1> USE DEF Books
<1>1. TierEarned' /\ FreshAim'
  BY DEF TierEarned, FreshAim
<1>3. \A p \in Points : Cause(p)'
  <2> SUFFICES ASSUME NEW p \in Points PROVE Cause(p)'
    OBVIOUS
  <2>1. Cause(p)
    BY CauseIsCause
  <2>2. \/ retired'[p] = retired[p] /\ dead \subseteq dead'
        \/ retired'[p] = "dead" /\ Sig[p] \in dead'
    BY PollGrows
  <2> QED
    BY <2>1, <2>2 DEF Cause
<1>4. RetiredForCause'
  BY <1>3 DEF RetiredForCause, Cause
<1> QED
  BY <1>1, <1>4

(* The same for a failed call on the point being worked on.                *)
LEMMA BooksJudged ==
    ASSUME Books, TypeOK', LiveVerdicts', aim \in Points, PromoteOrRetire(aim), aim' = NoTarget,
           UNCHANGED <<dead, attempts>>
    PROVE  Books'
<1> USE CampaignAssumption, TopIsNat DEF Books
<1> DEFINE t == tier[aim]
<1>1. t \in Tiers /\ failed[aim] = 0..(t - 1)
  BY DEF FreshAim, TypeOK
<1>2. failed' = [failed EXCEPT ![aim] = 0..t]
  <2>1. (0..(t - 1)) \cup {t} = 0..t
    BY <1>1
  <2> QED
    BY <1>1, <2>1 DEF PromoteOrRetire, NoteFailure, TypeOK
<1>3. \A p \in Points : p # aim => /\ tier'[p] = tier[p] /\ failed'[p] = failed[p]
                                    /\ retired'[p] = retired[p]
  BY <1>2 DEF PromoteOrRetire, Promote, Retire, TypeOK
<1>4. failed'[aim] = 0..t
  BY <1>2 DEF TypeOK
<1>8. failed'[aim] # {} /\ retired[aim] \in {"no", "spent", "narrow", "budget", "dead"}
  <2>1. 0 \in 0..t
    BY <1>1
  <2> QED
    BY <1>4, <2>1 DEF TypeOK
<1>5. PICK quiet \in BOOLEAN : IF Promotable(aim, quiet) THEN Promote(aim) ELSE Retire(aim)
  BY DEF PromoteOrRetire
<1>6. CASE Promotable(aim, quiet)
  <2>1. tier'[aim] = t + 1 /\ retired'[aim] = retired[aim]
    BY <1>5, <1>6 DEF Promote, TypeOK
  <2>2. 0..((t + 1) - 1) = 0..t
    BY <1>1
  <2>3. TierEarned'
    BY <1>3, <1>4, <2>1, <2>2 DEF TierEarned
  <2>4. \A p \in Points : Cause(p)'
    <3> SUFFICES ASSUME NEW p \in Points PROVE Cause(p)'
      OBVIOUS
    <3>1. Cause(p)
      BY CauseIsCause
    <3>2. CASE p = aim
      <4>1. retired[aim] # "spent"
        <5>1. t \notin failed[aim]
          BY <1>1
        <5> QED
          BY <1>1, <3>1, <3>2, <5>1 DEF Cause
      <4> QED
        BY <1>4, <1>8, <2>1, <2>2, <3>1, <3>2, <4>1 DEF Cause
    <3>3. CASE p # aim
      BY <1>3, <3>1, <3>3 DEF Cause
    <3> QED
      BY <3>2, <3>3
  <2> QED
    BY <2>3, <2>4 DEF FreshAim, RetiredForCause, Cause
<1>7. CASE ~Promotable(aim, quiet)
  <2>1. /\ tier' = tier
        /\ retired'[aim] = IF retired[aim] # "no" THEN retired[aim]
                           ELSE IF t < Top THEN "narrow" ELSE "spent"
    BY <1>5, <1>7 DEF Retire, TypeOK
  <2>2. TierEarned'
    BY <1>1, <1>3, <1>4, <2>1 DEF TierEarned
  <2>3. \A p \in Points : Cause(p)'
    <3> SUFFICES ASSUME NEW p \in Points PROVE Cause(p)'
      OBVIOUS
    <3>1. Cause(p)
      BY CauseIsCause
    <3>2. CASE p = aim /\ retired[aim] # "no"
      <4>1. retired[aim] = "spent" => Tiers \subseteq 0..(t - 1)
        BY <1>1, <3>1, <3>2 DEF Cause
      <4>2. retired[aim] # "spent"
        BY <1>1, <4>1
      <4> QED
        BY <1>4, <1>8, <2>1, <3>1, <3>2, <4>2 DEF Cause
    <3>3. CASE p = aim /\ retired[aim] = "no" /\ t < Top
      <4>1. Siblings[aim] # {}
        BY <1>1, <1>7, <3>3, NarrowIsLive DEF Promotable
      <4> QED
        BY <1>8, <2>1, <3>3, <4>1 DEF Cause
    <3>4. CASE p = aim /\ retired[aim] = "no" /\ ~(t < Top)
      <4>1. 0..t = Tiers
        BY <1>1, <3>4
      <4> QED
        BY <1>4, <2>1, <3>4, <4>1 DEF Cause
    <3>5. CASE p # aim
      BY <1>3, <3>1, <3>5 DEF Cause
    <3> QED
      BY <3>2, <3>3, <3>4, <3>5
  <2> QED
    BY <2>2, <2>3 DEF FreshAim, RetiredForCause, Cause
<1> QED
  BY <1>6, <1>7

(* Aiming counts attempts up, never down, and takes up t or nobody.        *)
LEMMA AimCounts ==
    ASSUME TypeOK, NEW t \in Targets, Aim(t), phase = "pick"
    PROVE  /\ \A s \in Signals : attempts'[s] >= attempts[s]
           /\ aim' \in {t, NoTarget}
<1>1. aim' \in {t, NoTarget}
  BY AimTypes
<1>2. UNCHANGED attempts \/ CountAttempt(t)
  BY DEF Aim, GiveUp, ForceMatch, Call
<1>3. \A s \in Signals : attempts[s] \in Nat
  BY DEF TypeOK
<1> QED
  BY <1>1, <1>2, <1>3 DEF CountAttempt

LEMMA NoTargetIsNone == NoTarget \notin Points /\ NoTarget \notin Goals /\ Points \cap Goals = {}
BY CampaignAssumption

LEMMA BooksInit == Init => Books
<1> SUFFICES ASSUME Init PROVE Books
  OBVIOUS
<1>1. 0..(0 - 1) = {}
  OBVIOUS
<1>2. \A p \in Points : tier[p] = 0 /\ failed[p] = {} /\ retired[p] = "no"
  BY DEF Init
<1>3. FreshAim
  BY NoTargetIsNone DEF Init, FreshAim
<1> QED
  BY <1>1, <1>2, <1>3, TypeInit DEF Init, Books, TierEarned, RetiredForCause, LiveVerdicts, NoVerdict

(* A point the picker offers has failed on every cheaper tier and on no    *)
(* other one.                                                              *)
LEMMA OfferIsFresh ==
    ASSUME Books, NEW p \in Offers \ {NoTarget}
    PROVE  p \in Points \ (covered \cup Retired) /\ failed[p] = 0..(tier[p] - 1)
<1>1. p \in Points \ (covered \cup Retired)
  BY OffersOpen
<1>2. retired[p] = "no" /\ Cause(p)
  BY <1>1, CauseIsCause DEF Retired, Books
<1> QED
  BY <1>1, <1>2 DEF Cause

LEMMA BooksStep == Books /\ [Next]_vars => Books'
<1> SUFFICES ASSUME Books, [Next]_vars PROVE Books'
  OBVIOUS
<1> USE DEF loop, pool, cover
<1>0. TypeOK /\ TypeOK' /\ LiveVerdicts'
  BY TypeStep, LiveStep DEF Books
<1>1. \A s \in Signals : attempts[s] >= attempts[s]
  BY <1>0 DEF TypeOK
<1>2. CASE Replay
  BY <1>0, <1>2, BooksPolled DEF Replay
<1>3. CASE JudgeProductive
  BY <1>0, <1>1, <1>3, BooksUndisturbed, NoTargetIsNone DEF JudgeProductive
<1>4. CASE JudgeUnproductive
  <2>1. CASE UnproductivePoint
    <3>1. aim \in Points /\ PromoteOrRetire(aim)
      BY <2>1 DEF UnproductivePoint, PromoteOrRetire
    <3> QED
      BY <1>0, <1>4, <3>1, BooksJudged DEF JudgeUnproductive
  <2>2. CASE UnproductiveGoal
    BY <1>0, <1>1, <1>4, <2>2, BooksUndisturbed, NoTargetIsNone DEF JudgeUnproductive, UnproductiveGoal
  <2> QED
    BY <1>4, <2>1, <2>2 DEF JudgeUnproductive
<1>5. CASE MutationBurst
  BY <1>0, <1>1, <1>5, BooksUndisturbed DEF MutationBurst
<1>6. ASSUME NEW stalled \in BOOLEAN, RandomBatch(stalled)
      PROVE  Books'
  BY <1>0, <1>6, BooksPolled DEF RandomBatch
<1>14. CASE Seeds
  BY <1>0, <1>14, BooksPolled DEF Seeds
<1>7. CASE PickPoint
  <2>1. PICK p \in Offers \ {NoTarget} : Aim(p)
    BY <1>7 DEF PickPoint
  <2>2. p \in Points /\ failed[p] = 0..(tier[p] - 1)
    BY <2>1, OfferIsFresh
  <2>3. /\ \A s \in Signals : attempts'[s] >= attempts[s]
        /\ aim' \in {p, NoTarget}
    BY <1>0, <1>7, <2>1, <2>2, AimCounts DEF PickPoint, Targets
  <2> QED
    BY <1>0, <1>7, <2>2, <2>3, BooksUndisturbed, NoTargetIsNone DEF PickPoint
<1>8. CASE PickGoal
  <2>1. PICK p \in Offers :
          /\ p # NoTarget => OverBudget(p) \/ ~Translatable(p)
          /\ retired' = IF p # NoTarget /\ OverBudget(p)
                        THEN [retired EXCEPT ![p] = "budget"] ELSE retired
    BY <1>8 DEF PickGoal
  <2>2. /\ \A s \in Signals : attempts'[s] >= attempts[s]
        /\ aim' \notin Points
    <3>1. CASE OpenGoals = {}
      BY <1>0, <1>1, <1>8, <3>1, NoTargetIsNone DEF PickGoal, TypeOK
    <3>2. CASE OpenGoals # {}
      <4>1. PICK g \in OpenGoals : Aim(g)
        BY <1>8, <3>2 DEF PickGoal
      <4>2. g \in Goals /\ g \in Targets
        BY <1>0, <4>1 DEF OpenGoals, Targets, TypeOK
      <4> QED
        BY <1>0, <1>8, <4>1, <4>2, AimCounts, NoTargetIsNone DEF PickGoal
    <3> QED
      BY <3>1, <3>2
  <2>3. CASE p = NoTarget \/ ~OverBudget(p)
    BY <1>0, <1>8, <2>1, <2>2, <2>3, BooksUndisturbed DEF PickGoal
  <2>4. CASE p # NoTarget /\ OverBudget(p)
    <3>1. p \in Points /\ retired' = [retired EXCEPT ![p] = "budget"]
      BY <2>1, <2>4, OffersOpen
    <3>2. UNCHANGED <<tier, failed, dead>>
      BY <1>8 DEF PickGoal
    <3>3. \A q \in Points : Cause(q)'
      <4> SUFFICES ASSUME NEW q \in Points PROVE Cause(q)'
        OBVIOUS
      <4>1. Cause(q)
        BY CauseIsCause DEF Books
      <4>2. CASE q = p \/ retired[q] = "budget"
        <5>1. /\ Budget > 0 /\ Sig[q] \in Signals
              /\ attempts'[Sig[q]] >= attempts[Sig[q]]
              /\ attempts[Sig[q]] >= Budget
          BY <2>2, <2>4, <4>1, <4>2 DEF OverBudget, Cause
        <5>2. attempts[Sig[q]] \in Nat /\ attempts'[Sig[q]] \in Nat /\ Budget \in Nat
          BY <1>0, <5>1, CampaignAssumption DEF TypeOK
        <5>3. retired'[q] = "budget"
          BY <1>0, <3>1, <4>2 DEF TypeOK
        <5> QED
          BY <5>1, <5>2, <5>3 DEF Cause
      <4>3. CASE q # p /\ retired[q] # "budget"
        BY <1>0, <3>1, <3>2, <4>1, <4>3 DEF Cause, TypeOK
      <4> QED
        BY <4>2, <4>3
    <3> QED
      BY <1>0, <2>2, <3>2, <3>3 DEF Books, TierEarned, FreshAim, RetiredForCause, Cause
  <2> QED
    BY <2>3, <2>4
<1>9. CASE SolveSat
  BY <1>0, <1>1, <1>9, BooksUndisturbed DEF SolveSat
<1>10. CASE SolveNone
  <2>1. CASE aim \in Goals
    BY <1>0, <1>1, <1>10, <2>1, BooksUndisturbed, NoTargetIsNone DEF SolveNone
  <2>2. CASE aim \notin Goals
    <3>1. aim \in Points /\ PromoteOrRetire(aim)
      BY <1>0, <1>10, <2>2 DEF SolveNone, PromoteOrRetire, TypeOK, Targets
    <3> QED
      BY <1>0, <1>10, <3>1, BooksJudged DEF SolveNone
  <2> QED
    BY <2>1, <2>2
<1>11. CASE Timeout
  BY <1>0, <1>1, <1>11, BooksUndisturbed DEF Timeout
<1>12. CASE SimulatorFails
  BY <1>0, <1>1, <1>12, BooksUndisturbed DEF SimulatorFails
<1>13. CASE UNCHANGED vars
  BY <1>0, <1>1, <1>13, BooksUndisturbed DEF vars
<1> QED
  BY <1>2, <1>3, <1>4, <1>5, <1>6, <1>7, <1>8, <1>9, <1>10, <1>11, <1>12, <1>13, <1>14
     DEF Next, Progress

THEOREM BooksInvariant == Spec => []Books
BY BooksInit, BooksStep, PTL DEF Spec

(* Tiers are earned by failed calls, for every design, tier table and      *)
(* option: record_bmc and promote_coverage_point never skip a budget.      *)
THEOREM TiersEarned == Spec => []TierEarned
<1>1. Books => TierEarned
  BY DEF Books
<1> QED
  BY <1>1, BooksInvariant, PTL

(* Every retired point was retired for one of the four causes, and carries *)
(* the evidence for it.                                                    *)
THEOREM RetirementsJust == Spec => []RetiredForCause
<1>1. Books => RetiredForCause
  BY DEF Books
<1> QED
  BY <1>1, BooksInvariant, PTL

(* No bin is solved twice with one budget after a failure, none when it is *)
(* covered or retired.                                                     *)
THEOREM WorkNotRepeated == Spec => NoRepeatedWork
<1> DEFINE Fresh == phase = "pick" /\ aim' \in Points =>
                      /\ tier[aim'] \notin failed[aim']
                      /\ aim' \notin covered \cup Retired
<1>1. Books /\ [Next]_vars => [Fresh]_vars
  <2> SUFFICES ASSUME Books, [Next]_vars, phase = "pick", aim' \in Points,
                      ~ UNCHANGED vars
               PROVE  /\ tier[aim'] \notin failed[aim']
                      /\ aim' \notin covered \cup Retired
    OBVIOUS
  <2>0. TypeOK /\ aim = NoTarget
    BY DEF Books, TypeOK
  <2>1. ~PickGoal
    <3> SUFFICES ASSUME PickGoal PROVE FALSE
      OBVIOUS
    <3>1. PICK g \in OpenGoals : Aim(g)
      BY <2>0, NoTargetIsNone DEF PickGoal
    <3>2. g \in Goals /\ g \in Targets
      BY <2>0, <3>1 DEF OpenGoals, Targets, TypeOK
    <3> QED
      BY <2>0, <3>1, <3>2, AimCounts, NoTargetIsNone
  <2>2. PickPoint
    BY <2>0, <2>1, NoTargetIsNone
       DEF Next, Progress, Seeds, Replay, JudgeProductive, JudgeUnproductive, MutationBurst,
           RandomBatch, Exploring, SolveSat, SolveNone, Timeout, SimulatorFails
  <2>3. PICK p \in Offers \ {NoTarget} : Aim(p)
    BY <2>2 DEF PickPoint
  <2>4. p \in Points \ (covered \cup Retired) /\ failed[p] = 0..(tier[p] - 1)
    BY <2>3, OfferIsFresh
  <2>5. aim' = p
    BY <2>0, <2>3, <2>4, AimCounts, NoTargetIsNone DEF Targets
  <2>6. tier[p] \in Nat
    BY <2>0, <2>4, TopIsNat DEF TypeOK
  <2> QED
    BY <2>4, <2>5, <2>6
<1> QED
  BY <1>1, BooksInvariant, PTL DEF Spec, NoRepeatedWork

-----------------------------------------------------------------------------
(* The campaign implements TargetLadder: seen through the mapping of       *)
(* Campaign!Ladder every turn of run() observes, starts, succeeds, climbs  *)
(* or closes.                                                              *)

Busy == IF aim \in Points THEN aim ELSE NoTarget

LEMMA LadderInit == Init => Ladder!LInit
<1> SUFFICES ASSUME Init PROVE Ladder!LInit
  OBVIOUS
<1>1. Retired = {} /\ aim \notin Points
  BY NoTargetIsNone DEF Init, Retired
<1> QED
  BY <1>1, UniverseIsPoints DEF Init, Ladder!LInit

(* Steps that only add coverage and retirements.                           *)
LEMMA LadderObserves ==
    ASSUME TypeOK, TypeOK', UNCHANGED <<tier, Busy>>,
           covered \subseteq covered', Retired \subseteq Retired'
    PROVE  Ladder!Observe
<1>1. covered' \in SUBSET Points /\ Retired' \in SUBSET Points
  BY DEF TypeOK, Retired, Universe
<1> QED
  BY <1>1 DEF Ladder!Observe, Busy

LEMMA PollOnlyAdds ==
    ASSUME TypeOK, Poll
    PROVE  covered \subseteq covered' /\ Retired \subseteq Retired'
BY PollGrows DEF Retired

(* A failed call climbs or closes.                                         *)
LEMMA LadderFails ==
    ASSUME TypeOK, LiveVerdicts, aim \in Points, PromoteOrRetire(aim), aim' = NoTarget,
           UNCHANGED covered
    PROVE  Ladder!Climb \/ Ladder!Close
<1> USE TopIsNat, NoTargetIsNone
<1>1. tier[aim] \in 0..Top
  BY DEF TypeOK
<1>2. PICK quiet \in BOOLEAN : IF Promotable(aim, quiet) THEN Promote(aim) ELSE Retire(aim)
  BY DEF PromoteOrRetire
<1>3. CASE Promotable(aim, quiet)
  <2>1. tier[aim] < Top /\ Promote(aim)
    BY <1>2, <1>3 DEF Promotable
  <2> QED
    BY <2>1 DEF Ladder!Climb, Promote, Retired
<1>4. CASE ~Promotable(aim, quiet)
  <2>1. tier[aim] = Top \/ Siblings[aim] # {}
    BY <1>1, <1>4, NarrowIsLive DEF Promotable
  <2>2. Retired' = Retired \cup {aim} /\ UNCHANGED tier
    BY <1>2, <1>4 DEF Retire, Retired, TypeOK
  <2> QED
    BY <2>1, <2>2 DEF Ladder!Close
<1> QED
  BY <1>3, <1>4

LEMMA LadderStep == Books /\ Books' /\ [Next]_vars => [Ladder!LNext]_Ladder!lvars
<1> SUFFICES ASSUME Books, Books', [Next]_vars
             PROVE  [Ladder!LNext]_Ladder!lvars
  OBVIOUS
<1> USE NoTargetIsNone DEF loop, pool, cover
<1>0. TypeOK /\ TypeOK' /\ LiveVerdicts
  BY DEF Books
<1>a. ASSUME Ladder!Observe PROVE [Ladder!LNext]_Ladder!lvars
  BY <1>a DEF Ladder!LNext
<1>b. ASSUME UNCHANGED <<tier, covered, retired, aim>> PROVE [Ladder!LNext]_Ladder!lvars
  BY <1>b DEF Ladder!lvars, Retired
<1>1. CASE Replay
  BY <1>0, <1>1, <1>a, PollOnlyAdds, LadderObserves DEF Replay, Busy
<1>2. CASE JudgeProductive
  <2>1. UNCHANGED <<tier, covered, retired>> /\ aim' = NoTarget
    BY <1>2 DEF JudgeProductive
  <2>2. CASE aim \in Points
    <3>1. Ladder!Succeed
      BY <2>1, <2>2 DEF Ladder!Succeed, Retired
    <3> QED
      BY <3>1 DEF Ladder!LNext
  <2>3. CASE aim \notin Points
    BY <2>1, <2>3 DEF Ladder!lvars, Retired
  <2> QED
    BY <2>2, <2>3
<1>3. CASE JudgeUnproductive
  <2>1. CASE UnproductivePoint
    <3>1. aim \in Points /\ PromoteOrRetire(aim)
      BY <2>1 DEF UnproductivePoint, PromoteOrRetire
    <3>2. Ladder!Climb \/ Ladder!Close
      BY <1>0, <1>3, <3>1, LadderFails DEF JudgeUnproductive
    <3> QED
      BY <3>2 DEF Ladder!LNext
  <2>2. CASE UnproductiveGoal
    <3>1. UNCHANGED <<tier, covered, retired>> /\ aim \notin Points /\ aim' \notin Points
      BY <1>3, <2>2 DEF JudgeUnproductive, UnproductiveGoal
    <3> QED
      BY <3>1 DEF Ladder!lvars, Retired
  <2> QED
    BY <1>3, <2>1, <2>2 DEF JudgeUnproductive
<1>4. CASE MutationBurst
  BY <1>4, <1>b DEF MutationBurst
<1>5. ASSUME NEW stalled \in BOOLEAN, RandomBatch(stalled)
      PROVE  [Ladder!LNext]_Ladder!lvars
  BY <1>0, <1>5, <1>a, PollOnlyAdds, LadderObserves DEF RandomBatch, Busy
<1>6. CASE PickPoint
  <2>1. PICK p \in Offers \ {NoTarget} : Aim(p)
    BY <1>6 DEF PickPoint
  <2>2. p \in Points \ (covered \cup Retired)
    BY <2>1, OffersOpen
  <2>3. aim' \in {p, NoTarget} /\ aim = NoTarget /\ UNCHANGED <<tier, covered, retired>>
    BY <1>0, <1>6, <2>1, <2>2, AimCounts DEF PickPoint, Targets, TypeOK
  <2>4. CASE aim' = NoTarget
    BY <1>b, <2>3, <2>4
  <2>5. CASE aim' = p
    <3>1. Ladder!Start(p)
      BY <2>2, <2>3, <2>5 DEF Ladder!Start, Retired
    <3> QED
      BY <2>2, <3>1 DEF Ladder!LNext
  <2> QED
    BY <2>3, <2>4, <2>5
<1>7. CASE PickGoal
  <2>1. aim = NoTarget /\ aim' \notin Points
    <3>1. CASE OpenGoals = {}
      BY <1>0, <1>7, <3>1 DEF PickGoal, TypeOK
    <3>2. CASE OpenGoals # {}
      <4>1. PICK g \in OpenGoals : Aim(g)
        BY <1>7, <3>2 DEF PickGoal
      <4>2. g \in Goals /\ g \in Targets
        BY <1>0, <4>1 DEF OpenGoals, Targets, TypeOK
      <4> QED
        BY <1>0, <1>7, <4>1, <4>2, AimCounts DEF PickGoal, TypeOK
    <3> QED
      BY <3>1, <3>2
  <2>2. UNCHANGED <<tier, covered>>
    BY <1>7 DEF PickGoal
  <2>3. Retired \subseteq Retired'
    <3>1. \A p \in Points : retired[p] # "no" => retired'[p] # "no"
      BY <1>0, <1>7 DEF PickGoal, TypeOK
    <3> QED
      BY <3>1 DEF Retired
  <2> QED
    BY <1>0, <1>a, <2>1, <2>2, <2>3, LadderObserves DEF Busy
<1>8. CASE SolveSat
  BY <1>8, <1>b DEF SolveSat
<1>9. CASE SolveNone
  <2>1. CASE aim \in Goals
    <3>1. UNCHANGED <<tier, covered, retired>> /\ aim \notin Points /\ aim' \notin Points
      BY <1>9, <2>1 DEF SolveNone
    <3> QED
      BY <3>1 DEF Ladder!lvars, Retired
  <2>2. CASE aim \notin Goals
    <3>1. aim \in Points /\ PromoteOrRetire(aim)
      BY <1>0, <1>9, <2>2 DEF SolveNone, PromoteOrRetire, TypeOK, Targets
    <3>2. Ladder!Climb \/ Ladder!Close
      BY <1>0, <1>9, <3>1, LadderFails DEF SolveNone
    <3> QED
      BY <3>2 DEF Ladder!LNext
  <2> QED
    BY <2>1, <2>2
<1>10. CASE Timeout
  BY <1>10, <1>b DEF Timeout
<1>11. CASE SimulatorFails
  BY <1>11, <1>b DEF SimulatorFails
<1>12. CASE UNCHANGED vars
  BY <1>12, <1>b DEF vars
<1>13. CASE Seeds
  BY <1>0, <1>13, <1>a, PollOnlyAdds, LadderObserves DEF Seeds, Busy
<1> QED
  BY <1>1, <1>2, <1>3, <1>4, <1>5, <1>6, <1>7, <1>8, <1>9, <1>10, <1>11, <1>12, <1>13
     DEF Next, Progress

(* The campaign loop implements the tier machine of docs/ARCHITECTURE.md   *)
(* section 5: no step of run() moves a point in a way the ladder forbids.  *)
THEOREM CampaignImplementsLadder == Spec => ImplementsLadder
<1>1. Books /\ Books' /\ [Next]_vars => [Ladder!LNext]_Ladder!lvars
  BY LadderStep
<1> QED
  BY <1>1, LadderInit, BooksInvariant, PTL DEF Spec, ImplementsLadder, Ladder!LSpec

-----------------------------------------------------------------------------
(* What the counters and thresholds are worth.                             *)

(* StreakPaidFor is not inductive: a dead-signal sweep may retire the      *)
(* point whose replay is under way, and its failure is counted afterwards  *)
(* although no new target is given up.  What is inductive leaves the       *)
(* target being worked on out of the count.                                *)
GivenUp == Cardinality(Retired \ {aim}) + Cardinality(exhaustedGoals \ {aim})
Paid == streak <= GivenUp

LEMMA PoolsFinite ==
    ASSUME TypeOK
    PROVE  /\ IsFiniteSet(Retired \ {aim}) /\ IsFiniteSet(exhaustedGoals \ {aim})
           /\ IsFiniteSet(Retired) /\ IsFiniteSet(exhaustedGoals)
           /\ streak \in Nat
BY CampaignAssumption, FS_Subset DEF TypeOK, Retired

(* Steps that free no target and count no failure.                         *)
LEMMA PaidKept ==
    ASSUME TypeOK, TypeOK', Paid, streak' \in {0, streak},
           Retired \ {aim} \subseteq Retired' \ {aim'},
           exhaustedGoals \ {aim} \subseteq exhaustedGoals' \ {aim'}
    PROVE  Paid'
<1>1. /\ IsFiniteSet(Retired \ {aim}) /\ IsFiniteSet(exhaustedGoals \ {aim})
      /\ IsFiniteSet(Retired' \ {aim'}) /\ IsFiniteSet(exhaustedGoals' \ {aim'})
  BY CampaignAssumption, FS_Subset DEF TypeOK, Retired
<1>2. /\ Cardinality(Retired \ {aim}) <= Cardinality(Retired' \ {aim'})
      /\ Cardinality(exhaustedGoals \ {aim}) <= Cardinality(exhaustedGoals' \ {aim'})
  BY <1>1, FS_Subset
<1>3. /\ Cardinality(Retired \ {aim}) \in Nat /\ Cardinality(exhaustedGoals \ {aim}) \in Nat
      /\ Cardinality(Retired' \ {aim'}) \in Nat /\ Cardinality(exhaustedGoals' \ {aim'}) \in Nat
  BY <1>1, FS_CardinalityType
<1> QED
  BY <1>2, <1>3 DEF Paid, GivenUp, TypeOK

(* A counted failure gives up the target it was worked on.                 *)
LEMMA PaidByRetirement ==
    ASSUME TypeOK, TypeOK', Paid, streak' = streak + 1, aim' = NoTarget,
           \/ aim \in Points /\ Retired' = Retired \cup {aim} /\ UNCHANGED exhaustedGoals
           \/ aim \in Goals /\ exhaustedGoals' = exhaustedGoals \cup {aim} /\ UNCHANGED Retired
    PROVE  Paid'
<1> USE NoTargetIsNone
<1> DEFINE R == Retired \ {aim}
           G == exhaustedGoals \ {aim}
<1>1. IsFiniteSet(R) /\ IsFiniteSet(G) /\ streak \in Nat
  BY PoolsFinite
<1>2. Cardinality(R) \in Nat /\ Cardinality(G) \in Nat
  BY <1>1, FS_CardinalityType
<1>3. /\ Cardinality(R \cup {aim}) = Cardinality(R) + 1
      /\ Cardinality(G \cup {aim}) = Cardinality(G) + 1
  BY <1>1, FS_AddElement
<1>4. Retired' \subseteq Points /\ exhaustedGoals' \subseteq Goals
  BY DEF TypeOK, Retired
<1>5. Retired' \ {aim'} = Retired' /\ exhaustedGoals' \ {aim'} = exhaustedGoals'
  BY <1>4
<1>6. CASE aim \in Points
  <2>1. Retired' = R \cup {aim} /\ exhaustedGoals' = G
    BY <1>6 DEF TypeOK
  <2> QED
    BY <1>1, <1>2, <1>3, <1>5, <2>1 DEF Paid, GivenUp
<1>7. CASE aim \in Goals
  <2>1. Retired' = R /\ exhaustedGoals' = G \cup {aim}
    BY <1>7 DEF TypeOK, Retired
  <2> QED
    BY <1>1, <1>2, <1>3, <1>5, <2>1 DEF Paid, GivenUp
<1> QED
  BY <1>6, <1>7

LEMMA RetireRetires ==
    ASSUME TypeOK, aim \in Points, Retire(aim)
    PROVE  Retired' = Retired \cup {aim}
BY DEF Retire, Retired, TypeOK

LEMMA FailureRetires ==
    ASSUME TypeOK, aim \in Points, PromoteOrRetire(aim)
    PROVE  Retired \subseteq Retired'
<1>1. PICK quiet \in BOOLEAN : IF Promotable(aim, quiet) THEN Promote(aim) ELSE Retire(aim)
  BY DEF PromoteOrRetire
<1> QED
  BY <1>1, RetireRetires DEF Promote, Retired

LEMMA AimExhausts ==
    ASSUME NEW t \in Targets, Aim(t)
    PROVE  exhaustedGoals \subseteq exhaustedGoals'
BY DEF Aim, GiveUp, ForceMatch, Call

LEMMA PaidStep == TypeOK /\ TypeOK' /\ Paid /\ [Next]_vars => Paid'
<1> SUFFICES ASSUME TypeOK, TypeOK', Paid, [Next]_vars PROVE Paid'
  OBVIOUS
<1> USE NoTargetIsNone DEF loop, pool, cover
<1>a. ASSUME UNCHANGED <<retired, exhaustedGoals, aim>> PROVE UNCHANGED <<Retired, aim>>
  BY <1>a DEF Retired
<1>b. Retired \subseteq Points /\ exhaustedGoals \subseteq Goals
  BY DEF TypeOK, Retired
<1>1. CASE Replay
  BY <1>1, PollOnlyAdds, PaidKept DEF Replay
<1>2. CASE JudgeProductive
  BY <1>2, <1>b, PaidKept DEF JudgeProductive, Retired
<1>3. CASE JudgeUnproductive
  <2>1. CASE UnproductivePoint
    <3>1. PICK quiet \in BOOLEAN :
             IF Promotable(aim, quiet) THEN Promote(aim) /\ streak' = 0
             ELSE Retire(aim) /\ streak' = streak + 1
      BY <2>1 DEF UnproductivePoint
    <3>2. aim \in Points /\ aim' = NoTarget /\ UNCHANGED exhaustedGoals
      BY <1>3, <2>1 DEF JudgeUnproductive, UnproductivePoint
    <3>3. CASE Promotable(aim, quiet)
      BY <1>b, <3>1, <3>2, <3>3, PaidKept DEF Promote, Retired
    <3>4. CASE ~Promotable(aim, quiet)
      BY <3>1, <3>2, <3>4, RetireRetires, PaidByRetirement
    <3> QED
      BY <3>3, <3>4
  <2>2. CASE UnproductiveGoal
    <3>1. /\ aim \in Goals /\ aim' = NoTarget /\ streak' = streak + 1 /\ UNCHANGED Retired
          /\ exhaustedGoals' = exhaustedGoals \cup {aim}
      BY <1>3, <2>2 DEF JudgeUnproductive, UnproductiveGoal, Retired
    <3> QED
      BY <3>1, PaidByRetirement
  <2> QED
    BY <1>3, <2>1, <2>2 DEF JudgeUnproductive
<1>4. CASE MutationBurst
  BY <1>4, <1>a, PaidKept DEF MutationBurst
<1>5. ASSUME NEW stalled \in BOOLEAN, RandomBatch(stalled)
      PROVE  Paid'
  BY <1>5, PollOnlyAdds, PaidKept DEF RandomBatch
<1>6. CASE PickPoint
  <2>1. PICK p \in Offers \ {NoTarget} : Aim(p)
    BY <1>6 DEF PickPoint
  <2>2. p \in Points /\ p \notin Retired
    BY <2>1, OffersOpen
  <2>3. /\ aim' \in {p, NoTarget} /\ aim = NoTarget
        /\ exhaustedGoals \subseteq exhaustedGoals' /\ UNCHANGED <<Retired, streak>>
    BY <1>6, <2>1, <2>2, AimCounts, AimExhausts DEF PickPoint, Targets, TypeOK, Retired
  <2> QED
    BY <1>b, <2>2, <2>3, PaidKept
<1>7. CASE PickGoal
  <2>1. Retired \subseteq Retired' /\ UNCHANGED streak /\ aim = NoTarget
    <3>1. \A p \in Points : retired[p] # "no" => retired'[p] # "no"
      BY <1>7 DEF PickGoal, TypeOK
    <3> QED
      BY <1>7, <3>1 DEF PickGoal, Retired, TypeOK
  <2>2. CASE OpenGoals = {}
    BY <1>7, <2>1, <2>2, PaidKept DEF PickGoal
  <2>3. CASE OpenGoals # {}
    <3>1. PICK g \in OpenGoals : Aim(g)
      BY <1>7, <2>3 DEF PickGoal
    <3>2. g \in Goals /\ g \in Targets /\ g \notin exhaustedGoals
      BY <3>1 DEF OpenGoals, Targets, TypeOK
    <3>3. aim' \in {g, NoTarget} /\ exhaustedGoals \subseteq exhaustedGoals'
      BY <1>7, <3>1, <3>2, AimCounts, AimExhausts DEF PickGoal
    <3> QED
      BY <1>b, <2>1, <3>2, <3>3, PaidKept
  <2> QED
    BY <2>2, <2>3
<1>8. CASE SolveSat
  BY <1>8, <1>a, PaidKept DEF SolveSat
<1>9. CASE SolveNone
  <2>1. aim' = NoTarget /\ UNCHANGED streak
    BY <1>9 DEF SolveNone
  <2>2. Retired \subseteq Retired' /\ exhaustedGoals \subseteq exhaustedGoals'
    <3>1. CASE aim \in Goals
      BY <1>9, <3>1 DEF SolveNone, Retired
    <3>2. CASE aim \notin Goals
      BY <1>9, <3>2, FailureRetires DEF SolveNone, PromoteOrRetire, TypeOK, Targets
    <3> QED
      BY <3>1, <3>2
  <2> QED
    BY <1>b, <2>1, <2>2, PaidKept
<1>10. CASE Timeout
  BY <1>10, <1>a, PaidKept DEF Timeout
<1>11. CASE SimulatorFails
  BY <1>11, <1>a, PaidKept DEF SimulatorFails
<1>12. CASE UNCHANGED vars
  BY <1>12, <1>a, PaidKept DEF vars
<1>13. CASE Seeds
  BY <1>13, PollOnlyAdds, PaidKept DEF Seeds
<1> QED
  BY <1>1, <1>2, <1>3, <1>4, <1>5, <1>6, <1>7, <1>8, <1>9, <1>10, <1>11, <1>12, <1>13
     DEF Next, Progress

LEMMA PaidImplies == TypeOK /\ Paid => StreakPaidFor
<1> SUFFICES ASSUME TypeOK, Paid PROVE StreakPaidFor
  OBVIOUS
<1>1. /\ IsFiniteSet(Retired) /\ IsFiniteSet(exhaustedGoals)
      /\ IsFiniteSet(Retired \ {aim}) /\ IsFiniteSet(exhaustedGoals \ {aim})
      /\ streak \in Nat
  BY PoolsFinite
<1>2. /\ Cardinality(Retired \ {aim}) <= Cardinality(Retired)
      /\ Cardinality(exhaustedGoals \ {aim}) <= Cardinality(exhaustedGoals)
  BY <1>1, FS_Subset
<1>3. /\ Cardinality(Retired \ {aim}) \in Nat /\ Cardinality(exhaustedGoals \ {aim}) \in Nat
      /\ Cardinality(Retired) \in Nat /\ Cardinality(exhaustedGoals) \in Nat
  BY <1>1, FS_CardinalityType
<1> QED
  BY <1>1, <1>2, <1>3 DEF Paid, GivenUp, StreakPaidFor

(* bmc_unproductive_limit ends a campaign only after that many distinct    *)
(* points and goals were given up for good.                                *)
THEOREM StreakIsPaid == Spec => []StreakPaidFor
<1>1. Init => Paid
  <2> SUFFICES ASSUME Init PROVE Paid
    OBVIOUS
  <2>1. Retired = {} /\ exhaustedGoals = {} /\ streak = 0
    BY DEF Init, Retired
  <2> QED
    BY <2>1, FS_EmptySet DEF Paid, GivenUp
<1>2. TypeOK /\ TypeOK' /\ Paid /\ [Next]_vars => Paid'
  BY PaidStep
<1>3. TypeOK /\ Paid => StreakPaidFor
  BY PaidImplies
<1> QED
  BY <1>1, <1>2, <1>3, TypeCorrect, PTL DEF Spec

-----------------------------------------------------------------------------
(* A step keeps the property when it adds no narrow point, or exactly one  *)
(* that failed and that has a covered sibling.                             *)
LEMMA NarrowKept ==
    ASSUME NarrowHasLiveSibling, covered \subseteq covered',
           \A p \in Points : failed[p] \subseteq failed'[p],
           \A p \in Points : retired'[p] = "narrow" =>
               \/ retired[p] = "narrow"
               \/ failed'[p] # {} /\ Siblings[p] \cap covered # {}
    PROVE  NarrowHasLiveSibling'
BY DEF NarrowHasLiveSibling

LEMMA NarrowJudged ==
    ASSUME TypeOK, LiveVerdicts, NarrowHasLiveSibling, aim \in Points, PromoteOrRetire(aim),
           UNCHANGED covered
    PROVE  NarrowHasLiveSibling'
<1>1. PICK quiet \in BOOLEAN : IF Promotable(aim, quiet) THEN Promote(aim) ELSE Retire(aim)
  BY DEF PromoteOrRetire
<1>2. /\ \A p \in Points : failed[p] \subseteq failed'[p]
      /\ failed'[aim] # {}
  BY DEF PromoteOrRetire, NoteFailure, TypeOK
<1>3. CASE Promotable(aim, quiet)
  BY <1>1, <1>2, <1>3, NarrowKept DEF Promote
<1>4. CASE ~Promotable(aim, quiet)
  <2>1. tier[aim] < Top => Siblings[aim] \cap covered # {}
    BY <1>4, NarrowIsLive DEF Promotable
  <2>2. \A p \in Points : retired'[p] = "narrow" =>
            retired[p] = "narrow" \/ (p = aim /\ tier[aim] < Top)
    BY <1>1, <1>4 DEF Retire, TypeOK
  <2> QED
    BY <1>2, <2>1, <2>2, NarrowKept
<1> QED
  BY <1>3, <1>4

LEMMA NarrowPolled ==
    ASSUME TypeOK, NarrowHasLiveSibling, Poll, UNCHANGED failed
    PROVE  NarrowHasLiveSibling'
<1>1. \A p \in Points : retired'[p] = "narrow" => retired[p] = "narrow"
  BY PollGrows
<1> QED
  BY <1>1, PollGrows, NarrowKept

LEMMA NarrowStep == Books /\ NarrowHasLiveSibling /\ [Next]_vars => NarrowHasLiveSibling'
<1> SUFFICES ASSUME TypeOK, LiveVerdicts, NarrowHasLiveSibling, [Next]_vars PROVE NarrowHasLiveSibling'
  BY DEF Books
<1> USE DEF loop, pool, cover
<1>a. ASSUME UNCHANGED <<covered, failed>>,
             \A p \in Points : retired'[p] = "narrow" => retired[p] = "narrow"
      PROVE  NarrowHasLiveSibling'
  BY <1>a, NarrowKept
<1>1. CASE Replay
  BY <1>1, NarrowPolled DEF Replay
<1>2. CASE JudgeProductive
  BY <1>2, <1>a DEF JudgeProductive
<1>3. CASE JudgeUnproductive
  <2>1. CASE UnproductivePoint
    BY <1>3, <2>1, NarrowJudged DEF JudgeUnproductive, UnproductivePoint, PromoteOrRetire
  <2>2. CASE UnproductiveGoal
    BY <1>3, <2>2, <1>a DEF JudgeUnproductive, UnproductiveGoal
  <2> QED
    BY <1>3, <2>1, <2>2 DEF JudgeUnproductive
<1>4. CASE MutationBurst
  BY <1>4, <1>a DEF MutationBurst
<1>5. ASSUME NEW stalled \in BOOLEAN, RandomBatch(stalled)
      PROVE  NarrowHasLiveSibling'
  BY <1>5, NarrowPolled DEF RandomBatch
<1>6. CASE PickPoint
  BY <1>6, <1>a DEF PickPoint
<1>7. CASE PickGoal
  <2>1. UNCHANGED <<covered, failed>>
    BY <1>7 DEF PickGoal
  <2>2. \A p \in Points : retired'[p] = "narrow" => retired[p] = "narrow"
    BY <1>7 DEF PickGoal, TypeOK
  <2> QED
    BY <1>a, <2>1, <2>2
<1>8. CASE SolveSat
  BY <1>8, <1>a DEF SolveSat
<1>9. CASE SolveNone
  <2>1. CASE aim \in Goals
    BY <1>9, <2>1, <1>a DEF SolveNone
  <2>2. CASE aim \notin Goals
    BY <1>9, <2>2, NarrowJudged DEF SolveNone, PromoteOrRetire, TypeOK, Targets
  <2> QED
    BY <2>1, <2>2
<1>10. CASE Timeout
  BY <1>10, <1>a DEF Timeout
<1>11. CASE SimulatorFails
  BY <1>11, <1>a DEF SimulatorFails
<1>12. CASE UNCHANGED vars
  BY <1>12, <1>a DEF vars
<1>13. CASE Seeds
  BY <1>13, NarrowPolled DEF Seeds
<1> QED
  BY <1>1, <1>2, <1>3, <1>4, <1>5, <1>6, <1>7, <1>8, <1>9, <1>10, <1>11, <1>12, <1>13
     DEF Next, Progress

(* A point withheld from promotion as narrow-effective always has a sibling *)
(* that toggled: signals nobody exercised are never capped by that rule.   *)
THEOREM NarrowIsAlive == Spec => []NarrowHasLiveSibling
<1>1. Init => NarrowHasLiveSibling
  BY DEF Init, NarrowHasLiveSibling
<1>2. Books /\ NarrowHasLiveSibling /\ [Next]_vars => NarrowHasLiveSibling'
  BY NarrowStep
<1> QED
  BY <1>1, <1>2, BooksInvariant, PTL DEF Spec

-----------------------------------------------------------------------------
(* The fetch holds every uncovered toggle when they fit into its limit.    *)
LEMMA TogglesFetched ==
    ASSUME NEW F \in Fetches, TypeOK,
           Cardinality({q \in Universe \ covered : IsToggle(q)}) <= FetchLimit
    PROVE  {q \in Universe \ covered : IsToggle(q)} \subseteq F
<1> DEFINE uncovered == Universe \ covered
           toggles == {p \in uncovered : IsToggle(p)}
           n == FetchLimit
<1>0. IsFiniteSet(toggles) /\ Cardinality(toggles) \in Nat /\ n \in Nat
  <2>1. IsFiniteSet(Points) /\ toggles \subseteq Points
    BY CampaignAssumption, UniverseIsPoints
  <2> QED
    BY <2>1, CampaignAssumption, FS_Subset, FS_CardinalityType
<1>1. CASE Cardinality(uncovered) <= n
  BY <1>1 DEF Fetches
<1>2. CASE ~(Cardinality(uncovered) <= n) /\ Cardinality(toggles) >= n
  <2>1. Cardinality(toggles) = n
    BY <1>0, <1>2
  <2>2. F \subseteq toggles /\ Cardinality(F) = n
    BY <1>2 DEF Fetches, kSubset
  <2> QED
    BY <1>0, <2>1, <2>2, FS_Subset
<1>3. CASE ~(Cardinality(uncovered) <= n) /\ ~(Cardinality(toggles) >= n)
  BY <1>3 DEF Fetches
<1> QED
  BY <1>1, <1>2, <1>3

(* Whatever the universe, open toggles are offered before anything that    *)
(* costs more, and the picker does not run out of points while one is open *)
(* - as long as the uncovered toggles, retired ones included, fit into the *)
(* 256 rows of the query.                                                  *)
THEOREM OpenTogglesAreSeen == Spec => []TogglesNotCrowdedOut
<1>1. TypeOK => TogglesNotCrowdedOut
  <2> SUFFICES ASSUME TypeOK, Cardinality({x \in Universe \ covered : IsToggle(x)}) <= FetchLimit,
                      NEW q \in Universe \ (covered \cup Retired), NEW p \in Offers, IsToggle(q)
               PROVE  p # NoTarget /\ tier[p] <= tier[q] /\ (tier[p] = tier[q] => IsToggle(p))
    BY DEF TogglesNotCrowdedOut
  <2>1. PICK F \in Fetches :
           p \in IF F \ Retired = {} THEN {NoTarget} ELSE Cheapest(F \ Retired)
    BY DEF Offers
  <2>2. q \in F \ Retired
    BY TogglesFetched
  <2>3. p \in Cheapest(F \ Retired)
    BY <2>1, <2>2
  <2>4. p \in Points /\ q \in Points
    BY <2>3, FetchesUncovered, UniverseIsPoints DEF Cheapest
  <2>5. tier[p] \in Int /\ tier[q] \in Int
    BY <2>4, TopIsNat DEF TypeOK
  <2>6. tier[p] < tier[q] \/ (tier[p] = tier[q] /\ (IsToggle(q) => IsToggle(p)))
    BY <2>2, <2>3 DEF Cheapest
  <2> QED
    BY <2>4, <2>5, <2>6, CampaignAssumption
<1> QED
  BY <1>1, TypeCorrect, PTL
=============================================================================
