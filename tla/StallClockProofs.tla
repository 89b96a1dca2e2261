-------------------------- MODULE StallClockProofs --------------------------
(***************************************************************************)
(* For every batch size, replay depth, threshold, poll cadence and command *)
(* line: until a replay sets global_cycle back the gates measure what was  *)
(* simulated, and after it they are never late.  Two facts carry this: as  *)
(* long as no replay came, global_cycle less the stamp of the last event   *)
(* is the number of cycles since that event, or one more; and a replay     *)
(* comes only when the stall gate was open, which it then stays until the  *)
(* next event.                                                             *)
(***************************************************************************)
EXTENDS StallClock, TLAPS

(* The stamp the stall gate of a source looks at, before the first replay. *)
Event == CASE options.source = "native"      -> lastNative
           [] options.source = "value_class" -> lastDiversified
           [] OTHER                          -> lastNew

(* The stamp it looks at, in general.                                      *)
Mark == CASE options.source = "tuple"  -> lastNew
          [] options.source = "native" -> lastNative
          [] OTHER                     -> Larger(lastNew, lastNative)

Patient == ~options.bias /\ options.source # "value_class"

Stages ==
    /\ phase \in {"seed", "poll"} => ~replayed /\ options.seeds /\ stamp = -1
    /\ phase = "judge" => replayed
    /\ phase \in {"stalled", "decide"} /\ Patient => Stall >= StallCycles

(* Before the first replay.                                                *)
Exact ==
    /\ cycle <= globalCycle
    /\ lastNative <= lastNew
    /\ nativeIdle = globalCycle - lastNative
    /\ swept => nativeIdle >= QuietCycles
    /\ stamp <= lastNative
    /\ stamp = lastNative => cachedAt = version
    /\ Event + idle <= globalCycle
    /\ globalCycle <= Event + idle + Early

(* Always: the gate is open, or would be in time.                          *)
InTime ==
    Patient => Stall >= StallCycles \/ idle <= globalCycle - Mark

(* Between the computation of the stall and its use.                       *)
Verdict ==
    /\ phase = "running" /\ ~replayed => idle < StallCycles + pass
    /\ phase = "stalled" /\ ~replayed /\ idle >= pass =>
          idle + Early >= StallCycles + pass
    /\ phase = "running" /\ Patient => idle < StallCycles

IInv ==
    /\ TypeOK
    /\ Stages
    /\ Verdict
    /\ ~replayed => Exact
    /\ InTime

-----------------------------------------------------------------------------
LEMMA SourceOf ==
    ASSUME TypeOK
    PROVE  /\ options.source \in {"tuple", "native", "any", "value_class"}
           /\ options.seeds \in BOOLEAN /\ options.bias \in BOOLEAN
           /\ Early \in {0, 1}
           /\ Stall \in Int
  <1>1. options \in [source : {"tuple", "native", "any", "value_class"},
                     seeds : BOOLEAN, bias : BOOLEAN, precheck : BOOLEAN]
    BY StallClockAssumption DEF TypeOK
  <1> QED
    BY <1>1 DEF Early, Stall, TypeOK, Larger

(* What one batch does to the types.                                       *)
LEMMA SimulateTypes ==
    ASSUME TypeOK, NEW n \in Nat, NEW base \in Nat, NEW i \in 0..n,
           NEW polls \in BOOLEAN, NEW found \in BOOLEAN, NEW diversified \in BOOLEAN,
           Simulate(n, base, i, polls, found, diversified)
    PROVE  /\ globalCycle' \in Nat /\ cycle' \in Nat /\ lastNew' \in Nat /\ lastNative' \in Nat
           /\ lastDiversified' \in Nat /\ swept' \in BOOLEAN /\ version' \in Nat
           /\ idle' \in Nat /\ nativeIdle' \in Nat /\ finds' \in Nat
  <1>1. finds' \in Nat
    BY DEF Simulate, Spend, TypeOK
  <1>2. idle' \in Nat /\ nativeIdle' \in Nat /\ version' \in Nat
    BY DEF Simulate, IdleAfter, TypeOK
  <1>3. globalCycle' \in Nat /\ cycle' \in Nat /\ lastNew' \in Nat /\ lastNative' \in Nat
    BY DEF Simulate, Recorded, Snapshot, Larger, TypeOK
  <1>4. lastDiversified' \in Nat
    BY DEF Simulate, TypeOK
  <1>5. swept' \in BOOLEAN
    BY StallClockAssumption DEF Simulate, Sweeps
  <1> QED
    BY <1>1, <1>2, <1>3, <1>4, <1>5

LEMMA SimulateEarlyTypes ==
    ASSUME TypeOK, NEW n \in Nat, NEW i \in 0..n, SimulateEarly(n, i)
    PROVE  /\ globalCycle' \in Nat /\ cycle' \in Nat /\ lastNew' \in Nat /\ lastNative' \in Nat
           /\ lastDiversified' \in Nat /\ swept' \in BOOLEAN /\ version' \in Nat
           /\ idle' \in Nat /\ nativeIdle' \in Nat /\ finds' \in Nat
  <1>1. finds' \in Nat
    BY DEF SimulateEarly, Spend, TypeOK
  <1>2. idle' \in Nat /\ nativeIdle' \in Nat
    BY DEF SimulateEarly, IdleAfter, TypeOK
  <1>3. cycle' \in Nat /\ lastNew' \in Nat /\ globalCycle' \in Nat
    BY DEF SimulateEarly, Recorded, Larger, TypeOK
  <1> QED
    BY <1>1, <1>2, <1>3 DEF SimulateEarly, TypeOK

(* What a batch from global_cycle on does to the clocks.                   *)
LEMMA SimulateClocks ==
    ASSUME TypeOK, NEW n \in Nat, NEW base \in Nat, NEW i \in 0..n,
           NEW polls \in BOOLEAN, NEW found \in BOOLEAN, NEW diversified \in BOOLEAN,
           Simulate(n, base, i, polls, found, diversified)
    PROVE  /\ globalCycle' = base + n
           /\ cycle' >= cycle /\ cycle' >= base + n
           /\ cycle <= base + n => cycle' = base + n
           /\ lastNew' = IF found THEN base + n ELSE IF i > 0 THEN base + i ELSE lastNew
           /\ lastNative' = IF found THEN base + n ELSE lastNative
           /\ lastDiversified' = IF diversified THEN base + n ELSE lastDiversified
           /\ swept' = (polls /\ cycle' - lastNative' >= QuietCycles)
           /\ version' = IF found THEN version + 1 ELSE version
           /\ options.source \in {"tuple", "any"} =>
                 idle' = IF found THEN 0 ELSE IF i > 0 THEN n - i ELSE idle + n
           /\ options.source = "native" => idle' = IF found THEN 0 ELSE idle + n
           /\ options.source = "value_class" => idle' = IF diversified THEN 0 ELSE idle + n
           /\ nativeIdle' = IF found THEN 0 ELSE nativeIdle + n
  <1>1. cycle' >= cycle /\ cycle' >= base + n /\ (cycle <= base + n => cycle' = base + n)
    BY DEF Simulate, Recorded, Snapshot, Larger, TypeOK
  <1>2. /\ lastNew' = IF found THEN base + n ELSE IF i > 0 THEN base + i ELSE lastNew
        /\ lastNative' = IF found THEN base + n ELSE lastNative
    BY DEF Simulate, Recorded, Snapshot
  <1>3. swept' = (polls /\ cycle' - lastNative' >= QuietCycles)
    BY DEF Simulate, Sweeps, Recorded, Snapshot
  <1>4. idle' = IdleAfter(n, i, found, diversified)
    BY DEF Simulate
  <1> QED
    BY <1>1, <1>2, <1>3, <1>4 DEF Simulate, IdleAfter

(* The same for a run whose states carry cycles one too low.               *)
LEMMA SimulateEarlyClocks ==
    ASSUME TypeOK, NEW n \in Nat, NEW i \in 0..n, SimulateEarly(n, i)
    PROVE  /\ globalCycle' = globalCycle + n
           /\ cycle' >= cycle
           /\ cycle <= globalCycle + n => cycle' <= globalCycle + n
           /\ lastNew' = IF i > 0 THEN globalCycle - 1 + i ELSE lastNew
           /\ options.source \in {"tuple", "any"} => idle' = IF i > 0 THEN n - i ELSE idle + n
           /\ options.source = "native" => idle' = idle + n
           /\ options.source = "value_class" => idle' = idle + n
           /\ nativeIdle' = nativeIdle + n
           /\ UNCHANGED <<lastNative, lastDiversified, version, swept>>
  <1>1. idle' = IdleAfter(n, i, FALSE, FALSE)
    BY DEF SimulateEarly
  <1>2. /\ options.source \in {"tuple", "any"} => idle' = IF i > 0 THEN n - i ELSE idle + n
        /\ options.source = "native" => idle' = idle + n
        /\ options.source = "value_class" => idle' = idle + n
    BY <1>1 DEF IdleAfter
  <1>3. /\ cycle' >= cycle
        /\ cycle <= globalCycle + n => cycle' <= globalCycle + n
    BY DEF SimulateEarly, Recorded, Larger, TypeOK
  <1> QED
    BY <1>2, <1>3 DEF SimulateEarly, Recorded

-----------------------------------------------------------------------------
(* Exactness is kept by batches from global_cycle on.                      *)
LEMMA SimulateExact ==
    ASSUME TypeOK, Exact, options' = options, UNCHANGED cache,
           NEW n \in Nat, NEW i \in 0..n,
           NEW polls \in BOOLEAN, NEW found \in BOOLEAN, NEW diversified \in BOOLEAN,
           diversified => options.source = "value_class",
           n > 0 \/ stamp = -1,
           Simulate(n, globalCycle, i, polls, found, diversified)
    PROVE  Exact'
  <1>1. /\ globalCycle \in Nat /\ cycle \in Nat /\ lastNew \in Nat /\ lastNative \in Nat
        /\ lastDiversified \in Nat /\ idle \in Nat /\ nativeIdle \in Nat
        /\ stamp \in Nat \cup {-1} /\ QuietCycles \in Nat
        /\ version \in Nat
    BY StallClockAssumption DEF TypeOK
  <1>2. /\ options.source \in {"tuple", "native", "any", "value_class"}
        /\ Early \in {0, 1} /\ Early' = Early
    BY SourceOf DEF Early
  <1>3. /\ globalCycle' = globalCycle + n
        /\ cycle' = globalCycle + n
        /\ lastNew' = IF found THEN globalCycle + n ELSE IF i > 0 THEN globalCycle + i ELSE lastNew
        /\ lastNative' = IF found THEN globalCycle + n ELSE lastNative
        /\ lastDiversified' = IF diversified THEN globalCycle + n ELSE lastDiversified
        /\ swept' = (polls /\ cycle' - lastNative' >= QuietCycles)
        /\ version' = IF found THEN version + 1 ELSE version
        /\ options.source \in {"tuple", "any"} =>
              idle' = IF found THEN 0 ELSE IF i > 0 THEN n - i ELSE idle + n
        /\ options.source = "native" => idle' = IF found THEN 0 ELSE idle + n
        /\ options.source = "value_class" => idle' = IF diversified THEN 0 ELSE idle + n
        /\ nativeIdle' = IF found THEN 0 ELSE nativeIdle + n
    BY <1>1, SimulateClocks DEF Exact
  <1>4. lastNative <= globalCycle /\ stamp <= lastNative /\ lastNative <= lastNew
    BY <1>1 DEF Exact
  <1>5. cycle' <= globalCycle' /\ nativeIdle' = globalCycle' - lastNative'
    BY <1>1, <1>3 DEF Exact
  <1>6. lastNative' <= lastNew'
    BY <1>1, <1>3, <1>4
  <1>7. swept' => nativeIdle' >= QuietCycles
    BY <1>1, <1>3, <1>5
  <1>8. stamp' <= lastNative' /\ (stamp' = lastNative' => cachedAt' = version')
    BY <1>1, <1>3, <1>4 DEF Exact, cache
  <1>9. Event' + idle' <= globalCycle' /\ globalCycle' <= Event' + idle' + Early'
    <2>1. CASE options.source \in {"tuple", "any"}
      <3>1. Event = lastNew /\ Event' = lastNew'
        BY <2>1 DEF Event
      <3>2. idle' = IF found THEN 0 ELSE IF i > 0 THEN n - i ELSE idle + n
        BY <1>3, <2>1
      <3> QED
        BY <1>1, <1>2, <1>3, <3>1, <3>2 DEF Exact
    <2>2. CASE options.source = "native"
      <3>1. Event = lastNative /\ Event' = lastNative'
        BY <2>2 DEF Event
      <3>2. idle' = IF found THEN 0 ELSE idle + n
        BY <1>3, <2>2
      <3> QED
        BY <1>1, <1>2, <1>3, <3>1, <3>2 DEF Exact
    <2>3. CASE options.source = "value_class"
      <3>1. Event = lastDiversified /\ Event' = lastDiversified'
        BY <2>3 DEF Event
      <3>2. idle' = IF diversified THEN 0 ELSE idle + n
        BY <1>3, <2>3
      <3> QED
        BY <1>1, <1>2, <1>3, <3>1, <3>2 DEF Exact
    <2> QED
      BY <1>2, <2>1, <2>2, <2>3
  <1> QED
    BY <1>5, <1>6, <1>7, <1>8, <1>9 DEF Exact

(* And, but for the one cycle, by runs without a poll.                     *)
LEMMA SimulateEarlyExact ==
    ASSUME TypeOK, Exact, options' = options, UNCHANGED cache, Early = 1,
           NEW n \in Nat, NEW i \in 0..n, SimulateEarly(n, i)
    PROVE  Exact'
  <1>1. /\ globalCycle \in Nat /\ cycle \in Nat /\ lastNew \in Nat /\ lastNative \in Nat
        /\ lastDiversified \in Nat /\ idle \in Nat /\ nativeIdle \in Nat
        /\ stamp \in Nat \cup {-1} /\ QuietCycles \in Nat
    BY StallClockAssumption DEF TypeOK
  <1>2. /\ options.source \in {"tuple", "native", "any", "value_class"}
        /\ Early' = 1
    BY SourceOf DEF Early
  <1>3. /\ globalCycle' = globalCycle + n
        /\ cycle' <= globalCycle + n
        /\ lastNew' = IF i > 0 THEN globalCycle - 1 + i ELSE lastNew
        /\ options.source \in {"tuple", "any"} => idle' = IF i > 0 THEN n - i ELSE idle + n
        /\ options.source = "native" => idle' = idle + n
        /\ options.source = "value_class" => idle' = idle + n
        /\ nativeIdle' = nativeIdle + n
        /\ UNCHANGED <<lastNative, lastDiversified, version, swept>>
    <2>1. cycle <= globalCycle + n
      BY <1>1 DEF Exact
    <2> QED
      BY <2>1, SimulateEarlyClocks
  <1>4. /\ cycle' <= globalCycle' /\ nativeIdle' = globalCycle' - lastNative'
        /\ swept' => nativeIdle' >= QuietCycles
        /\ stamp' <= lastNative' /\ (stamp' = lastNative' => cachedAt' = version')
    BY <1>1, <1>3 DEF Exact, cache
  <1>5. lastNative' <= lastNew'
    <2>1. nativeIdle = 0 \/ nativeIdle > 0
      BY <1>1
    <2>2. lastNative <= lastNew /\ lastNative <= globalCycle
      BY <1>1 DEF Exact
    <2> QED
      BY <1>1, <1>3, <2>2
  <1>6. Event' + idle' <= globalCycle' /\ globalCycle' <= Event' + idle' + Early'
    <2>1. CASE options.source \in {"tuple", "any"}
      <3>1. Event = lastNew /\ Event' = lastNew'
        BY <2>1 DEF Event
      <3>2. idle' = IF i > 0 THEN n - i ELSE idle + n
        BY <1>3, <2>1
      <3> QED
        BY <1>1, <1>2, <1>3, <3>1, <3>2 DEF Exact
    <2>2. CASE options.source = "native"
      <3>1. Event = lastNative /\ Event' = lastNative'
        BY <2>2 DEF Event
      <3>2. idle' = idle + n
        BY <1>3, <2>2
      <3> QED
        BY <1>1, <1>2, <1>3, <3>1, <3>2 DEF Exact
    <2>3. CASE options.source = "value_class"
      <3>1. Event = lastDiversified /\ Event' = lastDiversified'
        BY <2>3 DEF Event
      <3>2. idle' = idle + n
        BY <1>3, <2>3
      <3> QED
        BY <1>1, <1>2, <1>3, <3>1, <3>2 DEF Exact
    <2> QED
      BY <1>2, <2>1, <2>2, <2>3
  <1> QED
    BY <1>4, <1>5, <1>6 DEF Exact

-----------------------------------------------------------------------------
(* The stall of a patient command line, and what it is measured from.      *)
LEMMA StallGrows ==
    ASSUME NEW stall \in Int, NEW now \in Int, NEW then \in Int,
           NEW mark \in Int, NEW earlier \in Int,
           now - mark >= stall, then >= now, earlier <= mark
    PROVE  then - earlier >= stall
  OBVIOUS

LEMMA Between ==
    ASSUME NEW idling \in Int, NEW now \in Int, NEW then \in Int, NEW slack \in {0, 1},
           NEW stall \in Int,
           then + idling <= now, now <= then + idling + slack
    PROVE  /\ idling >= stall => now - then >= stall
           /\ now - then >= stall => idling + slack >= stall
  OBVIOUS

LEMMA Reaches ==
    ASSUME NEW idling \in Int, NEW now \in Int, NEW later \in Int, NEW mark \in Int,
           NEW stall \in Int,
           idling >= stall, idling <= now - mark, now <= later
    PROVE  later - mark >= stall
  OBVIOUS

LEMMA IdleGrows ==
    ASSUME NEW idling \in Int, NEW now \in Int, NEW mark \in Int, NEW more \in Int,
           idling <= now - mark
    PROVE  idling + more <= now + more - mark
  OBVIOUS

LEMMA StallOf ==
    ASSUME TypeOK, Patient
    PROVE  Stall = cycle - Mark /\ Mark \in Nat
  <1>1. options.source \in {"tuple", "native", "any"}
    BY SourceOf DEF Patient
  <1> QED
    BY <1>1 DEF Stall, Mark, Larger, TypeOK

(* A batch keeps the gate in time, from global_cycle on, or from 0 when    *)
(* the gate was open.                                                      *)
LEMMA SimulateInTime ==
    ASSUME TypeOK, TypeOK', InTime, options' = options,
           NEW n \in Nat, NEW base \in Nat, NEW i \in 0..n,
           NEW polls \in BOOLEAN, NEW found \in BOOLEAN, NEW diversified \in BOOLEAN,
           base = globalCycle \/ (Patient => Stall >= StallCycles),
           Simulate(n, base, i, polls, found, diversified)
    PROVE  InTime'
  <1> SUFFICES ASSUME Patient
               PROVE  cycle' - Mark' >= StallCycles \/ idle' <= globalCycle' - Mark'
    <2>1. Patient' => options'.source \in {"tuple", "native", "any"}
      BY SourceOf DEF Patient
    <2>2. Patient' => Patient /\ Stall' = cycle' - Mark'
      BY <2>1 DEF Patient, Stall, Mark
    <2> QED
      BY <2>2 DEF InTime
  <1>1. /\ globalCycle \in Nat /\ cycle \in Nat /\ lastNew \in Nat /\ lastNative \in Nat
        /\ idle \in Nat /\ StallCycles \in Nat
    BY StallClockAssumption DEF TypeOK
  <1>2. options.source \in {"tuple", "native", "any"}
    BY SourceOf DEF Patient
  <1>3. Stall = cycle - Mark /\ Mark \in Nat /\ cycle' \in Nat
    <2>1. cycle' \in Nat
      BY DEF TypeOK
    <2> QED
      BY <2>1, StallOf
  <1>4. /\ globalCycle' = base + n
        /\ cycle' >= cycle
        /\ lastNew' = IF found THEN base + n ELSE IF i > 0 THEN base + i ELSE lastNew
        /\ lastNative' = IF found THEN base + n ELSE lastNative
        /\ options.source \in {"tuple", "any"} =>
              idle' = IF found THEN 0 ELSE IF i > 0 THEN n - i ELSE idle + n
        /\ options.source = "native" => idle' = IF found THEN 0 ELSE idle + n
        /\ options.source = "value_class" => idle' = IF diversified THEN 0 ELSE idle + n
    BY SimulateClocks
  <1>5. \/ cycle - Mark >= StallCycles
        \/ base = globalCycle /\ idle <= globalCycle - Mark
    BY <1>3 DEF InTime
  <1>6. \/ cycle' - Mark >= StallCycles
        \/ base = globalCycle /\ idle <= globalCycle - Mark
    <2>1. cycle \in Int /\ cycle' \in Int /\ Mark \in Int /\ StallCycles \in Int /\ Mark <= Mark
      BY <1>1, <1>3
    <2>2. cycle' >= cycle
      BY <1>4
    <2> QED
      BY <1>5, <2>1, <2>2, StallGrows
  <1>7. cycle' - Mark >= StallCycles \/ idle + n <= base + n - Mark
    <2>1. idle \in Int /\ globalCycle \in Int /\ Mark \in Int /\ n \in Int
      BY <1>1, <1>3
    <2> QED
      BY <1>6, <2>1, IdleGrows
  <1>8. Mark' = Mark /\ idle' = idle + n =>
            cycle' - Mark' >= StallCycles \/ idle' <= globalCycle' - Mark'
    <2> SUFFICES ASSUME Mark' = Mark, idle' = idle + n
                 PROVE  cycle' - Mark' >= StallCycles \/ idle' <= globalCycle' - Mark'
      OBVIOUS
    <2>1. CASE cycle' - Mark >= StallCycles
      BY ONLY <2>1, Mark' = Mark
    <2>2. CASE idle + n <= base + n - Mark
      <3>1. globalCycle' = base + n
        BY <1>4
      <3>2. idle \in Int /\ globalCycle \in Int /\ Mark \in Int
        BY <1>1, <1>3
      <3>3. idle' <= globalCycle' - Mark'
        BY <2>2, <3>1, <3>2
      <3> QED
        BY <3>3
    <2> QED
      BY <1>7, <2>1, <2>2
  <1>9. CASE options.source = "tuple"
    <2>1. Mark = lastNew /\ Mark' = lastNew'
      BY <1>9 DEF Mark
    <2>2. idle' = IF found THEN 0 ELSE IF i > 0 THEN n - i ELSE idle + n
      BY <1>4, <1>9
    <2>3. CASE found \/ i > 0
      BY <1>1, <1>4, <2>1, <2>2, <2>3
    <2>4. CASE ~found /\ i = 0
      BY <1>4, <1>8, <2>1, <2>2, <2>4
    <2> QED
      BY <2>3, <2>4
  <1>10. CASE options.source = "native"
    <2>1. Mark = lastNative /\ Mark' = lastNative'
      BY <1>10 DEF Mark
    <2>2. idle' = IF found THEN 0 ELSE idle + n
      BY <1>4, <1>10
    <2>3. CASE found
      BY <1>1, <1>4, <2>1, <2>2, <2>3
    <2>4. CASE ~found
      BY <1>4, <1>8, <2>1, <2>2, <2>4
    <2> QED
      BY <2>3, <2>4
  <1>11. CASE options.source = "any"
    <2>1. Mark = Larger(lastNew, lastNative) /\ Mark' = Larger(lastNew', lastNative')
      BY <1>11 DEF Mark
    <2>2. idle' = IF found THEN 0 ELSE IF i > 0 THEN n - i ELSE idle + n
      BY <1>4, <1>11
    <2>3. CASE found
      BY <1>1, <1>3, <1>4, <2>1, <2>2, <2>3 DEF Larger
    <2>4. CASE ~found /\ i > 0
      <3>1. lastNew' = base + i /\ lastNative' = lastNative /\ idle' = n - i
        BY <1>4, <2>2, <2>4
      <3>2. CASE base + i >= lastNative
        <4>1. Mark' = base + i
          BY <1>1, <2>1, <3>1, <3>2 DEF Larger
        <4> QED
          BY <1>4, <3>1, <4>1
      <3>3. CASE base + i < lastNative
        <4>1. Mark' = lastNative /\ lastNative <= Mark
          BY <1>1, <2>1, <3>1, <3>3 DEF Larger
        <4>2. cycle - Mark >= StallCycles
          BY <1>1, <1>3, <1>5, <2>4, <3>3, <4>1
        <4>3. cycle' >= cycle
          BY <1>4
        <4>4. cycle' - lastNative >= StallCycles
          <5>1. cycle \in Int /\ cycle' \in Int /\ Mark \in Int /\ lastNative \in Int /\ StallCycles \in Int
            BY <1>1, <1>3
          <5>2. lastNative <= Mark
            BY <4>1
          <5> QED
            BY <4>2, <4>3, <5>1, <5>2, StallGrows
        <4> QED
          BY <4>1, <4>4
      <3> QED
        BY <1>1, <3>2, <3>3
    <2>5. CASE ~found /\ i = 0
      <3>1. Mark' = Mark /\ idle' = idle + n
        BY <1>4, <2>1, <2>2, <2>5
      <3> QED
        BY <1>8, <3>1
    <2> QED
      BY <2>3, <2>4, <2>5
  <1> QED
    BY <1>2, <1>9, <1>10, <1>11

(* So does a run without a poll.                                           *)
LEMMA SimulateEarlyInTime ==
    ASSUME TypeOK, TypeOK', InTime, options' = options,
           NEW n \in Nat, NEW i \in 0..n, SimulateEarly(n, i)
    PROVE  InTime'
  <1> SUFFICES ASSUME Patient
               PROVE  cycle' - Mark' >= StallCycles \/ idle' <= globalCycle' - Mark'
    <2>1. Patient' => options'.source \in {"tuple", "native", "any"}
      BY SourceOf DEF Patient
    <2>2. Patient' => Patient /\ Stall' = cycle' - Mark'
      BY <2>1 DEF Patient, Stall, Mark
    <2> QED
      BY <2>2 DEF InTime
  <1>1. /\ globalCycle \in Nat /\ cycle \in Nat /\ lastNew \in Nat /\ lastNative \in Nat
        /\ idle \in Nat /\ StallCycles \in Nat
    BY StallClockAssumption DEF TypeOK
  <1>2. options.source \in {"tuple", "native", "any"}
    BY SourceOf DEF Patient
  <1>3. Stall = cycle - Mark /\ Mark \in Nat /\ cycle' \in Nat
    <2>1. cycle' \in Nat
      BY DEF TypeOK
    <2> QED
      BY <2>1, StallOf
  <1>4. /\ globalCycle' = globalCycle + n
        /\ cycle' >= cycle
        /\ lastNew' = IF i > 0 THEN globalCycle - 1 + i ELSE lastNew
        /\ lastNative' = lastNative
        /\ options.source \in {"tuple", "any"} => idle' = IF i > 0 THEN n - i ELSE idle + n
        /\ options.source = "native" => idle' = idle + n
        /\ options.source = "value_class" => idle' = idle + n
    BY SimulateEarlyClocks
  <1>5. cycle - Mark >= StallCycles \/ idle <= globalCycle - Mark
    BY <1>3 DEF InTime
  <1>6. \/ cycle' - Mark >= StallCycles
        \/ idle <= globalCycle - Mark
    <2>1. cycle \in Int /\ cycle' \in Int /\ Mark \in Int /\ StallCycles \in Int /\ Mark <= Mark
      BY <1>1, <1>3
    <2>2. cycle' >= cycle
      BY <1>4
    <2> QED
      BY <1>5, <2>1, <2>2, StallGrows
  <1>7. cycle' - Mark >= StallCycles \/ idle + n <= globalCycle + n - Mark
    <2>1. idle \in Int /\ globalCycle \in Int /\ Mark \in Int /\ n \in Int
      BY <1>1, <1>3
    <2> QED
      BY <1>6, <2>1, IdleGrows
  <1>8. Mark' = Mark /\ idle' = idle + n =>
            cycle' - Mark' >= StallCycles \/ idle' <= globalCycle' - Mark'
    <2> SUFFICES ASSUME Mark' = Mark, idle' = idle + n
                 PROVE  cycle' - Mark' >= StallCycles \/ idle' <= globalCycle' - Mark'
      OBVIOUS
    <2>1. CASE cycle' - Mark >= StallCycles
      BY ONLY <2>1, Mark' = Mark
    <2>2. CASE idle + n <= globalCycle + n - Mark
      <3>1. globalCycle' = globalCycle + n
        BY <1>4
      <3>2. idle \in Int /\ globalCycle \in Int /\ Mark \in Int
        BY <1>1, <1>3
      <3>3. idle' <= globalCycle' - Mark'
        BY <2>2, <3>1, <3>2
      <3> QED
        BY <3>3
    <2> QED
      BY <1>7, <2>1, <2>2
  <1>9. CASE options.source = "tuple"
    <2>1. Mark = lastNew /\ Mark' = lastNew'
      BY <1>9 DEF Mark
    <2>2. idle' = IF i > 0 THEN n - i ELSE idle + n
      BY <1>4, <1>9
    <2>3. CASE i > 0
      BY <1>1, <1>4, <2>1, <2>2, <2>3
    <2>4. CASE i = 0
      BY <1>4, <1>8, <2>1, <2>2, <2>4
    <2> QED
      BY <2>3, <2>4
  <1>10. CASE options.source = "native"
    <2>1. Mark = lastNative /\ Mark' = lastNative'
      BY <1>10 DEF Mark
    <2>2. idle' = idle + n
      BY <1>4, <1>10
    <2> QED
      BY <1>4, <1>8, <2>1, <2>2
  <1>11. CASE options.source = "any"
    <2>1. Mark = Larger(lastNew, lastNative) /\ Mark' = Larger(lastNew', lastNative')
      BY <1>11 DEF Mark
    <2>2. idle' = IF i > 0 THEN n - i ELSE idle + n
      BY <1>4, <1>11
    <2>3. CASE i > 0
      <3>1. lastNew' = globalCycle - 1 + i /\ idle' = n - i /\ lastNew' >= globalCycle
        BY <1>1, <1>4, <2>2, <2>3
      <3>2. CASE lastNew' >= lastNative
        <4>1. Mark' = lastNew'
          BY <1>1, <1>4, <2>1, <3>1, <3>2 DEF Larger
        <4> QED
          BY <1>1, <1>4, <3>1, <4>1
      <3>3. CASE lastNew' < lastNative
        <4>1. Mark' = lastNative /\ lastNative <= Mark
          BY <1>1, <1>4, <2>1, <3>1, <3>3 DEF Larger
        <4>2. cycle - Mark >= StallCycles
          BY <1>1, <1>3, <1>5, <3>1, <3>3, <4>1
        <4>3. cycle' - lastNative >= StallCycles
          <5>1. cycle \in Int /\ cycle' \in Int /\ Mark \in Int /\ lastNative \in Int /\ StallCycles \in Int
            BY <1>1, <1>3
          <5>2. lastNative <= Mark /\ cycle' >= cycle
            BY <1>4, <4>1
          <5> QED
            BY <4>2, <5>1, <5>2, StallGrows
        <4> QED
          BY <4>1, <4>3
      <3> QED
        BY <1>1, <3>1, <3>2, <3>3
    <2>4. CASE i = 0
      <3>1. Mark' = Mark /\ idle' = idle + n
        BY <1>4, <2>1, <2>2, <2>4
      <3> QED
        BY <1>8, <3>1
    <2> QED
      BY <2>3, <2>4
  <1> QED
    BY <1>2, <1>9, <1>10, <1>11

-----------------------------------------------------------------------------
(* A query of the narrow-effective cache.                                  *)
LEMMA NarrowTypes ==
    ASSUME TypeOK, NarrowQuery
    PROVE  stamp' \in Nat \cup {-1} /\ cachedAt' \in Nat
  BY DEF TypeOK, NarrowQuery, cache

LEMMA NarrowExact ==
    ASSUME TypeOK, Exact, NarrowQuery, options' = options,
           UNCHANGED clocks, UNCHANGED history, UNCHANGED swept
    PROVE  Exact'
  <1>1. /\ UNCHANGED <<globalCycle, cycle, lastNew, lastNative, lastDiversified>>
        /\ UNCHANGED <<version, idle, nativeIdle>>
    BY DEF clocks, history
  <1>2. stamp' <= lastNative' /\ (stamp' = lastNative' => cachedAt' = version')
    BY <1>1 DEF NarrowQuery, cache, Exact, TypeOK
  <1>3. Event' = Event /\ Early' = Early
    BY <1>1 DEF Event, Early
  <1> QED
    BY <1>1, <1>2, <1>3 DEF Exact

LEMMA QueryTypes ==
    ASSUME TypeOK, MayQuery
    PROVE  stamp' \in Nat \cup {-1} /\ cachedAt' \in Nat
  BY NarrowTypes DEF MayQuery, TypeOK, cache

LEMMA QueryExact ==
    ASSUME TypeOK, Exact, MayQuery, options' = options,
           UNCHANGED clocks, UNCHANGED history, UNCHANGED swept
    PROVE  Exact'
  <1>1. CASE NarrowQuery
    BY <1>1, NarrowExact
  <1>2. CASE UNCHANGED cache
    BY <1>2 DEF Exact, Event, Early, clocks, history, cache
  <1> QED
    BY <1>1, <1>2 DEF MayQuery

(* What the pre-check does to the clocks.                                  *)
LEMMA PrecheckClocks ==
    ASSUME TypeOK, Precheck
    PROVE  \E i \in 0..1 :
              /\ cycle' = (IF cycle > globalCycle THEN cycle ELSE globalCycle)
              /\ lastNew' = (IF i > 0 THEN globalCycle ELSE lastNew)
              /\ idle' = (IF i > 0 /\ options.source \in {"tuple", "any"} THEN 0 ELSE idle)
              /\ finds' \in Nat
  <1>1. PICK i \in 0..1 :
           LET r == Recorded(1, globalCycle - 1, i)
           IN  /\ Spend(i, FALSE, FALSE)
               /\ cycle' = r.cycle /\ lastNew' = r.new
               /\ idle' = IF i > 0 /\ options.source \in {"tuple", "any"} THEN 0 ELSE idle
    BY DEF Precheck
  <1>2. globalCycle \in Nat /\ cycle \in Nat /\ lastNew \in Nat /\ i \in {0, 1}
    BY DEF TypeOK
  <1>3. finds' \in Nat
    BY <1>1 DEF Spend, TypeOK
  <1>4. /\ cycle' = (IF cycle > globalCycle THEN cycle ELSE globalCycle)
        /\ lastNew' = (IF i > 0 THEN globalCycle ELSE lastNew)
    BY <1>1, <1>2 DEF Recorded, Larger
  <1> QED
    BY <1>1, <1>3, <1>4

LEMMA PrecheckExact ==
    ASSUME TypeOK, Exact, Precheck, options' = options
    PROVE  Exact'
  <1>1. PICK i \in 0..1 :
              /\ cycle' = (IF cycle > globalCycle THEN cycle ELSE globalCycle)
              /\ lastNew' = (IF i > 0 THEN globalCycle ELSE lastNew)
              /\ idle' = (IF i > 0 /\ options.source \in {"tuple", "any"} THEN 0 ELSE idle)
    BY PrecheckClocks
  <1>2. UNCHANGED <<globalCycle, lastNative, lastDiversified, stamp, cachedAt, version,
                    nativeIdle, swept>>
    BY DEF Precheck, cache
  <1>3. /\ globalCycle \in Nat /\ cycle \in Nat /\ lastNew \in Nat /\ lastNative \in Nat
        /\ idle \in Nat /\ nativeIdle \in Nat /\ Early \in {0, 1} /\ Early' = Early
    BY SourceOf DEF TypeOK, Early
  <1>4. lastNative <= globalCycle
    BY <1>3 DEF Exact
  <1>5. cycle' <= globalCycle' /\ lastNative' <= lastNew'
    BY <1>1, <1>2, <1>3, <1>4 DEF Exact
  <1>6. Event' + idle' <= globalCycle' /\ globalCycle' <= Event' + idle' + Early'
    <2>1. CASE options.source \in {"native", "value_class"}
      <3>1. Event' = Event /\ idle' = idle
        BY <1>1, <1>2, <2>1 DEF Event
      <3> QED
        BY <1>2, <1>3, <3>1 DEF Exact
    <2>2. CASE options.source \in {"tuple", "any"}
      <3>1. Event = lastNew /\ Event' = lastNew'
        BY <2>2 DEF Event
      <3> QED
        BY <1>1, <1>2, <1>3, <2>2, <3>1 DEF Exact
    <2> QED
      BY SourceOf, <2>1, <2>2
  <1> QED
    BY <1>2, <1>5, <1>6 DEF Exact

LEMMA PrecheckInTime ==
    ASSUME TypeOK, TypeOK', Precheck, options' = options,
           Patient => Stall >= StallCycles, InTime
    PROVE  InTime'
  <1> SUFFICES ASSUME Patient
               PROVE  cycle' - Mark' >= StallCycles \/ idle' <= globalCycle' - Mark'
    <2>1. Patient' => options'.source \in {"tuple", "native", "any"}
      BY SourceOf DEF Patient
    <2>2. Patient' => Patient /\ Stall' = cycle' - Mark'
      BY <2>1 DEF Patient, Stall, Mark
    <2> QED
      BY <2>2 DEF InTime
  <1>1. PICK i \in 0..1 :
              /\ cycle' = (IF cycle > globalCycle THEN cycle ELSE globalCycle)
              /\ lastNew' = (IF i > 0 THEN globalCycle ELSE lastNew)
              /\ idle' = (IF i > 0 /\ options.source \in {"tuple", "any"} THEN 0 ELSE idle)
    BY PrecheckClocks
  <1>2. globalCycle' = globalCycle /\ lastNative' = lastNative
    BY DEF Precheck
  <1>3. /\ globalCycle \in Nat /\ cycle \in Nat /\ lastNew \in Nat /\ lastNative \in Nat
        /\ idle \in Nat /\ StallCycles \in Nat
    BY StallClockAssumption DEF TypeOK
  <1>4. options.source \in {"tuple", "native", "any"}
    BY SourceOf DEF Patient
  <1>5. cycle - Mark >= StallCycles /\ Mark \in Nat
    BY StallOf
  <1>6. CASE options.source = "native" \/ i = 0
    <2>1. Mark' = Mark
      BY <1>1, <1>2, <1>4, <1>6 DEF Mark
    <2> QED
      BY <1>1, <1>3, <1>5, <2>1
  <1>7. CASE options.source = "tuple" /\ i = 1
    <2>1. Mark' = lastNew'
      BY <1>7 DEF Mark
    <2> QED
      BY <1>1, <1>2, <1>3, <1>7, <2>1
  <1>8. CASE options.source = "any" /\ i = 1
    <2>1. Mark' = Larger(globalCycle, lastNative) /\ idle' = 0 /\ Mark >= lastNative
      BY <1>1, <1>2, <1>3, <1>8 DEF Mark, Larger
    <2>2. CASE globalCycle >= lastNative
      BY <1>2, <1>3, <2>1, <2>2 DEF Larger
    <2>3. CASE globalCycle < lastNative
      <3>1. Mark' = lastNative
        BY <1>3, <2>1, <2>3 DEF Larger
      <3> QED
        BY <1>1, <1>3, <1>5, <2>1, <3>1
    <2> QED
      BY <1>3, <2>2, <2>3
  <1> QED
    BY <1>4, <1>6, <1>7, <1>8

(* A step that moves no clock.                                             *)
LEMMA SteadyInTime ==
    ASSUME InTime, options' = options, UNCHANGED clocks, idle' = idle
    PROVE  InTime'
  BY DEF InTime, Patient, Stall, Mark, clocks

-----------------------------------------------------------------------------
LEMMA TypesKept ==
    ASSUME TypeOK, [Next]_vars
    PROVE  TypeOK'
  <1> SUFFICES ASSUME Next PROVE TypeOK'
    BY DEF TypeOK, vars, clocks, cache, history
  <1> USE StallClockAssumption
  <1>1. options' \in Options
    BY DEF Next, TypeOK
  <1>2. CASE SeedStimuli
    <2>1. PICK n \in Depths : \E i \in 0..n : SimulateEarly(n, i)
      BY <1>2 DEF SeedStimuli
    <2>2. PICK i \in 0..n : SimulateEarly(n, i)
      BY <2>1
    <2>3. n \in Nat
      BY <2>1
    <2> QED
      BY <1>1, <1>2, <2>2, <2>3, SimulateEarlyTypes DEF SeedStimuli, TypeOK, cache
  <1>3. CASE SeedPoll
    <2>1. PICK found \in BOOLEAN : Simulate(0, globalCycle, 0, TRUE, found, FALSE)
      BY <1>3 DEF SeedPoll
    <2>2. /\ globalCycle \in Nat /\ 0 \in Nat /\ 0 \in 0..0
          /\ TRUE \in BOOLEAN /\ FALSE \in BOOLEAN
      BY DEF TypeOK
    <2>3. phase' = "head" /\ UNCHANGED <<cache, pass, replayed, sincePoll, calls>>
      BY <1>3 DEF SeedPoll
    <2>4. /\ globalCycle' \in Nat /\ cycle' \in Nat /\ lastNew' \in Nat /\ lastNative' \in Nat
          /\ lastDiversified' \in Nat /\ swept' \in BOOLEAN /\ version' \in Nat
          /\ idle' \in Nat /\ nativeIdle' \in Nat /\ finds' \in Nat
      BY <2>1, <2>2, SimulateTypes, ZenonT(30)
    <2> QED
      BY <1>1, <2>3, <2>4 DEF TypeOK, cache
  <1>4. CASE MutationBurst
    <2>1. PICK n \in 1..Burst : \E i \in 0..n :
             /\ Simulate(n, globalCycle, i, FALSE, FALSE, FALSE)
             /\ phase' = IF i > 0 THEN "head" ELSE "batch"
      BY <1>4 DEF MutationBurst
    <2>2. PICK i \in 0..n :
             /\ Simulate(n, globalCycle, i, FALSE, FALSE, FALSE)
             /\ phase' = IF i > 0 THEN "head" ELSE "batch"
      BY <2>1
    <2>3. globalCycle \in Nat /\ n \in Nat
      BY DEF TypeOK
    <2> QED
      BY <1>1, <1>4, <2>2, <2>3, SimulateTypes DEF MutationBurst, TypeOK, cache
  <1>5. CASE RandomBatch
    <2>1. PICK i \in 0..Batch, found \in BOOLEAN, diversified \in BOOLEAN :
             Simulate(Batch, globalCycle, i, PollDue, found, diversified)
      BY <1>5 DEF RandomBatch
    <2>2. globalCycle \in Nat /\ PollDue \in BOOLEAN
      BY DEF TypeOK, PollDue
    <2>3. sincePoll' \in 0..(PollEvery - 1)
      BY <1>5 DEF RandomBatch, PollDue, TypeOK
    <2>4. phase' \in {"stalled", "running"} /\ pass' = 0 /\ UNCHANGED <<cache, replayed, calls>>
      BY <1>5 DEF RandomBatch
    <2>5. Batch \in Nat
      OBVIOUS
    <2> QED
      BY <1>1, <2>1, <2>2, <2>3, <2>4, <2>5, SimulateTypes DEF TypeOK, cache
  <1>6. CASE DiversificationPass
    <2>1. PICK n \in Depths : \E i \in 0..n : SimulateEarly(n, i) /\ pass' = n
      BY <1>6 DEF DiversificationPass
    <2>2. PICK i \in 0..n : SimulateEarly(n, i) /\ pass' = n
      BY <2>1
    <2>3. n \in Nat
      BY <2>1
    <2> QED
      BY <1>1, <1>6, <2>2, <2>3, SimulateEarlyTypes DEF DiversificationPass, TypeOK, cache
  <1>7. CASE BmcNone
    BY <1>1, <1>7, QueryTypes DEF BmcNone, TakeUp, TypeOK, clocks, history
  <1>8. CASE Replay
    <2>1. PICK n \in Depths : \E i \in 0..n, found \in BOOLEAN :
             Simulate(n, 0, i, TRUE, found, FALSE)
      BY <1>8 DEF Replay
    <2>2. PICK i \in 0..n, found \in BOOLEAN : Simulate(n, 0, i, TRUE, found, FALSE)
      BY <2>1
    <2>3. n \in Nat /\ 0 \in Nat /\ TRUE \in BOOLEAN /\ FALSE \in BOOLEAN
      BY <2>1
    <2>4. /\ calls' \in Nat /\ sincePoll' \in 0..(PollEvery - 1)
          /\ replayed' \in BOOLEAN /\ phase' = "judge" /\ UNCHANGED <<cache, pass>>
      BY <1>8 DEF Replay, TakeUp, TypeOK
    <2>5. /\ globalCycle' \in Nat /\ cycle' \in Nat /\ lastNew' \in Nat /\ lastNative' \in Nat
          /\ lastDiversified' \in Nat /\ swept' \in BOOLEAN /\ version' \in Nat
          /\ idle' \in Nat /\ nativeIdle' \in Nat /\ finds' \in Nat
      BY <2>2, <2>3, SimulateTypes, ZenonT(30)
    <2> QED
      BY <1>1, <2>4, <2>5 DEF TypeOK, cache
  <1>9. CASE JudgeUnproductive
    BY <1>1, <1>9, QueryTypes DEF JudgeUnproductive, TypeOK, clocks, history
  <1>10. CASE JudgeProductive
    <2>1. phase' = "head" /\ UNCHANGED <<cache, pass, replayed, sincePoll, calls>>
      BY <1>10 DEF JudgeProductive
    <2>2. CASE UNCHANGED <<clocks, version, idle, nativeIdle, swept, finds>>
      BY <1>1, <2>1, <2>2 DEF TypeOK, clocks, cache
    <2>3. CASE \E n \in Depths : \E i \in 0..n : SimulateEarly(n, i)
      <3>1. PICK n \in Depths : \E i \in 0..n : SimulateEarly(n, i)
        BY <2>3
      <3>2. PICK i \in 0..n : SimulateEarly(n, i)
        BY <3>1
      <3>3. n \in Nat
        BY <3>1
      <3> QED
        BY <1>1, <2>1, <3>2, <3>3, SimulateEarlyTypes DEF TypeOK, cache
    <2> QED
      BY <1>10, <2>2, <2>3 DEF JudgeProductive
  <1>11. CASE NoMoreTargets
    BY <1>1, <1>11 DEF NoMoreTargets, TypeOK, clocks, cache, history
  <1>12. CASE Gate \/ GiveUp
    BY <1>1, <1>12 DEF Gate, GiveUp, TakeUp, TypeOK, clocks, cache, history
  <1>13. CASE Precheck
    <2>1. cycle' \in Nat /\ lastNew' \in Nat /\ idle' \in Nat /\ finds' \in Nat
      BY <1>13, PrecheckClocks DEF TypeOK
    <2>2. calls' \in Nat /\ phase' = "head"
      BY <1>13 DEF Precheck, TakeUp, TypeOK
    <2> QED
      BY <1>1, <1>13, <2>1, <2>2 DEF Precheck, TypeOK, cache
  <1> QED
    BY <1>2, <1>3, <1>4, <1>5, <1>6, <1>7, <1>8, <1>9, <1>10, <1>11, <1>12, <1>13 DEF Next, Turn

LEMMA InitHolds == Init => IInv
  <1> SUFFICES ASSUME Init PROVE IInv
    OBVIOUS
  <1>1. TypeOK
    <2>1. sincePoll \in 0..(PollEvery - 1)
      BY StallClockAssumption DEF Init
    <2>2. phase \in {"seed", "head"} /\ options \in Options
      BY DEF Init
    <2> QED
      BY <2>1, <2>2, StallClockAssumption DEF Init, TypeOK
  <1>2. options.seeds \in BOOLEAN /\ options.bias \in BOOLEAN
    BY <1>1, SourceOf
  <1>3. Stages
    BY <1>2 DEF Init, Stages
  <1>4. Event = 0 /\ Early \in {0, 1} /\ Mark = 0
    BY DEF Init, Event, Early, Mark, Larger
  <1>5. Exact
    BY <1>4, StallClockAssumption DEF Init, Exact
  <1>6. InTime
    BY <1>4 DEF Init, InTime
  <1>7. Verdict
    BY DEF Init, Verdict
  <1> QED
    BY <1>1, <1>3, <1>5, <1>6, <1>7 DEF IInv

(* What the gate reads after a random batch before the first replay.       *)
LEMMA GateReads ==
    ASSUME TypeOK, TypeOK', Exact, Exact', options' = options, RandomBatch
    PROVE  Stall' = globalCycle' - Event'
  <1>1. PICK i \in 0..Batch, found \in BOOLEAN, diversified \in BOOLEAN :
           Simulate(Batch, globalCycle, i, PollDue, found, diversified)
    BY DEF RandomBatch
  <1>2. Batch \in Nat /\ PollDue \in BOOLEAN /\ globalCycle \in Nat /\ cycle \in Nat
    BY StallClockAssumption DEF PollDue, TypeOK
  <1>4. cycle' = globalCycle'
    <2>1. cycle <= globalCycle + Batch
      BY <1>2 DEF Exact
    <2> QED
      BY <1>1, <1>2, <2>1, SimulateClocks
  <1>5. Larger(lastNew', lastNative') = lastNew'
    BY DEF Larger, Exact, TypeOK
  <1>6. options'.source \in {"tuple", "native", "any", "value_class"}
    BY SourceOf
  <1> QED
    BY <1>4, <1>5, <1>6 DEF Stall, Event

(* What the random batch decides.                                          *)
LEMMA BatchVerdict ==
    ASSUME TypeOK, TypeOK', ~replayed => Exact /\ Exact', InTime', options' = options,
           RandomBatch
    PROVE  Verdict'
  <1>1. PICK i \in 0..Batch, found \in BOOLEAN, diversified \in BOOLEAN :
           Simulate(Batch, globalCycle, i, PollDue, found, diversified)
    BY DEF RandomBatch
  <1>2. /\ phase' = IF Stall' >= StallCycles THEN "stalled" ELSE "running"
        /\ pass' = 0 /\ replayed' = replayed
    BY DEF RandomBatch
  <1>3. /\ idle' \in Int /\ globalCycle' \in Int /\ cycle' \in Int /\ StallCycles \in Int
        /\ Event' \in Int
    BY StallClockAssumption DEF TypeOK, Event
  <1>4. Early' = Early /\ Early \in {0, 1}
    BY DEF Early
  <1>5. ~replayed => /\ idle' >= StallCycles => Stall' >= StallCycles
                     /\ Stall' >= StallCycles => idle' + Early' >= StallCycles
    <2> SUFFICES ASSUME ~replayed
                 PROVE  /\ idle' >= StallCycles => Stall' >= StallCycles
                        /\ Stall' >= StallCycles => idle' + Early' >= StallCycles
      OBVIOUS
    <2>1. Stall' = globalCycle' - Event'
      BY GateReads
    <2>2. Event' + idle' <= globalCycle' /\ globalCycle' <= Event' + idle' + Early'
      BY DEF Exact
    <2> QED
      BY <1>3, <1>4, <2>1, <2>2, Between
  <1>6. Patient' => (idle' >= StallCycles => Stall' >= StallCycles)
    <2> SUFFICES ASSUME Patient', idle' >= StallCycles PROVE Stall' >= StallCycles
      OBVIOUS
    <2>1. Batch \in Nat /\ PollDue \in BOOLEAN /\ globalCycle \in Nat
      BY StallClockAssumption DEF PollDue, TypeOK
    <2>2. globalCycle' <= cycle'
      BY <1>1, <2>1, SimulateClocks
    <2>3. options'.source \in {"tuple", "native", "any"}
      BY SourceOf DEF Patient
    <2>4. Stall' = cycle' - Mark' /\ Mark' \in Int
      BY <2>3 DEF Stall, Mark, Larger, TypeOK
    <2>5. Stall' >= StallCycles \/ idle' <= globalCycle' - Mark'
      BY DEF InTime
    <2>6. CASE idle' <= globalCycle' - Mark'
      <3>1. cycle' - Mark' >= StallCycles
        BY <1>3, <2>2, <2>4, <2>6, Reaches
      <3> QED
        BY <2>4, <3>1
    <2> QED
      BY <2>5, <2>6
  <1> QED
    BY <1>2, <1>3, <1>5, <1>6 DEF Verdict

LEMMA StepHolds == IInv /\ [Next]_vars => IInv'
  <1> SUFFICES ASSUME IInv, [Next]_vars PROVE IInv'
    OBVIOUS
  <1>1. TypeOK /\ TypeOK' /\ Stages /\ Verdict /\ InTime /\ (~replayed => Exact)
    BY TypesKept DEF IInv
  <1>2. options' = options
    BY DEF Next, vars
  <1>3. options.seeds \in BOOLEAN /\ options.bias \in BOOLEAN /\ globalCycle \in Nat
    BY <1>1, SourceOf DEF TypeOK
  <1>4. SUFFICES Stages' /\ Verdict' /\ (~replayed' => Exact') /\ InTime'
    BY <1>1 DEF IInv
  <1>5. CASE SeedStimuli
    <2>1. PICK n \in Depths : \E i \in 0..n : SimulateEarly(n, i)
      BY <1>5 DEF SeedStimuli
    <2>2. PICK i \in 0..n : SimulateEarly(n, i)
      BY <2>1
    <2>3. n \in Nat
      BY <2>1, StallClockAssumption
    <2>4. /\ phase = "seed" /\ phase' = "poll" /\ UNCHANGED cache /\ replayed' = replayed
          /\ ~replayed /\ options.seeds /\ stamp = -1
      BY <1>1, <1>5 DEF SeedStimuli, Stages
    <2>5. Stages' /\ Verdict'
      BY <1>2, <2>4 DEF Stages, Verdict, cache
    <2>6. Exact'
      BY <1>1, <1>2, <2>2, <2>3, <2>4, SimulateEarlyExact DEF Early
    <2>7. InTime'
      BY <1>1, <1>2, <2>2, <2>3, SimulateEarlyInTime
    <2> QED
      BY <2>5, <2>6, <2>7
  <1>6. CASE SeedPoll
    <2>1. PICK found \in BOOLEAN : Simulate(0, globalCycle, 0, TRUE, found, FALSE)
      BY <1>6 DEF SeedPoll
    <2>2. 0 \in Nat /\ 0 \in 0..0 /\ TRUE \in BOOLEAN /\ FALSE \in BOOLEAN
      OBVIOUS
    <2>3. /\ phase = "poll" /\ phase' = "head" /\ UNCHANGED cache /\ replayed' = replayed
          /\ ~replayed /\ stamp = -1
      BY <1>1, <1>6 DEF SeedPoll, Stages
    <2>4. Stages' /\ Verdict'
      BY <2>3 DEF Stages, Verdict
    <2>5. Exact'
      BY <1>1, <1>2, <2>1, <2>2, <2>3, SimulateExact
    <2>6. InTime'
      BY <1>1, <1>2, <1>3, <2>1, <2>2, SimulateInTime
    <2> QED
      BY <2>4, <2>5, <2>6
  <1>7. CASE MutationBurst
    <2>1. PICK n \in 1..Burst : \E i \in 0..n :
             /\ Simulate(n, globalCycle, i, FALSE, FALSE, FALSE)
             /\ phase' = IF i > 0 THEN "head" ELSE "batch"
      BY <1>7 DEF MutationBurst
    <2>2. PICK i \in 0..n :
             /\ Simulate(n, globalCycle, i, FALSE, FALSE, FALSE)
             /\ phase' = IF i > 0 THEN "head" ELSE "batch"
      BY <2>1
    <2>3. n \in Nat /\ n > 0 /\ FALSE \in BOOLEAN
      BY StallClockAssumption
    <2>4. phase' \in {"head", "batch"} /\ UNCHANGED cache /\ replayed' = replayed
      BY <1>7, <2>2 DEF MutationBurst
    <2>5. Stages' /\ Verdict'
      BY <2>4 DEF Stages, Verdict
    <2>6. ~replayed' => Exact'
      BY <1>1, <1>2, <2>2, <2>3, <2>4, SimulateExact
    <2>7. InTime'
      BY <1>1, <1>2, <1>3, <2>2, <2>3, SimulateInTime
    <2> QED
      BY <2>5, <2>6, <2>7
  <1>8. CASE RandomBatch
    <2>1. PICK i \in 0..Batch, found \in BOOLEAN, diversified \in BOOLEAN :
             /\ diversified => options.source = "value_class"
             /\ Simulate(Batch, globalCycle, i, PollDue, found, diversified)
      BY <1>8 DEF RandomBatch
    <2>2. Batch \in Nat /\ Batch > 0 /\ PollDue \in BOOLEAN
      BY StallClockAssumption DEF PollDue
    <2>3. /\ phase' = IF Stall' >= StallCycles THEN "stalled" ELSE "running"
          /\ UNCHANGED cache /\ replayed' = replayed
      BY <1>8 DEF RandomBatch
    <2>4. Stages'
      BY <2>3 DEF Stages
    <2>5. ~replayed' => Exact'
      BY <1>1, <1>2, <2>1, <2>2, <2>3, SimulateExact
    <2>6. InTime'
      BY <1>1, <1>2, <1>3, <2>1, <2>2, SimulateInTime
    <2>7. Verdict'
      BY <1>1, <1>2, <1>8, <2>3, <2>5, <2>6, BatchVerdict
    <2> QED
      BY <2>4, <2>5, <2>6, <2>7
  <1>9. CASE DiversificationPass
    <2>1. PICK n \in Depths : \E i \in 0..n : SimulateEarly(n, i) /\ pass' = n
      BY <1>9 DEF DiversificationPass
    <2>2. PICK i \in 0..n : SimulateEarly(n, i) /\ pass' = n
      BY <2>1
    <2>3. n \in Nat
      BY <2>1, StallClockAssumption
    <2>4. /\ phase \in {"stalled", "running"} /\ phase' = phase /\ options.bias
          /\ pass = 0 /\ UNCHANGED cache /\ replayed' = replayed
      BY <1>9 DEF DiversificationPass
    <2>5. Stages'
      BY <1>2, <2>4 DEF Stages, Patient
    <2>6. ~replayed' => Exact'
      BY <1>1, <1>2, <2>2, <2>3, <2>4, SimulateEarlyExact DEF Early
    <2>7. InTime'
      BY <1>1, <1>2, <2>2, <2>3, SimulateEarlyInTime
    <2>8. Verdict'
      <3>1. /\ idle' = IF i > 0 /\ options.source \in {"tuple", "any"} THEN n - i ELSE idle + n
        BY <1>1, <2>2, <2>3, SourceOf, SimulateEarlyClocks
      <3>2. /\ idle \in Nat /\ n \in Nat /\ i \in 0..n /\ pass' = n /\ StallCycles \in Nat
            /\ StallCycles > 0 /\ Early \in {0, 1} /\ Early' = Early
        BY <1>1, <1>2, <2>2, <2>3, StallClockAssumption DEF TypeOK, Early
      <3>3. ~Patient'
        BY <1>2, <2>4 DEF Patient
      <3>4. phase = "running" /\ ~replayed => idle' < StallCycles + n
        BY <1>1, <2>4, <3>1, <3>2 DEF Verdict
      <3>5. phase = "stalled" /\ ~replayed /\ idle' >= n => idle' + Early >= StallCycles + n
        BY <1>1, <2>4, <3>1, <3>2 DEF Verdict
      <3> QED
        BY <2>4, <3>2, <3>3, <3>4, <3>5 DEF Verdict
    <2> QED
      BY <2>5, <2>6, <2>7, <2>8
  <1>10. CASE BmcNone
    <2>1. MayQuery /\ UNCHANGED <<clocks, history, swept>> /\ phase' = "head"
      BY <1>10 DEF BmcNone
    <2>2. replayed' = replayed /\ idle' = idle
      BY <2>1 DEF history
    <2> QED
      BY <1>1, <1>2, <2>1, <2>2, QueryExact, SteadyInTime DEF Stages, Verdict
  <1>11. CASE Replay
    <2>1. PICK n \in Depths : \E i \in 0..n, found \in BOOLEAN :
             Simulate(n, 0, i, TRUE, found, FALSE)
      BY <1>11 DEF Replay
    <2>2. PICK i \in 0..n, found \in BOOLEAN : Simulate(n, 0, i, TRUE, found, FALSE)
      BY <2>1
    <2>3. n \in Nat /\ 0 \in Nat /\ TRUE \in BOOLEAN /\ FALSE \in BOOLEAN
      BY <2>1, StallClockAssumption
    <2>4. replayed' = TRUE /\ phase' = "judge" /\ phase = "decide"
      BY <1>11 DEF Replay, TakeUp
    <2>5. Patient => Stall >= StallCycles
      BY <1>1, <2>4 DEF Stages
    <2>6. InTime'
      BY <1>1, <1>2, <2>2, <2>3, <2>5, SimulateInTime
    <2> QED
      BY <2>4, <2>6 DEF Stages, Verdict
  <1>12. CASE JudgeUnproductive
    <2>1. MayQuery /\ UNCHANGED <<clocks, history, swept>> /\ phase' = "head"
      BY <1>12 DEF JudgeUnproductive
    <2>2. replayed' = replayed /\ idle' = idle
      BY <2>1 DEF history
    <2> QED
      BY <1>1, <1>2, <2>1, <2>2, QueryExact, SteadyInTime DEF Stages, Verdict
  <1>13. CASE JudgeProductive
    <2>1. phase' = "head" /\ replayed /\ replayed' = replayed
      BY <1>1, <1>13 DEF JudgeProductive, Stages
    <2>2. CASE UNCHANGED <<clocks, version, idle, nativeIdle, swept, finds>>
      BY <1>1, <1>2, <2>1, <2>2, SteadyInTime DEF Stages, Verdict
    <2>3. CASE \E n \in Depths : \E i \in 0..n : SimulateEarly(n, i)
      <3>1. PICK n \in Depths : \E i \in 0..n : SimulateEarly(n, i)
        BY <2>3
      <3>2. PICK i \in 0..n : SimulateEarly(n, i)
        BY <3>1
      <3>3. n \in Nat
        BY <3>1, StallClockAssumption
      <3>4. InTime'
        BY <1>1, <1>2, <3>2, <3>3, SimulateEarlyInTime
      <3> QED
        BY <2>1, <3>4 DEF Stages, Verdict
    <2> QED
      BY <1>13, <2>2, <2>3 DEF JudgeProductive
  <1>14. CASE NoMoreTargets \/ UNCHANGED vars
    <2>1. UNCHANGED <<clocks, cache, history, swept>> /\ phase' \in {"ended", phase}
      BY <1>14 DEF NoMoreTargets, vars
    <2>2. replayed' = replayed /\ idle' = idle /\ stamp' = stamp
      BY <2>1 DEF history, cache
    <2>3. Stages' /\ Verdict'
      <3>1. phase' \in {"stalled", "running"} => pass' = pass /\ phase' = phase
        BY <1>14 DEF NoMoreTargets, vars
      <3>2. Early' = Early /\ Patient' = Patient
        BY <1>2 DEF Early, Patient
      <3>3. Stages'
        BY <1>1, <1>2, <2>1, <2>2 DEF Stages, Patient, Stall, clocks
      <3>4. Verdict'
        BY <1>1, <2>2, <3>1, <3>2 DEF Verdict
      <3> QED
        BY <3>3, <3>4
    <2>4. Exact => Exact'
      BY <1>2, <2>1 DEF Exact, Event, Early, clocks, cache, history
    <2> QED
      BY <1>1, <1>2, <2>1, <2>2, <2>3, <2>4, SteadyInTime
  <1>15. CASE Gate \/ GiveUp
    <2>1. /\ UNCHANGED <<clocks, cache, history, swept>> /\ phase' \in {"head", "decide"}
          /\ phase' = "decide" => phase = "stalled"
      BY <1>15 DEF Gate, GiveUp, TakeUp
    <2>2. replayed' = replayed /\ idle' = idle /\ stamp' = stamp
      BY <2>1 DEF history, cache
    <2>3. Stages' /\ Verdict'
      BY <1>1, <1>2, <2>1, <2>2 DEF Stages, Verdict, Patient, Stall, clocks
    <2>4. Exact => Exact'
      BY <1>2, <2>1 DEF Exact, Event, Early, clocks, cache, history
    <2> QED
      BY <1>1, <1>2, <2>1, <2>2, <2>3, <2>4, SteadyInTime
  <1>16. CASE Precheck
    <2>1. phase = "decide" /\ phase' = "head" /\ replayed' = replayed
      BY <1>16 DEF Precheck, TakeUp
    <2>2. Patient => Stall >= StallCycles
      BY <1>1, <2>1 DEF Stages
    <2>3. InTime'
      BY <1>1, <1>2, <1>16, <2>2, PrecheckInTime
    <2>4. ~replayed' => Exact'
      BY <1>1, <1>2, <1>16, <2>1, PrecheckExact
    <2> QED
      BY <2>1, <2>3, <2>4 DEF Stages, Verdict
  <1> QED
    BY <1>5, <1>6, <1>7, <1>8, <1>9, <1>10, <1>11, <1>12, <1>13, <1>14, <1>15, <1>16
       DEF Next, Turn

-----------------------------------------------------------------------------
(* The inductive invariant holds of every campaign.                        *)
THEOREM StallInvariant == Spec => []IInv
  BY InitHolds, StepHolds, PTL DEF Spec

(* The clocks keep their types.                                            *)
THEOREM TypeCorrect == Spec => []TypeOK
  <1>1. IInv => TypeOK
    BY DEF IInv
  <1> QED
    BY <1>1, StallInvariant, PTL

(* Until the first replay the dead-signal sweep runs only after            *)
(* QuietCycles simulated cycles without a native discovery.                *)
THEOREM SweepIsQuiet == Spec => []SweepQuietUntilReplay
  <1>1. IInv => SweepQuietUntilReplay
    BY DEF IInv, Exact, SweepQuietUntilReplay
  <1> QED
    BY <1>1, StallInvariant, PTL

(* Until the first replay no narrow-effective verdict older than the last  *)
(* native discovery is used.                                               *)
THEOREM CacheIsFresh == Spec => []CacheFreshUntilReplay
  <1>1. IInv => CacheFreshUntilReplay
    BY DEF IInv, Exact, CacheFreshUntilReplay
  <1> QED
    BY <1>1, StallInvariant, PTL

(* Until the first replay the stall gate opens exactly when StallCycles    *)
(* cycles had brought no event of its source before this turn's pass, or   *)
(* one cycle early.                                                        *)
THEOREM GateIsExact == Spec => GateExactUntilReplay
  <1>1. IInv /\ [Next]_vars =>
          [~replayed /\ Gate =>
             /\ idle >= StallCycles + pass => phase' = "decide"
             /\ phase' = "decide" /\ idle >= pass => idle + Early >= StallCycles + pass]_vars
    <2> SUFFICES ASSUME IInv, ~replayed, Gate
                 PROVE  /\ idle >= StallCycles + pass => phase' = "decide"
                        /\ phase' = "decide" /\ idle >= pass =>
                              idle + Early >= StallCycles + pass
      OBVIOUS
    <2>1. idle \in Int /\ pass \in Int /\ StallCycles \in Int
      BY StallClockAssumption DEF IInv, TypeOK
    <2>2. phase = "running" => idle < StallCycles + pass
      BY DEF IInv, Verdict
    <2>3. phase = "stalled" /\ idle >= pass => idle + Early >= StallCycles + pass
      BY DEF IInv, Verdict
    <2> QED
      BY <2>1, <2>2, <2>3 DEF Gate
  <1> QED
    BY <1>1, StallInvariant, PTL DEF Spec, GateExactUntilReplay

(* Replays or not, a patient campaign that simulated StallCycles cycles    *)
(* without an event finds the next gate open.                              *)
THEOREM GateIsNeverLate == Spec => GateNeverLate
  <1>1. IInv /\ [Next]_vars =>
          [Gate /\ ~options.bias /\ options.source # "value_class"
             /\ idle >= StallCycles => phase' = "decide"]_vars
    <2> SUFFICES ASSUME IInv, Gate, Patient, idle >= StallCycles
                 PROVE  phase' = "decide"
      BY DEF Patient
    <2>1. idle \in Int /\ StallCycles \in Int
      BY StallClockAssumption DEF IInv, TypeOK
    <2>2. phase = "running" => idle < StallCycles
      BY DEF IInv, Verdict
    <2> QED
      BY <2>1, <2>2 DEF Gate
  <1> QED
    BY <1>1, StallInvariant, PTL DEF Spec, GateNeverLate
=============================================================================
