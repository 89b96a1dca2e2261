------------------------- MODULE DriverLinkProofs -------------------------
(***************************************************************************)
(* For every number of calls and size of batch, every backend and design:  *)
(* a call gets the answer to itself, from the handler of its command, and  *)
(* the driver's count of clock cycles stays with the simulator's.          *)
(***************************************************************************)
EXTENDS DriverLink, SequenceTheorems, TLAPS

(* The handlers are found by the first word of the list that occurs.       *)
LEMMA FirstWord ==
    ASSUME NEW found \in SUBSET (1..6), NEW j \in found
    PROVE  LET i == CHOOSE i \in found : \A k \in found : i <= k
           IN  i \in found /\ \A k \in found : i <= k
  <1>1. \E i \in found : \A k \in found : i <= k
    <2>1. CASE 1 \in found
      BY <2>1
    <2>2. CASE 1 \notin found /\ 2 \in found
      BY <2>2
    <2>3. CASE 1 \notin found /\ 2 \notin found /\ 3 \in found
      BY <2>3
    <2>4. CASE found \cap {1, 2, 3} = {} /\ 4 \in found
      BY <2>4
    <2>5. CASE found \cap {1, 2, 3, 4} = {} /\ 5 \in found
      BY <2>5
    <2>6. CASE found \subseteq {6}
      BY <2>6
    <2> QED
      BY <2>1, <2>2, <2>3, <2>4, <2>5, <2>6
  <1> QED
    BY <1>1

(* Every request is handled by a command.                                  *)
LEMMA HandlerIsCommand ==
    ASSUME NEW r \in Request
    PROVE  Handler(r) \in Commands
  <1> DEFINE found == {i \in DOMAIN TclOrder : TclOrder[i] \in Mentions(r)}
  <1>1. DOMAIN TclOrder = 1..6
    BY DEF TclOrder
  <1>2. r.cmd \in Commands /\ r.cmd \in Mentions(r)
    BY DEF Request, Mentions
  <1>3. \E j \in 1..6 : TclOrder[j] = r.cmd
    BY <1>2 DEF Commands, TclOrder
  <1>4. PICK j \in found : TRUE
    BY <1>1, <1>2, <1>3
  <1>5. (CHOOSE i \in found : \A k \in found : i <= k) \in 1..6
    BY <1>1, <1>4, FirstWord
  <1>6. \A i \in 1..6 : TclOrder[i] \in Commands
    BY DEF TclOrder, Commands
  <1> QED
    BY <1>2, <1>5, <1>6 DEF Handler

(* The handler of a request is the one of its command, in the harness      *)
(* always, in the Tcl bridge unless a force sends the name of a command.   *)
LEMMA HandlerOfCommand ==
    ASSUME NEW r \in Request, build \in BuildType, ~Misread(r.cmd)
    PROVE  Handler(r) = r.cmd
  <1>1. CASE build.backend = "verilator"
    BY <1>1 DEF Handler
  <1>2. CASE build.backend = "xsim"
    <2> DEFINE found == {i \in DOMAIN TclOrder : TclOrder[i] \in Mentions(r)}
    <2>1. Mentions(r) \subseteq {r.cmd} \cup (IF r.cmd \in {"step_trace", "step"} THEN {"step", "reset"} ELSE {})
      BY <1>2 DEF Mentions, Misread, BuildType
    <2>2. DOMAIN TclOrder = 1..6 /\ found \subseteq 1..6
      BY DEF TclOrder
    <2>3. PICK j \in 1..6 : TclOrder[j] = r.cmd
      BY DEF Request, Commands, TclOrder
    <2>4. j \in found
      BY <2>2, <2>3 DEF Mentions
    <2>5. \A k \in found : j <= k
      BY <2>1, <2>2, <2>3 DEF TclOrder
    <2>6. (CHOOSE i \in found : \A k \in found : i <= k) = j
      BY <2>2, <2>4, <2>5, FirstWord
    <2> QED
      BY <1>2, <2>3, <2>6 DEF Handler
  <1> QED
    BY <1>1, <1>2 DEF BuildType

(* A force with the name of a command is served as that command.           *)
LEMMA WhatMisreads ==
    ASSUME NEW r \in Request, build \in BuildType, Misread(r.cmd)
    PROVE  \/ Handler(r) = "step"
           \/ Handler(r) = "reset" /\ "reset" \in build.registers
           \/ Handler(r) = "force"
  <1> DEFINE found == {i \in DOMAIN TclOrder : TclOrder[i] \in Mentions(r)}
  <1>1. Mentions(r) = {"force"} \cup build.registers /\ build.registers \subseteq {"step", "reset"}
    BY DEF Mentions, Misread, BuildType
  <1>2. DOMAIN TclOrder = 1..6 /\ found \subseteq 1..6 /\ 5 \in found
    BY <1>1 DEF TclOrder
  <1>3. (CHOOSE i \in found : \A k \in found : i <= k) \in found
    BY <1>2, FirstWord
  <1>4. \A i \in found : TclOrder[i] \in {"force"} \cup build.registers
    BY <1>1
  <1> QED
    BY <1>1, <1>3, <1>4 DEF Handler, Misread

(* A reply after at most one line of text.                                 *)
LEMMA SaidLines ==
    ASSUME NEW out \in {<<>>, <<Text>>}, NEW r \in Line
    PROVE  /\ out \o <<r>> \in Seq(Line)
           /\ Len(out \o <<r>>) = Len(out) + 1
           /\ (out \o <<r>>)[Len(out) + 1] = r
           /\ \A i \in 1..Len(out) : ~(out \o <<r>>)[i].json
  <1>1. Text \in Line
    BY LinkAssumption DEF Text, Line
  <1>2. CASE out = <<>>
    BY <1>2
  <1>3. CASE out = <<Text>>
    <2>1. out \in Seq(Line) /\ <<r>> \in Seq(Line) /\ Len(out) = 1 /\ Len(<<r>>) = 1
      BY <1>1, <1>3
    <2>2. out[1] = Text /\ ~Text.json
      BY <1>3 DEF Text
    <2> QED
      BY <2>1, <2>2, ConcatProperties
  <1> QED
    BY <1>2, <1>3
-----------------------------------------------------------------------------
(* The history variables and the books kept with them.                     *)
Kept == OwnAnswer /\ ServedAsSent

(* The process writes the reply to the request it has read, or none that   *)
(* can be parsed, and its cycles are those the reply accounts for.         *)
Settles(line, ticks) ==
    /\ build.backend = "verilator" => CountedAfter(call.cmd, line) = ticks
    /\ "reset" \notin build.registers => CountedAfter(call.cmd, line) <= ticks

Written(out, line) == lines' = out \o <<line>> /\ line \in Line
                      /\ (line.json => line.id = call.id /\ Settles(line, ticked'))

(* A reply is a line, whatever it shows within a batch.                    *)
LEMMA ReplyIsLine ==
    ASSUME NEW r \in Request, NEW k \in 0..MaxBatch, NEW e \in BOOLEAN
    PROVE  Reply(r, k, e) \in Line /\ Reply(r, k, e).id = r.id
           /\ Reply(r, k, e).states = k /\ Reply(r, k, e).json
  BY LinkAssumption DEF Reply, Line, Request

(* So is text.                                                             *)
LEMMA TextIsLine == Text \in Line /\ ~Text.json
  BY LinkAssumption DEF Text, Line

(* A request under way is the driver's call.                               *)
LEMMA RequestUnderWay ==
    ASSUME TypeOK, InStep, requests # <<>>
    PROVE  /\ requests = <<call>> /\ lines = <<>> /\ call # Idle /\ call \in Request
           /\ Head(requests) = call /\ Tail(requests) = <<>>
           /\ 1 \in 0..MaxBatch /\ 0 \in 0..MaxBatch /\ call.n \in 1..MaxBatch
  <1>1. requests = <<call>> /\ lines = <<>> /\ call # Idle
    BY DEF InStep
  <1>2. call \in Request
    BY <1>1 DEF TypeOK
  <1>3. call.n \in 1..MaxBatch
    BY <1>2 DEF Request
  <1>4. 1 \in 0..MaxBatch /\ 0 \in 0..MaxBatch
    BY <1>3, LinkAssumption
  <1> QED
    BY <1>1, <1>2, <1>3, <1>4

(* Replies that may be garbled.                                            *)
LEMMA GarbledOrNot ==
    ASSUME TypeOK, call \in Request, NEW out, NEW k \in 0..MaxBatch, NEW e \in BOOLEAN,
           SayOrGarble(call, k, e, out), Settles(Reply(call, k, e), ticked')
    PROVE  garbled' \in BOOLEAN /\ \E line : Written(out, line)
  <1>1. CASE lines' = out \o Say(call, k, e) /\ UNCHANGED garbled
    <2>1. Written(out, Reply(call, k, e))
      BY <1>1, ReplyIsLine DEF Written, Say
    <2> QED
      BY <1>1, <2>1 DEF TypeOK
  <1>2. CASE lines' = Append(out, Text) /\ garbled' = TRUE
    <2>1. lines' = out \o <<Text>>
      BY <1>2
    <2>2. Written(out, Text)
      BY <2>1, TextIsLine DEF Written
    <2> QED
      BY <1>2, <2>2
  <1> QED
    BY <1>1, <1>2 DEF SayOrGarble

(* What one request leaves behind, whichever handler serves it.            *)
LEMMA Served ==
    ASSUME TypeOK, InStep, Serve
    PROVE  /\ call \in Request /\ call # Idle /\ lines = <<>> /\ requests' = <<>>
           /\ ran' = [id |-> call.id, as |-> Handler(call)]
           /\ ticked' \in Nat /\ garbled' \in BOOLEAN
           /\ \E out \in {<<>>, <<Text>>} : lines' = out \/ \E line : Written(out, line)
  <1>1. /\ call \in Request /\ call # Idle /\ lines = <<>> /\ requests # <<>>
        /\ Head(requests) = call /\ Tail(requests) = <<>>
        /\ 1 \in 0..MaxBatch /\ 0 \in 0..MaxBatch /\ call.n \in 1..MaxBatch
    BY RequestUnderWay DEF Serve
  <1>2. /\ requests' = <<>> /\ ran' = [id |-> call.id, as |-> Handler(call)]
        /\ UNCHANGED <<build, counted, call>>
    BY <1>1 DEF Serve
  <1>3. Append(lines, Text) = <<Text>>
    BY <1>1
  <1>4. PICK out \in {<<>>, <<Text>>} :
            \/ ServeBatch(call, out) \/ ServeStep(call, out) \/ ServeReset(call, out)
            \/ ServeRead(call, out) \/ ServeForce(call, out) \/ ServeCoverage(call, out)
    BY <1>1, <1>3 DEF Serve
  <1>5. /\ counted \in Nat /\ ticked \in Nat /\ garbled \in BOOLEAN
        /\ build.backend = "verilator" => counted = ticked
        /\ "reset" \notin build.registers => counted <= ticked
    BY <1>1 DEF TypeOK, InStep
  <1>6. ~Misread(call.cmd) => Handler(call) = call.cmd
    BY <1>1, HandlerOfCommand, LinkAssumption DEF TypeOK
  <1>6a. Misread(call.cmd) => call.cmd = "force" /\ build.backend = "xsim"
    BY DEF Misread
  <1>6b. Misread(call.cmd) => \/ Handler(call) = "step"
                              \/ Handler(call) = "reset" /\ "reset" \in build.registers
                              \/ Handler(call) = "force"
    <2>1. build \in BuildType
      BY LinkAssumption DEF TypeOK
    <2> QED
      BY <1>1, <2>1, WhatMisreads, Zenon
  <1> DEFINE Goal == /\ ticked' \in Nat /\ garbled' \in BOOLEAN
                     /\ lines' = out \/ \E line : Written(out, line)
  <1> SUFFICES Goal
    BY <1>1, <1>2
  <1>7. CASE ServeBatch(call, out)
    <2>1. PICK k \in 0..call.n : /\ \E ticks \in Cycles(k, call.n) : ticked' = ticked + ticks
                                /\ SayOrGarble(call, k, k < call.n, out)
      BY <1>7 DEF ServeBatch
    <2>2. k \in 0..MaxBatch /\ k \in Nat /\ (k < call.n) \in BOOLEAN
      BY <1>1, LinkAssumption
    <2>3. ticked' = ticked + k \/ (build.backend = "xsim" /\ ticked' = ticked + (k + 1))
      BY <2>1 DEF Cycles
    <2>4. ticked' \in Nat
      BY <1>5, <2>2, <2>3
    <2>5. Settles(Reply(call, k, k < call.n), ticked')
      <3>1. Reply(call, k, k < call.n).states = k
        BY DEF Reply
      <3>2. build.backend = "verilator" => ticked' = ticked + k
        BY <2>3
      <3>3. ticked + k <= ticked'
        BY <1>5, <2>2, <2>3
      <3>4. call.cmd = "step_trace"
        BY <1>6, <1>7, <1>6b, Zenon DEF ServeBatch
      <3> QED
        BY <1>5, <2>2, <2>4, <3>1, <3>2, <3>3, <3>4 DEF Settles, CountedAfter
    <2> QED
      BY <1>1, <2>1, <2>2, <2>4, <2>5, GarbledOrNot
  <1>8. CASE ServeStep(call, out)
    <2>1. ticked' = ticked + 1 /\ SayOrGarble(call, 1, FALSE, out) /\ Handler(call) = "step"
      BY <1>8 DEF ServeStep
    <2>2. CountedAfter(call.cmd, Reply(call, 1, FALSE)) = IF Misread(call.cmd) THEN counted ELSE counted + 1
      BY <1>6, <1>6a, <2>1 DEF CountedAfter
    <2>3. Settles(Reply(call, 1, FALSE), ticked')
      <3>1. build.backend = "verilator" => ~Misread(call.cmd) /\ counted + 1 = ticked'
        BY <1>5, <1>6a, <2>1
      <3>2. "reset" \notin build.registers => counted <= ticked' /\ counted + 1 <= ticked'
        BY <1>5, <2>1
      <3> QED
        BY <2>2, <3>1, <3>2, Zenon DEF Settles
    <2>4. ticked' \in Nat
      BY <1>5, <2>1
    <2> QED
      BY <1>1, <2>1, <2>3, <2>4, GarbledOrNot
  <1>9. CASE ServeReset(call, out)
    <2>1. ticked' = 0 /\ SayOrGarble(call, 0, FALSE, out) /\ Handler(call) = "reset"
      BY <1>9 DEF ServeReset
    <2>2. build.backend = "verilator" \/ "reset" \notin build.registers =>
             CountedAfter(call.cmd, Reply(call, 0, FALSE)) = 0
      BY <1>6, <1>6a, <1>6b, <2>1 DEF CountedAfter
    <2>3. Settles(Reply(call, 0, FALSE), ticked')
      <3>1. build.backend = "verilator" => 0 = ticked'
        BY <1>5, <2>1
      <3>2. "reset" \notin build.registers => 0 <= ticked'
        BY <1>5, <2>1
      <3> QED
        BY <2>2, <3>1, <3>2, Zenon DEF Settles
    <2> QED
      BY <1>1, <2>1, <2>3, GarbledOrNot
  <1>10. CASE ServeRead(call, out)
    <2>1. ticked' = ticked /\ SayOrGarble(call, 1, FALSE, out) /\ Handler(call) = "read_state"
      BY <1>10 DEF ServeRead
    <2>2. Settles(Reply(call, 1, FALSE), ticked')
      BY <1>5, <1>6, <1>6a, <1>6b, <2>1 DEF Settles, CountedAfter
    <2> QED
      BY <1>1, <1>5, <2>1, <2>2, GarbledOrNot
  <1>11. CASE ServeForce(call, out)
    <2>1. /\ ticked' = ticked /\ lines' = out \o <<Reply(call, 0, FALSE)>>
          /\ Handler(call) = "force" /\ UNCHANGED garbled
      BY <1>11 DEF ServeForce, Say
    <2>2. Settles(Reply(call, 0, FALSE), ticked')
      BY <1>5, <1>6, <1>6a, <1>6b, <2>1 DEF Settles, CountedAfter
    <2>3. Written(out, Reply(call, 0, FALSE))
      BY <1>1, <2>1, <2>2, ReplyIsLine DEF Written
    <2> QED
      BY <1>5, <2>1, <2>3
  <1>12. CASE ServeCoverage(call, out)
    <2>1. PICK error \in {~build.coverage, build.backend = "xsim"} :
              lines' = IF build.coverage \/ build.backend = "xsim"
                       THEN out \o <<Reply(call, 0, error)>> ELSE out
      BY <1>12 DEF ServeCoverage, Say
    <2>2. ticked' = ticked /\ Handler(call) = "coverage" /\ UNCHANGED garbled
      BY <1>12 DEF ServeCoverage
    <2>3. error \in BOOLEAN
      OBVIOUS
    <2>4. Settles(Reply(call, 0, error), ticked')
      BY <1>5, <1>6, <1>6a, <1>6b, <2>2 DEF Settles, CountedAfter
    <2>5. lines' = out \o <<Reply(call, 0, error)>> => Written(out, Reply(call, 0, error))
      BY <1>1, <2>3, <2>4, ReplyIsLine DEF Written
    <2> QED
      BY <1>5, <2>1, <2>2, <2>5
  <1> QED
    BY <1>4, <1>7, <1>8, <1>9, <1>10, <1>11, <1>12

(* Then the lines hold at most one reply, the last one, to this call.      *)
LEMMA LinesServed ==
    ASSUME TypeOK, InStep, Serve
    PROVE  /\ lines' \in Seq(Line)
           /\ \A i \in 1..Len(lines') : lines'[i].json =>
                 i = Len(lines') /\ lines'[i].id = call.id /\ Settles(lines'[i], ticked')
  <1>1. PICK out \in {<<>>, <<Text>>} : lines' = out \/ \E line : Written(out, line)
    BY Served
  <1>2. out \in Seq(Line) /\ \A i \in 1..Len(out) : ~out[i].json
    <2>1. CASE out = <<>>
      BY <2>1
    <2>2. CASE out = <<Text>>
      <3>1. Len(out) = 1 /\ out[1] = Text /\ out \in Seq(Line)
        BY <2>2, TextIsLine
      <3> QED
        BY <3>1, TextIsLine
    <2> QED
      BY <2>1, <2>2
  <1>3. ASSUME NEW line, Written(out, line)
        PROVE  /\ lines' \in Seq(Line)
               /\ \A i \in 1..Len(lines') : lines'[i].json =>
                     i = Len(lines') /\ lines'[i].id = call.id /\ Settles(lines'[i], ticked')
    <2>1. line \in Line /\ lines' = out \o <<line>>
      BY <1>3 DEF Written
    <2>2. /\ lines' \in Seq(Line) /\ Len(lines') = Len(out) + 1 /\ lines'[Len(out) + 1] = line
          /\ \A i \in 1..Len(out) : ~lines'[i].json
      BY <2>1, SaidLines
    <2>3. \A i \in 1..Len(lines') : i = Len(out) + 1 \/ i \in 1..Len(out)
      BY <1>2, <2>2
    <2> QED
      BY <1>3, <2>2, <2>3 DEF Written
  <1> QED
    BY <1>1, <1>2, <1>3
-----------------------------------------------------------------------------
LastType == [id : 0..MaxCalls, cmd : Commands \cup {"none"}, for : 0..MaxCalls,
             outcome : {"none", "ok", "partial", "nothing", "raised", "closed"}]

(* The initial states.                                                     *)
LEMMA InitHolds == Init => TypeOK /\ InStep /\ Kept
  <1> SUFFICES ASSUME Init PROVE TypeOK /\ InStep /\ Kept
    OBVIOUS
  <1>1. TypeOK
    <2>1. /\ 0 \in 0..MaxCalls /\ <<>> \in Seq(Request) /\ <<>> \in Seq(Line)
      BY LinkAssumption
    <2>2. last \in LastType
      BY <2>1 DEF Init, LastType
    <2>3. ran \in [id : 0..MaxCalls, as : Commands \cup {"none"}]
      BY <2>1 DEF Init
    <2> QED
      BY <2>1, <2>2, <2>3 DEF Init, TypeOK, LastType
  <1>2. InStep
    BY DEF Init, InStep, Idle
  <1>3. Kept
    BY DEF Init, Kept, OwnAnswer, ServedAsSent, Misread
  <1> QED
    BY <1>1, <1>2, <1>3

(* Idle is no request.                                                     *)
LEMMA IdleIsNoRequest == Idle \notin Request
  BY DEF Idle, Request, Commands

(* A call begins with empty pipes.                                         *)
LEMMA SendKeeps ==
    ASSUME TypeOK, InStep, Kept, NEW cmd \in Commands, NEW n \in 1..MaxBatch, Send(cmd, n)
    PROVE  TypeOK' /\ InStep' /\ Kept'
  <1> DEFINE request == [id |-> calls + 1, cmd |-> cmd, n |-> n]
  <1>1. /\ call = Idle /\ requests = <<>> /\ lines = <<>> /\ calls' = calls + 1 /\ garbled' = FALSE
        /\ UNCHANGED <<build, up, lines, counted, ticked, ran>>
    BY DEF Send, InStep
  <1>2. calls + 1 \in 1..MaxCalls /\ request \in Request
    BY LinkAssumption DEF Send, TypeOK, Request
  <1>3. CASE up
    <2>1. call' = request /\ requests' = <<request>> /\ last' = last
      BY <1>1, <1>3 DEF Send
    <2>2. call' # Idle
      BY <1>2, <2>1, IdleIsNoRequest
    <2>3. requests' \in Seq(Request)
      BY <1>2, <2>1
    <2>4. TypeOK'
      <3>1. calls' \in 0..MaxCalls /\ call' \in Request
        BY <1>1, <1>2, <2>1, LinkAssumption
      <3>2. UNCHANGED <<build, up, lines, last, counted, ticked, ran>> /\ garbled' \in BOOLEAN
        BY <1>1, <2>1
      <3> QED
        BY <2>3, <3>1, <3>2 DEF TypeOK
    <2>5. InStep'
      BY <1>1, <1>3, <2>1, <2>2 DEF InStep
    <2>6. Kept'
      BY <2>1, <2>2 DEF Kept, OwnAnswer, ServedAsSent, Misread
    <2> QED
      BY <2>4, <2>5, <2>6
  <1>4. CASE ~up
    <2>1. /\ last' = [id |-> calls + 1, cmd |-> cmd, outcome |-> "closed", for |-> 0]
          /\ UNCHANGED <<call, requests>>
      BY <1>4 DEF Send
    <2>2. TypeOK'
      <3>1. calls' \in 0..MaxCalls /\ 0 \in 0..MaxCalls
        BY <1>1, <1>2, LinkAssumption
      <3>2. last' \in LastType
        BY <1>1, <2>1, <3>1 DEF LastType
      <3> QED
        BY <1>1, <2>1, <3>1, <3>2 DEF TypeOK, LastType
    <2>3. InStep'
      BY <1>1, <1>4, <2>1 DEF InStep
    <2>4. Kept'
      BY <2>1 DEF Kept, OwnAnswer, ServedAsSent, Misread
    <2> QED
      BY <2>2, <2>3, <2>4
  <1> QED
    BY <1>3, <1>4

(* A reply settles the call; text leaves it waiting.                       *)
LEMMA ReceiveKeeps ==
    ASSUME TypeOK, InStep, Kept, Receive
    PROVE  TypeOK' /\ InStep' /\ Kept'
  <1>1. /\ call # Idle /\ call \in Request /\ lines # <<>> /\ requests = <<>>
        /\ lines' = Tail(lines)
        /\ UNCHANGED <<build, up, requests, calls, ticked, ran, garbled>>
    BY DEF Receive, InStep, TypeOK
  <1>2. /\ lines \in Seq(Line) /\ Len(lines) \in Nat /\ Len(lines) >= 1
        /\ Head(lines) = lines[1] /\ Head(lines) \in Line
        /\ Tail(lines) \in Seq(Line) /\ Len(Tail(lines)) = Len(lines) - 1
        /\ \A i \in 1..Len(Tail(lines)) : Tail(lines)[i] = lines[i + 1]
    BY <1>1 DEF TypeOK
  <1>3. CASE Head(lines).json
    <2>1. Answers(Head(lines)) /\ Len(lines) = 1
      <3>1. 1 \in 1..Len(lines) /\ lines[1].json
        BY <1>2, <1>3
      <3> QED
        BY <1>2, <3>1 DEF InStep
    <2>2. lines' = <<>>
      BY <1>1, <1>2, <2>1
    <2>3. /\ last' = [id |-> call.id, cmd |-> call.cmd, for |-> Head(lines).id,
                      outcome |-> Outcome(call.cmd, Head(lines))]
          /\ counted' = CountedAfter(call.cmd, Head(lines)) /\ call' = Idle
      BY <1>3 DEF Receive
    <2>4. /\ Head(lines).id = call.id /\ ran = [id |-> call.id, as |-> Handler(call)]
          /\ build.backend = "verilator" => counted' = ticked
          /\ "reset" \notin build.registers => counted' <= ticked
      BY <2>1, <2>3 DEF Answers
    <2>5. counted' \in Nat
      <3>1. counted \in Nat /\ Head(lines).states \in Nat
        BY <1>2, LinkAssumption DEF TypeOK, Line
      <3> QED
        BY <2>3, <3>1 DEF CountedAfter
    <2>6. last'.outcome \in {"ok", "partial", "nothing", "raised"}
      BY <2>3 DEF Outcome
    <2>7. TypeOK'
      <3>1. last' \in LastType
        BY <1>1, <1>2, <2>3, <2>6, LinkAssumption DEF Request, Line, LastType
      <3> QED
        BY <1>1, <1>2, <2>3, <2>5, <3>1 DEF TypeOK, LastType
    <2>8. InStep'
      <3>1. 1..Len(lines') = {} /\ requests' = <<>> /\ last'.outcome # "closed"
        BY <1>1, <2>2, <2>6
      <3>2. /\ build'.backend = "verilator" => counted' = ticked'
            /\ "reset" \notin build'.registers => counted' <= ticked'
        BY <1>1, <2>4
      <3> QED
        BY <2>2, <3>1, <3>2 DEF InStep
    <2>9. Kept'
      <3>1. last'.for = last'.id
        BY <2>3, <2>4
      <3>2. ~Misread(last'.cmd) => ran' = [id |-> last'.id, as |-> last'.cmd]
        BY <1>1, <2>3, <2>4, HandlerOfCommand, LinkAssumption DEF TypeOK
      <3> QED
        BY <1>1, <3>1, <3>2 DEF Kept, OwnAnswer, ServedAsSent, Misread
    <2> QED
      BY <2>7, <2>8, <2>9
  <1>4. CASE ~Head(lines).json
    <2>1. UNCHANGED <<call, last, counted>>
      BY <1>4 DEF Receive
    <2>2. TypeOK'
      BY <1>1, <1>2, <2>1 DEF TypeOK
    <2>3. \A i \in 1..Len(lines') : lines'[i].json => i = Len(lines') /\ Answers(lines[i])'
      <3> SUFFICES ASSUME NEW i \in 1..Len(lines'), lines'[i].json
                   PROVE  i = Len(lines') /\ Answers(lines[i])'
        OBVIOUS
      <3>1. i + 1 \in 1..Len(lines) /\ lines'[i] = lines[i + 1]
        BY <1>1, <1>2
      <3>2. i + 1 = Len(lines) /\ Answers(lines[i + 1])
        BY <3>1 DEF InStep
      <3>3. i = Len(lines')
        <4>1. Len(lines') = Len(lines) - 1 /\ Len(lines) \in Nat /\ i \in Int
          BY <1>1, <1>2
        <4> QED
          BY <3>2, <4>1
      <3>4. Answers(lines[i])'
        BY <1>1, <2>1, <3>1, <3>2 DEF Answers, Handler, Mentions, CountedAfter
      <3> QED
        BY <3>3, <3>4
    <2>4. InStep'
      BY <1>1, <2>1, <2>3 DEF InStep, Idle
    <2>5. Kept'
      BY <1>1, <2>1 DEF Kept, OwnAnswer, ServedAsSent, Misread
    <2> QED
      BY <2>2, <2>4, <2>5
  <1> QED
    BY <1>3, <1>4

(* Serving writes at most one reply, to the call under way.                *)
LEMMA ServeKeeps ==
    ASSUME TypeOK, InStep, Kept, Serve
    PROVE  TypeOK' /\ InStep' /\ Kept'
  <1>1. /\ call \in Request /\ call # Idle /\ requests' = <<>>
        /\ ran' = [id |-> call.id, as |-> Handler(call)]
        /\ ticked' \in Nat /\ garbled' \in BOOLEAN
    BY Served
  <1>2. /\ lines' \in Seq(Line)
        /\ \A i \in 1..Len(lines') : lines'[i].json =>
              i = Len(lines') /\ lines'[i].id = call.id /\ Settles(lines'[i], ticked')
    BY LinesServed
  <1>3. UNCHANGED <<build, up, calls, call, last, counted>>
    BY DEF Serve
  <1>4. TypeOK'
    <2>1. ran' \in [id : 0..MaxCalls, as : Commands \cup {"none"}]
      <3>1. call.id \in 0..MaxCalls
        BY <1>1, LinkAssumption DEF Request
      <3> QED
        BY <1>1, <3>1, HandlerIsCommand
    <2> QED
      BY <1>1, <1>2, <1>3, <2>1 DEF TypeOK
  <1>5. InStep'
    <2>1. Handler(call)' = Handler(call)
      BY <1>3 DEF Handler, Mentions
    <2>2. ASSUME NEW i \in 1..Len(lines'), lines'[i].json
          PROVE  i = Len(lines') /\ Answers(lines[i])'
      BY <1>1, <1>2, <1>3, <2>1, <2>2 DEF Answers, Settles, CountedAfter
    <2> QED
      BY <1>1, <1>3, <2>2 DEF InStep, Serve
  <1>6. Kept'
    BY <1>1, <1>3 DEF Kept, OwnAnswer, ServedAsSent, Misread
  <1> QED
    BY <1>4, <1>5, <1>6

(* The end of a process abandons the call.                                 *)
LEMMA EndKeeps ==
    ASSUME TypeOK, InStep, Kept, Closed \/ Close \/ Die
    PROVE  TypeOK' /\ InStep' /\ Kept'
  <1>1. call # Idle => call \in Request /\ call.id \in 0..MaxCalls /\ call.cmd \in Commands
    BY LinkAssumption DEF TypeOK, Request
  <1> DEFINE lost == [id |-> call.id, cmd |-> call.cmd, outcome |-> "closed", for |-> 0]
  <1>2. call # Idle => lost \in LastType
    BY <1>1, LinkAssumption DEF LastType
  <1>3. CASE Closed
    <2>1. /\ call # Idle /\ lines = <<>> /\ ~up /\ requests = <<>>
          /\ last' = lost /\ call' = Idle
          /\ UNCHANGED <<build, up, requests, lines, calls, counted, ticked, ran, garbled>>
      BY <1>3 DEF Closed, InStep
    <2>2. TypeOK'
      BY <1>2, <2>1 DEF TypeOK, LastType
    <2>3. InStep'
      BY <2>1 DEF InStep
    <2>4. Kept'
      BY <2>1 DEF Kept, OwnAnswer, ServedAsSent, Misread
    <2> QED
      BY <2>2, <2>3, <2>4
  <1>4. CASE Close
    <2>1. /\ up' = FALSE /\ requests' = <<>> /\ lines' = <<>> /\ call' = Idle
          /\ last' = IF call = Idle THEN last ELSE lost
          /\ UNCHANGED <<build, calls, counted, ticked, ran, garbled>>
      BY <1>4 DEF Close
    <2>2. last' \in LastType
      BY <1>2, <2>1 DEF TypeOK, LastType
    <2>3. TypeOK'
      <3>1. <<>> \in Seq(Request) /\ <<>> \in Seq(Line)
        OBVIOUS
      <3> QED
        BY <2>1, <2>2, <3>1 DEF TypeOK, LastType
    <2>4. InStep'
      BY <2>1 DEF InStep
    <2>5. Kept'
      BY <2>1 DEF Kept, OwnAnswer, ServedAsSent, Misread
    <2> QED
      BY <2>3, <2>4, <2>5
  <1>5. CASE Die
    <2>1. /\ up' = FALSE /\ requests' = <<>> /\ call # Idle
          /\ UNCHANGED <<build, lines, calls, call, last, counted, ticked, ran, garbled>>
      BY <1>5 DEF Die
    <2>2. TypeOK'
      <3>1. <<>> \in Seq(Request)
        OBVIOUS
      <3> QED
        BY <2>1, <3>1 DEF TypeOK
    <2>3. ASSUME NEW i \in 1..Len(lines'), lines'[i].json
          PROVE  i = Len(lines') /\ Answers(lines[i])'
      BY <2>1, <2>3 DEF InStep, Answers, Handler, Mentions, CountedAfter
    <2>4. InStep'
      BY <2>1, <2>3 DEF InStep
    <2>5. Kept'
      BY <2>1 DEF Kept, OwnAnswer, ServedAsSent, Misread
    <2> QED
      BY <2>2, <2>4, <2>5
  <1> QED
    BY <1>3, <1>4, <1>5

(* A stuttering step.                                                      *)
LEMMA StutterKeeps ==
    ASSUME TypeOK, InStep, Kept, UNCHANGED vars
    PROVE  TypeOK' /\ InStep' /\ Kept'
  <1>1. TypeOK'
    BY DEF TypeOK, vars
  <1>2. InStep'
    <2>1. ASSUME NEW i \in 1..Len(lines'), lines'[i].json
          PROVE  i = Len(lines') /\ Answers(lines[i])'
      BY <2>1 DEF InStep, Answers, Handler, Mentions, CountedAfter, vars
    <2> QED
      BY <2>1 DEF InStep, vars
  <1>3. Kept'
    BY DEF Kept, OwnAnswer, ServedAsSent, Misread, vars
  <1> QED
    BY <1>1, <1>2, <1>3

(* The link is never out of step: types, at most one reply under way, and  *)
(* the books of the history variables (_send, _recv and both servers).     *)
THEOREM LinkInStep == Spec => [](TypeOK /\ InStep /\ Kept)
  <1> DEFINE Inv == TypeOK /\ InStep /\ Kept
  <1>1. Init => Inv
    BY InitHolds
  <1>2. Inv /\ [Next]_vars => Inv'
    <2> SUFFICES ASSUME Inv, [Next]_vars PROVE Inv'
      OBVIOUS
    <2>1. ASSUME NEW cmd \in Commands, NEW n \in 1..MaxBatch, Send(cmd, n) PROVE Inv'
      BY <2>1, SendKeeps
    <2>2. CASE Receive
      BY <2>2, ReceiveKeeps
    <2>3. CASE Serve
      BY <2>3, ServeKeeps
    <2>4. CASE Closed \/ Close \/ Die
      BY <2>4, EndKeeps
    <2>5. CASE UNCHANGED vars
      BY <2>5, StutterKeeps
    <2> QED
      BY <2>1, <2>2, <2>3, <2>4, <2>5 DEF Next
  <1> QED
    BY <1>1, <1>2, PTL DEF Spec

(* The reader, the simulator and its clock keep to their types, whatever   *)
(* lines the two sides exchange and wherever a batch breaks.               *)
THEOREM TypeCorrect == Spec => []TypeOK
  BY LinkInStep, PTL

(* No call returns the reply to another one, although nothing in a line    *)
(* names the request it answers.                                           *)
THEOREM AnswersAreOwn == Spec => []OwnAnswer
  BY LinkInStep, PTL DEF Kept

(* A call that returned was served by the handler of its command, unless   *)
(* it forces, in the Tcl bridge, a register called step or reset.          *)
THEOREM CallsServedAsSent == Spec => []ServedAsSent
  BY LinkInStep, PTL DEF Kept

(* Between calls the cycles the callers count are those the simulator has  *)
(* made, whatever batches broke.                                           *)
THEOREM CyclesAreKnown == Spec => []CyclesKnown
  <1>1. InStep => CyclesKnown
    BY DEF InStep, CyclesKnown
  <1> QED
    BY <1>1, LinkInStep, PTL
=============================================================================
