----------------------------- MODULE DriverLink -----------------------------
(***************************************************************************)
(* The conversation between BaseStdioDriver and the simulator process: one *)
(* line per request, one line per reply, matched by nothing but their      *)
(* order.  The process is the Verilator harness, which looks for the exact *)
(* "cmd":"x", or the Tcl bridge in xsim, which looks for a quoted word     *)
(* anywhere in the line: the name of a signal sent along is one, too.      *)
(* What the design prints goes through the same pipe.                      *)
(*                                                                         *)
(* The simulator's state is abstracted to the clock cycles since its last  *)
(* reset, and to which handler served the last request.                    *)
(***************************************************************************)
EXTENDS Naturals, Sequences

CONSTANTS Builds,   \* how the process may have been built, see below
          MaxBatch, MaxCalls

Commands == {"step_trace", "step", "reset", "read_state", "force", "coverage"}

(* backend; coverage: instrumented, and polled for it; inputs, registers:  *)
(* the command words that are the whole name of an input or a register.    *)
BuildType == [backend : {"verilator", "xsim"}, coverage : BOOLEAN,
              inputs : SUBSET {"step", "reset"}, registers : SUBSET {"step", "reset"}]

ASSUME LinkAssumption ==
    Builds \subseteq BuildType /\ MaxBatch \in Nat /\ MaxCalls \in Nat

VARIABLES
    build,
    up,       \* the process runs
    requests, \* its standard input
    lines,    \* its standard output
    calls,    \* calls made so far; the last is numbered calls
    call,     \* the request the driver waits for, or Idle
    last,     \* what the last finished call returned
    counted,  \* clock cycles since the last reset, as the driver's callers count
    ticked,   \* and as the process made them
    ran,      \* history: the last request served, and by which handler
    garbled   \* history: the reply to this call was no JSON

vars == <<build, up, requests, lines, calls, call, last, counted, ticked, ran, garbled>>

Idle == [id |-> 0, cmd |-> "none", n |-> 0]

Init == /\ build \in Builds
        /\ up = TRUE /\ requests = <<>> /\ lines = <<>>
        /\ calls = 0 /\ call = Idle
        /\ last = [id |-> 0, cmd |-> "none", outcome |-> "none", for |-> 0]
        /\ counted = 0 /\ ticked = 0
        /\ ran = [id |-> 0, as |-> "none"]
        /\ garbled = FALSE
-----------------------------------------------------------------------------
(* The driver *)

(* Broken variant: every backend is polled for coverage.                   *)
AsksAlways(cmd) == TRUE

(* Coverage is asked for only where it is built in.                        *)
Asks(cmd) == cmd = "coverage" => build.coverage

(* _send: a batch is at least one cycle, an empty one is answered without  *)
(* a request.  Writing to a process that is gone fails.                    *)
Send(cmd, n) ==
    /\ call = Idle /\ calls < MaxCalls
    /\ Asks(cmd)
    /\ cmd = "step_trace" \/ n = 1
    /\ calls' = calls + 1
    /\ garbled' = FALSE
    /\ LET request == [id |-> calls + 1, cmd |-> cmd, n |-> n] IN
       IF up
       THEN /\ call' = request /\ requests' = Append(requests, request)
            /\ UNCHANGED last
       ELSE /\ last' = [id |-> calls + 1, cmd |-> cmd, outcome |-> "closed", for |-> 0]
            /\ UNCHANGED <<call, requests>>
    /\ UNCHANGED <<build, up, lines, counted, ticked, ran>>

(* What the methods make of a reply.  A broken batch is not raised: its    *)
(* states are returned with the error.  A broken poll is no snapshot.      *)
Outcome(cmd, line) ==
    IF ~line.error THEN "ok"
    ELSE IF cmd = "step_trace" THEN "partial"
    ELSE IF cmd = "coverage" THEN "nothing" ELSE "raised"

(* Broken variant: the states of a broken batch are taken back.            *)
CountedTakenBack(cmd, line) ==
    IF cmd = "reset" THEN 0
    ELSE IF cmd = "step_trace" /\ line.error THEN counted - line.states
    ELSE IF cmd = "step_trace" THEN counted + line.states ELSE counted

(* A batch counts as many cycles as states came back.                      *)
CountedAfter(cmd, line) ==
    IF cmd = "reset" THEN 0
    ELSE IF cmd = "step_trace" THEN counted + line.states
    ELSE IF cmd = "step" THEN counted + 1 ELSE counted

(* _recv: a line that is no JSON is skipped, whatever it was meant to be.  *)
Receive ==
    /\ call # Idle /\ lines # <<>>
    /\ lines' = Tail(lines)
    /\ IF Head(lines).json
       THEN /\ last' = [id |-> call.id, cmd |-> call.cmd, for |-> Head(lines).id,
                        outcome |-> Outcome(call.cmd, Head(lines))]
            /\ counted' = CountedAfter(call.cmd, Head(lines))
            /\ call' = Idle
       ELSE UNCHANGED <<call, last, counted>>
    /\ UNCHANGED <<build, up, requests, calls, ticked, ran, garbled>>

(* The end of the stream is a RuntimeError.                                *)
Closed ==
    /\ call # Idle /\ lines = <<>> /\ ~up
    /\ last' = [id |-> call.id, cmd |-> call.cmd, outcome |-> "closed", for |-> 0]
    /\ call' = Idle
    /\ UNCHANGED <<build, up, requests, lines, calls, counted, ticked, ran, garbled>>

(* close(): quit, the end of standard input, after 15 seconds a kill.  The *)
(* command line calls it in a finally, so also out of a call interrupted   *)
(* from the keyboard.                                                      *)
Close ==
    /\ up
    /\ up' = FALSE /\ requests' = <<>> /\ lines' = <<>>
    /\ call' = Idle
    /\ last' = IF call = Idle THEN last
               ELSE [id |-> call.id, cmd |-> call.cmd, outcome |-> "closed", for |-> 0]
    /\ UNCHANGED <<build, calls, counted, ticked, ran, garbled>>
-----------------------------------------------------------------------------
(* The process *)

(* The quoted words of a request that the Tcl bridge looks for: the        *)
(* command, and the names of the inputs or registers sent along.           *)
Mentions(request) ==
    {request.cmd} \cup (IF request.cmd \in {"step_trace", "step"} THEN build.inputs
                        ELSE IF request.cmd = "force" THEN build.registers ELSE {})

(* Broken variant: a single step is looked for before a batch.             *)
TclOrderShort == <<"step", "step_trace", "reset", "read_state", "force", "coverage">>

(* The order of the tests of the Tcl bridge.                               *)
TclOrder == <<"step_trace", "step", "reset", "read_state", "force", "coverage">>

Handler(request) ==
    LET found == {i \in DOMAIN TclOrder : TclOrder[i] \in Mentions(request)} IN
    IF build.backend = "verilator" THEN request.cmd
    ELSE TclOrder[CHOOSE i \in found : \A j \in found : i <= j]

Reply(request, states, error) ==
    [json |-> TRUE, id |-> request.id, states |-> states, error |-> error]
Text == [json |-> FALSE, id |-> 0, states |-> 0, error |-> FALSE]

(* Broken variant: an error is a line of its own after the states.         *)
SayTwice(request, states, error) ==
    IF error THEN <<Reply(request, states, FALSE), Reply(request, 0, TRUE)>>
    ELSE <<Reply(request, states, FALSE)>>

Say(request, states, error) == <<Reply(request, states, error)>>

(* A reply to a request that shows states or clocks the design may be no   *)
(* JSON: a register that is unknown prints as x in xsim, and text the      *)
(* design printed without a newline stands before the brace.               *)
SayOrGarble(request, states, error, out) ==
    \/ lines' = out \o Say(request, states, error) /\ UNCHANGED garbled
    \/ lines' = Append(out, Text) /\ garbled' = TRUE

(* Broken variant: the clock before the inputs are read.                   *)
CyclesClockFirst(k, n) == IF k < n THEN {k + 1} ELSE {k}

(* Clock cycles of a batch that shows k states.  Both stop at the element  *)
(* that fails; in the Tcl bridge it may fail after its clock, where the    *)
(* registers are read.                                                     *)
Cycles(k, n) == {k} \cup (IF k < n /\ build.backend = "xsim" THEN {k + 1} ELSE {})

ServeBatch(request, out) ==
    /\ Handler(request) = "step_trace"
    /\ \E k \in 0..request.n :
          /\ \E ticks \in Cycles(k, request.n) : ticked' = ticked + ticks
          /\ SayOrGarble(request, k, k < request.n, out)

ServeStep(request, out) ==
    /\ Handler(request) = "step"
    /\ ticked' = ticked + 1
    /\ SayOrGarble(request, 1, FALSE, out)

ServeReset(request, out) ==
    /\ Handler(request) = "reset"
    /\ ticked' = 0
    /\ SayOrGarble(request, 0, FALSE, out)

ServeRead(request, out) ==
    /\ Handler(request) = "read_state"
    /\ SayOrGarble(request, 1, FALSE, out)
    /\ garbled' => build.backend = "xsim"
    /\ UNCHANGED ticked

ServeForce(request, out) ==
    /\ Handler(request) = "force"
    /\ lines' = out \o Say(request, 0, FALSE)
    /\ UNCHANGED <<ticked, garbled>>

(* Compiled in only with coverage; otherwise the harness says nothing at   *)
(* all and the bridge "unknown command".  The bridge catches a report that *)
(* fails.                                                                  *)
ServeCoverage(request, out) ==
    /\ Handler(request) = "coverage"
    /\ \E error \in {~build.coverage, build.backend = "xsim"} :
          lines' = IF build.coverage \/ build.backend = "xsim"
                   THEN out \o Say(request, 0, error) ELSE out
    /\ UNCHANGED <<ticked, garbled>>

Serve ==
    /\ up /\ requests # <<>>
    /\ requests' = Tail(requests)
    /\ ran' = [id |-> Head(requests).id, as |-> Handler(Head(requests))]
    /\ \E out \in {lines, Append(lines, Text)} : \* something may be printed first
          \/ ServeBatch(Head(requests), out)
          \/ ServeStep(Head(requests), out)
          \/ ServeReset(Head(requests), out)
          \/ ServeRead(Head(requests), out)
          \/ ServeForce(Head(requests), out)
          \/ ServeCoverage(Head(requests), out)
    /\ UNCHANGED <<build, up, calls, call, last, counted>>

(* The process dies: a crash, or an error nothing catches, only batches    *)
(* and reports being guarded.  What it has flushed can still be read.      *)
Die ==
    /\ up /\ call # Idle
    /\ up' = FALSE /\ requests' = <<>>
    /\ UNCHANGED <<build, lines, calls, call, last, counted, ticked, ran, garbled>>

Next == \/ \E cmd \in Commands, n \in 1..MaxBatch : Send(cmd, n)
        \/ Receive \/ Closed \/ Close \/ Serve \/ Die

Spec == Init /\ [][Next]_vars

(* The process reads and the driver listens for as long as they run.       *)
FairSpec == Spec /\ WF_vars(Serve) /\ WF_vars(Receive) /\ WF_vars(Closed)
-----------------------------------------------------------------------------
(* Properties *)

Request == [id : 1..MaxCalls, cmd : Commands, n : 1..MaxBatch]
Line == [json : BOOLEAN, id : 0..MaxCalls, states : 0..MaxBatch, error : BOOLEAN]

(* Types: a request is numbered by its call, a reply shows at most the     *)
(* states of one batch.                                                    *)
TypeOK ==
    /\ build \in Builds /\ up \in BOOLEAN /\ garbled \in BOOLEAN
    /\ requests \in Seq(Request) /\ lines \in Seq(Line)
    /\ calls \in 0..MaxCalls
    /\ call \in Request \cup {Idle}
    /\ last \in [id : 0..MaxCalls, cmd : Commands \cup {"none"}, for : 0..MaxCalls,
                 outcome : {"none", "ok", "partial", "nothing", "raised", "closed"}]
    /\ counted \in Nat /\ ticked \in Nat
    /\ ran \in [id : 0..MaxCalls, as : Commands \cup {"none"}]

(* A call never returns the reply to another: nothing in a line says what  *)
(* it answers, so one line too many or too few shifts every later reply    *)
(* (_send and _recv against the handlers).                                 *)
OwnAnswer == last.outcome \notin {"none", "closed"} => last.for = last.id

(* A force in the Tcl bridge when a register is called step or reset: the  *)
(* tests for these come first, the simulator is clocked or reset instead.  *)
Misread(cmd) == build.backend = "xsim" /\ cmd = "force" /\ build.registers # {}

(* A call that returned was served by the handler of its command, although *)
(* inputs may have the names of commands: the order of the bridge's tests. *)
ServedAsSent ==
    call = Idle /\ last.outcome \notin {"none", "closed"} /\ ~Misread(last.cmd)
    => ran = [id |-> last.id, as |-> last.cmd]

(* Between calls the driver's callers know how many cycles the simulator   *)
(* has made since its reset, although batches break: the corpus stores     *)
(* paths of that many inputs.  In the Tcl bridge a broken batch, or a      *)
(* force of a register called step, may have made one more than it shows;  *)
(* a force of one called reset starts over.                                *)
CyclesKnown ==
    call = Idle /\ last.outcome # "closed"
    => /\ build.backend = "verilator" => counted = ticked
       /\ "reset" \notin build.registers => counted <= ticked

(* A reply that tells no call apart from the one waited for: what makes    *)
(* the three properties above inductive.  At most one request is under     *)
(* way, then nothing is written; at most the last line is a reply; it is   *)
(* the reply to this call, by its handler, and settles the cycle counts.   *)
Answers(line) ==
    /\ line.id = call.id
    /\ ran = [id |-> call.id, as |-> Handler(call)]
    /\ build.backend = "verilator" => CountedAfter(call.cmd, line) = ticked
    /\ "reset" \notin build.registers => CountedAfter(call.cmd, line) <= ticked

InStep ==
    /\ call = Idle => requests = <<>> /\ lines = <<>>
    /\ requests # <<>> => requests = <<call>> /\ lines = <<>>
    /\ \A i \in 1..Len(lines) : lines[i].json => i = Len(lines) /\ Answers(lines[i])
    /\ IF up THEN last.outcome # "closed" ELSE requests = <<>>
    /\ (call = Idle /\ last.outcome # "closed") \/ requests # <<>>
       => /\ build.backend = "verilator" => counted = ticked
          /\ "reset" \notin build.registers => counted <= ticked

(* Every call returns, with a reply or with the error of a closed pipe,    *)
(* unless the one line that answers it is no JSON: _recv has no deadline   *)
(* (docs/ARCHITECTURE.md: all commands return one JSON line).              *)
CallsReturn == call # Idle /\ ~garbled ~> call = Idle \/ garbled
=============================================================================
