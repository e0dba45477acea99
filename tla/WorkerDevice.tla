---------------------------- MODULE WorkerDevice ----------------------------
(***************************************************************************)
(* The device's side of the worker protocol (worker_client.py): the run     *)
(* loop with its bounded reconnects, one session's read loop, the threads   *)
(* that execute attempts, and the tool bridge in which a turn waits for the *)
(* harness.                                                                 *)
(*                                                                         *)
(* Connection g is the g-th pass of the run loop.  Each direction of it is  *)
(* a queue of frames; a frame written to a connection that is down either   *)
(* fails or disappears (a half-open connection takes writes).              *)
(***************************************************************************)
EXTENDS Naturals, Sequences, FiniteSets

CONSTANTS
    Attempts,   \* the attempts the server may send
    MaxTries,   \* ReconnectPolicy.max_attempts
    MaxAsks,    \* tool calls one turn may make
    Capacity,   \* max_concurrent_adapters
    Others,     \* how many attempts of other calls may be in a table at a time
    MaxFaults,  \* breaks, stops and departures of a client in one behaviour
    None        \* no outcome, no status

VARIABLES
    wire,        \* per connection: the two queues and whether it is up
    device,      \* the run loop: phase, pass, stop flags and reason
    jobs,        \* per attempt: the thread executing it
    interrupted, \* _interrupted: attempts to report on the next connection
    late,        \* attempts whose deadline has passed
    faults       \* faults so far

deviceVars == <<wire, device, jobs, interrupted, late, faults>>

Fault == faults < MaxFaults /\ faults' = faults + 1

Conns == 1 .. MaxTries
Statuses == {"completed", "failed", "cancelled"}
Frame(kind, a, n, status) == [kind |-> kind, attempt |-> a, call |-> n, status |-> status]
Hello == Frame("hello", None, 0, None)
Report == Frame("report", None, 0, None)

NoJob == [st |-> "none", conn |-> 0, tracked |-> FALSE, cancel |-> FALSE, asks |-> 0, got |-> 0,
          streamed |-> FALSE, status |-> None]

DeviceInit ==
    /\ wire = [g \in Conns |-> [toDevice |-> <<>>, toServer |-> <<>>, up |-> FALSE]]
    /\ device = [phase |-> "connecting", conn |-> 1, stop |-> FALSE, ended |-> FALSE, reason |-> None]
    /\ jobs = [a \in Attempts |-> NoJob]
    /\ interrupted = {}
    /\ late = {} /\ faults = 0

\* One end closes the transport: what it had sent may still arrive, what it had not read is gone.
DeviceCloses(w) == [w EXCEPT !.up = FALSE, !.toDevice = <<>>]
ServerCloses(w) == [w EXCEPT !.up = FALSE, !.toServer = <<>>]
\* The network drops it: each end may still read what had arrived there before.
Arrived(q) == {SubSeq(q, 1, n) : n \in 0 .. Len(q)}

\* The outcomes of one write: sent, or swallowed by a connection that is down.
Sent(g, m) == IF wire[g].up THEN [wire EXCEPT ![g].toServer = Append(@, m)] ELSE wire

\* Reconnect budget: the loop gives up, or backs off before its next pass.
AfterPass(d) ==
    IF d.conn >= MaxTries THEN [d EXCEPT !.phase = "stopped", !.reason = "exhausted"] ELSE [d EXCEPT !.phase = "backoff"]

-----------------------------------------------------------------------------
(* The run loop. *)

Connect ==
    /\ device.phase = "connecting"
    /\ \/ /\ device.stop
          /\ device' = [device EXCEPT !.phase = "stopped", !.reason = "requested"]
          /\ UNCHANGED wire
       \/ /\ ~device.stop
          /\ device' = [device EXCEPT !.phase = "handshake", !.ended = FALSE]
          /\ wire' = [wire EXCEPT ![device.conn] = [@ EXCEPT !.up = TRUE, !.toServer = <<Hello>>]]
       \/ /\ ~device.stop
          /\ device' = AfterPass(device)
          /\ UNCHANGED wire
    /\ UNCHANGED <<jobs, interrupted, late, faults>>

Backoff ==
    /\ device.phase = "backoff"
    /\ device' = IF device.stop THEN [device EXCEPT !.phase = "stopped", !.reason = "requested"]
                 ELSE [device EXCEPT !.phase = "connecting", !.conn = @ + 1]
    /\ UNCHANGED <<wire, jobs, interrupted, late, faults>>

Handshake ==
    LET g == device.conn  w == wire[g] IN
    /\ device.phase = "handshake"
    /\ \/ /\ w.toDevice # <<>>
          /\ IF Head(w.toDevice).kind = "ack"
             THEN /\ device' = [device EXCEPT !.phase = "accepted"]
                  /\ wire' = [wire EXCEPT ![g].toDevice = Tail(@)]
             ELSE /\ device' = [device EXCEPT !.phase = "stopped", !.reason = "fatal"]
                  /\ wire' = [wire EXCEPT ![g] = DeviceCloses(@)]
       \/ /\ w.toDevice = <<>> /\ ~w.up
          /\ device' \in {AfterPass(device)} \union
                (IF device.stop THEN {[device EXCEPT !.phase = "stopped", !.reason = "requested"]} ELSE {})
          /\ UNCHANGED wire
       \/ /\ w.toDevice = <<>> /\ w.up            \* its read timed out: the hello stays with the server
          /\ device' = AfterPass(device)
          /\ wire' = [wire EXCEPT ![g] = DeviceCloses(@)]
    /\ UNCHANGED <<jobs, interrupted, late, faults>>

\* The loop looks at its two flags before it blocks in the next read.
LoopTop(d) == [d EXCEPT !.phase = IF d.stop \/ d.ended THEN "leaving" ELSE "reading"]

\* The interrupted attempts are taken off the queue before they are written, then the session starts with a report.
Flush ==
    LET g == device.conn IN
    /\ device.phase = "accepted"
    /\ \/ \E a \in interrupted :
             /\ interrupted' = interrupted \ {a}
             /\ \/ wire' = Sent(g, Frame("interrupted", a, 0, None)) /\ UNCHANGED device
                \/ ~wire[g].up /\ device' = AfterPass(device) /\ UNCHANGED wire
       \/ /\ interrupted = {}
          /\ device' = LoopTop(device)
          /\ wire' = Sent(g, Report)
          /\ UNCHANGED interrupted
    /\ UNCHANGED <<jobs, late, faults>>

Tracked == {a \in Attempts : jobs[a].tracked}

Over(j) == [j EXCEPT !.st = "over", !.tracked = FALSE, !.cancel = FALSE, !.streamed = FALSE]

\* The end of a session: every attempt still in flight is cancelled and remembered as interrupted.
FailInFlight ==
    /\ jobs' = [a \in Attempts |-> IF a \in Tracked THEN [jobs[a] EXCEPT !.cancel = TRUE, !.tracked = FALSE] ELSE jobs[a]]
    /\ interrupted' = interrupted \union Tracked
    /\ device' = [device EXCEPT !.phase = "closing", !.ended = TRUE]

LoopEnds ==
    /\ device.phase = "leaving"
    /\ FailInFlight
    /\ UNCHANGED <<wire, late, faults>>

\* An ended session sends no heartbeat and gets no answer: its read times out on a connection that is up.
ReadFails ==
    /\ device.phase = "reading"
    /\ wire[device.conn].toDevice = <<>> /\ (wire[device.conn].up => device.ended)
    /\ FailInFlight
    /\ UNCHANGED <<wire, late, faults>>

\* run() closes the transport, then stops or goes on.
Closing ==
    /\ device.phase = "closing"
    /\ wire' = [wire EXCEPT ![device.conn] = DeviceCloses(@)]
    /\ device' = IF device.stop THEN [device EXCEPT !.phase = "stopped", !.reason = "requested"] ELSE AfterPass(device)
    /\ UNCHANGED <<jobs, interrupted, late, faults>>

\* request_stop closes the active sender, which unblocks the reader; a sender is active from the handshake to the close.
ClosesNothing(w) == w
StopWire(w) == DeviceCloses(w)

RequestStop ==
    /\ ~device.stop /\ device.phase # "stopped" /\ Fault
    /\ device' = [device EXCEPT !.stop = TRUE]
    /\ wire' = IF device.phase \in {"handshake", "accepted", "reading", "leaving", "closing"}
               THEN [wire EXCEPT ![device.conn] = StopWire(@)] ELSE wire
    /\ UNCHANGED <<jobs, interrupted, late>>

-----------------------------------------------------------------------------
(* One frame of the read loop. *)

\* A turn is started within the bound; beyond it the attempt is answered as failed at once.
StartExecution(a) ==
    LET g == device.conn  read == [wire EXCEPT ![g].toDevice = Tail(@)] IN
    \E other \in Others :
        \/ /\ Cardinality(Tracked) + other < Capacity
           /\ jobs' = [jobs EXCEPT ![a] = [NoJob EXCEPT !.st = "running", !.conn = g, !.tracked = TRUE]]
           /\ wire' = read
           /\ UNCHANGED interrupted
        \/ /\ Cardinality(Tracked) + other >= Capacity
           /\ wire' = [read EXCEPT ![g].toServer = IF wire[g].up THEN Append(@, Frame("result", a, 0, "failed")) ELSE @]
           /\ interrupted' \in IF wire[g].up THEN {interrupted} ELSE {interrupted, interrupted \union {a}}
           /\ UNCHANGED jobs

\* A cancel for an attempt that is no longer tracked is dropped; a tool result reaches only the call that waits for it.
Signalled(job, m) ==
    IF ~job.tracked THEN job
    ELSE IF m.kind = "cancel" THEN [job EXCEPT !.cancel = TRUE]
    ELSE IF job.st = "asking" /\ job.asks = m.call THEN [job EXCEPT !.got = m.call] ELSE job

Dispatch ==
    LET m == Head(wire[device.conn].toDevice) IN
    /\ device.phase = "reading"
    /\ wire[device.conn].toDevice # <<>>
    /\ IF m.kind = "execute" THEN StartExecution(m.attempt)
       ELSE /\ jobs' = [jobs EXCEPT ![m.attempt] = Signalled(@, m)]
            /\ wire' = [wire EXCEPT ![device.conn].toDevice = Tail(@)]
            /\ UNCHANGED interrupted
    /\ device' = LoopTop(device)
    /\ UNCHANGED <<late, faults>>

-----------------------------------------------------------------------------
(* The thread of one attempt.  Its frames go out on the sender of the       *)
(* session that started it, whatever the run loop has done since.           *)

\* Emitting a chunk on a lost connection ends the attempt as interrupted, not as failed.
Emit(a) ==
    LET j == jobs[a] IN
    /\ j.st = "running" /\ ~j.streamed
    /\ \/ \E kind \in {"chunk", "garbled"} :
             /\ wire' = Sent(j.conn, Frame(kind, a, 0, None))
             /\ jobs' = [jobs EXCEPT ![a].streamed = TRUE]
             /\ UNCHANGED interrupted
       \/ /\ ~wire[j.conn].up
          /\ jobs' = [jobs EXCEPT ![a] = Over(@)]
          /\ interrupted' = interrupted \union {a}
          /\ UNCHANGED wire
    /\ UNCHANGED <<device, late, faults>>

Leave(j, status) == [j EXCEPT !.st = "leaving", !.tracked = FALSE, !.status = status]

\* A tool call that cannot be written, or framed (encode_frame's bound), ends its session and, through
\* ToolBridgeUnavailable, its turn.
Ask(a) ==
    LET j == jobs[a] IN
    /\ j.st = "running" /\ j.asks < MaxAsks
    /\ \/ /\ wire' = Sent(j.conn, Frame("call", a, j.asks + 1, None))
          /\ jobs' = [jobs EXCEPT ![a].st = "asking", ![a].asks = @ + 1]
          /\ UNCHANGED device
       \/ /\ jobs' = [jobs EXCEPT ![a] = Leave(@, "failed")]
          /\ device' = IF j.conn = device.conn /\ device.phase = "reading"
                       THEN [device EXCEPT !.ended = TRUE] ELSE device
          /\ UNCHANGED wire
    /\ UNCHANGED <<interrupted, late, faults>>

SessionStopped(g) == device.stop \/ device.conn # g \/ device.ended \/ device.phase = "stopped"
WaitsRegardless(j) == ~SessionStopped(j.conn)
KeepsWaiting(j) == ~j.cancel /\ ~SessionStopped(j.conn)

\* The bridge polls: its result, then the cancel event, then the end of the session.
BridgeReturns(a) ==
    LET j == jobs[a] IN
    /\ j.st = "asking"
    /\ \/ j.got = j.asks /\ jobs' = [jobs EXCEPT ![a].st = "running"]
       \/ /\ j.got # j.asks /\ ~KeepsWaiting(j)
          /\ jobs' = [jobs EXCEPT ![a] = Leave(@, IF j.cancel THEN "cancelled" ELSE "failed")]
    /\ UNCHANGED <<wire, device, interrupted, late, faults>>

\* The turn ends with a status to send; or its thread dies of an exception that _execute_task does not catch, and
\* nobody is told.
Dead == "dead"
Finish(a) ==
    /\ jobs[a].st = "running"
    /\ \/ \E s \in Statuses :
             /\ s = "cancelled" => jobs[a].cancel
             /\ jobs' = [jobs EXCEPT ![a] = Leave(@, s)]
       \/ jobs' = [jobs EXCEPT ![a] = [Over(@) EXCEPT !.status = Dead]]
    /\ UNCHANGED <<wire, device, interrupted, late, faults>>

\* The attempt has left the table before its result is written; a result that cannot be written or framed is reported
\* as interrupted on the next connection.
SendResult(a) ==
    /\ jobs[a].st = "leaving"
    /\ jobs' = [jobs EXCEPT ![a] = Over(@)]
    /\ \/ wire' = Sent(jobs[a].conn, Frame("result", a, 0, jobs[a].status)) /\ UNCHANGED interrupted
       \/ ~wire[jobs[a].conn].up /\ interrupted' = interrupted \union {a} /\ UNCHANGED wire
    /\ UNCHANGED <<device, late, faults>>

\* _send_result: encode_frame refuses a result beyond the frame bound, and nothing is written on a healthy connection.
CannotFrame(a) ==
    /\ jobs[a].st = "leaving" /\ jobs[a].status = "completed"
    /\ jobs' = [jobs EXCEPT ![a] = Over(@)]
    /\ interrupted' = interrupted \union {a}
    /\ UNCHANGED <<wire, device, late, faults>>

DeadlineTimer(a) ==
    /\ a \in late /\ jobs[a].st \in {"running", "asking"} /\ ~jobs[a].cancel
    /\ jobs' = [jobs EXCEPT ![a].cancel = TRUE]
    /\ UNCHANGED <<wire, device, interrupted, late, faults>>

Job(a) == Emit(a) \/ Ask(a) \/ BridgeReturns(a) \/ Finish(a) \/ SendResult(a)
RunLoop == Connect \/ Backoff \/ Handshake \/ Flush \/ LoopEnds \/ ReadFails \/ Closing \/ Dispatch

-----------------------------------------------------------------------------
(* The network. *)

Break ==
    \E g \in Conns :
        /\ wire[g].up /\ Fault
        /\ \E down \in Arrived(wire[g].toDevice), up \in Arrived(wire[g].toServer) :
              wire' = [wire EXCEPT ![g] = [toDevice |-> down, toServer |-> up, up |-> FALSE]]
        /\ UNCHANGED <<device, jobs, interrupted, late>>
=============================================================================
