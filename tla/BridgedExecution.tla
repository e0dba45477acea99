-------------------------- MODULE BridgedExecution --------------------------
(***************************************************************************)
(* Executing through a worker: the server's adapter thread of one call      *)
(* (worker_bridged_adapter.py), the endpoint's sessions with the attempts    *)
(* they track (worker_endpoint.py), the records of suspended turns and the   *)
(* device at the other end (WorkerDevice), over connections that break at    *)
(* any moment on one side before the other.                                 *)
(***************************************************************************)
EXTENDS WorkerDevice, FiniteSetsExt

CONSTANTS
    MaxTracked,     \* MAX_PENDING_ATTEMPTS_PER_SESSION
    MaxSuspensions  \* MAX_PENDING_SUSPENSIONS

\* The run loop always makes its first pass; None is no attempt and no outcome.
ASSUME BridgeAssumption == MaxTries \in Nat \ {0} /\ None \notin Attempts \union Statuses \union {"interrupted"}

VARIABLES
    session,   \* per connection: none, open or closed
    pending,   \* per connection: the attempts the session tracks
    items,     \* per attempt: PendingAttempt._items
    outcome,   \* per attempt: PendingAttempt._outcome
    call,      \* per attempt: the thread of the gateway request
    handles,   \* _suspended: the tokens the adapter keeps
    records,   \* the registry's records: the tokens a client may continue
    reported,  \* _observed_bindings names the resource
    belated,   \* history: connections that were down already when their session was published
    astray     \* history: attempts a cancel of which went to a session that does not track them

serverVars == <<session, pending, items, outcome, call, handles, records, reported, belated, astray>>
bridgeVars == <<deviceVars, serverVars>>
Token(a, n) == <<a, n>>
Ended == {"refused", "ambiguous", "timeout", "completed", "failed", "cancelled", "disconnected", "lost", "uncontinued"}
NoCall == [at |-> "idle", token |-> 0, gone |-> FALSE, told |-> FALSE]

BridgeInit ==
    /\ DeviceInit
    /\ session = [g \in Conns |-> "none"]
    /\ pending = [g \in Conns |-> {}]
    /\ items = [a \in Attempts |-> <<>>]
    /\ outcome = [a \in Attempts |-> None]
    /\ call = [a \in Attempts |-> NoCall]
    /\ handles = {} /\ records = {}
    /\ reported = FALSE /\ belated = {} /\ astray = {}

\* What a connection carries, whatever its order.
Down(g) == Range(wire[g].toDevice)
Up(g) == Range(wire[g].toServer)
Execute(a) == Frame("execute", a, 0, None)
Cancel(a) == Frame("cancel", a, 0, None)

Open == {g \in Conns : session[g] = "open"}

\* session_for_resource: the first row of the configured worker, once a report named the resource.
Reachable == reported /\ Open # {}
ChosenLast(rows) == Max(rows)
Chosen(rows) == Min(rows)
SessionFor == Chosen(Open)

\* PendingAttempt.resolve keeps the first outcome.
Resolved(a, o) == IF outcome[a] = None THEN o ELSE outcome[a]

\* WorkerSession.close: the row goes, its waiters are told, its transport is closed (and left as w).
CloseSession(g, w) ==
    /\ session' = [session EXCEPT ![g] = "closed"]
    /\ pending' = [pending EXCEPT ![g] = {}]
    /\ outcome' = [a \in Attempts |-> IF a \in pending[g] THEN Resolved(a, "interrupted") ELSE outcome[a]]
    /\ wire' = [wire EXCEPT ![g] = w]

Written(g, m) == [wire EXCEPT ![g].toDevice = IF wire[g].up THEN Append(@, m) ELSE @]

\* A write that fails says nothing of what the peer has received.
FailedWrite(g, m) == {ServerCloses(wire[g])} \union
    (IF wire[g].up THEN {[ServerCloses(wire[g]) EXCEPT !.toDevice = Append(@, m)]} ELSE {})

-----------------------------------------------------------------------------
(* The session's reader. *)

\* The handshake in one step (the endpoint's own module has it in full), at whatever time after the hello: the device
\* may have left meanwhile.  The credential the run loop loaded at its start is refused once the administrator has
\* rotated or revoked it.
Authenticate(g) ==
    /\ session[g] = "none" /\ wire[g].toServer # <<>>
    /\ \E trusted \in BOOLEAN :
          /\ belated' = IF trusted /\ ~wire[g].up THEN belated \union {g} ELSE belated
          /\ session' = [session EXCEPT ![g] = IF trusted THEN "open" ELSE "closed"]
          /\ wire' = [wire EXCEPT ![g] = [toServer |-> Tail(@.toServer), up |-> @.up /\ trusted,
                toDevice |-> IF @.up THEN <<Frame(IF trusted THEN "ack" ELSE "denied", None, 0, None)>> ELSE <<>>]]
    /\ UNCHANGED <<device, jobs, interrupted, late, faults, pending, items, outcome, call, handles, records, reported, astray>>

\* A second suspension before the first is taken is refused.
Outstanding(a) == \E i \in DOMAIN items[a] : items[a][i].kind = "call"
Pushed(a, m) == IF m.kind = "call" /\ Outstanding(a) THEN items ELSE [items EXCEPT ![a] = Append(@, m)]

\* A result or an interruption report ends the tracking; frames for an attempt this session does not track are refused.
Receive(g) ==
    LET m == Head(wire[g].toServer)  a == m.attempt IN
    /\ session[g] = "open" /\ wire[g].toServer # <<>>
    /\ wire' = [wire EXCEPT ![g].toServer = Tail(@)]
    /\ reported' = (reported \/ m.kind = "report")
    /\ IF m.kind \in {"result", "interrupted"} /\ a \in pending[g]
       THEN /\ pending' = [pending EXCEPT ![g] = @ \ {a}]
            /\ outcome' = [outcome EXCEPT ![a] = Resolved(a, IF m.kind = "result" THEN m.status ELSE "interrupted")]
       ELSE UNCHANGED <<pending, outcome>>
    /\ items' = IF m.kind \in {"chunk", "garbled", "call"} /\ a \in pending[g] THEN Pushed(a, m) ELSE items
    /\ UNCHANGED <<device, jobs, interrupted, late, faults, session, call, handles, records, belated, astray>>

\* The reader sees the end of the connection, the monitor its silence, or a write fails; until then a half-open row
\* stays, and what it had not read is lost with it.
LoseSession(g) ==
    /\ session[g] = "open" /\ (wire[g].up => g = device.conn /\ device.ended)
    /\ CloseSession(g, ServerCloses(wire[g]))
    /\ UNCHANGED <<device, jobs, interrupted, late, faults, items, call, handles, records, reported, belated, astray>>

-----------------------------------------------------------------------------
(* The adapter's thread. *)

\* What an execute request that may have been delivered becomes when its write fails.
BeginFailureRefused == "refused"
BeginFailure == "ambiguous"

At(c, verdict) == IF verdict \in Ended THEN [c EXCEPT !.at = verdict, !.gone = FALSE, !.told = FALSE] ELSE [c EXCEPT !.at = verdict]
Ends(a, verdict) == call' = [call EXCEPT ![a] = At(@, verdict)]

Begin(a) ==
    /\ call[a].at = "idle"
    /\ \/ /\ Reachable => \E other \in Others : Cardinality(pending[SessionFor]) + other >= MaxTracked
          /\ Ends(a, "refused")
          /\ UNCHANGED <<wire, session, pending, outcome>>
       \/ /\ Reachable
          /\ LET g == SessionFor  m == Execute(a) IN
             \/ /\ Ends(a, "awaiting")
                /\ pending' = [pending EXCEPT ![g] = @ \union {a}]
                /\ wire' = Written(g, m)
                /\ UNCHANGED <<session, outcome>>
             \/ \E w \in FailedWrite(g, m) : Ends(a, BeginFailure) /\ CloseSession(g, w)
    /\ UNCHANGED <<device, jobs, interrupted, late, faults, items, handles, records, reported, belated, astray>>

\* _send_cancel_best_effort: to the session of the resource now, if there is one.
CancelForgotten(a) == wire
CancelWire(a) == IF Reachable THEN Written(SessionFor, Cancel(a)) ELSE wire
Misled(a) == Reachable /\ \E g \in Conns : a \in pending[g] /\ g # SessionFor
Cancels(a) ==
    /\ wire' = CancelWire(a)
    /\ astray' = IF Misled(a) THEN astray \union {a} ELSE astray

Waiting(a) == call[a].at \in {"awaiting", "resuming"}
Resuming(a) == call[a].at = "resuming"
Held(a) == Token(a, call[a].token)

SeeCancelled(a) ==
    /\ Waiting(a) /\ call[a].gone /\ ~call[a].told
    /\ call' = [call EXCEPT ![a].told = TRUE]
    /\ Cancels(a)
    /\ UNCHANGED <<device, jobs, interrupted, late, faults, session, pending, items, outcome, handles, records, reported, belated>>

\* The record a resumed leg claimed is closed with every exit of the leg.
Closed(a) == IF Resuming(a) THEN records \ {Held(a)} ELSE records
Dropped(a) == IF Resuming(a) THEN handles \ {Held(a)} ELSE handles

TakeChunk(a) ==
    /\ Waiting(a) /\ items[a] # <<>> /\ Head(items[a]).kind \in {"chunk", "garbled"}
    /\ items' = [items EXCEPT ![a] = Tail(@)]
    /\ \/ /\ Head(items[a]).kind = "garbled"       \* no cancel, and the handle stays
          /\ Ends(a, "failed") /\ records' = Closed(a)
          /\ UNCHANGED <<wire, handles, astray>>
       \/ /\ Head(items[a]).kind = "chunk" /\ ~call[a].gone
          /\ UNCHANGED <<wire, call, handles, records, astray>>
       \/ /\ Head(items[a]).kind = "chunk"         \* the client is known to be gone, or emitting finds out
          /\ Ends(a, IF call[a].gone THEN "cancelled" ELSE "disconnected")
          /\ IF call[a].told THEN UNCHANGED <<wire, astray>> ELSE Cancels(a)
          /\ records' = Closed(a) /\ handles' = Dropped(a)
    /\ UNCHANGED <<device, jobs, interrupted, late, faults, session, pending, outcome, reported, belated>>

\* The next token is registered before the old one is dropped; a turn that cannot be continued is cancelled.
RegisteredSwapped(a, n) == handles
Registered(a, n) == (handles \ {Held(a)}) \union {Token(a, n)}

TakeSuspension(a) ==
    LET n == Head(items[a]).call IN
    /\ Waiting(a) /\ items[a] # <<>> /\ Head(items[a]).kind = "call"
    /\ items' = [items EXCEPT ![a] = Tail(@)]
    /\ \/ /\ Cardinality(handles) < MaxSuspensions  \* admitted: the request returns and the client may continue
          /\ call' = [call EXCEPT ![a].at = "suspended", ![a].token = n, ![a].told = FALSE]
          /\ handles' = Registered(a, n)
          /\ records' = Closed(a) \union {Token(a, n)}
          /\ UNCHANGED <<wire, astray>>
       \/ /\ Cardinality(handles) < MaxSuspensions  \* admitted, but showing the call to the client finds it gone
          /\ call' = [call EXCEPT ![a] = [At(@, "disconnected") EXCEPT !.token = n]]
          /\ handles' = Registered(a, n)
          /\ records' = Closed(a) \union {Token(a, n)}
          /\ IF call[a].told THEN UNCHANGED <<wire, astray>> ELSE Cancels(a)
       \/ /\ Ends(a, "uncontinued")                 \* at the bound, or refused by the registrar
          /\ handles' = Dropped(a)
          /\ records' = Closed(a)
          /\ Cancels(a)
    /\ UNCHANGED <<device, jobs, interrupted, late, faults, session, pending, outcome, reported, belated>>

\* _result_from and the interrupted outcome: the worker's own status, except that silence is never a result.
VerdictOfSilence(o) == IF o = "interrupted" THEN "completed" ELSE o
Verdict(o) == IF o = "interrupted" THEN "ambiguous" ELSE o

TakeOutcome(a) ==
    /\ Waiting(a) /\ items[a] = <<>> /\ outcome[a] # None
    /\ Ends(a, Verdict(outcome[a]))
    /\ handles' = Dropped(a) /\ records' = Closed(a)
    /\ UNCHANGED <<deviceVars, session, pending, items, outcome, reported, belated, astray>>

DeadlineReached(a) == a \in late

TimesOut(a) ==
    /\ Waiting(a) /\ items[a] = <<>> /\ outcome[a] = None /\ DeadlineReached(a)
    /\ Ends(a, "timeout")
    /\ handles' = Dropped(a) /\ records' = Closed(a)
    /\ Cancels(a)
    /\ UNCHANGED <<device, jobs, interrupted, late, faults, session, pending, items, outcome, reported, belated>>

-----------------------------------------------------------------------------
(* Continuing a suspended turn, and its expiry. *)

\* The client's next request claims the record; the reaper or the claim itself finds it expired.
Claim(a) ==
    /\ call[a].at = "suspended" /\ Held(a) \in records /\ a \notin late
    /\ Ends(a, "delivering")
    /\ UNCHANGED <<deviceVars, session, pending, items, outcome, handles, records, reported, belated, astray>>

\* What losing the tool result in the write becomes.
TornDeliveryLost == "lost"
TornDelivery == "ambiguous"

\* No session: the handle is left where it is.  An attempt no longer tracked, or a write that failed: it is dropped.
Deliver(a) ==
    LET g == SessionFor  m == Frame("tool", a, call[a].token, None) IN
    /\ call[a].at = "delivering"
    /\ \/ /\ Ends(a, "cancelled")                   \* the client's present grant no longer covers the target
          /\ records' = records \ {Held(a)} /\ handles' = handles \ {Held(a)}
          /\ Cancels(a)
          /\ UNCHANGED <<session, pending, outcome>>
       \/ /\ ~Reachable
          /\ Ends(a, "lost") /\ records' = records \ {Held(a)}
          /\ UNCHANGED <<wire, session, pending, outcome, handles, astray>>
       \/ /\ Reachable /\ a \notin pending[g]
          /\ Ends(a, "lost") /\ records' = records \ {Held(a)} /\ handles' = handles \ {Held(a)}
          /\ UNCHANGED <<wire, session, pending, outcome, astray>>
       \/ /\ Reachable /\ a \in pending[g]
          /\ Ends(a, "resuming")
          /\ wire' = Written(g, m)
          /\ UNCHANGED <<session, pending, outcome, handles, records, astray>>
       \/ /\ Reachable /\ a \in pending[g]
          /\ Ends(a, TornDelivery) /\ records' = records \ {Held(a)} /\ handles' = handles \ {Held(a)}
          /\ \E w \in FailedWrite(g, m) : CloseSession(g, w)
          /\ UNCHANGED astray
    /\ UNCHANGED <<device, jobs, interrupted, late, faults, items, reported, belated>>

\* expire_due takes every record past its deadline, resumed or not, and cancels the turn.
Reap(a) ==
    /\ a \in late
    /\ \E t \in records :
          /\ t[1] = a
          /\ records' = records \ {t} /\ handles' = handles \ {t}
          /\ call' = IF call[a].at = "suspended" /\ Held(a) = t THEN [call EXCEPT ![a].at = "timeout"] ELSE call
    /\ Cancels(a)
    /\ UNCHANGED <<device, jobs, interrupted, late, faults, session, pending, items, outcome, reported, belated>>

Call(a) == Begin(a) \/ SeeCancelled(a) \/ TakeChunk(a) \/ TakeSuspension(a) \/ TakeOutcome(a) \/ TimesOut(a) \/ Deliver(a)
Reader(g) == Authenticate(g) \/ Receive(g) \/ LoseSession(g)

-----------------------------------------------------------------------------
(* Clients and administrators. *)

ClientLeaves(a) ==
    /\ Waiting(a) /\ ~call[a].gone /\ Fault
    /\ call' = [call EXCEPT ![a].gone = TRUE]
    /\ UNCHANGED <<wire, device, jobs, interrupted, late, session, pending, items, outcome, handles, records, reported, belated, astray>>

\* Both ends count the same deadline from the admission of the request.
DeadlinePasses(a) ==
    /\ a \notin late /\ call[a].at # "idle"
    /\ call[a].at \in Ended => jobs[a].st \in {"running", "asking"} \/ \E t \in records : t[1] = a
    /\ late' = late \union {a}
    /\ UNCHANGED <<wire, device, jobs, interrupted, faults, serverVars>>

-----------------------------------------------------------------------------
Threads == \/ (RunLoop \/ \E a \in Attempts : Job(a) \/ DeadlineTimer(a)) /\ UNCHANGED serverVars
           \/ \E g \in Conns : Reader(g)
           \/ \E a \in Attempts : Call(a) \/ Reap(a) \/ DeadlinePasses(a)

Environment == \/ (RequestStop \/ Break \/ \E a \in Attempts : CannotFrame(a)) /\ UNCHANGED serverVars
               \/ \E a \in Attempts : Claim(a) \/ ClientLeaves(a)

BridgeNext == Threads \/ Environment

\* The program goes on as long as one of its threads can take a step: reconnects, tool calls and messages being bounded,
\* no thread needs a fairness of its own to be served.
BridgeSpec == BridgeInit /\ [][BridgeNext]_bridgeVars /\ WF_bridgeVars(Threads)

-----------------------------------------------------------------------------
(* Properties. *)

\* Types of the bridge's state.
BridgeTypeOK ==
    /\ \A g \in Conns : pending[g] \subseteq Attempts /\ (session[g] # "open" => pending[g] = {})
    /\ \A a \in Attempts : call[a].at \in Ended \union {"idle", "awaiting", "suspended", "delivering", "resuming"}
    /\ records \subseteq handles
    /\ interrupted \subseteq Attempts /\ late \subseteq Attempts

\* An attempt refused before it was sent (submit_execute) is never run by the device: only then may the gateway say that
\* nothing happened.
RefusedNeverRuns == \A a \in Attempts : call[a].at = "refused" =>
    jobs[a].st = "none" /\ \A g \in Conns : Execute(a) \notin Down(g)

\* A continuation answered as lost (ContinuationLostError) has not been consumed: the device's turn never saw that
\* tool result and never will.
LostIsUnconsumed == \A a \in Attempts : call[a].at = "lost" =>
    jobs[a].got # call[a].token /\ \A g \in Conns : Frame("tool", a, call[a].token, None) \notin Down(g)

\* A call answered as completed was completed by the device's turn, whatever connections broke around it.
CompletedIsReported == \A a \in Attempts : call[a].at = "completed" => jobs[a].st = "over" /\ jobs[a].status = "completed"

\* The session that tracks an attempt is the one session_for_resource picks for its cancel and its tool results, although
\* the worker may have several rows at once after a half-open connection.  It is passed over only for the row of an older
\* connection whose hello was answered after the device had left it.
OwnerIsChosen == \A g \in Conns, a \in Attempts :
    a \in pending[g] => g = SessionFor \/ (SessionFor < g /\ SessionFor \in belated)

CancelUnderWay(a) == \E g \in Conns : Cancel(a) \in Down(g)
ResultIn(g, a) == \E m \in Up(g) : m.kind = "result" /\ m.attempt = a

\* A call the gateway gave up (its deadline, its client, a turn it cannot continue) leaves no turn running unawares on a
\* connected device: it has been cancelled, or the cancel is on its way behind the execute, unless it went to another
\* row than the one that tracks the attempt: by OwnerIsChosen, a belated one of an older connection.
AbandonedIsCancelled == \A a \in Attempts, g \in Conns :
    (call[a].at \in {"timeout", "disconnected", "uncontinued"} /\ a \in pending[g] /\ wire[g].up)
        => jobs[a].cancel \/ jobs[a].st \in {"leaving", "over"} \/ CancelUnderWay(a) \/ ResultIn(g, a)
           \/ a \in astray

\* What the gateway is told of an attempt is what happened on the device.
AnswersAreTrue == BridgeTypeOK /\ RefusedNeverRuns /\ LostIsUnconsumed /\ CompletedIsReported

\* Cancels and tool results go to the session that tracks the attempt, and no turn runs on unawares, but for a row that was
\* published after the device had left its connection: the session table keeps the order in which connections were
\* accepted, and such a row comes before the one that tracks.
OnlyBelatedRowsMislead == OwnerIsChosen /\ AbandonedIsCancelled

\* What MAX_PENDING_SUSPENSIONS says of the table it bounds: a suspension nobody will continue or expire still holds a
\* slot among the tracked attempts.
SuspensionsAreTracked == \A t \in handles :
    t \in records \/ call[t[1]].at \in {"delivering", "resuming"} \/ \E g \in Conns : t[1] \in pending[g]

\* What session_for_resource says of itself: the one session that may execute the resource, the owner's live one.
OwnerIsAlwaysChosen == \A g \in Conns, a \in Attempts : a \in pending[g] => g = SessionFor

\* What the protocol says of execute_result: it is sent exactly once per attempt.
EveryTurnReports == \A a \in Attempts : jobs[a].st = "over" => jobs[a].status # Dead

\* Every attempt settles: the gateway's call ends and the device's turn ends, cancelled by its deadline if by nothing
\* else.  The session stops tracking it, but for two endings it does not hear of while it lives: a result that could not
\* be framed, which the device reports on its next connection only, and a thread that died.
AttemptsSettle == \A a \in Attempts : (call[a].at # "idle") ~>
    /\ call[a].at \in Ended /\ jobs[a].st \in {"none", "over"}
    /\ (\A g \in Conns : a \notin pending[g]) \/ a \in interrupted \/ jobs[a].status = Dead

\* A worker asked to stop stops, although its reader may be blocked on a healthy connection.
StopIsServed == device.stop ~> (device.phase = "stopped")

\* Every attempt and every stop comes to its end.
EverythingSettles == AttemptsSettle /\ StopIsServed
-----------------------------------------------------------------------------
(* The inductive invariant. *)

Message(kinds, attempts, calls, statuses) == [kind : kinds, attempt : attempts, call : calls, status : statuses]
ToDevice ==
    Message({"ack", "denied"}, {None}, {0}, {None}) \union Message({"execute", "cancel"}, Attempts, {0}, {None})
    \union Message({"tool"}, Attempts, Nat, {None})
ToServer ==
    Message({"hello", "report"}, {None}, {0}, {None}) \union Message({"interrupted", "chunk", "garbled"}, Attempts, {0}, {None})
    \union Message({"call"}, Attempts, Nat, {None}) \union Message({"result"}, Attempts, {0}, Statuses)

Phases == {"connecting", "handshake", "accepted", "reading", "leaving", "closing", "backoff", "stopped"}
Stages == {"idle", "awaiting", "suspended", "delivering", "resuming"}

Wires == [Conns -> [toDevice : Seq(ToDevice), toServer : Seq(ToServer), up : BOOLEAN]]
Devices == [phase : Phases, conn : Conns, stop : BOOLEAN, ended : BOOLEAN, reason : {None, "requested", "exhausted", "fatal"}]
JobStates == [st : {"none", "running", "asking", "leaving", "over"}, conn : Nat, tracked : BOOLEAN, cancel : BOOLEAN,
              asks : Nat, got : Nat, streamed : BOOLEAN, status : Statuses \union {None, Dead}]
CallStates == [at : Ended \union Stages, token : Nat, gone : BOOLEAN, told : BOOLEAN]

BridgeTypes ==
    /\ wire \in Wires /\ device \in Devices /\ jobs \in [Attempts -> JobStates]
    /\ interrupted \subseteq Attempts /\ late \subseteq Attempts
    /\ session \in [Conns -> {"none", "open", "closed"}] /\ pending \in [Conns -> SUBSET Attempts]
    /\ items \in [Attempts -> Seq(ToServer)] /\ outcome \in [Attempts -> Statuses \union {"interrupted", None}]
    /\ call \in [Attempts -> CallStates]
    /\ handles \subseteq Attempts \X Nat /\ reported \in BOOLEAN /\ belated \subseteq Conns /\ astray \subseteq Attempts

\* Connections come one after the other: an earlier one is down (its hello may still wait for the server), a later one
\* untouched.
ConnectionFacts ==
    /\ \A g \in Conns : g # device.conn => ~wire[g].up
    /\ \A g \in Conns : g > device.conn \/ (g = device.conn /\ device.phase = "connecting") =>
          session[g] = "none" /\ Up(g) = {} /\ ~wire[g].up
    /\ \A g \in Conns : session[g] = "none" => Down(g) = {}
    /\ device.phase \in {"accepted", "reading", "leaving", "closing"} => session[device.conn] # "none"
    /\ device.phase = "backoff" => device.conn < MaxTries /\ ~wire[device.conn].up

\* Attempts are tracked by the oldest open row but for the belated ones.
SessionFacts == \A g \in Conns : pending[g] # {} => session[g] = "open" /\ reported /\ \A h \in Open : g <= h \/ h \in belated

RecordFacts ==
    /\ records \subseteq handles
    /\ \A t \in records : t[2] # 0 /\ call[t[1]].at \notin {"idle", "refused"}

\* In a queue nothing of L comes before what is of K.
Before(q, K, L) == \A i, j \in DOMAIN q : j < i /\ q[i] \in K => q[j] \notin L
To(a) == {m \in ToDevice : m.attempt = a}
Calls(a) == {m \in ToServer : m.kind = "call" /\ m.attempt = a}
ExecuteFirst(g, a) == Before(wire[g].toDevice, {Execute(a)}, To(a))
OneCall(g, a) == Before(wire[g].toServer, Calls(a), Calls(a))

\* Before its execute is sent nothing is known of an attempt.
FreshFacts(a) ==
    call[a].at \in {"idle", "refused"} =>
        ~call[a].told /\ jobs[a] = NoJob /\ \A g \in Conns : a \notin pending[g] /\ Down(g) \cap To(a) = {}

\* The execute is sent once, before everything else that is sent to the attempt on its connection, and a session that
\* tracks an attempt nobody runs has not been answered yet.
ExecuteFacts(a) == \A g \in Conns :
    /\ ExecuteFirst(g, a)
    /\ Execute(a) \in Down(g) => jobs[a].st = "none" /\ \A h \in Conns \ {g} : Execute(a) \notin Down(h)
    /\ a \in pending[g] /\ wire[g].up /\ jobs[a].st = "none" => Execute(a) \in Down(g) \/ ResultIn(g, a)

\* A turn the run loop no longer tracks has been cancelled; one that runs has every tool result it asked for.
JobFacts(a) ==
    /\ jobs[a].st = "none" => jobs[a] = NoJob
    /\ jobs[a].st # "none" => jobs[a].conn \in Conns /\ session[jobs[a].conn] # "none"
    /\ jobs[a].tracked => jobs[a].st \in {"running", "asking"}
    /\ jobs[a].st \in {"running", "asking"} => jobs[a].tracked \/ jobs[a].cancel
    /\ jobs[a].st = "running" => jobs[a].got = jobs[a].asks
    /\ jobs[a].st = "leaving" => jobs[a].status \in Statuses

\* One tool call of a turn is under way at a time: the last one it made, which its client does not hold yet.
UnderWay(a, m) == call[a].token < m.call /\ m.call = jobs[a].asks
CallFacts(a) ==
    /\ call[a].token <= jobs[a].asks
    /\ call[a].at \in {"idle", "awaiting"} => call[a].token = 0
    /\ \A m \in Range(items[a]) : m.attempt = a
    /\ \A m \in Range(items[a]) \cap Calls(a) : UnderWay(a, m)
    /\ Before(items[a], Calls(a), Calls(a))
    /\ \A g \in Conns :
          /\ OneCall(g, a)
          /\ \A m \in Up(g) \cap Calls(a) : UnderWay(a, m) /\ g = jobs[a].conn /\ Range(items[a]) \cap Calls(a) = {}

\* A tool result is sent when its call is delivered, and not before.
ToolFacts(a) ==
    /\ jobs[a].got <= call[a].token
    /\ \A g \in Conns : \A m \in Down(g) : m.kind = "tool" /\ m.attempt = a => m.call <= call[a].token
    /\ call[a].at \in {"suspended", "delivering", "lost"} =>
          /\ jobs[a].got < call[a].token
          /\ \A g \in Conns : \A m \in Down(g) : m.kind = "tool" /\ m.attempt = a => m.call < call[a].token

\* What says completed was said by a turn that completed.
Done(a) == jobs[a].st = "over" /\ jobs[a].status = "completed"
VerdictFacts(a) ==
    /\ \A g \in Conns : Frame("result", a, 0, "completed") \in Up(g) => Done(a)
    /\ outcome[a] = "completed" => Done(a)
    /\ call[a].at = "completed" => Done(a)

\* A call that was given up, or is about to be, has its cancel under way on the connection whose session tracks it.
GivenUp(a) == call[a].at \in {"timeout", "disconnected", "uncontinued"} \/ call[a].told
CancelFacts(a) == \A g \in Conns : GivenUp(a) /\ a \in pending[g] /\ wire[g].up =>
    jobs[a].cancel \/ jobs[a].st \in {"leaving", "over"} \/ Cancel(a) \in Down(g) \/ ResultIn(g, a) \/ a \in astray

AttemptFacts(a) ==
    FreshFacts(a) /\ ExecuteFacts(a) /\ JobFacts(a) /\ CallFacts(a) /\ ToolFacts(a) /\ VerdictFacts(a) /\ CancelFacts(a)

BridgeIInv == BridgeTypes /\ ConnectionFacts /\ SessionFacts /\ RecordFacts /\ \A a \in Attempts : AttemptFacts(a)
=============================================================================
