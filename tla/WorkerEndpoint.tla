--------------------------- MODULE WorkerEndpoint ---------------------------
(***************************************************************************)
(* The server side of the worker protocol (worker_endpoint.py): the        *)
(* session table, the handshake of a connection, the pending attempts of a *)
(* session, and the threads that meet there.                               *)
(*                                                                         *)
(*   - one read loop per connection (WorkerSession.run);                   *)
(*   - dispatch threads that pick a session, track an attempt and write    *)
(*     its execute frame (session_for_resource, submit_execute);           *)
(*   - the liveness monitor (enforce_liveness) and the administrator       *)
(*     (revoke_worker), which snapshot the table and then close sessions.  *)
(*                                                                         *)
(* Frames are not queued: the worker is an environment that may send any   *)
(* message its session allows, or fall silent, or drop the connection.     *)
(***************************************************************************)
EXTENDS Integers, FiniteSets, Sequences, SequencesExt

CONSTANTS
    Sessions,     \* connections the listener accepts, one identity each
    Workers,      \* device identities
    Resources,    \* worker-bridged resources
    Attempts,     \* dispatched executions (attempt ids are unique)
    NoWorker,     \* worker_id is None
    NoSession,    \* an attempt that was given no session
    MaxSessions,  \* MAX_SESSIONS
    MaxPending    \* MAX_PENDING_ATTEMPTS_PER_SESSION

ASSUME EndpointAssumption ==
    /\ MaxSessions \in Nat \ {0}
    /\ MaxPending \in Nat \ {0}
    /\ NoWorker \notin Workers
    /\ NoSession \notin Sessions

VARIABLES
    identity,   \* what the identity store says of each worker
    owner,      \* administrator configuration: resource -> worker
    observed,   \* _observed_bindings: resource -> last reporting worker
    table,      \* _sessions in insertion order
    phase,      \* where each session's read loop is
    peer,       \* the identity presented in the handshake
    worker,     \* worker_id of the session, NoWorker until it is published
    closed,     \* the session's closed flag
    silent,     \* nothing was read for longer than the grace window
    pending,    \* each session's tracked attempts
    reaping,    \* sessions the liveness monitor decided to close
    revoking,   \* each worker's administrator thread: "idle", "marked" or "closing"
    condemned,  \* sessions revoke_worker found and has still to close
    barred,     \* history: sessions in the table when their worker was revoked
    stage,      \* where each dispatch thread is
    target,     \* the session it selected
    outcome,    \* what its attempt ended with
    received    \* history: the worker may have received the execute frame

adminVars    == <<identity, owner>>
sessionVars  == <<table, phase, peer, worker, closed, silent, pending>>
monitorVars  == <<reaping, revoking, condemned, barred>>
dispatchVars == <<stage, target, outcome, received>>
vars == <<adminVars, observed, sessionVars, monitorVars, dispatchVars>>

\* Refusals that promise that nothing was sent.
Definitive == {"resource_unbound", "worker_offline", "worker_overloaded"}
\* Ends that admit that the worker may have executed the attempt.
Uncertain == {"interrupted", "connection_lost"}

InTable(s) == \E i \in DOMAIN table : table[i] = s

\* dict.pop(id(self), None): a row that is not there is no error.
Without(seq, s) ==
    IF \E i \in DOMAIN seq : seq[i] = s
    THEN RemoveAt(seq, CHOOSE i \in DOMAIN seq : seq[i] = s)
    ELSE seq

Init ==
    /\ identity \in [Workers -> {"none", "active"}]
    /\ owner \in [Resources -> Workers]
    /\ observed = [r \in Resources |-> NoWorker]
    /\ table = <<>>
    /\ phase = [s \in Sessions |-> "new"]
    /\ peer = [s \in Sessions |-> NoWorker]
    /\ worker = [s \in Sessions |-> NoWorker]
    /\ closed = [s \in Sessions |-> FALSE]
    /\ silent = [s \in Sessions |-> FALSE]
    /\ pending = [s \in Sessions |-> {}]
    /\ reaping = {}
    /\ revoking = [w \in Workers |-> "idle"]
    /\ condemned = {}
    /\ barred = {}
    /\ stage = [a \in Attempts |-> "new"]
    /\ target = [a \in Attempts |-> NoSession]
    /\ outcome = [a \in Attempts |-> "none"]
    /\ received = [a \in Attempts |-> FALSE]

-----------------------------------------------------------------------------
(* WorkerSession.close                                                     *)

\* Mutant: the session forgets its pending attempts without resolving them.
InterruptedNobody(s, a) == FALSE

\* The attempt is tracked by the session whose close resolves it.
Interrupted(s, a) == a \in pending[s] /\ outcome[a] = "none"

\* The critical section; a second close returns early.
ReleaseRow(s) ==
    IF closed[s]
    THEN UNCHANGED <<closed, table, pending>>
    ELSE /\ closed' = [closed EXCEPT ![s] = TRUE]
         /\ table' = Without(table, s)
         /\ pending' = [pending EXCEPT ![s] = {}]

\* And the resolution of the attempts it removed, which no other thread can
\* reach any more.
CloseSession(s) ==
    /\ ReleaseRow(s)
    /\ outcome' = [a \in Attempts |->
                      IF ~closed[s] /\ Interrupted(s, a) THEN "interrupted" ELSE outcome[a]]

-----------------------------------------------------------------------------
(* The read loop                                                           *)

\* attach_transport and register_attached: the accept loop is one thread.
Accept(s) ==
    /\ phase[s] = "new"
    /\ Len(table) < MaxSessions
    /\ table' = Append(table, s)
    /\ phase' = [phase EXCEPT ![s] = "handshake"]
    /\ UNCHANGED <<adminVars, observed, peer, worker, closed, silent, pending,
                   monitorVars, dispatchVars>>

\* _handshake reads the first frame, a hello or a pair request.
ReadHandshake(s, w) ==
    /\ phase[s] = "handshake"
    /\ ~closed[s]
    /\ peer' = [peer EXCEPT ![s] = w]
    /\ phase' = [phase EXCEPT ![s] = IF identity[w] = "none" THEN "pairing" ELSE "hello"]
    /\ UNCHANGED <<adminVars, observed, table, worker, closed, silent, pending,
                   monitorVars, dispatchVars>>

\* _pair: the code redeems to a new identity, or is rejected.
Redeem(s) ==
    /\ phase[s] = "pairing"
    /\ IF identity[peer[s]] = "none"
       THEN /\ identity' = [identity EXCEPT ![peer[s]] = "active"]
            /\ phase' = [phase EXCEPT ![s] = "verified"]
            /\ UNCHANGED <<closed, table, pending, outcome>>
       ELSE /\ CloseSession(s)
            /\ phase' = [phase EXCEPT ![s] = "ended"]
            /\ UNCHANGED identity
    /\ UNCHANGED <<owner, observed, peer, worker, silent, monitorVars, stage, target,
                   received>>

\* _authenticate asks the identity store, before any endpoint lock is held.
Verify(s) ==
    /\ phase[s] = "hello"
    /\ IF identity[peer[s]] = "active"
       THEN /\ phase' = [phase EXCEPT ![s] = "verified"]
            /\ UNCHANGED <<closed, table, pending, outcome>>
       ELSE /\ CloseSession(s)
            /\ phase' = [phase EXCEPT ![s] = "ended"]
    /\ UNCHANGED <<adminVars, observed, peer, worker, silent, monitorVars, stage, target,
                   received>>

\* _pair and _authenticate publish the session under the locks; the assignment
\* _sessions[id(self)] keeps the place of a row that is still there.
Publish(s) ==
    /\ phase[s] = "verified"
    /\ worker' = [worker EXCEPT ![s] = peer[s]]
    /\ table' = IF InTable(s) THEN table ELSE Append(table, s)
    /\ phase' = [phase EXCEPT ![s] = "acking"]
    /\ UNCHANGED <<adminVars, observed, peer, closed, silent, pending, monitorVars,
                   dispatchVars>>

\* The handshake answer. Its write fails on a closed transport and may fail on
\* any other; the read loop's handler then closes the session.
Acknowledge(s) ==
    /\ phase[s] = "acking"
    /\ \/ /\ ~closed[s]
          /\ phase' = [phase EXCEPT ![s] = "running"]
          /\ UNCHANGED <<closed, table, pending, outcome>>
       \/ /\ CloseSession(s)
          /\ phase' = [phase EXCEPT ![s] = "ended"]
    /\ UNCHANGED <<adminVars, observed, peer, worker, silent, monitorVars, stage, target,
                   received>>

\* End of file, a protocol error, or a transport somebody else closed.
EndRead(s) ==
    /\ phase[s] \in {"handshake", "running"}
    /\ CloseSession(s)
    /\ phase' = [phase EXCEPT ![s] = "ended"]
    /\ UNCHANGED <<adminVars, observed, peer, worker, silent, monitorVars, stage, target,
                   received>>

\* run stamps last_seen for every frame it reads. The loop checks the closed flag
\* before it blocks, so one frame may still be handled after another thread
\* closed the session; then the loop returns.
Reads(s) ==
    /\ phase[s] = "running"
    /\ silent' = [silent EXCEPT ![s] = FALSE]

ReadsOn(s) ==
    /\ Reads(s)
    /\ phase' = [phase EXCEPT ![s] = IF closed[s] THEN "ended" ELSE @]

\* A heartbeat, a chunk, a suspension, or an answer to an unknown attempt.
Heartbeat(s) ==
    /\ ReadsOn(s)
    /\ UNCHANGED <<adminVars, observed, table, peer, worker, closed, pending,
                   monitorVars, dispatchVars>>

\* _apply_state_report for one resource: applied only for its configured owner.
StateReport(s, r) ==
    /\ ReadsOn(s)
    /\ owner[r] = worker[s]
    /\ observed' = [observed EXCEPT ![r] = worker[s]]
    /\ UNCHANGED <<adminVars, table, peer, worker, closed, pending, monitorVars,
                   dispatchVars>>

\* The atomic report sink cannot reach the server store: a fatal error frame.
StateReportFails(s) ==
    /\ Reads(s)
    /\ CloseSession(s)
    /\ phase' = [phase EXCEPT ![s] = "ended"]
    /\ UNCHANGED <<adminVars, observed, peer, worker, monitorVars, stage, target, received>>

\* _rotate_credential is refused for an identity that is no longer active.
RotateRefused(s) ==
    /\ phase[s] = "running"
    /\ identity[worker[s]] # "active"
    /\ StateReportFails(s)

\* _complete_attempt: the first pop of the tracker decides its outcome; nobody
\* else can reach the popped tracker, so the resolution is part of the step.
CompleteAttempt(s, a, result) ==
    /\ ReadsOn(s)
    /\ a \in pending[s]
    /\ received[a]
    /\ pending' = [pending EXCEPT ![s] = @ \ {a}]
    /\ outcome' = [outcome EXCEPT ![a] = IF @ = "none" THEN result ELSE @]
    /\ UNCHANGED <<adminVars, observed, table, peer, worker, closed, monitorVars,
                   stage, target, received>>

\* _register_interrupted: the worker gave the attempt up.
ReportInterrupted(s, a) == CompleteAttempt(s, a, "interrupted")

-----------------------------------------------------------------------------
(* Dispatch threads: submit_execute_for_resource                           *)

\* Rows of the configured owner; only a published session has a worker.
Candidates(r) == {i \in DOMAIN table : worker[table[i]] = owner[r]}

Refuse(a, why) ==
    /\ outcome' = [outcome EXCEPT ![a] = why]
    /\ stage' = [stage EXCEPT ![a] = "done"]

\* session_for_resource: the first row in table order. (The owner is resolved just
\* before the lock is taken; no property below depends on that gap.)
SelectSession(a, r) ==
    /\ stage[a] = "new"
    /\ IF observed[r] # owner[r]
       THEN Refuse(a, "resource_unbound") /\ UNCHANGED target
       ELSE IF Candidates(r) = {}
       THEN Refuse(a, "worker_offline") /\ UNCHANGED target
       ELSE \E i \in Candidates(r) :
            /\ \A j \in Candidates(r) : i <= j
            /\ target' = [target EXCEPT ![a] = table[i]]
            /\ stage' = [stage EXCEPT ![a] = "selected"]
            /\ UNCHANGED outcome
    /\ UNCHANGED <<adminVars, observed, sessionVars, monitorVars, received>>

\* Mutant: the dispatch thread tracks an attempt on a session it did not check.
OpenForTrackingAlways(s) == TRUE

OpenForTracking(s) == ~closed[s]

\* submit_execute under the lock: the attempt is tracked BEFORE it is written.
Track(a) ==
    LET s == target[a] IN
    /\ stage[a] = "selected"
    /\ IF ~OpenForTracking(s)
       THEN Refuse(a, "worker_offline") /\ UNCHANGED pending
       ELSE IF Cardinality(pending[s]) >= MaxPending
       THEN Refuse(a, "worker_overloaded") /\ UNCHANGED pending
       ELSE /\ pending' = [pending EXCEPT ![s] = @ \cup {a}]
            /\ stage' = [stage EXCEPT ![a] = "tracked"]
            /\ UNCHANGED outcome
    /\ UNCHANGED <<adminVars, observed, table, phase, peer, worker, closed, silent,
                   monitorVars, target, received>>

\* Mutant: a failed write reports the session offline, as if nothing was sent.
WriteFailureDefinitive == "worker_offline"

WriteFailure == "connection_lost"

\* The write of the execute frame. A half-open connection may swallow it; a
\* failed write may have delivered it; and the transport of a session that is
\* being closed takes frames until close() reaches it.
Write(a) ==
    LET s == target[a] IN
    /\ stage[a] = "tracked"
    /\ \E got \in BOOLEAN : received' = [received EXCEPT ![a] = got]
    /\ \/ /\ stage' = [stage EXCEPT ![a] = "sent"]
          /\ UNCHANGED <<outcome, closed, table, pending>>
       \/ /\ stage' = [stage EXCEPT ![a] = "done"]
          /\ ReleaseRow(s)
          /\ outcome' = [b \in Attempts |->
                            IF b = a THEN WriteFailure
                            ELSE IF Interrupted(s, b) THEN "interrupted" ELSE outcome[b]]
    /\ UNCHANGED <<adminVars, observed, phase, peer, worker, silent, monitorVars, target>>

\* send_cancel or send_tool_result cannot write its frame: the session closes.
WriteFails(s) ==
    /\ worker[s] # NoWorker
    /\ ~closed[s]
    /\ CloseSession(s)
    /\ UNCHANGED <<adminVars, observed, phase, peer, worker, silent, monitorVars,
                   stage, target, received>>

-----------------------------------------------------------------------------
(* Liveness monitor and administration                                     *)

\* The grace window passes without a frame from the peer.
FallSilent(s) ==
    /\ phase[s] # "new"
    /\ ~closed[s]
    /\ ~silent[s]
    /\ silent' = [silent EXCEPT ![s] = TRUE]
    /\ UNCHANGED <<adminVars, observed, table, phase, peer, worker, closed, pending,
                   monitorVars, dispatchVars>>

\* Mutant: only sessions that authenticated are swept.
StaleAuthenticated == {s \in Sessions : InTable(s) /\ silent[s] /\ worker[s] # NoWorker}

\* Mutant: a session with attempts in flight is spared.
StaleIdle == {s \in Sessions : InTable(s) /\ silent[s] /\ pending[s] = {}}

Stale == {s \in Sessions : InTable(s) /\ silent[s]}

\* enforce_liveness: the snapshot, then one close after the other.
Sweep ==
    /\ reaping = {}
    /\ Stale # {}
    /\ reaping' = Stale
    /\ UNCHANGED <<adminVars, observed, sessionVars, revoking, condemned, barred, dispatchVars>>

CloseStale(s) ==
    /\ s \in reaping
    /\ reaping' = reaping \ {s}
    /\ CloseSession(s)
    /\ UNCHANGED <<adminVars, observed, phase, peer, worker, silent, revoking, condemned,
                   barred, stage, target, received>>

\* revoke_worker: the identity store first.
Revoke(w) ==
    /\ identity[w] = "active"
    /\ revoking[w] = "idle"
    /\ identity' = [identity EXCEPT ![w] = "revoked"]
    /\ revoking' = [revoking EXCEPT ![w] = "marked"]
    /\ barred' = barred \cup {s \in Sessions : InTable(s) /\ worker[s] = w}
    /\ UNCHANGED <<owner, observed, sessionVars, reaping, condemned, dispatchVars>>

\* Mutant: only the first of the worker's sessions is closed.
RevokedSessionsFirst(w) ==
    LET rows == {i \in DOMAIN table : worker[table[i]] = w}
    IN  {table[i] : i \in {j \in rows : \A k \in rows : j <= k}}

RevokedSessions(w) == {s \in Sessions : InTable(s) /\ worker[s] = w}

\* Then the snapshot of its sessions.
RevokeSnapshot(w) ==
    /\ revoking[w] = "marked"
    /\ condemned' = condemned \cup RevokedSessions(w)
    /\ revoking' = [revoking EXCEPT ![w] = "closing"]
    /\ UNCHANGED <<adminVars, observed, sessionVars, reaping, barred, dispatchVars>>

\* Then their closes.
RevokeClose(s) ==
    /\ s \in condemned
    /\ condemned' = condemned \ {s}
    /\ CloseSession(s)
    /\ UNCHANGED <<adminVars, observed, phase, peer, worker, silent, reaping, revoking,
                   barred, stage, target, received>>

\* The administrator rebinds a resource to another worker.
Reconfigure(r, w) ==
    /\ owner' = [owner EXCEPT ![r] = w]
    /\ UNCHANGED <<identity, observed, sessionVars, monitorVars, dispatchVars>>

-----------------------------------------------------------------------------
ReadLoop(s) ==
    \/ \E w \in Workers : ReadHandshake(s, w)
    \/ Heartbeat(s)
    \/ \E r \in Resources : StateReport(s, r)
    \/ StateReportFails(s)
    \/ RotateRefused(s)
    \/ \E a \in Attempts, result \in {"completed", "failed"} : CompleteAttempt(s, a, result)
    \/ \E a \in Attempts : ReportInterrupted(s, a)

Handshake(s) == Redeem(s) \/ Verify(s) \/ Publish(s) \/ Acknowledge(s)

Dispatch(a) ==
    \/ \E r \in Resources : SelectSession(a, r)
    \/ Track(a)
    \/ Write(a)

Monitor == Sweep \/ \E s \in Sessions : CloseStale(s)

Administer ==
    \/ \E w \in Workers : Revoke(w) \/ RevokeSnapshot(w)
    \/ \E s \in Sessions : RevokeClose(s)
    \/ \E r \in Resources, w \in Workers : Reconfigure(r, w)

Next ==
    \/ \E s \in Sessions :
          \/ Accept(s)
          \/ ReadLoop(s)
          \/ Handshake(s)
          \/ EndRead(s)
          \/ WriteFails(s)
          \/ FallSilent(s)
    \/ \E a \in Attempts : Dispatch(a)
    \/ Monitor
    \/ Administer

Spec == Init /\ [][Next]_vars

\* The monitor thread keeps its interval, and a dispatch thread that started
\* runs on. Nothing is assumed of the worker, the network or the administrator.
Fairness ==
    /\ WF_vars(Monitor)
    /\ \A a \in Attempts : WF_vars(Track(a) \/ Write(a))

FairSpec == Spec /\ Fairness

-----------------------------------------------------------------------------
(* Properties                                                              *)

Phases == {"new", "handshake", "pairing", "hello", "verified", "acking", "running", "ended"}

\* Every variable keeps its type.
TypeOK ==
    /\ identity \in [Workers -> {"none", "active", "revoked"}]
    /\ owner \in [Resources -> Workers]
    /\ observed \in [Resources -> Workers \cup {NoWorker}]
    /\ table \in Seq(Sessions)
    /\ phase \in [Sessions -> Phases]
    /\ peer \in [Sessions -> Workers \cup {NoWorker}]
    /\ worker \in [Sessions -> Workers \cup {NoWorker}]
    /\ closed \in [Sessions -> BOOLEAN]
    /\ silent \in [Sessions -> BOOLEAN]
    /\ pending \in [Sessions -> SUBSET Attempts]
    /\ reaping \subseteq Sessions
    /\ revoking \in [Workers -> {"idle", "marked", "closing"}]
    /\ condemned \subseteq Sessions
    /\ barred \subseteq Sessions
    /\ stage \in [Attempts -> {"new", "selected", "tracked", "sent", "done"}]
    /\ target \in [Attempts -> Sessions \cup {NoSession}]
    /\ outcome \in [Attempts -> {"none", "completed", "failed"} \cup Definitive \cup Uncertain]
    /\ received \in [Attempts -> BOOLEAN]

\* No waiter is forgotten: an attempt whose execute frame was written and that
\* has no outcome is tracked by an open session, whose close will resolve it.
WaiterIsTracked ==
    \A a \in Attempts : stage[a] = "sent" /\ outcome[a] = "none" =>
        ~closed[target[a]] /\ a \in pending[target[a]]

\* Dispatch is honest: a refusal that promises nothing was sent is only given
\* when the worker cannot have the execute frame.
RefusalIsDefinitive == \A a \in Attempts : outcome[a] \in Definitive => ~received[a]

\* An attempt a worker answered keeps its answer: a close or a second answer
\* that comes later never turns it into another outcome.
OutcomeIsFinal ==
    [][\A a \in Attempts : stage[a] = "sent" /\ outcome[a] # "none"
                           => outcome'[a] = outcome[a]]_vars

\* A session tracks attempts of its own only, and none once it is closed: a result
\* on one connection never resolves an execution of another, and nothing is
\* tracked where no read loop and no close will ever look again.
TrackedOnTarget ==
    \A s \in Sessions : \A a \in pending[s] :
        /\ target[a] = s
        /\ stage[a] \in {"tracked", "sent"}
        /\ ~closed[s]

\* Revocation reaches every session it can see: one that was in the table when
\* its worker was revoked is closed or about to be closed once the snapshot is taken.
RevocationReachesTable ==
    \A s \in barred :
        closed[s] \/ s \in condemned \/ revoking[worker[s]] = "marked"

\* Revoking one worker never closes the session of another.
RevokeSparesOthers == \A s \in condemned : identity[worker[s]] = "revoked"

\* A silent connection that holds a row, authenticated or not, is closed.
SilentIsClosed == \A s \in Sessions : silent[s] /\ InTable(s) ~> closed[s] \/ ~silent[s]

\* The waiter of an attempt on a connection that stays silent is released.
SilentWaiterReleased ==
    \A a \in Attempts, s \in Sessions :
        stage[a] = "sent" /\ target[a] = s /\ silent[s]
            ~> outcome[a] # "none" \/ ~silent[s]

\* The heartbeat monitor bounds silence: it ends the session, and releases who
\* waits for it.
SilenceEnds == SilentIsClosed /\ SilentWaiterReleased

\* WorkerSession.close: "The session row is removed UNCONDITIONALLY": a closed
\* session holds no row of the bounded table.
ClosedHoldsNoRow == \A s \in Sessions : closed[s] => ~InTable(s)

\* revoke_worker: "Revoke one device identity and close its live sessions now":
\* when it has returned, no open session of that worker is in the table.
RevokedHasNoSession ==
    \A s \in Sessions, w \in Workers :
        /\ revoking[w] = "closing"
        /\ condemned = {}
        /\ InTable(s)
        /\ worker[s] = w
        => closed[s]

-----------------------------------------------------------------------------
(* The inductive invariant                                                 *)

\* What the stage of a dispatch thread says about its attempt.
AttemptFacts(a) ==
    /\ stage[a] \in {"selected", "tracked", "sent"} => target[a] \in Sessions
    /\ stage[a] \in {"new", "selected"} => outcome[a] = "none"
    /\ stage[a] \in {"new", "selected", "tracked"} => ~received[a]
    /\ stage[a] = "tracked" => outcome[a] \in {"none", "interrupted"}
    /\ stage[a] = "sent" => outcome[a] \in {"none", "completed", "failed", "interrupted"}
    /\ stage[a] \in {"tracked", "sent"} /\ outcome[a] = "none" => a \in pending[target[a]]
    /\ stage[a] = "done" => outcome[a] # "none"
    /\ outcome[a] \in Definitive => ~received[a]

\* The handshake publishes the identity it presented, once.
HandshakeFacts(s) ==
    /\ phase[s] \notin {"new", "handshake"} => peer[s] \in Workers \/ phase[s] = "ended"
    /\ worker[s] # NoWorker => phase[s] \in {"acking", "running", "ended"}
    /\ phase[s] \in {"acking", "running"} => worker[s] \in Workers

\* A revocation in progress knows its sessions.
RevocationFacts ==
    /\ \A w \in Workers : revoking[w] # "idle" => identity[w] = "revoked"
    /\ \A s \in condemned : worker[s] \in Workers /\ identity[worker[s]] = "revoked"
    /\ \A s \in barred :
          /\ worker[s] \in Workers
          /\ \/ closed[s]
             \/ s \in condemned
             \/ revoking[worker[s]] = "marked" /\ InTable(s)

\* The conjunction is preserved by every step and implies the invariants above.
IInv ==
    /\ TypeOK
    /\ TrackedOnTarget
    /\ \A a \in Attempts : AttemptFacts(a)
    /\ \A s \in Sessions : HandshakeFacts(s)
    /\ RevocationFacts
=============================================================================
