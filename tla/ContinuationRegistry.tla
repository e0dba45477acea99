------------------------ MODULE ContinuationRegistry ------------------------
(***************************************************************************)
(* The gateway's exactly-once map from a tool-call token to the backend    *)
(* turn that is suspended on it (gateway_continuation.py), driven by the   *)
(* request threads of the coordinator that resume a turn                   *)
(* (gateway_coordinator.py, _detect_continuation to _close_continuation)   *)
(* and by the maintenance thread that expires records.                     *)
(*                                                                         *)
(* A step is what one thread does between two lock operations: the threads *)
(* interleave between the registry's critical sections, between the claim  *)
(* and the delivery, and between a removal and its cancel callback.        *)
(* The adapter a turn runs on is outside this module: what it answers is   *)
(* any of DeliveryOutcomes.                                                *)
(***************************************************************************)
EXTENDS Integers, FiniteSets, Sequences, SequencesExt

CONSTANTS
    Clients,        \* authenticated gateway clients
    Tokens,         \* continuation tokens the token factory will hand out
    Legs,           \* request threads that carry tool results
    NoClient,       \* "", the client of a tombstone whose record was already gone
    NoToken,        \* the token of a thread that never saw a tool result
    MaxPending,     \* bound of the pending table (MAX_PENDING_CONTINUATIONS)
    MaxTombstones,  \* length of the tombstone ring (MAX_TERMINAL_TOMBSTONES)
    MaxTime         \* bound on the clock, so that TLC's state space is finite

ASSUME RegistryAssumption ==
    /\ MaxPending \in Nat \ {0}
    /\ MaxTombstones \in Nat \ {0}
    /\ MaxTime \in Nat
    /\ NoClient \notin Clients
    /\ NoToken \notin Tokens

TerminalStates == {"completed", "cancelled", "expired", "lost"}

VARIABLES
    now,          \* wall clock
    live,         \* tokens present in _records
    state,        \* state field of each token's PendingContinuation object
    owner,        \* its client_id
    deadline,     \* its absolute deadline
    tombstones,   \* the ring _terminal_tombstones, oldest entry first
    reaping,      \* tokens the reaper popped and has not yet cancelled
    pc,           \* where each request thread is
    token,        \* the token its tool result is addressed to
    client,       \* the authenticated client it runs for
    goal,         \* the terminal state it is about to close with
    reply,        \* its answer to the client
    cancels,      \* history: cancel callbacks invoked for each token
    delivered     \* history: deliveries into the adapter for each token

recordVars == <<live, state, owner, deadline, tombstones>>
legVars    == <<pc, token, client, goal, reply>>
vars == <<now, recordVars, reaping, legVars, cancels, delivered>>

-----------------------------------------------------------------------------
(* What the adapter's deliver_tool_result may do, and the terminal state   *)
(* the coordinator closes the record with in each case.                    *)

ClosingState(outcome) ==
    CASE outcome \in {"completed", "suspended"}                        -> "completed"
      [] outcome \in {"disconnected", "unauthorized", "turn_cancelled"} -> "cancelled"
      [] outcome = "timeout"                                           -> "expired"
      [] outcome \in {"lost", "ambiguous", "failed", "unexpected"}     -> "lost"

DeliveryOutcomes ==
    {"completed", "disconnected", "turn_cancelled", "timeout",
     "lost", "ambiguous", "failed", "unexpected"}

\* _close_continuation cancels the backend turn in these states only.
CancelBackend(s) == s \in {"cancelled", "expired"}

Expired(t) == now >= deadline[t]

\* Mutant: a second claim of a resuming record is let through.
ClaimTransitionNotBusy(t) == IF Expired(t) THEN "expired" ELSE "resumed"

\* PendingContinuation.claim_transition, under the record's own lock.
ClaimTransition(t) ==
    IF state[t] # "waiting" THEN "busy"
    ELSE IF Expired(t) THEN "expired"
    ELSE "resumed"

\* deque(maxlen=MaxTombstones): appending drops the oldest entries.
Push(entries) ==
    LET all == tombstones \o entries
        drop == IF Len(all) > MaxTombstones THEN Len(all) - MaxTombstones ELSE 0
    IN  SubSeq(all, drop + 1, Len(all))

\* Mutant: the ring is consulted by token alone.
TombstonedForAnyone(t, c) == \E i \in DOMAIN tombstones : tombstones[i][1] = t

Tombstoned(t, c) == \E i \in DOMAIN tombstones : tombstones[i] = <<t, c>>

CanRegister(t) ==
    /\ Cardinality(live) < MaxPending
    /\ t \notin live

Init ==
    /\ now = 0
    /\ live = {}
    /\ state = [t \in Tokens |-> "unborn"]
    /\ owner = [t \in Tokens |-> NoClient]
    /\ deadline = [t \in Tokens |-> 0]
    /\ tombstones = <<>>
    /\ reaping = {}
    /\ pc = [l \in Legs |-> "idle"]
    /\ token = [l \in Legs |-> NoToken]
    /\ client = [l \in Legs |-> NoClient]
    /\ goal = [l \in Legs |-> "none"]
    /\ reply = [l \in Legs |-> "none"]
    /\ cancels = [t \in Tokens |-> 0]
    /\ delivered = [t \in Tokens |-> 0]

Tick ==
    /\ now < MaxTime
    /\ now' = now + 1
    /\ UNCHANGED <<recordVars, reaping, legVars, cancels, delivered>>

-----------------------------------------------------------------------------
(* Registration                                                            *)

\* ContinuationRegistry.register of a fresh token: the factory never repeats
\* one, so a token is born at most once.
AddRecord(t, c, d) ==
    /\ state[t] = "unborn"
    /\ CanRegister(t)
    /\ live' = live \cup {t}
    /\ state' = [state EXCEPT ![t] = "waiting"]
    /\ owner' = [owner EXCEPT ![t] = c]
    /\ deadline' = [deadline EXCEPT ![t] = d]

\* The first dispatch of a turn suspends on a client tool.
Register(t, c, d) ==
    /\ d > now
    /\ AddRecord(t, c, d)
    /\ UNCHANGED <<now, tombstones, reaping, legVars, cancels, delivered>>

-----------------------------------------------------------------------------
(* Request threads                                                         *)

\* The thread answers its client and is free for another request.
Answer(l, r) ==
    /\ pc' = [pc EXCEPT ![l] = "idle"]
    /\ reply' = [reply EXCEPT ![l] = r]

Goto(l, p) ==
    /\ pc' = [pc EXCEPT ![l] = p]
    /\ UNCHANGED reply

\* _detect_continuation: the final message is a tool result for token t.
Detect(l, t, c) ==
    /\ pc[l] = "idle"
    /\ token' = [token EXCEPT ![l] = t]
    /\ client' = [client EXCEPT ![l] = c]
    /\ pc' = [pc EXCEPT ![l] = IF t \in live THEN "found" ELSE "missing"]
    /\ reply' = [reply EXCEPT ![l] = "none"]
    /\ goal' = [goal EXCEPT ![l] = "none"]
    /\ UNCHANGED <<now, recordVars, reaping, cancels, delivered>>

\* was_terminal_for, a second critical section after detect found nothing.
CheckTerminal(l) ==
    /\ pc[l] = "missing"
    /\ Answer(l, IF Tombstoned(token[l], client[l])
                 THEN "already_resolved" ELSE "not_found")
    /\ UNCHANGED <<now, recordVars, reaping, token, client, goal, cancels, delivered>>

\* _run_continuation before the claim: the foreign-client check, then the
\* validation of the request's shape, which leaves the record waiting.
Validate(l) ==
    /\ pc[l] = "found"
    /\ IF owner[token[l]] # client[l]
       THEN Answer(l, "not_found")
       ELSE \/ Answer(l, "invalid_request")
            \/ Goto(l, "validated")
    /\ UNCHANGED <<now, recordVars, reaping, token, client, goal, cancels, delivered>>

\* Mutant: a claim that finds no record answers the conflict to everyone.
ClaimSwapped(l) ==
    /\ pc[l] = "validated"
    /\ Answer(l, "already_resolved")
    /\ UNCHANGED <<now, recordVars, reaping, token, client, goal, cancels, delivered>>

\* ContinuationRegistry.claim: one critical section of the registry lock.
Claim(l) ==
    LET t == token[l] IN
    /\ pc[l] = "validated"
    /\ \/ /\ t \notin live
          /\ Answer(l, IF Tombstoned(t, client[l])
                       THEN "already_resolved" ELSE "not_found")
          /\ UNCHANGED <<live, state, tombstones>>
       \/ /\ t \in live
          /\ ClaimTransition(t) = "busy"
          /\ Answer(l, "already_resolved")
          /\ UNCHANGED <<live, state, tombstones>>
       \/ /\ t \in live
          /\ ClaimTransition(t) = "expired"
          /\ live' = live \ {t}
          /\ state' = [state EXCEPT ![t] = "expired"]
          /\ tombstones' = Push(<< <<t, client[l]>> >>)
          /\ Goto(l, "late")
       \/ /\ t \in live
          /\ ClaimTransition(t) = "resumed"
          /\ state' = [state EXCEPT ![t] = "resuming"]
          /\ Goto(l, "claimed")
          /\ UNCHANGED <<live, tombstones>>
    /\ UNCHANGED <<now, owner, deadline, reaping, token, client, goal, cancels, delivered>>

\* Mutant: the expired claim raises before its callback runs.
CancelLateSkipped(l) ==
    /\ pc[l] = "late"
    /\ Answer(l, "expired")
    /\ UNCHANGED <<now, recordVars, reaping, token, client, goal, cancels, delivered>>

\* The expired claim's cancel callback, outside the lock.
CancelLate(l) ==
    /\ pc[l] = "late"
    /\ cancels' = [cancels EXCEPT ![token[l]] = @ + 1]
    /\ Answer(l, "expired")
    /\ UNCHANGED <<now, recordVars, reaping, token, client, goal, delivered>>

CloseWith(l, s) ==
    /\ goal' = [goal EXCEPT ![l] = s]
    /\ Goto(l, "closing")

\* Mutant: the missing-adapter exit forgets to close the claimed record.
CheckLifetimeLeaky(l) ==
    /\ pc[l] = "claimed"
    /\ IF Expired(token[l])
       THEN CloseWith(l, "expired")
       ELSE /\ UNCHANGED goal
            /\ Answer(l, "lost") \/ Goto(l, "rechecking")
    /\ UNCHANGED <<now, recordVars, reaping, token, client, cancels, delivered>>

\* The lifetime check after the claim and the lookup of the turn's adapter.
CheckLifetime(l) ==
    /\ pc[l] = "claimed"
    /\ IF Expired(token[l])
       THEN CloseWith(l, "expired")
       ELSE \/ CloseWith(l, "lost")            \* no continuation-capable adapter
            \/ Goto(l, "rechecking") /\ UNCHANGED goal
    /\ UNCHANGED <<now, recordVars, reaping, token, client, cancels, delivered>>

\* _recheck_continuation_authority, then the call of deliver_tool_result.
RecheckAndDeliver(l) ==
    /\ pc[l] = "rechecking"
    /\ \/ /\ \E o \in {"unauthorized", "unexpected"} : CloseWith(l, ClosingState(o))
          /\ UNCHANGED delivered
       \/ /\ Goto(l, "delivering")
          /\ delivered' = [delivered EXCEPT ![token[l]] = @ + 1]
          /\ UNCHANGED goal
    /\ UNCHANGED <<now, recordVars, reaping, token, client, cancels>>

\* deliver_tool_result returns or raises without a further suspension.
FinishDelivery(l, o) ==
    /\ pc[l] = "delivering"
    /\ CloseWith(l, ClosingState(o))
    /\ UNCHANGED <<now, recordVars, reaping, token, client, cancels, delivered>>

\* The resumed turn suspends on its next tool call: the registrar adds the
\* next token, under the SAME deadline, before that token is observable.
Chain(l, t) ==
    /\ pc[l] = "delivering"
    /\ AddRecord(t, client[l], deadline[token[l]])
    /\ Goto(l, "chained")
    /\ UNCHANGED <<now, tombstones, reaping, token, client, goal, cancels, delivered>>

\* The tool call reaches the client, or the client is gone when it is emitted.
FinishChain(l) ==
    /\ pc[l] = "chained"
    /\ \E o \in {"suspended", "disconnected"} : CloseWith(l, ClosingState(o))
    /\ UNCHANGED <<now, recordVars, reaping, token, client, cancels, delivered>>

\* Mutant: close goes on to mark and cancel although another thread removed
\* the record first.
RecordFoundAlways(t) == TRUE

\* close: self._records.pop(token, None) returned a record.
RecordFound(t) == t \in live

\* Mutant: the tombstone carries the token where the client belongs.
CloseRecordUnmarked(l) ==
    /\ pc[l] = "closing"
    /\ live' = live \ {token[l]}
    /\ tombstones' = Push(<< <<token[l], token[l]>> >>)
    /\ Answer(l, goal[l])
    /\ UNCHANGED <<now, state, owner, deadline, reaping, token, client, goal,
                   cancels, delivered>>

\* ContinuationRegistry.close, the critical section: drop the record and
\* append the tombstone whether or not a record was there.
CloseRecord(l) ==
    LET t == token[l] IN
    /\ pc[l] = "closing"
    /\ live' = live \ {t}
    /\ tombstones' = Push(<< <<t, IF RecordFound(t) THEN owner[t] ELSE NoClient>> >>)
    /\ IF RecordFound(t) THEN Goto(l, "closed") ELSE Answer(l, goal[l])
    /\ UNCHANGED <<now, state, owner, deadline, reaping, token, client, goal,
                   cancels, delivered>>

\* close after the lock: mark_terminal and the cancel callback.
FinishClose(l) ==
    LET t == token[l] IN
    /\ pc[l] = "closed"
    /\ state' = [state EXCEPT ![t] = goal[l]]
    /\ cancels' = [cancels EXCEPT ![t] = IF CancelBackend(goal[l]) THEN @ + 1 ELSE @]
    /\ Answer(l, goal[l])
    /\ UNCHANGED <<now, live, owner, deadline, tombstones, reaping, token, client,
                   goal, delivered>>

-----------------------------------------------------------------------------
(* Maintenance                                                             *)

\* Mutant: the sweep only looks at records whose delivery is in flight.
DueRecordsResuming == {t \in live : Expired(t) /\ state[t] # "waiting"}

\* expire_due: the records past their absolute deadline.
DueRecords == {t \in live : Expired(t)}

\* Mutant: a record that expires mid-delivery leaves no tombstone.
TombstonedDueNone == {}

\* mark_expired() is False: only a record caught in "resuming" leaves a
\* tombstone when it expires.
TombstonedDue == {t \in DueRecords : state[t] # "waiting"}

\* expire_due, the critical section. The order in which the loop meets the
\* records of one sweep is left open.
ExpireDue ==
    /\ reaping = {}
    /\ DueRecords # {}
    /\ live' = live \ DueRecords
    /\ state' = [t \in Tokens |-> IF t \in DueRecords THEN "expired" ELSE state[t]]
    /\ \E order \in SetToSeqs(TombstonedDue) :
          tombstones' = Push([i \in DOMAIN order |-> <<order[i], owner[order[i]]>>])
    /\ reaping' = DueRecords
    /\ UNCHANGED <<now, owner, deadline, legVars, cancels, delivered>>

\* One cancel callback of the sweep, outside the lock.
CancelDue(t) ==
    /\ t \in reaping
    /\ reaping' = reaping \ {t}
    /\ cancels' = [cancels EXCEPT ![t] = @ + 1]
    /\ UNCHANGED <<now, recordVars, legVars, delivered>>

-----------------------------------------------------------------------------
LegStep(l) ==
    \/ CheckTerminal(l)
    \/ Validate(l)
    \/ Claim(l)
    \/ CancelLate(l)
    \/ CheckLifetime(l)
    \/ RecheckAndDeliver(l)
    \/ \E o \in DeliveryOutcomes : FinishDelivery(l, o)
    \/ \E t \in Tokens : Chain(l, t)
    \/ FinishChain(l)
    \/ CloseRecord(l)
    \/ FinishClose(l)

Reap == ExpireDue \/ \E t \in Tokens : CancelDue(t)

Next ==
    \/ Tick
    \/ \E t \in Tokens, c \in Clients, d \in 1..MaxTime : Register(t, c, d)
    \/ \E l \in Legs, t \in Tokens, c \in Clients : Detect(l, t, c)
    \/ \E l \in Legs : LegStep(l)
    \/ Reap

Spec == Init /\ [][Next]_vars

\* Time passes, the maintenance thread keeps its interval, and a request
\* thread that runs is scheduled: the adapter's deadline bounds a delivery.
\* That a client sends a result, or a turn suspends, is never assumed.
Fairness ==
    /\ WF_vars(Tick)
    /\ WF_vars(Reap)
    /\ \A l \in Legs : WF_vars(LegStep(l))

FairSpec == Spec /\ Fairness
-----------------------------------------------------------------------------
(* Properties                                                              *)

PCs == {"idle", "missing", "found", "validated", "late", "claimed", "rechecking",
        "delivering", "chained", "closing", "closed"}
Replies == {"none", "not_found", "already_resolved", "invalid_request"} \cup TerminalStates

\* Every variable keeps its type.
TypeOK ==
    /\ now \in Nat
    /\ live \subseteq Tokens
    /\ state \in [Tokens -> {"unborn", "waiting", "resuming"} \cup TerminalStates]
    /\ owner \in [Tokens -> Clients \cup {NoClient}]
    /\ deadline \in [Tokens -> Nat]
    /\ tombstones \in Seq(Tokens \X (Clients \cup {NoClient}))
    /\ reaping \subseteq Tokens
    /\ pc \in [Legs -> PCs]
    /\ token \in [Legs -> Tokens \cup {NoToken}]
    /\ client \in [Legs -> Clients \cup {NoClient}]
    /\ goal \in [Legs -> {"none"} \cup TerminalStates]
    /\ reply \in [Legs -> Replies]
    /\ cancels \in [Tokens -> Nat]
    /\ delivered \in [Tokens -> Nat]

\* The thread won its token's claim and has not finished the close.
Holding(l) == pc[l] \in {"claimed", "rechecking", "delivering", "chained", "closing", "closed"}

\* A harness tool result is handed to the backend at most once per token,
\* whatever duplicates, late claims and expiries race with the delivery.
DeliveredAtMostOnce == \A t \in Tokens : delivered[t] <= 1

\* No record is stuck in "resuming": the thread that claimed it is still on its
\* way to a close, so nothing occupies the pending table after its leg ended.
ResumingIsHeld ==
    \A t \in live : state[t] = "resuming" =>
        \E l \in Legs : Holding(l) /\ token[l] = t /\ pc[l] # "closed"

\* Somebody still owes the token a callback or its terminal state.
Unsettled(t) ==
    \/ t \in reaping
    \/ \E l \in Legs : pc[l] \in {"late", "closed"} /\ token[l] = t

\* The worker-side turn of a finished continuation was cancelled exactly once
\* if it ended expired or cancelled, and never if it completed or was lost;
\* an unfinished one has not been cancelled.
CancelMatchesVerdict ==
    \A t \in Tokens :
        cancels[t] = IF CancelBackend(state[t]) /\ ~Unsettled(t) THEN 1 ELSE 0

\* A client that does not own the token cannot tell a pending, a resolved and an
\* unknown continuation apart: it only ever reads not_found.
ForeignSeesNotFound ==
    \A l \in Legs :
        /\ reply[l] # "none"
        /\ owner[token[l]] # client[l]
        => reply[l] = "not_found"

\* "already resolved" is only said of a token whose result was claimed or whose
\* continuation ended, never of one that still waits.
ConflictIsHonest ==
    \A l \in Legs : reply[l] = "already_resolved" =>
        state[token[l]] \in {"resuming"} \cup TerminalStates

\* While the ring is long enough to forget nothing, the owner's replay of a
\* result that was delivered meets a tombstone once the record is gone.
DeliveredReplayConflicts ==
    \A t \in Tokens :
        delivered[t] > 0 /\ t \notin live => Tombstoned(t, owner[t])

\* was_terminal_for: "A replayed tool result after completion/expiry/cancellation
\* must receive the explicit already-resolved conflict": no continuation has
\* ended without leaving its owner's tombstone (ring long enough).
TerminalReplayConflicts ==
    \A t \in Tokens : state[t] \in TerminalStates => Tombstoned(t, owner[t])

\* The pending table never exceeds its bound, also when a resumed turn registers
\* its next token while its previous record still holds a slot.
TableBounded == IsFiniteSet(live) /\ Cardinality(live) <= MaxPending

\* A terminal state is final and an ended continuation never returns to the table.
TerminalIsFinal ==
    [][\A t \in Tokens :
          /\ state[t] \in TerminalStates => state'[t] = state[t]
          /\ state[t] # "unborn" /\ t \notin live => t \notin live']_vars

\* No pending continuation outlives its deadline for ever.
RecordsDrain == \A t \in Tokens : t \in live ~> t \notin live

\* Expiry always stops the suspended backend turn.
ExpiryCancels == \A t \in Tokens : state[t] = "expired" ~> cancels[t] = 1
\* What a client is told: nothing of another's continuation, and of its own
\* that it is resolved only when it is.
AnswersAreHonest == ForeignSeesNotFound /\ ConflictIsHonest

\* Every pending continuation ends, an expired one has stopped its turn, and a
\* delivered one is remembered.
ContinuationsEnd == RecordsDrain /\ ExpiryCancels /\ []DeliveredReplayConflicts

-----------------------------------------------------------------------------
(* The inductive invariant behind the safety properties.                   *)

\* The thread alone decides how its token ends.
Custody(l) == Holding(l) \/ pc[l] = "late"

CustodyIsExclusive ==
    \A k, l \in Legs : Custody(k) /\ Custody(l) /\ token[k] = token[l] => k = l

TableAndStates ==
    /\ \A t \in live : state[t] \in {"waiting", "resuming"}
    /\ \A t \in reaping : t \notin live /\ state[t] = "expired"
    /\ \A t \in Tokens : state[t] \in {"unborn", "waiting"} => delivered[t] = 0
    /\ \A t \in Tokens : state[t] = "unborn" => owner[t] = NoClient

\* What a request thread may rely on at each of its steps.
LegFacts ==
    \A l \in Legs :
        /\ pc[l] # "idle" => token[l] \in Tokens /\ client[l] \in Clients
        /\ reply[l] # "none" => token[l] \in Tokens /\ client[l] \in Clients
        /\ pc[l] = "found" => state[token[l]] # "unborn"
        /\ pc[l] = "validated" \/ Custody(l) =>
              state[token[l]] # "unborn" /\ owner[token[l]] = client[l]
        /\ Holding(l) => state[token[l]] = IF token[l] \in live \/ pc[l] = "closed"
                                           THEN "resuming" ELSE "expired"
        /\ pc[l] \in {"claimed", "rechecking"} => delivered[token[l]] = 0
        /\ pc[l] \in {"closing", "closed"} => goal[l] \in TerminalStates
        /\ pc[l] = "closed" => token[l] \notin live
        /\ pc[l] = "late" =>
              /\ state[token[l]] = "expired"
              /\ token[l] \notin live \cup reaping

\* A tombstone names an ended or resuming token and its owner, or nobody.
TombstoneFacts ==
    \A i \in DOMAIN tombstones :
        /\ tombstones[i][2] \in {owner[tombstones[i][1]], NoClient}
        /\ state[tombstones[i][1]] \notin {"unborn", "waiting"}

IInv ==
    /\ TypeOK
    /\ CustodyIsExclusive
    /\ TableAndStates
    /\ LegFacts
    /\ TombstoneFacts
    /\ DeliveredAtMostOnce
    /\ ResumingIsHeld
    /\ CancelMatchesVerdict
    /\ ForeignSeesNotFound
    /\ ConflictIsHonest
    /\ TableBounded
=============================================================================
