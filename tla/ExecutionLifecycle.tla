------------------------- MODULE ExecutionLifecycle -------------------------
(***************************************************************************)
(* One inference request from ingress to its audit record                  *)
(* (GatewayApplication.execute in gateway_coordinator.py), many at a time, *)
(* while the control plane rebuilds and publishes applications             *)
(* (_rebuild_application in control_api.py). Each request runs in a thread *)
(* of its own; a step is what happens under one lock or between two reads  *)
(* of shared state. Requests that resume a suspended tool call take the    *)
(* path of ContinuationRegistry.tla instead and are not modelled here.     *)
(***************************************************************************)
EXTENDS Integers, Sequences, FiniteSets

CONSTANTS
    Requests,
    Clients,
    NoClient,       \* a request nobody has sent yet
    Limits,         \* the settings: [total, perClient] of GatewayLimits
    FirstLimits,    \* the setting of the first application
    GrantKinds,     \* what the administrator may make of a client's authority
    MaxGeneration   \* bound on the applications that are published

Generations == 1 .. MaxGeneration

ASSUME LifecycleAssumption ==
    /\ IsFiniteSet(Requests)
    /\ NoClient \notin Clients
    /\ Limits \subseteq [total : Nat \ {0}, perClient : Nat \ {0}]
    /\ FirstLimits \in Limits
    /\ "granted" \in GrantKinds
    /\ GrantKinds \subseteq {"revoked", "uncovered", "granted"}
    /\ MaxGeneration \in Nat \ {0}

VARIABLES
    current,  \* the application the control plane publishes
    offered,  \* per application: registry and administrator allow the target
    grant,    \* per application and client: what directory and grant say
    limits,   \* per application: its GatewayLimits
    book,     \* per application: the accounting state it was given
    free,     \* per book: free slots of the bounded semaphore
    active,   \* per book and client: _client_active
    stage,    \* where each request is
    client,   \* who sent it
    mode,     \* admitted by a published view or by the application it entered
    view,     \* the application it runs in
    result,   \* the result its audit record will have
    executed, \* the requests whose state.executed_target is set
    trail,    \* audit records appended to the in-memory trail, per request
    stored,   \* audit records committed to the durable store, per request
    answer,   \* what the client was told
    calls,    \* history: adapter calls made for the request
    floor,    \* history: the application published when it was reserved
    basis     \* history: the application its dispatch was authorized by

appVars == <<current, offered, grant, limits, book>>
slotVars == <<free, active>>
auditVars == <<trail, stored, answer>>
traceVars == <<calls, floor, basis>>
vars == <<appVars, slotVars, stage, client, mode, view, result, executed, auditVars, traceVars>>

Init ==
    /\ current = 1
    /\ offered = [g \in Generations |-> TRUE]
    /\ grant = [g \in Generations |-> [c \in Clients |-> "granted"]]
    /\ limits = [g \in Generations |-> FirstLimits]
    /\ book = [g \in Generations |-> g]
    /\ free = [g \in Generations |-> FirstLimits.total]
    /\ active = [g \in Generations |-> [c \in Clients |-> 0]]
    /\ stage = [r \in Requests |-> "idle"]
    /\ client = [r \in Requests |-> NoClient]
    /\ mode = [r \in Requests |-> "published"]
    /\ view = [r \in Requests |-> 1]
    /\ result = [r \in Requests |-> "none"]
    /\ executed = {}
    /\ trail = [r \in Requests |-> <<>>]
    /\ stored = [r \in Requests |-> <<>>]
    /\ answer = [r \in Requests |-> "none"]
    /\ calls = [r \in Requests |-> 0]
    /\ floor = [r \in Requests |-> 0]
    /\ basis = [r \in Requests |-> 0]

Moves(r, s) == stage' = [stage EXCEPT ![r] = s]

\* Mutant: the except clauses do not look at executed_target.
FailureLabelFixed(r) == "rejected"

\* The result of an error: rejected until executed_target is set, failed after.
FailureLabel(r) == IF r \in executed THEN "failed" ELSE "rejected"

\* The request ends with this result; its audit record comes next.
EndsWith(r, s, res) == Moves(r, s) /\ result' = [result EXCEPT ![r] = res]

\* The book a request's reservation is made in.
BookOf(r) == book[view[r]]

-----------------------------------------------------------------------------
(* The control plane                                                       *)

\* Mutant: a rebuild always starts with a fresh semaphore.
SameLimitsNever(a, b) == FALSE

\* _carry_concurrency_state: accounting survives while the limits are the same.
SameLimits(a, b) == a = b

\* _rebuild_application publishes the next application: an administrator's change,
\* or a state report that was adopted.
Rebuild(o, gr, l) ==
    LET next == current + 1 IN
    /\ current < MaxGeneration
    /\ current' = next
    /\ offered' = [offered EXCEPT ![next] = o]
    /\ grant' = [grant EXCEPT ![next] = gr]
    /\ limits' = [limits EXCEPT ![next] = l]
    /\ IF SameLimits(limits[current], l)
       THEN /\ book' = [book EXCEPT ![next] = book[current]]
            /\ UNCHANGED slotVars
       ELSE /\ book' = [book EXCEPT ![next] = next]
            /\ free' = [free EXCEPT ![next] = l.total]
            /\ active' = [active EXCEPT ![next] = [c \in Clients |-> 0]]
    /\ UNCHANGED <<stage, client, mode, view, result, executed, auditVars, traceVars>>

-----------------------------------------------------------------------------
(* Ingress and admission                                                   *)

\* The handler authenticates the bearer key against the published directory.
Authenticate(r, c) ==
    /\ stage[r] = "idle"
    /\ grant[current][c] # "revoked"
    /\ client' = [client EXCEPT ![r] = c]
    /\ Moves(r, "authenticated")
    /\ UNCHANGED <<appVars, slotVars, mode, view, result, executed, auditVars, traceVars>>

\* execute with a versioned catalog: the application the handler read is used.
EnterDirect(r) ==
    /\ stage[r] = "authenticated"
    /\ mode' = [mode EXCEPT ![r] = "direct"]
    /\ view' = [view EXCEPT ![r] = current]
    /\ Moves(r, "entered")
    /\ UNCHANGED <<appVars, slotVars, client, result, executed, auditVars, traceVars>>

\* _published_executable_view: a copy of the application published now.
EnterPublished(r) ==
    /\ stage[r] = "authenticated"
    /\ grant[current][client[r]] # "revoked"
    /\ mode' = [mode EXCEPT ![r] = "published"]
    /\ view' = [view EXCEPT ![r] = current]
    /\ Moves(r, "entered")
    /\ UNCHANGED <<appVars, slotVars, client, result, executed, auditVars, traceVars>>

\* The view is refused: the error leaves execute before its try block.
TurnAway(r) ==
    /\ stage[r] = "authenticated"
    /\ grant[current][client[r]] = "revoked"
    /\ Moves(r, "done")
    /\ answer' = [answer EXCEPT ![r] = "error"]
    /\ UNCHANGED <<appVars, slotVars, client, mode, view, result, executed, trail, stored,
                   traceVars>>

\* The grant admission looks at: frozen in a view, live otherwise.
AdmissionGrant(r) ==
    IF mode[r] = "published" THEN grant[view[r]][client[r]] ELSE grant[current][client[r]]

\* _admit selects or confirms the target.
Admit(r) ==
    /\ stage[r] = "entered"
    /\ offered[view[r]]
    /\ AdmissionGrant(r) = "granted"
    /\ Moves(r, "admitted")
    /\ UNCHANGED <<appVars, slotVars, client, mode, view, result, executed, auditVars, traceVars>>

\* A limit, the model name, the routing core, MI retention or the capability gate
\* refuses, or an internal error surfaces; nothing has been reserved.
Refuse(r) ==
    /\ stage[r] = "entered"
    /\ EndsWith(r, "auditing", FailureLabel(r))
    /\ UNCHANGED <<appVars, slotVars, client, mode, view, executed, auditVars, traceVars>>

-----------------------------------------------------------------------------
(* The reservation: _ConcurrencyReservation                                *)

SlotFree(b) == free[b] > 0

\* semaphore.acquire(blocking=False).
AcquireGlobal(r) ==
    /\ stage[r] = "admitted"
    /\ IF SlotFree(BookOf(r))
       THEN /\ free' = [free EXCEPT ![BookOf(r)] = @ - 1]
            /\ Moves(r, "global")
            /\ UNCHANGED result
       ELSE /\ EndsWith(r, "auditing", FailureLabel(r))
            /\ UNCHANGED free
    /\ UNCHANGED <<appVars, active, client, mode, view, executed, auditVars, traceVars>>

\* What a refused client leaves of the semaphore.
GivesBack(b) == [free EXCEPT ![b] = @ + 1]

\* Mutant: the client may exceed its limit by one.
ClientHasRoomLate(r) == active[BookOf(r)][client[r]] <= limits[view[r]].perClient

ClientHasRoom(r) == active[BookOf(r)][client[r]] < limits[view[r]].perClient

\* The per-client count, under the client lock.
AcquireClient(r) ==
    /\ stage[r] = "global"
    /\ IF ClientHasRoom(r)
       THEN /\ active' = [active EXCEPT ![BookOf(r)][client[r]] = @ + 1]
            /\ floor' = [floor EXCEPT ![r] = current]
            /\ Moves(r, "reserved")
            /\ UNCHANGED <<free, result>>
       ELSE /\ free' = GivesBack(BookOf(r))
            /\ EndsWith(r, "auditing", FailureLabel(r))
            /\ UNCHANGED <<active, floor>>
    /\ UNCHANGED <<appVars, client, mode, view, executed, auditVars, calls, basis>>

\* release under the client lock: a count that reaches zero is dropped.
Released(n) == IF n <= 1 THEN 0 ELSE n - 1

ReleaseClient(r) ==
    /\ stage[r] = "releasing"
    /\ active' = [active EXCEPT ![BookOf(r)][client[r]] = Released(@)]
    /\ Moves(r, "half_released")
    /\ UNCHANGED <<appVars, free, client, mode, view, result, executed, auditVars, traceVars>>

\* Mutant: the finally clause gives back only the client's slot.
ReleaseGlobalForgotten(r) ==
    /\ stage[r] = "half_released"
    /\ Moves(r, "auditing")
    /\ UNCHANGED <<appVars, slotVars, client, mode, view, result, executed, auditVars, traceVars>>

ReleaseGlobal(r) ==
    /\ stage[r] = "half_released"
    /\ free' = [free EXCEPT ![BookOf(r)] = @ + 1]
    /\ Moves(r, "auditing")
    /\ UNCHANGED <<appVars, active, client, mode, view, result, executed, auditVars, traceVars>>

-----------------------------------------------------------------------------
(* Dispatch                                                                *)

\* Mutant: the dispatch check trusts the application the request runs in.
AuthorityOfView(r) == view[r]

\* _current_authority: the application published at the time of the check.
Authority(r) == current

Authorized(g, c) == offered[g] /\ grant[g][c] = "granted"

\* _dispatch checks the current authority of client and target.
CheckAuthority(r) ==
    /\ stage[r] = "reserved"
    /\ IF Authorized(Authority(r), client[r])
       THEN /\ basis' = [basis EXCEPT ![r] = Authority(r)]
            /\ Moves(r, "checked")
            /\ UNCHANGED result
       ELSE /\ EndsWith(r, "releasing", FailureLabel(r))
            /\ UNCHANGED basis
    /\ UNCHANGED <<appVars, slotVars, client, mode, view, executed, auditVars, calls, floor>>

\* Availability, eligibility, context evidence, the adapter, its binding or the
\* reasoning effort refuses; executed_target is not set yet.
RefuseDispatch(r) ==
    /\ stage[r] \in {"reserved", "checked"}
    /\ EndsWith(r, "releasing", FailureLabel(r))
    /\ UNCHANGED <<appVars, slotVars, client, mode, view, executed, auditVars, traceVars>>

\* executed_target is set and the adapter is called.
Dispatch(r) ==
    /\ stage[r] = "checked"
    /\ executed' = executed \cup {r}
    /\ calls' = [calls EXCEPT ![r] = @ + 1]
    /\ Moves(r, "running")
    /\ UNCHANGED <<appVars, slotVars, client, mode, view, result, auditVars, floor, basis>>

\* "failed" stands for cancelled, timed_out, failed_ambiguous and failed: one
\* except clause each, which audits under its own label and raises.
AdapterResults == {"completed", "failed"}

\* The adapter answers, or fails, times out, is cancelled by a client that left or
\* raises something unexpected; finally releases the reservation.
AdapterReturns(r, res) ==
    /\ stage[r] = "running"
    /\ EndsWith(r, "releasing", res)
    /\ UNCHANGED <<appVars, slotVars, client, mode, view, executed, auditVars, traceVars>>

-----------------------------------------------------------------------------
(* The audit record                                                        *)

\* DurableAuditSink.append: first the in-memory trail.
AppendTrail(r) ==
    /\ stage[r] = "auditing"
    /\ trail' = [trail EXCEPT ![r] = Append(@, result[r])]
    /\ Moves(r, "storing")
    /\ UNCHANGED <<appVars, slotVars, client, mode, view, result, executed, stored, answer,
                   traceVars>>

\* Then the durable store; the client is answered afterwards.
Store(r) ==
    /\ stage[r] = "storing"
    /\ stored' = [stored EXCEPT ![r] = Append(@, result[r])]
    /\ answer' = [answer EXCEPT ![r] = IF result[r] = "completed" THEN "outcome" ELSE "error"]
    /\ Moves(r, "done")
    /\ UNCHANGED <<appVars, slotVars, client, mode, view, result, executed, trail, traceVars>>

\* Mutant: a completion whose record could not be stored is answered anyway.
StoreFailsQuietly(r) ==
    /\ stage[r] = "storing"
    /\ Moves(r, "done")
    /\ answer' = [answer EXCEPT ![r] = IF result[r] = "completed" THEN "outcome" ELSE "error"]
    /\ UNCHANGED <<appVars, slotVars, client, mode, view, result, executed, trail, stored,
                   traceVars>>

\* Mutant: the record is withdrawn from the trail and tried again until it is stored.
StoreFailsAgain(r) ==
    /\ stage[r] = "storing"
    /\ Moves(r, "auditing")
    /\ trail' = [trail EXCEPT ![r] = <<>>]
    /\ UNCHANGED <<appVars, slotVars, client, mode, view, result, executed, stored, answer,
                   traceVars>>

\* The store raises. Inside the try block (a completion) the last except clause
\* writes another record; inside an except clause the error propagates.
StoreFails(r) ==
    /\ stage[r] = "storing"
    /\ IF result[r] = "completed"
       THEN /\ EndsWith(r, "auditing", FailureLabel(r))
            /\ UNCHANGED answer
       ELSE /\ Moves(r, "done")
            /\ answer' = [answer EXCEPT ![r] = "error"]
            /\ UNCHANGED result
    /\ UNCHANGED <<appVars, slotVars, client, mode, view, executed, trail, stored, traceVars>>

-----------------------------------------------------------------------------
Ingress(r) ==
    \/ \E c \in Clients : Authenticate(r, c)
    \/ EnterDirect(r)
    \/ EnterPublished(r)
    \/ TurnAway(r)

Admission(r) ==
    \/ Admit(r)
    \/ Refuse(r)
    \/ AcquireGlobal(r)
    \/ AcquireClient(r)

Execution(r) ==
    \/ CheckAuthority(r)
    \/ RefuseDispatch(r)
    \/ Dispatch(r)
    \/ \E res \in AdapterResults : AdapterReturns(r, res)

Ending(r) ==
    \/ ReleaseClient(r)
    \/ ReleaseGlobal(r)
    \/ AppendTrail(r)
    \/ Store(r)
    \/ StoreFails(r)

Thread(r) == Ingress(r) \/ Admission(r) \/ Execution(r) \/ Ending(r)

Grants == [Clients -> GrantKinds]

\* The server idles while no request is in progress.
Idle == (\A r \in Requests : stage[r] \in {"idle", "done"}) /\ UNCHANGED vars

Next ==
    \/ \E o \in BOOLEAN, gr \in Grants, l \in Limits : Rebuild(o, gr, l)
    \/ \E r \in Requests : Thread(r)
    \/ Idle

Spec == Init /\ [][Next]_vars

\* A handler thread is scheduled until it has answered; the adapter bounds every
\* call by the execution deadline, so AdapterReturns is one of its steps.
Fairness == \A r \in Requests : WF_vars(stage[r] # "idle" /\ Thread(r))

FairSpec == Spec /\ Fairness

-----------------------------------------------------------------------------
(* Properties                                                              *)

Stages == {"idle", "authenticated", "entered", "admitted", "global", "reserved", "checked",
           "running", "releasing", "half_released", "auditing", "storing", "done"}

Results == AdapterResults \cup {"rejected"}

\* Every variable keeps its type; in particular no counter is ever negative.
TypeOK ==
    /\ current \in Generations
    /\ offered \in [Generations -> BOOLEAN]
    /\ grant \in [Generations -> Grants]
    /\ limits \in [Generations -> Limits]
    /\ book \in [Generations -> Generations]
    /\ free \in [Generations -> Nat]
    /\ active \in [Generations -> [Clients -> Nat]]
    /\ stage \in [Requests -> Stages]
    /\ client \in [Requests -> Clients \cup {NoClient}]
    /\ mode \in [Requests -> {"published", "direct"}]
    /\ view \in [Requests -> Generations]
    /\ result \in [Requests -> Results \cup {"none"}]
    /\ executed \subseteq Requests
    /\ trail \in [Requests -> Seq(Results)]
    /\ stored \in [Requests -> Seq(Results)]
    /\ answer \in [Requests -> {"none", "outcome", "error"}]
    /\ calls \in [Requests -> Nat]
    /\ floor \in [Requests -> Nat]
    /\ basis \in [Requests -> Nat]

HoldsClient(r) == stage[r] \in {"reserved", "checked", "running", "releasing"}
HoldsGlobal(r) == HoldsClient(r) \/ stage[r] \in {"global", "half_released"}

InBook(g) == {r \in Requests : HoldsGlobal(r) /\ BookOf(r) = g}
InBookOf(g, c) == {r \in Requests : HoldsClient(r) /\ BookOf(r) = g /\ client[r] = c}

\* No slot leaks and none is given back twice, whatever path a request takes and
\* however many applications were published meanwhile: the semaphore and the client
\* counts say exactly who holds a reservation.
SlotsAccounted ==
    \A g \in 1 .. current :
        /\ free[book[g]] + Cardinality(InBook(book[g])) = limits[g].total
        /\ \A c \in Clients : active[book[g]][c] = Cardinality(InBookOf(book[g], c))

\* The stretch of applications from lo to hi has one setting of the limits.
SameThroughout(lo, hi) == \A g \in lo .. hi : limits[g] = limits[lo]

RunningIn(lo, hi) == {r \in Requests : HoldsClient(r) /\ view[r] \in lo .. hi}

\* "limits cannot be reset by a rebuild": over a stretch of applications whose
\* limits stayed the same, all requests together and each client's respect them.
ConcurrencyBounded ==
    \A lo, hi \in 1 .. current :
        SameThroughout(lo, hi) =>
            /\ Cardinality(RunningIn(lo, hi)) <= limits[lo].total
            /\ \A c \in Clients :
                 Cardinality({r \in RunningIn(lo, hi) : client[r] = c}) <= limits[lo].perClient

\* The slots of every stretch are counted exactly, and never overdrawn.
ConcurrencyIsKept == SlotsAccounted /\ ConcurrencyBounded

\* A request reaches a backend only on an authority that was published no earlier
\* than its reservation: what was withdrawn before is never used, although the
\* request was admitted by an older view.
FreshAuthority ==
    \A r \in Requests : calls[r] > 0 =>
        /\ floor[r] <= basis[r]
        /\ Authorized(basis[r], client[r])

\* An audit record says "rejected" exactly when no backend was called, and no
\* request is sent to a backend twice.
RecordMatchesCalls ==
    \A r \in Requests :
        /\ calls[r] <= 1
        /\ \A i \in 1 .. Len(trail[r]) : trail[r][i] = "rejected" <=> calls[r] = 0

\* The client is told an outcome exactly when the durable store holds one record
\* of its request, and that record says completed.
DurableRecordAgrees ==
    \A r \in Requests : stage[r] = "done" =>
        /\ Len(stored[r]) <= 1
        /\ answer[r] = "outcome" <=> stored[r] = <<"completed">>

\* The trail, the store and the client are told the same: what happened.
RecordsAgree == RecordMatchesCalls /\ DurableRecordAgrees

\* Every request a handler has begun is answered.
EveryRequestEnds == \A r \in Requests : stage[r] = "authenticated" ~> stage[r] = "done"

\* docs/execution-surface.md: "Every request - executed or rejected - produces one
\* audit record". Here: never a second one.
AuditedOnce == \A r \in Requests : Len(trail[r]) <= 1

\* The same sentence: an answered request has a record.
AnsweredIsAudited == \A r \in Requests : stage[r] = "done" => Len(trail[r]) > 0

-----------------------------------------------------------------------------
(* The inductive invariant                                                 *)

\* A book is opened by the first application of a stretch and keeps its limits.
BookFacts ==
    /\ \A g \in 1 .. current : book[g] \in 1 .. g /\ limits[book[g]] = limits[g]
    /\ \A lo, hi \in 1 .. current :
         lo <= hi /\ SameThroughout(lo, hi) => book[hi] = book[lo]

\* A request runs in an application that has been published, for a known client.
RequestFact(r) ==
    /\ view[r] \in 1 .. current
    /\ stage[r] # "idle" => client[r] \in Clients

\* The counts are exact and within both limits.
SlotFacts ==
    /\ SlotsAccounted
    /\ \A g \in 1 .. current : \A c \in Clients : active[book[g]][c] <= limits[g].perClient

BeforeDispatch == {"idle", "authenticated", "entered", "admitted", "global", "reserved", "checked"}

\* What has been called and on which authority, by stage.
CallFact(r) ==
    /\ calls[r] <= 1
    /\ r \in executed <=> calls[r] = 1
    /\ stage[r] \in BeforeDispatch => calls[r] = 0 /\ trail[r] = <<>>
    /\ stage[r] = "running" => calls[r] = 1
    /\ floor[r] <= current
    /\ stage[r] = "checked" \/ calls[r] > 0 =>
         /\ basis[r] \in 1 .. current
         /\ floor[r] <= basis[r]
         /\ Authorized(basis[r], client[r])

\* The result a request will be recorded with agrees with its calls, and nothing
\* is stored or answered before the request is done.
AuditFact(r) ==
    /\ stage[r] \in {"releasing", "half_released", "auditing", "storing"} =>
         /\ result[r] \in Results
         /\ result[r] = "rejected" <=> calls[r] = 0
    /\ \A i \in 1 .. Len(trail[r]) : trail[r][i] = "rejected" <=> calls[r] = 0
    /\ stage[r] # "done" => stored[r] = <<>> /\ answer[r] = "none"
    /\ stage[r] = "done" =>
         /\ Len(stored[r]) <= 1
         /\ answer[r] = "outcome" <=> stored[r] = <<"completed">>

IInv ==
    /\ TypeOK
    /\ BookFacts
    /\ SlotFacts
    /\ \A r \in Requests : RequestFact(r) /\ CallFact(r) /\ AuditFact(r)

-----------------------------------------------------------------------------
(* The reservations implement the pool of SlotPool.tla.                    *)

PlacesIn(g) == {r \in Requests : HoldsClient(r) /\ BookOf(r) = g}

Pool == INSTANCE SlotPool WITH
    Pools <- Generations,
    opened <- 1 .. current,
    bounds <- limits,
    owner <- client,
    holders <- [g \in Generations |-> PlacesIn(g)]

\* The two-step reservation, its release and the carrying of books across rebuilds
\* implement a pool that admits in one step and within both bounds.
ImplementsPool == Pool!Spec
=============================================================================
