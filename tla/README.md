# Scarcity Router: TLA+ verification project

This directory models Scarcity Router, its execution gateway above all: the TLA+
modules, the TLC configurations that check them on small instances, and the
TLAPS proofs of the properties of the concurrent core for every instance.
`PROJECT.json` maps every definition to the source lines it models and lists
components, runs, mutants, findings, hazards and theorems.

1. [The system](#1-the-system)
2. [Modules and their correspondence to the code](#2-modules-and-their-correspondence-to-the-code)
3. [Runs](#3-runs)
4. [Fairness](#4-fairness)
5. [Proofs](#5-proofs)
6. [Where code and documentation disagree](#6-where-code-and-documentation-disagree)
7. [What is not modelled](#7-what-is-not-modelled)
8. [Plan](#8-plan)
9. [Running it](#9-running-it)

## 1. The system

Scarcity Router chooses, for one inference request, the least scarce resource
that is able and authorized to serve it. In recommendation mode it only answers
with a decision. In gateway mode it also executes: an authenticated server
accepts OpenAI-compatible requests, routes each one, calls a provider over HTTP
or a *worker* (a process on somebody's device that holds the local credentials),
and writes an audit record. An administrator changes clients, grants, resources
and limits at run time through a control plane.

### Inventory

Paths are under `src/scarcity_router/`.

| Component | State it keeps | Operations | What makes it correct |
| --- | --- | --- | --- |
| Tool-call continuations (`gateway_continuation.py`, the continuation legs of `gateway_coordinator.py`) | pending records by token, a ring of tombstones, one lock | `register`, `detect`, `was_terminal_for`, `claim`, `close`, `expire_due` | a tool result is delivered at most once; every suspended turn ends, and its worker is told when it must stop; a foreign client learns nothing |
| Worker endpoint (`worker_endpoint.py`) | session table, each session's phase and pending attempts, observed bindings; one endpoint lock, one lock per session | accept, pair, authenticate, heartbeat, state report, result, interruption notice, `submit_execute`, `enforce_liveness`, `revoke_worker`, `close` | no waiter is forgotten, no refusal lies about what was sent, a silent or revoked worker loses its session |
| Worker identity store (`worker_identity_store.py`) | two SQLite tables behind one lock and an autocommit connection | `begin_pairing`, `redeem_pairing_code`, `authenticate`, `rotate_credential`, `revoke_worker`, `delete_revoked_worker` | one code, one identity, also across a crash; a dead credential stays dead |
| Execution lifecycle (`gateway_coordinator.py`) | semaphore, per-client counts, published application | `execute`: view, admission, reservation, dispatch check, adapter call, release, audit | no slot leaks, limits survive rebuilds, nothing runs on withdrawn authority, the record tells the truth |
| Worker-bridged adapter (`worker_bridged_adapter.py`) | the item queue and deadline of one attempt, the table of suspended turns | dispatch, next item, suspend, deliver tool result, cancel | the verdict on an attempt agrees with what the device did; a cancel reaches the session that owns the turn, wherever the session table can tell |
| Worker runtime (`worker_client.py`) | connection, running attempts, a reconnect budget, unreported interruptions | connect, execute, tool bridge, cancel, reconnect, report, stop | an attempt is reported exactly as it ended, also after a reconnect; a stop is served |
| Worker local store (`worker_local_store.py`, `worker_ca_trust.py`) | an identity row, a private-CA row, the runner lock | pair, unpair, resolve, expect, lock | the credential goes only to the server it was paired with; one runner |
| Worker wire protocol (`worker_protocol.py`) | two byte streams, the agreed version | greet, negotiate, build, read, end | each end reads what the other writes; a broken stream is no clean end |
| HTTP ingress (`gateway_server.py`, `gateway_openai.py`, `gateway_responses.py`) | a connection; a stream's progress | header checks, two dialects, whole and streamed answers, errors | one answer per request; a stream tells how the execution ended; no request is read two ways |
| HTTP execution adapter (`providers/openai_http_*.py`) | one dispatch and its event stream | request, head, pieces, cancel, probe, discovery | what was emitted is what is returned; an answer is read no further once the deadline has passed; a failure after the request left is not called definitive |
| Values between them (`gateway_adapters.py`, `gateway_contracts.py`) | none | constructors | sizes and shapes agree at each boundary |
| Control plane (`control_api.py`) | the published application, registry, grants, the feed of state documents | configuration, keys, workers, probes, reports, feed; `_rebuild_application` | a request sees one coherent application; withdrawn authority is not used; an observer of the feed misses nothing |
| Administrator access (`control_api.py`, `server_store.py`) | claim, sessions | bootstrap, login, request, logout | one administrator; sessions end |
| Server configuration (`server_config.py`, `server_composition.py`) | one immutable document | load, save, bind adapters | a document comes back as it was saved; what is executable was accepted |
| Execution sources (`execution_sources.py`, `model_inventory.py`) | adopted, missing, retired models | report, adopt, miss, retire, derive | a source retires a model only after it was seen to be absent; derived resources are allowed ones |
| Durable store (`server_store.py`) | SQLite: clients, keys, secrets, settings, audit | open, recover, migrate, transact | what was committed survives crash, power loss and migration; a foreign database is left alone |
| Server process (`control_server.py`, `tls_reload.py`) | sockets, stores, TLS contexts | start, reload on SIGHUP, stop | a failed start leaves nothing behind; both listeners serve one pair of files |
| Model intelligence (`mi_consumer.py`, `mi_server_config.py`) | active cut, retained cuts, receipts | publish, activate, label, narrow, retain, bind | a cut never goes back; a receipt proves which cut was used |
| Resource registry (`resource_state.py`, `execution_assurance.py`) | registrations and their last observation | register, observe, worker report, refresh | readers never see half a report; stale observations are not used |
| Routing core (`routing_core.py`) | none (pure) | `route_request`, `admit_pinned_target` | a route is authorized and available when it is made and when it is admitted |
| Selector, scarcity, policy (`selector.py`, `scarcity.py`, `policy.py`) | none (pure) | assess, filter, rank, simulate | nothing forbidden, exhausted or reserved is selected |
| Capacity acquisition (`providers/openai_codex*.py`, `providers/zai.py`) | an app-server child and its reader thread | initialize, read, refresh, retry, time out, reap | the answer belongs to the last question; no child is left behind an observation |
| Audit (`gateway_audit.py`, `DurableAuditSink`) | in-memory trail, durable table | append, prune | one truthful record per request |
| Codex and ZCode adapters, loopback adapter (`worker_codex_adapter.py`, `worker_zcode_adapter.py`, `worker_local_adapters.py`) | a runtime child and its output, the stage of a turn, what a discovery found | check, bind, examine the host, initialize, start a turn, read it, bridge tools, interrupt; discover, report | a result says what its turn did; an outcome nobody can know is called unknown; nothing is left running |
| CLI, read-only servers, installation, tools | files, the operating system | | see section 7 |

### How the components interact

A request thread of the ingress parses one of two dialects into the canonical
request, authenticates against the *published* directory, enters `execute`, is
admitted by a copy of the published application, reserves a global and a
per-client slot, checks the *current* authority again and calls an adapter. The
HTTP adapter reads a provider's stream under the deadline. The worker-bridged
adapter picks a session in the endpoint's table, tracks an attempt there and
waits on a queue which the session's read loop fills; at the other end of the
connection the device's read loop starts a thread per attempt. When the backend
asks for a tool, the adapter suspends the turn and registers a token in the
continuation registry. A later request, another thread, carries the tool result
and claims the token. Meanwhile the reaper expires tokens, the liveness monitor
closes silent sessions, state reports of workers and the administrator make the
control plane rebuild and publish the application under the feet of the requests
that are running, and the routing core reads whatever the registry holds at that
instant.

### What is hard here

* Five kinds of threads (requests, read loops, reaper, monitor, administrator)
  meet in small critical sections, with reads, callbacks and writes to sockets
  deliberately placed outside them.
* State is read under a lock and used after it: a session that was selected, a
  credential row that was read, an application that was copied, a configuration
  that is going to be saved, a record that was popped and has still to be
  cancelled.
* Multi-step operations that can stop in the middle: semaphore then client
  count, trail then durable store, three autocommitted statements of one
  redemption, a rollback of the database's journal.
* Networks drop, half-open connections say nothing, frames are torn, tool
  results are repeated, deadlines pass while a delivery is in flight.
* Time passes between a decision and its use: a pin that was routed an hour ago,
  an observation that has aged, a cut that has expired.
* Bounded tables (pending records, tombstones, sessions, attempts, suspensions,
  pairing codes, slots, feed events, retained cuts) which leak for ever if one
  of many exits forgets its release.
* The same text is bounded at several boundaries, by characters at one and by
  bytes at the next.

`PROJECT.json` lists the hazards one by one, each at its line, with the property
that would catch it going wrong.

## 2. Modules and their correspondence to the code

| Module | Models | Composes |
| --- | --- | --- |
| `ContinuationRegistry` | `gateway_continuation.py`; `_detect_continuation` to `_close_continuation` of the coordinator; the reaper | |
| `WorkerEndpoint` | the session table, handshake, dispatch, liveness and revocation of `worker_endpoint.py` | |
| `WorkerIdentityStore` | `worker_identity_store.py` | |
| `ExecutionLifecycle` | `GatewayApplication.execute`, `_ConcurrencyReservation`, `_rebuild_application`, `DurableAuditSink` | refines `SlotPool` |
| `SlotPool` | the abstract promise about concurrency: a pool that admits in one step | |
| `WorkerDevice` | `worker_client.py`: run loop, read loop, attempt threads, tool bridge | |
| `BridgedExecution` | `worker_bridged_adapter.py` and the attempts of `worker_endpoint.py`, joined to the device by connections that break | `WorkerDevice` |
| `Selection` | `scarcity.py`, `policy.py`, `selector.py` as operators | |
| `CapacityTelemetry` | what `providers/openai_codex.py`, `openai_eligibility.py` and `zai.py` make of an answer | `Selection` |
| `SelectionRun` | one selection with its app-server child and reader thread, and its simulation | `CapacityTelemetry` |
| `ResourceRegistry` | `resource_state.py`, `execution_assurance.py` as operators on a registry value | `Selection` |
| `Routing` | `routing_core.py` with what builds its input and reads its result | `ResourceRegistry` |
| `RoutingRun` | the router over time: observations, grants, adapters and the clock move between a route and the admission of its pin | `Routing` |
| `ServerConfiguration` | `server_config.py`, `server_composition.py` as operators | |
| `ExecutionSources` | `execution_sources.py`, `model_inventory.py` as operators | `ServerConfiguration` |
| `ControlPlane` | the operations of `control_api.py`, worker reports, probes, the feed | `ExecutionSources` |
| `AdminAccess` | bootstrap, login, sessions | |
| `ServerProcess` | start, SIGHUP, stop: `control_server.py`, `tls_reload.py` | |
| `ModelIntelligence` | `mi_consumer.py`, `mi_server_config.py` | |
| `StoreOpening` | opening, recovery and migration of the database in `server_store.py` | |
| `WorkerLocalStore` | `worker_local_store.py`, `worker_ca_trust.py`, the pair and run commands | |
| `AdapterContracts` | what the constructors of `gateway_adapters.py` and `gateway_contracts.py` accept, on size classes | |
| `WorkerWire` | `worker_protocol.py` with both ends' framing and reading | `AdapterContracts` |
| `GatewayRequest` | the two dialects of `gateway_openai.py`, `gateway_responses.py` | `AdapterContracts` |
| `ResponseStream` | the events of a Responses stream, the frames of a chat stream | `GatewayRequest` |
| `Ingress` | one client connection of `gateway_server.py` | `ResponseStream` |
| `ProviderWire` | `providers/openai_http_core.py`, `openai_http_presets.py` as operators | `AdapterContracts` |
| `HttpAdapter` | one dispatch of `providers/openai_http_adapter.py` | `ProviderWire` |
| `CodexTurn` | one attempt of `worker_codex_adapter.py`: its checks, its runtime child, the methods of a turn, the tool bridge, cancellation and deadline | |
| `LocalAdapters` | the plan run of `worker_zcode_adapter.py`, the loopback adapter, the thread of `worker_client.py` that executes them, discovery and the reports | `CodexTurn` |
| `SeparateParts` | seven parts of the server that share no state, each a scene of one run | the modules it extends |
| `DeviceParts` | five parts of a device that share no state | `WorkerLocalStore`, `WorkerWire`, `LocalAdapters` |
| `MC*` | the instances for TLC whose inputs need definitions; `ContinuationRegistry`, `WorkerEndpoint` and `BridgedExecution` are run directly, their configuration says all | |
| `*Proofs` | theorems about the module of the same name, `CodexTurnProofs` also about `LocalAdapters`; `RouterProofs` about `SelectionRun` and `RoutingRun`; `PartsProofs` about `WorkerIdentityStore`, `StoreOpening`, `WorkerLocalStore`, `ServerProcess`, `AdminAccess`, `ModelIntelligence`, `WorkerWire` and `HttpAdapter` | |

Conventions. A step is what one thread does between two lock operations, so the
models interleave exactly where the code can be interrupted: what the code does
inside one `with self._lock` is one action, and what it does after releasing it
is another. A program counter per thread (`pc`, `stage`, `step`, `phase`, `at`)
stands for the position in the function. A variable whose comment begins with
"history" is read by properties only. A text is its size class where sizes decide
(`AdapterContracts`), a short sequence of characters where its content does
(`ResponseStream`, `ProviderWire`), and a model value elsewhere.

A definition placed directly before another one, with its parameters and a name
that tells the difference, is a *variant*: a plausible bug in the definition
below it. Variants are used by nothing; they state what the properties are able
to notice. `PROJECT.json` pairs one with every property, section 3 lists the
others.

**ContinuationRegistry.** `live` is `_records`; `state`, `owner` and `deadline`
are fields of the record object, which the code keeps using after the table has
forgotten it, so they are functions of all tokens. Tokens are never drawn twice
(the code draws 128 random bits). `tombstones` is the ring, as a sequence cut to
its length. A request thread that carries a tool result (`Legs`) goes through
`pc`; `"late"` is the thread that found the record expired inside `claim` and
has still to run the cancel callback outside the lock. `delivered` and `cancels`
count the calls into the adapter. What the adapter answers is any element of
`DeliveryOutcomes`, each with the terminal state the coordinator's `except`
clause closes the record with. `release_unclaimed` has no caller and is omitted.

**WorkerEndpoint.** `table` is the dictionary of sessions in insertion order
(the order matters to `session_for_resource`). The worker and the network are
the environment: they may send any message the session's phase allows, fall
silent, or drop the connection, so frames need no queue here. `received` records
that bytes of an execute frame may have left. The monitor and the
administrator first snapshot the table (`Sweep`, `RevokeSnapshot`) and close the
sessions one at a time afterwards, as the code does. Silence stands for the
grace window having passed; there is no clock. The identities of the store are
the three values `authenticate` can tell apart.

**WorkerIdentityStore.** The connection autocommits, so each statement of
`redeem_pairing_code` is its own action under the lock (`ClaimCode`, `BindWorker`,
`Mint`), any of them may fail (`StatementFails`) and the process may stop
between them (`Crash`): the tables survive, the callers and the lock do not.
`authenticate` reads the row under the lock and compares after releasing it:
`ReadRow`, then `Decide`. A credential is a version number: rotation stores the
next one, and versions below the stored one are dead. The clock is read before
the lock is taken, as in the code.

**ExecutionLifecycle.** Applications are numbered in the order of publication;
what a rebuild can change about one request (`offered`, `grant`, `limits`,
`book`) is a function of that number. `book` is the accounting state an
application was given: the previous one while the limits are equal
(`_carry_concurrency_state`), a fresh one otherwise. A request carries the
application it entered (`view`), which may be several publications old when it
is dispatched. Routing is the choice between `Admit` and `Refuse`; everything the
dispatch refuses for is `RefuseDispatch`. The four labels of a failed adapter
call are one, "failed", because every `except` clause does the same with them.
`StoreFails` distinguishes where the store's error surfaces: inside the `try`
block for a completion, inside an `except` clause for everything else.

**SlotPool** says what an administrator is promised by `GatewayLimits`, without
semaphore, lock or two-step acquisition. `ExecutionLifecycle!ImplementsPool` maps
a pool's holders to the requests that hold a client's place in a book.

**BridgedExecution, WorkerDevice.** Connection *g* is the *g*-th pass of the
device's run loop, and each direction of it is a queue of frames. `Break` takes
a connection down for both ends, and each end may still read whatever had arrived
there, up to any frame (`Arrived`); a write to a connection that is down is
swallowed (a half-open connection), and an end notices when it has nothing left to
read. The device may leave its handshake because its read timed out while the hello
waits at the server, which may answer it when a later connection already tracks an
attempt (`belated`); what becomes of a cancel then is in `astray`. A turn ends in a
status that is sent, or its thread dies of an exception that `_execute_task` does
not catch (`Dead`). On the server an attempt is a call with its item queue (`items`),
first outcome (`outcome`), and the sessions that track it (`pending`); on the
device it is a job with the tool results it got. `records` is what a client may
still continue, `handles` what the adapter remembers. `Others` are attempts of
other clients, which take up room at the device. The continuation registry
appears as the claims it lets through; it is proved on its own.

**Selection and its runs.** The pure core is written as operators over small
values: a rating stands for six capability dimensions, a weekday rule for its
string, an instant is a number. `SelectionRun` brings an app server that may
answer late, twice, wrongly or never and checks each decision against
declarative statements that use none of the core's operators (`NamedBy` for the
blackouts, `ForbiddenBy` for the signals, `ReservationsHold`). `RoutingRun` starts as
`_rebuild_application` does, which registers one resource after the other and applies
what was last observed of it (`RegisterResource`) before requests are served (`Serve`);
then it lets the registry, grants, adapters and clock change between `SelectExecutable` and
`ExecutePinned`; `Allows` and `Affords` say independently of the gates what a
client may use.

**ControlPlane.** `cfg` is `_config`, `disk` what the store has of it, `app` the
published application, `src` the execution sources, `obs` the observations that
survive a rebuild, `feed` the ring of state-document events. An operation that
reads the configuration without the lock and saves it under the lock later is two
actions, and the administrator's `task` holds what it is going to save.
Observations carry the binding of their resource (`by`), so that one of an earlier
worker or endpoint can be told from one of the present. `budget` bounds how often
each kind of operation happens in a behaviour; `Initials` pairs starting
configurations with budgets, so that each scenario is explored deeply instead of
all of them shallowly. A save may fail in the rebuild or in the store
(`SaveFaults`), a publication at its first or last event (`FeedFaults`); `failed`
remembers that, and properties of the configuration are promised until then. A
rebuild fails where it reads the store, after the sources were synchronised and the
observations trimmed: the configuration is the new one and the application the old,
of an unchanged generation, so that a probe under way still counts although its
resource may be bound to something else by now. `absent` counts, for the property
alone, the inventories that lacked an adopted model since it was adopted.

**StoreOpening.** The files are a value: pages, journal and mode of the database.
The artifacts of a recovery (staged claim, claim, slot directory) are `dir` as the
program sees them and `onDisk` as the disk may have them: every state the
directory went through since it was last synced, of which a power loss keeps one.
`Crash` kills a process at any step, `PowerLoss` everything. `strange` stands for
artifacts the program did not make, `committed` is the reference, and `suffered`
remembers which kinds of fault there were.

**CodexTurn, LocalAdapters.** The client side of an attempt is `at` (a stage, or
the method whose answer it awaits), the runtime side `child`, `turn`, `asked` and
the pipe `lines` between them; `poised` is the thread that has looked at deadline
and cancel event and waits for a line, so that either may change behind its back.
A flaw is the code of the first check that fails, in the code's order. The text of
a turn is its deltas, numbered by the runtime since the last tool result, so that
text lost, doubled or out of order shows. A runtime may answer anything
(`AnswersTo`), speak, call tools, ask for approvals, babble, or die; it is assumed
to answer `turn/start` before its turn speaks. `LocalAdapters` holds a plan run
and a loopback call in the same variables; `told` is what the server gets to know.
The reports have two threads, each observing, taking snapshots and sending.

**The edges.** `WorkerWire` sends every message type both programs can build, and
those only a foreign program would build, through queues of frames, under every
pair of version sets; each reader is the parser's gates in order. `Ingress` takes
drafts (what the strict JSON reader hands over) through both parsers, an
execution that emits arbitrary chunks, and a client that leaves at any write.
`HttpAdapter` reads a provider's stream in pieces of any length under a clock, a
cancel and a socket that fails, falls silent or trickles: one call of `http.client`
(connecting and sending, the head, the body of a refusal, one read of the answer)
is a series of socket operations, each with a timeout of its own (`Lasting`).

## 3. Runs

| Run | Instance | States | Result |
| --- | --- | --- | --- |
| `continuation` | 2 clients, 2 tokens, 2 request threads, table of 1, ring of 4, clock 0..1 | 489 000 | pass |
| `endpoint` | 2 connections, 1 worker, 1 resource, 1 attempt, table of 2, 1 attempt per session | 210 000 | pass |
| `execution` | 2 requests of 1 client, 2 publications, limits {total 2, per client 1} and {1, 1} | 172 000 | pass |
| `selection` | 2 providers, 4 models, every kind of app-server answer in up to 3 lines | 65 000 | pass |
| `routing` | 3 resources, 3 models, 2 changes, clock 0..2 | 147 000 | pass |
| `control` | 2 administrators, 2 workers, 2 clients, scenarios with a budget each | 211 000 | pass |
| `bridge` | 1 attempt, 2 tool calls, 2 connections, 1 fault, 1 tracked attempt | 458 000 | pass |
| `separate_parts` | seven scenes, see below | 805 000 | pass |
| `device_parts` | five scenes, see below | 918 000 | pass |
| `control_switch`, `endpoint_closed_row`, `stream_error` | the instances above | | violation |

What they show, property by property. Several properties are conjunctions of
named parts, so that a run states what it is about; the parts are defined
directly above the conjunction.

* *continuation.* A tool result is handed to the backend at most once
  (`DeliveredAtMostOnce`). A record in state resuming always has a thread that
  will close it (`ResumingIsHeld`), the worker's turn is cancelled exactly once
  if it expired or was cancelled and never otherwise (`CancelMatchesVerdict`),
  whichever of reaper, late claimer and delivering thread gets there first.
  `AnswersAreHonest`: a foreign client reads only `not_found`, and "already
  resolved" is only said of what was claimed or has ended. `ContinuationsEnd`:
  the table drains, an expiry always stops the worker, a delivered result meets
  a tombstone when it is repeated.
* *endpoint.* An attempt that was sent and not answered is tracked by an open
  session (`WaiterIsTracked`), a refusal that promises that nothing was sent is
  true (`RefusalIsDefinitive`), revocation reaches every session that was in the
  table (`RevocationReachesTable`), silence is noticed and releases those who
  wait (`SilenceEnds`).
* *execution.* Slots are counted exactly and no stretch of applications with one
  setting of the limits is overdrawn (`ConcurrencyIsKept`), calls run on current
  authority (`FreshAuthority`), both records tell what happened (`RecordsAgree`),
  requests end (`EveryRequestEnds`), and the whole implements the pool
  (`ImplementsPool`).
* *selection.* `SelectedIsAllowed`: no signal against the subscription, no spent
  window, no reservation, no blackout speaks against what is selected.
  `AcquisitionIsOrderly`: the answer belongs to the last question, no child is
  left behind an observation, no constructor raises. `DecisionsCompare`: a
  selected model that shares no window stays selected when its windows are
  `Refill`ed, a tightened profile is never laxer, a simulation raises for a
  reading nobody has and for two overrides of one window, and for nothing else. `EveryCallIsReadyToDecide`:
  whatever the app server does, a call is refused or decides.
* *routing.* `TargetsAreUsable`: what is routed, offered as an alternative or
  admitted is authorized by both grants, affordable, fresh, healthy and served,
  and no document names what a client may not use. `PinsAreHonoured`: a pin is
  exact or refused and keeps the demands it was selected for, whatever the later
  request says. `RoutesAreWellFormed`: the registry stays readable whatever
  workers report, every result satisfies its own constructors, a promotion
  decides an order and nothing else, and what was selected is admitted while
  nothing has changed.
* *control.* `ConfigurationIsCoherent`: references exist although two
  administrators saved what they computed from older configurations,
  observations are of the present binding, retirement is earned, a restart finds
  what was acknowledged. `RevokedIsRefused`. `FeedIsComplete`: every change of
  the document is published, and an observer that is answered is up to date.
* *bridge.* `AnswersAreTrue`: refused means never run, lost means never consumed,
  completed means the turn completed. `OnlyBelatedRowsMislead`: the session that is
  chosen is the one that tracks the attempt, unless an older connection was
  authenticated after the device had left it, and a call that was given up leaves
  no turn running unawares, unless its cancel went to such a session. (Without the
  exceptions both are false, see section 6.) `EverythingSettles`: calls, turns and
  stops end, and the server forgets the attempt unless the thread of its turn died.
* *separate_parts.* `AccessIsFinal` (one administrator, an ended session stays
  ended), `ReloadsAreWhole` and `HupsAreServed` (a process that stopped holds
  nothing, both listeners serve one certificate, no SIGHUP is lost to a reload
  under way), `PublicationIsSound` (cuts go forwards, only narrow, and verify
  later), `StoreIsSafe` (what was committed survives; nobody else is in the
  store while it is rolled back; nothing is touched that is not understood),
  `IdentitiesAreSound` (a code mints one identity and names it, across a crash
  between any two statements; a credential that was dead when its check began is
  refused), `StreamsTellTheOutcome` and `RequestsAreUnambiguous` (one answer;
  events in order; the stream says what the outcome says; a history is closed; an
  effort stated twice agrees), `DispatchIsSound` (what was emitted is what is
  returned and what the provider said; however it trickles, at most one read of an
  answer is over after the deadline; a failure after sending is not called
  permanent).
* *device_parts.* `DeviceTrustHolds` (CA and credential belong to the pairing, but for the CA of a
  run whose device was unpaired between its two reads of the identity; one runner), `FramesAreCarried` (one version, a torn stream is no clean end, later
  messages stay behind their gates, each end reads the other), `TurnsAreHonest`
  (a completed turn's text is whole, in order and what the server was shown; a
  runtime lost after its turn began leaves the outcome unknown; a cancellation has
  a cause; no turn begins for a call the adapter cannot map; no child is left
  behind), `LocalWorkIsHonest` (the same of a plan run and a loopback call; every
  attempt whose thread goes on is told of; a report that no other thread disturbed
  shows one discovery).

### Bounds, and why they are enough

The interesting races need two of something: two threads for one token, two
connections of one worker (a reconnect over a half-open connection), two callers
with one code, two requests for one slot, two administrators with one
configuration, two store objects in one process and a third in another. They also
need a bound that is reached: a table of one or two, one pending attempt, a
backlog of one, limits of one and two, a device with room for one more attempt, a
feed of two events, five retained cuts.

The clock of the registry has two values, before and after a deadline; that of the
store reaches past a code's lifetime plus its retention; that of `routing` past
the lifetime of an observation, the end of a promotion and of an evidence
interval. Two publications suffice for a request to be older than the application
that is current, and for limits to be kept or changed. In `execution` the total
limit refuses, but with one client the per-client limit binds first; that neither
is overdrawn for any number of clients is `LimitsSurviveRebuilds`. A ring of four holds a
tombstone for each of the closes and expiries two tokens can produce, as
`DeliveredReplayConflicts` presupposes.

In `bridge` one attempt meets a broken connection, or a frame its device cannot
write, and one reconnect, by itself or after read timeouts; two connections are
enough for a hello that is answered too late. The attempts of others are the room
they leave (`Others`); any number of faults and connections is in the proofs. A call
of `http.client` comes to at most two socket operations (`Operations`), enough to
outlast every timeout of one; the proofs have any number. In `control` a budget per scenario bounds
each kind of operation, one or two of each; the scenarios between them use every
operation. In `separate_parts` the database is opened by three store objects
under two faults, each a crash of a process or a loss of power; two codes meet two
redeeming callers, one check, one rotation and a backlog of one; a stream has up
to two chunks and is read in up to twelve pieces. In `device_parts` three frames
are written in each direction, from every pair of version sets; a turn has up to
two deltas between its tool calls, one tool round (the second exceeds the
budget), one stray line (likewise), two pages of models and an output pipe of two
lines, so that the runtime has to wait; four discoveries are enough for two
threads to pass each other twice. A provider's, client's or server's document is
one of a list chosen so that each gate of the parser decides for one of them.

The proofs of section 5 remove the bounds for the concurrent core, except for
liveness.

Deadlock is checked where the system never stops by itself. The runs `selection`,
`routing`, `control` and `bridge` do not check it: a selection ends with its
decision, and the others end when their bounds are used up.

### Variants

Besides the variants paired in `PROJECT.json`, these break the property next to
them when they take the place of the definition below them.

| Module | Run | Property | Broken by (in place of) |
| --- | --- | --- | --- |
| `AdminAccess` | `separate_parts` | `AccessIsFinal` | `ConsumedBlindly` (`Consumed`) |
| `BridgedExecution` | `bridge` | `AnswersAreTrue` | `BeginFailureRefused` (`BeginFailure`), `RegisteredSwapped` (`Registered`), `VerdictOfSilence` (`Verdict`) |
| `BridgedExecution` | `bridge` | `OnlyBelatedRowsMislead` | `CancelForgotten` (`CancelWire`) |
| `CapacityTelemetry` | `selection` | `AcquisitionIsOrderly` | `ReportForgives` (`Report`) |
| `ContinuationRegistry` | `continuation` | `AnswersAreHonest` | `ClaimSwapped` (`Claim`) |
| `ContinuationRegistry` | `continuation` | `CancelMatchesVerdict` | `CancelLateSkipped` (`CancelLate`) |
| `ContinuationRegistry` | `continuation` | `ContinuationsEnd` | `CloseRecordUnmarked` (`CloseRecord`), `TombstonedDueNone` (`TombstonedDue`) |
| `ControlPlane` | `control` | `ConfigurationIsCoherent` | `AppendUnfloored` (`AppendEvent`) |
| `ControlPlane` | `control` | `FeedIsComplete` | `Unnoticed` (`Noticed`) |
| `ExecutionLifecycle` | `execution` | `ConcurrencyIsKept` | `ReleaseGlobalForgotten` (`ReleaseGlobal`) |
| `ExecutionLifecycle` | `execution` | `RecordsAgree` | `StoreFailsQuietly` (`StoreFails`) |
| `ExecutionSources` | `control` | `ConfigurationIsCoherent` | `ExclusionByAdoption` (`Exclusion`), `CountsAnyway` (`CountsMisses`) |
| `GatewayRequest` | `separate_parts` | `RequestsAreUnambiguous` | `StatedEffort` (`StatedEfforts`) |
| `Ingress` | `separate_parts` | `StreamsTellTheOutcome` | `Unopened` (`InStream`) |
| `ModelIntelligence` | `separate_parts` | `PublicationIsSound` | `LabelIgnoringAge` (`Label`), `CurrentAnyway` (`Current`), `RoomBesides` (`Room`), `ReceiptOnly` (`WithCut`) |
| `ResourceRegistry` | `routing` | `RoutesAreWellFormed` | `ReportedPools` (`Canonical`), `FutureAllowed` (`NotInTheFuture`) |
| `ResponseStream` | `separate_parts` | `StreamsTellTheOutcome` | `TerminalBoth` (`Terminal`), `ChatChunkCounted` (`ChatChunk`) |
| `Routing` | `routing` | `PinsAreHonoured` | `PinnedToResource` (`RoutableKeys`) |
| `Routing` | `routing` | `RoutesAreWellFormed` | `PinOfVariant` (`PinOf`) |
| `Routing` | `routing` | `TargetsAreUsable` | `IntersectOptionalWide` (`IntersectOptional`), `PromotedStaysAvailable` (`AvailabilityFailureCodes`), `ShownWhole` (`ShownExclusion`) |
| `Selection` | `selection` | `AcquisitionIsOrderly` | `ReplenishmentUnnamed` (`Replenishment`) |
| `Selection` | `selection` | `DecisionsCompare` | `TightenMinimumReplaces` (`TightenMinimum`), `OverrideAppliesAnywhere` (`OverrideApplies`) |
| `Selection` | `selection` | `SelectedIsAllowed` | `ExhaustedStrategic` (`Exhausted`), `ReservesNextLevel` (`Reserves`) |
| `SelectionRun` | `selection` | `AcquisitionIsOrderly` | `OverTotalLate` (`OverTotal`), `UnreapedKeeps` (`Unreaped`) |
| `ServerConfiguration` | `control` | `ConfigurationIsCoherent` | `ToDocumentWithoutSources` (`ToDocument`), `SaveableAnywhere` (`Saveable`) |
| `ServerProcess` | `separate_parts` | `ReloadsAreWhole` | `CleanupWithoutListener` (`Cleanup`), `KeepsNew` (`PutsBack`) |
| `StoreOpening` | `separate_parts` | `StoreIsSafe` | `GuardKept` (`GuardAfter`), `VouchedByClaim` (`Vouched`), `RemoveSlotUnsynced` (`RemoveSlot`), `MayRecoverShared` (`MayRecover`), `ValidateNothing` (`Validate`), `MayWriteAnyway` (`MayWrite`) |
| `WorkerDevice` | `bridge` | `EverythingSettles` | `ClosesNothing` (`StopWire`) |
| `WorkerEndpoint` | `endpoint` | `SilenceEnds` | `StaleAuthenticated` (`Stale`) |
| `WorkerEndpoint` | `endpoint` | `WaiterIsTracked` | `OpenForTrackingAlways` (`OpenForTracking`) |
| `WorkerIdentityStore` | `separate_parts` | `IdentitiesAreSound` | `BindNobody` (`BindWorker`) |
| `WorkerLocalStore` | `device_parts` | `DeviceTrustHolds` | `SavedTrustKept` (`SavedTrust`), `LockIgnored` (`LockIsFree`), `MayPresentAnywhere` (`MayPresent`) |
| `WorkerWire` | `device_parts` | `FramesAreCarried` | `ReadsResultWithReason` (`ReadsExecuteResult`), `ReasoningGateOpen` (`ReasoningGate`), `EndOfAny` (`EndOf`) |

## 4. Fairness

* `ContinuationRegistry`: time passes, the maintenance thread keeps its interval,
  a request thread that runs is scheduled. The adapter bounds a delivery by the
  deadline, so the delivery's end is one of the thread's own steps. That a client
  ever sends its tool result, or that a turn suspends, is not assumed.
* `WorkerEndpoint`: the monitor thread keeps its interval; a dispatch thread that
  has tracked or is about to write goes on. Nothing is assumed about the worker,
  the network or the administrator.
* `ExecutionLifecycle`: a handler thread that has authenticated a request is
  scheduled until it has answered. The adapter call ends because every adapter
  bounds it by the execution deadline. That the control plane publishes, or the
  store recovers, is not assumed.
* `SelectionRun`: the command runs on, a wait with a deadline ends by its
  deadline, the reaping of the child is itself bounded, and the other provider's
  answer is bounded by its HTTP timeout. That the app server ever writes a line
  is not assumed.
* `BridgedExecution`: the threads of both programs, taken together, are not
  ignored for ever; that is enough because reconnects, tool calls and frames are
  bounded. Faults, claims, a stop and a client that leaves are the environment
  and are never owed.
* `SeparateParts`: the maintenance thread of the server process goes on, and its
  reload of the two TLS contexts ends. The other scenes state safety only.

All of it is weak fairness: a thread that could go on is not ignored for ever.

## 5. Proofs

Each `*Proofs` module proves `Init => IInv`, `IInv /\ [Next]_vars => IInv'` with
one lemma per action, and derives the properties from `IInv`. The invariants are
defined at the end of the component's module (`IInv`, `BridgeIInv`, `ControlIInv`,
`FeedIInv`, `TurnIInv`, `OpeningIInv`, `StoreIInv`, `ProcessIInv`, `AccessIInv`,
`MiIInv`, `WireIInv`, `HttpIInv`, `WorkIInv`, `ReportIInv`, `SelectionIInv`), and TLC found
each of them to hold on the instances of the runs before it was proved; for a part
of `separate_parts` or `device_parts` the specification is the part's own
(`StoreSpec`, `OpeningSpec`, `TurnSpec`, `WireSpec`, `HttpSpec`, `LocalSpec`, ...).

The assumptions are the named `ASSUME`s on the constants. Bounds are natural
numbers, those the code divides by or starts from at least one; a sentinel is no
member of the set it stands outside of, nor one of the words it is compared with
(`BridgeAssumption`, `NoFlawIsNoWord`, `EndpointAssumption`, `WireAssumption`, `LocalAssumption`, ...); requests and
stores are finitely many (`LifecycleAssumption`, `StoresAssumption`); an absent or
damaged row is none a pairing writes (`LocalStoreAssumption`); a call carries every
member that its checks read (`CallsCarryTheirMembers`), a cut every member the
loader of `mi_consumer.py` insists on (`CutsAreRead`), and a dispatch names a
registered preset (`HttpAssumption`). `SelectionAssumption` says of a catalog, a
policy, a request and a simulation's overrides what their constructors say
(`EntryTyped`, `PolicyTyped`, `NeedTyped`, `ContextTyped`): percentages are 0 to 100,
days are of the week, ratings are natural numbers. `RoutingAssumption` says the same of
registrations, observations, catalogs, grants and requests (`RegistrationTyped`,
`ObservationTyped`, `CatalogTyped`, `AuthorityTyped`, `BindingTyped`, `Requirements`). `SentinelAssumption`, `NullAssumption` and a part of
`RoutingAssumption` keep the sentinels apart from what they stand beside, and
`SlotsCover` gives every window an answer can carry its slot.

| Module | Theorems | What the invariant adds |
| --- | --- | --- |
| `ContinuationRegistryProofs` | `TypeCorrect`, `ExactlyOnceDelivery`, `NoOrphanedClaim`, `CancelledExactlyWhenDue`, `ForeignClientIsBlind`, `ConflictAnswerIsHonest`, `AnswersStayHonest`, `PendingTableBounded`, `EndedContinuationsStayEnded` | *custody*: at most one thread decides how a token ends (`CustodyIsExclusive`), and what that thread may rely on at each of its steps although the reaper may have removed the record (`LegFacts`) |
| `WorkerEndpointProofs` | `TypeCorrect`, `NoForgottenWaiter`, `HonestRefusal`, `TrackedOnItsSession`, `RevocationReaches`, `RevocationSpares`, `FirstOutcomeStays` | what the stage of a dispatch implies for its attempt (`AttemptFacts`), what a handshake has published (`HandshakeFacts`), who a revocation still owes a close (`RevocationFacts`) |
| `ExecutionLifecycleProofs` | `TypeCorrect`, `SlotsNeverLeak`, `LimitsSurviveRebuilds`, `ConcurrencyKept`, `AuthorityIsFresh`, `RecordsAreHonest`, `OutcomeIsDurable`, `RecordsStayInAgreement`, `Implements` | a stretch of equal limits has one book (`BookFacts`), counts are exact and within both limits (`SlotFacts`), what was called on which authority by stage (`CallFact`), which result the pending record will carry (`AuditFact`) |
| `PartsProofs` (store opening) | `OpeningIsInductive`, `OpeningTypeCorrect`, `StoreStaysSafe` | what the guard, the lock and the claim say at each place of an opening; which slots a claim allows; what was synced before what; that whatever a crash leaves is one of the shapes the next opening tells apart |
| `CodexTurnProofs` | `TurnIsInductive`, `TurnTypeCorrect`, `TurnsStayHonest` | the deltas under way are those said and not yet taken, so that the text is a prefix of what the turn said; the runtime's turn is where its last line says; at most one answer is due; the pipe is not believed after an interrupt |
| `CodexTurnProofs` (local work) | `LocalWorkStaysHonest` | the first answer line of a run, read or under way, is the one its turn gave, and there is one as soon as the turn spoke (`PlanFacts`); what was passed on and what is still to be passed on are the deltas of the loopback's answer, in order (`LoopbackFacts`); who has been alone since his report began still is, and what he took is the latest discovery (`ReportFacts`) |
| `BridgedExecutionProofs` | `BridgeIsInductive`, `AnswersStayTrue`, `CancelsMissForBelatedRowsOnly` | connections come one after the other, and those before the latest are down (`ConnectionFacts`); the row that tracks is the oldest open one but for the belated (`SessionFacts`); an execute is sent first and once (`ExecuteFacts`); one tool call of a turn is under way at a time, numbered as the turn asked (`CallFacts`), and no tool result is ahead of its client (`ToolFacts`); only a completed turn says completed (`VerdictFacts`); a call that was given up has its cancel under way, or astray (`CancelFacts`) |
| `ControlPlaneProofs` | `ControlIsInductive`, `ConfigurationStaysCoherent`, `RevokedStayRefused`, `ChangesArePublished`, `FeedIsInductive`, `FeedTellsEverything` | who is still let in has his composition due (`RevocationIsDue`); what is about to be saved was accepted part by part (`TaskFacts`); the sources are those of the configuration (`Synchronised`) and their misses are the inventories that lacked the model (`MissesAreCounted`); a probe that will count asks about the present binding (`ObservationFacts`); the newest event of an epoch, and a cursor that has reached it, tell the present document (`Told`) |
| `RouterProofs` (selection) | `CallIsInductive`, `SelectionStaysAllowed`, `AcquisitionStaysOrderly`, `DecisionsStayComparable` | which requests are out at each step and which answer was heard (`AskedFacts`); an observation is a failure's or parsed from an answer the app server gave (`ObservedFacts`); the inputs were accepted and the requirement is resolved from them (`InputFacts`); the decision, and every simulation, is the selector's on the inputs as they still are (`DecisionFacts`) |
| `RouterProofs` (routing) | `RouteIsInductive`, `TargetsStayUsable`, `HeldIsInductive`, `PinsStayHonoured`, `AnswersStayAccepted` | what the registry holds is registered, under its own identity, and dated no later than now (`StoreFacts`); grants, catalog and clock are ones a constructor made (`WorldFacts`); what a client was last told is the decision of a request that reads the state of now (`AnswerFacts`, `ReadsNow`); the request of an execution carries the requirement that the client retained, at least its features and its context, and no higher a ceiling (`HeldFacts`) |
| `PartsProofs` (identities) | `TypeCorrect`, `OneCodeOneIdentity`, `MintedStaysBound`, `DeadIsRefused`, `IdentitiesStaySound` | who holds the lock and what it has written so far (`LockFacts`); a code stays bound after its row was pruned (`BoundForever`); a row read before a rotation already refuses what was dead at the start (`DeadFacts`) |
| `PartsProofs` (device rows) | `DeviceStoreIsInductive`, `DeviceStoreTypeCorrect`, `TrustAlwaysHolds` | identities are numbered by their pairings, so that no command expects one still to come (`KnownIdentities`); a command whose CA may still be stored has offered it for the identity it expects, or found none to expect (`PendingFacts`) |
| `PartsProofs` (server process) | `ProcessIsInductive`, `ProcessTypeCorrect`, `ReloadsStayWhole` | which context each listener has at each step of a start and of a reload (`ContextFacts`); a reload under way has read the files after every signal it will account for (`HupFacts`) |
| `PartsProofs` (administrators) | `AccessIsInductive`, `AccessStaysFinal` | sessions are numbered once, and each is open or over |
| `PartsProofs` (model intelligence) | `PublicationIsInductive`, `PublicationStaysSound` | decisions are numbered once; receipts and links fit the decisions they name |
| `PartsProofs` (wire) | `WireIsInductive`, `FramesStayCarried` | until its greeting is read a connection carries nothing else (`GreetingFacts`); the worker keeps what it offered and both ends settle on the greatest version common with it (`VersionFacts`); a torn frame is the last of its direction (`BreakFacts`); the server tracks no attempt a version's gate excludes, and what is under way will be read or is a known misfit (`FrameFacts`) |
| `PartsProofs` (HTTP dispatch) | `HttpIsInductive`, `DispatchStaysHonest` | what has been read so late: one read at most, and none after it (`ClockFacts`); what is on the wire and what came back of it (`PostFacts`); a request that is on its way was not refused by its preset (`CarriedFacts`), and `WrittenAsAsked`: what the preset writes of a call it does not refuse carries every control of the call |

`LimitsSurviveRebuilds` deserves a word: a rebuild replaces the whole application
while executions hold slots of the old one. The bound holds because all
applications of a stretch share one book, so the running requests of the stretch
are among the holders of that book, whose number the semaphore knows exactly.
`Implements` shows the refinement: publishing is `Open`, authentication `Arrive`,
the per-client half of the acquisition `Enter` (it has room: the request already
holds a slot of the semaphore and no place yet), the per-client half of the
release `Leave`; every other step stutters.

`BridgedExecutionProofs` is the longest argument, because two programs and a
network meet in it. A step of the device is *quiet* for an attempt when it loses
nothing the attempt and its session have to say to each other and adds no tool call
and no result; a quiet step that only advances the turn keeps every fact about the
attempt (`DeviceAdvances`), which settles most of the device at once. What remains
are the steps that speak: a tool call (`AskStep`), the frames the device reads
(`DispatchStep`), and on the server a message that is sent (`SpeakStep`,
`CallStepHolds`), read (`ReadStep`) or lost with its session (`CloseStep`). That
cancels go where the attempt is tracked rests on one fact about numbers: a row that is
opened while its connection is up is on the device's latest one, so the row that
tracks stays the least, but for rows opened on connections that were down already.

`ControlPlaneProofs` covers every property of its run, under the faults the run has. A
configuration that was computed from an older one is coherent all the same, because
a save checks it under the lock against the workers of that moment. What an
observation is of can change in two places only, the save that forgets it and the
report that replaces it; the one exception, a probe that outlives a failed rebuild,
came to light when the proof of that step could not be finished, and the model now
has it. Retirement is a statement about counting: `absent` and the code's own misses
agree for every adopted model, whether a report counts, a policy or a configuration
drops the source, or a restart forgets both. The feed needs no more than that its
events are numbered without a gap, which `append_producer_event` keeps when it
discards the oldest: a cursor inside the ring then finds either nothing missing or
the newest event among what is.

The first half of `RouterProofs` is about functions more than about steps, since a decision is
one evaluation of the selector on what was read. It goes from the windows up. An
assessment carries the least of the readings it rests on (`AssessmentIsSound`), every
gate tells why it stops a candidate (`CandidateIsSound`), and of the eligible ones
exactly one comes before all others, because each layer of the ranking key leaves a
nonempty set of equals and the last one, the identity, leaves one element
(`LeastOnes`, `FirstOfAll`). On the other side stand the parsers: whatever the app
server wrote, the snapshot is one that its constructor accepts and an eligible
subscription is one that no signal speaks against (`CodexSnapshotIsAccepted`,
`EligibleIsUnforbidden`). `SelectionIInv` ties both together, by saying that the
decision in the state is the selector's on the inputs in the state. An override is
read as it says (`LoweredIsRead`), so a window set to nothing excludes every candidate
that needs it. For quota the argument compares two evaluations: candidates that do not
share the refilled windows are evaluated as before (`SameEvaluation`), the selected one
stays eligible (`RefilledIsEligible`), and its ranking key keeps every part but the
penalty, which does not grow (`RankFalls`); so it still comes before every candidate it
came before (`LowerStaysBefore`, `FirstStaysFirst`). Had the key any part that grows
with what is left of a window, this is the step that would fail. A reading nobody has is refused and so are two overrides of
one window; the second was missing in `SimulationIsHypothetical` until the proof asked for it.

The second half follows a target through the router. A gate of a resource stops it
for a reason or else its entry is authorized by both grants and affordable
(`AuthorizedIsAllowed`), fresh, healthy and served (`StagesPass`); `GateIsSound` puts
this together for every entry of the snapshot, and `EntriesAreStored` carries it back
from the snapshot to the registry. `RouteReaches` shows that whatever a route gives
out went through such a gate, although on the way the catalog is reduced to the
models that some resource serves, each model to one resource (`RepresentativeIsOne`)
and the models to the best of a ranking: the target is the first of the gates that
serve the chosen model, and that this first is exactly one rests on the promotion
keys being sequences of numbers (`FirstGate`). `AdmissionReaches` shows the same of
the pin that an execution names, which the admission looks up in the registry of its
own moment and never in that of the selection. A resource is named in a document only where its
gate got past authorization (`VisibleIsAuthorized`, `ExclusionHides`). `RouteIInv` is
needed because an answer stands in `last` while nothing else happens: it says that
the request it answers reads the present state, and a step that changes the state
withdraws the answer. The registration of a resource used to be a recursive function
of the set of registrations; it is now a step per resource, as in the code, so that a
half-built registry is a state that the invariant covers too.

That the demands of a selection bind its execution rests on requirements that only
grow. Of two floors the larger one meets both, so a tightened requirement meets what
it was tightened from (`TightenedMeets`); the request of an execution is built around
the retained requirement, merged with the retained binding (`MergedKeeps`), and built
once more (`ConstructedKeeps`), and at each of these steps it demands at least what it
did before. So the admission, which approves only a model that meets the requirement
of its own request (`AdmittedIsCapable`), meets the retained one, although the catalog
may have changed in between: the rating that counts is the present one. `HeldFacts`
is needed because the client's pin and requirement outlive any number of changes
between the selection and the execution.

That every result satisfies its constructors is shown where the result is made.
Each stage of a gate gives the reasons of that stage only (`AuthorizationReasons`,
`AvailabilityReasons`, `CompatibilityReasons`), a selection on one resource excludes
for a reason that its exclusion is filed under (`ScopedExclusionsAreAccepted`), and a
target takes a context from evidence only together with its interval
(`TargetIsAccepted`), which registrations bring. That the registry can be read needs
`StoreFacts`: `registry_snapshot` raises on an observation dated after the present, and
the time that passes before it is read is the only thing that the acceptance of a
report can rely on (`ReadableHolds`).

Model-checked only: of `RoutesAreWellFormed` the two parts that compare two
computations, the selection with the admission of its own pin (`RoutedIsAdmissible`)
and a route with the same route without promotions (`PromotionsOnlyOrder`); its other
parts are `AnswersStayAccepted`. `Ingress`
(`StreamsTellTheOutcome`, `RequestsAreUnambiguous`), which reads its input through
folds; of `DispatchIsSound` the two parts that
compare the outcome with the whole stream (`EmittedIsReturned`,
`StreamSaysTheSame`), because a stream is read by a fold over its pieces; the
liveness properties (`EverythingSettles`, `EveryRequestEnds`, `HupsAreServed`,
`EveryCallIsReadyToDecide` and
the others), which need fairness and ENABLED; and `DeliveredReplayConflicts`,
which holds for instances whose ring forgets nothing. Liveness under fairness,
induction over data and RECURSIVE operators are out of this prover's reach; the
modules that are proved about use no recursion.

## 6. Where code and documentation disagree

Three runs expect a violation. Each checks one sentence of the repository.

| Run | The sentence | What happens |
| --- | --- | --- |
| `control_switch` | "enable/disable (configuration kept, registry updated)" (`docs/control-surface.md:292`) | `_with_enabled` copies every field of the resource but `local_adapter_id`, so a switch drops a worker-bridged resource's adapter binding |
| `endpoint_closed_row` | `close`: "The session row is removed UNCONDITIONALLY" (`worker_endpoint.py:442`) | a session closed by the monitor between its credential check and its publication writes its row again, and every later `close` returns early |
| `stream_error` | "on failure the stream either never started (clean HTTP error) or is already terminated in-band by the error path" (`gateway_server.py:585`) | `finish` in the `finally` clause writes `[DONE]`, then the error path writes the error event and a second `[DONE]` |

Further sentences that the modules refute: each is a definition of the module,
and a run whose configuration names it in place of the properties finds the
counterexample.

| Definition | The sentence | What happens |
| --- | --- | --- |
| `ContinuationRegistry!TerminalReplayConflicts` | `was_terminal_for`: a replay "after completion/expiry/cancellation must receive the explicit already-resolved conflict" (`gateway_continuation.py:367`) | `expire_due` leaves a tombstone only for records that were resuming; a waiting record that expires leaves none, and its replay reads not found |
| `WorkerEndpoint!RevokedHasNoSession` | `revoke_worker`: "Revoke one device identity and close its live sessions now" (`worker_endpoint.py:1183`) | a session between the two points of `endpoint_closed_row` is not found by the revocation and serves the revoked worker until it disconnects |
| `ExecutionLifecycle!AuditedOnce` | "Every request — executed or rejected — produces one audit record" (`docs/execution-surface.md:921`) | when the durable store refuses a completion's record, the in-memory trail gets a second one that says failed |
| `ExecutionLifecycle!AnsweredIsAudited` | `execute`: "each outcome is audited before the error propagates" (`gateway_coordinator.py:938`) | a client revoked between authentication and the published view is refused before the audited region |
| `BridgedExecution!SuspensionsAreTracked` | "Each suspension also holds one endpoint pending-attempt slot" (`worker_bridged_adapter.py:91`) | a suspension whose session ended before anybody continued it keeps its slot (`worker_bridged_adapter.py:434`) |
| `WorkerWire!ToolResultsAreCarried` | a tool result is "transported verbatim" (`worker_protocol.py:1258`); a string of 4 MiB stays under the frame bound in the worst escaping (`worker_protocol.py:206`) | an empty tool result passes every gate of the ingress and is refused by the worker's reader, which drops the connection; and escaping can make a 4 MiB string larger than a frame |
| `LocalAdapters!InterruptedIsLost` | `attempt_interrupted` is for "every attempt that was in flight (or whose result could not be delivered) when the connection died" (`docs/worker-protocol.md:355`) | an `OSError` out of a loopback endpoint that refuses its connection is taken for the loss of the server's (`worker_client.py:1045`), and the attempt is recorded interrupted on a healthy connection |
| `BridgedExecution!OwnerIsAlwaysChosen` | `session_for_resource`: "The one session that may execute `resource_id` — the CONFIGURED owner's live authenticated session" (`worker_endpoint.py:1056`); a matrix of acceptance names its test `test_scenario_11_cancel_reaches_exactly_the_owning_worker` (`docs/m10-security-acceptance.md:30`) | the device's read of the handshake times out while its hello waits at the server; it reconnects, the new session tracks an attempt, and then the old hello is answered: the table is in the order of accepting, so the cancel and the tool result go to the dead session, and a turn given up runs on to its own deadline |
| `BridgedExecution!EveryTurnReports` | `execute_result` "is sent exactly once per attempt" (`docs/worker-protocol.md:350`) | an exception other than the three that `_execute_task` catches (`worker_client.py:1025-1050`) ends the attempt's thread on a healthy connection: nothing is sent, and the server tracks the attempt until the connection ends |
| `HttpAdapter!EndsNearDeadline` | "Every dispatch runs under the admission deadline" (`docs/execution-surface.md:831`); "bounded response bodies and streams under the dispatch deadline" (`docs/providers.md:382`) | the timeout of the connection holds for each socket operation, and neither the sending, nor the head, nor the body of a refusal (`_error_note`, `openai_http_adapter.py:844`) looks at the deadline: a provider that trickles outlasts it |
| `WorkerLocalStore!NoPairingIsOverruled` | "persistence also fails closed if another pairing/rotation replaced the identity while that session was being authenticated", said of the calls that supply the expected identity (`worker_local_store.py:412`) | an unpair between the resolution of the CA and `worker_client.py:1837` leaves no expected identity, the comparison is skipped (`worker_local_store.py:424`), and the run's CA replaces that of a pairing with the same server made since |
| `HttpAdapter!FailuresAreTyped` | the adapter's contract that every failure is one of its kinds | `accumulator.complete()` runs outside the `try` (`openai_http_adapter.py:709`), and the stream parser lets a decoding error through |

Observations met while modelling, each visible in the model at the action named
after the function:

* *Routing.* With a model alias in runtime mode `route_request` reduces the
  catalog to one model and then runs a check that presupposes all candidates
  (`routing_core.py:3194`, 2526-2536). Registry snapshots are last-write-wins,
  whatever instant they were observed at. A request reads the registry as of the
  instant it began (`gateway_coordinator.py:1682`, 1761): an observation stored in
  between makes it fail with `state_unavailable` (`RouteOvertaken`).
* *Control plane.* Service operations read the configuration without the lock and
  save it under the lock later, so the second of two saves silently undoes the
  first. After a failed store write the running configuration and the stored one
  differ; a worker deleted in that state leaves a stored configuration that names
  an unknown worker. `service_add_provider` stores its secret before the
  configuration is saved.
* *Identities.* Pairing codes that have expired count towards the backlog until
  they are pruned a day later, while the message (`worker_identity_store.py:338`)
  tells the administrator to wait for expiry.
* *Audit.* The trail keeps its bounds when the retention is changed.
* *Worker.* An interrupted report's id is forgotten before it is sent on
  reconnection; the run loop keeps the identity it loaded at its start; the
  shipped worker never asks for `rotate_credential`; an attempt that timed out
  stays tracked until the connection ends; the reconnect budget never resets.
* *Adapters.* An error answer to `model/list`, `thread/inject_items` or
  `turn/start` is raised past `invoke`: the attempt's thread ends and the server is
  told nothing; during a discovery the same error ends the heartbeat thread,
  contrary to the comment at `worker_codex_adapter.py:1676-1680`. A broken answer
  of a loopback endpoint (`HTTPException`) ends the attempt's thread likewise. A
  deadline or a cancel that meets the wait for `turn/start` is reported without an
  interrupt of the turn that may have begun. Both threads of a session report at
  its start (`worker_client.py:853-860`), so that a first report may join the
  snapshots of one discovery with the inventory of the next.
* *Store.* A recovery that was interrupted between its claim and its slot may
  leave artifacts that only an administrator can clear
  (`StoreOpening!NeverStranded`, `NeedsNoOperator`).
* *HTTP.* A CR LF split between two reads ends an event early; in a whole
  document tool-call arguments that are not a string become `{}`, a stream refuses
  them; an empty stream
  completes, an empty document is refused. Some malformed chat fields raise an
  error the parser does not expect and are answered 500 (a message that is no
  object, a `tool_choice` of the wrong type, an empty name); early rejections
  leave the connection open with an unread body, contrary to the comment at
  `gateway_server.py:598-600`.

## 7. What is not modelled

`PROJECT.json` gives the status of each component and the reason. In short:

* the evidence records and controlled homes of the Codex and ZCode adapters,
  which are files and documents about a machine; `BridgedExecution` does not run
  the adapters' turn machines but lets a job end in every way they may report;
* installation, service managers, trust stores, tray and certificates: the
  operating system's state;
* the command line, the read-only servers and their documents, rendering and
  wording: one-shot or stateless views over reads that other modules model;
* development and packaging tools, which are no part of the running system;
* SQL itself: a statement is an atomic change of a table, and a transaction that
  fails leaves none, which `StoreOpening` justifies down to pages and journal;
* hashing and random choice: a credential, code or token is a value nobody else
  holds;
* retention of audit rows by count and age; usage totals;
* the attempts of one request on several candidates in turn, which
  `ExecutionLifecycle` takes as one adapter call; legs that resume a tool call
  take no concurrency reservation in the code and are in `ContinuationRegistry`.

## 8. Plan

What is left to prove, in this order:

1. `Ingress`: `StreamsTellTheOutcome`, from where a connection stands in its
   stream, and the rest of `DispatchIsSound` of `HttpAdapter`. Both read their inputs
   through folds (`ResponseStream`, `ProviderWire`), about which only what holds of
   every step of the fold can be proved.
2. `RoutingRun`: `RoutedIsAdmissible`, for which an invariant has to keep the request of
   the selection until something changes, and which needs that the gates of the
   admission see what those of the selection saw; and `PromotionsOnlyOrder`, which needs
   that the ranking key alone decides between models, before any promotion.

What stays with TLC for good is in section 5. The adapters' evidence records and the
device's installation stay outside the model (section 7).

## 9. Running it

In this directory, for each run of `PROJECT.json`:

    tlc -workers 2 -config ContinuationRegistry.cfg ContinuationRegistry

and for each proof module:

    tlapm ContinuationRegistryProofs.tla

Each run takes between half a minute and four minutes on two cores. The routing
operators are passed their intermediate values as parameters rather than through
nested LETs, because TLC's coverage statistics expand every use of a LET
definition. The proofs take a few minutes from nothing.
