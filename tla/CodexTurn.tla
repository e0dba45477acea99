------------------------------ MODULE CodexTurn ------------------------------
(***************************************************************************)
(* One attempt of the Codex adapter (worker_codex_adapter.py): its request *)
(* is checked against what the adapter serves and what it can map, the host*)
(* is examined, one runtime is started, and the methods of one turn are sent*)
(* to it, each awaiting its own answer.  The runtime and the pipe between  *)
(* them are part of the model; so are the cancellation, the deadline, the  *)
(* harness that answers tool calls, and the connection to the server.      *)
(*                                                                         *)
(* The text of a turn is its deltas, numbered by the runtime since the last*)
(* tool result: the k-th delta is k, so that text lost, doubled or out of  *)
(* order shows.                                                            *)
(***************************************************************************)
EXTENDS Naturals, Sequences, FiniteSetsExt

CONSTANTS
    CodexCalls,   \* the calls the server may dispatch
    CodexTables,  \* what the adapter may serve: its configured resource or a discovery
    CodexHosts,   \* the machines: binary, version, sandbox and home
    NoFlaw,       \* a check that found nothing
    MaxToolRounds, MaxStrayLines, MaxModelPages,   \* MAX_TOOL_ROUNDS, MAX_UNKNOWN_NOTIFICATIONS, MAX_MODEL_PAGES
    MaxDynamicTools, \* MAX_DYNAMIC_TOOLS
    MaxDeltas,    \* bound: deltas between two tool calls
    PipeRoom      \* lines the runtime's output pipe holds before the runtime has to wait

\* The call of a server carries the members the adapter reads.
ASSUME CallsCarryTheirMembers ==
    \A c \in CodexCalls : {"tools", "bridge", "choice", "limit", "params", "messages", "format", "effort"} \subseteq DOMAIN c

VARIABLES
    at,      \* where the attempt is: a stage, or the method whose answer it awaits
    adapterCall, \* the call, its effort bound by its resource
    table,   \* what the adapter serves, replaced by each discovery
    poised,  \* past the look at deadline and cancellation, waiting for a line
    parts, pages, rounds, strays,   \* text so far, pages asked for, tool calls, unknown notifications
    begun,   \* turn/start has been written
    shown,   \* the deltas emitted to the server since the last tool call
    returned,   \* what invoke returned
    child, turn, asked, said,       \* the runtime: process, turn, request to answer, deltas of the turn
    lines,   \* its standard output
    cancelled, overdue, linkUp      \* the cancel event, the deadline, the connection to the server

attemptVars == <<at, adapterCall, table, poised, parts, pages, rounds, strays, begun, shown, returned>>
runtimeVars == <<child, turn, asked, said, lines>>
aroundVars == <<cancelled, overdue, linkUp>>
turnVars == <<attemptVars, runtimeVars, aroundVars>>

Methods == <<"initialize", "account/read", "model/list", "thread/start", "thread/inject_items", "turn/start">>
Awaited == {Methods[i] : i \in DOMAIN Methods} \union {"turn/interrupt"}
Listening == Awaited \union {"run"}

\* NoFlaw is the absence of a method, of a status and of a reason.
ASSUME NoFlawIsNoWord == NoFlaw \notin Awaited \union {"completed", "failed", "cancelled", "codex_process_lost"}

NoResult == [status |-> NoFlaw, note |-> NoFlaw, content |-> <<>>, observed |-> NoFlaw]
FailedWith(why) == [status |-> "failed", note |-> why, content |-> <<>>, observed |-> "failed"]
Ambiguous == [FailedWith("outcome unknown") EXCEPT !.observed = "unknown"]
CancelledResult == [status |-> "cancelled", note |-> NoFlaw, content |-> <<>>, observed |-> "cancelled"]
CompletedWith(text) == [status |-> "completed", note |-> NoFlaw, content |-> text, observed |-> "completed"]

-----------------------------------------------------------------------------
(* The checks before anything runs.  A check is a flaw or NoFlaw, and the   *)
(* first flaw of a list is the one reported.                                *)

Check(bad, why) == IF bad THEN why ELSE NoFlaw
FirstFlaw(checks) ==
    LET found == {i \in DOMAIN checks : checks[i] # NoFlaw} IN IF found = {} THEN NoFlaw ELSE checks[Min(found)]

EntriesOf(t, c) == {e \in t.entries : e.resource = c.resource}

\* The entry is looked up twice, and a discovery may have replaced the table in between.
BindFlaw(c) ==
    LET e == CHOOSE e \in EntriesOf(table, c) : TRUE
        listed == EntriesOf(table, c) # {}
        own == listed /\ (table.configured => e.variant # NoFlaw)
        pinned == listed /\ ~table.configured IN
    FirstFlaw(<<
        Check(own /\ c.variant # e.variant, "resource_not_served"),
        Check(pinned /\ c.effort \notin {NoFlaw, e.variant}, "effort_conflicts_with_pin"),
        Check(~listed \/ c.model # e.model, "model_not_served")>>)

\* The resource is the effort contract of a discovered source.
EffortOf(c) ==
    IF ~table.configured /\ c.effort = NoFlaw THEN (CHOOSE e \in EntriesOf(table, c) : TRUE).variant ELSE c.effort

MessageFlaw(m) == FirstFlaw(<<
    Check(m.role = "tool" \/ m.calls, "tool_messages_unsupported"),
    Check(m.empty, "empty_message_unsupported"),
    Check(m.role \notin {"system", "developer", "user", "assistant"}, "message_role_unsupported")>>)

Turns(ms) == SelectSeq(ms, LAMBDA m : m.role \in {"user", "assistant"})
ConversationFlaw(ms) == FirstFlaw(<<
    FirstFlaw([i \in DOMAIN ms |-> MessageFlaw(ms[i])]),
    Check(Turns(ms) = <<>>, "no_user_input"),
    Check(Turns(ms) # <<>> /\ Turns(ms)[Len(Turns(ms))].role # "user", "conversation_must_end_with_user_message")>>)

FormatFlaw(format) == FirstFlaw(<<
    Check(format = "json_object", "response_format_json_object_unsupported"),
    Check(format = "other", "response_format_unsupported"),
    Check(format = "no schema", "response_format_invalid"),
    Check(format = "large schema", "response_format_too_large"),
    Check(format = "deep schema", "response_format_too_deep")>>)

\* Function tools as the client declares them, each under a name of its own; a strict schema cannot be enforced.
ToolFlaw(tools, i) == FirstFlaw(<<
    Check(tools[i].shape # "function", "tool_declaration_unsupported"),
    Check(\E j \in 1 .. i - 1 : tools[j].name = tools[i].name, "tool_declaration_duplicate"),
    Check(tools[i].schema = "large", "tool_declaration_too_large"),
    Check(tools[i].schema = "deep", "tool_declaration_too_deep")>>)
ToolsFlaw(tools) == FirstFlaw(<<
    Check(Len(tools) > MaxDynamicTools, "tool_declaration_unsupported"),
    FirstFlaw([i \in DOMAIN tools |-> ToolFlaw(tools, i)])>>)

CallFlaw(c) == FirstFlaw(<<
    Check(c.tools # <<>> /\ ~c.bridge, "tool_bridge_protocol_unsupported"),
    Check(c.tools # <<>> /\ c.choice \notin {NoFlaw, "auto"}, "tool_choice_unsupported"),
    ToolsFlaw(c.tools),
    Check(c.limit, "output_limit_unenforceable"),
    Check(c.params, "request_parameters_unsupported"),
    ConversationFlaw(c.messages),
    FormatFlaw(c.format)>>)

VersionFlaw(probe) == FirstFlaw(<<
    Check(probe = "failed", "version_probe_failed"),
    Check(probe = "unparseable", "version_unparseable"),
    Check(probe = "old", "version_unsupported")>>)

SandboxFlaw(h) == FirstFlaw(<<
    Check(h.platform # "linux", "platform_not_evidenced"),
    Check(h.wsl1, "wsl1_unsupported"),
    Check(~h.bwrap, "sandbox_prerequisite_missing")>>)

HostFlaw(h) == FirstFlaw(<<Check(~h.binary, "source_unavailable"), VersionFlaw(h.probe), SandboxFlaw(h), Check(~h.home, "codex_home_invalid")>>)

-----------------------------------------------------------------------------
TurnInit ==
    /\ at = "begin" /\ adapterCall \in CodexCalls /\ table \in CodexTables
    /\ poised = FALSE /\ parts = <<>> /\ pages = 0 /\ rounds = 0 /\ strays = 0
    /\ begun = FALSE /\ shown = <<>> /\ returned = NoResult
    /\ child = "none" /\ turn = "none" /\ asked = NoFlaw /\ said = 0 /\ lines = <<>>
    /\ cancelled = FALSE /\ overdue = FALSE /\ linkUp = TRUE

\* Every way out of the attempt closes its session: the child is terminated and reaped, its output read no more.
EndSession(stage, r) ==
    /\ at' = stage /\ returned' = r /\ poised' = FALSE
    /\ child' = IF child = "none" THEN "none" ELSE "closed"
    /\ asked' = NoFlaw /\ lines' = <<>>
    /\ UNCHANGED begun
ReturnWith(r) == EndSession("over", r)

\* Mutant: a turn that was lost is reported as one that failed.
LostForSure(stage) == IF stage = "turn/interrupt" THEN CancelledResult ELSE FailedWith("codex_process_lost")

\* From the moment turn/start is sent, losing the runtime leaves the outcome unknown; an interrupt swallows it.
LostAt(stage) ==
    IF stage \in {"turn/start", "run"} THEN Ambiguous
    ELSE IF stage = "turn/interrupt" THEN CancelledResult ELSE FailedWith("codex_process_lost")

Drift(why) == ReturnWith(IF at = "turn/interrupt" THEN CancelledResult ELSE FailedWith(why))

\* One write of a method; a dead process refuses it.
AskRuntime(m, rest) ==
    \/ /\ child = "alive"
       /\ at' = m /\ asked' = m /\ lines' = rest /\ poised' = FALSE
       /\ begun' = (begun \/ m = "turn/start")
       /\ UNCHANGED <<returned, child>>
    \/ child = "gone" /\ ReturnWith(LostAt(m))

Stays == UNCHANGED <<parts, rounds, strays, shown, turn, said>>

Rediscover ==
    /\ at \in {"begin", "bind"} /\ ~table.configured
    /\ table' \in {t \in CodexTables : ~t.configured}
    /\ UNCHANGED <<at, adapterCall, poised, parts, pages, rounds, strays, begun, shown, returned, runtimeVars, aroundVars>>

TakeCall ==
    /\ at = "begin"
    /\ \/ cancelled /\ ReturnWith(CancelledResult)
       \/ ~cancelled /\ EntriesOf(table, adapterCall) = {} /\ ReturnWith(FailedWith("resource_not_served"))
       \/ /\ ~cancelled /\ EntriesOf(table, adapterCall) # {}
          /\ at' = "bind" /\ UNCHANGED <<poised, begun, returned, child, asked, lines>>
    /\ Stays /\ UNCHANGED <<adapterCall, table, pages, aroundVars>>

BindResource ==
    /\ at = "bind"
    /\ \/ BindFlaw(adapterCall) # NoFlaw /\ ReturnWith(FailedWith(BindFlaw(adapterCall))) /\ UNCHANGED adapterCall
       \/ BindFlaw(adapterCall) = NoFlaw /\ overdue /\ ReturnWith(CancelledResult) /\ UNCHANGED adapterCall
       \/ /\ BindFlaw(adapterCall) = NoFlaw /\ ~overdue /\ CallFlaw(adapterCall) # NoFlaw
          /\ ReturnWith(FailedWith(CallFlaw(adapterCall))) /\ UNCHANGED adapterCall
       \/ /\ BindFlaw(adapterCall) = NoFlaw /\ ~overdue /\ CallFlaw(adapterCall) = NoFlaw
          /\ at' = "host" /\ adapterCall' = [adapterCall EXCEPT !.effort = EffortOf(adapterCall)]
          /\ UNCHANGED <<poised, begun, returned, child, asked, lines>>
    /\ Stays /\ UNCHANGED <<table, pages, aroundVars>>

\* The host is examined, then one runtime is started and asked to initialize; starting it may fail.
Host ==
    /\ at = "host"
    /\ \E h \in CodexHosts :
          \/ HostFlaw(h) # NoFlaw /\ ReturnWith(FailedWith(HostFlaw(h)))
          \/ HostFlaw(h) = NoFlaw /\ ReturnWith(FailedWith("codex_process_lost"))
          \/ /\ HostFlaw(h) = NoFlaw
             /\ child' = "alive" /\ at' = "initialize" /\ asked' = "initialize"
             /\ UNCHANGED <<poised, begun, returned, lines>>
    /\ Stays /\ UNCHANGED <<adapterCall, table, pages, aroundVars>>

-----------------------------------------------------------------------------
(* next_event: the deadline, then the cancel event, then a line or the end  *)
(* of the output.  The startup and the interrupt have bounds of their own.  *)

OwnBound == {"initialize", "turn/interrupt"}
OutOfTime == IF at = "turn/interrupt" THEN FALSE ELSE overdue
MayTimeOut == OutOfTime \/ at \in OwnBound
Aborted == cancelled /\ at \notin {"account/read", "turn/interrupt"}

\* A turn that runs is interrupted before it is reported cancelled; what only awaits an answer is given up.
GiveUp(r) == IF at = "run" THEN AskRuntime("turn/interrupt", lines) ELSE ReturnWith(r)

Look ==
    /\ at \in Listening /\ ~poised
    /\ \/ MayTimeOut /\ GiveUp(IF at = "turn/interrupt" THEN CancelledResult ELSE FailedWith("protocol_timeout"))
       \/ ~OutOfTime /\ Aborted /\ GiveUp(CancelledResult)
       \/ ~OutOfTime /\ ~Aborted /\ poised' = TRUE /\ UNCHANGED <<at, begun, returned, child, asked, lines>>
    /\ Stays /\ UNCHANGED <<adapterCall, table, pages, aroundVars>>

HearNothing ==
    /\ poised /\ lines = <<>> /\ child = "alive"
    /\ poised' = FALSE
    /\ Stays /\ UNCHANGED <<at, adapterCall, table, pages, begun, returned, child, asked, lines, aroundVars>>

EndOfOutput ==
    /\ poised /\ lines = <<>> /\ child = "gone"
    /\ ReturnWith(LostAt(at))
    /\ Stays /\ UNCHANGED <<adapterCall, table, pages, aroundVars>>

Reads(kind) == poised /\ lines # <<>> /\ Head(lines).kind = kind
Skips == poised' = FALSE /\ lines' = Tail(lines) /\ UNCHANGED <<at, begun, returned, child, asked>>

\* What the runtime may answer, and what each bad answer is reported as.  An error to some methods is raised past invoke.
Unhandled == {"model/list", "thread/inject_items", "turn/start"}
AnswerFlaws == {
    <<"initialize", "error", "initialize_refused">>, <<"initialize", "schema", "initialize_schema_changed">>,
    <<"initialize", "other home", "controlled_home_not_adopted">>,
    <<"account/read", "error", "auth_unverified">>, <<"account/read", "schema", "auth_unverified">>,
    <<"account/read", "none", "auth_missing">>, <<"account/read", "apiKey", "auth_payg_unsupported">>,
    <<"model/list", "schema", "model_list_malformed">>, <<"model/list", "unlisted", "model_not_listed">>,
    <<"model/list", "no effort", "effort_not_supported">>,
    <<"thread/start", "error", "dynamic_tools_runtime_refused">>, <<"thread/start", "schema", "thread_start_schema_changed">>,
    <<"thread/inject_items", "schema", "thread_inject_schema_changed">>, <<"turn/start", "schema", "turn_start_schema_changed">>}
AnswerFlawsOf(m) == {f \in AnswerFlaws : f[1] = m}
AnswersTo(m) ==
    {"ok"} \union {f[2] : f \in AnswerFlawsOf(m)} \union (IF m \in Unhandled THEN {"error"} ELSE {})
    \union (IF m = "model/list" THEN {"more"} ELSE {})

Following(m, v) ==
    IF v = "more" THEN m
    ELSE IF m = "thread/start" /\ Len(Turns(adapterCall.messages)) < 2 THEN "turn/start"
    ELSE Methods[(CHOOSE i \in DOMAIN Methods : Methods[i] = m) + 1]

ReadAnswer ==
    LET m == at  v == Head(lines).says IN
    /\ Reads("answer")
    /\ \/ m = "turn/interrupt" /\ ReturnWith(CancelledResult) /\ UNCHANGED pages
       \/ m \in Unhandled /\ v = "error" /\ EndSession("escaped", NoResult) /\ UNCHANGED pages
       \/ \E f \in AnswerFlawsOf(m) : f[2] = v /\ ReturnWith(FailedWith(f[3])) /\ UNCHANGED pages
       \/ v = "more" /\ pages + 1 >= MaxModelPages /\ ReturnWith(FailedWith("model_listing_budget_exceeded")) /\ UNCHANGED pages
       \/ m = "turn/start" /\ v = "ok" /\ at' = "run" /\ poised' = FALSE /\ lines' = Tail(lines) /\ UNCHANGED <<pages, begun, returned, child, asked>>
       \/ /\ m \notin {"turn/start", "turn/interrupt"}
          /\ v = "ok" \/ (v = "more" /\ pages + 1 < MaxModelPages)
          /\ AskRuntime(Following(m, v), Tail(lines))
          /\ pages' = IF v = "more" THEN pages + 1 ELSE pages
    /\ Stays /\ UNCHANGED <<adapterCall, table, aroundVars>>

\* Unknown notifications are counted and bounded; whatever cannot be decoded ends the attempt.
ReadStray ==
    /\ Reads("stray")
    /\ strays' = strays + 1
    /\ \/ strays >= MaxStrayLines /\ Drift("notification_budget_exceeded")
       \/ strays < MaxStrayLines /\ Skips
    /\ UNCHANGED <<adapterCall, table, pages, parts, rounds, shown, turn, said, aroundVars>>

ReadGarbage ==
    /\ Reads("garbage") /\ Drift("protocol_malformed")
    /\ Stays /\ UNCHANGED <<adapterCall, table, pages, aroundVars>>

\* Approvals are answered with cancel, which stops the turn; any other request is refused.
ReadRequest ==
    /\ Reads("request")
    /\ \/ /\ child = "alive" /\ poised' = FALSE
          /\ IF Head(lines).approval /\ turn = "suspended"
             THEN turn' = "interrupted" /\ lines' = Append(Tail(lines), [kind |-> "ended", status |-> "interrupted"])
             ELSE lines' = Tail(lines) /\ UNCHANGED turn
          /\ UNCHANGED <<at, begun, returned, child, asked>>
       \/ child = "gone" /\ ReturnWith(LostAt(at)) /\ UNCHANGED turn
    /\ UNCHANGED <<adapterCall, table, pages, parts, rounds, strays, shown, said, aroundVars>>

Streams == adapterCall.stream /\ ~cancelled
\* The emitter raises when the connection to the server is gone, and invoke takes that for the loss of the runtime.
CannotEmit == ~linkUp /\ ReturnWith(FailedWith("codex_process_lost"))

ReadDelta ==
    LET k == Head(lines).nth IN
    /\ Reads("delta")
    /\ \/ at = "turn/interrupt" /\ Skips /\ UNCHANGED <<parts, shown>>
       \/ at = "run" /\ Skips /\ parts' = Append(parts, k) /\ shown' = IF Streams THEN Append(shown, k) ELSE shown
       \/ at = "run" /\ Streams /\ CannotEmit /\ UNCHANGED <<parts, shown>>
    /\ UNCHANGED <<adapterCall, table, pages, rounds, strays, turn, said, aroundVars>>

\* The turn waits for a tool of the client: the call is checked, then given to the bridge with the text so far.
ReadToolCall ==
    LET l == Head(lines) IN
    /\ Reads("tool call")
    /\ \/ at = "turn/interrupt" /\ Skips /\ UNCHANGED rounds
       \/ at = "run" /\ ~l.sound /\ ReturnWith(FailedWith("tool_call_malformed")) /\ UNCHANGED rounds
       \/ at = "run" /\ l.sound /\ rounds >= MaxToolRounds /\ ReturnWith(FailedWith("tool_round_budget_exceeded")) /\ UNCHANGED rounds
       \/ /\ at = "run" /\ l.sound /\ rounds < MaxToolRounds
          /\ at' = "suspended" /\ rounds' = rounds + 1 /\ poised' = FALSE /\ lines' = Tail(lines)
          /\ UNCHANGED <<begun, returned, child, asked>>
    /\ UNCHANGED <<adapterCall, table, pages, parts, strays, shown, turn, said, aroundVars>>

\* turn/completed: a completed turn is never reported as such after a cancellation.
ReadEnd ==
    LET status == Head(lines).status IN
    /\ Reads("ended")
    /\ \/ at = "turn/interrupt" /\ Skips
       \/ at = "run" /\ status = "odd" /\ ReturnWith(FailedWith("turn_status_unrecognized"))
       \/ at = "run" /\ status = "interrupted" /\ ReturnWith(CancelledResult)
       \/ at = "run" /\ status = "failed" /\ ReturnWith(FailedWith("the codex turn failed"))
       \/ at = "run" /\ status = "completed" /\ cancelled /\ ReturnWith(CancelledResult)
       \/ at = "run" /\ status = "completed" /\ Streams /\ adapterCall.tools # <<>> /\ CannotEmit
       \/ at = "run" /\ status = "completed" /\ ~cancelled /\ ReturnWith(CompletedWith(parts))
    /\ Stays /\ UNCHANGED <<adapterCall, table, pages, aroundVars>>

-----------------------------------------------------------------------------
(* The bridge, in which the turn waits for the harness.                     *)

\* What was said before the call went out with it: the resumed turn starts a text of its own.
TextGoesOn == UNCHANGED parts /\ shown' = <<>> /\ said' = 0   \* mutant: the text is not forgotten
TextStartsAfresh == parts' = <<>> /\ shown' = <<>> /\ said' = 0

HarnessAnswers ==
    /\ at = "suspended" /\ linkUp
    /\ TextStartsAfresh
    /\ \/ /\ child = "alive" /\ at' = "run" /\ turn' = "running"
          /\ UNCHANGED <<poised, begun, returned, child, asked, lines>>
       \/ child = "gone" /\ ReturnWith(Ambiguous) /\ UNCHANGED turn
    /\ UNCHANGED <<adapterCall, table, pages, rounds, strays, aroundVars>>

BridgeEnds ==
    /\ at = "suspended" /\ (cancelled \/ ~linkUp)
    /\ AskRuntime("turn/interrupt", lines)
    /\ Stays /\ UNCHANGED <<adapterCall, table, pages, aroundVars>>

-----------------------------------------------------------------------------
(* The runtime, and what may happen around the attempt.  The runtime        *)
(* answers turn/start before its turn speaks, and a suspended turn waits.   *)

Living == child = "alive"
PipeHasRoom == Len(lines) < PipeRoom
Writes(l) == lines' = Append(lines, l)
Quiet == UNCHANGED <<attemptVars, aroundVars>>
EndedLine(status) == [kind |-> "ended", status |-> status]

RuntimeAnswers ==
    /\ Living /\ asked # NoFlaw /\ PipeHasRoom
    /\ asked' = NoFlaw
    /\ \E v \in AnswersTo(asked) :
          /\ v = "no effort" => adapterCall.effort # NoFlaw
          /\ LET stopped == asked = "turn/interrupt" /\ turn \in {"running", "suspended"} IN
             /\ turn' = IF stopped THEN "interrupted" ELSE IF asked = "turn/start" /\ v # "error" THEN "running" ELSE turn
             /\ lines' = lines \o (IF stopped THEN <<EndedLine("interrupted")>> ELSE <<>>) \o <<[kind |-> "answer", says |-> v]>>
    /\ Quiet /\ UNCHANGED <<child, said>>

RuntimeSpeaks ==
    /\ Living /\ turn = "running" /\ PipeHasRoom /\ said < MaxDeltas
    /\ said' = said + 1 /\ Writes([kind |-> "delta", nth |-> said + 1])
    /\ Quiet /\ UNCHANGED <<child, turn, asked>>

RuntimeCalls ==
    /\ Living /\ turn = "running" /\ PipeHasRoom /\ adapterCall.tools # <<>>
    /\ turn' = "suspended" /\ \E sound \in BOOLEAN : Writes([kind |-> "tool call", sound |-> sound])
    /\ Quiet /\ UNCHANGED <<child, asked, said>>

\* An approval makes its turn wait; before the turn a request is one the client does not support.
RuntimeRequests ==
    /\ Living /\ turn \in {"none", "running"} /\ PipeHasRoom
    /\ turn' = IF turn = "running" THEN "suspended" ELSE turn
    /\ Writes([kind |-> "request", approval |-> turn = "running"])
    /\ Quiet /\ UNCHANGED <<child, asked, said>>

RuntimeEnds ==
    /\ Living /\ turn = "running" /\ PipeHasRoom
    /\ turn' \in {"completed", "failed", "interrupted", "odd"} /\ Writes(EndedLine(turn'))
    /\ Quiet /\ UNCHANGED <<child, asked, said>>

RuntimeBabbles ==
    /\ Living /\ PipeHasRoom
    /\ \E kind \in {"stray", "garbage"} : Writes([kind |-> kind])
    /\ Quiet /\ UNCHANGED <<child, turn, asked, said>>

RuntimeDies ==
    /\ Living /\ child' = "gone"
    /\ Quiet /\ UNCHANGED <<turn, asked, said, lines>>

AttemptRuns == at \notin {"over", "escaped"}
Cancel == AttemptRuns /\ ~cancelled /\ cancelled' = TRUE /\ UNCHANGED <<attemptVars, runtimeVars, overdue, linkUp>>
DeadlinePasses == AttemptRuns /\ ~overdue /\ overdue' = TRUE /\ UNCHANGED <<attemptVars, runtimeVars, cancelled, linkUp>>
LinkFails == AttemptRuns /\ linkUp /\ linkUp' = FALSE /\ UNCHANGED <<attemptVars, runtimeVars, cancelled, overdue>>

Reading == ReadAnswer \/ ReadStray \/ ReadGarbage \/ ReadRequest \/ ReadDelta \/ ReadToolCall \/ ReadEnd
Attempt == Rediscover \/ TakeCall \/ BindResource \/ Host \/ Look \/ HearNothing \/ EndOfOutput \/ Reading \/ HarnessAnswers \/ BridgeEnds
Runtime == RuntimeAnswers \/ RuntimeSpeaks \/ RuntimeCalls \/ RuntimeRequests \/ RuntimeEnds \/ RuntimeBabbles \/ RuntimeDies
Around == Cancel \/ DeadlinePasses \/ LinkFails

TurnNext == Attempt \/ Runtime \/ Around
TurnSpec == TurnInit /\ [][TurnNext]_turnVars

-----------------------------------------------------------------------------
(* The result of an attempt says what its turn did.  A completed result     *)
(* belongs to a turn that completed and carries its text whole and in       *)
(* order, and the server has been shown exactly that text; a runtime lost   *)
(* after the turn began is reported as an unknown outcome unless nothing    *)
(* can be reported; a cancelled result has a cause; no turn begins for a    *)
(* call the adapter cannot map whole, and no result leaves a runtime        *)
(* behind.                                                                  *)
TurnsAreHonest == adapterCall.adapter = "codex" =>
    /\ returned.status = "completed" =>
          /\ turn = "completed" /\ returned.content = [k \in 1 .. said |-> k]
          /\ adapterCall.stream => shown = returned.content
    /\ returned.note = "codex_process_lost" /\ begun => ~linkUp
    /\ returned.status = "cancelled" => cancelled \/ overdue \/ turn = "interrupted" \/ ~linkUp
    /\ begun => CallFlaw(adapterCall) = NoFlaw
    /\ ~AttemptRuns => child \in {"none", "closed"}

-----------------------------------------------------------------------------
(* The inductive invariant                                                 *)

Early == {"begin", "bind", "host"}
Opening == {"initialize", "account/read", "model/list", "thread/start", "thread/inject_items"}
Ending == {"over", "escaped"}
Endings == {"completed", "failed", "interrupted", "odd"}
Line ==
    [kind : {"answer"}, says : UNION {AnswersTo(m) : m \in Awaited}] \union [kind : {"stray", "garbage"}]
    \union [kind : {"request"}, approval : BOOLEAN] \union [kind : {"delta"}, nth : Nat]
    \union [kind : {"tool call"}, sound : BOOLEAN] \union [kind : {"ended"}, status : Endings]

TurnTypeOK ==
    /\ at \in Early \union Listening \union {"suspended"} \union Ending
    /\ at \in {"begin", "bind"} => adapterCall \in CodexCalls
    /\ poised \in BOOLEAN /\ begun \in BOOLEAN /\ cancelled \in BOOLEAN /\ overdue \in BOOLEAN /\ linkUp \in BOOLEAN
    /\ parts \in Seq(Nat) /\ shown \in Seq(Nat) /\ said \in Nat
    /\ pages \in Nat /\ rounds \in Nat /\ strays \in Nat
    /\ child \in {"none", "alive", "gone", "closed"}
    /\ turn \in {"none", "running", "suspended"} \union Endings
    /\ asked \in Awaited \union {NoFlaw}
    /\ lines \in Seq(Line)

\* What makes the turn wait: a call of a tool, or an approval.
HoldsTurn(l) == l.kind = "tool call" \/ (l.kind = "request" /\ l.approval)

\* The deltas under way are those said and not yet taken, in order and before the line with which the turn waits or ends.
DeltaFacts(ls, taken, n) ==
    /\ taken <= n
    /\ \A i \in DOMAIN ls : ls[i].kind = "delta" => taken < ls[i].nth /\ ls[i].nth <= n
    /\ \A k \in taken + 1 .. n : \E i \in DOMAIN ls : ls[i].kind = "delta" /\ ls[i].nth = k
    /\ \A i, j \in DOMAIN ls : i < j /\ ls[j].kind = "delta" =>
          /\ ls[i].kind = "delta" => ls[i].nth < ls[j].nth
          /\ ls[i].kind # "ended" /\ ~HoldsTurn(ls[i])

\* The turn is where its last line says; one answer at most is awaited or under way.
TurnFacts(ls, t, a) ==
    /\ \A i \in DOMAIN ls : ls[i].kind = "ended" => t = ls[i].status
    /\ \A i \in DOMAIN ls : HoldsTurn(ls[i]) => t = "suspended"
    /\ \A i, j \in DOMAIN ls : HoldsTurn(ls[i]) /\ HoldsTurn(ls[j]) => i = j
    /\ \A i \in DOMAIN ls : ls[i].kind = "answer" => a = NoFlaw
    /\ \A i, j \in DOMAIN ls : ls[i].kind = "answer" /\ ls[j].kind = "answer" => i = j

Unbroken == at \notin Ending \union {"turn/interrupt"}
PipeFacts == Unbroken => DeltaFacts(lines, Len(parts), said) /\ TurnFacts(lines, turn, asked)

TextFacts ==
    /\ AttemptRuns => parts = [k \in 1 .. Len(parts) |-> k]
    /\ AttemptRuns /\ adapterCall.stream /\ ~cancelled => shown = parts
    /\ turn = "none" => said = 0

StageFacts ==
    /\ at \in Early => child = "none" /\ lines = <<>> /\ asked = NoFlaw
    /\ at \in Early \union Opening => turn = "none" /\ ~begun
    /\ at \in Early \union Opening \union {"turn/start"} => parts = <<>> /\ shown = <<>>
    /\ at \in Listening \union {"suspended"} => child \in {"alive", "gone"}
    /\ poised => at \in Listening
    /\ AttemptRuns => returned = NoResult
    /\ at \in Ending => child \in {"none", "closed"}
    /\ AttemptRuns /\ asked # NoFlaw => asked = at
    /\ asked = "turn/start" => turn = "none"
    /\ at \in {"run", "suspended"} => asked = NoFlaw /\ \A i \in DOMAIN lines : lines[i].kind # "answer"
    /\ at = "suspended" => turn = "suspended" /\ \A i \in DOMAIN lines : lines[i].kind # "delta" /\ ~HoldsTurn(lines[i])
    /\ at = "turn/interrupt" => cancelled \/ overdue \/ ~linkUp
    /\ (at \notin {"begin", "bind"} \union Ending) \/ begun => CallFlaw(adapterCall) = NoFlaw

HonestResult(r) ==
    /\ r.status = "completed" =>
          /\ turn = "completed" /\ r.content = [k \in 1 .. said |-> k]
          /\ adapterCall.stream => shown = r.content
    /\ r.note = "codex_process_lost" /\ begun => ~linkUp
    /\ r.status = "cancelled" => cancelled \/ overdue \/ turn = "interrupted" \/ ~linkUp

TurnIInv == TurnTypeOK /\ PipeFacts /\ TextFacts /\ StageFacts /\ HonestResult(returned)
=============================================================================
