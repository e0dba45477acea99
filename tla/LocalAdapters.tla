---------------------------- MODULE LocalAdapters ----------------------------
(***************************************************************************)
(* The other work of a device's adapters: the thread that executes an        *)
(* attempt (worker_client.py) with the ZCode plan run                        *)
(* (worker_zcode_adapter.py) or the loopback endpoint                        *)
(* (worker_local_adapters.py), and the reports of what the sources were      *)
(* seen to serve, which two threads of a session send.                       *)
(*                                                                         *)
(* An attempt is held in the variables of CodexTurn: its stage, call,        *)
(* result, child and output mean here what they mean there.                  *)
(***************************************************************************)
EXTENDS CodexTurn

CONSTANTS
    LocalCalls,       \* the calls for the two adapters
    PlanHosts,        \* the machines: ZCode's binary, version and doctor
    LoopbackReplies,  \* what the loopback endpoint may do
    SourceProbes,     \* what one discovery may come upon
    MaxReports        \* bound: discoveries of a behaviour

\* The calls are for the two adapters, and the absence of a status is no status.
ASSUME LocalAssumption ==
    /\ \A c \in LocalCalls : c.adapter \in {"plan", "loopback"}
    /\ \A r \in LoopbackReplies : r.deltas \in Nat
    /\ NoFlaw \notin {"unknown", "zero", "nonzero"}

VARIABLES
    told,        \* what the server gets to know of the attempt: "result", "interrupted"
    workspace,   \* the directory at the authorized path: "granted", "gone" or "other"
    exit,        \* the status the run exited with
    inventory, due,   \* the latest discovery, and whether the next one is due
    reporter,    \* per reporting thread: where it is, the snapshots it took, whether the other one ran meanwhile
    report       \* the last report sent

planVars == <<workspace, exit>>
reportVars == <<inventory, due, reporter, report>>
localVars == <<turnVars, told, planVars, reportVars>>

Reporters == {"main", "heartbeat"}
NoInventory == [nth |-> 0, state |-> NoFlaw, models |-> FALSE]

LocalInit ==
    /\ at = "task" /\ adapterCall \in LocalCalls /\ table = [configured |-> TRUE, entries |-> {}]
    /\ poised = FALSE /\ parts = <<>> /\ pages = 0 /\ rounds = 0 /\ strays = 0
    /\ begun = FALSE /\ shown = <<>> /\ returned = NoResult
    /\ child = "none" /\ turn = "none" /\ asked = NoFlaw /\ said = 0 /\ lines = <<>>
    /\ cancelled = FALSE /\ overdue = FALSE /\ linkUp = TRUE

ReportInit ==
    /\ told = {} /\ workspace = "granted" /\ exit = NoFlaw
    /\ inventory = NoInventory /\ due = TRUE
    /\ reporter = [r \in Reporters |-> [st |-> "idle", saw |-> NoInventory, alone |-> TRUE]]
    /\ report = [sent |-> FALSE, snapshots |-> NoInventory, inventory |-> NoInventory, alone |-> TRUE]

-----------------------------------------------------------------------------
(* The thread of an attempt.                                                *)

Untouched == UNCHANGED <<adapterCall, table, pages, rounds, asked, aroundVars, reportVars>>
TaskReturns(r) == at' = "result" /\ returned' = r /\ poised' = FALSE

\* A deadline that has passed sets the cancel event; one that cannot be read, or an adapter not on the list, is answered at once.
TakeTask ==
    /\ at = "task"
    /\ \/ adapterCall.deadline = "malformed" /\ TaskReturns(FailedWith("the execute deadline was malformed")) /\ UNCHANGED cancelled
       \/ adapterCall.deadline = "read" /\ ~adapterCall.allowed /\ TaskReturns(FailedWith("adapter_not_allowed")) /\ UNCHANGED cancelled
       \/ /\ adapterCall.deadline = "read" /\ adapterCall.allowed
          /\ at' = adapterCall.adapter /\ cancelled' = (cancelled \/ overdue) /\ UNCHANGED <<returned, poised>>
    /\ UNCHANGED <<adapterCall, table, parts, pages, rounds, strays, begun, shown, runtimeVars, overdue, linkUp, told, planVars, reportVars>>

\* The attempt has left the table; a result that cannot be written is reported interrupted by the next connection.
SendTaskResult ==
    /\ at = "result" /\ at' = "over"
    /\ \/ linkUp /\ told' = told \union {"result"}
       \/ ~linkUp /\ told' \in {told \union {"interrupted"}, told \union {"result"}}
    /\ Stays /\ Untouched /\ UNCHANGED <<poised, begun, returned, child, lines, planVars>>

\* A ConnectionError or OSError out of the adapter is taken for the loss of the connection; other exceptions end the thread.
TakenForLoss == at' = "over" /\ told' = told \union {"interrupted"} /\ UNCHANGED returned
ThreadDies == at' = "escaped" /\ UNCHANGED <<told, returned>>

\* The session ends with its connection: what is in its table is cancelled and remembered as interrupted.
SessionLost ==
    /\ AttemptRuns /\ linkUp /\ linkUp' = FALSE
    /\ IF at = "result" THEN UNCHANGED <<cancelled, told>> ELSE cancelled' = TRUE /\ told' = told \union {"interrupted"}
    /\ UNCHANGED <<attemptVars, runtimeVars, overdue, planVars, reportVars>>

-----------------------------------------------------------------------------
(* The ZCode plan run: one headless child, whose answer is the result line  *)
(* together with exit status 0.                                             *)

PromptFlaw(ms) == FirstFlaw(<<
    Check(ms = <<>>, "no_user_input"),
    Check(Len(ms) > 1, "conversation_shape_unsupported"),
    FirstFlaw([i \in DOMAIN ms |-> FirstFlaw(<<
        Check(ms[i].role = "tool" \/ ms[i].calls, "tool_messages_unsupported"),
        Check(ms[i].role # "user", "conversation_shape_unsupported"),
        Check(ms[i].empty, "empty_message_unsupported")>>)])>>)

PlanCallFlaw(c) == FirstFlaw(<<
    Check(c.tools # <<>>, "tool_calls_unsupported"),
    Check(c.limit, "output_limit_unenforceable"),
    Check(c.params, "request_parameters_unsupported"),
    Check(c.format \notin {NoFlaw, "text"}, "response_format_unsupported"),
    Check(c.effort # NoFlaw, "reasoning_effort_not_enforceable"),
    PromptFlaw(c.messages),
    Check(c.large, "prompt_too_large")>>)

WorkspaceFlaw == IF workspace = "gone" THEN "workspace_unavailable" ELSE Check(workspace # "granted", "workspace_invalid")
DoctorFlaw(doctor) == IF doctor = "failed" THEN "doctor_probe_failed" ELSE Check(doctor = "odd", "doctor_schema_changed")
PlanHostFlaw(h) == FirstFlaw(<<WorkspaceFlaw, h.binary, VersionFlaw(h.probe), DoctorFlaw(h.doctor)>>)

\* Cancellation, ownership, deadline, then what the one prompt cannot carry.
PlanCheck ==
    /\ at = "plan"
    /\ \/ cancelled /\ TaskReturns(CancelledResult)
       \/ ~cancelled /\ adapterCall.resource # "lane" /\ TaskReturns(FailedWith("resource_not_served"))
       \/ ~cancelled /\ adapterCall.resource = "lane" /\ overdue /\ TaskReturns(CancelledResult)
       \/ /\ ~cancelled /\ adapterCall.resource = "lane" /\ ~overdue
          /\ IF PlanCallFlaw(adapterCall) # NoFlaw THEN TaskReturns(FailedWith(PlanCallFlaw(adapterCall)))
             ELSE at' = "examine" /\ UNCHANGED <<returned, poised>>
    /\ Stays /\ Untouched /\ UNCHANGED <<begun, child, lines, told, planVars>>

PlanExamine ==
    /\ at = "examine"
    /\ \E h \in PlanHosts :
          IF PlanHostFlaw(h) # NoFlaw THEN TaskReturns(FailedWith(PlanHostFlaw(h))) ELSE at' = "spawn" /\ UNCHANGED <<returned, poised>>
    /\ Stays /\ Untouched /\ UNCHANGED <<begun, child, lines, told, planVars>>

\* The workspace is examined once more, after the probes.
PlanSpawn ==
    /\ at = "spawn"
    /\ \/ WorkspaceFlaw # NoFlaw /\ TaskReturns(FailedWith(WorkspaceFlaw)) /\ UNCHANGED <<begun, child>>
       \/ WorkspaceFlaw = NoFlaw /\ TaskReturns(FailedWith("zcode_process_lost")) /\ UNCHANGED <<begun, child>>
       \/ WorkspaceFlaw = NoFlaw /\ at' = "plan run" /\ begun' = TRUE /\ child' = "alive" /\ UNCHANGED <<returned, poised>>
    /\ Stays /\ Untouched /\ UNCHANGED <<lines, told, planVars>>

\* Every way out of the run stops the child and drops its output.
PlanEnds(r) == TaskReturns(r) /\ child' = "closed" /\ lines' = <<>>

PlanLook ==
    /\ at = "plan run" /\ ~poised
    /\ \/ (overdue \/ cancelled) /\ PlanEnds(CancelledResult)
       \/ ~overdue /\ ~cancelled /\ poised' = TRUE /\ UNCHANGED <<at, returned, child, lines>>
    /\ Stays /\ Untouched /\ UNCHANGED <<begun, told, planVars>>

PlanHearsNothing ==
    /\ at = "plan run" /\ poised /\ lines = <<>> /\ child = "alive"
    /\ poised' = FALSE
    /\ Stays /\ Untouched /\ UNCHANGED <<at, begun, returned, child, lines, told, planVars>>

\* Progress is skipped, unknown events are counted, the result line or the end of the output leads to the exit status.
PlanRead ==
    LET l == Head(lines) IN
    /\ at = "plan run" /\ poised
    /\ \/ /\ lines # <<>> /\ l.kind = "answer" /\ l.says = "sound"
          /\ at' = "plan exit" /\ parts' = <<1>> /\ lines' = Tail(lines) /\ poised' = FALSE /\ UNCHANGED <<strays, returned, child>>
       \/ lines # <<>> /\ l.kind = "answer" /\ l.says = "malformed" /\ PlanEnds(FailedWith("result_malformed")) /\ UNCHANGED <<parts, strays>>
       \/ lines # <<>> /\ l.kind = "garbage" /\ PlanEnds(FailedWith("protocol_malformed")) /\ UNCHANGED <<parts, strays>>
       \/ /\ lines # <<>> /\ l.kind = "stray" /\ strays < MaxStrayLines
          /\ strays' = strays + 1 /\ poised' = FALSE /\ lines' = Tail(lines) /\ UNCHANGED <<at, parts, returned, child>>
       \/ /\ lines # <<>> /\ l.kind = "stray" /\ strays >= MaxStrayLines
          /\ PlanEnds(FailedWith("unknown_event_budget_exceeded")) /\ UNCHANGED <<parts, strays>>
       \/ lines = <<>> /\ child = "gone" /\ at' = "plan exit" /\ poised' = FALSE /\ UNCHANGED <<parts, strays, lines, returned, child>>
    /\ Untouched /\ UNCHANGED <<rounds, shown, turn, said, begun, told, planVars>>

\* Mutant: the result line is enough.
ClassifiedByLine(status) ==
    IF cancelled THEN CancelledResult
    ELSE IF parts # <<>> THEN CompletedWith(parts)
    ELSE IF status = "nonzero" THEN FailedWith("zcode_run_failed") ELSE Ambiguous

\* The terminal contract: the result line and exit status 0, and no cancellation; what cannot be told is left unknown.
Classified(status) ==
    IF cancelled THEN CancelledResult
    ELSE IF parts # <<>> /\ status = "zero" THEN CompletedWith(parts)
    ELSE IF status = "nonzero" THEN FailedWith("zcode_run_failed") ELSE Ambiguous

PlanExit ==
    /\ at = "plan exit"
    /\ \/ exit # NoFlaw /\ PlanEnds(Classified(exit))
       \/ exit = NoFlaw /\ PlanEnds(Classified(NoFlaw))   \* the bounded wait has passed
    /\ Stays /\ Untouched /\ UNCHANGED <<begun, told, planVars>>

\* The child: it prints, and it ends or only closes its output.
RunPrints ==
    /\ at = "plan run" /\ child = "alive" /\ PipeHasRoom
    /\ \E l \in {[kind |-> k, says |-> NoFlaw] : k \in {"stray", "garbage"}} \union {[kind |-> "answer", says |-> v] : v \in {"sound", "malformed"}} :
          /\ Writes(l)
          /\ turn' = IF l.kind = "answer" /\ turn = "none" THEN l.says ELSE turn
    /\ UNCHANGED <<attemptVars, child, asked, said, aroundVars, told, planVars, reportVars>>

RunEnds ==
    /\ at \in {"plan run", "plan exit"} /\ child = "alive"
    /\ child' = "gone" /\ exit' \in {"zero", "nonzero", NoFlaw}
    /\ UNCHANGED <<attemptVars, turn, asked, said, lines, aroundVars, told, workspace, reportVars>>

WorkspaceMoves ==
    /\ at \in {"plan", "examine", "spawn"} /\ workspace = "granted"
    /\ workspace' \in {"gone", "other"}
    /\ UNCHANGED <<turnVars, told, exit, reportVars>>

-----------------------------------------------------------------------------
(* The loopback endpoint, whose whole answer is read before any of it is    *)
(* passed on.                                                               *)

LoopbackCall ==
    /\ at = "loopback"
    /\ \E r \in LoopbackReplies :
          \/ r.how = "refused" /\ TakenForLoss /\ UNCHANGED <<lines, said, turn>>
          \/ r.how = "broken" /\ ThreadDies /\ UNCHANGED <<lines, said, turn>>
          \/ r.how \in {"other status", "malformed"} /\ TaskReturns(FailedWith("internal_error")) /\ UNCHANGED <<told, lines, said, turn>>
          \/ /\ r.how = "answer"
             /\ said' = r.deltas /\ turn' = IF r.finish THEN "completed" ELSE "odd"
             /\ IF adapterCall.stream
                THEN at' = "feeding" /\ lines' = [k \in 1 .. r.deltas |-> [kind |-> "delta", nth |-> k]] /\ UNCHANGED <<returned, told>>
                ELSE /\ TaskReturns(IF r.finish THEN CompletedWith([k \in 1 .. r.deltas |-> k]) ELSE FailedWith("internal_error"))
                     /\ UNCHANGED <<lines, told>>
    /\ UNCHANGED <<parts, strays, shown, poised, begun, child, planVars>> /\ Untouched

\* Line by line, looking at the cancel event before each; an emitter that raises ends the attempt as interrupted.
FeedLines ==
    /\ at = "feeding"
    /\ \/ cancelled /\ TaskReturns(CancelledResult) /\ lines' = <<>> /\ UNCHANGED <<parts, shown, told>>
       \/ /\ ~cancelled /\ lines # <<>>
          /\ parts' = Append(parts, Head(lines).nth) /\ shown' = Append(shown, Head(lines).nth)
          /\ lines' = Tail(lines) /\ UNCHANGED <<at, returned, poised, told>>
       \/ ~linkUp /\ TakenForLoss /\ lines' = <<>> /\ UNCHANGED <<parts, shown, poised>>
       \/ /\ ~cancelled /\ lines = <<>>
          /\ TaskReturns(IF turn = "completed" THEN CompletedWith(parts) ELSE FailedWith("internal_error"))
          /\ UNCHANGED <<lines, parts, shown, told>>
    /\ UNCHANGED <<strays, begun, child, said, turn, planVars>> /\ Untouched

PlanRun == PlanCheck \/ PlanExamine \/ PlanSpawn \/ PlanLook \/ PlanHearsNothing \/ PlanRead \/ PlanExit \/ RunPrints \/ RunEnds \/ WorkspaceMoves
LocalCancel == (Cancel \/ DeadlinePasses) /\ UNCHANGED <<told, planVars, reportVars>>
LocalNext == TakeTask \/ SendTaskResult \/ SessionLost \/ PlanRun \/ LoopbackCall \/ FeedLines \/ LocalCancel

-----------------------------------------------------------------------------
(* What a source was seen to serve.  A discovery is one probe of the host   *)
(* and of a session; both reporting threads of a session make the ones that *)
(* are due, then take the snapshots, then the inventory, and send both.     *)

Lacking == {"auth_missing", "auth_payg_unsupported"}
Discovered(p, n) ==
    [nth |-> n,
     state |-> IF HostFlaw(p.host) # NoFlaw \/ p.session = "lost" THEN "unavailable"
               ELSE IF p.session \in Lacking THEN "auth_required"
               ELSE IF p.session \in {"listed", "too many pages"} THEN "authenticated" ELSE "unverified",
     models |-> HostFlaw(p.host) = NoFlaw /\ p.session = "listed"]

Moves(r, st) == [reporter EXCEPT ![r].st = st]
Steady == UNCHANGED <<turnVars, told, planVars>>

\* main reports once, when its session starts; the heartbeat thread again and again.
BeginReport(r) ==
    /\ reporter[r].st = "idle"
    /\ \E other \in Reporters \ {r} :
          LET alone == reporter[other].st \in {"idle", "done"} IN
          reporter' = [q \in Reporters |->
              IF q = r THEN [st |-> IF due THEN "observe" ELSE "snapshot", saw |-> NoInventory, alone |-> alone]
              ELSE [reporter[q] EXCEPT !.alone = FALSE]]
    /\ Steady /\ UNCHANGED <<inventory, due, report>>

\* A failed observation is an inventory of its own; an error answer to model/list is raised through the report.
Observe(r) ==
    /\ reporter[r].st = "observe" /\ inventory.nth < MaxReports
    /\ \E p \in SourceProbes :
          IF HostFlaw(p.host) = NoFlaw /\ p.session = "list refused"
          THEN reporter' = Moves(r, "done") /\ UNCHANGED <<inventory, due>>
          ELSE inventory' = Discovered(p, inventory.nth + 1) /\ due' = FALSE /\ reporter' = Moves(r, "snapshot")
    /\ Steady /\ UNCHANGED report

TakeSnapshots(r) ==
    /\ reporter[r].st = "snapshot"
    /\ reporter' = [reporter EXCEPT ![r].st = "collect", ![r].saw = inventory]
    /\ Steady /\ UNCHANGED <<inventory, due, report>>

SendReport(r) ==
    /\ reporter[r].st = "collect"
    /\ report' = [sent |-> TRUE, snapshots |-> reporter[r].saw, inventory |-> inventory, alone |-> reporter[r].alone]
    /\ reporter' = Moves(r, IF r = "main" THEN "done" ELSE "idle")
    /\ Steady /\ UNCHANGED <<inventory, due>>

\* The observation grows old (inventory_if_due).
GrowsOld == ~due /\ due' = TRUE /\ Steady /\ UNCHANGED <<inventory, reporter, report>>

ReportNext == GrowsOld \/ \E r \in Reporters : BeginReport(r) \/ Observe(r) \/ TakeSnapshots(r) \/ SendReport(r)

-----------------------------------------------------------------------------
(* Where either adapter and the reports can be held to what they say: a     *)
(* plan run is completed only by its result line with exit status 0, a      *)
(* streamed answer is whole and has been passed on, an outcome called       *)
(* unknown is one that began and did not fail; every attempt whose thread   *)
(* goes on is told of; a session that reports on its own reports what one   *)
(* discovery saw, and a model is only ever listed by an authenticated one.  *)
TasksAreHonest ==
    /\ returned.status = "completed" =>
          /\ adapterCall.adapter = "plan" => exit = "zero" /\ turn = "sound"
          /\ adapterCall.adapter = "loopback" => turn = "completed" /\ returned.content = [k \in 1 .. said |-> k]
          /\ adapterCall.adapter = "loopback" /\ adapterCall.stream => shown = returned.content
    /\ adapterCall.adapter = "plan" =>
          /\ returned.observed = "unknown" => begun /\ exit # "nonzero"
          /\ begun => PlanCallFlaw(adapterCall) = NoFlaw
          /\ returned # NoResult => child \in {"none", "closed"}
    /\ returned.status = "cancelled" => cancelled \/ overdue \/ turn = "interrupted" \/ ~linkUp
    /\ at = "over" /\ adapterCall.adapter # "codex" => told # {}
ReportsAreHonest ==
    /\ report.alone => report.snapshots = report.inventory
    /\ report.inventory.models => report.inventory.state = "authenticated"
LocalWorkIsHonest == TasksAreHonest /\ ReportsAreHonest

-----------------------------------------------------------------------------
(* The inductive invariant of an attempt's thread and of the reports.       *)

LocalSpec == LocalInit /\ ReportInit /\ [][LocalNext \/ ReportNext]_localVars

BeforeRun == {"plan", "examine", "spawn"}
PlanStages == BeforeRun \union {"plan run", "plan exit"}
LoopbackStages == {"loopback", "feeding"}
RunLine == [kind : {"stray", "garbage", "answer"}, says : {NoFlaw, "sound", "malformed"}]

TaskFacts ==
    /\ adapterCall \in LocalCalls
    /\ at \in {"task", "result"} \union PlanStages \union LoopbackStages \union Ending
    /\ at \in PlanStages => adapterCall.adapter = "plan"
    /\ at \in LoopbackStages => adapterCall.adapter = "loopback"
    /\ at \notin {"result"} \union Ending => returned = NoResult
    /\ at = "over" => told # {}
    /\ cancelled \in BOOLEAN /\ overdue \in BOOLEAN /\ linkUp \in BOOLEAN
    /\ returned.status = "cancelled" => cancelled \/ overdue

\* Nothing runs before the checks are passed; the run's first answer, read or under way, is the one its turn gave.
PlanFacts == adapterCall.adapter = "plan" =>
    /\ at \in {"task"} \union BeforeRun => child = "none" /\ lines = <<>> /\ turn = "none" /\ ~begun
    /\ at \in {"task", "plan run"} \union BeforeRun => parts = <<>>
    /\ at \in PlanStages \ {"plan"} \/ begun => PlanCallFlaw(adapterCall) = NoFlaw
    /\ at \in {"plan run", "plan exit"} => begun
    /\ lines \in Seq(RunLine)
    /\ at = "plan run" =>
          /\ turn = "none" <=> \A i \in DOMAIN lines : lines[i].kind # "answer"
          /\ \A i \in DOMAIN lines : lines[i].kind = "answer" /\ (\A j \in 1 .. i - 1 : lines[j].kind # "answer") => lines[i].says = turn
    /\ at = "plan exit" /\ parts # <<>> => turn = "sound"

\* What was passed on and what is still to be passed on are the deltas of the answer.
LoopbackFacts == adapterCall.adapter = "loopback" =>
    /\ at \in {"task", "loopback"} => parts = <<>> /\ shown = <<>> /\ lines = <<>>
    /\ at = "feeding" =>
          /\ said \in Nat /\ parts \in Seq(Nat) /\ parts = [k \in 1 .. Len(parts) |-> k] /\ shown = parts
          /\ lines \in Seq([kind : {"delta"}, nth : Nat]) /\ Len(parts) + Len(lines) = said
          /\ \A i \in DOMAIN lines : lines[i].nth = Len(parts) + i

Reporting == {"observe", "snapshot", "collect"}
Inventories == [nth : Nat, state : {NoFlaw, "unavailable", "auth_required", "authenticated", "unverified"}, models : BOOLEAN]

\* Who has been alone since his report began still is, and what he took is the latest discovery.
ReportFacts ==
    /\ inventory \in Inventories
    /\ reporter \in [Reporters -> [st : {"idle", "done"} \union Reporting, saw : Inventories, alone : BOOLEAN]]
    /\ inventory.models => inventory.state = "authenticated"
    /\ \A r \in Reporters : reporter[r].alone /\ reporter[r].st \in Reporting =>
          /\ \A other \in Reporters \ {r} : reporter[other].st \notin Reporting
          /\ reporter[r].st = "collect" => reporter[r].saw = inventory

WorkIInv == TaskFacts /\ PlanFacts /\ LoopbackFacts /\ TasksAreHonest
ReportIInv == ReportFacts /\ ReportsAreHonest

\* docs/worker-protocol.md: attempt_interrupted is sent "for every attempt that was in flight (or whose result could not
\* be delivered) when the connection died".
InterruptedIsLost == "interrupted" \in told => ~linkUp
=============================================================================
