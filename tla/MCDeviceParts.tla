-------------------------- MODULE MCDeviceParts --------------------------
(* Small instances of the parts of a device. *)
EXTENDS DeviceParts

(* The device's store: an origin with TLS, a loopback one without, one that is refused; good, oversized, keyed and linked CA files. *)
MCOrigins == {[name |-> "o1", tls |-> TRUE, loopback |-> FALSE], [name |-> "o2", tls |-> FALSE, loopback |-> TRUE],
              [name |-> "o3", tls |-> FALSE, loopback |-> FALSE]}
MCMaterials == {[content |-> "certificates", bounded |-> TRUE, regular |-> TRUE], [content |-> "key", bounded |-> TRUE, regular |-> TRUE],
                [content |-> "certificates", bounded |-> FALSE, regular |-> TRUE]}
MCLockPaths == {[windows |-> FALSE, place |-> "dedicated", entry |-> "absent"], [windows |-> FALSE, place |-> "dedicated", entry |-> "link"],
                [windows |-> TRUE, place |-> "shared", entry |-> "absent"]}

(* The wire. *)
MCOffers == {{1}, {2, 3}, {3}, {4, 5}, {7}}
WireMessage(reasoning) == [name |-> Absent, content |-> 1, reasoning |-> reasoning, role |-> "assistant", calls |-> <<>>, tool_call_id |-> Absent]
MCForeign == {
    [shape |-> "exact", type |-> "heartbeat"], [shape |-> "other", type |-> "heartbeat"], [shape |-> "exact", type |-> "news"],
    [shape |-> "exact", type |-> "attempt_interrupted"],
    [shape |-> "exact", type |-> "hello", label |-> Absent, versions |-> {4}, worker |-> "w"],
    [shape |-> "exact", type |-> "state_report", inventories |-> 9],
    [name |-> 1, content |-> Absent, shape |-> "exact", type |-> "execute_tool_call", arguments |-> 1, call |-> 1],
    [shape |-> "exact", type |-> "execute_chunk", chunk |-> [tool_call |-> Absent, finish |-> Absent, kind |-> "text_delta", text |-> 0, usage |-> Absent]],
    [calls |-> <<>>, shape |-> "exact", type |-> "execute_result", finish |-> "stop", message |-> WireMessage(1), note |-> Absent, status |-> "completed"],
    [calls |-> <<>>, shape |-> "exact", type |-> "execute_result", finish |-> "stop", message |-> WireMessage(Absent), note |-> 2, status |-> "completed"]}

(* The adapters of a device: what they are asked, the machines, what they come upon. *)
Speech(role) == [role |-> role, empty |-> FALSE, calls |-> FALSE]
Declares(name) == [shape |-> "function", name |-> name, schema |-> "plain"]
B0 == [adapter |-> "codex", resource |-> "r", model |-> "m", variant |-> "low", effort |-> NoFlaw, stream |-> TRUE, tools |-> <<>>, choice |-> NoFlaw,
       bridge |-> TRUE, limit |-> FALSE, params |-> FALSE, messages |-> <<Speech("user")>>, format |-> "text"]
OddConversations == {<<>>, <<Speech("tool")>>, <<[Speech("user") EXCEPT !.empty = TRUE]>>, <<Speech("critic")>>, <<Speech("assistant")>>}
MCCodexCalls ==
    {B0, [B0 EXCEPT !.tools = <<Declares("f")>>],
     [B0 EXCEPT !.resource = "fixed", !.stream = FALSE, !.effort = "low",
                !.messages = <<Speech("system"), Speech("user"), Speech("assistant"), Speech("user")>>]}
    \union {[B0 EXCEPT !.messages = ms] : ms \in OddConversations}
    \union {[B0 EXCEPT !.model = "n"], [B0 EXCEPT !.variant = "high"], [B0 EXCEPT !.effort = "high"], [B0 EXCEPT !.limit = TRUE], [B0 EXCEPT !.params = TRUE]}
    \union {[B0 EXCEPT !.format = f] : f \in {"json_object", "other", "no schema", "large schema", "deep schema"}}
    \union {[B0 EXCEPT !.tools = ts] : ts \in {<<Declares("f"), Declares("f")>>, <<Declares("f"), Declares("g"), Declares("h")>>,
                <<[Declares("f") EXCEPT !.shape = "strict"]>>, <<[Declares("f") EXCEPT !.schema = "large"]>>, <<[Declares("f") EXCEPT !.schema = "deep"]>>}}
    \union {[B0 EXCEPT !.tools = <<Declares("f")>>, !.bridge = FALSE], [B0 EXCEPT !.tools = <<Declares("f")>>, !.choice = "required"]}
Serves(configured, entries) == [configured |-> configured, entries |-> entries]
MCCodexTables == {Serves(FALSE, {}), Serves(FALSE, {[resource |-> "r", model |-> "m", variant |-> "low"]}),
                  Serves(TRUE, {[resource |-> "fixed", model |-> "m", variant |-> NoFlaw]})}
H1 == [binary |-> TRUE, probe |-> "ok", platform |-> "linux", wsl1 |-> FALSE, bwrap |-> TRUE, home |-> TRUE]
MCCodexHosts == {H1, [H1 EXCEPT !.binary = FALSE], [H1 EXCEPT !.probe = "failed"], [H1 EXCEPT !.probe = "unparseable"], [H1 EXCEPT !.probe = "old"],
                 [H1 EXCEPT !.platform = "darwin"], [H1 EXCEPT !.wsl1 = TRUE], [H1 EXCEPT !.bwrap = FALSE], [H1 EXCEPT !.home = FALSE]}
L0 == [adapter |-> "plan", allowed |-> TRUE, deadline |-> "read", resource |-> "lane", effort |-> NoFlaw, stream |-> TRUE, tools |-> <<>>,
       limit |-> FALSE, params |-> FALSE, messages |-> <<Speech("user")>>, format |-> "text", large |-> FALSE]
MCLocalCalls ==
    {L0, [L0 EXCEPT !.adapter = "loopback"], [L0 EXCEPT !.adapter = "loopback", !.stream = FALSE], [L0 EXCEPT !.allowed = FALSE],
     [L0 EXCEPT !.deadline = "malformed"], [L0 EXCEPT !.resource = "r"], [L0 EXCEPT !.tools = <<Declares("f")>>], [L0 EXCEPT !.limit = TRUE],
     [L0 EXCEPT !.params = TRUE], [L0 EXCEPT !.format = "json_object"], [L0 EXCEPT !.effort = "low"], [L0 EXCEPT !.large = TRUE],
     [L0 EXCEPT !.messages = <<Speech("user"), Speech("user")>>]}
    \union {[L0 EXCEPT !.messages = ms] : ms \in OddConversations}
P1 == [binary |-> NoFlaw, probe |-> "ok", doctor |-> "ok"]
MCPlanHosts == {P1, [P1 EXCEPT !.binary = "source_unavailable"], [P1 EXCEPT !.probe = "old"], [P1 EXCEPT !.doctor = "failed"], [P1 EXCEPT !.doctor = "odd"]}
Reply(how, deltas, finish) == [how |-> how, deltas |-> deltas, finish |-> finish]
MCLoopbackReplies == {Reply(h, 0, FALSE) : h \in {"refused", "broken", "other status", "malformed"}} \union {Reply("answer", 2, TRUE), Reply("answer", 1, FALSE)}
MCSourceProbes == {[host |-> H1, session |-> s] : s \in {"lost", "drift", "auth_missing", "listed", "too many pages", "list refused"}}
    \union {[host |-> [H1 EXCEPT !.bwrap = FALSE], session |-> "listed"]}
===========================================================================
