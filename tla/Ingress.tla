------------------------------- MODULE Ingress -------------------------------
(***************************************************************************)
(* One client connection of the gateway (gateway_server.py): a request is      *)
(* dispatched, read, parsed and executed by the thread of the connection, and   *)
(* answered whole or as a stream.  The execution is the coordinator's (another   *)
(* module): here it emits chunks and ends with an outcome or an error.  The       *)
(* client may leave at any time, and a write may be the one that finds out.        *)
(***************************************************************************)
EXTENDS ResponseStream

CONSTANTS
    Envelopes,  \* request lines and headers, with what the socket holds
    ChatDrafts, ResponsesDrafts,
    Sayings,   \* what chunks and outcomes may say
    MaxChunks

VARIABLES
    conn,     \* the connection: "open" or "closed"
    unread,   \* whether bytes of an answered request's body are still on it
    serving,    \* "idle", "read", "executing" or "answered"
    envelope, \* of the request in hand
    request,  \* its canonical form, once accepted
    gone,     \* whether the client has left
    opened,   \* whether the stream's head is committed
    rs,       \* the state of a Responses stream
    tools,    \* the tool calls that a chat stream has sent
    observed, \* the chunks that the execution emitted
    ending,    \* how the execution ended: "completed", "failed", "rejected", "left" or Absent
    outcome,  \* with which outcome
    sent      \* what the client was sent for the request in hand

ingressVars == <<conn, unread, serving, envelope, request, gone, opened, rs, tools, observed, ending, outcome, sent>>

-----------------------------------------------------------------------------
(* The line and the headers, in the order of the dispatch. *)

\* A host header identifies the listener; a listener that is not on loopback takes any single one.
HostAccepted(e) == e.hosts = 1 /\ (e.loopback => e.host = "listener")
Authenticated(e) == e.keys = 1 /\ e.key = "known"
\* The control plane's own paths come before the key of an inference client, and it reads their bodies itself.
ControlOwned(e) == e.control /\ e.path = "control"
JsonTyped(e) == e.type = "json"
LengthStated(e) == ~e.chunked /\ e.lengths = 1 /\ e.length # Other
CarriesCredential(e) == e.body = "credential"
ReadsBody(e) == e.method = "POST" /\ e.path \in {"chat", "responses", "route"}

Routed(e) ==
    CASE e.method = "GET" /\ e.path = "models" -> "models"
      [] ReadsBody(e) -> e.path
      [] e.method \in {"GET", "POST", "HEAD"} -> "nowhere"
      [] OTHER -> "no method"

\* The body of the request is taken off the connection: all of it, or of one that is too large at most MaxDrain.
MaxDrain == 3
BodyMax == 2
Left(e) ==
    CASE ~JsonTyped(e) \/ ~LengthStated(e) -> e.length # 0
      [] e.length > BodyMax -> e.length > MaxDrain
      [] OTHER -> FALSE
BodyVerdict(e) ==
    CASE ~JsonTyped(e) \/ ~LengthStated(e) -> 400
      [] e.length > BodyMax -> 413
      [] e.arrived < e.length \/ e.body \in {"no utf-8", "no json", "no object"} -> 400
      [] OTHER -> 200

Draft(e) == IF e.path = "responses" THEN ResponsesDrafts ELSE ChatDrafts
Parsed(e, d) == IF e.path = "responses" THEN ResponsesVerdict(d) ELSE ChatVerdict(d)
Canon(e, d) == IF e.path = "responses" THEN ResponsesRequest(d) ELSE ChatRequest(d)

-----------------------------------------------------------------------------
(* Answers. *)

\* Frames go out one by one; the write that fails is the first after the client left.
Write(frames) ==
    \E k \in 0..Len(frames) :
        /\ gone => k = 0
        /\ sent' = sent \o SubSeq(frames, 1, k)
        /\ gone' = (gone \/ k < Len(frames))
WroteAll(frames) == Len(sent') = Len(sent) + Len(frames)
Json(status) == <<[e |-> "json", n |-> status, i |-> 0, x |-> <<>>]>>

\* A failed write of an error closes the connection; after a Responses request an error always does.
SendError(status) ==
    /\ Write(Json(status))
    /\ conn' = IF ~WroteAll(Json(status)) \/ envelope'.path = "responses" THEN "closed" ELSE conn

NothingRuns == UNCHANGED <<request, opened, rs, tools, observed, ending, outcome>>

\* The request is refused or answered without an execution.
Answered(status, leaves) ==
    /\ serving' = "answered" /\ unread' = leaves
    /\ SendError(status) /\ NothingRuns

\* Whatever _read_json_object refuses closes the connection.
RefusesBody(e) ==
    /\ serving' = "answered" /\ unread' = Left(e)
    /\ Write(Json(BodyVerdict(e))) /\ conn' = "closed" /\ NothingRuns

\* The reading route parses the document; the admission is refreshed by the control plane before an execution.
Parses(e) ==
    \E d \in Draft(e) :
        LET verdict == Parsed(e, d) IN
        CASE verdict = "broken" -> Answered(500, FALSE)
          [] verdict = "invalid" -> Answered(400, FALSE)
          [] OTHER ->
                /\ serving' = "read" /\ unread' = FALSE /\ request' = [draft |-> d] @@ Canon(e, d)
                /\ UNCHANGED <<conn, gone, sent, opened, rs, tools, observed, ending, outcome>>

Receive ==
    /\ serving = "idle" /\ conn = "open" /\ ~gone
    /\ \E e \in Envelopes :
        /\ envelope' = e
        /\ CASE ~HostAccepted(e) -> Answered(400, e.length # 0)
             [] HostAccepted(e) /\ ControlOwned(e) -> IF e.loop THEN Answered(400, e.length # 0) ELSE Answered(200, FALSE)
             [] HostAccepted(e) /\ ~ControlOwned(e) /\ ~Authenticated(e) -> Answered(401, e.length # 0)
             [] HostAccepted(e) /\ ~ControlOwned(e) /\ Authenticated(e) /\ e.loop -> Answered(400, e.length # 0)
             [] OTHER ->
                  CASE Routed(e) = "models" -> Answered(200, e.length # 0)
                    [] Routed(e) = "nowhere" -> Answered(404, e.length # 0)
                    [] Routed(e) = "no method" -> Answered(405, e.length # 0)
                    [] OTHER ->
                         IF BodyVerdict(e) # 200 THEN RefusesBody(e)
                         ELSE IF e.path \in {"responses", "route"} /\ CarriesCredential(e) THEN Answered(400, FALSE)
                         ELSE IF e.path = "route" THEN Answered(200, FALSE)
                         ELSE Parses(e)

\* The draft is done with; the execution keeps what its answer is made of.
StartExecution ==
    /\ serving = "read" /\ serving' = "executing"
    /\ request' = [stream |-> request.stream, include_usage |-> request.include_usage, tools |-> request.tools, choice |-> request.choice,
                   forced |-> request.forced, parallel |-> request.parallel]
    /\ UNCHANGED <<conn, unread, envelope, gone, opened, rs, tools, observed, ending, outcome, sent>>

-----------------------------------------------------------------------------
(* The stream. *)

Responses == envelope.path = "responses"
StreamHead == IF opened THEN <<>> ELSE IF Responses THEN <<Frame("head", <<>>)>> ELSE ChatHead

\* A chat stream is committed before its head is written, a Responses stream after; neither connection is used again.
Send(frames) ==
    LET all == IF frames = <<>> THEN <<>> ELSE StreamHead \o frames IN
    /\ Write(all)
    /\ opened' = (opened \/ (frames # <<>> /\ (~Responses \/ Len(sent') > Len(sent))))
    /\ conn' = IF opened' \/ gone' THEN "closed" ELSE conn

\* state.emit: a client that is seen to have left ends the execution, as does a chunk that the surface cannot represent.
Emit ==
    /\ serving = "executing" /\ request.stream /\ ending = Absent /\ Len(observed) < MaxChunks
    /\ \E chunk \in Sayings.chunks :
        /\ observed' = Append(observed, chunk)
        /\ IF gone THEN ending' = "left" /\ UNCHANGED <<conn, gone, opened, rs, tools, sent>>
           ELSE IF Responses
           THEN LET p == Push(rs, request, chunk) IN
                /\ rs' = p.rs /\ UNCHANGED tools
                /\ Send(p.events)
                /\ ending' = IF ~p.ok THEN "rejected" ELSE IF gone' THEN "left" ELSE Absent
           ELSE IF chunk.kind = "usage" /\ ~request.include_usage
           THEN UNCHANGED <<conn, gone, opened, rs, tools, sent, ending>>
           ELSE /\ Send(<<ChatChunk(chunk, tools)>>)
                /\ tools' = IF chunk.kind = "tool_call" THEN tools + 1 ELSE tools
                /\ ending' = (IF gone' THEN "left" ELSE Absent) /\ UNCHANGED rs
    /\ UNCHANGED <<unread, serving, envelope, request, outcome>>

\* The execution ends.
Complete ==
    /\ serving = "executing" /\ ending = Absent
    /\ ending' = "completed" /\ outcome' \in Sayings.outcomes
    /\ UNCHANGED <<conn, unread, serving, envelope, request, gone, opened, rs, tools, observed, sent>>
Fail ==
    /\ serving = "executing" /\ ending = Absent /\ ending' = "failed"
    /\ UNCHANGED <<conn, unread, serving, envelope, request, gone, opened, rs, tools, observed, outcome, sent>>

Settled(how) == serving = "executing" /\ ending = how /\ serving' = "answered" /\ UNCHANGED <<unread, envelope, request, tools, observed, outcome>>

\* _send_gateway_error within a chat stream: an error frame and the end.  Within a Responses stream it is that stream's error event.
ChatErrorFrames == <<Frame("error", <<>>), Frame("done", <<>>)>>

\* The outcome of a stream: what is missing, or all of it.
FinishStream ==
    /\ Settled("completed") /\ request.stream
    /\ IF Responses
       THEN LET p == Finish(rs, request, outcome)
                failed == FailEvents([p EXCEPT !.ok = TRUE], "unsupported_response")
            IN IF p.ok THEN rs' = p.rs /\ Send(p.events) /\ UNCHANGED ending
               ELSE /\ IF opened THEN rs' = failed.rs /\ Write(failed.events) ELSE rs' = p.rs /\ Write(Json(502))
                    /\ opened' = opened /\ conn' = "closed" /\ ending' = "rejected"
       ELSE /\ Send(IF opened THEN <<Frame("done", <<>>)>> ELSE SubSeq(Synthesized(request, outcome), 3, Len(Synthesized(request, outcome))))
            /\ UNCHANGED <<rs, ending>>

FinishWhole ==
    /\ Settled("completed") /\ ~request.stream
    /\ IF Responses /\ ~(PayloadAccepted(request, outcome) /\ AnswerSize(outcome) <= TextMax)
       THEN Write(Json(502)) /\ conn' = "closed" /\ ending' = "rejected"
       ELSE Write(Json(200)) /\ conn' = (IF gone' THEN "closed" ELSE conn) /\ UNCHANGED ending
    /\ UNCHANGED <<opened, rs>>

\* Whether a failure has to be told within a stream.
Unopened == FALSE
InStream == opened /\ request.stream

\* A failed execution: the state's finish runs first (a chat stream that was opened is ended there), then the error is sent.
FinishFailed ==
    /\ Settled("failed")
    /\ UNCHANGED <<opened, ending>>
    /\ IF InStream
       THEN /\ conn' = "closed"
            /\ IF Responses
               THEN LET failed == FailEvents(Progress(rs), "gateway_error") IN rs' = failed.rs /\ Write(failed.events)
               ELSE Write(<<Frame("done", <<>>)>> \o ChatErrorFrames) /\ UNCHANGED rs
       ELSE SendError(500) /\ UNCHANGED rs

\* A chunk was rejected: the error takes the stream's form when it is open, and an answer's otherwise.
FinishRejected ==
    /\ Settled("rejected")
    /\ LET failed == FailEvents(Progress(rs), "unsupported_response")
       IN IF opened THEN rs' = failed.rs /\ Write(failed.events) ELSE Write(Json(502)) /\ UNCHANGED rs
    /\ conn' = "closed" /\ UNCHANGED <<opened, ending>>

\* The client left: the end of a chat stream is written to nobody, and the connection is closed.
FinishLeft ==
    /\ Settled("left") /\ conn' = "closed"
    /\ UNCHANGED <<gone, opened, rs, ending, sent>>

ClientLeaves ==
    /\ ~gone /\ serving \in {"read", "executing"} /\ gone' = TRUE
    /\ UNCHANGED <<conn, unread, serving, envelope, request, opened, rs, tools, observed, ending, outcome, sent>>

-----------------------------------------------------------------------------
IngressInit ==
    /\ conn = "open" /\ unread = FALSE /\ serving = "idle"
    /\ envelope = Absent /\ request = Absent
    /\ gone = FALSE /\ opened = FALSE
    /\ rs = NoStream /\ tools = 0 /\ observed = <<>> /\ ending = Absent /\ outcome = Absent
    /\ sent = <<>>

\* A connection that was left open takes another request.
NextRequest ==
    /\ serving = "answered" /\ conn = "open" /\ ~gone
    /\ serving' = "idle"
    /\ envelope' = Absent /\ request' = Absent /\ opened' = FALSE /\ rs' = NoStream
    /\ tools' = 0 /\ observed' = <<>> /\ ending' = Absent /\ outcome' = Absent /\ sent' = <<>>
    /\ UNCHANGED <<conn, unread, gone>>

IngressNext ==
    \/ Receive \/ StartExecution \/ Emit \/ Complete \/ Fail
    \/ FinishStream \/ FinishWhole \/ FinishFailed \/ FinishRejected \/ FinishLeft
    \/ ClientLeaves \/ NextRequest

-----------------------------------------------------------------------------
(* Properties. *)

Count(kind) == Len(SelectSeq(sent, LAMBDA f : f.e = kind))
Streamed == serving = "answered" /\ request # Absent /\ request.stream
SaidOf(i) == FoldLeft(LAMBDA text, f : IF f.e = "delta" /\ f.i = i THEN text \o f.x ELSE text, <<>>, sent)

\* A request is answered once: whole or as a stream, never a stream that is followed by a status, and never not at all.
AnsweredOnce ==
    /\ Count("json") + Count("head") <= 1
    /\ serving = "answered" /\ ~gone => Count("json") + Count("head") = 1

\* Of a chat stream whose execution completed: the role first, the end once and last, the calls numbered from zero.
ChatStreamIsWhole ==
    Streamed /\ ~Responses /\ ending = "completed" /\ ~gone =>
        LET calls == SelectSeq(sent, LAMBDA f : f.e = "tool_call")
        IN /\ SubSeq(sent, 1, 2) = ChatHead
           /\ Count("done") = 1 /\ Last(sent).e = "done"
           /\ \A i \in DOMAIN calls : calls[i].x = <<i - 1>>

\* The events of a Responses stream are numbered upwards; an item is added before anything is said of it, nothing is said of it once it is
\* done, and the terminal event is one and the last.
EventsAreOrdered ==
    request # Absent /\ Responses /\ opened =>
        \A a, b \in DOMAIN sent : a < b =>
            /\ a > 1 => sent[a].n < sent[b].n
            /\ sent[a].e \notin {"completed", "incomplete", "error"}
            /\ sent[b].i # 0 => \E c \in 1..b : sent[c].e = "item.added" /\ sent[c].i = sent[b].i
            /\ sent[a].e = "item.done" => sent[a].i # sent[b].i

\* A Responses stream that completes has said what the outcome says, item by item, and finished every item it added.
StreamTellsTheOutcome ==
    Streamed /\ Responses /\ ending = "completed" /\ ~gone =>
        /\ \A a \in DOMAIN sent : sent[a].e = "item.done" => sent[a].x = SaidOf(sent[a].i)
        /\ Count("item.done") = Count("item.added")
        /\ outcome.content # Absent => TextOf(rs, "text") = outcome.content
        /\ outcome.reasoning # Absent => TextOf(rs, "reasoning") = outcome.reasoning
        /\ [i \in DOMAIN rs.tools |-> rs.tools[i].id] = [i \in DOMAIN outcome.calls |-> outcome.calls[i].id]

\* In the history of an accepted Responses request every result answers one earlier call, and every call has its one result.
HistoryIsClosed ==
    serving = "read" /\ Responses =>
        LET ms == request.messages
            Calls == {<<i, j>> \in (DOMAIN ms) \X (1..MaxMessages) : j \in DOMAIN ms[i].calls}
            Answers(c) == {k \in DOMAIN ms : ms[k].role = "tool" /\ ms[k].answers = ms[c[1]].calls[c[2]].who}
        IN /\ \A c \in Calls : Cardinality(Answers(c)) = 1 /\ \A k \in Answers(c) : k > c[1]
           /\ Cardinality({k \in DOMAIN ms : ms[k].role = "tool"}) = Cardinality(Calls)

\* The effort of an accepted chat request is what every dialect that it uses says: none ignored, none guessed.
NoDialectIsIgnored ==
    serving = "read" /\ ~Responses =>
        LET d == request.draft IN
        /\ d.effort # Absent => request.effort = d.effort
        /\ d.reasoning \in Efforts => request.effort = d.reasoning
        /\ "enabled" \in {d.thinking, d.enable_thinking} => request.effort # Absent
        /\ "disabled" \in {d.thinking, d.enable_thinking} => request.effort = Absent

\* One answer, and a stream in order that says what the outcome says.
StreamsTellTheOutcome == AnsweredOnce /\ ChatStreamIsWhole /\ EventsAreOrdered /\ StreamTellsTheOutcome

\* An accepted request means one thing.
RequestsAreUnambiguous == HistoryIsClosed /\ NoDialectIsIgnored

\* A chat stream ends once.
StreamEndsOnce == Count("done") <= 1
=============================================================================
