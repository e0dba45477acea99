---------------------------- MODULE ResponseStream ----------------------------
(***************************************************************************)
(* What a client is sent while its request executes (gateway_responses.py,    *)
(* gateway_openai.py): the events of a Responses stream, built chunk by        *)
(* chunk and settled against the outcome, the frames of a chat stream, and      *)
(* the two whole answers.  Texts are sequences of characters.                    *)
(*                                                                         *)
(* A progress p is [ok, rs, events]: the state of the stream, which keeps what  *)
(* a step changed before it failed, and the events built so far, which a         *)
(* failing step loses.                                                            *)
(***************************************************************************)
EXTENDS GatewayRequest

CONSTANTS
    DeltaMax,   \* characters of one delta (MAX_STREAM_DELTA_CHARS)
    TextMax     \* characters of a response (MAX_RESPONSE_CHARS)

NoStream == [started |-> FALSE, done |-> FALSE, finish |-> Absent, seq |-> 0, size |-> 0, items |-> <<>>, tools |-> <<>>]
Progress(rs) == [ok |-> TRUE, rs |-> rs, events |-> <<>>]
Fails(p) == [p EXCEPT !.ok = FALSE, !.events = <<>>]
Then(p, Step(_)) == IF p.ok THEN Step(p) ELSE p
Require(p, condition) == IF p.ok /\ condition THEN p ELSE Fails(p)

\* The next event: its kind, its number, the output item it is about and what it says.
Event(p, kind, item, says) ==
    [p EXCEPT !.rs.seq = @ + 1, !.events = Append(@, [e |-> kind, n |-> p.rs.seq, i |-> item, x |-> says])]

BeginEvents(p) ==
    IF p.rs.started THEN p
    ELSE Event(Event([p EXCEPT !.rs.started = TRUE], "created", 0, <<>>), "in_progress", 0, <<>>)

\* The size grows before it is compared.
Reserve(p, n) == LET q == [p EXCEPT !.rs.size = @ + n] IN Require(q, q.rs.size <= TextMax)

IndexOfKind(rs, kind) == SelectInSeq(rs.items, LAMBDA item : item.kind = kind)
TextOf(rs, kind) == IF IndexOfKind(rs, kind) = 0 THEN <<>> ELSE rs.items[IndexOfKind(rs, kind)].text
NewItem(p, item) == Event([p EXCEPT !.rs.items = Append(@, item)], "item.added", Len(p.rs.items) + 1, <<>>)
Part(p, kind) ==
    IF IndexOfKind(p.rs, kind) # 0 THEN p
    ELSE LET q == NewItem(p, [kind |-> kind, text |-> <<>>, call |-> Absent, status |-> "in_progress"])
         IN Event(q, "part.added", Len(q.rs.items), <<>>)

Delta(p, kind, text) ==
    Then(Reserve(p, Len(text)), LAMBDA q :
        LET r == Part(q, kind)
            i == IndexOfKind(r.rs, kind)
        IN Event([r EXCEPT !.rs.items[i].text = @ \o text], "delta", i, text))

\* The function is one of the request's, and the one that the choice forces.
CallExpected(want, call) ==
    /\ \E i \in DOMAIN want.tools : want.tools[i] = call.name
    /\ want.choice # "none"
    /\ want.choice = "function" => call.name = want.forced

ToolDelta(p, want, call) ==
    LET q == Require(p, /\ CallExpected(want, call)
                        /\ Len(p.rs.tools) < MaxTools /\ \A i \in DOMAIN p.rs.tools : p.rs.tools[i].id # call.id
                        /\ p.rs.tools # <<>> => want.parallel # "off")
    IN Then(q, LAMBDA r : Then(Reserve(r, Len(call.arguments)), LAMBDA s :
           LET t == NewItem([s EXCEPT !.rs.tools = Append(@, call)], [kind |-> "function_call", text |-> call.arguments, call |-> call.id, status |-> "in_progress"])
           IN Event(t, "delta", Len(t.rs.items), call.arguments)))

\* After the adapter's finish only usage, and the calls of a finish that may have some.
Late(rs, kind) == rs.finish # Absent /\ kind # "usage" /\ ~(kind = "tool_call" /\ rs.finish \in {"tool_calls", "length", "cancelled"})
Push(rs, want, chunk) ==
    IF rs.done \/ Late(rs, chunk.kind) THEN Fails(Progress(rs))
    ELSE LET p == BeginEvents(Progress(rs)) IN
         CASE chunk.kind \in {"text", "reasoning"} -> Delta(p, chunk.kind, chunk.text)
           [] chunk.kind = "tool_call" -> ToolDelta(p, want, chunk.call)
           [] chunk.kind = "finish" -> [p EXCEPT !.rs.finish = chunk.finish]
           [] chunk.kind = "usage" -> Reserve(p, 0)

-----------------------------------------------------------------------------
(* The outcome settles the stream. *)

CallsOf(outcome) == outcome.calls
Whole(outcome) == outcome.finish \notin {"cancelled", "length"}

\* response_payload: an outcome that the request does not allow, or that contradicts itself, is an error.
PayloadAccepted(want, outcome) ==
    LET calls == CallsOf(outcome)
        required == want.choice \in {"required", "function"}
    IN /\ Len(calls) <= MaxTools /\ \A i, j \in DOMAIN calls : calls[i].id = calls[j].id => i = j
       /\ want.parallel = "off" => Len(calls) <= 1
       /\ outcome.finish = "tool_calls" => calls # <<>>
       /\ outcome.finish = "stop" => calls = <<>>
       /\ Whole(outcome) /\ required => calls # <<>>
       /\ \A i \in DOMAIN calls : CallExpected(want, calls[i])
AnswerSize(outcome) == Len(IF outcome.content = Absent THEN <<>> ELSE outcome.content)
                       + Len(IF outcome.reasoning = Absent THEN <<>> ELSE outcome.reasoning) + SumOf(outcome.calls, LAMBDA c : Len(c.arguments))

\* A text in deltas of at most DeltaMax.
Pieces(text) ==
    [k \in 1..((Len(text) + DeltaMax - 1) \div DeltaMax) |->
        SubSeq(text, (k - 1) * DeltaMax + 1, IF k * DeltaMax < Len(text) THEN k * DeltaMax ELSE Len(text))]
Deltas(p, kind, text) == FoldLeft(LAMBDA q, piece : Then(q, LAMBDA r : Delta(r, kind, piece)), p, Pieces(text))

MissingAll(observed, final) == final
Missing(observed, final) == SubSeq(final, Len(observed) + 1, Len(final))
SettleText(p, kind, final) ==
    IF final = Absent THEN p
    ELSE LET observed == TextOf(p.rs, kind)
             q == Require(p, IsPrefix(observed, final))
         IN Then(q, LAMBDA r : IF final = <<>> THEN Part(r, kind) ELSE Deltas(r, kind, Missing(observed, final)))

\* The calls that were sent are the first of the outcome's; the rest are sent now.
SettleCalls(p, want, outcome) ==
    LET sent == p.rs.tools
        q == Require(p, IsPrefix(sent, outcome.calls))
    IN Then(q, LAMBDA r : FoldLeft(LAMBDA s, call : Then(s, LAMBDA t : ToolDelta(t, want, call)), r, Missing(sent, outcome.calls)))

ItemStatus(outcome) == IF Whole(outcome) THEN "completed" ELSE "incomplete"
CloseItem(p, i, outcome) ==
    LET item == p.rs.items[i]
        q == [p EXCEPT !.rs.items[i].status = ItemStatus(outcome)]
        r == IF item.kind = "function_call"
             THEN IF Whole(outcome) THEN Event(q, "arguments.done", i, item.text) ELSE q
             ELSE Event(Event(q, "text.done", i, item.text), "part.done", i, item.text)
    IN Event(r, "item.done", i, item.text)
CloseItems(p, outcome) == FoldLeft(LAMBDA q, i : CloseItem(q, i, outcome), p, [i \in DOMAIN p.rs.items |-> i])

FailEvents(p, code) == IF p.rs.done THEN p ELSE Event([p EXCEPT !.rs.done = TRUE], "error", 0, <<>>)
TerminalBoth(p, outcome) ==
    LET q == IF outcome.finish = "cancelled" THEN FailEvents(p, "request_cancelled") ELSE p
    IN Event([q EXCEPT !.rs.done = TRUE], ItemStatus(outcome), 0, <<>>)
Terminal(p, outcome) ==
    IF outcome.finish = "cancelled" THEN FailEvents(p, "request_cancelled")
    ELSE Event([p EXCEPT !.rs.done = TRUE], ItemStatus(outcome), 0, <<>>)

Finish(rs, want, outcome) ==
    IF rs.done THEN Progress(rs)
    ELSE LET asked == Require(Progress(rs), rs.finish \in {Absent, outcome.finish})
             begun == Then(asked, LAMBDA p : BeginEvents([p EXCEPT !.rs.finish = Absent]))
             told == Then(Then(begun, LAMBDA p : SettleText(p, "reasoning", outcome.reasoning)), LAMBDA p : SettleText(p, "text", outcome.content))
             called == Then(told, LAMBDA p : SettleCalls(p, want, outcome))
             right == Then(called, LAMBDA p : Require(p, PayloadAccepted(want, outcome)))
         IN Then(right, LAMBDA p : Terminal(CloseItems(p, outcome), outcome))

-----------------------------------------------------------------------------
(* The frames of a chat stream. *)

Frame(kind, says) == [e |-> kind, n |-> 0, i |-> 0, x |-> says]
ChatHead == <<Frame("head", <<>>), Frame("role", <<>>)>>
ChatChunkCounted(chunk, toolIndex) == IF chunk.kind = "tool_call" THEN Frame("tool_call", <<toolIndex + 1>>) ELSE Frame(chunk.kind, chunk.text)
ChatChunk(chunk, toolIndex) ==
    CASE chunk.kind \in {"text", "reasoning"} -> Frame(chunk.kind, chunk.text)
      [] chunk.kind = "tool_call" -> Frame("tool_call", <<toolIndex>>)
      [] OTHER -> Frame(chunk.kind, <<>>)

Chunk(kind) == [kind |-> kind, text |-> <<>>, call |-> Absent, finish |-> Absent]
TextFrames(kind, text) == IF text \in {Absent, <<>>} THEN <<>> ELSE <<Frame(kind, text)>>
\* An outcome that came without chunks is streamed whole: head, reasoning, content, calls, finish, usage when asked for and known, the end.
Synthesized(want, outcome) ==
    ChatHead \o TextFrames("reasoning", outcome.reasoning) \o TextFrames("text", outcome.content)
    \o [i \in DOMAIN outcome.calls |-> Frame("tool_call", <<i - 1>>)] \o <<Frame("finish", <<>>)>>
    \o (IF want.include_usage /\ outcome.usage.source # "unavailable" THEN <<Frame("usage", <<>>)>> ELSE <<>>) \o <<Frame("done", <<>>)>>
=============================================================================
