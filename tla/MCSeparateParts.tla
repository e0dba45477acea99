--------------------------- MODULE MCSeparateParts ---------------------------
(* Small instances of the separate parts. *)
EXTENDS SeparateParts

CONSTANTS v1, v2, t1, t2, k1, k2, a1, a2, b1

(* The cuts of model intelligence. *)
MCClaim(from, until, notice, conflict, public, amount) ==
    [from |-> from, until |-> until, notice |-> notice, conflict |-> conflict, public |-> public, amount |-> amount,
     known |-> TRUE, meaning |-> "input-allowance", retrieved |-> 0]

MCCuts ==
    {[claim |-> MCClaim(0, 1, "none", FALSE, TRUE, 1), gen |-> 1, made |-> 0],
     [claim |-> MCClaim(1, 2, "none", FALSE, TRUE, 3), gen |-> 2, made |-> 0],
     [claim |-> MCClaim(0, 2, "critical", FALSE, TRUE, 1), gen |-> 2, made |-> 0],
     [claim |-> Unset, gen |-> 1, made |-> 1]}

(* Two store objects of one process and one of another, whose program is older. *)
MCProcessOf == [s \in Stores |-> IF s = b1 THEN "B" ELSE "A"]
MCKnown == [s \in Stores |-> IF s = b1 THEN 1 ELSE 2]
MCAlien == 9
MCContents == {[schema |-> n, doc |-> 0] : n \in {0, 1, 2, 3, MCAlien}}
MCStrange == {Null, "slot", "contents", "moved", "claim", "stray"}

(* The requests and what the execution says. *)
E0 == [loopback |-> TRUE, type |-> "json", hosts |-> 1, host |-> "listener", keys |-> 1, key |-> "known", loop |-> FALSE, control |-> TRUE,
       method |-> "POST", path |-> "chat", chunked |-> FALSE, lengths |-> 1, length |-> 1, arrived |-> 1, body |-> "object"]
MCEnvelopes ==
    {[E0 EXCEPT !.path = p] : p \in {"chat", "responses", "route", "control", "nowhere"}}
    \union {[E0 EXCEPT !.path = "models", !.method = "GET", !.length = 0, !.arrived = 0], [E0 EXCEPT !.method = "PUT"], [E0 EXCEPT !.hosts = 2],
            [E0 EXCEPT !.host = "other"], [E0 EXCEPT !.host = "other", !.loopback = FALSE], [E0 EXCEPT !.keys = 0], [E0 EXCEPT !.key = "unknown"],
            [E0 EXCEPT !.loop = TRUE], [E0 EXCEPT !.path = "control", !.loop = TRUE], [E0 EXCEPT !.path = "control", !.control = FALSE],
            [E0 EXCEPT !.path = "responses", !.body = "credential"]}
    \union {[E0 EXCEPT !.path = p, !.type = t] : p \in {"chat", "responses"}, t \in {"json", "text"}}
    \union {[E0 EXCEPT !.chunked = TRUE], [E0 EXCEPT !.lengths = 2], [E0 EXCEPT !.length = Other], [E0 EXCEPT !.length = 3, !.arrived = 3],
            [E0 EXCEPT !.length = 4, !.arrived = 4], [E0 EXCEPT !.length = 2], [E0 EXCEPT !.body = "no json"]}
M0 == [name |-> Absent, content |-> 1, role |-> "user", calls |-> Absent, tool_call_id |-> Absent, extra |-> FALSE, answers |-> Absent]
C0 == [name |-> 1, type |-> "function", arguments |-> 1, extra |-> FALSE, function |-> "exact", id |-> 1, who |-> "a"]
T0 == [name |-> 1, type |-> "function", function |-> "exact", who |-> "f", parameters |-> "object"]
Q0 == [schema |-> 2, reasoning |-> TRUE, pinned |-> TRUE, pinned_effort |-> "low", effort |-> "low", alias |-> FALSE, profile_version |-> Absent,
       streaming |-> TRUE, tool_calls |-> FALSE, structured |-> FALSE, maximum_output |-> 2, minimum_output |-> Absent]
D0 == [reasoning |-> Absent, extra |-> FALSE, effort |-> Absent, model |-> "name", messages |-> <<M0>>, stream |-> Absent, options |-> Absent, tools |-> Absent,
       choice |-> Absent, forced |-> Absent, format |-> Absent, thinking |-> Absent, enable_thinking |-> Absent, max_tokens |-> Absent,
       max_completion_tokens |-> Absent, generation |-> <<>>, stop |-> Absent, parallel |-> Absent, metadata |-> Absent, requirements |-> Absent]
BadMessages == {Other} \union {[M0 EXCEPT !.extra = TRUE], [M0 EXCEPT !.role = "robot"], [M0 EXCEPT !.content = Absent], [M0 EXCEPT !.name = 0], [M0 EXCEPT !.role = "tool"],
    [M0 EXCEPT !.calls = <<>>], [M0 EXCEPT !.role = "assistant", !.content = Absent], [M0 EXCEPT !.role = "assistant", !.calls = <<[C0 EXCEPT !.arguments = Absent]>>],
    [M0 EXCEPT !.role = "assistant", !.calls = <<Other>>], [M0 EXCEPT !.role = "assistant", !.calls = <<[C0 EXCEPT !.id = 0]>>]}
ChatHistory == <<M0, [M0 EXCEPT !.role = "assistant", !.content = Absent, !.calls = <<C0>>], [M0 EXCEPT !.role = "tool", !.tool_call_id = 1, !.answers = "a"]>>
Bound == [D0 EXCEPT !.model = "pin", !.stream = "on", !.effort = "low", !.max_tokens = 2, !.requirements = Q0]
MCChatDrafts ==
    {Other, D0, Bound, [D0 EXCEPT !.stream = "on"], [D0 EXCEPT !.stream = "on", !.options = "usage"], [D0 EXCEPT !.extra = TRUE], [D0 EXCEPT !.messages = ChatHistory]}
    \union {[D0 EXCEPT !.messages = <<m>>] : m \in BadMessages}
    \union {[D0 EXCEPT !.tools = <<t>>] : t \in {Other, T0, [T0 EXCEPT !.type = "other"], [T0 EXCEPT !.function = Other], [T0 EXCEPT !.name = 0]}}
    \union {[D0 EXCEPT !.choice = c] : c \in {"null", "none", "required", "function", "word", "no name", Other}}
    \union {[D0 EXCEPT !.format = f] : f \in {"json_schema", "other type", Other}}
    \union {[D0 EXCEPT !.effort = e, !.reasoning = r, !.thinking = t, !.enable_thinking = f] :
               e \in {Absent, "low", Other}, r \in {Absent, "plain", "low", "high"}, t \in {Absent, "plain", "enabled", "disabled"}, f \in {Absent, "enabled", "disabled"}}
    \union {[D0 EXCEPT !.max_tokens = a, !.max_completion_tokens = b] : a \in {Absent, 0, 3}, b \in {Absent, 1, Other}}
    \union {[D0 EXCEPT !.generation = [temperature |-> v]] : v \in {2, 3, Other}}
    \union {[D0 EXCEPT !.stop = s] : s \in {<<>>, <<1, 1>>, <<1, 0>>}}
    \union {[D0 EXCEPT !.metadata = m] : m \in {Other, [key |-> 1, entries |-> 1, value |-> 0], [key |-> 1, entries |-> 2, value |-> 1]}}
    \union {[Bound EXCEPT !.model = "name"], [Bound EXCEPT !.effort = "high"], [Bound EXCEPT !.stream = "off"], [Bound EXCEPT !.max_tokens = 3],
            [Bound EXCEPT !.requirements.schema = 1], [Bound EXCEPT !.requirements.tool_calls = TRUE], [Bound EXCEPT !.requirements.minimum_output = 3]}
I0 == [name |-> Absent, content |-> 1, role |-> "user", shape |-> "exact", arguments |-> Absent, call |-> Absent, kind |-> "message", status |-> Absent, id |-> Absent, part |-> "input_text"]
Asks(c) == [I0 EXCEPT !.kind = "function_call", !.content = Absent, !.role = Absent, !.call = c, !.name = 1, !.arguments = 1]
Gives(c) == [I0 EXCEPT !.kind = "function_call_output", !.role = Absent, !.call = c]
MCItems == {I0, [I0 EXCEPT !.role = "assistant", !.part = "output_text"], Asks("a"), Asks("b"), Gives("a"), Gives("b")}
OddItems == {[I0 EXCEPT !.part = "output_text"], [I0 EXCEPT !.kind = "reasoning"], [I0 EXCEPT !.status = "in_progress"], [Asks("a") EXCEPT !.arguments = 0], [I0 EXCEPT !.shape = Other]}
R0 == [extra |-> FALSE, effort |-> Absent, model |-> "name", stream |-> Absent, options |-> Absent, tools |-> Absent, choice |-> Absent, forced |-> Absent,
       format |-> Absent, generation |-> <<>>, parallel |-> Absent, metadata |-> Absent, requirements |-> Absent, input |-> <<I0>>, store |-> "off", max_output_tokens |-> Absent]
FG == <<T0, [T0 EXCEPT !.who = "g"]>>
MCResponsesDrafts ==
    {Other, R0, [R0 EXCEPT !.store = "on"], [R0 EXCEPT !.input = <<[I0 EXCEPT !.id = "m"], [I0 EXCEPT !.id = "m"]>>], [R0 EXCEPT !.options = "hidden"]}
    \union {[R0 EXCEPT !.input = <<a, b, c, d>>] : a, b, c, d \in MCItems}
    \union {[R0 EXCEPT !.input = <<i>>] : i \in OddItems}
    \union {[R0 EXCEPT !.stream = "on", !.tools = FG, !.choice = c, !.forced = "f"] : c \in {Absent, "required", "function"}}
    \union {[R0 EXCEPT !.stream = "on"], [R0 EXCEPT !.stream = "on", !.choice = "required"], [R0 EXCEPT !.stream = "on", !.tools = FG, !.parallel = "off"]}
    \union {[R0 EXCEPT !.effort = e] : e \in {"low", "ultra"}}
    \union {[R0 EXCEPT !.tools = FG, !.choice = "none"], [R0 EXCEPT !.tools = <<[T0 EXCEPT !.type = "other"]>>], [R0 EXCEPT !.max_output_tokens = 4]}
K(id, name) == [name |-> name, arguments |-> <<1>>, id |-> id]
Usage(s) == [source |-> s, reported |-> Absent, estimated |-> IF s = "estimated" THEN 1 ELSE Absent]
MCSayings ==
    [chunks |-> {[Chunk("text") EXCEPT !.text = t] : t \in {<<1>>, <<2>>}} \union {[Chunk("reasoning") EXCEPT !.text = <<1>>]}
        \union {[Chunk("tool_call") EXCEPT !.call = K("a", "f")], [Chunk("tool_call") EXCEPT !.call = K("b", "g")], Chunk("usage")}
        \union {[Chunk("finish") EXCEPT !.finish = f] : f \in {"stop", "tool_calls", "cancelled"}},
     outcomes |-> {[content |-> c, reasoning |-> r, calls |-> k, finish |-> f, usage |-> Usage(IF r = Absent THEN "unavailable" ELSE "estimated")] :
        f \in {"stop", "tool_calls", "length", "cancelled"}, c \in {Absent, <<>>, <<1>>, <<1, 2, 1>>}, r \in {Absent, <<1>>},
        k \in {<<>>, <<K("a", "f")>>, <<K("a", "f"), K("b", "g")>>}}]

(* The provider. *)
Line(f, part, of) == [t |-> "data", f |-> f, part |-> part, of |-> of]
LF == [t |-> "lf"]
CR == [t |-> "cr"]
DoneLine == <<[t |-> "done"], LF, LF>>
EventOf(f) == <<Line(f, 1, 1), LF, LF>>
EventsOf(fs) == FlattenSeq([i \in DOMAIN fs |-> EventOf(fs[i])])
Delta0 == [content |-> Absent, reasoning |-> Absent, calls |-> Absent, reasoning_content |-> Absent, details |-> Absent]
FrameOf(delta, finish, usage) == [usage |-> usage, choice |-> [finish |-> finish, delta |-> delta]]
Says(text) == FrameOf([Delta0 EXCEPT !.content = text], Void, Absent)
Thinks(text) == FrameOf([Delta0 EXCEPT !.reasoning_content = text, !.content = Void], Void, Absent)
Frag(i, id, name, arguments) == [name |-> name, arguments |-> arguments, id |-> id, index |-> i]
Asks1(g) == FrameOf([Delta0 EXCEPT !.calls = <<g>>], Void, Absent)
Ends1(finish) == FrameOf(Delta0, finish, Absent)
Tokens1 == [prompt |-> 1, completion |-> 1]
UsageFrame == [usage |-> Tokens1, choice |-> Absent]
H0 == [status |-> 200, marker |-> FALSE, tokens |-> <<>>, document |-> Misshapen, answer |-> Absent]
Msg0 == [content |-> Void, reasoning |-> Absent, role |-> "assistant", calls |-> Absent, reasoning_content |-> Absent, details |-> Absent]
DocOf(message, finish, usage) == [finish |-> finish, usage |-> usage, message |-> message]
WCall(id, name, arguments) == [name |-> name, type |-> "function", arguments |-> arguments, id |-> id]
NCall(id, name, arguments) == [name |-> name, arguments |-> arguments, id |-> id]
Text1 == Answer(<<1, 2>>, Absent, <<>>, "stop", Tokens1)
Text2 == Answer(<<1, 2>>, <<3>>, <<>>, "stop", Absent)
Calls1 == Answer(Absent, Absent, <<NCall(<<"a">>, <<"f">>, <<1>>), NCall(<<"b">>, <<"g">>, <<2>>)>>, "tool_calls", Absent)
MCHeads ==
    {[H0 EXCEPT !.marker = TRUE], [H0 EXCEPT !.status = 302], [H0 EXCEPT !.status = 401], [H0 EXCEPT !.status = 404], H0,
     [H0 EXCEPT !.answer = Text1, !.document = DocOf([Msg0 EXCEPT !.content = <<1, 2>>], "stop", Tokens1),
                !.tokens = EventsOf(<<Says(<<1>>), Says(<<2>>), [Ends1("stop") EXCEPT !.usage = Tokens1]>>) \o DoneLine],
     [H0 EXCEPT !.answer = Text1, !.document = DocOf([Msg0 EXCEPT !.content = <<1, 2>>], "stop", Tokens1),
                !.tokens = EventsOf(<<Says(<<1, 2>>), Ends1("stop"), UsageFrame>>)],
     [H0 EXCEPT !.answer = Text2, !.document = DocOf([Msg0 EXCEPT !.content = <<1, 2>>, !.reasoning_content = <<3>>], "stop", Void),
                !.tokens = EventsOf(<<Thinks(<<3>>), Says(<<1, 2>>), Ends1("stop")>>) \o <<[t |-> "done"], LF>>],
     [H0 EXCEPT !.answer = Text2, !.document = DocOf([Msg0 EXCEPT !.content = <<1, 2>>, !.reasoning_content = <<3>>, !.reasoning = <<3>>], "stop", Void),
                !.tokens = <<[t |-> "comment"], CR, LF, Line(Thinks(<<3>>), 1, 1), CR, LF, CR, LF, Line([Says(<<1, 2>>) EXCEPT !.choice.finish = "stop"], 1, 1), CR, LF>>],
     [H0 EXCEPT !.answer = Calls1, !.document = DocOf([Msg0 EXCEPT !.calls = <<WCall(<<"a">>, <<"f">>, <<1>>), WCall(<<"b">>, <<"g">>, <<2>>)>>], "tool_calls", Absent),
                !.tokens = EventsOf(<<Asks1(Frag(1, <<"b">>, <<"g">>, <<>>)), Asks1(Frag(0, <<"a">>, <<"f">>, <<1>>)),
                                      FrameOf([Delta0 EXCEPT !.calls = <<Frag(1, Absent, Absent, <<2>>)>>], "tool_calls", Absent)>>) \o DoneLine],
     [H0 EXCEPT !.document = DocOf([Msg0 EXCEPT !.calls = <<WCall(<<"a">>, Void, <<1>>)>>], "tool_calls", Absent),
                !.tokens = EventsOf(<<Asks1(Frag(0, <<"a">>, <<"f">>, <<1>>)), Asks1(Frag(Absent, <<"a">>, Absent, <<2>>)), Ends1("tool_calls")>>)],
     [H0 EXCEPT !.document = DocOf(Msg0, "stop", Absent), !.tokens = EventsOf(<<Asks1(Frag(0, <<"a">>, <<"f">>, <<1>>)), Asks1(Frag(0, <<"b">>, Absent, <<2>>))>>)],
     [H0 EXCEPT !.document = DocOf([Msg0 EXCEPT !.details = Void], "stop", Absent), !.tokens = EventsOf(<<Says(<<1>>)>>) \o DoneLine],
     [H0 EXCEPT !.document = DocOf([Msg0 EXCEPT !.content = <<1>>], "content_filter", Absent), !.tokens = EventsOf(<<Says(<<1>>)>>) \o <<Line(Says(<<2>>), 1, 1)>>],
     [H0 EXCEPT !.document = DocOf([Msg0 EXCEPT !.content = <<1>>], "stop", Misshapen), !.tokens = EventsOf(<<Says(<<1>>), Says(Misshapen)>>)],
     [H0 EXCEPT !.tokens = <<Line(Says(<<1>>), 1, 2), CR, LF, Line(Says(<<1>>), 2, 2), CR, LF, CR, LF>>],
     [H0 EXCEPT !.tokens = <<Line(Says(<<1>>), 1, 3), LF, Line(Says(<<1>>), 2, 3), LF, Line(Says(<<1>>), 3, 3), LF, LF>>],
     [H0 EXCEPT !.tokens = EventsOf(<<Says(<<1>>)>>) \o <<[t |-> "bytes"], LF>>],
     [H0 EXCEPT !.tokens = EventsOf(<<Says(<<1>>), Says(<<1>>), Says(<<1>>), Says(<<1>>)>>) \o DoneLine]}
Call0 == [effort |-> Absent, model |-> "m", messages |-> <<[reasoning |-> Absent, role |-> "user"]>>, stream |-> TRUE, tools |-> <<>>, choice |-> Absent,
          format |-> Absent, limit |-> Absent, params |-> {}]
To(call, preset) == [call |-> call, preset |-> preset, bound |-> TRUE, credential |-> TRUE]
MCDispatches ==
    {To([Call0 EXCEPT !.stream = s], p) : s \in BOOLEAN, p \in {GenericPreset, DeepSeekPreset, OpenRouterPreset}}
    \union {To(c, p) : c \in {[Call0 EXCEPT !.stream = FALSE, !.choice = "auto", !.params = {"stop"}], [Call0 EXCEPT !.stream = FALSE, !.choice = "required"],
               [Call0 EXCEPT !.stream = FALSE, !.format = "json_schema", !.params = {"frequency_penalty"}], [Call0 EXCEPT !.stream = FALSE, !.effort = "low", !.limit = 1],
               [Call0 EXCEPT !.stream = FALSE, !.messages[1].role = "developer"], [Call0 EXCEPT !.stream = FALSE, !.params = {"thinking"}]}, p \in Presets}
    \union {[To(Call0, GenericPreset) EXCEPT !.bound = FALSE], [To(Call0, OpenAiPreset) EXCEPT !.credential = FALSE]}
=============================================================================
