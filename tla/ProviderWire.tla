---------------------------- MODULE ProviderWire ----------------------------
(***************************************************************************)
(* The OpenAI-compatible wire as the gateway speaks it to a provider         *)
(* (providers/openai_http_core.py, openai_http_presets.py): the request that  *)
(* a call becomes under a preset's policy, the answer document, and the event  *)
(* stream: lines into events, tool-call fragments into calls.                   *)
(*                                                                         *)
(* Of a provider's document a field is Absent, Void (a JSON null), Misshapen     *)
(* (a value of a wrong type) or its value.  Texts are sequences of characters.    *)
(***************************************************************************)
EXTENDS AdapterContracts, SequencesExt

CONSTANTS Void, Misshapen

-----------------------------------------------------------------------------
(* The presets. *)

OpenAiEfforts == [minimal |-> "minimal", low |-> "low", medium |-> "medium", high |-> "high"]
TwoEfforts == [minimal |-> "low", low |-> "low", medium |-> "high", high |-> "high"]
OllamaEfforts == [minimal |-> "low", low |-> "low", medium |-> "medium", high |-> "high"]

GenericPreset ==
    [id |-> "generic", limit |-> "max_tokens", developer |-> "reject", choice |-> "pass", format |-> "pass", reasoning |-> "reasoning_effort",
     output |-> "none", efforts |-> OpenAiEfforts, unevidenced |-> {}, omitted |-> {}, usage |-> TRUE, credential |-> FALSE, native |-> FALSE]
OpenAiPreset == [GenericPreset EXCEPT !.id = "openai", !.limit = "max_completion_tokens", !.developer = "pass", !.credential = TRUE]
DeepSeekPreset ==
    [GenericPreset EXCEPT !.id = "deepseek", !.format = "json_object_only", !.reasoning = "thinking_deepseek", !.output = "reasoning_content",
        !.efforts = TwoEfforts, !.unevidenced = {"stop", "seed", "parallel_tool_calls"}, !.omitted = {"frequency_penalty", "presence_penalty"}, !.credential = TRUE]
OpenRouterPreset ==
    [GenericPreset EXCEPT !.id = "openrouter", !.reasoning = "openrouter_reasoning", !.output = "reasoning", !.unevidenced = {"parallel_tool_calls"},
        !.usage = FALSE, !.credential = TRUE]
ZaiPreset ==
    [GenericPreset EXCEPT !.id = "zai", !.choice = "auto_only", !.format = "json_object_only", !.reasoning = "thinking_zai", !.output = "reasoning_content",
        !.efforts = TwoEfforts, !.unevidenced = {"seed", "parallel_tool_calls"}, !.usage = FALSE, !.credential = TRUE]
OllamaPreset ==
    [GenericPreset EXCEPT !.id = "ollama", !.choice = "omit_auto", !.format = "json_object_only", !.efforts = OllamaEfforts,
        !.unevidenced = {"parallel_tool_calls"}, !.native = TRUE]
Presets == {GenericPreset, OpenAiPreset, DeepSeekPreset, OpenRouterPreset, ZaiPreset, OllamaPreset}

-----------------------------------------------------------------------------
(* The request.  A control that the preset has no evidence for is refused; nothing has been sent then. *)

ReservedKeys == {"model", "messages", "stream", "stream_options", "tools", "tool_choice", "response_format", "reasoning_effort", "reasoning", "thinking",
                 "max_tokens", "max_completion_tokens"}

MessageRefused(m, p) == (m.role = "developer" /\ p.developer = "reject") \/ m.reasoning # Absent
ChoiceRefused(c, p) == c # Absent /\ p.choice # "pass" /\ c # "auto"
WireChoice(c, p) == IF c = "auto" /\ p.choice = "omit_auto" THEN Absent ELSE c
FormatRefused(f, p) == f # Absent /\ p.format = "json_object_only" /\ f \notin {"text", "json_object"}
EffortRefused(e, p) == e # Absent /\ e \notin DOMAIN p.efforts
ParamsRefused(names, p) == names \intersect (ReservedKeys \union p.unevidenced) # {}
Omitted(names, p) == names \ p.omitted

\* Where the mapped effort is written.
WireEffort(e, p) ==
    IF e = Absent THEN <<>>
    ELSE LET v == p.efforts[e] IN
         CASE p.reasoning = "reasoning_effort" -> [reasoning_effort |-> v]
           [] p.reasoning = "openrouter_reasoning" -> [reasoning |-> v]
           [] p.reasoning = "thinking_deepseek" -> [thinking |-> v]
           [] p.reasoning = "thinking_zai" -> [thinking |-> "enabled", reasoning_effort |-> v]

BuildRefused(call, p) ==
    \/ call.model = Absent
    \/ \E i \in DOMAIN call.messages : MessageRefused(call.messages[i], p)
    \/ ChoiceRefused(call.choice, p)
    \/ FormatRefused(call.format, p)
    \/ EffortRefused(call.effort, p)
    \/ ParamsRefused(call.params, p)
WireRequest(call, p) ==
    [model |-> call.model, stream |-> call.stream, tools |-> call.tools, choice |-> WireChoice(call.choice, p), format |-> call.format,
     effort |-> WireEffort(call.effort, p), limit |-> IF call.limit = Absent THEN Absent ELSE [field |-> p.limit, value |-> call.limit],
     params |-> Omitted(call.params, p), usage |-> call.stream /\ p.usage]

-----------------------------------------------------------------------------
(* The parts of an answer. *)

Given(t) == t \notin {Absent, Void, <<>>}

\* A field that carries reasoning and that the preset does not know, or that carries something else than text, is drift.
ReasoningDrifts(f, p) ==
    \/ f.details # Absent
    \/ CASE p.output = "none" -> f.reasoning # Absent \/ f.reasoning_content # Absent
         [] p.output = "reasoning_content" -> f.reasoning # Absent \/ f.reasoning_content = Misshapen
         [] p.output = "reasoning" ->
               \/ Misshapen \in {f.reasoning, f.reasoning_content}
               \/ Given(f.reasoning) /\ Given(f.reasoning_content) /\ f.reasoning # f.reasoning_content
ReasoningOf(f, p) ==
    CASE p.output = "reasoning" /\ Given(f.reasoning) -> f.reasoning
      [] p.output # "none" /\ Given(f.reasoning_content) /\ ~(p.output = "reasoning" /\ Given(f.reasoning)) -> f.reasoning_content
      [] OTHER -> Absent

UsageDrifts(u) == u = Misshapen \/ (u \notin {Absent, Void} /\ Misshapen \in {u.prompt, u.completion})
UsageOf(u) == IF u = Void THEN Absent ELSE u
FinishDrifts(f) == f \notin {"stop", "length", "tool_calls"}

EmptyArguments == <<"{}">>
WireCallDrifts(c) == c = Misshapen \/ ~Given(c.id) \/ c.id = Misshapen \/ c.type # "function" \/ ~Given(c.name) \/ c.name = Misshapen
WireCall(c) == [id |-> c.id, name |-> c.name, arguments |-> IF Given(c.arguments) /\ c.arguments # Misshapen THEN c.arguments ELSE EmptyArguments]

Listed(v) == v \notin {Absent, Void, Misshapen}
CallsIn(v) == IF Listed(v) THEN v ELSE <<>>
Answer(content, reasoning, calls, finish, usage) ==
    [content |-> content, reasoning |-> reasoning, calls |-> calls, finish |-> finish, usage |-> usage]

\* A whole document.  A document is its first choice, if it has one, and the usage beside it.
DocumentDrifts(d, p) ==
    \/ d = Misshapen \/ d.message \in {Absent, Misshapen}
    \/ d.message.role # "assistant" \/ d.message.content = Misshapen
    \/ ReasoningDrifts(d.message, p)
    \/ \E i \in DOMAIN CallsIn(d.message.calls) : WireCallDrifts(d.message.calls[i])
    \/ d.message.content \in {Absent, Void} /\ ReasoningOf(d.message, p) = Absent /\ CallsIn(d.message.calls) = <<>>
    \/ FinishDrifts(d.finish) \/ UsageDrifts(d.usage)
DocumentAnswer(d, p) ==
    Answer(IF d.message.content = Void THEN Absent ELSE d.message.content, ReasoningOf(d.message, p),
           [i \in DOMAIN CallsIn(d.message.calls) |-> WireCall(d.message.calls[i])], d.finish, UsageOf(d.usage))

-----------------------------------------------------------------------------
(* The event stream: characters into lines, lines into events. *)

StreamMax == 12   \* tokens of a stream (MAX_STREAM_TOTAL_BYTES)
FrameMax == 2     \* lines of an event (MAX_SSE_FRAME_BYTES)

NewParser == [buffer |-> <<>>, lines |-> <<>>, total |-> 0, size |-> 0, done |-> FALSE]
Parsing(parser) == [ok |-> TRUE, parser |-> parser, frames |-> <<>>]
Drifted(q) == [q EXCEPT !.ok = FALSE]

\* CR LF is one line end and CR another, within the bytes of one read.
LineEnds(chunk) ==
    LET kept == SelectSeq([i \in DOMAIN chunk |-> i],
                          LAMBDA i : ~(chunk[i].t = "cr" /\ i < Len(chunk) /\ chunk[IF i < Len(chunk) THEN i + 1 ELSE i].t = "lf"))
    IN [k \in DOMAIN kept |-> IF chunk[kept[k]].t = "cr" THEN [t |-> "lf"] ELSE chunk[kept[k]]]

\* The lines of an event make a document if they are all the parts of one, in order.
Assembled(lines) == \A i \in DOMAIN lines : lines[i].f = lines[1].f /\ lines[i].part = i /\ lines[i].of = Len(lines)
DispatchEvent(q) ==
    LET lines == q.parser.lines
        r == [q EXCEPT !.parser.lines = <<>>, !.parser.size = 0]
    IN CASE lines = <<>> -> r
         [] lines # <<>> /\ lines[1].t = "done" -> IF Len(lines) = 1 THEN [r EXCEPT !.parser.done = TRUE] ELSE Drifted(r)
         [] OTHER -> IF lines[1].t = "data" /\ (\A i \in DOMAIN lines : lines[i].t = "data") /\ Assembled(lines) /\ lines[1].f # Misshapen
                     THEN [r EXCEPT !.frames = Append(@, lines[1].f)] ELSE Drifted(r)

\* The end sentinel is the end: what comes after it is not read.
TakeLine(q, line) ==
    CASE q.parser.done -> q
      [] ~q.parser.done /\ line = <<>> -> DispatchEvent(q)
      [] ~q.parser.done /\ line # <<>> ->
            IF line[1].t \notin {"data", "done"} THEN q
            ELSE IF q.parser.size + 1 > FrameMax THEN Drifted(q)
            ELSE [q EXCEPT !.parser.size = @ + 1, !.parser.lines = Append(@, line[1])]

TakeToken(q, token) ==
    CASE ~q.ok -> q
      [] q.ok /\ token.t = "lf" -> TakeLine([q EXCEPT !.parser.buffer = <<>>], q.parser.buffer)
      [] OTHER -> [q EXCEPT !.parser.buffer = Append(@, token)]

Feed(parser, chunk) ==
    LET q == Parsing([parser EXCEPT !.total = @ + Len(chunk)])
    IN IF q.parser.total > StreamMax THEN Drifted(q) ELSE FoldLeft(TakeToken, q, LineEnds(chunk))

\* The end of the stream dispatches an event that no empty line followed; an unfinished line is an error.
CloseParser(parser) ==
    IF parser.buffer # <<>> THEN Drifted(Parsing(parser)) ELSE TakeLine(Parsing(parser), <<>>)

-----------------------------------------------------------------------------
(* Events into an answer. *)

\* The calls of the stream are collected by index; an event without one speaks of the first.
NoCalls == [calls |-> <<>>, explicit |-> FALSE, implicit |-> FALSE]
NewCall == [id |-> <<>>, name |-> <<>>, arguments |-> <<>>]
IndexOf(fragment) == IF fragment.index = Absent THEN 0 ELSE fragment.index
Collected(acc, i) == IF i \in DOMAIN acc.calls THEN acc.calls[i] ELSE NewCall
Disagrees(old, new) == Given(new) /\ new # Misshapen /\ old # <<>> /\ old # new
Taken(old, new) == IF Given(new) /\ new # Misshapen THEN new ELSE old

FragmentDrifts(acc, g) ==
    \/ g = Misshapen \/ g.index = Misshapen
    \/ Disagrees(Collected(acc, IndexOf(g)).id, g.id) \/ Disagrees(Collected(acc, IndexOf(g)).name, g.name)
    \/ g.arguments = Misshapen
AddFragment(acc, g) ==
    LET i == IndexOf(g)
        old == Collected(acc, i)
        new == [id |-> Taken(old.id, g.id), name |-> Taken(old.name, g.name),
                arguments |-> IF Given(g.arguments) THEN old.arguments \o g.arguments ELSE old.arguments]
    IN [calls |-> [j \in DOMAIN acc.calls \union {i} |-> IF j = i THEN new ELSE acc.calls[j]],
        explicit |-> acc.explicit \/ g.index # Absent, implicit |-> acc.implicit \/ g.index = Absent]

AccumulatorDrifts(acc) == (acc.explicit /\ acc.implicit) \/ \E i \in DOMAIN acc.calls : <<>> \in {acc.calls[i].id, acc.calls[i].name}
CallsInOrder(acc, order) ==
    [k \in DOMAIN order |->
        LET c == acc.calls[order[k]] IN [c EXCEPT !.arguments = IF @ = <<>> THEN EmptyArguments ELSE @]]
CompletedAsTheyCame(acc) == CallsInOrder(acc, SetToSortSeq(DOMAIN acc.calls, LAMBDA i, j : i > j))
CompletedCalls(acc) == CallsInOrder(acc, SetToSortSeq(DOMAIN acc.calls, LAMBDA i, j : i < j))

\* An event has its usage and, if it has a choice with a delta, what that says; a finish beside the delta.
FrameDrifts(f, p) ==
    \/ UsageDrifts(f.usage)
    \/ f.choice # Absent /\ (\/ f.choice.delta # Absent /\ (f.choice.delta.content = Misshapen \/ ReasoningDrifts(f.choice.delta, p))
                             \/ f.choice.finish \notin {Absent, Void} /\ FinishDrifts(f.choice.finish))
FrameView(f, p) ==
    LET delta == IF f.choice = Absent THEN Absent ELSE f.choice.delta IN
    [text |-> IF delta = Absent \/ ~Given(delta.content) THEN <<>> ELSE delta.content,
     reasoning |-> IF delta = Absent \/ ReasoningOf(delta, p) = Absent THEN <<>> ELSE ReasoningOf(delta, p),
     fragments |-> IF delta = Absent THEN <<>> ELSE CallsIn(delta.calls),
     finish |-> IF f.choice = Absent \/ f.choice.finish = Void THEN Absent ELSE f.choice.finish,
     usage |-> UsageOf(f.usage)]
=============================================================================
