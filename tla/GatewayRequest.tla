---------------------------- MODULE GatewayRequest ----------------------------
(***************************************************************************)
(* What the inference surfaces accept (gateway_openai.py,                    *)
(* gateway_responses.py, executable_contract.py): a chat completion and a     *)
(* Responses request, as they arrive, and the one canonical request that       *)
(* both become.  A draft is what the strict JSON reader hands over: a field    *)
(* holds Absent, Other (a value of a wrong type or form) or its value.          *)
(*                                                                         *)
(* A verdict is "ok", "invalid" (the client is told 400) or "broken" (an        *)
(* error no parser expects: 500).  Gates are in the order of the code: the      *)
(* first that does not hold decides.                                             *)
(***************************************************************************)
EXTENDS AdapterContracts, SequencesExt

CONSTANT Other   \* a value of a wrong type or form

MaxMessages == 4
MaxTools == 2
MaxMetadata == 1
MaxStops == 2
OutputMax == 3
MessageRoles == {"system", "developer", "user", "assistant", "tool"}
ResponsesRoles == {"system", "developer", "user", "assistant"}
Efforts == {"none", "low", "high", "ultra"}
WireEfforts == {"none", "low", "high"}

FirstOf(verdicts) ==
    LET bad == {i \in DOMAIN verdicts : verdicts[i] # "ok"}
    IN IF bad = {} THEN "ok" ELSE verdicts[CHOOSE i \in bad : \A j \in bad : i <= j]
Invalid(p) == IF p THEN "invalid" ELSE "ok"
Breaks(p) == IF p THEN "broken" ELSE "ok"
Verdicts(s, V(_)) == FirstOf([i \in DOMAIN s |-> V(s[i])])

\* v_str_field, v_int_field and v_number: the type, then the bounds.
StrField(v, bound) == v \notin {Absent, Other} /\ v > 0 /\ v <= bound
IntField(v, low, high) == v \notin {Absent, Other} /\ low <= v /\ v <= high
Named(v) == v \notin {Absent, Other} /\ v > 0

-----------------------------------------------------------------------------
(* A chat completion, part by part. *)

HistoryCall(c) == [id |-> c.id, name |-> c.name, arguments |-> IF c.arguments = Absent THEN 0 ELSE c.arguments, who |-> c.who]
CallVerdict(c) ==
    IF c = Other \/ c.function = Other THEN "broken"
    ELSE LET stated == FirstOf(<<Invalid(c.extra), Invalid(c.type # "function"), Invalid(~Named(c.id)), Invalid(~Named(c.name)),
                                 Invalid(c.arguments = Other)>>)
         IN IF stated # "ok" THEN stated ELSE Breaks(~ToolCallAccepted(HistoryCall(c)))

CallsVerdict(role, calls) ==
    CASE calls = Absent -> "ok"
      [] calls # Absent /\ (role # "assistant" \/ calls = Other) -> "invalid"
      [] OTHER -> Verdicts(calls, CallVerdict)

\* The message as the adapters see it.
Adapted(m) ==
    [role |-> m.role, content |-> m.content, name |-> m.name, tool_call_id |-> m.tool_call_id, reasoning |-> Absent, answers |-> m.answers,
     calls |-> IF m.calls = Absent THEN <<>> ELSE [i \in DOMAIN m.calls |-> HistoryCall(m.calls[i])]]

MessageVerdict(m) ==
    IF m = Other THEN "broken"
    ELSE LET stated == FirstOf(<<
                 Invalid(m.extra),
                 Invalid(m.role \notin MessageRoles),
                 Invalid(m.content = Other \/ (m.content = Absent /\ m.role # "assistant")),
                 Invalid(m.name = Other \/ (m.name # Absent /\ m.name > SizeIdentifier)),
                 Invalid((m.role = "tool" \/ m.tool_call_id # Absent) /\ ~Named(m.tool_call_id)),
                 CallsVerdict(m.role, m.calls),
                 Invalid(m.role = "assistant" /\ m.content = Absent /\ m.calls \in {Absent, <<>>})>>)
         IN IF stated # "ok" THEN stated ELSE Breaks(~MessageAccepted(Adapted(m)))

MessagesVerdict(ms) == IF ms \in {Absent, Other, <<>>} \/ Len(ms) > MaxMessages THEN "invalid" ELSE Verdicts(ms, MessageVerdict)

ToolVerdict(t) ==
    IF t = Other THEN "broken"
    ELSE FirstOf(<<Invalid(t.type # "function"), Breaks(t.function = Other), Invalid(~Named(t.name)), Breaks(t.parameters = Other)>>)
ToolsVerdict(ts) ==
    CASE ts = Absent -> "ok"
      [] ts = Other -> "invalid"
      [] OTHER -> IF Len(ts) > MaxTools THEN "invalid" ELSE Verdicts(ts, ToolVerdict)

\* The words, the object that names a function, and the forms that are neither; a choice of another type breaks.
ChoiceVerdict(c) ==
    CASE c \in {Absent, "null", "none", "auto", "required", "function"} -> "ok"
      [] c \in {"word", "extra key", "other type", "no name"} -> "invalid"
      [] OTHER -> "broken"

FormatVerdict(f) ==
    CASE f \in {Absent, "text", "json_object", "json_schema"} -> "ok"
      [] f \in {"other type", "extra key"} -> "invalid"
      [] OTHER -> "broken"

StreamVerdict(d) ==
    FirstOf(<<Invalid(d.stream = Other),
              Invalid(d.options # Absent /\ d.stream # "on"),
              Breaks(d.options = Other),
              Invalid(d.options \in {"extra key", "other flag"})>>)

OutputVerdict(d) ==
    Invalid(\/ d.max_tokens # Absent /\ d.max_completion_tokens # Absent
            \/ \E v \in {d.max_tokens, d.max_completion_tokens} \ {Absent} : ~IntField(v, 1, OutputMax))
Output(d) == IF d.max_tokens # Absent THEN d.max_tokens ELSE d.max_completion_tokens

\* The sampling parameters that are there, each with its range (temperature and the like in units, a seed from zero).
Ranges == [temperature |-> <<0, 2>>, top_p |-> <<0, 1>>, frequency_penalty |-> <<0, 2>>, presence_penalty |-> <<0, 2>>, seed |-> <<0, 3>>]
StopAccepted(s) == IF s \in {Absent, Other} THEN s = Absent ELSE s # <<>> /\ Len(s) <= MaxStops /\ \A i \in DOMAIN s : StrField(s[i], SizeIdentifier)
GenerationVerdict(d) ==
    Invalid(\/ \E p \in DOMAIN d.generation : ~IntField(d.generation[p], Ranges[p][1], Ranges[p][2])
            \/ ~StopAccepted(d.stop)
            \/ d.parallel = Other)

MetadataVerdict(m) ==
    CASE m = Absent -> "ok"
      [] m = Other -> "broken"
      [] OTHER -> Invalid(m.entries > MaxMetadata \/ m.key \notin {1} \/ m.value \notin {0, 1})

-----------------------------------------------------------------------------
(* One reasoning intent out of three dialects. *)

StatedEffort(d) == {d.effort} \ {Absent}
StatedEfforts(d) == {d.effort, IF d.reasoning = "plain" THEN Absent ELSE d.reasoning} \ {Absent}
StatedFlags(d) == {IF d.thinking = "plain" THEN Absent ELSE d.thinking, d.enable_thinking} \ {Absent}
Normalized(d) == IF StatedEfforts(d) = {} THEN Absent ELSE CHOOSE e \in StatedEfforts(d) : TRUE

ReasoningVerdict(d) ==
    FirstOf(<<
        Invalid(d.effort \notin {Absent} \union Efforts),
        Invalid(d.reasoning \notin {Absent, "plain"} \union Efforts),
        Invalid(\E e, f \in StatedEfforts(d) : e # f),
        Invalid(d.thinking \notin {Absent, "plain", "enabled", "disabled"}),
        Invalid(d.enable_thinking \notin {Absent, "enabled", "disabled"}),
        Invalid(StatedFlags(d) = {"enabled", "disabled"}),
        Invalid(StatedEfforts(d) # {} /\ StatedFlags(d) = {"disabled"}),
        Invalid(StatedEfforts(d) = {} /\ StatedFlags(d) = {"enabled"})>>)

-----------------------------------------------------------------------------
(* What a request asks of its target. *)

TextLength(t) == IF t \in {Absent, Other} THEN 0 ELSE t
SumOf(s, F(_)) == FoldLeft(LAMBDA total, x : total + F(x), 0, s)
CallLength(c) == c.id + c.name + c.arguments
ContentLength(m) == TextLength(m.content) + TextLength(m.tool_call_id) + SumOf(m.calls, CallLength)
EstimatedInput(messages, tools) ==
    LET total == SumOf(messages, ContentLength) + SumOf(tools, LAMBDA t : 4)
    IN IF total = 0 THEN Absent ELSE (total + 3) \div 4

AdaptedAll(d) == [i \in DOMAIN d.messages |-> Adapted(d.messages[i])]
ToolsOf(d) == IF d.tools = Absent THEN <<>> ELSE d.tools
Capabilities(d) ==
    LET messages == AdaptedAll(d) IN
    [tool_calls |-> ToolsOf(d) # <<>> \/ d.choice \in {"required", "function"},
     tool_results |-> \E i \in DOMAIN messages : messages[i].role = "tool",
     history |-> Len(messages) > 1,
     structured |-> d.format \in {"json_object", "json_schema"},
     streaming |-> d.stream = "on",
     reasoning |-> Normalized(d) # Absent,
     input |-> EstimatedInput(messages, ToolsOf(d)),
     output |-> Output(d)]

\* ExecutableRequirements.from_dict: what was retained when the target was chosen, consistent in itself.
RetainedReadable(q) ==
    /\ q # Other
    /\ q.schema \in {1, 2}
    /\ q.effort \in {Absent} \union Efforts
    /\ q.schema = 1 => q.pinned_effort = Absent
    /\ q.schema = 2 => q.pinned /\ q.pinned_effort = q.effort
    /\ q.alias = (q.profile_version # Absent)

\* A bound request keeps every control that its target was chosen for.
ControlsKept(q, needs, effort) ==
    /\ q.streaming => needs.streaming
    /\ q.tool_calls => needs.tool_calls \/ needs.tool_results
    /\ q.structured => needs.structured
    /\ q.reasoning => effort # Absent
    /\ q.maximum_output # Absent => needs.output # Absent /\ needs.output <= q.maximum_output
    /\ needs.output # Absent /\ q.minimum_output # Absent => needs.output >= q.minimum_output

RequirementsVerdict(d) ==
    LET q == d.requirements IN
    IF q = Absent THEN "ok"
    ELSE Invalid(\/ ~RetainedReadable(q)
                 \/ d.model # "pin"
                 \/ Normalized(d) # q.effort
                 \/ ~ControlsKept(q, Capabilities(d), Normalized(d)))

ChatVerdict(d) ==
    IF d = Other THEN "broken"
    ELSE LET stated == FirstOf(<<
                 Invalid(d.extra), Invalid(d.model \notin {"pin", "name"}), MessagesVerdict(d.messages), StreamVerdict(d), ToolsVerdict(d.tools),
                 ChoiceVerdict(d.choice), FormatVerdict(d.format), ReasoningVerdict(d), OutputVerdict(d), GenerationVerdict(d),
                 MetadataVerdict(d.metadata)>>)
         IN IF stated # "ok" THEN stated ELSE RequirementsVerdict(d)

\* The canonical request.
ChatRequest(d) ==
    [model |-> d.model, messages |-> AdaptedAll(d), stream |-> d.stream = "on", include_usage |-> d.options = "usage",
     tools |-> [i \in DOMAIN ToolsOf(d) |-> ToolsOf(d)[i].who], choice |-> IF d.choice = "null" THEN "auto" ELSE d.choice,
     forced |-> d.forced, parallel |-> d.parallel, effort |-> Normalized(d), capabilities |-> Capabilities(d), requirements |-> d.requirements]

-----------------------------------------------------------------------------
(* A Responses request: its input items become messages, in order. *)

\* Text, or a single text part of the kind of its author's role.
ItemText(i) == i.content \in {0, 1} /\ (i.part = "output_text" => i.role = "assistant")

NoDraft == [extra |-> FALSE, role |-> "user", content |-> Absent, name |-> Absent, tool_call_id |-> Absent, calls |-> Absent, answers |-> Absent]
DraftCall(i) == [extra |-> FALSE, type |-> "function", function |-> "exact", id |-> 1, name |-> i.name, arguments |-> i.arguments, who |-> i.call]
NoHistory == [ok |-> TRUE, messages |-> <<>>, ids |-> {}, calls |-> {}, answered |-> {}]

NoneRepeated(h) == h.answered \subseteq h.calls
AllAnswered(h) == h.calls = h.answered
MessageItem(h, i) == i.role \in ResponsesRoles /\ i.status \in {Absent, "completed"} /\ AllAnswered(h) /\ ItemText(i)
CallItem(h, i) == i.status \in {Absent, "completed"} /\ i.call \notin h.calls /\ StrField(i.name, SizeIdentifier) /\ StrField(i.arguments, SizeChunk)
ResultItem(h, i) == i.call \in h.calls /\ i.call \notin h.answered /\ i.content \in {0, 1}
ItemAccepted(h, i) ==
    /\ i.shape = "exact"
    /\ i.id # Absent => i.id \notin h.ids
    /\ CASE i.kind = "message" -> MessageItem(h, i)
         [] i.kind = "function_call" -> CallItem(h, i)
         [] i.kind = "function_call_output" -> ResultItem(h, i)
         [] OTHER -> FALSE

\* A call joins the assistant's message before it, or makes one.
WithCall(messages, call) ==
    IF messages # <<>> /\ Last(messages).role = "assistant"
    THEN LET last == Last(messages)
         IN Append(Front(messages), [last EXCEPT !.calls = IF @ = Absent THEN <<call>> ELSE Append(@, call)])
    ELSE Append(messages, [NoDraft EXCEPT !.role = "assistant", !.calls = <<call>>])

Extended(h, i) ==
    LET seen == [h EXCEPT !.ids = @ \union ({i.id} \ {Absent})] IN
    CASE i.kind = "message" -> [seen EXCEPT !.messages = Append(@, [NoDraft EXCEPT !.role = i.role, !.content = i.content])]
      [] i.kind = "function_call" -> [seen EXCEPT !.messages = WithCall(@, DraftCall(i)), !.calls = @ \union {i.call}]
      [] i.kind = "function_call_output" ->
            [seen EXCEPT !.answered = @ \union {i.call},
                         !.messages = Append(@, [NoDraft EXCEPT !.role = "tool", !.tool_call_id = 1, !.answers = i.call, !.content = i.content])]

History(input) ==
    LET Take(h, i) == IF h.ok /\ ItemAccepted(h, i) THEN Extended(h, i) ELSE [h EXCEPT !.ok = FALSE]
    IN CASE input = Other \/ input = <<>> -> [NoHistory EXCEPT !.ok = FALSE]
         [] OTHER -> LET h == FoldLeft(Take, NoHistory, input)
                     IN [h EXCEPT !.ok = @ /\ Len(input) <= MaxMessages /\ AllAnswered(h)]

ResponsesTool(t) == t # Other /\ t.type = "function" /\ t.function # Other /\ t.parameters # Other
ResponsesTools(r) == r.tools # Other /\ (r.tools # Absent => Len(r.tools) <= MaxTools /\ \A i \in DOMAIN r.tools : ResponsesTool(r.tools[i]))
ResponsesChoice(r) ==
    /\ r.choice \in {Absent, "auto", "none", "required", "function"}
    /\ r.choice = "required" => ToolsOf(r) # <<>>
    /\ r.choice = "function" => \E i \in DOMAIN ToolsOf(r) : ToolsOf(r)[i].who = r.forced

\* The same request as a chat completion.
Canonical(r) ==
    [extra |-> FALSE, model |-> r.model, messages |-> History(r.input).messages, stream |-> IF r.stream = Absent THEN "off" ELSE r.stream, options |-> Absent,
     tools |-> r.tools, choice |-> IF r.choice = Absent /\ ToolsOf(r) # <<>> THEN "auto" ELSE r.choice, forced |-> r.forced,
     format |-> r.format, effort |-> r.effort, reasoning |-> Absent, thinking |-> Absent, enable_thinking |-> Absent,
     max_tokens |-> Absent, max_completion_tokens |-> r.max_output_tokens, generation |-> r.generation, stop |-> Absent, parallel |-> r.parallel,
     metadata |-> r.metadata, requirements |-> r.requirements]

\* Whatever is wrong with it, the client is told so: nothing breaks.
ResponsesVerdict(r) ==
    IF /\ r # Other /\ ~r.extra
       /\ r.store = "off"
       /\ r.stream \in {Absent, "on", "off"}
       /\ r.options # Absent => r.stream = "on" /\ r.options \in {"plain", "hidden"}
       /\ History(r.input).ok
       /\ ResponsesTools(r)
       /\ r.parallel # Other
       /\ ResponsesChoice(r)
       /\ r.format \in {Absent, "text", "json_object", "json_schema"}
       /\ r.effort \in {Absent} \union WireEfforts
       /\ r.metadata # Other
       /\ ChatVerdict(Canonical(r)) = "ok"
    THEN "ok" ELSE "invalid"
ResponsesRequest(r) == ChatRequest(Canonical(r))
=============================================================================
