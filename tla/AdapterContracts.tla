-------------------------- MODULE AdapterContracts --------------------------
(***************************************************************************)
(* The values that the gateway, its adapters and the worker protocol pass    *)
(* to each other (gateway_adapters.py, gateway_contracts.py), as what their   *)
(* constructors accept.                                                        *)
(*                                                                         *)
(* A text is its size class: 0 is empty, 1 is within every bound, 2 exceeds    *)
(* the bound of an identifier or a note (200 and 256), 3 a chunk (1 Mi), 4 a     *)
(* tool result (4 Mi), 5 a frame (16 MiB).                                      *)
(***************************************************************************)
EXTENDS Naturals, Sequences

CONSTANT Absent     \* a field that is not there

SizeIdentifier == 1
SizeNote == 1
SizeChunk == 2
SizeContent == 4

\* v_text: present, not empty, within the bound.  v_safe_id and v_enum accept the identifiers of the model, except "unsafe".
Text(t, bound) == t # Absent /\ t > 0 /\ t <= bound
TextOrNone(t, bound) == t # Absent => Text(t, bound)
SafeId(i) == i # Absent /\ i # "unsafe"

\* exact_shape: neither a missing nor an unknown key, and the types that the message declares.
Exact(m) == m.shape = "exact"

ToolCallAccepted(c) == Text(c.id, SizeIdentifier) /\ Text(c.name, SizeIdentifier) /\ Text(c.arguments, SizeChunk)

\* The constructor of a chunk: each kind has its one field, and no other.
ChunkAccepted(c) ==
    /\ c.kind \in {"text_delta", "reasoning_delta", "tool_call", "finish", "usage"}
    /\ IF c.kind \in {"text_delta", "reasoning_delta"} THEN Text(c.text, SizeChunk) ELSE c.text = Absent
    /\ (c.tool_call # Absent) = (c.kind = "tool_call")
    /\ (c.finish # Absent) = (c.kind = "finish")
    /\ (c.usage # Absent) = (c.kind = "usage")
    /\ c.tool_call # Absent => ToolCallAccepted(c.tool_call)

\* Content and reasoning may be empty; nothing bounds them below the size of a frame.
MessageAccepted(m) ==
    /\ SafeId(m.role)
    /\ \A t \in {m.content, m.reasoning} : t # Absent => t <= SizeContent
    /\ TextOrNone(m.tool_call_id, SizeIdentifier) /\ TextOrNone(m.name, SizeIdentifier)
    /\ \A i \in 1..Len(m.calls) : ToolCallAccepted(m.calls[i])

ObservationAccepted(o) == o.index \in Nat /\ o.status \in {"completed", "failed", "cancelled", "unknown"} /\ TextOrNone(o.note, SizeNote)

\* A result lists its calls in order, once each; a completed one has its message and its reason.
ResultAccepted(r) ==
    /\ r.status \in {"completed", "failed", "cancelled"}
    /\ \A i \in 1..Len(r.calls) : ObservationAccepted(r.calls[i])
    /\ \A i, j \in 1..Len(r.calls) : i < j => r.calls[i].index < r.calls[j].index
    /\ r.status = "completed" => r.message # Absent /\ r.finish # Absent
    /\ r.message # Absent => MessageAccepted(r.message)

CallAccepted(c) == \A i \in 1..Len(c.messages) : MessageAccepted(c.messages[i])

=============================================================================
