----------------------------- MODULE HttpAdapter -----------------------------
(***************************************************************************)
(* One dispatch to a provider over HTTP (providers/openai_http_adapter.py):    *)
(* one request on one connection, the head of the answer, and the answer read  *)
(* piece by piece under a deadline and a cancellation, whole or as a stream      *)
(* whose chunks are emitted while it is read.  The provider is external: it       *)
(* answers with one of Heads, is cut off, falls silent or trickles: what is one    *)
(* call of http.client here is a series of socket operations, each with a timeout   *)
(* of its own.                                                                       *)
(*                                                                         *)
(* An outcome's how is "completed", "cancelled", or the kind of the error that    *)
(* was raised: "permanent", "ambiguous", "timeout", "disconnected" (the emitter    *)
(* found the client gone) or "escaped" (an exception of no adapter kind).           *)
(***************************************************************************)
EXTENDS ProviderWire

CONSTANTS
    Dispatches,   \* [call, preset, bound, credential]: what is dispatched, and the binding of its resource
    Heads,        \* [marker, status, tokens, document, answer]: the answers of a provider
    DispatchDeadline, SocketCap, \* in units of the clock
    Operations,   \* bound: the socket operations one call of http.client comes to
    ReadMax       \* tokens of one read

\* A binding names one of the registered presets, and no head of an answer is the mark of its absence.
ASSUME HttpAssumption ==
    DispatchDeadline \in Nat /\ SocketCap \in Nat \ {0} /\ Operations \in Nat \ {0} /\ Absent \notin Heads /\ \A d \in Dispatches : d.preset \in Presets

VARIABLES
    stage,      \* "idle", "connecting", "sent", "refused", "reading" or "ended"
    dispatch, head,
    body,    \* the tokens of the answer's body not yet read
    reader,     \* the stream's parser
    gathered,   \* what the stream has said: [text, reasoning, acc, finish, usage]
    emitted,    \* the chunks emitted
    stopped,    \* the cancellation flag
    moment,     \* the clock
    overdue,    \* history: reads of the answer that were over only after the deadline
    patience,   \* the socket timeout of the connection
    posted,     \* requests on the wire
    result

httpVars == <<stage, dispatch, head, body, reader, gathered, emitted, stopped, moment, overdue, patience, posted, result>>

NothingGathered == [text |-> <<>>, reasoning |-> <<>>, acc |-> NoCalls, finish |-> Absent, usage |-> Absent]

HttpInit ==
    /\ stage = "idle" /\ dispatch = Absent /\ head = Absent
    /\ body = <<>> /\ reader = NewParser /\ gathered = NothingGathered
    /\ emitted = <<>> /\ stopped = FALSE /\ moment = 0 /\ overdue = 0 /\ patience = 0 /\ posted = 0
    /\ result = Absent

Policy == dispatch.preset
Ended(how) == [how |-> how, answer |-> Absent]

\* The connection is closed and nothing of the stream is kept.
EndWith(r) ==
    /\ stage' = "ended" /\ result' = r
    /\ body' = <<>> /\ reader' = NewParser /\ gathered' = NothingGathered

Expired == moment >= DispatchDeadline
Lower(a, b) == IF a < b THEN a ELSE b

\* ResourceBinding and execute up to the connection: nothing is sent for a call without a binding or that the preset cannot carry.
Bindable(d) == d.bound /\ (d.preset.credential => d.credential)
Dispatch ==
    /\ stage = "idle"
    /\ \E d \in Dispatches, m \in 0..DispatchDeadline :
          /\ dispatch' = d /\ moment' = m
          /\ IF ~Bindable(d) \/ BuildRefused(d.call, d.preset) THEN EndWith(Ended("permanent")) /\ UNCHANGED patience
             ELSE IF m >= DispatchDeadline THEN EndWith(Ended("timeout")) /\ UNCHANGED patience
             ELSE /\ stage' = "connecting" /\ patience' = Lower(DispatchDeadline - m, SocketCap)
                  /\ UNCHANGED <<body, reader, gathered, result>>
    /\ UNCHANGED <<head, emitted, stopped, overdue, posted>>

\* A call of http.client takes the time of its operations, each at most the timeout of the connection: connecting to every address, the TLS
\* handshake and the sends, or the receives of a head, a chunk or a body.  A timeout is the silence of the last of them.
Lasting == 0..Operations * patience
Waits(w) == moment' = moment + w
SocketFailsForGood(w) ==
    \/ w >= patience /\ EndWith(Ended("timeout"))
    \/ EndWith(Ended("permanent"))
SocketFails(w) ==
    \/ w >= patience /\ EndWith(Ended("timeout"))
    \/ EndWith(Ended("ambiguous"))

SendRequest ==
    /\ stage = "connecting"
    /\ \E w \in Lasting :
          /\ Waits(w)
          /\ \/ stage' = "sent" /\ posted' = posted + 1 /\ UNCHANGED <<body, reader, gathered, result>>
             \/ SocketFails(w) /\ posted' \in {posted, posted + 1}
    /\ UNCHANGED <<dispatch, head, emitted, stopped, overdue, patience>>

\* The head of the answer: a gateway's marker and a redirect are refused, and so is any other status but 200 once its body has been read.
HeadRefused(h) == h.marker \/ h.status \in 300..399
ReceiveHead ==
    /\ stage = "sent"
    /\ \E w \in Lasting :
          /\ Waits(w)
          /\ \/ \E h \in Heads :
                   /\ head' = h
                   /\ IF HeadRefused(h) THEN EndWith(Ended("permanent"))
                      ELSE IF h.status # 200 THEN stage' = "refused" /\ UNCHANGED <<body, reader, gathered, result>>
                      ELSE /\ stage' = "reading"
                           /\ body' = IF dispatch.call.stream THEN h.tokens ELSE <<[t |-> "document"], [t |-> "document"]>>
                           /\ UNCHANGED <<reader, gathered, result>>
             \/ SocketFails(w) /\ UNCHANGED head
    /\ UNCHANGED <<dispatch, emitted, stopped, overdue, patience, posted>>

\* The body of a refusal is read with no look at the deadline or the cancellation; whether it comes or not, the refusal stands.
ReadErrorNote ==
    /\ stage = "refused"
    /\ \E w \in Lasting : Waits(w)
    /\ EndWith(Ended("permanent"))
    /\ UNCHANGED <<dispatch, head, emitted, stopped, overdue, patience, posted>>

\* The client or the coordinator cancels.
CancelDispatch ==
    /\ stage \in {"connecting", "sent", "refused", "reading"} /\ ~stopped /\ stopped' = TRUE
    /\ UNCHANGED <<stage, dispatch, head, body, reader, gathered, emitted, moment, overdue, patience, posted, result>>

-----------------------------------------------------------------------------
(* Reading. *)

\* The checks of every turn of the reading loop.
CheckedNever == stage = "reading"
Checked == stage = "reading" /\ ~stopped /\ ~Expired
StopsReading ==
    /\ stage = "reading" /\ (stopped \/ Expired)
    /\ EndWith(Ended(IF stopped THEN "cancelled" ELSE "timeout"))
    /\ UNCHANGED <<dispatch, head, emitted, stopped, moment, overdue, patience, posted>>

\* One read of the answer.
Reads(w) == Waits(w) /\ overdue' = overdue + (IF moment + w >= DispatchDeadline THEN 1 ELSE 0)

\* The connection is silent for its timeout, or is cut.
ReadFails ==
    /\ Checked
    /\ \E w \in Lasting : Reads(w) /\ SocketFailsForGood(w)
    /\ UNCHANGED <<dispatch, head, emitted, stopped, patience, posted>>

TextChunk(kind, text) == IF text = <<>> THEN <<>> ELSE <<[kind |-> kind, says |-> text]>>

\* What one event does: it is refused, or its deltas are kept and emitted.
TakeFrame(s, f) ==
    IF ~s.ok \/ FrameDrifts(f, Policy) THEN [s EXCEPT !.ok = FALSE]
    ELSE LET v == FrameView(f, Policy)
             Fragments(a, g) == IF ~a.ok \/ FragmentDrifts(a.acc, g) THEN [a EXCEPT !.ok = FALSE] ELSE [a EXCEPT !.acc = AddFragment(a.acc, g)]
             t == FoldLeft(Fragments, [ok |-> TRUE, acc |-> s.got.acc], v.fragments)
         IN [ok |-> t.ok, chunks |-> s.chunks \o TextChunk("reasoning", v.reasoning) \o TextChunk("text", v.text),
             got |-> [text |-> s.got.text \o v.text, reasoning |-> s.got.reasoning \o v.reasoning, acc |-> t.acc,
                      finish |-> IF v.finish = Absent THEN s.got.finish ELSE v.finish,
                      usage |-> IF v.usage = Absent THEN s.got.usage ELSE v.usage]]
TakeFrames(frames) == FoldLeft(TakeFrame, [ok |-> TRUE, chunks |-> <<>>, got |-> gathered], frames)

\* An emission that finds the client gone ends the dispatch; the chunks before it are out.
Emits(chunks) == emitted' = emitted \o chunks
EmitFails(chunks) ==
    \E k \in 0..Len(chunks) - 1 : emitted' = emitted \o SubSeq(chunks, 1, k) /\ EndWith(Ended("disconnected"))

\* Bytes that are no text make the decoder raise; a line or an event that is wrong loses the events of its read.
ReadStream ==
    /\ Checked /\ dispatch.call.stream /\ ~reader.done /\ body # <<>>
    /\ \E w \in Lasting : Reads(w)
    /\ \E k \in 1..Lower(ReadMax, Len(body)) :
          LET chunk == SubSeq(body, 1, k)
              q == Feed(reader, chunk)
              s == TakeFrames(q.frames)
          IN IF \E i \in DOMAIN chunk : chunk[i].t = "bytes" THEN EndWith(Ended("escaped")) /\ UNCHANGED emitted
             ELSE IF ~q.ok THEN EndWith(Ended("permanent")) /\ UNCHANGED emitted
             ELSE \/ EmitFails(s.chunks)
                  \/ IF ~s.ok THEN Emits(s.chunks) /\ EndWith(Ended("permanent"))
                     ELSE /\ Emits(s.chunks) /\ gathered' = s.got /\ reader' = q.parser
                          /\ body' = SubSeq(body, k + 1, Len(body))
                          /\ UNCHANGED <<stage, result>>
    /\ UNCHANGED <<dispatch, head, stopped, patience, posted>>

\* A text that is empty is reported as none.
NoneIfEmpty(text) == IF text = <<>> THEN Absent ELSE text
StreamAnswer(got) == Answer(NoneIfEmpty(got.text), NoneIfEmpty(got.reasoning), CompletedCalls(got.acc), got.finish, got.usage)
FinalChunks(got) ==
    [i \in DOMAIN CompletedCalls(got.acc) |-> [kind |-> "tool_call", says |-> CompletedCalls(got.acc)[i]]]
    \o <<[kind |-> "finish", says |-> got.finish]>>
    \o (IF got.usage = Absent THEN <<>> ELSE <<[kind |-> "usage", says |-> got.usage]>>)

\* The sentinel or the end of the body: what is left is dispatched, the cancellation is looked at once more, and the calls are complete or
\* the dispatch fails (with the accumulator's own error, which nothing here turns into an adapter's).
EndStream ==
    /\ stage = "reading" /\ dispatch.call.stream
    /\ \/ reader.done /\ UNCHANGED <<moment, overdue>>
       \/ Checked /\ ~reader.done /\ body = <<>> /\ \E w \in Lasting : Reads(w)
    /\ LET q == CloseParser(reader)
           s == TakeFrames(q.frames)
           chunks == s.chunks \o FinalChunks(s.got)
       IN IF ~q.ok THEN EndWith(Ended("permanent")) /\ UNCHANGED emitted
          ELSE IF ~s.ok THEN Emits(s.chunks) /\ EndWith(Ended("permanent"))
          ELSE IF stopped THEN Emits(s.chunks) /\ EndWith(Ended("cancelled"))
          ELSE IF s.got.finish = Absent THEN Emits(s.chunks) /\ EndWith(Ended("permanent"))
          ELSE IF AccumulatorDrifts(s.got.acc) THEN Emits(s.chunks) /\ EndWith(Ended("escaped"))
          ELSE \/ EmitFails(chunks)
               \/ Emits(chunks) /\ EndWith([how |-> "completed", answer |-> StreamAnswer(s.got)])
    /\ UNCHANGED <<dispatch, head, stopped, patience, posted>>

\* The pieces of a whole answer are only collected; the end of the body hands them over.
ReadWhole ==
    /\ Checked /\ ~dispatch.call.stream /\ body # <<>>
    /\ \E w \in Lasting : Reads(w)
    /\ body' = Tail(body)
    /\ UNCHANGED <<stage, dispatch, head, reader, gathered, emitted, stopped, patience, posted, result>>
EndWhole ==
    /\ Checked /\ ~dispatch.call.stream /\ body = <<>>
    /\ \E w \in Lasting : Reads(w)
    /\ EndWith(IF DocumentDrifts(head.document, Policy) THEN Ended("permanent")
               ELSE [how |-> "completed", answer |-> DocumentAnswer(head.document, Policy)])
    /\ UNCHANGED <<dispatch, head, emitted, stopped, patience, posted>>

-----------------------------------------------------------------------------
(* Probes.  They have no dispatch of their own: one GET, and what the answer says of the endpoint. *)

\* What a native document is: no JSON object, one without the field that is asked for, or one with it.
Probed(h) ==
    CASE h.marker -> "schema_drift"
      [] ~h.marker /\ h.status \in {401, 403} -> "auth_rejected"
      [] ~h.marker /\ h.status \in {404, 410} -> "schema_drift"
      [] OTHER -> "ok"
ProbedNative(h) == IF h.marker \/ h.status # 200 THEN "refused" ELSE IF h.document = Misshapen THEN "schema_drift" ELSE "ok"
DiscoveredBy(d, h) == IF ~d.preset.native THEN "unsupported_preset" ELSE ProbedNative(h)
Probe ==
    /\ stage = "idle"
    /\ \E d \in Dispatches :
          /\ dispatch' = d
          /\ \/ ~d.bound /\ result' = Ended("refused") /\ UNCHANGED head
             \/ /\ d.bound
                /\ \/ result' = Ended("unreachable") /\ UNCHANGED head
                   \/ \E h \in Heads : head' = h /\ result' = Ended(IF d.preset.native THEN ProbedNative(h) ELSE Probed(h))
    /\ stage' = "probed"
    /\ UNCHANGED <<body, reader, gathered, emitted, stopped, moment, overdue, patience, posted>>
Discover ==
    /\ stage = "idle"
    /\ \E d \in {x \in Dispatches : x.bound}, h \in Heads : dispatch' = d /\ head' = h /\ result' = Ended(DiscoveredBy(d, h))
    /\ stage' = "probed"
    /\ UNCHANGED <<body, reader, gathered, emitted, stopped, moment, overdue, patience, posted>>

HttpNext ==
    \/ Dispatch \/ SendRequest \/ ReceiveHead \/ ReadErrorNote \/ CancelDispatch
    \/ StopsReading \/ ReadFails \/ ReadStream \/ EndStream \/ ReadWhole \/ EndWhole
    \/ Probe \/ Discover

HttpSpec == HttpInit /\ [][HttpNext]_httpVars

-----------------------------------------------------------------------------
(* What holds between two steps of a dispatch: what has been read so late, whether anything is on the wire or back from it, and that *)
(* only what the preset carries went there.                                                                                        *)

ClockFacts ==
    /\ moment \in Nat /\ patience \in 0..SocketCap /\ overdue \in {0, 1}
    /\ overdue = 1 => stage = "ended" \/ (stage = "reading" /\ Expired)
PostFacts ==
    /\ posted \in Nat
    /\ stage \in {"idle", "connecting"} => posted = 0 /\ head = Absent
    /\ stage = "sent" => head = Absent
    /\ stage \in {"refused", "reading"} => head # Absent
    /\ stage = "ended" /\ result.how = "permanent" /\ head = Absent => posted = 0
CarriedFacts ==
    stage \in {"connecting", "sent", "refused", "reading"} \/ posted > 0 => dispatch.preset \in Presets /\ ~BuildRefused(dispatch.call, dispatch.preset)

HttpIInv ==
    /\ stage \in {"idle", "connecting", "sent", "refused", "reading", "ended", "probed"}
    /\ ClockFacts /\ PostFacts /\ CarriedFacts

-----------------------------------------------------------------------------
(* Properties. *)

SaidIn(kind) == FoldLeft(LAMBDA text, c : IF c.kind = kind THEN text \o c.says ELSE text, <<>>, emitted)
Listing(kind) == LET chosen == SelectSeq(emitted, LAMBDA c : c.kind = kind) IN [i \in DOMAIN chosen |-> chosen[i].says]
Completed == stage = "ended" /\ result.how = "completed"

\* The result of a stream is what was emitted: the texts put together, every call once and in order, the finish and the last usage.
EmittedIsReturned ==
    Completed /\ dispatch.call.stream =>
        /\ result.answer.content = NoneIfEmpty(SaidIn("text"))
        /\ result.answer.reasoning = NoneIfEmpty(SaidIn("reasoning"))
        /\ result.answer.calls = Listing("tool_call")
        /\ <<result.answer.finish>> = Listing("finish")
        /\ Listing("usage") = IF result.answer.usage = Absent THEN <<>> ELSE <<result.answer.usage>>

\* An answer that completes is the provider's, whether it came whole or as a stream, in whatever pieces the stream was read and in whatever
\* order the fragments of its calls came: nothing is lost, doubled, made up or told to another call.
StreamSaysTheSame ==
    Completed /\ head.answer # Absent => result.answer = head.answer

\* An answer is cut off by the deadline, whole or streamed: however slowly it trickles, at most one read of it, the one that was waiting when
\* the deadline fell, is over later.  (How late that one is, nothing bounds: nor how late the head comes, or the body of a refusal.)
LateAnswerIsCutOff == overdue <= 1

\* A failure that is called permanent was decided before anything was sent or after the provider's answer had begun: whatever lies
\* between may have been executed, and is never reported as if it had not.
DoubtIsTold == stage = "ended" /\ result.how = "permanent" /\ head = Absent => posted = 0

\* What was sent carries every control of the call, in its preset's form, but for those the preset documents as omitted.
NothingIsDropped ==
    posted > 0 =>
        LET call == dispatch.call
            sent == WireRequest(call, Policy)
        IN /\ sent.choice = call.choice \/ (call.choice = "auto" /\ Policy.choice = "omit_auto")
           /\ call.effort # Absent => Policy.efforts[call.effort] \in {sent.effort[k] : k \in DOMAIN sent.effort}
           /\ call.limit # Absent => sent.limit.value = call.limit
           /\ call.params \subseteq (sent.params \union Policy.omitted) \ Policy.unevidenced
           /\ \A i \in DOMAIN call.messages : call.messages[i].role = "developer" => Policy.developer = "pass"

\* A dispatch asks what the call says, reads no further once its time is over, and does not deny what it may have caused.
DispatchIsHonest == NothingIsDropped /\ LateAnswerIsCutOff /\ DoubtIsTold

\* An honest dispatch whose outcome is what the provider said and what was streamed.
DispatchIsSound == EmittedIsReturned /\ StreamSaysTheSame /\ DispatchIsHonest

\* What the gateway's documentation says of every dispatch: it runs under its deadline, but for the one wait that the deadline falls into.
EndsNearDeadline == stage # "probed" => moment <= DispatchDeadline + SocketCap

\* Whatever the provider sends, the error is one of the adapter's kinds.
FailuresAreTyped == stage = "ended" => result.how # "escaped"
=============================================================================
