----------------------------- MODULE WorkerWire -----------------------------
(***************************************************************************)
(* The worker protocol on one connection (worker_protocol.py and the        *)
(* framing and parsing ends of worker_endpoint.py and worker_client.py):     *)
(* frames, the version the two ends agree on, what each end builds from the   *)
(* objects it accepts and what the other end accepts when it reads them.       *)
(*                                                                         *)
(* A text is its size class: 0 is empty, 1 is within every bound, 2 exceeds    *)
(* the bound of an identifier or a note (200 and 256), 3 a chunk (1 Mi), 4 a     *)
(* tool result (4 Mi), 5 a frame (16 MiB).                                      *)
(***************************************************************************)
EXTENDS AdapterContracts

CONSTANTS
    Offers,     \* the version lists a worker's program may offer, as sets
    Foreign,    \* what a worker of another program may write: frames
    MaxWritten, \* frames per direction
    TornFrame   \* the part of a frame that a broken connection leaves

VARIABLES
    up, down,   \* frames written and not yet read
    workerEnd, serverEnd,  \* the two ends: [at, version, how]
    job,        \* the worker's side of the one attempt
    tracked,    \* the server's side of it: "none", "running" or "suspended"
    written,    \* frames written so far, per direction
    torn,       \* whether the break left part of a frame, per direction
    own,        \* whether the worker is this program
    refused,    \* frames an end refused for their content, or could not frame
    served      \* what the handlers behind a version gate took: [version, what]

\* A field that is not there is no number, no worker's name and no way to end.
ASSUME WireAssumption == Absent \notin Nat /\ Absent \notin {"w", "clean"}

wireVars == <<up, down, workerEnd, serverEnd, job, tracked, written, torn, own, refused, served>>

Supported == {1, 2, 3, 4}
WorkerProtocolVersion == 4
SizeToolResult == 3
SizeFrame == 4
MaxInventories == 8
Codes == {"protocol_version_unsupported", "unauthorized", "malformed_message", "frame_too_large", "attempt_unknown", "unknown_message_type"}

-----------------------------------------------------------------------------
(* What a reader accepts, type by type. *)

\* chunk_from_dict: the fields first, then the constructor.
ReadsChunk(c) == (c.text # Absent => Text(c.text, SizeChunk)) /\ ChunkAccepted(c)
ReadsCall(c) == CallAccepted(c)

VersionList(vs) == vs # {}
ReadsHello(m) == Exact(m) /\ VersionList(m.versions) /\ SafeId(m.worker) /\ (m.label # Absent => SafeId(m.label))
ReadsPairRequest(m) == Exact(m) /\ VersionList(m.versions) /\ (m.label # Absent => SafeId(m.label))
ReadsStateReport(m) == Exact(m) /\ m.inventories <= MaxInventories
ReadsExecuteChunk(m) == Exact(m)
ReadsResultWithReason(m) == Exact(m) /\ m.finish # Absent
ReadsExecuteResult(m) ==
    /\ Exact(m) /\ m.status \in {"completed", "failed", "cancelled"}
    /\ m.finish # Absent => SafeId(m.finish)
    /\ TextOrNone(m.note, SizeNote)
ReadsInterrupted(m) == Exact(m)
ReadsToolCall(m) ==
    /\ Exact(m)
    /\ Text(m.call, SizeIdentifier) /\ Text(m.name, SizeIdentifier) /\ Text(m.arguments, SizeChunk)
    /\ TextOrNone(m.content, SizeChunk)
ReadsHelloAck(m) == Exact(m) /\ m.version >= 1
ReadsPairResult(m) == Exact(m) /\ m.version >= 1 /\ SafeId(m.worker)
ReadsExecute(m) == Exact(m) /\ ReadsCall(m.call)
ReadsCancel(m) == Exact(m)
ReadsToolResult(m) == Exact(m) /\ Text(m.call, SizeIdentifier) /\ Text(m.content, SizeToolResult)
ReadsError(m) == Exact(m) /\ m.code \in Codes

\* parse_worker_message and parse_server_message: an end refuses the types of its own direction.
ServerAccepts(m) ==
    CASE m.type = "hello" -> ReadsHello(m)
      [] m.type = "pair_request" -> ReadsPairRequest(m)
      [] m.type = "state_report" -> ReadsStateReport(m)
      [] m.type = "execute_chunk" -> ReadsExecuteChunk(m)
      [] m.type = "execute_result" -> ReadsExecuteResult(m)
      [] m.type = "attempt_interrupted" -> ReadsInterrupted(m)
      [] m.type = "execute_tool_call" -> ReadsToolCall(m)
      [] m.type \in {"heartbeat", "rotate_credential"} -> Exact(m)
      [] OTHER -> FALSE
WorkerAccepts(m) ==
    CASE m.type = "hello_ack" -> ReadsHelloAck(m)
      [] m.type = "pair_result" -> ReadsPairResult(m)
      [] m.type = "execute" -> ReadsExecute(m)
      [] m.type = "cancel" -> ReadsCancel(m)
      [] m.type = "execute_tool_result" -> ReadsToolResult(m)
      [] m.type = "error" -> ReadsError(m)
      [] m.type \in {"heartbeat_ack", "state_report_ack", "credential_rotated"} -> Exact(m)
      [] OTHER -> FALSE

-----------------------------------------------------------------------------
(* What this program builds. *)

Plain(type) == [type |-> type, shape |-> "exact"]
NoCall == [id |-> 1, name |-> 1, arguments |-> 1]
Assistant == [role |-> "assistant", content |-> 1, reasoning |-> Absent, calls |-> <<>>, tool_call_id |-> Absent, name |-> Absent]
NoChunk == [kind |-> "finish", text |-> Absent, tool_call |-> Absent, finish |-> Absent, usage |-> Absent]

Chunks == {[NoChunk EXCEPT !.kind = k, !.text = t] : k \in {"text_delta", "reasoning_delta"}, t \in 0..3}
    \union {[NoChunk EXCEPT !.kind = "tool_call", !.tool_call = [NoCall EXCEPT !.arguments = a]] : a \in 0..3}
    \union {[NoChunk EXCEPT !.kind = "finish", !.finish = "stop"], [NoChunk EXCEPT !.kind = "usage", !.usage = "tokens"],
            [NoChunk EXCEPT !.kind = "usage", !.usage = "tokens", !.finish = "stop"]}
Messages == {[Assistant EXCEPT !.content = c] : c \in {Absent, 0, 1, 5}} \union {[Assistant EXCEPT !.reasoning = r] : r \in {0, 1}}
Observations == {[index |-> 0, status |-> "completed", note |-> n] : n \in {Absent, 0, 1, 2}}
Result(status, calls, message, finish) == [status |-> status, calls |-> calls, message |-> message, finish |-> finish]
Results ==
    {Result("completed", <<>>, m, f) : m \in {Absent} \union Messages, f \in {Absent, "stop"}}
    \union {Result("failed", <<o>>, Absent, Absent) : o \in Observations}
    \union {Result("cancelled", <<>>, Absent, Absent)}
Questions == {[type |-> "execute_tool_call", shape |-> "exact", call |-> 1, name |-> 1, arguments |-> a, content |-> c] : a \in {1, 2}, c \in {Absent, 1, 4}}

\* A message with reasoning is for version 4; the worker answers with a failure instead.
Representable(m) == m # Absent => (m.reasoning = Absent \/ workerEnd.version >= 4)

\* A reason an adapter gives is cut to the bound of a note.
ResultFrame(r, note) ==
    [type |-> "execute_result", shape |-> "exact", status |-> r.status, calls |-> r.calls, message |-> r.message, finish |-> r.finish, note |-> note]
Failure(note) == ResultFrame(Result("failed", <<>>, Absent, Absent), note)

\* The size of the largest text of a message, which escaping can make several times as large.
Largest(m) ==
    CASE m.type = "execute_tool_result" -> m.content
      [] m.type = "execute_result" -> IF m.message # Absent THEN (IF m.message.content = Absent THEN 0 ELSE m.message.content) ELSE 0
      [] OTHER -> 0
Encoded(m, escaped) == IF escaped /\ Largest(m) >= SizeToolResult THEN SizeFrame + 1 ELSE Largest(m)
Frames(m, escaped) == Encoded(m, escaped) <= SizeFrame

-----------------------------------------------------------------------------
End == [at |-> "idle", version |-> 0, offered |-> {}, how |-> Absent]

WireInit ==
    /\ up = <<>> /\ down = <<>>
    /\ workerEnd = End /\ serverEnd = End
    /\ job = "none" /\ tracked = "none"
    /\ written = [up |-> 0, down |-> 0] /\ torn = [up |-> FALSE, down |-> FALSE]
    /\ own \in BOOLEAN
    /\ refused = {} /\ served = {}

Up(m) == up' = Append(up, m) /\ written' = [written EXCEPT !.up = @ + 1]
Down(m) == down' = Append(down, m) /\ written' = [written EXCEPT !.down = @ + 1]
RoomUp == written.up < MaxWritten
RoomDown == written.down < MaxWritten
Ends(e, how) == [e EXCEPT !.at = "ended", !.how = how]

WorkerGreets ==
    /\ workerEnd.at = "idle"
    /\ \E offer \in IF own THEN {{WorkerProtocolVersion}} ELSE Offers, kind \in {"hello", "pair_request"} :
          /\ Up([type |-> kind, shape |-> "exact", versions |-> offer, worker |-> "w", label |-> Absent])
          /\ workerEnd' = [workerEnd EXCEPT !.at = "greeting", !.offered = offer]
    /\ UNCHANGED <<down, serverEnd, job, tracked, torn, own, refused, served>>

MaxOf(S) == CHOOSE v \in S : \A u \in S : u <= v
LowestCommon(offered) == CHOOSE v \in Supported \intersect offered : \A u \in Supported \intersect offered : v <= u
Negotiated(offered) == MaxOf(Supported \intersect offered)

Fatal(code) == [type |-> "error", shape |-> "exact", code |-> code, fatal |-> TRUE]
Complaint(code) == [type |-> "error", shape |-> "exact", code |-> code, fatal |-> FALSE]

\* A refused frame, or a frame cut short, ends the server's session; it says why before it closes.
ServerRefuses(m) ==
    /\ serverEnd' = Ends(serverEnd, "refused")
    /\ refused' = IF own /\ m # TornFrame THEN refused \union {m} ELSE refused
    /\ Down(Fatal("malformed_message"))

ServerGreets ==
    /\ serverEnd.at = "idle" /\ up # <<>> /\ up' = Tail(up)
    /\ LET m == Head(up) IN
       IF m = TornFrame \/ m.type \notin {"hello", "pair_request"} \/ ~ServerAccepts(m)
       THEN ServerRefuses(m)
       ELSE IF Supported \intersect m.versions = {}
       THEN serverEnd' = Ends(serverEnd, "refused") /\ Down(Fatal("protocol_version_unsupported")) /\ UNCHANGED refused
       ELSE /\ serverEnd' = [serverEnd EXCEPT !.at = "ready", !.version = Negotiated(m.versions)]
            /\ Down([type |-> IF m.type = "hello" THEN "hello_ack" ELSE "pair_result", shape |-> "exact", version |-> serverEnd'.version, worker |-> "w"])
            /\ UNCHANGED refused
    /\ UNCHANGED <<workerEnd, job, tracked, torn, own, served>>

\* The worker's first frame decides: an acknowledgement in its own version, or the end.
WorkerIsGreeted ==
    /\ workerEnd.at = "greeting" /\ down # <<>> /\ down' = Tail(down)
    /\ LET m == Head(down) IN
       IF m = TornFrame \/ m.type \notin {"hello_ack", "pair_result"} \/ ~WorkerAccepts(m)
       THEN workerEnd' = Ends(workerEnd, "refused")
       ELSE workerEnd' = [workerEnd EXCEPT !.at = "ready", !.version = m.version]
    /\ UNCHANGED <<up, serverEnd, job, tracked, written, torn, own, refused, served>>

-----------------------------------------------------------------------------
(* The worker writes. *)

\* A frame that cannot be encoded ends what it was for, never the session.
WorkerWrites(m, escaped) ==
    IF Frames(m, escaped) THEN Up(m) /\ UNCHANGED refused
    ELSE UNCHANGED <<up, written>> /\ refused' = refused \union {m}

WorkerReports ==
    /\ workerEnd.at = "ready" /\ own /\ RoomUp
    /\ \/ \E type \in {"heartbeat", "rotate_credential", "attempt_interrupted"} : Up(Plain(type))
       \/ \E n \in IF workerEnd.version >= 2 THEN {0, 1} ELSE {0} : Up([type |-> "state_report", shape |-> "exact", inventories |-> n])
    /\ UNCHANGED <<down, workerEnd, serverEnd, job, tracked, torn, own, refused, served>>

\* An adapter's chunk goes out as it was built; a result of the adapter ends the job.
WorkerStreams ==
    /\ workerEnd.at = "ready" /\ own /\ job = "running" /\ RoomUp
    /\ \E c \in {d \in Chunks : ChunkAccepted(d)} : Up([type |-> "execute_chunk", shape |-> "exact", chunk |-> c])
    /\ UNCHANGED <<down, workerEnd, serverEnd, job, tracked, torn, own, refused, served>>

WorkerAnswers ==
    /\ workerEnd.at = "ready" /\ own /\ job = "running" /\ RoomUp
    /\ \E r \in {x \in Results : ResultAccepted(x)}, escaped \in BOOLEAN :
          WorkerWrites(IF Representable(r.message) THEN ResultFrame(r, Absent) ELSE Failure(SizeNote), escaped)
    /\ job' = "none"
    /\ UNCHANGED <<down, workerEnd, serverEnd, tracked, torn, own, served>>

\* Only a session of version 3 gives the adapter a bridge.
WorkerAsks ==
    /\ workerEnd.at = "ready" /\ own /\ job = "running" /\ workerEnd.version >= 3 /\ RoomUp
    /\ \E q \in Questions : Up(q)
    /\ job' = "asking"
    /\ UNCHANGED <<down, workerEnd, serverEnd, tracked, torn, own, refused, served>>

\* A worker of another program writes what it likes.
ForeignWrites ==
    /\ workerEnd.at = "ready" /\ ~own /\ RoomUp
    /\ \E m \in Foreign : Up(m)
    /\ UNCHANGED <<down, workerEnd, serverEnd, job, tracked, torn, own, refused, served>>

-----------------------------------------------------------------------------
(* The server reads. *)

Acknowledge(type) == Down(Plain(type)) /\ UNCHANGED <<serverEnd, tracked, refused, served>>
Took(what) == served' = served \union {[version |-> serverEnd.version, what |-> what]}

\* A session below version 3 has no suspensions; below 4 a result has no reasoning, or the attempt fails.
SuspensionGate == serverEnd.version >= 3
ReasoningGateOpen(m) == TRUE
ReasoningGate(m) == m.message # Absent => (m.message.reasoning = Absent \/ serverEnd.version >= 4)

TakeResult(m) ==
    IF ~ReasoningGate(m) THEN Down(Complaint("malformed_message")) /\ UNCHANGED served
    ELSE /\ IF m.message # Absent /\ m.message.reasoning # Absent THEN Took("reasoning") ELSE UNCHANGED served
         /\ UNCHANGED <<down, written>>

ServerHandles(m) ==
    CASE m.type = "heartbeat" -> Acknowledge("heartbeat_ack")
      [] m.type = "state_report" -> Acknowledge("state_report_ack")
      [] m.type = "rotate_credential" -> Acknowledge("credential_rotated")
      [] m.type = "attempt_interrupted" -> tracked' = "none" /\ UNCHANGED <<down, written, serverEnd, refused, served>>
      [] m.type \in {"hello", "pair_request"} -> ServerRefuses(m) /\ UNCHANGED <<tracked, served>>
      [] m.type = "execute_tool_call" /\ ~SuspensionGate -> ServerRefuses(m) /\ UNCHANGED <<tracked, served>>
      [] m.type \in {"execute_chunk", "execute_tool_call", "execute_result"} /\ (m.type = "execute_tool_call" => SuspensionGate) ->
            /\ UNCHANGED <<serverEnd, refused>>
            /\ IF tracked = "none" THEN Down(Complaint("attempt_unknown")) /\ UNCHANGED <<tracked, served>>
               ELSE CASE m.type = "execute_chunk" -> UNCHANGED <<tracked, down, written, served>>
                      [] m.type = "execute_tool_call" /\ tracked = "running" -> tracked' = "suspended" /\ Took("suspension") /\ UNCHANGED <<down, written>>
                      [] m.type = "execute_tool_call" /\ tracked # "running" -> Down(Complaint("malformed_message")) /\ UNCHANGED <<tracked, served>>
                      [] m.type = "execute_result" -> tracked' = "none" /\ TakeResult(m)

\* The stream of a chunk is opened by the thread that waits: one that does not fit fails the attempt, not the session.
ChunkOpens(m) == m.type = "execute_chunk" => ReadsChunk(m.chunk)

ServerReads ==
    /\ serverEnd.at = "ready" /\ up # <<>> /\ up' = Tail(up)
    /\ LET m == Head(up) IN
       IF m = TornFrame \/ ~ServerAccepts(m) THEN ServerRefuses(m) /\ tracked' = "none" /\ UNCHANGED served
       ELSE IF ~ChunkOpens(m)
       THEN tracked' = "none" /\ refused' = (IF own THEN refused \union {m} ELSE refused) /\ UNCHANGED <<down, written, serverEnd, served>>
       ELSE ServerHandles(m)
    /\ UNCHANGED <<workerEnd, job, torn, own>>

-----------------------------------------------------------------------------
(* The server writes. *)

ServerExecutes ==
    /\ serverEnd.at = "ready" /\ tracked = "none" /\ RoomDown
    /\ \E m \in {x \in Messages : MessageAccepted(x)} : Down([type |-> "execute", shape |-> "exact", call |-> [messages |-> <<m>>]])
    /\ tracked' = "running"
    /\ UNCHANGED <<up, workerEnd, serverEnd, job, torn, own, refused, served>>

ServerCancels ==
    /\ serverEnd.at = "ready" /\ tracked # "none" /\ RoomDown
    /\ Down(Plain("cancel"))
    /\ UNCHANGED <<up, workerEnd, serverEnd, job, tracked, torn, own, refused, served>>

\* The gateway lets a tool result of at most 4 Mi characters through, the empty one included.
Admitted(content) == content <= SizeToolResult

\* A tool result that cannot be framed closes the session: it may have been consumed.
ServerAnswers ==
    /\ serverEnd.at = "ready" /\ tracked = "suspended" /\ SuspensionGate /\ RoomDown
    /\ \E content \in 0..3, escaped \in BOOLEAN :
          LET m == [type |-> "execute_tool_result", shape |-> "exact", call |-> 1, content |-> content] IN
          /\ Admitted(content)
          /\ IF Frames(m, escaped) THEN Down(m) /\ tracked' = "running" /\ UNCHANGED <<serverEnd, refused>>
             ELSE serverEnd' = Ends(serverEnd, "failed") /\ tracked' = "none" /\ refused' = refused \union {m} /\ UNCHANGED <<down, written>>
    /\ UNCHANGED <<up, workerEnd, job, torn, own, served>>

\* The worker reads; a frame it refuses is a violation by the server, and ends the session.
WorkerReads ==
    /\ workerEnd.at = "ready" /\ own /\ down # <<>> /\ down' = Tail(down)
    /\ LET m == Head(down) IN
       IF m = TornFrame \/ ~WorkerAccepts(m)
       THEN /\ workerEnd' = Ends(workerEnd, "refused") /\ job' = "none"
            /\ refused' = IF m # TornFrame THEN refused \union {m} ELSE refused
       ELSE /\ UNCHANGED refused
            /\ CASE m.type = "execute" -> job' = (IF job = "none" THEN "running" ELSE job) /\ UNCHANGED workerEnd
                 [] m.type = "cancel" -> job' \in {job, "none"} /\ UNCHANGED workerEnd
                 [] m.type = "execute_tool_result" -> job' = (IF job = "asking" THEN "running" ELSE job) /\ UNCHANGED workerEnd
                 [] m.type = "error" /\ m.fatal ->
                       workerEnd' = Ends(workerEnd, "refused") /\ job' = "none"
                 [] OTHER -> UNCHANGED <<job, workerEnd>>
    /\ UNCHANGED <<up, serverEnd, tracked, written, torn, own, served>>

-----------------------------------------------------------------------------
(* The end of the connection. *)

\* recv_exact: nothing more at a frame's start is the end; inside a frame it is an error.
EndOfAny(stream) == \A i \in DOMAIN stream : i > 1 \/ stream[i] = TornFrame
EndOf(stream) == stream = <<>>

\* A program stops and closes; what it wrote is still read.
WorkerCloses ==
    /\ workerEnd.at = "ready"
    /\ workerEnd' = Ends(workerEnd, "closed") /\ job' = "none"
    /\ UNCHANGED <<up, down, serverEnd, tracked, written, torn, own, refused, served>>

ServerSeesEnd ==
    /\ serverEnd.at \in {"idle", "ready"} /\ workerEnd.at = "ended" /\ EndOf(up)
    /\ serverEnd' = Ends(serverEnd, "clean") /\ tracked' = "none"
    /\ UNCHANGED <<up, down, workerEnd, job, written, torn, own, refused, served>>

WorkerSeesEnd ==
    /\ workerEnd.at \in {"greeting", "ready"} /\ serverEnd.at = "ended" /\ EndOf(down)
    /\ workerEnd' = Ends(workerEnd, "clean") /\ job' = "none"
    /\ UNCHANGED <<up, down, serverEnd, tracked, written, torn, own, refused, served>>

\* The worker dies, or the path does, while the last of its frames is on the way.
Break ==
    /\ workerEnd.at = "ready" /\ up # <<>>
    /\ workerEnd' = Ends(workerEnd, "broken") /\ job' = "none"
    /\ up' = [up EXCEPT ![Len(up)] = TornFrame] /\ torn' = [torn EXCEPT !.up = TRUE]
    /\ UNCHANGED <<down, serverEnd, tracked, written, own, refused, served>>

WireNext ==
    \/ WorkerGreets \/ ServerGreets \/ WorkerIsGreeted
    \/ WorkerReports \/ WorkerStreams \/ WorkerAnswers \/ WorkerAsks \/ ForeignWrites
    \/ ServerReads \/ ServerExecutes \/ ServerCancels \/ ServerAnswers \/ WorkerReads
    \/ WorkerCloses \/ ServerSeesEnd \/ WorkerSeesEnd \/ Break

WireSpec == WireInit /\ [][WireNext]_wireVars

-----------------------------------------------------------------------------
(* Properties. *)

\* The two ends of a session speak the same version, the highest that both programs know.
OneVersion ==
    workerEnd.version # 0 =>
        /\ workerEnd.version = serverEnd.version
        /\ \A v \in Supported \intersect workerEnd.offered : v <= workerEnd.version

\* A session that its server took for properly closed has lost no part of a frame.
CleanEndIsWhole == serverEnd.how = "clean" => ~torn.up

\* No client-tool suspension is taken from a session below version 3 and no reasoning from one below version 4, whatever the worker's program.
GatesHold == \A s \in served : s.version >= (IF s.what = "reasoning" THEN 4 ELSE 3)

\* What one end of this program builds the other end reads, but for an empty tool result, a suspension after more text than a chunk may
\* hold, and texts that escaping makes larger than a frame.
KnownMisfit(m) ==
    \/ m.type = "execute_tool_result" /\ (m.content = 0 \/ ~Frames(m, TRUE))
    \/ m.type = "execute_tool_call" /\ m.content # Absent /\ m.content > SizeChunk
    \/ m.type = "execute_result" /\ ~Frames(m, TRUE)
OwnFramesAreRead == \A m \in refused : KnownMisfit(m)

\* The two ends agree on a version, tell an end from a break, keep the version's gates and read each other.
FramesAreCarried == OneVersion /\ CleanEndIsWhole /\ GatesHold /\ OwnFramesAreRead

-----------------------------------------------------------------------------
(* The inductive invariant. *)

IsSequence(s) == s \in Seq({s[i] : i \in DOMAIN s})
WireEnds(ats) == [at : ats, version : 0..WorkerProtocolVersion, offered : {workerEnd.offered, serverEnd.offered}, how : {workerEnd.how, serverEnd.how}]
WireTypeOK ==
    /\ IsSequence(up) /\ IsSequence(down) /\ own \in BOOLEAN
    /\ workerEnd \in WireEnds({"idle", "greeting", "ready", "ended"}) /\ serverEnd \in WireEnds({"idle", "ready", "ended"})
    /\ written \in [up : {written.up}, down : {written.down}] /\ torn \in [up : BOOLEAN, down : BOOLEAN]

Greeting(m) == m.type \in {"hello", "pair_request"}
Greeted(m) == m.type \in {"hello_ack", "pair_result"}

\* Until the server has read the greeting nothing else is under way; then no greeting is, and a worker that is ready knows the version.
GreetingFacts ==
    /\ workerEnd.at = "idle" => serverEnd.at = "idle" /\ up = <<>>
    /\ serverEnd.at = "idle" =>
          /\ workerEnd.at \in {"idle", "greeting"} /\ down = <<>> /\ serverEnd.version = 0
          /\ workerEnd.at = "greeting" => \E kind \in {"hello", "pair_request"} :
                up = <<[type |-> kind, shape |-> "exact", versions |-> workerEnd.offered, worker |-> "w", label |-> Absent]>>
    /\ workerEnd.at = "greeting" /\ serverEnd.at # "idle" => up = <<>>
    /\ own /\ workerEnd.at # "idle" => workerEnd.offered = {WorkerProtocolVersion}
VersionFacts ==
    /\ serverEnd.version # 0 => Supported \intersect workerEnd.offered # {} /\ serverEnd.version = Negotiated(workerEnd.offered)
    /\ workerEnd.version # 0 => workerEnd.version = serverEnd.version
    /\ workerEnd.at = "ready" => workerEnd.version # 0
    /\ \A i \in DOMAIN down : Greeted(down[i]) => down[i].version = serverEnd.version /\ serverEnd.version # 0

\* A torn frame is the last of a worker that has gone, and the server reads it before the end.
BreakFacts ==
    /\ torn.up => workerEnd.at = "ended" /\ (serverEnd.at # "ended" => up # <<>> /\ up[Len(up)] = TornFrame)
    /\ serverEnd.how = "clean" => workerEnd.at = "ended" /\ serverEnd.at = "ended" /\ ~torn.up

\* What is under way will be read, or is known not to fit.
ServerTakes(m) == ServerAccepts(m) /\ ChunkOpens(m) /\ ~Greeting(m) /\ (m.type = "execute_tool_call" => SuspensionGate)
FrameFacts ==
    own => /\ serverEnd.at # "idle" => \A i \in DOMAIN up : up[i] = TornFrame \/ ServerTakes(up[i]) \/ KnownMisfit(up[i])
           /\ \A i \in DOMAIN down : WorkerAccepts(down[i]) \/ KnownMisfit(down[i])

WireIInv == WireTypeOK /\ GreetingFacts /\ VersionFacts /\ BreakFacts /\ GatesHold /\ FrameFacts /\ OwnFramesAreRead

\* A tool result that the gateway admits is a frame its worker reads.
ToolResultsAreCarried == \A m \in refused : m.type # "execute_tool_result"
=============================================================================
