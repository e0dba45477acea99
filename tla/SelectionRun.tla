---------------------------- MODULE SelectionRun ----------------------------
(***************************************************************************)
(* One selection from the command to the decision: the requirement is      *)
(* resolved, the Codex app server is started and asked (collect_status,    *)
(* openai_codex_acquisition.py: initialize, read the limits, and after an   *)
(* internal error one refresh and one more read), the other provider is     *)
(* asked, and the models are ranked; a simulation of the same inputs can    *)
(* follow.  The app server and its pipe are the other actor: answers come    *)
(* late, twice, damaged or not at all, and the reader thread stops at its    *)
(* byte limit.                                                             *)
(***************************************************************************)
EXTENDS CapacityTelemetry

CONSTANTS
    Entries,           \* the catalog
    Profiles,          \* [profile ids -> requirements]
    Requests,          \* what a call gives: [profile, explicit, tightening, pol, now, resets]
    CodexAnswers,      \* what the app server may answer to a read of the limits
    ZaiAnswers,        \* what the other provider may answer
    Overrides,         \* the overrides of a simulation
    MaxLines           \* lines that fit in the reader's total byte limit

ASSUME SelectionAssumption ==
    /\ "openai" \in Providers /\ MaxLines \in Nat
    /\ \A c \in Entries : EntryTyped(c)
    /\ \A p \in DOMAIN Profiles : NeedTyped(Profiles[p])
    /\ \A c \in Requests :
          /\ PolicyTyped(c.pol) /\ ContextTyped(c.now, c.resets)
          /\ c.tightening # Null => NeedTyped(c.tightening)
    /\ \A o \in Overrides :
          /\ o.pol # Null => PolicyTyped(o.pol) /\ SelectorPolicyAccepted(o.pol)
          /\ o.now # Null => o.now \in Int
          /\ o.resets # Null => \A p \in Providers : o.resets[p] \in Nat \cup {Null}
          /\ \A x \in o.percentages : x.slot \in Slots /\ x.remaining \in 0..100
    /\ \A answer \in ZaiAnswers :
          answer.kind \in {"body", "unavailable", "auth_required", "unsupported", "schema_changed", "unknown"}

ASSUME NullAssumption ==
    /\ Null \notin {"unknown", "policy_blocked", "allowance_unavailable"} /\ Null \notin ZaiAnswers /\ Null \notin [raw : CodexAnswers, id : Nat]
    /\ Raised \notin [baseline : Decisions, simulated : Decisions]

\* Every window of an answer has its slot.
HasSlot(scope, id, w) ==
    \E s \in Slots : SlotOf[s].provider = "openai" /\ SlotOf[s].scope = scope /\ SlotOf[s].id = id /\ SlotOf[s].kind = ParseWindow(w).kind
ASSUME SlotsCover ==
    \A raw \in CodexAnswers : \A i \in WindowSlots :
        /\ raw.main.wins[i] # Null /\ ParseWindow(raw.main.wins[i]) # Null => HasSlot(Codex, i, raw.main.wins[i])
        /\ raw.extra # Null =>
              (raw.extra.wins[i] # Null /\ ParseWindow(raw.extra.wins[i]) # Null => HasSlot(Bucket, i, raw.extra.wins[i]))

VARIABLES
    pc,                \* where the call is
    call,              \* what it was given
    req,               \* the resolved requirement
    asked,             \* ids of the requests written to the app server
    queue,             \* what the reader thread has put in its queue
    lines,             \* lines the reader has counted
    child,             \* the app server process: "none", "running", "dead"
    reader,            \* the reader thread: "none", "running", "stopped"
    heard,             \* the answer the session used, or Null
    obs,               \* the Codex observation [snapshot, eligibility], or Null
    zai,               \* the answer of the other provider, or Null
    decision,          \* the decision, or Null
    simulation         \* the simulation result, or Null

vars == <<pc, call, req, asked, queue, lines, child, reader, heard, obs, zai, decision, simulation>>
session == <<asked, queue, lines, heard>>
intake == <<call, req>>

InitializeId == 1
ReadId == 2
RefreshId == 3
RetryId == 4

\* The id the session waits for.
Expected == CASE pc = "initializing" -> InitializeId
              [] pc = "reading" -> ReadId
              [] pc = "refreshing" -> RefreshId
              [] pc = "retrying" -> RetryId

Waiting == pc \in {"initializing", "reading", "refreshing", "retrying"}

Observation(status) == [snapshot |-> Failure(status), eligibility |-> FailureEligibility(status)]

Init ==
    /\ pc = "called" /\ call \in Requests /\ req = Null
    /\ asked = {} /\ queue = <<>> /\ lines = 0
    /\ child = "none" /\ reader = "none" /\ heard = Null
    /\ obs = Null /\ zai = Null /\ decision = Null /\ simulation = Null

-----------------------------------------------------------------------------
(* selection_app.py *)

\* Inputs that a constructor or the resolution refuses end the call.
InputsAccepted(c) ==
    /\ CatalogAccepted(Entries)
    /\ SelectorPolicyAccepted(c.pol)
    /\ LET requirement == ResolveRequirement(Profiles, c.profile, c.explicit, c.tightening)
       IN  requirement # Raised /\ RequirementAccepted(requirement)

Resolve ==
    /\ pc = "called"
    /\ IF InputsAccepted(call)
       THEN pc' = "discovering" /\ req' = ResolveRequirement(Profiles, call.profile, call.explicit, call.tightening)
       ELSE pc' = "refused" /\ req' = Null
    /\ UNCHANGED <<call, session, child, reader, obs, zai, decision, simulation>>

-----------------------------------------------------------------------------
(* openai_codex_acquisition.py *)

\* discover_codex_binary and discover_codex_installation: nothing installed,
\* or an installation that is not understood.
NotInstalled(status) ==
    /\ pc = "discovering"
    /\ obs' = Observation(status)
    /\ pc' = "asking"
    /\ UNCHANGED <<intake, session, child, reader, zai, decision, simulation>>

SpawnFails ==
    /\ pc = "discovering"
    /\ obs' = Observation("unavailable")
    /\ pc' = "asking"
    /\ UNCHANGED <<intake, session, child, reader, zai, decision, simulation>>

Spawn ==
    /\ pc = "discovering"
    /\ child' = "running" /\ reader' = "running"
    /\ asked' = {InitializeId}
    /\ pc' = "initializing"
    /\ UNCHANGED <<intake, queue, lines, heard, obs, zai, decision, simulation>>

\* The reader thread could not be started: the child is shut down at once.
ReaderFails ==
    /\ pc = "discovering"
    /\ child' = "running"
    /\ obs' = Observation("unavailable")
    /\ pc' = "closing"
    /\ UNCHANGED <<intake, session, reader, zai, decision, simulation>>

OverTotalLate == lines = MaxLines + 1

\* The next line does not fit in the total.
OverTotal == lines = MaxLines

\* A line, the end of the stream or a read error; a line over the limits
\* stops the reader.
Reads(kind, id) ==
    /\ Waiting /\ reader = "running" /\ Len(queue) < 2
    /\ id \in asked
    /\ IF kind \in {"eof", "failed"} \/ OverTotal
       THEN /\ queue' = Append(queue, [kind |-> IF kind = "failed" THEN "failed"
                                                ELSE IF OverTotal THEN "oversized" ELSE "eof",
                                       id |-> 0])
            /\ reader' = "stopped"
            /\ UNCHANGED lines
       ELSE /\ queue' = Append(queue, [kind |-> kind, id |-> id])
            /\ lines' = lines + 1
            /\ UNCHANGED reader
    /\ UNCHANGED <<pc, intake, asked, child, heard, obs, zai, decision, simulation>>

AppServerWrites ==
    \/ \E kind \in {"result", "error", "internal"}, id \in asked : Reads(kind, id)
    \/ \E kind \in {"malformed", "notification", "eof", "failed"} : Reads(kind, InitializeId)

\* End of the session: the observation is kept and the child shut down.
Ends(status) ==
    /\ obs' = Observation(status)
    /\ pc' = "closing"
    /\ UNCHANGED <<asked, heard>>

\* The next request, or a broken pipe.
SendsOrFails(id, next) ==
    \/ asked' = asked \cup {id} /\ pc' = next /\ UNCHANGED <<heard, obs>>
    \/ Ends("unavailable")

AnyResponse(message) == message.kind \in {"result", "error", "internal"}

\* A response to the request the session is waiting for; everything else that
\* is well formed is skipped.
Answers(message) == message.kind \in {"result", "error", "internal"} /\ message.id = Expected

Skip ==
    /\ Waiting /\ queue # <<>>
    /\ Head(queue).kind \in {"result", "error", "internal", "notification"}
    /\ ~Answers(Head(queue))
    /\ queue' = Tail(queue)
    /\ UNCHANGED <<pc, intake, asked, lines, child, reader, heard, obs, zai, decision, simulation>>

AfterResult ==
    \/ pc = "initializing" /\ SendsOrFails(ReadId, "reading")
    \/ pc = "initializing" /\ Ends("schema_changed")        \* a result without its fields
    \/ pc = "refreshing" /\ SendsOrFails(RetryId, "retrying")
    \/ /\ pc \in {"reading", "retrying"}
       /\ \E raw \in CodexAnswers :
            /\ heard' = [raw |-> raw, id |-> Head(queue).id]
            /\ obs' = [snapshot |-> ParseCodexRateLimits(raw), eligibility |-> ParseCodexEligibility(raw)]
       /\ pc' = "closing"
       /\ UNCHANGED asked

\* Only an internal error of the first read is worth a refresh.
AfterError(message) ==
    IF pc = "reading" /\ message.kind = "internal"
    THEN SendsOrFails(RefreshId, "refreshing")
    ELSE Ends("unknown")

Take ==
    /\ Waiting /\ queue # <<>>
    /\ \/ Answers(Head(queue)) /\ Head(queue).kind = "result" /\ AfterResult
       \/ Answers(Head(queue)) /\ Head(queue).kind # "result" /\ AfterError(Head(queue))
       \/ Head(queue).kind \in {"eof", "failed"} /\ Ends("unavailable")
       \/ Head(queue).kind \in {"malformed", "oversized"} /\ Ends("schema_changed")
    /\ queue' = Tail(queue)
    /\ UNCHANGED <<intake, lines, child, reader, zai, decision, simulation>>

HasDeadlineOnce == Waiting /\ pc # "retrying"

\* Every wait ends at the startup or the session deadline.
HasDeadline == Waiting

Timeout ==
    /\ HasDeadline
    /\ Ends("unavailable")
    /\ UNCHANGED <<intake, queue, lines, child, reader, zai, decision, simulation>>

\* _shutdown: terminate, then kill; a child or a reader that is still there
\* afterwards takes the observation with it.
Reaped ==
    /\ pc = "closing"
    /\ child' = "dead"
    /\ reader' = IF reader = "none" THEN "none" ELSE "stopped"
    /\ pc' = "asking"
    /\ asked' = {} /\ queue' = <<>> /\ lines' = 0
    /\ UNCHANGED <<intake, heard, obs, zai, decision, simulation>>

UnreapedKeeps ==
    /\ pc = "closing"
    /\ child' \in {"running", "dead"}
    /\ pc' = "asking"
    /\ asked' = {} /\ queue' = <<>> /\ lines' = 0
    /\ UNCHANGED <<intake, heard, reader, obs, zai, decision, simulation>>

Unreaped ==
    /\ pc = "closing"
    /\ child' \in {"running", "dead"}
    /\ obs' = Observation("unavailable")
    /\ pc' = "asking"
    /\ asked' = {} /\ queue' = <<>> /\ lines' = 0
    /\ UNCHANGED <<intake, heard, reader, zai, decision, simulation>>

-----------------------------------------------------------------------------
(* zai_acquisition.py *)

ZaiObservation(answer) ==
    IF answer.kind = "body" THEN ParseZaiQuota(answer) ELSE Failure(answer.kind)

CollectZai ==
    /\ pc = "asking" /\ zai = Null
    /\ \E answer \in ZaiAnswers : zai' = answer
    /\ pc' = "deciding"
    /\ UNCHANGED <<intake, session, child, reader, obs, decision, simulation>>

-----------------------------------------------------------------------------
(* select_from_inputs, simulate_from_inputs *)

Inputs ==
    [req |-> req, pol |-> call.pol, now |-> call.now, resets |-> call.resets, blocked |-> {},
     snap |-> [p \in Providers |-> IF p = "openai" THEN obs.snapshot ELSE ZaiObservation(zai)],
     elig |-> [p \in Providers |-> IF p = "openai" THEN obs.eligibility.state ELSE Null]]

SelectFromInputs ==
    /\ pc = "deciding"
    /\ decision' = SelectModel(Entries, Inputs)
    /\ pc' = "decided"
    /\ UNCHANGED <<intake, session, child, reader, obs, zai, simulation>>

SimulateFromInputs(o) ==
    /\ pc = "decided" /\ simulation = Null
    /\ simulation' = [overrides |-> o, result |-> SimulateSelection(Entries, Inputs, o)]
    /\ UNCHANGED <<pc, intake, session, child, reader, obs, zai, decision>>

Next ==
    \/ Resolve
    \/ NotInstalled("unavailable") \/ NotInstalled("unsupported")
    \/ Spawn \/ SpawnFails \/ ReaderFails
    \/ AppServerWrites
    \/ Skip \/ Take \/ Timeout
    \/ Reaped \/ Unreaped
    \/ CollectZai
    \/ SelectFromInputs
    \/ \E o \in Overrides : SimulateFromInputs(o)

Spec == Init /\ [][Next]_vars

\* The steps of the call itself happen: every wait has a deadline, the
\* shutdown has bounded waits and the request to the other provider a timeout.
FairSpec ==
    /\ Spec
    /\ WF_vars(Resolve)
    /\ WF_vars(NotInstalled("unavailable") \/ Spawn)
    /\ WF_vars(Timeout)
    /\ WF_vars(Reaped \/ Unreaped)
    /\ WF_vars(CollectZai)

-----------------------------------------------------------------------------
(* What holds between two steps of a call: which requests are out and what was heard of them, where the observation comes from, and that  *)
(* the decision is the selector's on the inputs as they still are.                                                                      *)

Failing == {"unavailable", "unsupported", "schema_changed", "unknown"}
Messages == [kind : {"result", "error", "internal", "malformed", "notification", "eof", "failed", "oversized"}, id : 0..4]
Observed(raw) == [snapshot |-> ParseCodexRateLimits(raw), eligibility |-> ParseCodexEligibility(raw)]

AskedFacts ==
    /\ asked = CASE pc = "initializing" -> {InitializeId}
                 [] pc = "reading" -> {InitializeId, ReadId}
                 [] pc = "refreshing" -> {InitializeId, ReadId, RefreshId}
                 [] pc = "retrying" -> {InitializeId, ReadId, RefreshId, RetryId}
                 [] OTHER -> IF pc = "closing" THEN asked ELSE {}
    /\ pc \in {"called", "refused", "discovering"} \/ Waiting => heard = Null /\ obs = Null
    /\ pc = "closing" /\ heard # Null => heard.id = IF RefreshId \in asked THEN RetryId ELSE ReadId
ObservedFacts ==
    pc \in {"closing", "asking", "deciding", "decided"} =>
        \/ obs \in {Observation(status) : status \in Failing}
        \/ \E raw \in CodexAnswers : heard # Null /\ heard.raw = raw /\ obs = Observed(raw)
InputFacts ==
    /\ pc \notin {"called", "refused"} =>
          InputsAccepted(call) /\ req = ResolveRequirement(Profiles, call.profile, call.explicit, call.tightening)
    /\ pc \in {"called", "refused"} => req = Null
    /\ pc \in {"deciding", "decided"} => zai # Null
    /\ pc \notin {"deciding", "decided"} => zai = Null
DecisionFacts ==
    /\ decision = IF pc = "decided" THEN SelectModel(Entries, Inputs) ELSE Null
    /\ simulation # Null =>
          pc = "decided" /\ \E o \in Overrides : simulation = [overrides |-> o, result |-> SimulateSelection(Entries, Inputs, o)]

-----------------------------------------------------------------------------
(* Properties *)

Statuses == {"ok", "unavailable", "auth_required", "unsupported", "schema_changed", "unknown"}

\* Every variable has its type.
TypeOK ==
    /\ pc \in {"called", "refused", "discovering", "initializing", "reading", "refreshing",
               "retrying", "closing", "asking", "deciding", "decided"}
    /\ call \in Requests /\ asked \subseteq 1..4 /\ Len(queue) <= 2 /\ lines \in 0..MaxLines
    /\ child \in {"none", "running", "dead"} /\ reader \in {"none", "running", "stopped"}
    /\ heard # Null => heard.raw \in CodexAnswers
    /\ obs # Null => obs.snapshot.status \in Statuses
    /\ zai \in ZaiAnswers \cup {Null}

\* The invariant of a call.
SelectionIInv ==
    /\ TypeOK /\ queue \in Seq(Messages)
    /\ AskedFacts /\ ObservedFacts /\ InputFacts /\ DecisionFacts
    /\ (pc \in {"asking", "deciding", "decided"} /\ obs.snapshot.status \notin {"unavailable", "unsupported"} => child = "dead")

\* _shutdown: an observation that reports anything but "unavailable" is only
\* published once the app server is dead, so no call leaves a child behind
\* that the next call would find beside its own.
NoChildBehindAnObservation ==
    pc \in {"asking", "deciding", "decided"} /\ obs.snapshot.status \notin {"unavailable", "unsupported"}
        => child = "dead"

\* _await_response: the answer used is one the session asked for last, however
\* late or often the app server answers the earlier requests.
AnswerIsToTheLastRead ==
    pc = "closing" /\ heard # Null => heard.id = IF RefreshId \in asked THEN RetryId ELSE ReadId

\* What the constructors check of themselves never fails in a selection: no
\* input that was accepted ends in a contract error.
EveryConstructorAccepts ==
    /\ obs # Null => SnapshotAccepted(obs.snapshot) /\ EligibilityAccepted(obs.eligibility)
    /\ zai # Null => SnapshotAccepted(ZaiObservation(zai))
    /\ decision # Null => DecisionAccepted(decision)
    /\ simulation # Null /\ simulation.result # Raised => DecisionAccepted(simulation.result.simulated)

SelectedEntry == CHOOSE c \in Entries : c.id = decision.selected.id

\* A signal in the Codex answer that the subscription must not be used.
ForbiddenBy(raw) ==
    \/ raw.upsell \/ raw.main.reached \/ raw.ordinary \in {"false", "null"}
    \/ raw.main.spend = "true" \/ raw.main.individual = "exhausted"
    \/ raw.main.credits = "purchased"
    \/ \E i \in WindowSlots : raw.main.wins[i] # Null /\ raw.main.wins[i].used = 100

\* D-039: whatever the policy says, a model of the subscription is selected
\* only on an answer that carries no signal against it.
NothingForbiddenIsSelected ==
    decision # Null /\ decision.selected # Null /\ SelectedEntry.provider = "openai"
        => heard # Null /\ ~ForbiddenBy(heard.raw)

\* A model one of whose quota windows is used up is never selected, whatever
\* the other windows leave and whatever the policy does with unknown ones.
NothingExhaustedIsSelected ==
    decision # Null /\ decision.selected # Null =>
        LET c == SelectedEntry
        IN  c.bindings # Null => \A b \in c.bindings : \A s \in KnownSlots(b, Inputs.snap) :
                Remaining(s, Inputs.snap) > 0

\* A reservation keeps the last of a window for the tasks above a level.
ReservationsHold ==
    decision # Null /\ decision.selected # Null =>
        \A r \in call.pol.reservations :
            LET c == SelectedEntry
            IN  (c.bindings # Null /\ r.scope \in c.bindings /\ req.level < r.level) =>
                    LET slots == {s \in KnownSlots(r.scope, Inputs.snap) :
                                    SlotOf[s].kind = r.kind /\ SlotOf[s].resource = r.resource}
                    IN  slots # {} /\ \A s \in slots : Remaining(s, Inputs.snap) >= r.below

\* The instants a rule names: those within an interval that starts on one of
\* its days, counted from that day's midnight.
NamedBy(rule, now) ==
    LET local == now + rule.offset
        length == IF rule.start < rule.end THEN rule.end - rule.start
                  ELSE rule.end + DayLen - rule.start
    IN  \E back \in 0..1 :
            LET date == local \div DayLen - back
                from == date * DayLen + rule.start
            IN  /\ date % WeekLen \in rule.days
                /\ from <= local /\ local < from + length

\* No model is selected during a blackout of it, also after midnight of the
\* day the blackout started on.
BlackoutsHold ==
    decision # Null /\ decision.selected # Null =>
        \A i \in DOMAIN call.pol.blackouts :
            LET rule == call.pol.blackouts[i]
            IN  ~(Matches(rule.target, SelectedEntry) /\ NamedBy(rule, call.now)
                  /\ DateBoundsContain(rule, call.now))

\* Inputs in which these windows of a provider are unused.
Refill(inp, p, own) ==
    LET wins == [s \in Slots |-> IF s \in own THEN 100 ELSE inp.snap[p].wins[s]]
        snap == [inp.snap EXCEPT ![p] = [inp.snap[p] EXCEPT !.wins = wins]]
    IN  [inp EXCEPT !.snap = snap]

\* More of the selected model's own quota never makes it lose: the ranking
\* has no reading above which a model becomes less attractive.
MoreQuotaKeepsTheSelection ==
    decision # Null /\ decision.selected # Null =>
        LET c == SelectedEntry
            own == IF c.bindings = Null THEN {}
                   ELSE UNION {KnownSlots(b, Inputs.snap) : b \in c.bindings}
            shared == \E d \in Entries \ {c} : d.bindings # Null /\ c.bindings # Null
                                               /\ d.bindings \cap c.bindings # {}
        IN  ~shared => SelectModel(Entries, Refill(Inputs, c.provider, own)).selected.id = c.id

\* A tightened profile is never laxer than the profile: what passes the
\* requirement that is used passes the profile.
TighteningOnlyNarrows ==
    req # Null /\ call.profile # Null =>
        \A c \in Entries :
            /\ HardFailures(req, c) = {} => HardFailures(Profiles[call.profile], c) = {}
            /\ CapabilityFailures(req, c) = {} => CapabilityFailures(Profiles[call.profile], c) = {}

\* A simulation leaves the decision of the real readings as it is, and
\* never turns a reading nobody has, or two for one window, into one it could decide on.
SimulationIsHypothetical ==
    simulation # Null =>
        /\ simulation.result = Raised <=>
             \E o \in simulation.overrides.percentages :
                Inputs.snap[SlotOf[o.slot].provider].wins[o.slot] \in {NoWindow, Unknown}
                \/ Inputs.snap[SlotOf[o.slot].provider].status # "ok"
                \/ \E q \in simulation.overrides.percentages : o # q /\ o.slot = q.slot
        /\ simulation.result # Raised =>
             /\ simulation.result.baseline = decision
             /\ \A o \in simulation.overrides.percentages :
                    LET s == simulation.result.simulated.selected
                    IN  o.remaining = 0 /\ s # Null =>
                            \A c \in Entries : c.id = s.id /\ c.bindings # Null =>
                                \A b \in c.bindings : o.slot \notin SlotsOfScope(b)

\* What is selected may be used: no signal, spent window, reservation or
\* blackout speaks against it.
SelectedIsAllowed == NothingForbiddenIsSelected /\ NothingExhaustedIsSelected /\ ReservationsHold /\ BlackoutsHold

\* What reaches the decision was acquired in order, from the last answer and
\* from a dead child, and is what the decision's constructors accept.
AcquisitionIsOrderly == TypeOK /\ NoChildBehindAnObservation /\ AnswerIsToTheLastRead /\ EveryConstructorAccepts

\* Decisions on related inputs are related.
DecisionsCompare == MoreQuotaKeepsTheSelection /\ TighteningOnlyNarrows /\ SimulationIsHypothetical

\* Every call is refused or has what it needs to decide, whatever the app
\* server does: no answer, no end of the stream and no exit is waited for
\* without a deadline.
EveryCallIsReadyToDecide == <>(pc \in {"refused", "deciding", "decided"})
=============================================================================
