----------------------------- MODULE RoutingRun -----------------------------
(***************************************************************************)
(* The router over time: observations arrive and age, the administrator     *)
(* and the client's grant change, adapters come and go, while a client      *)
(* first asks for an executable target (select_executable), keeps the pin   *)
(* and the requirements it was given, and executes with them later          *)
(* (_routing_request, bind, admit_pinned_target, _enforce_effective_limits). *)
(***************************************************************************)
EXTENDS Routing

CONSTANTS
    Registrations,   \* the resources the administrator may register
    Observations,    \* what may be observed, without its instant
    Reports,         \* the sets of them a worker may report together
    Starts,          \* what may have been observed before the start
    FirstAdmin, FirstClient, Catalogs, Admins, Clients, AdapterSets, ContinuationSets, Controls,
    Cells, Policy, RequestProfiles,
    Demands,         \* [b, task]: what a client asks to be selected for
    Interpretations, Digests,
    MaxLimit,        \* the gateway's own output allowance
    MaxTime, MaxChanges

\* What the constructors of an identity, a registration, an observation and a
\* catalog make of their fields.
IdentityTyped(identity) ==
    /\ identity.id \in Nat
    /\ identity = [provider |-> identity.provider, id |-> identity.id, channel |-> identity.channel, model |-> identity.model,
                   variant |-> identity.variant, entitlement |-> identity.entitlement, pools |-> identity.pools]
    /\ identity.pools \subseteq STRING
Intervals == [from : Nat, until : Nat]
RegistrationTyped(x) ==
    /\ RegistrationAccepted(x) /\ IdentityTyped(x.identity)
    /\ x.ttl \in Nat /\ x.cost \in Nat \cup {Null}
    /\ x.caps = [ctx |-> x.caps.ctx, out |-> x.caps.out, tools |-> x.caps.tools, control |-> x.caps.control,
                evidence |-> x.caps.evidence]
    /\ x.caps.ctx \in Nat \cup {Null} /\ x.caps.out \in Nat \cup {Null} /\ x.caps.evidence \in Intervals \cup {Null}
ObservationTyped(o) ==
    /\ ObservationAccepted(o) /\ IdentityTyped(o.identity)
    /\ \A f \in o.facts : f.remaining \in {Unknown} \cup 0..100 /\ f.reset \in Nat \cup {Null}
    /\ \A p \in o.promotions : p.source \in STRING
EntryFields ==
    {"provider", "id", "model", "variant", "ctx", "out", "tools", "effort", "capRes", "bindings", "capability", "reasons", "resBind"}
CatalogTyped(catalog) ==
    /\ catalog.versioned \in BOOLEAN /\ CatalogAccepted(catalog.entries)
    /\ \A c \in catalog.entries :
          /\ EntryTyped(c) /\ DOMAIN c = EntryFields
          /\ \A x \in c.resBind : x.bindings # Null => /\ x.bindings # {} /\ x.bindings \subseteq Scopes
                                                       /\ \A b \in x.bindings : b.provider = c.provider

\* What the constructors of the two authorities make of theirs.
Channels == {"server_direct_http", "worker_bridged", "local_app_adapter"}
Entitlements ==
    {"subscription_included", "promotional", "payg_metered", "prepaid_credits", "local_ungated", "unknown"}
AuthorityTyped(who) ==
    /\ who.providers # Null => who.providers \subseteq Providers
    /\ who.channels # Null => who.channels \subseteq Channels
    /\ who.entitlements # Null => who.entitlements \subseteq Entitlements
    /\ who.limit \in Nat \cup {Null}

\* A requirement; what a request asks of its route, under a name that is known.
Requirements ==
    [level : Int, rating : Nat \cup {Null}, ctx : Nat \cup {Null}, out : Nat \cup {Null}, tools : BOOLEAN,
     provider : Providers \cup {Null}]
BindingFields == {"features", "ctx", "out", "alias", "model", "variant", "pin"}
BindingTyped(b) ==
    /\ DOMAIN b = BindingFields /\ b.ctx \in Nat \cup {Null} /\ b.out \in Nat \cup {Null}
    /\ b.alias # Null => b.alias \in DOMAIN RequestProfiles

\* Where a request may be sent.
RouteTargets ==
    [res : Nat, model : Nat, effort : STRING \cup {Null}, promotions : SUBSET STRING, pools : SUBSET STRING,
     evidence : Intervals \cup {Null}, ctx : Nat \cup {Null}]

ASSUME RoutingAssumption ==
    /\ MaxTime \in Nat /\ MaxChanges \in Nat
    /\ \A x \in Registrations : RegistrationTyped(x)
    /\ \A o \in Observations : ObservationTyped(o)
    /\ Starts \subseteq SUBSET Observations /\ Reports \subseteq SUBSET Observations
    /\ PolicyTyped(Policy) /\ SelectorPolicyAccepted(Policy)
    /\ \A c \in Catalogs : CatalogTyped(c)
    /\ FirstAdmin \in Admins /\ FirstClient \in Clients
    /\ \A who \in Admins \cup Clients : AuthorityTyped(who)
    /\ \A s \in (SUBSET Providers) \cup (SUBSET Channels) \cup (SUBSET Entitlements) : s # Null
    /\ Null \notin AdapterSets \cup {{x.identity.id : x \in Registrations}}
    /\ Null \notin {"binding", "authorization", "availability", "compatibility"}
    /\ \A d \in Demands : BindingTyped(d.b) /\ d.task \in Requirements
    /\ \A p \in DOMAIN RequestProfiles : RequestProfiles[p] \in Requirements
    /\ Null \notin Requirements /\ Null \notin RouteTargets /\ Raised \notin Requirements /\ Raised \notin Nat \cup {Null}

VARIABLES
    now,
    reg,
    world,      \* [catalog, admin, client, adapters, conts, control]
    held,       \* what the client keeps of its selection
    last,       \* the last operation and its result
    changes

routeVars == <<now, reg, world, held, last, changes>>

Idle == [op |-> "none"]

Dated(o, at) == [identity |-> o.identity, at |-> at, health |-> o.health, facts |-> o.facts, promotions |-> o.promotions]

Resources == {x.identity.id : x \in Registrations} \cup {o.identity.id : o \in Observations}

\* A configuration is loaded; observed is what was last observed of its resources.
RouteInit ==
    /\ now = 0 /\ reg = EmptyRegistry(Resources)
    /\ \E c \in Catalogs :
          world = [catalog |-> c, admin |-> FirstAdmin, client |-> FirstClient,
                   adapters |-> {x.identity.id : x \in Registrations},
                   conts |-> {x.identity.id : x \in Registrations}, control |-> 1]
    /\ \E first \in Starts : last = [op |-> "starting", observed |-> first]
    /\ held = Null /\ changes = 0

Stored(outcome) == reg' = IF outcome = Raised THEN reg ELSE outcome

\* _rebuild_application: a resource is registered and its last observation
\* applied again; requests are served once all are registered.
RegisterResource(x) ==
    LET registered == Register(reg, x)
        known == {o \in last.observed : o.identity.id = x.identity.id}
    IN  /\ last.op = "starting" /\ ~IsRegistered(reg, x.identity.id)
        /\ Stored(IF registered = Raised \/ known = {} THEN registered
                  ELSE ApplySnapshot(registered, Dated(CHOOSE o \in known : TRUE, 0), 0))
        /\ UNCHANGED <<now, world, held, last, changes>>

Serve ==
    /\ last.op = "starting" /\ \A x \in Registrations : IsRegistered(reg, x.identity.id)
    /\ last' = Idle
    /\ UNCHANGED <<now, reg, world, held, changes>>

Changing == last.op # "starting" /\ changes < MaxChanges /\ changes' = changes + 1

Tick ==
    /\ last.op # "starting"
    /\ now < MaxTime /\ now' = now + 1
    /\ last' = Idle
    /\ UNCHANGED <<reg, world, held, changes>>

\* The server polls a resource it reaches itself, when that is due.
Observe(o) ==
    /\ Changing
    /\ o.identity.channel = "server_direct_http" /\ o.identity.id \in RefreshDue(reg, now)
    /\ Stored(ApplySnapshot(reg, Dated(o, now), now))
    /\ last' = Idle
    /\ UNCHANGED <<now, world, held>>

\* A worker reports several resources by its own clock.
WorkerReports(observations, skew) ==
    /\ Changing
    /\ LET report == [at |-> now + skew, resources |-> {Dated(o, now + skew) : o \in observations}]
       IN  /\ WorkerReportAccepted(report)
           /\ Stored(ApplyWorkerReport(reg, report, now))
    /\ last' = Idle
    /\ UNCHANGED <<now, world, held>>

\* The control plane, the adapters and the continuation sessions change.
Reconfigure ==
    /\ Changing
    /\ \/ \E a \in Admins : world' = [world EXCEPT !.admin = a]
       \/ \E g \in Clients : world' = [world EXCEPT !.client = g]
       \/ \E s \in AdapterSets : world' = [world EXCEPT !.adapters = s]
       \/ \E s \in ContinuationSets : world' = [world EXCEPT !.conts = s]
       \/ \E c \in Controls : world' = [world EXCEPT !.control = c]
       \/ \E c \in Catalogs : c.versioned = world.catalog.versioned /\ world' = [world EXCEPT !.catalog = c]
    /\ world' # world
    /\ last' = Idle
    /\ UNCHANGED <<now, reg, held>>

\* Evidence of the control revision it was taken under: revision 1.
ControlEvidence(identity) ==
    [scope |-> [resource |-> identity, instance |-> "adapter", revision |-> 1], class |-> "verified_control",
     modes |-> NonPaidModes, at |-> 0, until |-> MaxTime]

Assurances(entries) ==
    IF ~world.client.strictNoPayg THEN {}
    ELSE {ReceiveExecutionAssurance(e.identity, "adapter", world.control, ControlEvidence(e.identity)) :
             e \in {f \in entries : f.identity.id \in world.adapters}}

\* _routing_request: the state of now around a binding.  It is read as of the instant the request began (started): one that began earlier and
\* can still read it is a request of that instant, and one that cannot is RouteOvertaken.
RoutingInput(b, profile, candidates) ==
    LET snapshot == RegistrySnapshot(reg, now)
    IN  [catalog |-> world.catalog, reg |-> snapshot, pol |-> Policy,
         snap |-> [p \in Providers |-> Null], elig |-> [p \in Providers |-> Null], resets |-> [p \in Providers |-> Null],
         cells |-> Cells, admin |-> world.admin, client |-> world.client, profile |-> profile, profiles |-> RequestProfiles,
         b |-> b, task |-> Null, effort |-> FALSE, adapters |-> world.adapters, conts |-> world.conts,
         candidates |-> candidates, assurances |-> Assurances(snapshot.entries),
         miBlocked |-> {}, miChannels |-> {}, now |-> now]

Blank == [features |-> {}, ctx |-> Null, out |-> Null, alias |-> Null, model |-> Null, variant |-> Null, pin |-> Null]

ProfileOf(b) == IF b.alias = Null THEN Null ELSE [id |-> b.alias, providers |-> Null]

\* The request's own output limit is the gateway's.
WithinRequestLimits(b) == b.out # Null => b.out <= MaxLimit

\* executable_quality_requirement: the requirement without the output ceiling.
QualityRequirement(rq) == RouteRequirement([rq EXCEPT !.b.out = Null])

WithinExecutableLimits(rq) ==
    LET floor == QualityRequirement(rq).out
    IN  floor # Null => floor <= MaxLimit

\* What a request is told: that it failed, or the decision and its document.
Refused == [op |-> "refused"]
AnswerOf(rq, d) == IF d = Raised THEN Refused ELSE [op |-> "select", rq |-> rq, out |-> d, document |-> PublicRouteDocument(d, rq)]
Routed(rq) == IF rq = Raised THEN Refused ELSE AnswerOf(rq, RouteRequest(rq))

\* What the client keeps: the pin, the requirement and the binding.
Retained(rq, d) ==
    LET pin == PinOf(d.target, EntryOf(rq, d.target.model).variant)
    IN  [pin |-> pin, requirement |-> QualityRequirement(rq), b |-> [rq.b EXCEPT !.pin = pin],
         expansion |-> IF rq.profile = Null THEN Null ELSE rq.profiles[rq.profile.id],
         versioned |-> rq.catalog.versioned,
         effort |-> IF rq.catalog.versioned THEN EntryOf(rq, d.target.model).effort ELSE d.target.effort, seen |-> [now |-> now, changes |-> changes]]

\* select_executable; a client that holds a target does not ask again.
KeepAnswer(rq, answer) ==
    /\ last' = answer
    /\ held' = IF answer = Refused \/ answer.out.target = Null THEN held ELSE Retained(rq, answer.out)

SelectFor(rq) == KeepAnswer(rq, IF rq # Raised /\ WithinExecutableLimits(rq) THEN Routed(rq) ELSE Refused)

SelectExecutable(demand) ==
    LET raw == RoutingInput(demand.b, ProfileOf(demand.b), Null)
    IN  /\ last.op # "starting" /\ held = Null
        /\ WithinRequestLimits(demand.b)
        /\ SelectFor(IF raw.reg = Raised THEN Raised ELSE Constructed([raw EXCEPT !.task = demand.task, !.effort = TRUE]))
        /\ UNCHANGED <<now, reg, world, changes>>

\* ExecutableRequirements.bind: the retained demands join the request's.
BindRetained(rq) ==
    LET b == MergeBinding(held.b, rq.b)
    IN  IF \/ b = Raised
           \/ held.pin.model \notin {c.id : c \in rq.catalog.entries}
           \/ held.versioned # rq.catalog.versioned
        THEN Raised
        ELSE IF \/ held.effort # (IF held.versioned THEN EntryOf(rq, held.pin.model).effort ELSE held.pin.effort)
                \/ held.b.alias # Null /\ rq.profiles[held.b.alias] # held.expansion
        THEN Raised
        ELSE Constructed([rq EXCEPT !.b = b, !.task = held.requirement])

\* _effective_ceiling, _enforce_effective_limits on the admitted target.
EffectiveLimitFailure(rq, target) ==
    LET e == CHOOSE x \in rq.reg.entries : x.identity.id = target.res
        entry == EntryOf(rq, target.model)
        known == {entry.ctx, e.caps.ctx} \ {Null}
        code == RouteOutputCode(e.caps, entry.out, rq.b.out, TRUE, TRUE)
    IN  IF rq.b.ctx # Null /\ known # {} /\ rq.b.ctx > Min(known) THEN "context_length_exceeded"
        ELSE IF code = "output_limit_insufficient" THEN "output_limit_exceeded" ELSE code

\* A chat request that names the pin and carries what was retained.
Executed(b, rq, d) ==
    IF d = Raised THEN Refused
    ELSE [op |-> "execute", rq |-> rq, out |-> d, b |-> b, failure |-> IF d.approved THEN EffectiveLimitFailure(rq, d.target) ELSE Null]

Execution(b, rq) ==
    IF rq = Raised THEN Refused
    ELSE IF ~WithinExecutableLimits(rq) THEN Refused
    ELSE Executed(b, rq, AdmitPinnedTarget(rq, held.pin))

ExecutePinned(b) ==
    LET raw == RoutingInput([b EXCEPT !.pin = held.pin], IF held.b.alias = Null THEN Null ELSE ProfileOf(held.b), Null)
    IN  /\ held # Null
        /\ last.op \in {"none", "select"}
        /\ last' = Execution(b, IF raw.reg = Raised THEN Raised ELSE BindRetained(raw))
        /\ UNCHANGED <<now, reg, world, held, changes>>

\* A kernel declaration bound to the request in hand, then routed.
RouteKernel(interpretation, digest) ==
    LET raw == RoutingInput(Blank, Null, Null)
        rq == IF raw.reg = Raised THEN Raised ELSE KernelBind(interpretation, raw, digest)
    IN  /\ last.op = "none" /\ held = Null
        /\ last' = Routed(rq)
        /\ UNCHANGED <<now, reg, world, held, changes>>

\* _authorized_logical_entries: what a model name may stand for in runtime mode.
AuthorizedLogicalEntries(rq) ==
    LET eff == EffectiveAuthorization(rq.admin, rq.client, Null)
        open == {e \in rq.reg.entries : /\ e.identity.id \in rq.adapters
                                        /\ AuthorizationFailureCodes(e, eff, rq.assurances, rq.now) = {}}
    IN  UNION {{IF SourceBound(c, e.identity.id) THEN c ELSE [c EXCEPT !.effort = Null] :
                  c \in {d \in rq.catalog.entries :
                            /\ d.provider = e.identity.provider /\ d.model = e.identity.model
                            /\ e.identity.variant # Null => d.variant = e.identity.variant
                            /\ e.identity.variant = Null => d.variant = "unconfigured" \/ SourceBound(d, e.identity.id)}} :
               e \in open}

\* A chat request that names a model: the variants of one effort compete.
\* The router takes one candidate in runtime mode; with several it fails.
RouteLogical(model, effort) ==
    LET raw == RoutingInput([Blank EXCEPT !.model = model], Null, Null)
        named == {c \in IF world.catalog.versioned THEN world.catalog.entries ELSE AuthorizedLogicalEntries(raw) :
                     [provider |-> c.provider, model |-> c.model] = model}
        fitting == IF effort = Null THEN named ELSE {c \in named : c.effort = effort}
        ids == {c.id : c \in fitting}
        rq == Constructed([raw EXCEPT !.candidates = ids,
                                      !.b.variant = IF Cardinality(ids) = 1 THEN (CHOOSE c \in fitting : TRUE).variant ELSE Null])
    IN  /\ last.op = "none" /\ held = Null
        /\ last' = IF \/ raw.reg = Raised \/ fitting = {}
                      \/ effort = Null /\ Cardinality({c.effort : c \in named}) # 1
                   THEN Refused ELSE Routed(rq)
        /\ UNCHANGED <<now, reg, world, held, changes>>

\* What was observed after a request began makes the registry unreadable as of its beginning: it is told that the state is unavailable.
RouteOvertaken ==
    /\ last.op \in {"none", "select"}
    /\ \E started \in 0..now : RegistrySnapshot(reg, started) = Raised
    /\ last' = Refused
    /\ UNCHANGED <<now, reg, world, held, changes>>

Models == {[provider |-> c.provider, model |-> c.model] : c \in UNION {k.entries : k \in Catalogs}}

RouteNext ==
    \/ \E x \in Registrations : RegisterResource(x)
    \/ Serve
    \/ Tick
    \/ \E o \in Observations : Observe(o)
    \/ \E s \in Reports, skew \in {0, 1} : WorkerReports(s, skew)
    \/ Reconfigure
    \/ \E d \in Demands : SelectExecutable(d)
    \/ \E d \in Demands : ExecutePinned(d.b)
    \/ \E i \in Interpretations, digest \in Digests : RouteKernel(i, digest)
    \/ \E m \in Models, e \in {Null} \cup {Efforts[k] : k \in DOMAIN Efforts} : RouteLogical(m, e)
    \/ RouteOvertaken

RouteSpec == RouteInit /\ [][RouteNext]_routeVars

-----------------------------------------------------------------------------
(* Properties *)

\* Values of the variables; an observation is stored under the registered
\* identity, whatever quota pools were reported with it.
RoutesTypeOK ==
    /\ now \in 0..MaxTime /\ changes \in 0..MaxChanges
    /\ world.admin \in Admins /\ world.client \in Clients /\ world.catalog \in Catalogs
    /\ \A r \in DOMAIN reg.obs : reg.obs[r] # Null => reg.obs[r].identity = reg.regs[r].identity /\ ObservationAccepted(reg.obs[r])
    /\ last.op \in {"starting", "none", "refused", "select", "execute"}

\* Whatever workers report, by whatever clock, the registry can be read as of
\* now: no stored observation is dated after the present, which would make
\* every request that begins fail (resource_state.py registry_snapshot).
RegistryReadable ==
    /\ \A r \in DOMAIN reg.regs : reg.obs[r] # Null => reg.obs[r].at <= now
    /\ RegistrySnapshotAccepted(RegistrySnapshot(reg, now))

\* A decision the router builds is one its own constructors accept: reasons
\* of the right stage, evidence with its interval, a failed pin named.
DecisionsAccepted ==
    /\ last.op = "select" => RouteDecisionAccepted(last.out)
    /\ last.op = "execute" => AdmissionAccepted(last.out)

Allows(who, identity) ==
    /\ who.providers # Null => identity.provider \in who.providers
    /\ who.channels # Null => identity.channel \in who.channels
    /\ who.entitlements # Null => identity.entitlement \in who.entitlements
    /\ identity.id \notin who.blocked

Affords(who, e) == who.limit # Null /\ e.identity.entitlement \in Metered => e.cost # Null /\ e.cost <= who.limit

AuthorizedNow(e) ==
    /\ Allows(world.admin, e.identity) /\ Allows(world.client, e.identity)
    /\ Affords(world.admin, e) /\ Affords(world.client, e)
    /\ world.client.inferenceOnly => e.identity.channel = "server_direct_http"
    /\ world.client.strictNoPayg => /\ e.identity.entitlement \notin Metered \cup {"unknown"}
                                    /\ world.control = 1

Targets == IF last.op = "select" THEN ({last.out.target} \cup last.out.alternatives) \ {Null}
           ELSE IF last.op = "execute" /\ last.out.approved THEN {last.out.target} ELSE {}

EntryNow(r) == RegistryEntry(reg, r, now)

\* No target is ever given out, first or as an alternative, that the
\* administrator or the client's grant forbids at that moment, nor one that
\* costs more than either allows, whichever of the two is the stricter.
TargetsAreAuthorized == \A t \in Targets : AuthorizedNow(EntryNow(t.res))

\* A pin approved long after it was given out names a resource that is known
\* to work now: observed within its lifetime, no quota reset since, healthy,
\* with an adapter, and with a continuation session where tools are used.
TargetsAreAvailable ==
    \A t \in Targets :
        LET o == reg.obs[t.res]
        IN  /\ o # Null /\ o.health = "ok"
            /\ now - o.at <= reg.regs[t.res].ttl
            /\ \A f \in o.facts : f.reset # Null => now < f.reset
            /\ t.res \in world.adapters
            /\ ("tool_calls" \in last.rq.b.features /\ reg.regs[t.res].identity.channel = "worker_bridged")
                  => t.res \in world.conts

\* A pin is admissible: with nothing changed since the selection, executing
\* what was selected is approved and within the limits of its target.
RoutedIsAdmissible ==
    (/\ last.op = "execute"
     /\ held.seen = [now |-> now, changes |-> changes]
     /\ [last.b EXCEPT !.pin = held.pin] = held.b)
    => last.out.approved /\ last.failure = Null

\* The demands a target was selected for still bind its execution, whatever
\* the later request says: the rating, the context, the tools, and the
\* ceiling on the output.
RetainedDemandsHold ==
    last.op = "execute" /\ last.out.approved =>
        LET entry == EntryOf(last.rq, held.pin.model)
        IN  /\ held.requirement.rating # Null => EffectiveRating(entry.capability) >= held.requirement.rating
            /\ held.requirement.ctx # Null => last.rq.b.ctx >= held.requirement.ctx
            /\ held.b.features \subseteq last.rq.b.features
            /\ held.b.out # Null => last.rq.b.out # Null /\ last.rq.b.out <= held.b.out

\* A request that pins a resource and a model gets exactly these or nothing.
PinsAreNeverSubstituted ==
    last.op \in {"select", "execute"} /\ last.rq.b.pin # Null =>
        \A t \in Targets : t.res = last.rq.b.pin.res /\ t.model = last.rq.b.pin.model

WithoutPromotions(rq) ==
    [rq EXCEPT !.reg.entries = {IF e.obs = Null THEN e ELSE [e EXCEPT !.obs.promotions = {}] : e \in @}]

\* A promotion orders the resources of a model; it never changes which model
\* is chosen nor makes one routable.
PromotionsOnlyOrder ==
    last.op = "select" =>
        LET plain == RouteRequest(WithoutPromotions(last.rq))
            model(d) == IF d.target = Null THEN Null ELSE d.target.model
        IN  model(plain) = model(last.out) /\ plain.unroutable = last.out.unroutable

\* The document a client gets names no resource it may not use: neither as a
\* target nor as an exclusion, nor by the source of its promotion.
DocumentsHideTheForbidden ==
    last.op = "select" =>
        LET hidden == {r \in DOMAIN reg.regs : IsRegistered(reg, r) /\ ~AuthorizedNow(EntryNow(r))}
            shown == {x.res : x \in last.document.exclusions}
        IN  /\ shown \cap hidden = {}
            /\ \A t \in ({last.document.target} \cup last.document.alternatives) \ {Null} : t.res \notin hidden
            /\ \A source \in last.document.expired :
                  \E r \in DOMAIN reg.regs \ hidden : reg.obs[r] # Null /\ \E p \in reg.obs[r].promotions : p.source = source

\* What the routes are made from and the routes themselves are well formed, a
\* promotion decides nothing but an order, and what was selected is admitted
\* while nothing has changed.
RoutesAreWellFormed ==
    RoutesTypeOK /\ RegistryReadable /\ DecisionsAccepted /\ PromotionsOnlyOrder /\ RoutedIsAdmissible

\* What a client is given it may use, can use, and is all that it sees.
TargetsAreUsable == TargetsAreAuthorized /\ TargetsAreAvailable /\ DocumentsHideTheForbidden

\* A pin is exact and keeps the demands it was selected for.
PinsAreHonoured == PinsAreNeverSubstituted /\ RetainedDemandsHold

-----------------------------------------------------------------------------
(* The invariant. *)

\* What is stored of a resource is registered, or observed of a registered
\* one, under its identity and no later than at the instant.
StoreFacts(r, instant) ==
    /\ r = [regs |-> r.regs, obs |-> r.obs, rev |-> r.rev]
    /\ DOMAIN r.regs = Resources /\ DOMAIN r.obs = Resources
    /\ \A id \in Resources :
          /\ r.regs[id] # Null => r.regs[id] \in Registrations /\ r.regs[id].identity.id = id
          /\ r.obs[id] # Null => /\ r.regs[id] # Null /\ r.obs[id].identity = r.regs[id].identity
                                 /\ ObservationTyped(r.obs[id]) /\ r.obs[id].at \in Nat /\ r.obs[id].at <= instant

RequestFields ==
    {"catalog", "reg", "pol", "snap", "elig", "resets", "cells", "admin", "client", "profile", "profiles", "b", "task",
     "effort", "adapters", "conts", "candidates", "assurances", "miBlocked", "miChannels", "now"}

\* A request that was decided reads the state of now.
ReadsNow(rq) ==
    /\ DOMAIN rq = RequestFields /\ DOMAIN rq.b = BindingFields
    /\ rq.reg = RegistrySnapshot(reg, now) /\ rq.reg # Raised
    /\ rq.catalog = world.catalog /\ rq.admin = world.admin /\ rq.client = world.client
    /\ rq.adapters = world.adapters /\ rq.conts = world.conts /\ rq.now = now
    /\ rq.assurances = Assurances(rq.reg.entries)
    /\ rq.pol = Policy /\ rq.cells = Cells /\ rq.profiles = RequestProfiles
    /\ rq.snap = [p \in Providers |-> Null] /\ rq.elig = [p \in Providers |-> Null] /\ rq.resets = [p \in Providers |-> Null]
    /\ rq.miBlocked = {} /\ rq.miChannels = {}

\* What a client was just told is the decision of such a request.
AnswerFacts ==
    /\ last.op = "starting" => last.observed \in Starts /\ now = 0
    /\ last.op = "select" => /\ ReadsNow(last.rq) /\ last.out = RouteRequest(last.rq) /\ last.out # Raised
                             /\ last.document = PublicRouteDocument(last.out, last.rq)
    /\ last.op = "execute" => /\ ReadsNow(last.rq) /\ last.out = AdmitPinnedTarget(last.rq, held.pin) /\ last.out # Raised

WorldFacts ==
    /\ now \in Nat /\ world.admin \in Admins /\ world.client \in Clients /\ world.catalog \in Catalogs
    /\ world.adapters # Null
    /\ DOMAIN world = {"catalog", "admin", "client", "adapters", "conts", "control"}

\* What a client holds is a requirement and a binding, and the request of its
\* execution demands as much.
HeldFacts ==
    /\ held # Null => held.requirement \in Requirements /\ BindingTyped(held.b)
    /\ last.op = "execute" =>
          /\ held # Null /\ last.rq.task = held.requirement
          /\ last.rq.profile # Null => last.rq.profile.id \in DOMAIN RequestProfiles
          /\ BindingTyped(last.rq.b) /\ held.b.features \subseteq last.rq.b.features
          /\ held.requirement.ctx # Null => last.rq.b.ctx # Null /\ last.rq.b.ctx >= held.requirement.ctx
          /\ held.b.out # Null => last.rq.b.out # Null /\ last.rq.b.out <= held.b.out

RouteIInv == StoreFacts(reg, now) /\ WorldFacts /\ AnswerFacts
=============================================================================
