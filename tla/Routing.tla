------------------------------ MODULE Routing ------------------------------
(***************************************************************************)
(* routing_core.py: which registered resource runs a request, and whether   *)
(* a resource that was chosen earlier may still run it; the parts of        *)
(* executable_contract.py, kernel_requirements.py and gateway_coordinator.py *)
(* that build its input and read its result.                                *)
(*                                                                         *)
(* A route request rq is [catalog, reg, pol, snap, elig, resets, cells,     *)
(* admin, client, profile, profiles, b, task, effort, adapters, conts,      *)
(* candidates, assurances, miBlocked, miChannels, now]; its binding b is    *)
(* [features, ctx, out, alias, model, variant, pin], a pin is [res, model,   *)
(* variant, effort].  A catalog is                                         *)
(* [versioned, entries]; besides the fields of Selection an entry has       *)
(* capRes, the resources its evidence binds, and resBind, the capacity      *)
(* bindings of each of them.  Models are named by the id of their entry.    *)
(***************************************************************************)
EXTENDS ResourceRegistry, TLC

Metered == {"payg_metered", "prepaid_credits"}

-----------------------------------------------------------------------------
(* What the constructors of the request accept. *)

ConstraintsAccepted(admin) ==
    /\ admin.channels # Null => admin.channels \subseteq {"server_direct_http", "worker_bridged", "local_app_adapter"}
    /\ admin.limit # Null => admin.limit >= 0

ClientAuthorizationAccepted(client) ==
    /\ ConstraintsAccepted(client)
    /\ client.inferenceOnly \in BOOLEAN /\ client.strictNoPayg \in BOOLEAN

CellAccepted(cell) == cell.value \in {"PASS", "PARTIAL", "UNKNOWN", "UNSUPPORTED"}

\* An alias and an explicit model read the same field of the request.
BindingAccepted(b) ==
    /\ b.alias = Null \/ b.model = Null
    /\ \A bound \in {b.ctx, b.out} : bound # Null => bound >= 1

-----------------------------------------------------------------------------
(* Authority: Null stands for no limit. *)

IntersectOptionalWide(a, b) == IF a = Null \/ b = Null THEN Null ELSE a \cap b

IntersectOptional(a, b) == IF a = Null THEN b ELSE IF b = Null THEN a ELSE a \cap b

\* Nothing a client or a profile says widens what the administrator allows.
EffectiveAuthorization(admin, client, profile) ==
    LET limits == {admin.limit, client.limit} \ {Null}
        channels == IntersectOptional(admin.channels, client.channels)
    IN  [providers |-> IntersectOptional(IntersectOptional(admin.providers, client.providers),
                                         IF profile = Null THEN Null ELSE profile.providers),
         channels |-> IF client.inferenceOnly THEN IntersectOptional(channels, {"server_direct_http"}) ELSE channels,
         entitlements |-> IntersectOptional(admin.entitlements, client.entitlements),
         blocked |-> admin.blocked \cup client.blocked,
         limit |-> IF limits = {} THEN Null ELSE Min(limits),
         strictNoPayg |-> client.strictNoPayg]

Outside(x, allowed) == allowed # Null /\ x \notin allowed

SpendLimitCodes(e, limit) ==
    IF e.identity.entitlement \notin Metered
    THEN IF e.identity.entitlement = "unknown" THEN {"spend_limit_unverifiable"} ELSE {}
    ELSE IF e.cost = Null THEN {"spend_limit_unverifiable"}
    ELSE IF e.cost > limit THEN {"spend_limit_exceeded"} ELSE {}

\* A client that must never be billed gets resources with current evidence.
NoPaygCodes(e, assurances, now) ==
    LET mine == {a \in assurances : a.scope.resource = e.identity}
    IN  IF e.identity.entitlement \in Metered THEN {"no_payg_access_mode_forbidden"}
        ELSE IF e.identity.entitlement = "unknown" THEN {"no_payg_path_unverified"}
        ELSE IF Cardinality(mine) # 1 THEN {"no_payg_evidence_unavailable"}
        ELSE RefusalCodes(CHOOSE a \in mine : TRUE, e.identity, now, e.ttl)

AuthorizationFailureCodes(e, eff, assurances, now) ==
    (IF Outside(e.identity.provider, eff.providers) THEN {"unauthorized_provider"} ELSE {})
    \cup (IF Outside(e.identity.channel, eff.channels) THEN {"unauthorized_channel"} ELSE {})
    \cup (IF Outside(e.identity.entitlement, eff.entitlements) THEN {"unauthorized_entitlement"} ELSE {})
    \cup (IF e.identity.id \in eff.blocked THEN {"resource_blocked"} ELSE {})
    \cup (IF eff.limit # Null THEN SpendLimitCodes(e, eff.limit) ELSE {})
    \cup (IF eff.strictNoPayg THEN NoPaygCodes(e, assurances, now) ELSE {})

-----------------------------------------------------------------------------
(* The gate of one resource. *)

SourceBound(entry, r) == entry.capRes # Null /\ r \in entry.capRes

\* The catalog identities a resource serves.
BindIdentities(e, catalog) ==
    {c.id : c \in {d \in catalog.entries :
        /\ d.provider = e.identity.provider /\ d.model = e.identity.model
        /\ e.identity.variant = Null \/ e.identity.variant = d.variant
        /\ catalog.versioned \/ e.identity.variant # Null \/ d.variant = "unconfigured" \/ SourceBound(d, e.identity.id)}}

\* The cell of the variant before the cell of the backend.
LookupCell(cells, identity, feature) ==
    LET mine == {c \in cells : /\ c.channel = identity.channel /\ c.provider = identity.provider
                               /\ c.model = identity.model /\ c.feature = feature}
        specific == {c \in mine : c.variant # Null /\ c.variant = identity.variant}
        backend == {c \in mine : c.variant = Null}
    IN  IF specific # {} THEN CHOOSE c \in specific : TRUE
        ELSE IF backend # {} THEN CHOOSE c \in backend : TRUE ELSE Null

PromotedStaysAvailable(e, elig) ==
    IF e.freshness = "fresh" \/ (e.obs # Null /\ e.obs.promotions # {}) THEN {} ELSE {"resource_stale"}

AvailabilityFailureCodes(e, elig) ==
    (IF e.freshness = "never_observed" THEN {"resource_never_observed"}
     ELSE IF e.freshness = "stale" THEN {"resource_stale"} ELSE {})
    \cup (IF e.obs # Null /\ e.obs.health # "ok" THEN {"resource_unhealthy"} ELSE {})
    \cup (IF elig[e.identity.provider] \notin {Null, "eligible"} THEN {"execution_ineligible"} ELSE {})

\* The output limit of the variant, where the request resolves one.
RequestOutputContext(b, e, catalog) ==
    LET named == /\ b.model # Null /\ b.model = [provider |-> e.identity.provider, model |-> e.identity.model]
        variant == IF b.variant # Null THEN b.variant
                   ELSE IF b.pin # Null THEN b.pin.variant
                   ELSE IF named THEN e.identity.variant ELSE Null
        hits == {c \in catalog.entries : /\ c.provider = e.identity.provider /\ c.model = e.identity.model
                                         /\ c.variant = variant}
    IN  [resolved |-> variant # Null,
         out |-> IF variant = Null \/ hits = {} THEN Null ELSE (CHOOSE c \in hits : TRUE).out]

FeatureCode(cell) ==
    IF cell = Null \/ cell.value = "UNKNOWN" THEN {"compatibility_unknown"}
    ELSE IF cell.value = "UNSUPPORTED" THEN {"compatibility_unsupported"} ELSE {}

\* Every feature needs evidence; the limits must hold what is asked for.
CompatibilityFailure(e, rq, req, reasoning) ==
    LET wanted == rq.b.features \cup (IF reasoning THEN {"reasoning_controls"} ELSE {})
        output == RequestOutputContext(rq.b, e, rq.catalog)
    IN  (UNION {FeatureCode(LookupCell(rq.cells, e.identity, f)) : f \in wanted})
        \cup (IF req.ctx = Null THEN {} ELSE IF e.caps.ctx = Null THEN {"context_limit_unknown"}
              ELSE IF e.caps.ctx < req.ctx THEN {"context_limit_insufficient"} ELSE {})
        \cup ({RouteOutputCode(e.caps, output.out, rq.b.out, output.resolved, TRUE),
               RouteOutputCode(e.caps, output.out, req.out, output.resolved, FALSE)} \ {Null})

\* A promotion of a plan matches nothing: no plan is known of a resource.
PromotionMatches(p, e) ==
    /\ p.plan = Null
    /\ p.channel # Null => p.channel = e.identity.channel
    /\ p.provider # Null => p.provider = e.identity.provider
    /\ p.model # Null => p.model = e.identity.model

MatchingPromotions(e) == IF e.obs = Null THEN {} ELSE {p \in e.obs.promotions : PromotionMatches(p, e)}

ExpiredPromotions(e, now) ==
    {p.source : p \in {q \in MatchingPromotions(e) : q.until # Null /\ q.until < now}}

ActivePromotions(e, now) ==
    {p.source : p \in {q \in MatchingPromotions(e) : /\ q.until # Null => q.until >= now
                                                     /\ q.from # Null => q.from <= now}}

ExpiredLimitOnly(e, now) ==
    IF e.caps.evidence # Null /\ (now >= e.caps.evidence.until \/ now < e.caps.evidence.from)
    THEN [e EXCEPT !.caps.ctx = Null] ELSE e

\* Context evidence counts from when it was verified until it expires.
CurrentEvidence(e, now) ==
    IF e.caps.evidence # Null /\ (now >= e.caps.evidence.until \/ now < e.caps.evidence.from)
    THEN [e EXCEPT !.caps.ctx = Null, !.caps.evidence = Null] ELSE e

Gate(e, bound, stage, codes, now) ==
    [res |-> e.identity.id, entry |-> e, bound |-> bound, qualified |-> stage = Null, stage |-> stage,
     codes |-> codes, promotions |-> ActivePromotions(e, now)]

AdapterCodes(e, rq) ==
    (IF rq.adapters # Null /\ e.identity.id \notin rq.adapters THEN {"adapter_unavailable"} ELSE {})
    \cup (IF /\ "tool_calls" \in rq.b.features /\ e.identity.channel = "worker_bridged"
             /\ rq.conts = Null \/ e.identity.id \notin rq.conts
          THEN {"worker_continuation_unavailable"} ELSE {})

\* An identity whose effort the resource is bound to needs reasoning controls.
EffortDemanded(entry, rq, r) ==
    /\ entry.effort # Null
    /\ rq.catalog.versioned \/ SourceBound(entry, r)
    /\ rq.effort \/ entry.id \in {ch.id : ch \in rq.miChannels}

\* The stages in order: binding, authorization, availability, compatibility.
\* reasoning: a candidate's own effort already needs reasoning controls.
EvaluateResource(raw, rq, req, eff, reasoning) ==
    LET e == CurrentEvidence(raw, rq.now)
        elig == IF rq.catalog.versioned THEN rq.elig ELSE [p \in Providers |-> Null]
        bound == BindIdentities(e, rq.catalog)
        denied == AuthorizationFailureCodes(e, eff, rq.assurances, rq.now)
        blocked == rq.miBlocked \cup {ch.id : ch \in {c \in rq.miChannels : c.channel # e.identity.channel}}
        usable == bound \ blocked
        absent == AvailabilityFailureCodes(e, elig) \cup AdapterCodes(e, rq)
        unfit == CompatibilityFailure(e, rq, req, reasoning)
        entry(i) == CHOOSE c \in rq.catalog.entries : c.id = i
        unfitFor(i) == CompatibilityFailure(e, rq, req, reasoning \/ EffortDemanded(entry(i), rq, e.identity.id))
        demanding == rq.effort \/ \E i \in usable : i \in {ch.id : ch \in rq.miChannels}
        fit == IF demanding THEN {i \in usable : unfitFor(i) = {}} ELSE usable
    IN  IF bound = {} THEN Gate(e, {}, "binding", {"capability_unassessed"}, rq.now)
        ELSE IF denied # {} THEN Gate(e, bound, "authorization", denied, rq.now)
        ELSE IF usable = {} THEN Gate(e, bound, "authorization", {"resource_blocked"}, rq.now)
        ELSE IF absent # {} THEN Gate(e, usable, "availability", absent, rq.now)
        ELSE IF unfit # {} THEN Gate(e, usable, "compatibility", unfit, rq.now)
        ELSE IF fit = {} THEN Gate(e, usable, "compatibility", unfitFor(Min(usable)), rq.now)
        ELSE Gate(e, fit, Null, {}, rq.now)

-----------------------------------------------------------------------------
(* The requirement of a route, and the checks of RouteRequest. *)

NoRequirement ==
    [level |-> 0, rating |-> Null, ctx |-> Null, out |-> Null, tools |-> FALSE, provider |-> Null]

\* The profile, tightened by the task, tightened by the request itself.
RouteRequirement(rq) ==
    LET base == IF rq.profile = Null
                THEN IF rq.task # Null THEN rq.task ELSE NoRequirement
                ELSE IF rq.task # Null THEN Tighten(rq.profiles[rq.profile.id], rq.task)
                ELSE rq.profiles[rq.profile.id]
    IN  IF base = Raised THEN Raised
        ELSE Tighten(base, [NoRequirement EXCEPT !.level = base.level, !.tools = "tool_calls" \in rq.b.features,
                                                 !.ctx = rq.b.ctx, !.out = rq.b.out])

Larger(a, b) == IF a = Null THEN b ELSE IF b = Null THEN a ELSE IF a > b THEN a ELSE b

\* Building a request: with a task the context floors are joined first, then
\* the requirement's demands become demands of the binding.
Constructed(rq) ==
    LET known == {c.id : c \in rq.catalog.entries}
        floor == Larger(rq.b.ctx, Larger(rq.task.ctx, IF rq.profile = Null THEN Null ELSE rq.profiles[rq.profile.id].ctx))
        joined == [rq EXCEPT !.b.ctx = floor]
        req == RouteRequirement(joined)
    IN  IF \/ rq.candidates # Null /\ ~(rq.candidates \subseteq known)
           \/ rq.b.alias # Null /\ rq.profile = Null
           \/ ~BindingAccepted(rq.b) \/ ~ClientAuthorizationAccepted(rq.client) \/ ~ConstraintsAccepted(rq.admin)
           \/ \E c \in rq.cells : ~CellAccepted(c)
           \/ ~rq.catalog.versioned /\ \E p \in Providers : rq.resets[p] # Null
           \/ rq.now < rq.reg.at
        THEN Raised
        ELSE IF rq.task = Null THEN rq
        ELSE IF req = Raised THEN Raised
        ELSE IF rq.b.out # Null /\ req.out # Null /\ rq.b.out < req.out THEN Raised
        ELSE [joined EXCEPT !.b.features = @ \cup (IF req.tools THEN {"tool_calls"} ELSE {}),
                            !.b.ctx = Larger(@, req.ctx)]

MergeBindingActual(retained, actual) == actual

\* Demands of a retained binding joined to those of the request at hand; an
\* output ceiling may only be lowered, an identity never replaced.
MergeBinding(retained, actual) ==
    IF \/ retained.out # Null /\ (actual.out = Null \/ actual.out > retained.out)
       \/ \E f \in {"alias", "model", "variant", "pin"} :
             retained[f] # Null /\ actual[f] # Null /\ retained[f] # actual[f]
    THEN Raised
    ELSE [f \in DOMAIN actual |->
            CASE f = "features" -> retained.features \cup actual.features
              [] f = "ctx" -> Larger(retained.ctx, actual.ctx)
              [] f = "out" -> actual.out
              [] OTHER -> IF retained[f] # Null THEN retained[f] ELSE actual[f]]

\* kernel_requirements.bind: as above, but an output ceiling must be equal.
\* interpretation: [digest, requirement, b, problems, profile, expansion].
KernelBind(interpretation, rq, digest) ==
    LET task == IF rq.task = Null THEN interpretation.requirement ELSE Tighten(rq.task, interpretation.requirement)
        b == MergeBinding([interpretation.b EXCEPT !.out = Null], rq.b)
    IN  IF \/ interpretation.problems # {} \/ digest # interpretation.digest
           \/ interpretation.profile # Null /\ rq.profiles[interpretation.profile] # interpretation.expansion
           \/ task = Raised \/ b = Raised
           \/ interpretation.b.out # Null /\ rq.b.out # Null /\ interpretation.b.out # rq.b.out
        THEN Raised
        ELSE Constructed([rq EXCEPT !.task = task, !.b = [b EXCEPT !.out = Larger(@, interpretation.b.out)]])

-----------------------------------------------------------------------------
(* The decision. *)

OrderKey(gate) == <<IF gate.promotions # {} THEN 0 ELSE 1, gate.res>>

EntryOf(rq, id) == CHOOSE c \in rq.catalog.entries : c.id = id

AllKnown(values) == values # {} /\ Null \notin values

\* A limit of the model, lowered to what the resources carry.
Bounded(own, limits) ==
    IF ~AllKnown(limits) THEN own
    ELSE IF own # Null THEN Min(limits \cup {own}) ELSE Min(limits)

\* In runtime mode the entry of a model takes the limits, the effort and the
\* capacity bindings of the qualified resources it may run on.
RuntimeEntry(entry, rq, gates) ==
    LET mine == {g \in gates : /\ g.qualified /\ entry.id \in g.bound
                               /\ rq.b.pin # Null => g.res = rq.b.pin.res}
        tools == {g.entry.caps.tools : g \in mine}
        single == Cardinality(mine) = 1
        only == (CHOOSE g \in mine : TRUE).res
        held == {x \in entry.resBind : single /\ x.res = only}
        unbound == \E g \in mine : ~SourceBound(entry, g.res)
    IN  [entry EXCEPT
            !.ctx = Bounded(@, {g.entry.caps.ctx : g \in mine}),
            !.out = Bounded(@, {g.entry.caps.out : g \in mine}),
            !.tools = IF @ = "no" \/ "no" \in tools THEN "no"
                      ELSE IF \/ "tool_calls" \in rq.b.features /\ mine # {}
                              \/ tools = {"yes"} THEN "yes" ELSE @,
            !.effort = IF single /\ unbound THEN Null ELSE @,
            !.reasons = IF single /\ unbound THEN FALSE ELSE @,
            !.bindings = IF single THEN IF held = {} THEN Null ELSE (CHOOSE x \in held : TRUE).bindings
                         ELSE IF @ # Null /\ (entry.capRes = Null \/ unbound) THEN Null ELSE @]

NarrowedCatalog(rq, keys, gates) ==
    LET usable == IF rq.candidates = Null THEN keys ELSE keys \cap rq.candidates
        kept == {c \in rq.catalog.entries : c.id \in usable}
    IN  IF rq.catalog.versioned THEN kept ELSE {RuntimeEntry(c, rq, gates) : c \in kept}

\* What a resource's own observation says of the scopes of an entry.
ResourceSnapshots(gate, entry) ==
    [p \in Providers |->
        IF p # gate.entry.identity.provider \/ gate.entry.obs = Null \/ entry.bindings = Null THEN Null
        ELSE [status |-> gate.entry.obs.health,
              wins |-> [s \in Slots |->
                LET facts == {f \in gate.entry.obs.facts :
                                /\ f.class = "provider_telemetry" /\ f.slot = s
                                /\ SlotOf[s].scope \in {x.scope : x \in entry.bindings}}
                IN  IF facts = {} THEN NoWindow ELSE (CHOOSE f \in facts : TRUE).remaining]]]

\* The selector on some entries, with a resource's snapshots where given.
RunSelection(rq, entries, req, snap) ==
    SelectModel(entries, [req |-> req, pol |-> rq.pol, now |-> rq.now, resets |-> rq.resets, blocked |-> rq.miBlocked,
                          snap |-> IF snap = Null THEN rq.snap ELSE snap,
                          elig |-> IF snap = Null THEN rq.elig ELSE [p \in Providers |-> Null]])

RouteTarget(gate, id, effort) ==
    [res |-> gate.res, model |-> id, effort |-> effort, promotions |-> gate.promotions,
     pools |-> gate.entry.identity.pools, evidence |-> gate.entry.caps.evidence,
     ctx |-> IF gate.entry.caps.evidence # Null THEN gate.entry.caps.ctx ELSE Null]

TargetExclusion(res, model, stage, codes) == [res |-> res, model |-> model, stage |-> stage, codes |-> codes]

PinOfVariant(target, variant) == [res |-> target.res, model |-> target.model, variant |-> variant, effort |-> variant]

\* The pin a route hands out.
PinOf(target, variant) == [res |-> target.res, model |-> target.model, variant |-> variant, effort |-> target.effort]

\* Does a resource that names no variant, or its own, need reasoning controls
\* because a candidate is configured with an effort?
CandidateReasoning(e, rq) ==
    /\ rq.candidates # Null
    /\ \E c \in rq.catalog.entries :
          /\ c.id \in rq.candidates /\ c.effort # Null
          /\ c.provider = e.identity.provider /\ c.model = e.identity.model
          /\ e.identity.variant = Null \/ c.variant = e.identity.variant
          /\ rq.catalog.versioned \/ SourceBound(c, e.identity.id)
          /\ LET cell == LookupCell(rq.cells, e.identity, "reasoning_controls")
             IN  \/ e.identity.variant # Null
                 \/ /\ e.identity.channel = "worker_bridged"
                    /\ cell # Null /\ cell.value \in {"PASS", "PARTIAL"}

Gates(rq, req) ==
    LET eff == EffectiveAuthorization(rq.admin, rq.client, rq.profile)
    IN  {EvaluateResource(e, rq, req, eff, CandidateReasoning(e, rq)) : e \in rq.reg.entries}

PinnedToResource(rq, gates) ==
    {i \in UNION {g.bound : g \in {h \in gates : h.qualified /\ (rq.b.pin # Null => h.res = rq.b.pin.res)}} :
        rq.b.model # Null => rq.b.model = [provider |-> EntryOf(rq, i).provider, model |-> EntryOf(rq, i).model]}

\* The identities some qualified resource serves, as a pin narrows them.
RoutableKeys(rq, gates) ==
    LET pinned == {g \in gates : rq.b.pin # Null /\ g.res = rq.b.pin.res}
        all == UNION {g.bound : g \in {h \in gates : h.qualified}}
        byPin == IF rq.b.pin = Null THEN all
                 ELSE UNION {g.bound \cap {rq.b.pin.model} : g \in {h \in pinned : h.qualified}}
    IN  {i \in byPin : LET c == EntryOf(rq, i)
                       IN  /\ rq.b.model # Null => rq.b.model = [provider |-> c.provider, model |-> c.model]
                           /\ rq.b.variant # Null => rq.b.variant = c.variant}

PinCodes(rq, gates, keys) ==
    LET pinned == {g \in gates : rq.b.pin # Null /\ g.res = rq.b.pin.res}
    IN  (IF rq.b.pin # Null /\ pinned = {} THEN {"pinned_request_failed", "pin_target_not_found"} ELSE {})
        \cup (IF \E g \in pinned : ~g.qualified THEN {"pinned_request_failed"} ELSE {})
        \cup (IF (rq.b.model # Null \/ rq.b.variant # Null) /\ keys = {} THEN {"pinned_request_failed"} ELSE {})
        \cup (IF /\ rq.b.model # Null /\ keys = {}
                 /\ \A c \in rq.catalog.entries : rq.b.model # [provider |-> c.provider, model |-> c.model]
              THEN {"pin_model_not_found"} ELSE {})

HasPin(b) == b.pin # Null \/ b.model # Null \/ b.variant # Null

\* Runtime mode: one selection for each resource of each identity.
ScopedSelections(rq, req, gates, keys) ==
    LET pairs == {p \in keys \X gates : /\ p[2].qualified /\ p[1] \in p[2].bound
                                        /\ rq.b.pin # Null => p[2].res = rq.b.pin.res}
        entries(p) == NarrowedCatalog(rq, {p[1]}, {p[2]})
        entry(p) == CHOOSE c \in entries(p) : TRUE
    IN  {[id |-> p[1], gate |-> p[2], entry |-> entry(p),
          mismatch |-> rq.b.pin # Null /\ rq.b.pin.effort # Null /\ entry(p).effort # rq.b.pin.effort,
          out |-> RunSelection(rq, entries(p), req, ResourceSnapshots(p[2], entry(p)))] :
            p \in {q \in pairs : entries(q) # {}}}

\* The resource that stands for an identity: the best one that is selected,
\* or else the first one in the order of the ids.
Representative(mine, pol) ==
    LET good == {x \in mine : x.out.selected # Null}
        key(x) == RankingKey(x.out.selected, x.entry, pol.preference) \o OrderKey(x.gate)
    IN  IF good # {} THEN CHOOSE x \in good : \A y \in good \ {x} : Before(key(x), key(y))
        ELSE CHOOSE x \in mine : \A y \in mine : x.gate.res <= y.gate.res

ScopedExclusions(scoped) ==
    {TargetExclusion(x.gate.res, x.id, "binding", {"reasoning_effort_unverified"}) : x \in {y \in scoped : y.mismatch}}
    \cup UNION {LET e == CHOOSE f \in x.out.excluded : TRUE
               IN  IF e.stage = "capacity"
                   THEN {TargetExclusion(x.gate.res, x.id, "capacity", e.codes \cap StageReasons("capacity"))}
                   ELSE IF e.stage \in {"policy_blackout", "reservation"}
                   THEN {TargetExclusion(x.gate.res, x.id, "policy", e.codes \cap StageReasons(e.stage))} ELSE {} :
               x \in {y \in scoped : ~y.mismatch /\ y.out.selected = Null}}

\* The target is the first, in the order of the resources, that runs the selected model.
RouteDecision(rq, gates, keys, scoped, tried, best, selection) ==
    LET id == selection.selected.id
        usable == IF rq.catalog.versioned
                  THEN {g \in gates : g.qualified /\ id \in g.bound /\ (rq.b.pin # Null => g.res = rq.b.pin.res)}
                  ELSE {x.gate : x \in {y \in tried : y.id = id /\ y.out.selected # Null}}
        chosen == IF rq.catalog.versioned
                  THEN CHOOSE g \in usable : \A h \in usable \ {g} : Before(OrderKey(g), OrderKey(h))
                  ELSE (CHOOSE x \in best : x.id = id).gate
        effort(g) == IF rq.catalog.versioned THEN Null ELSE (CHOOSE c \in NarrowedCatalog(rq, {id}, {g}) : TRUE).effort
        excluded == {TargetExclusion(g.res, Null, g.stage, g.codes) : g \in {h \in gates : ~h.qualified}}
                    \cup (IF rq.catalog.versioned THEN {} ELSE ScopedExclusions(scoped))
        decision(status, target, alternatives, codes) ==
            [selection |-> selection, exclusions |-> excluded, pinned |-> HasPin(rq.b),
             unroutable |-> {c.id : c \in rq.catalog.entries} \ keys,
             expired |-> UNION {ExpiredPromotions(g.entry, rq.now) : g \in gates},
             status |-> status, target |-> target, alternatives |-> alternatives, codes |-> codes]
    IN  IF selection.selected = Null
        THEN decision("no_solution", Null, {},
                      {"no_eligible_target"} \cup PinCodes(rq, gates, keys)
                      \cup (IF HasPin(rq.b) THEN {"pinned_request_failed"} ELSE {}))
        ELSE decision("selected", RouteTarget(chosen, id, effort(chosen)),
                      IF rq.b.pin # Null THEN {} ELSE {RouteTarget(g, id, effort(g)) : g \in usable \ {chosen}},
                      {"route_selected"})

\* One selection over the catalog, or one among the representatives of the identities.
RouteAmong(rq, req, gates, keys, scoped) ==
    LET tried == {x \in scoped : ~x.mismatch}
        best == {Representative({x \in tried : x.id = i}, rq.pol) : i \in {x.id : x \in tried}}
        evaluation(x) == IF x.out.selected # Null THEN x.out.selected ELSE CHOOSE e \in x.out.excluded : TRUE
    IN  RouteDecision(rq, gates, keys, scoped, tried, best,
               IF rq.catalog.versioned
               THEN RunSelection(rq, NarrowedCatalog(rq, keys, gates), req, Null)
               ELSE AssembleEvaluations({x.entry : x \in best}, {evaluation(x) : x \in best}, rq.pol, rq.now))

RouteThrough(rq, req, gates) ==
    LET keys == RoutableKeys(rq, gates)
        split == ~rq.catalog.versioned /\ rq.candidates # Null /\ \E i \in keys : ~(rq.candidates \subseteq {i})
    IN  IF req = Raised \/ split THEN Raised
        ELSE RouteAmong(rq, req, gates, keys, ScopedSelections(rq, req, gates, keys))

RouteFor(rq, req) == RouteThrough(rq, req, Gates(rq, req))

\* route_request on a request that was accepted.
RouteRequest(rq) == RouteFor(rq, RouteRequirement(rq))

-----------------------------------------------------------------------------
(* Admission of a target chosen earlier. *)

Rejected(pin, codes) == [approved |-> FALSE, res |-> pin.res, target |-> Null, codes |-> {"admission_rejected"} \cup codes]

\* A requested pin, model or variant must be the admitted one.
Contradicts(b, pin, entry) ==
    \/ b.pin # Null /\ (b.pin.res # pin.res \/ b.pin.model # pin.model)
    \/ b.model # Null /\ b.model # [provider |-> entry.provider, model |-> entry.model]
    \/ b.variant # Null /\ b.variant # pin.variant

\* The checks of the model on the admitted resource; checked is the selection on it alone.
AdmitModel(rq, pin, req, gate, admitted, entry, checked) ==
    IF pin.model \notin gate.bound \/ admitted = {} THEN Rejected(pin, {"pinned_model_not_bound"})
    ELSE IF pin.effort # Null /\ entry.effort # pin.effort THEN Rejected(pin, {"reasoning_effort_unverified"})
    ELSE IF HardFailures(req, entry) # {} THEN Rejected(pin, {"hard_constraint_failed"})
    ELSE IF CapabilityFailures(req, entry) # {} THEN Rejected(pin, {"capability_failed"})
    ELSE IF ~rq.catalog.versioned /\ checked.selected = Null
    THEN Rejected(pin, {IF \E e \in checked.excluded : e.stage = "capacity" THEN "capacity_failed" ELSE "policy_failed"})
    ELSE [approved |-> TRUE, res |-> pin.res, codes |-> {"admission_approved"},
          target |-> RouteTarget(gate, pin.model, IF rq.catalog.versioned THEN Null ELSE entry.effort)]

AdmitEntry(rq, pin, req, gate, admitted, entry) ==
    AdmitModel(rq, pin, req, gate, admitted, entry, RunSelection(rq, admitted, req, ResourceSnapshots(gate, entry)))

AdmitResource(rq, pin, req, gate) ==
    LET admitted == NarrowedCatalog(rq, {pin.model}, {gate})
    IN  IF ~gate.qualified THEN Rejected(pin, gate.codes)
        ELSE AdmitEntry(rq, pin, req, gate, admitted, CHOOSE c \in admitted : TRUE)

\* admit_pinned_target: every gate again, on the state of now.
AdmitFor(rq, pin, req) ==
    LET here == {e \in rq.reg.entries : e.identity.id = pin.res}
        eff == EffectiveAuthorization(rq.admin, rq.client, rq.profile)
        bound == [rq EXCEPT !.b.pin = pin, !.b.variant = pin.variant]
    IN  IF req = Raised THEN Raised
        ELSE IF Contradicts(rq.b, pin, EntryOf(rq, pin.model)) THEN Rejected(pin, {"pinned_request_failed"})
        ELSE IF here = {} THEN Rejected(pin, {"pin_target_not_found"})
        ELSE AdmitResource(rq, pin, req, EvaluateResource(CHOOSE e \in here : TRUE, bound, req, eff, FALSE))

AdmitPinnedTarget(rq, pin) == AdmitFor(rq, pin, RouteRequirement(rq))

-----------------------------------------------------------------------------
(* What the constructors of the results accept. *)

RouteStageReasons(stage) ==
    CASE stage = "binding" -> {"capability_unassessed", "reasoning_effort_unverified"}
      [] stage = "authorization" ->
            {"unauthorized_provider", "unauthorized_channel", "unauthorized_entitlement", "resource_blocked",
             "spend_limit_exceeded", "spend_limit_unverifiable", "no_payg_source_mismatch",
             "no_payg_evidence_unavailable", "no_payg_binding_changed", "no_payg_path_unverified",
             "no_payg_path_incomplete", "no_payg_evidence_invalid", "no_payg_evidence_expired",
             "no_payg_access_mode_forbidden", "no_payg_evidence_stale"}
      [] stage = "availability" ->
            {"resource_stale", "resource_never_observed", "resource_unhealthy", "execution_ineligible",
             "worker_continuation_unavailable", "adapter_unavailable"}
      [] stage = "compatibility" ->
            {"compatibility_unsupported", "compatibility_unknown", "context_limit_unknown",
             "context_limit_insufficient", "output_limit_unknown", "output_limit_insufficient",
             "output_limit_unenforceable"}
      [] stage = "capacity" -> {"capacity_unavailable", "capacity_unknown_blocked"}
      [] stage = "policy" -> {"policy_blocked", "reservation_blocked", "reservation_unknown"}

ExclusionAccepted(x) == RouteStageReasons(x.stage) \cap x.codes # {}

TargetAccepted(t) ==
    IF t.evidence = Null THEN t.ctx = Null
    ELSE t.evidence.from < t.evidence.until /\ t.ctx # Null

RouteDecisionAccepted(d) ==
    /\ DecisionAccepted(d.selection)
    /\ \A x \in d.exclusions : ExclusionAccepted(x)
    /\ IF d.status = "selected"
       THEN d.target # Null /\ TargetAccepted(d.target) /\ d.codes = {"route_selected"}
       ELSE /\ d.target = Null /\ d.alternatives = {} /\ "no_eligible_target" \in d.codes
            /\ d.pinned => "pinned_request_failed" \in d.codes

AdmissionAccepted(d) ==
    IF d.approved THEN d.target # Null /\ TargetAccepted(d.target) /\ "admission_approved" \in d.codes
    ELSE d.target = Null /\ "admission_rejected" \in d.codes

-----------------------------------------------------------------------------
(* public_route_document: what the client sees of a decision. *)

VisibleResources(rq) ==
    LET eff == EffectiveAuthorization(rq.admin, rq.client, rq.profile)
    IN  {e \in rq.reg.entries : AuthorizationFailureCodes(e, eff, rq.assurances, rq.now) = {}}

ShownWhole(x, visible) == x

ShownExclusion(x, visible) == IF x.res \in visible THEN x ELSE TargetExclusion(Null, Null, x.stage, x.codes)

PublicRouteDocument(d, rq) ==
    LET visible == {e.identity.id : e \in VisibleResources(rq)}
        models == UNION {BindIdentities(e, rq.catalog) : e \in VisibleResources(rq)}
    IN  [target |-> d.target, alternatives |-> d.alternatives,
         unroutable |-> d.unroutable \cap models,
         exclusions |-> {ShownExclusion(x, visible) : x \in d.exclusions},
         preference |-> {i \in models : \E k \in DOMAIN rq.pol.preference : rq.pol.preference[k] = i},
         expired |-> UNION {ExpiredPromotions(e, rq.now) : e \in VisibleResources(rq)}]

=============================================================================
