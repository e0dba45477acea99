---------------------------- MODULE MCRoutingRun ----------------------------
(* Three resources of two providers: a metered HTTP one, a bridged one of a  *)
(* fixed variant with expiring context evidence, and a bridged one.          *)
EXTENDS RoutingRun

MCProviders == {"p", "q"}
MCSlots == {1, 2}
Scope(p) == [provider |-> p, scope |-> "s"]
MCSlotOf == [s \in MCSlots |-> [provider |-> IF s = 1 THEN "p" ELSE "q", scope |-> "s", resource |-> "tokens", kind |-> "weekly"]]
MCScopes == {Scope(p) : p \in MCProviders}
MCEfforts == <<"low", "high">>

Identity(id, channel, provider, model, variant, entitlement, pools) ==
    [provider |-> provider, id |-> id, channel |-> channel, model |-> model, variant |-> variant,
     entitlement |-> entitlement, pools |-> pools]
Http == Identity(1, "server_direct_http", "p", "m", Null, "payg_metered", {"a"})
Bridged == Identity(2, "worker_bridged", "p", "m", "hi", "subscription_included", {"a"})
Other == Identity(3, "worker_bridged", "q", "n", Null, "subscription_included", {})
Stray == Identity(4, "worker_bridged", "q", "n", Null, "subscription_included", {})

MCRegistrations ==
    {[identity |-> Http, ttl |-> 1, poll |-> 1, cost |-> 5,
      caps |-> [ctx |-> 8, out |-> 8, tools |-> "yes", control |-> "yes", evidence |-> Null]],
     [identity |-> Bridged, ttl |-> 2, poll |-> Null, cost |-> Null,
      caps |-> [ctx |-> 4, out |-> 4, tools |-> Null, control |-> "no", evidence |-> [from |-> 0, until |-> 1]]],
     [identity |-> Other, ttl |-> 2, poll |-> Null, cost |-> Null,
      caps |-> [ctx |-> Null, out |-> 8, tools |-> "yes", control |-> Null, evidence |-> Null]]}

Fact(slot, remaining, reset) == [slot |-> slot, remaining |-> remaining, reset |-> reset, class |-> "provider_telemetry"]
Promotion(source, until) == [provider |-> Null, channel |-> Null, model |-> Null, from |-> Null, until |-> until,
                             source |-> source, plan |-> Null]
MCObservations ==
    {[identity |-> Http, health |-> "ok", facts |-> {}, promotions |-> {Promotion("spring", 1)}],
     [identity |-> Stray, health |-> "unknown", facts |-> {}, promotions |-> {}],
     [identity |-> Bridged, health |-> "ok", facts |-> {Fact(1, 60, 2)}, promotions |-> {}],
     [identity |-> [Bridged EXCEPT !.pools = {}], health |-> "unavailable", facts |-> {}, promotions |-> {}],
     [identity |-> Other, health |-> "ok", facts |-> {Fact(2, 90, Null)}, promotions |-> {Promotion("autumn", Null)}]}

\* Reports of both workers' resources, of one, and with one nobody registered.
ReportOf(good) == {o \in MCObservations : good[o.identity.id] = o.health}
MCReports == {ReportOf(<<"-", "ok", "ok", "-">>), ReportOf(<<"-", "unavailable", "ok", "-">>),
              ReportOf(<<"-", "-", "ok", "-">>), ReportOf(<<"-", "-", "ok", "unknown">>)}

MCStarts == {{}, {o \in MCObservations : o.health = "ok"}}

Entry(id, p, m, v, effort, capRes, rating, out, bindings) ==
    [provider |-> p, id |-> id, model |-> m, variant |-> v, ctx |-> 8, out |-> out, tools |-> "yes",
     effort |-> effort, capRes |-> capRes, bindings |-> bindings,
     capability |-> [rating |-> rating, override |-> Null], reasons |-> effort # Null,
     resBind |-> IF capRes = Null THEN {} ELSE {[bindings |-> bindings, res |-> r] : r \in capRes}]
High == Entry(1, "p", "m", "hi", "high", {2}, 80, 8, {Scope("p")})
Plain == Entry(2, "p", "m", "unconfigured", Null, Null, 60, 8, Null)
Third == Entry(3, "q", "n", "unconfigured", Null, {3}, 70, Null, {Scope("q")})
MCCatalogs ==
    {[versioned |-> FALSE, entries |-> {High, Plain, Third}],
     [versioned |-> FALSE, entries |-> {Plain, Third}],
     [versioned |-> TRUE, entries |-> {High, Plain, Third}]}

Open == [providers |-> Null, channels |-> Null, entitlements |-> Null, blocked |-> {}, limit |-> Null]
MCAdmins == {Open, [Open EXCEPT !.providers = {"p"}], [Open EXCEPT !.limit = 3]}
Grant == [Open EXCEPT !.blocked = {}] @@ [inferenceOnly |-> FALSE, strictNoPayg |-> FALSE]
MCClients == {Grant, [Grant EXCEPT !.strictNoPayg = TRUE], [Grant EXCEPT !.blocked = {2}], [Grant EXCEPT !.inferenceOnly = TRUE]}
MCFirstAdmin == Open
MCFirstClient == Grant
MCAdapterSets == {{1, 2, 3}, {1, 3}}
MCContinuationSets == {{1, 2, 3}, {}}

Cell(identity, variant, feature, value) ==
    [provider |-> identity.provider, channel |-> identity.channel, model |-> identity.model, variant |-> variant,
     feature |-> feature, value |-> value]
MCCells == {Cell(Http, Null, "tool_calls", "PASS"), Cell(Bridged, Null, "tool_calls", "UNKNOWN"),
            Cell(Bridged, "hi", "tool_calls", "PASS"), Cell(Bridged, Null, "reasoning_controls", "PASS"),
            Cell(Other, Null, "tool_calls", "UNSUPPORTED"), Cell(Http, Null, "reasoning_controls", "PARTIAL")}

MCPolicy == [NeutralPolicy EXCEPT !.preference = <<3>>]
MCProfiles == [x \in {"careful"} |-> [NoRequirement EXCEPT !.level = 1, !.rating = 65]]

Ask(features, ctx, out, alias, pin) ==
    [Blank EXCEPT !.features = features, !.ctx = ctx, !.out = out, !.alias = alias, !.pin = pin]
Task(level, rating, ctx) == [NoRequirement EXCEPT !.level = level, !.rating = rating, !.ctx = ctx]
MCDemands ==
    {[b |-> Ask({}, Null, Null, Null, Null), task |-> Task(0, Null, Null)],
     [b |-> Ask({"tool_calls"}, Null, 4, Null, Null), task |-> Task(0, 50, Null)],
     [b |-> Ask({}, Null, 8, "careful", Null), task |-> Task(1, 65, Null)],
     [b |-> Ask({}, 4, Null, Null, [model |-> 1, variant |-> "hi", effort |-> Null, res |-> 2]), task |-> Task(0, 75, 4)],
     [b |-> Ask({}, Null, Null, Null, [model |-> 2, variant |-> "unconfigured", effort |-> Null, res |-> 1]), task |-> Task(0, Null, Null)]}
MCInterpretations ==
    {[b |-> Ask({"tool_calls"}, Null, 4, Null, Null), digest |-> "d", requirement |-> Task(1, 65, 4), problems |-> {},
      profile |-> Null, expansion |-> Null],
     [b |-> Blank, digest |-> "d", requirement |-> Task(0, Null, Null), problems |-> {"unknowns.unresolved"},
      profile |-> Null, expansion |-> Null]}

=============================================================================
