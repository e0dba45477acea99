-------------------------- MODULE MCControlPlane --------------------------
(* Small instances of the control plane. *)
EXTENDS ControlPlane, TLC

CONSTANTS a1, a2, c1, o1, w1, w2, p1, r1, r2

MCDerivedId(s, slug, e) == <<s, slug, e>>
MCSourceOf(id) == id[1]
MCModelOf(id) == id[2]
MCSourceAdapter(kind, s) == <<kind, s>>

MCDerivedIds == {<<"s1", m, "low">> : m \in {"m1", "m2"}}
MCPresets == [zai |-> [credential |-> TRUE]]
Site(host) == [host |-> host, bare |-> TRUE, port |-> Null, scheme |-> "https"]
MCOwnOrigins == {Site("router")}
MCProviders == {[id |-> p1, adapter |-> "zai", origin |-> Site(h)] : h \in {"api", "router"}}
MCSettings == [age |-> 1, pairing |-> 1, records |-> 1, session |-> 1]

Direct == [id |-> r1, adapter |-> Null, channel |-> "server_direct_http", enabled |-> TRUE, endpoint |-> p1,
           model |-> "glm", provider |-> "zai", worker |-> Null]
Bridged == [id |-> r2, adapter |-> "codex", channel |-> "worker_bridged", enabled |-> TRUE, endpoint |-> Null,
            model |-> "gpt", provider |-> "openai", worker |-> w1]
MCResources == {Direct, Bridged}
Source(w) == [id |-> "s1", kind |-> "codex_subscription", worker |-> w, adopt |-> TRUE, entitlement |-> "subscription_included",
              evidence |-> {}, models |-> {"m1", "m2"}, tracks |-> {}]
MCSources == {Source(w1), Source(w2)}
MCPolicies == {[adopt |-> TRUE, models |-> {"m1"}], [adopt |-> TRUE, models |-> {"m1", "m2"}]}
MCAliases == {[alias |-> "fast", profile |-> "coding"], [alias |-> "old", profile |-> "gone"]}

Inventory(auth, models) == [kind |-> "codex_subscription", adapter |-> <<"codex_subscription", "s1">>, models |-> {[slug |-> m, efforts |-> {"low"}] : m \in models}, auth |-> auth,
                            exact |-> TRUE, source |-> "s1", version |-> "v1"]
Snap(id, health) == [id |-> id, health |-> health]
Report(w, inventories, snapshots) == [worker |-> w, inventories |-> inventories, snapshots |-> snapshots]
MCReports ==
    {Report(w1, {Inventory("authenticated", {"m1", "m2"})}, {Snap(<<"s1", "m1", "low">>, "ok")}),
     Report(w1, {Inventory("authenticated", {"m2"})}, {}),
     Report(w1, {Inventory("not_authenticated", {"m2"})}, {Snap(<<"s1", "m1", "low">>, "ok")}),
     Report(w1, {}, {Snap(r2, "ok")}),
     Report(w1, {}, {Snap(<<"s1", "m1", "low">>, "unavailable")}),
     Report(w2, {Inventory("authenticated", {"m1"})}, {})}

Full == [aliases |-> {}, grants |-> {}, providers |-> {[id |-> p1, adapter |-> "zai", origin |-> Site("api")]},
         resources |-> MCResources, settings |-> MCSettings, sources |-> {Source(w1)}]
Key(state, role) == [state |-> state, role |-> role]
Keys(state) == c1 :> Key(state, "inference") @@ o1 :> Key(state, "observer")
Paired == [w \in {w1, w2} |-> "active"]
Budget(ops, reports, links, probes, reads, ticks, restarts, faults) ==
    [ops |-> ops, reports |-> reports, links |-> links, probes |-> probes, reads |-> reads, ticks |-> ticks,
     restarts |-> restarts, faults |-> faults]

(* A new server, a server in use, and one whose worker was revoked while a resource still names it. *)
MCInitials ==
    {[budgets |-> {Budget(3, 0, 0, 0, 0, 0, 1, 0)}, cfg |-> [Full EXCEPT !.providers = {}, !.resources = {}, !.sources = {}],
      keys |-> Keys("none"), secrets |-> {}, workers |-> Paired],
     [budgets |-> {Budget(1, 4, 0, 0, 0, 0, 0, 0), Budget(2, 1, 0, 1, 0, 0, 0, 0), Budget(1, 1, 1, 0, 2, 1, 1, 0),
                   Budget(1, 1, 0, 0, 1, 0, 1, 1), Budget(1, 0, 0, 1, 0, 0, 0, 1)},
      cfg |-> Full, keys |-> Keys("active"), secrets |-> {p1}, workers |-> Paired],
     [budgets |-> {Budget(3, 0, 0, 0, 0, 0, 1, 0)}, cfg |-> [Full EXCEPT !.sources = {}],
      keys |-> Keys("active"), secrets |-> {p1}, workers |-> [Paired EXCEPT ![w1] = "revoked"]]}
=============================================================================
