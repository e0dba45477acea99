------------------------ MODULE ServerConfiguration ------------------------
(***************************************************************************)
(* The server's one configuration: what each part of it accepts, what the   *)
(* whole accepts, the document it is stored as, and what the composition    *)
(* makes of it (provider bindings, the worker's adapters, compatibility     *)
(* cells).                                                                  *)
(*   provider  [id, adapter, origin]                                        *)
(*   origin    [scheme, host, port, bare]   bare: no credentials, query,    *)
(*                                          fragment                        *)
(*   resource  [id, channel, provider, model, enabled, endpoint, worker,    *)
(*              adapter]                                                    *)
(*   source    [id, kind, worker, entitlement, adopt, tracks, models,       *)
(*              evidence]                                                   *)
(***************************************************************************)
EXTENDS Naturals, FiniteSets

CONSTANTS
    Null,
    Presets,          \* [adapter id -> [credential: needs one]]: the evidence-backed presets
    OwnOrigins,       \* the origins this server listens on
    Loopback,         \* host names of the loopback interface
    SourceIds,        \* names that may be a source's (no ':' in them)
    DerivedIds,       \* resource ids of the form <source_id>:<slug>
    DefaultSettings   \* [records, age, pairing, session]

Kinds == {"codex_subscription", "zcode_subscription"}
KindProvider(kind) == IF kind = "codex_subscription" THEN "openai" ELSE "zai"

\* _validate_endpoint_origin.
OriginAccepted(o) ==
    /\ o.scheme \in {"http", "https"} /\ o.host # Null
    /\ o.bare
    /\ o.scheme = "http" => o.host \in Loopback

\* _origin_key: the default port is the scheme's.
OriginKey(o) == <<o.scheme, o.host, IF o.port # Null THEN o.port ELSE IF o.scheme = "https" THEN 443 ELSE 80>>

ProviderAccepted(p) == OriginAccepted(p.origin)

\* SourceContextEvidence.__post_init__: evidence with an interval of at most a year.
EvidenceAccepted(e) == e.tokens >= 1 /\ e.verified < e.until /\ e.until - e.verified <= 365

\* SourceConfig.__post_init__.
SourceAccepted(s) ==
    /\ s.id \in SourceIds /\ s.kind \in Kinds
    /\ s.entitlement = "subscription_included"
    /\ Cardinality(s.models) <= 64 /\ Cardinality(s.evidence) <= 64
    /\ \A e \in s.evidence : EvidenceAccepted(e)
    /\ \A e, f \in s.evidence : e.model = f.model /\ e.variant = f.variant => e = f

SettingsAccepted(v) == v.records >= 1 /\ v.age >= 1 /\ v.pairing >= 1 /\ v.session >= 1

Neutral == [providers |-> {}, resources |-> {}, sources |-> {}, aliases |-> {}, grants |-> {}, settings |-> DefaultSettings]

Ids(things) == {t.id : t \in things}
Unique(things) == Cardinality(Ids(things)) = Cardinality(things)

\* ServerConfiguration.__post_init__: unique names, known endpoints, no derived resource by hand.
ConfigurationAccepted(c) ==
    /\ SettingsAccepted(c.settings)
    /\ Unique(c.providers) /\ Unique(c.resources) /\ Unique(c.sources)
    /\ \A r \in c.resources :
          /\ r.id \notin DerivedIds
          /\ r.endpoint # Null => r.endpoint \in Ids(c.providers)

ById(things, id) == IF \E t \in things : t.id = id THEN CHOOSE t \in things : t.id = id ELSE Null
ProviderById(c, id) == ById(c.providers, id)
ResourceById(c, id) == ById(c.resources, id)
SourceById(c, id) == ById(c.sources, id)
Enabled(c) == {r \in c.resources : r.enabled}

ToDocumentWithoutSources(c) ==
    [version |-> 2, providers |-> c.providers, resources |-> c.resources, sources |-> {},
     aliases |-> c.aliases, grants |-> c.grants, settings |-> c.settings]

\* to_document: what differs from the default is written, under the current schema version.
ToDocument(c) ==
    [version |-> 2, providers |-> c.providers, resources |-> c.resources, sources |-> c.sources,
     aliases |-> c.aliases, grants |-> c.grants,
     settings |-> [f \in {g \in DOMAIN DefaultSettings : c.settings[g] # DefaultSettings[g]} |-> c.settings[f]]]

\* from_document: each part and the whole are checked again, what is missing is the default.
FromDocument(d) ==
    LET c == [providers |-> d.providers, resources |-> d.resources, sources |-> d.sources,
              aliases |-> d.aliases, grants |-> d.grants,
              settings |-> [f \in DOMAIN DefaultSettings |-> IF f \in DOMAIN d.settings THEN d.settings[f] ELSE DefaultSettings[f]]]
    IN  IF /\ d.version \in {1, 2} /\ (d.sources # {} => d.version = 2)
           /\ \A p \in d.providers : ProviderAccepted(p)
           /\ \A s \in d.sources : SourceAccepted(s)
           /\ ConfigurationAccepted(c)
        THEN c ELSE Null

-----------------------------------------------------------------------------
(* Composition *)

NoRouterLoop(c) == \A p \in c.providers : OriginKey(p.origin) \notin {OriginKey(o) : o \in OwnOrigins}

\* validate_execution_configuration with _validate_provider_endpoint.
ExecutionAccepted(c, workers) ==
    /\ \A p \in c.providers : p.adapter \in DOMAIN Presets
    /\ \A s \in c.sources : s.worker \in workers
    /\ \A r \in c.resources : r.worker # Null => r.worker \in workers

\* build_resource_bindings: a preset that needs a credential is bound only when one is stored.
Bound(c, secrets) ==
    {r \in c.resources : /\ r.channel = "server_direct_http" /\ r.endpoint # Null
                         /\ LET p == ProviderById(c, r.endpoint)
                            IN  p # Null /\ p.adapter \in DOMAIN Presets
                                /\ (Presets[p.adapter].credential => p.id \in secrets)}

\* build_adapter_registry: the worker-bridged resources an adapter serves, configured or derived.
AdapterServes(c, secrets, derived) ==
    Ids(Bound(c, secrets))
    \cup {r.id : r \in {x \in c.resources : x.channel = "worker_bridged" /\ x.worker # Null /\ x.adapter # Null}}
    \cup Ids(derived)

\* build_compatibility_cells: one assertion per channel, provider and model.
Cells(c, secrets, derived) ==
    {[key |-> <<r.channel, r.provider, r.model>>, by |-> ProviderById(c, r.endpoint).adapter] : r \in Bound(c, secrets)}
    \cup {[key |-> <<r.channel, r.provider, r.model>>, by |-> "codex"] :
             r \in {x \in c.resources : /\ x.channel = "worker_bridged" /\ x.worker # Null
                                        /\ x.adapter = "codex" /\ x.provider = "openai"}}
    \cup {[key |-> <<"worker_bridged", d.provider, d.model>>, by |-> IF d.provider = "zai" THEN "zcode" ELSE "codex"] : d \in derived}

\* _canonical_cells: the same backend asserted twice differently cannot be represented.
CellsAgree(cells) == \A x, y \in cells : x.key = y.key => x = y

SaveableAnywhere(c, workers, secrets) == NoRouterLoop(c) /\ CellsAgree(Cells(c, secrets, {}))

\* Everything _save_config checks before it changes anything.
Saveable(c, workers, secrets) == NoRouterLoop(c) /\ ExecutionAccepted(c, workers) /\ CellsAgree(Cells(c, secrets, {}))
=============================================================================
