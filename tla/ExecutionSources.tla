-------------------------- MODULE ExecutionSources --------------------------
(***************************************************************************)
(* The models a subscription source on a worker is seen to have: what an    *)
(* inventory report may say, which models are adopted, kept while missing   *)
(* and retired, and the resources and catalog entries derived from them.    *)
(*   inventory  [source, adapter, kind, auth, exact, version, models]       *)
(*   models     a set of [slug, efforts]                                    *)
(* A source's state: [config, inventory, adopted, misses, retired,          *)
(* decisions]; adopted and misses are functions on the slugs they hold.     *)
(***************************************************************************)
EXTENDS ServerConfiguration, Sequences, SequencesExt

CONSTANTS
    RetireAfter,        \* RETIRE_AFTER_MISSES
    MaxRetired,         \* MAX_RETAINED_RETIRED
    MaxModels,          \* MAX_MODELS_PER_SOURCE
    PolicyEfforts,      \* REASONING_EFFORTS
    SourceAdapter(_, _),  \* <prefix>:<source>, by kind and source
    DerivedId(_, _, _),   \* source_resource_id: source, slug, effort or Null
    SourceOf(_),          \* the source named in a derived resource id
    ModelOf(_)            \* the model named in it

AuthStates == {"authenticated", "not_authenticated", "unverified", "unavailable"}
Unprobeable == {"zcode_subscription"}

\* SourceInventory and DiscoveredModel: what a report may hold.
InventoryAccepted(i) ==
    /\ i.kind \in Kinds /\ i.auth \in AuthStates
    /\ Cardinality(i.models) <= MaxModels
    /\ \A x, y \in i.models : x.slug = y.slug => x = y

\* ModelInventoryReport.
ReportAccepted(inventories) ==
    /\ \A i \in inventories : InventoryAccepted(i)
    /\ \A i, j \in inventories : i # j => i.source # j.source /\ i.adapter # j.adapter

Fresh(config) == [config |-> config, inventory |-> Null, adopted |-> [s \in {} |-> {}], misses |-> [s \in {} |-> 0],
                  retired |-> <<>>, decisions |-> {}]

\* sync_configuration: what was learned is kept only for the same worker and kind.
SyncConfiguration(state, sources) ==
    [id \in Ids(sources) |->
        LET config == SourceById([sources |-> sources], id)
        IN  IF id \in DOMAIN state /\ state[id].config.worker = config.worker /\ state[id].config.kind = config.kind
            THEN [state[id] EXCEPT !.config = config] ELSE Fresh(config)]

ExclusionByAdoption(config, slug) == IF ~config.adopt THEN "adoption_disabled" ELSE Null

\* _current_exclusion.
Exclusion(config, slug) ==
    IF ~config.adopt THEN "adoption_disabled"
    ELSE IF config.tracks # {} THEN "legacy_track_policy"
    ELSE IF slug \notin config.models THEN "model_not_allowed" ELSE Null

\* _decide, for one reported model: the reason it is not routable, or Null.
Reason(config, i, m) ==
    IF Exclusion(config, m.slug) # Null THEN Exclusion(config, m.slug)
    ELSE IF config.kind = "zcode_subscription"
    THEN IF m.slug # "plan-managed" \/ m.efforts # {} THEN "plan_lane_unverified"
         ELSE IF i.auth \notin {"authenticated", "unverified"} THEN "source_not_authenticated" ELSE Null
    ELSE IF i.auth # "authenticated" THEN "source_not_authenticated"
    ELSE IF m.efforts \cap PolicyEfforts = {} THEN "effort_not_reported" ELSE Null

\* One more miss for every adopted model an authenticated inventory lacks.
Missed(state, i, present) == [slug \in DOMAIN state.adopted \ present |->
                                (IF slug \in DOMAIN state.misses THEN state.misses[slug] ELSE 0) + 1]

CountsAnyway(i) == TRUE

CountsMisses(i) == i.auth = "authenticated"

Without(f, slugs) == [s \in DOMAIN f \ slugs |-> f[s]]

\* The oldest of the retired are forgotten first.
LastOf(q, n) == IF Len(q) <= n THEN q ELSE SubSeq(q, Len(q) - n + 1, Len(q))

\* What is left of the first n of q without what is gone.
Kept(q, gone, n) ==
    LET kept[i \in 0..n] == IF i = 0 THEN <<>> ELSE IF q[i] \in gone THEN kept[i - 1] ELSE Append(kept[i - 1], q[i])
    IN  kept[n]
Dropping(q, gone) == Kept(q, gone, Len(q))

\* What was missed too often is retired, what was seen again no longer missed or retired.
Settle(known, missed, seen) ==
    LET retiring == {s \in DOMAIN missed : missed[s] >= RetireAfter}
    IN  [known EXCEPT
            !.adopted = Without(@, retiring),
            !.misses = Without([s \in DOMAIN @ \cup DOMAIN missed |-> IF s \in DOMAIN missed THEN missed[s] ELSE known.misses[s]],
                               retiring \cup seen),
            !.retired = Dropping(LastOf(@ \o SetToSeq(retiring \ ToSet(@)), MaxRetired), seen)]

Counted(known, i, present) ==
    IF ~CountsMisses(i) THEN known ELSE Settle(known, Missed(known, i, present), present \cap DOMAIN known.adopted)

\* _decide: adoption, then misses and retirement, which only an authenticated inventory counts.
Decide(state, i) ==
    LET routable == {m \in i.models : Reason(state.config, i, m) = Null}
    IN  Counted([state EXCEPT !.inventory = i,
                              !.adopted = [s \in DOMAIN @ \cup {m.slug : m \in routable} |->
                                             IF \E m \in routable : m.slug = s
                                             THEN (CHOOSE m \in routable : m.slug = s).efforts ELSE state.adopted[s]],
                              !.decisions = {[slug |-> m.slug, reason |-> Reason(state.config, i, m)] : m \in i.models}],
                i, {m.slug : m \in i.models})

\* apply_inventory: sources of another worker, kind or adapter are passed over.
ApplyInventory(state, worker, inventories) ==
    [id \in DOMAIN state |->
        LET mine == {i \in inventories : /\ i.source = id /\ worker = state[id].config.worker
                                         /\ i.kind = state[id].config.kind
                                         /\ i.adapter = SourceAdapter(i.kind, id)}
        IN  IF mine = {} THEN state[id] ELSE Decide(state[id], CHOOSE i \in mine : TRUE)]

\* derived_registrations, with _source_capabilities: one resource per adopted model and effort.
DerivedOf(state, id) ==
    UNION {LET efforts == IF state[id].adopted[slug] = {} THEN {Null} ELSE state[id].adopted[slug] \cap PolicyEfforts
           IN  {[id |-> DerivedId(id, slug, e), provider |-> KindProvider(state[id].config.kind), model |-> slug, variant |-> e,
                 evidence |-> \E x \in state[id].config.evidence :
                                 /\ x.model = slug /\ x.variant = (IF e = Null THEN "plan" ELSE e)
                                 /\ state[id].inventory.exact /\ x.version = state[id].inventory.version] : e \in efforts} :
           slug \in {s \in DOMAIN state[id].adopted : Exclusion(state[id].config, s) = Null}}

DerivedRegistrations(state) == UNION {DerivedOf(state, id) : id \in {s \in DOMAIN state : state[s].inventory # Null}}

\* retained_model_lifecycle.
Lifecycle(state) ==
    UNION {{<<id, s, "retained_missing">> : s \in DOMAIN state[id].misses}
           \cup {<<id, s, "retired">> : s \in ToSet(state[id].retired)} : id \in DOMAIN state}

\* source_view: a model's state and reason under the policy of now.
ModelView(st, m) ==
    LET decided == {d \in st.decisions : d.slug = m.slug}
        before == IF decided = {} THEN Null ELSE (CHOOSE d \in decided : TRUE).reason
        current == Exclusion(st.config, m.slug)
        policy == {"model_not_allowed", "legacy_track_policy", "adoption_disabled"}
        reason == IF current = Null /\ before \in policy THEN "awaiting_inventory_refresh" ELSE current
    IN  [slug |-> m.slug,
         state |-> IF reason # Null THEN "discovered"
                   ELSE IF decided # {} THEN (IF before = Null THEN "routable" ELSE "discovered")
                   ELSE IF m.slug \in ToSet(st.retired) THEN "retired" ELSE "discovered",
         reason |-> IF reason # Null THEN reason ELSE before]

SourceView(state) ==
    {[source |-> id, auth |-> IF state[id].inventory = Null THEN "unverified" ELSE state[id].inventory.auth,
      models |-> IF state[id].inventory = Null THEN {} ELSE {ModelView(state[id], m) : m \in state[id].inventory.models}] :
        id \in DOMAIN state}
=============================================================================
