---------------------------- MODULE ControlPlane ----------------------------
(***************************************************************************)
(* The control plane of the server: the administrator's operations on the   *)
(* configuration, client keys and workers; the application composed from    *)
(* them; reports of workers and health probes; and the feed of state        *)
(* documents observers follow.                                              *)
(*                                                                          *)
(* Operations run in threads of the HTTP server.  Some hold the state lock  *)
(* throughout, and are one action.  The others read the configuration with  *)
(* no lock held and save what they made of it under the lock later: these   *)
(* are two actions, and an administrator's task holds the configuration     *)
(* they are going to save.                                                  *)
(*                                                                          *)
(*   app   [registered, seen, dir, grants, serves, gen]  the application    *)
(*   obs   [resource id -> [by, at, health]]             _observations      *)
(*   feed  [epoch, seq, start, floor, events, sem, faulted]                 *)
(*   disk  the rows of the store's configuration table: none, or one document *)
(***************************************************************************)
EXTENDS ExecutionSources

CONSTANTS
    Admins, Clients, Workers,
    Providers,      \* what an administrator may add
    Resources,
    Sources,
    Policies,       \* [adopt, models]: what a source's policy may be set to
    Aliases,        \* [alias, profile]
    Profiles,       \* profile ids of the catalog
    Reports,        \* [worker, inventories, snapshots], a snapshot [id, health]
    Initials,       \* [cfg, keys, secrets, workers, budgets]: what a server may be started with, and how many
                    \* operations, reports, ... a behaviour from there has
    Ttl,            \* freshness_ttl_seconds
    MaxEvents,      \* _PRODUCER_EVENT_LIMIT
    MaxSources      \* sources of one worker

(* What configurations are made of. *)
Parts(field(_)) == UNION {field(i.cfg) : i \in Initials}
ProviderParts == Providers \cup Parts(LAMBDA c : c.providers)
ResourceParts == Resources \cup Parts(LAMBDA c : c.resources)
SourceParts == Sources \cup Parts(LAMBDA c : c.sources)
AliasParts == Aliases \cup Parts(LAMBDA c : c.aliases)

ResourceRecords ==
    [id : Ids(ResourceParts), channel : {r.channel : r \in ResourceParts}, provider : {r.provider : r \in ResourceParts},
     model : {r.model : r \in ResourceParts}, enabled : BOOLEAN, endpoint : {r.endpoint : r \in ResourceParts} \cup {Null},
     worker : {r.worker : r \in ResourceParts}, adapter : {r.adapter : r \in ResourceParts} \cup {Null}]
SourceRecords ==
    [id : Ids(SourceParts), kind : {s.kind : s \in SourceParts}, worker : {s.worker : s \in SourceParts},
     entitlement : {s.entitlement : s \in SourceParts}, adopt : {s.adopt : s \in SourceParts \cup Policies},
     tracks : {s.tracks : s \in SourceParts} \cup {{}}, models : {s.models : s \in SourceParts \cup Policies},
     evidence : {s.evidence : s \in SourceParts}]
Configurations ==
    [providers : SUBSET ProviderParts, resources : SUBSET ResourceRecords, sources : SUBSET SourceRecords,
     aliases : SUBSET AliasParts, grants : SUBSET Clients, settings : {i.cfg.settings : i \in Initials} \cup {DefaultSettings}]

\* Each part of a configuration was accepted where it was made.
PartsAccepted(c) == (\A p \in c.providers : ProviderAccepted(p)) /\ (\A s \in c.sources : SourceAccepted(s))

Roles == {"inference", "observer"}
KeyRecords == [state : {"none", "active", "revoked"}, role : Roles]
Inventories == UNION {r.inventories : r \in Reports}
Slugs == UNION {{m.slug : m \in i.models} : i \in Inventories}
Budgets == [{"ops", "reports", "links", "probes", "reads", "ticks", "restarts", "faults"} -> Nat]

\* A server is started with a configuration that was accepted, names worker devices it knows and sets every setting; an inventory
\* lists finitely many models, and the id of a derived resource names its source and its model.
ASSUME ControlAssumption ==
    /\ RetireAfter \in Nat \ {0} /\ MaxRetired \in Nat /\ MaxEvents \in Nat
    /\ Null \notin Clients /\ Null \notin Workers /\ Null \notin {"adoption_disabled", "legacy_track_policy", "model_not_allowed"}
    /\ Null \notin ResourceRecords /\ Null \notin SourceRecords /\ Null \notin Configurations
    /\ DefaultSettings = [f \in DOMAIN DefaultSettings |-> DefaultSettings[f]]
    /\ ResourceParts \subseteq ResourceRecords /\ SourceParts \subseteq SourceRecords
    /\ \A i \in Initials :
          /\ i.cfg \in Configurations /\ PartsAccepted(i.cfg) /\ ConfigurationAccepted(i.cfg)
          /\ i.cfg.settings = [f \in DOMAIN DefaultSettings |-> i.cfg.settings[f]]
          /\ i.budgets \subseteq Budgets
          /\ i.keys \in [Clients -> KeyRecords] /\ i.workers \in [Workers -> {"absent", "active", "revoked"}]
          /\ \A s \in i.cfg.sources : s.worker \in Workers /\ i.workers[s.worker] # "absent"
          /\ \A r \in i.cfg.resources : r.worker # Null => r.worker \in Workers /\ i.workers[r.worker] # "absent"
    /\ \A i \in Inventories : IsFiniteSet(i.models)
    /\ \A s \in SourceIds, m \in Slugs, e \in PolicyEfforts \cup {Null} :
          SourceOf(DerivedId(s, m, e)) = s /\ ModelOf(DerivedId(s, m, e)) = m

VARIABLES cfg, disk, secrets, workers, connected, keys, app, src, obs, feed, observer, task, probe, now, failed, absent, budget
vars == <<cfg, disk, secrets, workers, connected, keys, app, src, obs, feed, observer, task, probe, now, failed, absent, budget>>

\* What a behaviour still has of each kind of event.
Pay(kinds) == (\A k \in kinds : budget[k] > 0) /\ budget' = [k \in DOMAIN budget |-> IF k \in kinds THEN budget[k] - 1 ELSE budget[k]]
Faulty(fault) == IF fault = "none" THEN {} ELSE {"faults"}

Active(role) == {c \in Clients : keys[c].state = "active" /\ keys[c].role = role}
Known == {w \in Workers : workers[w] # "absent"}

\* What an observation of a resource is an observation of.
Binding(c, id) ==
    IF id \in DerivedIds
    THEN LET s == SourceById(c, SourceOf(id)) IN IF s = Null THEN Null ELSE <<s.worker, s.kind>>
    ELSE LET r == ResourceById(c, id)
         IN  IF r = Null THEN Null ELSE <<r.worker, r.adapter, IF r.endpoint = Null THEN Null ELSE ProviderById(c, r.endpoint)>>

\* _configured_worker_owner.
Owner(c, id) ==
    IF ResourceById(c, id) # Null
    THEN LET r == ResourceById(c, id) IN IF r.enabled /\ r.channel = "worker_bridged" THEN r.worker ELSE Null
    ELSE IF id \in DerivedIds /\ SourceById(c, SourceOf(id)) # Null THEN SourceById(c, SourceOf(id)).worker ELSE Null

Restricted(f, ids) == [i \in DOMAIN f \cap ids |-> f[i]]
Overlaid(f, g) == [i \in DOMAIN f \cup DOMAIN g |-> IF i \in DOMAIN g THEN g[i] ELSE f[i]]

-----------------------------------------------------------------------------
(* The state document and its feed *)

IsFresh(o, t) == t - o.at <= Ttl

\* producer_snapshot and _producer_document, without the instants of observation.
Document(c, a, st, conn, t) ==
    LET entry(id) ==
            LET r == ResourceById(c, id)
                w == IF r # Null THEN r.worker
                     ELSE IF id \in DerivedIds /\ SourceOf(id) \in DOMAIN st THEN st[SourceOf(id)].config.worker ELSE Null
                o == IF id \in DOMAIN a.seen THEN a.seen[id] ELSE Null
                live == IF w = Null THEN Null ELSE w \in conn
                fresh == IF o = Null THEN "never" ELSE IF IsFresh(o, t) THEN "fresh" ELSE "stale"
                health == IF o = Null THEN Null ELSE o.health
            IN  [id |-> id, configured |-> r # Null, live |-> live, fresh |-> fresh, health |-> health,
                 availability |-> IF live = FALSE \/ (fresh = "fresh" /\ health = "unavailable") THEN "unavailable" ELSE "unknown"]
        off(r) == [id |-> r.id, configured |-> TRUE, live |-> IF r.worker = Null THEN Null ELSE r.worker \in conn,
                   fresh |-> "not_evaluated", health |-> Null, availability |-> "disabled"]
    IN  [resources |-> {entry(id) : id \in a.registered} \cup {off(r) : r \in c.resources \ Enabled(c)},
         sources |-> {[view |-> v, live |-> st[v.source].config.worker \in conn] : v \in SourceView(st)},
         retained |-> Lifecycle(st)]

Now == Document(cfg, app, src, connected, now)

AppendUnfloored(f, doc) ==
    LET events == Append(f.events, [n |-> f.seq + 1, epoch |-> f.epoch, doc |-> doc])
    IN  [f EXCEPT !.seq = @ + 1, !.sem = doc, !.events = IF Len(events) > MaxEvents THEN Tail(events) ELSE events]

\* append_producer_event: the oldest events beyond the bound go, and the floor rises to them.
AppendEvent(f, doc) ==
    LET events == Append(f.events, [n |-> f.seq + 1, epoch |-> f.epoch, doc |-> doc])
        over == Len(events) > MaxEvents
    IN  [f EXCEPT !.seq = @ + 1, !.sem = doc,
                  !.events = IF over THEN Tail(events) ELSE events,
                  !.floor = IF over THEN Head(events).n ELSE @]

\* _publish_producer_change, where it may fail.
Publish(f, doc, broken) ==
    IF f.faulted THEN f
    ELSE IF broken THEN [f EXCEPT !.faulted = TRUE]
    ELSE IF doc = f.sem THEN f ELSE AppendEvent(f, doc)

\* _producer_write around an operation: published before it, and after it.
Around(f, before, after, fault) == Publish(Publish(f, before, fault = "first"), after, fault = "last")

FeedFaults == {"none", "first", "last"}

-----------------------------------------------------------------------------
(* Composition *)

\* _rebuild_application, once the catalog is loaded: [app, src, obs].
DirectoryKept(a) == a.dir \cup Active("inference")
Directory(a) == Active("inference")

Rebuilt(c, st, ob, a, keysNow, secretsNow) ==
    LET synced == SyncConfiguration(st, c.sources)
        derived == DerivedRegistrations(synced)
        kept == Restricted(ob, (DOMAIN ob \ DerivedIds) \cup Ids(derived))
        registered == Ids(Enabled(c)) \cup Ids(derived)
    IN  [src |-> synced, obs |-> kept, ok |-> TRUE,
         app |-> [registered |-> registered, seen |-> Restricted(kept, registered), dir |-> keysNow,
                  grants |-> c.grants, serves |-> AdapterServes(c, secretsNow, derived), gen |-> a.gen + 1]]

\* What _save_config forgets: observations of what is gone, switched off or bound to something else.
Changed(c) ==
    {r.id : r \in {x \in cfg.resources :
        LET y == ResourceById(c, x.id)
        IN  \/ y = Null
            \/ ~y.enabled \/ [y EXCEPT !.enabled = x.enabled] # x
            \/ (x.endpoint # Null /\ ProviderById(cfg, x.endpoint) # ProviderById(c, x.endpoint))}}
    \cup {d \in DerivedIds : \E s \in cfg.sources :
             s.id = SourceOf(d) /\ LET y == SourceById(c, s.id) IN y = Null \/ y.worker # s.worker \/ y.kind # s.kind}

SaveFaults == FeedFaults \cup {"rebuild", "store"}

\* _save_config: all checks come first, then memory, the application and the store, in that order.  A rebuild that fails does so where
\* it reads the store: the sources are synchronised and the observations trimmed by then, and the application is the one before.
Save(c, fault) ==
    LET kept == Restricted(obs, DOMAIN obs \ Changed(c))
        built == Rebuilt(c, src, kept, app, Directory(app), secrets)
    IN  /\ cfg' = c
        /\ obs' = built.obs /\ src' = built.src
        /\ app' = IF fault = "rebuild" THEN app ELSE built.app
        /\ disk' = IF fault \in {"rebuild", "store"} THEN disk ELSE {ToDocument(c)}
        /\ failed' = (failed \/ fault \in {"rebuild", "store"})
        /\ feed' = Around(feed, Now, Document(c, app', src', connected, now), fault)

\* An operation of its own that only composes the application again.
Rebuild(fault) ==
    LET built == Rebuilt(cfg, src, obs, app, Directory(app), secrets)
    IN  /\ obs' = built.obs /\ src' = built.src
        /\ app' = IF fault = "rebuild" THEN app ELSE built.app
        /\ failed' = (failed \/ fault = "rebuild")
        /\ feed' = Around(feed, Now, Document(cfg, app', src', connected, now), fault)

-----------------------------------------------------------------------------
(* The administrator's operations *)

Idle == [op |-> "idle", new |-> Null, client |-> Null, role |-> Null]
Begin(a, op, new) == task[a].op = "idle" /\ Pay({"ops"}) /\ task' = [task EXCEPT ![a] = [Idle EXCEPT !.op = op, !.new = new]]
BeginKey(a, op, new, c, role) ==
    task[a].op = "idle" /\ Pay({"ops"}) /\ task' = [task EXCEPT ![a] = [op |-> op, new |-> new, client |-> c, role |-> role]]

Still == UNCHANGED <<cfg, disk, workers, connected, keys, app, src, obs, feed, observer, probe, now, failed, absent>>

\* service_add_provider: the credential is stored before the configuration that needs it.
AddProvider(a, p, secret) ==
    /\ ProviderAccepted(p) /\ ProviderById(cfg, p.id) = Null
    /\ Begin(a, "save", [cfg EXCEPT !.providers = @ \cup {p}])
    /\ secrets' = IF secret THEN secrets \cup {p.id} ELSE secrets
    /\ Still

WithEndpoint(r, e) == [r EXCEPT !.endpoint = e, !.adapter = Null]

RemoveProvider(a, id) ==
    /\ ProviderById(cfg, id) # Null
    /\ Begin(a, "save", [cfg EXCEPT !.providers = {p \in @ : p.id # id},
                                    !.resources = {IF r.endpoint = id THEN WithEndpoint(r, Null) ELSE r : r \in @}])
    /\ secrets' = secrets \ {id}
    /\ Still

RemoveSource(a, id) ==
    /\ SourceById(cfg, id) # Null
    /\ Begin(a, "save", [cfg EXCEPT !.sources = {s \in @ : s.id # id}])
    /\ UNCHANGED secrets /\ Still

\* service_set_source_model_policy: a track policy of old is replaced by the list of models.
SetPolicy(a, id, p) ==
    LET s == SourceById(cfg, id)
        t == [s EXCEPT !.tracks = {}, !.adopt = p.adopt, !.models = p.models]
    IN  /\ s # Null /\ SourceAccepted(t)
        /\ Begin(a, "save", [cfg EXCEPT !.sources = (@ \ {s}) \cup {t}])
        /\ UNCHANGED secrets /\ Still

RemoveResource(a, id) ==
    /\ ResourceById(cfg, id) # Null
    /\ Begin(a, "save", [cfg EXCEPT !.resources = {r \in @ : r.id # id}])
    /\ UNCHANGED secrets /\ Still

\* _with_enabled copies every part of the resource but its local adapter.
WithEnabled(r, on) == [r EXCEPT !.enabled = on, !.adapter = Null]

SetEnabled(a, id, on) ==
    /\ ResourceById(cfg, id) # Null
    /\ Begin(a, "save", [cfg EXCEPT !.resources = {IF r.id = id THEN WithEnabled(r, on) ELSE r : r \in @}])
    /\ UNCHANGED secrets /\ Still

PutAlias(a, x) ==
    /\ x.profile \in Profiles
    /\ Begin(a, "save", [cfg EXCEPT !.aliases = {y \in @ : y.alias # x.alias} \cup {x}])
    /\ UNCHANGED secrets /\ Still

DeleteAlias(a, name) ==
    /\ \E y \in cfg.aliases : y.alias = name
    /\ Begin(a, "save", [cfg EXCEPT !.aliases = {y \in @ : y.alias # name}])
    /\ UNCHANGED secrets /\ Still

\* service_issue_client_key: the grant is saved first, then the key is stored, then it is let in.
IssueKey(a, c, role, granted) ==
    /\ keys[c].state = "none" /\ (role = "observer" => ~granted)
    /\ BeginKey(a, IF granted THEN "grant" ELSE "key",
                IF granted THEN [cfg EXCEPT !.grants = @ \cup {c}] ELSE Null, c, role)
    /\ UNCHANGED secrets /\ Still

\* A configuration computed without the lock is checked as a whole where it is made and saved under it.
AdminSave(a, fault) ==
    LET t == task[a]
    IN  /\ t.op \in {"save", "grant"} /\ ConfigurationAccepted(t.new) /\ Saveable(t.new, Known, secrets)
        /\ Pay(Faulty(fault)) /\ Save(t.new, fault)
        /\ task' = [task EXCEPT ![a] = IF t.op = "grant" /\ fault \notin {"rebuild", "store"}
                                       THEN [t EXCEPT !.op = "key", !.new = Null] ELSE Idle]
        /\ UNCHANGED <<secrets, workers, connected, keys, observer, probe, now, absent>>

AdminRefused(a) ==
    /\ task[a].op \in {"save", "grant"}
    /\ ~(ConfigurationAccepted(task[a].new) /\ Saveable(task[a].new, Known, secrets))
    /\ task' = [task EXCEPT ![a] = Idle]
    /\ feed' = Around(feed, Now, Now, "none")
    /\ UNCHANGED <<cfg, disk, secrets, workers, connected, keys, app, src, obs, observer, probe, now, failed, absent, budget>>

\* add_client_key: a client id is taken once.
AddKey(a) ==
    LET t == task[a] taken == keys[t.client].state # "none"
    IN  /\ t.op = "key"
        /\ keys' = IF taken THEN keys ELSE [keys EXCEPT ![t.client] = [state |-> "active", role |-> t.role]]
        /\ task' = [task EXCEPT ![a] = IF taken THEN Idle ELSE [t EXCEPT !.op = "compose"]]
        /\ UNCHANGED <<cfg, disk, secrets, workers, connected, app, src, obs, feed, observer, probe, now, failed, absent, budget>>

RevokeKey(a, c) ==
    /\ keys[c].state = "active"
    /\ BeginKey(a, "compose", Null, c, Null)
    /\ keys' = [keys EXCEPT ![c].state = "revoked"]
    /\ UNCHANGED <<cfg, disk, secrets, workers, connected, app, src, obs, feed, observer, probe, now, failed, absent>>

AdminRebuild(a, fault) ==
    /\ task[a].op = "compose"
    /\ Pay(Faulty(fault)) /\ Rebuild(fault)
    /\ task' = [task EXCEPT ![a] = Idle]
    /\ UNCHANGED <<cfg, disk, secrets, workers, connected, keys, observer, probe, now, absent>>

\* Operations that hold the lock from their first check on.
SaveLocked(c, fault) ==
    /\ Pay({"ops"} \cup Faulty(fault))
    /\ IF ConfigurationAccepted(c) /\ Saveable(c, Known, secrets) THEN Save(c, fault)
       ELSE feed' = Around(feed, Now, Now, fault) /\ UNCHANGED <<cfg, disk, app, src, obs, failed>>
    /\ UNCHANGED <<secrets, workers, connected, keys, observer, task, probe, now, absent>>

Usable(w) == w # Null => workers[w] = "active"

AddResource(r, fault) ==
    /\ ResourceById(cfg, r.id) = Null /\ Usable(r.worker)
    /\ (r.endpoint # Null => ProviderById(cfg, r.endpoint) # Null)
    /\ SaveLocked([cfg EXCEPT !.resources = @ \cup {r}], fault)

AddSource(s, fault) ==
    /\ SourceAccepted(s) /\ SourceById(cfg, s.id) = Null /\ workers[s.worker] = "active"
    /\ Cardinality({t \in cfg.sources : t.worker = s.worker}) < MaxSources
    /\ SaveLocked([cfg EXCEPT !.sources = @ \cup {s}], fault)

Referenced(w) == (\E s \in cfg.sources : s.worker = w) \/ (\E r \in cfg.resources : r.worker = w)

WorkerStill == UNCHANGED <<cfg, disk, secrets, keys, app, src, obs, observer, task, probe, now, failed, absent>>

DeleteWorker(w) ==
    /\ workers[w] = "revoked" /\ ~Referenced(w)
    /\ Pay({"ops"}) /\ workers' = [workers EXCEPT ![w] = "absent"]
    /\ UNCHANGED <<connected, feed>> /\ WorkerStill

-----------------------------------------------------------------------------
(* Workers, probes and observers *)

PairWorker(w) ==
    /\ workers[w] = "absent"
    /\ Pay({"ops"}) /\ workers' = [workers EXCEPT ![w] = "active"]
    /\ UNCHANGED <<connected, feed>> /\ WorkerStill

Unnoticed(conn, fault) == feed' = feed

\* _producer_connection_changed: a failure to publish is kept for the readers.
Noticed(conn, fault) == feed' = Publish(feed, Document(cfg, app, src, conn, now), fault # "none")

ConnectionChanged(w, fault) ==
    /\ workers[w] = "active"
    /\ Pay({"links"} \cup Faulty(fault))
    /\ connected' = IF w \in connected THEN connected \ {w} ELSE connected \cup {w}
    /\ Noticed(connected', fault)
    /\ UNCHANGED workers /\ WorkerStill

RevokeWorker(w, fault) ==
    /\ workers[w] = "active"
    /\ Pay({"ops"} \cup Faulty(fault))
    /\ workers' = [workers EXCEPT ![w] = "revoked"]
    /\ connected' = connected \ {w}
    /\ IF w \in connected THEN Noticed(connected', fault) ELSE UNCHANGED feed
    /\ WorkerStill

\* What apply_combined_worker_report refuses.
Admissible(r) ==
    /\ \A i \in r.inventories :
          LET s == SourceById(cfg, i.source)
          IN  s # Null /\ s.worker = r.worker /\ s.kind = i.kind /\ i.adapter = SourceAdapter(s.kind, s.id)
    /\ \A x \in r.snapshots : Owner(cfg, x.id) = r.worker

\* The snapshots that are left once the inventories are applied.
Observed(r, built) ==
    LET silent == {i.source : i \in {j \in r.inventories : /\ j.auth # "authenticated"
                                                          /\ ~(j.kind \in Unprobeable /\ j.auth = "unverified")}}
        taken == {x \in r.snapshots : ~(x.id \in DerivedIds
                                          /\ (SourceOf(x.id) \in silent \/ x.id \notin built.app.registered))}
        fresh == [id \in {x.id : x \in taken} |->
                    [by |-> Binding(cfg, id), at |-> now, health |-> (CHOOSE x \in taken : x.id = id).health]]
    IN  [built EXCEPT !.obs = Overlaid(@, fresh), !.app.seen = Overlaid(@, fresh),
                      !.ok = {x.id : x \in taken} \subseteq built.app.registered]

\* Inventories are applied and the application composed again: [app, src, obs, ok].
Applied(r) ==
    LET out == {i.source : i \in {j \in r.inventories : j.auth # "authenticated"}}
        kept == Restricted(obs, {id \in DOMAIN obs : ~(id \in DerivedIds /\ SourceOf(id) \in out)})
    IN  Observed(r, IF r.inventories = {} THEN [app |-> app, src |-> src, obs |-> obs, ok |-> TRUE]
                    ELSE Rebuilt(cfg, ApplyInventory(SyncConfiguration(src, cfg.sources), r.worker, r.inventories), kept,
                                 app, Directory(app), secrets))

\* How often in a row, for each model, the inventories that could tell lacked it while it was adopted.
Adoptions(st) == UNION {{<<s, m>> : m \in DOMAIN st[s].adopted} : s \in DOMAIN st}
Absent(r, st) ==
    [x \in DOMAIN absent \cup Adoptions(st) |->
        LET i == {j \in r.inventories : j.source = x[1] /\ j.auth = "authenticated"}
        IN  IF x \notin Adoptions(src) THEN (IF x \in Adoptions(st) THEN 0 ELSE absent[x])
            ELSE IF i = {} THEN absent[x]
            ELSE IF \E j \in i : \E m \in j.models : m.slug = x[2] THEN 0 ELSE absent[x] + 1]

\* apply_combined_worker_report: the report counts as a whole and only once it is published.
Replace(r, new, after) ==
    /\ IF ~after.faulted
       THEN app' = new.app /\ src' = new.src /\ obs' = new.obs /\ absent' = Absent(r, new.src)
       ELSE UNCHANGED <<app, src, obs, absent>>
    /\ feed' = after

PublishReport(r, fault, before, new) ==
    IF ~before.faulted /\ Admissible(r) /\ fault # "rebuild" /\ new.ok
    THEN Replace(r, new, Publish(before, Document(cfg, new.app, new.src, connected, now), fault = "last"))
    ELSE feed' = before /\ UNCHANGED <<app, src, obs, absent>>

WorkerReport(r, fault) ==
    /\ r.worker \in connected /\ ReportAccepted(r.inventories)
    /\ Pay({"reports"} \cup Faulty(fault))
    /\ PublishReport(r, fault, Publish(feed, Now, fault = "first"), Applied(r))
    /\ UNCHANGED <<cfg, disk, secrets, workers, connected, keys, observer, task, probe, now, failed>>

\* A connection test, or the refresh before an execution: the provider is asked with no lock held.
ProbeBegin(id) ==
    LET r == ResourceById(cfg, id)
    IN  /\ probe = Null /\ r # Null /\ r.channel = "server_direct_http" /\ id \in Ids(Bound(cfg, secrets))
        /\ Pay({"probes"})
        /\ probe' = [id |-> id, gen |-> app.gen, by |-> Binding(cfg, id)]
        /\ UNCHANGED <<cfg, disk, secrets, workers, connected, keys, app, src, obs, feed, observer, task, now, failed, absent>>

UnchangedAnyway(p) == TRUE
Unchanged(p) == p.gen = app.gen

ProbeEnd(health, fault) ==
    LET counts == Unchanged(probe) /\ probe.id \in app.registered
        seen == [id \in {probe.id} |-> [by |-> probe.by, at |-> now, health |-> health]]
    IN  /\ probe # Null /\ Pay(Faulty(fault))
        /\ IF counts THEN obs' = Overlaid(obs, seen) /\ app' = [app EXCEPT !.seen = Overlaid(@, seen)] ELSE UNCHANGED <<obs, app>>
        /\ feed' = IF Unchanged(probe) THEN Around(feed, Now, Document(cfg, app', src, connected, now), fault) ELSE feed
        /\ probe' = Null
        /\ UNCHANGED <<cfg, disk, secrets, workers, connected, keys, src, observer, task, now, failed, absent>>

EpochAny(f, o) == TRUE

\* read_producer_events: the events after a cursor, or why there are none to give.
Epoch(f, o) == o.epoch = f.epoch

Replayed(f, o) ==
    LET missing == {e \in ToSet(f.events) : e.n > o.seq /\ e.epoch = f.epoch}
        whole == /\ Epoch(f, o) /\ o.seq >= f.start /\ o.seq <= f.seq /\ o.seq >= f.floor
                 /\ {e.n : e \in missing} = o.seq + 1 .. f.seq
    IN  IF ~whole THEN [epoch |-> f.epoch, seq |-> f.seq, doc |-> f.sem]
        ELSE IF missing = {} THEN o ELSE [epoch |-> f.epoch, seq |-> f.seq, doc |-> (CHOOSE e \in missing : e.n = f.seq).doc]

\* /observer/v1/snapshot and /observer/v1/replay: what there is to publish is published first.
Observe(fault) ==
    LET f == Publish(feed, Now, fault # "none")
    IN  /\ Active("observer") # {} /\ Pay({"reads"} \cup Faulty(fault))
        /\ feed' = f
        /\ observer' = IF f.faulted THEN observer
                       ELSE IF observer = Null THEN [epoch |-> f.epoch, seq |-> f.seq, doc |-> f.sem] ELSE Replayed(f, observer)
        /\ UNCHANGED <<cfg, disk, secrets, workers, connected, keys, app, src, obs, task, probe, now, failed, absent>>

Tick ==
    /\ Pay({"ticks"}) /\ now' = now + 1
    /\ UNCHANGED <<cfg, disk, secrets, workers, connected, keys, app, src, obs, feed, observer, task, probe, failed, absent>>

\* ControlPlane.__init__ on what the store holds, in a new epoch of the feed.
NoObs == [x \in {} |-> Null]
Started(c, f) ==
    LET built == Rebuilt(c, NoObs, NoObs, [gen |-> 0], Directory([dir |-> {}]), secrets)
    IN  /\ cfg' = c /\ app' = built.app /\ src' = built.src /\ obs' = NoObs
        /\ connected' = {} /\ task' = [a \in Admins |-> Idle] /\ probe' = Null
        /\ feed' = [f EXCEPT !.epoch = @ + 1, !.start = f.seq, !.faulted = FALSE,
                             !.sem = Document(c, built.app, built.src, {}, now)]

\* load_configuration_document: a new server has none, and is neutral.
Stored == IF disk = {} THEN Neutral ELSE FromDocument(CHOOSE d \in disk : TRUE)

Restart ==
    /\ Pay({"restarts"})
    /\ Stored # Null /\ Started(Stored, feed)
    /\ UNCHANGED <<disk, secrets, workers, keys, observer, now, failed, absent>>

Init ==
    /\ \E i \in Initials :
          /\ cfg = i.cfg /\ secrets = i.secrets /\ disk = (IF i.cfg = Neutral THEN {} ELSE {ToDocument(i.cfg)})
          /\ keys = i.keys /\ workers = i.workers /\ budget \in i.budgets
          /\ connected = {w \in Workers : i.workers[w] = "active"}
          /\ LET built == Rebuilt(i.cfg, NoObs, NoObs, [gen |-> 0],
                                  {c \in Clients : i.keys[c].state = "active" /\ i.keys[c].role = "inference"}, i.secrets)
             IN  /\ app = built.app /\ src = built.src
                 /\ feed = [epoch |-> 1, seq |-> 0, start |-> 0, floor |-> 0, events |-> <<>>, faulted |-> FALSE,
                            sem |-> Document(i.cfg, built.app, built.src, connected, 0)]
    /\ obs = NoObs /\ observer = Null /\ task = [a \in Admins |-> Idle] /\ probe = Null /\ now = 0
    /\ failed = FALSE
    /\ absent = [x \in {} |-> 0]

Admin(a) ==
    \/ \E p \in Providers, b \in BOOLEAN : AddProvider(a, p, b)
    \/ \E p \in Providers : RemoveProvider(a, p.id)
    \/ \E s \in Sources : RemoveSource(a, s.id) \/ \E p \in Policies : SetPolicy(a, s.id, p)
    \/ \E r \in Resources : RemoveResource(a, r.id) \/ \E b \in BOOLEAN : SetEnabled(a, r.id, b)
    \/ \E x \in Aliases : PutAlias(a, x) \/ DeleteAlias(a, x.alias)
    \/ \E c \in Clients, role \in {"inference", "observer"}, b \in BOOLEAN : IssueKey(a, c, role, b)
    \/ \E c \in Clients : RevokeKey(a, c)
    \/ \E f \in SaveFaults : AdminSave(a, f)
    \/ AdminRefused(a) \/ AddKey(a)
    \/ \E f \in FeedFaults \cup {"rebuild"} : AdminRebuild(a, f)

Next ==
    \/ \E a \in Admins : Admin(a)
    \/ \E r \in Resources, f \in SaveFaults : AddResource(r, f)
    \/ \E s \in Sources, f \in SaveFaults : AddSource(s, f)
    \/ \E w \in Workers : DeleteWorker(w) \/ PairWorker(w)
                           \/ \E f \in {"none", "last"} : ConnectionChanged(w, f) \/ RevokeWorker(w, f)
    \/ \E r \in Reports, f \in FeedFaults \cup {"rebuild"} : WorkerReport(r, f)
    \/ \E r \in Resources : ProbeBegin(r.id)
    \/ \E h \in {"ok", "unavailable"}, f \in FeedFaults : ProbeEnd(h, f)
    \/ \E f \in {"none", "last"} : Observe(f)
    \/ Tick \/ Restart

Spec == Init /\ [][Next]_vars

-----------------------------------------------------------------------------
(* Properties *)

\* The composed application, the feed and the tasks have their shapes, and an event's number is its place in the feed.
TypeOK ==
    /\ workers \in [Workers -> {"absent", "active", "revoked"}] /\ connected \subseteq Workers
    /\ app.dir \subseteq Clients /\ DOMAIN app.seen \subseteq app.registered
    /\ \A k \in DOMAIN feed.events : feed.events[k].n = feed.floor + k
    /\ feed.seq = feed.floor + Len(feed.events)

\* The configuration refers to workers and endpoints that exist, whatever an administrator computed it
\* from and whatever another did in the meantime (_save_config checks under the lock).
ConfiguredAreKnown ==
    ~failed => /\ ConfigurationAccepted(cfg)
               /\ \A s \in cfg.sources : s.worker \in Known
               /\ \A r \in cfg.resources : r.worker # Null => r.worker \in Known

\* Every observation kept is of what its resource is bound to now: a report or probe of an earlier worker,
\* endpoint or source of the same name does not count for the present one.
ObservationsAreCurrent == ~failed => \A id \in DOMAIN obs : obs[id].by = Binding(cfg, id)

\* A client key whose revocation was acknowledged is not in the directory that lets inference clients in.
RevokedIsRefused ==
    ~failed => \A c \in Clients : keys[c].state = "revoked" /\ (\A a \in Admins : task[a].client # c) => c \notin app.dir

\* An adopted model is given up after RetireAfter authenticated inventories in a row without it, not before and not later, whatever
\* reports, policies and restarts lie between them.
RetirementIsEarned ==
    \A s \in DOMAIN src : /\ \A m \in DOMAIN src[s].adopted : absent[<<s, m>>] < RetireAfter
                          /\ \A m \in ToSet(src[s].retired) \ DOMAIN src[s].adopted : absent[<<s, m>>] >= RetireAfter

\* Only models the administrator allows now are executable, whatever was adopted before the policy changed.
AllowedBy(c, ids) ==
    \A id \in ids \cap DerivedIds : SourceById(c, SourceOf(id)) # Null /\ ModelOf(id) \in SourceById(c, SourceOf(id)).models
DerivedIsAllowed == ~failed => AllowedBy(cfg, app.registered)

\* A restart finds the configuration the administrator was told of, unless a save failed.
RestartKeeps == ~failed => Stored = cfg

\* Whatever changes the state document is on the feed when the step ends, or the feed is known to be broken.
EveryChangeIsPublished ==
    [][(Now' # Now /\ now' = now /\ feed'.epoch = feed.epoch) => feed'.faulted \/ feed'.sem = Now']_vars

\* An observer that is answered holds the present document, however many events, restarts and discarded
\* events lie between its cursor and now.
ObserverIsCurrent == [][budget'["reads"] # budget["reads"] => feed'.faulted \/ observer'.doc = Now']_vars

\* The configuration, what is derived and observed from it, and what is stored belong together, with two
\* administrators, workers and probes between every two steps.
ConfigurationIsCoherent ==
    TypeOK /\ ConfiguredAreKnown /\ ObservationsAreCurrent /\ DerivedIsAllowed /\ RetirementIsEarned /\ RestartKeeps

\* The feed tells an observer everything.
FeedIsComplete == EveryChangeIsPublished /\ ObserverIsCurrent

-----------------------------------------------------------------------------
(* The inductive invariant *)

AppShape ==
    app \in [registered : {app.registered}, seen : {app.seen}, dir : SUBSET Clients, grants : {app.grants}, serves : {app.serves}, gen : Nat]

\* The events of the feed are numbered without a gap up to its last.
IsFeed(f) ==
    /\ f \in [epoch : Nat, seq : Nat, start : Nat, floor : Nat, events : Seq(ToSet(f.events)), sem : {f.sem}, faulted : BOOLEAN]
    /\ f.seq = f.floor + Len(f.events) /\ \A k \in DOMAIN f.events : f.events[k].n = f.floor + k

\* What an administrator is about to save or to do with a key.
Tasks == [op : {"idle", "save", "grant", "key", "compose"}, new : Configurations \cup {Null}, client : Clients \cup {Null},
          role : Roles \cup {Null}]
TaskFacts ==
    /\ task \in [Admins -> Tasks] /\ keys \in [Clients -> KeyRecords]
    /\ \A a \in Admins :
          /\ task[a].op \in {"save", "grant"} => task[a].new \in Configurations /\ PartsAccepted(task[a].new)
          /\ task[a].op \in {"grant", "key", "compose"} => task[a].client \in Clients
          /\ task[a].op \in {"grant", "key"} => task[a].role \in Roles

\* A revoked client is still let in only while the composition that follows its revocation is due.
RevocationIsDue ==
    ~failed => \A c \in Clients : keys[c].state = "revoked" /\ c \in app.dir => \E a \in Admins : task[a].op = "compose" /\ task[a].client = c

\* The configuration in memory, and the one that is stored.
ConfigurationFacts ==
    /\ cfg \in Configurations /\ PartsAccepted(cfg)
    /\ Stored # Null => Stored \in Configurations /\ PartsAccepted(Stored)

\* What is known of each source.
SourceShapes(st) ==
    \A s \in DOMAIN st :
        /\ st[s] \in [config : {st[s].config}, inventory : {st[s].inventory}, adopted : {st[s].adopted}, misses : {st[s].misses},
                     retired : Seq(Slugs), decisions : {st[s].decisions}]
        /\ IsFiniteSet(DOMAIN st[s].adopted) /\ DOMAIN st[s].adopted \subseteq Slugs
        /\ DOMAIN st[s].misses \subseteq DOMAIN st[s].adopted
Synchronised(st, c) == DOMAIN st = Ids(c.sources) /\ \A s \in DOMAIN st : st[s].config = SourceById(c, s)

\* The misses of a model that is adopted are the inventories that lacked it, and of one that was given up there were enough.
Missing(state, m) == IF m \in DOMAIN state.misses THEN state.misses[m] ELSE 0
MissesAreCounted(st, ab) ==
    /\ \A x \in DOMAIN ab : ab[x] \in Nat
    /\ \A s \in DOMAIN st :
          /\ \A m \in DOMAIN st[s].adopted : <<s, m>> \in DOMAIN ab /\ ab[<<s, m>>] = Missing(st[s], m) /\ ab[<<s, m>>] < RetireAfter
          /\ \A m \in ToSet(st[s].retired) \ DOMAIN st[s].adopted : <<s, m>> \in DOMAIN ab /\ ab[<<s, m>>] >= RetireAfter

\* What is observed is of something configured, and so is what a probe under way that will count is asked.
Named(c, id) == IF id \in DerivedIds THEN SourceById(c, SourceOf(id)) # Null ELSE ResourceById(c, id) # Null
ObservationFacts ==
    /\ ~failed => \A id \in DOMAIN obs : Named(cfg, id)
    /\ probe # Null => /\ probe.gen \in Nat /\ probe.gen <= app.gen
                       /\ ~failed /\ probe.gen = app.gen => probe.by = Binding(cfg, probe.id) /\ Named(cfg, probe.id)

ControlIInv ==
    /\ TypeOK /\ AppShape /\ IsFeed(feed) /\ TaskFacts /\ RevocationIsDue
    /\ ConfigurationFacts /\ ConfiguredAreKnown /\ RestartKeeps
    /\ SourceShapes(src) /\ Synchronised(src, cfg) /\ MissesAreCounted(src, absent)
    /\ ObservationFacts /\ ObservationsAreCurrent /\ DerivedIsAllowed

\* The newest event of this epoch tells the present document, and so does a cursor that is up to it.
Told(f, o) ==
    /\ \A k \in DOMAIN f.events :
          /\ f.events[k].epoch \in Nat /\ f.events[k].epoch <= f.epoch
          /\ f.events[k].epoch = f.epoch /\ f.events[k].n = f.seq => f.events[k].doc = f.sem
    /\ o # Null => /\ o.epoch \in Nat /\ o.seq \in Nat /\ o.epoch <= f.epoch
                   /\ o.epoch = f.epoch => o.seq <= f.seq /\ (o.seq = f.seq => o.doc = f.sem)
FeedIInv == Told(feed, observer) /\ budget \in Budgets

\* A resource that is switched off and on is the resource the administrator configured.
SwitchKeepsConfiguration == \A r \in cfg.resources : \E x \in Resources : x.id = r.id /\ x.adapter = r.adapter
=============================================================================
