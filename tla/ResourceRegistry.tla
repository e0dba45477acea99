-------------------------- MODULE ResourceRegistry --------------------------
(***************************************************************************)
(* resource_state.py: the registry of execution resources, the last         *)
(* observation of each and how fresh it is; execution_assurance.py: the     *)
(* evidence that a resource cannot be billed.                               *)
(*                                                                         *)
(* A registration is [identity, ttl, poll, caps, cost]; an observation is   *)
(* [identity, at, health, facts, promotions].  Instants are numbers, a cost *)
(* is its highest price.  The capability record keeps the two token limits, *)
(* the tool flag and whether the channel enforces an output limit.          *)
(***************************************************************************)
EXTENDS Selection

\* The fields that make an observation one of the registered resource; the
\* quota pools are the administrator's and not part of it.
IdentityObservationKey(identity) ==
    <<identity.id, identity.channel, identity.provider, identity.model, identity.entitlement, identity.variant>>

IdentityAccepted(identity) ==
    /\ identity.channel \in {"server_direct_http", "worker_bridged", "local_app_adapter"}
    /\ identity.entitlement \in {"subscription_included", "promotional", "payg_metered",
                                 "prepaid_credits", "local_ungated", "unknown"}
    /\ identity.provider \in Providers

CostAccepted(cost) == cost = Null \/ cost >= 0

\* Context evidence has an interval and comes with the limit it evidences.
CapabilitiesAccepted(caps) ==
    /\ \A limit \in {caps.ctx, caps.out} : limit # Null => limit >= 1
    /\ caps.evidence # Null => caps.evidence.from < caps.evidence.until /\ caps.ctx # Null

PromotionAccepted(promotion) ==
    promotion.from # Null /\ promotion.until # Null => promotion.from <= promotion.until

RegistrationAccepted(registration) ==
    /\ IdentityAccepted(registration.identity)
    /\ registration.ttl >= 1
    /\ registration.poll # Null => registration.poll >= 1
    /\ CapabilitiesAccepted(registration.caps)
    /\ CostAccepted(registration.cost)

QuotaFactAccepted(fact) ==
    /\ fact.class \in {"direct_observation", "provider_telemetry", "estimate", "local_limit", "unknown"}
    /\ fact.slot \in Slots

HealthAccepted(health) == health \in {"ok", "unavailable", "auth_required", "unsupported", "schema_changed", "unknown"}

ObservationAccepted(o) ==
    /\ IdentityAccepted(o.identity)
    /\ HealthAccepted(o.health)
    /\ \A fact \in o.facts : QuotaFactAccepted(fact)
    /\ \A promotion \in o.promotions : PromotionAccepted(promotion)

WindowResetInstants(o) == {fact.reset : fact \in o.facts} \ {Null}

ResetCrossed(resets, now) == \E reset \in resets : now >= reset

StaleLater(o, ttl, now) == now - o.at > ttl + 1 \/ ResetCrossed(WindowResetInstants(o), now)

\* Too old, or a quota window it reports has been reset since.
Stale(o, ttl, now) == now - o.at > ttl \/ ResetCrossed(WindowResetInstants(o), now)

\* The freshness of an observation that is not dated in the future.
ClassifyFreshness(o, ttl, now) ==
    IF o = Null THEN "never_observed"
    ELSE IF Stale(o, ttl, now) THEN "stale" ELSE "fresh"

EntryRefreshDue(registration, o, now) ==
    /\ registration.poll # Null
    /\ o = Null \/ now - o.at >= registration.poll \/ ResetCrossed(WindowResetInstants(o), now)

-----------------------------------------------------------------------------
(* The registry: [regs, obs, rev]; a resource has at most one registration. *)

EmptyRegistry(resources) ==
    [regs |-> [r \in resources |-> Null], obs |-> [r \in resources |-> Null], rev |-> 0]

IsRegistered(reg, r) == reg.regs[r] # Null

Register(reg, registration) ==
    LET r == registration.identity.id
    IN  IF IsRegistered(reg, r) \/ ~RegistrationAccepted(registration) THEN Raised
        ELSE [reg EXCEPT !.regs[r] = registration, !.rev = @ + 1]

ReportedPools(reg, o) == o

\* The registered pools replace the reported ones.
Canonical(reg, o) ==
    IF IsRegistered(reg, o.identity.id) /\ o.identity.pools # reg.regs[o.identity.id].identity.pools
    THEN [o EXCEPT !.identity = reg.regs[o.identity.id].identity]
    ELSE o

FutureAllowed(o, now) == TRUE

NotInTheFuture(o, now) == o.at <= now

CheckedObservation(reg, o, now) ==
    /\ IsRegistered(reg, o.identity.id)
    /\ IdentityObservationKey(o.identity) = IdentityObservationKey(reg.regs[o.identity.id].identity)
    /\ NotInTheFuture(o, now)

ApplySnapshot(reg, o, now) ==
    LET c == Canonical(reg, o)
    IN  IF ~CheckedObservation(reg, c, now) THEN Raised
        ELSE [reg EXCEPT !.obs[c.identity.id] = c, !.rev = @ + 1]

\* A worker reports what it bridges, no later than it reports.
WorkerReportAccepted(report) ==
    /\ \A o, p \in report.resources : o.identity.id = p.identity.id => o = p
    /\ \A o \in report.resources :
          /\ o.identity.channel \in {"worker_bridged", "local_app_adapter"}
          /\ o.at <= report.at

Applied(reg, observations) ==
    [reg EXCEPT !.obs = [r \in DOMAIN @ |->
                            IF \E o \in observations : o.identity.id = r
                            THEN CHOOSE o \in observations : o.identity.id = r ELSE @[r]],
                !.rev = @ + 1]

\* Every resource of the report is checked before the first one is stored.
ApplyWorkerReport(reg, report, now) ==
    LET canonical == {Canonical(reg, o) : o \in report.resources}
    IN  IF \E o \in canonical : ~CheckedObservation(reg, o, now) THEN Raised
        ELSE Applied(reg, canonical)

RefreshDue(reg, now) ==
    {r \in DOMAIN reg.regs : IsRegistered(reg, r) /\ EntryRefreshDue(reg.regs[r], reg.obs[r], now)}

RegistryEntry(reg, r, now) ==
    [identity |-> reg.regs[r].identity, ttl |-> reg.regs[r].ttl, caps |-> reg.regs[r].caps,
     cost |-> reg.regs[r].cost, obs |-> reg.obs[r],
     freshness |-> ClassifyFreshness(reg.obs[r], reg.regs[r].ttl, now),
     due |-> EntryRefreshDue(reg.regs[r], reg.obs[r], now)]

\* A pool groups the resources whose registration names it.
QuotaPools(entries) ==
    LET names == UNION {e.identity.pools : e \in entries}
    IN  [pool \in names |-> {e.identity.id : e \in {f \in entries : pool \in f.identity.pools}}]

\* Reading the registry; an observation dated after the read makes it fail.
RegistrySnapshot(reg, now) ==
    LET there == {r \in DOMAIN reg.regs : IsRegistered(reg, r)}
        entries == {RegistryEntry(reg, r, now) : r \in there}
    IN  IF \E r \in there : reg.obs[r] # Null /\ ~(reg.obs[r].at <= now) THEN Raised
        ELSE [rev |-> reg.rev, at |-> now, entries |-> entries, pools |-> QuotaPools(entries)]

EntryStateAccepted(e) ==
    /\ e.obs # Null => IdentityObservationKey(e.obs.identity) = IdentityObservationKey(e.identity)
    /\ e.obs = Null <=> e.freshness = "never_observed"

RegistrySnapshotAccepted(s) ==
    /\ \A e \in s.entries : EntryStateAccepted(e)
    /\ \A e, f \in s.entries : e.identity.id = f.identity.id => e = f
    /\ \A pool \in DOMAIN s.pools : s.pools[pool] # {}
    /\ s.pools = QuotaPools(s.entries)

-----------------------------------------------------------------------------
(* resource_state.py: whether a route can give the output asked for.        *)

\* The limits that count are the channel's and, once the variant is known,
\* the model's; a channel that cannot enforce a lower limit is refused.
RouteOutputCode(caps, hardOut, requested, resolved, enforce) ==
    LET known == (IF resolved THEN {hardOut, caps.out} ELSE {caps.out}) \ {Null}
    IN  IF requested = Null THEN Null
        ELSE IF known = {} THEN "output_limit_unknown"
        ELSE IF Min(known) < requested THEN "output_limit_insufficient"
        ELSE IF enforce /\ caps.control = "no" /\ (~resolved \/ hardOut = Null \/ requested < hardOut)
        THEN "output_limit_unenforceable"
        ELSE Null

-----------------------------------------------------------------------------
(* execution_assurance.py: an assurance is [scope, evidence], a scope names *)
(* the resource, the adapter instance and the revision of its control.      *)

NonPaidModes == {"payg", "purchased_credit", "paid_overflow", "unaccounted_paid_helper"}

\* The first reason why the evidence does not show that nothing is billed.
RefusalCodes(assurance, identity, now, maxAge) ==
    LET proof == assurance.evidence
    IN  IF assurance.scope.resource # identity THEN {"no_payg_source_mismatch"}
        ELSE IF assurance.scope.revision = Null \/ proof = Null THEN {"no_payg_evidence_unavailable"}
        ELSE IF proof.scope # assurance.scope THEN {"no_payg_binding_changed"}
        ELSE IF proof.class # "verified_control" THEN {"no_payg_path_unverified"}
        ELSE IF ~(proof.modes \subseteq NonPaidModes) THEN {"no_payg_evidence_invalid"}
        ELSE IF proof.modes # NonPaidModes THEN {"no_payg_path_incomplete"}
        ELSE IF proof.at > now \/ proof.until <= proof.at THEN {"no_payg_evidence_invalid"}
        ELSE IF now >= proof.until THEN {"no_payg_evidence_expired"}
        ELSE IF now - proof.at > maxAge THEN {"no_payg_evidence_stale"}
        ELSE {}

\* The revision of the adapter that is there now, and the evidence it gives;
\* an adapter that produces neither, or fails to, gives none.
ReceiveExecutionAssurance(identity, instance, revision, evidence) ==
    [scope |-> [resource |-> identity, instance |-> instance,
                revision |-> IF evidence = Null THEN Null ELSE revision],
     evidence |-> IF revision = Null THEN Null ELSE evidence]

=============================================================================
