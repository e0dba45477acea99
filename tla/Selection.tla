----------------------------- MODULE Selection -----------------------------
(***************************************************************************)
(* The pure core that ranks models by what is left of their quota:         *)
(* scarcity.py (assessment of the quota windows), policy.py (unknown       *)
(* capacity, reservations, weekly windows, replenishment) and selector.py  *)
(* (requirements, candidate evaluation, ranking, decision).                *)
(*                                                                         *)
(* A snapshot of a provider is [status, wins], wins giving each window slot *)
(* a remaining percentage, Unknown or NoWindow.  Identities are numbered   *)
(* in the canonical order, so that "<" is the order of their keys.  The     *)
(* data is reduced to what decides: one rating stands for the six          *)
(* capability dimensions, the tool flag for the three support flags, the   *)
(* required provider for the identity demands.                             *)
(***************************************************************************)
EXTENDS Integers, FiniteSets, FiniteSetsExt, Sequences

CONSTANTS
    Null,          \* an absent optional value
    Unknown,       \* a window whose percentage the provider did not give
    NoWindow,      \* the slot is not in the snapshot
    Raised,        \* a SelectionContractValidationError
    Providers,
    Slots,         \* window slots, numbered in the order of their canonical key
    SlotOf,        \* [Slots -> [provider, scope, resource, kind]]
    Scopes,        \* [provider, scope]: what a model's capacity may be bound to
    Efforts,       \* sequence of reasoning efforts, least first
    WeekLen,       \* days of a week
    DayLen         \* instants of a day

ASSUME WeekAssumption == WeekLen \in Nat \ {0} /\ DayLen \in Nat \ {0}
ASSUME SlotAssumption == Slots \subseteq Nat /\ IsFiniteSet(Slots) /\ \A s \in Slots : SlotOf[s].provider \in Providers

-----------------------------------------------------------------------------
(* scarcity.py *)

Strategic == "strategic"
Tactical == "tactical"

\* The role of a window: weekly ones are strategic, five-hour ones tactical,
\* an unclassified one is tactical only if it measures time.
WindowRole(resource, kind) ==
    IF kind = "weekly" THEN Strategic
    ELSE IF kind = "five_hour" \/ resource = "time" THEN Tactical
    ELSE Strategic

Ratio == 5

\* Five parts strategic, one part tactical, rounded down; a missing role
\* takes the value of the other one.
Blend(tactical, strategic) ==
    LET a == IF tactical = Null THEN strategic ELSE tactical
        b == IF strategic = Null THEN tactical ELSE strategic
    IN  (a + Ratio * b) \div (Ratio + 1)

Penalty(remaining) == (100 - remaining) * (100 - remaining)

Label(remaining) ==
    IF remaining >= 80 THEN "plentiful"
    ELSE IF remaining >= 50 THEN "normal"
    ELSE IF remaining >= 20 THEN "scarce"
    ELSE IF remaining >= 1 THEN "critical"
    ELSE "unavailable"

\* The slots of one bound scope.
SlotsOfScope(b) == {s \in Slots : SlotOf[s].provider = b.provider /\ SlotOf[s].scope = b.scope}

\* Why one binding tells nothing, or tells too little.
BindingReasons(b, snap) ==
    IF snap[b.provider] = Null THEN {"missing_provider_snapshot"}
    ELSE IF snap[b.provider].status # "ok" THEN {"provider_snapshot_not_ok"}
    ELSE LET there == {s \in SlotsOfScope(b) : snap[b.provider].wins[s] # NoWindow}
         IN  (IF \E s \in there : snap[b.provider].wins[s] = Unknown
                 THEN {"window_percentage_unknown"} ELSE {})
             \cup (IF there = {} THEN {"missing_scope_window"} ELSE {})

\* The windows of a binding that carry a percentage.
KnownSlots(b, snap) ==
    IF snap[b.provider] = Null THEN {}
    ELSE IF snap[b.provider].status # "ok" THEN {}
    ELSE {s \in SlotsOfScope(b) : snap[b.provider].wins[s] \notin {NoWindow, Unknown}}

Remaining(s, snap) == snap[SlotOf[s].provider].wins[s]

\* The most used window; among equals the first in canonical order.
PickGoverning(pool, snap) ==
    LET worst == {s \in pool : \A t \in pool :
                     Penalty(Remaining(s, snap)) >= Penalty(Remaining(t, snap))}
    IN  Min(worst)

OfRole(pool, role) == {s \in pool : WindowRole(SlotOf[s].resource, SlotOf[s].kind) = role}

UnknownAssessment(reasons, scopes) ==
    [state |-> "unknown", label |-> "unknown", penalty |-> Null, effective |-> Null,
     scopes |-> scopes, governing |-> Null, strategic |-> Null, tactical |-> Null,
     codes |-> reasons]

Evidence(s, snap) == [slot |-> s, remaining |-> Remaining(s, snap)]

ExhaustedStrategic(known, snap) == {s \in OfRole(known, Strategic) : Remaining(s, snap) = 0}

Exhausted(known, snap) == {s \in known : Remaining(s, snap) = 0}

\* An exhausted window decides alone; otherwise anything missing makes the
\* assessment unknown; otherwise the two roles are blended.
AssessScarcity(entry, snap) ==
    IF entry.bindings = Null THEN UnknownAssessment({"capacity_bindings_unknown"}, {})
    ELSE
    LET reasons == UNION {BindingReasons(b, snap) : b \in entry.bindings}
        known == UNION {KnownSlots(b, snap) : b \in entry.bindings}
        exhausted == Exhausted(known, snap)
        ofS == OfRole(known, Strategic)
        ofT == OfRole(known, Tactical)
        strategic == IF ofS = {} THEN Null ELSE Evidence(PickGoverning(ofS, snap), snap)
        tactical == IF ofT = {} THEN Null ELSE Evidence(PickGoverning(ofT, snap), snap)
        effective == Blend(IF tactical = Null THEN Null ELSE tactical.remaining,
                           IF strategic = Null THEN Null ELSE strategic.remaining)
    IN  IF exhausted # {}
        THEN [state |-> "unavailable", label |-> "unavailable", penalty |-> 10000,
              effective |-> 0, scopes |-> entry.bindings,
              governing |-> Evidence(PickGoverning(exhausted, snap), snap),
              strategic |-> Null, tactical |-> Null,
              codes |-> reasons \cup {"capacity_exhausted"}]
        ELSE IF reasons # {} THEN UnknownAssessment(reasons, entry.bindings)
        ELSE IF known = {} THEN Raised
        ELSE [state |-> "known", label |-> Label(effective), penalty |-> Penalty(effective),
              effective |-> effective, scopes |-> entry.bindings,
              governing |-> IF strategic # Null THEN strategic ELSE tactical,
              strategic |-> strategic, tactical |-> tactical, codes |-> {}]

\* What the constructor of an assessment accepts.
AssessmentAccepted(a) ==
    /\ a # Raised
    /\ \/ /\ a.state = "unknown"
          /\ a.penalty = Null /\ a.effective = Null /\ a.governing = Null
          /\ a.strategic = Null /\ a.tactical = Null /\ a.label = "unknown"
          /\ a.codes # {} /\ "capacity_exhausted" \notin a.codes
          /\ IF "capacity_bindings_unknown" \in a.codes
             THEN a.codes = {"capacity_bindings_unknown"} /\ a.scopes = {}
             ELSE a.scopes # {}
       \/ /\ a.state \in {"known", "unavailable"}
          /\ a.effective \in 0..100 /\ a.penalty = Penalty(a.effective)
          /\ a.label = Label(a.effective) /\ a.governing # Null
          /\ a.strategic # Null => WindowRole(SlotOf[a.strategic.slot].resource, SlotOf[a.strategic.slot].kind) = Strategic
          /\ a.tactical # Null => WindowRole(SlotOf[a.tactical.slot].resource, SlotOf[a.tactical.slot].kind) = Tactical
          /\ a.scopes # {}
          /\ \E b \in a.scopes : a.governing.slot \in SlotsOfScope(b)
          /\ \/ /\ a.state = "unavailable" /\ a.strategic = Null /\ a.tactical = Null
                /\ a.governing.remaining = a.effective
                /\ a.effective = 0 /\ "capacity_exhausted" \in a.codes
             \/ /\ a.state = "known" /\ (a.strategic # Null \/ a.tactical # Null)
                /\ a.governing = IF a.strategic # Null THEN a.strategic ELSE a.tactical
                /\ a.effective = Blend(IF a.tactical = Null THEN Null ELSE a.tactical.remaining,
                                       IF a.strategic = Null THEN Null ELSE a.strategic.remaining)
                /\ a.strategic = Null => a.governing.remaining = a.effective
                /\ a.effective # 0 /\ a.codes = {}

-----------------------------------------------------------------------------
(* policy.py *)

\* What an administrator's mode makes of an assessment.
UnknownCapacity(mode, a) ==
    CASE a.state = "known" -> [mode |-> mode, eligible |-> TRUE, degraded |-> FALSE, codes |-> {}]
      [] a.state = "unavailable" -> [mode |-> mode, eligible |-> FALSE, degraded |-> FALSE, codes |-> {"capacity_exhausted"}]
      [] a.state = "unknown" /\ mode = "degraded" -> [mode |-> mode, eligible |-> TRUE, degraded |-> TRUE, codes |-> {"unknown_capacity_degraded"}]
      [] OTHER -> [mode |-> mode, eligible |-> FALSE, degraded |-> FALSE, codes |-> {"unknown_capacity_blocked"}]

UnknownCapacityAccepted(d) ==
    IF d.degraded THEN d.mode = "degraded" /\ d.eligible /\ d.codes = {"unknown_capacity_degraded"}
    ELSE IF d.eligible THEN d.codes = {}
    ELSE d.codes \cap {"unknown_capacity_blocked", "capacity_exhausted"} # {}

ReservationUnknown(cause) ==
    [state |-> "unknown", triggered |-> Null, blocked |-> Null, remaining |-> Null, codes |-> {cause}]

ReservesNextLevel(rule, triggered, level) == triggered /\ level + 1 < rule.level

Reserves(rule, triggered, level) == triggered /\ level < rule.level

\* A reservation keeps what is left of a window below a threshold for the
\* tasks of a minimum level.  rule: [scope, resource, kind, below, level].
EvaluateReservation(rule, snap, level) ==
    IF snap[rule.scope.provider] = Null THEN ReservationUnknown("reservation_scope_snapshot_missing")
    ELSE IF snap[rule.scope.provider].status # "ok" THEN ReservationUnknown("reservation_scope_snapshot_not_ok")
    ELSE
    LET slots == {s \in SlotsOfScope(rule.scope) :
                    /\ SlotOf[s].resource = rule.resource /\ SlotOf[s].kind = rule.kind
                    /\ Remaining(s, snap) # NoWindow}
        least == Min({Remaining(s, snap) : s \in slots})
        triggered == least < rule.below
        blocked == Reserves(rule, triggered, level)
    IN  IF \E s \in slots : Remaining(s, snap) = Unknown THEN ReservationUnknown("reservation_percentage_unknown")
        ELSE IF slots = {} THEN ReservationUnknown("reservation_window_missing")
        ELSE [state |-> "known", triggered |-> triggered, blocked |-> blocked, remaining |-> least,
              codes |-> IF ~triggered THEN {}
                        ELSE {"reservation_triggered", IF blocked THEN "reservation_blocked"
                                                       ELSE "reservation_permitted_by_task_level"}]

ReservationAccepted(d) ==
    IF d.state = "unknown"
    THEN /\ d.triggered = Null /\ d.blocked = Null /\ d.remaining = Null
         /\ d.codes # {}
         /\ d.codes \subseteq {"reservation_scope_snapshot_missing", "reservation_scope_snapshot_not_ok",
                               "reservation_window_missing", "reservation_percentage_unknown"}
    ELSE /\ d.remaining \in 0..100
         /\ d.codes \subseteq {"reservation_triggered", "reservation_blocked", "reservation_permitted_by_task_level"}
         /\ IF ~d.triggered THEN ~d.blocked /\ d.codes = {}
            ELSE /\ "reservation_triggered" \in d.codes
                 /\ d.blocked <=> "reservation_blocked" \in d.codes
                 /\ ~d.blocked => "reservation_permitted_by_task_level" \in d.codes

\* A rule names a provider and perhaps a model and a variant of it.
Matches(target, entry) ==
    /\ entry.provider = target.provider
    /\ target.model # Null => entry.model = target.model
    /\ target.variant # Null => entry.variant = target.variant

\* astimezone: local time of a rule's zone.
LocalTime(rule, now) == now + rule.offset
DateOf(local) == local \div DayLen
MinuteOf(local) == local % DayLen
Weekday(date) == date % WeekLen

WeeklyWindowToday(rule, now) ==
    LET local == LocalTime(rule, now)
        day == Weekday(DateOf(local))
    IN  IF rule.start < rule.end
        THEN day \in rule.days /\ rule.start <= MinuteOf(local) /\ MinuteOf(local) < rule.end
        ELSE day \in rule.days /\ (MinuteOf(local) >= rule.start \/ MinuteOf(local) < rule.end)

\* Half-open local interval; one that crosses midnight belongs to the day it
\* starts on.
WeeklyWindowContains(rule, now) ==
    LET local == LocalTime(rule, now)
        minute == MinuteOf(local)
        day == Weekday(DateOf(local))
        previous == (day + WeekLen - 1) % WeekLen
    IN  IF rule.start < rule.end
        THEN day \in rule.days /\ rule.start <= minute /\ minute < rule.end
        ELSE \/ day \in rule.days /\ minute >= rule.start
             \/ previous \in rule.days /\ minute < rule.end

\* Inclusive bounds on the local date.
DateBoundsContain(rule, now) ==
    LET date == DateOf(LocalTime(rule, now))
    IN  /\ rule.from # Null => date >= rule.from
        /\ rule.until # Null => date <= rule.until

DateBoundsExpired(rule, now) ==
    LET date == DateOf(LocalTime(rule, now))
    IN  \/ rule.from # Null /\ date < rule.from
        \/ rule.until # Null /\ date > rule.until

RuleAccepted(rule) ==
    /\ rule.start # rule.end
    /\ rule.from # Null /\ rule.until # Null => rule.from <= rule.until

HappyHourRuleAccepted(rule) == RuleAccepted(rule)

ActiveAt(rule, now) == WeeklyWindowContains(rule, now) /\ DateBoundsContain(rule, now)

ExpiredAt(rule, now) == WeeklyWindowContains(rule, now) /\ DateBoundsExpired(rule, now)

\* The first rule, in the order of the rule ids, that matches and is active.
FirstActive(rules, entry, now) ==
    LET hits == {i \in DOMAIN rules : Matches(rules[i].target, entry) /\ ActiveAt(rules[i], now)}
    IN  IF hits = {} THEN Null ELSE Min(hits)

FirstHappyHour(rules, entry, now) == FirstActive(rules, entry, now)

ReplenishmentUnnamed(mode, count) ==
    [mode |-> mode, visible |-> mode # "ignore" /\ count # Null, count |-> IF mode = "ignore" THEN Null ELSE count,
     recoverable |-> FALSE, human |-> FALSE, codes |-> {}]

\* Replenishment: what the mode makes of a provider's unused resets.
Replenishment(mode, count) ==
    IF mode = "ignore" \/ count = Null
    THEN [mode |-> mode, visible |-> FALSE, count |-> Null, recoverable |-> FALSE, human |-> FALSE, codes |-> {}]
    ELSE IF mode = "recoverable" /\ count > 0
    THEN [mode |-> mode, visible |-> TRUE, count |-> count, recoverable |-> TRUE, human |-> TRUE,
          codes |-> {"replenishment_available", "replenishment_recoverable"}]
    ELSE [mode |-> mode, visible |-> TRUE, count |-> count, recoverable |-> FALSE, human |-> FALSE,
          codes |-> IF count > 0 /\ mode = "advisory" THEN {"replenishment_available"} ELSE {}]

ReplenishmentAccepted(d) ==
    IF ~d.visible THEN d.count = Null /\ ~d.recoverable /\ ~d.human /\ d.codes = {}
    ELSE /\ d.recoverable = d.human
         /\ d.recoverable => d.mode = "recoverable" /\ d.count > 0
         /\ d.codes = IF d.recoverable THEN {"replenishment_available", "replenishment_recoverable"}
                      ELSE IF d.count > 0 THEN {"replenishment_available"} ELSE {}

-----------------------------------------------------------------------------
(* selector.py *)

TightenMinimumReplaces(base, explicit) == IF explicit = Null THEN base ELSE explicit

TightenMinimum(base, explicit) ==
    IF explicit = Null THEN base
    ELSE IF base = Null THEN explicit
    ELSE IF explicit >= base THEN explicit ELSE Raised

TightenIdentity(base, explicit) ==
    IF explicit = Null THEN base
    ELSE IF base = Null \/ explicit = base THEN explicit ELSE Raised

\* Only ever stricter: a value that would loosen the base is refused.
Tighten(base, explicit) ==
    LET t == [level |-> explicit.level,
              rating |-> TightenMinimum(base.rating, explicit.rating),
              ctx |-> TightenMinimum(base.ctx, explicit.ctx),
              out |-> TightenMinimum(base.out, explicit.out),
              tools |-> base.tools \/ explicit.tools,
              provider |-> TightenIdentity(base.provider, explicit.provider)]
    IN  IF explicit.level < base.level \/ Raised \in {t.rating, t.ctx, t.out, t.provider}
        THEN Raised ELSE t

\* Unknown never satisfies a demand.
HardFailures(req, entry) ==
    (IF req.ctx = Null THEN {} ELSE IF entry.ctx = Null THEN {"unknown"}
     ELSE IF entry.ctx < req.ctx THEN {"insufficient"} ELSE {})
    \cup (IF req.out = Null THEN {} ELSE IF entry.out = Null THEN {"unknown"}
          ELSE IF entry.out < req.out THEN {"insufficient"} ELSE {})
    \cup (IF ~req.tools \/ entry.tools = "yes" THEN {} ELSE IF entry.tools = Null THEN {"unknown"} ELSE {"unsupported"})
    \cup (IF req.provider # Null /\ req.provider # entry.provider THEN {"mismatch"} ELSE {})

\* A rating is what a human says of the model, or else what the evidence says.
EffectiveRating(assessment) ==
    IF assessment.override # Null THEN assessment.override ELSE assessment.rating

CapabilityFailures(req, entry) ==
    LET rating == EffectiveRating(entry.capability)
    IN  IF req.rating = Null THEN {}
        ELSE IF rating = Null THEN {"unknown"}
        ELSE IF rating < req.rating THEN {"below_minimum"} ELSE {}

EligibilityCode(state) ==
    CASE state = "allowance_unavailable" -> "execution_allowance_unavailable"
      [] state = "policy_blocked" -> "execution_policy_blocked"
      [] OTHER -> "execution_unverified"

Excluded(entry, stage, codes) ==
    [id |-> entry.id, eligible |-> FALSE, stage |-> stage, codes |-> codes, degraded |-> FALSE,
     happy |-> FALSE, short |-> FALSE, scarcity |-> Null, unknown |-> Null, reservations |-> {},
     replenishment |-> Null]

ExcludedOnCapacity(entry, stage, codes, a, u, rs, rep) ==
    [Excluded(entry, stage, codes) EXCEPT !.scarcity = a, !.unknown = u, !.reservations = rs, !.replenishment = rep]

\* The gates of one candidate, in order; inp holds the inputs of a selection:
\* req, pol, snap, elig, resets, now, blocked.
CandidateVerdict(entry, inp, a) ==
    LET u == UnknownCapacity(inp.pol.mode, a)
        rep == Replenishment(inp.pol.replenishment, inp.resets[entry.provider])
        applicable == {r \in inp.pol.reservations : entry.bindings # Null /\ r.scope \in entry.bindings}
        rs == {EvaluateReservation(r, inp.snap, inp.req.level) : r \in applicable}
    IN  IF inp.elig[entry.provider] \notin {Null, "eligible"}
        THEN Excluded(entry, "execution", {EligibilityCode(inp.elig[entry.provider])})
        ELSE IF entry.id \in inp.blocked \/ FirstActive(inp.pol.blackouts, entry, inp.now) # Null
        THEN Excluded(entry, "policy_blackout", {"policy_blocked"})
        ELSE IF HardFailures(inp.req, entry) # {} THEN Excluded(entry, "hard_constraint", {"hard_constraint_failed"})
        ELSE IF CapabilityFailures(inp.req, entry) # {} THEN Excluded(entry, "capability", {"capability_failed"})
        ELSE IF ~u.eligible
        THEN ExcludedOnCapacity(entry, "capacity",
                 {IF a.state = "unavailable" THEN "capacity_unavailable" ELSE "capacity_unknown_blocked"}
                 \cup (IF a.state = "unavailable" /\ rep.recoverable /\ rep.human THEN {"replenishment_recoverable"} ELSE {}),
                 a, u, {}, rep)
        ELSE IF \E d \in rs : d.state = "unknown"
        THEN ExcludedOnCapacity(entry, "reservation", {"reservation_unknown"}, a, u, rs, rep)
        ELSE IF \E d \in rs : d.blocked = TRUE
        THEN ExcludedOnCapacity(entry, "reservation", {"reservation_blocked"}, a, u, rs, rep)
        ELSE [id |-> entry.id, eligible |-> TRUE, stage |-> Null, codes |-> {}, degraded |-> u.degraded,
              happy |-> FirstHappyHour(inp.pol.happyHours, entry, inp.now) # Null,
              short |-> /\ a.state = "known" /\ a.tactical # Null
                        /\ a.tactical.remaining < inp.pol.floor,
              scarcity |-> a, unknown |-> u, reservations |-> rs, replenishment |-> rep]

EvaluateCandidate(entry, inp) == CandidateVerdict(entry, inp, AssessScarcity(entry, inp.snap))

StageReasons(stage) ==
    CASE stage = "execution" -> {"execution_allowance_unavailable", "execution_policy_blocked", "execution_unverified"}
      [] stage = "policy_blackout" -> {"policy_blocked"}
      [] stage = "hard_constraint" -> {"hard_constraint_failed"}
      [] stage = "capability" -> {"capability_failed"}
      [] stage = "capacity" -> {"capacity_unavailable", "capacity_unknown_blocked"}
      [] stage = "reservation" -> {"reservation_blocked", "reservation_unknown"}

EvaluationAccepted(e) ==
    /\ e.scarcity # Null => AssessmentAccepted(e.scarcity)
    /\ e.unknown # Null => UnknownCapacityAccepted(e.unknown)
    /\ \A d \in e.reservations : ReservationAccepted(d)
    /\ e.replenishment # Null => ReplenishmentAccepted(e.replenishment)
    /\ e.happy => e.eligible
    /\ e.short => e.eligible /\ e.scarcity # Null /\ e.scarcity.state = "known" /\ e.scarcity.tactical # Null
    /\ e.degraded => e.unknown # Null /\ e.unknown.degraded
    /\ IF e.stage = Null THEN e.eligible /\ e.codes = {}
       ELSE ~e.eligible /\ StageReasons(e.stage) \cap e.codes # {}

Index(seq, x) == CHOOSE i \in DOMAIN seq : seq[i] = x

MostUsedFirst(e, known) == IF known THEN 10000 - e.scarcity.penalty ELSE 0

LeastUsedFirst(e, known) == IF known THEN e.scarcity.penalty ELSE 0

\* Known capacity before unknown, a happy hour before none, less used before
\* more, least effort first, then the user's preference and the identity.
RankingKey(e, entry, preference) ==
    LET known == e.scarcity # Null /\ e.scarcity.state = "known"
        preferred == \E i \in DOMAIN preference : preference[i] = e.id
    IN  <<IF known THEN 0 ELSE 1,
          IF e.happy THEN 0 ELSE 1,
          LeastUsedFirst(e, known),
          IF entry.effort = Null THEN 1 ELSE 0,
          IF entry.effort = Null THEN 0 ELSE Index(Efforts, entry.effort),
          IF preferred THEN 0 ELSE 1,
          IF preferred THEN Index(preference, e.id) ELSE 0,
          e.id>>

Before(k, l) == \E i \in DOMAIN k : k[i] < l[i] /\ \A j \in 1..(i - 1) : k[j] = l[j]

StageProgress(stage) ==
    Index(<<"execution", "policy_blackout", "hard_constraint", "capability", "capacity", "reservation">>, stage)

\* The first three, in identity order, of those that came furthest.
ClosestCandidates(excluded) ==
    LET furthest == {e \in excluded : \A f \in excluded : StageProgress(e.stage) >= StageProgress(f.stage)}
    IN  {e \in furthest : Cardinality({f \in furthest : f.id < e.id}) < 3}

\* entries: set of entries; evals: their evaluations.
AssembleEvaluations(entries, evals, pol, now) ==
    LET entry(e) == CHOOSE c \in entries : c.id = e.id
        key(e) == RankingKey(e, entry(e), pol.preference)
        eligible == {e \in evals : e.eligible}
        excluded == {e \in evals : ~e.eligible}
        selected == IF eligible = {} THEN Null
                    ELSE CHOOSE e \in eligible : \A f \in eligible \ {e} : Before(key(e), key(f))
    IN  [selected |-> selected,
         alternatives |-> eligible \ {selected},
         excluded |-> excluded,
         closest |-> IF selected = Null THEN ClosestCandidates(excluded) ELSE {},
         recoverable |-> {e \in excluded : /\ e.stage = "capacity" /\ e.scarcity.state = "unavailable"
                                           /\ e.replenishment.recoverable /\ e.replenishment.human},
         degraded |-> selected # Null /\ selected.degraded,
         expired |-> {i \in DOMAIN pol.blackouts : ExpiredAt(pol.blackouts[i], now)},
         codes |-> IF selected = Null THEN {"no_eligible_candidate"}
                   ELSE {"selected_balanced"} \cup (IF selected.degraded THEN {"selected_degraded_capacity"} ELSE {})]

SelectModel(entries, inp) ==
    AssembleEvaluations(entries, {EvaluateCandidate(c, inp) : c \in entries}, inp.pol, inp.now)

DecisionAccepted(d) ==
    /\ \A e \in {d.selected} \cup d.alternatives \cup d.excluded : e # Null => EvaluationAccepted(e)
    /\ d.selected # Null => d.selected.eligible
    /\ \A e \in d.excluded \cup d.closest \cup d.recoverable : ~e.eligible
    /\ IF d.selected = Null
       THEN d.alternatives = {} /\ ~d.degraded /\ "no_eligible_candidate" \in d.codes
       ELSE /\ "selected_balanced" \in d.codes
            /\ d.codes \subseteq {"selected_balanced", "selected_degraded_capacity"}
            /\ d.degraded = d.selected.degraded
            /\ \A e \in d.alternatives : e.eligible /\ e.id # d.selected.id

-----------------------------------------------------------------------------
(* selection_types.py, selector.py, capacity.py, eligibility.py: what the    *)
(* constructors of the inputs accept                                        *)

\* Efforts are given exactly to reasoning models; known bindings are not
\* empty and stay with the provider of the model.
EntryAccepted(entry) ==
    /\ entry.reasons <=> entry.effort # Null
    /\ entry.bindings # Null => /\ entry.bindings # {}
                                /\ \A b \in entry.bindings : b.provider = entry.provider

\* A human overrides a known rating, never an unknown one.
CapabilityAccepted(assessment) ==
    /\ assessment.rating # Null => assessment.rating \in 0..100
    /\ assessment.override # Null => assessment.rating # Null /\ assessment.override \in 0..100

CatalogAccepted(entries) ==
    /\ \A c \in entries : EntryAccepted(c) /\ CapabilityAccepted(c.capability)
    /\ \A c, d \in entries : c.id = d.id => c = d

RequirementAccepted(req) ==
    /\ \A bound \in {req.ctx, req.out} : bound # Null => bound >= 1
    /\ req.rating # Null => req.rating \in 0..100
    /\ req.provider # Null => req.provider \in Providers

ReservationRuleAccepted(rule) == rule.below \in 1..100

UserPolicyAccepted(pol) ==
    /\ \A i \in DOMAIN pol.blackouts : RuleAccepted(pol.blackouts[i])
    /\ \A i \in DOMAIN pol.happyHours : HappyHourRuleAccepted(pol.happyHours[i])
    /\ \A r \in pol.reservations : ReservationRuleAccepted(r)

SelectorPolicyAccepted(pol) ==
    /\ UserPolicyAccepted(pol)
    /\ pol.floor \in 0..100
    /\ \A i, j \in DOMAIN pol.preference : pol.preference[i] = pol.preference[j] => i = j

DefaultFloor == 10

NeutralPolicy ==
    [mode |-> "degraded", replenishment |-> "advisory", reservations |-> {}, blackouts |-> <<>>,
     happyHours |-> <<>>, floor |-> DefaultFloor, preference |-> <<>>]

\* A percentage is absent or in range; only some failures may carry windows.
SnapshotAccepted(snapshot) ==
    /\ \A s \in Slots : snapshot.wins[s] \in {NoWindow, Unknown} \cup 0..100
    /\ snapshot.status \notin {"ok", "unknown"} => \A s \in Slots : snapshot.wins[s] = NoWindow

EligibilityAccepted(report) == report.state = "eligible" <=> report.codes = {}

-----------------------------------------------------------------------------
(* selection_app.py, simulation.py *)

\* Exactly one source of the requirement; only a profile may be tightened.
ResolveRequirement(profiles, profile, explicit, tightening) ==
    IF explicit # Null
    THEN IF profile # Null \/ tightening # Null THEN Raised ELSE explicit
    ELSE IF profile = Null \/ profile \notin DOMAIN profiles THEN Raised
    ELSE IF tightening = Null THEN profiles[profile]
    ELSE Tighten(profiles[profile], tightening)

OverrideAppliesAnywhere(o, snap) == snap[SlotOf[o.slot].provider] # Null

\* An override [slot, remaining] names one window whose percentage is known.
OverrideApplies(o, snap) ==
    LET p == SlotOf[o.slot].provider
    IN  /\ snap[p] # Null
        /\ snap[p].status = "ok"
        /\ snap[p].wins[o.slot] \notin {NoWindow, Unknown}

ApplyCapacityOverrides(snap, overrides) ==
    IF \E o \in overrides : ~OverrideApplies(o, snap) THEN Raised
    ELSE IF \E o, q \in overrides : o # q /\ o.slot = q.slot THEN Raised
    ELSE [p \in Providers |->
            IF snap[p] = Null THEN Null
            ELSE [snap[p] EXCEPT !.wins = [s \in Slots |->
                    IF SlotOf[s].provider = p /\ \E o \in overrides : o.slot = s
                    THEN (CHOOSE o \in overrides : o.slot = s).remaining
                    ELSE snap[p].wins[s]]]]

\* The decision of the inputs as they are, and as they would be; an override
\* that is Null leaves its input alone.
SimulateSelection(entries, inp, o) ==
    LET snap == ApplyCapacityOverrides(inp.snap, o.percentages)
    IN  IF snap = Raised THEN Raised
        ELSE [baseline |-> SelectModel(entries, inp),
              simulated |-> SelectModel(entries,
                  [inp EXCEPT !.snap = snap,
                              !.pol = IF o.pol = Null THEN @ ELSE o.pol,
                              !.now = IF o.now = Null THEN @ ELSE o.now,
                              !.resets = IF o.resets = Null THEN @ ELSE o.resets])]

-----------------------------------------------------------------------------
(* What the inputs and the results are made of. *)

\* What the constructors of a policy and of a catalog entry make of their fields; Null is none of the values it stands for the absence of.
Typed(rules) ==
    /\ DOMAIN rules = 1..Len(rules) /\ Len(rules) \in Nat
    /\ \A i \in DOMAIN rules :
          /\ rules[i].offset \in Int /\ rules[i].days \subseteq 0..WeekLen - 1
          /\ rules[i].start \in 0..DayLen - 1 /\ rules[i].end \in 0..DayLen - 1
PolicyTyped(pol) ==
    /\ pol.mode \in {"degraded", "blocked"} /\ pol.replenishment \in {"ignore", "advisory", "recoverable"}
    /\ Typed(pol.blackouts) /\ Typed(pol.happyHours) /\ pol.preference \in Seq(Nat)
NeedTyped(need) ==
    /\ need.level \in Int /\ need.tools \in BOOLEAN
    /\ need.rating \in Nat \cup {Null} /\ need.ctx \in Nat \cup {Null} /\ need.out \in Nat \cup {Null}
EntryTyped(c) ==
    /\ c.id \in Nat /\ c.provider \in Providers /\ c.effort \in {Null} \cup {Efforts[i] : i \in DOMAIN Efforts}
    /\ c.ctx \in Nat \cup {Null} /\ c.out \in Nat \cup {Null}
    /\ c.bindings # Null => c.bindings \subseteq Scopes
ContextTyped(now, resets) == now \in Int /\ \A p \in Providers : resets[p] \in Nat \cup {Null}

Evidences == [slot : Slots, remaining : 0..100]
Labels == {"plentiful", "normal", "scarce", "critical", "unavailable", "unknown"}
Reasons == {"missing_provider_snapshot", "provider_snapshot_not_ok", "window_percentage_unknown", "missing_scope_window", "capacity_bindings_unknown", "capacity_exhausted"}
Assessments ==
    [state : {"known", "unavailable", "unknown"}, label : Labels, penalty : Nat \cup {Null}, effective : 0..100 \cup {Null},
     scopes : SUBSET Scopes, governing : Evidences \cup {Null}, strategic : Evidences \cup {Null},
     tactical : Evidences \cup {Null}, codes : SUBSET Reasons]
Capacities ==
    [mode : {"degraded", "blocked"}, eligible : BOOLEAN, degraded : BOOLEAN,
     codes : SUBSET {"capacity_exhausted", "unknown_capacity_degraded", "unknown_capacity_blocked"}]
Reservations ==
    [state : {"known", "unknown"}, triggered : BOOLEAN \cup {Null}, blocked : BOOLEAN \cup {Null}, remaining : 0..100 \cup {Null},
     codes : SUBSET {"reservation_scope_snapshot_missing", "reservation_scope_snapshot_not_ok", "reservation_window_missing",
                     "reservation_percentage_unknown", "reservation_triggered", "reservation_blocked", "reservation_permitted_by_task_level"}]
Replenishments ==
    [mode : {"ignore", "advisory", "recoverable"}, visible : BOOLEAN, count : Nat \cup {Null}, recoverable : BOOLEAN, human : BOOLEAN,
     codes : SUBSET {"replenishment_available", "replenishment_recoverable"}]
Stages == {"execution", "policy_blackout", "hard_constraint", "capability", "capacity", "reservation"}
Evaluations ==
    [id : Nat, eligible : BOOLEAN, stage : Stages \cup {Null},
     codes : SUBSET ((UNION {StageReasons(gate) : gate \in Stages}) \cup {"replenishment_recoverable"}),
     degraded : BOOLEAN, happy : BOOLEAN, short : BOOLEAN, scarcity : Assessments \cup {Null}, unknown : Capacities \cup {Null},
     reservations : SUBSET Reservations, replenishment : Replenishments \cup {Null}]
Decisions ==
    [selected : Evaluations \cup {Null}, alternatives : SUBSET Evaluations, excluded : SUBSET Evaluations, closest : SUBSET Evaluations,
     recoverable : SUBSET Evaluations, degraded : BOOLEAN, expired : SUBSET Nat,
     codes : SUBSET {"no_eligible_candidate", "selected_balanced", "selected_degraded_capacity"}]
Snapshots ==
    [status : {"ok", "unavailable", "auth_required", "unsupported", "schema_changed", "unknown"},
     wins : [Slots -> {NoWindow, Unknown} \cup 0..100]]

\* Null and Raised stand outside of what they stand for the absence and the refusal of.
ASSUME SentinelAssumption ==
    /\ Null \notin Nat /\ Null \notin BOOLEAN /\ Null # "eligible" /\ Null \notin Stages
    /\ Null \notin Evidences /\ Null \notin Assessments /\ Null \notin Capacities /\ Null \notin Evaluations /\ Null \notin Snapshots
    /\ NoWindow \notin 0..100 /\ Unknown \notin 0..100
    /\ Raised \notin Assessments /\ Raised \notin [Providers -> Snapshots]
ASSUME ScopeAssumption == \A b \in Scopes : b = [provider |-> b.provider, scope |-> b.scope]
ASSUME EffortAssumption == Efforts \in Seq(STRING)

============================================================================
