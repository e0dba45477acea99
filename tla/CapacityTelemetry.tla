------------------------- MODULE CapacityTelemetry -------------------------
(***************************************************************************)
(* From what the two providers say of a subscription to the capacity       *)
(* snapshots and the eligibility report that a selection reads:            *)
(* providers/openai_codex.py, providers/openai_eligibility.py and          *)
(* providers/zai.py.                                                       *)
(*                                                                         *)
(* A Codex answer is reduced to what decides: drift stands for every member *)
(* of an unexpected type, one extra bucket for all of them, and each signal *)
(* for the values the parser tells apart.  A raw window is [used, mins].    *)
(***************************************************************************)
EXTENDS Selection

CONSTANTS WindowSlots    \* the slots of a bucket: primary and secondary

Codex == "codex"
Bucket == "bucket"       \* the scope of the extra bucket
Plan == "zai-coding"     \* the scope of the other provider's limits

-----------------------------------------------------------------------------
(* openai_codex.py *)

KnownDuration(mins) ==
    CASE mins = 300 -> "five_hour"
      [] mins = 10080 -> "weekly"
      [] OTHER -> "unknown"

\* The remaining half of the pair; out of range is unknown.
UsedPair(used) == IF used \in 0..100 THEN 100 - used ELSE Unknown

\* A window of no duration has an unknown kind, one of a nonsensical
\* duration or without a percentage is refused.
ParseWindow(w) ==
    IF w.used = Null \/ (w.mins # Null /\ w.mins <= 0) THEN Null
    ELSE [kind |-> IF w.mins = Null THEN "unknown" ELSE KnownDuration(w.mins),
          remaining |-> UsedPair(w.used)]

CreditsState(credits) == IF credits = "invalid" THEN Null ELSE credits # "absent"

IndividualLimitState(individual) == IF individual = "invalid" THEN Null ELSE individual = "exhausted"

\* One bucket: its windows by slot, and whether a signal blocks it.
QuotaSnapshotState(q, full) ==
    LET present == {i \in WindowSlots : q.wins[i] # Null}
        parsed(i) == ParseWindow(q.wins[i])
        known == {i \in present : parsed(i) # Null /\ parsed(i).kind # "unknown"}
    IN  IF \/ q.drift
           \/ CreditsState(q.credits) = Null
           \/ IndividualLimitState(q.individual) = Null
           \/ \E i \in present : parsed(i) = Null
           \/ \E i, j \in known : i # j /\ parsed(i).kind = parsed(j).kind
        THEN Null
        ELSE [wins |-> [i \in present |-> parsed(i)],
              blocked |-> \/ q.reached
                          \/ q.spend = "true"
                          \/ q.individual = "exhausted"
                          \/ full /\ \E i \in present : parsed(i).remaining = 0]

NoWindows == [s \in Slots |-> NoWindow]

Failure(status) == [status |-> status, wins |-> NoWindows]

\* The slot of a window in the snapshot.
SlotFor(provider, scope, id, kind) ==
    CHOOSE s \in Slots : /\ SlotOf[s].provider = provider /\ SlotOf[s].scope = scope
                         /\ SlotOf[s].id = id /\ SlotOf[s].kind = kind

Emitted(state, scope) ==
    [s \in {SlotFor("openai", scope, i, state.wins[i].kind) : i \in DOMAIN state.wins} |->
        state.wins[SlotOf[s].id].remaining]

EmittedStripped(state, scope) == [s \in DOMAIN Emitted(state, scope) |-> Unknown]

\* A signal that blocks any bucket blocks the whole answer; an answer that
\* says nothing of ordinary usage is of an older server and blocks nothing.
Blocked(raw, main, extra) ==
    \/ raw.upsell
    \/ main.blocked
    \/ extra # Null /\ extra.blocked
    \/ raw.ordinary \notin {"absent", "true"}

ParseCodexRateLimits(raw) ==
    LET main == QuotaSnapshotState(raw.main, FALSE)
        extra == IF raw.extra = Null THEN Null ELSE QuotaSnapshotState(raw.extra, TRUE)
        wins(strip) ==
            LET em == IF strip THEN EmittedStripped(main, Codex) ELSE Emitted(main, Codex)
                ex == IF extra = Null THEN << >>
                      ELSE IF strip THEN EmittedStripped(extra, Bucket) ELSE Emitted(extra, Bucket)
            IN  [s \in Slots |-> IF s \in DOMAIN em THEN em[s]
                                 ELSE IF s \in DOMAIN ex THEN ex[s] ELSE NoWindow]
    IN  IF \/ raw.drift
           \/ raw.mirror = "different"
           \/ main = Null
           \/ raw.extra # Null /\ extra = Null
        THEN Failure("schema_changed")
        ELSE IF DOMAIN main.wins = {} /\ (extra = Null \/ DOMAIN extra.wins = {})
        THEN Failure("unknown")
        ELSE IF Blocked(raw, main, extra)
        THEN [status |-> "unknown", wins |-> wins(TRUE)]
        ELSE [status |-> IF \A i \in DOMAIN main.wins : main.wins[i].remaining = Unknown
                         THEN "unknown" ELSE "ok",
              wins |-> wins(FALSE)]

-----------------------------------------------------------------------------
(* openai_eligibility.py *)

\* What keeps a subscription from being used at all, read from the same answer.
EligibilityReasons(raw) ==
    (IF raw.main.credits \in {"absent", "invalid"} THEN {"credits_state_unknown"}
     ELSE IF raw.main.credits = "purchased" THEN {"purchased_credits_present"} ELSE {})
    \cup (CASE raw.ordinary = "true" -> {}
            [] raw.ordinary = "false" -> {"ordinary_usage_not_allowed"}
            [] OTHER -> {"ordinary_usage_unknown"})
    \cup (CASE raw.main.spend = "true" -> {"spend_control_reached"}
            [] raw.main.spend = "false" -> {}
            [] OTHER -> {"spend_control_state_unknown"})
    \cup (IF raw.main.reached THEN {"rate_limit_reached"} ELSE {})
    \cup (IF raw.main.individual = "exhausted" THEN {"individual_limit_exhausted"} ELSE {})
    \cup (IF raw.upsell THEN {"upsell_present"} ELSE {})
    \cup (IF \E i \in WindowSlots : raw.main.wins[i] # Null /\ raw.main.wins[i].used = 100
          THEN {"included_window_exhausted"} ELSE {})

ReportForgives(reasons) ==
    [state |-> IF reasons \subseteq {"spend_control_reached"} THEN "eligible" ELSE "unknown", codes |-> reasons]

Report(reasons) ==
    [state |-> IF reasons = {} THEN "eligible"
               ELSE IF "telemetry_invalid" \in reasons THEN "unknown"
               ELSE IF "purchased_credits_present" \in reasons THEN "policy_blocked"
               ELSE IF reasons \cap {"credits_state_unknown", "ordinary_usage_unknown",
                                     "spend_control_state_unknown"} # {}
               THEN "unknown" ELSE "allowance_unavailable",
     codes |-> reasons]

ParseCodexEligibility(raw) ==
    IF \/ raw.drift \/ raw.main.drift \/ raw.main.individual = "invalid"
       \/ \E i \in WindowSlots : raw.main.wins[i] # Null /\ raw.main.wins[i].used \notin {Null} \cup 0..100
    THEN Report({"telemetry_invalid"})
    ELSE Report(EligibilityReasons(raw))

\* No answer at all leaves the state unknown.
FailureEligibility(status) ==
    [state |-> "unknown",
     codes |-> {CASE status = "unavailable" -> "telemetry_unavailable"
                  [] status = "auth_required" -> "telemetry_auth_required"
                  [] status = "unsupported" -> "telemetry_unsupported"
                  [] OTHER -> "telemetry_invalid"}]

-----------------------------------------------------------------------------
(* zai.py: limits is a set of [type, kind, used, id]; kind is what the unit  *)
(* and the number of a tokens limit say                                     *)

\* A limit of an unknown type is kept without a scope, so no binding reads it.
ParseLimit(limit) ==
    IF limit.type \notin {"tokens", "time"} THEN Null
    ELSE [kind |-> IF limit.type = "tokens" THEN limit.kind ELSE "unknown",
          remaining |-> UsedPair(limit.used)]

ParseZaiQuota(raw) ==
    IF raw.drift THEN Failure("schema_changed")
    ELSE IF raw.code = 401 THEN Failure("auth_required")
    ELSE IF raw.code # 200 THEN Failure("unknown")
    ELSE LET kept == {l \in raw.limits : ParseLimit(l) # Null}
             at(l) == SlotFor("zai", Plan, l.type, ParseLimit(l).kind)
         IN  [status |-> "ok",
              wins |-> [s \in Slots |->
                  IF \E l \in kept : at(l) = s
                  THEN ParseLimit(CHOOSE l \in kept : at(l) = s).remaining
                  ELSE NoWindow]]
============================================================================
