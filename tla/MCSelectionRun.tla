--------------------------- MODULE MCSelectionRun ---------------------------
(***************************************************************************)
(* An instance of SelectionRun: three models on two subscriptions, a few    *)
(* calls, answers with and without signals, readings on both sides of the   *)
(* thresholds.                                                              *)
(***************************************************************************)
EXTENDS SelectionRun

Slot(p, sc, r, k, i) == [provider |-> p, scope |-> sc, resource |-> r, kind |-> k, id |-> i]

MCSlots == 1..8
MCSlotOf ==
    <<Slot("openai", "bucket", "tokens", "five_hour", "primary"),
      Slot("openai", "codex", "tokens", "five_hour", "primary"),
      Slot("openai", "codex", "tokens", "unknown", "primary"),
      Slot("openai", "codex", "tokens", "weekly", "primary"),
      Slot("openai", "codex", "tokens", "weekly", "secondary"),
      Slot("zai", "zai-coding", "time", "unknown", "time"),
      Slot("zai", "zai-coding", "tokens", "five_hour", "tokens"),
      Slot("zai", "zai-coding", "tokens", "weekly", "tokens")>>

Scope(p, sc) == [provider |-> p, scope |-> sc]
MCScopes == {Scope(SlotOf[s].provider, SlotOf[s].scope) : s \in Slots}
MCEfforts == <<"low", "high">>

Rated(r, o) == [rating |-> r, override |-> o]

MCEntries ==
    {[provider |-> "openai", id |-> 1, model |-> "gpt", variant |-> "high", ctx |-> 2, out |-> 1, tools |-> "yes",
      capability |-> Rated(80, 60), reasons |-> TRUE, effort |-> "high", bindings |-> {Scope("openai", "codex")}],
     [provider |-> "openai", id |-> 2, model |-> "spark", variant |-> "low", ctx |-> 1, out |-> 1, tools |-> Null,
      capability |-> Rated(40, Null), reasons |-> TRUE, effort |-> "low", bindings |-> {Scope("openai", "bucket")}],
     [provider |-> "zai", id |-> 3, model |-> "glm", variant |-> "base", ctx |-> 2, out |-> Null, tools |-> "yes",
      capability |-> Rated(60, Null), reasons |-> FALSE, effort |-> Null, bindings |-> {Scope("zai", "zai-coding")}],
     [provider |-> "zai", id |-> 4, model |-> "air", variant |-> "base", ctx |-> 2, out |-> 1, tools |-> "no",
      capability |-> Rated(Null, Null), reasons |-> FALSE, effort |-> Null, bindings |-> Null]}

Need(l, r, c, t, p) == [provider |-> p, rating |-> r, ctx |-> c, out |-> Null, tools |-> t, level |-> l]

MCProfiles == [coding |-> Need(1, 50, 1, FALSE, Null)]

AnyTarget(p) == [provider |-> p, model |-> Null, variant |-> Null]
Night(p) == [target |-> AnyTarget(p), offset |-> 1, days |-> {0}, start |-> 3, end |-> 1, from |-> Null, until |-> Null]
Noon(p) == [target |-> AnyTarget(p), offset |-> 0, days |-> {0, 1}, start |-> 1, end |-> 3, from |-> 0, until |-> 0]

Reserve == [scope |-> Scope("openai", "codex"), resource |-> "tokens", kind |-> "weekly", level |-> 2, below |-> 30]

Neutral == NeutralPolicy
Careful == [NeutralPolicy EXCEPT !.mode = "blocked", !.reservations = {Reserve}, !.preference = <<3, 1>>]
Timed == [NeutralPolicy EXCEPT !.replenishment = "recoverable", !.blackouts = <<Night("openai"), Noon("zai")>>,
                               !.happyHours = <<Noon("openai")>>]

Resets == [openai |-> 1, zai |-> Null]
Call(prof, expl, tight, p, n) ==
    [profile |-> prof, explicit |-> expl, tightening |-> tight, pol |-> p, now |-> n, resets |-> Resets]

MCRequests ==
    {Call("coding", Null, Null, Neutral, 0), Call("coding", Null, Need(1, 60, 2, TRUE, Null), Careful, 0),
     Call("coding", Null, Need(2, Null, Null, FALSE, "openai"), Careful, 0),
     Call("coding", Null, Need(1, 40, Null, FALSE, Null), Neutral, 0),
     Call("coding", Need(1, Null, Null, FALSE, Null), Null, Neutral, 0),
     Call(Null, Need(1, Null, Null, FALSE, Null), Null, Careful, 0)}
    \cup {Call(Null, Need(1, Null, Null, FALSE, Null), Null, Timed, n) : n \in {0, 2, 3, 4, 7}}

Win(u, m) == [used |-> u, mins |-> m]
NoSecond(w) == [primary |-> w, secondary |-> Null]
Quota(w) == [drift |-> FALSE, reached |-> FALSE, spend |-> "false", credits |-> "none", individual |-> "absent", wins |-> w]
Clean(w) == [drift |-> FALSE, ordinary |-> "true", upsell |-> FALSE, mirror |-> "absent", main |-> Quota(w), extra |-> Null]
Both(a, b) == [primary |-> Win(a, 300), secondary |-> Win(b, 10080)]

MCCodexAnswers ==
    {Clean(Both(a, b)) : a \in {0, 95, 100}, b \in {20, 80}}
    \cup {[Clean(Both(0, b)) EXCEPT !.mirror = "same", !.extra = Quota(NoSecond(Win(u, 300)))] : b \in {60, 100}, u \in {10, 100}}
    \cup {Clean(NoSecond(Win(50, 10080))), Clean(NoSecond(Win(120, 300))), Clean(NoSecond(Win(5, Null))),
          Clean(NoSecond(Win(5, 0))), Clean(NoSecond(Win(Null, 300))), Clean(NoSecond(Null)),
          [Clean(Both(0, 0)) EXCEPT !.upsell = TRUE], [Clean(Both(0, 0)) EXCEPT !.drift = TRUE],
          [Clean(Both(0, 0)) EXCEPT !.mirror = "different"]}
    \cup {[Clean(Both(0, 0)) EXCEPT !.ordinary = o] : o \in {"absent", "null", "false"}}
    \cup {[Clean(Both(0, 0)) EXCEPT !.main.reached = TRUE], [Clean(Both(0, 0)) EXCEPT !.main.spend = "true"],
          [Clean(Both(0, 0)) EXCEPT !.main.spend = "null"], [Clean(Both(0, 0)) EXCEPT !.main.individual = "exhausted"],
          [Clean(Both(0, 0)) EXCEPT !.main.credits = "purchased"], [Clean(Both(0, 0)) EXCEPT !.main.credits = "invalid"]}

Limit(t, k, u) == [kind |-> k, used |-> u, type |-> t]
Body(c, l) == [kind |-> "body", drift |-> FALSE, code |-> c, limits |-> l]

MCZaiAnswers ==
    {[kind |-> "unavailable"], Body(401, {}), Body(500, {}), Body(200, {}), Body(200, {Limit("seats", "unknown", 1)}),
     [Body(200, {}) EXCEPT !.drift = TRUE],
     Body(200, {Limit("tokens", "five_hour", 40), Limit("time", "unknown", 101)}),
     Body(200, {Limit("tokens", "five_hour", 95), Limit("tokens", "weekly", 10)}),
     Body(200, {Limit("tokens", "five_hour", 10), Limit("tokens", "weekly", 100), Limit("time", "unknown", 20)}),
     Body(200, {Limit("tokens", "five_hour", 100), Limit("tokens", "weekly", 30)})}

Lowered(s, r) == [slot |-> s, remaining |-> r]
MCOverrides ==
    {[pol |-> Null, now |-> Null, resets |-> Null, percentages |-> {Lowered(5, 0)}],
     [pol |-> NeutralPolicy, now |-> 4, resets |-> Resets, percentages |-> {Lowered(5, 50), Lowered(7, 0)}]}
=============================================================================
