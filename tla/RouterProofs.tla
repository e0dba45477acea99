---------------------------- MODULE RouterProofs ----------------------------
(***************************************************************************)
(* Proofs about one selection (SelectionRun) and about the router over time *)
(* (RoutingRun).  A decision is made of pure functions, so most of this is  *)
(* about them, from the windows up: an assessment, the gates of a           *)
(* candidate, the order of the ranking keys, what the parsers make of the   *)
(* providers' answers, the decision; then the gates of a resource, the      *)
(* models a route may take, the target.  The invariants (SelectionIInv,     *)
(* RouteIInv) say where the inputs of a decision come from, and carry what  *)
(* is shown of every input to every state.                                  *)
(***************************************************************************)
EXTENDS SelectionRun, RoutingRun, FiniteSetTheorems, SequenceTheorems, WellFoundedInduction, TLAPS

-----------------------------------------------------------------------------
(* Numbers: least elements, squares, blends, days of the week. *)

\* A set of naturals has a least element.
LEMMA LeastExists ==
    ASSUME NEW T, T \subseteq Nat, T # {}
    PROVE  Min(T) \in T /\ \A y \in T : Min(T) <= y
<1>1. PICK x \in T : \A y \in T : <<y, x>> \notin OpToRel(<, Nat)
  BY NatLessThanWellFounded, WFMin
<1>2. \A y \in T : ~(y < x)
  BY <1>1 DEF OpToRel
<1>3. \A y \in T : x <= y
  BY <1>2
<1> QED BY <1>3 DEF Min

\* The elements of least value under k.
LeastOf(E, k) == {e \in E : \A f \in E : k[e] <= k[f]}

\* The elements of least value are some, have the same value, and all others have a greater one.
LEMMA LeastOnes ==
    ASSUME NEW E, E # {}, NEW k, \A e \in E : k[e] \in Nat
    PROVE  /\ LeastOf(E, k) # {} /\ LeastOf(E, k) \subseteq E
           /\ \A e \in LeastOf(E, k), f \in LeastOf(E, k) : k[e] = k[f]
           /\ \A e \in LeastOf(E, k), f \in E \ LeastOf(E, k) : k[e] < k[f]
<1> DEFINE T == {k[e] : e \in E}
           L == LeastOf(E, k)
<1> USE DEF LeastOf
<1>1. T \subseteq Nat /\ T # {}
  OBVIOUS
<1>2. Min(T) \in T /\ \A y \in T : Min(T) <= y
  BY <1>1, LeastExists
<1>3. PICK e \in E : k[e] = Min(T)
  BY <1>2
<1>4. e \in L
  BY <1>2, <1>3
<1>5. \A f \in L : k[f] = k[e]
  <2> SUFFICES ASSUME NEW f \in L PROVE k[f] = k[e]
    OBVIOUS
  <2>1. k[f] <= k[e] /\ k[e] <= k[f] /\ k[e] \in Nat /\ k[f] \in Nat
    BY <1>4
  <2> QED BY <2>1
<1>6. ASSUME NEW f \in E \ L PROVE k[e] < k[f]
  <2>1. PICK g \in E : ~(k[f] <= k[g])
    BY <1>6
  <2>2. k[e] <= k[g] /\ k[f] \in Nat /\ k[g] \in Nat /\ k[e] \in Nat
    BY <1>4, <1>6
  <2> QED BY <2>1, <2>2
<1> QED BY <1>4, <1>5, <1>6

\* The percentages from the most used window down.
LEMMA PenaltyOrder ==
    ASSUME NEW x \in 0..100, NEW y \in 0..100
    PROVE  (Penalty(x) >= Penalty(y)) <=> x <= y
<1> DEFINE a == 100 - x
           b == 100 - y
<1>1. a \in 0..100 /\ b \in 0..100 /\ (x <= y <=> b <= a)
  OBVIOUS
<1> HIDE DEF a, b
<1>2. a * a >= b * b <=> b <= a
  <2>1. CASE b <= a
    <3>1. b * b <= b * a /\ b * a <= a * a
      BY <1>1, <2>1
    <3> QED BY <3>1, <2>1, <1>1
  <2>2. CASE a < b
    <3>1. a * a <= a * b /\ a * b < b * b
      BY <1>1, <2>2
    <3> QED BY <3>1, <2>2, <1>1
  <2> QED BY <2>1, <2>2, <1>1
<1> QED BY <1>1, <1>2 DEF Penalty, a, b

\* scarcity.py: a penalty is a square.
LEMMA PenaltyIsNat ==
    ASSUME NEW x \in Int
    PROVE  Penalty(x) \in Nat
<1> DEFINE a == 100 - x
<1>1. a \in Int
  OBVIOUS
<1> HIDE DEF a
<1>2. a * a \in Nat
  <2>1. a * a \in Int /\ a * a >= 0
    BY <1>1
  <2> QED BY <2>1
<1> QED BY <1>2 DEF Penalty, a

\* Quotient and remainder are unique.
LEMMA DividedOnce ==
    ASSUME NEW m \in Nat \ {0}, NEW k \in Int, NEW r \in 0..m - 1
    PROVE  (m * k + r) % m = r /\ (m * k + r) \div m = k
<1> DEFINE x == m * k + r
           q == x \div m
           t == x % m
<1>1. x \in Int /\ q \in Int /\ t \in 0..m - 1 /\ x = m * q + t
  OBVIOUS
<1> HIDE DEF x, q, t
<1>2. m * (q - k) = r - t
  <2>1. m * q + t = m * k + r
    BY <1>1 DEF x
  <2>2. m * (q - k) = m * q - m * k /\ m * q \in Int /\ m * k \in Int
    BY <1>1
  <2> QED BY <2>1, <2>2, <1>1
<1>3. CASE q - k >= 1
  <2>1. m * (q - k) >= m
    BY <1>1, <1>3
  <2> QED BY <2>1, <1>1, <1>2
<1>4. CASE q - k <= -1
  <2>1. m * (q - k) <= -m
    BY <1>1, <1>4
  <2> QED BY <2>1, <1>1, <1>2
<1>5. CASE q = k
  BY <1>1, <1>2, <1>5 DEF q, t, x
<1> QED BY <1>1, <1>3, <1>4, <1>5

\* The day before, counted within the week.
LEMMA DayBefore ==
    ASSUME NEW m \in Nat \ {0}, NEW x \in Int
    PROVE  ((x % m) + m - 1) % m = (x - 1) % m
<1> DEFINE q == x \div m
           r == x % m
<1>1. q \in Int /\ r \in 0..m - 1 /\ x = m * q + r
  OBVIOUS
<1> HIDE DEF q, r
<1>2. CASE r = 0
  <2>1. (m * 0 + (m - 1)) % m = m - 1 /\ (m * (q - 1) + (m - 1)) % m = m - 1
    BY <1>1, DividedOnce, m - 1 \in 0..m - 1
  <2>2. x - 1 = m * (q - 1) + (m - 1) /\ r + m - 1 = m * 0 + (m - 1)
    BY <1>1, <1>2
  <2> QED BY <2>1, <2>2 DEF r
<1>3. CASE r # 0
  <2>1. (m * 1 + (r - 1)) % m = r - 1 /\ (m * q + (r - 1)) % m = r - 1
    BY <1>1, <1>3, DividedOnce, r - 1 \in 0..m - 1
  <2>2. x - 1 = m * q + (r - 1) /\ r + m - 1 = m * 1 + (r - 1)
    BY <1>1, <1>3
  <2> QED BY <2>1, <2>2 DEF r
<1> QED BY <1>2, <1>3

\* Two percentages of a role each make one.
LEMMA BlendIsBetween ==
    ASSUME NEW a \in 1..100 \cup {Null}, NEW b \in 1..100 \cup {Null}, a # Null \/ b # Null
    PROVE  /\ Blend(a, b) \in 1..100
           /\ b = Null => Blend(a, b) = a
<1>1. CASE a = Null
  BY <1>1, SentinelAssumption DEF Blend, Ratio
<1>2. CASE a # Null /\ b = Null
  BY <1>2, SentinelAssumption DEF Blend, Ratio
<1>3. CASE a # Null /\ b # Null
  BY <1>3, SentinelAssumption DEF Blend, Ratio
<1> QED BY <1>1, <1>2, <1>3

-----------------------------------------------------------------------------
(* One model's capacity. *)

\* The windows of a snapshot are read as percentages, or not at all.
Readable(snap) == \A p \in Providers : snap[p] # Null => \A s \in Slots : snap[p].wins[s] \in {NoWindow, Unknown} \cup 0..100

\* scarcity.py: a window that carries a percentage is read as one.
LEMMA KnownIsPercentage ==
    ASSUME NEW snap, Readable(snap), NEW b, NEW s \in KnownSlots(b, snap)
    PROVE  s \in SlotsOfScope(b) /\ s \in Slots /\ Remaining(s, snap) \in 0..100
<1>1. s \in SlotsOfScope(b) /\ snap[b.provider] # Null /\ snap[b.provider].wins[s] \notin {NoWindow, Unknown}
  BY DEF KnownSlots
<1>2. s \in Slots /\ SlotOf[s].provider = b.provider /\ b.provider \in Providers
  BY <1>1, SlotAssumption DEF SlotsOfScope
<1> QED BY <1>1, <1>2 DEF Readable, Remaining

\* The window that governs a pool is one of it, and none is used up more.
LEMMA GoverningIsOne ==
    ASSUME NEW snap, NEW pool \in SUBSET Slots, pool # {}, \A s \in pool : Remaining(s, snap) \in 0..100
    PROVE  PickGoverning(pool, snap) \in pool
<1> DEFINE k == [s \in pool |-> Remaining(s, snap)]
           L == LeastOf(pool, k)
           worst == {s \in pool : \A t \in pool : Penalty(Remaining(s, snap)) >= Penalty(Remaining(t, snap))}
<1>1. L # {}
  <2>1. \A s \in pool : k[s] \in Nat
    OBVIOUS
  <2> HIDE DEF k
  <2> QED BY <2>1, LeastOnes
<1>2. L = worst
  <2>1. \A s \in pool, t \in pool : (Penalty(Remaining(s, snap)) >= Penalty(Remaining(t, snap))) <=> k[s] <= k[t]
    BY PenaltyOrder
  <2> QED BY <2>1 DEF LeastOf
<1>3. worst \subseteq Nat /\ worst # {}
  BY <1>1, <1>2, SlotAssumption
<1> HIDE DEF worst
<1>4. Min(worst) \in worst
  BY <1>3, LeastExists
<1> QED BY <1>4 DEF PickGoverning, worst

\* The evidence of a role, if there is any.
RoleEvidence(pool, snap) == IF pool = {} THEN Null ELSE Evidence(PickGoverning(pool, snap), snap)

\* scarcity.py: the evidence of a role is a known window of that role.
LEMMA EvidenceOfRole ==
    ASSUME NEW snap, NEW known \in SUBSET Slots, \A s \in known : Remaining(s, snap) \in 1..100, NEW role
    PROVE  LET pool == OfRole(known, role)
               x == RoleEvidence(pool, snap)
           IN /\ x = Null <=> pool = {}
              /\ x \in Evidences \cup {Null}
              /\ x # Null => /\ x.slot \in known /\ x.remaining \in 1..100
                             /\ WindowRole(SlotOf[x.slot].resource, SlotOf[x.slot].kind) = role
<1> DEFINE pool == OfRole(known, role)
           x == RoleEvidence(pool, snap)
<1>1. pool \subseteq known
  BY DEF OfRole
<1>2. CASE pool = {}
  BY <1>2 DEF RoleEvidence
<1>3. CASE pool # {}
  <2>1. PickGoverning(pool, snap) \in pool
    <3> HIDE DEF pool
    <3>1. pool \in SUBSET Slots /\ \A s \in pool : Remaining(s, snap) \in 0..100
      BY <1>1
    <3> QED BY <1>3, <3>1, GoverningIsOne
  <2>2. x = [slot |-> PickGoverning(pool, snap), remaining |-> Remaining(PickGoverning(pool, snap), snap)]
    BY <1>3 DEF RoleEvidence, Evidence
  <2>3. x.slot \in pool /\ x.remaining \in 1..100 /\ x \in Evidences
    <3> HIDE DEF pool, x
    <3> QED BY <1>1, <2>1, <2>2 DEF Evidences
  <2>4. WindowRole(SlotOf[x.slot].resource, SlotOf[x.slot].kind) = role
    <3> HIDE DEF x
    <3> QED BY <2>3 DEF OfRole
  <2> QED BY <1>1, <1>3, <2>3, <2>4, SentinelAssumption
<1> QED BY <1>2, <1>3

\* Every role is one of the two.
LEMMA RolesAreTwo ==
    ASSUME NEW known, known # {}
    PROVE  OfRole(known, Strategic) # {} \/ OfRole(known, Tactical) # {}
<1>1. PICK s \in known : TRUE
  OBVIOUS
<1>2. WindowRole(SlotOf[s].resource, SlotOf[s].kind) \in {Strategic, Tactical}
  BY DEF WindowRole
<1> QED BY <1>1, <1>2 DEF OfRole

\* scarcity.py: an assessment is what its constructor accepts, and none of the windows of a model that is not unavailable is used up.
Sound(a, entry, snap) ==
    /\ a.state \in {"known", "unavailable", "unknown"}
    /\ a \in Assessments /\ AssessmentAccepted(a)
    /\ a.state = "known" => a.penalty \in Nat
    /\ a.state # "unavailable" /\ entry.bindings # Null =>
          \A b \in entry.bindings : \A s \in KnownSlots(b, snap) : Remaining(s, snap) > 0

\* scarcity.py: assess_scarcity makes what the constructor of an assessment accepts.
LEMMA AssessmentIsSound ==
    ASSUME NEW entry, EntryTyped(entry), EntryAccepted(entry), NEW snap, Readable(snap)
    PROVE  Sound(AssessScarcity(entry, snap), entry, snap)
<1> DEFINE a == AssessScarcity(entry, snap)
<1>1. CASE entry.bindings = Null
  <2>1. a = UnknownAssessment({"capacity_bindings_unknown"}, {})
    BY <1>1 DEF AssessScarcity
  <2>2. a \in Assessments /\ a # Raised
    BY <2>1, SentinelAssumption DEF UnknownAssessment, Assessments, Labels, Reasons
  <2> HIDE DEF a
  <2> QED BY <1>1, <2>1, <2>2 DEF Sound, AssessmentAccepted, UnknownAssessment, a
<1>2. CASE entry.bindings # Null
  <2> DEFINE reasons == UNION {BindingReasons(b, snap) : b \in entry.bindings}
             known == UNION {KnownSlots(b, snap) : b \in entry.bindings}
             exhausted == Exhausted(known, snap)
             ofS == OfRole(known, Strategic)
             ofT == OfRole(known, Tactical)
             strategic == RoleEvidence(ofS, snap)
             tactical == RoleEvidence(ofT, snap)
             effective == Blend(IF tactical = Null THEN Null ELSE tactical.remaining, IF strategic = Null THEN Null ELSE strategic.remaining)
  <2>0. entry.bindings # {} /\ entry.bindings \in SUBSET Scopes
    BY <1>2 DEF EntryAccepted, EntryTyped
  <2>1. \A s \in known : /\ s \in Slots /\ Remaining(s, snap) \in 0..100
                         /\ \E b \in entry.bindings : s \in SlotsOfScope(b)
    BY KnownIsPercentage
  <2>2. reasons \subseteq {"missing_provider_snapshot", "provider_snapshot_not_ok", "window_percentage_unknown", "missing_scope_window"}
    BY DEF BindingReasons
  <2>3. a = IF exhausted # {}
            THEN [state |-> "unavailable", label |-> "unavailable", penalty |-> 10000,
                  effective |-> 0, scopes |-> entry.bindings,
                  governing |-> Evidence(PickGoverning(exhausted, snap), snap),
                  strategic |-> Null, tactical |-> Null,
                  codes |-> reasons \cup {"capacity_exhausted"}]
            ELSE IF reasons # {} THEN UnknownAssessment(reasons, entry.bindings)
            ELSE IF known = {} THEN Raised
            ELSE [state |-> "known", label |-> Label(effective), penalty |-> Penalty(effective),
                  effective |-> effective, scopes |-> entry.bindings,
                  governing |-> IF strategic # Null THEN strategic ELSE tactical,
                  strategic |-> strategic, tactical |-> tactical, codes |-> {}]
    BY <1>2 DEF AssessScarcity, RoleEvidence
  <2>4. exhausted \subseteq known /\ \A s \in exhausted : Remaining(s, snap) = 0
    BY DEF Exhausted
  <2>5. \A b \in entry.bindings : \A s \in KnownSlots(b, snap) : s \in known
    OBVIOUS
  <2>6. CASE exhausted # {}
    <3> DEFINE g == PickGoverning(exhausted, snap)
    <3>1. g \in exhausted
      <4> HIDE DEF exhausted, known
      <4>1. exhausted \in SUBSET Slots /\ \A s \in exhausted : Remaining(s, snap) \in 0..100
        BY <2>1, <2>4
      <4> QED BY <2>6, <4>1, GoverningIsOne
    <3> HIDE DEF exhausted, known, reasons, g
    <3>2. a = [state |-> "unavailable", label |-> "unavailable", penalty |-> 10000, effective |-> 0, scopes |-> entry.bindings,
               governing |-> [slot |-> g, remaining |-> 0], strategic |-> Null, tactical |-> Null, codes |-> reasons \cup {"capacity_exhausted"}]
      BY <2>3, <2>6, <2>4, <3>1 DEF Evidence, g
    <3>3. [slot |-> g, remaining |-> 0] \in Evidences /\ [slot |-> g, remaining |-> 0] # Null /\ \E b \in entry.bindings : g \in SlotsOfScope(b)
      BY <2>1, <2>4, <3>1, SentinelAssumption DEF Evidences
    <3>4. Penalty(0) = 10000 /\ Label(0) = "unavailable"
      BY DEF Penalty, Label
    <3> HIDE DEF a
    <3>7. a \in Assessments
      BY <2>0, <2>2, <3>2, <3>3 DEF Assessments, Labels, Reasons
    <3>6. a \in Assessments /\ a # Raised
      BY <3>7, SentinelAssumption
    <3>5. AssessmentAccepted(a)
      <4> QED BY <3>6, <3>2, <3>3, <3>4, <2>0 DEF AssessmentAccepted
    <3> QED BY <3>2, <3>5, <3>6 DEF Sound, a
  <2>7. CASE exhausted = {} /\ reasons # {}
    <3>1. a = UnknownAssessment(reasons, entry.bindings)
      BY <2>3, <2>7
    <3>2. \A b \in entry.bindings : \A s \in KnownSlots(b, snap) : Remaining(s, snap) > 0
      BY <2>7, <2>1, <2>5 DEF Exhausted
    <3> HIDE DEF reasons, a
    <3>4. a \in Assessments
      BY <2>0, <3>1, <2>2 DEF UnknownAssessment, Assessments, Labels, Reasons
    <3>3. a \in Assessments /\ a # Raised
      BY <3>4, SentinelAssumption
    <3> QED BY <3>1, <3>2, <3>3, <2>0, <2>2, <2>7 DEF Sound, AssessmentAccepted, UnknownAssessment, a
  <2>8. CASE exhausted = {} /\ reasons = {}
    <3>1. known # {}
      <4>1. PICK b \in entry.bindings : TRUE
        BY <2>0
      <4>2. BindingReasons(b, snap) = {}
        BY <2>8
      <4>3. KnownSlots(b, snap) # {}
        BY <4>2 DEF BindingReasons, KnownSlots
      <4> QED BY <4>3
    <3>2. \A s \in known : Remaining(s, snap) \in 1..100
      BY <2>8, <2>1 DEF Exhausted
    <3> HIDE DEF known, reasons, exhausted
    <3>3. known \in SUBSET Slots
      BY <2>1
    <3>4. /\ strategic # Null => /\ strategic.slot \in known /\ strategic.remaining \in 1..100
                                 /\ WindowRole(SlotOf[strategic.slot].resource, SlotOf[strategic.slot].kind) = Strategic
          /\ tactical # Null => /\ tactical.slot \in known /\ tactical.remaining \in 1..100
                                /\ WindowRole(SlotOf[tactical.slot].resource, SlotOf[tactical.slot].kind) = Tactical
          /\ strategic # Null \/ tactical # Null
      BY <3>1, <3>2, <3>3, EvidenceOfRole, RolesAreTwo
    <3>12. strategic \in Evidences \cup {Null} /\ tactical \in Evidences \cup {Null}
      BY <3>2, <3>3, EvidenceOfRole
    <3> HIDE DEF strategic, tactical
    <3>5. effective \in 1..100 /\ (strategic = Null => effective = tactical.remaining)
      <4> DEFINE t == IF tactical = Null THEN Null ELSE tactical.remaining
                 u == IF strategic = Null THEN Null ELSE strategic.remaining
      <4>1. t \in 1..100 \cup {Null} /\ u \in 1..100 \cup {Null} /\ (t # Null \/ u # Null) /\ (strategic = Null => u = Null /\ t = tactical.remaining)
        BY <3>4, SentinelAssumption
      <4> HIDE DEF t, u
      <4>2. Blend(t, u) \in 1..100 /\ (u = Null => Blend(t, u) = t)
        BY <4>1, BlendIsBetween
      <4> QED BY <4>1, <4>2 DEF t, u
    <3>6. a = [state |-> "known", label |-> Label(effective), penalty |-> Penalty(effective),
               effective |-> effective, scopes |-> entry.bindings,
               governing |-> IF strategic # Null THEN strategic ELSE tactical,
               strategic |-> strategic, tactical |-> tactical, codes |-> {}]
      BY <2>3, <2>8, <3>1
    <3>7. Penalty(effective) \in Nat
      BY <3>5, PenaltyIsNat
    <3>8. \A b \in entry.bindings : \A s \in KnownSlots(b, snap) : Remaining(s, snap) > 0
      BY <2>5, <3>2
    <3>9. effective = Blend(IF tactical = Null THEN Null ELSE tactical.remaining, IF strategic = Null THEN Null ELSE strategic.remaining)
      OBVIOUS
    <3> HIDE DEF effective, a
    <3>13. a \in Assessments
      BY <2>0, <3>4, <3>5, <3>6, <3>7, <3>12 DEF Assessments, Label, Labels, Reasons
    <3>11. a \in Assessments /\ a # Raised
      BY <3>13, SentinelAssumption
    <3>10. AssessmentAccepted(a)
      <4>2. \E b \in a.scopes : a.governing.slot \in SlotsOfScope(b)
        BY <2>1, <3>4, <3>6
      <4>3. a.governing # Null /\ (a.strategic = Null => a.governing.remaining = a.effective)
        BY <3>4, <3>5, <3>6
      <4> QED BY <3>11, <4>2, <4>3, <2>0, <3>4, <3>5, <3>6, <3>9 DEF AssessmentAccepted
    <3> QED BY <3>6, <3>7, <3>8, <3>10, <3>11 DEF Sound, a
  <2> QED BY <2>6, <2>7, <2>8
<1> QED BY <1>1, <1>2

-----------------------------------------------------------------------------
(* One model's gates. *)

\* policy.py: what a mode makes of an assessment.
LEMMA CapacityIsSound ==
    ASSUME NEW mode \in {"degraded", "blocked"}, NEW a, a.state \in {"known", "unavailable", "unknown"}
    PROVE  LET u == UnknownCapacity(mode, a)
           IN /\ u \in Capacities /\ UnknownCapacityAccepted(u)
              /\ u.eligible => a.state # "unavailable"
<1> DEFINE u == UnknownCapacity(mode, a)
<1>1. u \in {[mode |-> mode, eligible |-> TRUE, degraded |-> FALSE, codes |-> {}],
            [mode |-> mode, eligible |-> FALSE, degraded |-> FALSE, codes |-> {"capacity_exhausted"}],
            [mode |-> "degraded", eligible |-> TRUE, degraded |-> TRUE, codes |-> {"unknown_capacity_degraded"}],
            [mode |-> mode, eligible |-> FALSE, degraded |-> FALSE, codes |-> {"unknown_capacity_blocked"}]}
  BY DEF UnknownCapacity
<1>2. u.eligible => a.state # "unavailable"
  BY DEF UnknownCapacity
<1> HIDE DEF u
<1>3. u \in Capacities
  <2> DEFINE Sets == SUBSET {"capacity_exhausted", "unknown_capacity_degraded", "unknown_capacity_blocked"}
  <2>1. {} \in Sets /\ {"capacity_exhausted"} \in Sets /\ {"unknown_capacity_degraded"} \in Sets /\ {"unknown_capacity_blocked"} \in Sets
    OBVIOUS
  <2> HIDE DEF Sets
  <2> DEFINE All == [mode : {"degraded", "blocked"}, eligible : BOOLEAN, degraded : BOOLEAN, codes : Sets]
  <2>3. /\ [mode |-> mode, eligible |-> TRUE, degraded |-> FALSE, codes |-> {}] \in All
        /\ [mode |-> mode, eligible |-> FALSE, degraded |-> FALSE, codes |-> {"capacity_exhausted"}] \in All
        /\ [mode |-> "degraded", eligible |-> TRUE, degraded |-> TRUE, codes |-> {"unknown_capacity_degraded"}] \in All
        /\ [mode |-> mode, eligible |-> FALSE, degraded |-> FALSE, codes |-> {"unknown_capacity_blocked"}] \in All
    BY <2>1
  <2> HIDE DEF All
  <2>4. u \in All
    BY <1>1, <2>3
  <2>2. u \in [mode : {"degraded", "blocked"}, eligible : BOOLEAN, degraded : BOOLEAN, codes : Sets]
    BY <2>4 DEF All
  <2> QED BY <2>2 DEF Capacities, Sets
<1>4. UnknownCapacityAccepted(u)
  BY <1>1 DEF UnknownCapacityAccepted
<1> QED BY <1>2, <1>3, <1>4 DEF u

\* policy.py: what a mode makes of the unused resets.
LEMMA ReplenishmentIsSound ==
    ASSUME NEW mode \in {"ignore", "advisory", "recoverable"}, NEW count \in Nat \cup {Null}
    PROVE  LET rep == Replenishment(mode, count)
           IN rep \in Replenishments /\ ReplenishmentAccepted(rep)
<1> DEFINE rep == Replenishment(mode, count)
<1>1. CASE mode = "ignore" \/ count = Null
  <2>1. rep = [mode |-> mode, visible |-> FALSE, count |-> Null, recoverable |-> FALSE, human |-> FALSE, codes |-> {}]
    BY <1>1 DEF Replenishment
  <2> HIDE DEF rep
  <2> QED BY <2>1 DEF Replenishments, ReplenishmentAccepted, rep
<1>2. CASE mode = "recoverable" /\ count # Null /\ count > 0
  <2>1. rep = [mode |-> mode, visible |-> TRUE, count |-> count, recoverable |-> TRUE, human |-> TRUE,
               codes |-> {"replenishment_available", "replenishment_recoverable"}]
    BY <1>2 DEF Replenishment
  <2> HIDE DEF rep
  <2>2. rep \in Replenishments
    BY <1>2, <2>1 DEF Replenishments
  <2>3. ReplenishmentAccepted(rep)
    BY <1>2, <2>1 DEF ReplenishmentAccepted
  <2> QED BY <2>2, <2>3 DEF rep
<1>3. CASE mode \in {"advisory", "recoverable"} /\ count # Null /\ ~(mode = "recoverable" /\ count > 0)
  <2>1. rep = [mode |-> mode, visible |-> TRUE, count |-> count, recoverable |-> FALSE, human |-> FALSE,
               codes |-> IF count > 0 THEN {"replenishment_available"} ELSE {}]
    BY <1>3 DEF Replenishment
  <2> HIDE DEF rep
  <2> QED BY <1>3, <2>1 DEF Replenishments, ReplenishmentAccepted, rep
<1> QED BY <1>1, <1>2, <1>3

\* policy.py: the windows of a rule, and what a rule that neither fails nor blocks has seen.
Reserved(rule, snap) == {s \in KnownSlots(rule.scope, snap) : SlotOf[s].kind = rule.kind /\ SlotOf[s].resource = rule.resource}

\* policy.py: evaluate_reservation makes what its constructor accepts, and a rule that lets a model pass has seen its windows at the threshold.
LEMMA ReservationIsSound ==
    ASSUME NEW snap, Readable(snap), NEW rule, rule.below \in 1..100, NEW level
    PROVE  LET d == EvaluateReservation(rule, snap, level)
           IN /\ d \in Reservations /\ ReservationAccepted(d)
              /\ d.state # "unknown" /\ d.blocked # TRUE /\ level < rule.level =>
                    Reserved(rule, snap) # {} /\ \A s \in Reserved(rule, snap) : Remaining(s, snap) >= rule.below
<1> DEFINE d == EvaluateReservation(rule, snap, level)
           slots == {s \in SlotsOfScope(rule.scope) :
                       /\ SlotOf[s].resource = rule.resource /\ SlotOf[s].kind = rule.kind
                       /\ Remaining(s, snap) # NoWindow}
           least == Min({Remaining(s, snap) : s \in slots})
           triggered == least < rule.below
           blocked == Reserves(rule, triggered, level)
<1>1. CASE \/ snap[rule.scope.provider] = Null \/ snap[rule.scope.provider].status # "ok"
           \/ \E s \in slots : Remaining(s, snap) = Unknown
           \/ slots = {}
  <2>1. \E cause \in {"reservation_scope_snapshot_missing", "reservation_scope_snapshot_not_ok", "reservation_window_missing", "reservation_percentage_unknown"} :
           d = ReservationUnknown(cause)
    BY <1>1 DEF EvaluateReservation
  <2> HIDE DEF d
  <2> QED BY <2>1 DEF ReservationUnknown, Reservations, ReservationAccepted, d
<1>2. CASE /\ snap[rule.scope.provider] # Null /\ snap[rule.scope.provider].status = "ok"
           /\ \A s \in slots : Remaining(s, snap) # Unknown
           /\ slots # {}
  <2>1. d = [state |-> "known", triggered |-> triggered, blocked |-> blocked, remaining |-> least,
             codes |-> IF ~triggered THEN {}
                       ELSE {"reservation_triggered", IF blocked THEN "reservation_blocked" ELSE "reservation_permitted_by_task_level"}]
    BY <1>2 DEF EvaluateReservation
  <2>2. slots = Reserved(rule, snap)
    BY <1>2 DEF Reserved, KnownSlots, Remaining, SlotsOfScope
  <2>3. \A s \in slots : Remaining(s, snap) \in 0..100
    BY <2>2, KnownIsPercentage DEF Reserved
  <2> HIDE DEF slots
  <2>4. least \in 0..100 /\ \A s \in slots : least <= Remaining(s, snap)
    <3> DEFINE T == {Remaining(s, snap) : s \in slots}
    <3>1. T \subseteq 0..100 /\ T # {}
      BY <1>2, <2>3
    <3> HIDE DEF T
    <3>2. Min(T) \in T /\ \A y \in T : Min(T) <= y
      BY <3>1, LeastExists, T \subseteq Nat
    <3> QED BY <3>1, <3>2 DEF T
  <2> HIDE DEF least
  <2>5. triggered \in BOOLEAN /\ blocked \in BOOLEAN /\ (blocked => triggered) /\ (~triggered <=> least >= rule.below)
        /\ (level < rule.level => (blocked <=> triggered))
    BY <2>4 DEF Reserves
  <2> HIDE DEF triggered, blocked, d
  <2>6. d \in Reservations
    BY <2>1, <2>4, <2>5 DEF Reservations
  <2>7. ReservationAccepted(d)
    <3>1. CASE ~triggered
      <4>1. blocked = FALSE /\ triggered = FALSE
        BY <2>5, <3>1
      <4>2. d = [state |-> "known", triggered |-> FALSE, blocked |-> FALSE, remaining |-> least, codes |-> {}]
        BY <2>1, <4>1
      <4> QED BY <4>2, <2>4 DEF ReservationAccepted
    <3>2. CASE triggered /\ blocked
      <4>2. d = [state |-> "known", triggered |-> TRUE, blocked |-> TRUE, remaining |-> least, codes |-> {"reservation_triggered", "reservation_blocked"}]
        BY <2>1, <2>5, <3>2
      <4> QED BY <4>2, <2>4 DEF ReservationAccepted
    <3>3. CASE triggered /\ ~blocked
      <4>2. d = [state |-> "known", triggered |-> TRUE, blocked |-> FALSE, remaining |-> least,
                 codes |-> {"reservation_triggered", "reservation_permitted_by_task_level"}]
        BY <2>1, <2>5, <3>3
      <4> QED BY <4>2, <2>4 DEF ReservationAccepted
    <3> QED BY <3>1, <3>2, <3>3
  <2>8. ASSUME d.blocked # TRUE, level < rule.level
        PROVE  Reserved(rule, snap) # {} /\ \A s \in Reserved(rule, snap) : Remaining(s, snap) >= rule.below
    <3>1. ~blocked
      BY <2>1, <2>5, <2>8
    <3>2. least >= rule.below
      BY <3>1, <2>5, <2>8
    <3> QED BY <1>2, <2>2, <2>3, <2>4, <3>2
  <2> QED BY <2>6, <2>7, <2>8 DEF d
<1> QED BY <1>1, <1>2

-----------------------------------------------------------------------------
(* One candidate. *)

Codes == (UNION {StageReasons(gate) : gate \in Stages}) \cup {"replenishment_recoverable"}

\* What the constructors of the inputs make of them.
InputsSound(inp) ==
    Readable(inp.snap) /\ PolicyTyped(inp.pol) /\ SelectorPolicyAccepted(inp.pol) /\ ContextTyped(inp.now, inp.resets)

\* What a candidate that passed every gate may rely on.
Allowed(c, inp) ==
    /\ inp.elig[c.provider] \in {Null, "eligible"}
    /\ FirstActive(inp.pol.blackouts, c, inp.now) = Null
    /\ c.bindings # Null => \A b \in c.bindings : \A s \in KnownSlots(b, inp.snap) : Remaining(s, inp.snap) > 0
    /\ \A r \in inp.pol.reservations :
          c.bindings # Null /\ r.scope \in c.bindings /\ inp.req.level < r.level =>
             Reserved(r, inp.snap) # {} /\ \A s \in Reserved(r, inp.snap) : Remaining(s, inp.snap) >= r.below

\* The parts of an evaluation.
Parts(a, u, rs, rep) ==
    /\ a \in Assessments /\ AssessmentAccepted(a) /\ (a.state = "known" => a.penalty \in Nat)
    /\ u \in Capacities /\ UnknownCapacityAccepted(u)
    /\ rs \subseteq Reservations /\ \A d \in rs : ReservationAccepted(d)
    /\ rep \in Replenishments /\ ReplenishmentAccepted(rep)

\* What is known of every evaluation.
Evaluated(e) ==
    /\ e \in Evaluations /\ EvaluationAccepted(e)
    /\ e.scarcity # Null /\ e.scarcity.state = "known" => e.scarcity.penalty \in Nat

\* An absent value is none of the values it stands for the absence of.
LEMMA NullIsNoPart ==
    /\ Null \notin Stages /\ Null \notin Assessments /\ Null \notin Capacities /\ Null \notin Evaluations /\ Null \notin BOOLEAN
  BY SentinelAssumption

\* selector.py: an exclusion by one of the first gates is what the constructor of an evaluation accepts.
LEMMA ExcludedIsEvaluated ==
    ASSUME NEW entry, entry.id \in Nat, NEW gate \in Stages, NEW codes \in SUBSET Codes, StageReasons(gate) \cap codes # {}
    PROVE  Evaluated(Excluded(entry, gate, codes))
<1> DEFINE e == Excluded(entry, gate, codes)
<1>1. e = [id |-> entry.id, eligible |-> FALSE, stage |-> gate, codes |-> codes, degraded |-> FALSE, happy |-> FALSE, short |-> FALSE,
           scarcity |-> Null, unknown |-> Null, reservations |-> {}, replenishment |-> Null]
  BY DEF Excluded
<1> HIDE DEF e
<1>2. e \in Evaluations
  BY <1>1 DEF Evaluations, Codes
<1>3. EvaluationAccepted(e)
  BY <1>1, NullIsNoPart DEF EvaluationAccepted
<1> QED BY <1>1, <1>2, <1>3 DEF Evaluated, e

\* selector.py: so is one by the capacity or a reservation.
LEMMA CapacityExcludedIsEvaluated ==
    ASSUME NEW entry, entry.id \in Nat, NEW gate \in Stages, NEW codes \in SUBSET Codes, StageReasons(gate) \cap codes # {},
           NEW a, NEW u, NEW rs, NEW rep, Parts(a, u, rs, rep)
    PROVE  Evaluated(ExcludedOnCapacity(entry, gate, codes, a, u, rs, rep))
<1> DEFINE e == ExcludedOnCapacity(entry, gate, codes, a, u, rs, rep)
<1>1. e = [id |-> entry.id, eligible |-> FALSE, stage |-> gate, codes |-> codes, degraded |-> FALSE, happy |-> FALSE, short |-> FALSE,
           scarcity |-> a, unknown |-> u, reservations |-> rs, replenishment |-> rep]
  <2> DEFINE x == [id |-> entry.id, eligible |-> FALSE, stage |-> gate, codes |-> codes, degraded |-> FALSE, happy |-> FALSE, short |-> FALSE,
                   scarcity |-> Null, unknown |-> Null, reservations |-> {}, replenishment |-> Null]
  <2>1. e = [x EXCEPT !.scarcity = a, !.unknown = u, !.reservations = rs, !.replenishment = rep]
    BY Zenon DEF ExcludedOnCapacity, Excluded
  <2> HIDE DEF e
  <2> QED BY <2>1
<1> HIDE DEF e
<1>2. e \in Evaluations
  BY <1>1 DEF Evaluations, Codes, Parts
<1>3. EvaluationAccepted(e)
  BY <1>1, NullIsNoPart DEF EvaluationAccepted, Parts
<1> QED BY <1>1, <1>2, <1>3 DEF Evaluated, Parts, e

\* selector.py: so is the evaluation of a candidate that passed.
LEMMA EligibleIsEvaluated ==
    ASSUME NEW entry, entry.id \in Nat, NEW happy \in BOOLEAN, NEW short \in BOOLEAN,
           NEW a, NEW u, NEW rs, NEW rep, Parts(a, u, rs, rep), short => a.state = "known" /\ a.tactical # Null
    PROVE  Evaluated([id |-> entry.id, eligible |-> TRUE, stage |-> Null, codes |-> {}, degraded |-> u.degraded, happy |-> happy, short |-> short,
                      scarcity |-> a, unknown |-> u, reservations |-> rs, replenishment |-> rep])
<1> DEFINE e == [id |-> entry.id, eligible |-> TRUE, stage |-> Null, codes |-> {}, degraded |-> u.degraded, happy |-> happy, short |-> short,
                 scarcity |-> a, unknown |-> u, reservations |-> rs, replenishment |-> rep]
<1>1. u.degraded \in BOOLEAN
  BY DEF Parts, Capacities
<1>2. e \in Evaluations
  BY <1>1 DEF Evaluations, Codes, Parts
<1>3. EvaluationAccepted(e)
  BY NullIsNoPart DEF EvaluationAccepted, Parts
<1> QED BY <1>2, <1>3 DEF Evaluated, Parts

\* What reads a stage is one of its reasons.
LEMMA CodesOfStages ==
    ASSUME NEW gate \in Stages
    PROVE  StageReasons(gate) \subseteq Codes
  BY DEF Codes

\* policy.py: rules that are kept were evaluated, each as its constructor accepts it.
LEMMA RulesAreSound ==
    ASSUME NEW snap, Readable(snap), NEW rules, \A r \in rules : ReservationRuleAccepted(r), NEW level
    PROVE  LET rs == {EvaluateReservation(r, snap, level) : r \in rules}
           IN  /\ rs \subseteq Reservations /\ \A d \in rs : ReservationAccepted(d)
               /\ \A r \in rules : EvaluateReservation(r, snap, level).state # "unknown" /\ EvaluateReservation(r, snap, level).blocked # TRUE
                                   /\ level < r.level =>
                     Reserved(r, snap) # {} /\ \A s \in Reserved(r, snap) : Remaining(s, snap) >= r.below
<1>1. ASSUME NEW r \in rules
      PROVE  LET d == EvaluateReservation(r, snap, level)
             IN /\ d \in Reservations /\ ReservationAccepted(d)
                /\ d.state # "unknown" /\ d.blocked # TRUE /\ level < r.level =>
                      Reserved(r, snap) # {} /\ \A s \in Reserved(r, snap) : Remaining(s, snap) >= r.below
  <2>1. r.below \in 1..100
    BY <1>1 DEF ReservationRuleAccepted
  <2> QED BY <2>1, ReservationIsSound
<1> QED BY <1>1

\* selector.py: a candidate's evaluation is what its constructor accepts, and none is eligible that a signal, a spent window, a reservation
\* or a blackout speaks against.
LEMMA CandidateIsSound ==
    ASSUME NEW c, EntryTyped(c), EntryAccepted(c), NEW inp, InputsSound(inp)
    PROVE  LET e == EvaluateCandidate(c, inp)
           IN  Evaluated(e) /\ e.id = c.id /\ (e.eligible => Allowed(c, inp))
<1> DEFINE a == AssessScarcity(c, inp.snap)
           u == UnknownCapacity(inp.pol.mode, a)
           rep == Replenishment(inp.pol.replenishment, inp.resets[c.provider])
           applicable == {r \in inp.pol.reservations : c.bindings # Null /\ r.scope \in c.bindings}
           rs == {EvaluateReservation(r, inp.snap, inp.req.level) : r \in applicable}
           happy == FirstHappyHour(inp.pol.happyHours, c, inp.now) # Null
           short == a.state = "known" /\ a.tactical # Null /\ a.tactical.remaining < inp.pol.floor
           e == EvaluateCandidate(c, inp)
<1>1. /\ Readable(inp.snap) /\ inp.pol.mode \in {"degraded", "blocked"} /\ inp.pol.replenishment \in {"ignore", "advisory", "recoverable"}
      /\ inp.resets[c.provider] \in Nat \cup {Null} /\ \A r \in inp.pol.reservations : ReservationRuleAccepted(r)
      /\ c.id \in Nat
  BY DEF EntryTyped, InputsSound, PolicyTyped, ContextTyped, SelectorPolicyAccepted, UserPolicyAccepted
<1>2. Sound(a, c, inp.snap)
  BY <1>1, AssessmentIsSound
<1> HIDE DEF a
<1>3. u \in Capacities /\ UnknownCapacityAccepted(u) /\ (u.eligible => a.state # "unavailable")
  BY <1>1, <1>2, CapacityIsSound DEF Sound
<1>4. rep \in Replenishments /\ ReplenishmentAccepted(rep)
  BY <1>1, ReplenishmentIsSound
<1>5. /\ rs \subseteq Reservations /\ \A d \in rs : ReservationAccepted(d)
      /\ (\A d \in rs : d.state # "unknown" /\ d.blocked # TRUE) =>
            \A r \in applicable : inp.req.level < r.level =>
                Reserved(r, inp.snap) # {} /\ \A s \in Reserved(r, inp.snap) : Remaining(s, inp.snap) >= r.below
  <2>1. \A r \in applicable : ReservationRuleAccepted(r)
    BY <1>1
  <2> HIDE DEF applicable
  <2>2. /\ rs \subseteq Reservations /\ \A d \in rs : ReservationAccepted(d)
        /\ \A r \in applicable :
              EvaluateReservation(r, inp.snap, inp.req.level).state # "unknown" /\ EvaluateReservation(r, inp.snap, inp.req.level).blocked # TRUE
              /\ inp.req.level < r.level =>
                    Reserved(r, inp.snap) # {} /\ \A s \in Reserved(r, inp.snap) : Remaining(s, inp.snap) >= r.below
    <3> DEFINE snap == inp.snap
               level == inp.req.level
    <3>1. Readable(snap)
      BY <1>1
    <3> HIDE DEF snap, level
    <3>2. LET every == {EvaluateReservation(r, snap, level) : r \in applicable}
          IN  /\ every \subseteq Reservations /\ \A d \in every : ReservationAccepted(d)
              /\ \A r \in applicable : EvaluateReservation(r, snap, level).state # "unknown" /\ EvaluateReservation(r, snap, level).blocked # TRUE
                                          /\ level < r.level =>
                     Reserved(r, snap) # {} /\ \A s \in Reserved(r, snap) : Remaining(s, snap) >= r.below
      BY <2>1, <3>1, RulesAreSound
    <3> QED BY <3>2 DEF snap, level
  <2>3. \A r \in applicable : EvaluateReservation(r, inp.snap, inp.req.level) \in rs
    OBVIOUS
  <2> HIDE DEF rs
  <2> QED BY <2>2, <2>3
<1>6. Parts(a, u, rs, rep)
  BY <1>2, <1>3, <1>4, <1>5 DEF Parts, Sound
<1>7. e = IF inp.elig[c.provider] \notin {Null, "eligible"}
          THEN Excluded(c, "execution", {EligibilityCode(inp.elig[c.provider])})
          ELSE IF c.id \in inp.blocked \/ FirstActive(inp.pol.blackouts, c, inp.now) # Null
          THEN Excluded(c, "policy_blackout", {"policy_blocked"})
          ELSE IF HardFailures(inp.req, c) # {} THEN Excluded(c, "hard_constraint", {"hard_constraint_failed"})
          ELSE IF CapabilityFailures(inp.req, c) # {} THEN Excluded(c, "capability", {"capability_failed"})
          ELSE IF ~u.eligible
          THEN ExcludedOnCapacity(c, "capacity",
                   {IF a.state = "unavailable" THEN "capacity_unavailable" ELSE "capacity_unknown_blocked"}
                   \cup (IF a.state = "unavailable" /\ rep.recoverable /\ rep.human THEN {"replenishment_recoverable"} ELSE {}),
                   a, u, {}, rep)
          ELSE IF \E d \in rs : d.state = "unknown"
          THEN ExcludedOnCapacity(c, "reservation", {"reservation_unknown"}, a, u, rs, rep)
          ELSE IF \E d \in rs : d.blocked = TRUE
          THEN ExcludedOnCapacity(c, "reservation", {"reservation_blocked"}, a, u, rs, rep)
          ELSE [id |-> c.id, eligible |-> TRUE, stage |-> Null, codes |-> {}, degraded |-> u.degraded, happy |-> happy, short |-> short,
                scarcity |-> a, unknown |-> u, reservations |-> rs, replenishment |-> rep]
  BY Zenon DEF EvaluateCandidate, CandidateVerdict, a
<1> HIDE DEF u, rep, rs, e
<1>20. ASSUME NEW gate \in Stages, NEW codes \in SUBSET Codes, StageReasons(gate) \cap codes # {},
              e = Excluded(c, gate, codes)
       PROVE  Evaluated(e) /\ e.id = c.id /\ e.eligible = FALSE
  <2>1. Evaluated(e)
    BY <1>1, <1>20, ExcludedIsEvaluated
  <2> QED BY <1>20, <2>1 DEF Excluded
<1>21. ASSUME NEW gate \in Stages, NEW codes \in SUBSET Codes, StageReasons(gate) \cap codes # {}, NEW some \in SUBSET rs,
              e = ExcludedOnCapacity(c, gate, codes, a, u, some, rep)
       PROVE  Evaluated(e) /\ e.id = c.id /\ e.eligible = FALSE
  <2>0. Parts(a, u, some, rep)
    BY <1>6, <1>21 DEF Parts
  <2>1. Evaluated(e)
    BY <1>1, <1>21, <2>0, CapacityExcludedIsEvaluated
  <2> QED BY <1>21, <2>1 DEF ExcludedOnCapacity, Excluded
<1>8. CASE inp.elig[c.provider] \notin {Null, "eligible"}
  <2>1. {EligibilityCode(inp.elig[c.provider])} \in SUBSET StageReasons("execution")
    BY DEF EligibilityCode, StageReasons
  <2>2. e = Excluded(c, "execution", {EligibilityCode(inp.elig[c.provider])})
    BY <1>7, <1>8
  <2>3. "execution" \in Stages /\ {EligibilityCode(inp.elig[c.provider])} \in SUBSET Codes
    BY <2>1, CodesOfStages DEF Stages
  <2> QED BY <2>1, <2>2, <2>3, <1>20 DEF e
<1>9. CASE inp.elig[c.provider] \in {Null, "eligible"} /\ FirstActive(inp.pol.blackouts, c, inp.now) # Null
  <2>2. e = Excluded(c, "policy_blackout", {"policy_blocked"})
    BY <1>7, <1>9
  <2>1. {"policy_blocked"} = StageReasons("policy_blackout") /\ "policy_blackout" \in Stages
    BY DEF StageReasons, Stages
  <2> QED BY <2>1, <2>2, CodesOfStages, <1>20 DEF e
<1> DEFINE Open == inp.elig[c.provider] \in {Null, "eligible"} /\ FirstActive(inp.pol.blackouts, c, inp.now) = Null
<1>10. CASE Open /\ c.id \in inp.blocked
  <2>2. e = Excluded(c, "policy_blackout", {"policy_blocked"})
    BY <1>7, <1>10
  <2>1. {"policy_blocked"} = StageReasons("policy_blackout") /\ "policy_blackout" \in Stages
    BY DEF StageReasons, Stages
  <2> QED BY <2>1, <2>2, CodesOfStages, <1>20 DEF e
<1>11. CASE Open /\ c.id \notin inp.blocked /\ HardFailures(inp.req, c) # {}
  <2>2. e = Excluded(c, "hard_constraint", {"hard_constraint_failed"})
    BY <1>7, <1>11
  <2>1. {"hard_constraint_failed"} = StageReasons("hard_constraint") /\ "hard_constraint" \in Stages
    BY DEF StageReasons, Stages
  <2> QED BY <2>1, <2>2, CodesOfStages, <1>20 DEF e
<1>12. CASE Open /\ c.id \notin inp.blocked /\ HardFailures(inp.req, c) = {} /\ CapabilityFailures(inp.req, c) # {}
  <2>2. e = Excluded(c, "capability", {"capability_failed"})
    BY <1>7, <1>12
  <2>1. {"capability_failed"} = StageReasons("capability") /\ "capability" \in Stages
    BY DEF StageReasons, Stages
  <2> QED BY <2>1, <2>2, CodesOfStages, <1>20 DEF e
<1> DEFINE Passes == Open /\ c.id \notin inp.blocked /\ HardFailures(inp.req, c) = {} /\ CapabilityFailures(inp.req, c) = {}
<1>13. CASE Passes /\ ~u.eligible
  <2> DEFINE codes == {IF a.state = "unavailable" THEN "capacity_unavailable" ELSE "capacity_unknown_blocked"}
                      \cup (IF a.state = "unavailable" /\ rep.recoverable /\ rep.human THEN {"replenishment_recoverable"} ELSE {})
  <2>2. e = ExcludedOnCapacity(c, "capacity", codes, a, u, {}, rep)
    BY <1>7, <1>13
  <2>3. "capacity" \in Stages /\ StageReasons("capacity") = {"capacity_unavailable", "capacity_unknown_blocked"}
    BY DEF Stages, StageReasons
  <2>5. {"capacity_unavailable", "capacity_unknown_blocked", "replenishment_recoverable"} \subseteq Codes
    <3>1. StageReasons("capacity") \subseteq Codes
      BY <2>3, CodesOfStages
    <3>2. "replenishment_recoverable" \in Codes
      BY DEF Codes
    <3> QED BY <2>3, <3>1, <3>2
  <2>4. codes \in SUBSET Codes /\ StageReasons("capacity") \cap codes # {}
    BY <2>3, <2>5
  <2>6. {} \in SUBSET rs
    OBVIOUS
  <2> HIDE DEF codes
  <2>7. Evaluated(e) /\ e.id = c.id /\ e.eligible = FALSE
    BY <2>2, <2>3, <2>4, <2>6, <1>21
  <2> QED BY <2>7 DEF e
<1>14. CASE Passes /\ u.eligible /\ \E d \in rs : d.state = "unknown"
  <2>2. e = ExcludedOnCapacity(c, "reservation", {"reservation_unknown"}, a, u, rs, rep)
    BY <1>7, <1>14
  <2>1. "reservation_unknown" \in StageReasons("reservation") /\ "reservation" \in Stages
    BY DEF StageReasons, Stages
  <2> QED BY <2>1, <2>2, CodesOfStages, <1>21 DEF e
<1>15. CASE Passes /\ u.eligible /\ (\A d \in rs : d.state # "unknown") /\ \E d \in rs : d.blocked = TRUE
  <2>2. e = ExcludedOnCapacity(c, "reservation", {"reservation_blocked"}, a, u, rs, rep)
    BY <1>7, <1>15
  <2>1. "reservation_blocked" \in StageReasons("reservation") /\ "reservation" \in Stages
    BY DEF StageReasons, Stages
  <2> QED BY <2>1, <2>2, CodesOfStages, <1>21 DEF e
<1>16. CASE Passes /\ u.eligible /\ \A d \in rs : d.state # "unknown" /\ d.blocked # TRUE
  <2>1. e = [id |-> c.id, eligible |-> TRUE, stage |-> Null, codes |-> {}, degraded |-> u.degraded, happy |-> happy, short |-> short,
             scarcity |-> a, unknown |-> u, reservations |-> rs, replenishment |-> rep]
    BY <1>7, <1>16
  <2>2. happy \in BOOLEAN /\ short \in BOOLEAN /\ (short => a.state = "known" /\ a.tactical # Null)
    BY Zenon
  <2>6. e.id = c.id
    BY <2>1
  <2> HIDE DEF happy, short
  <2>3. Evaluated(e)
    BY <1>1, <1>6, <2>1, <2>2, EligibleIsEvaluated
  <2>4. c.bindings # Null => \A b \in c.bindings : \A s \in KnownSlots(b, inp.snap) : Remaining(s, inp.snap) > 0
    BY <1>2, <1>3, <1>16 DEF Sound
  <2>5. Allowed(c, inp)
    BY <1>5, <1>16, <2>4 DEF Allowed
  <2> QED BY <2>3, <2>5, <2>6 DEF e
<1> QED BY <1>8, <1>9, <1>10, <1>11, <1>12, <1>13, <1>14, <1>15, <1>16

-----------------------------------------------------------------------------
(* The ranking. *)

\* The first n parts of the keys are the same within L, and L's come before all others by one of them.
Layer(E, key, L, n) ==
    /\ L \subseteq E /\ L # {}
    /\ \A e \in L, f \in L : \A j \in 1..n : key[e][j] = key[f][j]
    /\ \A e \in L, f \in E \ L : \E i \in 1..n : key[e][i] < key[f][i] /\ \A j \in 1..(i - 1) : key[e][j] = key[f][j]

\* Among those that are the same in n parts, the least in the next part.
LEMMA NextLayer ==
    ASSUME NEW top \in Nat, NEW E, NEW key \in [E -> [1..top -> Nat]], NEW n \in 0..top - 1, NEW L, Layer(E, key, L, n)
    PROVE  \E M : Layer(E, key, M, n + 1)
<1> DEFINE k == [e \in L |-> key[e][n + 1]]
           M == LeastOf(L, k)
<1>1. L \subseteq E /\ L # {} /\ n + 1 \in 1..top
  BY DEF Layer
<1>2. \A e \in L : k[e] \in Nat /\ k[e] = key[e][n + 1]
  BY <1>1
<1> HIDE DEF k
<1>3. /\ M # {} /\ M \subseteq L
      /\ \A e \in M, f \in M : k[e] = k[f]
      /\ \A e \in M, f \in L \ M : k[e] < k[f]
  BY <1>1, <1>2, LeastOnes
<1> HIDE DEF M
<1>4. ASSUME NEW e \in M, NEW f \in M, NEW j \in 1..(n + 1) PROVE key[e][j] = key[f][j]
  <2>1. CASE j = n + 1
    BY <1>2, <1>3, <2>1
  <2>2. CASE j # n + 1
    BY <1>3, <2>2, j \in 1..n DEF Layer
  <2> QED BY <2>1, <2>2
<1>5. ASSUME NEW e \in M, NEW f \in E \ M
      PROVE  \E i \in 1..(n + 1) : key[e][i] < key[f][i] /\ \A j \in 1..(i - 1) : key[e][j] = key[f][j]
  <2>1. CASE f \in L
    <3>1. key[e][n + 1] < key[f][n + 1]
      BY <1>2, <1>3, <1>5, <2>1
    <3>2. \A j \in 1..(n + 1 - 1) : key[e][j] = key[f][j]
      BY <1>3, <2>1 DEF Layer
    <3> QED BY <3>1, <3>2
  <2>2. CASE f \notin L
    <3>1. PICK i \in 1..n : key[e][i] < key[f][i] /\ \A j \in 1..(i - 1) : key[e][j] = key[f][j]
      BY <1>3, <1>5, <2>2 DEF Layer
    <3> QED BY <3>1
  <2> QED BY <2>1, <2>2
<1>6. Layer(E, key, M, n + 1)
  BY <1>1, <1>3, <1>4, <1>5 DEF Layer
<1> QED BY <1>6

\* Keys whose last parts differ are ordered, so one comes first.
LEMMA FirstOfAll ==
    ASSUME NEW top \in 1..10, NEW E, E # {}, NEW key \in [E -> [1..top -> Nat]], \A e \in E, f \in E : key[e][top] = key[f][top] => e = f
    PROVE  \E e \in E : \A f \in E \ {e} : Before(key[e], key[f])
<1>0. \E L : Layer(E, key, L, 0)
  BY DEF Layer
<1> DEFINE Reached(n) == \E L : Layer(E, key, L, n)
<1>n. ASSUME NEW n \in 0..top - 1, Reached(n) PROVE Reached(n + 1)
  <2>1. PICK L : Layer(E, key, L, n)
    BY <1>n
  <2>2. top \in Nat
    OBVIOUS
  <2> QED BY <2>1, <2>2, NextLayer
<1>1. 1 <= top => Reached(1)
  BY <1>0, <1>n, 0 + 1 = 1
<1>2. 2 <= top => Reached(2)
  BY <1>1, <1>n, 1 + 1 = 2
<1>3. 3 <= top => Reached(3)
  BY <1>2, <1>n, 2 + 1 = 3
<1>4. 4 <= top => Reached(4)
  BY <1>3, <1>n, 3 + 1 = 4
<1>5. 5 <= top => Reached(5)
  BY <1>4, <1>n, 4 + 1 = 5
<1>6. 6 <= top => Reached(6)
  BY <1>5, <1>n, 5 + 1 = 6
<1>7. 7 <= top => Reached(7)
  BY <1>6, <1>n, 6 + 1 = 7
<1>8. 8 <= top => Reached(8)
  BY <1>7, <1>n, 7 + 1 = 8
<1>9. 9 <= top => Reached(9)
  BY <1>8, <1>n, 8 + 1 = 9
<1>10. 10 <= top => Reached(10)
  BY <1>9, <1>n, 9 + 1 = 10
<1>11. Reached(top)
  BY <1>1, <1>2, <1>3, <1>4, <1>5, <1>6, <1>7, <1>8, <1>9, <1>10
<1>12. PICK L : Layer(E, key, L, top)
  BY <1>11
<1>13. PICK e \in E : e \in L
  BY <1>12 DEF Layer
<1>14. \A f \in L : f = e
  BY <1>12, <1>13 DEF Layer
<1>15. \A f \in E \ {e} : Before(key[e], key[f])
  <2> SUFFICES ASSUME NEW f \in E \ {e} PROVE Before(key[e], key[f])
    OBVIOUS
  <2>1. DOMAIN key[e] = 1..top
    OBVIOUS
  <2>2. \E i \in 1..top : key[e][i] < key[f][i] /\ \A j \in 1..(i - 1) : key[e][j] = key[f][j]
    <3>1. f \in E \ L
      BY <1>14
    <3> QED BY <1>12, <1>13, <3>1 DEF Layer
  <2> QED BY <2>1, <2>2 DEF Before
<1> QED BY <1>15

\* Where a value is found in a sequence.
LEMMA IndexIsNat ==
    ASSUME NEW q, NEW S, q \in Seq(S), NEW x, \E i \in DOMAIN q : q[i] = x
    PROVE  Index(q, x) \in Nat
<1>1. Index(q, x) \in DOMAIN q
  BY DEF Index
<1>2. DOMAIN q \subseteq Nat
  OBVIOUS
<1> QED BY <1>1, <1>2

\* selector.py: the key of an evaluated candidate is made of numbers and ends in its identity.
LEMMA KeyIsNumbers ==
    ASSUME NEW e, Evaluated(e), NEW c, EntryTyped(c), NEW preference \in Seq(Nat)
    PROVE  RankingKey(e, c, preference) \in [1..8 -> Nat] /\ RankingKey(e, c, preference)[8] = e.id
<1> DEFINE known == e.scarcity # Null /\ e.scarcity.state = "known"
           preferred == \E i \in DOMAIN preference : preference[i] = e.id
           k1 == IF known THEN 0 ELSE 1
           k2 == IF e.happy THEN 0 ELSE 1
           k3 == LeastUsedFirst(e, known)
           k4 == IF c.effort = Null THEN 1 ELSE 0
           k5 == IF c.effort = Null THEN 0 ELSE Index(Efforts, c.effort)
           k6 == IF preferred THEN 0 ELSE 1
           k7 == IF preferred THEN Index(preference, e.id) ELSE 0
<1>1. k1 \in Nat /\ k2 \in Nat /\ k4 \in Nat /\ k6 \in Nat
  OBVIOUS
<1>2. e.id \in Nat
  BY DEF Evaluated, Evaluations
<1>3. k3 \in Nat
  BY DEF Evaluated, LeastUsedFirst
<1>5. k5 \in Nat
  <2>1. c.effort # Null => \E i \in DOMAIN Efforts : Efforts[i] = c.effort
    BY DEF EntryTyped
  <2>2. Efforts \in Seq(STRING)
    BY EffortAssumption
  <2> QED BY <2>1, <2>2, IndexIsNat
<1>7. k7 \in Nat
  BY IndexIsNat
<1>8. RankingKey(e, c, preference) = <<k1, k2, k3, k4, k5, k6, k7, e.id>>
  BY Zenon DEF RankingKey
<1> HIDE DEF k1, k2, k3, k4, k5, k6, k7
<1> DEFINE x == <<k1, k2, k3, k4, k5, k6, k7, e.id>>
           id == e.id
<1>9. x \in [1..8 -> Nat] /\ x[8] = id
  <2>1. id \in Nat
    BY <1>2
  <2> HIDE DEF id
  <2>2. <<k1, k2, k3, k4, k5, k6, k7, id>> \in [1..8 -> Nat] /\ <<k1, k2, k3, k4, k5, k6, k7, id>>[8] = id
    BY <1>1, <2>1, <1>3, <1>5, <1>7
  <2> QED BY <2>2 DEF id
<1>10. RankingKey(e, c, preference) = x
  BY <1>8
<1> HIDE DEF x
<1> QED BY <1>9, <1>10

-----------------------------------------------------------------------------
(* Rules and the instants they name. *)

\* policy.py: _weekly_window_contains finds every instant a rule names, also after midnight of the day it starts on.
LEMMA NamedIsContained ==
    ASSUME NEW rule, rule.offset \in Int, rule.start \in 0..DayLen - 1, rule.end \in 0..DayLen - 1, NEW instant \in Int, NamedBy(rule, instant)
    PROVE  WeeklyWindowContains(rule, instant)
<1> DEFINE local == instant + rule.offset
           length == IF rule.start < rule.end THEN rule.end - rule.start ELSE rule.end + DayLen - rule.start
           q == local \div DayLen
           r == local % DayLen
           start == rule.start
           end == rule.end
<1>1. local \in Int /\ start \in 0..DayLen - 1 /\ end \in 0..DayLen - 1 /\ DayLen \in Nat \ {0} /\ WeekLen \in Nat \ {0}
  BY WeekAssumption
<1>2. PICK back \in 0..1 : /\ (q - back) % WeekLen \in rule.days
                           /\ (q - back) * DayLen + start <= local /\ local < (q - back) * DayLen + start + length
  BY DEF NamedBy
<1>3. length = IF start < end THEN end - start ELSE end + DayLen - start
  OBVIOUS
<1>4. WeeklyWindowContains(rule, instant) <=>
          IF start < end THEN q % WeekLen \in rule.days /\ start <= r /\ r < end
          ELSE \/ q % WeekLen \in rule.days /\ r >= start
               \/ ((q % WeekLen) + WeekLen - 1) % WeekLen \in rule.days /\ r < end
  BY DEF WeeklyWindowContains, LocalTime, MinuteOf, Weekday, DateOf
<1> HIDE DEF length, start, end, local
<1>5. q \in Int /\ r \in 0..DayLen - 1 /\ local = DayLen * q + r
  BY <1>1
<1> HIDE DEF q, r
<1>6. CASE back = 0
  <2>1. (q - back) * DayLen = DayLen * q /\ DayLen * q \in Int /\ q - back = q
    BY <1>1, <1>5, <1>6
  <2> DEFINE d == DayLen * q
  <2>2. d \in Int /\ d + start <= d + r /\ d + r < d + start + length /\ q % WeekLen \in rule.days
    BY <1>2, <1>5, <2>1
  <2> HIDE DEF d
  <2>3. start <= r /\ (start < end => r < end)
    BY <1>1, <1>3, <1>5, <2>2
  <2> QED BY <1>4, <2>2, <2>3, <1>1, <1>5
<1>7. CASE back = 1
  <2>1. (q - back) * DayLen = DayLen * q - DayLen /\ DayLen * q \in Int
    BY <1>1, <1>5, <1>7
  <2> DEFINE d == DayLen * q
  <2>2. d \in Int /\ d + r < d - DayLen + start + length /\ (q - 1) % WeekLen \in rule.days
    BY <1>2, <1>5, <1>7, <2>1
  <2> HIDE DEF d
  <2>3. ~(start < end) /\ r < end
    BY <1>1, <1>3, <1>5, <2>2
  <2>4. ((q % WeekLen) + WeekLen - 1) % WeekLen = (q - 1) % WeekLen
    BY <1>1, <1>5, DayBefore
  <2> QED BY <1>4, <2>2, <2>3, <2>4
<1> QED BY <1>2, <1>6, <1>7

\* policy.py: with no active rule, no rule for the entry names the instant.
LEMMA NoRuleIsActive ==
    ASSUME NEW rules, Typed(rules), NEW c, NEW instant \in Int, FirstActive(rules, c, instant) = Null, NEW i \in DOMAIN rules
    PROVE  ~(Matches(rules[i].target, c) /\ NamedBy(rules[i], instant) /\ DateBoundsContain(rules[i], instant))
<1> SUFFICES ASSUME Matches(rules[i].target, c), NamedBy(rules[i], instant), DateBoundsContain(rules[i], instant) PROVE FALSE
  OBVIOUS
<1> DEFINE hits == {j \in DOMAIN rules : Matches(rules[j].target, c) /\ ActiveAt(rules[j], instant)}
<1>1. rules[i].offset \in Int /\ rules[i].start \in 0..DayLen - 1 /\ rules[i].end \in 0..DayLen - 1
  BY DEF Typed
<1> DEFINE rule == rules[i]
<1>2. WeeklyWindowContains(rule, instant)
  <2>1. rule.offset \in Int /\ rule.start \in 0..DayLen - 1 /\ rule.end \in 0..DayLen - 1 /\ NamedBy(rule, instant)
    BY <1>1
  <2> HIDE DEF rule
  <2> QED BY <2>1, NamedIsContained
<1>3. i \in hits
  BY <1>2 DEF ActiveAt
<1>4. hits \subseteq Nat
  BY DEF Typed
<1>5. FirstActive(rules, c, instant) = Min(hits)
  BY <1>3 DEF FirstActive
<1> HIDE DEF hits
<1>6. Min(hits) \in Nat
  BY <1>3, <1>4, LeastExists
<1> QED BY <1>5, <1>6, SentinelAssumption, NullAssumption

-----------------------------------------------------------------------------
(* What the providers say, as snapshots. *)

Percentages == {NoWindow, Unknown} \cup 0..100

\* capacity.py: what a reading makes of a used percentage.
LEMMA PairIsPercentage ==
    ASSUME NEW used
    PROVE  UsedPair(used) \in {Unknown} \cup 0..100
<1>1. CASE used \in 0..100
  BY <1>1 DEF UsedPair
<1>2. CASE used \notin 0..100
  BY <1>2 DEF UsedPair
<1> QED BY <1>1, <1>2

\* capacity.py: the snapshot of a failure is one its constructor accepts.
LEMMA FailureIsAccepted ==
    ASSUME NEW status
    PROVE  /\ SnapshotAccepted(Failure(status)) /\ Failure(status).status = status
           /\ status \in {"unavailable", "auth_required", "unsupported", "schema_changed", "unknown"} => Failure(status) \in Snapshots
  BY DEF SnapshotAccepted, Failure, NoWindows, Snapshots

\* A bucket that could be read: every window it has was understood.
LEMMA BucketIsRead ==
    ASSUME NEW q, NEW full, QuotaSnapshotState(q, full) # Null
    PROVE  LET state == QuotaSnapshotState(q, full)
           IN  /\ DOMAIN state.wins = {i \in WindowSlots : q.wins[i] # Null}
               /\ \A i \in DOMAIN state.wins : /\ ParseWindow(q.wins[i]) # Null /\ state.wins[i] = ParseWindow(q.wins[i])
                                               /\ state.wins[i].remaining \in Percentages
<1> DEFINE present == {i \in WindowSlots : q.wins[i] # Null}
           blocked == \/ q.reached
                      \/ q.spend = "true"
                      \/ q.individual = "exhausted"
                      \/ full /\ \E i \in present : ParseWindow(q.wins[i]).remaining = 0
           state == QuotaSnapshotState(q, full)
<1>1. state = [wins |-> [i \in present |-> ParseWindow(q.wins[i])], blocked |-> blocked] /\ \A i \in present : ParseWindow(q.wins[i]) # Null
  BY DEF QuotaSnapshotState
<1> HIDE DEF state, blocked
<1>2. state.wins = [i \in present |-> ParseWindow(q.wins[i])]
  BY <1>1
<1>3. ASSUME NEW w, ParseWindow(w) # Null PROVE ParseWindow(w).remaining \in Percentages
  <2>1. ParseWindow(w).remaining = UsedPair(w.used)
    BY <1>3 DEF ParseWindow
  <2> QED BY <2>1, PairIsPercentage DEF Percentages
<1> QED BY <1>1, <1>2, <1>3 DEF state

\* The windows of a bucket by their slots.
LEMMA EmittedIsRead ==
    ASSUME NEW q, NEW full, NEW scope, QuotaSnapshotState(q, full) # Null,
           \A i \in WindowSlots : q.wins[i] # Null /\ ParseWindow(q.wins[i]) # Null => HasSlot(scope, i, q.wins[i])
    PROVE  LET em == Emitted(QuotaSnapshotState(q, full), scope)
           IN  \A s \in DOMAIN em : em[s] \in Percentages
<1> DEFINE state == QuotaSnapshotState(q, full)
           em == Emitted(state, scope)
<1>1. /\ DOMAIN state.wins = {i \in WindowSlots : q.wins[i] # Null}
      /\ \A i \in DOMAIN state.wins : /\ ParseWindow(q.wins[i]) # Null /\ state.wins[i] = ParseWindow(q.wins[i])
                                      /\ state.wins[i].remaining \in Percentages
  BY BucketIsRead
<1> HIDE DEF state
<1>2. ASSUME NEW i \in DOMAIN state.wins
      PROVE  SlotOf[SlotFor("openai", scope, i, state.wins[i].kind)].id = i
  <2>1. HasSlot(scope, i, q.wins[i]) /\ state.wins[i] = ParseWindow(q.wins[i])
    BY <1>1
  <2> QED BY <2>1 DEF HasSlot, SlotFor
<1>3. DOMAIN em = {SlotFor("openai", scope, i, state.wins[i].kind) : i \in DOMAIN state.wins}
      /\ \A s \in DOMAIN em : em[s] = state.wins[SlotOf[s].id].remaining
  BY DEF Emitted
<1> HIDE DEF em
<1>4. \A s \in DOMAIN em : em[s] \in Percentages
  BY <1>1, <1>2, <1>3
<1> QED BY <1>4 DEF em, state

\* openai_codex.py: whatever the app server answers, the snapshot is one its constructor accepts.
LEMMA CodexSnapshotIsAccepted ==
    ASSUME NEW raw \in CodexAnswers
    PROVE  /\ SnapshotAccepted(ParseCodexRateLimits(raw)) /\ ParseCodexRateLimits(raw).status \in {"ok", "unknown", "schema_changed"}
           /\ ParseCodexRateLimits(raw) \in Snapshots
<1> DEFINE main == QuotaSnapshotState(raw.main, FALSE)
           extra == IF raw.extra = Null THEN Null ELSE QuotaSnapshotState(raw.extra, TRUE)
           em(strip) == IF strip THEN EmittedStripped(main, Codex) ELSE Emitted(main, Codex)
           ex(strip) == IF extra = Null THEN << >>
                        ELSE IF strip THEN EmittedStripped(extra, Bucket) ELSE Emitted(extra, Bucket)
           wins(strip) == [s \in Slots |-> IF s \in DOMAIN em(strip) THEN em(strip)[s]
                                           ELSE IF s \in DOMAIN ex(strip) THEN ex(strip)[s] ELSE NoWindow]
           status == IF \A i \in DOMAIN main.wins : main.wins[i].remaining = Unknown THEN "unknown" ELSE "ok"
           all == ParseCodexRateLimits(raw)
<1>1. \/ all = Failure("schema_changed")
      \/ all = Failure("unknown")
      \/ main # Null /\ all = [status |-> "unknown", wins |-> wins(TRUE)]
      \/ main # Null /\ all = [status |-> status, wins |-> wins(FALSE)]
  BY DEF ParseCodexRateLimits
<1>2. ASSUME main # Null, NEW strip \in BOOLEAN PROVE wins(strip) \in [Slots -> Percentages]
  <2>1. \A s \in DOMAIN em(strip) : em(strip)[s] \in Percentages
    <3>1. CASE strip
      BY <3>1 DEF EmittedStripped, Percentages
    <3>2. CASE ~strip
      <4>1. \A i \in WindowSlots : raw.main.wins[i] # Null /\ ParseWindow(raw.main.wins[i]) # Null => HasSlot(Codex, i, raw.main.wins[i])
        BY SlotsCover
      <4> DEFINE q == raw.main
      <4>2. QuotaSnapshotState(q, FALSE) # Null
        BY <1>2
      <4>3. \A i \in WindowSlots : q.wins[i] # Null /\ ParseWindow(q.wins[i]) # Null => HasSlot(Codex, i, q.wins[i])
        BY <4>1
      <4> HIDE DEF q
      <4>4. \A s \in DOMAIN Emitted(QuotaSnapshotState(q, FALSE), Codex) : Emitted(QuotaSnapshotState(q, FALSE), Codex)[s] \in Percentages
        BY <4>2, <4>3, EmittedIsRead
      <4> QED BY <3>2, <4>4 DEF q
    <3> QED BY <3>1, <3>2
  <2>2. \A s \in DOMAIN ex(strip) : ex(strip)[s] \in Percentages
    <3>0. CASE extra = Null
      BY <3>0
    <3>1. CASE extra # Null /\ strip
      BY <3>1 DEF EmittedStripped, Percentages
    <3>2. CASE extra # Null /\ ~strip
      <4>1. raw.extra # Null /\ \A i \in WindowSlots : raw.extra.wins[i] # Null /\ ParseWindow(raw.extra.wins[i]) # Null => HasSlot(Bucket, i, raw.extra.wins[i])
        BY <3>2, SlotsCover
      <4> DEFINE q == raw.extra
      <4>2. QuotaSnapshotState(q, TRUE) # Null /\ extra = QuotaSnapshotState(q, TRUE)
        BY <3>2, <4>1
      <4>3. \A i \in WindowSlots : q.wins[i] # Null /\ ParseWindow(q.wins[i]) # Null => HasSlot(Bucket, i, q.wins[i])
        BY <4>1
      <4> HIDE DEF q
      <4>4. \A s \in DOMAIN Emitted(QuotaSnapshotState(q, TRUE), Bucket) : Emitted(QuotaSnapshotState(q, TRUE), Bucket)[s] \in Percentages
        BY <4>2, <4>3, EmittedIsRead
      <4>5. ex(strip) = Emitted(extra, Bucket)
        BY <3>2
      <4> QED BY <4>2, <4>4, <4>5
    <3> QED BY <3>0, <3>1, <3>2
  <2> HIDE DEF em, ex
  <2> QED BY <2>1, <2>2 DEF Percentages
<1> HIDE DEF wins, status, all, main
<1>3. status \in {"ok", "unknown"}
  BY DEF status
<1>4. CASE all \in {Failure("schema_changed"), Failure("unknown")}
  BY <1>4, FailureIsAccepted DEF all
<1>5. CASE main # Null /\ all = [status |-> "unknown", wins |-> wins(TRUE)]
  <2>1. wins(TRUE) \in [Slots -> Percentages]
    BY <1>2, <1>5
  <2>2. all.wins = wins(TRUE) /\ all.status \in {"ok", "unknown"}
    BY <1>5
  <2>3. SnapshotAccepted(all)
    BY <2>1, <2>2 DEF SnapshotAccepted, Percentages
  <2>4. all \in Snapshots
    BY <2>1, <1>5 DEF Snapshots, Percentages
  <2> QED BY <2>2, <2>3, <2>4 DEF all
<1>6. CASE main # Null /\ all = [status |-> status, wins |-> wins(FALSE)]
  <2>1. wins(FALSE) \in [Slots -> Percentages]
    BY <1>2, <1>6
  <2>2. all.wins = wins(FALSE) /\ all.status \in {"ok", "unknown"}
    BY <1>3, <1>6
  <2>3. SnapshotAccepted(all)
    BY <2>1, <2>2 DEF SnapshotAccepted, Percentages
  <2>4. all \in Snapshots
    BY <2>1, <1>3, <1>6 DEF Snapshots, Percentages
  <2> QED BY <2>2, <2>3, <2>4 DEF all
<1> QED BY <1>1, <1>4, <1>5, <1>6

\* zai.py: the same of the other provider.
LEMMA ZaiSnapshotIsAccepted ==
    ASSUME NEW answer \in ZaiAnswers
    PROVE  SnapshotAccepted(ZaiObservation(answer)) /\ ZaiObservation(answer) \in Snapshots
<1> DEFINE kept == {l \in answer.limits : ParseLimit(l) # Null}
           at(l) == SlotFor("zai", Plan, l.type, ParseLimit(l).kind)
           wins == [s \in Slots |-> IF \E l \in kept : at(l) = s THEN ParseLimit(CHOOSE l \in kept : at(l) = s).remaining ELSE NoWindow]
           all == ZaiObservation(answer)
<1> DEFINE Kinds == {"unavailable", "auth_required", "unsupported", "schema_changed", "unknown"}
<1>1. \/ \E status \in Kinds : all = Failure(status)
      \/ all = [status |-> "ok", wins |-> wins]
  BY SelectionAssumption DEF ZaiObservation, ParseZaiQuota
<1>2. wins \in [Slots -> Percentages]
  <2> SUFFICES ASSUME NEW s \in Slots PROVE wins[s] \in Percentages
    OBVIOUS
  <2>1. CASE \E l \in kept : at(l) = s
    <3> DEFINE l == CHOOSE l \in kept : at(l) = s
    <3>1. l \in kept /\ wins[s] = ParseLimit(l).remaining
      BY <2>1
    <3>2. ParseLimit(l) # Null
      BY <3>1
    <3> HIDE DEF l
    <3>3. ParseLimit(l).remaining = UsedPair(l.used)
      BY <3>2 DEF ParseLimit
    <3> QED BY <3>1, <3>3, PairIsPercentage DEF Percentages
  <2>2. CASE ~\E l \in kept : at(l) = s
    BY <2>2 DEF Percentages
  <2> QED BY <2>1, <2>2
<1> HIDE DEF wins, all
<1>3. CASE \E status \in Kinds : all = Failure(status)
  BY <1>3, FailureIsAccepted DEF all
<1>4. CASE all = [status |-> "ok", wins |-> wins]
  <2>1. all \in Snapshots
    BY <1>2, <1>4 DEF Snapshots, Percentages
  <2>2. all.wins = wins /\ all.status = "ok"
    BY <1>4
  <2>3. SnapshotAccepted(all)
    BY <1>2, <2>2 DEF SnapshotAccepted, Percentages
  <2> QED BY <2>1, <2>3 DEF all
<1> QED BY <1>1, <1>3, <1>4

-----------------------------------------------------------------------------
(* What the providers say, as eligibility. *)

\* openai_eligibility.py: a report says "eligible" of an answer without a signal only, and is one its constructor accepts.
LEMMA EligibleIsUnforbidden ==
    ASSUME NEW raw
    PROVE  LET report == ParseCodexEligibility(raw)
           IN  /\ EligibilityAccepted(report)
               /\ report.state \in {"eligible", "unknown", "policy_blocked", "allowance_unavailable"}
               /\ report.state = "eligible" => ~ForbiddenBy(raw)
<1>1. ASSUME NEW reasons
      PROVE  /\ Report(reasons).codes = reasons /\ (Report(reasons).state = "eligible" <=> reasons = {})
             /\ Report(reasons).state \in {"eligible", "unknown", "policy_blocked", "allowance_unavailable"}
  BY DEF Report
<1>2. CASE ParseCodexEligibility(raw) = Report({"telemetry_invalid"})
  BY <1>1, <1>2 DEF EligibilityAccepted
<1>3. CASE ParseCodexEligibility(raw) = Report(EligibilityReasons(raw))
  <2>1. EligibilityReasons(raw) = {} => ~ForbiddenBy(raw)
    <3> SUFFICES ASSUME EligibilityReasons(raw) = {} PROVE ~ForbiddenBy(raw)
      OBVIOUS
    <3>1. raw.main.credits # "purchased" /\ ~raw.upsell /\ ~raw.main.reached /\ raw.main.individual # "exhausted"
          /\ ~\E i \in WindowSlots : raw.main.wins[i] # Null /\ raw.main.wins[i].used = 100
      BY DEF EligibilityReasons
    <3>2. raw.ordinary = "true"
      BY DEF EligibilityReasons
    <3>3. raw.main.spend # "true"
      BY DEF EligibilityReasons
    <3> QED BY <3>1, <3>2, <3>3 DEF ForbiddenBy
  <2> QED BY <1>1, <1>3, <2>1 DEF EligibilityAccepted
<1> QED BY <1>2, <1>3 DEF ParseCodexEligibility

\* eligibility.py: a failure says nothing of the execution.
LEMMA FailureSaysNothing ==
    ASSUME NEW status
    PROVE  EligibilityAccepted(FailureEligibility(status)) /\ FailureEligibility(status).state = "unknown"
  BY DEF EligibilityAccepted, FailureEligibility

-----------------------------------------------------------------------------
(* The decision. *)

\* A decision that names the first of the eligible evaluations, if there is any, and parts the others.
KeyOf(E, e, pol) == RankingKey(e, CHOOSE c \in E : c.id = e.id, pol.preference)
Picked(d, E, evals, pol) ==
    LET eligible == {e \in evals : e.eligible}
    IN  /\ d.alternatives = eligible \ {d.selected} /\ d.excluded = evals \ eligible
        /\ d.closest \subseteq d.excluded /\ d.recoverable \subseteq d.excluded
        /\ d.degraded = (d.selected # Null /\ d.selected.degraded)
        /\ d.codes = IF d.selected = Null THEN {"no_eligible_candidate"}
                     ELSE {"selected_balanced"} \cup (IF d.selected.degraded THEN {"selected_degraded_capacity"} ELSE {})
        /\ d.selected = Null <=> eligible = {}
        /\ d.selected # Null => /\ d.selected \in eligible
                                /\ \A f \in eligible \ {d.selected} : Before(KeyOf(E, d.selected, pol), KeyOf(E, f, pol))

\* selector.py: _assemble_evaluations picks one of the eligible evaluations: the order of the ranking keys always has a first.
LEMMA OneIsSelected ==
    ASSUME NEW E, CatalogAccepted(E), \A c \in E : EntryTyped(c), NEW evals, \A e \in evals : Evaluated(e) /\ \E c \in E : e.id = c.id,
           \A e \in evals, f \in evals : e.id = f.id => e = f, NEW pol, PolicyTyped(pol), NEW instant
    PROVE  Picked(AssembleEvaluations(E, evals, pol, instant), E, evals, pol)
<1> DEFINE entry(e) == CHOOSE c \in E : c.id = e.id
           key(e) == KeyOf(E, e, pol)
           eligible == {e \in evals : e.eligible}
           excluded == {e \in evals : ~e.eligible}
           selected == IF eligible = {} THEN Null ELSE CHOOSE e \in eligible : \A f \in eligible \ {e} : Before(key(e), key(f))
           closest == IF selected = Null THEN ClosestCandidates(excluded) ELSE {}
           recoverable == {e \in excluded : e.stage = "capacity" /\ e.scarcity.state = "unavailable"
                                            /\ e.replenishment.recoverable /\ e.replenishment.human}
           codes == IF selected = Null THEN {"no_eligible_candidate"}
                    ELSE {"selected_balanced"} \cup (IF selected.degraded THEN {"selected_degraded_capacity"} ELSE {})
           expired == {i \in DOMAIN pol.blackouts : ExpiredAt(pol.blackouts[i], instant)}
           degraded == selected # Null /\ selected.degraded
           d == AssembleEvaluations(E, evals, pol, instant)
<1>1. d = [selected |-> selected, alternatives |-> eligible \ {selected}, excluded |-> excluded, closest |-> closest,
           recoverable |-> recoverable, degraded |-> degraded, expired |-> expired, codes |-> codes]
  BY Zenon DEF AssembleEvaluations, KeyOf
<1>2. closest \subseteq excluded /\ recoverable \subseteq excluded
  BY DEF ClosestCandidates
<1>3. excluded = evals \ eligible
  OBVIOUS
<1>4. eligible # {} => selected \in eligible /\ \A f \in eligible \ {selected} : Before(key(selected), key(f))
  <2> SUFFICES ASSUME eligible # {} PROVE selected \in eligible /\ \A f \in eligible \ {selected} : Before(key(selected), key(f))
    OBVIOUS
  <2> DEFINE keys == [e \in eligible |-> key(e)]
  <2>0. pol.preference \in Seq(Nat)
    BY DEF PolicyTyped
  <2>1. \A e \in eligible : key(e) \in [1..8 -> Nat] /\ key(e)[8] = e.id
    <3> SUFFICES ASSUME NEW e \in eligible PROVE key(e) \in [1..8 -> Nat] /\ key(e)[8] = e.id
      OBVIOUS
    <3>1. entry(e) \in E /\ EntryTyped(entry(e)) /\ Evaluated(e)
      OBVIOUS
    <3> HIDE DEF entry
    <3>2. key(e) = RankingKey(e, entry(e), pol.preference)
      BY DEF KeyOf, entry
    <3> DEFINE preference == pol.preference
               c == entry(e)
    <3> HIDE DEF preference, c, key
    <3>3. RankingKey(e, c, preference) \in [1..8 -> Nat] /\ RankingKey(e, c, preference)[8] = e.id
      <4>1. EntryTyped(c) /\ preference \in Seq(Nat)
        BY <2>0, <3>1 DEF c, preference
      <4> QED BY <3>1, <4>1, KeyIsNumbers
    <3> QED BY <3>2, <3>3 DEF preference, c
  <2>2. \A e \in eligible, f \in eligible : e.id = f.id => e = f
    OBVIOUS
  <2> HIDE DEF key, eligible
  <2>3. keys \in [eligible -> [1..8 -> Nat]] /\ \A e \in eligible : keys[e] = key(e)
    BY <2>1
  <2>4. \A e \in eligible, f \in eligible : keys[e][8] = keys[f][8] => e = f
    BY <2>1, <2>2, <2>3
  <2> HIDE DEF keys
  <2>5. PICK e \in eligible : \A f \in eligible \ {e} : Before(keys[e], keys[f])
    BY <2>3, <2>4, FirstOfAll, 8 \in 1..10
  <2>6. \A f \in eligible \ {e} : Before(key(e), key(f))
    BY <2>3, <2>5
  <2> QED BY <2>6
<1>5. \A e \in evals : e # Null
  BY NullIsNoPart DEF Evaluated
<1>6. /\ selected = Null <=> eligible = {}
      /\ selected # Null => selected \in eligible /\ \A f \in eligible \ {selected} : Before(key(selected), key(f))
  <2> HIDE DEF key
  <2> QED BY <1>4, <1>5
<1> HIDE DEF selected, closest, recoverable, expired, degraded, d
<1>7. d.selected = selected /\ d.alternatives = eligible \ {selected} /\ d.excluded = excluded /\ d.closest = closest
      /\ d.recoverable = recoverable /\ d.degraded = degraded /\ d.codes = codes
  BY <1>1
<1> QED BY <1>2, <1>3, <1>6, <1>7 DEF d, degraded, Picked

\* selector.py: select_model decides on a model that its inputs allow, and its decision is one that its constructors accept.
LEMMA DecisionIsSound ==
    ASSUME NEW E, CatalogAccepted(E), \A c \in E : EntryTyped(c), NEW inp, InputsSound(inp)
    PROVE  LET d == SelectModel(E, inp)
           IN  /\ DecisionAccepted(d)
               /\ d.selected # Null => \E c \in E : d.selected.id = c.id /\ Allowed(c, inp)
<1> DEFINE evals == {EvaluateCandidate(c, inp) : c \in E}
           pol == inp.pol
           instant == inp.now
           d == AssembleEvaluations(E, evals, pol, instant)
           eligible == {e \in evals : e.eligible}
<1>1. ASSUME NEW c \in E
      PROVE  Evaluated(EvaluateCandidate(c, inp)) /\ EvaluateCandidate(c, inp).id = c.id
             /\ (EvaluateCandidate(c, inp).eligible => Allowed(c, inp))
  <2>1. EntryAccepted(c)
    BY DEF CatalogAccepted
  <2> QED BY <2>1, CandidateIsSound
<1>2. \A c \in E, b \in E : c.id = b.id => c = b
  BY DEF CatalogAccepted
<1>3. \A e \in evals : Evaluated(e) /\ \E c \in E : e.id = c.id /\ (e.eligible => Allowed(c, inp))
  BY <1>1
<1>4. \A e \in evals, f \in evals : e.id = f.id => e = f
  BY <1>1, <1>2
<1>5. PolicyTyped(pol)
  BY DEF InputsSound
<1>6. SelectModel(E, inp) = d
  BY Zenon DEF SelectModel
<1> HIDE DEF evals, pol, instant
<1>20. Picked(d, E, evals, pol)
  <2>1. \A e \in evals : Evaluated(e) /\ \E c \in E : e.id = c.id
    BY <1>3
  <2> QED BY <2>1, <1>4, <1>5, OneIsSelected
<1> HIDE DEF d
<1>7. /\ d.alternatives = eligible \ {d.selected} /\ d.excluded = evals \ eligible
      /\ d.closest \subseteq d.excluded /\ d.recoverable \subseteq d.excluded
      /\ d.degraded = (d.selected # Null /\ d.selected.degraded)
      /\ d.codes = IF d.selected = Null THEN {"no_eligible_candidate"}
                   ELSE {"selected_balanced"} \cup (IF d.selected.degraded THEN {"selected_degraded_capacity"} ELSE {})
      /\ d.selected = Null <=> eligible = {}
      /\ d.selected # Null => d.selected \in eligible
  BY <1>20 DEF Picked
<1>8. \A e \in {d.selected} \cup d.alternatives \cup d.excluded : e # Null => EvaluationAccepted(e)
  BY <1>3, <1>7 DEF Evaluated
<1>9. d.selected # Null => d.selected.eligible
  BY <1>7
<1>10. \A e \in d.excluded \cup d.closest \cup d.recoverable : ~e.eligible
  BY <1>7
<1>11. CASE d.selected = Null
  <2>1. d.alternatives = {} /\ ~d.degraded /\ "no_eligible_candidate" \in d.codes
    BY <1>7, <1>11
  <2>2. DecisionAccepted(d)
    BY <2>1, <1>8, <1>9, <1>10, <1>11 DEF DecisionAccepted
  <2> QED BY <1>6, <1>11, <2>2
<1>12. CASE d.selected # Null
  <2>1. "selected_balanced" \in d.codes /\ d.codes \subseteq {"selected_balanced", "selected_degraded_capacity"}
    BY <1>7, <1>12
  <2>2. d.degraded = d.selected.degraded
    <3>1. d.selected.degraded \in BOOLEAN
      BY <1>3, <1>7, <1>12 DEF Evaluated, Evaluations
    <3> QED BY <1>7, <1>12, <3>1
  <2>3. \A e \in d.alternatives : e.eligible /\ e.id # d.selected.id
    BY <1>4, <1>7, <1>12
  <2>4. DecisionAccepted(d)
    BY <2>1, <2>2, <2>3, <1>8, <1>9, <1>10, <1>12 DEF DecisionAccepted
  <2>5. \E c \in E : d.selected.id = c.id /\ Allowed(c, inp)
    BY <1>3, <1>7, <1>12
  <2> QED BY <1>6, <2>4, <2>5
<1> QED BY <1>11, <1>12

-----------------------------------------------------------------------------
(* The call. *)

\* selection_types.py: the entries of the catalog are typed.
LEMMA EntriesAreTyped == \A c \in Entries : EntryTyped(c)
  BY SelectionAssumption

\* What the states of a call are made of, conjunct by conjunct.
LEMMA CallStarts == Init => SelectionIInv
<1> SUFFICES ASSUME Init PROVE SelectionIInv
  OBVIOUS
<1>1. TypeOK
  BY SelectionAssumption DEF Init, TypeOK
<1>2. queue \in Seq(Messages)
  BY DEF Init
<1>3. AskedFacts /\ ObservedFacts /\ InputFacts /\ DecisionFacts
  BY DEF Init, AskedFacts, ObservedFacts, InputFacts, DecisionFacts, Waiting
<1> QED BY <1>1, <1>2, <1>3 DEF Init, SelectionIInv

\* An observation after a failure has no status but the failure's.
LEMMA ObservationStatus ==
    ASSUME NEW status
    PROVE  Observation(status).snapshot.status = status
  BY DEF Observation, Failure

\* The facts a step leaves alone because it leaves their variables alone.
LEMMA NothingDecided ==
    ASSUME SelectionIInv, pc \notin {"decided"}
    PROVE  decision = Null /\ simulation = Null
  BY DEF SelectionIInv, DecisionFacts

\* What every read of the queue keeps.
LEMMA QueueKept ==
    ASSUME NEW q \in Seq(Messages), Len(q) <= 2, q # <<>>
    PROVE  Tail(q) \in Seq(Messages) /\ Len(Tail(q)) <= 2 /\ Head(q) \in Messages
  OBVIOUS

\* selection_app.py: resolving the requirement, or refusing the inputs.
LEMMA ResolveStep ==
    ASSUME SelectionIInv, Resolve
    PROVE  SelectionIInv'
<1>0. decision = Null /\ simulation = Null
  BY NothingDecided DEF Resolve
<1>1. TypeOK'
  BY DEF SelectionIInv, TypeOK, Resolve, session
<1>2. (queue \in Seq(Messages))'
  BY DEF SelectionIInv, Resolve, session
<1>3. AskedFacts'
  BY DEF SelectionIInv, AskedFacts, Resolve, session, Waiting
<1>4. ObservedFacts'
  BY DEF ObservedFacts, Resolve
<1>5. InputFacts'
  BY DEF SelectionIInv, InputFacts, Resolve
<1>6. DecisionFacts'
  BY <1>0 DEF DecisionFacts, Resolve
<1> QED BY <1>1, <1>2, <1>3, <1>4, <1>5, <1>6 DEF SelectionIInv, Resolve

\* The call has no answer but a failure: it could not be started.
LEMMA UnstartedStep ==
    ASSUME SelectionIInv, NEW status \in {"unavailable", "unsupported"}, NotInstalled(status) \/ SpawnFails \/ ReaderFails
    PROVE  SelectionIInv'
<1>0. /\ pc = "discovering" /\ pc' \in {"asking", "closing"} /\ \E s \in {"unavailable", "unsupported"} : obs' = Observation(s)
      /\ UNCHANGED <<call, req, asked, queue, lines, heard, reader, zai, decision, simulation>>
      /\ child' \in {child, "running"}
  BY DEF NotInstalled, SpawnFails, ReaderFails, intake, session
<1>9. decision = Null /\ simulation = Null
  BY <1>0, NothingDecided
<1>10. PICK s \in {"unavailable", "unsupported"} : obs' = Observation(s) /\ obs'.snapshot.status = s
  BY <1>0, ObservationStatus
<1>1. TypeOK'
  BY <1>0, <1>10 DEF SelectionIInv, TypeOK, Statuses
<1>2. (queue \in Seq(Messages))'
  BY <1>0 DEF SelectionIInv
<1>3. AskedFacts'
  BY <1>0 DEF SelectionIInv, AskedFacts, Waiting
<1>4. ObservedFacts'
  BY <1>0, <1>10 DEF ObservedFacts, Failing
<1>5. InputFacts'
  BY <1>0 DEF SelectionIInv, InputFacts
<1>6. DecisionFacts'
  BY <1>0, <1>9 DEF DecisionFacts
<1> QED BY <1>0, <1>1, <1>2, <1>3, <1>4, <1>5, <1>6, <1>10 DEF SelectionIInv

\* openai_codex_acquisition.py: the app server is started.
LEMMA SpawnStep ==
    ASSUME SelectionIInv, Spawn
    PROVE  SelectionIInv'
<1>0. decision = Null /\ simulation = Null
  BY NothingDecided DEF Spawn
<1>1. TypeOK'
  BY DEF SelectionIInv, TypeOK, Spawn, intake, InitializeId
<1>2. (queue \in Seq(Messages))'
  BY DEF SelectionIInv, Spawn
<1>3. AskedFacts'
  BY DEF SelectionIInv, AskedFacts, Spawn, Waiting
<1>4. ObservedFacts'
  BY DEF ObservedFacts, Spawn
<1>5. InputFacts'
  BY DEF SelectionIInv, InputFacts, Spawn, intake
<1>6. DecisionFacts'
  BY <1>0 DEF DecisionFacts, Spawn
<1> QED BY <1>1, <1>2, <1>3, <1>4, <1>5, <1>6 DEF SelectionIInv, Spawn

\* openai_codex_acquisition.py: the reader thread reads a line or the end of the stream.
LEMMA ReadsStep ==
    ASSUME SelectionIInv, AppServerWrites
    PROVE  SelectionIInv'
<1>0. PICK kind \in {"result", "error", "internal", "malformed", "notification", "eof", "failed"}, id \in asked : Reads(kind, id)
  BY DEF AppServerWrites, Reads
<1>9. Waiting /\ decision = Null /\ simulation = Null
  BY <1>0, NothingDecided DEF Reads, Waiting
<1>10. UNCHANGED <<pc, call, req, asked, child, heard, obs, zai, decision, simulation>>
  BY <1>0 DEF Reads, intake
<1>11. \E m \in Messages : queue' = Append(queue, m)
  <2>1. asked \subseteq 1..4
    BY DEF SelectionIInv, TypeOK
  <2>2. \A k \in {"failed", "oversized", "eof"} : [kind |-> k, id |-> 0] \in Messages
    BY DEF Messages
  <2>3. [kind |-> kind, id |-> id] \in Messages
    BY <1>0, <2>1 DEF Messages
  <2> QED BY <1>0, <2>2, <2>3 DEF Reads
<1>12. Len(queue) < 2 /\ queue \in Seq(Messages)
  BY <1>0 DEF Reads, SelectionIInv
<1>13. queue' \in Seq(Messages) /\ Len(queue') <= 2
  BY <1>11, <1>12
<1>14. lines' \in 0..MaxLines /\ reader' \in {"none", "running", "stopped"}
  <2>1. lines \in 0..MaxLines /\ MaxLines \in Nat /\ reader \in {"none", "running", "stopped"}
    BY SelectionAssumption DEF SelectionIInv, TypeOK
  <2> QED BY <1>0, <2>1 DEF Reads, OverTotal
<1>1. TypeOK'
  BY <1>10, <1>13, <1>14 DEF SelectionIInv, TypeOK
<1>3. AskedFacts'
  BY <1>10 DEF SelectionIInv, AskedFacts, Waiting
<1>4. ObservedFacts'
  BY <1>9, <1>10 DEF ObservedFacts, Waiting
<1>5. InputFacts'
  BY <1>10 DEF SelectionIInv, InputFacts
<1>6. DecisionFacts'
  BY <1>9, <1>10 DEF DecisionFacts, Waiting
<1> QED BY <1>1, <1>3, <1>4, <1>5, <1>6, <1>9, <1>10, <1>13 DEF SelectionIInv, Waiting

\* openai_codex_acquisition.py: _await_response skips a message that is not the answer.
LEMMA SkipStep ==
    ASSUME SelectionIInv, Skip
    PROVE  SelectionIInv'
<1>0. /\ Waiting /\ queue # <<>> /\ queue' = Tail(queue) /\ queue \in Seq(Messages) /\ Len(queue) <= 2
      /\ UNCHANGED <<pc, call, req, asked, lines, child, reader, heard, obs, zai, decision, simulation>>
  BY DEF Skip, intake, SelectionIInv, TypeOK
<1>1. queue' \in Seq(Messages) /\ Len(queue') <= 2
  BY <1>0, QueueKept
<1>2. TypeOK'
  BY <1>0, <1>1 DEF SelectionIInv, TypeOK
<1>3. AskedFacts'
  BY <1>0 DEF SelectionIInv, AskedFacts, Waiting
<1>4. ObservedFacts'
  BY <1>0 DEF ObservedFacts, Waiting
<1>5. InputFacts'
  BY <1>0 DEF SelectionIInv, InputFacts
<1>6. DecisionFacts'
  <2>1. decision = Null /\ simulation = Null
    BY <1>0, NothingDecided DEF Waiting
  <2> QED BY <1>0, <2>1 DEF DecisionFacts, Waiting
<1> QED BY <1>0, <1>1, <1>2, <1>3, <1>4, <1>5, <1>6 DEF SelectionIInv, Waiting

\* The session ends with a failure: after an error, a damaged line, the end of the stream, a broken pipe or a deadline.
LEMMA EndsStep ==
    ASSUME SelectionIInv, Waiting, NEW status \in Failing, Ends(status), queue' \in Seq(Messages), Len(queue') <= 2,
           UNCHANGED <<call, req, lines, child, reader, zai, decision, simulation>>
    PROVE  SelectionIInv'
<1>0. /\ pc' = "closing" /\ obs' = Observation(status) /\ obs'.snapshot.status = status /\ heard = Null
      /\ UNCHANGED <<call, req, asked, lines, child, reader, heard, zai, decision, simulation>>
  BY ObservationStatus DEF Ends, SelectionIInv, AskedFacts
<1>1. TypeOK'
  BY <1>0 DEF SelectionIInv, TypeOK, Statuses, Failing
<1>3. AskedFacts'
  BY <1>0 DEF SelectionIInv, AskedFacts, Waiting
<1>4. ObservedFacts'
  BY <1>0 DEF ObservedFacts
<1>5. InputFacts'
  BY <1>0 DEF SelectionIInv, InputFacts, Waiting
<1>6. DecisionFacts'
  <2>1. decision = Null /\ simulation = Null
    BY NothingDecided DEF Waiting
  <2> QED BY <1>0, <2>1 DEF DecisionFacts
<1> QED BY <1>0, <1>1, <1>3, <1>4, <1>5, <1>6 DEF SelectionIInv

\* The next request goes out.
LEMMA SendsStep ==
    ASSUME SelectionIInv, NEW id, NEW next,
           \/ pc = "initializing" /\ id = ReadId /\ next = "reading"
           \/ pc = "reading" /\ id = RefreshId /\ next = "refreshing"
           \/ pc = "refreshing" /\ id = RetryId /\ next = "retrying",
           asked' = asked \cup {id}, pc' = next, UNCHANGED <<heard, obs>>, queue' \in Seq(Messages), Len(queue') <= 2,
           UNCHANGED <<call, req, lines, child, reader, zai, decision, simulation>>
    PROVE  SelectionIInv'
<1>0. Waiting /\ Waiting' /\ pc' \in {"reading", "refreshing", "retrying"} /\ heard = Null /\ obs = Null
  BY DEF SelectionIInv, AskedFacts, Waiting
<1>1. TypeOK'
  <2>1. id \in 1..4
    BY DEF ReadId, RefreshId, RetryId
  <2>2. asked' \subseteq 1..4
    BY <2>1 DEF SelectionIInv, TypeOK
  <2> QED BY <1>0, <2>2 DEF SelectionIInv, TypeOK
<1>3. AskedFacts'
  BY <1>0 DEF SelectionIInv, AskedFacts
<1>4. ObservedFacts'
  BY <1>0 DEF ObservedFacts
<1>5. InputFacts'
  BY <1>0 DEF SelectionIInv, InputFacts, Waiting
<1>6. DecisionFacts'
  <2>1. decision = Null /\ simulation = Null
    BY <1>0, NothingDecided DEF Waiting
  <2> QED BY <2>1 DEF DecisionFacts
<1> QED BY <1>0, <1>1, <1>3, <1>4, <1>5, <1>6 DEF SelectionIInv

\* The answer the session waits for, at a read of the limits.
LEMMA HeardStep ==
    ASSUME SelectionIInv, pc \in {"reading", "retrying"}, NEW raw \in CodexAnswers, NEW id, id = Expected, heard' = [raw |-> raw, id |-> id],
           obs' = Observed(raw), pc' = "closing", UNCHANGED asked, queue' \in Seq(Messages), Len(queue') <= 2,
           UNCHANGED <<call, req, lines, child, reader, zai, decision, simulation>>
    PROVE  SelectionIInv'
<1>0. heard' # Null /\ heard'.raw = raw /\ heard'.id = id
  <2>1. id \in Nat
    BY DEF Expected, ReadId, RetryId
  <2>2. [raw |-> raw, id |-> id] \in [raw : CodexAnswers, id : Nat]
    BY <2>1
  <2> QED BY <2>2, SentinelAssumption, NullAssumption
<1>7. obs'.snapshot.status \in {"ok", "unknown", "schema_changed"}
  BY CodexSnapshotIsAccepted DEF Observed
<1>1. TypeOK'
  BY <1>0, <1>7 DEF SelectionIInv, TypeOK, Statuses
<1>3. AskedFacts'
  <2>1. id = IF RefreshId \in asked THEN RetryId ELSE ReadId
    BY DEF SelectionIInv, AskedFacts, Expected, InitializeId, ReadId, RefreshId, RetryId
  <2> QED BY <1>0, <2>1 DEF AskedFacts, Waiting
<1>4. ObservedFacts'
  BY <1>0 DEF ObservedFacts
<1>5. InputFacts'
  BY DEF SelectionIInv, InputFacts, Waiting
<1>6. DecisionFacts'
  <2>1. decision = Null /\ simulation = Null
    BY NothingDecided DEF Waiting
  <2> QED BY <2>1 DEF DecisionFacts
<1> QED BY <1>1, <1>3, <1>4, <1>5, <1>6 DEF SelectionIInv

\* openai_codex_acquisition.py: _await_response takes the answer, and the session asks on or ends.
LEMMA TakeStep ==
    ASSUME SelectionIInv, Take
    PROVE  SelectionIInv'
<1>0. Waiting /\ queue # <<>> /\ queue' = Tail(queue) /\ UNCHANGED <<call, req, lines, child, reader, zai, decision, simulation>>
  BY DEF Take, intake
<1>1. queue' \in Seq(Messages) /\ Len(queue') <= 2
  BY <1>0, QueueKept DEF SelectionIInv, TypeOK
<1> DEFINE id == Head(queue).id
<1>2. \/ pc = "initializing" /\ SendsOrFails(ReadId, "reading")
      \/ pc = "refreshing" /\ SendsOrFails(RetryId, "retrying")
      \/ pc = "reading" /\ SendsOrFails(RefreshId, "refreshing")
      \/ \E status \in Failing : Ends(status)
      \/ /\ pc \in {"reading", "retrying"} /\ id = Expected /\ pc' = "closing" /\ UNCHANGED asked
         /\ \E raw \in CodexAnswers : heard' = [raw |-> raw, id |-> id] /\ obs' = Observed(raw)
  BY DEF Take, AfterResult, AfterError, Answers, Failing, Observed
<1>3. CASE \E status \in Failing : Ends(status)
  BY <1>0, <1>1, <1>3, EndsStep
<1>4. CASE /\ pc \in {"reading", "retrying"} /\ id = Expected /\ pc' = "closing" /\ UNCHANGED asked
           /\ \E raw \in CodexAnswers : heard' = [raw |-> raw, id |-> id] /\ obs' = Observed(raw)
  <2> HIDE DEF id
  <2> QED BY <1>0, <1>1, <1>4, HeardStep
<1>5. CASE pc = "initializing" /\ SendsOrFails(ReadId, "reading")
  <2>1. CASE Ends("unavailable")
    BY <1>3, <2>1 DEF Failing
  <2>2. CASE asked' = asked \cup {ReadId} /\ pc' = "reading" /\ UNCHANGED <<heard, obs>>
    BY <1>0, <1>1, <1>5, <2>2, SendsStep
  <2> QED BY <1>5, <2>1, <2>2 DEF SendsOrFails
<1>6. CASE pc = "refreshing" /\ SendsOrFails(RetryId, "retrying")
  <2>1. CASE Ends("unavailable")
    BY <1>3, <2>1 DEF Failing
  <2>2. CASE asked' = asked \cup {RetryId} /\ pc' = "retrying" /\ UNCHANGED <<heard, obs>>
    BY <1>0, <1>1, <1>6, <2>2, SendsStep
  <2> QED BY <1>6, <2>1, <2>2 DEF SendsOrFails
<1>7. CASE pc = "reading" /\ SendsOrFails(RefreshId, "refreshing")
  <2>1. CASE Ends("unavailable")
    BY <1>3, <2>1 DEF Failing
  <2>2. CASE asked' = asked \cup {RefreshId} /\ pc' = "refreshing" /\ UNCHANGED <<heard, obs>>
    BY <1>0, <1>1, <1>7, <2>2, SendsStep
  <2> QED BY <1>7, <2>1, <2>2 DEF SendsOrFails
<1> QED BY <1>2, <1>3, <1>4, <1>5, <1>6, <1>7

\* openai_codex_acquisition.py: a deadline ends the session.
LEMMA TimeoutStep ==
    ASSUME SelectionIInv, Timeout
    PROVE  SelectionIInv'
<1>1. Waiting /\ Ends("unavailable") /\ UNCHANGED <<call, req, queue, lines, child, reader, zai, decision, simulation>>
  BY DEF Timeout, HasDeadline, intake
<1>2. queue' \in Seq(Messages) /\ Len(queue') <= 2 /\ "unavailable" \in Failing
  BY <1>1 DEF SelectionIInv, TypeOK, Failing
<1> QED BY <1>1, <1>2, EndsStep

\* The child is gone, or the observation says so.
LEMMA ClosedStep ==
    ASSUME SelectionIInv, Reaped \/ Unreaped
    PROVE  SelectionIInv'
<1>0. /\ pc = "closing" /\ pc' = "asking" /\ asked' = {} /\ queue' = <<>> /\ lines' = 0
      /\ UNCHANGED <<call, req, heard, zai, decision, simulation>>
      /\ child' \in {"running", "dead"} /\ reader' \in {reader, "none", "stopped"}
  BY DEF Reaped, Unreaped, intake
<1>10. \/ child' = "dead" /\ obs' = obs
       \/ obs' = Observation("unavailable") /\ obs'.snapshot.status = "unavailable"
  BY ObservationStatus DEF Reaped, Unreaped
<1>9. decision = Null /\ simulation = Null
  BY <1>0, NothingDecided
<1>11. queue' \in Seq(Messages) /\ Len(queue') <= 2
  BY <1>0
<1>1. TypeOK'
  <2>1. MaxLines \in Nat
    BY SelectionAssumption
  <2> QED BY <1>0, <1>10, <1>11, <2>1 DEF SelectionIInv, TypeOK, Statuses
<1>3. AskedFacts'
  BY <1>0 DEF AskedFacts, Waiting
<1>4. ObservedFacts'
  BY <1>0, <1>10 DEF SelectionIInv, ObservedFacts, Failing
<1>5. InputFacts'
  BY <1>0 DEF SelectionIInv, InputFacts
<1>6. DecisionFacts'
  BY <1>0, <1>9 DEF DecisionFacts
<1> QED BY <1>0, <1>1, <1>3, <1>4, <1>5, <1>6, <1>10, <1>11 DEF SelectionIInv

\* zai_acquisition.py: the other provider answers.
LEMMA CollectStep ==
    ASSUME SelectionIInv, CollectZai
    PROVE  SelectionIInv'
<1>0. /\ pc = "asking" /\ pc' = "deciding" /\ zai' \in ZaiAnswers /\ zai' # Null
      /\ UNCHANGED <<call, req, asked, queue, lines, heard, child, reader, obs, decision, simulation>>
  BY SentinelAssumption, NullAssumption DEF CollectZai, intake, session
<1>9. decision = Null /\ simulation = Null
  BY <1>0, NothingDecided
<1>1. TypeOK'
  BY <1>0 DEF SelectionIInv, TypeOK
<1>2. (queue \in Seq(Messages))'
  BY <1>0 DEF SelectionIInv
<1>3. AskedFacts'
  BY <1>0 DEF SelectionIInv, AskedFacts, Waiting
<1>4. ObservedFacts'
  BY <1>0 DEF SelectionIInv, ObservedFacts
<1>5. InputFacts'
  BY <1>0 DEF SelectionIInv, InputFacts
<1>6. DecisionFacts'
  BY <1>0, <1>9 DEF DecisionFacts
<1> QED BY <1>0, <1>1, <1>2, <1>3, <1>4, <1>5, <1>6 DEF SelectionIInv

\* selection_app.py: select_from_inputs decides.
LEMMA DecideStep ==
    ASSUME SelectionIInv, SelectFromInputs
    PROVE  SelectionIInv'
<1>0. /\ pc = "deciding" /\ pc' = "decided" /\ decision' = SelectModel(Entries, Inputs) /\ simulation' = simulation
      /\ UNCHANGED <<call, req, asked, queue, lines, heard, child, reader, obs, zai>>
  BY DEF SelectFromInputs, intake, session
<1>9. simulation = Null
  BY <1>0, NothingDecided
<1>10. Inputs' = Inputs
  BY <1>0 DEF Inputs
<1>1. TypeOK'
  BY <1>0 DEF SelectionIInv, TypeOK
<1>2. (queue \in Seq(Messages))'
  BY <1>0 DEF SelectionIInv
<1>3. AskedFacts'
  BY <1>0 DEF SelectionIInv, AskedFacts, Waiting
<1>4. ObservedFacts'
  BY <1>0 DEF SelectionIInv, ObservedFacts
<1>5. InputFacts'
  BY <1>0 DEF SelectionIInv, InputFacts
<1>6. DecisionFacts'
  BY <1>0, <1>9, <1>10 DEF DecisionFacts
<1> QED BY <1>0, <1>1, <1>2, <1>3, <1>4, <1>5, <1>6 DEF SelectionIInv

\* simulation.py: simulate_from_inputs decides on what would be.
LEMMA SimulateStep ==
    ASSUME SelectionIInv, NEW o \in Overrides, SimulateFromInputs(o)
    PROVE  SelectionIInv'
<1>0. /\ pc = "decided" /\ simulation' = [overrides |-> o, result |-> SimulateSelection(Entries, Inputs, o)]
      /\ UNCHANGED <<pc, call, req, asked, queue, lines, heard, child, reader, obs, zai, decision>>
  BY DEF SimulateFromInputs, intake, session
<1>10. Inputs' = Inputs
  BY <1>0 DEF Inputs
<1>1. TypeOK'
  BY <1>0 DEF SelectionIInv, TypeOK
<1>2. (queue \in Seq(Messages))'
  BY <1>0 DEF SelectionIInv
<1>3. AskedFacts'
  BY <1>0 DEF SelectionIInv, AskedFacts, Waiting
<1>4. ObservedFacts'
  BY <1>0 DEF SelectionIInv, ObservedFacts
<1>5. InputFacts'
  BY <1>0 DEF SelectionIInv, InputFacts
<1>6. DecisionFacts'
  BY <1>0, <1>10 DEF SelectionIInv, DecisionFacts
<1> QED BY <1>0, <1>1, <1>2, <1>3, <1>4, <1>5, <1>6 DEF SelectionIInv

\* Nothing happens.
LEMMA CallStutters ==
    ASSUME SelectionIInv, UNCHANGED vars
    PROVE  SelectionIInv'
<1>0. UNCHANGED <<pc, call, req, asked, queue, lines, child, reader, heard, obs, zai, decision, simulation>>
  BY DEF vars
<1>1. Inputs' = Inputs
  BY <1>0 DEF Inputs
<1> QED BY <1>0, <1>1 DEF SelectionIInv, TypeOK, AskedFacts, ObservedFacts, InputFacts, DecisionFacts, Waiting

\* The invariant of a call is kept by every step of the call, of the app server and of the simulation.
THEOREM CallIsInductive == SelectionIInv /\ [Next]_vars => SelectionIInv'
<1> SUFFICES ASSUME SelectionIInv, [Next]_vars PROVE SelectionIInv'
  OBVIOUS
<1>1. CASE Resolve
  BY <1>1, ResolveStep
<1>2. CASE NotInstalled("unavailable") \/ NotInstalled("unsupported") \/ SpawnFails \/ ReaderFails
  BY <1>2, UnstartedStep
<1>3. CASE Spawn
  BY <1>3, SpawnStep
<1>4. CASE AppServerWrites
  BY <1>4, ReadsStep
<1>5. CASE Skip
  BY <1>5, SkipStep
<1>6. CASE Take
  BY <1>6, TakeStep
<1>7. CASE Timeout
  BY <1>7, TimeoutStep
<1>8. CASE Reaped \/ Unreaped
  BY <1>8, ClosedStep
<1>9. CASE CollectZai
  BY <1>9, CollectStep
<1>10. CASE SelectFromInputs
  BY <1>10, DecideStep
<1>11. CASE \E o \in Overrides : SimulateFromInputs(o)
  BY <1>11, SimulateStep
<1>12. CASE UNCHANGED vars
  BY <1>12, CallStutters
<1> QED BY <1>1, <1>2, <1>3, <1>4, <1>5, <1>6, <1>7, <1>8, <1>9, <1>10, <1>11, <1>12 DEF Next

-----------------------------------------------------------------------------
(* What a selection reads. *)

\* The snapshot of a provider is a record of its two parts.
IsSnapshot(s) == s \in Snapshots /\ SnapshotAccepted(s)

\* openai_codex_acquisition.py: the snapshot and the report of an observation are what their constructors accept.
LEMMA ObservationIsAccepted ==
    ASSUME SelectionIInv, pc \in {"closing", "asking", "deciding", "decided"}
    PROVE  IsSnapshot(obs.snapshot) /\ EligibilityAccepted(obs.eligibility)
<1>1. \/ \E status \in Failing : obs = Observation(status)
      \/ \E raw \in CodexAnswers : obs = Observed(raw)
  BY DEF SelectionIInv, ObservedFacts
<1>2. CASE \E status \in Failing : obs = Observation(status)
  <2>1. PICK status \in Failing : obs = Observation(status)
    BY <1>2
  <2>2. obs.snapshot = Failure(status) /\ obs.eligibility = FailureEligibility(status)
    BY <2>1 DEF Observation
  <2> QED BY <2>2, FailureIsAccepted, FailureSaysNothing DEF IsSnapshot, Failing
<1>3. CASE \E raw \in CodexAnswers : obs = Observed(raw)
  <2>1. PICK raw \in CodexAnswers : obs = Observed(raw)
    BY <1>3
  <2>2. obs.snapshot = ParseCodexRateLimits(raw) /\ obs.eligibility = ParseCodexEligibility(raw)
    BY <2>1 DEF Observed
  <2> QED BY <2>2, CodexSnapshotIsAccepted, EligibleIsUnforbidden DEF IsSnapshot
<1> QED BY <1>1, <1>2, <1>3

\* selection_app.py: select_from_inputs is given what its constructors accepted.
LEMMA InputsAreSound ==
    ASSUME SelectionIInv, pc \in {"deciding", "decided"}
    PROVE  /\ InputsSound(Inputs) /\ CatalogAccepted(Entries)
           /\ \A p \in Providers : IsSnapshot(Inputs.snap[p])
<1>1. \A p \in Providers : IsSnapshot(Inputs.snap[p])
  <2>1. IsSnapshot(obs.snapshot)
    BY ObservationIsAccepted
  <2>2. zai \in ZaiAnswers
    BY DEF SelectionIInv, TypeOK, InputFacts
  <2>3. IsSnapshot(ZaiObservation(zai))
    BY <2>2, ZaiSnapshotIsAccepted DEF IsSnapshot
  <2> QED BY <2>1, <2>3 DEF Inputs
<1>2. Readable(Inputs.snap)
  BY <1>1 DEF IsSnapshot, SnapshotAccepted, Readable
<1>3. call \in Requests /\ InputsAccepted(call)
  BY DEF SelectionIInv, TypeOK, InputFacts
<1>4. PolicyTyped(call.pol) /\ ContextTyped(call.now, call.resets)
  BY <1>3, SelectionAssumption
<1>5. Inputs.pol = call.pol /\ Inputs.now = call.now /\ Inputs.resets = call.resets
  BY DEF Inputs
<1>6. InputsSound(Inputs)
  BY <1>2, <1>3, <1>4, <1>5 DEF InputsSound, InputsAccepted
<1> QED BY <1>1, <1>3, <1>6 DEF InputsAccepted

\* selector.py: the entry of the model that was selected.
LEMMA SelectedIsThatEntry ==
    ASSUME SelectionIInv, decision # Null, decision.selected # Null
    PROVE  /\ SelectedEntry \in Entries /\ Allowed(SelectedEntry, Inputs)
           /\ pc = "decided" /\ InputsSound(Inputs)
<1>1. pc = "decided" /\ decision = SelectModel(Entries, Inputs)
  BY DEF SelectionIInv, DecisionFacts
<1>2. InputsSound(Inputs) /\ CatalogAccepted(Entries)
  BY <1>1, InputsAreSound
<1>3. PICK c \in Entries : decision.selected.id = c.id /\ Allowed(c, Inputs)
  <2> DEFINE inp == Inputs
  <2>1. InputsSound(inp) /\ decision = SelectModel(Entries, inp)
    BY <1>1, <1>2
  <2> HIDE DEF inp
  <2>2. \E c \in Entries : decision.selected.id = c.id /\ Allowed(c, inp)
    BY <1>2, <2>1, DecisionIsSound, EntriesAreTyped
  <2> QED BY <2>2 DEF inp
<1>4. SelectedEntry \in Entries /\ SelectedEntry.id = c.id
  BY <1>3 DEF SelectedEntry
<1>5. SelectedEntry = c
  BY <1>2, <1>3, <1>4 DEF CatalogAccepted
<1> QED BY <1>1, <1>2, <1>3, <1>5

\* No signal, spent window, reservation or blackout speaks against what is selected.
LEMMA AllowedInAllStates == SelectionIInv => SelectedIsAllowed
<1> SUFFICES ASSUME SelectionIInv, decision # Null, decision.selected # Null PROVE SelectedIsAllowed
  BY DEF SelectedIsAllowed, NothingForbiddenIsSelected, NothingExhaustedIsSelected, ReservationsHold, BlackoutsHold
<1> DEFINE c == SelectedEntry
<1>1. c \in Entries /\ Allowed(c, Inputs) /\ pc = "decided" /\ InputsSound(Inputs)
  BY SelectedIsThatEntry
<1> HIDE DEF c
<1>2. Inputs.pol = call.pol /\ Inputs.now = call.now /\ Inputs.req = req
  BY DEF Inputs
<1>3. NothingForbiddenIsSelected
  <2> SUFFICES ASSUME c.provider = "openai" PROVE heard # Null /\ ~ForbiddenBy(heard.raw)
    BY DEF NothingForbiddenIsSelected, c
  <2>1. Inputs.elig["openai"] = obs.eligibility.state
    BY SelectionAssumption DEF Inputs
  <2>2. obs.eligibility.state \in {Null, "eligible"}
    BY <1>1, <2>1 DEF Allowed
  <2>3. CASE \E status \in Failing : obs = Observation(status)
    <3>1. obs.eligibility.state = "unknown"
      BY <2>3, FailureSaysNothing DEF Observation
    <3> QED BY <2>2, <3>1, SentinelAssumption, NullAssumption
  <2>4. CASE \E raw \in CodexAnswers : heard # Null /\ heard.raw = raw /\ obs = Observed(raw)
    <3>1. PICK raw \in CodexAnswers : heard # Null /\ heard.raw = raw /\ obs = Observed(raw)
      BY <2>4
    <3>2. obs.eligibility = ParseCodexEligibility(raw)
      BY <3>1 DEF Observed
    <3> QED BY <2>2, <3>1, <3>2, EligibleIsUnforbidden, SentinelAssumption, NullAssumption
  <2> QED BY <1>1, <2>3, <2>4 DEF SelectionIInv, ObservedFacts
<1>4. NothingExhaustedIsSelected
  BY <1>1 DEF NothingExhaustedIsSelected, Allowed, c
<1>5. ReservationsHold
  <2> SUFFICES ASSUME NEW r \in call.pol.reservations, c.bindings # Null, r.scope \in c.bindings, req.level < r.level
               PROVE  Reserved(r, Inputs.snap) # {} /\ \A s \in Reserved(r, Inputs.snap) : Remaining(s, Inputs.snap) >= r.below
    BY DEF ReservationsHold, Reserved, c
  <2> QED BY <1>1, <1>2 DEF Allowed
<1>6. BlackoutsHold
  <2> SUFFICES ASSUME NEW i \in DOMAIN call.pol.blackouts
               PROVE  ~(Matches(call.pol.blackouts[i].target, c) /\ NamedBy(call.pol.blackouts[i], call.now)
                        /\ DateBoundsContain(call.pol.blackouts[i], call.now))
    BY DEF BlackoutsHold, c
  <2> DEFINE rules == call.pol.blackouts
             instant == call.now
  <2>1. Typed(rules) /\ instant \in Int /\ FirstActive(rules, c, instant) = Null /\ i \in DOMAIN rules
    BY <1>1, <1>2 DEF Allowed, InputsSound, PolicyTyped, ContextTyped
  <2> HIDE DEF rules, instant
  <2>2. ~(Matches(rules[i].target, c) /\ NamedBy(rules[i], instant) /\ DateBoundsContain(rules[i], instant))
    BY <2>1, NoRuleIsActive
  <2> QED BY <2>2 DEF rules, instant
<1> QED BY <1>3, <1>4, <1>5, <1>6 DEF SelectedIsAllowed

\* The invariant of a call holds in every state of it.
LEMMA SelectionStays == Spec => []SelectionIInv
<1>1. Init => SelectionIInv
  BY CallStarts
<1>2. SelectionIInv /\ [Next]_vars => SelectionIInv'
  BY CallIsInductive
<1> QED BY <1>1, <1>2, PTL DEF Spec

\* selection_app.py, selector.py: what is selected may be used, in every state of every call.
THEOREM SelectionStaysAllowed == Spec => []SelectedIsAllowed
<1>1. SelectionIInv => SelectedIsAllowed
  BY AllowedInAllStates
<1> QED BY <1>1, SelectionStays, PTL

-----------------------------------------------------------------------------
(* The simulation. *)

\* simulation.py: the snapshots with the percentages of the overrides.
Lowered(snap, overrides) ==
    [p \in Providers |->
        IF snap[p] = Null THEN Null
        ELSE [snap[p] EXCEPT !.wins = [s \in Slots |->
                IF SlotOf[s].provider = p /\ \E o \in overrides : o.slot = s
                THEN (CHOOSE o \in overrides : o.slot = s).remaining
                ELSE snap[p].wins[s]]]]

Distinct(overrides) == \A x \in overrides, y \in overrides : x.slot = y.slot => x = y

\* simulation.py: the snapshots with the percentages of the overrides are readable, and read as the overrides say.
LEMMA LoweredIsRead ==
    ASSUME NEW snap, \A p \in Providers : IsSnapshot(snap[p]), NEW o \in Overrides
    PROVE  LET f == Lowered(snap, o.percentages)
           IN  /\ f \in [Providers -> Snapshots] /\ Readable(f)
               /\ \A p \in Providers : f[p].status = snap[p].status
               /\ Distinct(o.percentages) =>
                     \A x \in o.percentages : SlotOf[x.slot].provider \in Providers /\ f[SlotOf[x.slot].provider].wins[x.slot] = x.remaining
<1> DEFINE overrides == o.percentages
           some(s) == (CHOOSE x \in overrides : x.slot = s).remaining
           wins(p) == [s \in Slots |-> IF SlotOf[s].provider = p /\ \E x \in overrides : x.slot = s THEN some(s) ELSE snap[p].wins[s]]
           f == Lowered(snap, overrides)
<1>0. \A x \in overrides : x.slot \in Slots /\ x.remaining \in 0..100
  BY SelectionAssumption
<1>1. f = [p \in Providers |-> IF snap[p] = Null THEN Null ELSE [snap[p] EXCEPT !.wins = wins(p)]]
  BY DEF Lowered
<1> HIDE DEF f
<1>2. ASSUME NEW p \in Providers PROVE wins(p) \in [Slots -> {NoWindow, Unknown} \cup 0..100]
  <2> SUFFICES ASSUME NEW s \in Slots PROVE wins(p)[s] \in {NoWindow, Unknown} \cup 0..100
    OBVIOUS
  <2>1. CASE SlotOf[s].provider = p /\ \E x \in overrides : x.slot = s
    <3>1. some(s) \in 0..100
      BY <1>0, <2>1
    <3> HIDE DEF some
    <3> QED BY <2>1, <3>1
  <2>2. CASE ~(SlotOf[s].provider = p /\ \E x \in overrides : x.slot = s)
    <3>1. snap[p].wins[s] \in {NoWindow, Unknown} \cup 0..100
      BY DEF IsSnapshot, SnapshotAccepted
    <3> HIDE DEF some
    <3> QED BY <2>2, <3>1
  <2> QED BY <2>1, <2>2
<1>3. ASSUME Distinct(overrides), NEW x \in overrides
      PROVE  SlotOf[x.slot].provider \in Providers /\ wins(SlotOf[x.slot].provider)[x.slot] = x.remaining
  <2>1. (CHOOSE y \in overrides : y.slot = x.slot) = x
    BY <1>3 DEF Distinct
  <2>2. x.slot \in Slots /\ SlotOf[x.slot].provider \in Providers
    BY <1>0, SelectionAssumption, SlotAssumption
  <2> QED BY <2>1, <2>2
<1> HIDE DEF wins, overrides
<1>4. ASSUME NEW p \in Providers
      PROVE  f[p] \in Snapshots /\ f[p].wins = wins(p) /\ f[p].status = snap[p].status
  <2>1. snap[p] \in Snapshots /\ snap[p] # Null
    BY SentinelAssumption, NullAssumption DEF IsSnapshot
  <2>2. f[p] = [snap[p] EXCEPT !.wins = wins(p)]
    BY <1>1, <2>1
  <2> QED BY <1>2, <2>1, <2>2 DEF Snapshots
<1>5. f \in [Providers -> Snapshots]
  BY <1>1, <1>4
<1>6. Readable(f)
  BY <1>2, <1>4 DEF Readable
<1> QED BY <1>3, <1>4, <1>5, <1>6 DEF f, overrides

\* simulation.py: apply_capacity_overrides refuses an override of a reading nobody has and two of one window.
LEMMA OverriddenIsReadable ==
    ASSUME NEW snap, \A p \in Providers : IsSnapshot(snap[p]), NEW o \in Overrides
    PROVE  LET lowered == ApplyCapacityOverrides(snap, o.percentages)
           IN  /\ lowered # Raised <=> (Distinct(o.percentages) /\ \A x \in o.percentages : OverrideApplies(x, snap))
               /\ lowered # Raised =>
                     /\ Readable(lowered) /\ lowered \in [Providers -> Snapshots]
                     /\ \A x \in o.percentages :
                            /\ SlotOf[x.slot].provider \in Providers /\ lowered[SlotOf[x.slot].provider].status = "ok"
                            /\ lowered[SlotOf[x.slot].provider].wins[x.slot] = x.remaining
<1> DEFINE lowered == ApplyCapacityOverrides(snap, o.percentages)
           f == Lowered(snap, o.percentages)
           Applies == Distinct(o.percentages) /\ \A x \in o.percentages : OverrideApplies(x, snap)
<1>1. lowered = IF Applies THEN f ELSE Raised
  BY DEF ApplyCapacityOverrides, Lowered, Distinct
<1> HIDE DEF lowered, f
<1>2. /\ f \in [Providers -> Snapshots] /\ Readable(f)
      /\ \A p \in Providers : f[p].status = snap[p].status
      /\ Distinct(o.percentages) =>
            \A x \in o.percentages : SlotOf[x.slot].provider \in Providers /\ f[SlotOf[x.slot].provider].wins[x.slot] = x.remaining
  BY LoweredIsRead DEF f
<1>3. f # Raised
  BY <1>2, SentinelAssumption
<1>4. Applies => \A x \in o.percentages : f[SlotOf[x.slot].provider].status = "ok"
  BY <1>2 DEF OverrideApplies
<1> QED BY <1>1, <1>2, <1>3, <1>4 DEF lowered

\* selector.py: the parts of a decision.
LEMMA DecisionIsTyped ==
    ASSUME CatalogAccepted(Entries), NEW inp, InputsSound(inp)
    PROVE  SelectModel(Entries, inp) \in Decisions
<1> DEFINE evals == {EvaluateCandidate(c, inp) : c \in Entries}
           pol == inp.pol
           instant == inp.now
           d == AssembleEvaluations(Entries, evals, pol, instant)
           expired == {i \in DOMAIN pol.blackouts : ExpiredAt(pol.blackouts[i], instant)}
<1>1. ASSUME NEW c \in Entries
      PROVE  Evaluated(EvaluateCandidate(c, inp)) /\ EvaluateCandidate(c, inp).id = c.id
  <2>1. EntryAccepted(c)
    BY DEF CatalogAccepted
  <2> QED BY <2>1, CandidateIsSound, EntriesAreTyped
<1>2. \A c \in Entries, b \in Entries : c.id = b.id => c = b
  BY DEF CatalogAccepted
<1>3. \A e \in evals : Evaluated(e) /\ \E c \in Entries : e.id = c.id
  BY <1>1
<1>4. \A e \in evals, f \in evals : e.id = f.id => e = f
  BY <1>1, <1>2
<1>5. PolicyTyped(pol)
  BY DEF InputsSound
<1>6. SelectModel(Entries, inp) = d
  BY Zenon DEF SelectModel
<1>7. d.expired = expired /\ d = [selected |-> d.selected, alternatives |-> d.alternatives, excluded |-> d.excluded, closest |-> d.closest,
                                  recoverable |-> d.recoverable, degraded |-> d.degraded, expired |-> d.expired, codes |-> d.codes]
  <2> DEFINE parts(a, b, c, e, f, g, h, i) == [selected |-> a, alternatives |-> b, excluded |-> c, closest |-> e, recoverable |-> f,
                                               degraded |-> g, expired |-> h, codes |-> i]
  <2>1. \E a, b, c, e, f, g, i : d = parts(a, b, c, e, f, g, expired, i)
    BY Zenon DEF AssembleEvaluations
  <2> HIDE DEF d, expired
  <2> QED BY <2>1
<1>8. expired \subseteq Nat
  BY <1>5 DEF PolicyTyped, Typed
<1> HIDE DEF evals, pol, instant, expired
<1>9. Picked(d, Entries, evals, pol)
  BY <1>3, <1>4, <1>5, OneIsSelected, EntriesAreTyped
<1> HIDE DEF d
<1>10. evals \subseteq Evaluations
  BY <1>3 DEF Evaluated
<1>11. /\ d.selected \in Evaluations \cup {Null} /\ d.alternatives \in SUBSET Evaluations /\ d.excluded \in SUBSET Evaluations
       /\ d.closest \in SUBSET Evaluations /\ d.recoverable \in SUBSET Evaluations
  BY <1>9, <1>10 DEF Picked
<1>12. d.degraded \in BOOLEAN
  BY <1>9 DEF Picked
<1>13. d.codes \in SUBSET {"no_eligible_candidate", "selected_balanced", "selected_degraded_capacity"}
  BY <1>9 DEF Picked
<1>14. d.expired \in SUBSET Nat
  BY <1>7, <1>8
<1> QED BY <1>6, <1>7, <1>11, <1>12, <1>13, <1>14 DEF Decisions

\* The inputs of a selection are a record of these parts.
IsInputs(inp) ==
    inp = [req |-> inp.req, pol |-> inp.pol, now |-> inp.now, resets |-> inp.resets, blocked |-> inp.blocked, snap |-> inp.snap, elig |-> inp.elig]

\* simulation.py: the inputs as they would be.
Hypothetical(inp, o) ==
    [inp EXCEPT !.snap = ApplyCapacityOverrides(inp.snap, o.percentages),
                !.pol = IF o.pol = Null THEN @ ELSE o.pol,
                !.now = IF o.now = Null THEN @ ELSE o.now,
                !.resets = IF o.resets = Null THEN @ ELSE o.resets]

\* simulation.py: simulate_selection decides on the inputs as they are and as they would be, or refuses the overrides.
LEMMA SimulationIsSound ==
    ASSUME NEW inp, IsInputs(inp), InputsSound(inp), \A p \in Providers : IsSnapshot(inp.snap[p]), NEW o \in Overrides,
           ApplyCapacityOverrides(inp.snap, o.percentages) # Raised
    PROVE  /\ InputsSound(Hypothetical(inp, o))
           /\ Hypothetical(inp, o).snap = ApplyCapacityOverrides(inp.snap, o.percentages)
<1> DEFINE snap == inp.snap
           lowered == ApplyCapacityOverrides(snap, o.percentages)
           pol == IF o.pol = Null THEN inp.pol ELSE o.pol
           instant == IF o.now = Null THEN inp.now ELSE o.now
           resets == IF o.resets = Null THEN inp.resets ELSE o.resets
           h == Hypothetical(inp, o)
<1>1. Readable(lowered)
  <2>1. (\A p \in Providers : IsSnapshot(snap[p])) /\ ApplyCapacityOverrides(snap, o.percentages) # Raised
    OBVIOUS
  <2> HIDE DEF snap
  <2> QED BY <2>1, OverriddenIsReadable
<1>2. PolicyTyped(pol) /\ SelectorPolicyAccepted(pol) /\ ContextTyped(instant, resets)
  BY SelectionAssumption DEF InputsSound, ContextTyped
<1>3. h = [inp EXCEPT !.snap = lowered, !.pol = IF o.pol = Null THEN @ ELSE o.pol, !.now = IF o.now = Null THEN @ ELSE o.now,
                      !.resets = IF o.resets = Null THEN @ ELSE o.resets]
  BY Zenon DEF Hypothetical
<1> HIDE DEF lowered, h
<1>4. h.snap = lowered /\ h.pol = pol /\ h.now = instant /\ h.resets = resets
  BY <1>3 DEF IsInputs
<1> HIDE DEF pol, instant, resets
<1> QED BY <1>1, <1>2, <1>4 DEF InputsSound, h, lowered

\* What a result of a simulation says.
Simulated(r, inp, o) ==
    IF ApplyCapacityOverrides(inp.snap, o.percentages) = Raised THEN r = Raised
    ELSE r # Raised /\ r.baseline = SelectModel(Entries, inp) /\ r.simulated = SelectModel(Entries, Hypothetical(inp, o))

\* simulation.py: simulate_selection refuses the overrides or gives both decisions.
LEMMA SimulationIsEither ==
    ASSUME CatalogAccepted(Entries), NEW inp, IsInputs(inp), InputsSound(inp), \A p \in Providers : IsSnapshot(inp.snap[p]), NEW o \in Overrides
    PROVE  Simulated(SimulateSelection(Entries, inp, o), inp, o)
<1> DEFINE r == SimulateSelection(Entries, inp, o)
           d == SelectModel(Entries, inp)
           e == SelectModel(Entries, Hypothetical(inp, o))
<1>1. r = IF ApplyCapacityOverrides(inp.snap, o.percentages) = Raised THEN Raised ELSE [baseline |-> d, simulated |-> e]
  BY Zenon DEF SimulateSelection, Hypothetical
<1>2. CASE ApplyCapacityOverrides(inp.snap, o.percentages) = Raised
  BY <1>1, <1>2 DEF Simulated
<1>3. CASE ApplyCapacityOverrides(inp.snap, o.percentages) # Raised
  <2>1. d \in Decisions
    BY DecisionIsTyped
  <2>2. InputsSound(Hypothetical(inp, o))
    BY <1>3, SimulationIsSound
  <2>3. e \in Decisions
    <3> DEFINE h == Hypothetical(inp, o)
    <3>1. InputsSound(h)
      BY <2>2
    <3> HIDE DEF h
    <3>2. SelectModel(Entries, h) \in Decisions
      BY <3>1, DecisionIsTyped
    <3> QED BY <3>2 DEF h
  <2> HIDE DEF d, e, r
  <2>4. r = [baseline |-> d, simulated |-> e]
    BY <1>1, <1>3
  <2>5. r # Raised
    BY <2>1, <2>3, <2>4, SentinelAssumption, NullAssumption
  <2>6. r.baseline = d /\ r.simulated = e
    BY <2>4
  <2> QED BY <1>3, <2>5, <2>6 DEF Simulated, r, d, e
<1> QED BY <1>2, <1>3

\* selection_app.py: the inputs of a call have the parts of a selection's inputs.
LEMMA InputsAreInputs == IsInputs(Inputs)
<1> DEFINE snap == [p \in Providers |-> IF p = "openai" THEN obs.snapshot ELSE ZaiObservation(zai)]
           elig == [p \in Providers |-> IF p = "openai" THEN obs.eligibility.state ELSE Null]
           inp == Inputs
<1>1. inp = [req |-> req, pol |-> call.pol, now |-> call.now, resets |-> call.resets, blocked |-> {}, snap |-> snap, elig |-> elig]
  BY Zenon DEF Inputs
<1> HIDE DEF inp, snap, elig
<1> QED BY <1>1 DEF IsInputs, inp

\* A simulation in a state of a call.
LEMMA SimulationInAllStates ==
    ASSUME SelectionIInv, simulation # Null
    PROVE  /\ pc = "decided" /\ InputsSound(Inputs) /\ CatalogAccepted(Entries) /\ (\A p \in Providers : IsSnapshot(Inputs.snap[p]))
           /\ \E o \in Overrides : simulation.overrides = o /\ Simulated(simulation.result, Inputs, o)
<1>1. PICK o \in Overrides : pc = "decided" /\ simulation = [overrides |-> o, result |-> SimulateSelection(Entries, Inputs, o)]
  BY DEF SelectionIInv, DecisionFacts
<1>2. InputsSound(Inputs) /\ CatalogAccepted(Entries) /\ \A p \in Providers : IsSnapshot(Inputs.snap[p])
  BY <1>1, InputsAreSound
<1> DEFINE inp == Inputs
<1>3. InputsSound(inp) /\ IsInputs(inp) /\ \A p \in Providers : IsSnapshot(inp.snap[p])
  BY <1>2, InputsAreInputs
<1> HIDE DEF inp
<1>4. Simulated(SimulateSelection(Entries, inp, o), inp, o)
  BY <1>2, <1>3, SimulationIsEither
<1> QED BY <1>1, <1>2, <1>4 DEF inp

\* What reaches a decision was acquired in order, and every constructor accepts it.
LEMMA OrderlyInAllStates == SelectionIInv => AcquisitionIsOrderly
<1> SUFFICES ASSUME SelectionIInv PROVE AcquisitionIsOrderly
  OBVIOUS
<1>1. TypeOK /\ NoChildBehindAnObservation
  BY DEF SelectionIInv, NoChildBehindAnObservation
<1>2. AnswerIsToTheLastRead
  BY DEF SelectionIInv, AskedFacts, AnswerIsToTheLastRead
<1>3. EveryConstructorAccepts
  <2>1. obs # Null => SnapshotAccepted(obs.snapshot) /\ EligibilityAccepted(obs.eligibility)
    <3>1. obs # Null => pc \in {"closing", "asking", "deciding", "decided"}
      BY DEF SelectionIInv, AskedFacts, TypeOK, Waiting
    <3> QED BY <3>1, ObservationIsAccepted DEF IsSnapshot
  <2>2. zai # Null => SnapshotAccepted(ZaiObservation(zai))
    <3>1. zai # Null => zai \in ZaiAnswers
      BY DEF SelectionIInv, TypeOK
    <3> QED BY <3>1, ZaiSnapshotIsAccepted
  <2>3. decision # Null => DecisionAccepted(decision)
    <3> SUFFICES ASSUME decision # Null PROVE DecisionAccepted(decision)
      OBVIOUS
    <3> DEFINE inp == Inputs
    <3>1. decision = SelectModel(Entries, inp) /\ pc = "decided"
      BY DEF SelectionIInv, DecisionFacts
    <3>2. InputsSound(inp) /\ CatalogAccepted(Entries)
      BY <3>1, InputsAreSound
    <3> HIDE DEF inp
    <3> QED BY <3>1, <3>2, DecisionIsSound, EntriesAreTyped
  <2>4. simulation # Null /\ simulation.result # Raised => DecisionAccepted(simulation.result.simulated)
    <3> SUFFICES ASSUME simulation # Null, simulation.result # Raised PROVE DecisionAccepted(simulation.result.simulated)
      OBVIOUS
    <3>1. PICK o \in Overrides : Simulated(simulation.result, Inputs, o)
      BY SimulationInAllStates
    <3> DEFINE inp == Inputs
    <3>2. InputsSound(inp) /\ CatalogAccepted(Entries) /\ IsInputs(inp) /\ (\A p \in Providers : IsSnapshot(inp.snap[p])) /\ Simulated(simulation.result, inp, o)
      BY <3>1, SimulationInAllStates, InputsAreInputs
    <3> HIDE DEF inp
    <3> DEFINE h == Hypothetical(inp, o)
    <3>3. simulation.result.simulated = SelectModel(Entries, h) /\ InputsSound(h)
      BY <3>2, SimulationIsSound DEF Simulated
    <3> HIDE DEF h
    <3> QED BY <3>2, <3>3, DecisionIsSound, EntriesAreTyped
  <2> QED BY <2>1, <2>2, <2>3, <2>4 DEF EveryConstructorAccepts
<1> QED BY <1>1, <1>2, <1>3 DEF AcquisitionIsOrderly

\* openai_codex_acquisition.py, selector.py: what reaches the decision was acquired in order, from the last answer and from a dead child,
\* and every constructor on the way accepts what it is given.
THEOREM AcquisitionStaysOrderly == Spec => []AcquisitionIsOrderly
<1>1. SelectionIInv => AcquisitionIsOrderly
  BY OrderlyInAllStates
<1> QED BY <1>1, SelectionStays, PTL

-----------------------------------------------------------------------------
(* Decisions on related inputs. *)

\* selector.py: tighten_requirement never loosens a demand.
LEMMA TighterIsNarrower ==
    ASSUME NEW base, NeedTyped(base), NEW explicit, NeedTyped(explicit), Tighten(base, explicit) # Raised, NEW c \in Entries,
           CapabilityAccepted(c.capability)
    PROVE  /\ HardFailures(Tighten(base, explicit), c) = {} => HardFailures(base, c) = {}
           /\ CapabilityFailures(Tighten(base, explicit), c) = {} => CapabilityFailures(base, c) = {}
<1> DEFINE t == Tighten(base, explicit)
<1>1. t = [level |-> explicit.level,
           rating |-> TightenMinimum(base.rating, explicit.rating),
           ctx |-> TightenMinimum(base.ctx, explicit.ctx),
           out |-> TightenMinimum(base.out, explicit.out),
           tools |-> base.tools \/ explicit.tools,
           provider |-> TightenIdentity(base.provider, explicit.provider)]
      /\ Raised \notin {t.rating, t.ctx, t.out, t.provider}
  BY DEF Tighten
<1> HIDE DEF t
<1>2. /\ t.rating = TightenMinimum(base.rating, explicit.rating) /\ t.rating # Raised
      /\ t.ctx = TightenMinimum(base.ctx, explicit.ctx) /\ t.ctx # Raised
      /\ t.out = TightenMinimum(base.out, explicit.out) /\ t.out # Raised
      /\ t.provider = TightenIdentity(base.provider, explicit.provider) /\ t.provider # Raised
      /\ t.tools = (base.tools \/ explicit.tools)
  BY <1>1
<1> DEFINE rating == EffectiveRating(c.capability)
<1>4. c.ctx \in Nat \cup {Null} /\ c.out \in Nat \cup {Null} /\ rating \in Nat \cup {Null}
  <2>1. EntryTyped(c)
    BY SelectionAssumption
  <2>2. rating \in Nat \cup {Null}
    BY DEF CapabilityAccepted, EffectiveRating
  <2> QED BY <2>1, <2>2 DEF EntryTyped
<1> HIDE DEF rating
<1>8. Null \notin Nat
  BY SentinelAssumption, NullAssumption
<1>5. /\ base.rating \in Nat \cup {Null} /\ base.ctx \in Nat \cup {Null} /\ base.out \in Nat \cup {Null} /\ base.tools \in BOOLEAN
      /\ explicit.rating \in Nat \cup {Null} /\ explicit.ctx \in Nat \cup {Null} /\ explicit.out \in Nat \cup {Null} /\ explicit.tools \in BOOLEAN
  BY DEF NeedTyped
<1>6. ASSUME HardFailures(t, c) = {} PROVE HardFailures(base, c) = {}
  <2>1. (t.ctx # Null => c.ctx # Null /\ ~(c.ctx < t.ctx)) /\ (t.out # Null => c.out # Null /\ ~(c.out < t.out))
        /\ (t.tools => c.tools = "yes") /\ (t.provider # Null => t.provider = c.provider)
    BY <1>6 DEF HardFailures
  <2>2. base.ctx # Null => c.ctx # Null /\ ~(c.ctx < base.ctx)
    BY <1>2, <1>8, <1>4, <1>5, <2>1 DEF TightenMinimum
  <2>3. base.out # Null => c.out # Null /\ ~(c.out < base.out)
    BY <1>2, <1>8, <1>4, <1>5, <2>1 DEF TightenMinimum
  <2>4. base.tools => c.tools = "yes"
    BY <1>2, <1>5, <2>1
  <2>5. base.provider # Null => base.provider = c.provider
    BY <1>2, <2>1 DEF TightenIdentity
  <2> QED BY <2>2, <2>3, <2>4, <2>5 DEF HardFailures
<1>7. ASSUME CapabilityFailures(t, c) = {} PROVE CapabilityFailures(base, c) = {}
  <2>1. t.rating # Null => rating # Null /\ ~(rating < t.rating)
    BY <1>7 DEF CapabilityFailures, rating
  <2>2. base.rating # Null => rating # Null /\ ~(rating < base.rating)
    BY <1>2, <1>8, <1>4, <1>5, <2>1 DEF TightenMinimum
  <2> QED BY <2>2 DEF CapabilityFailures, rating
<1> QED BY <1>6, <1>7 DEF t

\* selection_app.py: the requirement of a call is no laxer than its profile.
LEMMA NarrowsInAllStates == SelectionIInv => TighteningOnlyNarrows
<1> SUFFICES ASSUME SelectionIInv, req # Null, call.profile # Null, NEW c \in Entries
             PROVE  /\ HardFailures(req, c) = {} => HardFailures(Profiles[call.profile], c) = {}
                    /\ CapabilityFailures(req, c) = {} => CapabilityFailures(Profiles[call.profile], c) = {}
  BY DEF TighteningOnlyNarrows
<1>1. InputsAccepted(call) /\ req = ResolveRequirement(Profiles, call.profile, call.explicit, call.tightening)
  BY DEF SelectionIInv, InputFacts
<1>2. req # Raised /\ CatalogAccepted(Entries) /\ call \in Requests
  BY <1>1 DEF InputsAccepted, SelectionIInv, TypeOK
<1> DEFINE base == Profiles[call.profile]
           tightening == call.tightening
<1>3. call.profile \in DOMAIN Profiles /\ req = IF tightening = Null THEN base ELSE Tighten(base, tightening)
  BY <1>1, <1>2 DEF ResolveRequirement
<1>4. NeedTyped(base) /\ (tightening # Null => NeedTyped(tightening)) /\ CapabilityAccepted(c.capability)
  BY <1>2, <1>3, SelectionAssumption DEF CatalogAccepted
<1> HIDE DEF base, tightening
<1>5. /\ HardFailures(req, c) = {} => HardFailures(base, c) = {}
      /\ CapabilityFailures(req, c) = {} => CapabilityFailures(base, c) = {}
  BY <1>2, <1>3, <1>4, TighterIsNarrower
<1> QED BY <1>5 DEF base

\* simulation.py: the simulation of a call refuses a reading nobody has, and what it selects would not be used up.
LEMMA HypotheticalInAllStates == SelectionIInv => SimulationIsHypothetical
<1> SUFFICES ASSUME SelectionIInv, simulation # Null PROVE SimulationIsHypothetical
  BY DEF SimulationIsHypothetical
<1> DEFINE snap == Inputs.snap
           lowered == ApplyCapacityOverrides(snap, simulation.overrides.percentages)
           r == simulation.result
           overrides == simulation.overrides.percentages
           NotLowered(o) == \/ snap[SlotOf[o.slot].provider].wins[o.slot] \in {NoWindow, Unknown}
                         \/ snap[SlotOf[o.slot].provider].status # "ok"
                         \/ \E q \in overrides : o # q /\ o.slot = q.slot
<1>1. PICK o \in Overrides : simulation.overrides = o /\ Simulated(r, Inputs, o)
  BY SimulationInAllStates
<1>2. InputsSound(Inputs) /\ CatalogAccepted(Entries) /\ (\A p \in Providers : IsSnapshot(snap[p])) /\ pc = "decided" /\ IsInputs(Inputs)
  BY SimulationInAllStates, InputsAreInputs
<1>3. \A x \in overrides : x.slot \in Slots /\ SlotOf[x.slot].provider \in Providers
  BY <1>1, SelectionAssumption, SlotAssumption
<1>4. lowered = Raised <=> \E x \in overrides : NotLowered(x)
  <2>1. \A p \in Providers : snap[p] # Null
    BY <1>2, SentinelAssumption, NullAssumption DEF IsSnapshot
  <2>2. \A x \in overrides : OverrideApplies(x, snap) <=> /\ snap[SlotOf[x.slot].provider].wins[x.slot] \notin {NoWindow, Unknown}
                                                          /\ snap[SlotOf[x.slot].provider].status = "ok"
    BY <1>3, <2>1 DEF OverrideApplies
  <2> DEFINE given == snap
  <2>3. \A p \in Providers : IsSnapshot(given[p])
    BY <1>2
  <2> HIDE DEF given
  <2>4. ApplyCapacityOverrides(given, o.percentages) # Raised <=> (Distinct(o.percentages) /\ \A x \in o.percentages : OverrideApplies(x, given))
    BY <2>3, OverriddenIsReadable
  <2>5. lowered # Raised <=> (Distinct(overrides) /\ \A x \in overrides : OverrideApplies(x, snap))
    BY <1>1, <2>4 DEF given
  <2> HIDE DEF lowered, overrides, snap
  <2> QED BY <2>2, <2>5 DEF Distinct
<1>5. r = Raised <=> \E x \in overrides : NotLowered(x)
  BY <1>1, <1>4 DEF Simulated
<1>6. ASSUME r # Raised
      PROVE  /\ r.baseline = decision
             /\ \A x \in overrides :
                    LET s == r.simulated.selected
                    IN  x.remaining = 0 /\ s # Null =>
                            \A c \in Entries : c.id = s.id /\ c.bindings # Null => \A b \in c.bindings : x.slot \notin SlotsOfScope(b)
  <2>1. decision = SelectModel(Entries, Inputs)
    BY <1>2 DEF SelectionIInv, DecisionFacts
  <2> DEFINE inp == Inputs
             h == Hypothetical(inp, o)
  <2>2. lowered # Raised /\ r.baseline = SelectModel(Entries, Inputs) /\ r.simulated = SelectModel(Entries, h)
    BY <1>1, <1>6 DEF Simulated
  <2>3. InputsSound(h) /\ h.snap = lowered
    <3>1. InputsSound(inp) /\ IsInputs(inp) /\ (\A p \in Providers : IsSnapshot(inp.snap[p])) /\ ApplyCapacityOverrides(inp.snap, o.percentages) # Raised
      BY <1>1, <1>2, <2>2
    <3> HIDE DEF inp
    <3>2. InputsSound(Hypothetical(inp, o)) /\ Hypothetical(inp, o).snap = ApplyCapacityOverrides(inp.snap, o.percentages)
      BY <3>1, SimulationIsSound
    <3> QED BY <1>1, <3>2 DEF inp
  <2>4. \A x \in overrides : /\ SlotOf[x.slot].provider \in Providers /\ lowered[SlotOf[x.slot].provider].status = "ok"
                              /\ lowered[SlotOf[x.slot].provider].wins[x.slot] = x.remaining /\ lowered[SlotOf[x.slot].provider] # Null
    <3> DEFINE given == snap
               those == ApplyCapacityOverrides(given, o.percentages)
    <3>1. (\A p \in Providers : IsSnapshot(given[p])) /\ those # Raised
      BY <1>1, <1>2, <2>2
    <3> HIDE DEF given
    <3>2. those \in [Providers -> Snapshots] /\ \A x \in o.percentages :
              SlotOf[x.slot].provider \in Providers /\ those[SlotOf[x.slot].provider].status = "ok" /\ those[SlotOf[x.slot].provider].wins[x.slot] = x.remaining
      BY <3>1, OverriddenIsReadable
    <3> HIDE DEF those
    <3>3. \A x \in o.percentages : those[SlotOf[x.slot].provider] # Null
      BY <3>2, SentinelAssumption, NullAssumption
    <3> QED BY <1>1, <3>2, <3>3 DEF given, those
  <2>5. ASSUME NEW x \in overrides, x.remaining = 0, r.simulated.selected # Null,
               NEW c \in Entries, c.id = r.simulated.selected.id, c.bindings # Null, NEW b \in c.bindings, x.slot \in SlotsOfScope(b)
        PROVE  FALSE
    <3> HIDE DEF h
    <3>1. PICK d \in Entries : r.simulated.selected.id = d.id /\ Allowed(d, h)
      BY <1>2, <2>2, <2>3, <2>5, DecisionIsSound, EntriesAreTyped
    <3>2. d = c
      BY <1>2, <2>5, <3>1 DEF CatalogAccepted
    <3> HIDE DEF lowered, overrides
    <3>3. x.slot \in KnownSlots(b, lowered) /\ Remaining(x.slot, lowered) = 0
      <4>1. SlotOf[x.slot].provider = b.provider
        BY <2>5 DEF SlotsOfScope
      <4>2. 0 \notin {NoWindow, Unknown}
        BY SentinelAssumption, NullAssumption
      <4> QED BY <2>4, <2>5, <4>1, <4>2 DEF KnownSlots, Remaining
    <3>4. \A s \in KnownSlots(b, lowered) : Remaining(s, lowered) > 0
      BY <2>3, <2>5, <3>1, <3>2 DEF Allowed
    <3> QED BY <3>3, <3>4
  <2>6. r.baseline = decision
    BY <1>2, <2>1, <2>2
  <2> QED BY <2>5, <2>6
<1> QED BY <1>5, <1>6 DEF SimulationIsHypothetical

-----------------------------------------------------------------------------
(* More quota. *)

\* Two readings that say the same of a scope.
SameOn(b, snap, more) ==
    /\ snap[b.provider] = Null <=> more[b.provider] = Null
    /\ more[b.provider].status = snap[b.provider].status
    /\ \A s \in SlotsOfScope(b) : more[b.provider].wins[s] = snap[b.provider].wins[s]

\* scarcity.py: a binding reads the windows of its scope only.
LEMMA SameScope ==
    ASSUME NEW snap, NEW more, NEW b, SameOn(b, snap, more)
    PROVE  /\ BindingReasons(b, more) = BindingReasons(b, snap) /\ KnownSlots(b, more) = KnownSlots(b, snap)
           /\ \A s \in SlotsOfScope(b) : Remaining(s, more) = Remaining(s, snap)
<1>1. \A s \in SlotsOfScope(b) : SlotOf[s].provider = b.provider
  BY DEF SlotsOfScope
<1> DEFINE there == {s \in SlotsOfScope(b) : snap[b.provider].wins[s] # NoWindow}
           there2 == {s \in SlotsOfScope(b) : more[b.provider].wins[s] # NoWindow}
<1>2. there2 = there /\ ((\E s \in there2 : more[b.provider].wins[s] = Unknown) <=> \E s \in there : snap[b.provider].wins[s] = Unknown)
  BY DEF SameOn
<1>3. BindingReasons(b, more) = BindingReasons(b, snap)
  <2> HIDE DEF there, there2
  <2>1. /\ BindingReasons(b, snap) = IF snap[b.provider] = Null THEN {"missing_provider_snapshot"}
                                    ELSE IF snap[b.provider].status # "ok" THEN {"provider_snapshot_not_ok"}
                                    ELSE (IF \E s \in there : snap[b.provider].wins[s] = Unknown THEN {"window_percentage_unknown"} ELSE {})
                                         \cup (IF there = {} THEN {"missing_scope_window"} ELSE {})
        /\ BindingReasons(b, more) = IF more[b.provider] = Null THEN {"missing_provider_snapshot"}
                                    ELSE IF more[b.provider].status # "ok" THEN {"provider_snapshot_not_ok"}
                                    ELSE (IF \E s \in there2 : more[b.provider].wins[s] = Unknown THEN {"window_percentage_unknown"} ELSE {})
                                         \cup (IF there2 = {} THEN {"missing_scope_window"} ELSE {})
    BY Zenon DEF BindingReasons, there, there2
  <2> QED BY <1>2, <2>1 DEF SameOn
<1>4. KnownSlots(b, more) = KnownSlots(b, snap)
  BY DEF SameOn, KnownSlots
<1>5. \A s \in SlotsOfScope(b) : Remaining(s, more) = Remaining(s, snap)
  BY <1>1 DEF SameOn, Remaining
<1> QED BY <1>3, <1>4, <1>5

\* scarcity.py: an assessment by its parts.
Assessed(d, reasons, known, exhausted, governing, strategic, tactical) ==
    LET effective == Blend(IF tactical = Null THEN Null ELSE tactical.remaining, IF strategic = Null THEN Null ELSE strategic.remaining)
    IN  IF exhausted # {}
        THEN [state |-> "unavailable", label |-> "unavailable", penalty |-> 10000, effective |-> 0, scopes |-> d.bindings,
              governing |-> governing, strategic |-> Null, tactical |-> Null, codes |-> reasons \cup {"capacity_exhausted"}]
        ELSE IF reasons # {} THEN UnknownAssessment(reasons, d.bindings)
        ELSE IF known = {} THEN Raised
        ELSE [state |-> "known", label |-> Label(effective), penalty |-> Penalty(effective), effective |-> effective, scopes |-> d.bindings,
              governing |-> IF strategic # Null THEN strategic ELSE tactical, strategic |-> strategic, tactical |-> tactical, codes |-> {}]

\* scarcity.py: assess_scarcity by the reasons, the known windows and the evidence of its bindings.
LEMMA AssessmentInParts ==
    ASSUME NEW d, d.bindings # Null, NEW x
    PROVE  LET reasons == UNION {BindingReasons(b, x) : b \in d.bindings}
               known == UNION {KnownSlots(b, x) : b \in d.bindings}
           IN  AssessScarcity(d, x) = Assessed(d, reasons, known, Exhausted(known, x), RoleEvidence(Exhausted(known, x), x),
                                               RoleEvidence(OfRole(known, Strategic), x), RoleEvidence(OfRole(known, Tactical), x))
<1> DEFINE reasons == UNION {BindingReasons(b, x) : b \in d.bindings}
           known == UNION {KnownSlots(b, x) : b \in d.bindings}
           exhausted == Exhausted(known, x)
           strategic == RoleEvidence(OfRole(known, Strategic), x)
           tactical == RoleEvidence(OfRole(known, Tactical), x)
           effective == Blend(IF tactical = Null THEN Null ELSE tactical.remaining, IF strategic = Null THEN Null ELSE strategic.remaining)
           a == AssessScarcity(d, x)
<1>1. a = IF exhausted # {}
          THEN [state |-> "unavailable", label |-> "unavailable", penalty |-> 10000, effective |-> 0, scopes |-> d.bindings,
                governing |-> Evidence(PickGoverning(exhausted, x), x), strategic |-> Null, tactical |-> Null,
                codes |-> reasons \cup {"capacity_exhausted"}]
          ELSE IF reasons # {} THEN UnknownAssessment(reasons, d.bindings)
          ELSE IF known = {} THEN Raised
          ELSE [state |-> "known", label |-> Label(effective), penalty |-> Penalty(effective), effective |-> effective, scopes |-> d.bindings,
                governing |-> IF strategic # Null THEN strategic ELSE tactical, strategic |-> strategic, tactical |-> tactical, codes |-> {}]
  BY DEF AssessScarcity, RoleEvidence
<1>2. exhausted # {} => RoleEvidence(exhausted, x) = Evidence(PickGoverning(exhausted, x), x)
  BY DEF RoleEvidence
<1> DEFINE governing == RoleEvidence(exhausted, x)
<1> HIDE DEF reasons, known, exhausted, strategic, tactical, a, governing
<1>3. a = Assessed(d, reasons, known, exhausted, governing, strategic, tactical)
  BY <1>1, <1>2 DEF Assessed, governing
<1> QED BY <1>3 DEF a, reasons, known, exhausted, strategic, tactical, governing

\* scarcity.py: an assessment reads the scopes of its entry's bindings only.
LEMMA SameAssessment ==
    ASSUME NEW d, NEW snap, Readable(snap), NEW more, d.bindings # Null => \A b \in d.bindings : SameOn(b, snap, more)
    PROVE  AssessScarcity(d, more) = AssessScarcity(d, snap)
<1>1. CASE d.bindings = Null
  BY <1>1 DEF AssessScarcity
<1>2. CASE d.bindings # Null
  <2> DEFINE reasons(x) == UNION {BindingReasons(b, x) : b \in d.bindings}
             known(x) == UNION {KnownSlots(b, x) : b \in d.bindings}
  <2>1. \A b \in d.bindings : /\ BindingReasons(b, more) = BindingReasons(b, snap) /\ KnownSlots(b, more) = KnownSlots(b, snap)
                              /\ \A s \in SlotsOfScope(b) : Remaining(s, more) = Remaining(s, snap)
    BY <1>2, SameScope
  <2>2. reasons(more) = reasons(snap) /\ known(more) = known(snap)
    BY <2>1
  <2>3. \A s \in known(snap) : Remaining(s, more) = Remaining(s, snap)
    BY <2>1 DEF KnownSlots
  <2> DEFINE K == known(snap)
  <2>4. \A s \in K : s \in Slots /\ Remaining(s, snap) \in 0..100
    BY KnownIsPercentage
  <2>5. Exhausted(K, more) = Exhausted(K, snap)
    BY <2>3 DEF Exhausted
  <2>6. ASSUME NEW pool \in SUBSET K PROVE RoleEvidence(pool, more) = RoleEvidence(pool, snap)
    <3>1. PickGoverning(pool, more) = PickGoverning(pool, snap)
      BY <2>3 DEF PickGoverning
    <3>2. pool # {} => PickGoverning(pool, snap) \in pool
      <4> HIDE DEF K
      <4> QED BY <2>4, GoverningIsOne
    <3>3. \A s \in K : Evidence(s, more) = Evidence(s, snap)
      BY <2>3 DEF Evidence
    <3> HIDE DEF K
    <3> QED BY <3>1, <3>2, <3>3 DEF RoleEvidence
  <2>7. Exhausted(K, snap) \in SUBSET K /\ OfRole(K, Strategic) \in SUBSET K /\ OfRole(K, Tactical) \in SUBSET K
    BY DEF Exhausted, OfRole
  <2>8. \A x : AssessScarcity(d, x) = Assessed(d, reasons(x), known(x), Exhausted(known(x), x), RoleEvidence(Exhausted(known(x), x), x),
                                              RoleEvidence(OfRole(known(x), Strategic), x), RoleEvidence(OfRole(known(x), Tactical), x))
    BY <1>2, AssessmentInParts
  <2> HIDE DEF known, reasons
  <2> QED BY <2>2, <2>5, <2>6, <2>7, <2>8
<1> QED BY <1>1, <1>2

\* selector.py: an evaluation by its parts.
Verdict(d, need, pol, instant, resets, blocked, elig, a, rs) ==
    LET u == UnknownCapacity(pol.mode, a)
        rep == Replenishment(pol.replenishment, resets[d.provider])
    IN  IF elig[d.provider] \notin {Null, "eligible"}
        THEN Excluded(d, "execution", {EligibilityCode(elig[d.provider])})
        ELSE IF d.id \in blocked \/ FirstActive(pol.blackouts, d, instant) # Null
        THEN Excluded(d, "policy_blackout", {"policy_blocked"})
        ELSE IF HardFailures(need, d) # {} THEN Excluded(d, "hard_constraint", {"hard_constraint_failed"})
        ELSE IF CapabilityFailures(need, d) # {} THEN Excluded(d, "capability", {"capability_failed"})
        ELSE IF ~u.eligible
        THEN ExcludedOnCapacity(d, "capacity",
                 {IF a.state = "unavailable" THEN "capacity_unavailable" ELSE "capacity_unknown_blocked"}
                 \cup (IF a.state = "unavailable" /\ rep.recoverable /\ rep.human THEN {"replenishment_recoverable"} ELSE {}),
                 a, u, {}, rep)
        ELSE IF \E r \in rs : r.state = "unknown"
        THEN ExcludedOnCapacity(d, "reservation", {"reservation_unknown"}, a, u, rs, rep)
        ELSE IF \E r \in rs : r.blocked = TRUE
        THEN ExcludedOnCapacity(d, "reservation", {"reservation_blocked"}, a, u, rs, rep)
        ELSE [id |-> d.id, eligible |-> TRUE, stage |-> Null, codes |-> {}, degraded |-> u.degraded,
              happy |-> FirstHappyHour(pol.happyHours, d, instant) # Null,
              short |-> /\ a.state = "known" /\ a.tactical # Null
                        /\ a.tactical.remaining < pol.floor,
              scarcity |-> a, unknown |-> u, reservations |-> rs, replenishment |-> rep]

ReservationsOf(d, pol, level, snap) ==
    {EvaluateReservation(r, snap, level) : r \in {r \in pol.reservations : d.bindings # Null /\ r.scope \in d.bindings}}

\* selector.py: evaluate_candidate by the assessment and the reservations of its model.
LEMMA EvaluationInParts ==
    ASSUME NEW d, NEW x
    PROVE  EvaluateCandidate(d, x) = Verdict(d, x.req, x.pol, x.now, x.resets, x.blocked, x.elig, AssessScarcity(d, x.snap),
                                             ReservationsOf(d, x.pol, x.req.level, x.snap))
  BY Zenon DEF EvaluateCandidate, CandidateVerdict, Verdict, ReservationsOf

\* What an evaluation passed.
PassesAll(d, need, pol, instant, blocked, elig, a, rs) ==
    /\ elig[d.provider] \in {Null, "eligible"} /\ d.id \notin blocked /\ FirstActive(pol.blackouts, d, instant) = Null
    /\ HardFailures(need, d) = {} /\ CapabilityFailures(need, d) = {} /\ UnknownCapacity(pol.mode, a).eligible
    /\ \A r \in rs : r.state # "unknown" /\ r.blocked # TRUE

\* selector.py: eligible is who passes every gate.
LEMMA VerdictIsPassed ==
    ASSUME NEW d, NEW need, NEW pol, NEW instant, NEW resets, NEW blocked, NEW elig, NEW a, NEW rs
    PROVE  LET v == Verdict(d, need, pol, instant, resets, blocked, elig, a, rs)
           IN  /\ v.eligible <=> PassesAll(d, need, pol, instant, blocked, elig, a, rs)
               /\ v.eligible => v.id = d.id /\ v.scarcity = a /\ v.happy = (FirstHappyHour(pol.happyHours, d, instant) # Null)
<1> DEFINE u == UnknownCapacity(pol.mode, a)
           rep == Replenishment(pol.replenishment, resets[d.provider])
           happy == FirstHappyHour(pol.happyHours, d, instant) # Null
           short == a.state = "known" /\ a.tactical # Null /\ a.tactical.remaining < pol.floor
           codes == {IF a.state = "unavailable" THEN "capacity_unavailable" ELSE "capacity_unknown_blocked"}
                     \cup (IF a.state = "unavailable" /\ rep.recoverable /\ rep.human THEN {"replenishment_recoverable"} ELSE {})
           v == Verdict(d, need, pol, instant, resets, blocked, elig, a, rs)
           shut == {EligibilityCode(elig[d.provider])}
           G1 == elig[d.provider] \in {Null, "eligible"}
           G2 == d.id \notin blocked /\ FirstActive(pol.blackouts, d, instant) = Null
           G3 == HardFailures(need, d) = {}
           G4 == CapabilityFailures(need, d) = {}
           G5 == UnknownCapacity(pol.mode, a).eligible
           G6 == \A r \in rs : r.state # "unknown"
           G7 == \A r \in rs : r.blocked # TRUE
           w == [id |-> d.id, eligible |-> TRUE, stage |-> Null, codes |-> {}, degraded |-> u.degraded, happy |-> happy, short |-> short,
                 scarcity |-> a, unknown |-> u, reservations |-> rs, replenishment |-> rep]
<1>1. /\ ~G1 => v = Excluded(d, "execution", shut)
      /\ G1 /\ ~G2 => v = Excluded(d, "policy_blackout", {"policy_blocked"})
      /\ G1 /\ G2 /\ ~G3 => v = Excluded(d, "hard_constraint", {"hard_constraint_failed"})
      /\ G1 /\ G2 /\ G3 /\ ~G4 => v = Excluded(d, "capability", {"capability_failed"})
      /\ G1 /\ G2 /\ G3 /\ G4 /\ ~G5 => v = ExcludedOnCapacity(d, "capacity", codes, a, u, {}, rep)
      /\ G1 /\ G2 /\ G3 /\ G4 /\ G5 /\ ~G6 => v = ExcludedOnCapacity(d, "reservation", {"reservation_unknown"}, a, u, rs, rep)
      /\ G1 /\ G2 /\ G3 /\ G4 /\ G5 /\ G6 /\ ~G7 => v = ExcludedOnCapacity(d, "reservation", {"reservation_blocked"}, a, u, rs, rep)
      /\ G1 /\ G2 /\ G3 /\ G4 /\ G5 /\ G6 /\ G7 => v = w
  BY Zenon DEF Verdict
<1>2. \A gate, some : Excluded(d, gate, some).eligible = FALSE
  BY DEF Excluded
<1>3. \A gate, some, b, k, qs, rp : ExcludedOnCapacity(d, gate, some, b, k, qs, rp).eligible = FALSE
  BY DEF ExcludedOnCapacity, Excluded
<1>4. w.eligible = TRUE /\ w.id = d.id /\ w.scarcity = a /\ w.happy = happy
  BY Zenon
<1>5. PassesAll(d, need, pol, instant, blocked, elig, a, rs) <=> (G1 /\ G2 /\ G3 /\ G4 /\ G5 /\ G6 /\ G7)
  BY DEF PassesAll
<1> HIDE DEF v, w, codes, u, rep, shut, G1, G2, G3, G4, G5, G6, G7
<1>6. v.eligible <=> (G1 /\ G2 /\ G3 /\ G4 /\ G5 /\ G6 /\ G7)
  BY <1>1, <1>2, <1>3, <1>4
<1>7. v.eligible => v = w
  BY <1>1, <1>6
<1> QED BY <1>4, <1>5, <1>6, <1>7 DEF v

\* Of two keys only one comes before the other.
LEMMA BeforeIsAsymmetric ==
    ASSUME NEW k \in [1..8 -> Nat], NEW l \in [1..8 -> Nat], Before(k, l)
    PROVE  ~Before(l, k)
<1> SUFFICES ASSUME Before(l, k) PROVE FALSE
  OBVIOUS
<1>1. PICK i \in 1..8 : k[i] < l[i] /\ \A n \in 1..(i - 1) : k[n] = l[n]
  BY DEF Before
<1>2. PICK j \in 1..8 : l[j] < k[j] /\ \A n \in 1..(j - 1) : k[n] = l[n]
  BY DEF Before
<1>3. CASE i < j
  BY <1>1, <1>2, <1>3, i \in 1..(j - 1)
<1>4. CASE j < i
  BY <1>1, <1>2, <1>4, j \in 1..(i - 1)
<1>5. CASE i = j
  BY <1>1, <1>2, <1>5
<1> QED BY <1>3, <1>4, <1>5

\* A key that is no greater in one part comes before what the greater one does.
LEMMA LowerStaysBefore ==
    ASSUME NEW k \in [1..8 -> Nat], NEW l \in [1..8 -> Nat], Before(k, l), NEW m \in [1..8 -> Nat], NEW part \in 1..8,
           m[part] <= k[part], \A n \in 1..8 \ {part} : m[n] = k[n]
    PROVE  Before(m, l)
<1>1. PICK i \in 1..8 : k[i] < l[i] /\ \A n \in 1..(i - 1) : k[n] = l[n]
  BY DEF Before
<1>2. m[i] < l[i]
  BY <1>1
<1>3. CASE m[part] = k[part] \/ i <= part
  <2>1. \A n \in 1..(i - 1) : m[n] = l[n]
    BY <1>1, <1>3
  <2> QED BY <1>2, <2>1 DEF Before
<1>4. CASE m[part] < k[part] /\ part < i
  <2>1. m[part] < l[part] /\ \A n \in 1..(part - 1) : m[n] = l[n]
    BY <1>1, <1>4
  <2> QED BY <2>1 DEF Before
<1> QED BY <1>3, <1>4

\* Readings of which the second has all of these windows unused and is otherwise the first.
Refilled(snap, more, own) ==
    /\ Readable(snap) /\ Readable(more)
    /\ \A p \in Providers : snap[p] # Null /\ more[p] # Null /\ more[p].status = snap[p].status
    /\ \A s \in Slots : Remaining(s, more) = IF s \in own THEN 100 ELSE Remaining(s, snap)

\* All windows a model's bindings read, refilled.
OwnSlots(c, snap) == UNION {KnownSlots(b, snap) : b \in c.bindings}

\* scarcity.py: a binding whose known windows are refilled knows the same windows, all unused.
LEMMA RefilledBinding ==
    ASSUME NEW b, b.provider \in Providers, NEW snap, NEW more, NEW own, Refilled(snap, more, own), KnownSlots(b, snap) \subseteq own, own \subseteq Slots,
           \A s \in own : Remaining(s, snap) \notin {NoWindow, Unknown}
    PROVE  /\ BindingReasons(b, more) = BindingReasons(b, snap) /\ KnownSlots(b, more) = KnownSlots(b, snap)
           /\ \A s \in KnownSlots(b, more) : Remaining(s, more) = 100
<1>1. \A s \in SlotsOfScope(b) : s \in Slots /\ Remaining(s, snap) = snap[b.provider].wins[s] /\ Remaining(s, more) = more[b.provider].wins[s]
  BY DEF SlotsOfScope, Remaining
<1>2. 100 \notin {NoWindow, Unknown}
  BY SentinelAssumption, NullAssumption
<1>3. \A s \in SlotsOfScope(b) : /\ snap[b.provider].wins[s] = NoWindow <=> more[b.provider].wins[s] = NoWindow
                                 /\ snap[b.provider].wins[s] = Unknown <=> more[b.provider].wins[s] = Unknown
  BY <1>1, <1>2 DEF Refilled
<1>4. snap[b.provider] # Null /\ more[b.provider] # Null /\ more[b.provider].status = snap[b.provider].status
  BY DEF Refilled
<1> DEFINE there == {s \in SlotsOfScope(b) : snap[b.provider].wins[s] # NoWindow}
           there2 == {s \in SlotsOfScope(b) : more[b.provider].wins[s] # NoWindow}
<1>5. there2 = there /\ ((\E s \in there2 : more[b.provider].wins[s] = Unknown) <=> \E s \in there : snap[b.provider].wins[s] = Unknown)
  BY <1>3
<1> HIDE DEF there, there2
<1>6. /\ BindingReasons(b, snap) = IF snap[b.provider].status # "ok" THEN {"provider_snapshot_not_ok"}
                                   ELSE (IF \E s \in there : snap[b.provider].wins[s] = Unknown THEN {"window_percentage_unknown"} ELSE {})
                                        \cup (IF there = {} THEN {"missing_scope_window"} ELSE {})
      /\ BindingReasons(b, more) = IF more[b.provider].status # "ok" THEN {"provider_snapshot_not_ok"}
                                   ELSE (IF \E s \in there2 : more[b.provider].wins[s] = Unknown THEN {"window_percentage_unknown"} ELSE {})
                                        \cup (IF there2 = {} THEN {"missing_scope_window"} ELSE {})
  BY <1>4 DEF BindingReasons, there, there2
<1>7. BindingReasons(b, more) = BindingReasons(b, snap)
  BY <1>4, <1>5, <1>6
<1>8. KnownSlots(b, more) = KnownSlots(b, snap)
  BY <1>3, <1>4 DEF KnownSlots
<1>9. \A s \in KnownSlots(b, more) : s \in Slots /\ s \in own
  BY <1>8
<1> QED BY <1>7, <1>8, <1>9 DEF Refilled

\* scarcity.py: refilling its windows leaves a model known that was, with no penalty, and unknown what was unknown.
LEMMA RefilledAssessment ==
    ASSUME NEW c, c.bindings # Null => c.bindings # {} /\ \A b \in c.bindings : b.provider \in Providers,
           NEW snap, NEW more, NEW own, Refilled(snap, more, own), own = IF c.bindings = Null THEN {} ELSE OwnSlots(c, snap),
           AssessScarcity(c, snap).state # "unavailable", AssessScarcity(c, snap) # Raised
    PROVE  \/ AssessScarcity(c, more) = AssessScarcity(c, snap) /\ AssessScarcity(c, snap).state = "unknown"
           \/ AssessScarcity(c, snap).state = "known" /\ AssessScarcity(c, more).state = "known" /\ AssessScarcity(c, more).penalty = 0
<1>1. CASE c.bindings = Null
  <2>1. AssessScarcity(c, snap) = UnknownAssessment({"capacity_bindings_unknown"}, {})
    BY <1>1 DEF AssessScarcity
  <2>2. AssessScarcity(c, more) = UnknownAssessment({"capacity_bindings_unknown"}, {})
    BY <1>1 DEF AssessScarcity
  <2> QED BY <2>1, <2>2 DEF UnknownAssessment
<1>2. CASE c.bindings # Null
  <2> DEFINE reasons(x) == UNION {BindingReasons(b, x) : b \in c.bindings}
             known(x) == UNION {KnownSlots(b, x) : b \in c.bindings}
  <2>1. \A s \in own : s \in Slots /\ Remaining(s, snap) \in 0..100 /\ Remaining(s, snap) \notin {NoWindow, Unknown}
    <3>1. Readable(snap)
      BY DEF Refilled
    <3>2. \A b \in c.bindings : \A s \in KnownSlots(b, snap) : s \in Slots /\ Remaining(s, snap) \in 0..100
      BY <3>1, KnownIsPercentage
    <3>3. \A i \in 0..100 : i \notin {NoWindow, Unknown}
      BY SentinelAssumption, NullAssumption
    <3> QED BY <1>2, <3>2, <3>3 DEF OwnSlots
  <2>2. \A b \in c.bindings : /\ BindingReasons(b, more) = BindingReasons(b, snap) /\ KnownSlots(b, more) = KnownSlots(b, snap)
                              /\ \A s \in KnownSlots(b, more) : Remaining(s, more) = 100
    <3> SUFFICES ASSUME NEW b \in c.bindings
                 PROVE  /\ BindingReasons(b, more) = BindingReasons(b, snap) /\ KnownSlots(b, more) = KnownSlots(b, snap)
                        /\ \A s \in KnownSlots(b, more) : Remaining(s, more) = 100
      OBVIOUS
    <3>1. KnownSlots(b, snap) \subseteq own /\ b.provider \in Providers
      BY <1>2 DEF OwnSlots
    <3>2. own \subseteq Slots /\ \A s \in own : Remaining(s, snap) \notin {NoWindow, Unknown}
      BY <2>1
    <3> QED BY <3>1, <3>2, RefilledBinding
  <2>3. reasons(more) = reasons(snap) /\ known(more) = known(snap) /\ known(snap) \subseteq Slots
        /\ \A s \in known(snap) : Remaining(s, more) = 100
    <3>1. reasons(more) = reasons(snap) /\ known(more) = known(snap) /\ \A s \in known(snap) : Remaining(s, more) = 100
      BY <2>2
    <3> QED BY <1>2, <2>1, <3>1 DEF OwnSlots
  <2>4. \A x : AssessScarcity(c, x) = Assessed(c, reasons(x), known(x), Exhausted(known(x), x), RoleEvidence(Exhausted(known(x), x), x),
                                              RoleEvidence(OfRole(known(x), Strategic), x), RoleEvidence(OfRole(known(x), Tactical), x))
    BY <1>2, AssessmentInParts
  <2> DEFINE R == reasons(snap)
             K == known(snap)
             a(x) == AssessScarcity(c, x)
             st(x) == RoleEvidence(OfRole(K, Strategic), x)
             ta(x) == RoleEvidence(OfRole(K, Tactical), x)
  <2>5. \A x \in {snap, more} : a(x) = Assessed(c, R, K, Exhausted(K, x), RoleEvidence(Exhausted(K, x), x), st(x), ta(x))
    <3> HIDE DEF reasons, known
    <3> QED BY <2>3, <2>4 DEF R, K
  <2> HIDE DEF reasons, known, st, ta
  <2>6. Exhausted(K, snap) = {}
    <3>1. Exhausted(K, snap) # {} => a(snap).state = "unavailable"
      BY <2>5 DEF Assessed
    <3> QED BY <3>1
  <2>7. Exhausted(K, more) = {}
    BY <2>3 DEF Exhausted, K
  <2>8. CASE R # {}
    <3>1. a(snap) = UnknownAssessment(R, c.bindings) /\ a(more) = UnknownAssessment(R, c.bindings)
      BY <2>5, <2>6, <2>7, <2>8 DEF Assessed
    <3> QED BY <3>1 DEF UnknownAssessment
  <2>9. CASE R = {}
    <3>1. K # {}
      <4>1. K = {} => a(snap) = Raised
        BY <2>5, <2>6, <2>9 DEF Assessed
      <4> QED BY <4>1
    <3>2. \A x \in {snap, more} : /\ a(x).state = "known"
                                  /\ a(x).penalty = Penalty(Blend(IF ta(x) = Null THEN Null ELSE ta(x).remaining, IF st(x) = Null THEN Null ELSE st(x).remaining))
      BY <2>5, <2>6, <2>7, <2>9, <3>1 DEF Assessed
    <3>3. \A role \in {Strategic, Tactical} :
             LET pool == OfRole(K, role)
             IN  /\ pool = {} => RoleEvidence(pool, more) = Null
                 /\ pool # {} => RoleEvidence(pool, more) # Null /\ RoleEvidence(pool, more).remaining = 100
      <4> SUFFICES ASSUME NEW role \in {Strategic, Tactical}
                   PROVE  LET pool == OfRole(K, role)
                          IN  /\ pool = {} => RoleEvidence(pool, more) = Null
                              /\ pool # {} => RoleEvidence(pool, more) # Null /\ RoleEvidence(pool, more).remaining = 100
        OBVIOUS
      <4> DEFINE pool == OfRole(K, role)
                 g == PickGoverning(pool, more)
      <4>1. pool \subseteq K
        BY DEF OfRole
      <4>2. K \subseteq Slots /\ \A s \in K : Remaining(s, more) = 100
        BY <2>3 DEF K
      <4> HIDE DEF pool, K
      <4>3. pool # {} => g \in pool
        BY <4>1, <4>2, GoverningIsOne
      <4> HIDE DEF g
      <4>4. pool # {} => RoleEvidence(pool, more) = [slot |-> g, remaining |-> 100] /\ g \in Slots
        BY <4>1, <4>2, <4>3 DEF RoleEvidence, Evidence, g
      <4>5. g \in Slots => [slot |-> g, remaining |-> 100] \in Evidences
        BY DEF Evidences
      <4>6. pool = {} => RoleEvidence(pool, more) = Null
        BY DEF RoleEvidence
      <4> QED BY <4>4, <4>5, <4>6, SentinelAssumption, NullAssumption DEF pool
    <3>4. (st(more) = Null \/ st(more).remaining = 100) /\ (ta(more) = Null \/ ta(more).remaining = 100) /\ (st(more) # Null \/ ta(more) # Null)
      BY <3>1, <3>3, RolesAreTwo DEF st, ta
    <3> DEFINE t == IF ta(more) = Null THEN Null ELSE ta(more).remaining
               u == IF st(more) = Null THEN Null ELSE st(more).remaining
    <3>5. t \in {100, Null} /\ u \in {100, Null} /\ (t # Null \/ u # Null)
      BY <3>4, SentinelAssumption, NullAssumption
    <3>6. a(more).penalty = Penalty(Blend(t, u))
      BY <3>2
    <3> HIDE DEF t, u
    <3>7. Blend(t, u) = 100
      BY <3>5 DEF Blend, Ratio
    <3>8. Penalty(100) = 0
      BY DEF Penalty
    <3> QED BY <3>2, <3>6, <3>7, <3>8
  <2> QED BY <2>8, <2>9
<1> QED BY <1>1, <1>2

\* policy.py: a rule that neither failed nor blocked does neither once its windows are refilled.
LEMMA RefilledReservation ==
    ASSUME NEW r, r.below \in 1..100, r.scope.provider \in Providers, NEW snap, NEW more, NEW own, Refilled(snap, more, own),
           KnownSlots(r.scope, snap) \subseteq own, \A s \in own : Remaining(s, snap) \notin {NoWindow, Unknown}, NEW level,
           EvaluateReservation(r, snap, level).state # "unknown"
    PROVE  EvaluateReservation(r, more, level).state # "unknown" /\ EvaluateReservation(r, more, level).blocked # TRUE
<1> DEFINE slots(x) == {s \in SlotsOfScope(r.scope) :
                          /\ SlotOf[s].resource = r.resource /\ SlotOf[s].kind = r.kind
                          /\ Remaining(s, x) # NoWindow}
           least(x) == Min({Remaining(s, x) : s \in slots(x)})
           d(x) == EvaluateReservation(r, x, level)
<1>2. /\ snap[r.scope.provider] # Null /\ more[r.scope.provider] # Null
      /\ more[r.scope.provider].status = snap[r.scope.provider].status
  BY DEF Refilled
<1>3. \A cause : ReservationUnknown(cause).state = "unknown"
  BY DEF ReservationUnknown
<1>4. /\ snap[r.scope.provider].status = "ok" /\ slots(snap) # {} /\ \A s \in slots(snap) : Remaining(s, snap) # Unknown
  BY <1>2, <1>3 DEF EvaluateReservation
<1>5. \A s \in SlotsOfScope(r.scope) : s \in Slots /\ Remaining(s, snap) = snap[r.scope.provider].wins[s]
  BY DEF SlotsOfScope, Remaining
<1>6. 100 \notin {NoWindow, Unknown}
  BY SentinelAssumption, NullAssumption
<1>7. slots(more) = slots(snap)
  BY <1>5, <1>6 DEF Refilled
<1>8. \A s \in slots(snap) : s \in own /\ Remaining(s, more) = 100
  BY <1>2, <1>4, <1>5 DEF Refilled, KnownSlots
<1>9. least(more) = 100
  <2> DEFINE T == {Remaining(s, more) : s \in slots(more)}
  <2>1. T = {100}
    BY <1>4, <1>7, <1>8
  <2>2. Min({100}) = 100
    <3>1. Min({100}) \in {100}
      BY LeastExists, {100} \subseteq Nat, {100} # {}
    <3> QED BY <3>1
  <2> QED BY <2>1, <2>2
<1>10. more[r.scope.provider].status = "ok" /\ slots(more) # {} /\ \A s \in slots(more) : Remaining(s, more) # Unknown
  BY <1>2, <1>4, <1>6, <1>7, <1>8
<1>11. d(more) = [state |-> "known", triggered |-> least(more) < r.below, blocked |-> Reserves(r, least(more) < r.below, level), remaining |-> least(more),
                  codes |-> IF ~(least(more) < r.below) THEN {}
                            ELSE {"reservation_triggered", IF Reserves(r, least(more) < r.below, level) THEN "reservation_blocked"
                                                           ELSE "reservation_permitted_by_task_level"}]
  BY <1>2, <1>10 DEF EvaluateReservation
<1>12. ~(least(more) < r.below)
  BY <1>9
<1> HIDE DEF least, d
<1>13. d(more).state = "known" /\ d(more).blocked = FALSE
  <2>1. Reserves(r, least(more) < r.below, level) = FALSE
    BY <1>12 DEF Reserves
  <2> QED BY <1>11, <2>1
<1> QED BY <1>13 DEF d

\* policy.py: a rule reads the windows of its scope only.
LEMMA SameReservation ==
    ASSUME NEW r, NEW snap, NEW more, SameOn(r.scope, snap, more), NEW level
    PROVE  EvaluateReservation(r, more, level) = EvaluateReservation(r, snap, level)
<1> DEFINE slots(x) == {s \in SlotsOfScope(r.scope) :
                          /\ SlotOf[s].resource = r.resource /\ SlotOf[s].kind = r.kind
                          /\ Remaining(s, x) # NoWindow}
           values(x) == {Remaining(s, x) : s \in slots(x)}
           known(least) == [state |-> "known", triggered |-> least < r.below, blocked |-> Reserves(r, least < r.below, level), remaining |-> least,
                            codes |-> IF ~(least < r.below) THEN {}
                                      ELSE {"reservation_triggered", IF Reserves(r, least < r.below, level) THEN "reservation_blocked"
                                                                     ELSE "reservation_permitted_by_task_level"}]
<1>1. /\ snap[r.scope.provider] = Null <=> more[r.scope.provider] = Null
      /\ snap[r.scope.provider].status = more[r.scope.provider].status
  BY DEF SameOn
<1>2. \A s \in SlotsOfScope(r.scope) : Remaining(s, more) = Remaining(s, snap)
  BY SameScope
<1>3. slots(more) = slots(snap) /\ ((\E s \in slots(more) : Remaining(s, more) = Unknown) <=> \E s \in slots(snap) : Remaining(s, snap) = Unknown)
  BY <1>2
<1>4. values(more) = values(snap)
  BY <1>2, <1>3
<1>5. \A x : EvaluateReservation(r, x, level) =
                IF x[r.scope.provider] = Null THEN ReservationUnknown("reservation_scope_snapshot_missing")
                ELSE IF x[r.scope.provider].status # "ok" THEN ReservationUnknown("reservation_scope_snapshot_not_ok")
                ELSE IF \E s \in slots(x) : Remaining(s, x) = Unknown THEN ReservationUnknown("reservation_percentage_unknown")
                ELSE IF slots(x) = {} THEN ReservationUnknown("reservation_window_missing")
                ELSE known(Min(values(x)))
  BY Zenon DEF EvaluateReservation
<1> HIDE DEF slots, values, known
<1> QED BY <1>1, <1>3, <1>4, <1>5

\* Inputs that differ in the readings only.
Besides(inp, other) ==
    /\ other.req = inp.req /\ other.pol = inp.pol /\ other.now = inp.now /\ other.resets = inp.resets
    /\ other.blocked = inp.blocked /\ other.elig = inp.elig

\* selector.py: the evaluation of a model reads the windows of its bindings only.
LEMMA SameEvaluation ==
    ASSUME NEW d, NEW inp, NEW other, Besides(inp, other), NEW snap, snap = inp.snap, NEW more, more = other.snap, Readable(snap),
           d.bindings # Null => \A b \in d.bindings : SameOn(b, snap, more)
    PROVE  EvaluateCandidate(d, other) = EvaluateCandidate(d, inp)
<1>1. AssessScarcity(d, more) = AssessScarcity(d, snap)
  BY SameAssessment
<1> DEFINE applicable == {r \in inp.pol.reservations : d.bindings # Null /\ r.scope \in d.bindings}
           level == inp.req.level
<1>2. \A r \in applicable : EvaluateReservation(r, more, level) = EvaluateReservation(r, snap, level)
  <2> SUFFICES ASSUME NEW r \in applicable PROVE EvaluateReservation(r, more, level) = EvaluateReservation(r, snap, level)
    OBVIOUS
  <2>1. SameOn(r.scope, snap, more)
    OBVIOUS
  <2> HIDE DEF applicable, level
  <2> QED BY <2>1, SameReservation
<1> DEFINE rs == ReservationsOf(d, inp.pol, level, snap)
           rs2 == ReservationsOf(d, inp.pol, level, more)
<1>3. rs2 = rs
  BY <1>2 DEF ReservationsOf
<1> DEFINE a == AssessScarcity(d, snap)
           a2 == AssessScarcity(d, more)
<1>4. EvaluateCandidate(d, inp) = Verdict(d, inp.req, inp.pol, inp.now, inp.resets, inp.blocked, inp.elig, a, rs)
  <2>1. EvaluateCandidate(d, inp) = Verdict(d, inp.req, inp.pol, inp.now, inp.resets, inp.blocked, inp.elig, AssessScarcity(d, inp.snap),
                                            ReservationsOf(d, inp.pol, inp.req.level, inp.snap))
    BY EvaluationInParts
  <2> QED BY <2>1, Zenon
<1>5. EvaluateCandidate(d, other) = Verdict(d, other.req, other.pol, other.now, other.resets, other.blocked, other.elig, a2,
                                            ReservationsOf(d, other.pol, other.req.level, more))
  <2>1. EvaluateCandidate(d, other) = Verdict(d, other.req, other.pol, other.now, other.resets, other.blocked, other.elig, AssessScarcity(d, other.snap),
                                              ReservationsOf(d, other.pol, other.req.level, other.snap))
    BY EvaluationInParts
  <2> QED BY <2>1, Zenon
<1>6. EvaluateCandidate(d, other) = Verdict(d, inp.req, inp.pol, inp.now, inp.resets, inp.blocked, inp.elig, a2, rs2)
  BY <1>5 DEF Besides
<1>7. a2 = a
  BY <1>1
<1> HIDE DEF a, a2, rs, rs2
<1> QED BY <1>3, <1>4, <1>6, <1>7

\* selector.py: a model that was eligible is eligible with its windows refilled, and nothing of its rank but the penalty changes, which falls.
LEMMA RefilledIsEligible ==
    ASSUME NEW c \in Entries, EntryAccepted(c), NEW inp, InputsSound(inp), NEW other, Besides(inp, other),
           NEW snap, snap = inp.snap, NEW more, more = other.snap, NEW own, own = IF c.bindings = Null THEN {} ELSE OwnSlots(c, snap),
           Refilled(snap, more, own), EvaluateCandidate(c, inp).eligible
    PROVE  LET e == EvaluateCandidate(c, inp)
               f == EvaluateCandidate(c, other)
           IN  /\ f.eligible /\ f.id = c.id /\ e.id = c.id /\ f.happy = e.happy
               /\ e.scarcity # Null /\ f.scarcity # Null /\ f.scarcity.state = e.scarcity.state
               /\ e.scarcity.state = "known" => e.scarcity.penalty \in Nat /\ f.scarcity.penalty \in Nat /\ f.scarcity.penalty <= e.scarcity.penalty
<1> DEFINE level == inp.req.level
           a == AssessScarcity(c, snap)
           a2 == AssessScarcity(c, more)
           rs == ReservationsOf(c, inp.pol, level, snap)
           rs2 == ReservationsOf(c, inp.pol, level, more)
           e == EvaluateCandidate(c, inp)
           f == EvaluateCandidate(c, other)
<1>0. c.bindings # Null => c.bindings # {} /\ \A b \in c.bindings : b.provider \in Providers
  BY SelectionAssumption DEF EntryAccepted, EntryTyped
<1>1. e = Verdict(c, inp.req, inp.pol, inp.now, inp.resets, inp.blocked, inp.elig, a, rs)
  <2>1. e = Verdict(c, inp.req, inp.pol, inp.now, inp.resets, inp.blocked, inp.elig, AssessScarcity(c, inp.snap),
                    ReservationsOf(c, inp.pol, inp.req.level, inp.snap))
    BY EvaluationInParts
  <2> QED BY <2>1, Zenon
<1>2. f = Verdict(c, inp.req, inp.pol, inp.now, inp.resets, inp.blocked, inp.elig, a2, rs2)
  <2>1. f = Verdict(c, other.req, other.pol, other.now, other.resets, other.blocked, other.elig, AssessScarcity(c, other.snap),
                    ReservationsOf(c, other.pol, other.req.level, other.snap))
    BY EvaluationInParts
  <2>2. f = Verdict(c, other.req, other.pol, other.now, other.resets, other.blocked, other.elig, a2, ReservationsOf(c, other.pol, other.req.level, more))
    BY <2>1, Zenon
  <2> QED BY <2>2 DEF Besides
<1>3. PassesAll(c, inp.req, inp.pol, inp.now, inp.blocked, inp.elig, a, rs)
      /\ e.id = c.id /\ e.scarcity = a /\ e.happy = (FirstHappyHour(inp.pol.happyHours, c, inp.now) # Null)
  <2>1. e.eligible
    OBVIOUS
  <2> HIDE DEF e, a, rs
  <2> QED BY <1>1, <2>1, VerdictIsPassed
<1>4. Readable(snap) /\ (\A r \in inp.pol.reservations : ReservationRuleAccepted(r)) /\ inp.pol.mode \in {"degraded", "blocked"}
  BY DEF InputsSound, SelectorPolicyAccepted, UserPolicyAccepted, PolicyTyped
<1>5. Sound(a, c, snap)
  BY <1>4, AssessmentIsSound, EntriesAreTyped
<1>6. a.state # "unavailable" /\ a # Raised /\ a # Null
  <2>1. UnknownCapacity(inp.pol.mode, a).eligible
    BY <1>3 DEF PassesAll
  <2> HIDE DEF a
  <2>2. a.state # "unavailable"
    BY <1>4, <1>5, <2>1, CapacityIsSound DEF Sound
  <2> QED BY <1>5, <2>2, SentinelAssumption DEF Sound
<1>7. \/ a2 = a /\ a.state = "unknown"
      \/ a.state = "known" /\ a2.state = "known" /\ a2.penalty = 0
  BY <1>0, <1>6, RefilledAssessment
<1>8. Readable(more)
  BY DEF Refilled
<1>9. Sound(a2, c, more)
  BY <1>8, AssessmentIsSound, EntriesAreTyped
<1>10. a2 # Null
  BY <1>9, SentinelAssumption, NullAssumption DEF Sound
<1>11. \A r \in rs2 : r.state # "unknown" /\ r.blocked # TRUE
  <2> SUFFICES ASSUME NEW r \in inp.pol.reservations, c.bindings # Null, r.scope \in c.bindings
               PROVE  EvaluateReservation(r, more, level).state # "unknown" /\ EvaluateReservation(r, more, level).blocked # TRUE
    BY DEF ReservationsOf
  <2>1. r.below \in 1..100 /\ r.scope.provider \in Providers
    BY <1>0, <1>4 DEF ReservationRuleAccepted
  <2>2. EvaluateReservation(r, snap, level) \in rs
    BY DEF ReservationsOf
  <2>3. EvaluateReservation(r, snap, level).state # "unknown"
    <3> HIDE DEF rs
    <3> QED BY <1>3, <2>2 DEF PassesAll
  <2>4. KnownSlots(r.scope, snap) \subseteq own
    BY DEF OwnSlots
  <2>5. \A s \in own : Remaining(s, snap) \notin {NoWindow, Unknown}
    <3>1. \A b \in c.bindings : \A s \in KnownSlots(b, snap) : Remaining(s, snap) \in 0..100
      BY <1>4, KnownIsPercentage
    <3>2. \A i \in 0..100 : i \notin {NoWindow, Unknown}
      BY SentinelAssumption, NullAssumption
    <3> QED BY <3>1, <3>2 DEF OwnSlots
  <2> HIDE DEF level
  <2> QED BY <2>1, <2>3, <2>4, <2>5, RefilledReservation
<1> HIDE DEF a, a2, rs, rs2, e, f
<1>12. UnknownCapacity(inp.pol.mode, a2).eligible
  <2>1. UnknownCapacity(inp.pol.mode, a).eligible
    BY <1>3 DEF PassesAll
  <2>2. a2.state = "known" => UnknownCapacity(inp.pol.mode, a2).eligible
    BY DEF UnknownCapacity
  <2> QED BY <1>7, <2>1, <2>2
<1>13. PassesAll(c, inp.req, inp.pol, inp.now, inp.blocked, inp.elig, a2, rs2)
  BY <1>3, <1>11, <1>12 DEF PassesAll
<1>14. f.eligible /\ f.id = c.id /\ f.scarcity = a2 /\ f.happy = (FirstHappyHour(inp.pol.happyHours, c, inp.now) # Null)
  BY <1>2, <1>13, VerdictIsPassed
<1>15. a.state = "known" => a.penalty \in Nat /\ a2.penalty \in Nat /\ a2.penalty <= a.penalty
  BY <1>5, <1>7 DEF Sound
<1> QED BY <1>3, <1>6, <1>7, <1>10, <1>14, <1>15 DEF e, f

\* selector.py: the key of an evaluation that is no worse in any part the key has.
LEMMA RankFalls ==
    ASSUME NEW e, Evaluated(e), NEW f, Evaluated(f), NEW c \in Entries, NEW preference \in Seq(Nat),
           f.id = e.id, f.happy = e.happy, e.scarcity # Null, f.scarcity # Null, f.scarcity.state = e.scarcity.state,
           e.scarcity.state = "known" => e.scarcity.penalty \in Nat /\ f.scarcity.penalty \in Nat /\ f.scarcity.penalty <= e.scarcity.penalty
    PROVE  LET k == RankingKey(e, c, preference)
               l == RankingKey(f, c, preference)
           IN  l[3] <= k[3] /\ \A n \in 1..8 \ {3} : l[n] = k[n]
<1> DEFINE known == e.scarcity.state = "known"
           preferred == \E i \in DOMAIN preference : preference[i] = e.id
           k1 == IF known THEN 0 ELSE 1
           k2 == IF e.happy THEN 0 ELSE 1
           k4 == IF c.effort = Null THEN 1 ELSE 0
           k5 == IF c.effort = Null THEN 0 ELSE Index(Efforts, c.effort)
           k6 == IF preferred THEN 0 ELSE 1
           k7 == IF preferred THEN Index(preference, e.id) ELSE 0
           p == IF known THEN e.scarcity.penalty ELSE 0
           q == IF known THEN f.scarcity.penalty ELSE 0
           id == e.id
<1>1. RankingKey(e, c, preference) = <<k1, k2, p, k4, k5, k6, k7, id>>
  BY Zenon DEF RankingKey, LeastUsedFirst
<1>2. RankingKey(f, c, preference) = <<k1, k2, q, k4, k5, k6, k7, id>>
  <2>1. RankingKey(f, c, preference) =
           <<IF f.scarcity # Null /\ f.scarcity.state = "known" THEN 0 ELSE 1, IF f.happy THEN 0 ELSE 1,
             IF f.scarcity # Null /\ f.scarcity.state = "known" THEN f.scarcity.penalty ELSE 0, k4, k5,
             IF \E i \in DOMAIN preference : preference[i] = f.id THEN 0 ELSE 1,
             IF \E i \in DOMAIN preference : preference[i] = f.id THEN Index(preference, f.id) ELSE 0, f.id>>
    BY Zenon DEF RankingKey, LeastUsedFirst
  <2>2. (f.scarcity # Null /\ f.scarcity.state = "known") = known
    OBVIOUS
  <2> HIDE DEF k4, k5
  <2> QED BY <2>1, <2>2, Zenon
<1>3. q <= p
  OBVIOUS
<1> HIDE DEF k1, k2, k4, k5, k6, k7, p, q, id
<1>4. <<k1, k2, q, k4, k5, k6, k7, id>>[3] = q /\ <<k1, k2, p, k4, k5, k6, k7, id>>[3] = p
      /\ \A n \in 1..8 \ {3} : <<k1, k2, q, k4, k5, k6, k7, id>>[n] = <<k1, k2, p, k4, k5, k6, k7, id>>[n]
  OBVIOUS
<1> QED BY <1>1, <1>2, <1>3, <1>4

\* selector.py: the evaluations of a catalog, as a decision on them needs them.
LEMMA EvaluationsAreSound ==
    ASSUME CatalogAccepted(Entries), NEW inp, InputsSound(inp)
    PROVE  /\ \A c \in Entries : Evaluated(EvaluateCandidate(c, inp)) /\ EvaluateCandidate(c, inp).id = c.id
           /\ Picked(SelectModel(Entries, inp), Entries, {EvaluateCandidate(c, inp) : c \in Entries}, inp.pol)
<1> DEFINE evals == {EvaluateCandidate(c, inp) : c \in Entries}
           pol == inp.pol
           instant == inp.now
<1>1. ASSUME NEW c \in Entries
      PROVE  Evaluated(EvaluateCandidate(c, inp)) /\ EvaluateCandidate(c, inp).id = c.id
  <2>1. EntryAccepted(c)
    BY DEF CatalogAccepted
  <2> QED BY <2>1, CandidateIsSound, EntriesAreTyped
<1>2. \A c \in Entries, b \in Entries : c.id = b.id => c = b
  BY DEF CatalogAccepted
<1>3. \A e \in evals : Evaluated(e) /\ \E c \in Entries : e.id = c.id
  BY <1>1
<1>4. \A e \in evals, f \in evals : e.id = f.id => e = f
  BY <1>1, <1>2
<1>5. PolicyTyped(pol)
  BY DEF InputsSound
<1>6. SelectModel(Entries, inp) = AssembleEvaluations(Entries, evals, pol, instant)
  BY Zenon DEF SelectModel
<1> HIDE DEF evals, pol, instant
<1>7. Picked(AssembleEvaluations(Entries, evals, pol, instant), Entries, evals, pol)
  BY <1>3, <1>4, <1>5, OneIsSelected, EntriesAreTyped
<1> QED BY <1>1, <1>6, <1>7 DEF evals, pol

\* selector.py: the model that was selected is selected again when its rank rises and that of no other model changes.
LEMMA FirstStaysFirst ==
    ASSUME CatalogAccepted(Entries), NEW inp, InputsSound(inp), NEW other, InputsSound(other), other.pol = inp.pol,
           SelectModel(Entries, inp).selected # Null, NEW c \in Entries, SelectModel(Entries, inp).selected.id = c.id,
           \A d \in Entries \ {c} : EvaluateCandidate(d, other) = EvaluateCandidate(d, inp),
           NEW e, e = EvaluateCandidate(c, inp), NEW f, f = EvaluateCandidate(c, other),
           f.eligible, f.happy = e.happy, e.scarcity # Null, f.scarcity # Null, f.scarcity.state = e.scarcity.state,
           e.scarcity.state = "known" => e.scarcity.penalty \in Nat /\ f.scarcity.penalty \in Nat /\ f.scarcity.penalty <= e.scarcity.penalty
    PROVE  SelectModel(Entries, other).selected.id = c.id
<1> DEFINE pol == inp.pol
           was == {EvaluateCandidate(d, inp) : d \in Entries}
           are == {EvaluateCandidate(d, other) : d \in Entries}
           x == SelectModel(Entries, inp)
           y == SelectModel(Entries, other)
           g == y.selected
           key(z) == KeyOf(Entries, z, pol)
<1>1. /\ \A d \in Entries : Evaluated(EvaluateCandidate(d, inp)) /\ EvaluateCandidate(d, inp).id = d.id
      /\ Picked(x, Entries, was, pol)
  BY EvaluationsAreSound
<1>2. /\ \A d \in Entries : Evaluated(EvaluateCandidate(d, other)) /\ EvaluateCandidate(d, other).id = d.id
      /\ Picked(y, Entries, are, pol)
  BY EvaluationsAreSound
<1>3. \A a \in Entries, b \in Entries : a.id = b.id => a = b
  BY DEF CatalogAccepted
<1> HIDE DEF x, y
<1>4. /\ x.selected \in {z \in was : z.eligible}
      /\ \A z \in {z \in was : z.eligible} \ {x.selected} : Before(key(x.selected), key(z))
  BY <1>1 DEF Picked, x
<1>5. x.selected = e
  <2>1. PICK d \in Entries : x.selected = EvaluateCandidate(d, inp)
    BY <1>4
  <2>2. d.id = c.id
    BY <1>1, <2>1 DEF x
  <2> QED BY <1>3, <2>1, <2>2
<1>6. f \in {z \in are : z.eligible}
  OBVIOUS
<1>7. g \in {z \in are : z.eligible} /\ \A z \in {z \in are : z.eligible} \ {g} : Before(key(g), key(z))
  BY <1>2, <1>6 DEF Picked
<1>8. PICK d \in Entries : g = EvaluateCandidate(d, other)
  BY <1>7
<1>9. CASE d = c
  BY <1>2, <1>8, <1>9 DEF y
<1>10. CASE d # c
  <2>1. g = EvaluateCandidate(d, inp) /\ g \in {z \in was : z.eligible} /\ g.id # e.id /\ g.id # f.id
    BY <1>1, <1>2, <1>3, <1>7, <1>8, <1>10
  <2>2. Before(key(e), key(g))
    BY <1>4, <1>5, <2>1
  <2>3. Before(key(g), key(f))
    BY <1>6, <1>7, <2>1
  <2>4. pol.preference \in Seq(Nat)
    BY DEF InputsSound, PolicyTyped
  <2>5. Evaluated(e) /\ Evaluated(f) /\ Evaluated(g) /\ e.id = c.id /\ f.id = c.id /\ g.id = d.id
    BY <1>1, <1>2, <1>8
  <2> DEFINE preference == pol.preference
             entryC == CHOOSE b \in Entries : b.id = e.id
             entryD == CHOOSE b \in Entries : b.id = g.id
             k == RankingKey(e, entryC, preference)
             m == RankingKey(f, entryC, preference)
             l == RankingKey(g, entryD, preference)
  <2>6. entryC \in Entries /\ entryD \in Entries
    BY <2>5
  <2>7. key(e) = k /\ key(g) = l
    BY Zenon DEF KeyOf
  <2>8. key(f) = m
    <3>1. key(f) = RankingKey(f, CHOOSE b \in Entries : b.id = f.id, preference)
      BY Zenon DEF KeyOf
    <3>2. (CHOOSE b \in Entries : b.id = f.id) = entryC
      BY <2>5
    <3> QED BY <3>1, <3>2, Zenon
  <2>9. preference \in Seq(Nat)
    BY <2>4
  <2> HIDE DEF entryC, entryD, key, pol, preference, g
  <2>10. k \in [1..8 -> Nat] /\ l \in [1..8 -> Nat] /\ m \in [1..8 -> Nat]
    BY <2>5, <2>6, <2>9, KeyIsNumbers, EntriesAreTyped
  <2>11. m[3] <= k[3] /\ \A n \in 1..8 \ {3} : m[n] = k[n]
    BY <2>5, <2>6, <2>9, RankFalls
  <2> HIDE DEF k, l, m
  <2>12. Before(m, l)
    <3>1. Before(k, l) /\ 3 \in 1..8
      BY <2>2, <2>7
    <3> QED BY <2>10, <2>11, <3>1, LowerStaysBefore
  <2>13. Before(l, m)
    BY <2>3, <2>7, <2>8
  <2> QED BY <2>10, <2>12, <2>13, BeforeIsAsymmetric
<1> QED BY <1>9, <1>10

\* selector.py: refilling windows of one provider changes these readings and nothing else.
LEMMA RefillIsRefilled ==
    ASSUME NEW inp, IsInputs(inp), InputsSound(inp), DOMAIN inp.snap = Providers, \A p \in Providers : IsSnapshot(inp.snap[p]),
           NEW p \in Providers, NEW own \in SUBSET Slots, \A s \in own : SlotOf[s].provider = p
    PROVE  LET other == Refill(inp, p, own)
           IN  /\ Besides(inp, other) /\ InputsSound(other) /\ Refilled(inp.snap, other.snap, own)
               /\ \A q \in Providers : \A s \in Slots \ own : other.snap[q].wins[s] = inp.snap[q].wins[s]
<1> DEFINE snap == inp.snap
           wins == [s \in Slots |-> IF s \in own THEN 100 ELSE snap[p].wins[s]]
           reading == [snap[p] EXCEPT !.wins = wins]
           more == [snap EXCEPT ![p] = reading]
           other == Refill(inp, p, own)
<1>1. other = [inp EXCEPT !.snap = more]
  BY Zenon DEF Refill
<1>2. IsSnapshot(snap[p]) /\ snap[p] \in Snapshots
  BY DEF IsSnapshot
<1>3. wins \in [Slots -> {NoWindow, Unknown} \cup 0..100] /\ \A s \in Slots : wins[s] = IF s \in own THEN 100 ELSE snap[p].wins[s]
  <2>1. \A s \in Slots : snap[p].wins[s] \in {NoWindow, Unknown} \cup 0..100
    BY <1>2 DEF IsSnapshot, SnapshotAccepted
  <2> HIDE DEF snap
  <2> QED BY <2>1
<1>4. Readable(snap) /\ DOMAIN snap = Providers /\ \A q \in Providers : IsSnapshot(snap[q])
  BY DEF InputsSound
<1> HIDE DEF wins
<1>5. reading.wins = wins /\ reading.status = snap[p].status /\ reading # Null
  <2>1. reading \in Snapshots /\ reading.wins = wins /\ reading.status = snap[p].status
    <3> DEFINE one == snap[p]
    <3>1. one \in Snapshots
      BY <1>2
    <3> HIDE DEF one
    <3>2. [one EXCEPT !.wins = wins] \in Snapshots /\ [one EXCEPT !.wins = wins].wins = wins /\ [one EXCEPT !.wins = wins].status = one.status
      BY <1>3, <3>1 DEF Snapshots
    <3> QED BY <3>2 DEF one
  <2> QED BY <2>1, SentinelAssumption, NullAssumption
<1> HIDE DEF reading
<1>6. more[p] = reading /\ \A q \in Providers \ {p} : more[q] = snap[q]
  <2> HIDE DEF snap
  <2>1. DOMAIN snap = Providers
    BY <1>4
  <2> QED BY <2>1
<1> HIDE DEF more
<1>7. \A q \in Providers : more[q] # Null /\ snap[q] # Null /\ more[q].status = snap[q].status
  <2>1. \A q \in Providers : snap[q] # Null
    BY <1>4, SentinelAssumption, NullAssumption DEF IsSnapshot
  <2> QED BY <1>5, <1>6, <2>1
<1>8. \A q \in Providers, s \in Slots : more[q].wins[s] = IF q = p /\ s \in own THEN 100 ELSE snap[q].wins[s]
  BY <1>3, <1>5, <1>6
<1> HIDE DEF snap
<1>9. Readable(more)
  BY <1>4, <1>7, <1>8 DEF Readable
<1>10. \A s \in Slots : Remaining(s, more) = IF s \in own THEN 100 ELSE Remaining(s, snap)
  BY <1>8, SlotAssumption DEF Remaining
<1>11. Refilled(snap, more, own)
  BY <1>4, <1>7, <1>9, <1>10 DEF Refilled
<1>12. other.snap = more /\ Besides(inp, other)
  BY <1>1 DEF IsInputs, Besides
<1> HIDE DEF other
<1>13. InputsSound(other)
  BY <1>9, <1>12 DEF InputsSound, Besides
<1>14. \A q \in Providers : \A s \in Slots \ own : more[q].wins[s] = snap[q].wins[s]
  BY <1>8
<1> QED BY <1>11, <1>12, <1>13, <1>14 DEF snap, other

\* A call's inputs, the model selected on them and its windows, of which it shares none.
MayRefill(inp, c, own) ==
    /\ CatalogAccepted(Entries) /\ IsInputs(inp) /\ InputsSound(inp) /\ DOMAIN inp.snap = Providers /\ \A p \in Providers : IsSnapshot(inp.snap[p])
    /\ SelectModel(Entries, inp).selected # Null /\ c \in Entries /\ SelectModel(Entries, inp).selected.id = c.id
    /\ own = IF c.bindings = Null THEN {} ELSE UNION {KnownSlots(b, inp.snap) : b \in c.bindings}
    /\ \A d \in Entries \ {c} : d.bindings = Null \/ c.bindings = Null \/ d.bindings \cap c.bindings = {}

\* selector.py: the model that is selected stays so when its own windows are refilled, no other model sharing them.
LEMMA RefilledStaysSelected ==
    ASSUME NEW inp, NEW c, NEW own, MayRefill(inp, c, own)
    PROVE  SelectModel(Entries, Refill(inp, c.provider, own)).selected.id = c.id
<1> USE DEF MayRefill
<1> DEFINE snap == inp.snap
           other == Refill(inp, c.provider, own)
           more == other.snap
           e == EvaluateCandidate(c, inp)
           f == EvaluateCandidate(c, other)
<1>1. EntryAccepted(c) /\ c.provider \in Providers
  BY SelectionAssumption DEF CatalogAccepted, EntryTyped
<1>2. own \in SUBSET Slots /\ \A s \in own : c.bindings # Null /\ \E b \in c.bindings : s \in SlotsOfScope(b)
  BY DEF KnownSlots, SlotsOfScope
<1>3. \A s \in own : SlotOf[s].provider = c.provider
  BY <1>1, <1>2 DEF EntryAccepted, SlotsOfScope
<1>4. /\ Besides(inp, other) /\ InputsSound(other) /\ Refilled(snap, more, own)
      /\ \A q \in Providers : \A s \in Slots \ own : more[q].wins[s] = snap[q].wins[s]
  BY <1>1, <1>2, <1>3, RefillIsRefilled
<1> HIDE DEF other
<1>5. e.eligible
  <2>1. /\ \A d \in Entries : EvaluateCandidate(d, inp).id = d.id
        /\ Picked(SelectModel(Entries, inp), Entries, {EvaluateCandidate(d, inp) : d \in Entries}, inp.pol)
    BY EvaluationsAreSound
  <2> DEFINE x == SelectModel(Entries, inp)
             was == {EvaluateCandidate(d, inp) : d \in Entries}
  <2> HIDE DEF x
  <2>2. x.selected \in {z \in was : z.eligible}
    BY <2>1 DEF Picked, x
  <2>3. PICK d \in Entries : x.selected = EvaluateCandidate(d, inp) /\ EvaluateCandidate(d, inp).eligible
    BY <2>2
  <2>4. d.id = c.id
    BY <2>1, <2>3 DEF x
  <2>5. d = c
    BY <2>4 DEF CatalogAccepted
  <2> QED BY <2>3, <2>5
<1>6. own = IF c.bindings = Null THEN {} ELSE OwnSlots(c, snap)
  BY DEF OwnSlots
<1>7. /\ f.eligible /\ f.happy = e.happy /\ e.scarcity # Null /\ f.scarcity # Null /\ f.scarcity.state = e.scarcity.state
      /\ e.scarcity.state = "known" => e.scarcity.penalty \in Nat /\ f.scarcity.penalty \in Nat /\ f.scarcity.penalty <= e.scarcity.penalty
  <2> DEFINE given == snap
             refilled == more
  <2>1. given = inp.snap /\ refilled = other.snap /\ own = (IF c.bindings = Null THEN {} ELSE OwnSlots(c, given)) /\ Refilled(given, refilled, own)
        /\ EvaluateCandidate(c, inp).eligible
    BY <1>4, <1>5, <1>6
  <2> HIDE DEF given, refilled
  <2>2. LET x == EvaluateCandidate(c, inp)
            y == EvaluateCandidate(c, other)
        IN  /\ y.eligible /\ y.id = c.id /\ x.id = c.id /\ y.happy = x.happy
            /\ x.scarcity # Null /\ y.scarcity # Null /\ y.scarcity.state = x.scarcity.state
            /\ x.scarcity.state = "known" => x.scarcity.penalty \in Nat /\ y.scarcity.penalty \in Nat /\ y.scarcity.penalty <= x.scarcity.penalty
    BY <1>1, <1>4, <2>1, RefilledIsEligible
  <2> QED BY <2>2
<1>8. ASSUME NEW d \in Entries \ {c} PROVE EvaluateCandidate(d, other) = EvaluateCandidate(d, inp)
  <2> DEFINE given == snap
             refilled == more
  <2>1. d.bindings # Null => \A b \in d.bindings : SameOn(b, given, refilled)
    <3> SUFFICES ASSUME d.bindings # Null, NEW b \in d.bindings PROVE SameOn(b, given, refilled)
      OBVIOUS
    <3>1. b.provider = d.provider /\ d.provider \in Providers /\ b = [provider |-> b.provider, scope |-> b.scope]
      BY SelectionAssumption, ScopeAssumption DEF CatalogAccepted, EntryAccepted, EntryTyped
    <3>2. given[b.provider] # Null /\ refilled[b.provider] # Null /\ refilled[b.provider].status = given[b.provider].status
      BY <1>4, <3>1 DEF Refilled
    <3>3. \A s \in SlotsOfScope(b) : s \in Slots \ own
      <4> SUFFICES ASSUME NEW s \in SlotsOfScope(b), s \in own PROVE FALSE
        BY DEF SlotsOfScope
      <4>1. PICK b2 \in c.bindings : c.bindings # Null /\ s \in SlotsOfScope(b2)
        BY <1>2
      <4>2. b2 = [provider |-> b2.provider, scope |-> b2.scope]
        BY <4>1, SelectionAssumption, ScopeAssumption DEF EntryTyped
      <4>3. b2.provider = b.provider /\ b2.scope = b.scope
        BY <4>1 DEF SlotsOfScope
      <4>4. b2 = b
        BY <3>1, <4>2, <4>3
      <4> QED BY <4>1, <4>4
    <3>4. \A s \in SlotsOfScope(b) : refilled[b.provider].wins[s] = given[b.provider].wins[s]
      BY <1>4, <3>1, <3>3
    <3> QED BY <3>2, <3>4 DEF SameOn
  <2>2. given = inp.snap /\ refilled = other.snap /\ Readable(given)
    BY DEF InputsSound
  <2> HIDE DEF given, refilled
  <2> QED BY <1>4, <2>1, <2>2, SameEvaluation
<1>9. other.pol = inp.pol
  BY <1>4 DEF Besides
<1>10. SelectModel(Entries, other).selected.id = c.id
  BY <1>4, <1>7, <1>8, <1>9, FirstStaysFirst
<1> QED BY <1>10 DEF other

\* selector.py: the decision of a call is kept when the windows of its model are refilled.
LEMMA QuotaKeepsInAllStates == SelectionIInv => MoreQuotaKeepsTheSelection
<1> SUFFICES ASSUME SelectionIInv, decision # Null, decision.selected # Null PROVE MoreQuotaKeepsTheSelection
  BY DEF MoreQuotaKeepsTheSelection
<1> DEFINE c == SelectedEntry
           inp == Inputs
           own == IF c.bindings = Null THEN {} ELSE UNION {KnownSlots(b, inp.snap) : b \in c.bindings}
           shared == \E d \in Entries \ {c} : d.bindings # Null /\ c.bindings # Null /\ d.bindings \cap c.bindings # {}
<1>1. c \in Entries /\ pc = "decided" /\ InputsSound(inp)
  BY SelectedIsThatEntry
<1>2. decision = SelectModel(Entries, inp)
  BY <1>1 DEF SelectionIInv, DecisionFacts
<1>3. CatalogAccepted(Entries) /\ (\A p \in Providers : IsSnapshot(inp.snap[p])) /\ IsInputs(inp)
  BY <1>1, InputsAreSound, InputsAreInputs
<1>4. DOMAIN inp.snap = Providers
  BY DEF Inputs
<1>5. SelectModel(Entries, inp).selected.id = c.id
  <2>1. \E d \in Entries : decision.selected.id = d.id
    <3> HIDE DEF inp
    <3> QED BY <1>1, <1>2, <1>3, DecisionIsSound, EntriesAreTyped
  <2> QED BY <1>2, <2>1 DEF SelectedEntry
<1> HIDE DEF inp, c
<1>7. ~shared => SelectModel(Entries, Refill(inp, c.provider, own)).selected.id = c.id
  <2> SUFFICES ASSUME ~shared PROVE SelectModel(Entries, Refill(inp, c.provider, own)).selected.id = c.id
    OBVIOUS
  <2>1. \A d \in Entries \ {c} : d.bindings = Null \/ c.bindings = Null \/ d.bindings \cap c.bindings = {}
    OBVIOUS
  <2>2. SelectModel(Entries, inp).selected # Null
    BY <1>2
  <2> HIDE DEF own
  <2>3. own = IF c.bindings = Null THEN {} ELSE UNION {KnownSlots(b, inp.snap) : b \in c.bindings}
    BY DEF own
  <2>4. CatalogAccepted(Entries) /\ IsInputs(inp) /\ InputsSound(inp) /\ DOMAIN inp.snap = Providers /\ c \in Entries
        /\ \A p \in Providers : IsSnapshot(inp.snap[p])
    BY <1>1, <1>3, <1>4
  <2>5. MayRefill(inp, c, own)
    BY <1>5, <2>1, <2>2, <2>3, <2>4 DEF MayRefill
  <2> QED BY <2>5, RefilledStaysSelected
<1> QED BY <1>7, Zenon DEF MoreQuotaKeepsTheSelection, inp, c

\* selector.py, simulation.py: decisions on related inputs compare as they should, in every state of every call.
THEOREM DecisionsStayComparable == Spec => []DecisionsCompare
<1>1. SelectionIInv => DecisionsCompare
  BY QuotaKeepsInAllStates, NarrowsInAllStates, HypotheticalInAllStates DEF DecisionsCompare
<1> QED BY <1>1, SelectionStays, PTL

-----------------------------------------------------------------------------
(* The router over time: the registry, the request, the steps (RoutingRun). *)

\* An update of the registry, field by field.
LEMMA RecordUpdates ==
    ASSUME NEW r, r = [regs |-> r.regs, obs |-> r.obs, rev |-> r.rev], NEW q, NEW k, NEW x
    PROVE  /\ q = [r EXCEPT !.regs[k] = x, !.rev = @ + 1] => q = [regs |-> [r.regs EXCEPT ![k] = x], obs |-> r.obs, rev |-> r.rev + 1]
           /\ q = [r EXCEPT !.obs[k] = x, !.rev = @ + 1] => q = [regs |-> r.regs, obs |-> [r.obs EXCEPT ![k] = x], rev |-> r.rev + 1]
           /\ q = [r EXCEPT !.obs = x, !.rev = @ + 1] => q = [regs |-> r.regs, obs |-> x, rev |-> r.rev + 1]
<1> DEFINE R == r.regs
           O == r.obs
           V == r.rev
<1>1. r = [regs |-> R, obs |-> O, rev |-> V]
  OBVIOUS
<1> HIDE DEF R, O, V
<1>2. q = [r EXCEPT !.regs[k] = x, !.rev = @ + 1] => q = [regs |-> [R EXCEPT ![k] = x], obs |-> O, rev |-> V + 1]
  BY <1>1
<1>3. q = [r EXCEPT !.obs[k] = x, !.rev = @ + 1] => q = [regs |-> R, obs |-> [O EXCEPT ![k] = x], rev |-> V + 1]
  BY <1>1
<1>4. q = [r EXCEPT !.obs = x, !.rev = @ + 1] => q = [regs |-> R, obs |-> x, rev |-> V + 1]
  BY <1>1
<1> QED BY <1>2, <1>3, <1>4 DEF R, O, V

\* resource_state.py: register keeps the facts of the registry.
LEMMA RegisterKeeps ==
    ASSUME NEW r, NEW instant \in Nat, StoreFacts(r, instant), NEW x \in Registrations, Register(r, x) # Raised
    PROVE  StoreFacts(Register(r, x), instant)
<1> DEFINE id == x.identity.id
           q == [r EXCEPT !.regs[id] = x, !.rev = @ + 1]
<1>1. Register(r, x) = q /\ r.regs[id] = Null
  BY DEF Register, IsRegistered
<1>2. id \in Resources
  BY DEF Resources
<1>3. r = [regs |-> r.regs, obs |-> r.obs, rev |-> r.rev] /\ DOMAIN r.regs = Resources /\ DOMAIN r.obs = Resources
  BY DEF StoreFacts
<1>40. q = [r EXCEPT !.regs[id] = x, !.rev = @ + 1]
  OBVIOUS
<1> HIDE DEF q, id
<1>4. q = [regs |-> [r.regs EXCEPT ![id] = x], obs |-> r.obs, rev |-> r.rev + 1]
  BY <1>3, <1>40, RecordUpdates
<1>5. \A k \in Resources : q.regs[k] = (IF k = id THEN x ELSE r.regs[k]) /\ q.obs[k] = r.obs[k]
  BY <1>2, <1>3, <1>4
<1>6. r.obs[id] = Null
  BY <1>1, <1>2 DEF StoreFacts
<1>7. ASSUME NEW k \in Resources
      PROVE  /\ q.regs[k] # Null => q.regs[k] \in Registrations /\ q.regs[k].identity.id = k
             /\ q.obs[k] # Null => /\ q.regs[k] # Null /\ q.obs[k].identity = q.regs[k].identity
                                   /\ ObservationTyped(q.obs[k]) /\ q.obs[k].at \in Nat /\ q.obs[k].at <= instant
  BY <1>5, <1>6 DEF StoreFacts, id
<1>8. q = [regs |-> q.regs, obs |-> q.obs, rev |-> q.rev] /\ DOMAIN q.regs = Resources /\ DOMAIN q.obs = Resources
  BY <1>3, <1>4
<1> QED BY <1>1, <1>7, <1>8 DEF StoreFacts

\* resource_state.py: an observation that passed the checks is stored under the identity that is registered.
LEMMA CheckedIsStored ==
    ASSUME NEW r, NEW instant \in Nat, StoreFacts(r, instant), NEW p \in Observations, NEW at \in Nat,
           CheckedObservation(r, Canonical(r, Dated(p, at)), instant)
    PROVE  LET c == Canonical(r, Dated(p, at))
           IN  /\ c.identity.id = p.identity.id /\ p.identity.id \in Resources /\ r.regs[c.identity.id] # Null
               /\ c.identity = r.regs[c.identity.id].identity /\ ObservationTyped(c) /\ c.at = at /\ at <= instant
<1> DEFINE o == Dated(p, at)
           id == p.identity.id
           there == r.regs[id].identity
           c == Canonical(r, o)
<1>1. o = [identity |-> p.identity, at |-> at, health |-> p.health, facts |-> p.facts, promotions |-> p.promotions]
  BY DEF Dated
<1> HIDE DEF o
<1>2. id \in Resources /\ ObservationTyped(p)
  BY RoutingAssumption DEF Resources
<1>3. c = IF r.regs[id] # Null /\ p.identity.pools # there.pools THEN [o EXCEPT !.identity = there] ELSE o
  BY <1>1 DEF Canonical, IsRegistered
<1>4. r.regs[id] # Null => r.regs[id] \in Registrations /\ there.id = id
  BY <1>2 DEF StoreFacts
<1>5. c \in {o, [identity |-> there, at |-> at, health |-> p.health, facts |-> p.facts, promotions |-> p.promotions]}
  BY <1>1, <1>3
<1> HIDE DEF c
<1>6. c.identity.id = id
  BY <1>1, <1>3, <1>4, <1>5
<1>70. CheckedObservation(r, c, instant)
  BY DEF c, o
<1>71. c.at = at
  BY <1>1, <1>5
<1>7. r.regs[id] # Null /\ IdentityObservationKey(c.identity) = IdentityObservationKey(there) /\ at <= instant /\ c.at = at
  BY <1>70, <1>71, <1>6 DEF CheckedObservation, IsRegistered, NotInTheFuture
<1>8. RegistrationTyped(r.regs[id])
  BY <1>4, <1>7, RoutingAssumption
<1>9. c.identity = there
  <2>1. CASE p.identity.pools # there.pools
    BY <2>1, <1>1, <1>3, <1>7
  <2>2. CASE p.identity.pools = there.pools
    <3>1. c.identity = p.identity
      BY <2>2, <1>1, <1>3
    <3>2. IdentityTyped(p.identity) /\ IdentityTyped(there)
      BY <1>2, <1>8 DEF ObservationTyped, RegistrationTyped
    <3>3. /\ p.identity.id = there.id /\ p.identity.channel = there.channel /\ p.identity.provider = there.provider
          /\ p.identity.model = there.model /\ p.identity.entitlement = there.entitlement /\ p.identity.variant = there.variant
      BY <1>7, <3>1 DEF IdentityObservationKey
    <3>4. p.identity = there
      BY <2>2, <3>2, <3>3 DEF IdentityTyped
    <3> QED BY <3>1, <3>4
  <2> QED BY <2>1, <2>2
<1>10. c.health = p.health /\ c.facts = p.facts /\ c.promotions = p.promotions
  BY <1>1, <1>5
<1>11. ObservationTyped(c)
  <2>1. IdentityTyped(there) /\ IdentityAccepted(there)
    BY <1>8 DEF RegistrationTyped, RegistrationAccepted
  <2> QED BY <1>2, <1>9, <1>10, <2>1 DEF ObservationTyped, ObservationAccepted
<1> QED BY <1>2, <1>6, <1>7, <1>9, <1>11 DEF c, o

\* resource_state.py: apply_snapshot keeps the facts of the registry.
LEMMA SnapshotKeeps ==
    ASSUME NEW r, NEW instant \in Nat, StoreFacts(r, instant), NEW p \in Observations, NEW at \in Nat,
           ApplySnapshot(r, Dated(p, at), instant) # Raised
    PROVE  StoreFacts(ApplySnapshot(r, Dated(p, at), instant), instant)
<1> DEFINE c == Canonical(r, Dated(p, at))
           id == c.identity.id
           q == [r EXCEPT !.obs[id] = c, !.rev = @ + 1]
<1>1. ApplySnapshot(r, Dated(p, at), instant) = q /\ CheckedObservation(r, c, instant)
  BY DEF ApplySnapshot
<1>2. id \in Resources /\ r.regs[id] # Null /\ c.identity = r.regs[id].identity /\ ObservationTyped(c) /\ c.at \in Nat /\ c.at <= instant
  BY <1>1, CheckedIsStored
<1>3. r = [regs |-> r.regs, obs |-> r.obs, rev |-> r.rev] /\ DOMAIN r.regs = Resources /\ DOMAIN r.obs = Resources
  BY DEF StoreFacts
<1> HIDE DEF c
<1>40. q = [r EXCEPT !.obs[id] = c, !.rev = @ + 1]
  OBVIOUS
<1> HIDE DEF q, id
<1>4. q = [regs |-> r.regs, obs |-> [r.obs EXCEPT ![id] = c], rev |-> r.rev + 1]
  BY <1>3, <1>40, RecordUpdates
<1>5. \A k \in Resources : q.obs[k] = (IF k = id THEN c ELSE r.obs[k]) /\ q.regs[k] = r.regs[k]
  BY <1>2, <1>3, <1>4
<1>7. ASSUME NEW k \in Resources
      PROVE  /\ q.regs[k] # Null => q.regs[k] \in Registrations /\ q.regs[k].identity.id = k
             /\ q.obs[k] # Null => /\ q.regs[k] # Null /\ q.obs[k].identity = q.regs[k].identity
                                   /\ ObservationTyped(q.obs[k]) /\ q.obs[k].at \in Nat /\ q.obs[k].at <= instant
  BY <1>2, <1>5 DEF StoreFacts
<1>8. q = [regs |-> q.regs, obs |-> q.obs, rev |-> q.rev] /\ DOMAIN q.regs = Resources /\ DOMAIN q.obs = Resources
  BY <1>3, <1>4
<1> QED BY <1>1, <1>7, <1>8 DEF StoreFacts

\* resource_state.py: apply_worker_report keeps the facts of the registry.
LEMMA ReportKeeps ==
    ASSUME NEW r, NEW instant \in Nat, StoreFacts(r, instant), NEW report, NEW at \in Nat, NEW some \in SUBSET Observations,
           report.resources = {Dated(p, at) : p \in some}, ApplyWorkerReport(r, report, instant) # Raised
    PROVE  StoreFacts(ApplyWorkerReport(r, report, instant), instant)
<1> DEFINE canonical == {Canonical(r, o) : o \in report.resources}
           stored == [id \in DOMAIN r.obs |-> IF \E o \in canonical : o.identity.id = id
                                              THEN CHOOSE o \in canonical : o.identity.id = id ELSE r.obs[id]]
           q == [r EXCEPT !.obs = stored, !.rev = @ + 1]
<1>1. ApplyWorkerReport(r, report, instant) = q /\ \A o \in canonical : CheckedObservation(r, o, instant)
  BY DEF ApplyWorkerReport, Applied
<1>2. \A c \in canonical :
         LET id == c.identity.id
         IN  id \in Resources /\ r.regs[id] # Null /\ c.identity = r.regs[id].identity /\ ObservationTyped(c) /\ c.at \in Nat /\ c.at <= instant
  <2> SUFFICES ASSUME NEW c \in canonical
               PROVE  LET id == c.identity.id
                      IN id \in Resources /\ r.regs[id] # Null /\ c.identity = r.regs[id].identity /\ ObservationTyped(c)
                         /\ c.at \in Nat /\ c.at <= instant
    OBVIOUS
  <2>1. PICK p \in some : c = Canonical(r, Dated(p, at))
    OBVIOUS
  <2>2. CheckedObservation(r, Canonical(r, Dated(p, at)), instant)
    BY <1>1, <2>1
  <2> QED BY <2>1, <2>2, CheckedIsStored
<1>3. r = [regs |-> r.regs, obs |-> r.obs, rev |-> r.rev] /\ DOMAIN r.regs = Resources /\ DOMAIN r.obs = Resources
  BY DEF StoreFacts
<1> HIDE DEF canonical
<1>5. \A k \in Resources : stored[k] = r.obs[k] \/ (stored[k] \in canonical /\ stored[k].identity.id = k)
  BY <1>3
<1>6. DOMAIN stored = Resources
  BY <1>3
<1> HIDE DEF stored
<1>40. q = [r EXCEPT !.obs = stored, !.rev = @ + 1]
  OBVIOUS
<1> HIDE DEF q
<1>4. q = [regs |-> r.regs, obs |-> stored, rev |-> r.rev + 1]
  BY <1>3, <1>40, RecordUpdates
<1>7. ASSUME NEW k \in Resources
      PROVE  /\ q.regs[k] # Null => q.regs[k] \in Registrations /\ q.regs[k].identity.id = k
             /\ q.obs[k] # Null => /\ q.regs[k] # Null /\ q.obs[k].identity = q.regs[k].identity
                                   /\ ObservationTyped(q.obs[k]) /\ q.obs[k].at \in Nat /\ q.obs[k].at <= instant
  BY <1>2, <1>4, <1>5 DEF StoreFacts
<1>8. q = [regs |-> q.regs, obs |-> q.obs, rev |-> q.rev] /\ DOMAIN q.regs = Resources /\ DOMAIN q.obs = Resources
  BY <1>3, <1>4, <1>6
<1> QED BY <1>1, <1>7, <1>8 DEF StoreFacts

\* A request that differs in nothing but the binding, the demands and the candidates.
Alike(rq, q) ==
    /\ DOMAIN q = DOMAIN rq
    /\ q.reg = rq.reg /\ q.catalog = rq.catalog /\ q.admin = rq.admin /\ q.client = rq.client
    /\ q.adapters = rq.adapters /\ q.conts = rq.conts /\ q.now = rq.now /\ q.assurances = rq.assurances
    /\ q.pol = rq.pol /\ q.cells = rq.cells /\ q.profiles = rq.profiles
    /\ q.snap = rq.snap /\ q.elig = rq.elig /\ q.resets = rq.resets
    /\ q.miBlocked = rq.miBlocked /\ q.miChannels = rq.miChannels

\* Requests that read alike read the state of now alike.
LEMMA AlikeReads ==
    ASSUME NEW rq, ReadsNow(rq), NEW q, Alike(rq, q), DOMAIN q.b = BindingFields
    PROVE  ReadsNow(q)
  BY DEF ReadsNow, Alike

\* What a request is bound to changes nothing of the state it reads.
LEMMA BoundReads ==
    ASSUME NEW rq, ReadsNow(rq), NEW b, DOMAIN b = BindingFields, NEW task, NEW effort, NEW ids, NEW v, NEW q,
           q \in {[rq EXCEPT !.b = b, !.task = task], [rq EXCEPT !.task = task, !.b = b], [rq EXCEPT !.task = task, !.effort = effort],
                  [rq EXCEPT !.candidates = ids, !.b.variant = v], [rq EXCEPT !.b.pin = v, !.b.variant = task]}
    PROVE  ReadsNow(q)
<1>0. DOMAIN rq = RequestFields /\ DOMAIN rq.b = BindingFields
  BY DEF ReadsNow
<1>1. CASE q = [rq EXCEPT !.b = b, !.task = task]
  <2>1. Alike(rq, q) /\ DOMAIN q.b = BindingFields
    BY <1>0, <1>1 DEF Alike, RequestFields
  <2> QED BY <2>1, AlikeReads
<1>2. CASE q = [rq EXCEPT !.task = task, !.b = b]
  <2>1. Alike(rq, q) /\ DOMAIN q.b = BindingFields
    BY <1>0, <1>2 DEF Alike, RequestFields
  <2> QED BY <2>1, AlikeReads
<1>3. CASE q = [rq EXCEPT !.task = task, !.effort = effort]
  <2>1. Alike(rq, q) /\ DOMAIN q.b = BindingFields
    BY <1>0, <1>3 DEF Alike, RequestFields
  <2> QED BY <2>1, AlikeReads
<1>4. CASE q = [rq EXCEPT !.candidates = ids, !.b.variant = v]
  <2>1. Alike(rq, q) /\ DOMAIN q.b = BindingFields
    BY <1>0, <1>4 DEF Alike, RequestFields
  <2> QED BY <2>1, AlikeReads
<1>5. CASE q = [rq EXCEPT !.b.pin = v, !.b.variant = task]
  <2>1. Alike(rq, q) /\ DOMAIN q.b = BindingFields
    BY <1>0, <1>5 DEF Alike, RequestFields
  <2> QED BY <2>1, AlikeReads
<1> QED BY <1>1, <1>2, <1>3, <1>4, <1>5

\* routing_core.py: building a request reads nothing else than it was given.
LEMMA ConstructedReads ==
    ASSUME NEW rq, ReadsNow(rq), Constructed(rq) # Raised
    PROVE  ReadsNow(Constructed(rq))
<1> DEFINE floor == Larger(rq.b.ctx, Larger(rq.task.ctx, IF rq.profile = Null THEN Null ELSE rq.profiles[rq.profile.id].ctx))
           joined == [rq EXCEPT !.b.ctx = floor]
           need == RouteRequirement(joined)
           built == [joined EXCEPT !.b.features = @ \cup (IF need.tools THEN {"tool_calls"} ELSE {}), !.b.ctx = Larger(@, need.ctx)]
<1>1. Constructed(rq) = rq \/ Constructed(rq) = built
  BY DEF Constructed
<1> HIDE DEF floor
<1>2. Alike(rq, joined) /\ DOMAIN joined.b = BindingFields
  BY DEF ReadsNow, Alike, RequestFields
<1> HIDE DEF joined, need
<1>3. Alike(rq, built) /\ DOMAIN built.b = BindingFields
  BY <1>2 DEF ReadsNow, Alike, RequestFields
<1> HIDE DEF built
<1> QED BY <1>1, <1>3, AlikeReads

\* gateway_coordinator.py: the request is made of the state of now.
LEMMA InputReads ==
    ASSUME NEW b, DOMAIN b = BindingFields, NEW profile, NEW ids, RoutingInput(b, profile, ids).reg # Raised
    PROVE  ReadsNow(RoutingInput(b, profile, ids)) /\ RoutingInput(b, profile, ids).b = b
  BY DEF RoutingInput, ReadsNow, RequestFields

\* What a client is told of a route is the decision on a request that reads the state of now.
LEMMA RoutedAnswers ==
    ASSUME NEW rq, rq # Raised => ReadsNow(rq), last' = Routed(rq) \/ last' = Refused, UNCHANGED <<now, reg, world>>
    PROVE  AnswerFacts'
<1>1. CASE last' = Refused
  BY <1>1 DEF AnswerFacts, Refused
<1>2. CASE last' = AnswerOf(rq, RouteRequest(rq)) /\ rq # Raised /\ RouteRequest(rq) # Raised
  <2>1. last' = [op |-> "select", rq |-> rq, out |-> RouteRequest(rq), document |-> PublicRouteDocument(RouteRequest(rq), rq)]
    BY <1>2 DEF AnswerOf
  <2>2. ReadsNow(rq)'
    BY <1>2 DEF ReadsNow, Assurances
  <2> QED BY <1>2, <2>1, <2>2 DEF AnswerFacts
<1> QED BY <1>1, <1>2 DEF Routed, AnswerOf

\* control_api.py: the invariant of the router holds when a configuration is loaded.
LEMMA RoutesStart == RouteInit => RouteIInv
<1> SUFFICES ASSUME RouteInit PROVE RouteIInv
  OBVIOUS
<1>1. StoreFacts(reg, now)
  BY DEF RouteInit, EmptyRegistry, StoreFacts
<1>2. WorldFacts
  BY RoutingAssumption DEF RouteInit, WorldFacts
<1>3. AnswerFacts
  BY DEF RouteInit, AnswerFacts
<1> QED BY <1>1, <1>2, <1>3 DEF RouteIInv

\* Steps that answer nothing: the request in hand is forgotten.
LEMMA IdleAnswers == ASSUME last' = Idle PROVE AnswerFacts'
  BY DEF AnswerFacts, Idle

\* _rebuild_application: a resource registered at the start, with what was last observed of it.
LEMMA RegisterResourceKeeps == ASSUME RouteIInv, NEW x \in Registrations, RegisterResource(x) PROVE RouteIInv'
<1> DEFINE registered == Register(reg, x)
           known == {o \in last.observed : o.identity.id = x.identity.id}
           outcome == IF registered = Raised \/ known = {} THEN registered ELSE ApplySnapshot(registered, Dated(CHOOSE o \in known : TRUE, 0), 0)
<1>1. UNCHANGED <<now, world, held, last, changes>> /\ Stored(outcome) /\ last.op = "starting"
  BY DEF RegisterResource
<1>2. AnswerFacts' /\ WorldFacts'
  BY <1>1 DEF RouteIInv, AnswerFacts, WorldFacts
<1>3. now = 0 /\ StoreFacts(reg, now)
  BY <1>1 DEF RouteIInv, AnswerFacts
<1>4. last.observed \subseteq Observations
  BY <1>1, RoutingAssumption DEF RouteIInv, AnswerFacts
<1>5. ASSUME outcome # Raised PROVE StoreFacts(outcome, now)
  <2>1. CASE outcome = registered
    BY <1>3, <1>5, <2>1, RegisterKeeps
  <2>2. CASE outcome # registered
    <3> DEFINE o == CHOOSE o \in known : TRUE
    <3>1. registered # Raised /\ o \in Observations /\ outcome = ApplySnapshot(registered, Dated(o, 0), 0)
      BY <1>4, <2>2
    <3>2. StoreFacts(registered, now)
      BY <1>3, <3>1, RegisterKeeps
    <3> HIDE DEF o, registered, known
    <3> QED BY <1>3, <1>5, <3>1, <3>2, SnapshotKeeps
  <2> QED BY <2>1, <2>2
<1>6. StoreFacts(reg, now)'
  BY <1>1, <1>3, <1>5 DEF Stored
<1> QED BY <1>2, <1>6 DEF RouteIInv

\* Serving begins with nothing answered.
LEMMA ServeKeeps == ASSUME RouteIInv, Serve PROVE RouteIInv'
  BY IdleAnswers DEF RouteIInv, Serve, WorldFacts

\* Time passes: what is stored is no younger.
LEMMA TickKeeps == ASSUME RouteIInv, Tick PROVE RouteIInv'
<1>1. AnswerFacts'
  BY IdleAnswers DEF Tick
<1>2. now \in Nat /\ now' = now + 1 /\ reg' = reg /\ world' = world /\ StoreFacts(reg, now)
  BY DEF RouteIInv, WorldFacts, Tick
<1>3. StoreFacts(reg, now)'
  BY <1>2 DEF StoreFacts
<1> QED BY <1>1, <1>2, <1>3 DEF RouteIInv, WorldFacts

\* The server's own poll is dated by the server's clock.
LEMMA ObserveKeeps == ASSUME RouteIInv, NEW o \in Observations, Observe(o) PROVE RouteIInv'
<1>1. UNCHANGED <<now, world>> /\ AnswerFacts' /\ Stored(ApplySnapshot(reg, Dated(o, now), now))
  BY IdleAnswers DEF Observe
<1>2. now \in Nat /\ StoreFacts(reg, now)
  BY DEF RouteIInv, WorldFacts
<1>3. ApplySnapshot(reg, Dated(o, now), now) # Raised => StoreFacts(ApplySnapshot(reg, Dated(o, now), now), now)
  BY <1>2, SnapshotKeeps
<1>4. StoreFacts(reg, now)'
  BY <1>1, <1>2, <1>3 DEF Stored
<1> QED BY <1>1, <1>4 DEF RouteIInv, WorldFacts

\* A worker's report is stored only if it is not dated after the present.
LEMMA WorkerReportsKeep == ASSUME RouteIInv, NEW s \in Reports, NEW skew \in {0, 1}, WorkerReports(s, skew) PROVE RouteIInv'
<1> DEFINE report == [at |-> now + skew, resources |-> {Dated(o, now + skew) : o \in s}]
<1>1. UNCHANGED <<now, world>> /\ AnswerFacts' /\ Stored(ApplyWorkerReport(reg, report, now))
  BY IdleAnswers DEF WorkerReports
<1>2. now \in Nat /\ now + skew \in Nat /\ StoreFacts(reg, now) /\ s \in SUBSET Observations
  BY RoutingAssumption DEF RouteIInv, WorldFacts
<1>3. report.resources = {Dated(o, now + skew) : o \in s}
  OBVIOUS
<1> HIDE DEF report
<1>4. ApplyWorkerReport(reg, report, now) # Raised => StoreFacts(ApplyWorkerReport(reg, report, now), now)
  BY <1>2, <1>3, ReportKeeps
<1>5. StoreFacts(reg, now)'
  BY <1>1, <1>2, <1>4 DEF Stored
<1> QED BY <1>1, <1>5 DEF RouteIInv, WorldFacts

\* Whatever is reconfigured is one of the configurations that are accepted.
LEMMA ReconfigureKeeps == ASSUME RouteIInv, Reconfigure PROVE RouteIInv'
<1>1. UNCHANGED <<now, reg>> /\ AnswerFacts'
  BY IdleAnswers DEF Reconfigure
<1>2. WorldFacts'
  BY <1>1, RoutingAssumption DEF RouteIInv, WorldFacts, Reconfigure
<1> QED BY <1>1, <1>2 DEF RouteIInv, StoreFacts

\* A request that binds nothing has the fields of any.
LEMMA BlankFields == DOMAIN Blank = BindingFields
  BY DEF Blank, BindingFields

\* select_executable: what is answered was decided on the state of now.
LEMMA SelectKeeps == ASSUME RouteIInv, NEW d \in Demands, SelectExecutable(d) PROVE RouteIInv'
<1> DEFINE raw == RoutingInput(d.b, ProfileOf(d.b), Null)
           posed == [raw EXCEPT !.task = d.task, !.effort = TRUE]
           rq == IF raw.reg = Raised THEN Raised ELSE Constructed(posed)
<1>1. UNCHANGED <<now, reg, world>> /\ SelectFor(rq)
  BY DEF SelectExecutable
<1>2. rq # Raised => ReadsNow(rq)
  <2> SUFFICES ASSUME rq # Raised PROVE ReadsNow(rq)
    OBVIOUS
  <2>1. raw.reg # Raised /\ rq = Constructed(posed)
    OBVIOUS
  <2>2. ReadsNow(raw) /\ DOMAIN raw = RequestFields
    BY <2>1, InputReads, RoutingAssumption DEF ReadsNow, BindingTyped
  <2> HIDE DEF raw
  <2>3. ReadsNow(posed)
    <3>1. PICK q : q = posed
      OBVIOUS
    <3>2. ReadsNow(q)
      BY <2>2, <3>1, BoundReads, BlankFields
    <3> QED BY <3>1, <3>2
  <2> HIDE DEF posed, rq
  <2> QED BY <2>1, <2>3, ConstructedReads
<1>3. last' = Routed(rq) \/ last' = Refused
  BY <1>1 DEF SelectFor, KeepAnswer
<1> HIDE DEF rq
<1>4. PICK q : q = rq
  OBVIOUS
<1>5. AnswerFacts'
  BY <1>1, <1>2, <1>3, <1>4, RoutedAnswers
<1> QED BY <1>1, <1>5 DEF RouteIInv, WorldFacts, StoreFacts

\* A binding that is joined has the fields of the request's.
LEMMA MergedFields == ASSUME NEW a, NEW b, MergeBinding(a, b) # Raised PROVE DOMAIN MergeBinding(a, b) = DOMAIN b
  BY DEF MergeBinding

\* bind, admit_pinned_target: the admission is decided on the state of now.
LEMMA ExecuteKeeps == ASSUME RouteIInv, NEW b, DOMAIN b = BindingFields, ExecutePinned(b) PROVE RouteIInv'
<1> DEFINE raw == RoutingInput([b EXCEPT !.pin = held.pin], IF held.b.alias = Null THEN Null ELSE ProfileOf(held.b), Null)
           rq == IF raw.reg = Raised THEN Raised ELSE BindRetained(raw)
<1>1. UNCHANGED <<now, reg, world, held>> /\ last' = Execution(b, rq)
  BY DEF ExecutePinned
<1>2. rq # Raised => ReadsNow(rq)
  <2> SUFFICES ASSUME rq # Raised PROVE ReadsNow(rq)
    OBVIOUS
  <2>1. raw.reg # Raised /\ rq = BindRetained(raw)
    OBVIOUS
  <2>2. ReadsNow(raw) /\ DOMAIN raw = RequestFields
    BY <2>1, InputReads, RoutingAssumption DEF ReadsNow, BindingTyped
  <2> HIDE DEF raw
  <2> DEFINE bound == [raw EXCEPT !.b = MergeBinding(held.b, raw.b), !.task = held.requirement]
  <2>3. rq = Constructed(bound)
    BY <2>1 DEF BindRetained
  <2>4. ReadsNow(bound)
    <3> DEFINE joined == MergeBinding(held.b, raw.b)
    <3>1. joined # Raised /\ DOMAIN raw.b = BindingFields
      BY <2>1, <2>2 DEF BindRetained, ReadsNow
    <3>2. DOMAIN joined = BindingFields
      BY <3>1, MergedFields
    <3> HIDE DEF joined
    <3>3. PICK q : q = bound
      OBVIOUS
    <3>4. ReadsNow(q)
      BY <2>2, <3>2, <3>3, BoundReads DEF joined
    <3> QED BY <3>3, <3>4
  <2> HIDE DEF bound, rq
  <2> QED BY <2>3, <2>4, ConstructedReads
<1> HIDE DEF rq
<1>4. PICK q, pin : q = rq /\ pin = held.pin
  OBVIOUS
<1>3. AnswerFacts'
  <2>1. CASE last' = Refused
    BY <2>1 DEF AnswerFacts, Refused
  <2>2. CASE last' # Refused
    <3>1. PICK d : d = AdmitPinnedTarget(q, pin)
      OBVIOUS
    <3>2. q # Raised /\ d # Raised /\ last' = [op |-> "execute", rq |-> q, out |-> d, b |-> b, failure |-> IF d.approved THEN EffectiveLimitFailure(q, d.target) ELSE Null]
      BY <1>1, <1>4, <2>2, <3>1 DEF Execution, Executed
    <3>3. ReadsNow(q)'
      BY <1>1, <1>2, <1>4, <3>2 DEF ReadsNow, Assurances
    <3>4. held'.pin = pin
      BY <1>1, <1>4
    <3> QED BY <3>1, <3>2, <3>3, <3>4 DEF AnswerFacts
  <2> QED BY <2>1, <2>2
<1> QED BY <1>1, <1>3 DEF RouteIInv, WorldFacts, StoreFacts

\* A kernel declaration is routed on the state of now.
LEMMA KernelKeeps == ASSUME RouteIInv, NEW interpretation, NEW digest, RouteKernel(interpretation, digest) PROVE RouteIInv'
<1> DEFINE raw == RoutingInput(Blank, Null, Null)
           rq == IF raw.reg = Raised THEN Raised ELSE KernelBind(interpretation, raw, digest)
<1>1. UNCHANGED <<now, reg, world>> /\ last' = Routed(rq)
  BY DEF RouteKernel
<1>2. rq # Raised => ReadsNow(rq)
  <2> SUFFICES ASSUME rq # Raised PROVE ReadsNow(rq)
    OBVIOUS
  <2>1. raw.reg # Raised /\ rq = KernelBind(interpretation, raw, digest)
    OBVIOUS
  <2>2. ReadsNow(raw) /\ DOMAIN raw = RequestFields
    <3>1. DOMAIN Blank = BindingFields
      BY BlankFields
    <3> QED BY <2>1, <3>1, InputReads DEF ReadsNow
  <2> HIDE DEF raw
  <2> DEFINE bare == [interpretation.b EXCEPT !.out = Null]
             joined == MergeBinding(bare, raw.b)
             more == [joined EXCEPT !.out = Larger(@, interpretation.b.out)]
  <2>3. joined # Raised /\ \E task : rq = Constructed([raw EXCEPT !.task = task, !.b = more])
    BY <2>1 DEF KernelBind
  <2>4. DOMAIN joined = BindingFields
    <3> HIDE DEF bare
    <3> QED BY <2>2, <2>3, MergedFields DEF ReadsNow
  <2>5. DOMAIN more = BindingFields
    BY <2>4
  <2> HIDE DEF joined, more
  <2>6. PICK task : rq = Constructed([raw EXCEPT !.task = task, !.b = more])
    BY <2>3
  <2> HIDE DEF rq
  <2>7. PICK q : q = [raw EXCEPT !.task = task, !.b = more]
    OBVIOUS
  <2>8. ReadsNow(q)
    BY <2>2, <2>5, <2>7, BoundReads
  <2> QED BY <2>6, <2>7, <2>8, ConstructedReads
<1> HIDE DEF rq
<1>3. PICK q : q = rq
  OBVIOUS
<1>4. AnswerFacts'
  BY <1>1, <1>2, <1>3, RoutedAnswers
<1> QED BY <1>1, <1>4 DEF RouteIInv, WorldFacts, StoreFacts

\* A request that was overtaken is told so, and nothing else.
LEMMA OvertakenKeeps == ASSUME RouteIInv, RouteOvertaken PROVE RouteIInv'
<1>1. last'.op = "refused" /\ UNCHANGED <<now, reg, world, held, changes>>
  BY DEF RouteOvertaken, Refused
<1> QED BY <1>1 DEF RouteIInv, StoreFacts, WorldFacts, AnswerFacts

\* The variants of a model name are routed on the state of now.
LEMMA LogicalKeeps == ASSUME RouteIInv, NEW model, NEW effort, RouteLogical(model, effort) PROVE RouteIInv'
<1> DEFINE raw == RoutingInput([Blank EXCEPT !.model = model], Null, Null)
           posed(ids, v) == [raw EXCEPT !.candidates = ids, !.b.variant = v]
<1>1. UNCHANGED <<now, reg, world>>
  BY DEF RouteLogical
<1>2. last' # Refused => raw.reg # Raised /\ \E ids, v : last' = Routed(Constructed(posed(ids, v)))
  BY DEF RouteLogical
<1>3. raw.reg # Raised => ReadsNow(raw) /\ DOMAIN raw = RequestFields
  <2>1. DOMAIN [Blank EXCEPT !.model = model] = BindingFields
    BY BlankFields
  <2> QED BY <2>1, InputReads DEF ReadsNow
<1> HIDE DEF raw
<1>4. ASSUME raw.reg # Raised, NEW ids, NEW v PROVE ReadsNow(posed(ids, v))
  <2>1. PICK q : q = posed(ids, v)
    OBVIOUS
  <2>2. ReadsNow(q)
    BY <1>3, <1>4, <2>1, BoundReads, BlankFields
  <2> QED BY <2>1, <2>2
<1> HIDE DEF posed
<1>5. last' # Refused => \E q : last' = Routed(q) /\ (q # Raised => ReadsNow(q))
  <2> SUFFICES ASSUME last' # Refused PROVE \E q : last' = Routed(q) /\ (q # Raised => ReadsNow(q))
    OBVIOUS
  <2>1. PICK ids, v : raw.reg # Raised /\ last' = Routed(Constructed(posed(ids, v)))
    BY <1>2
  <2>2. Constructed(posed(ids, v)) # Raised => ReadsNow(Constructed(posed(ids, v)))
    BY <1>4, <2>1, ConstructedReads
  <2> QED BY <2>1, <2>2
<1>6. AnswerFacts'
  <2>1. CASE last' = Refused
    BY <2>1 DEF AnswerFacts, Refused
  <2>2. CASE last' # Refused
    <3>1. PICK q : last' = Routed(q) /\ (q # Raised => ReadsNow(q))
      BY <1>5, <2>2
    <3> QED BY <1>1, <3>1, RoutedAnswers
  <2> QED BY <2>1, <2>2
<1> QED BY <1>1, <1>6 DEF RouteIInv, WorldFacts, StoreFacts

\* control_api.py, gateway_coordinator.py: in every state what is stored of a resource is registered and not dated after the present,
\* and what a client was just told was decided on the state of now.
THEOREM RouteIsInductive == RouteSpec => []RouteIInv
<1>1. RouteInit => RouteIInv
  BY RoutesStart
<1>2. RouteIInv /\ [RouteNext]_routeVars => RouteIInv'
  <2> SUFFICES ASSUME RouteIInv, [RouteNext]_routeVars PROVE RouteIInv'
    OBVIOUS
  <2>1. CASE UNCHANGED routeVars
    BY <2>1 DEF routeVars, RouteIInv, StoreFacts, WorldFacts, AnswerFacts, ReadsNow, Assurances
  <2>2. CASE RouteNext
    BY <2>2, RegisterResourceKeeps, ServeKeeps, TickKeeps, ObserveKeeps, WorkerReportsKeep, ReconfigureKeeps, SelectKeeps,
       ExecuteKeeps, KernelKeeps, LogicalKeeps, OvertakenKeeps, RoutingAssumption DEF RouteNext, BindingTyped
  <2> QED BY <2>1, <2>2
<1> QED BY <1>1, <1>2, PTL DEF RouteSpec

-----------------------------------------------------------------------------
(* What a route and an admission give out. *)

\* routing_core.py: what is within an intersection of limits is within each.
LEMMA Intersected ==
    ASSUME NEW U, \A s \in SUBSET U : s # Null, NEW a, a # Null => a \subseteq U, NEW b, NEW x, ~Outside(x, IntersectOptional(a, b))
    PROVE  (a # Null => x \in a) /\ (b # Null => x \in b)
  BY DEF Outside, IntersectOptional

\* routing_core.py: an intersection of limits stays within what either may name.
LEMMA IntersectedIsWithin ==
    ASSUME NEW U, NEW a, a # Null => a \subseteq U, NEW b, b # Null => b \subseteq U
    PROVE  IntersectOptional(a, b) # Null => IntersectOptional(a, b) \subseteq U
  BY DEF IntersectOptional

\* What both spending limits are is the lower of them.
LEMMA LowerLimit ==
    ASSUME NEW a \in Nat \cup {Null}, NEW b \in Nat \cup {Null}, ({a, b} \ {Null}) # {}
    PROVE  LET least == Min({a, b} \ {Null})
           IN  least \in Nat /\ (a # Null => least <= a) /\ (b # Null => least <= b)
<1> DEFINE S == {a, b} \ {Null}
<1>1. S \subseteq Nat /\ S # {}
  OBVIOUS
<1> HIDE DEF S
<1>2. Min(S) \in S /\ \A y \in S : Min(S) <= y
  BY <1>1, LeastExists
<1> QED BY <1>1, <1>2 DEF S

\* execution_assurance.py: evidence that is accepted was taken under the revision of the control that is there.
LEMMA UnbilledIsControlled ==
    ASSUME NEW e, NEW E, NoPaygCodes(e, Assurances(E), now) = {}, world.client.strictNoPayg
    PROVE  e.identity.entitlement \notin Metered \cup {"unknown"} /\ world.control = 1
<1> DEFINE mine == {a \in Assurances(E) : a.scope.resource = e.identity}
           a == CHOOSE x \in mine : TRUE
<1>1. e.identity.entitlement \notin Metered /\ e.identity.entitlement # "unknown" /\ Cardinality(mine) = 1
      /\ RefusalCodes(a, e.identity, now, e.ttl) = {}
  BY DEF NoPaygCodes
<1>2. mine # {}
  BY <1>1, FS_EmptySet
<1>3. a \in mine
  BY <1>2
<1>4. PICK f : a = ReceiveExecutionAssurance(f.identity, "adapter", world.control, ControlEvidence(f.identity))
  BY <1>3 DEF Assurances
<1> HIDE DEF a, mine
<1> DEFINE proof == ControlEvidence(f.identity)
<1>5. a.scope.revision # Null /\ a.evidence # Null /\ a.evidence.scope = a.scope
  BY <1>1 DEF RefusalCodes
<1>6. a.scope.revision = (IF proof = Null THEN Null ELSE world.control)
      /\ a.evidence = (IF world.control = Null THEN Null ELSE proof)
  BY <1>4 DEF ReceiveExecutionAssurance
<1>7. proof.scope.revision = 1
  BY DEF ControlEvidence
<1> HIDE DEF proof
<1>8. a.scope.revision = world.control /\ a.evidence = proof
  BY <1>5, <1>6
<1> QED BY <1>1, <1>5, <1>7, <1>8


\* routing_core.py: what no gate of the authorization refuses, both the administrator and the client allow.
LEMMA AuthorizedIsAllowed ==
    ASSUME WorldFacts, NEW e, e.identity.provider \in Providers, e.cost \in Nat \cup {Null}, NEW profile, NEW E,
           AuthorizationFailureCodes(e, EffectiveAuthorization(world.admin, world.client, profile), Assurances(E), now) = {}
    PROVE  AuthorizedNow(e)
<1> DEFINE admin == world.admin
           client == world.client
           eff == EffectiveAuthorization(admin, client, profile)
           id == e.identity
           limits == {admin.limit, client.limit} \ {Null}
           both == IntersectOptional(admin.channels, client.channels)
<1>1. AuthorityTyped(admin) /\ AuthorityTyped(client)
      /\ \A s \in (SUBSET Providers) \cup (SUBSET Channels) \cup (SUBSET Entitlements) : s # Null
  BY RoutingAssumption DEF WorldFacts
<1>2. /\ eff.providers = IntersectOptional(IntersectOptional(admin.providers, client.providers), IF profile = Null THEN Null ELSE profile.providers)
      /\ eff.channels = IF client.inferenceOnly THEN IntersectOptional(both, {"server_direct_http"}) ELSE both
      /\ eff.entitlements = IntersectOptional(admin.entitlements, client.entitlements)
      /\ eff.blocked = admin.blocked \cup client.blocked
      /\ eff.limit = IF limits = {} THEN Null ELSE Min(limits)
      /\ eff.strictNoPayg = client.strictNoPayg
  BY DEF EffectiveAuthorization
<1>3. /\ ~Outside(id.provider, eff.providers) /\ ~Outside(id.channel, eff.channels) /\ ~Outside(id.entitlement, eff.entitlements)
      /\ id.id \notin eff.blocked
      /\ eff.limit # Null => SpendLimitCodes(e, eff.limit) = {}
      /\ eff.strictNoPayg => NoPaygCodes(e, Assurances(E), now) = {}
  <2> HIDE DEF eff, admin, client
  <2>1. AuthorizationFailureCodes(e, eff, Assurances(E), now) = {}
    BY DEF eff, admin, client
  <2> QED BY <2>1 DEF AuthorizationFailureCodes
<1> HIDE DEF eff
<1>4. (admin.providers # Null => id.provider \in admin.providers) /\ (client.providers # Null => id.provider \in client.providers)
  <2> DEFINE a == admin.providers
             c == client.providers
             joint == IntersectOptional(a, c)
             more == IF profile = Null THEN Null ELSE profile.providers
  <2>1. (a # Null => a \subseteq Providers) /\ (c # Null => c \subseteq Providers) /\ \A s \in SUBSET Providers : s # Null
    BY <1>1 DEF AuthorityTyped
  <2>2. ~Outside(id.provider, IntersectOptional(joint, more))
    BY <1>2, <1>3
  <2> HIDE DEF a, c, more
  <2>3. joint # Null => joint \subseteq Providers
    BY <2>1, IntersectedIsWithin
  <2> HIDE DEF joint
  <2>4. joint # Null => id.provider \in joint
    BY <2>1, <2>2, <2>3, Intersected
  <2>5. ~Outside(id.provider, IntersectOptional(a, c))
    BY <2>4 DEF Outside, joint
  <2>6. (a # Null => id.provider \in a) /\ (c # Null => id.provider \in c)
    BY <2>1, <2>5, Intersected
  <2> QED BY <2>6 DEF a, c
<1>5. /\ admin.channels # Null => id.channel \in admin.channels
      /\ client.channels # Null => id.channel \in client.channels
      /\ client.inferenceOnly => id.channel = "server_direct_http"
  <2> DEFINE a == admin.channels
             c == client.channels
             joint == IntersectOptional(a, c)
  <2>1. (a # Null => a \subseteq Channels) /\ (c # Null => c \subseteq Channels) /\ \A s \in SUBSET Channels : s # Null
    BY <1>1 DEF AuthorityTyped
  <2>2. /\ client.inferenceOnly => ~Outside(id.channel, IntersectOptional(joint, {"server_direct_http"}))
        /\ ~client.inferenceOnly => ~Outside(id.channel, joint)
    BY <1>2, <1>3
  <2> HIDE DEF a, c
  <2>3. joint # Null => joint \subseteq Channels
    BY <2>1, IntersectedIsWithin
  <2>30. {"server_direct_http"} # Null
    BY <2>1 DEF Channels
  <2> HIDE DEF joint
  <2>4. client.inferenceOnly => (joint # Null => id.channel \in joint) /\ id.channel = "server_direct_http"
    BY <2>1, <2>2, <2>3, <2>30, Intersected
  <2>5. ~Outside(id.channel, IntersectOptional(a, c))
    BY <2>2, <2>4 DEF Outside, joint
  <2>6. (a # Null => id.channel \in a) /\ (c # Null => id.channel \in c)
    BY <2>1, <2>5, Intersected
  <2> QED BY <2>4, <2>6 DEF a, c
<1>6. /\ admin.entitlements # Null => id.entitlement \in admin.entitlements
      /\ client.entitlements # Null => id.entitlement \in client.entitlements
  <2> DEFINE a == admin.entitlements
             c == client.entitlements
  <2>1. (a # Null => a \subseteq Entitlements) /\ \A s \in SUBSET Entitlements : s # Null
    BY <1>1 DEF AuthorityTyped
  <2>2. ~Outside(id.entitlement, IntersectOptional(a, c))
    BY <1>2, <1>3
  <2> HIDE DEF a, c
  <2>3. (a # Null => id.entitlement \in a) /\ (c # Null => id.entitlement \in c)
    BY <2>1, <2>2, Intersected
  <2> QED BY <2>3 DEF a, c
<1>7. id.id \notin admin.blocked /\ id.id \notin client.blocked
  BY <1>2, <1>3
<1>8. Affords(admin, e) /\ Affords(client, e)
  <2> DEFINE a == admin.limit
             c == client.limit
             least == Min({a, c} \ {Null})
  <2>1. a \in Nat \cup {Null} /\ c \in Nat \cup {Null}
    BY <1>1 DEF AuthorityTyped
  <2>2. ({a, c} \ {Null}) # {} => eff.limit = least
    BY <1>2
  <2> HIDE DEF a, c
  <2>3. ({a, c} \ {Null}) # {} => least \in Nat /\ (a # Null => least <= a) /\ (c # Null => least <= c)
    BY <2>1, LowerLimit
  <2> HIDE DEF least
  <2>4. ASSUME ({a, c} \ {Null}) # {}, id.entitlement \in Metered PROVE e.cost # Null /\ ~(e.cost > least)
    <3>1. SpendLimitCodes(e, least) = {}
      BY <1>3, <2>2, <2>3, <2>4, SentinelAssumption
    <3> QED BY <2>4, <3>1 DEF SpendLimitCodes
  <2>5. ASSUME ({a, c} \ {Null}) # {}, id.entitlement \in Metered PROVE e.cost # Null /\ (a # Null => e.cost <= a) /\ (c # Null => e.cost <= c)
    BY <2>1, <2>3, <2>4, <2>5
  <2>6. /\ a # Null /\ id.entitlement \in Metered => e.cost # Null /\ e.cost <= a
        /\ c # Null /\ id.entitlement \in Metered => e.cost # Null /\ e.cost <= c
    BY <2>5
  <2> QED BY <2>6 DEF Affords, a, c
<1>9. client.strictNoPayg => id.entitlement \notin Metered \cup {"unknown"} /\ world.control = 1
  BY <1>2, <1>3, UnbilledIsControlled
<1> QED BY <1>4, <1>5, <1>6, <1>7, <1>8, <1>9 DEF AuthorizedNow, Allows

\* routing_core.py: what keeps a resource from being authorized is a reason of that stage.
LEMMA AuthorizationReasons ==
    ASSUME NEW e, NEW eff, NEW assurances, NEW instant
    PROVE  AuthorizationFailureCodes(e, eff, assurances, instant) \subseteq RouteStageReasons("authorization")
<1>1. RouteStageReasons("authorization") =
         {"unauthorized_provider", "unauthorized_channel", "unauthorized_entitlement", "resource_blocked",
          "spend_limit_exceeded", "spend_limit_unverifiable", "no_payg_source_mismatch",
          "no_payg_evidence_unavailable", "no_payg_binding_changed", "no_payg_path_unverified",
          "no_payg_path_incomplete", "no_payg_evidence_invalid", "no_payg_evidence_expired",
          "no_payg_access_mode_forbidden", "no_payg_evidence_stale"}
  BY DEF RouteStageReasons
<1> DEFINE R == RouteStageReasons("authorization")
<1>2. \A a, age : RefusalCodes(a, e.identity, instant, age) \subseteq R
  BY <1>1 DEF RefusalCodes
<1>3. NoPaygCodes(e, assurances, instant) \subseteq R
  <2>1. PICK a : a = CHOOSE x \in {y \in assurances : y.scope.resource = e.identity} : TRUE
    OBVIOUS
  <2>2. PICK proof : proof = RefusalCodes(a, e.identity, instant, e.ttl)
    OBVIOUS
  <2>3. proof \subseteq R
    BY <1>2, <2>2
  <2> HIDE DEF R
  <2>4. NoPaygCodes(e, assurances, instant)
           \in {{"no_payg_access_mode_forbidden"}, {"no_payg_path_unverified"}, {"no_payg_evidence_unavailable"}, proof}
    BY <2>1, <2>2, Zenon DEF NoPaygCodes
  <2> QED BY <1>1, <2>3, <2>4 DEF R
<1>4. SpendLimitCodes(e, eff.limit) \subseteq R
  BY <1>1 DEF SpendLimitCodes
<1> QED BY <1>1, <1>3, <1>4 DEF AuthorizationFailureCodes

\* routing_core.py: so is what keeps it from being available,
LEMMA AvailabilityReasons ==
    ASSUME NEW e, NEW elig, NEW rq
    PROVE  AvailabilityFailureCodes(e, elig) \cup AdapterCodes(e, rq) \subseteq RouteStageReasons("availability")
<1>1. RouteStageReasons("availability") =
         {"resource_stale", "resource_never_observed", "resource_unhealthy", "execution_ineligible",
          "worker_continuation_unavailable", "adapter_unavailable"}
  BY DEF RouteStageReasons
<1> QED BY <1>1 DEF AvailabilityFailureCodes, AdapterCodes

\* routing_core.py: and what makes it unfit for the request.
LEMMA CompatibilityReasons ==
    ASSUME NEW e, NEW rq, NEW need, NEW reasoning
    PROVE  CompatibilityFailure(e, rq, need, reasoning) \subseteq RouteStageReasons("compatibility")
<1> DEFINE wanted == rq.b.features \cup (IF reasoning THEN {"reasoning_controls"} ELSE {})
           output == RequestOutputContext(rq.b, e, rq.catalog)
           wish == RouteOutputCode(e.caps, output.out, rq.b.out, output.resolved, TRUE)
           needed == RouteOutputCode(e.caps, output.out, need.out, output.resolved, FALSE)
           R == RouteStageReasons("compatibility")
           context == IF need.ctx = Null THEN {} ELSE IF e.caps.ctx = Null THEN {"context_limit_unknown"}
                      ELSE IF e.caps.ctx < need.ctx THEN {"context_limit_insufficient"} ELSE {}
<1>1. R = {"compatibility_unsupported", "compatibility_unknown", "context_limit_unknown",
           "context_limit_insufficient", "output_limit_unknown", "output_limit_insufficient", "output_limit_unenforceable"}
  BY DEF RouteStageReasons
<1>2. \A f : FeatureCode(LookupCell(rq.cells, e.identity, f)) \subseteq R
  BY <1>1 DEF FeatureCode
<1>3. ASSUME NEW caps, NEW hard, NEW req1, NEW resolved, NEW enforce
      PROVE  RouteOutputCode(caps, hard, req1, resolved, enforce) \in R \cup {Null}
  BY <1>1 DEF RouteOutputCode
<1>4. wish \in R \cup {Null} /\ needed \in R \cup {Null}
  BY <1>3
<1>5. context \subseteq R
  BY <1>1
<1>6. PICK marks : marks = UNION {FeatureCode(LookupCell(rq.cells, e.identity, f)) : f \in wanted}
  OBVIOUS
<1>7. marks \subseteq R
  <2> HIDE DEF R, wanted
  <2> QED BY <1>2, <1>6
<1>8. CompatibilityFailure(e, rq, need, reasoning) = marks \cup context \cup ({wish, needed} \ {Null})
  <2>1. CompatibilityFailure(e, rq, need, reasoning)
         = (UNION {FeatureCode(LookupCell(rq.cells, e.identity, f)) : f \in wanted}) \cup context \cup ({wish, needed} \ {Null})
    BY Zenon DEF CompatibilityFailure
  <2> HIDE DEF R, wish, needed, context, wanted
  <2> QED BY <1>6, <2>1
<1> HIDE DEF R, wish, needed, context
<1>9. CompatibilityFailure(e, rq, need, reasoning) \subseteq R
  BY <1>4, <1>5, <1>7, <1>8
<1> QED BY <1>9 DEF R

\* routing_core.py: the gate of a resource that does not qualify says why, by a reason of the stage that failed.
LEMMA StagesFail ==
    ASSUME NEW raw, NEW rq, NEW need, NEW eff, NEW reasoning, NEW g, g = EvaluateResource(raw, rq, need, eff, reasoning), ~g.qualified,
           \A c \in rq.catalog.entries : c.id \in Nat
    PROVE  RouteStageReasons(g.stage) \cap g.codes # {}
<1> DEFINE e == CurrentEvidence(raw, rq.now)
           elig == IF rq.catalog.versioned THEN rq.elig ELSE [p \in Providers |-> Null]
           bound == BindIdentities(e, rq.catalog)
           denied == AuthorizationFailureCodes(e, eff, rq.assurances, rq.now)
           blocked == rq.miBlocked \cup {ch.id : ch \in {c \in rq.miChannels : c.channel # e.identity.channel}}
           usable == bound \ blocked
           absent == AvailabilityFailureCodes(e, elig) \cup AdapterCodes(e, rq)
           unfit == CompatibilityFailure(e, rq, need, reasoning)
           entry(i) == CHOOSE c \in rq.catalog.entries : c.id = i
           unfitFor(i) == CompatibilityFailure(e, rq, need, reasoning \/ EffortDemanded(entry(i), rq, e.identity.id))
           demanding == rq.effort \/ \E i \in usable : i \in {ch.id : ch \in rq.miChannels}
           fit == IF demanding THEN {i \in usable : unfitFor(i) = {}} ELSE usable
           least == Min(usable)
<1>1. g = IF bound = {} THEN Gate(e, {}, "binding", {"capability_unassessed"}, rq.now)
          ELSE IF denied # {} THEN Gate(e, bound, "authorization", denied, rq.now)
          ELSE IF usable = {} THEN Gate(e, bound, "authorization", {"resource_blocked"}, rq.now)
          ELSE IF absent # {} THEN Gate(e, usable, "availability", absent, rq.now)
          ELSE IF unfit # {} THEN Gate(e, usable, "compatibility", unfit, rq.now)
          ELSE IF fit = {} THEN Gate(e, usable, "compatibility", unfitFor(least), rq.now)
          ELSE Gate(e, fit, Null, {}, rq.now)
  BY Zenon DEF EvaluateResource
<1>2. fit = {} /\ usable # {} => least \in usable /\ unfitFor(least) # {}
  <2>1. usable \subseteq Nat
    BY DEF BindIdentities
  <2> HIDE DEF usable, unfitFor
  <2>2. usable # {} => least \in usable
    BY <2>1, LeastExists DEF least
  <2> QED BY <2>2
<1>3. denied \subseteq RouteStageReasons("authorization")
  BY AuthorizationReasons
<1>4. absent \subseteq RouteStageReasons("availability")
  BY AvailabilityReasons
<1>5. unfit \subseteq RouteStageReasons("compatibility") /\ unfitFor(least) \subseteq RouteStageReasons("compatibility")
  BY CompatibilityReasons
<1>6. Gate(e, fit, Null, {}, rq.now).qualified
  BY DEF Gate
<1>7. "capability_unassessed" \in RouteStageReasons("binding") /\ "resource_blocked" \in RouteStageReasons("authorization")
  BY DEF RouteStageReasons
<1>8. PICK v : v = unfitFor(least)
  OBVIOUS
<1> HIDE DEF e, bound, denied, absent, unfit, unfitFor, fit, elig, least, usable
<1>9. \E x, stage, y : /\ g = Gate(e, x, stage, y, rq.now) /\ RouteStageReasons(stage) \cap y # {}
  <2>1. CASE bound = {}
    <3>1. g = Gate(e, {}, "binding", {"capability_unassessed"}, rq.now)
      BY <1>1, <2>1
    <3> QED BY <1>7, <3>1
  <2>2. CASE bound # {} /\ denied # {}
    <3>1. g = Gate(e, bound, "authorization", denied, rq.now)
      BY <1>1, <2>2
    <3> QED BY <1>3, <2>2, <3>1
  <2>3. CASE bound # {} /\ denied = {} /\ usable = {}
    <3>1. g = Gate(e, bound, "authorization", {"resource_blocked"}, rq.now)
      BY <1>1, <2>3
    <3> QED BY <1>7, <3>1
  <2>4. CASE bound # {} /\ denied = {} /\ usable # {} /\ absent # {}
    <3>1. g = Gate(e, usable, "availability", absent, rq.now)
      BY <1>1, <2>4
    <3> QED BY <1>4, <2>4, <3>1
  <2>5. CASE bound # {} /\ denied = {} /\ usable # {} /\ absent = {} /\ unfit # {}
    <3>1. g = Gate(e, usable, "compatibility", unfit, rq.now)
      BY <1>1, <2>5
    <3> QED BY <1>5, <2>5, <3>1
  <2>6. CASE bound # {} /\ denied = {} /\ usable # {} /\ absent = {} /\ unfit = {}
    <3>1. fit = {} /\ g = Gate(e, usable, "compatibility", v, rq.now)
      BY <1>1, <1>6, <1>8, <2>6
    <3>2. RouteStageReasons("compatibility") \cap v # {}
      BY <1>2, <1>5, <1>8, <2>6, <3>1
    <3> QED BY <3>1, <3>2
  <2> QED BY <2>1, <2>2, <2>3, <2>4, <2>5, <2>6
<1> QED BY <1>9 DEF Gate

\* What the present registry holds of a resource an entry of the snapshot shows.
LEMMA EntriesAreStored ==
    ASSUME StoreFacts(reg, now), RegistrySnapshot(reg, now) # Raised, NEW e \in RegistrySnapshot(reg, now).entries
    PROVE  LET r == e.identity.id
           IN  /\ r \in Resources /\ r \in Nat /\ r \in {x.identity.id : x \in Registrations} /\ r \in DOMAIN reg.regs
               /\ reg.regs[r] # Null /\ e = RegistryEntry(reg, r, now)
               /\ RegistrationTyped(reg.regs[r])
               /\ reg.obs[r] # Null => ObservationTyped(reg.obs[r]) /\ reg.obs[r].at \in Nat
<1>1. PICK r \in DOMAIN reg.regs : reg.regs[r] # Null /\ e = RegistryEntry(reg, r, now)
  BY DEF RegistrySnapshot, IsRegistered
<1>2. r \in Resources /\ reg.regs[r] \in Registrations /\ reg.regs[r].identity.id = r
  BY <1>1 DEF StoreFacts
<1>3. e.identity = reg.regs[r].identity
  BY <1>1 DEF RegistryEntry
<1>4. RegistrationTyped(reg.regs[r])
  BY <1>2, RoutingAssumption
<1>5. r \in Nat
  BY <1>2, <1>4 DEF RegistrationTyped, IdentityTyped
<1>6. reg.obs[r] # Null => ObservationTyped(reg.obs[r]) /\ reg.obs[r].at \in Nat
  BY <1>2 DEF StoreFacts
<1> QED BY <1>1, <1>2, <1>3, <1>4, <1>5, <1>6

\* routing_core.py: dropping expired evidence changes nothing but the evidenced limit.
LEMMA CurrentIsEntry ==
    ASSUME NEW e, NEW c, NEW instant, c = CurrentEvidence(e, instant),
           e = [identity |-> e.identity, ttl |-> e.ttl, caps |-> e.caps, cost |-> e.cost, obs |-> e.obs, freshness |-> e.freshness, due |-> e.due],
           e.caps = [ctx |-> e.caps.ctx, out |-> e.caps.out, tools |-> e.caps.tools, control |-> e.caps.control, evidence |-> e.caps.evidence],
           e.caps.ctx \in Nat \cup {Null}, e.caps.out \in Nat \cup {Null}
    PROVE  /\ c.identity = e.identity /\ c.ttl = e.ttl /\ c.cost = e.cost /\ c.obs = e.obs /\ c.freshness = e.freshness
           /\ c.caps.ctx \in Nat \cup {Null} /\ c.caps.out \in Nat \cup {Null}
           /\ c.caps.evidence # Null => c.caps = e.caps
<1>1. CASE c = e
  BY <1>1
<1>2. CASE c = [e EXCEPT !.caps.ctx = Null, !.caps.evidence = Null]
  <2> DEFINE caps == e.caps
  <2>1. caps = [ctx |-> caps.ctx, out |-> caps.out, tools |-> caps.tools, control |-> caps.control, evidence |-> caps.evidence]
    OBVIOUS
  <2>2. DOMAIN e = {"identity", "ttl", "caps", "cost", "obs", "freshness", "due"} /\ DOMAIN caps = {"ctx", "out", "tools", "control", "evidence"}
    BY <2>1
  <2>3. c.identity = e.identity /\ c.ttl = e.ttl /\ c.cost = e.cost /\ c.obs = e.obs /\ c.freshness = e.freshness
    BY <1>2, <2>2
  <2>4. c.caps = [[caps EXCEPT !.ctx = Null] EXCEPT !.evidence = Null]
    BY <1>2, <2>2
  <2>5. caps.out \in Nat \cup {Null}
    OBVIOUS
  <2> HIDE DEF caps
  <2>6. c.caps.ctx = Null /\ c.caps.out = caps.out /\ c.caps.evidence = Null
    BY <2>2, <2>4
  <2> QED BY <2>3, <2>5, <2>6
<1> QED BY <1>1, <1>2 DEF CurrentEvidence

\* A resource that can run now what needs the features.
Available(r, features) ==
    LET o == reg.obs[r]
    IN  /\ o # Null /\ o.health = "ok"
        /\ now - o.at <= reg.regs[r].ttl
        /\ \A f \in o.facts : f.reset # Null => now < f.reset
        /\ r \in world.adapters
        /\ ("tool_calls" \in features /\ reg.regs[r].identity.channel = "worker_bridged") => r \in world.conts

\* The gate of a resource: whose it is, and what its qualification says.
GateOf(g, rq) ==
    LET r == g.res
    IN  /\ r \in Nat /\ r \in Resources /\ r \in DOMAIN reg.regs /\ reg.regs[r] # Null
        /\ g.entry.identity = reg.regs[r].identity /\ IdentityTyped(g.entry.identity) /\ IdentityAccepted(g.entry.identity)
        /\ g.entry.caps.ctx \in Nat \cup {Null} /\ g.entry.caps.out \in Nat \cup {Null}
        /\ g.entry.caps.evidence # Null => g.entry.caps.evidence.from < g.entry.caps.evidence.until /\ g.entry.caps.ctx # Null
        /\ g.entry.caps.evidence \in Intervals \cup {Null} /\ g.promotions \subseteq STRING
        /\ g.entry.obs # Null => ObservationTyped(g.entry.obs)
        /\ g.qualified \in BOOLEAN
        /\ ~g.qualified => RouteStageReasons(g.stage) \cap g.codes # {}
        /\ g.qualified => /\ AuthorizedNow(EntryNow(r)) /\ Available(r, rq.b.features)
                          /\ g.bound \subseteq BindIdentities(g.entry, rq.catalog)

\* routing_core.py: what the stages of a gate say when none of them fails.
LEMMA StagesPass ==
    ASSUME NEW raw, NEW rq, NEW need, NEW eff, NEW reasoning, NEW g, g = EvaluateResource(raw, rq, need, eff, reasoning)
    PROVE  LET e == CurrentEvidence(raw, rq.now)
           IN  /\ g.res = e.identity.id /\ g.entry = e /\ g.qualified \in BOOLEAN
               /\ g.promotions = ActivePromotions(e, rq.now)
               /\ g.qualified => /\ AuthorizationFailureCodes(e, eff, rq.assurances, rq.now) = {}
                                 /\ \E elig : AvailabilityFailureCodes(e, elig) = {}
                                 /\ AdapterCodes(e, rq) = {}
                                 /\ g.bound \subseteq BindIdentities(e, rq.catalog)
<1> DEFINE e == CurrentEvidence(raw, rq.now)
           elig == IF rq.catalog.versioned THEN rq.elig ELSE [p \in Providers |-> Null]
           bound == BindIdentities(e, rq.catalog)
           denied == AuthorizationFailureCodes(e, eff, rq.assurances, rq.now)
           blocked == rq.miBlocked \cup {ch.id : ch \in {c \in rq.miChannels : c.channel # e.identity.channel}}
           usable == bound \ blocked
           absent == AvailabilityFailureCodes(e, elig) \cup AdapterCodes(e, rq)
           unfit == CompatibilityFailure(e, rq, need, reasoning)
           entry(i) == CHOOSE c \in rq.catalog.entries : c.id = i
           unfitFor(i) == CompatibilityFailure(e, rq, need, reasoning \/ EffortDemanded(entry(i), rq, e.identity.id))
           demanding == rq.effort \/ \E i \in usable : i \in {ch.id : ch \in rq.miChannels}
           fit == IF demanding THEN {i \in usable : unfitFor(i) = {}} ELSE usable
<1>1. g = IF bound = {} THEN Gate(e, {}, "binding", {"capability_unassessed"}, rq.now)
          ELSE IF denied # {} THEN Gate(e, bound, "authorization", denied, rq.now)
          ELSE IF usable = {} THEN Gate(e, bound, "authorization", {"resource_blocked"}, rq.now)
          ELSE IF absent # {} THEN Gate(e, usable, "availability", absent, rq.now)
          ELSE IF unfit # {} THEN Gate(e, usable, "compatibility", unfit, rq.now)
          ELSE IF fit = {} THEN Gate(e, usable, "compatibility", unfitFor(Min(usable)), rq.now)
          ELSE Gate(e, fit, Null, {}, rq.now)
  BY Zenon DEF EvaluateResource
<1>2. fit \subseteq bound
  OBVIOUS
<1>3. absent = {} => AvailabilityFailureCodes(e, elig) = {} /\ AdapterCodes(e, rq) = {}
  OBVIOUS
<1> HIDE DEF e, bound, denied, usable, absent, unfit, unfitFor, fit, elig
<1> DEFINE Passed == /\ AuthorizationFailureCodes(e, eff, rq.assurances, rq.now) = {}
                     /\ \E any : AvailabilityFailureCodes(e, any) = {}
                     /\ AdapterCodes(e, rq) = {}
                     /\ g.bound \subseteq BindIdentities(e, rq.catalog)
           Claimed == /\ g.res = e.identity.id /\ g.entry = e /\ g.qualified \in BOOLEAN
                      /\ g.promotions = ActivePromotions(e, rq.now)
                      /\ g.qualified => Passed
<1>4. \/ g = Gate(e, fit, Null, {}, rq.now) /\ denied = {} /\ absent = {}
      \/ \E x, y : \E stage \in {"binding", "authorization", "availability", "compatibility"} : g = Gate(e, x, stage, y, rq.now)
  BY <1>1
<1>5. ASSUME g = Gate(e, fit, Null, {}, rq.now), denied = {}, absent = {} PROVE Claimed
  <2>1. Passed
    BY <1>2, <1>3, <1>5 DEF Gate, denied, bound
  <2> HIDE DEF Passed
  <2> QED BY <1>5, <2>1 DEF Gate
<1>6. ASSUME NEW x, NEW y, NEW stage \in {"binding", "authorization", "availability", "compatibility"}, g = Gate(e, x, stage, y, rq.now) PROVE Claimed
  <2>1. stage # Null
    BY RoutingAssumption
  <2>2. g.res = e.identity.id /\ g.entry = e /\ g.promotions = ActivePromotions(e, rq.now) /\ g.qualified = (stage = Null)
    BY <1>6 DEF Gate
  <2>3. g.qualified = FALSE
    BY <2>1, <2>2
  <2> HIDE DEF Passed
  <2> QED BY <2>2, <2>3
<1> HIDE DEF Claimed
<1>7. Claimed
  BY <1>4, <1>5, <1>6
<1> QED BY <1>7 DEF e, Claimed

\* routing_core.py: a gate is that of a registered resource, and one that qualifies may be used and works now.
LEMMA GateIsSound ==
    ASSUME RouteIInv, NEW rq, ReadsNow(rq), NEW raw \in rq.reg.entries, NEW need, NEW profile, NEW reasoning
    PROVE  GateOf(EvaluateResource(raw, rq, need, EffectiveAuthorization(rq.admin, rq.client, profile), reasoning), rq)
           /\ EvaluateResource(raw, rq, need, EffectiveAuthorization(rq.admin, rq.client, profile), reasoning).res = raw.identity.id
<1> DEFINE eff == EffectiveAuthorization(rq.admin, rq.client, profile)
           g == EvaluateResource(raw, rq, need, eff, reasoning)
           e == CurrentEvidence(raw, rq.now)
           r == raw.identity.id
<1>1. /\ rq.reg = RegistrySnapshot(reg, now) /\ rq.reg # Raised /\ rq.now = now /\ rq.admin = world.admin /\ rq.client = world.client
      /\ rq.adapters = world.adapters /\ rq.conts = world.conts /\ rq.assurances = Assurances(rq.reg.entries)
  BY DEF ReadsNow
<1>2. StoreFacts(reg, now) /\ WorldFacts
  BY DEF RouteIInv
<1>3. /\ r \in Resources /\ r \in Nat /\ r \in DOMAIN reg.regs /\ reg.regs[r] # Null /\ raw = RegistryEntry(reg, r, now)
      /\ RegistrationTyped(reg.regs[r]) /\ (reg.obs[r] # Null => ObservationTyped(reg.obs[r]) /\ reg.obs[r].at \in Nat)
  BY <1>1, <1>2, EntriesAreStored
<1>4. /\ raw.identity = reg.regs[r].identity /\ raw.ttl = reg.regs[r].ttl /\ raw.caps = reg.regs[r].caps /\ raw.cost = reg.regs[r].cost
      /\ raw.obs = reg.obs[r] /\ raw.freshness = ClassifyFreshness(reg.obs[r], reg.regs[r].ttl, now)
      /\ raw = [identity |-> raw.identity, ttl |-> raw.ttl, caps |-> raw.caps, cost |-> raw.cost, obs |-> raw.obs, freshness |-> raw.freshness, due |-> raw.due]
  BY <1>3 DEF RegistryEntry
<1>5. /\ e.identity = raw.identity /\ e.ttl = raw.ttl /\ e.cost = raw.cost /\ e.obs = raw.obs /\ e.freshness = raw.freshness
      /\ e.caps.ctx \in Nat \cup {Null} /\ e.caps.out \in Nat \cup {Null} /\ (e.caps.evidence # Null => e.caps = raw.caps)
  <2>1. /\ raw.caps = [ctx |-> raw.caps.ctx, out |-> raw.caps.out, tools |-> raw.caps.tools, control |-> raw.caps.control, evidence |-> raw.caps.evidence]
        /\ raw.caps.ctx \in Nat \cup {Null} /\ raw.caps.out \in Nat \cup {Null}
    BY <1>3, <1>4 DEF RegistrationTyped
  <2> HIDE DEF e
  <2> QED BY <1>4, <2>1, CurrentIsEntry DEF e
<1>6. /\ g.res = e.identity.id /\ g.entry = e /\ g.qualified \in BOOLEAN
      /\ g.qualified => /\ AuthorizationFailureCodes(e, eff, rq.assurances, rq.now) = {}
                        /\ \E elig : AvailabilityFailureCodes(e, elig) = {}
                        /\ AdapterCodes(e, rq) = {}
                        /\ g.bound \subseteq BindIdentities(e, rq.catalog)
  BY StagesPass
<1>16. g.promotions = ActivePromotions(e, rq.now)
  BY StagesPass
<1> HIDE DEF g, e
<1>7. IdentityTyped(raw.identity) /\ IdentityAccepted(raw.identity) /\ raw.identity.provider \in Providers /\ raw.cost \in Nat \cup {Null}
      /\ raw.ttl \in Nat
  BY <1>3, <1>4 DEF RegistrationTyped, RegistrationAccepted, IdentityAccepted
<1>8. ASSUME g.qualified PROVE AuthorizedNow(EntryNow(r))
  <2>1. AuthorizedNow(e)
    <3>1. AuthorizationFailureCodes(e, EffectiveAuthorization(world.admin, world.client, profile), Assurances(rq.reg.entries), now) = {}
      BY <1>1, <1>6, <1>8
    <3> QED BY <1>2, <1>5, <1>7, <3>1, AuthorizedIsAllowed
  <2> QED BY <2>1, <1>3, <1>5 DEF AuthorizedNow, Affords, EntryNow
<1>9. ASSUME g.qualified PROVE Available(r, rq.b.features)
  <2>1. PICK elig : AvailabilityFailureCodes(e, elig) = {}
    BY <1>6, <1>9
  <2>2. raw.freshness \notin {"never_observed", "stale"} /\ (raw.obs # Null => raw.obs.health = "ok")
    BY <2>1, <1>5 DEF AvailabilityFailureCodes
  <2>3. reg.obs[r] # Null /\ ~Stale(reg.obs[r], reg.regs[r].ttl, now) /\ reg.obs[r].health = "ok"
    BY <2>2, <1>4 DEF ClassifyFreshness
  <2>4. now - reg.obs[r].at <= reg.regs[r].ttl /\ \A f \in reg.obs[r].facts : f.reset # Null => now < f.reset
    <3>1. ObservationTyped(reg.obs[r]) /\ reg.obs[r].at \in Nat /\ now \in Nat /\ reg.regs[r].ttl \in Nat
      BY <1>2, <1>3, <1>4, <1>7, <2>3 DEF WorldFacts
    <3>2. ~(now - reg.obs[r].at > reg.regs[r].ttl) /\ \A f \in reg.obs[r].facts : f.reset # Null => ~(now >= f.reset)
      BY <2>3 DEF Stale, ResetCrossed, WindowResetInstants
    <3>3. \A f \in reg.obs[r].facts : f.reset \in Nat \cup {Null}
      BY <3>1 DEF ObservationTyped
    <3> QED BY <3>1, <3>2, <3>3
  <2>5. r \in world.adapters /\ (("tool_calls" \in rq.b.features /\ raw.identity.channel = "worker_bridged") => r \in world.conts)
    BY <1>1, <1>2, <1>5, <1>6, <1>9 DEF AdapterCodes, WorldFacts
  <2> QED BY <1>4, <2>3, <2>4, <2>5 DEF Available
<1>10. raw.obs # Null => ObservationTyped(raw.obs)
  BY <1>3, <1>4
<1>12. e.caps.evidence # Null => e.caps.evidence.from < e.caps.evidence.until /\ e.caps.ctx # Null
  BY <1>3, <1>4, <1>5 DEF RegistrationTyped, RegistrationAccepted, CapabilitiesAccepted
<1>13. ~g.qualified => RouteStageReasons(g.stage) \cap g.codes # {}
  <2>1. \A c \in rq.catalog.entries : c.id \in Nat
    BY RoutingAssumption DEF ReadsNow, WorldFacts, RouteIInv, CatalogTyped, EntryTyped
  <2> QED BY <2>1, StagesFail DEF g
<1>14. e.caps.evidence \in Intervals \cup {Null}
  BY <1>3, <1>4, <1>5 DEF RegistrationTyped
<1>15. g.promotions \subseteq STRING
  <2>1. \A p \in MatchingPromotions(e) : p.source \in STRING
    BY <1>5, <1>10 DEF MatchingPromotions, ObservationTyped
  <2> QED BY <2>1, <1>16 DEF ActivePromotions
<1>11. GateOf(g, rq) /\ g.res = r
  BY <1>3, <1>4, <1>5, <1>6, <1>7, <1>8, <1>9, <1>10, <1>12, <1>13, <1>14, <1>15 DEF GateOf
<1> QED BY <1>11 DEF g

\* Each resource has one gate.
GatesOf(gates, rq) ==
    /\ \A g \in gates : GateOf(g, rq)
    /\ \A g \in gates, h \in gates : g.res = h.res => g = h

\* routing_core.py: there is one gate for each resource of the registry.
LEMMA GatesAreSound ==
    ASSUME RouteIInv, NEW rq, ReadsNow(rq), NEW need
    PROVE  GatesOf(Gates(rq, need), rq)
<1> DEFINE eff == EffectiveAuthorization(rq.admin, rq.client, rq.profile)
           gate(e) == EvaluateResource(e, rq, need, eff, CandidateReasoning(e, rq))
<1>1. Gates(rq, need) = {gate(e) : e \in rq.reg.entries}
  BY DEF Gates
<1>2. ASSUME NEW e \in rq.reg.entries PROVE GateOf(gate(e), rq) /\ gate(e).res = e.identity.id
  BY GateIsSound
<1>3. ASSUME NEW e \in rq.reg.entries, NEW f \in rq.reg.entries, e.identity.id = f.identity.id PROVE e = f
  <2>1. rq.reg = RegistrySnapshot(reg, now) /\ rq.reg # Raised /\ StoreFacts(reg, now)
    BY DEF ReadsNow, RouteIInv
  <2>2. e = RegistryEntry(reg, e.identity.id, now) /\ f = RegistryEntry(reg, f.identity.id, now)
    BY <2>1, EntriesAreStored
  <2> QED BY <1>3, <2>2
<1> HIDE DEF gate
<1> QED BY <1>1, <1>2, <1>3 DEF GatesOf

\* routing_core.py: a limit lowered to others is a limit.
LEMMA BoundedIsLimit ==
    ASSUME NEW own \in Nat \cup {Null}, NEW limits, limits \subseteq Nat \cup {Null}
    PROVE  Bounded(own, limits) \in Nat \cup {Null}
<1>1. CASE ~AllKnown(limits)
  BY <1>1 DEF Bounded
<1>2. CASE AllKnown(limits)
  <2>1. limits \subseteq Nat /\ limits # {}
    BY <1>2 DEF AllKnown
  <2>2. Min(limits) \in limits
    BY <2>1, LeastExists
  <2>3. own # Null => Min(limits \cup {own}) \in limits \cup {own}
    BY <2>1, LeastExists, limits \cup {own} # {}
  <2> QED BY <1>2, <2>1, <2>2, <2>3 DEF Bounded
<1> QED BY <1>1, <1>2

\* What a model of the catalog is, as configured or as the resources carry it.
ModelOf(c) == EntryTyped(c) /\ EntryAccepted(c) /\ CapabilityAccepted(c.capability)

\* routing_core.py: the model as its resources carry it is still one the constructors accept.
LEMMA RuntimeIsModel ==
    ASSUME NEW catalog, CatalogTyped(catalog), NEW c \in catalog.entries, NEW rq, NEW gates, GatesOf(gates, rq)
    PROVE  ModelOf(RuntimeEntry(c, rq, gates)) /\ RuntimeEntry(c, rq, gates).id = c.id /\ RuntimeEntry(c, rq, gates).provider = c.provider
<1> DEFINE mine == {g \in gates : g.qualified /\ c.id \in g.bound /\ (rq.b.pin # Null => g.res = rq.b.pin.res)}
           tools == {g.entry.caps.tools : g \in mine}
           single == Cardinality(mine) = 1
           only == (CHOOSE g \in mine : TRUE).res
           shared == {x \in c.resBind : single /\ x.res = only}
           unbound == \E g \in mine : ~SourceBound(c, g.res)
           ctx == Bounded(c.ctx, {g.entry.caps.ctx : g \in mine})
           out == Bounded(c.out, {g.entry.caps.out : g \in mine})
           tool == IF c.tools = "no" \/ "no" \in tools THEN "no"
                   ELSE IF \/ "tool_calls" \in rq.b.features /\ mine # {}
                           \/ tools = {"yes"} THEN "yes" ELSE c.tools
           effort == IF single /\ unbound THEN Null ELSE c.effort
           reasons == IF single /\ unbound THEN FALSE ELSE c.reasons
           bindings == IF single THEN IF shared = {} THEN Null ELSE (CHOOSE x \in shared : TRUE).bindings
                       ELSE IF c.bindings # Null /\ (c.capRes = Null \/ unbound) THEN Null ELSE c.bindings
           q == RuntimeEntry(c, rq, gates)
<1>1. q = [c EXCEPT !.ctx = ctx, !.out = out, !.tools = tool, !.effort = effort, !.reasons = reasons, !.bindings = bindings]
  BY Zenon DEF RuntimeEntry
<1>2. ModelOf(c) /\ DOMAIN c = EntryFields
      /\ \A x \in c.resBind : x.bindings # Null => x.bindings # {} /\ x.bindings \subseteq Scopes /\ \A b \in x.bindings : b.provider = c.provider
  BY DEF CatalogTyped, CatalogAccepted, ModelOf
<1>3. ctx \in Nat \cup {Null} /\ out \in Nat \cup {Null}
  <2>1. \A g \in mine : g.entry.caps.ctx \in Nat \cup {Null} /\ g.entry.caps.out \in Nat \cup {Null}
    BY DEF GatesOf, GateOf
  <2>2. c.ctx \in Nat \cup {Null} /\ c.out \in Nat \cup {Null}
    BY <1>2 DEF ModelOf, EntryTyped
  <2> HIDE DEF mine
  <2> QED BY <2>1, <2>2, BoundedIsLimit
<1>4. bindings # Null => bindings # {} /\ bindings \subseteq Scopes /\ \A b \in bindings : b.provider = c.provider
  <2>1. c.bindings # Null => c.bindings # {} /\ c.bindings \subseteq Scopes /\ \A b \in c.bindings : b.provider = c.provider
    BY <1>2 DEF ModelOf, EntryTyped, EntryAccepted
  <2>2. shared # {} => (CHOOSE x \in shared : TRUE) \in c.resBind
    OBVIOUS
  <2> HIDE DEF single, shared, unbound
  <2> QED BY <1>2, <2>1, <2>2
<1>5. (reasons <=> effort # Null) /\ effort \in {Null, c.effort}
  <2>1. c.reasons <=> c.effort # Null
    BY <1>2 DEF ModelOf, EntryAccepted
  <2> HIDE DEF single, unbound
  <2> QED BY <2>1
<1> HIDE DEF ctx, out, tool, effort, reasons, bindings, q
<1>6. /\ q.ctx = ctx /\ q.out = out /\ q.effort = effort /\ q.bindings = bindings
      /\ q.id = c.id /\ q.provider = c.provider /\ q.capability = c.capability
  BY <1>1, <1>2 DEF EntryFields
<1>7. q.reasons = reasons
  BY <1>1, <1>2 DEF EntryFields
<1>8. ModelOf(q)
  BY <1>2, <1>3, <1>4, <1>5, <1>6, <1>7 DEF ModelOf, EntryTyped, EntryAccepted
<1> QED BY <1>6, <1>8 DEF q

\* The models that remain of a catalog, under the ids they had.
NarrowedOf(E, rq, keys) ==
    /\ \A c \in E : ModelOf(c) /\ c.id \in keys /\ \E d \in rq.catalog.entries : d.id = c.id /\ d.provider = c.provider
    /\ \A c \in E, d \in E : c.id = d.id => c = d

\* routing_core.py: the models a route may take are models of the catalog, each once.
LEMMA NarrowedIsCatalog ==
    ASSUME NEW rq, CatalogTyped(rq.catalog), NEW keys, NEW gates, GatesOf(gates, rq)
    PROVE  NarrowedOf(NarrowedCatalog(rq, keys, gates), rq, keys)
<1> DEFINE usable == IF rq.candidates = Null THEN keys ELSE keys \cap rq.candidates
           kept == {c \in rq.catalog.entries : c.id \in usable}
           E == NarrowedCatalog(rq, keys, gates)
<1>1. E = kept \/ E = {RuntimeEntry(c, rq, gates) : c \in kept}
  BY DEF NarrowedCatalog
<1>2. \A c \in kept : c \in rq.catalog.entries /\ c.id \in keys /\ ModelOf(c)
  BY DEF CatalogTyped, CatalogAccepted, ModelOf
<1>3. \A c \in kept, d \in kept : c.id = d.id => c = d
  BY DEF CatalogTyped, CatalogAccepted
<1>4. \A c \in kept : LET x == RuntimeEntry(c, rq, gates) IN ModelOf(x) /\ x.id = c.id /\ x.provider = c.provider
  BY RuntimeIsModel
<1> HIDE DEF kept, E
<1>5. ASSUME NEW c \in E PROVE \E d \in kept : d.id = c.id /\ d.provider = c.provider /\ ModelOf(c) /\ (c = d \/ c = RuntimeEntry(d, rq, gates))
  BY <1>1, <1>2, <1>4
<1>6. ASSUME NEW c \in E, NEW d \in E, c.id = d.id PROVE c = d
  BY <1>1, <1>3, <1>4, <1>6
<1>7. NarrowedOf(E, rq, keys)
  <2>1. ASSUME NEW c \in E PROVE ModelOf(c) /\ c.id \in keys /\ \E d \in rq.catalog.entries : d.id = c.id /\ d.provider = c.provider
    <3>1. PICK d \in kept : d.id = c.id /\ d.provider = c.provider /\ ModelOf(c)
      BY <1>5
    <3> QED BY <1>2, <3>1
  <2> QED BY <1>6, <2>1 DEF NarrowedOf
<1> QED BY <1>7 DEF E

\* A decision among the models E.
DecidedOf(d, E) ==
    /\ d.selected # Null => Evaluated(d.selected) /\ d.selected.eligible /\ \E c \in E : c.id = d.selected.id
    /\ \A e \in d.excluded : Evaluated(e) /\ ~e.eligible /\ \E c \in E : c.id = e.id
    /\ d.selected = Null /\ E # {} => d.excluded # {}
    /\ DecisionAccepted(d)

\* selector.py: an evaluation of every model, of which one is picked or all are excluded.
LEMMA PickedIsDecided ==
    ASSUME NEW E, NEW evals, \A e \in evals : Evaluated(e) /\ \E c \in E : c.id = e.id, E # {} => evals # {},
           \A e \in evals, f \in evals : e.id = f.id => e = f,
           NEW pol, NEW d, Picked(d, E, evals, pol)
    PROVE  DecidedOf(d, E)
<1> DEFINE eligible == {e \in evals : e.eligible}
<1>1. /\ d.excluded = evals \ eligible
      /\ d.selected = Null <=> eligible = {}
      /\ d.selected # Null => d.selected \in eligible
      /\ d.alternatives = eligible \ {d.selected}
      /\ d.closest \subseteq d.excluded /\ d.recoverable \subseteq d.excluded
      /\ d.degraded = (d.selected # Null /\ d.selected.degraded)
      /\ d.codes = IF d.selected = Null THEN {"no_eligible_candidate"}
                   ELSE {"selected_balanced"} \cup (IF d.selected.degraded THEN {"selected_degraded_capacity"} ELSE {})
  BY DEF Picked
<1>2. \A e \in {d.selected} \cup d.alternatives \cup d.excluded : e # Null => EvaluationAccepted(e)
  BY <1>1 DEF Evaluated
<1>3. d.selected # Null => d.selected.eligible
  BY <1>1
<1>4. \A e \in d.excluded \cup d.closest \cup d.recoverable : ~e.eligible
  BY <1>1
<1>5. CASE d.selected = Null
  <2>1. d.alternatives = {} /\ ~d.degraded /\ "no_eligible_candidate" \in d.codes
    BY <1>1, <1>5
  <2>2. DecisionAccepted(d)
    BY <2>1, <1>2, <1>3, <1>4, <1>5 DEF DecisionAccepted
  <2> QED BY <1>1, <2>2 DEF DecidedOf
<1>6. CASE d.selected # Null
  <2>1. "selected_balanced" \in d.codes /\ d.codes \subseteq {"selected_balanced", "selected_degraded_capacity"}
    BY <1>1, <1>6
  <2>2. d.degraded = d.selected.degraded
    <3>1. d.selected.degraded \in BOOLEAN
      BY <1>1, <1>6 DEF Evaluated, Evaluations
    <3> QED BY <1>1, <1>6, <3>1
  <2>3. \A e \in d.alternatives : e.eligible /\ e.id # d.selected.id
    BY <1>1, <1>6
  <2>4. DecisionAccepted(d)
    BY <2>1, <2>2, <2>3, <1>2, <1>3, <1>4, <1>6 DEF DecisionAccepted
  <2> QED BY <1>1, <2>4 DEF DecidedOf
<1> QED BY <1>5, <1>6

\* routing_core.py: the inputs of a selection within a route are what their constructors accept.
LEMMA RouteInputsAreSound ==
    ASSUME RouteIInv, NEW rq, ReadsNow(rq), NEW need, NEW snap, snap = Null \/ Readable(snap)
    PROVE  InputsSound([req |-> need, pol |-> rq.pol, now |-> rq.now, resets |-> rq.resets, blocked |-> rq.miBlocked,
                        snap |-> IF snap = Null THEN rq.snap ELSE snap,
                        elig |-> IF snap = Null THEN rq.elig ELSE [p \in Providers |-> Null]])
<1>1. /\ rq.pol = Policy /\ rq.now = now /\ now \in Nat /\ rq.resets = [p \in Providers |-> Null] /\ rq.snap = [p \in Providers |-> Null]
      /\ PolicyTyped(Policy) /\ SelectorPolicyAccepted(Policy)
  BY RoutingAssumption DEF ReadsNow, RouteIInv, WorldFacts
<1>2. Readable(IF snap = Null THEN rq.snap ELSE snap)
  BY <1>1 DEF Readable
<1>3. ContextTyped(rq.now, rq.resets)
  BY <1>1 DEF ContextTyped
<1> QED BY <1>1, <1>2, <1>3 DEF InputsSound

\* routing_core.py: a selection within a route is a decision among its models.
LEMMA RunIsDecided ==
    ASSUME RouteIInv, NEW rq, ReadsNow(rq), NEW need, NEW snap, snap = Null \/ Readable(snap), NEW keys, NEW E, NarrowedOf(E, rq, keys)
    PROVE  DecidedOf(RunSelection(rq, E, need, snap), E)
<1> DEFINE inp == [req |-> need, pol |-> rq.pol, now |-> rq.now, resets |-> rq.resets, blocked |-> rq.miBlocked,
                   snap |-> IF snap = Null THEN rq.snap ELSE snap,
                   elig |-> IF snap = Null THEN rq.elig ELSE [p \in Providers |-> Null]]
           evals == {EvaluateCandidate(c, inp) : c \in E}
           pol == rq.pol
           instant == rq.now
           d == AssembleEvaluations(E, evals, pol, instant)
<1>1. InputsSound(inp)
  BY RouteInputsAreSound
<1>2. RunSelection(rq, E, need, snap) = SelectModel(E, inp)
  BY Zenon DEF RunSelection
<1>3. inp.pol = pol /\ inp.now = instant
  OBVIOUS
<1> HIDE DEF inp
<1>4. SelectModel(E, inp) = d
  BY Zenon, <1>3 DEF SelectModel
<1>5. \A c \in E : EntryTyped(c) /\ EntryAccepted(c)
  BY DEF NarrowedOf, ModelOf
<1>6. CatalogAccepted(E)
  BY DEF NarrowedOf, ModelOf, CatalogAccepted
<1>7. ASSUME NEW c \in E PROVE Evaluated(EvaluateCandidate(c, inp)) /\ EvaluateCandidate(c, inp).id = c.id
  BY <1>1, <1>5, CandidateIsSound
<1>8. \A e \in evals : Evaluated(e) /\ \E c \in E : e.id = c.id
  BY <1>7
<1>9. \A e \in evals, f \in evals : e.id = f.id => e = f
  BY <1>7 DEF NarrowedOf
<1>10. PolicyTyped(pol)
  BY RoutingAssumption DEF ReadsNow
<1>11. E # {} => evals # {}
  OBVIOUS
<1> HIDE DEF evals, pol, instant
<1>12. Picked(d, E, evals, pol)
  BY <1>5, <1>6, <1>8, <1>9, <1>10, OneIsSelected
<1> HIDE DEF d
<1>13. DecidedOf(d, E)
  BY <1>8, <1>9, <1>11, <1>12, PickedIsDecided
<1> QED BY <1>2, <1>4, <1>13

\* routing_core.py: what a resource's own observation says of the capacity is readable.
LEMMA ResourceIsReadable ==
    ASSUME NEW g, g.entry.obs # Null => ObservationTyped(g.entry.obs), NEW entry
    PROVE  Readable(ResourceSnapshots(g, entry))
<1> DEFINE snap == ResourceSnapshots(g, entry)
           there(s) == {f \in g.entry.obs.facts : f.class = "provider_telemetry" /\ f.slot = s /\ SlotOf[s].scope \in {x.scope : x \in entry.bindings}}
           wins == [s \in Slots |-> IF there(s) = {} THEN NoWindow ELSE (CHOOSE f \in there(s) : TRUE).remaining]
<1> SUFFICES ASSUME NEW p \in Providers, snap[p] # Null, NEW s \in Slots PROVE snap[p].wins[s] \in {NoWindow, Unknown} \cup 0..100
  BY DEF Readable
<1>1. g.entry.obs # Null /\ snap[p].wins = wins
  BY DEF ResourceSnapshots
<1>2. \A f \in g.entry.obs.facts : f.remaining \in {Unknown} \cup 0..100
  BY <1>1 DEF ObservationTyped
<1>3. wins[s] = IF there(s) = {} THEN NoWindow ELSE (CHOOSE f \in there(s) : TRUE).remaining
  OBVIOUS
<1>4. there(s) # {} => (CHOOSE f \in there(s) : TRUE) \in g.entry.obs.facts
  OBVIOUS
<1> HIDE DEF there, wins, snap
<1> QED BY <1>1, <1>2, <1>3, <1>4

\* A gate a route may run a model through.
Runs(g, i, gates, rq) == g \in gates /\ g.qualified /\ i \in g.bound /\ (rq.b.pin # Null => g.res = rq.b.pin.res)

\* The selection of one model on one resource.
ScopedOf(x, rq, gates, keys) ==
    /\ x.id \in keys /\ Runs(x.gate, x.id, gates, rq)
    /\ ModelOf(x.entry) /\ x.entry.id = x.id /\ x.entry = CHOOSE c \in NarrowedCatalog(rq, {x.id}, {x.gate}) : TRUE
    /\ x.out.selected # Null => Evaluated(x.out.selected) /\ x.out.selected.eligible /\ x.out.selected.id = x.id
    /\ \A e \in x.out.excluded : Evaluated(e) /\ ~e.eligible /\ e.id = x.id
    /\ x.out.selected = Null => x.out.excluded # {}

\* routing_core.py: each selection of a model on a resource is one of that model, on a resource that may run it.
LEMMA ScopedAreSound ==
    ASSUME RouteIInv, NEW rq, ReadsNow(rq), CatalogTyped(rq.catalog), NEW need, NEW gates, GatesOf(gates, rq), NEW keys
    PROVE  LET scoped == ScopedSelections(rq, need, gates, keys)
           IN  /\ \A x \in scoped : ScopedOf(x, rq, gates, keys)
               /\ \A x \in scoped, y \in scoped : x.id = y.id /\ x.gate = y.gate => x = y
<1> DEFINE pairs == {p \in keys \X gates : /\ p[2].qualified /\ p[1] \in p[2].bound
                                           /\ rq.b.pin # Null => p[2].res = rq.b.pin.res}
           entries(p) == NarrowedCatalog(rq, {p[1]}, {p[2]})
           entry(p) == CHOOSE c \in entries(p) : TRUE
           mismatch(p) == rq.b.pin # Null /\ rq.b.pin.effort # Null /\ entry(p).effort # rq.b.pin.effort
           decided(p) == RunSelection(rq, entries(p), need, ResourceSnapshots(p[2], entry(p)))
           item(p) == [id |-> p[1], gate |-> p[2], entry |-> entry(p), mismatch |-> mismatch(p), out |-> decided(p)]
           scoped == ScopedSelections(rq, need, gates, keys)
<1>1. scoped = {item(p) : p \in {q \in pairs : entries(q) # {}}}
  BY Zenon DEF ScopedSelections
<1>2. \A p \in pairs : p = <<p[1], p[2]>> /\ p[1] \in keys /\ Runs(p[2], p[1], gates, rq)
  BY DEF Runs
<1>3. \A p \in pairs : item(p).id = p[1] /\ item(p).gate = p[2] /\ item(p).entry = entry(p) /\ item(p).out = decided(p)
  OBVIOUS
<1>4. ASSUME NEW p \in pairs, entries(p) # {} PROVE ScopedOf(item(p), rq, gates, keys)
  <2> DEFINE i == p[1]
             g == p[2]
             snap == ResourceSnapshots(g, entry(p))
  <2>1. g \in gates /\ GateOf(g, rq)
    BY <1>2 DEF Runs, GatesOf
  <2>2. GatesOf({g}, rq)
    BY <2>1 DEF GatesOf
  <2>3. NarrowedOf(entries(p), rq, {i})
    BY <2>2, NarrowedIsCatalog
  <2>4. entry(p) \in entries(p)
    BY <1>4
  <2>5. Readable(snap)
    BY <2>1, ResourceIsReadable DEF GateOf
  <2>10. entry(p) = CHOOSE c \in NarrowedCatalog(rq, {i}, {g}) : TRUE
    OBVIOUS
  <2> HIDE DEF entries, entry, snap, i
  <2>6. DecidedOf(RunSelection(rq, entries(p), need, snap), entries(p))
    BY <2>3, <2>5, RunIsDecided
  <2>7. \A c \in entries(p) : ModelOf(c) /\ c.id = i
    BY <2>3 DEF NarrowedOf
  <2>8. decided(p) = RunSelection(rq, entries(p), need, snap)
    BY DEF snap
  <2> HIDE DEF decided, item, g
  <2>9. item(p).id = i /\ item(p).gate = g /\ item(p).entry = entry(p) /\ item(p).out = decided(p) /\ i \in keys /\ Runs(g, i, gates, rq)
    BY <1>2, <1>3 DEF i, g
  <2> QED BY <1>4, <2>4, <2>6, <2>7, <2>8, <2>9, <2>10 DEF ScopedOf, DecidedOf
<1> HIDE DEF pairs, entries, item, scoped
<1>5. ASSUME NEW x \in scoped, NEW y \in scoped, x.id = y.id, x.gate = y.gate PROVE x = y
  <2>1. PICK p \in pairs : x = item(p)
    BY <1>1
  <2>2. PICK q \in pairs : y = item(q)
    BY <1>1
  <2>3. p = <<p[1], p[2]>> /\ q = <<q[1], q[2]>> /\ p[1] = q[1] /\ p[2] = q[2]
    BY <1>2, <1>3, <1>5, <2>1, <2>2
  <2>4. p = q
    BY <2>3
  <2> QED BY <2>1, <2>2, <2>4
<1>6. \A x \in scoped : ScopedOf(x, rq, gates, keys)
  BY <1>1, <1>4
<1> QED BY <1>5, <1>6 DEF scoped

\* routing_core.py: the key of a gate is made of numbers and ends in its resource.
LEMMA OrderKeyIsNumbers ==
    ASSUME NEW g, g.res \in Nat
    PROVE  OrderKey(g) \in [1..2 -> Nat] /\ OrderKey(g)[2] = g.res
  BY DEF OrderKey

\* routing_core.py: of the gates that run a model one comes first.
LEMMA FirstGate ==
    ASSUME NEW rq, NEW gates, GatesOf(gates, rq), NEW usable, usable \subseteq gates, usable # {}
    PROVE  (CHOOSE g \in usable : \A h \in usable \ {g} : Before(OrderKey(g), OrderKey(h))) \in usable
<1> DEFINE key == [g \in usable |-> OrderKey(g)]
<1>1. \A g \in usable : OrderKey(g) \in [1..2 -> Nat] /\ OrderKey(g)[2] = g.res
  BY OrderKeyIsNumbers DEF GatesOf, GateOf
<1>2. key \in [usable -> [1..2 -> Nat]] /\ \A g \in usable : key[g] = OrderKey(g)
  BY <1>1
<1> HIDE DEF key
<1>3. \A g \in usable, h \in usable : key[g][2] = key[h][2] => g = h
  BY <1>1, <1>2 DEF GatesOf
<1>4. \E g \in usable : \A h \in usable \ {g} : Before(key[g], key[h])
  BY <1>2, <1>3, FirstOfAll, 2 \in 1..10
<1>5. \E g \in usable : \A h \in usable \ {g} : Before(OrderKey(g), OrderKey(h))
  BY <1>2, <1>4
<1> QED BY <1>5

\* A function on the first numbers is a sequence.
LEMMA ShortSeq == ASSUME NEW n \in Nat, NEW k \in [1..n -> Nat]
   PROVE k \in Seq(Nat) /\ Len(k) = n /\ DOMAIN k = 1..n
<1>1. Seq(Nat) = UNION {[1..m -> Nat] : m \in Nat}
  BY SeqDef, Zenon
<1>2. k \in UNION {[1..m -> Nat] : m \in Nat}
  BY Zenon
<1>3. k \in Seq(Nat)
  BY <1>1, <1>2, Zenon
<1>4. DOMAIN k = 1..n
  OBVIOUS
<1>5. DOMAIN k = 1..Len(k) /\ Len(k) \in Nat
  BY <1>3, LenProperties, Zenon
<1>6. Len(k) = n
  BY <1>4, <1>5
<1> QED BY <1>3, <1>4, <1>6

\* A key of eight numbers followed by one of two is one of ten, and ends the same way.
LEMMA KeysJoined == ASSUME NEW k \in [1..8 -> Nat], NEW o \in [1..2 -> Nat]
   PROVE k \o o \in [1..10 -> Nat] /\ (k \o o)[10] = o[2]
<1>1. k \in Seq(Nat) /\ o \in Seq(Nat) /\ Len(k) = 8 /\ Len(o) = 2
  BY ShortSeq
<1> DEFINE c == k \o o
<1>2. /\ c \in Seq(Nat)
      /\ Len(c) = Len(k) + Len(o)
      /\ \A i \in 1 .. Len(k) + Len(o) : c[i] = IF i <= Len(k) THEN k[i] ELSE o[i - Len(k)]
  BY <1>1, ConcatProperties, Zenon
<1>3. c \in [1..Len(c) -> Nat]
  BY <1>2, LenProperties, Zenon
<1> HIDE DEF c
<1>4. Len(c) = 10 /\ c[10] = o[2]
  BY <1>1, <1>2
<1>5. c \in [1..10 -> Nat]
  BY <1>3, <1>4, Zenon
<1> QED BY <1>4, <1>5 DEF c

\* The selections of one model, of which one stands for it.
Peers(mine, i, rq, gates, keys) ==
    /\ mine # {} /\ \A x \in mine : ScopedOf(x, rq, gates, keys) /\ x.id = i
    /\ \A x \in mine, y \in mine : x.gate = y.gate => x = y

\* routing_core.py: of the resources a model was selected on one represents it, or else the first of those it was tried on.
LEMMA RepresentativeIsOne ==
    ASSUME NEW rq, NEW gates, GatesOf(gates, rq), NEW keys, NEW i, NEW mine, Peers(mine, i, rq, gates, keys), NEW pol, PolicyTyped(pol)
    PROVE  Representative(mine, pol) \in mine
<1> USE DEF Peers
<1> DEFINE good == {x \in mine : x.out.selected # Null}
           ranking(x) == RankingKey(x.out.selected, x.entry, pol.preference)
           key(x) == ranking(x) \o OrderKey(x.gate)
<1>1. \A x \in mine : x.gate.res \in Nat
  BY DEF ScopedOf, Runs, GatesOf, GateOf
<1>2. \A x \in mine, y \in mine : x.gate.res = y.gate.res => x = y
  BY DEF ScopedOf, Runs, GatesOf
<1>3. CASE good # {}
  <2>1. \A x \in good : ranking(x) \in [1..8 -> Nat]
    <3> SUFFICES ASSUME NEW x \in good PROVE ranking(x) \in [1..8 -> Nat]
      OBVIOUS
    <3> DEFINE e == x.out.selected
               c == x.entry
               preference == pol.preference
    <3>1. Evaluated(e) /\ EntryTyped(c) /\ preference \in Seq(Nat)
      BY DEF ScopedOf, ModelOf, PolicyTyped
    <3> HIDE DEF e, c, preference
    <3>2. RankingKey(e, c, preference) \in [1..8 -> Nat]
      BY <3>1, KeyIsNumbers
    <3> QED BY <3>2 DEF e, c, preference
  <2>2. \A x \in good : OrderKey(x.gate) \in [1..2 -> Nat] /\ OrderKey(x.gate)[2] = x.gate.res
    BY <1>1, OrderKeyIsNumbers
  <2> HIDE DEF ranking, good
  <2>3. \A x \in good : key(x) \in [1..10 -> Nat] /\ key(x)[10] = x.gate.res
    <3> SUFFICES ASSUME NEW x \in good PROVE key(x) \in [1..10 -> Nat] /\ key(x)[10] = x.gate.res
      OBVIOUS
    <3> DEFINE k == ranking(x)
               o == OrderKey(x.gate)
    <3>1. k \in [1..8 -> Nat] /\ o \in [1..2 -> Nat] /\ o[2] = x.gate.res
      BY <2>1, <2>2
    <3> HIDE DEF k, o
    <3>2. k \o o \in [1..10 -> Nat] /\ (k \o o)[10] = o[2]
      BY <3>1, KeysJoined
    <3> QED BY <3>1, <3>2 DEF k, o
  <2> HIDE DEF key
  <2> DEFINE keyed == [x \in good |-> key(x)]
  <2>4. keyed \in [good -> [1..10 -> Nat]] /\ \A x \in good : keyed[x] = key(x)
    BY <2>3
  <2> HIDE DEF keyed
  <2>5. \A x \in good, y \in good : keyed[x][10] = keyed[y][10] => x = y
    BY <1>2, <2>3, <2>4 DEF good
  <2>6. \E x \in good : \A y \in good \ {x} : Before(keyed[x], keyed[y])
    BY <1>3, <2>4, <2>5, FirstOfAll, 10 \in 1..10
  <2>7. \E x \in good : \A y \in good \ {x} : Before(key(x), key(y))
    BY <2>4, <2>6
  <2>8. (CHOOSE x \in good : \A y \in good \ {x} : Before(key(x), key(y))) \in mine
    BY <2>7 DEF good
  <2>9. Representative(mine, pol) = CHOOSE x \in good : \A y \in good \ {x} : Before(key(x), key(y))
    BY <1>3, Zenon DEF Representative, good, key, ranking
  <2> QED BY <2>8, <2>9
<1>4. CASE good = {}
  <2> DEFINE numbers == {x.gate.res : x \in mine}
  <2>1. numbers \subseteq Nat /\ numbers # {}
    BY <1>1
  <2> HIDE DEF numbers
  <2>2. Min(numbers) \in numbers /\ \A n \in numbers : Min(numbers) <= n
    BY <2>1, LeastExists
  <2>3. \E x \in mine : \A y \in mine : x.gate.res <= y.gate.res
    BY <2>2 DEF numbers
  <2>4. Representative(mine, pol) = CHOOSE x \in mine : \A y \in mine : x.gate.res <= y.gate.res
    BY <1>4, Zenon DEF Representative
  <2> QED BY <2>3, <2>4
<1> QED BY <1>3, <1>4

\* routing_core.py: a model that can be routed to has a qualified resource of the pin, and is the pin's.
LEMMA KeysAreServed ==
    ASSUME NEW rq, NEW gates, NEW i \in RoutableKeys(rq, gates)
    PROVE  (\E g \in gates : Runs(g, i, gates, rq)) /\ (rq.b.pin # Null => i = rq.b.pin.model)
<1> DEFINE pinned == {g \in gates : rq.b.pin # Null /\ g.res = rq.b.pin.res}
           byPin == IF rq.b.pin = Null THEN UNION {g.bound : g \in {h \in gates : h.qualified}}
                    ELSE UNION {g.bound \cap {rq.b.pin.model} : g \in {h \in pinned : h.qualified}}
<1>1. i \in byPin
  BY DEF RoutableKeys
<1>2. CASE rq.b.pin = Null
  BY <1>1, <1>2 DEF Runs
<1>3. CASE rq.b.pin # Null
  BY <1>1, <1>3 DEF Runs
<1> QED BY <1>2, <1>3

\* The selections that were tried.
TriedOf(tried, rq, gates, keys) ==
    /\ \A x \in tried : ScopedOf(x, rq, gates, keys)
    /\ \A x \in tried, y \in tried : x.id = y.id /\ x.gate = y.gate => x = y

Representatives(tried, pol) == {Representative({x \in tried : x.id = i}, pol) : i \in {x.id : x \in tried}}

\* routing_core.py: each model that was tried is represented by one of the resources it was tried on.
LEMMA BestAreScoped ==
    ASSUME NEW rq, NEW gates, GatesOf(gates, rq), NEW keys, NEW tried, NEW pol, PolicyTyped(pol),
           TriedOf(tried, rq, gates, keys)
    PROVE  /\ Representatives(tried, pol) \subseteq tried
           /\ \A x \in Representatives(tried, pol), y \in Representatives(tried, pol) : x.id = y.id => x = y
<1> DEFINE mine(i) == {x \in tried : x.id = i}
           rep(i) == Representative(mine(i), pol)
           ids == {x.id : x \in tried}
           best == {rep(i) : i \in ids}
<1>1. ASSUME NEW i \in ids PROVE rep(i) \in mine(i)
  <2>1. PICK m : m = mine(i)
    OBVIOUS
  <2>2. Peers(m, i, rq, gates, keys)
    BY <1>1, <2>1 DEF Peers, TriedOf
  <2>3. Representative(m, pol) \in m
    BY <2>2, RepresentativeIsOne
  <2> QED BY <2>1, <2>3
<1>2. \A i \in ids : rep(i) \in tried /\ rep(i).id = i
  BY <1>1
<1> HIDE DEF rep, ids
<1>3. best \subseteq tried /\ \A x \in best, y \in best : x.id = y.id => x = y
  BY <1>2
<1> HIDE DEF best
<1>4. Representatives(tried, pol) = best
  BY Zenon DEF Representatives, best, rep, ids, mine
<1> QED BY <1>3, <1>4

\* The evaluation a resource takes to the selection among the representatives.
Brought(x) == IF x.out.selected # Null THEN x.out.selected ELSE CHOOSE e \in x.out.excluded : TRUE

\* What a resource brings to the selection is an evaluation of its model.
LEMMA BroughtIsEvaluated ==
    ASSUME NEW rq, NEW gates, NEW keys, NEW x, ScopedOf(x, rq, gates, keys)
    PROVE  Evaluated(Brought(x)) /\ Brought(x).id = x.id
<1>1. CASE x.out.selected # Null
  BY <1>1 DEF ScopedOf, Brought
<1>2. CASE x.out.selected = Null
  <2>1. (CHOOSE e \in x.out.excluded : TRUE) \in x.out.excluded
    BY <1>2 DEF ScopedOf
  <2> QED BY <1>2, <2>1 DEF ScopedOf, Brought
<1> QED BY <1>1, <1>2

\* routing_core.py: the selection among the representatives selects one of their models.
LEMMA AssembledIsDecided ==
    ASSUME NEW rq, NEW gates, NEW keys, NEW best, \A x \in best : ScopedOf(x, rq, gates, keys),
           \A x \in best, y \in best : x.id = y.id => x = y, NEW pol, PolicyTyped(pol), NEW instant
    PROVE  DecidedOf(AssembleEvaluations({x.entry : x \in best}, {Brought(x) : x \in best}, pol, instant), {x.entry : x \in best})
<1> DEFINE E == {x.entry : x \in best}
           evals == {Brought(x) : x \in best}
           d == AssembleEvaluations(E, evals, pol, instant)
<1>1. ASSUME NEW x \in best PROVE Evaluated(Brought(x)) /\ Brought(x).id = x.id /\ ModelOf(x.entry) /\ x.entry.id = x.id
  <2>1. ScopedOf(x, rq, gates, keys)
    OBVIOUS
  <2>2. Evaluated(Brought(x)) /\ Brought(x).id = x.id
    BY <2>1, BroughtIsEvaluated
  <2> QED BY <2>1, <2>2 DEF ScopedOf
<1>2. \A c \in E : EntryTyped(c) /\ EntryAccepted(c) /\ CapabilityAccepted(c.capability)
  BY <1>1 DEF ModelOf
<1>3. \A c \in E, k \in E : c.id = k.id => c = k
  BY <1>1
<1>4. CatalogAccepted(E)
  BY <1>2, <1>3 DEF CatalogAccepted
<1>5. \A e \in evals : Evaluated(e) /\ \E c \in E : e.id = c.id
  BY <1>1
<1>6. \A e \in evals, f \in evals : e.id = f.id => e = f
  BY <1>1
<1>7. E # {} => evals # {}
  OBVIOUS
<1> HIDE DEF E, evals
<1>8. Picked(d, E, evals, pol)
  BY <1>2, <1>4, <1>5, <1>6, OneIsSelected
<1> HIDE DEF d
<1>9. DecidedOf(d, E)
  BY <1>5, <1>6, <1>7, <1>8, PickedIsDecided
<1> QED BY <1>9 DEF d, E, evals

\* A target a route may give out.
Reaches(t, gates, rq) ==
    \E g \in gates : /\ g.qualified /\ t.res = g.res /\ t.model \in g.bound
                     /\ rq.b.pin # Null => t.res = rq.b.pin.res /\ t.model = rq.b.pin.model
                     /\ \E effort \in STRING \cup {Null} : t = RouteTarget(g, t.model, effort)

\* routing_core.py: the target of a route and its alternatives run the selected model on a resource that qualifies.
LEMMA DecisionReaches ==
    ASSUME NEW rq, NEW gates, GatesOf(gates, rq), NEW keys, NEW scoped, NEW tried, NEW best, NEW choice, NEW d,
           d = RouteDecision(rq, gates, keys, scoped, tried, best, choice),
           \A x \in tried : ScopedOf(x, rq, gates, keys), best \subseteq tried,
           \A i \in keys : (\E g \in gates : Runs(g, i, gates, rq)) /\ (rq.b.pin # Null => i = rq.b.pin.model),
           choice.selected # Null /\ rq.catalog.versioned => choice.selected.id \in keys,
           choice.selected # Null /\ ~rq.catalog.versioned => \E x \in best : x.id = choice.selected.id,
           NEW t \in {d.target} \cup d.alternatives, t # Null \/ choice.selected # Null
    PROVE  Reaches(t, gates, rq)
<1> DEFINE id == choice.selected.id
           able == {g \in gates : g.qualified /\ id \in g.bound /\ (rq.b.pin # Null => g.res = rq.b.pin.res)}
           usable == IF rq.catalog.versioned THEN able ELSE {x.gate : x \in {y \in tried : y.id = id /\ y.out.selected # Null}}
           chosen == IF rq.catalog.versioned
                     THEN CHOOSE g \in able : \A h \in able \ {g} : Before(OrderKey(g), OrderKey(h))
                     ELSE (CHOOSE x \in best : x.id = id).gate
           effort(g) == IF rq.catalog.versioned THEN Null ELSE (CHOOSE c \in NarrowedCatalog(rq, {id}, {g}) : TRUE).effort
           others == IF rq.b.pin # Null THEN {} ELSE {RouteTarget(g, id, effort(g)) : g \in usable \ {chosen}}
           excluded == {TargetExclusion(g.res, Null, g.stage, g.codes) : g \in {h \in gates : ~h.qualified}}
                       \cup (IF rq.catalog.versioned THEN {} ELSE ScopedExclusions(scoped))
           made(status, target, alternatives, codes) ==
               [selection |-> choice, exclusions |-> excluded, pinned |-> HasPin(rq.b),
                unroutable |-> {c.id : c \in rq.catalog.entries} \ keys,
                expired |-> UNION {ExpiredPromotions(g.entry, rq.now) : g \in gates},
                status |-> status, target |-> target, alternatives |-> alternatives, codes |-> codes]
           failed == {"no_eligible_target"} \cup PinCodes(rq, gates, keys)
                     \cup (IF HasPin(rq.b) THEN {"pinned_request_failed"} ELSE {})
           first == RouteTarget(chosen, id, effort(chosen))
<1>0. d = IF choice.selected = Null THEN made("no_solution", Null, {}, failed) ELSE made("selected", first, others, {"route_selected"})
  BY Zenon DEF RouteDecision
<1>20. \A status, target, alternatives, codes :
          /\ made(status, target, alternatives, codes).target = target
          /\ made(status, target, alternatives, codes).alternatives = alternatives
  OBVIOUS
<1> HIDE DEF made, failed, first, others
<1>1. /\ choice.selected = Null => d.target = Null /\ d.alternatives = {}
      /\ choice.selected # Null => d.target = first /\ d.alternatives = others
  BY <1>0, <1>20
<1>2. choice.selected # Null
  BY <1>1
<1>3. /\ d.target = RouteTarget(chosen, id, effort(chosen))
      /\ d.alternatives \subseteq {RouteTarget(g, id, effort(g)) : g \in usable \ {chosen}}
  BY <1>1, <1>2 DEF first, others
<1>4. \A g \in usable \cup {chosen} : Runs(g, id, gates, rq)
  <2>1. CASE rq.catalog.versioned
    <3>1. id \in keys
      BY <1>2, <2>1
    <3>2. able # {} /\ able \subseteq gates
      BY <3>1 DEF Runs
    <3>3. \A g \in able : Runs(g, id, gates, rq)
      BY DEF Runs
    <3> HIDE DEF able
    <3>4. (CHOOSE g \in able : \A h \in able \ {g} : Before(OrderKey(g), OrderKey(h))) \in able
      BY <3>2, FirstGate
    <3> QED BY <2>1, <3>3, <3>4
  <2>2. CASE ~rq.catalog.versioned
    <3>1. (CHOOSE x \in best : x.id = id) \in best /\ (CHOOSE x \in best : x.id = id).id = id
      BY <1>2, <2>2
    <3>2. \A x \in tried : Runs(x.gate, x.id, gates, rq)
      BY DEF ScopedOf
    <3> QED BY <2>2, <3>1, <3>2
  <2> QED BY <2>1, <2>2
<1>5. rq.b.pin # Null => id = rq.b.pin.model
  <2>1. CASE rq.catalog.versioned
    BY <1>2, <2>1
  <2>2. CASE ~rq.catalog.versioned
    BY <1>2, <2>2 DEF ScopedOf
  <2> QED BY <2>1, <2>2
<1>8. \A g \in usable \cup {chosen} : effort(g) \in STRING \cup {Null}
  <2>1. CASE rq.catalog.versioned
    BY <2>1
  <2>2. CASE ~rq.catalog.versioned
    <3>1. (CHOOSE x \in best : x.id = id) \in best /\ (CHOOSE x \in best : x.id = id).id = id
      BY <1>2, <2>2
    <3>2. ASSUME NEW g \in usable \cup {chosen} PROVE \E x \in tried : g = x.gate /\ x.id = id
      BY <2>2, <3>1
    <3>3. ASSUME NEW x \in tried PROVE /\ x.entry = CHOOSE c \in NarrowedCatalog(rq, {x.id}, {x.gate}) : TRUE
                                     /\ x.entry.effort \in STRING \cup {Null}
      <4>1. ScopedOf(x, rq, gates, keys)
        OBVIOUS
      <4>2. EntryTyped(x.entry) /\ x.entry = CHOOSE c \in NarrowedCatalog(rq, {x.id}, {x.gate}) : TRUE
        BY <4>1 DEF ScopedOf, ModelOf
      <4>3. PICK c : c = x.entry
        OBVIOUS
      <4>4. c.effort \in {Null} \cup {Efforts[i] : i \in DOMAIN Efforts}
        BY <4>2, <4>3 DEF EntryTyped
      <4>5. \A i \in DOMAIN Efforts : Efforts[i] \in STRING
        BY EffortAssumption
      <4>6. c.effort \in STRING \cup {Null}
        BY <4>4, <4>5
      <4> QED BY <4>2, <4>3, <4>6
    <3>4. \A g : effort(g) = (CHOOSE c \in NarrowedCatalog(rq, {id}, {g}) : TRUE).effort
      BY <2>2
    <3> HIDE DEF usable, chosen, effort, id
    <3>5. ASSUME NEW g \in usable \cup {chosen} PROVE effort(g) \in STRING \cup {Null}
      <4>1. PICK x \in tried : g = x.gate /\ x.id = id
        BY <3>2
      <4>2. effort(g) = x.entry.effort
        BY <3>3, <3>4, <4>1
      <4> QED BY <3>3, <4>2
    <3> QED BY <3>5
  <2> QED BY <2>1, <2>2
<1> HIDE DEF usable, chosen, effort, id
<1>6. PICK g \in usable \cup {chosen} : t = RouteTarget(g, id, effort(g))
  BY <1>3
<1>7. t.res = g.res /\ t.model = id
  BY <1>6 DEF RouteTarget
<1> QED BY <1>4, <1>5, <1>6, <1>7, <1>8 DEF Reaches, Runs

\* A decision made of sound parts: the gates, the models they run, what was selected of each, and the choice among these.
MadeOf(d, rq, gates, keys, scoped, tried, best, choice) ==
    /\ d = RouteDecision(rq, gates, keys, scoped, tried, best, choice)
    /\ GatesOf(gates, rq)
    /\ \A x \in scoped : ScopedOf(x, rq, gates, keys)
    /\ \A x \in tried : ScopedOf(x, rq, gates, keys)
    /\ best \subseteq tried
    /\ \A i \in keys : (\E g \in gates : Runs(g, i, gates, rq)) /\ (rq.b.pin # Null => i = rq.b.pin.model)
    /\ choice.selected # Null /\ rq.catalog.versioned => choice.selected.id \in keys
    /\ choice.selected # Null /\ ~rq.catalog.versioned => \E x \in best : x.id = choice.selected.id
    /\ DecisionAccepted(choice)

\* routing_core.py: a route is decided from sound parts.
LEMMA RouteIsMade ==
    ASSUME RouteIInv, NEW rq, ReadsNow(rq), NEW d, d = RouteRequest(rq), d # Raised
    PROVE  \E gates, keys, scoped, tried, best, choice : MadeOf(d, rq, gates, keys, scoped, tried, best, choice)
<1> DEFINE need == RouteRequirement(rq)
           gates == Gates(rq, need)
           keys == RoutableKeys(rq, gates)
           scoped == ScopedSelections(rq, need, gates, keys)
           tried == {x \in scoped : ~x.mismatch}
           best == Representatives(tried, rq.pol)
           E == {x.entry : x \in best}
           versioned == RunSelection(rq, NarrowedCatalog(rq, keys, gates), need, Null)
           runtime == AssembleEvaluations(E, {Brought(x) : x \in best}, rq.pol, rq.now)
           choice == IF rq.catalog.versioned THEN versioned ELSE runtime
<1>1. d = RouteAmong(rq, need, gates, keys, scoped)
  BY Zenon DEF RouteRequest, RouteFor, RouteThrough
<1>2. d = RouteDecision(rq, gates, keys, scoped, tried, best, choice)
  BY <1>1, Zenon DEF RouteAmong, Brought, Representatives
<1>3. CatalogTyped(rq.catalog) /\ PolicyTyped(rq.pol)
  BY RoutingAssumption DEF ReadsNow, RouteIInv, WorldFacts
<1>4. GatesOf(gates, rq)
  BY GatesAreSound
<1>5. \A i \in keys : (\E g \in gates : Runs(g, i, gates, rq)) /\ (rq.b.pin # Null => i = rq.b.pin.model)
  BY KeysAreServed
<1> HIDE DEF need, gates
<1> HIDE DEF keys
<1>6. /\ \A x \in scoped : ScopedOf(x, rq, gates, keys)
      /\ \A x \in scoped, y \in scoped : x.id = y.id /\ x.gate = y.gate => x = y
  BY <1>3, <1>4, ScopedAreSound
<1> HIDE DEF scoped
<1>7. /\ \A x \in tried : ScopedOf(x, rq, gates, keys)
      /\ \A x \in tried, y \in tried : x.id = y.id /\ x.gate = y.gate => x = y
  BY <1>6
<1> HIDE DEF tried
<1>8. best \subseteq tried /\ \A x \in best, y \in best : x.id = y.id => x = y
  <2>1. TriedOf(tried, rq, gates, keys)
    BY <1>7 DEF TriedOf
  <2> QED BY <1>3, <1>4, <2>1, BestAreScoped DEF best
<1>9. \A x \in best : ScopedOf(x, rq, gates, keys)
  BY <1>7, <1>8
<1> HIDE DEF best
<1>10. DecidedOf(runtime, E)
  BY <1>3, <1>8, <1>9, AssembledIsDecided
<1>11. NarrowedOf(NarrowedCatalog(rq, keys, gates), rq, keys)
  BY <1>3, <1>4, NarrowedIsCatalog
<1>12. DecidedOf(versioned, NarrowedCatalog(rq, keys, gates))
  BY <1>11, RunIsDecided
<1> HIDE DEF versioned, runtime
<1>13. versioned.selected # Null => versioned.selected.id \in keys
  BY <1>11, <1>12 DEF DecidedOf, NarrowedOf
<1>14. runtime.selected # Null => \E x \in best : x.id = runtime.selected.id
  <2>1. \A x \in best : x.entry.id = x.id
    BY <1>9 DEF ScopedOf
  <2>2. runtime.selected # Null => \E c \in E : c.id = runtime.selected.id
    BY <1>10 DEF DecidedOf
  <2> QED BY <2>1, <2>2
<1>15. /\ choice.selected # Null /\ rq.catalog.versioned => choice.selected.id \in keys
       /\ choice.selected # Null /\ ~rq.catalog.versioned => \E x \in best : x.id = choice.selected.id
  BY <1>13, <1>14
<1>16. DecisionAccepted(choice)
  BY <1>10, <1>12 DEF DecidedOf
<1> HIDE DEF choice
<1>17. MadeOf(d, rq, gates, keys, scoped, tried, best, choice)
  BY <1>2, <1>4, <1>5, <1>6, <1>7, <1>8, <1>15, <1>16, Zenon DEF MadeOf
<1> QED BY <1>17

\* routing_core.py: what a route gives out runs on a resource that qualifies, the pinned one if there is a pin.
LEMMA RouteReaches ==
    ASSUME RouteIInv, NEW rq, ReadsNow(rq), NEW d, d = RouteRequest(rq), d # Raised, NEW t \in ({d.target} \cup d.alternatives) \ {Null}
    PROVE  \E g : /\ GateOf(g, rq) /\ g.qualified /\ t.res = g.res /\ (rq.b.pin # Null => t.res = rq.b.pin.res /\ t.model = rq.b.pin.model)
                  /\ \E effort \in STRING \cup {Null} : t = RouteTarget(g, t.model, effort)
<1>1. PICK gates, keys, scoped, tried, best, choice : MadeOf(d, rq, gates, keys, scoped, tried, best, choice)
  BY RouteIsMade
<1>2. GatesOf(gates, rq) /\ Reaches(t, gates, rq)
  BY <1>1, DecisionReaches DEF MadeOf
<1> QED BY <1>2 DEF Reaches, GatesOf

\* What is known of a target that is given out.
Usable(t, rq) ==
    /\ \E g : GateOf(g, rq) /\ g.qualified /\ t.res = g.res
    /\ rq.b.pin # Null => t.res = rq.b.pin.res /\ t.model = rq.b.pin.model

\* routing_core.py: what the checks of the admitted model approve is the model on the resource of the gate.
LEMMA ApprovedIsPinned ==
    ASSUME NEW rq, NEW pin, NEW need, NEW gate, NEW admitted, NEW entry, NEW checked, NEW d,
           d = AdmitModel(rq, pin, need, gate, admitted, entry, checked), d.approved
    PROVE  d.target.res = gate.res /\ d.target.model = pin.model
<1> DEFINE effort == IF rq.catalog.versioned THEN Null ELSE entry.effort
           approved == [approved |-> TRUE, res |-> pin.res, codes |-> {"admission_approved"}, target |-> RouteTarget(gate, pin.model, effort)]
<1>1. d = approved \/ \E codes : d = Rejected(pin, codes)
  BY DEF AdmitModel
<1>2. \A codes : Rejected(pin, codes).approved = FALSE
  BY DEF Rejected
<1>3. approved.target = RouteTarget(gate, pin.model, effort)
  OBVIOUS
<1> HIDE DEF approved, effort
<1>4. d.target = RouteTarget(gate, pin.model, effort)
  BY <1>1, <1>2, <1>3
<1> QED BY <1>4 DEF RouteTarget

\* The pin that is admitted changes nothing of the state a request reads.
LEMMA PinnedReads ==
    ASSUME NEW rq, ReadsNow(rq), NEW pin, NEW v, NEW q, q = [rq EXCEPT !.b.pin = pin, !.b.variant = v]
    PROVE  ReadsNow(q)
<1>1. DOMAIN rq.b = BindingFields
  BY DEF ReadsNow
<1>2. q \in {[rq EXCEPT !.b = rq.b, !.task = v], [rq EXCEPT !.task = v, !.b = rq.b], [rq EXCEPT !.task = v, !.effort = v],
             [rq EXCEPT !.candidates = v, !.b.variant = pin], [rq EXCEPT !.b.pin = pin, !.b.variant = v]}
  OBVIOUS
<1> QED BY <1>1, <1>2, BoundReads, Zenon

\* routing_core.py: an admitted target is the pin's, and its resource qualifies at that moment.
LEMMA AdmissionReaches ==
    ASSUME RouteIInv, NEW rq, ReadsNow(rq), NEW pin, NEW d, d = AdmitPinnedTarget(rq, pin), d # Raised, d.approved
    PROVE  Usable(d.target, rq)
<1> DEFINE need == RouteRequirement(rq)
           here == {e \in rq.reg.entries : e.identity.id = pin.res}
           raw == CHOOSE e \in here : TRUE
           bound == [rq EXCEPT !.b.pin = pin, !.b.variant = pin.variant]
           eff == EffectiveAuthorization(rq.admin, rq.client, rq.profile)
           g == EvaluateResource(raw, bound, need, eff, FALSE)
<1>1. \A codes : Rejected(pin, codes).approved = FALSE
  BY DEF Rejected
<1>2. /\ need # Raised
      /\ d = IF Contradicts(rq.b, pin, EntryOf(rq, pin.model)) THEN Rejected(pin, {"pinned_request_failed"})
             ELSE IF here = {} THEN Rejected(pin, {"pin_target_not_found"})
             ELSE AdmitResource(rq, pin, need, g)
  BY Zenon DEF AdmitPinnedTarget, AdmitFor
<1>3. ~Contradicts(rq.b, pin, EntryOf(rq, pin.model)) /\ here # {} /\ d = AdmitResource(rq, pin, need, g)
  BY <1>1, <1>2
<1>4. raw \in rq.reg.entries /\ raw.identity.id = pin.res
  BY <1>3
<1>5. PICK q : q = bound
  OBVIOUS
<1>6. ReadsNow(q)
  <2>1. PICK v : v = pin.variant
    OBVIOUS
  <2> QED BY <1>5, <2>1, PinnedReads
<1>7. q.admin = rq.admin /\ q.client = rq.client /\ q.reg = rq.reg /\ q.profile = rq.profile /\ q.b.features = rq.b.features /\ q.catalog = rq.catalog
  BY <1>5 DEF ReadsNow, RequestFields, BindingFields
<1>8. PICK h : h = EvaluateResource(raw, q, need, EffectiveAuthorization(q.admin, q.client, rq.profile), FALSE)
  OBVIOUS
<1>9. h = g
  BY <1>5, <1>7, <1>8
<1>10. GateOf(h, q) /\ h.res = raw.identity.id
  BY <1>4, <1>6, <1>7, <1>8, GateIsSound
<1>11. GateOf(h, rq)
  BY <1>7, <1>10 DEF GateOf
<1> DEFINE admitted == NarrowedCatalog(rq, {pin.model}, {h})
           entry == CHOOSE c \in admitted : TRUE
           checked == RunSelection(rq, admitted, need, ResourceSnapshots(h, entry))
<1>12. d = IF ~h.qualified THEN Rejected(pin, h.codes) ELSE AdmitModel(rq, pin, need, h, admitted, entry, checked)
  BY <1>3, <1>9, Zenon DEF AdmitResource, AdmitEntry
<1>13. h.qualified /\ d = AdmitModel(rq, pin, need, h, admitted, entry, checked)
  BY <1>1, <1>12
<1> HIDE DEF admitted, entry, checked, need
<1>14. d.target.res = h.res /\ d.target.model = pin.model
  BY <1>13, ApprovedIsPinned
<1>15. rq.b.pin # Null => rq.b.pin.res = pin.res /\ rq.b.pin.model = pin.model
  BY <1>3 DEF Contradicts
<1> QED BY <1>4, <1>10, <1>11, <1>13, <1>14, <1>15 DEF Usable

\* What a client is given, by a route or by an admission.
LEMMA GivenIsUsable ==
    ASSUME RouteIInv, NEW t \in Targets
    PROVE  ReadsNow(last.rq) /\ Usable(t, last.rq)
<1>1. CASE last.op = "select"
  <2>1. PICK rq : rq = last.rq
    OBVIOUS
  <2>2. PICK d : d = last.out
    OBVIOUS
  <2>3. ReadsNow(rq) /\ d = RouteRequest(rq) /\ d # Raised
    BY <1>1, <2>1, <2>2 DEF RouteIInv, AnswerFacts
  <2>4. t \in ({d.target} \cup d.alternatives) \ {Null}
    BY <1>1, <2>2 DEF Targets
  <2>5. Usable(t, rq)
    BY <2>3, <2>4, RouteReaches DEF Usable
  <2> QED BY <2>1, <2>3, <2>5
<1>2. CASE last.op = "execute"
  <2>1. PICK rq : rq = last.rq
    OBVIOUS
  <2>2. PICK d : d = last.out
    OBVIOUS
  <2>3. PICK pin : pin = held.pin
    OBVIOUS
  <2>4. ReadsNow(rq) /\ d = AdmitPinnedTarget(rq, pin) /\ d # Raised
    BY <1>2, <2>1, <2>2, <2>3 DEF RouteIInv, AnswerFacts
  <2>5. d.approved /\ t = d.target
    BY <1>2, <2>2 DEF Targets
  <2>6. Usable(t, rq)
    BY <2>4, <2>5, AdmissionReaches
  <2> QED BY <2>1, <2>4, <2>6
<1>3. CASE last.op \notin {"select", "execute"}
  BY <1>3 DEF Targets
<1> QED BY <1>1, <1>2, <1>3

\* routing_core.py: whatever is given out, the administrator and the client allow at that moment.
LEMMA AuthorizedHolds ==
    ASSUME RouteIInv
    PROVE  TargetsAreAuthorized
<1> SUFFICES ASSUME NEW t \in Targets PROVE AuthorizedNow(EntryNow(t.res))
  BY DEF TargetsAreAuthorized
<1> QED BY GivenIsUsable DEF Usable, GateOf

\* routing_core.py: whatever is given out works at that moment.
LEMMA AvailableHolds ==
    ASSUME RouteIInv
    PROVE  TargetsAreAvailable
<1> SUFFICES ASSUME NEW t \in Targets PROVE Available(t.res, last.rq.b.features)
  BY DEF TargetsAreAvailable, Available
<1> QED BY GivenIsUsable DEF Usable, GateOf

\* routing_core.py: a pin is answered by exactly its resource and model.
LEMMA PinsHold ==
    ASSUME RouteIInv
    PROVE  PinsAreNeverSubstituted
<1> SUFFICES ASSUME last.rq.b.pin # Null, NEW t \in Targets PROVE t.res = last.rq.b.pin.res /\ t.model = last.rq.b.pin.model
  BY DEF PinsAreNeverSubstituted
<1> QED BY GivenIsUsable DEF Usable

\* What is known of a resource the client's document may show.
Shown(e) ==
    LET r == e.identity.id
    IN  /\ r \in DOMAIN reg.regs /\ e.obs = reg.obs[r]
        /\ AuthorizedNow(EntryNow(r))

\* routing_core.py: a document shows a resource only when it is authorized now.
LEMMA VisibleIsAuthorized ==
    ASSUME RouteIInv, NEW rq, ReadsNow(rq), NEW e \in VisibleResources(rq)
    PROVE  Shown(e)
<1>1. /\ e \in rq.reg.entries
      /\ AuthorizationFailureCodes(e, EffectiveAuthorization(rq.admin, rq.client, rq.profile), rq.assurances, rq.now) = {}
  BY DEF VisibleResources
<1>2. /\ rq.reg = RegistrySnapshot(reg, now) /\ rq.reg # Raised /\ rq.now = now /\ rq.admin = world.admin /\ rq.client = world.client
      /\ rq.assurances = Assurances(rq.reg.entries)
  BY DEF ReadsNow
<1>3. StoreFacts(reg, now) /\ WorldFacts
  BY DEF RouteIInv
<1> DEFINE r == e.identity.id
<1>4. r \in DOMAIN reg.regs /\ reg.regs[r] # Null /\ e = RegistryEntry(reg, r, now) /\ RegistrationTyped(reg.regs[r])
  BY <1>1, <1>2, <1>3, EntriesAreStored
<1>5. e.identity.provider \in Providers /\ e.cost \in Nat \cup {Null} /\ e.obs = reg.obs[r]
  <2>1. e.identity = reg.regs[r].identity /\ e.cost = reg.regs[r].cost /\ e.obs = reg.obs[r]
    BY <1>4 DEF RegistryEntry
  <2> QED BY <1>4, <2>1 DEF RegistrationTyped, RegistrationAccepted, IdentityAccepted
<1>6. AuthorizationFailureCodes(e, EffectiveAuthorization(world.admin, world.client, rq.profile), Assurances(rq.reg.entries), now) = {}
  BY <1>1, <1>2
<1>7. AuthorizedNow(e)
  BY <1>3, <1>5, <1>6, AuthorizedIsAllowed
<1>8. AuthorizedNow(EntryNow(r))
  BY <1>4, <1>7 DEF EntryNow
<1> QED BY <1>4, <1>5, <1>8 DEF Shown

\* Whoever shows an exclusion shows the resource only if it is visible.
LEMMA ExclusionHides ==
    ASSUME NEW x, NEW visible
    PROVE  ShownExclusion(x, visible).res \in visible \cup {Null}
<1>1. TargetExclusion(Null, Null, x.stage, x.codes).res = Null
  BY DEF TargetExclusion
<1> QED BY <1>1 DEF ShownExclusion

\* public_route_document: what a client sees of a decision names only what it may use.
LEMMA DocumentHolds ==
    ASSUME RouteIInv
    PROVE  DocumentsHideTheForbidden
<1> DEFINE hidden == {r \in DOMAIN reg.regs : IsRegistered(reg, r) /\ ~AuthorizedNow(EntryNow(r))}
           shown == {x.res : x \in last.document.exclusions}
<1> SUFFICES ASSUME last.op = "select"
             PROVE  /\ shown \cap hidden = {}
                    /\ \A t \in ({last.document.target} \cup last.document.alternatives) \ {Null} : t.res \notin hidden
                    /\ \A source \in last.document.expired :
                          \E r \in DOMAIN reg.regs \ hidden : reg.obs[r] # Null /\ \E p \in reg.obs[r].promotions : p.source = source
  BY Zenon DEF DocumentsHideTheForbidden
<1>1. PICK rq : rq = last.rq
  OBVIOUS
<1>2. PICK d : d = last.out
  OBVIOUS
<1> DEFINE seen == VisibleResources(rq)
           visible == {e.identity.id : e \in seen}
           doc == PublicRouteDocument(d, rq)
<1>3. ReadsNow(rq) /\ last.document = doc
  BY <1>1, <1>2 DEF RouteIInv, AnswerFacts
<1>4. /\ doc.target = d.target /\ doc.alternatives = d.alternatives
      /\ doc.exclusions = {ShownExclusion(x, visible) : x \in d.exclusions}
      /\ doc.expired = UNION {ExpiredPromotions(e, rq.now) : e \in seen}
  BY DEF PublicRouteDocument
<1> HIDE DEF doc
<1>5. \A e \in seen : Shown(e)
  BY <1>3, VisibleIsAuthorized
<1> HIDE DEF seen
<1>6. visible \cap hidden = {}
  BY <1>5 DEF Shown
<1>7. Null \notin hidden
  <2>1. \A r \in Resources : reg.regs[r] # Null => r \in Nat
    <3>1. \A r \in Resources : reg.regs[r] # Null => reg.regs[r] \in Registrations /\ reg.regs[r].identity.id = r
      BY DEF RouteIInv, StoreFacts
    <3>2. \A x \in Registrations : x.identity.id \in Nat
      BY RoutingAssumption DEF RegistrationTyped, IdentityTyped
    <3> QED BY <3>1, <3>2
  <2>2. DOMAIN reg.regs = Resources
    BY DEF RouteIInv, StoreFacts
  <2> QED BY <2>1, <2>2, SentinelAssumption DEF IsRegistered
<1>8. shown \subseteq visible \cup {Null}
  <2> HIDE DEF visible
  <2> QED BY <1>3, <1>4, ExclusionHides
<1>9. shown \cap hidden = {}
  <2> HIDE DEF shown, visible, hidden
  <2> QED BY <1>6, <1>7, <1>8
<1>10. ASSUME NEW t \in ({last.document.target} \cup last.document.alternatives) \ {Null} PROVE t.res \notin hidden
  <2>1. t \in Targets
    BY <1>2, <1>3, <1>4 DEF Targets
  <2>2. AuthorizedNow(EntryNow(t.res))
    BY <2>1, AuthorizedHolds DEF TargetsAreAuthorized
  <2> QED BY <2>2
<1>11. ASSUME NEW source \in last.document.expired
       PROVE  \E r \in DOMAIN reg.regs \ hidden : reg.obs[r] # Null /\ \E p \in reg.obs[r].promotions : p.source = source
  <2>1. PICK e \in seen : source \in ExpiredPromotions(e, rq.now)
    BY <1>3, <1>4
  <2>2. e.obs # Null /\ \E p \in e.obs.promotions : p.source = source
    BY <2>1 DEF ExpiredPromotions, MatchingPromotions
  <2> QED BY <1>5, <2>1, <2>2 DEF Shown
<1> HIDE DEF hidden, shown
<1> QED BY <1>9, <1>10, <1>11

\* control_api.py, routing_core.py: whatever happens between the steps, what a client is given it may use at that moment, can use, and is all
\* that it sees.
THEOREM TargetsStayUsable == RouteSpec => []TargetsAreUsable
<1>1. RouteIInv => TargetsAreUsable
  BY AuthorizedHolds, AvailableHolds, DocumentHolds DEF TargetsAreUsable
<1> QED BY <1>1, RouteIsInductive, PTL

-----------------------------------------------------------------------------
(* What a client retains of its selection. *)

\* A demand that is met: nothing was demanded, or as much is there.
Meets(given, demand) == demand # Null => given # Null /\ given >= demand

\* routing_core.py: of two floors the larger one meets both.
LEMMA LargerMeets ==
    ASSUME NEW a \in Nat \cup {Null}, NEW b \in Nat \cup {Null}
    PROVE  Larger(a, b) \in Nat \cup {Null} /\ Meets(Larger(a, b), a) /\ Meets(Larger(a, b), b)
  BY SentinelAssumption DEF Larger, Meets

\* What meets a demand that meets another meets both.
LEMMA MeetsBoth ==
    ASSUME NEW a \in Nat \cup {Null}, NEW b \in Nat \cup {Null}, NEW c \in Nat \cup {Null}, Meets(c, b), Meets(b, a)
    PROVE  Meets(c, a)
  BY SentinelAssumption DEF Meets

\* selector.py: a requirement that was tightened is one, and demands as much as both.
LEMMA TightenedMeets ==
    ASSUME NEW base \in Requirements, NEW explicit \in Requirements, NEW t, t = Tighten(base, explicit), t # Raised
    PROVE  /\ t \in Requirements
           /\ Meets(t.rating, base.rating) /\ Meets(t.rating, explicit.rating)
<1>1. /\ t = [level |-> explicit.level,
              rating |-> TightenMinimum(base.rating, explicit.rating),
              ctx |-> TightenMinimum(base.ctx, explicit.ctx),
              out |-> TightenMinimum(base.out, explicit.out),
              tools |-> base.tools \/ explicit.tools,
              provider |-> TightenIdentity(base.provider, explicit.provider)]
      /\ Raised \notin {t.rating, t.ctx, t.out, t.provider}
  BY DEF Tighten
<1>2. ASSUME NEW a \in Nat \cup {Null}, NEW b \in Nat \cup {Null}, TightenMinimum(a, b) # Raised
      PROVE  TightenMinimum(a, b) \in Nat \cup {Null} /\ Meets(TightenMinimum(a, b), a) /\ Meets(TightenMinimum(a, b), b)
  BY <1>2, SentinelAssumption DEF TightenMinimum, Meets
<1>3. ASSUME NEW a \in Providers \cup {Null}, NEW b \in Providers \cup {Null}, TightenIdentity(a, b) # Raised
      PROVE  TightenIdentity(a, b) \in Providers \cup {Null}
  BY <1>3 DEF TightenIdentity
<1>4. /\ t.rating = TightenMinimum(base.rating, explicit.rating) /\ t.rating # Raised
      /\ t.ctx = TightenMinimum(base.ctx, explicit.ctx) /\ t.ctx # Raised
      /\ t.out = TightenMinimum(base.out, explicit.out) /\ t.out # Raised
      /\ t.provider = TightenIdentity(base.provider, explicit.provider) /\ t.provider # Raised
      /\ t.tools = (base.tools \/ explicit.tools) /\ t.level = explicit.level
      /\ t = [level |-> t.level, rating |-> t.rating, ctx |-> t.ctx, out |-> t.out, tools |-> t.tools, provider |-> t.provider]
  BY <1>1
<1>5. /\ base.rating \in Nat \cup {Null} /\ base.ctx \in Nat \cup {Null} /\ base.out \in Nat \cup {Null} /\ base.tools \in BOOLEAN
      /\ explicit.rating \in Nat \cup {Null} /\ explicit.ctx \in Nat \cup {Null} /\ explicit.out \in Nat \cup {Null} /\ explicit.tools \in BOOLEAN
      /\ base.provider \in Providers \cup {Null} /\ explicit.provider \in Providers \cup {Null} /\ explicit.level \in Int
  BY DEF Requirements
<1>6. t.rating \in Nat \cup {Null} /\ Meets(t.rating, base.rating) /\ Meets(t.rating, explicit.rating)
  BY <1>2, <1>4, <1>5
<1>7. t.ctx \in Nat \cup {Null} /\ t.out \in Nat \cup {Null}
  BY <1>2, <1>4, <1>5
<1>8. t.provider \in Providers \cup {Null} /\ t.tools \in BOOLEAN /\ t.level \in Int
  BY <1>3, <1>4, <1>5
<1> QED BY <1>4, <1>6, <1>7, <1>8 DEF Requirements

\* A request whose demands are typed.
Demanding(rq) ==
    /\ rq.task \in Requirements /\ BindingTyped(rq.b) /\ rq.profiles = RequestProfiles
    /\ rq.profile # Null => rq.profile.id \in DOMAIN RequestProfiles

\* What a request demands by itself.
Explicit(level, tools, ctx, out) ==
    [NoRequirement EXCEPT !.level = level, !.tools = tools, !.ctx = ctx, !.out = out]

\* selector.py: the requirement that a request itself states.
LEMMA ExplicitIs ==
    ASSUME NEW level, NEW tools, NEW ctx, NEW out, NEW q, q = Explicit(level, tools, ctx, out)
    PROVE  q = [level |-> level, rating |-> Null, ctx |-> ctx, out |-> out, tools |-> tools, provider |-> Null]
<1>1. DOMAIN q = {"level", "rating", "ctx", "out", "tools", "provider"}
  BY DEF NoRequirement, Explicit
<1>2. q.level = level /\ q.rating = Null /\ q.ctx = ctx /\ q.out = out /\ q.tools = tools /\ q.provider = Null
  BY DEF NoRequirement, Explicit
<1>3. q = [x \in DOMAIN q |-> q[x]]
  BY DEF NoRequirement, Explicit
<1> QED BY <1>1, <1>2, <1>3

\* The requirement of the profile and the task.
Basis(rq) == IF rq.profile = Null THEN rq.task ELSE Tighten(rq.profiles[rq.profile.id], rq.task)

\* What a request itself states is a requirement.
LEMMA ExplicitIsTyped ==
    ASSUME NEW level \in Int, NEW tools \in BOOLEAN, NEW ctx \in Nat \cup {Null}, NEW out \in Nat \cup {Null}
    PROVE  /\ Explicit(level, tools, ctx, out) \in Requirements
           /\ Explicit(level, tools, ctx, out) = [level |-> level, rating |-> Null, ctx |-> ctx, out |-> out, tools |-> tools, provider |-> Null]
<1>1. PICK q : q = Explicit(level, tools, ctx, out)
  OBVIOUS
<1>2. q = [level |-> level, rating |-> Null, ctx |-> ctx, out |-> out, tools |-> tools, provider |-> Null]
  BY <1>1, ExplicitIs
<1> QED BY <1>1, <1>2 DEF Requirements

\* routing_core.py: what a request demands is what it states, tightened by its task and its profile.
LEMMA RequirementIsBasis ==
    ASSUME NEW rq, Demanding(rq), RouteRequirement(rq) # Raised
    PROVE  /\ \E tools \in BOOLEAN : RouteRequirement(rq) = Tighten(Basis(rq), Explicit(Basis(rq).level, tools, rq.b.ctx, rq.b.out))
           /\ Basis(rq) # Raised /\ Basis(rq) \in Requirements /\ Meets(Basis(rq).rating, rq.task.rating)
<1>1. rq.task # Null
  BY RoutingAssumption DEF Demanding
<1>2. Basis(rq) # Raised /\ RouteRequirement(rq) = Tighten(Basis(rq), Explicit(Basis(rq).level, "tool_calls" \in rq.b.features, rq.b.ctx, rq.b.out))
  BY <1>1 DEF RouteRequirement, Basis, Explicit
<1>3. Basis(rq) \in Requirements /\ Meets(Basis(rq).rating, rq.task.rating)
  <2>1. CASE rq.profile = Null
    <3>1. rq.task.rating \in Nat \cup {Null}
      BY DEF Demanding, Requirements
    <3> QED BY <2>1, <3>1, SentinelAssumption DEF Basis, Demanding, Meets
  <2>2. CASE rq.profile # Null
    BY <1>2, <2>2, TightenedMeets, RoutingAssumption DEF Basis, Demanding
  <2> QED BY <2>1, <2>2
<1>4. ("tool_calls" \in rq.b.features) \in BOOLEAN
  OBVIOUS
<1> QED BY <1>2, <1>3, <1>4, Zenon

\* routing_core.py: the requirement of a request demands the rating of its task.
LEMMA RequirementMeetsTask ==
    ASSUME NEW rq, Demanding(rq), RouteRequirement(rq) # Raised
    PROVE  RouteRequirement(rq) \in Requirements /\ Meets(RouteRequirement(rq).rating, rq.task.rating)
<1> DEFINE base == Basis(rq)
           need == RouteRequirement(rq)
<1>1. base \in Requirements /\ Meets(base.rating, rq.task.rating)
  BY RequirementIsBasis
<1>2. PICK tools \in BOOLEAN : need = Tighten(base, Explicit(base.level, tools, rq.b.ctx, rq.b.out))
  BY RequirementIsBasis
<1> DEFINE asks == Explicit(base.level, tools, rq.b.ctx, rq.b.out)
<1>3. asks \in Requirements
  <2>1. base.level \in Int /\ rq.b.ctx \in Nat \cup {Null} /\ rq.b.out \in Nat \cup {Null}
    BY <1>1 DEF Requirements, Demanding, BindingTyped
  <2> HIDE DEF base
  <2> QED BY <2>1, ExplicitIsTyped
<1>4. need = Tighten(base, asks) /\ need # Raised
  BY <1>2
<1> HIDE DEF base, asks, need
<1>5. need \in Requirements /\ Meets(need.rating, base.rating)
  BY <1>1, <1>3, <1>4, TightenedMeets
<1>6. need.rating \in Nat \cup {Null} /\ base.rating \in Nat \cup {Null} /\ rq.task.rating \in Nat \cup {Null}
  BY <1>1, <1>5 DEF Requirements, Demanding
<1>7. Meets(need.rating, rq.task.rating)
  BY <1>1, <1>5, <1>6, MeetsBoth
<1> QED BY <1>5, <1>7 DEF need

\* executable_contract.py: what is demanded without the ceiling of the output is a requirement.
LEMMA QualityIsTyped ==
    ASSUME NEW rq, DOMAIN rq = RequestFields, Demanding(rq), RouteRequirement(rq) # Raised
    PROVE  QualityRequirement(rq) \in Requirements
<1> DEFINE bare == [rq EXCEPT !.b.out = Null]
           base == Basis(rq)
           ctx == rq.b.ctx
<1>1. DOMAIN rq.b = BindingFields
  BY DEF Demanding, BindingTyped
<1>2. /\ bare.profile = rq.profile /\ bare.task = rq.task /\ bare.profiles = rq.profiles
      /\ bare.b.features = rq.b.features /\ bare.b.ctx = ctx /\ bare.b.out = Null
  BY <1>1 DEF RequestFields, BindingFields
<1>3. base # Raised /\ base \in Requirements /\ \E tools \in BOOLEAN : Tighten(base, Explicit(base.level, tools, ctx, rq.b.out)) # Raised
  <2>1. PICK tools \in BOOLEAN : RouteRequirement(rq) = Tighten(base, Explicit(base.level, tools, ctx, rq.b.out))
    BY RequirementIsBasis
  <2>2. base # Raised /\ base \in Requirements
    BY RequirementIsBasis
  <2> HIDE DEF base
  <2> QED BY <2>1, <2>2
<1>4. QualityRequirement(rq) = Tighten(base, Explicit(base.level, "tool_calls" \in rq.b.features, ctx, Null))
  <2>1. PICK q : q = bare
    OBVIOUS
  <2>2. q.profile = rq.profile /\ q.task = rq.task /\ q.profiles = rq.profiles /\ q.b.features = rq.b.features /\ q.b.ctx = rq.b.ctx /\ q.b.out = Null
    BY <1>2, <2>1
  <2>3. Basis(q) = base /\ q.task # Null
    BY <2>2, RoutingAssumption DEF Basis, Demanding
  <2>4. RouteRequirement(q) = Tighten(base, Explicit(base.level, "tool_calls" \in rq.b.features, ctx, Null))
    BY <1>3, <2>2, <2>3 DEF RouteRequirement, Basis, Explicit
  <2> QED BY <2>1, <2>4 DEF QualityRequirement
<1>5. base.level \in Int /\ ctx \in Nat \cup {Null} /\ rq.b.out \in Nat \cup {Null}
  BY <1>3 DEF Requirements, Demanding, BindingTyped
<1> HIDE DEF base, ctx
<1>6. PICK told \in BOOLEAN : told = ("tool_calls" \in rq.b.features)
  <2>1. ("tool_calls" \in rq.b.features) \in BOOLEAN
    OBVIOUS
  <2> QED BY <2>1, Zenon
<1>7. PICK tools \in BOOLEAN : Tighten(base, Explicit(base.level, tools, ctx, rq.b.out)) # Raised
  BY <1>3
<1> DEFINE less == Explicit(base.level, told, ctx, Null)
           asks == Explicit(base.level, tools, ctx, rq.b.out)
<1>8. less \in Requirements /\ less = [level |-> base.level, rating |-> Null, ctx |-> ctx, out |-> Null, tools |-> told, provider |-> Null]
  BY <1>5, ExplicitIsTyped
<1>9. asks = [level |-> base.level, rating |-> Null, ctx |-> ctx, out |-> rq.b.out, tools |-> tools, provider |-> Null]
  BY <1>5, ExplicitIsTyped
<1>10. Tighten(base, asks) # Raised
  BY <1>7
<1> HIDE DEF less, asks
<1>11. TightenMinimum(base.ctx, ctx) # Raised
  BY <1>9, <1>10 DEF Tighten
<1>12. Tighten(base, less) # Raised
  <2> DEFINE t == [level |-> base.level, rating |-> base.rating, ctx |-> TightenMinimum(base.ctx, ctx), out |-> base.out,
                   tools |-> base.tools \/ told, provider |-> base.provider]
  <2>1. Tighten(base, less) = IF Raised \in {base.rating, TightenMinimum(base.ctx, ctx), base.out, base.provider} THEN Raised ELSE t
    <3>1. /\ less.level = base.level /\ ~(less.level < base.level) /\ TightenMinimum(base.rating, less.rating) = base.rating
          /\ TightenMinimum(base.out, less.out) = base.out /\ less.ctx = ctx /\ less.tools = told
          /\ TightenIdentity(base.provider, less.provider) = base.provider
      BY <1>5, <1>8 DEF TightenMinimum, TightenIdentity
    <3> QED BY <3>1 DEF Tighten
  <2>2. /\ base.rating \in Nat \cup {Null} /\ base.out \in Nat \cup {Null} /\ base.ctx \in Nat \cup {Null} /\ base.tools \in BOOLEAN
        /\ base.provider \in Providers \cup {Null}
    BY <1>3 DEF Requirements
  <2>3. TightenMinimum(base.ctx, ctx) \in Nat \cup {Null}
    BY <1>5, <1>11, <2>2 DEF TightenMinimum
  <2>4. base.provider # Raised
    <3>1. less.provider = Null /\ asks.provider = Null
      BY <1>8, <1>9
    <3>2. TightenIdentity(base.provider, asks.provider) # Raised
      BY <1>10 DEF Tighten
    <3> QED BY <3>1, <3>2 DEF TightenIdentity
  <2>5. t \in Requirements
    BY <1>5, <2>2, <2>3 DEF Requirements
  <2> HIDE DEF t
  <2> QED BY <1>11, <2>1, <2>2, <2>4, <2>5, RoutingAssumption
<1>13. QualityRequirement(rq) = Tighten(base, less)
  BY <1>4, <1>6 DEF less
<1> QED BY <1>3, <1>8, <1>12, <1>13, TightenedMeets

\* routing_core.py: a request that was built has the demands it was built from, and the floors of its task.
LEMMA ConstructedKeeps ==
    ASSUME NEW rq, DOMAIN rq = RequestFields, Demanding(rq), NEW q, q = Constructed(rq), q # Raised
    PROVE  /\ DOMAIN q = RequestFields /\ Demanding(q) /\ q.task = rq.task /\ q.profile = rq.profile
           /\ q.b.out = rq.b.out /\ rq.b.features \subseteq q.b.features /\ Meets(q.b.ctx, rq.task.ctx)
<1> DEFINE named == IF rq.profile = Null THEN Null ELSE rq.profiles[rq.profile.id].ctx
           floor == Larger(rq.b.ctx, Larger(rq.task.ctx, named))
           joined == [rq EXCEPT !.b.ctx = floor]
           need == RouteRequirement(joined)
           tools == IF need.tools THEN {"tool_calls"} ELSE {}
           built == [joined EXCEPT !.b.features = @ \cup tools, !.b.ctx = Larger(@, need.ctx)]
<1>1. rq.task # Null
  BY RoutingAssumption DEF Demanding
<1>2. q = built /\ need # Raised
  BY <1>1 DEF Constructed
<1>3. rq.b.ctx \in Nat \cup {Null} /\ rq.task.ctx \in Nat \cup {Null} /\ named \in Nat \cup {Null} /\ DOMAIN rq.b = BindingFields
  <2>1. rq.profile # Null => rq.profiles[rq.profile.id] \in Requirements
    BY RoutingAssumption DEF Demanding
  <2> QED BY <2>1 DEF Demanding, BindingTyped, Requirements
<1> HIDE DEF named
<1>4. floor \in Nat \cup {Null} /\ Meets(floor, rq.task.ctx)
  <2> DEFINE inner == Larger(rq.task.ctx, named)
  <2>1. inner \in Nat \cup {Null} /\ Meets(inner, rq.task.ctx)
    BY <1>3, LargerMeets
  <2> HIDE DEF inner
  <2>2. Larger(rq.b.ctx, inner) \in Nat \cup {Null} /\ Meets(Larger(rq.b.ctx, inner), inner)
    BY <1>3, <2>1, LargerMeets
  <2>3. Meets(Larger(rq.b.ctx, inner), rq.task.ctx)
    BY <1>3, <2>1, <2>2, MeetsBoth
  <2> QED BY <2>2, <2>3 DEF inner
<1> HIDE DEF floor
<1>5. /\ DOMAIN joined = RequestFields /\ joined.task = rq.task /\ joined.profile = rq.profile /\ joined.profiles = rq.profiles
      /\ DOMAIN joined.b = BindingFields /\ joined.b.ctx = floor /\ joined.b.out = rq.b.out /\ joined.b.alias = rq.b.alias
      /\ joined.b.features = rq.b.features
  BY <1>3 DEF RequestFields, BindingFields
<1> HIDE DEF joined
<1>6. Demanding(joined)
  BY <1>4, <1>5 DEF Demanding, BindingTyped
<1>7. need \in Requirements
  <2>1. PICK j : j = joined
    OBVIOUS
  <2> QED BY <1>2, <1>6, <2>1, RequirementMeetsTask
<1>8. need.ctx \in Nat \cup {Null}
  BY <1>7 DEF Requirements
<1> HIDE DEF need, tools
<1>9. q = [joined EXCEPT !.b.features = @ \cup tools, !.b.ctx = Larger(@, need.ctx)]
  BY <1>2
<1>10. /\ DOMAIN q = RequestFields /\ q.task = joined.task /\ q.profile = joined.profile /\ q.profiles = joined.profiles
       /\ DOMAIN q.b = BindingFields /\ q.b.out = joined.b.out /\ q.b.alias = joined.b.alias
       /\ q.b.features = joined.b.features \cup tools /\ q.b.ctx = Larger(joined.b.ctx, need.ctx)
  <2> DEFINE features == joined.b.features \cup tools
             ctx == Larger(joined.b.ctx, need.ctx)
  <2>1. q = [joined EXCEPT !.b = [[joined.b EXCEPT !.features = features] EXCEPT !.ctx = ctx]]
    BY <1>5, <1>9 DEF RequestFields, BindingFields
  <2> HIDE DEF features, ctx
  <2>2. DOMAIN q = RequestFields /\ q.task = joined.task /\ q.profile = joined.profile /\ q.profiles = joined.profiles
    BY <1>5, <2>1 DEF RequestFields
  <2>3. q.b = [[joined.b EXCEPT !.features = features] EXCEPT !.ctx = ctx]
    BY <1>5, <2>1 DEF RequestFields
  <2>4. DOMAIN q.b = BindingFields /\ q.b.out = joined.b.out /\ q.b.alias = joined.b.alias /\ q.b.features = features /\ q.b.ctx = ctx
    BY <1>5, <2>3 DEF BindingFields
  <2> QED BY <2>2, <2>4 DEF features, ctx
<1>11. q.b.ctx \in Nat \cup {Null} /\ Meets(q.b.ctx, rq.task.ctx)
  <2>1. q.b.ctx \in Nat \cup {Null} /\ Meets(q.b.ctx, floor)
    BY <1>4, <1>5, <1>8, <1>10, LargerMeets
  <2> QED BY <1>3, <1>4, <2>1, MeetsBoth
<1>12. Demanding(q)
  BY <1>5, <1>6, <1>10, <1>11 DEF Demanding, BindingTyped
<1> QED BY <1>5, <1>10, <1>11, <1>12

\* executable_contract.py: a binding that is joined is typed, has the features of both, and a ceiling no higher than the retained one.
LEMMA MergedKeeps ==
    ASSUME NEW old, BindingTyped(old), NEW new, BindingTyped(new), NEW b, b = MergeBinding(old, new), b # Raised
    PROVE  /\ BindingTyped(b) /\ old.features \subseteq b.features
           /\ old.out # Null => b.out # Null /\ b.out <= old.out
<1>1. ~(old.out # Null /\ (new.out = Null \/ new.out > old.out))
  BY DEF MergeBinding
<1>2. DOMAIN new = BindingFields /\ old.ctx \in Nat \cup {Null} /\ new.ctx \in Nat \cup {Null} /\ old.out \in Nat \cup {Null} /\ new.out \in Nat \cup {Null}
  BY DEF BindingTyped
<1>3. b = [f \in DOMAIN new |->
             CASE f = "features" -> old.features \cup new.features
               [] f = "ctx" -> Larger(old.ctx, new.ctx)
               [] f = "out" -> new.out
               [] OTHER -> IF old[f] # Null THEN old[f] ELSE new[f]]
  BY DEF MergeBinding
<1>4. /\ DOMAIN b = BindingFields /\ b.features = old.features \cup new.features /\ b.ctx = Larger(old.ctx, new.ctx) /\ b.out = new.out
      /\ b.alias = IF old.alias # Null THEN old.alias ELSE new.alias
  BY <1>2, <1>3 DEF BindingFields
<1>5. b.ctx \in Nat \cup {Null}
  <2>1. Larger(old.ctx, new.ctx) \in Nat \cup {Null}
    BY <1>2, LargerMeets
  <2> QED BY <1>4, <2>1
<1>6. BindingTyped(b)
  BY <1>2, <1>4, <1>5 DEF BindingTyped
<1>7. old.out # Null => b.out # Null /\ b.out <= old.out
  BY <1>1, <1>2, <1>4, SentinelAssumption
<1> QED BY <1>4, <1>6, <1>7

\* gateway_coordinator.py: what the gateway makes of a request besides its binding.
LEMMA InputIs ==
    ASSUME NEW b, NEW profile, NEW raw, raw = RoutingInput(b, profile, Null)
    PROVE  DOMAIN raw = RequestFields /\ raw.b = b /\ raw.profile = profile /\ raw.profiles = RequestProfiles
  BY DEF RoutingInput, RequestFields

\* gateway_coordinator.py: the profile of a request is one that is configured.
LEMMA ProfileIsNamed ==
    ASSUME NEW b, BindingTyped(b), ProfileOf(b) # Null
    PROVE  ProfileOf(b).id \in DOMAIN RequestProfiles
  BY DEF ProfileOf, BindingTyped

\* gateway_coordinator.py: what a selection lets a client keep is a requirement and a binding.
LEMMA SelectHolds == ASSUME HeldFacts, NEW d \in Demands, SelectExecutable(d) PROVE HeldFacts'
<1> DEFINE raw == RoutingInput(d.b, ProfileOf(d.b), Null)
           made == [raw EXCEPT !.task = d.task, !.effort = TRUE]
<1>1. PICK rq : rq = IF raw.reg = Raised THEN Raised ELSE Constructed(made)
  OBVIOUS
<1>2. SelectFor(rq)
  BY <1>1 DEF SelectExecutable
<1>3. PICK answer : answer = IF rq # Raised /\ WithinExecutableLimits(rq) THEN Routed(rq) ELSE Refused
  OBVIOUS
<1>4. last' = answer /\ held' = IF answer = Refused \/ answer.out.target = Null THEN held ELSE Retained(rq, answer.out)
  BY <1>2, <1>3 DEF SelectFor, KeepAnswer
<1>5. answer = Refused \/ (rq # Raised /\ RouteRequest(rq) # Raised /\ answer.op = "select")
  BY <1>3 DEF Routed, AnswerOf
<1>6. answer.op # "execute"
  BY <1>5 DEF Refused
<1>7. BindingTyped(d.b) /\ d.task \in Requirements
  BY RoutingAssumption
<1>8. rq # Raised => DOMAIN rq = RequestFields /\ Demanding(rq)
  <2> SUFFICES ASSUME rq # Raised PROVE DOMAIN rq = RequestFields /\ Demanding(rq)
    OBVIOUS
  <2>1. DOMAIN raw = RequestFields /\ raw.b = d.b /\ raw.profile = ProfileOf(d.b) /\ raw.profiles = RequestProfiles
    BY InputIs
  <2> HIDE DEF raw
  <2>2. PICK q : q = made
    OBVIOUS
  <2>3. DOMAIN q = RequestFields /\ q.b = d.b /\ q.profile = ProfileOf(d.b) /\ q.profiles = RequestProfiles /\ q.task = d.task
    BY <2>1, <2>2 DEF RequestFields
  <2>4. Demanding(q)
    BY <1>7, <2>3, ProfileIsNamed DEF Demanding
  <2>5. rq = Constructed(q)
    BY <1>1, <2>2
  <2> QED BY <2>3, <2>4, <2>5, ConstructedKeeps
<1>9. CASE held' = held
  BY <1>4, <1>6, <1>9 DEF HeldFacts
<1>10. CASE answer # Refused /\ held' = Retained(rq, answer.out)
  <2>1. rq # Raised /\ DOMAIN rq = RequestFields /\ Demanding(rq) /\ RouteRequest(rq) # Raised
    BY <1>5, <1>8, <1>10
  <2>2. RouteRequirement(rq) # Raised
    BY <2>1 DEF RouteRequest, RouteFor, RouteThrough
  <2>3. QualityRequirement(rq) \in Requirements
    BY <2>1, <2>2, QualityIsTyped
  <2>4. PICK pin : held'.requirement = QualityRequirement(rq) /\ held'.b = [rq.b EXCEPT !.pin = pin]
    BY <1>10 DEF Retained
  <2>5. BindingTyped(held'.b)
    BY <2>1, <2>4 DEF Demanding, BindingTyped, BindingFields
  <2> QED BY <1>4, <1>6, <2>3, <2>4, <2>5 DEF HeldFacts, BindingTyped
<1> QED BY <1>4, <1>9, <1>10

\* executable_contract.py: the request of an execution demands what was retained.
LEMMA ExecuteHolds == ASSUME HeldFacts, NEW d \in Demands, ExecutePinned(d.b) PROVE HeldFacts'
<1> DEFINE raw == RoutingInput([d.b EXCEPT !.pin = held.pin], IF held.b.alias = Null THEN Null ELSE ProfileOf(held.b), Null)
<1>1. PICK rq : rq = IF raw.reg = Raised THEN Raised ELSE BindRetained(raw)
  OBVIOUS
<1>2. held # Null /\ held' = held /\ last' = Execution(d.b, rq)
  BY <1>1 DEF ExecutePinned
<1>3. held.requirement \in Requirements /\ BindingTyped(held.b)
  BY <1>2 DEF HeldFacts
<1>4. CASE last' = Refused
  BY <1>2, <1>3, <1>4 DEF HeldFacts, Refused, BindingTyped
<1>5. CASE last' # Refused
  <2>1. rq # Raised /\ last'.rq = rq
    BY <1>2, <1>5 DEF Execution, Executed
  <2>2. PICK p : p = [d.b EXCEPT !.pin = held.pin]
    OBVIOUS
  <2>3. BindingTyped(p)
    <3>1. BindingTyped(d.b)
      BY RoutingAssumption
    <3> QED BY <2>2, <3>1 DEF BindingTyped, BindingFields
  <2>4. PICK profile : profile = IF held.b.alias = Null THEN Null ELSE ProfileOf(held.b)
    OBVIOUS
  <2>5. profile # Null => profile.id \in DOMAIN RequestProfiles
    BY <1>3, <2>4, ProfileIsNamed
  <2>6. DOMAIN raw = RequestFields /\ raw.b = p /\ raw.profile = profile /\ raw.profiles = RequestProfiles
    BY <2>2, <2>4, InputIs
  <2>7. rq = BindRetained(raw)
    BY <1>1, <2>1
  <2> HIDE DEF raw
  <2>8. PICK b : b = MergeBinding(held.b, p)
    OBVIOUS
  <2>9. PICK q : q = [raw EXCEPT !.b = b, !.task = held.requirement]
    OBVIOUS
  <2>10. b # Raised /\ rq = Constructed(q)
    BY <2>1, <2>6, <2>7, <2>8, <2>9 DEF BindRetained
  <2>11. /\ BindingTyped(b) /\ held.b.features \subseteq b.features
         /\ held.b.out # Null => b.out # Null /\ b.out <= held.b.out
    BY <1>3, <2>3, <2>8, <2>10, MergedKeeps
  <2>12. DOMAIN q = RequestFields /\ q.b = b /\ q.task = held.requirement /\ q.profile = profile /\ q.profiles = RequestProfiles
    BY <2>6, <2>9 DEF RequestFields
  <2>13. Demanding(q)
    BY <1>3, <2>5, <2>11, <2>12 DEF Demanding
  <2>14. /\ Demanding(rq) /\ rq.task = held.requirement /\ rq.b.out = b.out /\ b.features \subseteq rq.b.features
         /\ Meets(rq.b.ctx, held.requirement.ctx)
    BY <2>1, <2>10, <2>12, <2>13, ConstructedKeeps
  <2> QED BY <1>2, <1>3, <2>1, <2>11, <2>14 DEF HeldFacts, Demanding, Meets, BindingTyped
<1> QED BY <1>4, <1>5

\* executable_contract.py: whatever happens between selection and execution, a client holds the demands it selected with, and the
\* request of its execution demands as much.
THEOREM HeldIsInductive == RouteSpec => []HeldFacts
<1>1. RouteInit => HeldFacts
  BY DEF RouteInit, HeldFacts
<1>2. HeldFacts /\ [RouteNext]_routeVars => HeldFacts'
  <2> SUFFICES ASSUME HeldFacts, [RouteNext]_routeVars PROVE HeldFacts'
    OBVIOUS
  <2>1. ASSUME held' = held, last'.op # "execute" \/ last' = last PROVE HeldFacts'
    BY <2>1 DEF HeldFacts, BindingTyped
  <2>2. CASE UNCHANGED routeVars
    BY <2>1, <2>2 DEF routeVars
  <2>3. ASSUME NEW x \in Registrations, RegisterResource(x) PROVE HeldFacts'
    BY <2>1, <2>3 DEF RegisterResource
  <2>4. Idle.op # "execute" /\ Refused.op # "execute"
    BY DEF Idle, Refused
  <2>8. CASE Serve \/ Tick \/ Reconfigure \/ RouteOvertaken
    BY <2>1, <2>4, <2>8 DEF Serve, Tick, Reconfigure, RouteOvertaken
  <2>9. ASSUME NEW o, Observe(o) PROVE HeldFacts'
    BY <2>1, <2>4, <2>9 DEF Observe
  <2>10. ASSUME NEW s, NEW skew, WorkerReports(s, skew) PROVE HeldFacts'
    BY <2>1, <2>4, <2>10 DEF WorkerReports
  <2>5. ASSUME NEW rq PROVE Routed(rq).op # "execute"
    BY DEF Routed, AnswerOf, Refused
  <2>6. ASSUME NEW i, NEW digest, RouteKernel(i, digest) PROVE HeldFacts'
    BY <2>1, <2>5, <2>6 DEF RouteKernel
  <2>7. ASSUME NEW m, NEW e, RouteLogical(m, e) PROVE HeldFacts'
    <3>1. held' = held /\ \E rq : last' \in {Refused, Routed(rq)}
      BY <2>7 DEF RouteLogical
    <3> QED BY <2>1, <2>4, <2>5, <3>1
  <2> QED BY <2>2, <2>3, <2>6, <2>7, <2>8, <2>9, <2>10, SelectHolds, ExecuteHolds DEF RouteNext
<1> QED BY <1>1, <1>2, PTL DEF RouteSpec

\* routing_core.py: what the resources carry of a model changes nothing of what is known of its capability.
LEMMA RuntimeKeepsCapability ==
    ASSUME NEW c, DOMAIN c = EntryFields, NEW rq, NEW gates, NEW x, x = RuntimeEntry(c, rq, gates)
    PROVE  x.id = c.id /\ x.capability = c.capability
<1> DEFINE mine == {g \in gates : g.qualified /\ c.id \in g.bound /\ (rq.b.pin # Null => g.res = rq.b.pin.res)}
           tools == {g.entry.caps.tools : g \in mine}
           single == Cardinality(mine) = 1
           only == (CHOOSE g \in mine : TRUE).res
           shared == {y \in c.resBind : single /\ y.res = only}
           unbound == \E g \in mine : ~SourceBound(c, g.res)
           ctx == Bounded(c.ctx, {g.entry.caps.ctx : g \in mine})
           out == Bounded(c.out, {g.entry.caps.out : g \in mine})
           tool == IF c.tools = "no" \/ "no" \in tools THEN "no"
                   ELSE IF \/ "tool_calls" \in rq.b.features /\ mine # {}
                           \/ tools = {"yes"} THEN "yes" ELSE c.tools
           effort == IF single /\ unbound THEN Null ELSE c.effort
           reasons == IF single /\ unbound THEN FALSE ELSE c.reasons
           bindings == IF single THEN IF shared = {} THEN Null ELSE (CHOOSE y \in shared : TRUE).bindings
                       ELSE IF c.bindings # Null /\ (c.capRes = Null \/ unbound) THEN Null ELSE c.bindings
<1>1. x = [c EXCEPT !.ctx = ctx, !.out = out, !.tools = tool, !.effort = effort, !.reasons = reasons, !.bindings = bindings]
  BY Zenon DEF RuntimeEntry
<1> HIDE DEF ctx, out, tool, effort, reasons, bindings
<1> QED BY <1>1 DEF EntryFields

\* routing_core.py: a model a route may take is as capable as the catalog says.
LEMMA NarrowedKeepsCapability ==
    ASSUME NEW rq, CatalogTyped(rq.catalog), NEW keys, NEW gates, NEW x \in NarrowedCatalog(rq, keys, gates)
    PROVE  \E c \in rq.catalog.entries : c.id \in keys /\ x.id = c.id /\ x.capability = c.capability
<1> DEFINE usable == IF rq.candidates = Null THEN keys ELSE keys \cap rq.candidates
           kept == {c \in rq.catalog.entries : c.id \in usable}
<1>1. x \in kept \/ \E c \in kept : x = RuntimeEntry(c, rq, gates)
  BY DEF NarrowedCatalog
<1>2. \A c \in kept : c \in rq.catalog.entries /\ c.id \in keys /\ DOMAIN c = EntryFields
  BY DEF CatalogTyped
<1> HIDE DEF kept
<1>3. CASE x \in kept
  BY <1>2, <1>3
<1>4. ASSUME NEW c \in kept, x = RuntimeEntry(c, rq, gates) PROVE x.id = c.id /\ x.capability = c.capability
  BY <1>2, <1>4, RuntimeKeepsCapability
<1> QED BY <1>1, <1>2, <1>3, <1>4

\* routing_core.py: a model is approved only when it is as capable as the requirement of the request demands.
LEMMA AdmittedIsCapable ==
    ASSUME NEW rq, CatalogTyped(rq.catalog), NEW pin, NEW d, d = AdmitPinnedTarget(rq, pin), d # Raised, d.approved
    PROVE  /\ RouteRequirement(rq) # Raised
           /\ \E c \in rq.catalog.entries : c.id = pin.model /\ CapabilityFailures(RouteRequirement(rq), c) = {}
<1> DEFINE need == RouteRequirement(rq)
           here == {e \in rq.reg.entries : e.identity.id = pin.res}
           bound == [rq EXCEPT !.b.pin = pin, !.b.variant = pin.variant]
           eff == EffectiveAuthorization(rq.admin, rq.client, rq.profile)
           g == EvaluateResource(CHOOSE e \in here : TRUE, bound, need, eff, FALSE)
           admitted == NarrowedCatalog(rq, {pin.model}, {g})
           entry == CHOOSE c \in admitted : TRUE
           checked == RunSelection(rq, admitted, need, ResourceSnapshots(g, entry))
<1>1. \A codes : Rejected(pin, codes).approved = FALSE
  BY DEF Rejected
<1>2. /\ need # Raised
      /\ d = IF Contradicts(rq.b, pin, EntryOf(rq, pin.model)) THEN Rejected(pin, {"pinned_request_failed"})
             ELSE IF here = {} THEN Rejected(pin, {"pin_target_not_found"})
             ELSE AdmitResource(rq, pin, need, g)
  BY Zenon DEF AdmitPinnedTarget, AdmitFor
<1> HIDE DEF g, need
<1>3. d = AdmitResource(rq, pin, need, g)
  BY <1>1, <1>2
<1>4. d = IF ~g.qualified THEN Rejected(pin, g.codes) ELSE AdmitModel(rq, pin, need, g, admitted, entry, checked)
  BY <1>3, Zenon DEF AdmitResource, AdmitEntry
<1>5. d = AdmitModel(rq, pin, need, g, admitted, entry, checked)
  BY <1>1, <1>4
<1> HIDE DEF admitted, entry, checked
<1>6. admitted # {} /\ CapabilityFailures(need, entry) = {}
  BY <1>1, <1>5 DEF AdmitModel
<1>7. entry \in admitted
  BY <1>6 DEF entry
<1>8. PICK c \in rq.catalog.entries : c.id \in {pin.model} /\ entry.id = c.id /\ entry.capability = c.capability
  BY <1>7, NarrowedKeepsCapability DEF admitted
<1>9. CapabilityFailures(need, c) = {}
  BY <1>6, <1>8 DEF CapabilityFailures
<1> QED BY <1>2, <1>8, <1>9 DEF need

\* executable_contract.py: the demands a target was selected for still bind its execution.
LEMMA RetainedHolds ==
    ASSUME RouteIInv, HeldFacts
    PROVE  RetainedDemandsHold
<1> SUFFICES ASSUME last.op = "execute", last.out.approved
             PROVE  LET entry == EntryOf(last.rq, held.pin.model)
                    IN  /\ held.requirement.rating # Null => EffectiveRating(entry.capability) >= held.requirement.rating
                        /\ held.requirement.ctx # Null => last.rq.b.ctx >= held.requirement.ctx
                        /\ held.b.features \subseteq last.rq.b.features
                        /\ held.b.out # Null => last.rq.b.out # Null /\ last.rq.b.out <= held.b.out
  BY DEF RetainedDemandsHold
<1>1. PICK rq, d, pin : rq = last.rq /\ d = last.out /\ pin = held.pin
  OBVIOUS
<1>2. ReadsNow(rq) /\ d = AdmitPinnedTarget(rq, pin) /\ d # Raised /\ d.approved
  BY <1>1 DEF RouteIInv, AnswerFacts
<1>3. CatalogTyped(rq.catalog) /\ rq.profiles = RequestProfiles
  BY <1>2, RoutingAssumption DEF RouteIInv, WorldFacts, ReadsNow
<1>4. /\ held # Null /\ rq.task = held.requirement /\ held.requirement \in Requirements
      /\ Demanding(rq)
  BY <1>1, <1>3 DEF HeldFacts, Demanding
<1>5. PICK c \in rq.catalog.entries : c.id = pin.model /\ CapabilityFailures(RouteRequirement(rq), c) = {}
  BY <1>2, <1>3, AdmittedIsCapable
<1>6. EntryOf(rq, pin.model) = c
  BY <1>3, <1>5 DEF EntryOf, CatalogTyped, CatalogAccepted
<1>7. RouteRequirement(rq) \in Requirements /\ Meets(RouteRequirement(rq).rating, held.requirement.rating)
  BY <1>2, <1>3, <1>4, AdmittedIsCapable, RequirementMeetsTask
<1> DEFINE rating == EffectiveRating(c.capability)
           need == RouteRequirement(rq)
<1>8. rating \in Nat \cup {Null}
  BY <1>3 DEF CatalogTyped, CatalogAccepted, CapabilityAccepted, EffectiveRating
<1>9. need.rating # Null => rating # Null /\ ~(rating < need.rating)
  BY <1>5 DEF CapabilityFailures
<1>10. need.rating \in Nat \cup {Null} /\ held.requirement.rating \in Nat \cup {Null}
  BY <1>4, <1>7 DEF Requirements
<1> HIDE DEF rating, need
<1>11. held.requirement.rating # Null => rating >= held.requirement.rating
  BY <1>7, <1>8, <1>9, <1>10, SentinelAssumption DEF Meets, need
<1> QED BY <1>1, <1>6, <1>11 DEF HeldFacts, rating

-----------------------------------------------------------------------------
(* What the constructors of the registry and of the decisions accept. *)

\* resource_state.py: the registry can be read at every moment, since nothing it holds is dated after it.
LEMMA ReadableHolds ==
    ASSUME RouteIInv
    PROVE  RegistryReadable
<1>1. /\ \A id \in Resources : reg.obs[id] # Null => /\ reg.regs[id] # Null /\ reg.obs[id].identity = reg.regs[id].identity
                                                     /\ reg.obs[id].at \in Nat /\ reg.obs[id].at <= now
      /\ \A id \in Resources : reg.regs[id] # Null => reg.regs[id].identity.id = id
      /\ DOMAIN reg.regs = Resources
  BY DEF RouteIInv, StoreFacts
<1> DEFINE there == {r \in DOMAIN reg.regs : IsRegistered(reg, r)}
           entries == {RegistryEntry(reg, r, now) : r \in there}
           s == RegistrySnapshot(reg, now)
<1>2. ~\E r \in there : reg.obs[r] # Null /\ ~(reg.obs[r].at <= now)
  BY <1>1
<1>3. s = [rev |-> reg.rev, at |-> now, entries |-> entries, pools |-> QuotaPools(entries)]
  BY <1>2, Zenon DEF RegistrySnapshot
<1>4. \A r \in DOMAIN reg.regs : reg.obs[r] # Null => reg.obs[r].at <= now
  BY <1>1
<1>5. s.entries = entries /\ s.pools = QuotaPools(entries)
  BY <1>3
<1>6. ASSUME NEW r \in there
      PROVE  /\ RegistryEntry(reg, r, now).identity = reg.regs[r].identity /\ RegistryEntry(reg, r, now).obs = reg.obs[r]
             /\ RegistryEntry(reg, r, now).freshness = ClassifyFreshness(reg.obs[r], reg.regs[r].ttl, now)
  BY DEF RegistryEntry
<1>7. \A r \in there : EntryStateAccepted(RegistryEntry(reg, r, now))
  <2> SUFFICES ASSUME NEW r \in there PROVE EntryStateAccepted(RegistryEntry(reg, r, now))
    OBVIOUS
  <2> DEFINE e == RegistryEntry(reg, r, now)
  <2>1. e.identity = reg.regs[r].identity /\ e.obs = reg.obs[r] /\ e.freshness = ClassifyFreshness(reg.obs[r], reg.regs[r].ttl, now)
    BY <1>6
  <2>2. ClassifyFreshness(reg.obs[r], reg.regs[r].ttl, now) = "never_observed" <=> reg.obs[r] = Null
    BY DEF ClassifyFreshness
  <2> HIDE DEF e
  <2>3. e.obs # Null => e.obs.identity = e.identity
    BY <1>1, <2>1
  <2>4. EntryStateAccepted(e)
    BY <2>1, <2>2, <2>3 DEF EntryStateAccepted
  <2> QED BY <2>4 DEF e
<1>8. \A e \in entries, f \in entries : e.identity.id = f.identity.id => e = f
  <2> SUFFICES ASSUME NEW r \in there, NEW k \in there,
                      RegistryEntry(reg, r, now).identity.id = RegistryEntry(reg, k, now).identity.id
               PROVE  r = k
    OBVIOUS
  <2> QED BY <1>1, <1>6 DEF IsRegistered
<1> HIDE DEF entries, s
<1>9. \A pool \in DOMAIN QuotaPools(entries) : QuotaPools(entries)[pool] # {}
  <2> DEFINE names == UNION {e.identity.pools : e \in entries}
             members(pool) == {e.identity.id : e \in {f \in entries : pool \in f.identity.pools}}
  <2>1. QuotaPools(entries) = [pool \in names |-> members(pool)]
    BY Zenon DEF QuotaPools
  <2>2. \A pool \in names : members(pool) # {}
    OBVIOUS
  <2> HIDE DEF names, members
  <2> QED BY <2>1, <2>2
<1>10. \A e \in entries : EntryStateAccepted(e)
  BY <1>7 DEF entries
<1> QED BY <1>4, <1>5, <1>8, <1>9, <1>10 DEF RegistryReadable, RegistrySnapshotAccepted, s

\* routing_core.py: a target on a gate is one its constructor accepts: evidence of its context has an interval and comes with the context.
LEMMA TargetIsAccepted ==
    ASSUME NEW g, NEW rq, GateOf(g, rq), NEW i \in Nat, NEW effort \in STRING \cup {Null}
    PROVE  TargetAccepted(RouteTarget(g, i, effort)) /\ RouteTarget(g, i, effort) # Null
<1> DEFINE caps == g.entry.caps
           ctx == IF caps.evidence # Null THEN caps.ctx ELSE Null
           t == [res |-> g.res, model |-> i, effort |-> effort, promotions |-> g.promotions,
                 pools |-> g.entry.identity.pools, evidence |-> caps.evidence, ctx |-> ctx]
<1>1. RouteTarget(g, i, effort) = t
  BY DEF RouteTarget
<1>2. /\ g.res \in Nat /\ g.promotions \subseteq STRING /\ g.entry.identity.pools \subseteq STRING
      /\ caps.evidence \in Intervals \cup {Null} /\ caps.ctx \in Nat \cup {Null}
      /\ caps.evidence # Null => caps.evidence.from < caps.evidence.until /\ caps.ctx # Null
  BY DEF GateOf, IdentityTyped
<1>3. ctx \in Nat \cup {Null} /\ (caps.evidence = Null => ctx = Null) /\ (caps.evidence # Null => ctx = caps.ctx)
  BY <1>2
<1> HIDE DEF caps, ctx
<1>4. t \in RouteTargets
  BY <1>2, <1>3 DEF RouteTargets
<1>5. t.evidence = caps.evidence /\ t.ctx = ctx
  OBVIOUS
<1> HIDE DEF t
<1>6. TargetAccepted(t)
  BY <1>2, <1>3, <1>5 DEF TargetAccepted
<1>7. t # Null
  BY <1>4, RoutingAssumption
<1> QED BY <1>1, <1>6, <1>7

\* routing_core.py: what a resource's own selection excluded is reported with a reason of its stage.
LEMMA ScopedExclusionsAreAccepted ==
    ASSUME NEW rq, NEW gates, NEW keys, NEW scoped, \A x \in scoped : ScopedOf(x, rq, gates, keys), NEW out \in ScopedExclusions(scoped)
    PROVE  ExclusionAccepted(out)
<1> DEFINE first(x) == CHOOSE f \in x.out.excluded : TRUE
           capacity(x) == TargetExclusion(x.gate.res, x.id, "capacity", first(x).codes \cap StageReasons("capacity"))
           policy(x) == TargetExclusion(x.gate.res, x.id, "policy", first(x).codes \cap StageReasons(first(x).stage))
           failed(x) == IF first(x).stage = "capacity" THEN {capacity(x)}
                        ELSE IF first(x).stage \in {"policy_blackout", "reservation"} THEN {policy(x)} ELSE {}
           unfit == {y \in scoped : ~y.mismatch /\ y.out.selected = Null}
           unlike == {TargetExclusion(x.gate.res, x.id, "binding", {"reasoning_effort_unverified"}) : x \in {y \in scoped : y.mismatch}}
<1>1. ScopedExclusions(scoped) = unlike \cup UNION {failed(x) : x \in unfit}
  BY Zenon DEF ScopedExclusions
<1>2. ASSUME NEW res, NEW model, NEW stage, NEW codes, RouteStageReasons(stage) \cap codes # {}
      PROVE  ExclusionAccepted(TargetExclusion(res, model, stage, codes))
  BY <1>2 DEF ExclusionAccepted, TargetExclusion
<1>3. "reasoning_effort_unverified" \in RouteStageReasons("binding")
  BY DEF RouteStageReasons
<1>4. CASE out \in unlike
  <2>1. PICK x \in scoped : out = TargetExclusion(x.gate.res, x.id, "binding", {"reasoning_effort_unverified"})
    BY <1>4
  <2> QED BY <2>1, <1>2, <1>3
<1>5. ASSUME NEW x \in unfit, out \in failed(x) PROVE ExclusionAccepted(out)
  <2>1. ScopedOf(x, rq, gates, keys) /\ x.out.selected = Null
    OBVIOUS
  <2>2. first(x) \in x.out.excluded
    BY <2>1 DEF ScopedOf
  <2>3. EvaluationAccepted(first(x)) /\ ~first(x).eligible
    BY <2>1, <2>2 DEF ScopedOf, Evaluated
  <2>4. PICK e : e = first(x)
    OBVIOUS
  <2>5. StageReasons(e.stage) \cap e.codes # {}
    BY <2>3, <2>4 DEF EvaluationAccepted
  <2>6. /\ out \in IF e.stage = "capacity" THEN {TargetExclusion(x.gate.res, x.id, "capacity", e.codes \cap StageReasons("capacity"))}
                   ELSE IF e.stage \in {"policy_blackout", "reservation"}
                   THEN {TargetExclusion(x.gate.res, x.id, "policy", e.codes \cap StageReasons(e.stage))} ELSE {}
    BY <1>5, <2>4
  <2>7. /\ StageReasons("capacity") \subseteq RouteStageReasons("capacity")
        /\ StageReasons("policy_blackout") \subseteq RouteStageReasons("policy")
        /\ StageReasons("reservation") \subseteq RouteStageReasons("policy")
    BY DEF StageReasons, RouteStageReasons
  <2> HIDE DEF first, failed, capacity, policy, unfit, unlike
  <2>8. CASE e.stage = "capacity"
    <3>1. RouteStageReasons("capacity") \cap (e.codes \cap StageReasons("capacity")) # {}
      BY <2>5, <2>7, <2>8
    <3> QED BY <1>2, <2>6, <2>8, <3>1
  <2>9. CASE e.stage \in {"policy_blackout", "reservation"}
    <3>1. RouteStageReasons("policy") \cap (e.codes \cap StageReasons(e.stage)) # {}
      BY <2>5, <2>7, <2>9
    <3>2. e.stage # "capacity"
      BY <2>9
    <3> QED BY <1>2, <2>6, <2>9, <3>1, <3>2
  <2> QED BY <2>6, <2>8, <2>9
<1> HIDE DEF failed, unlike, unfit
<1> QED BY <1>1, <1>4, <1>5

\* A model of the catalog has a number.
LEMMA BoundAreNumbers ==
    ASSUME RouteIInv, NEW rq, ReadsNow(rq), NEW g, GateOf(g, rq), g.qualified
    PROVE  g.bound \subseteq Nat
<1>1. \A c \in rq.catalog.entries : c.id \in Nat
  BY RoutingAssumption DEF ReadsNow, WorldFacts, RouteIInv, CatalogTyped, EntryTyped
<1> QED BY <1>1 DEF GateOf, BindIdentities

\* routing_core.py: what a decision reports, when there is a choice and when there is none.
LEMMA DecisionReports ==
    ASSUME NEW rq, NEW gates, GatesOf(gates, rq), NEW keys, NEW scoped, NEW tried, NEW best, NEW choice, NEW d,
           d = RouteDecision(rq, gates, keys, scoped, tried, best, choice),
           \A x \in tried : ScopedOf(x, rq, gates, keys), best \subseteq tried,
           \A i \in keys : (\E g \in gates : Runs(g, i, gates, rq)) /\ (rq.b.pin # Null => i = rq.b.pin.model),
           choice.selected # Null /\ rq.catalog.versioned => choice.selected.id \in keys,
           choice.selected # Null /\ ~rq.catalog.versioned => \E x \in best : x.id = choice.selected.id
    PROVE  /\ d.selection = choice
           /\ d.exclusions = {TargetExclusion(g.res, Null, g.stage, g.codes) : g \in {h \in gates : ~h.qualified}}
                             \cup (IF rq.catalog.versioned THEN {} ELSE ScopedExclusions(scoped))
           /\ choice.selected = Null =>
                 /\ d.status = "no_solution" /\ d.target = Null /\ d.alternatives = {} /\ "no_eligible_target" \in d.codes
                 /\ d.pinned => "pinned_request_failed" \in d.codes
           /\ choice.selected # Null => d.status = "selected" /\ d.codes = {"route_selected"}
<1> DEFINE id == choice.selected.id
           able == {g \in gates : g.qualified /\ id \in g.bound /\ (rq.b.pin # Null => g.res = rq.b.pin.res)}
           usable == IF rq.catalog.versioned THEN able ELSE {x.gate : x \in {y \in tried : y.id = id /\ y.out.selected # Null}}
           chosen == IF rq.catalog.versioned
                     THEN CHOOSE g \in able : \A h \in able \ {g} : Before(OrderKey(g), OrderKey(h))
                     ELSE (CHOOSE x \in best : x.id = id).gate
           effort(g) == IF rq.catalog.versioned THEN Null ELSE (CHOOSE c \in NarrowedCatalog(rq, {id}, {g}) : TRUE).effort
           others == IF rq.b.pin # Null THEN {} ELSE {RouteTarget(g, id, effort(g)) : g \in usable \ {chosen}}
           excluded == {TargetExclusion(g.res, Null, g.stage, g.codes) : g \in {h \in gates : ~h.qualified}}
                       \cup (IF rq.catalog.versioned THEN {} ELSE ScopedExclusions(scoped))
           made(status, target, alternatives, codes) ==
               [selection |-> choice, exclusions |-> excluded, pinned |-> HasPin(rq.b),
                unroutable |-> {c.id : c \in rq.catalog.entries} \ keys,
                expired |-> UNION {ExpiredPromotions(g.entry, rq.now) : g \in gates},
                status |-> status, target |-> target, alternatives |-> alternatives, codes |-> codes]
           failed == {"no_eligible_target"} \cup PinCodes(rq, gates, keys)
                     \cup (IF HasPin(rq.b) THEN {"pinned_request_failed"} ELSE {})
           first == RouteTarget(chosen, id, effort(chosen))
<1>1. d = IF choice.selected = Null THEN made("no_solution", Null, {}, failed) ELSE made("selected", first, others, {"route_selected"})
  BY Zenon DEF RouteDecision
<1>2. \A status, target, alternatives, codes :
          LET m == made(status, target, alternatives, codes)
          IN  /\ m.selection = choice /\ m.exclusions = excluded /\ m.pinned = HasPin(rq.b) /\ m.status = status /\ m.target = target
              /\ m.alternatives = alternatives /\ m.codes = codes
  OBVIOUS
<1>3. "no_eligible_target" \in failed /\ (HasPin(rq.b) => "pinned_request_failed" \in failed)
  OBVIOUS
<1>4. PICK out : out = excluded
  OBVIOUS
<1> HIDE DEF made, failed, first, others, excluded
<1>5. CASE choice.selected = Null
  <2>1. d.selection = choice /\ d.exclusions = excluded /\ d.pinned = HasPin(rq.b) /\ d.status = "no_solution" /\ d.target = Null
        /\ d.alternatives = {} /\ d.codes = failed
    BY <1>1, <1>2, <1>5
  <2> QED BY <1>3, <1>5, <2>1 DEF excluded
<1>6. CASE choice.selected # Null
  <2>1. d.selection = choice /\ d.exclusions = excluded /\ d.status = "selected" /\ d.codes = {"route_selected"}
    BY <1>1, <1>2, <1>6
  <2> QED BY <1>6, <2>1 DEF excluded
<1> QED BY <1>5, <1>6

\* routing_core.py: what a decision excludes it excludes for a reason of the stage.
LEMMA ExclusionsAreAccepted ==
    ASSUME NEW rq, NEW gates, GatesOf(gates, rq), NEW keys, NEW scoped, \A x \in scoped : ScopedOf(x, rq, gates, keys),
           NEW out, \/ out \in {TargetExclusion(g.res, Null, g.stage, g.codes) : g \in {h \in gates : ~h.qualified}}
                    \/ out \in ScopedExclusions(scoped)
    PROVE  ExclusionAccepted(out)
<1>1. ASSUME NEW g \in gates, ~g.qualified, out = TargetExclusion(g.res, Null, g.stage, g.codes) PROVE ExclusionAccepted(out)
  <2>1. RouteStageReasons(g.stage) \cap g.codes # {}
    BY <1>1 DEF GatesOf, GateOf
  <2> QED BY <1>1, <2>1 DEF ExclusionAccepted, TargetExclusion
<1>2. CASE out \in ScopedExclusions(scoped)
  BY <1>2, ScopedExclusionsAreAccepted
<1> QED BY <1>1, <1>2

\* routing_core.py: a decision of the router is one that its constructors accept.
LEMMA RouteIsAccepted ==
    ASSUME RouteIInv, NEW rq, ReadsNow(rq), NEW d, d = RouteRequest(rq), d # Raised
    PROVE  RouteDecisionAccepted(d)
<1>1. PICK gates, keys, scoped, tried, best, choice : MadeOf(d, rq, gates, keys, scoped, tried, best, choice)
  BY RouteIsMade
<1>2. /\ d = RouteDecision(rq, gates, keys, scoped, tried, best, choice) /\ GatesOf(gates, rq)
      /\ \A x \in scoped : ScopedOf(x, rq, gates, keys)
      /\ DecisionAccepted(choice)
  BY <1>1, Zenon DEF MadeOf
<1>3. ASSUME choice.selected # Null PROVE TargetAccepted(d.target) /\ d.target # Null
  <2>1. PICK t : t = d.target
    OBVIOUS
  <2>2. t \in {d.target} \cup d.alternatives
    BY <2>1
  <2>3. Reaches(t, gates, rq)
    BY <1>1, <1>3, <2>2, DecisionReaches DEF MadeOf
  <2>4. PICK g \in gates, e \in STRING \cup {Null} : g.qualified /\ t.model \in g.bound /\ t = RouteTarget(g, t.model, e)
    BY <2>3 DEF Reaches
  <2>5. GateOf(g, rq) /\ t.model \in Nat
    BY <1>2, <2>4, BoundAreNumbers DEF GatesOf
  <2>6. PICK i \in Nat : i = t.model
    BY <2>5
  <2>7. t = RouteTarget(g, i, e)
    BY <2>4, <2>6
  <2>8. TargetAccepted(t) /\ t # Null
    BY <2>5, <2>7, TargetIsAccepted
  <2> QED BY <2>1, <2>8
<1>4. /\ d.selection = choice
      /\ d.exclusions = {TargetExclusion(g.res, Null, g.stage, g.codes) : g \in {h \in gates : ~h.qualified}}
                        \cup (IF rq.catalog.versioned THEN {} ELSE ScopedExclusions(scoped))
      /\ choice.selected = Null =>
            /\ d.status = "no_solution" /\ d.target = Null /\ d.alternatives = {} /\ "no_eligible_target" \in d.codes
            /\ d.pinned => "pinned_request_failed" \in d.codes
      /\ choice.selected # Null => d.status = "selected" /\ d.codes = {"route_selected"}
  BY <1>1, DecisionReports DEF MadeOf
<1>5. \A x \in d.exclusions : ExclusionAccepted(x)
  <2> SUFFICES ASSUME NEW x \in d.exclusions PROVE ExclusionAccepted(x)
    OBVIOUS
  <2>1. \/ x \in {TargetExclusion(g.res, Null, g.stage, g.codes) : g \in {h \in gates : ~h.qualified}}
        \/ x \in ScopedExclusions(scoped)
    BY <1>4
  <2> QED BY <1>2, <2>1, ExclusionsAreAccepted
<1> QED BY <1>2, <1>3, <1>4, <1>5 DEF RouteDecisionAccepted

\* routing_core.py: a rejection is one that its constructor accepts.
LEMMA RejectionIsAccepted ==
    ASSUME NEW pin, NEW codes
    PROVE  Rejected(pin, codes).approved = FALSE /\ AdmissionAccepted(Rejected(pin, codes))
BY DEF Rejected, AdmissionAccepted

\* routing_core.py: so is what the checks of the admitted model answer.
LEMMA ModelAdmissionIsAccepted ==
    ASSUME RouteIInv, NEW rq, ReadsNow(rq), NEW pin, NEW need, NEW gate, GateOf(gate, rq), gate.qualified,
           NEW admitted, admitted = NarrowedCatalog(rq, {pin.model}, {gate}), NEW entry, entry = CHOOSE c \in admitted : TRUE,
           NEW checked, NEW d, d = AdmitModel(rq, pin, need, gate, admitted, entry, checked)
    PROVE  AdmissionAccepted(d)
<1> DEFINE effort == IF rq.catalog.versioned THEN Null ELSE entry.effort
           first == RouteTarget(gate, pin.model, effort)
           approved == [approved |-> TRUE, res |-> pin.res, codes |-> {"admission_approved"}, target |-> first]
<1>1. (d = approved /\ pin.model \in gate.bound /\ admitted # {}) \/ \E codes : d = Rejected(pin, codes)
  BY DEF AdmitModel
<1>2. approved.approved = TRUE /\ approved.target = first /\ approved.codes = {"admission_approved"}
  OBVIOUS
<1>3. CASE \E codes : d = Rejected(pin, codes)
  BY <1>3, RejectionIsAccepted
<1>4. CASE d = approved /\ pin.model \in gate.bound /\ admitted # {}
  <2>1. entry \in admitted
    BY <1>4
  <2>2. CatalogTyped(rq.catalog) /\ GatesOf({gate}, rq)
    BY RoutingAssumption DEF ReadsNow, RouteIInv, WorldFacts, GatesOf
  <2>3. NarrowedOf(admitted, rq, {pin.model})
    BY <2>2, NarrowedIsCatalog
  <2>4. entry.effort \in {Null} \cup {Efforts[i] : i \in DOMAIN Efforts}
    BY <2>1, <2>3 DEF NarrowedOf, ModelOf, EntryTyped
  <2>5. \A i \in DOMAIN Efforts : Efforts[i] \in STRING
    BY EffortAssumption
  <2>6. effort \in STRING \cup {Null}
    BY <2>4, <2>5
  <2>7. pin.model \in Nat
    BY <1>4, BoundAreNumbers
  <2> HIDE DEF effort
  <2>8. PICK i : i = pin.model
    OBVIOUS
  <2>9. PICK e : e = effort
    OBVIOUS
  <2>10. TargetAccepted(RouteTarget(gate, i, e)) /\ RouteTarget(gate, i, e) # Null
    BY <2>6, <2>7, <2>8, <2>9, TargetIsAccepted
  <2>11. TargetAccepted(first) /\ first # Null
    BY <2>8, <2>9, <2>10
  <2> HIDE DEF first, approved
  <2> QED BY <1>2, <1>4, <2>11 DEF AdmissionAccepted
<1> QED BY <1>1, <1>3, <1>4

\* routing_core.py: an admission is one that its constructor accepts.
LEMMA AdmissionIsAccepted ==
    ASSUME RouteIInv, NEW rq, ReadsNow(rq), NEW pin, NEW d, d = AdmitPinnedTarget(rq, pin), d # Raised
    PROVE  AdmissionAccepted(d)
<1> DEFINE need == RouteRequirement(rq)
           here == {e \in rq.reg.entries : e.identity.id = pin.res}
           raw == CHOOSE e \in here : TRUE
           bound == [rq EXCEPT !.b.pin = pin, !.b.variant = pin.variant]
           eff == EffectiveAuthorization(rq.admin, rq.client, rq.profile)
           g == EvaluateResource(raw, bound, need, eff, FALSE)
<1>1. /\ need # Raised
      /\ d = IF Contradicts(rq.b, pin, EntryOf(rq, pin.model)) THEN Rejected(pin, {"pinned_request_failed"})
             ELSE IF here = {} THEN Rejected(pin, {"pin_target_not_found"})
             ELSE AdmitResource(rq, pin, need, g)
  BY Zenon DEF AdmitPinnedTarget, AdmitFor
<1> HIDE DEF g, need
<1>2. CASE \E codes : d = Rejected(pin, codes)
  BY <1>2, RejectionIsAccepted
<1>3. CASE here # {} /\ d = AdmitResource(rq, pin, need, g)
  <2>1. raw \in rq.reg.entries /\ raw.identity.id = pin.res
    BY <1>3
  <2>2. PICK q : q = bound
    OBVIOUS
  <2>3. ReadsNow(q)
    <3>1. PICK v : v = pin.variant
      OBVIOUS
    <3> QED BY <2>2, <3>1, PinnedReads
  <2>4. q.admin = rq.admin /\ q.client = rq.client /\ q.reg = rq.reg /\ q.profile = rq.profile /\ q.b.features = rq.b.features /\ q.catalog = rq.catalog
    BY <2>2 DEF ReadsNow, RequestFields, BindingFields
  <2>5. PICK h : h = EvaluateResource(raw, q, need, EffectiveAuthorization(q.admin, q.client, rq.profile), FALSE)
    OBVIOUS
  <2>6. h = g
    BY <2>2, <2>4, <2>5 DEF g
  <2>7. GateOf(h, q)
    BY <2>1, <2>3, <2>4, <2>5, GateIsSound
  <2>8. GateOf(h, rq)
    BY <2>4, <2>7 DEF GateOf
  <2> DEFINE admitted == NarrowedCatalog(rq, {pin.model}, {h})
             entry == CHOOSE c \in admitted : TRUE
             checked == RunSelection(rq, admitted, need, ResourceSnapshots(h, entry))
  <2>9. d = IF ~h.qualified THEN Rejected(pin, h.codes) ELSE AdmitModel(rq, pin, need, h, admitted, entry, checked)
    BY <1>3, <2>6, Zenon DEF AdmitResource, AdmitEntry
  <2>10. CASE ~h.qualified
    BY <2>9, <2>10, RejectionIsAccepted
  <2>11. CASE h.qualified
    <3>1. d = AdmitModel(rq, pin, need, h, admitted, entry, checked)
      BY <2>9, <2>11
    <3> HIDE DEF checked
    <3> QED BY <2>8, <2>11, <3>1, ModelAdmissionIsAccepted
  <2> QED BY <2>10, <2>11
<1> QED BY <1>1, <1>2, <1>3

\* routing_core.py: what the router decides and admits are results that their constructors accept.
LEMMA DecisionsHold ==
    ASSUME RouteIInv
    PROVE  DecisionsAccepted
<1>1. PICK rq, d, pin : rq = last.rq /\ d = last.out /\ pin = held.pin
  OBVIOUS
<1>2. CASE last.op = "select"
  <2>1. ReadsNow(rq) /\ d = RouteRequest(rq) /\ d # Raised
    BY <1>1, <1>2 DEF RouteIInv, AnswerFacts
  <2>2. RouteDecisionAccepted(d)
    BY <2>1, RouteIsAccepted
  <2> QED BY <1>1, <1>2, <2>2 DEF DecisionsAccepted
<1>3. CASE last.op = "execute"
  <2>1. ReadsNow(rq) /\ d = AdmitPinnedTarget(rq, pin) /\ d # Raised
    BY <1>1, <1>3 DEF RouteIInv, AnswerFacts
  <2>2. AdmissionAccepted(d)
    BY <2>1, AdmissionIsAccepted
  <2> QED BY <1>1, <1>3, <2>2 DEF DecisionsAccepted
<1>4. CASE last.op \notin {"select", "execute"}
  BY <1>4 DEF DecisionsAccepted
<1> QED BY <1>2, <1>3, <1>4

\* The clock, the changes and the kind of the last operation.
Bounds ==
    /\ now \in 0..MaxTime /\ changes \in 0..MaxChanges
    /\ last.op \in {"starting", "none", "refused", "select", "execute"}

\* What a step makes of them.
LEMMA BoundsStay ==
    ASSUME Bounds, [RouteNext]_routeVars
    PROVE  Bounds'
<1>1. Idle.op = "none" /\ Refused.op = "refused"
  BY DEF Idle, Refused
<1>2. \A rq, d : AnswerOf(rq, d).op \in {"refused", "select"}
  BY <1>1 DEF AnswerOf
<1>3. \A rq : Routed(rq).op \in {"refused", "select"}
  BY <1>1, <1>2 DEF Routed
<1>4. \A b, rq, d : Executed(b, rq, d).op \in {"refused", "execute"}
  BY <1>1 DEF Executed
<1>5. \A b, rq : Execution(b, rq).op \in {"refused", "execute"}
  BY <1>1, <1>4 DEF Execution
<1>6. MaxTime \in Nat /\ MaxChanges \in Nat
  BY RoutingAssumption
<1> USE DEF Bounds
<1>7. ASSUME now' = now, changes' = changes, last' = last \/ last'.op \in {"none", "refused", "select", "execute"} PROVE Bounds'
  BY <1>7
<1>8. CASE UNCHANGED routeVars
  BY <1>7, <1>8 DEF routeVars
<1>9. ASSUME NEW x \in Registrations, RegisterResource(x) PROVE Bounds'
  BY <1>7, <1>9 DEF RegisterResource
<1>10. CASE Serve
  BY <1>1, <1>7, <1>10 DEF Serve
<1>11. CASE Tick
  BY <1>1, <1>6, <1>11 DEF Tick
<1>12. ASSUME now' = now, Changing, last' = Idle PROVE Bounds'
  BY <1>1, <1>6, <1>12 DEF Changing
<1>13. ASSUME NEW o, Observe(o) PROVE Bounds'
  BY <1>12, <1>13 DEF Observe
<1>14. ASSUME NEW s, NEW skew, WorkerReports(s, skew) PROVE Bounds'
  BY <1>12, <1>14 DEF WorkerReports
<1>15. CASE Reconfigure
  BY <1>12, <1>15 DEF Reconfigure
<1>16. ASSUME NEW d, SelectExecutable(d) PROVE Bounds'
  <2>1. now' = now /\ changes' = changes /\ \E rq : SelectFor(rq)
    BY <1>16 DEF SelectExecutable
  <2>2. last'.op \in {"refused", "select"}
    BY <1>1, <1>3, <2>1 DEF SelectFor, KeepAnswer
  <2> QED BY <1>7, <2>1, <2>2
<1>17. ASSUME NEW b, ExecutePinned(b) PROVE Bounds'
  <2>1. now' = now /\ changes' = changes /\ \E rq : last' = Execution(b, rq)
    BY <1>17 DEF ExecutePinned
  <2> QED BY <1>5, <1>7, <2>1
<1>18. ASSUME NEW i, NEW digest, RouteKernel(i, digest) PROVE Bounds'
  BY <1>3, <1>7, <1>18 DEF RouteKernel
<1>19. ASSUME NEW m, NEW e, RouteLogical(m, e) PROVE Bounds'
  <2>1. now' = now /\ changes' = changes /\ \E rq : last' \in {Refused, Routed(rq)}
    BY <1>19 DEF RouteLogical
  <2> QED BY <1>1, <1>3, <1>7, <2>1
<1>20. CASE RouteOvertaken
  BY <1>1, <1>7, <1>20 DEF RouteOvertaken
<1> QED BY <1>8, <1>9, <1>10, <1>11, <1>13, <1>14, <1>15, <1>16, <1>17, <1>18, <1>19, <1>20 DEF RouteNext

\* The variables of the router keep their types.
LEMMA RoutesTyped ==
    ASSUME RouteIInv, Bounds
    PROVE  RoutesTypeOK
BY DEF RouteIInv, StoreFacts, WorldFacts, Bounds, RoutesTypeOK, ObservationTyped

\* The registry can be read at every moment and every answer of the router is one its constructors accept: no request fails for what is stored.
THEOREM AnswersStayAccepted == RouteSpec => [](RoutesTypeOK /\ RegistryReadable /\ DecisionsAccepted)
<1>1. RouteInit => Bounds
  BY RoutingAssumption DEF RouteInit, Bounds
<1>2. Bounds /\ [RouteNext]_routeVars => Bounds'
  BY BoundsStay
<1>3. RouteIInv /\ Bounds => RoutesTypeOK /\ RegistryReadable /\ DecisionsAccepted
  BY RoutesTyped, ReadableHolds, DecisionsHold
<1> QED BY <1>1, <1>2, <1>3, RouteIsInductive, PTL DEF RouteSpec

\* A pin is exact, and the demands it was given for bind its execution, whatever changed in between.
THEOREM PinsStayHonoured == RouteSpec => []PinsAreHonoured
<1>1. RouteIInv /\ HeldFacts => PinsAreHonoured
  BY PinsHold, RetainedHolds DEF PinsAreHonoured
<1> QED BY <1>1, RouteIsInductive, HeldIsInductive, PTL
=============================================================================
