--------------------- MODULE ContinuationRegistryProofs ---------------------
(***************************************************************************)
(* Proofs about ContinuationRegistry, for any number of clients, tokens,   *)
(* request threads, any table bound and any ring length: IInv is inductive *)
(* and carries the safety properties. One lemma per action, one step per   *)
(* conjunct of IInv.                                                       *)
(***************************************************************************)
EXTENDS ContinuationRegistry, SequenceTheorems, FiniteSetTheorems, TLAPS

\* What the tombstone ring holds.
Entries == Tokens \X (Clients \cup {NoClient})

\* The ring keeps its type, and what it holds after an append was held before or
\* was just appended (deque with maxlen).
LEMMA PushEntries ==
    ASSUME tombstones \in Seq(Entries), NEW e \in Seq(Entries)
    PROVE  /\ Push(e) \in Seq(Entries)
           /\ \A i \in DOMAIN Push(e) :
              \/ \E j \in DOMAIN tombstones : Push(e)[i] = tombstones[j]
              \/ \E j \in DOMAIN e : Push(e)[i] = e[j]
<1> DEFINE all == tombstones \o e
           drop == IF Len(all) > MaxTombstones THEN Len(all) - MaxTombstones ELSE 0
<1>1. /\ all \in Seq(Entries)
      /\ Len(all) = Len(tombstones) + Len(e)
      /\ \A i \in 1..Len(tombstones) + Len(e) :
            all[i] = IF i <= Len(tombstones) THEN tombstones[i] ELSE e[i - Len(tombstones)]
  BY ConcatProperties
<1>2. Push(e) = SubSeq(all, drop + 1, Len(all))
  BY DEF Push
<1>3. Len(tombstones) \in Nat /\ Len(e) \in Nat /\ DOMAIN tombstones = 1..Len(tombstones)
      /\ DOMAIN e = 1..Len(e)
  OBVIOUS
<1> HIDE DEF all
<1>4. drop \in Nat /\ drop <= Len(all)
  BY <1>1, <1>3, RegistryAssumption
<1> HIDE DEF drop
<1>5. \A i \in drop + 1 .. Len(all) : all[i] \in Entries
  <2>1. \A i \in 1..Len(all) : all[i] \in Entries
    BY <1>1
  <2> QED BY <1>1, <1>3, <1>4, <2>1
<1>6. /\ Push(e) \in Seq(Entries)
      /\ Len(Push(e)) = Len(all) - drop
      /\ \A i \in 1..Len(all) - drop : Push(e)[i] = all[i + drop]
  <2>1. Len(all) \in Int /\ drop + 1 \in Int /\ Len(all) - (drop + 1) + 1 = Len(all) - drop
    BY <1>1, <1>3, <1>4
  <2>2. /\ Push(e) \in Seq(Entries)
        /\ Len(Push(e)) = IF drop + 1 <= Len(all) THEN Len(all) - (drop + 1) + 1 ELSE 0
        /\ \A i \in 1 .. Len(all) - (drop + 1) + 1 : Push(e)[i] = all[drop + 1 + i - 1]
    BY <1>2, <1>5, <2>1, SubSeqProperties
  <2> QED BY <1>1, <1>3, <1>4, <2>1, <2>2
<1>7. ASSUME NEW i \in DOMAIN Push(e)
      PROVE  \/ \E j \in DOMAIN tombstones : Push(e)[i] = tombstones[j]
             \/ \E j \in DOMAIN e : Push(e)[i] = e[j]
  <2>0. i \in 1..Len(all) - drop
    BY <1>6, LenProperties
  <2>1. i + drop \in 1..Len(tombstones) + Len(e) /\ Push(e)[i] = all[i + drop]
    BY <1>1, <1>3, <1>4, <1>6, <2>0
  <2>2. CASE i + drop <= Len(tombstones)
    BY <1>1, <1>3, <2>1, <2>2
  <2>3. CASE ~(i + drop <= Len(tombstones))
    <3>1. i + drop - Len(tombstones) \in DOMAIN e
      BY <1>3, <1>4, <2>0, <2>1, <2>3
    <3>2. Push(e)[i] = e[i + drop - Len(tombstones)]
      BY <1>1, <1>3, <1>4, <2>0, <2>1, <2>3
    <3> QED BY <3>1, <3>2
  <2> QED BY <2>2, <2>3
<1> QED BY <1>6, <1>7

\* A step that leaves the ring alone or appends entries of owned, no longer
\* waiting tokens keeps TombstoneFacts.
LEMMA RingKeeps ==
    ASSUME TypeOK, TombstoneFacts, NEW e \in Seq(Entries),
           tombstones' = tombstones \/ tombstones' = Push(e),
           \A j \in DOMAIN e : /\ e[j][2] \in {owner[e[j][1]], NoClient}
                               /\ state[e[j][1]] # "unborn"
                               /\ state'[e[j][1]] \notin {"unborn", "waiting"},
           \A t \in Tokens : state[t] # "unborn" => owner'[t] = owner[t],
           \A t \in Tokens : state[t] \notin {"unborn", "waiting"}
                             => state'[t] \notin {"unborn", "waiting"}
    PROVE  tombstones' \in Seq(Entries) /\ TombstoneFacts'
<1>0. tombstones \in Seq(Entries)
  BY DEF TypeOK, Entries
<1>1. tombstones' \in Seq(Entries)
  BY <1>0, PushEntries
<1>2. ASSUME NEW i \in DOMAIN tombstones'
      PROVE  /\ tombstones'[i][2] \in {owner'[tombstones'[i][1]], NoClient}
             /\ state'[tombstones'[i][1]] \notin {"unborn", "waiting"}
  <2>1. \/ \E j \in DOMAIN tombstones : tombstones'[i] = tombstones[j]
        \/ \E j \in DOMAIN e : tombstones'[i] = e[j]
    BY <1>0, PushEntries
  <2>2. ASSUME NEW j \in DOMAIN tombstones, tombstones'[i] = tombstones[j]
        PROVE  /\ tombstones'[i][2] \in {owner'[tombstones'[i][1]], NoClient}
               /\ state'[tombstones'[i][1]] \notin {"unborn", "waiting"}
    <3>1. tombstones[j][1] \in Tokens
      BY <1>0 DEF Entries
    <3> QED BY <2>2, <3>1 DEF TombstoneFacts
  <2>3. ASSUME NEW j \in DOMAIN e, tombstones'[i] = e[j]
        PROVE  /\ tombstones'[i][2] \in {owner'[tombstones'[i][1]], NoClient}
               /\ state'[tombstones'[i][1]] \notin {"unborn", "waiting"}
    <3>1. e[j][1] \in Tokens
      BY DEF Entries
    <3> QED BY <2>3, <3>1
  <2> QED BY <2>1, <2>2, <2>3
<1> QED BY <1>1, <1>2 DEF TombstoneFacts

\* register keeps the pending table within its bound.
LEMMA TableMayGrow ==
    ASSUME TableBounded, NEW t \in Tokens, CanRegister(t), live' = live \cup {t}
    PROVE  TableBounded'
<1>1. /\ IsFiniteSet(live \cup {t})
      /\ Cardinality(live \cup {t}) = Cardinality(live) + 1
  BY FS_AddElement DEF TableBounded, CanRegister
<1>2. Cardinality(live) \in Nat
  BY FS_CardinalityType DEF TableBounded
<1> QED BY <1>1, <1>2, RegistryAssumption DEF TableBounded, CanRegister

\* Removing records keeps the pending table within its bound.
LEMMA TableMayShrink ==
    ASSUME TableBounded, live' \subseteq live
    PROVE  TableBounded'
<1>1. IsFiniteSet(live') /\ Cardinality(live') <= Cardinality(live)
  BY FS_Subset DEF TableBounded
<1>2. Cardinality(live) \in Nat /\ Cardinality(live') \in Nat
  BY <1>1, FS_CardinalityType DEF TableBounded
<1> QED BY <1>1, <1>2, RegistryAssumption DEF TableBounded

\* The passing of time keeps the invariant.
LEMMA TickKeeps ==
    ASSUME IInv, Tick
    PROVE  IInv'
<1>1. TypeOK'
  BY RegistryAssumption
     DEF IInv, TypeOK, PCs, Replies, TerminalStates, Tick, recordVars, legVars
<1>2. CustodyIsExclusive'
  BY RegistryAssumption
     DEF IInv, TypeOK, CustodyIsExclusive, LegFacts, TableAndStates, Custody,
         Holding, Tick, recordVars, legVars
<1>3. TableAndStates'
  BY RegistryAssumption
     DEF IInv, TypeOK, TableAndStates, LegFacts, Custody, Holding,
         TerminalStates, Tick, recordVars, legVars
<1>4. LegFacts'
  BY RegistryAssumption
     DEF IInv, TypeOK, LegFacts, TableAndStates, CustodyIsExclusive, Custody,
         Holding, TerminalStates, Tick, recordVars, legVars
<1>5. TombstoneFacts'
  BY RegistryAssumption
     DEF IInv, TypeOK, TombstoneFacts, LegFacts, TableAndStates, Custody,
         Holding, TerminalStates, Tick, recordVars, legVars
<1>6. DeliveredAtMostOnce'
  BY DEF IInv, DeliveredAtMostOnce, Tick
<1>7. ResumingIsHeld'
  BY RegistryAssumption
     DEF IInv, TypeOK, ResumingIsHeld, LegFacts, CustodyIsExclusive, Custody,
         Holding, TableAndStates, Tick, recordVars, legVars
<1>8. CancelMatchesVerdict'
  BY RegistryAssumption
     DEF IInv, TypeOK, CancelMatchesVerdict, CancelBackend, Unsettled, LegFacts,
         TableAndStates, CustodyIsExclusive, Custody, Holding, Tick, recordVars,
         legVars
<1>9. ForeignSeesNotFound'
  BY RegistryAssumption
     DEF IInv, TypeOK, ForeignSeesNotFound, LegFacts, TableAndStates,
         TombstoneFacts, Tombstoned, Custody, Holding, Tick, recordVars, legVars
<1>10. ConflictIsHonest'
  BY RegistryAssumption
     DEF IInv, TypeOK, ConflictIsHonest, LegFacts, TableAndStates,
         TombstoneFacts, Tombstoned, TerminalStates, Custody, Holding, Tick,
         recordVars, legVars
<1>11. TableBounded'
  BY DEF IInv, TableBounded, Tick, recordVars
<1> QED BY <1>1, <1>2, <1>3, <1>4, <1>5, <1>6, <1>7, <1>8, <1>9, <1>10, <1>11
   DEF IInv

\* register of a first suspension keeps the invariant.
LEMMA RegisterKeeps ==
    ASSUME IInv, NEW t \in Tokens, NEW c \in Clients, NEW d \in 1..MaxTime,
       Register(t, c, d)
    PROVE  IInv'
<1>1. TypeOK'
  BY RegistryAssumption
     DEF IInv, TypeOK, LegFacts, Custody, Holding, PCs, Replies, TerminalStates,
         Register, AddRecord, recordVars, legVars
<1>2. CustodyIsExclusive'
  BY RegistryAssumption
     DEF IInv, TypeOK, CustodyIsExclusive, LegFacts, TableAndStates, Custody,
         Holding, Register, AddRecord, recordVars, legVars
<1>3. TableAndStates'
  BY RegistryAssumption
     DEF IInv, TypeOK, TableAndStates, LegFacts, Custody, Holding,
         TerminalStates, Register, AddRecord, recordVars, legVars
<1>4. LegFacts'
  BY RegistryAssumption
     DEF IInv, TypeOK, LegFacts, TableAndStates, CustodyIsExclusive, Custody,
         Holding, TerminalStates, Register, AddRecord, recordVars, legVars
<1>5. TombstoneFacts'
  BY RegistryAssumption
     DEF IInv, TypeOK, TombstoneFacts, LegFacts, TableAndStates, Custody,
         Holding, TerminalStates, Register, AddRecord, recordVars, legVars
<1>6. DeliveredAtMostOnce'
  BY RegistryAssumption
     DEF IInv, TypeOK, TableAndStates, Custody, Holding, DeliveredAtMostOnce,
         LegFacts, Register, AddRecord, recordVars, legVars
<1>7. ResumingIsHeld'
  BY RegistryAssumption
     DEF IInv, TypeOK, ResumingIsHeld, LegFacts, CustodyIsExclusive, Custody,
         Holding, TableAndStates, Register, AddRecord, recordVars, legVars
<1>8. CancelMatchesVerdict'
  BY RegistryAssumption
     DEF IInv, TypeOK, CancelMatchesVerdict, CancelBackend, Unsettled, LegFacts,
         TableAndStates, CustodyIsExclusive, Custody, Holding, Register,
         AddRecord, recordVars, legVars
<1>9. ForeignSeesNotFound'
  BY RegistryAssumption
     DEF IInv, TypeOK, ForeignSeesNotFound, LegFacts, TableAndStates,
         TombstoneFacts, Tombstoned, Custody, Holding, Register, AddRecord,
         recordVars, legVars
<1>10. ConflictIsHonest'
  BY RegistryAssumption
     DEF IInv, TypeOK, ConflictIsHonest, LegFacts, TableAndStates,
         TombstoneFacts, Tombstoned, TerminalStates, Custody, Holding, Register,
         AddRecord, recordVars, legVars
<1>11. TableBounded'
  BY TableMayGrow DEF IInv, Register, AddRecord
<1> QED BY <1>1, <1>2, <1>3, <1>4, <1>5, <1>6, <1>7, <1>8, <1>9, <1>10, <1>11
   DEF IInv

\* The detection of a tool result keeps the invariant.
LEMMA DetectKeeps ==
    ASSUME IInv, NEW l \in Legs, NEW t \in Tokens, NEW c \in Clients, Detect(l,
       t, c)
    PROVE  IInv'
<1>1. TypeOK'
  BY RegistryAssumption
     DEF IInv, TypeOK, PCs, Replies, TerminalStates, Detect, recordVars, legVars
<1>2. CustodyIsExclusive'
  <2>1. \A k \in Legs : Custody(k)' => Custody(k) /\ token'[k] = token[k]
    BY DEF IInv, TypeOK, Custody, Holding, Detect, legVars
  <2> QED BY <2>1 DEF IInv, CustodyIsExclusive
<1>3. TableAndStates'
  BY RegistryAssumption
     DEF IInv, TypeOK, TableAndStates, LegFacts, Custody, Holding,
         TerminalStates, Detect, recordVars, legVars
<1>4. LegFacts'
  <2> SUFFICES ASSUME NEW k \in Legs
               PROVE LegFacts!(k)'
    BY DEF LegFacts
  <2>1. CASE k = l
    BY <2>1
       DEF IInv, TypeOK, TableAndStates, Custody, Holding, Detect, recordVars
  <2>2. CASE k # l
    BY <2>2 DEF IInv, TypeOK, LegFacts, Custody, Holding, Detect, recordVars
  <2> QED BY <2>1, <2>2
<1>5. TombstoneFacts'
  BY RegistryAssumption
     DEF IInv, TypeOK, TombstoneFacts, LegFacts, TableAndStates, Custody,
         Holding, TerminalStates, Detect, recordVars, legVars
<1>6. DeliveredAtMostOnce'
  BY RegistryAssumption
     DEF IInv, TypeOK, TableAndStates, Custody, Holding, DeliveredAtMostOnce,
         LegFacts, Detect, recordVars, legVars
<1>7. ResumingIsHeld'
  <2>1. \A k \in Legs : (Holding(k) /\ pc[k] # "closed")
            => (Holding(k) /\ pc[k] # "closed")' /\ token'[k] = token[k]
    BY DEF IInv, TypeOK, LegFacts, Holding, CustodyIsExclusive, Custody, Detect,
           legVars
  <2> QED BY <2>1
     DEF IInv, TypeOK, TableAndStates, LegFacts, ResumingIsHeld, Detect,
         recordVars
<1>8. CancelMatchesVerdict'
  <2>1. \A u \in Tokens : Unsettled(u)' <=> Unsettled(u)
    BY DEF IInv, TypeOK, LegFacts, Unsettled, Detect, legVars
  <2> QED BY <2>1
     DEF IInv, CancelMatchesVerdict, CancelBackend, Detect, recordVars
<1>9. ForeignSeesNotFound'
  BY RegistryAssumption
     DEF IInv, TypeOK, ForeignSeesNotFound, LegFacts, TableAndStates,
         TombstoneFacts, Tombstoned, Custody, Holding, Detect, recordVars,
         legVars
<1>10. ConflictIsHonest'
  BY RegistryAssumption
     DEF IInv, TypeOK, ConflictIsHonest, LegFacts, TableAndStates,
         TombstoneFacts, Tombstoned, TerminalStates, Custody, Holding, Detect,
         recordVars, legVars
<1>11. TableBounded'
  BY DEF IInv, TableBounded, Detect, recordVars
<1> QED BY <1>1, <1>2, <1>3, <1>4, <1>5, <1>6, <1>7, <1>8, <1>9, <1>10, <1>11
   DEF IInv

\* was_terminal_for and its two answers keep the invariant.
LEMMA CheckTerminalKeeps ==
    ASSUME IInv, NEW l \in Legs, CheckTerminal(l)
    PROVE  IInv'
<1>1. TypeOK'
  BY RegistryAssumption
     DEF IInv, TypeOK, PCs, Replies, TerminalStates, CheckTerminal, Answer,
         recordVars, legVars
<1>2. CustodyIsExclusive'
  <2>1. \A k \in Legs : Custody(k)' => Custody(k) /\ token'[k] = token[k]
    BY DEF IInv, TypeOK, Custody, Holding, CheckTerminal, Answer, legVars
  <2> QED BY <2>1 DEF IInv, CustodyIsExclusive
<1>3. TableAndStates'
  BY RegistryAssumption
     DEF IInv, TypeOK, TableAndStates, LegFacts, Custody, Holding,
         TerminalStates, CheckTerminal, Answer, recordVars, legVars
<1>4. LegFacts'
  BY RegistryAssumption
     DEF IInv, TypeOK, LegFacts, TableAndStates, CustodyIsExclusive, Custody,
         Holding, TerminalStates, CheckTerminal, Answer, recordVars, legVars
<1>5. TombstoneFacts'
  BY RegistryAssumption
     DEF IInv, TypeOK, TombstoneFacts, LegFacts, TableAndStates, Custody,
         Holding, TerminalStates, CheckTerminal, Answer, recordVars, legVars
<1>6. DeliveredAtMostOnce'
  BY RegistryAssumption
     DEF IInv, TypeOK, TableAndStates, Custody, Holding, DeliveredAtMostOnce,
         LegFacts, CheckTerminal, Answer, recordVars, legVars
<1>7. ResumingIsHeld'
  <2>1. \A k \in Legs : (Holding(k) /\ pc[k] # "closed")
            => (Holding(k) /\ pc[k] # "closed")' /\ token'[k] = token[k]
    BY DEF IInv, TypeOK, LegFacts, Holding, CustodyIsExclusive, Custody,
           CheckTerminal, Answer, legVars
  <2> QED BY <2>1
     DEF IInv, TypeOK, TableAndStates, LegFacts, ResumingIsHeld, CheckTerminal,
         Answer, recordVars
<1>8. CancelMatchesVerdict'
  <2>1. \A u \in Tokens : Unsettled(u)' <=> Unsettled(u)
    BY DEF IInv, TypeOK, LegFacts, Unsettled, CheckTerminal, Answer, legVars
  <2> QED BY <2>1
     DEF IInv, CancelMatchesVerdict, CancelBackend, CheckTerminal, recordVars
<1>9. ForeignSeesNotFound'
  BY RegistryAssumption
     DEF IInv, TypeOK, ForeignSeesNotFound, LegFacts, TableAndStates,
         TombstoneFacts, Tombstoned, Custody, Holding, CheckTerminal, Answer,
         recordVars, legVars
<1>10. ConflictIsHonest'
  BY RegistryAssumption
     DEF IInv, TypeOK, ConflictIsHonest, LegFacts, TableAndStates,
         TombstoneFacts, Tombstoned, TerminalStates, Custody, Holding,
         CheckTerminal, Answer, recordVars, legVars
<1>11. TableBounded'
  BY DEF IInv, TableBounded, CheckTerminal, recordVars
<1> QED BY <1>1, <1>2, <1>3, <1>4, <1>5, <1>6, <1>7, <1>8, <1>9, <1>10, <1>11
   DEF IInv

\* The owner check and the shape validation keep the invariant.
LEMMA ValidateKeeps ==
    ASSUME IInv, NEW l \in Legs, Validate(l)
    PROVE  IInv'
<1>1. TypeOK'
  BY RegistryAssumption
     DEF IInv, TypeOK, PCs, Replies, TerminalStates, Validate, Answer, Goto,
         recordVars, legVars
<1>2. CustodyIsExclusive'
  <2>1. \A k \in Legs : Custody(k)' => Custody(k) /\ token'[k] = token[k]
    BY DEF IInv, TypeOK, Custody, Holding, Validate, Answer, Goto, legVars
  <2> QED BY <2>1 DEF IInv, CustodyIsExclusive
<1>3. TableAndStates'
  BY RegistryAssumption
     DEF IInv, TypeOK, TableAndStates, LegFacts, Custody, Holding,
         TerminalStates, Validate, Answer, Goto, recordVars, legVars
<1>4. LegFacts'
  BY RegistryAssumption
     DEF IInv, TypeOK, LegFacts, TableAndStates, CustodyIsExclusive, Custody,
         Holding, TerminalStates, Validate, Answer, Goto, recordVars, legVars
<1>5. TombstoneFacts'
  BY RegistryAssumption
     DEF IInv, TypeOK, TombstoneFacts, LegFacts, TableAndStates, Custody,
         Holding, TerminalStates, Validate, Answer, Goto, recordVars, legVars
<1>6. DeliveredAtMostOnce'
  BY RegistryAssumption
     DEF IInv, TypeOK, TableAndStates, Custody, Holding, DeliveredAtMostOnce,
         LegFacts, Validate, Answer, Goto, recordVars, legVars
<1>7. ResumingIsHeld'
  <2>1. \A k \in Legs : (Holding(k) /\ pc[k] # "closed")
            => (Holding(k) /\ pc[k] # "closed")' /\ token'[k] = token[k]
    BY DEF IInv, TypeOK, LegFacts, Holding, CustodyIsExclusive, Custody,
           Validate, Answer, Goto, legVars
  <2> QED BY <2>1
     DEF IInv, TypeOK, TableAndStates, LegFacts, ResumingIsHeld, Validate,
         Answer, Goto, recordVars
<1>8. CancelMatchesVerdict'
  <2>1. \A u \in Tokens : Unsettled(u)' <=> Unsettled(u)
    BY DEF IInv, TypeOK, LegFacts, Unsettled, Validate, Answer, Goto, legVars
  <2> QED BY <2>1
     DEF IInv, CancelMatchesVerdict, CancelBackend, Validate, recordVars
<1>9. ForeignSeesNotFound'
  BY RegistryAssumption
     DEF IInv, TypeOK, ForeignSeesNotFound, LegFacts, TableAndStates,
         TombstoneFacts, Tombstoned, Custody, Holding, Validate, Answer, Goto,
         recordVars, legVars
<1>10. ConflictIsHonest'
  BY RegistryAssumption
     DEF IInv, TypeOK, ConflictIsHonest, LegFacts, TableAndStates,
         TombstoneFacts, Tombstoned, TerminalStates, Custody, Holding, Validate,
         Answer, Goto, recordVars, legVars
<1>11. TableBounded'
  BY DEF IInv, TableBounded, Validate, recordVars
<1> QED BY <1>1, <1>2, <1>3, <1>4, <1>5, <1>6, <1>7, <1>8, <1>9, <1>10, <1>11
   DEF IInv

\* The claim keeps the invariant: custody of a token passes to one thread only.
LEMMA ClaimKeeps ==
    ASSUME IInv, NEW l \in Legs, Claim(l)
    PROVE  IInv'
<1> DEFINE t == token[l]
           entry == << <<t, client[l]>> >>
<1>a. /\ pc[l] = "validated"
      /\ t \in Tokens /\ client[l] \in Clients
      /\ state[t] # "unborn" /\ owner[t] = client[l]
  BY DEF IInv, LegFacts, Claim
<1>b. \/ /\ live' = live /\ state' = state /\ tombstones' = tombstones
         /\ pc' = [pc EXCEPT ![l] = "idle"]
      \/ /\ t \in live /\ state[t] = "waiting"
         /\ live' = live \ {t}
         /\ state' = [state EXCEPT ![t] = "expired"]
         /\ tombstones' = Push(entry)
         /\ pc' = [pc EXCEPT ![l] = "late"]
      \/ /\ t \in live /\ state[t] = "waiting"
         /\ live' = live /\ tombstones' = tombstones
         /\ state' = [state EXCEPT ![t] = "resuming"]
         /\ pc' = [pc EXCEPT ![l] = "claimed"]
  BY DEF Claim, Answer, Goto, ClaimTransition
<1>c. entry \in Seq(Entries)
  BY <1>a DEF Entries
<1>d. tombstones' \in Seq(Entries) /\ TombstoneFacts'
  <2>1. \A j \in DOMAIN entry : entry[j] = <<t, client[l]>>
    OBVIOUS
  <2>2. /\ owner' = owner
        /\ \A u \in Tokens : state[u] \notin {"unborn", "waiting"}
                             => state'[u] \notin {"unborn", "waiting"}
    BY <1>b DEF IInv, TypeOK, Claim
  <2>3. CASE tombstones' = tombstones
    BY <2>2, <2>3 DEF IInv, TypeOK, TombstoneFacts, Entries
  <2>4. CASE tombstones' # tombstones
    <3>0. tombstones' = Push(entry)
      BY <1>b, <2>4
    <3>1. state'[t] \notin {"unborn", "waiting"}
      BY <1>a, <1>b, <2>2, <2>4 DEF IInv, TypeOK
    <3> QED BY <1>a, <1>c, <2>1, <2>2, <3>0, <3>1, RingKeeps DEF IInv
  <2> QED BY <2>3, <2>4
<1>1. TypeOK'
  <2>1. reply' \in [Legs -> Replies]
    BY DEF IInv, TypeOK, Replies, Claim, Answer, Goto
  <2> QED BY <1>a, <1>b, <1>d, <2>1
     DEF IInv, TypeOK, PCs, TerminalStates, Entries, Claim
<1>2. CustodyIsExclusive'
  BY RegistryAssumption
     DEF IInv, TypeOK, CustodyIsExclusive, LegFacts, TableAndStates, Custody,
         Holding, Claim, Answer, Goto, ClaimTransition, recordVars, legVars
<1>3. TableAndStates'
  BY <1>a, <1>b DEF IInv, TypeOK, TableAndStates, Claim
<1>4. LegFacts'
  BY RegistryAssumption
     DEF IInv, TypeOK, LegFacts, TableAndStates, CustodyIsExclusive, Custody,
         Holding, TerminalStates, Claim, Answer, Goto, ClaimTransition,
         recordVars, legVars
<1>5. TombstoneFacts'
  BY <1>d
<1>6. DeliveredAtMostOnce'
  BY RegistryAssumption
     DEF IInv, TypeOK, TableAndStates, Custody, Holding, DeliveredAtMostOnce,
         LegFacts, Claim, Answer, Goto, ClaimTransition, recordVars, legVars
<1>7. ResumingIsHeld'
  <2> SUFFICES ASSUME NEW u \in live', state'[u] = "resuming"
               PROVE  \E k \in Legs : (Holding(k) /\ token[k] = u /\ pc[k] #
                  "closed")'
    BY DEF ResumingIsHeld
  <2>1. CASE u = t /\ pc' = [pc EXCEPT ![l] = "claimed"]
    BY <1>a, <2>1 DEF IInv, TypeOK, Holding, Claim
  <2>2. CASE ~(u = t /\ pc' = [pc EXCEPT ![l] = "claimed"])
    <3>1. u \in live /\ state[u] = "resuming"
      BY <1>a, <1>b, <2>2 DEF IInv, TypeOK
    <3>2. PICK k \in Legs : Holding(k) /\ token[k] = u /\ pc[k] # "closed"
      BY <3>1 DEF IInv, ResumingIsHeld
    <3>3. k # l
      BY <1>a, <3>2 DEF Holding
    <3> QED BY <1>b, <3>2, <3>3 DEF IInv, TypeOK, Holding, Claim
  <2> QED BY <2>1, <2>2
<1>8. CancelMatchesVerdict'
  BY RegistryAssumption
     DEF IInv, TypeOK, CancelMatchesVerdict, CancelBackend, Unsettled, LegFacts,
         TableAndStates, CustodyIsExclusive, Custody, Holding, Claim, Answer,
         Goto, ClaimTransition, recordVars, legVars
<1>9. ForeignSeesNotFound'
  BY RegistryAssumption
     DEF IInv, TypeOK, ForeignSeesNotFound, LegFacts, TableAndStates,
         TombstoneFacts, Tombstoned, Custody, Holding, Claim, Answer, Goto,
         ClaimTransition, recordVars, legVars
<1>10. ConflictIsHonest'
  BY RegistryAssumption
     DEF IInv, TypeOK, ConflictIsHonest, LegFacts, TableAndStates,
         TombstoneFacts, Tombstoned, TerminalStates, Custody, Holding, Claim,
         Answer, Goto, ClaimTransition, recordVars, legVars
<1>11. TableBounded'
  <2>1. live' \subseteq live
    BY <1>b
  <2> QED BY <2>1, TableMayShrink DEF IInv
<1> QED BY <1>1, <1>2, <1>3, <1>4, <1>5, <1>6, <1>7, <1>8, <1>9, <1>10, <1>11
   DEF IInv

\* The cancel callback of an expired claim keeps the invariant.
LEMMA CancelLateKeeps ==
    ASSUME IInv, NEW l \in Legs, CancelLate(l)
    PROVE  IInv'
<1>1. TypeOK'
  BY RegistryAssumption
     DEF IInv, TypeOK, LegFacts, Custody, Holding, PCs, Replies, TerminalStates,
         CancelLate, Answer, recordVars, legVars
<1>2. CustodyIsExclusive'
  <2>1. \A k \in Legs : Custody(k)' => Custody(k) /\ token'[k] = token[k]
    BY DEF IInv, TypeOK, Custody, Holding, CancelLate, Answer, legVars
  <2> QED BY <2>1 DEF IInv, CustodyIsExclusive
<1>3. TableAndStates'
  BY RegistryAssumption
     DEF IInv, TypeOK, TableAndStates, LegFacts, Custody, Holding,
         TerminalStates, CancelLate, Answer, recordVars, legVars
<1>4. LegFacts'
  BY RegistryAssumption
     DEF IInv, TypeOK, LegFacts, TableAndStates, CustodyIsExclusive, Custody,
         Holding, TerminalStates, CancelLate, Answer, recordVars, legVars
<1>5. TombstoneFacts'
  BY RegistryAssumption
     DEF IInv, TypeOK, TombstoneFacts, LegFacts, TableAndStates, Custody,
         Holding, TerminalStates, CancelLate, Answer, recordVars, legVars
<1>6. DeliveredAtMostOnce'
  BY RegistryAssumption
     DEF IInv, TypeOK, TableAndStates, Custody, Holding, DeliveredAtMostOnce,
         LegFacts, CancelLate, Answer, recordVars, legVars
<1>7. ResumingIsHeld'
  <2>1. \A k \in Legs : (Holding(k) /\ pc[k] # "closed")
            => (Holding(k) /\ pc[k] # "closed")' /\ token'[k] = token[k]
    BY DEF IInv, TypeOK, LegFacts, Holding, CustodyIsExclusive, Custody,
           CancelLate, Answer, legVars
  <2> QED BY <2>1
     DEF IInv, TypeOK, TableAndStates, LegFacts, ResumingIsHeld, CancelLate,
         Answer, recordVars
<1>8. CancelMatchesVerdict'
  BY RegistryAssumption
     DEF IInv, TypeOK, CancelMatchesVerdict, CancelBackend, Unsettled, LegFacts,
         TableAndStates, CustodyIsExclusive, Custody, Holding, CancelLate,
         Answer, recordVars, legVars
<1>9. ForeignSeesNotFound'
  BY RegistryAssumption
     DEF IInv, TypeOK, ForeignSeesNotFound, LegFacts, TableAndStates,
         TombstoneFacts, Tombstoned, Custody, Holding, CancelLate, Answer,
         recordVars, legVars
<1>10. ConflictIsHonest'
  BY RegistryAssumption
     DEF IInv, TypeOK, ConflictIsHonest, LegFacts, TableAndStates,
         TombstoneFacts, Tombstoned, TerminalStates, Custody, Holding,
         CancelLate, Answer, recordVars, legVars
<1>11. TableBounded'
  BY DEF IInv, TableBounded, CancelLate, recordVars
<1> QED BY <1>1, <1>2, <1>3, <1>4, <1>5, <1>6, <1>7, <1>8, <1>9, <1>10, <1>11
   DEF IInv

\* The lifetime and adapter checks after the claim keep the invariant.
LEMMA CheckLifetimeKeeps ==
    ASSUME IInv, NEW l \in Legs, CheckLifetime(l)
    PROVE  IInv'
<1>1. TypeOK'
  BY RegistryAssumption
     DEF IInv, TypeOK, PCs, Replies, TerminalStates, CheckLifetime, Goto,
         CloseWith, recordVars, legVars
<1>2. CustodyIsExclusive'
  <2>1. \A k \in Legs : Custody(k)' => Custody(k) /\ token'[k] = token[k]
    BY DEF IInv, TypeOK, Custody, Holding, CheckLifetime, Goto, CloseWith,
           legVars
  <2> QED BY <2>1 DEF IInv, CustodyIsExclusive
<1>3. TableAndStates'
  BY RegistryAssumption
     DEF IInv, TypeOK, TableAndStates, LegFacts, Custody, Holding,
         TerminalStates, CheckLifetime, Goto, CloseWith, recordVars, legVars
<1>4. LegFacts'
  BY RegistryAssumption
     DEF IInv, TypeOK, LegFacts, TableAndStates, CustodyIsExclusive, Custody,
         Holding, TerminalStates, CheckLifetime, Goto, CloseWith, recordVars,
         legVars
<1>5. TombstoneFacts'
  BY RegistryAssumption
     DEF IInv, TypeOK, TombstoneFacts, LegFacts, TableAndStates, Custody,
         Holding, TerminalStates, CheckLifetime, Goto, CloseWith, recordVars,
         legVars
<1>6. DeliveredAtMostOnce'
  BY RegistryAssumption
     DEF IInv, TypeOK, TableAndStates, Custody, Holding, DeliveredAtMostOnce,
         LegFacts, CheckLifetime, Goto, CloseWith, recordVars, legVars
<1>7. ResumingIsHeld'
  <2>1. \A k \in Legs : (Holding(k) /\ pc[k] # "closed")
            => (Holding(k) /\ pc[k] # "closed")' /\ token'[k] = token[k]
    BY DEF IInv, TypeOK, LegFacts, Holding, CustodyIsExclusive, Custody,
           CheckLifetime, Goto, CloseWith, legVars
  <2> QED BY <2>1
     DEF IInv, TypeOK, TableAndStates, LegFacts, ResumingIsHeld, CheckLifetime,
         Goto, CloseWith, recordVars
<1>8. CancelMatchesVerdict'
  <2>1. \A u \in Tokens : Unsettled(u)' <=> Unsettled(u)
    BY DEF IInv, TypeOK, LegFacts, Unsettled, CheckLifetime, Goto, CloseWith,
           legVars
  <2> QED BY <2>1
     DEF IInv, CancelMatchesVerdict, CancelBackend, CheckLifetime, recordVars
<1>9. ForeignSeesNotFound'
  BY RegistryAssumption
     DEF IInv, TypeOK, ForeignSeesNotFound, LegFacts, TableAndStates,
         TombstoneFacts, Tombstoned, Custody, Holding, CheckLifetime, Goto,
         CloseWith, recordVars, legVars
<1>10. ConflictIsHonest'
  BY RegistryAssumption
     DEF IInv, TypeOK, ConflictIsHonest, LegFacts, TableAndStates,
         TombstoneFacts, Tombstoned, TerminalStates, Custody, Holding,
         CheckLifetime, Goto, CloseWith, recordVars, legVars
<1>11. TableBounded'
  BY DEF IInv, TableBounded, CheckLifetime, recordVars
<1> QED BY <1>1, <1>2, <1>3, <1>4, <1>5, <1>6, <1>7, <1>8, <1>9, <1>10, <1>11
   DEF IInv

\* The authority recheck and the delivery keep the invariant.
LEMMA RecheckAndDeliverKeeps ==
    ASSUME IInv, NEW l \in Legs, RecheckAndDeliver(l)
    PROVE  IInv'
<1>a. /\ token[l] \in Tokens
      /\ delivered[token[l]] = 0
      /\ state[token[l]] \in {"resuming", "expired"}
  BY DEF IInv, LegFacts, Holding, RecheckAndDeliver
<1>b. \/ delivered' = delivered
      \/ delivered' = [delivered EXCEPT ![token[l]] = 1]
  BY <1>a DEF RecheckAndDeliver
<1>1. TypeOK'
  <2>0. delivered' \in [Tokens -> Nat]
    BY <1>a, <1>b DEF IInv, TypeOK
  <2>1. goal' \in [Legs -> {"none"} \cup TerminalStates]
    BY DEF IInv, TypeOK, TerminalStates, RecheckAndDeliver, Goto, CloseWith,
           ClosingState
  <2> QED BY <2>0, <2>1
     DEF IInv, TypeOK, PCs, RecheckAndDeliver, CloseWith, Goto, recordVars
<1>2. CustodyIsExclusive'
  <2>1. \A k \in Legs : Custody(k)' => Custody(k) /\ token'[k] = token[k]
    BY DEF IInv, TypeOK, Custody, Holding, RecheckAndDeliver, Goto, CloseWith,
           ClosingState, legVars
  <2> QED BY <2>1 DEF IInv, CustodyIsExclusive
<1>3. TableAndStates'
  BY <1>a, <1>b DEF IInv, TypeOK, TableAndStates, RecheckAndDeliver, recordVars
<1>4. LegFacts'
  BY RegistryAssumption
     DEF IInv, TypeOK, LegFacts, TableAndStates, CustodyIsExclusive, Custody,
         Holding, TerminalStates, RecheckAndDeliver, Goto, CloseWith,
         ClosingState, recordVars, legVars
<1>5. TombstoneFacts'
  BY RegistryAssumption
     DEF IInv, TypeOK, TombstoneFacts, LegFacts, TableAndStates, Custody,
         Holding, TerminalStates, RecheckAndDeliver, Goto, CloseWith,
         ClosingState, recordVars, legVars
<1>6. DeliveredAtMostOnce'
  <2>1. CASE delivered' = delivered
    BY <2>1 DEF IInv, DeliveredAtMostOnce
  <2>2. CASE delivered' = [delivered EXCEPT ![token[l]] = 1]
    BY <1>a, <2>2 DEF IInv, TypeOK, DeliveredAtMostOnce
  <2> QED BY <1>b, <2>1, <2>2
<1>7. ResumingIsHeld'
  <2>1. \A k \in Legs : (Holding(k) /\ pc[k] # "closed")
            => (Holding(k) /\ pc[k] # "closed")' /\ token'[k] = token[k]
    BY DEF IInv, TypeOK, LegFacts, Holding, CustodyIsExclusive, Custody,
           RecheckAndDeliver, Goto, CloseWith, ClosingState, legVars
  <2> QED BY <2>1
     DEF IInv, TypeOK, TableAndStates, LegFacts, ResumingIsHeld,
         RecheckAndDeliver, Goto, CloseWith, ClosingState, recordVars
<1>8. CancelMatchesVerdict'
  <2>1. \A u \in Tokens : Unsettled(u)' <=> Unsettled(u)
    BY DEF IInv, TypeOK, LegFacts, Unsettled, RecheckAndDeliver, Goto,
           CloseWith, ClosingState, legVars
  <2> QED BY <2>1
     DEF IInv, CancelMatchesVerdict, CancelBackend, RecheckAndDeliver,
         recordVars
<1>9. ForeignSeesNotFound'
  BY RegistryAssumption
     DEF IInv, TypeOK, ForeignSeesNotFound, LegFacts, TableAndStates,
         TombstoneFacts, Tombstoned, Custody, Holding, RecheckAndDeliver, Goto,
         CloseWith, ClosingState, recordVars, legVars
<1>10. ConflictIsHonest'
  BY RegistryAssumption
     DEF IInv, TypeOK, ConflictIsHonest, LegFacts, TableAndStates,
         TombstoneFacts, Tombstoned, TerminalStates, Custody, Holding,
         RecheckAndDeliver, Goto, CloseWith, ClosingState, recordVars, legVars
<1>11. TableBounded'
  BY DEF IInv, TableBounded, RecheckAndDeliver, recordVars
<1> QED BY <1>1, <1>2, <1>3, <1>4, <1>5, <1>6, <1>7, <1>8, <1>9, <1>10, <1>11
   DEF IInv

\* The end of a delivery keeps the invariant.
LEMMA FinishDeliveryKeeps ==
    ASSUME IInv, NEW l \in Legs, NEW o \in DeliveryOutcomes, FinishDelivery(l,
       o)
    PROVE  IInv'
<1>1. TypeOK'
  BY RegistryAssumption
     DEF IInv, TypeOK, PCs, Replies, TerminalStates, FinishDelivery, Goto,
         CloseWith, ClosingState, DeliveryOutcomes, recordVars, legVars
<1>2. CustodyIsExclusive'
  <2>1. \A k \in Legs : Custody(k)' => Custody(k) /\ token'[k] = token[k]
    BY DEF IInv, TypeOK, Custody, Holding, FinishDelivery, Goto, CloseWith,
           ClosingState, DeliveryOutcomes, legVars
  <2> QED BY <2>1 DEF IInv, CustodyIsExclusive
<1>3. TableAndStates'
  BY RegistryAssumption
     DEF IInv, TypeOK, TableAndStates, LegFacts, Custody, Holding,
         TerminalStates, FinishDelivery, Goto, CloseWith, ClosingState,
         DeliveryOutcomes, recordVars, legVars
<1>4. LegFacts'
  BY RegistryAssumption
     DEF IInv, TypeOK, LegFacts, TableAndStates, CustodyIsExclusive, Custody,
         Holding, TerminalStates, FinishDelivery, Goto, CloseWith, ClosingState,
         DeliveryOutcomes, recordVars, legVars
<1>5. TombstoneFacts'
  BY RegistryAssumption
     DEF IInv, TypeOK, TombstoneFacts, LegFacts, TableAndStates, Custody,
         Holding, TerminalStates, FinishDelivery, Goto, CloseWith, ClosingState,
         DeliveryOutcomes, recordVars, legVars
<1>6. DeliveredAtMostOnce'
  BY RegistryAssumption
     DEF IInv, TypeOK, TableAndStates, Custody, Holding, DeliveredAtMostOnce,
         LegFacts, FinishDelivery, Goto, CloseWith, ClosingState,
         DeliveryOutcomes, recordVars, legVars
<1>7. ResumingIsHeld'
  <2>1. \A k \in Legs : (Holding(k) /\ pc[k] # "closed")
            => (Holding(k) /\ pc[k] # "closed")' /\ token'[k] = token[k]
    BY DEF IInv, TypeOK, LegFacts, Holding, CustodyIsExclusive, Custody,
           FinishDelivery, Goto, CloseWith, ClosingState, DeliveryOutcomes,
           legVars
  <2> QED BY <2>1
     DEF IInv, TypeOK, TableAndStates, LegFacts, ResumingIsHeld, FinishDelivery,
         Goto, CloseWith, ClosingState, DeliveryOutcomes, recordVars
<1>8. CancelMatchesVerdict'
  <2>1. \A u \in Tokens : Unsettled(u)' <=> Unsettled(u)
    BY DEF IInv, TypeOK, LegFacts, Unsettled, FinishDelivery, Goto, CloseWith,
           ClosingState, DeliveryOutcomes, legVars
  <2> QED BY <2>1
     DEF IInv, CancelMatchesVerdict, CancelBackend, FinishDelivery, recordVars
<1>9. ForeignSeesNotFound'
  BY RegistryAssumption
     DEF IInv, TypeOK, ForeignSeesNotFound, LegFacts, TableAndStates,
         TombstoneFacts, Tombstoned, Custody, Holding, FinishDelivery, Goto,
         CloseWith, ClosingState, DeliveryOutcomes, recordVars, legVars
<1>10. ConflictIsHonest'
  BY RegistryAssumption
     DEF IInv, TypeOK, ConflictIsHonest, LegFacts, TableAndStates,
         TombstoneFacts, Tombstoned, TerminalStates, Custody, Holding,
         FinishDelivery, Goto, CloseWith, ClosingState, DeliveryOutcomes,
         recordVars, legVars
<1>11. TableBounded'
  BY DEF IInv, TableBounded, FinishDelivery, recordVars
<1> QED BY <1>1, <1>2, <1>3, <1>4, <1>5, <1>6, <1>7, <1>8, <1>9, <1>10, <1>11
   DEF IInv

\* The registration of the next token of a resumed turn keeps the invariant.
LEMMA ChainKeeps ==
    ASSUME IInv, NEW l \in Legs, NEW t \in Tokens, Chain(l, t)
    PROVE  IInv'
<1>1. TypeOK'
  BY RegistryAssumption
     DEF IInv, TypeOK, LegFacts, Custody, Holding, PCs, Replies, TerminalStates,
         Chain, AddRecord, Goto, recordVars, legVars
<1>2. CustodyIsExclusive'
  <2>1. \A k \in Legs : Custody(k)' => Custody(k) /\ token'[k] = token[k]
    BY DEF IInv, TypeOK, Custody, Holding, Chain, AddRecord, Goto, legVars
  <2> QED BY <2>1 DEF IInv, CustodyIsExclusive
<1>3. TableAndStates'
  BY RegistryAssumption
     DEF IInv, TypeOK, TableAndStates, LegFacts, Custody, Holding,
         TerminalStates, Chain, AddRecord, Goto, recordVars, legVars
<1>4. LegFacts'
  BY RegistryAssumption
     DEF IInv, TypeOK, LegFacts, TableAndStates, CustodyIsExclusive, Custody,
         Holding, TerminalStates, Chain, AddRecord, Goto, recordVars, legVars
<1>5. TombstoneFacts'
  BY RegistryAssumption
     DEF IInv, TypeOK, TombstoneFacts, LegFacts, TableAndStates, Custody,
         Holding, TerminalStates, Chain, AddRecord, Goto, recordVars, legVars
<1>6. DeliveredAtMostOnce'
  BY RegistryAssumption
     DEF IInv, TypeOK, TableAndStates, Custody, Holding, DeliveredAtMostOnce,
         LegFacts, Chain, AddRecord, Goto, recordVars, legVars
<1>7. ResumingIsHeld'
  <2>1. \A k \in Legs : (Holding(k) /\ pc[k] # "closed")
            => (Holding(k) /\ pc[k] # "closed")' /\ token'[k] = token[k]
    BY DEF IInv, TypeOK, LegFacts, Holding, CustodyIsExclusive, Custody, Chain,
           AddRecord, Goto, legVars
  <2> QED BY <2>1
     DEF IInv, TypeOK, TableAndStates, LegFacts, ResumingIsHeld, Chain,
         AddRecord, Goto, recordVars
<1>8. CancelMatchesVerdict'
  BY RegistryAssumption
     DEF IInv, TypeOK, CancelMatchesVerdict, CancelBackend, Unsettled, LegFacts,
         TableAndStates, CustodyIsExclusive, Custody, Holding, Chain, AddRecord,
         Goto, recordVars, legVars
<1>9. ForeignSeesNotFound'
  BY RegistryAssumption
     DEF IInv, TypeOK, ForeignSeesNotFound, LegFacts, TableAndStates,
         TombstoneFacts, Tombstoned, Custody, Holding, Chain, AddRecord, Goto,
         recordVars, legVars
<1>10. ConflictIsHonest'
  BY RegistryAssumption
     DEF IInv, TypeOK, ConflictIsHonest, LegFacts, TableAndStates,
         TombstoneFacts, Tombstoned, TerminalStates, Custody, Holding, Chain,
         AddRecord, Goto, recordVars, legVars
<1>11. TableBounded'
  BY TableMayGrow DEF IInv, Chain, AddRecord
<1> QED BY <1>1, <1>2, <1>3, <1>4, <1>5, <1>6, <1>7, <1>8, <1>9, <1>10, <1>11
   DEF IInv

\* The end of a leg that suspended again keeps the invariant.
LEMMA FinishChainKeeps ==
    ASSUME IInv, NEW l \in Legs, FinishChain(l)
    PROVE  IInv'
<1>1. TypeOK'
  BY RegistryAssumption
     DEF IInv, TypeOK, PCs, Replies, TerminalStates, FinishChain, Goto,
         CloseWith, ClosingState, recordVars, legVars
<1>2. CustodyIsExclusive'
  <2>1. \A k \in Legs : Custody(k)' => Custody(k) /\ token'[k] = token[k]
    BY DEF IInv, TypeOK, Custody, Holding, FinishChain, Goto, CloseWith,
           ClosingState, legVars
  <2> QED BY <2>1 DEF IInv, CustodyIsExclusive
<1>3. TableAndStates'
  BY RegistryAssumption
     DEF IInv, TypeOK, TableAndStates, LegFacts, Custody, Holding,
         TerminalStates, FinishChain, Goto, CloseWith, ClosingState, recordVars,
         legVars
<1>4. LegFacts'
  BY RegistryAssumption
     DEF IInv, TypeOK, LegFacts, TableAndStates, CustodyIsExclusive, Custody,
         Holding, TerminalStates, FinishChain, Goto, CloseWith, ClosingState,
         recordVars, legVars
<1>5. TombstoneFacts'
  BY RegistryAssumption
     DEF IInv, TypeOK, TombstoneFacts, LegFacts, TableAndStates, Custody,
         Holding, TerminalStates, FinishChain, Goto, CloseWith, ClosingState,
         recordVars, legVars
<1>6. DeliveredAtMostOnce'
  BY RegistryAssumption
     DEF IInv, TypeOK, TableAndStates, Custody, Holding, DeliveredAtMostOnce,
         LegFacts, FinishChain, Goto, CloseWith, ClosingState, recordVars,
         legVars
<1>7. ResumingIsHeld'
  <2>1. \A k \in Legs : (Holding(k) /\ pc[k] # "closed")
            => (Holding(k) /\ pc[k] # "closed")' /\ token'[k] = token[k]
    BY DEF IInv, TypeOK, LegFacts, Holding, CustodyIsExclusive, Custody,
           FinishChain, Goto, CloseWith, ClosingState, legVars
  <2> QED BY <2>1
     DEF IInv, TypeOK, TableAndStates, LegFacts, ResumingIsHeld, FinishChain,
         Goto, CloseWith, ClosingState, recordVars
<1>8. CancelMatchesVerdict'
  <2>1. \A u \in Tokens : Unsettled(u)' <=> Unsettled(u)
    BY DEF IInv, TypeOK, LegFacts, Unsettled, FinishChain, Goto, CloseWith,
           ClosingState, legVars
  <2> QED BY <2>1
     DEF IInv, CancelMatchesVerdict, CancelBackend, FinishChain, recordVars
<1>9. ForeignSeesNotFound'
  BY RegistryAssumption
     DEF IInv, TypeOK, ForeignSeesNotFound, LegFacts, TableAndStates,
         TombstoneFacts, Tombstoned, Custody, Holding, FinishChain, Goto,
         CloseWith, ClosingState, recordVars, legVars
<1>10. ConflictIsHonest'
  BY RegistryAssumption
     DEF IInv, TypeOK, ConflictIsHonest, LegFacts, TableAndStates,
         TombstoneFacts, Tombstoned, TerminalStates, Custody, Holding,
         FinishChain, Goto, CloseWith, ClosingState, recordVars, legVars
<1>11. TableBounded'
  BY DEF IInv, TableBounded, FinishChain, recordVars
<1> QED BY <1>1, <1>2, <1>3, <1>4, <1>5, <1>6, <1>7, <1>8, <1>9, <1>10, <1>11
   DEF IInv

\* The critical section of close keeps the invariant.
LEMMA CloseRecordKeeps ==
    ASSUME IInv, NEW l \in Legs, CloseRecord(l)
    PROVE  IInv'
<1> DEFINE t == token[l]
           entry == << <<t, IF RecordFound(t) THEN owner[t] ELSE NoClient>> >>
<1>a. /\ pc[l] = "closing"
      /\ t \in Tokens
      /\ state[t] = IF t \in live THEN "resuming" ELSE "expired"
      /\ goal[l] \in TerminalStates
  BY DEF IInv, LegFacts, Holding, CloseRecord
<1>b. entry \in Seq(Entries) /\ \A j \in DOMAIN entry :
          entry[j][1] = t /\ entry[j][2] \in {owner[t], NoClient}
  BY <1>a DEF IInv, TypeOK, Entries
<1>c. tombstones' \in Seq(Entries) /\ TombstoneFacts'
  <2>1. /\ owner' = owner /\ state' = state /\ tombstones' = Push(entry)
        /\ state[t] \notin {"unborn", "waiting"}
    BY <1>a DEF CloseRecord
  <2> QED BY <1>b, <2>1, RingKeeps DEF IInv
<1>1. TypeOK'
  BY <1>a, <1>c
     DEF IInv, TypeOK, PCs, Replies, TerminalStates, Entries, CloseRecord,
         Answer, Goto
<1>2. CustodyIsExclusive'
  <2>1. \A k \in Legs : Custody(k)' => Custody(k) /\ token'[k] = token[k]
    BY DEF IInv, TypeOK, Custody, Holding, CloseRecord, Answer, Goto,
           RecordFound, legVars
  <2> QED BY <2>1 DEF IInv, CustodyIsExclusive
<1>3. TableAndStates'
  BY RegistryAssumption
     DEF IInv, TypeOK, TableAndStates, LegFacts, Custody, Holding,
         TerminalStates, CloseRecord, Answer, Goto, RecordFound, recordVars,
         legVars
<1>4. LegFacts'
  BY RegistryAssumption
     DEF IInv, TypeOK, LegFacts, TableAndStates, CustodyIsExclusive, Custody,
         Holding, TerminalStates, CloseRecord, Answer, Goto, RecordFound,
         recordVars, legVars
<1>5. TombstoneFacts'
  BY <1>c
<1>6. DeliveredAtMostOnce'
  BY RegistryAssumption
     DEF IInv, TypeOK, TableAndStates, Custody, Holding, DeliveredAtMostOnce,
         LegFacts, CloseRecord, Answer, Goto, RecordFound, recordVars, legVars
<1>7. ResumingIsHeld'
  <2>1. \A k \in Legs : (Holding(k) /\ pc[k] # "closed") /\ token[k] \in live'
            => (Holding(k) /\ pc[k] # "closed")' /\ token'[k] = token[k]
    BY DEF IInv, TypeOK, LegFacts, Holding, CustodyIsExclusive, Custody,
           CloseRecord, Answer, Goto, RecordFound, legVars
  <2> QED BY <2>1
     DEF IInv, TypeOK, TableAndStates, LegFacts, ResumingIsHeld, CloseRecord,
         Answer, Goto, RecordFound, recordVars
<1>8. CancelMatchesVerdict'
  <2>1. \A u \in Tokens : Unsettled(u)' <=> Unsettled(u) \/ (u = t /\ t \in
     live)
    BY <1>a DEF IInv, TypeOK, Unsettled, CloseRecord, RecordFound, Answer, Goto
  <2> QED BY <1>a, <2>1
     DEF IInv, CancelMatchesVerdict, CancelBackend, CloseRecord
<1>9. ForeignSeesNotFound'
  BY RegistryAssumption
     DEF IInv, TypeOK, ForeignSeesNotFound, LegFacts, TableAndStates,
         TombstoneFacts, Tombstoned, Custody, Holding, CloseRecord, Answer,
         Goto, RecordFound, recordVars, legVars
<1>10. ConflictIsHonest'
  BY RegistryAssumption
     DEF IInv, TypeOK, ConflictIsHonest, LegFacts, TableAndStates,
         TombstoneFacts, Tombstoned, TerminalStates, Custody, Holding,
         CloseRecord, Answer, Goto, RecordFound, recordVars, legVars
<1>11. TableBounded'
  BY TableMayShrink DEF IInv, CloseRecord
<1> QED BY <1>1, <1>2, <1>3, <1>4, <1>5, <1>6, <1>7, <1>8, <1>9, <1>10, <1>11
   DEF IInv

\* mark_terminal and the cancel callback of close keep the invariant.
LEMMA FinishCloseKeeps ==
    ASSUME IInv, NEW l \in Legs, FinishClose(l)
    PROVE  IInv'
<1> DEFINE t == token[l]
<1>a. /\ pc[l] = "closed"
      /\ t \in Tokens /\ t \notin live /\ t \notin reaping
      /\ state[t] = "resuming"
      /\ goal[l] \in TerminalStates
  BY DEF IInv, LegFacts, TableAndStates, Holding, FinishClose
<1>b. /\ state' = [state EXCEPT ![t] = goal[l]]
      /\ pc' = [pc EXCEPT ![l] = "idle"]
      /\ live' = live /\ reaping' = reaping /\ tombstones' = tombstones
      /\ owner' = owner /\ delivered' = delivered /\ token' = token /\ client' =
         client
      /\ goal' = goal /\ deadline' = deadline /\ now' = now
  BY DEF FinishClose, Answer
<1>1. TypeOK'
  BY RegistryAssumption
     DEF IInv, TypeOK, LegFacts, Custody, Holding, PCs, Replies, TerminalStates,
         FinishClose, Answer, CancelBackend, recordVars, legVars
<1>2. CustodyIsExclusive'
  <2>1. \A k \in Legs : Custody(k)' => Custody(k) /\ token'[k] = token[k]
    BY DEF IInv, TypeOK, Custody, Holding, FinishClose, Answer, CancelBackend,
           legVars
  <2> QED BY <2>1 DEF IInv, CustodyIsExclusive
<1>3. TableAndStates'
  BY <1>a, <1>b DEF IInv, TypeOK, TableAndStates, TerminalStates
<1>4. LegFacts'
  <2> SUFFICES ASSUME NEW k \in Legs
               PROVE LegFacts!(k)'
    BY DEF LegFacts
  <2>1. CASE k = l
    BY <1>a, <1>b, <2>1 DEF IInv, TypeOK, LegFacts, Custody, Holding
  <2>2. CASE k # l
    <3>1. Custody(k) => token[k] # t
      BY <1>a, <2>2 DEF IInv, CustodyIsExclusive, Custody, Holding
    <3>2. state'[t] # "unborn" /\ pc'[k] = pc[k] /\ reply'[k] = reply[k]
      BY <1>a, <1>b, <2>2 DEF IInv, TypeOK, TerminalStates, FinishClose, Answer
    <3> QED BY <1>a, <1>b, <2>2, <3>1, <3>2
       DEF IInv, TypeOK, LegFacts, Custody, Holding
  <2> QED BY <2>1, <2>2
<1>5. TombstoneFacts'
  <2>1. \A u \in Tokens : state[u] \notin {"unborn", "waiting"}
                           => state'[u] \notin {"unborn", "waiting"}
    BY <1>a, <1>b DEF IInv, TypeOK, TerminalStates
  <2>2. <<>> \in Seq(Entries) /\ DOMAIN <<>> = {}
    OBVIOUS
  <2> QED BY <1>b, <2>1, <2>2, RingKeeps DEF IInv
<1>6. DeliveredAtMostOnce'
  BY RegistryAssumption
     DEF IInv, TypeOK, TableAndStates, Custody, Holding, DeliveredAtMostOnce,
         LegFacts, FinishClose, Answer, CancelBackend, recordVars, legVars
<1>7. ResumingIsHeld'
  <2>1. \A k \in Legs : (Holding(k) /\ pc[k] # "closed")
            => (Holding(k) /\ pc[k] # "closed")' /\ token'[k] = token[k]
    BY DEF IInv, TypeOK, LegFacts, Holding, CustodyIsExclusive, Custody,
           FinishClose, Answer, CancelBackend, legVars
  <2> QED BY <2>1
     DEF IInv, TypeOK, TableAndStates, LegFacts, ResumingIsHeld, FinishClose,
         Answer, CancelBackend, recordVars
<1>8. CancelMatchesVerdict'
  BY RegistryAssumption
     DEF IInv, TypeOK, CancelMatchesVerdict, CancelBackend, Unsettled, LegFacts,
         TableAndStates, CustodyIsExclusive, Custody, Holding, FinishClose,
         Answer, recordVars, legVars
<1>9. ForeignSeesNotFound'
  BY RegistryAssumption
     DEF IInv, TypeOK, ForeignSeesNotFound, LegFacts, TableAndStates,
         TombstoneFacts, Tombstoned, Custody, Holding, FinishClose, Answer,
         CancelBackend, recordVars, legVars
<1>10. ConflictIsHonest'
  BY RegistryAssumption
     DEF IInv, TypeOK, ConflictIsHonest, LegFacts, TableAndStates,
         TombstoneFacts, Tombstoned, TerminalStates, Custody, Holding,
         FinishClose, Answer, CancelBackend, recordVars, legVars
<1>11. TableBounded'
  BY DEF IInv, TableBounded, FinishClose, recordVars
<1> QED BY <1>1, <1>2, <1>3, <1>4, <1>5, <1>6, <1>7, <1>8, <1>9, <1>10, <1>11
   DEF IInv

\* The sweep of expire_due keeps the invariant.
LEMMA ExpireDueKeeps ==
    ASSUME IInv, ExpireDue
    PROVE  IInv'
<1>a. PICK order \in SetToSeqs(TombstonedDue) :
        tombstones' = Push([i \in DOMAIN order |-> <<order[i],
           owner[order[i]]>>])
  BY DEF ExpireDue
<1> DEFINE entries == [i \in DOMAIN order |-> <<order[i], owner[order[i]]>>]
<1>b. TombstonedDue \subseteq {u \in live : state[u] = "resuming"} /\ live
   \subseteq Tokens
  BY DEF IInv, TypeOK, TombstonedDue, DueRecords, TableAndStates
<1>c. entries \in Seq(Entries) /\ \A j \in DOMAIN entries :
          /\ entries[j][1] \in TombstonedDue
          /\ entries[j][2] = owner[entries[j][1]]
  <2>1. IsFiniteSet(TombstonedDue)
    BY <1>b, FS_Subset DEF IInv, TableBounded
  <2>2. Cardinality(TombstonedDue) \in Nat
    BY <2>1, FS_CardinalityType
  <2>3. order \in [1..Cardinality(TombstonedDue) -> TombstonedDue]
    BY <1>a DEF SetToSeqs
  <2>4. entries \in [1..Cardinality(TombstonedDue) -> Entries]
    BY <1>b, <2>3 DEF IInv, TypeOK, Entries
  <2>5. entries \in Seq(Entries)
    BY <2>2, <2>4, IsASeq
  <2> QED BY <2>3, <2>5
<1>d. \A u \in Tokens : state'[u] = IF u \in DueRecords THEN "expired" ELSE
   state[u]
  BY DEF IInv, TypeOK, ExpireDue
<1>e. tombstones' \in Seq(Entries) /\ TombstoneFacts'
  <2>1. owner' = owner
    BY DEF ExpireDue
  <2> HIDE DEF entries
  <2>2. tombstones' = Push(entries)
    BY <1>a DEF entries
  <2> QED BY <1>b, <1>c, <1>d, <2>1, <2>2, RingKeeps DEF IInv
<1>1. TypeOK'
  BY <1>e
     DEF IInv, TypeOK, TerminalStates, Entries, DueRecords, ExpireDue, legVars
<1>2. CustodyIsExclusive'
  BY RegistryAssumption
     DEF IInv, TypeOK, CustodyIsExclusive, LegFacts, TableAndStates, Custody,
         Holding, ExpireDue, DueRecords, TombstonedDue, recordVars, legVars
<1>3. TableAndStates'
  BY RegistryAssumption
     DEF IInv, TypeOK, TableAndStates, LegFacts, Custody, Holding,
         TerminalStates, ExpireDue, DueRecords, TombstonedDue, recordVars,
         legVars
<1>4. LegFacts'
  BY <1>d
     DEF IInv, TypeOK, LegFacts, TableAndStates, Custody, Holding, DueRecords,
         ExpireDue, legVars
<1>5. TombstoneFacts'
  BY <1>e
<1>6. DeliveredAtMostOnce'
  BY RegistryAssumption
     DEF IInv, TypeOK, TableAndStates, Custody, Holding, DeliveredAtMostOnce,
         LegFacts, ExpireDue, DueRecords, TombstonedDue, recordVars, legVars
<1>7. ResumingIsHeld'
  BY RegistryAssumption
     DEF IInv, TypeOK, ResumingIsHeld, LegFacts, CustodyIsExclusive, Custody,
         Holding, TableAndStates, ExpireDue, DueRecords, TombstonedDue,
         recordVars, legVars
<1>8. CancelMatchesVerdict'
  BY RegistryAssumption
     DEF IInv, TypeOK, CancelMatchesVerdict, CancelBackend, Unsettled, LegFacts,
         TableAndStates, CustodyIsExclusive, Custody, Holding, ExpireDue,
         DueRecords, TombstonedDue, recordVars, legVars
<1>9. ForeignSeesNotFound'
  BY RegistryAssumption
     DEF IInv, TypeOK, ForeignSeesNotFound, LegFacts, TableAndStates,
         TombstoneFacts, Tombstoned, Custody, Holding, ExpireDue, DueRecords,
         TombstonedDue, recordVars, legVars
<1>10. ConflictIsHonest'
  BY RegistryAssumption
     DEF IInv, TypeOK, ConflictIsHonest, LegFacts, TableAndStates,
         TombstoneFacts, Tombstoned, TerminalStates, Custody, Holding,
         ExpireDue, DueRecords, TombstonedDue, recordVars, legVars
<1>11. TableBounded'
  BY TableMayShrink DEF IInv, ExpireDue
<1> QED BY <1>1, <1>2, <1>3, <1>4, <1>5, <1>6, <1>7, <1>8, <1>9, <1>10, <1>11
   DEF IInv

\* A cancel callback of the sweep keeps the invariant.
LEMMA CancelDueKeeps ==
    ASSUME IInv, NEW t \in Tokens, CancelDue(t)
    PROVE  IInv'
<1>1. TypeOK'
  BY RegistryAssumption
     DEF IInv, TypeOK, LegFacts, Custody, Holding, PCs, Replies, TerminalStates,
         CancelDue, recordVars, legVars
<1>2. CustodyIsExclusive'
  BY RegistryAssumption
     DEF IInv, TypeOK, CustodyIsExclusive, LegFacts, TableAndStates, Custody,
         Holding, CancelDue, recordVars, legVars
<1>3. TableAndStates'
  BY RegistryAssumption
     DEF IInv, TypeOK, TableAndStates, LegFacts, Custody, Holding,
         TerminalStates, CancelDue, recordVars, legVars
<1>4. LegFacts'
  BY RegistryAssumption
     DEF IInv, TypeOK, LegFacts, TableAndStates, CustodyIsExclusive, Custody,
         Holding, TerminalStates, CancelDue, recordVars, legVars
<1>5. TombstoneFacts'
  BY RegistryAssumption
     DEF IInv, TypeOK, TombstoneFacts, LegFacts, TableAndStates, Custody,
         Holding, TerminalStates, CancelDue, recordVars, legVars
<1>6. DeliveredAtMostOnce'
  BY RegistryAssumption
     DEF IInv, TypeOK, TableAndStates, Custody, Holding, DeliveredAtMostOnce,
         LegFacts, CancelDue, recordVars, legVars
<1>7. ResumingIsHeld'
  BY RegistryAssumption
     DEF IInv, TypeOK, ResumingIsHeld, LegFacts, CustodyIsExclusive, Custody,
         Holding, TableAndStates, CancelDue, recordVars, legVars
<1>8. CancelMatchesVerdict'
  BY RegistryAssumption
     DEF IInv, TypeOK, CancelMatchesVerdict, CancelBackend, Unsettled, LegFacts,
         TableAndStates, CustodyIsExclusive, Custody, Holding, CancelDue,
         recordVars, legVars
<1>9. ForeignSeesNotFound'
  BY RegistryAssumption
     DEF IInv, TypeOK, ForeignSeesNotFound, LegFacts, TableAndStates,
         TombstoneFacts, Tombstoned, Custody, Holding, CancelDue, recordVars,
         legVars
<1>10. ConflictIsHonest'
  BY RegistryAssumption
     DEF IInv, TypeOK, ConflictIsHonest, LegFacts, TableAndStates,
         TombstoneFacts, Tombstoned, TerminalStates, Custody, Holding,
         CancelDue, recordVars, legVars
<1>11. TableBounded'
  BY DEF IInv, TableBounded, CancelDue, recordVars
<1> QED BY <1>1, <1>2, <1>3, <1>4, <1>5, <1>6, <1>7, <1>8, <1>9, <1>10, <1>11
   DEF IInv

\* The initial state satisfies the invariant.
LEMMA InitEstablishes ==
    ASSUME Init
    PROVE  IInv
<1>1. IsFiniteSet({}) /\ Cardinality({}) = 0
  BY FS_EmptySet
<1>2. TypeOK
  BY RegistryAssumption DEF Init, TypeOK, PCs, Replies
<1>3. TableBounded
  BY <1>1, RegistryAssumption DEF Init, TableBounded
<1>4. /\ CustodyIsExclusive /\ TableAndStates /\ LegFacts /\ TombstoneFacts
  BY DEF Init, CustodyIsExclusive, TableAndStates, LegFacts, TombstoneFacts,
         Custody, Holding
<1>5. /\ DeliveredAtMostOnce /\ ResumingIsHeld /\ ForeignSeesNotFound /\ ConflictIsHonest
  BY DEF Init, DeliveredAtMostOnce, ResumingIsHeld, ForeignSeesNotFound, ConflictIsHonest
<1>6. CancelMatchesVerdict
  BY DEF Init, CancelMatchesVerdict, CancelBackend
<1> QED BY <1>2, <1>3, <1>4, <1>5, <1>6 DEF IInv

\* Every step of the registry, its request threads and its reaper keeps it.
LEMMA NextKeeps ==
    ASSUME IInv, [Next]_vars
    PROVE  IInv'
<1>1. CASE UNCHANGED vars
  BY <1>1 DEF IInv, vars, recordVars, legVars, TypeOK, CustodyIsExclusive, TableAndStates,
              LegFacts, TombstoneFacts, DeliveredAtMostOnce, ResumingIsHeld,
              CancelMatchesVerdict, ForeignSeesNotFound, ConflictIsHonest, TableBounded,
              Custody, Holding, Unsettled
<1>2. CASE Tick
  BY <1>2, TickKeeps
<1>3. CASE \E t \in Tokens, c \in Clients, d \in 1..MaxTime : Register(t, c, d)
  BY <1>3, RegisterKeeps
<1>4. CASE \E l \in Legs, t \in Tokens, c \in Clients : Detect(l, t, c)
  BY <1>4, DetectKeeps
<1>5. CASE \E l \in Legs : LegStep(l)
  <2>1. PICK l \in Legs : LegStep(l)
    BY <1>5
  <2> QED BY <2>1, CheckTerminalKeeps, ValidateKeeps, ClaimKeeps, CancelLateKeeps,
             CheckLifetimeKeeps, RecheckAndDeliverKeeps, FinishDeliveryKeeps, ChainKeeps,
             FinishChainKeeps, CloseRecordKeeps, FinishCloseKeeps DEF LegStep
<1>6. CASE Reap
  BY <1>6, ExpireDueKeeps, CancelDueKeeps DEF Reap
<1> QED BY <1>1, <1>2, <1>3, <1>4, <1>5, <1>6 DEF Next

\* IInv holds in every reachable state of the registry.
THEOREM Invariance == Spec => []IInv
<1>1. Init => IInv
  BY InitEstablishes
<1>2. IInv /\ [Next]_vars => IInv'
  BY NextKeeps
<1> QED BY <1>1, <1>2, PTL DEF Spec

\* Every variable keeps its type.
THEOREM TypeCorrect == Spec => []TypeOK
<1>1. IInv => TypeOK
  BY DEF IInv
<1> QED BY <1>1, Invariance, PTL

\* Exactly-once resumption: however claims, duplicates, expiry and closes
\* interleave, a token's tool result is delivered to the backend at most once.
THEOREM ExactlyOnceDelivery == Spec => []DeliveredAtMostOnce
<1>1. IInv => DeliveredAtMostOnce
  BY DEF IInv
<1> QED BY <1>1, Invariance, PTL

\* A claimed record is always on its way to a close.
THEOREM NoOrphanedClaim == Spec => []ResumingIsHeld
<1>1. IInv => ResumingIsHeld
  BY DEF IInv
<1> QED BY <1>1, Invariance, PTL

\* The backend turn is cancelled exactly once when its continuation ends expired
\* or cancelled, and never otherwise.
THEOREM CancelledExactlyWhenDue == Spec => []CancelMatchesVerdict
<1>1. IInv => CancelMatchesVerdict
  BY DEF IInv
<1> QED BY <1>1, Invariance, PTL

\* A token reveals nothing to a client that does not own it.
THEOREM ForeignClientIsBlind == Spec => []ForeignSeesNotFound
<1>1. IInv => ForeignSeesNotFound
  BY DEF IInv
<1> QED BY <1>1, Invariance, PTL

\* The conflict answer is only given for a claimed or ended continuation.
THEOREM ConflictAnswerIsHonest == Spec => []ConflictIsHonest
<1>1. IInv => ConflictIsHonest
  BY DEF IInv
<1> QED BY <1>1, Invariance, PTL

\* What a client is told of a continuation is true, and nothing if it is another's.
THEOREM AnswersStayHonest == Spec => []AnswersAreHonest
<1>1. IInv => AnswersAreHonest
  BY DEF IInv, AnswersAreHonest
<1> QED BY <1>1, Invariance, PTL

\* The pending table stays within MaxPending.
THEOREM PendingTableBounded == Spec => []TableBounded
<1>1. IInv => TableBounded
  BY DEF IInv
<1> QED BY <1>1, Invariance, PTL

\* What TerminalIsFinal says of one step.
EndedStaysEnded ==
    \A t \in Tokens :
        /\ state[t] \in TerminalStates => state'[t] = state[t]
        /\ state[t] # "unborn" /\ t \notin live => t \notin live'

\* No step revives an ended continuation or changes how it ended.
LEMMA StepKeepsEnded ==
    ASSUME IInv, Next
    PROVE  EndedStaysEnded
<1>1. CASE Tick
  BY <1>1 DEF Tick, recordVars, EndedStaysEnded
<1>2. ASSUME NEW t \in Tokens, NEW c \in Clients, NEW d, AddRecord(t, c, d)
      PROVE  EndedStaysEnded
  BY <1>2 DEF IInv, TypeOK, AddRecord, EndedStaysEnded, TerminalStates
<1>3. CASE \E t \in Tokens, c \in Clients, d \in 1..MaxTime : Register(t, c, d)
  BY <1>2, <1>3 DEF Register
<1>4. CASE \E l \in Legs, t \in Tokens, c \in Clients : Detect(l, t, c)
  BY <1>4 DEF Detect, recordVars, EndedStaysEnded
<1>5. CASE \E l \in Legs : LegStep(l)
  <2>1. PICK l \in Legs : LegStep(l)
    BY <1>5
  <2>2. CASE Claim(l)
    BY <2>2 DEF IInv, TypeOK, LegFacts, Claim, ClaimTransition, EndedStaysEnded, TerminalStates
  <2>3. CASE \E t \in Tokens : Chain(l, t)
    <3>1. client[l] \in Clients
      BY <2>3 DEF IInv, LegFacts, Chain
    <3> QED BY <1>2, <2>3, <3>1 DEF Chain
  <2>4. CASE CloseRecord(l)
    BY <2>4 DEF CloseRecord, EndedStaysEnded
  <2>5. CASE FinishClose(l)
    <3>1. state[token[l]] = "resuming"
      BY <2>5 DEF IInv, LegFacts, Holding, FinishClose
    <3> QED BY <2>5, <3>1 DEF IInv, TypeOK, FinishClose, EndedStaysEnded, TerminalStates
  <2>6. CASE CheckTerminal(l) \/ Validate(l) \/ CancelLate(l) \/ CheckLifetime(l)
             \/ RecheckAndDeliver(l) \/ FinishChain(l)
             \/ \E o \in DeliveryOutcomes : FinishDelivery(l, o)
    <3>1. UNCHANGED recordVars
      BY <2>6 DEF CheckTerminal, Validate, CancelLate, CheckLifetime, RecheckAndDeliver,
                  FinishChain, FinishDelivery
    <3> QED BY <3>1 DEF recordVars, EndedStaysEnded
  <2> QED BY <2>1, <2>2, <2>3, <2>4, <2>5, <2>6 DEF LegStep
<1>6. CASE ExpireDue
  BY <1>6 DEF IInv, TypeOK, TableAndStates, ExpireDue, DueRecords, EndedStaysEnded,
              TerminalStates
<1>7. CASE \E t \in Tokens : CancelDue(t)
  BY <1>7 DEF CancelDue, recordVars, EndedStaysEnded
<1> QED BY <1>1, <1>3, <1>4, <1>5, <1>6, <1>7 DEF Next, Reap

\* A terminal state is final and an ended continuation never returns to the table.
THEOREM EndedContinuationsStayEnded == Spec => TerminalIsFinal
<1>1. IInv /\ [Next]_vars => [EndedStaysEnded]_vars
  BY StepKeepsEnded
<1>2. Spec => [][EndedStaysEnded]_vars
  BY <1>1, Invariance, PTL DEF Spec
<1> QED BY <1>2 DEF TerminalIsFinal, EndedStaysEnded
=============================================================================
