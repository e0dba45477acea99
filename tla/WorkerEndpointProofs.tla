------------------------ MODULE WorkerEndpointProofs ------------------------
(***************************************************************************)
(* Proofs about WorkerEndpoint, for any numbers of sessions, workers,      *)
(* resources and attempts. The inductive invariant IInv ties the stage of  *)
(* a dispatch thread to what its session tracks, the phase of a read loop  *)
(* to the identity it published, and a revocation to the sessions it found.*)
(***************************************************************************)
EXTENDS WorkerEndpoint, SequenceTheorems, TLAPS

-----------------------------------------------------------------------------
(* Rows of the session table                                               *)

\* Removing a row leaves a table of sessions, and every other row in it.
LEMMA WithoutKeepsOthers ==
    ASSUME NEW seq \in Seq(Sessions), NEW s \in Sessions
    PROVE  /\ Without(seq, s) \in Seq(Sessions)
           /\ \A u \in Sessions : u # s /\ (\E i \in DOMAIN seq : seq[i] = u)
                 => \E i \in DOMAIN Without(seq, s) : Without(seq, s)[i] = u
<1>1. CASE ~ \E i \in DOMAIN seq : seq[i] = s
  BY <1>1 DEF Without
<1>2. CASE \E i \in DOMAIN seq : seq[i] = s
  <2> DEFINE k == CHOOSE i \in DOMAIN seq : seq[i] = s
             front == SubSeq(seq, 1, k - 1)
             back == SubSeq(seq, k + 1, Len(seq))
  <2>1. k \in 1 .. Len(seq) /\ seq[k] = s
    BY <1>2
  <2>2. Without(seq, s) = front \o back
    BY <1>2 DEF Without, RemoveAt
  <2> HIDE DEF k
  <2>3. /\ front \in Seq(Sessions)
        /\ Len(front) = k - 1
        /\ \A i \in 1 .. k - 1 : front[i] = seq[i]
    BY <2>1, SubSeqProperties
  <2>4. /\ back \in Seq(Sessions)
        /\ Len(back) = Len(seq) - k
        /\ \A i \in 1 .. Len(seq) - k : back[i] = seq[k + i]
    BY <2>1, SubSeqProperties
  <2> HIDE DEF front, back
  <2>5. /\ front \o back \in Seq(Sessions)
        /\ Len(front \o back) = Len(seq) - 1
        /\ \A i \in 1 .. Len(seq) - 1 :
              (front \o back)[i] = IF i <= k - 1 THEN front[i] ELSE back[i - (k - 1)]
    <3>1. /\ front \o back \in Seq(Sessions)
          /\ Len(front \o back) = Len(front) + Len(back)
          /\ \A i \in 1 .. Len(front) + Len(back) :
                (front \o back)[i] = IF i <= Len(front) THEN front[i] ELSE back[i - Len(front)]
      BY <2>3, <2>4, ConcatProperties
    <3>2. Len(front) + Len(back) = Len(seq) - 1
      BY <2>1, <2>3, <2>4
    <3> QED BY <2>3, <3>1, <3>2
  <2>6. ASSUME NEW u \in Sessions, u # s, NEW i \in DOMAIN seq, seq[i] = u
        PROVE  \E j \in DOMAIN (front \o back) : (front \o back)[j] = u
    <3>1. i \in 1 .. Len(seq) /\ i # k
      BY <2>1, <2>6
    <3>2. DOMAIN (front \o back) = 1 .. Len(seq) - 1
      BY <2>5
    <3>3. CASE i < k
      <4>1. i \in 1 .. k - 1 /\ i \in 1 .. Len(seq) - 1 /\ i <= k - 1
        BY <2>1, <3>1, <3>3
      <4>2. (front \o back)[i] = u
        BY <2>3, <2>5, <2>6, <4>1
      <4> QED BY <3>2, <4>1, <4>2
    <3>4. CASE i > k
      <4>1. i - 1 \in 1 .. Len(seq) - 1 /\ ~ (i - 1 <= k - 1) /\ (i - 1) - (k - 1) = i - k
        BY <2>1, <3>1, <3>4
      <4>2. back[i - k] = seq[i]
        <5>1. i - k \in 1 .. Len(seq) - k /\ k + (i - k) = i
          BY <2>1, <3>1, <3>4
        <5> QED BY <2>4, <5>1
      <4>3. (front \o back)[i - 1] = u
        BY <2>5, <2>6, <4>1, <4>2
      <4> QED BY <3>2, <4>1, <4>3
    <3> QED BY <2>1, <3>1, <3>3, <3>4
  <2> QED BY <2>2, <2>5, <2>6
<1> QED BY <1>1, <1>2

\* Appending a row keeps the rows that are there.
LEMMA AppendKeepsRows ==
    ASSUME NEW seq \in Seq(Sessions), NEW s \in Sessions
    PROVE  /\ Append(seq, s) \in Seq(Sessions)
           /\ \A u \in Sessions : (\E i \in DOMAIN seq : seq[i] = u)
                 => \E i \in DOMAIN Append(seq, s) : Append(seq, s)[i] = u
<1>1. /\ Append(seq, s) \in Seq(Sessions)
      /\ Len(Append(seq, s)) = Len(seq) + 1
      /\ \A i \in 1 .. Len(seq) : Append(seq, s)[i] = seq[i]
  BY AppendProperties
<1>2. DOMAIN seq \subseteq DOMAIN Append(seq, s)
  BY <1>1
<1> QED BY <1>1, <1>2

-----------------------------------------------------------------------------
(* WorkerSession.close                                                     *)

\* What closing a session does to the table, the trackers and the outcomes: the
\* same whether this thread or another one closed it first.
CloseEffect(s) ==
    /\ closed' \in [Sessions -> BOOLEAN]
    /\ closed'[s]
    /\ \A u \in Sessions : closed[u] => closed'[u]
    /\ table' \in Seq(Sessions)
    /\ \A u \in Sessions : InTable(u) /\ ~closed'[u] => InTable(u)'
    /\ pending' = [pending EXCEPT ![s] = {}]
    /\ \A u \in Sessions : u # s => closed'[u] = closed[u]

\* close() gives up exactly the session's own row.
LEMMA ReleaseRowEffect ==
    ASSUME TypeOK, TrackedOnTarget, NEW s \in Sessions, ReleaseRow(s)
    PROVE  CloseEffect(s)
<1>1. CASE closed[s]
  <2>1. pending[s] = {}
    BY <1>1 DEF TypeOK, TrackedOnTarget
  <2>2. pending = [pending EXCEPT ![s] = {}]
    BY <2>1 DEF TypeOK
  <2>3. UNCHANGED <<closed, table, pending>>
    BY <1>1 DEF ReleaseRow
  <2> QED BY <1>1, <2>2, <2>3 DEF CloseEffect, TypeOK, InTable
<1>2. CASE ~closed[s]
  <2>1. /\ closed' = [closed EXCEPT ![s] = TRUE]
        /\ table' = Without(table, s)
        /\ pending' = [pending EXCEPT ![s] = {}]
    BY <1>2 DEF ReleaseRow
  <2>2. /\ table' \in Seq(Sessions)
        /\ \A u \in Sessions : u # s /\ InTable(u) => InTable(u)'
    BY <2>1, WithoutKeepsOthers DEF TypeOK, InTable
  <2>3. closed' \in [Sessions -> BOOLEAN] /\ closed'[s]
    BY <2>1 DEF TypeOK
  <2>4. \A u \in Sessions : (closed[u] => closed'[u]) /\ (u # s => closed'[u] = closed[u])
    BY <2>1 DEF TypeOK
  <2> QED BY <2>1, <2>2, <2>3, <2>4 DEF CloseEffect
<1> QED BY <1>1, <1>2

\* Whoever closes first: an attempt is interrupted iff the session still tracks
\* it and it has no outcome.
LEMMA CloseSessionEffect ==
    ASSUME TypeOK, TrackedOnTarget, NEW s \in Sessions, CloseSession(s)
    PROVE  /\ CloseEffect(s)
           /\ outcome' = [a \in Attempts |->
                 IF Interrupted(s, a) THEN "interrupted" ELSE outcome[a]]
<1>1. closed[s] => pending[s] = {}
  BY DEF TypeOK, TrackedOnTarget
<1>2. \A a \in Attempts : Interrupted(s, a) => ~closed[s]
  BY <1>1 DEF Interrupted
<1> QED BY <1>2, ReleaseRowEffect DEF CloseSession

\* A close preserves what is known of the trackers and of the attempts.
LEMMA CloseKeepsAttempts ==
    ASSUME IInv, NEW s \in Sessions, CloseSession(s), UNCHANGED <<stage, target, received>>
    PROVE  /\ CloseEffect(s)
           /\ outcome' \in [Attempts -> {"none", "completed", "failed"} \cup Definitive
                                           \cup Uncertain]
           /\ pending' \in [Sessions -> SUBSET Attempts]
           /\ TrackedOnTarget'
           /\ \A a \in Attempts : AttemptFacts(a)'
<1>1. /\ CloseEffect(s)
      /\ outcome' = [a \in Attempts |-> IF Interrupted(s, a) THEN "interrupted" ELSE outcome[a]]
  BY CloseSessionEffect DEF IInv
<1>2. outcome' \in [Attempts -> {"none", "completed", "failed"} \cup Definitive \cup Uncertain]
  BY <1>1 DEF IInv, TypeOK, Uncertain
<1>3. pending' \in [Sessions -> SUBSET Attempts]
  BY <1>1 DEF IInv, TypeOK, CloseEffect
<1>4. TrackedOnTarget'
  BY <1>1, <1>3 DEF IInv, TypeOK, TrackedOnTarget, CloseEffect
<1>5. ASSUME NEW a \in Attempts PROVE AttemptFacts(a)'
  <2>1. AttemptFacts(a)
    BY DEF IInv
  <2>2. outcome'[a] = IF a \in pending[s] /\ outcome[a] = "none" THEN "interrupted" ELSE outcome[a]
    BY <1>1 DEF Interrupted
  <2>3. a \in pending[s] => stage[a] \in {"tracked", "sent"}
    BY DEF IInv, TrackedOnTarget
  <2>4. ASSUME stage[a] \in {"tracked", "sent"}, outcome'[a] = "none"
        PROVE  a \in pending'[target[a]]
    <3>1. a \in pending[target[a]] /\ target[a] \in Sessions
      BY <2>1, <2>2, <2>4 DEF AttemptFacts
    <3>2. target[a] # s
      BY <2>2, <2>4, <3>1
    <3> QED BY <1>1, <3>1, <3>2 DEF CloseEffect, IInv, TypeOK
  <2> QED BY <2>1, <2>2, <2>3, <2>4 DEF AttemptFacts, Definitive
<1> QED BY <1>1, <1>2, <1>3, <1>4, <1>5

-----------------------------------------------------------------------------
(* The inductive invariant                                                 *)

\* A step that only closes sessions keeps the facts about revocation.
LEMMA CloseKeepsRevocation ==
    ASSUME IInv, NEW s \in Sessions, CloseEffect(s),
           UNCHANGED <<identity, worker, revoking, condemned, barred>>
    PROVE  RevocationFacts'
BY DEF IInv, TypeOK, RevocationFacts, CloseEffect

\* An attempt keeps its facts when its own row of every variable is untouched.
LEMMA AttemptsUntouched ==
    ASSUME IInv, UNCHANGED <<pending, stage, target, outcome, received, closed>>
    PROVE  TrackedOnTarget' /\ \A a \in Attempts : AttemptFacts(a)'
BY DEF IInv, TrackedOnTarget, AttemptFacts

\* A step that leaves the handshake's variables alone keeps its facts.
LEMMA HandshakesUntouched ==
    ASSUME IInv, UNCHANGED <<phase, peer, worker>>
    PROVE  \A s \in Sessions : HandshakeFacts(s)'
BY DEF IInv, HandshakeFacts

\* A step that leaves the revocation's variables alone keeps its facts.
LEMMA RevocationUntouched ==
    ASSUME IInv, UNCHANGED <<identity, worker, revoking, condemned, barred, closed, table>>
    PROVE  RevocationFacts'
BY DEF IInv, RevocationFacts, InTable

\* Ending the read loop of a session keeps the facts about handshakes.
LEMMA EndingKeepsHandshakes ==
    ASSUME IInv, NEW s \in Sessions, phase' = [phase EXCEPT ![s] = "ended"],
           UNCHANGED <<peer, worker>>
    PROVE  \A u \in Sessions : HandshakeFacts(u)'
BY DEF IInv, TypeOK, HandshakeFacts

\* An endpoint without connections satisfies the invariant.
LEMMA InitEstablishes == Init => IInv
<1> SUFFICES ASSUME Init PROVE IInv
  OBVIOUS
<1>1. TypeOK
  <2>1. identity \in [Workers -> {"none", "active", "revoked"}]
    BY DEF Init
  <2>2. table \in Seq(Sessions)
    BY DEF Init
  <2> QED BY <2>1, <2>2 DEF Init, TypeOK, Phases
<1>2. TrackedOnTarget
  BY DEF Init, TrackedOnTarget
<1>3. \A a \in Attempts : AttemptFacts(a)
  BY DEF Init, AttemptFacts, Definitive
<1>4. \A s \in Sessions : HandshakeFacts(s)
  BY DEF Init, HandshakeFacts
<1>5. RevocationFacts
  BY DEF Init, RevocationFacts
<1> QED BY <1>1, <1>2, <1>3, <1>4, <1>5 DEF IInv

\* Accepting a connection adds a row.
LEMMA AcceptKeeps ==
    ASSUME IInv, NEW s \in Sessions, Accept(s)
    PROVE  IInv'
<1>1. TypeOK'
  BY AppendKeepsRows DEF IInv, TypeOK, Accept, adminVars, monitorVars, dispatchVars, Phases
<1>2. TrackedOnTarget' /\ \A b \in Attempts : AttemptFacts(b)'
  BY AttemptsUntouched DEF Accept, dispatchVars
<1>3. \A u \in Sessions : HandshakeFacts(u)'
  BY DEF IInv, TypeOK, HandshakeFacts, Accept
<1>4. RevocationFacts'
  <2>1. \A u \in Sessions : InTable(u) => InTable(u)'
    BY AppendKeepsRows DEF IInv, TypeOK, Accept, InTable
  <2> QED BY <2>1 DEF IInv, TypeOK, RevocationFacts, Accept, adminVars, monitorVars
<1> QED BY <1>1, <1>2, <1>3, <1>4 DEF IInv

\* The first frame of a connection.
LEMMA ReadHandshakeKeeps ==
    ASSUME IInv, NEW s \in Sessions, NEW w \in Workers, ReadHandshake(s, w)
    PROVE  IInv'
<1>1. TypeOK'
  BY DEF IInv, TypeOK, ReadHandshake, adminVars, monitorVars, dispatchVars, Phases
<1>2. TrackedOnTarget' /\ \A b \in Attempts : AttemptFacts(b)'
  BY AttemptsUntouched DEF ReadHandshake, dispatchVars
<1>3. \A u \in Sessions : HandshakeFacts(u)'
  BY EndpointAssumption DEF IInv, TypeOK, HandshakeFacts, ReadHandshake
<1>4. RevocationFacts'
  BY RevocationUntouched DEF ReadHandshake, adminVars, monitorVars
<1> QED BY <1>1, <1>2, <1>3, <1>4 DEF IInv

\* A read loop that closes its session and ends.
LEMMA ClosingLoopKeeps ==
    ASSUME IInv, NEW s \in Sessions, CloseSession(s),
           phase' = [phase EXCEPT ![s] = "ended"], silent' \in [Sessions -> BOOLEAN],
           UNCHANGED <<adminVars, observed, peer, worker, monitorVars, stage, target, received>>
    PROVE  IInv'
<1>0. /\ CloseEffect(s)
      /\ outcome' \in [Attempts -> {"none", "completed", "failed"} \cup Definitive \cup Uncertain]
      /\ pending' \in [Sessions -> SUBSET Attempts]
      /\ TrackedOnTarget'
      /\ \A b \in Attempts : AttemptFacts(b)'
  BY CloseKeepsAttempts
<1>1. TypeOK'
  BY <1>0 DEF IInv, TypeOK, CloseEffect, adminVars, monitorVars, Phases
<1>2. \A u \in Sessions : HandshakeFacts(u)'
  BY EndingKeepsHandshakes
<1>3. RevocationFacts'
  BY <1>0, CloseKeepsRevocation DEF adminVars, monitorVars
<1> QED BY <1>0, <1>1, <1>2, <1>3 DEF IInv

\* Redeeming a code makes an identity that had none active, or ends the loop.
LEMMA RedeemKeeps ==
    ASSUME IInv, NEW s \in Sessions, Redeem(s)
    PROVE  IInv'
<1>1. CASE identity[peer[s]] = "none"
  <2>0. /\ identity' = [identity EXCEPT ![peer[s]] = "active"]
        /\ phase' = [phase EXCEPT ![s] = "verified"]
        /\ phase[s] = "pairing"
        /\ UNCHANGED <<owner, observed, table, peer, worker, closed, silent, pending,
                       reaping, revoking, condemned, barred, stage, target, outcome, received>>
    BY <1>1 DEF Redeem, monitorVars
  <2>1. TypeOK'
    BY <2>0 DEF IInv, TypeOK, Phases
  <2>2. TrackedOnTarget' /\ \A b \in Attempts : AttemptFacts(b)'
    BY <2>0, AttemptsUntouched
  <2>3. \A u \in Sessions : HandshakeFacts(u)'
    BY <2>0 DEF IInv, TypeOK, HandshakeFacts
  <2>4. \A w \in Workers : identity[w] = "revoked" => identity'[w] = "revoked"
    BY <1>1, <2>0 DEF IInv, TypeOK
  <2>5. RevocationFacts'
    BY <2>0, <2>4 DEF IInv, RevocationFacts, InTable
  <2> QED BY <2>1, <2>2, <2>3, <2>5 DEF IInv
<1>2. CASE identity[peer[s]] # "none"
  BY <1>2, ClosingLoopKeeps DEF Redeem, adminVars, IInv, TypeOK
<1> QED BY <1>1, <1>2

\* The credential check lets the loop go on or ends it.
LEMMA VerifyKeeps ==
    ASSUME IInv, NEW s \in Sessions, Verify(s)
    PROVE  IInv'
<1>1. CASE identity[peer[s]] = "active"
  <2>0. /\ phase' = [phase EXCEPT ![s] = "verified"]
        /\ phase[s] = "hello"
        /\ UNCHANGED <<identity, owner, observed, table, peer, worker, closed, silent, pending,
                       reaping, revoking, condemned, barred, stage, target, outcome, received>>
    BY <1>1 DEF Verify, adminVars, monitorVars
  <2>1. TypeOK'
    BY <2>0 DEF IInv, TypeOK, Phases
  <2>2. TrackedOnTarget' /\ \A b \in Attempts : AttemptFacts(b)'
    BY <2>0, AttemptsUntouched
  <2>3. \A u \in Sessions : HandshakeFacts(u)'
    BY <2>0 DEF IInv, TypeOK, HandshakeFacts
  <2>4. RevocationFacts'
    BY <2>0, RevocationUntouched
  <2> QED BY <2>1, <2>2, <2>3, <2>4 DEF IInv
<1>2. CASE identity[peer[s]] # "active"
  BY <1>2, ClosingLoopKeeps DEF Verify, IInv, TypeOK
<1> QED BY <1>1, <1>2

\* Publication names a session that had no worker, so no revocation knew it.
LEMMA PublishKeeps ==
    ASSUME IInv, NEW s \in Sessions, Publish(s)
    PROVE  IInv'
<1>1. /\ table' \in Seq(Sessions)
      /\ \A u \in Sessions : InTable(u) => InTable(u)'
  BY AppendKeepsRows DEF IInv, TypeOK, Publish, InTable
<1>2. worker[s] = NoWorker /\ peer[s] \in Workers
  BY DEF IInv, TypeOK, HandshakeFacts, Publish
<1>3. TypeOK'
  BY <1>1, <1>2 DEF IInv, TypeOK, Publish, adminVars, monitorVars, dispatchVars, Phases
<1>4. TrackedOnTarget' /\ \A b \in Attempts : AttemptFacts(b)'
  BY AttemptsUntouched DEF Publish, dispatchVars
<1>5. \A u \in Sessions : HandshakeFacts(u)'
  BY <1>2, EndpointAssumption DEF IInv, TypeOK, HandshakeFacts, Publish
<1>6. \A u \in Sessions : worker[u] \in Workers => worker'[u] = worker[u]
  BY <1>2, EndpointAssumption DEF IInv, TypeOK, Publish
<1>7. RevocationFacts'
  <2>1. UNCHANGED <<identity, revoking, condemned, barred, closed>>
    BY DEF Publish, adminVars, monitorVars
  <2>2. condemned \subseteq Sessions /\ barred \subseteq Sessions
    BY DEF IInv, TypeOK
  <2> QED BY <1>1, <1>6, <2>1, <2>2 DEF IInv, RevocationFacts
<1> QED BY <1>3, <1>4, <1>5, <1>7 DEF IInv

\* The handshake answer is written, or the loop ends.
LEMMA AcknowledgeKeeps ==
    ASSUME IInv, NEW s \in Sessions, Acknowledge(s)
    PROVE  IInv'
<1>1. CASE phase' = [phase EXCEPT ![s] = "running"] /\ UNCHANGED <<closed, table, pending, outcome>>
  <2>0. /\ phase[s] = "acking"
        /\ UNCHANGED <<identity, owner, observed, table, peer, worker, closed, silent, pending,
                       reaping, revoking, condemned, barred, stage, target, outcome, received>>
    BY <1>1 DEF Acknowledge, adminVars, monitorVars
  <2>1. TypeOK'
    BY <1>1, <2>0 DEF IInv, TypeOK, Phases
  <2>2. TrackedOnTarget' /\ \A b \in Attempts : AttemptFacts(b)'
    BY <2>0, AttemptsUntouched
  <2>3. \A u \in Sessions : HandshakeFacts(u)'
    BY <1>1, <2>0 DEF IInv, TypeOK, HandshakeFacts
  <2>4. RevocationFacts'
    BY <2>0, RevocationUntouched
  <2> QED BY <2>1, <2>2, <2>3, <2>4 DEF IInv
<1>2. CASE CloseSession(s) /\ phase' = [phase EXCEPT ![s] = "ended"]
  BY <1>2, ClosingLoopKeeps DEF Acknowledge, IInv, TypeOK
<1> QED BY <1>1, <1>2 DEF Acknowledge

\* The end of a connection.
LEMMA EndReadKeeps ==
    ASSUME IInv, NEW s \in Sessions, EndRead(s)
    PROVE  IInv'
BY ClosingLoopKeeps DEF EndRead, IInv, TypeOK

\* A fatal answer to a state report or to a refused rotation.
LEMMA StateReportFailsKeeps ==
    ASSUME IInv, NEW s \in Sessions, StateReportFails(s)
    PROVE  IInv'
<1>1. silent' \in [Sessions -> BOOLEAN]
  BY DEF StateReportFails, Reads, IInv, TypeOK
<1> QED BY <1>1, ClosingLoopKeeps DEF StateReportFails

\* Reading a frame moves no session out of the phases its facts speak of.
LEMMA ReadsOnKeeps ==
    ASSUME IInv, NEW s \in Sessions, ReadsOn(s), UNCHANGED <<peer, worker>>
    PROVE  /\ phase' \in [Sessions -> Phases]
           /\ silent' \in [Sessions -> BOOLEAN]
           /\ \A u \in Sessions : HandshakeFacts(u)'
<1>1. phase' \in [Sessions -> Phases] /\ silent' \in [Sessions -> BOOLEAN]
  BY DEF IInv, TypeOK, ReadsOn, Reads, Phases
<1>2. \A u \in Sessions : phase'[u] = phase[u] \/ (phase[u] = "running" /\ phase'[u] = "ended")
  BY DEF IInv, TypeOK, ReadsOn, Reads
<1> QED BY <1>1, <1>2 DEF IInv, HandshakeFacts

\* A frame that changes nothing but the liveness stamp.
LEMMA HeartbeatKeeps ==
    ASSUME IInv, NEW s \in Sessions, Heartbeat(s)
    PROVE  IInv'
<1>1. TypeOK'
  BY ReadsOnKeeps DEF Heartbeat, IInv, TypeOK, adminVars, monitorVars, dispatchVars
<1>2. TrackedOnTarget' /\ \A b \in Attempts : AttemptFacts(b)'
  BY AttemptsUntouched DEF Heartbeat, dispatchVars
<1>3. \A u \in Sessions : HandshakeFacts(u)'
  BY ReadsOnKeeps DEF Heartbeat
<1>4. RevocationFacts'
  BY RevocationUntouched DEF Heartbeat, adminVars, monitorVars
<1> QED BY <1>1, <1>2, <1>3, <1>4 DEF IInv

\* A state report binds a resource.
LEMMA StateReportKeeps ==
    ASSUME IInv, NEW s \in Sessions, NEW r \in Resources, StateReport(s, r)
    PROVE  IInv'
<1>1. TypeOK'
  BY ReadsOnKeeps DEF StateReport, IInv, TypeOK, adminVars, monitorVars, dispatchVars
<1>2. TrackedOnTarget' /\ \A b \in Attempts : AttemptFacts(b)'
  BY AttemptsUntouched DEF StateReport, dispatchVars
<1>3. \A u \in Sessions : HandshakeFacts(u)'
  BY ReadsOnKeeps DEF StateReport
<1>4. RevocationFacts'
  BY RevocationUntouched DEF StateReport, adminVars, monitorVars
<1> QED BY <1>1, <1>2, <1>3, <1>4 DEF IInv

\* A terminal answer takes the attempt off its session.
LEMMA CompleteAttemptKeeps ==
    ASSUME IInv, NEW s \in Sessions, NEW a \in Attempts,
           NEW result \in {"completed", "failed", "interrupted"}, CompleteAttempt(s, a, result)
    PROVE  IInv'
<1>0. /\ a \in pending[s] /\ target[a] = s /\ stage[a] = "sent"
      /\ pending' = [pending EXCEPT ![s] = @ \ {a}]
      /\ outcome' = [outcome EXCEPT ![a] = IF @ = "none" THEN result ELSE @]
      /\ UNCHANGED <<identity, owner, observed, table, peer, worker, closed, reaping, revoking,
                     condemned, barred, stage, target, received>>
  BY DEF CompleteAttempt, IInv, TrackedOnTarget, AttemptFacts, adminVars, monitorVars
<1>1. TypeOK'
  <2>1. /\ pending' \in [Sessions -> SUBSET Attempts]
        /\ outcome' \in [Attempts -> {"none", "completed", "failed"} \cup Definitive \cup Uncertain]
    BY <1>0 DEF IInv, TypeOK, Uncertain
  <2> QED BY <1>0, <2>1, ReadsOnKeeps DEF CompleteAttempt, IInv, TypeOK
<1>2. TrackedOnTarget'
  BY <1>0 DEF IInv, TypeOK, TrackedOnTarget
<1>3. ASSUME NEW b \in Attempts PROVE AttemptFacts(b)'
  <2>1. AttemptFacts(b)
    BY DEF IInv
  <2>2. CASE b = a
    <3>1. outcome'[a] = IF outcome[a] = "none" THEN result ELSE outcome[a]
      BY <1>0 DEF IInv, TypeOK
    <3> QED BY <1>0, <2>1, <2>2, <3>1 DEF AttemptFacts, IInv, TypeOK, Definitive
  <2>3. CASE b # a
    <3>1. outcome'[b] = outcome[b]
      BY <1>0, <2>3 DEF IInv, TypeOK
    <3>2. \A u \in Sessions : b \in pending[u] => b \in pending'[u]
      BY <1>0, <2>3 DEF IInv, TypeOK
    <3> QED BY <1>0, <2>1, <3>1, <3>2 DEF AttemptFacts
  <2> QED BY <2>2, <2>3
<1>4. \A u \in Sessions : HandshakeFacts(u)'
  BY <1>0, ReadsOnKeeps DEF CompleteAttempt
<1>5. RevocationFacts'
  BY <1>0, RevocationUntouched
<1> QED BY <1>1, <1>2, <1>3, <1>4, <1>5 DEF IInv

\* What a dispatch step leaves alone while it does not close a session.
LEMMA DispatchKeepsRest ==
    ASSUME IInv, UNCHANGED <<adminVars, observed, table, phase, peer, worker, closed, silent,
                             monitorVars>>
    PROVE  (\A u \in Sessions : HandshakeFacts(u)') /\ RevocationFacts'
BY HandshakesUntouched, RevocationUntouched DEF adminVars, monitorVars

\* A refusal ends the attempt of a thread that has sent nothing.
LEMMA RefuseKeeps ==
    ASSUME IInv, NEW a \in Attempts, NEW why \in Definitive, Refuse(a, why),
           stage[a] \in {"new", "selected"}, UNCHANGED <<closed, pending, target, received>>
    PROVE  /\ outcome' \in [Attempts -> {"none", "completed", "failed"} \cup Definitive \cup Uncertain]
           /\ stage' \in [Attempts -> {"new", "selected", "tracked", "sent", "done"}]
           /\ TrackedOnTarget'
           /\ \A b \in Attempts : AttemptFacts(b)'
<1>1. /\ outcome' \in [Attempts -> {"none", "completed", "failed"} \cup Definitive \cup Uncertain]
      /\ stage' \in [Attempts -> {"new", "selected", "tracked", "sent", "done"}]
  BY DEF Refuse, IInv, TypeOK
<1>2. stage'[a] = "done" /\ outcome'[a] = why /\ why # "none"
  BY DEF Refuse, IInv, TypeOK, Definitive
<1>3. \A b \in Attempts : b # a => stage'[b] = stage[b] /\ outcome'[b] = outcome[b]
  BY DEF Refuse, IInv, TypeOK
<1>4. \A s \in Sessions : a \notin pending[s]
  BY DEF IInv, TrackedOnTarget
<1>5. TrackedOnTarget'
  BY <1>3, <1>4 DEF IInv, TypeOK, TrackedOnTarget
<1>6. ASSUME NEW b \in Attempts PROVE AttemptFacts(b)'
  <2>1. CASE b = a
    BY <1>2, <2>1 DEF IInv, AttemptFacts
  <2>2. CASE b # a
    BY <1>3, <2>2 DEF IInv, AttemptFacts
  <2> QED BY <2>1, <2>2
<1> QED BY <1>1, <1>5, <1>6

\* Choosing a session, or refusing.
LEMMA SelectSessionKeeps ==
    ASSUME IInv, NEW a \in Attempts, NEW r \in Resources, SelectSession(a, r)
    PROVE  IInv'
<1>0. /\ stage[a] = "new"
      /\ UNCHANGED <<adminVars, observed, table, phase, peer, worker, closed, silent, pending,
                     monitorVars, received>>
  BY DEF SelectSession, sessionVars
<1>1. (\A u \in Sessions : HandshakeFacts(u)') /\ RevocationFacts'
  BY <1>0, DispatchKeepsRest
<1>2. CASE \E why \in Definitive : Refuse(a, why) /\ UNCHANGED target
  BY <1>0, <1>1, <1>2, RefuseKeeps DEF IInv, TypeOK, adminVars, monitorVars
<1>3. CASE \E i \in DOMAIN table :
              /\ target' = [target EXCEPT ![a] = table[i]]
              /\ stage' = [stage EXCEPT ![a] = "selected"]
              /\ UNCHANGED outcome
  <2>1. PICK i \in DOMAIN table :
              /\ target' = [target EXCEPT ![a] = table[i]]
              /\ stage' = [stage EXCEPT ![a] = "selected"]
              /\ UNCHANGED outcome
    BY <1>3
  <2>2. table[i] \in Sessions
    BY <2>1 DEF IInv, TypeOK
  <2>3. TypeOK'
    BY <1>0, <2>1, <2>2 DEF IInv, TypeOK, adminVars, monitorVars
  <2>4. \A s \in Sessions : a \notin pending[s]
    BY <1>0 DEF IInv, TrackedOnTarget
  <2>5. stage'[a] = "selected" /\ target'[a] = table[i]
    BY <2>1 DEF IInv, TypeOK
  <2>6. \A b \in Attempts : b # a => stage'[b] = stage[b] /\ target'[b] = target[b]
    BY <2>1 DEF IInv, TypeOK
  <2>7. TrackedOnTarget'
    BY <1>0, <2>4, <2>6 DEF IInv, TypeOK, TrackedOnTarget
  <2>8. ASSUME NEW b \in Attempts PROVE AttemptFacts(b)'
    <3>1. CASE b = a
      BY <1>0, <2>1, <2>2, <2>5, <3>1 DEF IInv, AttemptFacts
    <3>2. CASE b # a
      BY <1>0, <2>1, <2>6, <3>2 DEF IInv, AttemptFacts
    <3> QED BY <3>1, <3>2
  <2> QED BY <1>1, <2>3, <2>7, <2>8 DEF IInv
<1> QED BY <1>2, <1>3 DEF SelectSession, Candidates, Definitive

\* The lock of submit_execute: the attempt is tracked or refused.
LEMMA TrackKeeps ==
    ASSUME IInv, NEW a \in Attempts, Track(a)
    PROVE  IInv'
<1> DEFINE s == target[a]
<1>0. /\ stage[a] = "selected"
      /\ s \in Sessions
      /\ UNCHANGED <<adminVars, observed, table, phase, peer, worker, closed, silent,
                     monitorVars, target, received>>
  BY DEF Track, IInv, AttemptFacts
<1>1. (\A u \in Sessions : HandshakeFacts(u)') /\ RevocationFacts'
  BY <1>0, DispatchKeepsRest
<1>2. CASE \E why \in Definitive : Refuse(a, why) /\ UNCHANGED pending
  BY <1>0, <1>1, <1>2, RefuseKeeps DEF IInv, TypeOK, adminVars, monitorVars
<1>3. CASE /\ ~closed[s]
           /\ pending' = [pending EXCEPT ![s] = @ \cup {a}]
           /\ stage' = [stage EXCEPT ![a] = "tracked"]
           /\ UNCHANGED outcome
  <2>1. TypeOK'
    BY <1>0, <1>3 DEF IInv, TypeOK, adminVars, monitorVars
  <2>2. stage'[a] = "tracked" /\ a \in pending'[s]
    BY <1>0, <1>3 DEF IInv, TypeOK
  <2>3. \A b \in Attempts : b # a => stage'[b] = stage[b]
    BY <1>3 DEF IInv, TypeOK
  <2>4. \A u \in Sessions : pending[u] \subseteq pending'[u] /\ pending'[u] \subseteq pending[u] \cup {a}
    BY <1>0, <1>3 DEF IInv, TypeOK
  <2>5. \A u \in Sessions : u # s => pending'[u] = pending[u]
    BY <1>0, <1>3 DEF IInv, TypeOK
  <2>6. \A u \in Sessions : a \notin pending[u]
    BY <1>0 DEF IInv, TrackedOnTarget
  <2>7. TrackedOnTarget'
    <3> SUFFICES ASSUME NEW u \in Sessions, NEW b \in pending'[u]
                 PROVE  target'[b] = u /\ stage'[b] \in {"tracked", "sent"} /\ ~closed'[u]
      BY DEF TrackedOnTarget
    <3>1. CASE b = a
      BY <1>0, <1>3, <2>2, <2>5, <2>6, <3>1
    <3>2. CASE b # a
      BY <1>0, <2>3, <2>4, <3>2 DEF IInv, TypeOK, TrackedOnTarget
    <3> QED BY <3>1, <3>2
  <2>8. ASSUME NEW b \in Attempts PROVE AttemptFacts(b)'
    <3>1. CASE b = a
      BY <1>0, <1>3, <2>2, <3>1 DEF IInv, AttemptFacts
    <3>2. CASE b # a
      BY <1>0, <1>3, <2>3, <2>4, <3>2 DEF IInv, AttemptFacts
    <3> QED BY <3>1, <3>2
  <2> QED BY <1>1, <2>1, <2>7, <2>8 DEF IInv
<1> QED BY <1>2, <1>3 DEF Track, OpenForTracking, Definitive

\* Writing the execute frame: a success leaves the tracker to the session, a
\* failure closes the session and tells the caller that the outcome is unknown.
LEMMA WriteKeeps ==
    ASSUME IInv, NEW a \in Attempts, Write(a)
    PROVE  IInv'
<1> DEFINE s == target[a]
<1>0. /\ stage[a] = "tracked"
      /\ s \in Sessions
      /\ outcome[a] \in {"none", "interrupted"}
      /\ received' \in [Attempts -> BOOLEAN]
      /\ \A b \in Attempts : b # a => received'[b] = received[b]
      /\ UNCHANGED <<adminVars, observed, phase, peer, worker, silent, monitorVars, target>>
  BY DEF Write, IInv, TypeOK, AttemptFacts
<1>1. CASE stage' = [stage EXCEPT ![a] = "sent"] /\ UNCHANGED <<outcome, closed, table, pending>>
  <2>1. TypeOK'
    BY <1>0, <1>1 DEF IInv, TypeOK, adminVars, monitorVars
  <2>2. stage'[a] = "sent" /\ \A b \in Attempts : b # a => stage'[b] = stage[b]
    BY <1>1 DEF IInv, TypeOK
  <2>3. TrackedOnTarget'
    BY <1>0, <1>1, <2>2 DEF IInv, TypeOK, TrackedOnTarget
  <2>4. ASSUME NEW b \in Attempts PROVE AttemptFacts(b)'
    <3>1. CASE b = a
      BY <1>0, <1>1, <2>2, <3>1 DEF IInv, AttemptFacts, Definitive
    <3>2. CASE b # a
      BY <1>0, <1>1, <2>2, <3>2 DEF IInv, AttemptFacts
    <3> QED BY <3>1, <3>2
  <2>5. (\A u \in Sessions : HandshakeFacts(u)') /\ RevocationFacts'
    BY <1>0, <1>1, DispatchKeepsRest
  <2> QED BY <2>1, <2>3, <2>4, <2>5 DEF IInv
<1>2. CASE /\ stage' = [stage EXCEPT ![a] = "done"]
           /\ ReleaseRow(s)
           /\ outcome' = [b \in Attempts |->
                             IF b = a THEN WriteFailure
                             ELSE IF Interrupted(s, b) THEN "interrupted" ELSE outcome[b]]
  <2>1. CloseEffect(s)
    BY <1>0, <1>2, ReleaseRowEffect DEF IInv
  <2>2. outcome' \in [Attempts -> {"none", "completed", "failed"} \cup Definitive \cup Uncertain]
    BY <1>2 DEF IInv, TypeOK, Uncertain, WriteFailure
  <2>3. TypeOK'
    BY <1>0, <1>2, <2>1, <2>2 DEF IInv, TypeOK, CloseEffect, adminVars, monitorVars
  <2>4. stage'[a] = "done" /\ \A b \in Attempts : b # a => stage'[b] = stage[b]
    BY <1>2 DEF IInv, TypeOK
  <2>5. TrackedOnTarget'
    <3> SUFFICES ASSUME NEW u \in Sessions, NEW b \in pending'[u]
                 PROVE  target'[b] = u /\ stage'[b] \in {"tracked", "sent"} /\ ~closed'[u]
      BY DEF TrackedOnTarget
    <3>1. u # s /\ b \in pending[u] /\ b \in Attempts
      BY <1>0, <2>1 DEF CloseEffect, IInv, TypeOK
    <3>2. target[b] = u /\ stage[b] \in {"tracked", "sent"} /\ ~closed[u]
      BY <3>1 DEF IInv, TrackedOnTarget
    <3>3. b # a
      BY <3>1, <3>2
    <3> QED BY <1>0, <2>1, <2>4, <3>1, <3>2, <3>3 DEF CloseEffect
  <2>6. ASSUME NEW b \in Attempts PROVE AttemptFacts(b)'
    <3>1. CASE b = a
      BY <1>2, <2>4, <3>1 DEF AttemptFacts, WriteFailure, Definitive
    <3>2. CASE b # a
      <4>1. AttemptFacts(b)
        BY DEF IInv
      <4>2. outcome'[b] = IF b \in pending[s] /\ outcome[b] = "none" THEN "interrupted" ELSE outcome[b]
        BY <1>2, <3>2 DEF Interrupted
      <4>3. b \in pending[s] => stage[b] \in {"tracked", "sent"}
        BY <1>0 DEF IInv, TrackedOnTarget
      <4>4. ASSUME stage[b] \in {"tracked", "sent"}, outcome'[b] = "none"
            PROVE  b \in pending'[target[b]]
        <5>1. b \in pending[target[b]] /\ target[b] \in Sessions
          BY <4>1, <4>2, <4>4 DEF AttemptFacts
        <5>2. target[b] # s
          BY <4>2, <4>4, <5>1
        <5> QED BY <2>1, <5>1, <5>2 DEF CloseEffect, IInv, TypeOK
      <4> QED BY <1>0, <2>4, <3>2, <4>1, <4>2, <4>3, <4>4 DEF AttemptFacts, Definitive
    <3> QED BY <3>1, <3>2
  <2>7. \A u \in Sessions : HandshakeFacts(u)'
    BY <1>0, HandshakesUntouched
  <2>8. RevocationFacts'
    BY <1>0, <2>1, CloseKeepsRevocation DEF adminVars, monitorVars
  <2> QED BY <2>3, <2>5, <2>6, <2>7, <2>8 DEF IInv
<1> QED BY <1>1, <1>2 DEF Write

\* A thread other than the read loop closes a session.
LEMMA ForeignCloseKeeps ==
    ASSUME IInv, NEW s \in Sessions, CloseSession(s), reaping' \subseteq Sessions,
           condemned' = condemned \/ condemned' = condemned \ {s},
           UNCHANGED <<adminVars, observed, phase, peer, worker, silent, revoking, barred,
                       stage, target, received>>
    PROVE  IInv'
<1>0. /\ CloseEffect(s)
      /\ outcome' \in [Attempts -> {"none", "completed", "failed"} \cup Definitive \cup Uncertain]
      /\ pending' \in [Sessions -> SUBSET Attempts]
      /\ TrackedOnTarget'
      /\ \A b \in Attempts : AttemptFacts(b)'
  BY CloseKeepsAttempts
<1>1. TypeOK'
  BY <1>0 DEF IInv, TypeOK, CloseEffect, adminVars
<1>2. \A u \in Sessions : HandshakeFacts(u)'
  BY HandshakesUntouched
<1>3. RevocationFacts'
  BY <1>0 DEF IInv, TypeOK, RevocationFacts, CloseEffect, adminVars
<1> QED BY <1>0, <1>1, <1>2, <1>3 DEF IInv

\* A cancel or tool-result frame whose write fails closes the session.
LEMMA WriteFailsKeeps ==
    ASSUME IInv, NEW s \in Sessions, WriteFails(s)
    PROVE  IInv'
BY ForeignCloseKeeps DEF WriteFails, monitorVars, IInv, TypeOK

\* A connection that falls silent changes nothing the server knows.
LEMMA FallSilentKeeps ==
    ASSUME IInv, NEW s \in Sessions, FallSilent(s)
    PROVE  IInv'
<1>1. TypeOK'
  BY DEF FallSilent, IInv, TypeOK, adminVars, monitorVars, dispatchVars
<1> QED BY <1>1, AttemptsUntouched, HandshakesUntouched, RevocationUntouched
        DEF FallSilent, IInv, adminVars, monitorVars, dispatchVars

\* The sweep only notes which sessions are stale.
LEMMA SweepKeeps ==
    ASSUME IInv, Sweep
    PROVE  IInv'
<1>1. TypeOK'
  BY DEF Sweep, Stale, IInv, TypeOK, adminVars, sessionVars, dispatchVars
<1> QED BY <1>1, AttemptsUntouched, HandshakesUntouched, RevocationUntouched
        DEF Sweep, IInv, adminVars, sessionVars, dispatchVars

\* Closing a stale session is a close().
LEMMA CloseStaleKeeps ==
    ASSUME IInv, NEW s \in Sessions, CloseStale(s)
    PROVE  IInv'
BY ForeignCloseKeeps DEF CloseStale, IInv, TypeOK

\* Marking an identity bars the sessions the table shows for it.
LEMMA RevokeKeeps ==
    ASSUME IInv, NEW w \in Workers, Revoke(w)
    PROVE  IInv'
<1>0. UNCHANGED <<owner, observed, table, phase, peer, worker, closed, silent, pending,
                  reaping, condemned, stage, target, outcome, received>>
  BY DEF Revoke, sessionVars, dispatchVars
<1>1. TypeOK'
  BY <1>0 DEF Revoke, IInv, TypeOK
<1>2. TrackedOnTarget' /\ \A b \in Attempts : AttemptFacts(b)'
  BY <1>0, AttemptsUntouched
<1>3. \A u \in Sessions : HandshakeFacts(u)'
  BY <1>0, HandshakesUntouched
<1>4. RevocationFacts'
  <2>1. /\ identity'[w] = "revoked" /\ revoking'[w] = "marked"
        /\ \A v \in Workers : v # w => identity'[v] = identity[v] /\ revoking'[v] = revoking[v]
    BY DEF Revoke, IInv, TypeOK
  <2>2. barred' = barred \cup {s \in Sessions : InTable(s) /\ worker[s] = w}
    BY DEF Revoke
  <2>3. \A s \in barred : worker[s] = w => closed[s] \/ s \in condemned
    BY DEF Revoke, IInv, RevocationFacts
  <2> QED BY <1>0, <2>1, <2>2, <2>3 DEF IInv, RevocationFacts, InTable
<1> QED BY <1>1, <1>2, <1>3, <1>4 DEF IInv

\* The snapshot condemns every session that was barred and is still in the table.
LEMMA RevokeSnapshotKeeps ==
    ASSUME IInv, NEW w \in Workers, RevokeSnapshot(w)
    PROVE  IInv'
<1>0. UNCHANGED <<identity, owner, observed, table, phase, peer, worker, closed, silent, pending,
                  reaping, barred, stage, target, outcome, received>>
  BY DEF RevokeSnapshot, adminVars, sessionVars, dispatchVars
<1>1. TypeOK'
  BY <1>0 DEF RevokeSnapshot, RevokedSessions, IInv, TypeOK
<1>2. TrackedOnTarget' /\ \A b \in Attempts : AttemptFacts(b)'
  BY <1>0, AttemptsUntouched
<1>3. \A u \in Sessions : HandshakeFacts(u)'
  BY <1>0, HandshakesUntouched
<1>4. RevocationFacts'
  <2>1. /\ identity[w] = "revoked"
        /\ revoking'[w] = "closing"
        /\ \A v \in Workers : v # w => revoking'[v] = revoking[v]
    BY DEF RevokeSnapshot, IInv, TypeOK, RevocationFacts
  <2>2. condemned' = condemned \cup {s \in Sessions : InTable(s) /\ worker[s] = w}
    BY DEF RevokeSnapshot, RevokedSessions
  <2>3. barred \subseteq Sessions
    BY DEF IInv, TypeOK
  <2> QED BY <1>0, <2>1, <2>2, <2>3 DEF IInv, RevocationFacts, InTable
<1> QED BY <1>1, <1>2, <1>3, <1>4 DEF IInv

\* Closing a revoked worker's session is a close().
LEMMA RevokeCloseKeeps ==
    ASSUME IInv, NEW s \in Sessions, RevokeClose(s)
    PROVE  IInv'
BY ForeignCloseKeeps DEF RevokeClose, IInv, TypeOK

\* A new owner of the resource touches no session.
LEMMA ReconfigureKeeps ==
    ASSUME IInv, NEW r \in Resources, NEW w \in Workers, Reconfigure(r, w)
    PROVE  IInv'
<1>1. TypeOK'
  BY DEF Reconfigure, IInv, TypeOK, sessionVars, monitorVars, dispatchVars
<1> QED BY <1>1, AttemptsUntouched, HandshakesUntouched, RevocationUntouched
        DEF Reconfigure, IInv, sessionVars, monitorVars, dispatchVars

\* A step that changes nothing keeps the invariant.
LEMMA StutterKeeps ==
    ASSUME IInv, UNCHANGED vars
    PROVE  IInv'
<1>0. UNCHANGED <<identity, owner, observed, table, phase, peer, worker, closed, silent, pending,
                  reaping, revoking, condemned, barred, stage, target, outcome, received>>
  BY DEF vars, adminVars, sessionVars, monitorVars, dispatchVars
<1>1. TypeOK'
  BY <1>0 DEF IInv, TypeOK
<1> QED BY <1>0, <1>1, AttemptsUntouched, HandshakesUntouched, RevocationUntouched DEF IInv

\* IInv is inductive: it holds initially and every action of every thread keeps it.
THEOREM Invariance == Spec => []IInv
<1>1. Init => IInv
  BY InitEstablishes
<1>2. IInv /\ [Next]_vars => IInv'
  <2> SUFFICES ASSUME IInv, [Next]_vars PROVE IInv'
    OBVIOUS
  <2>1. ASSUME NEW s \in Sessions, Accept(s) PROVE IInv'
    BY <2>1, AcceptKeeps
  <2>2. ASSUME NEW s \in Sessions, ReadLoop(s) PROVE IInv'
    <3>1. ASSUME NEW w \in Workers, ReadHandshake(s, w) PROVE IInv'
      BY <3>1, ReadHandshakeKeeps
    <3>2. CASE Heartbeat(s)
      BY <3>2, HeartbeatKeeps
    <3>3. ASSUME NEW r \in Resources, StateReport(s, r) PROVE IInv'
      BY <3>3, StateReportKeeps
    <3>4. CASE StateReportFails(s) \/ RotateRefused(s)
      BY <3>4, StateReportFailsKeeps DEF RotateRefused
    <3>5. ASSUME NEW a \in Attempts, NEW result \in {"completed", "failed"},
                 CompleteAttempt(s, a, result)
          PROVE  IInv'
      BY <3>5, CompleteAttemptKeeps
    <3>6. ASSUME NEW a \in Attempts, ReportInterrupted(s, a) PROVE IInv'
      BY <3>6, CompleteAttemptKeeps DEF ReportInterrupted
    <3> QED BY <2>2, <3>1, <3>2, <3>3, <3>4, <3>5, <3>6 DEF ReadLoop
  <2>3. ASSUME NEW s \in Sessions, Handshake(s) PROVE IInv'
    BY <2>3, RedeemKeeps, VerifyKeeps, PublishKeeps, AcknowledgeKeeps DEF Handshake
  <2>4. ASSUME NEW s \in Sessions, EndRead(s) \/ WriteFails(s) \/ FallSilent(s) PROVE IInv'
    BY <2>4, EndReadKeeps, WriteFailsKeeps, FallSilentKeeps
  <2>5. ASSUME NEW a \in Attempts, Dispatch(a) PROVE IInv'
    BY <2>5, SelectSessionKeeps, TrackKeeps, WriteKeeps DEF Dispatch
  <2>6. CASE Monitor
    BY <2>6, SweepKeeps, CloseStaleKeeps DEF Monitor
  <2>7. CASE Administer
    BY <2>7, RevokeKeeps, RevokeSnapshotKeeps, RevokeCloseKeeps, ReconfigureKeeps DEF Administer
  <2>8. CASE UNCHANGED vars
    BY <2>8, StutterKeeps
  <2> QED BY <2>1, <2>2, <2>3, <2>4, <2>5, <2>6, <2>7, <2>8 DEF Next
<1> QED BY <1>1, <1>2, PTL DEF Spec

-----------------------------------------------------------------------------
(* What the endpoint promises                                              *)

\* Every variable of the endpoint keeps its type.
THEOREM TypeCorrect == Spec => []TypeOK
<1>1. IInv => TypeOK
  BY DEF IInv
<1> QED BY <1>1, Invariance, PTL

\* submit_execute and close: a waiter without an outcome is always tracked by an
\* open session, so that a result, a disconnect or the sweep will release it.
THEOREM NoForgottenWaiter == Spec => []WaiterIsTracked
<1>1. IInv => WaiterIsTracked
  BY DEF IInv, AttemptFacts, TrackedOnTarget, WaiterIsTracked
<1> QED BY <1>1, Invariance, PTL

\* submit_execute: a refusal that promises nothing was sent is true.
THEOREM HonestRefusal == Spec => []RefusalIsDefinitive
<1>1. IInv => RefusalIsDefinitive
  BY DEF IInv, AttemptFacts, RefusalIsDefinitive
<1> QED BY <1>1, Invariance, PTL

\* close and _complete_attempt: an attempt is tracked by its own open session only.
THEOREM TrackedOnItsSession == Spec => []TrackedOnTarget
<1>1. IInv => TrackedOnTarget
  BY DEF IInv
<1> QED BY <1>1, Invariance, PTL

\* revoke_worker reaches every session the table shows when the identity is marked.
THEOREM RevocationReaches == Spec => []RevocationReachesTable
<1>1. IInv => RevocationReachesTable
  BY DEF IInv, RevocationFacts, RevocationReachesTable
<1> QED BY <1>1, Invariance, PTL

\* revoke_worker condemns no session of another worker.
THEOREM RevocationSpares == Spec => []RevokeSparesOthers
<1>1. IInv => RevokeSparesOthers
  BY DEF IInv, RevocationFacts, RevokeSparesOthers
<1> QED BY <1>1, Invariance, PTL

\* PendingAttempt.resolve: the first outcome of an attempt that was sent stays,
\* whatever close or answer comes later.
THEOREM FirstOutcomeStays == Spec => OutcomeIsFinal
<1> DEFINE Stays == \A a \in Attempts : stage[a] = "sent" /\ outcome[a] # "none"
                                        => outcome'[a] = outcome[a]
<1>1. IInv /\ [Next]_vars => Stays
  <2> SUFFICES ASSUME IInv, [Next]_vars,
                      NEW a \in Attempts, stage[a] = "sent", outcome[a] # "none"
               PROVE  outcome'[a] = outcome[a]
    OBVIOUS
  <2>1. ASSUME NEW s \in Sessions, CloseSession(s) PROVE outcome'[a] = outcome[a]
    BY <2>1 DEF CloseSession, Interrupted
  <2>2. ASSUME NEW s \in Sessions, Accept(s) \/ Handshake(s) \/ EndRead(s) \/ WriteFails(s)
                                     \/ FallSilent(s)
        PROVE  outcome'[a] = outcome[a]
    BY <2>1, <2>2 DEF Accept, Handshake, Redeem, Verify, Publish, Acknowledge, EndRead,
                      WriteFails, FallSilent, dispatchVars
  <2>3. ASSUME NEW s \in Sessions, NEW b \in Attempts, NEW result, CompleteAttempt(s, b, result)
        PROVE  outcome'[a] = outcome[a]
    BY <2>3 DEF CompleteAttempt, IInv, TypeOK
  <2>4. ASSUME NEW s \in Sessions, ReadLoop(s) PROVE outcome'[a] = outcome[a]
    BY <2>1, <2>3, <2>4 DEF ReadLoop, ReadHandshake, Heartbeat, StateReport, StateReportFails,
                            RotateRefused, ReportInterrupted, dispatchVars
  <2>5. ASSUME NEW b \in Attempts, Dispatch(b) PROVE outcome'[a] = outcome[a]
    <3>1. CASE Write(b)
      BY <3>1 DEF Write, Interrupted, IInv, TypeOK
    <3>2. CASE Track(b)
      BY <3>2 DEF Track, Refuse, IInv, TypeOK
    <3>3. ASSUME NEW r \in Resources, SelectSession(b, r) PROVE outcome'[a] = outcome[a]
      BY <3>3 DEF SelectSession, Refuse, IInv, TypeOK
    <3> QED BY <2>5, <3>1, <3>2, <3>3 DEF Dispatch
  <2>6. CASE Monitor \/ Administer
    BY <2>1, <2>6 DEF Monitor, Sweep, CloseStale, Administer, Revoke, RevokeSnapshot, RevokeClose,
                      Reconfigure, dispatchVars, IInv, TypeOK
  <2>7. CASE UNCHANGED vars
    BY <2>7 DEF vars, dispatchVars
  <2> QED BY <2>2, <2>4, <2>5, <2>6, <2>7 DEF Next
<1>2. IInv /\ [Next]_vars => [Stays]_vars
  BY <1>1
<1> QED BY <1>2, Invariance, PTL DEF Spec, OutcomeIsFinal

=============================================================================
