------------------------ MODULE WorkerIdentityStore ------------------------
(***************************************************************************)
(* The durable store of pairing codes and device identities                *)
(* (worker_identity_store.py). Every operation takes one lock, but the     *)
(* connection commits each statement by itself: a crash or a failing       *)
(* statement in the middle of redeem_pairing_code leaves what the earlier  *)
(* statements wrote, and authenticate compares the row after it released   *)
(* the lock.                                                               *)
(***************************************************************************)
EXTENDS Integers, FiniteSets

CONSTANTS
    PairingCodes,   \* pairing codes, drawn at random and never drawn twice
    Redeemers,      \* redeeming connections; each draws the worker id it mints
    Checks,         \* calls of authenticate
    NoCode,         \* a caller that presents no code yet
    NoWorker,       \* no worker: a code nobody redeemed, a check not begun
    Claimed,        \* redeemed_by = 'claimed'
    Ttl,            \* pairing_code_ttl_seconds
    Day,            \* how long a dead code is kept
    MaxOutstanding, \* MAX_OUTSTANDING_PAIRING_CODES
    MaxTime,        \* bound on the clock
    MaxVersion      \* bound on the rotations of one identity

ASSUME StoreAssumption ==
    /\ Ttl \in Nat \ {0}
    /\ Day \in Nat \ {0}
    /\ MaxOutstanding \in Nat \ {0}
    /\ MaxTime \in Nat
    /\ MaxVersion \in Nat
    /\ NoCode \notin PairingCodes
    /\ NoWorker \notin Redeemers
    /\ Claimed \notin Redeemers \cup {NoWorker}

VARIABLES
    now,        \* the wall clock
    lockHolder, \* the redeeming caller that holds the lock, or NoWorker
    issued,     \* codes that were ever drawn
    rows,       \* pairing_codes: the hashes that are in the table
    expires,    \* expires_at of each code
    redeemedBy, \* redeemed_by of each code
    status,     \* worker_identities.status; "none" when there is no row
    version,    \* which credential of the identity the stored hash is of
    step,       \* where each redeeming caller is
    code,       \* the code it presents
    readAt,     \* the clock as it read it
    verdict,    \* what each authenticate call answered
    subject,    \* the worker id it was asked about
    presented,  \* the credential it was given
    row,        \* the row it read: status and version
    deadOnEntry,\* history: the credential was already dead when the call began
    minted      \* history: identities created from each code

codeVars == <<issued, rows, expires, redeemedBy>>
identityVars == <<status, version>>
redeemVars == <<lockHolder, step, code, readAt>>
checkVars == <<verdict, subject, presented, row, deadOnEntry>>
identityStoreVars == <<now, codeVars, identityVars, redeemVars, checkVars, minted>>

NoIdentity == [status |-> "none", version |-> 0]

IdentityInit ==
    /\ now = 0
    /\ lockHolder = NoWorker
    /\ issued = {}
    /\ rows = {}
    /\ expires = [c \in PairingCodes |-> 0]
    /\ redeemedBy = [c \in PairingCodes |-> NoWorker]
    /\ status = [w \in Redeemers |-> "none"]
    /\ version = [w \in Redeemers |-> 0]
    /\ step = [w \in Redeemers |-> "idle"]
    /\ code = [w \in Redeemers |-> NoCode]
    /\ readAt = [w \in Redeemers |-> 0]
    /\ verdict = [k \in Checks |-> "none"]
    /\ subject = [k \in Checks |-> NoWorker]
    /\ presented = [k \in Checks |-> 0]
    /\ row = [k \in Checks |-> NoIdentity]
    /\ deadOnEntry = [k \in Checks |-> FALSE]
    /\ minted = [c \in PairingCodes |-> {}]

\* The lock is free.
Unlocked == lockHolder = NoWorker

Tick ==
    /\ now < MaxTime
    /\ now' = now + 1
    /\ UNCHANGED <<codeVars, identityVars, redeemVars, checkVars, minted>>

-----------------------------------------------------------------------------
(* begin_pairing                                                           *)

CodeExpired(c, t) == expires[c] < t

\* _prune_expired_locked at time t: what is left once codes dead for a day are gone.
Kept(t) == {c \in rows : ~ (expires[c] < t - Day)}

Outstanding(codes) == {c \in codes : redeemedBy[c] = NoWorker}

BacklogFull(codes) == Cardinality(Outstanding(codes)) >= MaxOutstanding

\* The administrator read the clock at t, before waiting for the lock.
BeginPairing(c, t) ==
    /\ Unlocked
    /\ c \notin issued
    /\ ~BacklogFull(Kept(t))
    /\ rows' = Kept(t) \cup {c}
    /\ issued' = issued \cup {c}
    /\ expires' = [expires EXCEPT ![c] = t + Ttl]
    /\ UNCHANGED <<now, redeemedBy, identityVars, redeemVars, checkVars, minted>>

\* The backlog is full, or the INSERT fails: the prune has been committed.
BeginPairingFails(t) ==
    /\ Unlocked
    /\ rows' = Kept(t)
    /\ UNCHANGED <<now, issued, expires, redeemedBy, identityVars, redeemVars, checkVars, minted>>

-----------------------------------------------------------------------------
(* redeem_pairing_code                                                     *)

\* The caller reads the clock before it waits for the lock.
StartRedeem(w, c) ==
    /\ step[w] = "idle"
    /\ c \in issued
    /\ code' = [code EXCEPT ![w] = c]
    /\ readAt' = [readAt EXCEPT ![w] = now]
    /\ step' = [step EXCEPT ![w] = "waiting"]
    /\ UNCHANGED <<now, codeVars, identityVars, lockHolder, checkVars, minted>>

\* Mutant: the claim does not look at redeemed_by.
ClaimableAgain(w) == code[w] \in rows /\ ~CodeExpired(code[w], readAt[w])

\* Known, not expired at the time the caller read, and nobody's yet.
Claimable(w) ==
    /\ code[w] \in rows
    /\ ~CodeExpired(code[w], readAt[w])
    /\ redeemedBy[code[w]] = NoWorker

\* The conditional UPDATE, the first statement that writes.
ClaimCode(w) ==
    /\ step[w] = "waiting"
    /\ Unlocked
    /\ IF Claimable(w)
       THEN /\ redeemedBy' = [redeemedBy EXCEPT ![code[w]] = Claimed]
            /\ step' = [step EXCEPT ![w] = "claimed"]
            /\ lockHolder' = w
       ELSE /\ step' = [step EXCEPT ![w] = "failed"]
            /\ UNCHANGED <<redeemedBy, lockHolder>>
    /\ UNCHANGED <<now, issued, rows, expires, identityVars, code, readAt, checkVars, minted>>

\* Mutant: the second UPDATE is forgotten.
BindNobody(w) ==
    /\ step[w] = "claimed"
    /\ step' = [step EXCEPT ![w] = "bound"]
    /\ UNCHANGED <<now, codeVars, identityVars, lockHolder, code, readAt, checkVars, minted>>

\* The second UPDATE names the worker.
BindWorker(w) ==
    /\ step[w] = "claimed"
    /\ redeemedBy' = [redeemedBy EXCEPT ![code[w]] = w]
    /\ step' = [step EXCEPT ![w] = "bound"]
    /\ UNCHANGED <<now, issued, rows, expires, identityVars, lockHolder, code, readAt, checkVars,
                   minted>>

\* The INSERT of the identity; then the lock is released.
Mint(w) ==
    /\ step[w] = "bound"
    /\ status' = [status EXCEPT ![w] = "active"]
    /\ step' = [step EXCEPT ![w] = "done"]
    /\ lockHolder' = NoWorker
    /\ minted' = [minted EXCEPT ![code[w]] = @ \cup {w}]
    /\ UNCHANGED <<now, codeVars, version, code, readAt, checkVars>>

\* A statement after the claim fails (a full disk, a locked file): the
\* exception releases the lock and nothing is rolled back.
StatementFails(w) ==
    /\ lockHolder = w
    /\ lockHolder' = NoWorker
    /\ step' = [step EXCEPT ![w] = "failed"]
    /\ UNCHANGED <<now, codeVars, identityVars, code, readAt, checkVars, minted>>

\* The server stops and starts again: calls in progress are gone, rows stay.
ServerStops ==
    /\ lockHolder' = NoWorker
    /\ step' = [w \in Redeemers |->
                  IF step[w] \in {"waiting", "claimed", "bound"} THEN "failed" ELSE step[w]]
    /\ verdict' = [k \in Checks |-> IF verdict[k] \in {"begun", "read"} THEN "lost" ELSE verdict[k]]
    /\ UNCHANGED <<now, codeVars, identityVars, code, readAt, subject, presented, row, deadOnEntry,
                   minted>>

-----------------------------------------------------------------------------
(* authenticate                                                            *)

\* Mutant: the status of the identity is not looked at.
AcceptsAnyStatus(r, v) == r.version = v /\ r.status # "none"

Accepts(r, v) == r.status = "active" /\ r.version = v

BeginCheck(k, w, v) ==
    /\ verdict[k] = "none"
    /\ step[w] = "done"
    /\ v <= version[w]
    /\ verdict' = [verdict EXCEPT ![k] = "begun"]
    /\ subject' = [subject EXCEPT ![k] = w]
    /\ presented' = [presented EXCEPT ![k] = v]
    /\ deadOnEntry' = [deadOnEntry EXCEPT ![k] = status[w] # "active" \/ version[w] # v]
    /\ UNCHANGED <<now, codeVars, identityVars, redeemVars, row, minted>>

\* The SELECT under the lock.
ReadRow(k) ==
    /\ verdict[k] = "begun"
    /\ Unlocked
    /\ row' = [row EXCEPT ![k] = [status |-> status[subject[k]], version |-> version[subject[k]]]]
    /\ verdict' = [verdict EXCEPT ![k] = "read"]
    /\ UNCHANGED <<now, codeVars, identityVars, redeemVars, subject, presented, deadOnEntry,
                   minted>>

\* The comparison after the lock was released.
Decide(k) ==
    /\ verdict[k] = "read"
    /\ verdict' = [verdict EXCEPT ![k] =
                     IF Accepts(row[k], presented[k]) THEN "accepted" ELSE "rejected"]
    /\ UNCHANGED <<now, codeVars, identityVars, redeemVars, subject, presented, row, deadOnEntry,
                   minted>>

-----------------------------------------------------------------------------
(* Rotation and revocation                                                 *)

\* The UPDATE writes the hash of the identity's next credential.
RotateCredential(w) ==
    /\ Unlocked
    /\ status[w] = "active"
    /\ version[w] < MaxVersion
    /\ version' = [version EXCEPT ![w] = @ + 1]
    /\ UNCHANGED <<now, codeVars, status, redeemVars, checkVars, minted>>

Revoke(w) ==
    /\ Unlocked
    /\ status[w] \in {"active", "revoked"}
    /\ status' = [status EXCEPT ![w] = "revoked"]
    /\ UNCHANGED <<now, codeVars, version, redeemVars, checkVars, minted>>

DeleteRevoked(w) ==
    /\ Unlocked
    /\ status[w] = "revoked"
    /\ status' = [status EXCEPT ![w] = "none"]
    /\ UNCHANGED <<now, codeVars, version, redeemVars, checkVars, minted>>

-----------------------------------------------------------------------------
Redeem(w) ==
    \/ \E c \in PairingCodes : StartRedeem(w, c)
    \/ ClaimCode(w)
    \/ BindWorker(w)
    \/ Mint(w)
    \/ StatementFails(w)

Authenticate(k) ==
    \/ \E w \in Redeemers, v \in 0 .. MaxVersion : BeginCheck(k, w, v)
    \/ ReadRow(k)
    \/ Decide(k)

IdentityNext ==
    \/ Tick
    \/ \E c \in PairingCodes, t \in 0 .. now : BeginPairing(c, t)
    \/ \E t \in 0 .. now : BeginPairingFails(t)
    \/ \E w \in Redeemers : Redeem(w)
    \/ \E k \in Checks : Authenticate(k)
    \/ \E w \in Redeemers : RotateCredential(w) \/ Revoke(w) \/ DeleteRevoked(w)
    \/ ServerStops

IdentitySpec == IdentityInit /\ [][IdentityNext]_identityStoreVars

-----------------------------------------------------------------------------
(* Properties                                                              *)

RedeemSteps == {"idle", "waiting", "claimed", "bound", "done", "failed"}

\* Every variable keeps its type.
TypeOK ==
    /\ now \in Nat
    /\ lockHolder \in Redeemers \cup {NoWorker}
    /\ issued \subseteq PairingCodes
    /\ rows \subseteq issued
    /\ expires \in [PairingCodes -> Nat]
    /\ redeemedBy \in [PairingCodes -> Redeemers \cup {NoWorker, Claimed}]
    /\ status \in [Redeemers -> {"none", "active", "revoked"}]
    /\ version \in [Redeemers -> Nat]
    /\ step \in [Redeemers -> RedeemSteps]
    /\ code \in [Redeemers -> PairingCodes \cup {NoCode}]
    /\ readAt \in [Redeemers -> Nat]
    /\ verdict \in [Checks -> {"none", "begun", "read", "accepted", "rejected", "lost"}]
    /\ subject \in [Checks -> Redeemers \cup {NoWorker}]
    /\ presented \in [Checks -> Nat]
    /\ row \in [Checks -> [status : {"none", "active", "revoked"}, version : Nat]]
    /\ deadOnEntry \in [Checks -> BOOLEAN]
    /\ minted \in [PairingCodes -> SUBSET Redeemers]

\* redeem_pairing_code redeems a code exactly once: whatever crashes, fails or is
\* retried in between, one code never creates two identities.
CodeMintsOnce == \A c \in PairingCodes : \A v, w \in minted[c] : v = w

\* The audit trail survives a crash between the three statements: the row of a
\* code that created an identity names it for as long as the row is kept.
MintedIsBound == \A c \in rows : \A w \in minted[c] : redeemedBy[c] = w

\* authenticate never accepts a credential that was rotated away or revoked before
\* the call began, although it compares a row it read under a lock it released.
DeadNeverAccepted == \A k \in Checks : deadOnEntry[k] => verdict[k] # "accepted"

\* One code makes one identity and its row says which, whatever crashes in between, and what was dead is refused.
IdentitiesAreSound == CodeMintsOnce /\ MintedIsBound /\ DeadNeverAccepted

-----------------------------------------------------------------------------
(* The inductive invariant                                                 *)

\* The lock is held exactly by the caller between its first and last statement,
\* which presents a code it has claimed.
LockFacts ==
    /\ \A w \in Redeemers : step[w] \in {"claimed", "bound"} <=> lockHolder = w
    /\ \A w \in Redeemers : step[w] # "idle" => code[w] \in PairingCodes
    /\ \A w \in Redeemers : step[w] = "claimed" => redeemedBy[code[w]] = Claimed
    /\ \A w \in Redeemers : step[w] = "bound" => redeemedBy[code[w]] = w

\* MintedIsBound for pruned codes too: a hash that left the table never returns.
BoundForever == \A c \in PairingCodes : \A w \in minted[c] : redeemedBy[c] = w

\* A credential that was dead when a check began is still dead, and the row the
\* check has read says so.
DeadFacts == \A k \in Checks : verdict[k] # "none" =>
    /\ subject[k] \in Redeemers
    /\ step[subject[k]] = "done"
    /\ presented[k] <= version[subject[k]]
    /\ deadOnEntry[k] =>
         /\ status[subject[k]] # "active" \/ presented[k] < version[subject[k]]
         /\ verdict[k] = "read" => ~Accepts(row[k], presented[k])
         /\ verdict[k] # "accepted"

IInv == TypeOK /\ LockFacts /\ BoundForever /\ DeadFacts

=============================================================================
