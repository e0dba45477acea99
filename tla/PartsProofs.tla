----------------------------- MODULE PartsProofs -----------------------------
(***************************************************************************)
(* The parts that share no state with the others, proved side by side, each *)
(* for every value of its constants: the device's store, the server         *)
(* process, the access of administrators, the publication of model          *)
(* intelligence, the identity store of the server, the wire between server  *)
(* and worker, one dispatch over HTTP and the opening of the durable store. *)
(* For each its invariant is inductive, and what the run checks of it       *)
(* follows.                                                                *)
(***************************************************************************)
EXTENDS WorkerLocalStore, ServerProcess, AdminAccess, ModelIntelligence, WorkerIdentityStore, WorkerWire, HttpAdapter, StoreOpening,
        FiniteSetTheorems, TLAPS

-----------------------------------------------------------------------------
(* The device's own state: commands, origins, CA files and pairings.        *)

\* Before the first pairing there is no row and no command.
LEMMA StoreInitEstablishes == StoreInit => StoreIInv
<1> SUFFICES ASSUME StoreInit PROVE StoreIInv
  OBVIOUS
<1>1. ~Decodes
  BY DEF StoreInit, Decodes
<1>2. NoRow \notin Identities
  BY LocalStoreAssumption DEF Identities
<1> QED
  BY <1>1, <1>2, LocalStoreAssumption DEF StoreInit, StoreIInv, StoreTypeOK, CommandRecords, KnownIdentities, PendingFacts,
     TrustBelongsToIdentity, TrustIsCurrent, CredentialStaysHome, OneRunner, Idle

\* A row that decodes is an identity, and the other way round.
LEMMA DecodesMeansIdentity == StoreTypeOK => (Decodes <=> idRow \in Identities)
  BY LocalStoreAssumption DEF StoreTypeOK, Decodes, Identities

\* A command that has not begun is a command's record.
LEMMA IdleIsARecord == Idle \in CommandRecords
  BY DEF Idle, CommandRecords

\* Pair settles both rows in one transaction, and no command expects the identity it makes.
LEMMA PairKeeps == ASSUME StoreIInv, NEW c \in Commands, Pair(c) PROVE StoreIInv'
<1> USE DEF StoreIInv, Pair
<1> PICK o \in Origins, ca \in CaPaths \union {NoRow} :
      /\ idRow' = [id |-> pairings + 1, origin |-> o]
      /\ trust' = SavedTrust(o, ca)
      /\ offered' = IF ca # NoRow THEN {ca} ELSE IF trust' # NoRow THEN {trust'.path} ELSE {}
  OBVIOUS
<1>1. idRow' \in Identities /\ pairings' \in 0..MaxPairings
  BY LocalStoreAssumption DEF StoreTypeOK, Identities
<1>2. trust' \in [origin : Origins, path : CaPaths] \union {NoRow}
  BY DEF StoreTypeOK, SavedTrust
<1>3. StoreTypeOK'
  BY <1>1, <1>2 DEF StoreTypeOK
<1>4. KnownIdentities'
  BY <1>1 DEF KnownIdentities, StoreTypeOK, Identities
<1>5. PendingFacts'
  <2> SUFFICES ASSUME NEW d \in Commands
               PROVE  /\ command[d].pending => command[d].ca # NoRow
                      /\ command[d].expected # idRow'
    BY DEF PendingFacts
  <2>1. command[d].expected \in Identities => command[d].expected.id <= pairings
    BY DEF KnownIdentities
  <2>2. idRow'.id = pairings + 1 /\ pairings \in Nat
    BY DEF StoreTypeOK
  <2>3. command[d].expected \in Identities \union {NoRow}
    BY DEF StoreTypeOK, CommandRecords
  <2>4. idRow' # NoRow
    BY <1>1, LocalStoreAssumption DEF Identities
  <2> QED BY <2>1, <2>2, <2>3, <2>4, <1>1 DEF PendingFacts, Identities
<1>6. TrustBelongsToIdentity'
  <2>1. trust' # NoRow => trust'.origin = o
    BY DEF SavedTrust, TrustBelongsToIdentity
  <2> QED BY <2>1 DEF TrustBelongsToIdentity
<1>7. TrustIsCurrent'
  BY DEF TrustIsCurrent, SavedTrust
<1>8. CredentialStaysHome' /\ OneRunner'
  BY DEF CredentialStaysHome, OneRunner
<1> QED BY <1>3, <1>4, <1>5, <1>6, <1>7, <1>8

\* clear_identity takes both rows, and leaves nothing to belong to anything.
LEMMA UnpairKeeps == ASSUME StoreIInv, NEW c \in Commands, Unpair(c) PROVE StoreIInv'
<1> USE DEF StoreIInv, Unpair
<1>1. ~Decodes'
  BY DEF Decodes
<1>2. NoRow \notin Identities
  BY LocalStoreAssumption DEF Identities
<1> QED
  BY <1>1, <1>2 DEF StoreTypeOK, KnownIdentities, PendingFacts, TrustBelongsToIdentity, TrustIsCurrent,
     CredentialStaysHome, OneRunner

\* resolve_run_trust reads only: the command is not yet one that expects an identity.
LEMMA ResolveKeeps == ASSUME StoreIInv, NEW c \in Commands, Resolve(c) PROVE StoreIInv'
<1> USE DEF StoreIInv, Resolve
<1> PICK o \in Origins, ca \in CaPaths \union {NoRow} :
      command' = [command EXCEPT ![c] = [Idle EXCEPT !.at = "resolved", !.origin = o,
                    !.ca = IF ca # NoRow THEN ca ELSE StoredCa(o),
                    !.pending = (ca # NoRow /\ Decodes /\ idRow.origin = o)]]
  OBVIOUS
<1>0. Decodes' = Decodes
  BY DEF Decodes
<1>1. StoredCa(o) \in CaPaths \union {NoRow}
  BY DEF StoreTypeOK, StoredCa
<1>2. StoreTypeOK'
  <2>1. [Idle EXCEPT !.at = "resolved", !.origin = o, !.ca = IF ca # NoRow THEN ca ELSE StoredCa(o),
                     !.pending = (ca # NoRow /\ Decodes /\ idRow.origin = o)] \in CommandRecords
    BY <1>1 DEF Idle, CommandRecords
  <2> QED BY <2>1 DEF StoreTypeOK
<1>3. NoRow \notin Identities
  BY LocalStoreAssumption DEF Identities
<1>4. KnownIdentities'
  BY <1>3 DEF KnownIdentities, Idle, StoreTypeOK
<1>5. PendingFacts'
  BY <1>0 DEF PendingFacts, Idle, StoreTypeOK
<1>6. TrustBelongsToIdentity' /\ TrustIsCurrent'
  BY <1>0 DEF TrustBelongsToIdentity, TrustIsCurrent
<1>7. CredentialStaysHome' /\ OneRunner'
  BY DEF CredentialStaysHome, OneRunner, Idle, StoreTypeOK
<1> QED BY <1>2, <1>4, <1>5, <1>6, <1>7

\* The second transaction of a run reads the identity it will store its CA for, and offers the CA, or strays.
LEMMA ExpectKeeps == ASSUME StoreIInv, NEW c \in Commands, Expect(c) PROVE StoreIInv'
<1> USE DEF StoreIInv, Expect
<1>0. Decodes' = Decodes
  BY DEF Decodes
<1>1. StoreTypeOK'
  <2>1. (IF command[c].pending THEN idRow ELSE NoRow) \in Identities \union {NoRow}
    BY DEF StoreTypeOK
  <2> DEFINE read == IF command[c].pending THEN idRow ELSE NoRow
             ready == [command[c] EXCEPT !.at = "ready", !.expected = read]
  <2>2. command[c] \in CommandRecords
    BY DEF StoreTypeOK
  <2>3. ready \in CommandRecords
    <3>1. read \in Identities \union {NoRow}
      BY <2>1
    <3> HIDE DEF read
    <3> QED BY <2>2, <3>1 DEF CommandRecords
  <2>4. command' = [command EXCEPT ![c] = ready]
    BY DEF StoreTypeOK
  <2> HIDE DEF ready
  <2>5. command' \in [Commands -> CommandRecords]
    BY <2>3, <2>4 DEF StoreTypeOK
  <2> QED BY <2>5 DEF StoreTypeOK
<1>2. NoRow \notin Identities
  BY LocalStoreAssumption DEF Identities
<1>3. KnownIdentities'
  BY <1>2 DEF KnownIdentities, StoreTypeOK
<1>4. PendingFacts'
  <2> SUFFICES ASSUME NEW d \in Commands
               PROVE  /\ command'[d].pending => command'[d].ca # NoRow
                      /\ (command'[d].at \in {"ready", "starting", "running", "serving"} /\ command'[d].pending
                          /\ Decodes /\ command'[d].expected = idRow) => command'[d].ca \in offered'
                      /\ (command'[d].at \in {"ready", "starting", "running", "serving"} /\ command'[d].pending
                          /\ command'[d].expected = NoRow) => command'[d].ca \in strayed'
    BY <1>0 DEF PendingFacts
  <2>1. CASE d = c
    BY <2>1 DEF PendingFacts, StoreTypeOK, Decodes
  <2>2. CASE d # c
    BY <2>2 DEF PendingFacts, StoreTypeOK
  <2> QED BY <2>1, <2>2
<1>5. TrustBelongsToIdentity' /\ TrustIsCurrent'
  BY <1>0 DEF TrustBelongsToIdentity, TrustIsCurrent
<1>6. CredentialStaysHome' /\ OneRunner'
  BY DEF CredentialStaysHome, OneRunner, StoreTypeOK
<1> QED BY <1>1, <1>3, <1>4, <1>5, <1>6

\* The lock goes to a command only while nobody has it.
LEMMA AcquireLockKeeps == ASSUME StoreIInv, NEW c \in Commands, AcquireLock(c) PROVE StoreIInv'
<1> USE DEF StoreIInv, AcquireLock
<1>0. Decodes' = Decodes
  BY DEF Decodes
<1>1. \/ LockIsFree /\ holder' = c /\ command' = [command EXCEPT ![c].at = "starting"]
      \/ holder' = holder /\ command' = [command EXCEPT ![c] = Idle]
  OBVIOUS
<1>2. NoRow \notin Identities
  BY LocalStoreAssumption DEF Identities
<1>3. StoreTypeOK'
  <2>1. command' \in [Commands -> CommandRecords]
    BY <1>1, IdleIsARecord DEF StoreTypeOK, CommandRecords
  <2> QED BY <1>1, <2>1 DEF StoreTypeOK
<1>4. KnownIdentities'
  BY <1>1, <1>2 DEF KnownIdentities, Idle, StoreTypeOK, CommandRecords
<1>5. PendingFacts'
  BY <1>0, <1>1 DEF PendingFacts, Idle, StoreTypeOK, CommandRecords
<1>6. TrustBelongsToIdentity' /\ TrustIsCurrent'
  BY <1>0 DEF TrustBelongsToIdentity, TrustIsCurrent
<1>7. CredentialStaysHome' /\ OneRunner'
  BY <1>1, LocalStoreAssumption DEF CredentialStaysHome, OneRunner, Idle, StoreTypeOK, CommandRecords, LockIsFree
<1> QED BY <1>3, <1>4, <1>5, <1>6, <1>7

\* run() reads the identity again, and goes on only with one of its own origin.
LEMMA StartWorkerKeeps == ASSUME StoreIInv, NEW c \in Commands, StartWorker(c) PROVE StoreIInv'
<1> USE DEF StoreIInv, StartWorker
<1>0. Decodes' = Decodes
  BY DEF Decodes
<1>1. \/ /\ Decodes /\ MayPresent(c) /\ holder' = holder
         /\ command' = [command EXCEPT ![c].at = "running", ![c].held = idRow]
      \/ holder' = NoRow /\ command' = [command EXCEPT ![c] = Idle]
  OBVIOUS
<1>2. NoRow \notin Identities /\ (Decodes => idRow \in Identities)
  BY LocalStoreAssumption, DecodesMeansIdentity DEF Identities
<1>3. StoreTypeOK'
  <2>1. command' \in [Commands -> CommandRecords]
    BY <1>1, <1>2, IdleIsARecord DEF StoreTypeOK, CommandRecords
  <2> QED BY <1>1, <2>1 DEF StoreTypeOK
<1>4. KnownIdentities'
  BY <1>1, <1>2 DEF KnownIdentities, Idle, StoreTypeOK, CommandRecords
<1>5. PendingFacts'
  BY <1>0, <1>1 DEF PendingFacts, Idle, StoreTypeOK, CommandRecords
<1>6. TrustBelongsToIdentity' /\ TrustIsCurrent'
  BY <1>0 DEF TrustBelongsToIdentity, TrustIsCurrent
<1>7. CredentialStaysHome'
  BY <1>1 DEF CredentialStaysHome, Idle, StoreTypeOK, CommandRecords, MayPresent
<1>8. OneRunner'
  BY <1>1, LocalStoreAssumption DEF OneRunner, Idle, StoreTypeOK
<1> QED BY <1>3, <1>4, <1>5, <1>6, <1>7, <1>8

\* The CA that proved itself is stored for the identity the run read, or for whichever there is if it read none.
LEMMA AcceptedKeeps == ASSUME StoreIInv, NEW c \in Commands, Accepted(c) PROVE StoreIInv'
<1> USE DEF StoreIInv, Accepted
<1>0. Decodes' = Decodes
  BY DEF Decodes
<1>1. \/ trust' = trust
      \/ /\ trust' = [origin |-> command[c].origin, path |-> command[c].ca]
         /\ command[c].pending /\ Decodes /\ idRow.origin = command[c].origin
         /\ command[c].expected = NoRow \/ command[c].expected = idRow
  BY DEF TrustStillApplies
<1>2. command' = [command EXCEPT ![c].at = "serving"] /\ command[c].at = "running"
  OBVIOUS
<1>3. command[c].pending => command[c].ca \in CaPaths
  BY DEF PendingFacts, StoreTypeOK, CommandRecords
<1>4. StoreTypeOK'
  <2>1. Decodes => idRow \in Identities
    BY DecodesMeansIdentity
  <2>2. trust' \in [origin : Origins, path : CaPaths] \union {NoRow}
    BY <1>1, <1>3, <2>1 DEF StoreTypeOK, Identities
  <2>3. command' \in [Commands -> CommandRecords]
    BY <1>2 DEF StoreTypeOK, CommandRecords
  <2> QED BY <2>2, <2>3 DEF StoreTypeOK
<1>5. KnownIdentities'
  BY <1>2 DEF KnownIdentities, StoreTypeOK
<1>6. PendingFacts'
  BY <1>0, <1>2 DEF PendingFacts, StoreTypeOK
<1>7. TrustBelongsToIdentity'
  BY <1>0, <1>1 DEF TrustBelongsToIdentity
<1>8. TrustIsCurrent'
  BY <1>0, <1>1, <1>2 DEF TrustIsCurrent, PendingFacts
<1>9. CredentialStaysHome' /\ OneRunner'
  BY <1>2 DEF CredentialStaysHome, OneRunner, StoreTypeOK
<1> QED BY <1>4, <1>5, <1>6, <1>7, <1>8, <1>9

\* The lock goes with the command that held it.
LEMMA LeavesKeeps == ASSUME StoreIInv, NEW c \in Commands, Leaves(c) PROVE StoreIInv'
<1> USE DEF StoreIInv, Leaves
<1>0. Decodes' = Decodes
  BY DEF Decodes
<1>1. command' = [command EXCEPT ![c] = Idle] /\ (holder' = IF holder = c THEN NoRow ELSE holder)
  OBVIOUS
<1>2. NoRow \notin Identities
  BY LocalStoreAssumption DEF Identities
<1>3. StoreTypeOK'
  <2>1. command' \in [Commands -> CommandRecords]
    BY <1>1, IdleIsARecord DEF StoreTypeOK
  <2> QED BY <1>1, <2>1 DEF StoreTypeOK
<1>4. KnownIdentities'
  BY <1>1, <1>2 DEF KnownIdentities, Idle, StoreTypeOK
<1>5. PendingFacts'
  BY <1>0, <1>1 DEF PendingFacts, Idle, StoreTypeOK
<1>6. TrustBelongsToIdentity' /\ TrustIsCurrent'
  BY <1>0 DEF TrustBelongsToIdentity, TrustIsCurrent
<1>7. CredentialStaysHome' /\ OneRunner'
  BY <1>1 DEF CredentialStaysHome, OneRunner, Idle, StoreTypeOK
<1> QED BY <1>3, <1>4, <1>5, <1>6, <1>7

\* A row that no longer decodes promises nothing; the files are read only at a connect.
LEMMA TamperKeeps == ASSUME StoreIInv, Tamper PROVE StoreIInv'
<1> USE DEF StoreIInv, Tamper
<1>1. idRow' = idRow \/ idRow' = Corrupt
  OBVIOUS
<1>2. Decodes' => idRow' = idRow
  BY <1>1 DEF Decodes
<1>3. Decodes' => Decodes
  BY <1>2 DEF Decodes
<1>4. Corrupt \notin Identities
  BY LocalStoreAssumption DEF Identities
<1>5. StoreTypeOK'
  BY <1>1 DEF StoreTypeOK
<1>6. KnownIdentities'
  BY <1>1, <1>4 DEF KnownIdentities
<1>7. PendingFacts'
  BY <1>2, <1>3 DEF PendingFacts
<1>8. TrustBelongsToIdentity' /\ TrustIsCurrent'
  BY <1>2, <1>3 DEF TrustBelongsToIdentity, TrustIsCurrent
<1>9. CredentialStaysHome' /\ OneRunner'
  BY DEF CredentialStaysHome, OneRunner
<1> QED BY <1>5, <1>6, <1>7, <1>8, <1>9

\* Every step of a command or of another program on the device keeps the invariant.
LEMMA StoreStepKeeps == StoreIInv /\ [StoreNext]_storeVars => StoreIInv'
<1> SUFFICES ASSUME StoreIInv, [StoreNext]_storeVars PROVE StoreIInv'
  OBVIOUS
<1>1. ASSUME NEW c \in Commands, Pair(c) PROVE StoreIInv'
  BY <1>1, PairKeeps
<1>2. ASSUME NEW c \in Commands, Unpair(c) PROVE StoreIInv'
  BY <1>2, UnpairKeeps
<1>3. ASSUME NEW c \in Commands, Resolve(c) PROVE StoreIInv'
  BY <1>3, ResolveKeeps
<1>4. ASSUME NEW c \in Commands, Expect(c) PROVE StoreIInv'
  BY <1>4, ExpectKeeps
<1>5. ASSUME NEW c \in Commands, AcquireLock(c) PROVE StoreIInv'
  BY <1>5, AcquireLockKeeps
<1>6. ASSUME NEW c \in Commands, StartWorker(c) PROVE StoreIInv'
  BY <1>6, StartWorkerKeeps
<1>7. ASSUME NEW c \in Commands, Accepted(c) PROVE StoreIInv'
  BY <1>7, AcceptedKeeps
<1>8. ASSUME NEW c \in Commands, Leaves(c) PROVE StoreIInv'
  BY <1>8, LeavesKeeps
<1>9. ASSUME Tamper PROVE StoreIInv'
  BY <1>9, TamperKeeps
<1>10. ASSUME UNCHANGED storeVars PROVE StoreIInv'
  BY <1>10 DEF storeVars, StoreIInv, StoreTypeOK, KnownIdentities, PendingFacts, TrustBelongsToIdentity,
     TrustIsCurrent, CredentialStaysHome, OneRunner, Decodes
<1> QED BY <1>1, <1>2, <1>3, <1>4, <1>5, <1>6, <1>7, <1>8, <1>9, <1>10 DEF StoreNext

-----------------------------------------------------------------------------

\* The invariant holds of every behaviour of the device's commands.
THEOREM DeviceStoreIsInductive == StoreSpec => []StoreIInv
  BY StoreInitEstablishes, StoreStepKeeps, PTL DEF StoreSpec

\* Rows, lock and commands have their types, whatever commands run beside each other.
THEOREM DeviceStoreTypeCorrect == StoreSpec => []StoreTypeOK
<1>1. StoreIInv => StoreTypeOK
  BY DEF StoreIInv
<1> QED BY <1>1, DeviceStoreIsInductive, PTL

\* worker_local_store.py and worker_ca_trust.py: the CA row belongs to the identity row and was given for it, or by a run that found no
\* identity to compare with, a credential is presented only where it was issued, and one runner holds the lock; for every number of commands.
THEOREM TrustAlwaysHolds == StoreSpec => []DeviceTrustHolds
<1>1. StoreIInv => DeviceTrustHolds
  BY DEF StoreIInv, DeviceTrustHolds
<1> QED BY <1>1, DeviceStoreIsInductive, PTL

-----------------------------------------------------------------------------
(* The server process: signals and certificates.                            *)

\* The process is running once it has taken its five steps, and has exited one step later.
LEMMA FiveSteps == Len(Steps) = 5 /\ Exited = 6
  BY DEF Steps, Exited

\* What each step of the start acquires.
LEMMA StepNames ==
  ASSUME NEW i \in 0..4
  PROVE  /\ Steps[i + 1] \in {"store", "plane", "server", "listener", "reaper"}
         /\ Steps[i + 1] = "server" <=> i = 2
         /\ Steps[i + 1] = "listener" <=> i = 3
<1>1. CASE i = 0 BY <1>1 DEF Steps
<1>2. CASE i = 1 BY <1>2 DEF Steps
<1>3. CASE i = 2 BY <1>3 DEF Steps
<1>4. CASE i = 3 BY <1>4 DEF Steps
<1>5. CASE i = 4 BY <1>5 DEF Steps
<1> QED BY <1>1, <1>2, <1>3, <1>4, <1>5

\* The cleanup leaves nothing of what a start acquires.
LEMMA CleanupTakesAll == ProcessTypeOK => Cleanup(held) = {}
  BY DEF ProcessTypeOK, Cleanup

\* Before the first step nothing is held and nothing asked for.
LEMMA ProcessInitEstablishes == ProcessInit => ProcessIInv
  BY FiveSteps DEF ProcessInit, ProcessIInv, ProcessTypeOK, ContextFacts, HupFacts, StoppedHoldsNothing, LastHupIsServed

\* The certificates cannot change before both contexts have been made from them.
LEMMA StartStepKeeps == ASSUME ProcessIInv, StartStep PROVE ProcessIInv'
<1> USE DEF ProcessIInv, ProcessTypeOK
<1>1. phase \in 0..4 /\ phase' = phase + 1 /\ UNCHANGED <<certs, hup, reload>>
  BY FiveSteps DEF StartStep
<1>2. held' \subseteq {"store", "plane", "server", "listener", "reaper"}
  BY <1>1, StepNames DEF StartStep
<1>3. /\ phase = 2 => tls' = [tls EXCEPT !.http = certs.gen]
      /\ phase = 3 => tls' = [tls EXCEPT !.worker = certs.gen]
      /\ phase \in {0, 1, 4} => tls' = tls
  <2>1. (Steps[phase + 1] = "server" <=> phase = 2) /\ (Steps[phase + 1] = "listener" <=> phase = 3)
    BY <1>1, StepNames
  <2>2. tls' = IF Steps[phase + 1] = "server" THEN [tls EXCEPT !.http = certs.gen]
               ELSE IF Steps[phase + 1] = "listener" THEN [tls EXCEPT !.worker = certs.gen] ELSE tls
    BY DEF StartStep
  <2> QED BY <2>1, <2>2
<1>4. ProcessTypeOK'
  BY <1>1, <1>2, <1>3
<1>5. ContextFacts'
  BY <1>1, <1>3 DEF ContextFacts
<1>6. HupFacts' /\ LastHupIsServed'
  BY <1>1 DEF HupFacts, LastHupIsServed
<1>7. StoppedHoldsNothing'
  BY <1>1, FiveSteps DEF StoppedHoldsNothing
<1> QED BY <1>4, <1>5, <1>6, <1>7

\* A start that fails gives back whatever it has acquired so far.
LEMMA StartFailsKeeps == ASSUME ProcessIInv, StartFails PROVE ProcessIInv'
<1> USE DEF ProcessIInv, ProcessTypeOK
<1>1. phase \in 0..4 /\ phase' = 6 /\ held' = {} /\ UNCHANGED <<tls, certs, hup, reload>>
  BY FiveSteps, CleanupTakesAll DEF StartFails
<1> QED BY <1>1 DEF ContextFacts, HupFacts, LastHupIsServed, StoppedHoldsNothing

\* New certificates are younger than those of every signal so far.
LEMMA RenewKeeps == ASSUME ProcessIInv, NEW ok \in BOOLEAN, Renew(ok) PROVE ProcessIInv'
<1> USE DEF ProcessIInv, ProcessTypeOK
<1>1. phase = 5 /\ certs' = [gen |-> certs.gen + 1, ok |-> ok] /\ UNCHANGED <<phase, held, tls, hup, reload>>
  BY FiveSteps DEF Renew
<1> QED BY <1>1 DEF ContextFacts, HupFacts, LastHupIsServed, StoppedHoldsNothing

\* A signal is one more than has been accounted for, also while a reload is under way.
LEMMA HangupKeeps == ASSUME ProcessIInv, Hangup PROVE ProcessIInv'
<1> USE DEF ProcessIInv, ProcessTypeOK
<1>1. hup' = [hup EXCEPT !.requested = hup.requested + 1, !.gen = certs.gen]
  BY DEF Hangup
<1>2. UNCHANGED <<phase, held, tls, certs, reload>>
  BY DEF Hangup
<1>3. ProcessTypeOK'
  <2>1. hup.requested + 1 \in Nat /\ certs.gen \in Nat
    OBVIOUS
  <2>2. hup' \in [requested : Nat, processed : Nat, gen : Nat]
    BY <1>1, <2>1
  <2> QED BY <1>2, <2>2
<1>4. hup'.requested = hup.requested + 1 /\ hup'.processed = hup.processed /\ hup'.gen = certs.gen
  BY <1>1
<1>5. HupFacts' /\ LastHupIsServed'
  BY <1>2, <1>4 DEF HupFacts, LastHupIsServed
<1>6. ContextFacts' /\ StoppedHoldsNothing'
  BY <1>2 DEF ContextFacts, StoppedHoldsNothing
<1> QED BY <1>3, <1>5, <1>6

\* perform_reload reads what is asked for before it reads the files.
LEMMA ReloadBeginKeeps == ASSUME ProcessIInv, ReloadBegin PROVE ProcessIInv'
<1> USE DEF ProcessIInv, ProcessTypeOK
<1>1. /\ phase = 5 /\ reload.at = "no" /\ hup.requested # hup.processed
      /\ reload'.at \in {"verified", "done"} /\ reload'.requested = hup.requested
      /\ reload'.read = certs.gen /\ reload'.old = 0
      /\ UNCHANGED <<phase, held, tls, certs, hup>>
  BY FiveSteps DEF ReloadBegin
<1>2. ProcessTypeOK'
  BY <1>1 DEF ReloadBegin
<1> QED BY <1>1, <1>2 DEF ContextFacts, HupFacts, LastHupIsServed, StoppedHoldsNothing

\* The HTTP listener's context is kept until the worker listener has taken the new one.
LEMMA ReloadHttpKeeps == ASSUME ProcessIInv, ReloadHttp PROVE ProcessIInv'
<1> USE DEF ProcessIInv, ProcessTypeOK
<1>1. /\ reload.at = "verified" /\ tls' = [tls EXCEPT !.http = reload.read]
      /\ reload' = [reload EXCEPT !.at = "http", !.old = tls.http]
      /\ UNCHANGED <<phase, held, certs, hup>>
  BY DEF ReloadHttp
<1>2. ProcessTypeOK'
  BY <1>1
<1>3. /\ reload'.at = "http" /\ reload'.old = tls.http /\ reload'.requested = reload.requested
      /\ reload'.read = reload.read /\ tls'.http = reload.read /\ tls'.worker = tls.worker
  BY <1>1
<1>4. ContextFacts' /\ StoppedHoldsNothing'
  BY <1>1, <1>3 DEF ContextFacts, StoppedHoldsNothing
<1>5. HupFacts' /\ LastHupIsServed'
  BY <1>1, <1>3 DEF HupFacts, LastHupIsServed
<1> QED BY <1>2, <1>4, <1>5

\* The worker listener takes the new context, or the HTTP listener gets the old one back.
LEMMA ReloadWorkerKeeps == ASSUME ProcessIInv, NEW ok \in BOOLEAN, ReloadWorker(ok) PROVE ProcessIInv'
<1> USE DEF ProcessIInv, ProcessTypeOK
<1>1. /\ reload.at = "http" /\ reload' = [reload EXCEPT !.at = "done"]
      /\ tls' = IF ok THEN [tls EXCEPT !.worker = reload.read] ELSE [tls EXCEPT !.http = reload.old]
      /\ UNCHANGED <<phase, held, certs, hup>>
  BY DEF ReloadWorker, PutsBack
<1> QED BY <1>1 DEF ContextFacts, HupFacts, LastHupIsServed, StoppedHoldsNothing

\* The end of a reload accounts for what was asked for at its beginning.
LEMMA ReloadEndKeeps == ASSUME ProcessIInv, ReloadEnd PROVE ProcessIInv'
<1> USE DEF ProcessIInv, ProcessTypeOK
<1>1. /\ reload.at = "done" /\ hup' = [hup EXCEPT !.processed = reload.requested]
      /\ reload' = [reload EXCEPT !.at = "no"]
      /\ UNCHANGED <<phase, held, tls, certs>>
  BY DEF ReloadEnd, Processed
<1> QED BY <1>1 DEF ContextFacts, HupFacts, LastHupIsServed, StoppedHoldsNothing

\* An orderly stop waits for the reload under way and gives everything back.
LEMMA StopKeeps == ASSUME ProcessIInv, Stop PROVE ProcessIInv'
<1> USE DEF ProcessIInv, ProcessTypeOK
<1>1. phase' = 6 /\ held' = {} /\ reload.at = "no" /\ UNCHANGED <<tls, certs, hup, reload>>
  BY FiveSteps, CleanupTakesAll DEF Stop
<1> QED BY <1>1 DEF ContextFacts, HupFacts, LastHupIsServed, StoppedHoldsNothing

\* Every step of the start, of a reload, of the administrator and of the stop keeps the invariant.
LEMMA ProcessStepKeeps == ProcessIInv /\ [ProcessNext]_processVars => ProcessIInv'
<1> SUFFICES ASSUME ProcessIInv, [ProcessNext]_processVars PROVE ProcessIInv'
  OBVIOUS
<1>1. CASE StartStep
  BY <1>1, StartStepKeeps
<1>2. CASE StartFails
  BY <1>2, StartFailsKeeps
<1>3. ASSUME NEW ok \in BOOLEAN, Renew(ok) PROVE ProcessIInv'
  BY <1>3, RenewKeeps
<1>4. CASE Hangup
  BY <1>4, HangupKeeps
<1>5. CASE ReloadBegin
  BY <1>5, ReloadBeginKeeps
<1>6. CASE ReloadHttp
  BY <1>6, ReloadHttpKeeps
<1>7. ASSUME NEW ok \in BOOLEAN, ReloadWorker(ok) PROVE ProcessIInv'
  BY <1>7, ReloadWorkerKeeps
<1>8. CASE ReloadEnd
  BY <1>8, ReloadEndKeeps
<1>9. CASE Stop
  BY <1>9, StopKeeps
<1>10. CASE UNCHANGED processVars
  BY <1>10 DEF processVars, ProcessIInv, ProcessTypeOK, ContextFacts, HupFacts, LastHupIsServed, StoppedHoldsNothing
<1> QED BY <1>1, <1>2, <1>3, <1>4, <1>5, <1>6, <1>7, <1>8, <1>9, <1>10 DEF ProcessNext, Maintenance

-----------------------------------------------------------------------------

\* The invariant holds of every life of the server process.
THEOREM ProcessIsInductive == ProcessSpec => []ProcessIInv
  BY ProcessInitEstablishes, ProcessStepKeeps, PTL DEF ProcessSpec

\* Phases, contexts and counters have their types.
THEOREM ProcessTypeCorrect == ProcessSpec => []ProcessTypeOK
<1>1. ProcessIInv => ProcessTypeOK
  BY DEF ProcessIInv
<1> QED BY <1>1, ProcessIsInductive, PTL

\* control_server.py and tls_reload.py: whatever stopped holds nothing, both listeners serve one pair of files between
\* reloads, and no SIGHUP is accounted for by a reload that read the files before it; for every number of either.
THEOREM ReloadsStayWhole == ProcessSpec => []ReloadsAreWhole
<1>1. ProcessIInv => ReloadsAreWhole
  BY FiveSteps DEF ProcessIInv, ReloadsAreWhole, ContextsAgree, ContextFacts
<1> QED BY <1>1, ProcessIsInductive, PTL

-----------------------------------------------------------------------------
(* Access to the control surface: bootstraps, logins and sessions.          *)

\* Before the first visitor there are no sessions and no numbers.
LEMMA AccessInitEstablishes == AccessInit => AccessIInv
  BY FS_EmptySet DEF AccessInit, AccessIInv, AccessTypeOK, NumberedOnce, AtMostOne, Numbered

\* A step that opens and ends no session keeps their numbers.
LEMMA NumbersStay ==
  ASSUME AccessIInv, UNCHANGED <<sessions, ended>>, AtMostOne'
  PROVE  AccessIInv'
  BY DEF AccessIInv, AccessTypeOK, NumberedOnce, Numbered

\* The store looks for an administrator again before it makes one.
LEMMA ConsumeKeeps == ASSUME AccessIInv, NEW v \in Visitors, BootstrapConsume(v) PROVE AccessIInv'
<1>1. identity' = identity \/ (identity = {} /\ identity' = {v})
  BY DEF BootstrapConsume, Consumed
<1>2. AtMostOne'
  BY <1>1 DEF AccessIInv, AtMostOne
<1> QED BY <1>2, NumbersStay DEF BootstrapConsume

\* The next session gets a number that neither an open session nor an ended one has had.
LEMMA OpenSessionKeeps == ASSUME AccessIInv, NEW v \in Visitors, OpenSession(v) PROVE AccessIInv'
<1> DEFINE new == [id |-> Numbered + 1, expires |-> clock + SessionTtl]
<1>1. sessions' = sessions \cup {new} /\ ended' = ended /\ identity' = identity
  BY DEF OpenSession, Numbered
<1>2. Cardinality(sessions) \in Nat /\ Cardinality(ended) \in Nat
  BY FS_CardinalityType DEF AccessIInv, AccessTypeOK
<1>3. new \notin sessions
  BY <1>2 DEF AccessIInv, NumberedOnce, Numbered, AccessTypeOK
<1>4. IsFiniteSet(sessions') /\ Cardinality(sessions') = Cardinality(sessions) + 1
  BY <1>1, <1>3, FS_AddElement DEF AccessIInv, AccessTypeOK
<1>5. Numbered' = Numbered + 1 /\ Numbered \in Nat
  BY <1>1, <1>2, <1>4 DEF Numbered
<1>6. new.id = Numbered + 1
  OBVIOUS
<1>7. AccessTypeOK'
  BY <1>1, <1>4, <1>5, <1>6 DEF AccessIInv, AccessTypeOK
<1>8. NumberedOnce'
  <2> HIDE DEF new
  <2>1. \A s \in sessions : s.id \in Nat /\ s.id <= Numbered /\ s.id \notin ended
    BY DEF AccessIInv, AccessTypeOK, NumberedOnce
  <2>2. \A i \in ended : i \in Nat /\ i <= Numbered
    BY DEF AccessIInv, AccessTypeOK, NumberedOnce
  <2>3. \A s, t \in sessions : s.id = t.id => s = t
    BY DEF AccessIInv, NumberedOnce
  <2>4. \A s \in sessions' : s.id <= Numbered' /\ s.id \notin ended'
    BY <2>1, <2>2, <1>1, <1>5, <1>6
  <2>5. \A i \in ended' : i <= Numbered'
    BY <2>2, <1>1, <1>5
  <2>6. \A s, t \in sessions' : s.id = t.id => s = t
    BY <2>1, <2>3, <1>1, <1>5, <1>6
  <2> QED BY <2>4, <2>5, <2>6 DEF NumberedOnce
<1> QED BY <1>1, <1>7, <1>8 DEF AccessIInv, AtMostOne

\* A session that ends moves its number from the open ones to the ended ones.
LEMMA EndingKeeps ==
  ASSUME AccessIInv, NEW gone, gone \subseteq sessions, \E id : gone \subseteq Lookup(id),
         sessions' = sessions \ gone, ended' = ended \cup {s.id : s \in gone}, identity' = identity
  PROVE  AccessIInv'
<1>1. CASE gone = {}
  <2>1. UNCHANGED <<sessions, ended>>
    BY <1>1
  <2> QED BY <2>1, NumbersStay DEF AccessIInv, AtMostOne
<1>2. CASE gone # {}
  <2> PICK s \in gone : TRUE
    BY <1>2
  <2>1. gone = {s}
    BY DEF Lookup, AccessIInv, NumberedOnce
  <2>2. ended' = ended \cup {s.id} /\ sessions' = sessions \ {s}
    BY <2>1
  <2>3. s \in sessions /\ s.id \notin ended
    BY DEF AccessIInv, NumberedOnce
  <2>4. Cardinality(sessions) \in Nat /\ Cardinality(ended) \in Nat
    BY FS_CardinalityType DEF AccessIInv, AccessTypeOK
  <2>5. IsFiniteSet(sessions') /\ Cardinality(sessions') = Cardinality(sessions) - 1
    BY <2>2, <2>3, FS_RemoveElement DEF AccessIInv, AccessTypeOK
  <2>6. IsFiniteSet(ended') /\ Cardinality(ended') = Cardinality(ended) + 1
    <3>1. IsFiniteSet(ended)
      BY DEF AccessIInv, AccessTypeOK
    <3>2. \A i : i \notin ended => IsFiniteSet(ended \cup {i}) /\ Cardinality(ended \cup {i}) = Cardinality(ended) + 1
      BY <3>1, FS_AddElement
    <3> QED BY <2>2, <2>3, <3>2
  <2>7. Numbered' = Numbered
    BY <2>4, <2>5, <2>6 DEF Numbered
  <2>8. AccessTypeOK'
    BY <2>2, <2>3, <2>5, <2>6 DEF AccessIInv, AccessTypeOK
  <2>9. NumberedOnce'
    BY <2>2, <2>3, <2>7 DEF AccessIInv, NumberedOnce
  <2> QED BY <2>8, <2>9 DEF AccessIInv, AtMostOne
<1> QED BY <1>1, <1>2

\* A request ends at most the session of its visitor, if its time is up.
LEMMA RequestKeeps ==
  ASSUME AccessIInv, NEW v \in Visitors, NEW changes \in BOOLEAN, NEW csrf \in BOOLEAN, Request(v, changes, csrf)
  PROVE  AccessIInv'
<1> DEFINE found == Lookup(visit[v].session)
           gone == found \ {s \in found : Live(s)}
<1>1. sessions' = sessions \ gone /\ ended' = ended \cup {s.id : s \in gone} /\ identity' = identity
  BY DEF Request
<1>2. gone \subseteq sessions /\ gone \subseteq Lookup(visit[v].session)
  BY DEF Lookup
<1> QED BY <1>1, <1>2, EndingKeeps

\* A logout ends the session of its visitor.
LEMMA LogoutKeeps == ASSUME AccessIInv, NEW v \in Visitors, Logout(v) PROVE AccessIInv'
<1> DEFINE live == {s \in Lookup(visit[v].session) : Live(s)}
<1>1. sessions' = sessions \ live /\ ended' = ended \cup {s.id : s \in live} /\ identity' = identity
  BY DEF Logout
<1>2. live \subseteq sessions /\ live \subseteq Lookup(visit[v].session)
  BY DEF Lookup
<1> QED BY <1>1, <1>2, EndingKeeps

\* Every step keeps the invariant of the access.
LEMMA AccessStepKeeps == AccessIInv /\ [AccessNext]_accessVars => AccessIInv'
<1> SUFFICES ASSUME AccessIInv, [AccessNext]_accessVars PROVE AccessIInv'
  OBVIOUS
<1>1. CASE UNCHANGED <<identity, sessions, ended>>
  BY <1>1, NumbersStay DEF AccessIInv, AtMostOne
<1>2. ASSUME NEW t \in Claims, IssueClaim(t) PROVE AccessIInv'
  BY <1>1, <1>2 DEF IssueClaim
<1>3. ASSUME NEW v \in Visitors, NEW t \in Claims, BootstrapBegin(v, t) PROVE AccessIInv'
  BY <1>1, <1>3 DEF BootstrapBegin
<1>4. ASSUME NEW v \in Visitors, Login(v) PROVE AccessIInv'
  BY <1>1, <1>4 DEF Login
<1>5. CASE AccessTick
  BY <1>1, <1>5 DEF AccessTick
<1>6. CASE UNCHANGED accessVars
  BY <1>1, <1>6 DEF accessVars
<1> QED
  BY <1>2, <1>3, <1>4, <1>5, <1>6, ConsumeKeeps, OpenSessionKeeps, RequestKeeps, LogoutKeeps DEF AccessNext

\* A request is accepted for a session that it finds open and in time, and none that is open has ended.
LEMMA AcceptedIsLive ==
  ASSUME AccessIInv, [AccessNext]_accessVars, accepted' # 0, accepted' # accepted
  PROVE  accepted' \notin ended /\ \E s \in sessions : s.id = accepted' /\ s.expires > clock
<1>1. PICK v \in Visitors, changes \in BOOLEAN, csrf \in BOOLEAN : Request(v, changes, csrf)
  BY DEF AccessNext, accessVars, IssueClaim, BootstrapBegin, BootstrapConsume, Login, OpenSession, Logout, AccessTick
<1>2. accepted' = visit[v].session /\ {s \in Lookup(visit[v].session) : Live(s)} # {}
  BY <1>1 DEF Request
<1> QED BY <1>2 DEF Lookup, Live, AccessIInv, NumberedOnce

\* The numbering of the sessions and the one administrator hold in every reachable state (consume_admin_claim, _create_admin_session).
THEOREM AccessIsInductive == AccessSpec => []AccessIInv
  BY AccessInitEstablishes, AccessStepKeeps, PTL DEF AccessSpec

\* AccessIsFinal for any number of visitors, claims and sessions: one administrator, and no request is accepted for a session
\* that is over (require_admin_session).
THEOREM AccessStaysFinal == AccessSpec => AccessIsFinal
<1>1. AccessIInv => OneAdministrator
  <2>1. identity = {} => Cardinality(identity) = 0
    BY FS_EmptySet
  <2>2. \A v : identity = {v} => Cardinality(identity) = 1
    BY FS_Singleton
  <2> QED BY <2>1, <2>2 DEF AccessIInv, AtMostOne, OneAdministrator
<1>2. AccessIInv /\ [AccessNext]_accessVars
        => [accepted' # 0 /\ accepted' # accepted => accepted' \notin ended /\ \E s \in sessions : s.id = accepted' /\ s.expires > clock]_accessVars
  BY AcceptedIsLive
<1> QED BY <1>1, <1>2, AccessIsInductive, PTL DEF AccessSpec, AccessIsFinal, SessionsEnd

-----------------------------------------------------------------------------
(* The publication of model intelligence: cuts, decisions and receipts.     *)

\* At the start nothing is published, decided or retained.
LEMMA MiInitEstablishes == MiInit => MiIInv
<1> SUFFICES ASSUME MiInit PROVE MiIInv
  OBVIOUS
<1>1. Used = 0
  BY FS_EmptySet DEF MiInit, Used
<1> QED
  BY <1>1, FS_EmptySet, CutsAreRead DEF MiInit, MiIInv, MiTypeOK, DecidedOnce, ReceiptsHold, DecidedWithActive, CutsOnlyNarrow, RetainedIsBounded

\* What is retained can be counted.
LEMMA UsedIsNat == MiTypeOK => Used \in Nat
  BY FS_CardinalityType DEF MiTypeOK, Used

\* Neither the files nor an activation touch what was decided and retained.
LEMMA ActivationKeeps ==
  ASSUME MiIInv, UNCHANGED <<decided, receipts, blobs, links>>, MiTypeOK', RetainedIsBounded'
  PROVE  MiIInv'
  BY DEF MiIInv, DecidedOnce, ReceiptsHold, DecidedWithActive, CutsOnlyNarrow, LinkOf

\* An activation makes room for the cut it activates.
LEMMA ReloadKeeps == ASSUME MiIInv, Reload \/ OtherReload PROVE MiIInv'
<1>1. published \in Cuts /\ active' = published /\ Used + 1 <= MaxRetained
  BY DEF Reload, OtherReload, Activatable, MiIInv, MiTypeOK
<1>2. server' = server \/ server' = [cut |-> published, expected |-> named]
  BY DEF Reload, OtherReload
<1>3. UNCHANGED <<published, named, decided, receipts, blobs, links, instant>>
  BY DEF Reload, OtherReload
<1>4. MiTypeOK'
  BY <1>1, <1>2, <1>3 DEF MiIInv, MiTypeOK
<1>5. RetainedIsBounded'
  BY <1>1, <1>3, UsedIsNat, CutsAreRead DEF RetainedIsBounded, Used, MiIInv
<1> QED BY <1>3, <1>4, <1>5, ActivationKeeps

\* The publisher, the administrator and the passing of time touch nothing that was decided.
LEMMA OutsideKeeps ==
  ASSUME MiIInv, NEW c \in Cuts, PublishCut(c) \/ NameCut(c.gen) \/ Pass
  PROVE  MiIInv'
<1>1. UNCHANGED <<active, server, decided, receipts, blobs, links>>
  BY DEF PublishCut, NameCut, Pass
<1>2. published' \in {published, c} /\ named' \in {named, c.gen} /\ instant' \in {instant, instant + 1}
  BY DEF PublishCut, NameCut, Pass
<1>3. MiTypeOK'
  BY <1>1, <1>2 DEF MiIInv, MiTypeOK
<1>4. RetainedIsBounded'
  BY <1>1 DEF MiIInv, RetainedIsBounded, Used
<1> QED BY <1>1, <1>3, <1>4, ActivationKeeps

\* What a captured cut admits at an instant is narrower than the model's own limit, and stands at that instant.
LEMMA PreparedNarrows ==
  ASSUME NEW cut \in Cuts, NEW expected, NEW i \in Nat
  PROVE  /\ Prepared(cut, expected, i) \in [limit : Nat \cup {Unset}, blocked : BOOLEAN]
         /\ ~Prepared(cut, expected, i).blocked =>
               /\ Prepared(cut, expected, i).limit <= CatalogLimit
               /\ cut.claim # Unset /\ cut.claim.notice = "none" /\ ~cut.claim.conflict
               /\ cut.claim.until > i /\ cut.claim.from <= i
<1>1. cut # Unset /\ CatalogLimit \in Nat \cup {Unset}
  BY CutsAreRead
<1>2. cut.claim # Unset => /\ cut.claim.notice \in {"none", "revoked", "critical"} /\ cut.claim.amount \in Nat
                           /\ cut.claim.from \in Nat /\ cut.claim.until \in Nat \cup {Unset}
  BY CutsAreRead
<1>3. Label(cut, i) = "public" =>
        /\ cut.claim # Unset /\ cut.claim.notice = "none" /\ ~cut.claim.conflict
        /\ cut.claim.until \in Nat /\ cut.claim.until > i /\ cut.claim.from <= i
  BY <1>2 DEF Label
<1>4. CASE cut.gen = expected /\ Label(cut, i) = "public" /\ CatalogLimit # Unset
  <2>1. Prepared(cut, expected, i) =
          [limit |-> IF cut.claim.amount < CatalogLimit THEN cut.claim.amount ELSE CatalogLimit, blocked |-> FALSE]
    BY <1>1, <1>4 DEF Prepared
  <2> QED BY <2>1, <1>1, <1>2, <1>3, <1>4
<1>5. CASE ~(cut.gen = expected /\ Label(cut, i) = "public" /\ CatalogLimit # Unset)
  <2>1. \E limit \in {CatalogLimit, Unset} : Prepared(cut, expected, i) = [limit |-> limit, blocked |-> TRUE]
    BY <1>1, <1>5 DEF Prepared
  <2> QED BY <2>1, <1>1
<1> QED BY <1>4, <1>5

\* A route is decided once, with the active cut.
LEMMA DecideKeeps == ASSUME MiIInv, NEW who \in Callers, DecideRoute(who) PROVE MiIInv'
<1> DEFINE d == [n |-> Cardinality(decided) + 1, who |-> who, cut |-> server.cut, expected |-> server.expected,
                 at |-> instant, active |-> active, out |-> Prepared(server.cut, server.expected, instant), given |-> FALSE]
<1>1. decided' = decided \cup {d} /\ UNCHANGED <<published, named, active, server, receipts, blobs, links, instant>>
  BY DEF DecideRoute
<1>2. server.cut \in Cuts /\ active = server.cut /\ instant \in Nat /\ server.expected \in {c.gen : c \in Cuts} \cup {0}
  BY DEF DecideRoute, Current, MiIInv, MiTypeOK
<1>3. Cardinality(decided) \in Nat
  BY FS_CardinalityType DEF MiIInv, MiTypeOK
<1>4. /\ d.out \in [limit : Nat \cup {Unset}, blocked : BOOLEAN]
      /\ ~d.out.blocked =>
            /\ d.out.limit <= CatalogLimit
            /\ d.cut.claim # Unset /\ d.cut.claim.notice = "none" /\ ~d.cut.claim.conflict
            /\ d.cut.claim.until > d.at /\ d.cut.claim.from <= d.at
  BY <1>2, PreparedNarrows
<1>5. /\ d \in Decisions /\ d.n = Cardinality(decided) + 1 /\ d.cut = d.active /\ d.given = FALSE
  BY <1>2, <1>3, <1>4 DEF Decisions
<1> HIDE DEF d
<1>6. \A e \in decided : e.n \in Nat /\ e.n <= Cardinality(decided)
  BY DEF MiIInv, MiTypeOK, DecidedOnce, Decisions
<1>7. d \notin decided
  BY <1>3, <1>5, <1>6
<1>8. IsFiniteSet(decided') /\ Cardinality(decided') = Cardinality(decided) + 1
  BY <1>1, <1>7, FS_AddElement DEF MiIInv, MiTypeOK
<1>9. MiTypeOK'
  BY <1>1, <1>5, <1>8 DEF MiIInv, MiTypeOK
<1>10. DecidedOnce'
  BY <1>1, <1>3, <1>5, <1>6, <1>8 DEF MiIInv, DecidedOnce
<1>11. ReceiptsHold'
  BY <1>1, <1>5 DEF MiIInv, ReceiptsHold
<1>12. DecidedWithActive' /\ CutsOnlyNarrow'
  BY <1>1, <1>4, <1>5 DEF MiIInv, DecidedWithActive, CutsOnlyNarrow
<1>13. RetainedIsBounded'
  BY <1>1 DEF MiIInv, RetainedIsBounded, Used
<1> QED BY <1>9, <1>10, <1>11, <1>12, <1>13 DEF MiIInv

\* A retained decision comes with its cut, within the bound that counts both.
LEMMA RetainKeeps == ASSUME MiIInv, NEW d \in decided, Retain(d) PROVE MiIInv'
<1> DEFINE receipt == <<"decision", d.n, d.cut>>
<1>1. /\ receipts' = receipts \cup {receipt} /\ receipt \notin receipts /\ blobs' = blobs \cup {d.cut}
      /\ UNCHANGED <<published, named, active, server, decided, links, instant>> /\ Room(d) <= MaxRetained
  BY DEF Retain, WithCut
<1>2. Cardinality(receipts) \in Nat /\ Cardinality(blobs) \in Nat /\ IsFiniteSet(receipts) /\ IsFiniteSet(blobs)
  BY FS_CardinalityType DEF MiIInv, MiTypeOK
<1>3. receipt = <<"decision", d.n, d.cut>>
  OBVIOUS
<1> HIDE DEF receipt
<1>4. IsFiniteSet(receipts') /\ Cardinality(receipts') = Cardinality(receipts) + 1
  BY <1>1, <1>2, FS_AddElement
<1>5. IsFiniteSet(blobs') /\ Cardinality(blobs') = Cardinality(blobs) + (IF d.cut \in blobs THEN 0 ELSE 1)
  <2> DEFINE c == d.cut
  <2>1. blobs' = blobs \cup {c}
    BY <1>1
  <2> HIDE DEF c
  <2>2. IsFiniteSet(blobs \cup {c}) /\ Cardinality(blobs \cup {c}) = IF c \in blobs THEN Cardinality(blobs) ELSE Cardinality(blobs) + 1
    BY <1>2, FS_AddElement
  <2>3. IsFiniteSet(blobs') /\ Cardinality(blobs') = Cardinality(blobs) + (IF c \in blobs THEN 0 ELSE 1)
    BY <1>2, <2>1, <2>2
  <2> QED BY <2>3 DEF c
<1>6. MiTypeOK'
  BY <1>1, <1>4, <1>5 DEF MiIInv, MiTypeOK
<1>7. ReceiptsHold'
  BY <1>1, <1>3 DEF MiIInv, ReceiptsHold
<1>8. DecidedOnce' /\ DecidedWithActive' /\ CutsOnlyNarrow'
  BY <1>1 DEF MiIInv, DecidedOnce, DecidedWithActive, CutsOnlyNarrow
<1>9. RetainedIsBounded'
  BY <1>1, <1>2, <1>4, <1>5, CutsAreRead DEF RetainedIsBounded, Room, Used
<1> QED BY <1>6, <1>7, <1>8, <1>9 DEF MiIInv

\* What is given was retained first; its number stays its own.
LEMMA BindKeeps == ASSUME MiIInv, NEW d \in decided, Bind(d) PROVE MiIInv'
<1> DEFINE e == [d EXCEPT !.given = TRUE]
           receipt == <<"binding", d.n, d.n>>
<1>1. /\ receipts' = receipts \cup {receipt} /\ <<"decision", d.n, d.cut>> \in receipts /\ ~d.given
      /\ links' = links \cup {LinkOf(d)} /\ decided' = (decided \ {d}) \cup {e}
      /\ UNCHANGED <<published, named, active, server, blobs, instant>>
      /\ Used + (IF active = Unset THEN 0 ELSE 1) + 1 <= MaxRetained
  BY DEF Bind, LinkOf
<1>2. d \in Decisions /\ decided \subseteq Decisions /\ IsFiniteSet(decided) /\ IsFiniteSet(receipts) /\ IsFiniteSet(blobs)
  BY DEF MiIInv, MiTypeOK
<1>3. /\ e \in Decisions /\ e.given = TRUE /\ e.n = d.n /\ e.who = d.who /\ e.cut = d.cut /\ e.active = d.active
      /\ e.out = d.out /\ e.at = d.at
  BY <1>2 DEF Decisions
<1>4. receipt = <<"binding", d.n, d.n>> /\ LinkOf(e) = LinkOf(d)
  BY <1>3 DEF LinkOf
<1> HIDE DEF e, receipt
<1>5. \A x, y \in decided : x.n = y.n => x = y
  BY DEF MiIInv, DecidedOnce
<1>6. e \notin decided
  BY <1>1, <1>3, <1>5
<1>7. Cardinality(decided) \in Nat /\ Cardinality(receipts) \in Nat /\ Cardinality(blobs) \in Nat
  BY <1>2, FS_CardinalityType
<1>8. IsFiniteSet(decided') /\ Cardinality(decided') = Cardinality(decided)
  <2>1. IsFiniteSet(decided \ {d}) /\ Cardinality(decided \ {d}) = Cardinality(decided) - 1
    BY <1>2, FS_RemoveElement
  <2>2. IsFiniteSet((decided \ {d}) \cup {e}) /\ Cardinality((decided \ {d}) \cup {e}) = Cardinality(decided \ {d}) + 1
    BY <2>1, <1>6, FS_AddElement
  <2> QED BY <1>1, <1>7, <2>1, <2>2
<1>9. IsFiniteSet(receipts') /\ Cardinality(receipts') \in Nat /\ Cardinality(receipts') <= Cardinality(receipts) + 1
  <2>1. IsFiniteSet(receipts \cup {receipt})
        /\ Cardinality(receipts \cup {receipt}) = IF receipt \in receipts THEN Cardinality(receipts) ELSE Cardinality(receipts) + 1
    BY <1>2, FS_AddElement
  <2>2. Cardinality(receipts') \in Nat
    BY <1>1, <2>1, FS_CardinalityType
  <2> QED BY <1>1, <1>7, <2>1, <2>2
<1>10. MiTypeOK'
  BY <1>1, <1>2, <1>3, <1>8, <1>9 DEF MiIInv, MiTypeOK
<1>11. DecidedOnce'
  BY <1>1, <1>3, <1>5, <1>8 DEF MiIInv, DecidedOnce
<1>12. ReceiptsHold'
  <2>1. \A r \in receipts' : \E x \in decided' : (r = <<"decision", x.n, x.cut>> /\ x.cut \in blobs') \/ r = <<"binding", x.n, x.n>>
    BY <1>1, <1>3, <1>4 DEF MiIInv, ReceiptsHold
  <2>2. \A x \in decided' : x.given =>
          <<"decision", x.n, x.cut>> \in receipts' /\ <<"binding", x.n, x.n>> \in receipts' /\ LinkOf(x) \in links'
    BY <1>1, <1>3, <1>4 DEF MiIInv, ReceiptsHold
  <2>3. \A l \in links' : \E x \in decided' : x.given /\ l = LinkOf(x)
    BY <1>1, <1>3, <1>4 DEF MiIInv, ReceiptsHold
  <2> QED BY <2>1, <2>2, <2>3 DEF ReceiptsHold
<1>13. DecidedWithActive' /\ CutsOnlyNarrow'
  BY <1>1, <1>3 DEF MiIInv, DecidedWithActive, CutsOnlyNarrow
<1>14. RetainedIsBounded'
  BY <1>1, <1>7, <1>9, CutsAreRead DEF RetainedIsBounded, Used
<1> QED BY <1>10, <1>11, <1>12, <1>13, <1>14 DEF MiIInv

\* Every step keeps the invariant of the publication.
LEMMA MiStepKeeps == MiIInv /\ [MiNext]_miVars => MiIInv'
<1>1. MiIInv /\ UNCHANGED miVars => MiIInv'
  BY DEF miVars, MiIInv, MiTypeOK, DecidedOnce, ReceiptsHold, DecidedWithActive, CutsOnlyNarrow, RetainedIsBounded, Used, LinkOf
<1>2. MiIInv /\ Pass => MiIInv'
  <2>1. MiIInv /\ Pass => UNCHANGED <<published, named, active, server, decided, receipts, blobs, links>> /\ instant' = instant + 1
    BY DEF Pass
  <2>2. MiIInv /\ Pass => MiTypeOK' /\ RetainedIsBounded'
    BY <2>1 DEF MiIInv, MiTypeOK, RetainedIsBounded, Used
  <2> QED BY <2>1, <2>2, ActivationKeeps
<1> QED BY <1>1, <1>2, ReloadKeeps, OutsideKeeps, DecideKeeps, RetainKeeps, BindKeeps DEF MiNext

\* A caller's projection is the one that was bound for it, and no other's.
LEMMA GivenVerifies == MiIInv => ProjectionsVerify
<1> SUFFICES ASSUME MiIInv, NEW d \in decided, NEW who \in Callers, d.given
             PROVE  Verified(who, d.n, d.n) <=> who = d.who
  BY DEF ProjectionsVerify
<1>1. ASSUME who = d.who PROVE Verified(who, d.n, d.n)
  <2>1. LinkOf(d) \in links /\ <<"binding", d.n, d.n>> \in receipts /\ <<"decision", d.n, d.cut>> \in receipts
    BY DEF MiIInv, ReceiptsHold
  <2>2. d.cut \in blobs
    <3>1. PICK x \in decided :
            \/ <<"decision", d.n, d.cut>> = <<"decision", x.n, x.cut>> /\ x.cut \in blobs
            \/ <<"decision", d.n, d.cut>> = <<"binding", x.n, x.n>>
      BY <2>1 DEF MiIInv, ReceiptsHold
    <3> QED BY <3>1
  <2>3. LinkOf(d).who = who /\ LinkOf(d).request = d.n /\ LinkOf(d).route = d.n
    BY <1>1 DEF LinkOf
  <2> QED BY <2>1, <2>2, <2>3 DEF Verified
<1>2. ASSUME Verified(who, d.n, d.n) PROVE who = d.who
  <2>1. PICK l \in links : l.who = who /\ l.request = d.n
    BY <1>2 DEF Verified
  <2>2. PICK x \in decided : l = LinkOf(x)
    BY DEF MiIInv, ReceiptsHold
  <2>3. x.n = d.n /\ x.who = who
    BY <2>1, <2>2 DEF LinkOf
  <2> QED BY <2>3 DEF MiIInv, DecidedOnce
<1> QED BY <1>1, <1>2

\* Whoever activates a cut has adopted the one before it.
LEMMA CutsGoForwards == MiIInv /\ [MiNext]_miVars => (active # Unset => active'.gen >= active.gen)
<1> SUFFICES ASSUME MiIInv, [MiNext]_miVars, active # Unset PROVE active'.gen >= active.gen
  OBVIOUS
<1>1. active \in Cuts /\ active.gen \in Nat
  BY CutsAreRead DEF MiIInv, MiTypeOK
<1>2. active' = active \/ (active' = published /\ UpdateAccepted(active, published))
  BY DEF MiNext, miVars, PublishCut, NameCut, Reload, OtherReload, Activatable, DecideRoute, Retain, Bind, Pass
<1> QED BY <1>1, <1>2 DEF UpdateAccepted

\* Decisions are numbered once, and given projections are bound, in every reachable state (retain_projection).
THEOREM PublicationIsInductive == MiSpec => []MiIInv
  BY MiInitEstablishes, MiStepKeeps, PTL DEF MiSpec

\* PublicationIsSound for any cuts, callers and bounds: cuts go forwards and only narrow, what was given verifies for its caller
\* alone, and what is retained stays within its bound.
THEOREM PublicationStaysSound == MiSpec => PublicationIsSound
<1>1. MiIInv => DecidedWithActive /\ CutsOnlyNarrow /\ ProjectionsVerify /\ RetainedIsBounded
  BY GivenVerifies DEF MiIInv
<1>2. MiIInv /\ [MiNext]_miVars => [active # Unset => active'.gen >= active.gen]_miVars
  BY CutsGoForwards
<1> QED BY <1>1, <1>2, PublicationIsInductive, PTL DEF MiSpec, PublicationIsSound, CutNeverGoesBack

-----------------------------------------------------------------------------
(* The identity store: pairing codes, identities, and the calls that check them. *)

\* __init__: an empty store satisfies the invariant.
LEMMA InitEstablishes == IdentityInit => IInv
  BY StoreAssumption DEF IdentityInit, IInv, TypeOK, LockFacts, BoundForever, DeadFacts, RedeemSteps, NoIdentity

\* The clock moves nothing else.
LEMMA TickKeeps == IInv /\ Tick => IInv'
<1> SUFFICES ASSUME IInv, Tick PROVE IInv'
  OBVIOUS
<1>1. TypeOK'
  BY DEF IInv, TypeOK, Tick, codeVars, identityVars, redeemVars, checkVars
<1>2. LockFacts' /\ BoundForever' /\ DeadFacts'
  BY DEF IInv, Tick, codeVars, identityVars, redeemVars, checkVars, LockFacts, BoundForever,
     DeadFacts, Accepts
<1> QED BY <1>1, <1>2 DEF IInv

\* begin_pairing touches no redeemed code and no identity, whether it issues a
\* code or fails after its prune.
LEMMA BeginPairingKeeps ==
  ASSUME IInv, NEW t \in 0 .. now,
         BeginPairingFails(t) \/ \E c \in PairingCodes : BeginPairing(c, t)
  PROVE  IInv'
<1>1. TypeOK'
  <2>1. CASE BeginPairingFails(t)
    BY <2>1 DEF IInv, TypeOK, BeginPairingFails, Kept, identityVars, redeemVars, checkVars
  <2>2. ASSUME NEW c \in PairingCodes, BeginPairing(c, t) PROVE TypeOK'
    <3>1. t + Ttl \in Nat
      BY StoreAssumption DEF IInv, TypeOK
    <3> QED
      BY <2>2, <3>1 DEF IInv, TypeOK, BeginPairing, Kept, identityVars, redeemVars, checkVars
  <2> QED BY <2>1, <2>2
<1>2. UNCHANGED <<redeemedBy, identityVars, redeemVars, checkVars, minted>>
  BY DEF BeginPairing, BeginPairingFails
<1>3. LockFacts' /\ BoundForever' /\ DeadFacts'
  BY <1>2 DEF IInv, identityVars, redeemVars, checkVars, LockFacts, BoundForever, DeadFacts, Accepts
<1> QED BY <1>1, <1>3 DEF IInv

\* A caller that arrives holds nothing yet.
LEMMA StartRedeemKeeps ==
  ASSUME IInv, NEW w \in Redeemers, NEW c \in PairingCodes, StartRedeem(w, c)
  PROVE  IInv'
<1> USE DEF IInv, TypeOK, StartRedeem, codeVars, identityVars, checkVars
<1>1. TypeOK'
  BY DEF RedeemSteps
<1>2. LockFacts'
  BY DEF LockFacts
<1>3. BoundForever'
  BY DEF BoundForever
<1>4. DeadFacts'
  BY DEF DeadFacts, Accepts
<1> QED BY <1>1, <1>2, <1>3, <1>4

\* The conditional UPDATE: a code nobody redeemed has created no identity.
LEMMA ClaimKeeps ==
  ASSUME IInv, NEW w \in Redeemers, ClaimCode(w)
  PROVE  IInv'
<1>0. code[w] \in PairingCodes
  BY DEF IInv, LockFacts, ClaimCode
<1> USE DEF IInv, TypeOK, ClaimCode, identityVars, checkVars
<1>1. TypeOK'
  BY <1>0 DEF RedeemSteps
<1>2. LockFacts'
  <2>0. \A v \in Redeemers : step[v] \notin {"claimed", "bound"}
    BY StoreAssumption DEF LockFacts, Unlocked
  <2>1. CASE Claimable(w)
    BY <1>0, <2>0, <2>1, StoreAssumption DEF LockFacts
  <2>2. CASE ~Claimable(w)
    BY <2>0, <2>2, StoreAssumption DEF LockFacts, Unlocked
  <2> QED BY <2>1, <2>2
<1>3. BoundForever'
  BY <1>0, StoreAssumption DEF BoundForever, Claimable
<1>4. DeadFacts'
  BY DEF DeadFacts, Accepts
<1> QED BY <1>1, <1>2, <1>3, <1>4

\* The second UPDATE: a claimed code has created no identity either.
LEMMA BindWorkerKeeps ==
  ASSUME IInv, NEW w \in Redeemers, BindWorker(w)
  PROVE  IInv'
<1>0. code[w] \in PairingCodes /\ lockHolder = w /\ redeemedBy[code[w]] = Claimed
  BY DEF IInv, LockFacts, BindWorker
<1> USE DEF IInv, TypeOK, BindWorker, identityVars, checkVars
<1>1. TypeOK'
  BY <1>0 DEF RedeemSteps
<1>2. LockFacts'
  BY <1>0 DEF LockFacts
<1>3. BoundForever'
  BY <1>0, StoreAssumption DEF BoundForever
<1>4. DeadFacts'
  BY DEF DeadFacts, Accepts
<1> QED BY <1>1, <1>2, <1>3, <1>4

\* The INSERT: the code's row names the identity that is created, and no check is
\* about that identity yet.
LEMMA MintKeeps ==
  ASSUME IInv, NEW w \in Redeemers, Mint(w)
  PROVE  IInv'
<1>0. code[w] \in PairingCodes /\ lockHolder = w /\ redeemedBy[code[w]] = w
  BY DEF IInv, LockFacts, Mint
<1> USE DEF IInv, TypeOK, Mint, codeVars, checkVars
<1>1. TypeOK'
  BY <1>0 DEF RedeemSteps
<1>2. LockFacts'
  BY <1>0, StoreAssumption DEF LockFacts
<1>3. BoundForever'
  BY <1>0 DEF BoundForever
<1>4. DeadFacts'
  BY DEF DeadFacts, Accepts
<1> QED BY <1>1, <1>2, <1>3, <1>4

\* A statement that fails after the claim releases the lock and undoes nothing.
LEMMA StatementFailsKeeps ==
  ASSUME IInv, NEW w \in Redeemers, StatementFails(w)
  PROVE  IInv'
<1>0. step[w] \in {"claimed", "bound"}
  BY DEF IInv, LockFacts, StatementFails
<1> USE DEF IInv, TypeOK, StatementFails, codeVars, identityVars, checkVars
<1>1. TypeOK'
  BY DEF RedeemSteps
<1>2. LockFacts'
  BY <1>0, StoreAssumption DEF LockFacts
<1>3. BoundForever'
  BY DEF BoundForever
<1>4. DeadFacts'
  BY <1>0 DEF DeadFacts, Accepts
<1> QED BY <1>1, <1>2, <1>3, <1>4

\* A restart forgets the calls in progress and keeps the rows.
LEMMA CrashKeeps == IInv /\ ServerStops => IInv'
<1> SUFFICES ASSUME IInv, ServerStops PROVE IInv'
  OBVIOUS
<1> USE DEF IInv, TypeOK, ServerStops, codeVars, identityVars
<1>1. TypeOK'
  BY DEF RedeemSteps
<1>2. LockFacts'
  BY StoreAssumption DEF LockFacts, RedeemSteps
<1>3. BoundForever'
  BY DEF BoundForever
<1>4. DeadFacts'
  BY DEF DeadFacts, Accepts, RedeemSteps
<1> QED BY <1>1, <1>2, <1>3, <1>4

\* authenticate reads and writes nothing: what it has read of a dead credential
\* stays a refusal.
LEMMA AuthenticateKeeps ==
  ASSUME IInv, NEW k \in Checks, Authenticate(k)
  PROVE  IInv'
<1>1. ASSUME NEW w \in Redeemers, NEW v \in 0 .. MaxVersion, BeginCheck(k, w, v) PROVE IInv'
  <2> USE <1>1, StoreAssumption DEF IInv, TypeOK, BeginCheck, codeVars, identityVars, redeemVars
  <2>0. deadOnEntry' \in [Checks -> BOOLEAN]
    <3> DEFINE dead == status[w] # "active" \/ version[w] # v
    <3>1. dead \in BOOLEAN /\ deadOnEntry' = [deadOnEntry EXCEPT ![k] = dead]
      OBVIOUS
    <3> HIDE DEF dead
    <3> QED BY <3>1, Zenon
  <2>1. TypeOK'
    <3>1. /\ verdict' \in [Checks -> {"none", "begun", "read", "accepted", "rejected", "lost"}]
          /\ subject' \in [Checks -> Redeemers \cup {NoWorker}]
          /\ presented' \in [Checks -> Nat]
      OBVIOUS
    <3>2. TypeOK /\ UNCHANGED <<now, codeVars, identityVars, redeemVars, row, minted>>
      OBVIOUS
    <3> HIDE <1>1 DEF IInv, BeginCheck, TypeOK
    <3> QED BY <2>0, <3>1, <3>2 DEF TypeOK
  <2>2. LockFacts' /\ BoundForever'
    BY DEF LockFacts, BoundForever
  <2>3. DeadFacts'
    <3>1. \A j \in Checks \ {k} : /\ verdict'[j] = verdict[j]
                                 /\ subject'[j] = subject[j]
                                 /\ presented'[j] = presented[j]
                                 /\ deadOnEntry'[j] = deadOnEntry[j]
      OBVIOUS
    <3>2. verdict'[k] = "begun" /\ subject'[k] = w /\ presented'[k] = v
      OBVIOUS
    <3>3. deadOnEntry'[k] => status[w] # "active" \/ version[w] # v
      <4>1. deadOnEntry'[k] = (status[w] # "active" \/ version[w] # v)
        BY Zenon
      <4> QED BY <4>1, Zenon
    <3>4. step[w] = "done" /\ v <= version[w] /\ version[w] \in Nat /\ v \in Nat
      OBVIOUS
    <3>5. DeadFacts /\ UNCHANGED <<status, version, step, row>>
      OBVIOUS
    <3> HIDE <1>1 DEF IInv, BeginCheck, TypeOK
    <3> SUFFICES ASSUME NEW j \in Checks, verdict'[j] # "none"
                 PROVE  /\ subject'[j] \in Redeemers
                        /\ step[subject'[j]] = "done"
                        /\ presented'[j] <= version[subject'[j]]
                        /\ deadOnEntry'[j] =>
                             /\ \/ status[subject'[j]] # "active"
                                \/ presented'[j] < version[subject'[j]]
                             /\ verdict'[j] = "read" => ~Accepts(row[j], presented'[j])
                             /\ verdict'[j] # "accepted"
      BY <3>5 DEF DeadFacts, Accepts
    <3>6. CASE j = k
      <4>1. deadOnEntry'[k] => status[w] # "active" \/ v < version[w]
        <5>1. version[w] # v => v < version[w]
          BY <3>4
        <5> QED BY <3>3, <5>1, Zenon
      <4>2. verdict'[j] # "read" /\ verdict'[j] # "accepted"
        BY <3>2, <3>6
      <4> QED BY <3>2, <3>4, <3>6, <4>1, <4>2, Zenon
    <3>7. CASE j # k
      BY <3>1, <3>5, <3>7 DEF DeadFacts
    <3> QED BY <3>6, <3>7
  <2> QED BY <2>1, <2>2, <2>3
<1>2. CASE ReadRow(k)
  <2> USE <1>2 DEF IInv, TypeOK, ReadRow, codeVars, identityVars, redeemVars
  <2>0. subject[k] \in Redeemers
    BY DEF DeadFacts
  <2>1. TypeOK'
    BY <2>0
  <2>2. LockFacts' /\ BoundForever'
    BY DEF LockFacts, BoundForever
  <2>3. DeadFacts'
    BY <2>0 DEF DeadFacts, Accepts
  <2> QED BY <2>1, <2>2, <2>3
<1>3. CASE Decide(k)
  <2> USE <1>3 DEF IInv, TypeOK, Decide, codeVars, identityVars, redeemVars
  <2>1. TypeOK'
    OBVIOUS
  <2>2. LockFacts' /\ BoundForever'
    BY DEF LockFacts, BoundForever
  <2>3. DeadFacts'
    BY DEF DeadFacts, Accepts
  <2> QED BY <2>1, <2>2, <2>3
<1> QED BY <1>1, <1>2, <1>3 DEF Authenticate

\* Rotation, revocation and deletion only ever make a credential deader.
LEMMA AdministrationKeeps ==
  ASSUME IInv, NEW w \in Redeemers, RotateCredential(w) \/ Revoke(w) \/ DeleteRevoked(w)
  PROVE  IInv'
<1> USE DEF IInv, TypeOK, RotateCredential, Revoke, DeleteRevoked, codeVars, redeemVars, checkVars
<1>1. TypeOK'
  OBVIOUS
<1>2. LockFacts' /\ BoundForever'
  BY DEF LockFacts, BoundForever
<1>3. DeadFacts'
  BY DEF DeadFacts, Accepts
<1> QED BY <1>1, <1>2, <1>3

\* A step that changes nothing keeps the invariant.
LEMMA StutterKeeps == IInv /\ UNCHANGED identityStoreVars => IInv'
  BY DEF IInv, TypeOK, LockFacts, BoundForever, DeadFacts, Accepts, identityStoreVars, codeVars, identityVars,
     redeemVars, checkVars

\* The invariant holds in every state of the store.
THEOREM Invariance == IdentitySpec => []IInv
<1>1. IInv /\ [IdentityNext]_identityStoreVars => IInv'
  <2> SUFFICES ASSUME IInv, [IdentityNext]_identityStoreVars PROVE IInv'
    OBVIOUS
  <2>1. CASE Tick
    BY <2>1, TickKeeps
  <2>2. ASSUME NEW c \in PairingCodes, NEW t \in 0 .. now, BeginPairing(c, t) PROVE IInv'
    BY <2>2, BeginPairingKeeps
  <2>3. ASSUME NEW t \in 0 .. now, BeginPairingFails(t) PROVE IInv'
    BY <2>3, BeginPairingKeeps
  <2>4. ASSUME NEW w \in Redeemers, Redeem(w) PROVE IInv'
    BY <2>4, StartRedeemKeeps, ClaimKeeps, BindWorkerKeeps, MintKeeps, StatementFailsKeeps DEF Redeem
  <2>5. ASSUME NEW k \in Checks, Authenticate(k) PROVE IInv'
    BY <2>5, AuthenticateKeeps
  <2>6. ASSUME NEW w \in Redeemers, RotateCredential(w) \/ Revoke(w) \/ DeleteRevoked(w)
        PROVE  IInv'
    BY <2>6, AdministrationKeeps
  <2>7. CASE ServerStops
    BY <2>7, CrashKeeps
  <2>8. CASE UNCHANGED identityStoreVars
    BY <2>8, StutterKeeps
  <2> QED BY <2>1, <2>2, <2>3, <2>4, <2>5, <2>6, <2>7, <2>8 DEF IdentityNext
<1> QED BY <1>1, InitEstablishes, PTL DEF IdentitySpec

\* Every variable keeps its type.
THEOREM TypeCorrect == IdentitySpec => []TypeOK
<1>1. IInv => TypeOK
  BY DEF IInv
<1> QED BY <1>1, Invariance, PTL

\* redeem_pairing_code: one code never creates two identities, whatever crashes.
THEOREM OneCodeOneIdentity == IdentitySpec => []CodeMintsOnce
<1>1. IInv => CodeMintsOnce
  BY DEF IInv, BoundForever, CodeMintsOnce
<1> QED BY <1>1, Invariance, PTL

\* The row of a code that created an identity names it.
THEOREM MintedStaysBound == IdentitySpec => []MintedIsBound
<1>1. IInv => MintedIsBound
  BY DEF IInv, TypeOK, BoundForever, MintedIsBound
<1> QED BY <1>1, Invariance, PTL

\* authenticate never accepts what was dead before it was called.
THEOREM DeadIsRefused == IdentitySpec => []DeadNeverAccepted
<1>1. IInv => DeadNeverAccepted
  <2> SUFFICES ASSUME IInv, NEW k \in Checks, deadOnEntry[k] PROVE verdict[k] # "accepted"
    BY DEF DeadNeverAccepted
  <2> QED BY DEF IInv, DeadFacts
<1> QED BY <1>1, Invariance, PTL

\* redeem_pairing_code and authenticate together: one code, one identity that its row names, and no dead credential accepted.
THEOREM IdentitiesStaySound == IdentitySpec => []IdentitiesAreSound
<1>1. CodeMintsOnce /\ MintedIsBound /\ DeadNeverAccepted => IdentitiesAreSound
  BY DEF IdentitiesAreSound
<1> QED BY <1>1, OneCodeOneIdentity, MintedStaysBound, DeadIsRefused, PTL

-----------------------------------------------------------------------------
(* The wire: one connection, the frames under way on it and its two ends.   *)

\* Of whatever a sequence is, it is one of its own elements.
LEMMA SequenceIsItsOwn == ASSUME NEW S, NEW s \in Seq(S) PROVE IsSequence(s)
<1>1. Len(s) \in Nat /\ DOMAIN s = 1..Len(s) /\ s = [i \in 1..Len(s) |-> s[i]]
  OBVIOUS
<1>2. s \in [1..Len(s) -> {s[i] : i \in DOMAIN s}]
  BY <1>1
<1> QED BY <1>1, <1>2 DEF IsSequence

\* What a frame more or a frame less makes of the frames under way.
LEMMA FrameAdded ==
    ASSUME NEW s, IsSequence(s), NEW m
    PROVE  /\ IsSequence(Append(s, m)) /\ Append(s, m) # <<>>
           /\ \A i \in DOMAIN Append(s, m) : Append(s, m)[i] = m \/ \E j \in DOMAIN s : Append(s, m)[i] = s[j]
<1> DEFINE t == Append(s, m)
           S == {s[i] : i \in DOMAIN s} \cup {m}
<1>1. s \in Seq(S)
  BY DEF IsSequence
<1>2. t \in Seq(S) /\ Len(t) = Len(s) + 1 /\ DOMAIN t = 1..Len(s) + 1 /\ DOMAIN s = 1..Len(s) /\ Len(s) \in Nat
  BY <1>1
<1>3. \A i \in DOMAIN t : t[i] = IF i = Len(s) + 1 THEN m ELSE s[i]
  BY <1>1, <1>2
<1>4. IsSequence(t)
  BY <1>2, SequenceIsItsOwn
<1>5. Append(s, m) # <<>>
  BY <1>2, Len(<<>>) = 0
<1>6. \A i \in DOMAIN t : i = Len(s) + 1 \/ i \in DOMAIN s
  BY <1>2
<1> QED
  BY <1>3, <1>4, <1>5, <1>6

LEMMA FrameRead ==
    ASSUME NEW s, IsSequence(s), s # <<>>
    PROVE  /\ IsSequence(Tail(s)) /\ 1 \in DOMAIN s /\ Head(s) = s[1]
           /\ \A i \in DOMAIN Tail(s) : \E j \in DOMAIN s : Tail(s)[i] = s[j]
           /\ IF Tail(s) = <<>> THEN s[Len(s)] = Head(s) ELSE Tail(s)[Len(Tail(s))] = s[Len(s)]
<1> DEFINE S == {s[i] : i \in DOMAIN s}
           t == Tail(s)
<1>1. s \in Seq(S) /\ Len(s) \in Nat /\ Len(s) # 0 /\ DOMAIN s = 1..Len(s)
  BY DEF IsSequence
<1>2. t \in Seq(S) /\ Len(t) = Len(s) - 1 /\ DOMAIN t = 1..Len(t) /\ Len(t) \in Nat
  BY <1>1
<1>3. \A i \in DOMAIN t : t[i] = s[i + 1] /\ i + 1 \in DOMAIN s
  BY <1>1, <1>2
<1>4. IsSequence(t)
  BY <1>2, SequenceIsItsOwn
<1>5. Head(s) = s[1] /\ 1 \in DOMAIN s
  BY <1>1
<1>6. IF t = <<>> THEN s[Len(s)] = Head(s) ELSE t[Len(t)] = s[Len(s)]
  <2>1. CASE t = <<>>
    <3>1. Len(t) = 0
      BY <2>1, Len(<<>>) = 0
    <3>2. Len(s) = 1
      BY <3>1, <1>1, <1>2
    <3> QED BY <2>1, <3>2, <1>5
  <2>2. CASE t # <<>>
    <3>1. Len(t) \in DOMAIN t
      BY <2>2, <1>2
    <3> QED BY <2>2, <3>1, <1>1, <1>2, <1>3
  <2> QED BY <2>1, <2>2
<1> QED
  BY <1>3, <1>4, <1>5, <1>6

\* The highest version that both know is one of those both know.
LEMMA VersionNegotiated ==
    ASSUME NEW theirs, Supported \intersect theirs # {}
    PROVE  Negotiated(theirs) \in Supported /\ \A v \in Supported \intersect theirs : v <= Negotiated(theirs)
<1> DEFINE S == Supported \intersect theirs
<1>1. \E v \in S : \A u \in S : u <= v
  BY DEF Supported
<1>2. Negotiated(theirs) \in S /\ \A u \in S : u <= Negotiated(theirs)
  BY <1>1 DEF Negotiated, MaxOf
<1> QED BY <1>2

LEMMA WireInitEstablishes == WireInit => WireIInv
<1> SUFFICES ASSUME WireInit PROVE WireIInv
  OBVIOUS
<1>1. IsSequence(<<>>)
  BY DEF IsSequence
<1>2. WireTypeOK
  BY <1>1 DEF WireInit, WireTypeOK, WireEnds, End, WorkerProtocolVersion
<1>2a. DOMAIN up = {} /\ DOMAIN down = {}
  BY DEF WireInit
<1>2b. workerEnd.at = "idle" /\ serverEnd.at = "idle" /\ serverEnd.how = Absent
  BY DEF WireInit, End
<1>3. GreetingFacts
  BY DEF WireInit, End, GreetingFacts
<1>4. VersionFacts
  BY <1>2a DEF WireInit, End, VersionFacts
<1>5. BreakFacts
  BY <1>2b, WireAssumption DEF WireInit, BreakFacts
<1>6. FrameFacts
  BY <1>2a, <1>2b DEF FrameFacts
<1>7. GatesHold /\ OwnFramesAreRead
  BY DEF WireInit, GatesHold, OwnFramesAreRead
<1> QED
  BY <1>2, <1>3, <1>4, <1>5, <1>6, <1>7 DEF WireIInv

\* Leaving an end keeps what it knew.
LEMMA EndLeft ==
    ASSUME WireTypeOK, NEW how
    PROVE  /\ Ends(workerEnd, how).at = "ended" /\ Ends(workerEnd, how).version = workerEnd.version
           /\ Ends(workerEnd, how).offered = workerEnd.offered /\ Ends(workerEnd, how).how = how
           /\ Ends(workerEnd, how) \in [at : {"ended"}, version : 0..WorkerProtocolVersion, offered : {workerEnd.offered}, how : {how}]
           /\ Ends(serverEnd, how).at = "ended" /\ Ends(serverEnd, how).version = serverEnd.version
           /\ Ends(serverEnd, how).offered = serverEnd.offered /\ Ends(serverEnd, how).how = how
           /\ Ends(serverEnd, how) \in [at : {"ended"}, version : 0..WorkerProtocolVersion, offered : {serverEnd.offered}, how : {how}]
  BY DEF WireTypeOK, WireEnds, Ends

\* A frame that is added on the way to the server, which takes it.
LEMMA WorkerSaysKeeps ==
    ASSUME WireIInv, NEW m, workerEnd.at = "ready", Up(m), own => ServerTakes(m) \/ KnownMisfit(m),
           UNCHANGED <<down, workerEnd, serverEnd, torn, own, refused, served>>
    PROVE  WireIInv'
<1>1. IsSequence(up') /\ up' # <<>> /\ \A i \in DOMAIN up' : up'[i] = m \/ \E j \in DOMAIN up : up'[i] = up[j]
  BY FrameAdded DEF WireIInv, WireTypeOK, Up
<1>2. WireTypeOK'
  BY <1>1 DEF WireIInv, WireTypeOK, WireEnds, Up
<1>3. serverEnd.at # "idle" /\ GreetingFacts'
  BY DEF WireIInv, GreetingFacts
<1>4. VersionFacts'
  BY DEF WireIInv, VersionFacts, Negotiated, MaxOf, Supported
<1>5. BreakFacts' /\ GatesHold' /\ OwnFramesAreRead'
  BY DEF WireIInv, BreakFacts, GatesHold, OwnFramesAreRead, KnownMisfit, Frames, Encoded, Largest
<1>6. \A x : ServerTakes(x)' <=> ServerTakes(x)
  BY DEF ServerTakes, SuspensionGate
<1>7. FrameFacts'
  BY <1>1, <1>3, <1>6 DEF WireIInv, FrameFacts
<1> QED BY <1>2, <1>3, <1>4, <1>5, <1>7 DEF WireIInv

\* A frame that is added on the way to the worker, which takes it.
LEMMA ServerSaysKeeps ==
    ASSUME WireIInv, NEW m, serverEnd.at = "ready", Down(m), ~Greeted(m), own => WorkerAccepts(m) \/ KnownMisfit(m),
           UNCHANGED <<up, workerEnd, serverEnd, torn, own, refused, served>>
    PROVE  WireIInv'
<1>1. IsSequence(down') /\ \A i \in DOMAIN down' : down'[i] = m \/ \E j \in DOMAIN down : down'[i] = down[j]
  BY FrameAdded DEF WireIInv, WireTypeOK, Down
<1>2. WireTypeOK'
  BY <1>1 DEF WireIInv, WireTypeOK, WireEnds, Down
<1>3. GreetingFacts'
  BY DEF WireIInv, GreetingFacts
<1>4. VersionFacts'
  BY <1>1 DEF WireIInv, VersionFacts, Negotiated, MaxOf, Supported
<1>5. BreakFacts' /\ GatesHold' /\ OwnFramesAreRead'
  BY DEF WireIInv, BreakFacts, GatesHold, OwnFramesAreRead, KnownMisfit, Frames, Encoded, Largest
<1>6. \A x : ServerTakes(x)' <=> ServerTakes(x)
  BY DEF ServerTakes, SuspensionGate
<1>7. FrameFacts'
  BY <1>1, <1>6 DEF WireIInv, FrameFacts
<1> QED BY <1>2, <1>3, <1>4, <1>5, <1>7 DEF WireIInv

\* What a server takes does not depend on the worker's end.
LEMMA TakesKeeps == ASSUME serverEnd'.version = serverEnd.version PROVE \A x : ServerTakes(x)' <=> ServerTakes(x)
  BY DEF ServerTakes, SuspensionGate

LEMMA WorkerGreetsKeeps == ASSUME WireIInv, WorkerGreets PROVE WireIInv'
<1> PICK offer \in (IF own THEN {{WorkerProtocolVersion}} ELSE Offers), kind \in {"hello", "pair_request"} :
      /\ Up([type |-> kind, shape |-> "exact", versions |-> offer, worker |-> "w", label |-> Absent])
      /\ workerEnd' = [workerEnd EXCEPT !.at = "greeting", !.offered = offer]
  BY DEF WorkerGreets
<1> DEFINE m == [type |-> kind, shape |-> "exact", versions |-> offer, worker |-> "w", label |-> Absent]
<1>1. workerEnd.at = "idle" /\ serverEnd.at = "idle" /\ up = <<>> /\ down = <<>> /\ serverEnd.version = 0 /\ workerEnd.version = 0
  BY DEF WireIInv, WorkerGreets, GreetingFacts, VersionFacts
<1>2. UNCHANGED <<down, serverEnd, torn, own, refused, served>>
  BY DEF WorkerGreets
<1>3. workerEnd'.at = "greeting" /\ workerEnd'.offered = offer /\ workerEnd'.version = 0 /\ workerEnd'.how = workerEnd.how
      /\ workerEnd' \in [at : {"greeting"}, version : {0}, offered : {offer}, how : {workerEnd.how}]
  BY <1>1 DEF WireIInv, WireTypeOK, WireEnds
<1>4. up' = <<m>> /\ IsSequence(up')
  <2> HIDE DEF m
  <2>1. up' = Append(up, m)
    BY DEF Up, m
  <2>2. IsSequence(up')
    BY <2>1, FrameAdded DEF WireIInv, WireTypeOK
  <2>3. Append(<<>>, m) = <<m>>
    OBVIOUS
  <2> QED BY <1>1, <2>1, <2>2, <2>3
<1>5. WireTypeOK'
  <2>1. workerEnd' \in WireEnds({"idle", "greeting", "ready", "ended"})'
    BY <1>3 DEF WireEnds, WorkerProtocolVersion
  <2>2. serverEnd' \in WireEnds({"idle", "ready", "ended"})'
    BY <1>2 DEF WireIInv, WireTypeOK, WireEnds
  <2> QED BY <2>1, <2>2, <1>2, <1>4 DEF WireIInv, WireTypeOK, Up
<1>6. GreetingFacts'
  BY <1>1, <1>2, <1>3, <1>4 DEF GreetingFacts
<1>7. VersionFacts'
  <2>1. DOMAIN down' = {}
    BY <1>1, <1>2
  <2> QED BY <2>1, <1>1, <1>2, <1>3 DEF VersionFacts
<1>8. BreakFacts' /\ GatesHold'
  BY <1>1, <1>2, <1>3 DEF WireIInv, BreakFacts, GatesHold
<1>9. FrameFacts' /\ OwnFramesAreRead'
  BY <1>1, <1>2 DEF WireIInv, FrameFacts, OwnFramesAreRead, KnownMisfit, Frames, Encoded, Largest
<1> QED BY <1>5, <1>6, <1>7, <1>8, <1>9 DEF WireIInv

\* The greeting of this program is always accepted, and what answers it tells the version.
LEMMA ServerGreetsKeeps == ASSUME WireIInv, ServerGreets PROVE WireIInv'
<1> DEFINE m == Head(up)
<1>1. /\ serverEnd.at = "idle" /\ up # <<>> /\ up' = Tail(up) /\ UNCHANGED <<workerEnd, torn, own, served>>
      /\ IF m = TornFrame \/ ~Greeting(m) \/ ~ServerAccepts(m) THEN ServerRefuses(m)
         ELSE IF Supported \intersect m.versions = {}
         THEN serverEnd' = Ends(serverEnd, "refused") /\ Down(Fatal("protocol_version_unsupported")) /\ UNCHANGED refused
         ELSE /\ serverEnd' = [serverEnd EXCEPT !.at = "ready", !.version = Negotiated(m.versions)]
              /\ Down([type |-> IF m.type = "hello" THEN "hello_ack" ELSE "pair_result", shape |-> "exact", version |-> serverEnd'.version, worker |-> "w"])
              /\ UNCHANGED refused
  BY DEF ServerGreets, Greeting
<1>2. PICK kind \in {"hello", "pair_request"} :
        up = <<[type |-> kind, shape |-> "exact", versions |-> workerEnd.offered, worker |-> "w", label |-> Absent]>>
  BY <1>1 DEF WireIInv, GreetingFacts
<1>3. workerEnd.at = "greeting" /\ down = <<>> /\ serverEnd.version = 0 /\ workerEnd.version = 0 /\ (own => workerEnd.offered = {WorkerProtocolVersion})
  BY <1>1 DEF WireIInv, GreetingFacts, VersionFacts
<1>4. m = [type |-> kind, shape |-> "exact", versions |-> workerEnd.offered, worker |-> "w", label |-> Absent] /\ up' = <<>>
  BY <1>1, <1>2
<1>5. Greeting(m) /\ m.versions = workerEnd.offered
  BY <1>4 DEF Greeting
<1>6. own => ServerAccepts(m) /\ Supported \intersect m.versions # {}
  <2>1. own => m.versions # {} /\ Supported \intersect m.versions # {}
    BY <1>3, <1>5 DEF Supported, WorkerProtocolVersion
  <2>2. own => ServerAccepts(m)
    BY <1>4, <2>1, WireAssumption DEF ServerAccepts, ReadsHello, ReadsPairRequest, Exact, VersionList, SafeId
  <2> QED BY <2>1, <2>2
<1>7. up' = <<>> /\ IsSequence(up')
  BY <1>1, <1>4, FrameRead DEF WireIInv, WireTypeOK
<1>8. OwnFramesAreRead' /\ refused' = refused
  <2>1. own => refused' = refused
    BY <1>1, <1>5, <1>6 DEF ServerRefuses
  <2>2. ~own => refused' = refused
    BY <1>1 DEF ServerRefuses
  <2> QED BY <2>1, <2>2 DEF WireIInv, OwnFramesAreRead, KnownMisfit, Frames, Encoded, Largest
<1>9. CASE serverEnd' = Ends(serverEnd, "refused") /\ \E why \in {"malformed_message", "protocol_version_unsupported"} : Down(Fatal(why))
  <2> PICK why \in {"malformed_message", "protocol_version_unsupported"} : Down(Fatal(why))
    BY <1>9
  <2>1. ~Greeted(Fatal(why)) /\ WorkerAccepts(Fatal(why))
    BY DEF Greeted, Fatal, WorkerAccepts, ReadsError, Exact, Codes
  <2>2. IsSequence(down') /\ \A i \in DOMAIN down' : down'[i] = Fatal(why) \/ \E j \in DOMAIN down : down'[i] = down[j]
    BY FrameAdded DEF WireIInv, WireTypeOK, Down
  <2>3. \A i \in DOMAIN down' : down'[i] = Fatal(why)
    BY <2>2, <1>3
  <2>4. serverEnd'.at = "ended" /\ serverEnd'.version = 0 /\ serverEnd'.how = "refused"
        /\ serverEnd' \in [at : {"ended"}, version : 0..WorkerProtocolVersion, offered : {serverEnd.offered}, how : {"refused"}]
    BY <1>3, <1>9, EndLeft DEF WireIInv
  <2>5. WireTypeOK'
    BY <1>1, <1>7, <2>2, <2>4 DEF WireIInv, WireTypeOK, WireEnds, Down
  <2>6. GreetingFacts' /\ VersionFacts' /\ BreakFacts' /\ GatesHold' /\ FrameFacts'
    BY <1>1, <1>3, <1>4, <2>1, <2>3, <2>4 DEF WireIInv, GreetingFacts, VersionFacts, BreakFacts, GatesHold, FrameFacts
  <2> QED BY <2>5, <2>6, <1>8 DEF WireIInv
<1>10. CASE /\ Supported \intersect workerEnd.offered # {}
            /\ serverEnd' = [serverEnd EXCEPT !.at = "ready", !.version = Negotiated(workerEnd.offered)]
            /\ Down([type |-> IF m.type = "hello" THEN "hello_ack" ELSE "pair_result", shape |-> "exact", version |-> serverEnd'.version, worker |-> "w"])
  <2> DEFINE a == [type |-> IF m.type = "hello" THEN "hello_ack" ELSE "pair_result", shape |-> "exact", version |-> serverEnd'.version, worker |-> "w"]
  <2>1. Negotiated(workerEnd.offered) \in Supported
    BY <1>10, VersionNegotiated
  <2>2. Negotiated(workerEnd.offered) \in 1..4
    BY <2>1 DEF Supported
  <2>3. serverEnd'.at = "ready" /\ serverEnd'.version = Negotiated(workerEnd.offered) /\ serverEnd'.how = serverEnd.how
        /\ serverEnd' \in [at : {"ready"}, version : 1..4, offered : {serverEnd.offered}, how : {serverEnd.how}]
    BY <1>10, <2>2 DEF WireIInv, WireTypeOK, WireEnds
  <2>4. a.version = serverEnd'.version /\ WorkerAccepts(a)
    BY <2>2, <2>3, WireAssumption DEF WorkerAccepts, ReadsHelloAck, ReadsPairResult, Exact, SafeId
  <2>5. IsSequence(down') /\ \A i \in DOMAIN down' : down'[i] = a \/ \E j \in DOMAIN down : down'[i] = down[j]
    BY <1>10, FrameAdded DEF WireIInv, WireTypeOK, Down
  <2>6. \A i \in DOMAIN down' : down'[i] = a
    BY <2>5, <1>3
  <2>7. WireTypeOK'
    BY <1>1, <1>7, <1>10, <2>3, <2>5 DEF WireIInv, WireTypeOK, WireEnds, WorkerProtocolVersion, Down
  <2>8. GreetingFacts' /\ BreakFacts' /\ GatesHold' /\ FrameFacts'
    BY <1>1, <1>3, <1>4, <2>3, <2>4, <2>6 DEF WireIInv, GreetingFacts, BreakFacts, GatesHold, FrameFacts
  <2>9. VersionFacts'
    BY <1>1, <1>3, <1>10, <2>2, <2>3, <2>4, <2>6 DEF VersionFacts
  <2> QED BY <2>7, <2>8, <2>9, <1>8 DEF WireIInv
<1> QED BY <1>1, <1>5, <1>9, <1>10 DEF ServerRefuses

LEMMA WorkerIsGreetedKeeps == ASSUME WireIInv, WorkerIsGreeted PROVE WireIInv'
<1> DEFINE m == Head(down)
<1>1. /\ workerEnd.at = "greeting" /\ down # <<>> /\ down' = Tail(down) /\ UNCHANGED <<up, serverEnd, written, torn, own, refused, served>>
      /\ IF m = TornFrame \/ ~Greeted(m) \/ ~WorkerAccepts(m) THEN workerEnd' = Ends(workerEnd, "refused")
         ELSE workerEnd' = [workerEnd EXCEPT !.at = "ready", !.version = m.version]
  BY DEF WorkerIsGreeted, Greeted
<1>2. IsSequence(down') /\ 1 \in DOMAIN down /\ m = down[1] /\ \A i \in DOMAIN down' : \E j \in DOMAIN down : down'[i] = down[j]
  BY <1>1, FrameRead DEF WireIInv, WireTypeOK
<1>3. serverEnd.at # "idle" /\ up = <<>> /\ (own => workerEnd.offered = {WorkerProtocolVersion})
  BY <1>1 DEF WireIInv, GreetingFacts
<1>4. Greeted(m) => m.version = serverEnd.version /\ serverEnd.version # 0
  BY <1>2 DEF WireIInv, VersionFacts
<1>5. /\ workerEnd'.at \in {"ready", "ended"} /\ workerEnd'.offered = workerEnd.offered
      /\ workerEnd'.version # 0 => workerEnd'.version = serverEnd.version
      /\ workerEnd'.at = "ready" => workerEnd'.version # 0
      /\ workerEnd' \in [at : {"ready", "ended"}, version : 0..WorkerProtocolVersion, offered : {workerEnd.offered}, how : {workerEnd.how, "refused"}]
  <2>1. CASE workerEnd' = Ends(workerEnd, "refused")
    BY <2>1, EndLeft DEF WireIInv, VersionFacts
  <2>2. CASE Greeted(m) /\ workerEnd' = [workerEnd EXCEPT !.at = "ready", !.version = m.version]
    <3>1. m.version \in 0..WorkerProtocolVersion
      BY <2>2, <1>4 DEF WireIInv, WireTypeOK, WireEnds
    <3> QED BY <2>2, <1>4, <3>1 DEF WireIInv, WireTypeOK, WireEnds
  <2> QED BY <2>1, <2>2, <1>1
<1>6. WireTypeOK'
  BY <1>1, <1>2, <1>5 DEF WireIInv, WireTypeOK, WireEnds
<1>7. GreetingFacts'
  BY <1>1, <1>3, <1>5 DEF GreetingFacts
<1>8. VersionFacts'
  BY <1>1, <1>2, <1>5 DEF WireIInv, VersionFacts
<1>9. BreakFacts' /\ GatesHold' /\ OwnFramesAreRead'
  BY <1>1 DEF WireIInv, BreakFacts, GatesHold, OwnFramesAreRead, KnownMisfit, Frames, Encoded, Largest
<1>10. FrameFacts'
  BY <1>1, <1>2, <1>3, TakesKeeps DEF WireIInv, FrameFacts
<1> QED BY <1>6, <1>7, <1>8, <1>9, <1>10 DEF WireIInv

\* What the server reads is taken off the way; whether it goes on or leaves, it answers with frames its worker takes.
LEMMA ServerStepKeeps ==
    ASSUME WireIInv, serverEnd.at = "ready", up # <<>>, up' = Tail(up), UNCHANGED <<workerEnd, torn, own>>,
           serverEnd' = serverEnd \/ serverEnd' = Ends(serverEnd, "refused"),
           Head(up) = TornFrame => serverEnd' = Ends(serverEnd, "refused"),
           UNCHANGED <<down, written>> \/ \E m : ~Greeted(m) /\ WorkerAccepts(m) /\ Down(m),
           GatesHold', OwnFramesAreRead'
    PROVE  WireIInv'
<1>1. /\ IsSequence(up') /\ \A i \in DOMAIN up' : \E j \in DOMAIN up : up'[i] = up[j]
      /\ IF up' = <<>> THEN up[Len(up)] = Head(up) ELSE up'[Len(up')] = up[Len(up)]
  BY FrameRead DEF WireIInv, WireTypeOK
<1>2. /\ IsSequence(down') /\ written' \in [up : {written'.up}, down : {written'.down}]
      /\ \A i \in DOMAIN down' : (~Greeted(down'[i]) /\ WorkerAccepts(down'[i])) \/ \E j \in DOMAIN down : down'[i] = down[j]
  <2>1. CASE UNCHANGED <<down, written>>
    BY <2>1 DEF WireIInv, WireTypeOK
  <2>2. CASE \E m : ~Greeted(m) /\ WorkerAccepts(m) /\ Down(m)
    <3> PICK m : ~Greeted(m) /\ WorkerAccepts(m) /\ Down(m)
      BY <2>2
    <3>1. IsSequence(down') /\ \A i \in DOMAIN down' : down'[i] = m \/ \E j \in DOMAIN down : down'[i] = down[j]
      BY FrameAdded DEF WireIInv, WireTypeOK, Down
    <3>2. written' \in [up : {written'.up}, down : {written'.down}]
      BY DEF WireIInv, WireTypeOK, Down
    <3> QED BY <3>1, <3>2
  <2> QED BY <2>1, <2>2
<1>3. /\ serverEnd'.at \in {"ready", "ended"} /\ serverEnd'.version = serverEnd.version
      /\ serverEnd'.how \in {serverEnd.how, "refused"}
      /\ Head(up) = TornFrame => serverEnd'.at = "ended"
      /\ serverEnd' \in [at : {"ready", "ended"}, version : 0..WorkerProtocolVersion, offered : {serverEnd.offered, workerEnd.offered},
                         how : {serverEnd.how, workerEnd.how, "refused"}]
      /\ serverEnd'.at = "ended" => serverEnd'.how = "refused"
      /\ serverEnd'.offered \in {serverEnd.offered, workerEnd.offered}
  <2>1. CASE serverEnd' = serverEnd /\ Head(up) # TornFrame
    BY <2>1 DEF WireIInv, WireTypeOK, WireEnds
  <2>2. CASE serverEnd' = Ends(serverEnd, "refused")
    BY <2>2, EndLeft DEF WireIInv
  <2> QED BY <2>1, <2>2
<1>4. WireTypeOK'
  BY <1>1, <1>2, <1>3 DEF WireIInv, WireTypeOK, WireEnds
<1>5. GreetingFacts'
  <2>1. workerEnd.at # "idle" /\ (workerEnd.at = "greeting" => up = <<>>)
    BY DEF WireIInv, GreetingFacts
  <2> QED BY <1>3, <2>1 DEF WireIInv, GreetingFacts
<1>6. VersionFacts'
  BY <1>2, <1>3 DEF WireIInv, VersionFacts
<1>7. BreakFacts'
  BY <1>1, <1>3 DEF WireIInv, BreakFacts
<1>8. FrameFacts'
  BY <1>1, <1>2, <1>3, TakesKeeps DEF WireIInv, FrameFacts
<1> QED BY <1>4, <1>5, <1>6, <1>7, <1>8 DEF WireIInv

\* The frames that the server answers with are read by its worker.
LEMMA AnswersAreTaken ==
    /\ \A type \in {"heartbeat_ack", "state_report_ack", "credential_rotated", "cancel"} : ~Greeted(Plain(type)) /\ WorkerAccepts(Plain(type))
    /\ \A why \in Codes : /\ ~Greeted(Fatal(why)) /\ WorkerAccepts(Fatal(why))
                          /\ ~Greeted(Complaint(why)) /\ WorkerAccepts(Complaint(why))
<1>1. \A type \in {"heartbeat_ack", "state_report_ack", "credential_rotated", "cancel"} : ~Greeted(Plain(type)) /\ WorkerAccepts(Plain(type))
  BY DEF Greeted, Plain, WorkerAccepts, ReadsCancel, Exact
<1>2. \A why \in Codes : /\ ~Greeted(Fatal(why)) /\ WorkerAccepts(Fatal(why))
                          /\ ~Greeted(Complaint(why)) /\ WorkerAccepts(Complaint(why))
  BY DEF Greeted, Fatal, Complaint, WorkerAccepts, ReadsError, Exact
<1> QED BY <1>1, <1>2

LEMMA ServerReadsKeeps == ASSUME WireIInv, ServerReads PROVE WireIInv'
<1> DEFINE m == Head(up)
<1>1. /\ serverEnd.at = "ready" /\ up # <<>> /\ up' = Tail(up) /\ UNCHANGED <<workerEnd, job, torn, own>>
      /\ IF m = TornFrame \/ ~ServerAccepts(m) THEN ServerRefuses(m) /\ tracked' = "none" /\ UNCHANGED served
         ELSE IF ~ChunkOpens(m)
         THEN tracked' = "none" /\ refused' = (IF own THEN refused \union {m} ELSE refused) /\ UNCHANGED <<down, written, serverEnd, served>>
         ELSE ServerHandles(m)
  BY DEF ServerReads
<1>2. own => m = TornFrame \/ ServerTakes(m) \/ KnownMisfit(m)
  <2>1. 1 \in DOMAIN up /\ m = up[1]
    BY <1>1, FrameRead DEF WireIInv, WireTypeOK
  <2> QED BY <1>1, <2>1 DEF WireIInv, FrameFacts
<1>3. GatesHold /\ OwnFramesAreRead
  BY DEF WireIInv
<1>4. \A x : KnownMisfit(x)' <=> KnownMisfit(x)
  BY DEF KnownMisfit, Frames, Encoded, Largest
<1>5. Codes = {"protocol_version_unsupported", "unauthorized", "malformed_message", "frame_too_large", "attempt_unknown", "unknown_message_type"}
  BY DEF Codes
<1> HIDE DEF m
<1>6. ASSUME ServerRefuses(m), UNCHANGED served, own => m = TornFrame \/ ~ServerTakes(m)
      PROVE  WireIInv'
  <2>1. GatesHold'
    BY <1>3, <1>6 DEF GatesHold
  <2>2. OwnFramesAreRead'
    BY <1>2, <1>3, <1>4, <1>6 DEF OwnFramesAreRead, ServerRefuses
  <2>3. \E x : ~Greeted(x) /\ WorkerAccepts(x) /\ Down(x)
    BY <1>5, <1>6, AnswersAreTaken DEF ServerRefuses
  <2> QED BY <1>1, <1>6, <2>1, <2>2, <2>3, ServerStepKeeps DEF ServerRefuses, m
<1>7. ASSUME m # TornFrame, UNCHANGED serverEnd, UNCHANGED <<down, written>> \/ \E x : ~Greeted(x) /\ WorkerAccepts(x) /\ Down(x),
             refused' = refused \/ (own /\ ~ServerTakes(m) /\ refused' = refused \union {m}),
             served' = served \/ \E s : served' = served \union {s} /\ s.version >= (IF s.what = "reasoning" THEN 4 ELSE 3)
      PROVE  WireIInv'
  <2>1. GatesHold'
    BY <1>3, <1>7 DEF GatesHold
  <2>2. OwnFramesAreRead'
    BY <1>2, <1>3, <1>4, <1>7 DEF OwnFramesAreRead
  <2> QED BY <1>1, <1>7, <2>1, <2>2, ServerStepKeeps DEF m
<1>8. CASE m = TornFrame \/ ~ServerAccepts(m)
  BY <1>1, <1>6, <1>8 DEF ServerTakes
<1>9. CASE m # TornFrame /\ ServerAccepts(m) /\ ~ChunkOpens(m)
  BY <1>1, <1>7, <1>9 DEF ServerTakes
<1>10. CASE m # TornFrame /\ ServerAccepts(m) /\ ChunkOpens(m)
  <2>1. ServerHandles(m)
    BY <1>1, <1>10
  <2>2. m.type \in {"heartbeat", "state_report", "rotate_credential", "attempt_interrupted", "hello", "pair_request", "execute_tool_call",
                    "execute_chunk", "execute_result"}
    BY <1>10 DEF ServerAccepts
  <2>3. CASE m.type \in {"heartbeat", "state_report", "rotate_credential"}
    <3>1. \E type \in {"heartbeat_ack", "state_report_ack", "credential_rotated"} : Acknowledge(type)
      BY <2>1, <2>3 DEF ServerHandles
    <3> QED BY <3>1, <1>7, <1>10, AnswersAreTaken DEF Acknowledge
  <2>4. CASE m.type = "attempt_interrupted"
    <3>1. UNCHANGED <<down, written, serverEnd, refused, served>>
      BY <2>1, <2>4 DEF ServerHandles
    <3> QED BY <3>1, <1>7, <1>10
  <2>5. CASE m.type \in {"hello", "pair_request"} \/ (m.type = "execute_tool_call" /\ ~SuspensionGate)
    <3>1. ServerRefuses(m) /\ UNCHANGED served
      BY <2>1, <2>5 DEF ServerHandles
    <3>2. ~ServerTakes(m)
      BY <2>5 DEF ServerTakes, Greeting
    <3> QED BY <3>1, <3>2, <1>6
  <2>6. CASE m.type \in {"execute_chunk", "execute_tool_call", "execute_result"} /\ (m.type = "execute_tool_call" => SuspensionGate)
    <3>1. /\ UNCHANGED <<serverEnd, refused>>
          /\ IF tracked = "none" THEN Down(Complaint("attempt_unknown")) /\ UNCHANGED <<tracked, served>>
             ELSE CASE m.type = "execute_chunk" -> UNCHANGED <<tracked, down, written, served>>
                    [] m.type = "execute_tool_call" /\ tracked = "running" -> tracked' = "suspended" /\ Took("suspension") /\ UNCHANGED <<down, written>>
                    [] m.type = "execute_tool_call" /\ tracked # "running" -> Down(Complaint("malformed_message")) /\ UNCHANGED <<tracked, served>>
                    [] m.type = "execute_result" -> tracked' = "none" /\ TakeResult(m)
      BY <2>1, <2>6 DEF ServerHandles
    <3>2. (UNCHANGED <<down, written>> /\ served' = served) \/ (served' = served /\ \E why \in {"attempt_unknown", "malformed_message"} : Down(Complaint(why)))
          \/ (UNCHANGED <<down, written>> /\ \E what \in {"suspension", "reasoning"} :
                 Took(what) /\ serverEnd.version >= (IF what = "reasoning" THEN 4 ELSE 3))
      <4>1. CASE tracked = "none"
        BY <4>1, <3>1
      <4>2. CASE tracked # "none" /\ m.type = "execute_chunk"
        BY <4>2, <3>1
      <4>3. CASE tracked # "none" /\ m.type = "execute_tool_call"
        BY <4>3, <3>1, <2>6 DEF SuspensionGate
      <4>4. CASE tracked # "none" /\ m.type = "execute_result"
        <5>1. TakeResult(m)
          BY <4>4, <3>1
        <5> QED BY <5>1 DEF TakeResult, ReasoningGate
      <4> QED BY <4>1, <4>2, <4>3, <4>4, <2>6
    <3>3. served' = served \/ \E s : served' = served \union {s} /\ s.version >= (IF s.what = "reasoning" THEN 4 ELSE 3)
      <4>1. ASSUME NEW what \in {"suspension", "reasoning"}, Took(what), serverEnd.version >= (IF what = "reasoning" THEN 4 ELSE 3)
            PROVE  \E s : served' = served \union {s} /\ s.version >= (IF s.what = "reasoning" THEN 4 ELSE 3)
        <5>1. WITNESS [version |-> serverEnd.version, what |-> what]
        <5> QED BY <4>1 DEF Took
      <4> QED BY <3>2, <4>1
    <3>4. UNCHANGED <<down, written>> \/ \E x : ~Greeted(x) /\ WorkerAccepts(x) /\ Down(x)
      BY <1>5, <3>2, AnswersAreTaken
    <3> QED BY <3>1, <3>3, <3>4, <1>7, <1>10
  <2> QED BY <2>2, <2>3, <2>4, <2>5, <2>6
<1> QED BY <1>8, <1>9, <1>10

\* What the worker's program reports and streams is built within the bounds its server checks.
LEMMA WorkerReportsKeeps == ASSUME WireIInv, WorkerReports PROVE WireIInv'
<1>1. workerEnd.at = "ready" /\ own /\ UNCHANGED <<down, workerEnd, serverEnd, torn, own, refused, served>>
  BY DEF WorkerReports
<1>2. ASSUME NEW type \in {"heartbeat", "rotate_credential", "attempt_interrupted"}, Up(Plain(type)) PROVE WireIInv'
  <2>1. ServerTakes(Plain(type))
    BY DEF Plain, ServerTakes, ServerAccepts, ReadsInterrupted, Exact, ChunkOpens, Greeting
  <2> QED BY <1>1, <1>2, <2>1, WorkerSaysKeeps
<1>3. ASSUME NEW n \in {0, 1}, Up([type |-> "state_report", shape |-> "exact", inventories |-> n]) PROVE WireIInv'
  <2>1. ServerTakes([type |-> "state_report", shape |-> "exact", inventories |-> n])
    BY DEF ServerTakes, ServerAccepts, ReadsStateReport, MaxInventories, Exact, ChunkOpens, Greeting
  <2> QED BY <1>1, <1>3, <2>1, WorkerSaysKeeps
<1> QED BY <1>2, <1>3 DEF WorkerReports

LEMMA WorkerStreamsKeeps == ASSUME WireIInv, WorkerStreams PROVE WireIInv'
<1>1. workerEnd.at = "ready" /\ own /\ UNCHANGED <<down, workerEnd, serverEnd, torn, own, refused, served>>
  BY DEF WorkerStreams
<1> PICK c \in Chunks : ChunkAccepted(c) /\ Up([type |-> "execute_chunk", shape |-> "exact", chunk |-> c])
  BY DEF WorkerStreams
<1>2. c.text # Absent => Text(c.text, SizeChunk)
  BY DEF ChunkAccepted
<1>3. ServerTakes([type |-> "execute_chunk", shape |-> "exact", chunk |-> c])
  BY <1>2 DEF ServerTakes, ServerAccepts, ReadsExecuteChunk, Exact, ChunkOpens, ReadsChunk, Greeting
<1> QED BY <1>1, <1>3, WorkerSaysKeeps

\* A result that can be framed is read; one that cannot is a known misfit, and nothing is written.
LEMMA WorkerAnswersKeeps == ASSUME WireIInv, WorkerAnswers PROVE WireIInv'
<1>1. workerEnd.at = "ready" /\ own /\ UNCHANGED <<down, workerEnd, serverEnd, torn, own, served>>
  BY DEF WorkerAnswers
<1> PICK r \in Results, escaped \in BOOLEAN :
      WorkerWrites(IF Representable(r.message) THEN ResultFrame(r, Absent) ELSE Failure(SizeNote), escaped)
  BY DEF WorkerAnswers
<1> DEFINE m == IF Representable(r.message) THEN ResultFrame(r, Absent) ELSE Failure(SizeNote)
<1>2. /\ r.status \in {"completed", "failed", "cancelled"} /\ r.finish \in {Absent, "stop"}
      /\ r.message # Absent => r.message.content \in {Absent, 0, 1, 5}
  <2>1. CASE \E x \in {Absent} \union Messages, f \in {Absent, "stop"} : r = Result("completed", <<>>, x, f)
    BY <2>1 DEF Result, Messages, Assistant
  <2>2. CASE \E o \in Observations : r = Result("failed", <<o>>, Absent, Absent)
    BY <2>2 DEF Result
  <2>3. CASE r = Result("cancelled", <<>>, Absent, Absent)
    BY <2>3 DEF Result
  <2> QED BY <2>1, <2>2, <2>3 DEF Results
<1>3. /\ m.type = "execute_result" /\ m.shape = "exact" /\ m.status \in {"completed", "failed", "cancelled"} /\ m.finish \in {Absent, "stop"}
      /\ m.note \in {Absent, SizeNote}
      /\ m.message # Absent => m.message.content \in {Absent, 0, 1, 5}
  BY <1>2 DEF ResultFrame, Failure, Result
<1> HIDE DEF m
<1>4. ServerTakes(m)
  <2>1. TextOrNone(m.note, SizeNote)
    <3>1. CASE m.note = Absent
      BY <3>1 DEF TextOrNone
    <3>2. CASE m.note = SizeNote
      BY <3>2, WireAssumption DEF TextOrNone, Text, SizeNote
    <3> QED BY <1>3, <3>1, <3>2
  <2>2. m.finish # Absent => SafeId(m.finish)
    BY <1>3 DEF SafeId
  <2>3. ServerAccepts(m)
    BY <1>3, <2>1, <2>2 DEF ServerAccepts, ReadsExecuteResult, Exact
  <2> QED BY <1>3, <2>3 DEF ServerTakes, ChunkOpens, Greeting
<1>5. ASSUME ~Frames(m, escaped) PROVE KnownMisfit(m)
  <2>1. Largest(m) \in {0, 1, 5}
    <3>1. Largest(m) = IF m.message # Absent THEN (IF m.message.content = Absent THEN 0 ELSE m.message.content) ELSE 0
      BY <1>3 DEF Largest
    <3>2. CASE m.message = Absent \/ m.message.content = Absent
      BY <3>1, <3>2
    <3>3. CASE m.message # Absent /\ m.message.content # Absent
      BY <1>3, <3>1, <3>3
    <3> QED BY <3>2, <3>3
  <2>2. Largest(m) = 5 \/ escaped = TRUE
    BY <1>5, <2>1 DEF Frames, Encoded, SizeFrame
  <2>3. ~Frames(m, TRUE)
    BY <1>5, <2>1, <2>2 DEF Frames, Encoded, SizeFrame, SizeToolResult
  <2> QED BY <1>3, <2>3 DEF KnownMisfit
<1>6. CASE Frames(m, escaped)
  <2>1. Up(m) /\ UNCHANGED refused
    BY <1>6 DEF WorkerWrites, m
  <2> QED BY <1>1, <1>4, <2>1, WorkerSaysKeeps
<1>7. CASE ~Frames(m, escaped)
  <2>1. UNCHANGED <<up, written>> /\ refused' = refused \union {m}
    BY <1>7 DEF WorkerWrites, m
  <2>2. \A x : KnownMisfit(x)' <=> KnownMisfit(x)
    BY DEF KnownMisfit, Frames, Encoded, Largest
  <2>3. OwnFramesAreRead'
    BY <1>5, <1>7, <2>1, <2>2 DEF WireIInv, OwnFramesAreRead
  <2>4. WireTypeOK' /\ GreetingFacts' /\ VersionFacts' /\ BreakFacts' /\ GatesHold'
    BY <1>1, <2>1 DEF WireIInv, WireTypeOK, WireEnds, GreetingFacts, VersionFacts, Negotiated, MaxOf, Supported, BreakFacts, GatesHold
  <2>5. FrameFacts'
    BY <1>1, <2>1, TakesKeeps DEF WireIInv, FrameFacts
  <2> QED BY <2>3, <2>4, <2>5 DEF WireIInv
<1> QED BY <1>6, <1>7

LEMMA WorkerAsksKeeps == ASSUME WireIInv, WorkerAsks PROVE WireIInv'
<1>1. workerEnd.at = "ready" /\ own /\ workerEnd.version >= 3 /\ UNCHANGED <<down, workerEnd, serverEnd, torn, own, refused, served>>
  BY DEF WorkerAsks
<1> PICK q \in Questions : Up(q)
  BY DEF WorkerAsks
<1>2. SuspensionGate
  BY <1>1 DEF WireIInv, VersionFacts, SuspensionGate
<1>3. ServerTakes(q) \/ KnownMisfit(q)
  <2> PICK a \in {1, 2}, c \in {Absent, 1, 4} :
        q = [type |-> "execute_tool_call", shape |-> "exact", call |-> 1, name |-> 1, arguments |-> a, content |-> c]
    BY DEF Questions
  <2>1. CASE c = 4
    BY <2>1, WireAssumption DEF KnownMisfit, SizeChunk
  <2>2. CASE c # 4
    BY <1>2, <2>2, WireAssumption
       DEF ServerTakes, ServerAccepts, ReadsToolCall, Exact, Text, TextOrNone, SizeIdentifier, SizeChunk, ChunkOpens, Greeting
  <2> QED BY <2>1, <2>2
<1> QED BY <1>1, <1>3, WorkerSaysKeeps

LEMMA ForeignWritesKeeps == ASSUME WireIInv, ForeignWrites PROVE WireIInv'
<1>1. workerEnd.at = "ready" /\ ~own /\ UNCHANGED <<down, workerEnd, serverEnd, torn, own, refused, served>>
  BY DEF ForeignWrites
<1> PICK m \in Foreign : Up(m)
  BY DEF ForeignWrites
<1> QED BY <1>1, WorkerSaysKeeps

LEMMA ServerExecutesKeeps == ASSUME WireIInv, ServerExecutes PROVE WireIInv'
<1>1. serverEnd.at = "ready" /\ UNCHANGED <<up, workerEnd, serverEnd, torn, own, refused, served>>
  BY DEF ServerExecutes
<1> PICK x \in Messages : MessageAccepted(x) /\ Down([type |-> "execute", shape |-> "exact", call |-> [messages |-> <<x>>]])
  BY DEF ServerExecutes
<1> DEFINE m == [type |-> "execute", shape |-> "exact", call |-> [messages |-> <<x>>]]
<1>2. CallAccepted(m.call)
  BY DEF CallAccepted
<1>3. ~Greeted(m) /\ WorkerAccepts(m)
  BY <1>2 DEF Greeted, WorkerAccepts, ReadsExecute, ReadsCall, Exact
<1> QED BY <1>1, <1>3, ServerSaysKeeps

LEMMA ServerCancelsKeeps == ASSUME WireIInv, ServerCancels PROVE WireIInv'
<1>1. serverEnd.at = "ready" /\ Down(Plain("cancel")) /\ UNCHANGED <<up, workerEnd, serverEnd, torn, own, refused, served>>
  BY DEF ServerCancels
<1> QED BY <1>1, AnswersAreTaken, ServerSaysKeeps

\* A tool result is framed and read, but for an empty one; what cannot be framed ends the session and is known not to fit.
LEMMA ServerAnswersKeeps == ASSUME WireIInv, ServerAnswers PROVE WireIInv'
<1>1. serverEnd.at = "ready" /\ UNCHANGED <<up, workerEnd, torn, own, served>>
  BY DEF ServerAnswers
<1> PICK content \in 0..3, escaped \in BOOLEAN :
      LET m == [type |-> "execute_tool_result", shape |-> "exact", call |-> 1, content |-> content] IN
      IF Frames(m, escaped) THEN Down(m) /\ tracked' = "running" /\ UNCHANGED <<serverEnd, refused>>
      ELSE serverEnd' = Ends(serverEnd, "failed") /\ tracked' = "none" /\ refused' = refused \union {m} /\ UNCHANGED <<down, written>>
  BY DEF ServerAnswers
<1> DEFINE m == [type |-> "execute_tool_result", shape |-> "exact", call |-> 1, content |-> content]
<1>2. m.type = "execute_tool_result" /\ m.shape = "exact" /\ m.call = 1 /\ m.content = content
  OBVIOUS
<1>3. /\ Frames(m, escaped) => Down(m) /\ UNCHANGED <<serverEnd, refused>>
      /\ ~Frames(m, escaped) => serverEnd' = Ends(serverEnd, "failed") /\ refused' = refused \union {m} /\ UNCHANGED <<down, written>>
  OBVIOUS
<1> HIDE DEF m
<1>4. CASE Frames(m, escaped)
  <2>1. ~Greeted(m) /\ (WorkerAccepts(m) \/ KnownMisfit(m))
    <3>1. CASE content = 0
      BY <1>2, <3>1 DEF Greeted, KnownMisfit
    <3>2. CASE content # 0
      BY <1>2, <3>2, WireAssumption DEF Greeted, WorkerAccepts, ReadsToolResult, Exact, Text, SizeIdentifier, SizeToolResult
    <3> QED BY <3>1, <3>2
  <2> QED BY <1>1, <1>3, <1>4, <2>1, ServerSaysKeeps
<1>5. CASE ~Frames(m, escaped)
  <2>1. KnownMisfit(m)
    <3>1. Largest(m) = content
      BY <1>2 DEF Largest
    <3>2. ~Frames(m, TRUE)
      BY <1>5, <3>1 DEF Frames, Encoded, SizeFrame, SizeToolResult
    <3> QED BY <1>2, <3>2 DEF KnownMisfit
  <2>2. \A x : KnownMisfit(x)' <=> KnownMisfit(x)
    BY DEF KnownMisfit, Frames, Encoded, Largest
  <2>3. OwnFramesAreRead'
    BY <1>3, <1>5, <2>1, <2>2 DEF WireIInv, OwnFramesAreRead
  <2>4. serverEnd'.at = "ended" /\ serverEnd'.version = serverEnd.version /\ serverEnd'.how = "failed" /\ serverEnd'.offered = serverEnd.offered
        /\ serverEnd' \in [at : {"ended"}, version : 0..WorkerProtocolVersion, offered : {serverEnd.offered}, how : {"failed"}]
    BY <1>3, <1>5, EndLeft DEF WireIInv
  <2>5. WireTypeOK'
    BY <1>1, <1>3, <1>5, <2>4 DEF WireIInv, WireTypeOK, WireEnds
  <2>6. GreetingFacts' /\ VersionFacts' /\ BreakFacts' /\ GatesHold'
    BY <1>1, <1>3, <1>5, <2>4 DEF WireIInv, GreetingFacts, VersionFacts, BreakFacts, GatesHold
  <2>7. FrameFacts'
    BY <1>1, <1>3, <1>5, <2>4, TakesKeeps DEF WireIInv, FrameFacts
  <2> QED BY <2>3, <2>5, <2>6, <2>7 DEF WireIInv
<1> QED BY <1>4, <1>5

\* Whatever of the server's frames the worker reads, it refuses none but those that are known.
LEMMA WorkerReadsKeeps == ASSUME WireIInv, WorkerReads PROVE WireIInv'
<1> DEFINE m == Head(down)
<1>1. /\ workerEnd.at = "ready" /\ own /\ down # <<>> /\ down' = Tail(down) /\ UNCHANGED <<up, serverEnd, written, torn, own, served>>
      /\ IF m = TornFrame \/ ~WorkerAccepts(m)
         THEN workerEnd' = Ends(workerEnd, "refused") /\ refused' = IF m # TornFrame THEN refused \union {m} ELSE refused
         ELSE UNCHANGED refused /\ workerEnd' \in {workerEnd, Ends(workerEnd, "refused")}
  BY DEF WorkerReads
<1>2. IsSequence(down') /\ 1 \in DOMAIN down /\ m = down[1] /\ \A i \in DOMAIN down' : \E j \in DOMAIN down : down'[i] = down[j]
  BY <1>1, FrameRead DEF WireIInv, WireTypeOK
<1>3. WorkerAccepts(m) \/ KnownMisfit(m)
  BY <1>1, <1>2 DEF WireIInv, FrameFacts
<1>4. \A x : KnownMisfit(x)' <=> KnownMisfit(x)
  BY DEF KnownMisfit, Frames, Encoded, Largest
<1>5. OwnFramesAreRead'
  BY <1>1, <1>3, <1>4 DEF WireIInv, OwnFramesAreRead
<1>6. serverEnd.at # "idle" /\ workerEnd.version # 0 /\ ~torn.up /\ serverEnd.how # "clean"
  BY <1>1 DEF WireIInv, GreetingFacts, VersionFacts, BreakFacts
<1>7. /\ workerEnd'.at \in {"ready", "ended"} /\ workerEnd'.offered = workerEnd.offered /\ workerEnd'.version = workerEnd.version
      /\ workerEnd' \in [at : {"ready", "ended"}, version : 0..WorkerProtocolVersion, offered : {workerEnd.offered, serverEnd.offered},
                         how : {workerEnd.how, serverEnd.how, "refused"}]
      /\ workerEnd'.how \in {workerEnd.how, "refused"}
  <2>1. CASE workerEnd' = workerEnd
    BY <1>1, <2>1 DEF WireIInv, WireTypeOK, WireEnds
  <2>2. CASE workerEnd' = Ends(workerEnd, "refused")
    BY <2>2, EndLeft DEF WireIInv
  <2> QED BY <1>1, <2>1, <2>2
<1> HIDE DEF m
<1>8. WireTypeOK'
  BY <1>1, <1>2, <1>7 DEF WireIInv, WireTypeOK, WireEnds
<1>9. GreetingFacts' /\ VersionFacts' /\ BreakFacts' /\ GatesHold'
  BY <1>1, <1>2, <1>6, <1>7 DEF WireIInv, GreetingFacts, VersionFacts, BreakFacts, GatesHold
<1>10. FrameFacts'
  BY <1>1, <1>2, TakesKeeps DEF WireIInv, FrameFacts
<1> QED BY <1>5, <1>8, <1>9, <1>10 DEF WireIInv

\* An end that leaves by itself, or sees the other's end.
LEMMA WorkerLeavesKeeps ==
    ASSUME WireIInv, NEW how, workerEnd.at \in {"greeting", "ready"}, serverEnd.at # "idle", workerEnd' = Ends(workerEnd, how),
           UNCHANGED <<up, down, serverEnd, written, torn, own, refused, served>>
    PROVE  WireIInv'
<1>1. /\ workerEnd'.at = "ended" /\ workerEnd'.offered = workerEnd.offered /\ workerEnd'.version = workerEnd.version
      /\ workerEnd' \in [at : {"ended"}, version : 0..WorkerProtocolVersion, offered : {workerEnd.offered}, how : {how}] /\ workerEnd'.how = how
  BY EndLeft DEF WireIInv
<1>2. WireTypeOK'
  BY <1>1 DEF WireIInv, WireTypeOK, WireEnds
<1>3. GreetingFacts' /\ VersionFacts' /\ BreakFacts' /\ GatesHold'
  BY <1>1 DEF WireIInv, GreetingFacts, VersionFacts, BreakFacts, GatesHold
<1>4. FrameFacts' /\ OwnFramesAreRead'
  BY TakesKeeps DEF WireIInv, FrameFacts, OwnFramesAreRead, KnownMisfit, Frames, Encoded, Largest
<1> QED BY <1>2, <1>3, <1>4 DEF WireIInv

LEMMA WorkerClosesKeeps == ASSUME WireIInv, WorkerCloses PROVE WireIInv'
  BY WorkerLeavesKeeps DEF WorkerCloses, WireIInv, GreetingFacts

LEMMA WorkerSeesEndKeeps == ASSUME WireIInv, WorkerSeesEnd PROVE WireIInv'
  BY WorkerLeavesKeeps DEF WorkerSeesEnd

\* The end is seen only when nothing is left to be read, so a torn frame was read before.
LEMMA ServerSeesEndKeeps == ASSUME WireIInv, ServerSeesEnd PROVE WireIInv'
<1>1. /\ serverEnd.at \in {"idle", "ready"} /\ workerEnd.at = "ended" /\ up = <<>>
      /\ serverEnd' = Ends(serverEnd, "clean") /\ UNCHANGED <<up, down, workerEnd, written, torn, own, refused, served>>
  BY DEF ServerSeesEnd, EndOf
<1>2. serverEnd.at = "ready"
  BY <1>1 DEF WireIInv, GreetingFacts
<1>3. /\ serverEnd'.at = "ended" /\ serverEnd'.offered = serverEnd.offered /\ serverEnd'.version = serverEnd.version /\ serverEnd'.how = "clean"
      /\ serverEnd' \in [at : {"ended"}, version : 0..WorkerProtocolVersion, offered : {serverEnd.offered}, how : {"clean"}]
  BY <1>1, EndLeft DEF WireIInv
<1>4. WireTypeOK'
  BY <1>1, <1>3 DEF WireIInv, WireTypeOK, WireEnds
<1>5. GreetingFacts' /\ VersionFacts' /\ GatesHold'
  BY <1>1, <1>3 DEF WireIInv, GreetingFacts, VersionFacts, GatesHold
<1>6. BreakFacts'
  BY <1>1, <1>3 DEF WireIInv, BreakFacts
<1>7. FrameFacts' /\ OwnFramesAreRead'
  BY <1>1, <1>2, <1>3, TakesKeeps DEF WireIInv, FrameFacts, OwnFramesAreRead, KnownMisfit, Frames, Encoded, Largest
<1> QED BY <1>4, <1>5, <1>6, <1>7 DEF WireIInv

LEMMA BreakKeeps == ASSUME WireIInv, Break PROVE WireIInv'
<1>1. /\ workerEnd.at = "ready" /\ up # <<>> /\ workerEnd' = Ends(workerEnd, "broken")
      /\ up' = [up EXCEPT ![Len(up)] = TornFrame] /\ torn' = [torn EXCEPT !.up = TRUE]
      /\ UNCHANGED <<down, serverEnd, written, own, refused, served>>
  BY DEF Break
<1>2. serverEnd.at # "idle" /\ serverEnd.how # "clean"
  BY <1>1 DEF WireIInv, GreetingFacts, BreakFacts
<1>3. /\ workerEnd'.at = "ended" /\ workerEnd'.offered = workerEnd.offered /\ workerEnd'.version = workerEnd.version /\ workerEnd'.how = "broken"
      /\ workerEnd' \in [at : {"ended"}, version : 0..WorkerProtocolVersion, offered : {workerEnd.offered}, how : {"broken"}]
  BY <1>1, EndLeft DEF WireIInv
<1>4. torn' \in [up : BOOLEAN, down : BOOLEAN]
  BY <1>1 DEF WireIInv, WireTypeOK
<1>5. IsSequence(up') /\ up' # <<>> /\ up'[Len(up')] = TornFrame /\ \A i \in DOMAIN up' : i \in DOMAIN up /\ (up'[i] = TornFrame \/ up'[i] = up[i])
  <2> DEFINE S == {up[i] : i \in DOMAIN up} \cup {TornFrame}
  <2>1. up \in Seq(S) /\ Len(up) \in DOMAIN up /\ Len(up) # 0
    BY <1>1 DEF WireIInv, WireTypeOK, IsSequence
  <2>2. up' \in Seq(S) /\ Len(up') = Len(up) /\ DOMAIN up' = DOMAIN up
    BY <1>1, <2>1
  <2>3. \A i \in DOMAIN up' : up'[i] = IF i = Len(up) THEN TornFrame ELSE up[i]
    BY <1>1, <2>1, <2>2
  <2>4. IsSequence(up')
    BY <2>2, SequenceIsItsOwn
  <2>5. up' # <<>>
    BY <2>1, <2>2, Len(<<>>) = 0
  <2> QED BY <2>1, <2>2, <2>3, <2>4, <2>5
<1>6. WireTypeOK'
  BY <1>1, <1>3, <1>4, <1>5 DEF WireIInv, WireTypeOK, WireEnds
<1>7. GreetingFacts' /\ VersionFacts' /\ GatesHold'
  BY <1>1, <1>2, <1>3 DEF WireIInv, GreetingFacts, VersionFacts, GatesHold
<1>8. BreakFacts'
  BY <1>1, <1>2, <1>3, <1>5 DEF WireIInv, BreakFacts
<1>9. FrameFacts' /\ OwnFramesAreRead'
  BY <1>1, <1>2, <1>5, TakesKeeps DEF WireIInv, FrameFacts, OwnFramesAreRead, KnownMisfit, Frames, Encoded, Largest
<1> QED BY <1>6, <1>7, <1>8, <1>9 DEF WireIInv

\* Every step of either program, and of the path between them, keeps the invariant.
LEMMA WireStepKeeps == ASSUME WireIInv, [WireNext]_wireVars PROVE WireIInv'
<1>1. CASE WorkerGreets
  BY <1>1, WorkerGreetsKeeps
<1>2. CASE ServerGreets
  BY <1>2, ServerGreetsKeeps
<1>3. CASE WorkerIsGreeted
  BY <1>3, WorkerIsGreetedKeeps
<1>4. CASE WorkerReports \/ WorkerStreams \/ WorkerAnswers \/ WorkerAsks
  BY <1>4, WorkerReportsKeeps, WorkerStreamsKeeps, WorkerAnswersKeeps, WorkerAsksKeeps
<1>5. CASE ForeignWrites
  BY <1>5, ForeignWritesKeeps
<1>6. CASE ServerReads
  BY <1>6, ServerReadsKeeps
<1>7. CASE ServerExecutes \/ ServerCancels \/ ServerAnswers
  BY <1>7, ServerExecutesKeeps, ServerCancelsKeeps, ServerAnswersKeeps
<1>8. CASE WorkerReads
  BY <1>8, WorkerReadsKeeps
<1>9. CASE WorkerCloses \/ ServerSeesEnd \/ WorkerSeesEnd \/ Break
  BY <1>9, WorkerClosesKeeps, ServerSeesEndKeeps, WorkerSeesEndKeeps, BreakKeeps
<1>10. CASE UNCHANGED wireVars
  BY <1>10 DEF wireVars, WireIInv, WireTypeOK, IsSequence, WireEnds, GreetingFacts, VersionFacts, Negotiated, MaxOf, Supported, BreakFacts, GatesHold,
     FrameFacts, ServerTakes, SuspensionGate, OwnFramesAreRead, KnownMisfit, Frames, Encoded, Largest
<1> QED BY <1>1, <1>2, <1>3, <1>4, <1>5, <1>6, <1>7, <1>8, <1>9, <1>10 DEF WireNext

\* worker_protocol.py: the invariant of one connection, whatever either program and the path do.
THEOREM WireIsInductive == WireSpec => []WireIInv
<1>1. WireInit => WireIInv
  BY WireInitEstablishes
<1>2. WireIInv /\ [WireNext]_wireVars => WireIInv'
  BY WireStepKeeps
<1> QED BY <1>1, <1>2, PTL DEF WireSpec

\* What the invariant says of the two ends' versions.
LEMMA VersionsAreOne == WireIInv => OneVersion
<1> SUFFICES ASSUME WireIInv, workerEnd.version # 0
             PROVE  workerEnd.version = serverEnd.version /\ \A v \in Supported \intersect workerEnd.offered : v <= workerEnd.version
  BY DEF OneVersion
<1>1. workerEnd.version = serverEnd.version /\ Supported \intersect workerEnd.offered # {} /\ serverEnd.version = Negotiated(workerEnd.offered)
  BY DEF WireIInv, VersionFacts
<1> QED BY <1>1, VersionNegotiated

\* worker_protocol.py, worker_endpoint.py and worker_client.py: the two ends of a session speak the highest version both know, a frame that
\* was cut off is never taken for the end of the session, no version's gate is passed below it, and each end reads what the other builds
\* but for the frames that are known not to fit.
THEOREM FramesStayCarried == WireSpec => []FramesAreCarried
<1>1. WireIInv => FramesAreCarried
  BY VersionsAreOne DEF WireIInv, FramesAreCarried, BreakFacts, CleanEndIsWhole
<1> QED BY <1>1, WireIsInductive, PTL

------------------------------------------------------------------------------
(* One dispatch to a provider over HTTP. *)

\* A series of socket operations takes a whole number of units.
LEMMA LastsNaturally == ASSUME ClockFacts, NEW w \in Lasting PROVE w \in Nat
  BY HttpAssumption DEF ClockFacts, Lasting

\* Every way a dispatch ends leaves the clock and the wire as they are asked to be.
LEMMA DispatchStepKeeps ==
    ASSUME HttpIInv, HttpNext
    PROVE  HttpIInv'
<1> USE HttpAssumption DEF HttpIInv
<1>1. CASE Dispatch
  <2>1. PICK d \in Dispatches, m \in 0..DispatchDeadline :
          /\ dispatch' = d /\ moment' = m
          /\ IF ~Bindable(d) \/ BuildRefused(d.call, d.preset) THEN EndWith(Ended("permanent")) /\ UNCHANGED patience
             ELSE IF m >= DispatchDeadline THEN EndWith(Ended("timeout")) /\ UNCHANGED patience
             ELSE /\ stage' = "connecting" /\ patience' = Lower(DispatchDeadline - m, SocketCap)
                  /\ UNCHANGED <<body, reader, gathered, result>>
    BY <1>1 DEF Dispatch
  <2>2. stage = "idle" /\ posted = 0 /\ head = Absent /\ overdue = 0 /\ UNCHANGED <<head, posted, overdue>> /\ moment' \in Nat
    BY <1>1, <2>1 DEF Dispatch, ClockFacts, PostFacts
  <2>3. CASE stage' = "ended" /\ patience' = patience
    BY <2>2, <2>3 DEF ClockFacts, PostFacts, CarriedFacts
  <2>4. CASE stage' = "connecting" /\ patience' = Lower(DispatchDeadline - m, SocketCap) /\ ~BuildRefused(d.call, d.preset)
    <3>1. patience' \in 0..SocketCap
      BY <2>1, <2>4 DEF Lower
    <3>2. ClockFacts'
      BY <2>1, <2>2, <2>4, <3>1 DEF ClockFacts
    <3> QED BY <2>1, <2>2, <2>4, <3>2 DEF PostFacts, CarriedFacts
  <2> QED BY <2>1, <2>3, <2>4 DEF EndWith
<1>2. CASE SendRequest
  <2>1. PICK w \in Lasting :
          /\ Waits(w)
          /\ \/ stage' = "sent" /\ posted' = posted + 1 /\ UNCHANGED <<body, reader, gathered, result>>
             \/ SocketFails(w) /\ posted' \in {posted, posted + 1}
    BY <1>2 DEF SendRequest
  <2>2. stage = "connecting" /\ UNCHANGED <<dispatch, head, overdue, patience>> /\ moment' \in Nat
    BY <1>2, <2>1, LastsNaturally DEF SendRequest, Waits, ClockFacts
  <2>3. ClockFacts'
    BY <2>1, <2>2 DEF SocketFails, EndWith, ClockFacts
  <2>4. PostFacts'
    BY <2>1, <2>2 DEF SocketFails, EndWith, Ended, PostFacts
  <2> QED BY <2>1, <2>2, <2>3, <2>4 DEF SocketFails, EndWith, CarriedFacts
<1>3. CASE ReceiveHead
  <2>1. PICK w \in Lasting :
          /\ Waits(w)
          /\ \/ \E h \in Heads : head' = h /\ (stage' = "refused" \/ stage' = "reading" \/ stage' = "ended")
             \/ SocketFails(w) /\ UNCHANGED head
    BY <1>3 DEF ReceiveHead, EndWith
  <2>2. stage = "sent" /\ UNCHANGED <<dispatch, overdue, patience, posted>> /\ moment' \in Nat
    BY <1>3, <2>1, LastsNaturally DEF ReceiveHead, Waits, ClockFacts
  <2>3. ClockFacts'
    BY <2>1, <2>2 DEF SocketFails, EndWith, ClockFacts
  <2>4. PostFacts'
    BY <2>1, <2>2 DEF SocketFails, EndWith, Ended, PostFacts
  <2> QED BY <2>1, <2>2, <2>3, <2>4 DEF SocketFails, EndWith, CarriedFacts
<1>4. CASE CancelDispatch
  BY <1>4 DEF CancelDispatch, ClockFacts, PostFacts, CarriedFacts, Expired
<1>5. CASE StopsReading \/ ReadFails \/ ReadStream \/ EndStream \/ ReadWhole \/ EndWhole
  <2>1. stage = "reading" /\ UNCHANGED <<dispatch, head, patience, posted>> /\ stage' \in {"reading", "ended"}
    BY <1>5 DEF StopsReading, ReadFails, ReadStream, EndStream, ReadWhole, EndWhole, Checked, EndWith, EmitFails, SocketFailsForGood
  <2>2. \/ moment' = moment /\ overdue' = overdue
        \/ ~Expired /\ \E w \in Lasting : Reads(w)
    <3>1. CASE ReadFails
      BY <3>1 DEF ReadFails, Checked
    <3>2. CASE ReadStream
      BY <3>2 DEF ReadStream, Checked
    <3>3. CASE ReadWhole
      BY <3>3 DEF ReadWhole, Checked
    <3>4. CASE EndStream
      BY <3>4 DEF EndStream, Checked
    <3>5. CASE EndWhole
      BY <3>5 DEF EndWhole, Checked
    <3> QED BY <1>5, <3>1, <3>2, <3>3, <3>4, <3>5 DEF StopsReading
  <2>3. ClockFacts'
    <3>1. CASE moment' = moment /\ overdue' = overdue
      BY <2>1, <3>1 DEF ClockFacts, Expired
    <3>2. CASE ~Expired /\ \E w \in Lasting : Reads(w)
      <4>1. PICK w \in Lasting : moment' = moment + w /\ overdue' = overdue + (IF moment + w >= DispatchDeadline THEN 1 ELSE 0)
        BY <3>2 DEF Reads, Waits
      <4>2. overdue = 0 /\ w \in Nat
        BY <2>1, <3>2, LastsNaturally DEF ClockFacts
      <4> QED BY <2>1, <4>1, <4>2 DEF ClockFacts, Expired
    <3> QED BY <2>2, <3>1, <3>2
  <2> QED BY <2>1, <2>3 DEF PostFacts, CarriedFacts
<1>6. CASE Probe \/ Discover
  <2>1. stage = "idle" /\ stage' = "probed" /\ UNCHANGED <<moment, overdue, patience, posted>>
    BY <1>6 DEF Probe, Discover
  <2> QED BY <2>1 DEF ClockFacts, PostFacts, CarriedFacts
<1>7. CASE ReadErrorNote
  <2>1. stage = "refused" /\ stage' = "ended" /\ UNCHANGED <<dispatch, head, overdue, patience, posted>> /\ head # Absent
    BY <1>7 DEF ReadErrorNote, EndWith, PostFacts
  <2>2. moment' \in Nat
    <3>1. PICK w \in Lasting : moment' = moment + w
      BY <1>7 DEF ReadErrorNote, Waits
    <3> QED BY <3>1, LastsNaturally DEF ClockFacts
  <2> QED BY <2>1, <2>2 DEF ClockFacts, PostFacts, CarriedFacts
<1> QED BY <1>1, <1>2, <1>3, <1>4, <1>5, <1>6, <1>7 DEF HttpNext

\* providers/openai_http_adapter.py: the invariant of a dispatch, whatever the provider does.
THEOREM HttpIsInductive == HttpSpec => []HttpIInv
<1>1. HttpInit => HttpIInv
  BY HttpAssumption DEF HttpInit, HttpIInv, ClockFacts, PostFacts, CarriedFacts
<1>2. HttpIInv /\ [HttpNext]_httpVars => HttpIInv'
  <2>1. CASE UNCHANGED httpVars
    BY <2>1 DEF httpVars, HttpIInv, ClockFacts, PostFacts, CarriedFacts, Expired
  <2> QED BY <2>1, DispatchStepKeeps
<1> QED BY <1>1, <1>2, PTL DEF HttpSpec

\* providers/openai_http_core.py: what a request that was not refused says, preset by preset.
LEMMA WrittenAsAsked ==
    ASSUME NEW call, NEW p \in Presets, ~BuildRefused(call, p)
    PROVE  LET sent == WireRequest(call, p)
           IN /\ sent.choice = call.choice \/ (call.choice = "auto" /\ p.choice = "omit_auto")
              /\ call.effort # Absent => p.efforts[call.effort] \in {sent.effort[k] : k \in DOMAIN sent.effort}
              /\ call.limit # Absent => sent.limit.value = call.limit
              /\ call.params \subseteq (sent.params \union p.omitted) \ p.unevidenced
              /\ \A i \in DOMAIN call.messages : call.messages[i].role = "developer" => p.developer = "pass"
<1> DEFINE sent == WireRequest(call, p)
           effort == WireEffort(call.effort, p)
<1>1. /\ p.reasoning \in {"reasoning_effort", "openrouter_reasoning", "thinking_deepseek", "thinking_zai"}
      /\ p.developer \in {"reject", "pass"}
  <2>1. GenericPreset.reasoning = "reasoning_effort" /\ GenericPreset.developer = "reject"
    BY DEF GenericPreset
  <2>2. OpenAiPreset.reasoning = "reasoning_effort" /\ OpenAiPreset.developer = "pass"
    BY DEF GenericPreset, OpenAiPreset
  <2>3. DeepSeekPreset.reasoning = "thinking_deepseek" /\ DeepSeekPreset.developer = "reject"
    BY DEF GenericPreset, DeepSeekPreset
  <2>4. OpenRouterPreset.reasoning = "openrouter_reasoning" /\ OpenRouterPreset.developer = "reject"
    BY DEF GenericPreset, OpenRouterPreset
  <2>5. ZaiPreset.reasoning = "thinking_zai" /\ ZaiPreset.developer = "reject"
    BY DEF GenericPreset, ZaiPreset
  <2>6. OllamaPreset.reasoning = "reasoning_effort" /\ OllamaPreset.developer = "reject"
    BY DEF GenericPreset, OllamaPreset
  <2> QED BY <2>1, <2>2, <2>3, <2>4, <2>5, <2>6 DEF Presets
<1>2. sent.choice = WireChoice(call.choice, p) /\ sent.effort = effort /\ sent.params = Omitted(call.params, p)
      /\ sent.limit = IF call.limit = Absent THEN Absent ELSE [field |-> p.limit, value |-> call.limit]
  BY DEF WireRequest
<1>3. sent.choice = call.choice \/ (call.choice = "auto" /\ p.choice = "omit_auto")
  BY <1>2 DEF WireChoice
<1>4. ASSUME call.effort # Absent PROVE p.efforts[call.effort] \in {effort[k] : k \in DOMAIN effort}
  <2> DEFINE v == p.efforts[call.effort]
  <2>1. \/ effort = [reasoning_effort |-> v] \/ effort = [reasoning |-> v]
        \/ effort = [thinking |-> v] \/ effort = [thinking |-> "enabled", reasoning_effort |-> v]
    BY <1>1, <1>4 DEF WireEffort
  <2> HIDE DEF effort, v
  <2>2. \E k \in DOMAIN effort : effort[k] = v
    <3>1. CASE effort = [reasoning_effort |-> v] BY <3>1
    <3>2. CASE effort = [reasoning |-> v] BY <3>2
    <3>3. CASE effort = [thinking |-> v] BY <3>3
    <3>4. CASE effort = [thinking |-> "enabled", reasoning_effort |-> v] BY <3>4
    <3> QED BY <2>1, <3>1, <3>2, <3>3, <3>4
  <2>3. v \in {effort[k] : k \in DOMAIN effort}
    BY <2>2
  <2> QED BY <2>3 DEF v
<1>5. call.params \subseteq (sent.params \union p.omitted) \ p.unevidenced
  BY <1>2 DEF BuildRefused, ParamsRefused, Omitted
<1>6. call.limit # Absent => sent.limit.value = call.limit
  BY <1>2
<1>7. \A i \in DOMAIN call.messages : call.messages[i].role = "developer" => p.developer = "pass"
  BY <1>1 DEF BuildRefused, MessageRefused
<1> HIDE DEF effort
<1>8. call.effort # Absent => p.efforts[call.effort] \in {sent.effort[k] : k \in DOMAIN sent.effort}
  BY <1>2, <1>4
<1> QED BY <1>3, <1>5, <1>6, <1>7, <1>8

\* providers/openai_http_adapter.py: whatever the provider sends and however long it takes, what is on the wire carries every control of the
\* call that its preset does not document as omitted, at most one read of the answer is over after the deadline, and no failure is called
\* permanent before an answer unless nothing was sent.
THEOREM DispatchStaysHonest == HttpSpec => []DispatchIsHonest
<1>1. HttpIInv => NothingIsDropped
  <2> SUFFICES ASSUME HttpIInv, posted > 0 PROVE NothingIsDropped
    BY DEF NothingIsDropped
  <2>1. dispatch.preset \in Presets /\ ~BuildRefused(dispatch.call, dispatch.preset)
    BY DEF HttpIInv, CarriedFacts
  <2> QED BY <2>1, WrittenAsAsked DEF NothingIsDropped, Policy
<1>2. HttpIInv => LateAnswerIsCutOff /\ DoubtIsTold
  BY DEF HttpIInv, ClockFacts, PostFacts, LateAnswerIsCutOff, DoubtIsTold
<1> QED BY <1>1, <1>2, HttpIsInductive, PTL DEF DispatchIsHonest

-----------------------------------------------------------------------------
(* The server's durable store, for any number of store objects, processes    *)
(* and faults.  Each action is first summed up by a lemma on the moving      *)
(* store (its place, its locks, its guard); the groups of the invariant are  *)
(* then kept one by one: the places, the exclusion, the files and what they  *)
(* hold, the recovery artifacts and what the disk may hold of them.          *)

\* Where a store object may be.
Places == Underway \cup {"closed", "guard", "open"}

\* Null is none of the values it stands for the absence of.
LEMMA NullIsApart ==
    /\ Null \notin Stores /\ Null \notin Content /\ Null \notin Files /\ Null \notin RecoveryClaims /\ Null \notin Slots
    /\ Null \notin StrangeClaims /\ Null \notin StrangeSlots /\ Null \notin ForeignKinds /\ Null \notin Refusals
    /\ Null # "stray" /\ Null # "acquire" /\ Null # "preflight" /\ Null # "fail"
  BY StoresAssumption DEF Returns

\* A step of one store leaves it at a place and the others as they were.
Stepped(s, place) ==
    /\ pc' \in [Stores -> Places] /\ lock' \in [Stores -> {"none", "read", "write", "recover"}]
    /\ ret' \in [Stores -> Returns \cup {Null}] /\ seen' \in [Stores -> Files \cup {Null}]
    /\ err' \in [Stores -> Refusals \cup {Null}] /\ guard' \in Stores \cup {Null}
    /\ pc'[s] = place
    /\ \A t \in Stores \ {s} :
          /\ pc'[t] = pc[t] /\ lock'[t] = lock[t] /\ ret'[t] = ret[t] /\ seen'[t] = seen[t] /\ err'[t] = err[t]
          /\ guard' = t <=> guard = t

\* It moves, and keeps all that it holds.
Moves(s, place) == Stepped(s, place) /\ lock'[s] = lock[s] /\ ret'[s] = ret[s] /\ seen'[s] = seen[s] /\ err'[s] = err[s] /\ guard' = guard

\* It gives up the locks, the lease and the guard.
GivesUp(s) ==
    /\ Stepped(s, "closed")
    /\ lock'[s] = "none" /\ ret'[s] = Null /\ seen'[s] = Null /\ guard' = IF guard = s THEN Null ELSE guard

\* It returns to the reclaiming, from where it goes on as told.
Returned(s, where) == Stepped(s, "reclaim") /\ ret'[s] = where /\ lock'[s] = lock[s] /\ seen'[s] = seen[s] /\ err'[s] = err[s] /\ guard' = guard

\* Going to a place keeps what the store holds.
LEMMA GoingSteps ==
  ASSUME OpeningTypeOK, NEW s \in Stores, NEW q \in Places, Going(s, q)
  PROVE  Moves(s, q)
  BY DEF OpeningTypeOK, Going, Goto, Stepped, Moves, Places

\* A failed attempt gives everything up and says why.
LEMMA FailedSteps ==
  ASSUME OpeningTypeOK, NEW s \in Stores, NEW why \in Refusals, Failed(s, why)
  PROVE  GivesUp(s) /\ err'[s] = why
<1> USE DEF OpeningTypeOK, Failed, Goto, GuardAfter, Places
<1>1. /\ pc' \in [Stores -> Places] /\ lock' \in [Stores -> {"none", "read", "write", "recover"}]
      /\ ret' \in [Stores -> Returns \cup {Null}] /\ seen' \in [Stores -> Files \cup {Null}]
      /\ err' \in [Stores -> Refusals \cup {Null}] /\ guard' \in Stores \cup {Null}
  OBVIOUS
<1>2. pc'[s] = "closed" /\ err'[s] = why /\ lock'[s] = "none" /\ ret'[s] = Null /\ seen'[s] = Null
  OBVIOUS
<1>3. \A t \in Stores \ {s} :
          /\ pc'[t] = pc[t] /\ lock'[t] = lock[t] /\ ret'[t] = ret[t] /\ seen'[t] = seen[t] /\ err'[t] = err[t]
          /\ guard' = t <=> guard = t
  BY NullIsApart
<1> QED BY <1>1, <1>2, <1>3 DEF Stepped, GivesUp

\* An error inside the slot goes back to the reclaiming.
LEMMA LeaveSteps ==
  ASSUME OpeningTypeOK, NEW s \in Stores, NEW where \in {"preflight", "fail"}, Leave(s, where)
  PROVE  Returned(s, where)
  BY DEF OpeningTypeOK, Leave, Returned, Goto, Stepped, Places, Underway, Reclaiming, Returns

\* The places of the others do not depend on a step.
LEMMA StepKeepsPlaces ==
  ASSUME PlaceFacts, NEW s \in Stores, NEW q, Stepped(s, q), PlaceOf(s)'
  PROVE  PlaceFacts'
  BY DEF PlaceFacts, PlaceOf, Stepped

\* A store that gave up holds nothing.
LEMMA FailKeepsPlaces ==
  ASSUME PlaceFacts, NEW s \in Stores, GivesUp(s)
  PROVE  PlaceFacts'
<1>1. PlaceOf(s)'
  BY NullIsApart DEF GivesUp, Stepped, PlaceOf, PlaceFacts, Underway, Reclaiming, Recovering, Checking, Connected
<1> QED BY <1>1, StepKeepsPlaces DEF GivesUp
LEMMA StepKeepsExclusion ==
  ASSUME PlaceFacts, ExclusionFacts, NEW s \in Stores, NEW q, Stepped(s, q), PlaceFacts',
         lock'[s] \in {lock[s], "none"},
         q \in {"closed", "guard"} \/ pc[s] \notin {"closed", "guard"} \/ guard = Null
  PROVE  ExclusionFacts'
<1> SUFFICES ASSUME NEW u \in Stores, NEW t \in Stores \ {u}
    PROVE   /\ lock'[u] \in {"write", "recover"} => lock'[t] = "none"
            /\ lock'[u] = "recover" /\ ProcessOf[t] = ProcessOf[u] => pc'[t] \in {"closed", "guard"}
  BY DEF ExclusionFacts
<1>1. lock'[u] \in {"write", "recover"} => lock'[t] = "none"
  BY DEF ExclusionFacts, Stepped
<1>2. lock'[u] = "recover" => lock[u] = "recover" /\ guard = u /\ u # Null
  BY NullIsApart DEF PlaceFacts, PlaceOf, Stepped, Underway, Reclaiming
<1>3. lock'[u] = "recover" /\ ProcessOf[t] = ProcessOf[u] => pc'[t] \in {"closed", "guard"}
  BY <1>2 DEF ExclusionFacts, Stepped
<1> QED BY <1>1, <1>3

\* _open_store begins.
LEMMA BeginDoes ==
  ASSUME OpeningTypeOK, NEW s \in Stores, Begin(s)
  PROVE  /\ pc[s] = "closed" /\ Stepped(s, "guard")
         /\ lock'[s] = lock[s] /\ ret'[s] = ret[s] /\ seen'[s] = seen[s] /\ err'[s] = Null /\ guard' = guard
  BY DEF OpeningTypeOK, Begin, Goto, Stepped, Places

\* _recovery_guard is entered.
LEMMA TakeGuardDoes ==
  ASSUME OpeningTypeOK, NEW s \in Stores, TakeGuard(s)
  PROVE  /\ pc[s] = "guard" /\ guard = Null /\ Stepped(s, "reclaim")
         /\ lock'[s] = lock[s] /\ ret'[s] = "acquire" /\ seen'[s] = seen[s] /\ err'[s] = err[s] /\ guard' = s
  BY NullIsApart DEF OpeningTypeOK, TakeGuard, Goto, Stepped, Places, Underway, Reclaiming, Returns

\* _recovery_guard's deadline passes.
LEMMA GuardTimeoutDoes ==
  ASSUME OpeningTypeOK, NEW s \in Stores, GuardTimeout(s)
  PROVE  pc[s] = "guard" /\ GivesUp(s) /\ err'[s] = "busy"
  BY FailedSteps DEF GuardTimeout, Refusals

\* The four ends of a reclaiming.
LEMMA ReclaimedDoes ==
  ASSUME OpeningTypeOK, NEW s \in Stores, ret[s] # Null, Reclaimed(s)
  PROVE  \/ ret[s] = "acquire" /\ strange = "stray" /\ GivesUp(s) /\ err'[s] = "administrator"
         \/ /\ ret[s] = "acquire" /\ Stepped(s, "acquire") /\ ret'[s] = Null
            /\ lock'[s] = lock[s] /\ seen'[s] = seen[s] /\ err'[s] = err[s] /\ guard' = guard
         \/ /\ ret[s] = "preflight" /\ Stepped(s, "again") /\ ret'[s] = Null
            /\ lock'[s] = "none" /\ seen'[s] = Null /\ err'[s] = err[s] /\ guard' = guard
         \/ ret[s] = "fail" /\ GivesUp(s) /\ err'[s] = "retry"
<1>1. ret[s] \in {"acquire", "preflight", "fail"}
  BY DEF OpeningTypeOK, Returns
<1>2. CASE ret[s] = "acquire" /\ strange = "stray"
  BY <1>2, FailedSteps DEF Reclaimed, Refusals
<1>3. CASE ret[s] = "acquire" /\ strange # "stray"
  BY <1>3 DEF OpeningTypeOK, Reclaimed, Goto, Stepped, Places, Underway, Checking
<1>4. CASE ret[s] = "preflight"
  BY <1>4 DEF OpeningTypeOK, Reclaimed, Goto, Stepped, Places, Underway, Checking
<1>5. CASE ret[s] = "fail"
  BY <1>5, FailedSteps DEF Reclaimed, Refusals
<1> QED BY <1>1, <1>2, <1>3, <1>4, <1>5

\* The branches of _reclaim_recovery_slot up to the slot.
LEMMA ReclaimDoes ==
  ASSUME OpeningTypeOK, NEW s \in Stores, PlaceOf(s), Reclaim(s)
  PROVE  /\ pc[s] = "reclaim" /\ KeepDb /\ KeepOthers
         /\ \/ dir.stage # Null /\ Changed([dir EXCEPT !.stage = Null]) /\ Moves(s, "reclaim")
            \/ /\ KeepDir /\ dir.stage = Null
               /\ \/ dir.claim = Null /\ dir.slot # Null /\ GivesUp(s) /\ err'[s] = "administrator"
                  \/ dir.claim = Null /\ dir.slot = Null /\ Reclaimed(s) /\ ret[s] # Null
                  \/ /\ dir.claim # Null /\ (dir.claim.kind = "unknown" \/ (dir.slot # Null /\ ~Vouched(dir.claim, dir.slot)))
                     /\ GivesUp(s) /\ err'[s] = "administrator"
                  \/ dir.claim # Null /\ dir.claim.kind # "unknown" /\ dir.slot = Null /\ Moves(s, "unclaim")
                  \/ dir.claim # Null /\ dir.claim.kind # "unknown" /\ dir.slot # Null /\ Vouched(dir.claim, dir.slot) /\ Moves(s, "empty")
<1> USE DEF Reclaim
<1>1. pc[s] = "reclaim" /\ KeepDb /\ KeepOthers /\ ret[s] # Null
  BY DEF PlaceOf, Reclaiming
<1>2. {"reclaim", "unclaim", "empty"} \subseteq Places /\ "administrator" \in Refusals
  BY DEF Places, Underway, Reclaiming, Refusals
<1>3. CASE dir.stage # Null
  BY <1>1, <1>2, <1>3, GoingSteps DEF Moves
<1>4. CASE dir.stage = Null /\ dir.claim = Null
  BY <1>1, <1>2, <1>4, FailedSteps
<1>5. CASE dir.stage = Null /\ dir.claim # Null /\ (dir.claim.kind = "unknown" \/ (dir.slot # Null /\ ~Vouched(dir.claim, dir.slot)))
  BY <1>1, <1>2, <1>5, FailedSteps
<1>6. CASE dir.stage = Null /\ dir.claim # Null /\ ~(dir.claim.kind = "unknown" \/ (dir.slot # Null /\ ~Vouched(dir.claim, dir.slot)))
  BY <1>1, <1>2, <1>6, GoingSteps DEF Moves
<1> QED BY <1>3, <1>4, <1>5, <1>6

\* _reclaim_recovery_slot empties the slot.
LEMMA EmptySlotDoes ==
  ASSUME OpeningTypeOK, NEW s \in Stores, EmptySlot(s)
  PROVE  /\ pc[s] = "empty" /\ KeepDb /\ KeepOthers
         /\ \/ (\E e \in dir.slot.entries : Changed([dir EXCEPT !.slot.entries = @ \ {e}])) /\ Moves(s, "empty")
            \/ dir.slot.entries = {} /\ KeepDir /\ Moves(s, "rmdir")
<1>1. {"rmdir", "empty"} \subseteq Places
  BY DEF Places, Underway, Reclaiming
<1> QED BY <1>1, GoingSteps DEF Moves, EmptySlot

\* The slot and the claim are removed.
LEMMA RemovalsDo ==
  ASSUME OpeningTypeOK, NEW s \in Stores
  PROVE  /\ RemoveSlot(s) => pc[s] = "rmdir" /\ Moves(s, "removed") /\ Changed([dir EXCEPT !.slot = Null])
         /\ RemoveClaim(s) => pc[s] = "unclaim" /\ Moves(s, "unclaimed") /\ Changed([dir EXCEPT !.claim = Null])
<1>1. {"removed", "unclaimed"} \subseteq Places
  BY DEF Places, Underway, Reclaiming
<1> QED BY <1>1, GoingSteps DEF Moves, RemoveSlot, RemoveClaim

\* _sync_recovery_directory, wherever it is called.
LEMMA SyncDirectoryDoes ==
  ASSUME OpeningTypeOK, NEW s \in Stores, PlaceOf(s), SyncDirectory(s)
  PROVE  /\ onDisk' = {dir} /\ dir' = dir /\ KeepDb /\ KeepOthers
         /\ \/ pc[s] = "removed" /\ Moves(s, "unclaim")
            \/ pc[s] = "unclaimed" /\ ret[s] # Null /\ Reclaimed(s)
            \/ pc[s] = "plan published" /\ Moves(s, "mkdir")
            \/ pc[s] = "made" /\ Moves(s, "own")
            \/ pc[s] = "claim published" /\ Moves(s, "copy")
<1>1. {"unclaim", "mkdir", "own", "copy"} \subseteq Places
  BY DEF Places, Underway, Reclaiming, Recovering
<1>2. CASE pc[s] = "unclaimed"
  BY <1>2 DEF SyncDirectory, PlaceOf, Reclaiming
<1>3. CASE pc[s] # "unclaimed"
  BY <1>1, <1>3, GoingSteps DEF Moves, SyncDirectory
<1> QED BY <1>2, <1>3

\* _acquire_database_descriptor.
LEMMA AcquireDoes ==
  ASSUME OpeningTypeOK, NEW s \in Stores, Acquire(s)
  PROVE  pc[s] = "acquire" /\ Moves(s, "preflight")
  BY GoingSteps DEF Moves, Acquire, Places, Underway, Checking

\* The read-only preflight fails or leads on.
LEMMA PreflightDoes ==
  ASSUME OpeningTypeOK, NEW s \in Stores, Preflight(s)
  PROVE  /\ pc[s] \in {"preflight", "again"}
         /\ \/ GivesUp(s) /\ err'[s] \in Refusals \ {"administrator"}
            \/ Moves(s, "inspect")
            \/ Moves(s, "connect") 
<1>1. {"inspect", "connect"} \subseteq Places
  BY DEF Places, Underway, Checking
<1>2. Verdict(s, Logical) \in {"understood", "invalid", "future"}
  BY DEF Verdict
<1>3. {"busy", "retry", "invalid", "future"} \subseteq Refusals \ {"administrator"}
  BY DEF Refusals
<1> QED BY <1>1, <1>2, <1>3, GoingSteps, FailedSteps DEF Moves, Preflight

\* _interrupted_store_lock is taken or refused.
LEMMA InspectDoes ==
  ASSUME OpeningTypeOK, NEW s \in Stores, Inspect(s)
  PROVE  /\ pc[s] = "inspect"
         /\ \/ GivesUp(s) /\ err'[s] = "refused"
            \/ /\ MayRecover(s) /\ Stepped(s, "plan") /\ lock'[s] = "recover"
               /\ ret'[s] = ret[s] /\ seen'[s] = seen[s] /\ err'[s] = err[s] /\ guard' = guard
<1>1. CASE MayRecover(s)
  BY <1>1 DEF OpeningTypeOK, Inspect, Goto, Stepped, Places, Underway, Recovering
<1>2. CASE ~MayRecover(s)
  BY <1>2, FailedSteps DEF Inspect, Refusals
<1> QED BY <1>1, <1>2

\* The claims are staged and published, the slot is made.
LEMMA ClaimingDoes ==
  ASSUME OpeningTypeOK, NEW s \in Stores
  PROVE  /\ StageClaim(s) => \/ pc[s] = "plan" /\ Moves(s, "planned")
                             \/ pc[s] = "own" /\ Moves(s, "owned")
         /\ PublishClaim(s) => \/ pc[s] = "planned" /\ Moves(s, "plan published")
                               \/ pc[s] = "owned" /\ Moves(s, "claim published")
         /\ MakeSlot(s) => pc[s] = "mkdir" /\ Moves(s, "made")
<1>1. {"planned", "owned", "plan published", "claim published", "made"} \subseteq Places
  BY DEF Places, Underway, Recovering
<1> QED BY <1>1, GoingSteps DEF Moves, StageClaim, PublishClaim, MakeSlot

\* _inspect_interrupted_store copies a file, goes on or gives in.
LEMMA CopyFilesDoes ==
  ASSUME OpeningTypeOK, NEW s \in Stores, CopyFiles(s)
  PROVE  /\ pc[s] = "copy"
         /\ \/ KeepDir /\ Returned(s, "fail")
            \/ KeepDir /\ Moves(s, "validate")
            \/ /\ db.journal # Null /\ (\E e \in Copies : Changed([dir EXCEPT !.slot.entries = @ \cup {e}]))
               /\ Stepped(s, "copy") /\ seen'[s] = db /\ lock'[s] = lock[s] /\ ret'[s] = ret[s] /\ err'[s] = err[s] /\ guard' = guard
<1> USE DEF CopyFiles
<1>1. CASE db.journal = Null \/ (seen[s] # Null /\ seen[s] # db)
  BY <1>1, LeaveSteps DEF Returned
<1>2. CASE ~(db.journal = Null \/ (seen[s] # Null /\ seen[s] # db)) /\ dir.slot.entries = Copies
  BY <1>2, GoingSteps DEF Moves, Places, Underway, Recovering
<1>3. CASE ~(db.journal = Null \/ (seen[s] # Null /\ seen[s] # db)) /\ dir.slot.entries # Copies
  BY <1>3 DEF OpeningTypeOK, Stepped, Places
<1> QED BY <1>1, <1>2, <1>3

\* The copy is understood, or the recovery is left.
LEMMA ValidateDoes ==
  ASSUME OpeningTypeOK, NEW s \in Stores, Validate(s)
  PROVE  /\ pc[s] = "validate"
         /\ \/ Verdict(s, seen[s].journal) = "understood" /\ seen[s] = db /\ Moves(s, "rollback")
            \/ Returned(s, "fail")
  BY GoingSteps, LeaveSteps DEF Validate, Moves, Returned, Places, Underway, Recovering

\* The rollback goes on, or returns to the preflight.
LEMMA RollBackDoes ==
  ASSUME OpeningTypeOK, NEW s \in Stores, RollBack(s)
  PROVE  /\ pc[s] = "rollback"
         /\ Returned(s, "preflight") \/ Moves(s, "rollback")
  BY GoingSteps, LeaveSteps DEF RollBack, Moves, Returned, Places, Underway, Recovering

\* The writable connection fails or is made.
LEMMA ConnectDoes ==
  ASSUME OpeningTypeOK, NEW s \in Stores, Connect(s)
  PROVE  /\ pc[s] = "connect"
         /\ \/ GivesUp(s) /\ err'[s] \in Refusals \ {"administrator"}
            \/ /\ ~Excluded(s, {"write", "recover"}) /\ ~Hot /\ Verdict(s, Logical) = "understood"
               /\ Stepped(s, "convert") /\ lock'[s] = "read"
               /\ ret'[s] = ret[s] /\ seen'[s] = seen[s] /\ err'[s] = err[s] /\ guard' = guard
<1> USE DEF Connect
<1>1. Verdict(s, Logical) \in {"understood", "invalid", "future"}
  BY DEF Verdict
<1>2. {"busy", "invalid", "future"} \subseteq Refusals \ {"administrator"}
  BY DEF Refusals
<1>3. CASE Excluded(s, {"write", "recover"}) \/ Hot
  BY <1>2, <1>3, FailedSteps
<1>4. CASE ~(Excluded(s, {"write", "recover"}) \/ Hot) /\ Verdict(s, Logical) # "understood"
  BY <1>1, <1>2, <1>4, FailedSteps
<1>5. CASE ~(Excluded(s, {"write", "recover"}) \/ Hot) /\ Verdict(s, Logical) = "understood"
  BY <1>5 DEF OpeningTypeOK, Goto, Stepped, Places, Underway, Connected
<1> QED BY <1>3, <1>4, <1>5

\* The store leaves WAL mode.
LEMMA ConvertDoes ==
  ASSUME OpeningTypeOK, NEW s \in Stores, Convert(s)
  PROVE  /\ pc[s] = "convert"
         /\ (GivesUp(s) /\ err'[s] = "busy" /\ db' = db) \/ Moves(s, "migrate")
  BY GoingSteps, FailedSteps DEF Convert, Moves, Places, Underway, Connected, Refusals

\* The migrations start, are skipped or are refused.
LEMMA MigrateDoes ==
  ASSUME OpeningTypeOK, NEW s \in Stores, Migrate(s)
  PROVE  /\ pc[s] = "migrate"
         /\ \/ GivesUp(s) /\ err'[s] = "busy" /\ db' = db
            \/ Moves(s, "finish") /\ db' = db
            \/ /\ ~Excluded(s, {"read", "write", "recover"})
               /\ db' = [db EXCEPT !.journal = db.pages, !.pages = TornPages]
               /\ Stepped(s, "migrating") /\ lock'[s] = "write"
               /\ ret'[s] = ret[s] /\ seen'[s] = seen[s] /\ err'[s] = err[s] /\ guard' = guard
<1> USE DEF Migrate
<1>1. CASE UNCHANGED db /\ Goto(s, "finish") /\ UNCHANGED <<err, lock, seen, ret, guard>>
  BY <1>1 DEF OpeningTypeOK, Goto, Moves, Stepped, Places, Underway, Connected
<1>2. CASE Excluded(s, {"read", "write", "recover"}) /\ UNCHANGED db /\ Failed(s, "busy")
  BY <1>2, FailedSteps DEF Refusals
<1>3. CASE /\ ~Excluded(s, {"read", "write", "recover"})
           /\ db' = [db EXCEPT !.journal = db.pages, !.pages = TornPages]
           /\ Goto(s, "migrating") /\ lock' = [lock EXCEPT ![s] = "write"] /\ UNCHANGED <<err, seen, ret, guard>>
  BY <1>3 DEF OpeningTypeOK, Goto, Stepped, Places, Underway, Connected
<1> QED BY <1>1, <1>2, <1>3

\* The migrations are committed.
LEMMA CommitMigrationDoes ==
  ASSUME OpeningTypeOK, NEW s \in Stores, CommitMigration(s)
  PROVE  pc[s] = "migrating" /\ Moves(s, "finish")
  BY GoingSteps DEF CommitMigration, Moves, Places, Underway, Connected

\* The opening ends and the guard is released.
LEMMA OpenedDoes ==
  ASSUME OpeningTypeOK, NEW s \in Stores, PlaceOf(s), Opened(s)
  PROVE  /\ pc[s] = "finish" /\ guard = s /\ Stepped(s, "open") /\ lock'[s] = "none" /\ guard' = Null
         /\ ret'[s] = ret[s] /\ seen'[s] = seen[s] /\ err'[s] = err[s]
<1>1. guard = s
  BY DEF PlaceOf, Opened, Underway, Connected
<1> QED BY <1>1, NullIsApart DEF OpeningTypeOK, Opened, Goto, Stepped, Places

\* A transaction begins, or SQLite rolls a hot journal back.
LEMMA TransactDoes ==
  ASSUME OpeningTypeOK, NEW s \in Stores, Transact(s)
  PROVE  /\ pc[s] = "open" /\ lock[s] = "none" /\ MayWrite(s) /\ Stepped(s, "open")
         /\ ret'[s] = ret[s] /\ seen'[s] = seen[s] /\ err'[s] = err[s] /\ guard' = guard
         /\ \/ Hot /\ db' = [db EXCEPT !.pages = db.journal, !.journal = Null] /\ lock' = lock
            \/ ~Hot /\ db' = [db EXCEPT !.journal = db.pages, !.pages = TornPages] /\ lock'[s] = "write"
  BY DEF OpeningTypeOK, Transact, Stepped, Places

\* A transaction is committed.
LEMMA CommitDoes ==
  ASSUME OpeningTypeOK, NEW s \in Stores, Commit(s)
  PROVE  /\ pc[s] = "open" /\ lock[s] = "write" /\ Stepped(s, "open") /\ lock'[s] = "none"
         /\ ret'[s] = ret[s] /\ seen'[s] = seen[s] /\ err'[s] = err[s] /\ guard' = guard
  BY DEF OpeningTypeOK, Commit, Stepped, Places

\* An open store is closed.
LEMMA CloseDoes ==
  ASSUME OpeningTypeOK, NEW s \in Stores, Close(s)
  PROVE  pc[s] = "open" /\ lock[s] = "none" /\ Moves(s, "closed")
  BY DEF OpeningTypeOK, Close, Goto, Moves, Stepped, Places

\* Wherever a step leads, the store holds what its place says.
LEMMA StepsKeepPlaces ==
  ASSUME OpeningTypeOK, PlaceFacts, NEW s \in Stores, OpeningStep(s)
  PROVE  PlaceFacts' /\ \E q \in Places : Stepped(s, q)
<1> USE NullIsApart DEF PlaceOf, Underway, Reclaiming, Recovering, Checking, Connected
<1>0. PlaceOf(s)
  BY DEF PlaceFacts
<1>a. ASSUME NEW q \in Places, Stepped(s, q), PlaceOf(s)' PROVE PlaceFacts' /\ \E r \in Places : Stepped(s, r)
  BY <1>a, StepKeepsPlaces
<1>b. ASSUME GivesUp(s) PROVE PlaceFacts' /\ \E r \in Places : Stepped(s, r)
  BY <1>b, FailKeepsPlaces DEF GivesUp, Places
<1>c. ASSUME Reclaimed(s), ret[s] # Null, guard = s PROVE PlaceFacts' /\ \E r \in Places : Stepped(s, r)
  <2>1. CASE GivesUp(s) BY <2>1, <1>b
  <2>2. CASE /\ ret[s] = "acquire" /\ Stepped(s, "acquire") /\ ret'[s] = Null
            /\ lock'[s] = lock[s] /\ seen'[s] = seen[s] /\ err'[s] = err[s] /\ guard' = guard
    BY <2>2, <1>0, <1>a, <1>c DEF Places, Stepped
  <2>3. CASE /\ ret[s] = "preflight" /\ Stepped(s, "again") /\ ret'[s] = Null
            /\ lock'[s] = "none" /\ seen'[s] = Null /\ err'[s] = err[s] /\ guard' = guard
    BY <2>3, <1>0, <1>a, <1>c DEF Places, Stepped
  <2> QED BY <1>c, <2>1, <2>2, <2>3, ReclaimedDoes
<1>d. ASSUME NEW p \in Underway, NEW q \in Places, pc[s] = p, Moves(s, q),
             p \in Reclaiming <=> q \in Reclaiming, p \in Recovering <=> q \in Recovering, q \in Underway,
             p \in Connected <=> q \in Connected, q \notin {"convert", "migrating"}, q = "migrate" => p = "convert", p = "migrating" => q = "finish"
      PROVE  PlaceFacts' /\ \E r \in Places : Stepped(s, r)
  <2>1. pc'[s] = q /\ lock'[s] = lock[s] /\ ret'[s] = ret[s] /\ guard' = guard
    BY <1>d DEF Moves, Stepped
  <2>2. PlaceOf(s)'
    BY <1>0, <1>d, <2>1
  <2> QED BY <1>a, <1>d, <2>2 DEF Moves
<1>1. CASE Begin(s)
  <2>1. Stepped(s, "guard") BY <1>1, BeginDoes DEF Moves
  <2>2. PlaceOf(s)' BY <1>0, <1>1, <2>1, BeginDoes DEF Moves, Stepped
  <2> QED BY <1>a, <2>1, <2>2 DEF Places
<1>2. CASE TakeGuard(s)
  BY <1>0, <1>2, <1>a, TakeGuardDoes DEF Stepped, Places
<1>3. CASE GuardTimeout(s)
  BY <1>3, <1>b, GuardTimeoutDoes
<1>4. CASE Reclaim(s)
  <2>1. pc[s] = "reclaim" /\ guard = s BY <1>0, <1>4, ReclaimDoes
  <2>2. CASE Moves(s, "reclaim") \/ Moves(s, "unclaim") \/ Moves(s, "empty") BY <1>d, <2>1, <2>2 DEF Places
  <2> QED BY <1>0, <1>4, <2>1, <2>2, <1>b, <1>c, ReclaimDoes
<1>5. CASE EmptySlot(s)
  BY <1>d, <1>5, EmptySlotDoes DEF Places
<1>6. CASE RemoveSlot(s) \/ RemoveClaim(s)
  BY <1>d, <1>6, RemovalsDo DEF Places
<1>7. CASE SyncDirectory(s)
  BY <1>0, <1>c, <1>d, <1>7, SyncDirectoryDoes DEF Places
<1>8. CASE Acquire(s)
  BY <1>d, <1>8, AcquireDoes DEF Places
<1>9. CASE Preflight(s)
  BY <1>b, <1>d, <1>9, PreflightDoes DEF Places
<1>10. CASE Inspect(s)
  BY <1>0, <1>10, <1>a, <1>b, InspectDoes DEF Stepped, Places
<1>11. CASE StageClaim(s) \/ PublishClaim(s) \/ MakeSlot(s)
  BY <1>d, <1>11, ClaimingDoes DEF Places
<1>e. ASSUME NEW w \in {"preflight", "fail"}, pc[s] \in Recovering, Returned(s, w) PROVE PlaceFacts' /\ \E r \in Places : Stepped(s, r)
  BY <1>0, <1>a, <1>e DEF Returned, Stepped, Places
<1>12. CASE CopyFiles(s)
  <2>1. CASE Returned(s, "fail") BY <1>e, <1>12, <2>1, CopyFilesDoes
  <2>2. CASE Moves(s, "validate") BY <1>d, <1>12, <2>2, CopyFilesDoes DEF Places
  <2>3. CASE Stepped(s, "copy") /\ seen'[s] = db /\ lock'[s] = lock[s] /\ ret'[s] = ret[s] /\ err'[s] = err[s] /\ guard' = guard
    BY <1>0, <1>a, <1>12, <2>3, CopyFilesDoes DEF Places, Stepped
  <2> QED BY <1>12, <2>1, <2>2, <2>3, CopyFilesDoes
<1>13. CASE Validate(s)
  BY <1>d, <1>e, <1>13, ValidateDoes DEF Places
<1>14. CASE RollBack(s)
  BY <1>d, <1>e, <1>14, RollBackDoes DEF Places
<1>15. CASE Connect(s)
  BY <1>0, <1>15, <1>a, <1>b, ConnectDoes DEF Stepped, Places
<1>16. CASE Convert(s)
  BY <1>b, <1>d, <1>16, ConvertDoes DEF Places
<1>17. CASE Migrate(s)
  <2>1. CASE Stepped(s, "migrating") /\ lock'[s] = "write" /\ ret'[s] = ret[s] /\ guard' = guard
    BY <1>0, <1>17, <2>1, <1>a, MigrateDoes DEF Stepped, Places
  <2> QED BY <1>17, <1>b, <1>d, <2>1, MigrateDoes DEF Places
<1>18. CASE CommitMigration(s)
  BY <1>d, <1>18, CommitMigrationDoes DEF Places
<1>19. CASE Opened(s)
  BY <1>0, <1>19, <1>a, OpenedDoes DEF Stepped, Places
<1>20. CASE Transact(s)
  <2>1. Stepped(s, "open") BY <1>20, TransactDoes DEF Moves
  <2>2. PlaceOf(s)' BY <1>0, <1>20, <2>1, TransactDoes DEF Moves, Stepped
  <2> QED BY <1>a, <2>1, <2>2 DEF Places
<1>21. CASE Commit(s)
  <2>1. Stepped(s, "open") BY <1>21, CommitDoes DEF Moves
  <2>2. PlaceOf(s)' BY <1>0, <1>21, <2>1, CommitDoes DEF Moves, Stepped
  <2> QED BY <1>a, <2>1, <2>2 DEF Places
<1>22. CASE Close(s)
  <2>1. Stepped(s, "closed") BY <1>22, CloseDoes DEF Moves
  <2>2. PlaceOf(s)' BY <1>0, <1>22, <2>1, CloseDoes DEF Moves, Stepped
  <2> QED BY <1>a, <2>1, <2>2 DEF Places
<1> QED BY <1>1, <1>2, <1>3, <1>4, <1>5, <1>6, <1>7, <1>8, <1>9, <1>10, <1>11, <1>12, <1>13, <1>14, <1>15,
           <1>16, <1>17, <1>18, <1>19, <1>20, <1>21, <1>22 DEF OpeningStep

\* A set with one element has no other.
LEMMA OnlyOne ==
  ASSUME NEW S, IsFiniteSet(S), Cardinality(S) = 1, NEW x \in S, NEW y \in S
  PROVE  x = y
<1>1. IsFiniteSet(S \ {x}) /\ Cardinality(S \ {x}) = 0
  BY FS_RemoveElement
<1>2. S \ {x} = {}
  BY <1>1, FS_EmptySet
<1> QED BY <1>2

\* What alone in its process means: no other store object of the process has gone past the guard.
LEMMA SoleLease ==
  ASSUME OpeningTypeOK, PlaceFacts, NEW s \in Stores, pc[s] = "inspect", LeaseReferences(s) = 1,
         NEW t \in Stores \ {s}, ProcessOf[t] = ProcessOf[s]
  PROVE  pc[t] \in {"closed", "guard"}
<1> DEFINE Lease == {u \in Stores : ProcessOf[u] = ProcessOf[s] /\ pc[u] \notin {"closed", "guard"} /\ ret[u] # "acquire"}
<1>1. IsFiniteSet(Lease)
  BY StoresAssumption, FS_Subset
<1>2. guard = s /\ ret[s] = Null
  BY DEF PlaceFacts, PlaceOf, Underway, Reclaiming, Checking
<1>3. s \in Lease
  BY <1>2, NullIsApart
<1>4. ret[t] # "acquire"
  BY <1>2, NullIsApart DEF PlaceFacts, PlaceOf, Underway
<1>5. Cardinality(Lease) = 1
  BY DEF LeaseReferences
<1> HIDE DEF Lease
<1>6. t \notin Lease
  BY <1>1, <1>3, <1>5, OnlyOne
<1> QED BY <1>4, <1>6 DEF Lease

\* One store's lock is new.
LEMMA LockTaken ==
  ASSUME ExclusionFacts, NEW s \in Stores, NEW q, Stepped(s, q), lock[s] # "recover", q \notin {"closed", "guard"},
         \A t \in Stores \ {s} : lock[t] = "none" \/ (lock[t] = "read" /\ lock'[s] = "read"),
         lock'[s] = "recover" => \A t \in Stores \ {s} : ProcessOf[t] = ProcessOf[s] => pc[t] \in {"closed", "guard"}
  PROVE  ExclusionFacts'
  BY DEF ExclusionFacts, Stepped

\* A recovering store of the same process is the holder of the guard, and no other is past it.
LEMMA NoneRecoversBeside ==
  ASSUME OpeningTypeOK, PlaceFacts, ExclusionFacts, NEW s \in Stores, pc[s] \notin {"closed", "guard"}, NEW t \in Stores \ {s},
         lock[t] = "recover"
  PROVE  ProcessOf[t] # ProcessOf[s]
  BY DEF ExclusionFacts

\* The locks exclude each other as SQLite's and _interrupted_store_lock's do, whichever step is taken.
LEMMA StepsKeepExclusion ==
  ASSUME OpeningTypeOK, PlaceFacts, ExclusionFacts, NEW s \in Stores, OpeningStep(s)
  PROVE  ExclusionFacts'
<1>0. PlaceFacts' /\ PlaceOf(s)
  BY StepsKeepPlaces DEF PlaceFacts
<1>a. ASSUME NEW q, Stepped(s, q), lock'[s] \in {lock[s], "none"},
             q \in {"closed", "guard"} \/ pc[s] \notin {"closed", "guard"} \/ guard = Null
      PROVE  ExclusionFacts'
  BY <1>0, <1>a, StepKeepsExclusion
<1>b. ASSUME GivesUp(s) PROVE ExclusionFacts'
  BY <1>a, <1>b DEF GivesUp
<1>c. ASSUME NEW q, Moves(s, q), pc[s] \notin {"closed", "guard"} PROVE ExclusionFacts'
  BY <1>a, <1>c DEF Moves
<1>d. ASSUME NEW w, Returned(s, w), pc[s] \notin {"closed", "guard"} PROVE ExclusionFacts'
  BY <1>a, <1>d DEF Returned
<1>e. ASSUME Reclaimed(s), ret[s] # Null, pc[s] \notin {"closed", "guard"} PROVE ExclusionFacts'
  BY <1>a, <1>b, <1>e, ReclaimedDoes
<1>1. CASE Begin(s) \/ TakeGuard(s)
  BY <1>1, <1>a, BeginDoes, TakeGuardDoes
<1>2. CASE GuardTimeout(s)
  BY <1>2, <1>b, GuardTimeoutDoes
<1>3. CASE Reclaim(s) \/ EmptySlot(s) \/ RemoveSlot(s) \/ RemoveClaim(s) \/ SyncDirectory(s)
  BY <1>0, <1>3, <1>b, <1>c, <1>e, ReclaimDoes, EmptySlotDoes, RemovalsDo, SyncDirectoryDoes
<1>4. CASE Acquire(s) \/ Preflight(s) \/ StageClaim(s) \/ PublishClaim(s) \/ MakeSlot(s) \/ Validate(s) \/ RollBack(s)
  BY <1>4, <1>b, <1>c, <1>d, AcquireDoes, PreflightDoes, ClaimingDoes, ValidateDoes, RollBackDoes
<1>5. CASE Inspect(s)
  <2>1. CASE GivesUp(s) BY <2>1, <1>b
  <2>2. CASE MayRecover(s) /\ Stepped(s, "plan") /\ lock'[s] = "recover"
    <3>1. \A t \in Stores \ {s} : ProcessOf[t] = ProcessOf[s] => pc[t] \in {"closed", "guard"}
      BY <1>5, <2>2, SoleLease, InspectDoes DEF MayRecover
    <3>2. \A t \in Stores \ {s} : lock[t] = "none"
      <4> TAKE t \in Stores \ {s}
      <4>1. lock[t] = "recover" => ProcessOf[t] # ProcessOf[s]
        BY <1>5, NoneRecoversBeside, InspectDoes
      <4>2. lock[t] \in {"none", "read", "write", "recover"} BY DEF OpeningTypeOK
      <4> QED BY <2>2, <4>1, <4>2 DEF MayRecover, Excluded
    <3>3. lock[s] # "recover"
      BY <1>0, <1>5, InspectDoes, NullIsApart DEF PlaceOf, Recovering, Reclaiming
    <3> QED BY <2>2, <3>1, <3>2, <3>3, LockTaken
  <2> QED BY <1>5, <2>1, <2>2, InspectDoes
<1>6. CASE CopyFiles(s)
  BY <1>6, <1>a, <1>c, <1>d, CopyFilesDoes
<1>7. CASE Connect(s)
  <2>1. CASE GivesUp(s) BY <2>1, <1>b
  <2>2. CASE ~Excluded(s, {"write", "recover"}) /\ Stepped(s, "convert") /\ lock'[s] = "read"
    <3>1. \A t \in Stores \ {s} : lock[t] \in {"none", "read"}
      <4> TAKE t \in Stores \ {s}
      <4>1. lock[t] = "recover" => ProcessOf[t] # ProcessOf[s]
        BY <1>7, NoneRecoversBeside, ConnectDoes
      <4>2. lock[t] \in {"none", "read", "write", "recover"} BY DEF OpeningTypeOK
      <4> QED BY <2>2, <4>1, <4>2 DEF Excluded
    <3>2. lock[s] # "recover"
      BY <1>0, <1>7, ConnectDoes, NullIsApart DEF PlaceOf, Recovering, Reclaiming
    <3> QED BY <2>2, <3>1, <3>2, LockTaken
  <2> QED BY <1>7, <2>1, <2>2, ConnectDoes
<1>f. ASSUME ~Excluded(s, {"read", "write", "recover"}), pc[s] \notin {"closed", "guard"}, lock[s] # "recover",
             NEW q, Stepped(s, q), q \notin {"closed", "guard"}, lock'[s] = "write"
      PROVE  ExclusionFacts'
  <2>1. \A t \in Stores \ {s} : lock[t] = "none"
    <3> TAKE t \in Stores \ {s}
    <3>1. lock[t] = "recover" => ProcessOf[t] # ProcessOf[s]
      BY <1>f, NoneRecoversBeside
    <3>2. lock[t] \in {"none", "read", "write", "recover"} BY DEF OpeningTypeOK
    <3> QED BY <1>f, <3>1, <3>2 DEF Excluded
  <2> QED BY <1>f, <2>1, LockTaken
<1>8. CASE Convert(s) \/ CommitMigration(s) \/ Opened(s) \/ Commit(s) \/ Close(s)
  BY <1>0, <1>8, <1>a, <1>b, <1>c, ConvertDoes, CommitMigrationDoes, OpenedDoes, CommitDoes, CloseDoes
<1>9. CASE Migrate(s)
  <2>1. lock[s] # "recover"
    BY <1>0, <1>9, MigrateDoes, NullIsApart DEF PlaceOf, Connected
  <2> QED BY <1>9, <1>b, <1>c, <1>f, <2>1, MigrateDoes
<1>10. CASE Transact(s)
  BY <1>10, <1>a, <1>f, TransactDoes DEF MayWrite
<1> QED BY <1>1, <1>2, <1>3, <1>4, <1>5, <1>6, <1>7, <1>8, <1>9, <1>10 DEF OpeningStep

\* A torn page holds something that is no content of the program's.
LEMMA TornIsContent == TornPages \in Content
  BY StoresAssumption DEF TornPages, Content

\* The groups of the invariant that a step is proved to keep together.
Wellformed == OpeningTypeOK /\ PlaceFacts /\ ExclusionFacts
Readable == JournalFacts /\ JudgedFacts /\ CommittedSurvives

\* The files are left alone: only the moving store's own place matters.
LEMMA FilesKept ==
  ASSUME Readable, NEW s \in Stores, NEW q, Stepped(s, q), KeepDb, JournalOf(s)', JudgedAt(s)'
  PROVE  Readable'
<1>1. ASSUME NEW t \in Stores PROVE JournalOf(t)' /\ JudgedAt(t)'
  BY DEF Readable, JournalFacts, JournalOf, JudgedFacts, JudgedAt, Stepped, KeepDb
<1>2. CommittedSurvives'
  BY DEF Readable, CommittedSurvives, Logical, KeepDb
<1> QED BY <1>1, <1>2 DEF Readable, JournalFacts, JudgedFacts

\* The store has the files for itself: the others neither read nor write nor roll back.
LEMMA FilesChanged ==
  ASSUME Readable, NEW s \in Stores, NEW q, Stepped(s, q), \A t \in Stores \ {s} : lock[t] = "none",
         PlaceFacts, JournalOf(s)', JudgedAt(s)', CommittedSurvives'
  PROVE  Readable'
<1>1. ASSUME NEW t \in Stores PROVE JournalOf(t)' /\ JudgedAt(t)'
  <2>1. CASE t = s BY <2>1
  <2>2. CASE t # s
    <3>1. lock[t] = "none" /\ pc[t] \notin Connected \cup {"rollback"}
      BY <2>2 DEF PlaceFacts, PlaceOf, Recovering
    <3>2. pc[t] # "finish"
      BY <3>1 DEF Connected
    <3>3. pc'[t] = pc[t] /\ lock'[t] = "none" /\ seen'[t] = seen[t]
      BY <2>2, <3>1 DEF Stepped
    <3> QED BY <3>1, <3>2, <3>3 DEF Readable, JournalFacts, JournalOf, JudgedAt
  <2> QED BY <2>1, <2>2
<1> QED BY <1>1 DEF Readable, JournalFacts, JudgedFacts

\* Whoever may write has no reader, writer or recovery beside it.
LEMMA WriterIsAlone ==
  ASSUME Wellformed, NEW s \in Stores, ~Excluded(s, {"read", "write", "recover"}), pc[s] \notin {"closed", "guard"}
  PROVE  \A t \in Stores \ {s} : lock[t] = "none"
<1> TAKE t \in Stores \ {s}
<1>1. lock[t] = "recover" => ProcessOf[t] # ProcessOf[s]
  BY NoneRecoversBeside DEF Wellformed
<1>2. lock[t] \in {"none", "read", "write", "recover"}
  BY DEF Wellformed, OpeningTypeOK
<1> QED BY <1>1, <1>2 DEF Excluded

\* Steps that leave the files alone.
LEMMA StepsKeepFiles ==
  ASSUME Wellformed, Readable, NEW s \in Stores, OpeningStep(s), KeepDb,
         ~(RollBack(s) \/ Convert(s) \/ Migrate(s) \/ CommitMigration(s) \/ Transact(s) \/ Commit(s))
  PROVE  Readable'
<1> USE DEF JournalOf, JudgedAt
<1>0. JournalOf(s) /\ JudgedAt(s) /\ PlaceOf(s) /\ OpeningTypeOK /\ db \in Files
  BY DEF Readable, JournalFacts, JudgedFacts, Wellformed, PlaceFacts, OpeningTypeOK
<1>a. ASSUME NEW q, Stepped(s, q), lock'[s] \in {lock[s], "none"}, seen'[s] \in {seen[s], Null}, q # "finish",
             q \in Connected \cup {"rollback"} => pc[s] \in Connected \cup {"rollback"}, pc[s] = "finish" => lock'[s] = "none"
      PROVE  Readable'
  <2>1. pc'[s] = q BY <1>a DEF Stepped
  <2>2. JournalOf(s)' /\ JudgedAt(s)' BY <1>0, <1>a, <2>1 DEF KeepDb
  <2> QED BY <1>a, <2>2, FilesKept
<1>b. ASSUME GivesUp(s) PROVE Readable'
  BY <1>a, <1>b DEF GivesUp, Connected
<1>c. ASSUME NEW q \in Underway \ ({"finish"} \cup Connected \cup {"rollback"}), Moves(s, q), pc[s] # "finish" PROVE Readable'
  BY <1>a, <1>c DEF Moves
<1>d. ASSUME NEW w, Returned(s, w), pc[s] # "finish" PROVE Readable'
  BY <1>a, <1>d DEF Returned, Connected
<1>e. ASSUME Reclaimed(s), ret[s] # Null, pc[s] # "finish" PROVE Readable'
  BY <1>0, <1>a, <1>b, <1>e, ReclaimedDoes DEF Connected
<1>1. CASE Begin(s) \/ TakeGuard(s) \/ GuardTimeout(s)
  BY <1>0, <1>1, <1>a, <1>b, BeginDoes, TakeGuardDoes, GuardTimeoutDoes DEF Connected
<1>2. CASE Reclaim(s) \/ EmptySlot(s) \/ RemoveSlot(s) \/ RemoveClaim(s) \/ SyncDirectory(s)
  BY <1>0, <1>2, <1>b, <1>c, <1>e, ReclaimDoes, EmptySlotDoes, RemovalsDo, SyncDirectoryDoes DEF Underway, Reclaiming, Recovering, Connected
<1>3. CASE Acquire(s) \/ Preflight(s) \/ StageClaim(s) \/ PublishClaim(s) \/ MakeSlot(s)
  BY <1>0, <1>3, <1>b, <1>c, AcquireDoes, PreflightDoes, ClaimingDoes DEF Underway, Recovering, Checking, Connected
<1>4. CASE Inspect(s)
  <2>1. CASE GivesUp(s) BY <1>b, <2>1
  <2>2. CASE Stepped(s, "plan") /\ lock'[s] = "recover" /\ seen'[s] = seen[s]
    <3>1. JournalOf(s)' /\ JudgedAt(s)' BY <1>0, <2>2 DEF Stepped, KeepDb, Connected
    <3> QED BY <2>2, <3>1, FilesKept
  <2> QED BY <1>0, <1>4, <2>1, <2>2, InspectDoes
<1>5. CASE CopyFiles(s)
  <2>1. CASE Returned(s, "fail") \/ Moves(s, "validate")
    BY <1>0, <1>5, <2>1, <1>c, <1>d, CopyFilesDoes DEF Underway, Recovering, Connected
  <2>2. CASE Stepped(s, "copy") /\ seen'[s] = db /\ db.journal # Null /\ lock'[s] = lock[s]
    <3>1. JournalOf(s)' /\ JudgedAt(s)' BY <1>0, <1>5, <2>2, CopyFilesDoes DEF Stepped, KeepDb, Connected
    <3> QED BY <2>2, <3>1, FilesKept
  <2> QED BY <1>0, <1>5, <2>1, <2>2, CopyFilesDoes
<1>6. CASE Validate(s)
  <2>1. CASE Returned(s, "fail")
    BY <1>0, <1>6, <2>1, <1>d, ValidateDoes
  <2>2. CASE Verdict(s, seen[s].journal) = "understood" /\ seen[s] = db /\ Moves(s, "rollback")
    <3>1. seen[s] # Null
      BY <1>0, <2>2, NullIsApart
    <3>2. Logical = db.journal /\ Verdict(s, committed) = "understood"
      BY <1>0, <2>2, <3>1 DEF Readable, CommittedSurvives, Logical
    <3>3. JournalOf(s)' /\ JudgedAt(s)'
      BY <1>0, <1>6, <2>2, <3>2, ValidateDoes DEF Stepped, Moves, KeepDb, Verdict
    <3> QED BY <2>2, <3>3, FilesKept DEF Moves
  <2> QED BY <1>0, <1>6, <2>1, <2>2, ValidateDoes
<1>7. CASE Connect(s)
  <2>1. CASE GivesUp(s) BY <1>b, <2>1
  <2>2. CASE /\ ~Excluded(s, {"write", "recover"}) /\ ~Hot /\ Verdict(s, Logical) = "understood"
             /\ Stepped(s, "convert") /\ lock'[s] = "read" /\ seen'[s] = seen[s]
    <3>1. lock[s] = "none"
      BY <1>0, <1>7, ConnectDoes, NullIsApart DEF PlaceOf, Connected, Recovering, Reclaiming, OpeningTypeOK
    <3>2. Writers = {}
      BY <2>2, <3>1 DEF Excluded, Writers
    <3>3. db.journal = Null
      BY <2>2, <3>2 DEF Hot
    <3>4. JournalOf(s)' /\ JudgedAt(s)'
      BY <1>0, <2>2, <3>3 DEF Stepped, KeepDb, Verdict, Readable, CommittedSurvives
    <3> QED BY <2>2, <3>4, FilesKept
  <2> QED BY <1>0, <1>7, <2>1, <2>2, ConnectDoes
<1>8. CASE Opened(s) \/ Close(s)
  BY <1>0, <1>8, <1>a, OpenedDoes, CloseDoes DEF Moves, Connected
<1> QED BY <1>1, <1>2, <1>3, <1>4, <1>5, <1>6, <1>7, <1>8 DEF OpeningStep

\* Steps that change the files.
LEMMA ChangesKeepFiles ==
  ASSUME Wellformed, Readable, NEW s \in Stores,
         RollBack(s) \/ Convert(s) \/ Migrate(s) \/ CommitMigration(s) \/ Transact(s) \/ Commit(s)
  PROVE  Readable' /\ db' \in Files /\ committed' \in Content
<1> USE DEF JournalOf, JudgedAt
<1>0. /\ JournalOf(s) /\ JudgedAt(s) /\ PlaceOf(s) /\ OpeningTypeOK /\ PlaceFacts /\ ExclusionFacts
      /\ db \in Files /\ committed \in Content /\ Logical = committed
      /\ db.pages \in Content /\ db.journal \in Content \cup {Null} /\ db.mode \in {"delete", "wal"}
  BY DEF Readable, JournalFacts, JudgedFacts, Wellformed, PlaceFacts, OpeningTypeOK, Files, CommittedSurvives
<1>k. ASSUME NEW q, Stepped(s, q), KeepDb, JournalOf(s)', JudgedAt(s)'
      PROVE  Readable' /\ db' \in Files /\ committed' \in Content
  BY <1>0, <1>k, FilesKept DEF KeepDb
<1>c. ASSUME NEW q, Stepped(s, q), \A t \in Stores \ {s} : lock[t] = "none", JournalOf(s)', JudgedAt(s)', (Logical = committed)',
             db' \in Files, committed' \in Content
      PROVE  Readable' /\ db' \in Files /\ committed' \in Content
  BY <1>0, <1>c, FilesChanged DEF CommittedSurvives
<1>1. CASE RollBack(s)
  <2>1. lock[s] = "recover" /\ pc[s] = "rollback" /\ committed' = committed /\ ret[s] = Null
    BY <1>0, <1>1, RollBackDoes DEF PlaceOf, Recovering, RollBack, Reclaiming
  <2>2. \A t \in Stores \ {s} : lock[t] = "none"
    BY <1>0, <2>1 DEF ExclusionFacts
  <2>3. \E q \in {"reclaim", "rollback"} : Stepped(s, q) /\ lock'[s] = "recover" /\ seen'[s] = seen[s] /\ pc'[s] = q
    BY <1>0, <1>1, <2>1, RollBackDoes DEF Returned, Moves, Stepped
  <2>4. db' \in Files /\ Logical' = committed
    BY <1>0, <1>1, NullIsApart DEF RollBack, Files, Logical
  <2>5. JournalOf(s)' /\ JudgedAt(s)'
    BY <1>0, <2>1, <2>3 DEF Connected, Verdict
  <2> QED BY <1>0, <1>c, <2>1, <2>2, <2>3, <2>4, <2>5
<1>2. CASE Convert(s)
  <2>1. lock[s] \in {"read", "write"} /\ pc[s] = "convert" /\ committed' = committed
    BY <1>0, <1>2, ConvertDoes DEF PlaceOf, Connected, Convert
  <2>2. lock[s] = "read" /\ db.journal = Null
    BY <1>0, <2>1 DEF PlaceOf
  <2>3. CASE db' = db
    <3>1. \E q \in {"closed", "migrate"} : Stepped(s, q) /\ lock'[s] \in {"none", "read"} /\ (seen'[s] = seen[s] \/ seen'[s] = Null) /\ pc'[s] = q
      BY <1>0, <1>2, <2>2, ConvertDoes DEF GivesUp, Moves, Stepped
    <3>2. JournalOf(s)' /\ JudgedAt(s)'
      BY <1>0, <2>1, <2>2, <2>3, <3>1 DEF Connected, Verdict
    <3> QED BY <1>k, <2>1, <2>3, <3>1, <3>2 DEF KeepDb
  <2>4. CASE db' # db
    <3>1. ~Excluded(s, {"read", "write", "recover"}) /\ db' = [db EXCEPT !.mode = "delete"] /\ Moves(s, "migrate")
      BY <1>0, <1>2, <2>4, ConvertDoes DEF Convert
    <3>2. \A t \in Stores \ {s} : lock[t] = "none"
      BY <2>1, <3>1, WriterIsAlone
    <3>3. db' \in Files /\ db'.journal = db.journal /\ Logical' = committed
      BY <1>0, <2>1, <3>1 DEF Files, Logical
    <3>4. JournalOf(s)' /\ JudgedAt(s)'
      BY <1>0, <2>1, <2>2, <3>1, <3>3 DEF Connected, Verdict, Moves, Stepped
    <3> QED BY <1>0, <1>c, <2>1, <3>1, <3>2, <3>3, <3>4 DEF Moves
  <2> QED BY <2>3, <2>4
<1>3. CASE Migrate(s)
  <2>1. lock[s] = "read" /\ pc[s] = "migrate" /\ db.journal = Null /\ committed' = committed
    BY <1>0, <1>3, MigrateDoes DEF PlaceOf, Connected, Migrate
  <2>2. CASE GivesUp(s) /\ db' = db
    <3>1. JournalOf(s)' /\ JudgedAt(s)'
      BY <1>0, <2>1, <2>2 DEF GivesUp, Stepped, Connected
    <3> QED BY <1>k, <2>1, <2>2, <3>1 DEF KeepDb, GivesUp
  <2>3. CASE Moves(s, "finish") /\ db' = db
    <3>1. JournalOf(s)' /\ JudgedAt(s)'
      BY <1>0, <2>1, <2>3 DEF Moves, Stepped, Connected, Verdict
    <3> QED BY <1>k, <2>1, <2>3, <3>1 DEF KeepDb, Moves
  <2>4. CASE /\ ~Excluded(s, {"read", "write", "recover"})
             /\ db' = [db EXCEPT !.journal = db.pages, !.pages = TornPages]
             /\ Stepped(s, "migrating") /\ lock'[s] = "write" /\ seen'[s] = seen[s]
    <3>1. \A t \in Stores \ {s} : lock[t] = "none"
      BY <2>1, <2>4, WriterIsAlone
    <3>2. db' \in Files /\ db'.journal = db.pages /\ db.pages # Null /\ Logical' = committed
      BY <1>0, <2>1, <2>4, NullIsApart, TornIsContent DEF Files, Logical
    <3>3. JournalOf(s)' /\ JudgedAt(s)'
      BY <1>0, <2>1, <2>4, <3>2 DEF Connected, Verdict, Stepped
    <3> QED BY <1>0, <1>c, <2>1, <2>4, <3>1, <3>2, <3>3
  <2> QED BY <1>0, <1>3, <2>2, <2>3, <2>4, MigrateDoes
<1>4. CASE CommitMigration(s)
  <2>1. pc[s] = "migrating" /\ Moves(s, "finish")
    BY <1>0, <1>4, CommitMigrationDoes
  <2>2. lock[s] = "write"
    BY <1>0, <2>1 DEF PlaceOf, Connected
  <2>3. db.journal # Null /\ db.journal = committed
    BY <1>0, <2>1, <2>2 DEF Logical
  <2>4. \A t \in Stores \ {s} : lock[t] = "none"
    BY <1>0, <2>2 DEF ExclusionFacts
  <2>5. Known[s] \in Nat /\ Known[s] # Alien
    BY StoresAssumption
  <2>6. committed' = [committed EXCEPT !.schema = Known[s]] /\ db' = [db EXCEPT !.pages = committed', !.journal = Null]
    BY <1>4, <2>3 DEF CommitMigration, Migrated
  <2>7. committed' \in Content /\ committed'.schema = Known[s]
    BY <1>0, <2>5, <2>6 DEF Content
  <2>8. db' \in Files /\ db'.journal = Null /\ Logical' = committed'
    BY <1>0, <2>6, <2>7 DEF Files, Logical
  <2>9. JournalOf(s)' /\ JudgedAt(s)'
    BY <1>0, <2>1, <2>2, <2>5, <2>7, <2>8 DEF Connected, Verdict, Moves, Stepped
  <2> QED BY <1>0, <1>c, <2>1, <2>4, <2>7, <2>8, <2>9 DEF Moves
<1>5. CASE Transact(s)
  <2>1. pc[s] = "open" /\ lock[s] = "none" /\ MayWrite(s) /\ Stepped(s, "open") /\ seen'[s] = seen[s] /\ committed' = committed
    BY <1>0, <1>5, TransactDoes DEF Transact
  <2>2. \A t \in Stores \ {s} : lock[t] = "none"
    BY <2>1, WriterIsAlone DEF MayWrite
  <2>3. Writers = {}
    BY <2>1, <2>2 DEF Writers
  <2>4. CASE Hot /\ db' = [db EXCEPT !.pages = db.journal, !.journal = Null] /\ lock' = lock
    <3>1. db' \in Files /\ Logical' = committed
      BY <1>0, <2>4, NullIsApart DEF Files, Logical, Hot
    <3>2. JournalOf(s)' /\ JudgedAt(s)'
      BY <1>0, <2>1, <2>4 DEF Connected, Stepped
    <3> QED BY <1>0, <1>c, <2>1, <2>2, <3>1, <3>2
  <2>5. CASE ~Hot /\ db' = [db EXCEPT !.journal = db.pages, !.pages = TornPages] /\ lock'[s] = "write"
    <3>1. db.journal = Null
      BY <2>3, <2>5 DEF Hot
    <3>2. db' \in Files /\ db'.journal = db.pages /\ db.pages # Null /\ Logical' = committed
      BY <1>0, <2>5, <3>1, NullIsApart, TornIsContent DEF Files, Logical
    <3>3. JournalOf(s)' /\ JudgedAt(s)'
      BY <1>0, <2>1, <2>5, <3>2 DEF Connected, Stepped
    <3> QED BY <1>0, <1>c, <2>1, <2>2, <3>2, <3>3
  <2> QED BY <1>0, <1>5, <2>4, <2>5, TransactDoes
<1>6. CASE Commit(s)
  <2>1. pc[s] = "open" /\ lock[s] = "write" /\ Stepped(s, "open") /\ lock'[s] = "none" /\ seen'[s] = seen[s]
    BY <1>0, <1>6, CommitDoes
  <2>2. db.journal # Null /\ db.journal = committed
    BY <1>0, <2>1 DEF Logical
  <2>3. \A t \in Stores \ {s} : lock[t] = "none"
    BY <1>0, <2>1 DEF ExclusionFacts
  <2>4. committed' = [committed EXCEPT !.doc = @ + 1] /\ db' = [db EXCEPT !.pages = committed', !.journal = Null]
    BY <1>6, <2>2 DEF Commit
  <2>5. committed' \in Content
    BY <1>0, <2>4 DEF Content
  <2>6. db' \in Files /\ db'.journal = Null /\ Logical' = committed'
    BY <1>0, <2>4, <2>5 DEF Files, Logical
  <2>7. JournalOf(s)' /\ JudgedAt(s)'
    BY <1>0, <2>1, <2>6 DEF Connected, Stepped
  <2> QED BY <1>0, <1>c, <2>1, <2>3, <2>5, <2>6, <2>7
<1> QED BY <1>1, <1>2, <1>3, <1>4, <1>5, <1>6

\* What is said of the directory and of the disk.
Traces ==
    /\ dir \in onDisk /\ (strange \notin ForeignKinds => onDisk \subseteq OwnArtifacts)
    /\ ArtifactFacts /\ ForeignFacts /\ OrderedFacts /\ SyncedFacts

\* The parts of the program's own artifacts.
LEMMA OwnParts ==
  ASSUME NEW d \in OwnArtifacts
  PROVE  /\ d.claim \in RecoveryClaims \cup {Null} /\ d.slot \in Slots \cup {Null} /\ d.stage \in RecoveryClaims \cup {Null}
         /\ d = [stage |-> d.stage, claim |-> d.claim, slot |-> d.slot]
         /\ d.claim # Null => d.claim.kind \in {"planned", "owned"} /\ (d.claim.kind = "owned" => d.claim.id = 1)
         /\ d.slot # Null => d.slot.id = 1 /\ d.slot.entries \subseteq Copies
  BY NullIsApart DEF OwnArtifacts, RecoveryClaims, Slots

\* A place outside an opening says nothing about the artifacts.
LEMMA Elsewhere ==
  ASSUME NEW s \in Stores, pc[s] \notin Underway
  PROVE  ArtifactsAt(s) /\ SyncedAt(s)
  BY DEF ArtifactsAt, SyncedAt, Underway, Reclaiming, Recovering, Checking, Connected

\* Nor does a place that a step leads to outside of one.
LEMMA ElsewhereNext ==
  ASSUME NEW s \in Stores, pc'[s] \notin Underway
  PROVE  ArtifactsAt(s)' /\ SyncedAt(s)'
  BY DEF ArtifactsAt, SyncedAt, Underway, Reclaiming, Recovering, Checking, Connected

\* The directory is left alone.
LEMMA TracesKept ==
  ASSUME Traces, strange \notin ForeignKinds, NEW s \in Stores, NEW q, Stepped(s, q), KeepDir, KeepOthers,
         ArtifactsAt(s)', "crash" \notin suffered => SyncedAt(s)',
         "crash" \notin suffered /\ guard' = Null /\ guard # Null => SameClaim /\ SameSlot
  PROVE  Traces'
<1>1. dir' = dir /\ onDisk' = onDisk /\ strange' = strange /\ suffered' = suffered
  BY DEF KeepDir, KeepOthers
<1>2. ArtifactFacts'
  <2> SUFFICES ASSUME NEW t \in Stores \ {s} PROVE ArtifactsAt(t)'
    BY DEF ArtifactFacts
  <2>1. ArtifactsAt(t) /\ pc'[t] = pc[t]
    BY DEF Traces, ArtifactFacts, Stepped
  <2> QED BY <1>1, <2>1 DEF ArtifactsAt
<1>3. SyncedFacts'
  <2> SUFFICES ASSUME "crash" \notin suffered
      PROVE  /\ \A d, e \in onDisk : Allows(d.claim, e.slot)
             /\ guard' = Null => SameClaim /\ SameSlot
             /\ \A t \in Stores \ {s} : SyncedAt(t)'
    BY <1>1 DEF SyncedFacts, SameClaim, SameSlot
  <2>1. \A t \in Stores \ {s} : SyncedAt(t)'
    <3> TAKE t \in Stores \ {s}
    <3>1. SyncedAt(t) /\ pc'[t] = pc[t]
      BY DEF Traces, SyncedFacts, Stepped
    <3> QED BY <1>1, <3>1 DEF SyncedAt, SameClaim, SameSlot
  <2> QED BY <2>1 DEF Traces, SyncedFacts
<1> QED BY <1>1, <1>2, <1>3 DEF Traces, ForeignFacts, OrderedFacts

\* The holder of the guard changes the directory.
LEMMA TracesChanged ==
  ASSUME OpeningTypeOK, PlaceFacts, Traces, strange \notin ForeignKinds, NEW s \in Stores, NEW q, Stepped(s, q), guard = s, KeepOthers,
         dir' \in onDisk', onDisk' \subseteq OwnArtifacts, ArtifactsAt(s)', OrderedFacts',
         "crash" \notin suffered =>
             /\ (\A d, e \in onDisk : Allows(d.claim, e.slot))'
             /\ guard' = Null => SameClaim' /\ SameSlot'
             /\ SyncedAt(s)'
  PROVE  Traces'
<1>1. strange' = strange /\ suffered' = suffered
  BY DEF KeepOthers
<1>2. \A t \in Stores \ {s} : ArtifactsAt(t)' /\ SyncedAt(t)'
  <2> TAKE t \in Stores \ {s}
  <2>1. pc'[t] \notin Underway
    BY DEF Stepped, PlaceFacts, PlaceOf
  <2> QED BY <2>1, ElsewhereNext
<1>3. ArtifactFacts'
  BY <1>2 DEF ArtifactFacts
<1>4. SyncedFacts'
  BY <1>1, <1>2 DEF SyncedFacts
<1> QED BY <1>1, <1>3, <1>4 DEF Traces, ForeignFacts

\* The administrator's own artifacts are met first, and left.
LEMMA ForeignSteps ==
  ASSUME OpeningTypeOK, PlaceFacts, PlaceFacts', Traces, strange \in ForeignKinds, NEW s \in Stores, OpeningStep(s), KeepOthers
  PROVE  Traces'
<1>0. PlaceOf(s) /\ PlaceOf(s)' /\ pc[s] \in {"closed", "guard", "reclaim"} /\ (pc[s] = "reclaim" => ret[s] = "acquire") /\ dir = Found(strange)
  BY DEF PlaceFacts, Traces, ForeignFacts
<1>1. ASSUME KeepDir, NEW q \in {"closed", "guard", "reclaim"}, Stepped(s, q), q = "reclaim" => ret'[s] = "acquire"
      PROVE  Traces'
  <2>1. ForeignFacts'
    BY <1>1 DEF Traces, ForeignFacts, KeepDir, KeepOthers, Stepped
  <2> QED BY <1>1, <2>1 DEF Traces, ArtifactFacts, OrderedFacts, SyncedFacts, KeepDir, KeepOthers
<1>2. CASE Begin(s) \/ TakeGuard(s) \/ GuardTimeout(s)
  BY <1>0, <1>1, <1>2, BeginDoes, TakeGuardDoes, GuardTimeoutDoes DEF GivesUp, Begin, TakeGuard, GuardTimeout
<1>3. CASE Reclaim(s)
  <2>1. /\ dir.stage = Null
        /\ \/ dir.claim = Null /\ dir.slot # Null
           \/ dir.claim # Null /\ (dir.claim.kind = "unknown" \/ (dir.slot # Null /\ ~Vouched(dir.claim, dir.slot)))
    <3> USE NullIsApart DEF Found, Nothing, StrangeClaims, StrangeSlots
    <3>1. CASE strange = "slot"
      <4>1. [id |-> 0, entries |-> {"other"}] \in StrangeSlots OBVIOUS
      <4> QED BY <1>0, <3>1, <4>1
    <3>2. CASE strange = "contents"
      <4>1. [id |-> 0, entries |-> {"database", "other"}] \in StrangeSlots /\ [kind |-> "owned", id |-> 0] \in StrangeClaims OBVIOUS
      <4> QED BY <1>0, <3>2, <4>1 DEF Vouched, Copies
    <3>3. CASE strange = "moved"
      <4>1. [id |-> 0, entries |-> {"database"}] \in StrangeSlots /\ [kind |-> "owned", id |-> 99] \in StrangeClaims OBVIOUS
      <4>2. dir.stage = Null /\ dir.claim = [kind |-> "owned", id |-> 99] /\ dir.slot = [id |-> 0, entries |-> {"database"}]
        BY <1>0, <3>3
      <4>3. ~Vouched(dir.claim, dir.slot)
        BY <4>2 DEF Vouched
      <4> QED BY <4>1, <4>2, <4>3
    <3>4. CASE strange = "claim"
      <4>1. [kind |-> "unknown", id |-> 0] \in StrangeClaims OBVIOUS
      <4> QED BY <1>0, <3>4, <4>1
    <3> QED BY <3>1, <3>2, <3>3, <3>4 DEF ForeignKinds
  <2>2. GivesUp(s) /\ KeepDir
    BY <1>0, <1>3, <2>1, ReclaimDoes
  <2> QED BY <1>1, <2>2 DEF GivesUp
<1> QED BY <1>0, <1>2, <1>3 DEF OpeningStep, EmptySlot, RemoveSlot, RemoveClaim, SyncDirectory, Acquire, Preflight, Inspect,
           StageClaim, PublishClaim, MakeSlot, CopyFiles, Validate, RollBack, Connect, Convert, Migrate, CommitMigration,
           Opened, Transact, Commit, Close

\* A change of the directory that the disk may hold from now on, besides what it may hold already.
LEMMA TracesAdded ==
  ASSUME OpeningTypeOK, PlaceFacts, Traces, strange \notin ForeignKinds, NEW s \in Stores, NEW q \in Underway, Stepped(s, q), guard = s, guard' = guard,
         KeepOthers, NEW new \in OwnArtifacts, Changed(new), ArtifactsAt(s)',
         "reordering" \notin suffered => Allows(new.claim, new.slot),
         "crash" \notin suffered =>
             /\ Allows(new.claim, new.slot)
             /\ \A d \in onDisk : Allows(new.claim, d.slot) /\ Allows(d.claim, new.slot)
             /\ SyncedAt(s)'
  PROVE  Traces'
<1>1. /\ dir' = new /\ onDisk' = onDisk \cup {new} /\ dir' \in onDisk' /\ onDisk' \subseteq OwnArtifacts
      /\ strange' = strange /\ suffered' = suffered
  BY DEF Changed, Traces, KeepOthers
<1>2. OrderedFacts'
  BY <1>1 DEF OrderedFacts, Traces
<1>3. guard' # Null
  BY NullIsApart
<1>4. "crash" \notin suffered => (\A d, e \in onDisk : Allows(d.claim, e.slot))'
  BY <1>1 DEF Traces, SyncedFacts
<1> QED BY <1>1, <1>2, <1>3, <1>4, TracesChanged

\* The directory is on the disk.
LEMMA TracesSynced ==
  ASSUME OpeningTypeOK, PlaceFacts, Traces, strange \notin ForeignKinds, NEW s \in Stores, NEW q, Stepped(s, q), guard = s,
         KeepOthers, onDisk' = {dir}, dir' = dir, ArtifactsAt(s)',
         Allows(dir.claim, dir.slot),
         q \in {"copy", "validate", "rollback"} => dir.slot # Null
  PROVE  Traces'
<1>1. dir' \in onDisk' /\ onDisk' \subseteq OwnArtifacts /\ SameClaim' /\ SameSlot' /\ pc'[s] = q
  BY DEF Traces, SameClaim, SameSlot, Stepped
<1>2. OrderedFacts'
  BY DEF OrderedFacts, Allows
<1>3. SyncedAt(s)'
  BY <1>1 DEF SyncedAt
<1>4. (\A d, e \in onDisk : Allows(d.claim, e.slot))'
  BY DEF Allows
<1> QED BY <1>1, <1>2, <1>3, <1>4, TracesChanged

\* The opening moves on and leaves the directory alone.
LEMMA TracesMoved ==
  ASSUME OpeningTypeOK, PlaceFacts, PlaceFacts', Traces, strange \notin ForeignKinds, NEW s \in Stores, NEW q, Stepped(s, q), KeepDir, KeepOthers,
         \/ q \notin Underway /\ (guard # s \/ pc[s] \in Checking \cup Connected)
         \/ q \in Checking \cup Connected /\ pc[s] \in Checking \cup Connected /\ (q \in Checking => pc[s] \in Checking)
         \/ q = "plan" /\ pc[s] \in Checking
         \/ q = "reclaim" /\ guard = Null
         \/ q = "reclaim" /\ pc[s] \in {"copy", "validate", "rollback"}
         \/ q \in {"validate", "rollback"} /\ pc[s] \in {"copy", "validate", "rollback"}
  PROVE  Traces'
<1> USE DEF Underway, Reclaiming, Recovering, Checking, Connected
<1>1. pc'[s] = q /\ ArtifactsAt(s) /\ ("crash" \notin suffered => SyncedAt(s) /\ (guard = Null => SameClaim /\ SameSlot)) /\ dir' = dir /\ onDisk' = onDisk
  BY DEF Stepped, Traces, ArtifactFacts, SyncedFacts, KeepDir
<1>2. ArtifactsAt(s)'
  BY <1>1 DEF ArtifactsAt
<1>3. "crash" \notin suffered => SyncedAt(s)'
  BY <1>1 DEF SyncedAt, ArtifactsAt, SameClaim, SameSlot
<1>4. "crash" \notin suffered /\ guard' = Null /\ guard # Null => SameClaim /\ SameSlot
  <2>1. ASSUME guard' = Null, guard # Null PROVE guard = s /\ q \notin Underway
    <3>1. guard = s
      BY <2>1, NullIsApart DEF Stepped, OpeningTypeOK
    <3>2. pc'[s] \in Underway <=> guard' = s
      BY DEF PlaceFacts, PlaceOf
    <3> QED BY <1>1, <2>1, <3>1, <3>2, NullIsApart
  <2> QED BY <1>1, <2>1 DEF SyncedAt
<1> QED BY <1>2, <1>3, <1>4, TracesKept

\* What the artifacts of the program may look like to the reclaiming.
LEMMA OwnAllowed ==
  ASSUME Traces, strange \notin ForeignKinds, ~({"crash", "reordering"} \subseteq suffered)
  PROVE  /\ Allows(dir.claim, dir.slot)
         /\ dir.claim = Null => dir.slot = Null
         /\ dir.claim # Null => dir.claim.kind # "unknown" /\ (dir.slot # Null => Vouched(dir.claim, dir.slot))
<1>1. Allows(dir.claim, dir.slot)
  <2>1. CASE "crash" \notin suffered
    BY <2>1 DEF Traces, SyncedFacts
  <2>2. CASE "reordering" \notin suffered
    BY <2>2 DEF Traces, OrderedFacts
  <2> QED BY <2>1, <2>2
<1>2. dir \in OwnArtifacts
  BY DEF Traces
<1>3. dir.claim # Null /\ dir.slot # Null => Vouched(dir.claim, dir.slot)
  BY <1>1, <1>2, OwnParts DEF Vouched, Allows
<1> QED BY <1>1, <1>2, <1>3, OwnParts DEF Allows

\* Every step of an opening leaves artifacts from which the next one can go on.
LEMMA OwnSteps ==
  ASSUME OpeningTypeOK, PlaceFacts, PlaceFacts', Traces, strange \notin ForeignKinds, NEW s \in Stores, OpeningStep(s), KeepOthers
  PROVE  Traces'
<1> USE DEF Underway, Reclaiming, Recovering, Checking, Connected
<1>0. /\ PlaceOf(s) /\ PlaceOf(s)' /\ ArtifactsAt(s) /\ dir \in OwnArtifacts /\ dir \in onDisk /\ onDisk \subseteq OwnArtifacts
      /\ "crash" \notin suffered => SyncedAt(s) /\ (\A d, e \in onDisk : Allows(d.claim, e.slot))
      /\ "reordering" \notin suffered => \A d \in onDisk : Allows(d.claim, d.slot)
  BY DEF PlaceFacts, Traces, ArtifactFacts, SyncedFacts, OrderedFacts
<1>p. /\ dir.claim \in RecoveryClaims \cup {Null} /\ dir.slot \in Slots \cup {Null} /\ dir.stage \in RecoveryClaims \cup {Null}
      /\ dir = [stage |-> dir.stage, claim |-> dir.claim, slot |-> dir.slot]
      /\ dir.claim # Null => dir.claim.kind \in {"planned", "owned"} /\ (dir.claim.kind = "owned" => dir.claim.id = 1)
      /\ dir.slot # Null => dir.slot.id = 1 /\ dir.slot.entries \subseteq Copies
  BY <1>0, OwnParts
<1>u. pc[s] \in Underway => guard = s
  BY <1>0 DEF PlaceOf
\* The end of a reclaiming, with nothing left.
<1>r. ASSUME Reclaimed(s), ret[s] # Null, dir.slot = Null, dir.claim = Null, dir' = dir,
             (pc[s] = "reclaim" /\ KeepDir) \/ (pc[s] = "unclaimed" /\ onDisk' = {dir})
      PROVE  Traces'
  <2>1. \E q \in {"closed", "acquire", "again"} : Stepped(s, q)
    BY <1>r, ReclaimedDoes DEF GivesUp
  <2>2. PICK q \in {"closed", "acquire", "again"} : Stepped(s, q)
    BY <2>1
  <2>3. ArtifactsAt(s)'
    BY <1>r, <2>2 DEF ArtifactsAt, Stepped
  <2>4. CASE pc[s] = "reclaim" /\ KeepDir
    <3>1. "crash" \notin suffered => SameClaim /\ SameSlot
      BY <1>0, <1>r, <2>4 DEF SyncedAt
    <3>2. "crash" \notin suffered => SyncedAt(s)'
      BY <2>2, <2>4, <3>1 DEF SyncedAt, SameClaim, SameSlot, KeepDir, Stepped
    <3> QED BY <2>2, <2>3, <2>4, <3>1, <3>2, TracesKept
  <2>5. CASE pc[s] = "unclaimed" /\ onDisk' = {dir}
    BY <2>2, <2>3, <2>5, <1>r, <1>u, TracesSynced DEF Allows
  <2> QED BY <1>r, <2>4, <2>5
<1>a. ASSUME NEW new, Changed(new)
      PROVE  dir' = new /\ onDisk' = onDisk \cup {new}
  BY <1>a DEF Changed
<1>1. CASE Begin(s) \/ GuardTimeout(s) \/ TakeGuard(s)
  <2>0. pc[s] \in {"closed", "guard"} /\ KeepDir
    BY <1>1 DEF Begin, GuardTimeout, TakeGuard
  <2>a. guard # s
    BY <1>0, <2>0 DEF PlaceOf
  <2>1. \E q : Stepped(s, q) /\ ((guard = Null /\ q = "reclaim") \/ (guard # s /\ q \in {"closed", "guard"}))
    <3>1. CASE Begin(s) BY <2>a, <3>1, BeginDoes
    <3>2. CASE GuardTimeout(s) BY <2>a, <3>2, GuardTimeoutDoes DEF GivesUp
    <3>3. CASE TakeGuard(s)
      <4>1. Stepped(s, "reclaim") /\ guard = Null BY <3>3, TakeGuardDoes
      <4> QED BY <4>1
    <3> QED BY <1>1, <3>1, <3>2, <3>3
  <2> QED BY <2>0, <2>1, TracesMoved
<1>2. CASE Reclaim(s)
  <2>0. pc[s] = "reclaim" /\ guard = s /\ guard # Null
    BY <1>2, <1>u, NullIsApart DEF Reclaim
  <2>1. CASE dir.stage # Null /\ Changed([dir EXCEPT !.stage = Null]) /\ Moves(s, "reclaim")
    <3> DEFINE new == [dir EXCEPT !.stage = Null]
    <3>1. new \in OwnArtifacts /\ new.claim = dir.claim /\ new.slot = dir.slot
      BY <1>0 DEF OwnArtifacts
    <3>2. ArtifactsAt(s)'
      BY <2>1 DEF ArtifactsAt, Moves, Stepped
    <3>3. "crash" \notin suffered => SyncedAt(s)'
      BY <1>0, <2>0, <2>1, <3>1 DEF SyncedAt, SameClaim, SameSlot, Changed, Moves, Stepped
    <3> HIDE DEF new
    <3> QED BY <1>0, <2>0, <2>1, <3>1, <3>2, <3>3, TracesAdded DEF Moves, new
  <2>2. CASE KeepDir /\ dir.claim = Null /\ dir.slot = Null /\ Reclaimed(s) /\ ret[s] # Null
    <3>1. dir' = dir BY <2>2 DEF KeepDir
    <3> QED BY <2>0, <2>2, <3>1, <1>r
  <2>3. CASE KeepDir /\ GivesUp(s) /\ ((dir.claim = Null /\ dir.slot # Null)
               \/ (dir.claim # Null /\ (dir.claim.kind = "unknown" \/ (dir.slot # Null /\ ~Vouched(dir.claim, dir.slot)))))
    <3>1. "crash" \in suffered
      BY <2>3, OwnAllowed
    <3>2. ArtifactsAt(s)'
      BY <2>3 DEF ArtifactsAt, GivesUp, Stepped
    <3> QED BY <2>3, <3>1, <3>2, TracesKept DEF GivesUp
  <2>4. CASE KeepDir /\ dir.claim # Null /\ dir.slot = Null /\ Moves(s, "unclaim")
    <3>1. ArtifactsAt(s)' /\ guard' = guard /\ guard # Null
      BY <2>0, <2>4 DEF ArtifactsAt, Moves, Stepped, KeepDir
    <3>2. "crash" \notin suffered => SyncedAt(s)'
      BY <1>0, <2>0, <2>4 DEF SyncedAt, SameSlot, KeepDir, Moves, Stepped
    <3> QED BY <2>4, <3>1, <3>2, TracesKept DEF Moves
  <2>5. CASE KeepDir /\ dir.claim # Null /\ dir.slot # Null /\ Vouched(dir.claim, dir.slot) /\ Moves(s, "empty")
    <3>1. ArtifactsAt(s)' /\ guard' = guard /\ guard # Null
      BY <2>0, <2>5, NullIsApart, <1>p DEF ArtifactsAt, Allows, Vouched, Moves, Stepped, KeepDir
    <3>2. SyncedAt(s)'
      BY <2>5 DEF SyncedAt, Moves, Stepped
    <3> QED BY <2>5, <3>1, <3>2, TracesKept DEF Moves
  <2> HIDE DEF Underway, Reclaiming, Recovering, Checking, Connected
  <2>6. PlaceOf(s) BY <1>0
  <2>7. /\ dir.stage # Null /\ Changed([dir EXCEPT !.stage = Null]) /\ Moves(s, "reclaim")
        \/ /\ KeepDir
           /\ \/ dir.claim = Null /\ dir.slot # Null /\ GivesUp(s)
              \/ dir.claim = Null /\ dir.slot = Null /\ Reclaimed(s) /\ ret[s] # Null
              \/ dir.claim # Null /\ (dir.claim.kind = "unknown" \/ (dir.slot # Null /\ ~Vouched(dir.claim, dir.slot))) /\ GivesUp(s)
              \/ dir.claim # Null /\ dir.slot = Null /\ Moves(s, "unclaim")
              \/ dir.claim # Null /\ dir.slot # Null /\ Vouched(dir.claim, dir.slot) /\ Moves(s, "empty")
    BY <1>2, <2>6, ReclaimDoes
  <2> QED BY <2>1, <2>2, <2>3, <2>4, <2>5, <2>7
<1>3. CASE EmptySlot(s)
  <2>0. pc[s] = "empty" /\ dir.claim # Null /\ dir.slot # Null /\ Allows(dir.claim, dir.slot) /\ guard = s
    BY <1>0, <1>3, <1>u, EmptySlotDoes DEF ArtifactsAt
  <2>1. CASE (\E e \in dir.slot.entries : Changed([dir EXCEPT !.slot.entries = @ \ {e}])) /\ Moves(s, "empty")
    <3> PICK e \in dir.slot.entries : Changed([dir EXCEPT !.slot.entries = @ \ {e}]) BY <2>1
    <3> DEFINE new == [dir EXCEPT !.slot.entries = @ \ {e}]
    <3>1. new.claim = dir.claim /\ new.stage = dir.stage /\ new.slot = [dir.slot EXCEPT !.entries = @ \ {e}]
      BY <1>p
    <3>2. new.slot \in Slots /\ new.slot.entries \subseteq dir.slot.entries /\ new.slot # Null
      BY <1>p, <2>0, <3>1, NullIsApart DEF Slots
    <3>3. new \in OwnArtifacts
      BY <1>p, <3>1, <3>2 DEF OwnArtifacts
    <3>4. ArtifactsAt(s)' /\ SyncedAt(s)'
      BY <2>0, <2>1, <3>1, <3>2 DEF ArtifactsAt, SyncedAt, Allows, Moves, Stepped, Changed
    <3>5. "crash" \notin suffered => \A d \in onDisk : Allows(new.claim, d.slot) /\ Allows(d.claim, new.slot)
      BY <1>0, <2>0, <3>1, <3>2 DEF Allows
    <3>6. Allows(new.claim, new.slot)
      BY <2>0, <3>1, <3>2 DEF Allows
    <3>7. Changed(new) OBVIOUS
    <3> HIDE DEF new
    <3> QED BY <2>0, <2>1, <3>3, <3>4, <3>5, <3>6, <3>7, TracesAdded DEF Moves
  <2>2. CASE dir.slot.entries = {} /\ KeepDir /\ Moves(s, "rmdir")
    <3>1. ArtifactsAt(s)' /\ SyncedAt(s)' /\ guard' = guard /\ guard # Null
      BY <2>0, <2>2, NullIsApart DEF ArtifactsAt, SyncedAt, Allows, Moves, Stepped, KeepDir
    <3> QED BY <2>2, <3>1, TracesKept DEF Moves
  <2> QED BY <1>0, <1>3, <2>1, <2>2, EmptySlotDoes
<1>s. pc[s] \in Underway => guard = s /\ guard # Null
  BY <1>u, NullIsApart
<1>4. CASE RemoveSlot(s)
  <2> DEFINE new == [dir EXCEPT !.slot = Null]
  <2>0. pc[s] = "rmdir" /\ guard = s /\ Moves(s, "removed") /\ Changed(new)
    BY <1>4, <1>s, RemovalsDo
  <2>1. new \in OwnArtifacts /\ new.claim = dir.claim /\ new.slot = Null
    BY <1>p DEF OwnArtifacts
  <2> HIDE DEF new
  <2>2. ArtifactsAt(s)' /\ SyncedAt(s)'
    BY <2>0, <2>1 DEF ArtifactsAt, SyncedAt, Moves, Stepped, Changed
  <2>3. Allows(new.claim, new.slot) /\ \A d \in onDisk : Allows(d.claim, new.slot)
    BY <2>1 DEF Allows
  <2>4. "crash" \notin suffered => \A d \in onDisk : Allows(new.claim, d.slot)
    BY <1>0, <2>1
  <2> QED BY <2>0, <2>1, <2>2, <2>3, <2>4, TracesAdded DEF Moves
<1>5. CASE RemoveClaim(s)
  <2> DEFINE new == [dir EXCEPT !.claim = Null]
  <2>0. pc[s] = "unclaim" /\ guard = s /\ Moves(s, "unclaimed") /\ Changed(new)
    BY <1>5, <1>s, RemovalsDo
  <2>1. new \in OwnArtifacts /\ new.claim = Null /\ new.slot = Null
    BY <1>0, <1>p, <2>0 DEF OwnArtifacts, ArtifactsAt
  <2> HIDE DEF new
  <2>2. ArtifactsAt(s)' /\ SyncedAt(s)'
    BY <2>0, <2>1 DEF ArtifactsAt, SyncedAt, Moves, Stepped, Changed
  <2>3. Allows(new.claim, new.slot) /\ \A d \in onDisk : Allows(d.claim, new.slot)
    BY <2>1 DEF Allows
  <2>4. "crash" \notin suffered => \A d \in onDisk : Allows(new.claim, d.slot)
    <3>1. "crash" \notin suffered => \A d \in onDisk : d.slot = Null
      BY <1>0, <2>0 DEF SyncedAt, SameSlot, ArtifactsAt
    <3> QED BY <3>1 DEF Allows
  <2> QED BY <2>0, <2>1, <2>2, <2>3, <2>4, TracesAdded DEF Moves
<1>6. CASE SyncDirectory(s)
  <2>0. onDisk' = {dir} /\ dir' = dir /\ pc[s] \in {"removed", "unclaimed", "plan published", "made", "claim published"} /\ guard = s
    BY <1>6, <1>s DEF SyncDirectory
  <2>1. ASSUME NEW p \in {"removed", "plan published", "made", "claim published"}, NEW q \in {"unclaim", "mkdir", "own", "copy"}, pc[s] = p, Moves(s, q),
               p = "removed" <=> q = "unclaim", p = "plan published" <=> q = "mkdir", p = "made" <=> q = "own"
        PROVE  Traces'
    <3>1. Allows(dir.claim, dir.slot) /\ (q = "copy" => dir.slot # Null)
      BY <1>0, <2>1 DEF ArtifactsAt, Allows
    <3>2. ArtifactsAt(s)'
      BY <1>0, <2>0, <2>1 DEF ArtifactsAt, Moves, Stepped
    <3> QED BY <2>0, <2>1, <3>1, <3>2, TracesSynced DEF Moves
  <2>2. CASE pc[s] = "unclaimed" /\ ret[s] # Null /\ Reclaimed(s)
    <3>1. dir.slot = Null /\ dir.claim = Null
      BY <1>0, <2>2 DEF ArtifactsAt
    <3> QED BY <1>r, <2>0, <2>2, <3>1
  <2> QED BY <1>0, <1>6, <2>1, <2>2, SyncDirectoryDoes
<1>k. ASSUME KeepDir, NEW q, Stepped(s, q),
         \/ q = "closed" /\ pc[s] \in Checking \cup Connected
         \/ q \in Checking /\ pc[s] \in Checking
         \/ q \in Connected /\ pc[s] \in Checking \cup Connected
         \/ q = "plan" /\ pc[s] \in Checking
         \/ q = "open" /\ pc[s] \in Connected
      PROVE  Traces'
  BY <1>k, TracesMoved
<1>7. CASE Acquire(s)
  <2>1. KeepDir BY <1>7 DEF Acquire
  <2> QED BY <1>7, <1>k, <2>1, AcquireDoes DEF Moves
<1>8. CASE Preflight(s)
  <2>1. KeepDir BY <1>8 DEF Preflight
  <2> QED BY <1>8, <1>k, <2>1, PreflightDoes DEF Moves, GivesUp
<1>9. CASE Inspect(s)
  <2>1. KeepDir BY <1>9 DEF Inspect
  <2> QED BY <1>9, <1>k, <2>1, InspectDoes DEF GivesUp
<1>10. CASE StageClaim(s)
  <2> DEFINE new == [dir EXCEPT !.stage = Claim(s)]
  <2>0. Changed(new) /\ guard = s /\ ((pc[s] = "plan" /\ Moves(s, "planned")) \/ (pc[s] = "own" /\ Moves(s, "owned")))
    BY <1>10, <1>s, ClaimingDoes DEF StageClaim
  <2>1. Claim(s) \in RecoveryClaims /\ (pc[s] = "plan" => Claim(s).kind = "planned") /\ (pc[s] = "own" => Claim(s).kind = "owned")
    BY <1>0, <1>p, <2>0 DEF Claim, RecoveryClaims, ArtifactsAt
  <2>2. new \in OwnArtifacts /\ new.claim = dir.claim /\ new.slot = dir.slot /\ new.stage = Claim(s)
    BY <1>p, <2>1 DEF OwnArtifacts
  <2> HIDE DEF new
  <2>3. ArtifactsAt(s)'
    <3>1. Claim(s) # Null BY <2>1, NullIsApart
    <3> QED BY <1>0, <2>0, <2>1, <2>2, <3>1 DEF ArtifactsAt, Moves, Stepped, Changed
  <2>4. "crash" \notin suffered => SyncedAt(s)'
    BY <1>0, <2>0, <2>2 DEF SyncedAt, SameClaim, SameSlot, Moves, Stepped, Changed
  <2> QED BY <1>0, <2>0, <2>2, <2>3, <2>4, TracesAdded DEF Moves
<1>11. CASE PublishClaim(s)
  <2> DEFINE new == [dir EXCEPT !.stage = Null, !.claim = dir.stage]
  <2>0. Changed(new) /\ guard = s /\ ((pc[s] = "planned" /\ Moves(s, "plan published")) \/ (pc[s] = "owned" /\ Moves(s, "claim published")))
    BY <1>11, <1>s, ClaimingDoes DEF PublishClaim
  <2>1. new \in OwnArtifacts /\ new.claim = dir.stage /\ new.slot = dir.slot /\ dir.stage # Null
    BY <1>0, <1>p, <2>0 DEF OwnArtifacts, ArtifactsAt
  <2> HIDE DEF new
  <2>2. CASE pc[s] = "planned" /\ Moves(s, "plan published")
    <3>1. dir.slot = Null /\ dir.stage.kind = "planned" /\ ("crash" \notin suffered => \A d \in onDisk : d.slot = Null)
      BY <1>0, <2>2 DEF ArtifactsAt, SyncedAt, SameSlot
    <3>2. ArtifactsAt(s)' /\ SyncedAt(s)'
      BY <2>0, <2>1, <2>2, <3>1 DEF ArtifactsAt, SyncedAt, Moves, Stepped, Changed
    <3>3. /\ Allows(new.claim, new.slot)
          /\ "crash" \notin suffered => \A d \in onDisk : Allows(new.claim, d.slot) /\ Allows(d.claim, new.slot)
      BY <2>1, <3>1 DEF Allows
    <3> QED BY <2>0, <2>1, <2>2, <3>2, <3>3, TracesAdded DEF Moves
  <2>3. CASE pc[s] = "owned" /\ Moves(s, "claim published")
    <3>1. dir.slot # Null /\ dir.slot.entries = {} /\ dir.stage.kind = "owned"
      BY <1>0, <2>3 DEF ArtifactsAt
    <3>2. ArtifactsAt(s)' /\ SyncedAt(s)'
      BY <2>0, <2>1, <2>3, <3>1 DEF ArtifactsAt, SyncedAt, Moves, Stepped, Changed
    <3>3. /\ Allows(new.claim, new.slot)
          /\ "crash" \notin suffered => \A d \in onDisk : Allows(new.claim, d.slot) /\ Allows(d.claim, new.slot)
      BY <1>0, <2>1, <3>1 DEF Allows
    <3> QED BY <2>0, <2>1, <2>3, <3>2, <3>3, TracesAdded DEF Moves
  <2> QED BY <2>0, <2>2, <2>3
<1>12. CASE MakeSlot(s)
  <2> DEFINE new == [dir EXCEPT !.slot = [id |-> 1, entries |-> {}]]
  <2>0. Changed(new) /\ guard = s /\ pc[s] = "mkdir" /\ Moves(s, "made")
    BY <1>12, <1>s, ClaimingDoes DEF MakeSlot
  <2>1. new \in OwnArtifacts /\ new.claim = dir.claim /\ new.slot = [id |-> 1, entries |-> {}] /\ new.slot # Null
    <3>1. [id |-> 1, entries |-> {}] \in Slots BY DEF Slots
    <3> QED BY <1>p, <3>1, NullIsApart DEF OwnArtifacts
  <2> HIDE DEF new
  <2>2. dir.claim # Null /\ dir.claim.kind = "planned" /\ dir.slot = Null /\ ("crash" \notin suffered => \A d \in onDisk : d.slot = Null /\ d.claim = dir.claim)
    BY <1>0, <2>0 DEF ArtifactsAt, SyncedAt, SameSlot, SameClaim
  <2>3. ArtifactsAt(s)' /\ SyncedAt(s)'
    BY <2>0, <2>1, <2>2 DEF ArtifactsAt, SyncedAt, Moves, Stepped, Changed
  <2>4. /\ Allows(new.claim, new.slot)
        /\ "crash" \notin suffered => \A d \in onDisk : Allows(new.claim, d.slot) /\ Allows(d.claim, new.slot)
    BY <2>1, <2>2 DEF Allows
  <2> QED BY <2>0, <2>1, <2>3, <2>4, TracesAdded DEF Moves
<1>v. ASSUME KeepDir, pc[s] \in {"copy", "validate", "rollback"}, NEW q \in {"reclaim", "validate", "rollback"}, Stepped(s, q)
      PROVE  Traces'
  BY <1>v, TracesMoved
<1>13. CASE CopyFiles(s)
  <2>0. pc[s] = "copy" /\ guard = s /\ guard # Null
    BY <1>13, <1>s DEF CopyFiles
  <2>1. CASE KeepDir /\ (Returned(s, "fail") \/ Moves(s, "validate"))
    BY <1>v, <2>0, <2>1 DEF Returned, Moves
  <2>2. CASE (\E e \in Copies : Changed([dir EXCEPT !.slot.entries = @ \cup {e}])) /\ Stepped(s, "copy") /\ guard' = guard
    <3> PICK e \in Copies : Changed([dir EXCEPT !.slot.entries = @ \cup {e}]) BY <2>2
    <3> DEFINE new == [dir EXCEPT !.slot.entries = @ \cup {e}]
    <3>0. dir.slot # Null /\ dir.claim # Null /\ dir.claim.kind = "owned"
      BY <1>0, <2>0 DEF ArtifactsAt
    <3>1. new.claim = dir.claim /\ new.stage = dir.stage /\ new.slot = [dir.slot EXCEPT !.entries = @ \cup {e}]
      BY <1>p
    <3>2. new.slot \in Slots /\ new.slot # Null
      BY <1>p, <3>0, <3>1, NullIsApart DEF Slots
    <3>3. new \in OwnArtifacts
      BY <1>p, <3>1, <3>2 DEF OwnArtifacts
    <3>c. Changed(new) OBVIOUS
    <3> HIDE DEF new
    <3>4. ArtifactsAt(s)'
      BY <2>2, <3>0, <3>1, <3>2, <3>c DEF ArtifactsAt, Stepped, Changed
    <3>5. "crash" \notin suffered => \A d \in onDisk : d.claim = dir.claim /\ d.slot # Null
      BY <1>0, <2>0 DEF SyncedAt, SameClaim
    <3>6. "crash" \notin suffered => SyncedAt(s)'
      BY <2>2, <3>1, <3>2, <3>5, <3>c DEF SyncedAt, SameClaim, Stepped, Changed
    <3>7. /\ Allows(new.claim, new.slot)
          /\ "crash" \notin suffered => \A d \in onDisk : Allows(new.claim, d.slot) /\ Allows(d.claim, new.slot)
      BY <3>0, <3>1, <3>5 DEF Allows
    <3> QED BY <2>0, <2>2, <3>3, <3>4, <3>6, <3>7, <3>c, TracesAdded
  <2> QED BY <1>13, <2>1, <2>2, CopyFilesDoes
<1>14. CASE Validate(s)
  <2>1. KeepDir BY <1>14 DEF Validate
  <2> QED BY <1>14, <1>v, <2>1, ValidateDoes DEF Returned, Moves
<1>15. CASE RollBack(s)
  <2>1. KeepDir BY <1>15 DEF RollBack
  <2> QED BY <1>15, <1>v, <2>1, RollBackDoes DEF Returned, Moves
<1>16. CASE Connect(s)
  <2>1. KeepDir BY <1>16 DEF Connect
  <2> QED BY <1>16, <1>k, <2>1, ConnectDoes DEF GivesUp
<1>17. CASE Convert(s)
  <2>1. KeepDir BY <1>17 DEF Convert
  <2> QED BY <1>17, <1>k, <2>1, ConvertDoes DEF GivesUp, Moves
<1>18. CASE Migrate(s)
  <2>1. KeepDir BY <1>18 DEF Migrate
  <2> QED BY <1>18, <1>k, <2>1, MigrateDoes DEF GivesUp, Moves
<1>19. CASE CommitMigration(s)
  <2>1. KeepDir BY <1>19 DEF CommitMigration
  <2> QED BY <1>19, <1>k, <2>1, CommitMigrationDoes DEF Moves
<1>20. CASE Opened(s)
  <2>1. KeepDir BY <1>20 DEF Opened
  <2> QED BY <1>0, <1>20, <1>k, <2>1, OpenedDoes
<1>21. CASE Transact(s) \/ Commit(s) \/ Close(s)
  <2>1. KeepDir /\ pc[s] = "open" BY <1>21 DEF Transact, Commit, Close
  <2>2. guard # s BY <1>0, <2>1 DEF PlaceOf
  <2>3. \E q \in {"open", "closed"} : Stepped(s, q) BY <1>21, TransactDoes, CommitDoes, CloseDoes DEF Moves
  <2> QED BY <2>1, <2>2, <2>3, TracesMoved
<1> HIDE DEF Underway, Reclaiming, Recovering, Checking, Connected
<1> QED BY <1>1, <1>2, <1>3, <1>4, <1>5, <1>6, <1>7, <1>8, <1>9, <1>10, <1>11, <1>12, <1>13, <1>14, <1>15,
           <1>16, <1>17, <1>18, <1>19, <1>20, <1>21 DEF OpeningStep

\* No opening meets an artifact of the program that it cannot attribute (NeverStranded), after either kind of fault.
LEMMA StepsStrandNone ==
  ASSUME OpeningTypeOK, PlaceFacts, Traces, NeverStranded, NEW s \in Stores, OpeningStep(s), KeepOthers
  PROVE  NeverStranded'
<1> SUFFICES ASSUME strange = Null, ~({"crash", "reordering"} \subseteq suffered), NEW t \in Stores
    PROVE  err'[t] # "administrator"
  BY DEF NeverStranded, KeepOthers
<1>0. err[t] # "administrator" /\ err[s] # "administrator" /\ strange \notin ForeignKinds /\ strange # "stray" /\ Null # "administrator" /\ PlaceOf(s)
  BY NullIsApart DEF NeverStranded, PlaceFacts, Refusals
<1>1. t # s => err'[t] = err[t]
  <2>1. PICK q \in Places : Stepped(s, q) BY StepsKeepPlaces
  <2> QED BY <2>1 DEF Stepped
<1>2. ASSUME Reclaimed(s), ret[s] # Null PROVE err'[s] # "administrator"
  BY <1>0, <1>2, ReclaimedDoes
<1>3. err'[s] # "administrator"
  <2>1. CASE Reclaim(s)
    <3>1. /\ dir.claim = Null => dir.slot = Null
          /\ dir.claim # Null => dir.claim.kind # "unknown" /\ (dir.slot # Null => Vouched(dir.claim, dir.slot))
      BY <1>0, OwnAllowed
    <3> QED BY <1>0, <1>2, <2>1, <3>1, ReclaimDoes DEF Moves
  <2>2. CASE SyncDirectory(s)
    BY <1>0, <1>2, <2>2, SyncDirectoryDoes DEF Moves
  <2>3. CASE Begin(s) \/ TakeGuard(s) \/ GuardTimeout(s)
    BY <1>0, <2>3, BeginDoes, TakeGuardDoes, GuardTimeoutDoes
  <2>4. CASE EmptySlot(s) \/ RemoveSlot(s) \/ RemoveClaim(s) \/ Acquire(s) \/ StageClaim(s) \/ PublishClaim(s) \/ MakeSlot(s)
    BY <1>0, <2>4, EmptySlotDoes, RemovalsDo, AcquireDoes, ClaimingDoes DEF Moves
  <2>5. CASE Preflight(s) \/ Inspect(s) \/ Connect(s)
    BY <1>0, <2>5, PreflightDoes, InspectDoes, ConnectDoes DEF Moves
  <2>6. CASE CopyFiles(s) \/ Validate(s) \/ RollBack(s)
    BY <1>0, <2>6, CopyFilesDoes, ValidateDoes, RollBackDoes DEF Moves, Returned
  <2>7. CASE Convert(s) \/ Migrate(s) \/ CommitMigration(s) \/ Opened(s)
    BY <1>0, <2>7, ConvertDoes, MigrateDoes, CommitMigrationDoes, OpenedDoes DEF Moves
  <2>8. CASE Transact(s) \/ Commit(s) \/ Close(s)
    BY <1>0, <2>8, TransactDoes, CommitDoes, CloseDoes DEF Moves
  <2> QED BY <2>1, <2>2, <2>3, <2>4, <2>5, <2>6, <2>7, <2>8 DEF OpeningStep
<1> QED BY <1>0, <1>1, <1>3

\* Only six of the steps change the files, and none a ghost.
LEMMA KindsOfSteps ==
  ASSUME NEW s \in Stores, OpeningStep(s)
  PROVE  /\ KeepOthers
         /\ KeepDb \/ (RollBack(s) \/ Convert(s) \/ Migrate(s) \/ CommitMigration(s) \/ Transact(s) \/ Commit(s))
<1> USE DEF OpeningStep
<1>1. CASE Begin(s) \/ TakeGuard(s) \/ GuardTimeout(s) \/ Reclaim(s) \/ EmptySlot(s) \/ RemoveSlot(s) \/ RemoveClaim(s) \/ SyncDirectory(s)
  BY <1>1 DEF Begin, TakeGuard, GuardTimeout, Reclaim, EmptySlot, RemoveSlot, RemoveClaim, SyncDirectory
<1>2. CASE Acquire(s) \/ Preflight(s) \/ Inspect(s) \/ StageClaim(s) \/ PublishClaim(s) \/ MakeSlot(s) \/ CopyFiles(s) \/ Validate(s)
           \/ Connect(s) \/ Opened(s) \/ Close(s)
  BY <1>2 DEF Acquire, Preflight, Inspect, StageClaim, PublishClaim, MakeSlot, CopyFiles, Validate, Connect, Opened, Close
<1>3. CASE RollBack(s) \/ Convert(s) \/ Migrate(s) \/ CommitMigration(s) \/ Transact(s) \/ Commit(s)
  BY <1>3 DEF RollBack, Convert, Migrate, CommitMigration, Transact, Commit
<1> QED BY <1>1, <1>2, <1>3

\* Every step of an opening preserves the inductive invariant.
LEMMA StepsKeepOpening ==
  ASSUME OpeningIInv, NEW s \in Stores, OpeningStep(s)
  PROVE  OpeningIInv'
<1>0. OpeningTypeOK /\ PlaceFacts /\ ExclusionFacts /\ Wellformed /\ Readable /\ Traces /\ NeverStranded
  BY DEF OpeningIInv, Wellformed, Readable, Traces, OpeningTypeOK
<1>1. PlaceFacts' /\ \E q \in Places : Stepped(s, q)
  BY <1>0, StepsKeepPlaces
<1>2. ExclusionFacts'
  BY <1>0, StepsKeepExclusion
<1>3. KeepOthers
  BY KindsOfSteps
<1>4. Readable' /\ db' \in Files /\ committed' \in Content
  <2>1. CASE RollBack(s) \/ Convert(s) \/ Migrate(s) \/ CommitMigration(s) \/ Transact(s) \/ Commit(s)
    BY <1>0, <2>1, ChangesKeepFiles
  <2>2. CASE ~(RollBack(s) \/ Convert(s) \/ Migrate(s) \/ CommitMigration(s) \/ Transact(s) \/ Commit(s))
    <3>1. KeepDb BY <2>2, KindsOfSteps
    <3> QED BY <1>0, <2>2, <3>1, StepsKeepFiles DEF KeepDb, OpeningTypeOK
  <2> QED BY <2>1, <2>2
<1>5. Traces'
  <2>1. CASE strange \in ForeignKinds BY <1>0, <1>1, <1>3, <2>1, ForeignSteps
  <2>2. CASE strange \notin ForeignKinds BY <1>0, <1>1, <1>3, <2>2, OwnSteps
  <2> QED BY <2>1, <2>2
<1>6. NeverStranded'
  BY <1>0, <1>3, StepsStrandNone
<1>7. OpeningTypeOK'
  BY <1>0, <1>1, <1>3, <1>4, <1>5 DEF OpeningTypeOK, Stepped, Places, Traces, KeepOthers
<1> QED BY <1>1, <1>2, <1>4, <1>5, <1>6, <1>7 DEF OpeningIInv, Readable, Traces

\* What a fault leaves of the openings.
LEMMA StoppedOnes ==
  ASSUME OpeningTypeOK, NEW dying \in SUBSET Stores, Stopped(dying)
  PROVE  /\ pc' \in [Stores -> Places] /\ lock' \in [Stores -> {"none", "read", "write", "recover"}]
         /\ ret' \in [Stores -> Returns \cup {Null}] /\ seen' \in [Stores -> Files \cup {Null}]
         /\ err' \in [Stores -> Refusals \cup {Null}] /\ guard' \in Stores \cup {Null}
         /\ \A t \in dying : /\ pc'[t] = "closed" /\ lock'[t] = "none" /\ ret'[t] = Null /\ seen'[t] = Null /\ err'[t] = Null
                             /\ guard' # t
         /\ \A t \in Stores \ dying :
               /\ pc'[t] = pc[t] /\ lock'[t] = lock[t] /\ ret'[t] = ret[t] /\ seen'[t] = seen[t] /\ err'[t] = err[t]
               /\ guard' = t <=> guard = t
<1>1. guard' \in Stores \cup {Null} /\ (\A t \in dying : guard' # t) /\ \A t \in Stores \ dying : guard' = t <=> guard = t
  BY NullIsApart DEF OpeningTypeOK, Stopped
<1>2. pc' \in [Stores -> Places] /\ lock' \in [Stores -> {"none", "read", "write", "recover"}]
  BY DEF OpeningTypeOK, Stopped, Places
<1>3. ret' \in [Stores -> Returns \cup {Null}] /\ seen' \in [Stores -> Files \cup {Null}] /\ err' \in [Stores -> Refusals \cup {Null}]
  BY DEF OpeningTypeOK, Stopped
<1>4. \A t \in dying : pc'[t] = "closed" /\ lock'[t] = "none" /\ ret'[t] = Null /\ seen'[t] = Null /\ err'[t] = Null
  BY DEF OpeningTypeOK, Stopped
<1>5. \A t \in Stores \ dying : pc'[t] = pc[t] /\ lock'[t] = lock[t] /\ ret'[t] = ret[t] /\ seen'[t] = seen[t] /\ err'[t] = err[t]
  BY DEF OpeningTypeOK, Stopped
<1> QED BY <1>1, <1>2, <1>3, <1>4, <1>5

\* The places, the locks and the files after a fault.
LEMMA FaultsKeepStores ==
  ASSUME Wellformed, Readable, NEW dying \in SUBSET Stores, Stopped(dying), KeepDb,
         \A s \in Stores \ dying, t \in dying : ProcessOf[s] # ProcessOf[t]
  PROVE  PlaceFacts' /\ ExclusionFacts' /\ Readable'
<1>0. OpeningTypeOK BY DEF Wellformed
<1>1. PlaceFacts'
  <2> SUFFICES ASSUME NEW s \in Stores PROVE PlaceOf(s)' BY DEF PlaceFacts
  <2>1. CASE s \in dying
    <3>1. pc'[s] = "closed" /\ lock'[s] = "none" /\ ret'[s] = Null /\ guard' # s
      BY <1>0, <2>1, StoppedOnes
    <3> QED BY <3>1, NullIsApart DEF PlaceOf, Underway, Reclaiming, Recovering, Checking, Connected
  <2>2. CASE s \notin dying
    BY <1>0, <2>2, StoppedOnes DEF Wellformed, PlaceFacts, PlaceOf
  <2> QED BY <2>1, <2>2
<1>2. ExclusionFacts'
  <2> SUFFICES ASSUME NEW s \in Stores, NEW t \in Stores \ {s}
      PROVE   /\ lock'[s] \in {"write", "recover"} => lock'[t] = "none"
              /\ lock'[s] = "recover" /\ ProcessOf[t] = ProcessOf[s] => pc'[t] \in {"closed", "guard"}
    BY DEF ExclusionFacts
  <2>1. CASE s \in dying
    BY <1>0, <2>1, StoppedOnes
  <2>2. CASE s \notin dying
    <3>1. /\ lock'[s] = lock[s]
          /\ lock'[t] \in {lock[t], "none"} /\ pc'[t] \in {pc[t], "closed"}
      BY <1>0, <2>2, StoppedOnes
    <3> QED BY <3>1 DEF Wellformed, ExclusionFacts
  <2> QED BY <2>1, <2>2
<1>3. \A s \in Stores : JournalOf(s)' /\ JudgedAt(s)'
  <2> TAKE s \in Stores
  <2>1. CASE s \in dying
    BY <1>0, <2>1, StoppedOnes DEF JournalOf, JudgedAt, Connected
  <2>2. CASE s \notin dying
    BY <1>0, <2>2, StoppedOnes DEF Readable, JournalFacts, JudgedFacts, JournalOf, JudgedAt, KeepDb
  <2> QED BY <2>1, <2>2
<1>4. CommittedSurvives'
  BY DEF Readable, CommittedSurvives, Logical, KeepDb
<1> QED BY <1>1, <1>2, <1>3, <1>4 DEF Readable, JournalFacts, JudgedFacts

\* So does the death of a process between any two steps.
LEMMA CrashKeepsOpening ==
  ASSUME OpeningIInv, NEW p, Crash(p)
  PROVE  OpeningIInv'
<1> DEFINE dying == {s \in Stores : ProcessOf[s] = p}
<1>0. OpeningTypeOK /\ Wellformed /\ Readable /\ Traces /\ NeverStranded
  BY DEF OpeningIInv, Wellformed, Readable, Traces, OpeningTypeOK
<1>1. Stopped(dying) /\ KeepDb /\ KeepDir /\ strange' = strange /\ suffered' = suffered \cup {"crash"} /\ faults < MaxFaults /\ faults' = faults + 1
  BY DEF Crash
<1>2. \A s \in Stores \ dying, t \in dying : ProcessOf[s] # ProcessOf[t]
  OBVIOUS
<1>3. dying \in SUBSET Stores
  OBVIOUS
<1> HIDE DEF dying
<1>4. PlaceFacts' /\ ExclusionFacts' /\ Readable'
  BY <1>0, <1>1, <1>2, <1>3, FaultsKeepStores
<1>5. dir' = dir /\ onDisk' = onDisk /\ db' = db /\ committed' = committed
  BY <1>1 DEF KeepDir, KeepDb
<1>6. \A s \in Stores : pc'[s] = "closed" \/ (pc'[s] = pc[s] /\ ret'[s] = ret[s])
  BY <1>0, <1>1, <1>3, StoppedOnes
<1>7. Traces'
  <2>1. ArtifactFacts'
    <3> SUFFICES ASSUME strange \notin ForeignKinds, NEW s \in Stores PROVE ArtifactsAt(s)' BY <1>1 DEF ArtifactFacts
    <3>1. CASE pc'[s] = "closed"
      <4>1. pc'[s] \notin Underway BY <3>1 DEF Underway, Reclaiming, Recovering, Checking, Connected
      <4> QED BY <4>1, ElsewhereNext
    <3>2. CASE pc'[s] = pc[s]
      BY <1>0, <1>5, <3>2 DEF Traces, ArtifactFacts, ArtifactsAt
    <3> QED BY <1>6, <3>1, <3>2
  <2>2. ForeignFacts'
    BY <1>0, <1>1, <1>5, <1>6 DEF Traces, ForeignFacts
  <2>3. OrderedFacts' /\ SyncedFacts'
    BY <1>0, <1>1, <1>5 DEF Traces, OrderedFacts, SyncedFacts
  <2> QED BY <1>0, <1>1, <1>5, <2>1, <2>2, <2>3 DEF Traces
<1>8. NeverStranded'
  <2>1. \A s \in Stores : err'[s] \in {err[s], Null} BY <1>0, <1>1, <1>3, StoppedOnes
  <2> QED BY <1>0, <1>1, <2>1, NullIsApart DEF NeverStranded, Refusals
<1>9. OpeningTypeOK'
  <2>1. faults' \in 0..MaxFaults /\ suffered' \subseteq {"crash", "reordering"}
    BY <1>0, <1>1, StoresAssumption DEF OpeningTypeOK
  <2> QED BY <1>0, <1>1, <1>3, <1>5, <1>7, <2>1, StoppedOnes DEF OpeningTypeOK, Places
<1> QED BY <1>4, <1>7, <1>8, <1>9 DEF OpeningIInv, Readable, Traces

\* And so does a loss of power, whatever mixture of directory states the disk keeps.
LEMMA PowerLossKeepsOpening ==
  ASSUME OpeningIInv, PowerLoss
  PROVE  OpeningIInv'
<1>0. OpeningTypeOK /\ Wellformed /\ Readable /\ Traces /\ NeverStranded
  BY DEF OpeningIInv, Wellformed, Readable, Traces, OpeningTypeOK
<1>1. Stopped(Stores) /\ KeepDb /\ strange' = strange /\ faults < MaxFaults /\ faults' = faults + 1 /\ onDisk' = {dir'}
  BY DEF PowerLoss
<1>2. PICK ofStage, ofClaim, ofSlot \in onDisk :
          /\ dir' = [stage |-> ofStage.stage, claim |-> ofClaim.claim, slot |-> ofSlot.slot]
          /\ suffered' = IF dir' \in onDisk THEN suffered ELSE suffered \cup {"reordering"}
  BY DEF PowerLoss
<1>3. PlaceFacts' /\ ExclusionFacts' /\ Readable'
  BY <1>0, <1>1, FaultsKeepStores
<1>4. \A s \in Stores : pc'[s] = "closed" /\ err'[s] = Null
  BY <1>0, <1>1, StoppedOnes
<1>5. \A s \in Stores : ArtifactsAt(s)' /\ SyncedAt(s)'
  <2> TAKE s \in Stores
  <2>1. pc'[s] \notin Underway BY <1>4 DEF Underway, Reclaiming, Recovering, Checking, Connected
  <2> QED BY <2>1, ElsewhereNext
<1>6. strange \notin ForeignKinds => dir' \in OwnArtifacts
  BY <1>0, <1>2, OwnParts DEF Traces, OwnArtifacts
<1>7. ForeignFacts'
  <2> SUFFICES ASSUME strange \in ForeignKinds PROVE dir' = Found(strange) BY <1>1, <1>4 DEF ForeignFacts
  <2>1. ofStage = Found(strange) /\ ofClaim = Found(strange) /\ ofSlot = Found(strange)
    BY <1>0, <1>2 DEF Traces, ForeignFacts
  <2>2. Found(strange) = [stage |-> Found(strange).stage, claim |-> Found(strange).claim, slot |-> Found(strange).slot]
    BY DEF Found, Nothing, ForeignKinds
  <2> QED BY <1>2, <2>1, <2>2
<1>8. OrderedFacts'
  <2> SUFFICES ASSUME strange \notin ForeignKinds, "reordering" \notin suffered' PROVE Allows(dir'.claim, dir'.slot)
    BY <1>1 DEF OrderedFacts, Allows
  <2>1. "reordering" \notin suffered /\ dir' \in onDisk BY <1>2
  <2> QED BY <1>0, <2>1 DEF Traces, OrderedFacts
<1>9. SyncedFacts'
  <2> SUFFICES ASSUME strange \notin ForeignKinds, "crash" \notin suffered' PROVE Allows(dir'.claim, dir'.slot)
    BY <1>1, <1>5 DEF SyncedFacts, SameClaim, SameSlot, Allows
  <2>1. "crash" \notin suffered BY <1>2
  <2> QED BY <1>0, <1>2, <2>1 DEF Traces, SyncedFacts
<1>10. Traces'
  BY <1>1, <1>5, <1>6, <1>7, <1>8, <1>9 DEF Traces, ArtifactFacts
<1>11. NeverStranded'
  BY <1>4, NullIsApart DEF NeverStranded, Refusals
<1>12. OpeningTypeOK'
  <2>1. faults' \in 0..MaxFaults /\ suffered' \subseteq {"crash", "reordering"}
    BY <1>0, <1>1, <1>2, StoresAssumption DEF OpeningTypeOK
  <2> QED BY <1>0, <1>1, <1>10, <2>1, StoppedOnes DEF OpeningTypeOK, Places, Traces, KeepDb
<1> QED BY <1>3, <1>10, <1>11, <1>12 DEF OpeningIInv, Readable, Traces

\* The invariant holds at the start.
LEMMA OpeningStarts ==
  ASSUME OpeningInit
  PROVE  OpeningIInv
<1> USE DEF OpeningInit
<1>1. db \in Files /\ committed \in Content /\ db.journal = Null /\ Logical = committed
  BY StoresAssumption DEF Files, Logical
<1>2. \A s \in Stores : pc[s] = "closed" /\ ret[s] = Null /\ seen[s] = Null /\ err[s] = Null /\ lock[s] = "none" /\ guard # s
  BY NullIsApart
<1>3. dir \in onDisk /\ (strange \notin ForeignKinds => onDisk \subseteq OwnArtifacts)
  <2>1. strange \in ForeignKinds \cup {"stray", Null} BY StoresAssumption
  <2>2. Nothing \in OwnArtifacts BY DEF Nothing, OwnArtifacts
  <2>3. ASSUME strange \notin ForeignKinds PROVE Found(strange) = Nothing
    BY <2>3 DEF Found, ForeignKinds
  <2> QED BY <2>1, <2>2, <2>3
<1>4. OpeningTypeOK
  BY <1>1, <1>3, StoresAssumption DEF OpeningTypeOK, Places
<1>5. PlaceFacts /\ ExclusionFacts /\ JournalFacts /\ JudgedFacts
  <2>1. PlaceFacts
    BY <1>2, NullIsApart DEF PlaceFacts, PlaceOf, Underway, Reclaiming, Recovering, Checking, Connected
  <2>2. ExclusionFacts /\ JournalFacts /\ JudgedFacts
    BY <1>1, <1>2 DEF ExclusionFacts, JournalFacts, JournalOf, JudgedFacts, JudgedAt, Connected
  <2> QED BY <2>1, <2>2
<1>6. \A s \in Stores : ArtifactsAt(s) /\ SyncedAt(s)
  BY <1>2, Elsewhere DEF Underway, Reclaiming, Recovering, Checking, Connected
<1>7. strange \notin ForeignKinds => dir.slot = Null
  BY DEF Found, Nothing, ForeignKinds
<1>8. OrderedFacts /\ SyncedFacts
  BY <1>6, <1>7 DEF OrderedFacts, SyncedFacts, Allows, SameClaim, SameSlot
<1>9. ForeignFacts /\ ArtifactFacts /\ CommittedSurvives /\ NeverStranded
  BY <1>1, <1>2, <1>6, NullIsApart DEF ForeignFacts, ArtifactFacts, CommittedSurvives, NeverStranded, Refusals
<1> QED BY <1>4, <1>5, <1>8, <1>9 DEF OpeningIInv

\* And nothing happens when nothing happens.
LEMMA StutteringKeepsOpening ==
  ASSUME OpeningIInv, UNCHANGED openingVars
  PROVE  OpeningIInv'
<1>1. OpeningTypeOK' /\ PlaceFacts' /\ ExclusionFacts' /\ JournalFacts' /\ JudgedFacts' /\ CommittedSurvives' /\ NeverStranded'
  BY DEF OpeningIInv, openingVars, OpeningTypeOK, PlaceFacts, PlaceOf, ExclusionFacts, JournalFacts, JournalOf, JudgedFacts,
         JudgedAt, CommittedSurvives, Logical, NeverStranded
<1>2. ArtifactFacts' /\ ForeignFacts' /\ OrderedFacts' /\ SyncedFacts'
  BY DEF OpeningIInv, openingVars, ArtifactFacts, ArtifactsAt, ForeignFacts, OrderedFacts, SyncedFacts, SyncedAt, SameClaim, SameSlot
<1> QED BY <1>1, <1>2 DEF OpeningIInv

\* The invariant of the opening, over every step, crash and loss of power.
THEOREM OpeningIsInductive == OpeningSpec => []OpeningIInv
<1>1. OpeningInit => OpeningIInv
  BY OpeningStarts
<1>2. OpeningIInv /\ [OpeningNext]_openingVars => OpeningIInv'
  BY StepsKeepOpening, CrashKeepsOpening, PowerLossKeepsOpening, StutteringKeepsOpening DEF OpeningNext
<1> QED BY <1>1, <1>2, PTL DEF OpeningSpec

\* The files, the artifacts and the openings keep their types.
THEOREM OpeningTypeCorrect == OpeningSpec => []OpeningTypeOK
<1>1. OpeningIInv => OpeningTypeOK
  BY DEF OpeningIInv
<1> QED BY <1>1, OpeningIsInductive, PTL

\* A set of writers in which each excludes the others has at most one element.
LEMMA WriterIsOne ==
  ASSUME OpeningIInv
  PROVE  OneWriter
<1>1. IsFiniteSet(Writers)
  BY StoresAssumption, FS_Subset DEF Writers
<1>2. CASE Writers = {}
  BY <1>2, FS_EmptySet DEF OneWriter
<1>3. CASE Writers # {}
  <2>1. PICK s \in Stores : lock[s] = "write" BY <1>3 DEF Writers
  <2>2. Writers = {s} BY <2>1 DEF OpeningIInv, ExclusionFacts, Writers
  <2> QED BY <2>2, FS_Singleton DEF OneWriter
<1> QED BY <1>2, <1>3

\* The inductive invariant says all that StoreIsSafe says.
LEMMA InvariantIsSafe ==
  ASSUME OpeningIInv
  PROVE  StoreIsSafe
<1>0. OpeningTypeOK /\ PlaceFacts /\ ExclusionFacts /\ JudgedFacts /\ ForeignFacts /\ CommittedSurvives /\ NeverStranded
  BY DEF OpeningIInv
<1>1. RollsBackAlone
  BY <1>0 DEF RollsBackAlone, PlaceFacts, PlaceOf, ExclusionFacts, Recovering
<1>2. GuardIsReleased
  BY <1>0 DEF OpeningTypeOK, GuardIsReleased, PlaceFacts, PlaceOf, Underway, Reclaiming, Recovering, Checking, Connected
<1>3. NotUnderstoodIsUntouched
  BY <1>0 DEF NotUnderstoodIsUntouched, JudgedFacts, JudgedAt, Connected, CommittedSurvives
<1>4. ForeignIsKept
  <2> SUFFICES ASSUME strange \in ForeignKinds PROVE ForeignIsKept
    BY DEF ForeignIsKept, ForeignKinds
  <2>1. dir = Found(strange)
    BY <1>0 DEF ForeignFacts, OpeningTypeOK
  <2> USE NullIsApart DEF Found, Nothing, StrangeClaims, StrangeSlots
  <2>2. /\ [id |-> 0, entries |-> {"other"}] \in StrangeSlots /\ [id |-> 0, entries |-> {"database", "other"}] \in StrangeSlots
        /\ [id |-> 0, entries |-> {"database"}] \in StrangeSlots /\ [kind |-> "unknown", id |-> 0] \in StrangeClaims
    OBVIOUS
  <2>3. CASE strange = "slot" BY <2>1, <2>2, <2>3 DEF ForeignIsKept
  <2>4. CASE strange = "contents" BY <2>1, <2>2, <2>4 DEF ForeignIsKept
  <2>5. CASE strange = "moved" BY <2>1, <2>2, <2>5 DEF ForeignIsKept
  <2>6. CASE strange = "claim" BY <2>1, <2>2, <2>6 DEF ForeignIsKept
  <2> QED BY <2>3, <2>4, <2>5, <2>6 DEF ForeignKinds
<1> QED BY <1>0, <1>1, <1>2, <1>3, <1>4, WriterIsOne DEF StoreIsSafe

\* _open_store and _inspect_interrupted_store: for any number of store objects, processes, faults and artifacts left by others,

\* what was committed survives, a store is rolled back alone, and what the program does not understand stays untouched.
THEOREM StoreStaysSafe == OpeningSpec => []StoreIsSafe
<1>1. OpeningIInv => StoreIsSafe
  BY InvariantIsSafe
<1> QED BY <1>1, OpeningIsInductive, PTL
=============================================================================
