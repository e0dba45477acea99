-------------------------- MODULE WorkerLocalStore --------------------------
(***************************************************************************)
(* The device's own state (worker_local_store.py, worker_ca_trust.py and    *)
(* the pair and run commands of worker_client.py): one identity row and one *)
(* private-CA row in a shared database, read and written by commands that    *)
(* run beside each other, and the lock that admits one runner.               *)
(*                                                                         *)
(* An identity is its number, in the order of pairing, and its origin.       *)
(***************************************************************************)
EXTENDS Naturals, FiniteSets

CONSTANTS
    Commands,   \* the command processes
    Origins,    \* canonical server origins: [name, tls]
    CaPaths,    \* paths of CA files
    Materials,  \* what a CA file may hold
    LockPaths,  \* where the lock file may lie
    MaxPairings,
    MaxTampers, \* changes to the files and rows from outside
    NoRow,      \* an absent row, no CA file
    Corrupt     \* a row that does not decode

\* The absent row is none of the rows a pairing writes, nor a command.
ASSUME LocalStoreAssumption ==
    /\ MaxPairings \in Nat
    /\ NoRow \notin Commands
    /\ \A i \in 1..MaxPairings, o \in Origins : [id |-> i, origin |-> o] \notin {NoRow, Corrupt}

VARIABLES
    idRow,     \* the identity row: NoRow, Corrupt or [id, origin]
    trust,     \* the CA row: NoRow or [origin, path]
    files,     \* what each CA path holds now
    holder,    \* the command that holds the lock
    command,   \* per command: where it stands and what it has read
    pairings,  \* pairings so far
    tampers,
    offered,   \* history: the CA paths given by the last pairing and by runs that read its identity
    strayed    \* history: the CA paths given by runs that found their identity gone when they read it again

storeVars == <<idRow, trust, files, holder, command, pairings, tampers, offered, strayed>>

Idle == [at |-> "idle", origin |-> NoRow, ca |-> NoRow, pending |-> FALSE, expected |-> NoRow, held |-> NoRow]

\* A certificates-only PEM file, regular, within the bound, every block parsing, nothing outside the blocks.
CaMaterial(m) == m.regular /\ m.bounded /\ m.content = "certificates"

StoreInit ==
    /\ idRow = NoRow /\ trust = NoRow
    /\ files \in [CaPaths -> {m \in Materials : CaMaterial(m)}]
    /\ holder = NoRow
    /\ command = [c \in Commands |-> Idle]
    /\ pairings = 0 /\ tampers = 0 /\ offered = {} /\ strayed = {}

\* Plaintext origins are for loopback only; the parser refuses the rest before anything is stored.
OriginAccepted(o) == o.tls \/ o.loopback

\* The lock file is opened below a directory of its own, through no link, and is a regular file.
LockOpensPosix(l) == l.entry \in {"absent", "regular"}
LockOpensWindows(l) == l.place = "dedicated" /\ l.entry \in {"absent", "regular"}
LockOpens(l) == IF l.windows THEN LockOpensWindows(l) ELSE LockOpensPosix(l)

Decodes == idRow # NoRow /\ idRow # Corrupt

-----------------------------------------------------------------------------
(* Pairing. *)

\* Without a CA of its own a pairing keeps the stored one only for the origin it was stored for.
SavedTrustKept(o, ca) == IF ca # NoRow THEN [origin |-> o, path |-> ca] ELSE trust
SavedTrust(o, ca) ==
    IF ca # NoRow THEN [origin |-> o, path |-> ca]
    ELSE IF Decodes /\ idRow.origin = o THEN trust
    ELSE NoRow

\* The server answered with an identity; one transaction stores it and settles the CA row.
Pair(c) ==
    /\ command[c].at = "idle" /\ pairings < MaxPairings
    /\ \E o \in Origins, ca \in CaPaths \union {NoRow} :
          /\ OriginAccepted(o)
          /\ ca # NoRow => o.tls /\ CaMaterial(files[ca])
          /\ idRow' = [id |-> pairings + 1, origin |-> o]
          /\ trust' = SavedTrust(o, ca)
          /\ offered' = IF ca # NoRow THEN {ca} ELSE IF trust' # NoRow THEN {trust'.path} ELSE {}
    /\ pairings' = pairings + 1
    /\ UNCHANGED <<files, holder, command, tampers, strayed>>

\* clear_identity takes both rows.
Unpair(c) ==
    /\ command[c].at = "idle" /\ idRow # NoRow
    /\ idRow' = NoRow /\ trust' = NoRow /\ offered' = {}
    /\ UNCHANGED <<files, holder, command, pairings, tampers, strayed>>

-----------------------------------------------------------------------------
(* Running. *)

\* The stored CA speaks for the origin asked for only if the identity is of that origin as well.
StoredCa(o) == IF trust # NoRow /\ Decodes /\ idRow.origin = o /\ trust.origin = o THEN trust.path ELSE NoRow

\* resolve_run_trust: the origin, the CA to connect with, and whether an explicit one is to be stored once it has proved itself.
Resolve(c) ==
    /\ command[c].at = "idle"
    /\ \E o \in Origins, ca \in CaPaths \union {NoRow} :
          /\ o \in {p \in Origins : OriginAccepted(p)}
          /\ ca # NoRow => CaMaterial(files[ca])
          /\ command' = [command EXCEPT ![c] = [Idle EXCEPT !.at = "resolved", !.origin = o,
                !.ca = IF ca # NoRow THEN ca ELSE StoredCa(o),
                !.pending = (ca # NoRow /\ Decodes /\ idRow.origin = o)]]
    /\ idRow # Corrupt      \* a corrupt identity ends the command here
    /\ UNCHANGED <<idRow, trust, files, holder, pairings, tampers, offered, strayed>>

\* The identity an explicit CA will be stored for is read in a second transaction, when there may be none any more.
Expect(c) ==
    /\ command[c].at = "resolved" /\ idRow # Corrupt
    /\ command' = [command EXCEPT ![c].at = "ready", ![c].expected = IF command[c].pending THEN idRow ELSE NoRow]
    /\ offered' = IF command[c].pending /\ idRow # NoRow THEN offered \union {command[c].ca} ELSE offered
    /\ strayed' = IF command[c].pending /\ idRow = NoRow THEN strayed \union {command[c].ca} ELSE strayed
    /\ UNCHANGED <<idRow, trust, files, holder, pairings, tampers>>

LockIgnored == TRUE
LockIsFree == holder = NoRow

AcquireLock(c) ==
    /\ command[c].at = "ready"
    /\ \E l \in LockPaths :
          \/ /\ LockOpens(l) /\ LockIsFree
             /\ holder' = c
             /\ command' = [command EXCEPT ![c].at = "starting"]
          \/ /\ ~LockOpens(l) \/ ~LockIsFree
             /\ command' = [command EXCEPT ![c] = Idle]
             /\ UNCHANGED holder
    /\ UNCHANGED <<idRow, trust, files, pairings, tampers, offered, strayed>>

\* run() reads the identity again and never sends a credential to an origin it was not issued for.
MayPresentAnywhere(c) == TRUE
MayPresent(c) == idRow.origin = command[c].origin

StartWorker(c) ==
    /\ command[c].at = "starting"
    /\ IF Decodes /\ MayPresent(c)
       THEN command' = [command EXCEPT ![c].at = "running", ![c].held = idRow] /\ UNCHANGED holder
       ELSE command' = [command EXCEPT ![c] = Idle] /\ holder' = NoRow
    /\ UNCHANGED <<idRow, trust, files, pairings, tampers, offered, strayed>>

\* Every connect reads the CA file afresh; one that is no longer a CA file ends the attempt, not the command.
Connects(c) == command[c].ca # NoRow => command[c].origin.tls /\ CaMaterial(files[command[c].ca])

\* The identity that is stored now must be of the run's origin and, to the letter, the one the run read, if it read one: a run that found
\* none has nothing to compare with.
TrustStillFits(c) == Decodes /\ idRow.origin = command[c].origin
TrustStillApplies(c) == Decodes /\ idRow.origin = command[c].origin /\ command[c].expected \in {NoRow, idRow}

\* The first accepted session stores the CA it was verified with; a refusal is only noted.
Accepted(c) ==
    /\ command[c].at = "running" /\ Connects(c)
    /\ command' = [command EXCEPT ![c].at = "serving"]
    /\ trust' = IF command[c].pending /\ TrustStillApplies(c) THEN [origin |-> command[c].origin, path |-> command[c].ca] ELSE trust
    /\ UNCHANGED <<idRow, files, holder, pairings, tampers, offered, strayed>>

\* The command stops or dies; the lock goes with it.
Leaves(c) ==
    /\ command[c].at \in {"ready", "starting", "running", "serving"}
    /\ command' = [command EXCEPT ![c] = Idle]
    /\ holder' = IF holder = c THEN NoRow ELSE holder
    /\ UNCHANGED <<idRow, trust, files, pairings, tampers, offered, strayed>>

\* A CA file is replaced, or the identity row is damaged.
Tamper ==
    /\ tampers < MaxTampers
    /\ tampers' = tampers + 1
    /\ \/ \E p \in CaPaths : \E m \in Materials \ {files[p]} : files' = [files EXCEPT ![p] = m] /\ UNCHANGED idRow
       \/ Decodes /\ idRow' = Corrupt /\ UNCHANGED files
    /\ UNCHANGED <<trust, holder, command, pairings, offered, strayed>>

StoreNext ==
    \/ \E c \in Commands : Pair(c) \/ Unpair(c) \/ Resolve(c) \/ Expect(c) \/ AcquireLock(c) \/ StartWorker(c) \/ Accepted(c) \/ Leaves(c)
    \/ Tamper

StoreSpec == StoreInit /\ [][StoreNext]_storeVars

-----------------------------------------------------------------------------
(* Properties. *)

\* The stored private CA belongs to the origin of the stored identity, whichever commands raced to write the two rows.
TrustBelongsToIdentity == (trust # NoRow /\ Decodes) => trust.origin = idRow.origin

\* The stored CA is one the last pairing chose or kept, or one given to a run that started from that pairing's identity: a run that read
\* an older identity never overwrites it.  Only a run whose device was unpaired between its two reads does, whatever was paired since.
TrustIsCurrent == (trust # NoRow /\ Decodes) => trust.path \in offered \union strayed

\* What save_ca_trust says of itself: it fails closed if another pairing replaced the identity meanwhile.
NoPairingIsOverruled == (trust # NoRow /\ Decodes) => trust.path \in offered

\* A running command presents a credential only to the origin that issued it, although the device may have been paired
\* with another since the command resolved its origin.
CredentialStaysHome == \A c \in Commands : command[c].at \in {"running", "serving"} => command[c].held.origin = command[c].origin

\* One runner per state directory, and it holds the lock.
OneRunner == \A c \in Commands : command[c].at \in {"starting", "running", "serving"} => holder = c

\* The device's trust, its credential and its one runner.
DeviceTrustHolds == TrustBelongsToIdentity /\ TrustIsCurrent /\ CredentialStaysHome /\ OneRunner

-----------------------------------------------------------------------------
(* The inductive invariant. *)

Identities == [id : 1..MaxPairings, origin : Origins]
CommandRecords == [at : {"idle", "resolved", "ready", "starting", "running", "serving"},
                   origin : Origins \union {NoRow}, ca : CaPaths \union {NoRow}, pending : BOOLEAN,
                   expected : Identities \union {NoRow}, held : Identities \union {NoRow}]

\* The types of the rows, the files and the commands.
StoreTypeOK ==
    /\ idRow \in Identities \union {NoRow, Corrupt}
    /\ trust \in [origin : Origins, path : CaPaths] \union {NoRow}
    /\ holder \in Commands \union {NoRow}
    /\ command \in [Commands -> CommandRecords]
    /\ pairings \in 0..MaxPairings

\* Identities are numbered by the pairings that made them: a command never expects one that is still to come.
KnownIdentities ==
    /\ idRow \in Identities => idRow.id <= pairings
    /\ \A c \in Commands : command[c].expected \in Identities => command[c].expected.id <= pairings

\* A command that is to store its CA for the identity that is there has offered it; one that found no identity has strayed.
PendingFacts ==
    \A c \in Commands :
        /\ command[c].pending => command[c].ca # NoRow
        /\ (command[c].at \in {"ready", "starting", "running", "serving"} /\ command[c].pending
            /\ Decodes /\ command[c].expected = idRow) => command[c].ca \in offered
        /\ (command[c].at \in {"ready", "starting", "running", "serving"} /\ command[c].pending
            /\ command[c].expected = NoRow) => command[c].ca \in strayed

StoreIInv ==
    /\ StoreTypeOK /\ KnownIdentities /\ PendingFacts
    /\ TrustBelongsToIdentity /\ TrustIsCurrent /\ CredentialStaysHome /\ OneRunner

=============================================================================
