---------------------------- MODULE StoreOpening ----------------------------
(***************************************************************************)
(* Opening the server's one database: the recovery guard, the reclaiming   *)
(* of what an interrupted recovery left, the descriptor lease, the         *)
(* read-only preflight, the inspection of an interrupted transaction on a   *)
(* copy, its rollback, the leaving of WAL mode and the migrations, by       *)
(* several store objects in several operating-system processes, which may   *)
(* die, or lose power, between any two steps.                               *)
(***************************************************************************)
EXTENDS Naturals, FiniteSets

CONSTANTS
    Null,
    Stores,            \* store objects
    ProcessOf,         \* [Stores -> operating-system processes]
    Known,             \* [Stores -> Nat]: STORE_SCHEMA_VERSION of the store's program
    Contents,          \* what the database may hold at the start
    Strange,           \* what somebody else may have left in the directory, or Null
    Alien,             \* a schema that is not the program's
    MaxWrites,         \* transactions of open stores
    MaxFaults          \* crashes and power losses

Copies == {"database", "journal"}
ForeignKinds == {"slot", "contents", "moved", "claim"}
Content == [schema : Nat, doc : Nat]
Files == [pages : Content, journal : Content \cup {Null}, mode : {"delete", "wal"}]
RecoveryClaims == {[kind |-> "planned", id |-> 0], [kind |-> "owned", id |-> 1]}
Slots == [id : {1}, entries : SUBSET Copies]
StrangeClaims == [kind : {"owned", "unknown"}, id : {0, 99}]
StrangeSlots == [id : {0}, entries : SUBSET {"database", "other"}]
Refusals == {"busy", "administrator", "retry", "invalid", "future", "refused"}
Returns == {"acquire", "preflight", "fail"}

ASSUME StoresAssumption ==
    /\ IsFiniteSet(Stores)
    /\ Known \in [Stores -> Nat \ {0, Alien}]
    /\ Alien \in Nat
    /\ Contents \subseteq Content
    /\ Strange \subseteq ForeignKinds \cup {"stray", Null}
    /\ Null \notin Stores \cup Content \cup Files \cup ForeignKinds \cup {"stray"} \cup Refusals \cup Returns
    /\ Null \notin RecoveryClaims \cup Slots \cup StrangeClaims \cup StrangeSlots
    /\ MaxFaults \in Nat

VARIABLES
    db,         \* [pages, journal, mode]: the files
    committed,  \* what the last commit left: the reference
    dir,        \* [stage, claim, slot]: the recovery artifacts as the program sees them
    onDisk,     \* what they were at the last fsync of the directory, and since: what the disk may hold
    strange,    \* what was there that the program did not make
    guard,      \* the store that holds the recovery guard
    pc, ret, seen, err, lock,
    faults,     \* how many faults there were
    suffered    \* of which kinds

openingVars == <<db, committed, dir, onDisk, strange, guard, pc, ret, seen, err, lock, faults, suffered>>

TornPages == [schema |-> Alien, doc |-> 0]
Nothing == [stage |-> Null, claim |-> Null, slot |-> Null]

\* A journal is hot when no writer that made it is alive.
Writers == {s \in Stores : lock[s] = "write"}
Hot == db.journal # Null /\ Writers = {}

\* What a reader finds once a hot journal is rolled back.
Logical == IF db.journal # Null THEN db.journal ELSE db.pages

\* SQLite's locks exclude each other; the recovery lock, a record lock taken on the lease's
\* own descriptor, excludes only other processes.
Excluded(s, kinds) ==
    \E t \in Stores \ {s} :
        lock[t] \in kinds /\ (lock[t] = "recover" => ProcessOf[t] # ProcessOf[s])

\* applied_migration_versions with _validate_owned_schema: what the store's program accepts.
Verdict(s, content) ==
    IF content.schema = Alien THEN "invalid"
    ELSE IF content.schema > Known[s] THEN "future" ELSE "understood"

\* _database_lease_references.
LeaseReferences(s) ==
    Cardinality({t \in Stores : ProcessOf[t] = ProcessOf[s] /\ pc[t] \notin {"closed", "guard"} /\ ret[t] # "acquire"})

\* What somebody else left: a slot no claim vouches for, contents that are no copy, a slot that is not the claimed one, an unknown claim.
Found(what) ==
    CASE what = "slot" -> [Nothing EXCEPT !.slot = [id |-> 0, entries |-> {"other"}]]
      [] what = "contents" -> [Nothing EXCEPT !.claim = [kind |-> "owned", id |-> 0], !.slot = [id |-> 0, entries |-> {"database", "other"}]]
      [] what = "moved" -> [Nothing EXCEPT !.claim = [kind |-> "owned", id |-> 99], !.slot = [id |-> 0, entries |-> {"database"}]]
      [] what = "claim" -> [Nothing EXCEPT !.claim = [kind |-> "unknown", id |-> 0]]
      [] OTHER -> Nothing

OpeningInit ==
    /\ \E c \in Contents, mode \in {"delete", "wal"} :
          db = [pages |-> c, journal |-> Null, mode |-> mode]
    /\ committed = db.pages
    /\ strange \in Strange
    /\ dir = Found(strange) /\ onDisk = {dir}
    /\ guard = Null /\ faults = 0 /\ suffered = {}
    /\ pc = [s \in Stores |-> "closed"] /\ ret = [s \in Stores |-> Null]
    /\ seen = [s \in Stores |-> Null] /\ err = [s \in Stores |-> Null]
    /\ lock = [s \in Stores |-> "none"]

-----------------------------------------------------------------------------
\* A change of the directory, not yet on the disk.
Changed(new) == dir' = new /\ onDisk' = onDisk \cup {new}

Goto(s, place) == pc' = [pc EXCEPT ![s] = place]

KeepDir == UNCHANGED <<dir, onDisk>>
KeepDb == UNCHANGED <<db, committed>>
KeepOthers == UNCHANGED <<strange, faults, suffered>>

GuardKept(s) == guard

\* The guard is released whichever way the opening ends.
GuardAfter(s) == IF guard = s THEN Null ELSE guard

\* The end of an attempt: the connection, the lease, the locks and the guard are given up.
Failed(s, why) ==
    /\ Goto(s, "closed")
    /\ err' = [err EXCEPT ![s] = why]
    /\ lock' = [lock EXCEPT ![s] = "none"]
    /\ seen' = [seen EXCEPT ![s] = Null] /\ ret' = [ret EXCEPT ![s] = Null]
    /\ guard' = GuardAfter(s)

Going(s, place) == Goto(s, place) /\ UNCHANGED <<err, lock, seen, ret, guard>>

Begin(s) ==
    /\ pc[s] = "closed"
    /\ Goto(s, "guard") /\ err' = [err EXCEPT ![s] = Null]
    /\ KeepDir /\ KeepDb /\ KeepOthers /\ UNCHANGED <<guard, ret, seen, lock>>

\* _recovery_guard: the lock, or its deadline.
TakeGuard(s) ==
    /\ pc[s] = "guard" /\ guard = Null
    /\ guard' = s /\ ret' = [ret EXCEPT ![s] = "acquire"]
    /\ Goto(s, "reclaim")
    /\ KeepDir /\ KeepDb /\ KeepOthers /\ UNCHANGED <<err, seen, lock>>

GuardTimeout(s) ==
    /\ pc[s] = "guard" /\ guard # Null
    /\ Failed(s, "busy")
    /\ KeepDir /\ KeepDb /\ KeepOthers

\* Where a finished reclaiming returns to: the opening, or the second preflight, or the error.
Reclaimed(s) ==
    CASE ret[s] = "acquire" -> IF strange = "stray" THEN Failed(s, "administrator")
                               ELSE Goto(s, "acquire") /\ ret' = [ret EXCEPT ![s] = Null]
                                    /\ UNCHANGED <<err, lock, seen, guard>>
      [] ret[s] = "preflight" -> Goto(s, "again") /\ ret' = [ret EXCEPT ![s] = Null] /\ seen' = [seen EXCEPT ![s] = Null]
                                 /\ lock' = [lock EXCEPT ![s] = "none"] /\ UNCHANGED <<err, guard>>
      [] ret[s] = "fail" -> Failed(s, "retry")

VouchedByClaim(claim, slot) == claim.kind = "owned" => claim.id = slot.id

\* The contents a claim vouches for.
Vouched(claim, slot) ==
    /\ claim.kind = "owned" => claim.id = slot.id
    /\ slot.entries \subseteq (IF claim.kind = "planned" THEN {} ELSE Copies)

\* _reclaim_recovery_slot, first half: the staged claim goes; a slot without a claim, an unknown
\* claim and contents no claim vouches for are the administrator's.
Reclaim(s) ==
    /\ pc[s] = "reclaim"
    /\ KeepDb /\ KeepOthers
    /\ IF dir.stage # Null THEN Changed([dir EXCEPT !.stage = Null]) /\ Going(s, "reclaim")
       ELSE /\ KeepDir
            /\ IF dir.claim = Null
               THEN IF dir.slot # Null THEN Failed(s, "administrator") ELSE Reclaimed(s)
               ELSE IF dir.claim.kind = "unknown" \/ (dir.slot # Null /\ ~Vouched(dir.claim, dir.slot))
               THEN Failed(s, "administrator")
               ELSE Going(s, IF dir.slot = Null THEN "unclaim" ELSE "empty")

\* The entries go one by one, then the slot, and only when that is on the disk the claim.
EmptySlot(s) ==
    /\ pc[s] = "empty"
    /\ KeepDb /\ KeepOthers
    /\ \/ \E e \in dir.slot.entries :
             Changed([dir EXCEPT !.slot.entries = @ \ {e}]) /\ Going(s, "empty")
       \/ dir.slot.entries = {} /\ KeepDir /\ Going(s, "rmdir")

RemoveSlotUnsynced(s) ==
    /\ pc[s] = "rmdir"
    /\ Changed([dir EXCEPT !.slot = Null]) /\ Going(s, "unclaim")
    /\ KeepDb /\ KeepOthers

RemoveSlot(s) ==
    /\ pc[s] = "rmdir"
    /\ Changed([dir EXCEPT !.slot = Null]) /\ Going(s, "removed")
    /\ KeepDb /\ KeepOthers

RemoveClaim(s) ==
    /\ pc[s] = "unclaim"
    /\ Changed([dir EXCEPT !.claim = Null]) /\ Going(s, "unclaimed")
    /\ KeepDb /\ KeepOthers

\* _sync_recovery_directory, after each of the updates that must be on the disk before the next.
SyncDirectory(s) ==
    /\ pc[s] \in {"removed", "unclaimed", "plan published", "made", "claim published"}
    /\ onDisk' = {dir} /\ UNCHANGED dir
    /\ CASE pc[s] = "removed" -> Going(s, "unclaim")
         [] pc[s] = "unclaimed" -> Reclaimed(s)
         [] pc[s] = "plan published" -> Going(s, "mkdir")
         [] pc[s] = "made" -> Going(s, "own")
         [] pc[s] = "claim published" -> Going(s, "copy")
    /\ KeepDb /\ KeepOthers

\* _acquire_database_descriptor: the file exists from here on.
Acquire(s) ==
    /\ pc[s] = "acquire"
    /\ Going(s, "preflight")
    /\ KeepDir /\ KeepDb /\ KeepOthers

\* The read-only preflight of _open_store, and the one repeated after a recovery.
Preflight(s) ==
    /\ pc[s] \in {"preflight", "again"}
    /\ IF Excluded(s, {"write", "recover"}) THEN Failed(s, "busy")
       ELSE IF Hot THEN IF pc[s] = "again" THEN Failed(s, "retry") ELSE Going(s, "inspect")
       ELSE IF Verdict(s, Logical) # "understood" THEN Failed(s, Verdict(s, Logical))
       ELSE Going(s, "connect")
    /\ KeepDir /\ KeepDb /\ KeepOthers

-----------------------------------------------------------------------------
MayRecoverShared(s) == ~Excluded(s, {"read", "write", "recover"})

\* _interrupted_store_lock: alone in this process, and no lock of another.
MayRecover(s) == LeaseReferences(s) = 1 /\ ~Excluded(s, {"read", "write", "recover"})

Inspect(s) ==
    /\ pc[s] = "inspect"
    /\ IF MayRecover(s)
       THEN Goto(s, "plan") /\ lock' = [lock EXCEPT ![s] = "recover"] /\ UNCHANGED <<err, seen, ret, guard>>
       ELSE Failed(s, "refused")
    /\ KeepDir /\ KeepDb /\ KeepOthers

Claim(s) == IF pc[s] \in {"plan", "planned"} THEN [kind |-> "planned", id |-> 0]
            ELSE [kind |-> "owned", id |-> dir.slot.id]

\* _write_recovery_claim: staged and flushed, then renamed over the claim.
StageClaim(s) ==
    /\ pc[s] \in {"plan", "own"}
    /\ Changed([dir EXCEPT !.stage = Claim(s)])
    /\ Going(s, IF pc[s] = "plan" THEN "planned" ELSE "owned")
    /\ KeepDb /\ KeepOthers

PublishClaim(s) ==
    /\ pc[s] \in {"planned", "owned"}
    /\ Changed([dir EXCEPT !.stage = Null, !.claim = dir.stage])
    /\ Going(s, IF pc[s] = "planned" THEN "plan published" ELSE "claim published")
    /\ KeepDb /\ KeepOthers

\* _recovery_slot: the directory, on the disk before it is claimed. A removed slot's identity may be
\* the next one's.
MakeSlot(s) ==
    /\ pc[s] = "mkdir"
    /\ Changed([dir EXCEPT !.slot = [id |-> 1, entries |-> {}]]) /\ Going(s, "made")
    /\ KeepDb /\ KeepOthers

\* An error inside the slot's context: it is reclaimed on the way out.
Leave(s, where) == Goto(s, "reclaim") /\ ret' = [ret EXCEPT ![s] = where] /\ UNCHANGED <<err, lock, seen, guard>>

\* _inspect_interrupted_store: the identities are taken, the files copied.
CopyFiles(s) ==
    /\ pc[s] = "copy"
    /\ KeepDb /\ KeepOthers
    /\ IF db.journal = Null \/ (seen[s] # Null /\ seen[s] # db) THEN KeepDir /\ Leave(s, "fail")
       ELSE IF dir.slot.entries = Copies THEN KeepDir /\ Going(s, "validate")
       ELSE /\ \E e \in Copies \ dir.slot.entries : Changed([dir EXCEPT !.slot.entries = @ \cup {e}])
            /\ seen' = [seen EXCEPT ![s] = db]
            /\ UNCHANGED <<pc, err, lock, ret, guard>>

ValidateNothing(s) ==
    /\ pc[s] = "validate"
    /\ IF seen[s] = db THEN Going(s, "rollback") ELSE Leave(s, "fail")
    /\ KeepDir /\ KeepDb /\ KeepOthers

\* The copy is rolled back and judged before the store is.
Validate(s) ==
    /\ pc[s] = "validate"
    /\ IF Verdict(s, seen[s].journal) = "understood" /\ seen[s] = db THEN Going(s, "rollback") ELSE Leave(s, "fail")
    /\ KeepDir /\ KeepDb /\ KeepOthers

RollBackJournalFirst(s) ==
    /\ pc[s] = "rollback"
    /\ KeepDir /\ KeepOthers /\ UNCHANGED committed
    /\ IF db.journal = Null THEN UNCHANGED db /\ Leave(s, "preflight")
       ELSE db' = [db EXCEPT !.journal = Null] /\ Leave(s, "preflight")

\* The rollback on the real files, without SQLite's locks: the pages, then the journal.
RollBack(s) ==
    /\ pc[s] = "rollback"
    /\ KeepDir /\ KeepOthers /\ UNCHANGED committed
    /\ IF db.journal = Null THEN UNCHANGED db /\ Leave(s, "preflight")
       ELSE IF db.pages # db.journal
       THEN db' = [db EXCEPT !.pages = db.journal] /\ Going(s, "rollback")
       ELSE db' = [db EXCEPT !.journal = Null] /\ Leave(s, "preflight")

-----------------------------------------------------------------------------
\* The writable connection and its first read.
Connect(s) ==
    /\ pc[s] = "connect"
    /\ KeepDir /\ KeepDb /\ KeepOthers
    /\ IF Excluded(s, {"write", "recover"}) \/ Hot THEN Failed(s, "busy")
       ELSE IF Verdict(s, Logical) # "understood" THEN Failed(s, Verdict(s, Logical))
       ELSE Goto(s, "convert") /\ lock' = [lock EXCEPT ![s] = "read"] /\ UNCHANGED <<err, seen, ret, guard>>

\* A store of an earlier release leaves WAL mode under an exclusive lock.
Convert(s) ==
    /\ pc[s] = "convert"
    /\ KeepDir /\ KeepOthers /\ UNCHANGED committed
    /\ IF db.mode = "delete" THEN UNCHANGED db /\ Going(s, "migrate")
       ELSE IF Excluded(s, {"read", "write", "recover"}) THEN UNCHANGED db /\ Failed(s, "busy")
       ELSE db' = [db EXCEPT !.mode = "delete"] /\ Going(s, "migrate")

\* _apply_pending_migrations inside the opening transaction; an opening that does not migrate skips it.
Migrate(s) ==
    /\ pc[s] = "migrate"
    /\ KeepDir /\ KeepOthers /\ UNCHANGED committed
    /\ \/ /\ UNCHANGED db
          /\ Goto(s, "finish") /\ UNCHANGED <<err, lock, seen, ret, guard>>
       \/ /\ db.pages.schema < Known[s]
          /\ IF Excluded(s, {"read", "write", "recover"}) THEN UNCHANGED db /\ Failed(s, "busy")
             ELSE /\ db' = [db EXCEPT !.journal = db.pages, !.pages = TornPages]
                  /\ Goto(s, "migrating") /\ lock' = [lock EXCEPT ![s] = "write"] /\ UNCHANGED <<err, seen, ret, guard>>

\* What the migrations make of the content.
Migrated(s) == [db.journal EXCEPT !.schema = Known[s]]

CommitMigration(s) ==
    /\ pc[s] = "migrating"
    /\ committed' = Migrated(s)
    /\ db' = [db EXCEPT !.pages = committed', !.journal = Null]
    /\ Going(s, "finish")
    /\ KeepDir /\ KeepOthers

\* The store is open: the opening transaction ends, the guard is released.
Opened(s) ==
    /\ pc[s] = "finish"
    /\ Goto(s, "open") /\ lock' = [lock EXCEPT ![s] = "none"]
    /\ guard' = Null
    /\ KeepDir /\ KeepDb /\ KeepOthers /\ UNCHANGED <<err, seen, ret>>

-----------------------------------------------------------------------------
MayWriteAnyway(s) == TRUE

\* SQLite's exclusive lock for a transaction.
MayWrite(s) == ~Excluded(s, {"read", "write", "recover"})

\* An open store's transaction; a hot journal it meets is rolled back by SQLite itself.
Transact(s) ==
    /\ pc[s] = "open" /\ lock[s] = "none" /\ db.mode = "delete"
    /\ MayWrite(s)
    /\ IF Hot THEN db' = [db EXCEPT !.pages = db.journal, !.journal = Null] /\ UNCHANGED lock
       ELSE /\ db.pages.doc < MaxWrites
            /\ db' = [db EXCEPT !.journal = db.pages, !.pages = TornPages]
            /\ lock' = [lock EXCEPT ![s] = "write"]
    /\ KeepDir /\ KeepOthers /\ UNCHANGED <<committed, pc, err, seen, ret, guard>>

Commit(s) ==
    /\ pc[s] = "open" /\ lock[s] = "write"
    /\ committed' = [db.journal EXCEPT !.doc = @ + 1]
    /\ db' = [db EXCEPT !.pages = committed', !.journal = Null]
    /\ lock' = [lock EXCEPT ![s] = "none"]
    /\ KeepDir /\ KeepOthers /\ UNCHANGED <<pc, err, seen, ret, guard>>

\* close: the connection, then the lease.
Close(s) ==
    /\ pc[s] = "open" /\ lock[s] = "none"
    /\ Goto(s, "closed")
    /\ KeepDir /\ KeepDb /\ KeepOthers /\ UNCHANGED <<err, seen, ret, lock, guard>>

Stopped(dying) ==
    /\ pc' = [s \in Stores |-> IF s \in dying THEN "closed" ELSE pc[s]]
    /\ lock' = [s \in Stores |-> IF s \in dying THEN "none" ELSE lock[s]]
    /\ ret' = [s \in Stores |-> IF s \in dying THEN Null ELSE ret[s]]
    /\ seen' = [s \in Stores |-> IF s \in dying THEN Null ELSE seen[s]]
    /\ err' = [s \in Stores |-> IF s \in dying THEN Null ELSE err[s]]
    /\ guard' = IF guard \in dying THEN Null ELSE guard

\* A process dies: its locks and descriptors go with it, the files stay as they are.
Crash(process) ==
    /\ faults < MaxFaults /\ faults' = faults + 1 /\ suffered' = suffered \cup {"crash"}
    /\ Stopped({s \in Stores : ProcessOf[s] = process})
    /\ KeepDb /\ KeepDir /\ UNCHANGED strange

\* The machine loses power. A file system that keeps the order of a directory's updates loses the
\* last of those that are not synced; another keeps of each entry whichever it likes.
PowerLoss ==
    /\ faults < MaxFaults /\ faults' = faults + 1
    /\ Stopped(Stores)
    /\ \E stage, claim, slot \in onDisk :
          /\ dir' = [stage |-> stage.stage, claim |-> claim.claim, slot |-> slot.slot]
          /\ suffered' = IF dir' \in onDisk THEN suffered ELSE suffered \cup {"reordering"}
    /\ onDisk' = {dir'}
    /\ KeepDb /\ UNCHANGED strange

OpeningStep(s) ==
    \/ Begin(s) \/ TakeGuard(s) \/ GuardTimeout(s)
    \/ Reclaim(s) \/ EmptySlot(s) \/ RemoveSlot(s) \/ RemoveClaim(s) \/ SyncDirectory(s)
    \/ Acquire(s) \/ Preflight(s) \/ Inspect(s) \/ StageClaim(s) \/ PublishClaim(s) \/ MakeSlot(s)
    \/ CopyFiles(s) \/ Validate(s) \/ RollBack(s)
    \/ Connect(s) \/ Convert(s) \/ Migrate(s) \/ CommitMigration(s) \/ Opened(s)
    \/ Transact(s) \/ Commit(s) \/ Close(s)

OpeningNext ==
    \/ \E s \in Stores : OpeningStep(s)
    \/ \E p \in {ProcessOf[s] : s \in Stores} : Crash(p)
    \/ PowerLoss

-----------------------------------------------------------------------------
(***************************************************************************)
(* Properties                                                              *)
(***************************************************************************)

OwnArtifacts == [stage : RecoveryClaims \cup {Null}, claim : RecoveryClaims \cup {Null}, slot : Slots \cup {Null}]

\* Where an opening may be: reclaiming, recovering an interrupted transaction, or elsewhere on its way.
Reclaiming == {"reclaim", "empty", "rmdir", "removed", "unclaim", "unclaimed"}
Recovering == {"plan", "planned", "plan published", "mkdir", "made", "own", "owned", "claim published", "copy", "validate", "rollback"}
Checking == {"acquire", "preflight", "again", "inspect", "connect"}
Connected == {"convert", "migrate", "migrating", "finish"}
Underway == Reclaiming \cup Recovering \cup Checking \cup Connected

\* The types of the files, the artifacts and the openings' places.
OpeningTypeOK ==
    /\ db \in Files /\ committed \in Content
    /\ strange \in ForeignKinds \cup {"stray", Null}
    /\ strange \notin ForeignKinds => onDisk \subseteq OwnArtifacts
    /\ dir \in onDisk
    /\ pc \in [Stores -> Underway \cup {"closed", "guard", "open"}]
    /\ lock \in [Stores -> {"none", "read", "write", "recover"}]
    /\ ret \in [Stores -> Returns \cup {Null}]
    /\ seen \in [Stores -> Files \cup {Null}]
    /\ err \in [Stores -> Refusals \cup {Null}]
    /\ guard \in Stores \cup {Null}
    /\ faults \in 0..MaxFaults /\ suffered \subseteq {"crash", "reordering"}

\* _inspect_interrupted_store and SQLite's journal: whatever died and when, the store holds what
\* the last commit left, in its pages or in the journal that restores them.
CommittedSurvives == Logical = committed

\* _reclaim_recovery_slot and _recovery_slot: what the program's own interrupted recoveries leave
\* behind never needs an administrator, after crashes at any step and power losses that keep the
\* order of the updates, or after power losses that do not and no crash. (Both together may: a slot
\* removed before a crash is not synced before its claim is.)
NeverStranded ==
    strange = Null /\ ~({"crash", "reordering"} \subseteq suffered) => \A s \in Stores : err[s] # "administrator"

\* docs/machine-interfaces.md:711 of the recovery of an interrupted transaction: "not a repair/downgrade
\* engine or a new operator step".
NeedsNoOperator == strange = Null => \A s \in Stores : err[s] # "administrator"

\* _reclaim_recovery_slot removes nothing the program did not make.
ForeignIsKept ==
    /\ strange = "slot" => dir.slot = [id |-> 0, entries |-> {"other"}]
    /\ strange = "contents" => dir.slot # Null /\ dir.slot.id = 0 /\ "other" \in dir.slot.entries
    /\ strange = "moved" => dir.slot # Null /\ dir.slot.id = 0 /\ dir.slot.entries = {"database"}
    /\ strange = "claim" => dir.claim # Null /\ dir.claim.kind = "unknown"

\* SQLite's exclusive lock.
OneWriter == Cardinality(Writers) <= 1

\* _interrupted_store_lock: while a store is rolled back without SQLite's locks, no other store
\* object reads or writes it, in this process or in another.
RollsBackAlone ==
    \A s \in Stores : pc[s] = "rollback" =>
        \A t \in Stores \ {s} : lock[t] = "none" /\ (ProcessOf[t] = ProcessOf[s] => pc[t] # "open")

\* Validation before rollback and before every use: a store whose schema the program does not
\* understand, a later program's or nobody's, is never changed by it.
NotUnderstoodIsUntouched ==
    \A s \in Stores :
        pc[s] \in {"rollback", "convert", "migrate", "migrating", "finish"} =>
            Verdict(s, IF pc[s] = "rollback" THEN committed ELSE Logical) = "understood"

\* The recovery guard is held by an opening in progress, never left behind by a failed one.
GuardIsReleased == guard # Null => pc[guard] \notin {"closed", "guard", "open"}

\* The store keeps what was committed, alone with it while it is repaired, and touches nothing that it does not understand.
StoreIsSafe ==
    /\ OpeningTypeOK /\ CommittedSurvives /\ NeverStranded /\ OneWriter /\ RollsBackAlone /\ GuardIsReleased
    /\ ForeignIsKept /\ NotUnderstoodIsUntouched

-----------------------------------------------------------------------------
(***************************************************************************)
(* The inductive invariant                                                 *)
(***************************************************************************)

\* Where an opening is says what it holds: the guard, the lock and where the reclaiming returns to.
PlaceOf(s) ==
    /\ pc[s] \in Underway <=> guard = s
    /\ pc[s] \in Reclaiming <=> ret[s] # Null
    /\ lock[s] = "recover" <=> pc[s] \in Recovering \/ ret[s] \in {"preflight", "fail"}
    /\ lock[s] = "read" => pc[s] \in {"convert", "migrate", "finish"}
    /\ lock[s] = "write" => pc[s] \in {"migrating", "finish", "open"}
    /\ pc[s] \in Connected => lock[s] \in {"read", "write"}

PlaceFacts == \A s \in Stores : PlaceOf(s)

\* A writer is alone, and so is a recovery, in its process with the descriptor too.
ExclusionFacts ==
    \A s \in Stores : \A t \in Stores \ {s} :
        /\ lock[s] \in {"write", "recover"} => lock[t] = "none"
        /\ lock[s] = "recover" /\ ProcessOf[t] = ProcessOf[s] => pc[t] \in {"closed", "guard"}

\* The journal is a live writer's, or what a dead one left: nobody reads or converts the store then.
JournalOf(s) ==
    /\ lock[s] = "read" \/ pc[s] = "finish" => db.journal = Null
    /\ lock[s] = "write" /\ pc[s] # "finish" => db.journal # Null
    /\ seen[s] # Null => seen[s].journal # Null

JournalFacts == \A s \in Stores : JournalOf(s)

\* A store is judged before it is rolled back or used, and is the same then.
JudgedAt(s) == pc[s] \in Connected \cup {"rollback"} => Verdict(s, committed) = "understood"

JudgedFacts == \A s \in Stores : JudgedAt(s)

\* A claim allows a slot: none without a claim, an empty one under a plan.
Allows(claim, slot) == slot # Null => claim # Null /\ (claim.kind = "planned" => slot.entries = {})

\* What the artifacts are at each step of the recovery.
ArtifactsAt(s) ==
    /\ pc[s] \in {"empty", "rmdir"} => dir.claim # Null /\ dir.slot # Null /\ Allows(dir.claim, dir.slot)
    /\ pc[s] = "rmdir" => dir.slot.entries = {}
    /\ pc[s] \in {"removed", "unclaim", "unclaimed", "plan published", "mkdir", "plan", "planned"} \cup Checking => dir.slot = Null
    /\ pc[s] \in {"unclaimed", "plan", "planned"} \cup Checking => dir.claim = Null
    /\ pc[s] \in {"plan published", "mkdir", "made", "own", "owned"} => dir.claim # Null /\ dir.claim.kind = "planned"
    /\ pc[s] \in {"made", "own", "owned", "claim published", "copy", "validate", "rollback"} => dir.slot # Null
    /\ pc[s] \in {"made", "own", "owned", "claim published"} => dir.slot.entries = {}
    /\ pc[s] \in {"planned", "owned"} => dir.stage # Null
    /\ pc[s] = "planned" => dir.stage.kind = "planned"
    /\ pc[s] = "owned" => dir.stage.kind = "owned"
    /\ pc[s] \in {"claim published", "copy", "validate", "rollback"} => dir.claim # Null /\ dir.claim.kind = "owned"

ArtifactFacts == strange \notin ForeignKinds => \A s \in Stores : ArtifactsAt(s)

\* Nobody but the administrator's own artifacts stop an opening there, and those stay as they are.
ForeignFacts ==
    strange \in ForeignKinds =>
        /\ onDisk = {Found(strange)}
        /\ \A s \in Stores : pc[s] \in {"closed", "guard", "reclaim"} /\ (pc[s] = "reclaim" => ret[s] = "acquire")

\* As long as the updates keep their order, the disk holds an allowed slot in every one of its states.
OrderedFacts == strange \notin ForeignKinds /\ "reordering" \notin suffered => \A d \in onDisk : Allows(d.claim, d.slot)

SameClaim == \A d \in onDisk : d.claim = dir.claim
SameSlot == \A d \in onDisk : d.slot = dir.slot

\* Between two of the syncs only what may be lost in any order is not on the disk.
SyncedAt(s) ==
    /\ pc[s] \in Checking \cup Connected \cup {"plan", "planned", "mkdir", "own", "owned", "unclaim"} => SameSlot
    /\ pc[s] \in Checking \cup Connected \cup {"plan", "planned", "mkdir", "own", "owned", "reclaim", "copy", "validate", "rollback"} => SameClaim
    /\ pc[s] = "reclaim" /\ dir.slot = Null => SameSlot
    /\ pc[s] \in {"copy", "validate", "rollback"} => \A d \in onDisk : d.slot # Null

\* As long as no process dies, every claim the disk may hold allows every slot it may hold.
SyncedFacts ==
    strange \notin ForeignKinds /\ "crash" \notin suffered =>
        /\ \A d, e \in onDisk : Allows(d.claim, e.slot)
        /\ guard = Null => SameClaim /\ SameSlot
        /\ \A s \in Stores : SyncedAt(s)

OpeningIInv ==
    /\ OpeningTypeOK /\ PlaceFacts /\ ExclusionFacts /\ JournalFacts /\ JudgedFacts /\ ArtifactFacts
    /\ ForeignFacts /\ OrderedFacts /\ SyncedFacts /\ CommittedSurvives /\ NeverStranded

OpeningSpec == OpeningInit /\ [][OpeningNext]_openingVars
=============================================================================
