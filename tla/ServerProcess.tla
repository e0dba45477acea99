--------------------------- MODULE ServerProcess ---------------------------
(***************************************************************************)
(* The server process: start-up in steps that each may fail, the cleanup of *)
(* a failed start, the reload of both TLS contexts on SIGHUP, the liveness  *)
(* thread, and the orderly stop.                                            *)
(***************************************************************************)
EXTENDS Naturals, Sequences

CONSTANTS MaxHups, MaxCerts

VARIABLES phase, held, tls, certs, hup, reload
processVars == <<phase, held, tls, certs, hup, reload>>

\* What main acquires, in order: the stores, the control plane, the sockets, the liveness thread.
Steps == <<"store", "plane", "server", "listener", "reaper">>
Exited == Len(Steps) + 1

\* One step of the start: the context of the certificates of now comes with the sockets.
StartStep ==
    /\ phase \in 0..Len(Steps) - 1
    /\ phase' = phase + 1
    /\ held' = held \cup {Steps[phase + 1]}
    /\ tls' = IF Steps[phase + 1] = "server" THEN [tls EXCEPT !.http = certs.gen]
              ELSE IF Steps[phase + 1] = "listener" THEN [tls EXCEPT !.worker = certs.gen] ELSE tls
    /\ UNCHANGED <<certs, hup, reload>>

CleanupWithoutListener(h) == h \ {"reaper", "server", "plane", "store"}
\* The cleanup of a start that did not complete, and of the end of serving.
Cleanup(h) == h \ {"reaper", "listener", "server", "plane", "store"}

StartFails ==
    /\ phase \in 0..Len(Steps) - 1
    /\ phase' = Exited /\ held' = Cleanup(held)
    /\ UNCHANGED <<tls, certs, hup, reload>>

\* External: the administrator puts new certificates in place, and may leave a broken pair for a while.
Renew(ok) ==
    /\ certs.gen < MaxCerts /\ phase = Len(Steps)
    /\ certs' = [gen |-> certs.gen + 1, ok |-> ok]
    /\ UNCHANGED <<phase, held, tls, hup, reload>>

\* request_reload, in the signal handler: at any point of the main thread.
Hangup ==
    /\ phase = Len(Steps) /\ hup.requested < MaxHups
    /\ hup' = [hup EXCEPT !.requested = @ + 1, !.gen = certs.gen]
    /\ UNCHANGED <<phase, held, tls, certs, reload>>

\* perform_reload, from the maintenance hook of serve_forever: what is asked for is read first.
ReloadBegin ==
    /\ phase = Len(Steps) /\ reload.at = "no" /\ hup.requested # hup.processed
    /\ reload' = IF certs.ok THEN [at |-> "verified", requested |-> hup.requested, read |-> certs.gen, old |-> 0]
                 ELSE [at |-> "done", requested |-> hup.requested, read |-> certs.gen, old |-> 0]
    /\ UNCHANGED <<phase, held, tls, certs, hup>>

\* The HTTP listener takes the new context.
ReloadHttp ==
    /\ reload.at = "verified"
    /\ tls' = [tls EXCEPT !.http = reload.read]
    /\ reload' = [reload EXCEPT !.at = "http", !.old = tls.http]
    /\ UNCHANGED <<phase, held, certs, hup>>

KeepsNew(old, new) == new
\* When the worker listener refuses it, the HTTP listener gets the old one back.
PutsBack(old, new) == old

ReloadWorker(ok) ==
    /\ reload.at = "http"
    /\ tls' = IF ok THEN [tls EXCEPT !.worker = reload.read] ELSE [tls EXCEPT !.http = PutsBack(reload.old, reload.read)]
    /\ reload' = [reload EXCEPT !.at = "done"]
    /\ UNCHANGED <<phase, held, certs, hup>>

ProcessedAll(h, r) == [h EXCEPT !.processed = h.requested]
ProcessedNone(h, r) == h
\* Only what was asked for when the reload began is done.
Processed(h, r) == [h EXCEPT !.processed = r.requested]

ReloadEnd ==
    /\ reload.at = "done"
    /\ hup' = Processed(hup, reload)
    /\ reload' = [reload EXCEPT !.at = "no"]
    /\ UNCHANGED <<phase, held, tls, certs>>

Stop ==
    /\ phase = Len(Steps) /\ reload.at = "no"
    /\ phase' = Exited /\ held' = Cleanup(held)
    /\ UNCHANGED <<tls, certs, hup, reload>>

ProcessInit ==
    /\ phase = 0 /\ held = {} /\ tls = [http |-> 0, worker |-> 0]
    /\ certs = [gen |-> 1, ok |-> TRUE] /\ hup = [requested |-> 0, processed |-> 0, gen |-> 0]
    /\ reload = [at |-> "no", requested |-> 0, read |-> 0, old |-> 0]

Maintenance == ReloadBegin \/ ReloadHttp \/ (\E ok \in BOOLEAN : ReloadWorker(ok)) \/ ReloadEnd
ProcessNext == StartStep \/ StartFails \/ (\E ok \in BOOLEAN : Renew(ok)) \/ Hangup \/ Maintenance \/ Stop

ProcessSpec == ProcessInit /\ [][ProcessNext]_processVars

\* A process that did not start, or has stopped, holds nothing.
StoppedHoldsNothing == phase = Exited => held = {}

\* Between reloads both listeners serve the same certificates, also when one of them refused the new ones.
ContextsAgree == phase = Len(Steps) /\ reload.at = "no" => tls.http = tls.worker

\* Once every SIGHUP is accounted for, certificates at least as new as at the last of them were read: none
\* is lost to a reload already under way.
LastHupIsServed == hup.requested = hup.processed => reload.read >= hup.gen

\* Starts, stops and reloads leave nothing behind and nothing half done.
ReloadsAreWhole == StoppedHoldsNothing /\ ContextsAgree /\ LastHupIsServed

-----------------------------------------------------------------------------
(* The inductive invariant. *)

\* The types of the phases, the contexts, the files and the counters.
ProcessTypeOK ==
    /\ phase \in 0..6
    /\ held \subseteq {"store", "plane", "server", "listener", "reaper"}
    /\ tls \in [http : Nat, worker : Nat]
    /\ certs \in [gen : Nat, ok : BOOLEAN]
    /\ hup \in [requested : Nat, processed : Nat, gen : Nat]
    /\ reload \in [at : {"no", "verified", "http", "done"}, requested : Nat, read : Nat, old : Nat]

\* The contexts of a start are of the one pair of files that is there; a reload changes the HTTP listener's first, and
\* remembers what the other one still has.
ContextFacts ==
    /\ reload.at # "no" => phase = 5
    /\ phase \in {3, 4} => tls.http = certs.gen
    /\ phase = 4 => tls.worker = certs.gen
    /\ phase = 5 /\ reload.at \in {"no", "verified", "done"} => tls.http = tls.worker
    /\ reload.at = "http" => tls.http = reload.read /\ tls.worker = reload.old

\* A reload accounts for signals it has read the files after: what was asked for later stays asked for.
HupFacts ==
    /\ hup.gen <= certs.gen
    /\ hup.processed <= hup.requested
    /\ reload.at # "no" => hup.processed < reload.requested /\ reload.requested <= hup.requested
    /\ reload.at # "no" /\ reload.requested = hup.requested => reload.read >= hup.gen

ProcessIInv == ProcessTypeOK /\ ContextFacts /\ HupFacts /\ StoppedHoldsNothing /\ LastHupIsServed
=============================================================================
