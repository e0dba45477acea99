---------------------------- MODULE SeparateParts ----------------------------
(***************************************************************************)
(* Seven parts of the server that share no state: access to the control    *)
(* surface, the process's own life, the publication of model intelligence, *)
(* the opening of the database, the identities of the workers, an HTTP     *)
(* client's connection and a provider's endpoint.  A behaviour of the run  *)
(* is a behaviour of one of them, the others staying as they were started: *)
(* scene says which.                                                       *)
(***************************************************************************)
EXTENDS AdminAccess, ServerProcess, ModelIntelligence, StoreOpening, WorkerIdentityStore, Ingress, HttpAdapter

VARIABLE scene

insideVars == <<accessVars, processVars, miVars, openingVars, identityStoreVars>>
edgeVars == <<ingressVars, httpVars>>
vars == <<insideVars, edgeVars, scene>>

Scenes == {"access", "process", "intelligence", "opening", "identity", "ingress", "http"}

\* What a part begins with is chosen only for the part that moves.
Init ==
    /\ scene \in Scenes
    /\ AccessInit /\ ProcessInit /\ MiInit
    /\ OpeningInit
    /\ scene # "opening" => strange = Null /\ db.mode = "wal" /\ db.pages = [schema |-> 0, doc |-> 0]
    /\ IdentityInit
    /\ IngressInit /\ HttpInit

InsideMoves ==
    \/ scene = "access" /\ AccessNext /\ UNCHANGED <<processVars, miVars, openingVars, identityStoreVars>>
    \/ scene = "process" /\ ProcessNext /\ UNCHANGED <<accessVars, miVars, openingVars, identityStoreVars>>
    \/ scene = "intelligence" /\ MiNext /\ UNCHANGED <<accessVars, processVars, openingVars, identityStoreVars>>
    \/ scene = "opening" /\ OpeningNext /\ UNCHANGED <<accessVars, processVars, miVars, identityStoreVars>>
    \/ scene = "identity" /\ IdentityNext /\ UNCHANGED <<accessVars, processVars, miVars, openingVars>>

EdgeMoves ==
    \/ scene = "ingress" /\ IngressNext /\ UNCHANGED httpVars
    \/ scene = "http" /\ HttpNext /\ UNCHANGED ingressVars

Next ==
    /\ UNCHANGED scene
    /\ \/ InsideMoves /\ UNCHANGED edgeVars
       \/ EdgeMoves /\ UNCHANGED insideVars

\* serve_forever runs the maintenance hook between requests, as long as it serves.
Spec ==
    Init /\ [][Next]_vars
    /\ WF_vars(scene = "process" /\ Maintenance /\ UNCHANGED <<accessVars, miVars, openingVars, identityStoreVars, edgeVars, scene>>)

\* A SIGHUP received while the process goes on serving is served in the end (ReloadEnd comes for every ReloadBegin).
HupsAreServed == (phase = Len(Steps) /\ hup.requested # hup.processed) ~> (phase = Exited \/ hup.requested = hup.processed)
=============================================================================
