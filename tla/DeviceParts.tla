---------------------------- MODULE DeviceParts ----------------------------
(***************************************************************************)
(* The parts of a device that share no state: its store, its connection to *)
(* the server, a Codex turn, an attempt of another adapter, and the        *)
(* reports.  A behaviour of the run is a behaviour of one of them, the     *)
(* others staying as they were started: scene says which.                  *)
(***************************************************************************)
EXTENDS WorkerLocalStore, WorkerWire, LocalAdapters

VARIABLE scene

vars == <<storeVars, wireVars, localVars, scene>>

Scenes == {"device", "wire", "turn", "task", "report"}

\* What a part begins with is chosen only for the part that moves.
Init ==
    /\ scene \in Scenes
    /\ StoreInit
    /\ scene # "device" => files = CHOOSE f \in [CaPaths -> {m \in Materials : CaMaterial(m)}] : TRUE
    /\ WireInit
    /\ scene # "wire" => own = TRUE
    /\ IF scene = "task" THEN LocalInit ELSE TurnInit
    /\ scene \notin {"turn", "task"} => adapterCall = CHOOSE c \in CodexCalls : TRUE
    /\ scene # "turn" => table.configured
    /\ ReportInit

Next ==
    /\ UNCHANGED scene
    /\ \/ scene = "device" /\ StoreNext /\ UNCHANGED <<wireVars, localVars>>
       \/ scene = "wire" /\ WireNext /\ UNCHANGED <<storeVars, localVars>>
       \/ scene = "turn" /\ TurnNext /\ UNCHANGED <<told, planVars, reportVars, storeVars, wireVars>>
       \/ scene = "task" /\ LocalNext /\ UNCHANGED <<storeVars, wireVars>>
       \/ scene = "report" /\ ReportNext /\ UNCHANGED <<storeVars, wireVars>>

Spec == Init /\ [][Next]_vars
=============================================================================
