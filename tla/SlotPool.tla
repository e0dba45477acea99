------------------------------ MODULE SlotPool ------------------------------
(***************************************************************************)
(* What the gateway promises about concurrency (D-043), without threads,   *)
(* semaphores or locks: a pool admits a request in one step and only while *)
(* both of its bounds leave room, and a request that leaves frees its      *)
(* place. A pool's bounds are settled when it is opened.                   *)
(***************************************************************************)
EXTENDS Integers, FiniteSets

CONSTANTS Pools, Requests, Clients, NoClient, Limits

VARIABLES
    opened,  \* pools whose bounds are settled
    bounds,  \* the bounds of each pool
    owner,   \* the client that sent each request
    holders  \* the requests that hold a place in each pool

poolVars == <<opened, bounds, owner, holders>>

OfClient(h, c) == {r \in h : owner[r] = c}

Init ==
    /\ opened \subseteq Pools
    /\ bounds \in [Pools -> Limits]
    /\ owner = [r \in Requests |-> NoClient]
    /\ holders = [p \in Pools |-> {}]

Open(p, l) ==
    /\ p \notin opened
    /\ opened' = opened \cup {p}
    /\ bounds' = [bounds EXCEPT ![p] = l]
    /\ UNCHANGED <<owner, holders>>

\* A client sends a request, which holds no place yet.
Arrive(r, c) ==
    /\ \A p \in Pools : r \notin holders[p]
    /\ owner' = [owner EXCEPT ![r] = c]
    /\ UNCHANGED <<opened, bounds, holders>>

Enter(p, r) ==
    /\ p \in opened
    /\ Cardinality(holders[p]) < bounds[p].total
    /\ Cardinality(OfClient(holders[p], owner[r])) < bounds[p].perClient
    /\ holders' = [holders EXCEPT ![p] = @ \cup {r}]
    /\ UNCHANGED <<opened, bounds, owner>>

Leave(p, r) ==
    /\ r \in holders[p]
    /\ holders' = [holders EXCEPT ![p] = @ \ {r}]
    /\ UNCHANGED <<opened, bounds, owner>>

Next ==
    \/ \E p \in Pools, l \in Limits : Open(p, l)
    \/ \E r \in Requests, c \in Clients : Arrive(r, c)
    \/ \E p \in Pools, r \in Requests : Enter(p, r) \/ Leave(p, r)

Spec == Init /\ [][Next]_poolVars
=============================================================================
