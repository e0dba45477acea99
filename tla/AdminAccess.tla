---------------------------- MODULE AdminAccess ----------------------------
(***************************************************************************)
(* How somebody becomes the administrator and stays signed in: the one-time *)
(* claim printed on the server's console, the bootstrap that spends it, the *)
(* login, and the sessions of the store.  Requests run in threads: a        *)
(* bootstrap looks for an administrator, hashes the password, and only then *)
(* spends the claim; a login checks the password, and then opens a session. *)
(***************************************************************************)
EXTENDS Naturals, FiniteSets

CONSTANTS
    Visitors,     \* requests in progress, one per browser tab
    Claims,       \* tokens the console may print
    Nobody,
    ClaimTtl, SessionTtl,
    MaxClock, MaxSessions

VARIABLES identity, claim, sessions, visit, ended, accepted, clock
accessVars == <<identity, claim, sessions, visit, ended, accepted, clock>>

Out == [at |-> "out", token |-> Nobody, session |-> 0]

\* --issue-bootstrap-claim on the same store: provision_admin_claim.
IssueClaim(t) ==
    /\ identity = {}
    /\ claim' = [token |-> t, expires |-> clock + ClaimTtl]
    /\ UNCHANGED <<identity, sessions, visit, ended, accepted, clock>>

\* service_bootstrap_admin, up to the password hash.
BootstrapBegin(v, t) ==
    /\ visit[v].at = "out" /\ identity = {}
    /\ visit' = [visit EXCEPT ![v] = [Out EXCEPT !.at = "boot", !.token = t]]
    /\ UNCHANGED <<identity, claim, sessions, ended, accepted, clock>>

NoClaim == [token |-> Nobody, expires |-> 0]
Spendable(t) == claim.token = t /\ claim.expires > clock

ConsumedBlindly(v, t) ==
    IF Spendable(t) THEN [ok |-> TRUE, identity |-> identity \cup {v}, claim |-> claim]
    ELSE [ok |-> FALSE, identity |-> identity, claim |-> claim]

\* consume_admin_claim: one transaction looks for an administrator again, deletes the claim and makes the administrator.
Consumed(v, t) ==
    IF identity = {} /\ Spendable(t) THEN [ok |-> TRUE, identity |-> identity \cup {v}, claim |-> NoClaim]
    ELSE [ok |-> FALSE, identity |-> identity, claim |-> claim]

BootstrapConsume(v) ==
    LET out == Consumed(v, visit[v].token)
    IN  /\ visit[v].at = "boot"
        /\ identity' = out.identity /\ claim' = out.claim
        /\ visit' = [visit EXCEPT ![v] = IF out.ok THEN [Out EXCEPT !.at = "verified"] ELSE Out]
        /\ UNCHANGED <<sessions, ended, accepted, clock>>

\* service_login with the right password.
Login(v) ==
    /\ visit[v].at = "out" /\ identity # {}
    /\ visit' = [visit EXCEPT ![v] = [Out EXCEPT !.at = "verified"]]
    /\ UNCHANGED <<identity, claim, sessions, ended, accepted, clock>>

\* _create_admin_session: the cookie goes to the browser, and every tab of it.
OpenSession(v) ==
    LET id == Cardinality(sessions) + Cardinality(ended) + 1
    IN  /\ visit[v].at = "verified" /\ id <= MaxSessions
        /\ sessions' = sessions \cup {[id |-> id, expires |-> clock + SessionTtl]}
        /\ visit' = [w \in Visitors |-> IF w = v \/ visit[w].at = "in" THEN [Out EXCEPT !.at = "in", !.session = id] ELSE visit[w]]
        /\ UNCHANGED <<identity, claim, ended, accepted, clock>>

Lookup(id) == {s \in sessions : s.id = id}
LiveAlways(s) == TRUE
Live(s) == s.expires > clock

\* require_admin_session, with session_csrf_hash: an expired session is deleted where it is met.
Request(v, changes, csrf) ==
    LET found == Lookup(visit[v].session)
        live == {s \in found : Live(s)}
    IN  /\ visit[v].at = "in"
        /\ sessions' = sessions \ (found \ live)
        /\ ended' = ended \cup {s.id : s \in found \ live}
        /\ accepted' = IF live # {} /\ (changes => csrf) THEN visit[v].session ELSE 0
        /\ visit' = IF live = {} THEN [visit EXCEPT ![v] = Out] ELSE visit
        /\ UNCHANGED <<identity, claim, clock>>

\* DELETE /control/session.
Logout(v) ==
    LET live == {s \in Lookup(visit[v].session) : Live(s)}
    IN  /\ visit[v].at = "in" /\ live # {}
        /\ sessions' = sessions \ live
        /\ ended' = ended \cup {s.id : s \in live}
        /\ visit' = [visit EXCEPT ![v] = Out]
        /\ UNCHANGED <<identity, claim, accepted, clock>>

\* A session is over from the instant its time is up, whether or not a request met it.
AccessTick ==
    /\ clock < MaxClock /\ clock' = clock + 1
    /\ UNCHANGED <<identity, claim, sessions, visit, ended, accepted>>

AccessInit ==
    /\ identity = {} /\ claim = NoClaim /\ sessions = {}
    /\ visit = [v \in Visitors |-> Out] /\ ended = {} /\ accepted = 0 /\ clock = 0

AccessNext ==
    \/ \E t \in Claims : IssueClaim(t)
    \/ \E v \in Visitors : \/ \E t \in Claims : BootstrapBegin(v, t)
                           \/ BootstrapConsume(v) \/ Login(v) \/ OpenSession(v) \/ Logout(v)
                           \/ \E changes, csrf \in BOOLEAN : Request(v, changes, csrf)
    \/ AccessTick

\* However many bootstraps found no administrator, one of them becomes it (consume_admin_claim looks again).
OneAdministrator == Cardinality(identity) <= 1

\* A request is accepted for a session that is over neither by logout in any tab nor by its time.
SessionsEnd ==
    [][accepted' # 0 /\ accepted' # accepted => accepted' \notin ended /\ \E s \in sessions : s.id = accepted' /\ s.expires > clock]_accessVars

\* There is one administrator, and a session that is over stays over.
AccessIsFinal == []OneAdministrator /\ SessionsEnd

-----------------------------------------------------------------------------
(* The inductive invariant: sessions are numbered as they are opened, and no *)
(* number is given twice, whether its session is open or over.              *)

AccessSpec == AccessInit /\ [][AccessNext]_accessVars

Numbered == Cardinality(sessions) + Cardinality(ended)

\* Types of the access state.
AccessTypeOK ==
    /\ IsFiniteSet(sessions) /\ IsFiniteSet(ended)
    /\ \A s \in sessions : s.id \in Nat \ {0}
    /\ ended \subseteq Nat \ {0}

NumberedOnce ==
    /\ \A s \in sessions : s.id <= Numbered /\ s.id \notin ended
    /\ \A id \in ended : id <= Numbered
    /\ \A s, t \in sessions : s.id = t.id => s = t

AtMostOne == identity = {} \/ \E v \in Visitors : identity = {v}

AccessIInv == AccessTypeOK /\ NumberedOnce /\ AtMostOne
=============================================================================
