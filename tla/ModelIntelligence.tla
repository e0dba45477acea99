------------------------- MODULE ModelIntelligence -------------------------
(***************************************************************************)
(* The optional model-intelligence publication: which cut of it is active,  *)
(* what it says of a bound model at an instant, and the receipts that let a *)
(* client prove later which cut a route was decided with.                   *)
(*                                                                          *)
(*   cut    [gen, made, claim]   claim: what it says of the one bound model *)
(*   claim  [from, retrieved, until, notice, conflict, public, meaning,     *)
(*           amount, known]                                                 *)
(* The store may be shared by another server process, which may activate a  *)
(* cut of its own.                                                          *)
(***************************************************************************)
EXTENDS Naturals, FiniteSets

CONSTANTS
    Unset,
    Cuts,            \* publications that may be on disk, as records
    Callers,         \* client ids
    CatalogLimit,    \* the bound model's own input limit, or Unset
    MaxRetained,     \* _MI_RETAINED_BYTES, a cut and a receipt being one unit each
    MaxInstant, MaxDecisions

\* What the consumer's reader has checked of a publication before it is a cut, and of the catalog's own limit.
ASSUME CutsAreRead ==
    /\ Unset \notin Cuts /\ CatalogLimit \in Nat \cup {Unset} /\ MaxRetained \in Nat
    /\ \A c \in Cuts :
          /\ c.gen \in Nat
          /\ c.claim # Unset =>
                /\ c.claim.notice \in {"none", "revoked", "critical"} /\ c.claim.amount \in Nat
                /\ c.claim.from \in Nat /\ c.claim.until \in Nat \cup {Unset}

VARIABLES published, named, active, server, decided, receipts, blobs, links, instant
miVars == <<published, named, active, server, decided, receipts, blobs, links, instant>>

UpdateAny(old, new) == TRUE
\* PublicEvidence.check_update: a successor never goes back.
UpdateAccepted(old, new) == old # Unset => new.gen >= old.gen

Used == Cardinality(receipts) + Cardinality(blobs)

LabelIgnoringAge(cut, at) == IF cut.claim = Unset THEN "unknown" ELSE "public"

\* explained_catalog for the bound model: the first label that applies.
Label(cut, at) ==
    LET c == cut.claim
    IN  IF cut.made > at THEN "future"
        ELSE IF c # Unset /\ c.notice = "critical" THEN "critical withdrawal"
        ELSE IF c # Unset /\ c.notice = "revoked" THEN "withdrawn"
        ELSE IF c # Unset /\ c.conflict THEN "conflict"
        ELSE IF c = Unset THEN "unknown"
        ELSE IF c.from > at \/ c.retrieved > at THEN "future"
        ELSE IF c.until # Unset /\ c.until <= at THEN "stale"
        ELSE IF c.until = Unset THEN "freshness unknown"
        ELSE IF ~c.public THEN "rights unknown"
        ELSE IF ~c.known THEN "unknown"
        ELSE IF c.meaning \in {"input-allowance", "output-allowance"} /\ c.amount > 0 THEN "public" ELSE "unsupported"

\* MIAdmission.prepare: [limit, blocked] for the bound model under a captured cut and the reference expected.
Prepared(cut, expected, at) ==
    LET trusted == cut.gen = expected
        admitted == trusted /\ Label(cut, at) = "public"
    IN  IF cut = Unset THEN [limit |-> CatalogLimit, blocked |-> FALSE]
        ELSE IF ~admitted THEN [limit |-> CatalogLimit, blocked |-> TRUE]
        ELSE IF CatalogLimit = Unset THEN [limit |-> Unset, blocked |-> TRUE]
        ELSE [limit |-> IF cut.claim.amount < CatalogLimit THEN cut.claim.amount ELSE CatalogLimit, blocked |-> FALSE]

-----------------------------------------------------------------------------
\* External: the publisher replaces the file, the administrator names the cut to use.
PublishCut(c) == published' = c /\ UNCHANGED <<named, active, server, decided, receipts, blobs, links, instant>>
NameCut(g) == named' = g /\ UNCHANGED <<published, active, server, decided, receipts, blobs, links, instant>>

\* load_mi_server_config and activate, with replace_mi_cut: the previous cut and then the new one are adopted
\* by a new consumer, inside the transaction.
Activatable == published # Unset /\ published.gen = named /\ UpdateAccepted(active, published) /\ Used + 1 <= MaxRetained

\* reload, and the activation at start: what fails leaves everything as it was.
Reload ==
    /\ Activatable
    /\ active' = published
    /\ server' = [cut |-> published, expected |-> named]
    /\ UNCHANGED <<published, named, decided, receipts, blobs, links, instant>>

\* External: another process on the same store does the same.
OtherReload ==
    /\ Activatable
    /\ active' = published
    /\ UNCHANGED <<published, named, server, decided, receipts, blobs, links, instant>>

CurrentAnyway == TRUE
Current == active = server.cut

\* admission, then a route decided with what it captured.
DecideRoute(who) ==
    /\ server # Unset /\ Current
    /\ Cardinality(decided) < MaxDecisions
    /\ decided' = decided \cup {[n |-> Cardinality(decided) + 1, who |-> who, cut |-> server.cut, expected |-> server.expected,
                                 at |-> instant, active |-> active, out |-> Prepared(server.cut, server.expected, instant),
                                 given |-> FALSE]}
    /\ UNCHANGED <<published, named, active, server, receipts, blobs, links, instant>>

RoomBesides(d) == Used + 1 + (IF d.cut \in blobs THEN 0 ELSE 1)

\* retain_mi_receipt: the receipt and, once, the cut it refers to, within the bound.
Room(d) == Used + (IF active = Unset THEN 0 ELSE 1) + 1 + (IF d.cut \in blobs THEN 0 ELSE 1)

ReceiptOnly(d) == blobs
WithCut(d) == blobs \cup {d.cut}

\* retain_projection: the receipt of the decision, then the one that binds it to the route and its caller.
Retain(d) ==
    /\ d \in decided /\ ~d.given /\ <<"decision", d.n, d.cut>> \notin receipts
    /\ Room(d) <= MaxRetained
    /\ receipts' = receipts \cup {<<"decision", d.n, d.cut>>}
    /\ blobs' = WithCut(d)
    /\ UNCHANGED <<published, named, active, server, decided, links, instant>>

Bind(d) ==
    /\ d \in decided /\ ~d.given /\ <<"decision", d.n, d.cut>> \in receipts
    /\ Used + (IF active = Unset THEN 0 ELSE 1) + 1 <= MaxRetained
    /\ receipts' = receipts \cup {<<"binding", d.n, d.n>>}
    /\ links' = links \cup {[who |-> d.who, request |-> d.n, route |-> d.n]}
    /\ decided' = (decided \ {d}) \cup {[d EXCEPT !.given = TRUE]}
    /\ UNCHANGED <<published, named, active, server, blobs, instant>>

Pass == instant < MaxInstant /\ instant' = instant + 1
        /\ UNCHANGED <<published, named, active, server, decided, receipts, blobs, links>>

\* verify_projection.
Verified(who, request, route) ==
    \E l \in links : /\ l.who = who /\ l.request = request
                     /\ <<"binding", l.route, route>> \in receipts
                     /\ \E c \in blobs : <<"decision", route, c>> \in receipts

MiInit ==
    /\ published = Unset /\ named = 0 /\ active = Unset /\ server = Unset
    /\ decided = {} /\ receipts = {} /\ blobs = {} /\ links = {} /\ instant = 0

MiNext ==
    \/ \E c \in Cuts : PublishCut(c) \/ NameCut(c.gen)
    \/ Reload \/ OtherReload \/ Pass
    \/ \E who \in Callers : DecideRoute(who)
    \/ \E d \in decided : Retain(d) \/ Bind(d)

\* The active cut never goes back to an earlier one, whatever file is published and named (activate adopts
\* the previous cut before the new one).
CutNeverGoesBack == [][active # Unset => active'.gen >= active.gen]_miVars

\* A route is decided with the cut that is active in the store, not with one another process has replaced.
DecidedWithActive == \A d \in decided : d.cut = d.active

\* A cut only ever narrows the model's own limit, and what it leaves unknown, stale, withdrawn or in conflict
\* at the instant of the decision admits nothing.
CutsOnlyNarrow ==
    \A d \in decided : ~d.out.blocked =>
        /\ d.out.limit <= CatalogLimit
        /\ d.cut.claim # Unset /\ d.cut.claim.notice = "none" /\ ~d.cut.claim.conflict
        /\ d.cut.claim.until > d.at /\ d.cut.claim.from <= d.at

\* A projection handed to a client verifies for that client from then on, through every later reload, and for
\* nobody else.
ProjectionsVerify ==
    \A d \in decided : \A who \in Callers : d.given => (Verified(who, d.n, d.n) <=> who = d.who)

\* What is retained, the active cut included, stays within its bound.
RetainedIsBounded == Used + (IF active = Unset THEN 0 ELSE 1) <= MaxRetained

\* Cuts are published forwards, only narrow, and what was given out of them verifies.
PublicationIsSound == [](DecidedWithActive /\ CutsOnlyNarrow /\ ProjectionsVerify /\ RetainedIsBounded) /\ CutNeverGoesBack

-----------------------------------------------------------------------------
(* The inductive invariant: decisions are numbered once each, a projection   *)
(* that was given is bound to its route and caller, and nothing is bound     *)
(* that was not given.                                                       *)

MiSpec == MiInit /\ [][MiNext]_miVars

Decisions ==
    [n : Nat \ {0}, who : Callers, cut : Cuts, expected : {c.gen : c \in Cuts} \cup {0}, at : Nat, active : Cuts,
     out : [limit : Nat \cup {Unset}, blocked : BOOLEAN], given : BOOLEAN]

\* Types of the publication's state.
MiTypeOK ==
    /\ {published, active} \subseteq Cuts \cup {Unset} /\ named \in {c.gen : c \in Cuts} \cup {0}
    /\ server # Unset => server.cut \in Cuts /\ server.expected \in {c.gen : c \in Cuts} \cup {0}
    /\ instant \in Nat
    /\ IsFiniteSet(decided) /\ IsFiniteSet(receipts) /\ IsFiniteSet(blobs)
    /\ decided \subseteq Decisions

DecidedOnce ==
    /\ \A d \in decided : d.n <= Cardinality(decided)
    /\ \A d, e \in decided : d.n = e.n => d = e

LinkOf(d) == [who |-> d.who, request |-> d.n, route |-> d.n]

ReceiptsHold ==
    /\ \A r \in receipts : \E d \in decided : (r = <<"decision", d.n, d.cut>> /\ d.cut \in blobs) \/ r = <<"binding", d.n, d.n>>
    /\ \A d \in decided : d.given =>
          <<"decision", d.n, d.cut>> \in receipts /\ <<"binding", d.n, d.n>> \in receipts /\ LinkOf(d) \in links
    /\ \A l \in links : \E d \in decided : d.given /\ l = LinkOf(d)

MiIInv == MiTypeOK /\ DecidedOnce /\ ReceiptsHold /\ DecidedWithActive /\ CutsOnlyNarrow /\ RetainedIsBounded
=============================================================================
