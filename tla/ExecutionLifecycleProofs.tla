---------------------- MODULE ExecutionLifecycleProofs ----------------------
(***************************************************************************)
(* The execution lifecycle, for every number of requests, clients and      *)
(* published applications and every setting of the limits: IInv is         *)
(* inductive, the properties follow from it, and the reservations          *)
(* implement the pool of SlotPool.tla.                                     *)
(***************************************************************************)
EXTENDS ExecutionLifecycle, FiniteSetTheorems, TLAPS

-----------------------------------------------------------------------------
(* One thread at a time                                                    *)

\* What a step of request r leaves alone: the published applications and every
\* other request.
OnlyThread(r) ==
    /\ UNCHANGED appVars
    /\ \A q \in Requests \ {r} :
         /\ stage'[q] = stage[q] /\ client'[q] = client[q] /\ view'[q] = view[q]
         /\ result'[q] = result[q] /\ (q \in executed' <=> q \in executed)
         /\ trail'[q] = trail[q] /\ stored'[q] = stored[q] /\ answer'[q] = answer[q]
         /\ calls'[q] = calls[q] /\ floor'[q] = floor[q] /\ basis'[q] = basis[q]

\* A thread's step keeps the invariant when it keeps it for its own request and
\* the accounting.
LEMMA ThreadKeeps ==
  ASSUME IInv, NEW r \in Requests, OnlyThread(r), TypeOK', SlotFacts',
         RequestFact(r)', CallFact(r)', AuditFact(r)'
  PROVE  IInv'
<1>1. BookFacts'
  BY DEF IInv, BookFacts, SameThroughout, OnlyThread, appVars
<1>2. ASSUME NEW q \in Requests PROVE RequestFact(q)' /\ CallFact(q)' /\ AuditFact(q)'
  <2>1. CASE q = r
    BY <2>1
  <2>2. CASE q # r
    <3>1. RequestFact(q) /\ CallFact(q) /\ AuditFact(q)
      BY DEF IInv
    <3>2. RequestFact(q)'
      BY <2>2, <3>1 DEF OnlyThread, RequestFact, appVars
    <3>3. CallFact(q)'
      BY <2>2, <3>1 DEF OnlyThread, CallFact, Authorized, appVars
    <3>4. AuditFact(q)'
      BY <2>2, <3>1 DEF OnlyThread, AuditFact
    <3> QED BY <3>2, <3>3, <3>4
  <2> QED BY <2>1, <2>2
<1> QED BY <1>1, <1>2 DEF IInv

-----------------------------------------------------------------------------
(* The reservations                                                        *)

\* Only finitely many requests hold a slot of a book.
LEMMA BooksFinite ==
  ASSUME NEW g
  PROVE  /\ IsFiniteSet(InBook(g)) /\ Cardinality(InBook(g)) \in Nat
         /\ \A c : IsFiniteSet(InBookOf(g, c)) /\ Cardinality(InBookOf(g, c)) \in Nat
<1>1. InBook(g) \in SUBSET Requests
  BY DEF InBook
<1>2. \A c : InBookOf(g, c) \in SUBSET Requests
  BY DEF InBookOf
<1> QED BY <1>1, <1>2, LifecycleAssumption, FS_Subset, FS_CardinalityType

\* A step that does not change what its request holds keeps the accounting.
LEMMA SlotsUntouched ==
  ASSUME SlotFacts, NEW r \in Requests, OnlyThread(r), UNCHANGED slotVars,
         HoldsGlobal(r)' <=> HoldsGlobal(r), HoldsClient(r)' <=> HoldsClient(r),
         HoldsGlobal(r) => view'[r] = view[r] /\ client'[r] = client[r]
  PROVE  SlotFacts'
<1>1. ASSUME NEW g PROVE InBook(g)' = InBook(g) /\ \A c : InBookOf(g, c)' = InBookOf(g, c)
  BY DEF InBook, InBookOf, HoldsGlobal, HoldsClient, BookOf, OnlyThread, appVars
<1> QED BY <1>1 DEF SlotFacts, SlotsAccounted, OnlyThread, appVars, slotVars

\* The applications requests run in, their books and their limits are in range.
LEMMA InRange ==
  ASSUME IInv
  PROVE  /\ \A g \in 1 .. current : /\ g \in Generations /\ book[g] \in Generations
                                    /\ book[g] \in 1 .. current
                                    /\ limits[g].total \in Nat /\ limits[g].perClient \in Nat
         /\ \A r \in Requests : view[r] \in 1 .. current /\ BookOf(r) = book[view[r]]
<1>1. \A g \in 1 .. current : g \in Generations
  BY LifecycleAssumption DEF IInv, TypeOK, Generations
<1>2. \A l \in Limits : l.total \in Nat /\ l.perClient \in Nat
  BY LifecycleAssumption
<1>3. \A g \in 1 .. current : book[g] \in 1 .. current
  BY <1>1 DEF IInv, TypeOK, BookFacts, Generations
<1>4. \A r \in Requests : view[r] \in 1 .. current /\ BookOf(r) = book[view[r]]
  BY DEF IInv, RequestFact, BookOf
<1> QED BY <1>1, <1>2, <1>3, <1>4 DEF IInv, TypeOK

-----------------------------------------------------------------------------
\* A server that has just started satisfies the invariant.
LEMMA InitEstablishes == Init => IInv
<1> SUFFICES ASSUME Init PROVE IInv
  OBVIOUS
<1>0. 1 \in Generations /\ FirstLimits.total \in Nat /\ FirstLimits.perClient \in Nat
  BY LifecycleAssumption DEF Generations
<1>1. TypeOK
  BY <1>0, LifecycleAssumption DEF Init, TypeOK, Grants, Stages
<1>2. BookFacts
  BY <1>0, LifecycleAssumption DEF Init, BookFacts, Generations
<1>3. SlotFacts
  <2>1. \A g : InBook(g) = {} /\ \A c : InBookOf(g, c) = {}
    BY DEF Init, InBook, InBookOf, HoldsGlobal, HoldsClient
  <2>2. Cardinality({}) = 0
    BY FS_EmptySet
  <2>3. \A g \in 1 .. current :
          book[g] = 1 /\ limits[g] = FirstLimits /\ free[book[g]] = FirstLimits.total
    BY <1>0 DEF Init
  <2>4. \A g \in 1 .. current : \A c \in Clients : active[book[g]][c] = 0
    BY <1>0, <2>3 DEF Init
  <2>5. SlotsAccounted
    BY <1>0, <2>1, <2>2, <2>3, <2>4 DEF SlotsAccounted
  <2>6. FirstLimits.perClient >= 0
    BY <1>0
  <2> QED BY <2>3, <2>4, <2>5, <2>6 DEF SlotFacts
<1>4. \A r \in Requests : RequestFact(r) /\ CallFact(r) /\ AuditFact(r)
  BY DEF Init, RequestFact, CallFact, AuditFact
<1> QED BY <1>1, <1>2, <1>3, <1>4 DEF IInv

-----------------------------------------------------------------------------
(* Steps that change no reservation                                        *)

\* Authentication names the client and nothing else.
LEMMA AuthenticateKeeps ==
  ASSUME IInv, NEW r \in Requests, NEW c \in Clients, Authenticate(r, c)
  PROVE  IInv'
<1>0. TypeOK /\ SlotFacts /\ RequestFact(r) /\ CallFact(r) /\ AuditFact(r)
  BY DEF IInv
<1>1. TypeOK'
  BY <1>0 DEF TypeOK, Authenticate, Moves, Stages, Results, AdapterResults, appVars, slotVars,
     auditVars, traceVars
<1>2. OnlyThread(r) /\ UNCHANGED slotVars
  BY <1>0 DEF TypeOK, OnlyThread, Authenticate, Moves, auditVars, traceVars
<1>3. SlotFacts'
  <2>1. /\ HoldsGlobal(r)' <=> HoldsGlobal(r)
        /\ HoldsClient(r)' <=> HoldsClient(r)
        /\ HoldsGlobal(r) => view'[r] = view[r] /\ client'[r] = client[r]
    BY <1>0 DEF TypeOK, HoldsGlobal, HoldsClient, Authenticate, Moves, auditVars
  <2> QED BY <1>0, <1>2, <2>1, SlotsUntouched
<1>4. RequestFact(r)'
  BY <1>0 DEF TypeOK, RequestFact, Authenticate, Moves, appVars, Generations
<1>5. CallFact(r)'
  BY <1>0 DEF TypeOK, CallFact, BeforeDispatch, Authorized, Authenticate, Moves, appVars,
     auditVars, traceVars
<1>6. AuditFact(r)'
  BY <1>0 DEF TypeOK, AuditFact, CallFact, BeforeDispatch, Results, AdapterResults, Authenticate,
     Moves, auditVars, traceVars
<1> QED BY <1>1, <1>2, <1>3, <1>4, <1>5, <1>6, ThreadKeeps

\* A request enters the application the handler has read.
LEMMA EnterDirectKeeps ==
  ASSUME IInv, NEW r \in Requests, EnterDirect(r)
  PROVE  IInv'
<1>0. TypeOK /\ SlotFacts /\ RequestFact(r) /\ CallFact(r) /\ AuditFact(r)
  BY DEF IInv
<1>1. TypeOK'
  BY <1>0 DEF TypeOK, EnterDirect, Moves, Stages, Results, AdapterResults, appVars, slotVars,
     auditVars, traceVars
<1>2. OnlyThread(r) /\ UNCHANGED slotVars
  BY <1>0 DEF TypeOK, OnlyThread, EnterDirect, Moves, auditVars, traceVars
<1>3. SlotFacts'
  <2>1. /\ HoldsGlobal(r)' <=> HoldsGlobal(r)
        /\ HoldsClient(r)' <=> HoldsClient(r)
        /\ HoldsGlobal(r) => view'[r] = view[r] /\ client'[r] = client[r]
    BY <1>0 DEF TypeOK, HoldsGlobal, HoldsClient, EnterDirect, Moves, auditVars
  <2> QED BY <1>0, <1>2, <2>1, SlotsUntouched
<1>4. RequestFact(r)'
  BY <1>0 DEF TypeOK, RequestFact, EnterDirect, Moves, appVars, Generations
<1>5. CallFact(r)'
  BY <1>0 DEF TypeOK, CallFact, BeforeDispatch, Authorized, EnterDirect, Moves, appVars,
     auditVars, traceVars
<1>6. AuditFact(r)'
  BY <1>0 DEF TypeOK, AuditFact, CallFact, BeforeDispatch, Results, AdapterResults, EnterDirect,
     Moves, auditVars, traceVars
<1> QED BY <1>1, <1>2, <1>3, <1>4, <1>5, <1>6, ThreadKeeps

\* A request enters a view of the published application.
LEMMA EnterPublishedKeeps ==
  ASSUME IInv, NEW r \in Requests, EnterPublished(r)
  PROVE  IInv'
<1>0. TypeOK /\ SlotFacts /\ RequestFact(r) /\ CallFact(r) /\ AuditFact(r)
  BY DEF IInv
<1>1. TypeOK'
  BY <1>0 DEF TypeOK, EnterPublished, Moves, Stages, Results, AdapterResults, appVars, slotVars,
     auditVars, traceVars
<1>2. OnlyThread(r) /\ UNCHANGED slotVars
  BY <1>0 DEF TypeOK, OnlyThread, EnterPublished, Moves, auditVars, traceVars
<1>3. SlotFacts'
  <2>1. /\ HoldsGlobal(r)' <=> HoldsGlobal(r)
        /\ HoldsClient(r)' <=> HoldsClient(r)
        /\ HoldsGlobal(r) => view'[r] = view[r] /\ client'[r] = client[r]
    BY <1>0 DEF TypeOK, HoldsGlobal, HoldsClient, EnterPublished, Moves, auditVars
  <2> QED BY <1>0, <1>2, <2>1, SlotsUntouched
<1>4. RequestFact(r)'
  BY <1>0 DEF TypeOK, RequestFact, EnterPublished, Moves, appVars, Generations
<1>5. CallFact(r)'
  BY <1>0 DEF TypeOK, CallFact, BeforeDispatch, Authorized, EnterPublished, Moves, appVars,
     auditVars, traceVars
<1>6. AuditFact(r)'
  BY <1>0 DEF TypeOK, AuditFact, CallFact, BeforeDispatch, Results, AdapterResults,
     EnterPublished, Moves, auditVars, traceVars
<1> QED BY <1>1, <1>2, <1>3, <1>4, <1>5, <1>6, ThreadKeeps

\* A refused view answers the client and calls nobody.
LEMMA TurnAwayKeeps ==
  ASSUME IInv, NEW r \in Requests, TurnAway(r)
  PROVE  IInv'
<1>0. TypeOK /\ SlotFacts /\ RequestFact(r) /\ CallFact(r) /\ AuditFact(r)
  BY DEF IInv
<1>1. TypeOK'
  BY <1>0 DEF TypeOK, TurnAway, Moves, Stages, Results, AdapterResults, appVars, slotVars,
     auditVars, traceVars
<1>2. OnlyThread(r) /\ UNCHANGED slotVars
  BY <1>0 DEF TypeOK, OnlyThread, TurnAway, Moves, auditVars, traceVars
<1>3. SlotFacts'
  <2>1. /\ HoldsGlobal(r)' <=> HoldsGlobal(r)
        /\ HoldsClient(r)' <=> HoldsClient(r)
        /\ HoldsGlobal(r) => view'[r] = view[r] /\ client'[r] = client[r]
    BY <1>0 DEF TypeOK, HoldsGlobal, HoldsClient, TurnAway, Moves, auditVars
  <2> QED BY <1>0, <1>2, <2>1, SlotsUntouched
<1>4. RequestFact(r)'
  BY <1>0 DEF TypeOK, RequestFact, TurnAway, Moves, appVars, Generations
<1>5. CallFact(r)'
  BY <1>0 DEF TypeOK, CallFact, BeforeDispatch, Authorized, TurnAway, Moves, appVars, auditVars,
     traceVars
<1>6. AuditFact(r)'
  BY <1>0 DEF TypeOK, AuditFact, CallFact, BeforeDispatch, Results, AdapterResults, TurnAway,
     Moves, auditVars, traceVars
<1> QED BY <1>1, <1>2, <1>3, <1>4, <1>5, <1>6, ThreadKeeps

\* Admission chooses a target and reserves nothing.
LEMMA AdmitKeeps ==
  ASSUME IInv, NEW r \in Requests, Admit(r)
  PROVE  IInv'
<1>0. TypeOK /\ SlotFacts /\ RequestFact(r) /\ CallFact(r) /\ AuditFact(r)
  BY DEF IInv
<1>1. TypeOK'
  BY <1>0 DEF TypeOK, Admit, Moves, Stages, Results, AdapterResults, appVars, slotVars,
     auditVars, traceVars
<1>2. OnlyThread(r) /\ UNCHANGED slotVars
  BY <1>0 DEF TypeOK, OnlyThread, Admit, Moves, auditVars, traceVars
<1>3. SlotFacts'
  <2>1. /\ HoldsGlobal(r)' <=> HoldsGlobal(r)
        /\ HoldsClient(r)' <=> HoldsClient(r)
        /\ HoldsGlobal(r) => view'[r] = view[r] /\ client'[r] = client[r]
    BY <1>0 DEF TypeOK, HoldsGlobal, HoldsClient, Admit, Moves, auditVars
  <2> QED BY <1>0, <1>2, <2>1, SlotsUntouched
<1>4. RequestFact(r)'
  BY <1>0 DEF TypeOK, RequestFact, Admit, Moves, appVars, Generations
<1>5. CallFact(r)'
  BY <1>0 DEF TypeOK, CallFact, BeforeDispatch, Authorized, Admit, Moves, appVars, auditVars,
     traceVars
<1>6. AuditFact(r)'
  BY <1>0 DEF TypeOK, AuditFact, CallFact, BeforeDispatch, Results, AdapterResults, Admit, Moves,
     auditVars, traceVars
<1> QED BY <1>1, <1>2, <1>3, <1>4, <1>5, <1>6, ThreadKeeps

\* A refusal before the reservation calls nobody.
LEMMA RefuseKeeps ==
  ASSUME IInv, NEW r \in Requests, Refuse(r)
  PROVE  IInv'
<1>0. TypeOK /\ SlotFacts /\ RequestFact(r) /\ CallFact(r) /\ AuditFact(r)
  BY DEF IInv
<1>1. TypeOK'
  BY <1>0 DEF TypeOK, Refuse, Moves, EndsWith, FailureLabel, Stages, Results, AdapterResults,
     appVars, slotVars, auditVars, traceVars
<1>2. OnlyThread(r) /\ UNCHANGED slotVars
  BY <1>0 DEF TypeOK, OnlyThread, Refuse, Moves, EndsWith, FailureLabel, auditVars, traceVars
<1>3. SlotFacts'
  <2>1. /\ HoldsGlobal(r)' <=> HoldsGlobal(r)
        /\ HoldsClient(r)' <=> HoldsClient(r)
        /\ HoldsGlobal(r) => view'[r] = view[r] /\ client'[r] = client[r]
    BY <1>0 DEF TypeOK, HoldsGlobal, HoldsClient, Refuse, Moves, EndsWith, auditVars
  <2> QED BY <1>0, <1>2, <2>1, SlotsUntouched
<1>4. RequestFact(r)'
  BY <1>0 DEF TypeOK, RequestFact, Refuse, Moves, EndsWith, FailureLabel, appVars, Generations
<1>5. CallFact(r)'
  BY <1>0 DEF TypeOK, CallFact, BeforeDispatch, Authorized, Refuse, Moves, EndsWith,
     FailureLabel, appVars, auditVars, traceVars
<1>6. AuditFact(r)'
  BY <1>0 DEF TypeOK, AuditFact, CallFact, BeforeDispatch, Results, AdapterResults, Refuse,
     Moves, EndsWith, FailureLabel, auditVars, traceVars
<1> QED BY <1>1, <1>2, <1>3, <1>4, <1>5, <1>6, ThreadKeeps

\* The dispatch check keeps the reservation, or is the first step of giving it back.
LEMMA CheckAuthorityKeeps ==
  ASSUME IInv, NEW r \in Requests, CheckAuthority(r)
  PROVE  IInv'
<1>0. TypeOK /\ SlotFacts /\ RequestFact(r) /\ CallFact(r) /\ AuditFact(r)
  BY DEF IInv
<1>1. TypeOK'
  <2>1. current \in Nat
    BY <1>0 DEF TypeOK, Generations
  <2>2. CASE Authorized(Authority(r), client[r])
    BY <1>0, <2>1, <2>2 DEF TypeOK, CheckAuthority, Moves, Authority, Stages, appVars, slotVars,
       auditVars
  <2>3. CASE ~Authorized(Authority(r), client[r])
    BY <1>0, <2>3 DEF TypeOK, CheckAuthority, Moves, EndsWith, FailureLabel, Stages, Results,
       AdapterResults, appVars, slotVars, auditVars
  <2> QED BY <2>2, <2>3
<1>2. OnlyThread(r) /\ UNCHANGED slotVars
  BY <1>0 DEF TypeOK, OnlyThread, CheckAuthority, Moves, EndsWith, FailureLabel, Authority,
     Generations, auditVars, traceVars
<1>3. SlotFacts'
  <2>1. /\ HoldsGlobal(r)' <=> HoldsGlobal(r)
        /\ HoldsClient(r)' <=> HoldsClient(r)
        /\ HoldsGlobal(r) => view'[r] = view[r] /\ client'[r] = client[r]
    BY <1>0 DEF TypeOK, HoldsGlobal, HoldsClient, CheckAuthority, Moves, EndsWith, Authority,
     Generations, auditVars
  <2> QED BY <1>0, <1>2, <2>1, SlotsUntouched
<1>4. RequestFact(r)'
  BY <1>0 DEF TypeOK, RequestFact, CheckAuthority, Moves, EndsWith, FailureLabel, Authority,
     Generations, appVars
<1>5. CallFact(r)'
  BY <1>0 DEF TypeOK, CallFact, BeforeDispatch, Authorized, CheckAuthority, Moves, EndsWith,
     FailureLabel, Authority, Generations, appVars, auditVars, traceVars
<1>6. AuditFact(r)'
  BY <1>0 DEF TypeOK, AuditFact, CallFact, BeforeDispatch, Results, AdapterResults,
     CheckAuthority, Moves, EndsWith, FailureLabel, Authority, Generations, auditVars, traceVars
<1> QED BY <1>1, <1>2, <1>3, <1>4, <1>5, <1>6, ThreadKeeps

\* A refusal after the reservation has called nobody.
LEMMA RefuseDispatchKeeps ==
  ASSUME IInv, NEW r \in Requests, RefuseDispatch(r)
  PROVE  IInv'
<1>0. TypeOK /\ SlotFacts /\ RequestFact(r) /\ CallFact(r) /\ AuditFact(r)
  BY DEF IInv
<1>1. TypeOK'
  BY <1>0 DEF TypeOK, RefuseDispatch, Moves, EndsWith, FailureLabel, Stages, Results,
     AdapterResults, appVars, slotVars, auditVars, traceVars
<1>2. OnlyThread(r) /\ UNCHANGED slotVars
  BY <1>0 DEF TypeOK, OnlyThread, RefuseDispatch, Moves, EndsWith, FailureLabel, auditVars,
     traceVars
<1>3. SlotFacts'
  <2>1. /\ HoldsGlobal(r)' <=> HoldsGlobal(r)
        /\ HoldsClient(r)' <=> HoldsClient(r)
        /\ HoldsGlobal(r) => view'[r] = view[r] /\ client'[r] = client[r]
    BY <1>0 DEF TypeOK, HoldsGlobal, HoldsClient, RefuseDispatch, Moves, EndsWith, auditVars
  <2> QED BY <1>0, <1>2, <2>1, SlotsUntouched
<1>4. RequestFact(r)'
  BY <1>0 DEF TypeOK, RequestFact, RefuseDispatch, Moves, EndsWith, FailureLabel, appVars,
     Generations
<1>5. CallFact(r)'
  BY <1>0 DEF TypeOK, CallFact, BeforeDispatch, Authorized, RefuseDispatch, Moves, EndsWith,
     FailureLabel, appVars, auditVars, traceVars
<1>6. AuditFact(r)'
  BY <1>0 DEF TypeOK, AuditFact, CallFact, BeforeDispatch, Results, AdapterResults,
     RefuseDispatch, Moves, EndsWith, FailureLabel, auditVars, traceVars
<1> QED BY <1>1, <1>2, <1>3, <1>4, <1>5, <1>6, ThreadKeeps

\* The one adapter call, on the authority that was checked.
LEMMA DispatchKeeps ==
  ASSUME IInv, NEW r \in Requests, Dispatch(r)
  PROVE  IInv'
<1>0. TypeOK /\ SlotFacts /\ RequestFact(r) /\ CallFact(r) /\ AuditFact(r)
  BY DEF IInv
<1>1. TypeOK'
  BY <1>0 DEF TypeOK, Dispatch, Moves, Stages, Results, AdapterResults, appVars, slotVars,
     auditVars, traceVars
<1>2. OnlyThread(r) /\ UNCHANGED slotVars
  BY <1>0 DEF TypeOK, OnlyThread, Dispatch, Moves, auditVars, traceVars
<1>3. SlotFacts'
  <2>1. /\ HoldsGlobal(r)' <=> HoldsGlobal(r)
        /\ HoldsClient(r)' <=> HoldsClient(r)
        /\ HoldsGlobal(r) => view'[r] = view[r] /\ client'[r] = client[r]
    BY <1>0 DEF TypeOK, HoldsGlobal, HoldsClient, Dispatch, Moves, auditVars
  <2> QED BY <1>0, <1>2, <2>1, SlotsUntouched
<1>4. RequestFact(r)'
  BY <1>0 DEF TypeOK, RequestFact, Dispatch, Moves, appVars, Generations
<1>5. CallFact(r)'
  BY <1>0 DEF TypeOK, CallFact, BeforeDispatch, Authorized, Dispatch, Moves, appVars, auditVars,
     traceVars
<1>6. AuditFact(r)'
  BY <1>0 DEF TypeOK, AuditFact, CallFact, BeforeDispatch, Results, AdapterResults, Dispatch,
     Moves, auditVars, traceVars
<1> QED BY <1>1, <1>2, <1>3, <1>4, <1>5, <1>6, ThreadKeeps

\* Whatever the adapter answers, a backend was called.
LEMMA AdapterReturnsKeeps ==
  ASSUME IInv, NEW r \in Requests, NEW res \in AdapterResults, AdapterReturns(r, res)
  PROVE  IInv'
<1>0. TypeOK /\ SlotFacts /\ RequestFact(r) /\ CallFact(r) /\ AuditFact(r)
  BY DEF IInv
<1>1. TypeOK'
  BY <1>0 DEF TypeOK, AdapterReturns, Moves, EndsWith, Stages, Results, AdapterResults, appVars,
     slotVars, auditVars, traceVars
<1>2. OnlyThread(r) /\ UNCHANGED slotVars
  BY <1>0 DEF TypeOK, OnlyThread, AdapterReturns, Moves, EndsWith, auditVars, traceVars
<1>3. SlotFacts'
  <2>1. /\ HoldsGlobal(r)' <=> HoldsGlobal(r)
        /\ HoldsClient(r)' <=> HoldsClient(r)
        /\ HoldsGlobal(r) => view'[r] = view[r] /\ client'[r] = client[r]
    BY <1>0 DEF TypeOK, HoldsGlobal, HoldsClient, AdapterReturns, Moves, EndsWith, auditVars
  <2> QED BY <1>0, <1>2, <2>1, SlotsUntouched
<1>4. RequestFact(r)'
  BY <1>0 DEF TypeOK, RequestFact, AdapterReturns, Moves, EndsWith, appVars, Generations
<1>5. CallFact(r)'
  BY <1>0 DEF TypeOK, CallFact, BeforeDispatch, Authorized, AdapterReturns, Moves, EndsWith,
     appVars, auditVars, traceVars
<1>6. AuditFact(r)'
  BY <1>0 DEF TypeOK, AuditFact, CallFact, BeforeDispatch, Results, AdapterResults,
     AdapterReturns, Moves, EndsWith, auditVars, traceVars
<1> QED BY <1>1, <1>2, <1>3, <1>4, <1>5, <1>6, ThreadKeeps

\* The trail gets the record of the request's result.
LEMMA AppendTrailKeeps ==
  ASSUME IInv, NEW r \in Requests, AppendTrail(r)
  PROVE  IInv'
<1>0. TypeOK /\ SlotFacts /\ RequestFact(r) /\ CallFact(r) /\ AuditFact(r)
  BY DEF IInv
<1>1. TypeOK'
  BY <1>0 DEF TypeOK, AppendTrail, Moves, AuditFact, Stages, Results, AdapterResults, appVars,
     slotVars, auditVars, traceVars
<1>2. OnlyThread(r) /\ UNCHANGED slotVars
  BY <1>0 DEF TypeOK, OnlyThread, AppendTrail, Moves, AuditFact, auditVars, traceVars
<1>3. SlotFacts'
  <2>1. /\ HoldsGlobal(r)' <=> HoldsGlobal(r)
        /\ HoldsClient(r)' <=> HoldsClient(r)
        /\ HoldsGlobal(r) => view'[r] = view[r] /\ client'[r] = client[r]
    BY <1>0 DEF TypeOK, HoldsGlobal, HoldsClient, AppendTrail, Moves, AuditFact, auditVars
  <2> QED BY <1>0, <1>2, <2>1, SlotsUntouched
<1>4. RequestFact(r)'
  BY <1>0 DEF TypeOK, RequestFact, AppendTrail, Moves, AuditFact, appVars, Generations
<1>5. CallFact(r)'
  BY <1>0 DEF TypeOK, CallFact, BeforeDispatch, Authorized, AppendTrail, Moves, AuditFact,
     appVars, auditVars, traceVars
<1>6. AuditFact(r)'
  BY <1>0 DEF TypeOK, AuditFact, CallFact, BeforeDispatch, Results, AdapterResults, AppendTrail,
     Moves, auditVars, traceVars
<1> QED BY <1>1, <1>2, <1>3, <1>4, <1>5, <1>6, ThreadKeeps

\* The durable store gets the only record it has of the request.
LEMMA StoreKeeps ==
  ASSUME IInv, NEW r \in Requests, Store(r)
  PROVE  IInv'
<1>0. TypeOK /\ SlotFacts /\ RequestFact(r) /\ CallFact(r) /\ AuditFact(r)
  BY DEF IInv
<1>1. TypeOK'
  BY <1>0 DEF TypeOK, Store, Moves, AuditFact, Stages, Results, AdapterResults, appVars,
     slotVars, auditVars, traceVars
<1>2. OnlyThread(r) /\ UNCHANGED slotVars
  BY <1>0 DEF TypeOK, OnlyThread, Store, Moves, AuditFact, auditVars, traceVars
<1>3. SlotFacts'
  <2>1. /\ HoldsGlobal(r)' <=> HoldsGlobal(r)
        /\ HoldsClient(r)' <=> HoldsClient(r)
        /\ HoldsGlobal(r) => view'[r] = view[r] /\ client'[r] = client[r]
    BY <1>0 DEF TypeOK, HoldsGlobal, HoldsClient, Store, Moves, AuditFact, auditVars
  <2> QED BY <1>0, <1>2, <2>1, SlotsUntouched
<1>4. RequestFact(r)'
  BY <1>0 DEF TypeOK, RequestFact, Store, Moves, AuditFact, appVars, Generations
<1>5. CallFact(r)'
  BY <1>0 DEF TypeOK, CallFact, BeforeDispatch, Authorized, Store, Moves, AuditFact, appVars,
     auditVars, traceVars
<1>6. AuditFact(r)'
  BY <1>0 DEF TypeOK, AuditFact, CallFact, BeforeDispatch, Results, AdapterResults, Store, Moves,
     auditVars, traceVars
<1> QED BY <1>1, <1>2, <1>3, <1>4, <1>5, <1>6, ThreadKeeps

\* A failing store leaves the request without a durable record.
LEMMA StoreFailsKeeps ==
  ASSUME IInv, NEW r \in Requests, StoreFails(r)
  PROVE  IInv'
<1>0. TypeOK /\ SlotFacts /\ RequestFact(r) /\ CallFact(r) /\ AuditFact(r)
  BY DEF IInv
<1>1. TypeOK'
  BY <1>0 DEF TypeOK, StoreFails, Moves, EndsWith, FailureLabel, Stages, Results, AdapterResults,
     appVars, slotVars, auditVars, traceVars
<1>2. OnlyThread(r) /\ UNCHANGED slotVars
  BY <1>0 DEF TypeOK, OnlyThread, StoreFails, Moves, EndsWith, FailureLabel, auditVars, traceVars
<1>3. SlotFacts'
  <2>1. /\ HoldsGlobal(r)' <=> HoldsGlobal(r)
        /\ HoldsClient(r)' <=> HoldsClient(r)
        /\ HoldsGlobal(r) => view'[r] = view[r] /\ client'[r] = client[r]
    BY <1>0 DEF TypeOK, HoldsGlobal, HoldsClient, StoreFails, Moves, EndsWith, auditVars
  <2> QED BY <1>0, <1>2, <2>1, SlotsUntouched
<1>4. RequestFact(r)'
  BY <1>0 DEF TypeOK, RequestFact, StoreFails, Moves, EndsWith, FailureLabel, appVars, Generations
<1>5. CallFact(r)'
  BY <1>0 DEF TypeOK, CallFact, BeforeDispatch, Authorized, StoreFails, Moves, EndsWith,
     FailureLabel, appVars, auditVars, traceVars
<1>6. AuditFact(r)'
  BY <1>0 DEF TypeOK, AuditFact, CallFact, BeforeDispatch, Results, AdapterResults, StoreFails,
     Moves, EndsWith, FailureLabel, auditVars, traceVars
<1> QED BY <1>1, <1>2, <1>3, <1>4, <1>5, <1>6, ThreadKeeps

-----------------------------------------------------------------------------
(* Steps that change a reservation                                         *)

\* How one request taking or leaving a place changes the number of places.
LEMMA OneMoreOneLess ==
  ASSUME NEW S, IsFiniteSet(S), NEW x
  PROVE  /\ x \notin S => Cardinality(S \cup {x}) = Cardinality(S) + 1
         /\ x \in S => Cardinality(S \ {x}) = Cardinality(S) - 1
  BY FS_AddElement, FS_RemoveElement

\* A request takes or gives back a slot of its book and the semaphore of the book
\* changes with it.
LEMMA GlobalSlot ==
  ASSUME IInv, NEW r \in Requests, OnlyThread(r),
         HoldsGlobal(r)' <=> ~HoldsGlobal(r), ~HoldsClient(r), ~HoldsClient(r)',
         view'[r] = view[r], UNCHANGED active,
         HoldsGlobal(r) => free' = [free EXCEPT ![BookOf(r)] = @ + 1],
         ~HoldsGlobal(r) => free' = [free EXCEPT ![BookOf(r)] = @ - 1]
  PROVE  SlotFacts'
<1>0. TypeOK /\ SlotFacts /\ UNCHANGED <<book, limits, current>>
  BY DEF IInv, OnlyThread, appVars
<1>b. PICK b \in Generations : b = BookOf(r)
  BY <1>0 DEF TypeOK, BookOf
<1>d. PICK d \in {-1, 1} : HoldsGlobal(r) <=> d = -1
  <2>1. CASE HoldsGlobal(r)
    BY <2>1
  <2>2. CASE ~HoldsGlobal(r)
    BY <2>2
  <2> QED BY <2>1, <2>2
<1>1. \A g : g # b => InBook(g)' = InBook(g)
  BY <1>0, <1>b DEF InBook, HoldsGlobal, HoldsClient, BookOf, OnlyThread
<1>2. \A g, c : InBookOf(g, c)' = InBookOf(g, c)
  BY <1>0 DEF InBookOf, HoldsClient, BookOf, OnlyThread
<1>3. Cardinality(InBook(b)') = Cardinality(InBook(b)) + d
  <2>1. CASE ~HoldsGlobal(r)
    <3>1. r \notin InBook(b) /\ InBook(b)' = InBook(b) \cup {r}
      BY <1>0, <1>b, <2>1 DEF InBook, HoldsGlobal, HoldsClient, BookOf, OnlyThread
    <3>2. d = 1
      BY <1>d, <2>1
    <3> QED BY <3>1, <3>2, BooksFinite, OneMoreOneLess
  <2>2. CASE HoldsGlobal(r)
    <3>1. r \in InBook(b) /\ InBook(b)' = InBook(b) \ {r}
      BY <1>0, <1>b, <2>2 DEF InBook, HoldsGlobal, HoldsClient, BookOf, OnlyThread
    <3>2. Cardinality(InBook(b) \ {r}) = Cardinality(InBook(b)) - 1
      BY <3>1, BooksFinite, OneMoreOneLess
    <3>3. Cardinality(InBook(b)) \in Nat
      BY BooksFinite
    <3>4. d = -1
      BY <1>d, <2>2
    <3> QED BY <3>1, <3>2, <3>3, <3>4
  <2> QED BY <2>1, <2>2
<1>4. free'[b] = free[b] - d /\ free[b] \in Nat
  <2>1. free \in [Generations -> Nat]
    BY <1>0 DEF TypeOK
  <2>2. CASE HoldsGlobal(r)
    BY <1>b, <1>d, <2>1, <2>2
  <2>3. CASE ~HoldsGlobal(r)
    BY <1>b, <1>d, <2>1, <2>3
  <2> QED BY <2>2, <2>3
<1>5. \A g \in Generations : g # b => free'[g] = free[g]
  BY <1>0, <1>b DEF TypeOK
<1>6. ASSUME NEW g \in 1 .. current, NEW h, h = book[g]
      PROVE  free'[h] + Cardinality(InBook(h)') = limits[g].total
  <2>1. free[h] + Cardinality(InBook(h)) = limits[g].total
    BY <1>0, <1>6 DEF SlotFacts, SlotsAccounted
  <2>2. Cardinality(InBook(h)) \in Nat /\ h \in Generations
    BY <1>6, BooksFinite, InRange
  <2>3. CASE h = b
    BY <1>3, <1>4, <2>1, <2>2, <2>3
  <2>4. CASE h # b
    BY <1>1, <1>5, <2>1, <2>2, <2>4
  <2> QED BY <2>3, <2>4
<1>7. SlotsAccounted'
  BY <1>0, <1>2, <1>6 DEF SlotFacts, SlotsAccounted
<1> QED BY <1>0, <1>7 DEF SlotFacts

\* The count of a client one of whose requests holds a place is positive and
\* within the limit.
LEMMA HolderIsCounted ==
  ASSUME IInv, NEW r \in Requests, HoldsClient(r)
  PROVE  /\ active[BookOf(r)][client[r]] >= 1
         /\ active[BookOf(r)][client[r]] <= limits[view[r]].perClient
<1>1. client[r] \in Clients /\ view[r] \in 1 .. current /\ BookOf(r) = book[view[r]]
  BY InRange DEF IInv, RequestFact, HoldsClient
<1>2. /\ active[BookOf(r)][client[r]] = Cardinality(InBookOf(BookOf(r), client[r]))
      /\ active[BookOf(r)][client[r]] <= limits[view[r]].perClient
  BY <1>1 DEF IInv, SlotFacts, SlotsAccounted
<1>3. r \in InBookOf(BookOf(r), client[r])
  BY DEF InBookOf
<1>4. /\ Cardinality(InBookOf(BookOf(r), client[r])) # 0
      /\ Cardinality(InBookOf(BookOf(r), client[r])) \in Nat
  BY <1>3, BooksFinite, FS_EmptySet
<1> QED BY <1>2, <1>4

\* A request takes or gives back its client's place and the count changes with it.
LEMMA ClientSlot ==
  ASSUME IInv, NEW r \in Requests, OnlyThread(r), client[r] \in Clients,
         HoldsGlobal(r), HoldsGlobal(r)', HoldsClient(r)' <=> ~HoldsClient(r),
         view'[r] = view[r], client'[r] = client[r], UNCHANGED free,
         HoldsClient(r) => active' = [active EXCEPT ![BookOf(r)][client[r]] = Released(@)],
         ~HoldsClient(r) => /\ ClientHasRoom(r)
                            /\ active' = [active EXCEPT ![BookOf(r)][client[r]] = @ + 1]
  PROVE  SlotFacts' /\ active' \in [Generations -> [Clients -> Nat]]
<1>0. TypeOK /\ SlotFacts /\ BookFacts /\ UNCHANGED <<book, limits, current>>
  BY DEF IInv, OnlyThread, appVars
<1>b. PICK b \in Generations : b = BookOf(r)
  BY <1>0 DEF TypeOK, BookOf
<1>c. PICK c \in Clients : c = client[r]
  OBVIOUS
<1>d. PICK d \in {-1, 1} : HoldsClient(r) <=> d = -1
  <2>1. CASE HoldsClient(r)
    BY <2>1
  <2>2. CASE ~HoldsClient(r)
    BY <2>2
  <2> QED BY <2>1, <2>2
<1>t. active \in [Generations -> [Clients -> Nat]] /\ active[b][c] \in Nat
  BY <1>0 DEF TypeOK
<1>l. limits[view[r]].perClient \in Nat
  BY InRange
<1>n. PICK n \in Nat : /\ n = active[b][c] + d /\ n <= limits[view[r]].perClient
                       /\ active' = [active EXCEPT ![b][c] = n]
  <2>1. CASE HoldsClient(r)
    <3>1. active[b][c] >= 1 /\ active[b][c] <= limits[view[r]].perClient
      BY <1>b, <1>c, <2>1, HolderIsCounted
    <3>2. Released(active[b][c]) = active[b][c] - 1
      BY <1>t, <3>1 DEF Released
    <3>3. active' = [active EXCEPT ![b][c] = active[b][c] - 1]
      BY <1>b, <1>c, <2>1, <3>2
    <3>4. /\ active[b][c] - 1 \in Nat /\ active[b][c] - 1 = active[b][c] + d
          /\ active[b][c] - 1 <= limits[view[r]].perClient
      BY <1>d, <1>t, <1>l, <2>1, <3>1
    <3> QED BY <3>3, <3>4
  <2>2. CASE ~HoldsClient(r)
    <3>1. active[b][c] < limits[view[r]].perClient
      BY <1>b, <1>c, <2>2 DEF ClientHasRoom
    <3>2. active' = [active EXCEPT ![b][c] = active[b][c] + 1]
      BY <1>b, <1>c, <2>2
    <3>3. /\ active[b][c] + 1 \in Nat /\ active[b][c] + 1 = active[b][c] + d
          /\ active[b][c] + 1 <= limits[view[r]].perClient
      BY <1>d, <1>t, <1>l, <2>2, <3>1
    <3> QED BY <3>2, <3>3
  <2> QED BY <2>1, <2>2
<1>1. \A g : InBook(g)' = InBook(g)
  BY <1>0 DEF InBook, HoldsGlobal, HoldsClient, BookOf, OnlyThread
<1>2. \A g, e : g # b \/ e # c => InBookOf(g, e)' = InBookOf(g, e)
  BY <1>0, <1>b, <1>c DEF InBookOf, HoldsClient, BookOf, OnlyThread
<1>3. Cardinality(InBookOf(b, c)') = Cardinality(InBookOf(b, c)) + d
  <2>1. CASE ~HoldsClient(r)
    <3>1. r \notin InBookOf(b, c) /\ InBookOf(b, c)' = InBookOf(b, c) \cup {r}
      BY <1>0, <1>b, <1>c, <2>1 DEF InBookOf, HoldsClient, BookOf, OnlyThread
    <3>2. d = 1
      BY <1>d, <2>1
    <3> QED BY <3>1, <3>2, BooksFinite, OneMoreOneLess
  <2>2. CASE HoldsClient(r)
    <3>1. r \in InBookOf(b, c) /\ InBookOf(b, c)' = InBookOf(b, c) \ {r}
      BY <1>0, <1>b, <1>c, <2>2 DEF InBookOf, HoldsClient, BookOf, OnlyThread
    <3>2. Cardinality(InBookOf(b, c) \ {r}) = Cardinality(InBookOf(b, c)) - 1
      BY <3>1, BooksFinite, OneMoreOneLess
    <3>3. Cardinality(InBookOf(b, c)) \in Nat
      BY BooksFinite
    <3>4. d = -1
      BY <1>d, <2>2
    <3> QED BY <3>1, <3>2, <3>3, <3>4
  <2> QED BY <2>1, <2>2
<1>4. active'[b][c] = n
  BY <1>n, <1>t
<1>5. \A g \in Generations, e \in Clients : g # b \/ e # c => active'[g][e] = active[g][e]
  BY <1>n, <1>t
<1>6. ASSUME NEW g \in 1 .. current, NEW h, h = book[g], NEW e \in Clients
      PROVE  active'[h][e] = Cardinality(InBookOf(h, e)') /\ active'[h][e] <= limits[g].perClient
  <2>1. active[h][e] = Cardinality(InBookOf(h, e)) /\ active[h][e] <= limits[g].perClient
    BY <1>0, <1>6 DEF SlotFacts, SlotsAccounted
  <2>2. h \in Generations
    BY <1>6, InRange
  <2>3. CASE h = b /\ e = c
    <3>1. view[r] \in 1 .. current /\ b = book[view[r]]
      BY <1>b, InRange
    <3>2. limits[h] = limits[g] /\ limits[b] = limits[view[r]]
      BY <1>0, <1>6, <3>1 DEF BookFacts
    <3>3. limits[g].perClient = limits[view[r]].perClient
      BY <2>3, <3>2
    <3> QED BY <1>n, <1>3, <1>4, <2>1, <2>3, <3>3
  <2>4. CASE h # b \/ e # c
    BY <1>2, <1>5, <2>1, <2>2, <2>4
  <2> QED BY <2>3, <2>4
<1>7. SlotsAccounted'
  BY <1>0, <1>1, <1>6 DEF SlotFacts, SlotsAccounted
<1>8. active' \in [Generations -> [Clients -> Nat]]
  BY <1>n, <1>t
<1> QED BY <1>0, <1>6, <1>7, <1>8 DEF SlotFacts

\* Taking a slot of the semaphore, or being refused because none is free.
LEMMA AcquireGlobalKeeps ==
  ASSUME IInv, NEW r \in Requests, AcquireGlobal(r)
  PROVE  IInv'
<1>0. TypeOK /\ SlotFacts /\ RequestFact(r) /\ CallFact(r) /\ AuditFact(r)
  BY DEF IInv
<1>b. BookOf(r) \in Generations /\ free \in [Generations -> Nat]
  BY <1>0 DEF TypeOK, BookOf
<1>1. TypeOK'
  <2>1. CASE SlotFree(BookOf(r))
    <3>1. free[BookOf(r)] - 1 \in Nat
      BY <1>b, <2>1 DEF SlotFree
    <3>2. free' = [free EXCEPT ![BookOf(r)] = @ - 1]
      BY <2>1 DEF AcquireGlobal
    <3>3. free' \in [Generations -> Nat]
      BY <1>b, <3>1, <3>2
    <3> QED BY <1>0, <2>1, <3>3 DEF TypeOK, AcquireGlobal, Moves, Stages, appVars, auditVars,
            traceVars
  <2>2. CASE ~SlotFree(BookOf(r))
    BY <1>0, <2>2 DEF TypeOK, AcquireGlobal, Moves, EndsWith, FailureLabel, Stages, Results,
       AdapterResults, appVars, auditVars, traceVars
  <2> QED BY <2>1, <2>2
<1>2. OnlyThread(r)
  BY <1>0 DEF TypeOK, OnlyThread, AcquireGlobal, Moves, EndsWith, auditVars, traceVars
<1>3. SlotFacts'
  <2>0. /\ ~HoldsGlobal(r) /\ ~HoldsClient(r) /\ ~HoldsClient(r)'
        /\ view'[r] = view[r] /\ client'[r] = client[r]
    BY <1>0 DEF TypeOK, HoldsGlobal, HoldsClient, AcquireGlobal, Moves, EndsWith
  <2>1. CASE SlotFree(BookOf(r))
    <3>1. HoldsGlobal(r)' /\ UNCHANGED active /\ free' = [free EXCEPT ![BookOf(r)] = @ - 1]
      BY <1>0, <2>1 DEF TypeOK, HoldsGlobal, AcquireGlobal, Moves
    <3> QED BY <1>2, <2>0, <3>1, GlobalSlot
  <2>2. CASE ~SlotFree(BookOf(r))
    <3>1. ~HoldsGlobal(r)' /\ UNCHANGED slotVars
      BY <1>0, <2>2 DEF TypeOK, HoldsGlobal, HoldsClient, AcquireGlobal, Moves, EndsWith, slotVars
    <3> QED BY <1>0, <1>2, <2>0, <3>1, SlotsUntouched
  <2> QED BY <2>1, <2>2
<1>4. RequestFact(r)'
  BY <1>0 DEF TypeOK, RequestFact, AcquireGlobal, Moves, EndsWith, appVars
<1>5. CallFact(r)'
  BY <1>0 DEF TypeOK, CallFact, BeforeDispatch, Authorized, AcquireGlobal, Moves, EndsWith,
     appVars, auditVars, traceVars
<1>6. AuditFact(r)'
  <2>1. CASE SlotFree(BookOf(r))
    BY <1>0, <2>1 DEF TypeOK, AuditFact, AcquireGlobal, Moves, auditVars, traceVars
  <2>2. CASE ~SlotFree(BookOf(r))
    BY <1>0, <2>2 DEF TypeOK, AuditFact, CallFact, BeforeDispatch, Results, AdapterResults,
       AcquireGlobal, Moves, EndsWith, FailureLabel, auditVars, traceVars
  <2> QED BY <2>1, <2>2
<1> QED BY <1>1, <1>2, <1>3, <1>4, <1>5, <1>6, ThreadKeeps

\* Taking the client's place, or giving the slot back because the client has none left.
LEMMA AcquireClientKeeps ==
  ASSUME IInv, NEW r \in Requests, AcquireClient(r)
  PROVE  IInv'
<1>0. TypeOK /\ SlotFacts /\ RequestFact(r) /\ CallFact(r) /\ AuditFact(r)
  BY DEF IInv
<1>b. BookOf(r) \in Generations /\ free \in [Generations -> Nat] /\ client[r] \in Clients
  BY <1>0 DEF TypeOK, BookOf, RequestFact, AcquireClient
<1>c. current \in Nat
  BY <1>0 DEF TypeOK, Generations
<1>2. OnlyThread(r)
  BY <1>0 DEF TypeOK, OnlyThread, AcquireClient, Moves, EndsWith, auditVars
<1>3. SlotFacts' /\ TypeOK'
  <2>0. HoldsGlobal(r) /\ ~HoldsClient(r) /\ view'[r] = view[r] /\ client'[r] = client[r]
    BY <1>0 DEF TypeOK, HoldsGlobal, HoldsClient, AcquireClient
  <2>1. CASE ClientHasRoom(r)
    <3>1. HoldsGlobal(r)' /\ HoldsClient(r)' /\ UNCHANGED free
      BY <1>0, <2>1 DEF TypeOK, HoldsGlobal, HoldsClient, AcquireClient, Moves
    <3>2. active' = [active EXCEPT ![BookOf(r)][client[r]] = @ + 1]
      BY <2>1 DEF AcquireClient
    <3>3. SlotFacts' /\ active' \in [Generations -> [Clients -> Nat]]
      BY <1>b, <1>2, <2>0, <2>1, <3>1, <3>2, ClientSlot
    <3> QED BY <1>0, <1>c, <2>1, <3>3 DEF TypeOK, AcquireClient, Moves, Stages, appVars, auditVars
  <2>2. CASE ~ClientHasRoom(r)
    <3>1. ~HoldsGlobal(r)' /\ ~HoldsClient(r)' /\ UNCHANGED active
      BY <1>0, <2>2 DEF TypeOK, HoldsGlobal, HoldsClient, AcquireClient, Moves, EndsWith
    <3>2. free' = [free EXCEPT ![BookOf(r)] = @ + 1]
      BY <2>2 DEF AcquireClient, GivesBack
    <3>3. free' \in [Generations -> Nat]
      BY <1>b, <3>2
    <3>4. TypeOK'
      BY <1>0, <2>2, <3>3 DEF TypeOK, AcquireClient, Moves, EndsWith, FailureLabel, Stages,
         Results, AdapterResults, appVars, auditVars
    <3> QED BY <1>2, <2>0, <3>1, <3>2, <3>4, GlobalSlot
  <2> QED BY <2>1, <2>2
<1>4. RequestFact(r)'
  BY <1>0 DEF TypeOK, RequestFact, AcquireClient, Moves, EndsWith, appVars
<1>5. CallFact(r)'
  BY <1>0, <1>c DEF TypeOK, CallFact, BeforeDispatch, Authorized, AcquireClient, Moves, EndsWith,
     appVars, auditVars
<1>6. AuditFact(r)'
  BY <1>0 DEF TypeOK, AuditFact, CallFact, BeforeDispatch, Results, AdapterResults, AcquireClient,
     Moves, EndsWith, FailureLabel, auditVars
<1> QED BY <1>2, <1>3, <1>4, <1>5, <1>6, ThreadKeeps

\* The client's place is given back.
LEMMA ReleaseClientKeeps ==
  ASSUME IInv, NEW r \in Requests, ReleaseClient(r)
  PROVE  IInv'
<1>0. TypeOK /\ SlotFacts /\ RequestFact(r) /\ CallFact(r) /\ AuditFact(r)
  BY DEF IInv
<1>2. OnlyThread(r)
  BY <1>0 DEF TypeOK, OnlyThread, ReleaseClient, Moves, auditVars, traceVars
<1>3. SlotFacts' /\ TypeOK'
  <2>1. /\ HoldsGlobal(r) /\ HoldsClient(r) /\ HoldsGlobal(r)' /\ ~HoldsClient(r)'
        /\ view'[r] = view[r] /\ client'[r] = client[r] /\ UNCHANGED free
    BY <1>0 DEF TypeOK, HoldsGlobal, HoldsClient, ReleaseClient, Moves
  <2>2. active' = [active EXCEPT ![BookOf(r)][client[r]] = Released(@)] /\ client[r] \in Clients
    BY <1>0 DEF ReleaseClient, RequestFact
  <2>3. SlotFacts' /\ active' \in [Generations -> [Clients -> Nat]]
    BY <1>2, <2>1, <2>2, ClientSlot
  <2> QED BY <1>0, <2>3 DEF TypeOK, ReleaseClient, Moves, Stages, appVars, auditVars, traceVars
<1>4. RequestFact(r)'
  BY <1>0 DEF TypeOK, RequestFact, ReleaseClient, Moves, appVars
<1>5. CallFact(r)'
  BY <1>0 DEF TypeOK, CallFact, BeforeDispatch, Authorized, ReleaseClient, Moves, appVars,
     auditVars, traceVars
<1>6. AuditFact(r)'
  BY <1>0 DEF TypeOK, AuditFact, ReleaseClient, Moves, auditVars, traceVars
<1> QED BY <1>2, <1>3, <1>4, <1>5, <1>6, ThreadKeeps

\* The slot of the semaphore is given back.
LEMMA ReleaseGlobalKeeps ==
  ASSUME IInv, NEW r \in Requests, ReleaseGlobal(r)
  PROVE  IInv'
<1>0. TypeOK /\ SlotFacts /\ RequestFact(r) /\ CallFact(r) /\ AuditFact(r)
  BY DEF IInv
<1>b. /\ BookOf(r) \in Generations /\ free \in [Generations -> Nat]
      /\ free' = [free EXCEPT ![BookOf(r)] = @ + 1]
  BY <1>0 DEF TypeOK, BookOf, ReleaseGlobal
<1>1. TypeOK'
  <2>1. free' \in [Generations -> Nat]
    BY <1>b
  <2> QED BY <1>0, <2>1 DEF TypeOK, ReleaseGlobal, Moves, Stages, appVars, auditVars, traceVars
<1>2. OnlyThread(r)
  BY <1>0 DEF TypeOK, OnlyThread, ReleaseGlobal, Moves, auditVars, traceVars
<1>3. SlotFacts'
  <2>1. /\ HoldsGlobal(r) /\ ~HoldsClient(r) /\ ~HoldsGlobal(r)' /\ ~HoldsClient(r)'
        /\ view'[r] = view[r] /\ UNCHANGED active
    BY <1>0 DEF TypeOK, HoldsGlobal, HoldsClient, ReleaseGlobal, Moves
  <2> QED BY <1>b, <1>2, <2>1, GlobalSlot
<1>4. RequestFact(r)'
  BY <1>0 DEF TypeOK, RequestFact, ReleaseGlobal, Moves, appVars
<1>5. CallFact(r)'
  BY <1>0 DEF TypeOK, CallFact, BeforeDispatch, Authorized, ReleaseGlobal, Moves, appVars,
     auditVars, traceVars
<1>6. AuditFact(r)'
  BY <1>0 DEF TypeOK, AuditFact, ReleaseGlobal, Moves, auditVars, traceVars
<1> QED BY <1>1, <1>2, <1>3, <1>4, <1>5, <1>6, ThreadKeeps

-----------------------------------------------------------------------------
(* The control plane publishes the next application                        *)

\* What a rebuild does to the applications that have been published: nothing.
LEMMA RebuildAppends ==
  ASSUME IInv, NEW o \in BOOLEAN, NEW gr \in Grants, NEW l \in Limits, Rebuild(o, gr, l)
  PROVE  /\ current \in Nat \ {0} /\ current' = current + 1 /\ current' \in Generations
         /\ limits'[current'] = l
         /\ \A g \in 1 .. current :
              /\ g \in Generations
              /\ offered'[g] = offered[g] /\ grant'[g] = grant[g] /\ limits'[g] = limits[g]
              /\ book'[g] = book[g] /\ free'[g] = free[g] /\ active'[g] = active[g]
         /\ TypeOK'
<1>0. TypeOK
  BY DEF IInv
<1>1. current \in Nat \ {0} /\ current' = current + 1 /\ current' \in Generations
  BY <1>0, LifecycleAssumption DEF TypeOK, Generations, Rebuild
<1>2. l.total \in Nat
  BY LifecycleAssumption
<1>3. \A g \in 1 .. current : g \in Generations /\ g # current + 1
  BY <1>0, <1>1, LifecycleAssumption DEF TypeOK, Generations
<1>4. /\ offered' \in [Generations -> BOOLEAN] /\ grant' \in [Generations -> Grants]
      /\ limits' \in [Generations -> Limits]
      /\ limits'[current'] = l
      /\ \A g \in 1 .. current :
           offered'[g] = offered[g] /\ grant'[g] = grant[g] /\ limits'[g] = limits[g]
  BY <1>0, <1>1, <1>3 DEF TypeOK, Rebuild
<1>5. /\ book' \in [Generations -> Generations] /\ free' \in [Generations -> Nat]
      /\ active' \in [Generations -> [Clients -> Nat]]
      /\ \A g \in 1 .. current :
           book'[g] = book[g] /\ free'[g] = free[g] /\ active'[g] = active[g]
  <2>1. CASE SameLimits(limits[current], l)
    BY <1>0, <1>1, <1>3, <2>1 DEF TypeOK, Rebuild, slotVars
  <2>2. CASE ~SameLimits(limits[current], l)
    <3>1. book' = [book EXCEPT ![current'] = current'] /\ book \in [Generations -> Generations]
      BY <1>0, <2>2 DEF TypeOK, Rebuild
    <3>2. free' = [free EXCEPT ![current'] = l.total] /\ free \in [Generations -> Nat]
      BY <1>0, <2>2 DEF TypeOK, Rebuild
    <3>3. /\ active' = [active EXCEPT ![current'] = [c \in Clients |-> 0]]
          /\ active \in [Generations -> [Clients -> Nat]]
      BY <1>0, <2>2 DEF TypeOK, Rebuild
    <3> QED BY <1>1, <1>2, <1>3, <3>1, <3>2, <3>3
  <2> QED BY <2>1, <2>2
<1>6. TypeOK'
  BY <1>0, <1>1, <1>4, <1>5 DEF TypeOK, Rebuild, auditVars, traceVars
<1> QED BY <1>1, <1>3, <1>4, <1>5, <1>6

\* A rebuild keeps the books of a stretch together and opens an empty one for a new
\* setting of the limits.
LEMMA RebuildKeepsBooks ==
  ASSUME IInv, NEW o \in BOOLEAN, NEW gr \in Grants, NEW l \in Limits, Rebuild(o, gr, l)
  PROVE  BookFacts'
<1>0. TypeOK /\ BookFacts
  BY DEF IInv
<1>1. /\ current \in Nat \ {0} /\ current' = current + 1 /\ current' \in Generations
      /\ limits'[current'] = l
      /\ \A g \in 1 .. current : g \in Generations /\ limits'[g] = limits[g] /\ book'[g] = book[g]
  BY RebuildAppends
<1>2. \/ limits[current] = l /\ book'[current'] = book[current]
      \/ limits[current] # l /\ book'[current'] = current'
  BY <1>0, <1>1 DEF TypeOK, Rebuild, SameLimits
<1>3. \A g \in 1 .. current :
        book[g] \in 1 .. g /\ book[g] \in 1 .. current /\ limits[book[g]] = limits[g]
  BY <1>0, <1>1 DEF BookFacts
<1>4. ASSUME NEW g \in 1 .. current' PROVE book'[g] \in 1 .. g /\ limits'[book'[g]] = limits'[g]
  <2>1. CASE g \in 1 .. current
    BY <1>1, <1>3, <2>1
  <2>2. CASE g = current'
    <3>1. current \in 1 .. current
      BY <1>1
    <3> QED BY <1>1, <1>2, <1>3, <2>2, <3>1
  <2> QED BY <1>1, <2>1, <2>2
<1>5. ASSUME NEW lo \in 1 .. current', NEW hi \in 1 .. current', lo <= hi, SameThroughout(lo, hi)'
      PROVE  book'[hi] = book'[lo]
  <2>1. \A g \in lo .. hi : limits'[g] = limits'[lo]
    BY <1>5 DEF SameThroughout
  <2>2. CASE hi \in 1 .. current
    <3>1. lo \in 1 .. current /\ \A g \in lo .. hi : g \in 1 .. current
      BY <1>1, <1>5, <2>2
    <3>2. SameThroughout(lo, hi)
      BY <1>1, <2>1, <3>1 DEF SameThroughout
    <3> QED BY <1>0, <1>1, <1>5, <2>2, <3>1, <3>2 DEF BookFacts
  <2>3. CASE hi = current' /\ lo \in 1 .. current
    <3>1. current \in 1 .. current /\ current \in lo .. hi /\ hi \in lo .. hi
      BY <1>1, <2>3
    <3>2. \A g \in lo .. current : g \in 1 .. current /\ g \in lo .. hi
      BY <1>1, <2>3
    <3>3. SameThroughout(lo, current)
      BY <1>1, <2>1, <2>3, <3>2 DEF SameThroughout
    <3>4. limits[current] = l
      BY <1>1, <2>1, <2>3, <3>1
    <3>5. book[current] = book[lo]
      BY <1>0, <1>1, <2>3, <3>1, <3>3 DEF BookFacts
    <3> QED BY <1>1, <1>2, <2>3, <3>4, <3>5
  <2>4. CASE hi = current' /\ lo = current'
    BY <2>4
  <2> QED BY <1>1, <1>5, <2>2, <2>3, <2>4
<1> QED BY <1>4, <1>5 DEF BookFacts

\* A rebuild carries the reservations over, or starts with none.
LEMMA RebuildKeepsSlots ==
  ASSUME IInv, NEW o \in BOOLEAN, NEW gr \in Grants, NEW l \in Limits, Rebuild(o, gr, l)
  PROVE  SlotFacts'
<1>0. TypeOK /\ SlotFacts
  BY DEF IInv
<1>1. /\ current \in Nat \ {0} /\ current' = current + 1 /\ current' \in Generations
      /\ limits'[current'] = l
      /\ \A g \in 1 .. current :
           /\ g \in Generations /\ limits'[g] = limits[g]
           /\ book'[g] = book[g] /\ free'[g] = free[g] /\ active'[g] = active[g]
  BY RebuildAppends
<1>2. UNCHANGED <<stage, client, view>>
  BY DEF Rebuild
<1>3. \A r \in Requests : /\ BookOf(r)' = BookOf(r) /\ BookOf(r) \in 1 .. current
                          /\ (HoldsGlobal(r)' <=> HoldsGlobal(r))
                          /\ (HoldsClient(r)' <=> HoldsClient(r))
  BY <1>1, <1>2, InRange DEF BookOf, HoldsGlobal, HoldsClient
<1>4. ASSUME NEW g PROVE InBook(g)' = InBook(g) /\ \A c : InBookOf(g, c)' = InBookOf(g, c)
  BY <1>2, <1>3 DEF InBook, InBookOf
<1>5. ASSUME NEW g \in 1 .. current
      PROVE  /\ free'[book[g]] + Cardinality(InBook(book[g])) = limits[g].total
             /\ \A c \in Clients : /\ active'[book[g]][c] = Cardinality(InBookOf(book[g], c))
                                   /\ active'[book[g]][c] <= limits[g].perClient
  BY <1>0, <1>1, <1>5, InRange DEF SlotFacts, SlotsAccounted
<1>6. ASSUME NEW g \in 1 .. current', NEW h, h = book'[g]
      PROVE  /\ free'[h] + Cardinality(InBook(h)') = limits'[g].total
             /\ \A c \in Clients : /\ active'[h][c] = Cardinality(InBookOf(h, c)')
                                   /\ active'[h][c] <= limits'[g].perClient
  <2>1. CASE g \in 1 .. current
    BY <1>1, <1>4, <1>5, <1>6, <2>1
  <2>2. CASE g = current' /\ limits[current] = l
    <3>1. h = book[current] /\ current \in 1 .. current
      BY <1>0, <1>1, <1>6, <2>2 DEF TypeOK, Rebuild, SameLimits
    <3> QED BY <1>1, <1>4, <1>5, <2>2, <3>1
  <2>3. CASE g = current' /\ limits[current] # l
    <3>1. h = current' /\ free'[h] = l.total /\ \A c \in Clients : active'[h][c] = 0
      BY <1>0, <1>1, <1>6, <2>3 DEF TypeOK, Rebuild, SameLimits
    <3>2. InBook(h) = {} /\ \A c : InBookOf(h, c) = {}
      BY <1>1, <1>3, <3>1 DEF InBook, InBookOf
    <3>3. Cardinality({}) = 0
      BY FS_EmptySet
    <3>4. l.total \in Nat /\ l.perClient \in Nat
      BY LifecycleAssumption
    <3>5. limits'[g].total = l.total /\ limits'[g].perClient = l.perClient
      BY <1>1, <2>3
    <3>6. Cardinality(InBook(h)') = 0 /\ \A c : Cardinality(InBookOf(h, c)') = 0
      BY <1>4, <3>2, <3>3
    <3> QED BY <3>1, <3>4, <3>5, <3>6
  <2> QED BY <1>1, <2>1, <2>2, <2>3
<1> QED BY <1>6 DEF SlotFacts, SlotsAccounted

\* A rebuild keeps the invariant: authorities that dispatches were based on stay
\* what they were.
LEMMA RebuildKeeps ==
  ASSUME IInv, NEW o \in BOOLEAN, NEW gr \in Grants, NEW l \in Limits, Rebuild(o, gr, l)
  PROVE  IInv'
<1>1. /\ current \in Nat \ {0} /\ current' = current + 1 /\ TypeOK'
      /\ \A g \in 1 .. current : offered'[g] = offered[g] /\ grant'[g] = grant[g]
  BY RebuildAppends
<1>2. UNCHANGED <<stage, client, mode, view, result, executed, auditVars, traceVars>>
  BY DEF Rebuild
<1>3. ASSUME NEW r \in Requests PROVE RequestFact(r)' /\ CallFact(r)' /\ AuditFact(r)'
  <2>0. RequestFact(r) /\ CallFact(r) /\ AuditFact(r) /\ TypeOK
    BY DEF IInv
  <2>1. RequestFact(r)'
    BY <1>1, <1>2, <2>0 DEF RequestFact
  <2>2. CallFact(r)'
    BY <1>1, <1>2, <2>0 DEF CallFact, Authorized, TypeOK, auditVars, traceVars
  <2>3. AuditFact(r)'
    BY <1>2, <2>0 DEF AuditFact, auditVars, traceVars
  <2> QED BY <2>1, <2>2, <2>3
<1> QED BY <1>1, <1>3, RebuildKeepsBooks, RebuildKeepsSlots DEF IInv

\* A step that changes no variable keeps the invariant.
LEMMA StutterKeeps ==
  ASSUME IInv, UNCHANGED vars
  PROVE  IInv'
<1>1. TypeOK'
  BY DEF IInv, TypeOK, vars, appVars, slotVars, auditVars, traceVars
<1>2. BookFacts'
  BY DEF IInv, BookFacts, SameThroughout, vars, appVars
<1>3. SlotFacts'
  <2>1. ASSUME NEW g PROVE InBook(g)' = InBook(g) /\ \A c : InBookOf(g, c)' = InBookOf(g, c)
    BY DEF InBook, InBookOf, HoldsGlobal, HoldsClient, BookOf, vars, appVars
  <2> QED BY <2>1 DEF IInv, SlotFacts, SlotsAccounted, vars, appVars, slotVars
<1>4. ASSUME NEW r \in Requests PROVE RequestFact(r)' /\ CallFact(r)' /\ AuditFact(r)'
  BY DEF IInv, RequestFact, CallFact, AuditFact, Authorized, vars, appVars, auditVars, traceVars
<1> QED BY <1>1, <1>2, <1>3, <1>4 DEF IInv

\* The invariant is inductive and holds in every reachable state.
THEOREM Invariance == Spec => []IInv
<1>1. Init => IInv
  BY InitEstablishes
<1>2. IInv /\ [Next]_vars => IInv'
  <2> SUFFICES ASSUME IInv, [Next]_vars PROVE IInv'
    OBVIOUS
  <2>1. ASSUME NEW o \in BOOLEAN, NEW gr \in Grants, NEW l \in Limits, Rebuild(o, gr, l)
        PROVE  IInv'
    BY <2>1, RebuildKeeps
  <2>2. ASSUME NEW r \in Requests, Ingress(r) PROVE IInv'
    BY <2>2, AuthenticateKeeps, EnterDirectKeeps, EnterPublishedKeeps, TurnAwayKeeps DEF Ingress
  <2>3. ASSUME NEW r \in Requests, Admission(r) PROVE IInv'
    BY <2>3, AdmitKeeps, RefuseKeeps, AcquireGlobalKeeps, AcquireClientKeeps DEF Admission
  <2>4. ASSUME NEW r \in Requests, Execution(r) PROVE IInv'
    BY <2>4, CheckAuthorityKeeps, RefuseDispatchKeeps, DispatchKeeps, AdapterReturnsKeeps
       DEF Execution
  <2>5. ASSUME NEW r \in Requests, Ending(r) PROVE IInv'
    BY <2>5, ReleaseClientKeeps, ReleaseGlobalKeeps, AppendTrailKeeps, StoreKeeps,
       StoreFailsKeeps DEF Ending
  <2>6. CASE UNCHANGED vars
    BY <2>6, StutterKeeps
  <2> QED BY <2>1, <2>2, <2>3, <2>4, <2>5, <2>6 DEF Next, Thread, Idle
<1> QED BY <1>1, <1>2, PTL DEF Spec

-----------------------------------------------------------------------------
(* The properties                                                          *)

\* Every variable keeps its type; no counter of slots is ever negative.
THEOREM TypeCorrect == Spec => []TypeOK
<1>1. IInv => TypeOK
  BY DEF IInv
<1> QED BY <1>1, Invariance, PTL

\* No slot of a reservation leaks or is given back twice, on any path of a request
\* and across any number of rebuilds.
THEOREM SlotsNeverLeak == Spec => []SlotsAccounted
<1>1. IInv => SlotsAccounted
  BY DEF IInv, SlotFacts
<1> QED BY <1>1, Invariance, PTL

\* A book never has more holders than either of its limits allows.
LEMMA BookWithinLimits ==
  ASSUME IInv, NEW g \in 1 .. current, NEW h, h = book[g]
  PROVE  /\ Cardinality(InBook(h)) <= limits[g].total
         /\ \A c \in Clients : Cardinality(InBookOf(h, c)) <= limits[g].perClient
<1>1. /\ free[h] + Cardinality(InBook(h)) = limits[g].total
      /\ \A c \in Clients : /\ active[h][c] = Cardinality(InBookOf(h, c))
                            /\ active[h][c] <= limits[g].perClient
  BY DEF IInv, SlotFacts, SlotsAccounted
<1>2. free[h] \in Nat /\ limits[g].total \in Nat /\ Cardinality(InBook(h)) \in Nat
  BY InRange, BooksFinite DEF IInv, TypeOK
<1> QED BY <1>1, <1>2

\* The limits of a stretch of applications hold for its requests together, because
\* the stretch has one book.
LEMMA StretchBounded == IInv => ConcurrencyBounded
<1> SUFFICES ASSUME IInv, NEW lo \in 1 .. current, NEW hi \in 1 .. current,
                    SameThroughout(lo, hi)
             PROVE  /\ Cardinality(RunningIn(lo, hi)) <= limits[lo].total
                    /\ \A c \in Clients :
                         Cardinality({r \in RunningIn(lo, hi) : client[r] = c})
                           <= limits[lo].perClient
  BY DEF ConcurrencyBounded
<1>0. current \in Nat
  BY DEF IInv, TypeOK, Generations
<1>1. PICK h : h = book[lo]
  OBVIOUS
<1>2. ASSUME NEW r \in RunningIn(lo, hi) PROVE r \in Requests /\ HoldsClient(r) /\ BookOf(r) = h
  <2>1. r \in Requests /\ HoldsClient(r) /\ view[r] \in lo .. hi /\ view[r] \in 1 .. current
    BY InRange DEF RunningIn
  <2>2. lo <= view[r] /\ SameThroughout(lo, view[r])
    BY <1>0, <2>1 DEF SameThroughout
  <2> QED BY <1>1, <2>1, <2>2 DEF IInv, BookFacts, BookOf
<1>3. RunningIn(lo, hi) \subseteq InBook(h)
  BY <1>2 DEF InBook, HoldsGlobal
<1>4. \A c : {r \in RunningIn(lo, hi) : client[r] = c} \subseteq InBookOf(h, c)
  BY <1>2 DEF InBookOf
<1>5. /\ Cardinality(RunningIn(lo, hi)) <= Cardinality(InBook(h))
      /\ Cardinality(RunningIn(lo, hi)) \in Nat
  BY <1>3, BooksFinite, FS_Subset, FS_CardinalityType
<1>6. ASSUME NEW c \in Clients
      PROVE  Cardinality({r \in RunningIn(lo, hi) : client[r] = c}) <= limits[lo].perClient
  <2> DEFINE R == {r \in RunningIn(lo, hi) : client[r] = c}
  <2>1. R \subseteq InBookOf(h, c)
    BY <1>4
  <2> HIDE DEF R
  <2>2. /\ Cardinality(R) <= Cardinality(InBookOf(h, c)) /\ Cardinality(R) \in Nat
        /\ Cardinality(InBookOf(h, c)) \in Nat
    BY <2>1, BooksFinite, FS_Subset, FS_CardinalityType
  <2>3. Cardinality(InBookOf(h, c)) <= limits[lo].perClient /\ limits[lo].perClient \in Nat
    BY <1>1, BookWithinLimits, InRange
  <2>4. Cardinality(R) <= limits[lo].perClient
    BY <2>2, <2>3
  <2> QED BY <2>4 DEF R
<1>7. /\ Cardinality(InBook(h)) <= limits[lo].total
      /\ limits[lo].total \in Nat /\ Cardinality(InBook(h)) \in Nat
  BY <1>1, BookWithinLimits, InRange, BooksFinite
<1> QED BY <1>5, <1>6, <1>7

\* Limits are not reset by a rebuild that keeps them: over every stretch of
\* applications with one setting, all requests together and each client's respect it.
THEOREM LimitsSurviveRebuilds == Spec => []ConcurrencyBounded
BY StretchBounded, Invariance, PTL

\* The concurrency promise as a whole: every slot is counted, whatever path a
\* request takes, and no stretch of applications is overdrawn.
THEOREM ConcurrencyKept == Spec => []ConcurrencyIsKept
<1>1. IInv => ConcurrencyIsKept
  BY StretchBounded DEF IInv, SlotFacts, ConcurrencyIsKept
<1> QED BY <1>1, Invariance, PTL

\* Nothing is dispatched on an authority older than the request's reservation.
THEOREM AuthorityIsFresh == Spec => []FreshAuthority
<1>1. IInv => FreshAuthority
  BY DEF IInv, CallFact, FreshAuthority
<1> QED BY <1>1, Invariance, PTL

\* Audit records say "rejected" exactly when no backend was called, which happens
\* at most once per request.
THEOREM RecordsAreHonest == Spec => []RecordMatchesCalls
<1>1. IInv => RecordMatchesCalls
  BY DEF IInv, CallFact, AuditFact, RecordMatchesCalls
<1> QED BY <1>1, Invariance, PTL

\* A client is told an outcome exactly when the durable store has its completed record.
THEOREM OutcomeIsDurable == Spec => []DurableRecordAgrees
<1>1. IInv => DurableRecordAgrees
  BY DEF IInv, AuditFact, DurableRecordAgrees
<1> QED BY <1>1, Invariance, PTL

\* The trail, the durable store and the client are told the same.
THEOREM RecordsStayInAgreement == Spec => []RecordsAgree
<1>1. RecordMatchesCalls /\ DurableRecordAgrees => RecordsAgree
  BY DEF RecordsAgree
<1> QED BY <1>1, RecordsAreHonest, OutcomeIsDurable, PTL

-----------------------------------------------------------------------------
(* Refinement                                                              *)

\* The step of a thread that changes neither who sent it nor its place is no step of
\* the pool.
LEMMA NoPoolStep ==
  ASSUME NEW r \in Requests, OnlyThread(r), UNCHANGED client,
         HoldsClient(r)' <=> HoldsClient(r), HoldsClient(r) => view'[r] = view[r]
  PROVE  UNCHANGED Pool!poolVars
<1>1. UNCHANGED <<current, limits, book>>
  BY DEF OnlyThread, appVars
<1>2. ASSUME NEW g PROVE PlacesIn(g)' = PlacesIn(g)
  BY <1>1 DEF PlacesIn, HoldsClient, BookOf, OnlyThread
<1> QED BY <1>1, <1>2 DEF Pool!poolVars

\* Publishing an application opens a pool.
LEMMA RebuildOpens ==
  ASSUME IInv, NEW o \in BOOLEAN, NEW gr \in Grants, NEW l \in Limits, Rebuild(o, gr, l)
  PROVE  Pool!Open(current', l)
<1>1. /\ current \in Nat \ {0} /\ current' = current + 1
      /\ \A g \in 1 .. current : book'[g] = book[g]
  BY RebuildAppends
<1>2. current' \notin 1 .. current /\ 1 .. current' = (1 .. current) \cup {current'}
  BY <1>1
<1>3. limits' = [limits EXCEPT ![current'] = l] /\ UNCHANGED <<stage, client, view>>
  BY DEF Rebuild
<1>4. ASSUME NEW g PROVE PlacesIn(g)' = PlacesIn(g)
  BY <1>1, <1>3, InRange DEF PlacesIn, HoldsClient, BookOf
<1> QED BY <1>2, <1>3, <1>4 DEF Pool!Open

\* Naming the client of an idle request is its arrival.
LEMMA AuthenticateArrives ==
  ASSUME IInv, NEW r \in Requests, NEW c \in Clients, Authenticate(r, c)
  PROVE  Pool!Arrive(r, c)
<1>1. UNCHANGED <<current, limits, book, view>> /\ client' = [client EXCEPT ![r] = c]
  BY DEF Authenticate, appVars
<1>2. \A q \in Requests : HoldsClient(q)' <=> HoldsClient(q)
  BY DEF IInv, TypeOK, Authenticate, Moves, HoldsClient
<1>3. ASSUME NEW g PROVE PlacesIn(g)' = PlacesIn(g)
  BY <1>1, <1>2 DEF PlacesIn, BookOf
<1>4. \A g : r \notin PlacesIn(g)
  BY DEF PlacesIn, HoldsClient, Authenticate
<1> QED BY <1>1, <1>3, <1>4 DEF Pool!Arrive

\* The pool counts with the same Cardinality.
LEMMA PoolCardinality == \A S : Pool!Cardinality(S) = Cardinality(S)
BY Zenon DEF Pool!Cardinality, Cardinality

\* The second half of a reservation enters the pool, which has room: the request
\* already holds a slot of the semaphore and no place.
LEMMA AcquireClientEnters ==
  ASSUME IInv, NEW r \in Requests, AcquireClient(r), ClientHasRoom(r)
  PROVE  \E p \in Generations : Pool!Enter(p, r)
<1>0. TypeOK /\ BookFacts /\ SlotFacts
  BY DEF IInv
<1>1. /\ UNCHANGED <<current, limits, book, view, client>> /\ client[r] \in Clients
      /\ view[r] \in 1 .. current
  BY InRange DEF IInv, RequestFact, AcquireClient, appVars
<1>2. PICK p \in Generations : p = BookOf(r) /\ p = book[view[r]] /\ p \in 1 .. current
  BY <1>1, InRange DEF BookOf
<1>3. ~HoldsClient(r) /\ HoldsClient(r)' /\ HoldsGlobal(r)
  BY <1>0 DEF TypeOK, AcquireClient, Moves, HoldsClient, HoldsGlobal
<1>4. \A q \in Requests \ {r} : HoldsClient(q)' <=> HoldsClient(q)
  BY <1>0 DEF TypeOK, AcquireClient, Moves, EndsWith, HoldsClient
<1>5. ASSUME NEW g PROVE PlacesIn(g)' = IF g = p THEN PlacesIn(g) \cup {r} ELSE PlacesIn(g)
  BY <1>1, <1>2, <1>3, <1>4 DEF PlacesIn, BookOf
<1>6. limits[p] = limits[view[r]]
  BY <1>0, <1>1, <1>2 DEF BookFacts
<1>7. Cardinality(PlacesIn(p)) < limits[p].total
  <2>1. r \notin PlacesIn(p) /\ PlacesIn(p) \cup {r} \subseteq InBook(p)
    BY <1>2, <1>3 DEF PlacesIn, InBook, HoldsGlobal
  <2>2. /\ PlacesIn(p) \subseteq Requests
        /\ IsFiniteSet(PlacesIn(p)) /\ Cardinality(PlacesIn(p)) \in Nat
    BY LifecycleAssumption, FS_Subset, FS_CardinalityType DEF PlacesIn
  <2>3. Cardinality(PlacesIn(p) \cup {r}) = Cardinality(PlacesIn(p)) + 1
    BY <2>1, <2>2, OneMoreOneLess
  <2>4. /\ Cardinality(PlacesIn(p) \cup {r}) <= Cardinality(InBook(p))
        /\ Cardinality(InBook(p)) \in Nat
    BY <2>1, BooksFinite, FS_Subset
  <2>5. Cardinality(InBook(p)) <= limits[p].total /\ limits[p].total \in Nat
    BY <1>1, <1>2, <1>6, BookWithinLimits, InRange
  <2> QED BY <2>2, <2>3, <2>4, <2>5
<1>8. Cardinality({q \in PlacesIn(p) : client[q] = client[r]}) < limits[p].perClient
  <2>1. {q \in PlacesIn(p) : client[q] = client[r]} = InBookOf(p, client[r])
    BY DEF PlacesIn, InBookOf
  <2>2. active[p][client[r]] = Cardinality(InBookOf(p, client[r]))
    BY <1>0, <1>1, <1>2 DEF SlotFacts, SlotsAccounted
  <2>3. active[p][client[r]] < limits[view[r]].perClient
    BY <1>2 DEF ClientHasRoom
  <2> QED BY <1>6, <2>1, <2>2, <2>3
<1>9. [g \in Generations |-> PlacesIn(g)']
           = [[g \in Generations |-> PlacesIn(g)] EXCEPT ![p] = @ \cup {r}]
  BY <1>5
<1> QED BY <1>1, <1>2, <1>7, <1>8, <1>9, PoolCardinality DEF Pool!Enter, Pool!OfClient

\* The first half of a release leaves the pool.
LEMMA ReleaseClientLeaves ==
  ASSUME IInv, NEW r \in Requests, ReleaseClient(r)
  PROVE  \E p \in Generations : Pool!Leave(p, r)
<1>0. TypeOK
  BY DEF IInv
<1>1. UNCHANGED <<current, limits, book, view, client>>
  BY DEF ReleaseClient, appVars
<1>2. PICK p \in Generations : p = BookOf(r) /\ p = book[view[r]]
  BY <1>0 DEF TypeOK, BookOf
<1>3. HoldsClient(r) /\ ~HoldsClient(r)'
  BY <1>0 DEF TypeOK, ReleaseClient, Moves, HoldsClient
<1>4. \A q \in Requests \ {r} : HoldsClient(q)' <=> HoldsClient(q)
  BY <1>0 DEF TypeOK, ReleaseClient, Moves, HoldsClient
<1>5. ASSUME NEW g PROVE PlacesIn(g)' = IF g = p THEN PlacesIn(g) \ {r} ELSE PlacesIn(g)
  BY <1>1, <1>2, <1>3, <1>4 DEF PlacesIn, BookOf
<1>6. r \in PlacesIn(p)
  BY <1>2, <1>3 DEF PlacesIn
<1>7. [g \in Generations |-> PlacesIn(g)']
           = [[g \in Generations |-> PlacesIn(g)] EXCEPT ![p] = @ \ {r}]
  BY <1>5
<1> QED BY <1>1, <1>2, <1>6, <1>7 DEF Pool!Leave

\* Every step of a thread is a step of the pool or none.
LEMMA ThreadMaps ==
  ASSUME IInv, NEW r \in Requests, Thread(r)
  PROVE  [Pool!Next]_(Pool!poolVars)
<1>0. TypeOK
  BY DEF IInv
<1> DEFINE Quiet == /\ OnlyThread(r) /\ UNCHANGED client
                    /\ HoldsClient(r)' <=> HoldsClient(r)
                    /\ HoldsClient(r) => view'[r] = view[r]
<1>q. ASSUME Quiet PROVE UNCHANGED Pool!poolVars
  BY <1>q, NoPoolStep
<1>1. ASSUME NEW c \in Clients, Authenticate(r, c) PROVE Pool!Next
  BY <1>1, AuthenticateArrives DEF Pool!Next
<1>2. CASE EnterDirect(r) \/ EnterPublished(r) \/ TurnAway(r) \/ Admit(r) \/ Refuse(r)
  <2>1. Quiet
    BY <1>0, <1>2 DEF TypeOK, OnlyThread, HoldsClient, EnterDirect, EnterPublished, TurnAway,
       Admit, Refuse, Moves, EndsWith, auditVars, traceVars
  <2> QED BY <1>q, <2>1
<1>3. CASE AcquireGlobal(r)
  <2>1. Quiet
    BY <1>0, <1>3 DEF TypeOK, OnlyThread, HoldsClient, AcquireGlobal, Moves, EndsWith,
       auditVars, traceVars
  <2> QED BY <1>q, <2>1
<1>4. CASE AcquireClient(r) /\ ClientHasRoom(r)
  BY <1>4, AcquireClientEnters DEF Pool!Next
<1>5. CASE AcquireClient(r) /\ ~ClientHasRoom(r)
  <2>1. Quiet
    BY <1>0, <1>5 DEF TypeOK, OnlyThread, HoldsClient, AcquireClient, Moves, EndsWith, auditVars
  <2> QED BY <1>q, <2>1
<1>6. CASE CheckAuthority(r) \/ RefuseDispatch(r) \/ Dispatch(r)
  <2>1. Quiet
    BY <1>0, <1>6 DEF TypeOK, OnlyThread, HoldsClient, CheckAuthority, RefuseDispatch, Dispatch,
       Moves, EndsWith, auditVars, traceVars
  <2> QED BY <1>q, <2>1
<1>7. ASSUME NEW res \in AdapterResults, AdapterReturns(r, res) PROVE UNCHANGED Pool!poolVars
  <2>1. Quiet
    BY <1>0, <1>7 DEF TypeOK, OnlyThread, HoldsClient, AdapterReturns, Moves, EndsWith,
       auditVars, traceVars
  <2> QED BY <1>q, <2>1
<1>8. CASE ReleaseClient(r)
  BY <1>8, ReleaseClientLeaves DEF Pool!Next
<1>9. CASE ReleaseGlobal(r) \/ AppendTrail(r) \/ Store(r) \/ StoreFails(r)
  <2>1. Quiet
    BY <1>0, <1>9 DEF TypeOK, OnlyThread, HoldsClient, ReleaseGlobal, AppendTrail, Store,
       StoreFails, Moves, EndsWith, auditVars, traceVars
  <2> QED BY <1>q, <2>1
<1> HIDE DEF Quiet
<1> QED BY <1>1, <1>2, <1>3, <1>4, <1>5, <1>6, <1>7, <1>8, <1>9
        DEF Thread, Ingress, Admission, Execution, Ending

\* The two-step reservation under two locks, its release, and the books carried
\* across rebuilds implement the pool that admits in one step.
THEOREM Implements == Spec => ImplementsPool
<1>1. Init => Pool!Init
  <2> SUFFICES ASSUME Init PROVE Pool!Init
    OBVIOUS
  <2>1. 1 .. current \subseteq Generations
    BY LifecycleAssumption DEF Init, Generations
  <2>2. \A g : PlacesIn(g) = {}
    BY DEF Init, PlacesIn, HoldsClient
  <2>3. limits \in [Generations -> Limits] /\ client = [r \in Requests |-> NoClient]
    BY LifecycleAssumption DEF Init
  <2> QED BY <2>1, <2>2, <2>3 DEF Pool!Init
<1>2. IInv /\ [Next]_vars => [Pool!Next]_(Pool!poolVars)
  <2> SUFFICES ASSUME IInv, [Next]_vars PROVE [Pool!Next]_(Pool!poolVars)
    OBVIOUS
  <2>1. ASSUME NEW o \in BOOLEAN, NEW gr \in Grants, NEW l \in Limits, Rebuild(o, gr, l)
        PROVE  Pool!Next
    <3>1. current' \in Generations
      BY <2>1, RebuildAppends
    <3> QED BY <2>1, <3>1, RebuildOpens DEF Pool!Next
  <2>2. ASSUME NEW r \in Requests, Thread(r) PROVE [Pool!Next]_(Pool!poolVars)
    BY <2>2, ThreadMaps
  <2>3. CASE UNCHANGED vars
    <3>1. UNCHANGED <<current, limits, book, stage, view, client>>
      BY <2>3 DEF vars, appVars
    <3>2. ASSUME NEW g PROVE PlacesIn(g)' = PlacesIn(g)
      BY <3>1 DEF PlacesIn, HoldsClient, BookOf
    <3> QED BY <3>1, <3>2 DEF Pool!poolVars
  <2> QED BY <2>1, <2>2, <2>3 DEF Next, Idle
<1> QED BY <1>1, <1>2, Invariance, PTL DEF Spec, ImplementsPool, Pool!Spec
=============================================================================
