------------------------- MODULE ControlPlaneProofs -------------------------
(***************************************************************************)
(* The control plane, for every number of administrators, workers, clients  *)
(* and reports, every configuration and every bound: ControlIInv and        *)
(* FeedIInv are inductive, and the properties the run checks follow.        *)
(***************************************************************************)
EXTENDS ControlPlane, SequenceTheorems, FiniteSetTheorems, WellFoundedInduction, TLAPS

-----------------------------------------------------------------------------
(* Sequences *)

\* A sequence is one of what is in it.
LEMMA SequenceOfItsOwn == ASSUME NEW S, NEW q \in Seq(S) PROVE q \in Seq(ToSet(q)) /\ ToSet(q) \subseteq S
<1>1. Len(q) \in Nat /\ DOMAIN q = 1..Len(q) /\ q = [k \in 1..Len(q) |-> q[k]]
  OBVIOUS
<1>2. q \in [1..Len(q) -> ToSet(q)]
  BY <1>1 DEF ToSet
<1>3. q \in Seq(ToSet(q))
  BY <1>1, <1>2, SeqDef
<1>4. ToSet(q) \subseteq S
  BY DEF ToSet
<1> QED BY <1>3, <1>4

\* What is appended joins what was there.
LEMMA AppendedSet ==
    ASSUME NEW S, NEW q \in Seq(S), NEW e
    PROVE  /\ Append(q, e) \in Seq(ToSet(Append(q, e))) /\ Len(Append(q, e)) = Len(q) + 1
           /\ \A k \in DOMAIN q : Append(q, e)[k] = q[k]
           /\ Append(q, e)[Len(q) + 1] = e
           /\ DOMAIN Append(q, e) = 1..Len(q) + 1
<1>1. q \in Seq(S \union {e}) /\ e \in S \union {e}
  BY SeqDef
<1>2. Append(q, e) \in Seq(S \union {e}) /\ Len(Append(q, e)) = Len(q) + 1 /\ Append(q, e)[Len(q) + 1] = e
      /\ \A k \in 1..Len(q) : Append(q, e)[k] = q[k]
  BY <1>1
<1>3. DOMAIN Append(q, e) = 1..Len(q) + 1
  BY <1>2
<1>4. Append(q, e) \in Seq(ToSet(Append(q, e)))
  BY <1>2, SequenceOfItsOwn
<1>5. DOMAIN q = 1..Len(q)
  OBVIOUS
<1> QED BY <1>2, <1>3, <1>4, <1>5

\* What is left of a prefix is a sequence of the same things: by the least length for which it is not.
LEMMA KeptOfPrefix ==
    ASSUME NEW S, NEW N \in Nat, NEW q \in [1..N -> S], NEW gone
    PROVE  Kept(q, gone, N) \in Seq(S)
<1> DEFINE Step(g, i) == g[i] = IF i = 0 THEN <<>> ELSE IF q[i] \in gone THEN g[i - 1] ELSE Append(g[i - 1], q[i])
           Fits(n) == \E g \in [0..n -> Seq(S)] : \A i \in 0..n : Step(g, i)
           T == {n \in 0..N : ~Fits(n)}
<1>1. T = {}
  <2> SUFFICES ASSUME T # {} PROVE FALSE
    OBVIOUS
  <2>1. PICK n \in T : \A m \in T : ~(m < n)
    <3>1. T \subseteq Nat
      OBVIOUS
    <3>2. PICK n \in T : \A m \in T : <<m, n>> \notin OpToRel(<, Nat)
      BY <3>1, NatLessThanWellFounded, WFMin
    <3> QED BY <3>1, <3>2 DEF OpToRel
  <2>2. n \in Nat /\ n <= N
    OBVIOUS
  <2>3. CASE n = 0
    <3> DEFINE z == [i \in 0..0 |-> <<>>]
    <3>1. z \in [0..0 -> Seq(S)] /\ \A i \in 0..0 : i = 0 /\ z[i] = <<>>
      OBVIOUS
    <3>2. Fits(0)
      BY <3>1
    <3> QED BY <2>3, <3>2
  <2>4. CASE n # 0
    <3>1. n - 1 \in 0..N /\ n - 1 < n /\ n - 1 \in Nat
      BY <2>2, <2>4
    <3>2. PICK g \in [0..n - 1 -> Seq(S)] : \A i \in 0..n - 1 : Step(g, i)
      BY <2>1, <3>1
    <3> DEFINE v == IF q[n] \in gone THEN g[n - 1] ELSE Append(g[n - 1], q[n])
               h == [i \in 0..n |-> IF i = n THEN v ELSE g[i]]
    <3>3. q[n] \in S /\ g[n - 1] \in Seq(S)
      BY <2>2, <2>4, <3>1
    <3>4. v \in Seq(S)
      BY <3>3
    <3>5. h \in [0..n -> Seq(S)]
      BY <2>2, <3>1, <3>2, <3>4
    <3>6. \A i \in 0..n : Step(h, i)
      <4> SUFFICES ASSUME NEW i \in 0..n PROVE Step(h, i)
        OBVIOUS
      <4>1. CASE i = n
        BY <4>1, <2>2, <2>4, <3>1
      <4>2. CASE i # n
        <5>1. i \in 0..n - 1 /\ Step(g, i) /\ h[i] = g[i] /\ (i # 0 => h[i - 1] = g[i - 1])
          <6>1. i \in 0..n - 1 /\ (i # 0 => i - 1 \in 0..n /\ i - 1 # n)
            BY <4>2, <2>2, <3>1
          <6> QED BY <6>1, <3>2, <4>2
        <5> QED BY <5>1
      <4> QED BY <4>1, <4>2
    <3>7. Fits(n)
      BY <3>5, <3>6
    <3> QED BY <3>7
  <2> QED BY <2>3, <2>4
<1> DEFINE kept == CHOOSE g : g = [i \in 0..N |-> IF i = 0 THEN <<>> ELSE IF q[i] \in gone THEN g[i - 1] ELSE Append(g[i - 1], q[i])]
<1>2. PICK g \in [0..N -> Seq(S)] : \A i \in 0..N : Step(g, i)
  <2> HIDE DEF T
  <2>1. N \in 0..N /\ N \notin T
    BY <1>1
  <2> USE DEF T
  <2> QED BY <2>1
<1>3. g = [i \in 0..N |-> IF i = 0 THEN <<>> ELSE IF q[i] \in gone THEN g[i - 1] ELSE Append(g[i - 1], q[i])]
  BY <1>2
<1>4. kept = [i \in 0..N |-> IF i = 0 THEN <<>> ELSE IF q[i] \in gone THEN kept[i - 1] ELSE Append(kept[i - 1], q[i])]
  BY <1>3
<1> HIDE DEF kept
<1> DEFINE U == {n \in 0..N : kept[n] \notin Seq(S)}
<1>5. U = {}
  <2> SUFFICES ASSUME U # {} PROVE FALSE
    OBVIOUS
  <2>1. PICK n \in U : \A m \in U : ~(m < n)
    <3>1. U \subseteq Nat
      OBVIOUS
    <3>2. PICK n \in U : \A m \in U : <<m, n>> \notin OpToRel(<, Nat)
      BY <3>1, NatLessThanWellFounded, WFMin
    <3> QED BY <3>1, <3>2 DEF OpToRel
  <2>2. n \in Nat /\ n <= N
    OBVIOUS
  <2>3. CASE n = 0
    BY <1>4, <2>2, <2>3
  <2>4. CASE n # 0
    <3>1. n - 1 \in 0..N /\ n - 1 < n /\ n \in 1..N /\ n \in 0..N
      BY <2>2, <2>4
    <3>2. kept[n - 1] \in Seq(S) /\ q[n] \in S
      BY <2>1, <3>1
    <3>3. kept[n] = IF q[n] \in gone THEN kept[n - 1] ELSE Append(kept[n - 1], q[n])
      BY <1>4, <2>4, <3>1
    <3>4. kept[n] \in Seq(S)
      BY <3>2, <3>3
    <3> QED BY <3>4
  <2> QED BY <2>3, <2>4
<1>6. N \in 0..N /\ N \notin U
  BY <1>5
<1>7. kept[N] \in Seq(S)
  BY <1>6
<1> QED BY <1>7 DEF kept, Kept

\* Dropping leaves a sequence of the same things.
LEMMA DroppingKeeps ==
    ASSUME NEW S, NEW q \in Seq(S), NEW gone
    PROVE  Dropping(q, gone) \in Seq(S)
<1>1. Len(q) \in Nat /\ q \in [1..Len(q) -> S]
  OBVIOUS
<1> QED BY <1>1, KeptOfPrefix DEF Dropping

-----------------------------------------------------------------------------
(* The feed *)

\* An event that is appended follows the last, and the floor rises with what is discarded.
LEMMA AppendEventKeeps ==
    ASSUME NEW f, NEW doc, IsFeed(f)
    PROVE  /\ IsFeed(AppendEvent(f, doc))
           /\ AppendEvent(f, doc).sem = doc /\ AppendEvent(f, doc).epoch = f.epoch
<1> DEFINE e == [n |-> f.seq + 1, epoch |-> f.epoch, doc |-> doc]
           q == Append(f.events, e)
           kept == IF Len(q) > MaxEvents THEN Tail(q) ELSE q
           floor == IF Len(q) > MaxEvents THEN Head(q).n ELSE f.floor
<1>1. f.epoch \in Nat /\ f.start \in Nat /\ f.faulted \in BOOLEAN /\ f.seq \in Nat /\ f.floor \in Nat /\ f.events \in Seq(ToSet(f.events))
      /\ f.seq = f.floor + Len(f.events) /\ (\A k \in DOMAIN f.events : f.events[k].n = f.floor + k)
  BY DEF IsFeed
<1>2. AppendEvent(f, doc) \in [epoch : {f.epoch}, seq : {f.seq + 1}, start : {f.start}, floor : {floor}, events : {kept}, sem : {doc},
                               faulted : {f.faulted}]
  <2>1. f \in [epoch : {f.epoch}, seq : {f.seq}, start : {f.start}, floor : {f.floor}, events : {f.events}, sem : {f.sem}, faulted : {f.faulted}]
    BY DEF IsFeed
  <2>2. AppendEvent(f, doc) = [f EXCEPT !.seq = @ + 1, !.sem = doc, !.events = kept, !.floor = IF Len(q) > MaxEvents THEN Head(q).n ELSE @]
    BY DEF AppendEvent
  <2> HIDE DEF q, kept
  <2> QED BY <2>1, <2>2
<1>3. /\ q \in Seq(ToSet(q)) /\ Len(q) = Len(f.events) + 1 /\ DOMAIN q = 1..Len(f.events) + 1
      /\ (\A k \in DOMAIN f.events : q[k] = f.events[k]) /\ q[Len(f.events) + 1] = e
  BY <1>1, AppendedSet
<1>4. \A k \in 1..Len(f.events) + 1 : q[k].n = f.floor + k
  <2> SUFFICES ASSUME NEW k \in 1..Len(f.events) + 1 PROVE q[k].n = f.floor + k
    OBVIOUS
  <2>1. CASE k \in DOMAIN f.events
    BY <1>1, <1>3, <2>1
  <2>2. CASE k \notin DOMAIN f.events
    <3>1. Len(f.events) \in Nat /\ DOMAIN f.events = 1..Len(f.events)
      BY <1>1
    <3>2. k = Len(f.events) + 1
      BY <3>1, <2>2
    <3>3. q[k].n = f.seq + 1
      BY <1>3, <3>2
    <3> QED BY <3>1, <3>2, <3>3, <1>1
  <2> QED BY <2>1, <2>2
<1> HIDE DEF q
<1>5. kept \in Seq(ToSet(kept)) /\ f.seq + 1 = floor + Len(kept) /\ floor \in Nat /\ (\A k \in DOMAIN kept : kept[k].n = floor + k)
  <2>1. CASE Len(q) > MaxEvents
    <3>1. q # <<>> /\ q[1] = Head(q) /\ Len(f.events) \in Nat
      BY <1>1, <1>3
    <3>2. Head(q).n = f.floor + 1
      BY <3>1, <1>1, <1>4
    <3> DEFINE at == f.floor n == Len(f.events)
    <3>a. at \in Nat /\ n \in Nat /\ f.seq = at + n
      BY <1>1, <3>1
    <3> HIDE DEF at, n
    <3>3. PICK t : t = Tail(q)
      OBVIOUS
    <3>4. t \in Seq(ToSet(q)) /\ Len(t) = Len(f.events) /\ (\A k \in 1..Len(f.events) : t[k] = q[k + 1]) /\ DOMAIN t = 1..Len(f.events)
      BY <3>1, <3>3, <1>3
    <3>5. t \in Seq(ToSet(t))
      BY <3>4, SequenceOfItsOwn
    <3>6. \A k \in DOMAIN t : t[k].n = f.floor + 1 + k
      <4> SUFFICES ASSUME NEW k \in 1..Len(f.events) PROVE t[k].n = f.floor + 1 + k
        BY <3>4
      <4>1. k + 1 \in 1..Len(f.events) + 1 /\ k \in Nat
        BY <3>1
      <4>2. q[k + 1].n = f.floor + (k + 1) /\ t[k] = q[k + 1]
        BY <4>1, <1>4, <3>4
      <4>3. at + (k + 1) = at + 1 + k
        BY <3>a, <4>1
      <4> QED BY <4>2, <4>3 DEF at
    <3>7. kept = t /\ floor = f.floor + 1
      BY <2>1, <3>2, <3>3
    <3>8. f.seq + 1 = f.floor + 1 + Len(t) /\ f.floor + 1 \in Nat
      <4>1. f.seq + 1 = at + 1 + n /\ at + 1 \in Nat
        BY <3>a
      <4> QED BY <4>1, <3>4 DEF at, n
    <3> HIDE DEF kept, floor
    <3> QED BY <3>5, <3>6, <3>7, <3>8
  <2>2. CASE ~(Len(q) > MaxEvents)
    BY <2>2, <1>1, <1>3, <1>4
  <2> QED BY <2>1, <2>2
<1> HIDE DEF kept, floor
<1>6. /\ AppendEvent(f, doc).epoch = f.epoch /\ AppendEvent(f, doc).seq = f.seq + 1 /\ AppendEvent(f, doc).start = f.start
      /\ AppendEvent(f, doc).floor = floor /\ AppendEvent(f, doc).events = kept /\ AppendEvent(f, doc).sem = doc
      /\ AppendEvent(f, doc).faulted = f.faulted
  BY <1>2
<1>7. AppendEvent(f, doc) \in [epoch : Nat, seq : Nat, start : Nat, floor : Nat, events : Seq(ToSet(kept)), sem : {doc}, faulted : BOOLEAN]
  BY <1>1, <1>2, <1>5
<1>8. IsFeed(AppendEvent(f, doc))
  BY <1>5, <1>6, <1>7 DEF IsFeed
<1> QED BY <1>6, <1>8

\* What is published is on the feed, or the feed is known to be broken.
LEMMA PublishTells ==
    ASSUME NEW f, NEW doc, NEW broken, IsFeed(f)
    PROVE  /\ IsFeed(Publish(f, doc, broken)) /\ Publish(f, doc, broken).epoch = f.epoch
           /\ Publish(f, doc, broken).faulted \/ Publish(f, doc, broken).sem = doc
<1>1. CASE f.faulted
  BY <1>1 DEF Publish
<1>2. CASE ~f.faulted /\ broken
  <2> DEFINE g == [f EXCEPT !.faulted = TRUE]
  <2>1. g \in [epoch : {f.epoch}, seq : {f.seq}, start : {f.start}, floor : {f.floor}, events : {f.events}, sem : {f.sem}, faulted : {TRUE}]
    BY DEF IsFeed
  <2>2. Publish(f, doc, broken) = g
    BY <1>2 DEF Publish
  <2> HIDE DEF g
  <2>3. /\ g.epoch = f.epoch /\ g.seq = f.seq /\ g.start = f.start /\ g.floor = f.floor
        /\ g.events = f.events /\ g.sem = f.sem /\ g.faulted
    BY <2>1
  <2>4. IsFeed(g)
    BY <2>1, <2>3 DEF IsFeed
  <2> QED BY <2>2, <2>3, <2>4
<1>3. CASE ~f.faulted /\ ~broken /\ doc = f.sem
  BY <1>3 DEF Publish
<1>4. CASE ~f.faulted /\ ~broken /\ doc # f.sem
  <2>1. Publish(f, doc, broken) = AppendEvent(f, doc)
    BY <1>4 DEF Publish
  <2> QED BY <2>1, AppendEventKeeps
<1> QED BY <1>1, <1>2, <1>3, <1>4

\* An operation that publishes around itself leaves the document of its end on the feed.
LEMMA AroundTells ==
    ASSUME NEW f, NEW before, NEW after, NEW fault, IsFeed(f)
    PROVE  /\ IsFeed(Around(f, before, after, fault)) /\ Around(f, before, after, fault).epoch = f.epoch
           /\ Around(f, before, after, fault).faulted \/ Around(f, before, after, fault).sem = after
<1> DEFINE g == Publish(f, before, fault = "first")
<1>1. IsFeed(g) /\ g.epoch = f.epoch
  BY PublishTells
<1>2. Around(f, before, after, fault) = Publish(g, after, fault = "last")
  BY DEF Around
<1> HIDE DEF g
<1> QED BY <1>1, <1>2, PublishTells

-----------------------------------------------------------------------------
(* Configurations and sources *)

\* A thing is found by its name when there is one of that name.
LEMMA ByIdFacts ==
    ASSUME NEW things, NEW id, Null \notin things
    PROVE  /\ ById(things, id) # Null => ById(things, id) \in things /\ ById(things, id).id = id
           /\ (id \in Ids(things)) = (ById(things, id) # Null)
BY DEF ById, Ids

\* What a configuration holds is never Null.
LEMMA ConfigurationParts ==
    ASSUME NEW c \in Configurations
    PROVE  /\ c.sources \subseteq SourceRecords /\ Null \notin c.sources
           /\ c.resources \subseteq ResourceRecords /\ Null \notin c.resources
<1>1. c.sources \subseteq SourceRecords /\ c.resources \subseteq ResourceRecords
  BY DEF Configurations
<1>2. Null \notin SourceRecords /\ Null \notin ResourceRecords
  BY ControlAssumption DEF ControlAssumption
<1> QED BY <1>1, <1>2

\* A set that is listed is listed in a sequence of what is in it.
LEMMA SetToSeqIsSeq == ASSUME NEW T, IsFiniteSet(T) PROVE SetToSeq(T) \in Seq(T)
<1>1. Cardinality(T) \in Nat
  BY FS_CardinalityType
<1>2. PICK g : g \in Bijection(1..Cardinality(T), T)
  BY FS_CardinalityType DEF ExistsBijection
<1>3. \E f \in [1..Cardinality(T) -> T] : IsInjective(f)
  BY <1>2 DEF Bijection, Injection, IsInjective
<1>4. SetToSeq(T) \in [1..Cardinality(T) -> T]
  BY <1>3 DEF SetToSeq
<1> QED BY <1>1, <1>4, SeqDef

\* The last of a sequence are a sequence of the same things.
LEMMA LastOfKeeps == ASSUME NEW S, NEW q \in Seq(S), NEW n \in Nat PROVE LastOf(q, n) \in Seq(S)
<1>1. CASE Len(q) <= n
  BY <1>1 DEF LastOf
<1>2. CASE ~(Len(q) <= n)
  <2>1. Len(q) \in Nat /\ Len(q) - n + 1 \in 1..Len(q) + 1
    BY <1>2
  <2>2. SubSeq(q, Len(q) - n + 1, Len(q)) \in Seq(S)
    BY <2>1
  <2> QED BY <1>2, <2>2 DEF LastOf
<1> QED BY <1>1, <1>2

\* The slugs of finitely many models are finitely many.
LEMMA SlugsFinite == ASSUME NEW models, IsFiniteSet(models) PROVE IsFiniteSet({m.slug : m \in models})
<1> DEFINE T == {m.slug : m \in models} f == [m \in models |-> m.slug]
<1>1. f \in Surjection(models, T)
  BY DEF Surjection
<1> HIDE DEF T, f
<1>2. IsFiniteSet(T)
  BY <1>1, FS_Surjection
<1> QED BY <1>2 DEF T

-----------------------------------------------------------------------------
(* What is known of a source *)

\* Configurations of the sources are taken over, and what is learned of a source of the same worker and kind stays.
LEMMA SyncKeeps ==
    ASSUME NEW st, NEW c \in Configurations, SourceShapes(st)
    PROVE  LET n == SyncConfiguration(st, c.sources)
           IN  /\ Synchronised(n, c) /\ SourceShapes(n)
               /\ \A id \in DOMAIN n :
                     IF /\ id \in DOMAIN st
                        /\ st[id].config.worker = SourceById(c, id).worker /\ st[id].config.kind = SourceById(c, id).kind
                     THEN n[id].adopted = st[id].adopted /\ n[id].misses = st[id].misses /\ n[id].retired = st[id].retired
                     ELSE n[id].adopted = [s \in {} |-> {}] /\ n[id].misses = [s \in {} |-> 0] /\ n[id].retired = <<>>
<1> DEFINE n == SyncConfiguration(st, c.sources)
<1>1. DOMAIN n = Ids(c.sources)
  BY DEF SyncConfiguration
<1>2. ASSUME NEW id \in Ids(c.sources)
      PROVE  /\ n[id].config = SourceById(c, id)
             /\ n[id] \in [config : {n[id].config}, inventory : {n[id].inventory}, adopted : {n[id].adopted}, misses : {n[id].misses},
                          retired : Seq(Slugs), decisions : {n[id].decisions}]
             /\ IsFiniteSet(DOMAIN n[id].adopted) /\ DOMAIN n[id].adopted \subseteq Slugs
             /\ DOMAIN n[id].misses \subseteq DOMAIN n[id].adopted
             /\ IF /\ id \in DOMAIN st
                   /\ st[id].config.worker = SourceById(c, id).worker /\ st[id].config.kind = SourceById(c, id).kind
                THEN n[id].adopted = st[id].adopted /\ n[id].misses = st[id].misses /\ n[id].retired = st[id].retired
                ELSE n[id].adopted = [s \in {} |-> {}] /\ n[id].misses = [s \in {} |-> 0] /\ n[id].retired = <<>>
  <2> DEFINE k == SourceById(c, id)
             same == id \in DOMAIN st /\ st[id].config.worker = k.worker /\ st[id].config.kind = k.kind
  <2>1. n[id] = IF same THEN [st[id] EXCEPT !.config = k] ELSE Fresh(k)
    BY DEF SyncConfiguration, SourceById
  <2> HIDE DEF n, k
  <2>2. CASE same
    <3> DEFINE o == st[id]
    <3>1. /\ o \in [config : {o.config}, inventory : {o.inventory}, adopted : {o.adopted}, misses : {o.misses},
                    retired : Seq(Slugs), decisions : {o.decisions}]
          /\ IsFiniteSet(DOMAIN o.adopted) /\ DOMAIN o.adopted \subseteq Slugs /\ DOMAIN o.misses \subseteq DOMAIN o.adopted
      BY <2>2 DEF SourceShapes
    <3>2. n[id] = [o EXCEPT !.config = k] /\ id \in DOMAIN st
      BY <2>1, <2>2
    <3>3. o.retired \in Seq(Slugs)
      BY <3>1
    <3> HIDE DEF o
    <3>4. n[id] \in [config : {k}, inventory : {o.inventory}, adopted : {o.adopted}, misses : {o.misses},
                    retired : {o.retired}, decisions : {o.decisions}]
      BY <3>1, <3>2
    <3>5. /\ n[id].config = k /\ n[id].inventory = o.inventory /\ n[id].adopted = o.adopted /\ n[id].misses = o.misses
          /\ n[id].retired = o.retired /\ n[id].decisions = o.decisions
      BY <3>4
    <3>6. n[id] \in [config : {n[id].config}, inventory : {n[id].inventory}, adopted : {n[id].adopted}, misses : {n[id].misses},
                    retired : Seq(Slugs), decisions : {n[id].decisions}]
      BY <3>3, <3>4, <3>5
    <3> QED BY <2>2, <3>1, <3>2, <3>5, <3>6 DEF k, o
  <2>3. CASE ~same
    <3>1. n[id] = [config |-> k, inventory |-> Null, adopted |-> [s \in {} |-> {}], misses |-> [s \in {} |-> 0],
                  retired |-> <<>>, decisions |-> {}]
      BY <2>1, <2>3 DEF Fresh
    <3> DEFINE ad == [s \in {} |-> {}] mi == [s \in {} |-> 0]
    <3>2. DOMAIN ad = {} /\ DOMAIN mi = {} /\ <<>> \in Seq(Slugs)
      OBVIOUS
    <3>3. IsFiniteSet({})
      BY FS_EmptySet
    <3>4. n[id].config = k /\ n[id].adopted = ad /\ n[id].misses = mi /\ n[id].retired = <<>> /\ n[id].inventory = Null /\ n[id].decisions = {}
      BY <3>1
    <3>5. n[id] \in [config : {k}, inventory : {Null}, adopted : {ad}, misses : {mi}, retired : Seq(Slugs), decisions : {{}}]
      BY <3>1, <3>2
    <3> HIDE DEF ad, mi
    <3>6. n[id] \in [config : {n[id].config}, inventory : {n[id].inventory}, adopted : {n[id].adopted}, misses : {n[id].misses},
                    retired : Seq(Slugs), decisions : {n[id].decisions}]
      BY <3>4, <3>5
    <3>7. IsFiniteSet(DOMAIN n[id].adopted) /\ DOMAIN n[id].adopted \subseteq Slugs /\ DOMAIN n[id].misses \subseteq DOMAIN n[id].adopted
      BY <3>2, <3>3, <3>4
    <3> QED BY <2>3, <3>4, <3>6, <3>7 DEF k, ad, mi
  <2> QED BY <2>2, <2>3
<1> HIDE DEF n
<1>3. Synchronised(n, c)
  BY <1>1, <1>2 DEF Synchronised
<1>4. SourceShapes(n)
  BY <1>1, <1>2 DEF SourceShapes
<1>5. \A id \in DOMAIN n :
         IF /\ id \in DOMAIN st
            /\ st[id].config.worker = SourceById(c, id).worker /\ st[id].config.kind = SourceById(c, id).kind
         THEN n[id].adopted = st[id].adopted /\ n[id].misses = st[id].misses /\ n[id].retired = st[id].retired
         ELSE n[id].adopted = [s \in {} |-> {}] /\ n[id].misses = [s \in {} |-> 0] /\ n[id].retired = <<>>
  BY <1>1, <1>2
<1> QED BY <1>3, <1>4, <1>5 DEF n

\* What was missed too often goes to the retired, what was seen is no longer missed.
LEMMA SettleKeeps ==
    ASSUME NEW k, NEW i,
           k \in [config : {k.config}, inventory : {k.inventory}, adopted : {k.adopted}, misses : {k.misses},
                 retired : Seq(Slugs), decisions : {k.decisions}],
           IsFiniteSet(DOMAIN k.adopted), DOMAIN k.adopted \subseteq Slugs, DOMAIN k.misses \subseteq DOMAIN k.adopted,
           \A m \in DOMAIN k.misses : k.misses[m] \in Nat,
           NEW present
    PROVE  LET missed == Missed(k, i, present)
               d == Settle(k, missed, present \cap DOMAIN k.adopted)
           IN  /\ d \in [config : {k.config}, inventory : {k.inventory}, adopted : {d.adopted}, misses : {d.misses},
                         retired : Seq(Slugs), decisions : {k.decisions}]
               /\ DOMAIN d.adopted \subseteq DOMAIN k.adopted /\ DOMAIN d.misses \subseteq DOMAIN d.adopted
               /\ \A m \in DOMAIN d.adopted :
                     /\ Missing(d, m) = IF m \in present THEN 0 ELSE Missing(k, m) + 1
                     /\ Missing(d, m) < RetireAfter
               /\ \A m \in ToSet(d.retired) \ DOMAIN d.adopted :
                     \/ m \in ToSet(k.retired) \ DOMAIN k.adopted
                     \/ m \in DOMAIN k.adopted \ present /\ Missing(k, m) + 1 >= RetireAfter
<1> DEFINE missed == Missed(k, i, present)
           seen == present \cap DOMAIN k.adopted
           retiring == {s \in DOMAIN missed : missed[s] >= RetireAfter}
           all == [s \in DOMAIN k.misses \cup DOMAIN missed |-> IF s \in DOMAIN missed THEN missed[s] ELSE k.misses[s]]
           adopted == Without(k.adopted, retiring)
           misses == Without(all, retiring \cup seen)
           joined == k.retired \o SetToSeq(retiring \ ToSet(k.retired))
           retired == Dropping(LastOf(joined, MaxRetired), seen)
           d == Settle(k, missed, seen)
<1>0. RetireAfter \in Nat \ {0} /\ MaxRetired \in Nat
  BY ControlAssumption DEF ControlAssumption
<1>1. d = [k EXCEPT !.adopted = adopted, !.misses = misses, !.retired = retired]
  BY DEF Settle
<1>2. DOMAIN missed = DOMAIN k.adopted \ present /\ \A m \in DOMAIN missed : missed[m] = Missing(k, m) + 1
  BY DEF Missed, Missing
<1>3. \A m \in DOMAIN k.adopted : Missing(k, m) \in Nat
  BY DEF Missing
<1> HIDE DEF missed
<1>4. retiring \subseteq DOMAIN k.adopted \ present /\ \A m \in retiring : Missing(k, m) + 1 >= RetireAfter
  BY <1>2
<1>5. DOMAIN adopted = DOMAIN k.adopted \ retiring
  BY DEF Without
<1>6. DOMAIN misses = (DOMAIN k.misses \cup DOMAIN missed) \ (retiring \cup seen)
      /\ \A m \in DOMAIN misses : misses[m] = IF m \in DOMAIN missed THEN missed[m] ELSE k.misses[m]
  BY DEF Without
<1>7. retired \in Seq(Slugs) /\ ToSet(retired) \subseteq ToSet(k.retired) \cup retiring
  <2> DEFINE new == retiring \ ToSet(k.retired) S == ToSet(k.retired) \cup retiring
  <2>1. IsFiniteSet(new)
    <3>1. new \in SUBSET (DOMAIN k.adopted)
      BY <1>4
    <3> HIDE DEF new
    <3> QED BY <3>1, FS_Subset
  <2>2. SetToSeq(new) \in Seq(new)
    BY <2>1, SetToSeqIsSeq
  <2>3. k.retired \in Seq(Slugs)
    OBVIOUS
  <2>4. k.retired \in Seq(ToSet(k.retired)) /\ ToSet(k.retired) \subseteq Slugs
    BY <2>3, SequenceOfItsOwn
  <2>5. S \subseteq Slugs /\ new \subseteq S /\ ToSet(k.retired) \subseteq S
    BY <2>4, <1>4
  <2> HIDE DEF new, S, retiring
  <2>6. k.retired \in Seq(S) /\ SetToSeq(new) \in Seq(S)
    BY <2>2, <2>4, <2>5, SeqDef
  <2>7. joined \in Seq(S)
    BY <2>6 DEF new
  <2>8. LastOf(joined, MaxRetired) \in Seq(S)
    BY <2>7, <1>0, LastOfKeeps
  <2> HIDE DEF joined
  <2>9. retired \in Seq(S)
    BY <2>8, DroppingKeeps
  <2>10. ToSet(retired) \subseteq S
    BY <2>9, SequenceOfItsOwn
  <2>11. retired \in Seq(Slugs)
    BY <2>9, <2>5, SeqDef
  <2> QED BY <2>10, <2>11 DEF S
<1> HIDE DEF adopted, misses, retired, retiring, d, all
<1>8. d \in [config : {k.config}, inventory : {k.inventory}, adopted : {adopted}, misses : {misses},
            retired : {retired}, decisions : {k.decisions}]
  BY <1>1
<1>9. d.adopted = adopted /\ d.misses = misses /\ d.retired = retired
  BY <1>8
<1>10. d \in [config : {k.config}, inventory : {k.inventory}, adopted : {d.adopted}, misses : {d.misses},
             retired : Seq(Slugs), decisions : {k.decisions}]
  BY <1>7, <1>8, <1>9
<1>11. DOMAIN d.adopted \subseteq DOMAIN k.adopted /\ DOMAIN d.misses \subseteq DOMAIN d.adopted
  BY <1>2, <1>4, <1>5, <1>6, <1>9
<1>12. ASSUME NEW m \in DOMAIN d.adopted
       PROVE  Missing(d, m) = (IF m \in present THEN 0 ELSE Missing(k, m) + 1) /\ Missing(d, m) < RetireAfter
  <2>1. m \in DOMAIN k.adopted /\ m \notin retiring
    BY <1>5, <1>9
  <2>2. CASE m \in present
    <3>1. m \notin DOMAIN d.misses
      BY <2>1, <2>2, <1>6, <1>9
    <3>2. Missing(d, m) = 0
      BY <3>1 DEF Missing
    <3> QED BY <3>2, <2>2, <1>0
  <2>3. CASE m \notin present
    <3>1. m \in DOMAIN missed /\ m \in DOMAIN d.misses /\ d.misses[m] = Missing(k, m) + 1
      BY <2>1, <2>3, <1>2, <1>6, <1>9
    <3>2. Missing(d, m) = Missing(k, m) + 1
      BY <3>1 DEF Missing
    <3>3. ~(missed[m] >= RetireAfter)
      BY <3>1, <2>1 DEF retiring
    <3>4. missed[m] = Missing(k, m) + 1 /\ Missing(k, m) \in Nat
      BY <3>1, <1>2, <1>3, <2>1
    <3> QED BY <3>2, <3>3, <3>4, <2>3, <1>0
  <2> QED BY <2>2, <2>3
<1>13. ASSUME NEW m \in ToSet(d.retired) \ DOMAIN d.adopted
       PROVE  \/ m \in ToSet(k.retired) \ DOMAIN k.adopted
              \/ m \in DOMAIN k.adopted \ present /\ Missing(k, m) + 1 >= RetireAfter
  BY <1>4, <1>5, <1>7, <1>9
<1> QED BY <1>10, <1>11, <1>12, <1>13 DEF d, missed

\* Deciding on an inventory adopts what it shows, and counts what it lacks when it can tell.
LEMMA DecideKeeps ==
    ASSUME NEW k, NEW i \in Inventories,
           k \in [config : {k.config}, inventory : {k.inventory}, adopted : {k.adopted}, misses : {k.misses},
                 retired : Seq(Slugs), decisions : {k.decisions}],
           IsFiniteSet(DOMAIN k.adopted), DOMAIN k.adopted \subseteq Slugs, DOMAIN k.misses \subseteq DOMAIN k.adopted,
           \A m \in DOMAIN k.misses : k.misses[m] \in Nat
    PROVE  LET d == Decide(k, i)
               present == {m.slug : m \in i.models}
           IN  /\ d \in [config : {k.config}, inventory : {d.inventory}, adopted : {d.adopted}, misses : {d.misses},
                         retired : Seq(Slugs), decisions : {d.decisions}]
               /\ IsFiniteSet(DOMAIN d.adopted) /\ DOMAIN d.adopted \subseteq Slugs /\ DOMAIN d.misses \subseteq DOMAIN d.adopted
               /\ \/ /\ i.auth # "authenticated"
                     /\ DOMAIN k.adopted \subseteq DOMAIN d.adopted /\ d.misses = k.misses /\ d.retired = k.retired
                  \/ /\ i.auth = "authenticated"
                     /\ \A m \in DOMAIN d.adopted :
                           /\ Missing(d, m) = IF m \in present THEN 0 ELSE Missing(k, m) + 1
                           /\ Missing(d, m) < RetireAfter
                           /\ m \in present \/ m \in DOMAIN k.adopted
                     /\ \A m \in ToSet(d.retired) \ DOMAIN d.adopted :
                           \/ m \in ToSet(k.retired) \ DOMAIN k.adopted
                           \/ m \in DOMAIN k.adopted \ present /\ Missing(k, m) + 1 >= RetireAfter
<1> DEFINE d == Decide(k, i)
           present == {m.slug : m \in i.models}
           routable == {m \in i.models : Reason(k.config, i, m) = Null}
           adopted == [s \in DOMAIN k.adopted \cup {m.slug : m \in routable} |->
                         IF \E m \in routable : m.slug = s THEN (CHOOSE m \in routable : m.slug = s).efforts ELSE k.adopted[s]]
           decisions == {[slug |-> m.slug, reason |-> Reason(k.config, i, m)] : m \in i.models}
           known == [k EXCEPT !.inventory = i, !.adopted = adopted, !.decisions = decisions]
<1>1. present \subseteq Slugs /\ IsFiniteSet(present) /\ {m.slug : m \in routable} \subseteq present
  <2>1. IsFiniteSet(i.models)
    BY ControlAssumption DEF ControlAssumption
  <2>2. IsFiniteSet(present)
    BY <2>1, SlugsFinite
  <2> QED BY <2>2 DEF Slugs
<1>2. d = Counted(known, i, present)
  <2>1. known = [k EXCEPT !.inventory = i,
                          !.adopted = [s \in DOMAIN @ \cup {m.slug : m \in routable} |->
                                         IF \E m \in routable : m.slug = s
                                         THEN (CHOOSE m \in routable : m.slug = s).efforts ELSE k.adopted[s]],
                          !.decisions = decisions]
    OBVIOUS
  <2> HIDE DEF known
  <2> QED BY <2>1, Zenon DEF Decide
<1>3. DOMAIN adopted = DOMAIN k.adopted \cup {m.slug : m \in routable}
  OBVIOUS
<1> HIDE DEF d, routable, adopted, decisions
<1>4. known \in [config : {k.config}, inventory : {i}, adopted : {adopted}, misses : {k.misses}, retired : {k.retired}, decisions : {decisions}]
  OBVIOUS
<1>5. /\ known.config = k.config /\ known.inventory = i /\ known.adopted = adopted /\ known.misses = k.misses
      /\ known.retired = k.retired /\ known.decisions = decisions
  BY <1>4
<1>6. known \in [config : {known.config}, inventory : {known.inventory}, adopted : {known.adopted}, misses : {known.misses},
                retired : Seq(Slugs), decisions : {known.decisions}]
  <2>1. k.retired \in Seq(Slugs)
    OBVIOUS
  <2> HIDE DEF known
  <2> QED BY <2>1, <1>4, <1>5
<1>7. /\ IsFiniteSet(DOMAIN known.adopted) /\ DOMAIN known.adopted \subseteq Slugs /\ DOMAIN known.misses \subseteq DOMAIN known.adopted
      /\ DOMAIN k.adopted \subseteq DOMAIN known.adopted /\ DOMAIN known.adopted \subseteq DOMAIN k.adopted \cup present
      /\ \A m \in DOMAIN known.misses : known.misses[m] \in Nat
  <2>1. IsFiniteSet({m.slug : m \in routable})
    <3>1. {m.slug : m \in routable} \in SUBSET present
      BY <1>1
    <3> HIDE DEF present
    <3> QED BY <3>1, <1>1, FS_Subset
  <2>2. IsFiniteSet(DOMAIN k.adopted \cup {m.slug : m \in routable})
    BY <2>1, FS_Union
  <2> HIDE DEF known
  <2> QED BY <2>2, <1>1, <1>3, <1>5
<1>8. \A m : Missing(known, m) = Missing(k, m)
  <2> HIDE DEF known
  <2> QED BY <1>5 DEF Missing
<1> HIDE DEF known
<1>9. CASE i.auth # "authenticated"
  <2>1. d = known
    BY <1>2, <1>9 DEF Counted, CountsMisses
  <2>2. DOMAIN k.adopted \subseteq DOMAIN d.adopted /\ d.misses = k.misses /\ d.retired = k.retired
    BY <2>1, <1>5, <1>7
  <2>3. d \in [config : {k.config}, inventory : {d.inventory}, adopted : {d.adopted}, misses : {d.misses},
              retired : Seq(Slugs), decisions : {d.decisions}]
    BY <2>1, <1>5, <1>6
  <2> QED BY <1>7, <1>9, <2>1, <2>2, <2>3 DEF d
<1>10. CASE i.auth = "authenticated"
  <2> DEFINE missed == Missed(known, i, present)
  <2>1. d = Settle(known, missed, present \cap DOMAIN known.adopted)
    BY <1>2, <1>10 DEF Counted, CountsMisses
  <2> HIDE DEF present
  <2>2. /\ d \in [config : {known.config}, inventory : {known.inventory}, adopted : {d.adopted}, misses : {d.misses},
                  retired : Seq(Slugs), decisions : {known.decisions}]
        /\ DOMAIN d.adopted \subseteq DOMAIN known.adopted /\ DOMAIN d.misses \subseteq DOMAIN d.adopted
        /\ \A m \in DOMAIN d.adopted :
              /\ Missing(d, m) = IF m \in present THEN 0 ELSE Missing(known, m) + 1
              /\ Missing(d, m) < RetireAfter
        /\ \A m \in ToSet(d.retired) \ DOMAIN d.adopted :
              \/ m \in ToSet(known.retired) \ DOMAIN known.adopted
              \/ m \in DOMAIN known.adopted \ present /\ Missing(known, m) + 1 >= RetireAfter
    <3> DEFINE e == Settle(known, missed, present \cap DOMAIN known.adopted)
    <3>1. /\ known \in [config : {known.config}, inventory : {known.inventory}, adopted : {known.adopted}, misses : {known.misses},
                        retired : Seq(Slugs), decisions : {known.decisions}]
          /\ IsFiniteSet(DOMAIN known.adopted) /\ DOMAIN known.adopted \subseteq Slugs
          /\ DOMAIN known.misses \subseteq DOMAIN known.adopted /\ \A m \in DOMAIN known.misses : known.misses[m] \in Nat
      BY <1>6, <1>7
    <3>2. /\ e \in [config : {known.config}, inventory : {known.inventory}, adopted : {e.adopted}, misses : {e.misses},
                    retired : Seq(Slugs), decisions : {known.decisions}]
          /\ DOMAIN e.adopted \subseteq DOMAIN known.adopted /\ DOMAIN e.misses \subseteq DOMAIN e.adopted
          /\ \A m \in DOMAIN e.adopted :
                /\ Missing(e, m) = IF m \in present THEN 0 ELSE Missing(known, m) + 1
                /\ Missing(e, m) < RetireAfter
          /\ \A m \in ToSet(e.retired) \ DOMAIN e.adopted :
                \/ m \in ToSet(known.retired) \ DOMAIN known.adopted
                \/ m \in DOMAIN known.adopted \ present /\ Missing(known, m) + 1 >= RetireAfter
      BY <3>1, SettleKeeps, ZenonT(60)
    <3> HIDE DEF e
    <3>3. d = e
      BY <2>1 DEF e
    <3> QED BY <3>2, <3>3
  <2> HIDE DEF missed
  <2>3. d.inventory = known.inventory /\ d.decisions = known.decisions
    BY <2>2
  <2>4. d \in [config : {k.config}, inventory : {d.inventory}, adopted : {d.adopted}, misses : {d.misses},
              retired : Seq(Slugs), decisions : {d.decisions}]
    BY <2>2, <2>3, <1>5
  <2>5. IsFiniteSet(DOMAIN d.adopted)
    <3>1. DOMAIN d.adopted \in SUBSET DOMAIN known.adopted
      BY <2>2
    <3> QED BY <3>1, <1>7, FS_Subset
  <2>6. DOMAIN d.adopted \subseteq Slugs /\ DOMAIN d.misses \subseteq DOMAIN d.adopted
    BY <2>2, <1>7
  <2>7. ASSUME NEW m \in DOMAIN d.adopted
        PROVE  /\ Missing(d, m) = IF m \in present THEN 0 ELSE Missing(k, m) + 1
               /\ Missing(d, m) < RetireAfter
               /\ m \in present \/ m \in DOMAIN k.adopted
    BY <2>2, <1>7, <1>8
  <2>8. ASSUME NEW m \in ToSet(d.retired) \ DOMAIN d.adopted
        PROVE  \/ m \in ToSet(k.retired) \ DOMAIN k.adopted
               \/ m \in DOMAIN k.adopted \ present /\ Missing(k, m) + 1 >= RetireAfter
    <3>1. CASE m \in ToSet(known.retired) \ DOMAIN known.adopted
      BY <3>1, <1>5, <1>7
    <3>2. CASE m \in DOMAIN known.adopted \ present /\ Missing(known, m) + 1 >= RetireAfter
      BY <3>2, <1>7, <1>8
    <3> QED BY <2>2, <3>1, <3>2
  <2> QED BY <1>10, <2>4, <2>5, <2>6, <2>7, <2>8 DEF d, present
<1> QED BY <1>9, <1>10

\* Taking over a configuration loses no count.
LEMMA SyncKeepsCounts ==
    ASSUME NEW st, NEW c \in Configurations, NEW ab, SourceShapes(st), MissesAreCounted(st, ab)
    PROVE  MissesAreCounted(SyncConfiguration(st, c.sources), ab)
<1> DEFINE n == SyncConfiguration(st, c.sources)
<1>1. \A id \in DOMAIN n :
         \/ id \in DOMAIN st /\ n[id].adopted = st[id].adopted /\ n[id].misses = st[id].misses /\ n[id].retired = st[id].retired
         \/ n[id].adopted = [s \in {} |-> {}] /\ n[id].misses = [s \in {} |-> 0] /\ n[id].retired = <<>>
  BY SyncKeeps
<1> HIDE DEF n
<1>2. ASSUME NEW id \in DOMAIN n
      PROVE  /\ \A m \in DOMAIN n[id].adopted : <<id, m>> \in DOMAIN ab /\ ab[<<id, m>>] = Missing(n[id], m) /\ ab[<<id, m>>] < RetireAfter
             /\ \A m \in ToSet(n[id].retired) \ DOMAIN n[id].adopted : <<id, m>> \in DOMAIN ab /\ ab[<<id, m>>] >= RetireAfter
  <2>1. CASE id \in DOMAIN st /\ n[id].adopted = st[id].adopted /\ n[id].misses = st[id].misses /\ n[id].retired = st[id].retired
    BY <2>1 DEF MissesAreCounted, Missing
  <2>2. CASE n[id].adopted = [s \in {} |-> {}] /\ n[id].misses = [s \in {} |-> 0] /\ n[id].retired = <<>>
    <3>1. DOMAIN n[id].adopted = {} /\ ToSet(n[id].retired) = {}
      BY <2>2 DEF ToSet
    <3> QED BY <3>1
  <2> QED BY <1>1, <2>1, <2>2
<1>3. \A x \in DOMAIN ab : ab[x] \in Nat
  BY DEF MissesAreCounted
<1>4. MissesAreCounted(n, ab)
  BY <1>2, <1>3 DEF MissesAreCounted
<1> QED BY <1>4 DEF n

\* What an admissible report tells of a source comes from the worker the source is configured on, in one inventory.
LEMMA InventoriesAreTheirs ==
    ASSUME NEW r \in Reports, ReportAccepted(r.inventories), Admissible(r), Null \notin cfg.sources,
           NEW st, Synchronised(st, cfg), NEW id \in DOMAIN st
    PROVE  LET mine == {i \in r.inventories : /\ i.source = id /\ r.worker = st[id].config.worker
                                               /\ i.kind = st[id].config.kind
                                               /\ i.adapter = SourceAdapter(i.kind, id)}
           IN  /\ \A j \in r.inventories : j.source = id => j \in mine
               /\ \A i, j \in mine : i = j
               /\ mine \subseteq Inventories
<1> DEFINE mine == {i \in r.inventories : /\ i.source = id /\ r.worker = st[id].config.worker
                                           /\ i.kind = st[id].config.kind
                                           /\ i.adapter = SourceAdapter(i.kind, id)}
<1>1. st[id].config = SourceById(cfg, id)
  BY DEF Synchronised
<1>2. ASSUME NEW j \in r.inventories, j.source = id PROVE j \in mine
  <2>1. /\ SourceById(cfg, id) # Null /\ SourceById(cfg, id).worker = r.worker /\ SourceById(cfg, id).kind = j.kind
        /\ j.adapter = SourceAdapter(SourceById(cfg, id).kind, SourceById(cfg, id).id)
    BY <1>2 DEF Admissible
  <2>2. SourceById(cfg, id).id = id
    BY <2>1, ByIdFacts DEF SourceById
  <2> QED BY <1>1, <1>2, <2>1, <2>2
<1>3. \A i, j \in mine : i = j
  BY DEF ReportAccepted
<1>4. mine \subseteq Inventories
  BY DEF Inventories
<1> QED BY <1>2, <1>3, <1>4

\* A report leaves the sources synchronised, and its inventories are what the misses count.
LEMMA ApplyKeeps ==
    ASSUME NEW r \in Reports, ReportAccepted(r.inventories), Admissible(r), cfg \in Configurations,
           Synchronised(src, cfg), SourceShapes(src), MissesAreCounted(src, absent)
    PROVE  LET a == ApplyInventory(SyncConfiguration(src, cfg.sources), r.worker, r.inventories)
           IN  Synchronised(a, cfg) /\ SourceShapes(a) /\ MissesAreCounted(a, Absent(r, a))
<1> DEFINE n == SyncConfiguration(src, cfg.sources)
           a == ApplyInventory(n, r.worker, r.inventories)
           mine(id) == {i \in r.inventories : /\ i.source = id /\ r.worker = n[id].config.worker
                                              /\ i.kind = n[id].config.kind
                                              /\ i.adapter = SourceAdapter(i.kind, id)}
           told(id) == {j \in r.inventories : j.source = id /\ j.auth = "authenticated"}
           ab == Absent(r, a)
<1>0. RetireAfter \in Nat \ {0}
  BY ControlAssumption DEF ControlAssumption
<1>1. Synchronised(n, cfg) /\ SourceShapes(n) /\ MissesAreCounted(n, absent)
  BY SyncKeeps, SyncKeepsCounts
<1>2. DOMAIN n = DOMAIN src /\ DOMAIN a = DOMAIN n
  BY <1>1 DEF Synchronised, ApplyInventory
<1>3. \A id \in DOMAIN src : n[id].adopted = src[id].adopted
  <2> SUFFICES ASSUME NEW id \in DOMAIN src PROVE n[id].adopted = src[id].adopted
    OBVIOUS
  <2>1. src[id].config = SourceById(cfg, id)
    BY DEF Synchronised
  <2>2. IF id \in DOMAIN src /\ src[id].config.worker = SourceById(cfg, id).worker /\ src[id].config.kind = SourceById(cfg, id).kind
        THEN n[id].adopted = src[id].adopted /\ n[id].misses = src[id].misses /\ n[id].retired = src[id].retired
        ELSE n[id].adopted = [s \in {} |-> {}] /\ n[id].misses = [s \in {} |-> 0] /\ n[id].retired = <<>>
    BY <1>2, SyncKeeps
  <2> QED BY <2>1, <2>2
<1>4. \A id, m : (<<id, m>> \in Adoptions(src)) = (id \in DOMAIN n /\ m \in DOMAIN n[id].adopted)
  BY <1>2, <1>3 DEF Adoptions
<1>5. \A id, m : (<<id, m>> \in Adoptions(a)) = (id \in DOMAIN n /\ m \in DOMAIN a[id].adopted)
  BY <1>2 DEF Adoptions
<1>6. DOMAIN ab = DOMAIN absent \cup Adoptions(a)
  BY DEF Absent
<1>7. \A x \in DOMAIN absent : absent[x] \in Nat
  BY DEF MissesAreCounted
<1>8. \A x \in Adoptions(src) : x \in DOMAIN absent
  <2> SUFFICES ASSUME NEW id \in DOMAIN src, NEW m \in DOMAIN src[id].adopted PROVE <<id, m>> \in DOMAIN absent
    BY DEF Adoptions
  <2> QED BY DEF MissesAreCounted
<1>9. \A id, m : <<id, m>> \in DOMAIN ab =>
         ab[<<id, m>>] = IF <<id, m>> \notin Adoptions(src) THEN (IF <<id, m>> \in Adoptions(a) THEN 0 ELSE absent[<<id, m>>])
                         ELSE IF told(id) = {} THEN absent[<<id, m>>]
                         ELSE IF \E j \in told(id) : \E x \in j.models : x.slug = m THEN 0 ELSE absent[<<id, m>>] + 1
  BY DEF Absent
<1>10. \A x \in DOMAIN ab : ab[x] \in Nat
  <2> SUFFICES ASSUME NEW x \in DOMAIN ab PROVE ab[x] \in Nat
    OBVIOUS
  <2>1. ab[x] = LET i == {j \in r.inventories : j.source = x[1] /\ j.auth = "authenticated"}
                IN  IF x \notin Adoptions(src) THEN (IF x \in Adoptions(a) THEN 0 ELSE absent[x])
                    ELSE IF i = {} THEN absent[x]
                    ELSE IF \E j \in i : \E m \in j.models : m.slug = x[2] THEN 0 ELSE absent[x] + 1
    BY DEF Absent
  <2>2. x \in DOMAIN absent \/ x \in Adoptions(a)
    BY <1>6
  <2>3. x \in DOMAIN absent => absent[x] \in Nat
    BY <1>7
  <2> HIDE DEF a, ab
  <2>4. CASE x \notin Adoptions(src)
    <3>1. ab[x] = IF x \in Adoptions(a) THEN 0 ELSE absent[x]
      BY <2>1, <2>4
    <3> QED BY <3>1, <2>2, <2>3
  <2>5. CASE x \in Adoptions(src)
    <3>1. absent[x] \in Nat
      BY <1>7, <1>8, <2>5
    <3>2. ab[x] = 0 \/ ab[x] = absent[x] \/ ab[x] = absent[x] + 1
      BY <2>1, <2>5
    <3> QED BY <3>1, <3>2
  <2> QED BY <2>4, <2>5
<1>11. \A id \in DOMAIN n : a[id] = IF mine(id) = {} THEN n[id] ELSE Decide(n[id], CHOOSE i \in mine(id) : TRUE)
  BY DEF ApplyInventory
<1> HIDE DEF a, ab
<1>12. ASSUME NEW id \in DOMAIN n
       PROVE  /\ a[id].config = n[id].config
              /\ a[id] \in [config : {a[id].config}, inventory : {a[id].inventory}, adopted : {a[id].adopted}, misses : {a[id].misses},
                           retired : Seq(Slugs), decisions : {a[id].decisions}]
              /\ IsFiniteSet(DOMAIN a[id].adopted) /\ DOMAIN a[id].adopted \subseteq Slugs
              /\ DOMAIN a[id].misses \subseteq DOMAIN a[id].adopted
              /\ \A m \in DOMAIN a[id].adopted :
                    <<id, m>> \in DOMAIN ab /\ ab[<<id, m>>] = Missing(a[id], m) /\ ab[<<id, m>>] < RetireAfter
              /\ \A m \in ToSet(a[id].retired) \ DOMAIN a[id].adopted :
                    <<id, m>> \in DOMAIN ab /\ ab[<<id, m>>] >= RetireAfter
  <2> DEFINE k == n[id]
  <2>1. /\ k \in [config : {k.config}, inventory : {k.inventory}, adopted : {k.adopted}, misses : {k.misses},
                  retired : Seq(Slugs), decisions : {k.decisions}]
        /\ IsFiniteSet(DOMAIN k.adopted) /\ DOMAIN k.adopted \subseteq Slugs /\ DOMAIN k.misses \subseteq DOMAIN k.adopted
    BY <1>1 DEF SourceShapes
  <2>2. /\ \A m \in DOMAIN k.adopted : <<id, m>> \in DOMAIN absent /\ absent[<<id, m>>] = Missing(k, m) /\ absent[<<id, m>>] < RetireAfter
        /\ \A m \in ToSet(k.retired) \ DOMAIN k.adopted : <<id, m>> \in DOMAIN absent /\ absent[<<id, m>>] >= RetireAfter
    BY <1>1 DEF MissesAreCounted
  <2>3. \A m \in DOMAIN k.misses : k.misses[m] \in Nat
    BY <2>1, <2>2, <1>7 DEF Missing
  <2>4. /\ \A j \in r.inventories : j.source = id => j \in mine(id)
        /\ \A i, j \in mine(id) : i = j
        /\ mine(id) \subseteq Inventories
    <3>1. Null \notin cfg.sources
      BY ConfigurationParts
    <3> HIDE DEF n
    <3> QED BY <1>1, <3>1, InventoriesAreTheirs
  <2>5. told(id) = {j \in mine(id) : j.auth = "authenticated"}
    BY <2>4
  <2> HIDE DEF k, n
  <2>6. CASE mine(id) = {}
    <3>1. a[id] = k /\ told(id) = {}
      BY <1>11, <2>5, <2>6 DEF k
    <3>2. ASSUME NEW m \in DOMAIN a[id].adopted
          PROVE  <<id, m>> \in DOMAIN ab /\ ab[<<id, m>>] = Missing(a[id], m) /\ ab[<<id, m>>] < RetireAfter
      <4>1. <<id, m>> \in Adoptions(src) /\ <<id, m>> \in DOMAIN ab
        BY <1>4, <1>5, <1>6, <3>1 DEF k
      <4>2. ab[<<id, m>>] = absent[<<id, m>>]
        BY <4>1, <1>9, <3>1
      <4> QED BY <4>1, <4>2, <3>1, <2>2
    <3>3. ASSUME NEW m \in ToSet(a[id].retired) \ DOMAIN a[id].adopted
          PROVE  <<id, m>> \in DOMAIN ab /\ ab[<<id, m>>] >= RetireAfter
      <4>1. <<id, m>> \notin Adoptions(src) /\ <<id, m>> \notin Adoptions(a) /\ <<id, m>> \in DOMAIN ab
        BY <1>4, <1>5, <1>6, <3>1, <2>2 DEF k
      <4>2. ab[<<id, m>>] = absent[<<id, m>>]
        BY <4>1, <1>9
      <4> QED BY <4>1, <4>2, <3>1, <2>2
    <3> QED BY <2>1, <3>1, <3>2, <3>3 DEF k
  <2>7. CASE mine(id) # {}
    <3>1. PICK i \in mine(id) : i = CHOOSE j \in mine(id) : TRUE
      BY <2>7
    <3>2. i \in Inventories /\ mine(id) = {i}
      BY <2>4, <3>1
    <3> DEFINE present == {m.slug : m \in i.models}
    <3>3. a[id] = Decide(k, i)
      BY <1>11, <2>7, <3>1 DEF k
    <3>4. /\ a[id] \in [config : {k.config}, inventory : {a[id].inventory}, adopted : {a[id].adopted}, misses : {a[id].misses},
                        retired : Seq(Slugs), decisions : {a[id].decisions}]
          /\ IsFiniteSet(DOMAIN a[id].adopted) /\ DOMAIN a[id].adopted \subseteq Slugs /\ DOMAIN a[id].misses \subseteq DOMAIN a[id].adopted
          /\ \/ /\ i.auth # "authenticated"
                /\ DOMAIN k.adopted \subseteq DOMAIN a[id].adopted /\ a[id].misses = k.misses /\ a[id].retired = k.retired
             \/ /\ i.auth = "authenticated"
                /\ \A m \in DOMAIN a[id].adopted :
                      /\ Missing(a[id], m) = IF m \in present THEN 0 ELSE Missing(k, m) + 1
                      /\ Missing(a[id], m) < RetireAfter
                      /\ m \in present \/ m \in DOMAIN k.adopted
                /\ \A m \in ToSet(a[id].retired) \ DOMAIN a[id].adopted :
                      \/ m \in ToSet(k.retired) \ DOMAIN k.adopted
                      \/ m \in DOMAIN k.adopted \ present /\ Missing(k, m) + 1 >= RetireAfter
      BY <2>1, <2>3, <3>2, <3>3, DecideKeeps
    <3>5. a[id].config = k.config
      BY <3>4
    <3>6. a[id] \in [config : {a[id].config}, inventory : {a[id].inventory}, adopted : {a[id].adopted}, misses : {a[id].misses},
                    retired : Seq(Slugs), decisions : {a[id].decisions}]
      BY <3>4, <3>5
    <3>7. \A m : (\E x \in i.models : x.slug = m) <=> m \in present
      OBVIOUS
    <3> HIDE DEF present
    <3>8. told(id) = IF i.auth = "authenticated" THEN {i} ELSE {}
      BY <2>5, <3>2
    <3>a. i.auth = "authenticated" => told(id) # {} /\ \A m : (\E j \in told(id) : \E x \in j.models : x.slug = m) <=> m \in present
      BY <3>7, <3>8
    <3> HIDE DEF mine, told
    <3>9. ASSUME NEW m \in DOMAIN a[id].adopted
          PROVE  <<id, m>> \in DOMAIN ab /\ ab[<<id, m>>] = Missing(a[id], m) /\ ab[<<id, m>>] < RetireAfter
      <4>1. <<id, m>> \in Adoptions(a) /\ <<id, m>> \in DOMAIN ab
        BY <1>5, <1>6
      <4>2. CASE m \in DOMAIN k.adopted
        <5>1. <<id, m>> \in Adoptions(src)
          BY <4>2, <1>4 DEF k
        <5>2. absent[<<id, m>>] = Missing(k, m) /\ absent[<<id, m>>] < RetireAfter
          BY <4>2, <2>2
        <5>3. CASE i.auth # "authenticated"
          <6>1. ab[<<id, m>>] = absent[<<id, m>>]
            BY <4>1, <5>1, <5>3, <3>8, <1>9
          <6>2. Missing(a[id], m) = Missing(k, m)
            BY <3>4, <5>3 DEF Missing
          <6> QED BY <4>1, <5>2, <6>1, <6>2
        <5>4. CASE i.auth = "authenticated"
          <6>1. ab[<<id, m>>] = IF m \in present THEN 0 ELSE absent[<<id, m>>] + 1
            BY <4>1, <5>1, <5>4, <3>a, <1>9
          <6>2. Missing(a[id], m) = (IF m \in present THEN 0 ELSE Missing(k, m) + 1) /\ Missing(a[id], m) < RetireAfter
            BY <3>4, <5>4
          <6> QED BY <4>1, <5>2, <6>1, <6>2
        <5> QED BY <5>3, <5>4
      <4>3. CASE m \notin DOMAIN k.adopted
        <5>1. <<id, m>> \notin Adoptions(src)
          BY <4>3, <1>4 DEF k
        <5>2. ab[<<id, m>>] = 0
          BY <4>1, <5>1, <1>9
        <5>3. Missing(a[id], m) = 0
          <6>1. CASE i.auth # "authenticated"
            <7>1. m \notin DOMAIN a[id].misses
              BY <6>1, <3>4, <4>3, <2>1
            <7> QED BY <7>1 DEF Missing
          <6>2. CASE i.auth = "authenticated"
            BY <6>2, <3>4, <4>3
          <6> QED BY <6>1, <6>2
        <5> QED BY <4>1, <5>2, <5>3, <1>0
      <4> QED BY <4>2, <4>3
    <3>10. ASSUME NEW m \in ToSet(a[id].retired) \ DOMAIN a[id].adopted
           PROVE  <<id, m>> \in DOMAIN ab /\ ab[<<id, m>>] >= RetireAfter
      <4>1. <<id, m>> \notin Adoptions(a)
        BY <1>5
      <4>2. CASE m \in ToSet(k.retired) \ DOMAIN k.adopted
        <5>1. <<id, m>> \notin Adoptions(src)
          BY <4>2, <1>4 DEF k
        <5>2. <<id, m>> \in DOMAIN absent /\ absent[<<id, m>>] >= RetireAfter
          BY <4>2, <2>2
        <5>3. <<id, m>> \in DOMAIN ab
          BY <5>2, <1>6
        <5>4. ab[<<id, m>>] = absent[<<id, m>>]
          BY <4>1, <5>1, <5>3, <1>9
        <5> QED BY <5>2, <5>3, <5>4
      <4>3. CASE i.auth = "authenticated" /\ m \in DOMAIN k.adopted \ present /\ Missing(k, m) + 1 >= RetireAfter
        <5>1. <<id, m>> \in Adoptions(src)
          BY <4>3, <1>4 DEF k
        <5>2. <<id, m>> \in DOMAIN absent /\ absent[<<id, m>>] = Missing(k, m)
          BY <4>3, <2>2
        <5>3. <<id, m>> \in DOMAIN ab
          BY <5>2, <1>6
        <5>4. ab[<<id, m>>] = absent[<<id, m>>] + 1
          BY <4>3, <5>1, <5>3, <3>a, <1>9
        <5> QED BY <4>3, <5>2, <5>3, <5>4
      <4>4. i.auth # "authenticated" => m \in ToSet(k.retired) \ DOMAIN k.adopted
        BY <3>4
      <4> QED BY <3>4, <4>2, <4>3, <4>4
    <3> QED BY <3>4, <3>5, <3>6, <3>9, <3>10 DEF k
  <2> QED BY <2>6, <2>7
<1>13. Synchronised(a, cfg)
  BY <1>1, <1>2, <1>12 DEF Synchronised
<1>14. SourceShapes(a)
  BY <1>2, <1>12 DEF SourceShapes
<1>15. MissesAreCounted(a, ab)
  BY <1>2, <1>10, <1>12 DEF MissesAreCounted
<1> QED BY <1>13, <1>14, <1>15 DEF a, ab

-----------------------------------------------------------------------------
(* Composition *)

\* What is derived is of a source that is configured, and of a model its policy allows.
LEMMA DerivedAreAllowed ==
    ASSUME NEW st, NEW c \in Configurations, PartsAccepted(c), Synchronised(st, c), SourceShapes(st), NEW d \in DerivedRegistrations(st)
    PROVE  SourceById(c, SourceOf(d.id)) # Null /\ ModelOf(d.id) \in SourceById(c, SourceOf(d.id)).models
<1>1. PICK id \in DOMAIN st : d \in DerivedOf(st, id)
  BY DEF DerivedRegistrations
<1>2. PICK slug \in DOMAIN st[id].adopted :
         /\ Exclusion(st[id].config, slug) = Null
         /\ \E e \in PolicyEfforts \cup {Null} : d.id = DerivedId(id, slug, e)
  <2>1. PICK slug \in {s \in DOMAIN st[id].adopted : Exclusion(st[id].config, s) = Null} :
           d \in LET efforts == IF st[id].adopted[slug] = {} THEN {Null} ELSE st[id].adopted[slug] \cap PolicyEfforts
                IN  {[id |-> DerivedId(id, slug, e), provider |-> KindProvider(st[id].config.kind), model |-> slug, variant |-> e,
                      evidence |-> \E x \in st[id].config.evidence :
                                      /\ x.model = slug /\ x.variant = (IF e = Null THEN "plan" ELSE e)
                                      /\ st[id].inventory.exact /\ x.version = st[id].inventory.version] : e \in efforts}
    BY <1>1, Zenon DEF DerivedOf
  <2>2. PICK e \in (IF st[id].adopted[slug] = {} THEN {Null} ELSE st[id].adopted[slug] \cap PolicyEfforts) :
           d = [id |-> DerivedId(id, slug, e), provider |-> KindProvider(st[id].config.kind), model |-> slug, variant |-> e,
                evidence |-> \E x \in st[id].config.evidence :
                                /\ x.model = slug /\ x.variant = (IF e = Null THEN "plan" ELSE e)
                                /\ st[id].inventory.exact /\ x.version = st[id].inventory.version]
    BY <2>1, Zenon
  <2>3. d.id = DerivedId(id, slug, e)
    BY <2>2
  <2>4. e \in PolicyEfforts \cup {Null}
    BY <2>2
  <2> QED BY <2>1, <2>3, <2>4
<1>3. PICK e \in PolicyEfforts \cup {Null} : d.id = DerivedId(id, slug, e)
  BY <1>2
<1>4. slug \in Slugs
  BY DEF SourceShapes
<1>5. st[id].config = SourceById(c, id) /\ SourceById(c, id) # Null /\ id \in SourceIds
  <2>1. id \in Ids(c.sources) /\ st[id].config = SourceById(c, id)
    BY DEF Synchronised
  <2>2. SourceById(c, id) \in c.sources /\ SourceById(c, id).id = id /\ SourceById(c, id) # Null
    BY <2>1, ConfigurationParts, ByIdFacts DEF SourceById
  <2>3. id \in SourceIds
    BY <2>2 DEF PartsAccepted, SourceAccepted
  <2> QED BY <2>1, <2>2, <2>3
<1>6. SourceOf(d.id) = id /\ ModelOf(d.id) = slug
  BY <1>3, <1>4, <1>5, ControlAssumption DEF ControlAssumption
<1>7. slug \in st[id].config.models
  <2>1. Null \notin {"adoption_disabled", "legacy_track_policy", "model_not_allowed"}
    BY ControlAssumption DEF ControlAssumption
  <2> QED BY <1>2, <2>1 DEF Exclusion
<1> QED BY <1>5, <1>6, <1>7

\* The application that is composed knows of observations and derived resources of what is configured only.
LEMMA RebuiltFacts ==
    ASSUME NEW c \in Configurations, PartsAccepted(c), NEW st, SourceShapes(st), NEW ob, NEW a, a.gen \in Nat, NEW k, NEW sec,
           k \subseteq Clients
    PROVE  LET b == Rebuilt(c, st, ob, a, k, sec)
           IN  /\ b.src = SyncConfiguration(st, c.sources) /\ b.ok = TRUE
               /\ b.app \in [registered : {b.app.registered}, seen : {b.app.seen}, dir : {k}, grants : {b.app.grants},
                             serves : {b.app.serves}, gen : {a.gen + 1}]
               /\ DOMAIN b.app.seen \subseteq b.app.registered
               /\ \A id \in DOMAIN b.obs : id \in DOMAIN ob /\ b.obs[id] = ob[id] /\ (id \in DerivedIds => SourceById(c, SourceOf(id)) # Null)
               /\ ConfigurationAccepted(c) => AllowedBy(c, b.app.registered)
<1> DEFINE b == Rebuilt(c, st, ob, a, k, sec)
           synced == SyncConfiguration(st, c.sources)
           derived == DerivedRegistrations(synced)
           kept == Restricted(ob, (DOMAIN ob \ DerivedIds) \cup Ids(derived))
           registered == Ids(Enabled(c)) \cup Ids(derived)
           seen == Restricted(kept, registered)
           serves == AdapterServes(c, sec, derived)
<1>1. b = [src |-> synced, obs |-> kept, ok |-> TRUE,
           app |-> [registered |-> registered, seen |-> seen, dir |-> k, grants |-> c.grants, serves |-> serves, gen |-> a.gen + 1]]
  BY DEF Rebuilt
<1>2. \A d \in derived : SourceById(c, SourceOf(d.id)) # Null /\ ModelOf(d.id) \in SourceById(c, SourceOf(d.id)).models
  <2>1. Synchronised(synced, c) /\ SourceShapes(synced)
    BY SyncKeeps
  <2> HIDE DEF synced
  <2> QED BY <2>1, DerivedAreAllowed
<1> HIDE DEF derived, synced, serves
<1>3. DOMAIN seen \subseteq registered
  BY DEF Restricted
<1>4. \A id \in DOMAIN kept : id \in DOMAIN ob /\ kept[id] = ob[id] /\ (id \in DerivedIds => SourceById(c, SourceOf(id)) # Null)
  <2>1. DOMAIN kept = DOMAIN ob \cap ((DOMAIN ob \ DerivedIds) \cup Ids(derived)) /\ \A id \in DOMAIN kept : kept[id] = ob[id]
    BY DEF Restricted
  <2>2. \A id \in Ids(derived) : SourceById(c, SourceOf(id)) # Null
    BY <1>2 DEF Ids
  <2> HIDE DEF kept
  <2> QED BY <2>1, <2>2
<1>5. ConfigurationAccepted(c) => AllowedBy(c, registered)
  <2> SUFFICES ASSUME ConfigurationAccepted(c), NEW id \in registered \cap DerivedIds
               PROVE  SourceById(c, SourceOf(id)) # Null /\ ModelOf(id) \in SourceById(c, SourceOf(id)).models
    BY DEF AllowedBy
  <2>1. id \notin Ids(Enabled(c))
    BY DEF ConfigurationAccepted, Enabled, Ids
  <2>2. PICK d \in derived : id = d.id
    BY <2>1 DEF Ids
  <2> QED BY <1>2, <2>2
<1> HIDE DEF kept, seen, registered, b
<1>6. b.src = synced /\ b.obs = kept /\ b.ok = TRUE
      /\ b.app = [registered |-> registered, seen |-> seen, dir |-> k, grants |-> c.grants, serves |-> serves, gen |-> a.gen + 1]
      /\ b \in [src : {synced}, obs : {kept}, app : {b.app}, ok : {TRUE}]
  BY <1>1
<1>7. b.app.registered = registered /\ b.app.seen = seen /\ b.app.grants = c.grants /\ b.app.serves = serves
  BY <1>6
<1>8. b.app \in [registered : {b.app.registered}, seen : {b.app.seen}, dir : {k}, grants : {b.app.grants},
                serves : {b.app.serves}, gen : {a.gen + 1}]
  BY <1>6, <1>7
<1>9. \A id \in DOMAIN b.obs : id \in DOMAIN ob /\ b.obs[id] = ob[id] /\ (id \in DerivedIds => SourceById(c, SourceOf(id)) # Null)
  BY <1>4, <1>6
<1>10. /\ b.src = synced /\ b.ok = TRUE /\ DOMAIN b.app.seen \subseteq b.app.registered
       /\ ConfigurationAccepted(c) => AllowedBy(c, b.app.registered)
  BY <1>3, <1>5, <1>6, <1>7
<1>11. b.src = SyncConfiguration(st, c.sources)
  BY <1>10 DEF synced
<1> QED BY <1>8, <1>9, <1>10, <1>11 DEF b

\* What is rebuilt has its four parts.
LEMMA RebuiltRecord ==
    ASSUME NEW c, NEW st, NEW ob, NEW a, NEW k, NEW sec
    PROVE  LET b == Rebuilt(c, st, ob, a, k, sec) IN b \in [src : {b.src}, obs : {b.obs}, app : {b.app}, ok : {TRUE}]
BY DEF Rebuilt

\* What is written is read back as it was.
LEMMA StoredIsKept == ASSUME NEW c \in Configurations, PartsAccepted(c), ConfigurationAccepted(c) PROVE FromDocument(ToDocument(c)) = c
<1> DEFINE d == ToDocument(c)
           s == [f \in {g \in DOMAIN DefaultSettings : c.settings[g] # DefaultSettings[g]} |-> c.settings[f]]
           t == [f \in DOMAIN DefaultSettings |-> IF f \in DOMAIN s THEN s[f] ELSE DefaultSettings[f]]
           e == [providers |-> c.providers, resources |-> c.resources, sources |-> c.sources,
                 aliases |-> c.aliases, grants |-> c.grants, settings |-> t]
<1>1. c.settings = [f \in DOMAIN DefaultSettings |-> c.settings[f]]
  <2>1. c.settings \in {i.cfg.settings : i \in Initials} \cup {DefaultSettings}
    BY DEF Configurations
  <2>2. CASE c.settings = DefaultSettings
    <3>1. DefaultSettings = [f \in DOMAIN DefaultSettings |-> DefaultSettings[f]]
      BY ControlAssumption DEF ControlAssumption
    <3> QED BY <2>2, <3>1
  <2>3. ASSUME NEW i \in Initials, c.settings = i.cfg.settings PROVE c.settings = [f \in DOMAIN DefaultSettings |-> c.settings[f]]
    <3>1. i.cfg.settings = [f \in DOMAIN DefaultSettings |-> i.cfg.settings[f]]
      BY ControlAssumption DEF ControlAssumption
    <3> QED BY <2>3, <3>1
  <2> QED BY <2>1, <2>2, <2>3
<1>2. t = c.settings
  <2>1. \A f \in DOMAIN DefaultSettings : t[f] = c.settings[f]
    OBVIOUS
  <2>2. t = [f \in DOMAIN DefaultSettings |-> t[f]]
    OBVIOUS
  <2> HIDE DEF t
  <2> QED BY <1>1, <2>1, <2>2
<1>3. d = [version |-> 2, providers |-> c.providers, resources |-> c.resources, sources |-> c.sources,
           aliases |-> c.aliases, grants |-> c.grants, settings |-> s]
  BY DEF ToDocument
<1>4. c = e
  <2>1. c = [providers |-> c.providers, resources |-> c.resources, sources |-> c.sources,
             aliases |-> c.aliases, grants |-> c.grants, settings |-> c.settings]
    BY DEF Configurations
  <2> HIDE DEF t
  <2> QED BY <2>1, <1>2
<1> HIDE DEF d, t
<1>5. d.version = 2 /\ d.providers = c.providers /\ d.resources = c.resources /\ d.sources = c.sources /\ d.aliases = c.aliases
      /\ d.grants = c.grants /\ d.settings = s
  BY <1>3
<1>6. FromDocument(d) = IF /\ d.version \in {1, 2} /\ (d.sources # {} => d.version = 2)
                           /\ \A p \in d.providers : ProviderAccepted(p)
                           /\ \A x \in d.sources : SourceAccepted(x)
                           /\ ConfigurationAccepted(e)
                        THEN e ELSE Null
  BY <1>5 DEF FromDocument, t
<1> QED BY <1>4, <1>5, <1>6 DEF PartsAccepted, d

\* Composing again, for a configuration and observations that agree with it, keeps what is known of sources and observations.
LEMMA RecomposedKeeps ==
    ASSUME ControlIInv, NEW c \in Configurations, PartsAccepted(c), NEW ob, NEW fault,
           cfg' = c,
           obs' = Rebuilt(c, src, ob, app, Directory(app), secrets).obs,
           src' = Rebuilt(c, src, ob, app, Directory(app), secrets).src,
           app' = IF fault = "rebuild" THEN app ELSE Rebuilt(c, src, ob, app, Directory(app), secrets).app,
           failed' = (failed \/ fault \in {"rebuild", "store"}),
           probe' = probe, absent' = absent,
           ~failed => /\ ConfigurationAccepted(c)
                      /\ \A id \in DOMAIN ob : ob[id].by = Binding(c, id) /\ (id \notin DerivedIds => ResourceById(c, id) # Null)
    PROVE  /\ AppShape' /\ DOMAIN app'.seen \subseteq app'.registered
           /\ ~failed' => app'.dir = Active("inference")
           /\ SourceShapes(src)' /\ Synchronised(src, cfg)' /\ MissesAreCounted(src, absent)'
           /\ ObservationFacts' /\ ObservationsAreCurrent' /\ DerivedIsAllowed'
<1> DEFINE b == Rebuilt(c, src, ob, app, Directory(app), secrets)
<1>1. app.gen \in Nat /\ app.dir \subseteq Clients /\ DOMAIN app.seen \subseteq app.registered
  BY DEF ControlIInv, AppShape, TypeOK
<1>2. Directory(app) \subseteq Clients /\ Directory(app) = Active("inference")
  BY DEF Directory, Active
<1>3. SourceShapes(src) /\ MissesAreCounted(src, absent)
  BY DEF ControlIInv
<1>4. /\ b.src = SyncConfiguration(src, c.sources)
      /\ b.app \in [registered : {b.app.registered}, seen : {b.app.seen}, dir : {Directory(app)}, grants : {b.app.grants},
                    serves : {b.app.serves}, gen : {app.gen + 1}]
      /\ DOMAIN b.app.seen \subseteq b.app.registered
      /\ \A id \in DOMAIN b.obs : id \in DOMAIN ob /\ b.obs[id] = ob[id] /\ (id \in DerivedIds => SourceById(c, SourceOf(id)) # Null)
      /\ ConfigurationAccepted(c) => AllowedBy(c, b.app.registered)
  <2> DEFINE k == Directory(app)
  <2>1. app.gen \in Nat /\ k \subseteq Clients /\ SourceShapes(src)
    BY <1>1, <1>2, <1>3
  <2> HIDE DEF k
  <2>2. LET d == Rebuilt(c, src, ob, app, k, secrets)
        IN  /\ d.src = SyncConfiguration(src, c.sources) /\ d.ok = TRUE
            /\ d.app \in [registered : {d.app.registered}, seen : {d.app.seen}, dir : {k}, grants : {d.app.grants},
                          serves : {d.app.serves}, gen : {app.gen + 1}]
            /\ DOMAIN d.app.seen \subseteq d.app.registered
            /\ \A id \in DOMAIN d.obs : id \in DOMAIN ob /\ d.obs[id] = ob[id] /\ (id \in DerivedIds => SourceById(c, SourceOf(id)) # Null)
            /\ ConfigurationAccepted(c) => AllowedBy(c, d.app.registered)
    BY <2>1, RebuiltFacts, Zenon
  <2> QED BY <2>2 DEF k
<1>5. obs' = b.obs /\ src' = b.src /\ app' = IF fault = "rebuild" THEN app ELSE b.app
  OBVIOUS
<1> HIDE DEF b
<1>6. b.app.gen = app.gen + 1 /\ b.app.dir = Directory(app)
  BY <1>4
<1>7. AppShape' /\ DOMAIN app'.seen \subseteq app'.registered
  <2>1. CASE fault = "rebuild"
    <3>1. app' = app
      BY <2>1, <1>5
    <3> QED BY <3>1, <1>1 DEF ControlIInv, AppShape
  <2>2. CASE fault # "rebuild"
    <3>1. app' = b.app
      BY <2>2, <1>5
    <3>2. app' \in [registered : {app'.registered}, seen : {app'.seen}, dir : SUBSET Clients, grants : {app'.grants},
                   serves : {app'.serves}, gen : Nat]
      BY <3>1, <1>1, <1>2, <1>4
    <3> QED BY <3>1, <3>2, <1>4 DEF AppShape
  <2> QED BY <2>1, <2>2
<1>8. ~failed' => ~failed /\ fault # "rebuild" /\ app' = b.app
  BY <1>5
<1>9. ~failed' => app'.dir = Active("inference")
  BY <1>2, <1>6, <1>8
<1>10. Synchronised(src', c) /\ SourceShapes(src') /\ MissesAreCounted(src', absent)
  BY <1>3, <1>4, <1>5, SyncKeeps, SyncKeepsCounts
<1>11. Synchronised(src, cfg)' /\ SourceShapes(src)' /\ MissesAreCounted(src, absent)'
  BY <1>10 DEF Synchronised, SourceShapes, MissesAreCounted, Missing
<1>12. ASSUME ~failed', NEW id \in DOMAIN obs' PROVE Named(c, id) /\ obs'[id].by = Binding(c, id)
  <2>1. id \in DOMAIN ob /\ obs'[id] = ob[id] /\ (id \in DerivedIds => SourceById(c, SourceOf(id)) # Null)
    BY <1>4, <1>5
  <2> QED BY <2>1, <1>8, <1>12 DEF Named
<1>13. ObservationsAreCurrent'
  <2>1. \A id : Binding(c, id)' = Binding(c, id)
    BY DEF Binding, SourceById, ResourceById, ProviderById
  <2> QED BY <1>12 DEF ObservationsAreCurrent
<1>14. ObservationFacts'
  <2>1. ~failed' => \A id \in DOMAIN obs' : Named(cfg', id)
    BY <1>12
  <2>2. probe' # Null => /\ probe'.gen \in Nat /\ probe'.gen <= app'.gen
                         /\ (~failed' => probe'.gen # app'.gen)
    <3>1. probe # Null => probe.gen \in Nat /\ probe.gen <= app.gen
      BY DEF ControlIInv, ObservationFacts
    <3>2. app' = app \/ app'.gen = app.gen + 1
      BY <1>5, <1>6
    <3>3. ~failed' => app'.gen = app.gen + 1
      BY <1>6, <1>8
    <3> QED BY <3>1, <3>2, <3>3, <1>1
  <2> QED BY <2>1, <2>2 DEF ObservationFacts
<1>15. DerivedIsAllowed'
  BY <1>4, <1>8 DEF DerivedIsAllowed, AllowedBy
<1> QED BY <1>7, <1>9, <1>11, <1>13, <1>14, <1>15

\* What a save does not forget is of what is bound as before.
LEMMA ObservationsSurvive ==
    ASSUME ControlIInv, NEW c \in Configurations, ~failed, NEW id \in DOMAIN obs, id \notin Changed(c)
    PROVE  obs[id].by = Binding(c, id) /\ (id \notin DerivedIds => ResourceById(c, id) # Null)
<1>1. obs[id].by = Binding(cfg, id) /\ Named(cfg, id) /\ cfg \in Configurations
  BY DEF ControlIInv, ObservationsAreCurrent, ObservationFacts, ConfigurationFacts
<1>2. Null \notin cfg.resources /\ Null \notin c.resources /\ Null \notin cfg.sources /\ Null \notin c.sources
      /\ c.resources \subseteq ResourceRecords /\ cfg.resources \subseteq ResourceRecords
  BY <1>1, ConfigurationParts
<1>3. CASE id \in DerivedIds
  <2> DEFINE s == SourceById(cfg, SourceOf(id)) y == SourceById(c, SourceOf(id))
  <2>1. s # Null /\ s \in cfg.sources /\ s.id = SourceOf(id)
    BY <1>1, <1>2, <1>3, ByIdFacts DEF Named, SourceById
  <2>2. ~\E t \in cfg.sources : t.id = SourceOf(id) /\ LET z == SourceById(c, t.id) IN z = Null \/ z.worker # t.worker \/ z.kind # t.kind
    BY <1>3 DEF Changed
  <2>3. y # Null /\ y.worker = s.worker /\ y.kind = s.kind
    <3>1. ~(s.id = SourceOf(id) /\ LET z == SourceById(c, s.id) IN z = Null \/ z.worker # s.worker \/ z.kind # s.kind)
      BY <2>1, <2>2
    <3> HIDE DEF s
    <3> QED BY <2>1, <3>1
  <2>4. Binding(c, id) = <<y.worker, y.kind>> /\ Binding(cfg, id) = <<s.worker, s.kind>>
    BY <1>3, <2>1, <2>3 DEF Binding
  <2> QED BY <1>1, <1>3, <2>3, <2>4
<1>4. CASE id \notin DerivedIds
  <2> DEFINE x == ResourceById(cfg, id) y == ResourceById(c, id)
  <2>1. x # Null /\ x \in cfg.resources /\ x.id = id
    BY <1>1, <1>2, <1>4, ByIdFacts DEF Named, ResourceById
  <2>2. \A z \in cfg.resources : z.id = id =>
           ~LET w == ResourceById(c, z.id)
            IN  \/ w = Null
                \/ ~w.enabled \/ [w EXCEPT !.enabled = z.enabled] # z
                \/ (z.endpoint # Null /\ ProviderById(cfg, z.endpoint) # ProviderById(c, z.endpoint))
    BY DEF Changed
  <2>3. y # Null /\ [y EXCEPT !.enabled = x.enabled] = x /\ (x.endpoint # Null => ProviderById(cfg, x.endpoint) = ProviderById(c, x.endpoint))
    <3>1. ~LET w == ResourceById(c, x.id)
           IN  \/ w = Null
               \/ ~w.enabled \/ [w EXCEPT !.enabled = x.enabled] # x
               \/ (x.endpoint # Null /\ ProviderById(cfg, x.endpoint) # ProviderById(c, x.endpoint))
      BY <2>1, <2>2
    <3> HIDE DEF x
    <3> QED BY <2>1, <3>1
  <2>4. y \in ResourceRecords
    BY <1>2, <2>3, ByIdFacts DEF ResourceById
  <2> HIDE DEF x, y
  <2>5. y.worker = x.worker /\ y.adapter = x.adapter /\ y.endpoint = x.endpoint
    BY <2>3, <2>4 DEF ResourceRecords
  <2>6. Binding(cfg, id) = <<x.worker, x.adapter, IF x.endpoint = Null THEN Null ELSE ProviderById(cfg, x.endpoint)>>
    BY <1>4, <2>1 DEF Binding, x
  <2>7. Binding(c, id) = <<y.worker, y.adapter, IF y.endpoint = Null THEN Null ELSE ProviderById(c, y.endpoint)>>
    BY <1>4, <2>3 DEF Binding, y
  <2> QED BY <1>1, <1>4, <2>3, <2>5, <2>6, <2>7 DEF y
<1> QED BY <1>3, <1>4

\* A save that was checked leaves everything coherent, and so does one whose composition or whose store fails.
LEMMA SaveKeeps ==
    ASSUME ControlIInv, NEW c \in Configurations, PartsAccepted(c), ConfigurationAccepted(c), Saveable(c, Known, secrets),
           NEW fault, Save(c, fault), workers' = workers, probe' = probe, absent' = absent
    PROVE  /\ IsFeed(feed') /\ AppShape' /\ DOMAIN app'.seen \subseteq app'.registered
           /\ ~failed' => app'.dir = Active("inference")
           /\ SourceShapes(src)' /\ Synchronised(src, cfg)' /\ MissesAreCounted(src, absent)'
           /\ ObservationFacts' /\ ObservationsAreCurrent' /\ DerivedIsAllowed'
           /\ ConfigurationFacts' /\ ConfiguredAreKnown' /\ RestartKeeps'
<1> DEFINE ob == Restricted(obs, DOMAIN obs \ Changed(c))
<1>1. ~failed => \A id \in DOMAIN ob : ob[id].by = Binding(c, id) /\ (id \notin DerivedIds => ResourceById(c, id) # Null)
  <2> SUFFICES ASSUME ~failed, NEW id \in DOMAIN ob
               PROVE  ob[id].by = Binding(c, id) /\ (id \notin DerivedIds => ResourceById(c, id) # Null)
    OBVIOUS
  <2>1. id \in DOMAIN obs /\ id \notin Changed(c) /\ ob[id] = obs[id]
    BY DEF Restricted
  <2> HIDE DEF ob
  <2>2. obs[id].by = Binding(c, id) /\ (id \notin DerivedIds => ResourceById(c, id) # Null)
    BY <2>1, ObservationsSurvive
  <2> QED BY <2>1, <2>2
<1>2. /\ cfg' = c
      /\ obs' = Rebuilt(c, src, ob, app, Directory(app), secrets).obs
      /\ src' = Rebuilt(c, src, ob, app, Directory(app), secrets).src
      /\ app' = IF fault = "rebuild" THEN app ELSE Rebuilt(c, src, ob, app, Directory(app), secrets).app
      /\ disk' = IF fault \in {"rebuild", "store"} THEN disk ELSE {ToDocument(c)}
      /\ failed' = (failed \/ fault \in {"rebuild", "store"})
      /\ feed' = Around(feed, Now, Document(c, app', src', connected, now), fault)
  BY DEF Save
<1> HIDE DEF ob
<1>3. /\ AppShape' /\ DOMAIN app'.seen \subseteq app'.registered
      /\ ~failed' => app'.dir = Active("inference")
      /\ SourceShapes(src)' /\ Synchronised(src, cfg)' /\ MissesAreCounted(src, absent)'
      /\ ObservationFacts' /\ ObservationsAreCurrent' /\ DerivedIsAllowed'
  <2>1. ~failed => /\ ConfigurationAccepted(c)
                   /\ \A id \in DOMAIN ob : ob[id].by = Binding(c, id) /\ (id \notin DerivedIds => ResourceById(c, id) # Null)
    BY <1>1
  <2> QED BY <1>2, <2>1, RecomposedKeeps
<1>4. IsFeed(feed')
  BY <1>2, AroundTells DEF ControlIInv
<1>5. Stored' = IF fault \in {"rebuild", "store"} THEN Stored ELSE c
  <2>1. CASE fault \in {"rebuild", "store"}
    BY <1>2, <2>1 DEF Stored
  <2>2. CASE fault \notin {"rebuild", "store"}
    <3>1. disk' = {ToDocument(c)}
      BY <1>2, <2>2
    <3>2. (CHOOSE d \in disk' : TRUE) = ToDocument(c) /\ disk' # {}
      BY <3>1
    <3>3. Stored' = FromDocument(ToDocument(c))
      BY <3>2 DEF Stored
    <3> QED BY <2>2, <3>3, StoredIsKept
  <2> QED BY <2>1, <2>2
<1>6. ConfigurationFacts'
  BY <1>2, <1>5 DEF ControlIInv, ConfigurationFacts, PartsAccepted
<1>7. ConfiguredAreKnown'
  <2>1. Known' = Known /\ Known \subseteq Workers
    BY DEF Known
  <2>2. ExecutionAccepted(c, Known)
    BY DEF Saveable
  <2> QED BY <1>2, <2>1, <2>2 DEF ConfiguredAreKnown, ExecutionAccepted
<1>8. RestartKeeps'
  BY <1>2, <1>5 DEF RestartKeeps
<1> QED BY <1>3, <1>4, <1>6, <1>7, <1>8

\* Composing again on its own keeps everything coherent.
LEMMA ComposeKeeps ==
    ASSUME ControlIInv, NEW fault, fault # "store", Rebuild(fault), cfg' = cfg, disk' = disk, workers' = workers, probe' = probe, absent' = absent
    PROVE  /\ IsFeed(feed') /\ AppShape' /\ DOMAIN app'.seen \subseteq app'.registered
           /\ ~failed' => app'.dir = Active("inference")
           /\ SourceShapes(src)' /\ Synchronised(src, cfg)' /\ MissesAreCounted(src, absent)'
           /\ ObservationFacts' /\ ObservationsAreCurrent' /\ DerivedIsAllowed'
           /\ ConfigurationFacts' /\ ConfiguredAreKnown' /\ RestartKeeps'
<1>1. ~failed => /\ ConfigurationAccepted(cfg)
                 /\ \A id \in DOMAIN obs : obs[id].by = Binding(cfg, id) /\ (id \notin DerivedIds => ResourceById(cfg, id) # Null)
  BY DEF ControlIInv, ConfiguredAreKnown, ObservationsAreCurrent, ObservationFacts, Named
<1>2. /\ obs' = Rebuilt(cfg, src, obs, app, Directory(app), secrets).obs
      /\ src' = Rebuilt(cfg, src, obs, app, Directory(app), secrets).src
      /\ app' = IF fault = "rebuild" THEN app ELSE Rebuilt(cfg, src, obs, app, Directory(app), secrets).app
      /\ failed' = (failed \/ fault \in {"rebuild", "store"})
      /\ feed' = Around(feed, Now, Document(cfg, app', src', connected, now), fault)
  BY DEF Rebuild
<1>3. cfg \in Configurations /\ PartsAccepted(cfg)
  BY DEF ControlIInv, ConfigurationFacts
<1>4. /\ AppShape' /\ DOMAIN app'.seen \subseteq app'.registered
      /\ ~failed' => app'.dir = Active("inference")
      /\ SourceShapes(src)' /\ Synchronised(src, cfg)' /\ MissesAreCounted(src, absent)'
      /\ ObservationFacts' /\ ObservationsAreCurrent' /\ DerivedIsAllowed'
  BY <1>1, <1>2, <1>3, RecomposedKeeps
<1>5. IsFeed(feed')
  BY <1>2, AroundTells DEF ControlIInv
<1>6. ConfigurationFacts' /\ ConfiguredAreKnown' /\ RestartKeeps'
  <2>1. ~failed' => ~failed
    BY <1>2
  <2> QED BY <2>1 DEF ControlIInv, ConfigurationFacts, PartsAccepted, ConfiguredAreKnown, RestartKeeps, Stored, Known
<1> QED BY <1>4, <1>5, <1>6

-----------------------------------------------------------------------------
(* The administrator's operations *)

\* A step that leaves the composed state alone is about what administrators hold.
LEMMA StillKeeps ==
    ASSUME ControlIInv, UNCHANGED <<cfg, disk, workers, connected, app, src, obs, feed, probe, failed, absent>>, TaskFacts', RevocationIsDue'
    PROVE  ControlIInv'
<1>1. TypeOK' /\ AppShape' /\ IsFeed(feed)'
  BY DEF ControlIInv, TypeOK, AppShape, IsFeed
<1>2. ConfigurationFacts' /\ ConfiguredAreKnown' /\ RestartKeeps'
  BY DEF ControlIInv, ConfigurationFacts, ConfiguredAreKnown, RestartKeeps, Stored, Known, PartsAccepted
<1>3. SourceShapes(src)' /\ Synchronised(src, cfg)' /\ MissesAreCounted(src, absent)'
  BY DEF ControlIInv, SourceShapes, Synchronised, MissesAreCounted, Missing
<1>4. ObservationFacts' /\ ObservationsAreCurrent' /\ DerivedIsAllowed'
  BY DEF ControlIInv, ObservationFacts, ObservationsAreCurrent, DerivedIsAllowed, AllowedBy
<1> QED BY <1>1, <1>2, <1>3, <1>4 DEF ControlIInv

\* An operation that begins holds a configuration of accepted parts.
LEMMA BeginKeeps ==
    ASSUME ControlIInv, NEW a \in Admins, NEW new \in Configurations, PartsAccepted(new), Begin(a, "save", new), Still
    PROVE  ControlIInv'
<1>1. task[a].op = "idle" /\ task' = [task EXCEPT ![a] = [Idle EXCEPT !.op = "save", !.new = new]] /\ keys' = keys
  BY DEF Begin, Still
<1>2. task \in [Admins -> Tasks]
  BY DEF ControlIInv, TaskFacts
<1> DEFINE t == [Idle EXCEPT !.op = "save", !.new = new]
<1>3. t \in Tasks /\ t.op = "save" /\ t.new = new /\ t.client = Null
  BY DEF Idle, Tasks
<1> HIDE DEF t
<1>4. task' \in [Admins -> Tasks] /\ task'[a] = t /\ \A x \in Admins : x # a => task'[x] = task[x]
  BY <1>1, <1>2, <1>3 DEF t
<1>5. TaskFacts'
  <2>1. ASSUME NEW x \in Admins
        PROVE  /\ task'[x].op \in {"save", "grant"} => task'[x].new \in Configurations /\ PartsAccepted(task'[x].new)
               /\ task'[x].op \in {"grant", "key", "compose"} => task'[x].client \in Clients
               /\ task'[x].op \in {"grant", "key"} => task'[x].role \in Roles
    <3>1. CASE x = a
      BY <3>1, <1>3, <1>4
    <3>2. CASE x # a
      BY <3>2, <1>4 DEF ControlIInv, TaskFacts
    <3> QED BY <3>1, <3>2
  <2>2. keys' \in [Clients -> KeyRecords]
    BY <1>1 DEF ControlIInv, TaskFacts
  <2> QED BY <2>1, <2>2, <1>4 DEF TaskFacts, PartsAccepted
<1>6. RevocationIsDue'
  BY <1>1, <1>4 DEF Still, ControlIInv, RevocationIsDue
<1> QED BY <1>5, <1>6, StillKeeps DEF Still

\* An operation on a key that begins.
LEMMA BeginKeyKeeps ==
    ASSUME ControlIInv, NEW a \in Admins, NEW op \in {"grant", "key", "compose"}, NEW new \in Configurations \cup {Null}, NEW c \in Clients,
           NEW role \in Roles \cup {Null}, op = "grant" => new \in Configurations /\ PartsAccepted(new),
           op \in {"grant", "key"} => role \in Roles,
           BeginKey(a, op, new, c, role), UNCHANGED <<cfg, disk, workers, connected, app, src, obs, feed, probe, failed, absent>>,
           keys' = keys \/ (op = "compose" /\ keys' = [keys EXCEPT ![c].state = "revoked"])
    PROVE  ControlIInv'
<1> DEFINE t == [op |-> op, new |-> new, client |-> c, role |-> role]
<1>1. task[a].op = "idle" /\ task' = [task EXCEPT ![a] = t]
  BY DEF BeginKey
<1>2. task \in [Admins -> Tasks] /\ keys \in [Clients -> KeyRecords]
  BY DEF ControlIInv, TaskFacts
<1>3. t \in Tasks /\ t.op = op /\ t.new = new /\ t.client = c /\ t.role = role
  BY DEF Tasks
<1> HIDE DEF t
<1>4. task' \in [Admins -> Tasks] /\ task'[a] = t /\ \A x \in Admins : x # a => task'[x] = task[x]
  BY <1>1, <1>2, <1>3
<1>5. keys' \in [Clients -> KeyRecords] /\ (\A x \in Clients : x # c => keys'[x] = keys[x]) /\ (keys' = keys \/ op = "compose")
  BY <1>2 DEF KeyRecords
<1>6. TaskFacts'
  <2>1. ASSUME NEW x \in Admins
        PROVE  /\ task'[x].op \in {"save", "grant"} => task'[x].new \in Configurations /\ PartsAccepted(task'[x].new)
               /\ task'[x].op \in {"grant", "key", "compose"} => task'[x].client \in Clients
               /\ task'[x].op \in {"grant", "key"} => task'[x].role \in Roles
    <3>1. CASE x = a
      BY <3>1, <1>3, <1>4
    <3>2. CASE x # a
      BY <3>2, <1>4 DEF ControlIInv, TaskFacts
    <3> QED BY <3>1, <3>2
  <2> QED BY <2>1, <1>4, <1>5 DEF TaskFacts, PartsAccepted
<1>7. RevocationIsDue'
  <2> SUFFICES ASSUME ~failed', NEW x \in Clients, keys'[x].state = "revoked", x \in app'.dir
               PROVE  \E y \in Admins : task'[y].op = "compose" /\ task'[y].client = x
    BY DEF RevocationIsDue
  <2>1. CASE x = c /\ op = "compose"
    BY <2>1, <1>3, <1>4
  <2>2. CASE ~(x = c /\ op = "compose")
    <3>1. keys[x].state = "revoked" /\ x \in app.dir /\ ~failed
      BY <2>2, <1>5
    <3>2. PICK y \in Admins : task[y].op = "compose" /\ task[y].client = x
      BY <3>1 DEF ControlIInv, RevocationIsDue
    <3>3. y # a
      BY <3>2, <1>1
    <3> QED BY <3>2, <3>3, <1>4
  <2> QED BY <2>1, <2>2
<1> QED BY <1>6, <1>7, StillKeeps

\* The parts of the configuration that is held.
LEMMA HeldParts ==
    ASSUME ControlIInv
    PROVE  /\ cfg \in Configurations /\ PartsAccepted(cfg)
           /\ cfg.providers \subseteq ProviderParts /\ cfg.resources \subseteq ResourceRecords /\ cfg.sources \subseteq SourceRecords
           /\ cfg.aliases \subseteq AliasParts /\ cfg.grants \subseteq Clients
           /\ Null \notin cfg.sources /\ Null \notin cfg.resources
<1>1. cfg \in Configurations /\ PartsAccepted(cfg)
  BY DEF ControlIInv, ConfigurationFacts
<1>2. /\ cfg.providers \subseteq ProviderParts /\ cfg.resources \subseteq ResourceRecords /\ cfg.sources \subseteq SourceRecords
      /\ cfg.aliases \subseteq AliasParts /\ cfg.grants \subseteq Clients
  BY <1>1 DEF Configurations
<1> QED BY <1>1, <1>2, ConfigurationParts

\* A provider is added to the configuration read.
LEMMA AddProviderKeeps ==
    ASSUME ControlIInv, NEW a \in Admins, NEW p \in Providers, NEW secret, AddProvider(a, p, secret)
    PROVE  ControlIInv'
<1> DEFINE new == [cfg EXCEPT !.providers = @ \cup {p}]
<1>1. new \in Configurations /\ new.providers = cfg.providers \cup {p} /\ new.sources = cfg.sources
  BY HeldParts DEF Configurations, ProviderParts
<1>2. PartsAccepted(new)
  BY <1>1, HeldParts DEF PartsAccepted, AddProvider
<1>3. Begin(a, "save", new) /\ Still
  BY DEF AddProvider
<1> HIDE DEF new
<1> QED BY <1>1, <1>2, <1>3, BeginKeeps

\* A provider is taken out, and its resources stay without an endpoint.
LEMMA RemoveProviderKeeps ==
    ASSUME ControlIInv, NEW a \in Admins, NEW id, RemoveProvider(a, id)
    PROVE  ControlIInv'
<1> DEFINE P == {p \in cfg.providers : p.id # id}
           R == {IF r.endpoint = id THEN WithEndpoint(r, Null) ELSE r : r \in cfg.resources}
           new == [cfg EXCEPT !.providers = P, !.resources = R]
<1>1. P \subseteq ProviderParts /\ P \subseteq cfg.providers
  BY HeldParts
<1>2. R \subseteq ResourceRecords
  <2>1. \A r \in ResourceRecords : WithEndpoint(r, Null) \in ResourceRecords
    BY DEF WithEndpoint, ResourceRecords
  <2> QED BY <2>1, HeldParts
<1>3. Begin(a, "save", new) /\ Still
  BY DEF RemoveProvider
<1> HIDE DEF P, R
<1>4. new \in Configurations /\ new.providers = P /\ new.sources = cfg.sources
  BY <1>1, <1>2, HeldParts DEF Configurations
<1>5. PartsAccepted(new)
  BY <1>1, <1>4, HeldParts DEF PartsAccepted
<1> HIDE DEF new
<1> QED BY <1>3, <1>4, <1>5, BeginKeeps

\* A source is taken out.
LEMMA RemoveSourceKeeps ==
    ASSUME ControlIInv, NEW a \in Admins, NEW id, RemoveSource(a, id)
    PROVE  ControlIInv'
<1> DEFINE S == {s \in cfg.sources : s.id # id} new == [cfg EXCEPT !.sources = S]
<1>1. S \subseteq SourceRecords /\ S \subseteq cfg.sources
  BY HeldParts
<1>2. Begin(a, "save", new) /\ Still
  BY DEF RemoveSource
<1> HIDE DEF S
<1>3. new \in Configurations /\ new.providers = cfg.providers /\ new.sources = S
  BY <1>1, HeldParts DEF Configurations
<1>4. PartsAccepted(new)
  BY <1>1, <1>3, HeldParts DEF PartsAccepted
<1> HIDE DEF new
<1> QED BY <1>2, <1>3, <1>4, BeginKeeps

\* A source's policy is replaced.
LEMMA SetPolicyKeeps ==
    ASSUME ControlIInv, NEW a \in Admins, NEW id, NEW p \in Policies, SetPolicy(a, id, p)
    PROVE  ControlIInv'
<1> DEFINE s == SourceById(cfg, id)
           t == [s EXCEPT !.tracks = {}, !.adopt = p.adopt, !.models = p.models]
           S == (cfg.sources \ {s}) \cup {t}
           new == [cfg EXCEPT !.sources = S]
<1>1. s # Null /\ SourceAccepted(t) /\ Begin(a, "save", new) /\ Still
  BY DEF SetPolicy
<1>2. s \in cfg.sources /\ s \in SourceRecords
  BY <1>1, HeldParts, ByIdFacts DEF SourceById
<1> HIDE DEF s
<1>3. t \in SourceRecords
  BY <1>2 DEF SourceRecords
<1> HIDE DEF t
<1>4. S \subseteq SourceRecords /\ \A x \in S : x \in cfg.sources \/ x = t
  BY <1>3, HeldParts
<1> HIDE DEF S
<1>5. new \in Configurations /\ new.providers = cfg.providers /\ new.sources = S
  BY <1>4, HeldParts DEF Configurations
<1>6. PartsAccepted(new)
  BY <1>1, <1>4, <1>5, HeldParts DEF PartsAccepted
<1> HIDE DEF new
<1> QED BY <1>1, <1>5, <1>6, BeginKeeps

\* A resource is taken out.
LEMMA RemoveResourceKeeps ==
    ASSUME ControlIInv, NEW a \in Admins, NEW id, RemoveResource(a, id)
    PROVE  ControlIInv'
<1> DEFINE R == {r \in cfg.resources : r.id # id} new == [cfg EXCEPT !.resources = R]
<1>1. R \subseteq ResourceRecords
  BY HeldParts
<1>2. Begin(a, "save", new) /\ Still
  BY DEF RemoveResource
<1> HIDE DEF R
<1>3. new \in Configurations /\ new.providers = cfg.providers /\ new.sources = cfg.sources
  BY <1>1, HeldParts DEF Configurations
<1>4. PartsAccepted(new)
  BY <1>3, HeldParts DEF PartsAccepted
<1> HIDE DEF new
<1> QED BY <1>2, <1>3, <1>4, BeginKeeps

\* A resource is switched on or off.
LEMMA SetEnabledKeeps ==
    ASSUME ControlIInv, NEW a \in Admins, NEW id, NEW on \in BOOLEAN, SetEnabled(a, id, on)
    PROVE  ControlIInv'
<1> DEFINE R == {IF r.id = id THEN WithEnabled(r, on) ELSE r : r \in cfg.resources} new == [cfg EXCEPT !.resources = R]
<1>1. R \subseteq ResourceRecords
  <2>1. \A r \in ResourceRecords : WithEnabled(r, on) \in ResourceRecords
    BY DEF WithEnabled, ResourceRecords
  <2> QED BY <2>1, HeldParts
<1>2. Begin(a, "save", new) /\ Still
  BY DEF SetEnabled
<1> HIDE DEF R
<1>3. new \in Configurations /\ new.providers = cfg.providers /\ new.sources = cfg.sources
  BY <1>1, HeldParts DEF Configurations
<1>4. PartsAccepted(new)
  BY <1>3, HeldParts DEF PartsAccepted
<1> HIDE DEF new
<1> QED BY <1>2, <1>3, <1>4, BeginKeeps

\* An alias is put or deleted.
LEMMA AliasKeeps ==
    ASSUME ControlIInv, NEW a \in Admins, NEW x \in Aliases, PutAlias(a, x) \/ DeleteAlias(a, x.alias)
    PROVE  ControlIInv'
<1> DEFINE A == {y \in cfg.aliases : y.alias # x.alias}
<1>1. A \subseteq AliasParts /\ A \cup {x} \subseteq AliasParts
  BY HeldParts DEF AliasParts
<1>2. PICK B \in SUBSET AliasParts : Begin(a, "save", [cfg EXCEPT !.aliases = B]) /\ Still
  BY <1>1 DEF PutAlias, DeleteAlias
<1> DEFINE new == [cfg EXCEPT !.aliases = B]
<1>3. new \in Configurations /\ new.providers = cfg.providers /\ new.sources = cfg.sources
  BY HeldParts DEF Configurations
<1>4. PartsAccepted(new)
  BY <1>3, HeldParts DEF PartsAccepted
<1> HIDE DEF new
<1> QED BY <1>2, <1>3, <1>4, BeginKeeps DEF new

\* A key is about to be issued.
LEMMA IssueKeyKeeps ==
    ASSUME ControlIInv, NEW a \in Admins, NEW c \in Clients, NEW role \in Roles, NEW granted \in BOOLEAN, IssueKey(a, c, role, granted)
    PROVE  ControlIInv'
<1> DEFINE with == [cfg EXCEPT !.grants = @ \cup {c}]
           new == IF granted THEN with ELSE Null
           op == IF granted THEN "grant" ELSE "key"
<1>1. with \in Configurations /\ with.providers = cfg.providers /\ with.sources = cfg.sources
  BY HeldParts DEF Configurations
<1>2. PartsAccepted(with)
  BY <1>1, HeldParts DEF PartsAccepted
<1>3. BeginKey(a, op, new, c, role) /\ keys' = keys /\ UNCHANGED <<cfg, disk, workers, connected, app, src, obs, feed, probe, failed, absent>>
  BY DEF IssueKey, Still
<1> HIDE DEF with
<1>4. /\ op \in {"grant", "key", "compose"} /\ new \in Configurations \cup {Null} /\ role \in Roles \cup {Null}
      /\ op = "grant" => new \in Configurations /\ PartsAccepted(new)
  BY <1>1, <1>2
<1> HIDE DEF new, op
<1> QED BY <1>3, <1>4, BeginKeyKeeps

\* A key is revoked, and the composition that follows is due.
LEMMA RevokeKeyKeeps ==
    ASSUME ControlIInv, NEW a \in Admins, NEW c \in Clients, RevokeKey(a, c)
    PROVE  ControlIInv'
<1>1. /\ BeginKey(a, "compose", Null, c, Null) /\ keys' = [keys EXCEPT ![c].state = "revoked"]
      /\ UNCHANGED <<cfg, disk, workers, connected, app, src, obs, feed, probe, failed, absent>>
  BY DEF RevokeKey
<1>2. Null \in Configurations \cup {Null} /\ Null \in Roles \cup {Null}
  OBVIOUS
<1> QED BY <1>1, <1>2, BeginKeyKeeps

\* The shapes of the parts are the type of the whole.
LEMMA TypeOfParts ==
    ASSUME IsFeed(feed'), AppShape', DOMAIN app'.seen \subseteq app'.registered, ControlIInv,
           workers' \in [Workers -> {"absent", "active", "revoked"}], connected' \subseteq Workers
    PROVE  TypeOK'
<1>1. app'.dir \subseteq Clients
  BY DEF AppShape
<1> QED BY <1>1 DEF TypeOK, IsFeed

\* One administrator's task is replaced by one of its kind.
LEMMA TaskIsReplaced ==
    ASSUME TaskFacts, NEW a \in Admins, NEW t \in Tasks, task' = [task EXCEPT ![a] = t], keys' \in [Clients -> KeyRecords],
           t.op \in {"save", "grant"} => t.new \in Configurations /\ PartsAccepted(t.new),
           t.op \in {"grant", "key", "compose"} => t.client \in Clients,
           t.op \in {"grant", "key"} => t.role \in Roles
    PROVE  TaskFacts' /\ task'[a] = t /\ \A x \in Admins : x # a => task'[x] = task[x]
<1>1. task \in [Admins -> Tasks]
  BY DEF TaskFacts
<1>2. task' \in [Admins -> Tasks] /\ task'[a] = t /\ \A x \in Admins : x # a => task'[x] = task[x]
  BY <1>1
<1>3. ASSUME NEW x \in Admins
      PROVE  /\ task'[x].op \in {"save", "grant"} => task'[x].new \in Configurations /\ PartsAccepted(task'[x].new)
             /\ task'[x].op \in {"grant", "key", "compose"} => task'[x].client \in Clients
             /\ task'[x].op \in {"grant", "key"} => task'[x].role \in Roles
  <2>1. CASE x = a
    BY <2>1, <1>2
  <2>2. CASE x # a
    BY <2>2, <1>2 DEF TaskFacts
  <2> QED BY <2>1, <2>2
<1> QED BY <1>2, <1>3 DEF TaskFacts, PartsAccepted

\* An administrator who holds nothing.
LEMMA IdleIsTask ==
    /\ Idle \in Tasks /\ Idle.op = "idle"
    /\ \A t \in Tasks : [t EXCEPT !.op = "key", !.new = Null] \in Tasks /\ [t EXCEPT !.op = "compose"] \in Tasks
BY DEF Idle, Tasks

\* The directory that was just composed lets no revoked client in.
LEMMA ComposedRefuses == ASSUME keys' = keys, ~failed' => app'.dir = Active("inference") PROVE RevocationIsDue'
BY DEF RevocationIsDue, Active

\* The save of what an administrator holds.
LEMMA AdminSaveKeeps == ASSUME ControlIInv, NEW a \in Admins, NEW fault \in SaveFaults, AdminSave(a, fault) PROVE ControlIInv'
<1> DEFINE t == task[a] c == task[a].new
           u == IF t.op = "grant" /\ fault \notin {"rebuild", "store"} THEN [t EXCEPT !.op = "key", !.new = Null] ELSE Idle
<1>1. /\ t.op \in {"save", "grant"} /\ ConfigurationAccepted(c) /\ Saveable(c, Known, secrets) /\ Save(c, fault)
      /\ task' = [task EXCEPT ![a] = u]
      /\ workers' = workers /\ connected' = connected /\ keys' = keys /\ probe' = probe /\ absent' = absent
  BY DEF AdminSave
<1>2. TaskFacts /\ t \in Tasks /\ c \in Configurations /\ PartsAccepted(c)
  BY <1>1 DEF ControlIInv, TaskFacts
<1>3. /\ IsFeed(feed') /\ AppShape' /\ DOMAIN app'.seen \subseteq app'.registered
      /\ ~failed' => app'.dir = Active("inference")
      /\ SourceShapes(src)' /\ Synchronised(src, cfg)' /\ MissesAreCounted(src, absent)'
      /\ ObservationFacts' /\ ObservationsAreCurrent' /\ DerivedIsAllowed'
      /\ ConfigurationFacts' /\ ConfiguredAreKnown' /\ RestartKeeps'
  <2> HIDE DEF c
  <2> QED BY <1>1, <1>2, SaveKeeps
<1>4. TypeOK'
  BY <1>1, <1>3, TypeOfParts DEF ControlIInv, TypeOK
<1>5. TaskFacts'
  <2>1. u \in Tasks /\ (u.op = "key" \/ u.op = "idle") /\ (u.op = "key" => u.client = t.client /\ u.role = t.role /\ t.op = "grant")
    <3>1. CASE t.op = "grant" /\ fault \notin {"rebuild", "store"}
      <4>1. u = [t EXCEPT !.op = "key", !.new = Null]
        BY <3>1
      <4>2. u \in Tasks
        BY <4>1, <1>2, IdleIsTask
      <4>3. u.op = "key" /\ u.client = t.client /\ u.role = t.role
        BY <4>1, <1>2 DEF Tasks
      <4> QED BY <3>1, <4>2, <4>3
    <3>2. CASE ~(t.op = "grant" /\ fault \notin {"rebuild", "store"})
      <4>1. u = Idle
        BY <3>2
      <4> QED BY <4>1, IdleIsTask
    <3> QED BY <3>1, <3>2
  <2>2. t.op = "grant" => t.client \in Clients /\ t.role \in Roles
    BY <1>2 DEF TaskFacts
  <2>3. keys' \in [Clients -> KeyRecords]
    BY <1>1, <1>2 DEF TaskFacts
  <2> HIDE DEF u
  <2>4. /\ u.op \in {"save", "grant"} => u.new \in Configurations /\ PartsAccepted(u.new)
        /\ u.op \in {"grant", "key", "compose"} => u.client \in Clients
        /\ u.op \in {"grant", "key"} => u.role \in Roles
    BY <2>1, <2>2
  <2> QED BY <1>1, <1>2, <2>1, <2>3, <2>4, TaskIsReplaced
<1>6. RevocationIsDue'
  BY <1>1, <1>3, ComposedRefuses
<1> QED BY <1>3, <1>4, <1>5, <1>6 DEF ControlIInv

\* A composition that was due.
LEMMA AdminRebuildKeeps == ASSUME ControlIInv, NEW a \in Admins, NEW fault \in FeedFaults \cup {"rebuild"}, AdminRebuild(a, fault) PROVE ControlIInv'
<1>1. /\ Rebuild(fault) /\ task' = [task EXCEPT ![a] = Idle] /\ fault # "store"
      /\ cfg' = cfg /\ disk' = disk /\ workers' = workers /\ connected' = connected /\ keys' = keys /\ probe' = probe /\ absent' = absent
  BY DEF AdminRebuild, FeedFaults
<1>2. /\ IsFeed(feed') /\ AppShape' /\ DOMAIN app'.seen \subseteq app'.registered
      /\ ~failed' => app'.dir = Active("inference")
      /\ SourceShapes(src)' /\ Synchronised(src, cfg)' /\ MissesAreCounted(src, absent)'
      /\ ObservationFacts' /\ ObservationsAreCurrent' /\ DerivedIsAllowed'
      /\ ConfigurationFacts' /\ ConfiguredAreKnown' /\ RestartKeeps'
  BY <1>1, ComposeKeeps
<1>3. TypeOK'
  BY <1>1, <1>2, TypeOfParts DEF ControlIInv, TypeOK
<1>4. TaskFacts'
  BY <1>1, IdleIsTask, TaskIsReplaced DEF ControlIInv, TaskFacts
<1>5. RevocationIsDue'
  BY <1>1, <1>2, ComposedRefuses
<1> QED BY <1>2, <1>3, <1>4, <1>5 DEF ControlIInv

\* A step that publishes and leaves the composed state alone.
LEMMA PublishingKeeps ==
    ASSUME ControlIInv, UNCHANGED <<cfg, disk, workers, app, src, obs, probe, failed, absent>>, connected' \subseteq Workers, IsFeed(feed'),
           TaskFacts', RevocationIsDue'
    PROVE  ControlIInv'
<1>1. AppShape' /\ DOMAIN app'.seen \subseteq app'.registered
  BY DEF ControlIInv, AppShape, TypeOK
<1>2. TypeOK'
  BY <1>1, TypeOfParts DEF ControlIInv, TypeOK
<1>3. ConfigurationFacts' /\ ConfiguredAreKnown' /\ RestartKeeps'
  BY DEF ControlIInv, ConfigurationFacts, ConfiguredAreKnown, RestartKeeps, Stored, Known, PartsAccepted
<1>4. SourceShapes(src)' /\ Synchronised(src, cfg)' /\ MissesAreCounted(src, absent)'
  BY DEF ControlIInv, SourceShapes, Synchronised, MissesAreCounted, Missing
<1>5. ObservationFacts' /\ ObservationsAreCurrent' /\ DerivedIsAllowed'
  BY DEF ControlIInv, ObservationFacts, ObservationsAreCurrent, DerivedIsAllowed, AllowedBy
<1>6. IsFeed(feed)'
  BY DEF IsFeed
<1> QED BY <1>1, <1>2, <1>3, <1>4, <1>5, <1>6 DEF ControlIInv

\* What the tasks and the keys say stays where neither changes.
LEMMA TasksStay ==
    ASSUME ControlIInv, task' = task, keys' = keys, app'.dir = app.dir, failed' = failed
    PROVE  TaskFacts' /\ RevocationIsDue'
BY DEF ControlIInv, TaskFacts, RevocationIsDue, PartsAccepted

\* What an administrator held is refused, and only the state document is published.
LEMMA AdminRefusedKeeps == ASSUME ControlIInv, NEW a \in Admins, AdminRefused(a) PROVE ControlIInv'
<1>1. /\ task' = [task EXCEPT ![a] = Idle] /\ task[a].op # "compose" /\ keys' = keys /\ feed' = Around(feed, Now, Now, "none")
      /\ UNCHANGED <<cfg, disk, workers, app, src, obs, probe, failed, absent>> /\ connected' = connected
  BY DEF AdminRefused
<1>2. IsFeed(feed')
  BY <1>1, AroundTells DEF ControlIInv
<1>3. TaskFacts' /\ \A x \in Admins : x # a => task'[x] = task[x]
  BY <1>1, IdleIsTask, TaskIsReplaced DEF ControlIInv, TaskFacts
<1>4. RevocationIsDue'
  <2> SUFFICES ASSUME ~failed', NEW x \in Clients, keys'[x].state = "revoked", x \in app'.dir
               PROVE  \E y \in Admins : task'[y].op = "compose" /\ task'[y].client = x
    BY DEF RevocationIsDue
  <2>1. PICK y \in Admins : task[y].op = "compose" /\ task[y].client = x
    BY <1>1 DEF ControlIInv, RevocationIsDue
  <2> QED BY <2>1, <1>1, <1>3
<1>5. connected' \subseteq Workers
  BY <1>1 DEF ControlIInv, TypeOK
<1> QED BY <1>1, <1>2, <1>3, <1>4, <1>5, PublishingKeeps

\* A key is stored, and who stored it is due to compose.
LEMMA AddKeyKeeps == ASSUME ControlIInv, NEW a \in Admins, AddKey(a) PROVE ControlIInv'
<1> DEFINE t == task[a] taken == keys[t.client].state # "none"
           u == IF taken THEN Idle ELSE [t EXCEPT !.op = "compose"]
<1>1. /\ t.op = "key" /\ keys' = (IF taken THEN keys ELSE [keys EXCEPT ![t.client] = [state |-> "active", role |-> t.role]])
      /\ task' = [task EXCEPT ![a] = u]
      /\ UNCHANGED <<cfg, disk, workers, connected, app, src, obs, feed, probe, failed, absent>>
  BY DEF AddKey
<1>2. TaskFacts /\ t \in Tasks /\ t.client \in Clients /\ t.role \in Roles /\ keys \in [Clients -> KeyRecords]
  BY <1>1 DEF ControlIInv, TaskFacts
<1>3. /\ keys' \in [Clients -> KeyRecords]
      /\ \A x \in Clients : keys'[x].state = "revoked" => keys[x].state = "revoked"
  <2> HIDE DEF t
  <2>1. [state |-> "active", role |-> t.role] \in KeyRecords
    BY <1>2 DEF KeyRecords
  <2>2. CASE taken
    BY <1>1, <1>2, <2>2
  <2>3. CASE ~taken
    <3>1. keys' = [keys EXCEPT ![t.client] = [state |-> "active", role |-> t.role]]
      BY <1>1, <2>3
    <3> QED BY <1>2, <2>1, <3>1
  <2> QED BY <2>2, <2>3
<1>4. u \in Tasks /\ (u.op = "idle" \/ (u.op = "compose" /\ u.client = t.client))
  <2>1. CASE taken
    BY <2>1, IdleIsTask
  <2>2. CASE ~taken
    <3>1. u = [t EXCEPT !.op = "compose"]
      BY <2>2
    <3>2. u.op = "compose" /\ u.client = t.client
      BY <3>1, <1>2 DEF Tasks
    <3> QED BY <3>1, <3>2, <1>2, IdleIsTask
  <2> QED BY <2>1, <2>2
<1> HIDE DEF u
<1>5. TaskFacts' /\ \A x \in Admins : x # a => task'[x] = task[x]
  BY <1>1, <1>2, <1>3, <1>4, TaskIsReplaced
<1>6. RevocationIsDue'
  <2> SUFFICES ASSUME ~failed', NEW x \in Clients, keys'[x].state = "revoked", x \in app'.dir
               PROVE  \E y \in Admins : task'[y].op = "compose" /\ task'[y].client = x
    BY DEF RevocationIsDue
  <2>1. PICK y \in Admins : task[y].op = "compose" /\ task[y].client = x
    BY <1>1, <1>3 DEF ControlIInv, RevocationIsDue
  <2>2. y # a
    BY <2>1, <1>1
  <2> QED BY <2>1, <2>2, <1>5
<1> QED BY <1>1, <1>5, <1>6, StillKeeps
\* What is computed and saved without giving up the lock, whether it is accepted or not.
LEMMA SaveLockedKeeps ==
    ASSUME ControlIInv, NEW c \in Configurations, PartsAccepted(c), NEW fault, SaveLocked(c, fault)
    PROVE  ControlIInv'
<1>1. UNCHANGED <<workers, connected, keys, task, probe, absent>>
  BY DEF SaveLocked
<1>2. CASE ConfigurationAccepted(c) /\ Saveable(c, Known, secrets)
  <2>1. Save(c, fault)
    BY <1>2 DEF SaveLocked
  <2>2. /\ IsFeed(feed') /\ AppShape' /\ DOMAIN app'.seen \subseteq app'.registered
        /\ ~failed' => app'.dir = Active("inference")
        /\ SourceShapes(src)' /\ Synchronised(src, cfg)' /\ MissesAreCounted(src, absent)'
        /\ ObservationFacts' /\ ObservationsAreCurrent' /\ DerivedIsAllowed'
        /\ ConfigurationFacts' /\ ConfiguredAreKnown' /\ RestartKeeps'
    BY <1>1, <1>2, <2>1, SaveKeeps
  <2>3. TypeOK'
    BY <1>1, <2>2, TypeOfParts DEF ControlIInv, TypeOK
  <2>4. TaskFacts'
    BY <1>1 DEF ControlIInv, TaskFacts, PartsAccepted
  <2>5. RevocationIsDue'
    BY <1>1, <2>2, ComposedRefuses
  <2> QED BY <2>2, <2>3, <2>4, <2>5 DEF ControlIInv
<1>3. CASE ~(ConfigurationAccepted(c) /\ Saveable(c, Known, secrets))
  <2>1. feed' = Around(feed, Now, Now, fault) /\ UNCHANGED <<cfg, disk, app, src, obs, failed>>
    BY <1>3 DEF SaveLocked
  <2>2. IsFeed(feed')
    BY <2>1, AroundTells DEF ControlIInv
  <2>3. TaskFacts' /\ RevocationIsDue'
    BY <1>1, <2>1, TasksStay
  <2>4. connected' \subseteq Workers
    BY <1>1 DEF ControlIInv, TypeOK
  <2> QED BY <1>1, <2>1, <2>2, <2>3, <2>4, PublishingKeeps
<1> QED BY <1>2, <1>3

\* A resource that is added is one the administrator may add.
LEMMA AddResourceKeeps == ASSUME ControlIInv, NEW r \in Resources, NEW fault, AddResource(r, fault) PROVE ControlIInv'
<1> DEFINE c == [cfg EXCEPT !.resources = @ \cup {r}]
<1>1. r \in ResourceRecords
  BY ControlAssumption DEF ResourceParts
<1>2. c \in Configurations /\ c.providers = cfg.providers /\ c.sources = cfg.sources
  BY <1>1, HeldParts DEF Configurations
<1>3. PartsAccepted(c)
  BY <1>2, HeldParts DEF PartsAccepted
<1>4. SaveLocked(c, fault)
  BY DEF AddResource
<1> HIDE DEF c
<1> QED BY <1>2, <1>3, <1>4, SaveLockedKeeps

\* A source that is added was accepted.
LEMMA AddSourceKeeps == ASSUME ControlIInv, NEW s \in Sources, NEW fault, AddSource(s, fault) PROVE ControlIInv'
<1> DEFINE c == [cfg EXCEPT !.sources = @ \cup {s}]
<1>1. s \in SourceRecords /\ SourceAccepted(s)
  BY ControlAssumption DEF SourceParts, AddSource
<1>2. c \in Configurations /\ c.providers = cfg.providers /\ c.sources = cfg.sources \cup {s}
  BY <1>1, HeldParts DEF Configurations
<1>3. PartsAccepted(c)
  BY <1>1, <1>2, HeldParts DEF PartsAccepted
<1>4. SaveLocked(c, fault)
  BY DEF AddSource
<1> HIDE DEF c
<1> QED BY <1>2, <1>3, <1>4, SaveLockedKeeps

-----------------------------------------------------------------------------
(* Workers, probes and observers *)

\* A worker comes, goes or is revoked: what is configured still names known workers.
LEMMA WorkersKeep ==
    ASSUME ControlIInv, WorkerStill, workers' \in [Workers -> {"absent", "active", "revoked"}], connected' \subseteq Workers, IsFeed(feed'),
           \A w \in Known : w \in Known' \/ ~Referenced(w)
    PROVE  ControlIInv'
<1>1. UNCHANGED <<cfg, disk, keys, app, src, obs, task, probe, failed, absent>>
  BY DEF WorkerStill
<1>2. AppShape' /\ DOMAIN app'.seen \subseteq app'.registered
  BY <1>1 DEF ControlIInv, AppShape, TypeOK
<1>3. TypeOK'
  BY <1>2, TypeOfParts
<1>4. ConfigurationFacts' /\ RestartKeeps'
  BY <1>1 DEF ControlIInv, ConfigurationFacts, RestartKeeps, Stored, PartsAccepted
<1>5. ConfiguredAreKnown'
  <2> SUFFICES ASSUME ~failed PROVE /\ ConfigurationAccepted(cfg)
                                    /\ \A s \in cfg.sources : s.worker \in Known'
                                    /\ \A r \in cfg.resources : r.worker # Null => r.worker \in Known'
    BY <1>1 DEF ConfiguredAreKnown
  <2>1. /\ ConfigurationAccepted(cfg)
        /\ \A s \in cfg.sources : s.worker \in Known
        /\ \A r \in cfg.resources : r.worker # Null => r.worker \in Known
    BY DEF ControlIInv, ConfiguredAreKnown
  <2> QED BY <2>1 DEF Referenced
<1>6. SourceShapes(src)' /\ Synchronised(src, cfg)' /\ MissesAreCounted(src, absent)'
  BY <1>1 DEF ControlIInv, SourceShapes, Synchronised, MissesAreCounted, Missing
<1>7. ObservationFacts' /\ ObservationsAreCurrent' /\ DerivedIsAllowed'
  BY <1>1 DEF ControlIInv, ObservationFacts, ObservationsAreCurrent, DerivedIsAllowed, AllowedBy
<1>8. TaskFacts' /\ RevocationIsDue'
  BY <1>1, TasksStay
<1>9. IsFeed(feed)'
  BY DEF IsFeed
<1> QED BY <1>2, <1>3, <1>4, <1>5, <1>6, <1>7, <1>8, <1>9 DEF ControlIInv

\* A worker is paired, connects or disconnects, is revoked, and is deleted once nothing refers to it.
LEMMA WorkerKeeps ==
    ASSUME ControlIInv, NEW w \in Workers, NEW fault,
           DeleteWorker(w) \/ PairWorker(w) \/ ConnectionChanged(w, fault) \/ RevokeWorker(w, fault)
    PROVE  ControlIInv'
<1>1. workers \in [Workers -> {"absent", "active", "revoked"}] /\ connected \subseteq Workers /\ IsFeed(feed)
  BY DEF ControlIInv, TypeOK
<1>2. ASSUME NEW conn, Noticed(conn, fault) PROVE IsFeed(feed')
  BY <1>1, <1>2, PublishTells DEF Noticed
<1>3. CASE DeleteWorker(w)
  <2>1. workers' = [workers EXCEPT ![w] = "absent"] /\ ~Referenced(w) /\ UNCHANGED <<connected, feed>> /\ WorkerStill
    BY <1>3 DEF DeleteWorker
  <2>2. \A v \in Known : v \in Known' \/ v = w
    BY <1>1, <2>1 DEF Known
  <2>3. workers' \in [Workers -> {"absent", "active", "revoked"}]
    BY <1>1, <2>1
  <2>4. \A v \in Known : v \in Known' \/ ~Referenced(v)
    BY <2>1, <2>2
  <2>5. connected' \subseteq Workers /\ IsFeed(feed')
    BY <1>1, <2>1
  <2> QED BY <2>1, <2>3, <2>4, <2>5, WorkersKeep
<1>4. CASE PairWorker(w)
  <2>1. workers' = [workers EXCEPT ![w] = "active"] /\ UNCHANGED <<connected, feed>> /\ WorkerStill
    BY <1>4 DEF PairWorker
  <2>2. \A v \in Known : v \in Known'
    BY <1>1, <2>1 DEF Known
  <2>3. workers' \in [Workers -> {"absent", "active", "revoked"}]
    BY <1>1, <2>1
  <2>4. connected' \subseteq Workers /\ IsFeed(feed')
    BY <1>1, <2>1
  <2> QED BY <2>1, <2>2, <2>3, <2>4, WorkersKeep
<1>5. CASE ConnectionChanged(w, fault)
  <2>1. /\ connected' = (IF w \in connected THEN connected \ {w} ELSE connected \cup {w})
        /\ Noticed(connected', fault) /\ workers' = workers /\ WorkerStill
    BY <1>5 DEF ConnectionChanged
  <2>2. \A v \in Known : v \in Known'
    BY <2>1 DEF Known
  <2>3. connected' \subseteq Workers /\ IsFeed(feed')
    BY <1>1, <1>2, <2>1
  <2> QED BY <1>1, <2>1, <2>2, <2>3, WorkersKeep
<1>6. CASE RevokeWorker(w, fault)
  <2>1. /\ workers' = [workers EXCEPT ![w] = "revoked"] /\ connected' = connected \ {w}
        /\ (IF w \in connected THEN Noticed(connected', fault) ELSE UNCHANGED feed) /\ WorkerStill
    BY <1>6 DEF RevokeWorker
  <2>2. \A v \in Known : v \in Known'
    BY <1>1, <2>1 DEF Known
  <2>3. workers' \in [Workers -> {"absent", "active", "revoked"}]
    BY <1>1, <2>1
  <2>4. connected' \subseteq Workers /\ IsFeed(feed')
    BY <1>1, <1>2, <2>1
  <2> QED BY <2>1, <2>2, <2>3, <2>4, WorkersKeep
<1> QED BY <1>3, <1>4, <1>5, <1>6

\* What a report says of health is of what the reporting worker answers for.
LEMMA ObservedKeeps ==
    ASSUME ControlIInv, NEW r \in Reports, Admissible(r), r.worker \in connected, NEW b,
           b \in [src : {b.src}, obs : {b.obs}, app : {b.app}, ok : {TRUE}],
           b.app \in [registered : {b.app.registered}, seen : {b.app.seen}, dir : SUBSET Clients, grants : {b.app.grants},
                      serves : {b.app.serves}, gen : Nat],
           DOMAIN b.app.seen \subseteq b.app.registered, Observed(r, b).ok,
           ~failed => \A id \in DOMAIN b.obs : b.obs[id].by = Binding(cfg, id) /\ Named(cfg, id)
    PROVE  LET n == Observed(r, b)
           IN  /\ n.src = b.src
               /\ n.app \in [registered : {b.app.registered}, seen : {n.app.seen}, dir : {b.app.dir}, grants : {n.app.grants},
                             serves : {n.app.serves}, gen : {b.app.gen}]
               /\ DOMAIN n.app.seen \subseteq n.app.registered
               /\ ~failed => \A id \in DOMAIN n.obs : n.obs[id].by = Binding(cfg, id) /\ Named(cfg, id)
<1> DEFINE silent == {i.source : i \in {j \in r.inventories : /\ j.auth # "authenticated"
                                                            /\ ~(j.kind \in Unprobeable /\ j.auth = "unverified")}}
           taken == {x \in r.snapshots : ~(x.id \in DerivedIds
                                             /\ (SourceOf(x.id) \in silent \/ x.id \notin b.app.registered))}
           fresh == [id \in {x.id : x \in taken} |->
                       [by |-> Binding(cfg, id), at |-> now, health |-> (CHOOSE x \in taken : x.id = id).health]]
           n == Observed(r, b)
<1>1. n = [b EXCEPT !.obs = Overlaid(@, fresh), !.app.seen = Overlaid(@, fresh), !.ok = {x.id : x \in taken} \subseteq b.app.registered]
  BY DEF Observed
<1>2. taken \subseteq r.snapshots /\ DOMAIN fresh = {x.id : x \in taken}
  OBVIOUS
<1>3. \A id \in DOMAIN fresh : fresh[id].by = Binding(cfg, id)
  OBVIOUS
<1> HIDE DEF fresh, taken
<1>4. n.src = b.src /\ n.obs = Overlaid(b.obs, fresh) /\ n.app = [b.app EXCEPT !.seen = Overlaid(@, fresh)]
      /\ n.ok = ({x.id : x \in taken} \subseteq b.app.registered)
  <2> HIDE DEF n
  <2> QED BY <1>1
<1>5. {x.id : x \in taken} \subseteq b.app.registered
  BY <1>4
<1> HIDE DEF n
<1>6. /\ n.app \in [registered : {b.app.registered}, seen : {n.app.seen}, dir : {b.app.dir}, grants : {n.app.grants},
                    serves : {n.app.serves}, gen : {b.app.gen}]
      /\ n.app.seen = Overlaid(b.app.seen, fresh)
  BY <1>4
<1>7. DOMAIN n.app.seen \subseteq n.app.registered
  <2>1. DOMAIN Overlaid(b.app.seen, fresh) = DOMAIN b.app.seen \cup DOMAIN fresh
    BY DEF Overlaid
  <2>2. n.app.registered = b.app.registered
    BY <1>6
  <2> QED BY <1>2, <1>5, <1>6, <2>1, <2>2
<1>8. ASSUME ~failed, NEW id \in DOMAIN n.obs PROVE n.obs[id].by = Binding(cfg, id) /\ Named(cfg, id)
  <2>1. /\ DOMAIN n.obs = DOMAIN b.obs \cup DOMAIN fresh
        /\ n.obs[id] = IF id \in DOMAIN fresh THEN fresh[id] ELSE b.obs[id]
    BY <1>4, <1>8 DEF Overlaid
  <2>2. CASE id \notin DOMAIN fresh
    BY <1>8, <2>1, <2>2
  <2>3. CASE id \in DOMAIN fresh
    <3>1. PICK x \in r.snapshots : x.id = id
      BY <1>2, <2>3
    <3>2. Owner(cfg, id) # Null
      BY <3>1, ControlAssumption DEF Admissible, ControlIInv, TypeOK
    <3>3. id \in DerivedIds => ResourceById(cfg, id) = Null
      <4>1. ConfigurationAccepted(cfg) /\ Null \notin cfg.resources
        BY <1>8, HeldParts DEF ControlIInv, ConfiguredAreKnown
      <4> QED BY <4>1, ByIdFacts DEF ConfigurationAccepted, ResourceById
    <3>4. Named(cfg, id)
      BY <3>2, <3>3 DEF Owner, Named
    <3> QED BY <1>3, <2>1, <2>3, <3>4
  <2> QED BY <2>2, <2>3
<1> QED BY <1>4, <1>6, <1>7, <1>8 DEF n

\* A report without inventories counts no misses.
LEMMA SilentReportCounts ==
    ASSUME MissesAreCounted(src, absent), NEW r \in Reports, r.inventories = {}
    PROVE  MissesAreCounted(src, Absent(r, src))
<1> DEFINE ab == Absent(r, src)
<1>1. \A s \in DOMAIN src : \A m \in DOMAIN src[s].adopted : <<s, m>> \in DOMAIN absent
  BY DEF MissesAreCounted
<1>2. Adoptions(src) \subseteq DOMAIN absent
  BY <1>1 DEF Adoptions
<1>3. DOMAIN ab = DOMAIN absent /\ \A x \in DOMAIN absent : ab[x] = absent[x]
  <2>1. ab = [x \in DOMAIN absent \cup Adoptions(src) |->
                LET i == {j \in r.inventories : j.source = x[1] /\ j.auth = "authenticated"}
                IN  IF x \notin Adoptions(src) THEN (IF x \in Adoptions(src) THEN 0 ELSE absent[x])
                    ELSE IF i = {} THEN absent[x]
                    ELSE IF \E j \in i : \E m \in j.models : m.slug = x[2] THEN 0 ELSE absent[x] + 1]
    BY DEF Absent
  <2>2. DOMAIN ab = DOMAIN absent
    BY <1>2, <2>1
  <2>3. ASSUME NEW x \in DOMAIN absent PROVE ab[x] = absent[x]
    <3>1. {j \in r.inventories : j.source = x[1] /\ j.auth = "authenticated"} = {}
      OBVIOUS
    <3> QED BY <2>1, <3>1
  <2> QED BY <2>2, <2>3
<1> HIDE DEF ab
<1> QED BY <1>3 DEF MissesAreCounted, ab

\* Synchronising what was just applied changes no adoption.
LEMMA SynchronisedAdoptions ==
    ASSUME NEW c \in Configurations, NEW st, SourceShapes(st), Synchronised(st, c)
    PROVE  Adoptions(SyncConfiguration(st, c.sources)) = Adoptions(st)
<1> DEFINE n == SyncConfiguration(st, c.sources)
<1>1. /\ Synchronised(n, c)
      /\ \A id \in DOMAIN n :
            IF /\ id \in DOMAIN st
               /\ st[id].config.worker = SourceById(c, id).worker /\ st[id].config.kind = SourceById(c, id).kind
            THEN n[id].adopted = st[id].adopted /\ n[id].misses = st[id].misses /\ n[id].retired = st[id].retired
            ELSE n[id].adopted = [s \in {} |-> {}] /\ n[id].misses = [s \in {} |-> 0] /\ n[id].retired = <<>>
  BY SyncKeeps
<1> HIDE DEF n
<1>2. DOMAIN n = DOMAIN st /\ \A id \in DOMAIN n : st[id].config = SourceById(c, id)
  BY <1>1 DEF Synchronised
<1>3. \A id \in DOMAIN n : n[id].adopted = st[id].adopted
  BY <1>1, <1>2
<1> QED BY <1>2, <1>3 DEF Adoptions, n

\* What a report that counts leaves behind.
LEMMA AppliedKeeps ==
    ASSUME ControlIInv, NEW r \in Reports, ReportAccepted(r.inventories), Admissible(r), r.worker \in connected, Applied(r).ok
    PROVE  LET n == Applied(r)
           IN  /\ n.app \in [registered : {n.app.registered}, seen : {n.app.seen}, dir : SUBSET Clients, grants : {n.app.grants},
                             serves : {n.app.serves}, gen : Nat]
               /\ DOMAIN n.app.seen \subseteq n.app.registered /\ app.gen <= n.app.gen
               /\ n.app.dir = app.dir \/ n.app.dir = Active("inference")
               /\ Synchronised(n.src, cfg) /\ SourceShapes(n.src) /\ MissesAreCounted(n.src, Absent(r, n.src))
               /\ ~failed => \A id \in DOMAIN n.obs : n.obs[id].by = Binding(cfg, id) /\ Named(cfg, id)
               /\ ~failed => AllowedBy(cfg, n.app.registered)
<1> DEFINE n == Applied(r)
<1>1. /\ app \in [registered : {app.registered}, seen : {app.seen}, dir : SUBSET Clients, grants : {app.grants},
                  serves : {app.serves}, gen : Nat]
      /\ DOMAIN app.seen \subseteq app.registered
      /\ Synchronised(src, cfg) /\ SourceShapes(src) /\ MissesAreCounted(src, absent)
      /\ ~failed => \A id \in DOMAIN obs : obs[id].by = Binding(cfg, id) /\ Named(cfg, id)
      /\ ~failed => AllowedBy(cfg, app.registered) /\ ConfigurationAccepted(cfg)
      /\ cfg \in Configurations /\ PartsAccepted(cfg)
  BY DEF ControlIInv, AppShape, TypeOK, ObservationsAreCurrent, ObservationFacts, DerivedIsAllowed, ConfiguredAreKnown, ConfigurationFacts
<1>2. CASE r.inventories = {}
  <2> DEFINE b == [app |-> app, src |-> src, obs |-> obs, ok |-> TRUE]
  <2>1. n = Observed(r, b)
    BY <1>2 DEF Applied
  <2>2. /\ b \in [src : {b.src}, obs : {b.obs}, app : {b.app}, ok : {TRUE}]
        /\ b.app = app /\ b.src = src /\ b.obs = obs
    OBVIOUS
  <2> HIDE DEF b
  <2>3. LET m == Observed(r, b)
        IN  /\ m.src = b.src
            /\ m.app \in [registered : {b.app.registered}, seen : {m.app.seen}, dir : {b.app.dir}, grants : {m.app.grants},
                          serves : {m.app.serves}, gen : {b.app.gen}]
            /\ DOMAIN m.app.seen \subseteq m.app.registered
            /\ ~failed => \A id \in DOMAIN m.obs : m.obs[id].by = Binding(cfg, id) /\ Named(cfg, id)
    <3>1. Observed(r, b).ok
      BY <2>1
    <3>2. b.app \in [registered : {b.app.registered}, seen : {b.app.seen}, dir : SUBSET Clients, grants : {b.app.grants},
                     serves : {b.app.serves}, gen : Nat]
      BY <1>1, <2>2
    <3>3. DOMAIN b.app.seen \subseteq b.app.registered
      BY <1>1, <2>2
    <3>4. ~failed => \A id \in DOMAIN b.obs : b.obs[id].by = Binding(cfg, id) /\ Named(cfg, id)
      BY <1>1, <2>2
    <3> QED BY <2>2, <3>1, <3>2, <3>3, <3>4, ObservedKeeps, Zenon
  <2> HIDE DEF n
  <2>4. n.src = src /\ n.app \in [registered : {app.registered}, seen : {n.app.seen}, dir : {app.dir}, grants : {n.app.grants},
                                  serves : {n.app.serves}, gen : {app.gen}]
    BY <2>1, <2>2, <2>3
  <2>5. MissesAreCounted(n.src, Absent(r, n.src))
    BY <1>1, <1>2, <2>4, SilentReportCounts
  <2>6. n.app.registered = app.registered /\ n.app.gen = app.gen /\ n.app.dir = app.dir
    BY <2>4
  <2>7. app.dir \subseteq Clients /\ app.gen \in Nat
    BY <1>1
  <2>8. n.app \in [registered : {n.app.registered}, seen : {n.app.seen}, dir : SUBSET Clients, grants : {n.app.grants},
                   serves : {n.app.serves}, gen : Nat]
    BY <2>4, <2>6, <2>7
  <2>9. app.gen <= n.app.gen
    BY <2>6, <2>7
  <2>10. Synchronised(n.src, cfg) /\ SourceShapes(n.src)
    BY <1>1, <2>4
  <2>11. ~failed => AllowedBy(cfg, n.app.registered)
    BY <1>1, <2>6
  <2>12. /\ DOMAIN n.app.seen \subseteq n.app.registered
         /\ ~failed => \A id \in DOMAIN n.obs : n.obs[id].by = Binding(cfg, id) /\ Named(cfg, id)
    BY <2>1, <2>3
  <2> QED BY <2>5, <2>6, <2>8, <2>9, <2>10, <2>11, <2>12 DEF n
<1>3. CASE r.inventories # {}
  <2> DEFINE out == {i.source : i \in {j \in r.inventories : j.auth # "authenticated"}}
             ob == Restricted(obs, {id \in DOMAIN obs : ~(id \in DerivedIds /\ SourceOf(id) \in out)})
             st == ApplyInventory(SyncConfiguration(src, cfg.sources), r.worker, r.inventories)
             k == Directory(app)
             b == Rebuilt(cfg, st, ob, app, k, secrets)
  <2>1. n = Observed(r, b)
    BY <1>3 DEF Applied
  <2>2. Synchronised(st, cfg) /\ SourceShapes(st) /\ MissesAreCounted(st, Absent(r, st))
    BY <1>1, ApplyKeeps
  <2>3. k \subseteq Clients /\ k = Active("inference")
    BY DEF Directory, Active
  <2>4. \A id \in DOMAIN ob : id \in DOMAIN obs /\ ob[id] = obs[id]
    BY DEF Restricted
  <2>5. b \in [src : {b.src}, obs : {b.obs}, app : {b.app}, ok : {TRUE}]
    BY RebuiltRecord
  <2> HIDE DEF ob, st, k
  <2>6. app.gen \in Nat
    BY <1>1
  <2>7. /\ b.src = SyncConfiguration(st, cfg.sources)
        /\ b.app \in [registered : {b.app.registered}, seen : {b.app.seen}, dir : {k}, grants : {b.app.grants},
                      serves : {b.app.serves}, gen : {app.gen + 1}]
        /\ DOMAIN b.app.seen \subseteq b.app.registered
        /\ \A id \in DOMAIN b.obs : id \in DOMAIN ob /\ b.obs[id] = ob[id] /\ (id \in DerivedIds => SourceById(cfg, SourceOf(id)) # Null)
        /\ ConfigurationAccepted(cfg) => AllowedBy(cfg, b.app.registered)
    <3>1. LET d == Rebuilt(cfg, st, ob, app, k, secrets)
          IN  /\ d.src = SyncConfiguration(st, cfg.sources) /\ d.ok = TRUE
              /\ d.app \in [registered : {d.app.registered}, seen : {d.app.seen}, dir : {k}, grants : {d.app.grants},
                            serves : {d.app.serves}, gen : {app.gen + 1}]
              /\ DOMAIN d.app.seen \subseteq d.app.registered
              /\ \A id \in DOMAIN d.obs : id \in DOMAIN ob /\ d.obs[id] = ob[id] /\ (id \in DerivedIds => SourceById(cfg, SourceOf(id)) # Null)
              /\ ConfigurationAccepted(cfg) => AllowedBy(cfg, d.app.registered)
      <4>1. cfg \in Configurations /\ PartsAccepted(cfg) /\ SourceShapes(st) /\ k \subseteq Clients
        BY <1>1, <2>2, <2>3
      <4> QED BY <4>1, <2>6, RebuiltFacts, Zenon
    <3> QED BY <3>1
  <2> HIDE DEF b
  <2>8. b.app \in [registered : {b.app.registered}, seen : {b.app.seen}, dir : SUBSET Clients, grants : {b.app.grants},
                   serves : {b.app.serves}, gen : Nat]
    BY <2>3, <2>6, <2>7
  <2>9. ~failed => \A id \in DOMAIN b.obs : b.obs[id].by = Binding(cfg, id) /\ Named(cfg, id)
    BY <1>1, <2>4, <2>7
  <2>10. LET m == Observed(r, b)
         IN  /\ m.src = b.src
             /\ m.app \in [registered : {b.app.registered}, seen : {m.app.seen}, dir : {b.app.dir}, grants : {m.app.grants},
                           serves : {m.app.serves}, gen : {b.app.gen}]
             /\ DOMAIN m.app.seen \subseteq m.app.registered
             /\ ~failed => \A id \in DOMAIN m.obs : m.obs[id].by = Binding(cfg, id) /\ Named(cfg, id)
    <3>1. Observed(r, b).ok
      BY <2>1
    <3>2. DOMAIN b.app.seen \subseteq b.app.registered
      BY <2>7
    <3> QED BY <2>5, <2>8, <2>9, <3>1, <3>2, ObservedKeeps, Zenon
  <2> HIDE DEF n
  <2>11. n.src = b.src /\ n.app \in [registered : {b.app.registered}, seen : {n.app.seen}, dir : {b.app.dir}, grants : {n.app.grants},
                                     serves : {n.app.serves}, gen : {b.app.gen}]
    BY <2>1, <2>10
  <2>12. n.app.registered = b.app.registered /\ n.app.gen = app.gen + 1 /\ n.app.dir = k
    BY <2>7, <2>11
  <2>13. n.app \in [registered : {n.app.registered}, seen : {n.app.seen}, dir : SUBSET Clients, grants : {n.app.grants},
                    serves : {n.app.serves}, gen : Nat]
    BY <2>3, <2>6, <2>11, <2>12
  <2>14. app.gen <= n.app.gen
    BY <2>6, <2>12
  <2>15. n.app.dir = Active("inference")
    BY <2>3, <2>12
  <2>16. n.src = SyncConfiguration(st, cfg.sources)
    BY <2>7, <2>11
  <2>17. Synchronised(n.src, cfg) /\ SourceShapes(n.src)
    BY <1>1, <2>2, <2>16, SyncKeeps
  <2>18. MissesAreCounted(n.src, Absent(r, st))
    BY <1>1, <2>2, <2>16, SyncKeepsCounts
  <2>19. Absent(r, n.src) = Absent(r, st)
    BY <1>1, <2>2, <2>16, SynchronisedAdoptions DEF Absent
  <2>20. ~failed => AllowedBy(cfg, n.app.registered)
    BY <1>1, <2>7, <2>12
  <2>21. /\ DOMAIN n.app.seen \subseteq n.app.registered
         /\ ~failed => \A id \in DOMAIN n.obs : n.obs[id].by = Binding(cfg, id) /\ Named(cfg, id)
    BY <2>1, <2>10
  <2> QED BY <2>13, <2>14, <2>15, <2>17, <2>18, <2>19, <2>20, <2>21 DEF n
<1> QED BY <1>2, <1>3

\* A report counts as a whole or not at all.
LEMMA WorkerReportKeeps == ASSUME ControlIInv, NEW r \in Reports, NEW fault, WorkerReport(r, fault) PROVE ControlIInv'
<1> DEFINE n == Applied(r)
           before == Publish(feed, Now, fault = "first")
           after == Publish(before, Document(cfg, n.app, n.src, connected, now), fault = "last")
<1>1. r.worker \in connected /\ ReportAccepted(r.inventories) /\ PublishReport(r, fault, before, n)
      /\ UNCHANGED <<cfg, disk, workers, connected, keys, task, probe, failed>>
  BY DEF WorkerReport
<1>2. IsFeed(before) /\ IsFeed(after)
  <2>1. IsFeed(before)
    BY PublishTells DEF ControlIInv
  <2> HIDE DEF before
  <2> QED BY <2>1, PublishTells
<1>3. CASE (feed' = before \/ feed' = after) /\ UNCHANGED <<app, src, obs, absent>>
  <2>1. IsFeed(feed') /\ connected' \subseteq Workers
    BY <1>1, <1>2, <1>3 DEF ControlIInv, TypeOK
  <2>2. TaskFacts' /\ RevocationIsDue'
    BY <1>1, <1>3, TasksStay
  <2> QED BY <1>1, <1>3, <2>1, <2>2, PublishingKeeps
<1>4. CASE /\ Admissible(r) /\ n.ok /\ feed' = after
           /\ app' = n.app /\ src' = n.src /\ obs' = n.obs /\ absent' = Absent(r, n.src)
  <2>1. /\ n.app \in [registered : {n.app.registered}, seen : {n.app.seen}, dir : SUBSET Clients, grants : {n.app.grants},
                      serves : {n.app.serves}, gen : Nat]
        /\ DOMAIN n.app.seen \subseteq n.app.registered /\ app.gen <= n.app.gen
        /\ n.app.dir = app.dir \/ n.app.dir = Active("inference")
        /\ Synchronised(n.src, cfg) /\ SourceShapes(n.src) /\ MissesAreCounted(n.src, Absent(r, n.src))
        /\ ~failed => \A id \in DOMAIN n.obs : n.obs[id].by = Binding(cfg, id) /\ Named(cfg, id)
        /\ ~failed => AllowedBy(cfg, n.app.registered)
    BY <1>1, <1>4, AppliedKeeps
  <2> HIDE DEF n, after
  <2>2. AppShape' /\ DOMAIN app'.seen \subseteq app'.registered
    BY <1>4, <2>1 DEF AppShape
  <2>3. IsFeed(feed)'
    BY <1>2, <1>4 DEF IsFeed
  <2>4. TypeOK'
    BY <1>1, <1>2, <1>4, <2>2, TypeOfParts DEF ControlIInv, TypeOK
  <2>5. ConfigurationFacts' /\ ConfiguredAreKnown' /\ RestartKeeps'
    BY <1>1 DEF ControlIInv, ConfigurationFacts, ConfiguredAreKnown, RestartKeeps, Stored, Known, PartsAccepted
  <2>6. Synchronised(src', cfg) /\ SourceShapes(src') /\ MissesAreCounted(src', absent')
    BY <1>4, <2>1
  <2>7. Synchronised(src, cfg)' /\ SourceShapes(src)' /\ MissesAreCounted(src, absent)'
    BY <1>1, <2>6 DEF Synchronised, SourceShapes, MissesAreCounted, Missing
  <2>8. ~failed' => \A id \in DOMAIN obs' : obs'[id].by = Binding(cfg, id) /\ Named(cfg, id)
    BY <1>1, <1>4, <2>1
  <2>9. ObservationsAreCurrent'
    <3>1. \A id : Binding(cfg, id)' = Binding(cfg, id)
      BY <1>1 DEF Binding, SourceById, ResourceById, ProviderById
    <3> QED BY <2>8, <3>1 DEF ObservationsAreCurrent
  <2>10. ObservationFacts'
    <3>1. \A id \in DOMAIN obs' : ~failed' => Named(cfg', id)
      BY <1>1, <2>8
    <3>2. probe' # Null => /\ probe'.gen \in Nat /\ probe'.gen <= app'.gen
                           /\ (~failed' /\ probe'.gen = app'.gen => probe'.by = Binding(cfg', probe'.id) /\ Named(cfg', probe'.id))
      <4>1. probe # Null => /\ probe.gen \in Nat /\ probe.gen <= app.gen
                            /\ (~failed /\ probe.gen = app.gen => probe.by = Binding(cfg, probe.id) /\ Named(cfg, probe.id))
        BY DEF ControlIInv, ObservationFacts
      <4>2. app.gen \in Nat /\ app'.gen \in Nat /\ app.gen <= app'.gen
        BY <1>4, <2>1 DEF ControlIInv, AppShape
      <4>3. probe # Null /\ probe.gen = app'.gen => probe.gen = app.gen
        BY <4>1, <4>2
      <4>4. probe # Null => probe.gen <= app'.gen
        BY <4>1, <4>2
      <4> QED BY <1>1, <4>1, <4>3, <4>4
    <3> QED BY <3>1, <3>2 DEF ObservationFacts
  <2>11. DerivedIsAllowed'
    BY <1>1, <1>4, <2>1 DEF DerivedIsAllowed, AllowedBy
  <2>12. TaskFacts'
    BY <1>1 DEF ControlIInv, TaskFacts, PartsAccepted
  <2>13. RevocationIsDue'
    BY <1>1, <1>4, <2>1 DEF ControlIInv, RevocationIsDue, Active
  <2> QED BY <2>2, <2>3, <2>4, <2>5, <2>7, <2>9, <2>10, <2>11, <2>12, <2>13 DEF ControlIInv
<1> QED
  <2>1. /\ ~before.faulted /\ Admissible(r) /\ fault # "rebuild" /\ n.ok => Replace(r, n, after)
        /\ ~(~before.faulted /\ Admissible(r) /\ fault # "rebuild" /\ n.ok) => feed' = before /\ UNCHANGED <<app, src, obs, absent>>
    BY <1>1 DEF PublishReport
  <2> HIDE DEF before, after, n
  <2> QED BY <1>3, <1>4, <2>1 DEF Replace

\* A probe asks for what is bound now.
LEMMA ProbeBeginKeeps == ASSUME ControlIInv, NEW id, ProbeBegin(id) PROVE ControlIInv'
<1>1. /\ ResourceById(cfg, id) # Null /\ probe' = [id |-> id, gen |-> app.gen, by |-> Binding(cfg, id)]
      /\ UNCHANGED <<cfg, disk, workers, connected, keys, app, src, obs, feed, task, failed, absent>>
  BY DEF ProbeBegin
<1>2. ~failed => Named(cfg, id)
  <2>1. ~failed => id \notin DerivedIds
    <3>1. Null \notin cfg.resources /\ (~failed => ConfigurationAccepted(cfg))
      BY HeldParts DEF ControlIInv, ConfiguredAreKnown
    <3> QED BY <1>1, <3>1, ByIdFacts DEF ConfigurationAccepted, ResourceById
  <2> QED BY <1>1, <2>1 DEF Named
<1>3. probe'.id = id /\ probe'.gen = app.gen /\ probe'.by = Binding(cfg, id) /\ app.gen \in Nat
  BY <1>1 DEF ControlIInv, AppShape
<1>4. TypeOK' /\ AppShape' /\ IsFeed(feed)'
  BY <1>1 DEF ControlIInv, TypeOK, AppShape, IsFeed
<1>5. ConfigurationFacts' /\ ConfiguredAreKnown' /\ RestartKeeps'
  BY <1>1 DEF ControlIInv, ConfigurationFacts, ConfiguredAreKnown, RestartKeeps, Stored, Known, PartsAccepted
<1>6. SourceShapes(src)' /\ Synchronised(src, cfg)' /\ MissesAreCounted(src, absent)'
  BY <1>1 DEF ControlIInv, SourceShapes, Synchronised, MissesAreCounted, Missing
<1>7. ObservationsAreCurrent' /\ DerivedIsAllowed'
  BY <1>1 DEF ControlIInv, ObservationsAreCurrent, DerivedIsAllowed, AllowedBy
<1>8. ObservationFacts'
  <2>1. ~failed' => \A x \in DOMAIN obs' : Named(cfg', x)
    BY <1>1 DEF ControlIInv, ObservationFacts
  <2>2. probe'.gen \in Nat /\ probe'.gen <= app'.gen
    BY <1>1, <1>3
  <2>3. ~failed' => probe'.by = Binding(cfg', probe'.id) /\ Named(cfg', probe'.id)
    BY <1>1, <1>2, <1>3
  <2> QED BY <2>1, <2>2, <2>3 DEF ObservationFacts
<1>9. TaskFacts' /\ RevocationIsDue'
  BY <1>1, TasksStay
<1> QED BY <1>4, <1>5, <1>6, <1>7, <1>8, <1>9 DEF ControlIInv

\* An answer that counts is of what the resource is bound to still.
LEMMA ProbeEndKeeps == ASSUME ControlIInv, NEW health, NEW fault, ProbeEnd(health, fault) PROVE ControlIInv'
<1> DEFINE seen == [id \in {probe.id} |-> [by |-> probe.by, at |-> now, health |-> health]]
<1>1. /\ probe # Null /\ probe' = Null /\ UNCHANGED <<cfg, disk, workers, connected, keys, src, task, failed, absent>>
      /\ feed' = feed \/ feed' = Around(feed, Now, Document(cfg, app', src, connected, now), fault)
  BY DEF ProbeEnd
<1>2. IsFeed(feed') /\ IsFeed(feed)'
  BY <1>1, AroundTells DEF ControlIInv, IsFeed
<1>3. \/ UNCHANGED <<obs, app>>
      \/ /\ probe.gen = app.gen /\ probe.id \in app.registered
         /\ obs' = Overlaid(obs, seen) /\ app' = [app EXCEPT !.seen = Overlaid(@, seen)]
  BY DEF ProbeEnd, Unchanged
<1>4. /\ app \in [registered : {app.registered}, seen : {app.seen}, dir : SUBSET Clients, grants : {app.grants},
                  serves : {app.serves}, gen : Nat]
      /\ DOMAIN app.seen \subseteq app.registered
  BY DEF ControlIInv, AppShape, TypeOK
<1>5. /\ app' \in [registered : {app.registered}, seen : {app'.seen}, dir : {app.dir}, grants : {app.grants},
                   serves : {app.serves}, gen : {app.gen}]
      /\ DOMAIN app'.seen \subseteq app.registered
      /\ ~failed => \A id \in DOMAIN obs' : obs'[id].by = Binding(cfg, id) /\ Named(cfg, id)
  <2>1. ~failed => \A id \in DOMAIN obs : obs[id].by = Binding(cfg, id) /\ Named(cfg, id)
    BY DEF ControlIInv, ObservationsAreCurrent, ObservationFacts
  <2>2. CASE UNCHANGED <<obs, app>>
    <3>1. app' = app /\ obs' = obs
      BY <2>2
    <3> QED BY <1>4, <2>1, <3>1
  <2>3. CASE /\ probe.gen = app.gen /\ probe.id \in app.registered
             /\ obs' = Overlaid(obs, seen) /\ app' = [app EXCEPT !.seen = Overlaid(@, seen)]
    <3>1. DOMAIN seen = {probe.id} /\ seen[probe.id].by = probe.by
      OBVIOUS
    <3>2. ~failed => probe.by = Binding(cfg, probe.id) /\ Named(cfg, probe.id)
      BY <1>1, <2>3 DEF ControlIInv, ObservationFacts
    <3> HIDE DEF seen
    <3>3. DOMAIN obs' = DOMAIN obs \cup {probe.id} /\ \A id \in DOMAIN obs' : obs'[id] = IF id = probe.id THEN seen[id] ELSE obs[id]
      BY <2>3, <3>1 DEF Overlaid
    <3>4. app' \in [registered : {app.registered}, seen : {app'.seen}, dir : {app.dir}, grants : {app.grants},
                    serves : {app.serves}, gen : {app.gen}] /\ app'.seen = Overlaid(app.seen, seen)
      BY <1>4, <2>3
    <3>5. DOMAIN app'.seen \subseteq app.registered
      BY <1>4, <2>3, <3>1, <3>4 DEF Overlaid
    <3>6. ~failed => \A id \in DOMAIN obs' : obs'[id].by = Binding(cfg, id) /\ Named(cfg, id)
      BY <2>1, <3>1, <3>2, <3>3
    <3> QED BY <3>4, <3>5, <3>6
  <2> QED BY <1>3, <2>2, <2>3
<1> HIDE DEF seen
<1>6. app'.registered = app.registered /\ app'.dir = app.dir /\ app'.gen = app.gen
  BY <1>5
<1>7. AppShape' /\ DOMAIN app'.seen \subseteq app'.registered
  <2>1. app' \in [registered : {app'.registered}, seen : {app'.seen}, dir : SUBSET Clients, grants : {app'.grants},
                  serves : {app'.serves}, gen : Nat]
    BY <1>4, <1>5, <1>6
  <2> QED BY <1>5, <1>6, <2>1 DEF AppShape
<1>8. TypeOK'
  BY <1>1, <1>2, <1>7, TypeOfParts DEF ControlIInv, TypeOK
<1>9. ConfigurationFacts' /\ ConfiguredAreKnown' /\ RestartKeeps'
  BY <1>1 DEF ControlIInv, ConfigurationFacts, ConfiguredAreKnown, RestartKeeps, Stored, Known, PartsAccepted
<1>10. SourceShapes(src)' /\ Synchronised(src, cfg)' /\ MissesAreCounted(src, absent)'
  BY <1>1 DEF ControlIInv, SourceShapes, Synchronised, MissesAreCounted, Missing
<1>11. ObservationsAreCurrent'
  <2>1. \A id : Binding(cfg, id)' = Binding(cfg, id)
    BY <1>1 DEF Binding, SourceById, ResourceById, ProviderById
  <2> QED BY <1>1, <1>5, <2>1 DEF ObservationsAreCurrent
<1>12. ObservationFacts'
  BY <1>1, <1>5 DEF ObservationFacts
<1>13. DerivedIsAllowed'
  BY <1>1, <1>6 DEF ControlIInv, DerivedIsAllowed, AllowedBy
<1>14. TaskFacts' /\ RevocationIsDue'
  BY <1>1, <1>6, TasksStay
<1> QED BY <1>2, <1>7, <1>8, <1>9, <1>10, <1>11, <1>12, <1>13, <1>14 DEF ControlIInv

\* An observer is answered, or time passes.
LEMMA ObserveKeeps == ASSUME ControlIInv, NEW fault, Observe(fault) \/ Tick PROVE ControlIInv'
<1>1. /\ UNCHANGED <<cfg, disk, workers, connected, keys, app, src, obs, task, probe, failed, absent>>
      /\ feed' = feed \/ feed' = Publish(feed, Now, fault # "none")
  BY DEF Observe, Tick
<1>2. IsFeed(feed') /\ connected' \subseteq Workers
  BY <1>1, PublishTells DEF ControlIInv, TypeOK
<1>3. TaskFacts' /\ RevocationIsDue'
  BY <1>1, TasksStay
<1> QED BY <1>1, <1>2, <1>3, PublishingKeeps

-----------------------------------------------------------------------------
(* Starting *)

\* What a server starts with is what its configuration says, and nothing is observed yet.
LEMMA StartingFacts ==
    ASSUME NEW c \in Configurations, PartsAccepted(c), NEW k, k \subseteq Clients, NEW sec, NEW ab, \A x \in DOMAIN ab : ab[x] \in Nat
    PROVE  LET b == Rebuilt(c, NoObs, NoObs, [gen |-> 0], k, sec)
           IN  /\ b.app \in [registered : {b.app.registered}, seen : {b.app.seen}, dir : {k}, grants : {b.app.grants},
                             serves : {b.app.serves}, gen : Nat]
               /\ DOMAIN b.app.seen \subseteq b.app.registered
               /\ Synchronised(b.src, c) /\ SourceShapes(b.src) /\ MissesAreCounted(b.src, ab)
               /\ ConfigurationAccepted(c) => AllowedBy(c, b.app.registered)
<1> DEFINE b == Rebuilt(c, NoObs, NoObs, [gen |-> 0], k, sec)
<1>1. DOMAIN NoObs = {}
  BY DEF NoObs
<1>2. SourceShapes(NoObs) /\ MissesAreCounted(NoObs, ab)
  BY <1>1 DEF SourceShapes, MissesAreCounted
<1>3. LET a == [gen |-> 0]
          d == Rebuilt(c, NoObs, NoObs, a, k, sec)
      IN  /\ d.src = SyncConfiguration(NoObs, c.sources) /\ d.ok = TRUE
          /\ d.app \in [registered : {d.app.registered}, seen : {d.app.seen}, dir : {k}, grants : {d.app.grants},
                        serves : {d.app.serves}, gen : {a.gen + 1}]
          /\ DOMAIN d.app.seen \subseteq d.app.registered
          /\ ConfigurationAccepted(c) => AllowedBy(c, d.app.registered)
  <2> DEFINE a == [gen |-> 0]
  <2>1. a.gen \in Nat
    OBVIOUS
  <2> HIDE DEF a
  <2>2. LET d == Rebuilt(c, NoObs, NoObs, a, k, sec)
        IN  /\ d.src = SyncConfiguration(NoObs, c.sources) /\ d.ok = TRUE
            /\ d.app \in [registered : {d.app.registered}, seen : {d.app.seen}, dir : {k}, grants : {d.app.grants},
                          serves : {d.app.serves}, gen : {a.gen + 1}]
            /\ DOMAIN d.app.seen \subseteq d.app.registered
            /\ \A id \in DOMAIN d.obs : id \in DOMAIN NoObs /\ d.obs[id] = NoObs[id] /\ (id \in DerivedIds => SourceById(c, SourceOf(id)) # Null)
            /\ ConfigurationAccepted(c) => AllowedBy(c, d.app.registered)
    BY <1>2, <2>1, RebuiltFacts, Zenon
  <2> QED BY <2>2 DEF a
<1> HIDE DEF b
<1>4. /\ b.src = SyncConfiguration(NoObs, c.sources)
      /\ b.app \in [registered : {b.app.registered}, seen : {b.app.seen}, dir : {k}, grants : {b.app.grants},
                    serves : {b.app.serves}, gen : Nat]
      /\ DOMAIN b.app.seen \subseteq b.app.registered
      /\ ConfigurationAccepted(c) => AllowedBy(c, b.app.registered)
  BY <1>3 DEF b
<1>5. Synchronised(b.src, c) /\ SourceShapes(b.src) /\ MissesAreCounted(b.src, ab)
  BY <1>2, <1>4, SyncKeeps, SyncKeepsCounts
<1> QED BY <1>4, <1>5 DEF b

\* The feed of a new epoch holds the events of the old one.
LEMMA RestartedFeed ==
    ASSUME NEW f, IsFeed(f), NEW doc
    PROVE  IsFeed([f EXCEPT !.epoch = @ + 1, !.start = f.seq, !.faulted = FALSE, !.sem = doc])
<1> DEFINE g == [f EXCEPT !.epoch = @ + 1, !.start = f.seq, !.faulted = FALSE, !.sem = doc]
<1>1. f \in [epoch : Nat, seq : Nat, start : Nat, floor : Nat, events : Seq(ToSet(f.events)), sem : {f.sem}, faulted : BOOLEAN]
  BY DEF IsFeed
<1>2. f.epoch + 1 \in Nat
  BY <1>1
<1>3. g \in [epoch : {f.epoch + 1}, seq : {f.seq}, start : {f.seq}, floor : {f.floor}, events : {f.events}, sem : {doc}, faulted : {FALSE}]
  BY <1>1
<1> HIDE DEF g
<1>4. g.events = f.events /\ g.seq = f.seq /\ g.floor = f.floor /\ g.sem = doc
  BY <1>3
<1>5. g \in [epoch : Nat, seq : Nat, start : Nat, floor : Nat, events : Seq(ToSet(g.events)), sem : {g.sem}, faulted : BOOLEAN]
  BY <1>1, <1>2, <1>3, <1>4
<1> QED BY <1>4, <1>5 DEF IsFeed, g

\* A server that starts again finds what it stored.
LEMMA RestartKeepsAll == ASSUME ControlIInv, Restart PROVE ControlIInv'
<1> DEFINE c == Stored k == Directory([dir |-> {}])
           b == Rebuilt(c, NoObs, NoObs, [gen |-> 0], k, secrets)
<1>1. /\ c # Null /\ UNCHANGED <<disk, workers, keys, failed, absent>>
      /\ cfg' = c /\ app' = b.app /\ src' = b.src /\ obs' = NoObs
      /\ connected' = {} /\ task' = [a \in Admins |-> Idle] /\ probe' = Null
      /\ feed' = [feed EXCEPT !.epoch = @ + 1, !.start = feed.seq, !.faulted = FALSE,
                              !.sem = Document(c, b.app, b.src, {}, now)]
  BY DEF Restart, Started
<1>2. c \in Configurations /\ PartsAccepted(c) /\ (~failed => c = cfg)
  BY <1>1 DEF ControlIInv, ConfigurationFacts, RestartKeeps
<1>3. k \subseteq Clients /\ k = Active("inference")
  BY DEF Directory, Active
<1>4. \A x \in DOMAIN absent : absent[x] \in Nat
  BY DEF ControlIInv, MissesAreCounted
<1>5. Stored' = Stored
  BY <1>1 DEF Stored
<1> HIDE DEF c, k
<1>6. /\ b.app \in [registered : {b.app.registered}, seen : {b.app.seen}, dir : {k}, grants : {b.app.grants},
                    serves : {b.app.serves}, gen : Nat]
      /\ DOMAIN b.app.seen \subseteq b.app.registered
      /\ Synchronised(b.src, c) /\ SourceShapes(b.src) /\ MissesAreCounted(b.src, absent)
      /\ ConfigurationAccepted(c) => AllowedBy(c, b.app.registered)
  BY <1>2, <1>3, <1>4, StartingFacts, ZenonT(60)
<1> HIDE DEF b
<1>7. AppShape' /\ DOMAIN app'.seen \subseteq app'.registered /\ app'.dir = k
  <2>1. b.app \in [registered : {b.app.registered}, seen : {b.app.seen}, dir : SUBSET Clients, grants : {b.app.grants},
                   serves : {b.app.serves}, gen : Nat] /\ b.app.dir = k
    BY <1>3, <1>6
  <2> QED BY <1>1, <1>6, <2>1 DEF AppShape
<1>8. IsFeed(feed')
  <2>1. IsFeed(feed)
    BY DEF ControlIInv
  <2> QED BY <1>1, <2>1, RestartedFeed
<1>9. IsFeed(feed)'
  BY <1>8 DEF IsFeed
<1>10. TypeOK'
  BY <1>1, <1>7, <1>8, TypeOfParts DEF ControlIInv, TypeOK
<1>11. ConfigurationFacts' /\ RestartKeeps'
  BY <1>1, <1>2, <1>5 DEF ConfigurationFacts, RestartKeeps, PartsAccepted, c
<1>12. ConfiguredAreKnown'
  BY <1>1, <1>2 DEF ControlIInv, ConfiguredAreKnown, Known
<1>13. Synchronised(src, cfg)' /\ SourceShapes(src)' /\ MissesAreCounted(src, absent)'
  <2>1. Synchronised(src', c) /\ SourceShapes(src') /\ MissesAreCounted(src', absent)
    BY <1>1, <1>6
  <2> QED BY <1>1, <2>1 DEF Synchronised, SourceShapes, MissesAreCounted, Missing
<1>14. DOMAIN obs' = {}
  BY <1>1 DEF NoObs
<1>15. ObservationsAreCurrent' /\ ObservationFacts'
  BY <1>1, <1>14 DEF ObservationsAreCurrent, ObservationFacts
<1>16. DerivedIsAllowed'
  <2>1. ~failed => ConfigurationAccepted(c)
    BY <1>2 DEF ControlIInv, ConfiguredAreKnown
  <2> QED BY <1>1, <1>6, <2>1 DEF DerivedIsAllowed, AllowedBy
<1>17. TaskFacts'
  <2>1. task' \in [Admins -> Tasks] /\ \A a \in Admins : task'[a].op = "idle"
    BY <1>1, IdleIsTask
  <2> QED BY <1>1, <2>1 DEF ControlIInv, TaskFacts
<1>18. RevocationIsDue'
  BY <1>1, <1>3, <1>7, ComposedRefuses
<1> QED BY <1>7, <1>9, <1>10, <1>11, <1>12, <1>13, <1>15, <1>16, <1>17, <1>18 DEF ControlIInv

\* Every server starts in a coherent state.
LEMMA InitialStates == ASSUME Init PROVE ControlIInv
<1>1. PICK i \in Initials :
          /\ cfg = i.cfg /\ secrets = i.secrets /\ disk = (IF i.cfg = Neutral THEN {} ELSE {ToDocument(i.cfg)})
          /\ keys = i.keys /\ workers = i.workers /\ budget \in i.budgets
          /\ connected = {w \in Workers : i.workers[w] = "active"}
          /\ LET built == Rebuilt(i.cfg, NoObs, NoObs, [gen |-> 0],
                                  {c \in Clients : i.keys[c].state = "active" /\ i.keys[c].role = "inference"}, i.secrets)
             IN  /\ app = built.app /\ src = built.src
                 /\ feed = [epoch |-> 1, seq |-> 0, start |-> 0, floor |-> 0, events |-> <<>>, faulted |-> FALSE,
                            sem |-> Document(i.cfg, built.app, built.src, connected, 0)]
  BY DEF Init
<1>2. /\ obs = NoObs /\ task = [a \in Admins |-> Idle] /\ probe = Null /\ failed = FALSE /\ absent = [x \in {} |-> 0]
  BY DEF Init
<1> DEFINE k == {c \in Clients : i.keys[c].state = "active" /\ i.keys[c].role = "inference"}
           b == Rebuilt(i.cfg, NoObs, NoObs, [gen |-> 0], k, i.secrets)
           doc == Document(i.cfg, b.app, b.src, connected, 0)
<1>3. /\ i.cfg \in Configurations /\ PartsAccepted(i.cfg) /\ ConfigurationAccepted(i.cfg)
      /\ i.keys \in [Clients -> KeyRecords] /\ i.workers \in [Workers -> {"absent", "active", "revoked"}]
      /\ \A s \in i.cfg.sources : s.worker \in Workers /\ i.workers[s.worker] # "absent"
      /\ \A r \in i.cfg.resources : r.worker # Null => r.worker \in Workers /\ i.workers[r.worker] # "absent"
  BY ControlAssumption
<1>4. k \subseteq Clients /\ k = Active("inference")
  BY <1>1 DEF Active
<1>5. app = b.app /\ src = b.src /\ feed = [epoch |-> 1, seq |-> 0, start |-> 0, floor |-> 0, events |-> <<>>, faulted |-> FALSE, sem |-> doc]
  BY <1>1
<1> HIDE DEF k
<1>6. /\ b.app \in [registered : {b.app.registered}, seen : {b.app.seen}, dir : {k}, grants : {b.app.grants},
                    serves : {b.app.serves}, gen : Nat]
      /\ DOMAIN b.app.seen \subseteq b.app.registered
      /\ Synchronised(b.src, i.cfg) /\ SourceShapes(b.src) /\ MissesAreCounted(b.src, absent)
      /\ ConfigurationAccepted(i.cfg) => AllowedBy(i.cfg, b.app.registered)
  <2>1. \A x \in DOMAIN absent : absent[x] \in Nat
    BY <1>2
  <2>2. i.cfg \in Configurations /\ PartsAccepted(i.cfg) /\ k \subseteq Clients
    BY <1>3, <1>4
  <2> QED BY <2>1, <2>2, StartingFacts, ZenonT(60)
<1> HIDE DEF b
<1>7. AppShape /\ DOMAIN app.seen \subseteq app.registered /\ app.dir = Active("inference") /\ app.dir \subseteq Clients
  <2>1. b.app \in [registered : {b.app.registered}, seen : {b.app.seen}, dir : SUBSET Clients, grants : {b.app.grants},
                   serves : {b.app.serves}, gen : Nat] /\ b.app.dir = k
    BY <1>4, <1>6
  <2> QED BY <1>4, <1>5, <1>6, <2>1 DEF AppShape
<1> HIDE DEF doc
<1>8. IsFeed(feed)
  <2>1. feed.events = <<>> /\ feed.seq = 0 /\ feed.floor = 0 /\ feed.sem = doc
    BY <1>5
  <2>2. <<>> \in Seq(ToSet(<<>>)) /\ Len(<<>>) = 0 /\ DOMAIN <<>> = {}
    OBVIOUS
  <2>3. feed \in [epoch : Nat, seq : Nat, start : Nat, floor : Nat, events : {<<>>}, sem : {doc}, faulted : BOOLEAN]
    BY <1>5
  <2>4. feed \in [epoch : Nat, seq : Nat, start : Nat, floor : Nat, events : Seq(ToSet(feed.events)), sem : {feed.sem}, faulted : BOOLEAN]
    BY <2>1, <2>2, <2>3
  <2>5. feed.seq = feed.floor + Len(feed.events) /\ DOMAIN feed.events = {}
    BY <2>1, <2>2
  <2> QED BY <2>4, <2>5 DEF IsFeed
<1>9. TypeOK
  BY <1>1, <1>3, <1>7, <1>8 DEF TypeOK, IsFeed
<1>10. Stored = cfg
  <2>1. CASE i.cfg = Neutral
    BY <1>1, <2>1 DEF Stored
  <2>2. CASE i.cfg # Neutral
    <3>1. disk = {ToDocument(i.cfg)}
      BY <1>1, <2>2
    <3>2. disk # {} /\ (CHOOSE d \in disk : TRUE) = ToDocument(i.cfg)
      BY <3>1
    <3> QED BY <1>1, <1>3, <3>2, StoredIsKept DEF Stored
  <2> QED BY <2>1, <2>2
<1>11. ConfigurationFacts /\ RestartKeeps
  BY <1>1, <1>3, <1>10 DEF ConfigurationFacts, RestartKeeps
<1>12. ConfiguredAreKnown
  BY <1>1, <1>3 DEF ConfiguredAreKnown, Known
<1>13. SourceShapes(src) /\ Synchronised(src, cfg) /\ MissesAreCounted(src, absent)
  BY <1>1, <1>5, <1>6
<1>14. ObservationFacts /\ ObservationsAreCurrent
  <2>1. DOMAIN obs = {}
    BY <1>2 DEF NoObs
  <2> QED BY <1>2, <2>1 DEF ObservationFacts, ObservationsAreCurrent
<1>15. DerivedIsAllowed
  BY <1>1, <1>3, <1>5, <1>6 DEF DerivedIsAllowed
<1>16. TaskFacts
  <2>1. task \in [Admins -> Tasks] /\ \A a \in Admins : task[a].op = "idle"
    BY <1>2, IdleIsTask
  <2> QED BY <1>1, <1>3, <2>1 DEF TaskFacts
<1>17. RevocationIsDue
  BY <1>7 DEF RevocationIsDue, Active
<1> QED BY <1>7, <1>8, <1>9, <1>11, <1>12, <1>13, <1>14, <1>15, <1>16, <1>17 DEF ControlIInv

\* Whatever an administrator does.
LEMMA AdminKeeps == ASSUME ControlIInv, NEW a \in Admins, Admin(a) PROVE ControlIInv'
<1>1. CASE \E p \in Providers, b \in BOOLEAN : AddProvider(a, p, b)
  BY <1>1, AddProviderKeeps
<1>2. CASE \E p \in Providers : RemoveProvider(a, p.id)
  BY <1>2, RemoveProviderKeeps
<1>3. CASE \E s \in Sources : RemoveSource(a, s.id) \/ \E p \in Policies : SetPolicy(a, s.id, p)
  BY <1>3, RemoveSourceKeeps, SetPolicyKeeps
<1>4. CASE \E r \in Resources : RemoveResource(a, r.id) \/ \E b \in BOOLEAN : SetEnabled(a, r.id, b)
  BY <1>4, RemoveResourceKeeps, SetEnabledKeeps
<1>5. CASE \E x \in Aliases : PutAlias(a, x) \/ DeleteAlias(a, x.alias)
  BY <1>5, AliasKeeps
<1>6. CASE \E c \in Clients, role \in {"inference", "observer"}, b \in BOOLEAN : IssueKey(a, c, role, b)
  BY <1>6, IssueKeyKeeps DEF Roles
<1>7. CASE \E c \in Clients : RevokeKey(a, c)
  BY <1>7, RevokeKeyKeeps
<1>8. CASE \E f \in SaveFaults : AdminSave(a, f)
  BY <1>8, AdminSaveKeeps
<1>9. CASE AdminRefused(a) \/ AddKey(a)
  BY <1>9, AdminRefusedKeeps, AddKeyKeeps
<1>10. CASE \E f \in FeedFaults \cup {"rebuild"} : AdminRebuild(a, f)
  BY <1>10, AdminRebuildKeeps
<1> QED BY <1>1, <1>2, <1>3, <1>4, <1>5, <1>6, <1>7, <1>8, <1>9, <1>10 DEF Admin

\* ControlIInv holds in every state: it is inductive.
THEOREM ControlIsInductive == Spec => []ControlIInv
<1>1. Init => ControlIInv
  BY InitialStates
<1>2. ControlIInv /\ [Next]_vars => ControlIInv'
  <2> SUFFICES ASSUME ControlIInv, [Next]_vars PROVE ControlIInv'
    OBVIOUS
  <2>1. CASE \E a \in Admins : Admin(a)
    BY <2>1, AdminKeeps
  <2>2. CASE \E r \in Resources, f \in SaveFaults : AddResource(r, f)
    BY <2>2, AddResourceKeeps
  <2>3. CASE \E s \in Sources, f \in SaveFaults : AddSource(s, f)
    BY <2>3, AddSourceKeeps
  <2>4. CASE \E w \in Workers : DeleteWorker(w) \/ PairWorker(w)
                                 \/ \E f \in {"none", "last"} : ConnectionChanged(w, f) \/ RevokeWorker(w, f)
    <3>1. PICK w \in Workers : DeleteWorker(w) \/ PairWorker(w)
                                 \/ \E f \in {"none", "last"} : ConnectionChanged(w, f) \/ RevokeWorker(w, f)
      BY <2>4
    <3>2. PICK f \in {"none", "last"} : DeleteWorker(w) \/ PairWorker(w) \/ ConnectionChanged(w, f) \/ RevokeWorker(w, f)
      BY <3>1
    <3> QED BY <3>2, WorkerKeeps
  <2>5. CASE \E r \in Reports, f \in FeedFaults \cup {"rebuild"} : WorkerReport(r, f)
    BY <2>5, WorkerReportKeeps
  <2>6. CASE \E r \in Resources : ProbeBegin(r.id)
    BY <2>6, ProbeBeginKeeps
  <2>7. CASE \E h \in {"ok", "unavailable"}, f \in FeedFaults : ProbeEnd(h, f)
    BY <2>7, ProbeEndKeeps
  <2>8. CASE (\E f \in {"none", "last"} : Observe(f)) \/ Tick
    <3>1. PICK f \in {"none", "last"} : Observe(f) \/ Tick
      BY <2>8
    <3> QED BY <3>1, ObserveKeeps
  <2>9. CASE Restart
    BY <2>9, RestartKeepsAll
  <2>10. CASE UNCHANGED vars
    <3>1. UNCHANGED <<cfg, disk, workers, connected, keys, app, src, obs, feed, task, probe, failed, absent>>
      BY <2>10 DEF vars
    <3>2. TaskFacts' /\ RevocationIsDue'
      BY <3>1, TasksStay
    <3> QED BY <3>1, <3>2, StillKeeps
  <2> QED BY <2>1, <2>2, <2>3, <2>4, <2>5, <2>6, <2>7, <2>8, <2>9, <2>10 DEF Next
<1> QED BY <1>1, <1>2, PTL DEF Spec

\* The configuration, what is derived from it and observed of it, and what is stored belong together after every save, report,
\* probe and restart, whatever administrators read it at the same time (_save_config, _rebuild_application, record_observation).
THEOREM ConfigurationStaysCoherent == Spec => []ConfigurationIsCoherent
<1>1. ControlIInv => ConfigurationIsCoherent
  <2>1. ControlIInv => RetirementIsEarned
    BY DEF ControlIInv, MissesAreCounted, RetirementIsEarned
  <2> QED BY <2>1 DEF ControlIInv, ConfigurationIsCoherent
<1> QED BY <1>1, ControlIsInductive, PTL

\* A client whose revocation was acknowledged stays out, whatever else administrators compose meanwhile
\* (service_revoke_client_key, _rebuild_application).
THEOREM RevokedStayRefused == Spec => []RevokedIsRefused
<1>1. ControlIInv => RevokedIsRefused
  BY DEF ControlIInv, RevocationIsDue, RevokedIsRefused
<1> QED BY <1>1, ControlIsInductive, PTL

\* A step that touches nothing the state document shows has nothing to publish.
LEMMA NothingToTell == ASSUME UNCHANGED <<cfg, app, src, connected, now>> PROVE Now' = Now
BY DEF Now

\* A save and a composition publish what they leave behind.
LEMMA SaveTells ==
    ASSUME IsFeed(feed), NEW c, NEW fault, connected' = connected, now' = now,
           Save(c, fault) \/ (c = cfg /\ cfg' = cfg /\ Rebuild(fault))
    PROVE  feed'.faulted \/ feed'.sem = Now'
<1>1. cfg' = c /\ feed' = Around(feed, Now, Document(c, app', src', connected, now), fault)
  BY DEF Save, Rebuild
<1>2. Now' = Document(c, app', src', connected, now)
  BY <1>1 DEF Now
<1> QED BY <1>1, <1>2, AroundTells

\* A change of connection is published with the workers that are connected then.
LEMMA NoticeTells ==
    ASSUME IsFeed(feed), NEW fault, Noticed(connected', fault), UNCHANGED <<cfg, app, src, now>>
    PROVE  feed'.faulted \/ feed'.sem = Now'
<1>1. feed' = Publish(feed, Document(cfg, app, src, connected', now), fault # "none")
  BY DEF Noticed
<1>2. Now' = Document(cfg, app, src, connected', now)
  BY DEF Now
<1> QED BY <1>1, <1>2, PublishTells

\* A report that counts is published, and one that does not changes nothing there is to tell.
LEMMA ReportTells ==
    ASSUME IsFeed(feed), NEW r, NEW fault, WorkerReport(r, fault), Now' # Now
    PROVE  feed'.faulted \/ feed'.sem = Now'
<1> DEFINE n == Applied(r)
           before == Publish(feed, Now, fault = "first")
           doc == Document(cfg, n.app, n.src, connected, now)
           after == Publish(before, doc, fault = "last")
<1>1. PublishReport(r, fault, before, n) /\ UNCHANGED <<cfg, connected, now>>
  BY DEF WorkerReport
<1>2. UNCHANGED <<app, src>> => Now' = Now
  BY <1>1, NothingToTell
<1>3. IsFeed(before)
  BY PublishTells
<1>4. PublishReport(r, fault, before, n) =>
         UNCHANGED <<app, src>> \/ (app' = n.app /\ src' = n.src /\ feed' = after)
  <2> HIDE DEF n, before
  <2> QED BY DEF PublishReport, Replace
<1>5. app' = n.app /\ src' = n.src /\ feed' = after
  BY <1>1, <1>2, <1>4
<1> HIDE DEF n, before
<1>6. Now' = doc
  BY <1>1, <1>5 DEF Now
<1> HIDE DEF doc
<1>7. after.faulted \/ after.sem = doc
  BY <1>3, PublishTells
<1> QED BY <1>5, <1>6, <1>7

\* An answer is published where it may count, and elsewhere nothing changes.
LEMMA ProbeTells ==
    ASSUME IsFeed(feed), NEW health, NEW fault, ProbeEnd(health, fault), Now' # Now
    PROVE  feed'.faulted \/ feed'.sem = Now'
<1>1. UNCHANGED <<cfg, src, connected, now>>
  BY DEF ProbeEnd
<1>2. Unchanged(probe)
  <2>1. ~Unchanged(probe) => app' = app
    BY DEF ProbeEnd
  <2> QED BY <1>1, <2>1, NothingToTell
<1>3. feed' = Around(feed, Now, Document(cfg, app', src, connected, now), fault)
  BY <1>2 DEF ProbeEnd
<1>4. Now' = Document(cfg, app', src, connected, now)
  BY <1>1 DEF Now
<1> QED BY <1>3, <1>4, AroundTells

\* What an administrator does and the state document shows is on the feed.
LEMMA AdminTells ==
    ASSUME IsFeed(feed), NEW a \in Admins, Admin(a), Now' # Now
    PROVE  feed'.faulted \/ feed'.sem = Now'
<1>1. Still => FALSE
  BY NothingToTell DEF Still
<1>2. ~(UNCHANGED <<cfg, app, src, connected, now>>)
  BY NothingToTell
<1>3. CASE \E f \in SaveFaults : AdminSave(a, f)
  <2>1. PICK f : AdminSave(a, f)
    BY <1>3
  <2>2. Save(task[a].new, f) /\ connected' = connected /\ now' = now
    BY <2>1 DEF AdminSave
  <2> QED BY <2>2, SaveTells
<1>4. CASE \E f \in FeedFaults \cup {"rebuild"} : AdminRebuild(a, f)
  <2>1. PICK f : AdminRebuild(a, f)
    BY <1>4
  <2>2. Rebuild(f) /\ cfg' = cfg /\ connected' = connected /\ now' = now
    BY <2>1 DEF AdminRebuild
  <2> QED BY <2>2, SaveTells
<1>5. ASSUME NEW p, NEW b, AddProvider(a, p, b) PROVE FALSE
  BY <1>1, <1>5 DEF AddProvider
<1>6. ASSUME NEW id, RemoveProvider(a, id) \/ RemoveSource(a, id) \/ RemoveResource(a, id) PROVE FALSE
  BY <1>1, <1>6 DEF RemoveProvider, RemoveSource, RemoveResource
<1>7. ASSUME NEW id, NEW p, SetPolicy(a, id, p) \/ SetEnabled(a, id, p) PROVE FALSE
  BY <1>1, <1>7 DEF SetPolicy, SetEnabled
<1>8. ASSUME NEW x, PutAlias(a, x) \/ DeleteAlias(a, x.alias) PROVE FALSE
  BY <1>1, <1>8 DEF PutAlias, DeleteAlias
<1>9. ASSUME NEW c, NEW role, NEW b, IssueKey(a, c, role, b) PROVE FALSE
  BY <1>1, <1>9 DEF IssueKey
<1>10. ASSUME NEW c, RevokeKey(a, c) PROVE FALSE
  BY <1>2, <1>10 DEF RevokeKey
<1>11. AdminRefused(a) \/ AddKey(a) => FALSE
  BY <1>2 DEF AdminRefused, AddKey
<1> QED BY <1>3, <1>4, <1>5, <1>6, <1>7, <1>8, <1>9, <1>10, <1>11 DEF Admin

\* Whatever changes the state document is on the feed when its step ends, or the feed is known to be broken
\* (_producer_write, _producer_connection_changed, _publish_producer_change).
THEOREM ChangesArePublished == Spec => EveryChangeIsPublished
<1> DEFINE Shown == (Now' # Now /\ now' = now /\ feed'.epoch = feed.epoch) => feed'.faulted \/ feed'.sem = Now'
<1>1. ControlIInv /\ [Next]_vars => [Shown]_vars
  <2> SUFFICES ASSUME ControlIInv, Next, Now' # Now, now' = now, feed'.epoch = feed.epoch PROVE feed'.faulted \/ feed'.sem = Now'
    OBVIOUS
  <2>1. IsFeed(feed) /\ ~(UNCHANGED <<cfg, app, src, connected, now>>)
    BY NothingToTell DEF ControlIInv
  <2>2. CASE \E a \in Admins : Admin(a)
    BY <2>1, <2>2, AdminTells
  <2>3. ASSUME NEW c, NEW fault, SaveLocked(c, fault) PROVE feed'.faulted \/ feed'.sem = Now'
    <3>1. connected' = connected /\ now' = now /\ (Save(c, fault) \/ UNCHANGED <<cfg, app, src>>)
      BY <2>3 DEF SaveLocked
    <3> QED BY <2>1, <3>1, SaveTells
  <2>4. CASE \/ \E r \in Resources, f \in SaveFaults : AddResource(r, f)
             \/ \E s \in Sources, f \in SaveFaults : AddSource(s, f)
    BY <2>3, <2>4 DEF AddResource, AddSource
  <2>5. ASSUME NEW w, NEW f, DeleteWorker(w) \/ PairWorker(w) \/ ConnectionChanged(w, f) \/ RevokeWorker(w, f)
        PROVE  feed'.faulted \/ feed'.sem = Now'
    <3>1. UNCHANGED <<cfg, app, src, now>>
      BY <2>5 DEF DeleteWorker, PairWorker, ConnectionChanged, RevokeWorker, WorkerStill
    <3>2. connected' # connected
      BY <2>1, <3>1
    <3>3. Noticed(connected', f)
      BY <2>5, <3>2 DEF DeleteWorker, PairWorker, ConnectionChanged, RevokeWorker
    <3> QED BY <2>1, <3>1, <3>3, NoticeTells
  <2>6. CASE \E w \in Workers : DeleteWorker(w) \/ PairWorker(w)
                                 \/ \E f \in {"none", "last"} : ConnectionChanged(w, f) \/ RevokeWorker(w, f)
    BY <2>5, <2>6
  <2>7. CASE \E r \in Reports, f \in FeedFaults \cup {"rebuild"} : WorkerReport(r, f)
    BY <2>1, <2>7, ReportTells
  <2>8. CASE \E r \in Resources : ProbeBegin(r.id)
    BY <2>1, <2>8 DEF ProbeBegin
  <2>9. CASE \E h \in {"ok", "unavailable"}, f \in FeedFaults : ProbeEnd(h, f)
    BY <2>1, <2>9, ProbeTells
  <2>10. CASE (\E f \in {"none", "last"} : Observe(f)) \/ Tick
    BY <2>1, <2>10 DEF Observe, Tick
  <2>11. CASE Restart
    <3>1. feed.epoch \in Nat /\ feed'.epoch = feed.epoch + 1
      BY <2>1, <2>11 DEF IsFeed, Restart, Started
    <3> QED BY <3>1
  <2> QED BY <2>2, <2>4, <2>6, <2>7, <2>8, <2>9, <2>10, <2>11 DEF Next
<1>2. Spec => [][Shown]_vars
  BY <1>1, ControlIsInductive, PTL DEF Spec
<1> QED BY <1>2 DEF EveryChangeIsPublished

-----------------------------------------------------------------------------
(* What an observer is told *)

\* What is appended is newer than what is retained.
LEMMA AppendedEvents ==
    ASSUME NEW f, NEW doc, IsFeed(f)
    PROVE  LET g == AppendEvent(f, doc)
           IN  /\ g.seq = f.seq + 1
               /\ \A k \in DOMAIN g.events : \/ g.events[k] = [n |-> f.seq + 1, epoch |-> f.epoch, doc |-> doc]
                                             \/ \E j \in DOMAIN f.events : g.events[k] = f.events[j]
<1> DEFINE e == [n |-> f.seq + 1, epoch |-> f.epoch, doc |-> doc]
           q == Append(f.events, e)
           g == AppendEvent(f, doc)
           kept == IF Len(q) > MaxEvents THEN Tail(q) ELSE q
<1>1. f.events \in Seq(ToSet(f.events))
  BY DEF IsFeed
<1>2. /\ q \in Seq(ToSet(q)) /\ Len(q) = Len(f.events) + 1 /\ DOMAIN q = 1..Len(f.events) + 1
      /\ (\A k \in DOMAIN f.events : q[k] = f.events[k]) /\ q[Len(f.events) + 1] = e
  BY <1>1, AppendedSet
<1>3. g.events = kept /\ g.seq = f.seq + 1
  <2>1. f \in [epoch : {f.epoch}, seq : {f.seq}, start : {f.start}, floor : {f.floor}, events : {f.events}, sem : {f.sem}, faulted : {f.faulted}]
    BY DEF IsFeed
  <2>2. g = [f EXCEPT !.seq = @ + 1, !.sem = doc, !.events = kept, !.floor = IF Len(q) > MaxEvents THEN Head(q).n ELSE @]
    BY DEF AppendEvent
  <2> HIDE DEF q, kept, g
  <2> QED BY <2>1, <2>2
<1>4. Len(f.events) \in Nat /\ DOMAIN f.events = 1..Len(f.events)
  BY <1>1
<1>5. \A k \in DOMAIN q : q[k] = e \/ \E j \in DOMAIN f.events : q[k] = f.events[j]
  <2> SUFFICES ASSUME NEW k \in DOMAIN q, k \notin DOMAIN f.events PROVE q[k] = e
    BY <1>2
  <2>1. k = Len(f.events) + 1
    BY <1>2, <1>4
  <2> QED BY <1>2, <2>1
<1> HIDE DEF q, e
<1>6. \A k \in DOMAIN kept : \E i \in DOMAIN q : kept[k] = q[i]
  <2>1. CASE Len(q) > MaxEvents
    <3>1. q # <<>>
      BY <1>2, <1>4
    <3>2. PICK t : t = Tail(q)
      OBVIOUS
    <3>3. Len(t) = Len(f.events) /\ (\A k \in 1..Len(f.events) : t[k] = q[k + 1]) /\ DOMAIN t = 1..Len(f.events)
      BY <1>2, <3>1, <3>2
    <3>4. \A k \in 1..Len(f.events) : k + 1 \in DOMAIN q
      BY <1>2, <1>4
    <3>5. kept = t
      BY <2>1, <3>2
    <3> HIDE DEF kept
    <3> QED BY <3>3, <3>4, <3>5
  <2>2. CASE ~(Len(q) > MaxEvents)
    BY <2>2
  <2> QED BY <2>1, <2>2
<1> HIDE DEF kept, g
<1> QED BY <1>3, <1>5, <1>6 DEF g, e

\* The newest event tells the present document after each publication.
LEMMA PublishKeepsTold ==
    ASSUME NEW f, NEW doc, NEW broken, NEW o, IsFeed(f), Told(f, o)
    PROVE  Told(Publish(f, doc, broken), o)
<1>1. f.epoch \in Nat /\ f.seq \in Nat /\ f.floor \in Nat /\ f.seq = f.floor + Len(f.events) /\ f.events \in Seq(ToSet(f.events))
      /\ \A k \in DOMAIN f.events : f.events[k].n = f.floor + k
  BY DEF IsFeed
<1>2. CASE f.faulted \/ (~broken /\ doc = f.sem)
  BY <1>2 DEF Publish
<1>3. CASE ~f.faulted /\ broken
  <2> DEFINE g == [f EXCEPT !.faulted = TRUE]
  <2>1. g \in [epoch : {f.epoch}, seq : {f.seq}, start : {f.start}, floor : {f.floor}, events : {f.events}, sem : {f.sem}, faulted : {TRUE}]
    BY DEF IsFeed
  <2>2. Publish(f, doc, broken) = g
    BY <1>3 DEF Publish
  <2> HIDE DEF g
  <2>3. g.epoch = f.epoch /\ g.seq = f.seq /\ g.events = f.events /\ g.sem = f.sem
    BY <2>1
  <2> QED BY <2>2, <2>3 DEF Told
<1>4. CASE ~f.faulted /\ ~broken /\ doc # f.sem
  <2> DEFINE g == AppendEvent(f, doc)
             e == [n |-> f.seq + 1, epoch |-> f.epoch, doc |-> doc]
  <2>1. Publish(f, doc, broken) = g
    BY <1>4 DEF Publish
  <2>2. g.sem = doc /\ g.epoch = f.epoch /\ g.seq = f.seq + 1
        /\ \A k \in DOMAIN g.events : g.events[k] = e \/ \E j \in DOMAIN f.events : g.events[k] = f.events[j]
    BY AppendEventKeeps, AppendedEvents
  <2>3. e.n = f.seq + 1 /\ e.epoch = f.epoch /\ e.doc = doc
    OBVIOUS
  <2> HIDE DEF g, e
  <2>4. \A j \in DOMAIN f.events : f.events[j].n # f.seq + 1
    <3> SUFFICES ASSUME NEW j \in DOMAIN f.events PROVE f.events[j].n # f.seq + 1
      OBVIOUS
    <3>1. Len(f.events) \in Nat /\ j \in 1..Len(f.events)
      BY <1>1
    <3> DEFINE n == Len(f.events) at == f.floor m == f.events[j].n
    <3>2. n \in Nat /\ at \in Nat /\ j \in 1..n /\ m = at + j /\ f.seq = at + n
      BY <1>1, <3>1
    <3> HIDE DEF n, at, m
    <3>3. m # f.seq + 1
      BY <3>2
    <3> QED BY <3>3 DEF m
  <2>5. ASSUME NEW k \in DOMAIN g.events
        PROVE  /\ g.events[k].epoch \in Nat /\ g.events[k].epoch <= g.epoch
               /\ g.events[k].epoch = g.epoch /\ g.events[k].n = g.seq => g.events[k].doc = g.sem
    <3>1. CASE g.events[k] = e
      BY <1>1, <2>2, <2>3, <3>1
    <3>2. CASE g.events[k] # e
      <4>1. PICK j \in DOMAIN f.events : g.events[k] = f.events[j]
        BY <2>2, <3>2
      <4> QED BY <2>2, <2>4, <4>1 DEF Told
    <3> QED BY <3>1, <3>2
  <2>6. o # Null => /\ o.epoch \in Nat /\ o.seq \in Nat /\ o.epoch <= g.epoch
                    /\ (o.epoch = g.epoch => o.seq <= g.seq /\ (o.seq = g.seq => o.doc = g.sem))
    <3> SUFFICES ASSUME o # Null
                 PROVE  /\ o.epoch \in Nat /\ o.seq \in Nat /\ o.epoch <= g.epoch
                        /\ (o.epoch = g.epoch => o.seq <= g.seq /\ (o.seq = g.seq => o.doc = g.sem))
      OBVIOUS
    <3>1. o.epoch \in Nat /\ o.seq \in Nat /\ o.epoch <= f.epoch /\ (o.epoch = f.epoch => o.seq <= f.seq)
      BY DEF Told
    <3>2. o.seq <= f.seq => o.seq <= g.seq /\ o.seq # g.seq
      BY <1>1, <2>2, <3>1
    <3> QED BY <2>2, <3>1, <3>2
  <2> QED BY <2>1, <2>5, <2>6 DEF Told
<1> QED BY <1>2, <1>3, <1>4

\* And after an operation that publishes around itself.
LEMMA AroundKeepsTold ==
    ASSUME NEW f, NEW before, NEW after, NEW fault, NEW o, IsFeed(f), Told(f, o)
    PROVE  Told(Around(f, before, after, fault), o)
<1> DEFINE g == Publish(f, before, fault = "first")
<1>1. IsFeed(g) /\ Told(g, o)
  BY PublishTells, PublishKeepsTold
<1>2. Around(f, before, after, fault) = Publish(g, after, fault = "last")
  BY DEF Around
<1> HIDE DEF g
<1> QED BY <1>1, <1>2, PublishKeepsTold

\* An observer that is answered is told the document of the feed, from the retained events or as a snapshot.
LEMMA ReplayedIsPresent ==
    ASSUME NEW f, NEW o, IsFeed(f), Told(f, o), o # Null
    PROVE  LET r == Replayed(f, o) IN r.epoch = f.epoch /\ r.seq = f.seq /\ r.doc = f.sem
<1> DEFINE missing == {e \in ToSet(f.events) : e.n > o.seq /\ e.epoch = f.epoch}
           whole == /\ Epoch(f, o) /\ o.seq >= f.start /\ o.seq <= f.seq /\ o.seq >= f.floor
                    /\ {e.n : e \in missing} = o.seq + 1 .. f.seq
           last == CHOOSE e \in missing : e.n = f.seq
           r == Replayed(f, o)
<1>1. r = IF ~whole THEN [epoch |-> f.epoch, seq |-> f.seq, doc |-> f.sem]
          ELSE IF missing = {} THEN o ELSE [epoch |-> f.epoch, seq |-> f.seq, doc |-> last.doc]
  BY DEF Replayed
<1>2. f.seq \in Nat /\ o.seq \in Nat
  BY DEF IsFeed, Told
<1>3. CASE ~whole
  <2>1. r = [epoch |-> f.epoch, seq |-> f.seq, doc |-> f.sem]
    BY <1>1, <1>3
  <2> QED BY <2>1
<1>4. CASE whole /\ missing = {}
  <2>1. o.seq + 1 .. f.seq = {} /\ o.seq <= f.seq /\ o.epoch = f.epoch
    <3>1. {e.n : e \in missing} = {}
      BY <1>4
    <3>2. {e.n : e \in missing} = o.seq + 1 .. f.seq /\ o.seq <= f.seq /\ Epoch(f, o)
      BY <1>4
    <3> HIDE DEF missing
    <3> QED BY <3>1, <3>2 DEF Epoch
  <2>2. o.seq = f.seq
    <3>1. f.seq \notin o.seq + 1 .. f.seq
      BY <2>1
    <3> QED BY <1>2, <2>1, <3>1
  <2>3. r = o
    BY <1>1, <1>4
  <2>4. o.doc = f.sem
    BY <2>1, <2>2 DEF Told
  <2> HIDE DEF r
  <2>5. r.epoch = f.epoch /\ r.seq = f.seq /\ r.doc = f.sem
    BY <2>1, <2>2, <2>3, <2>4
  <2> QED BY <2>5 DEF r
<1>5. CASE whole /\ missing # {}
  <2>1. PICK e \in missing : TRUE
    BY <1>5
  <2>2. {x.n : x \in missing} = o.seq + 1 .. f.seq
    BY <1>5
  <2>3. e.n \in o.seq + 1 .. f.seq
    <3>1. e.n \in {x.n : x \in missing}
      BY <2>1
    <3> QED BY <2>2, <3>1
  <2>4. f.seq \in o.seq + 1 .. f.seq
    BY <1>2, <2>3
  <2>5. \E x \in missing : x.n = f.seq
    <3>1. f.seq \in {x.n : x \in missing}
      BY <2>2, <2>4
    <3> HIDE DEF missing
    <3> QED BY <3>1
  <2>6. last \in missing /\ last.n = f.seq
    <3> HIDE DEF missing
    <3> QED BY <2>5
  <2>7. PICK k \in DOMAIN f.events : f.events[k] = last
    BY <2>6 DEF ToSet
  <2>8. last.doc = f.sem
    BY <2>6, <2>7 DEF Told
  <2>9. r = [epoch |-> f.epoch, seq |-> f.seq, doc |-> last.doc]
    BY <1>1, <1>5
  <2> HIDE DEF last, missing, r
  <2>10. r.epoch = f.epoch /\ r.seq = f.seq /\ r.doc = f.sem
    BY <2>8, <2>9
  <2> QED BY <2>10 DEF r
<1> QED BY <1>3, <1>4, <1>5

\* What is paid for is one less, and nothing else changes.
LEMMA PayTakesOne ==
    ASSUME budget \in Budgets, NEW kinds, Pay(kinds)
    PROVE  budget' \in Budgets /\ ("reads" \notin kinds => budget'["reads"] = budget["reads"])
<1>1. DOMAIN budget = {"ops", "reports", "links", "probes", "reads", "ticks", "restarts", "faults"} /\ \A k \in DOMAIN budget : budget[k] \in Nat
  BY DEF Budgets
<1>2. (\A k \in kinds : budget[k] > 0) /\ budget' = [k \in DOMAIN budget |-> IF k \in kinds THEN budget[k] - 1 ELSE budget[k]]
  BY DEF Pay
<1>3. \A k \in DOMAIN budget : (IF k \in kinds THEN budget[k] - 1 ELSE budget[k]) \in Nat
  BY <1>1, <1>2
<1> QED BY <1>1, <1>2, <1>3 DEF Budgets

\* Every step but a read leaves the observer alone, and what it would be told is the present document.
LEMMA OthersKeepTold ==
    ASSUME ControlIInv, FeedIInv, [Next]_vars, ~\E f \in {"none", "last"} : Observe(f)
    PROVE  observer' = observer /\ Told(feed', observer) /\ budget' \in Budgets /\ budget'["reads"] = budget["reads"]
<1> DEFINE StillTold == observer' = observer /\ Told(feed', observer)
           Paid == budget' \in Budgets /\ budget'["reads"] = budget["reads"]
<1>1. IsFeed(feed) /\ Told(feed, observer) /\ budget \in Budgets
  BY DEF ControlIInv, FeedIInv
<1>2. \A doc, broken : Told(Publish(feed, doc, broken), observer)
  BY <1>1, PublishKeepsTold
<1>3. \A before, after, fault : Told(Around(feed, before, after, fault), observer)
  BY <1>1, AroundKeepsTold
<1>4. ASSUME NEW kinds, Pay(kinds), "reads" \notin kinds PROVE Paid
  BY <1>1, <1>4, PayTakesOne
<1>5. budget' = budget => Paid
  BY <1>1
<1>6. \A fault : "reads" \notin Faulty(fault) /\ "reads" \notin {"ops"} \cup Faulty(fault) /\ "reads" \notin {"links"} \cup Faulty(fault)
                 /\ "reads" \notin {"reports"} \cup Faulty(fault)
  BY DEF Faulty
<1> HIDE DEF Paid
<1> SUFFICES StillTold /\ Paid
  BY DEF Paid
<1>7. ASSUME NEW a, NEW op, NEW new, Begin(a, op, new) PROVE Paid
  BY <1>4, <1>7 DEF Begin
<1>8. ASSUME NEW a, NEW op, NEW new, NEW c, NEW role, BeginKey(a, op, new, c, role) PROVE Paid
  BY <1>4, <1>8 DEF BeginKey
<1>9. Still => StillTold
  BY <1>1 DEF Still
<1>10. ASSUME NEW a, Admin(a) PROVE StillTold /\ Paid
  <2>1. CASE \E p \in Providers, b \in BOOLEAN : AddProvider(a, p, b)
    BY <1>7, <1>9, <2>1 DEF AddProvider
  <2>2. CASE \E p \in Providers : RemoveProvider(a, p.id)
    BY <1>7, <1>9, <2>2 DEF RemoveProvider
  <2>3. CASE \E s \in Sources : RemoveSource(a, s.id) \/ \E p \in Policies : SetPolicy(a, s.id, p)
    BY <1>7, <1>9, <2>3 DEF RemoveSource, SetPolicy
  <2>4. CASE \E r \in Resources : RemoveResource(a, r.id) \/ \E b \in BOOLEAN : SetEnabled(a, r.id, b)
    BY <1>7, <1>9, <2>4 DEF RemoveResource, SetEnabled
  <2>5. CASE \E x \in Aliases : PutAlias(a, x) \/ DeleteAlias(a, x.alias)
    BY <1>7, <1>9, <2>5 DEF PutAlias, DeleteAlias
  <2>6. CASE \E c \in Clients, role \in {"inference", "observer"}, b \in BOOLEAN : IssueKey(a, c, role, b)
    BY <1>8, <1>9, <2>6 DEF IssueKey
  <2>7. CASE \E c \in Clients : RevokeKey(a, c)
    BY <1>1, <1>8, <2>7 DEF RevokeKey
  <2>8. CASE \E f \in SaveFaults : AdminSave(a, f)
    BY <1>3, <1>4, <1>6, <2>8 DEF AdminSave, Save
  <2>9. CASE AdminRefused(a) \/ AddKey(a)
    BY <1>1, <1>3, <1>5, <2>9 DEF AdminRefused, AddKey
  <2>10. CASE \E f \in FeedFaults \cup {"rebuild"} : AdminRebuild(a, f)
    BY <1>3, <1>4, <1>6, <2>10 DEF AdminRebuild, Rebuild
  <2> QED BY <1>10, <2>1, <2>2, <2>3, <2>4, <2>5, <2>6, <2>7, <2>8, <2>9, <2>10 DEF Admin
<1>11. ASSUME NEW c, NEW fault, SaveLocked(c, fault) PROVE StillTold /\ Paid
  BY <1>3, <1>4, <1>6, <1>11 DEF SaveLocked, Save
<1>12. CASE \/ \E r \in Resources, f \in SaveFaults : AddResource(r, f)
            \/ \E s \in Sources, f \in SaveFaults : AddSource(s, f)
  BY <1>11, <1>12 DEF AddResource, AddSource
<1>13. ASSUME NEW w, NEW f, DeleteWorker(w) \/ PairWorker(w) \/ ConnectionChanged(w, f) \/ RevokeWorker(w, f) PROVE StillTold /\ Paid
  <2>1. CASE DeleteWorker(w) \/ PairWorker(w)
    BY <1>1, <1>4, <2>1 DEF DeleteWorker, PairWorker, WorkerStill
  <2>2. CASE ConnectionChanged(w, f)
    BY <1>2, <1>4, <1>6, <2>2 DEF ConnectionChanged, WorkerStill, Noticed
  <2>3. CASE RevokeWorker(w, f)
    BY <1>1, <1>2, <1>4, <1>6, <2>3 DEF RevokeWorker, WorkerStill, Noticed
  <2> QED BY <1>13, <2>1, <2>2, <2>3
<1>14. ASSUME NEW r, NEW fault, WorkerReport(r, fault) PROVE StillTold /\ Paid
  <2> DEFINE n == Applied(r)
             before == Publish(feed, Now, fault = "first")
             doc == Document(cfg, n.app, n.src, connected, now)
             after == Publish(before, doc, fault = "last")
  <2>1. PublishReport(r, fault, before, n) /\ observer' = observer /\ Pay({"reports"} \cup Faulty(fault))
    BY <1>14 DEF WorkerReport
  <2>2. IsFeed(before) /\ Told(before, observer)
    BY <1>1, PublishTells, PublishKeepsTold
  <2>3. PublishReport(r, fault, before, n) => feed' = before \/ feed' = after
    <3> HIDE DEF n, before
    <3> QED BY DEF PublishReport, Replace
  <2> HIDE DEF n, before, doc
  <2>4. Told(after, observer)
    BY <2>2, PublishKeepsTold
  <2> QED BY <1>4, <1>6, <2>1, <2>2, <2>3, <2>4
<1>15. ASSUME NEW id, ProbeBegin(id) PROVE StillTold /\ Paid
  BY <1>1, <1>4, <1>15 DEF ProbeBegin
<1>16. ASSUME NEW h, NEW f, ProbeEnd(h, f) PROVE StillTold /\ Paid
  BY <1>1, <1>3, <1>4, <1>6, <1>16 DEF ProbeEnd
<1>17. CASE Tick
  BY <1>1, <1>4, <1>17 DEF Tick
<1>18. CASE Restart
  <2>1. Pay({"restarts"}) /\ observer' = observer
    BY <1>18 DEF Restart
  <2>2. PICK doc : feed' = [feed EXCEPT !.epoch = @ + 1, !.start = feed.seq, !.faulted = FALSE, !.sem = doc]
    BY <1>18 DEF Restart, Started
  <2>3. feed \in [epoch : {feed.epoch}, seq : {feed.seq}, start : {feed.start}, floor : {feed.floor}, events : {feed.events},
                  sem : {feed.sem}, faulted : {feed.faulted}] /\ feed.epoch \in Nat
    BY <1>1 DEF IsFeed
  <2>4. feed'.epoch = feed.epoch + 1 /\ feed'.events = feed.events
    BY <2>2, <2>3
  <2>5. \A k \in DOMAIN feed'.events : feed'.events[k].epoch \in Nat /\ feed'.events[k].epoch <= feed.epoch
    BY <1>1, <2>4 DEF Told
  <2>6. observer # Null => observer.epoch \in Nat /\ observer.seq \in Nat /\ observer.epoch <= feed.epoch
    BY <1>1 DEF Told
  <2>7. Told(feed', observer)
    BY <2>3, <2>4, <2>5, <2>6 DEF Told
  <2> QED BY <1>4, <2>1, <2>7
<1>19. CASE UNCHANGED vars
  BY <1>1, <1>5, <1>19 DEF vars
<1> HIDE DEF StillTold
<1>20. StillTold /\ Paid
  <2>1. CASE \E a \in Admins : Admin(a)
    BY <1>10, <2>1
  <2>2. CASE \E w \in Workers : DeleteWorker(w) \/ PairWorker(w)
                                 \/ \E f \in {"none", "last"} : ConnectionChanged(w, f) \/ RevokeWorker(w, f)
    BY <1>13, <2>2
  <2>3. CASE \E r \in Reports, f \in FeedFaults \cup {"rebuild"} : WorkerReport(r, f)
    BY <1>14, <2>3
  <2>4. CASE \E r \in Resources : ProbeBegin(r.id)
    BY <1>15, <2>4
  <2>5. CASE \E h \in {"ok", "unavailable"}, f \in FeedFaults : ProbeEnd(h, f)
    BY <1>16, <2>5
  <2> QED BY <1>12, <1>17, <1>18, <1>19, <2>1, <2>2, <2>3, <2>4, <2>5 DEF Next
<1> QED BY <1>20

\* A read answers with the present document, or the feed is known to be broken.
LEMMA ObserveAnswers ==
    ASSUME ControlIInv, FeedIInv, NEW fault, Observe(fault)
    PROVE  FeedIInv' /\ (feed'.faulted \/ observer'.doc = Now')
<1> DEFINE f == Publish(feed, Now, fault # "none")
<1>1. IsFeed(f) /\ Told(f, observer) /\ (f.faulted \/ f.sem = Now)
  BY PublishTells, PublishKeepsTold DEF ControlIInv, FeedIInv
<1>2. feed' = f /\ UNCHANGED <<cfg, app, src, connected, now>> /\ Pay({"reads"} \cup Faulty(fault))
      /\ observer' = IF f.faulted THEN observer
                     ELSE IF observer = Null THEN [epoch |-> f.epoch, seq |-> f.seq, doc |-> f.sem] ELSE Replayed(f, observer)
  BY DEF Observe
<1>3. budget' \in Budgets
  BY <1>2, PayTakesOne DEF FeedIInv
<1>4. Now' = Now
  BY <1>2, NothingToTell
<1> HIDE DEF f
<1>5. CASE f.faulted
  <2>1. observer' = observer
    BY <1>2, <1>5
  <2> QED BY <1>1, <1>2, <1>3, <1>5, <2>1 DEF FeedIInv, Told
<1>6. CASE ~f.faulted
  <2>1. observer'.epoch = f.epoch /\ observer'.seq = f.seq /\ observer'.doc = f.sem
    <3>1. CASE observer = Null
      <4>1. observer' = [epoch |-> f.epoch, seq |-> f.seq, doc |-> f.sem]
        BY <1>2, <1>6, <3>1
      <4> QED BY <4>1
    <3>2. CASE observer # Null
      <4>1. observer' = Replayed(f, observer)
        BY <1>2, <1>6, <3>2
      <4> QED BY <1>1, <3>2, <4>1, ReplayedIsPresent
    <3> QED BY <3>1, <3>2
  <2>2. f.epoch \in Nat /\ f.seq \in Nat
    BY <1>1 DEF IsFeed
  <2>3. Told(f, observer')
    BY <1>1, <2>1, <2>2 DEF Told
  <2>4. Told(feed, observer)'
    BY <1>2, <2>3 DEF Told
  <2>5. FeedIInv'
    BY <1>3, <2>4 DEF FeedIInv
  <2>6. observer'.doc = Now'
    BY <1>1, <1>4, <1>6, <2>1
  <2> QED BY <2>5, <2>6
<1> QED BY <1>5, <1>6

\* FeedIInv is inductive, given the other: what an observer would be told is the present document.
THEOREM FeedIsInductive == Spec => []FeedIInv
<1>1. Init => FeedIInv
  <2> SUFFICES ASSUME Init PROVE FeedIInv
    OBVIOUS
  <2>1. PICK i \in Initials :
             /\ budget \in i.budgets
             /\ \E doc : feed = [epoch |-> 1, seq |-> 0, start |-> 0, floor |-> 0, events |-> <<>>, faulted |-> FALSE, sem |-> doc]
    BY DEF Init
  <2>2. observer = Null /\ feed.events = <<>> /\ budget \in Budgets
    <3>1. observer = Null
      BY DEF Init
    <3>2. feed.events = <<>>
      BY <2>1
    <3>3. i.budgets \subseteq Budgets
      BY ControlAssumption
    <3> QED BY <2>1, <3>1, <3>2, <3>3
  <2>3. DOMAIN feed.events = {}
    BY <2>2
  <2> QED BY <2>2, <2>3 DEF FeedIInv, Told
<1>2. ControlIInv /\ FeedIInv /\ [Next]_vars => FeedIInv'
  <2> SUFFICES ASSUME ControlIInv, FeedIInv, [Next]_vars PROVE FeedIInv'
    OBVIOUS
  <2>1. CASE \E f \in {"none", "last"} : Observe(f)
    BY <2>1, ObserveAnswers
  <2>2. CASE ~\E f \in {"none", "last"} : Observe(f)
    <3>1. observer' = observer /\ Told(feed', observer) /\ budget' \in Budgets
      BY <2>2, OthersKeepTold
    <3>2. Told(feed, observer)'
      BY <3>1 DEF Told
    <3> QED BY <3>1, <3>2 DEF FeedIInv
  <2> QED BY <2>1, <2>2
<1> QED BY <1>1, <1>2, ControlIsInductive, PTL DEF Spec

\* The feed tells an observer everything: each change is published when its step ends, and an observer that is answered holds the
\* present document however many events, discarded events and restarts lie between (append_producer_event, read_producer_events).
THEOREM FeedTellsEverything == Spec => FeedIsComplete
<1> DEFINE Answered == budget'["reads"] # budget["reads"] => feed'.faulted \/ observer'.doc = Now'
<1>1. ControlIInv /\ FeedIInv /\ [Next]_vars => [Answered]_vars
  <2> SUFFICES ASSUME ControlIInv, FeedIInv, [Next]_vars, budget'["reads"] # budget["reads"] PROVE feed'.faulted \/ observer'.doc = Now'
    OBVIOUS
  <2>1. PICK f \in {"none", "last"} : Observe(f)
    BY OthersKeepTold
  <2> QED BY <2>1, ObserveAnswers
<1>2. Spec => [][Answered]_vars
  BY <1>1, ControlIsInductive, FeedIsInductive, PTL DEF Spec
<1>3. Spec => ObserverIsCurrent
  BY <1>2 DEF ObserverIsCurrent
<1> QED BY <1>3, ChangesArePublished DEF FeedIsComplete

=============================================================================
