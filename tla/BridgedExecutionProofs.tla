----------------------- MODULE BridgedExecutionProofs -----------------------
(***************************************************************************)
(* Proofs about BridgedExecution: its invariant is inductive, whatever the  *)
(* device, the sessions, the calls, the clients and the network do, and the *)
(* two safety properties of the bridge follow from it.                      *)
(***************************************************************************)
EXTENDS BridgedExecution, FiniteSetTheorems, WellFoundedInduction, TLAPS

-----------------------------------------------------------------------------
(* Queues of frames. *)

\* A frame appended to a queue is there beside what was there, and comes after it.
LEMMA Appended ==
    ASSUME NEW S, NEW q \in Seq(S), NEW m \in S
    PROVE  /\ Append(q, m) \in Seq(S) /\ Range(Append(q, m)) = Range(q) \union {m}
           /\ \A K, L : Before(q, K, L) /\ (m \in K => Range(q) \cap L = {}) => Before(Append(q, m), K, L)
<1>1. /\ Append(q, m) \in Seq(S) /\ Len(q) \in Nat /\ DOMAIN q = 1 .. Len(q) /\ DOMAIN Append(q, m) = 1 .. Len(q) + 1
      /\ \A i \in DOMAIN q : Append(q, m)[i] = q[i]
      /\ Append(q, m)[Len(q) + 1] = m
  OBVIOUS
<1>2. Range(Append(q, m)) = Range(q) \union {m}
  BY <1>1 DEF Range
<1>3. ASSUME NEW K, NEW L, Before(q, K, L), m \in K => Range(q) \cap L = {} PROVE Before(Append(q, m), K, L)
  <2> SUFFICES ASSUME NEW i \in DOMAIN Append(q, m), NEW j \in DOMAIN Append(q, m), j < i, Append(q, m)[i] \in K, Append(q, m)[j] \in L
               PROVE  FALSE
    BY DEF Before
  <2>1. j \in DOMAIN q /\ Append(q, m)[j] = q[j]
    BY <1>1
  <2>2. CASE i = Len(q) + 1
    BY <1>1, <1>3, <2>1, <2>2 DEF Range
  <2>3. CASE i \in DOMAIN q
    BY <1>1, <1>3, <2>1, <2>3 DEF Before
  <2> QED BY <1>1, <2>2, <2>3
<1> QED BY <1>1, <1>2, <1>3

\* The first frame of a queue is one of its frames; the others keep their order, and nothing came before it.
LEMMA Taken ==
    ASSUME NEW S, NEW q \in Seq(S), q # <<>>
    PROVE  /\ Tail(q) \in Seq(S) /\ Head(q) \in S /\ Range(q) = {Head(q)} \union Range(Tail(q))
           /\ \A K, L : Before(q, K, L) => Before(Tail(q), K, L) /\ (Head(q) \in L => Range(Tail(q)) \cap K = {})
<1>1. /\ Tail(q) \in Seq(S) /\ Head(q) \in S /\ Len(q) \in Nat \ {0} /\ DOMAIN q = 1 .. Len(q) /\ DOMAIN Tail(q) = 1 .. Len(q) - 1
      /\ \A i \in DOMAIN Tail(q) : Tail(q)[i] = q[i + 1]
      /\ Head(q) = q[1]
  OBVIOUS
<1>2. \A i \in DOMAIN q : i = 1 \/ (i - 1 \in DOMAIN Tail(q) /\ Tail(q)[i - 1] = q[i])
  BY <1>1
<1>3. Range(q) = {Head(q)} \union Range(Tail(q))
  <2>1. Range(q) \subseteq {Head(q)} \union Range(Tail(q))
    BY <1>1, <1>2 DEF Range
  <2>2. Head(q) \in Range(q)
    BY <1>1 DEF Range
  <2>3. \A i \in DOMAIN Tail(q) : i + 1 \in DOMAIN q
    BY <1>1
  <2>4. Range(Tail(q)) \subseteq Range(q)
    BY <1>1, <2>3 DEF Range
  <2> QED BY <2>1, <2>2, <2>4
<1>4. ASSUME NEW K, NEW L, Before(q, K, L) PROVE Before(Tail(q), K, L)
  <2> SUFFICES ASSUME NEW i \in DOMAIN Tail(q), NEW j \in DOMAIN Tail(q), j < i, Tail(q)[i] \in K, Tail(q)[j] \in L
               PROVE  FALSE
    BY DEF Before
  <2>1. i + 1 \in DOMAIN q /\ j + 1 \in DOMAIN q /\ j + 1 < i + 1 /\ q[i + 1] \in K /\ q[j + 1] \in L
    BY <1>1
  <2> QED BY <1>4, <2>1 DEF Before
<1>5. ASSUME NEW K, NEW L, Before(q, K, L), Head(q) \in L, NEW i \in DOMAIN Tail(q), Tail(q)[i] \in K PROVE FALSE
  <2>1. i + 1 \in DOMAIN q /\ 1 \in DOMAIN q /\ 1 < i + 1 /\ q[i + 1] \in K /\ q[1] \in L
    BY <1>1, <1>5
  <2> QED BY <1>5, <2>1 DEF Before
<1>6. \A K, L : Before(q, K, L) /\ Head(q) \in L => Range(Tail(q)) \cap K = {}
  BY <1>5 DEF Range
<1> QED BY <1>1, <1>3, <1>4, <1>6

\* The empty queue carries nothing, and it alone.
LEMMA Nothing ==
    /\ Range(<<>>) = {} /\ \A S : <<>> \in Seq(S)
    /\ \A K, L : Before(<<>>, K, L)
    /\ \A S : \A q \in Seq(S) : Range(q) = {} <=> q = <<>>
<1>1. DOMAIN <<>> = {}
  OBVIOUS
<1>2. ASSUME NEW S, NEW q \in Seq(S), q # <<>> PROVE Range(q) # {}
  <2>1. 1 \in DOMAIN q
    BY <1>2
  <2> QED BY <2>1 DEF Range
<1> QED BY <1>1, <1>2 DEF Range, Before

-----------------------------------------------------------------------------
(* Writing, reading and closing a connection. *)

Orders(h) == \A a \in Attempts : (ExecuteFirst(h, a) => ExecuteFirst(h, a)') /\ (OneCall(h, a) => OneCall(h, a)')

\* The messages and their kinds.
LEMMA Messages ==
    /\ Hello \in ToServer /\ Report \in ToServer
    /\ Frame("ack", None, 0, None) \in ToDevice /\ Frame("denied", None, 0, None) \in ToDevice
    /\ \A a \in Attempts :
          /\ Execute(a) \in ToDevice /\ Cancel(a) \in ToDevice
          /\ \A k \in {"interrupted", "chunk", "garbled"} : Frame(k, a, 0, None) \in ToServer
          /\ \A n \in Nat : Frame("call", a, n, None) \in ToServer /\ Frame("tool", a, n, None) \in ToDevice
          /\ \A s \in Statuses : Frame("result", a, 0, s) \in ToServer
  BY DEF Frame, Hello, Report, Execute, Cancel, ToServer, ToDevice, Message

\* What the server sends is an answer to the handshake, or an execute, a cancel or a tool result of an attempt.
LEMMA DeviceMessage ==
    ASSUME NEW m \in ToDevice
    PROVE  \/ m.kind \in {"ack", "denied"} /\ m.attempt = None
           \/ m.attempt \in Attempts /\ m.kind = "execute" /\ m = Execute(m.attempt)
           \/ m.attempt \in Attempts /\ m.kind = "cancel" /\ m = Cancel(m.attempt)
           \/ m.attempt \in Attempts /\ m.kind = "tool" /\ m.call \in Nat
  BY DEF Frame, Execute, Cancel, ToDevice, Message

\* What the device sends is a greeting or a report, or a frame of an attempt.
LEMMA ServerMessage ==
    ASSUME NEW m \in ToServer
    PROVE  \/ m.kind \in {"hello", "report"} /\ m.attempt = None
           \/ m.attempt \in Attempts /\ m.kind \in {"interrupted", "chunk", "garbled"}
           \/ m.attempt \in Attempts /\ m.kind = "call" /\ m.call \in Nat
           \/ m.attempt \in Attempts /\ m.kind = "result" /\ m.status \in Statuses /\ m = Frame("result", m.attempt, 0, m.status)
  BY DEF Frame, ToServer, Message

\* A connection that a step leaves alone.
LEMMA Untouched ==
    ASSUME NEW h, wire'[h] = wire[h]
    PROVE  Down(h)' = Down(h) /\ Up(h)' = Up(h) /\ wire'[h].up = wire[h].up /\ Orders(h)
  BY DEF Down, Up, Orders, ExecuteFirst, OneCall

\* The device writes.
LEMMA DeviceWrites ==
    ASSUME wire \in Wires, NEW g \in Conns, NEW m \in ToServer, wire' = Sent(g, m)
    PROVE  /\ wire' \in Wires
           /\ \A h \in Conns : 
                 /\ Down(h)' = Down(h) /\ wire'[h].up = wire[h].up
                 /\ Up(h)' = IF h = g /\ wire[g].up THEN Up(h) \union {m} ELSE Up(h)
                 /\ (h = g => \A a \in Attempts : m \in Calls(a) => Up(g) \cap Calls(a) = {}) => Orders(h)
<1> DEFINE q == wire[g].toServer
<1>1. q \in Seq(ToServer) /\ wire[g] \in [toDevice : Seq(ToDevice), toServer : Seq(ToServer), up : BOOLEAN]
  BY DEF Wires
<1>2. CASE ~wire[g].up
  <2>1. wire' = wire
    BY <1>2 DEF Sent
  <2> QED BY <2>1, <1>2, Untouched
<1>3. CASE wire[g].up
  <2>1. /\ Append(q, m) \in Seq(ToServer) /\ Range(Append(q, m)) = Range(q) \union {m}
        /\ \A K, L : Before(q, K, L) /\ (m \in K => Range(q) \cap L = {}) => Before(Append(q, m), K, L)
    BY <1>1, Appended
  <2>2. wire' = [wire EXCEPT ![g].toServer = Append(q, m)]
    BY <1>3 DEF Sent
  <2>3. wire' \in Wires
    BY <1>1, <2>1, <2>2 DEF Wires
  <2>4. wire'[g] = [wire[g] EXCEPT !.toServer = Append(q, m)] /\ \A h \in Conns \ {g} : wire'[h] = wire[h]
    BY <2>2 DEF Wires
  <2>5. wire'[g].toServer = Append(q, m) /\ wire'[g].toDevice = wire[g].toDevice /\ wire'[g].up = wire[g].up
    BY <2>4, <1>1
  <2>6. Down(g)' = Down(g) /\ Up(g)' = Up(g) \union {m}
    BY <2>1, <2>5 DEF Down, Up
  <2>7. (\A a \in Attempts : m \in Calls(a) => Up(g) \cap Calls(a) = {}) => Orders(g)
    BY <2>1, <2>5 DEF Orders, ExecuteFirst, OneCall, Up
  <2> QED BY <1>3, <2>3, <2>4, <2>5, <2>6, <2>7, Untouched
<1> QED BY <1>2, <1>3

\* The server writes.
LEMMA ServerWrites ==
    ASSUME wire \in Wires, NEW g \in Conns, NEW m \in ToDevice, wire' = Written(g, m)
    PROVE  /\ wire' \in Wires
           /\ \A h \in Conns :
                 /\ Up(h)' = Up(h) /\ wire'[h].up = wire[h].up
                 /\ Down(h)' = IF h = g /\ wire[g].up THEN Down(h) \union {m} ELSE Down(h)
                 /\ (h = g => \A a \in Attempts : m = Execute(a) => Down(g) \cap To(a) = {}) => Orders(h)
<1> DEFINE q == wire[g].toDevice
<1>1. q \in Seq(ToDevice) /\ wire[g] \in [toDevice : Seq(ToDevice), toServer : Seq(ToServer), up : BOOLEAN]
  BY DEF Wires
<1>2. CASE ~wire[g].up
  <2>1. wire'[g] = [wire[g] EXCEPT !.toDevice = q] /\ \A h \in Conns \ {g} : wire'[h] = wire[h]
    BY <1>2 DEF Written, Wires
  <2>2. wire'[g] = wire[g]
    BY <2>1, <1>1
  <2>3. wire' \in Wires
    BY <1>1, <1>2 DEF Written, Wires
  <2> QED BY <2>1, <2>2, <2>3, <1>2, Untouched
<1>3. CASE wire[g].up
  <2>1. /\ Append(q, m) \in Seq(ToDevice) /\ Range(Append(q, m)) = Range(q) \union {m}
        /\ \A K, L : Before(q, K, L) /\ (m \in K => Range(q) \cap L = {}) => Before(Append(q, m), K, L)
    BY <1>1, Appended
  <2>2. wire' = [wire EXCEPT ![g].toDevice = Append(q, m)]
    BY <1>3 DEF Written
  <2>3. wire' \in Wires
    BY <1>1, <2>1, <2>2 DEF Wires
  <2>4. wire'[g] = [wire[g] EXCEPT !.toDevice = Append(q, m)] /\ \A h \in Conns \ {g} : wire'[h] = wire[h]
    BY <2>2 DEF Wires
  <2>5. wire'[g].toDevice = Append(q, m) /\ wire'[g].toServer = wire[g].toServer /\ wire'[g].up = wire[g].up
    BY <2>4, <1>1
  <2>6. Up(g)' = Up(g) /\ Down(g)' = Down(g) \union {m}
    BY <2>1, <2>5 DEF Down, Up
  <2>7. (\A a \in Attempts : m = Execute(a) => Down(g) \cap To(a) = {}) => Orders(g)
    BY <2>1, <2>5 DEF Orders, ExecuteFirst, OneCall, Down
  <2> QED BY <1>3, <2>3, <2>4, <2>5, <2>6, <2>7, Untouched
<1> QED BY <1>2, <1>3

\* The device reads.
LEMMA DeviceReads ==
    ASSUME wire \in Wires, NEW g \in Conns, wire[g].toDevice # <<>>, wire' = [wire EXCEPT ![g].toDevice = Tail(@)]
    PROVE  /\ wire' \in Wires
           /\ \A h \in Conns \ {g} : wire'[h] = wire[h]
           /\ Up(g)' = Up(g) /\ wire'[g].up = wire[g].up /\ Orders(g)
           /\ Head(wire[g].toDevice) \in ToDevice /\ Down(g) = {Head(wire[g].toDevice)} \union Down(g)'
           /\ \A a \in Attempts : ExecuteFirst(g, a) /\ Head(wire[g].toDevice) \in To(a) => Execute(a) \notin Down(g)'
<1> DEFINE q == wire[g].toDevice
<1>1. q \in Seq(ToDevice) /\ wire[g] \in [toDevice : Seq(ToDevice), toServer : Seq(ToServer), up : BOOLEAN]
  BY DEF Wires
<1>2. /\ Tail(q) \in Seq(ToDevice) /\ Head(q) \in ToDevice /\ Range(q) = {Head(q)} \union Range(Tail(q))
      /\ \A K, L : Before(q, K, L) => Before(Tail(q), K, L) /\ (Head(q) \in L => Range(Tail(q)) \cap K = {})
  BY <1>1, Taken
<1>3. wire'[g] = [wire[g] EXCEPT !.toDevice = Tail(q)] /\ \A h \in Conns \ {g} : wire'[h] = wire[h]
  BY DEF Wires
<1>4. wire'[g].toDevice = Tail(q) /\ wire'[g].toServer = wire[g].toServer /\ wire'[g].up = wire[g].up
  BY <1>3, <1>1
<1>5. wire' \in Wires
  BY <1>1, <1>2 DEF Wires
<1>6. Up(g)' = Up(g) /\ Down(g) = {Head(q)} \union Down(g)'
  BY <1>2, <1>4 DEF Down, Up
<1>7. Orders(g)
  BY <1>2, <1>4 DEF Orders, ExecuteFirst, OneCall
<1>8. \A a \in Attempts : ExecuteFirst(g, a) /\ Head(q) \in To(a) => Execute(a) \notin Down(g)'
  BY <1>2, <1>4 DEF ExecuteFirst, Down
<1> QED BY <1>2, <1>3, <1>4, <1>5, <1>6, <1>7, <1>8

\* The server reads.
LEMMA ServerReads ==
    ASSUME wire \in Wires, NEW g \in Conns, wire[g].toServer # <<>>, wire' = [wire EXCEPT ![g].toServer = Tail(@)]
    PROVE  /\ wire' \in Wires
           /\ \A h \in Conns \ {g} : wire'[h] = wire[h]
           /\ Down(g)' = Down(g) /\ wire'[g].up = wire[g].up /\ Orders(g)
           /\ Head(wire[g].toServer) \in ToServer /\ Up(g) = {Head(wire[g].toServer)} \union Up(g)'
           /\ \A a \in Attempts : OneCall(g, a) /\ Head(wire[g].toServer) \in Calls(a) => Up(g)' \cap Calls(a) = {}
<1> DEFINE q == wire[g].toServer
<1>1. q \in Seq(ToServer) /\ wire[g] \in [toDevice : Seq(ToDevice), toServer : Seq(ToServer), up : BOOLEAN]
  BY DEF Wires
<1>2. /\ Tail(q) \in Seq(ToServer) /\ Head(q) \in ToServer /\ Range(q) = {Head(q)} \union Range(Tail(q))
      /\ \A K, L : Before(q, K, L) => Before(Tail(q), K, L) /\ (Head(q) \in L => Range(Tail(q)) \cap K = {})
  BY <1>1, Taken
<1>3. wire'[g] = [wire[g] EXCEPT !.toServer = Tail(q)] /\ \A h \in Conns \ {g} : wire'[h] = wire[h]
  BY DEF Wires
<1>4. wire'[g].toServer = Tail(q) /\ wire'[g].toDevice = wire[g].toDevice /\ wire'[g].up = wire[g].up
  BY <1>3, <1>1
<1>5. wire' \in Wires
  BY <1>1, <1>2 DEF Wires
<1>6. Down(g)' = Down(g) /\ Up(g) = {Head(q)} \union Up(g)'
  BY <1>2, <1>4 DEF Down, Up
<1>7. Orders(g)
  BY <1>2, <1>4 DEF Orders, ExecuteFirst, OneCall
<1>8. \A a \in Attempts : OneCall(g, a) /\ Head(q) \in Calls(a) => Up(g)' \cap Calls(a) = {}
  BY <1>2, <1>4 DEF OneCall, Up
<1> QED BY <1>2, <1>3, <1>4, <1>5, <1>6, <1>7, <1>8

\* What is left of a connection that the device has closed.
LEMMA Closings ==
    ASSUME NEW w \in [toDevice : Seq(ToDevice), toServer : Seq(ToServer), up : BOOLEAN]
    PROVE  /\ DeviceCloses(w) \in [toDevice : Seq(ToDevice), toServer : Seq(ToServer), up : BOOLEAN]
           /\ DeviceCloses(w).toDevice = <<>> /\ DeviceCloses(w).toServer = w.toServer /\ ~DeviceCloses(w).up
<1>0. w.toServer \in Seq(ToServer) /\ <<>> \in Seq(ToDevice)
  BY Nothing
<1>1. DeviceCloses(w).toDevice = <<>> /\ DeviceCloses(w).toServer = w.toServer /\ DeviceCloses(w).up = FALSE
  BY DEF DeviceCloses
<1>2. DeviceCloses(w) \in [toDevice : Seq(ToDevice), toServer : Seq(ToServer), up : BOOLEAN]
  BY <1>0 DEF DeviceCloses
<1> QED BY <1>1, <1>2

\* What had arrived of a queue when the connection broke: some of its frames, in their order.
LEMMA Remains ==
    ASSUME NEW S, NEW q \in Seq(S), NEW p \in Arrived(q)
    PROVE  p \in Seq(S) /\ Range(p) \subseteq Range(q) /\ \A K, L : Before(q, K, L) => Before(p, K, L)
<1>1. PICK n \in 0 .. Len(q) : p = SubSeq(q, 1, n)
  BY DEF Arrived
<1>2. /\ p \in Seq(S) /\ DOMAIN p = 1 .. n /\ DOMAIN q = 1 .. Len(q) /\ Len(q) \in Nat
      /\ \A i \in DOMAIN p : p[i] = q[i]
  BY <1>1
<1>3. \A i \in DOMAIN p : i \in DOMAIN q
  BY <1>2
<1> QED BY <1>2, <1>3 DEF Range, Before

\* The device closes a connection: what it had sent before, the server may still read.
LEMMA DeviceEnds ==
    ASSUME wire \in Wires, NEW g \in Conns, wire' = [wire EXCEPT ![g] = DeviceCloses(@)]
    PROVE  /\ wire' \in Wires /\ \A h \in Conns \ {g} : wire'[h] = wire[h]
           /\ Down(g)' = {} /\ Up(g)' = Up(g) /\ ~wire'[g].up /\ Orders(g)
<1> DEFINE w == DeviceCloses(wire[g])
<1>1. wire[g] \in [toDevice : Seq(ToDevice), toServer : Seq(ToServer), up : BOOLEAN]
  BY DEF Wires
<1>2. Range(<<>>) = {} /\ \A K, L : Before(<<>>, K, L)
  BY Nothing
<1>3. /\ w \in [toDevice : Seq(ToDevice), toServer : Seq(ToServer), up : BOOLEAN]
      /\ w.toDevice = <<>> /\ ~w.up /\ w.toServer = wire[g].toServer
  BY <1>1, Closings
<1> HIDE DEF w
<1>4. wire' \in Wires /\ wire'[g] = w /\ \A h \in Conns \ {g} : wire'[h] = wire[h]
  BY <1>3 DEF Wires, w
<1>5. Down(g)' = {} /\ Up(g)' = Up(g)
  BY <1>2, <1>3, <1>4 DEF Down, Up
<1>6. Orders(g)
  BY <1>2, <1>3, <1>4 DEF Orders, ExecuteFirst, OneCall
<1> QED BY <1>3, <1>4, <1>5, <1>6

\* A connection breaks.
LEMMA NetworkEnds ==
    ASSUME wire \in Wires, NEW g \in Conns, NEW down \in Arrived(wire[g].toDevice), NEW up \in Arrived(wire[g].toServer),
           wire' = [wire EXCEPT ![g] = [toDevice |-> down, toServer |-> up, up |-> FALSE]]
    PROVE  /\ wire' \in Wires /\ \A h \in Conns \ {g} : wire'[h] = wire[h]
           /\ Down(g)' \subseteq Down(g) /\ Up(g)' \subseteq Up(g) /\ ~wire'[g].up /\ Orders(g)
<1>1. wire[g].toDevice \in Seq(ToDevice) /\ wire[g].toServer \in Seq(ToServer)
  BY DEF Wires
<1>2. down \in Seq(ToDevice) /\ Range(down) \subseteq Range(wire[g].toDevice) /\ \A K, L : Before(wire[g].toDevice, K, L) => Before(down, K, L)
  BY <1>1, Remains
<1>3. up \in Seq(ToServer) /\ Range(up) \subseteq Range(wire[g].toServer) /\ \A K, L : Before(wire[g].toServer, K, L) => Before(up, K, L)
  BY <1>1, Remains
<1>4. /\ wire' \in Wires /\ wire'[g].toDevice = down /\ wire'[g].toServer = up /\ ~wire'[g].up
      /\ \A h \in Conns \ {g} : wire'[h] = wire[h]
  BY <1>2, <1>3 DEF Wires
<1>5. Down(g)' \subseteq Down(g) /\ Up(g)' \subseteq Up(g)
  BY <1>2, <1>3, <1>4 DEF Down, Up
<1>6. Orders(g)
  BY <1>2, <1>3, <1>4 DEF Orders, ExecuteFirst, OneCall
<1> QED BY <1>4, <1>5, <1>6

\* The server closes a connection, or a write on it fails.
LEMMA ServerEnds ==
    ASSUME wire \in Wires, NEW g \in Conns, NEW m \in ToDevice, NEW w \in FailedWrite(g, m), wire' = [wire EXCEPT ![g] = w]
    PROVE  /\ wire' \in Wires /\ \A h \in Conns \ {g} : wire'[h] = wire[h]
           /\ Up(g)' = {} /\ ~wire'[g].up
           /\ Down(g)' = Down(g) \/ (wire[g].up /\ Down(g)' = Down(g) \union {m})
           /\ (\A a \in Attempts : m = Execute(a) => Down(g) \cap To(a) = {}) => Orders(g)
<1> DEFINE q == wire[g].toDevice
<1>1. q \in Seq(ToDevice) /\ wire[g] \in [toDevice : Seq(ToDevice), toServer : Seq(ToServer), up : BOOLEAN]
  BY DEF Wires
<1>2. Range(<<>>) = {} /\ <<>> \in Seq(ToServer) /\ \A K, L : Before(<<>>, K, L)
  BY Nothing
<1>3. /\ Append(q, m) \in Seq(ToDevice) /\ Range(Append(q, m)) = Range(q) \union {m}
      /\ \A K, L : Before(q, K, L) /\ (m \in K => Range(q) \cap L = {}) => Before(Append(q, m), K, L)
  BY <1>1, Appended
<1>4. \/ w = [toDevice |-> q, toServer |-> <<>>, up |-> FALSE]
      \/ wire[g].up /\ w = [toDevice |-> Append(q, m), toServer |-> <<>>, up |-> FALSE]
  BY <1>1 DEF FailedWrite, ServerCloses
<1>5. w \in [toDevice : Seq(ToDevice), toServer : Seq(ToServer), up : BOOLEAN]
  <2>1. <<>> \in Seq(ToServer) /\ q \in Seq(ToDevice) /\ Append(q, m) \in Seq(ToDevice)
    BY <1>1, <1>2, <1>3
  <2>2. \A p \in Seq(ToDevice), r \in Seq(ToServer) :
           [toDevice |-> p, toServer |-> r, up |-> FALSE] \in [toDevice : Seq(ToDevice), toServer : Seq(ToServer), up : BOOLEAN]
    OBVIOUS
  <2> HIDE DEF q
  <2> QED BY <2>1, <2>2, <1>4, Zenon
<1>6. wire' \in Wires /\ wire'[g] = w /\ \A h \in Conns \ {g} : wire'[h] = wire[h]
  BY <1>5 DEF Wires
<1>7. ~wire'[g].up /\ wire'[g].toServer = <<>> /\ (wire'[g].toDevice = q \/ (wire[g].up /\ wire'[g].toDevice = Append(q, m)))
  BY <1>4, <1>6
<1>8. Up(g)' = {} /\ (Down(g)' = Down(g) \/ (wire[g].up /\ Down(g)' = Down(g) \union {m}))
  BY <1>2, <1>3, <1>7 DEF Down, Up
<1>9. (\A a \in Attempts : m = Execute(a) => Down(g) \cap To(a) = {}) => Orders(g)
  BY <1>2, <1>3, <1>7 DEF Orders, ExecuteFirst, OneCall, Down
<1> QED BY <1>6, <1>7, <1>8, <1>9

-----------------------------------------------------------------------------
(* What a step of the device leaves alone. *)

\* What a step may do to the thread of an attempt without a word to or from the gateway; a tool result may reach it.
Advances(j, k) ==
    /\ j.st = "none" => k = j
    /\ j.st # "none" => k.st # "none"
    /\ k.conn = j.conn /\ k.asks = j.asks
    /\ j.cancel \/ j.st \in {"leaving", "over"} => k.cancel \/ k.st \in {"leaving", "over"}
    /\ j.st = "over" /\ j.status = "completed" => k.st = "over" /\ k.status = "completed"

\* A message that nothing is claimed of when it is sent.
Harmless(m, a) == m \notin Calls(a) /\ (m = Frame("result", a, 0, "completed") => Done(a)')

\* What a step may do to a connection without the loss of what an attempt and the session that tracks it have to say to
\* each other, and the same of its cancel.
QuietFor(g, a) ==
    /\ Orders(g) /\ Down(g)' \subseteq Down(g)
    /\ \A m \in Up(g)' : m \in Up(g) \/ Harmless(m, a)
    /\ pending[g] # {} /\ wire'[g].up => wire[g].up /\ Up(g) \subseteq Up(g)' /\ (Execute(a) \in Down(g) => Execute(a) \in Down(g)')
CancelStays(g, a) == pending[g] # {} /\ wire'[g].up /\ Cancel(a) \in Down(g) => Cancel(a) \in Down(g)'
Quiet(g) == \A a \in Attempts : QuietFor(g, a) /\ CancelStays(g, a)

OtherFacts(a) == FreshFacts(a) /\ ExecuteFacts(a) /\ CallFacts(a) /\ ToolFacts(a) /\ VerdictFacts(a) /\ CancelFacts(a)

\* What the invariant says of one attempt.
LEMMA FactsOf ==
    ASSUME BridgeIInv, NEW a \in Attempts
    PROVE  FreshFacts(a) /\ ExecuteFacts(a) /\ JobFacts(a) /\ CallFacts(a) /\ ToolFacts(a) /\ VerdictFacts(a) /\ CancelFacts(a)
  BY DEF BridgeIInv, AttemptFacts

\* A step of the device that is quiet for an attempt and only advances its turn leaves what is known of them true.
LEMMA TurnAdvances ==
    ASSUME BridgeIInv, UNCHANGED serverVars, NEW a \in Attempts, Advances(jobs[a], jobs'[a]), \A g \in Conns : QuietFor(g, a)
    PROVE  FreshFacts(a)' /\ ExecuteFacts(a)' /\ CallFacts(a)' /\ VerdictFacts(a)'
<1>1. FreshFacts(a) /\ ExecuteFacts(a) /\ CallFacts(a) /\ VerdictFacts(a)
  BY FactsOf
<1>2. call' = call /\ pending' = pending /\ items' = items /\ outcome' = outcome
  BY DEF serverVars
<1>3. FreshFacts(a)'
  BY <1>1, <1>2 DEF FreshFacts, Advances, NoJob, QuietFor
<1>4. \A g \in Conns : ResultIn(g, a) /\ pending[g] # {} /\ wire'[g].up => ResultIn(g, a)'
  BY DEF ResultIn, QuietFor
<1>5. ExecuteFacts(a)'
  <2> SUFFICES ASSUME NEW g \in Conns
               PROVE  /\ ExecuteFirst(g, a)'
                      /\ Execute(a) \in Down(g)' => jobs'[a].st = "none" /\ \A h \in Conns \ {g} : Execute(a) \notin Down(h)'
                      /\ a \in pending[g] /\ wire'[g].up /\ jobs'[a].st = "none" => Execute(a) \in Down(g)' \/ ResultIn(g, a)'
    BY <1>2 DEF ExecuteFacts, Execute, Frame
  <2>1. ExecuteFirst(g, a)'
    BY <1>1 DEF ExecuteFacts, QuietFor, Orders
  <2>2. Execute(a) \in Down(g)' => jobs'[a].st = "none" /\ \A h \in Conns \ {g} : Execute(a) \notin Down(h)'
    BY <1>1, <1>2 DEF ExecuteFacts, QuietFor, Advances
  <2>3. a \in pending[g] /\ wire'[g].up /\ jobs'[a].st = "none" => Execute(a) \in Down(g)' \/ ResultIn(g, a)'
    BY <1>1, <1>2, <1>4 DEF ExecuteFacts, QuietFor, Advances
  <2> QED BY <2>1, <2>2, <2>3
<1>6. CallFacts(a)'
  <2>1. \A g \in Conns : Up(g)' \cap Calls(a) \subseteq Up(g) \cap Calls(a)
    BY DEF QuietFor, Harmless
  <2>2. \A m : UnderWay(a, m)' <=> UnderWay(a, m)
    BY <1>2 DEF UnderWay, Advances
  <2>3. \A g \in Conns : OneCall(g, a)'
    BY <1>1 DEF CallFacts, QuietFor, Orders
  <2>4. jobs'[a].conn = jobs[a].conn /\ jobs'[a].asks = jobs[a].asks
    BY <1>2 DEF Advances
  <2> QED BY <1>1, <1>2, <2>1, <2>2, <2>3, <2>4 DEF CallFacts
<1>7. VerdictFacts(a)'
  BY <1>1, <1>2 DEF VerdictFacts, QuietFor, Harmless, Advances, Done, Frame
<1> QED BY <1>3, <1>5, <1>6, <1>7

\* And what is known of its tool results, when it takes none.
LEMMA ToolsStay ==
    ASSUME BridgeIInv, UNCHANGED serverVars, NEW a \in Attempts, jobs'[a].got = jobs[a].got, \A g \in Conns : Down(g)' \subseteq Down(g)
    PROVE  ToolFacts(a)'
  BY FactsOf DEF ToolFacts, serverVars

\* And that of its cancel.
LEMMA CancelsStay ==
    ASSUME BridgeIInv, UNCHANGED serverVars, NEW a \in Attempts, Advances(jobs[a], jobs'[a]),
           \A g \in Conns : QuietFor(g, a) /\ CancelStays(g, a)
    PROVE  CancelFacts(a)'
<1>1. CancelFacts(a) /\ call' = call /\ pending' = pending /\ astray' = astray
  BY FactsOf DEF serverVars
<1>2. GivenUp(a)' <=> GivenUp(a)
  BY <1>1 DEF GivenUp
<1>3. \A g \in Conns : ResultIn(g, a) /\ pending[g] # {} /\ wire'[g].up => ResultIn(g, a)'
  BY DEF ResultIn, QuietFor
<1> QED BY <1>1, <1>2, <1>3 DEF CancelFacts, QuietFor, CancelStays, Advances

\* The same of every attempt at once, with the sessions and the records.
LEMMA DeviceAdvances ==
    ASSUME BridgeIInv, UNCHANGED serverVars, \A g \in Conns : Quiet(g),
           \A a \in Attempts : Advances(jobs[a], jobs'[a]) /\ jobs'[a].got = jobs[a].got
    PROVE  SessionFacts' /\ RecordFacts' /\ \A a \in Attempts : OtherFacts(a)'
<1>1. SessionFacts' /\ RecordFacts'
  BY DEF BridgeIInv, serverVars, SessionFacts, RecordFacts, Open
<1>2. ASSUME NEW a \in Attempts PROVE OtherFacts(a)'
  <2>1. Advances(jobs[a], jobs'[a]) /\ \A g \in Conns : QuietFor(g, a) /\ CancelStays(g, a) /\ Down(g)' \subseteq Down(g)
    BY DEF Quiet, QuietFor
  <2> QED BY <2>1, TurnAdvances, ToolsStay, CancelsStay DEF OtherFacts
<1> QED BY <1>1, <1>2

-----------------------------------------------------------------------------
(* The run loop: connecting and backing off. *)

\* What each component of the state is, one by one.
LEMMA Typed ==
    ASSUME BridgeTypes
    PROVE  /\ wire \in Wires /\ device \in Devices /\ device.conn \in Conns /\ device.stop \in BOOLEAN
           /\ \A g \in Conns : g \in Nat /\ g <= MaxTries
           /\ \A a \in Attempts : jobs[a] \in JobStates /\ call[a] \in CallStates /\ items[a] \in Seq(ToServer)
           /\ \A g \in Conns : /\ wire[g] \in [toDevice : Seq(ToDevice), toServer : Seq(ToServer), up : BOOLEAN]
                               /\ Down(g) = {} <=> wire[g].toDevice = <<>>
                               /\ Up(g) = {} <=> wire[g].toServer = <<>>
<1>1. \A g \in Conns : g \in Nat /\ g <= MaxTries
  BY BridgeAssumption DEF Conns
<1>2. \A g \in Conns : wire[g] \in [toDevice : Seq(ToDevice), toServer : Seq(ToServer), up : BOOLEAN]
  BY DEF BridgeTypes, Wires
<1>3. \A g \in Conns : (Down(g) = {} <=> wire[g].toDevice = <<>>) /\ (Up(g) = {} <=> wire[g].toServer = <<>>)
  BY <1>2, Nothing DEF Down, Up
<1>4. device.conn \in Conns /\ device.stop \in BOOLEAN
  BY DEF BridgeTypes, Devices
<1> QED BY <1>1, <1>2, <1>3, <1>4 DEF BridgeTypes

\* The invariant holds after a step of the device that is quiet on every connection and only advances the turns.
LEMMA DeviceStep ==
    ASSUME BridgeIInv, UNCHANGED serverVars, UNCHANGED late,
           wire' \in Wires, device' \in Devices, jobs' \in [Attempts -> JobStates], interrupted' \subseteq Attempts,
           ConnectionFacts', \A a \in Attempts : JobFacts(a)',
           \A a \in Attempts : Advances(jobs[a], jobs'[a]) /\ jobs'[a].got = jobs[a].got, \A g \in Conns : Quiet(g)
    PROVE  BridgeIInv'
<1>1. BridgeTypes'
  BY DEF BridgeIInv, BridgeTypes, serverVars
<1>2. SessionFacts' /\ RecordFacts' /\ \A a \in Attempts : OtherFacts(a)'
  BY DeviceAdvances
<1>3. \A a \in Attempts : AttemptFacts(a)'
  BY <1>2 DEF AttemptFacts, OtherFacts
<1> QED BY <1>1, <1>2, <1>3 DEF BridgeIInv

\* A step that leaves the turns alone.
LEMMA LoopStep ==
    ASSUME BridgeIInv, UNCHANGED serverVars, UNCHANGED <<late, jobs>>,
           wire' \in Wires, device' \in Devices, interrupted' \subseteq Attempts, ConnectionFacts', \A g \in Conns : Quiet(g)
    PROVE  BridgeIInv'
<1>1. \A a \in Attempts : JobFacts(a)'
  BY DEF BridgeIInv, AttemptFacts, JobFacts, serverVars
<1>2. jobs' \in [Attempts -> JobStates] /\ \A a \in Attempts : Advances(jobs[a], jobs'[a]) /\ jobs'[a].got = jobs[a].got
  BY DEF BridgeIInv, BridgeTypes, Advances
<1> QED BY <1>1, <1>2, DeviceStep

\* A connection that stays as it is is quiet, and so is one whose session tracks nothing or that goes down.
LEMMA StaysQuiet == ASSUME NEW g, wire'[g] = wire[g] PROVE Quiet(g)
  BY Untouched DEF Quiet, QuietFor, CancelStays

\* After a pass the loop stops or backs off, on the connection it had.
LEMMA AfterPassDevice ==
    ASSUME BridgeTypes
    PROVE  /\ AfterPass(device) \in Devices /\ AfterPass(device).conn = device.conn /\ AfterPass(device).stop = device.stop
           /\ AfterPass(device).phase \in {"stopped", "backoff"}
           /\ AfterPass(device).phase = "backoff" => device.conn < MaxTries
<1>1. device \in Devices /\ device.conn \in Nat /\ MaxTries \in Nat
  BY Typed, BridgeAssumption DEF BridgeTypes
<1>2. CASE device.conn >= MaxTries
  <2>1. AfterPass(device) = [device EXCEPT !.phase = "stopped", !.reason = "exhausted"]
    BY <1>2 DEF AfterPass
  <2> QED BY <1>1, <1>2, <2>1 DEF Devices, Phases
<1>3. CASE device.conn < MaxTries
  <2>1. AfterPass(device) = [device EXCEPT !.phase = "backoff"]
    BY <1>1, <1>3 DEF AfterPass
  <2> QED BY <1>1, <1>3, <2>1 DEF Devices, Phases
<1> QED BY <1>1, <1>2, <1>3

\* The loop connects, fails to, or stops (run).
LEMMA ConnectStep == ASSUME BridgeIInv, Connect, UNCHANGED serverVars PROVE BridgeIInv'
<1>0. PICK g \in Conns : g = device.conn
  BY Typed DEF BridgeIInv
<1>1. /\ wire \in Wires /\ device \in Devices /\ (\A h \in Conns : h \in Nat) /\ BridgeTypes /\ interrupted \subseteq Attempts /\ g = device.conn
      /\ ConnectionFacts /\ SessionFacts
  BY <1>0, Typed DEF BridgeIInv, BridgeTypes
<1>2. session[g] = "none" /\ Up(g) = {} /\ Down(g) = {} /\ ~wire[g].up /\ pending[g] = {}
  BY <1>1 DEF Connect, ConnectionFacts, SessionFacts
<1>3. UNCHANGED <<jobs, interrupted, late, session, pending>>
  BY DEF Connect, serverVars
<1>4. ASSUME wire' = wire, device'.conn = device.conn, device'.stop = device.stop, device'.phase \in {"stopped", "backoff"}, device' \in Devices,
             device'.phase = "backoff" => device.conn < MaxTries /\ ~wire[device.conn].up
      PROVE  BridgeIInv'
  <2>1. ConnectionFacts'
    BY <1>1, <1>2, <1>3, <1>4, Untouched DEF ConnectionFacts
  <2> QED BY <1>1, <1>3, <1>4, <2>1, LoopStep, StaysQuiet
<1>5. CASE /\ device.stop
           /\ device' = [device EXCEPT !.phase = "stopped", !.reason = "requested"]
           /\ UNCHANGED wire
  BY <1>1, <1>4, <1>5 DEF Devices, Phases
<1>6. CASE device' = AfterPass(device) /\ UNCHANGED wire
  BY <1>1, <1>2, <1>4, <1>6, AfterPassDevice
<1>7. CASE /\ ~device.stop
           /\ device' = [device EXCEPT !.phase = "handshake", !.ended = FALSE]
           /\ wire' = [wire EXCEPT ![device.conn] = [@ EXCEPT !.up = TRUE, !.toServer = <<Hello>>]]
  <2>1. device' \in Devices /\ device'.conn = g /\ device'.phase = "handshake"
    BY <1>1, <1>7 DEF Devices, Phases
  <2> DEFINE w == [wire[g] EXCEPT !.up = TRUE, !.toServer = <<Hello>>]
  <2>2. <<Hello>> \in Seq(ToServer) /\ wire[g] \in [toDevice : Seq(ToDevice), toServer : Seq(ToServer), up : BOOLEAN]
    BY <1>1, Messages, Typed
  <2>3. w \in [toDevice : Seq(ToDevice), toServer : Seq(ToServer), up : BOOLEAN] /\ w.up = TRUE /\ w.toServer = <<Hello>> /\ w.toDevice = wire[g].toDevice
    BY <2>2
  <2>4. wire' = [wire EXCEPT ![g] = w]
    BY <1>0, <1>7
  <2> HIDE DEF w
  <2>5. wire' \in Wires /\ wire'[g] = w /\ \A h \in Conns \ {g} : wire'[h] = wire[h]
    BY <1>1, <2>3, <2>4 DEF Wires
  <2>6. Down(g)' = Down(g) /\ Up(g)' = {Hello} /\ wire'[g].up
    <3>1. wire'[g].toDevice = wire[g].toDevice /\ wire'[g].toServer = <<Hello>> /\ wire'[g].up
      BY <2>3, <2>5
    <3>2. Range(<<Hello>>) = {Hello}
      <4>1. DOMAIN <<Hello>> = {1} /\ <<Hello>>[1] = Hello
        OBVIOUS
      <4> QED BY <4>1 DEF Range
    <3> QED BY <3>1, <3>2 DEF Down, Up
  <2>7. Orders(g)
    <3>1. wire'[g].toDevice = wire[g].toDevice /\ wire'[g].toServer = <<Hello>>
      BY <2>3, <2>5
    <3>2. \A i, j \in DOMAIN <<Hello>> : ~(j < i)
      OBVIOUS
    <3> QED BY <3>1, <3>2 DEF Orders, ExecuteFirst, OneCall, Before
  <2>8. \A h \in Conns \ {g} : Down(h)' = Down(h) /\ Up(h)' = Up(h) /\ wire'[h].up = wire[h].up /\ Quiet(h)
    BY <2>5, Untouched, StaysQuiet
  <2>9. Quiet(g)
    BY <1>2, <2>6, <2>7 DEF Quiet, QuietFor, CancelStays, Harmless, Calls, Hello, Frame
  <2>10. ConnectionFacts'
    BY <1>1, <1>2, <1>3, <2>1, <2>6, <2>8 DEF ConnectionFacts
  <2> QED BY <1>1, <1>3, <2>1, <2>5, <2>8, <2>9, <2>10, LoopStep
<1> QED BY <1>5, <1>6, <1>7 DEF Connect

\* The loop goes on to its next connection, or stops (_backoff_or_stop).
LEMMA BackoffStep == ASSUME BridgeIInv, Backoff, UNCHANGED serverVars PROVE BridgeIInv'
<1>1. /\ wire \in Wires /\ device \in Devices /\ device.conn \in Conns /\ (\A h \in Conns : h \in Nat) /\ interrupted \subseteq Attempts
      /\ ConnectionFacts /\ BridgeTypes /\ MaxTries \in Nat
  BY Typed, BridgeAssumption DEF BridgeIInv, BridgeTypes
<1>2. UNCHANGED <<wire, jobs, interrupted, late, session, pending>> /\ device.conn < MaxTries /\ device.phase = "backoff"
  BY <1>1 DEF Backoff, serverVars, ConnectionFacts
<1>3. /\ device' \in Devices /\ device'.stop = device.stop
      /\ \/ device'.phase = "stopped" /\ device'.conn = device.conn
         \/ ~device.stop /\ device'.phase = "connecting" /\ device'.conn = device.conn + 1
  <2>1. device.conn + 1 \in Conns
    BY <1>1, <1>2 DEF Conns
  <2>2. CASE device.stop
    <3>1. device' = [device EXCEPT !.phase = "stopped", !.reason = "requested"]
      BY <2>2 DEF Backoff
    <3>2. device \in Devices
      BY <1>1
    <3>3. device' \in Devices
      BY <3>1, <3>2 DEF Devices, Phases
    <3>4. device'.phase = "stopped" /\ device'.conn = device.conn /\ device'.stop = device.stop
      BY <3>1, <3>2 DEF Devices
    <3> QED BY <3>3, <3>4
  <2>3. CASE ~device.stop
    <3>1. device' = [device EXCEPT !.phase = "connecting", !.conn = device.conn + 1]
      BY <2>3 DEF Backoff
    <3>2. device \in Devices
      BY <1>1
    <3>3. device' \in Devices
      BY <2>1, <3>1, <3>2 DEF Devices, Phases
    <3>4. device'.phase = "connecting" /\ device'.conn = device.conn + 1 /\ device'.stop = device.stop
      BY <3>1, <3>2 DEF Devices
    <3> QED BY <2>3, <3>3, <3>4
  <2> QED BY <2>2, <2>3
<1>4. \A g \in Conns : Down(g)' = Down(g) /\ Up(g)' = Up(g)
  BY <1>2, Untouched
<1>5. ConnectionFacts'
  <2>1. CASE device'.phase = "stopped" /\ device'.conn = device.conn
    BY <1>1, <1>2, <1>3, <1>4, <2>1 DEF ConnectionFacts
  <2>2. CASE ~device.stop /\ device'.phase = "connecting" /\ device'.conn = device.conn + 1
    <3>1. \A g \in Conns : g # device.conn + 1 => ~wire[g].up
      BY <1>1, <1>2 DEF ConnectionFacts
    <3> QED BY <1>1, <1>2, <1>3, <1>4, <2>2, <3>1 DEF ConnectionFacts
  <2> QED BY <1>3, <2>1, <2>2
<1> QED BY <1>1, <1>2, <1>3, <1>5, LoopStep, StaysQuiet

-----------------------------------------------------------------------------
(* The run loop: the handshake, the report of interrupted attempts, closing and stopping. *)

\* What the steps of the run loop start from.
LEMMA LoopStart ==
    ASSUME BridgeIInv, NEW g \in Conns, g = device.conn
    PROVE  /\ wire \in Wires /\ device \in Devices /\ interrupted \subseteq Attempts /\ BridgeTypes
           /\ g \in Nat /\ (\A h \in Conns : h \in Nat) /\ MaxTries \in Nat
           /\ ConnectionFacts /\ \A h \in Conns : session[h] # "open" => pending[h] = {}
  BY Typed, BridgeAssumption DEF BridgeIInv, BridgeTypes, SessionFacts

\* The device reads the answer to its greeting, or loses or leaves the connection before (_session_body).
LEMMA HandshakeStep == ASSUME BridgeIInv, Handshake, UNCHANGED serverVars PROVE BridgeIInv'
<1>0. PICK g \in Conns : g = device.conn
  BY Typed DEF BridgeIInv
<1>1. /\ wire \in Wires /\ device \in Devices /\ interrupted \subseteq Attempts /\ BridgeTypes
      /\ g \in Nat /\ (\A h \in Conns : h \in Nat) /\ MaxTries \in Nat
      /\ ConnectionFacts /\ \A h \in Conns : session[h] # "open" => pending[h] = {}
  BY <1>0, LoopStart
<1>2. device.phase = "handshake" /\ UNCHANGED <<jobs, interrupted, late, session, pending>>
  BY DEF Handshake, serverVars
<1>3. CASE wire[g].toDevice # <<>> /\ Head(wire[g].toDevice).kind = "ack"
  <2>1. device' = [device EXCEPT !.phase = "accepted"] /\ wire' = [wire EXCEPT ![g].toDevice = Tail(@)]
    BY <1>0, <1>3 DEF Handshake
  <2>2. device' \in Devices /\ device'.phase = "accepted" /\ device'.conn = g /\ device'.stop = device.stop
    BY <1>0, <1>1, <2>1 DEF Devices, Phases
  <2>3. /\ wire' \in Wires /\ \A h \in Conns \ {g} : wire'[h] = wire[h]
        /\ Up(g)' = Up(g) /\ wire'[g].up = wire[g].up /\ Orders(g)
        /\ Head(wire[g].toDevice) \in ToDevice /\ Down(g) = {Head(wire[g].toDevice)} \union Down(g)'
    BY <1>1, <1>3, <2>1, DeviceReads
  <2>4. Head(wire[g].toDevice).attempt = None
    BY <1>3, <2>3, DeviceMessage
  <2>5. Quiet(g)
    BY <2>3, <2>4, BridgeAssumption DEF Quiet, QuietFor, CancelStays, Execute, Cancel, Frame
  <2>6. \A h \in Conns \ {g} : Down(h)' = Down(h) /\ Up(h)' = Up(h) /\ wire'[h].up = wire[h].up /\ Quiet(h)
    BY <2>3, Untouched, StaysQuiet
  <2>7. ConnectionFacts'
    <3>1. session[g] # "none" /\ Down(g)' \subseteq Down(g)
      BY <1>1, <2>3 DEF ConnectionFacts
    <3> QED BY <1>0, <1>1, <1>2, <2>2, <2>3, <2>6, <3>1 DEF ConnectionFacts
  <2> QED BY <1>1, <1>2, <2>2, <2>3, <2>5, <2>6, <2>7, LoopStep
<1>4. CASE wire[g].toDevice # <<>> /\ Head(wire[g].toDevice).kind # "ack"
  <2>1. device' = [device EXCEPT !.phase = "stopped", !.reason = "fatal"] /\ wire' = [wire EXCEPT ![g] = DeviceCloses(@)]
    BY <1>0, <1>4 DEF Handshake
  <2>2. device' \in Devices /\ device'.phase = "stopped" /\ device'.conn = g /\ device'.stop = device.stop
    BY <1>0, <1>1, <2>1 DEF Devices, Phases
  <2>3. /\ wire' \in Wires /\ \A h \in Conns \ {g} : wire'[h] = wire[h]
        /\ Down(g)' = {} /\ Up(g)' = Up(g) /\ ~wire'[g].up /\ Orders(g)
    BY <1>1, <2>1, DeviceEnds
  <2>4. Quiet(g)
    BY <2>3 DEF Quiet, QuietFor, CancelStays
  <2>5. \A h \in Conns \ {g} : Down(h)' = Down(h) /\ Up(h)' = Up(h) /\ wire'[h].up = wire[h].up /\ Quiet(h)
    BY <2>3, Untouched, StaysQuiet
  <2>6. session[g] # "none"
    BY <1>1, <1>4, Typed DEF ConnectionFacts
  <2>7. ConnectionFacts'
    BY <1>0, <1>1, <1>2, <2>2, <2>3, <2>5, <2>6 DEF ConnectionFacts
  <2> QED BY <1>1, <1>2, <2>2, <2>3, <2>4, <2>5, <2>7, LoopStep
<1>5. CASE wire[g].toDevice = <<>> /\ ~wire[g].up
  <2>1. /\ wire' = wire
        /\ \/ device' = AfterPass(device)
           \/ device.stop /\ device' = [device EXCEPT !.phase = "stopped", !.reason = "requested"]
    BY <1>0, <1>5 DEF Handshake
  <2>2. /\ device' \in Devices /\ device'.phase \in {"stopped", "backoff"} /\ device'.conn = g /\ device'.stop = device.stop
        /\ device'.phase = "backoff" => g < MaxTries
    <3>1. CASE device' = AfterPass(device)
      BY <1>0, <1>1, <3>1, AfterPassDevice
    <3>2. CASE device' = [device EXCEPT !.phase = "stopped", !.reason = "requested"]
      BY <1>0, <1>1, <3>2 DEF Devices, Phases
    <3> QED BY <2>1, <3>1, <3>2
  <2>3. \A h \in Conns : Down(h)' = Down(h) /\ Up(h)' = Up(h) /\ wire'[h].up = wire[h].up /\ Quiet(h)
    BY <2>1, Untouched, StaysQuiet
  <2>4. ConnectionFacts'
    BY <1>0, <1>1, <1>2, <1>5, <2>2, <2>3 DEF ConnectionFacts
  <2> QED BY <1>1, <1>2, <2>1, <2>2, <2>3, <2>4, LoopStep
<1>6. CASE wire[g].toDevice = <<>> /\ wire[g].up
  <2>1. wire' = [wire EXCEPT ![g] = DeviceCloses(@)] /\ device' = AfterPass(device)
    BY <1>0, <1>6 DEF Handshake
  <2>2. /\ device' \in Devices /\ device'.phase \in {"stopped", "backoff"} /\ device'.conn = g /\ device'.stop = device.stop
        /\ device'.phase = "backoff" => g < MaxTries
    BY <1>0, <1>1, <2>1, AfterPassDevice
  <2>3. /\ wire' \in Wires /\ \A h \in Conns \ {g} : wire'[h] = wire[h]
        /\ Down(g)' = {} /\ Up(g)' = Up(g) /\ ~wire'[g].up /\ Orders(g)
    BY <1>1, <2>1, DeviceEnds
  <2>4. Quiet(g)
    BY <2>3 DEF Quiet, QuietFor, CancelStays
  <2>5. \A h \in Conns \ {g} : Down(h)' = Down(h) /\ Up(h)' = Up(h) /\ wire'[h].up = wire[h].up /\ Quiet(h)
    BY <2>3, Untouched, StaysQuiet
  <2>6. ConnectionFacts'
    BY <1>0, <1>1, <1>2, <2>2, <2>3, <2>5 DEF ConnectionFacts
  <2> QED BY <1>1, <1>2, <2>2, <2>3, <2>4, <2>5, <2>6, LoopStep
<1>7. \/ wire[g].toDevice # <<>> /\ Head(wire[g].toDevice).kind = "ack"
      \/ wire[g].toDevice # <<>> /\ Head(wire[g].toDevice).kind # "ack"
      \/ wire[g].toDevice = <<>> /\ ~wire[g].up
      \/ wire[g].toDevice = <<>> /\ wire[g].up
  BY <1>0 DEF Handshake
<1> QED BY <1>3, <1>4, <1>5, <1>6, <1>7

\* What is sent on the session of a connection that has one.
LEMMA Sending ==
    ASSUME BridgeIInv, NEW g \in Conns, NEW m \in ToServer, m.kind # "call", wire' = Sent(g, m),
           \A a \in Attempts : m = Frame("result", a, 0, "completed") => Done(a)'
    PROVE  /\ wire' \in Wires
           /\ \A h \in Conns : /\ Down(h)' = Down(h) /\ wire'[h].up = wire[h].up /\ Quiet(h)
                               /\ Up(h) \subseteq Up(h)' /\ (h # g => Up(h)' = Up(h))
<1>1. wire \in Wires
  BY DEF BridgeIInv, BridgeTypes
<1>2. /\ wire' \in Wires
      /\ \A h \in Conns :
            /\ Down(h)' = Down(h) /\ wire'[h].up = wire[h].up
            /\ Up(h)' = IF h = g /\ wire[g].up THEN Up(h) \union {m} ELSE Up(h)
            /\ (h = g => \A a \in Attempts : m \in Calls(a) => Up(g) \cap Calls(a) = {}) => Orders(h)
  BY <1>1, DeviceWrites
<1>3. \A a \in Attempts : m \notin Calls(a)
  BY DEF Calls
<1>4. \A h \in Conns : Up(h) \subseteq Up(h)' /\ (h # g => Up(h)' = Up(h)) /\ Orders(h) /\ \A n \in Up(h)' : n \in Up(h) \/ n = m
  BY <1>2, <1>3
<1>5. \A a \in Attempts : Harmless(m, a)
  BY DEF Harmless, Calls
<1>6. \A h \in Conns : Quiet(h)
  BY <1>2, <1>4, <1>5 DEF Quiet, QuietFor, CancelStays
<1> QED BY <1>2, <1>4, <1>6

\* The interrupted attempts are reported, then the session starts (_session_body).
LEMMA FlushStep == ASSUME BridgeIInv, Flush, UNCHANGED serverVars PROVE BridgeIInv'
<1>0. PICK g \in Conns : g = device.conn
  BY Typed DEF BridgeIInv
<1>1. /\ wire \in Wires /\ device \in Devices /\ interrupted \subseteq Attempts /\ BridgeTypes
      /\ g \in Nat /\ (\A h \in Conns : h \in Nat) /\ MaxTries \in Nat
      /\ ConnectionFacts /\ \A h \in Conns : session[h] # "open" => pending[h] = {}
  BY <1>0, LoopStart
<1>2. device.phase = "accepted" /\ UNCHANGED <<jobs, late, session, pending>>
  BY DEF Flush, serverVars
<1>3. session[g] # "none"
  BY <1>0, <1>1, <1>2 DEF ConnectionFacts
<1>4. ASSUME NEW m \in ToServer, m.kind \in {"interrupted", "report"}, wire' = Sent(g, m), interrupted' \subseteq Attempts,
             device' \in Devices, device'.conn = g, device'.stop = device.stop, device'.phase \in {"accepted", "leaving", "reading"}
      PROVE  BridgeIInv'
  <2>1. \A a \in Attempts : m # Frame("result", a, 0, "completed")
    BY <1>4 DEF Frame
  <2>2. /\ wire' \in Wires
        /\ \A h \in Conns : /\ Down(h)' = Down(h) /\ wire'[h].up = wire[h].up /\ Quiet(h)
                            /\ Up(h) \subseteq Up(h)' /\ (h # g => Up(h)' = Up(h))
    BY <1>4, <2>1, Sending
  <2>3. ConnectionFacts'
    BY <1>0, <1>1, <1>2, <1>3, <1>4, <2>2 DEF ConnectionFacts
  <2> QED BY <1>1, <1>2, <1>4, <2>2, <2>3, LoopStep
<1>5. CASE interrupted = {} /\ device' = LoopTop(device) /\ wire' = Sent(g, Report) /\ interrupted' = interrupted
  <2>1. device' \in Devices /\ device'.conn = g /\ device'.stop = device.stop /\ device'.phase \in {"leaving", "reading"}
    BY <1>0, <1>1, <1>5 DEF LoopTop, Devices, Phases
  <2> QED BY <1>1, <1>4, <1>5, <2>1, Messages DEF Report, Frame
<1>6. ASSUME NEW a \in Attempts, interrupted' = interrupted \ {a}, wire' = Sent(g, Frame("interrupted", a, 0, None)), device' = device
      PROVE  BridgeIInv'
  <2>1. Frame("interrupted", a, 0, None) \in ToServer /\ Frame("interrupted", a, 0, None).kind = "interrupted"
    BY Messages DEF Frame
  <2> QED BY <1>0, <1>1, <1>2, <1>4, <1>6, <2>1
<1>7. CASE ~wire[g].up /\ device' = AfterPass(device) /\ wire' = wire /\ interrupted' \subseteq Attempts
  <2>1. \A h \in Conns : Down(h)' = Down(h) /\ Up(h)' = Up(h) /\ wire'[h].up = wire[h].up /\ Quiet(h)
    BY <1>7, Untouched, StaysQuiet
  <2>2. /\ device' \in Devices /\ device'.phase \in {"stopped", "backoff"} /\ device'.conn = g /\ device'.stop = device.stop
        /\ device'.phase = "backoff" => g < MaxTries
    BY <1>0, <1>1, <1>7, AfterPassDevice
  <2>3. ConnectionFacts'
    BY <1>0, <1>1, <1>2, <1>3, <1>7, <2>1, <2>2 DEF ConnectionFacts
  <2> QED BY <1>1, <1>2, <1>7, <2>1, <2>2, <2>3, LoopStep
<1> QED BY <1>0, <1>1, <1>5, <1>6, <1>7 DEF Flush

\* The device closes the connection of the session it has left.
LEMMA ClosingStep == ASSUME BridgeIInv, Closing, UNCHANGED serverVars PROVE BridgeIInv'
<1>0. PICK g \in Conns : g = device.conn
  BY Typed DEF BridgeIInv
<1>1. /\ wire \in Wires /\ device \in Devices /\ interrupted \subseteq Attempts /\ BridgeTypes
      /\ g \in Nat /\ (\A h \in Conns : h \in Nat) /\ MaxTries \in Nat
      /\ ConnectionFacts /\ \A h \in Conns : session[h] # "open" => pending[h] = {}
  BY <1>0, LoopStart
<1>2. device.phase = "closing" /\ UNCHANGED <<jobs, interrupted, late, session, pending>> /\ wire' = [wire EXCEPT ![g] = DeviceCloses(@)]
  BY <1>0 DEF Closing, serverVars
<1>3. /\ wire' \in Wires /\ \A h \in Conns \ {g} : wire'[h] = wire[h]
      /\ Down(g)' = {} /\ Up(g)' = Up(g) /\ ~wire'[g].up /\ Orders(g)
  BY <1>1, <1>2, DeviceEnds
<1>4. Quiet(g) /\ session[g] # "none"
  BY <1>0, <1>1, <1>2, <1>3 DEF Quiet, QuietFor, CancelStays, ConnectionFacts
<1>5. \A h \in Conns \ {g} : Down(h)' = Down(h) /\ Up(h)' = Up(h) /\ wire'[h].up = wire[h].up /\ Quiet(h)
  BY <1>3, Untouched, StaysQuiet
<1>6. /\ device' \in Devices /\ device'.phase \in {"stopped", "backoff"} /\ device'.conn = g /\ device'.stop = device.stop
      /\ device'.phase = "backoff" => g < MaxTries
  <2>1. CASE device' = AfterPass(device)
    BY <1>0, <1>1, <2>1, AfterPassDevice
  <2>2. CASE device' = [device EXCEPT !.phase = "stopped", !.reason = "requested"]
    BY <1>0, <1>1, <2>2 DEF Devices, Phases
  <2> QED BY <2>1, <2>2 DEF Closing
<1>7. ConnectionFacts'
  BY <1>0, <1>1, <1>2, <1>3, <1>4, <1>5, <1>6 DEF ConnectionFacts
<1> QED BY <1>1, <1>2, <1>3, <1>4, <1>5, <1>6, <1>7, LoopStep

\* An administrator stops the worker (request_stop).
LEMMA RequestStopStep == ASSUME BridgeIInv, RequestStop, UNCHANGED serverVars PROVE BridgeIInv'
<1>0. PICK g \in Conns : g = device.conn
  BY Typed DEF BridgeIInv
<1>1. /\ wire \in Wires /\ device \in Devices /\ interrupted \subseteq Attempts /\ BridgeTypes
      /\ g \in Nat /\ (\A h \in Conns : h \in Nat) /\ MaxTries \in Nat
      /\ ConnectionFacts /\ \A h \in Conns : session[h] # "open" => pending[h] = {}
  BY <1>0, LoopStart
<1>2. UNCHANGED <<jobs, interrupted, late, session, pending>>
  BY DEF RequestStop, serverVars
<1>3. device' \in Devices /\ device'.phase = device.phase /\ device'.conn = g /\ device'.stop = TRUE
  BY <1>0, <1>1 DEF RequestStop, Devices
<1>4. CASE wire' = wire
  <2>1. \A h \in Conns : Down(h)' = Down(h) /\ Up(h)' = Up(h) /\ wire'[h].up = wire[h].up /\ Quiet(h)
    BY <1>4, Untouched, StaysQuiet
  <2>2. ConnectionFacts'
    BY <1>0, <1>1, <1>2, <1>3, <2>1 DEF ConnectionFacts
  <2> QED BY <1>1, <1>2, <1>3, <1>4, <2>1, <2>2, LoopStep
<1>5. CASE device.phase # "connecting" /\ wire' = [wire EXCEPT ![g] = DeviceCloses(@)]
  <2>1. /\ wire' \in Wires /\ \A h \in Conns \ {g} : wire'[h] = wire[h]
        /\ Down(g)' = {} /\ Up(g)' = Up(g) /\ ~wire'[g].up /\ Orders(g)
    BY <1>1, <1>5, DeviceEnds
  <2>2. Quiet(g)
    BY <2>1 DEF Quiet, QuietFor, CancelStays
  <2>3. \A h \in Conns \ {g} : Down(h)' = Down(h) /\ Up(h)' = Up(h) /\ wire'[h].up = wire[h].up /\ Quiet(h)
    BY <2>1, Untouched, StaysQuiet
  <2>4. ConnectionFacts'
    BY <1>0, <1>1, <1>2, <1>3, <1>5, <2>1, <2>3 DEF ConnectionFacts
  <2> QED BY <1>1, <1>2, <1>3, <2>1, <2>2, <2>3, <2>4, LoopStep
<1> QED BY <1>0, <1>4, <1>5 DEF RequestStop, StopWire

\* The connection breaks.
LEMMA BreakStep == ASSUME BridgeIInv, Break, UNCHANGED serverVars PROVE BridgeIInv'
<1>0. PICK g \in Conns : wire[g].up /\ \E down \in Arrived(wire[g].toDevice), up \in Arrived(wire[g].toServer) :
          wire' = [wire EXCEPT ![g] = [toDevice |-> down, toServer |-> up, up |-> FALSE]]
  BY DEF Break
<1>1. g = device.conn
  BY <1>0 DEF BridgeIInv, ConnectionFacts
<1>2. /\ wire \in Wires /\ device \in Devices /\ interrupted \subseteq Attempts /\ BridgeTypes
      /\ g \in Nat /\ (\A h \in Conns : h \in Nat) /\ MaxTries \in Nat
      /\ ConnectionFacts /\ \A h \in Conns : session[h] # "open" => pending[h] = {}
  BY <1>1, LoopStart
<1>3. UNCHANGED <<device, jobs, interrupted, late, session, pending>>
  BY DEF Break, serverVars
<1>4. /\ wire' \in Wires /\ \A h \in Conns \ {g} : wire'[h] = wire[h]
      /\ Down(g)' \subseteq Down(g) /\ Up(g)' \subseteq Up(g) /\ ~wire'[g].up /\ Orders(g)
  BY <1>0, <1>2, NetworkEnds
<1>5. Quiet(g)
  BY <1>4 DEF Quiet, QuietFor, CancelStays
<1>6. \A h \in Conns \ {g} : Down(h)' = Down(h) /\ Up(h)' = Up(h) /\ wire'[h].up = wire[h].up /\ Quiet(h)
  BY <1>4, Untouched, StaysQuiet
<1>7. ConnectionFacts'
  BY <1>1, <1>2, <1>3, <1>4, <1>6 DEF ConnectionFacts
<1> QED BY <1>2, <1>3, <1>4, <1>5, <1>6, <1>7, LoopStep

-----------------------------------------------------------------------------
(* The thread of an attempt on the device. *)

\* One turn takes a step by itself, and what it says it says on its own connection.
LEMMA TurnStep ==
    ASSUME BridgeIInv, UNCHANGED serverVars, UNCHANGED late, NEW a \in Attempts, NEW j \in JobStates,
           jobs' = [jobs EXCEPT ![a] = j], jobs[a].st # "none", Advances(jobs[a], j), j.got = jobs[a].got,
           j.tracked => j.st \in {"running", "asking"}, j.st \in {"running", "asking"} => j.tracked \/ j.cancel,
           j.st = "running" => j.got = j.asks, j.st = "leaving" => j.status \in Statuses,
           interrupted' \subseteq Attempts,
           wire' \in Wires, device' \in Devices, ConnectionFacts', \A g \in Conns : Quiet(g)
    PROVE  BridgeIInv'
<1>1. jobs \in [Attempts -> JobStates] /\ session' = session
  BY DEF BridgeIInv, BridgeTypes, serverVars
<1>2. jobs' \in [Attempts -> JobStates] /\ jobs'[a] = j /\ \A b \in Attempts \ {a} : jobs'[b] = jobs[b]
  BY <1>1
<1>3. \A b \in Attempts : Advances(jobs[b], jobs'[b]) /\ jobs'[b].got = jobs[b].got
  BY <1>2 DEF Advances
<1>4. ASSUME NEW b \in Attempts PROVE JobFacts(b)'
  <2>1. JobFacts(b)
    BY FactsOf
  <2>2. CASE b = a
    BY <1>1, <1>2, <2>1, <2>2 DEF JobFacts, Advances
  <2>3. CASE b # a
    BY <1>1, <1>2, <2>1, <2>3 DEF JobFacts
  <2> QED BY <2>2, <2>3
<1> QED BY <1>2, <1>3, <1>4, DeviceStep

\* The turn of a says something, or nothing, and the run loop's state stays what it is but for the end of its session.
LEMMA TurnSpeaks ==
    ASSUME BridgeIInv, UNCHANGED serverVars, UNCHANGED late, NEW a \in Attempts, NEW j \in JobStates,
           jobs' = [jobs EXCEPT ![a] = j], jobs[a].st # "none", Advances(jobs[a], j), j.got = jobs[a].got,
           j.tracked => j.st \in {"running", "asking"}, j.st \in {"running", "asking"} => j.tracked \/ j.cancel,
           j.st = "running" => j.got = j.asks, j.st = "leaving" => j.status \in Statuses,
           interrupted' \subseteq Attempts, device' = device \/ device' = [device EXCEPT !.ended = TRUE],
           NEW m \in ToServer, m.kind # "call", wire' = wire \/ wire' = Sent(jobs[a].conn, m),
           \A b \in Attempts : m = Frame("result", b, 0, "completed") => b = a /\ j.st = "over" /\ j.status = "completed"
    PROVE  BridgeIInv'
<1>0. PICK g \in Conns : g = jobs[a].conn /\ session[g] # "none"
  BY FactsOf DEF JobFacts
<1>1. /\ wire \in Wires /\ device \in Devices /\ BridgeTypes /\ ConnectionFacts /\ session' = session
      /\ jobs \in [Attempts -> JobStates] /\ device.conn \in Conns /\ (\A h \in Conns : h \in Nat)
  BY Typed DEF BridgeIInv, BridgeTypes, serverVars
<1>2. device' \in Devices /\ device'.phase = device.phase /\ device'.conn = device.conn /\ device'.stop = device.stop
  BY <1>1 DEF Devices
<1>3. \A b \in Attempts : m = Frame("result", b, 0, "completed") => Done(b)'
  BY <1>1 DEF Done
<1>4. /\ wire' \in Wires
      /\ \A h \in Conns : /\ Down(h)' = Down(h) /\ wire'[h].up = wire[h].up /\ Quiet(h)
                          /\ Up(h) \subseteq Up(h)' /\ (h # g => Up(h)' = Up(h))
  <2>1. CASE wire' = wire
    BY <1>1, <2>1, Untouched, StaysQuiet
  <2>2. CASE wire' = Sent(g, m)
    BY <1>3, <2>2, Sending
  <2> QED BY <1>0, <2>1, <2>2
<1>5. ConnectionFacts'
  <2>1. ConnectionFacts /\ session' = session
    BY <1>1
  <2> QED BY <1>0, <1>1, <1>2, <1>4, <2>1 DEF ConnectionFacts
<1> QED BY <1>2, <1>4, <1>5, TurnStep

\* Where a turn stands before it takes a step.
LEMMA TurnStart ==
    ASSUME BridgeIInv, NEW a \in Attempts
    PROVE  jobs[a] \in JobStates /\ interrupted \subseteq Attempts /\ JobFacts(a)
  BY FactsOf DEF BridgeIInv, BridgeTypes

\* A turn emits a chunk, or finds its connection lost (_make_emitter).
LEMMA EmitStep == ASSUME BridgeIInv, NEW a \in Attempts, Emit(a), UNCHANGED serverVars PROVE BridgeIInv'
<1>1. jobs[a] \in JobStates /\ interrupted \subseteq Attempts /\ JobFacts(a)
  BY TurnStart
<1>2. jobs[a].st = "running" /\ UNCHANGED <<device, late>>
  BY DEF Emit
<1>3. ASSUME NEW kind \in {"chunk", "garbled"}, wire' = Sent(jobs[a].conn, Frame(kind, a, 0, None)),
             jobs' = [jobs EXCEPT ![a].streamed = TRUE], interrupted' = interrupted
      PROVE  BridgeIInv'
  <2> DEFINE j == [jobs[a] EXCEPT !.streamed = TRUE]
             m == Frame(kind, a, 0, None)
  <2>1. /\ j \in JobStates /\ Advances(jobs[a], j) /\ j.got = jobs[a].got /\ j.st = "running" /\ j.asks = jobs[a].asks
        /\ j.tracked = jobs[a].tracked /\ j.cancel = jobs[a].cancel
    BY <1>1, <1>2 DEF JobStates, Advances
  <2>2. m \in ToServer /\ m.kind # "call" /\ \A b \in Attempts : m # Frame("result", b, 0, "completed")
    BY Messages DEF Frame
  <2>3. jobs' = [jobs EXCEPT ![a] = j] /\ wire' = Sent(jobs[a].conn, m)
    BY <1>3
  <2>4. (j.st \in {"running", "asking"} => j.tracked \/ j.cancel) /\ (j.st = "running" => j.got = j.asks)
    BY <1>1, <1>2, <2>1 DEF JobFacts
  <2> HIDE DEF j, m
  <2> QED BY <1>1, <1>2, <1>3, <2>1, <2>2, <2>3, <2>4, TurnSpeaks
<1>4. CASE jobs' = [jobs EXCEPT ![a] = Over(@)] /\ interrupted' = interrupted \union {a} /\ wire' = wire
  <2> DEFINE j == Over(jobs[a])
  <2>1. j \in JobStates /\ Advances(jobs[a], j) /\ j.got = jobs[a].got /\ j.st = "over" /\ ~j.tracked
    BY <1>1, <1>2 DEF JobStates, Advances, Over
  <2>2. jobs' = [jobs EXCEPT ![a] = j]
    BY <1>4
  <2>3. Report \in ToServer /\ Report.kind # "call" /\ \A b \in Attempts : Report # Frame("result", b, 0, "completed")
    BY Messages DEF Report, Frame
  <2> HIDE DEF j
  <2> QED BY <1>1, <1>2, <1>4, <2>1, <2>2, <2>3, TurnSpeaks
<1> QED BY <1>3, <1>4 DEF Emit

\* The tool bridge returns to the turn: a result, a cancel or the end of the session (_SessionToolBridge).
LEMMA BridgeReturnsStep == ASSUME BridgeIInv, NEW a \in Attempts, BridgeReturns(a), UNCHANGED serverVars PROVE BridgeIInv'
<1>1. jobs[a] \in JobStates /\ interrupted \subseteq Attempts /\ JobFacts(a)
  BY TurnStart
<1>2. jobs[a].st = "asking" /\ UNCHANGED <<device, late, wire, interrupted>>
  BY DEF BridgeReturns
<1>3. Report \in ToServer /\ Report.kind # "call" /\ \A b \in Attempts : Report # Frame("result", b, 0, "completed")
  BY Messages DEF Report, Frame
<1>4. CASE jobs[a].got = jobs[a].asks /\ jobs' = [jobs EXCEPT ![a].st = "running"]
  <2> DEFINE j == [jobs[a] EXCEPT !.st = "running"]
  <2>1. /\ j \in JobStates /\ Advances(jobs[a], j) /\ j.got = jobs[a].got /\ j.st = "running" /\ j.asks = jobs[a].asks
        /\ j.tracked = jobs[a].tracked /\ j.cancel = jobs[a].cancel
    BY <1>1, <1>2 DEF JobStates, Advances
  <2>2. jobs' = [jobs EXCEPT ![a] = j]
    BY <1>4
  <2>3. (j.st \in {"running", "asking"} => j.tracked \/ j.cancel) /\ (j.st = "running" => j.got = j.asks)
    BY <1>1, <1>2, <1>4, <2>1 DEF JobFacts
  <2> HIDE DEF j
  <2> QED BY <1>1, <1>2, <1>3, <2>1, <2>2, <2>3, TurnSpeaks
<1>5. ASSUME NEW s \in Statuses, jobs' = [jobs EXCEPT ![a] = Leave(@, s)] PROVE BridgeIInv'
  <2> DEFINE j == Leave(jobs[a], s)
  <2>1. j \in JobStates /\ Advances(jobs[a], j) /\ j.got = jobs[a].got /\ j.st = "leaving" /\ ~j.tracked /\ j.status = s
    BY <1>1, <1>2 DEF JobStates, Advances, Leave
  <2>2. jobs' = [jobs EXCEPT ![a] = j]
    BY <1>5
  <2> HIDE DEF j
  <2> QED BY <1>1, <1>2, <1>3, <2>1, <2>2, TurnSpeaks
<1>6. CASE jobs' = [jobs EXCEPT ![a] = Leave(@, IF jobs[a].cancel THEN "cancelled" ELSE "failed")]
  <2>1. (IF jobs[a].cancel THEN "cancelled" ELSE "failed") \in Statuses
    BY DEF Statuses
  <2> QED BY <1>5, <1>6, <2>1
<1> QED BY <1>4, <1>6 DEF BridgeReturns

\* A turn ends with its status, or its thread dies.
LEMMA FinishStep == ASSUME BridgeIInv, NEW a \in Attempts, Finish(a), UNCHANGED serverVars PROVE BridgeIInv'
<1>1. jobs[a] \in JobStates /\ interrupted \subseteq Attempts
  BY TurnStart
<1>2. jobs[a].st = "running" /\ UNCHANGED <<device, late, wire, interrupted>>
  BY DEF Finish
<1>3. Report \in ToServer /\ Report.kind # "call" /\ \A b \in Attempts : Report # Frame("result", b, 0, "completed")
  BY Messages DEF Report, Frame
<1>4. ASSUME NEW s \in Statuses, jobs' = [jobs EXCEPT ![a] = Leave(@, s)] PROVE BridgeIInv'
  <2> DEFINE j == Leave(jobs[a], s)
  <2>1. j \in JobStates /\ Advances(jobs[a], j) /\ j.got = jobs[a].got /\ j.st = "leaving" /\ ~j.tracked /\ j.status = s
    BY <1>1, <1>2 DEF JobStates, Advances, Leave
  <2>2. jobs' = [jobs EXCEPT ![a] = j]
    BY <1>4
  <2> HIDE DEF j
  <2> QED BY <1>1, <1>2, <1>3, <2>1, <2>2, TurnSpeaks
<1>5. CASE jobs' = [jobs EXCEPT ![a] = [Over(@) EXCEPT !.status = Dead]]
  <2> DEFINE j == [Over(jobs[a]) EXCEPT !.status = Dead]
  <2>1. j \in JobStates /\ Advances(jobs[a], j) /\ j.got = jobs[a].got /\ j.st = "over" /\ ~j.tracked
    BY <1>1, <1>2 DEF JobStates, Advances, Over
  <2>2. jobs' = [jobs EXCEPT ![a] = j]
    BY <1>5
  <2> HIDE DEF j
  <2> QED BY <1>1, <1>2, <1>3, <2>1, <2>2, TurnSpeaks
<1> QED BY <1>4, <1>5 DEF Finish

\* The turn is over once its result is written, lost or refused by the framing.
LEMMA OverStep ==
    ASSUME BridgeIInv, NEW a \in Attempts, SendResult(a) \/ CannotFrame(a), UNCHANGED serverVars PROVE BridgeIInv'
<1>1. jobs[a] \in JobStates /\ interrupted \subseteq Attempts /\ JobFacts(a)
  BY TurnStart
<1>2. jobs[a].st = "leaving" /\ jobs[a].status \in Statuses /\ UNCHANGED <<device, late>> /\ jobs' = [jobs EXCEPT ![a] = Over(@)]
  BY <1>1 DEF SendResult, CannotFrame, JobFacts
<1> DEFINE j == Over(jobs[a])
           m == Frame("result", a, 0, jobs[a].status)
<1>3. j \in JobStates /\ Advances(jobs[a], j) /\ j.got = jobs[a].got /\ j.st = "over" /\ ~j.tracked /\ j.status = jobs[a].status
  BY <1>1, <1>2 DEF JobStates, Advances, Over
<1>4. m \in ToServer /\ m.kind # "call" /\ \A b \in Attempts : m = Frame("result", b, 0, "completed") => b = a /\ jobs[a].status = "completed"
  BY <1>2, Messages DEF Frame
<1>5. jobs' = [jobs EXCEPT ![a] = j] /\ (wire' = wire \/ wire' = Sent(jobs[a].conn, m)) /\ interrupted' \subseteq Attempts
  BY <1>1, <1>2 DEF SendResult, CannotFrame
<1>6. \A b \in Attempts : m = Frame("result", b, 0, "completed") => b = a /\ j.st = "over" /\ j.status = "completed"
  BY <1>3, <1>4
<1> HIDE DEF j, m
<1> QED BY <1>2, <1>3, <1>4, <1>5, <1>6, TurnSpeaks

\* The device's own timer cancels a turn past its deadline.
LEMMA DeadlineTimerStep == ASSUME BridgeIInv, NEW a \in Attempts, DeadlineTimer(a), UNCHANGED serverVars PROVE BridgeIInv'
<1>1. jobs[a] \in JobStates /\ interrupted \subseteq Attempts /\ JobFacts(a)
  BY TurnStart
<1>2. jobs[a].st \in {"running", "asking"} /\ UNCHANGED <<device, late, wire, interrupted>>
  BY DEF DeadlineTimer
<1>3. Report \in ToServer /\ Report.kind # "call" /\ \A b \in Attempts : Report # Frame("result", b, 0, "completed")
  BY Messages DEF Report, Frame
<1> DEFINE j == [jobs[a] EXCEPT !.cancel = TRUE]
<1>4. /\ j \in JobStates /\ Advances(jobs[a], j) /\ j.got = jobs[a].got /\ j.st = jobs[a].st /\ j.asks = jobs[a].asks
      /\ j.tracked = jobs[a].tracked /\ j.cancel
  BY <1>1, <1>2 DEF JobStates, Advances
<1>5. jobs' = [jobs EXCEPT ![a] = j]
  BY DEF DeadlineTimer
<1>6. (j.tracked => j.st \in {"running", "asking"}) /\ (j.st = "running" => j.got = j.asks)
  BY <1>1, <1>2, <1>4 DEF JobFacts
<1> HIDE DEF j
<1> QED BY <1>1, <1>2, <1>3, <1>4, <1>5, <1>6, TurnSpeaks

-----------------------------------------------------------------------------
(* The end of a session on the device, and a tool call. *)

\* The end of a session: every attempt in flight is cancelled and remembered.
LEMMA FailInFlightStep == ASSUME BridgeIInv, LoopEnds \/ ReadFails, UNCHANGED serverVars PROVE BridgeIInv'
<1>0. PICK g \in Conns : g = device.conn
  BY Typed DEF BridgeIInv
<1>1. /\ wire \in Wires /\ device \in Devices /\ interrupted \subseteq Attempts /\ BridgeTypes
      /\ g \in Nat /\ (\A h \in Conns : h \in Nat) /\ MaxTries \in Nat
      /\ ConnectionFacts /\ \A h \in Conns : session[h] # "open" => pending[h] = {}
  BY <1>0, LoopStart
<1>2. /\ device.phase \in {"leaving", "reading"} /\ UNCHANGED <<late, wire, session>>
      /\ FailInFlight /\ jobs \in [Attempts -> JobStates]
  BY <1>1 DEF LoopEnds, ReadFails, serverVars, BridgeTypes
<1>3. device' = [device EXCEPT !.phase = "closing", !.ended = TRUE]
  BY <1>2 DEF FailInFlight
<1>4. device' \in Devices /\ device'.phase = "closing" /\ device'.conn = device.conn /\ device'.stop = device.stop
  BY <1>1, <1>3 DEF Devices, Phases
<1>5. interrupted' \subseteq Attempts
  BY <1>1, <1>2 DEF FailInFlight, Tracked
<1>6. ASSUME NEW a \in Attempts
      PROVE  /\ jobs'[a] \in JobStates /\ Advances(jobs[a], jobs'[a]) /\ jobs'[a].got = jobs[a].got /\ JobFacts(a)'
  <2>1. jobs[a] \in JobStates /\ JobFacts(a) /\ jobs'[a] = IF a \in Tracked THEN [jobs[a] EXCEPT !.cancel = TRUE, !.tracked = FALSE] ELSE jobs[a]
    BY <1>2, TurnStart DEF FailInFlight
  <2>2. CASE ~jobs[a].tracked
    <3>1. jobs'[a] = jobs[a]
      BY <2>1, <2>2 DEF Tracked
    <3> QED BY <1>2, <2>1, <3>1 DEF Advances, JobFacts
  <2>3. CASE jobs[a].tracked
    <3>1. jobs'[a] = [jobs[a] EXCEPT !.cancel = TRUE, !.tracked = FALSE]
      BY <2>1, <2>3 DEF Tracked
    <3>2. /\ jobs'[a] \in JobStates /\ jobs'[a].st = jobs[a].st /\ jobs'[a].conn = jobs[a].conn /\ jobs'[a].asks = jobs[a].asks
          /\ jobs'[a].got = jobs[a].got /\ jobs'[a].cancel /\ ~jobs'[a].tracked /\ jobs'[a].status = jobs[a].status
      BY <2>1, <3>1 DEF JobStates
    <3>3. jobs[a].st \in {"running", "asking"}
      BY <2>1, <2>3 DEF JobFacts
    <3> QED BY <1>2, <2>1, <3>2, <3>3 DEF Advances, JobFacts
  <2> QED BY <2>2, <2>3
<1>7. jobs' \in [Attempts -> JobStates]
  BY <1>2, <1>6 DEF FailInFlight
<1>8. \A h \in Conns : Down(h)' = Down(h) /\ Up(h)' = Up(h) /\ wire'[h].up = wire[h].up /\ Quiet(h)
  BY <1>2, Untouched, StaysQuiet
<1>9. ConnectionFacts'
  BY <1>0, <1>1, <1>2, <1>4, <1>8 DEF ConnectionFacts
<1> QED BY <1>1, <1>2, <1>4, <1>5, <1>6, <1>7, <1>8, <1>9, DeviceStep

\* While a turn runs no tool call of it is under way.
LEMMA RunningHasNoCall ==
    ASSUME BridgeIInv, NEW a \in Attempts, jobs[a].st = "running"
    PROVE  Range(items[a]) \cap Calls(a) = {} /\ \A g \in Conns : Up(g) \cap Calls(a) = {}
<1>1. jobs[a].got = jobs[a].asks /\ jobs[a].got <= call[a].token /\ call[a].token <= jobs[a].asks
  BY FactsOf DEF JobFacts, ToolFacts, CallFacts
<1>2. jobs[a].asks \in Nat /\ call[a].token \in Nat
  BY Typed DEF BridgeIInv, JobStates, CallStates
<1>3. \A m : ~UnderWay(a, m)
  BY <1>1, <1>2 DEF UnderWay
<1> QED BY <1>3, FactsOf DEF CallFacts

\* A turn makes its next tool call, or cannot write it.
LEMMA AskStep == ASSUME BridgeIInv, NEW a \in Attempts, Ask(a), UNCHANGED serverVars PROVE BridgeIInv'
<1>1. jobs[a] \in JobStates /\ interrupted \subseteq Attempts /\ JobFacts(a)
  BY TurnStart
<1>2. jobs[a].st = "running" /\ UNCHANGED <<interrupted, late>>
  BY DEF Ask
<1>3. CASE /\ jobs' = [jobs EXCEPT ![a] = Leave(@, "failed")] /\ wire' = wire
           /\ device' = device \/ device' = [device EXCEPT !.ended = TRUE]
  <2> DEFINE j == Leave(jobs[a], "failed")
  <2>1. j \in JobStates /\ Advances(jobs[a], j) /\ j.got = jobs[a].got /\ j.st = "leaving" /\ ~j.tracked /\ j.status \in Statuses
    BY <1>1, <1>2 DEF JobStates, Advances, Leave, Statuses
  <2>2. jobs' = [jobs EXCEPT ![a] = j]
    BY <1>3
  <2>3. Report \in ToServer /\ Report.kind # "call" /\ \A b \in Attempts : Report # Frame("result", b, 0, "completed")
    BY Messages DEF Report, Frame
  <2> HIDE DEF j
  <2> QED BY <1>1, <1>2, <1>3, <2>1, <2>2, <2>3, TurnSpeaks
<1>4. CASE /\ wire' = Sent(jobs[a].conn, Frame("call", a, jobs[a].asks + 1, None)) /\ device' = device
           /\ jobs' = [jobs EXCEPT ![a].st = "asking", ![a].asks = @ + 1]
  <2>1. PICK g \in Conns : g = jobs[a].conn /\ session[g] # "none"
    BY <1>1, <1>2 DEF JobFacts
  <2>2. /\ wire \in Wires /\ device \in Devices /\ BridgeTypes /\ ConnectionFacts /\ session' = session
        /\ jobs \in [Attempts -> JobStates] /\ jobs[a].asks \in Nat /\ call[a].token \in Nat
        /\ (\A h \in Conns : h \in Nat) /\ device.conn \in Conns
    BY <1>1, Typed DEF BridgeIInv, BridgeTypes, serverVars, JobStates, CallStates
  <2>3. PICK n \in Nat : n = jobs[a].asks + 1
    BY <2>2
  <2>4. PICK m \in ToServer : m = Frame("call", a, n, None)
    BY Messages
  <2> DEFINE j == [jobs[a] EXCEPT !.st = "asking", !.asks = n]
  <2>5. m \in Calls(a) /\ m.call = n /\ \A b \in Attempts \ {a} : m \notin Calls(b)
    BY <2>4 DEF Calls, Frame
  <2>6. \A b \in Attempts : m # Frame("result", b, 0, "completed")
    BY <2>4 DEF Frame
  <2>7. jobs' = [jobs EXCEPT ![a] = j] /\ wire' = Sent(g, m)
    BY <1>4, <2>1, <2>3, <2>4
  <2>8. /\ j \in JobStates /\ j.st = "asking" /\ j.asks = n /\ j.got = jobs[a].got /\ j.conn = jobs[a].conn
        /\ j.tracked = jobs[a].tracked /\ j.cancel = jobs[a].cancel /\ j.status = jobs[a].status
    BY <1>1, <2>5 DEF JobStates
  <2> HIDE DEF j
  <2>9. jobs' \in [Attempts -> JobStates] /\ jobs'[a] = j /\ \A b \in Attempts \ {a} : jobs'[b] = jobs[b]
    BY <2>2, <2>7, <2>8
  <2>10. Range(items[a]) \cap Calls(a) = {} /\ \A h \in Conns : Up(h) \cap Calls(a) = {}
    BY <1>2, RunningHasNoCall
  <2>11. /\ wire' \in Wires
        /\ \A h \in Conns :
              /\ Down(h)' = Down(h) /\ wire'[h].up = wire[h].up /\ Orders(h)
              /\ Up(h)' = IF h = g /\ wire[g].up THEN Up(h) \union {m} ELSE Up(h)
    BY <2>2, <2>5, <2>7, <2>10, DeviceWrites
  <2>12. ConnectionFacts'
    BY <1>4, <2>1, <2>2, <2>11 DEF ConnectionFacts
  <2>13. SessionFacts' /\ RecordFacts' /\ BridgeTypes'
    BY <1>2, <1>4, <2>2, <2>9, <2>11 DEF BridgeIInv, serverVars, SessionFacts, RecordFacts, Open, BridgeTypes
  <2>14. ASSUME NEW b \in Attempts \ {a} PROVE AttemptFacts(b)'
    <3>1. Advances(jobs[b], jobs'[b]) /\ jobs'[b].got = jobs[b].got
      BY <2>9 DEF Advances
    <3>2. \A h \in Conns : QuietFor(h, b) /\ CancelStays(h, b) /\ Down(h)' \subseteq Down(h)
      BY <2>5, <2>6, <2>11 DEF QuietFor, CancelStays, Harmless
    <3>3. JobFacts(b)'
      BY <2>2, <2>9, FactsOf DEF JobFacts
    <3> QED BY <3>1, <3>2, <3>3, TurnAdvances, ToolsStay, CancelsStay DEF AttemptFacts
  <2>15. AttemptFacts(a)'
    <3>1. FreshFacts(a) /\ ExecuteFacts(a) /\ JobFacts(a) /\ CallFacts(a) /\ ToolFacts(a) /\ VerdictFacts(a) /\ CancelFacts(a)
      BY FactsOf
    <3>2. call' = call /\ pending' = pending /\ items' = items /\ outcome' = outcome
      BY DEF serverVars
    <3>3. FreshFacts(a)'
      BY <1>2, <3>1, <3>2 DEF FreshFacts, NoJob
    <3>4. ExecuteFacts(a)'
      <4>1. \A h \in Conns : Execute(a) \notin Down(h) /\ ExecuteFirst(h, a)
        BY <1>2, <3>1 DEF ExecuteFacts
      <4>2. \A h \in Conns : Execute(a) \notin Down(h)' /\ ExecuteFirst(h, a)'
        BY <4>1, <2>11 DEF Orders
      <4> QED BY <2>8, <2>9, <4>2 DEF ExecuteFacts
    <3>5. JobFacts(a)'
      BY <1>2, <2>1, <2>2, <2>8, <2>9, <3>1 DEF JobFacts
    <3>6. CallFacts(a)'
      <4>1. \A h \in Conns : OneCall(h, a)'
        BY <2>11, <3>1 DEF CallFacts, Orders
      <4>2. UnderWay(a, m)' /\ call'[a].token <= jobs'[a].asks
        <5>1. call[a].token <= jobs[a].asks /\ jobs'[a].asks = n /\ call'[a].token = call[a].token
          BY <2>8, <2>9, <3>1, <3>2 DEF CallFacts
        <5>2. call[a].token < n /\ call[a].token <= n
          BY <2>2, <2>3, <5>1
        <5> QED BY <2>5, <5>1, <5>2 DEF UnderWay
      <4>3. \A h \in Conns : \A k \in Up(h)' \cap Calls(a) : k = m /\ h = g
        BY <2>10, <2>11
      <4>4. \A h \in Conns : \A k \in Up(h)' \cap Calls(a) : UnderWay(a, k)' /\ h = jobs'[a].conn
        BY <2>1, <2>8, <2>9, <4>2, <4>3
      <4>5. Range(items'[a]) \cap Calls(a) = {} /\ items'[a] = items[a] /\ call'[a] = call[a]
        BY <2>10, <3>2
      <4> QED BY <3>1, <4>1, <4>2, <4>4, <4>5 DEF CallFacts
    <3>7. ToolFacts(a)'
      BY <2>8, <2>9, <2>11, <3>1, <3>2 DEF ToolFacts
    <3>8. VerdictFacts(a)'
      BY <1>2, <2>6, <2>11, <3>1, <3>2 DEF VerdictFacts, Done
    <3>9. CancelFacts(a)'
      <4>1. GivenUp(a)' <=> GivenUp(a)
        BY <3>2 DEF GivenUp
      <4>2. \A h \in Conns : ResultIn(h, a) => ResultIn(h, a)'
        BY <2>11 DEF ResultIn
      <4> QED BY <1>2, <2>8, <2>9, <2>11, <3>1, <3>2, <4>1, <4>2 DEF CancelFacts, serverVars
    <3> QED BY <3>3, <3>4, <3>5, <3>6, <3>7, <3>8, <3>9 DEF AttemptFacts
  <2> QED BY <2>12, <2>13, <2>14, <2>15 DEF BridgeIInv
<1> QED BY <1>3, <1>4 DEF Ask

-----------------------------------------------------------------------------
(* The frames the device reads: what it may answer, and a cancel. *)

\* The device reads an attempt and answers it at once: the message has left the queue whether the answer is written or not.
LEMMA DeviceAnswers ==
    ASSUME wire \in Wires, NEW g \in Conns, wire[g].toDevice # <<>>, NEW m \in ToServer, \A a \in Attempts : m \notin Calls(a),
           wire' = [[wire EXCEPT ![g].toDevice = Tail(@)] EXCEPT ![g].toServer = IF wire[g].up THEN Append(@, m) ELSE @]
    PROVE  /\ wire' \in Wires
           /\ \A h \in Conns \ {g} : wire'[h] = wire[h]
           /\ Up(g)' = (IF wire[g].up THEN Up(g) \union {m} ELSE Up(g)) /\ wire'[g].up = wire[g].up /\ Orders(g)
           /\ Head(wire[g].toDevice) \in ToDevice /\ Down(g) = {Head(wire[g].toDevice)} \union Down(g)'
           /\ \A a \in Attempts : ExecuteFirst(g, a) /\ Head(wire[g].toDevice) \in To(a) => Execute(a) \notin Down(g)'
<1> DEFINE q == wire[g].toDevice
           r == wire[g].toServer
           s == IF wire[g].up THEN Append(r, m) ELSE r
<1>1. q \in Seq(ToDevice) /\ r \in Seq(ToServer) /\ wire[g] \in [toDevice : Seq(ToDevice), toServer : Seq(ToServer), up : BOOLEAN]
  BY DEF Wires
<1>2. /\ Tail(q) \in Seq(ToDevice) /\ Head(q) \in ToDevice /\ Range(q) = {Head(q)} \union Range(Tail(q))
      /\ \A K, L : Before(q, K, L) => Before(Tail(q), K, L) /\ (Head(q) \in L => Range(Tail(q)) \cap K = {})
  BY <1>1, Taken
<1>3. /\ Append(r, m) \in Seq(ToServer) /\ Range(Append(r, m)) = Range(r) \union {m}
      /\ \A K, L : Before(r, K, L) /\ (m \in K => Range(r) \cap L = {}) => Before(Append(r, m), K, L)
  BY <1>1, Appended
<1>4. s \in Seq(ToServer) /\ Range(s) = (IF wire[g].up THEN Range(r) \union {m} ELSE Range(r))
      /\ \A a \in Attempts : Before(r, Calls(a), Calls(a)) => Before(s, Calls(a), Calls(a))
  BY <1>1, <1>3
<1>5. wire'[g] = [[wire[g] EXCEPT !.toDevice = Tail(q)] EXCEPT !.toServer = s] /\ \A h \in Conns \ {g} : wire'[h] = wire[h]
  BY DEF Wires
<1>6. wire'[g] \in [toDevice : Seq(ToDevice), toServer : Seq(ToServer), up : BOOLEAN]
      /\ wire'[g].toDevice = Tail(q) /\ wire'[g].toServer = s /\ wire'[g].up = wire[g].up
  <2> DEFINE v == [wire[g] EXCEPT !.toDevice = Tail(q)]
  <2> HIDE DEF s
  <2>1. /\ v \in [toDevice : Seq(ToDevice), toServer : Seq(ToServer), up : BOOLEAN]
        /\ v.toDevice = Tail(q) /\ v.toServer = r /\ v.up = wire[g].up
    BY <1>1, <1>2
  <2>2. wire'[g] = [v EXCEPT !.toServer = s]
    BY <1>5
  <2> HIDE DEF v
  <2> QED BY <1>4, <2>1, <2>2
<1>7. wire' \in Wires
  <2>1. wire' = [wire EXCEPT ![g] = wire'[g]]
    BY <1>5 DEF Wires
  <2> QED BY <1>6, <2>1 DEF Wires
<1>8. Up(g)' = (IF wire[g].up THEN Up(g) \union {m} ELSE Up(g)) /\ Down(g) = {Head(q)} \union Down(g)'
  <2> HIDE DEF s
  <2> QED BY <1>2, <1>4, <1>6 DEF Down, Up
<1>9. Orders(g)
  <2> HIDE DEF s
  <2>1. \A a \in Attempts : ExecuteFirst(g, a) => ExecuteFirst(g, a)'
    BY <1>2, <1>6 DEF ExecuteFirst
  <2>2. \A a \in Attempts : OneCall(g, a) => OneCall(g, a)'
    BY <1>4, <1>6 DEF OneCall
  <2> QED BY <2>1, <2>2 DEF Orders
<1>10. \A a \in Attempts : ExecuteFirst(g, a) /\ Head(q) \in To(a) => Execute(a) \notin Down(g)'
  BY <1>2, <1>6 DEF ExecuteFirst, Down
<1> QED BY <1>2, <1>5, <1>6, <1>7, <1>8, <1>9, <1>10

\* The run loop reads one message: what is left is as it was, and what the device may have answered is no tool call.
Reads(g, m, answers) ==
    /\ wire' \in Wires
    /\ \A h \in Conns \ {g} : wire'[h] = wire[h]
    /\ wire'[g].up = wire[g].up /\ Up(g)' = (IF wire[g].up THEN Up(g) \union answers ELSE Up(g)) /\ Orders(g)
    /\ m \in ToDevice /\ Down(g) = {m} \union Down(g)'
    /\ \A a \in Attempts : ExecuteFirst(g, a) /\ m \in To(a) => Execute(a) \notin Down(g)'

\* Reading a frame, whatever it is answered with, leaves the connections one after the other.
LEMMA ReadingConnections ==
    ASSUME BridgeIInv, NEW g \in Conns, g = device.conn, device.phase = "reading", NEW m, NEW answers, Reads(g, m, answers),
           device' = LoopTop(device), session' = session
    PROVE  device' \in Devices /\ ConnectionFacts' /\ session[g] # "none"
<1>1. /\ wire \in Wires /\ device \in Devices /\ BridgeTypes
      /\ g \in Nat /\ (\A h \in Conns : h \in Nat) /\ MaxTries \in Nat /\ ConnectionFacts
  BY LoopStart
<1>2. device' \in Devices /\ device'.phase \in {"reading", "leaving"} /\ device'.conn = g /\ device'.stop = device.stop
  BY <1>1 DEF LoopTop, Devices, Phases
<1>3. session[g] # "none"
  BY <1>1 DEF ConnectionFacts
<1>4. \A h \in Conns \ {g} : Down(h)' = Down(h) /\ Up(h)' = Up(h) /\ wire'[h].up = wire[h].up
  BY Untouched DEF Reads
<1>5. wire'[g].up = wire[g].up
  BY DEF Reads
<1>6. ConnectionFacts'
  BY <1>1, <1>2, <1>3, <1>4, <1>5 DEF ConnectionFacts
<1> QED BY <1>2, <1>3, <1>6

\* A read that neither takes an execute or a cancel of an attempt nor answers for it is quiet as far as it is concerned.
LEMMA ReadsQuietly ==
    ASSUME NEW g \in Conns, NEW m, NEW answers, Reads(g, m, answers), NEW a \in Attempts, \A n \in answers : Harmless(n, a)
    PROVE  \A h \in Conns : /\ Down(h)' \subseteq Down(h)
                            /\ m # Execute(a) => QuietFor(h, a)
                            /\ m # Cancel(a) => CancelStays(h, a)
<1>1. \A h \in Conns \ {g} : Down(h)' = Down(h) /\ Up(h)' = Up(h) /\ wire'[h].up = wire[h].up /\ Orders(h)
  BY Untouched DEF Reads
<1> QED BY <1>1 DEF Reads, QuietFor, CancelStays

\* A cancel reaches the turn that is tracked; every other turn has been cancelled or is leaving.
LEMMA CancelRead ==
    ASSUME BridgeIInv, NEW g \in Conns, g = device.conn, NEW a \in Attempts, Reads(g, Cancel(a), {}), UNCHANGED serverVars,
           jobs' = [jobs EXCEPT ![a] = Signalled(@, Cancel(a))]
    PROVE  jobs' \in [Attempts -> JobStates] /\ \A b \in Attempts : AttemptFacts(b)'
<1>1. jobs \in [Attempts -> JobStates] /\ session' = session
  BY DEF BridgeIInv, BridgeTypes, serverVars
<1>2. jobs[a] \in JobStates /\ JobFacts(a)
  BY TurnStart
<1>3. /\ jobs'[a] \in JobStates /\ Advances(jobs[a], jobs'[a]) /\ jobs'[a].got = jobs[a].got /\ jobs'[a].st = jobs[a].st
      /\ jobs'[a].tracked = jobs[a].tracked /\ jobs'[a].status = jobs[a].status
      /\ jobs[a].st # "none" => jobs'[a].cancel \/ jobs'[a].st \in {"leaving", "over"}
      /\ jobs[a].tracked => jobs'[a].cancel
      /\ ~jobs[a].tracked => jobs'[a] = jobs[a]
  <2>1. CASE jobs[a].tracked
    <3>1. jobs'[a] = [jobs[a] EXCEPT !.cancel = TRUE]
      BY <1>1, <2>1 DEF Signalled, Cancel, Frame
    <3>2. jobs[a].st # "none"
      BY <1>2, <2>1 DEF JobFacts
    <3>3. /\ jobs'[a] \in JobStates /\ jobs'[a].st = jobs[a].st /\ jobs'[a].conn = jobs[a].conn /\ jobs'[a].asks = jobs[a].asks
          /\ jobs'[a].got = jobs[a].got /\ jobs'[a].cancel /\ jobs'[a].tracked = jobs[a].tracked /\ jobs'[a].status = jobs[a].status
      <4>1. [jobs[a] EXCEPT !.cancel = TRUE] \in JobStates
        BY <1>2 DEF JobStates
      <4> QED BY <1>2, <3>1, <4>1 DEF JobStates
    <3> QED BY <2>1, <3>2, <3>3 DEF Advances
  <2>2. CASE ~jobs[a].tracked
    <3>1. jobs'[a] = jobs[a]
      BY <1>1, <2>2 DEF Signalled
    <3>2. jobs[a].st # "none" => jobs[a].cancel \/ jobs[a].st \in {"leaving", "over"}
      BY <1>2, <2>2 DEF JobFacts, JobStates
    <3> QED BY <1>2, <2>2, <3>1, <3>2 DEF Advances
  <2> QED BY <2>1, <2>2
<1>4. \A b \in Attempts \ {a} : jobs'[b] = jobs[b]
  BY <1>1
<1>5. jobs' \in [Attempts -> JobStates]
  BY <1>1, <1>3
<1>6. \A b \in Attempts : Advances(jobs[b], jobs'[b]) /\ jobs'[b].got = jobs[b].got
  BY <1>3, <1>4 DEF Advances
<1>7. \A b \in Attempts : Cancel(a) # Execute(b) /\ (b # a => Cancel(a) # Cancel(b))
  BY DEF Cancel, Execute, Frame
<1>8. ASSUME NEW b \in Attempts PROVE FreshFacts(b)' /\ ExecuteFacts(b)' /\ CallFacts(b)' /\ VerdictFacts(b)' /\ ToolFacts(b)'
  <2>1. \A h \in Conns : QuietFor(h, b) /\ Down(h)' \subseteq Down(h)
    BY <1>7, ReadsQuietly
  <2> QED BY <1>6, <2>1, TurnAdvances, ToolsStay
<1>9. ASSUME NEW b \in Attempts PROVE JobFacts(b)'
  <2>1. CASE b = a
    BY <1>1, <1>2, <1>3, <2>1 DEF JobFacts, Advances
  <2>2. CASE b # a
    BY <1>1, <1>4, <2>2, FactsOf DEF JobFacts
  <2> QED BY <2>1, <2>2
<1>10. ASSUME NEW b \in Attempts PROVE CancelFacts(b)'
  <2>1. CASE b # a
    <3>1. \A h \in Conns : QuietFor(h, b) /\ CancelStays(h, b)
      BY <1>7, <2>1, ReadsQuietly
    <3> QED BY <1>6, <3>1, CancelsStay
  <2>2. CASE b = a
    <3>1. CASE jobs[a].st # "none"
      BY <1>3, <2>2, <3>1 DEF CancelFacts
    <3>2. CASE jobs[a].st = "none"
      <4> SUFFICES ASSUME NEW h \in Conns, a \in pending[h], wire'[h].up PROVE Cancel(a) \in Down(h)' \/ ResultIn(h, a)'
        BY <1>3, <2>2, <3>2 DEF CancelFacts, serverVars
      <4>1. h = g /\ wire[g].up
        <5>1. \A k \in Conns : wire'[k].up = wire[k].up
          BY DEF Reads
        <5> QED BY <5>1 DEF BridgeIInv, ConnectionFacts
      <4>2. Execute(a) \in Down(g) \/ ResultIn(g, a)
        BY <3>2, <4>1, FactsOf DEF ExecuteFacts
      <4>3. Execute(a) \notin Down(g)
        <5>1. Cancel(a) \in To(a)
          BY Messages DEF To, Cancel, Frame
        <5>2. Execute(a) \notin Down(g)'
          BY <5>1, FactsOf DEF Reads, ExecuteFacts
        <5> QED BY <1>7, <5>2 DEF Reads
      <4>4. ResultIn(g, a)'
        BY <4>1, <4>2, <4>3 DEF ResultIn, Reads
      <4> QED BY <4>1, <4>4
    <3> QED BY <3>1, <3>2
  <2> QED BY <2>1, <2>2
<1> QED BY <1>5, <1>8, <1>9, <1>10 DEF AttemptFacts

-----------------------------------------------------------------------------
(* The frames the device reads: a tool result, an execute. *)

\* A tool result reaches the call that waits for it, and is the one its client holds.
LEMMA ToolRead ==
    ASSUME BridgeIInv, NEW g \in Conns, g = device.conn, NEW a \in Attempts, NEW m \in ToDevice, m.kind = "tool", m.attempt = a,
           Reads(g, m, {}), UNCHANGED serverVars, jobs' = [jobs EXCEPT ![a] = Signalled(@, m)]
    PROVE  jobs' \in [Attempts -> JobStates] /\ \A b \in Attempts : AttemptFacts(b)'
<1>1. jobs \in [Attempts -> JobStates] /\ session' = session /\ call' = call
  BY DEF BridgeIInv, BridgeTypes, serverVars
<1>2. jobs[a] \in JobStates /\ JobFacts(a) /\ m \in Down(g) /\ m.call \in Nat
  BY TurnStart, DeviceMessage DEF Reads
<1>3. /\ jobs'[a] \in JobStates /\ Advances(jobs[a], jobs'[a]) /\ jobs'[a].st = jobs[a].st
      /\ jobs'[a].tracked = jobs[a].tracked /\ jobs'[a].status = jobs[a].status /\ jobs'[a].cancel = jobs[a].cancel
      /\ jobs'[a].got = jobs[a].got \/ (jobs[a].st = "asking" /\ jobs'[a].got = m.call)
  <2>1. CASE jobs[a].tracked /\ jobs[a].st = "asking" /\ jobs[a].asks = m.call
    <3>1. jobs'[a] = [jobs[a] EXCEPT !.got = m.call]
      BY <1>1, <2>1 DEF Signalled
    <3>2. [jobs[a] EXCEPT !.got = m.call] \in JobStates
      BY <1>2 DEF JobStates
    <3>3. /\ jobs'[a] \in JobStates /\ jobs'[a].st = jobs[a].st /\ jobs'[a].conn = jobs[a].conn /\ jobs'[a].asks = jobs[a].asks
          /\ jobs'[a].got = m.call /\ jobs'[a].cancel = jobs[a].cancel /\ jobs'[a].tracked = jobs[a].tracked /\ jobs'[a].status = jobs[a].status
      BY <1>2, <3>1, <3>2 DEF JobStates
    <3> QED BY <2>1, <3>3 DEF Advances
  <2>2. CASE ~(jobs[a].tracked /\ jobs[a].st = "asking" /\ jobs[a].asks = m.call)
    <3>1. jobs'[a] = jobs[a]
      BY <1>1, <2>2 DEF Signalled
    <3> QED BY <1>2, <3>1 DEF Advances
  <2> QED BY <2>1, <2>2
<1>4. \A b \in Attempts \ {a} : jobs'[b] = jobs[b]
  BY <1>1
<1>5. jobs' \in [Attempts -> JobStates]
  BY <1>1, <1>3
<1>6. \A b \in Attempts : Advances(jobs[b], jobs'[b])
  BY <1>3, <1>4 DEF Advances
<1>7. \A b \in Attempts : m # Execute(b) /\ m # Cancel(b)
  BY DEF Cancel, Execute, Frame
<1>8. \A b \in Attempts, h \in Conns : QuietFor(h, b) /\ CancelStays(h, b) /\ Down(h)' \subseteq Down(h)
  BY <1>7, ReadsQuietly
<1>9. \A b \in Attempts : FreshFacts(b)' /\ ExecuteFacts(b)' /\ CallFacts(b)' /\ VerdictFacts(b)' /\ CancelFacts(b)'
  BY <1>6, <1>8, TurnAdvances, CancelsStay
<1>10. ASSUME NEW b \in Attempts PROVE JobFacts(b)'
  <2>1. CASE b = a
    BY <1>1, <1>2, <1>3, <2>1 DEF JobFacts, Advances
  <2>2. CASE b # a
    BY <1>1, <1>4, <2>2, FactsOf DEF JobFacts
  <2> QED BY <2>1, <2>2
<1>11. ASSUME NEW b \in Attempts PROVE ToolFacts(b)'
  <2>1. CASE jobs'[b].got = jobs[b].got
    BY <1>8, <2>1, ToolsStay
  <2>2. CASE b = a /\ jobs'[a].got = m.call
    <3>1. m.call <= call[a].token /\ (call[a].at \in {"suspended", "delivering", "lost"} => m.call < call[a].token)
      BY <1>2, FactsOf DEF ToolFacts
    <3> QED BY <1>1, <1>8, <2>2, <3>1, FactsOf DEF ToolFacts
  <2> QED BY <1>3, <1>4, <2>1, <2>2
<1> QED BY <1>5, <1>9, <1>10, <1>11 DEF AttemptFacts

\* An execute starts a turn.
LEMMA TurnStarts ==
    ASSUME BridgeIInv, NEW g \in Conns, session[g] # "none", NEW a \in Attempts, Reads(g, Execute(a), {}), UNCHANGED serverVars,
           jobs' = [jobs EXCEPT ![a] = [NoJob EXCEPT !.st = "running", !.conn = g, !.tracked = TRUE]]
    PROVE  jobs' \in [Attempts -> JobStates] /\ \A b \in Attempts : AttemptFacts(b)'
<1>1. /\ jobs \in [Attempts -> JobStates] /\ session' = session /\ call' = call /\ pending' = pending /\ items' = items
      /\ outcome' = outcome /\ g \in Nat /\ call[a] \in CallStates
  BY Typed DEF BridgeIInv, BridgeTypes, serverVars
<1>2. /\ FreshFacts(a) /\ ExecuteFacts(a) /\ JobFacts(a) /\ CallFacts(a) /\ ToolFacts(a) /\ VerdictFacts(a) /\ CancelFacts(a)
      /\ Execute(a) \in Down(g) /\ Execute(a) \in To(a)
  BY FactsOf, Messages DEF Reads, To, Execute, Frame
<1>3. jobs[a] = NoJob
  BY <1>2 DEF ExecuteFacts, JobFacts
<1>4. /\ jobs'[a] \in JobStates /\ jobs'[a].st = "running" /\ jobs'[a].conn = g /\ jobs'[a].tracked /\ ~jobs'[a].cancel
      /\ jobs'[a].asks = 0 /\ jobs'[a].got = 0
  <2>1. jobs'[a] = [NoJob EXCEPT !.st = "running", !.conn = g, !.tracked = TRUE]
    BY <1>1
  <2> QED BY <1>1, <2>1 DEF NoJob, JobStates
<1>5. jobs[a].asks = 0 /\ jobs[a].got = 0 /\ jobs[a].st = "none" /\ ~jobs[a].cancel
  BY <1>3 DEF NoJob
<1>6. \A b \in Attempts \ {a} : jobs'[b] = jobs[b]
  BY <1>1
<1>7. jobs' \in [Attempts -> JobStates]
  BY <1>1, <1>4
<1>8. ASSUME NEW b \in Attempts \ {a} PROVE AttemptFacts(b)'
  <2>1. Advances(jobs[b], jobs'[b]) /\ jobs'[b].got = jobs[b].got
    BY <1>6 DEF Advances
  <2>2. Execute(a) # Execute(b) /\ Execute(a) # Cancel(b)
    BY DEF Execute, Cancel, Frame
  <2>3. \A h \in Conns : QuietFor(h, b) /\ CancelStays(h, b) /\ Down(h)' \subseteq Down(h)
    BY <2>2, ReadsQuietly
  <2>4. JobFacts(b)'
    BY <1>1, <1>6, FactsOf DEF JobFacts
  <2> QED BY <2>1, <2>3, <2>4, TurnAdvances, ToolsStay, CancelsStay DEF AttemptFacts
<1>9. \A h \in Conns \ {g} : Down(h)' = Down(h) /\ Up(h)' = Up(h) /\ wire'[h].up = wire[h].up /\ Orders(h)
  BY Untouched DEF Reads
<1>10. Up(g)' = Up(g) /\ wire'[g].up = wire[g].up /\ Orders(g) /\ Down(g) = {Execute(a)} \union Down(g)'
  BY DEF Reads
<1>11. AttemptFacts(a)'
  <2>1. FreshFacts(a)'
    BY <1>1, <1>2 DEF FreshFacts
  <2>2. ExecuteFacts(a)'
    <3>1. \A h \in Conns : Execute(a) \notin Down(h)' /\ ExecuteFirst(h, a)'
      BY <1>2, <1>9, <1>10 DEF ExecuteFacts, Reads, Orders
    <3> QED BY <1>4, <3>1 DEF ExecuteFacts
  <2>3. JobFacts(a)'
    BY <1>1, <1>4 DEF JobFacts
  <2>4. CallFacts(a)'
    <3>1. \A m : ~UnderWay(a, m)
      BY <1>1, <1>5 DEF UnderWay, CallStates
    <3>2. \A h \in Conns : OneCall(h, a)' /\ Up(h)' \cap Calls(a) = {}
      BY <1>2, <1>9, <1>10, <3>1 DEF CallFacts, Orders
    <3>3. Range(items[a]) \cap Calls(a) = {}
      BY <1>2, <3>1 DEF CallFacts
    <3> QED BY <1>1, <1>2, <1>4, <1>5, <3>2, <3>3 DEF CallFacts
  <2>5. ToolFacts(a)'
    BY <1>1, <1>2, <1>4, <1>5, <1>9, <1>10 DEF ToolFacts
  <2>6. VerdictFacts(a)'
    BY <1>1, <1>2, <1>5, <1>9, <1>10 DEF VerdictFacts, Done
  <2>7. CancelFacts(a)'
    <3>1. Cancel(a) # Execute(a) /\ (GivenUp(a)' <=> GivenUp(a)) /\ \A h \in Conns : ResultIn(h, a)' <=> ResultIn(h, a)
      BY <1>1, <1>9, <1>10 DEF Cancel, Execute, Frame, GivenUp, ResultIn
    <3>2. \A h \in Conns : Cancel(a) \in Down(h) => Cancel(a) \in Down(h)'
      BY <1>9, <1>10, <3>1
    <3> QED BY <1>1, <1>2, <1>5, <1>9, <1>10, <3>1, <3>2 DEF CancelFacts, serverVars
  <2> QED BY <2>1, <2>2, <2>3, <2>4, <2>5, <2>6, <2>7 DEF AttemptFacts
<1> QED BY <1>7, <1>8, <1>11

\* Beyond its bound the device answers an execute at once.
LEMMA TurnRefused ==
    ASSUME BridgeIInv, NEW g \in Conns, NEW a \in Attempts, Reads(g, Execute(a), {Frame("result", a, 0, "failed")}),
           UNCHANGED serverVars, jobs' = jobs
    PROVE  \A b \in Attempts : AttemptFacts(b)'
<1> DEFINE m == Frame("result", a, 0, "failed")
<1>1. /\ session' = session /\ call' = call /\ pending' = pending /\ items' = items /\ outcome' = outcome
  BY DEF serverVars
<1>2. /\ FreshFacts(a) /\ ExecuteFacts(a) /\ JobFacts(a) /\ CallFacts(a) /\ ToolFacts(a) /\ VerdictFacts(a) /\ CancelFacts(a)
      /\ Execute(a) \in Down(g) /\ Execute(a) \in To(a)
  BY FactsOf, Messages DEF Reads, To, Execute, Frame
<1>3. \A b \in Attempts : m \notin Calls(b) /\ m # Frame("result", b, 0, "completed") /\ Harmless(m, b)
  BY DEF Harmless, Calls, Frame
<1>4. \A b \in Attempts : JobFacts(b)' /\ Advances(jobs[b], jobs'[b]) /\ jobs'[b].got = jobs[b].got
  BY <1>1, FactsOf DEF JobFacts, Advances
<1>5. ASSUME NEW b \in Attempts \ {a} PROVE AttemptFacts(b)'
  <2>1. Execute(a) # Execute(b) /\ Execute(a) # Cancel(b)
    BY DEF Execute, Cancel, Frame
  <2>2. \A h \in Conns : QuietFor(h, b) /\ CancelStays(h, b) /\ Down(h)' \subseteq Down(h)
    BY <1>3, <2>1, ReadsQuietly
  <2> QED BY <1>4, <2>2, TurnAdvances, ToolsStay, CancelsStay DEF AttemptFacts
<1>6. \A h \in Conns \ {g} : Down(h)' = Down(h) /\ Up(h)' = Up(h) /\ wire'[h].up = wire[h].up /\ Orders(h)
  BY Untouched DEF Reads
<1>7. /\ Up(g)' = (IF wire[g].up THEN Up(g) \union {m} ELSE Up(g)) /\ wire'[g].up = wire[g].up /\ Orders(g)
      /\ Down(g) = {Execute(a)} \union Down(g)'
  BY DEF Reads
<1>8. AttemptFacts(a)'
  <2>1. FreshFacts(a)'
    BY <1>1, <1>2 DEF FreshFacts
  <2>2. \A h \in Conns : (ResultIn(h, a) => ResultIn(h, a)') /\ (h = g /\ wire[g].up => ResultIn(h, a)')
    <3>1. m.kind = "result" /\ m.attempt = a
      BY DEF Frame
    <3> HIDE DEF m
    <3>2. \A h \in Conns : Up(h) \subseteq Up(h)' /\ (h = g /\ wire[g].up => m \in Up(h)')
      BY <1>6, <1>7
    <3> QED BY <3>1, <3>2 DEF ResultIn
  <2>3. ExecuteFacts(a)'
    <3>1. \A h \in Conns : Execute(a) \notin Down(h)' /\ ExecuteFirst(h, a)'
      BY <1>2, <1>6, <1>7 DEF ExecuteFacts, Reads, Orders
    <3>2. \A h \in Conns : a \in pending[h] /\ wire'[h].up => ResultIn(h, a)'
      BY <1>2, <1>6, <1>7, <2>2 DEF ExecuteFacts
    <3> QED BY <1>1, <3>1, <3>2 DEF ExecuteFacts
  <2>4. CallFacts(a)'
    <3>1. \A h \in Conns : OneCall(h, a)' /\ Up(h)' \cap Calls(a) = Up(h) \cap Calls(a)
      BY <1>2, <1>3, <1>6, <1>7 DEF CallFacts, Orders
    <3>2. \A k : UnderWay(a, k)' <=> UnderWay(a, k)
      BY <1>1 DEF UnderWay
    <3> QED BY <1>1, <1>2, <3>1, <3>2 DEF CallFacts
  <2>5. ToolFacts(a)'
    BY <1>1, <1>2, <1>6, <1>7 DEF ToolFacts
  <2>6. VerdictFacts(a)'
    BY <1>1, <1>2, <1>3, <1>6, <1>7 DEF VerdictFacts, Done
  <2>7. CancelFacts(a)'
    <3>1. Cancel(a) # Execute(a) /\ (GivenUp(a)' <=> GivenUp(a))
      BY <1>1 DEF Cancel, Execute, Frame, GivenUp
    <3>2. \A h \in Conns : Cancel(a) \in Down(h) => Cancel(a) \in Down(h)'
      BY <1>6, <1>7, <3>1
    <3> QED BY <1>1, <1>2, <1>6, <1>7, <2>2, <3>1, <3>2 DEF CancelFacts, serverVars
  <2> QED BY <1>4, <2>1, <2>3, <2>4, <2>5, <2>6, <2>7 DEF AttemptFacts
<1> QED BY <1>5, <1>8

\* The device reads one frame and acts on it (_dispatch).
LEMMA DispatchStep == ASSUME BridgeIInv, Dispatch, UNCHANGED serverVars PROVE BridgeIInv'
<1>0. PICK g \in Conns : g = device.conn
  BY Typed DEF BridgeIInv
<1>1. /\ wire \in Wires /\ interrupted \subseteq Attempts /\ jobs \in [Attempts -> JobStates] /\ BridgeTypes
      /\ wire[g].toDevice # <<>> /\ device.phase = "reading" /\ device' = LoopTop(device) /\ UNCHANGED <<late, session>>
  BY <1>0, Typed DEF BridgeIInv, BridgeTypes, Dispatch, serverVars
<1>2. PICK m \in ToDevice : m = Head(wire[g].toDevice)
  <2>1. wire[g].toDevice \in Seq(ToDevice)
    BY <1>1, Typed
  <2> QED BY <1>1, <2>1, Taken
<1>3. SessionFacts' /\ RecordFacts'
  BY DEF BridgeIInv, serverVars, SessionFacts, RecordFacts, Open
<1>4. ASSUME NEW answers, Reads(g, m, answers), jobs' \in [Attempts -> JobStates], interrupted' \subseteq Attempts,
             \A b \in Attempts : AttemptFacts(b)'
      PROVE  BridgeIInv'
  <2>1. device' \in Devices /\ ConnectionFacts'
    BY <1>0, <1>1, <1>4, ReadingConnections
  <2>2. BridgeTypes'
    BY <1>1, <1>4, <2>1 DEF BridgeTypes, serverVars, Reads
  <2> QED BY <1>3, <1>4, <2>1, <2>2 DEF BridgeIInv
<1>5. session[g] # "none"
  BY <1>0, <1>1 DEF BridgeIInv, ConnectionFacts
<1>6. CASE m.kind = "execute"
  <2>1. PICK a \in Attempts : m = Execute(a) /\ m.attempt = a
    BY <1>2, <1>6, DeviceMessage
  <2>2. StartExecution(a)
    BY <1>0, <1>2, <1>6, <2>1 DEF Dispatch
  <2>3. CASE /\ jobs' = [jobs EXCEPT ![a] = [NoJob EXCEPT !.st = "running", !.conn = g, !.tracked = TRUE]]
             /\ wire' = [wire EXCEPT ![g].toDevice = Tail(@)] /\ interrupted' = interrupted
    <3>1. Reads(g, m, {})
      BY <1>1, <1>2, <2>3, DeviceReads DEF Reads
    <3>2. jobs' \in [Attempts -> JobStates] /\ \A b \in Attempts : AttemptFacts(b)'
      BY <1>5, <2>1, <2>3, <3>1, TurnStarts
    <3> QED BY <1>1, <1>4, <2>3, <3>1, <3>2
  <2>4. CASE /\ wire' = [[wire EXCEPT ![g].toDevice = Tail(@)] EXCEPT ![g].toServer =
                    IF wire[g].up THEN Append(@, Frame("result", a, 0, "failed")) ELSE @]
             /\ interrupted' \subseteq Attempts /\ jobs' = jobs
    <3>1. Frame("result", a, 0, "failed") \in ToServer /\ \A b \in Attempts : Frame("result", a, 0, "failed") \notin Calls(b)
      BY Messages DEF Statuses, Calls, Frame
    <3>2. Reads(g, m, {Frame("result", a, 0, "failed")})
      BY <1>1, <1>2, <2>4, <3>1, DeviceAnswers DEF Reads
    <3>3. \A b \in Attempts : AttemptFacts(b)'
      BY <2>1, <2>4, <3>2, TurnRefused
    <3> QED BY <1>1, <1>4, <2>4, <3>2, <3>3
  <2> QED BY <1>0, <1>1, <2>2, <2>3, <2>4 DEF StartExecution
<1>7. CASE m.kind # "execute"
  <2>1. /\ jobs' = [jobs EXCEPT ![m.attempt] = Signalled(@, m)] /\ interrupted' = interrupted
        /\ wire' = [wire EXCEPT ![g].toDevice = Tail(@)]
    BY <1>0, <1>2, <1>7 DEF Dispatch
  <2>2. Reads(g, m, {})
    BY <1>1, <1>2, <2>1, DeviceReads DEF Reads
  <2>3. CASE m.kind \in {"ack", "denied"}
    <3>1. m.attempt \notin Attempts
      BY <2>3, <1>2, DeviceMessage, BridgeAssumption
    <3>2. jobs' = jobs
      BY <1>1, <2>1, <3>1
    <3>3. \A b \in Attempts : Advances(jobs[b], jobs'[b]) /\ jobs'[b].got = jobs[b].got /\ JobFacts(b)'
      BY <1>1, <3>2, FactsOf DEF Advances, JobFacts
    <3>4. \A b \in Attempts : m # Execute(b) /\ m # Cancel(b)
      BY <2>3 DEF Execute, Cancel, Frame
    <3>5. \A b \in Attempts, h \in Conns : QuietFor(h, b) /\ CancelStays(h, b) /\ Down(h)' \subseteq Down(h)
      BY <2>2, <3>4, ReadsQuietly
    <3>6. \A b \in Attempts : AttemptFacts(b)'
      BY <3>3, <3>5, TurnAdvances, ToolsStay, CancelsStay DEF AttemptFacts
    <3> QED BY <1>1, <1>4, <2>1, <2>2, <3>2, <3>6
  <2>4. CASE m.kind = "cancel"
    <3>1. PICK a \in Attempts : m = Cancel(a) /\ m.attempt = a
      BY <1>2, <2>4, DeviceMessage
    <3>2. jobs' \in [Attempts -> JobStates] /\ \A b \in Attempts : AttemptFacts(b)'
      BY <1>0, <2>1, <2>2, <3>1, CancelRead
    <3> QED BY <1>1, <1>4, <2>1, <2>2, <3>2
  <2>5. CASE m.kind = "tool"
    <3>1. PICK a \in Attempts : m.attempt = a
      BY <1>2, <2>5, DeviceMessage
    <3>2. jobs' \in [Attempts -> JobStates] /\ \A b \in Attempts : AttemptFacts(b)'
      BY <1>0, <2>1, <2>2, <2>5, <3>1, ToolRead
    <3> QED BY <1>1, <1>4, <2>1, <2>2, <3>2
  <2> QED BY <1>2, <1>7, <2>3, <2>4, <2>5, DeviceMessage
<1> QED BY <1>6, <1>7

-----------------------------------------------------------------------------
(* The row that is chosen, and the steps of a call. *)

\* A set of numbers that is not empty has a least one.
LEMMA LeastExists == ASSUME NEW S \in SUBSET Nat, S # {} PROVE Min(S) \in S /\ \A y \in S : Min(S) <= y
<1> DEFINE Below(x) == {y \in S : y <= x}
           Belows == {Below(x) : x \in S}
<1>1. \A x \in S : Below(x) \subseteq 0 .. x
  <2> TAKE x \in S
  <2> SUFFICES ASSUME NEW y \in S, y <= x PROVE y \in 0 .. x
    OBVIOUS
  <2>1. x \in Nat /\ y \in Nat
    OBVIOUS
  <2> QED BY <2>1
<1>2. \A x \in S : IsFiniteSet(Below(x))
  <2> TAKE x \in S
  <2>1. IsFiniteSet(0 .. x)
    BY FS_Interval
  <2> QED BY <1>1, <2>1, FS_Subset
<1>3. Belows \subseteq FiniteSubsetsOf(Nat) /\ Belows # {}
  BY <1>2 DEF FiniteSubsetsOf
<1>4. PICK B \in Belows : \A C \in Belows : ~(<<C, B>> \in StrictSubsetOrdering(Nat))
  <2> HIDE DEF Belows
  <2> QED BY <1>3, FS_StrictSubsetOrderingWellFounded, WFMin
<1>5. PICK x \in S : B = Below(x)
  OBVIOUS
<1>6. \A y \in S : x <= y
  <2> SUFFICES ASSUME NEW y \in S, y < x PROVE FALSE
    OBVIOUS
  <2>1. Below(y) \subseteq Below(x) /\ x \in Below(x) /\ x \notin Below(y)
    <3>1. x \in Nat /\ y \in Nat /\ \A z \in S : z \in Nat
      OBVIOUS
    <3>2. \A z \in S : z <= y => z <= x
      BY <3>1
    <3>3. x <= x /\ ~(x <= y)
      BY <3>1
    <3> QED BY <3>2, <3>3
  <2>2. <<Below(y), Below(x)>> \in StrictSubsetOrdering(Nat)
    BY <2>1 DEF StrictSubsetOrdering
  <2> QED BY <2>2, <1>4, <1>5
<1> QED BY <1>6 DEF Min

\* The row that is chosen is open, and unless it is a belated one it is the one that tracks whatever is tracked.
LEMMA ChosenRow ==
    ASSUME BridgeIInv
    PROVE  /\ Reachable => SessionFor \in Conns /\ session[SessionFor] = "open" /\ \A h \in Open : SessionFor <= h
           /\ \A g \in Conns : pending[g] # {} => Reachable /\ (g = SessionFor \/ (SessionFor < g /\ SessionFor \in belated))
<1>1. Open \in SUBSET Nat /\ Open \subseteq Conns
  BY Typed DEF Open, BridgeIInv
<1>2. ASSUME Open # {} PROVE SessionFor \in Open /\ \A h \in Open : SessionFor <= h
  BY <1>1, <1>2, LeastExists DEF SessionFor, Chosen
<1>3. ASSUME NEW g \in Conns, pending[g] # {} PROVE Reachable /\ (g = SessionFor \/ (SessionFor < g /\ SessionFor \in belated))
  <2>1. g \in Open /\ reported /\ \A h \in Open : g <= h \/ h \in belated
    BY <1>3 DEF BridgeIInv, SessionFacts, Open
  <2>2. SessionFor \in Open /\ SessionFor <= g /\ (g <= SessionFor \/ SessionFor \in belated)
    BY <1>2, <2>1
  <2>3. g \in Nat /\ SessionFor \in Nat
    BY <1>1, <2>1, <2>2
  <2> QED BY <2>1, <2>2, <2>3 DEF Reachable
<1> QED BY <1>2, <1>3 DEF Reachable, Open

\* Cancelling writes to the row that tracks the attempt, or to a belated one that overtakes it.
LEMMA CancelSpeaks ==
    ASSUME BridgeIInv, NEW a \in Attempts, UNCHANGED <<wire, astray>> \/ Cancels(a)
    PROVE  /\ wire' \in Wires /\ astray \subseteq astray' /\ astray' \subseteq Attempts
           /\ \A h \in Conns : /\ Up(h)' = Up(h) /\ wire'[h].up = wire[h].up /\ Orders(h)
                               /\ Down(h)' = Down(h) \/ (session[h] = "open" /\ Down(h)' = Down(h) \union {Cancel(a)})
                               /\ Cancels(a) /\ a \in pending[h] /\ wire[h].up => Cancel(a) \in Down(h)' \/ a \in astray'
<1>1. wire \in Wires /\ Cancel(a) \in ToDevice /\ astray \subseteq Attempts
  BY Messages DEF BridgeIInv, BridgeTypes
<1>2. astray \subseteq astray' /\ astray' \subseteq Attempts
  BY <1>1 DEF Cancels
<1>3. CASE wire' = wire /\ ~Reachable
  BY <1>1, <1>2, <1>3, ChosenRow, Untouched
<1>4. CASE Reachable /\ Cancels(a)
  <2>1. PICK g \in Conns : g = SessionFor /\ session[g] = "open"
    BY <1>4, ChosenRow
  <2>2. wire' = Written(g, Cancel(a))
    BY <1>4, <2>1 DEF CancelWire, Cancels
  <2>3. \A b \in Attempts : Cancel(a) # Execute(b)
    BY DEF Cancel, Execute, Frame
  <2>4. /\ wire' \in Wires
        /\ \A h \in Conns :
              /\ Up(h)' = Up(h) /\ wire'[h].up = wire[h].up
              /\ Down(h)' = IF h = g /\ wire[g].up THEN Down(h) \union {Cancel(a)} ELSE Down(h)
              /\ (h = g => \A b \in Attempts : Cancel(a) = Execute(b) => Down(g) \cap To(b) = {}) => Orders(h)
    BY <1>1, <2>2, ServerWrites
  <2>5. \A h \in Conns : a \in pending[h] /\ h # g => a \in astray'
    BY <1>4, <2>1 DEF Cancels, Misled
  <2> QED BY <1>2, <2>1, <2>3, <2>4, <2>5
<1>5. CASE wire' = wire /\ Reachable /\ ~Cancels(a)
  BY <1>1, <1>2, <1>5, Untouched
<1> QED BY <1>3, <1>4, <1>5 DEF CancelWire, Cancels

\* A step of the thread of a's call: it may cancel the turn, and it touches no other call.
CallStep(a) ==
    /\ call[a].at \notin {"idle", "refused"} /\ call'[a].at \notin {"idle", "refused"}
    /\ UNCHANGED <<wire, astray>> \/ Cancels(a)
    /\ UNCHANGED <<device, jobs, interrupted, late, session, pending, outcome, reported, belated>>
    /\ call' \in [Attempts -> CallStates] /\ items' \in [Attempts -> Seq(ToServer)]
    /\ \A b \in Attempts \ {a} : call'[b] = call[b] /\ items'[b] = items[b]

\* What the step leaves true of every attempt, and what of its own once its call and its items are accounted for.
LEMMA CallStepHolds ==
    ASSUME BridgeIInv, NEW a \in Attempts, CallStep(a), handles' \subseteq Attempts \X Nat, RecordFacts',
           CallFacts(a)', ToolFacts(a)', call'[a].at = "completed" => Done(a), GivenUp(a)' => GivenUp(a) \/ Cancels(a)
    PROVE  BridgeIInv'
<1>1. /\ wire' \in Wires /\ astray \subseteq astray' /\ astray' \subseteq Attempts
      /\ \A h \in Conns : /\ Up(h)' = Up(h) /\ wire'[h].up = wire[h].up /\ Orders(h)
                          /\ Down(h)' = Down(h) \/ (session[h] = "open" /\ Down(h)' = Down(h) \union {Cancel(a)})
                          /\ Cancels(a) /\ a \in pending[h] /\ wire[h].up => Cancel(a) \in Down(h)' \/ a \in astray'
  BY CancelSpeaks DEF CallStep
<1>2. /\ UNCHANGED <<device, jobs, interrupted, late, session, pending, outcome, reported, belated>>
      /\ \A b \in Attempts \ {a} : call'[b] = call[b] /\ items'[b] = items[b]
  BY DEF CallStep
<1>3. BridgeTypes' /\ SessionFacts'
  BY <1>1, <1>2 DEF BridgeIInv, BridgeTypes, SessionFacts, Open, CallStep
<1>4. ConnectionFacts'
  <2>1. \A h \in Conns : session[h] = "none" => Down(h)' = Down(h)
    BY <1>1
  <2>2. \A h \in Conns : Up(h)' = Up(h) /\ wire'[h].up = wire[h].up
    BY <1>1
  <2>3. ConnectionFacts /\ device.conn \in Conns
    BY Typed DEF BridgeIInv
  <2> QED BY <1>2, <2>1, <2>2, <2>3 DEF ConnectionFacts
<1>5. \A b \in Attempts : Cancel(a) # Execute(b) /\ (b # a => Cancel(a) \notin To(b)) /\ Cancel(a).kind # "tool"
  BY DEF Cancel, Execute, Frame, To
<1>6. \A h \in Conns : Down(h) \subseteq Down(h)' /\ \A m \in Down(h)' : m \in Down(h) \/ m = Cancel(a)
  BY <1>1
<1>7. ASSUME NEW b \in Attempts PROVE ExecuteFacts(b)' /\ JobFacts(b)'
  <2>1. ExecuteFacts(b) /\ JobFacts(b)
    BY FactsOf
  <2>2. \A h \in Conns : ExecuteFirst(h, b)' /\ (Execute(b) \in Down(h)' <=> Execute(b) \in Down(h)) /\ (ResultIn(h, b)' <=> ResultIn(h, b))
    BY <1>1, <1>5, <1>6, <2>1 DEF ExecuteFacts, Orders, ResultIn
  <2> QED BY <1>1, <1>2, <2>1, <2>2 DEF ExecuteFacts, JobFacts
<1>8. ASSUME NEW b \in Attempts \ {a} PROVE AttemptFacts(b)'
  <2>1. FreshFacts(b) /\ CallFacts(b) /\ ToolFacts(b) /\ VerdictFacts(b) /\ CancelFacts(b) /\ call'[b] = call[b] /\ items'[b] = items[b]
    BY <1>2, FactsOf
  <2>2. FreshFacts(b)'
    BY <1>2, <1>5, <1>6, <2>1 DEF FreshFacts
  <2>3. CallFacts(b)'
    <3>1. \A m : UnderWay(b, m)' <=> UnderWay(b, m)
      BY <1>2, <2>1 DEF UnderWay
    <3>2. \A h \in Conns : OneCall(h, b)' /\ Up(h)' = Up(h)
      BY <1>1, <2>1 DEF CallFacts, Orders
    <3> QED BY <1>2, <2>1, <3>1, <3>2 DEF CallFacts
  <2>4. ToolFacts(b)'
    BY <1>2, <1>5, <1>6, <2>1 DEF ToolFacts
  <2>5. VerdictFacts(b)'
    BY <1>1, <1>2, <2>1 DEF VerdictFacts, Done
  <2>6. CancelFacts(b)'
    <3>1. \A h \in Conns : (ResultIn(h, b)' <=> ResultIn(h, b)) /\ (GivenUp(b)' <=> GivenUp(b))
      BY <1>1, <2>1 DEF ResultIn, GivenUp
    <3> QED BY <1>1, <1>2, <1>6, <2>1, <3>1 DEF CancelFacts
  <2> QED BY <1>7, <2>2, <2>3, <2>4, <2>5, <2>6 DEF AttemptFacts
<1>9. AttemptFacts(a)'
  <2>1. FreshFacts(a)'
    BY DEF FreshFacts, CallStep
  <2>2. VerdictFacts(a)'
    BY <1>1, <1>2, FactsOf DEF VerdictFacts, Done
  <2>3. CancelFacts(a)'
    <3>1. \A h \in Conns : ResultIn(h, a)' <=> ResultIn(h, a)
      BY <1>1 DEF ResultIn
    <3> QED BY <1>1, <1>2, <1>6, <3>1, FactsOf DEF CancelFacts
  <2> QED BY <1>7, <2>1, <2>2, <2>3 DEF AttemptFacts
<1> QED BY <1>3, <1>4, <1>8, <1>9 DEF BridgeIInv

\* The step holds when the call keeps its token and takes no suspension.
LEMMA TokenKept ==
    ASSUME BridgeIInv, NEW a \in Attempts, CallStep(a), call'[a].token = call[a].token,
           items'[a] = items[a] \/ (items[a] # <<>> /\ items'[a] = Tail(items[a])),
           call'[a].at # "awaiting" \/ call[a].at = "awaiting",
           call'[a].at \in {"suspended", "delivering", "lost"} => call[a].at \in {"suspended", "delivering", "lost"}
    PROVE  CallFacts(a)' /\ ToolFacts(a)'
<1>1. \A h \in Conns : /\ Up(h)' = Up(h) /\ Orders(h)
                       /\ Down(h)' = Down(h) \/ Down(h)' = Down(h) \union {Cancel(a)}
  BY CancelSpeaks DEF CallStep
<1>2. jobs' = jobs /\ CallFacts(a) /\ ToolFacts(a) /\ items[a] \in Seq(ToServer)
  BY FactsOf, Typed DEF CallStep, BridgeIInv
<1>3. Range(items'[a]) \subseteq Range(items[a]) /\ Before(items'[a], Calls(a), Calls(a))
  BY <1>2, Taken DEF CallFacts
<1>4. CallFacts(a)'
  <2>1. \A m : UnderWay(a, m)' <=> UnderWay(a, m)
    BY <1>2 DEF UnderWay
  <2>2. \A h \in Conns : OneCall(h, a)'
    BY <1>1, <1>2 DEF CallFacts, Orders
  <2>3. call'[a].at \notin {"idle", "refused"}
    BY DEF CallStep
  <2> QED BY <1>1, <1>2, <1>3, <2>1, <2>2, <2>3 DEF CallFacts
<1>5. ToolFacts(a)'
  <2>1. Cancel(a).kind # "tool"
    BY DEF Cancel, Frame
  <2> QED BY <1>1, <1>2, <2>1 DEF ToolFacts
<1> QED BY <1>4, <1>5

-----------------------------------------------------------------------------
(* The verdict on a call. *)

\* What the steps of a call start from.
LEMMA CallStart ==
    ASSUME BridgeIInv, NEW a \in Attempts
    PROVE  /\ call \in [Attempts -> CallStates] /\ items \in [Attempts -> Seq(ToServer)] /\ handles \subseteq Attempts \X Nat
           /\ call[a] \in CallStates /\ call[a].token \in Nat /\ items[a] \in Seq(ToServer)
           /\ records \subseteq handles
           /\ \A t \in records : t \in Attempts \X Nat /\ t[2] # 0 /\ call[t[1]].at \notin {"idle", "refused"}
           /\ outcome[a] \in Statuses \union {"interrupted", None}
  BY Typed DEF BridgeIInv, BridgeTypes, RecordFacts, CallStates

\* The fields of a call that ends, or moves on.
LEMMA CallEnds ==
    ASSUME NEW c \in CallStates, NEW v \in Ended \union Stages
    PROVE  At(c, v) \in CallStates /\ At(c, v).at = v /\ At(c, v).token = c.token /\ (At(c, v).told => c.told)
  BY DEF At, CallStates

\* The records keep their handles, and none is of a call that was never sent, when a step takes the same of both.
LEMMA RecordsKept ==
    ASSUME BridgeIInv, NEW a \in Attempts, CallStep(a), NEW D, records' = records \ D, handles' = handles \ D \/ handles' = handles
    PROVE  handles' \subseteq Attempts \X Nat /\ RecordFacts'
<1>1. /\ call \in [Attempts -> CallStates] /\ handles \subseteq Attempts \X Nat /\ records \subseteq handles
      /\ \A t \in records : t \in Attempts \X Nat /\ t[2] # 0 /\ call[t[1]].at \notin {"idle", "refused"}
  BY CallStart
<1>2. \A b \in Attempts : call[b].at \notin {"idle", "refused"} => call'[b].at \notin {"idle", "refused"}
  BY DEF CallStep
<1> QED BY <1>1, <1>2 DEF RecordFacts

\* The thread of a call sees that its client is gone, and cancels the turn.
LEMMA SeeCancelledStep == ASSUME BridgeIInv, NEW a \in Attempts, SeeCancelled(a) PROVE BridgeIInv'
<1>1. /\ call \in [Attempts -> CallStates] /\ items \in [Attempts -> Seq(ToServer)] /\ handles \subseteq Attempts \X Nat
      /\ call[a] \in CallStates
  BY CallStart
<1>2. call' = [call EXCEPT ![a].told = TRUE] /\ items' = items /\ call[a].at \in {"awaiting", "resuming"}
  BY DEF SeeCancelled, Waiting
<1>3. call'[a] \in CallStates /\ call'[a].at = call[a].at /\ call'[a].token = call[a].token /\ \A b \in Attempts \ {a} : call'[b] = call[b]
  BY <1>1, <1>2 DEF CallStates
<1>4. call' \in [Attempts -> CallStates]
  BY <1>1, <1>2, <1>3
<1>5. CallStep(a)
  BY <1>1, <1>2, <1>3, <1>4 DEF CallStep, SeeCancelled
<1>6. handles' \subseteq Attempts \X Nat /\ RecordFacts'
  <2>1. records' = records \ {} /\ handles' = handles
    BY DEF SeeCancelled
  <2> QED BY <1>5, <2>1, RecordsKept
<1>7. CallFacts(a)' /\ ToolFacts(a)'
  BY <1>2, <1>3, <1>5, TokenKept
<1> QED BY <1>2, <1>3, <1>5, <1>6, <1>7, CallStepHolds DEF SeeCancelled

\* A client leaves.
LEMMA ClientLeavesStep == ASSUME BridgeIInv, NEW a \in Attempts, ClientLeaves(a) PROVE BridgeIInv'
<1>1. /\ call \in [Attempts -> CallStates] /\ items \in [Attempts -> Seq(ToServer)] /\ handles \subseteq Attempts \X Nat
      /\ call[a] \in CallStates
  BY CallStart
<1>2. call' = [call EXCEPT ![a].gone = TRUE] /\ items' = items /\ call[a].at \in {"awaiting", "resuming"}
  BY DEF ClientLeaves, Waiting
<1>3. /\ call'[a] \in CallStates /\ call'[a].at = call[a].at /\ call'[a].token = call[a].token /\ call'[a].told = call[a].told
      /\ \A b \in Attempts \ {a} : call'[b] = call[b]
  BY <1>1, <1>2 DEF CallStates
<1>4. call' \in [Attempts -> CallStates]
  BY <1>1, <1>2, <1>3
<1>5. CallStep(a)
  BY <1>1, <1>2, <1>3, <1>4 DEF CallStep, ClientLeaves
<1>6. handles' \subseteq Attempts \X Nat /\ RecordFacts'
  <2>1. records' = records \ {} /\ handles' = handles
    BY DEF ClientLeaves
  <2> QED BY <1>5, <2>1, RecordsKept
<1>7. CallFacts(a)' /\ ToolFacts(a)'
  BY <1>2, <1>3, <1>5, TokenKept
<1> QED BY <1>2, <1>3, <1>5, <1>6, <1>7, CallStepHolds DEF GivenUp

\* A call that ends, or goes on, without taking a suspension.
LEMMA VerdictStep ==
    ASSUME BridgeIInv, NEW a \in Attempts, call[a].at \in {"awaiting", "resuming", "suspended", "delivering"},
           NEW v \in Ended \union Stages, v \notin {"idle", "refused", "awaiting"}, Ends(a, v),
           v \in {"suspended", "delivering", "lost"} => call[a].at \in {"suspended", "delivering"},
           v = "completed" => Done(a), v \in {"timeout", "disconnected", "uncontinued"} => Cancels(a) \/ call[a].told,
           UNCHANGED <<wire, astray>> \/ Cancels(a),
           UNCHANGED <<device, jobs, interrupted, late, session, pending, outcome, reported, belated>>,
           items' = items \/ (items[a] # <<>> /\ items' = [items EXCEPT ![a] = Tail(@)]),
           NEW D, records' = records \ D, handles' = handles \ D \/ handles' = handles
    PROVE  BridgeIInv'
<1>1. /\ call \in [Attempts -> CallStates] /\ items \in [Attempts -> Seq(ToServer)] /\ call[a] \in CallStates /\ items[a] \in Seq(ToServer)
  BY CallStart
<1>2. call' = [call EXCEPT ![a] = At(call[a], v)]
  BY DEF Ends
<1>3. /\ call'[a] \in CallStates /\ call'[a].at = v /\ call'[a].token = call[a].token /\ (call'[a].told => call[a].told)
      /\ \A b \in Attempts \ {a} : call'[b] = call[b]
  BY <1>1, <1>2, CallEnds
<1>4. call' \in [Attempts -> CallStates]
  BY <1>1, <1>2, <1>3
<1>5. /\ items' \in [Attempts -> Seq(ToServer)] /\ (items'[a] = items[a] \/ (items[a] # <<>> /\ items'[a] = Tail(items[a])))
      /\ \A b \in Attempts \ {a} : items'[b] = items[b]
  <2>1. CASE items' = items
    BY <1>1, <2>1
  <2>2. CASE items[a] # <<>> /\ items' = [items EXCEPT ![a] = Tail(@)]
    <3>1. Tail(items[a]) \in Seq(ToServer)
      BY <1>1, <2>2, Taken
    <3> QED BY <1>1, <2>2, <3>1
  <2> QED BY <2>1, <2>2
<1>6. CallStep(a)
  BY <1>3, <1>4, <1>5 DEF CallStep
<1>7. handles' \subseteq Attempts \X Nat /\ RecordFacts'
  BY <1>6, RecordsKept
<1>8. CallFacts(a)' /\ ToolFacts(a)'
  BY <1>3, <1>5, <1>6, TokenKept
<1>9. GivenUp(a)' => GivenUp(a) \/ Cancels(a)
  BY <1>3 DEF GivenUp
<1> QED BY <1>3, <1>6, <1>7, <1>8, <1>9, CallStepHolds

\* The records and handles that end with a leg.
LEMMA LegEnds ==
    ASSUME NEW a
    PROVE  \E D : Closed(a) = records \ D /\ Dropped(a) = handles \ D
<1>1. CASE Resuming(a)
  BY <1>1 DEF Closed, Dropped
<1>2. CASE ~Resuming(a)
  <2>1. Closed(a) = records \ {} /\ Dropped(a) = handles \ {}
    BY <1>2 DEF Closed, Dropped
  <2> QED BY <2>1
<1> QED BY <1>1, <1>2

\* The thread of a call takes a chunk: it is emitted, unreadable, or nobody is there to take it.
LEMMA TakeChunkStep == ASSUME BridgeIInv, NEW a \in Attempts, TakeChunk(a) PROVE BridgeIInv'
<1>1. /\ call[a].at \in {"awaiting", "resuming"} /\ items[a] # <<>> /\ items' = [items EXCEPT ![a] = Tail(@)]
      /\ UNCHANGED <<device, jobs, interrupted, late, session, pending, outcome, reported, belated>>
  BY DEF TakeChunk, Waiting
<1>2. PICK D : Closed(a) = records \ D /\ Dropped(a) = handles \ D
  BY LegEnds
<1>3. CASE Ends(a, "failed") /\ records' = Closed(a) /\ UNCHANGED <<wire, astray>> /\ handles' = handles
  <2>1. "failed" \in Ended \union Stages
    BY DEF Ended
  <2> QED BY <1>1, <1>2, <1>3, <2>1, VerdictStep
<1>4. CASE UNCHANGED <<wire, astray>> /\ call' = call /\ handles' = handles /\ records' = records
  <2>1. /\ call \in [Attempts -> CallStates] /\ items \in [Attempts -> Seq(ToServer)] /\ items[a] \in Seq(ToServer)
    BY CallStart
  <2>2. /\ items' \in [Attempts -> Seq(ToServer)] /\ items'[a] = Tail(items[a])
        /\ \A b \in Attempts \ {a} : items'[b] = items[b]
    BY <1>1, <2>1, Taken
  <2>3. CallStep(a)
    BY <1>1, <1>4, <2>1, <2>2 DEF CallStep
  <2>4. handles' \subseteq Attempts \X Nat /\ RecordFacts'
    <3>1. records' = records \ {}
      BY <1>4
    <3> QED BY <1>4, <2>3, <3>1, RecordsKept
  <2>5. CallFacts(a)' /\ ToolFacts(a)'
    BY <1>1, <1>4, <2>2, <2>3, TokenKept
  <2> QED BY <1>1, <1>4, <2>3, <2>4, <2>5, CallStepHolds DEF GivenUp
<1>5. CASE /\ Ends(a, IF call[a].gone THEN "cancelled" ELSE "disconnected")
           /\ IF call[a].told THEN UNCHANGED <<wire, astray>> ELSE Cancels(a)
           /\ records' = Closed(a) /\ handles' = Dropped(a)
  <2>1. PICK v \in {"cancelled", "disconnected"} : v = IF call[a].gone THEN "cancelled" ELSE "disconnected"
    OBVIOUS
  <2>2. v \in Ended \union Stages
    BY DEF Ended
  <2> QED BY <1>1, <1>2, <1>5, <2>1, <2>2, VerdictStep
<1> QED BY <1>3, <1>4, <1>5 DEF TakeChunk

\* The thread of a call takes the outcome of its attempt (_result_from).
LEMMA TakeOutcomeStep == ASSUME BridgeIInv, NEW a \in Attempts, TakeOutcome(a) PROVE BridgeIInv'
<1>1. /\ call[a].at \in {"awaiting", "resuming"} /\ outcome[a] # None /\ Ends(a, Verdict(outcome[a])) /\ UNCHANGED <<wire, astray>> /\ items' = items
      /\ UNCHANGED <<device, jobs, interrupted, late, session, pending, outcome, reported, belated>>
      /\ handles' = Dropped(a) /\ records' = Closed(a)
  BY DEF TakeOutcome, Waiting, deviceVars
<1>2. PICK D : Closed(a) = records \ D /\ Dropped(a) = handles \ D
  BY LegEnds
<1>3. PICK v \in Statuses \union {"ambiguous"} : v = Verdict(outcome[a]) /\ (v = "completed" => outcome[a] = "completed")
  BY <1>1, CallStart DEF Verdict
<1>4. v \in Ended \union Stages /\ v \in {"completed", "failed", "cancelled", "ambiguous"}
  BY DEF Ended, Statuses
<1>5. v = "completed" => Done(a)
  BY <1>3, FactsOf DEF VerdictFacts
<1> QED BY <1>1, <1>2, <1>3, <1>4, <1>5, VerdictStep

\* The thread of a call finds its deadline passed.
LEMMA TimesOutStep == ASSUME BridgeIInv, NEW a \in Attempts, TimesOut(a) PROVE BridgeIInv'
<1>1. /\ call[a].at \in {"awaiting", "resuming"} /\ Ends(a, "timeout") /\ Cancels(a) /\ items' = items
      /\ UNCHANGED <<device, jobs, interrupted, late, session, pending, outcome, reported, belated>>
      /\ handles' = Dropped(a) /\ records' = Closed(a)
  BY DEF TimesOut, Waiting
<1>2. PICK D : Closed(a) = records \ D /\ Dropped(a) = handles \ D
  BY LegEnds
<1>3. "timeout" \in Ended \union Stages
  BY DEF Ended
<1> QED BY <1>1, <1>2, <1>3, VerdictStep

\* The client's next request claims the record of a suspended turn.
LEMMA ClaimStep == ASSUME BridgeIInv, NEW a \in Attempts, Claim(a) PROVE BridgeIInv'
<1>1. /\ call[a].at = "suspended" /\ Ends(a, "delivering") /\ UNCHANGED <<wire, astray>> /\ items' = items
      /\ UNCHANGED <<device, jobs, interrupted, late, session, pending, outcome, reported, belated>>
      /\ handles' = handles /\ records' = records \ {}
  BY DEF Claim, deviceVars
<1>2. "delivering" \in Ended \union Stages
  BY DEF Stages
<1> QED BY <1>1, <1>2, VerdictStep

-----------------------------------------------------------------------------
(* Expiry, deadlines and suspensions. *)

\* The reaper takes a record past its deadline (expire_due).
LEMMA ReapStep == ASSUME BridgeIInv, NEW a \in Attempts, Reap(a) PROVE BridgeIInv'
<1>1. PICK t \in records : /\ t[1] = a
                           /\ records' = records \ {t} /\ handles' = handles \ {t}
                           /\ call' = IF call[a].at = "suspended" /\ Held(a) = t THEN [call EXCEPT ![a].at = "timeout"] ELSE call
  BY DEF Reap
<1>2. /\ call \in [Attempts -> CallStates] /\ items \in [Attempts -> Seq(ToServer)] /\ handles \subseteq Attempts \X Nat
      /\ call[a] \in CallStates /\ call[a].at \notin {"idle", "refused"}
  BY <1>1, CallStart
<1>3. /\ Cancels(a) /\ items' = items
      /\ UNCHANGED <<device, jobs, interrupted, late, session, pending, outcome, reported, belated>>
  BY DEF Reap
<1>4. /\ call' \in [Attempts -> CallStates] /\ \A b \in Attempts \ {a} : call'[b] = call[b]
      /\ call'[a].token = call[a].token /\ call'[a].at \in {call[a].at, "timeout"}
  <2>1. CASE call' = call
    BY <1>2, <2>1
  <2>2. CASE call' = [call EXCEPT ![a].at = "timeout"]
    <3>1. [call[a] EXCEPT !.at = "timeout"] \in CallStates
      BY <1>2 DEF CallStates, Ended
    <3>2. call' = [call EXCEPT ![a] = [call[a] EXCEPT !.at = "timeout"]]
      BY <2>2
    <3>3. [call[a] EXCEPT !.at = "timeout"].token = call[a].token /\ [call[a] EXCEPT !.at = "timeout"].at = "timeout"
      BY <1>2 DEF CallStates
    <3> QED BY <1>2, <3>1, <3>2, <3>3
  <2> QED BY <1>1, <2>1, <2>2
<1>5. CallStep(a)
  BY <1>2, <1>3, <1>4 DEF CallStep
<1>6. handles' \subseteq Attempts \X Nat /\ RecordFacts'
  BY <1>1, <1>5, RecordsKept
<1>7. CallFacts(a)' /\ ToolFacts(a)'
  BY <1>3, <1>4, <1>5, TokenKept
<1>8. call'[a].at = "completed" => Done(a)
  BY <1>4, FactsOf DEF VerdictFacts
<1> QED BY <1>3, <1>5, <1>6, <1>7, <1>8, CallStepHolds

\* A deadline passes.
LEMMA DeadlinePassesStep == ASSUME BridgeIInv, NEW a \in Attempts, DeadlinePasses(a) PROVE BridgeIInv'
<1>1. UNCHANGED <<wire, device, jobs, interrupted>> /\ UNCHANGED serverVars /\ late' = late \union {a}
  BY DEF DeadlinePasses
<1>2. \A g \in Conns : Down(g)' = Down(g) /\ Up(g)' = Up(g) /\ Quiet(g)
  BY <1>1, Untouched, StaysQuiet
<1>3. \A b \in Attempts : Advances(jobs[b], jobs'[b]) /\ jobs'[b].got = jobs[b].got
  BY <1>1 DEF Advances
<1>4. SessionFacts' /\ RecordFacts' /\ \A b \in Attempts : OtherFacts(b)'
  BY <1>1, <1>2, <1>3, DeviceAdvances
<1>5. \A b \in Attempts : JobFacts(b)'
  BY <1>1, FactsOf DEF JobFacts, serverVars
<1>6. BridgeTypes'
  BY <1>1 DEF BridgeIInv, BridgeTypes, serverVars
<1>7. ConnectionFacts'
  <2>1. ConnectionFacts /\ device.conn \in Conns /\ UNCHANGED <<device, wire, session>>
    BY <1>1, Typed DEF BridgeIInv, serverVars
  <2> QED BY <1>2, <2>1 DEF ConnectionFacts
<1> QED BY <1>4, <1>5, <1>6, <1>7 DEF BridgeIInv, AttemptFacts, OtherFacts

\* The tool call that is taken is the one under way, and no other is.
LEMMA CallTaken ==
    ASSUME BridgeIInv, NEW a \in Attempts, items[a] # <<>>, Head(items[a]).kind = "call"
    PROVE  /\ Head(items[a]).call \in Nat \ {0} /\ call[a].token < Head(items[a]).call /\ Head(items[a]).call = jobs[a].asks
           /\ Range(Tail(items[a])) \cap Calls(a) = {} /\ Range(Tail(items[a])) \subseteq Range(items[a])
           /\ \A g \in Conns : Up(g) \cap Calls(a) = {}
<1>1. items[a] \in Seq(ToServer) /\ call[a].token \in Nat /\ CallFacts(a)
  BY CallStart, FactsOf
<1>2. /\ Head(items[a]) \in ToServer /\ Range(items[a]) = {Head(items[a])} \union Range(Tail(items[a]))
      /\ Before(items[a], Calls(a), Calls(a)) /\ Head(items[a]) \in Calls(a) => Range(Tail(items[a])) \cap Calls(a) = {}
  BY <1>1, Taken
<1>3. Head(items[a]) \in Calls(a) /\ Head(items[a]).call \in Nat
  <2>1. Head(items[a]).attempt = a
    BY <1>1, <1>2 DEF CallFacts
  <2> QED BY <1>2, <2>1, ServerMessage DEF Calls
<1>4. call[a].token < Head(items[a]).call /\ Head(items[a]).call = jobs[a].asks
  BY <1>1, <1>2, <1>3 DEF CallFacts, UnderWay
<1>5. \A g \in Conns : Up(g) \cap Calls(a) = {}
  BY <1>1, <1>2, <1>3 DEF CallFacts
<1>6. Before(items[a], Calls(a), Calls(a))
  BY <1>1 DEF CallFacts
<1> QED BY <1>1, <1>2, <1>3, <1>4, <1>5, <1>6

\* The call is admitted: its client holds its token, and its record and handle replace those of the leg.
LEMMA Admission ==
    ASSUME BridgeIInv, NEW a \in Attempts, call[a].at \in {"awaiting", "resuming"},
           items[a] # <<>>, Head(items[a]).kind = "call", items' = [items EXCEPT ![a] = Tail(@)],
           NEW n \in Nat, n = Head(items[a]).call, NEW c \in CallStates, call' = [call EXCEPT ![a] = c], c.token = n,
           (c.at = "suspended" /\ ~c.told) \/ c.at = "disconnected",
           handles' = Registered(a, n), records' = Closed(a) \union {Token(a, n)},
           UNCHANGED <<wire, astray>> \/ Cancels(a), c.at = "disconnected" => Cancels(a) \/ call[a].told,
           UNCHANGED <<device, jobs, interrupted, late, session, pending, outcome, reported, belated>>
    PROVE  BridgeIInv'
<1>1. /\ call \in [Attempts -> CallStates] /\ items \in [Attempts -> Seq(ToServer)] /\ handles \subseteq Attempts \X Nat
      /\ call[a].token \in Nat /\ items[a] \in Seq(ToServer) /\ records \subseteq handles
      /\ \A t \in records : t \in Attempts \X Nat /\ t[2] # 0 /\ call[t[1]].at \notin {"idle", "refused"}
  BY CallStart
<1>2. /\ n # 0 /\ call[a].token < n /\ n = jobs[a].asks
      /\ Range(Tail(items[a])) \cap Calls(a) = {} /\ Range(Tail(items[a])) \subseteq Range(items[a])
      /\ \A g \in Conns : Up(g) \cap Calls(a) = {}
  BY CallTaken
<1>3. call' \in [Attempts -> CallStates] /\ call'[a] = c /\ \A b \in Attempts \ {a} : call'[b] = call[b]
  BY <1>1
<1>4. items' \in [Attempts -> Seq(ToServer)] /\ items'[a] = Tail(items[a]) /\ \A b \in Attempts \ {a} : items'[b] = items[b]
  <2>1. Tail(items[a]) \in Seq(ToServer)
    BY <1>1, Taken
  <2> QED BY <1>1, <2>1
<1>5. CallStep(a)
  BY <1>3, <1>4 DEF CallStep
<1>6. handles' \subseteq Attempts \X Nat /\ RecordFacts'
  <2>1. Token(a, n) \in Attempts \X Nat /\ Token(a, n)[1] = a /\ Token(a, n)[2] = n
    BY DEF Token
  <2>2. handles' \subseteq Attempts \X Nat
    BY <1>1, <2>1 DEF Registered
  <2>3. Held(a) \notin Closed(a) /\ Closed(a) \subseteq records
    <3>1. CASE call[a].at = "resuming"
      BY <3>1 DEF Closed, Resuming
    <3>2. CASE call[a].at = "awaiting"
      <4>1. Held(a)[2] = 0
        BY <3>2, FactsOf DEF CallFacts, Held, Token
      <4> QED BY <1>1, <3>2, <4>1 DEF Closed, Resuming
    <3> QED BY <3>1, <3>2
  <2>4. records' \subseteq handles'
    BY <1>1, <2>3 DEF Registered
  <2>5. \A b \in Attempts : call[b].at \notin {"idle", "refused"} => call'[b].at \notin {"idle", "refused"}
    BY <1>3
  <2>6. \A t \in records' : t[2] # 0 /\ call'[t[1]].at \notin {"idle", "refused"}
    BY <1>1, <1>2, <1>3, <2>1, <2>3, <2>5
  <2> QED BY <2>2, <2>4, <2>6 DEF RecordFacts
<1>7. \A h \in Conns : /\ Up(h)' = Up(h) /\ Orders(h)
                       /\ Down(h)' = Down(h) \/ Down(h)' = Down(h) \union {Cancel(a)}
  BY CancelSpeaks
<1>8. CallFacts(a)'
  <2>1. call'[a].token <= jobs'[a].asks /\ call'[a].at \notin {"idle", "awaiting"}
    BY <1>2, <1>3
  <2>2. \A m \in Range(items'[a]) : m.attempt = a
    BY <1>2, <1>4, FactsOf DEF CallFacts
  <2>3. Range(items'[a]) \cap Calls(a) = {} /\ Before(items'[a], Calls(a), Calls(a))
    BY <1>1, <1>2, <1>4, Taken, FactsOf DEF CallFacts
  <2>4. \A h \in Conns : OneCall(h, a)' /\ Up(h)' \cap Calls(a) = {}
    BY <1>2, <1>7, FactsOf DEF CallFacts, Orders
  <2> QED BY <2>1, <2>2, <2>3, <2>4 DEF CallFacts
<1>9. ToolFacts(a)'
  <2>1. ToolFacts(a) /\ jobs[a].got \in Nat /\ jobs' = jobs
    BY FactsOf, Typed DEF BridgeIInv, JobStates
  <2>2. jobs'[a].got < n
    BY <1>1, <1>2, <2>1 DEF ToolFacts
  <2>3. \A h \in Conns : \A m \in Down(h)' : m.kind = "tool" /\ m.attempt = a => m.call < n
    <3> SUFFICES ASSUME NEW h \in Conns, NEW m \in Down(h)', m.kind = "tool", m.attempt = a PROVE m.call < n
      OBVIOUS
    <3>1. m \in Down(h)
      BY <1>7 DEF Cancel, Frame
    <3>2. m.call <= call[a].token /\ m.call \in Nat
      <4>1. m \in ToDevice
        <5>1. wire[h].toDevice \in Seq(ToDevice)
          BY Typed DEF BridgeIInv
        <5> QED BY <3>1, <5>1 DEF Down, Range
      <4> QED BY <2>1, <3>1, <4>1, DeviceMessage DEF ToolFacts
    <3> QED BY <1>1, <1>2, <3>2
  <2>4. \A h \in Conns : \A m \in Down(h)' : m.kind = "tool" /\ m.attempt = a => m.call \in Nat
    <3> SUFFICES ASSUME NEW h \in Conns, NEW m \in Down(h)', m.kind = "tool", m.attempt = a PROVE m.call \in Nat
      OBVIOUS
    <3>1. m \in Down(h)
      BY <1>7 DEF Cancel, Frame
    <3>2. m \in ToDevice
      <4>1. wire[h].toDevice \in Seq(ToDevice)
        BY Typed DEF BridgeIInv
      <4> QED BY <3>1, <4>1 DEF Down, Range
    <3> QED BY <3>2, DeviceMessage
  <2>5. jobs'[a].got <= n /\ \A h \in Conns : \A m \in Down(h)' : m.kind = "tool" /\ m.attempt = a => m.call <= n
    BY <2>1, <2>2, <2>3, <2>4
  <2>6. call'[a].token = n
    BY <1>3
  <2> QED BY <2>2, <2>3, <2>5, <2>6 DEF ToolFacts
<1>10. call'[a].at # "completed" /\ (GivenUp(a)' => GivenUp(a) \/ Cancels(a))
  BY <1>3 DEF GivenUp
<1> QED BY <1>5, <1>6, <1>8, <1>9, <1>10, CallStepHolds

\* The thread of a call takes a tool call: the turn is suspended, or cannot be continued.
LEMMA TakeSuspensionStep == ASSUME BridgeIInv, NEW a \in Attempts, TakeSuspension(a) PROVE BridgeIInv'
<1>1. /\ call[a].at \in {"awaiting", "resuming"} /\ items[a] # <<>> /\ Head(items[a]).kind = "call"
      /\ items' = [items EXCEPT ![a] = Tail(@)]
      /\ UNCHANGED <<device, jobs, interrupted, late, session, pending, outcome, reported, belated>>
  BY DEF TakeSuspension, Waiting
<1>2. PICK n \in Nat : n = Head(items[a]).call
  BY <1>1, CallTaken
<1>3. call \in [Attempts -> CallStates] /\ call[a] \in CallStates
  BY CallStart
<1>4. CASE /\ call' = [call EXCEPT ![a].at = "suspended", ![a].token = n, ![a].told = FALSE]
           /\ handles' = Registered(a, n) /\ records' = Closed(a) \union {Token(a, n)} /\ UNCHANGED <<wire, astray>>
  <2>1. PICK c : c = [call[a] EXCEPT !.at = "suspended", !.token = n, !.told = FALSE]
    OBVIOUS
  <2>2. c \in CallStates /\ c.at = "suspended" /\ c.token = n /\ ~c.told
    BY <1>3, <2>1 DEF CallStates, Stages
  <2>3. call' = [call EXCEPT ![a] = c]
    BY <1>3, <1>4, <2>1
  <2> QED BY <1>1, <1>2, <1>4, <2>2, <2>3, Admission
<1>5. CASE /\ call' = [call EXCEPT ![a] = [At(@, "disconnected") EXCEPT !.token = n]]
           /\ handles' = Registered(a, n) /\ records' = Closed(a) \union {Token(a, n)}
           /\ IF call[a].told THEN UNCHANGED <<wire, astray>> ELSE Cancels(a)
  <2>1. PICK c : c = [At(call[a], "disconnected") EXCEPT !.token = n]
    OBVIOUS
  <2>2. c \in CallStates /\ c.at = "disconnected" /\ c.token = n
    <3>1. At(call[a], "disconnected") \in CallStates /\ At(call[a], "disconnected").at = "disconnected"
      BY <1>3, CallEnds DEF Ended
    <3> QED BY <2>1, <3>1 DEF CallStates
  <2>3. call' = [call EXCEPT ![a] = c]
    BY <1>3, <1>5, <2>1
  <2> QED BY <1>1, <1>2, <1>5, <2>2, <2>3, Admission
<1>6. CASE Ends(a, "uncontinued") /\ handles' = Dropped(a) /\ records' = Closed(a) /\ Cancels(a)
  <2>1. PICK D : Closed(a) = records \ D /\ Dropped(a) = handles \ D
    BY LegEnds
  <2>2. "uncontinued" \in Ended \union Stages
    BY DEF Ended
  <2> QED BY <1>1, <1>6, <2>1, <2>2, VerdictStep
<1> QED BY <1>2, <1>4, <1>5, <1>6 DEF TakeSuspension

-----------------------------------------------------------------------------
(* The end of a session on the server. *)

\* The session of g ends with a write of m that fails (an m that nobody minds when none was written); the call whose
\* message it was becomes ambiguous.
LEMMA CloseStep ==
    ASSUME BridgeIInv, NEW g \in Conns, session[g] = "open", NEW m \in ToDevice, NEW w \in FailedWrite(g, m), CloseSession(g, w),
           call' \in [Attempts -> CallStates],
           \A b \in Attempts : m.attempt = b => call'[b].at = "ambiguous",
           \A b \in Attempts : m = Execute(b) => call[b].at = "idle",
           \A b \in Attempts : m.kind = "tool" /\ m.attempt = b => m.call = call[b].token,
           \A b \in Attempts : call'[b] = call[b] \/ (call'[b].at = "ambiguous" /\ call'[b].token = call[b].token /\ ~call'[b].told),
           handles' \subseteq Attempts \X Nat, RecordFacts',
           UNCHANGED <<device, jobs, interrupted, late, items, reported, belated, astray>>
    PROVE  BridgeIInv'
<1>1. /\ wire \in Wires /\ session \in [Conns -> {"none", "open", "closed"}] /\ pending \in [Conns -> SUBSET Attempts]
      /\ outcome \in [Attempts -> Statuses \union {"interrupted", None}] /\ ConnectionFacts /\ SessionFacts /\ device.conn \in Conns
      /\ \A h \in Conns : h \in Nat
  BY Typed DEF BridgeIInv, BridgeTypes
<1>2. \A b \in Attempts : m = Execute(b) => jobs[b] = NoJob /\ \A h \in Conns : Down(h) \cap To(b) = {}
  BY FactsOf DEF FreshFacts
<1>3. /\ wire' \in Wires /\ \A h \in Conns \ {g} : wire'[h] = wire[h]
      /\ Up(g)' = {} /\ ~wire'[g].up
      /\ Down(g)' = Down(g) \/ (wire[g].up /\ Down(g)' = Down(g) \union {m})
      /\ (\A b \in Attempts : m = Execute(b) => Down(g) \cap To(b) = {}) => Orders(g)
  BY <1>1, ServerEnds DEF CloseSession
<1>4. \A h \in Conns \ {g} : Down(h)' = Down(h) /\ Up(h)' = Up(h) /\ wire'[h].up = wire[h].up /\ Orders(h)
  BY <1>3, Untouched
<1>5. \A h \in Conns : /\ Orders(h) /\ Up(h)' \subseteq Up(h) /\ Down(h) \subseteq Down(h)'
                       /\ \A n \in Down(h)' : n \in Down(h) \/ (h = g /\ n = m)
  BY <1>2, <1>3, <1>4
<1>6. /\ session' = [session EXCEPT ![g] = "closed"] /\ pending' = [pending EXCEPT ![g] = {}]
      /\ outcome' = [a \in Attempts |-> IF a \in pending[g] THEN Resolved(a, "interrupted") ELSE outcome[a]]
  BY DEF CloseSession
<1>7. /\ session' \in [Conns -> {"none", "open", "closed"}] /\ pending' \in [Conns -> SUBSET Attempts]
      /\ session'[g] = "closed" /\ pending'[g] = {} /\ \A h \in Conns \ {g} : session'[h] = session[h] /\ pending'[h] = pending[h]
      /\ \A h \in Conns : session'[h] = "none" <=> session[h] = "none"
  BY <1>1, <1>6
<1>8. /\ outcome' \in [Attempts -> Statuses \union {"interrupted", None}]
      /\ \A b \in Attempts : outcome'[b] = "completed" => outcome[b] = "completed"
  BY <1>1, <1>6 DEF Resolved
<1>9. BridgeTypes'
  BY <1>3, <1>7, <1>8 DEF BridgeIInv, BridgeTypes
<1>10. ConnectionFacts'
  BY <1>1, <1>3, <1>4, <1>7 DEF ConnectionFacts
<1>11. SessionFacts'
  BY <1>1, <1>7 DEF SessionFacts, Open
<1>12. ASSUME NEW b \in Attempts PROVE AttemptFacts(b)'
  <2>1. FreshFacts(b) /\ ExecuteFacts(b) /\ JobFacts(b) /\ CallFacts(b) /\ ToolFacts(b) /\ VerdictFacts(b) /\ CancelFacts(b)
    BY FactsOf
  <2>2. jobs' = jobs /\ items' = items /\ call[b].token \in Nat
    BY Typed DEF BridgeIInv, CallStates
  <2>3. /\ call'[b] = call[b] \/ (call'[b].at = "ambiguous" /\ call'[b].token = call[b].token /\ ~call'[b].told)
        /\ m.attempt = b => call'[b].at = "ambiguous"
        /\ call'[b].token = call[b].token
    OBVIOUS
  <2>4. FreshFacts(b)'
    <3>1. call'[b].at \in {"idle", "refused"} => call'[b] = call[b] /\ m \notin To(b)
      BY <2>3 DEF To
    <3> QED BY <1>5, <1>7, <2>1, <2>2, <3>1 DEF FreshFacts
  <2>5. ExecuteFacts(b)'
    <3> SUFFICES ASSUME NEW h \in Conns
                 PROVE  /\ ExecuteFirst(h, b)'
                        /\ Execute(b) \in Down(h)' => jobs[b].st = "none" /\ \A k \in Conns \ {h} : Execute(b) \notin Down(k)'
                        /\ b \in pending'[h] /\ wire'[h].up /\ jobs[b].st = "none" => Execute(b) \in Down(h)' \/ ResultIn(h, b)'
      BY <2>2 DEF ExecuteFacts, Execute, Frame
    <3>1. ExecuteFirst(h, b)'
      BY <1>5, <2>1 DEF ExecuteFacts, Orders
    <3>2. Execute(b) \in To(b)
      BY Messages DEF To, Execute, Frame
    <3>3. Execute(b) \in Down(h)' => jobs[b].st = "none" /\ \A k \in Conns \ {h} : Execute(b) \notin Down(k)'
      <4>1. CASE m = Execute(b)
        BY <1>2, <1>5, <3>2, <4>1 DEF NoJob
      <4>2. CASE m # Execute(b)
        BY <1>5, <2>1, <4>2 DEF ExecuteFacts
      <4> QED BY <4>1, <4>2
    <3>4. b \in pending'[h] => h # g
      BY <1>7
    <3>5. h # g => (ResultIn(h, b)' <=> ResultIn(h, b))
      BY <1>4 DEF ResultIn
    <3> QED BY <1>4, <1>7, <2>1, <3>1, <3>3, <3>4, <3>5 DEF ExecuteFacts
  <2>6. JobFacts(b)'
    BY <1>7, <2>1, <2>2 DEF JobFacts
  <2>7. CallFacts(b)'
    <3>1. \A n : UnderWay(b, n)' <=> UnderWay(b, n)
      BY <2>2, <2>3 DEF UnderWay
    <3>2. \A h \in Conns : OneCall(h, b)'
      BY <1>5, <2>1 DEF CallFacts, Orders
    <3> QED BY <1>5, <2>1, <2>2, <2>3, <3>1, <3>2 DEF CallFacts
  <2>8. ToolFacts(b)'
    <3>1. \A h \in Conns : \A n \in Down(h)' : n.kind = "tool" /\ n.attempt = b => n \in Down(h) \/ (n = m /\ n.call = call[b].token /\ call'[b].at = "ambiguous")
      BY <1>5, <2>3
    <3>2. \A h \in Conns : \A n \in Down(h)' : n.kind = "tool" /\ n.attempt = b => n.call <= call[b].token
      BY <2>1, <2>2, <3>1 DEF ToolFacts
    <3>3. call'[b].at \in {"suspended", "delivering", "lost"} => call'[b] = call[b]
      BY <2>3
    <3> QED BY <2>1, <2>2, <2>3, <3>1, <3>2, <3>3 DEF ToolFacts
  <2>9. VerdictFacts(b)'
    <3>1. call'[b].at = "completed" => call'[b] = call[b]
      BY <2>3
    <3> QED BY <1>5, <1>8, <2>1, <2>2, <3>1 DEF VerdictFacts, Done
  <2>10. CancelFacts(b)'
    <3>1. GivenUp(b)' => GivenUp(b)
      BY <2>3 DEF GivenUp
    <3>2. \A h \in Conns \ {g} : ResultIn(h, b)' <=> ResultIn(h, b)
      BY <1>4 DEF ResultIn
    <3> QED BY <1>4, <1>7, <2>1, <2>2, <3>1, <3>2 DEF CancelFacts
  <2> QED BY <2>4, <2>5, <2>6, <2>7, <2>8, <2>9, <2>10 DEF AttemptFacts
<1> QED BY <1>9, <1>10, <1>11, <1>12 DEF BridgeIInv

\* The server finds a connection lost, and ends its session.
LEMMA LoseSessionStep == ASSUME BridgeIInv, NEW g \in Conns, LoseSession(g) PROVE BridgeIInv'
<1>1. PICK m \in ToDevice : m.attempt = None /\ m.kind = "denied"
  BY Messages DEF Frame
<1>2. /\ session[g] = "open" /\ CloseSession(g, ServerCloses(wire[g])) /\ ServerCloses(wire[g]) \in FailedWrite(g, m)
      /\ UNCHANGED <<device, jobs, interrupted, late, items, call, handles, records, reported, belated, astray>>
  BY DEF LoseSession, FailedWrite
<1>3. handles' \subseteq Attempts \X Nat /\ RecordFacts' /\ call' \in [Attempts -> CallStates]
  BY <1>2 DEF BridgeIInv, BridgeTypes, RecordFacts
<1>4. \A b \in Attempts : m.attempt # b /\ m # Execute(b)
  BY <1>1, BridgeAssumption DEF Execute, Frame
<1> QED BY <1>1, <1>2, <1>3, <1>4, CloseStep

-----------------------------------------------------------------------------
(* Sending an execute. *)

\* The call of a writes m to the row that is chosen, or nothing; what it leaves true of everything but a's own call.
LEMMA SpeakStep ==
    ASSUME BridgeIInv, NEW a \in Attempts, NEW g \in Conns, NEW m \in ToDevice, m.attempt = a, m = Execute(a) => call[a].at = "idle",
           wire' = wire \/ (session[g] = "open" /\ wire' = Written(g, m)),
           pending' \in [Conns -> SUBSET Attempts], \A h \in Conns : \A b \in Attempts \ {a} : b \in pending'[h] => b \in pending[h],
           call' \in [Attempts -> CallStates], \A b \in Attempts \ {a} : call'[b] = call[b],
           handles' \subseteq Attempts \X Nat, RecordFacts', SessionFacts', AttemptFacts(a)',
           UNCHANGED <<device, jobs, interrupted, late, session, items, outcome, reported, belated, astray>>
    PROVE  BridgeIInv'
<1>1. wire \in Wires /\ ConnectionFacts /\ device.conn \in Conns
  BY Typed DEF BridgeIInv
<1>2. m = Execute(a) => \A h \in Conns : Down(h) \cap To(a) = {}
  BY FactsOf DEF FreshFacts
<1>3. \A b \in Attempts \ {a} : m # Execute(b) /\ m \notin To(b)
  BY DEF Execute, Frame, To
<1>4. /\ wire' \in Wires
      /\ \A h \in Conns : /\ Up(h)' = Up(h) /\ wire'[h].up = wire[h].up /\ Orders(h) /\ Down(h) \subseteq Down(h)'
                          /\ \A n \in Down(h)' : n \in Down(h) \/ (n = m /\ session[h] = "open")
  <2>1. CASE wire' = wire
    BY <1>1, <2>1, Untouched
  <2>2. CASE session[g] = "open" /\ wire' = Written(g, m)
    <3>1. /\ wire' \in Wires
          /\ \A h \in Conns :
                /\ Up(h)' = Up(h) /\ wire'[h].up = wire[h].up
                /\ Down(h)' = IF h = g /\ wire[g].up THEN Down(h) \union {m} ELSE Down(h)
                /\ (h = g => \A b \in Attempts : m = Execute(b) => Down(g) \cap To(b) = {}) => Orders(h)
      BY <1>1, <2>2, ServerWrites
    <3>2. \A b \in Attempts : m = Execute(b) => Down(g) \cap To(b) = {}
      BY <1>2, <1>3
    <3> QED BY <2>2, <3>1, <3>2
  <2> QED BY <2>1, <2>2
<1>5. BridgeTypes'
  BY <1>4 DEF BridgeIInv, BridgeTypes
<1>6. ConnectionFacts'
  <2>1. \A h \in Conns : session[h] = "none" => Down(h)' = Down(h)
    BY <1>4
  <2>2. \A h \in Conns : Up(h)' = Up(h) /\ wire'[h].up = wire[h].up
    BY <1>4
  <2> QED BY <1>1, <2>1, <2>2 DEF ConnectionFacts
<1>7. ASSUME NEW b \in Attempts \ {a} PROVE AttemptFacts(b)'
  <2>1. /\ FreshFacts(b) /\ ExecuteFacts(b) /\ JobFacts(b) /\ CallFacts(b) /\ ToolFacts(b) /\ VerdictFacts(b) /\ CancelFacts(b)
        /\ call'[b] = call[b] /\ jobs' = jobs /\ items' = items
    BY FactsOf
  <2>2. \A h \in Conns : /\ Down(h)' \cap To(b) = Down(h) \cap To(b) /\ (Execute(b) \in Down(h)' <=> Execute(b) \in Down(h))
                         /\ (ResultIn(h, b)' <=> ResultIn(h, b)) /\ (Cancel(b) \in Down(h) => Cancel(b) \in Down(h)')
                         /\ \A n \in Down(h)' : n.attempt = b => n \in Down(h)
                         /\ b \in pending'[h] => b \in pending[h]
    BY <1>3, <1>4 DEF ResultIn
  <2>3. FreshFacts(b)'
    BY <2>1, <2>2 DEF FreshFacts
  <2>4. ExecuteFacts(b)'
    <3>1. \A h \in Conns : ExecuteFirst(h, b)'
      BY <1>4, <2>1 DEF ExecuteFacts, Orders
    <3> QED BY <1>4, <2>1, <2>2, <3>1 DEF ExecuteFacts
  <2>5. JobFacts(b)'
    BY <2>1 DEF JobFacts
  <2>6. CallFacts(b)'
    <3>1. \A n : UnderWay(b, n)' <=> UnderWay(b, n)
      BY <2>1 DEF UnderWay
    <3>2. \A h \in Conns : OneCall(h, b)' /\ Up(h)' = Up(h)
      BY <1>4, <2>1 DEF CallFacts, Orders
    <3> QED BY <2>1, <3>1, <3>2 DEF CallFacts
  <2>7. ToolFacts(b)'
    BY <2>1, <2>2 DEF ToolFacts
  <2>8. VerdictFacts(b)'
    BY <1>4, <2>1 DEF VerdictFacts, Done
  <2>9. CancelFacts(b)'
    <3>1. GivenUp(b)' <=> GivenUp(b)
      BY <2>1 DEF GivenUp
    <3> QED BY <1>4, <2>1, <2>2, <3>1 DEF CancelFacts
  <2> QED BY <2>3, <2>4, <2>5, <2>6, <2>7, <2>8, <2>9 DEF AttemptFacts
<1> QED BY <1>5, <1>6, <1>7 DEF BridgeIInv

\* What is known of an attempt whose call has not begun.
LEMMA BeginStart ==
    ASSUME BridgeIInv, NEW a \in Attempts, call[a].at = "idle"
    PROVE  /\ call \in [Attempts -> CallStates] /\ call[a] \in CallStates /\ call[a].token = 0 /\ ~call[a].told
           /\ jobs[a] = NoJob /\ \A h \in Conns : a \notin pending[h] /\ Down(h) \cap To(a) = {}
  BY CallStart, FactsOf DEF FreshFacts, CallFacts

\* The thread of a call sends its execute, is refused, or does not know whether it was sent (submit_execute).
LEMMA BeginStep == ASSUME BridgeIInv, NEW a \in Attempts, Begin(a) PROVE BridgeIInv'
<1>1. /\ call[a].at = "idle"
      /\ UNCHANGED <<device, jobs, interrupted, late, items, handles, records, reported, belated, astray>>
  BY DEF Begin
<1>2. /\ call \in [Attempts -> CallStates] /\ call[a] \in CallStates /\ call[a].token = 0 /\ ~call[a].told
      /\ jobs[a] = NoJob /\ \A h \in Conns : a \notin pending[h] /\ Down(h) \cap To(a) = {}
  BY <1>1, BeginStart
<1>3. /\ pending \in [Conns -> SUBSET Attempts] /\ wire \in Wires /\ SessionFacts /\ RecordFacts /\ handles \subseteq Attempts \X Nat
      /\ device.conn \in Conns
  BY Typed DEF BridgeIInv, BridgeTypes
<1>4. Execute(a) \in ToDevice /\ Execute(a).attempt = a /\ Execute(a) \in To(a) /\ Execute(a).kind = "execute"
  BY Messages DEF Execute, Frame, To
<1>5. ASSUME NEW v \in Ended \union Stages, Ends(a, v)
      PROVE  /\ call' \in [Attempts -> CallStates] /\ call'[a].at = v /\ call'[a].token = 0 /\ ~call'[a].told
             /\ \A b \in Attempts \ {a} : call'[b] = call[b]
             /\ RecordFacts'
  <2>1. call' = [call EXCEPT ![a] = At(call[a], v)]
    BY <1>5 DEF Ends
  <2>2. At(call[a], v) \in CallStates /\ At(call[a], v).at = v /\ At(call[a], v).token = 0 /\ ~At(call[a], v).told
    <3>1. At(call[a], v).told => call[a].told
      BY <1>2, CallEnds
    <3> QED BY <1>2, <3>1, CallEnds
  <2>3. call' \in [Attempts -> CallStates] /\ call'[a] = At(call[a], v) /\ \A b \in Attempts \ {a} : call'[b] = call[b]
    BY <1>2, <2>1, <2>2
  <2>4. RecordFacts'
    <3>1. \A t \in records : t \in Attempts \X Nat /\ t[2] # 0 /\ call[t[1]].at \notin {"idle", "refused"}
      BY CallStart
    <3>2. \A t \in records : t[1] \in Attempts \ {a}
      BY <1>1, <3>1
    <3> QED BY <1>1, <1>3, <2>3, <3>1, <3>2 DEF RecordFacts
  <2> QED BY <2>2, <2>3, <2>4
<1>6. /\ ExecuteFacts(a) /\ JobFacts(a) /\ CallFacts(a) /\ ToolFacts(a) /\ VerdictFacts(a)
      /\ \A h \in Conns : ExecuteFirst(h, a)
  BY FactsOf DEF ExecuteFacts
<1>7. CASE Ends(a, "refused") /\ UNCHANGED <<wire, session, pending, outcome>>
  <2>1. "refused" \in Ended \union Stages
    BY DEF Ended
  <2>2. /\ call' \in [Attempts -> CallStates] /\ call'[a].at = "refused" /\ call'[a].token = 0 /\ ~call'[a].told
        /\ \A b \in Attempts \ {a} : call'[b] = call[b]
        /\ RecordFacts'
    BY <1>5, <1>7, <2>1
  <2>3. \A h \in Conns : Down(h)' = Down(h) /\ Up(h)' = Up(h) /\ wire'[h].up = wire[h].up /\ Orders(h)
    BY <1>7, Untouched
  <2>4. SessionFacts'
    BY <1>1, <1>3, <1>7 DEF SessionFacts, Open
  <2>5. FreshFacts(a)'
    BY <1>1, <1>2, <1>7, <2>2, <2>3 DEF FreshFacts
  <2>6. ExecuteFacts(a)'
    BY <1>1, <1>2, <1>4, <1>6, <1>7, <2>3 DEF ExecuteFacts, Orders
  <2>7. JobFacts(a)'
    BY <1>1, <1>6, <1>7 DEF JobFacts
  <2>8. CallFacts(a)'
    <3>1. \A n : UnderWay(a, n)' <=> UnderWay(a, n)
      BY <1>1, <1>2, <2>2 DEF UnderWay
    <3>2. \A h \in Conns : OneCall(h, a)'
      BY <1>6, <2>3 DEF CallFacts, Orders
    <3> QED BY <1>1, <1>2, <1>6, <2>2, <2>3, <3>1, <3>2 DEF CallFacts
  <2>9. ToolFacts(a)'
    BY <1>1, <1>2, <1>6, <2>2, <2>3 DEF ToolFacts
  <2>10. VerdictFacts(a)'
    BY <1>1, <1>6, <1>7, <2>2, <2>3 DEF VerdictFacts, Done
  <2>11. CancelFacts(a)'
    BY <2>2 DEF CancelFacts, GivenUp
  <2>12. AttemptFacts(a)'
    BY <2>5, <2>6, <2>7, <2>8, <2>9, <2>10, <2>11 DEF AttemptFacts
  <2> QED BY <1>1, <1>3, <1>4, <1>7, <2>2, <2>4, <2>12, SpeakStep
<1>8. CASE Reachable /\ UNCHANGED <<session, outcome>> /\ Ends(a, "awaiting")
           /\ pending' = [pending EXCEPT ![SessionFor] = @ \union {a}] /\ wire' = Written(SessionFor, Execute(a))
  <2>0. PICK g \in Conns : g = SessionFor /\ session[g] = "open" /\ \A h \in Open : g <= h
    BY <1>8, ChosenRow
  <2>1. "awaiting" \in Ended \union Stages
    BY DEF Stages
  <2>2. /\ call' \in [Attempts -> CallStates] /\ call'[a].at = "awaiting" /\ call'[a].token = 0 /\ ~call'[a].told
        /\ \A b \in Attempts \ {a} : call'[b] = call[b]
        /\ RecordFacts'
    BY <1>5, <1>8, <2>1
  <2>3. /\ pending' \in [Conns -> SUBSET Attempts] /\ pending'[g] = pending[g] \union {a}
        /\ \A h \in Conns \ {g} : pending'[h] = pending[h]
    BY <1>3, <1>8, <2>0
  <2>4. /\ wire' = Written(g, Execute(a))
        /\ \A h \in Conns :
             /\ Up(h)' = Up(h) /\ wire'[h].up = wire[h].up /\ Orders(h)
             /\ Down(h)' = IF h = g /\ wire[g].up THEN Down(h) \union {Execute(a)} ELSE Down(h)
    <3>1. \A b \in Attempts : Execute(a) = Execute(b) => Down(g) \cap To(b) = {}
      BY <1>2 DEF Execute, Frame
    <3>2. wire' = Written(g, Execute(a))
      BY <1>8, <2>0
    <3>3. \A h \in Conns :
             /\ Up(h)' = Up(h) /\ wire'[h].up = wire[h].up
             /\ Down(h)' = IF h = g /\ wire[g].up THEN Down(h) \union {Execute(a)} ELSE Down(h)
             /\ (h = g => \A b \in Attempts : Execute(a) = Execute(b) => Down(g) \cap To(b) = {}) => Orders(h)
      BY <1>3, <1>4, <3>2, ServerWrites
    <3> QED BY <3>1, <3>2, <3>3
  <2>5. SessionFacts'
    BY <1>1, <1>3, <1>8, <2>0, <2>3 DEF SessionFacts, Open, Reachable
  <2>6. FreshFacts(a)'
    BY <2>2 DEF FreshFacts
  <2>7. ExecuteFacts(a)'
    <3>1. \A h \in Conns : ExecuteFirst(h, a)'
      BY <1>6, <2>4 DEF Orders
    <3>2. \A h \in Conns : Execute(a) \notin Down(h)
      BY <1>2, <1>4
    <3>3. jobs'[a].st = "none"
      BY <1>1, <1>2 DEF NoJob
    <3>4. \A h \in Conns : a \in pending'[h] => h = g
      BY <1>2, <2>3
    <3> QED BY <2>4, <3>1, <3>2, <3>3, <3>4 DEF ExecuteFacts
  <2>8. JobFacts(a)'
    BY <1>1, <1>6, <1>8 DEF JobFacts
  <2>9. CallFacts(a)'
    <3>1. \A n : UnderWay(a, n)' <=> UnderWay(a, n)
      BY <1>1, <1>2, <2>2 DEF UnderWay
    <3>2. \A h \in Conns : OneCall(h, a)'
      BY <1>6, <2>4 DEF CallFacts, Orders
    <3> QED BY <1>1, <1>2, <1>6, <2>2, <2>4, <3>1, <3>2 DEF CallFacts
  <2>10. ToolFacts(a)'
    <3>1. \A h \in Conns : \A n \in Down(h)' : n.kind = "tool" => n \in Down(h)
      BY <1>4, <2>4
    <3> QED BY <1>1, <1>2, <1>6, <2>2, <3>1 DEF ToolFacts
  <2>11. VerdictFacts(a)'
    BY <1>1, <1>6, <1>8, <2>2, <2>4 DEF VerdictFacts, Done
  <2>12. CancelFacts(a)'
    BY <2>2 DEF CancelFacts, GivenUp
  <2>13. AttemptFacts(a)'
    BY <2>6, <2>7, <2>8, <2>9, <2>10, <2>11, <2>12 DEF AttemptFacts
  <2> QED BY <1>1, <1>3, <1>4, <1>8, <2>0, <2>2, <2>3, <2>4, <2>5, <2>13, SpeakStep
<1>9. ASSUME Reachable, NEW w \in FailedWrite(SessionFor, Execute(a)), Ends(a, "ambiguous"), CloseSession(SessionFor, w)
      PROVE  BridgeIInv'
  <2>0. PICK g \in Conns : g = SessionFor /\ session[g] = "open"
    BY <1>9, ChosenRow
  <2>1. "ambiguous" \in Ended \union Stages
    BY DEF Ended
  <2>2. /\ call' \in [Attempts -> CallStates] /\ call'[a].at = "ambiguous" /\ call'[a].token = 0 /\ ~call'[a].told
        /\ \A b \in Attempts \ {a} : call'[b] = call[b]
        /\ RecordFacts'
    BY <1>5, <1>9, <2>1
  <2>3. \A b \in Attempts : Execute(a) = Execute(b) => b = a
    BY DEF Execute, Frame
  <2>4. w \in FailedWrite(g, Execute(a)) /\ CloseSession(g, w)
    BY <1>9, <2>0
  <2>5. \A b \in Attempts : call'[b] = call[b] \/ (call'[b].at = "ambiguous" /\ call'[b].token = call[b].token /\ ~call'[b].told)
    BY <1>2, <2>2
  <2>6. \A b \in Attempts : /\ (Execute(a).attempt = b => call'[b].at = "ambiguous") /\ (Execute(a) = Execute(b) => call[b].at = "idle")
                            /\ (Execute(a).kind = "tool" /\ Execute(a).attempt = b => Execute(a).call = call[b].token)
    BY <1>1, <1>4, <2>2, <2>3
  <2> QED BY <1>1, <1>3, <1>4, <2>0, <2>2, <2>4, <2>5, <2>6, CloseStep
<1> QED BY <1>7, <1>8, <1>9 DEF Begin, BeginFailure

-----------------------------------------------------------------------------
(* Sending a tool result. *)

\* A continued call sends its tool result, finds its turn lost, or does not know whether it was sent (deliver_tool_result).
LEMMA DeliverStep == ASSUME BridgeIInv, NEW a \in Attempts, Deliver(a) PROVE BridgeIInv'
<1>1. /\ call[a].at = "delivering"
      /\ UNCHANGED <<device, jobs, interrupted, late, items, reported, belated>>
  BY DEF Deliver
<1>2. /\ call \in [Attempts -> CallStates] /\ call[a] \in CallStates /\ call[a].token \in Nat
      /\ pending \in [Conns -> SUBSET Attempts] /\ SessionFacts /\ RecordFacts /\ handles \subseteq Attempts \X Nat
      /\ records \subseteq handles /\ \A t \in records : t \in Attempts \X Nat /\ t[2] # 0 /\ call[t[1]].at \notin {"idle", "refused"}
  BY CallStart DEF BridgeIInv, BridgeTypes
<1>3. PICK m \in ToDevice : /\ m = Frame("tool", a, call[a].token, None)
                            /\ m.kind = "tool" /\ m.attempt = a /\ m.call = call[a].token
  BY <1>2, Messages DEF Frame
<1>4. \A b \in Attempts : m # Execute(b)
  BY <1>3 DEF Execute, Frame
<1>5. ASSUME NEW v \in Ended \union Stages, v \notin {"idle", "refused"}, Ends(a, v), NEW D, records' = records \ D, handles' = handles \ D
      PROVE  /\ call' \in [Attempts -> CallStates] /\ call'[a].at = v /\ call'[a].token = call[a].token /\ (call'[a].told => call[a].told)
             /\ \A b \in Attempts \ {a} : call'[b] = call[b]
             /\ RecordFacts' /\ handles' \subseteq Attempts \X Nat
  <2>1. call' = [call EXCEPT ![a] = At(call[a], v)]
    BY <1>5 DEF Ends
  <2>2. /\ At(call[a], v) \in CallStates /\ At(call[a], v).at = v /\ At(call[a], v).token = call[a].token
        /\ At(call[a], v).told => call[a].told
    BY <1>2, CallEnds
  <2>3. call' \in [Attempts -> CallStates] /\ call'[a] = At(call[a], v) /\ \A b \in Attempts \ {a} : call'[b] = call[b]
    BY <1>2, <2>1, <2>2
  <2>4. RecordFacts' /\ handles' \subseteq Attempts \X Nat
    BY <1>2, <1>5, <2>2, <2>3 DEF RecordFacts
  <2> QED BY <2>2, <2>3, <2>4
<1>6. CASE /\ Ends(a, "cancelled") /\ records' = records \ {Held(a)} /\ handles' = handles \ {Held(a)} /\ Cancels(a)
           /\ UNCHANGED <<session, pending, outcome>>
  <2>1. "cancelled" \in Ended \union Stages /\ items' = items
    BY <1>1 DEF Ended
  <2> QED BY <1>1, <1>6, <2>1, VerdictStep
<1>7. CASE /\ Ends(a, "lost") /\ records' = records \ {Held(a)} /\ UNCHANGED <<wire, astray>> /\ (handles' = handles \/ handles' = handles \ {Held(a)})
           /\ UNCHANGED <<session, pending, outcome>>
  <2>1. "lost" \in Ended \union Stages /\ items' = items
    BY <1>1 DEF Ended
  <2> QED BY <1>1, <1>7, <2>1, VerdictStep
<1>8. CASE /\ Reachable /\ a \in pending[SessionFor] /\ Ends(a, "resuming") /\ wire' = Written(SessionFor, m)
           /\ UNCHANGED <<session, pending, outcome, handles, records, astray>>
  <2>0. PICK g \in Conns : g = SessionFor /\ session[g] = "open"
    BY <1>8, ChosenRow
  <2>1. "resuming" \in Ended \union Stages
    BY DEF Stages
  <2>2. records' = records \ {} /\ handles' = handles \ {}
    BY <1>8
  <2>3. /\ call' \in [Attempts -> CallStates] /\ call'[a].at = "resuming" /\ call'[a].token = call[a].token /\ (call'[a].told => call[a].told)
        /\ \A b \in Attempts \ {a} : call'[b] = call[b]
        /\ RecordFacts' /\ handles' \subseteq Attempts \X Nat
    BY <1>5, <1>8, <2>1, <2>2
  <2>4. /\ ExecuteFacts(a) /\ JobFacts(a) /\ CallFacts(a) /\ ToolFacts(a) /\ VerdictFacts(a) /\ CancelFacts(a)
        /\ wire \in Wires
    BY FactsOf DEF BridgeIInv, BridgeTypes
  <2>5. wire' = Written(g, m)
    BY <1>8, <2>0
  <2>6. \A h \in Conns : /\ Up(h)' = Up(h) /\ wire'[h].up = wire[h].up /\ Orders(h)
                         /\ Down(h) \subseteq Down(h)' /\ \A n \in Down(h)' : n \in Down(h) \/ n = m
    BY <1>4, <2>4, <2>5, ServerWrites
  <2>7. \A h \in Conns : (Execute(a) \in Down(h)' <=> Execute(a) \in Down(h)) /\ (ResultIn(h, a)' <=> ResultIn(h, a))
    BY <1>4, <2>6 DEF ResultIn
  <2>8. FreshFacts(a)'
    BY <2>3 DEF FreshFacts
  <2>9. ExecuteFacts(a)'
    <3>1. \A h \in Conns : ExecuteFirst(h, a)'
      BY <2>4, <2>6 DEF ExecuteFacts, Orders
    <3> QED BY <1>1, <1>8, <2>4, <2>6, <2>7, <3>1 DEF ExecuteFacts
  <2>10. JobFacts(a)'
    BY <1>1, <1>8, <2>4 DEF JobFacts
  <2>11. CallFacts(a)'
    <3>1. \A n : UnderWay(a, n)' <=> UnderWay(a, n)
      BY <1>1, <2>3 DEF UnderWay
    <3>2. \A h \in Conns : OneCall(h, a)'
      BY <2>4, <2>6 DEF CallFacts, Orders
    <3> QED BY <1>1, <2>3, <2>4, <2>6, <3>1, <3>2 DEF CallFacts
  <2>12. ToolFacts(a)'
    <3>1. \A h \in Conns : \A n \in Down(h)' : n.kind = "tool" /\ n.attempt = a => n.call <= call[a].token
      BY <1>2, <1>3, <2>4, <2>6 DEF ToolFacts
    <3> QED BY <1>1, <2>3, <2>4, <3>1 DEF ToolFacts
  <2>13. VerdictFacts(a)'
    BY <1>1, <1>8, <2>3, <2>4, <2>6 DEF VerdictFacts, Done
  <2>14. CancelFacts(a)'
    <3>1. GivenUp(a)' => GivenUp(a)
      BY <2>3 DEF GivenUp
    <3> QED BY <1>1, <1>8, <2>4, <2>6, <2>7, <3>1 DEF CancelFacts
  <2>15. AttemptFacts(a)'
    BY <2>8, <2>9, <2>10, <2>11, <2>12, <2>13, <2>14 DEF AttemptFacts
  <2>16. SessionFacts'
    BY <1>1, <1>2, <1>8 DEF SessionFacts, Open
  <2>17. wire' = wire \/ (session[g] = "open" /\ wire' = Written(g, m))
    BY <2>0, <2>5
  <2>18. \A h \in Conns : \A b \in Attempts \ {a} : b \in pending'[h] => b \in pending[h]
    BY <1>8
  <2>19. pending' \in [Conns -> SUBSET Attempts]
    BY <1>2, <1>8
  <2>20. m = Execute(a) => call[a].at = "idle"
    BY <1>4
  <2> QED BY <1>1, <1>3, <1>8, <2>3, <2>15, <2>16, <2>17, <2>18, <2>19, <2>20, SpeakStep
<1>9. ASSUME Reachable, NEW w \in FailedWrite(SessionFor, m), Ends(a, "ambiguous"), CloseSession(SessionFor, w),
             records' = records \ {Held(a)}, handles' = handles \ {Held(a)}, astray' = astray
      PROVE  BridgeIInv'
  <2>0. PICK g \in Conns : g = SessionFor /\ session[g] = "open"
    BY <1>9, ChosenRow
  <2>1. "ambiguous" \in Ended \union Stages
    BY DEF Ended
  <2>2. /\ call' \in [Attempts -> CallStates] /\ call'[a].at = "ambiguous" /\ call'[a].token = call[a].token
        /\ \A b \in Attempts \ {a} : call'[b] = call[b]
        /\ RecordFacts' /\ handles' \subseteq Attempts \X Nat
    BY <1>5, <1>9, <2>1
  <2>3. ~call'[a].told
    <3>1. call' = [call EXCEPT ![a] = At(call[a], "ambiguous")]
      BY <1>9 DEF Ends
    <3>2. ~At(call[a], "ambiguous").told
      BY <1>2 DEF At, Ended, CallStates
    <3> QED BY <1>2, <3>1, <3>2
  <2>4. w \in FailedWrite(g, m) /\ CloseSession(g, w)
    BY <1>9, <2>0
  <2>5. \A b \in Attempts : call'[b] = call[b] \/ (call'[b].at = "ambiguous" /\ call'[b].token = call[b].token /\ ~call'[b].told)
    BY <2>2, <2>3
  <2>6. \A b \in Attempts : /\ (m.attempt = b => call'[b].at = "ambiguous") /\ (m = Execute(b) => call[b].at = "idle")
                            /\ (m.kind = "tool" /\ m.attempt = b => m.call = call[b].token)
    BY <1>3, <1>4, <2>2
  <2> QED BY <1>1, <1>9, <2>0, <2>2, <2>4, <2>5, <2>6, CloseStep
<1> QED BY <1>3, <1>6, <1>7, <1>8, <1>9 DEF Deliver, TornDelivery

-----------------------------------------------------------------------------
(* What the server reads. *)

\* The reader of g takes what comes first, an m that is then no longer on its way; it may say something of m's attempt alone.
LEMMA ReadStep ==
    ASSUME BridgeIInv, NEW g \in Conns, session[g] = "open", wire[g].toServer # <<>>,
           wire' = [wire EXCEPT ![g].toServer = Tail(@)], NEW m, m = Head(wire[g].toServer),
           pending' \in [Conns -> SUBSET Attempts], \A h \in Conns : pending'[h] \subseteq pending[h],
           m.kind = "result" => m.attempt \notin pending'[g],
           items' \in [Attempts -> Seq(ToServer)],
           \A a \in Attempts : items'[a] = items[a] \/ (items'[a] = Append(items[a], m) /\ m.attempt = a),
           outcome' \in [Attempts -> Statuses \union {"interrupted", None}],
           \A a \in Attempts : outcome'[a] = "completed" => outcome[a] = "completed" \/ m = Frame("result", a, 0, "completed"),
           reported' \in BOOLEAN, reported => reported',
           UNCHANGED <<device, jobs, interrupted, late, session, call, handles, records, belated, astray>>
    PROVE  BridgeIInv'
<1>1. wire \in Wires /\ ConnectionFacts /\ SessionFacts /\ device.conn \in Conns
  BY Typed DEF BridgeIInv
<1>2. /\ wire' \in Wires
      /\ \A h \in Conns \ {g} : wire'[h] = wire[h]
      /\ Down(g)' = Down(g) /\ wire'[g].up = wire[g].up /\ Orders(g)
      /\ m \in ToServer /\ Up(g) = {m} \union Up(g)'
      /\ \A a \in Attempts : OneCall(g, a) /\ m \in Calls(a) => Up(g)' \cap Calls(a) = {}
  BY <1>1, ServerReads
<1>3. \A h \in Conns \ {g} : Down(h)' = Down(h) /\ Up(h)' = Up(h) /\ wire'[h].up = wire[h].up /\ Orders(h)
  BY <1>2, Untouched
<1>4. \A h \in Conns : /\ Down(h)' = Down(h) /\ wire'[h].up = wire[h].up /\ Orders(h)
                       /\ Up(h)' \subseteq Up(h) /\ \A n \in Up(h) : n \in Up(h)' \/ (h = g /\ n = m)
  BY <1>2, <1>3
<1>5. BridgeTypes' /\ SessionFacts' /\ RecordFacts'
  BY <1>1, <1>2 DEF BridgeIInv, BridgeTypes, SessionFacts, RecordFacts, Open
<1>6. ConnectionFacts'
  BY <1>1, <1>4 DEF ConnectionFacts
<1>7. ASSUME NEW a \in Attempts PROVE AttemptFacts(a)'
  <2>1. /\ FreshFacts(a) /\ ExecuteFacts(a) /\ JobFacts(a) /\ CallFacts(a) /\ ToolFacts(a) /\ VerdictFacts(a) /\ CancelFacts(a)
        /\ call' = call /\ jobs' = jobs /\ session' = session /\ items[a] \in Seq(ToServer)
    BY FactsOf, Typed DEF BridgeIInv
  <2>2. \A h \in Conns : a \in pending'[h] /\ ResultIn(h, a) => a \in pending[h] /\ ResultIn(h, a)'
    BY <1>4 DEF ResultIn
  <2>3. \A h \in Conns : a \in pending'[h] => a \in pending[h]
    OBVIOUS
  <2>4. FreshFacts(a)'
    BY <1>4, <2>1, <2>3 DEF FreshFacts
  <2>5. ExecuteFacts(a)'
    <3>1. \A h \in Conns : ExecuteFirst(h, a)'
      BY <1>4, <2>1 DEF ExecuteFacts, Orders
    <3> QED BY <1>4, <2>1, <2>2, <2>3, <3>1 DEF ExecuteFacts
  <2>6. JobFacts(a)'
    BY <2>1 DEF JobFacts
  <2>7. CallFacts(a)'
    <3>1. \A n : UnderWay(a, n)' <=> UnderWay(a, n)
      BY <2>1 DEF UnderWay
    <3>2. \A h \in Conns : OneCall(h, a)'
      BY <1>4, <2>1 DEF CallFacts, Orders
    <3>3. /\ items[a] \in Seq(ToServer) /\ (\A n \in Range(items[a]) : n.attempt = a) /\ Before(items[a], Calls(a), Calls(a))
          /\ \A n \in Range(items[a]) \cap Calls(a) : UnderWay(a, n)
          /\ \A h \in Conns : \A n \in Up(h) \cap Calls(a) : UnderWay(a, n) /\ h = jobs[a].conn /\ Range(items[a]) \cap Calls(a) = {}
      BY <2>1 DEF CallFacts
    <3>4. CASE items'[a] = items[a]
      <4>1. \A h \in Conns : \A n \in Up(h)' \cap Calls(a) : UnderWay(a, n) /\ h = jobs[a].conn /\ Range(items[a]) \cap Calls(a) = {}
        BY <1>4, <3>3
      <4> QED BY <2>1, <3>1, <3>2, <3>3, <3>4, <4>1 DEF CallFacts
    <3>5. CASE items'[a] = Append(items[a], m) /\ m.attempt = a
      <4>1. /\ Range(items'[a]) = Range(items[a]) \union {m}
            /\ m \in Calls(a) => Range(items[a]) \cap Calls(a) = {}
        <5>1. m \in Calls(a) => Range(items[a]) \cap Calls(a) = {}
          BY <1>2, <3>3
        <5>2. Range(Append(items[a], m)) = Range(items[a]) \union {m}
          BY <1>2, <3>3, Appended
        <5> QED BY <3>5, <5>1, <5>2
      <4>2. Before(items'[a], Calls(a), Calls(a))
        <5>1. Before(Append(items[a], m), Calls(a), Calls(a))
          BY <1>2, <3>3, <4>1, Appended
        <5> QED BY <3>5, <5>1
      <4>3. m \in Calls(a) => UnderWay(a, m) /\ \A h \in Conns : Up(h)' \cap Calls(a) = {}
        <5> SUFFICES ASSUME m \in Calls(a) PROVE UnderWay(a, m) /\ \A h \in Conns : Up(h)' \cap Calls(a) = {}
          OBVIOUS
        <5>1. UnderWay(a, m) /\ g = jobs[a].conn
          BY <1>2, <3>3
        <5>2. Up(g)' \cap Calls(a) = {}
          BY <1>2, <2>1 DEF CallFacts
        <5>3. \A h \in Conns \ {g} : Up(h)' \cap Calls(a) = {}
          BY <1>3, <3>3, <5>1
        <5> QED BY <5>1, <5>2, <5>3
      <4>4. m \notin Calls(a) => Range(items'[a]) \cap Calls(a) = Range(items[a]) \cap Calls(a)
        BY <4>1
      <4>5. \A h \in Conns : \A n \in Up(h)' \cap Calls(a) : UnderWay(a, n) /\ h = jobs[a].conn /\ Range(items'[a]) \cap Calls(a) = {}
        BY <1>4, <3>3, <4>3, <4>4
      <4>6. (\A n \in Range(items'[a]) : n.attempt = a) /\ \A n \in Range(items'[a]) \cap Calls(a) : UnderWay(a, n)
        BY <3>3, <3>5, <4>1, <4>3
      <4> QED BY <2>1, <3>1, <3>2, <4>2, <4>5, <4>6 DEF CallFacts
    <3> QED BY <3>4, <3>5
  <2>8. ToolFacts(a)'
    BY <1>4, <2>1 DEF ToolFacts
  <2>9. VerdictFacts(a)'
    <3>1. m = Frame("result", a, 0, "completed") => Done(a)
      BY <1>2, <2>1 DEF VerdictFacts
    <3> QED BY <1>4, <2>1, <3>1 DEF VerdictFacts, Done
  <2>10. CancelFacts(a)'
    <3>1. GivenUp(a)' <=> GivenUp(a)
      BY <2>1 DEF GivenUp
    <3> QED BY <1>4, <2>1, <2>2, <2>3, <3>1 DEF CancelFacts
  <2> QED BY <2>4, <2>5, <2>6, <2>7, <2>8, <2>9, <2>10 DEF AttemptFacts
<1> QED BY <1>5, <1>6, <1>7 DEF BridgeIInv

\* The session reads a frame of the device (_handle_message).
LEMMA ReceiveStep == ASSUME BridgeIInv, NEW g \in Conns, Receive(g) PROVE BridgeIInv'
<1>1. PICK m : m = Head(wire[g].toServer)
  OBVIOUS
<1>2. /\ session[g] = "open" /\ wire[g].toServer # <<>> /\ wire' = [wire EXCEPT ![g].toServer = Tail(@)]
      /\ UNCHANGED <<device, jobs, interrupted, late, session, call, handles, records, belated, astray>>
      /\ reported' = (reported \/ m.kind = "report")
      /\ IF m.kind \in {"result", "interrupted"} /\ m.attempt \in pending[g]
         THEN /\ pending' = [pending EXCEPT ![g] = @ \ {m.attempt}]
              /\ outcome' = [outcome EXCEPT ![m.attempt] = Resolved(m.attempt, IF m.kind = "result" THEN m.status ELSE "interrupted")]
         ELSE UNCHANGED <<pending, outcome>>
      /\ items' = IF m.kind \in {"chunk", "garbled", "call"} /\ m.attempt \in pending[g] THEN Pushed(m.attempt, m) ELSE items
  BY <1>1 DEF Receive
<1>3. /\ pending \in [Conns -> SUBSET Attempts] /\ items \in [Attempts -> Seq(ToServer)] /\ reported \in BOOLEAN
      /\ outcome \in [Attempts -> Statuses \union {"interrupted", None}]
  BY DEF BridgeIInv, BridgeTypes
<1>4. m \in ToServer
  <2>1. wire[g].toServer \in Seq(ToServer)
    BY Typed DEF BridgeIInv
  <2> QED BY <1>1, <1>2, <2>1
<1>5. /\ pending' \in [Conns -> SUBSET Attempts] /\ \A h \in Conns : pending'[h] \subseteq pending[h]
      /\ m.kind = "result" => m.attempt \notin pending'[g]
  <2>1. CASE m.kind \in {"result", "interrupted"} /\ m.attempt \in pending[g]
    <3>1. pending' = [pending EXCEPT ![g] = pending[g] \ {m.attempt}]
      BY <1>2, <2>1
    <3> QED BY <1>3, <3>1
  <2>2. CASE ~(m.kind \in {"result", "interrupted"} /\ m.attempt \in pending[g])
    <3>1. pending' = pending
      BY <1>2, <2>2
    <3> QED BY <1>3, <2>2, <3>1
  <2> QED BY <2>1, <2>2
<1>6. /\ items' \in [Attempts -> Seq(ToServer)]
      /\ \A a \in Attempts : items'[a] = items[a] \/ (items'[a] = Append(items[a], m) /\ m.attempt = a)
  <2>1. CASE items' = items
    BY <1>3, <2>1
  <2>2. CASE m.attempt \in pending[g] /\ items' = [items EXCEPT ![m.attempt] = Append(@, m)]
    <3>1. PICK b \in Attempts : b = m.attempt
      BY <1>3, <2>2
    <3>2. items' = [items EXCEPT ![b] = Append(items[b], m)] /\ Append(items[b], m) \in Seq(ToServer)
      BY <1>3, <1>4, <2>2, <3>1
    <3> QED BY <1>3, <3>1, <3>2
  <2> QED BY <1>2, <2>1, <2>2 DEF Pushed
<1>7. /\ outcome' \in [Attempts -> Statuses \union {"interrupted", None}]
      /\ \A a \in Attempts : outcome'[a] = "completed" => outcome[a] = "completed" \/ m = Frame("result", a, 0, "completed")
  <2>1. CASE outcome' = outcome
    BY <1>3, <2>1
  <2>2. CASE /\ m.kind \in {"result", "interrupted"} /\ m.attempt \in pending[g]
             /\ outcome' = [outcome EXCEPT ![m.attempt] = Resolved(m.attempt, IF m.kind = "result" THEN m.status ELSE "interrupted")]
    <3>1. PICK b \in Attempts : b = m.attempt
      BY <1>3, <2>2
    <3>2. PICK o \in Statuses \union {"interrupted"} : /\ o = IF m.kind = "result" THEN m.status ELSE "interrupted"
                                                       /\ o = "completed" => m = Frame("result", b, 0, "completed")
      <4>1. CASE m.kind = "result"
        BY <1>4, <3>1, <4>1, ServerMessage
      <4>2. CASE m.kind # "result"
        BY <4>2
      <4> QED BY <4>1, <4>2
    <3>3. PICK p \in Statuses \union {"interrupted", None} : p = Resolved(b, o) /\ (p = outcome[b] \/ p = o)
      BY <1>3 DEF Resolved
    <3>4. outcome' = [outcome EXCEPT ![b] = p]
      BY <2>2, <3>1, <3>2, <3>3
    <3> QED BY <1>3, <3>2, <3>3, <3>4
  <2> QED BY <1>2, <2>1, <2>2
<1>8. reported' \in BOOLEAN /\ (reported => reported')
  BY <1>2, <1>3
<1>9. /\ session[g] = "open" /\ wire[g].toServer # <<>> /\ wire' = [wire EXCEPT ![g].toServer = Tail(@)]
      /\ UNCHANGED <<device, jobs, interrupted, late, session, call, handles, records, belated, astray>>
  BY <1>2
<1> QED BY <1>1, <1>5, <1>6, <1>7, <1>8, <1>9, ReadStep

-----------------------------------------------------------------------------
(* The handshake on the server. *)

\* What the handshake leaves of a connection on which the server had sent nothing.
LEMMA Answered ==
    ASSUME wire \in Wires, NEW g \in Conns, wire[g].toServer # <<>>, NEW m \in ToDevice, m.attempt = None, NEW trusted \in BOOLEAN,
           wire' = [wire EXCEPT ![g] = [toServer |-> Tail(@.toServer), up |-> @.up /\ trusted,
                                        toDevice |-> IF @.up THEN <<m>> ELSE <<>>]]
    PROVE  /\ wire' \in Wires /\ \A h \in Conns \ {g} : wire'[h] = wire[h]
           /\ Up(g)' \subseteq Up(g) /\ Down(g)' \subseteq {m} /\ (wire'[g].up => wire[g].up)
           /\ \A a \in Attempts : ExecuteFirst(g, a)' /\ (OneCall(g, a) => OneCall(g, a)')
<1>1. wire[g] \in [toDevice : Seq(ToDevice), toServer : Seq(ToServer), up : BOOLEAN]
  BY DEF Wires
<1>2. PICK q : q = IF wire[g].up THEN <<m>> ELSE <<>>
  OBVIOUS
<1>3. q \in Seq(ToDevice) /\ Range(q) \subseteq {m} /\ \A K, L : Before(q, K, L)
  <2>1. CASE q = <<>>
    BY <2>1, Nothing
  <2>2. CASE q = <<m>>
    <3>1. DOMAIN q = {1} /\ q[1] = m /\ q \in Seq(ToDevice)
      BY <2>2
    <3> QED BY <3>1 DEF Range, Before
  <2> QED BY <1>2, <2>1, <2>2
<1>4. PICK r \in Seq(ToServer) : r = Tail(wire[g].toServer) /\ Range(r) \subseteq Up(g) /\ \A K, L : Before(wire[g].toServer, K, L) => Before(r, K, L)
  <2>1. PICK p : p = wire[g].toServer /\ p \in Seq(ToServer) /\ p # <<>>
    BY <1>1
  <2>2. Tail(p) \in Seq(ToServer) /\ Range(p) = {Head(p)} \union Range(Tail(p)) /\ \A K, L : Before(p, K, L) => Before(Tail(p), K, L)
    BY <2>1, Taken
  <2>3. Range(Tail(p)) \subseteq Up(g)
    BY <2>1, <2>2 DEF Up
  <2> QED BY <2>1, <2>2, <2>3
<1>5. PICK b \in BOOLEAN : b = (wire[g].up /\ trusted)
  OBVIOUS
<1>6. wire' = [wire EXCEPT ![g] = [toServer |-> r, up |-> b, toDevice |-> q]]
  BY <1>2, <1>4, <1>5
<1>7. [toServer |-> r, up |-> b, toDevice |-> q] \in [toDevice : Seq(ToDevice), toServer : Seq(ToServer), up : BOOLEAN]
  BY <1>3
<1>8. wire' \in Wires /\ wire'[g] = [toServer |-> r, up |-> b, toDevice |-> q] /\ \A h \in Conns \ {g} : wire'[h] = wire[h]
  BY <1>6, <1>7 DEF Wires
<1>9. wire'[g].toServer = r /\ wire'[g].toDevice = q /\ wire'[g].up = b
  BY <1>8
<1>10. Up(g)' \subseteq Up(g) /\ Down(g)' \subseteq {m} /\ (wire'[g].up => wire[g].up)
  BY <1>3, <1>4, <1>5, <1>9 DEF Down, Up
<1>11. \A a \in Attempts : ExecuteFirst(g, a)' /\ (OneCall(g, a) => OneCall(g, a)')
  BY <1>3, <1>4, <1>9 DEF ExecuteFirst, OneCall
<1> QED BY <1>8, <1>10, <1>11

\* A handshake is answered on the device's present connection, the latest of all the rows, or on one it has left: a belated row.
LEMMA AuthenticateStep == ASSUME BridgeIInv, NEW g \in Conns, Authenticate(g) PROVE BridgeIInv'
<1>1. PICK trusted \in BOOLEAN :
         /\ belated' = IF trusted /\ ~wire[g].up THEN belated \union {g} ELSE belated
         /\ session' = [session EXCEPT ![g] = IF trusted THEN "open" ELSE "closed"]
         /\ wire' = [wire EXCEPT ![g] = [toServer |-> Tail(@.toServer), up |-> @.up /\ trusted,
               toDevice |-> IF @.up THEN <<Frame(IF trusted THEN "ack" ELSE "denied", None, 0, None)>> ELSE <<>>]]
  BY DEF Authenticate
<1>2. /\ session[g] = "none" /\ wire[g].toServer # <<>>
      /\ UNCHANGED <<device, jobs, interrupted, late, pending, items, outcome, call, handles, records, reported, astray>>
  BY DEF Authenticate
<1>3. /\ wire \in Wires /\ session \in [Conns -> {"none", "open", "closed"}] /\ ConnectionFacts /\ SessionFacts /\ device.conn \in Conns
      /\ \A h \in Conns : h \in Nat
  BY Typed DEF BridgeIInv, BridgeTypes
<1>4. /\ Up(g) # {} /\ Down(g) = {} /\ pending[g] = {}
      /\ g <= device.conn /\ (g = device.conn => device.phase # "connecting") /\ (g # device.conn => ~wire[g].up)
  <2>1. Up(g) # {}
    BY <1>2, Typed DEF BridgeIInv
  <2> QED BY <1>2, <1>3, <2>1 DEF ConnectionFacts, SessionFacts
<1>5. PICK m \in ToDevice : m = Frame(IF trusted THEN "ack" ELSE "denied", None, 0, None) /\ m.attempt = None
  BY Messages DEF Frame
<1>6. /\ wire' \in Wires /\ \A h \in Conns \ {g} : wire'[h] = wire[h]
      /\ Up(g)' \subseteq Up(g) /\ Down(g)' \subseteq {m} /\ (wire'[g].up => wire[g].up)
      /\ \A a \in Attempts : ExecuteFirst(g, a)' /\ (OneCall(g, a) => OneCall(g, a)')
  <2>1. wire' = [wire EXCEPT ![g] = [toServer |-> Tail(@.toServer), up |-> @.up /\ trusted, toDevice |-> IF @.up THEN <<m>> ELSE <<>>]]
    BY <1>1, <1>5
  <2> QED BY <1>2, <1>3, <1>5, <2>1, Answered
<1>7. \A h \in Conns \ {g} : Down(h)' = Down(h) /\ Up(h)' = Up(h) /\ wire'[h].up = wire[h].up /\ Orders(h)
  BY <1>6, Untouched
<1>8. /\ session' \in [Conns -> {"none", "open", "closed"}] /\ session'[g] \in {"open", "closed"}
      /\ \A h \in Conns \ {g} : session'[h] = session[h]
  <2>1. PICK s \in {"open", "closed"} : s = IF trusted THEN "open" ELSE "closed"
    OBVIOUS
  <2>2. session' = [session EXCEPT ![g] = s]
    BY <1>1, <2>1
  <2> QED BY <1>3, <2>1, <2>2
<1>9. BridgeTypes' /\ RecordFacts'
  <2>1. belated' \subseteq Conns
    BY <1>1 DEF BridgeIInv, BridgeTypes
  <2> QED BY <1>2, <1>6, <1>8, <2>1 DEF BridgeIInv, BridgeTypes, RecordFacts
<1>10. ConnectionFacts'
  BY <1>2, <1>3, <1>4, <1>6, <1>7, <1>8 DEF ConnectionFacts
<1>11. SessionFacts'
  <2> SUFFICES ASSUME NEW h \in Conns, pending[h] # {}
               PROVE  session'[h] = "open" /\ reported /\ \A k \in Conns : session'[k] = "open" => h <= k \/ k \in belated'
    BY <1>2 DEF SessionFacts, Open
  <2>1. h # g /\ session[h] = "open" /\ reported /\ \A k \in Conns : session[k] = "open" => h <= k \/ k \in belated
    BY <1>3, <1>4 DEF SessionFacts, Open
  <2>2. session'[g] = "open" => h <= g \/ g \in belated'
    <3>1. session'[g] = "open" => trusted
      BY <1>1, <1>3
    <3>2. h <= device.conn
      BY <1>3, <2>1 DEF ConnectionFacts
    <3> QED BY <1>1, <1>4, <3>1, <3>2
  <2>3. belated \subseteq belated'
    BY <1>1
  <2> QED BY <1>8, <2>1, <2>2, <2>3
<1>12. ASSUME NEW a \in Attempts PROVE AttemptFacts(a)'
  <2>1. /\ FreshFacts(a) /\ ExecuteFacts(a) /\ JobFacts(a) /\ CallFacts(a) /\ ToolFacts(a) /\ VerdictFacts(a) /\ CancelFacts(a)
        /\ call' = call /\ jobs' = jobs /\ items' = items /\ outcome' = outcome /\ pending' = pending
    BY <1>2, FactsOf
  <2>2. /\ m \notin To(a) /\ m # Execute(a) /\ m.attempt # a
    BY <1>5, BridgeAssumption DEF To, Execute, Frame
  <2>3. \A h \in Conns : /\ \A n \in Down(h)' : n.attempt = a => n \in Down(h)
                         /\ (Execute(a) \in Down(h)' => Execute(a) \in Down(h)) /\ Up(h)' \subseteq Up(h)
                         /\ ExecuteFirst(h, a)' /\ OneCall(h, a)'
    BY <1>6, <1>7, <2>1, <2>2 DEF Orders, ExecuteFacts, CallFacts
  <2>4. \A h \in Conns : a \in pending[h] => h # g
    BY <1>4
  <2>5. \A h \in Conns \ {g} : ResultIn(h, a)' <=> ResultIn(h, a)
    BY <1>7 DEF ResultIn
  <2>6. FreshFacts(a)'
    BY <2>1, <2>3 DEF FreshFacts, To
  <2>7. ExecuteFacts(a)'
    BY <1>7, <2>1, <2>3, <2>4, <2>5 DEF ExecuteFacts
  <2>8. JobFacts(a)'
    BY <1>8, <2>1 DEF JobFacts
  <2>9. CallFacts(a)'
    <3>1. \A n : UnderWay(a, n)' <=> UnderWay(a, n)
      BY <2>1 DEF UnderWay
    <3> QED BY <2>1, <2>3, <3>1 DEF CallFacts
  <2>10. ToolFacts(a)'
    BY <2>1, <2>3 DEF ToolFacts
  <2>11. VerdictFacts(a)'
    BY <2>1, <2>3 DEF VerdictFacts, Done
  <2>12. CancelFacts(a)'
    <3>1. GivenUp(a)' <=> GivenUp(a)
      BY <2>1 DEF GivenUp
    <3> QED BY <1>2, <1>7, <2>1, <2>4, <2>5, <3>1 DEF CancelFacts
  <2> QED BY <2>6, <2>7, <2>8, <2>9, <2>10, <2>11, <2>12 DEF AttemptFacts
<1> QED BY <1>9, <1>10, <1>11, <1>12 DEF BridgeIInv

-----------------------------------------------------------------------------
(* The invariant and what follows from it. *)

\* Before anything has happened every connection is to come, and nothing is known of any attempt.
LEMMA BridgeStarts == BridgeInit => BridgeIInv
<1> SUFFICES ASSUME BridgeInit PROVE BridgeIInv
  OBVIOUS
<1>1. 1 \in Conns /\ \A g \in Conns : g \in Nat /\ g >= 1
  BY BridgeAssumption DEF Conns
<1>2. /\ device = [phase |-> "connecting", conn |-> 1, stop |-> FALSE, ended |-> FALSE, reason |-> None]
      /\ wire = [g \in Conns |-> [toDevice |-> <<>>, toServer |-> <<>>, up |-> FALSE]]
      /\ jobs = [a \in Attempts |-> NoJob] /\ interrupted = {} /\ late = {}
      /\ session = [g \in Conns |-> "none"] /\ pending = [g \in Conns |-> {}]
      /\ items = [a \in Attempts |-> <<>>] /\ outcome = [a \in Attempts |-> None]
      /\ call = [a \in Attempts |-> NoCall] /\ handles = {} /\ records = {} /\ reported = FALSE /\ belated = {} /\ astray = {}
  BY DEF BridgeInit, DeviceInit
<1>3. device \in Devices /\ device.conn = 1 /\ device.phase = "connecting"
  BY <1>1, <1>2 DEF Devices, Phases
<1>4. NoJob \in JobStates /\ NoJob.st = "none" /\ ~NoJob.tracked /\ NoJob.asks = 0 /\ NoJob.got = 0
  BY DEF NoJob, JobStates
<1>5. NoCall \in CallStates /\ NoCall.at = "idle" /\ NoCall.token = 0 /\ ~NoCall.told
  BY DEF NoCall, CallStates, Stages
<1>6. wire \in Wires /\ \A g \in Conns : wire[g].toDevice = <<>> /\ wire[g].toServer = <<>> /\ ~wire[g].up
  BY <1>2, Nothing DEF Wires
<1>7. \A g \in Conns : Down(g) = {} /\ Up(g) = {}
  BY <1>6, Nothing DEF Down, Up
<1>8. items \in [Attempts -> Seq(ToServer)]
  BY <1>2, Nothing
<1>9. BridgeTypes
  BY <1>2, <1>3, <1>4, <1>5, <1>6, <1>8 DEF BridgeTypes
<1>10. ConnectionFacts
  BY <1>1, <1>2, <1>3, <1>6, <1>7 DEF ConnectionFacts
<1>11. SessionFacts /\ RecordFacts
  BY <1>2 DEF SessionFacts, RecordFacts
<1>12. ASSUME NEW a \in Attempts PROVE AttemptFacts(a)
  <2>1. jobs[a] = NoJob /\ call[a] = NoCall /\ items[a] = <<>> /\ \A g \in Conns : a \notin pending[g] /\ session[g] = "none"
    BY <1>2
  <2>2. outcome[a] # "completed"
    BY <1>2, BridgeAssumption DEF Statuses
  <2>3. Range(items[a]) = {} /\ \A K, L : Before(items[a], K, L)
    BY <2>1, Nothing
  <2>4. \A g \in Conns : ExecuteFirst(g, a) /\ OneCall(g, a)
    BY <1>6, Nothing DEF ExecuteFirst, OneCall
  <2>5. FreshFacts(a) /\ ExecuteFacts(a)
    BY <1>5, <1>7, <2>1, <2>4 DEF FreshFacts, ExecuteFacts
  <2>6. JobFacts(a)
    BY <1>4, <2>1 DEF JobFacts
  <2>7. CallFacts(a)
    BY <1>4, <1>5, <1>7, <2>1, <2>3, <2>4 DEF CallFacts
  <2>8. ToolFacts(a) /\ VerdictFacts(a) /\ CancelFacts(a)
    BY <1>4, <1>5, <1>7, <2>1, <2>2 DEF ToolFacts, VerdictFacts, CancelFacts
  <2> QED BY <2>5, <2>6, <2>7, <2>8 DEF AttemptFacts
<1> QED BY <1>9, <1>10, <1>11, <1>12 DEF BridgeIInv

\* A step that touches none of the bridge's state.
LEMMA StutterStep == ASSUME BridgeIInv, UNCHANGED bridgeVars PROVE BridgeIInv'
<1>1. /\ UNCHANGED <<wire, device, jobs, interrupted, late, session, pending, items, outcome, call, handles, records, reported, belated, astray>>
      /\ UNCHANGED serverVars
  BY DEF bridgeVars, deviceVars, serverVars
<1>2. ConnectionFacts' /\ wire' \in Wires /\ device' \in Devices /\ interrupted' \subseteq Attempts
  BY <1>1, Untouched, Typed DEF BridgeIInv, BridgeTypes, ConnectionFacts
<1> QED BY <1>1, <1>2, StaysQuiet, LoopStep

\* The invariant is kept by whatever the device, the server, a client or the network does.
LEMMA BridgeSteps == BridgeIInv /\ [BridgeNext]_bridgeVars => BridgeIInv'
<1> SUFFICES ASSUME BridgeIInv, [BridgeNext]_bridgeVars PROVE BridgeIInv'
  OBVIOUS
<1>1. CASE RunLoop /\ UNCHANGED serverVars
  BY <1>1, ConnectStep, BackoffStep, HandshakeStep, FlushStep, FailInFlightStep, ClosingStep, DispatchStep DEF RunLoop
<1>2. ASSUME NEW a \in Attempts, Job(a), UNCHANGED serverVars PROVE BridgeIInv'
  BY <1>2, EmitStep, AskStep, BridgeReturnsStep, FinishStep, OverStep DEF Job
<1>3. ASSUME NEW a \in Attempts, DeadlineTimer(a), UNCHANGED serverVars PROVE BridgeIInv'
  BY <1>3, DeadlineTimerStep
<1>4. ASSUME NEW g \in Conns, Reader(g) PROVE BridgeIInv'
  BY <1>4, AuthenticateStep, ReceiveStep, LoseSessionStep DEF Reader
<1>5. ASSUME NEW a \in Attempts, Call(a) PROVE BridgeIInv'
  BY <1>5, BeginStep, SeeCancelledStep, TakeChunkStep, TakeSuspensionStep, TakeOutcomeStep, TimesOutStep, DeliverStep DEF Call
<1>6. ASSUME NEW a \in Attempts, Reap(a) \/ DeadlinePasses(a) PROVE BridgeIInv'
  BY <1>6, ReapStep, DeadlinePassesStep
<1>7. CASE RequestStop /\ UNCHANGED serverVars
  BY <1>7, RequestStopStep
<1>8. CASE Break /\ UNCHANGED serverVars
  BY <1>8, BreakStep
<1>9. ASSUME NEW a \in Attempts, CannotFrame(a), UNCHANGED serverVars PROVE BridgeIInv'
  BY <1>9, OverStep
<1>10. ASSUME NEW a \in Attempts, Claim(a) \/ ClientLeaves(a) PROVE BridgeIInv'
  BY <1>10, ClaimStep, ClientLeavesStep
<1>11. CASE Threads
  BY <1>1, <1>2, <1>3, <1>4, <1>5, <1>6, <1>11 DEF Threads
<1>12. CASE Environment
  BY <1>7, <1>8, <1>9, <1>10, <1>12 DEF Environment
<1>13. CASE UNCHANGED bridgeVars
  BY <1>13, StutterStep
<1> QED BY <1>11, <1>12, <1>13 DEF BridgeNext

\* The attempts refused before they were sent, those answered as lost and those answered as completed are what the
\* invariant says of them.
LEMMA AnswersFollow == BridgeIInv => AnswersAreTrue
<1> SUFFICES ASSUME BridgeIInv PROVE AnswersAreTrue
  OBVIOUS
<1>1. BridgeTypeOK
  BY Typed DEF BridgeIInv, BridgeTypes, SessionFacts, RecordFacts, BridgeTypeOK, CallStates, Stages
<1>2. RefusedNeverRuns
  <2> SUFFICES ASSUME NEW a \in Attempts, call[a].at = "refused" PROVE jobs[a].st = "none" /\ \A g \in Conns : Execute(a) \notin Down(g)
    BY DEF RefusedNeverRuns
  <2>1. Execute(a) \in To(a)
    BY Messages DEF To, Execute, Frame
  <2> QED BY <2>1, FactsOf DEF FreshFacts, NoJob
<1>3. LostIsUnconsumed
  <2> SUFFICES ASSUME NEW a \in Attempts, call[a].at = "lost"
               PROVE  jobs[a].got # call[a].token /\ \A g \in Conns : Frame("tool", a, call[a].token, None) \notin Down(g)
    BY DEF LostIsUnconsumed
  <2>1. /\ jobs[a].got < call[a].token /\ jobs[a].got \in Nat /\ call[a].token \in Nat
        /\ \A g \in Conns : \A m \in Down(g) : m.kind = "tool" /\ m.attempt = a => m.call < call[a].token
    BY FactsOf, Typed DEF ToolFacts, BridgeIInv, JobStates, CallStates
  <2>2. \A n : Frame("tool", a, n, None).kind = "tool" /\ Frame("tool", a, n, None).attempt = a /\ Frame("tool", a, n, None).call = n
    BY DEF Frame
  <2>3. ~(call[a].token < call[a].token)
    BY <2>1
  <2> QED BY <2>1, <2>2, <2>3
<1>4. CompletedIsReported
  BY FactsOf DEF CompletedIsReported, VerdictFacts, Done
<1> QED BY <1>1, <1>2, <1>3, <1>4 DEF AnswersAreTrue

\* The row that is chosen is the one that tracks, and a call that was given up is cancelled there, but for belated rows.
LEMMA CancelsFollow == BridgeIInv => OnlyBelatedRowsMislead
<1> SUFFICES ASSUME BridgeIInv PROVE OnlyBelatedRowsMislead
  OBVIOUS
<1>1. OwnerIsChosen
  BY ChosenRow DEF OwnerIsChosen
<1>2. AbandonedIsCancelled
  BY FactsOf DEF AbandonedIsCancelled, CancelFacts, GivenUp, CancelUnderWay
<1> QED BY <1>1, <1>2 DEF OnlyBelatedRowsMislead

\* The facts about connections, sessions, records and attempts hold in every behaviour of the bridge, whatever its
\* connections lose (worker_client.py, worker_endpoint.py, worker_bridged_adapter.py together).
THEOREM BridgeIsInductive == BridgeSpec => []BridgeIInv
<1>1. BridgeInit => BridgeIInv
  BY BridgeStarts
<1>2. BridgeIInv /\ [BridgeNext]_bridgeVars => BridgeIInv'
  BY BridgeSteps
<1> QED BY <1>1, <1>2, PTL DEF BridgeSpec

\* An attempt refused never runs, a lost continuation has not been consumed and a completed call was completed by the
\* device, for every number of attempts, connections, tool calls and faults (submit_execute, deliver_tool_result, _result_from).
THEOREM AnswersStayTrue == BridgeSpec => []AnswersAreTrue
<1>1. BridgeIInv => AnswersAreTrue
  BY AnswersFollow
<1> QED BY <1>1, BridgeIsInductive, PTL

\* Cancels and tool results go to the row that tracks the attempt, and no turn that was given up runs on uncancelled on
\* a connection that is up, unless a row published after the device had left its connection takes them
\* (session_for_resource, _send_cancel_best_effort).
THEOREM CancelsMissForBelatedRowsOnly == BridgeSpec => []OnlyBelatedRowsMislead
<1>1. BridgeIInv => OnlyBelatedRowsMislead
  BY CancelsFollow
<1> QED BY <1>1, BridgeIsInductive, PTL
=============================================================================
