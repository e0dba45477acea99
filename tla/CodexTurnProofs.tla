--------------------------- MODULE CodexTurnProofs ---------------------------
(***************************************************************************)
(* One attempt of the Codex adapter, for every set of calls, tables and     *)
(* hosts and every bound: TurnIInv is inductive, and the result of an       *)
(* attempt says what its turn did.  Then the plan run, the loopback         *)
(* endpoint and the reports of LocalAdapters, for every machine and every   *)
(* reply: what they say is what happened.                                   *)
(***************************************************************************)
EXTENDS LocalAdapters, SequenceTheorems, TLAPS

-----------------------------------------------------------------------------
(* The pipe: what a line is, and what reading or writing one changes.       *)

\* A line carries what its kind says.
LEMMA LineKinds == ASSUME NEW l \in Line
    PROVE /\ l.kind \in {"answer", "stray", "garbage", "request", "delta", "tool call", "ended"}
          /\ l.kind = "answer" => l.says \in UNION {AnswersTo(m) : m \in Awaited}
          /\ l.kind = "request" => l.approval \in BOOLEAN
          /\ l.kind = "delta" => l.nth \in Nat
          /\ l.kind = "tool call" => l.sound \in BOOLEAN
          /\ l.kind = "ended" => l.status \in Endings
<1> DEFINE A == UNION {AnswersTo(m) : m \in Awaited}
           E == Endings
<1>1. l \in [kind : {"answer"}, says : A] \union [kind : {"stray", "garbage"}]
      \union [kind : {"request"}, approval : BOOLEAN] \union [kind : {"delta"}, nth : Nat]
      \union [kind : {"tool call"}, sound : BOOLEAN] \union [kind : {"ended"}, status : E]
  BY DEF Line
<1>2. SUFFICES /\ l.kind \in {"answer", "stray", "garbage", "request", "delta", "tool call", "ended"}
               /\ l.kind = "answer" => l.says \in A
               /\ l.kind = "request" => l.approval \in BOOLEAN
               /\ l.kind = "delta" => l.nth \in Nat
               /\ l.kind = "tool call" => l.sound \in BOOLEAN
               /\ l.kind = "ended" => l.status \in E
  OBVIOUS
<1> HIDE DEF A, E
<1> QED BY <1>1

\* What the runtime writes is a line.
LEMMA LinesWritten ==
    /\ \A n \in Nat : [kind |-> "delta", nth |-> n] \in Line
    /\ \A b \in BOOLEAN : [kind |-> "tool call", sound |-> b] \in Line /\ [kind |-> "request", approval |-> b] \in Line
    /\ \A k \in {"stray", "garbage"} : [kind |-> k] \in Line
    /\ \A s \in Endings : [kind |-> "ended", status |-> s] \in Line
    /\ \A m \in Awaited : \A v \in AnswersTo(m) : [kind |-> "answer", says |-> v] \in Line
<1>1. \A m \in Awaited : \A v \in AnswersTo(m) : v \in UNION {AnswersTo(q) : q \in Awaited}
  OBVIOUS
<1> DEFINE A == UNION {AnswersTo(m) : m \in Awaited}
           E == Endings
<1>2. Line = [kind : {"answer"}, says : A] \union [kind : {"stray", "garbage"}]
      \union [kind : {"request"}, approval : BOOLEAN] \union [kind : {"delta"}, nth : Nat]
      \union [kind : {"tool call"}, sound : BOOLEAN] \union [kind : {"ended"}, status : E]
  BY DEF Line
<1>3. \A m \in Awaited : \A v \in AnswersTo(m) : v \in A
  BY <1>1
<1> HIDE DEF A
<1>4. \A m \in Awaited : \A v \in AnswersTo(m) : [kind |-> "answer", says |-> v] \in Line
  BY <1>2, <1>3
<1> HIDE DEF E
<1>5. \A s \in E : [kind |-> "ended", status |-> s] \in Line
  BY <1>2
<1>6. /\ \A n \in Nat : [kind |-> "delta", nth |-> n] \in Line
      /\ \A b \in BOOLEAN : [kind |-> "tool call", sound |-> b] \in Line /\ [kind |-> "request", approval |-> b] \in Line
      /\ \A k \in {"stray", "garbage"} : [kind |-> k] \in Line
  BY <1>2
<1> QED BY <1>4, <1>5, <1>6 DEF E

\* The head of a pipe and what is left of it.
LEMMA TailOfLines == ASSUME NEW ls \in Seq(Line), ls # <<>>
    PROVE /\ Head(ls) = ls[1] /\ Head(ls) \in Line /\ 1 \in DOMAIN ls
          /\ Tail(ls) \in Seq(Line)
          /\ DOMAIN Tail(ls) = 1 .. Len(ls) - 1 /\ DOMAIN ls = 1 .. Len(ls) /\ Len(ls) \in Nat \ {0}
          /\ \A i \in DOMAIN Tail(ls) : i + 1 \in DOMAIN ls /\ Tail(ls)[i] = ls[i + 1]
<1>1. /\ Head(ls) \in Line
      /\ Tail(ls) \in Seq(Line)
      /\ Len(Tail(ls)) = Len(ls)-1
      /\ \A i \in 1 .. Len(Tail(ls)) : Tail(ls)[i] = ls[i+1]
  BY HeadTailProperties
<1>2. Len(ls) \in Nat /\ DOMAIN ls = 1 .. Len(ls) /\ DOMAIN Tail(ls) = 1 .. Len(Tail(ls))
  BY <1>1, LenProperties
<1>3. Len(ls) # 0
  BY EmptySeq
<1>4. Head(ls) = ls[1]
  OBVIOUS
<1> QED BY <1>1, <1>2, <1>3, <1>4

\* A pipe with one more line.
LEMMA AppendOfLines == ASSUME NEW ls \in Seq(Line), NEW l \in Line
    PROVE /\ Append(ls, l) \in Seq(Line)
          /\ DOMAIN Append(ls, l) = 1 .. Len(ls) + 1 /\ DOMAIN ls = 1 .. Len(ls) /\ Len(ls) \in Nat
          /\ \A i \in DOMAIN ls : Append(ls, l)[i] = ls[i]
          /\ Append(ls, l)[Len(ls) + 1] = l
<1>1. /\ Append(ls, l) \in Seq(Line)
      /\ Len(Append(ls, l)) = Len(ls)+1
      /\ \A i \in 1.. Len(ls) : Append(ls, l)[i] = ls[i]
      /\ Append(ls, l)[Len(ls)+1] = l
  BY AppendProperties
<1> QED BY <1>1, LenProperties

-----------------------------------------------------------------------------
(* Deltas.                                                                  *)

\* A line that is no delta is read, and the deltas stay those under way.
LEMMA SkipKeepsDeltas == ASSUME NEW ls \in Seq(Line), ls # <<>>, Head(ls).kind # "delta",
        NEW taken \in Nat, NEW n \in Nat, DeltaFacts(ls, taken, n)
    PROVE DeltaFacts(Tail(ls), taken, n)
<1> DEFINE s == Tail(ls)
<1>1. \A i \in DOMAIN s : i + 1 \in DOMAIN ls /\ s[i] = ls[i + 1]
  BY TailOfLines
<1>2. \A i \in DOMAIN ls : ls[i].kind = "delta" => i - 1 \in DOMAIN s /\ s[i - 1] = ls[i]
  BY TailOfLines
<1>3. \A i, j \in DOMAIN s : i \in Nat /\ j \in Nat
  BY TailOfLines
<1> HIDE DEF s
<1>4. taken <= n /\ \A i \in DOMAIN s : s[i].kind = "delta" => taken < s[i].nth /\ s[i].nth <= n
  BY <1>1 DEF DeltaFacts
<1>5. \A k \in taken + 1 .. n : \E i \in DOMAIN s : s[i].kind = "delta" /\ s[i].nth = k
  <2> TAKE k \in taken + 1 .. n
  <2>1. PICK i \in DOMAIN ls : ls[i].kind = "delta" /\ ls[i].nth = k
    BY DEF DeltaFacts
  <2> QED BY <2>1, <1>2
<1>6. ASSUME NEW i \in DOMAIN s, NEW j \in DOMAIN s, i < j, s[j].kind = "delta"
      PROVE  /\ s[i].kind = "delta" => s[i].nth < s[j].nth
             /\ s[i].kind # "ended" /\ ~HoldsTurn(s[i])
  BY <1>1, <1>3, <1>6, i + 1 < j + 1 DEF DeltaFacts
<1>7. DeltaFacts(s, taken, n)
  BY <1>4, <1>5, <1>6 DEF DeltaFacts
<1> QED BY <1>7 DEF s

\* A delta that is read is the next one.
LEMMA TakeKeepsDeltas == ASSUME NEW ls \in Seq(Line), ls # <<>>, Head(ls).kind = "delta",
        NEW taken \in Nat, NEW n \in Nat, DeltaFacts(ls, taken, n)
    PROVE Head(ls).nth = taken + 1 /\ DeltaFacts(Tail(ls), taken + 1, n)
<1> DEFINE s == Tail(ls)
           h == Head(ls).nth
<1>1. \A i \in DOMAIN s : i + 1 \in DOMAIN ls /\ s[i] = ls[i + 1] /\ i \in Nat
  BY TailOfLines
<1>2. \A i \in DOMAIN ls : i # 1 => i - 1 \in DOMAIN s /\ s[i - 1] = ls[i]
  BY TailOfLines
<1>3. 1 \in DOMAIN ls /\ ls[1] = Head(ls) /\ \A i \in DOMAIN ls : i \in Nat /\ i >= 1
  BY TailOfLines
<1>4. h \in Nat /\ \A i \in DOMAIN ls : ls[i].kind = "delta" => ls[i].nth \in Nat
  <2>1. \A i \in DOMAIN ls : ls[i] \in Line
    BY LenProperties, ElementOfSeq
  <2> QED BY <2>1, TailOfLines, LineKinds
<1> HIDE DEF s
<1>5. taken < h /\ h <= n
  BY <1>3 DEF DeltaFacts
<1>6. h = taken + 1
  <2>1. PICK i \in DOMAIN ls : ls[i].kind = "delta" /\ ls[i].nth = taken + 1
    BY <1>4, <1>5 DEF DeltaFacts
  <2>2. CASE i = 1
    BY <2>1, <2>2, <1>3
  <2>3. CASE i # 1
    <3>1. 1 < i
      BY <2>3, <1>3
    <3>2. h < ls[i].nth
      BY <3>1, <2>1, <1>3 DEF DeltaFacts
    <3> QED BY <3>2, <2>1, <1>4, <1>5
  <2> QED BY <2>2, <2>3
<1>7. \A i \in DOMAIN s : s[i].kind = "delta" => taken + 1 < s[i].nth /\ s[i].nth <= n
  <2> SUFFICES ASSUME NEW i \in DOMAIN s, s[i].kind = "delta" PROVE taken + 1 < s[i].nth /\ s[i].nth <= n
    OBVIOUS
  <2>1. 1 < i + 1
    BY <1>1, <1>3
  <2> QED BY <2>1, <1>1, <1>3, <1>6 DEF DeltaFacts
<1>8. \A k \in (taken + 1) + 1 .. n : \E i \in DOMAIN s : s[i].kind = "delta" /\ s[i].nth = k
  <2> SUFFICES ASSUME NEW k \in (taken + 1) + 1 .. n PROVE \E i \in DOMAIN s : s[i].kind = "delta" /\ s[i].nth = k
    OBVIOUS
  <2>1. PICK i \in DOMAIN ls : ls[i].kind = "delta" /\ ls[i].nth = k
    BY DEF DeltaFacts
  <2>2. i # 1
    BY <2>1, <1>3, <1>6
  <2> QED BY <2>1, <2>2, <1>2
<1>9. \A i, j \in DOMAIN s : i < j /\ s[j].kind = "delta" =>
          /\ s[i].kind = "delta" => s[i].nth < s[j].nth
          /\ s[i].kind # "ended" /\ ~HoldsTurn(s[i])
  <2> SUFFICES ASSUME NEW i \in DOMAIN s, NEW j \in DOMAIN s, i < j, s[j].kind = "delta"
               PROVE  /\ s[i].kind = "delta" => s[i].nth < s[j].nth
                      /\ s[i].kind # "ended" /\ ~HoldsTurn(s[i])
    OBVIOUS
  <2>1. i + 1 < j + 1
    BY <1>1
  <2> QED BY <2>1, <1>1 DEF DeltaFacts
<1>10. DeltaFacts(s, taken + 1, n)
  BY <1>4, <1>5, <1>6, <1>7, <1>8, <1>9 DEF DeltaFacts
<1> QED BY <1>6, <1>10 DEF s

\* A line that is no delta is written behind the deltas under way.
LEMMA WriteKeepsDeltas == ASSUME NEW ls \in Seq(Line), NEW l \in Line, l.kind # "delta",
        NEW taken \in Nat, NEW n \in Nat, DeltaFacts(ls, taken, n)
    PROVE DeltaFacts(Append(ls, l), taken, n)
<1> DEFINE s == Append(ls, l)
<1>1. \A i \in DOMAIN s : i \in Nat /\ s[i].kind = "delta" => i \in DOMAIN ls /\ s[i] = ls[i]
  BY AppendOfLines
<1>2. \A i \in DOMAIN ls : i \in DOMAIN s /\ s[i] = ls[i]
  BY AppendOfLines
<1>3. \A i, j \in DOMAIN s : i < j => i \in DOMAIN ls
  BY AppendOfLines
<1>4. \A i \in DOMAIN s : i \in Nat
  BY AppendOfLines
<1> HIDE DEF s
<1>5. DeltaFacts(s, taken, n)
  BY <1>1, <1>2, <1>3, <1>4 DEF DeltaFacts
<1> QED BY <1>5 DEF s

\* The runtime says its next delta while nothing has stopped its turn.
LEMMA SayKeepsDeltas == ASSUME NEW ls \in Seq(Line), NEW taken \in Nat, NEW n \in Nat, DeltaFacts(ls, taken, n),
        \A i \in DOMAIN ls : ls[i].kind # "ended" /\ ~HoldsTurn(ls[i])
    PROVE DeltaFacts(Append(ls, [kind |-> "delta", nth |-> n + 1]), taken, n + 1)
<1> DEFINE l == [kind |-> "delta", nth |-> n + 1]
           s == Append(ls, l)
<1>0. l \in Line /\ l.kind = "delta" /\ l.nth = n + 1
  <2>1. n + 1 \in Nat
    OBVIOUS
  <2> QED BY <2>1, LinesWritten
<1> HIDE DEF l
<1>1. \A i \in DOMAIN s : i \in DOMAIN ls \/ i = Len(ls) + 1
  BY <1>0, AppendOfLines
<1>2. \A i \in DOMAIN ls : i \in DOMAIN s /\ s[i] = ls[i] /\ i \in Nat /\ i <= Len(ls)
  BY <1>0, AppendOfLines
<1>3. Len(ls) + 1 \in DOMAIN s /\ s[Len(ls) + 1] = l /\ Len(ls) \in Nat
  BY <1>0, AppendOfLines
<1>4. \A i \in DOMAIN ls : ls[i].kind = "delta" => ls[i].nth \in Nat /\ taken < ls[i].nth /\ ls[i].nth <= n
  <2>1. \A i \in DOMAIN ls : ls[i] \in Line
    BY LenProperties, ElementOfSeq
  <2> QED BY <2>1, LineKinds DEF DeltaFacts
<1>5. taken <= n
  BY DEF DeltaFacts
<1> HIDE DEF s
<1>6. \A i \in DOMAIN s : s[i].kind = "delta" => taken < s[i].nth /\ s[i].nth <= n + 1
  <2> TAKE i \in DOMAIN s
  <2>1. CASE i \in DOMAIN ls
    BY <2>1, <1>2, <1>4
  <2>2. CASE i = Len(ls) + 1
    BY <2>2, <1>0, <1>3, <1>5
  <2> QED BY <2>1, <2>2, <1>1
<1>7. \A k \in taken + 1 .. n + 1 : \E i \in DOMAIN s : s[i].kind = "delta" /\ s[i].nth = k
  <2> TAKE k \in taken + 1 .. n + 1
  <2>1. CASE k = n + 1
    BY <2>1, <1>0, <1>3
  <2>2. CASE k # n + 1
    <3>1. k \in taken + 1 .. n
      BY <2>2
    <3>2. PICK i \in DOMAIN ls : ls[i].kind = "delta" /\ ls[i].nth = k
      BY <3>1 DEF DeltaFacts
    <3> QED BY <3>2, <1>2
  <2> QED BY <2>1, <2>2
<1>8. \A i, j \in DOMAIN s : i < j /\ s[j].kind = "delta" =>
          /\ s[i].kind = "delta" => s[i].nth < s[j].nth
          /\ s[i].kind # "ended" /\ ~HoldsTurn(s[i])
  <2> SUFFICES ASSUME NEW i \in DOMAIN s, NEW j \in DOMAIN s, i < j, s[j].kind = "delta"
               PROVE  /\ s[i].kind = "delta" => s[i].nth < s[j].nth
                      /\ s[i].kind # "ended" /\ ~HoldsTurn(s[i])
    OBVIOUS
  <2>1. i \in DOMAIN ls
    BY <1>1, <1>2, <1>3
  <2>2. s[i].kind # "ended" /\ ~HoldsTurn(s[i])
    BY <2>1, <1>2
  <2>3. CASE j \in DOMAIN ls
    BY <2>1, <2>2, <2>3, <1>2 DEF DeltaFacts
  <2>4. CASE j = Len(ls) + 1
    <3>1. s[j].nth = n + 1
      BY <2>4, <1>0, <1>3
    <3>2. s[i].kind = "delta" => s[i].nth \in Nat /\ s[i].nth <= n
      BY <2>1, <1>2, <1>4
    <3> QED BY <3>1, <3>2, <2>2
  <2> QED BY <2>3, <2>4, <1>1
<1>9. DeltaFacts(s, taken, n + 1)
  BY <1>5, <1>6, <1>7, <1>8 DEF DeltaFacts
<1> QED BY <1>9 DEF s, l

-----------------------------------------------------------------------------
(* The turn as its lines say, and the answers.                              *)

\* A pipe read to its end says nothing.
LEMMA EmptyPipe == ASSUME NEW n \in Nat, NEW t, NEW a PROVE DeltaFacts(<<>>, n, n) /\ TurnFacts(<<>>, t, a)
  BY DEF DeltaFacts, TurnFacts

\* A line read takes away what it said.
LEMMA ReadKeepsTurn == ASSUME NEW ls \in Seq(Line), ls # <<>>, NEW t, NEW a, TurnFacts(ls, t, a)
    PROVE TurnFacts(Tail(ls), t, a)
<1>1. \A i \in DOMAIN Tail(ls) : i + 1 \in DOMAIN ls /\ Tail(ls)[i] = ls[i + 1] /\ i \in Nat
  BY TailOfLines
<1> DEFINE s == Tail(ls)
<1> HIDE DEF s
<1>2. \A i \in DOMAIN s : i + 1 \in DOMAIN ls /\ s[i] = ls[i + 1] /\ i \in Nat
  BY <1>1 DEF s
<1>3. \A i, j \in DOMAIN s : i + 1 = j + 1 => i = j
  BY <1>2
<1>4. TurnFacts(s, t, a)
  BY <1>2, <1>3 DEF TurnFacts
<1> QED BY <1>4 DEF s

\* The line that holds the turn is alone, and the last that the turn said.
LEMMA ReadHold == ASSUME NEW ls \in Seq(Line), ls # <<>>, HoldsTurn(Head(ls)), NEW t, NEW a, TurnFacts(ls, t, a),
        NEW taken \in Nat, NEW n \in Nat, DeltaFacts(ls, taken, n)
    PROVE t = "suspended" /\ \A i \in DOMAIN Tail(ls) : Tail(ls)[i].kind # "delta" /\ ~HoldsTurn(Tail(ls)[i])
<1>1. \A i \in DOMAIN Tail(ls) : i + 1 \in DOMAIN ls /\ Tail(ls)[i] = ls[i + 1] /\ 1 < i + 1
  BY TailOfLines
<1>2. 1 \in DOMAIN ls /\ ls[1] = Head(ls)
  BY TailOfLines
<1>3. t = "suspended"
  BY <1>2 DEF TurnFacts
<1>4. ASSUME NEW i \in DOMAIN Tail(ls) PROVE Tail(ls)[i].kind # "delta" /\ ~HoldsTurn(Tail(ls)[i])
  <2>1. ls[i + 1].kind # "delta"
    BY <1>1, <1>2 DEF DeltaFacts
  <2>2. ~HoldsTurn(ls[i + 1])
    BY <1>1, <1>2 DEF TurnFacts
  <2> QED BY <2>1, <2>2, <1>1
<1> QED BY <1>3, <1>4

\* An answer read is the only one.
LEMMA ReadTheAnswer == ASSUME NEW ls \in Seq(Line), ls # <<>>, Head(ls).kind = "answer", NEW t, NEW a, TurnFacts(ls, t, a)
    PROVE a = NoFlaw /\ \A i \in DOMAIN Tail(ls) : Tail(ls)[i].kind # "answer"
<1>1. \A i \in DOMAIN Tail(ls) : i + 1 \in DOMAIN ls /\ Tail(ls)[i] = ls[i + 1] /\ 1 # i + 1
  BY TailOfLines
<1>2. 1 \in DOMAIN ls /\ ls[1] = Head(ls)
  BY TailOfLines
<1>3. a = NoFlaw
  BY <1>2 DEF TurnFacts
<1>4. ASSUME NEW i \in DOMAIN Tail(ls) PROVE Tail(ls)[i].kind # "answer"
  BY <1>1, <1>2 DEF TurnFacts
<1> QED BY <1>3, <1>4

\* The end of the turn read: nothing the turn said is left, and it ended so.
LEMMA ReadTheEnd == ASSUME NEW ls \in Seq(Line), ls # <<>>, Head(ls).kind = "ended", NEW t, NEW a, TurnFacts(ls, t, a),
        NEW taken \in Nat, NEW n \in Nat, DeltaFacts(ls, taken, n)
    PROVE t = Head(ls).status /\ taken = n
<1>1. 1 \in DOMAIN ls /\ ls[1] = Head(ls) /\ \A i \in DOMAIN ls : i = 1 \/ 1 < i
  BY TailOfLines
<1>2. t = Head(ls).status
  BY <1>1 DEF TurnFacts
<1>3. \A i \in DOMAIN ls : ls[i].kind # "delta"
  BY <1>1 DEF DeltaFacts
<1>4. taken + 1 .. n = {}
  BY <1>3 DEF DeltaFacts
<1>5. taken <= n
  BY DEF DeltaFacts
<1>6. taken + 1 > n
  <2>1. CASE taken + 1 <= n
    <3>1. n \in taken + 1 .. n
      BY <2>1
    <3> QED BY <3>1, <1>4
  <2> QED BY <2>1
<1> QED BY <1>2, <1>5, <1>6

\* A line written agrees with where the turn is then.
LEMMA WriteKeepsTurn == ASSUME NEW ls \in Seq(Line), NEW l \in Line, NEW t, NEW a, TurnFacts(ls, t, a), NEW t2, NEW a2,
        l.kind = "ended" => t2 = l.status,
        HoldsTurn(l) => t2 = "suspended",
        l.kind = "answer" => a # NoFlaw /\ a2 = NoFlaw,
        t2 = t \/ \A i \in DOMAIN ls : ls[i].kind # "ended" /\ ~HoldsTurn(ls[i]),
        HoldsTurn(l) => \A i \in DOMAIN ls : ~HoldsTurn(ls[i]),
        a2 = a \/ a2 = NoFlaw
    PROVE TurnFacts(Append(ls, l), t2, a2)
<1> DEFINE s == Append(ls, l)
<1>1. \A i \in DOMAIN s : (i \in DOMAIN ls /\ s[i] = ls[i]) \/ (i = Len(ls) + 1 /\ s[i] = l)
  BY AppendOfLines
<1> HIDE DEF s
<1>2. /\ \A i \in DOMAIN s : s[i].kind = "ended" => t2 = s[i].status
      /\ \A i \in DOMAIN s : HoldsTurn(s[i]) => t2 = "suspended"
      /\ \A i \in DOMAIN s : s[i].kind = "answer" => a2 = NoFlaw
  BY <1>1 DEF TurnFacts
<1>3. \A i, j \in DOMAIN s : HoldsTurn(s[i]) /\ HoldsTurn(s[j]) => i = j
  BY <1>1 DEF TurnFacts
<1>4. \A i, j \in DOMAIN s : s[i].kind = "answer" /\ s[j].kind = "answer" => i = j
  BY <1>1 DEF TurnFacts
<1>5. TurnFacts(s, t2, a2)
  BY <1>2, <1>3, <1>4 DEF TurnFacts
<1> QED BY <1>5 DEF s

\* While the turn has not begun or runs, no line holds it or ends it.
LEMMA OpenTurn == ASSUME NEW ls \in Seq(Line), NEW t, NEW a, TurnFacts(ls, t, a)
    PROVE /\ t \in {"none", "running", "suspended"} => \A i \in DOMAIN ls : ls[i].kind # "ended"
          /\ t \in {"none", "running"} => \A i \in DOMAIN ls : ~HoldsTurn(ls[i])
<1>1. \A i \in DOMAIN ls : ls[i].kind = "ended" => ls[i].status \in Endings
  <2>1. \A i \in DOMAIN ls : ls[i] \in Line
    BY LenProperties, ElementOfSeq
  <2> QED BY <2>1, LineKinds
<1> QED BY <1>1 DEF TurnFacts, Endings

-----------------------------------------------------------------------------
(* The call and the methods.                                                *)

\* The effort a resource is bound to is not looked at when the call is checked.
LEMMA EffortKeepsCall == ASSUME NEW c \in CodexCalls, NEW e PROVE CallFlaw([c EXCEPT !.effort = e]) = CallFlaw(c)
<1> DEFINE d == [c EXCEPT !.effort = e]
<1>1. {"tools", "bridge", "choice", "limit", "params", "messages", "format", "effort"} \subseteq DOMAIN c
  BY CallsCarryTheirMembers
<1>2. /\ d.tools = c.tools /\ d.bridge = c.bridge /\ d.choice = c.choice /\ d.limit = c.limit
      /\ d.params = c.params /\ d.messages = c.messages /\ d.format = c.format
  BY <1>1
<1> HIDE DEF d
<1>3. CallFlaw(d) = CallFlaw(c)
  BY <1>2 DEF CallFlaw
<1> QED BY <1>3 DEF d

\* The names of the methods, apart from the other stages and from NoFlaw.
LEMMA Stages ==
    /\ Awaited = Opening \union {"turn/start", "turn/interrupt"}
    /\ NoFlaw \notin Awaited
<1>1. DOMAIN Methods = 1 .. 6
  BY DEF Methods
<1>2. {Methods[i] : i \in DOMAIN Methods} = Opening \union {"turn/start"}
  <2>1. ASSUME NEW m \in Opening \union {"turn/start"} PROVE \E i \in DOMAIN Methods : Methods[i] = m
    <3>1. /\ 1 \in 1 .. 6 /\ 2 \in 1 .. 6 /\ 3 \in 1 .. 6 /\ 4 \in 1 .. 6 /\ 5 \in 1 .. 6 /\ 6 \in 1 .. 6
      OBVIOUS
    <3>2. /\ Methods[1] = "initialize" /\ Methods[2] = "account/read" /\ Methods[3] = "model/list"
          /\ Methods[4] = "thread/start" /\ Methods[5] = "thread/inject_items" /\ Methods[6] = "turn/start"
      BY DEF Methods
    <3> HIDE DEF Methods
    <3> QED BY <3>1, <3>2, <1>1 DEF Opening
  <2>2. ASSUME NEW i \in DOMAIN Methods PROVE Methods[i] \in Opening \union {"turn/start"}
    <3>1. i = 1 \/ i = 2 \/ i = 3 \/ i = 4 \/ i = 5 \/ i = 6
      BY <1>1
    <3> QED BY <3>1 DEF Methods, Opening
  <2> QED BY <2>1, <2>2
<1>3. Awaited = Opening \union {"turn/start", "turn/interrupt"}
  BY <1>2 DEF Awaited
<1> QED BY <1>3, NoFlawIsNoWord

\* What is asked next is a method of the opening, or the turn.
LEMMA FollowingIsAMethod == ASSUME NEW m \in Opening, NEW v \in {"ok", "more"} PROVE Following(m, v) \in Opening \union {"turn/start"}
<1>1. DOMAIN Methods = 1 .. 6
  BY DEF Methods
<1>2. /\ Methods[1] = "initialize" /\ Methods[2] = "account/read" /\ Methods[3] = "model/list"
      /\ Methods[4] = "thread/start" /\ Methods[5] = "thread/inject_items" /\ Methods[6] = "turn/start"
  BY DEF Methods
<1>3. \E i \in DOMAIN Methods : Methods[i] = m
  <2>1. /\ 1 \in 1 .. 6 /\ 2 \in 1 .. 6 /\ 3 \in 1 .. 6 /\ 4 \in 1 .. 6 /\ 5 \in 1 .. 6
    OBVIOUS
  <2> QED BY <2>1, <1>1, <1>2 DEF Opening
<1> DEFINE i == CHOOSE j \in DOMAIN Methods : Methods[j] = m
<1>4. i \in 1 .. 6 /\ Methods[i] = m
  BY <1>3, <1>1
<1> HIDE DEF i
<1>5. i # 6
  BY <1>4, <1>2 DEF Opening
<1>6. i = 1 \/ i = 2 \/ i = 3 \/ i = 4 \/ i = 5
  BY <1>4, <1>5
<1>7. Methods[i + 1] \in Opening \union {"turn/start"}
  BY <1>6, <1>2 DEF Opening
<1>8. Following(m, v) \in {m, "turn/start", Methods[i + 1]}
  BY DEF Following, i
<1> QED BY <1>7, <1>8

-----------------------------------------------------------------------------
(* The ways out.                                                            *)

\* Nothing is claimed of an attempt that has returned nothing.
LEMMA NothingClaimed == ASSUME returned' = NoResult PROVE HonestResult(returned)'
  BY NoFlawIsNoWord DEF HonestResult, NoResult

\* A failure claims only that it is no loss of a turn that began.
LEMMA FailureIsHonest == ASSUME NEW w, returned' = FailedWith(w), w # "codex_process_lost" \/ ~begun' \/ ~linkUp'
    PROVE HonestResult(returned)'
<1>1. returned'.status = "failed" /\ returned'.note = w
  BY DEF FailedWith
<1> QED BY <1>1 DEF HonestResult

\* An unknown outcome claims nothing.
LEMMA AmbiguousIsHonest == ASSUME returned' = Ambiguous PROVE HonestResult(returned)'
<1>1. returned'.status = "failed" /\ returned'.note = "outcome unknown"
  BY DEF Ambiguous, FailedWith
<1> QED BY <1>1 DEF HonestResult

\* A cancelled result has its cause.
LEMMA CancelledIsHonest == ASSUME returned' = CancelledResult, cancelled' \/ overdue' \/ turn' = "interrupted" \/ ~linkUp'
    PROVE HonestResult(returned)'
<1>1. returned'.status = "cancelled" /\ returned'.note = NoFlaw
  BY DEF CancelledResult
<1> QED BY <1>1, NoFlawIsNoWord DEF HonestResult

\* EndSession leaves nothing of the runtime, whatever it returns.
LEMMA ClosingKeeps ==
    ASSUME TurnIInv, at' \in Ending, EndSession(at', returned'), HonestResult(returned)',
           adapterCall' = adapterCall, turn' = turn, aroundVars' = aroundVars,
           parts' \in Seq(Nat), shown' \in Seq(Nat), said' \in Nat, pages' \in Nat, rounds' \in Nat, strays' \in Nat,
           turn = "none" => said' = 0
    PROVE TurnIInv'
<1> USE DEF TurnIInv, EndSession, aroundVars
<1>0. child' \in {"none", "closed"} /\ at' \in {"over", "escaped"}
  BY DEF Ending
<1>1. TurnTypeOK'
  <2>1. <<>> \in Seq(Line)
    OBVIOUS
  <2>2. lines' \in Seq(Line)
    BY <2>1
  <2> QED BY <1>0, <2>2 DEF TurnTypeOK, Ending
<1>2. PipeFacts'
  BY <1>0 DEF PipeFacts, Unbroken, Ending
<1>3. TextFacts'
  BY <1>0 DEF TextFacts, AttemptRuns
<1>4. StageFacts'
  <2>1. ~AttemptRuns' /\ at' \notin Early \union Opening \union Listening \union {"turn/start", "suspended", "run", "turn/interrupt"}
    BY <1>0, Stages DEF AttemptRuns, Early, Opening, Listening
  <2>2. begun' => CallFlaw(adapterCall') = NoFlaw
    BY DEF StageFacts
  <2>3. asked' = NoFlaw /\ NoFlaw # "turn/start"
    BY NoFlawIsNoWord, Stages
  <2>4. (CallFlaw(adapterCall))' = CallFlaw(adapterCall)
    OBVIOUS
  <2> QED BY <1>0, <2>1, <2>2, <2>3, <2>4 DEF StageFacts, Ending
<1> QED BY <1>1, <1>2, <1>3, <1>4

\* The same when the attempt keeps its text and its counts.
LEMMA ReturningKeeps ==
    ASSUME TurnIInv, NEW r, ReturnWith(r), HonestResult(returned)',
           adapterCall' = adapterCall, aroundVars' = aroundVars, pages' = pages, strays' \in Nat, rounds' = rounds,
           turn' = turn, parts' = parts, shown' = shown, said' = said
    PROVE TurnIInv'
<1>1. at' \in Ending /\ EndSession(at', returned')
  BY DEF ReturnWith, EndSession, Ending
<1>2. /\ parts \in Seq(Nat) /\ shown \in Seq(Nat) /\ said \in Nat /\ pages \in Nat /\ rounds \in Nat
      /\ turn = "none" => said = 0
  BY DEF TurnIInv, TurnTypeOK, TextFacts
<1> QED BY <1>1, <1>2, ClosingKeeps

\* A loss is reported as one only when no turn began; once one may have, the outcome is unknown.
LEMMA LossIsHonest ==
    ASSUME NEW s, returned' = LostAt(s), s \in Opening => ~begun',
           s = "turn/interrupt" => cancelled' \/ overdue' \/ ~linkUp', s \in Listening
    PROVE HonestResult(returned)'
<1>1. CASE s \in {"turn/start", "run"}
  BY <1>1, AmbiguousIsHonest DEF LostAt
<1>2. CASE s = "turn/interrupt"
  BY <1>2, CancelledIsHonest DEF LostAt
<1>3. CASE s \in Opening
  <2>1. returned' = FailedWith("codex_process_lost")
    BY <1>3 DEF LostAt, Opening
  <2> QED BY <1>3, <2>1, FailureIsHonest
<1> QED BY <1>1, <1>2, <1>3, Stages DEF Listening

-----------------------------------------------------------------------------
(* Initial states, and the steps before the runtime.                        *)

LEMMA InitIInv == TurnInit => TurnIInv
<1> SUFFICES ASSUME TurnInit PROVE TurnIInv
  OBVIOUS
<1> USE DEF TurnInit
<1>1. TurnTypeOK
  <2>1. <<>> \in Seq(Line) /\ <<>> \in Seq(Nat)
    OBVIOUS
  <2> QED BY <2>1 DEF TurnTypeOK, Early
<1>2. PipeFacts
  <2>1. Len(parts) = 0
    OBVIOUS
  <2> QED BY <2>1, EmptyPipe DEF PipeFacts
<1>3. TextFacts
  <2>1. parts = [k \in 1 .. Len(parts) |-> k]
    OBVIOUS
  <2> QED BY <2>1 DEF TextFacts
<1>4. StageFacts
  BY Stages, NoFlawIsNoWord DEF StageFacts, Early, Opening, Listening, Ending, AttemptRuns
<1>5. HonestResult(returned)
  BY NoFlawIsNoWord DEF HonestResult, NoResult
<1> QED BY <1>1, <1>2, <1>3, <1>4, <1>5 DEF TurnIInv

\* A discovery replaces the table only.
LEMMA RediscoverKeeps == TurnIInv /\ Rediscover => TurnIInv'
  BY DEF Rediscover, TurnIInv, TurnTypeOK, PipeFacts, Unbroken, DeltaFacts, TurnFacts, TextFacts, StageFacts, HonestResult,
     runtimeVars, aroundVars, AttemptRuns

LEMMA TakeCallKeeps == ASSUME TurnIInv, TakeCall PROVE TurnIInv'
<1> USE DEF TakeCall, Stays
<1>1. CASE cancelled /\ ReturnWith(CancelledResult)
  <2>1. HonestResult(returned)'
    BY <1>1, CancelledIsHonest DEF ReturnWith, EndSession, aroundVars
  <2> QED BY <1>1, <2>1, ReturningKeeps DEF TurnIInv, TurnTypeOK
<1>2. CASE ReturnWith(FailedWith("resource_not_served"))
  <2>1. HonestResult(returned)'
    BY <1>2, FailureIsHonest DEF ReturnWith, EndSession
  <2> QED BY <1>2, <2>1, ReturningKeeps DEF TurnIInv, TurnTypeOK
<1>3. CASE at' = "bind" /\ UNCHANGED <<poised, begun, returned, child, asked, lines>>
  <2> USE <1>3 DEF TurnIInv, aroundVars
  <2>1. TurnTypeOK'
    BY DEF TurnTypeOK, Early
  <2>2. PipeFacts'
    BY DEF PipeFacts, Unbroken, DeltaFacts, TurnFacts, Ending
  <2>3. TextFacts'
    BY DEF TextFacts, AttemptRuns
  <2>4. StageFacts'
    BY Stages DEF StageFacts, AttemptRuns, Early, Opening, Listening, Ending
  <2>5. HonestResult(returned)'
    BY DEF HonestResult
  <2> QED BY <2>1, <2>2, <2>3, <2>4, <2>5
<1> QED BY <1>1, <1>2, <1>3

LEMMA BindResourceKeeps == ASSUME TurnIInv, BindResource PROVE TurnIInv'
<1> USE DEF BindResource, Stays
<1>0. ~begun
  BY DEF TurnIInv, StageFacts, Early
<1>1. CASE \E w : ReturnWith(FailedWith(w)) /\ UNCHANGED adapterCall
  <2> PICK w : ReturnWith(FailedWith(w)) /\ UNCHANGED adapterCall
    BY <1>1
  <2>1. HonestResult(returned)'
    BY <1>0, FailureIsHonest DEF ReturnWith, EndSession
  <2> QED BY <2>1, ReturningKeeps DEF TurnIInv, TurnTypeOK
<1>2. CASE overdue /\ ReturnWith(CancelledResult) /\ UNCHANGED adapterCall
  <2>1. HonestResult(returned)'
    BY <1>2, CancelledIsHonest DEF ReturnWith, EndSession, aroundVars
  <2> QED BY <1>2, <2>1, ReturningKeeps DEF TurnIInv, TurnTypeOK
<1>3. CASE /\ CallFlaw(adapterCall) = NoFlaw
           /\ at' = "host" /\ adapterCall' = [adapterCall EXCEPT !.effort = EffortOf(adapterCall)]
           /\ UNCHANGED <<poised, begun, returned, child, asked, lines>>
  <2> USE <1>3 DEF TurnIInv, aroundVars
  <2>0. CallFlaw(adapterCall)' = NoFlaw
    <3>1. adapterCall \in CodexCalls
      BY DEF TurnTypeOK
    <3>2. CallFlaw([adapterCall EXCEPT !.effort = EffortOf(adapterCall)]) = CallFlaw(adapterCall)
      BY <3>1, EffortKeepsCall
    <3> QED BY <3>2
  <2>1. TurnTypeOK'
    BY DEF TurnTypeOK, Early
  <2>2. PipeFacts'
    BY DEF PipeFacts, Unbroken, DeltaFacts, TurnFacts, Ending
  <2>3. TextFacts'
    BY DEF TextFacts, AttemptRuns, StageFacts, Early
  <2>4. StageFacts'
    BY <2>0, Stages DEF StageFacts, AttemptRuns, Early, Opening, Listening, Ending
  <2>5. HonestResult(returned)'
    BY NothingClaimed DEF StageFacts, AttemptRuns
  <2> QED BY <2>1, <2>2, <2>3, <2>4, <2>5
<1> QED BY <1>1, <1>2, <1>3

LEMMA HostKeeps == ASSUME TurnIInv, Host PROVE TurnIInv'
<1> USE DEF Stays
<1>0. ~begun /\ at = "host" /\ Stays /\ UNCHANGED <<adapterCall, table, pages, aroundVars>>
  BY DEF TurnIInv, StageFacts, Early, Host
<1>1. CASE \E w : ReturnWith(FailedWith(w))
  <2> PICK w : ReturnWith(FailedWith(w))
    BY <1>1
  <2>1. HonestResult(returned)'
    BY <1>0, FailureIsHonest DEF ReturnWith, EndSession
  <2> QED BY <1>0, <2>1, ReturningKeeps DEF TurnIInv, TurnTypeOK
<1>2. CASE /\ child' = "alive" /\ at' = "initialize" /\ asked' = "initialize"
           /\ UNCHANGED <<poised, begun, returned, lines>>
  <2> USE <1>0, <1>2 DEF TurnIInv, aroundVars
  <2>0. ~poised /\ lines = <<>> /\ turn = "none" /\ "initialize" \in Opening
    BY Stages DEF StageFacts, Early, Opening, Listening
  <2>1. TurnTypeOK'
    BY Stages DEF TurnTypeOK, Opening, Listening
  <2>2. PipeFacts'
    <3>1. DeltaFacts(lines, Len(parts), said)
      BY DEF PipeFacts, Unbroken, Ending
    <3>2. TurnFacts(<<>>, turn, "initialize")
      BY DEF TurnFacts
    <3> QED BY <2>0, <3>1, <3>2 DEF PipeFacts
  <2>3. TextFacts'
    BY DEF TextFacts, AttemptRuns
  <2>4. StageFacts'
    BY <2>0, Stages DEF StageFacts, AttemptRuns, Early, Opening, Listening, Ending
  <2>5. HonestResult(returned)'
    BY NothingClaimed DEF StageFacts, AttemptRuns
  <2> QED BY <2>1, <2>2, <2>3, <2>4, <2>5
<1> QED BY <1>1, <1>2 DEF Host

-----------------------------------------------------------------------------
(* Steps that several actions share.                                        *)

\* A line other than a delta of the running turn is read and has no effect of its own.
LEMMA SkippingKeeps ==
    ASSUME TurnIInv, poised, lines # <<>>, Skips, Head(lines).kind # "delta" \/ at = "turn/interrupt",
           UNCHANGED <<adapterCall, parts, pages, rounds, shown, turn, said, aroundVars>>, strays' \in Nat
    PROVE TurnIInv'
<1> USE DEF TurnIInv, Skips, aroundVars
<1>0. lines \in Seq(Line) /\ Len(parts) \in Nat /\ said \in Nat /\ at \in Listening
  BY LenProperties DEF TurnTypeOK, StageFacts
<1>1. lines' \in Seq(Line) /\ \A i \in DOMAIN lines' : \E j \in DOMAIN lines : lines'[i] = lines[j]
  BY <1>0, TailOfLines
<1>2. TurnTypeOK'
  BY <1>1 DEF TurnTypeOK
<1>3. PipeFacts'
  <2> SUFFICES ASSUME Unbroken PROVE DeltaFacts(lines, Len(parts), said)' /\ TurnFacts(lines, turn, asked)'
    BY DEF PipeFacts, Unbroken
  <2>1. DeltaFacts(Tail(lines), Len(parts), said)
    BY <1>0, SkipKeepsDeltas DEF PipeFacts, Unbroken
  <2>2. TurnFacts(Tail(lines), turn, asked)
    BY <1>0, ReadKeepsTurn DEF PipeFacts
  <2> QED BY <2>1, <2>2
<1>4. TextFacts'
  BY DEF TextFacts, AttemptRuns
<1>5. StageFacts'
  BY <1>0, <1>1, Stages DEF StageFacts, AttemptRuns, Early, Opening, Listening, Ending
<1>6. HonestResult(returned)'
  BY DEF HonestResult
<1> QED BY <1>2, <1>3, <1>4, <1>5, <1>6

\* A turn is interrupted for a cause; from here on the runtime is not believed.
LEMMA InterruptingKeeps ==
    ASSUME TurnIInv, at \in {"run", "suspended"}, cancelled \/ overdue \/ ~linkUp, AskRuntime("turn/interrupt", lines),
           UNCHANGED <<adapterCall, parts, pages, rounds, strays, shown, turn, said, aroundVars>>
    PROVE TurnIInv'
<1>1. CASE child = "gone" /\ ReturnWith(LostAt("turn/interrupt"))
  <2>1. returned' = CancelledResult
    BY <1>1 DEF ReturnWith, EndSession, LostAt
  <2>2. HonestResult(returned)'
    BY <2>1, CancelledIsHonest DEF aroundVars
  <2> QED BY <1>1, <2>2, ReturningKeeps DEF TurnIInv, TurnTypeOK
<1>2. CASE /\ child = "alive" /\ at' = "turn/interrupt" /\ asked' = "turn/interrupt" /\ lines' = lines /\ poised' = FALSE
           /\ begun' = begun /\ UNCHANGED <<returned, child>>
  <2> USE <1>2 DEF TurnIInv, aroundVars
  <2>1. TurnTypeOK'
    BY Stages DEF TurnTypeOK, Listening
  <2>2. PipeFacts'
    BY DEF PipeFacts, Unbroken
  <2>3. TextFacts'
    BY DEF TextFacts, AttemptRuns
  <2>4. StageFacts'
    BY Stages DEF StageFacts, AttemptRuns, Early, Opening, Listening, Ending
  <2>5. HonestResult(returned)'
    BY DEF HonestResult
  <2> QED BY <2>1, <2>2, <2>3, <2>4, <2>5
<1>3. (begun \/ "turn/interrupt" = "turn/start") = begun
  BY DEF TurnIInv, TurnTypeOK
<1> QED BY <1>1, <1>2, <1>3 DEF AskRuntime

\* The look at the deadline and at the cancellation, or a poll without a line, changes nothing else.
LEMMA PoisingKeeps ==
    ASSUME TurnIInv, at \in Listening, poised' \in BOOLEAN,
           UNCHANGED <<at, adapterCall, parts, pages, rounds, strays, begun, shown, returned, runtimeVars, aroundVars>>
    PROVE TurnIInv'
  BY DEF TurnIInv, TurnTypeOK, PipeFacts, Unbroken, DeltaFacts, TurnFacts, TextFacts, StageFacts, HonestResult,
     runtimeVars, aroundVars, AttemptRuns

\* Losing the runtime ends the attempt.
LEMMA LosingKeeps ==
    ASSUME TurnIInv, at \in Listening, ReturnWith(LostAt(at)),
           UNCHANGED <<adapterCall, parts, pages, rounds, strays, shown, turn, said, aroundVars>>
    PROVE TurnIInv'
<1>1. /\ at \in Opening => ~begun
      /\ at = "turn/interrupt" => cancelled \/ overdue \/ ~linkUp
  BY DEF TurnIInv, StageFacts
<1>2. HonestResult(returned)'
  BY <1>1, LossIsHonest DEF ReturnWith, EndSession, aroundVars
<1> QED BY <1>2, ReturningKeeps DEF TurnIInv, TurnTypeOK

\* What cannot be understood ends the attempt; an interrupted one is cancelled all the same.
LEMMA DriftingKeeps ==
    ASSUME TurnIInv, at \in Listening, NEW w, w # "codex_process_lost", Drift(w),
           UNCHANGED <<adapterCall, parts, pages, rounds, shown, turn, said, aroundVars>>, strays' \in Nat
    PROVE TurnIInv'
<1>1. CASE at = "turn/interrupt"
  <2>1. ReturnWith(CancelledResult)
    BY <1>1 DEF Drift
  <2>2. HonestResult(returned)'
    BY <1>1, <2>1, CancelledIsHonest DEF ReturnWith, EndSession, aroundVars, TurnIInv, StageFacts
  <2> QED BY <2>1, <2>2, ReturningKeeps
<1>2. CASE at # "turn/interrupt"
  <2>1. ReturnWith(FailedWith(w))
    BY <1>2 DEF Drift
  <2>2. HonestResult(returned)'
    BY <2>1, FailureIsHonest DEF ReturnWith, EndSession
  <2> QED BY <2>1, <2>2, ReturningKeeps
<1> QED BY <1>1, <1>2

\* The connection is gone: what cannot be streamed is reported as a loss, and reported to nobody.
LEMMA CannotEmitKeeps ==
    ASSUME TurnIInv, CannotEmit, UNCHANGED <<adapterCall, parts, pages, rounds, strays, shown, turn, said, aroundVars>>
    PROVE TurnIInv'
<1>1. HonestResult(returned)'
  BY FailureIsHonest DEF CannotEmit, ReturnWith, EndSession, aroundVars
<1> QED BY <1>1, ReturningKeeps DEF CannotEmit, TurnIInv, TurnTypeOK

-----------------------------------------------------------------------------
(* The steps of the attempt while the runtime is there.                     *)

LEMMA LookKeeps == ASSUME TurnIInv, Look PROVE TurnIInv'
<1> USE DEF Look, Stays
<1>1. CASE MayTimeOut /\ GiveUp(IF at = "turn/interrupt" THEN CancelledResult ELSE FailedWith("protocol_timeout"))
  <2>1. CASE at = "run"
    <3>1. overdue
      BY <1>1, <2>1 DEF MayTimeOut, OutOfTime, OwnBound
    <3> QED BY <1>1, <2>1, <3>1, InterruptingKeeps DEF GiveUp
  <2>2. CASE at = "turn/interrupt"
    <3>1. ReturnWith(CancelledResult)
      BY <1>1, <2>2 DEF GiveUp
    <3>2. HonestResult(returned)'
      BY <2>2, <3>1, CancelledIsHonest DEF ReturnWith, EndSession, aroundVars, TurnIInv, StageFacts
    <3> QED BY <3>1, <3>2, ReturningKeeps DEF TurnIInv, TurnTypeOK
  <2>3. CASE at \notin {"run", "turn/interrupt"}
    <3>1. ReturnWith(FailedWith("protocol_timeout"))
      BY <1>1, <2>3 DEF GiveUp
    <3>2. HonestResult(returned)'
      BY <3>1, FailureIsHonest DEF ReturnWith, EndSession
    <3> QED BY <3>1, <3>2, ReturningKeeps DEF TurnIInv, TurnTypeOK
  <2> QED BY <2>1, <2>2, <2>3
<1>2. CASE Aborted /\ GiveUp(CancelledResult)
  <2>0. cancelled
    BY <1>2 DEF Aborted
  <2>1. CASE at = "run"
    BY <1>2, <2>0, <2>1, InterruptingKeeps DEF GiveUp
  <2>2. CASE at # "run"
    <3>1. ReturnWith(CancelledResult)
      BY <1>2, <2>2 DEF GiveUp
    <3>2. HonestResult(returned)'
      BY <2>0, <3>1, CancelledIsHonest DEF ReturnWith, EndSession, aroundVars
    <3> QED BY <3>1, <3>2, ReturningKeeps DEF TurnIInv, TurnTypeOK
  <2> QED BY <2>1, <2>2
<1>3. CASE poised' = TRUE /\ UNCHANGED <<at, begun, returned, child, asked, lines>>
  BY <1>3, PoisingKeeps DEF runtimeVars
<1> QED BY <1>1, <1>2, <1>3

LEMMA HearNothingKeeps == ASSUME TurnIInv, HearNothing PROVE TurnIInv'
<1>1. at \in Listening
  BY DEF HearNothing, TurnIInv, StageFacts
<1> QED BY <1>1, PoisingKeeps DEF HearNothing, Stays, runtimeVars

LEMMA EndOfOutputKeeps == ASSUME TurnIInv, EndOfOutput PROVE TurnIInv'
<1>1. at \in Listening
  BY DEF EndOfOutput, TurnIInv, StageFacts
<1> QED BY <1>1, LosingKeeps DEF EndOfOutput, Stays

\* Reading happens where the attempt listens.
LEMMA ReadsListening == ASSUME TurnIInv, NEW k, Reads(k)
    PROVE poised /\ lines # <<>> /\ Head(lines).kind = k /\ at \in Listening /\ lines \in Seq(Line) /\ Head(lines) \in Line
<1>1. poised /\ lines # <<>> /\ Head(lines).kind = k
  BY DEF Reads
<1>2. at \in Listening /\ lines \in Seq(Line)
  BY <1>1 DEF TurnIInv, StageFacts, TurnTypeOK
<1> QED BY <1>1, <1>2, TailOfLines

LEMMA ReadStrayKeeps == ASSUME TurnIInv, ReadStray PROVE TurnIInv'
<1> USE DEF ReadStray
<1>1. poised /\ lines # <<>> /\ Head(lines).kind = "stray" /\ at \in Listening
  BY ReadsListening
<1>2. strays' \in Nat
  BY DEF TurnIInv, TurnTypeOK
<1>3. CASE Drift("notification_budget_exceeded")
  BY <1>1, <1>2, <1>3, DriftingKeeps
<1>4. CASE Skips
  BY <1>1, <1>2, <1>4, SkippingKeeps
<1> QED BY <1>3, <1>4

LEMMA ReadGarbageKeeps == ASSUME TurnIInv, ReadGarbage PROVE TurnIInv'
<1>1. at \in Listening
  BY ReadsListening DEF ReadGarbage
<1>2. strays' \in Nat
  BY DEF ReadGarbage, Stays, TurnIInv, TurnTypeOK
<1> QED BY <1>1, <1>2, DriftingKeeps DEF ReadGarbage, Stays

LEMMA ReadRequestKeeps == ASSUME TurnIInv, ReadRequest PROVE TurnIInv'
<1> USE DEF ReadRequest
<1>0. poised /\ lines # <<>> /\ Head(lines).kind = "request" /\ at \in Listening /\ lines \in Seq(Line) /\ Head(lines) \in Line
  BY ReadsListening
<1>00. strays' \in Nat
  BY DEF TurnIInv, TurnTypeOK
<1>1. CASE child = "gone" /\ ReturnWith(LostAt(at)) /\ UNCHANGED turn
  BY <1>0, <1>1, LosingKeeps
<1>2. CASE lines' = Tail(lines) /\ UNCHANGED turn /\ poised' = FALSE /\ UNCHANGED <<at, begun, returned, child, asked>>
  BY <1>0, <1>00, <1>2, SkippingKeeps DEF Skips
<1>3. CASE /\ Head(lines).approval /\ turn = "suspended" /\ child = "alive" /\ poised' = FALSE
           /\ turn' = "interrupted" /\ lines' = Append(Tail(lines), [kind |-> "ended", status |-> "interrupted"])
           /\ UNCHANGED <<at, begun, returned, child, asked>>
  <2> USE <1>3 DEF TurnIInv, aroundVars
  <2> DEFINE l == [kind |-> "ended", status |-> "interrupted"]
             rest == Tail(lines)
  <2>1. l \in Line /\ l.kind = "ended" /\ l.status = "interrupted" /\ ~HoldsTurn(l)
    BY LinesWritten DEF Endings, HoldsTurn
  <2>2. rest \in Seq(Line) /\ (\A i \in DOMAIN rest : \E j \in DOMAIN lines : rest[i] = lines[j])
    BY <1>0, TailOfLines
  <2>3. lines' = Append(rest, l)
    OBVIOUS
  <2> HIDE DEF l
  <2>4. lines' \in Seq(Line) /\ \A i \in DOMAIN lines' : lines'[i] = l \/ \E j \in DOMAIN lines : lines'[i] = lines[j]
    <3>1. Append(rest, l) \in Seq(Line)
      BY <2>1, <2>2, AppendOfLines
    <3>2. \A i \in DOMAIN Append(rest, l) : Append(rest, l)[i] = l \/ \E j \in DOMAIN rest : Append(rest, l)[i] = rest[j]
      BY <2>1, <2>2, AppendOfLines
    <3> QED BY <2>2, <2>3, <3>1, <3>2
  <2>5. TurnTypeOK'
    BY <2>4 DEF TurnTypeOK, Endings
  <2>6. PipeFacts'
    <3> SUFFICES ASSUME Unbroken PROVE DeltaFacts(lines', Len(parts), said) /\ TurnFacts(lines', "interrupted", asked)
      BY DEF PipeFacts, Unbroken
    <3>0. Len(parts) \in Nat /\ said \in Nat
      BY LenProperties DEF TurnTypeOK
    <3>1. DeltaFacts(lines, Len(parts), said) /\ TurnFacts(lines, turn, asked)
      BY DEF PipeFacts
    <3>2. HoldsTurn(Head(lines))
      BY <1>0 DEF HoldsTurn
    <3>3. DeltaFacts(rest, Len(parts), said) /\ TurnFacts(rest, turn, asked)
      BY <1>0, <3>0, <3>1, SkipKeepsDeltas, ReadKeepsTurn
    <3>4. \A i \in DOMAIN rest : ~HoldsTurn(rest[i])
      BY <1>0, <3>0, <3>1, <3>2, ReadHold
    <3>5. \A i \in DOMAIN rest : rest[i].kind # "ended"
      BY <2>2, <3>3, OpenTurn
    <3>6. DeltaFacts(Append(rest, l), Len(parts), said)
      BY <2>1, <2>2, <3>0, <3>3, WriteKeepsDeltas
    <3>7. TurnFacts(Append(rest, l), "interrupted", asked)
      BY <2>1, <2>2, <3>3, <3>4, <3>5, WriteKeepsTurn
    <3> QED BY <2>3, <3>6, <3>7
  <2>7. TextFacts'
    BY DEF TextFacts, AttemptRuns
  <2>8. StageFacts'
    BY <1>0, <2>1, <2>4, Stages DEF StageFacts, AttemptRuns, Early, Opening, Listening, Ending
  <2>9. HonestResult(returned)'
    BY <1>0, Stages, NothingClaimed DEF StageFacts, AttemptRuns, Listening, Opening
  <2> QED BY <2>5, <2>6, <2>7, <2>8, <2>9
<1> QED BY <1>1, <1>2, <1>3

\* The next method is asked once its answer is read; a runtime that is gone leaves the outcome of turn/start unknown.
LEMMA AskingKeeps ==
    ASSUME TurnIInv, poised, lines # <<>>, Head(lines).kind = "answer", at \in Opening, NEW m \in Opening \union {"turn/start"},
           AskRuntime(m, Tail(lines)), pages' \in Nat,
           UNCHANGED <<adapterCall, parts, rounds, strays, shown, turn, said, aroundVars>>
    PROVE TurnIInv'
<1>0. /\ lines \in Seq(Line) /\ Len(parts) \in Nat /\ said \in Nat /\ at \in Listening /\ Unbroken
      /\ ~begun /\ turn = "none" /\ at \notin {"begin", "bind"} \union Ending
  BY LenProperties, Stages DEF TurnIInv, TurnTypeOK, StageFacts, Unbroken, Opening, Listening, Ending
<1>1. CASE child = "gone" /\ ReturnWith(LostAt(m))
  <2>1. HonestResult(returned)'
    BY <1>0, <1>1, Stages, LossIsHonest DEF ReturnWith, EndSession, Listening, Opening
  <2>2. at' \in Ending /\ EndSession(at', returned')
    BY <1>1 DEF ReturnWith, EndSession, Ending
  <2>3. /\ parts \in Seq(Nat) /\ shown \in Seq(Nat) /\ rounds \in Nat /\ strays \in Nat
        /\ turn = "none" => said = 0
    BY DEF TurnIInv, TurnTypeOK, TextFacts
  <2> QED BY <1>0, <2>1, <2>2, <2>3, ClosingKeeps
<1>2. CASE /\ child = "alive" /\ at' = m /\ asked' = m /\ lines' = Tail(lines) /\ poised' = FALSE
           /\ begun' = (begun \/ m = "turn/start") /\ UNCHANGED <<returned, child>>
  <2> USE <1>0, <1>2 DEF TurnIInv, aroundVars
  <2>1. lines' \in Seq(Line)
    BY TailOfLines
  <2>2. DeltaFacts(lines, Len(parts), said) /\ TurnFacts(lines, turn, asked)
    BY DEF PipeFacts
  <2>3. \A i \in DOMAIN Tail(lines) : Tail(lines)[i].kind # "answer"
    BY <2>2, ReadTheAnswer
  <2>4. TurnTypeOK'
    BY <2>1, Stages DEF TurnTypeOK, Listening, Opening
  <2>5. PipeFacts'
    <3>1. DeltaFacts(Tail(lines), Len(parts), said) /\ TurnFacts(Tail(lines), turn, asked)
      BY <2>2, SkipKeepsDeltas, ReadKeepsTurn
    <3>2. TurnFacts(Tail(lines), turn, m)
      BY <2>3, <3>1 DEF TurnFacts
    <3> QED BY <3>1, <3>2 DEF PipeFacts
  <2>6. TextFacts'
    BY Stages DEF TextFacts, AttemptRuns, Opening
  <2>7. StageFacts'
    BY Stages DEF StageFacts, AttemptRuns, Early, Opening, Listening, Ending
  <2>8. HonestResult(returned)'
    BY NothingClaimed DEF StageFacts, AttemptRuns, Opening
  <2> QED BY <2>4, <2>5, <2>6, <2>7, <2>8
<1> QED BY <1>1, <1>2 DEF AskRuntime

\* A bad answer is reported as what it is, never as a loss of the runtime.
LEMMA AnswerFlawIsNoLoss == \A f \in AnswerFlaws : f[3] # "codex_process_lost"
<1>0. \A a, b, c : <<a, b, c>>[3] = c
  OBVIOUS
<1> DEFINE P(f) == f[3] # "codex_process_lost"
<1>1. /\ P(<<"initialize", "error", "initialize_refused">>) /\ P(<<"initialize", "schema", "initialize_schema_changed">>)
      /\ P(<<"initialize", "other home", "controlled_home_not_adopted">>)
      /\ P(<<"account/read", "error", "auth_unverified">>) /\ P(<<"account/read", "schema", "auth_unverified">>)
      /\ P(<<"account/read", "none", "auth_missing">>) /\ P(<<"account/read", "apiKey", "auth_payg_unsupported">>)
      /\ P(<<"model/list", "schema", "model_list_malformed">>) /\ P(<<"model/list", "unlisted", "model_not_listed">>)
      /\ P(<<"model/list", "no effort", "effort_not_supported">>)
      /\ P(<<"thread/start", "error", "dynamic_tools_runtime_refused">>) /\ P(<<"thread/start", "schema", "thread_start_schema_changed">>)
      /\ P(<<"thread/inject_items", "schema", "thread_inject_schema_changed">>)
      /\ P(<<"turn/start", "schema", "turn_start_schema_changed">>)
  BY <1>0
<1> HIDE DEF P
<1>2. \A f \in AnswerFlaws : P(f)
  BY <1>1, Zenon DEF AnswerFlaws
<1> QED BY <1>2 DEF P

LEMMA ReadAnswerKeeps == ASSUME TurnIInv, ReadAnswer PROVE TurnIInv'
<1> DEFINE v == Head(lines).says
<1>0. /\ poised /\ lines # <<>> /\ Head(lines).kind = "answer" /\ at \in Listening /\ lines \in Seq(Line)
      /\ Stays /\ UNCHANGED <<adapterCall, table, aroundVars>>
      /\ pages \in Nat /\ rounds \in Nat /\ strays \in Nat
  BY ReadsListening DEF ReadAnswer, TurnIInv, TurnTypeOK
<1>00. at # "run"
  BY <1>0, TailOfLines DEF TurnIInv, StageFacts
<1>1. CASE at = "turn/interrupt" /\ ReturnWith(CancelledResult) /\ UNCHANGED pages
  <2>1. HonestResult(returned)'
    BY <1>0, <1>1, CancelledIsHonest DEF ReturnWith, EndSession, aroundVars, TurnIInv, StageFacts
  <2> QED BY <1>0, <1>1, <2>1, ReturningKeeps DEF Stays
<1>2. CASE EndSession("escaped", NoResult) /\ UNCHANGED pages
  <2>1. HonestResult(returned)'
    BY <1>2, NothingClaimed DEF EndSession
  <2>2. at' \in Ending /\ EndSession(at', returned')
    BY <1>2 DEF EndSession, Ending
  <2>3. /\ parts \in Seq(Nat) /\ shown \in Seq(Nat) /\ said \in Nat
        /\ turn = "none" => said = 0
    BY DEF TurnIInv, TurnTypeOK, TextFacts
  <2> QED BY <1>0, <1>2, <2>1, <2>2, <2>3, ClosingKeeps DEF Stays
<1>3. CASE (\E f \in AnswerFlawsOf(at) : f[2] = v /\ ReturnWith(FailedWith(f[3]))) /\ UNCHANGED pages
  <2> PICK f \in AnswerFlawsOf(at) : ReturnWith(FailedWith(f[3]))
    BY <1>3
  <2>1. f[3] # "codex_process_lost"
    BY AnswerFlawIsNoLoss DEF AnswerFlawsOf
  <2>2. HonestResult(returned)'
    BY <2>1, FailureIsHonest DEF ReturnWith, EndSession
  <2> QED BY <1>0, <1>3, <2>2, ReturningKeeps DEF Stays
<1>4. CASE ReturnWith(FailedWith("model_listing_budget_exceeded")) /\ UNCHANGED pages
  <2>1. HonestResult(returned)'
    BY <1>4, FailureIsHonest DEF ReturnWith, EndSession
  <2> QED BY <1>0, <1>4, <2>1, ReturningKeeps DEF Stays
<1>5. CASE /\ at = "turn/start" /\ at' = "run" /\ poised' = FALSE /\ lines' = Tail(lines)
           /\ UNCHANGED <<pages, begun, returned, child, asked>>
  <2> USE <1>0, <1>5 DEF TurnIInv, aroundVars, Stays
  <2>0. Len(parts) \in Nat /\ said \in Nat /\ Unbroken
    BY LenProperties DEF TurnTypeOK, Unbroken, Ending
  <2>1. lines' \in Seq(Line)
    BY TailOfLines
  <2>2. DeltaFacts(lines, Len(parts), said) /\ TurnFacts(lines, turn, asked)
    BY <2>0 DEF PipeFacts
  <2>3. asked = NoFlaw /\ \A i \in DOMAIN Tail(lines) : Tail(lines)[i].kind # "answer"
    BY <2>2, ReadTheAnswer
  <2>4. TurnTypeOK'
    BY <2>1 DEF TurnTypeOK, Listening
  <2>5. PipeFacts'
    BY <2>0, <2>2, SkipKeepsDeltas, ReadKeepsTurn DEF PipeFacts
  <2>6. TextFacts'
    BY DEF TextFacts, AttemptRuns
  <2>7. StageFacts'
    BY <2>3, Stages, NoFlawIsNoWord DEF StageFacts, AttemptRuns, Early, Opening, Listening, Ending
  <2>8. HonestResult(returned)'
    BY NothingClaimed DEF StageFacts, AttemptRuns
  <2> QED BY <2>4, <2>5, <2>6, <2>7, <2>8
<1>6. CASE /\ at \notin {"turn/start", "turn/interrupt"} /\ v \in {"ok", "more"} /\ AskRuntime(Following(at, v), Tail(lines))
           /\ pages' \in {pages, pages + 1}
  <2>1. at \in Opening
    BY <1>0, <1>00, <1>6, Stages DEF Listening
  <2>2. Following(at, v) \in Opening \union {"turn/start"}
    BY <1>6, <2>1, FollowingIsAMethod
  <2>3. pages' \in Nat
    BY <1>0, <1>6
  <2> QED BY <1>0, <1>6, <2>1, <2>2, <2>3, AskingKeeps DEF Stays
<1> QED BY <1>1, <1>2, <1>3, <1>4, <1>5, <1>6 DEF ReadAnswer

\* The text grows by the next delta.
LEMMA TextGrows == ASSUME NEW p \in Seq(Nat), p = [k \in 1 .. Len(p) |-> k], NEW n, n = Len(p) + 1
    PROVE /\ Append(p, n) \in Seq(Nat) /\ Len(Append(p, n)) = Len(p) + 1
          /\ Append(p, n) = [k \in 1 .. Len(Append(p, n)) |-> k]
<1>1. Len(p) \in Nat /\ n \in Nat
  BY LenProperties
<1> DEFINE q == Append(p, n)
<1>2. /\ q \in Seq(Nat) /\ Len(q) = Len(p) + 1
      /\ \A i \in 1 .. Len(p) : q[i] = p[i]
      /\ q[Len(p) + 1] = n
  BY <1>1, AppendProperties
<1>3. q \in [1 .. Len(q) -> Nat]
  BY <1>2, LenProperties
<1> HIDE DEF q
<1>4. \A i \in 1 .. Len(q) : q[i] = i
  <2> TAKE i \in 1 .. Len(q)
  <2>1. CASE i \in 1 .. Len(p)
    <3>1. p[i] = i
      BY <2>1
    <3> QED BY <2>1, <3>1, <1>2
  <2>2. CASE i = Len(p) + 1
    BY <2>2, <1>2
  <2> QED BY <2>1, <2>2, <1>1, <1>2
<1>5. q = [k \in 1 .. Len(q) |-> k]
  BY <1>3, <1>4
<1> QED BY <1>2, <1>5 DEF q

LEMMA ReadDeltaKeeps == ASSUME TurnIInv, ReadDelta PROVE TurnIInv'
<1> USE DEF ReadDelta
<1>0. poised /\ lines # <<>> /\ Head(lines).kind = "delta" /\ at \in Listening /\ lines \in Seq(Line)
  BY ReadsListening
<1>00. strays' \in Nat
  BY DEF TurnIInv, TurnTypeOK
<1>1. CASE at = "turn/interrupt" /\ Skips /\ UNCHANGED <<parts, shown>>
  BY <1>0, <1>00, <1>1, SkippingKeeps
<1>2. CASE CannotEmit /\ UNCHANGED <<parts, shown>>
  BY <1>2, CannotEmitKeeps
<1>3. CASE /\ at = "run" /\ Skips /\ parts' = Append(parts, Head(lines).nth)
           /\ shown' = IF Streams THEN Append(shown, Head(lines).nth) ELSE shown
  <2> USE <1>0, <1>3 DEF TurnIInv, aroundVars, Skips
  <2>0. parts \in Seq(Nat) /\ Len(parts) \in Nat /\ said \in Nat /\ Unbroken /\ AttemptRuns
    BY LenProperties DEF TurnTypeOK, Unbroken, Ending, AttemptRuns
  <2>1. Head(lines).nth = Len(parts) + 1 /\ DeltaFacts(Tail(lines), Len(parts) + 1, said)
    BY <2>0, TakeKeepsDeltas DEF PipeFacts
  <2>2. parts = [k \in 1 .. Len(parts) |-> k] /\ (adapterCall.stream /\ ~cancelled => shown = parts)
    BY <2>0 DEF TextFacts
  <2>3. parts' \in Seq(Nat) /\ Len(parts') = Len(parts) + 1 /\ parts' = [k \in 1 .. Len(parts') |-> k]
    <3> DEFINE n == Head(lines).nth
    <3>1. parts' = Append(parts, n) /\ n = Len(parts) + 1
      BY <2>1
    <3> HIDE DEF n
    <3>2. /\ Append(parts, n) \in Seq(Nat) /\ Len(Append(parts, n)) = Len(parts) + 1
          /\ Append(parts, n) = [k \in 1 .. Len(Append(parts, n)) |-> k]
      BY <2>0, <2>2, <3>1, TextGrows
    <3> QED BY <3>1, <3>2
  <2>4. shown' \in Seq(Nat) /\ (adapterCall.stream /\ ~cancelled => shown' = parts')
    <3>1. shown \in Seq(Nat)
      BY DEF TurnTypeOK
    <3>2. CASE Streams
      BY <2>2, <2>3, <3>2 DEF Streams
    <3>3. CASE ~Streams
      BY <3>1, <3>3 DEF Streams
    <3> QED BY <3>2, <3>3
  <2>5. lines' \in Seq(Line) /\ \A i \in DOMAIN lines' : \E j \in DOMAIN lines : lines'[i] = lines[j]
    BY TailOfLines
  <2>6. TurnTypeOK'
    BY <2>3, <2>4, <2>5 DEF TurnTypeOK
  <2>7. PipeFacts'
    <3>1. TurnFacts(Tail(lines), turn, asked)
      BY <2>0, ReadKeepsTurn DEF PipeFacts
    <3> QED BY <2>1, <2>3, <3>1 DEF PipeFacts
  <2>8. TextFacts'
    BY <2>0, <2>3, <2>4 DEF TextFacts, AttemptRuns
  <2>9. StageFacts'
    BY <2>5, Stages DEF StageFacts, AttemptRuns, Early, Opening, Listening, Ending
  <2>10. HonestResult(returned)'
    BY <2>0, NothingClaimed DEF StageFacts
  <2> QED BY <2>6, <2>7, <2>8, <2>9, <2>10
<1> QED BY <1>1, <1>2, <1>3

LEMMA ReadToolCallKeeps == ASSUME TurnIInv, ReadToolCall PROVE TurnIInv'
<1>00. rounds + 1 \in Nat
  BY DEF TurnIInv, TurnTypeOK
<1> USE DEF ReadToolCall
<1>0. /\ poised /\ lines # <<>> /\ Head(lines).kind = "tool call" /\ at \in Listening /\ lines \in Seq(Line)
      /\ pages' \in Nat /\ strays' \in Nat
  BY ReadsListening DEF TurnIInv, TurnTypeOK
<1>1. CASE at = "turn/interrupt" /\ Skips /\ UNCHANGED rounds
  BY <1>0, <1>1, SkippingKeeps
<1>2. CASE (ReturnWith(FailedWith("tool_call_malformed")) \/ ReturnWith(FailedWith("tool_round_budget_exceeded"))) /\ UNCHANGED rounds
  <2> PICK w \in {"tool_call_malformed", "tool_round_budget_exceeded"} : ReturnWith(FailedWith(w))
    BY <1>2
  <2>1. HonestResult(returned)'
    BY FailureIsHonest DEF ReturnWith, EndSession
  <2> QED BY <1>0, <1>2, <2>1, ReturningKeeps
<1>3. CASE /\ at = "run" /\ at' = "suspended" /\ rounds' = rounds + 1 /\ poised' = FALSE /\ lines' = Tail(lines)
           /\ UNCHANGED <<begun, returned, child, asked>>
  <2> USE <1>0, <1>3 DEF TurnIInv, aroundVars
  <2>0. Len(parts) \in Nat /\ said \in Nat /\ Unbroken
    BY LenProperties DEF TurnTypeOK, Unbroken, Ending
  <2>1. lines' \in Seq(Line) /\ \A i \in DOMAIN lines' : \E j \in DOMAIN lines : lines'[i] = lines[j]
    BY TailOfLines
  <2>2. DeltaFacts(lines, Len(parts), said) /\ TurnFacts(lines, turn, asked)
    BY <2>0 DEF PipeFacts
  <2>3. turn = "suspended" /\ \A i \in DOMAIN lines' : lines'[i].kind # "delta" /\ ~HoldsTurn(lines'[i])
    BY <2>0, <2>2, ReadHold DEF HoldsTurn
  <2>4. TurnTypeOK'
    <3>1. rounds' \in Nat
      BY <1>00, <1>3
    <3> QED BY <2>1, <3>1 DEF TurnTypeOK
  <2>5. PipeFacts'
    BY <2>0, <2>2, SkipKeepsDeltas, ReadKeepsTurn DEF PipeFacts
  <2>6. TextFacts'
    BY DEF TextFacts, AttemptRuns
  <2>7. StageFacts'
    BY <2>1, <2>3, Stages DEF StageFacts, AttemptRuns, Early, Opening, Listening, Ending
  <2>8. HonestResult(returned)'
    BY NothingClaimed DEF StageFacts, AttemptRuns
  <2> QED BY <2>4, <2>5, <2>6, <2>7, <2>8
<1> QED BY <1>1, <1>2, <1>3

\* A completed result: the turn completed, and its text was read to the end and shown as it was read.
LEMMA ReadEndKeeps == ASSUME TurnIInv, ReadEnd PROVE TurnIInv'
<1> DEFINE status == Head(lines).status
<1>0. /\ poised /\ lines # <<>> /\ Head(lines).kind = "ended" /\ at \in Listening /\ lines \in Seq(Line)
      /\ Stays /\ UNCHANGED <<adapterCall, table, pages, aroundVars>> /\ strays' \in Nat
      /\ at \in {"run", "turn/interrupt"}
  BY ReadsListening DEF ReadEnd, Stays, TurnIInv, TurnTypeOK
<1>1. CASE at = "turn/interrupt" /\ Skips
  BY <1>0, <1>1, SkippingKeeps DEF Stays
<1>2. CASE CannotEmit
  BY <1>0, <1>2, CannotEmitKeeps DEF Stays
<1>3. CASE ReturnWith(FailedWith("turn_status_unrecognized")) \/ ReturnWith(FailedWith("the codex turn failed"))
  <2> PICK w \in {"turn_status_unrecognized", "the codex turn failed"} : ReturnWith(FailedWith(w))
    BY <1>3
  <2>1. HonestResult(returned)'
    BY FailureIsHonest DEF ReturnWith, EndSession
  <2> QED BY <1>0, <2>1, ReturningKeeps DEF Stays
<1>4. at = "run" => turn = status /\ Len(parts) = said
  <2> HAVE at = "run"
  <2>1. Len(parts) \in Nat /\ said \in Nat /\ Unbroken
    BY LenProperties DEF TurnIInv, TurnTypeOK, Unbroken, Ending
  <2> QED BY <1>0, <2>1, ReadTheEnd DEF TurnIInv, PipeFacts
<1>5. CASE at = "run" /\ status = "interrupted" /\ ReturnWith(CancelledResult)
  <2>1. HonestResult(returned)'
    BY <1>0, <1>4, <1>5, CancelledIsHonest DEF ReturnWith, EndSession, Stays
  <2> QED BY <1>0, <1>5, <2>1, ReturningKeeps DEF Stays
<1>6. CASE cancelled /\ ReturnWith(CancelledResult)
  <2>1. HonestResult(returned)'
    BY <1>0, <1>6, CancelledIsHonest DEF ReturnWith, EndSession, aroundVars
  <2> QED BY <1>0, <1>6, <2>1, ReturningKeeps DEF Stays
<1>7. CASE at = "run" /\ status = "completed" /\ ~cancelled /\ ReturnWith(CompletedWith(parts))
  <2>1. parts = [k \in 1 .. said |-> k] /\ (adapterCall.stream => shown = parts)
    BY <1>4, <1>7 DEF TurnIInv, TextFacts, AttemptRuns
  <2>2. returned' = CompletedWith(parts)
    BY <1>7 DEF ReturnWith, EndSession
  <2>3. returned'.status = "completed" /\ returned'.note = NoFlaw /\ returned'.content = parts
    BY <2>2 DEF CompletedWith
  <2>4. HonestResult(returned)'
    BY <1>0, <1>4, <1>7, <2>1, <2>3, NoFlawIsNoWord DEF HonestResult, Stays
  <2> QED BY <1>0, <1>7, <2>4, ReturningKeeps DEF Stays
<1> QED BY <1>1, <1>2, <1>3, <1>5, <1>6, <1>7 DEF ReadEnd

-----------------------------------------------------------------------------
(* The bridge.                                                              *)

LEMMA HarnessAnswersKeeps == ASSUME TurnIInv, HarnessAnswers PROVE TurnIInv'
<1> USE DEF HarnessAnswers, TextStartsAfresh
<1>0. at = "suspended" /\ turn = "suspended" /\ parts' = <<>> /\ shown' = <<>> /\ said' = 0 /\ asked = NoFlaw
  BY DEF TurnIInv, StageFacts
<1>1. CASE ReturnWith(Ambiguous) /\ UNCHANGED turn
  <2>1. HonestResult(returned)'
    BY <1>1, AmbiguousIsHonest DEF ReturnWith, EndSession
  <2>2. at' \in Ending /\ EndSession(at', returned')
    BY <1>1 DEF ReturnWith, EndSession, Ending
  <2>3. /\ parts' \in Seq(Nat) /\ shown' \in Seq(Nat) /\ said' \in Nat /\ pages' \in Nat /\ rounds' \in Nat /\ strays' \in Nat
        /\ turn = "none" => said' = 0
    BY <1>0 DEF TurnIInv, TurnTypeOK
  <2> QED BY <1>1, <2>1, <2>2, <2>3, ClosingKeeps
<1>2. CASE child = "alive" /\ at' = "run" /\ turn' = "running" /\ UNCHANGED <<poised, begun, returned, child, asked, lines>>
  <2> USE <1>0, <1>2 DEF TurnIInv, aroundVars
  <2>1. <<>> \in Seq(Nat) /\ Len(<<>>) = 0
    OBVIOUS
  <2>2. TurnTypeOK'
    BY <2>1 DEF TurnTypeOK, Listening
  <2>3. lines \in Seq(Line) /\ \A i \in DOMAIN lines : lines[i].kind # "delta" /\ ~HoldsTurn(lines[i])
    BY DEF TurnTypeOK, StageFacts
  <2>4. TurnFacts(lines, turn, asked)
    BY DEF PipeFacts, Unbroken, Ending
  <2>5. PipeFacts'
    <3>1. DeltaFacts(lines, 0, 0)
      BY <2>3 DEF DeltaFacts
    <3>2. \A i \in DOMAIN lines : lines[i].kind # "ended"
      BY <2>3, <2>4, OpenTurn
    <3>3. TurnFacts(lines, "running", asked)
      BY <2>3, <2>4, <3>2 DEF TurnFacts
    <3> QED BY <2>1, <3>1, <3>3 DEF PipeFacts
  <2>6. TextFacts'
    <3>1. <<>> = [k \in 1 .. Len(<<>>) |-> k]
      OBVIOUS
    <3> QED BY <3>1 DEF TextFacts, AttemptRuns
  <2>7. StageFacts'
    BY Stages, NoFlawIsNoWord DEF StageFacts, AttemptRuns, Early, Opening, Listening, Ending
  <2>8. HonestResult(returned)'
    BY NothingClaimed DEF StageFacts, AttemptRuns
  <2> QED BY <2>2, <2>5, <2>6, <2>7, <2>8
<1> QED BY <1>1, <1>2

LEMMA BridgeEndsKeeps == ASSUME TurnIInv, BridgeEnds PROVE TurnIInv'
  BY InterruptingKeeps DEF BridgeEnds, Stays

-----------------------------------------------------------------------------
(* The runtime moves while its process lives, and never after the attempt.  *)

\* The stages of an attempt whose runtime lives.
LEMMA LivingAttempt == ASSUME TurnIInv, Living PROVE at \in Listening \union {"suspended"} /\ AttemptRuns /\ returned = NoResult
  BY DEF Living, TurnIInv, TurnTypeOK, StageFacts, Ending, AttemptRuns

\* A line is written that neither answers nor is a delta, and leaves the turn where the line says.
LEMMA WritingKeeps ==
    ASSUME TurnIInv, Living, Quiet, UNCHANGED <<child, asked, said>>, NEW l \in Line, l.kind \notin {"answer", "delta"}, Writes(l),
           \/ turn' = turn /\ l.kind # "ended" /\ ~HoldsTurn(l)
           \/ turn = "running" /\ turn' \in Endings /\ l.kind = "ended" /\ l.status = turn'
           \/ turn = "running" /\ turn' = "suspended" /\ HoldsTurn(l) /\ l.kind # "ended"
    PROVE TurnIInv'
<1> USE DEF TurnIInv, Quiet, attemptVars, aroundVars, Writes
<1>0. /\ at \in Listening \union {"suspended"} /\ AttemptRuns /\ returned = NoResult
      /\ lines \in Seq(Line) /\ Len(parts) \in Nat /\ said \in Nat
  BY LivingAttempt, LenProperties DEF TurnTypeOK
<1>1. lines' \in Seq(Line) /\ \A i \in DOMAIN lines' : lines'[i] = l \/ \E j \in DOMAIN lines : lines'[i] = lines[j]
  BY <1>0, AppendOfLines
<1>2. TurnTypeOK'
  BY <1>1 DEF TurnTypeOK
<1>3. PipeFacts'
  <2> SUFFICES ASSUME Unbroken PROVE DeltaFacts(lines', Len(parts), said) /\ TurnFacts(lines', turn', asked)
    BY DEF PipeFacts, Unbroken
  <2>1. DeltaFacts(lines, Len(parts), said) /\ TurnFacts(lines, turn, asked)
    BY DEF PipeFacts
  <2>2. DeltaFacts(Append(lines, l), Len(parts), said)
    BY <1>0, <2>1, WriteKeepsDeltas
  <2>3. turn = "running" => \A i \in DOMAIN lines : lines[i].kind # "ended" /\ ~HoldsTurn(lines[i])
    BY <1>0, <2>1, OpenTurn
  <2>4. TurnFacts(Append(lines, l), turn', asked)
    <3>1. CASE turn' = turn /\ l.kind # "ended" /\ ~HoldsTurn(l)
      BY <1>0, <2>1, <3>1, WriteKeepsTurn
    <3>2. CASE turn = "running" /\ turn' \in Endings /\ l.kind = "ended" /\ l.status = turn'
      <4>1. ~HoldsTurn(l)
        BY <3>2 DEF HoldsTurn
      <4> QED BY <1>0, <2>1, <2>3, <3>2, <4>1, WriteKeepsTurn
    <3>3. CASE turn = "running" /\ turn' = "suspended" /\ HoldsTurn(l) /\ l.kind # "ended"
      BY <1>0, <2>1, <2>3, <3>3, WriteKeepsTurn
    <3> QED BY <3>1, <3>2, <3>3
  <2> QED BY <2>2, <2>4
<1>4. TextFacts'
  BY DEF TextFacts, AttemptRuns, Endings
<1>5. StageFacts'
  BY <1>0, <1>1, Stages DEF StageFacts, AttemptRuns, Early, Opening, Listening, Ending, Endings
<1>6. HonestResult(returned)'
  BY <1>0, NothingClaimed
<1> QED BY <1>2, <1>3, <1>4, <1>5, <1>6

LEMMA RuntimeSpeaksKeeps == ASSUME TurnIInv, RuntimeSpeaks PROVE TurnIInv'
<1> USE DEF TurnIInv, RuntimeSpeaks, Quiet, attemptVars, aroundVars, Writes
<1> DEFINE l == [kind |-> "delta", nth |-> said + 1]
<1>0. /\ at \in Listening \union {"suspended"} /\ AttemptRuns /\ returned = NoResult
      /\ lines \in Seq(Line) /\ Len(parts) \in Nat /\ said \in Nat /\ said + 1 \in Nat
  BY LivingAttempt, LenProperties DEF TurnTypeOK
<1>1. l \in Line /\ l.kind = "delta" /\ ~HoldsTurn(l)
  BY <1>0, LinesWritten DEF HoldsTurn
<1>2. lines' = Append(lines, l)
  OBVIOUS
<1>3. PipeFacts'
  <2> SUFFICES ASSUME Unbroken PROVE DeltaFacts(lines', Len(parts), said + 1) /\ TurnFacts(lines', turn, asked)
    BY DEF PipeFacts, Unbroken
  <2>1. DeltaFacts(lines, Len(parts), said) /\ TurnFacts(lines, turn, asked)
    BY DEF PipeFacts
  <2>2. \A i \in DOMAIN lines : lines[i].kind # "ended" /\ ~HoldsTurn(lines[i])
    BY <1>0, <2>1, OpenTurn
  <2>3. DeltaFacts(Append(lines, l), Len(parts), said + 1)
    BY <1>0, <2>1, <2>2, SayKeepsDeltas
  <2> HIDE DEF l
  <2>4. TurnFacts(Append(lines, l), turn, asked)
    BY <1>0, <1>1, <2>1, WriteKeepsTurn
  <2> QED BY <1>2, <2>3, <2>4
<1> HIDE DEF l
<1>4. lines' \in Seq(Line) /\ \A i \in DOMAIN lines' : lines'[i] = l \/ \E j \in DOMAIN lines : lines'[i] = lines[j]
  BY <1>0, <1>1, <1>2, AppendOfLines
<1>5. TurnTypeOK'
  BY <1>0, <1>4 DEF TurnTypeOK
<1>6. TextFacts'
  BY DEF TextFacts, AttemptRuns
<1>7. StageFacts'
  BY <1>0, <1>1, <1>4, Stages DEF StageFacts, AttemptRuns, Early, Opening, Listening, Ending
<1>8. HonestResult(returned)'
  BY <1>0, NothingClaimed
<1> QED BY <1>3, <1>5, <1>6, <1>7, <1>8

LEMMA RuntimeCallsKeeps == ASSUME TurnIInv, RuntimeCalls PROVE TurnIInv'
<1> PICK sound \in BOOLEAN : Writes([kind |-> "tool call", sound |-> sound])
  BY DEF RuntimeCalls
<1> DEFINE l == [kind |-> "tool call", sound |-> sound]
<1>1. l \in Line /\ l.kind = "tool call" /\ HoldsTurn(l) /\ Writes(l)
  BY LinesWritten DEF HoldsTurn
<1> HIDE DEF l
<1> QED BY <1>1, WritingKeeps DEF RuntimeCalls

LEMMA RuntimeRequestsKeeps == ASSUME TurnIInv, RuntimeRequests PROVE TurnIInv'
<1> DEFINE a == turn = "running"
           l == [kind |-> "request", approval |-> a]
<1>0. a \in BOOLEAN
  OBVIOUS
<1>1. l \in Line /\ l.kind = "request" /\ (HoldsTurn(l) <=> turn = "running")
  <2>1. \A b \in BOOLEAN : [kind |-> "request", approval |-> b] \in Line
    BY LinesWritten
  <2>2. l.approval = a /\ l.kind = "request"
    OBVIOUS
  <2>3. l \in Line
    BY <1>0, <2>1
  <2> QED BY <2>2, <2>3 DEF HoldsTurn
<1>2. Writes(l)
  BY DEF RuntimeRequests
<1> HIDE DEF l
<1> QED BY <1>1, <1>2, WritingKeeps DEF RuntimeRequests

LEMMA RuntimeEndsKeeps == ASSUME TurnIInv, RuntimeEnds PROVE TurnIInv'
<1>1. turn' \in Endings
  BY DEF RuntimeEnds, Endings
<1>2. EndedLine(turn') \in Line /\ EndedLine(turn').kind = "ended" /\ EndedLine(turn').status = turn'
  BY <1>1, LinesWritten DEF EndedLine
<1> QED BY <1>1, <1>2, WritingKeeps DEF RuntimeEnds

LEMMA RuntimeBabblesKeeps == ASSUME TurnIInv, RuntimeBabbles PROVE TurnIInv'
<1> PICK k \in {"stray", "garbage"} : Writes([kind |-> k])
  BY DEF RuntimeBabbles
<1> DEFINE l == [kind |-> k]
<1>1. l \in Line /\ l.kind = k /\ ~HoldsTurn(l) /\ Writes(l)
  BY LinesWritten DEF HoldsTurn
<1> HIDE DEF l
<1> QED BY <1>1, WritingKeeps DEF RuntimeBabbles

LEMMA RuntimeDiesKeeps == ASSUME TurnIInv, RuntimeDies PROVE TurnIInv'
<1> USE DEF TurnIInv, RuntimeDies, Quiet, attemptVars, aroundVars
<1>0. at \in Listening \union {"suspended"} /\ AttemptRuns /\ returned = NoResult
  BY LivingAttempt
<1>1. TurnTypeOK'
  BY DEF TurnTypeOK
<1>2. PipeFacts'
  BY DEF PipeFacts, Unbroken, DeltaFacts, TurnFacts
<1>3. TextFacts'
  BY DEF TextFacts, AttemptRuns
<1>4. StageFacts'
  BY <1>0, Stages DEF StageFacts, AttemptRuns, Early, Opening, Listening, Ending
<1>5. HonestResult(returned)'
  BY <1>0, NothingClaimed
<1> QED BY <1>1, <1>2, <1>3, <1>4, <1>5

\* One line is an output of its own.
LEMMA OneLine == <<>> \in Seq(Line) /\ \A l \in Line : <<l>> \in Seq(Line)
  OBVIOUS

\* The awaited answer; a turn that is interrupted ends before its interrupt is answered.
LEMMA RuntimeAnswersKeeps == ASSUME TurnIInv, RuntimeAnswers PROVE TurnIInv'
<1> USE DEF TurnIInv, RuntimeAnswers, Quiet, attemptVars, aroundVars
<1>0. /\ at \in Listening \union {"suspended"} /\ AttemptRuns /\ returned = NoResult
      /\ lines \in Seq(Line) /\ Len(parts) \in Nat /\ said \in Nat
      /\ asked = at /\ at \in Awaited
  BY LivingAttempt, LenProperties, Stages DEF TurnTypeOK, StageFacts
<1> DEFINE stopped == asked = "turn/interrupt" /\ turn \in {"running", "suspended"}
<1> PICK v \in AnswersTo(asked) :
      /\ turn' = IF stopped THEN "interrupted" ELSE IF asked = "turn/start" /\ v # "error" THEN "running" ELSE turn
      /\ lines' = lines \o (IF stopped THEN <<EndedLine("interrupted")>> ELSE <<>>) \o <<[kind |-> "answer", says |-> v]>>
  OBVIOUS
<1> DEFINE l == [kind |-> "answer", says |-> v]
           e == EndedLine("interrupted")
<1>1. l \in Line /\ l.kind = "answer" /\ ~HoldsTurn(l)
  BY <1>0, LinesWritten DEF HoldsTurn
<1>2. e \in Line
  BY LinesWritten DEF EndedLine, Endings
<1>3. lines' = lines \o (IF stopped THEN <<e>> ELSE <<>>) \o <<l>>
  OBVIOUS
<1> HIDE DEF l, e
<1>4. lines' \in Seq(Line)
  <2>1. <<e>> \in Seq(Line) /\ <<l>> \in Seq(Line) /\ <<>> \in Seq(Line)
    BY <1>1, <1>2, OneLine, Zenon
  <2> DEFINE m == IF stopped THEN <<e>> ELSE <<>>
  <2>2. m \in Seq(Line)
    BY <2>1
  <2> HIDE DEF m
  <2>3. lines \o m \in Seq(Line)
    BY <1>0, <2>2, ConcatProperties
  <2>4. (lines \o m) \o <<l>> \in Seq(Line)
    BY <2>1, <2>3, ConcatProperties
  <2> QED BY <1>3, <2>4 DEF m
<1>5. TurnTypeOK'
  <2>1. turn' \in {"none", "running", "suspended"} \union Endings
    BY DEF TurnTypeOK, Endings
  <2> QED BY <1>4, <2>1 DEF TurnTypeOK
<1>6. at # "turn/interrupt" => lines' = Append(lines, l)
  <2> HAVE at # "turn/interrupt"
  <2>1. ~stopped
    BY <1>0
  <2>2. lines' = (lines \o <<>>) \o <<l>>
    BY <1>3, <2>1
  <2>3. lines \o <<>> = lines
    BY <1>0, ConcatEmptySeq
  <2>4. Append(lines, l) = lines \o <<l>>
    BY <1>0, <1>1, AppendIsConcat
  <2> QED BY <2>2, <2>3, <2>4
<1>7. PipeFacts'
  <2> SUFFICES ASSUME Unbroken PROVE DeltaFacts(lines', Len(parts), said) /\ TurnFacts(lines', turn', NoFlaw)
    BY DEF PipeFacts, Unbroken
  <2>0. at # "turn/interrupt" /\ lines' = Append(lines, l)
    BY <1>6 DEF Unbroken
  <2>1. DeltaFacts(lines, Len(parts), said) /\ TurnFacts(lines, turn, asked)
    BY DEF PipeFacts
  <2>2. DeltaFacts(Append(lines, l), Len(parts), said)
    BY <1>0, <1>1, <2>1, WriteKeepsDeltas
  <2>3. turn' = turn \/ turn = "none"
    BY <1>0, <2>0 DEF StageFacts
  <2>4. turn' = turn \/ \A i \in DOMAIN lines : lines[i].kind # "ended" /\ ~HoldsTurn(lines[i])
    BY <1>0, <2>1, <2>3, OpenTurn
  <2>5. TurnFacts(Append(lines, l), turn', NoFlaw)
    BY <1>0, <1>1, <2>1, <2>4, WriteKeepsTurn
  <2> QED BY <2>0, <2>2, <2>5
<1>8. TextFacts'
  BY DEF TextFacts, AttemptRuns
<1>9. StageFacts'
  BY <1>0, Stages, NoFlawIsNoWord DEF StageFacts, AttemptRuns, Early, Opening, Listening, Ending
<1>10. HonestResult(returned)'
  BY <1>0, NothingClaimed
<1> QED BY <1>5, <1>7, <1>8, <1>9, <1>10

\* A cancellation, the deadline and the loss of the connection: what was claimed asks for one of them at most.
LEMMA AroundKeeps == ASSUME TurnIInv, Around PROVE TurnIInv'
<1> USE DEF TurnIInv, attemptVars, runtimeVars
<1>0. /\ UNCHANGED <<attemptVars, runtimeVars>> /\ AttemptRuns
      /\ cancelled' \in BOOLEAN /\ overdue' \in BOOLEAN /\ linkUp' \in BOOLEAN
      /\ cancelled => cancelled'
      /\ overdue => overdue'
      /\ ~linkUp => ~linkUp'
  <2>1. cancelled \in BOOLEAN /\ overdue \in BOOLEAN /\ linkUp \in BOOLEAN
    BY DEF TurnTypeOK
  <2>2. CASE Cancel
    BY <2>1, <2>2 DEF Cancel
  <2>3. CASE DeadlinePasses
    BY <2>1, <2>3 DEF DeadlinePasses
  <2>4. CASE LinkFails
    BY <2>1, <2>4 DEF LinkFails
  <2> QED BY <2>2, <2>3, <2>4 DEF Around
<1>1. TurnTypeOK'
  BY <1>0 DEF TurnTypeOK
<1>2. PipeFacts'
  BY <1>0 DEF PipeFacts, Unbroken, DeltaFacts, TurnFacts
<1>3. TextFacts'
  BY <1>0 DEF TextFacts, AttemptRuns
<1>4. StageFacts'
  BY <1>0 DEF StageFacts, AttemptRuns
<1>5. HonestResult(returned)'
  BY <1>0, NothingClaimed DEF StageFacts
<1> QED BY <1>1, <1>2, <1>3, <1>4, <1>5

-----------------------------------------------------------------------------
(* The theorems.                                                            *)

\* Every step of the attempt, of its runtime and of what is around them keeps the invariant.
LEMMA NextKeeps == ASSUME TurnIInv, [TurnNext]_turnVars PROVE TurnIInv'
<1>1. CASE Attempt
  <2>1. CASE Reading
    BY <2>1, ReadAnswerKeeps, ReadStrayKeeps, ReadGarbageKeeps, ReadRequestKeeps, ReadDeltaKeeps, ReadToolCallKeeps, ReadEndKeeps DEF Reading
  <2> QED BY <1>1, <2>1, RediscoverKeeps, TakeCallKeeps, BindResourceKeeps, HostKeeps, LookKeeps, HearNothingKeeps, EndOfOutputKeeps,
             HarnessAnswersKeeps, BridgeEndsKeeps DEF Attempt
<1>2. CASE Runtime
  BY <1>2, RuntimeAnswersKeeps, RuntimeSpeaksKeeps, RuntimeCallsKeeps, RuntimeRequestsKeeps, RuntimeEndsKeeps, RuntimeBabblesKeeps,
     RuntimeDiesKeeps DEF Runtime
<1>3. CASE Around
  BY <1>3, AroundKeeps
<1>4. CASE UNCHANGED turnVars
  BY <1>4 DEF turnVars, attemptVars, runtimeVars, aroundVars, TurnIInv, TurnTypeOK, PipeFacts, Unbroken, DeltaFacts, TurnFacts,
     TextFacts, StageFacts, HonestResult, AttemptRuns
<1> QED BY <1>1, <1>2, <1>3, <1>4 DEF TurnNext

\* The inductive invariant of an attempt (CodexWorkerAdapter.invoke, the runtime and the pipe between them).
THEOREM TurnIsInductive == TurnSpec => []TurnIInv
<1>1. TurnIInv /\ [TurnNext]_turnVars => TurnIInv'
  BY NextKeeps
<1> QED BY InitIInv, <1>1, PTL DEF TurnSpec

\* Every variable of an attempt keeps its type: the lines under way are lines a runtime writes.
THEOREM TurnTypeCorrect == TurnSpec => []TurnTypeOK
<1>1. TurnIInv => TurnTypeOK
  BY DEF TurnIInv
<1> QED BY TurnIsInductive, <1>1, PTL

\* The result of an attempt says what its turn did: a completed one carries the whole text of a turn that completed, and
\* it was shown as it was read; a lost runtime is an unknown outcome once the turn began; a cancellation has a cause.
THEOREM TurnsStayHonest == TurnSpec => []TurnsAreHonest
<1>1. TurnIInv => TurnsAreHonest
  BY DEF TurnIInv, HonestResult, StageFacts, TurnTypeOK, TurnsAreHonest, AttemptRuns, Ending
<1> QED BY TurnIsInductive, <1>1, PTL

-----------------------------------------------------------------------------
(* The thread of an attempt and the two adapters of LocalAdapters.          *)

\* What the results say, and that the absence of a word is none of them.
LEMMA Words ==
    /\ NoFlaw \notin {"completed", "failed", "cancelled", "unknown", "zero", "nonzero"}
    /\ NoResult.status = NoFlaw /\ NoResult.observed = NoFlaw
    /\ \A why : FailedWith(why).status = "failed" /\ FailedWith(why).observed = "failed"
    /\ CancelledResult.status = "cancelled" /\ CancelledResult.observed = "cancelled"
    /\ Ambiguous.status = "failed" /\ Ambiguous.observed = "unknown"
    /\ \A text : CompletedWith(text).status = "completed" /\ CompletedWith(text).observed = "completed" /\ CompletedWith(text).content = text
BY NoFlawIsNoWord, LocalAssumption DEF NoResult, FailedWith, CancelledResult, Ambiguous, CompletedWith

\* At the start nothing ran and nothing was said.
LEMMA LocalInitEstablishes == ASSUME LocalInit, ReportInit PROVE WorkIInv /\ ReportIInv
<1> USE Words, LocalAssumption DEF LocalInit, ReportInit
<1>1. TaskFacts
  BY DEF TaskFacts, PlanStages, BeforeRun, LoopbackStages, Ending
<1>2. PlanFacts
  BY DEF PlanFacts, PlanStages, BeforeRun
<1>3. LoopbackFacts
  BY DEF LoopbackFacts
<1>4. TasksAreHonest
  BY DEF TasksAreHonest
<1>5. ReportFacts /\ ReportsAreHonest
  BY DEF ReportFacts, ReportsAreHonest, Reporters, NoInventory, Inventories, Reporting
<1> QED BY <1>1, <1>2, <1>3, <1>4, <1>5 DEF WorkIInv, ReportIInv

\* A step in which an attempt fails or is cancelled before it has run.
LEMMA ReturnKeepsWork ==
    ASSUME WorkIInv, at \notin {"result"} \union Ending, at' = "result", UNCHANGED <<adapterCall, begun, overdue, linkUp, told>>,
           \/ returned' = CancelledResult /\ (cancelled \/ overdue)
           \/ \E why : returned' = FailedWith(why),
           child' \in {"none", "closed"} \/ adapterCall.adapter = "loopback",
           lines' = lines \/ lines' = <<>>, cancelled' = cancelled
    PROVE WorkIInv'
<1>1. returned'.status \in {"failed", "cancelled"} /\ returned'.observed # "unknown" /\ (returned'.status = "cancelled" => cancelled \/ overdue)
  BY Words
<1>2. TaskFacts'
  BY <1>1 DEF WorkIInv, TaskFacts, PlanStages, BeforeRun, LoopbackStages, Ending
<1>3. PlanFacts'
  BY EmptySeq DEF WorkIInv, PlanFacts, PlanStages, BeforeRun, Ending
<1>4. LoopbackFacts'
  BY DEF LoopbackFacts
<1>5. TasksAreHonest'
  BY <1>1 DEF WorkIInv, TaskFacts, PlanFacts, TasksAreHonest
<1> QED BY <1>2, <1>3, <1>4, <1>5 DEF WorkIInv

\* TakeTask keeps the invariant.
LEMMA TakeTaskKeeps == ASSUME WorkIInv, TakeTask PROVE WorkIInv'
<1> USE DEF TakeTask, TaskReturns, runtimeVars, planVars
<1>0. at = "task" /\ adapterCall.adapter \in {"plan", "loopback"} /\ returned.status = NoFlaw /\ returned = NoResult
  BY Words, LocalAssumption DEF WorkIInv, TaskFacts, Ending
<1>1. CASE at' = "result" /\ \E why : returned' = FailedWith(why)
  BY <1>0, <1>1, ReturnKeepsWork DEF Ending, WorkIInv, PlanFacts
<1>2. CASE at' = adapterCall.adapter /\ cancelled' = (cancelled \/ overdue) /\ UNCHANGED returned
  <2>1. TaskFacts'
    BY <1>0, <1>2, Words DEF WorkIInv, TaskFacts, PlanStages, BeforeRun, LoopbackStages, Ending
  <2>2. PlanFacts'
    BY <1>0, <1>2 DEF WorkIInv, PlanFacts, PlanStages, BeforeRun
  <2>3. LoopbackFacts'
    BY <1>0, <1>2 DEF WorkIInv, LoopbackFacts
  <2>4. TasksAreHonest'
    BY <1>0, <1>2, Words DEF WorkIInv, PlanFacts, PlanStages, BeforeRun, TasksAreHonest
  <2> QED BY <2>1, <2>2, <2>3, <2>4 DEF WorkIInv
<1> QED BY <1>1, <1>2

\* SendTaskResult keeps the invariant.
LEMMA SendTaskResultKeeps == ASSUME WorkIInv, SendTaskResult PROVE WorkIInv'
<1> USE DEF WorkIInv, SendTaskResult, Stays, Untouched, planVars, aroundVars
<1>1. TaskFacts'
  BY DEF TaskFacts, PlanStages, BeforeRun, LoopbackStages, Ending
<1>2. PlanFacts'
  BY DEF TaskFacts, PlanFacts, PlanStages, BeforeRun
<1>3. LoopbackFacts'
  BY DEF TaskFacts, LoopbackFacts
<1>5. told' # {}
  OBVIOUS
<1>4. TasksAreHonest'
  BY <1>5 DEF TasksAreHonest
<1> QED BY <1>1, <1>2, <1>3, <1>4

\* SessionLost, Cancel and DeadlinePasses keep the invariant: a cancellation is never taken back.
LEMMA AroundTaskKeeps == ASSUME WorkIInv, SessionLost \/ LocalCancel PROVE WorkIInv'
<1> USE DEF WorkIInv
<1>0. /\ UNCHANGED <<attemptVars, runtimeVars, planVars>> /\ at \notin Ending
      /\ cancelled' \in BOOLEAN /\ overdue' \in BOOLEAN /\ linkUp' \in BOOLEAN
      /\ cancelled => cancelled'
      /\ overdue => overdue'
      /\ ~linkUp => ~linkUp'
  <2>1. cancelled \in BOOLEAN /\ overdue \in BOOLEAN /\ linkUp \in BOOLEAN
    BY DEF TaskFacts
  <2>2. CASE SessionLost
    BY <2>1, <2>2 DEF SessionLost, AttemptRuns, Ending
  <2>3. CASE LocalCancel
    <3>1. CASE Cancel
      BY <2>1, <2>3, <3>1 DEF LocalCancel, Cancel, AttemptRuns, Ending
    <3>2. CASE DeadlinePasses
      BY <2>1, <2>3, <3>2 DEF LocalCancel, DeadlinePasses, AttemptRuns, Ending
    <3> QED BY <2>3, <3>1, <3>2 DEF LocalCancel
  <2> QED BY <2>2, <2>3
<1> USE DEF attemptVars, runtimeVars, planVars
<1>1. TaskFacts'
  BY <1>0 DEF TaskFacts, Ending
<1>2. PlanFacts'
  BY <1>0 DEF PlanFacts
<1>3. LoopbackFacts'
  BY <1>0 DEF LoopbackFacts
<1>4. TasksAreHonest'
  BY <1>0 DEF TasksAreHonest, TaskFacts, Ending
<1> QED BY <1>1, <1>2, <1>3, <1>4

\* PlanCheck, PlanExamine and PlanSpawn: nothing runs before the workspace was examined once more.
LEMMA PlanStartKeeps == ASSUME WorkIInv, PlanCheck \/ PlanExamine \/ PlanSpawn PROVE WorkIInv'
<1> USE DEF TaskReturns, Stays, Untouched, planVars, aroundVars
<1>0. at \in BeforeRun /\ adapterCall.adapter = "plan" /\ returned = NoResult /\ child = "none" /\ ~begun /\ parts = <<>> /\ lines = <<>> /\ turn = "none"
  BY DEF WorkIInv, TaskFacts, PlanFacts, BeforeRun, PlanStages, Ending, PlanCheck, PlanExamine, PlanSpawn
<1>1. UNCHANGED <<adapterCall, lines, told, exit, turn, parts, shown, said, cancelled, overdue, linkUp>>
  BY DEF PlanCheck, PlanExamine, PlanSpawn
<1>2. CASE /\ at' = "result" /\ UNCHANGED <<begun, child>>
           /\ \/ returned' = CancelledResult /\ (cancelled \/ overdue)
              \/ \E why : returned' = FailedWith(why)
  BY <1>0, <1>1, <1>2, ReturnKeepsWork DEF BeforeRun, Ending
<1>3. CASE /\ UNCHANGED returned
           /\ \/ at' \in {"examine", "spawn"} /\ UNCHANGED <<begun, child>>
              \/ at' = "plan run" /\ begun' = TRUE /\ child' = "alive"
           /\ PlanCallFlaw(adapterCall) = NoFlaw
  <2>1. TaskFacts'
    BY <1>0, <1>1, <1>3, Words DEF WorkIInv, TaskFacts, PlanStages, BeforeRun, LoopbackStages, Ending
  <2>2. PlanFacts'
    <3>1. lines' = <<>> /\ lines' \in Seq(RunLine) /\ \A i \in DOMAIN lines' : FALSE
      BY <1>0, <1>1, EmptySeq
    <3>2. at' \in {"examine", "spawn", "plan run"} /\ parts' = <<>> /\ turn' = "none"
      BY <1>0, <1>1, <1>3
    <3>3. PlanCallFlaw(adapterCall)' = NoFlaw
      BY <1>1, <1>3
    <3>4. at' \in {"examine", "spawn"} => child' = "none" /\ turn' = "none" /\ ~begun'
      BY <1>0, <1>1, <1>3
    <3>5. at' = "plan run" => begun'
      BY <1>3
    <3> QED BY <3>1, <3>2, <3>3, <3>4, <3>5 DEF PlanFacts, PlanStages, BeforeRun
  <2>3. LoopbackFacts'
    BY <1>0, <1>1, <1>3 DEF WorkIInv, LoopbackFacts
  <2>4. TasksAreHonest'
    BY <1>0, <1>1, <1>3, Words DEF TasksAreHonest
  <2> QED BY <2>1, <2>2, <2>3, <2>4 DEF WorkIInv
<1>4. CASE PlanCheck
  BY <1>2, <1>3, <1>4 DEF PlanCheck
<1>5. CASE PlanExamine
  <2>1. PlanCallFlaw(adapterCall) = NoFlaw
    BY <1>0, <1>5 DEF PlanExamine, WorkIInv, PlanFacts, PlanStages, BeforeRun
  <2> QED BY <1>2, <1>3, <1>5, <2>1 DEF PlanExamine
<1>6. CASE PlanSpawn
  <2>1. PlanCallFlaw(adapterCall) = NoFlaw
    BY <1>0, <1>6 DEF PlanSpawn, WorkIInv, PlanFacts, PlanStages, BeforeRun
  <2> QED BY <1>2, <1>3, <1>6, <2>1 DEF PlanSpawn
<1> QED BY <1>4, <1>5, <1>6

\* A step that leaves the attempt alone, or moves only its child, its exit status or its look at the clock.
LEMMA IdleKeeps ==
    ASSUME WorkIInv, UNCHANGED <<at, adapterCall, parts, begun, shown, returned, turn, said, lines, told, cancelled, overdue, linkUp>>,
           (child' = child /\ exit' = exit) \/ (at \in {"plan run", "plan exit"})
    PROVE WorkIInv'
<1>1. TaskFacts'
  BY DEF WorkIInv, TaskFacts
<1>2. PlanFacts'
  BY DEF WorkIInv, PlanFacts, BeforeRun
<1>3. LoopbackFacts'
  BY DEF WorkIInv, LoopbackFacts
<1>4. TasksAreHonest'
  <2>1. at \in {"plan run", "plan exit"} => returned = NoResult
    BY DEF WorkIInv, TaskFacts, Ending
  <2> QED BY <2>1, Words DEF WorkIInv, TasksAreHonest
<1> QED BY <1>1, <1>2, <1>3, <1>4 DEF WorkIInv

\* PlanHearsNothing, RunEnds and WorkspaceMoves keep the invariant.
LEMMA PlanIdleKeeps == ASSUME WorkIInv, PlanHearsNothing \/ RunEnds \/ WorkspaceMoves PROVE WorkIInv'
<1> USE DEF Stays, Untouched, planVars, aroundVars, attemptVars, runtimeVars, turnVars
<1>1. CASE PlanHearsNothing
  BY <1>1, IdleKeeps DEF PlanHearsNothing
<1>2. CASE RunEnds
  BY <1>2, IdleKeeps DEF RunEnds
<1>3. CASE WorkspaceMoves
  BY <1>3, IdleKeeps DEF WorkspaceMoves
<1> QED BY <1>1, <1>2, <1>3

\* PlanLook keeps the invariant: what is cancelled here has its cause.
LEMMA PlanLookKeeps == ASSUME WorkIInv, PlanLook PROVE WorkIInv'
<1> USE DEF PlanLook, PlanEnds, TaskReturns, Stays, Untouched, planVars, aroundVars
<1>1. CASE (overdue \/ cancelled) /\ PlanEnds(CancelledResult)
  BY <1>1, ReturnKeepsWork DEF Ending
<1>2. CASE UNCHANGED <<at, returned, child, lines>>
  BY <1>2, IdleKeeps
<1> QED BY <1>1, <1>2

\* A line of a run.
LEMMA RunLines == ASSUME NEW ls \in Seq(RunLine)
    PROVE /\ Len(ls) \in Nat /\ DOMAIN ls = 1 .. Len(ls)
          /\ ls # <<>> => /\ Len(ls) \in Nat \ {0} /\ Head(ls) = ls[1] /\ Head(ls) \in RunLine /\ Tail(ls) \in Seq(RunLine)
                          /\ DOMAIN Tail(ls) = 1 .. Len(ls) - 1 /\ \A i \in 1 .. Len(ls) - 1 : Tail(ls)[i] = ls[i + 1]
          /\ \A l \in RunLine : /\ Append(ls, l) \in Seq(RunLine) /\ DOMAIN Append(ls, l) = 1 .. Len(ls) + 1
                                /\ Append(ls, l)[Len(ls) + 1] = l /\ \A i \in 1 .. Len(ls) : Append(ls, l)[i] = ls[i]
<1>1. Len(ls) \in Nat /\ DOMAIN ls = 1 .. Len(ls)
  BY LenProperties
<1>2. ls # <<>> => /\ Len(ls) \in Nat \ {0} /\ Head(ls) = ls[1] /\ Head(ls) \in RunLine /\ Tail(ls) \in Seq(RunLine)
                   /\ DOMAIN Tail(ls) = 1 .. Len(ls) - 1 /\ \A i \in 1 .. Len(ls) - 1 : Tail(ls)[i] = ls[i + 1]
  <2> SUFFICES ASSUME ls # <<>> PROVE /\ Len(ls) \in Nat \ {0} /\ Head(ls) = ls[1] /\ Head(ls) \in RunLine /\ Tail(ls) \in Seq(RunLine)
                   /\ DOMAIN Tail(ls) = 1 .. Len(ls) - 1 /\ \A i \in 1 .. Len(ls) - 1 : Tail(ls)[i] = ls[i + 1]
    OBVIOUS
  <2>1. Head(ls) \in RunLine /\ Tail(ls) \in Seq(RunLine) /\ Len(Tail(ls)) = Len(ls) - 1 /\ \A i \in 1 .. Len(Tail(ls)) : Tail(ls)[i] = ls[i + 1]
    BY HeadTailProperties
  <2>2. Len(ls) # 0
    BY EmptySeq
  <2>3. Head(ls) = ls[1] /\ DOMAIN Tail(ls) = 1 .. Len(Tail(ls))
    BY <2>1, LenProperties
  <2> QED BY <1>1, <2>1, <2>2, <2>3
<1>3. ASSUME NEW l \in RunLine
      PROVE  /\ Append(ls, l) \in Seq(RunLine) /\ DOMAIN Append(ls, l) = 1 .. Len(ls) + 1
             /\ Append(ls, l)[Len(ls) + 1] = l /\ \A i \in 1 .. Len(ls) : Append(ls, l)[i] = ls[i]
  <2>1. /\ Append(ls, l) \in Seq(RunLine) /\ Len(Append(ls, l)) = Len(ls) + 1
        /\ \A i \in 1 .. Len(ls) : Append(ls, l)[i] = ls[i] /\ Append(ls, l)[Len(ls) + 1] = l
    BY AppendProperties
  <2>2. Append(ls, l)[Len(ls) + 1] = l /\ DOMAIN Append(ls, l) = 1 .. Len(Append(ls, l))
    BY <2>1, AppendProperties, LenProperties
  <2> QED BY <2>1, <2>2
<1> QED BY <1>1, <1>2, <1>3

\* PlanRead keeps the invariant: the first answer line of a run is the answer of its turn.
LEMMA PlanReadKeeps == ASSUME WorkIInv, PlanRead PROVE WorkIInv'
<1> DEFINE l == Head(lines)
<1>0. at = "plan run" /\ UNCHANGED <<adapterCall, cancelled, overdue, linkUp, shown, turn, said, begun, told, exit>>
  BY DEF PlanRead, Untouched, planVars, aroundVars
<1>1. adapterCall.adapter = "plan" /\ returned = NoResult /\ lines \in Seq(RunLine) /\ parts = <<>> /\ begun /\ PlanCallFlaw(adapterCall) = NoFlaw
  BY <1>0 DEF WorkIInv, TaskFacts, PlanFacts, PlanStages, BeforeRun, Ending
<1>2. CASE child' = "closed" /\ lines' = <<>> /\ at' = "result" /\ \E why : returned' = FailedWith(why)
  BY <1>0, <1>1, <1>2, ReturnKeepsWork DEF Ending
<1>3. CASE at' = "plan exit" /\ UNCHANGED <<returned, child>> /\ lines' \in Seq(RunLine) /\ (parts' # <<>> => turn = "sound")
  <2>1. TaskFacts'
    BY <1>0, <1>1, <1>3, Words DEF WorkIInv, TaskFacts, PlanStages, BeforeRun, LoopbackStages, Ending
  <2>2. PlanFacts'
    BY <1>0, <1>1, <1>3 DEF PlanFacts, PlanStages, BeforeRun
  <2>3. LoopbackFacts'
    BY <1>0, <1>1 DEF LoopbackFacts
  <2>4. TasksAreHonest'
    BY <1>0, <1>1, <1>3, Words DEF TasksAreHonest
  <2> QED BY <2>1, <2>2, <2>3, <2>4 DEF WorkIInv
<1>4. CASE lines # <<>> /\ l.kind = "stray" /\ lines' = Tail(lines) /\ UNCHANGED <<at, parts, returned, child>>
  <2>1. TaskFacts'
    BY <1>0, <1>1, <1>4 DEF WorkIInv, TaskFacts
  <2>2. PlanFacts'
    <3> DEFINE n == Len(lines)
               s == Tail(lines)
    <3>1. n \in Nat \ {0} /\ lines[1].kind = "stray" /\ DOMAIN lines = 1 .. n /\ DOMAIN s = 1 .. n - 1 /\ s \in Seq(RunLine) /\ \A i \in 1 .. n - 1 : s[i] = lines[i + 1]
      BY <1>1, <1>4, RunLines
    <3>2. /\ turn = "none" <=> \A i \in 1 .. n : lines[i].kind # "answer"
          /\ \A i \in 1 .. n : lines[i].kind = "answer" /\ (\A j \in 1 .. i - 1 : lines[j].kind # "answer") => lines[i].says = turn
      BY <1>0, <1>1, <3>1 DEF WorkIInv, PlanFacts
    <3> HIDE DEF n, s
    <3>3. turn = "none" <=> \A i \in DOMAIN s : s[i].kind # "answer"
      <4>1. ASSUME NEW i \in 1 .. n, lines[i].kind = "answer" PROVE \E j \in DOMAIN s : s[j].kind = "answer"
        <5>1. i - 1 \in 1 .. n - 1 /\ s[i - 1] = lines[i]
          BY <3>1, <4>1
        <5> QED BY <3>1, <4>1, <5>1
      <4>2. ASSUME NEW j \in DOMAIN s, s[j].kind = "answer" PROVE \E i \in 1 .. n : lines[i].kind = "answer"
        BY <3>1, <4>2
      <4> QED BY <3>2, <4>1, <4>2
    <3>4. ASSUME NEW i \in DOMAIN s, s[i].kind = "answer", \A j \in 1 .. i - 1 : s[j].kind # "answer"
          PROVE  s[i].says = turn
      <4>1. i \in 1 .. n - 1 /\ i + 1 \in 1 .. n /\ s[i] = lines[i + 1]
        BY <3>1
      <4>2. ASSUME NEW j \in 1 .. (i + 1) - 1 PROVE lines[j].kind # "answer"
        <5>1. CASE j = 1
          BY <3>1, <5>1
        <5>2. CASE j # 1
          <6>1. j - 1 \in 1 .. i - 1 /\ j - 1 \in 1 .. n - 1 /\ (j - 1) + 1 = j
            BY <4>1, <3>1, <5>2
          <6> QED BY <6>1, <3>1, <3>4
        <5> QED BY <5>1, <5>2
      <4> QED BY <3>2, <3>4, <4>1, <4>2
    <3>5. lines' = s /\ s \in Seq(RunLine)
      BY <1>4, <3>1 DEF s
    <3> QED BY <1>0, <1>1, <1>4, <3>3, <3>4, <3>5 DEF PlanFacts, PlanStages, BeforeRun
  <2>3. LoopbackFacts'
    BY <1>0, <1>1 DEF LoopbackFacts
  <2>4. TasksAreHonest'
    BY <1>0, <1>1, <1>4, Words DEF TasksAreHonest
  <2> QED BY <2>1, <2>2, <2>3, <2>4 DEF WorkIInv
<1>5. lines # <<>> /\ l.kind = "answer" => l.says = turn /\ Tail(lines) \in Seq(RunLine)
  <2>1. lines # <<>> => Len(lines) \in Nat \ {0} /\ l = lines[1] /\ DOMAIN lines = 1 .. Len(lines) /\ Tail(lines) \in Seq(RunLine)
    BY <1>1, RunLines
  <2>2. \A i \in DOMAIN lines : lines[i].kind = "answer" /\ (\A j \in 1 .. i - 1 : lines[j].kind # "answer") => lines[i].says = turn
    BY <1>0, <1>1 DEF WorkIInv, PlanFacts
  <2> HIDE DEF l
  <2>3. lines # <<>> => 1 \in DOMAIN lines
    BY <2>1
  <2>4. \A j \in 1 .. 1 - 1 : FALSE
    OBVIOUS
  <2> QED BY <2>1, <2>2, <2>3, <2>4
<1> HIDE DEF l
<1>6. \/ lines # <<>> /\ l.kind = "answer" /\ l.says = "sound" /\ at' = "plan exit" /\ lines' = Tail(lines) /\ UNCHANGED <<returned, child>>
      \/ PlanEnds(FailedWith("result_malformed")) \/ PlanEnds(FailedWith("protocol_malformed"))
      \/ lines # <<>> /\ l.kind = "stray" /\ lines' = Tail(lines) /\ UNCHANGED <<at, parts, returned, child>>
      \/ PlanEnds(FailedWith("unknown_event_budget_exceeded"))
      \/ at' = "plan exit" /\ UNCHANGED <<parts, lines, returned, child>>
  BY DEF PlanRead, l
<1> QED BY <1>1, <1>2, <1>3, <1>4, <1>5, <1>6 DEF PlanEnds, TaskReturns

\* PlanExit keeps the invariant: completed is what the result line and exit status 0 say.
LEMMA PlanExitKeeps == ASSUME WorkIInv, PlanExit PROVE WorkIInv'
<1>0. at = "plan exit" /\ UNCHANGED <<adapterCall, cancelled, overdue, linkUp, parts, shown, turn, said, begun, told, exit>>
  BY DEF PlanExit, Stays, Untouched, planVars, aroundVars
<1>1. /\ adapterCall.adapter = "plan" /\ lines \in Seq(RunLine) /\ (parts # <<>> => turn = "sound") /\ begun /\ PlanCallFlaw(adapterCall) = NoFlaw
  BY <1>0 DEF WorkIInv, TaskFacts, PlanFacts, PlanStages, BeforeRun, Ending
<1>2. at' = "result" /\ child' = "closed" /\ lines' = <<>> /\ returned' = Classified(exit)
  BY DEF PlanExit, PlanEnds, TaskReturns
<1>3. \/ returned' = CancelledResult /\ cancelled
      \/ returned' = CompletedWith(parts) /\ parts # <<>> /\ exit = "zero"
      \/ returned' = FailedWith("zcode_run_failed")
      \/ returned' = Ambiguous /\ exit # "nonzero"
  BY <1>2 DEF Classified
<1>4. /\ returned'.status = "completed" => exit = "zero" /\ turn = "sound"
      /\ returned'.observed = "unknown" => exit # "nonzero"
      /\ returned'.status = "cancelled" => cancelled
  BY <1>1, <1>3, Words
<1>5. TaskFacts'
  BY <1>0, <1>1, <1>2, <1>4 DEF WorkIInv, TaskFacts, PlanStages, BeforeRun, LoopbackStages, Ending
<1>6. PlanFacts'
  BY <1>0, <1>1, <1>2, EmptySeq DEF PlanFacts, PlanStages, BeforeRun
<1>7. LoopbackFacts'
  BY <1>0, <1>1 DEF LoopbackFacts
<1>8. TasksAreHonest'
  BY <1>0, <1>1, <1>2, <1>4 DEF TasksAreHonest
<1> QED BY <1>5, <1>6, <1>7, <1>8 DEF WorkIInv

\* RunPrints keeps the invariant: a second answer comes after the first.
LEMMA RunPrintsKeeps == ASSUME WorkIInv, RunPrints PROVE WorkIInv'
<1>0. at = "plan run" /\ UNCHANGED <<at, adapterCall, cancelled, overdue, linkUp, parts, shown, said, begun, returned, child, told, exit>>
  BY DEF RunPrints, planVars, aroundVars, attemptVars
<1>1. PICK l \in {[kind |-> k, says |-> NoFlaw] : k \in {"stray", "garbage"}} \union {[kind |-> "answer", says |-> v] : v \in {"sound", "malformed"}} :
          lines' = Append(lines, l) /\ turn' = IF l.kind = "answer" /\ turn = "none" THEN l.says ELSE turn
  BY DEF RunPrints, Writes
<1>2. l \in RunLine /\ (l.kind = "answer" => l.says \in {"sound", "malformed"})
  BY <1>1 DEF RunLine
<1>3. adapterCall.adapter = "plan" /\ returned = NoResult /\ lines \in Seq(RunLine) /\ parts = <<>> /\ begun /\ PlanCallFlaw(adapterCall) = NoFlaw
  BY <1>0 DEF WorkIInv, TaskFacts, PlanFacts, PlanStages, BeforeRun, Ending
<1>4. TaskFacts'
  BY <1>0, <1>3 DEF WorkIInv, TaskFacts
<1>5. PlanFacts'
  <2> DEFINE n == Len(lines)
             s == Append(lines, l)
  <2>1. n \in Nat /\ DOMAIN lines = 1 .. n /\ DOMAIN s = 1 .. n + 1 /\ s \in Seq(RunLine) /\ s[n + 1] = l /\ \A i \in 1 .. n : s[i] = lines[i]
    BY <1>2, <1>3, RunLines
  <2>2. /\ turn = "none" <=> \A i \in 1 .. n : lines[i].kind # "answer"
        /\ \A i \in 1 .. n : lines[i].kind = "answer" /\ (\A j \in 1 .. i - 1 : lines[j].kind # "answer") => lines[i].says = turn
    BY <1>0, <1>3, <2>1 DEF WorkIInv, PlanFacts
  <2>3. lines' = s
    BY <1>1
  <2> HIDE DEF n, s
  <2>4. turn' = "none" <=> \A i \in 1 .. n + 1 : s[i].kind # "answer"
    <3>1. turn' = "none" <=> turn = "none" /\ l.kind # "answer"
      BY <1>1, <1>2
    <3>2. ASSUME NEW i \in 1 .. n + 1 PROVE i \in 1 .. n \/ i = n + 1
      BY <2>1
    <3>3. n + 1 \in 1 .. n + 1 /\ \A i \in 1 .. n : i \in 1 .. n + 1
      BY <2>1
    <3> QED BY <2>1, <2>2, <3>1, <3>2, <3>3
  <2>5. ASSUME NEW i \in 1 .. n + 1, s[i].kind = "answer", \A j \in 1 .. i - 1 : s[j].kind # "answer"
        PROVE  s[i].says = turn'
    <3>1. CASE i = n + 1
      <4>1. \A j \in 1 .. n : s[j].kind # "answer" /\ s[j] = lines[j]
        BY <2>1, <2>5, <3>1
      <4>2. \A j \in 1 .. n : lines[j].kind # "answer"
        BY <4>1
      <4> QED BY <1>1, <2>1, <2>2, <2>5, <3>1, <4>2
    <3>2. CASE i # n + 1
      <4>1. i \in 1 .. n /\ s[i] = lines[i]
        BY <2>1, <3>2
      <4>2. \A j \in 1 .. i - 1 : j \in 1 .. n /\ s[j] = lines[j]
        BY <2>1, <4>1
      <4>3. \A j \in 1 .. i - 1 : lines[j].kind # "answer"
        BY <2>5, <4>2
      <4>4. lines[i].says = turn /\ turn # "none"
        BY <2>2, <2>5, <4>1, <4>3
      <4> QED BY <1>1, <4>1, <4>4
    <3> QED BY <3>1, <3>2
  <2> QED BY <1>0, <1>3, <2>1, <2>3, <2>4, <2>5 DEF PlanFacts, PlanStages, BeforeRun
<1>6. LoopbackFacts'
  BY <1>0, <1>3 DEF LoopbackFacts
<1>7. TasksAreHonest'
  BY <1>0, <1>3, Words DEF TasksAreHonest
<1> QED BY <1>4, <1>5, <1>6, <1>7 DEF WorkIInv

-----------------------------------------------------------------------------
(* The loopback endpoint.                                                   *)

\* LoopbackCall keeps the invariant: the lines of a streamed answer are its deltas.
LEMMA LoopbackCallKeeps == ASSUME WorkIInv, LoopbackCall PROVE WorkIInv'
<1>0. at = "loopback" /\ UNCHANGED <<adapterCall, cancelled, overdue, linkUp, parts, shown, begun, child, exit>>
  BY DEF LoopbackCall, planVars, Untouched, aroundVars
<1>1. adapterCall.adapter = "loopback" /\ returned = NoResult /\ parts = <<>> /\ shown = <<>> /\ lines = <<>>
  BY <1>0 DEF WorkIInv, TaskFacts, LoopbackFacts, LoopbackStages, Ending
<1>2. PICK r \in LoopbackReplies :
          \/ r.how = "refused" /\ TakenForLoss /\ UNCHANGED <<lines, said, turn>>
          \/ r.how = "broken" /\ ThreadDies /\ UNCHANGED <<lines, said, turn>>
          \/ r.how \in {"other status", "malformed"} /\ TaskReturns(FailedWith("internal_error")) /\ UNCHANGED <<told, lines, said, turn>>
          \/ /\ r.how = "answer"
             /\ said' = r.deltas /\ turn' = IF r.finish THEN "completed" ELSE "odd"
             /\ IF adapterCall.stream
                THEN at' = "feeding" /\ lines' = [k \in 1 .. r.deltas |-> [kind |-> "delta", nth |-> k]] /\ UNCHANGED <<returned, told>>
                ELSE /\ TaskReturns(IF r.finish THEN CompletedWith([k \in 1 .. r.deltas |-> k]) ELSE FailedWith("internal_error"))
                     /\ UNCHANGED <<lines, told>>
  BY DEF LoopbackCall
<1>3. r.deltas \in Nat
  BY LocalAssumption
<1>4. PlanFacts'
  BY <1>0, <1>1 DEF PlanFacts
<1>5. CASE at' \in Ending /\ UNCHANGED returned /\ (at' = "over" => told' # {})
  <2>1. TaskFacts'
    BY <1>0, <1>1, <1>5, Words DEF WorkIInv, TaskFacts, PlanStages, BeforeRun, LoopbackStages, Ending
  <2>2. LoopbackFacts'
    BY <1>5 DEF LoopbackFacts, Ending
  <2>3. TasksAreHonest'
    BY <1>0, <1>1, <1>5, Words DEF TasksAreHonest
  <2> QED BY <1>4, <2>1, <2>2, <2>3 DEF WorkIInv
<1>6. CASE at' = "result" /\ returned' = FailedWith("internal_error") /\ UNCHANGED <<lines, told>>
  BY <1>0, <1>1, <1>6, ReturnKeepsWork DEF Ending
<1>7. CASE /\ at' = "result" /\ said' = r.deltas /\ turn' = "completed" /\ returned' = CompletedWith([k \in 1 .. r.deltas |-> k]) /\ ~adapterCall.stream
  <2>1. returned'.status = "completed" /\ returned'.content = [k \in 1 .. r.deltas |-> k] /\ returned'.observed = "completed"
    BY <1>7, Words
  <2>2. TaskFacts'
    BY <1>0, <1>1, <1>7, <2>1 DEF WorkIInv, TaskFacts, PlanStages, BeforeRun, LoopbackStages, Ending
  <2>3. LoopbackFacts'
    BY <1>7 DEF LoopbackFacts
  <2>4. TasksAreHonest'
    BY <1>0, <1>1, <1>7, <2>1 DEF TasksAreHonest
  <2> QED BY <1>4, <2>2, <2>3, <2>4 DEF WorkIInv
<1>8. CASE at' = "feeding" /\ said' = r.deltas /\ lines' = [k \in 1 .. r.deltas |-> [kind |-> "delta", nth |-> k]] /\ UNCHANGED <<returned, told>>
  <2>1. TaskFacts'
    BY <1>0, <1>1, <1>8, Words DEF WorkIInv, TaskFacts, PlanStages, BeforeRun, LoopbackStages, Ending
  <2>2. LoopbackFacts'
    <3> DEFINE D == [kind : {"delta"}, nth : Nat]
               n == r.deltas
               s == [k \in 1 .. n |-> [kind |-> "delta", nth |-> k]]
    <3>1. \A k \in 1 .. n : k \in Nat /\ [kind |-> "delta", nth |-> k] \in D
      BY <1>3
    <3>2. s \in Seq(D) /\ Len(s) = n
      <4>1. s \in [1 .. n -> D]
        BY <3>1
      <4>2. n \in Nat
        BY <1>3
      <4> HIDE DEF s, n, D
      <4>3. s \in Seq(D)
        BY <4>1, <4>2, SeqDef
      <4>4. DOMAIN s = 1 .. n /\ DOMAIN s = 1 .. Len(s) /\ Len(s) \in Nat
        BY <4>1, <4>3, LenProperties
      <4>5. Len(s) = n
        BY <4>2, <4>4
      <4> QED BY <4>3, <4>5
    <3>3. \A i \in 1 .. n : s[i].nth = i
      OBVIOUS
    <3>4. DOMAIN s = 1 .. n
      OBVIOUS
    <3>5. lines' = s /\ said' = n
      BY <1>8
    <3>6. parts' = <<>> /\ parts' \in Seq(Nat) /\ Len(parts') = 0 /\ parts' = [k \in 1 .. 0 |-> k] /\ shown' = parts'
      <4>1. parts' = <<>> /\ shown' = <<>>
        BY <1>0, <1>1
      <4>2. Len(parts') = 0 /\ parts' \in Seq(Nat)
        BY <4>1, EmptySeq
      <4>3. parts' = [k \in 1 .. 0 |-> k]
        BY <4>1
      <4> QED BY <4>1, <4>2, <4>3
    <3> HIDE DEF s, n
    <3>7. parts' = [k \in 1 .. Len(parts') |-> k]
      BY <3>6
    <3>8. Len(parts') + Len(lines') = said' /\ said' \in Nat
      BY <1>3, <3>2, <3>5, <3>6 DEF n
    <3>9. \A i \in DOMAIN lines' : lines'[i].nth = Len(parts') + i
      BY <1>3, <3>3, <3>4, <3>5, <3>6 DEF n
    <3> QED BY <1>8, <3>2, <3>5, <3>6, <3>7, <3>8, <3>9 DEF LoopbackFacts
  <2>3. TasksAreHonest'
    BY <1>0, <1>1, <1>8, Words DEF TasksAreHonest
  <2> QED BY <1>4, <2>1, <2>2, <2>3 DEF WorkIInv
<1>9. CASE r.how \in {"refused", "broken"}
  <2>1. told \union {"interrupted"} # {}
    OBVIOUS
  <2> QED BY <1>2, <1>5, <1>9, <2>1 DEF TakenForLoss, ThreadDies, Ending
<1> QED BY <1>2, <1>6, <1>7, <1>8, <1>9 DEF TaskReturns

\* FeedLines keeps the invariant: line by line, what was passed on is the beginning of the answer.
LEMMA FeedLinesKeeps == ASSUME WorkIInv, FeedLines PROVE WorkIInv'
<1>0. at = "feeding" /\ UNCHANGED <<adapterCall, cancelled, overdue, linkUp, said, turn, begun, child, exit>>
  BY DEF FeedLines, planVars, Untouched, aroundVars
<1>1. /\ adapterCall.adapter = "loopback" /\ returned = NoResult /\ said \in Nat /\ parts \in Seq(Nat) /\ parts = [k \in 1 .. Len(parts) |-> k] /\ shown = parts
      /\ lines \in Seq([kind : {"delta"}, nth : Nat]) /\ Len(parts) + Len(lines) = said
      /\ \A i \in DOMAIN lines : lines[i].nth = Len(parts) + i
  BY <1>0 DEF WorkIInv, TaskFacts, LoopbackFacts, LoopbackStages, Ending
<1>2. PlanFacts'
  BY <1>0, <1>1 DEF PlanFacts
<1>3. CASE at' = "result" /\ UNCHANGED told /\ (lines' = lines \/ lines' = <<>>) /\ ((returned' = CancelledResult /\ cancelled) \/ returned' = FailedWith("internal_error"))
  BY <1>0, <1>1, <1>3, ReturnKeepsWork DEF Ending
<1>4. CASE TakenForLoss
  <2>1. told \union {"interrupted"} # {}
    OBVIOUS
  <2>2. TaskFacts'
    BY <1>0, <1>1, <1>4, <2>1, Words DEF WorkIInv, TaskFacts, TakenForLoss, PlanStages, BeforeRun, LoopbackStages, Ending
  <2>3. LoopbackFacts'
    BY <1>4 DEF LoopbackFacts, TakenForLoss
  <2>4. TasksAreHonest'
    BY <1>0, <1>1, <1>4, <2>1, Words DEF TasksAreHonest, TakenForLoss
  <2> QED BY <1>2, <2>2, <2>3, <2>4 DEF WorkIInv
<1>5. CASE at' = "result" /\ lines = <<>> /\ turn = "completed" /\ returned' = CompletedWith(parts) /\ UNCHANGED shown
  <2>1. returned'.status = "completed" /\ returned'.content = parts /\ returned'.observed = "completed"
    BY <1>5, Words
  <2>2. Len(lines) = 0 /\ Len(parts) = said
    <3>1. Len(lines) = 0
      BY <1>5
    <3>2. Len(parts) \in Nat
      BY <1>1, LenProperties
    <3>3. Len(parts) + Len(lines) = said
      BY <1>1
    <3> QED BY <3>1, <3>2, <3>3
  <2>3. parts = [k \in 1 .. said |-> k]
    BY <1>1, <2>2
  <2>4. TaskFacts'
    BY <1>0, <1>1, <1>5, <2>1 DEF WorkIInv, TaskFacts, PlanStages, BeforeRun, LoopbackStages, Ending
  <2>5. LoopbackFacts'
    BY <1>5 DEF LoopbackFacts
  <2>6. TasksAreHonest'
    BY <1>0, <1>1, <1>5, <2>1, <2>3 DEF TasksAreHonest
  <2> QED BY <1>2, <2>4, <2>5, <2>6 DEF WorkIInv
<1>6. CASE /\ lines # <<>> /\ UNCHANGED <<at, returned, told>>
           /\ parts' = Append(parts, Head(lines).nth) /\ shown' = Append(shown, Head(lines).nth) /\ lines' = Tail(lines)
  <2> DEFINE D == [kind : {"delta"}, nth : Nat]
             m == Len(parts)
             n == Len(lines)
             s == Tail(lines)
  <2>1. TaskFacts'
    BY <1>0, <1>6 DEF WorkIInv, TaskFacts
  <2>2. n \in Nat \ {0} /\ m \in Nat /\ DOMAIN lines = 1 .. n
    BY <1>1, <1>6, EmptySeq, LenProperties
  <2>3. s \in Seq(D) /\ Len(s) = n - 1 /\ \A i \in 1 .. Len(s) : s[i] = lines[i + 1]
    <3> HIDE DEF D
    <3> QED BY <1>1, <1>6, HeadTailProperties DEF D
  <2>4. Head(lines).nth = m + 1
    <3>1. Head(lines) = lines[1] /\ 1 \in DOMAIN lines
      BY <1>1, <1>6, <2>2
    <3> QED BY <1>1, <3>1
  <2>5. Append(parts, m + 1) \in Seq(Nat) /\ Len(Append(parts, m + 1)) = m + 1
    BY <1>1, <2>2, AppendProperties
  <2>6. Append(parts, m + 1) = [k \in 1 .. m + 1 |-> k]
    <3>1. \A k \in 1 .. m : parts[k] = k
      BY <1>1
    <3>2. \A k \in 1 .. m + 1 : Append(parts, m + 1)[k] = k
      <4>1. \A k \in 1 .. m : Append(parts, m + 1)[k] = parts[k]
        BY <1>1, <2>2, AppendProperties
      <4>2. Append(parts, m + 1)[m + 1] = m + 1
        BY <1>1, <2>2, AppendProperties
      <4>3. \A k \in 1 .. m + 1 : k \in 1 .. m \/ k = m + 1
        BY <2>2
      <4> QED BY <3>1, <4>1, <4>2, <4>3
    <3>3. Append(parts, m + 1) \in [1 .. m + 1 -> Nat]
      BY <2>5, LenProperties
    <3> HIDE DEF m
    <3> QED BY <3>2, <3>3
  <2>7. \A i \in DOMAIN s : s[i].nth = (m + 1) + i
    <3>1. \A i \in DOMAIN s : i \in 1 .. n - 1 /\ i + 1 \in DOMAIN lines /\ s[i] = lines[i + 1]
      BY <2>2, <2>3, LenProperties
    <3>2. ASSUME NEW i \in DOMAIN s PROVE s[i].nth = (m + 1) + i
      <4>1. i \in 1 .. n - 1 /\ i + 1 \in DOMAIN lines /\ s[i] = lines[i + 1]
        BY <3>1
      <4>2. lines[i + 1].nth = m + (i + 1)
        BY <1>1, <4>1
      <4> QED BY <2>2, <4>1, <4>2
    <3> QED BY <3>2
  <2>8. parts' = Append(parts, m + 1) /\ shown' = Append(parts, m + 1) /\ lines' = s
    BY <1>1, <1>6, <2>4
  <2> HIDE DEF s, m, n
  <2>9. Len(parts') = m + 1
    BY <2>5, <2>8
  <2>10. Len(parts') + Len(lines') = said
    <3>1. Len(parts') = Len(parts) + 1 /\ Len(lines') = Len(lines) - 1 /\ Len(parts) \in Nat /\ Len(lines) \in Nat
      BY <2>2, <2>3, <2>8, <2>9 DEF m, n
    <3>2. Len(parts) + Len(lines) = said /\ said' = said
      BY <1>0, <1>1
    <3> QED BY <3>1, <3>2
  <2>11. parts' = [k \in 1 .. Len(parts') |-> k]
    BY <2>6, <2>8, <2>9
  <2>12. \A i \in DOMAIN lines' : lines'[i].nth = Len(parts') + i
    BY <2>7, <2>8, <2>9
  <2>13. LoopbackFacts'
    BY <1>0, <1>1, <1>6, <2>3, <2>5, <2>8, <2>10, <2>11, <2>12 DEF LoopbackFacts
  <2>14. TasksAreHonest'
    BY <1>0, <1>1, <1>6, Words DEF TasksAreHonest
  <2> QED BY <1>2, <2>1, <2>13, <2>14 DEF WorkIInv
<1>7. \/ cancelled /\ TaskReturns(CancelledResult) /\ lines' = <<>> /\ UNCHANGED <<parts, shown, told>>
      \/ /\ ~cancelled /\ lines # <<>>
         /\ parts' = Append(parts, Head(lines).nth) /\ shown' = Append(shown, Head(lines).nth)
         /\ lines' = Tail(lines) /\ UNCHANGED <<at, returned, poised, told>>
      \/ ~linkUp /\ TakenForLoss /\ lines' = <<>> /\ UNCHANGED <<parts, shown, poised>>
      \/ /\ ~cancelled /\ lines = <<>>
         /\ TaskReturns(IF turn = "completed" THEN CompletedWith(parts) ELSE FailedWith("internal_error"))
         /\ UNCHANGED <<lines, parts, shown, told>>
  BY DEF FeedLines
<1> QED BY <1>3, <1>4, <1>5, <1>6, <1>7 DEF TaskReturns

-----------------------------------------------------------------------------
(* The reports.                                                             *)

\* What a discovery found is an inventory, and models are listed only by an authenticated session.
LEMMA DiscoveryIsSound == ASSUME NEW p, NEW n \in Nat
    PROVE Discovered(p, n) \in Inventories /\ (Discovered(p, n).models => Discovered(p, n).state = "authenticated")
BY DEF Discovered, Inventories, Lacking

\* The reporting threads keep the invariant: who has been alone reports what one discovery saw.
LEMMA ReportsKeep == ASSUME ReportIInv, ReportNext PROVE ReportIInv'
<1> DEFINE T == [st : {"idle", "done"} \union Reporting, saw : Inventories, alone : BOOLEAN]
<1>0. /\ reporter \in [Reporters -> T] /\ inventory \in Inventories /\ (inventory.models => inventory.state = "authenticated")
      /\ \A r \in Reporters : reporter[r].alone /\ reporter[r].st \in Reporting =>
            /\ \A other \in Reporters \ {r} : reporter[other].st \notin Reporting
            /\ reporter[r].st = "collect" => reporter[r].saw = inventory
      /\ (report.alone => report.snapshots = report.inventory) /\ (report.inventory.models => report.inventory.state = "authenticated")
  BY DEF ReportIInv, ReportFacts, ReportsAreHonest
<1>1. NoInventory \in Inventories
  BY DEF NoInventory, Inventories
<1>2. ASSUME NEW r \in Reporters, BeginReport(r) PROVE ReportIInv'
  <2>1. PICK alone \in BOOLEAN, st \in {"observe", "snapshot"} :
            /\ alone => \A q \in Reporters \ {r} : reporter[q].st \in {"idle", "done"}
            /\ reporter' = [q \in Reporters |-> IF q = r THEN [st |-> st, saw |-> NoInventory, alone |-> alone] ELSE [reporter[q] EXCEPT !.alone = FALSE]]
    <3>1. PICK other \in Reporters \ {r} :
              reporter' = [q \in Reporters |->
                  IF q = r THEN [st |-> IF due THEN "observe" ELSE "snapshot", saw |-> NoInventory, alone |-> reporter[other].st \in {"idle", "done"}]
                  ELSE [reporter[q] EXCEPT !.alone = FALSE]]
      BY <1>2 DEF BeginReport
    <3>2. \A q \in Reporters \ {r} : q = other
      BY DEF Reporters
    <3>3. (IF due THEN "observe" ELSE "snapshot") \in {"observe", "snapshot"} /\ (reporter[other].st \in {"idle", "done"}) \in BOOLEAN
      OBVIOUS
    <3>4. (reporter[other].st \in {"idle", "done"}) => \A q \in Reporters \ {r} : reporter[q].st \in {"idle", "done"}
      BY <3>2
    <3> QED BY <3>1, <3>3, <3>4
  <2>2. \A q \in Reporters : reporter'[q] = IF q = r THEN [st |-> st, saw |-> NoInventory, alone |-> alone] ELSE [reporter[q] EXCEPT !.alone = FALSE]
    BY <2>1
  <2>3. \A q \in Reporters : reporter'[q] \in T
    <3>1. [st |-> st, saw |-> NoInventory, alone |-> alone] \in T
      BY <1>1 DEF Reporting
    <3>2. ASSUME NEW q \in Reporters PROVE [reporter[q] EXCEPT !.alone = FALSE] \in T
      <4>1. reporter[q] \in T
        BY <1>0
      <4> QED BY <4>1
    <3> HIDE DEF T
    <3> QED BY <2>2, <3>1, <3>2
  <2>4. reporter' \in [Reporters -> T]
    BY <2>1, <2>3
  <2>5. \A q \in Reporters \ {r} : ~reporter'[q].alone /\ reporter'[q].st = reporter[q].st
    <3>1. ASSUME NEW q \in Reporters \ {r} PROVE ~reporter'[q].alone /\ reporter'[q].st = reporter[q].st
      <4>1. reporter[q] \in T /\ reporter'[q] = [reporter[q] EXCEPT !.alone = FALSE]
        BY <1>0, <2>2
      <4> QED BY <4>1
    <3> QED BY <3>1
  <2>6. reporter'[r].alone = alone /\ reporter'[r].st = st
    <3>1. reporter'[r] = [st |-> st, saw |-> NoInventory, alone |-> alone]
      BY <2>2
    <3> QED BY <3>1
  <2>7. UNCHANGED <<inventory, report>>
    BY <1>2 DEF BeginReport
  <2>8. ASSUME NEW q \in Reporters, reporter'[q].alone, reporter'[q].st \in Reporting
        PROVE  (\A other \in Reporters \ {q} : reporter'[other].st \notin Reporting) /\ reporter'[q].st # "collect"
    BY <2>1, <2>5, <2>6, <2>8 DEF Reporting
  <2> HIDE DEF T
  <2> QED BY <1>0, <2>4, <2>7, <2>8 DEF ReportIInv, ReportFacts, ReportsAreHonest, T
<1>3. ASSUME NEW r \in Reporters, NEW st \in {"idle", "done"} \union Reporting, reporter' = Moves(r, st), reporter[r].st \in Reporting,
             inventory' \in Inventories, inventory'.models => inventory'.state = "authenticated", st # "collect",
             inventory' = inventory \/ reporter[r].st = "observe", ReportsAreHonest'
      PROVE  ReportIInv'
  <2>1. reporter' = [reporter EXCEPT ![r] = [reporter[r] EXCEPT !.st = st]]
    BY <1>3 DEF Moves
  <2>2. \A q \in Reporters : reporter[q] \in T
    BY <1>0
  <2>3. [reporter[r] EXCEPT !.st = st] \in T
    BY <2>2, <1>3
  <2>4. /\ reporter'[r].st = st /\ reporter'[r].alone = reporter[r].alone
        /\ \A q \in Reporters \ {r} : reporter'[q] = reporter[q]
    <3>1. reporter[r] \in T /\ reporter'[r] = [reporter[r] EXCEPT !.st = st]
      BY <1>0, <2>1, <2>2
    <3>2. reporter'[r].st = st /\ reporter'[r].alone = reporter[r].alone
      BY <3>1
    <3> HIDE DEF T
    <3> QED BY <1>0, <2>1, <3>2
  <2> HIDE DEF T
  <2>5. reporter' \in [Reporters -> T]
    BY <1>0, <2>1, <2>3
  <2>6. ASSUME NEW q \in Reporters, reporter'[q].alone, reporter'[q].st \in Reporting
        PROVE  /\ \A other \in Reporters \ {q} : reporter'[other].st \notin Reporting
               /\ reporter'[q].st = "collect" => reporter'[q].saw = inventory'
    <3>1. CASE q = r
      BY <1>0, <1>3, <2>4, <2>6, <3>1
    <3>2. CASE q # r
      BY <1>0, <1>3, <2>4, <2>6, <3>2
    <3> QED BY <3>1, <3>2
  <2> QED BY <1>3, <2>5, <2>6 DEF ReportIInv, ReportFacts, T
<1>4. ASSUME NEW r \in Reporters, Observe(r) PROVE ReportIInv'
  <2>1. inventory.nth + 1 \in Nat
    BY <1>0 DEF Inventories
  <2>2. ReportsAreHonest' /\ reporter[r].st = "observe"
    BY <1>0, <1>4 DEF Observe, ReportsAreHonest
  <2>3. PICK p \in SourceProbes : \/ reporter' = Moves(r, "done") /\ UNCHANGED inventory
                                  \/ inventory' = Discovered(p, inventory.nth + 1) /\ reporter' = Moves(r, "snapshot")
    BY <1>4 DEF Observe
  <2> QED BY <1>0, <1>3, <2>1, <2>2, <2>3, DiscoveryIsSound DEF Reporting
<1>5. ASSUME NEW r \in Reporters, TakeSnapshots(r) PROVE ReportIInv'
  <2>0. reporter[r].st = "snapshot" /\ UNCHANGED <<inventory, report>>
    BY <1>5 DEF TakeSnapshots
  <2>1. \A q \in Reporters : reporter[q] \in T
    BY <1>0
  <2>2. reporter' = [reporter EXCEPT ![r] = [reporter[r] EXCEPT !.st = "collect", !.saw = inventory]]
    <3>1. reporter' = [reporter EXCEPT ![r].st = "collect", ![r].saw = inventory]
      BY <1>5 DEF TakeSnapshots
    <3> QED BY <1>0, <2>1, <3>1
  <2>3. [reporter[r] EXCEPT !.st = "collect", !.saw = inventory] \in T
    BY <1>0, <2>1 DEF Reporting
  <2>4. /\ reporter'[r].st = "collect" /\ reporter'[r].alone = reporter[r].alone /\ reporter'[r].saw = inventory
        /\ \A q \in Reporters \ {r} : reporter'[q] = reporter[q]
    <3>1. reporter[r] \in T /\ reporter'[r] = [reporter[r] EXCEPT !.st = "collect", !.saw = inventory]
      BY <1>0, <2>1, <2>2
    <3>2. reporter'[r].st = "collect" /\ reporter'[r].alone = reporter[r].alone /\ reporter'[r].saw = inventory
      BY <3>1
    <3> HIDE DEF T
    <3> QED BY <1>0, <2>2, <3>2
  <2> HIDE DEF T
  <2>5. reporter' \in [Reporters -> T]
    BY <1>0, <2>2, <2>3
  <2>6. ASSUME NEW q \in Reporters, reporter'[q].alone, reporter'[q].st \in Reporting
        PROVE  /\ \A other \in Reporters \ {q} : reporter'[other].st \notin Reporting
               /\ reporter'[q].st = "collect" => reporter'[q].saw = inventory'
    <3>1. CASE q = r
      BY <1>0, <2>0, <2>4, <2>6, <3>1 DEF Reporting
    <3>2. CASE q # r
      BY <1>0, <2>0, <2>4, <2>6, <3>2 DEF Reporting
    <3> QED BY <3>1, <3>2
  <2> QED BY <1>0, <2>0, <2>5, <2>6 DEF ReportIInv, ReportFacts, ReportsAreHonest, T
<1>6. ASSUME NEW r \in Reporters, SendReport(r) PROVE ReportIInv'
  <2>1. /\ reporter[r].st = "collect" /\ UNCHANGED inventory
        /\ report' = [sent |-> TRUE, snapshots |-> reporter[r].saw, inventory |-> inventory, alone |-> reporter[r].alone]
        /\ reporter' = Moves(r, IF r = "main" THEN "done" ELSE "idle")
    BY <1>6 DEF SendReport
  <2>2. ReportsAreHonest'
    BY <1>0, <2>1 DEF ReportsAreHonest, Reporting
  <2>3. (IF r = "main" THEN "done" ELSE "idle") \in {"idle", "done"} \union Reporting /\ (IF r = "main" THEN "done" ELSE "idle") # "collect"
    OBVIOUS
  <2> HIDE DEF T
  <2> QED BY <1>0, <1>3, <2>1, <2>2, <2>3 DEF Reporting
<1>7. CASE GrowsOld
  BY <1>7 DEF GrowsOld, ReportIInv, ReportFacts, ReportsAreHonest
<1> QED BY <1>2, <1>4, <1>5, <1>6, <1>7 DEF ReportNext

\* Every step of an attempt's thread, of what it waits for and of the reports keeps both invariants.
LEMMA LocalStepKeeps == ASSUME WorkIInv, ReportIInv, [LocalNext \/ ReportNext]_localVars PROVE WorkIInv' /\ ReportIInv'
<1> USE DEF localVars, turnVars, attemptVars, runtimeVars, aroundVars, planVars, reportVars
<1>1. CASE LocalNext
  <2>1. WorkIInv'
    BY <1>1, TakeTaskKeeps, SendTaskResultKeeps, AroundTaskKeeps, PlanStartKeeps, PlanIdleKeeps, PlanLookKeeps, PlanReadKeeps, PlanExitKeeps,
       RunPrintsKeeps, LoopbackCallKeeps, FeedLinesKeeps DEF LocalNext, PlanRun
  <2>2. UNCHANGED reportVars
    BY <1>1 DEF LocalNext, PlanRun, TakeTask, SendTaskResult, SessionLost, PlanCheck, PlanExamine, PlanSpawn, PlanLook, PlanHearsNothing, PlanRead, PlanExit,
       RunPrints, RunEnds, WorkspaceMoves, LoopbackCall, FeedLines, LocalCancel, Untouched
  <2>3. ReportIInv'
    BY <2>2 DEF ReportIInv, ReportFacts, ReportsAreHonest
  <2> QED BY <2>1, <2>3
<1>2. CASE ReportNext
  <2>1. UNCHANGED <<turnVars, told, planVars>>
    BY <1>2 DEF ReportNext, BeginReport, Observe, TakeSnapshots, SendReport, GrowsOld, Steady
  <2>2. WorkIInv'
    BY <2>1, IdleKeeps
  <2> QED BY <1>2, <2>2, ReportsKeep
<1>3. CASE UNCHANGED localVars
  <2>1. WorkIInv'
    BY <1>3, IdleKeeps
  <2>2. ReportIInv'
    BY <1>3 DEF ReportIInv, ReportFacts, ReportsAreHonest
  <2> QED BY <2>1, <2>2
<1> QED BY <1>1, <1>2, <1>3

\* worker_client.py, worker_zcode_adapter.py and worker_local_adapters.py: a plan run is completed only by its result line with exit status 0,
\* a streamed answer is whole and was passed on, every attempt whose thread goes on is told of, and a session that reports on its own reports
\* what one discovery saw.
THEOREM LocalWorkStaysHonest == LocalSpec => []LocalWorkIsHonest
<1>1. LocalInit /\ ReportInit => WorkIInv /\ ReportIInv
  BY LocalInitEstablishes
<1>2. (WorkIInv /\ ReportIInv) /\ [LocalNext \/ ReportNext]_localVars => (WorkIInv /\ ReportIInv)'
  BY LocalStepKeeps
<1>3. WorkIInv /\ ReportIInv => LocalWorkIsHonest
  BY DEF WorkIInv, ReportIInv, LocalWorkIsHonest
<1> QED BY <1>1, <1>2, <1>3, PTL DEF LocalSpec
=============================================================================
