----------------------------- MODULE ClientProofs -----------------------------
(***************************************************************************)
(* Proofs about Client, for any number of connections and brokers: types,  *)
(* sockets that are never leaked, and a connection set that is exact.      *)
(***************************************************************************)
EXTENDS Client, SequenceTheorems, TLAPS

\* Places of handleConn before copyThenClose, and those of the response loop in it.
Before == {"waiting", "accepted", "queued", "dial", "token", "handshake", "authenticate",
           "giveUp", "add"}
Within == {"loop", "closeRemote", "closeLocal", "remove"}

\* A connection in connSrc is held by nobody else.
QueueHeld == \A i \in 1..Len(connSrc) : pc[connSrc[i]] = "queued"

BothClosed(c) == local[c] = "closed" /\ remote[c] = "closed"

\* Before copyThenClose there is no second goroutine, and the broker's socket is open
\* only while the first authentication runs.
EarlyOK(c) ==
    /\ pc[c] \in Before => closer[c] = "none" /\ ~firstErr[c]
    /\ closer[c] = "none" => pc[c] \in Before \cup {"done"}
    /\ pc[c] \in {"waiting", "accepted", "queued", "dial"} => remote[c] = "none"
    /\ pc[c] = "giveUp" => remote[c] # "open"
    /\ pc[c] = "done" /\ closer[c] = "none" => local[c] = "closed" /\ remote[c] # "open"

\* Inside it exactly one of the two goroutines closes the sockets, the one that found
\* firstErr empty; the other ends on its own, before or after.
CloseOK(c) ==
    /\ ~firstErr[c] => /\ closer[c] \in {"none", "loop"}
                       /\ pc[c] \notin Within \ {"loop"}
                       /\ pc[c] = "done" => closer[c] = "none"
    /\ pc[c] = "loop" /\ closer[c] = "loop" => ~firstErr[c]
    /\ pc[c] \in {"closeRemote", "closeLocal"} => closer[c] \in {"loop", "done"}
    /\ closer[c] \in {"closeRemote", "closeLocal"} => pc[c] \in {"loop", "remove", "done"}
    /\ pc[c] = "closeLocal" \/ closer[c] = "closeLocal" => remote[c] = "closed"
    /\ closer[c] = "done" /\ pc[c] \in {"loop", "remove", "done"} => BothClosed(c)
    /\ closer[c] = "loop" /\ pc[c] \in {"remove", "done"} => BothClosed(c)

\* The type invariant without the connection set.
TypesOK ==
    /\ pc \in [Connections -> Before \cup Within \cup {"done"}]
    /\ closer \in [Connections -> {"none", "loop", "closeRemote", "closeLocal", "done"}]
    /\ firstErr \in [Connections -> BOOLEAN]
    /\ connSrc \in Seq(Connections) /\ Len(connSrc) <= 1
    /\ run \in {"select", "closing", "stopped"}
    /\ stopRun \in BOOLEAN
    /\ local \in [Connections -> {"waiting", "open", "closed"}]
    /\ remote \in [Connections -> {"none", "open", "closed"}]

SetTypeOK == DOMAIN m \subseteq Brokers /\ \A b \in DOMAIN m : m[b] \in Seq(Connections)

SocketInv == TypesOK /\ QueueHeld /\ \A c \in Connections : EarlyOK(c) /\ CloseOK(c)

\* A receive from a channel of capacity one.
LEMMA QueueFacts ==
    ASSUME NEW q \in Seq(Connections), q # <<>>, Len(q) <= 1
    PROVE  /\ Head(q) = q[1] /\ q[1] \in Connections /\ 1 \in 1..Len(q)
           /\ Tail(q) \in Seq(Connections) /\ Len(Tail(q)) = 0
<1>1. /\ Head(q) = q[1] /\ Len(q) \in Nat \ {0}
      /\ Tail(q) \in Seq(Connections) /\ Len(Tail(q)) = Len(q) - 1
  OBVIOUS
<1>2. Len(q) = 1
  BY <1>1
<1> QED BY <1>1, <1>2

\* Init establishes the part about sockets and goroutines.
LEMMA InitSockets == Init => SocketInv
<1> SUFFICES ASSUME Init PROVE SocketInv
  OBVIOUS
<1>1. connSrc \in Seq(Connections) /\ Len(connSrc) = 0
  BY DEF Init
<1>2. TypesOK
  <2>1. /\ pc \in [Connections -> Before \cup Within \cup {"done"}]
        /\ closer \in [Connections -> {"none", "loop", "closeRemote", "closeLocal", "done"}]
        /\ firstErr \in [Connections -> BOOLEAN]
        /\ local \in [Connections -> {"waiting", "open", "closed"}]
        /\ remote \in [Connections -> {"none", "open", "closed"}]
    BY DEF Init, Before, Within
  <2>2. run \in {"select", "closing", "stopped"} /\ stopRun \in BOOLEAN
    BY DEF Init
  <2>3. Len(connSrc) <= 1
    BY <1>1
  <2> QED BY <1>1, <2>1, <2>2, <2>3 DEF TypesOK
<1>3. \A c \in Connections : EarlyOK(c) /\ CloseOK(c)
  BY DEF Init, EarlyOK, CloseOK, Before, Within, BothClosed
<1> QED BY <1>1, <1>2, <1>3 DEF SocketInv, QueueHeld

\* Every step of an accept loop, of Client.Run, of handleConn and of copyThenClose
\* preserves it.
LEMMA StepSockets == SocketInv /\ [Next]_vars => SocketInv'
<1> SUFFICES ASSUME SocketInv, [Next]_vars PROVE SocketInv'
  OBVIOUS
<1> USE DEF SocketInv, Before, Within, copyVars, runVars, Goto, CloseLocal, CloseRemote
<1>1. ASSUME NEW c \in Connections, Accept(c) PROVE SocketInv'
  <2>1. TypesOK' /\ QueueHeld'
    BY <1>1 DEF Accept, TypesOK, QueueHeld
  <2>2. ASSUME NEW d \in Connections PROVE EarlyOK(d)' /\ CloseOK(d)'
    BY <1>1 DEF Accept, TypesOK, EarlyOK, CloseOK, BothClosed
  <2> QED BY <2>1, <2>2
<1>2. ASSUME NEW c \in Connections, Enqueue(c) PROVE SocketInv'
  <2>1. TypesOK'
    BY <1>2 DEF Enqueue, TypesOK
  <2>2. QueueHeld'
    BY <1>2 DEF Enqueue, TypesOK, QueueHeld
  <2>3. ASSUME NEW d \in Connections PROVE EarlyOK(d)' /\ CloseOK(d)'
    BY <1>2 DEF Enqueue, TypesOK, EarlyOK, CloseOK, BothClosed
  <2> QED BY <2>1, <2>2, <2>3
<1>3. ASSUME NEW c \in Connections, Dial(c) \/ DialFails(c) PROVE SocketInv'
  <2>1. TypesOK' /\ QueueHeld'
    BY <1>3 DEF Dial, DialFails, TypesOK, QueueHeld
  <2>2. ASSUME NEW d \in Connections PROVE EarlyOK(d)' /\ CloseOK(d)'
    BY <1>3 DEF Dial, DialFails, TypesOK, EarlyOK, CloseOK, BothClosed
  <2> QED BY <2>1, <2>2
<1>4. ASSUME NEW c \in Connections, AuthStep(c) \/ AuthFails(c) PROVE SocketInv'
  <2>1. TypesOK' /\ QueueHeld'
    BY <1>4 DEF AuthStep, AuthFails, TypesOK, QueueHeld
  <2>2. ASSUME NEW d \in Connections PROVE EarlyOK(d)' /\ CloseOK(d)'
    BY <1>4 DEF AuthStep, AuthFails, TypesOK, EarlyOK, CloseOK, BothClosed
  <2> QED BY <2>1, <2>2
<1>5. ASSUME NEW c \in Connections, GiveUp(c) PROVE SocketInv'
  <2>1. TypesOK' /\ QueueHeld'
    BY <1>5 DEF GiveUp, TypesOK, QueueHeld
  <2>2. ASSUME NEW d \in Connections PROVE EarlyOK(d)' /\ CloseOK(d)'
    BY <1>5 DEF GiveUp, TypesOK, EarlyOK, CloseOK, BothClosed
  <2> QED BY <2>1, <2>2
<1>6. ASSUME NEW c \in Connections, Add(c) PROVE SocketInv'
  <2>1. TypesOK' /\ QueueHeld'
    BY <1>6 DEF Add, TypesOK, QueueHeld
  <2>2. ASSUME NEW d \in Connections PROVE EarlyOK(d)' /\ CloseOK(d)'
    BY <1>6 DEF Add, TypesOK, EarlyOK, CloseOK, BothClosed
  <2> QED BY <2>1, <2>2
<1>7. ASSUME NEW c \in Connections, EndRequests(c) PROVE SocketInv'
  <2>1. TypesOK' /\ QueueHeld'
    BY <1>7 DEF EndRequests, TypesOK, QueueHeld
  <2>2. ASSUME NEW d \in Connections PROVE EarlyOK(d)' /\ CloseOK(d)'
    BY <1>7 DEF EndRequests, TypesOK, EarlyOK, CloseOK, BothClosed
  <2> QED BY <2>1, <2>2
<1>8. ASSUME NEW c \in Connections, EndResponses(c) PROVE SocketInv'
  <2>1. TypesOK' /\ QueueHeld'
    BY <1>8 DEF EndResponses, TypesOK, QueueHeld
  <2>2. ASSUME NEW d \in Connections PROVE EarlyOK(d)' /\ CloseOK(d)'
    BY <1>8 DEF EndResponses, TypesOK, EarlyOK, CloseOK, BothClosed
  <2> QED BY <2>1, <2>2
<1>9. ASSUME NEW c \in Connections, RequestsClose(c) PROVE SocketInv'
  <2>1. TypesOK' /\ QueueHeld'
    BY <1>9 DEF RequestsClose, TypesOK, QueueHeld
  <2>2. ASSUME NEW d \in Connections PROVE EarlyOK(d)' /\ CloseOK(d)'
    BY <1>9 DEF RequestsClose, TypesOK, EarlyOK, CloseOK, BothClosed
  <2> QED BY <2>1, <2>2
<1>10. ASSUME NEW c \in Connections, ResponsesClose(c) PROVE SocketInv'
  <2>1. TypesOK' /\ QueueHeld'
    BY <1>10 DEF ResponsesClose, TypesOK, QueueHeld
  <2>2. ASSUME NEW d \in Connections PROVE EarlyOK(d)' /\ CloseOK(d)'
    BY <1>10 DEF ResponsesClose, TypesOK, EarlyOK, CloseOK, BothClosed
  <2> QED BY <2>1, <2>2
<1>11. ASSUME NEW c \in Connections, Remove(c) PROVE SocketInv'
  <2>1. TypesOK' /\ QueueHeld'
    BY <1>11 DEF Remove, TypesOK, QueueHeld
  <2>2. ASSUME NEW d \in Connections PROVE EarlyOK(d)' /\ CloseOK(d)'
    BY <1>11 DEF Remove, TypesOK, EarlyOK, CloseOK, BothClosed
  <2> QED BY <2>1, <2>2
<1>12. CASE RunConnection
  <2>1. /\ Head(connSrc) = connSrc[1] /\ connSrc[1] \in Connections /\ 1 \in 1..Len(connSrc)
        /\ Tail(connSrc) \in Seq(Connections) /\ Len(Tail(connSrc)) = 0
    BY <1>12, QueueFacts DEF RunConnection, TypesOK
  <2>2. TypesOK' /\ QueueHeld'
    BY <1>12, <2>1 DEF RunConnection, TypesOK, QueueHeld
  <2>3. pc[Head(connSrc)] = "queued"
    BY <2>1 DEF QueueHeld
  <2>4. ASSUME NEW d \in Connections PROVE EarlyOK(d)' /\ CloseOK(d)'
    BY <1>12, <2>1, <2>3 DEF RunConnection, TypesOK, EarlyOK, CloseOK, BothClosed
  <2> QED BY <2>2, <2>4
<1>13. CASE Close \/ RunStops \/ Finished \/ UNCHANGED vars
  <2>1. TypesOK' /\ UNCHANGED <<pc, closer, firstErr, connSrc, local, remote>>
    BY <1>13 DEF Close, RunStops, Finished, vars, TypesOK
  <2>2. QueueHeld' /\ \A d \in Connections : EarlyOK(d)' /\ CloseOK(d)'
    BY <2>1 DEF QueueHeld, EarlyOK, CloseOK, BothClosed
  <2> QED BY <2>1, <2>2
<1>14. CASE ConnSetClose
  <2>1. TypesOK' /\ QueueHeld'
    BY <1>14 DEF ConnSetClose, TypesOK, QueueHeld
  <2>2. ASSUME NEW d \in Connections PROVE EarlyOK(d)' /\ CloseOK(d)'
    BY <1>14 DEF ConnSetClose, TypesOK, EarlyOK, CloseOK, BothClosed
  <2> QED BY <2>1, <2>2
<1>15. ASSUME NEW b \in Brokers, AcceptFails(b) PROVE SocketInv'
  <2>1. TypesOK' /\ QueueHeld'
    BY <1>15 DEF AcceptFails, TypesOK, QueueHeld
  <2>2. ASSUME NEW d \in Connections PROVE EarlyOK(d)' /\ CloseOK(d)'
    BY <1>15 DEF AcceptFails, TypesOK, EarlyOK, CloseOK, BothClosed
  <2> QED BY <2>1, <2>2
<1> QED BY <1>1, <1>2, <1>3, <1>4, <1>5, <1>6, <1>7, <1>8, <1>9, <1>10, <1>11, <1>12, <1>13, <1>14, <1>15
        DEF Next, Handle

------------------------------------------------------------------------------
(* The connection set.                                                       *)

\* Cutting one element out of a slice (ConnSet.Remove).
LEMMA WithoutFacts ==
    ASSUME NEW s \in Seq(Connections), NEW k \in 1..Len(s)
    PROVE  /\ Without(s, k) \in Seq(Connections)
           /\ Len(Without(s, k)) = Len(s) - 1
           /\ \A i \in 1..Len(s) - 1 : Without(s, k)[i] = IF i < k THEN s[i] ELSE s[i + 1]
<1> DEFINE a == SubSeq(s, 1, k - 1)
           b == SubSeq(s, k + 1, Len(s))
<1>1. /\ a \in Seq(Connections) /\ Len(a) = k - 1
      /\ \A i \in 1..k - 1 : a[i] = s[i]
  OBVIOUS
<1>2. /\ b \in Seq(Connections) /\ Len(b) = Len(s) - k
      /\ \A i \in 1..Len(s) - k : b[i] = s[k + i]
  OBVIOUS
<1> HIDE DEF a, b
<1>3. /\ a \o b \in Seq(Connections) /\ Len(a \o b) = Len(a) + Len(b)
      /\ \A i \in 1..Len(a) + Len(b) : (a \o b)[i] = IF i <= Len(a) THEN a[i] ELSE b[i - Len(a)]
  BY <1>1, <1>2, ConcatProperties
<1>4. Without(s, k) = a \o b
  BY DEF Without, a, b
<1>5. Len(s) \in Nat /\ k \in Nat /\ Len(a) + Len(b) = Len(s) - 1
  BY <1>1, <1>2
<1>6. ASSUME NEW i \in 1..Len(s) - 1 PROVE (a \o b)[i] = IF i < k THEN s[i] ELSE s[i + 1]
  <2>1. CASE i < k
    BY <1>1, <1>3, <1>5, <2>1
  <2>2. CASE ~(i < k)
    <3>1. i - (k - 1) \in 1..Len(s) - k /\ k + (i - (k - 1)) = i + 1 /\ ~(i <= k - 1)
      BY <1>5, <2>2
    <3>2. (a \o b)[i] = b[i - (k - 1)]
      BY <1>1, <1>3, <1>5, <3>1
    <3> QED BY <1>2, <2>2, <3>1, <3>2
  <2> QED BY <2>1, <2>2
<1> QED BY <1>3, <1>4, <1>5, <1>6

\* Membership in the set, spelled out.
LEMMA RegisteredFacts ==
    \A c : c \in Registered <=> \E b \in DOMAIN m : \E i \in 1..Len(m[b]) : m[b][i] = c
BY DEF Registered

SetInv == SetTypeOK /\ ConnSetExact

\* Init establishes the part about the connection set.
LEMMA InitSet == Init => SetInv
<1> SUFFICES ASSUME Init PROVE SetInv
  OBVIOUS
<1>1. DOMAIN m = {}
  BY DEF Init
<1>2. Registered = {}
  BY <1>1 DEF Registered
<1>3. \A c \in Connections : pc[c] = "waiting"
  BY DEF Init
<1> QED BY <1>1, <1>2, <1>3 DEF SetInv, SetTypeOK, ConnSetExact

\* Steps that leave the set alone and move nobody into or out of it.
LEMMA SetUntouched ==
    ASSUME SetInv, UNCHANGED m,
           \A c \in Connections : pc'[c] \in Within <=> pc[c] \in Within
    PROVE  SetInv'
<1>1. Registered' = Registered
  BY DEF Registered
<1> QED BY <1>1 DEF SetInv, SetTypeOK, ConnSetExact, Within

\* ConnSet.Add puts in a connection that is not there yet.
LEMMA AddSet ==
    ASSUME SocketInv, SetInv, NEW c \in Connections, Add(c)
    PROVE  SetInv'
<1> DEFINE b == BrokerOf[c]
           s == Live(b)
<1>1. /\ pc[c] = "add" /\ b \in Brokers
      /\ pc' = [pc EXCEPT ![c] = "loop"]
      /\ m' = [x \in DOMAIN m \cup {b} |-> IF x = b THEN Append(s, c) ELSE m[x]]
      /\ \A d \in Connections : d # c => pc'[d] = pc[d]
      /\ pc'[c] = "loop"
  BY ClientAssumption DEF Add, Goto, SocketInv, TypesOK
<1>2. c \notin Registered
  BY <1>1 DEF SetInv, ConnSetExact
<1>3. s \in Seq(Connections) /\ Len(s) \in Nat
  <2>1. CASE b \in DOMAIN m
    BY <2>1 DEF Live, SetInv, SetTypeOK
  <2>2. CASE b \notin DOMAIN m
    <3>1. s = <<>>
      BY <2>2 DEF Live
    <3> QED BY <3>1
  <2> QED BY <2>1, <2>2
<1>4. \A i, j \in 1..Len(s) : BrokerOf[s[i]] = b /\ s[i] # c /\ (s[i] = s[j] => i = j)
  <2>1. CASE b \in DOMAIN m
    BY <1>2, <2>1, RegisteredFacts DEF Live, SetInv, ConnSetExact
  <2>2. CASE b \notin DOMAIN m
    BY <2>2 DEF Live
  <2> QED BY <2>1, <2>2
<1>5. \A d : (\E i \in 1..Len(s) : s[i] = d) <=> (b \in DOMAIN m /\ \E i \in 1..Len(m[b]) : m[b][i] = d)
  BY DEF Live
<1> HIDE DEF b, s
<1>6. /\ DOMAIN m' = DOMAIN m \cup {b} /\ m'[b] = Append(s, c)
      /\ \A x \in DOMAIN m : x # b => m'[x] = m[x]
  BY <1>1
<1>7. /\ m'[b] \in Seq(Connections) /\ Len(m'[b]) = Len(s) + 1 /\ m'[b] # <<>>
      /\ m'[b][Len(s) + 1] = c
      /\ \A i \in 1..Len(s) : m'[b][i] = s[i]
  BY <1>3, <1>6
<1>8. SetTypeOK'
  BY <1>1, <1>6, <1>7 DEF SetInv, SetTypeOK
<1>9. ASSUME NEW x \in DOMAIN m'
      PROVE  /\ m'[x] # <<>>
             /\ \A i, j \in 1..Len(m'[x]) : BrokerOf[m'[x][i]] = x /\ (m'[x][i] = m'[x][j] => i = j)
  <2>1. CASE x = b
    <3>1. \A i \in 1..Len(m'[b]) : i = Len(s) + 1 \/ i \in 1..Len(s)
      BY <1>3, <1>7
    <3> QED BY <1>4, <1>7, <2>1, <3>1 DEF b
  <2>2. CASE x # b
    BY <1>6, <2>2 DEF SetInv, ConnSetExact
  <2> QED BY <2>1, <2>2
<1>10. Registered' = Registered \cup {c}
  <2>1. \A d : d \in Registered' <=> \E x \in DOMAIN m' : \E i \in 1..Len(m'[x]) : m'[x][i] = d
    BY DEF Registered
  <2>2. \A d : (\E i \in 1..Len(m'[b]) : m'[b][i] = d) <=> (d = c \/ \E i \in 1..Len(s) : s[i] = d)
    BY <1>3, <1>7
  <2> SUFFICES ASSUME NEW d PROVE d \in Registered' <=> d \in Registered \/ d = c
    OBVIOUS
  <2>3. d \in Registered' <=> \/ \E i \in 1..Len(m'[b]) : m'[b][i] = d
                            \/ \E x \in DOMAIN m : x # b /\ \E i \in 1..Len(m[x]) : m[x][i] = d
    BY <1>6, <2>1
  <2>4. d \in Registered <=> \/ \E i \in 1..Len(s) : s[i] = d
                           \/ \E x \in DOMAIN m : x # b /\ \E i \in 1..Len(m[x]) : m[x][i] = d
    BY <1>5, RegisteredFacts
  <2> QED BY <2>2, <2>3, <2>4
<1>11. Registered' = {d \in Connections : pc'[d] \in {"loop", "closeRemote", "closeLocal", "remove"}}
  BY <1>1, <1>10 DEF SetInv, ConnSetExact
<1> QED BY <1>8, <1>9, <1>11 DEF SetInv, ConnSetExact

\* ConnSet.Remove finds its connection and takes out that one only.
LEMMA RemoveSet ==
    ASSUME SocketInv, SetInv, NEW c \in Connections, Remove(c)
    PROVE  SetInv'
<1> DEFINE b == BrokerOf[c]
<1>1. /\ pc[c] = "remove"
      /\ pc'[c] = "done"
      /\ \A d \in Connections : d # c => pc'[d] = pc[d]
  BY DEF Remove, Goto, SocketInv, TypesOK
<1>2. c \in Registered
  BY <1>1 DEF SetInv, ConnSetExact
<1>3. PICK k \in 1..Len(m[b]) : b \in DOMAIN m /\ m[b][k] = c
  BY <1>2, RegisteredFacts DEF SetInv, ConnSetExact
<1>4. /\ m[b] \in Seq(Connections) /\ Len(m[b]) \in Nat /\ b \in Brokers
      /\ \A i \in 1..Len(m[b]) : m[b][i] = c => i = k
  BY <1>3 DEF SetInv, SetTypeOK, ConnSetExact
<1>5. {i \in 1..Len(Live(b)) : Live(b)[i] = c} = {k}
  BY <1>3, <1>4 DEF Live
<1>6. m' = IF Len(m[b]) = 1 THEN [x \in DOMAIN m \ {b} |-> m[x]]
           ELSE [m EXCEPT ![b] = Without(m[b], k)]
  <2> DEFINE here == {i \in 1..Len(Live(b)) : Live(b)[i] = c}
             first == CHOOSE i \in here : \A j \in here : i <= j
  <2>1. m' = IF here = {} THEN m
             ELSE IF Len(m[b]) = 1 THEN [x \in DOMAIN m \ {b} |-> m[x]]
             ELSE [m EXCEPT ![b] = Without(m[b], first)]
    BY DEF Remove
  <2>2. here = {k}
    BY <1>5
  <2> HIDE DEF here
  <2>3. first = k
    BY <1>4, <2>2
  <2> HIDE DEF first
  <2> QED BY <2>1, <2>2, <2>3
<1> HIDE DEF b
<1>7. ASSUME SetTypeOK',
             \A x \in DOMAIN m' : /\ m'[x] # <<>>
                                  /\ \A i, j \in 1..Len(m'[x]) :
                                        BrokerOf[m'[x][i]] = x /\ (m'[x][i] = m'[x][j] => i = j),
             Registered' = Registered \ {c}
      PROVE  SetInv'
  <2>1. Registered' = {d \in Connections : pc'[d] \in {"loop", "closeRemote", "closeLocal", "remove"}}
    BY <1>1, <1>7 DEF SetInv, ConnSetExact
  <2> QED BY <1>7, <2>1 DEF SetInv, ConnSetExact
<1>8. \A d : d \in Registered' <=> \E x \in DOMAIN m' : \E i \in 1..Len(m'[x]) : m'[x][i] = d
  BY DEF Registered
<1>9. CASE Len(m[b]) = 1
  <2>1. DOMAIN m' = DOMAIN m \ {b} /\ \A x \in DOMAIN m' : m'[x] = m[x]
    BY <1>6, <1>9
  <2>2. \A i \in 1..Len(m[b]) : m[b][i] = c
    BY <1>3, <1>9
  <2>3. \A x \in DOMAIN m : x # b => \A i \in 1..Len(m[x]) : m[x][i] # c
    BY DEF SetInv, ConnSetExact, b
  <2>4. Registered' = Registered \ {c}
    BY <1>3, <1>8, <2>1, <2>2, <2>3, RegisteredFacts
  <2> QED BY <1>7, <2>1, <2>4 DEF SetInv, SetTypeOK, ConnSetExact
<1>10. CASE Len(m[b]) # 1
  <2> DEFINE w == Without(m[b], k)
             n == Len(m[b]) - 1
  <2>1. /\ w \in Seq(Connections) /\ Len(w) = n
        /\ \A i \in 1..n : w[i] = IF i < k THEN m[b][i] ELSE m[b][i + 1]
    BY <1>3, <1>4, WithoutFacts
  <2>2. DOMAIN m' = DOMAIN m /\ m'[b] = w /\ \A x \in DOMAIN m : x # b => m'[x] = m[x]
    BY <1>3, <1>6, <1>10
  <2>3. n \in Nat \ {0} /\ k \in 1..n + 1 /\ Len(m[b]) = n + 1
    BY <1>3, <1>4, <1>10
  <2> HIDE DEF w, n
  <2>4. SetTypeOK'
    BY <2>1, <2>2 DEF SetInv, SetTypeOK
  <2>5. \A i, j \in 1..n + 1 : BrokerOf[m[b][i]] = b /\ (m[b][i] = m[b][j] => i = j)
    BY <1>3, <2>3 DEF SetInv, ConnSetExact
  <2>6. \A i, j \in 1..n : BrokerOf[w[i]] = b /\ w[i] # c /\ (w[i] = w[j] => i = j)
    <3> SUFFICES ASSUME NEW i \in 1..n, NEW j \in 1..n
                 PROVE  BrokerOf[w[i]] = b /\ w[i] # c /\ (w[i] = w[j] => i = j)
      OBVIOUS
    <3> DEFINE at(x) == IF x < k THEN x ELSE x + 1
    <3>1. at(i) \in 1..n + 1 /\ at(j) \in 1..n + 1 /\ at(i) # k /\ (at(i) = at(j) => i = j)
      BY <2>3
    <3>2. w[i] = m[b][at(i)] /\ w[j] = m[b][at(j)]
      BY <2>1
    <3> HIDE DEF at
    <3> QED BY <1>3, <2>3, <2>5, <3>1, <3>2
  <2>7. w # <<>>
    BY <2>1, <2>3
  <2>8. ASSUME NEW x \in DOMAIN m'
        PROVE  /\ m'[x] # <<>>
               /\ \A i, j \in 1..Len(m'[x]) :
                     BrokerOf[m'[x][i]] = x /\ (m'[x][i] = m'[x][j] => i = j)
    <3>1. CASE x = b
      BY <2>1, <2>2, <2>6, <2>7, <3>1
    <3>2. CASE x # b
      BY <2>2, <3>2 DEF SetInv, ConnSetExact
    <3> QED BY <3>1, <3>2
  <2>9. ASSUME NEW d PROVE (\E i \in 1..n : w[i] = d) <=> (d # c /\ \E i \in 1..n + 1 : m[b][i] = d)
    <3>1. ASSUME NEW i \in 1..n, w[i] = d PROVE d # c /\ \E j \in 1..n + 1 : m[b][j] = d
      <4>1. i \in 1..n + 1 /\ i + 1 \in 1..n + 1
        BY <2>3
      <4> QED BY <2>1, <2>6, <3>1, <4>1
    <3>2. ASSUME NEW j \in 1..n + 1, m[b][j] = d, d # c PROVE \E i \in 1..n : w[i] = d
      <4>1. j # k
        BY <1>3, <3>2
      <4>2. CASE j < k
        <5>1. j \in 1..n
          BY <2>3, <4>2
        <5> QED BY <2>1, <3>2, <4>2, <5>1
      <4>3. CASE j > k
        <5>1. j - 1 \in 1..n /\ ~(j - 1 < k) /\ (j - 1) + 1 = j
          BY <2>3, <4>3
        <5> QED BY <2>1, <3>2, <5>1
      <4> QED BY <2>3, <4>1, <4>2, <4>3
    <3> QED BY <3>1, <3>2
  <2>10. \A x \in DOMAIN m : x # b => \A i \in 1..Len(m[x]) : m[x][i] # c
    BY DEF SetInv, ConnSetExact, b
  <2>11. Registered' = Registered \ {c}
    <3> SUFFICES ASSUME NEW d PROVE d \in Registered' <=> d \in Registered /\ d # c
      OBVIOUS
    <3>1. d \in Registered' <=> \/ \E i \in 1..n : w[i] = d
                              \/ \E x \in DOMAIN m : x # b /\ \E i \in 1..Len(m[x]) : m[x][i] = d
      BY <1>3, <1>8, <2>1, <2>2
    <3>2. d \in Registered <=> \/ \E i \in 1..n + 1 : m[b][i] = d
                             \/ \E x \in DOMAIN m : x # b /\ \E i \in 1..Len(m[x]) : m[x][i] = d
      BY <1>3, <2>3, RegisteredFacts
    <3> QED BY <2>9, <2>10, <3>1, <3>2
  <2> QED BY <1>7, <2>4, <2>8, <2>11
<1> QED BY <1>9, <1>10

\* Every step preserves the part about the connection set.
LEMMA StepSet == SocketInv /\ SetInv /\ [Next]_vars => SetInv'
<1> SUFFICES ASSUME SocketInv, SetInv, [Next]_vars PROVE SetInv'
  OBVIOUS
<1> USE DEF copyVars, runVars, Goto, Within, SocketInv, TypesOK
<1>1. ASSUME NEW c \in Connections,
             \/ Accept(c) \/ Enqueue(c) \/ Dial(c) \/ DialFails(c) \/ AuthStep(c)
             \/ AuthFails(c) \/ GiveUp(c)
      PROVE  SetInv'
  BY <1>1, SetUntouched DEF Accept, Enqueue, Dial, DialFails, AuthStep, AuthFails, GiveUp
<1>2. ASSUME NEW c \in Connections,
             EndRequests(c) \/ EndResponses(c) \/ RequestsClose(c) \/ ResponsesClose(c)
      PROVE  SetInv'
  BY <1>2, SetUntouched DEF EndRequests, EndResponses, RequestsClose, ResponsesClose
<1>3. CASE RunConnection
  <2>1. Head(connSrc) \in Connections /\ pc[Head(connSrc)] = "queued"
    BY <1>3, QueueFacts DEF RunConnection, QueueHeld
  <2> QED BY <1>3, <2>1, SetUntouched DEF RunConnection
<1>4. CASE Close \/ RunStops \/ ConnSetClose \/ Finished \/ UNCHANGED vars
  BY <1>4, SetUntouched DEF Close, RunStops, ConnSetClose, Finished, vars
<1>5. ASSUME NEW b \in Brokers, AcceptFails(b) PROVE SetInv'
  BY <1>5, SetUntouched DEF AcceptFails
<1> QED BY <1>1, <1>2, <1>3, <1>4, <1>5, AddSet, RemoveSet DEF Next, Handle

\* The inductive invariant holds in every reachable state.
THEOREM Invariance == Spec => [](SocketInv /\ SetInv)
<1>1. Init => SocketInv /\ SetInv
  BY InitSockets, InitSet
<1>2. (SocketInv /\ SetInv) /\ [Next]_vars => (SocketInv /\ SetInv)'
  BY StepSockets, StepSet
<1> QED BY <1>1, <1>2, PTL DEF Spec

\* Every variable of Client keeps its type and connSrc its capacity.
THEOREM TypeCorrect == Spec => []TypeOK
<1>1. SocketInv /\ SetInv => TypeOK
  BY DEF SocketInv, TypesOK, SetInv, SetTypeOK, TypeOK, Before, Within
<1> QED BY <1>1, Invariance, PTL

\* Whatever step of handleConn fails and whichever loop of copyThenClose ends first,
\* no socket stays open once both goroutines of the connection are done.
THEOREM NoLeak == Spec => []NothingLeaked
<1>1. SocketInv => NothingLeaked
  BY DEF SocketInv, EarlyOK, CloseOK, BothClosed, NothingLeaked
<1> QED BY <1>1, Invariance, PTL

\* However ConnSet.Add and Remove of any number of connections interleave, the set
\* holds exactly the connections between the two, each once, under its own broker.
THEOREM SetExact == Spec => []ConnSetExact
BY Invariance, PTL DEF SetInv
=============================================================================
