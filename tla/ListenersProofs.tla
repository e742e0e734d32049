--------------------------- MODULE ListenersProofs ---------------------------
(***************************************************************************)
(* Proofs about Listeners, for any number of response loops, brokers and   *)
(* configured mappings, any port range and any order of the calls.         *)
(***************************************************************************)
EXTENDS Listeners, TLAPS

\* The part of the assumptions that is about numbers.
LEMMA Numbers ==
    /\ PortSpace \in Nat \ {0}
    /\ MinPort \in 1..PortSpace - 1 /\ MaxPorts \in 1..PortSpace - 1
    /\ Len(Configured) \in Nat
BY ListenersAssumption

\* The sum of nextDynamicPort, taken in uint16: it is a port, and unless it shows an
\* overflow it lies in the configured range.
LEMMA PortArithmetic ==
    ASSUME NEW offset \in Int
    PROVE  /\ nextDynamicPort(offset) \in 0..PortSpace - 1
           /\ ~Overflow(offset) => nextDynamicPort(offset) \in MinPort..MinPort + MaxPorts - 1
<1> DEFINE r == offset % MaxPorts
           port == nextDynamicPort(offset)
<1>1. r \in 0..MaxPorts - 1
  BY Numbers
<1>2. MinPort + r \in Nat /\ MinPort \in Nat /\ MaxPorts \in Nat /\ PortSpace \in Nat
  BY <1>1, Numbers
<1>3. \A n \in Nat : n % PortSpace \in 0..PortSpace - 1 /\ n % PortSpace <= n
  BY Numbers
<1>4. port = (MinPort + r) % PortSpace
  BY DEF nextDynamicPort
<1> HIDE DEF r, port
<1>5. port \in 0..PortSpace - 1 /\ port <= MinPort + r
  BY <1>2, <1>3, <1>4
<1>6. Overflow(offset) <=> port < MinPort
  BY DEF Overflow, port
<1>7. ~Overflow(offset) => port \in MinPort..MinPort + MaxPorts - 1
  BY <1>1, <1>2, <1>5, <1>6
<1> QED BY <1>5, <1>7 DEF port

------------------------------------------------------------------------------
(* The inductive invariant.  Ports come from the counter or a broker id, so  *)
(* their range rests on the type of both; that a moved listener leaves       *)
(* nothing behind rests on the table routing each address to its own         *)
(* listener.                                                                 *)

Inv == TypeOK /\ TableRoutes /\ PortsInRange /\ NoOrphanListener

\* A caller under way asks for an endpoint whose address the table has a place for.
LEMMA Asked ==
    ASSUME TypeOK, NEW c \in Callers, call[c] # NoCall
    PROVE  /\ call[c] \in Endpoints /\ call[c].id \in Int /\ call[c].id \in Ids
           /\ call[c].address \in Addresses
<1>1. call[c] \in Endpoints
  BY DEF TypeOK
<1> QED BY <1>1, ListenersAssumption DEF Ids, Addresses

\* What a call that returns leaves in call and answer.
LEMMA Returns ==
    ASSUME TypeOK, NEW c \in Callers, NEW e \in Endpoints, NEW i, Return(c, e, i)
    PROVE  /\ call' \in [Callers -> Endpoints \cup {NoCall}]
           /\ answer' = [id |-> e.id, listener |-> i] /\ e.id \in Int
BY ListenersAssumption DEF TypeOK, Return

\* What a call that opens no listener and moves none leaves behind.
LEMMA KeepsTables ==
    ASSUME Inv, UNCHANGED <<mode, template, listeners, table>>,
           counter' \in 0..MaxPorts - 1,
           call' \in [Callers -> Endpoints \cup {NoCall}],
           answer' \in [id : Int, listener : 0..Len(listeners)]
    PROVE  Inv'
BY DEF Inv, TypeOK, TableRoutes, PortsInRange, NoOrphanListener, Dynamic, Open

\* A call that fails, or finds its address in the table.
LEMMA ReturnKeeps ==
    ASSUME Inv, UNCHANGED <<mode, template, listeners, table>>,
           counter' \in 0..MaxPorts - 1,
           NEW c \in Callers, NEW e \in Endpoints, NEW i \in 0..Len(listeners), Return(c, e, i)
    PROVE  Inv'
<1>1. answer' \in [id : Int, listener : 0..Len(listeners)] /\ call' \in [Callers -> Endpoints \cup {NoCall}]
  BY Returns DEF Inv
<1> QED BY <1>1, KeepsTables

\* What Listen adds at the end of the list.
NewListener(c, port) ==
    Listener(port, call[c].id, call[c].address, getDynamicAdvertisedAddress(call[c].id, port), TRUE)

\* The new listener, and its advertised address.
LEMMA NewListenerType ==
    ASSUME TypeOK, NEW c \in Callers, call[c] # NoCall, NEW port \in 0..PortSpace - 1
    PROVE  /\ NewListener(c, port) \in ListenerType
           /\ NewListener(c, port).port = port /\ NewListener(c, port).open
           /\ NewListener(c, port).address = call[c].address
           /\ template[call[c].id].ok => NewListener(c, port).advertised \in Advertised
           /\ ~template[call[c].id].ok => NewListener(c, port).advertised = NoAddress
<1> DEFINE told == getDynamicAdvertisedAddress(call[c].id, port)
<1>1. call[c].id \in Int /\ call[c].id \in Ids /\ call[c].address \in Addresses /\ template \in Templates
  BY Asked DEF TypeOK
<1>2. template[call[c].id].ok => told \in Advertised
  BY <1>1 DEF getDynamicAdvertisedAddress, Advertised
<1>3. ~template[call[c].id].ok => told = NoAddress
  BY DEF getDynamicAdvertisedAddress
<1> HIDE DEF told
<1>4. NewListener(c, port) = [port |-> port, id |-> call[c].id, address |-> call[c].address,
                              advertised |-> told, open |-> TRUE]
  BY DEF NewListener, Listener, told
<1>5. told \in Advertised \cup {NoAddress}
  BY <1>2, <1>3
<1> QED BY <1>1, <1>2, <1>3, <1>4, <1>5 DEF ListenerType

\* A new listener at the end of the list, on a port nobody has, under an address the
\* table did not know.
LEMMA Opens ==
    ASSUME Inv,
           NEW c \in Callers, call[c] # NoCall, NEW port \in 0..PortSpace - 1,
           port \notin Taken,
           mode \in {"deterministic", "sequential"} => port \in MinPort..MinPort + MaxPorts - 1,
           table[call[c].address] = None,
           listeners' = Append(listeners, NewListener(c, port)),
           \/ /\ template[call[c].id].ok
              /\ table' = [table EXCEPT ![call[c].address] = Len(listeners')]
              /\ Return(c, call[c], Len(listeners'))
           \/ /\ ~template[call[c].id].ok
              /\ table' = table
              /\ Return(c, call[c], None),
           counter' \in 0..MaxPorts - 1,
           UNCHANGED <<mode, template>>
    PROVE  Inv'
<1> DEFINE new == NewListener(c, port)
           n == Len(listeners)
           ok == template[call[c].id].ok
<1>1. TypeOK /\ call[c] \in Endpoints /\ call[c].address \in Addresses
  BY Asked DEF Inv
<1>2. /\ listeners \in Seq(ListenerType) /\ new \in ListenerType
      /\ n \in Nat
      /\ \A i \in 1..n : listeners[i] \in ListenerType
  BY <1>1, NewListenerType DEF TypeOK
<1>3. /\ new.port = port /\ new.open /\ new.address = call[c].address
      /\ ~ok => new.advertised = NoAddress
  BY <1>1, NewListenerType
<1> HIDE DEF new
<1>4. /\ listeners' \in Seq(ListenerType) /\ Len(listeners') = n + 1
      /\ \A i \in 1..n : listeners'[i] = listeners[i]
      /\ listeners'[n + 1] = new
  BY <1>2 DEF new
<1>5. /\ table \in [Addresses -> 0..n]
      /\ table' \in [Addresses -> 0..n + 1]
      /\ \A a \in Addresses : a # call[c].address => table'[a] = table[a]
      /\ ok => table'[call[c].address] = n + 1
      /\ ~ok => table' = table
  <2>1. table \in [Addresses -> 0..n] /\ n + 1 \in 0..n + 1 /\ 0..n \subseteq 0..n + 1
    BY <1>1, <1>2 DEF TypeOK
  <2>2. CASE ok
    BY <1>1, <1>4, <2>1, <2>2
  <2>3. CASE ~ok
    BY <2>1, <2>3
  <2> QED BY <2>2, <2>3
<1> HIDE DEF n, ok
<1>6. TypeOK'
  <2>1. PICK v \in {n + 1, 0} : Return(c, call[c], v)
    BY <1>4 DEF None
  <2>2. /\ call' \in [Callers -> Endpoints \cup {NoCall}]
        /\ answer' \in [id : Int, listener : 0..n + 1]
    <3>1. answer' = [id |-> call[c].id, listener |-> v] /\ call[c].id \in Int
      BY <1>1, <2>1, Returns
    <3>2. v \in 0..n + 1
      BY <1>2, <2>1
    <3> QED BY <1>1, <2>1, <3>1, <3>2, Returns
  <2> QED BY <1>1, <1>4, <1>5, <2>2 DEF TypeOK
<1>7. TableRoutes'
  <2> SUFFICES ASSUME NEW a \in Addresses, table'[a] # None PROVE listeners'[table'[a]].address = a
    BY DEF TableRoutes
  <2>1. CASE table'[a] = table[a]
    <3>1. table[a] \in 1..n /\ listeners[table[a]].address = a
      BY <1>2, <1>5, <2>1 DEF Inv, TableRoutes, None
    <3> QED BY <1>4, <2>1, <3>1
  <2>2. CASE table'[a] # table[a]
    BY <1>3, <1>4, <1>5, <2>2
  <2> QED BY <2>1, <2>2
<1>8. PortsInRange'
  <2>1. \A i \in Open : i \in 1..n /\ listeners[i].port # port
    BY DEF Taken, Listening, Open, n
  <2>2. /\ \A i \in Dynamic' : i = n + 1 \/ (i \in Dynamic /\ i \in 1..n)
        /\ \A i \in Open' : i = n + 1 \/ (i \in Open /\ i \in 1..n)
    BY <1>2, <1>4, Numbers DEF Dynamic, Open, n
  <2>3. listeners'[n + 1].port = port
    BY <1>3, <1>4
  <2>4. ASSUME mode' \in {"deterministic", "sequential"}, NEW i \in Dynamic'
        PROVE  listeners'[i].port >= MinPort /\ listeners'[i].port < MinPort + MaxPorts
    <3>1. CASE i = n + 1
      <4>1. port \in MinPort..MinPort + MaxPorts - 1 /\ listeners'[i].port = port
        BY <2>3, <2>4, <3>1
      <4> QED BY <4>1, Numbers
    <3>2. CASE i # n + 1
      BY <1>4, <2>2, <2>4, <3>2 DEF Inv, PortsInRange
    <3> QED BY <3>1, <3>2
  <2>5. ASSUME NEW i \in Open', NEW j \in Open', listeners'[i].port = listeners'[j].port
        PROVE  i = j
    <3>1. CASE i # n + 1 /\ j # n + 1
      BY <1>4, <2>2, <2>5, <3>1 DEF Inv, PortsInRange
    <3>2. CASE i = n + 1 \/ j = n + 1
      BY <1>4, <2>1, <2>2, <2>3, <2>5, <3>2
    <3> QED BY <3>1, <3>2
  <2> QED BY <2>4, <2>5 DEF PortsInRange
<1>9. NoOrphanListener'
  <2>1. \A i \in Dynamic' : i = n + 1 \/ (i \in Dynamic /\ i \in 1..n /\ i # None)
    BY <1>2, <1>4, Numbers DEF Dynamic, n, None
  <2>2. ASSUME NEW i \in Dynamic', listeners'[i].advertised # NoAddress
        PROVE  \E a \in Addresses : table'[a] = i
    <3>1. CASE i = n + 1
      BY <1>1, <1>3, <1>4, <1>5, <2>2, <3>1
    <3>2. CASE i \in Dynamic /\ i \in 1..n /\ i # None
      <4>1. PICK a \in Addresses : table[a] = i
        BY <1>4, <2>2, <3>2 DEF Inv, NoOrphanListener
      <4>2. a # call[c].address
        BY <3>2, <4>1
      <4> QED BY <1>5, <4>1, <4>2
    <3> QED BY <2>1, <3>1, <3>2
  <2> QED BY <2>2 DEF NoOrphanListener
<1> QED BY <1>6, <1>7, <1>8, <1>9 DEF Inv

\* A listener that changes its broker address, or closes: what a step does to the list.
LEMMA Replaced ==
    ASSUME listeners \in Seq(ListenerType), NEW i \in 1..Len(listeners), NEW l \in ListenerType,
           listeners' = [listeners EXCEPT ![i] = l]
    PROVE  /\ listeners' \in Seq(ListenerType) /\ Len(listeners') = Len(listeners)
           /\ Len(listeners) \in Nat
           /\ listeners'[i] = l
           /\ \A j \in 1..Len(listeners) : j # i => listeners'[j] = listeners[j]
OBVIOUS

\* The listener that MoveListener moves: the table knows it under its old address only.
LEMMA Moving ==
    ASSUME Inv, NEW c \in Callers, ListenMoved(c)
    PROVE  \E i \in 1..Len(listeners) :
              LET old == listeners[i].address
                  new == call[c].address
                  l == listeners[i]
              IN  /\ l.id = call[c].id /\ l \in ListenerType
                  /\ old \in Addresses /\ new \in Addresses /\ old # new
                  /\ table[old] = i /\ table[new] = None
                  /\ \A a \in Addresses : table[a] = i => a = old
                  /\ listeners' = [listeners EXCEPT ![i] = [l EXCEPT !.address = new]]
                  /\ table' \in [Addresses -> 0..Len(listeners)]
                  /\ table'[new] = i /\ table'[old] = None
                  /\ \A a \in Addresses : a # old /\ a # new => table'[a] = table[a]
                  /\ Return(c, call[c], i)
<1> DEFINE new == call[c].address
<1>1. PICK i \in findListenerConfig(call[c].id) : MoveListener(c, i) /\ Return(c, call[c], i)
  BY DEF ListenMoved
<1> DEFINE l == listeners[i]
           old == l.address
<1>2. PICK b \in Addresses : table[b] = i /\ table[b] # None /\ l.id = call[c].id
  BY <1>1 DEF findListenerConfig
<1>3. TypeOK /\ TableRoutes
  BY DEF Inv
<1>4. /\ listeners \in Seq(ListenerType) /\ i \in 1..Len(listeners) /\ l \in ListenerType
      /\ table \in [Addresses -> 0..Len(listeners)]
  <2>1. listeners \in Seq(ListenerType) /\ table \in [Addresses -> 0..Len(listeners)]
    BY <1>3 DEF TypeOK
  <2>2. i \in 1..Len(listeners)
    BY <1>2, <2>1 DEF None
  <2> QED BY <2>1, <2>2
<1>5. new \in Addresses /\ table[new] = None
  BY <1>3, Asked DEF ListenMoved, DoubleCheck
<1>6. \A a \in Addresses : table[a] = i => a = old
  BY <1>2, <1>3 DEF TableRoutes
<1>7. old \in Addresses /\ table[old] = i /\ old # new
  BY <1>2, <1>5, <1>6
<1>8. /\ listeners' = [listeners EXCEPT ![i] = [l EXCEPT !.address = new]]
      /\ table' = [table EXCEPT ![old] = None, ![new] = i]
  BY <1>1 DEF MoveListener
<1> HIDE DEF new, old, l
<1>9. /\ table' \in [Addresses -> 0..Len(listeners)]
       /\ table'[new] = i /\ table'[old] = None
       /\ \A a \in Addresses : a # old /\ a # new => table'[a] = table[a]
  BY <1>4, <1>5, <1>7, <1>8 DEF None
<1> QED BY <1>1, <1>2, <1>4, <1>5, <1>6, <1>7, <1>8, <1>9 DEF new, old, l

\* The listener of a broker that moved.
LEMMA Moves ==
    ASSUME Inv, NEW c \in Callers, ListenMoved(c)
    PROVE  Inv'
<1> DEFINE new == call[c].address
<1>1. PICK i \in 1..Len(listeners) :
              LET old == listeners[i].address
                  l == listeners[i]
              IN  /\ l.id = call[c].id /\ l \in ListenerType
                  /\ old \in Addresses /\ new \in Addresses /\ old # new
                  /\ table[old] = i /\ table[new] = None
                  /\ \A a \in Addresses : table[a] = i => a = old
                  /\ listeners' = [listeners EXCEPT ![i] = [l EXCEPT !.address = new]]
                  /\ table' \in [Addresses -> 0..Len(listeners)]
                  /\ table'[new] = i /\ table'[old] = None
                  /\ \A a \in Addresses : a # old /\ a # new => table'[a] = table[a]
                  /\ Return(c, call[c], i)
  BY Moving
<1> DEFINE l == listeners[i]
           old == l.address
           moved == [l EXCEPT !.address = new]
<1>2. TypeOK /\ UNCHANGED <<mode, template, counter>> /\ call[c] # NoCall
  BY DEF Inv, ListenMoved
<1>3. /\ moved \in ListenerType /\ moved.port = l.port /\ moved.address = new
      /\ moved.advertised = l.advertised /\ moved.open = l.open
  BY <1>1 DEF ListenerType
<1> HIDE DEF moved
<1>4. /\ listeners' \in Seq(ListenerType) /\ Len(listeners') = Len(listeners) /\ Len(listeners) \in Nat
      /\ listeners'[i] = moved
      /\ \A j \in 1..Len(listeners) : j # i => listeners'[j] = listeners[j]
  <2>1. listeners' = [listeners EXCEPT ![i] = moved] /\ listeners \in Seq(ListenerType)
    BY <1>1, <1>2 DEF moved, TypeOK
  <2> QED BY <1>3, <2>1, Replaced
<1>5. \A j \in 1..Len(listeners) : /\ listeners'[j].port = listeners[j].port
                                   /\ listeners'[j].advertised = listeners[j].advertised
                                   /\ listeners'[j].open = listeners[j].open
  BY <1>3, <1>4
<1> HIDE DEF new, old, l
<1>6. TypeOK'
  <2>1. answer' = [id |-> call[c].id, listener |-> i] /\ call[c].id \in Int
        /\ call' \in [Callers -> Endpoints \cup {NoCall}]
    BY <1>1, <1>2, Asked, Returns
  <2> QED BY <1>1, <1>2, <1>4, <2>1 DEF TypeOK
<1>7. TableRoutes'
  <2> SUFFICES ASSUME NEW a \in Addresses, table'[a] # None PROVE listeners'[table'[a]].address = a
    BY DEF TableRoutes
  <2>1. CASE a = new
    BY <1>1, <1>3, <1>4, <2>1 DEF new
  <2>2. CASE a # new
    <3>1. a # old /\ table'[a] = table[a]
      BY <1>1, <2>2 DEF new, old, l
    <3>2. table[a] \in 1..Len(listeners) /\ listeners[table[a]].address = a
      BY <1>2, <3>1 DEF Inv, TypeOK, TableRoutes, None
    <3>3. table[a] # i
      BY <1>1, <3>1 DEF old, l
    <3> QED BY <1>4, <3>1, <3>2, <3>3
  <2> QED BY <2>1, <2>2
<1>8. PortsInRange'
  <2>1. Dynamic' = Dynamic /\ Open' = Open /\ Dynamic \subseteq 1..Len(listeners) /\ Open \subseteq 1..Len(listeners)
    BY <1>4, <1>5, Numbers DEF Dynamic, Open
  <2> QED BY <1>2, <1>5, <2>1 DEF Inv, PortsInRange
<1>9. NoOrphanListener'
  <2>1. Dynamic' = Dynamic /\ Dynamic \subseteq 1..Len(listeners) /\ \A j \in Dynamic : j # None
    BY <1>4, Numbers DEF Dynamic, None
  <2> SUFFICES ASSUME NEW j \in Dynamic, listeners'[j].advertised # NoAddress
               PROVE  \E a \in Addresses : table'[a] = j
    BY <2>1 DEF NoOrphanListener
  <2>2. PICK a \in Addresses : table[a] = j
    BY <1>5, <2>1 DEF Inv, NoOrphanListener
  <2>3. CASE j = i
    BY <1>1, <2>3 DEF new
  <2>4. CASE j # i
    <3>1. a # listeners[i].address /\ a # call[c].address
      BY <1>1, <2>1, <2>2, <2>4 DEF new
    <3> QED BY <1>1, <2>2, <3>1 DEF new
  <2> QED BY <2>3, <2>4
<1> QED BY <1>6, <1>7, <1>8, <1>9 DEF Inv

\* What a listener that closes keeps.
LEMMA Closing ==
    ASSUME TypeOK, NEW i \in 1..Len(listeners), AcceptFails(i)
    PROVE  /\ listeners' \in Seq(ListenerType) /\ Len(listeners') = Len(listeners) /\ Len(listeners) \in Nat
           /\ i \in Open /\ ~listeners'[i].open
           /\ \A j \in 1..Len(listeners) :
                /\ listeners'[j].port = listeners[j].port
                /\ listeners'[j].address = listeners[j].address
                /\ listeners'[j].advertised = listeners[j].advertised
                /\ j # i => listeners'[j].open = listeners[j].open
<1> DEFINE l == listeners[i]
           closed == [l EXCEPT !.open = FALSE]
<1>1. listeners \in Seq(ListenerType) /\ l \in ListenerType
  BY DEF TypeOK
<1>2. /\ closed \in ListenerType /\ ~closed.open /\ closed.port = l.port
      /\ closed.address = l.address /\ closed.advertised = l.advertised
  BY <1>1 DEF ListenerType
<1>3. listeners' = [listeners EXCEPT ![i] = closed] /\ i \in Open
  BY DEF AcceptFails
<1> HIDE DEF closed
<1>4. /\ listeners' \in Seq(ListenerType) /\ Len(listeners') = Len(listeners) /\ Len(listeners) \in Nat
      /\ listeners'[i] = closed
      /\ \A j \in 1..Len(listeners) : j # i => listeners'[j] = listeners[j]
  BY <1>1, <1>2, <1>3, Replaced
<1> QED BY <1>2, <1>3, <1>4

\* A listener whose accept loop ended.
LEMMA Closes ==
    ASSUME Inv, NEW i \in 1..Len(listeners), AcceptFails(i)
    PROVE  Inv'
<1>1. TypeOK /\ UNCHANGED <<mode, template, table, counter, call, answer>>
  BY DEF Inv, AcceptFails
<1>2. /\ listeners' \in Seq(ListenerType) /\ Len(listeners') = Len(listeners) /\ Len(listeners) \in Nat
      /\ ~listeners'[i].open
      /\ \A j \in 1..Len(listeners) :
            /\ listeners'[j].port = listeners[j].port
            /\ listeners'[j].address = listeners[j].address
            /\ listeners'[j].advertised = listeners[j].advertised
            /\ j # i => listeners'[j].open = listeners[j].open
  BY <1>1, Closing
<1>3. /\ Dynamic' = Dynamic /\ Dynamic \subseteq 1..Len(listeners)
      /\ Open' \subseteq Open /\ Open \subseteq 1..Len(listeners)
  BY <1>2, Numbers DEF Dynamic, Open
<1>4. TypeOK'
  BY <1>1, <1>2 DEF TypeOK
<1>5. TableRoutes'
  BY <1>1, <1>2 DEF Inv, TypeOK, TableRoutes, None
<1>6. PortsInRange'
  BY <1>1, <1>2, <1>3 DEF Inv, PortsInRange
<1>7. NoOrphanListener'
  BY <1>1, <1>2, <1>3 DEF Inv, NoOrphanListener
<1> QED BY <1>4, <1>5, <1>6, <1>7 DEF Inv

\* listenInstance and what follows it, on a set of candidate ports.
LEMMA Listens ==
    ASSUME Inv, NEW c \in Callers, call[c] # NoCall, NEW ports \in SUBSET (0..PortSpace - 1),
           mode \in {"deterministic", "sequential"} => ports \subseteq MinPort..MinPort + MaxPorts - 1,
           ~DoubleCheck(c), Listen(c, ports),
           counter' \in 0..MaxPorts - 1, UNCHANGED <<mode, template>>
    PROVE  Inv'
<1>1. CASE ports \subseteq Taken
  <2>1. UNCHANGED <<listeners, table>> /\ Return(c, call[c], None)
    BY <1>1 DEF Listen
  <2>2. call[c] \in Endpoints /\ None \in 0..Len(listeners)
    BY Asked DEF Inv, TypeOK, None
  <2> QED BY <2>1, <2>2, ReturnKeeps
<1>2. CASE ~(ports \subseteq Taken)
  <2>1. PICK port \in ports \ Taken :
            /\ listeners' = Append(listeners, NewListener(c, port))
            /\ IF template[call[c].id].ok
               THEN /\ table' = [table EXCEPT ![call[c].address] = Len(listeners')]
                    /\ Return(c, call[c], Len(listeners'))
               ELSE Return(c, call[c], None) /\ UNCHANGED table
    BY <1>2 DEF Listen, NewListener
  <2>2. table[call[c].address] = None
    BY DEF DoubleCheck
  <2> QED BY <2>1, <2>2, Opens
<1> QED BY <1>1, <1>2

\* The configured mappings, as listeners.
LEMMA InitListeners ==
    ASSUME Init
    PROVE  /\ listeners \in Seq(ListenerType) /\ Len(listeners) = Len(Configured)
           /\ \A i \in 1..Len(Configured) :
                /\ listeners[i].address = Configured[i].address
                /\ listeners[i].port = Configured[i].port
                /\ listeners[i].open = Configured[i].bootstrap
                /\ listeners[i].advertised \in Advertised
<1>1. ASSUME NEW i \in 1..Len(Configured)
      PROVE  /\ listeners[i] \in ListenerType
             /\ listeners[i].address = Configured[i].address
             /\ listeners[i].port = Configured[i].port
             /\ listeners[i].open = Configured[i].bootstrap
             /\ listeners[i].advertised \in Advertised
  <2>1. listeners[i] = [port |-> Configured[i].port, id |-> UnknownBrokerID,
                        address |-> Configured[i].address,
                        advertised |-> Configured[i].advertised, open |-> Configured[i].bootstrap]
    BY DEF Init, Listener
  <2>2. /\ Configured[i].port \in 0..PortSpace - 1 /\ Configured[i].bootstrap \in BOOLEAN
        /\ Configured[i].address \in Addresses /\ Configured[i].advertised \in Advertised
        /\ UnknownBrokerID \in Int
    BY ListenersAssumption DEF Addresses, Advertised, UnknownBrokerID
  <2> QED BY <2>1, <2>2 DEF ListenerType
<1>2. listeners = [i \in 1..Len(Configured) |-> listeners[i]]
  BY DEF Init
<1> QED BY <1>1, <1>2, Numbers

\* The initial states satisfy the invariant.
LEMMA InitInv == Init => Inv
<1> SUFFICES ASSUME Init PROVE Inv
  OBVIOUS
<1>1. /\ listeners \in Seq(ListenerType) /\ Len(listeners) = Len(Configured)
      /\ \A i \in 1..Len(Configured) : /\ listeners[i].address = Configured[i].address
                                       /\ listeners[i].port = Configured[i].port
                                       /\ listeners[i].open = Configured[i].bootstrap
  BY InitListeners
<1>2. \A a \in Addresses : \/ table[a] = None
                           \/ table[a] \in 1..Len(Configured) /\ Configured[table[a]].address = a
  BY DEF Init, Position
<1>3. TypeOK
  <2>1. table \in [Addresses -> 0..Len(listeners)]
    <3>1. \A a \in Addresses : table[a] \in 0..Len(listeners)
      BY <1>1, <1>2, Numbers DEF None
    <3>2. table = [a \in Addresses |-> table[a]]
      BY DEF Init
    <3> QED BY <3>1, <3>2
  <2>2. counter \in 0..MaxPorts - 1 /\ 0 \in 0..Len(listeners)
    BY <1>1, Numbers DEF Init
  <2>3. call \in [Callers -> Endpoints \cup {NoCall}] /\ answer \in [id : Int, listener : 0..Len(listeners)]
    BY <2>2 DEF Init, None, UnknownBrokerID
  <2> QED BY <1>1, <2>1, <2>2, <2>3 DEF Init, TypeOK
<1>4. TableRoutes
  BY <1>1, <1>2 DEF TableRoutes
<1>5. Dynamic = {}
  BY <1>1, Numbers DEF Dynamic
<1>6. \A i, j \in Open : listeners[i].port = listeners[j].port => i = j
  BY <1>1, ListenersAssumption DEF Open
<1> QED BY <1>3, <1>4, <1>5, <1>6 DEF Inv, PortsInRange, NoOrphanListener

\* Every step preserves it.
LEMMA StepInv == Inv /\ [Next]_vars => Inv'
<1> SUFFICES ASSUME Inv, [Next]_vars PROVE Inv'
  OBVIOUS
<1> USE DEF None
<1>0. TypeOK /\ counter \in 0..MaxPorts - 1
  BY DEF Inv, TypeOK
<1>1. ASSUME NEW c \in Callers, NEW e \in Endpoints, GetNetAddressMapping(c, e)
      PROVE  Inv'
  <2>1. e.address \in Addresses /\ table[e.address] \in 0..Len(listeners)
    BY <1>0 DEF TypeOK, Addresses
  <2>2. UNCHANGED <<mode, template, listeners, table, counter>>
    BY <1>1 DEF GetNetAddressMapping
  <2>3. CASE Return(c, e, table[e.address])
    BY <1>0, <2>1, <2>2, <2>3, ReturnKeeps
  <2>4. CASE call' = [call EXCEPT ![c] = e] /\ UNCHANGED answer
    BY <1>0, <2>2, <2>4, KeepsTables DEF TypeOK
  <2> QED BY <1>1, <2>3, <2>4 DEF GetNetAddressMapping
<1>2. ASSUME NEW c \in Callers, ListenHit(c) PROVE Inv'
  <2>1. call[c] \in Endpoints /\ table[call[c].address] \in 0..Len(listeners)
    BY <1>0, <1>2, Asked DEF TypeOK, ListenHit
  <2> QED BY <1>0, <1>2, <2>1, ReturnKeeps DEF ListenHit
<1>3. ASSUME NEW c \in Callers, DeterministicFails(c) PROVE Inv'
  <2>1. call[c] \in Endpoints /\ None \in 0..Len(listeners)
    BY <1>0, <1>3, Asked DEF TypeOK, DeterministicFails
  <2> QED BY <1>0, <1>3, <2>1, ReturnKeeps DEF DeterministicFails
<1>4. ASSUME NEW c \in Callers, ListenDeterministic(c) PROVE Inv'
  <2>1. call[c].id \in Int
    BY <1>0, <1>4, Asked DEF ListenDeterministic
  <2> QED BY <1>0, <1>4, <2>1, PortArithmetic, Listens DEF ListenDeterministic
<1>5. ASSUME NEW c \in Callers, ListenEphemeral(c) PROVE Inv'
  BY <1>0, <1>5, Listens, ListenersAssumption DEF ListenEphemeral
<1>6. ASSUME NEW c \in Callers, ListenSequential(c) PROVE Inv'
  <2>1. counter \in Int /\ (counter + 1) % MaxPorts \in 0..MaxPorts - 1
    BY <1>0, Numbers
  <2>2. CASE Overflow(counter)
    <3>1. Return(c, call[c], None) /\ UNCHANGED <<mode, template, listeners, table, counter>>
      BY <1>6, <2>2 DEF ListenSequential
    <3>2. call[c] \in Endpoints /\ None \in 0..Len(listeners)
      BY <1>0, <1>6, Asked DEF TypeOK, ListenSequential
    <3> QED BY <1>0, <3>1, <3>2, ReturnKeeps
  <2>3. CASE ~Overflow(counter)
    BY <1>6, <2>1, <2>3, PortArithmetic, Listens DEF ListenSequential
  <2> QED BY <2>2, <2>3
<1>7. ASSUME NEW i \in 1..Len(listeners), AcceptFails(i) PROVE Inv'
  BY <1>7, Closes
<1>8. CASE UNCHANGED vars
  BY <1>0, <1>8, KeepsTables DEF vars, TypeOK
<1> QED BY <1>1, <1>2, <1>3, <1>4, <1>5, <1>6, <1>7, <1>8, Moves DEF Next, ListenDynamicInstance

\* The inductive invariant holds in every reachable state.
THEOREM Invariance == Spec => []Inv
BY InitInv, StepInv, PTL DEF Spec

\* Every variable of the listener table keeps its type: the counter stays below
\* dynamicSequentialMaxPorts and every port fits in a uint16.
THEOREM TypeCorrect == Spec => []TypeOK
BY Invariance, PTL DEF Inv

\* However brokers move and callers race, GetNetAddressMapping answers with a
\* listener that dials the address it was asked for, for as long as it accepts.
THEOREM Routes == Spec => []TableRoutes
BY Invariance, PTL DEF Inv

\* Ports from nextDynamicPort lie in the configured range, also where the range leaves
\* the uint16 space, and no two open listeners share one.
THEOREM PortsKept == Spec => []PortsInRange
BY Invariance, PTL DEF Inv

\* Two callers that miss the same broker open one listener between them, and no listener
\* whose advertised address could be formed drops out of the table.
THEOREM NoneOrphaned == Spec => []NoOrphanListener
BY Invariance, PTL DEF Inv

\* What ListenersKept asks of one step.
KeptStep ==
    \A i \in 1..Len(listeners) :
        /\ Len(listeners') >= i
        /\ listeners'[i].port = listeners[i].port
        /\ listeners'[i].advertised = listeners[i].advertised
        /\ listeners'[i].open => listeners[i].open
        /\ listeners'[i].address # listeners[i].address =>
            /\ [id |-> listeners[i].id, address |-> listeners'[i].address] \in Endpoints
            /\ \A a \in Addresses : table'[a] = i => a # listeners[i].address

\* A step that opens at most one listener keeps the others as they are.
LEMMA AppendKeeps ==
    ASSUME Inv, NEW c \in Callers, NEW ports, Listen(c, ports)
    PROVE  KeptStep
<1>1. Len(listeners) \in Nat /\ listeners \in Seq(ListenerType)
  BY DEF Inv, TypeOK
<1>2. CASE UNCHANGED listeners
  BY <1>1, <1>2 DEF KeptStep
<1>3. ASSUME NEW port, listeners' = Append(listeners, NewListener(c, port))
      PROVE  KeptStep
  <2>1. \A i \in 1..Len(listeners) : listeners'[i] = listeners[i]
    BY <1>1, <1>3
  <2>2. Len(listeners') = Len(listeners) + 1
    BY <1>1, <1>3
  <2> QED BY <1>1, <2>1, <2>2 DEF KeptStep
<1> QED BY <1>2, <1>3 DEF Listen, NewListener

\* A broker that moved keeps its listener's port, and only its own listener moves.
LEMMA MoveKeeps ==
    ASSUME Inv, NEW c \in Callers, ListenMoved(c)
    PROVE  KeptStep
<1> DEFINE new == call[c].address
<1>1. PICK i \in 1..Len(listeners) :
              LET old == listeners[i].address
                  l == listeners[i]
              IN  /\ l.id = call[c].id /\ l \in ListenerType
                  /\ new \in Addresses /\ old # new
                  /\ listeners' = [listeners EXCEPT ![i] = [l EXCEPT !.address = new]]
                  /\ table'[new] = i /\ table'[old] = None
  BY Moving
<1> DEFINE l == listeners[i]
           moved == [l EXCEPT !.address = new]
<1>2. TypeOK /\ call[c] \in Endpoints
  BY Asked DEF Inv, ListenMoved
<1>3. call[c] = [id |-> l.id, address |-> new]
  BY <1>1, <1>2, ListenersAssumption
<1>4. /\ moved \in ListenerType /\ moved.port = l.port /\ moved.address = new
      /\ moved.advertised = l.advertised /\ moved.open = l.open
  BY <1>1 DEF ListenerType
<1> HIDE DEF moved
<1>5. /\ Len(listeners') = Len(listeners) /\ Len(listeners) \in Nat
      /\ listeners'[i] = moved
      /\ \A j \in 1..Len(listeners) : j # i => listeners'[j] = listeners[j]
  <2>1. listeners' = [listeners EXCEPT ![i] = moved] /\ listeners \in Seq(ListenerType)
    BY <1>1, <1>2 DEF moved, TypeOK
  <2> QED BY <1>4, <2>1, Replaced
<1>6. ASSUME NEW a \in Addresses, table'[a] = i PROVE a # l.address
  BY <1>1, <1>6 DEF None
<1>7. [id |-> l.id, address |-> listeners'[i].address] \in Endpoints
  BY <1>2, <1>3, <1>4, <1>5
<1> HIDE DEF new, l
<1>8. ASSUME NEW j \in 1..Len(listeners)
      PROVE  /\ Len(listeners') >= j
             /\ listeners'[j].port = listeners[j].port
             /\ listeners'[j].advertised = listeners[j].advertised
             /\ listeners'[j].open => listeners[j].open
             /\ listeners'[j].address # listeners[j].address =>
                  /\ [id |-> listeners[j].id, address |-> listeners'[j].address] \in Endpoints
                  /\ \A a \in Addresses : table'[a] = j => a # listeners[j].address
  <2>1. CASE j = i
    BY <1>4, <1>5, <1>6, <1>7, <2>1 DEF l
  <2>2. CASE j # i
    BY <1>5, <2>2
  <2> QED BY <2>1, <2>2
<1> QED BY <1>8 DEF KeptStep

\* A listener once given to a client keeps its port and its advertised address, and its
\* broker address changes only to another address of the same broker (ListenDynamicInstance).
THEOREM Kept == Spec => ListenersKept
<1>1. Inv /\ Next => KeptStep
  <2> SUFFICES ASSUME Inv, Next PROVE KeptStep
    OBVIOUS
  <2>1. CASE UNCHANGED listeners
    BY <2>1 DEF KeptStep, Inv, TypeOK
  <2>2. ASSUME NEW c \in Callers, ListenDynamicInstance(c) PROVE KeptStep
    BY <2>1, <2>2, AppendKeeps, MoveKeeps
       DEF ListenDynamicInstance, ListenHit, DeterministicFails, ListenDeterministic,
           ListenEphemeral, ListenSequential
  <2>3. ASSUME NEW i \in 1..Len(listeners), AcceptFails(i) PROVE KeptStep
    BY <2>3, Closing DEF KeptStep, Inv, Open
  <2> QED BY <2>1, <2>2, <2>3 DEF Next, GetNetAddressMapping
<1>2. Inv /\ [Next]_vars => [KeptStep]_vars
  BY <1>1
<1>3. ListenersKept <=> [][KeptStep]_vars
  BY DEF ListenersKept, KeptStep
<1> QED BY <1>2, <1>3, Invariance, PTL DEF Spec

------------------------------------------------------------------------------
(* The table implements AddressMap.  A call that opens a listener learns its *)
(* address, because the double check found it unmapped and the port was not  *)
(* in use; a call that moves one follows the broker, because the table       *)
(* routes each address to its own listener (TableRoutes); an accept that     *)
(* fails takes away one port, because no two open listeners share one        *)
(* (PortsInRange).                                                           *)

\* What stands in for an address is something.
LEMMA StandsIn == \A i : StandIn(i) # Unmapped /\ StandIn(i)[1] = listeners[i].port
BY DEF StandIn, Unmapped

\* A step that leaves listeners and table alone leaves the clients' view alone.
LEMMA SameMap == ASSUME UNCHANGED <<listeners, table>> PROVE UNCHANGED <<AnswerTo, Listening>>
BY DEF AnswerTo, StandIn, Listening, Open

\* A call whose address is unmapped opens a listener on a free port, if any.
LEMMA ListenLearns ==
    ASSUME Inv, NEW c \in Callers, call[c] # NoCall, ~DoubleCheck(c),
           NEW ports \in SUBSET (0..PortSpace - 1), Listen(c, ports)
    PROVE  Promise!Next \/ UNCHANGED <<AnswerTo, Listening>>
<1> DEFINE new == call[c].address
<1>1. CASE UNCHANGED <<listeners, table>>
  BY <1>1, SameMap
<1>2. ASSUME NEW port \in ports \ Taken,
             listeners' = Append(listeners, NewListener(c, port)),
             \/ UNCHANGED table
             \/ template[call[c].id].ok /\ table' = [table EXCEPT ![new] = Len(listeners')]
      PROVE  Promise!Next
  <2> DEFINE n == Len(listeners)
  <2>1. /\ TypeOK /\ listeners \in Seq(ListenerType) /\ n \in Nat
        /\ table \in [Addresses -> 0..n]
        /\ new \in Addresses /\ table[new] = None
        /\ port \in 0..PortSpace - 1 /\ port \notin Listening
    BY Asked DEF Inv, TypeOK, DoubleCheck, Taken
  <2>2. /\ Len(listeners') = n + 1
        /\ listeners'[n + 1] = NewListener(c, port)
        /\ \A i \in 1..n : listeners'[i] = listeners[i]
    BY <1>2, <2>1
  <2>3. /\ listeners'[n + 1].port = port /\ listeners'[n + 1].open
        /\ template[call[c].id].ok => listeners'[n + 1].advertised \in Advertised
    BY <2>1, <2>2, NewListenerType
  <2>4. \A a \in Addresses : table[a] # None => table[a] \in 1..n
    BY <2>1 DEF None
  <2> HIDE DEF n, new
  <2>5. Listening' = Listening \cup {port}
    <3>1. Open' = Open \cup {n + 1}
      BY <2>1, <2>2, <2>3 DEF Open, n
    <3>2. \A i \in Open : i \in 1..n
      BY DEF Open, n
    <3> QED BY <2>2, <2>3, <3>1, <3>2 DEF Listening
  <2>6. CASE UNCHANGED table
    <3>1. \A a \in Addresses : AnswerTo'[a] = AnswerTo[a]
      BY <2>2, <2>4, <2>6 DEF AnswerTo, StandIn
    <3>2. AnswerTo' = AnswerTo
      BY <3>1 DEF AnswerTo
    <3>3. Promise!Waste(port)
      BY <2>1, <2>5, <3>2 DEF Promise!Waste
    <3> QED BY <2>1, <3>3 DEF Promise!Next
  <2>7. CASE template[call[c].id].ok /\ table' = [table EXCEPT ![new] = n + 1]
    <3> DEFINE told == listeners'[n + 1].advertised
    <3>1. AnswerTo[new] = Unmapped
      BY <2>1 DEF AnswerTo
    <3>2. n + 1 # None
      BY <2>1 DEF None
    <3>3. ASSUME NEW a \in Addresses
          PROVE  AnswerTo'[a] = IF a = new THEN <<port, told>> ELSE AnswerTo[a]
      <4>1. CASE a = new
        <5>1. table'[a] = n + 1
          BY <2>1, <2>7, <4>1
        <5> QED BY <2>3, <3>2, <4>1, <5>1 DEF AnswerTo, StandIn
      <4>2. CASE a # new
        <5>1. table'[a] = table[a]
          BY <2>1, <2>7, <4>2
        <5> QED BY <2>2, <2>4, <4>2, <5>1 DEF AnswerTo, StandIn
      <4> QED BY <4>1, <4>2
    <3>4. AnswerTo'[new] = <<port, told>> /\ told \in Advertised
      BY <2>1, <2>3, <2>7, <3>3
    <3> HIDE DEF told
    <3>5. AnswerTo' = [AnswerTo EXCEPT ![new] = AnswerTo'[new]]
      BY <3>3, <3>4 DEF AnswerTo
    <3>6. AnswerTo'[new] \in (0..PortSpace - 1) \X Advertised /\ AnswerTo'[new][1] = port
      BY <2>1, <3>4
    <3>7. Promise!Learn(new)
      BY <2>1, <2>5, <3>1, <3>5, <3>6 DEF Promise!Learn
    <3> QED BY <2>1, <3>7 DEF Promise!Next
  <2> QED BY <1>2, <2>2, <2>6, <2>7 DEF n
<1> QED BY <1>1, <1>2 DEF Listen, NewListener

\* A broker that moved takes its stand-in along.
LEMMA MoveFollows ==
    ASSUME Inv, NEW c \in Callers, ListenMoved(c)
    PROVE  Promise!Next
<1> DEFINE new == call[c].address
<1>1. PICK i \in 1..Len(listeners) :
              LET old == listeners[i].address
                  l == listeners[i]
              IN  /\ l \in ListenerType
                  /\ old \in Addresses /\ new \in Addresses /\ old # new
                  /\ table[old] = i /\ table[new] = None
                  /\ \A a \in Addresses : table[a] = i => a = old
                  /\ listeners' = [listeners EXCEPT ![i] = [l EXCEPT !.address = new]]
                  /\ table'[new] = i /\ table'[old] = None
                  /\ \A a \in Addresses : a # old /\ a # new => table'[a] = table[a]
  BY Moving
<1> DEFINE l == listeners[i]
           old == l.address
           moved == [l EXCEPT !.address = new]
<1>2. /\ moved \in ListenerType /\ moved.port = l.port
      /\ moved.advertised = l.advertised /\ moved.open = l.open
  BY <1>1 DEF ListenerType
<1> HIDE DEF moved
<1>3. /\ Len(listeners') = Len(listeners) /\ Len(listeners) \in Nat
      /\ listeners'[i] = moved
      /\ \A j \in 1..Len(listeners) : j # i => listeners'[j] = listeners[j]
  <2>1. listeners' = [listeners EXCEPT ![i] = moved] /\ listeners \in Seq(ListenerType)
    BY <1>1 DEF moved, Inv, TypeOK
  <2> QED BY <1>2, <2>1, Replaced
<1>4. \A j \in 1..Len(listeners) : /\ listeners'[j].port = listeners[j].port
                                   /\ listeners'[j].advertised = listeners[j].advertised
                                   /\ listeners'[j].open = listeners[j].open
  BY <1>2, <1>3
<1>5. UNCHANGED Listening
  <2>1. Open' = Open /\ Open \subseteq 1..Len(listeners)
    BY <1>3, <1>4 DEF Open
  <2> QED BY <1>4, <2>1 DEF Listening
<1>6. \A j \in 1..Len(listeners) : StandIn(j)' = StandIn(j)
  BY <1>4 DEF StandIn
<1>7. /\ old \in Addresses /\ new \in Addresses /\ old # new
      /\ table[old] = i /\ table[new] = None /\ i # None
      /\ table'[new] = i /\ table'[old] = None
      /\ \A a \in Addresses : a # old /\ a # new => table'[a] = table[a]
      /\ \A a \in Addresses : table[a] # None => table[a] \in 1..Len(listeners)
  BY <1>1, <1>3 DEF None, Inv, TypeOK
<1> HIDE DEF old, new, l
<1>8. AnswerTo[old] = StandIn(i) /\ AnswerTo[old] # Unmapped /\ AnswerTo[new] = Unmapped
  BY <1>7, StandsIn DEF AnswerTo
<1>9. ASSUME NEW a \in Addresses
      PROVE  AnswerTo'[a] = IF a = new THEN AnswerTo[old] ELSE IF a = old THEN Unmapped ELSE AnswerTo[a]
  <2>1. CASE a = new
    <3>1. AnswerTo'[a] = StandIn(i)'
      BY <1>7, <2>1 DEF AnswerTo
    <3> QED BY <1>6, <1>8, <2>1, <3>1
  <2>2. CASE a = old
    BY <1>7, <2>2 DEF AnswerTo
  <2>3. CASE a # new /\ a # old
    BY <1>6, <1>7, <2>3 DEF AnswerTo, StandIn
  <2> QED BY <2>1, <2>2, <2>3
<1>10. AnswerTo' = [AnswerTo EXCEPT ![old] = Unmapped, ![new] = AnswerTo[old]]
  BY <1>7, <1>9 DEF AnswerTo
<1>11. Promise!Follow(old, new)
  BY <1>5, <1>8, <1>10 DEF Promise!Follow
<1> QED BY <1>7, <1>11 DEF Promise!Next

\* An accept that fails takes one port away and no answer.
LEMMA CloseDies ==
    ASSUME Inv, NEW i \in 1..Len(listeners), AcceptFails(i)
    PROVE  Promise!Next
<1> DEFINE p == listeners[i].port
<1>1. TypeOK /\ table' = table
  BY DEF Inv, AcceptFails
<1>2. /\ Len(listeners') = Len(listeners) /\ Len(listeners) \in Nat
      /\ i \in Open /\ ~listeners'[i].open
      /\ \A j \in 1..Len(listeners) :
            /\ listeners'[j].port = listeners[j].port
            /\ listeners'[j].advertised = listeners[j].advertised
            /\ j # i => listeners'[j].open = listeners[j].open
  BY <1>1, Closing
<1>3. Open' = Open \ {i} /\ Open \subseteq 1..Len(listeners)
  BY <1>2 DEF Open
<1>4. \A j \in Open : listeners[j].port = p => j = i
  BY <1>2 DEF Inv, PortsInRange
<1>5. Listening' = Listening \ {p} /\ p \in Listening
  BY <1>2, <1>3, <1>4 DEF Listening
<1>6. \A j \in 1..Len(listeners) : StandIn(j)' = StandIn(j)
  BY <1>2 DEF StandIn
<1>7. AnswerTo' = AnswerTo
  BY <1>1, <1>6 DEF AnswerTo, TypeOK, None
<1>8. p \in 0..PortSpace - 1
  <2>1. listeners[i] \in ListenerType
    BY <1>1 DEF TypeOK
  <2> QED BY <2>1 DEF ListenerType
<1> HIDE DEF p
<1>9. Promise!Die(p)
  BY <1>5, <1>7 DEF Promise!Die
<1> QED BY <1>8, <1>9 DEF Promise!Next

\* The clients' view of the configured mappings.
LEMMA InitPromise == Init => Promise!Init
<1> SUFFICES ASSUME Init PROVE Promise!Init
  OBVIOUS
<1>1. TypeOK
  BY InitInv DEF Inv
<1>2. Listening \subseteq 0..PortSpace - 1
  <2>1. \A i \in 1..Len(listeners) : listeners[i] \in ListenerType
    BY <1>1 DEF TypeOK
  <2> QED BY <2>1 DEF Listening, Open, ListenerType
<1>3. ASSUME NEW a \in Addresses, table[a] # None
      PROVE  StandIn(table[a]) \in (0..PortSpace - 1) \X Advertised
  <2>1. table[a] \in 1..Len(Configured)
    BY <1>1, <1>3, InitListeners DEF TypeOK, None
  <2>2. listeners[table[a]].advertised \in Advertised /\ listeners[table[a]].port = Configured[table[a]].port
    BY <2>1, InitListeners
  <2>3. listeners[table[a]].port \in 0..PortSpace - 1
    BY <2>1, <2>2, ListenersAssumption
  <2> QED BY <2>2, <2>3 DEF StandIn
<1>4. AnswerTo \in [Addresses -> ((0..PortSpace - 1) \X Advertised) \cup {Unmapped}]
  BY <1>3 DEF AnswerTo
<1> QED BY <1>2, <1>4 DEF Promise!Init

\* Every step of the listener table is a step of the map it promises its clients, or
\* leaves that map alone: the locked table implements AddressMap.
THEOREM Refines == Spec => AddressesPromised
<1>1. Inv /\ [Next]_vars => [Promise!Next]_<<AnswerTo, Listening>>
  <2> SUFFICES ASSUME Inv, [Next]_vars PROVE Promise!Next \/ UNCHANGED <<AnswerTo, Listening>>
    OBVIOUS
  <2>1. CASE UNCHANGED vars
    BY <2>1, SameMap DEF vars
  <2>2. ASSUME NEW c \in Callers, NEW e \in Endpoints, GetNetAddressMapping(c, e)
        PROVE  UNCHANGED <<AnswerTo, Listening>>
    BY <2>2, SameMap DEF GetNetAddressMapping
  <2>3. ASSUME NEW c \in Callers, ListenDynamicInstance(c)
        PROVE  Promise!Next \/ UNCHANGED <<AnswerTo, Listening>>
    <3>1. CASE ListenHit(c) \/ DeterministicFails(c)
      BY <3>1, SameMap DEF ListenHit, DeterministicFails
    <3>2. CASE ListenMoved(c)
      BY <3>2, MoveFollows
    <3>3. CASE ListenDeterministic(c)
      <4>1. call[c].id \in Int
        BY <3>3, Asked DEF ListenDeterministic, Inv
      <4>2. {nextDynamicPort(call[c].id)} \in SUBSET (0..PortSpace - 1)
        BY <4>1, PortArithmetic
      <4> QED BY <3>3, <4>2, ListenLearns DEF ListenDeterministic
    <3>4. CASE ListenEphemeral(c)
      BY <3>4, ListenLearns, ListenersAssumption DEF ListenEphemeral
    <3>5. CASE ListenSequential(c)
      <4>1. counter \in Int
        BY Numbers DEF Inv, TypeOK
      <4>2. {nextDynamicPort(counter)} \in SUBSET (0..PortSpace - 1)
        BY <4>1, PortArithmetic
      <4> QED BY <3>5, <4>2, ListenLearns, SameMap DEF ListenSequential
    <3> QED BY <2>3, <3>1, <3>2, <3>3, <3>4, <3>5 DEF ListenDynamicInstance
  <2> QED BY <2>1, <2>2, <2>3, CloseDies DEF Next
<1> QED BY <1>1, InitPromise, Invariance, PTL DEF Spec, AddressesPromised, Promise!Spec
=============================================================================
