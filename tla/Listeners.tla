------------------------------ MODULE Listeners ------------------------------
(***************************************************************************)
(* The listener table of proxy/proxy.go: GetNetAddressMapping, called by   *)
(* every response loop for every broker in a metadata or coordinator       *)
(* reply, and ListenDynamicInstance, which opens a listener for a broker   *)
(* address met for the first time.  The table is read under the read lock  *)
(* and changed under the write lock; between the two another caller may    *)
(* run.                                                                    *)
(*                                                                         *)
(* A ListenerConfig is a position in `listeners': configs are shared by    *)
(* pointer between the table and the accept loop, and never freed.  All    *)
(* listeners are on one local address, so that a port identifies one.      *)
(*                                                                         *)
(* External: the operating system (which ports are free, when an accept    *)
(* fails) and the cluster (which broker id is met at which address).       *)
(***************************************************************************)
EXTENDS Integers, Sequences, FiniteSets

CONSTANTS
    Callers,        \* the response loops
    Endpoints,      \* records [id, address] the broker's replies may name
    Configured,     \* sequence of [address, port, advertised, bootstrap]: bootstrap
                    \* and external mappings
    Modes,          \* the configurations to consider
    MinPort,        \* dynamicSequentialMinPort, where the mode has one
    MaxPorts,       \* dynamicSequentialMaxPorts
    PortSpace,      \* number of uint16 values (2^16 in the code)
    EphemeralPorts, \* external: ports the operating system hands out
    BusyPorts,      \* external: ports other programs hold
    Templates,      \* the advertised-address templates to consider: what each makes
                    \* of a broker id, [ok, host, port]
    MaxClosed       \* bound: listeners that are not open

Addresses == {e.address : e \in Endpoints} \cup {Configured[i].address : i \in 1..Len(Configured)}
Ids == {e.id : e \in Endpoints}
NoPort == -1   \* the template names no port
UnknownBrokerID == -1
NoCall == [id |-> UnknownBrokerID, address |-> ""]
Position(a) == {i \in 1..Len(Configured) : Configured[i].address = a}

\* Config.Validate: a dynamic port range is never empty.  ListenInstances opens one
\* listener for each bootstrap server, or the program does not start.
ASSUME ListenersAssumption ==
    /\ NoCall \notin Endpoints   \* GetNetAddressMapping refuses an empty host
    /\ \A e \in Endpoints : e.id \in Int /\ e = [id |-> e.id, address |-> e.address]
    /\ Len(Configured) \in Nat
    /\ \A i \in 1..Len(Configured) :
            Configured[i].port \in 0..PortSpace - 1 /\ Configured[i].bootstrap \in BOOLEAN
    /\ \A i, j \in 1..Len(Configured) :
            \/ Configured[i].address = Configured[j].address
            \/ /\ Configured[i].bootstrap /\ Configured[j].bootstrap
               /\ Configured[i].port = Configured[j].port
            => i = j
    /\ Modes \subseteq {"deterministic", "sequential", "ephemeral", "disabled"}
    /\ PortSpace \in Nat \ {0}
    /\ MinPort \in 1..PortSpace - 1 /\ MaxPorts \in 1..PortSpace - 1
    /\ EphemeralPorts \subseteq 0..PortSpace - 1 /\ BusyPorts \subseteq 0..PortSpace - 1
    /\ \A t \in Templates : t \in [Ids -> [ok : BOOLEAN, host : STRING, port : Int]]
    /\ MaxClosed \in Nat

VARIABLES
    mode,       \* deterministicListeners, disableDynamicListeners, and MinPort > 0
    template,   \* dynamicAdvertisedListener
    listeners,  \* the listener configs: port, broker id, current broker address,
                \* advertised address, and whether the accept loop runs
    table,      \* brokerToListenerConfig: address -> position in listeners, or None
    counter,    \* currentDynamicPortCounter, modulo MaxPorts
    call,       \* the endpoint each caller wants a listener for, or NoCall
    answer      \* the last answer: the broker id asked for, and a listener or None

vars == <<mode, template, listeners, table, counter, call, answer>>

None == 0

NoAddress == [host |-> "", port |-> NoPort]   \* AdvertisedAddress before it is set

Listener(port, id, address, advertised, open) ==
    [port |-> port, id |-> id, address |-> address, advertised |-> advertised, open |-> open]
Open == {i \in 1..Len(listeners) : listeners[i].open}
Listening == {listeners[i].port : i \in Open}
Taken == Listening \cup BusyPorts

------------------------------------------------------------------------------
\* getBrokerToListenerConfig: the configured mappings (conflicting ones refuse to
\* start) are in the table from the start and do not know their broker's id.
\* ListenInstances: the proxy listens for the bootstrap servers only.
Init ==
    /\ mode \in Modes
    /\ template \in Templates
    /\ listeners = [i \in 1..Len(Configured) |->
                        LET m == Configured[i]
                        IN  Listener(m.port, UnknownBrokerID, m.address, m.advertised, m.bootstrap)]
    /\ table = [a \in Addresses |-> IF Position(a) = {} THEN None ELSE CHOOSE i \in Position(a) : TRUE]
    /\ counter = 0
    /\ call = [c \in Callers |-> NoCall]
    /\ answer = [id |-> UnknownBrokerID, listener |-> None]

\* The call for e returns, with listener i or (None) with an error.
Return(c, e, i) ==
    /\ call' = [call EXCEPT ![c] = NoCall]
    /\ answer' = [id |-> e.id, listener |-> i]

\* GetNetAddressMapping, up to the release of the read lock.
GetNetAddressMapping(c, e) ==
    /\ call[c] = NoCall
    /\ IF table[e.address] # None \/ mode = "disabled"
       THEN Return(c, e, table[e.address])
       ELSE call' = [call EXCEPT ![c] = e] /\ UNCHANGED answer
    /\ UNCHANGED <<mode, template, listeners, table, counter>>

\* Mutant: the sum is taken in a wider type, where it cannot overflow.
nextDynamicPortWide(offset) == MinPort + (offset % MaxPorts)

\* nextDynamicPort.  The sum is taken in uint16; an overflow shows as a port
\* below MinPort and is an error.
nextDynamicPort(offset) == (MinPort + (offset % MaxPorts)) % PortSpace

\* Mutant: the overflow is not noticed.
OverflowUnchecked(offset) == FALSE

Overflow(offset) == nextDynamicPort(offset) < MinPort

\* Mutant: the double check after taking the write lock is left out.
DoubleCheckMissing(c) == FALSE

\* ListenDynamicInstance: another caller opened the listener meanwhile.
DoubleCheck(c) == table[call[c].address] # None
ListenHit(c) ==
    /\ call[c] # NoCall
    /\ DoubleCheck(c)
    /\ Return(c, call[c], table[call[c].address])
    /\ UNCHANGED <<mode, template, listeners, table, counter>>

\* findListenerConfig: the configs in the table with this broker id.
findListenerConfig(id) == {table[a] : a \in {b \in Addresses :
                                table[b] # None /\ listeners[table[b]].id = id}}

\* Deterministic mode: no broker id, or no port for it.
DeterministicFails(c) ==
    /\ call[c] # NoCall /\ ~DoubleCheck(c)
    /\ mode = "deterministic"
    /\ call[c].id < 0 \/ Overflow(call[c].id)
    /\ Return(c, call[c], None)
    /\ UNCHANGED <<mode, template, listeners, table, counter>>

\* Mutant: the old address stays in the table.
MoveListenerKeepsKey(c, i) ==
    /\ listeners' = [listeners EXCEPT ![i].address = call[c].address]
    /\ table' = [table EXCEPT ![call[c].address] = i]

\* The broker moved: its listener follows it.
MoveListener(c, i) ==
    /\ listeners' = [listeners EXCEPT ![i].address = call[c].address]
    /\ table' = [table EXCEPT ![listeners[i].address] = None, ![call[c].address] = i]

\* Deterministic mode: the broker id has a listener, at another address.
ListenMoved(c) ==
    /\ call[c] # NoCall /\ ~DoubleCheck(c)
    /\ mode = "deterministic"
    /\ call[c].id >= 0 /\ ~Overflow(call[c].id)
    /\ \E i \in findListenerConfig(call[c].id) :
            /\ MoveListener(c, i)
            /\ Return(c, call[c], i)
    /\ UNCHANGED <<mode, template, counter>>

\* getDynamicAdvertisedAddress: the template's host, and its port if it names one.
AdvertisedBy(t, port) == [host |-> t.host, port |-> IF t.port = NoPort THEN port ELSE t.port]
getDynamicAdvertisedAddress(id, port) ==
    IF template[id].ok THEN AdvertisedBy(template[id], port) ELSE NoAddress

\* listenInstance on one of these ports, and the end of ListenDynamicInstance.  The
\* advertised address is computed once the listener is open: an error there leaves
\* the listener open and out of the table.
Listen(c, ports) ==
    IF ports \subseteq Taken
    THEN Return(c, call[c], None) /\ UNCHANGED <<listeners, table>>
    ELSE \E port \in ports \ Taken :
            /\ listeners' = Append(listeners,
                    Listener(port, call[c].id, call[c].address,
                             getDynamicAdvertisedAddress(call[c].id, port), TRUE))
            /\ IF template[call[c].id].ok
               THEN /\ table' = [table EXCEPT ![call[c].address] = Len(listeners')]
                    /\ Return(c, call[c], Len(listeners'))
               ELSE Return(c, call[c], None) /\ UNCHANGED table

ListenDeterministic(c) ==
    /\ call[c] # NoCall /\ ~DoubleCheck(c)
    /\ mode = "deterministic"
    /\ call[c].id >= 0 /\ ~Overflow(call[c].id)
    /\ findListenerConfig(call[c].id) = {}
    /\ Listen(c, {nextDynamicPort(call[c].id)})
    /\ UNCHANGED <<mode, template, counter>>

ListenEphemeral(c) ==
    /\ call[c] # NoCall /\ ~DoubleCheck(c)
    /\ mode = "ephemeral"
    /\ Listen(c, EphemeralPorts)
    /\ UNCHANGED <<mode, template, counter>>

\* Mutant: the counter moves on only when the port could be opened.
ListenSequentialStays(c) ==
    /\ call[c] # NoCall /\ ~DoubleCheck(c)
    /\ mode = "sequential"
    /\ IF Overflow(counter)
       THEN Return(c, call[c], None) /\ UNCHANGED <<listeners, table, counter>>
       ELSE /\ counter' = IF nextDynamicPort(counter) \in Taken THEN counter ELSE (counter + 1) % MaxPorts
            /\ Listen(c, {nextDynamicPort(counter)})
    /\ UNCHANGED <<mode, template>>

\* The counter moves on whether or not the port can be opened, but not past an
\* overflow.
ListenSequential(c) ==
    /\ call[c] # NoCall /\ ~DoubleCheck(c)
    /\ mode = "sequential"
    /\ IF Overflow(counter)
       THEN Return(c, call[c], None) /\ UNCHANGED <<listeners, table, counter>>
       ELSE /\ counter' = (counter + 1) % MaxPorts
            /\ Listen(c, {nextDynamicPort(counter)})
    /\ UNCHANGED <<mode, template>>

ListenDynamicInstance(c) ==
    \/ ListenHit(c) \/ DeterministicFails(c) \/ ListenMoved(c)
    \/ ListenDeterministic(c) \/ ListenEphemeral(c) \/ ListenSequential(c)

\* listenInstance's goroutine: an error of Accept closes the listener and ends the
\* loop.  Nobody else is told, and the table stays as it is.
AcceptFails(i) ==
    /\ i \in Open
    /\ Len(listeners) - Cardinality(Open) < MaxClosed
    /\ listeners' = [listeners EXCEPT ![i].open = FALSE]
    /\ UNCHANGED <<mode, template, table, counter, call, answer>>

Next ==
    \/ \E c \in Callers :
        \/ \E e \in Endpoints : GetNetAddressMapping(c, e)
        \/ ListenDynamicInstance(c)
    \/ \E i \in 1..Len(listeners) : AcceptFails(i)

Spec == Init /\ [][Next]_vars

\* A call that began ends, and clients keep asking for every broker: metadata is
\* refreshed periodically and again after every lost connection.
FairSpec ==
    /\ Spec
    /\ WF_vars(\E c \in Callers : ListenDynamicInstance(c))
    /\ \A a \in {e.address : e \in Endpoints} :
        SF_vars(\E c \in Callers, e \in Endpoints : e.address = a /\ GetNetAddressMapping(c, e))
------------------------------------------------------------------------------
(* Properties.                                                              *)

Dynamic == Len(Configured) + 1..Len(listeners)

\* The addresses clients may be told.
Advertised ==
    {Configured[i].advertised : i \in 1..Len(Configured)} \cup
    {AdvertisedBy(t[id], port) : t \in Templates, id \in Ids, port \in 0..PortSpace - 1}

ListenerType == [port : 0..PortSpace - 1, id : Int, address : Addresses,
                 advertised : Advertised \cup {NoAddress}, open : BOOLEAN]

\* Every variable keeps its type.
TypeOK ==
    /\ mode \in Modes /\ template \in Templates
    /\ listeners \in Seq(ListenerType)
    /\ table \in [Addresses -> 0..Len(listeners)]
    /\ counter \in 0..MaxPorts - 1
    /\ call \in [Callers -> Endpoints \cup {NoCall}]
    /\ answer \in [id : Int, listener : 0..Len(listeners)]

\* However brokers move and callers race, the listener the table gives for an address
\* is one that dials that address, for as long as it accepts connections.
TableRoutes == \A a \in Addresses : table[a] # None => listeners[table[a]].address = a

\* Two callers that miss the same address open one listener between them, and a
\* listener that moved is still found: every listener that clients can be told of is in
\* the table.  The only others are those whose advertised address could not be formed.
NoOrphanListener ==
    \A i \in Dynamic : listeners[i].advertised # NoAddress => \E a \in Addresses : table[a] = i

\* All ports allocated from the range lie in the half open interval
\* [MinPort, MinPort + MaxPorts), also where the interval leaves the uint16 space,
\* and no two open listeners share one.
PortsInRange ==
    /\ mode \in {"deterministic", "sequential"} => \A i \in Dynamic :
            listeners[i].port >= MinPort /\ listeners[i].port < MinPort + MaxPorts
    /\ \A i, j \in Open : listeners[i].port = listeners[j].port => i = j

\* A listener given to a client keeps its port and its advertised address, and is not
\* opened again once closed; its broker address changes only to another address of the
\* same broker id, and the old address is then no longer answered with it.
ListenersKept ==
    [][\A i \in 1..Len(listeners) :
        /\ Len(listeners') >= i
        /\ listeners'[i].port = listeners[i].port
        /\ listeners'[i].advertised = listeners[i].advertised
        /\ listeners'[i].open => listeners[i].open
        /\ listeners'[i].address # listeners[i].address =>
            /\ [id |-> listeners[i].id, address |-> listeners'[i].address] \in Endpoints
            /\ \A a \in Addresses : table'[a] = i => a # listeners[i].address]_vars

\* What stands in for a broker address: the port the proxy opened for it and the
\* address that clients are told.
Unmapped == <<>>
StandIn(i) == <<listeners[i].port, listeners[i].advertised>>
AnswerTo == [a \in Addresses |-> IF table[a] = None THEN Unmapped ELSE StandIn(table[a])]
Promise == INSTANCE AddressMap
    WITH Ports <- 0..PortSpace - 1, map <- AnswerTo, live <- Listening

\* Seen by the clients, the locked table with its racing callers, moving brokers and
\* failing accepts is a map that learns addresses on ports not in use, follows brokers
\* and otherwise keeps every answer.
AddressesPromised == Promise!Spec

\* Sequential mode steps over ports that cannot be opened, and a range that leaves
\* the uint16 space is used up to its last port: an address that is asked for again
\* and again gets its listener as long as the range has enough free ports and the
\* template can be executed.
EveryBrokerMapped ==
    mode = "sequential" /\ (\A id \in Ids : template[id].ok)
        ~> \A a \in Addresses : table[a] # None

\* The flag's help: "listener port = min port + broker id".
DeterministicPort ==
    mode = "deterministic" /\ answer.id >= 0 /\ answer.listener \in Dynamic =>
        listeners[answer.listener].port = nextDynamicPort(answer.id)
=============================================================================
