# A verification development for kafka-gcp-proxy

kafka-gcp-proxy sits between Kafka clients and a managed Kafka cluster.  Clients
talk plaintext to local listeners; the proxy dials the broker, authenticates with
SASL/OAUTHBEARER, forwards requests and replies, rewrites broker addresses in the
replies so that clients come back through the proxy, and re-authenticates live
connections before the broker's session expires (KIP-368).  This directory holds
TLA+ modules of that program, the TLC configurations that check them, and TLAPS
proofs.  `PROJECT.json` lists runs, mutants, the map from definitions to source
lines, findings, hazards and theorems.

## 1. Inventory

| Part | Source | State | Operations | Modules |
|---|---|---|---|---|
| Connection processor | `proxy/processor.go`, `processor_default.go`, `processor_sasl_auth_v0.go`, `copyThenClose` in `common.go` | three channels (`openRequests`, `nextRequestHandler`, `nextResponseHandler`), the in-flight flag, `firstErr`, two sockets | the request loop and the response loop with their handlers, `runReauth`, `enqueueReauthMarker`, `consumeReauthResponse`, the teardown | `Processor`, `ClientView`, `ProcessorProofs`, `ProcessorPairing`, `ProcessorDelivery` |
| Re-auth timing | `ConnectionAuthState` in `processor.go`, its callers in `processor_default.go` | `reauthAt`, `inFlight`, `inFlightDeadline`, the socket's read deadline | `NeedsReauth`, `NextReadDeadline`, `MarkInFlight`, `InFlightExpired`, `CompleteReauth` | `ReauthTimer`, `ReauthTimerProofs` |
| Token provider | `pkg/libs/google-access-token-provider/plugin.go` | the token all connections share, inside `oauth2.ReuseTokenSource` | `NewTokenProvider`, `GetToken`, `wrapForManagedKafka` | `TokenProvider` |
| Listeners | `proxy/proxy.go`, `proxy_config.go` | `brokerToListenerConfig` behind a RWMutex, `currentDynamicPortCounter`, the listener configs | `GetNetAddressMapping`, `ListenDynamicInstance`, `nextDynamicPort`, `findListenerConfig` | `Listeners`, `AddressMap`, `ListenersProofs` |
| Client and connection set | `proxy/client.go`, `ConnSet` in `common.go`, the run group in `cmd/kafka-proxy/server.go` | `connSrc` (capacity 1), `stopRun`, `ConnSet.m`, two sockets per connection | accept loops, `Run`, `Close`, `handleConn`, `DialAndAuth`, `ConnSet.Add/Remove/Close` | `Client`, `ClientProofs` |
| First authentication | `sasl_by_proxy.go`, `sasl_oauthbearer.go` | none of its own | token, handshake, authenticate | steps of `Client`, `Init` of `ReauthTimer`, messages in `Requests` |
| Request forwarding | `handleRequest`, `mustReply` in `processor_default.go`, `copySaslAuthRequest`, `request_key_version.go`, `request_produce_reader.go` | none of its own: the request in hand and what the acks reader took of it | header checks, `RequestAcksReader`, `myCopyN`, the re-auth messages | `Requests`, `RequestsProofs` |
| Response rewriting, codec, reply headers | `proxy/protocol/`, `handleResponse` in `processor_default.go` | none of its own: the header, tagged fields and body of the reply in hand | `MaybeRead`, `Apply`, `modifyMetadataResponse`, `modifyFindCoordinatorResponse`, `DecodeSchema`, `EncodeSchema`, `consumeReauthResponse`, `copySaslAuthResponse` | `Codec`, `Replies`, `RepliesProofs` |
| Registry, dialer/TLS/TCP options, metrics, configuration, file watcher | `pkg/`, `dial.go`, `tls.go`, `tcp.go`, `collector.go`, `config/`, `cmd/` | caches and settings | I/O | not modelled |

How they interact.  An accept loop (one per listener) puts a connection into
`connSrc`; `Client.Run` starts a goroutine per connection, which dials,
authenticates, registers the connection in the `ConnSet` and runs `copyThenClose`:
one goroutine for the request loop, the caller for the response loop.  The two
loops share the channels of the processor and the `ConnectionAuthState` (behind a
mutex).  The response loop calls `GetNetAddressMapping` for every broker named in a
metadata or coordinator reply; that may open a listener, whose accept loop feeds
`connSrc` again.  A shutdown (signal, or a failing HTTP server) closes `stopRun`,
`Run` returns after `ConnSet.Close`.

What is hard here:

- **pairing**: nothing but the order of two queues ties a broker's reply to the
  request it answers, and the handler queue leads the marker queue by one entry.
  Re-auth inserts two requests of the proxy's own into that order, from the
  request loop, without blocking;
- **time**: a read deadline is chosen before a read during which the state it was
  derived from changes; the in-flight cushion races the answer; a token fetch has
  no place in the arithmetic;
- **teardown**: two goroutines end in any order, one error channel of capacity one
  decides who closes;
- **shared tables**: check under a read lock, act under a write lock; broker
  addresses and broker ids change their partners over time;
- **limits**: channel capacities, uint16 ports, a port range with busy ports;
- **shared credentials**: one cached token serves every connection, and a session can
  last no longer than the token it was opened with;
- **framing**: part of a Produce request is read ahead to learn whether it will be
  answered, in a layout that depends on its version; a rewritten reply has a new length, its layout depends on api and
  version, and one wrong byte count shifts every later message of the connection.

## 2. Modules

### Processor (one connection, no clock)

`pc` says where each of the two loops is; one action per channel operation, socket
operation or mutex section, so that the loops interleave wherever the Go scheduler
can switch them and it matters.  The three channels are bounded sequences with the
capacities of `newProcessor`.  A frame is its kind (`Other`, `ProduceAcks0`,
`SaslHandshakeV0/V1`, `SaslAuthenticate`, or `Raw` for a bare SASL v0 token), its
correlation id and `num`, an auxiliary number in wire order that no guard reads.
`wire` is what the broker has been sent and has not answered.  Every timer may fire
whenever the code waits on it, every read and write may fail.  The broker is
external: it answers in order, never answers acks=0, and answers a raw token with an
empty message.

Names: `NextRequest`/`InFlightExpired` are the head of `requestsLoop`;
`ReadRequest`, `SendMarker`, `WriteRequest`, `PutResponseHandler` are
`DefaultRequestHandler.handleRequest`; `StartReauth` ... `ReauthDone` are
`runReauth` with its two legs; `GetNextResponseHandler`, `ReadReply`,
`ReceiveMarker`, `ForwardReply` and the `Complete...` actions are the response
side; `PublishError`, `CloseRemote`, `CloseLocal` are `copyThenClose`.

### ClientView

What a client may rely on: one reply per request, in order, nothing else, until the
connection closes.  `Processor`'s `ClientSpec` is this specification under the
identity mapping of `sent`, `delivered` and `localOpen`.

### ReauthTimer and TokenProvider (one connection, with a clock)

The same request loop reduced to what touches time.  A moment is held as the number
of ticks until it (0 now, -1 past, `Never` the zero time), so the state space is
finite without a bound on the clock.  `scaleSessionLifetime`, the cushion and the
read deadline are computed as in the code.  The environment's delays (a copy that
blocks, a token fetch, the broker's answer) are bounded by named constants.

`TokenProvider` is the provider the connections share: one cached token, handed out
until `ExpiryDelta` before its end.  `ReauthTimer` instantiates it as `Provider`,
with the same `cached`: `Init` is a first authentication with a token it holds valid,
`WriteReauth` presents what `GetToken` returns, `RefreshElsewhere` is another
connection that gets there first.  The broker (external) refuses a token that has
expired and grants at most what is left of the token it accepts (`Granted`), or less
(`SessionLimits`); with a limit of 0 it does not ask for re-authentication.

### Listeners

Callers (response loops) ask for an endpoint (broker id and address); the lookup
under the read lock and the rest under the write lock are two actions.  Configs are
positions in a sequence because the code shares them by pointer between the table
and the accept loop.  A config has the port it listens on, the advertised address that
clients are told, and whether its accept loop runs (`open`).  External mappings are in
the table and have no listener of the proxy's.  A template makes the advertised address
from the broker id, with or without a port of its own, and may fail for a broker: the
listener is then open and in no table.  `AcceptFails` is the accept error of
`listenInstance`: the port is free again, the table entry stays.  Ports are computed
modulo `PortSpace` (2^16 in the code).  Mode and template are variables that never
change, so one run covers all of them.

`AddressMap` is what the table promises a client: a partial map from broker addresses
to what stands in for them, a port of the proxy and the address clients are told, and
the set of ports that accept connections.  It learns an address on a port not in use or
lets a stand-in follow a broker; a port may be opened that no client is told of, and a
port may die; nothing else changes.  In particular an answer is kept when its port
dies, which is what the code does.  The refinement mapping is `AnswerTo` for the map and
`Listening` for the live ports; `AddressesPromised` says that `Listeners` implements it.
Callers, locks, busy ports and the counter are not visible through the mapping.

### Client

Every connection is at a place of `handleConn`; `closer` is the second goroutine of
its `copyThenClose`.  An accept that fails closes the listener (`AcceptFails`), and the
clients it has not accepted do not get in.  The loops themselves end at any moment (Processor says why and
how); what is modelled here is who closes what, and what the `ConnSet` holds
meanwhile.

### Requests

`DefaultRequestHandler.handleRequest` and `copySaslAuthRequest` on the stream of one
client, one action per read, write or queue operation: header, the part of a Produce
request `RequestAcksReader` takes, the marker, the two writes, the copy in pieces of
any size, the handler chosen for what follows, and a re-auth: its two writes and its two
markers are four steps.  The read deadline may pass at any cell of a header
(`ReadTimesOut`); the cells read so far are then lost, as in the code (finding 3), and
the loop goes on reading out of step.  The auxiliary `intact` says that this has not
happened yet, and `BrokerStream`, `MarkersRight` and `Delivered` are stated up to then:
beyond it the code does not keep them.  Streams are sequences of
cells as below, with one difference: an int16 is two digits and a varint one or two,
to the base `Radix` (256 in the code), because flexible Produce requests are read with
the layout of v3 and a length of one kind is taken for the other.  The size before a raw
token is read as a uint32 (`Uint32`, modulo `SizeSpace`) and compared as an int32, so a
negative one is refused.  `answered` in a
request is what the broker will do with it, so `MarkersRight` compares the proxy's
reading of the acks with the truth.  `ClientAssumption` says what a client is: it sends
whole requests, and its Produce requests have the layout of their version
(`ProduceLayout`).  Two facts in it matter for v9 and later, which are handled rightly
only because of them: a producer with a transactional id asks for acks from all
replicas, and the tagged fields of a request header are empty.  What the broker finds
in its stream is `Reading`, a function defined by recursion over the requests that have
arrived; the properties compare it with what was sent.

### Codec and Replies

`Codec` has the types, schemas, decoder and encoders of the protocol package.  A type
is a record of what `schema.go` makes of it, an `EncoderDecoder`: how a value is
decoded, which values the encoders take, how long `prepEncoder` measures them
(`measure`) and what `realEncoder` writes (`encode`).  Beside these stand the values a
broker may send in a field of the type (`values`) and which of them the decoder takes
(`readable`).  `Number`, `String`, `ListOf` and `NewSchema` build types from types; the
schemas of Metadata v0-13 and FindCoordinator v0-6 are written as one schema per struct
with the version each field came in with.  A value is a tree (`Leaf`, `Tree`) of bounded
depth, and the loops over fields and elements are recursive functions (`Joined`, `Total`,
`DecodeUpTo`), so that all of it can be reasoned about by induction on a length.  A
message is a sequence of cells: one per number of any width, one per character, one per
length.  Cells carry no type, so a field read at the wrong place yields a wrong value as
it does with bytes.  What this gives up is the arithmetic of widths (an int16 for an
int32, the digits of a varint) and with it limits counted in bytes; `MaxInt16` and
`MaxMessage` count cells.

`Replies` is `DefaultResponseHandler.handleResponse` on that stream, with the session of
the first authentication (`InitialSessionLifetime`) to start with, one action per
read or write: header, the reply to a re-auth (`ConsumeReauthResponse`, which decodes the
two SASL messages and applies the lifetime), the raw reply of SASL v0
(`CopySaslAuthResponse`), tagged fields (`FirstFlexible` is the table of
`request_key_version.go`), then either the copy of the rest or `Apply`, then the
three writes.  A write may fail after any part of it.  The broker is external, and
`BrokerAssumption` says what it is: its replies are values of the layout of their
version, the table of header versions is Kafka's, no client uses the two reserved
correlation ids, a raw reply is empty.  The layouts are the same schemas, so an error of
a schema against Kafka's own protocol definition is outside the model, an error of the
decoder, the encoders or the framing is not.  Nothing is assumed of the lengths: a
string, an array or a reply may exceed every limit of the code, and `Refusable` says
which may then be refused.  The reply meets its own request, which `Processor` shows.

## 3. Runs

| Run | Question | Bounds |
|---|---|---|
| `processor` | Do markers, handlers and replies stay aligned over any mix of traffic, including two re-auths on a busy connection?  Is there always room for the re-auth's handlers?  Does the client see a FIFO? | 2 open requests, 4 client requests, 2 re-auths.  The second re-auth is needed because the first one changes the lead of the handler queue if it is mishandled; 4 requests fill the marker queue and the wire on both sides of it |
| `processor_teardown` | With every timeout possible, does the end of one loop always end the other and close both sockets? | 1 open request, so that every channel is full at times; a client that sends its SASL v0 token early |
| `reauth_timer` | Does a session that is long enough for the delays and the cushion ever lapse on a live connection, is a token ever expired when the broker looks at it? | 426,600 states.  An expiry delta (8) that is a third of the cushion (24), as 10 s are of 30 s; tokens of 60 ticks and tokens without expiry, session limits below and above them and 0, delays of 1.  Sessions shrink with the token they reuse until one is too short for `SessionKept` to speak of |
| `reauth_silent` | Does a due re-auth start on an idle connection, does an unanswered one end, is a busy client served although a re-auth is due all the time? | 13,469 states.  Cushion 3, copies and fetches up to 2, a header in two pieces, a broker that may be silent or stop advertising lifetimes |
| `reauth_short_session`, `reauth_slow_fetch`, `reauth_split_header` | see Findings | |
| `listeners` | Is the table consistent under races, moves, overflow, failing templates and failing accepts, in each mode?  Does it implement `AddressMap`?  Does every broker get a port although some are busy? | 204,990 states.  2 callers, 6 endpoints of 5 broker ids (one unknown) over 3 addresses, a bootstrap and an external mapping, a range that leaves the port space by one, ports 4, 5 and 7 free: as many as there are addresses without a mapping; one accept may fail (`MaxClosed` 2, of which the external mapping is one); a template that names a port and one that fails for one broker |
| `listeners_deterministic` | see Findings | |
| `client` | Is the connection set exact, does anything leak, does a shutdown close what is registered? | 147,668 states.  3 connections over 2 brokers: two that share an entry of the set and one that does not |
| `replies` | Can the client follow the stream after a rewritten reply, does it see only listeners and no reply of the proxy's own, is a reply refused whole, is the session the one granted last? | 96,073 states.  Two replies per connection, the first any version of the two kinds (and one version too many), full or sparse, with and without header tags, with none, two or four nodes, an absent, a half absent and an unmapped one; hosts that become longer and shorter; `MaxInt16` = 3, so that four nodes exceed the compact array and fifteen the plain one (`maxArrayLength` = 14); `MaxMessage` = 139, so that a reply is too long before, or only after, its hosts are replaced; five replies where SASL is involved: two re-auths with a client's reply between them, with and without error and lifetime |
| `requests` | Does the broker find whole requests in order, is there a marker for each that will be answered, does each arrive? | 322,660 states.  Two requests and one read deadline per connection, at any cell of a header, in every combination: Produce v0, v3 and v9, client id null or not, acks -1, 0 and 1, transactional ids whose length has one and two digits as a varint with `Radix` = 8, raw tokens empty, allowed and too long, a forbidden key, keys out of range, a request without a body |

Every property of a passing run has a mutant: a plausible wrong version of one
mapped definition under which TLC finds the property violated.

**Fairness.**  `Processor.FairSpec`: a goroutine that can take a step eventually
takes one; nothing is asked of the client or the broker (their actions have no
fairness), timers that can fire are steps of the waiting goroutine.
`ReauthTimer.FairSpec`: the loop runs and time passes; a client that never stops
sending cannot stop the clock, hence strong fairness for `Tick`.
`ClientServed` adds, as its own hypotheses, a client that keeps sending
(`ClientSends`) and an answer that takes a round trip (`RoundTrip`: it does not always
arrive before the request loop's next statement).  `Listeners.FairSpec`: some call
that began returns (it holds a lock and opens a socket), and clients ask for each
address again and again, which Kafka's metadata refresh does.  `Requests.FairSpec`:
the loop takes the steps it can take; nothing is asked of the client.  `Client.FairSpec`: dial and authentication have timeouts; a loop has
to end only when the socket it reads is closed.  After `Run` returns the process
exits and the operating system closes the rest; `ShutdownCloses` says what the
code does by itself while the process lives.

## 4. Proofs

`ProcessorProofs` proves, for every channel size, every set of client requests and
every bound,

- `TypeCorrect`: `Spec => []TypeOK`, which contains the capacities of the channels;
- `ErrorsSet`: `Spec => []ErrorAlwaysSet`.  The request loop of the code returns a
  nil error when it finds no handler, and the goroutine that gets a nil error first
  panics in `copyError` with both sockets open; this is never reached;
- `TeardownCloses`: `Spec => []SocketsClosed`, the safety half of `TeardownCompletes`:
  when both goroutines of `copyThenClose` have returned both sockets are closed, and a
  socket is closed only after a loop has ended.

Assumptions of all the proofs about `Processor`: `ProcessorAssumption` only (the
constants are natural numbers, `minOpenRequests` is positive as in the code).
`ErrorAlwaysSet` is not inductive: whether the loop finds a handler depends on what
every handler put back.  `Inv` adds `HandlerParked` (the channel holds exactly one
handler when the loop is at its top or only owes the response handler, and none while
a handler runs) and `MarkerReady` (what the loop is about to publish is well formed,
which `TypeOK` needs).  One lemma per group of actions shows it is preserved.
`Closing` follows `firstErr`: exactly the goroutine that found it empty closes, the
broker's socket first.

`ProcessorPairing` builds on `Inv` and proves `Alignment` (`Spec => []Pairing`), and
from it `RepliesArePaired` (`RepliesPaired`) and `StarvationIsTransient`
(`StarvationTransient`).  No line of the code compares a reply with a request, so the
invariant has to say where three queues stand relative to each other at every place of
the two loops.  Its conjuncts, and why each is needed:

- `Numbered`: requests on the wire carry consecutive numbers from the reply read last;
- `HandlersCounted`: one response handler for the reply read last (the pre-seeded one
  at the start) and one per request on the wire, less those the request loop owes;
- `HandlersRight`, `TokensFollow`: the SASL v0 handler stands exactly behind a SASL v0
  handshake, and so does the bare token on the wire.  The token has a handler and no
  marker, so without this the two queues could be shifted against each other by one;
- `ReauthOnWire`: the two injected requests are the last two on the wire until both
  are published, which is what lets their markers be sent late;
- `MarkersCounted`, `MarkersRight`: the markers follow the requests' numbers, skipping
  the bare tokens, and each carries its request's api key.

It holds as long as the response loop runs; after that nobody reads the queues.

`ProcessorDelivery` adds the correlation ids.  `Accounting` proves `Answering`: each
reply still to come is a client's or one of the two reserved (`Identified`), the
client's come in the order of their requests (`InOrder`), and none is missing
(`NoneLost`).  From it,

- `ClientRefinement`: `Spec => ClientSpec`, so the connection with its two loops, the
  injected requests and its failures implements `ClientView`;
- `Tracking` and `InFlightIsAccurate` (`InFlightAccurate`): at most one re-auth answer
  is outstanding, and one is exactly when the flag is set or about to be.  The property
  alone is not inductive: that the answer in hand is the only one needs the whole wire;
- `HandlersFit`: `~SaslV0Pipelined => (Spec => []HandlerRoom)`.  Handlers exceed
  markers by the pre-seeded one and by the bare token's (`HandlersBounded`), and there
  is one token if the client waits for the answer to its SASL v0 handshake before it
  sends the token (`OneToken`).  The hypothesis is the protocol's rule, and without it
  the bound fails: each token sent early adds a handler and no marker.

`ReauthTimerProofs` proves, for every latency, cushion, lifetime and bound on a copy or
a fetch (assumption: `TimerAssumption`), `TypeCorrect` and `WedgedIsInTime`
(`WedgedInTime`): a re-auth the loop gives up on is unanswered and at most one tick
and one copy older than the cushion.  Its invariant is `InFlightRight` (the flag
follows the answer) and `Aged` (the read deadline of a waiting loop is the in-flight
one; the age grows past it only during a copy).  The other two properties cannot hold
in every environment, and their theorems state what they need of it:

- `TokenIsGood` (`TokenGood`): the broker answers, within a latency below the oauth2
  expiry delta and below every token's lifetime;
- `SessionIsKept` (`SessionKept`): the broker answers.  Which sessions are kept is in the
  property: those whose lifetime satisfies `MarginCovers`, above five times the delays of
  a re-auth (a copy under way, the fetch, the round trip), because the code schedules at
  80%, and above one second plus the delays, because of its lower bound; and
  `OutlastsCushion`, above the cushion plus the delays, because the loop may still read
  under the deadline of the re-auth that was just answered.  The theorem asks nothing of
  the lifetimes granted before or after, nor of the expiry delta against the cushion.
  Without `OutlastsCushion` the property is `WakesInTime`, which finding 1 violates.

The argument is `Lasting`: what is left of the session exceeds the time to the re-auth
plus the delays before it is written, the rest of the round trip after, and once the
broker has accepted it is the new lifetime less the age of the re-auth.  `Scheduled`
adds that a connection with a session wakes up for its re-auth.

`ListenersProofs` proves, for any number of callers, endpoints and configured
mappings and any port range, `TypeCorrect`, `Routes` (`TableRoutes`), `PortsKept`
(`PortsInRange`), `NoneOrphaned` (`NoOrphanListener`) and `Kept` (`ListenersKept`, an
action property), with failing templates and failing accepts.  The
invariant is the conjunction of the four state properties: a move leaves nothing
behind only because the table routes each address to its own listener, and the range
of a port rests on the types of the counter and of broker ids.  `PortArithmetic`
carries the uint16 sum.  `Refines` is the refinement: the initial table maps to an
initial `AddressMap`; a step that leaves table and listeners alone maps to a stutter;
opening a listener maps to `Learn` (its port is not live because `Taken` contains every
open listener's), or to `Waste` where the template fails; a move maps to `Follow` (the
old address loses its entry and the answer goes along because the table routes); a
failing accept maps to `Die` (its port leaves the live ones because no two open listeners
share it).  Assumption: `ListenersAssumption` (non-empty ranges, as
`Validate` guarantees; configured addresses and bootstrap ports are distinct; ids are
integers).

`ClientProofs` proves, for any number of connections and brokers, `TypeCorrect`,
`NoLeak` (`NothingLeaked`) and `SetExact` (`ConnSetExact`).  `NothingLeaked` speaks of
the end only; the invariant follows each connection through `handleConn`
(`EarlyOK`: no second goroutine and no open broker socket outside the first
authentication) and through `copyThenClose` (`CloseOK`: exactly the goroutine that
found `firstErr` empty closes, and until it has, it is not done).  `QueueHeld` ties
`connSrc` to the connections nobody runs yet.  `ConnSetExact` is inductive given
these; the work is in `RemoveSet`, where one position is cut out of the slice.
Assumption: `ClientAssumption` (each connection arrives on one broker's listener).

`RequestsProofs` proves, for every radix, buffer size, limit and set of requests that
`ClientAssumption` allows, `TypeCorrect`, `BrokerFindsRequests` (`BrokerStream`) and
`MarkersAreRight` (`MarkersRight`).  The last two say, as the properties
do, what holds until a deadline cuts a header.  None of the three is inductive, because what is in
the broker's stream says nothing about where the handler is in the client's.  The
invariant `IInv` (theorem `InStep`) has the types, which hold also behind a cut header, and,
while `intact`, names a reading `p` of the broker's stream that is

- *reached* (`Reaches`): one whole request after the other leads to it;
- *sound* (`Sound`): its requests are the first ones the client sent, allowed, and
  behind them stands a beginning of the next one;
- *in agreement with the handler* (`Agrees`), by place: between two requests the two
  streams are at the same boundary (`Between`); while the acks reader is at work or
  the header is written, the cells read and the cells ahead make up the request
  (`ReadingAcks`, `Writing`); while copying, `left` is what is missing of it
  (`Copying`).

`Reaches` replaces the recursive `Reading` by a chain of steps that a proof can extend
(`Moved`, `ProxyWrites`), and `ReachesArrived` shows, by induction on the number of
requests, that the chain ends at `Reading`.  The induction is that of the lemma
`Induction`: it speaks of sets instead of predicates, follows from the theorem `WFMin`
of `WellFoundedInduction`, and so needs no operator parameter.  `ProduceReads` is the
lemma about the acks reader: for every version and every length of the client id and
the transactional id, what it reads is the request's acks, or, from v9 on, other cells
from which it draws the same conclusion.  Assumptions: `RequestsAssumption` (the radix
is even and above 2) and `ClientAssumption`.

`RepliesProofs` proves the four properties of `Replies` for every limit, every mapping
of addresses and every stream of replies `BrokerAssumption` allows.  The first half is
about `Codec`.  `Sound(t)` says of a type that for each of its values the measured length
is the length of what is written, and that decoding what was written, wherever it stands
in a buffer and whatever follows it, returns the value and stops behind it, or fails if
the value is not `readable`.  `NumberSound`, `StringSound`, `ListSound` and `SchemaSound`
show that every constructor yields sound types from sound types, by induction on the
number of elements or fields, and `MetadataResponse`, `FindCoordinatorResponse`,
`FindCoordinatorsResponse` and `SaslResponses` that the schemas are sound in every
version and that the fields the modifiers look up by name (`brokers`, `coordinator`,
`host`, `port`) stand where `Place` says.  From these,

- `ApplyRewrites`: what `Apply` makes of the body of a reply is the body its client
  should have (`LocalValue`), and it fails exactly when the reply is not readable, names
  a node without a listener, or exceeds a limit of the encoder.

The second half is about the handler.  `TypeCorrect`, `ClientFollowsStream`
(`ClientStream`), `RefusedAsAWhole` (`RefusedWhole`) and `SessionIsCurrent`
(`SessionCurrent`) follow from the invariant `IInv` (theorem `InStep`).  `ClientStream`
alone is not inductive, because what the client has says nothing of what is still to be
read.  With `k` replies handled, `Agrees` says for each place of `handleResponse`

- where the broker's stream stands: at the boundary behind reply `k` (`Waiting`), or in
  reply `k + 1` with exactly its tags and body, its body, or nothing of it left
  (`Reading`);
- what the proxy holds: the header is that of the reply with the body to be sent
  (`Headed`), the tagged fields are the reply's, the body is the rewritten one or still
  unread (`Kept`), and from the first write on the reply is not `Refusable`;
- what the client has: the frames of the first `k` replies (`Untouched`) and the part of
  the next that the writes so far make up (`Written`).

Assumptions: `CodecAssumption` (the limits are natural numbers) and `BrokerAssumption`.

Only model-checked: liveness under fairness, which the prover does not handle:
`TeardownCompletes` (its safety half is `TeardownCloses`), `StuckReauthEnds`,
`DueReauthStarts`, `ClientServed`, `EveryBrokerMapped`, `ShutdownCloses`, `Delivered`.
Every invariant and every safety property of the passing runs has a theorem.

## 5. Findings

1. `reauth_short_session` (`WakesInTime`): a read begun while a re-auth is in flight is
   given the in-flight deadline, up to 30 s away, and keeps it when the answer comes; if
   the answer grants a session shorter than that, an idle connection does not wake in
   time for the next re-auth.  Such sessions occur because the provider hands out its
   cached token until the oauth2 library's expiry delta (10 s) before its end: a re-auth
   at 80% of a session presents the token that opened it and is granted what is left,
   from an hour 12 minutes, then 144 s, then 29 s.  The run has the code's cushion and
   expiry delta in seconds and nothing in it is slow; in its trace a session of 10 s
   lapses under a deadline captured with `inFlight` set.  `reauth_timer` shows that a
   session that outlasts the cushion is kept.
2. `reauth_slow_fetch`: the cushion counts from before the token fetch.
3. `reauth_split_header`: a read deadline in the middle of a request header drops
   the bytes already read; the next read starts in the middle of the request.
4. `listeners_deterministic`: a broker met at an address another broker had is given
   that broker's listener and port (in the trace broker 1 gets a listener at B, and
   broker 2, asked for at B, is answered with it).

Observed, without a run: `inFlightStartedAt` is never cleared although the comment
at `processor.go:164` says it is zero when no re-auth is in flight (its only use is a
metric); an answer with lifetime 0 leaves `reauthAt` in the past, so the connection
re-authenticates again at once (`ClientServed`: it still serves its client); the
provider's `timeout` is stored and never used; with dynamic listeners disabled a
metadata reply that names a broker without a configured mapping ends the connection
(`RefusedWhole` has it as an unmapped node); a raw SASL v0 reply with a body, as
SCRAM's, would leave the body in the stream; after an accept error (`proxy.go:283-287`) the
listener is closed while its table entry stays, so clients go on being sent to a port
that nobody serves, or that a later listener of another broker has taken, and in
deterministic mode a broker that moves takes its dead listener along; a template that
fails leaves an open listener that is in no table, and another one with every retry.

## 6. Not modelled

- Byte widths and the digits of varints in replies (`Codec` counts cells), and limits
  counted in bytes.
- Metrics (`collector.go`), dialing, TLS and TCP options: I/O and library settings; a
  dial or a write succeeds or fails, which the modules have as actions.
- Configuration and flags: read once at startup.  What `Validate` guarantees is what
  the modules assume of their constants (a non-empty port range, a positive buffer and
  number of open requests).
- The registry and factory of token providers, the discovery of the service account,
  the text of the JWT envelope and of the OAUTHBEARER message.
- `errors.go` (the text of error codes), `request_v2.go`, `response_header_v1.go`,
  `tagged_fields.go`, SaslAuthenticate v0 and v2: no caller outside tests.  The file
  watcher has no caller.
- A client whose correlation ids reach the two reserved values.  Raw SASL v0 replies
  with a body.  Request headers with tagged fields.

## 7. Plan

Done: `Processor`, `ClientView`, `ReauthTimer`, `TokenProvider`, `Listeners`,
`AddressMap`, `Client`, `Codec`, `Replies`, `Requests`; the proofs of section 4.

Left: the widths of numbers and the digits of varints in replies, as `Requests` has
them, so that the limits of `Codec` count bytes; an abstract specification of the
listeners that `Replies` could take its `Mapping` from, so that it may change while a
connection lives.
