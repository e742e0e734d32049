------------------------------ MODULE Processor ------------------------------
(***************************************************************************)
(* One proxied connection: the request loop and the response loop of       *)
(* proxy/processor.go, the handlers they run (processor_default.go,        *)
(* processor_sasl_auth_v0.go), the three channels and the in-flight flag   *)
(* they share, and copyThenClose (proxy/common.go), which runs them and    *)
(* closes both sockets when the first one ends.                            *)
(*                                                                         *)
(* The two loops interleave at every channel operation, socket operation   *)
(* and mutex section.  Time is abstracted: a timer may fire whenever the   *)
(* code is waiting on it (module ReauthTimer has the clock).  The broker   *)
(* is external: it answers a connection in order and never answers a       *)
(* produce request with acks=0.                                            *)
(***************************************************************************)
EXTENDS Integers, Sequences

CONSTANTS
    cfgMaxOpenRequests,  \* ProcessorConfig.MaxOpenRequests
    minOpenRequests,     \* the floor newProcessor puts under it (16 in the code)
    ClientApis,          \* the kinds of request this client sends
    SaslV0Pipelined,     \* the client may send the SASL v0 token early
    MaxRequests,         \* bound: client requests that want a reply
    MaxReauths           \* bound: re-authentications; 0 = no session lifetime

\* What the request header says, as far as the handlers tell it apart.
Apis == {"Other", "ProduceAcks0", "SaslHandshakeV0", "SaslHandshakeV1", "SaslAuthenticate"}

ASSUME ProcessorAssumption ==
    /\ cfgMaxOpenRequests \in Nat
    /\ minOpenRequests \in Nat \ {0}
    /\ ClientApis \subseteq Apis
    /\ SaslV0Pipelined \in BOOLEAN
    /\ MaxRequests \in Nat
    /\ MaxReauths \in Nat

maxOpenRequests ==
    IF cfgMaxOpenRequests < minOpenRequests THEN minOpenRequests ELSE cfgMaxOpenRequests

\* Mutant: room for the pre-seeded handler only.
handlerCapacityPlusOne == maxOpenRequests + 1

\* Capacity of nextResponseHandlerChannel.
handlerCapacity == maxOpenRequests + 2

\* The reserved correlation ids, standing for 0x7FFFFFFE and 0x7FFFFFFD: no
\* client id (1, 2, ...) equals them.
reauthCorrelationID == -1
reauthHandshakeCorrelationID == -2

VARIABLES
    pc,                   \* where each loop is
    openRequests,         \* openRequestsChannel: markers of requests not yet answered
    nextRequestHandler,   \* nextRequestHandlerChannel
    nextResponseHandler,  \* nextResponseHandlerChannel
    inFlight,             \* ConnectionAuthState.inFlight
    request,              \* the client request in the request loop's hands
    reply,                \* the broker reply in the response loop's hands
    wire,                 \* requests written to the broker, reply not yet read
    issued,               \* auxiliary: replies asked of the broker so far
    reauths,              \* re-authentications begun (for the bound)
    sent,                 \* client requests read that want a reply
    delivered,            \* correlation ids of the replies written to the client
    firstErr,             \* copyThenClose's firstErr channel
    remoteOpen, localOpen \* the broker's and the client's connection

channelVars == <<openRequests, nextRequestHandler, nextResponseHandler>>
socketVars  == <<remoteOpen, localOpen>>
clientVars  == <<sent, delivered>>
dataVars == <<channelVars, inFlight, request, reply, wire, issued, reauths,
              clientVars, firstErr, socketVars>>
vars == <<pc, dataVars>>

Loops == {"requests", "responses"}
Goto(l, s) == pc' = [pc EXCEPT ![l] = s]
Move(l, s) == Goto(l, s) /\ UNCHANGED dataVars

\* A frame on the broker connection.  num numbers the replies the broker owes
\* in wire order; it is auxiliary, no guard reads it.
Frame(key, id, num) == [apiKey |-> key, id |-> id, num |-> num]
Marker(key, num) == [apiKey |-> key, num |-> num]
NoFrame == Frame("Other", 0, 0)

------------------------------------------------------------------------------
(* newProcessor: both handler channels are seeded with a default handler.   *)
Init ==
    /\ pc = [l \in Loops |-> IF l = "requests" THEN "top" ELSE "getHandler"]
    /\ openRequests = <<>>
    /\ nextRequestHandler = <<"default">>
    /\ nextResponseHandler = <<"default">>
    /\ inFlight = FALSE
    /\ request = NoFrame
    /\ reply = NoFrame
    /\ wire = <<>>
    /\ issued = 0
    /\ reauths = 0
    /\ sent = 0
    /\ delivered = <<>>
    /\ firstErr = "none"
    /\ remoteOpen = TRUE
    /\ localOpen = TRUE

------------------------------------------------------------------------------
(* Request loop.                                                            *)

\* The head of requestsLoop: take the next handler.  A missing handler makes
\* the loop return a nil error.
NextRequest ==
    /\ pc["requests"] = "top"
    /\ IF nextRequestHandler = <<>>
       THEN /\ Goto("requests", "exitNil")
            /\ UNCHANGED nextRequestHandler
       ELSE /\ Goto("requests", IF Head(nextRequestHandler) = "default" THEN "read" ELSE "readRaw")
            /\ nextRequestHandler' = Tail(nextRequestHandler)
    /\ UNCHANGED <<openRequests, nextResponseHandler, inFlight, request, reply, wire,
                   issued, reauths, clientVars, firstErr, socketVars>>

\* The head of requestsLoop when InFlightExpired: the reply to a re-auth did
\* not arrive within the cushion.
InFlightExpired ==
    /\ pc["requests"] = "top"
    /\ inFlight
    /\ Move("requests", "exit")

\* putNextRequestHandler, then the end of handleRequest.  The channel holds
\* one handler; a full channel is an error.
PutRequestHandler(handler, next) ==
    IF Len(nextRequestHandler) < 1
    THEN /\ nextRequestHandler' = Append(nextRequestHandler, handler)
         /\ Goto("requests", next)
    ELSE /\ UNCHANGED nextRequestHandler
         /\ Goto("requests", "exit")

\* DefaultRequestHandler: a request header arrives and mustReply is decided.
ReadRequest(key) ==
    /\ pc["requests"] = "read"
    /\ localOpen
    /\ IF key = "ProduceAcks0"
       THEN /\ request' = Frame(key, 0, 0)
            /\ Goto("requests", "write")
            /\ UNCHANGED <<sent, issued>>
       ELSE /\ sent < MaxRequests
            /\ sent' = sent + 1
            /\ issued' = issued + 1
            /\ request' = Frame(key, sent', issued')
            /\ Goto("requests", "sendMarker")
    /\ UNCHANGED <<channelVars, inFlight, reply, wire, reauths, delivered, firstErr, socketVars>>

\* SaslAuthV0RequestHandler: the bare token that follows a v0 handshake.  It is
\* answered too, but it has no header and gets no marker.  Clients send it once
\* the handshake is answered.
ReadSaslToken ==
    /\ pc["requests"] = "readRaw"
    /\ localOpen
    /\ sent < MaxRequests
    /\ SaslV0Pipelined \/ Len(delivered) = sent
    /\ sent' = sent + 1
    /\ issued' = issued + 1
    /\ request' = Frame("Raw", sent', issued')
    /\ Goto("requests", "write")
    /\ UNCHANGED <<channelVars, inFlight, reply, wire, reauths, delivered, firstErr, socketVars>>

\* A read that ends the loop while the connection is open: EOF, an invalid or a
\* forbidden api key, an acks field that does not parse, a SASL token too late
\* or too large.
ReadRequestFails ==
    /\ pc["requests"] \in {"read", "readRaw"}
    /\ localOpen
    /\ Move("requests", "exit")

\* The same read on a connection the other loop closed.
ReadRequestClosed ==
    /\ pc["requests"] \in {"read", "readRaw"}
    /\ ~localOpen
    /\ Move("requests", "exit")

\* The read deadline passes and no re-auth is needed.
ReadTimeout ==
    /\ pc["requests"] = "read"
    /\ localOpen
    /\ MaxReauths > 0
    /\ PutRequestHandler("default", "top")
    /\ UNCHANGED <<openRequests, nextResponseHandler, inFlight, request, reply, wire,
                   issued, reauths, clientVars, firstErr, socketVars>>

\* The read deadline passes and NeedsReauth holds: runReauth begins.  A header arrives
\* whole or not at all in this module; one that is cut here is in ReauthTimer and Requests.
StartReauth ==
    /\ pc["requests"] = "read"
    /\ localOpen
    /\ ~inFlight
    /\ reauths < MaxReauths
    /\ reauths' = reauths + 1
    /\ Goto("requests", "buildReauth")
    /\ UNCHANGED <<channelVars, inFlight, request, reply, wire, issued,
                   clientVars, firstErr, socketVars>>

\* buildReauthHandshakeRequest and buildReauthRequest, which fetches a token.
BuildReauth ==
    /\ pc["requests"] = "buildReauth"
    /\ Move("requests", "writeHandshake")

\* A re-auth request is written to the broker.
WriteReauth(at, key, id, next) ==
    /\ pc["requests"] = at
    /\ remoteOpen
    /\ issued' = issued + 1
    /\ wire' = Append(wire, Frame(key, id, issued'))
    /\ Goto("requests", next)
    /\ UNCHANGED <<channelVars, inFlight, request, reply, reauths,
                   clientVars, firstErr, socketVars>>

WriteReauthHandshake ==
    WriteReauth("writeHandshake", "SaslHandshakeV1", reauthHandshakeCorrelationID, "writeAuthenticate")

WriteReauthAuthenticate ==
    WriteReauth("writeAuthenticate", "SaslAuthenticate", reauthCorrelationID, "markInFlight")

MarkInFlight ==
    /\ pc["requests"] = "markInFlight"
    /\ inFlight' = TRUE
    /\ Goto("requests", "handshakeMarker")
    /\ UNCHANGED <<channelVars, request, reply, wire, issued, reauths,
                   clientVars, firstErr, socketVars>>

\* Mutant: the marker is appended to a full channel.
EnqueueMarkerUnbounded(at, key, num, next) ==
    /\ pc["requests"] = at
    /\ openRequests' = Append(openRequests, Marker(key, num))
    /\ Goto("requests", next)
    /\ UNCHANGED <<nextRequestHandler, nextResponseHandler, inFlight, request, reply, wire,
                   issued, reauths, clientVars, firstErr, socketVars>>

\* The first half of enqueueReauthMarker: a marker, without waiting for room.
EnqueueMarker(at, key, num, next) ==
    /\ pc["requests"] = at
    /\ IF Len(openRequests) < maxOpenRequests
       THEN /\ openRequests' = Append(openRequests, Marker(key, num))
            /\ Goto("requests", next)
       ELSE /\ UNCHANGED openRequests
            /\ Goto("requests", "exit")
    /\ UNCHANGED <<nextRequestHandler, nextResponseHandler, inFlight, request, reply, wire,
                   issued, reauths, clientVars, firstErr, socketVars>>

\* The second half: a default response handler, without waiting for room.
EnqueueHandler(at, next) ==
    /\ pc["requests"] = at
    /\ IF Len(nextResponseHandler) < handlerCapacity
       THEN /\ nextResponseHandler' = Append(nextResponseHandler, "default")
            /\ Goto("requests", next)
       ELSE /\ UNCHANGED nextResponseHandler
            /\ Goto("requests", "exit")
    /\ UNCHANGED <<openRequests, nextRequestHandler, inFlight, request, reply, wire,
                   issued, reauths, clientVars, firstErr, socketVars>>

\* Mutant: one response handler per re-auth instead of one per marker.
EnqueueHandshakeHandlerSkipped ==
    /\ pc["requests"] = "handshakeHandler"
    /\ Move("requests", "authenticateMarker")

EnqueueHandshakeMarker == EnqueueMarker("handshakeMarker", "SaslHandshakeV1", issued - 1, "handshakeHandler")
EnqueueHandshakeHandler == EnqueueHandler("handshakeHandler", "authenticateMarker")
EnqueueAuthenticateMarker == EnqueueMarker("authenticateMarker", "SaslAuthenticate", issued, "authenticateHandler")
EnqueueAuthenticateHandler == EnqueueHandler("authenticateHandler", "reauthDone")

\* Mutant: the read timeout does not re-queue the request handler.
ReauthDoneForgetsHandler ==
    /\ pc["requests"] = "reauthDone"
    /\ Move("requests", "top")

\* Mutant: in-flight is marked after the markers are published.
ReauthDoneMarksLate ==
    /\ pc["requests"] = "reauthDone"
    /\ PutRequestHandler("default", "top")
    /\ inFlight' = TRUE
    /\ UNCHANGED <<openRequests, nextResponseHandler, request, reply, wire,
                   issued, reauths, clientVars, firstErr, socketVars>>

\* handleRequest after runReauth returned: re-queue the default handler.
ReauthDone ==
    /\ pc["requests"] = "reauthDone"
    /\ PutRequestHandler("default", "top")
    /\ UNCHANGED <<openRequests, nextResponseHandler, inFlight, request, reply, wire,
                   issued, reauths, clientVars, firstErr, socketVars>>

\* sendRequestKeyVersion, before the request is written to the broker.
SendMarker ==
    /\ pc["requests"] = "sendMarker"
    /\ Len(openRequests) < maxOpenRequests
    /\ openRequests' = Append(openRequests, Marker(request.apiKey, request.num))
    /\ Goto("requests", "write")
    /\ UNCHANGED <<nextRequestHandler, nextResponseHandler, inFlight, request, reply, wire,
                   issued, reauths, clientVars, firstErr, socketVars>>

\* sendRequestKeyVersion: no room for openRequestSendTimeout.
SendMarkerTimeout ==
    /\ pc["requests"] = "sendMarker"
    /\ Len(openRequests) >= maxOpenRequests
    /\ Move("requests", "exit")

\* The whole request is copied to the broker and the next request handler is
\* chosen; a request without a reply ends here.
WriteRequest ==
    /\ pc["requests"] = "write"
    /\ remoteOpen
    /\ IF request.apiKey = "ProduceAcks0"
       THEN /\ UNCHANGED wire
            /\ PutRequestHandler("default", "top")
       ELSE /\ wire' = Append(wire, request)
            /\ PutRequestHandler(IF request.apiKey = "SaslHandshakeV0" THEN "saslV0" ELSE "default",
                                 "putHandler")
    /\ UNCHANGED <<openRequests, nextResponseHandler, inFlight, request, reply,
                   issued, reauths, clientVars, firstErr, socketVars>>

\* Mutant: the SASL v0 reply is left to the default handler.
PutResponseHandlerDefault ==
    /\ pc["requests"] = "putHandler"
    /\ Len(nextResponseHandler) < handlerCapacity
    /\ nextResponseHandler' = Append(nextResponseHandler, "default")
    /\ Goto("requests", "top")
    /\ UNCHANGED <<openRequests, nextRequestHandler, inFlight, request, reply, wire,
                   issued, reauths, clientVars, firstErr, socketVars>>

\* The response half of putNextHandlers.
PutResponseHandler ==
    /\ pc["requests"] = "putHandler"
    /\ Len(nextResponseHandler) < handlerCapacity
    /\ nextResponseHandler' = Append(nextResponseHandler,
            IF request.apiKey = "SaslHandshakeV0" THEN "saslV0" ELSE "default")
    /\ Goto("requests", "top")
    /\ UNCHANGED <<openRequests, nextRequestHandler, inFlight, request, reply, wire,
                   issued, reauths, clientVars, firstErr, socketVars>>

\* putNextHandlers: no room for openRequestSendTimeout.
PutResponseHandlerTimeout ==
    /\ pc["requests"] = "putHandler"
    /\ Len(nextResponseHandler) >= handlerCapacity
    /\ Move("requests", "exit")

\* The token fetch, or a write to the broker (closed, reset, past its
\* deadline), fails.
WriteFails ==
    /\ pc["requests"] \in {"buildReauth", "writeHandshake", "writeAuthenticate", "write"}
    /\ Move("requests", "exit")

------------------------------------------------------------------------------
(* Response loop.                                                           *)

GetNextResponseHandler ==
    /\ pc["responses"] = "getHandler"
    /\ nextResponseHandler # <<>>
    /\ nextResponseHandler' = Tail(nextResponseHandler)
    /\ Goto("responses", IF Head(nextResponseHandler) = "default" THEN "readHeader" ELSE "readRaw")
    /\ UNCHANGED <<openRequests, nextRequestHandler, inFlight, request, reply, wire,
                   issued, reauths, clientVars, firstErr, socketVars>>

\* getNextResponseHandler: no handler for openRequestReceiveTimeout.
ResponseHandlerMissing ==
    /\ pc["responses"] = "getHandler"
    /\ nextResponseHandler = <<>>
    /\ Move("responses", "exit")

\* The broker's next reply arrives: its header for the default handler, the
\* size field for the SASL v0 one, which takes no marker.
ReadReply ==
    /\ pc["responses"] \in {"readHeader", "readRaw"}
    /\ remoteOpen
    /\ wire # <<>>
    /\ reply' = Head(wire)
    /\ wire' = Tail(wire)
    /\ Goto("responses", IF pc["responses"] = "readHeader" THEN "getMarker" ELSE "forward")
    /\ UNCHANGED <<channelVars, inFlight, request, issued, reauths,
                   clientVars, firstErr, socketVars>>

\* Broker EOF, a reset, an undecodable header, or the SASL v0 reply is late.
ReadReplyFails ==
    /\ pc["responses"] \in {"readHeader", "readRaw"}
    /\ remoteOpen
    /\ Move("responses", "exit")

ReadReplyClosed ==
    /\ pc["responses"] \in {"readHeader", "readRaw"}
    /\ ~remoteOpen
    /\ Move("responses", "exit")

isProxyReauthHandshakeResponse(marker, header) ==
    /\ marker.apiKey \in {"SaslHandshakeV0", "SaslHandshakeV1"}
    /\ header.id = reauthHandshakeCorrelationID

\* Mutant: the api key alone decides whose reply it is.
isProxyReauthResponseByKey(marker, header) ==
    marker.apiKey \in {"SaslHandshakeV0", "SaslHandshakeV1", "SaslAuthenticate"}

isProxyReauthResponse(marker, header) ==
    \/ isProxyReauthHandshakeResponse(marker, header)
    \/ marker.apiKey = "SaslAuthenticate" /\ header.id = reauthCorrelationID

\* receiveRequestKeyVersion, and whose reply this is.
ReceiveMarker ==
    /\ pc["responses"] = "getMarker"
    /\ openRequests # <<>>
    /\ openRequests' = Tail(openRequests)
    /\ Goto("responses", IF isProxyReauthResponse(Head(openRequests), reply) THEN "consume" ELSE "forward")
    /\ UNCHANGED <<nextRequestHandler, nextResponseHandler, inFlight, request, reply, wire,
                   issued, reauths, clientVars, firstErr, socketVars>>

\* receiveRequestKeyVersion: no marker for openRequestReceiveTimeout.
MarkerMissing ==
    /\ pc["responses"] = "getMarker"
    /\ openRequests = <<>>
    /\ Move("responses", "exit")

\* The reply, modified or not, is written to the client.
ForwardReply ==
    /\ pc["responses"] = "forward"
    /\ localOpen
    /\ delivered' = Append(delivered, reply.id)
    /\ Goto("responses", "getHandler")
    /\ UNCHANGED <<channelVars, inFlight, request, reply, wire, issued, reauths, sent,
                   firstErr, socketVars>>

\* consumeReauthResponse: the handshake leg was accepted; nothing else changes.
CompleteReauthHandshake ==
    /\ pc["responses"] = "consume"
    /\ reply.id = reauthHandshakeCorrelationID
    /\ Move("responses", "getHandler")

\* consumeReauthResponse: the broker accepted the new token.
CompleteReauth ==
    /\ pc["responses"] = "consume"
    /\ reply.id # reauthHandshakeCorrelationID
    /\ inFlight' = FALSE
    /\ Goto("responses", "getHandler")
    /\ UNCHANGED <<channelVars, request, reply, wire, issued, reauths,
                   clientVars, firstErr, socketVars>>

\* The body cannot be read, decoded or modified, the client cannot be written
\* to, or the broker rejects the handshake or the token.
ReplyFails ==
    /\ pc["responses"] \in {"forward", "consume"}
    /\ Move("responses", "exit")

------------------------------------------------------------------------------
(* copyThenClose: the loop that ends first closes both connections.         *)

\* Publish the error.  copyError calls err.Error(): with a nil error it panics,
\* and withRecover ends the goroutine before it closes anything.
PublishError(l) ==
    /\ pc[l] \in {"exit", "exitNil"}
    /\ IF firstErr = "none"
       THEN /\ firstErr' = l
            /\ Goto(l, IF pc[l] = "exitNil" THEN "panicked" ELSE "closeRemote")
       ELSE /\ UNCHANGED firstErr
            /\ Goto(l, "done")
    /\ UNCHANGED <<channelVars, inFlight, request, reply, wire, issued, reauths,
                   clientVars, socketVars>>

\* Mutant: the loop that ends first leaves the broker connection open.
CloseRemoteForgotten(l) ==
    /\ pc[l] = "closeRemote"
    /\ Move(l, "closeLocal")

CloseRemote(l) ==
    /\ pc[l] = "closeRemote"
    /\ remoteOpen' = FALSE
    /\ Goto(l, "closeLocal")
    /\ UNCHANGED <<channelVars, inFlight, request, reply, wire, issued, reauths,
                   clientVars, firstErr, localOpen>>

CloseLocal(l) ==
    /\ pc[l] = "closeLocal"
    /\ localOpen' = FALSE
    /\ Goto(l, "done")
    /\ UNCHANGED <<channelVars, inFlight, request, reply, wire, issued, reauths,
                   clientVars, firstErr, remoteOpen>>

CopyThenClose(l) == PublishError(l) \/ CloseRemote(l) \/ CloseLocal(l)

\* Both goroutines have returned.
Terminated ==
    /\ \A l \in Loops : pc[l] = "done"
    /\ UNCHANGED vars

------------------------------------------------------------------------------
\* The steps a loop takes by itself; the others wait for the client, for the
\* broker or for a read deadline.
RequestStep ==
    \/ NextRequest \/ InFlightExpired \/ ReadRequestClosed
    \/ BuildReauth \/ WriteReauthHandshake \/ WriteReauthAuthenticate \/ MarkInFlight
    \/ EnqueueHandshakeMarker \/ EnqueueHandshakeHandler
    \/ EnqueueAuthenticateMarker \/ EnqueueAuthenticateHandler \/ ReauthDone
    \/ SendMarker \/ SendMarkerTimeout \/ WriteRequest
    \/ PutResponseHandler \/ PutResponseHandlerTimeout \/ WriteFails
    \/ CopyThenClose("requests")

ResponseStep ==
    \/ GetNextResponseHandler \/ ResponseHandlerMissing \/ ReadReplyClosed
    \/ ReceiveMarker \/ MarkerMissing \/ ForwardReply
    \/ CompleteReauthHandshake \/ CompleteReauth \/ ReplyFails
    \/ CopyThenClose("responses")

FromClient ==
    \/ \E key \in ClientApis : ReadRequest(key)
    \/ ReadSaslToken \/ ReadRequestFails \/ ReadTimeout \/ StartReauth

FromBroker == ReadReply \/ ReadReplyFails

Next == RequestStep \/ ResponseStep \/ FromClient \/ FromBroker \/ Terminated

Spec == Init /\ [][Next]_vars

\* A goroutine that can take a step eventually takes one; neither the client
\* nor the broker ever has to do anything.
FairSpec == Spec /\ WF_vars(RequestStep) /\ WF_vars(ResponseStep)
------------------------------------------------------------------------------
(* Properties.                                                              *)

Frames == [apiKey : Apis \cup {"Raw"}, id : Int, num : Nat]
Markers == [apiKey : Apis, num : Nat]
RequestPlaces ==
    {"top", "read", "readRaw", "sendMarker", "write", "putHandler", "buildReauth",
     "writeHandshake", "writeAuthenticate", "markInFlight", "handshakeMarker",
     "handshakeHandler", "authenticateMarker", "authenticateHandler", "reauthDone"}
ResponsePlaces == {"getHandler", "readHeader", "readRaw", "getMarker", "forward", "consume"}
EndPlaces == {"exit", "exitNil", "panicked", "closeRemote", "closeLocal", "done"}

PlacesOK ==
    /\ pc \in [Loops -> RequestPlaces \cup ResponsePlaces \cup EndPlaces]
    /\ pc["requests"] \in RequestPlaces \cup EndPlaces
    /\ pc["responses"] \in ResponsePlaces \cup EndPlaces

ChannelsOK ==
    /\ openRequests \in Seq(Markers) /\ Len(openRequests) <= maxOpenRequests
    /\ nextRequestHandler \in Seq({"default", "saslV0"}) /\ Len(nextRequestHandler) <= 1
    /\ nextResponseHandler \in Seq({"default", "saslV0"}) /\ Len(nextResponseHandler) <= handlerCapacity

DataOK ==
    /\ request \in Frames /\ reply \in Frames /\ wire \in Seq(Frames)
    /\ inFlight \in BOOLEAN
    /\ issued \in Nat /\ reauths \in Nat /\ sent \in Nat /\ delivered \in Seq(Int)
    /\ firstErr \in Loops \cup {"none"}
    /\ remoteOpen \in BOOLEAN /\ localOpen \in BOOLEAN

\* Every variable keeps its type, and no channel exceeds its capacity.
TypeOK == PlacesOK /\ ChannelsOK /\ DataOK

Ended(l) == pc[l] \in EndPlaces

\* The two queues the loops share stay aligned with the broker's replies, over
\* any mix of ordinary, unanswered, SASL and re-auth traffic: the marker the
\* default handler pops belongs to the reply it holds (the api key and version
\* decide how the reply is parsed and rewritten), and the SASL v0 handler gets
\* exactly the bare token's reply.
RepliesPaired ==
    /\ pc["responses"] = "getMarker" /\ openRequests # <<>> =>
            Head(openRequests) = Marker(reply.apiKey, reply.num)
    /\ wire # <<>> =>
            /\ pc["responses"] = "readHeader" => Head(wire).apiKey # "Raw"
            /\ pc["responses"] = "readRaw" => Head(wire).apiKey = "Raw"

\* The request loop never returns a nil error, so copyError never calls Error()
\* on nil and the loop that ends first always closes both connections.
ErrorAlwaysSet == \A l \in Loops : pc[l] \notin {"exitNil", "panicked"}

\* The +2 of newProcessor is enough: whoever has a response handler to push finds
\* room, so neither a re-auth nor a request ends a connection for want of it.
HandlerRoom ==
    pc["requests"] \in {"putHandler", "handshakeHandler", "authenticateHandler"} =>
        Len(nextResponseHandler) < handlerCapacity

\* The response loop finds a channel empty only while the request loop is on its
\* way to fill it (or ended): the five-second waits never punish a pairing that
\* has run dry.
StarvationTransient ==
    /\ pc["responses"] = "getHandler" /\ nextResponseHandler = <<>> =>
            \/ Ended("requests")
            \/ pc["requests"] \in {"putHandler", "handshakeHandler", "authenticateMarker",
                                   "authenticateHandler"}
    /\ pc["responses"] = "getMarker" /\ openRequests = <<>> =>
            \/ Ended("requests")
            \/ pc["requests"] \in {"writeAuthenticate", "markInFlight", "handshakeMarker",
                                   "handshakeHandler", "authenticateMarker"}

\* While both loops run, a re-auth is marked in flight exactly as long as its
\* answer is still to come: the response loop never completes one that is not in
\* flight (its CompleteReauth would be undone by a late MarkInFlight), and the
\* flag never outlives the answer that clears it.
InFlightAccurate ==
    LET Unanswered ==
            \/ \E i \in 1..Len(wire) : wire[i].id = reauthCorrelationID
            \/ pc["responses"] \in {"getMarker", "consume"} /\ reply.id = reauthCorrelationID
    IN  /\ pc["responses"] = "consume" /\ reply.id = reauthCorrelationID => inFlight
        /\ inFlight /\ (\A l \in Loops : ~Ended(l)) => Unanswered

\* The client sees a plain FIFO connection: one reply per request, in order, and
\* never the answer to a request the proxy injected.
Client == INSTANCE ClientView
ClientSpec == Client!Spec

\* When one loop ends, the other one ends too and both connections get closed.
TornDown == \A l \in Loops : pc[l] = "done"
TeardownCompletes ==
    (\E l \in Loops : Ended(l)) ~> (TornDown /\ ~remoteOpen /\ ~localOpen)
=============================================================================
