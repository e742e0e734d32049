-------------------------- MODULE ProcessorDelivery --------------------------
(***************************************************************************)
(* What module Processor promises to the client and about the re-auth, for *)
(* every value of the constants: the connection implements ClientView, the *)
(* in-flight flag follows the re-auth's answer (InFlightAccurate), and the *)
(* response-handler channel always has room (HandlerRoom).                 *)
(*                                                                         *)
(* Module ProcessorPairing shows that a reply meets its own marker; here   *)
(* the correlation ids are added: which of the replies still to come are   *)
(* the client's, in which order, and which one ends a re-auth.             *)
(***************************************************************************)
EXTENDS ProcessorPairing

FrameId(i) == IF i = 0 THEN reply.id ELSE wire[i].id

\* A request is the client's, or one of the two the proxy injects.
Labelled(frame) ==
    \/ frame.id >= 1
    \/ frame.id = reauthCorrelationID /\ frame.apiKey = "SaslAuthenticate"
    \/ frame.id = reauthHandshakeCorrelationID /\ frame.apiKey = "SaslHandshakeV1"

\* Frame i's reply has not been handed to the client; 0 is the reply read last.
Pending(i) == i \in 1..Len(wire) \/ (i = 0 /\ Response({"getMarker", "forward"}))

\* Client requests that were handed to the broker.
Asked == IF InHand THEN sent - 1 ELSE sent

\* Whose reply each frame is, and that the response loop acts on it.
Identified ==
    /\ \A i \in 1..Len(wire) : Labelled(wire[i])
    /\ Response({"getMarker"}) => Labelled(reply)
    /\ Response({"forward"}) => reply.id >= 1
    /\ Response({"consume"}) => reply.id \in {reauthCorrelationID, reauthHandshakeCorrelationID}
    /\ InHand => request.id = sent

\* The client's requests that are still unanswered, in the order they were sent.
InOrder ==
    /\ Len(delivered) <= Asked
    /\ \A i \in 0..Len(wire) : Pending(i) /\ FrameId(i) >= 1 =>
            Len(delivered) < FrameId(i) /\ FrameId(i) <= Asked
    /\ \A i, k \in 0..Len(wire) :
            Pending(i) /\ i < k /\ FrameId(i) >= 1 /\ FrameId(k) >= 1 => FrameId(i) < FrameId(k)

\* None of them is lost while the response loop runs, unless the request loop
\* ended with the last one in its hands.
LastWritten == IF Ended("requests") THEN sent - 1 ELSE Asked
NoneLost ==
    ~Ended("responses") =>
        \A n \in (Len(delivered) + 1)..LastWritten :
            \E i \in 0..Len(wire) : Pending(i) /\ FrameId(i) = n

Answering == Identified /\ InOrder /\ NoneLost

\* The answer to a re-auth is still to come, or is being consumed.
Unanswered(i) ==
    /\ FrameId(i) = reauthCorrelationID
    /\ i = 0 => Response({"getMarker", "consume"})

\* There is at most one, and then a re-auth is in flight.
ReauthTracked ==
    ~Ended("responses") =>
        /\ \A i, k \in 0..Len(wire) : Unanswered(i) /\ Unanswered(k) => i = k
        /\ (\E i \in 0..Len(wire) : Unanswered(i)) <=> inFlight \/ Request({"markInFlight"})
        /\ Request({"markInFlight"}) => FrameId(Len(wire)) = reauthCorrelationID
        /\ Request({"buildReauth", "writeHandshake", "writeAuthenticate", "markInFlight"}) => ~inFlight

\* A bare SASL v0 token, which gets a response handler but no marker.
TokenInHand == Request({"write"}) /\ request.apiKey = "Raw"
TokenOnWire == \E i \in 1..Len(wire) : wire[i].apiKey = "Raw"

\* A client that waits for the answer to its handshake has one token under way.
OneToken ==
    ~SaslV0Pipelined =>
        /\ \A i, k \in 1..Len(wire) : wire[i].apiKey = "Raw" /\ wire[k].apiKey = "Raw" => i = k
        /\ ~(TokenInHand /\ TokenOnWire)

\* A reply whose handler is taken and whose marker is not,
Unmatched == IF Response({"readHeader", "readRaw", "getMarker"}) THEN 1 ELSE 0

\* the handlers still to be pushed for what has a marker or needs none,
ToPush == IF Request({"write"}) /\ InHand THEN 1 ELSE Owed

\* and the markers still to be sent for what is on the wire.
ToMark == IF Request({"sendMarker"}) THEN 0 ELSE Unmarked

TokenUnderWay == IF TokenInHand \/ TokenOnWire THEN 1 ELSE 0

\* Response handlers exceed the markers by the pre-seeded one and the token's.
HandlersBounded ==
    ~SaslV0Pipelined /\ ~Ended("requests") =>
        Len(nextResponseHandler) + Unmatched + ToPush <= Len(openRequests) + ToMark + 1 + TokenUnderWay

------------------------------------------------------------------------------
USE DEF Frame, Marker, Goto, Move, channelVars, clientVars, socketVars, dataVars, Request, Response

\* What a step of the request loop means to the client: nothing,
Keeps ==
    /\ UNCHANGED <<reply, wire, sent, delivered>> /\ pc'["responses"] = pc["responses"]
    /\ InHand' => InHand /\ request' = request
    /\ InHand => InHand' \/ Ended("requests")'
    /\ Ended("requests") => Ended("requests")'

\* a request is read,
Numbers ==
    /\ UNCHANGED <<reply, wire, delivered>> /\ pc'["responses"] = pc["responses"]
    /\ sent' = sent + 1 /\ request'.id = sent' /\ ~InHand /\ InHand'
    /\ ~Ended("requests") /\ ~Ended("requests")'

\* or one is written to the broker.
Writes(frame) ==
    /\ wire' = Append(wire, frame)
    /\ UNCHANGED <<reply, sent, delivered>> /\ pc'["responses"] = pc["responses"]
    /\ \/ InHand /\ frame.id = request.id
       \/ ~InHand /\ ~(frame.id >= 1) /\ Labelled(frame)
    /\ ~InHand' /\ ~Ended("requests") /\ ~Ended("requests")'

\* The steps of the response loop that deliver nothing and read nothing.
Skips ==
    /\ UNCHANGED <<reply, wire, sent, delivered, request>> /\ pc'["requests"] = pc["requests"]
    /\ ~Response({"getMarker", "forward", "consume"})'
    /\ Response({"getMarker", "forward"}) \/ Ended("responses") => Ended("responses")'

\* Every step of the request loop is one of the three.
LEMMA RequestEffect ==
    ASSUME Inv, RequestStep \/ FromClient
    PROVE  Keeps \/ Numbers \/ \E frame \in Frames : Writes(frame)
<1> USE DEF InHand, Ended, EndPlaces
<1>1. CASE QuietRequestStep
  <2>1. CASE ReauthDone \/ ReadTimeout \/ NextRequest
    <3>1. pc'["requests"] \in {"top", "read", "readRaw", "exit", "exitNil"} /\ pc'["responses"] = pc["responses"]
      BY <2>1, RequestGoto DEF ReauthDone, ReadTimeout, NextRequest, PutRequestHandler
    <3>2. QED
      BY <2>1, <3>1 DEF ReauthDone, ReadTimeout, NextRequest, Keeps
  <2>2. CASE InFlightExpired \/ ReadRequestClosed \/ ReadRequestFails \/ SendMarkerTimeout \/ PutResponseHandlerTimeout \/ WriteFails
    <3>1. pc'["requests"] = "exit" /\ pc'["responses"] = pc["responses"]
      BY <2>2, RequestGoto DEF InFlightExpired, ReadRequestClosed, ReadRequestFails, SendMarkerTimeout,
           PutResponseHandlerTimeout, WriteFails
    <3>2. UNCHANGED <<reply, wire, sent, delivered>>
      BY <2>2 DEF InFlightExpired, ReadRequestClosed, ReadRequestFails, SendMarkerTimeout,
           PutResponseHandlerTimeout, WriteFails
    <3>3. QED
      BY <3>1, <3>2 DEF Keeps
  <2>3. CASE BuildReauth \/ MarkInFlight \/ StartReauth
    <3>1. pc'["requests"] \in {"writeHandshake", "handshakeMarker", "buildReauth"} /\ pc'["responses"] = pc["responses"]
      BY <2>3, RequestGoto DEF BuildReauth, MarkInFlight, StartReauth
    <3>2. QED
      BY <2>3, <3>1 DEF BuildReauth, MarkInFlight, StartReauth, Keeps
  <2>4. CASE CopyThenClose("requests")
    <3>1. /\ pc'["requests"] \in {"panicked", "closeRemote", "closeLocal", "done"}
          /\ pc'["responses"] = pc["responses"]
      BY <2>4, RequestGoto DEF CopyThenClose, PublishError, CloseRemote, CloseLocal
    <3>2. QED
      BY <2>4, <3>1 DEF CopyThenClose, PublishError, CloseRemote, CloseLocal, Keeps
  <2>5. QED
    BY <1>1, <2>1, <2>2, <2>3, <2>4 DEF QuietRequestStep
<1>2. CASE SendMarker
  <2>1. pc'["requests"] = "write" /\ pc'["responses"] = pc["responses"]
    BY <1>2, RequestGoto DEF SendMarker
  <2>2. QED
    BY <1>2, <2>1 DEF SendMarker, Keeps, Inv, MarkerReady
<1>3. CASE EnqueueHandshakeMarker \/ EnqueueAuthenticateMarker
  <2>1. pc'["requests"] \in {"handshakeHandler", "authenticateHandler", "exit"} /\ pc'["responses"] = pc["responses"]
    BY <1>3, RequestGoto DEF EnqueueHandshakeMarker, EnqueueAuthenticateMarker, EnqueueMarker
  <2>2. QED
    BY <1>3, <2>1 DEF EnqueueHandshakeMarker, EnqueueAuthenticateMarker, EnqueueMarker, Keeps
<1>4. CASE EnqueueHandshakeHandler \/ EnqueueAuthenticateHandler
  <2>1. pc'["requests"] \in {"authenticateMarker", "reauthDone", "exit"} /\ pc'["responses"] = pc["responses"]
    BY <1>4, RequestGoto DEF EnqueueHandshakeHandler, EnqueueAuthenticateHandler, EnqueueHandler
  <2>2. QED
    BY <1>4, <2>1 DEF EnqueueHandshakeHandler, EnqueueAuthenticateHandler, EnqueueHandler, Keeps
<1>5. CASE PutResponseHandler
  <2>1. pc'["requests"] = "top" /\ pc'["responses"] = pc["responses"]
    BY <1>5, RequestGoto DEF PutResponseHandler
  <2>2. QED
    BY <1>5, <2>1 DEF PutResponseHandler, Keeps
<1>6. CASE WriteReauthHandshake
  <2> DEFINE frame == Frame("SaslHandshakeV1", reauthHandshakeCorrelationID, issued + 1)
  <2>1. pc'["requests"] = "writeAuthenticate" /\ pc'["responses"] = pc["responses"]
    BY <1>6, RequestGoto DEF WriteReauthHandshake, WriteReauth
  <2>2. frame \in Frames
    BY DEF Inv, TypeOK, DataOK, Frames, Apis, reauthHandshakeCorrelationID
  <2>3. Labelled(frame) /\ ~(frame.id >= 1)
    BY DEF Labelled, reauthHandshakeCorrelationID
  <2>4. Writes(frame)
    BY <1>6, <2>1, <2>3 DEF WriteReauthHandshake, WriteReauth, Writes
  <2>5. QED
    BY <2>2, <2>4
<1>7. CASE WriteReauthAuthenticate
  <2> DEFINE frame == Frame("SaslAuthenticate", reauthCorrelationID, issued + 1)
  <2>1. pc'["requests"] = "markInFlight" /\ pc'["responses"] = pc["responses"]
    BY <1>7, RequestGoto DEF WriteReauthAuthenticate, WriteReauth
  <2>2. frame \in Frames
    BY DEF Inv, TypeOK, DataOK, Frames, Apis, reauthCorrelationID
  <2>3. Labelled(frame) /\ ~(frame.id >= 1)
    BY DEF Labelled, reauthCorrelationID
  <2>4. Writes(frame)
    BY <1>7, <2>1, <2>3 DEF WriteReauthAuthenticate, WriteReauth, Writes
  <2>5. QED
    BY <2>2, <2>4
<1>8. CASE WriteRequest
  <2>1. pc["requests"] = "write" /\ nextRequestHandler = <<>> /\ request \in Frames
    BY <1>8 DEF WriteRequest, Inv, TypeOK, ChannelsOK, DataOK, HandlerParked
  <2>2. CASE request.apiKey = "ProduceAcks0"
    <3>1. Goto("requests", "top") /\ UNCHANGED <<reply, wire, sent, delivered>>
      BY <1>8, <2>1, <2>2 DEF WriteRequest, PutRequestHandler
    <3>2. pc'["requests"] = "top" /\ pc'["responses"] = pc["responses"]
      BY <3>1, RequestGoto
    <3>3. QED
      BY <2>1, <2>2, <3>1, <3>2 DEF Keeps
  <2>3. CASE request.apiKey # "ProduceAcks0"
    <3>1. Goto("requests", "putHandler") /\ wire' = Append(wire, request) /\ UNCHANGED <<reply, sent, delivered>>
      BY <1>8, <2>1, <2>3 DEF WriteRequest, PutRequestHandler
    <3>2. pc'["requests"] = "putHandler" /\ pc'["responses"] = pc["responses"]
      BY <3>1, RequestGoto
    <3>3. Writes(request)
      BY <2>1, <2>3, <3>1, <3>2 DEF Writes
    <3>4. QED
      BY <2>1, <3>3
  <2>4. QED
    BY <2>2, <2>3
<1>9. ASSUME NEW key \in ClientApis, ReadRequest(key)
      PROVE  Keeps \/ Numbers
  <2>1. CASE key = "ProduceAcks0"
    <3>1. Goto("requests", "write") /\ UNCHANGED <<reply, wire, sent, delivered>> /\ request'.apiKey = "ProduceAcks0"
      BY <1>9, <2>1 DEF ReadRequest
    <3>2. pc'["requests"] = "write" /\ pc'["responses"] = pc["responses"]
      BY <3>1, RequestGoto
    <3>3. QED
      BY <1>9, <3>1, <3>2 DEF ReadRequest, Keeps
  <2>2. CASE key # "ProduceAcks0"
    <3>1. Goto("requests", "sendMarker") /\ UNCHANGED <<reply, wire, delivered>> /\ sent' = sent + 1 /\ request'.id = sent'
      BY <1>9, <2>2 DEF ReadRequest
    <3>2. pc'["requests"] = "sendMarker" /\ pc'["responses"] = pc["responses"]
      BY <3>1, RequestGoto
    <3>3. QED
      BY <1>9, <3>1, <3>2 DEF ReadRequest, Numbers
  <2>3. QED
    BY <2>1, <2>2
<1>10. CASE ReadSaslToken
  <2>1. pc'["requests"] = "write" /\ pc'["responses"] = pc["responses"]
    BY <1>10, RequestGoto DEF ReadSaslToken
  <2>2. request'.apiKey = "Raw" /\ request'.id = sent' /\ sent' = sent + 1
    BY <1>10 DEF ReadSaslToken
  <2>3. QED
    BY <1>10, <2>1, <2>2 DEF ReadSaslToken, Numbers
<1>11. QED
  BY <1>1, <1>2, <1>3, <1>4, <1>5, <1>6, <1>7, <1>8, <1>9, <1>10 DEF RequestStep, FromClient, QuietRequestStep

\* A step of the response loop skips, or reads, pairs or delivers a reply.
LEMMA ResponseEffect ==
    ASSUME Inv, ResponseStep \/ FromBroker
    PROVE  Skips \/ ReadReply \/ ReceiveMarker \/ ForwardReply
<1> USE DEF Ended, EndPlaces
<1>1. CASE GetNextResponseHandler
  <2>1. pc'["responses"] \in {"readHeader", "readRaw"} /\ pc'["requests"] = pc["requests"]
    BY <1>1, ResponseGoto DEF GetNextResponseHandler
  <2>2. QED
    BY <1>1, <2>1 DEF GetNextResponseHandler, Skips
<1>2. CASE ResponseHandlerMissing \/ ReadReplyClosed \/ ReadReplyFails \/ MarkerMissing \/ ReplyFails
  <2>1. pc'["responses"] = "exit" /\ pc'["requests"] = pc["requests"]
    BY <1>2, ResponseGoto DEF ResponseHandlerMissing, ReadReplyClosed, ReadReplyFails, MarkerMissing, ReplyFails
  <2>2. UNCHANGED <<reply, wire, sent, delivered, request>>
    BY <1>2 DEF ResponseHandlerMissing, ReadReplyClosed, ReadReplyFails, MarkerMissing, ReplyFails
  <2>3. QED
    BY <2>1, <2>2 DEF Skips
<1>3. CASE CompleteReauthHandshake \/ CompleteReauth
  <2>1. pc["responses"] = "consume" /\ pc'["responses"] = "getHandler" /\ pc'["requests"] = pc["requests"]
    BY <1>3, ResponseGoto DEF CompleteReauthHandshake, CompleteReauth
  <2>2. QED
    BY <1>3, <2>1 DEF CompleteReauthHandshake, CompleteReauth, Skips
<1>4. CASE CopyThenClose("responses")
  <2>1. /\ pc'["responses"] \in {"panicked", "closeRemote", "closeLocal", "done"}
        /\ pc'["requests"] = pc["requests"]
    BY <1>4, ResponseGoto DEF CopyThenClose, PublishError, CloseRemote, CloseLocal
  <2>2. QED
    BY <1>4, <2>1 DEF CopyThenClose, PublishError, CloseRemote, CloseLocal, Skips
<1>5. QED
  BY <1>1, <1>2, <1>3, <1>4 DEF ResponseStep, FromBroker

------------------------------------------------------------------------------
\* The types of the correlation ids and counters.
LEMMA IdTypes ==
    ASSUME Inv
    PROVE  /\ reply.id \in Int /\ request.id \in Int /\ sent \in Nat /\ Len(delivered) \in Nat /\ Asked \in Int
           /\ \A i \in 1..Len(wire) : wire[i].id \in Int
           /\ \A i \in 0..Len(wire) : FrameId(i) \in Int
<1>1. reply.id \in Int /\ request.id \in Int /\ sent \in Nat /\ Len(delivered) \in Nat
  BY DEF Inv, TypeOK, DataOK, Frames
<1>2. Asked \in Int
  BY <1>1 DEF Asked
<1>3. \A i \in 1..Len(wire) : wire[i].id \in Int
  BY Elements DEF Frames
<1>4. \A i \in 0..Len(wire) : FrameId(i) \in Int
  BY <1>1, <1>3, Elements DEF FrameId
<1>5. QED
  BY <1>1, <1>2, <1>3, <1>4

\* A step that leaves requests and replies alone keeps the account.
LEMMA KeepsAnswering ==
    ASSUME Inv, Inv', Answering, Keeps
    PROVE  Answering'
<1> USE Elements, IdTypes
<1>1. /\ \A i : FrameId(i)' = FrameId(i)
      /\ \A i : Pending(i)' <=> Pending(i)
  BY DEF Keeps, FrameId, Pending
<1>2. Asked <= Asked' /\ Asked' \in Int
  BY DEF Keeps, Asked
<1>3. LastWritten' <= LastWritten /\ LastWritten \in Int /\ LastWritten' \in Int
  BY DEF Keeps, Asked, LastWritten
<1>4. Identified'
  BY DEF Answering, Keeps, Identified, Labelled
<1>5. InOrder'
  <2>1. Len(delivered') <= Asked'
    BY <1>2 DEF Answering, Keeps, InOrder
  <2>2. ASSUME NEW i \in 0..Len(wire), Pending(i), FrameId(i) >= 1
        PROVE  Len(delivered) < FrameId(i) /\ FrameId(i) <= Asked'
    BY <1>2, <2>2 DEF Answering, InOrder
  <2>3. QED
    BY <1>1, <2>1, <2>2 DEF Answering, Keeps, InOrder
<1>6. NoneLost'
  <2>1. SUFFICES ASSUME ~Ended("responses"), NEW n \in (Len(delivered) + 1)..LastWritten'
                 PROVE  \E i \in 0..Len(wire) : Pending(i) /\ FrameId(i) = n
    BY <1>1 DEF Keeps, NoneLost, Ended
  <2>2. n \in (Len(delivered) + 1)..LastWritten
    BY <1>3
  <2>3. QED
    BY <2>1, <2>2 DEF Answering, NoneLost
<1>7. QED
  BY <1>4, <1>5, <1>6 DEF Answering

\* So does one that reads a request,
LEMMA NumbersAnswering ==
    ASSUME Inv, Inv', Answering, Numbers
    PROVE  Answering'
<1> USE Elements, IdTypes
<1>1. /\ \A i : FrameId(i)' = FrameId(i)
      /\ \A i : Pending(i)' <=> Pending(i)
  BY DEF Numbers, FrameId, Pending
<1>2. Asked' = Asked /\ LastWritten' = LastWritten
  BY DEF Numbers, Asked, LastWritten
<1>3. Identified'
  BY DEF Answering, Numbers, Identified, Labelled
<1>4. InOrder'
  BY <1>1, <1>2 DEF Answering, Numbers, InOrder
<1>5. NoneLost'
  BY <1>1, <1>2 DEF Answering, Numbers, NoneLost, Ended
<1>6. QED
  BY <1>3, <1>4, <1>5 DEF Answering

\* one that writes a request to the broker, the client's or the proxy's,
LEMMA WritesAnswering ==
    ASSUME Inv, Inv', Answering, NEW frame \in Frames, Writes(frame)
    PROVE  Answering'
<1> USE Elements, IdTypes
<1>1. /\ Len(wire') = Len(wire) + 1
      /\ \A i \in 1..Len(wire) : wire'[i] = wire[i]
      /\ wire'[Len(wire) + 1] = frame
  BY AppendFacts, AppendAt DEF Writes, Inv, TypeOK, DataOK
<1>2. /\ \A i \in 0..Len(wire) : FrameId(i)' = FrameId(i)
      /\ \A i \in 0..Len(wire) : Pending(i)' <=> Pending(i)
      /\ FrameId(Len(wire))' = frame.id /\ Pending(Len(wire))'
  BY <1>1 DEF Writes, FrameId, Pending
<1>3. frame.id \in Int /\ Asked' = sent /\ Asked <= Asked' /\ Len(delivered) <= Asked
  BY DEF Writes, Asked, Answering, InOrder, Frames
<1>4. frame.id >= 1 => frame.id = sent /\ Asked = sent - 1
  BY DEF Writes, Asked, Answering, Identified
<1>5. Identified'
  <2>1. Labelled(frame)
    BY <1>3, <1>4 DEF Writes, Labelled, Answering, Identified, InOrder, Asked
  <2>2. \A i \in 1..Len(wire') : Labelled(wire'[i])
    BY <1>1, <2>1 DEF Answering, Identified
  <2>3. QED
    BY <2>2 DEF Answering, Writes, Identified, Labelled
<1>6. InOrder'
  <2>1. ASSUME NEW i \in 0..Len(wire'), Pending(i)', FrameId(i)' >= 1
        PROVE  Len(delivered) < FrameId(i)' /\ FrameId(i)' <= Asked'
    <3>1. CASE i = Len(wire')
      BY <1>2, <1>3, <1>4, <2>1, <3>1
    <3>2. CASE i \in 0..Len(wire)
      BY <1>2, <1>3, <2>1, <3>2 DEF Answering, InOrder
    <3>3. QED
      BY <1>1, <3>1, <3>2
  <2>2. ASSUME NEW i \in 0..Len(wire'), NEW k \in 0..Len(wire'),
               Pending(i)', i < k, FrameId(i)' >= 1, FrameId(k)' >= 1
        PROVE  FrameId(i)' < FrameId(k)'
    <3>1. i \in 0..Len(wire)
      BY <1>1, <2>2
    <3>2. CASE k = Len(wire')
      <4>1. FrameId(i) <= Asked
        BY <1>2, <2>2, <3>1 DEF Answering, InOrder
      <4>2. QED
        BY <1>2, <1>4, <2>2, <3>1, <3>2, <4>1
    <3>3. CASE k \in 0..Len(wire)
      BY <1>2, <2>2, <3>1, <3>3 DEF Answering, InOrder
    <3>4. QED
      BY <1>1, <3>2, <3>3
  <2>3. Len(delivered') <= Asked'
    BY <1>3 DEF Writes
  <2>4. QED
    BY <2>1, <2>2, <2>3 DEF Writes, InOrder
<1>7. NoneLost'
  <2>1. SUFFICES ASSUME ~Ended("responses"), NEW n \in (Len(delivered) + 1)..sent
                 PROVE  \E i \in 0..Len(wire') : Pending(i)' /\ FrameId(i)' = n
    BY <1>3 DEF Writes, NoneLost, LastWritten, Ended
  <2>2. LastWritten = Asked
    BY DEF LastWritten, Writes
  <2>3. CASE n \in (Len(delivered) + 1)..Asked
    <3>1. PICK i \in 0..Len(wire) : Pending(i) /\ FrameId(i) = n
      BY <2>1, <2>2, <2>3 DEF Answering, NoneLost
    <3>2. i \in 0..Len(wire') /\ Pending(i)' /\ FrameId(i)' = n
      BY <1>1, <1>2, <3>1
    <3>3. QED
      BY <3>2
  <2>4. CASE n = sent /\ Asked = sent - 1
    <3>1. frame.id = sent
      BY <2>4 DEF Writes, Asked, Answering, Identified
    <3>2. Len(wire') \in 0..Len(wire')
      BY <1>1
    <3>3. QED
      BY <1>2, <2>4, <3>1, <3>2
  <2>5. Asked = sent \/ Asked = sent - 1
    BY DEF Asked
  <2>6. QED
    BY <2>3, <2>4, <2>5
<1>8. QED
  BY <1>5, <1>6, <1>7 DEF Answering

\* and one of the response loop that delivers and reads nothing.
LEMMA SkipsAnswering ==
    ASSUME Inv, Inv', Answering, Skips
    PROVE  Answering'
<1> USE Elements, IdTypes
<1>1. /\ \A i : FrameId(i)' = FrameId(i)
      /\ \A i \in 0..Len(wire) : Pending(i)' => Pending(i)
      /\ ~Ended("responses")' => \A i : Pending(i)' <=> Pending(i)
  BY DEF Skips, FrameId, Pending, Ended
<1>2. Asked' = Asked /\ LastWritten' = LastWritten
  BY DEF Skips, Asked, LastWritten, InHand, Ended
<1>3. Identified'
  BY DEF Answering, Skips, Identified, Labelled, InHand
<1>4. InOrder'
  BY <1>1, <1>2 DEF Answering, Skips, InOrder
<1>5. NoneLost'
  BY <1>1, <1>2 DEF Answering, Skips, NoneLost, Ended
<1>6. QED
  BY <1>3, <1>4, <1>5 DEF Answering

\* The reply read from the wire is the first one pending.
LEMMA ReadReplyAnswering ==
    ASSUME Inv, Inv', Pairing, Answering, ReadReply
    PROVE  Answering'
<1> USE Elements, IdTypes
<1>1. /\ pc["responses"] \in {"readHeader", "readRaw"} /\ wire # <<>>
      /\ UNCHANGED <<request, sent, delivered>>
      /\ wire' = Tail(wire) /\ reply' = Head(wire)
  BY DEF ReadReply
<1>2. /\ pc'["responses"] = IF pc["responses"] = "readHeader" THEN "getMarker" ELSE "forward"
      /\ pc'["requests"] = pc["requests"]
  BY ResponseGoto DEF ReadReply
<1>3. /\ Len(wire') = Len(wire) - 1 /\ Len(wire) >= 1
      /\ \A i \in 1..Len(wire') : wire'[i] = wire[i + 1]
      /\ reply' = wire[1]
  BY <1>1, TailFacts, TailAt DEF Inv, TypeOK, DataOK
<1>4. ASSUME NEW i \in 0..Len(wire')
      PROVE  /\ i + 1 \in 0..Len(wire) /\ i + 1 \in 1..Len(wire) /\ Pending(i + 1)
             /\ Pending(i)' /\ FrameId(i)' = FrameId(i + 1)
  <2>1. i + 1 \in 0..Len(wire) /\ i + 1 \in 1..Len(wire) /\ i + 1 # 0 /\ (i # 0 => i \in 1..Len(wire'))
    BY <1>3
  <2>2. Pending(i + 1) /\ Pending(i)'
    BY <1>2, <2>1, <1>1 DEF Pending
  <2>3. FrameId(i)' = FrameId(i + 1)
    BY <1>3, <2>1 DEF FrameId
  <2>4. QED
    BY <2>1, <2>2, <2>3
<1>5. Asked' = Asked /\ LastWritten' = LastWritten /\ (InHand' <=> InHand)
  BY <1>1, <1>2 DEF Asked, LastWritten, InHand, Ended
<1>6. ~Ended("responses") /\ Aligned
  BY <1>1 DEF Ended, EndPlaces, Pairing
<1>7. Identified'
  <2>1. Labelled(reply')
    BY <1>3 DEF Answering, Identified
  <2>2. pc["responses"] = "readRaw" => reply'.apiKey = "Raw"
    <3>1. wire[1].apiKey = "Raw" <=> FrameKey(1 - 1) = "SaslHandshakeV0"
      BY <1>3, <1>6 DEF Aligned, TokensFollow
    <3>2. QED
      BY <1>3, <1>6, <3>1 DEF FrameKey, Aligned, HandlersRight
  <2>3. pc["responses"] = "readRaw" => reply'.id >= 1
    BY <2>1, <2>2 DEF Labelled
  <2>4. ASSUME NEW i \in 1..Len(wire') PROVE Labelled(wire'[i])
    <3>1. i + 1 \in 1..Len(wire) /\ wire'[i] = wire[i + 1]
      BY <1>3
    <3>2. QED
      BY <3>1 DEF Answering, Identified
  <2>5. InHand' => request'.id = sent'
    BY <1>1, <1>5 DEF Answering, Identified
  <2>6. QED
    BY <1>1, <1>2, <2>1, <2>3, <2>4, <2>5 DEF Identified, Labelled
<1>8. InOrder'
  <2>1. Len(delivered') <= Asked'
    BY <1>1, <1>5 DEF Answering, InOrder
  <2>2. ASSUME NEW i \in 0..Len(wire'), FrameId(i)' >= 1
        PROVE  Len(delivered') < FrameId(i)' /\ FrameId(i)' <= Asked'
    BY <1>1, <1>4, <1>5, <2>2 DEF Answering, InOrder
  <2>3. ASSUME NEW i \in 0..Len(wire'), NEW k \in 0..Len(wire'), i < k, FrameId(i)' >= 1, FrameId(k)' >= 1
        PROVE  FrameId(i)' < FrameId(k)'
    <3>1. i + 1 < k + 1
      BY <1>3, <2>3
    <3>2. QED
      BY <1>4, <2>3, <3>1 DEF Answering, InOrder
  <2>4. QED
    BY <2>1, <2>2, <2>3 DEF InOrder
<1>9. NoneLost'
  <2>1. SUFFICES ASSUME NEW n \in (Len(delivered) + 1)..LastWritten
                 PROVE  \E i \in 0..Len(wire') : Pending(i)' /\ FrameId(i)' = n
    BY <1>1, <1>5 DEF NoneLost
  <2>2. PICK i \in 0..Len(wire) : Pending(i) /\ FrameId(i) = n
    BY <1>6, <2>1 DEF Answering, NoneLost
  <2>3. i # 0
    BY <1>1, <2>2 DEF Pending
  <2>4. i - 1 \in 0..Len(wire') /\ (i - 1) + 1 = i
    BY <1>3, <2>3
  <2>5. Pending(i - 1)' /\ FrameId(i - 1)' = n
    BY <1>4, <2>2, <2>4
  <2>6. QED
    BY <2>4, <2>5
<1>10. QED
  BY <1>7, <1>8, <1>9 DEF Answering

\* The pairing decides whose reply it is: consumed exactly if the proxy asked.
LEMMA ReceiveMarkerAnswering ==
    ASSUME Inv, Inv', Pairing, Answering, ReceiveMarker
    PROVE  Answering' /\ (pc'["responses"] = "consume" <=> ~(reply.id >= 1))
<1> USE Elements, IdTypes
<1>1. /\ pc["responses"] = "getMarker" /\ openRequests # <<>>
      /\ UNCHANGED <<request, reply, wire, sent, delivered>>
  BY DEF ReceiveMarker
<1>2. /\ pc'["responses"] = IF isProxyReauthResponse(Head(openRequests), reply) THEN "consume" ELSE "forward"
      /\ pc'["requests"] = pc["requests"]
  BY ResponseGoto DEF ReceiveMarker
<1>3. Head(openRequests).apiKey = reply.apiKey
  BY <1>1, PairingRepliesPaired DEF RepliesPaired
<1>4. Labelled(reply)
  BY <1>1 DEF Answering, Identified
<1>5. isProxyReauthResponse(Head(openRequests), reply) <=> ~(reply.id >= 1)
  BY <1>3, <1>4 DEF isProxyReauthResponse, isProxyReauthHandshakeResponse, Labelled,
       reauthCorrelationID, reauthHandshakeCorrelationID
<1>6. pc'["responses"] = IF reply.id >= 1 THEN "forward" ELSE "consume"
  BY <1>2, <1>5
<1>7. /\ \A i : FrameId(i)' = FrameId(i)
      /\ \A i \in 0..Len(wire) : Pending(i)' => Pending(i)
      /\ \A i \in 0..Len(wire) : Pending(i) /\ FrameId(i) >= 1 => Pending(i)'
  BY <1>1, <1>6 DEF FrameId, Pending
<1>8. Asked' = Asked /\ LastWritten' = LastWritten /\ (InHand' <=> InHand)
  BY <1>1, <1>2 DEF Asked, LastWritten, InHand, Ended
<1>9. Identified'
  BY <1>1, <1>4, <1>6, <1>8 DEF Answering, Identified, Labelled
<1>10. InOrder'
  BY <1>1, <1>7, <1>8 DEF Answering, InOrder
<1>11. NoneLost'
  <2>1. SUFFICES ASSUME NEW n \in (Len(delivered) + 1)..LastWritten
                 PROVE  \E i \in 0..Len(wire) : Pending(i)' /\ FrameId(i)' = n
    BY <1>1, <1>8 DEF NoneLost
  <2>2. PICK i \in 0..Len(wire) : Pending(i) /\ FrameId(i) = n
    BY <1>1, <2>1 DEF Answering, NoneLost, Ended, EndPlaces
  <2>3. n >= 1
    BY <2>1
  <2>4. QED
    BY <1>7, <2>2, <2>3
<1>12. QED
  BY <1>6, <1>9, <1>10, <1>11 DEF Answering

\* The reply in hand is the one the client waits for.
LEMMA ForwardIsNext ==
    ASSUME Inv, Answering, pc["responses"] = "forward"
    PROVE  reply.id = Len(delivered) + 1 /\ Len(delivered) < Asked
<1> USE Elements, IdTypes
<1>1. 0 \in 0..Len(wire) /\ FrameId(0) = reply.id /\ Pending(0) /\ reply.id >= 1
  BY DEF FrameId, Pending, Answering, Identified
<1>2. Len(delivered) < reply.id /\ reply.id <= Asked
  BY <1>1 DEF Answering, InOrder
<1>3. ASSUME Len(delivered) + 1 < reply.id PROVE FALSE
  <2>1. Len(delivered) + 1 \in (Len(delivered) + 1)..LastWritten
    BY <1>2, <1>3 DEF LastWritten, Asked
  <2>2. PICK i \in 0..Len(wire) : Pending(i) /\ FrameId(i) = Len(delivered) + 1
    BY <2>1 DEF Answering, NoneLost, Ended, EndPlaces
  <2>3. i # 0
    BY <1>1, <1>3, <2>2
  <2>4. reply.id < FrameId(i)
    BY <1>1, <2>2, <2>3 DEF Answering, InOrder
  <2>5. QED
    BY <1>3, <2>2, <2>4
<1>4. QED
  BY <1>2, <1>3

\* Handing it over leaves the ones behind it pending.
LEMMA ForwardAnswering ==
    ASSUME Inv, Inv', Answering, ForwardReply
    PROVE  Answering'
<1> USE Elements, IdTypes
<1>1. /\ pc["responses"] = "forward"
      /\ UNCHANGED <<request, reply, wire, sent>> /\ delivered' = Append(delivered, reply.id)
  BY DEF ForwardReply
<1>2. pc'["responses"] = "getHandler" /\ pc'["requests"] = pc["requests"]
  BY ResponseGoto DEF ForwardReply
<1>3. Len(delivered') = Len(delivered) + 1
  BY <1>1, AppendFacts DEF Inv, TypeOK, DataOK
<1>4. reply.id = Len(delivered) + 1 /\ Len(delivered) < Asked
  BY <1>1, ForwardIsNext
<1>5. /\ \A i : FrameId(i)' = FrameId(i)
      /\ \A i \in 0..Len(wire) : Pending(i)' <=> i # 0
      /\ \A i \in 0..Len(wire) : Pending(i) /\ FrameId(0) = reply.id
  BY <1>1, <1>2 DEF FrameId, Pending
<1>6. Asked' = Asked /\ LastWritten' = LastWritten /\ (InHand' <=> InHand)
  BY <1>1, <1>2 DEF Asked, LastWritten, InHand, Ended
<1>7. Identified'
  BY <1>1, <1>2, <1>6 DEF Answering, Identified, Labelled
<1>8. InOrder'
  <2>1. ASSUME NEW i \in 0..Len(wire), i # 0, FrameId(i) >= 1
        PROVE  Len(delivered) + 1 < FrameId(i) /\ FrameId(i) <= Asked
    <3>1. FrameId(0) < FrameId(i)
      BY <1>4, <1>5, <2>1 DEF Answering, InOrder
    <3>2. QED
      BY <1>4, <1>5, <2>1, <3>1 DEF Answering, InOrder
  <2>2. QED
    BY <1>1, <1>3, <1>4, <1>5, <1>6, <2>1 DEF Answering, InOrder
<1>9. NoneLost'
  <2>1. SUFFICES ASSUME NEW n \in (Len(delivered) + 2)..LastWritten
                 PROVE  \E i \in 0..Len(wire) : Pending(i)' /\ FrameId(i)' = n
    BY <1>1, <1>3, <1>6 DEF NoneLost
  <2>2. LastWritten \in Int
    BY DEF LastWritten
  <2>3. n \in (Len(delivered) + 1)..LastWritten /\ n # reply.id
    BY <1>4, <2>1, <2>2
  <2>4. PICK i \in 0..Len(wire) : Pending(i) /\ FrameId(i) = n
    BY <1>1, <2>3 DEF Answering, NoneLost, Ended, EndPlaces
  <2>5. QED
    BY <1>5, <2>3, <2>4
<1>10. QED
  BY <1>7, <1>8, <1>9 DEF Answering

\* At the start nothing is pending.
LEMMA InitAnswering == Init => Answering
<1> SUFFICES ASSUME Init PROVE Answering
  OBVIOUS
<1>1. /\ pc["requests"] = "top" /\ pc["responses"] = "getHandler"
      /\ Len(wire) = 0 /\ Len(delivered) = 0 /\ sent = 0
  BY DEF Init, Loops
<1>2. ~InHand /\ Asked = 0 /\ LastWritten = 0
  BY <1>1 DEF InHand, Asked, LastWritten, Ended, EndPlaces
<1>3. Identified
  BY <1>1, <1>2 DEF Identified
<1>4. InOrder /\ NoneLost
  BY <1>1, <1>2 DEF InOrder, NoneLost, Pending
<1>5. QED
  BY <1>3, <1>4 DEF Answering

\* Every step keeps the account of the client's requests.
LEMMA NextAnswering == Inv /\ Inv' /\ Pairing /\ Answering /\ [Next]_vars => Answering'
<1> SUFFICES ASSUME Inv, Inv', Pairing, Answering, [Next]_vars PROVE Answering'
  OBVIOUS
<1>1. CASE RequestStep \/ FromClient
  <2>1. ASSUME NEW frame \in Frames, Writes(frame) PROVE Answering'
    BY <2>1, WritesAnswering
  <2>2. QED
    BY <1>1, <2>1, RequestEffect, KeepsAnswering, NumbersAnswering
<1>2. CASE ResponseStep \/ FromBroker
  BY <1>2, ResponseEffect, SkipsAnswering, ReadReplyAnswering, ReceiveMarkerAnswering, ForwardAnswering
<1>3. CASE Terminated \/ UNCHANGED vars
  <2>1. UNCHANGED vars
    BY <1>3 DEF Terminated
  <2>2. Keeps
    BY <2>1 DEF vars, Keeps, InHand, Ended
  <2>3. QED
    BY <2>2, KeepsAnswering
<1>4. QED
  BY <1>1, <1>2, <1>3 DEF Next

\* The replies still to come are the client's unanswered requests, in order,
\* mixed with the proxy's own; each is recognised for what it is.
THEOREM Accounting == Spec => []Answering
BY InitAnswering, NextAnswering, Alignment, Invariance, PTL DEF Spec

\* Only four actions touch what the client sees.
LEMMA ClientUntouched ==
    ASSUME Next \/ UNCHANGED vars,
           \A key \in ClientApis : ~ReadRequest(key), ~ReadSaslToken, ~ForwardReply,
           \A l \in Loops : ~CloseLocal(l)
    PROVE  UNCHANGED <<sent, delivered, localOpen>>
<1>1. CASE QuietRequestStep
  <2>1. CASE CopyThenClose("requests")
    BY <2>1 DEF CopyThenClose, PublishError, CloseRemote, Loops
  <2>2. QED
    BY <1>1, <2>1 DEF QuietRequestStep, NextRequest, InFlightExpired, ReadRequestClosed, BuildReauth, MarkInFlight,
         ReauthDone, SendMarkerTimeout, PutResponseHandlerTimeout, WriteFails, ReadRequestFails, ReadTimeout, StartReauth
<1>2. CASE SendMarker \/ EnqueueHandshakeMarker \/ EnqueueAuthenticateMarker
  BY <1>2 DEF SendMarker, EnqueueHandshakeMarker, EnqueueAuthenticateMarker, EnqueueMarker
<1>3. CASE PutResponseHandler \/ EnqueueHandshakeHandler \/ EnqueueAuthenticateHandler
  BY <1>3 DEF PutResponseHandler, EnqueueHandshakeHandler, EnqueueAuthenticateHandler, EnqueueHandler
<1>4. CASE WriteRequest \/ WriteReauthHandshake \/ WriteReauthAuthenticate
  BY <1>4 DEF WriteRequest, WriteReauthHandshake, WriteReauthAuthenticate, WriteReauth
<1>5. CASE ResponseStep
  <2>1. CASE CopyThenClose("responses")
    BY <2>1 DEF CopyThenClose, PublishError, CloseRemote, Loops
  <2>2. QED
    BY <1>5, <2>1 DEF ResponseStep, GetNextResponseHandler, ResponseHandlerMissing, ReadReplyClosed, ReceiveMarker,
         MarkerMissing, CompleteReauthHandshake, CompleteReauth, ReplyFails
<1>6. CASE FromBroker
  BY <1>6 DEF FromBroker, ReadReply, ReadReplyFails
<1>7. CASE Terminated \/ UNCHANGED vars
  BY <1>7 DEF Terminated, vars
<1>8. CASE RequestStep \/ FromClient
  BY <1>1, <1>2, <1>3, <1>4, <1>8 DEF RequestStep, FromClient, QuietRequestStep
<1>9. QED
  BY <1>5, <1>6, <1>7, <1>8 DEF Next

\* Every step of the connection is a step of the pipe the client believes in.
LEMMA ClientStep ==
    ASSUME Inv, Answering, [Next]_vars
    PROVE  [Client!Next]_(Client!clientVars)
<1> USE DEF Client!Next, Client!clientVars
<1>1. ASSUME NEW key \in ClientApis, ReadRequest(key) PROVE Client!Request \/ UNCHANGED Client!clientVars
  BY <1>1 DEF ReadRequest, Client!Request
<1>2. CASE ReadSaslToken
  BY <1>2 DEF ReadSaslToken, Client!Request
<1>3. CASE ForwardReply
  <2>1. pc["responses"] = "forward" /\ localOpen /\ UNCHANGED <<sent, localOpen>>
        /\ delivered' = Append(delivered, reply.id)
    BY <1>3 DEF ForwardReply
  <2>2. reply.id = Len(delivered) + 1 /\ Len(delivered) < sent
    BY <2>1, ForwardIsNext, IdTypes DEF Asked
  <2>3. Client!Reply
    BY <2>1, <2>2 DEF Client!Reply
  <2>4. QED
    BY <2>3
<1>4. ASSUME NEW l \in Loops, CloseLocal(l) PROVE Client!Close \/ UNCHANGED Client!clientVars
  <2>1. localOpen \in BOOLEAN /\ localOpen' = FALSE /\ UNCHANGED <<sent, delivered>>
    BY <1>4 DEF CloseLocal, Inv, TypeOK, DataOK
  <2>2. CASE localOpen
    BY <2>1, <2>2 DEF Client!Close
  <2>3. CASE ~localOpen
    BY <2>1, <2>3
  <2>4. QED
    BY <2>2, <2>3
<1>5. QED
  BY <1>1, <1>2, <1>3, <1>4, ClientUntouched

\* The proxied connection implements ClientView: the client gets one reply per
\* request, in order, and never the answer to a request the proxy injected.
THEOREM ClientRefinement == Spec => ClientSpec
<1>1. Init => Client!Init
  BY DEF Init, Client!Init
<1>2. QED
  BY <1>1, ClientStep, Accounting, Invariance, PTL DEF Spec, ClientSpec, Client!Spec

------------------------------------------------------------------------------
(* The in-flight flag.                                                      *)

ReauthStarting == Request({"buildReauth", "writeHandshake", "writeAuthenticate", "markInFlight"})

\* A step of the request loop that neither writes the token nor marks it in flight.
Plain ==
    /\ UNCHANGED <<reply, inFlight>> /\ pc'["responses"] = pc["responses"]
    /\ wire' = wire \/ \E frame \in Frames : frame.id # reauthCorrelationID /\ wire' = Append(wire, frame)
    /\ ~Request({"markInFlight"}) /\ ~Request({"markInFlight"})'
    /\ ReauthStarting' => ReauthStarting \/ ~inFlight

\* Every step of the request loop but two is plain.
LEMMA PlainSteps ==
    ASSUME Inv, Answering, RequestStep \/ FromClient
    PROVE  Plain \/ WriteReauthAuthenticate \/ MarkInFlight
<1> USE DEF ReauthStarting
<1>1. CASE QuietRequestStep
  <2>1. CASE ReauthDone \/ ReadTimeout \/ NextRequest
    <3>1. pc'["requests"] \in {"top", "read", "readRaw", "exit", "exitNil"} /\ pc'["responses"] = pc["responses"]
      BY <2>1, RequestGoto DEF ReauthDone, ReadTimeout, NextRequest, PutRequestHandler
    <3>2. QED
      BY <2>1, <3>1 DEF ReauthDone, ReadTimeout, NextRequest, Plain
  <2>2. CASE InFlightExpired \/ ReadRequestClosed \/ ReadRequestFails \/ SendMarkerTimeout \/ PutResponseHandlerTimeout \/ WriteFails
    <3>1. /\ pc'["requests"] = "exit" /\ pc'["responses"] = pc["responses"]
          /\ pc["requests"] # "markInFlight" /\ UNCHANGED <<reply, wire, inFlight>>
      BY <2>2, RequestGoto DEF InFlightExpired, ReadRequestClosed, ReadRequestFails, SendMarkerTimeout,
           PutResponseHandlerTimeout, WriteFails
    <3>2. QED
      BY <3>1 DEF Plain
  <2>3. CASE BuildReauth \/ StartReauth
    <3>1. pc'["requests"] \in {"writeHandshake", "buildReauth"} /\ pc'["responses"] = pc["responses"]
      BY <2>3, RequestGoto DEF BuildReauth, StartReauth
    <3>2. QED
      BY <2>3, <3>1 DEF BuildReauth, StartReauth, Plain
  <2>4. CASE CopyThenClose("requests")
    <3>1. /\ pc'["requests"] \in {"panicked", "closeRemote", "closeLocal", "done"}
          /\ pc'["responses"] = pc["responses"] /\ pc["requests"] # "markInFlight"
          /\ UNCHANGED <<reply, wire, inFlight>>
      BY <2>4, RequestGoto DEF CopyThenClose, PublishError, CloseRemote, CloseLocal
    <3>2. QED
      BY <3>1 DEF Plain
  <2>5. QED
    BY <1>1, <2>1, <2>2, <2>3, <2>4 DEF QuietRequestStep
<1>2. CASE SendMarker \/ EnqueueHandshakeMarker \/ EnqueueAuthenticateMarker
  <2>1. /\ pc'["requests"] \in {"write", "handshakeHandler", "authenticateHandler", "exit"}
        /\ pc'["responses"] = pc["responses"]
    BY <1>2, RequestGoto DEF SendMarker, EnqueueHandshakeMarker, EnqueueAuthenticateMarker, EnqueueMarker
  <2>2. QED
    BY <1>2, <2>1 DEF SendMarker, EnqueueHandshakeMarker, EnqueueAuthenticateMarker, EnqueueMarker, Plain
<1>3. CASE PutResponseHandler \/ EnqueueHandshakeHandler \/ EnqueueAuthenticateHandler
  <2>1. /\ pc'["requests"] \in {"top", "authenticateMarker", "reauthDone", "exit"}
        /\ pc'["responses"] = pc["responses"]
    BY <1>3, RequestGoto DEF PutResponseHandler, EnqueueHandshakeHandler, EnqueueAuthenticateHandler, EnqueueHandler
  <2>2. QED
    BY <1>3, <2>1 DEF PutResponseHandler, EnqueueHandshakeHandler, EnqueueAuthenticateHandler, EnqueueHandler, Plain
<1>4. CASE WriteReauthHandshake
  <2> DEFINE frame == Frame("SaslHandshakeV1", reauthHandshakeCorrelationID, issued + 1)
  <2>1. pc'["requests"] = "writeAuthenticate" /\ pc'["responses"] = pc["responses"]
    BY <1>4, RequestGoto DEF WriteReauthHandshake, WriteReauth
  <2>2. frame \in Frames /\ frame.id # reauthCorrelationID
    BY DEF Inv, TypeOK, DataOK, Frames, Apis, reauthHandshakeCorrelationID, reauthCorrelationID
  <2>3. /\ wire' = Append(wire, frame) /\ UNCHANGED <<reply, inFlight>>
        /\ pc["requests"] = "writeHandshake"
    BY <1>4 DEF WriteReauthHandshake, WriteReauth
  <2> HIDE DEF frame
  <2>4. QED
    BY <2>1, <2>2, <2>3 DEF Plain
<1>5. CASE WriteRequest
  <2>1. pc["requests"] = "write" /\ request \in Frames /\ UNCHANGED <<reply, inFlight>>
    BY <1>5 DEF WriteRequest, Inv, TypeOK, DataOK
  <2>2. pc'["requests"] \in {"top", "putHandler", "exit"} /\ pc'["responses"] = pc["responses"]
    BY <1>5, RequestGoto DEF WriteRequest, PutRequestHandler
  <2>3. wire' = wire \/ (InHand /\ wire' = Append(wire, request))
    BY <1>5 DEF WriteRequest, InHand
  <2>4. InHand => request.id # reauthCorrelationID
    BY IdTypes DEF Answering, Identified, InOrder, Asked, reauthCorrelationID
  <2>5. QED
    BY <2>1, <2>2, <2>3, <2>4 DEF Plain
<1>6. ASSUME NEW key \in ClientApis, ReadRequest(key)
      PROVE  Plain
  <2>1. pc'["requests"] \in {"write", "sendMarker"} /\ pc'["responses"] = pc["responses"]
    BY <1>6, RequestGoto DEF ReadRequest
  <2>2. QED
    BY <1>6, <2>1 DEF ReadRequest, Plain
<1>7. CASE ReadSaslToken
  <2>1. pc'["requests"] = "write" /\ pc'["responses"] = pc["responses"]
    BY <1>7, RequestGoto DEF ReadSaslToken
  <2>2. QED
    BY <1>7, <2>1 DEF ReadSaslToken, Plain
<1>8. QED
  BY <1>1, <1>2, <1>3, <1>4, <1>5, <1>6, <1>7 DEF RequestStep, FromClient, QuietRequestStep

\* What ReauthTracked says while the response loop runs.
Tracked ==
    /\ \A i, k \in 0..Len(wire) : Unanswered(i) /\ Unanswered(k) => i = k
    /\ (\E i \in 0..Len(wire) : Unanswered(i)) <=> inFlight \/ Request({"markInFlight"})
    /\ Request({"markInFlight"}) => FrameId(Len(wire)) = reauthCorrelationID
    /\ ReauthStarting => ~inFlight

\* A plain step leaves the outstanding answer as it is.
LEMMA PlainTracked ==
    ASSUME Inv, Inv', Tracked, Plain
    PROVE  Tracked'
<1> USE Elements
<1>1. CASE wire' = wire
  <2>1. \A i : Unanswered(i)' <=> Unanswered(i)
    BY <1>1 DEF Plain, Unanswered, FrameId
  <2>2. QED
    BY <1>1, <2>1 DEF Plain, Tracked
<1>2. ASSUME NEW frame \in Frames, frame.id # reauthCorrelationID, wire' = Append(wire, frame)
      PROVE  Tracked'
  <2>1. /\ Len(wire') = Len(wire) + 1
        /\ \A i \in 1..Len(wire) : wire'[i] = wire[i]
        /\ wire'[Len(wire) + 1] = frame
    BY <1>2, AppendFacts, AppendAt DEF Inv, TypeOK, DataOK
  <2>2. \A i \in 0..Len(wire) : Unanswered(i)' <=> Unanswered(i)
    BY <2>1 DEF Plain, Unanswered, FrameId
  <2>3. \A i \in 0..Len(wire') : Unanswered(i)' => i \in 0..Len(wire)
    BY <1>2, <2>1 DEF Unanswered, FrameId
  <2>4. \A i \in 0..Len(wire) : i \in 0..Len(wire')
    BY <2>1
  <2>5. (\E i \in 0..Len(wire') : Unanswered(i)') <=> (\E i \in 0..Len(wire) : Unanswered(i))
    BY <2>2, <2>3, <2>4
  <2>6. \A i, k \in 0..Len(wire') : Unanswered(i)' /\ Unanswered(k)' => i = k
    BY <2>2, <2>3 DEF Tracked
  <2>7. QED
    BY <2>5, <2>6 DEF Plain, Tracked
<1>3. QED
  BY <1>1, <1>2 DEF Plain

\* The token is written only when no answer to an earlier one is outstanding.
LEMMA WriteTokenTracked ==
    ASSUME Inv, Inv', Tracked, WriteReauthAuthenticate
    PROVE  Tracked'
<1> DEFINE frame == Frame("SaslAuthenticate", reauthCorrelationID, issued + 1)
<1> USE Elements
<1>1. /\ pc["requests"] = "writeAuthenticate" /\ pc'["requests"] = "markInFlight"
      /\ pc'["responses"] = pc["responses"]
  BY RequestGoto DEF WriteReauthAuthenticate, WriteReauth
<1>2. frame \in Frames /\ frame.id = reauthCorrelationID
  BY DEF Frames, Apis, reauthCorrelationID
<1>3. wire' = Append(wire, frame) /\ UNCHANGED <<reply, inFlight>>
  BY DEF WriteReauthAuthenticate, WriteReauth
<1> HIDE DEF frame
<1>4. /\ Len(wire') = Len(wire) + 1
      /\ \A i \in 1..Len(wire) : wire'[i] = wire[i]
      /\ wire'[Len(wire) + 1] = frame
  BY <1>2, <1>3, AppendFacts, AppendAt DEF Inv, TypeOK, DataOK
<1>5. ~inFlight /\ \A i \in 0..Len(wire) : ~Unanswered(i)
  BY <1>1 DEF Tracked, ReauthStarting
<1>6. \A i \in 0..Len(wire) : ~Unanswered(i)'
  BY <1>1, <1>3, <1>4, <1>5 DEF Unanswered, FrameId
<1>7. Len(wire') \in 0..Len(wire') /\ Unanswered(Len(wire))' /\ FrameId(Len(wire))' = reauthCorrelationID
  BY <1>2, <1>4 DEF Unanswered, FrameId
<1>8. \A i \in 0..Len(wire') : Unanswered(i)' => i = Len(wire')
  BY <1>4, <1>6
<1>9. QED
  BY <1>1, <1>3, <1>5, <1>7, <1>8 DEF Tracked

\* MarkInFlight comes after the write, while the answer is still outstanding.
LEMMA MarkTracked ==
    ASSUME Inv, Inv', Tracked, MarkInFlight
    PROVE  Tracked'
<1>1. /\ pc["requests"] = "markInFlight" /\ pc'["requests"] = "handshakeMarker"
      /\ pc'["responses"] = pc["responses"] /\ inFlight' = TRUE /\ UNCHANGED <<reply, wire>>
  BY RequestGoto DEF MarkInFlight
<1>2. \A i : Unanswered(i)' <=> Unanswered(i)
  BY <1>1 DEF Unanswered, FrameId
<1>3. QED
  BY <1>1, <1>2 DEF Tracked, ReauthStarting

\* A step of the response loop that changes which replies are unanswered in no way.
LEMMA ResponseTracked ==
    ASSUME Inv, Inv', Tracked, UNCHANGED <<reply, wire, inFlight>>, pc'["requests"] = pc["requests"],
           reply.id = reauthCorrelationID =>
               (Response({"getMarker", "consume"})' <=> Response({"getMarker", "consume"}))
    PROVE  Tracked'
<1>1. \A i : Unanswered(i)' <=> Unanswered(i)
  BY DEF Unanswered, FrameId
<1>2. FrameId(Len(wire))' = FrameId(Len(wire))
  BY DEF FrameId
<1>3. QED
  BY <1>1, <1>2 DEF Tracked, ReauthStarting

\* Reading a reply moves the outstanding answer one place closer.
LEMMA ReadReplyTracked ==
    ASSUME Inv, Inv', Pairing, Answering, Answering', Tracked, ReadReply
    PROVE  Tracked'
<1> USE Elements, IdTypes
<1>1. /\ pc["responses"] \in {"readHeader", "readRaw"} /\ wire # <<>>
      /\ inFlight' = inFlight /\ wire' = Tail(wire) /\ reply' = Head(wire)
  BY DEF ReadReply
<1>2. /\ pc'["responses"] = IF pc["responses"] = "readHeader" THEN "getMarker" ELSE "forward"
      /\ pc'["requests"] = pc["requests"]
  BY ResponseGoto DEF ReadReply
<1>3. /\ Len(wire') = Len(wire) - 1 /\ Len(wire) >= 1
      /\ \A i \in 1..Len(wire') : wire'[i] = wire[i + 1]
      /\ reply' = wire[1]
  BY <1>1, TailFacts, TailAt DEF Inv, TypeOK, DataOK
<1>4. pc'["responses"] = "forward" => reply'.id # reauthCorrelationID
  BY DEF Answering, Identified, reauthCorrelationID
<1>5. ASSUME NEW i \in 0..Len(wire')
      PROVE  i + 1 \in 0..Len(wire) /\ FrameId(i)' = FrameId(i + 1) /\ (Unanswered(i)' <=> Unanswered(i + 1))
  <2>1. i + 1 \in 0..Len(wire) /\ i + 1 # 0 /\ (i # 0 => i \in 1..Len(wire'))
    BY <1>3
  <2>2. FrameId(i)' = FrameId(i + 1)
    BY <1>3, <2>1 DEF FrameId
  <2>3. i = 0 => FrameId(i)' = reply'.id
    BY DEF FrameId
  <2>4. Unanswered(i)' <=> Unanswered(i + 1)
    BY <1>2, <1>4, <2>1, <2>2, <2>3 DEF Unanswered
  <2>5. QED
    BY <2>1, <2>2, <2>4
<1>6. ASSUME NEW i \in 0..Len(wire), Unanswered(i)
      PROVE  i - 1 \in 0..Len(wire') /\ (i - 1) + 1 = i
  <2>1. i # 0
    BY <1>1, <1>6 DEF Unanswered
  <2>2. QED
    BY <1>3, <2>1
<1>7. (\E i \in 0..Len(wire') : Unanswered(i)') <=> (\E i \in 0..Len(wire) : Unanswered(i))
  <2>1. ASSUME NEW i \in 0..Len(wire'), Unanswered(i)' PROVE \E k \in 0..Len(wire) : Unanswered(k)
    BY <1>5, <2>1
  <2>2. ASSUME NEW i \in 0..Len(wire), Unanswered(i) PROVE \E k \in 0..Len(wire') : Unanswered(k)'
    <3>1. i - 1 \in 0..Len(wire') /\ (i - 1) + 1 = i
      BY <1>6, <2>2
    <3>2. Unanswered(i - 1)'
      BY <1>5, <2>2, <3>1
    <3>3. QED
      BY <3>1, <3>2
  <2>3. QED
    BY <2>1, <2>2
<1>8. ASSUME NEW i \in 0..Len(wire'), NEW k \in 0..Len(wire'), Unanswered(i)', Unanswered(k)' PROVE i = k
  <2>1. i + 1 = k + 1
    BY <1>5, <1>8 DEF Tracked
  <2>2. QED
    BY <1>3, <2>1
<1>9. FrameId(Len(wire))' = FrameId(Len(wire))
  <2>1. Len(wire') \in 0..Len(wire') /\ Len(wire') + 1 = Len(wire)
    BY <1>3
  <2>2. QED
    BY <1>5, <2>1
<1>10. QED
  BY <1>1, <1>2, <1>7, <1>8, <1>9 DEF Tracked, ReauthStarting

\* The answer being consumed is the only one, and MarkInFlight is behind it.
LEMMA CompleteTracked ==
    ASSUME Inv, Inv', Pairing, Answering, Tracked, CompleteReauth
    PROVE  Tracked'
<1> USE Elements
<1>1. /\ pc["responses"] = "consume" /\ pc'["responses"] = "getHandler" /\ pc'["requests"] = pc["requests"]
      /\ inFlight' = FALSE /\ UNCHANGED <<reply, wire>>
  BY ResponseGoto DEF CompleteReauth
<1>2. reply.id = reauthCorrelationID
  BY <1>1 DEF CompleteReauth, Answering, Identified
<1>3. 0 \in 0..Len(wire) /\ Unanswered(0)
  BY <1>1, <1>2 DEF Unanswered, FrameId
<1>4. \A i \in 0..Len(wire) : Unanswered(i) => i = 0
  BY <1>3 DEF Tracked
<1>5. ~Request({"markInFlight"})
  <2>1. SUFFICES ASSUME Request({"markInFlight"}) PROVE FALSE
    OBVIOUS
  <2>2. Len(wire) >= 1
    BY <1>1, <2>1 DEF Pairing, Ended, EndPlaces, Aligned, ReauthOnWire
  <2>3. Len(wire) \in 0..Len(wire) /\ Unanswered(Len(wire))
    BY <2>1, <2>2 DEF Tracked, Unanswered
  <2>4. QED
    BY <1>4, <2>2, <2>3
<1>6. \A i \in 0..Len(wire) : ~Unanswered(i)'
  BY <1>1, <1>4 DEF Unanswered, FrameId
<1>7. QED
  BY <1>1, <1>5, <1>6 DEF Tracked

\* Every step keeps the flag and the outstanding answer together.
LEMMA NextTracked ==
    Inv /\ Inv' /\ Pairing /\ Answering /\ Answering' /\ ReauthTracked /\ [Next]_vars => ReauthTracked'
<1> SUFFICES ASSUME Inv, Inv', Pairing, Answering, Answering', ReauthTracked, [Next]_vars, ~Ended("responses")'
             PROVE  Tracked'
  BY DEF ReauthTracked, Tracked, ReauthStarting
<1>1. Tracked
  BY EndedStays DEF ReauthTracked, Tracked, ReauthStarting
<1>2. CASE RequestStep \/ FromClient
  BY <1>1, <1>2, PlainSteps, PlainTracked, WriteTokenTracked, MarkTracked
<1>3. CASE ReadReply
  BY <1>1, <1>3, ReadReplyTracked
<1>4. CASE CompleteReauth
  BY <1>1, <1>4, CompleteTracked
<1>5. CASE ReceiveMarker
  <2>1. pc["responses"] = "getMarker" /\ pc'["responses"] \in {"consume", "forward"} /\ pc'["requests"] = pc["requests"]
    BY <1>5, ResponseGoto DEF ReceiveMarker
  <2>2. UNCHANGED <<reply, wire, inFlight>>
    BY <1>5 DEF ReceiveMarker
  <2>3. reply.id = reauthCorrelationID => pc'["responses"] = "consume"
    BY <1>5, ReceiveMarkerAnswering DEF reauthCorrelationID
  <2>4. QED
    BY <1>1, <2>1, <2>2, <2>3, ResponseTracked
<1>6. CASE GetNextResponseHandler \/ ForwardReply
  <2>1. /\ pc["responses"] \in {"getHandler", "forward"} /\ pc'["requests"] = pc["requests"]
        /\ pc'["responses"] \in {"readHeader", "readRaw", "getHandler"}
    BY <1>6, ResponseGoto DEF GetNextResponseHandler, ForwardReply
  <2>2. UNCHANGED <<reply, wire, inFlight>>
    BY <1>6 DEF GetNextResponseHandler, ForwardReply
  <2>3. QED
    BY <1>1, <2>1, <2>2, ResponseTracked
<1>7. CASE CompleteReauthHandshake
  <2>1. pc'["requests"] = pc["requests"] /\ UNCHANGED <<reply, wire, inFlight>>
    BY <1>7, ResponseGoto DEF CompleteReauthHandshake
  <2>2. reply.id # reauthCorrelationID
    BY <1>7 DEF CompleteReauthHandshake, reauthCorrelationID, reauthHandshakeCorrelationID
  <2>3. QED
    BY <1>1, <2>1, <2>2, ResponseTracked
<1>8. CASE ResponseHandlerMissing \/ ReadReplyClosed \/ ReadReplyFails \/ MarkerMissing \/ ReplyFails
  <2>1. pc'["responses"] = "exit"
    BY <1>8, ResponseGoto DEF ResponseHandlerMissing, ReadReplyClosed, ReadReplyFails, MarkerMissing, ReplyFails
  <2>2. QED
    BY <2>1 DEF Ended, EndPlaces
<1>9. CASE CopyThenClose("responses")
  <2>1. Ended("responses")
    BY <1>9 DEF CopyThenClose, PublishError, CloseRemote, CloseLocal, Ended, EndPlaces
  <2>2. QED
    BY <2>1, EndedStays
<1>10. CASE Terminated \/ UNCHANGED vars
  <2>1. UNCHANGED vars
    BY <1>10 DEF Terminated
  <2>2. QED
    BY <1>1, <2>1, ResponseTracked DEF vars
<1>11. QED
  BY <1>2, <1>3, <1>4, <1>5, <1>6, <1>7, <1>8, <1>9, <1>10 DEF Next, ResponseStep, FromBroker

\* At the start there is neither.
LEMMA InitTracked == Init => ReauthTracked
<1> SUFFICES ASSUME Init PROVE Tracked
  BY DEF ReauthTracked, Tracked, ReauthStarting
<1>1. pc["requests"] = "top" /\ pc["responses"] = "getHandler" /\ Len(wire) = 0 /\ ~inFlight
  BY DEF Init, Loops
<1>2. \A i \in 0..Len(wire) : ~Unanswered(i)
  BY <1>1 DEF Unanswered
<1>3. QED
  BY <1>1, <1>2 DEF Tracked, ReauthStarting

\* At most one re-auth answer is outstanding, and the flag is set for as long.
THEOREM Tracking == Spec => []ReauthTracked
BY InitTracked, NextTracked, Accounting, Alignment, Invariance, PTL DEF Spec

\* What the tracking says at the places InFlightAccurate names.
LEMMA TrackedInFlight == Inv /\ Pairing /\ ReauthTracked => InFlightAccurate
<1> SUFFICES ASSUME Inv, Pairing, ReauthTracked PROVE InFlightAccurate
  OBVIOUS
<1> USE Elements
<1>1. ASSUME pc["responses"] = "consume", reply.id = reauthCorrelationID PROVE inFlight
  <2>1. Tracked
    BY <1>1 DEF ReauthTracked, Tracked, ReauthStarting, Ended, EndPlaces
  <2>2. 0 \in 0..Len(wire) /\ Unanswered(0)
    BY <1>1 DEF Unanswered, FrameId
  <2>3. ~Request({"markInFlight"})
    <3>1. SUFFICES ASSUME Request({"markInFlight"}) PROVE FALSE
      OBVIOUS
    <3>2. Len(wire) >= 1
      BY <1>1, <3>1 DEF Pairing, Ended, EndPlaces, Aligned, ReauthOnWire
    <3>3. Len(wire) \in 0..Len(wire) /\ Unanswered(Len(wire))
      BY <2>1, <3>1, <3>2 DEF Tracked, Unanswered
    <3>4. QED
      BY <2>1, <2>2, <3>2, <3>3 DEF Tracked
  <2>4. QED
    BY <2>1, <2>2, <2>3 DEF Tracked
<1>2. ASSUME inFlight, ~Ended("responses")
      PROVE  \/ \E i \in 1..Len(wire) : wire[i].id = reauthCorrelationID
             \/ pc["responses"] \in {"getMarker", "consume"} /\ reply.id = reauthCorrelationID
  <2>1. PICK i \in 0..Len(wire) : Unanswered(i)
    BY <1>2 DEF ReauthTracked
  <2>2. QED
    BY <2>1 DEF Unanswered, FrameId
<1>3. QED
  BY <1>1, <1>2 DEF InFlightAccurate, Loops

\* consumeReauthResponse never completes a re-auth that is not in flight, and the
\* flag never outlives the answer that clears it.
THEOREM InFlightIsAccurate == Spec => []InFlightAccurate
BY Tracking, Alignment, Invariance, TrackedInFlight, PTL

------------------------------------------------------------------------------
(* Room for response handlers.                                              *)

\* A step of the request loop that neither writes a request nor reads a token.
LEMMA SameWireOneToken ==
    ASSUME OneToken, wire' = wire, TokenInHand' => TokenInHand
    PROVE  OneToken'
BY DEF OneToken, TokenOnWire

\* A client that does not pipeline sends its token when everything is answered,
\* so no other token is on the wire.
LEMMA TokenAlone ==
    ASSUME Inv, Answering, ReadSaslToken, ~SaslV0Pipelined
    PROVE  ~TokenInHand /\ ~TokenOnWire
<1> USE Elements, IdTypes
<1>1. pc["requests"] = "readRaw" /\ Len(delivered) = sent
  BY DEF ReadSaslToken
<1>2. ~TokenInHand /\ ~InHand
  BY <1>1 DEF TokenInHand, InHand
<1>3. ASSUME NEW i \in 1..Len(wire), wire[i].apiKey = "Raw" PROVE FALSE
  <2>1. wire[i].id >= 1
    BY <1>3 DEF Answering, Identified, Labelled
  <2>2. i \in 0..Len(wire) /\ Pending(i) /\ FrameId(i) = wire[i].id
    BY DEF Pending, FrameId
  <2>3. Len(delivered) < FrameId(i) /\ FrameId(i) <= sent
    BY <1>2, <2>1, <2>2 DEF Answering, InOrder, Asked
  <2>4. QED
    BY <1>1, <2>2, <2>3
<1>4. QED
  BY <1>2, <1>3 DEF TokenOnWire

\* A request that is not a token is written.
LEMMA WriteOther ==
    ASSUME Inv, OneToken, NEW frame \in Frames, frame.apiKey # "Raw", wire' = Append(wire, frame),
           ~TokenInHand'
    PROVE  OneToken' /\ (TokenOnWire' <=> TokenOnWire)
<1> USE Elements
<1>1. /\ Len(wire') = Len(wire) + 1
      /\ \A i \in 1..Len(wire) : wire'[i] = wire[i]
      /\ wire'[Len(wire) + 1] = frame
  BY AppendFacts, AppendAt DEF Inv, TypeOK, DataOK
<1>2. \A i \in 1..Len(wire') : wire'[i].apiKey = "Raw" => i \in 1..Len(wire)
  BY <1>1
<1>3. \A i \in 1..Len(wire) : i \in 1..Len(wire')
  BY <1>1
<1>4. OneToken'
  BY <1>1, <1>2 DEF OneToken
<1>5. TokenOnWire' <=> TokenOnWire
  BY <1>1, <1>2, <1>3 DEF TokenOnWire
<1>6. QED
  BY <1>4, <1>5

\* The token itself is written.
LEMMA WriteToken ==
    ASSUME Inv, OneToken, TokenInHand, wire' = Append(wire, request), ~TokenInHand'
    PROVE  OneToken' /\ TokenOnWire'
<1> USE Elements
<1>1. request \in Frames /\ request.apiKey = "Raw"
  BY DEF Inv, TypeOK, DataOK, TokenInHand
<1>2. /\ Len(wire') = Len(wire) + 1
      /\ \A i \in 1..Len(wire) : wire'[i] = wire[i]
      /\ wire'[Len(wire) + 1] = request
  BY <1>1, AppendFacts, AppendAt DEF Inv, TypeOK, DataOK
<1>3. TokenOnWire'
  BY <1>1, <1>2 DEF TokenOnWire
<1>4. SaslV0Pipelined \/ \A i \in 1..Len(wire') : wire'[i].apiKey = "Raw" => i = Len(wire')
  BY <1>2 DEF OneToken, TokenOnWire
<1>5. OneToken'
  BY <1>4 DEF OneToken
<1>6. QED
  BY <1>3, <1>5

\* The terms of HandlersBounded are small numbers.
LEMMA BoundTypes ==
    /\ Unmatched \in {0, 1} /\ ToPush \in {0, 1, 2} /\ ToMark \in {0, 1, 2} /\ TokenUnderWay \in {0, 1}
BY DEF Unmatched, ToPush, ToMark, Owed, Unmarked, TokenUnderWay

OneTokenBounded == OneToken /\ HandlersBounded

\* A step of the request loop that touches none of the queues.
LEMMA QuietBounded ==
    ASSUME Inv, OneTokenBounded, pc'["responses"] = pc["responses"],
           UNCHANGED <<wire, nextResponseHandler, openRequests>>,
           ~Ended("requests")' => ~Ended("requests") /\ ToPush' = ToPush /\ ToMark' = ToMark,
           ~Ended("requests")' => (TokenInHand' <=> TokenInHand)
    PROVE  OneTokenBounded'
<1>1. Unmatched' = Unmatched /\ (TokenOnWire' <=> TokenOnWire)
  BY DEF Unmatched, TokenOnWire
<1>2. Ended("requests")' => ~TokenInHand'
  BY DEF TokenInHand, Ended, EndPlaces
<1>3. OneToken'
  BY <1>2, SameWireOneToken DEF OneTokenBounded
<1>4. ~Ended("requests")' => TokenUnderWay' = TokenUnderWay
  BY <1>1 DEF TokenUnderWay
<1>5. HandlersBounded'
  BY <1>1, <1>4 DEF OneTokenBounded, HandlersBounded
<1>6. QED
  BY <1>3, <1>5 DEF OneTokenBounded

\* Such are the quiet steps of module ProcessorPairing.
LEMMA QuietRequestBounded ==
    ASSUME Inv, OneTokenBounded, QuietRequestStep
    PROVE  OneTokenBounded'
<1> USE DEF ToPush, ToMark, Owed, Unmarked, InHand, TokenInHand, Ended, EndPlaces
<1>1. /\ pc'["responses"] = pc["responses"]
      /\ UNCHANGED <<wire, nextResponseHandler, openRequests, request>>
  BY RequestGoto DEF QuietRequestStep, NextRequest, InFlightExpired, ReadRequestClosed, BuildReauth,
       MarkInFlight, ReauthDone, SendMarkerTimeout, PutResponseHandlerTimeout, WriteFails, CopyThenClose,
       PublishError, CloseRemote, CloseLocal, ReadRequestFails, ReadTimeout, StartReauth, PutRequestHandler
<1>2. \/ pc'["requests"] \in EndPlaces
      \/ pc["requests"] = "markInFlight" /\ pc'["requests"] = "handshakeMarker"
      \/ /\ pc["requests"] \in {"top", "read", "reauthDone", "buildReauth"}
         /\ pc'["requests"] \in {"top", "read", "readRaw", "buildReauth", "writeHandshake"}
  BY RequestGoto DEF QuietRequestStep, NextRequest, InFlightExpired, ReadRequestClosed, BuildReauth,
       MarkInFlight, ReauthDone, SendMarkerTimeout, PutResponseHandlerTimeout, WriteFails, CopyThenClose,
       PublishError, CloseRemote, CloseLocal, ReadRequestFails, ReadTimeout, StartReauth, PutRequestHandler
<1>3. QED
  BY <1>1, <1>2, QuietBounded

\* A request is read: nothing is owed for it before its marker is sent.
LEMMA ReadRequestBounded ==
    ASSUME Inv, OneTokenBounded, NEW key \in ClientApis, ReadRequest(key)
    PROVE  OneTokenBounded'
<1> USE DEF ToPush, ToMark, Owed, Unmarked, InHand, TokenInHand, Ended, EndPlaces
<1>1. /\ pc["requests"] = "read" /\ pc'["responses"] = pc["responses"]
      /\ UNCHANGED <<wire, nextResponseHandler, openRequests>>
      /\ \/ pc'["requests"] = "sendMarker"
         \/ pc'["requests"] = "write" /\ request'.apiKey = "ProduceAcks0"
  BY RequestGoto DEF ReadRequest
<1>2. QED
  BY <1>1, QuietBounded

\* A token is read: it will push a handler without a marker.
LEMMA ReadTokenBounded ==
    ASSUME Inv, Answering, OneTokenBounded, ReadSaslToken
    PROVE  OneTokenBounded'
<1> USE Elements, BoundTypes
<1>1. /\ pc["requests"] = "readRaw" /\ pc'["responses"] = pc["responses"]
      /\ UNCHANGED <<wire, nextResponseHandler, openRequests>>
      /\ pc'["requests"] = "write" /\ request'.apiKey = "Raw"
  BY RequestGoto DEF ReadSaslToken
<1>2. TokenInHand' /\ (TokenOnWire' <=> TokenOnWire) /\ Unmatched' = Unmatched
  BY <1>1 DEF TokenInHand, TokenOnWire, Unmatched
<1>3. ToPush = 0 /\ ToPush' = 1 /\ ToMark = 0 /\ ToMark' = 0
  BY <1>1 DEF ToPush, ToMark, Owed, Unmarked, InHand
<1>4. CASE ~SaslV0Pipelined
  <2>1. ~TokenInHand /\ ~TokenOnWire
    BY <1>4, TokenAlone
  <2>2. TokenUnderWay = 0 /\ TokenUnderWay' = 1
    BY <1>2, <2>1 DEF TokenUnderWay
  <2>3. ~Ended("requests")
    BY <1>1 DEF Ended, EndPlaces
  <2>4. OneToken'
    BY <1>1, <1>2, <2>1 DEF OneTokenBounded, OneToken
  <2>5. HandlersBounded'
    BY <1>1, <1>2, <1>3, <2>2, <2>3 DEF OneTokenBounded, HandlersBounded
  <2>6. QED
    BY <2>4, <2>5 DEF OneTokenBounded
<1>5. CASE SaslV0Pipelined
  BY <1>5 DEF OneTokenBounded, OneToken, HandlersBounded
<1>6. QED
  BY <1>4, <1>5, ProcessorAssumption

\* A marker is sent: its handler is due.
LEMMA MarkerBounded ==
    ASSUME Inv, Inv', OneTokenBounded, SendMarker \/ EnqueueHandshakeMarker \/ EnqueueAuthenticateMarker
    PROVE  OneTokenBounded'
<1> USE Elements, BoundTypes
<1>1. /\ pc["requests"] \in {"sendMarker", "handshakeMarker", "authenticateMarker"}
      /\ pc'["responses"] = pc["responses"] /\ UNCHANGED <<wire, nextResponseHandler, request>>
  BY RequestGoto DEF SendMarker, EnqueueHandshakeMarker, EnqueueAuthenticateMarker, EnqueueMarker
<1>2. Unmatched' = Unmatched /\ (TokenOnWire' <=> TokenOnWire) /\ ~TokenInHand
  BY <1>1 DEF Unmatched, TokenOnWire, TokenInHand
<1>3. CASE pc'["requests"] = "exit"
  <2>1. ~TokenInHand' /\ Ended("requests")'
    BY <1>3 DEF TokenInHand, Ended, EndPlaces
  <2>2. QED
    BY <1>1, <2>1, SameWireOneToken DEF OneTokenBounded, HandlersBounded
<1>4. CASE pc'["requests"] # "exit"
  <2>1. PICK marker \in Markers : openRequests' = Append(openRequests, marker)
    <3>1. /\ openRequests' \in Seq(Markers)
          /\ \E marker : openRequests' = Append(openRequests, marker)
      BY <1>4, RequestGoto DEF SendMarker, EnqueueHandshakeMarker, EnqueueAuthenticateMarker, EnqueueMarker,
           Inv, TypeOK, ChannelsOK
    <3>2. PICK marker : openRequests' = Append(openRequests, marker)
      BY <3>1
    <3>3. openRequests'[Len(openRequests) + 1] = marker /\ Len(openRequests') = Len(openRequests) + 1
      BY <3>2 DEF Inv, TypeOK, ChannelsOK
    <3>4. marker \in Markers
      BY <3>1, <3>3
    <3>5. QED
      BY <3>2, <3>4
  <2>2. Len(openRequests') = Len(openRequests) + 1
    BY <2>1, AppendFacts DEF Inv, TypeOK, ChannelsOK
  <2>3. \/ pc["requests"] = "sendMarker" /\ pc'["requests"] = "write"
        \/ pc["requests"] = "handshakeMarker" /\ pc'["requests"] = "handshakeHandler"
        \/ pc["requests"] = "authenticateMarker" /\ pc'["requests"] = "authenticateHandler"
    BY <1>4, RequestGoto DEF SendMarker, EnqueueHandshakeMarker, EnqueueAuthenticateMarker, EnqueueMarker
  <2>4. pc["requests"] = "sendMarker" => request.apiKey \notin {"Raw", "ProduceAcks0"}
    BY DEF Inv, MarkerReady
  <2>5. ~TokenInHand'
    BY <1>1, <2>3, <2>4 DEF TokenInHand
  <2>6. TokenUnderWay' = TokenUnderWay
    BY <1>2, <2>5 DEF TokenUnderWay
  <2>7. OneToken'
    BY <1>1, <2>5, SameWireOneToken DEF OneTokenBounded
  <2>8. /\ pc["requests"] = "sendMarker" => ToPush = 0 /\ ToMark = 0 /\ ToPush' = 1 /\ ToMark' = 0
        /\ pc["requests"] # "sendMarker" => ToPush' = ToPush /\ ToMark = ToMark' + 1 /\ ToMark' \in {0, 1}
    BY <1>1, <2>3, <2>4 DEF ToPush, ToMark, InHand, Owed, Unmarked
  <2>9. ~Ended("requests")
    BY <1>1 DEF Ended, EndPlaces
  <2>10. HandlersBounded'
    <3>1. CASE pc["requests"] = "sendMarker"
      BY <1>1, <1>2, <2>2, <2>6, <2>8, <2>9, <3>1 DEF OneTokenBounded, HandlersBounded
    <3>2. CASE pc["requests"] # "sendMarker"
      <4>1. Len(openRequests) + ToMark = Len(openRequests') + ToMark'
        BY <2>2, <2>8, <3>2
      <4>2. QED
        BY <1>1, <1>2, <2>6, <2>8, <2>9, <3>2, <4>1 DEF OneTokenBounded, HandlersBounded
    <3>3. QED
      BY <3>1, <3>2
  <2>11. QED
    BY <2>7, <2>10 DEF OneTokenBounded
<1>5. QED
  BY <1>3, <1>4

\* A handler is pushed, or there was no room for it and the loop ends.
LEMMA HandlerBounded ==
    ASSUME Inv, OneTokenBounded, PutResponseHandler \/ EnqueueHandshakeHandler \/ EnqueueAuthenticateHandler
    PROVE  OneTokenBounded'
<1> USE Elements, BoundTypes
<1>1. /\ pc["requests"] \in {"putHandler", "handshakeHandler", "authenticateHandler"}
      /\ pc'["responses"] = pc["responses"] /\ UNCHANGED <<wire, openRequests>>
      /\ pc'["requests"] \in {"top", "authenticateMarker", "reauthDone", "exit"}
  BY RequestGoto DEF PutResponseHandler, EnqueueHandshakeHandler, EnqueueAuthenticateHandler, EnqueueHandler
<1>2. /\ Unmatched' = Unmatched /\ (TokenOnWire' <=> TokenOnWire)
      /\ ~TokenInHand /\ ~TokenInHand' /\ ~Ended("requests")
  BY <1>1 DEF Unmatched, TokenOnWire, TokenInHand, Ended, EndPlaces
<1>3. OneToken' /\ TokenUnderWay' = TokenUnderWay
  BY <1>1, <1>2, SameWireOneToken DEF TokenUnderWay, OneTokenBounded
<1>4. CASE pc'["requests"] = "exit"
  BY <1>3, <1>4 DEF OneTokenBounded, HandlersBounded, Ended, EndPlaces
<1>5. CASE pc'["requests"] # "exit"
  <2>1. PICK handler \in {"default", "saslV0"} : nextResponseHandler' = Append(nextResponseHandler, handler)
    BY <1>5, RequestGoto DEF PutResponseHandler, EnqueueHandshakeHandler, EnqueueAuthenticateHandler, EnqueueHandler
  <2>2. Len(nextResponseHandler') = Len(nextResponseHandler) + 1
    BY <2>1, AppendFacts DEF Inv, TypeOK, ChannelsOK
  <2>3. \/ pc["requests"] = "putHandler" /\ pc'["requests"] = "top"
        \/ pc["requests"] = "handshakeHandler" /\ pc'["requests"] = "authenticateMarker"
        \/ pc["requests"] = "authenticateHandler" /\ pc'["requests"] = "reauthDone"
    BY <1>5, RequestGoto DEF PutResponseHandler, EnqueueHandshakeHandler, EnqueueAuthenticateHandler, EnqueueHandler
  <2>4. ToPush = ToPush' + 1 /\ ToPush' \in {0, 1} /\ ToMark' = ToMark
    BY <2>3 DEF ToPush, ToMark, InHand, Owed, Unmarked
  <2>5. Len(nextResponseHandler') + Unmatched' + ToPush' = Len(nextResponseHandler) + Unmatched + ToPush
    BY <1>2, <2>2, <2>4
  <2>6. HandlersBounded'
    BY <1>1, <1>2, <1>3, <2>4, <2>5 DEF OneTokenBounded, HandlersBounded
  <2>7. QED
    BY <1>3, <2>6 DEF OneTokenBounded
<1>6. QED
  BY <1>4, <1>5

\* A request of a re-auth is written: a marker and a handler are due for it.
LEMMA WriteReauthBounded ==
    ASSUME Inv, OneTokenBounded, WriteReauthHandshake \/ WriteReauthAuthenticate
    PROVE  OneTokenBounded'
<1> USE Elements, BoundTypes
<1>1. /\ pc'["responses"] = pc["responses"] /\ UNCHANGED <<nextResponseHandler, openRequests>>
      /\ \/ pc["requests"] = "writeHandshake" /\ pc'["requests"] = "writeAuthenticate"
         \/ pc["requests"] = "writeAuthenticate" /\ pc'["requests"] = "markInFlight"
  BY RequestGoto DEF WriteReauthHandshake, WriteReauthAuthenticate, WriteReauth
<1>2. Unmatched' = Unmatched /\ ~TokenInHand /\ ~TokenInHand' /\ ~Ended("requests")
  BY <1>1 DEF Unmatched, TokenInHand, Ended, EndPlaces
<1>3. PICK frame \in Frames : frame.apiKey # "Raw" /\ wire' = Append(wire, frame)
  <2>1. \A key \in {"SaslHandshakeV1", "SaslAuthenticate"}, id \in {reauthCorrelationID, reauthHandshakeCorrelationID} :
            Frame(key, id, issued + 1) \in Frames /\ Frame(key, id, issued + 1).apiKey # "Raw"
    BY DEF Frames, Apis, reauthCorrelationID, reauthHandshakeCorrelationID
  <2>2. \E key \in {"SaslHandshakeV1", "SaslAuthenticate"}, id \in {reauthCorrelationID, reauthHandshakeCorrelationID} :
            wire' = Append(wire, Frame(key, id, issued + 1))
    BY DEF WriteReauthHandshake, WriteReauthAuthenticate, WriteReauth
  <2>3. QED
    BY <2>1, <2>2
<1>4. OneToken' /\ TokenUnderWay' = TokenUnderWay
  BY <1>2, <1>3, WriteOther DEF TokenUnderWay, OneTokenBounded
<1>5. ToPush' = ToPush + 1 /\ ToMark' = ToMark + 1
  BY <1>1 DEF ToPush, ToMark, InHand, Owed, Unmarked
<1>6. HandlersBounded'
  BY <1>1, <1>2, <1>4, <1>5 DEF OneTokenBounded, HandlersBounded
<1>7. QED
  BY <1>4, <1>6 DEF OneTokenBounded

\* A client's request is written: its handler is still to be pushed.
LEMMA WriteRequestBounded ==
    ASSUME Inv, OneTokenBounded, WriteRequest
    PROVE  OneTokenBounded'
<1> USE Elements, BoundTypes
<1>1. /\ pc["requests"] = "write" /\ pc'["responses"] = pc["responses"]
      /\ UNCHANGED <<nextResponseHandler, openRequests, request>> /\ request \in Frames
      /\ pc'["requests"] \in {"top", "putHandler", "exit"}
  BY RequestGoto DEF WriteRequest, PutRequestHandler, Inv, TypeOK, DataOK
<1>2. Unmatched' = Unmatched /\ ~TokenInHand' /\ ~Ended("requests")
  BY <1>1 DEF Unmatched, TokenInHand, Ended, EndPlaces
<1>3. CASE request.apiKey = "ProduceAcks0"
  <2>1. wire' = wire /\ pc'["requests"] # "putHandler"
    BY <1>3, RequestGoto DEF WriteRequest, PutRequestHandler
  <2>2. ~TokenInHand
    BY <1>3 DEF TokenInHand
  <2>3. ToPush = 0 /\ ToPush' = 0 /\ ToMark = 0 /\ ToMark' = 0
    BY <1>1, <1>3, <2>1 DEF ToPush, ToMark, InHand, Owed, Unmarked
  <2>4. QED
    BY <1>1, <1>2, <2>1, <2>2, <2>3, QuietBounded
<1>4. CASE request.apiKey # "ProduceAcks0"
  <2>1. wire' = Append(wire, request) /\ pc'["requests"] # "top"
    BY <1>4, RequestGoto DEF WriteRequest, PutRequestHandler
  <2>2. OneToken' /\ TokenUnderWay' = TokenUnderWay
    <3>1. CASE request.apiKey = "Raw"
      <4>1. TokenInHand
        BY <1>1, <3>1 DEF TokenInHand
      <4>2. QED
        BY <1>2, <2>1, <4>1, WriteToken DEF TokenUnderWay, OneTokenBounded
    <3>2. CASE request.apiKey # "Raw"
      <4>1. ~TokenInHand
        BY <3>2 DEF TokenInHand
      <4>2. QED
        BY <1>1, <1>2, <2>1, <3>2, <4>1, WriteOther DEF TokenUnderWay, OneTokenBounded
    <3>3. QED
      BY <3>1, <3>2
  <2>3. pc'["requests"] = "putHandler" => ToPush' = ToPush /\ ToMark' = ToMark
    BY <1>1, <1>4 DEF ToPush, ToMark, InHand, Owed, Unmarked
  <2>4. HandlersBounded'
    BY <1>1, <1>2, <2>1, <2>2, <2>3 DEF OneTokenBounded, HandlersBounded, Ended, EndPlaces
  <2>5. QED
    BY <2>2, <2>4 DEF OneTokenBounded
<1>5. QED
  BY <1>3, <1>4

\* A reply is read.  The bare token's reply, which takes no marker, takes the
\* token with it.
LEMMA ReadReplyBounded ==
    ASSUME Inv, Pairing, OneTokenBounded, ReadReply
    PROVE  OneTokenBounded'
<1> USE Elements, BoundTypes
<1>1. /\ pc["responses"] \in {"readHeader", "readRaw"} /\ wire # <<>>
      /\ UNCHANGED <<request, nextResponseHandler, openRequests>> /\ wire' = Tail(wire)
      /\ pc'["requests"] = pc["requests"]
      /\ pc'["responses"] = IF pc["responses"] = "readHeader" THEN "getMarker" ELSE "forward"
  BY ResponseGoto DEF ReadReply
<1>2. /\ Len(wire') = Len(wire) - 1 /\ Len(wire) >= 1 /\ Head(wire) = wire[1]
      /\ \A i \in 1..Len(wire') : wire'[i] = wire[i + 1]
  BY <1>1, TailFacts, TailAt DEF Inv, TypeOK, DataOK
<1>3. ToPush' = ToPush /\ ToMark' = ToMark /\ (TokenInHand' <=> TokenInHand)
  BY <1>1 DEF ToPush, ToMark, InHand, Owed, Unmarked, TokenInHand
<1>4. \A i \in 1..Len(wire') : i + 1 \in 1..Len(wire)
  BY <1>2
<1>5. TokenOnWire' => TokenOnWire
  BY <1>2, <1>4 DEF TokenOnWire
<1>6. OneToken'
  <2>1. ASSUME ~SaslV0Pipelined, NEW i \in 1..Len(wire'), NEW k \in 1..Len(wire'),
               wire'[i].apiKey = "Raw", wire'[k].apiKey = "Raw"
        PROVE  i = k
    <3>1. i + 1 = k + 1
      BY <1>2, <1>4, <2>1 DEF OneTokenBounded, OneToken
    <3>2. QED
      BY <1>2, <3>1
  <2>2. QED
    BY <1>3, <1>5, <2>1 DEF OneTokenBounded, OneToken
<1>7. RepliesPaired
  BY PairingRepliesPaired
<1>8. CASE pc["responses"] = "readHeader"
  <2>1. TokenOnWire => TokenOnWire'
    <3>1. SUFFICES ASSUME NEW i \in 1..Len(wire), wire[i].apiKey = "Raw" PROVE TokenOnWire'
      BY DEF TokenOnWire
    <3>2. i # 1
      BY <1>1, <1>2, <1>7, <1>8, <3>1 DEF RepliesPaired
    <3>3. i - 1 \in 1..Len(wire') /\ (i - 1) + 1 = i
      BY <1>2, <3>2
    <3>4. wire'[i - 1].apiKey = "Raw"
      BY <1>2, <3>1, <3>3
    <3>5. QED
      BY <3>3, <3>4 DEF TokenOnWire
  <2>2. TokenUnderWay' = TokenUnderWay
    BY <1>3, <1>5, <2>1 DEF TokenUnderWay
  <2>3. Unmatched' = Unmatched
    BY <1>1, <1>8 DEF Unmatched
  <2>4. HandlersBounded'
    BY <1>1, <1>3, <2>2, <2>3 DEF OneTokenBounded, HandlersBounded, Ended
  <2>5. QED
    BY <1>6, <2>4 DEF OneTokenBounded
<1>9. CASE pc["responses"] = "readRaw"
  <2>1. 1 \in 1..Len(wire) /\ wire[1].apiKey = "Raw"
    BY <1>1, <1>2, <1>7, <1>9 DEF RepliesPaired
  <2>2. TokenOnWire
    BY <2>1 DEF TokenOnWire
  <2>3. ASSUME ~SaslV0Pipelined PROVE ~TokenInHand' /\ ~TokenOnWire'
    <3>1. ~TokenInHand'
      BY <1>3, <2>2, <2>3 DEF OneTokenBounded, OneToken
    <3>2. ASSUME NEW i \in 1..Len(wire'), wire'[i].apiKey = "Raw" PROVE FALSE
      <4>1. i + 1 = 1
        BY <1>2, <1>4, <2>1, <2>3, <3>2 DEF OneTokenBounded, OneToken
      <4>2. QED
        BY <1>2, <4>1
    <3>3. QED
      BY <3>1, <3>2 DEF TokenOnWire
  <2>4. TokenUnderWay = 1 /\ (~SaslV0Pipelined => TokenUnderWay' = 0)
    BY <2>2, <2>3 DEF TokenUnderWay
  <2>5. Unmatched = 1 /\ Unmatched' = 0
    BY <1>1, <1>9 DEF Unmatched
  <2>6. HandlersBounded'
    BY <1>1, <1>3, <2>4, <2>5 DEF OneTokenBounded, HandlersBounded, Ended
  <2>7. QED
    BY <1>6, <2>6 DEF OneTokenBounded
<1>10. QED
  BY <1>1, <1>8, <1>9

\* The other steps of the response loop.
LEMMA ResponseBounded ==
    ASSUME Inv, Pairing, OneTokenBounded, ResponseStep \/ FromBroker
    PROVE  OneTokenBounded'
<1> USE Elements, BoundTypes
<1>1. CASE ReadReply
  BY <1>1, ReadReplyBounded
<1>2. CASE ~ReadReply
  <2>1. pc'["requests"] = pc["requests"] /\ UNCHANGED <<request, wire>>
    BY <1>2, ResponseGoto DEF ResponseStep, FromBroker, GetNextResponseHandler, ResponseHandlerMissing, ReadReplyClosed,
         ReceiveMarker, MarkerMissing, ForwardReply, CompleteReauthHandshake, CompleteReauth, ReplyFails,
         CopyThenClose, PublishError, CloseRemote, CloseLocal, ReadReplyFails
  <2>2. /\ ToPush' = ToPush /\ ToMark' = ToMark
        /\ TokenInHand' <=> TokenInHand
        /\ TokenOnWire' <=> TokenOnWire
        /\ Ended("requests")' <=> Ended("requests")
    BY <2>1 DEF ToPush, ToMark, InHand, Owed, Unmarked, TokenInHand, TokenOnWire, Ended
  <2>3. OneToken' /\ TokenUnderWay' = TokenUnderWay
    BY <2>1, <2>2, SameWireOneToken DEF TokenUnderWay, OneTokenBounded
  <2>4. HandlersBounded'
    <3>1. CASE GetNextResponseHandler
      <4>1. Len(nextResponseHandler') = Len(nextResponseHandler) - 1 /\ openRequests' = openRequests
        BY <3>1, TailFacts DEF GetNextResponseHandler, Inv, TypeOK, ChannelsOK
      <4>2. Unmatched = 0 /\ Unmatched' = 1
        BY <3>1, ResponseGoto DEF GetNextResponseHandler, Unmatched
      <4>3. QED
        BY <2>2, <2>3, <4>1, <4>2 DEF OneTokenBounded, HandlersBounded
    <3>2. CASE ReceiveMarker
      <4>1. /\ Len(openRequests') = Len(openRequests) - 1 /\ Len(openRequests) >= 1
            /\ nextResponseHandler' = nextResponseHandler
        BY <3>2, TailFacts DEF ReceiveMarker, Inv, TypeOK, ChannelsOK
      <4>2. Unmatched = 1 /\ Unmatched' = 0
        BY <3>2, ResponseGoto DEF ReceiveMarker, Unmatched
      <4>3. QED
        BY <2>2, <2>3, <4>1, <4>2 DEF OneTokenBounded, HandlersBounded
    <3>3. CASE ~GetNextResponseHandler /\ ~ReceiveMarker
      <4>1. /\ pc'["responses"] \in EndPlaces \cup {"getHandler"}
            /\ UNCHANGED <<nextResponseHandler, openRequests>>
        BY <1>2, <3>3, ResponseGoto DEF ResponseStep, FromBroker, ResponseHandlerMissing, ReadReplyClosed,
             MarkerMissing, ForwardReply, CompleteReauthHandshake, CompleteReauth, ReplyFails,
             CopyThenClose, PublishError, CloseRemote, CloseLocal, ReadReplyFails, EndPlaces
      <4>2. Unmatched' = 0
        BY <4>1 DEF Unmatched, EndPlaces
      <4>3. QED
        BY <2>2, <2>3, <4>1, <4>2 DEF OneTokenBounded, HandlersBounded
    <3>4. QED
      BY <3>1, <3>2, <3>3
  <2>5. QED
    BY <2>3, <2>4 DEF OneTokenBounded
<1>3. QED
  BY <1>1, <1>2

\* At the start the pre-seeded handler is the only one.
LEMMA InitBounded == Init => OneTokenBounded
<1> SUFFICES ASSUME Init PROVE OneTokenBounded
  OBVIOUS
<1>1. /\ pc["requests"] = "top" /\ pc["responses"] = "getHandler" /\ Len(wire) = 0
      /\ Len(nextResponseHandler) = 1 /\ Len(openRequests) = 0
  BY DEF Init, Loops
<1>2. ~TokenInHand /\ ~TokenOnWire
  BY <1>1 DEF TokenInHand, TokenOnWire
<1>3. Unmatched = 0 /\ ToPush = 0 /\ ToMark = 0 /\ TokenUnderWay = 0
  BY <1>1, <1>2 DEF Unmatched, ToPush, ToMark, InHand, Owed, Unmarked, TokenUnderWay
<1>4. OneToken
  BY <1>1, <1>2 DEF OneToken
<1>5. HandlersBounded
  BY <1>1, <1>3 DEF HandlersBounded
<1>6. QED
  BY <1>4, <1>5 DEF OneTokenBounded

\* Every step keeps the token alone and the handlers bounded.
LEMMA NextBounded ==
    Inv /\ Inv' /\ Pairing /\ Answering /\ OneTokenBounded /\ [Next]_vars => OneTokenBounded'
<1> SUFFICES ASSUME Inv, Inv', Pairing, Answering, OneTokenBounded, [Next]_vars
             PROVE  OneTokenBounded'
  OBVIOUS
<1>1. CASE RequestStep \/ FromClient
  <2>1. \/ QuietRequestStep \/ ReadSaslToken \/ \E key \in ClientApis : ReadRequest(key)
        \/ SendMarker \/ EnqueueHandshakeMarker \/ EnqueueAuthenticateMarker
        \/ PutResponseHandler \/ EnqueueHandshakeHandler \/ EnqueueAuthenticateHandler
        \/ WriteReauthHandshake \/ WriteReauthAuthenticate \/ WriteRequest
    BY <1>1 DEF RequestStep, FromClient, QuietRequestStep
  <2>2. QED
    BY <2>1, QuietRequestBounded, ReadTokenBounded, ReadRequestBounded, MarkerBounded, HandlerBounded,
       WriteReauthBounded, WriteRequestBounded
<1>2. CASE ResponseStep \/ FromBroker
  BY <1>2, ResponseBounded
<1>3. CASE Terminated \/ UNCHANGED vars
  <2>1. UNCHANGED <<pc, wire, request, nextResponseHandler, openRequests>>
    BY <1>3 DEF Terminated, vars
  <2>2. ToPush' = ToPush /\ ToMark' = ToMark /\ (TokenInHand' <=> TokenInHand) /\ (Ended("requests")' <=> Ended("requests"))
    BY <2>1 DEF ToPush, ToMark, InHand, Owed, Unmarked, TokenInHand, Ended
  <2>3. QED
    BY <2>1, <2>2, QuietBounded
<1>4. QED
  BY <1>1, <1>2, <1>3 DEF Next

\* What the bound means for whoever has a handler to push.
LEMMA BoundedRoom == ~SaslV0Pipelined /\ Inv /\ OneTokenBounded => HandlerRoom
<1> SUFFICES ASSUME ~SaslV0Pipelined, Inv, OneTokenBounded,
                    pc["requests"] \in {"putHandler", "handshakeHandler", "authenticateHandler"}
             PROVE  Len(nextResponseHandler) < handlerCapacity
  BY DEF HandlerRoom
<1> USE Elements, BoundTypes, Capacities
<1>1. Len(nextResponseHandler) + Unmatched + ToPush <= Len(openRequests) + ToMark + 1 + TokenUnderWay
  BY DEF OneTokenBounded, HandlersBounded, Ended, EndPlaces
<1>2. ToPush = ToMark + 1
  BY DEF ToPush, ToMark, InHand, Owed, Unmarked
<1>3. Len(openRequests) <= maxOpenRequests
  BY DEF Inv, TypeOK, ChannelsOK
<1>4. Len(nextResponseHandler) + 1 <= Len(openRequests) + 2
  BY <1>1, <1>2
<1>5. QED
  BY <1>3, <1>4

\* The +2 of newProcessor is enough for a client that waits for the answer to
\* its SASL v0 handshake, as the protocol asks, before it sends its token.  The
\* hypothesis is needed: each pipelined token adds a handler without a marker.
THEOREM HandlersFit == ~SaslV0Pipelined => (Spec => []HandlerRoom)
<1>1. Spec => []OneTokenBounded
  BY InitBounded, NextBounded, Accounting, Alignment, Invariance, PTL DEF Spec
<1>2. SUFFICES ASSUME ~SaslV0Pipelined
               PROVE  Spec => []HandlerRoom
  OBVIOUS
<1>3. Inv /\ OneTokenBounded => HandlerRoom
  BY <1>2, BoundedRoom
<1>4. QED
  BY <1>1, <1>3, Invariance, PTL
=============================================================================
