--------------------------- MODULE ProcessorProofs ---------------------------
(***************************************************************************)
(* What holds of module Processor for every value of its constants.        *)
(***************************************************************************)
EXTENDS Processor, TLAPS

\* nextRequestHandlerChannel holds a handler exactly when the request loop is
\* about to take one, or has put it back and only owes the response handler.
HandlerParked ==
    ~Ended("requests") =>
        Len(nextRequestHandler) = IF pc["requests"] \in {"top", "putHandler"} THEN 1 ELSE 0

\* The markers the request loop is about to publish are well formed: the request
\* in hand has a header and wants a reply, and two re-auth requests have been numbered.
MarkerReady ==
    /\ pc["requests"] = "sendMarker" => request.apiKey \notin {"Raw", "ProduceAcks0"}
    /\ pc["requests"] \in {"markInFlight", "handshakeMarker"} => issued >= 1

Inv == TypeOK /\ HandlerParked /\ MarkerReady /\ ErrorAlwaysSet

USE DEF Frame, Marker, Goto, Move, channelVars, clientVars, socketVars, dataVars

\* The capacities newProcessor gives the channels are positive.
LEMMA Capacities ==
    /\ maxOpenRequests \in Nat \ {0}
    /\ handlerCapacity \in Nat /\ handlerCapacity = maxOpenRequests + 2
BY ProcessorAssumption DEF maxOpenRequests, handlerCapacity

\* A send on a channel.
LEMMA AppendFacts ==
    ASSUME NEW S, NEW s \in Seq(S), NEW x \in S
    PROVE  Append(s, x) \in Seq(S) /\ Len(Append(s, x)) = Len(s) + 1
OBVIOUS

\* A receive from a channel that is not empty.
LEMMA TailFacts ==
    ASSUME NEW S, NEW s \in Seq(S), s # <<>>
    PROVE  /\ Tail(s) \in Seq(S) /\ Len(Tail(s)) = Len(s) - 1
           /\ Head(s) \in S /\ Len(s) \in Nat \ {0}
OBVIOUS

\* The initial states satisfy the invariant.
LEMMA InitInv == Init => Inv
<1> SUFFICES ASSUME Init PROVE Inv
  OBVIOUS
<1>1. PlacesOK
  BY DEF Init, PlacesOK, Loops, RequestPlaces, ResponsePlaces, EndPlaces
<1>2. ChannelsOK
  BY Capacities DEF Init, ChannelsOK
<1>3. DataOK
  <2>1. NoFrame \in Frames
    BY DEF NoFrame, Frames, Apis
  <2>2. wire \in Seq(Frames) /\ delivered \in Seq(Int)
    BY DEF Init
  <2>3. issued \in Nat /\ reauths \in Nat /\ sent \in Nat
    BY DEF Init
  <2>4. QED
    BY <2>1, <2>2, <2>3 DEF Init, DataOK, Loops
<1>4. HandlerParked /\ MarkerReady /\ ErrorAlwaysSet
  BY DEF Init, HandlerParked, MarkerReady, ErrorAlwaysSet, Ended, Loops, EndPlaces
<1>5. QED
  BY <1>1, <1>2, <1>3, <1>4 DEF Inv, TypeOK

\* The request loop, between its reads of the client, preserves the invariant.
LEMMA RequestInv == Inv /\ RequestStep => Inv'
<1> SUFFICES ASSUME Inv, RequestStep PROVE Inv'
  OBVIOUS
<1> USE Capacities DEF Inv, TypeOK
<1> DEFINE Flow == PlacesOK /\ HandlerParked /\ MarkerReady /\ ErrorAlwaysSet
<1>1. CASE NextRequest
  <2>0. nextRequestHandler # <<>> /\ Len(Tail(nextRequestHandler)) = 0
    <3>1. Len(nextRequestHandler) = 1
      BY <1>1 DEF NextRequest, HandlerParked, Ended, EndPlaces
    <3>2. nextRequestHandler # <<>>
      BY <3>1
    <3>3. QED
      BY <3>1, <3>2, TailFacts DEF ChannelsOK
  <2>1. Flow'
    BY <1>1, <2>0 DEF NextRequest, ChannelsOK, DataOK, PlacesOK, HandlerParked, MarkerReady, ErrorAlwaysSet, Ended, Loops, RequestPlaces, ResponsePlaces, EndPlaces
  <2>2. ChannelsOK'
    BY <1>1 DEF NextRequest, ChannelsOK, DataOK, MarkerReady
  <2>3. DataOK'
    BY <1>1 DEF NextRequest, DataOK, Loops
  <2>4. QED
    BY <2>1, <2>2, <2>3
<1>2. CASE InFlightExpired
  <2>1. Flow'
    BY <1>2 DEF InFlightExpired, ChannelsOK, DataOK, PlacesOK, HandlerParked, MarkerReady, ErrorAlwaysSet, Ended, Loops, RequestPlaces, ResponsePlaces, EndPlaces
  <2>2. ChannelsOK'
    BY <1>2 DEF InFlightExpired, ChannelsOK, DataOK, MarkerReady
  <2>3. DataOK'
    BY <1>2 DEF InFlightExpired, DataOK, Loops
  <2>4. QED
    BY <2>1, <2>2, <2>3
<1>3. CASE ReadRequestClosed
  <2>1. Flow'
    BY <1>3 DEF ReadRequestClosed, ChannelsOK, DataOK, PlacesOK, HandlerParked, MarkerReady, ErrorAlwaysSet, Ended, Loops, RequestPlaces, ResponsePlaces, EndPlaces
  <2>2. ChannelsOK'
    BY <1>3 DEF ReadRequestClosed, ChannelsOK, DataOK, MarkerReady
  <2>3. DataOK'
    BY <1>3 DEF ReadRequestClosed, DataOK, Loops
  <2>4. QED
    BY <2>1, <2>2, <2>3
<1>4. CASE BuildReauth
  <2>1. Flow'
    BY <1>4 DEF BuildReauth, ChannelsOK, DataOK, PlacesOK, HandlerParked, MarkerReady, ErrorAlwaysSet, Ended, Loops, RequestPlaces, ResponsePlaces, EndPlaces
  <2>2. ChannelsOK'
    BY <1>4 DEF BuildReauth, ChannelsOK, DataOK, MarkerReady
  <2>3. DataOK'
    BY <1>4 DEF BuildReauth, DataOK, Loops
  <2>4. QED
    BY <2>1, <2>2, <2>3
<1>5. CASE WriteReauthHandshake
  <2>1. Flow'
    BY <1>5 DEF WriteReauthHandshake, WriteReauth, reauthHandshakeCorrelationID, Apis, ChannelsOK, DataOK, PlacesOK, HandlerParked, MarkerReady, ErrorAlwaysSet, Ended, Loops, RequestPlaces, ResponsePlaces, EndPlaces
  <2>2. ChannelsOK'
    BY <1>5 DEF WriteReauthHandshake, WriteReauth, reauthHandshakeCorrelationID, Apis, ChannelsOK, DataOK, MarkerReady
  <2>3. DataOK'
    BY <1>5 DEF WriteReauthHandshake, WriteReauth, reauthHandshakeCorrelationID, Frames, Apis, DataOK, Loops
  <2>4. QED
    BY <2>1, <2>2, <2>3
<1>6. CASE WriteReauthAuthenticate
  <2>1. Flow'
    BY <1>6 DEF WriteReauthAuthenticate, WriteReauth, reauthCorrelationID, Apis, ChannelsOK, DataOK, PlacesOK, HandlerParked, MarkerReady, ErrorAlwaysSet, Ended, Loops, RequestPlaces, ResponsePlaces, EndPlaces
  <2>2. ChannelsOK'
    BY <1>6 DEF WriteReauthAuthenticate, WriteReauth, reauthCorrelationID, Apis, ChannelsOK, DataOK, MarkerReady
  <2>3. DataOK'
    BY <1>6 DEF WriteReauthAuthenticate, WriteReauth, reauthCorrelationID, Frames, Apis, DataOK, Loops
  <2>4. QED
    BY <2>1, <2>2, <2>3
<1>7. CASE MarkInFlight
  <2>1. Flow'
    BY <1>7 DEF MarkInFlight, ChannelsOK, DataOK, PlacesOK, HandlerParked, MarkerReady, ErrorAlwaysSet, Ended, Loops, RequestPlaces, ResponsePlaces, EndPlaces
  <2>2. ChannelsOK'
    BY <1>7 DEF MarkInFlight, ChannelsOK, DataOK, MarkerReady
  <2>3. DataOK'
    BY <1>7 DEF MarkInFlight, DataOK, Loops
  <2>4. QED
    BY <2>1, <2>2, <2>3
<1>8. CASE EnqueueHandshakeMarker
  <2>1. Flow'
    BY <1>8 DEF EnqueueHandshakeMarker, EnqueueMarker, Apis, ChannelsOK, DataOK, PlacesOK, HandlerParked, MarkerReady, ErrorAlwaysSet, Ended, Loops, RequestPlaces, ResponsePlaces, EndPlaces
  <2>2. ChannelsOK'
    <3>1. Marker("SaslHandshakeV1", issued - 1) \in Markers
      BY <1>8 DEF EnqueueHandshakeMarker, EnqueueMarker, Markers, Apis, DataOK, MarkerReady
    <3>2. CASE Len(openRequests) < maxOpenRequests
      <4>1. openRequests' = Append(openRequests, Marker("SaslHandshakeV1", issued - 1))
        BY <1>8, <3>2 DEF EnqueueHandshakeMarker, EnqueueMarker
      <4>2. openRequests' \in Seq(Markers) /\ Len(openRequests') <= maxOpenRequests
        BY <3>1, <3>2, <4>1, AppendFacts DEF ChannelsOK
      <4>3. QED
        BY <1>8, <4>2 DEF EnqueueHandshakeMarker, EnqueueMarker, ChannelsOK
    <3>3. CASE ~(Len(openRequests) < maxOpenRequests)
      BY <1>8, <3>3 DEF EnqueueHandshakeMarker, EnqueueMarker, ChannelsOK
    <3>4. QED
      BY <3>2, <3>3
  <2>3. DataOK'
    BY <1>8 DEF EnqueueHandshakeMarker, EnqueueMarker, Apis, DataOK, Loops
  <2>4. QED
    BY <2>1, <2>2, <2>3
<1>9. CASE EnqueueHandshakeHandler
  <2>1. Flow'
    BY <1>9 DEF EnqueueHandshakeHandler, EnqueueHandler, ChannelsOK, DataOK, PlacesOK, HandlerParked, MarkerReady, ErrorAlwaysSet, Ended, Loops, RequestPlaces, ResponsePlaces, EndPlaces
  <2>2. ChannelsOK'
    <3>1. CASE Len(nextResponseHandler) < handlerCapacity
      BY <1>9, <3>1 DEF EnqueueHandshakeHandler, EnqueueHandler, ChannelsOK
    <3>2. CASE ~(Len(nextResponseHandler) < handlerCapacity)
      BY <1>9, <3>2 DEF EnqueueHandshakeHandler, EnqueueHandler, ChannelsOK
    <3>3. QED
      BY <3>1, <3>2
  <2>3. DataOK'
    BY <1>9 DEF EnqueueHandshakeHandler, EnqueueHandler, DataOK, Loops
  <2>4. QED
    BY <2>1, <2>2, <2>3
<1>10. CASE EnqueueAuthenticateMarker
  <2>1. Flow'
    BY <1>10 DEF EnqueueAuthenticateMarker, EnqueueMarker, Apis, ChannelsOK, DataOK, PlacesOK, HandlerParked, MarkerReady, ErrorAlwaysSet, Ended, Loops, RequestPlaces, ResponsePlaces, EndPlaces
  <2>2. ChannelsOK'
    <3>1. Marker("SaslAuthenticate", issued) \in Markers
      BY <1>10 DEF EnqueueAuthenticateMarker, EnqueueMarker, Markers, Apis, DataOK, MarkerReady
    <3>2. CASE Len(openRequests) < maxOpenRequests
      <4>1. openRequests' = Append(openRequests, Marker("SaslAuthenticate", issued))
        BY <1>10, <3>2 DEF EnqueueAuthenticateMarker, EnqueueMarker
      <4>2. openRequests' \in Seq(Markers) /\ Len(openRequests') <= maxOpenRequests
        BY <3>1, <3>2, <4>1, AppendFacts DEF ChannelsOK
      <4>3. QED
        BY <1>10, <4>2 DEF EnqueueAuthenticateMarker, EnqueueMarker, ChannelsOK
    <3>3. CASE ~(Len(openRequests) < maxOpenRequests)
      BY <1>10, <3>3 DEF EnqueueAuthenticateMarker, EnqueueMarker, ChannelsOK
    <3>4. QED
      BY <3>2, <3>3
  <2>3. DataOK'
    BY <1>10 DEF EnqueueAuthenticateMarker, EnqueueMarker, Apis, DataOK, Loops
  <2>4. QED
    BY <2>1, <2>2, <2>3
<1>11. CASE EnqueueAuthenticateHandler
  <2>1. Flow'
    BY <1>11 DEF EnqueueAuthenticateHandler, EnqueueHandler, ChannelsOK, DataOK, PlacesOK, HandlerParked, MarkerReady, ErrorAlwaysSet, Ended, Loops, RequestPlaces, ResponsePlaces, EndPlaces
  <2>2. ChannelsOK'
    <3>1. CASE Len(nextResponseHandler) < handlerCapacity
      BY <1>11, <3>1 DEF EnqueueAuthenticateHandler, EnqueueHandler, ChannelsOK
    <3>2. CASE ~(Len(nextResponseHandler) < handlerCapacity)
      BY <1>11, <3>2 DEF EnqueueAuthenticateHandler, EnqueueHandler, ChannelsOK
    <3>3. QED
      BY <3>1, <3>2
  <2>3. DataOK'
    BY <1>11 DEF EnqueueAuthenticateHandler, EnqueueHandler, DataOK, Loops
  <2>4. QED
    BY <2>1, <2>2, <2>3
<1>12. CASE ReauthDone
  <2>1. Flow'
    BY <1>12 DEF ReauthDone, PutRequestHandler, ChannelsOK, DataOK, PlacesOK, HandlerParked, MarkerReady, ErrorAlwaysSet, Ended, Loops, RequestPlaces, ResponsePlaces, EndPlaces
  <2>2. ChannelsOK'
    BY <1>12 DEF ReauthDone, PutRequestHandler, ChannelsOK, DataOK, MarkerReady
  <2>3. DataOK'
    BY <1>12 DEF ReauthDone, PutRequestHandler, DataOK, Loops
  <2>4. QED
    BY <2>1, <2>2, <2>3
<1>13. CASE SendMarker
  <2>1. Flow'
    BY <1>13 DEF SendMarker, ChannelsOK, DataOK, PlacesOK, HandlerParked, MarkerReady, ErrorAlwaysSet, Ended, Loops, RequestPlaces, ResponsePlaces, EndPlaces
  <2>2. ChannelsOK'
    BY <1>13 DEF SendMarker, ChannelsOK, DataOK, MarkerReady, Frames, Markers
  <2>3. DataOK'
    BY <1>13 DEF SendMarker, DataOK, Loops
  <2>4. QED
    BY <2>1, <2>2, <2>3
<1>14. CASE SendMarkerTimeout
  <2>1. Flow'
    BY <1>14 DEF SendMarkerTimeout, ChannelsOK, DataOK, PlacesOK, HandlerParked, MarkerReady, ErrorAlwaysSet, Ended, Loops, RequestPlaces, ResponsePlaces, EndPlaces
  <2>2. ChannelsOK'
    BY <1>14 DEF SendMarkerTimeout, ChannelsOK, DataOK, MarkerReady
  <2>3. DataOK'
    BY <1>14 DEF SendMarkerTimeout, DataOK, Loops
  <2>4. QED
    BY <2>1, <2>2, <2>3
<1>15. CASE WriteRequest
  <2>1. Flow'
    BY <1>15 DEF WriteRequest, PutRequestHandler, ChannelsOK, DataOK, PlacesOK, HandlerParked, MarkerReady, ErrorAlwaysSet, Ended, Loops, RequestPlaces, ResponsePlaces, EndPlaces
  <2>2. ChannelsOK'
    BY <1>15 DEF WriteRequest, PutRequestHandler, ChannelsOK, DataOK, MarkerReady
  <2>3. DataOK'
    <3>1. wire' = wire \/ wire' = Append(wire, request)
      BY <1>15 DEF WriteRequest
    <3>2. wire' \in Seq(Frames)
      BY <3>1, AppendFacts DEF DataOK
    <3>3. QED
      BY <1>15, <3>2 DEF WriteRequest, DataOK, Loops
  <2>4. QED
    BY <2>1, <2>2, <2>3
<1>16. CASE PutResponseHandler
  <2>1. Flow'
    BY <1>16 DEF PutResponseHandler, ChannelsOK, DataOK, PlacesOK, HandlerParked, MarkerReady, ErrorAlwaysSet, Ended, Loops, RequestPlaces, ResponsePlaces, EndPlaces
  <2>2. ChannelsOK'
    BY <1>16 DEF PutResponseHandler, ChannelsOK, DataOK, MarkerReady
  <2>3. DataOK'
    BY <1>16 DEF PutResponseHandler, DataOK, Loops
  <2>4. QED
    BY <2>1, <2>2, <2>3
<1>17. CASE PutResponseHandlerTimeout
  <2>1. Flow'
    BY <1>17 DEF PutResponseHandlerTimeout, ChannelsOK, DataOK, PlacesOK, HandlerParked, MarkerReady, ErrorAlwaysSet, Ended, Loops, RequestPlaces, ResponsePlaces, EndPlaces
  <2>2. ChannelsOK'
    BY <1>17 DEF PutResponseHandlerTimeout, ChannelsOK, DataOK, MarkerReady
  <2>3. DataOK'
    BY <1>17 DEF PutResponseHandlerTimeout, DataOK, Loops
  <2>4. QED
    BY <2>1, <2>2, <2>3
<1>18. CASE WriteFails
  <2>1. Flow'
    BY <1>18 DEF WriteFails, ChannelsOK, DataOK, PlacesOK, HandlerParked, MarkerReady, ErrorAlwaysSet, Ended, Loops, RequestPlaces, ResponsePlaces, EndPlaces
  <2>2. ChannelsOK'
    BY <1>18 DEF WriteFails, ChannelsOK, DataOK, MarkerReady
  <2>3. DataOK'
    BY <1>18 DEF WriteFails, DataOK, Loops
  <2>4. QED
    BY <2>1, <2>2, <2>3
<1>19. CASE CopyThenClose("requests")
  BY <1>19 DEF CopyThenClose, PublishError, CloseRemote, CloseLocal, ChannelsOK, DataOK, PlacesOK, HandlerParked, MarkerReady, ErrorAlwaysSet, Ended, Loops, RequestPlaces, ResponsePlaces, EndPlaces
<1>20. QED
  BY <1>1, <1>2, <1>3, <1>4, <1>5, <1>6, <1>7, <1>8, <1>9, <1>10, <1>11, <1>12, <1>13, <1>14, <1>15, <1>16, <1>17, <1>18, <1>19 DEF RequestStep

\* The response loop, between its reads of the broker, preserves it.
LEMMA ResponseInv == Inv /\ ResponseStep => Inv'
<1> SUFFICES ASSUME Inv, ResponseStep PROVE Inv'
  OBVIOUS
<1> USE Capacities DEF Inv, TypeOK
<1> DEFINE Flow == PlacesOK /\ HandlerParked /\ MarkerReady /\ ErrorAlwaysSet
<1>1. CASE GetNextResponseHandler
  <2>1. Flow'
    BY <1>1 DEF GetNextResponseHandler, ChannelsOK, DataOK, PlacesOK, HandlerParked, MarkerReady, ErrorAlwaysSet, Ended, Loops, RequestPlaces,
           ResponsePlaces, EndPlaces
  <2>2. ChannelsOK'
    BY <1>1 DEF GetNextResponseHandler, ChannelsOK, DataOK, MarkerReady
  <2>3. DataOK'
    BY <1>1 DEF GetNextResponseHandler, DataOK, Loops
  <2>4. QED
    BY <2>1, <2>2, <2>3
<1>2. CASE ResponseHandlerMissing
  <2>1. Flow'
    BY <1>2 DEF ResponseHandlerMissing, ChannelsOK, DataOK, PlacesOK, HandlerParked, MarkerReady, ErrorAlwaysSet, Ended, Loops, RequestPlaces,
           ResponsePlaces, EndPlaces
  <2>2. ChannelsOK'
    BY <1>2 DEF ResponseHandlerMissing, ChannelsOK, DataOK, MarkerReady
  <2>3. DataOK'
    BY <1>2 DEF ResponseHandlerMissing, DataOK, Loops
  <2>4. QED
    BY <2>1, <2>2, <2>3
<1>3. CASE ReadReplyClosed
  <2>1. Flow'
    BY <1>3 DEF ReadReplyClosed, ChannelsOK, DataOK, PlacesOK, HandlerParked, MarkerReady, ErrorAlwaysSet, Ended, Loops, RequestPlaces,
           ResponsePlaces, EndPlaces
  <2>2. ChannelsOK'
    BY <1>3 DEF ReadReplyClosed, ChannelsOK, DataOK, MarkerReady
  <2>3. DataOK'
    BY <1>3 DEF ReadReplyClosed, DataOK, Loops
  <2>4. QED
    BY <2>1, <2>2, <2>3
<1>4. CASE ReceiveMarker
  <2>1. Flow'
    BY <1>4 DEF ReceiveMarker, ChannelsOK, DataOK, PlacesOK, HandlerParked, MarkerReady, ErrorAlwaysSet, Ended, Loops, RequestPlaces,
           ResponsePlaces, EndPlaces
  <2>2. ChannelsOK'
    BY <1>4 DEF ReceiveMarker, ChannelsOK, DataOK, MarkerReady
  <2>3. DataOK'
    BY <1>4 DEF ReceiveMarker, DataOK, Loops
  <2>4. QED
    BY <2>1, <2>2, <2>3
<1>5. CASE MarkerMissing
  <2>1. Flow'
    BY <1>5 DEF MarkerMissing, ChannelsOK, DataOK, PlacesOK, HandlerParked, MarkerReady, ErrorAlwaysSet, Ended, Loops, RequestPlaces,
           ResponsePlaces, EndPlaces
  <2>2. ChannelsOK'
    BY <1>5 DEF MarkerMissing, ChannelsOK, DataOK, MarkerReady
  <2>3. DataOK'
    BY <1>5 DEF MarkerMissing, DataOK, Loops
  <2>4. QED
    BY <2>1, <2>2, <2>3
<1>6. CASE ForwardReply
  <2>1. Flow'
    BY <1>6 DEF ForwardReply, ChannelsOK, DataOK, PlacesOK, HandlerParked, MarkerReady, ErrorAlwaysSet, Ended, Loops, RequestPlaces,
           ResponsePlaces, EndPlaces
  <2>2. ChannelsOK'
    BY <1>6 DEF ForwardReply, ChannelsOK, DataOK, MarkerReady
  <2>3. DataOK'
    <3>1. reply.id \in Int
      BY DEF DataOK, Frames
    <3>2. delivered' \in Seq(Int)
      BY <1>6, <3>1 DEF ForwardReply, DataOK
    <3>3. QED
      BY <1>6, <3>2 DEF ForwardReply, DataOK, Loops
  <2>4. QED
    BY <2>1, <2>2, <2>3
<1>7. CASE CompleteReauthHandshake
  <2>1. Flow'
    BY <1>7 DEF CompleteReauthHandshake, ChannelsOK, DataOK, PlacesOK, HandlerParked, MarkerReady, ErrorAlwaysSet, Ended, Loops, RequestPlaces,
           ResponsePlaces, EndPlaces
  <2>2. ChannelsOK'
    BY <1>7 DEF CompleteReauthHandshake, ChannelsOK, DataOK, MarkerReady
  <2>3. DataOK'
    BY <1>7 DEF CompleteReauthHandshake, DataOK, Loops
  <2>4. QED
    BY <2>1, <2>2, <2>3
<1>8. CASE CompleteReauth
  <2>1. Flow'
    BY <1>8 DEF CompleteReauth, ChannelsOK, DataOK, PlacesOK, HandlerParked, MarkerReady, ErrorAlwaysSet, Ended, Loops, RequestPlaces,
           ResponsePlaces, EndPlaces
  <2>2. ChannelsOK'
    BY <1>8 DEF CompleteReauth, ChannelsOK, DataOK, MarkerReady
  <2>3. DataOK'
    BY <1>8 DEF CompleteReauth, DataOK, Loops
  <2>4. QED
    BY <2>1, <2>2, <2>3
<1>9. CASE ReplyFails
  <2>1. Flow'
    BY <1>9 DEF ReplyFails, ChannelsOK, DataOK, PlacesOK, HandlerParked, MarkerReady, ErrorAlwaysSet, Ended, Loops, RequestPlaces,
           ResponsePlaces, EndPlaces
  <2>2. ChannelsOK'
    BY <1>9 DEF ReplyFails, ChannelsOK, DataOK, MarkerReady
  <2>3. DataOK'
    BY <1>9 DEF ReplyFails, DataOK, Loops
  <2>4. QED
    BY <2>1, <2>2, <2>3
<1>10. CASE CopyThenClose("responses")
  <2>1. Flow'
    BY <1>10 DEF CopyThenClose, PublishError, CloseRemote, CloseLocal, PlacesOK, HandlerParked,
           MarkerReady, ErrorAlwaysSet, Ended, Loops, RequestPlaces, ResponsePlaces, EndPlaces
  <2>2. ChannelsOK'
    BY <1>10 DEF CopyThenClose, PublishError, CloseRemote, CloseLocal, ChannelsOK
  <2>3. DataOK'
    BY <1>10 DEF CopyThenClose, PublishError, CloseRemote, CloseLocal, DataOK, Loops
  <2>4. QED
    BY <2>1, <2>2, <2>3
<1>11. QED
  BY <1>1, <1>2, <1>3, <1>4, <1>5, <1>6, <1>7, <1>8, <1>9, <1>10 DEF ResponseStep

\* So do the steps in which something arrives from the broker,
LEMMA BrokerInv == Inv /\ FromBroker => Inv'
<1> SUFFICES ASSUME Inv, FromBroker PROVE Inv'
  OBVIOUS
<1> USE Capacities DEF Inv, TypeOK
<1> DEFINE Flow == PlacesOK /\ HandlerParked /\ MarkerReady /\ ErrorAlwaysSet
<1>1. CASE ReadReply
  <2>1. Flow'
    BY <1>1 DEF ReadReply, ChannelsOK, DataOK, PlacesOK, HandlerParked, MarkerReady, ErrorAlwaysSet, Ended, Loops, RequestPlaces,
           ResponsePlaces, EndPlaces
  <2>2. ChannelsOK'
    BY <1>1 DEF ReadReply, ChannelsOK, DataOK, MarkerReady
  <2>3. DataOK'
    BY <1>1 DEF ReadReply, DataOK, Loops
  <2>4. QED
    BY <2>1, <2>2, <2>3
<1>2. CASE ReadReplyFails
  <2>1. Flow'
    BY <1>2 DEF ReadReplyFails, ChannelsOK, DataOK, PlacesOK, HandlerParked, MarkerReady, ErrorAlwaysSet, Ended, Loops, RequestPlaces,
           ResponsePlaces, EndPlaces
  <2>2. ChannelsOK'
    BY <1>2 DEF ReadReplyFails, ChannelsOK, DataOK, MarkerReady
  <2>3. DataOK'
    BY <1>2 DEF ReadReplyFails, DataOK, Loops
  <2>4. QED
    BY <2>1, <2>2, <2>3
<1>3. QED
  BY <1>1, <1>2 DEF FromBroker

\* those in which something arrives from the client,
LEMMA ClientInv == Inv /\ FromClient => Inv'
<1> SUFFICES ASSUME Inv, FromClient PROVE Inv'
  OBVIOUS
<1> USE Capacities DEF Inv, TypeOK
<1> DEFINE Flow == PlacesOK /\ HandlerParked /\ MarkerReady /\ ErrorAlwaysSet
<1>1. ASSUME NEW key \in ClientApis, ReadRequest(key)
      PROVE  Inv'
  <2>1. DataOK'
    BY <1>1, ProcessorAssumption DEF ReadRequest, DataOK, Loops, Frames, Apis
  <2>2. Flow'
    <3>1. key # "Raw"
      BY <1>1, ProcessorAssumption DEF Apis
    <3>2. request'.apiKey = key /\ pc'["requests"] \in {"write", "sendMarker"}
      BY <1>1 DEF ReadRequest, PlacesOK, Loops
    <3>3. PlacesOK' /\ ErrorAlwaysSet'
      BY <1>1 DEF ReadRequest, PlacesOK, ErrorAlwaysSet, Loops, RequestPlaces, ResponsePlaces, EndPlaces
    <3>4. HandlerParked'
      BY <1>1, <3>2 DEF ReadRequest, HandlerParked, Ended, EndPlaces
    <3>5. pc'["requests"] = "sendMarker" => key # "ProduceAcks0"
      BY <1>1 DEF ReadRequest, PlacesOK, Loops
    <3>6. MarkerReady'
      BY <3>1, <3>2, <3>5 DEF MarkerReady
    <3>7. QED
      BY <3>3, <3>4, <3>6
  <2>3. ChannelsOK'
    BY <1>1 DEF ReadRequest, ChannelsOK
  <2>4. QED
    BY <2>1, <2>2, <2>3
<1>2. CASE ReadSaslToken
  <2>1. Flow'
    BY <1>2 DEF ReadSaslToken, ChannelsOK, DataOK, PlacesOK, HandlerParked, MarkerReady, ErrorAlwaysSet, Ended, Loops, RequestPlaces,
           ResponsePlaces, EndPlaces
  <2>2. ChannelsOK'
    BY <1>2 DEF ReadSaslToken, ChannelsOK
  <2>3. DataOK'
    BY <1>2 DEF ReadSaslToken, DataOK, Loops, Frames
  <2>4. QED
    BY <2>1, <2>2, <2>3
<1>3. CASE ReadRequestFails
  <2>1. Flow'
    BY <1>3 DEF ReadRequestFails, ChannelsOK, DataOK, PlacesOK, HandlerParked, MarkerReady, ErrorAlwaysSet, Ended, Loops, RequestPlaces,
           ResponsePlaces, EndPlaces
  <2>2. ChannelsOK'
    BY <1>3 DEF ReadRequestFails, ChannelsOK
  <2>3. DataOK'
    BY <1>3 DEF ReadRequestFails, DataOK, Loops
  <2>4. QED
    BY <2>1, <2>2, <2>3
<1>4. CASE ReadTimeout
  <2>1. Flow'
    BY <1>4 DEF ReadTimeout, PutRequestHandler, ChannelsOK, DataOK, PlacesOK, HandlerParked, MarkerReady, ErrorAlwaysSet, Ended, Loops, RequestPlaces,
           ResponsePlaces, EndPlaces
  <2>2. ChannelsOK'
    BY <1>4 DEF ReadTimeout, PutRequestHandler, ChannelsOK
  <2>3. DataOK'
    BY <1>4 DEF ReadTimeout, PutRequestHandler, DataOK, Loops
  <2>4. QED
    BY <2>1, <2>2, <2>3
<1>5. CASE StartReauth
  <2>1. Flow'
    BY <1>5 DEF StartReauth, ChannelsOK, DataOK, PlacesOK, HandlerParked, MarkerReady, ErrorAlwaysSet, Ended, Loops, RequestPlaces,
           ResponsePlaces, EndPlaces
  <2>2. ChannelsOK'
    BY <1>5 DEF StartReauth, ChannelsOK
  <2>3. DataOK'
    BY <1>5 DEF StartReauth, DataOK, Loops
  <2>4. QED
    BY <2>1, <2>2, <2>3
<1>6. QED
  BY <1>1, <1>2, <1>3, <1>4, <1>5 DEF FromClient

\* and steps that change nothing.
LEMMA StutterInv == Inv /\ UNCHANGED vars => Inv'
BY DEF vars, Inv, TypeOK, PlacesOK, ChannelsOK, DataOK, HandlerParked, MarkerReady, ErrorAlwaysSet, Ended

\* The invariant is inductive, so it holds in every reachable state.
THEOREM Invariance == Spec => []Inv
<1>1. Inv /\ [Next]_vars => Inv'
  BY RequestInv, ResponseInv, ClientInv, BrokerInv, StutterInv DEF Next, Terminated
<1>2. QED
  BY InitInv, <1>1, PTL DEF Spec

\* Every variable keeps its type, and no channel exceeds its capacity, whatever
\* the configured number of open requests.
THEOREM TypeCorrect == Spec => []TypeOK
BY Invariance, PTL DEF Inv

\* The request loop always has a handler to take, so no loop ever returns a nil
\* error and copyError never panics.
THEOREM ErrorsSet == Spec => []ErrorAlwaysSet
BY Invariance, PTL DEF Inv

------------------------------------------------------------------------------
(* copyThenClose.                                                           *)

\* The loop that published its error closes the broker's connection and then the
\* client's; the other one returns, and neither touches a connection before.
Closing ==
    /\ firstErr = "none" => remoteOpen /\ localOpen
    /\ \A l \in Loops :
        /\ pc[l] \in {"closeRemote", "closeLocal"} => firstErr = l
        /\ pc[l] = "done" => firstErr # "none"
        /\ firstErr = l => pc[l] \in {"closeRemote", "closeLocal", "done"}
        /\ firstErr = l /\ pc[l] \in {"closeLocal", "done"} => ~remoteOpen
        /\ firstErr = l /\ pc[l] = "done" => ~localOpen

\* What is left when both goroutines have returned, and what a closed connection means.
SocketsClosed ==
    /\ TornDown => ~remoteOpen /\ ~localOpen
    /\ ~remoteOpen \/ ~localOpen => \E l \in Loops : Ended(l)

\* A loop that runs, or has just ended, is not the one that closes.
Running(l) ==
    /\ UNCHANGED <<firstErr, socketVars>>
    /\ \A k \in Loops \ {l} : pc'[k] = pc[k]
    /\ pc[l] \notin {"closeRemote", "closeLocal", "done"}
    /\ pc'[l] \notin {"closeRemote", "closeLocal", "done"}

\* Every step but those of copyThenClose is such a step of one of the loops.
LEMMA RunningSteps ==
    ASSUME Inv, Next, ~CopyThenClose("requests"), ~CopyThenClose("responses"), ~Terminated
    PROVE  \E l \in Loops : Running(l)
<1> USE DEF Inv, TypeOK, PlacesOK, Loops
<1>1. CASE RequestStep
  <2>1. Running("requests")
    BY <1>1 DEF RequestStep, NextRequest, InFlightExpired, ReadRequestClosed, BuildReauth, WriteReauthHandshake,
         WriteReauthAuthenticate, WriteReauth, MarkInFlight, EnqueueHandshakeMarker, EnqueueAuthenticateMarker,
         EnqueueMarker, EnqueueHandshakeHandler, EnqueueAuthenticateHandler, EnqueueHandler, ReauthDone,
         PutRequestHandler, SendMarker, SendMarkerTimeout, WriteRequest, PutResponseHandler,
         PutResponseHandlerTimeout, WriteFails, Running
  <2>2. QED
    BY <2>1
<1>2. CASE FromClient
  <2>1. Running("requests")
    BY <1>2 DEF FromClient, ReadRequest, ReadSaslToken, ReadRequestFails, ReadTimeout, PutRequestHandler,
         StartReauth, Running
  <2>2. QED
    BY <2>1
<1>3. CASE ResponseStep \/ FromBroker
  <2>1. Running("responses")
    BY <1>3 DEF ResponseStep, FromBroker, GetNextResponseHandler, ResponseHandlerMissing, ReadReply, ReadReplyFails,
         ReadReplyClosed, ReceiveMarker, MarkerMissing, ForwardReply, CompleteReauthHandshake, CompleteReauth,
         ReplyFails, Running
  <2>2. QED
    BY <2>1
<1>4. QED
  BY <1>1, <1>2, <1>3 DEF Next

\* Every step keeps the order of the teardown.
LEMMA NextClosing == Inv /\ Closing /\ [Next]_vars => Closing'
<1> SUFFICES ASSUME Inv, Closing, [Next]_vars PROVE Closing'
  OBVIOUS
<1>1. ASSUME NEW l \in Loops, Running(l) PROVE Closing'
  BY <1>1 DEF Running, Closing
<1>2. ASSUME NEW l \in Loops, CopyThenClose(l) PROVE Closing'
  <2>1. \A k \in Loops \ {l} : pc'[k] = pc[k]
    BY <1>2 DEF CopyThenClose, PublishError, CloseRemote, CloseLocal, Inv, TypeOK, PlacesOK
  <2>2. CASE PublishError(l)
    <3>1. pc[l] = "exit"
      BY <2>2 DEF PublishError, Inv, ErrorAlwaysSet
    <3>2. CASE firstErr = "none"
      <4>1. firstErr' = l /\ pc'[l] = "closeRemote" /\ UNCHANGED socketVars
        BY <2>2, <3>1, <3>2 DEF PublishError, Inv, TypeOK, PlacesOK
      <4>2. \A k \in Loops : k # "none"
        BY DEF Loops
      <4>3. QED
        BY <2>1, <3>2, <4>1, <4>2 DEF Closing
    <3>3. CASE firstErr # "none"
      <4>1. firstErr' = firstErr /\ pc'[l] = "done" /\ UNCHANGED socketVars
        BY <2>2, <3>1, <3>3 DEF PublishError, Inv, TypeOK, PlacesOK
      <4>2. firstErr # l
        BY <3>1 DEF Closing
      <4>3. QED
        BY <2>1, <3>3, <4>1, <4>2 DEF Closing
    <3>4. QED
      BY <3>2, <3>3
  <2>3. CASE CloseRemote(l)
    <3>1. pc[l] = "closeRemote" /\ pc'[l] = "closeLocal" /\ remoteOpen' = FALSE /\ UNCHANGED <<firstErr, localOpen>>
      BY <2>3 DEF CloseRemote, Inv, TypeOK, PlacesOK
    <3>2. firstErr = l /\ l # "none"
      BY <3>1 DEF Closing, Loops
    <3>3. QED
      BY <2>1, <3>1, <3>2 DEF Closing
  <2>4. CASE CloseLocal(l)
    <3>1. pc[l] = "closeLocal" /\ pc'[l] = "done" /\ localOpen' = FALSE /\ UNCHANGED <<firstErr, remoteOpen>>
      BY <2>4 DEF CloseLocal, Inv, TypeOK, PlacesOK
    <3>2. firstErr = l /\ l # "none"
      BY <3>1 DEF Closing, Loops
    <3>3. QED
      BY <2>1, <3>1, <3>2 DEF Closing
  <2>5. QED
    BY <1>2, <2>2, <2>3, <2>4 DEF CopyThenClose
<1>3. CASE Terminated \/ UNCHANGED vars
  BY <1>3 DEF Terminated, vars, Closing
<1>4. QED
  BY <1>1, <1>2, <1>3, RunningSteps DEF Loops

\* copyThenClose leaves no connection open when both loops have returned, in
\* whatever order they end, and closes none before a loop has ended.
THEOREM TeardownCloses == Spec => []SocketsClosed
<1>1. Init => Closing
  BY DEF Init, Closing, Loops
<1>2. Inv /\ Closing => SocketsClosed
  <2> SUFFICES ASSUME Inv, Closing PROVE SocketsClosed
    OBVIOUS
  <2>1. ASSUME TornDown PROVE ~remoteOpen /\ ~localOpen
    <3>1. firstErr \in Loops /\ pc[firstErr] = "done"
      BY <2>1 DEF TornDown, Closing, Inv, TypeOK, DataOK, Loops
    <3>2. QED
      BY <3>1 DEF Closing
  <2>2. ASSUME ~remoteOpen \/ ~localOpen PROVE \E l \in Loops : Ended(l)
    <3>1. firstErr \in Loops
      BY <2>2 DEF Closing, Inv, TypeOK, DataOK
    <3>2. pc[firstErr] \in {"closeRemote", "closeLocal", "done"}
      BY <3>1 DEF Closing
    <3>3. QED
      BY <3>1, <3>2 DEF Ended, EndPlaces
  <2>3. QED
    BY <2>1, <2>2 DEF SocketsClosed
<1>3. QED
  BY <1>1, <1>2, NextClosing, Invariance, PTL DEF Spec
=============================================================================
