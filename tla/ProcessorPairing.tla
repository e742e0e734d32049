-------------------------- MODULE ProcessorPairing --------------------------
(***************************************************************************)
(* Module Processor pairs every broker reply with its request, for every   *)
(* value of the constants: RepliesPaired and StarvationTransient.          *)
(*                                                                         *)
(* Nothing in the code compares a reply with a request.  The pairing rests *)
(* on three queues that grow and shrink in step: the requests on the wire, *)
(* the markers (openRequestsChannel) and the response handlers.  The       *)
(* invariant says where each queue stands relative to the others at every  *)
(* place of the two loops.                                                 *)
(***************************************************************************)
EXTENDS ProcessorProofs

Request(places) == pc["requests"] \in places
Response(places) == pc["responses"] \in places

\* The request a reply still to be read answers; 0 stands for the reply the
\* response loop read last.
FrameKey(i) == IF i = 0 THEN reply.apiKey ELSE wire[i].apiKey

\* A request that wants a reply is numbered and not yet written.
InHand == Request({"sendMarker"}) \/ (Request({"write"}) /\ request.apiKey # "ProduceAcks0")

\* The response loop holds a handler whose reply it has not read.
Taken == IF Response({"readHeader", "readRaw"}) THEN 1 ELSE 0

\* Response handlers the request loop still owes for what it wrote.
Owed ==
    IF Request({"putHandler", "writeAuthenticate", "authenticateMarker", "authenticateHandler"}) THEN 1
    ELSE IF Request({"markInFlight", "handshakeMarker", "handshakeHandler"}) THEN 2 ELSE 0

\* Markers it still owes for what it numbered.
Unmarked ==
    IF Request({"sendMarker", "writeAuthenticate", "handshakeHandler", "authenticateMarker"}) THEN 1
    ELSE IF Request({"markInFlight", "handshakeMarker"}) THEN 2 ELSE 0

\* The next request read is the bare token of a SASL v0 handshake.
TokenNext == Request({"readRaw"}) \/ (Request({"top"}) /\ Head(nextRequestHandler) = "saslV0")

\* The last request written is a SASL v0 handshake; its token is still to be written.
OwesToken ==
    \/ TokenNext
    \/ Request({"putHandler"}) /\ request.apiKey = "SaslHandshakeV0"
    \/ Request({"write"}) /\ request.apiKey = "Raw"

\* The last marker is a SASL v0 handshake's and its token is not yet numbered.
TokenUnread ==
    \/ TokenNext
    \/ Request({"putHandler", "write"}) /\ request.apiKey = "SaslHandshakeV0"

\* Replies from one marker to the next: a SASL v0 token has none.
Step(key) == IF key = "SaslHandshakeV0" THEN 2 ELSE 1

\* The reply the next marker to be popped, and to be pushed, belongs to.
FirstDue == IF Response({"getMarker"}) THEN reply.num ELSE reply.num + Step(reply.apiKey)
NextDue ==
    IF openRequests = <<>> THEN FirstDue
    ELSE openRequests[Len(openRequests)].num + Step(openRequests[Len(openRequests)].apiKey)

\* The requests on the wire are numbered in order, without a gap.
Numbered ==
    /\ \A i \in 1..Len(wire) : wire[i].num = reply.num + i
    /\ ~Ended("requests") => issued = reply.num + Len(wire) + (IF InHand THEN 1 ELSE 0)
    /\ InHand => request.num = issued

\* There is one response handler for the reply read last and one for each
\* request on the wire, in that order, except for those still owed.
HandlersCounted ==
    /\ Len(nextResponseHandler) + Taken + Owed <= Len(wire) + 1
    /\ ~Ended("requests") => Len(nextResponseHandler) + Taken + Owed = Len(wire) + 1

\* The handler after a SASL v0 handshake's reply is the SASL v0 one, and no other.
HandlersRight ==
    /\ \A i \in 1..Len(nextResponseHandler) :
            nextResponseHandler[i] = "saslV0" <=> FrameKey(Taken + i - 1) = "SaslHandshakeV0"
    /\ Response({"readRaw"}) => reply.apiKey = "SaslHandshakeV0"
    /\ Response({"readHeader"}) => reply.apiKey # "SaslHandshakeV0"
    /\ Response({"getMarker"}) => reply.apiKey # "Raw"

\* A bare token is on the wire exactly behind a SASL v0 handshake.
TokensFollow ==
    /\ \A i \in 1..Len(wire) : wire[i].apiKey = "Raw" <=> FrameKey(i - 1) = "SaslHandshakeV0"
    /\ ~Ended("requests") => (FrameKey(Len(wire)) = "SaslHandshakeV0" <=> OwesToken)
    /\ Request({"putHandler"}) =>
            (Head(nextRequestHandler) = "saslV0" <=> request.apiKey = "SaslHandshakeV0")

\* Where the two requests of a re-authentication are while it is under way.
ReauthOnWire ==
    /\ Request({"writeAuthenticate"}) => FrameKey(Len(wire)) = "SaslHandshakeV1"
    /\ Request({"markInFlight", "handshakeMarker", "handshakeHandler"}) =>
            /\ Len(wire) >= 1
            /\ FrameKey(Len(wire) - 1) = "SaslHandshakeV1"
            /\ FrameKey(Len(wire)) = "SaslAuthenticate"
    /\ Request({"authenticateMarker", "authenticateHandler"}) =>
            FrameKey(Len(wire)) = "SaslAuthenticate"

\* The markers are numbered like the requests they belong to, without a gap.
MarkersCounted ==
    /\ openRequests # <<>> => openRequests[1].num = FirstDue
    /\ \A j \in 1..(Len(openRequests) - 1) :
            openRequests[j + 1].num = openRequests[j].num + Step(openRequests[j].apiKey)
    /\ \A j \in 1..Len(openRequests) : openRequests[j].num <= issued /\ openRequests[j].num < NextDue
    /\ ~Ended("requests") => NextDue = issued + 1 - Unmarked + (IF TokenUnread THEN 1 ELSE 0)

\* A marker carries the api key of the request with its number.
MarkersRight ==
    /\ \A j \in 1..Len(openRequests), i \in 0..Len(wire) :
            openRequests[j].num = reply.num + i => openRequests[j].apiKey = FrameKey(i)
    /\ \A j \in 1..Len(openRequests) :
            InHand /\ openRequests[j].num = request.num => openRequests[j].apiKey = request.apiKey

Aligned ==
    /\ Numbered /\ HandlersCounted /\ HandlersRight
    /\ TokensFollow /\ ReauthOnWire
    /\ MarkersCounted /\ MarkersRight

\* As long as the response loop runs, the queues are aligned.
Pairing == ~Ended("responses") => Aligned

------------------------------------------------------------------------------
USE DEF Frame, Marker, Goto, Move, channelVars, clientVars, socketVars, dataVars, Request, Response

\* The elements of a queue after a send,
LEMMA AppendAt ==
    ASSUME NEW S, NEW s \in Seq(S), NEW x \in S
    PROVE  /\ \A i \in 1..Len(s) : Append(s, x)[i] = s[i]
           /\ Append(s, x)[Len(s) + 1] = x
           /\ Append(s, x) # <<>>
OBVIOUS

\* and after a receive.
LEMMA TailAt ==
    ASSUME NEW S, NEW s \in Seq(S), s # <<>>
    PROVE  /\ \A i \in 1..(Len(s) - 1) : Tail(s)[i] = s[i + 1]
           /\ Head(s) = s[1]
OBVIOUS

\* Arithmetic that the steps below keep needing: a shift by one moves between the terms.
LEMMA Shift ==
    ASSUME NEW m \in Nat, NEW n \in Nat
    PROVE  m + (n + 1) = (m + 1) + n
OBVIOUS

\* The types of what is in the queues.
LEMMA Elements ==
    ASSUME Inv
    PROVE  /\ Len(wire) \in Nat /\ Len(openRequests) \in Nat /\ Len(nextResponseHandler) \in Nat
           /\ \A i \in 1..Len(wire) : wire[i] \in Frames /\ wire[i].num \in Nat
           /\ \A j \in 1..Len(openRequests) : openRequests[j] \in Markers /\ openRequests[j].num \in Nat
           /\ reply.num \in Nat /\ request.num \in Nat /\ issued \in Nat
           /\ wire = <<>> <=> Len(wire) = 0
           /\ openRequests = <<>> <=> Len(openRequests) = 0
           /\ nextResponseHandler = <<>> <=> Len(nextResponseHandler) = 0
<1>1. wire \in Seq(Frames) /\ openRequests \in Seq(Markers) /\ nextResponseHandler \in Seq({"default", "saslV0"})
  BY DEF Inv, TypeOK, ChannelsOK, DataOK
<1>2. /\ Len(wire) \in Nat /\ Len(openRequests) \in Nat /\ Len(nextResponseHandler) \in Nat
      /\ wire = <<>> <=> Len(wire) = 0
      /\ openRequests = <<>> <=> Len(openRequests) = 0
      /\ nextResponseHandler = <<>> <=> Len(nextResponseHandler) = 0
  BY <1>1
<1>3. \A i \in 1..Len(wire) : wire[i] \in Frames /\ wire[i].num \in Nat
  <2>1. \A i \in 1..Len(wire) : wire[i] \in Frames
    BY <1>1
  <2>2. QED
    BY <2>1 DEF Frames
<1>4. \A j \in 1..Len(openRequests) : openRequests[j] \in Markers /\ openRequests[j].num \in Nat
  <2>1. \A j \in 1..Len(openRequests) : openRequests[j] \in Markers
    BY <1>1
  <2>2. QED
    BY <2>1 DEF Markers
<1>5. reply.num \in Nat /\ request.num \in Nat /\ issued \in Nat
  BY DEF Inv, TypeOK, DataOK, Frames
<1>6. QED
  BY <1>2, <1>3, <1>4, <1>5

\* Where a step of the request loop leads, and what it leaves alone.
LEMMA RequestGoto ==
    ASSUME Inv, NEW place, Goto("requests", place)
    PROVE  pc'["requests"] = place /\ pc'["responses"] = pc["responses"]
BY DEF Inv, TypeOK, PlacesOK, Loops

\* The same for a step of the response loop.
LEMMA ResponseGoto ==
    ASSUME Inv, NEW place, Goto("responses", place)
    PROVE  pc'["responses"] = place /\ pc'["requests"] = pc["requests"]
BY DEF Inv, TypeOK, PlacesOK, Loops

\* A step of the request loop that touches no queue keeps them aligned if the
\* loop ends, or if it owes afterwards what it owed before.
LEMMA QuietRequest ==
    ASSUME Inv, Aligned,
           pc'["responses"] = pc["responses"],
           UNCHANGED <<reply, wire, nextResponseHandler, openRequests, issued>>,
           \/ Ended("requests")'
           \/ /\ ~Ended("requests") /\ (InHand' <=> InHand) /\ (InHand => request' = request)
              /\ Owed' = Owed /\ Unmarked' = Unmarked
              /\ OwesToken' <=> OwesToken
              /\ TokenUnread' <=> TokenUnread
              /\ ~Request({"putHandler"})'
              /\ ReauthOnWire'
    PROVE  Aligned'
<1> USE Elements
<1>1. Taken' = Taken /\ FirstDue' = FirstDue /\ NextDue' = NextDue
  BY DEF Taken, FirstDue, NextDue
<1>2. \A i : FrameKey(i)' = FrameKey(i)
  BY DEF FrameKey
<1>3. Ended("requests")' => ~InHand' /\ Owed' = 0
  BY DEF Ended, EndPlaces, InHand, Owed
<1>4. Owed \in {0, 1, 2} /\ Taken \in {0, 1}
  BY DEF Owed, Taken
<1>5. Numbered'
  BY <1>3 DEF Aligned, Numbered
<1>6. HandlersCounted'
  BY <1>1, <1>3, <1>4 DEF Aligned, HandlersCounted
<1>7. HandlersRight'
  BY <1>1, <1>2 DEF Aligned, HandlersRight
<1>8. TokensFollow'
  BY <1>2 DEF Aligned, TokensFollow, Ended, EndPlaces
<1>9. ReauthOnWire'
  BY DEF ReauthOnWire, Ended, EndPlaces
<1>10. MarkersCounted'
  BY <1>1 DEF Aligned, MarkersCounted
<1>11. MarkersRight'
  BY <1>2, <1>3 DEF Aligned, MarkersRight
<1>12. QED
  BY <1>5, <1>6, <1>7, <1>8, <1>9, <1>10, <1>11 DEF Aligned

\* The steps of the request loop that touch no queue.
QuietRequestStep ==
    \/ NextRequest \/ InFlightExpired \/ ReadRequestClosed \/ BuildReauth \/ MarkInFlight \/ ReauthDone
    \/ SendMarkerTimeout \/ PutResponseHandlerTimeout \/ WriteFails \/ CopyThenClose("requests")
    \/ ReadRequestFails \/ ReadTimeout \/ StartReauth

\* They keep the queues aligned.
LEMMA QuietRequestAligned ==
    ASSUME Inv, Aligned, QuietRequestStep
    PROVE  Aligned'
<1> USE DEF InHand, Owed, Unmarked, OwesToken, TokenUnread, TokenNext, ReauthOnWire, Ended, EndPlaces
<1>1. CASE NextRequest
  <2>1. nextRequestHandler # <<>> /\ Head(nextRequestHandler) \in {"default", "saslV0"}
    <3>1. Len(nextRequestHandler) = 1
      BY <1>1 DEF NextRequest, Inv, HandlerParked
    <3>2. nextRequestHandler # <<>>
      BY <3>1
    <3>3. QED
      BY <3>2, TailFacts DEF Inv, TypeOK, ChannelsOK
  <2>2. Goto("requests", IF Head(nextRequestHandler) = "default" THEN "read" ELSE "readRaw")
    BY <1>1, <2>1 DEF NextRequest
  <2>3. /\ pc'["responses"] = pc["responses"]
        /\ pc'["requests"] = IF Head(nextRequestHandler) = "default" THEN "read" ELSE "readRaw"
    BY <2>2, RequestGoto
  <2>4. QED
    BY <1>1, <2>1, <2>3, QuietRequest DEF NextRequest
<1>2. CASE InFlightExpired
  <2>1. pc'["responses"] = pc["responses"] /\ pc'["requests"] = "exit"
    BY <1>2, RequestGoto DEF InFlightExpired
  <2>2. QED
    BY <1>2, <2>1, QuietRequest DEF InFlightExpired
<1>3. CASE ReadRequestClosed
  <2>1. pc'["responses"] = pc["responses"] /\ pc'["requests"] = "exit"
    BY <1>3, RequestGoto DEF ReadRequestClosed
  <2>2. QED
    BY <1>3, <2>1, QuietRequest DEF ReadRequestClosed
<1>4. CASE BuildReauth
  <2>1. pc'["responses"] = pc["responses"] /\ pc'["requests"] = "writeHandshake"
    BY <1>4, RequestGoto DEF BuildReauth
  <2>2. QED
    BY <1>4, <2>1, QuietRequest DEF BuildReauth
<1>5. CASE MarkInFlight
  <2>1. pc'["responses"] = pc["responses"] /\ pc'["requests"] = "handshakeMarker"
    BY <1>5, RequestGoto DEF MarkInFlight
  <2>2. ReauthOnWire'
    BY <1>5, <2>1 DEF MarkInFlight, Aligned, FrameKey
  <2>3. QED
    BY <1>5, <2>1, <2>2, QuietRequest DEF MarkInFlight
<1>6. CASE ReauthDone
  <2>1. nextRequestHandler = <<>>
    BY <1>6 DEF ReauthDone, Inv, TypeOK, ChannelsOK, HandlerParked
  <2>2. /\ nextRequestHandler' = <<"default">>
        /\ Goto("requests", "top")
    BY <1>6, <2>1 DEF ReauthDone, PutRequestHandler
  <2>3. pc'["responses"] = pc["responses"] /\ pc'["requests"] = "top"
    BY <2>2, RequestGoto
  <2>4. QED
    BY <1>6, <2>2, <2>3, QuietRequest DEF ReauthDone
<1>7. CASE SendMarkerTimeout
  <2>1. pc'["responses"] = pc["responses"] /\ pc'["requests"] = "exit"
    BY <1>7, RequestGoto DEF SendMarkerTimeout
  <2>2. QED
    BY <1>7, <2>1, QuietRequest DEF SendMarkerTimeout
<1>8. CASE PutResponseHandlerTimeout
  <2>1. pc'["responses"] = pc["responses"] /\ pc'["requests"] = "exit"
    BY <1>8, RequestGoto DEF PutResponseHandlerTimeout
  <2>2. QED
    BY <1>8, <2>1, QuietRequest DEF PutResponseHandlerTimeout
<1>9. CASE WriteFails
  <2>1. pc'["responses"] = pc["responses"] /\ pc'["requests"] = "exit"
    BY <1>9, RequestGoto DEF WriteFails
  <2>2. QED
    BY <1>9, <2>1, QuietRequest DEF WriteFails
<1>10. CASE CopyThenClose("requests")
  <2>1. /\ pc'["responses"] = pc["responses"]
        /\ pc'["requests"] \in {"panicked", "closeRemote", "closeLocal", "done"}
    BY <1>10, RequestGoto DEF CopyThenClose, PublishError, CloseRemote, CloseLocal
  <2>2. QED
    BY <1>10, <2>1, QuietRequest DEF CopyThenClose, PublishError, CloseRemote, CloseLocal
<1>11. CASE ReadRequestFails
  <2>1. pc'["responses"] = pc["responses"] /\ pc'["requests"] = "exit"
    BY <1>11, RequestGoto DEF ReadRequestFails
  <2>2. QED
    BY <1>11, <2>1, QuietRequest DEF ReadRequestFails
<1>12. CASE ReadTimeout
  <2>1. nextRequestHandler = <<>>
    BY <1>12 DEF ReadTimeout, Inv, TypeOK, ChannelsOK, HandlerParked
  <2>2. /\ nextRequestHandler' = <<"default">>
        /\ Goto("requests", "top")
    BY <1>12, <2>1 DEF ReadTimeout, PutRequestHandler
  <2>3. pc'["responses"] = pc["responses"] /\ pc'["requests"] = "top"
    BY <2>2, RequestGoto
  <2>4. QED
    BY <1>12, <2>2, <2>3, QuietRequest DEF ReadTimeout
<1>13. CASE StartReauth
  <2>1. pc'["responses"] = pc["responses"] /\ pc'["requests"] = "buildReauth"
    BY <1>13, RequestGoto DEF StartReauth
  <2>2. QED
    BY <1>13, <2>1, QuietRequest DEF StartReauth
<1>14. QED
  BY <1>1, <1>2, <1>3, <1>4, <1>5, <1>6, <1>7, <1>8, <1>9, <1>10, <1>11, <1>12, <1>13 DEF QuietRequestStep

\* Pushing the marker that is due keeps the queues aligned.
LEMMA PushMarker ==
    ASSUME Inv, Inv', Aligned, NEW marker \in Markers,
           openRequests' = Append(openRequests, marker),
           UNCHANGED <<reply, wire, nextResponseHandler, issued, request>>,
           pc'["responses"] = pc["responses"], ~Ended("requests"),
           marker.num = NextDue, marker.num <= issued,
           marker.num + Step(marker.apiKey) = issued + 1 - Unmarked' + (IF TokenUnread' THEN 1 ELSE 0),
           \A i \in 0..Len(wire) : marker.num = reply.num + i => marker.apiKey = FrameKey(i),
           InHand /\ marker.num = request.num => marker.apiKey = request.apiKey,
           InHand' <=> InHand, Owed' = Owed, OwesToken' <=> OwesToken,
           ~Request({"putHandler"})', ReauthOnWire'
    PROVE  Aligned'
<1> USE Elements
<1>1. Taken' = Taken /\ FirstDue' = FirstDue
  BY DEF Taken, FirstDue
<1>2. \A i : FrameKey(i)' = FrameKey(i)
  BY DEF FrameKey
<1>3. /\ Len(openRequests') = Len(openRequests) + 1
      /\ \A j \in 1..Len(openRequests) : openRequests'[j] = openRequests[j]
      /\ openRequests'[Len(openRequests) + 1] = marker
      /\ openRequests' # <<>>
  BY AppendFacts, AppendAt DEF Inv, TypeOK, ChannelsOK
<1>4. NextDue' = marker.num + Step(marker.apiKey)
  BY <1>3 DEF NextDue
<1>5. Numbered'
  BY DEF Aligned, Numbered
<1>6. HandlersCounted'
  BY <1>1 DEF Aligned, HandlersCounted
<1>7. HandlersRight'
  BY <1>1, <1>2 DEF Aligned, HandlersRight
<1>8. TokensFollow'
  BY <1>2 DEF Aligned, TokensFollow
<1>9. MarkersCounted'
  <2>1. openRequests'[1].num = FirstDue'
    BY <1>1, <1>3 DEF Aligned, MarkersCounted, NextDue
  <2>2. ASSUME NEW j \in 1..(Len(openRequests') - 1)
        PROVE  openRequests'[j + 1].num = openRequests'[j].num + Step(openRequests'[j].apiKey)
    <3>1. CASE j = Len(openRequests)
      BY <1>3, <3>1 DEF NextDue
    <3>2. CASE j < Len(openRequests)
      BY <1>3, <3>2 DEF Aligned, MarkersCounted
    <3>3. QED
      BY <1>3, <3>1, <3>2
  <2>3. ASSUME NEW j \in 1..Len(openRequests')
        PROVE  openRequests'[j].num <= issued' /\ openRequests'[j].num < NextDue'
    <3>1. CASE j = Len(openRequests) + 1
      BY <1>3, <1>4, <3>1 DEF Step, Markers
    <3>2. CASE j \in 1..Len(openRequests)
      <4>1. openRequests'[j] = openRequests[j] /\ openRequests[j].num < marker.num /\ openRequests[j].num <= issued
        BY <1>3, <3>2 DEF Aligned, MarkersCounted
      <4>2. marker.num \in Nat /\ openRequests[j].num \in Nat /\ marker.num < NextDue'
        BY <1>4, <3>2 DEF Step, Markers
      <4>3. NextDue' \in Int
        BY <1>4, <4>2 DEF Step
      <4>4. QED
        BY <4>1, <4>2, <4>3
    <3>3. QED
      BY <1>3, <3>1, <3>2
  <2>4. QED
    BY <1>4, <2>1, <2>2, <2>3 DEF MarkersCounted
<1>10. MarkersRight'
  BY <1>2, <1>3 DEF Aligned, MarkersRight
<1>11. QED
  BY <1>5, <1>6, <1>7, <1>8, <1>9, <1>10 DEF Aligned

\* Before its request is written: sendRequestKeyVersion.
LEMMA SendMarkerAligned ==
    ASSUME Inv, Inv', Aligned, SendMarker
    PROVE  Aligned'
<1> DEFINE marker == Marker(request.apiKey, request.num)
<1> USE Elements
<1>1. pc["requests"] = "sendMarker" /\ pc'["requests"] = "write" /\ pc'["responses"] = pc["responses"]
  BY RequestGoto DEF SendMarker
<1>2. marker \in Markers
  BY <1>1 DEF Inv, TypeOK, DataOK, MarkerReady, Frames, Markers
<1>3. /\ ~Ended("requests") /\ InHand /\ Owed = 0 /\ Unmarked = 1 /\ ~OwesToken /\ ~TokenUnread
      /\ Owed' = 0 /\ Unmarked' = 0 /\ ReauthOnWire' /\ ~Request({"putHandler"})'
  BY <1>1 DEF Ended, EndPlaces, InHand, Owed, Unmarked, OwesToken, TokenUnread, TokenNext, ReauthOnWire
<1>4. request.num = issued /\ issued = reply.num + Len(wire) + 1 /\ NextDue = issued
  BY <1>3 DEF Aligned, Numbered, MarkersCounted
<1>5. InHand' /\ ~OwesToken' /\ (TokenUnread' <=> request.apiKey = "SaslHandshakeV0")
  BY <1>1, <1>3 DEF SendMarker, InHand, OwesToken, TokenUnread, TokenNext, Aligned, Numbered, Inv, MarkerReady
<1>6. /\ marker.num + Step(marker.apiKey) = issued + 1 - Unmarked' + (IF TokenUnread' THEN 1 ELSE 0)
      /\ marker.num = NextDue /\ marker.num <= issued
      /\ \A i \in 0..Len(wire) : marker.num # reply.num + i
      /\ marker.apiKey = request.apiKey
  BY <1>3, <1>4, <1>5 DEF Step
<1>7. /\ openRequests' = Append(openRequests, marker)
      /\ UNCHANGED <<reply, wire, nextResponseHandler, issued, request>>
  BY DEF SendMarker
<1> HIDE DEF marker
<1>8. QED
  BY <1>1, <1>2, <1>3, <1>5, <1>6, <1>7, PushMarker

\* After both requests of a re-authentication are written: enqueueReauthMarker.
LEMMA HandshakeMarkerAligned ==
    ASSUME Inv, Inv', Aligned, EnqueueHandshakeMarker
    PROVE  Aligned'
<1> DEFINE marker == Marker("SaslHandshakeV1", issued - 1)
<1> USE Elements
<1> USE DEF EnqueueHandshakeMarker, EnqueueMarker
<1>1. CASE ~(Len(openRequests) < maxOpenRequests)
  <2>1. pc'["requests"] = "exit" /\ pc'["responses"] = pc["responses"]
    BY <1>1, RequestGoto
  <2>2. QED
    BY <1>1, <2>1, QuietRequest DEF Ended, EndPlaces
<1>2. CASE Len(openRequests) < maxOpenRequests
  <2>1. pc["requests"] = "handshakeMarker" /\ pc'["requests"] = "handshakeHandler" /\ pc'["responses"] = pc["responses"]
    BY <1>2, RequestGoto
  <2>2. marker \in Markers
    BY <2>1 DEF Inv, TypeOK, DataOK, MarkerReady, Markers, Apis
  <2>3. /\ ~Ended("requests") /\ ~InHand /\ Owed = 2 /\ Unmarked = 2 /\ ~OwesToken /\ ~TokenUnread
        /\ ~InHand' /\ Owed' = 2 /\ Unmarked' = 1 /\ ~OwesToken' /\ ~TokenUnread'
        /\ ~Request({"putHandler"})'
    BY <2>1 DEF Ended, EndPlaces, InHand, Owed, Unmarked, OwesToken, TokenUnread, TokenNext
  <2>4. issued = reply.num + Len(wire) /\ NextDue = issued - 1
    BY <2>3 DEF Aligned, Numbered, MarkersCounted
  <2>5. Len(wire) >= 1 /\ FrameKey(Len(wire) - 1) = "SaslHandshakeV1"
    BY <2>1 DEF Aligned, ReauthOnWire
  <2>6. ReauthOnWire'
    BY <2>1 DEF Aligned, ReauthOnWire, FrameKey
  <2>7. \A i \in 0..Len(wire) : marker.num = reply.num + i => marker.apiKey = FrameKey(i)
    <3>1. \A i \in 0..Len(wire) : marker.num = reply.num + i => i = Len(wire) - 1
      BY <2>4
    <3>2. QED
      BY <3>1, <2>5
  <2>8. /\ marker.num + Step(marker.apiKey) = issued + 1 - Unmarked' + (IF TokenUnread' THEN 1 ELSE 0)
        /\ marker.num = NextDue /\ marker.num <= issued
    BY <2>3, <2>4 DEF Step
  <2>9. /\ openRequests' = Append(openRequests, marker)
        /\ UNCHANGED <<reply, wire, nextResponseHandler, issued, request>>
    BY <1>2
  <2> HIDE DEF marker
  <2>10. QED
    BY <2>1, <2>2, <2>3, <2>6, <2>7, <2>8, <2>9, PushMarker
<1>3. QED
  BY <1>1, <1>2

\* The marker of the re-auth token, the second of enqueueReauthMarker.
LEMMA AuthenticateMarkerAligned ==
    ASSUME Inv, Inv', Aligned, EnqueueAuthenticateMarker
    PROVE  Aligned'
<1> DEFINE marker == Marker("SaslAuthenticate", issued)
<1> USE Elements
<1> USE DEF EnqueueAuthenticateMarker, EnqueueMarker
<1>1. CASE ~(Len(openRequests) < maxOpenRequests)
  <2>1. pc'["requests"] = "exit" /\ pc'["responses"] = pc["responses"]
    BY <1>1, RequestGoto
  <2>2. QED
    BY <1>1, <2>1, QuietRequest DEF Ended, EndPlaces
<1>2. CASE Len(openRequests) < maxOpenRequests
  <2>1. pc["requests"] = "authenticateMarker" /\ pc'["requests"] = "authenticateHandler" /\ pc'["responses"] = pc["responses"]
    BY <1>2, RequestGoto
  <2>2. marker \in Markers
    BY DEF Markers, Apis
  <2>3. /\ ~Ended("requests") /\ ~InHand /\ Owed = 1 /\ Unmarked = 1 /\ ~OwesToken /\ ~TokenUnread
        /\ ~InHand' /\ Owed' = 1 /\ Unmarked' = 0 /\ ~OwesToken' /\ ~TokenUnread'
        /\ ~Request({"putHandler"})'
    BY <2>1 DEF Ended, EndPlaces, InHand, Owed, Unmarked, OwesToken, TokenUnread, TokenNext
  <2>4. issued = reply.num + Len(wire) /\ NextDue = issued
    BY <2>3 DEF Aligned, Numbered, MarkersCounted
  <2>5. FrameKey(Len(wire)) = "SaslAuthenticate"
    BY <2>1 DEF Aligned, ReauthOnWire
  <2>6. ReauthOnWire'
    BY <2>1 DEF Aligned, ReauthOnWire, FrameKey
  <2>7. \A i \in 0..Len(wire) : marker.num = reply.num + i => marker.apiKey = FrameKey(i)
    <3>1. \A i \in 0..Len(wire) : marker.num = reply.num + i => i = Len(wire)
      BY <2>4
    <3>2. QED
      BY <3>1, <2>5
  <2>8. /\ marker.num + Step(marker.apiKey) = issued + 1 - Unmarked' + (IF TokenUnread' THEN 1 ELSE 0)
        /\ marker.num = NextDue /\ marker.num <= issued
    BY <2>3, <2>4 DEF Step
  <2>9. /\ openRequests' = Append(openRequests, marker)
        /\ UNCHANGED <<reply, wire, nextResponseHandler, issued, request>>
    BY <1>2
  <2> HIDE DEF marker
  <2>10. QED
    BY <2>1, <2>2, <2>3, <2>6, <2>7, <2>8, <2>9, PushMarker
<1>3. QED
  BY <1>1, <1>2

\* Pushing the response handler that is owed first keeps the queues aligned.
LEMMA PushHandler ==
    ASSUME Inv, Inv', Aligned, NEW handler \in {"default", "saslV0"},
           nextResponseHandler' = Append(nextResponseHandler, handler),
           UNCHANGED <<reply, wire, openRequests, issued>>,
           pc'["responses"] = pc["responses"], ~Ended("requests"),
           handler = "saslV0" <=> FrameKey(Len(wire) + 1 - Owed) = "SaslHandshakeV0",
           ~InHand', ~InHand, Owed = Owed' + 1, Owed' \in Nat, Unmarked' = Unmarked,
           OwesToken' <=> OwesToken, TokenUnread' <=> TokenUnread,
           ~Request({"putHandler"})', ReauthOnWire'
    PROVE  Aligned'
<1> USE Elements
<1>1. Taken' = Taken /\ Taken \in {0, 1} /\ FirstDue' = FirstDue /\ NextDue' = NextDue
  BY DEF Taken, FirstDue, NextDue
<1>2. \A i : FrameKey(i)' = FrameKey(i)
  BY DEF FrameKey
<1>3. /\ Len(nextResponseHandler') = Len(nextResponseHandler) + 1
      /\ \A i \in 1..Len(nextResponseHandler) : nextResponseHandler'[i] = nextResponseHandler[i]
      /\ nextResponseHandler'[Len(nextResponseHandler) + 1] = handler
  BY AppendFacts, AppendAt DEF Inv, TypeOK, ChannelsOK
<1>4. Taken + Len(nextResponseHandler) = Len(wire) + 1 - Owed
  BY <1>1 DEF Aligned, HandlersCounted
<1>5. Numbered'
  BY DEF Aligned, Numbered
<1>6. HandlersCounted'
  BY <1>1, <1>3 DEF Aligned, HandlersCounted
<1>7. HandlersRight'
  <2>1. ASSUME NEW i \in 1..Len(nextResponseHandler')
        PROVE  nextResponseHandler'[i] = "saslV0" <=> FrameKey(Taken + i - 1) = "SaslHandshakeV0"
    <3>1. CASE i = Len(nextResponseHandler) + 1
      <4>1. Taken + i - 1 = Len(wire) + 1 - Owed
        BY <1>1, <1>4, <3>1
      <4>2. QED
        BY <1>3, <3>1, <4>1
    <3>2. CASE i # Len(nextResponseHandler) + 1
      <4>1. i \in 1..Len(nextResponseHandler)
        BY <1>3, <3>2
      <4>2. QED
        BY <1>3, <4>1 DEF Aligned, HandlersRight
    <3>3. QED
      BY <3>1, <3>2
  <2>2. QED
    BY <1>1, <1>2, <2>1 DEF Aligned, HandlersRight
<1>8. TokensFollow'
  BY <1>2 DEF Aligned, TokensFollow
<1>9. MarkersCounted'
  BY <1>1 DEF Aligned, MarkersCounted
<1>10. MarkersRight'
  BY <1>2 DEF Aligned, MarkersRight
<1>11. QED
  BY <1>5, <1>6, <1>7, <1>8, <1>9, <1>10 DEF Aligned

\* The response handler for the answer to the re-auth handshake.
LEMMA HandshakeHandlerAligned ==
    ASSUME Inv, Inv', Aligned, EnqueueHandshakeHandler
    PROVE  Aligned'
<1> USE Elements
<1> USE DEF EnqueueHandshakeHandler, EnqueueHandler
<1>1. CASE ~(Len(nextResponseHandler) < handlerCapacity)
  <2>1. pc'["requests"] = "exit" /\ pc'["responses"] = pc["responses"]
    BY <1>1, RequestGoto
  <2>2. QED
    BY <1>1, <2>1, QuietRequest DEF Ended, EndPlaces
<1>2. CASE Len(nextResponseHandler) < handlerCapacity
  <2>1. pc["requests"] = "handshakeHandler" /\ pc'["requests"] = "authenticateMarker" /\ pc'["responses"] = pc["responses"]
    BY <1>2, RequestGoto
  <2>2. /\ ~Ended("requests") /\ ~InHand /\ Owed = 2 /\ Unmarked = 1 /\ ~OwesToken /\ ~TokenUnread
        /\ ~InHand' /\ Owed' = 1 /\ Unmarked' = 1 /\ ~OwesToken' /\ ~TokenUnread'
        /\ ~Request({"putHandler"})'
    BY <2>1 DEF Ended, EndPlaces, InHand, Owed, Unmarked, OwesToken, TokenUnread, TokenNext
  <2>3. FrameKey(Len(wire) + 1 - Owed) = "SaslHandshakeV1"
    BY <2>1, <2>2 DEF Aligned, ReauthOnWire
  <2>4. ReauthOnWire'
    BY <2>1 DEF Aligned, ReauthOnWire, FrameKey
  <2>5. /\ nextResponseHandler' = Append(nextResponseHandler, "default")
        /\ UNCHANGED <<reply, wire, openRequests, issued>>
    BY <1>2
  <2>6. QED
    BY <2>1, <2>2, <2>3, <2>4, <2>5, PushHandler
<1>3. QED
  BY <1>1, <1>2

\* The response handler for the answer to the re-auth token.
LEMMA AuthenticateHandlerAligned ==
    ASSUME Inv, Inv', Aligned, EnqueueAuthenticateHandler
    PROVE  Aligned'
<1> USE Elements
<1> USE DEF EnqueueAuthenticateHandler, EnqueueHandler
<1>1. CASE ~(Len(nextResponseHandler) < handlerCapacity)
  <2>1. pc'["requests"] = "exit" /\ pc'["responses"] = pc["responses"]
    BY <1>1, RequestGoto
  <2>2. QED
    BY <1>1, <2>1, QuietRequest DEF Ended, EndPlaces
<1>2. CASE Len(nextResponseHandler) < handlerCapacity
  <2>1. pc["requests"] = "authenticateHandler" /\ pc'["requests"] = "reauthDone" /\ pc'["responses"] = pc["responses"]
    BY <1>2, RequestGoto
  <2>2. /\ ~Ended("requests") /\ ~InHand /\ Owed = 1 /\ Unmarked = 0 /\ ~OwesToken /\ ~TokenUnread
        /\ ~InHand' /\ Owed' = 0 /\ Unmarked' = 0 /\ ~OwesToken' /\ ~TokenUnread'
        /\ ~Request({"putHandler"})' /\ ReauthOnWire'
    BY <2>1 DEF Ended, EndPlaces, InHand, Owed, Unmarked, OwesToken, TokenUnread, TokenNext, ReauthOnWire
  <2>3. FrameKey(Len(wire) + 1 - Owed) = "SaslAuthenticate"
    BY <2>1, <2>2 DEF Aligned, ReauthOnWire
  <2>4. /\ nextResponseHandler' = Append(nextResponseHandler, "default")
        /\ UNCHANGED <<reply, wire, openRequests, issued>>
    BY <1>2
  <2>5. QED
    BY <2>1, <2>2, <2>3, <2>4, PushHandler
<1>3. QED
  BY <1>1, <1>2

\* After a request is written: putNextHandlers.
LEMMA PutHandlerAligned ==
    ASSUME Inv, Inv', Aligned, PutResponseHandler
    PROVE  Aligned'
<1> DEFINE handler == IF request.apiKey = "SaslHandshakeV0" THEN "saslV0" ELSE "default"
<1> USE Elements
<1>1. pc["requests"] = "putHandler" /\ pc'["requests"] = "top" /\ pc'["responses"] = pc["responses"]
  BY RequestGoto DEF PutResponseHandler
<1>2. /\ ~Ended("requests") /\ ~InHand /\ Owed = 1 /\ Unmarked = 0
      /\ ~InHand' /\ Owed' = 0 /\ Unmarked' = 0 /\ ~Request({"putHandler"})' /\ ReauthOnWire'
  BY <1>1 DEF Ended, EndPlaces, InHand, Owed, Unmarked, ReauthOnWire
<1>3. /\ OwesToken <=> request.apiKey = "SaslHandshakeV0"
      /\ TokenUnread <=> request.apiKey = "SaslHandshakeV0"
  BY <1>1 DEF OwesToken, TokenUnread, TokenNext
<1>4. Head(nextRequestHandler) = "saslV0" <=> request.apiKey = "SaslHandshakeV0"
  BY <1>1 DEF Aligned, TokensFollow
<1>5. (OwesToken' <=> OwesToken) /\ (TokenUnread' <=> TokenUnread)
  BY <1>1, <1>3, <1>4 DEF PutResponseHandler, OwesToken, TokenUnread, TokenNext
<1>6. handler = "saslV0" <=> FrameKey(Len(wire) + 1 - Owed) = "SaslHandshakeV0"
  <2>1. Len(wire) + 1 - Owed = Len(wire)
    BY <1>2
  <2>2. QED
    BY <1>2, <1>3, <2>1 DEF Aligned, TokensFollow
<1>7. /\ nextResponseHandler' = Append(nextResponseHandler, handler)
      /\ UNCHANGED <<reply, wire, openRequests, issued>>
      /\ handler \in {"default", "saslV0"}
  BY DEF PutResponseHandler
<1> HIDE DEF handler
<1>8. QED
  BY <1>1, <1>2, <1>5, <1>6, <1>7, PushHandler

\* Writing a request to the broker keeps the queues aligned.
LEMMA WriteFrame ==
    ASSUME Inv, Inv', Aligned, NEW frame \in Frames,
           wire' = Append(wire, frame),
           UNCHANGED <<reply, nextResponseHandler, openRequests>>,
           pc'["responses"] = pc["responses"], ~Ended("requests"),
           frame.num = reply.num + (Len(wire) + 1), issued' = frame.num, issued <= issued', ~InHand',
           frame.apiKey = "Raw" <=> FrameKey(Len(wire)) = "SaslHandshakeV0",
           frame.apiKey = "SaslHandshakeV0" <=> OwesToken',
           \A j \in 1..Len(openRequests) : openRequests[j].num = frame.num => openRequests[j].apiKey = frame.apiKey,
           Owed' = Owed + 1, Owed \in Nat,
           NextDue = issued' + 1 - Unmarked' + (IF TokenUnread' THEN 1 ELSE 0),
           Request({"putHandler"})' => (Head(nextRequestHandler)' = "saslV0" <=> request'.apiKey = "SaslHandshakeV0"),
           ReauthOnWire'
    PROVE  Aligned'
<1> USE Elements
<1>1. Taken' = Taken /\ Taken \in {0, 1} /\ FirstDue' = FirstDue /\ NextDue' = NextDue
  BY DEF Taken, FirstDue, NextDue
<1>2. /\ Len(wire') = Len(wire) + 1
      /\ \A i \in 1..Len(wire) : wire'[i] = wire[i]
      /\ wire'[Len(wire) + 1] = frame
  BY AppendFacts, AppendAt DEF Inv, TypeOK, DataOK
<1>3. /\ \A i \in 0..Len(wire) : FrameKey(i)' = FrameKey(i)
      /\ FrameKey(Len(wire))' = frame.apiKey
  BY <1>2 DEF FrameKey
<1>4. Numbered'
  <2>1. ASSUME NEW i \in 1..Len(wire')
        PROVE  wire'[i].num = reply.num + i
    <3>1. CASE i = Len(wire) + 1
      <4>1. wire'[i].num = frame.num
        BY <1>2, <3>1
      <4>2. QED
        BY <3>1, <4>1
    <3>2. CASE i \in 1..Len(wire)
      BY <1>2, <3>2 DEF Aligned, Numbered
    <3>3. QED
      BY <1>2, <3>1, <3>2
  <2>2. issued' = reply'.num + Len(wire') + (IF InHand' THEN 1 ELSE 0)
    BY <1>2
  <2>3. QED
    BY <2>1, <2>2 DEF Numbered
<1>5. HandlersCounted'
  BY <1>1, <1>2 DEF Aligned, HandlersCounted
<1>6. HandlersRight'
  <2>1. \A i \in 1..Len(nextResponseHandler) : Taken + i - 1 \in 0..Len(wire)
    BY <1>1 DEF Aligned, HandlersCounted
  <2>2. \A i \in 1..Len(nextResponseHandler) : FrameKey(Taken + i - 1)' = FrameKey(Taken + i - 1)
    BY <1>1, <1>3, <2>1
  <2>3. QED
    BY <1>1, <2>2 DEF Aligned, HandlersRight
<1>7. TokensFollow'
  <2>1. ASSUME NEW i \in 1..Len(wire')
        PROVE  wire'[i].apiKey = "Raw" <=> FrameKey(i - 1)' = "SaslHandshakeV0"
    <3>1. FrameKey(i - 1)' = FrameKey(i - 1)
      BY <1>2, <1>3
    <3>2. CASE i = Len(wire) + 1
      BY <1>2, <3>1, <3>2
    <3>3. CASE i \in 1..Len(wire)
      BY <1>2, <3>1, <3>3 DEF Aligned, TokensFollow
    <3>4. QED
      BY <1>2, <3>2, <3>3
  <2>2. QED
    BY <1>3, <2>1 DEF TokensFollow
<1>8. MarkersCounted'
  BY <1>1 DEF Aligned, MarkersCounted
<1>9. MarkersRight'
  <2>1. ASSUME NEW j \in 1..Len(openRequests), NEW i \in 0..Len(wire'), openRequests[j].num = reply.num + i
        PROVE  openRequests[j].apiKey = FrameKey(i)'
    <3>1. CASE i = Len(wire')
      <4>1. i = Len(wire) + 1
        BY <1>2, <3>1
      <4>2. frame.num = reply.num + i
        BY <4>1
      <4>3. openRequests[j].num = frame.num
        BY <2>1, <4>2
      <4>4. QED
        BY <1>3, <3>1, <4>3
    <3>2. CASE i \in 0..Len(wire)
      BY <1>3, <2>1, <3>2 DEF Aligned, MarkersRight
    <3>3. QED
      BY <1>2, <3>1, <3>2
  <2>2. QED
    BY <2>1 DEF MarkersRight
<1>10. QED
  BY <1>4, <1>5, <1>6, <1>7, <1>8, <1>9 DEF Aligned

\* runReauth writes the handshake: a marker and a handler are owed for it.
LEMMA WriteHandshakeAligned ==
    ASSUME Inv, Inv', Aligned, WriteReauthHandshake
    PROVE  Aligned'
<1> DEFINE frame == Frame("SaslHandshakeV1", reauthHandshakeCorrelationID, issued + 1)
<1> USE Elements
<1> USE DEF WriteReauthHandshake, WriteReauth
<1>1. pc["requests"] = "writeHandshake" /\ pc'["requests"] = "writeAuthenticate" /\ pc'["responses"] = pc["responses"]
  BY RequestGoto
<1>2. frame \in Frames
  BY DEF Frames, Apis, reauthHandshakeCorrelationID
<1>3. /\ ~Ended("requests") /\ ~InHand /\ Owed = 0 /\ Unmarked = 0 /\ ~OwesToken /\ ~TokenUnread
      /\ ~InHand' /\ Owed' = 1 /\ Unmarked' = 1 /\ ~OwesToken' /\ ~TokenUnread'
      /\ ~Request({"putHandler"})'
  BY <1>1 DEF Ended, EndPlaces, InHand, Owed, Unmarked, OwesToken, TokenUnread, TokenNext
<1>4. wire' = Append(wire, frame) /\ issued' = issued + 1
  OBVIOUS
<1>5. issued + 1 = reply.num + (Len(wire) + 1) /\ NextDue = issued + 1
  BY <1>3 DEF Aligned, Numbered, MarkersCounted
<1>6. FrameKey(Len(wire)) # "SaslHandshakeV0"
  BY <1>3 DEF Aligned, TokensFollow
<1>7. \A j \in 1..Len(openRequests) : openRequests[j].num # frame.num
  BY DEF Aligned, MarkersCounted
<1>8. ReauthOnWire'
  <2>1. Len(wire') = Len(wire) + 1 /\ wire'[Len(wire) + 1] = frame
    BY <1>2, <1>4, AppendFacts, AppendAt DEF Inv, TypeOK, DataOK
  <2>2. QED
    BY <1>1, <2>1 DEF ReauthOnWire, FrameKey
<1>9. QED
  <2>1. /\ frame.apiKey = "SaslHandshakeV1" /\ frame.num = issued + 1
        /\ UNCHANGED <<reply, nextResponseHandler, openRequests>>
    OBVIOUS
  <2> HIDE DEF frame, WriteReauthHandshake
  <2>2. QED
    BY <1>1, <1>2, <1>3, <1>4, <1>5, <1>6, <1>7, <1>8, <2>1, WriteFrame

\* runReauth writes the token behind it: two of each are owed.
LEMMA WriteAuthenticateAligned ==
    ASSUME Inv, Inv', Aligned, WriteReauthAuthenticate
    PROVE  Aligned'
<1> DEFINE frame == Frame("SaslAuthenticate", reauthCorrelationID, issued + 1)
<1> USE Elements
<1> USE DEF WriteReauthAuthenticate, WriteReauth
<1>1. pc["requests"] = "writeAuthenticate" /\ pc'["requests"] = "markInFlight" /\ pc'["responses"] = pc["responses"]
  BY RequestGoto
<1>2. frame \in Frames
  BY DEF Frames, Apis, reauthCorrelationID
<1>3. /\ ~Ended("requests") /\ ~InHand /\ Owed = 1 /\ Unmarked = 1 /\ ~OwesToken /\ ~TokenUnread
      /\ ~InHand' /\ Owed' = 2 /\ Unmarked' = 2 /\ ~OwesToken' /\ ~TokenUnread'
      /\ ~Request({"putHandler"})'
  BY <1>1 DEF Ended, EndPlaces, InHand, Owed, Unmarked, OwesToken, TokenUnread, TokenNext
<1>4. wire' = Append(wire, frame) /\ issued' = issued + 1
  OBVIOUS
<1>5. issued + 1 = reply.num + (Len(wire) + 1) /\ NextDue = issued
  BY <1>3 DEF Aligned, Numbered, MarkersCounted
<1>6. FrameKey(Len(wire)) = "SaslHandshakeV1"
  BY <1>1 DEF Aligned, ReauthOnWire
<1>7. \A j \in 1..Len(openRequests) : openRequests[j].num # frame.num
  BY DEF Aligned, MarkersCounted
<1>8. ReauthOnWire'
  <2>1. /\ Len(wire') = Len(wire) + 1 /\ wire'[Len(wire) + 1] = frame
        /\ \A i \in 1..Len(wire) : wire'[i] = wire[i]
    BY <1>2, <1>4, AppendFacts, AppendAt DEF Inv, TypeOK, DataOK
  <2>2. FrameKey(Len(wire))' = "SaslAuthenticate"
    BY <2>1 DEF FrameKey
  <2>3. FrameKey(Len(wire) - 1)' = "SaslHandshakeV1"
    BY <1>6, <2>1 DEF FrameKey
  <2>4. QED
    BY <1>1, <2>1, <2>2, <2>3 DEF ReauthOnWire
<1>9. QED
  <2>1. /\ frame.apiKey = "SaslAuthenticate" /\ frame.num = issued + 1
        /\ UNCHANGED <<reply, nextResponseHandler, openRequests>>
    OBVIOUS
  <2> HIDE DEF frame, WriteReauthAuthenticate
  <2>2. QED
    BY <1>1, <1>2, <1>3, <1>4, <1>5, <1>6, <1>7, <1>8, <2>1, WriteFrame

\* A client's request is copied to the broker; an unanswered one leaves the queues alone.
LEMMA WriteRequestAligned ==
    ASSUME Inv, Inv', Aligned, WriteRequest
    PROVE  Aligned'
<1> DEFINE handler == IF request.apiKey = "SaslHandshakeV0" THEN "saslV0" ELSE "default"
<1> USE Elements
<1>0. pc["requests"] = "write" /\ nextRequestHandler = <<>>
  BY DEF WriteRequest, Inv, TypeOK, ChannelsOK, HandlerParked, Ended, EndPlaces
<1>1. CASE request.apiKey = "ProduceAcks0"
  <2>1. nextRequestHandler' = <<"default">> /\ Goto("requests", "top") /\ wire' = wire
    BY <1>0, <1>1 DEF WriteRequest, PutRequestHandler
  <2>2. pc'["responses"] = pc["responses"] /\ pc'["requests"] = "top"
    BY <2>1, RequestGoto
  <2>3. Head(nextRequestHandler') = "default"
    BY <2>1
  <2>4. /\ ~Ended("requests") /\ ~InHand /\ Owed = 0 /\ Unmarked = 0 /\ ~OwesToken /\ ~TokenUnread
        /\ ~InHand' /\ Owed' = 0 /\ Unmarked' = 0 /\ ~OwesToken' /\ ~TokenUnread'
        /\ ~Request({"putHandler"})' /\ ReauthOnWire'
    BY <1>0, <1>1, <2>2, <2>3 DEF Ended, EndPlaces, InHand, Owed, Unmarked, OwesToken, TokenUnread, TokenNext, ReauthOnWire
  <2>5. UNCHANGED <<reply, wire, nextResponseHandler, openRequests, issued>>
    BY <2>1 DEF WriteRequest
  <2>6. QED
    BY <2>2, <2>4, <2>5, QuietRequest
<1>2. CASE request.apiKey # "ProduceAcks0"
  <2>1. nextRequestHandler' = <<handler>> /\ Goto("requests", "putHandler") /\ wire' = Append(wire, request)
    BY <1>0, <1>2 DEF WriteRequest, PutRequestHandler
  <2>2. pc'["responses"] = pc["responses"] /\ pc'["requests"] = "putHandler"
    BY <2>1, RequestGoto
  <2>3. UNCHANGED <<reply, nextResponseHandler, openRequests, request, issued>>
    BY DEF WriteRequest
  <2>4. Head(nextRequestHandler') = "saslV0" <=> request.apiKey = "SaslHandshakeV0"
    BY <2>1
  <2>5. /\ ~Ended("requests") /\ InHand /\ Owed = 0 /\ Unmarked = 0
        /\ ~InHand' /\ Owed' = 1 /\ Unmarked' = 0 /\ ReauthOnWire'
        /\ OwesToken <=> request.apiKey = "Raw"
        /\ TokenUnread <=> request.apiKey = "SaslHandshakeV0"
        /\ OwesToken' <=> request.apiKey = "SaslHandshakeV0"
        /\ TokenUnread' <=> request.apiKey = "SaslHandshakeV0"
    BY <1>0, <1>2, <2>2, <2>3 DEF Ended, EndPlaces, InHand, Owed, Unmarked, OwesToken, TokenUnread, TokenNext, ReauthOnWire
  <2>6. request.num = issued /\ issued = reply.num + (Len(wire) + 1)
    BY <2>5 DEF Aligned, Numbered
  <2>7. NextDue = issued + 1 - Unmarked' + (IF TokenUnread' THEN 1 ELSE 0)
    BY <2>5 DEF Aligned, MarkersCounted
  <2>8. request.apiKey = "Raw" <=> FrameKey(Len(wire)) = "SaslHandshakeV0"
    BY <2>5 DEF Aligned, TokensFollow
  <2>9. \A j \in 1..Len(openRequests) : openRequests[j].num = request.num => openRequests[j].apiKey = request.apiKey
    BY <2>5 DEF Aligned, MarkersRight
  <2>10. request \in Frames
    BY DEF Inv, TypeOK, DataOK
  <2>11. Request({"putHandler"})' => (Head(nextRequestHandler)' = "saslV0" <=> request'.apiKey = "SaslHandshakeV0")
    BY <2>3, <2>4
  <2>12. QED
    BY <2>1, <2>2, <2>3, <2>5, <2>6, <2>7, <2>8, <2>9, <2>10, <2>11, WriteFrame
<1>3. QED
  BY <1>1, <1>2

\* Numbering a request read from the client keeps the queues aligned.
LEMMA NumberRequest ==
    ASSUME Inv, Inv', Aligned,
           UNCHANGED <<reply, wire, nextResponseHandler, openRequests>>,
           issued' = issued + 1, request'.num = issued',
           pc'["responses"] = pc["responses"], ~Ended("requests"), ~InHand, InHand',
           Owed' = Owed, OwesToken' <=> OwesToken,
           NextDue = issued' + 1 - Unmarked' + (IF TokenUnread' THEN 1 ELSE 0),
           ~Request({"putHandler"})', ReauthOnWire'
    PROVE  Aligned'
<1> USE Elements
<1>1. Taken' = Taken /\ FirstDue' = FirstDue /\ NextDue' = NextDue
  BY DEF Taken, FirstDue, NextDue
<1>2. \A i : FrameKey(i)' = FrameKey(i)
  BY DEF FrameKey
<1>3. Numbered'
  BY DEF Aligned, Numbered
<1>4. HandlersCounted'
  BY <1>1 DEF Aligned, HandlersCounted
<1>5. HandlersRight'
  BY <1>1, <1>2 DEF Aligned, HandlersRight
<1>6. TokensFollow'
  BY <1>2 DEF Aligned, TokensFollow
<1>7. MarkersCounted'
  BY <1>1 DEF Aligned, MarkersCounted
<1>8. MarkersRight'
  BY <1>2 DEF Aligned, MarkersCounted, MarkersRight
<1>9. QED
  BY <1>3, <1>4, <1>5, <1>6, <1>7, <1>8 DEF Aligned

\* A request header is read: one that wants a reply gets the next number.
LEMMA ReadRequestAligned ==
    ASSUME Inv, Inv', Aligned, NEW key \in ClientApis, ReadRequest(key)
    PROVE  Aligned'
<1> USE Elements
<1>1. pc["requests"] = "read" /\ UNCHANGED <<reply, wire, nextResponseHandler, openRequests>>
  BY DEF ReadRequest
<1>2. ~Ended("requests") /\ ~InHand /\ Owed = 0 /\ Unmarked = 0 /\ ~OwesToken /\ ~TokenUnread
  BY <1>1 DEF Ended, EndPlaces, InHand, Owed, Unmarked, OwesToken, TokenUnread, TokenNext
<1>3. CASE key = "ProduceAcks0"
  <2>1. request'.apiKey = "ProduceAcks0" /\ issued' = issued /\ Goto("requests", "write")
    BY <1>3 DEF ReadRequest
  <2>2. pc'["responses"] = pc["responses"] /\ pc'["requests"] = "write"
    BY <2>1, RequestGoto
  <2>3. /\ ~InHand' /\ Owed' = 0 /\ Unmarked' = 0 /\ ~OwesToken' /\ ~TokenUnread'
        /\ ~Request({"putHandler"})' /\ ReauthOnWire'
    BY <2>1, <2>2 DEF InHand, Owed, Unmarked, OwesToken, TokenUnread, TokenNext, ReauthOnWire
  <2>4. QED
    BY <1>1, <1>2, <2>1, <2>2, <2>3, QuietRequest
<1>4. CASE key # "ProduceAcks0"
  <2>1. /\ request'.apiKey = key /\ request'.num = issued' /\ issued' = issued + 1
        /\ Goto("requests", "sendMarker")
    BY <1>4 DEF ReadRequest
  <2>2. pc'["responses"] = pc["responses"] /\ pc'["requests"] = "sendMarker"
    BY <2>1, RequestGoto
  <2>3. /\ InHand' /\ Owed' = 0 /\ Unmarked' = 1 /\ ~OwesToken' /\ ~TokenUnread'
        /\ ~Request({"putHandler"})' /\ ReauthOnWire'
    BY <2>2 DEF InHand, Owed, Unmarked, OwesToken, TokenUnread, TokenNext, ReauthOnWire
  <2>4. NextDue = issued + 1
    BY <1>2 DEF Aligned, MarkersCounted
  <2>5. QED
    BY <1>1, <1>2, <1>4, <2>1, <2>2, <2>3, <2>4, NumberRequest
<1>5. QED
  BY <1>3, <1>4

\* The bare SASL v0 token is read and numbered; it gets no marker.
LEMMA ReadTokenAligned ==
    ASSUME Inv, Inv', Aligned, ReadSaslToken
    PROVE  Aligned'
<1> USE Elements
<1>1. /\ pc["requests"] = "readRaw" /\ UNCHANGED <<reply, wire, nextResponseHandler, openRequests>>
      /\ request'.apiKey = "Raw" /\ request'.num = issued' /\ issued' = issued + 1
  BY DEF ReadSaslToken
<1>2. pc'["responses"] = pc["responses"] /\ pc'["requests"] = "write"
  BY RequestGoto DEF ReadSaslToken
<1>3. /\ ~Ended("requests") /\ ~InHand /\ Owed = 0 /\ Unmarked = 0 /\ OwesToken /\ TokenUnread
      /\ InHand' /\ Owed' = 0 /\ Unmarked' = 0 /\ OwesToken' /\ ~TokenUnread'
      /\ ~Request({"putHandler"})' /\ ReauthOnWire'
  BY <1>1, <1>2 DEF Ended, EndPlaces, InHand, Owed, Unmarked, OwesToken, TokenUnread, TokenNext, ReauthOnWire
<1>4. NextDue = issued + 2
  BY <1>3 DEF Aligned, MarkersCounted
<1>5. QED
  BY <1>1, <1>2, <1>3, <1>4, NumberRequest

------------------------------------------------------------------------------
\* The response loop takes the next handler.
LEMMA GetHandlerAligned ==
    ASSUME Inv, Inv', Aligned, GetNextResponseHandler
    PROVE  Aligned'
<1> DEFINE handler == Head(nextResponseHandler)
<1> USE Elements
<1>1. /\ pc["responses"] = "getHandler" /\ nextResponseHandler # <<>>
      /\ UNCHANGED <<nextRequestHandler, openRequests, request, reply, wire, issued>>
      /\ nextResponseHandler' = Tail(nextResponseHandler)
  BY DEF GetNextResponseHandler
<1>2. /\ pc'["responses"] = IF handler = "default" THEN "readHeader" ELSE "readRaw"
      /\ pc'["requests"] = pc["requests"]
  BY ResponseGoto DEF GetNextResponseHandler
<1>3. Taken = 0 /\ Taken' = 1 /\ FirstDue' = FirstDue /\ NextDue' = NextDue
  BY <1>1, <1>2 DEF Taken, FirstDue, NextDue
<1>4. \A i : FrameKey(i)' = FrameKey(i)
  BY <1>1 DEF FrameKey
<1>5. /\ InHand' <=> InHand
      /\ OwesToken' <=> OwesToken
      /\ TokenUnread' <=> TokenUnread
      /\ Owed' = Owed /\ Unmarked' = Unmarked /\ (Ended("requests")' <=> Ended("requests"))
  BY <1>1, <1>2 DEF InHand, OwesToken, TokenUnread, TokenNext, Owed, Unmarked, Ended
<1>6. /\ Len(nextResponseHandler') = Len(nextResponseHandler) - 1
      /\ \A i \in 1..Len(nextResponseHandler') : nextResponseHandler'[i] = nextResponseHandler[i + 1]
      /\ handler = nextResponseHandler[1] /\ handler \in {"default", "saslV0"}
      /\ Len(nextResponseHandler) >= 1
  BY <1>1, TailFacts, TailAt DEF Inv, TypeOK, ChannelsOK
<1>7. Numbered'
  BY <1>1, <1>5 DEF Aligned, Numbered
<1>8. HandlersCounted'
  BY <1>1, <1>3, <1>5, <1>6 DEF Aligned, HandlersCounted
<1>9. HandlersRight'
  <2>1. ASSUME NEW i \in 1..Len(nextResponseHandler')
        PROVE  nextResponseHandler'[i] = "saslV0" <=> FrameKey(i) = "SaslHandshakeV0"
    <3>1. i + 1 \in 1..Len(nextResponseHandler) /\ Taken + (i + 1) - 1 = i
      BY <1>3, <1>6
    <3>2. nextResponseHandler[i + 1] = "saslV0" <=> FrameKey(Taken + (i + 1) - 1) = "SaslHandshakeV0"
      BY <3>1 DEF Aligned, HandlersRight
    <3>3. QED
      BY <1>6, <3>1, <3>2
  <2>2. \A i \in 1..Len(nextResponseHandler') : Taken' + i - 1 = i
    BY <1>3
  <2>3. handler = "saslV0" <=> reply.apiKey = "SaslHandshakeV0"
    <3>1. nextResponseHandler[1] = "saslV0" <=> FrameKey(Taken + 1 - 1) = "SaslHandshakeV0"
      BY <1>6 DEF Aligned, HandlersRight
    <3>2. FrameKey(Taken + 1 - 1) = reply.apiKey
      BY <1>3 DEF FrameKey
    <3>3. QED
      BY <1>6, <3>1, <3>2
  <2>4. \A i \in 1..Len(nextResponseHandler') :
            nextResponseHandler'[i] = "saslV0" <=> FrameKey(Taken + i - 1)' = "SaslHandshakeV0"
    BY <1>4, <2>1, <2>2
  <2>5. QED
    BY <1>1, <1>2, <1>6, <2>3, <2>4 DEF HandlersRight
<1>10. TokensFollow' /\ ReauthOnWire'
  BY <1>1, <1>2, <1>4, <1>5 DEF Aligned, TokensFollow, ReauthOnWire
<1>11. MarkersCounted'
  BY <1>1, <1>3, <1>5 DEF Aligned, MarkersCounted
<1>12. MarkersRight'
  BY <1>1, <1>4, <1>5 DEF Aligned, MarkersRight
<1>13. QED
  BY <1>7, <1>8, <1>9, <1>10, <1>11, <1>12 DEF Aligned

\* It reads the broker's next reply.
LEMMA ReadReplyAligned ==
    ASSUME Inv, Inv', Aligned, ReadReply
    PROVE  Aligned'
<1> USE Elements
<1>1. /\ pc["responses"] \in {"readHeader", "readRaw"} /\ wire # <<>>
      /\ UNCHANGED <<nextRequestHandler, nextResponseHandler, openRequests, request, issued>>
      /\ wire' = Tail(wire) /\ reply' = Head(wire)
  BY DEF ReadReply
<1>2. /\ pc'["responses"] = IF pc["responses"] = "readHeader" THEN "getMarker" ELSE "forward"
      /\ pc'["requests"] = pc["requests"]
  BY ResponseGoto DEF ReadReply
<1>3. /\ Len(wire') = Len(wire) - 1 /\ Len(wire) >= 1
      /\ \A i \in 1..Len(wire') : wire'[i] = wire[i + 1]
      /\ reply' = wire[1]
  BY <1>1, TailFacts, TailAt DEF Inv, TypeOK, DataOK
<1>4. \A i \in 0..Len(wire') : FrameKey(i)' = FrameKey(i + 1)
  BY <1>3 DEF FrameKey
<1>5. /\ InHand' <=> InHand
      /\ OwesToken' <=> OwesToken
      /\ TokenUnread' <=> TokenUnread
      /\ Owed' = Owed /\ Unmarked' = Unmarked /\ (Ended("requests")' <=> Ended("requests"))
  BY <1>1, <1>2 DEF InHand, OwesToken, TokenUnread, TokenNext, Owed, Unmarked, Ended
<1>6. Taken = 1 /\ Taken' = 0
  BY <1>1, <1>2 DEF Taken
<1>7. reply'.num = reply.num + 1
  BY <1>3 DEF Aligned, Numbered
<1>8. reply'.apiKey = "Raw" <=> reply.apiKey = "SaslHandshakeV0"
  <2>1. wire[1].apiKey = "Raw" <=> FrameKey(1 - 1) = "SaslHandshakeV0"
    BY <1>3 DEF Aligned, TokensFollow
  <2>2. QED
    BY <1>3, <2>1 DEF FrameKey
<1>9. FirstDue' = FirstDue
  <2>1. CASE pc["responses"] = "readHeader"
    BY <1>2, <1>7, <2>1 DEF FirstDue, Step, Aligned, HandlersRight
  <2>2. CASE pc["responses"] = "readRaw"
    BY <1>2, <1>7, <1>8, <2>2 DEF FirstDue, Step, Aligned, HandlersRight
  <2>3. QED
    BY <1>1, <2>1, <2>2
<1>10. NextDue' = NextDue
  BY <1>1, <1>9 DEF NextDue
<1>11. Numbered'
  <2>1. ASSUME NEW i \in 1..Len(wire')
        PROVE  wire'[i].num = reply'.num + i
    <3>1. i + 1 \in 1..Len(wire)
      BY <1>3
    <3>2. wire[i + 1].num = reply.num + (i + 1)
      BY <3>1 DEF Aligned, Numbered
    <3>3. wire'[i].num = reply.num + (i + 1)
      BY <1>3, <3>2
    <3>4. reply.num + (i + 1) = (reply.num + 1) + i
      <4>1. i \in Nat /\ reply.num \in Nat
        BY <1>3
      <4>2. QED
        BY <4>1, Shift
    <3>5. QED
      BY <1>7, <3>3, <3>4
  <2>2. reply'.num + Len(wire') = reply.num + Len(wire)
    BY <1>3, <1>7
  <2>3. QED
    BY <1>1, <1>5, <1>7, <2>1, <2>2, Elements DEF Aligned, Numbered
<1>12. HandlersCounted'
  <2>1. Owed \in Nat
    BY DEF Owed
  <2>2. Len(nextResponseHandler') + Taken' + Owed' = Len(nextResponseHandler) + Owed
    BY <1>1, <1>5, <1>6, <2>1
  <2>3. Len(nextResponseHandler) + Owed <= Len(wire') + 1
    BY <1>3, <1>6, <2>1 DEF Aligned, HandlersCounted
  <2>4. ~Ended("requests") => Len(nextResponseHandler) + Owed = Len(wire') + 1
    BY <1>3, <1>6, <2>1 DEF Aligned, HandlersCounted
  <2>5. QED
    BY <1>5, <2>2, <2>3, <2>4 DEF HandlersCounted
<1>13. HandlersRight'
  <2>1. ASSUME NEW i \in 1..Len(nextResponseHandler')
        PROVE  nextResponseHandler'[i] = "saslV0" <=> FrameKey(Taken + i - 1)' = "SaslHandshakeV0"
    <3>1. nextResponseHandler[i] = "saslV0" <=> FrameKey(Taken + i - 1) = "SaslHandshakeV0"
      BY <1>1 DEF Aligned, HandlersRight
    <3>2. Taken + i - 1 = (i - 1) + 1 /\ Taken' + i - 1 = i - 1
      BY <1>1, <1>6
    <3>3. i - 1 \in 0..Len(wire')
      BY <1>1, <1>3, <1>6 DEF Aligned, HandlersCounted, Owed
    <3>4. FrameKey(Taken + i - 1)' = FrameKey(Taken + i - 1)
      BY <1>4, <3>2, <3>3
    <3>5. QED
      BY <1>1, <3>1, <3>4
  <2>2. pc["responses"] = "readHeader" => reply'.apiKey # "Raw"
    BY <1>8 DEF Aligned, HandlersRight
  <2>3. QED
    BY <1>1, <1>2, <2>1, <2>2 DEF HandlersRight
<1>14. FrameKey(Len(wire))' = FrameKey(Len(wire))
  BY <1>3, <1>4
<1>15. TokensFollow'
  <2>1. ASSUME NEW i \in 1..Len(wire')
        PROVE  wire'[i].apiKey = "Raw" <=> FrameKey(i - 1)' = "SaslHandshakeV0"
    <3>1. i + 1 \in 1..Len(wire) /\ (i + 1) - 1 = i /\ i - 1 \in 0..Len(wire') /\ (i - 1) + 1 = i
      BY <1>3
    <3>2. wire[i + 1].apiKey = "Raw" <=> FrameKey((i + 1) - 1) = "SaslHandshakeV0"
      BY <3>1 DEF Aligned, TokensFollow
    <3>3. FrameKey(i - 1)' = FrameKey(i)
      BY <1>4, <3>1
    <3>4. QED
      BY <1>3, <3>1, <3>2, <3>3
  <2>2. QED
    BY <1>1, <1>2, <1>5, <1>14, <2>1 DEF Aligned, TokensFollow
<1>16. ReauthOnWire'
  <2>1. CASE Request({"markInFlight", "handshakeMarker", "handshakeHandler"})
    <3>1. Owed = 2 /\ ~Ended("requests")
      BY <2>1 DEF Owed, Ended, EndPlaces
    <3>2. Len(wire) >= 2
      BY <1>6, <3>1 DEF Aligned, HandlersCounted
    <3>3. Len(wire') - 1 \in 0..Len(wire') /\ (Len(wire') - 1) + 1 = Len(wire) - 1 /\ Len(wire') >= 1
      BY <1>3, <3>2
    <3>4. FrameKey(Len(wire) - 1)' = FrameKey(Len(wire) - 1)
      BY <1>4, <3>3
    <3>5. QED
      BY <1>2, <1>14, <2>1, <3>3, <3>4 DEF Aligned, ReauthOnWire
  <2>2. CASE ~Request({"markInFlight", "handshakeMarker", "handshakeHandler"})
    BY <1>2, <1>14, <2>2 DEF Aligned, ReauthOnWire
  <2>3. QED
    BY <2>1, <2>2
<1>17. MarkersCounted'
  BY <1>1, <1>5, <1>9, <1>10 DEF Aligned, MarkersCounted
<1>18. MarkersRight'
  <2>1. ASSUME NEW j \in 1..Len(openRequests), NEW i \in 0..Len(wire'), openRequests[j].num = reply'.num + i
        PROVE  openRequests[j].apiKey = FrameKey(i)'
    <3>0. reply.num + (i + 1) = (reply.num + 1) + i
      <4>1. i \in Nat /\ reply.num \in Nat
        BY <1>3
      <4>2. QED
        BY <4>1, Shift
    <3>1. i + 1 \in 0..Len(wire) /\ reply.num + (i + 1) = (reply.num + 1) + i
      BY <1>3, <3>0
    <3>2. openRequests[j].num = reply.num + (i + 1)
      BY <1>7, <2>1, <3>1
    <3>3. openRequests[j].apiKey = FrameKey(i + 1)
      BY <3>1, <3>2 DEF Aligned, MarkersRight
    <3>4. QED
      BY <1>4, <3>3
  <2>2. QED
    BY <1>1, <1>5, <2>1 DEF Aligned, MarkersRight
<1>19. QED
  BY <1>11, <1>12, <1>13, <1>15, <1>16, <1>17, <1>18 DEF Aligned

\* It pops the marker of the reply in its hands.
LEMMA ReceiveMarkerAligned ==
    ASSUME Inv, Inv', Aligned, ReceiveMarker
    PROVE  Aligned'
<1> USE Elements
<1>1. /\ pc["responses"] = "getMarker" /\ openRequests # <<>>
      /\ UNCHANGED <<nextRequestHandler, nextResponseHandler, request, reply, wire, issued>>
      /\ openRequests' = Tail(openRequests)
  BY DEF ReceiveMarker
<1>2. pc'["responses"] \in {"consume", "forward"} /\ pc'["requests"] = pc["requests"]
  BY ResponseGoto DEF ReceiveMarker
<1>3. /\ Len(openRequests') = Len(openRequests) - 1 /\ Len(openRequests) >= 1
      /\ \A j \in 1..Len(openRequests') : openRequests'[j] = openRequests[j + 1]
      /\ openRequests' = <<>> <=> Len(openRequests) = 1
  <2>1. openRequests \in Seq(Markers) /\ openRequests' \in Seq(Markers)
    BY DEF Inv, TypeOK, ChannelsOK
  <2>2. Len(openRequests') = Len(openRequests) - 1 /\ Len(openRequests) >= 1
    BY <1>1, <2>1, TailFacts
  <2>3. \A j \in 1..Len(openRequests') : openRequests'[j] = openRequests[j + 1]
    BY <1>1, <2>1, <2>2, TailAt
  <2>4. openRequests' = <<>> <=> Len(openRequests') = 0
    BY <2>1
  <2>5. QED
    BY <2>2, <2>3, <2>4
<1>4. \A i : FrameKey(i)' = FrameKey(i)
  BY <1>1 DEF FrameKey
<1>5. /\ InHand' <=> InHand
      /\ OwesToken' <=> OwesToken
      /\ TokenUnread' <=> TokenUnread
      /\ Owed' = Owed /\ Unmarked' = Unmarked /\ (Ended("requests")' <=> Ended("requests"))
  BY <1>1, <1>2 DEF InHand, OwesToken, TokenUnread, TokenNext, Owed, Unmarked, Ended
<1>6. Taken = 0 /\ Taken' = 0
  BY <1>1, <1>2 DEF Taken
<1>7. openRequests[1].num = reply.num /\ openRequests[1].apiKey = reply.apiKey
  <2>1. openRequests[1].num = reply.num
    BY <1>1 DEF Aligned, MarkersCounted, FirstDue
  <2>2. 1 \in 1..Len(openRequests) /\ 0 \in 0..Len(wire) /\ openRequests[1].num = reply.num + 0
    BY <1>3, <2>1
  <2>3. openRequests[1].apiKey = FrameKey(0)
    BY <2>2 DEF Aligned, MarkersRight
  <2>4. QED
    BY <2>1, <2>3 DEF FrameKey
<1>8. FirstDue' = openRequests[1].num + Step(openRequests[1].apiKey)
  BY <1>1, <1>2, <1>7 DEF FirstDue
<1>9. NextDue' = NextDue
  <2>1. CASE Len(openRequests) = 1
    BY <1>1, <1>3, <1>8, <2>1 DEF NextDue
  <2>2. CASE Len(openRequests) > 1
    BY <1>1, <1>3, <2>2 DEF NextDue
  <2>3. QED
    BY <1>3, <2>1, <2>2
<1>10. Numbered'
  BY <1>1, <1>5 DEF Aligned, Numbered
<1>11. HandlersCounted'
  BY <1>1, <1>5, <1>6 DEF Aligned, HandlersCounted
<1>12. HandlersRight'
  BY <1>1, <1>2, <1>4, <1>6 DEF Aligned, HandlersRight
<1>13. TokensFollow' /\ ReauthOnWire'
  BY <1>1, <1>2, <1>4, <1>5 DEF Aligned, TokensFollow, ReauthOnWire
<1>14. MarkersCounted'
  <2>1. openRequests' # <<>> => openRequests'[1].num = FirstDue'
    BY <1>3, <1>8 DEF Aligned, MarkersCounted
  <2>2. ASSUME NEW j \in 1..(Len(openRequests') - 1)
        PROVE  openRequests'[j + 1].num = openRequests'[j].num + Step(openRequests'[j].apiKey)
    <3>1. j + 1 \in 1..(Len(openRequests) - 1) /\ j \in 1..Len(openRequests') /\ j + 1 \in 1..Len(openRequests')
      BY <1>3
    <3>2. openRequests'[j] = openRequests[j + 1] /\ openRequests'[j + 1] = openRequests[(j + 1) + 1]
      BY <1>3, <3>1
    <3>3. openRequests[(j + 1) + 1].num = openRequests[j + 1].num + Step(openRequests[j + 1].apiKey)
      BY <3>1 DEF Aligned, MarkersCounted
    <3>4. QED
      BY <3>2, <3>3
  <2>3. \A j \in 1..Len(openRequests') : openRequests'[j].num <= issued' /\ openRequests'[j].num < NextDue'
    BY <1>1, <1>3, <1>9 DEF Aligned, MarkersCounted
  <2>4. QED
    BY <1>1, <1>5, <1>9, <2>1, <2>2, <2>3 DEF Aligned, MarkersCounted
<1>15. MarkersRight'
  BY <1>1, <1>3, <1>4, <1>5 DEF Aligned, MarkersRight
<1>16. QED
  BY <1>10, <1>11, <1>12, <1>13, <1>14, <1>15 DEF Aligned

\* It hands the reply on, or consumes it.
LEMMA QuietResponse ==
    ASSUME Inv, Aligned,
           pc["responses"] \in {"forward", "consume"}, pc'["responses"] = "getHandler",
           pc'["requests"] = pc["requests"],
           UNCHANGED <<nextRequestHandler, nextResponseHandler, openRequests, request, reply, wire, issued>>
    PROVE  Aligned'
<1> USE Elements
<1>1. Taken' = Taken /\ FirstDue' = FirstDue /\ NextDue' = NextDue
  BY DEF Taken, FirstDue, NextDue
<1>2. \A i : FrameKey(i)' = FrameKey(i)
  BY DEF FrameKey
<1>3. /\ InHand' <=> InHand
      /\ OwesToken' <=> OwesToken
      /\ TokenUnread' <=> TokenUnread
      /\ Owed' = Owed /\ Unmarked' = Unmarked /\ (Ended("requests")' <=> Ended("requests"))
  BY DEF InHand, OwesToken, TokenUnread, TokenNext, Owed, Unmarked, Ended
<1>4. Numbered' /\ HandlersCounted'
  BY <1>1, <1>3 DEF Aligned, Numbered, HandlersCounted
<1>5. HandlersRight'
  BY <1>1, <1>2 DEF Aligned, HandlersRight
<1>6. TokensFollow' /\ ReauthOnWire'
  BY <1>2, <1>3 DEF Aligned, TokensFollow, ReauthOnWire
<1>7. MarkersCounted' /\ MarkersRight'
  BY <1>1, <1>2, <1>3 DEF Aligned, MarkersCounted, MarkersRight
<1>8. QED
  BY <1>4, <1>5, <1>6, <1>7 DEF Aligned

------------------------------------------------------------------------------
\* The initial states satisfy the invariant: the pre-seeded handler is the one
\* for the first reply.
LEMMA InitPairing == Init => Pairing
<1> SUFFICES ASSUME Init PROVE Aligned
  BY DEF Pairing
<1>1. /\ pc["requests"] = "top" /\ pc["responses"] = "getHandler"
      /\ Len(wire) = 0 /\ Len(openRequests) = 0 /\ openRequests = <<>>
      /\ Len(nextResponseHandler) = 1 /\ nextResponseHandler[1] = "default"
      /\ Head(nextRequestHandler) = "default"
      /\ issued = 0 /\ reply.num = 0 /\ reply.apiKey = "Other"
  BY DEF Init, Loops, NoFrame
<1>2. /\ ~Ended("requests") /\ ~InHand /\ ~OwesToken /\ ~TokenUnread /\ Owed = 0 /\ Unmarked = 0
      /\ Taken = 0 /\ NextDue = 1
  BY <1>1 DEF Ended, EndPlaces, InHand, OwesToken, TokenUnread, TokenNext, Owed, Unmarked, Taken,
              NextDue, FirstDue, Step
<1>3. Numbered /\ HandlersCounted
  BY <1>1, <1>2 DEF Numbered, HandlersCounted
<1>4. HandlersRight
  BY <1>1, <1>2 DEF HandlersRight, FrameKey
<1>5. TokensFollow /\ ReauthOnWire
  BY <1>1, <1>2 DEF TokensFollow, ReauthOnWire, FrameKey
<1>6. MarkersCounted /\ MarkersRight
  BY <1>1, <1>2 DEF MarkersCounted, MarkersRight
<1>7. QED
  BY <1>3, <1>4, <1>5, <1>6 DEF Aligned

\* A response loop that ended stays ended.
LEMMA EndedStays == Inv /\ Ended("responses") /\ [Next]_vars => Ended("responses")'
<1> SUFFICES ASSUME Inv, Ended("responses"), [Next]_vars PROVE Ended("responses")'
  OBVIOUS
<1> USE DEF Ended, EndPlaces
<1>1. CASE RequestStep
  <2>1. CASE QuietRequestStep
    BY <2>1, RequestGoto DEF QuietRequestStep, NextRequest, InFlightExpired, ReadRequestClosed, BuildReauth, MarkInFlight,
         ReauthDone, SendMarkerTimeout, PutResponseHandlerTimeout, WriteFails, CopyThenClose, PublishError, CloseRemote,
         CloseLocal, ReadRequestFails, ReadTimeout, StartReauth, PutRequestHandler
  <2>2. CASE SendMarker \/ EnqueueHandshakeMarker \/ EnqueueAuthenticateMarker
    BY <2>2, RequestGoto DEF SendMarker, EnqueueHandshakeMarker, EnqueueAuthenticateMarker, EnqueueMarker
  <2>3. CASE PutResponseHandler \/ EnqueueHandshakeHandler \/ EnqueueAuthenticateHandler
    BY <2>3, RequestGoto DEF PutResponseHandler, EnqueueHandshakeHandler, EnqueueAuthenticateHandler, EnqueueHandler
  <2>4. CASE WriteRequest \/ WriteReauthHandshake \/ WriteReauthAuthenticate
    BY <2>4, RequestGoto DEF WriteRequest, PutRequestHandler, WriteReauthHandshake, WriteReauthAuthenticate, WriteReauth
  <2>5. QED
    BY <1>1, <2>1, <2>2, <2>3, <2>4 DEF RequestStep, QuietRequestStep
<1>2. CASE FromClient
  <2>1. CASE ReadSaslToken \/ ReadRequestFails \/ ReadTimeout \/ StartReauth
    BY <2>1, RequestGoto DEF ReadSaslToken, ReadRequestFails, ReadTimeout, PutRequestHandler, StartReauth
  <2>2. ASSUME NEW key \in ClientApis, ReadRequest(key) PROVE Ended("responses")'
    BY <2>2, RequestGoto DEF ReadRequest
  <2>3. QED
    BY <1>2, <2>1, <2>2 DEF FromClient
<1>3. CASE ResponseStep
  <2>1. CopyThenClose("responses")
    BY <1>3 DEF ResponseStep, GetNextResponseHandler, ResponseHandlerMissing, ReadReplyClosed, ReceiveMarker,
         MarkerMissing, ForwardReply, CompleteReauthHandshake, CompleteReauth, ReplyFails
  <2>2. QED
    BY <2>1, ResponseGoto DEF CopyThenClose, PublishError, CloseRemote, CloseLocal
<1>4. CASE FromBroker
  BY <1>4 DEF FromBroker, ReadReply, ReadReplyFails
<1>5. CASE Terminated \/ UNCHANGED vars
  BY <1>5 DEF Terminated, vars
<1>6. QED
  BY <1>1, <1>2, <1>3, <1>4, <1>5 DEF Next

\* Every step preserves it.
LEMMA NextPairing == Inv /\ Inv' /\ Pairing /\ [Next]_vars => Pairing'
<1> SUFFICES ASSUME Inv, Inv', Pairing, [Next]_vars, ~Ended("responses")' PROVE Aligned'
  BY DEF Pairing
<1>1. Aligned
  BY EndedStays DEF Pairing
<1>2. CASE RequestStep
  <2>1. CASE QuietRequestStep
    BY <1>1, <2>1, QuietRequestAligned
  <2>2. CASE SendMarker \/ EnqueueHandshakeMarker \/ EnqueueAuthenticateMarker
    BY <1>1, <2>2, SendMarkerAligned, HandshakeMarkerAligned, AuthenticateMarkerAligned
  <2>3. CASE PutResponseHandler \/ EnqueueHandshakeHandler \/ EnqueueAuthenticateHandler
    BY <1>1, <2>3, PutHandlerAligned, HandshakeHandlerAligned, AuthenticateHandlerAligned
  <2>4. CASE WriteRequest \/ WriteReauthHandshake \/ WriteReauthAuthenticate
    BY <1>1, <2>4, WriteRequestAligned, WriteHandshakeAligned, WriteAuthenticateAligned
  <2>5. QED
    BY <1>2, <2>1, <2>2, <2>3, <2>4 DEF RequestStep, QuietRequestStep
<1>3. CASE FromClient
  <2>1. ASSUME NEW key \in ClientApis, ReadRequest(key) PROVE Aligned'
    BY <1>1, <2>1, ReadRequestAligned
  <2>2. CASE ReadSaslToken
    BY <1>1, <2>2, ReadTokenAligned
  <2>3. CASE ReadRequestFails \/ ReadTimeout \/ StartReauth
    BY <1>1, <2>3, QuietRequestAligned DEF QuietRequestStep
  <2>4. QED
    BY <1>3, <2>1, <2>2, <2>3 DEF FromClient
<1>4. CASE ResponseStep
  <2>1. CASE GetNextResponseHandler \/ ReceiveMarker
    BY <1>1, <2>1, GetHandlerAligned, ReceiveMarkerAligned
  <2>2. CASE ForwardReply \/ CompleteReauthHandshake \/ CompleteReauth
    <3>1. /\ pc["responses"] \in {"forward", "consume"} /\ pc'["responses"] = "getHandler"
          /\ pc'["requests"] = pc["requests"]
          /\ UNCHANGED <<nextRequestHandler, nextResponseHandler, openRequests, request, reply, wire, issued>>
      BY <2>2, ResponseGoto DEF ForwardReply, CompleteReauthHandshake, CompleteReauth
    <3>2. QED
      BY <1>1, <3>1, QuietResponse
  <2>3. CASE ResponseHandlerMissing \/ ReadReplyClosed \/ MarkerMissing \/ ReplyFails
    <3>1. pc'["responses"] = "exit"
      BY <2>3, ResponseGoto DEF ResponseHandlerMissing, ReadReplyClosed, MarkerMissing, ReplyFails
    <3>2. QED
      BY <3>1 DEF Ended, EndPlaces
  <2>4. CASE CopyThenClose("responses")
    <3>1. Ended("responses")
      BY <2>4 DEF CopyThenClose, PublishError, CloseRemote, CloseLocal, Ended, EndPlaces
    <3>2. QED
      BY <3>1, EndedStays
  <2>5. QED
    BY <1>4, <2>1, <2>2, <2>3, <2>4 DEF ResponseStep
<1>5. CASE FromBroker
  <2>1. CASE ReadReply
    BY <1>1, <2>1, ReadReplyAligned
  <2>2. CASE ReadReplyFails
    <3>1. pc'["responses"] = "exit"
      BY <2>2, ResponseGoto DEF ReadReplyFails
    <3>2. QED
      BY <3>1 DEF Ended, EndPlaces
  <2>3. QED
    BY <1>5, <2>1, <2>2 DEF FromBroker
<1>6. CASE Terminated \/ UNCHANGED vars
  <2>1. UNCHANGED vars
    BY <1>6 DEF Terminated
  <2>2. QED
    <3>1. Numbered' /\ HandlersCounted'
      BY <1>1, <2>1 DEF vars, Aligned, Numbered, HandlersCounted, InHand, Taken, Owed, Ended
    <3>2. HandlersRight'
      BY <1>1, <2>1 DEF vars, Aligned, HandlersRight, Taken, FrameKey
    <3>3. TokensFollow' /\ ReauthOnWire'
      BY <1>1, <2>1 DEF vars, Aligned, TokensFollow, ReauthOnWire, FrameKey, OwesToken, TokenNext, Ended
    <3>4. MarkersCounted'
      BY <1>1, <2>1 DEF vars, Aligned, MarkersCounted, FirstDue, NextDue, Unmarked, TokenUnread, TokenNext, Ended
    <3>5. MarkersRight'
      BY <1>1, <2>1 DEF vars, Aligned, MarkersRight, InHand, FrameKey
    <3>6. QED
      BY <3>1, <3>2, <3>3, <3>4, <3>5 DEF Aligned
<1>7. QED
  BY <1>2, <1>3, <1>4, <1>5, <1>6 DEF Next

\* The queues stay aligned, so
THEOREM Alignment == Spec => []Pairing
BY InitPairing, NextPairing, Invariance, PTL DEF Spec

\* What alignment means for the response loop: the marker it pops is the one of
\* the reply it holds, and each handler reads the kind of reply it is meant for.
LEMMA PairingRepliesPaired == Inv /\ Pairing => RepliesPaired
<1> SUFFICES ASSUME Inv, Pairing PROVE RepliesPaired
  OBVIOUS
<1> USE Elements
<1>1. ASSUME pc["responses"] = "getMarker", openRequests # <<>>
      PROVE  Head(openRequests) = Marker(reply.apiKey, reply.num)
  <2>1. Aligned
    BY <1>1 DEF Pairing, Ended, EndPlaces
  <2>2. openRequests[1].num = reply.num
    BY <1>1, <2>1 DEF Aligned, MarkersCounted, FirstDue
  <2>3. 1 \in 1..Len(openRequests) /\ 0 \in 0..Len(wire) /\ openRequests[1].num = reply.num + 0
    BY <1>1, <2>2
  <2>4. openRequests[1].apiKey = FrameKey(0)
    BY <2>1, <2>3 DEF Aligned, MarkersRight
  <2>5. openRequests[1] \in Markers /\ Head(openRequests) = openRequests[1]
    BY <1>1, <2>3, TailAt DEF Inv, TypeOK, ChannelsOK
  <2>6. QED
    BY <2>2, <2>4, <2>5 DEF FrameKey, Markers
<1>2. ASSUME wire # <<>>, pc["responses"] \in {"readHeader", "readRaw"}
      PROVE  Head(wire).apiKey = "Raw" <=> pc["responses"] = "readRaw"
  <2>1. Aligned
    BY <1>2 DEF Pairing, Ended, EndPlaces
  <2>2. wire[1].apiKey = "Raw" <=> FrameKey(1 - 1) = "SaslHandshakeV0"
    BY <1>2, <2>1 DEF Aligned, TokensFollow
  <2>3. reply.apiKey = "SaslHandshakeV0" <=> pc["responses"] = "readRaw"
    BY <1>2, <2>1 DEF Aligned, HandlersRight
  <2>4. Head(wire) = wire[1]
    BY <1>2, TailAt DEF Inv, TypeOK, DataOK
  <2>5. QED
    BY <2>2, <2>3, <2>4 DEF FrameKey
<1>3. QED
  BY <1>1, <1>2 DEF RepliesPaired

\* Every reply is parsed and rewritten as the answer to its own request, for any
\* number of requests, open requests and re-authentications, and whatever mix of
\* SASL v0, unanswered and ordinary requests the client pipelines.
THEOREM RepliesArePaired == Spec => []RepliesPaired
BY Alignment, Invariance, PairingRepliesPaired, PTL

\* The counts alone show that a channel found empty is about to be filled.
LEMMA PairingStarvation == Inv /\ Pairing => StarvationTransient
<1> SUFFICES ASSUME Inv, Pairing PROVE StarvationTransient
  OBVIOUS
<1> USE Elements
<1>1. ASSUME pc["responses"] = "getHandler", nextResponseHandler = <<>>, ~Ended("requests")
      PROVE  pc["requests"] \in {"putHandler", "handshakeHandler", "authenticateMarker", "authenticateHandler"}
  <2>1. Aligned /\ Taken = 0
    BY <1>1 DEF Pairing, Ended, EndPlaces, Taken
  <2>2. Owed \in Nat /\ Owed = Len(wire) + 1
    BY <1>1, <2>1 DEF Aligned, HandlersCounted, Owed
  <2>3. ASSUME Request({"writeAuthenticate", "markInFlight", "handshakeMarker"}) PROVE FALSE
    <3>1. Unmarked = Owed /\ ~InHand /\ ~TokenUnread
      BY <2>3 DEF Unmarked, Owed, InHand, TokenUnread, TokenNext
    <3>2. issued = reply.num + Len(wire) /\ NextDue = reply.num
      BY <1>1, <2>1, <2>2, <3>1 DEF Aligned, Numbered, MarkersCounted
    <3>3. FirstDue > reply.num
      BY <1>1 DEF FirstDue, Step
    <3>4. QED
      BY <2>1, <3>2, <3>3 DEF Aligned, MarkersCounted, NextDue
  <2>4. Owed # 0
    BY <2>2
  <2>5. Request({"putHandler", "writeAuthenticate", "authenticateMarker", "authenticateHandler",
                 "markInFlight", "handshakeMarker", "handshakeHandler"})
    BY <2>4 DEF Owed
  <2>6. QED
    BY <2>3, <2>5
<1>2. ASSUME pc["responses"] = "getMarker", openRequests = <<>>, ~Ended("requests")
      PROVE  pc["requests"] \in {"writeAuthenticate", "markInFlight", "handshakeMarker",
                                 "handshakeHandler", "authenticateMarker"}
  <2>1. Aligned /\ NextDue = reply.num
    BY <1>2 DEF Pairing, Ended, EndPlaces, NextDue, FirstDue
  <2>2. issued = reply.num + Len(wire) + (IF InHand THEN 1 ELSE 0)
    BY <1>2, <2>1 DEF Aligned, Numbered
  <2>3. reply.num = issued + 1 - Unmarked + (IF TokenUnread THEN 1 ELSE 0)
    BY <1>2, <2>1 DEF Aligned, MarkersCounted
  <2>4. Unmarked \in Nat /\ Unmarked # 0
    BY <2>2, <2>3 DEF Unmarked
  <2>5. InHand => Unmarked >= 2
    BY <2>2, <2>3, <2>4
  <2>6. Request({"sendMarker"}) => InHand /\ Unmarked = 1
    BY DEF InHand, Unmarked
  <2>7. QED
    BY <2>4, <2>5, <2>6 DEF Unmarked
<1>3. QED
  BY <1>1, <1>2 DEF StarvationTransient

\* The five-second waits of the response loop can only run out while the request
\* loop is between two of its sends, or after it ended.
THEOREM StarvationIsTransient == Spec => []StarvationTransient
BY Alignment, Invariance, PairingStarvation, PTL
=============================================================================
