------------------------------ MODULE Requests ------------------------------
(***************************************************************************)
(* The bytes a client sends, on their way to the broker: the framing of    *)
(* DefaultRequestHandler.handleRequest and copySaslAuthRequest, the part   *)
(* of a Produce request that RequestAcksReader reads to learn whether it   *)
(* will be answered, and the re-auth requests the proxy writes in between. *)
(* Module Processor has the same loop with whole requests.                 *)
(*                                                                         *)
(* A stream is a sequence of cells.  A size, an api key, an api version    *)
(* and a correlation id are one cell each; an int16 is two digits to the   *)
(* base Radix (256 in the code) and a varint is digits to the base Radix/2,*)
(* since a length of one kind may be read as the other.  Sizes count       *)
(* cells; a size is an int32, of which SizeSpace is 2^32 in the code.      *)
(*                                                                         *)
(* A read deadline may pass in the middle of a header; the cells read are  *)
(* then lost and the loop goes on out of step with the client.  The        *)
(* auxiliary variable `intact' says that this has not happened; what the   *)
(* broker gets afterwards is garbage, and finding reauth_split_header is   *)
(* that it may happen.                                                     *)
(*                                                                         *)
(* External: the client, which sends whole requests in the layouts of the  *)
(* Kafka protocol.                                                         *)
(***************************************************************************)
EXTENDS Integers, Sequences, SequencesExt

CONSTANTS
    Radix,          \* values of a byte
    Forbidden,      \* forbiddenApiKeys
    MaxRequestSize, \* of a raw SASL token
    SizeSpace,      \* values of a size
    BufSize,        \* requestBufferSize
    Sends,          \* environment: the requests a client may send
    MaxRequests,    \* bound: requests of one client
    MaxTimeouts     \* bound: read deadlines that pass

ASSUME RequestsAssumption ==
    /\ Radix \in Nat /\ Radix > 2 /\ Radix % 2 = 0
    /\ MaxRequestSize \in Nat /\ SizeSpace \in Nat \ {0} /\ BufSize \in Nat \ {0}
    /\ MaxRequests \in Nat /\ MaxTimeouts \in Nat

VARIABLES
    acks0Disabled, \* producerAcks0Disabled
    sent,          \* external: the requests the client has sent
    src,           \* cells from the client, not read yet
    dst,           \* cells written to the broker
    markers,       \* what was put into openRequestsChannel
    pc,            \* where the request loop is
    request,       \* requestKeyVersion
    mustReply,     \* the result of mustReply
    read,          \* readBytes
    left,          \* cells myCopyN still has to copy
    timeouts,      \* read deadlines that have passed
    intact         \* auxiliary: no header has been cut by a deadline

streams == <<src, dst>>
vars == <<acks0Disabled, sent, streams, markers, pc, request, mustReply, read, left, timeouts, intact>>

apiKeyProduce == 0
apiKeyMetadata == 3
apiKeySaslHandshake == 17
apiKeySaslAuthenticate == 36
minRequestApiKey == 0
maxRequestApiKey == 20000

RequestKeyVersion(size, key, version) == [size |-> size, key |-> key, version |-> version]
KeyVersionLen == 2  \* cells of key and version, which the size counts
NoRequest == RequestKeyVersion(0, -1, 0)

------------------------------------------------------------------------------
(* Layouts.                                                                 *)

Char == 1
Chars(n) == [i \in 1..n |-> Char]
Int16(n) == LET u == n % (Radix * Radix) IN <<u \div Radix, u % Radix>>
ToInt16(hi, lo) == LET u == hi * Radix + lo IN IF 2 * hi >= Radix THEN u - Radix * Radix ELSE u
Varint(n) == LET h == Radix \div 2 IN IF n < h THEN <<n>> ELSE <<h + (n % h), n \div h>>
Framed(cells) == <<Len(cells)>> \o cells

Null == -1
NullableString(n) == Int16(n) \o Chars(IF n = Null THEN 0 ELSE n)
CompactNullableString(n) == Varint(n + 1) \o Chars(IF n = Null THEN 0 ELSE n)

\* A Produce request: header version 1 up to v8, version 2 (with tagged fields) from
\* v9 on; a transactional id from v3 on, compact from v9 on.
ProduceCells(version, clientID, txn, acks) ==
    Framed(<<apiKeyProduce, version, 1>> \o NullableString(clientID)
           \o (CASE version < 3 -> <<>>
                 [] version \in 3..8 -> NullableString(txn)
                 [] OTHER -> <<0>> \o CompactNullableString(txn))
           \o Int16(acks) \o <<0, 0, 1, 1>>)

reauthCorrelationID == 2147483646
reauthHandshakeCorrelationID == 2147483645

\* Request.encode around the bodies of SaslHandshakeRequestV0orV1 and
\* SaslAuthenticateRequestV1.
buildReauthHandshakeRequest ==
    Framed(<<apiKeySaslHandshake, 1, reauthHandshakeCorrelationID>> \o NullableString(1) \o NullableString(2))
buildReauthRequest ==
    Framed(<<apiKeySaslAuthenticate, 1, reauthCorrelationID>> \o NullableString(1) \o <<3>> \o Chars(3))

\* What a Produce request says, and in which layout; the ids are as long as an int16
\* can tell.  A transactional producer asks for acks from all replicas.
ProduceLayout(r) ==
    \E clientID, txn \in Null..Len(r.cells), acks \in {-1, 0, 1} :
        /\ 2 * clientID < Radix * Radix /\ 2 * txn < Radix * Radix
        /\ txn # Null => acks = -1
        /\ r.cells = ProduceCells(r.cells[3], clientID, txn, acks)
        /\ r.answered <=> acks # 0

\* The client sends whole requests: their cells, whether they are answered, whether one
\* is the bare token of a SASL v0 exchange, and whether one opens such an exchange.
ASSUME ClientAssumption ==
    \A r \in Sends :
        /\ r.cells \in Seq(Int) /\ r.cells # <<>> /\ r.cells[1] = Len(r.cells) - 1
        /\ 2 * r.cells[1] < SizeSpace
        /\ r.cells # buildReauthHandshakeRequest /\ r.cells # buildReauthRequest
        /\ r.answered \in BOOLEAN /\ r.raw \in BOOLEAN
        /\ r.raw => ~r.answered
        /\ ~r.raw => Len(r.cells) >= 3 /\ r.cells[3] \in Nat
        /\ ~r.raw => IF r.cells[2] = apiKeyProduce THEN ProduceLayout(r) ELSE r.answered
        /\ r.handshakeV0 <=> ~r.raw /\ r.cells[2] = apiKeySaslHandshake /\ r.cells[3] = 0

------------------------------------------------------------------------------
Init ==
    /\ acks0Disabled \in BOOLEAN
    /\ sent = <<>> /\ src = <<>> /\ dst = <<>> /\ markers = <<>>
    /\ pc = "header"
    /\ request = NoRequest
    /\ mustReply = TRUE
    /\ read = <<>>
    /\ left = 0
    /\ timeouts = 0
    /\ intact = TRUE

\* A raw token follows a SaslHandshake v0 and nothing else; who sends acks=0 runs the
\* proxy without producer-acks-0-disabled.
ClientSends(r) ==
    /\ Len(sent) < MaxRequests
    /\ r.raw <=> sent # <<>> /\ Last(sent).handshakeV0
    /\ acks0Disabled => r.answered \/ r.raw
    /\ sent' = Append(sent, r)
    /\ src' = src \o r.cells
    /\ UNCHANGED <<acks0Disabled, dst, markers, pc, request, mustReply, read, left, timeouts, intact>>

Drop(n) == SubSeq(src, n + 1, Len(src))

\* Mutant: there is no largest api key.
RefusedUnbounded(r) == r.size <= KeyVersionLen \/ r.key < minRequestApiKey \/ r.key \in Forbidden

\* RequestKeyVersion.decode and the checks of handleRequest.
Refused(r) ==
    \/ r.size <= KeyVersionLen
    \/ r.key < minRequestApiKey \/ r.key > maxRequestApiKey
    \/ r.key \in Forbidden

ReadKeyVersion ==
    /\ pc = "header"
    /\ Len(src) >= 1 + KeyVersionLen
    /\ request' = RequestKeyVersion(src[1], src[2], src[3])
    /\ src' = Drop(1 + KeyVersionLen)
    /\ mustReply' = TRUE
    /\ pc' = IF Refused(request') THEN "closed"
             ELSE IF request'.key = apiKeyProduce /\ ~acks0Disabled THEN "clientID" ELSE "marker"
    /\ UNCHANGED <<acks0Disabled, sent, dst, markers, read, left, timeouts, intact>>

\* RequestAcksReader takes cells from src and keeps them for the broker.
Take(n) ==
    /\ Len(src) >= n
    /\ read' = read \o SubSeq(src, 1, n)
    /\ src' = Drop(n)

\* readAndDiscardNullableString, behind `before' other cells.
TakeString(before, next) ==
    /\ Len(src) >= before + 2
    /\ LET n == ToInt16(src[before + 1], src[before + 2])
       IN  IF n < -1
           THEN pc' = "closed" /\ UNCHANGED <<src, read>>
           ELSE Take(before + 2 + (IF n = -1 THEN 0 ELSE n)) /\ pc' = next
    /\ UNCHANGED <<acks0Disabled, sent, dst, markers, request, mustReply, left, timeouts, intact>>

\* Mutant: the transactional id is looked for one version too late.
TxnLayoutLate(version) == version \notin 0..3

TxnLayout(version) == version \notin 0..2

\* ReadAndDiscardHeaderV1Part: correlation id and client id.
ReadHeaderPart ==
    pc = "clientID" /\ TakeString(1, IF TxnLayout(request.version) THEN "txnID" ELSE "acks")

\* ReadAndDiscardProduceTxnAcks; v9 and later are read with the layout of v3.
ReadTxnID == pc = "txnID" /\ TakeString(0, "acks")

ReadAcks ==
    /\ pc = "acks"
    /\ Take(2)
    /\ mustReply' = (ToInt16(src[1], src[2]) # 0)
    /\ pc' = "marker"
    /\ UNCHANGED <<acks0Disabled, sent, dst, markers, request, left, timeouts, intact>>

Marker(key, version) == [key |-> key, version |-> version]

\* sendRequestKeyVersion, before the broker can see the request.
SendMarker ==
    /\ pc = "marker"
    /\ markers' = IF mustReply THEN Append(markers, Marker(request.key, request.version)) ELSE markers
    /\ pc' = "write"
    /\ UNCHANGED <<acks0Disabled, sent, streams, request, mustReply, read, left, timeouts, intact>>

WriteKeyVersion ==
    /\ pc = "write"
    /\ dst' = dst \o <<request.size, request.key, request.version>>
    /\ pc' = "writeRead"
    /\ UNCHANGED <<acks0Disabled, sent, src, markers, request, mustReply, read, left, timeouts, intact>>

\* Mutant: what the acks reader took is not counted.
CopyLengthWhole == request.size - KeyVersionLen

\* What handleRequest still has to copy.
CopyLength == request.size - (KeyVersionLen + Len(read))

WriteRead ==
    /\ pc = "writeRead"
    /\ dst' = dst \o read
    /\ left' = CopyLength
    /\ read' = <<>>
    /\ pc' = "copy"
    /\ UNCHANGED <<acks0Disabled, sent, src, markers, request, mustReply, timeouts, intact>>

\* myCopyN: one read and one write of up to a buffer.
Copy(n) ==
    /\ pc = "copy"
    /\ n <= left /\ n <= Len(src)
    /\ dst' = dst \o SubSeq(src, 1, n)
    /\ src' = Drop(n)
    /\ left' = left - n
    /\ UNCHANGED <<acks0Disabled, sent, markers, pc, request, mustReply, read, timeouts, intact>>

\* Mutant: the handler of a raw token is not put.
NextHandlerDefault(r) == "header"

\* putNextHandlers: a SaslHandshake v0 is followed by a raw token.
NextHandler(r) == IF r.key = apiKeySaslHandshake /\ r.version = 0 THEN "raw" ELSE "header"

\* myCopyN returns; a negative count is an error.
CopyEnds ==
    /\ pc = "copy"
    /\ left <= 0
    /\ pc' = IF left < 0 THEN "closed" ELSE NextHandler(request)
    /\ request' = NoRequest
    /\ left' = 0
    /\ UNCHANGED <<acks0Disabled, sent, streams, markers, mustReply, read, timeouts, intact>>

Uint32(n) == n % SizeSpace

\* copySaslAuthRequest: the size of a raw token is compared as an int32, sent on, and
\* copied as a uint32.
ReadRawSize ==
    /\ pc = "raw"
    /\ src # <<>>
    /\ src' = Drop(1)
    /\ IF src[1] > MaxRequestSize
       THEN pc' = "closed" /\ UNCHANGED <<dst, left>>
       ELSE pc' = "copy" /\ dst' = Append(dst, src[1]) /\ left' = Uint32(src[1])
    /\ UNCHANGED <<acks0Disabled, sent, markers, request, mustReply, read, timeouts, intact>>

\* The read deadline passes with n cells of a header read, which are lost.  A re-auth
\* runs if one is due (runReauth); then the loop comes back for a header.
ReadTimesOut(n) ==
    /\ pc = "header"
    /\ timeouts < MaxTimeouts
    /\ n <= Len(src)
    /\ timeouts' = timeouts + 1
    /\ src' = Drop(n)
    /\ intact' = (intact /\ n = 0)
    /\ pc' \in {"header", "reauth"}
    /\ UNCHANGED <<acks0Disabled, sent, dst, markers, request, mustReply, read, left>>

\* The two requests of runReauth, written back to back.
WriteReauthHandshake ==
    /\ pc = "reauth"
    /\ dst' = dst \o buildReauthHandshakeRequest
    /\ pc' = "reauthToken"
    /\ UNCHANGED <<acks0Disabled, sent, src, markers, request, mustReply, read, left, timeouts, intact>>

WriteReauth ==
    /\ pc = "reauthToken"
    /\ dst' = dst \o buildReauthRequest
    /\ pc' = "reauthSent"
    /\ UNCHANGED <<acks0Disabled, sent, src, markers, request, mustReply, read, left, timeouts, intact>>

handshakeMarker == Marker(apiKeySaslHandshake, 1)
authenticateMarker == Marker(apiKeySaslAuthenticate, 1)

\* enqueueReauthResponse, behind MarkInFlight (module Processor has the flag): a marker
\* for each of the two, in their order.  A full channel ends the connection.
EnqueueHandshakeMarker ==
    /\ pc = "reauthSent"
    /\ markers' = Append(markers, handshakeMarker)
    /\ pc' = "reauthMarker"
    /\ UNCHANGED <<acks0Disabled, sent, streams, request, mustReply, read, left, timeouts, intact>>

EnqueueReauthMarker ==
    /\ pc = "reauthMarker"
    /\ markers' = Append(markers, authenticateMarker)
    /\ pc' = "header"
    /\ UNCHANGED <<acks0Disabled, sent, streams, request, mustReply, read, left, timeouts, intact>>

\* A read or write fails or times out (the acks reader too: it reads under the re-auth
\* deadline), no marker can be sent, or no token is to be had.
ConnectionFails ==
    /\ pc # "closed"
    /\ pc' = "closed"
    /\ UNCHANGED <<acks0Disabled, sent, streams, markers, request, mustReply, read, left, timeouts, intact>>

Finished == (pc = "closed" \/ Len(sent) = MaxRequests) /\ UNCHANGED vars

LoopStep ==
    \/ ReadKeyVersion \/ ReadHeaderPart \/ ReadTxnID \/ ReadAcks \/ SendMarker
    \/ WriteKeyVersion \/ WriteRead \/ (\E n \in 1..BufSize : Copy(n)) \/ CopyEnds
    \/ ReadRawSize \/ WriteReauthHandshake \/ WriteReauth
    \/ EnqueueHandshakeMarker \/ EnqueueReauthMarker

Next ==
    \/ LoopStep \/ ConnectionFails \/ Finished
    \/ \E n \in 0..KeyVersionLen : ReadTimesOut(n)
    \/ \E r \in Sends : ClientSends(r)

Spec == Init /\ [][Next]_vars

\* The request loop runs as long as it has something to read and the broker's socket
\* takes what it writes.
FairSpec == Spec /\ WF_vars(LoopStep)
------------------------------------------------------------------------------
(* Properties.                                                              *)

FromProxy(f) == f \in {buildReauthHandshakeRequest, buildReauthRequest}

\* The broker reads by sizes: a whole request stands behind the first n cells.
WholeAt(n) == n < Len(dst) /\ dst[n + 1] \in 0..Len(dst) - n - 1
FrameAt(n) == SubSeq(dst, n + 1, n + 1 + dst[n + 1])

\* A reading: where it ends, the client's requests in it, and the markers due, one for
\* each request the broker answers.
Unread == [end |-> 0, client |-> <<>>, due |-> <<>>]
Answered(n) == n <= Len(sent) /\ sent[n].answered
ReadOn(p) ==
    LET f == FrameAt(p.end) IN
    IF ~WholeAt(p.end) THEN p
    ELSE [end    |-> p.end + Len(f),
          client |-> IF FromProxy(f) THEN p.client ELSE Append(p.client, f),
          due    |-> IF FromProxy(f) \/ Answered(Len(p.client) + 1)
                     THEN Append(p.due, Marker(f[2], f[3])) ELSE p.due]

\* The first k requests of the stream, and all of them.
Reading[k \in Nat] == IF k = 0 THEN Unread ELSE LET p == Reading[k - 1] IN ReadOn(p)
Arrived == Reading[Len(dst)]

FromClient == Arrived.client
DueMarkers == Arrived.due
Rest == SubSeq(dst, Arrived.end + 1, Len(dst))
Allowed(f) == Len(f) >= 4 /\ f[2] \in minRequestApiKey..maxRequestApiKey /\ f[2] \notin Forbidden

\* Every variable keeps its type.
TypeOK ==
    /\ acks0Disabled \in BOOLEAN /\ mustReply \in BOOLEAN
    /\ sent \in Seq(Sends) /\ Len(sent) <= MaxRequests
    /\ src \in Seq(Int) /\ dst \in Seq(Int) /\ read \in Seq(Int)
    /\ markers \in Seq([key : 0..maxRequestApiKey, version : Int])
    /\ pc \in {"header", "clientID", "txnID", "acks", "marker", "write", "writeRead", "copy", "raw",
               "reauth", "reauthToken", "reauthSent", "reauthMarker", "closed"}
    /\ request.size \in Int /\ request.key \in Int /\ request.version \in Int
    /\ left \in Int /\ timeouts \in 0..MaxTimeouts /\ intact \in BOOLEAN

\* As long as no deadline has cut a header (reauth_split_header shows that one may), the
\* broker finds the client's requests in its stream, whole, in order and unchanged,
\* whatever the acks reader took out of them and however the copy was cut; a re-auth
\* stands between two requests and never inside one; what is refused is not begun.
BrokerStream == intact =>
    /\ IsPrefix(FromClient, [i \in 1..Len(sent) |-> sent[i].cells])
    /\ Rest # <<>> => Len(FromClient) < Len(sent) /\ IsPrefix(Rest, sent[Len(FromClient) + 1].cells)
    /\ \A i \in 1..Len(FromClient) : Allowed(FromClient[i]) \/ sent[i].raw

\* The markers of the proxy's own requests that the broker has and that runReauth is
\* about to enqueue.
Owed ==
    CASE pc = "reauthToken" -> <<handshakeMarker>>
      [] pc = "reauthSent" -> <<handshakeMarker, authenticateMarker>>
      [] pc = "reauthMarker" -> <<authenticateMarker>>
      [] OTHER -> <<>>

\* As long as no deadline has cut a header, a marker is queued for each request that will
\* be answered and for no other, in every version and layout of Produce.  The marker of
\* a client's request is there before the broker has the request; those of the proxy's
\* own two follow right behind them, before the loop reads from the client again.
MarkersRight == intact /\ pc # "closed" =>
    /\ IsPrefix(DueMarkers, markers \o Owed)
    /\ pc \in {"header", "raw", "reauth", "reauthToken", "reauthSent", "reauthMarker"} => markers \o Owed = DueMarkers

\* A request the client has sent arrives, or the connection ends, or a deadline has cut a
\* header: the acks reader never waits for cells beyond the request it reads.
Delivered ==
    \A n \in 1..MaxRequests : Len(sent) >= n ~> (pc = "closed" \/ ~intact \/ Len(FromClient) >= n)
=============================================================================
