------------------------------- MODULE Replies -------------------------------
(***************************************************************************)
(* DefaultResponseHandler.handleResponse (proxy/processor_default.go) on   *)
(* the stream of one broker connection: how a reply's header and tagged    *)
(* fields are read, how the addresses in Metadata and FindCoordinator      *)
(* replies are replaced (proxy/protocol/responses.go) and how the rest is  *)
(* passed on.  Module Processor has the loops and the queues around it and *)
(* shows that a reply meets the marker of its own request; module          *)
(* Listeners has the address mapping.  A reply to the proxy's own re-auth  *)
(* is consumed, a raw SASL v0 reply is copied by copySaslAuthResponse.     *)
(***************************************************************************)
EXTENDS Codec

CONSTANTS
    Mapping,  \* GetNetAddressMapping where it succeeds: <<host, port>> -> <<host, port>>
    InitialSessionLifetime, \* what the first authentication gave newConnectionAuthState
    Streams   \* external: the sequences of replies a broker may send

VARIABLES
    pc,      \* where handleResponse is
    replies, \* the replies of this connection, in order
    sent,    \* how many of them the broker has sent
    queue,   \* those not handled yet, the current one first
    src,     \* cells the broker has sent, not yet read
    dst,     \* cells written to the client
    header,  \* ResponseHeader: Length and CorrelationID
    tagged,  \* unknownTaggedFields, as read
    body,    \* newResponseBuf: a buffer, or None where the body is only copied
    session  \* ConnectionAuthState.sessionLifetime

vars == <<pc, replies, sent, queue, src, dst, header, tagged, body, session>>

None == <<>>
apiKeySaslHandshake == 17
apiKeySaslAuthenticate == 36
reauthCorrelationID == 2147483646
reauthHandshakeCorrelationID == 2147483645
Drop(s, n) == SubSeq(s, n + 1, Len(s))

------------------------------------------------------------------------------
(* protocol/request_key_version.go: the first version of each api, by key,   *)
(* whose reply header has tagged fields; all versions of later keys do.      *)

Never == 1000
FirstFlexible ==
    <<9, 12, 6, 9, 4, 2, 6, 3, 8, 6, 3, 6, 4, 4, 4, 5, 3, Never, Never, 5,
      4, 2, 2, 4, 3, 3, 3, 1, 3, 2, 2, 2, 4, 2, 2, 2, 2, 2, 2, 2,
      2, 2, 2, 2, 1, 0, 0, Never, 1, 1, 0, 0, 0, Never, Never>>

ResponseHeaderVersion(r) ==
    IF r.key < Len(FirstFlexible) /\ r.version < FirstFlexible[r.key + 1] THEN 0 ELSE 1

isProxyReauthResponse(r, h) ==
    \/ r.key = apiKeySaslHandshake /\ h.CorrelationID = reauthHandshakeCorrelationID
    \/ r.key = apiKeySaslAuthenticate /\ h.CorrelationID = reauthCorrelationID

------------------------------------------------------------------------------
(* External: what a broker sends.  A reply r has a key, a version, the id of *)
(* the request, header tags if its version is flexible, and a body: a value  *)
(* of the two kinds of reply the proxy opens and of the replies to its own   *)
(* re-auth, of the others just cells.  A raw reply is a size and an (empty)  *)
(* SASL message.                                                             *)

Replied ==
    [key : Nat, version : Nat, id : Int, flexible : BOOLEAN, raw : BOOLEAN,
     tags : SchemaTaggedFields.values, value : Values, cells : Seq(Int)]

Opened(r) == r.key \in {apiKeyMetadata, apiKeyFindCoordinator} /\ Supported(r.key, r.version)
ForProxy(r) == r.id \in {reauthCorrelationID, reauthHandshakeCorrelationID}

SaslLayout(id) ==
    IF id = reauthHandshakeCorrelationID THEN SaslHandshakeResponseV0orV1 ELSE SaslAuthenticateResponseV1
Layout(r) == IF Opened(r) THEN ResponseSchema(r.key, r.version) ELSE SaslLayout(r.id)
Err(r) == r.value.items[1].cells[1]
Lifetime(r) == r.value.items[4].cells[1]

Body(r) == IF Opened(r) \/ ForProxy(r) THEN Layout(r).encode[r.value] ELSE r.cells
TagCells(r) == IF r.flexible THEN SchemaTaggedFields.encode[r.tags] ELSE <<>>

Framed(cells) == <<Len(cells)>> \o cells
Frame(r) == Framed(IF r.raw THEN r.cells ELSE <<r.id>> \o TagCells(r) \o Body(r))

\* The replies have the layout of their version, the table of header versions is
\* Kafka's, and no client uses the two ids reserved for the proxy.  Listeners have an
\* address.
ASSUME BrokerAssumption ==
    /\ \A s \in Streams : s \in Seq(Replied) /\ \A i \in DOMAIN s :
        LET r == s[i] IN
        /\ Opened(r) \/ ForProxy(r) => r.value \in Layout(r).values /\ ~r.raw
        /\ r.raw => r.cells = <<>>
        /\ ~r.raw => r.flexible = (ResponseHeaderVersion(r) = 1)
        /\ ForProxy(r) => ~r.flexible /\ isProxyReauthResponse(r, [CorrelationID |-> r.id])
    /\ \A a \in DOMAIN Mapping : Mapping[a] \in Seq(Nat) \X Int

ASSUME SessionAssumption == InitialSessionLifetime \in Nat

------------------------------------------------------------------------------
(* protocol/responses.go.                                                    *)

Index(s, name) == CHOOSE i \in DOMAIN s.fields : s.fields[i].name = name
HasField(s, name) == \E i \in DOMAIN s.fields : s.fields[i].name = name

\* Mutant: a node that is not there is looked up like any other.
AbsentNever(host, port) == FALSE

\* A coordinator or broker that is not available has no address to replace.
Absent(host, port) == host = <<>> /\ port <= 0

\* Struct.Replace, by the index of the field.
Replace(v, i, new) == Tree([v.items EXCEPT ![i] = new])

\* The body of both loops: one broker or coordinator, which may be absent.
modifyNode(s, v) ==
    LET h == Index(s, "host")
        p == Index(s, "port")
        host == v.items[h].cells
        port == v.items[p].cells[1]
        new == Mapping[<<host, port>>]
    IN  IF Absent(host, port) THEN Ok(v, 0)
        ELSE IF <<host, port>> \notin DOMAIN Mapping THEN Failed
        ELSE Ok(Replace(Replace(v, h, Leaf(new[1])), p, Leaf(<<new[2]>>)), 0)

modifyCoordinator(s, v) ==
    LET c == Index(s, "coordinator")
        r == modifyNode(s.fields[c].type, v.items[c])
    IN  IF r.ok THEN Ok(Replace(v, c, r.value), 0) ELSE Failed

\* The array in field a with its elements modified; the first error ends the reply.
Modified(v, a, results) ==
    IF \A i \in DOMAIN results : results[i].ok
    THEN Ok(Replace(v, a, Tree([i \in DOMAIN results |-> results[i].value])), 0)
    ELSE Failed

\* The struct type of the elements of the array in field a.
Element(s, a) == s.fields[a].type.fields[1].type

modifyMetadataResponse(s, v) ==
    LET a == Index(s, "brokers")
        old == v.items[a].items
    IN  Modified(v, a, [i \in DOMAIN old |-> modifyNode(Element(s, a), old[i])])

modifyFindCoordinatorResponse(s, v) ==
    IF HasField(s, "coordinators")
    THEN LET a == Index(s, "coordinators")
             old == v.items[a].items
         IN  Modified(v, a, [i \in DOMAIN old |-> modifyCoordinator(Element(s, a), old[i])])
    ELSE modifyCoordinator(s, v)

\* responseModifier.Apply, with the modifier's schema s.
Apply(key, s, cells) ==
    LET decoded == DecodeSchema(cells, s)
        modified == IF key = apiKeyMetadata THEN modifyMetadataResponse(s, decoded.value)
                    ELSE modifyFindCoordinatorResponse(s, decoded.value)
    IN  IF decoded.ok /\ modified.ok THEN EncodeSchema(modified.value, s) ELSE Failed

------------------------------------------------------------------------------
(* handleResponse.                                                           *)

Init ==
    /\ pc = "header"
    /\ replies \in Streams
    /\ sent = 0
    /\ queue = replies
    /\ src = <<>>
    /\ dst = <<>>
    /\ header = [Length |-> 2, CorrelationID |-> 0]
    /\ tagged = <<>>
    /\ body = None
    /\ session = InitialSessionLifetime

\* External: a reply arrives, possibly behind one that is still being handled.
BrokerSends ==
    /\ sent < Len(replies)
    /\ sent' = sent + 1
    /\ src' = src \o Frame(replies[sent'])
    /\ UNCHANGED <<pc, replies, queue, dst, header, tagged, body, session>>

Goto(place) == pc' = place
Refuse == Goto("refused") /\ UNCHANGED <<header, tagged, body, session>>

\* The request the next reply answers, for which handler and marker stand.
request == Head(queue)

\* Mutant: a reply without a body is let through.
ReadHeaderUnchecked ==
    /\ pc = "header" /\ Len(src) >= 2 /\ ~request.raw
    /\ src' = Drop(src, 2)
    /\ header' = [Length |-> src[1], CorrelationID |-> src[2]]
    /\ Goto("tagged") /\ UNCHANGED <<queue, tagged, body, session>>
    /\ UNCHANGED <<replies, sent, dst>>

\* The first eight bytes; at least something must follow the correlation id.  Then
\* the marker, which is the reply's own (Processor's RepliesPaired).
ReadHeader ==
    /\ pc = "header" /\ Len(src) >= 2 /\ ~request.raw
    /\ src' = Drop(src, 2)
    /\ IF src[1] <= 1
       THEN Refuse
       ELSE /\ header' = [Length |-> src[1], CorrelationID |-> src[2]]
            /\ Goto("tagged")
            /\ UNCHANGED <<tagged, body, session>>
    /\ UNCHANGED <<replies, sent, queue, dst>>

\* copySaslAuthResponse: the size of a raw SASL v0 reply, and nothing behind it.
CopySaslAuthResponse ==
    /\ pc = "header" /\ src # <<>> /\ request.raw
    /\ dst' = Append(dst, src[1])
    /\ src' = Drop(src, 1)
    /\ queue' = Tail(queue)
    /\ UNCHANGED <<pc, replies, sent, header, tagged, body, session>>

\* Mutant: a reply without a lifetime clears the one before.
CompleteReauthClears(lifetime) == session' = lifetime

\* ConnectionAuthState.CompleteReauth.
CompleteReauth(lifetime) == session' = IF lifetime > 0 THEN lifetime ELSE session

\* consumeReauthResponse and completeReauthHandshake: the rest of the reply is read,
\* nothing goes to the client, an error code ends the connection.
ConsumeReauthResponse ==
    LET n == header.Length - 1
        handshake == header.CorrelationID = reauthHandshakeCorrelationID
        res == DecodeSchema(SubSeq(src, 1, n), SaslLayout(header.CorrelationID))
    IN  /\ pc = "tagged" /\ isProxyReauthResponse(request, header)
        /\ src' = Drop(src, n)
        /\ IF ~res.ok \/ res.value.items[1].cells[1] # 0
           THEN Goto("refused") /\ UNCHANGED <<queue, session>>
           ELSE /\ Goto("header")
                /\ queue' = Tail(queue)
                /\ IF handshake THEN UNCHANGED session ELSE CompleteReauth(res.value.items[4].cells[1])
        /\ UNCHANGED <<replies, sent, dst, header, tagged, body>>

MaybeRead ==
    /\ pc = "tagged" /\ ~isProxyReauthResponse(request, header)
    /\ LET r == SchemaTaggedFields.decode[src][0] IN
       IF ResponseHeaderVersion(request) = 0
       THEN tagged' = <<>> /\ Goto("modify") /\ UNCHANGED src
       ELSE IF r.ok
       THEN tagged' = SubSeq(src, 1, r.off) /\ src' = Drop(src, r.off) /\ Goto("modify")
       ELSE Goto("refused") /\ UNCHANGED <<tagged, src>>
    /\ UNCHANGED <<replies, sent, queue, dst, header, body, session>>

\* The correlation id and the tagged fields are counted in Length and already read.
readResponsesHeaderLength == 1 + Len(tagged)

\* Mutant: the length of a rewritten reply forgets the tagged fields.
NewLengthUntagged(cells) == Len(cells) + 1

\* Length of the header in front of a rewritten body.
NewLength(cells) == Len(cells) + readResponsesHeaderLength

PassOn ==
    /\ pc = "modify"
    /\ request.key \notin {apiKeyMetadata, apiKeyFindCoordinator}
    /\ body' = None
    /\ Goto("writeHeader")
    /\ UNCHANGED <<replies, sent, queue, src, dst, header, tagged, session>>

\* The reply goes on with its new body, or it ends here.
Rewritten(new) ==
    IF new.ok
    THEN /\ body' = <<new.value>>
         /\ header' = [header EXCEPT !.Length = NewLength(new.value)]
         /\ Goto("writeHeader")
         /\ UNCHANGED <<tagged, session>>
    ELSE Refuse

\* GetResponseModifier and Apply: the whole body is read and rewritten before the
\* first byte is written.  (A Length that does not even cover the tagged fields
\* would panic here; no broker sends one.)
Rewrite ==
    LET n == header.Length - readResponsesHeaderLength IN
    /\ pc = "modify"
    /\ request.key \in {apiKeyMetadata, apiKeyFindCoordinator}
    /\ IF ~Supported(request.key, request.version) \/ header.Length > MaxMessage
       THEN Refuse /\ UNCHANGED src
       ELSE /\ src' = Drop(src, n)
            /\ Rewritten(Apply(request.key, ResponseSchema(request.key, request.version), SubSeq(src, 1, n)))
    /\ UNCHANGED <<replies, sent, queue, dst>>

\* What the next write sends: the header, the tagged fields, then the new body or
\* what myCopyN copies of the old one.
Outgoing ==
    CASE pc = "writeHeader" -> <<header.Length, header.CorrelationID>>
      [] pc = "writeTagged" -> tagged
      [] pc = "writeBody"   -> IF body # None THEN body[1]
                               ELSE SubSeq(src, 1, header.Length - readResponsesHeaderLength)
      [] OTHER -> <<>>

WriteHeader ==
    /\ pc = "writeHeader"
    /\ dst' = dst \o Outgoing
    /\ Goto("writeTagged")
    /\ UNCHANGED <<replies, sent, queue, src, header, tagged, body, session>>

WriteTagged ==
    /\ pc = "writeTagged"
    /\ dst' = dst \o Outgoing
    /\ Goto("writeBody")
    /\ UNCHANGED <<replies, sent, queue, src, header, tagged, body, session>>

WriteBody ==
    /\ pc = "writeBody"
    /\ dst' = dst \o Outgoing
    /\ src' = IF body = None THEN Drop(src, Len(Outgoing)) ELSE src
    /\ queue' = Tail(queue)
    /\ Goto("header")
    /\ UNCHANGED <<replies, sent, header, tagged, body, session>>

\* A read or a write fails, the write after any part of what it had to write.
ConnectionFails ==
    /\ pc \notin {"refused", "closed"}
    /\ \E n \in 0..Len(Outgoing) : dst' = dst \o SubSeq(Outgoing, 1, n)
    /\ Goto("closed")
    /\ UNCHANGED <<replies, sent, queue, src, header, tagged, body, session>>

Idle ==
    /\ pc \in {"refused", "closed"} \/ (pc = "header" /\ queue = <<>>)
    /\ UNCHANGED vars

Next ==
    \/ BrokerSends \/ ReadHeader \/ CopySaslAuthResponse \/ ConsumeReauthResponse
    \/ MaybeRead \/ PassOn \/ Rewrite
    \/ WriteHeader \/ WriteTagged \/ WriteBody \/ ConnectionFails \/ Idle

Spec == Init /\ [][Next]_vars

------------------------------------------------------------------------------
(* Properties.                                                               *)

\* How many replies have been handled.
handled == Len(replies) - Len(queue)

\* Every variable keeps its type, and a reply being handled has something behind
\* its correlation id.
TypeOK ==
    /\ pc \in {"header", "tagged", "modify", "writeHeader", "writeTagged", "writeBody",
               "refused", "closed"}
    /\ replies \in Seq(Replied) /\ sent \in 0..Len(replies)
    /\ handled \in 0..sent /\ queue = Drop(replies, handled)
    /\ src \in Seq(Int) /\ dst \in Seq(Int) /\ tagged \in Seq(Int) /\ body \in Seq(Seq(Int))
    /\ header \in [Length : Nat \ {0, 1}, CorrelationID : Int] /\ session \in Nat

\* The nodes a reply names: the brokers of a Metadata reply, the coordinators of a
\* FindCoordinator reply, of which there is one before version 4.
BrokersAt(r) == IF r.version >= 3 THEN 2 ELSE 1
CoordinatorAt(r) == IF r.version = 0 THEN 2 ELSE 4
Nodes(r) ==
    IF r.key = apiKeyMetadata THEN r.value.items[BrokersAt(r)].items
    ELSE IF r.version < 4 THEN <<r.value.items[CoordinatorAt(r)]>>
    ELSE [i \in DOMAIN r.value.items[2].items |-> r.value.items[2].items[i].items[2]]

\* A node has an id, a host and a port first; one that is not available has no address.
Address(node) == <<node.items[2].cells, node.items[3].cells[1]>>
Named(node) == Address(node)[1] # <<>> \/ Address(node)[2] > 0

\* What the client should get for reply r: the same reply with the listeners'
\* addresses for the brokers'.
Local(node) ==
    LET new == Mapping[Address(node)] IN
    IF Named(node) /\ Address(node) \in DOMAIN Mapping
    THEN Tree([node.items EXCEPT ![2] = Leaf(new[1]), ![3] = Leaf(<<new[2]>>)])
    ELSE node
LocalValue(r) ==
    LET v == r.value
        nodes == Nodes(r)
    IN  IF r.key = apiKeyMetadata
        THEN Replace(v, BrokersAt(r), Tree([i \in DOMAIN nodes |-> Local(nodes[i])]))
        ELSE IF r.version < 4 THEN Replace(v, CoordinatorAt(r), Local(nodes[1]))
        ELSE Replace(v, 2, Tree([i \in DOMAIN nodes |-> Replace(v.items[2].items[i], 2, Local(nodes[i]))]))
ForClient(r) == IF Opened(r) THEN [r EXCEPT !.value = LocalValue(r)] ELSE r

\* What may not be delivered: a version without a schema, an address without a
\* listener, a string or an array beyond the limits of the decoder or the encoder, a
\* reply that is too long before or after, a reply without a body, a re-auth the broker
\* rejects.
Beyond(type, value, new) == ~type.readable[value] \/ ~type.encodable[new]
Refusable(r) ==
    \/ r.key \in {apiKeyMetadata, apiKeyFindCoordinator} /\ ~Supported(r.key, r.version)
    \/ Opened(r) /\ \/ \E i \in DOMAIN Nodes(r) : Named(Nodes(r)[i]) /\ Address(Nodes(r)[i]) \notin DOMAIN Mapping
                    \/ Beyond(Layout(r), r.value, LocalValue(r))
                    \/ Frame(r)[1] > MaxMessage \/ Len(Body(ForClient(r))) > MaxMessage
    \/ ~r.raw /\ ~r.flexible /\ Body(r) = <<>>
    \/ ForProxy(r) /\ (~Layout(r).readable[r.value] \/ Err(r) # 0)

\* What the client should have of the first n replies.
ClientFrame(r) == IF ForProxy(r) THEN <<>> ELSE Frame(ForClient(r))
ClientFrames(n) == Joined(n, [i \in 1..n |-> ClientFrame(replies[i])])

Follows(done) ==
    /\ pc = "header" => dst = done
    /\ IsPrefix(done, dst)
    /\ dst # done => /\ ~Refusable(request) /\ ~ForProxy(request)
                     /\ IsPrefix(dst, done \o ClientFrame(request))

\* The client can follow the stream to the last byte: after every reply it has
\* exactly the frames of the replies so far with the listeners' addresses in them,
\* whatever the lengths of the old and the new hosts, and in between only a
\* beginning of the next one.  No address of a node in a Metadata or FindCoordinator
\* reply and no part of a re-auth reaches a client, and a client's own SASL exchange
\* does.  (Addresses in replies of other apis pass: the proxy does not open them.)
ClientStream == Follows(ClientFrames(handled))

\* The proxy ends a connection over a reply only when the reply cannot be delivered,
\* and then before any of it has been written.
RefusedWhole ==
    pc = "refused" => Refusable(request) /\ dst = ClientFrames(handled)

\* The session the connection is renewed by is the one the broker granted last, with
\* the first authentication if no re-auth was granted one: the lifetime comes out of
\* the reply behind a message and bytes of any length, also when the client
\* authenticates on the same connection or a handshake fails in between.
Granted == {i \in 1..handled : replies[i].id = reauthCorrelationID /\ Lifetime(replies[i]) > 0}
SessionCurrent ==
    IF Granted = {} THEN session = InitialSessionLifetime
    ELSE \E i \in Granted : session = Lifetime(replies[i]) /\ \A j \in Granted : j <= i
=============================================================================
