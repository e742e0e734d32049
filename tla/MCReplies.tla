------------------------------ MODULE MCReplies ------------------------------
(* Replies for TLC: every version of the two kinds of reply the proxy opens, *)
(* one version too many of each, and other replies behind them.              *)
EXTENDS Replies, TLC

Node(id, host, port) == [id |-> id, host |-> host, port |-> port]
n1 == Node(1, <<1>>, 9)
n2 == Node(2, <<1, 1, 1>>, 9)
Unmapped == Node(3, <<4>>, 9)
HalfAbsent == Node(4, <<>>, 9)
NoNode == Node(-1, <<>>, -1)

\* Listeners share a host that is longer than one broker's name and shorter than
\* the other's.
MCMapping == <<<<1>>, 9>> :> <<<<2, 2>>, 5>> @@ <<<<1, 1, 1>>, 9>> :> <<<<2, 2>>, 6>>

\* Values of the two kinds of reply: full (strings and tags present, two of everything)
\* or sparse.
number == Leaf(<<1>>)
Text(full) == Leaf(IF full THEN <<7>> ELSE <<>>)
NullableText(full) == Leaf(IF full THEN <<7, 7>> ELSE Null)
Two(full, v) == Tree(IF full THEN <<v, v>> ELSE <<>>)
TagList(tags) == Tree([i \in DOMAIN tags |-> Tree(<<Leaf(<<tags[i][1]>>), Leaf(tags[i][2])>>)])
SomeTags(full) == <<TagList(IF full THEN <<<<1, <<7>>>>>> ELSE <<>>)>>

NodeFields(node) == <<Leaf(<<node.id>>), Leaf(node.host), Leaf(<<node.port>>)>>
Broker(v, node, full) ==
    Tree(NodeFields(node) \o Since(v, 1, <<NullableText(full)>>) \o Since(v, 9, SomeTags(full)))
Partition(v, full) ==
    Tree(<<number, number, number>> \o Since(v, 7, <<number>>)
      \o <<Two(full, number), Two(full, number)>> \o Since(v, 5, <<Two(full, number)>>)
      \o Since(v, 9, SomeTags(full)))
Topic(v, full) ==
    Tree(<<number, IF v >= 12 THEN NullableText(full) ELSE Text(full)>> \o Since(v, 10, <<number>>)
      \o Since(v, 1, <<number>>) \o <<Two(full, Partition(v, full))>>
      \o Since(v, 8, <<number>>) \o Since(v, 9, SomeTags(full)))
MetadataValue(v, nodes, full) ==
    Tree(Since(v, 3, <<number>>) \o <<Tree([i \in DOMAIN nodes |-> Broker(v, nodes[i], full)])>>
      \o Since(v, 2, <<NullableText(full)>>) \o Since(v, 1, <<number>>)
      \o <<Two(full, Topic(v, full))>> \o (IF v \in 8..10 THEN <<number>> ELSE <<>>)
      \o Since(v, 13, <<number>>) \o Since(v, 9, SomeTags(full)))
Group(node, full) ==
    Tree(<<Text(full), Tree(NodeFields(node)), number, NullableText(full)>> \o SomeTags(full))
FindCoordinatorValue(v, nodes, full) ==
    Tree(Since(v, 1, <<number>>)
      \o (IF v >= 4 THEN <<Tree([i \in DOMAIN nodes |-> Group(nodes[i], full)])>>
          ELSE <<number>> \o Since(v, 1, <<NullableText(full)>>) \o <<Tree(NodeFields(nodes[1]))>>)
      \o Since(v, 3, SomeTags(full)))

Tag == <<5, <<8, 8>>>>
Reply(key, version, flexible, tags, value, cells) ==
    [key |-> key, version |-> version, id |-> 40 + version, flexible |-> flexible,
     tags |-> TagList(tags), value |-> value, cells |-> cells, raw |-> FALSE]

\* Kafka: Metadata is flexible from version 9 on, FindCoordinator from 3 on.
Metadata(version, tags, nodes, full) ==
    Reply(apiKeyMetadata, version, version >= 9, IF version >= 9 THEN tags ELSE <<>>,
          MetadataValue(version, nodes, full), <<1, 2>>)
FindCoordinator(version, tags, nodes, full) ==
    Reply(apiKeyFindCoordinator, version, version >= 3, IF version >= 3 THEN tags ELSE <<>>,
          FindCoordinatorValue(version, nodes, full), <<1, 2>>)
Other(key, version, flexible, tags, cells) == Reply(key, version, flexible, tags, number, cells)

\* Replies to the proxy's re-auth, to a client's own SASL requests, and to a raw token.
ReauthHandshake(err) ==
    [Other(apiKeySaslHandshake, 1, FALSE, <<>>, <<>>) EXCEPT !.id = reauthHandshakeCorrelationID,
        !.value = Tree(<<Leaf(<<err>>), Tree(<<Text(TRUE)>>)>>)]
Reauth(err, full, lifetime) ==
    [Other(apiKeySaslAuthenticate, 1, FALSE, <<>>, <<>>) EXCEPT !.id = reauthCorrelationID,
        !.value = Tree(<<Leaf(<<err>>), Leaf(IF full THEN <<7>> ELSE Null),
                         Leaf(IF full THEN <<7, 7>> ELSE <<>>), Leaf(<<lifetime>>)>>)]
ClientAuth == Other(apiKeySaslAuthenticate, 1, FALSE, <<>>, <<0, -1, 1, 7, 9>>)
RawReply == [Other(apiKeySaslHandshake, 0, FALSE, <<>>, <<>>) EXCEPT !.raw = TRUE]

Sasl ==
    {<<ReauthHandshake(0), Reauth(0, full, l), c, ReauthHandshake(e), Reauth(f, ~full, k)>> :
        full \in BOOLEAN, l \in {0, 8}, c \in {ClientAuth, Metadata(9, <<Tag>>, <<n1>>, FALSE)},
        e \in {0, 1}, f \in {0, 1}, k \in {0, 9}}
    \cup {<<Other(17, 0, FALSE, <<>>, <<0, 0>>), RawReply, c, ReauthHandshake(0), Reauth(0, TRUE, 8)>> :
            c \in {ClientAuth, Metadata(9, <<Tag>>, <<n1>>, FALSE)}}

First ==
    {Metadata(v, tags, nodes, full) : v \in 0..14, tags \in {<<>>, <<Tag>>}, full \in BOOLEAN,
        nodes \in {<<>>, <<n1, n2>>, <<n2, NoNode>>, <<n1, Unmapped>>, <<n1, n2, n1, n2>>}}
    \cup {Metadata(8, <<>>, [i \in 1..n |-> n1], FALSE) : n \in {14, 15}}
    \cup {Metadata(v, <<>>, <<n1, n1, n1>>, TRUE) : v \in {12, 13}}
    \cup {FindCoordinator(v, tags, nodes, full) : v \in 0..7, tags \in {<<>>, <<Tag>>}, full \in BOOLEAN,
        nodes \in {<<n1>>, <<NoNode>>, <<HalfAbsent>>, <<n2, n1>>}}
    \cup {Other(1, 11, FALSE, <<>>, <<3, 0, 3>>), Other(1, 12, TRUE, <<Tag, Tag>>, <<3, 0, 3>>),
          Other(18, 3, FALSE, <<>>, <<0, 2>>), Other(17, 1, FALSE, <<>>, <<0>>),
          Other(17, 0, FALSE, <<>>, <<>>), Other(99, 0, TRUE, <<Tag>>, <<>>)}

Second == {Metadata(0, <<>>, <<n1>>, FALSE), FindCoordinator(4, <<Tag>>, <<n2>>, FALSE),
           Other(18, 3, FALSE, <<>>, <<0, 2>>)}

MCStreams == {<<a, b>> : a \in First, b \in Second} \cup Sasl
=============================================================================
