----------------------------- MODULE MCRequests -----------------------------
(* Requests for TLC: every layout of Produce, with client and transactional ids *)
(* on both sides of the points where their lengths change form.                 *)
EXTENDS Requests

Request(cells, answered, raw) ==
    [cells |-> cells, answered |-> answered, raw |-> raw,
     handshakeV0 |-> ~raw /\ cells[2] = apiKeySaslHandshake /\ cells[3] = 0]

Plain(key, version) == Request(Framed(<<key, version, 1>> \o NullableString(Null)), TRUE, FALSE)

\* A transactional producer asks for acks from all replicas.
Produces ==
    {Request(ProduceCells(v, c, Null, a), a # 0, FALSE) : v \in {0, 3, 9}, c \in {Null, 2}, a \in {0, 1}}
    \cup {Request(ProduceCells(v, Null, t, -1), TRUE, FALSE) : v \in {3, 9}, t \in {2, 3, 7, 11}}

RawTokens == {Request(Framed(Chars(n)), FALSE, TRUE) : n \in {0, 2, 6}}

MCSends ==
    Produces \cup RawTokens \cup
    {Plain(apiKeyMetadata, 9), Plain(apiKeySaslHandshake, 0), Plain(apiKeySaslHandshake, 1),
     Plain(20001, 0), Plain(20, 1), Request(<<KeyVersionLen, apiKeyMetadata, 0>>, TRUE, FALSE)}
=============================================================================
