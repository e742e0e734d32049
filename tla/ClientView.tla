----------------------------- MODULE ClientView -----------------------------
(***************************************************************************)
(* What a Kafka client may see of one proxied connection: a pipe that      *)
(* answers its requests exactly once each, in the order it sent them, and  *)
(* carries nothing else until it is closed.  Kafka clients match replies   *)
(* to a FIFO of in-flight requests, so one reply too many, or one out of   *)
(* order, breaks the client (comment above consumeReauthResponse,          *)
(* proxy/processor.go).  Requests are numbered 1, 2, ... by the client;    *)
(* produce requests with acks=0, which are never answered, are not counted.*)
(***************************************************************************)
EXTENDS Naturals, Sequences

VARIABLES
    sent,       \* how many requests that want a reply the client has sent
    delivered,  \* the correlation ids of the replies the client has read
    localOpen   \* the client's connection to the proxy is open

clientVars == <<sent, delivered, localOpen>>

Init ==
    /\ sent = 0
    /\ delivered = <<>>
    /\ localOpen = TRUE

Request ==
    /\ localOpen
    /\ sent' = sent + 1
    /\ UNCHANGED <<delivered, localOpen>>

\* The reply to the oldest unanswered request.
Reply ==
    /\ localOpen
    /\ Len(delivered) < sent
    /\ delivered' = Append(delivered, Len(delivered) + 1)
    /\ UNCHANGED <<sent, localOpen>>

Close ==
    /\ localOpen
    /\ localOpen' = FALSE
    /\ UNCHANGED <<sent, delivered>>

Next == Request \/ Reply \/ Close

Spec == Init /\ [][Next]_clientVars
=============================================================================
