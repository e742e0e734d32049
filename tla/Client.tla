-------------------------------- MODULE Client --------------------------------
(***************************************************************************)
(* The life of client connections in the proxy: the accept loops of        *)
(* listenInstance (proxy/proxy.go), Client.Run and handleConn              *)
(* (proxy/client.go) with the first authentication (sasl_by_proxy.go),     *)
(* the ConnSet of live connections (proxy/common.go), and the shutdown.    *)
(*                                                                         *)
(* copyThenClose appears with the order in which its two goroutines end    *)
(* and close the sockets; module Processor has what they do before that.   *)
(***************************************************************************)
EXTENDS Naturals, Sequences

CONSTANTS
    Connections,  \* the client connections of a run
    Brokers,      \* broker addresses, one listener each
    BrokerOf      \* the broker whose listener a connection arrives on

ASSUME ClientAssumption == BrokerOf \in [Connections -> Brokers]

VARIABLES
    pc,       \* where the goroutine that has the connection is
    closer,   \* the request-loop goroutine of copyThenClose
    firstErr, \* copyThenClose's firstErr channel is full
    connSrc,  \* Listeners.connSrc, a channel of capacity 1
    run,      \* where Client.Run is
    stopRun,  \* Client.stopRun is closed
    m,        \* ConnSet.m: broker address -> live connections
    local,    \* the client's socket: "waiting" to be accepted, "open", "closed"
    remote    \* the broker's socket: "none" yet, "open", "closed"

copyVars == <<closer, firstErr>>
runVars  == <<connSrc, run, stopRun>>
vars == <<pc, copyVars, runVars, m, local, remote>>

Goto(c, s) == pc' = [pc EXCEPT ![c] = s]
CloseLocal(c) == local' = [local EXCEPT ![c] = "closed"]
CloseRemote(c) == remote' = [remote EXCEPT ![c] = "closed"]

Init ==
    /\ pc = [c \in Connections |-> "waiting"]
    /\ closer = [c \in Connections |-> "none"]
    /\ firstErr = [c \in Connections |-> FALSE]
    /\ connSrc = <<>>
    /\ run = "select"
    /\ stopRun = FALSE
    /\ m = << >>
    /\ local = [c \in Connections |-> "waiting"]
    /\ remote = [c \in Connections |-> "none"]

------------------------------------------------------------------------------
(* listenInstance: one accept loop per listener, which holds at most one     *)
(* connection while it waits for room in connSrc.                            *)

\* The accept loop of broker b holds no connection: it is in l.Accept, or has ended.
InAccept(b) == \A c \in Connections : BrokerOf[c] = b => pc[c] # "accepted"

Accept(c) ==
    /\ pc[c] = "waiting"
    /\ InAccept(BrokerOf[c])
    /\ Goto(c, "accepted")
    /\ local' = [local EXCEPT ![c] = "open"]
    /\ UNCHANGED <<copyVars, runVars, m, remote>>

\* An error of l.Accept: the listener is closed and its loop ends for good.  The clients
\* it has not accepted are reset or refused, the others go on.
AcceptFails(b) ==
    LET rest == {c \in Connections : BrokerOf[c] = b /\ pc[c] = "waiting"} IN
    /\ rest # {} /\ InAccept(b)
    /\ pc' = [c \in Connections |-> IF c \in rest THEN "done" ELSE pc[c]]
    /\ local' = [c \in Connections |-> IF c \in rest THEN "closed" ELSE local[c]]
    /\ UNCHANGED <<copyVars, runVars, m, remote>>

\* Mutant: the accept loop does not wait for room.
EnqueueUnbounded(c) ==
    /\ pc[c] = "accepted"
    /\ connSrc' = Append(connSrc, c)
    /\ Goto(c, "queued")
    /\ UNCHANGED <<copyVars, run, stopRun, m, local, remote>>

Enqueue(c) ==
    /\ pc[c] = "accepted"
    /\ Len(connSrc) < 1
    /\ connSrc' = Append(connSrc, c)
    /\ Goto(c, "queued")
    /\ UNCHANGED <<copyVars, run, stopRun, m, local, remote>>

------------------------------------------------------------------------------
(* Client.Run and Client.Close.                                              *)

\* A goroutine is started for the next connection.
RunConnection ==
    /\ run = "select"
    /\ connSrc # <<>>
    /\ Goto(Head(connSrc), "dial")
    /\ connSrc' = Tail(connSrc)
    /\ UNCHANGED <<copyVars, run, stopRun, m, local, remote>>

Close ==
    /\ ~stopRun
    /\ stopRun' = TRUE
    /\ UNCHANGED <<pc, copyVars, connSrc, run, m, local, remote>>

RunStops ==
    /\ run = "select"
    /\ stopRun
    /\ run' = "closing"
    /\ UNCHANGED <<pc, copyVars, connSrc, stopRun, m, local, remote>>

Registered == UNION {{m[b][i] : i \in 1..Len(m[b])} : b \in DOMAIN m}

\* Mutant: the shutdown closes nothing.
ConnSetCloseNothing ==
    /\ run = "closing"
    /\ run' = "stopped"
    /\ UNCHANGED <<pc, copyVars, connSrc, stopRun, m, local, remote>>

\* ConnSet.Close, under the set's lock: the set itself stays as it is.
ConnSetClose ==
    /\ run = "closing"
    /\ run' = "stopped"
    /\ local' = [c \in Connections |-> IF c \in Registered THEN "closed" ELSE local[c]]
    /\ UNCHANGED <<pc, copyVars, connSrc, stopRun, m, remote>>

------------------------------------------------------------------------------
(* handleConn.                                                               *)

\* DialAndAuth: the broker's socket is open.
Dial(c) ==
    /\ pc[c] = "dial"
    /\ remote' = [remote EXCEPT ![c] = "open"]
    /\ Goto(c, "token")
    /\ UNCHANGED <<copyVars, runVars, m, local>>

DialFails(c) ==
    /\ pc[c] = "dial"
    /\ Goto(c, "giveUp")
    /\ UNCHANGED <<copyVars, runVars, m, local, remote>>

\* sendAndReceiveSASLAuth: the token, the handshake, the authentication.
AuthStep(c) ==
    /\ \/ pc[c] = "token" /\ Goto(c, "handshake")
       \/ pc[c] = "handshake" /\ Goto(c, "authenticate")
       \/ pc[c] = "authenticate" /\ Goto(c, "add")
    /\ UNCHANGED <<copyVars, runVars, m, local, remote>>

\* Mutant: a failed authentication leaves the broker's socket open.
AuthFailsOpen(c) ==
    /\ pc[c] \in {"token", "handshake", "authenticate"}
    /\ Goto(c, "giveUp")
    /\ UNCHANGED <<copyVars, runVars, m, local, remote>>

\* Any of them fails, or a deadline cannot be set: auth closes the broker's socket.
AuthFails(c) ==
    /\ pc[c] \in {"token", "handshake", "authenticate"}
    /\ CloseRemote(c)
    /\ Goto(c, "giveUp")
    /\ UNCHANGED <<copyVars, runVars, m, local>>

\* handleConn, when DialAndAuth returned an error.
GiveUp(c) ==
    /\ pc[c] = "giveUp"
    /\ CloseLocal(c)
    /\ Goto(c, "done")
    /\ UNCHANGED <<copyVars, runVars, m, remote>>

Live(b) == IF b \in DOMAIN m THEN m[b] ELSE <<>>

\* ConnSet.Add, and the start of the request loop's goroutine.
Add(c) ==
    LET b == BrokerOf[c] IN
    /\ pc[c] = "add"
    /\ m' = [x \in DOMAIN m \cup {b} |-> IF x = b THEN Append(Live(b), c) ELSE m[x]]
    /\ closer' = [closer EXCEPT ![c] = "loop"]
    /\ Goto(c, "loop")
    /\ UNCHANGED <<firstErr, runVars, local, remote>>

------------------------------------------------------------------------------
(* copyThenClose: the response loop runs in handleConn's goroutine, the      *)
(* request loop in one of its own.                                           *)

\* The loop returns; the first to do so publishes its error.
EndRequests(c) ==
    /\ closer[c] = "loop"
    /\ firstErr' = [firstErr EXCEPT ![c] = TRUE]
    /\ closer' = [closer EXCEPT ![c] = IF firstErr[c] THEN "done" ELSE "closeRemote"]
    /\ UNCHANGED <<pc, runVars, m, local, remote>>

EndResponses(c) ==
    /\ pc[c] = "loop"
    /\ firstErr' = [firstErr EXCEPT ![c] = TRUE]
    /\ Goto(c, IF firstErr[c] THEN "remove" ELSE "closeRemote")
    /\ UNCHANGED <<closer, runVars, m, local, remote>>

RequestsClose(c) ==
    /\ \/ /\ closer[c] = "closeRemote"
          /\ CloseRemote(c)
          /\ closer' = [closer EXCEPT ![c] = "closeLocal"]
          /\ UNCHANGED local
       \/ /\ closer[c] = "closeLocal"
          /\ CloseLocal(c)
          /\ closer' = [closer EXCEPT ![c] = "done"]
          /\ UNCHANGED remote
    /\ UNCHANGED <<pc, firstErr, runVars, m>>

ResponsesClose(c) ==
    /\ \/ /\ pc[c] = "closeRemote"
          /\ CloseRemote(c)
          /\ Goto(c, "closeLocal")
          /\ UNCHANGED local
       \/ /\ pc[c] = "closeLocal"
          /\ CloseLocal(c)
          /\ Goto(c, "remove")
          /\ UNCHANGED remote
    /\ UNCHANGED <<copyVars, runVars, m>>

Without(s, pos) == SubSeq(s, 1, pos - 1) \o SubSeq(s, pos + 1, Len(s))

\* Mutant: always the oldest connection of the broker is dropped.
RemoveOldest(c) ==
    LET b == BrokerOf[c] IN
    /\ pc[c] = "remove"
    /\ m' = IF Len(Live(b)) = 1
            THEN [x \in DOMAIN m \ {b} |-> m[x]]
            ELSE [m EXCEPT ![b] = Tail(m[b])]
    /\ Goto(c, "done")
    /\ UNCHANGED <<copyVars, runVars, local, remote>>

\* ConnSet.Remove: the first occurrence; a missing one is only logged.
Remove(c) ==
    LET b    == BrokerOf[c]
        here == {i \in 1..Len(Live(b)) : Live(b)[i] = c}
    IN  /\ pc[c] = "remove"
        /\ m' = IF here = {} THEN m
                ELSE IF Len(m[b]) = 1 THEN [x \in DOMAIN m \ {b} |-> m[x]]
                ELSE [m EXCEPT ![b] = Without(m[b], CHOOSE i \in here : \A j \in here : i <= j)]
        /\ Goto(c, "done")
        /\ UNCHANGED <<copyVars, runVars, local, remote>>

------------------------------------------------------------------------------
\* The process exits when Run has returned, whatever is left.
Finished ==
    /\ run = "stopped"
    /\ UNCHANGED vars

\* Steps the code takes by itself.
Handle(c) ==
    \/ AuthStep(c) \/ AuthFails(c) \/ GiveUp(c) \/ Add(c)
    \/ ResponsesClose(c) \/ Remove(c)

\* A loop ends at any time, for reasons of its own.
Next ==
    \/ \E c \in Connections :
        \/ Accept(c) \/ Enqueue(c) \/ Dial(c) \/ DialFails(c) \/ Handle(c)
        \/ EndRequests(c) \/ EndResponses(c) \/ RequestsClose(c)
    \/ \E b \in Brokers : AcceptFails(b)
    \/ RunConnection \/ Close \/ RunStops \/ ConnSetClose
    \/ Finished

Spec == Init /\ [][Next]_vars

\* Goroutines keep running.  A dial and every read of the first authentication have
\* a timeout.  A loop has to end only when the socket it reads is closed: nothing
\* makes a client or a broker hang up.  After Run has returned this holds while the
\* process lives; when it exits, the operating system closes what is left.
FairSpec ==
    /\ Spec
    /\ WF_vars(RunConnection) /\ WF_vars(RunStops) /\ WF_vars(ConnSetClose)
    /\ \A c \in Connections :
        /\ WF_vars(Handle(c)) /\ WF_vars(RequestsClose(c))
        /\ WF_vars(Dial(c) \/ DialFails(c))
        /\ WF_vars(local[c] = "closed" /\ EndRequests(c))
        /\ WF_vars(remote[c] = "closed" /\ EndResponses(c))
------------------------------------------------------------------------------
(* Properties.                                                               *)

\* Every variable keeps its type, and connSrc its capacity.
TypeOK ==
    /\ pc \in [Connections -> {"waiting", "accepted", "queued", "dial", "token", "handshake",
                               "authenticate", "giveUp", "add", "loop", "closeRemote",
                               "closeLocal", "remove", "done"}]
    /\ closer \in [Connections -> {"none", "loop", "closeRemote", "closeLocal", "done"}]
    /\ firstErr \in [Connections -> BOOLEAN]
    /\ connSrc \in Seq(Connections) /\ Len(connSrc) <= 1
    /\ run \in {"select", "closing", "stopped"}
    /\ stopRun \in BOOLEAN
    /\ DOMAIN m \subseteq Brokers /\ \A b \in DOMAIN m : m[b] \in Seq(Connections)
    /\ local \in [Connections -> {"waiting", "open", "closed"}]
    /\ remote \in [Connections -> {"none", "open", "closed"}]

\* However Add and Remove of several connections interleave, the set holds exactly
\* the connections between their Add and their Remove, each once and under its own
\* broker, so Remove always finds its connection and Close misses none; a broker
\* without connections has no entry (the connection gauge would keep reporting it).
ConnSetExact ==
    /\ \A b \in DOMAIN m :
        /\ m[b] # <<>>
        /\ \A i, j \in 1..Len(m[b]) : BrokerOf[m[b][i]] = b /\ (m[b][i] = m[b][j] => i = j)
    /\ Registered = {c \in Connections : pc[c] \in {"loop", "closeRemote", "closeLocal", "remove"}}

\* Once both goroutines of a connection are done, both sockets are closed, whatever
\* step failed and whichever loop ended first.
NothingLeaked ==
    \A c \in Connections :
        pc[c] = "done" /\ closer[c] \in {"none", "done"} =>
            local[c] = "closed" /\ remote[c] # "open"

\* A shutdown closes the connections that are registered when it begins, both
\* sockets and although it only closes the client's, and they leave the set.
ShutdownCloses ==
    \A c \in Connections :
        run = "closing" /\ c \in Registered
            ~> pc[c] = "done" /\ local[c] = "closed" /\ remote[c] = "closed"
=============================================================================
