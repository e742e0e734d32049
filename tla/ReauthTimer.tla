----------------------------- MODULE ReauthTimer -----------------------------
(***************************************************************************)
(* The clock of KIP-368 re-authentication on one connection:               *)
(* ConnectionAuthState (proxy/processor.go), the way requestsLoop,         *)
(* DefaultRequestHandler and runReauth use it, and its completion by the   *)
(* response loop.  Module Processor has the same loops without a clock.    *)
(*                                                                         *)
(* Time passes in ticks.  A moment held by the code is modelled by the     *)
(* number of ticks until it: 0 is now, -1 is any moment in the past, Never *)
(* is Go's zero time.  Steps that do not wait take no time.  A wait that   *)
(* ends at a deadline ends in the tick of the deadline or in the next one. *)
(*                                                                         *)
(* The tokens come from the provider that the connections share (module    *)
(* TokenProvider); the broker (external) lets a session last as long as    *)
(* its token, or less.                                                     *)
(***************************************************************************)
EXTENDS Integers

CONSTANTS
    Never,        \* the zero time.Time: no deadline
    OneSecond,    \* ticks in a second
    Cushion,      \* reauthInflightCushion, in ticks
    WriteTimeout, \* ProcessorConfig.WriteTimeout, in ticks
    HeaderLen,    \* pieces in which a request header arrives (8 bytes)
    SessionLimits,\* environment: the broker's limits on a session; 0 = no sessions
    OneHour, TokenLives, ExpiryDelta, \* of TokenProvider
    MaxForward,   \* environment: most ticks to copy one client request
    MaxFetch,     \* environment: most ticks to fetch a token
    MaxLatency,   \* environment: most ticks from re-auth request to reply read
    BrokerSilent  \* environment: the broker may leave a re-auth unanswered

ASSUME TimerAssumption ==
    /\ Never \notin Int
    /\ OneSecond \in Nat \ {0}
    /\ Cushion \in Nat /\ WriteTimeout \in Nat
    /\ HeaderLen \in Nat \ {0}
    /\ SessionLimits \subseteq Nat
    /\ OneHour \in Nat \ {0} /\ ExpiryDelta \in Nat
    /\ TokenLives \subseteq Nat \cup {Never}
    /\ MaxForward \in Nat /\ MaxFetch \in Nat /\ MaxLatency \in Nat
    /\ BrokerSilent \in BOOLEAN

VARIABLES
    pc,               \* where the request loop is
    reauthAt,         \* ConnectionAuthState.reauthAt
    inFlight,         \* ConnectionAuthState.inFlight
    inFlightDeadline, \* ConnectionAuthState.inFlightDeadline
    readDeadline,     \* the read deadline set on the client connection
    header,           \* pieces of the current header already read
    aligned,          \* the next byte read as a header is the first of one
    elapsed,          \* ticks since runReauth took `now', or the copy began
    answer,           \* the broker's answer to the re-auth request
    lifetime,         \* the lifetime in that answer
    age,              \* ticks since the re-auth request was written
    sessionLeft,      \* external: ticks until the broker drops the session
    token,            \* ticks until the token presented to the broker expires
    cached            \* the provider's token

authVars == <<reauthAt, inFlight, inFlightDeadline>>
readVars == <<readDeadline, header, aligned>>
brokerVars == <<answer, lifetime, age, sessionLeft>>
tokenVars == <<token, cached>>
vars == <<pc, authVars, readVars, elapsed, brokerVars, tokenVars>>

Provider == INSTANCE TokenProvider

Ended == pc \in {"closed", "wedged"}

\* Mutant: the whole lifetime, without the 20% safety margin.
scaleSessionLifetimeWhole(d) == IF d < OneSecond THEN OneSecond ELSE d

\* 80% of the advertised lifetime, one second at least.
scaleSessionLifetime(d) ==
    LET scaled == (d * 4) \div 5 IN IF scaled < OneSecond THEN OneSecond ELSE scaled

Session(d) == IF d > 0 THEN d ELSE Never

\* What the broker may advertise when it accepts a token with t ticks left.
Granted(t) == {IF l < t THEN l ELSE t : l \in SessionLimits}

\* newConnectionAuthState, after a first authentication with a token the provider
\* holds valid.  The broker counts from its own reply, read up to MaxLatency later.
Init ==
    /\ pc = "top"
    /\ Provider!Init
    /\ Provider!Valid(cached)
    /\ token = 0
    /\ lifetime \in Granted(Provider!wrapForManagedKafka(cached))
    /\ reauthAt = IF lifetime > 0 THEN scaleSessionLifetime(lifetime) ELSE Never
    /\ IF lifetime > MaxLatency
       THEN \E late \in 0..MaxLatency : sessionLeft = lifetime - late
       ELSE sessionLeft = Session(lifetime)
    /\ inFlight = FALSE
    /\ inFlightDeadline = Never
    /\ readDeadline = Never
    /\ header = 0
    /\ aligned = TRUE
    /\ elapsed = 0
    /\ answer = "none"
    /\ age = 0

------------------------------------------------------------------------------
(* ConnectionAuthState.                                                     *)

NeedsReauth == reauthAt # Never /\ ~inFlight /\ reauthAt <= 0

\* Mutant: no wake-up while a re-auth is in flight.
NextReadDeadlineIdle == IF inFlight THEN Never ELSE reauthAt

\* Mutant: a deadline only while a re-auth is in flight.
NextReadDeadlineInFlight == IF inFlight THEN inFlightDeadline ELSE Never

\* Mutant: the same deadline whether or not a re-auth is in flight.
NextReadDeadlineDue == reauthAt

NextReadDeadline == IF inFlight THEN inFlightDeadline ELSE reauthAt

\* time.After is strict: the deadline has to lie in the past.
InFlightExpired == inFlight /\ inFlightDeadline # Never /\ inFlightDeadline < 0

------------------------------------------------------------------------------
(* Request loop.                                                            *)

\* Mutant: the loop does not look at the in-flight deadline.
TopUnchecked ==
    /\ pc = "top"
    /\ pc' = "setDeadline"
    /\ UNCHANGED <<authVars, readVars, elapsed, brokerVars, tokenVars>>

Top ==
    /\ pc = "top"
    /\ pc' = IF InFlightExpired THEN "wedged" ELSE "setDeadline"
    /\ UNCHANGED <<authVars, readVars, elapsed, brokerVars, tokenVars>>

\* Mutant: the deadline is set a tick early, past or not.
SetReadDeadlineEarly ==
    /\ pc = "setDeadline"
    /\ readDeadline' = IF NextReadDeadline = Never THEN Never ELSE NextReadDeadline - 1
    /\ header' = 0
    /\ pc' = "reading"
    /\ UNCHANGED <<authVars, aligned, elapsed, brokerVars, tokenVars>>

\* DefaultRequestHandler: the deadline is taken from the state once, before the
\* read blocks.
SetReadDeadline ==
    /\ pc = "setDeadline"
    /\ readDeadline' = NextReadDeadline
    /\ header' = 0
    /\ pc' = "reading"
    /\ UNCHANGED <<authVars, aligned, elapsed, brokerVars, tokenVars>>

\* A read whose deadline has passed returns no data.
Readable == readDeadline # Never => readDeadline >= 0

\* Part of a request header arrives.
ReadHeaderPiece ==
    /\ pc = "reading"
    /\ Readable
    /\ header < HeaderLen - 1
    /\ header' = header + 1
    /\ UNCHANGED <<pc, authVars, readDeadline, aligned, elapsed, brokerVars, tokenVars>>

\* The header is complete and the request is accepted: copy it to the broker.
ReadHeader ==
    /\ pc = "reading"
    /\ Readable
    /\ header = HeaderLen - 1
    /\ header' = 0
    /\ elapsed' = 0
    /\ pc' = "forwarding"
    /\ UNCHANGED <<authVars, readDeadline, aligned, brokerVars, tokenVars>>

ForwardRequest ==
    /\ pc = "forwarding"
    /\ pc' = "top"
    /\ UNCHANGED <<authVars, readVars, elapsed, brokerVars, tokenVars>>

\* The read deadline passes: re-authenticate if it is due, then come back with a
\* fresh deadline.  io.ReadFull has consumed the pieces of a header that did
\* arrive, and they are dropped with the buffer.
ReadTimeout ==
    /\ pc = "reading"
    /\ readDeadline # Never /\ readDeadline <= 0
    /\ aligned' = (aligned /\ header = 0)
    /\ header' = 0
    /\ elapsed' = 0
    /\ pc' = IF NeedsReauth THEN "fetching" ELSE "top"
    /\ UNCHANGED <<authVars, readDeadline, brokerVars, tokenVars>>

\* runReauth once the provider has answered.  `now', taken before that, is the base
\* of the write deadline and of inFlightDeadline.
WriteReauth ==
    /\ pc = "fetching"
    /\ elapsed < WriteTimeout
    /\ \E t \in Provider!Tokens :
            Provider!GetToken(t) /\ token' = Provider!wrapForManagedKafka(t)
    /\ inFlight' = TRUE
    /\ inFlightDeadline' = IF elapsed > Cushion THEN -1 ELSE Cushion - elapsed
    /\ answer' = "pending"
    /\ age' = 0
    /\ pc' = "top"
    /\ UNCHANGED <<reauthAt, readVars, elapsed, lifetime, sessionLeft>>

\* EOF, a rejected or unwritable request, a failed token fetch or write, or an
\* error of the response loop.
ConnectionFails ==
    /\ pc \in {"reading", "forwarding", "fetching"}
    /\ pc' = "closed"
    /\ UNCHANGED <<authVars, readVars, elapsed, brokerVars, tokenVars>>

------------------------------------------------------------------------------
(* The broker (external) and the response loop.                             *)

\* The broker accepts a token that has not expired and starts a new session.
BrokerAccepts(l) ==
    /\ answer = "pending"
    /\ token > 0
    /\ token' = 0
    /\ answer' = "accepted"
    /\ lifetime' = l
    /\ sessionLeft' = Session(l)
    /\ UNCHANGED <<pc, authVars, readVars, elapsed, age, cached>>

\* The response loop reads a rejection and tears the connection down.
ReauthRejected ==
    /\ ~Ended
    /\ answer = "pending"
    /\ answer' = "none"
    /\ pc' = "closed"
    /\ UNCHANGED <<authVars, readVars, elapsed, lifetime, age, sessionLeft, tokenVars>>

\* consumeReauthResponse and CompleteReauth: without a lifetime the deadline
\* stays as it is.
CompleteReauth ==
    /\ ~Ended
    /\ answer = "accepted"
    /\ answer' = "none"
    /\ inFlight' = FALSE
    /\ inFlightDeadline' = Never
    /\ reauthAt' = IF lifetime > 0 THEN scaleSessionLifetime(lifetime) ELSE reauthAt
    /\ UNCHANGED <<pc, readVars, elapsed, lifetime, age, sessionLeft, tokenVars>>

\* The token changes under the connection's feet.
RefreshElsewhere ==
    /\ ~Ended
    /\ Provider!RefreshElsewhere
    /\ UNCHANGED <<pc, authVars, readVars, elapsed, brokerVars, token>>

------------------------------------------------------------------------------
(* Time.                                                                    *)

Awaiting == answer \in {"pending", "accepted"}
Earlier(t) == IF t = Never \/ t = -1 THEN t ELSE t - 1

\* bound: age is not counted beyond what a wedged connection can reach.
MaxAge == Cushion + MaxForward + 2

Tick ==
    /\ \/ pc = "reading" /\ Readable
       \/ pc = "forwarding" /\ elapsed < MaxForward
       \/ pc = "fetching" /\ elapsed < MaxFetch
    /\ Awaiting /\ ~BrokerSilent => age < MaxLatency
    /\ reauthAt' = Earlier(reauthAt)
    /\ inFlightDeadline' = Earlier(inFlightDeadline)
    /\ readDeadline' = IF pc = "reading" THEN Earlier(readDeadline) ELSE readDeadline
    /\ elapsed' = IF pc = "reading" THEN elapsed ELSE elapsed + 1
    /\ age' = IF Awaiting /\ age < MaxAge THEN age + 1 ELSE age
    /\ sessionLeft' = IF sessionLeft = Never \/ sessionLeft = 0 THEN sessionLeft ELSE sessionLeft - 1
    /\ token' = IF token = 0 THEN 0 ELSE token - 1
    /\ cached' = Provider!Older
    /\ UNCHANGED <<pc, inFlight, header, aligned, answer, lifetime>>

Terminated == Ended /\ UNCHANGED vars

LoopStep ==
    \/ Top \/ SetReadDeadline \/ ReadTimeout \/ ForwardRequest \/ WriteReauth
    \/ pc \in {"forwarding", "fetching"} /\ ConnectionFails

Next ==
    \/ Top \/ SetReadDeadline \/ ReadHeaderPiece \/ ReadHeader \/ ForwardRequest
    \/ ReadTimeout \/ WriteReauth \/ ConnectionFails
    \/ \E l \in Granted(token) : BrokerAccepts(l)
    \/ RefreshElsewhere \/ ReauthRejected \/ CompleteReauth \/ Tick \/ Terminated

Spec == Init /\ [][Next]_vars

\* Time keeps passing, however busy the client is, and the request loop keeps
\* running: a read ends at its deadline, a copy and a token fetch end (both are
\* bounded by timeouts).
FairSpec == Spec /\ WF_vars(LoopStep) /\ SF_vars(Tick)

------------------------------------------------------------------------------
(* Properties.                                                              *)

Moments == Nat \cup {-1, Never}

\* Every variable keeps its type.
TypeOK ==
    /\ pc \in {"top", "setDeadline", "reading", "forwarding", "fetching", "closed", "wedged"}
    /\ reauthAt \in Moments /\ inFlightDeadline \in Moments /\ readDeadline \in Moments
    /\ inFlight \in BOOLEAN /\ aligned \in BOOLEAN
    /\ header \in 0..HeaderLen - 1
    /\ elapsed \in Nat /\ age \in 0..MaxAge
    /\ answer \in {"none", "pending", "accepted"}
    /\ lifetime \in Nat /\ token \in Nat
    /\ sessionLeft \in Nat \cup {Never} /\ cached \in Nat \cup {Never}

\* From the moment a re-auth is due: the deadline is noticed a tick late, a copy is under
\* way, a token is fetched, and the broker answers.
Delay == 1 + MaxForward + MaxFetch + MaxLatency

\* A lifetime of which reauthSafetyMargin leaves enough for that.  It runs from the
\* broker's answer, up to MaxLatency before the answer is read; one fifth of it is left
\* at the scaled deadline, unless that is one second.
MarginCovers(d) == d > 5 * (Delay + MaxLatency) /\ d > OneSecond + Delay + MaxLatency

\* A lifetime that also outlasts a read begun under the deadline of the re-auth before it.
OutlastsCushion(d) == d > Cushion + Delay + MaxLatency

\* A session whose lifetime covers the delays and the cushion does not lapse on a
\* connection that is up: the re-auth, late by a blocked copy, a token fetch and the
\* broker's answer, still beats the expiry.  A shorter one may (reauth_short_session).
SessionKept == ~Ended /\ MarginCovers(lifetime) /\ OutlastsCushion(lifetime) => sessionLeft # 0

\* The request loop wakes in time on an idle connection too (NextReadDeadline): a session
\* whose margin covers the delays does not lapse on a connection that is up.
WakesInTime == ~Ended /\ MarginCovers(lifetime) => sessionLeft # 0

\* A connection is declared wedged only by a re-auth that is unanswered, and one
\* that stays unanswered does not outlive the cushion by more than one copy.
WedgedInTime ==
    /\ pc = "wedged" => inFlight
    /\ ~Ended => age < MaxAge

\* A re-auth in flight ends: it is answered or the connection is torn down, even
\* if the broker never answers and the client never stops sending.
StuckReauthEnds == inFlight ~> (~inFlight \/ Ended)

\* A re-auth that is due is started, on an idle connection too.
DueReauthStarts == (NeedsReauth /\ ~Ended) ~> (inFlight \/ Ended)

\* The provider hands out a token that is still good when the broker looks at it,
\* however late the re-auth started and whoever else had the token refreshed.
TokenGood == answer = "pending" => token > 0

\* A client that keeps sending is served, even when the broker stops advertising a
\* lifetime and a re-auth is due all the time: reads succeed while one is in flight.
\* What is served may be out of step behind a header that was cut (HeaderIntact).
\* A broker's answer takes a round trip: it does not always come before the request
\* loop's next statement.
ClientSends == SF_vars(ReadHeaderPiece) /\ SF_vars(ReadHeader)
RoundTrip == SF_vars(inFlight /\ Top) /\ SF_vars(inFlight /\ SetReadDeadline)
ClientServed == ClientSends /\ RoundTrip => ([]<>Ended \/ []<>(pc = "forwarding"))

\* The cushion is granted to the broker: a connection is declared wedged only
\* after the reply has been missing for that long.
CushionGranted == pc = "wedged" => age >= Cushion

\* A read timeout loses nothing the client sent.
HeaderIntact == aligned
=============================================================================
