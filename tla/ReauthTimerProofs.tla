-------------------------- MODULE ReauthTimerProofs --------------------------
(***************************************************************************)
(* Proofs about module ReauthTimer, for every value of the constants: the  *)
(* types, how long a re-auth can stay unanswered (WedgedInTime), that the  *)
(* token is good when the broker looks at it (TokenGood), and that the     *)
(* session outlives the next re-auth (SessionKept).                        *)
(*                                                                         *)
(* The last two hold only if the environment is fast enough compared with  *)
(* what the code is given; each theorem states how fast.                   *)
(***************************************************************************)
EXTENDS ReauthTimer, TLAPS

\* A re-auth is in flight as long as its answer is, and it has a deadline.
InFlightRight ==
    /\ ~Ended => (inFlight <=> Awaiting)
    /\ inFlight => inFlightDeadline # Never
    /\ inFlight => pc # "fetching"
    /\ pc = "wedged" => inFlight

\* The wait of the request loop ends in time: the read deadline is the in-flight
\* one, and the age of a re-auth past its deadline is what the copy took.
Aged ==
    ~Ended =>
        /\ age <= Cushion + MaxForward + 1
        /\ inFlight =>
            /\ inFlightDeadline >= 0 => age + inFlightDeadline <= Cushion
            /\ pc = "setDeadline" => inFlightDeadline >= 0
            /\ pc = "reading" => readDeadline = inFlightDeadline /\ age <= Cushion + 1
            /\ pc = "forwarding" => age <= Cushion + elapsed /\ elapsed <= MaxForward

Inv == TypeOK /\ InFlightRight /\ Aged

\* A broker that answers does so within the latency.
Prompt == Awaiting => age <= MaxLatency

\* Every token the provider hands out has more than n ticks left,
TokensAbove(n) ==
    /\ n < ExpiryDelta /\ n < OneHour
    /\ \A t \in TokenLives \ {Never} : n < t

\* so that the age of the re-auth and what is left of its token exceed n together.
TokenLasts(n) == answer = "pending" => token + age > n

\* A lifetime whose re-auth is scheduled early enough, even if the loop is still reading
\* under the deadline of the re-auth before it.
Enough(d) == MarginCovers(d) /\ OutlastsCushion(d)

\* A connection that has a session has a re-auth scheduled and wakes up for it.
Scheduled ==
    /\ sessionLeft # Never => reauthAt # Never
    /\ inFlight \/ pc = "fetching" \/ Awaiting => reauthAt # Never
    /\ reauthAt # Never /\ pc = "reading" => readDeadline # Never

\* What is left of a session before its re-auth is written,
Before ==
    /\ reauthAt >= 0 => sessionLeft > reauthAt + Delay
    /\ pc = "reading" /\ readDeadline >= 0 => sessionLeft > readDeadline + Delay
    /\ pc \in {"top", "setDeadline", "reading"} => sessionLeft > MaxFetch + MaxLatency
    /\ pc = "forwarding" => sessionLeft + elapsed > Delay /\ elapsed <= MaxForward
    /\ pc = "fetching" => sessionLeft + elapsed > MaxFetch + MaxLatency /\ elapsed <= MaxFetch

\* and at every moment of a session that is long enough.
Lasting ==
    ~Ended /\ sessionLeft # Never /\ Enough(lifetime) =>
        /\ answer = "none" => Before
        /\ answer = "pending" => sessionLeft + age > MaxLatency
        /\ answer = "accepted" => lifetime > 0 /\ sessionLeft + age >= lifetime

------------------------------------------------------------------------------
(* The operators.                                                           *)

\* A moment stays one when time passes, and comes a tick closer until it is past.
LEMMA EarlierMoment ==
    ASSUME NEW t \in Moments
    PROVE  /\ Earlier(t) \in Moments
           /\ Earlier(t) = Never <=> t = Never
           /\ t \in Nat => Earlier(t) = t - 1
           /\ t = -1 => Earlier(t) = -1
BY TimerAssumption DEF Moments, Earlier

\* scaleSessionLifetime takes a lifetime to a moment in the future.
LEMMA ScaleType ==
    ASSUME NEW d \in Nat
    PROVE  scaleSessionLifetime(d) \in Nat
<1>1. (d * 4) \div 5 \in Nat
  OBVIOUS
<1>2. QED
  BY <1>1, TimerAssumption DEF scaleSessionLifetime

\* What the provider keeps and hands out is a token.
LEMMA TokenTypes ==
    ASSUME cached \in Nat \cup {Never}
    PROVE  /\ Provider!Older \in Nat \cup {Never}
           /\ \A t \in Provider!Tokens :
                t \in Nat \cup {Never} /\ Provider!wrapForManagedKafka(t) \in Nat
BY TimerAssumption DEF Provider!Older, Provider!Tokens, Provider!wrapForManagedKafka

\* What the broker grants is a lifetime.
LEMMA GrantedTypes ==
    ASSUME NEW t \in Nat, NEW l \in Granted(t)
    PROVE  l \in Nat /\ Session(l) \in Nat \cup {Never} /\ l <= t
BY TimerAssumption DEF Granted, Session

------------------------------------------------------------------------------
(* Types.                                                                   *)

\* The first authentication leaves everything well typed.
LEMMA InitTypeOK == Init => TypeOK
<1> SUFFICES ASSUME Init PROVE TypeOK
  OBVIOUS
<1> USE TimerAssumption
<1>1. cached \in Nat \cup {Never}
  BY DEF Init, Provider!Init
<1>2. Provider!wrapForManagedKafka(cached) \in Nat
  BY <1>1 DEF Provider!wrapForManagedKafka
<1>3. lifetime \in Nat /\ Session(lifetime) \in Nat \cup {Never}
  BY <1>2, GrantedTypes DEF Init
<1>4. reauthAt \in Moments
  BY <1>3, ScaleType DEF Init, Moments
<1>5. sessionLeft \in Nat \cup {Never}
  <2>1. CASE lifetime > MaxLatency
    <3>1. PICK late \in 0..MaxLatency : sessionLeft = lifetime - late
      BY <2>1 DEF Init
    <3>2. QED
      BY <1>3, <2>1, <3>1
  <2>2. CASE ~(lifetime > MaxLatency)
    BY <1>3, <2>2 DEF Init
  <2>3. QED
    BY <2>1, <2>2
<1>6. header \in 0..HeaderLen - 1 /\ age \in 0..MaxAge
  BY DEF Init, MaxAge
<1>7. QED
  BY <1>1, <1>3, <1>4, <1>5, <1>6 DEF Init, TypeOK, Moments

\* Every step keeps the types.
LEMMA NextTypeOK == TypeOK /\ [Next]_vars => TypeOK'
<1> SUFFICES ASSUME TypeOK, [Next]_vars PROVE TypeOK'
  OBVIOUS
<1> USE TimerAssumption DEF TypeOK, authVars, readVars, brokerVars, tokenVars
<1>1. CASE Top
  BY <1>1 DEF Top
<1>2. CASE SetReadDeadline
  BY <1>2 DEF SetReadDeadline, NextReadDeadline
<1>3. CASE ReadHeaderPiece
  BY <1>3 DEF ReadHeaderPiece
<1>4. CASE ReadHeader
  BY <1>4 DEF ReadHeader
<1>5. CASE ForwardRequest
  BY <1>5 DEF ForwardRequest
<1>6. CASE ReadTimeout
  BY <1>6 DEF ReadTimeout
<1>7. CASE WriteReauth
  <2>1. PICK t \in Provider!Tokens : Provider!GetToken(t) /\ token' = Provider!wrapForManagedKafka(t)
    BY <1>7 DEF WriteReauth
  <2>2. token' \in Nat /\ cached' \in Nat \cup {Never}
    BY <2>1, TokenTypes DEF Provider!GetToken
  <2>3. inFlightDeadline' \in Moments
    BY <1>7 DEF WriteReauth, Moments
  <2>4. age' \in 0..MaxAge
    BY <1>7 DEF WriteReauth, MaxAge
  <2>5. QED
    BY <1>7, <2>2, <2>3, <2>4 DEF WriteReauth
<1>8. CASE ConnectionFails
  BY <1>8 DEF ConnectionFails
<1>9. ASSUME NEW l \in Granted(token), BrokerAccepts(l)
      PROVE  TypeOK'
  BY <1>9, GrantedTypes DEF BrokerAccepts
<1>10. CASE RefreshElsewhere
  <2>1. cached' \in Nat \cup {Never}
    BY <1>10, TokenTypes DEF RefreshElsewhere, Provider!RefreshElsewhere, Provider!GetToken
  <2>2. QED
    BY <1>10, <2>1 DEF RefreshElsewhere
<1>11. CASE ReauthRejected
  BY <1>11 DEF ReauthRejected
<1>12. CASE CompleteReauth
  <2>1. reauthAt' \in Moments /\ inFlightDeadline' \in Moments
    BY <1>12, ScaleType DEF CompleteReauth, Moments
  <2>2. QED
    BY <1>12, <2>1 DEF CompleteReauth
<1>13. CASE Tick
  <2>1. reauthAt' \in Moments /\ inFlightDeadline' \in Moments /\ readDeadline' \in Moments
    BY <1>13, EarlierMoment DEF Tick
  <2>2. cached' \in Nat \cup {Never}
    BY <1>13, TokenTypes DEF Tick
  <2>3. age' \in 0..MaxAge
    BY <1>13 DEF Tick, MaxAge
  <2>4. sessionLeft' \in Nat \cup {Never} /\ token' \in Nat /\ elapsed' \in Nat
    BY <1>13 DEF Tick
  <2>5. QED
    BY <1>13, <2>1, <2>2, <2>3, <2>4 DEF Tick
<1>14. CASE Terminated \/ UNCHANGED vars
  BY <1>14 DEF Terminated, vars
<1>15. QED
  BY <1>1, <1>2, <1>3, <1>4, <1>5, <1>6, <1>7, <1>8, <1>9, <1>10, <1>11, <1>12, <1>13, <1>14 DEF Next

\* Every variable keeps its type.
THEOREM TypeCorrect == Spec => []TypeOK
BY InitTypeOK, NextTypeOK, PTL DEF Spec

------------------------------------------------------------------------------
(* How old an unanswered re-auth can get.                                   *)

\* No re-auth is in flight at the start.
LEMMA InitInv == Init => Inv
<1> SUFFICES ASSUME Init PROVE Inv
  OBVIOUS
<1>1. InFlightRight /\ Aged
  BY TimerAssumption DEF Init, InFlightRight, Aged, Ended, Awaiting
<1>2. QED
  BY <1>1, InitTypeOK DEF Inv

\* Every step keeps the flag, the answer and the place of the loop together.
LEMMA NextInFlightRight == Inv /\ [Next]_vars => InFlightRight'
<1> SUFFICES ASSUME TypeOK, InFlightRight, [Next]_vars PROVE InFlightRight'
  BY DEF Inv
<1> USE DEF InFlightRight, Ended, Awaiting, authVars, readVars, brokerVars, tokenVars
<1>1. CASE Top
  BY <1>1 DEF Top, InFlightExpired
<1>2. CASE SetReadDeadline \/ ReadHeaderPiece \/ ReadHeader \/ ForwardRequest \/ ConnectionFails
  BY <1>2 DEF SetReadDeadline, ReadHeaderPiece, ReadHeader, ForwardRequest, ConnectionFails
<1>3. CASE ReadTimeout
  BY <1>3 DEF ReadTimeout, NeedsReauth
<1>4. CASE WriteReauth
  <2>1. inFlightDeadline' # Never
    BY <1>4, TimerAssumption DEF WriteReauth, TypeOK
  <2>2. QED
    BY <1>4, <2>1 DEF WriteReauth
<1>5. ASSUME NEW l \in Granted(token), BrokerAccepts(l)
      PROVE  InFlightRight'
  BY <1>5 DEF BrokerAccepts
<1>6. CASE RefreshElsewhere \/ ReauthRejected \/ CompleteReauth
  BY <1>6 DEF RefreshElsewhere, ReauthRejected, CompleteReauth
<1>7. CASE Tick
  BY <1>7, EarlierMoment DEF Tick, TypeOK
<1>8. CASE Terminated \/ UNCHANGED vars
  BY <1>8 DEF Terminated, vars
<1>9. QED
  BY <1>1, <1>2, <1>3, <1>4, <1>5, <1>6, <1>7, <1>8 DEF Next

\* Every step keeps the age of a re-auth within the cushion and one copy.
LEMMA NextAged == Inv /\ [Next]_vars => Aged'
<1> SUFFICES ASSUME TypeOK, InFlightRight, Aged, [Next]_vars, ~Ended' PROVE Aged'
  BY DEF Inv, Aged
<1>0. /\ age \in Nat /\ elapsed \in Nat
      /\ inFlight => inFlightDeadline \in Nat \cup {-1}
  BY DEF TypeOK, InFlightRight, Moments
<1> USE <1>0, TimerAssumption DEF Aged, Ended, authVars, readVars, brokerVars, tokenVars
<1>1. CASE Top
  BY <1>1 DEF Top, InFlightExpired, InFlightRight
<1>2. CASE SetReadDeadline
  BY <1>2 DEF SetReadDeadline, NextReadDeadline
<1>3. CASE ReadHeaderPiece
  BY <1>3 DEF ReadHeaderPiece
<1>4. CASE ReadHeader
  <2>1. inFlight => age <= Cushion
    <3>1. inFlight => inFlightDeadline >= 0
      BY <1>4 DEF ReadHeader, Readable, InFlightRight
    <3>2. QED
      BY <1>4, <3>1 DEF ReadHeader
  <2>2. QED
    BY <1>4, <2>1 DEF ReadHeader
<1>5. CASE ForwardRequest
  BY <1>5 DEF ForwardRequest
<1>6. CASE ReadTimeout
  BY <1>6 DEF ReadTimeout, NeedsReauth
<1>7. CASE WriteReauth
  BY <1>7 DEF WriteReauth
<1>8. CASE ConnectionFails \/ ReauthRejected
  BY <1>8 DEF ConnectionFails, ReauthRejected
<1>9. ASSUME NEW l \in Granted(token), BrokerAccepts(l)
      PROVE  Aged'
  BY <1>9 DEF BrokerAccepts
<1>10. CASE RefreshElsewhere \/ CompleteReauth
  BY <1>10 DEF RefreshElsewhere, CompleteReauth
<1>11. CASE Tick
  <2>1. /\ pc \in {"reading", "forwarding", "fetching"} /\ pc' = pc /\ inFlight' = inFlight
        /\ pc = "reading" => Readable
        /\ pc = "forwarding" => elapsed < MaxForward /\ elapsed' = elapsed + 1
        /\ age' \in {age, age + 1}
    BY <1>11 DEF Tick
  <2>2. ~inFlight => age' = age
    BY <1>11 DEF Tick, InFlightRight
  <2>3. CASE ~inFlight
    BY <2>1, <2>2, <2>3
  <2>4. CASE inFlight
    <3>1. /\ inFlightDeadline' \in Nat \cup {-1}
          /\ inFlightDeadline = 0 => inFlightDeadline' = -1
          /\ inFlightDeadline >= 0 => inFlightDeadline' = inFlightDeadline - 1
          /\ inFlightDeadline = -1 => inFlightDeadline' = -1
      BY <1>11, <2>4, EarlierMoment DEF Tick, Earlier, TypeOK
    <3>2. CASE pc = "reading"
      <4>1. inFlightDeadline >= 0 /\ age <= Cushion
        BY <2>1, <2>4, <3>2 DEF Readable, InFlightRight
      <4>2. readDeadline' = inFlightDeadline'
        BY <1>11, <2>4, <3>2 DEF Tick
      <4>3. inFlightDeadline' >= 0 => age' + inFlightDeadline' <= Cushion
        BY <2>1, <2>4, <3>1, <4>1
      <4>4. age' <= Cushion + 1
        BY <2>1, <4>1
      <4>5. QED
        BY <2>1, <3>2, <4>2, <4>3, <4>4
    <3>3. CASE pc = "forwarding"
      <4>1. inFlightDeadline' >= 0 => age' + inFlightDeadline' <= Cushion
        <5>1. inFlightDeadline >= 0 => age + inFlightDeadline <= Cushion
          BY <2>4, <3>3
        <5>2. CASE inFlightDeadline >= 0
          BY <2>1, <2>4, <3>1, <5>1, <5>2
        <5>3. CASE inFlightDeadline = -1
          BY <3>1, <5>3
        <5>4. QED
          BY <2>4, <5>2, <5>3
      <4>2. age' <= Cushion + elapsed' /\ elapsed' <= MaxForward
        BY <2>1, <2>4, <3>3
      <4>3. QED
        BY <2>1, <3>3, <4>1, <4>2
    <3>4. pc # "fetching"
      BY <2>4 DEF InFlightRight
    <3>5. QED
      BY <2>1, <3>2, <3>3, <3>4
  <2>5. QED
    BY <2>3, <2>4 DEF TypeOK
<1>12. CASE Terminated \/ UNCHANGED vars
  BY <1>12 DEF Terminated, vars
<1>13. QED
  BY <1>1, <1>2, <1>3, <1>4, <1>5, <1>6, <1>7, <1>8, <1>9, <1>10, <1>11, <1>12 DEF Next

\* The inductive invariant: types, flag and answer in step, and the age bounded.
THEOREM Invariance == Spec => []Inv
<1>1. Inv /\ [Next]_vars => Inv'
  BY NextTypeOK, NextInFlightRight, NextAged DEF Inv
<1>2. QED
  BY <1>1, InitInv, PTL DEF Spec

\* requestsLoop gives up on a re-auth only if it is unanswered, and does so at most
\* one copy after the cushion, whatever the client and the broker do.
THEOREM WedgedIsInTime == Spec => []WedgedInTime
<1>1. Inv => WedgedInTime
  BY TimerAssumption DEF Inv, TypeOK, InFlightRight, Aged, WedgedInTime, MaxAge
<1>2. QED
  BY <1>1, Invariance, PTL

------------------------------------------------------------------------------
(* The token.                                                               *)

\* The provider hands out its cached token only before the expiry delta.
LEMMA TokenAbove ==
    ASSUME NEW n \in Nat, TokensAbove(n), cached \in Nat \cup {Never},
           NEW t \in Provider!Tokens
    PROVE  Provider!wrapForManagedKafka(t) > n
<1> USE TimerAssumption
<1>1. CASE t = Never
  BY <1>1 DEF TokensAbove, Provider!wrapForManagedKafka
<1>2. CASE t # Never
  <2>1. t > n
    BY <1>2 DEF TokensAbove, Provider!Tokens, Provider!Valid
  <2>2. QED
    BY <1>2, <2>1 DEF Provider!wrapForManagedKafka
<1>3. QED
  BY <1>1, <1>2

\* Time passes for a re-auth only while it is answered in time, and then its age
\* is counted.
LEMMA TickAge ==
    ASSUME Inv, Tick, ~BrokerSilent, Awaiting
    PROVE  age' = age + 1 /\ age' <= MaxLatency
<1>1. ~Ended
  BY DEF Tick, Ended
<1>2. age < MaxAge /\ age \in Nat
  BY <1>1, TimerAssumption DEF Inv, TypeOK, Aged, MaxAge
<1>3. age < MaxLatency
  BY DEF Tick
<1>4. QED
  BY <1>2, <1>3, TimerAssumption DEF Tick

\* Every step keeps the answer prompt, if the broker answers at all.
LEMMA NextPrompt == ~BrokerSilent /\ Inv /\ Prompt /\ [Next]_vars => Prompt'
<1> SUFFICES ASSUME ~BrokerSilent, Inv, Prompt, [Next]_vars PROVE Prompt'
  OBVIOUS
<1> USE DEF Prompt, Awaiting, authVars, readVars, brokerVars, tokenVars
<1>1. CASE Tick
  <2>1. answer' = answer
    BY <1>1 DEF Tick
  <2>2. QED
    BY <1>1, <2>1, TickAge
<1>2. CASE WriteReauth
  BY <1>2, TimerAssumption DEF WriteReauth
<1>3. CASE Next /\ ~Tick /\ ~WriteReauth
  <2>1. age' = age /\ (Awaiting' => Awaiting)
    BY <1>3 DEF Next, Top, SetReadDeadline, ReadHeaderPiece, ReadHeader, ForwardRequest, ReadTimeout,
         ConnectionFails, BrokerAccepts, RefreshElsewhere, ReauthRejected, CompleteReauth, Terminated, vars
  <2>2. QED
    BY <2>1
<1>4. CASE UNCHANGED vars
  BY <1>4 DEF vars
<1>5. QED
  BY <1>1, <1>2, <1>3, <1>4

\* A broker that answers at all does so within the latency.
LEMMA Promptness == ASSUME ~BrokerSilent PROVE Spec => []Prompt
<1>1. Init => Prompt
  BY DEF Init, Prompt, Awaiting
<1>2. Inv /\ Prompt /\ [Next]_vars => Prompt'
  BY NextPrompt
<1>3. QED
  BY <1>1, <1>2, Invariance, PTL DEF Spec

\* What one tick takes from the rest it adds to the age.
LEMMA TickKeepsSum ==
    ASSUME NEW a \in Nat, NEW left \in Nat, NEW after \in Nat, after >= left - 1,
           NEW n \in Nat
    PROVE  /\ left + a > n => after + (a + 1) > n
           /\ left + a >= n => after + (a + 1) >= n
OBVIOUS

\* Every step keeps what is left of the token.
LEMMA NextTokenLasts ==
    ASSUME NEW n \in Nat, ~BrokerSilent, TokensAbove(n), Inv, TokenLasts(n), [Next]_vars
    PROVE  TokenLasts(n)'
<1> USE DEF TokenLasts, authVars, readVars, brokerVars, tokenVars
<1>1. CASE Tick
  <2>1. SUFFICES ASSUME answer = "pending" PROVE token' + age' > n
    BY <1>1 DEF Tick
  <2>2. age' = age + 1
    BY <1>1, <2>1, TickAge DEF Awaiting
  <2>3. token' >= token - 1 /\ token \in Nat /\ token' \in Nat /\ age \in Nat
    BY <1>1 DEF Tick, Inv, TypeOK
  <2>4. token + age > n
    BY <2>1
  <2>5. QED
    BY <2>2, <2>3, <2>4, TickKeepsSum
<1>2. CASE WriteReauth
  <2>1. PICK t \in Provider!Tokens : token' = Provider!wrapForManagedKafka(t)
    BY <1>2 DEF WriteReauth
  <2>2. token' > n /\ token' \in Nat
    BY <2>1, TokenAbove, TokenTypes DEF Inv, TypeOK
  <2>3. QED
    BY <1>2, <2>2 DEF WriteReauth
<1>3. CASE Next /\ ~Tick /\ ~WriteReauth
  <2>1. age' = age /\ (answer' = "pending" => answer = "pending" /\ token' = token)
    BY <1>3 DEF Next, Top, SetReadDeadline, ReadHeaderPiece, ReadHeader, ForwardRequest, ReadTimeout,
         ConnectionFails, BrokerAccepts, RefreshElsewhere, ReauthRejected, CompleteReauth, Terminated, vars
  <2>2. QED
    BY <2>1
<1>4. CASE UNCHANGED vars
  BY <1>4 DEF vars
<1>5. QED
  BY <1>1, <1>2, <1>3, <1>4

\* The token GetToken returns is still good when the broker looks at it, if the
\* broker answers and looks within less than the expiry delta of the cache and
\* the life of a fresh token.
THEOREM TokenIsGood == ~BrokerSilent /\ TokensAbove(MaxLatency) => (Spec => []TokenGood)
<1> SUFFICES ASSUME ~BrokerSilent, TokensAbove(MaxLatency) PROVE Spec => []TokenGood
  OBVIOUS
<1>1. MaxLatency \in Nat
  BY TimerAssumption
<1>2. Init => TokenLasts(MaxLatency)
  BY DEF Init, TokenLasts
<1>3. Inv /\ TokenLasts(MaxLatency) /\ [Next]_vars => TokenLasts(MaxLatency)'
  BY <1>1, NextTokenLasts
<1>4. Inv /\ Prompt /\ TokenLasts(MaxLatency) => TokenGood
  BY <1>1 DEF Inv, TypeOK, Prompt, Awaiting, TokenLasts, TokenGood
<1>5. QED
  BY <1>2, <1>3, <1>4, Promptness, Invariance, PTL DEF Spec

------------------------------------------------------------------------------
(* The session.                                                             *)

\* At the start a re-auth is scheduled if there is a session.
LEMMA InitScheduled == Init => Scheduled
<1> SUFFICES ASSUME Init PROVE Scheduled
  OBVIOUS
<1>1. lifetime \in Nat
  BY InitTypeOK DEF TypeOK
<1>2. sessionLeft # Never => lifetime > 0
  BY <1>1, TimerAssumption DEF Init, Session
<1>3. lifetime > 0 => reauthAt # Never
  BY <1>1, ScaleType, TimerAssumption DEF Init
<1>4. QED
  BY <1>2, <1>3 DEF Init, Scheduled, Awaiting

\* Every step keeps it scheduled.
LEMMA NextScheduled == Inv /\ Scheduled /\ [Next]_vars => Scheduled'
<1> SUFFICES ASSUME TypeOK, InFlightRight, Scheduled, [Next]_vars PROVE Scheduled'
  BY DEF Inv
<1> USE DEF Scheduled, Awaiting, authVars, readVars, brokerVars, tokenVars
<1>1. CASE Top \/ ReadHeaderPiece \/ ReadHeader \/ ForwardRequest \/ ConnectionFails \/ RefreshElsewhere \/ ReauthRejected
  BY <1>1 DEF Top, ReadHeaderPiece, ReadHeader, ForwardRequest, ConnectionFails, RefreshElsewhere, ReauthRejected
<1>2. CASE SetReadDeadline
  BY <1>2 DEF SetReadDeadline, NextReadDeadline, InFlightRight
<1>3. CASE ReadTimeout
  BY <1>3 DEF ReadTimeout, NeedsReauth
<1>4. CASE WriteReauth
  BY <1>4 DEF WriteReauth
<1>5. ASSUME NEW l \in Granted(token), BrokerAccepts(l)
      PROVE  Scheduled'
  BY <1>5 DEF BrokerAccepts
<1>6. CASE CompleteReauth
  <2>1. reauthAt # Never /\ reauthAt' # Never
    BY <1>6, ScaleType, TimerAssumption DEF CompleteReauth, TypeOK
  <2>2. QED
    BY <1>6, <2>1 DEF CompleteReauth
<1>7. CASE Tick
  <2>1. /\ reauthAt' = Never <=> reauthAt = Never
        /\ readDeadline' = Never <=> readDeadline = Never
    BY <1>7, EarlierMoment DEF Tick, TypeOK
  <2>2. sessionLeft' # Never => sessionLeft # Never
    BY <1>7 DEF Tick
  <2>3. UNCHANGED <<pc, inFlight, answer>>
    BY <1>7 DEF Tick
  <2>4. QED
    BY <2>1, <2>2, <2>3
<1>8. CASE Terminated \/ UNCHANGED vars
  BY <1>8 DEF Terminated, vars
<1>9. QED
  BY <1>1, <1>2, <1>3, <1>4, <1>5, <1>6, <1>7, <1>8 DEF Next

\* The delays add up.
LEMMA DelayFacts ==
    /\ Delay \in Nat /\ MaxLatency \in Nat /\ MaxFetch \in Nat /\ MaxForward \in Nat /\ Cushion \in Nat
    /\ OneSecond \in Nat
    /\ Delay > MaxFetch + MaxLatency
    /\ Delay >= MaxForward + (MaxFetch + MaxLatency) + 1
BY TimerAssumption DEF Delay

\* A fifth of a lifetime that is long enough covers the delays.
LEMMA ScaleEnough ==
    ASSUME NEW d \in Nat, Enough(d)
    PROVE  d > scaleSessionLifetime(d) + Delay + MaxLatency
<1> USE DelayFacts
<1> DEFINE q == (d * 4) \div 5
<1>1. q \in Nat /\ 5 * q <= 4 * d
  OBVIOUS
<1>2. d > 5 * (Delay + MaxLatency)
  BY DEF Enough, MarginCovers
<1>3. 5 * d > 5 * (q + Delay + MaxLatency)
  BY <1>1, <1>2
<1>4. d > q + Delay + MaxLatency
  BY <1>1, <1>3
<1>5. d > OneSecond + Delay + MaxLatency
  BY DEF Enough, MarginCovers
<1>6. QED
  BY <1>4, <1>5 DEF scaleSessionLifetime

\* The first session lasts until its re-auth.
LEMMA InitLasting == Init => Lasting
<1> SUFFICES ASSUME Init, Enough(lifetime), sessionLeft # Never PROVE Before
  BY DEF Lasting, Init
<1> USE DelayFacts
<1>1. TypeOK
  BY InitTypeOK
<1>2. lifetime > 0 /\ lifetime \in Nat
  BY <1>1, TimerAssumption DEF Init, Session, TypeOK
<1>4. lifetime > scaleSessionLifetime(lifetime) + Delay + MaxLatency
  BY <1>2, ScaleEnough
<1>5. reauthAt = scaleSessionLifetime(lifetime) /\ reauthAt \in Nat
  BY <1>2, ScaleType DEF Init
<1>6. lifetime > MaxLatency
  BY <1>2, <1>4, <1>5
<1>7. PICK late \in 0..MaxLatency : sessionLeft = lifetime - late
  BY <1>6 DEF Init
<1>8. sessionLeft > reauthAt + Delay
  BY <1>2, <1>4, <1>5, <1>7
<1>9. sessionLeft > MaxFetch + MaxLatency
  BY <1>2, <1>5, <1>7, <1>8
<1>10. QED
  BY <1>8, <1>9 DEF Init, Before

\* What a passing tick leaves of the session before the re-auth.
LEMMA TickBefore ==
    ASSUME Inv, Scheduled, Tick, answer = "none", sessionLeft # Never, Before, sessionLeft # 0
    PROVE  Before'
<1> USE DelayFacts
<1>1. /\ sessionLeft \in Nat /\ elapsed \in Nat
      /\ reauthAt \in Nat \cup {-1}
      /\ pc = "reading" => readDeadline \in Nat \cup {-1}
  BY DEF Inv, TypeOK, Moments, Scheduled
<1>2. sessionLeft' = sessionLeft - 1 /\ pc' = pc
  BY DEF Tick
<1>3. reauthAt' \in Nat \cup {-1} /\ (reauthAt \in Nat => reauthAt' = reauthAt - 1) /\ (reauthAt = -1 => reauthAt' = -1)
  BY <1>1, EarlierMoment DEF Tick, Earlier, Moments
<1>4. reauthAt' >= 0 => sessionLeft' > reauthAt' + Delay
  <2>1. CASE reauthAt \in Nat
    <3>1. sessionLeft > reauthAt + Delay
      BY <2>1 DEF Before
    <3>2. QED
      BY <1>1, <1>2, <1>3, <2>1, <3>1
  <2>2. CASE reauthAt = -1
    BY <1>3, <2>2
  <2>3. QED
    BY <1>1, <2>1, <2>2
<1>5. CASE pc = "reading"
  <2>1. readDeadline \in Nat
    BY <1>1, <1>5 DEF Tick, Readable, Scheduled
  <2>2. readDeadline' = readDeadline - 1
    BY <1>5, <2>1, EarlierMoment DEF Tick, Moments
  <2>3. sessionLeft > readDeadline + Delay
    BY <1>5, <2>1 DEF Before
  <2>4. sessionLeft' > readDeadline' + Delay
    BY <1>1, <1>2, <2>1, <2>2, <2>3
  <2>5. sessionLeft' > MaxFetch + MaxLatency
    BY <1>1, <1>2, <2>1, <2>3
  <2>6. QED
    BY <1>2, <1>4, <1>5, <2>4, <2>5 DEF Before
<1>6. CASE pc = "forwarding"
  <2>1. elapsed < MaxForward /\ elapsed' = elapsed + 1
    BY <1>6 DEF Tick
  <2>2. sessionLeft + elapsed > Delay
    BY <1>6 DEF Before
  <2>3. sessionLeft' + elapsed' > Delay
    BY <1>1, <1>2, <2>1, <2>2, TickKeepsSum
  <2>4. QED
    BY <1>1, <1>2, <1>4, <1>6, <2>1, <2>3 DEF Before
<1>7. CASE pc = "fetching"
  <2>1. elapsed < MaxFetch /\ elapsed' = elapsed + 1
    BY <1>7 DEF Tick
  <2>2. sessionLeft + elapsed > MaxFetch + MaxLatency
    BY <1>7 DEF Before
  <2>3. sessionLeft' + elapsed' > MaxFetch + MaxLatency
    BY <1>1, <1>2, <2>1, <2>2, TickKeepsSum
  <2>4. QED
    BY <1>1, <1>2, <1>4, <1>7, <2>1, <2>3 DEF Before
<1>8. QED
  BY <1>5, <1>6, <1>7 DEF Tick

\* A step that starts or ends no re-auth and takes no time.
LEMMA QuietLasting ==
    ASSUME Lasting, UNCHANGED <<sessionLeft, answer, age, lifetime>>, ~Ended' => ~Ended,
           ~Ended /\ sessionLeft # Never /\ answer = "none" /\ Before /\ ~Ended' => Before'
    PROVE  Lasting'
BY DEF Lasting

\* The re-auth that was due is written in time.
LEMMA WriteLasting ==
    ASSUME Inv, Lasting, WriteReauth
    PROVE  Lasting'
<1> USE DelayFacts
<1>1. /\ pc = "fetching" /\ UNCHANGED <<sessionLeft, lifetime>> /\ age' = 0 /\ answer' = "pending"
      /\ sessionLeft \in Nat \cup {Never} /\ elapsed \in Nat
  BY DEF WriteReauth, Inv, TypeOK
<1>2. ~Ended /\ answer = "none"
  BY <1>1 DEF Ended, Inv, TypeOK, InFlightRight, Awaiting
<1>3. sessionLeft # Never /\ Enough(lifetime) => sessionLeft + elapsed > MaxFetch + MaxLatency /\ elapsed <= MaxFetch
  BY <1>1, <1>2 DEF Lasting, Before
<1>4. sessionLeft # Never /\ Enough(lifetime) => sessionLeft > MaxLatency
  BY <1>1, <1>3
<1>5. QED
  BY <1>1, <1>4 DEF Lasting

\* The broker starts a new session with a lifetime that is long enough.
LEMMA AcceptLasting ==
    ASSUME Inv, NEW l \in Granted(token), BrokerAccepts(l)
    PROVE  Lasting'
<1>1. l \in Nat /\ age \in Nat
  BY GrantedTypes DEF Inv, TypeOK
<1>2. /\ answer' = "accepted" /\ lifetime' = l /\ age' = age
      /\ sessionLeft' # Never => l > 0 /\ sessionLeft' = l
  BY <1>1 DEF BrokerAccepts, Session
<1>3. QED
  BY <1>1, <1>2 DEF Lasting

\* The answer is read and the next re-auth scheduled.
LEMMA CompleteLasting ==
    ASSUME Inv, Prompt, Lasting, CompleteReauth
    PROVE  Lasting'
<1> USE DelayFacts
<1>1. /\ answer = "accepted" /\ answer' = "none" /\ ~Ended
      /\ UNCHANGED <<pc, readDeadline, elapsed, lifetime, age, sessionLeft>>
  BY DEF CompleteReauth, readVars
<1>2. SUFFICES ASSUME sessionLeft # Never, Enough(lifetime) PROVE Before'
  BY <1>1 DEF Lasting
<1>3. /\ sessionLeft \in Nat /\ age \in Nat /\ lifetime \in Nat /\ elapsed \in Nat
      /\ pc \notin {"closed", "wedged"} /\ inFlight
  BY <1>1, <1>2 DEF Inv, TypeOK, InFlightRight, Ended, Awaiting
<1>4. lifetime > 0 /\ sessionLeft + age >= lifetime /\ age <= MaxLatency
  BY <1>1, <1>2 DEF Lasting, Prompt, Awaiting
<1>6. reauthAt' = scaleSessionLifetime(lifetime) /\ reauthAt' \in Nat
  BY <1>3, <1>4, ScaleType DEF CompleteReauth
<1>7. lifetime > reauthAt' + Delay + MaxLatency
  BY <1>2, <1>3, <1>6, ScaleEnough
<1>8. sessionLeft > reauthAt' + Delay
  BY <1>3, <1>4, <1>6, <1>7
<1>9. sessionLeft > Delay /\ sessionLeft > MaxFetch + MaxLatency
  BY <1>3, <1>6, <1>8
<1>10. ASSUME pc = "reading", readDeadline >= 0 PROVE sessionLeft > readDeadline + Delay
  <2>1. readDeadline \in Nat /\ readDeadline <= Cushion
    BY <1>1, <1>3, <1>10, TimerAssumption DEF Inv, TypeOK, InFlightRight, Aged, Moments
  <2>2. lifetime > Cushion + Delay + MaxLatency
    BY <1>2 DEF Enough, OutlastsCushion
  <2>3. sessionLeft > Cushion + Delay
    BY <1>3, <1>4, <2>2
  <2>4. QED
    BY <1>3, <2>1, <2>3
<1>11. pc # "fetching"
  BY <1>3 DEF Inv, InFlightRight
<1>12. pc = "forwarding" => elapsed <= MaxForward
  BY <1>1, <1>3 DEF Inv, Aged
<1>13. sessionLeft + elapsed > Delay
  BY <1>3, <1>9
<1>14. QED
  BY <1>1, <1>8, <1>9, <1>10, <1>11, <1>12, <1>13 DEF Before

\* Time passes.
LEMMA TickLasting ==
    ASSUME ~BrokerSilent, Inv, Prompt, Scheduled, Lasting, Tick
    PROVE  Lasting'
<1> USE DelayFacts
<1>1. ~Ended /\ UNCHANGED <<pc, answer, lifetime>>
  BY DEF Tick, Ended
<1>2. SUFFICES ASSUME sessionLeft # Never, Enough(lifetime)
               PROVE  /\ answer = "none" => Before'
                      /\ answer = "pending" => sessionLeft' + age' > MaxLatency
                      /\ answer = "accepted" => lifetime > 0 /\ sessionLeft' + age' >= lifetime
  BY <1>1 DEF Lasting, Tick
<1>3. sessionLeft \in Nat /\ age \in Nat /\ lifetime \in Nat /\ elapsed \in Nat
  BY <1>2 DEF Inv, TypeOK
<1>4. CASE answer = "none"
  <2>1. Before
    BY <1>1, <1>2, <1>4 DEF Lasting
  <2>2. sessionLeft # 0
    BY <1>3, <2>1 DEF Before, Tick
  <2>3. QED
    BY <1>2, <1>4, <2>1, <2>2, TickBefore
<1>5. CASE answer \in {"pending", "accepted"}
  <2>1. age' = age + 1 /\ sessionLeft' \in Nat /\ sessionLeft' >= sessionLeft - 1
    BY <1>2, <1>3, <1>5, TickAge DEF Awaiting, Tick
  <2>2. answer = "pending" => sessionLeft' + age' > MaxLatency
    BY <1>1, <1>2, <1>3, <2>1, TickKeepsSum DEF Lasting
  <2>3. ASSUME answer = "accepted" PROVE lifetime > 0 /\ sessionLeft' + age' >= lifetime
    <3>1. lifetime > 0 /\ sessionLeft + age >= lifetime
      BY <1>1, <1>2, <2>3 DEF Lasting
    <3>2. sessionLeft' + (age + 1) >= lifetime
      BY <1>3, <2>1, <3>1, TickKeepsSum
    <3>3. QED
      BY <2>1, <3>1, <3>2
  <2>4. QED
    BY <1>5, <2>2, <2>3
<1>6. QED
  BY <1>4, <1>5 DEF Inv, TypeOK

\* Every step keeps enough of the session.
LEMMA NextLasting ==
    ~BrokerSilent /\ Inv /\ Prompt /\ Scheduled /\ Lasting /\ [Next]_vars => Lasting'
<1> SUFFICES ASSUME ~BrokerSilent, Inv, Prompt, Scheduled, Lasting, [Next]_vars
             PROVE  Lasting'
  OBVIOUS
<1> USE DEF authVars, readVars, brokerVars, tokenVars
<1>0. /\ sessionLeft # Never => sessionLeft \in Nat /\ reauthAt \in Nat \cup {-1}
      /\ elapsed \in Nat
  BY DEF Inv, TypeOK, Moments, Scheduled
<1>1. CASE Top
  BY <1>1, QuietLasting DEF Top, Ended, Before
<1>2. CASE SetReadDeadline
  <2>1. ASSUME ~Ended, sessionLeft # Never, answer = "none", Before PROVE Before'
    <3>1. readDeadline' = reauthAt
      BY <1>2, <2>1 DEF SetReadDeadline, NextReadDeadline, Inv, InFlightRight, Awaiting
    <3>2. QED
      BY <1>2, <2>1, <3>1 DEF SetReadDeadline, Before
  <2>2. QED
    BY <1>2, <2>1, QuietLasting DEF SetReadDeadline, Ended
<1>3. CASE ReadHeaderPiece
  BY <1>3, QuietLasting DEF ReadHeaderPiece, Ended, Before
<1>4. CASE ReadHeader
  <2>1. ASSUME sessionLeft # Never, answer = "none", Before PROVE Before'
    <3>1. readDeadline \in Nat
      BY <1>4, <2>1 DEF ReadHeader, Readable, Scheduled, Inv, TypeOK, Moments
    <3>2. sessionLeft > readDeadline + Delay
      BY <1>4, <2>1, <3>1 DEF ReadHeader, Before
    <3>3. sessionLeft + 0 > Delay /\ 0 <= MaxForward
      BY <1>0, <2>1, <3>1, <3>2, DelayFacts
    <3>4. QED
      BY <1>4, <2>1, <3>3 DEF ReadHeader, Before
  <2>2. QED
    BY <1>4, <2>1, QuietLasting DEF ReadHeader, Ended
<1>5. CASE ForwardRequest
  <2>1. ASSUME sessionLeft # Never, answer = "none", Before PROVE Before'
    <3>1. sessionLeft + elapsed > Delay /\ elapsed <= MaxForward
      BY <1>5, <2>1 DEF ForwardRequest, Before
    <3>2. sessionLeft > MaxFetch + MaxLatency
      BY <1>0, <2>1, <3>1, DelayFacts
    <3>3. QED
      BY <1>5, <2>1, <3>2 DEF ForwardRequest, Before
  <2>2. QED
    BY <1>5, <2>1, QuietLasting DEF ForwardRequest, Ended
<1>6. CASE ReadTimeout
  <2>1. ASSUME sessionLeft # Never, answer = "none", Before PROVE Before'
    <3>1. sessionLeft > MaxFetch + MaxLatency /\ pc' \in {"fetching", "top"} /\ elapsed' = 0
      BY <1>6, <2>1 DEF ReadTimeout, Before
    <3>2. sessionLeft + 0 > MaxFetch + MaxLatency /\ 0 <= MaxFetch
      BY <1>0, <2>1, <3>1, DelayFacts
    <3>3. QED
      BY <1>6, <2>1, <3>1, <3>2 DEF ReadTimeout, Before
  <2>2. QED
    BY <1>6, <2>1, QuietLasting DEF ReadTimeout, Ended
<1>7. CASE WriteReauth
  BY <1>7, WriteLasting
<1>8. CASE ConnectionFails \/ ReauthRejected
  BY <1>8 DEF ConnectionFails, ReauthRejected, Lasting, Ended
<1>9. ASSUME NEW l \in Granted(token), BrokerAccepts(l)
      PROVE  Lasting'
  BY <1>9, AcceptLasting
<1>10. CASE RefreshElsewhere
  BY <1>10, QuietLasting DEF RefreshElsewhere, Before
<1>11. CASE CompleteReauth
  BY <1>11, CompleteLasting
<1>12. CASE Tick
  BY <1>12, TickLasting
<1>13. CASE Terminated \/ UNCHANGED vars
  BY <1>13, QuietLasting DEF Terminated, vars, Ended, Before
<1>14. QED
  BY <1>1, <1>2, <1>3, <1>4, <1>5, <1>6, <1>7, <1>8, <1>9, <1>10, <1>11, <1>12, <1>13 DEF Next

\* The session is not over at any moment Lasting describes.
LEMMA LastingKept == Inv /\ Prompt /\ Lasting => SessionKept
<1> SUFFICES ASSUME Inv, Prompt, Lasting, ~Ended, Enough(lifetime), sessionLeft = 0 PROVE FALSE
  BY DEF SessionKept, Enough
<1> USE DelayFacts
<1>1. sessionLeft # Never
  BY TimerAssumption
<1>2. age \in Nat /\ lifetime \in Nat /\ elapsed \in Nat
  BY DEF Inv, TypeOK
<1>3. CASE answer = "none"
  <2>1. Before
    BY <1>1, <1>3 DEF Lasting
  <2>2. CASE pc \in {"top", "setDeadline", "reading"}
    BY <2>1, <2>2 DEF Before
  <2>3. CASE pc = "forwarding"
    BY <1>2, <2>1, <2>3 DEF Before
  <2>4. CASE pc = "fetching"
    BY <1>2, <2>1, <2>4 DEF Before
  <2>5. QED
    BY <2>2, <2>3, <2>4 DEF Inv, TypeOK, Ended
<1>4. CASE answer = "pending"
  BY <1>1, <1>2, <1>4 DEF Lasting, Prompt, Awaiting
<1>5. CASE answer = "accepted"
  <2>1. age >= lifetime /\ lifetime > 0 /\ age <= MaxLatency
    BY <1>1, <1>2, <1>5 DEF Lasting, Prompt, Awaiting
  <2>2. lifetime > OneSecond + Delay + MaxLatency
    BY DEF Enough, MarginCovers
  <2>3. QED
    BY <1>2, <2>1, <2>2
<1>6. QED
  BY <1>3, <1>4, <1>5 DEF Inv, TypeOK

\* If the broker answers, a session whose lifetime covers the delays and the cushion does
\* not lapse on a connection that is up: CompleteReauth schedules its re-auth early enough.
THEOREM SessionIsKept == ~BrokerSilent => (Spec => []SessionKept)
<1> SUFFICES ASSUME ~BrokerSilent PROVE Spec => []SessionKept
  OBVIOUS
<1>1. Inv /\ Prompt /\ Scheduled /\ Lasting /\ [Next]_vars => Lasting'
  BY NextLasting
<1>2. QED
  BY <1>1, InitScheduled, NextScheduled, InitLasting, LastingKept, Promptness, Invariance, PTL DEF Spec
=============================================================================
