---------------------------- MODULE TokenProvider ----------------------------
(***************************************************************************)
(* The token provider (google-access-token-provider/plugin.go) that all    *)
(* connections of the proxy share.  It keeps one token and hands it out    *)
(* again until ExpiryDelta before its end; only then does it fetch another *)
(* one.  A token is modelled by the ticks until it expires; Never is a     *)
(* token without an expiry.                                                *)
(*                                                                         *)
(* External: oauth2.ReuseTokenSource (the cache behind a mutex) and        *)
(* Google's token service.  A fetch that fails ends the caller's           *)
(* connection (ReauthTimer) and leaves the cache as it is.                 *)
(***************************************************************************)
EXTENDS Integers

CONSTANTS
    Never,       \* the zero time.Time
    OneHour,     \* ticks in an hour
    TokenLives,  \* external: ticks a fetched token may have left, or Never
    ExpiryDelta  \* external: ticks before its end at which a token counts as expired

VARIABLE cached  \* ticks until the cached token expires

\* NewTokenProvider fetches a token at startup; since then time has passed.
Init == cached \in TokenLives \cup UNION {0..l : l \in TokenLives \ {Never}}

\* Mutant: a token counts as valid up to its last moment.
ValidToTheEnd(c) == c # Never => c > 0

\* Token.Valid.
Valid(c) == c # Never => c >= ExpiryDelta

\* reuseTokenSource.Token: the tokens a call may return.
Tokens == IF Valid(cached) THEN {cached} ELSE TokenLives

\* GetToken returns t, which is the cached token from now on.
GetToken(t) == t \in Tokens /\ cached' = t

\* wrapForManagedKafka: what is left until the exp claim of the envelope.
wrapForManagedKafka(t) == IF t = Never THEN OneHour ELSE t

\* Another connection needs a token when the cached one is no longer valid.
RefreshElsewhere == ~Valid(cached) /\ \E t \in Tokens : GetToken(t)

Older == IF cached = Never \/ cached = 0 THEN cached ELSE cached - 1
==============================================================================
