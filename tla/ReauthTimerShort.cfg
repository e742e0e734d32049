\* A tick is a second: the cushion and the expiry delta are those of the code.  Nothing
\* in the environment is slow, and sessions last as long as their tokens.
CONSTANTS
    Never = Never
    OneSecond = 1
    Cushion = 30
    WriteTimeout = 30
    HeaderLen = 1
    SessionLimits = {120}
    OneHour = 120
    TokenLives = {120}
    ExpiryDelta = 10
    MaxForward = 0
    MaxFetch = 0
    MaxLatency = 0
    BrokerSilent = FALSE
SPECIFICATION Spec
INVARIANT WakesInTime
