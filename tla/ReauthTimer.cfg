\* The expiry delta is a third of the cushion, as 10 s are of 30 s; a broker that answers.
CONSTANTS
    Never = Never
    OneSecond = 1
    Cushion = 24
    WriteTimeout = 24
    HeaderLen = 1
    SessionLimits = {0, 40, 99}
    OneHour = 60
    TokenLives = {Never, 60}
    ExpiryDelta = 8
    MaxForward = 1
    MaxFetch = 1
    MaxLatency = 1
    BrokerSilent = FALSE
SPECIFICATION Spec
INVARIANTS TypeOK SessionKept TokenGood
