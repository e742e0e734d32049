\* A request header that arrives in two pieces.
CONSTANTS
    Never = Never
    OneSecond = 1
    Cushion = 3
    WriteTimeout = 3
    HeaderLen = 2
    SessionLimits = {20}
    OneHour = 40
    TokenLives = {20}
    ExpiryDelta = 5
    MaxForward = 0
    MaxFetch = 0
    MaxLatency = 0
    BrokerSilent = FALSE
SPECIFICATION Spec
INVARIANT HeaderIntact
