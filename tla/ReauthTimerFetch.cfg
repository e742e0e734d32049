\* A token fetch that takes a part of the cushion.
CONSTANTS
    Never = Never
    OneSecond = 1
    Cushion = 3
    WriteTimeout = 3
    HeaderLen = 1
    SessionLimits = {20}
    OneHour = 40
    TokenLives = {20}
    ExpiryDelta = 5
    MaxForward = 0
    MaxFetch = 2
    MaxLatency = 3
    BrokerSilent = FALSE
SPECIFICATION Spec
INVARIANT CushionGranted
