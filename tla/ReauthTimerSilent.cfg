\* A broker that may never answer, a client that may stall in a header.
CONSTANTS
    Never = Never
    OneSecond = 1
    Cushion = 3
    WriteTimeout = 3
    HeaderLen = 2
    SessionLimits = {0, 99}
    OneHour = 5
    TokenLives = {Never}
    ExpiryDelta = 5
    MaxForward = 2
    MaxFetch = 2
    MaxLatency = 0
    BrokerSilent = TRUE
SPECIFICATION FairSpec
INVARIANT WedgedInTime
PROPERTIES StuckReauthEnds DueReauthStarts ClientServed
