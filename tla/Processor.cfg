CONSTANTS
    cfgMaxOpenRequests = 2
    minOpenRequests = 1
    ClientApis = {"Other", "ProduceAcks0", "SaslHandshakeV0", "SaslAuthenticate"}
    SaslV0Pipelined = FALSE
    MaxRequests = 4
    MaxReauths = 2
SPECIFICATION Spec
INVARIANTS TypeOK RepliesPaired ErrorAlwaysSet HandlerRoom StarvationTransient InFlightAccurate
PROPERTY ClientSpec
