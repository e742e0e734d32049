\* One slot in openRequests and a client that does not wait for the answer to its
\* SASL v0 handshake: every wait can time out.
CONSTANTS
    cfgMaxOpenRequests = 1
    minOpenRequests = 1
    ClientApis = {"Other", "ProduceAcks0", "SaslHandshakeV0", "SaslHandshakeV1"}
    SaslV0Pipelined = TRUE
    MaxRequests = 4
    MaxReauths = 1
SPECIFICATION FairSpec
PROPERTIES TeardownCompletes ClientSpec
