\* Radix 8: a varint has a second digit from 4 on, as 128 is for bytes.
CONSTANTS
    Radix = 8
    Forbidden = {20}
    MaxRequestSize = 5
    SizeSpace = 64
    BufSize = 4
    Sends <- MCSends
    MaxRequests = 2
    MaxTimeouts = 1
SPECIFICATION FairSpec
INVARIANTS TypeOK BrokerStream MarkersRight
PROPERTY Delivered
