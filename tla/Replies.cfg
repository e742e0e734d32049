CONSTANTS
    MaxInt16 = 3
    MaxMessage = 139
    Mapping <- MCMapping
    InitialSessionLifetime = 5
    Streams <- MCStreams
SPECIFICATION Spec
INVARIANTS TypeOK ClientStream RefusedWhole SessionCurrent
