CONSTANTS
    k1 = k1
    k2 = k2
    k3 = k3
    b1 = b1
    b2 = b2
    Connections = {k1, k2, k3}
    Brokers = {b1, b2}
    BrokerOf <- MCBrokerOf
SPECIFICATION FairSpec
INVARIANTS TypeOK ConnSetExact NothingLeaked
PROPERTY ShutdownCloses
