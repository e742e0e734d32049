\* Ports 4, 5 and 7 are free, as many as there are addresses without a configured
\* listener; offset 5 leaves the port space.
CONSTANTS
    Callers = {c1, c2}
    Endpoints <- MCEndpoints
    Configured <- MCConfigured
    Modes = {"deterministic", "sequential", "ephemeral", "disabled"}
    MinPort = 3
    MaxPorts = 6
    PortSpace = 8
    EphemeralPorts = {1, 2, 6}
    BusyPorts = {3, 6}
    Templates <- TwoTemplates
    MaxClosed = 2
SPECIFICATION FairSpec
INVARIANTS TypeOK TableRoutes NoOrphanListener PortsInRange
PROPERTIES ListenersKept AddressesPromised EveryBrokerMapped
