\* Deterministic listeners, brokers that exchange addresses.
CONSTANTS
    Callers = {c1, c2}
    Endpoints <- MCEndpoints
    Configured <- MCConfigured
    Modes = {"deterministic"}
    MinPort = 3
    MaxPorts = 6
    PortSpace = 8
    EphemeralPorts = {1, 2, 6}
    BusyPorts = {3, 6}
    Templates <- NoTemplate
    MaxClosed = 1
SPECIFICATION Spec
INVARIANT DeterministicPort
