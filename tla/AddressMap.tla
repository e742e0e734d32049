----------------------------- MODULE AddressMap -----------------------------
(***************************************************************************)
(* What the listener table promises: a partial map from broker addresses   *)
(* to what stands in for them, a port of the proxy and the address that    *)
(* clients are told, and the set of ports that accept connections.  The    *)
(* map only learns an address, on a port that is not in use, or lets a     *)
(* stand-in follow a broker to an address that had none.  No address is    *)
(* forgotten and no answer changes in any other way, not even when the     *)
(* port stops accepting connections.  Listeners implements it with locks,  *)
(* ports that are taken and callers that race.                             *)
(***************************************************************************)
CONSTANTS
    Addresses,  \* broker addresses
    Ports,      \* listener ports
    Advertised, \* addresses told to clients
    Unmapped    \* the address has no stand-in

VARIABLES
    map,        \* what stands in for each address
    live        \* the ports that accept connections

Init ==
    /\ map \in [Addresses -> (Ports \X Advertised) \cup {Unmapped}]
    /\ live \subseteq Ports

Learn(a) ==
    /\ map[a] = Unmapped
    /\ map'[a] \in Ports \X Advertised
    /\ map'[a][1] \notin live
    /\ map' = [map EXCEPT ![a] = map'[a]]
    /\ live' = live \cup {map'[a][1]}

\* A broker is met at another address.
Follow(a, b) ==
    /\ map[a] # Unmapped /\ map[b] = Unmapped
    /\ map' = [map EXCEPT ![a] = Unmapped, ![b] = map[a]]
    /\ UNCHANGED live

\* A port is opened that no client is told of.
Waste(p) ==
    /\ p \notin live
    /\ live' = live \cup {p}
    /\ UNCHANGED map

\* A port stops accepting connections.
Die(p) ==
    /\ p \in live
    /\ live' = live \ {p}
    /\ UNCHANGED map

Next ==
    \/ \E a \in Addresses : Learn(a)
    \/ \E a, b \in Addresses : Follow(a, b)
    \/ \E p \in Ports : Waste(p) \/ Die(p)

Spec == Init /\ [][Next]_<<map, live>>
=============================================================================
