----------------------------- MODULE MCListeners -----------------------------
(* Listeners for TLC: configured brokers, brokers that move, one without an id. *)
EXTENDS Listeners

Endpoint(id, address) == [id |-> id, address |-> address]

\* Broker 1 is configured at A and is met at B as well; brokers 2, 3 and 5 move over
\* the same addresses; the port of broker 3 is taken, that of broker 5 beyond the
\* uint16 space.  The broker at E is reached through another proxy, at port 4.
MCEndpoints ==
    {Endpoint(1, "B"), Endpoint(2, "B"), Endpoint(2, "C"),
     Endpoint(3, "D"), Endpoint(5, "D"), Endpoint(-1, "C")}
At(host, port) == [host |-> host, port |-> port]
MCConfigured ==
    <<[address |-> "A", port |-> 2, advertised |-> At("proxy", 2), bootstrap |-> TRUE],
      [address |-> "E", port |-> 4, advertised |-> At("other", 4), bootstrap |-> FALSE]>>

\* No template; one address for all brokers; one that cannot be executed for broker 1.
Made(ok, host, port) == [ok |-> ok, host |-> host, port |-> port]
Plain == [id \in Ids |-> Made(TRUE, "proxy", NoPort)]
Fixed == [id \in Ids |-> Made(TRUE, "front", 7)]
Partial == [id \in Ids |-> IF id = 1 THEN Made(FALSE, "", NoPort) ELSE Made(TRUE, "proxy", NoPort)]
NoTemplate == {Plain}
TwoTemplates == {Fixed, Partial}
=============================================================================
