--------------------------- MODULE MCEgressRelay ---------------------------
(* Instances of EgressRelay for TLC. *)
EXTENDS EgressRelay

CONSTANTS c1, c2, a1, a2

\* The second snapshot lists an upstream twice, as two credentials of one
\* endpoint do, and is longer than POOL_SIZE, which cuts the other one off.
TwoSnapshots == <<<<a1, a2>>, <<a2, a2, a1>>>>

OneSnapshot == <<<<a1, a2>>>>

MCPorts == {DnsPort, 443}

DnsOnly == {DnsPort}

=============================================================================
