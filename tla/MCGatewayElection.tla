------------------------- MODULE MCGatewayElection -------------------------
(* Instances of GatewayElection for TLC.                                   *)
EXTENDS GatewayElection

CONSTANTS n1, n2, n3, n4      \* CR names

FS(n) == [kind |-> "FacadeService", name |-> n]
GW(n) == [kind |-> "Gateway", name |-> n]

\* Two CRs of each kind, no name twice, and a Gateway of a FacadeService's name.
SharedName == {FS(n1), FS(n2), GW(n1), GW(n3), GW(n4)}
=============================================================================
