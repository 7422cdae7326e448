------------------------ MODULE MCGatewayResources --------------------------
(* Instances of GatewayResources for TLC.                                  *)
EXTENDS GatewayResources

CONSTANTS a, b,    \* CR names
          r1,      \* a mesh router
          fa, fb,  \* the facade gateways of a and b
          u        \* a user's Deployment

FS(n) == [kind |-> "FacadeService", name |-> n]
GW(n) == [kind |-> "Gateway", name |-> n]
Spec3(g, master, mesh) == [gateway |-> g, master |-> master, mesh |-> mesh]
Alone == Spec3(None, FALSE, FALSE)
Shares == Spec3(r1, FALSE, FALSE)
MeshMaster == Spec3(r1, TRUE, TRUE)

Facades == a :> fa @@ b :> fb
OneOfEach == {FS(a), GW(b)}
MovingSpecs == FS(a) :> {Alone, Shares} @@ GW(b) :> {MeshMaster}
TwoInformers == {{"Service", "Deployment"}, Monitored}
ThreeCollections == {{"Service"}, {"Deployment"}, Monitored}
AAlone == FS(a) :> Alone @@ GW(b) :> None
LeavingSpecs == FS(a) :> {Shares} @@ GW(b) :> {Alone, Shares}
BothShare == FS(a) :> Shares @@ GW(b) :> Shares

\* The instances meet what the theorem about restarts asks of the names.
ASSUME NamesAssumption == Apart /\ Unique
=============================================================================
