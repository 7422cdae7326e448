-------------------------- MODULE MCIngressOrphans --------------------------
(* Two CRs of one name and different kinds and a CR of another name.  The  *)
(* FacadeService may come to declare the ingress j that Other gives up, and *)
(* Same declares an ingress i or one whose port cannot be told.            *)
EXTENDS IngressOrphans, TLC

CONSTANTS i, j

Service == [kind |-> "FacadeService", name |-> "a"]
Same == [kind |-> "Gateway", name |-> "a"]
Other == [kind |-> "Gateway", name |-> "b"]

ThreeCRs == {Service, Same, Other}
Declared3 == Service :> {{j}} @@ Same :> {{i}, {Unnamed}} @@ Other :> {{}}
Starting == Service :> None @@ Same :> None @@ Other :> {j}
GrpcPolicies == i :> {} @@ j :> {"BackendTrafficPolicy"}
EitherKind == {<<"Ingress">>, <<"HTTPRoute">>}
=============================================================================
