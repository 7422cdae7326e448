------------------------- MODULE MCFacadeReconciler -------------------------
(* Instances of FacadeReconciler for TLC.                                  *)
EXTENDS FacadeClaims, TLC

CONSTANTS a, b,          \* CR names
          r1, r2,        \* mesh routers
          fa, fb,        \* the facade gateways of a and b
          v, w, x        \* workers

FS(n) == [kind |-> "FacadeService", name |-> n]
GW(n) == [kind |-> "Gateway", name |-> n]
Shares(r) == [gateway |-> r, master |-> FALSE]
Masters(r) == [gateway |-> r, master |-> TRUE]
Alone == [gateway |-> None, master |-> FALSE]

\* Two names, one router, a facade gateway each.
TwoNames == {a, b}
TwoFacades == a :> fa @@ b :> fb
OneRouter == {r1, fa, fb}
OneOfEach == {FS(a), GW(b)}
WorkerPerKind == v :> "FacadeService" @@ w :> "Gateway"
MixedSpecs == {Shares(r1), Masters(r1), Alone}
FacadeShares == FS(a) :> Shares(r1) @@ GW(b) :> None

\* egress-gateway (b, here the facade gateway r1) and core-egress-gateway (a)
\* as the documentation configures it.
EgressFacades == a :> fa @@ b :> r1
EgressRouter == {r1, fa}
EgressSpecs == {Shares(r1), Alone}
EgressAlone == FS(a) :> None @@ GW(b) :> Alone
EgressBoth == FS(a) :> Shares(r1) @@ GW(b) :> Alone

\* A FacadeService and a Gateway of one name, as in a migration, and another
\* Gateway; two workers for the Gateways.
OneName == {a}
BothKinds == {FS(a), GW(a)}
OneFacade == a :> fa
BothKindsAndMore == {FS(a), GW(a), GW(b)}
ThreeWorkers == v :> "FacadeService" @@ w :> "Gateway" @@ x :> "Gateway"
ThreeShare == FS(a) :> Shares(r1) @@ GW(a) :> Alone @@ GW(b) :> Masters(r1)
FacadeAndShare == FS(a) :> Shares(r1) @@ GW(a) :> Alone
=============================================================================
