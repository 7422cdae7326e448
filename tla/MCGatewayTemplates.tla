------------------------- MODULE MCGatewayTemplates -------------------------
(* CRs of every kind of name, and settings at their boundaries.            *)
EXTENDS GatewayTemplates

AllWords ==
  {"public", "private", "internal", "egress", "core", "gateway", "service", "monitor",
   "web", "adm", "a", "b", "c", "d", "e", "g", "h", "x"}

CR(name, gateway, type) == [name |-> name, gateway |-> gateway, type |-> type]
AllHeads ==
  {CR(<<"a">>, None, t) : t \in {"mesh", "ingress"}}
  \cup {CR(<<"a", "b">>, <<"g">>, t) : t \in {"mesh", "ingress", "egress"}}
  \cup {CR(<<"a", "b", x, "d">>, None, "ingress") : x \in {"c", "e"}}
  \cup {CR(PublicGatewayService, g, "ingress") : g \in {None, <<"g">>}}
  \cup {CR(PublicGatewayService, <<"g">>, "mesh"),
        CR(InternalGatewayService, <<"g">>, "mesh"),
        CR(EgressGateway, None, "mesh"),
        CR(CoreEgressGateway, <<"egress", "gateway", "gateway">>, "egress")}

TwoPorts == {Port(<<"x">>, 8081), Port(<<"web">>, 8080), Port(<<"adm">>, 9901)}
PortLists == {<<>>} \cup {<<p>> : p \in TwoPorts} \cup {<<p, q>> : p, q \in TwoPorts}
Ports == [port: {8080, 1234}, gatewayPorts: PortLists]

ToPort(port, isGrpc) == [port |-> port, isGrpc |-> isGrpc, hostname |-> <<"h">>]
Specs == {ToPort(p, g) : p \in {0, 8080, 8081}, g \in BOOLEAN}
SomeIngresses == {<<s>> : s \in Specs} \cup {<<s, t>> : s, t \in Specs}

Memories == [limit: {None, Bad, 48, 128}, request: {None, Bad, 48, 128}]
AllCounts == {[form |-> "other", n |-> 0]}
             \cup [form: {"int", "string"}, n: {-1, 0, 1, 3, Half - 1, Half, 2 * Half}]

Count(n) == [form |-> "int", n |-> n]
Policy(type, value, period) == [type |-> type, value |-> value, period |-> period]
Policies == {Policy(t, v, w) : t \in {"Pods", "Percent", "Unknown"}, v, w \in {NoCount, Count(2)}}
Both == Policy("Percent", Count(2), Count(2))
AllHpas ==
  {[min |-> Count(2), max |-> Count(3), cpu |-> Count(5), up |-> <<p>>, down |-> <<>>] :
      p \in Policies}
  \cup {[min |-> m, max |-> NoCount, cpu |-> NoCount, up |-> <<>>, down |-> <<Both, p>>] :
           p \in Policies, m \in {NoCount, Count(4)}}

Owners == {<<"u">>, <<"v", "w">>, <<"u", "v">>, <<"v", "u", "w">>}

Mi(n) == [n |-> n, unit |-> "Mi"]
Defaults == [podsValue |-> 1, podsPeriod |-> 6, percentValue |-> -1, percentPeriod |-> -1]
Hpa(min, max) ==
  [min |-> min, max |-> max, cpu |-> 7, up |-> Defaults, down |-> Defaults]
V(major, minor, patch) == [major |-> major, minor |-> minor, patch |-> patch]
Env(limit, request, hpa, openshift, version) ==
  [limit |-> limit, request |-> request, count |-> 2, hpa |-> hpa,
   openshift |-> openshift, version |-> version]
\* One has its HPA's bounds out of order.
SomeEnvironments ==
  {Env(Mi(32), Mi(32), Hpa(1, 3), FALSE, V(1, 22, 0)),
   Env(Mi(128), Mi(32), Hpa(3, 2), FALSE, V(1, 9, 5)),
   Env(Mi(128), Mi(96), Hpa(1, 3), TRUE, V(2, 0, 0)),
   Env([n |-> 1, unit |-> "Gi"], Mi(96), Hpa(2, 2), TRUE, V(0, 0, 0))}
=============================================================================
