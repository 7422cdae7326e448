-------------------------- MODULE GatewayTemplates --------------------------
(***************************************************************************)
(* What the operator computes from a CR, its own environment and the       *)
(* object found: the names, ports, selectors, resources and HPA of the     *)
(* objects it applies.  A name is the sequence of its words, of which a    *)
(* label holds at most LabelLimit; memory is in Mi.                        *)
(***************************************************************************)
EXTENDS Integers, Sequences, SequencesExt

CONSTANTS
  None, Bad,     \* a setting that is absent, one that cannot be parsed
  Half,          \* an int32 holds -Half .. Half - 1
  LabelLimit,    \* the 63 characters of a label
  Words,         \* of which names are made
  Heads,         \* [name, gateway, type] of the CRs
  PortSettings,  \* [port, gatewayPorts] of the CRs
  IngressLists,  \* sequences of [port, isGrpc, hostname]
  MemorySettings, \* [limit, request], each in Mi, None or Bad
  Counts,        \* [form, n] of a count: "int", "string", or "other" for the rest
  Hpas,          \* [min, max, cpu, up, down] of the CRs
  OwnerLists,    \* UIDs of the owners of an object that exists already
  UID,           \* the CR's own
  Environments,  \* [limit, request, count, hpa, openshift, version]
  MaxEdits       \* bound: settings of the CR that are changed

ASSUME SettingsAssumption == None # Bad
ASSUME WordsAssumption == {"gateway", "monitor"} \subseteq Words
ASSUME LabelAssumption == LabelLimit \in Nat \ {0}
ASSUME HalfAssumption == Half \in Nat \ {0}
ASSUME EditsAssumption == MaxEdits \in Nat

Names == Seq(Words)
Int32s == -Half .. Half - 1
CountRecords == [form: {"int", "string", "other"}, n: Int]
PolicyRecords == [type: STRING, value: CountRecords, period: CountRecords]
HpaRecords ==
  [min: CountRecords, max: CountRecords, cpu: CountRecords,
   up: Seq(PolicyRecords), down: Seq(PolicyRecords)]
PortRecords == [name: Names, port: Int]
IngressRecords == [port: Int, isGrpc: BOOLEAN, hostname: Names]

ASSUME CRAssumption ==
  /\ Heads \subseteq [name: Names, gateway: Names \cup {None}, type: STRING]
  /\ PortSettings \subseteq [port: Int, gatewayPorts: Seq(PortRecords)]
  /\ IngressLists \subseteq Seq(IngressRecords)
  /\ Counts \subseteq CountRecords /\ Hpas \subseteq HpaRecords
ASSUME OwnersAssumption == \A owners \in OwnerLists : owners \in Seq(ToSet(owners))

\* GetInt32EnvValueOrDefault takes any int32 for a default of the HPA.  Versions
\* have two digits at most.
DefaultNumbers(hpa) ==
  {hpa.min, hpa.max, hpa.cpu} \cup
  UNION {{d.podsValue, d.podsPeriod, d.percentValue, d.percentPeriod} : d \in {hpa.up, hpa.down}}
ASSUME EnvironmentAssumption ==
  \A e \in Environments :
    /\ e.limit.n \in Nat /\ e.request.n \in Nat /\ e.count \in Int32s
    /\ DefaultNumbers(e.hpa) \subseteq Int32s
    /\ e.version.major \in Nat /\ {e.version.minor, e.version.patch} \subseteq 0 .. 99

VARIABLES
  cr,     \* the CR applied
  env,    \* the operator's environment, fixed when it starts
  found,  \* owners of the object that the apply finds
  edits

vars == <<cr, env, found, edits>>

-----------------------------------------------------------------------------
(* Names                                                                   *)

PublicGatewayService == <<"public", "gateway", "service">>
PrivateGatewayService == <<"private", "gateway", "service">>
InternalGatewayService == <<"internal", "gateway", "service">>
EgressGateway == <<"egress", "gateway">>
CoreEgressGateway == <<"core", "egress", "gateway">>

GatewaySuffix == <<"gateway">>
PodMonitorSuffix == <<"monitor">>

Composite == cr.gateway # None
GatewayName == IF Composite THEN cr.gateway ELSE cr.name \o GatewaySuffix
GatewayType == IF cr.name = EgressGateway THEN "egress" ELSE cr.type

\* Mutant: whatever the type of the gateway, its name is the composite one's.
ResolveWhateverType == IF Composite THEN cr.gateway ELSE cr.name

ResolveGatewayServiceName ==
  IF /\ cr.name \notin {PublicGatewayService, PrivateGatewayService, InternalGatewayService}
     /\ GatewayType = "mesh" /\ Composite
  THEN cr.gateway ELSE cr.name

\* Only mesh gateways have a service of the Deployment's name.
MeshService ==
  Composite /\ GatewayType = "mesh" /\ cr.name # InternalGatewayService

\* SERVICE_NAME_VARIABLE of the gateway's container.
ServiceNameVariable ==
  IF Composite /\ cr.name = CoreEgressGateway THEN EgressGateway
  ELSE IF MeshService THEN GatewayName ELSE cr.name

ShortName(name, suffix) ==
  IF Len(name) + Len(suffix) > LabelLimit
  THEN SubSeq(name, 1, LabelLimit - Len(suffix)) \o suffix
  ELSE name \o suffix

\* Mutant: the suffix of a long name is cut, and not the name.
NameCutAtEnd(name) ==
  IF Len(name \o PodMonitorSuffix) > LabelLimit
  THEN SubSeq(name \o PodMonitorSuffix, 1, LabelLimit)
  ELSE name \o PodMonitorSuffix

\* The name applyPodMonitor gives; deletePodMonitor takes ShortName.
PodMonitorName(name) ==
  IF Len(name) + Len(PodMonitorSuffix) > LabelLimit
  THEN SubSeq(name, 1, LabelLimit - Len(PodMonitorSuffix)) \o PodMonitorSuffix
  ELSE name \o PodMonitorSuffix

-----------------------------------------------------------------------------
(* Ports                                                                   *)

Admin == 9901
Web == 8080
Port(name, port) == [name |-> name, port |-> port]

\* All are TCP; a port that a CR lists twice is one.
ServicePorts ==
  IF cr.gatewayPorts = <<>>
  THEN {[name |-> <<"web">>, port |-> cr.port, target |-> Web]}
  ELSE {[name |-> p.name, port |-> p.port, target |-> p.port] : p \in ToSet(cr.gatewayPorts)}

\* Mutant: a port of the CR that is the admin port is added again.
AdminTwice ==
  {Port(<<"admin">>, Admin)} \cup
  IF cr.gatewayPorts = <<>> THEN {Port(<<"web">>, Web)} ELSE ToSet(cr.gatewayPorts)

ContainerPorts ==
  {Port(<<"admin">>, Admin)} \cup
  IF cr.gatewayPorts = <<>> THEN {Port(<<"web">>, Web)}
  ELSE {p \in ToSet(cr.gatewayPorts) : p.port # Admin}

Unresolved == 0

\* Mutant: the CR's port comes before its gatewayPorts.
ResolveCRPort(spec) ==
  IF spec.port > 0 THEN spec.port
  ELSE IF Len(cr.gatewayPorts) > 1 THEN Unresolved
  ELSE IF cr.port > 0 THEN cr.port ELSE Web

ResolveGatewayPort(spec) ==
  LET declared == IF cr.gatewayPorts = <<>> THEN 0 ELSE cr.gatewayPorts[1].port
  IN IF spec.port > 0 THEN spec.port
     ELSE IF Len(cr.gatewayPorts) > 1 THEN Unresolved
     ELSE IF declared > 0 THEN declared
     ELSE IF cr.port > 0 THEN cr.port ELSE Web

\* Mutant: the name is that of the port that has none.
ResolveWeb(port) == <<"web">>

ResolvePortName(port) ==
  LET named == SelectInSeq(cr.gatewayPorts, LAMBDA p : p.port = port)
  IN IF named = 0 THEN <<"web">> ELSE cr.gatewayPorts[named].name

BuildIngressName(isGrpc, portName) ==
  (CASE ResolveGatewayServiceName = PublicGatewayService -> <<"public", "gateway">>
     [] ResolveGatewayServiceName = PrivateGatewayService -> <<"private", "gateway">>
     [] OTHER -> ResolveGatewayServiceName \o portName)
  \o IF isGrpc THEN <<"grpc">> ELSE <<>>

-----------------------------------------------------------------------------
(* Versions of the platform                                                *)

\* Mutant: the minor version is compared whatever the major ones are.
NewerByMinor(v, w) ==
  \/ v.major > w.major
  \/ v.minor > w.minor
  \/ v.major = w.major /\ v.minor = w.minor /\ v.patch > w.patch

IsNewerThan(v, w) ==
  \/ v.major > w.major
  \/ v.major = w.major /\ v.minor > w.minor
  \/ v.major = w.major /\ v.minor = w.minor /\ v.patch > w.patch

IsNewerThanOrEqual(v, w) == v = w \/ IsNewerThan(v, w)

FirstWithIngressV1 == [major |-> 1, minor |-> 22, patch |-> 0]

-----------------------------------------------------------------------------
(* Ingresses and routes                                                    *)

\* BuildIngressTemplate and BuildHTTPRouteTemplate agree on these.
IngressTemplate(spec) ==
  [name |-> BuildIngressName(spec.isGrpc, ResolvePortName(ResolveGatewayPort(spec))),
   host |-> spec.hostname,
   service |-> ResolveGatewayServiceName,
   port |-> ResolveGatewayPort(spec)]

Backend(kind, t) ==
  [kind |-> kind, name |-> t.name, host |-> t.host, service |-> t.service, port |-> t.port]

K8sIngress(t) == Backend("networking.k8s.io/v1", t)
K8sBetaIngress(t) == Backend("extensions/v1beta1", t)
K8sHTTPRoute(t) == Backend("HTTPRoute", t)

\* Its port is one of the pods.
OpenshiftRoute(t) == Backend("Route", t)

\* AggregatorImpl.Apply
LegacyIngress(t) ==
  IF env.openshift THEN OpenshiftRoute(t)
  ELSE IF IsNewerThanOrEqual(env.version, FirstWithIngressV1) THEN K8sIngress(t)
  ELSE K8sBetaIngress(t)

Ingresses ==
  IF GatewayType # "ingress" THEN {}
  ELSE UNION {{LegacyIngress(IngressTemplate(spec)), K8sHTTPRoute(IngressTemplate(spec))} :
                spec \in {s \in ToSet(cr.ingresses) : ResolveGatewayPort(s) # Unresolved}}

-----------------------------------------------------------------------------
(* Resources and counts                                                    *)

MinimumEgressGatewayMemory == 64

InMi(quantity) == IF quantity.unit = "Gi" THEN 1024 * quantity.n ELSE quantity.n

\* Atoi without "Mi": 0 for any other unit.
TrimMi(quantity) == IF quantity.unit = "Mi" THEN quantity.n ELSE 0

IsEgress == cr.name \in {EgressGateway, CoreEgressGateway}

\* Mutant: the minimum replaces a default that exceeds it.
MemoryCapped(value, default) ==
  CASE value = None -> IF IsEgress /\ TrimMi(default) > MinimumEgressGatewayMemory
                       THEN MinimumEgressGatewayMemory ELSE InMi(default)
    [] value = Bad -> InMi(default)
    [] OTHER -> value

\* Only a setting that is absent is raised to the egress gateway's minimum.
Memory(value, default) ==
  CASE value = None -> IF IsEgress /\ TrimMi(default) < MinimumEgressGatewayMemory
                       THEN MinimumEgressGatewayMemory ELSE InMi(default)
    [] value = Bad -> InMi(default)
    [] OTHER -> value

Int32(n) == ((n + Half) % (2 * Half)) - Half
IsInt32(n) == n \in Int32s

\* Mutant: a string is no count.
ReplicasOfInts(count) ==
  IF count.form = "int" /\ Int32(count.n) # 0 THEN Int32(count.n) ELSE env.count

\* Mutant: a count is not cut to 32 bits.
ReplicasUncut(count) ==
  CASE count.form = "string" -> count.n
    [] count.form = "int" /\ count.n # 0 -> count.n
    [] OTHER -> env.count

\* getFacadeReplicas: a string may be zero, an integer may not.
Replicas(count) ==
  CASE count.form = "string" -> Int32(count.n)
    [] count.form = "int" /\ Int32(count.n) # 0 -> Int32(count.n)
    [] OTHER -> env.count

\* getFacadeGatewayConcurrency
Concurrency(count) ==
  CASE count.form = "string" -> count.n
    [] count.form = "int" /\ count.n > 0 -> count.n
    [] OTHER -> env.count

\* ConvertToInt32: an integer is cut to 32 bits, a string must fit in them.
ValueOrDefault(count, default) ==
  CASE count.form = "int" -> Int32(count.n)
    [] count.form = "string" /\ IsInt32(count.n) -> count.n
    [] OTHER -> default

-----------------------------------------------------------------------------
(* The HPA                                                                 *)

PolicyType(type) == IF type = "Percent" THEN "Percent" ELSE "Pods"

\* Mutant: the defaults of the two types are mixed up.
DefaultMixedUp(type, pods, percent) == IF type = "Pods" THEN percent ELSE pods

DefaultByPolicyType(type, pods, percent) == IF type = "Pods" THEN pods ELSE percent

BehaviorPolicies(policies, d) ==
  IF policies = <<>>
  THEN <<[type |-> "Pods", value |-> d.podsValue, period |-> d.podsPeriod]>>
  ELSE [i \in DOMAIN policies |->
          LET type == PolicyType(policies[i].type)
          IN [type |-> type,
              value |-> ValueOrDefault(policies[i].value,
                          DefaultByPolicyType(type, d.podsValue, d.percentValue)),
              period |-> ValueOrDefault(policies[i].period,
                           DefaultByPolicyType(type, d.podsPeriod, d.percentPeriod))]]

HPA ==
  [target |-> GatewayName,
   min |-> ValueOrDefault(cr.hpa.min, env.hpa.min),
   max |-> ValueOrDefault(cr.hpa.max, env.hpa.max),
   cpu |-> ValueOrDefault(cr.hpa.cpu, env.hpa.cpu),
   up |-> BehaviorPolicies(cr.hpa.up, env.hpa.up),
   down |-> BehaviorPolicies(cr.hpa.down, env.hpa.down)]

-----------------------------------------------------------------------------
(* Objects and their owners                                                *)

Service(name) == [name |-> name, selector |-> GatewayName, ports |-> ServicePorts]

\* applyFacadeGateway and applyMeshRouter
Services ==
  (IF Composite /\ cr.name = CoreEgressGateway THEN {} ELSE {Service(cr.name)})
  \cup IF MeshService THEN {Service(GatewayName)} ELSE {}

PodLabels == [app |-> GatewayName, name |-> GatewayName]

Deployment ==
  [name |-> GatewayName, selector |-> [app |-> GatewayName],
   podLabels |-> PodLabels, ports |-> ContainerPorts,
   serviceName |-> ServiceNameVariable, replicas |-> Replicas(cr.count)]

PodMonitor ==
  [name |-> PodMonitorName(GatewayName), port |-> <<"admin">>,
   selector |-> [name |-> GatewayName]]

\* Mutant: once an owner was known already, none of the others is added.
MergeUntilKnown(refs, others) ==
  LET known == SelectInSeq(others, LAMBDA uid : Contains(refs, uid))
  IN refs \o IF known = 0 THEN others ELSE SubSeq(others, 1, known - 1)

MergeOwnerReferences(refs, others) ==
  LET merged[i \in 0 .. Len(others)] ==
        IF i = 0 THEN refs
        ELSE IF Contains(merged[i - 1], others[i]) THEN merged[i - 1]
        ELSE Append(merged[i - 1], others[i])
  IN merged[Len(others)]

-----------------------------------------------------------------------------
(* Users set a field of the CR, other CRs become owners of its objects     *)

Edit ==
  /\ edits < MaxEdits
  /\ edits' = edits + 1
  /\ UNCHANGED env

Set(field, values) ==
  /\ Edit
  /\ \E v \in values : v # cr[field] /\ cr' = [cr EXCEPT ![field] = v]
  /\ UNCHANGED found

SetIngresses == Set("ingresses", IngressLists)
SetCount == Set("count", Counts)
SetHpa == Set("hpa", Hpas)

SetPorts ==
  /\ Edit
  /\ \E p \in PortSettings : cr' = [cr EXCEPT !.port = p.port, !.gatewayPorts = p.gatewayPorts]
  /\ UNCHANGED found

SetMemory ==
  /\ Edit
  /\ \E m \in MemorySettings : cr' = [cr EXCEPT !.limit = m.limit, !.request = m.request]
  /\ UNCHANGED found

OwnObject ==
  /\ Edit
  /\ found' \in OwnerLists
  /\ UNCHANGED cr

NoCount == [form |-> "other", n |-> 0]
NoHpa == [min |-> NoCount, max |-> NoCount, cpu |-> NoCount, up |-> <<>>, down |-> <<>>]

Init ==
  /\ env \in Environments
  /\ \E h \in Heads :
       cr = [name |-> h.name, gateway |-> h.gateway, type |-> h.type,
             port |-> Web, gatewayPorts |-> <<>>, ingresses |-> <<>>,
             limit |-> None, request |-> None, count |-> NoCount,
             hpa |-> NoHpa]
  /\ found = <<>>
  /\ edits = 0

Next == SetPorts \/ SetMemory \/ SetIngresses \/ SetCount \/ SetHpa \/ OwnObject

Spec == Init /\ [][Next]_vars

-----------------------------------------------------------------------------
(* Properties                                                              *)

\* Types: what is built for a setting of any type is an int32.
TypeOK ==
  /\ env \in Environments
  /\ \E h \in Heads : cr.name = h.name /\ cr.gateway = h.gateway /\ cr.type = h.type
  /\ cr.ingresses \in IngressLists \cup {<<>>}
  /\ found \in OwnerLists \cup {<<>>}
  /\ edits \in 0 .. MaxEdits
  /\ IsInt32(Deployment.replicas) /\ IsInt32(HPA.max)

Distinct(ports) == \A p, q \in ports : p # q => p.name # q.name /\ p.port # q.port

\* The name the operator registers at the control plane for a gateway is the
\* one its pods ask the control plane for (SERVICE_NAME_VARIABLE), both of
\* which are decided from the CR, in two functions.  core-egress-gateway is
\* an exception by design, as are the public and private gateways if somebody
\* makes them composite and of type mesh.
RegisteredAsServed ==
  \/ cr.name = CoreEgressGateway
  \/ cr.name \in {PublicGatewayService, PrivateGatewayService} /\ MeshService
  \/ ResolveGatewayServiceName = ServiceNameVariable

\* The ports of a Service that the API server accepts are all exposed by the
\* container they lead to, whose own ports are distinct as well unless the CR
\* calls one of them admin; the PodMonitor's port is among them.
PortsExposed ==
  /\ Distinct(ServicePorts) =>
       \A p \in ServicePorts : \E q \in ContainerPorts : q.port = p.target
  /\ Distinct(ServicePorts) /\ (\A p \in ServicePorts : p.name # <<"admin">>) =>
       Distinct(ContainerPorts)
  /\ \E q \in ContainerPorts : q = Port(PodMonitor.port, Admin)

\* An ingress or a route whose port the CR does not name leads to a Service
\* that the same reconcile applies, and to a port which that Service has.  An
\* OpenShift Route names a port of the pods, and leads nowhere if the CR has a
\* port of its own that is not 8080.
BackendsServed ==
  LET inferred == \A i \in DOMAIN cr.ingresses : cr.ingresses[i].port = 0
      routable == cr.gatewayPorts # <<>> \/ cr.port = Web
  IN inferred /\ (\A p \in ServicePorts : p.port > 0) /\ cr.name # CoreEgressGateway =>
       \A b \in {i \in Ingresses : i.kind = "Route" => routable} :
         \E s \in Services : \E p \in s.ports :
           s.name = b.service /\ b.port = IF b.kind = "Route" THEN p.target ELSE p.port

\* No two ingresses of a CR that lead to different ports of its Service, or
\* one of which is for gRPC, share a name, under which the later one would
\* replace the other.  The public and private gateways have one name for all
\* their ports, and a port's name must not end in the word grpc.
IngressesApart ==
  LET port(i) == ResolveGatewayPort(cr.ingresses[i])
      name(i) == IngressTemplate(cr.ingresses[i]).name
      known == {i \in DOMAIN cr.ingresses : \E p \in ServicePorts : p.port = port(i)}
  IN ResolveGatewayServiceName \notin {PublicGatewayService, PrivateGatewayService}
       /\ Distinct(ServicePorts) /\ (\A p \in ServicePorts : Last(p.name) # "grpc") =>
       \A i, j \in known :
         port(i) # port(j) \/ cr.ingresses[i].isGrpc # cr.ingresses[j].isGrpc
           => name(i) # name(j)

\* Memory a CR does not set: the request stays within the limit as it does in
\* the operator's environment, given in Mi, an egress gateway has 64Mi at
\* least, and no gateway has less than the environment says.
MemoryFits ==
  LET limit == Memory(cr.limit, env.limit)
      request == Memory(cr.request, env.request)
      inMi == env.limit.unit = "Mi" /\ env.request.unit = "Mi"
  IN inMi /\ env.request.n <= env.limit.n /\ cr.limit = None /\ cr.request = None =>
       /\ request <= limit
       /\ limit >= InMi(env.limit)
       /\ IsEgress => request >= MinimumEgressGatewayMemory

\* A positive count that an int32 holds means itself to each of the three
\* readers of counts, written as an integer or as a string.
CountsAlike ==
  \A form \in {"int", "string"} : LET count == [form |-> form, n |-> cr.count.n]
    IN count.n > 0 /\ IsInt32(count.n) =>
         {Replicas(count), Concurrency(count), ValueOrDefault(count, env.count)} = {count.n}

\* GATEWAY_HPA_* are the administrator's, and nothing checks them.  Those built in
\* are in order; the ones of a policy by percent are not positive.
DefaultsInOrder ==
  LET hpa == env.hpa
  IN /\ {hpa.min, hpa.max, hpa.cpu} \subseteq 1 .. Half - 1 /\ hpa.min <= hpa.max
     /\ \A d \in {hpa.up, hpa.down} : {d.podsValue, d.podsPeriod} \subseteq 1 .. Half - 1

\* The API server accepts an HPA, whose numbers must be positive, with a policy
\* in each direction, and whose minimum must not exceed the maximum, if the
\* defaults in the operator's environment are in order, the numbers a CR gives
\* are positive, it gives both of a policy by percent, which have no usable
\* default, and both bounds, in order, or none.
HPAAccepted ==
  LET positive(count) == count.form # "other" /\ IsInt32(count.n) /\ count.n > 0
      given(p) == positive(p.value) /\ positive(p.period)
      pods(p) == p.type # "Percent" /\ \A c \in {p.value, p.period} : c.form = "other" \/ positive(c)
      bounded == \/ cr.hpa.min.form = "other" /\ cr.hpa.max.form = "other"
                 \/ /\ positive(cr.hpa.min) /\ positive(cr.hpa.max)
                    /\ cr.hpa.min.n <= cr.hpa.max.n
  IN /\ DefaultsInOrder /\ bounded
     /\ cr.hpa.cpu.form = "other" \/ positive(cr.hpa.cpu)
     /\ \A p \in ToSet(cr.hpa.up) \cup ToSet(cr.hpa.down) : given(p) \/ pods(p)
     =>
       /\ \A policies \in {HPA.up, HPA.down} :
            policies # <<>> /\ \A p \in ToSet(policies) : p.value > 0 /\ p.period > 0
       /\ 0 < HPA.min /\ HPA.min <= HPA.max /\ 0 < HPA.cpu

\* deletePodMonitor names the PodMonitor that applyPodMonitor has applied, and
\* another gateway's only if their names begin alike as far as a label goes.
MonitorDeleted ==
  /\ PodMonitor.name = ShortName(GatewayName, PodMonitorSuffix)
  /\ Len(PodMonitor.name) <= LabelLimit
  /\ \A h \in Heads : LET other == h.name \o GatewaySuffix IN
       PodMonitor.name = ShortName(other, PodMonitorSuffix) =>
         \A i \in 1 .. (LabelLimit - Len(PodMonitorSuffix)) :
           i \in DOMAIN other /\ i \in DOMAIN GatewayName => other[i] = GatewayName[i]

\* An apply keeps every owner the object has, adds its own once, and puts it
\* first.
OwnersUnion ==
  LET merged == MergeOwnerReferences(<<UID>>, found)
  IN /\ ToSet(merged) = {UID} \cup ToSet(found)
     /\ IsInjective(merged) /\ Head(merged) = UID

\* IsNewerThan, by which the kind of ingress is chosen, orders the versions as
\* numbers of three digits are ordered.
VersionOrder ==
  LET number(v) == 10000 * v.major + 100 * v.minor + v.patch
  IN \A e \in Environments : IsNewerThan(env.version, e.version)
       <=> number(env.version) > number(e.version)
=============================================================================
