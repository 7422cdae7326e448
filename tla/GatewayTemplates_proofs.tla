----------------------- MODULE GatewayTemplates_proofs -----------------------
(***************************************************************************)
(* Proofs about GatewayTemplates for every CR and environment that its     *)
(* assumptions admit, and any number of settings changed.                  *)
(***************************************************************************)
EXTENDS GatewayTemplates, SequenceTheorems, WellFoundedInduction, TLAPS

\* What a CR holds, and where its name and its lists come from.
CRTypes ==
  [name: Names, gateway: Names \cup {None}, type: STRING,
   port: Int, gatewayPorts: Seq(PortRecords), ingresses: IngressLists \cup {<<>>},
   limit: {m.limit : m \in MemorySettings} \cup {None},
   request: {m.request : m \in MemorySettings} \cup {None},
   count: CountRecords, hpa: HpaRecords]
Headed ==
  \E h \in Heads : cr.name = h.name /\ cr.gateway = h.gateway /\ cr.type = h.type

IInv ==
  /\ env \in Environments /\ cr \in CRTypes /\ Headed
  /\ found \in OwnerLists \cup {<<>>} /\ edits \in 0 .. MaxEdits

LEMMA InitIInv == ASSUME Init PROVE IInv
<1>1. PICK h \in Heads :
       cr = [name |-> h.name, gateway |-> h.gateway, type |-> h.type,
             port |-> Web, gatewayPorts |-> <<>>, ingresses |-> <<>>,
             limit |-> None, request |-> None, count |-> NoCount,
             hpa |-> NoHpa]
  BY DEF Init
<1>2. NoCount \in CountRecords
  BY DEF NoCount, CountRecords
<1>3. NoHpa \in HpaRecords
  BY <1>2 DEF NoHpa, HpaRecords
<1>4. h.name \in Names /\ h.gateway \in Names \cup {None} /\ h.type \in STRING
  BY CRAssumption
<1>5. cr \in CRTypes
  BY <1>1, <1>2, <1>3, <1>4 DEF CRTypes, Web
<1> QED BY <1>1, <1>5, EditsAssumption DEF Init, IInv, Headed

LEMMA EditKeeps ==
  ASSUME IInv, Edit,
         \/ found' \in OwnerLists /\ cr' = cr
         \/ /\ found' = found /\ cr' \in CRTypes /\ cr'.name = cr.name
            /\ cr'.gateway = cr.gateway /\ cr'.type = cr.type
  PROVE  IInv'
BY EditsAssumption DEF IInv, Edit, Headed

LEMMA NextIInv == IInv /\ [Next]_vars => IInv'
<1> SUFFICES ASSUME IInv, [Next]_vars PROVE IInv'
  OBVIOUS
<1>1. cr \in CRTypes
  BY DEF IInv
<1>2. CASE SetPorts
  <2>1. PICK p \in PortSettings :
          cr' = [cr EXCEPT !.port = p.port, !.gatewayPorts = p.gatewayPorts]
    BY <1>2 DEF SetPorts
  <2>2. p.port \in Int /\ p.gatewayPorts \in Seq(PortRecords)
    BY CRAssumption
  <2> QED BY <1>1, <1>2, <2>1, <2>2, EditKeeps DEF SetPorts, CRTypes
<1>3. CASE SetMemory
  <2>1. PICK m \in MemorySettings :
          cr' = [cr EXCEPT !.limit = m.limit, !.request = m.request]
    BY <1>3 DEF SetMemory
  <2> QED BY <1>1, <1>3, <2>1, EditKeeps DEF SetMemory, CRTypes
<1>4. CASE SetIngresses
  <2>1. PICK v \in IngressLists : cr' = [cr EXCEPT !.ingresses = v]
    BY <1>4 DEF SetIngresses, Set
  <2> QED BY <1>1, <1>4, <2>1, EditKeeps DEF SetIngresses, Set, CRTypes
<1>5. CASE SetCount
  <2>1. PICK v \in Counts : cr' = [cr EXCEPT !.count = v]
    BY <1>5 DEF SetCount, Set
  <2>2. v \in CountRecords
    BY CRAssumption
  <2> QED BY <1>1, <1>5, <2>1, <2>2, EditKeeps DEF SetCount, Set, CRTypes
<1>6. CASE SetHpa
  <2>1. PICK v \in Hpas : cr' = [cr EXCEPT !.hpa = v]
    BY <1>6 DEF SetHpa, Set
  <2>2. v \in HpaRecords
    BY CRAssumption
  <2> QED BY <1>1, <1>6, <2>1, <2>2, EditKeeps DEF SetHpa, Set, CRTypes
<1>7. CASE OwnObject
  BY <1>7, EditKeeps DEF OwnObject
<1>8. CASE UNCHANGED vars
  BY <1>8 DEF vars, IInv, Headed
<1> QED BY <1>2, <1>3, <1>4, <1>5, <1>6, <1>7, <1>8 DEF Next

LEMMA AlwaysIInv == Spec => []IInv
<1>1. Init => IInv
  BY InitIInv
<1> QED BY <1>1, NextIInv, PTL DEF Spec

-----------------------------------------------------------------------------
(* Counts                                                                  *)

LEMMA Int32Range == ASSUME NEW n \in Int PROVE Int32(n) \in Int32s
<1> DEFINE m == (n + Half) % (2 * Half)
<1>1. 2 * Half \in Nat \ {0} /\ n + Half \in Int
  BY HalfAssumption
<1>2. m \in 0 .. (2 * Half - 1)
  <2> DEFINE h == 2 * Half
             k == n + Half
  <2>1. h \in Nat \ {0} /\ k \in Int
    BY <1>1
  <2> HIDE DEF h, k
  <2>2. k % h \in 0 .. (h - 1)
    BY <2>1
  <2> QED BY <2>2 DEF h, k
<1>3. Int32(n) = m - Half
  BY DEF Int32
<1> HIDE DEF m
<1> QED BY <1>2, <1>3, HalfAssumption DEF Int32s

\* A number that fits is not cut.
LEMMA Int32Fits == ASSUME NEW n \in Int32s PROVE Int32(n) = n
<1> DEFINE h == 2 * Half
           k == n + Half
<1>1. h \in Nat \ {0} /\ k \in 0 .. (h - 1)
  BY HalfAssumption DEF Int32s
<1>2. Int32(n) = (k % h) - Half
  BY DEF Int32
<1>3. k - Half = n
  BY HalfAssumption DEF Int32s
<1> HIDE DEF h, k
<1>4. k % h = k
  BY <1>1
<1> QED BY <1>2, <1>3, <1>4

LEMMA ReplicasRange ==
  ASSUME IInv, NEW count \in CountRecords
  PROVE  Replicas(count) \in Int32s /\ ValueOrDefault(count, env.count) \in Int32s
<1>1. env.count \in Int32s
  BY EnvironmentAssumption DEF IInv
<1>2. count.n \in Int /\ Int32(count.n) \in Int32s
  BY Int32Range DEF CountRecords
<1> QED BY <1>1, <1>2 DEF Replicas, ValueOrDefault, IsInt32

\* Types: an integer of any size becomes an int32.
THEOREM TemplatesTypeCorrect == Spec => []TypeOK
<1>1. IInv => TypeOK
  <2> SUFFICES ASSUME IInv PROVE TypeOK
    OBVIOUS
  <2>1. cr.count \in CountRecords /\ cr.hpa \in HpaRecords
    BY DEF IInv, CRTypes
  <2>2. Replicas(cr.count) \in Int32s
    BY <2>1, ReplicasRange
  <2>3. cr.hpa.max \in CountRecords
    BY <2>1 DEF HpaRecords
  <2>4. cr.hpa.max.n \in Int
    BY <2>3 DEF CountRecords
  <2>5. env.hpa.max \in Int32s
    <3>1. DefaultNumbers(env.hpa) \subseteq Int32s
      BY EnvironmentAssumption DEF IInv
    <3> QED BY <3>1 DEF DefaultNumbers
  <2>6. ValueOrDefault(cr.hpa.max, env.hpa.max) \in Int32s
    BY <2>4, <2>5, Int32Range DEF ValueOrDefault, IsInt32
  <2> QED BY <2>2, <2>6 DEF IInv, Headed, TypeOK, IsInt32, Deployment, HPA, CRTypes
<1> QED BY <1>1, AlwaysIInv, PTL

\* The three readers of counts agree on a positive count that an int32 holds,
\* whatever the size of an int32 and the way the count is written.
THEOREM CountsReadAlike == Spec => []CountsAlike
<1>1. IInv => CountsAlike
  <2> SUFFICES ASSUME NEW form \in {"int", "string"}, cr.count.n > 0, IsInt32(cr.count.n)
               PROVE  LET count == [form |-> form, n |-> cr.count.n]
                      IN {Replicas(count), Concurrency(count),
                          ValueOrDefault(count, env.count)} = {cr.count.n}
    BY DEF CountsAlike
  <2>1. Int32(cr.count.n) = cr.count.n
    BY Int32Fits DEF IsInt32
  <2>2. cr.count.n # 0
    OBVIOUS
  <2> DEFINE count == [form |-> form, n |-> cr.count.n]
  <2>3. count.form = form /\ count.n = cr.count.n
    OBVIOUS
  <2> HIDE DEF count
  <2>4. /\ Replicas(count) = cr.count.n /\ Concurrency(count) = cr.count.n
        /\ ValueOrDefault(count, env.count) = cr.count.n
    BY <2>1, <2>2, <2>3 DEF Replicas, Concurrency, ValueOrDefault
  <2> QED BY <2>4 DEF count
<1> QED BY <1>1, AlwaysIInv, PTL

-----------------------------------------------------------------------------
(* Names                                                                   *)

\* A gateway is registered under the name its pods ask for, for CRs of any
\* name, gateway and type.
THEOREM RegisteredIsServed == Spec => []RegisteredAsServed
<1>1. RegisteredAsServed
  BY DEF RegisteredAsServed, ResolveGatewayServiceName, ServiceNameVariable, MeshService,
     Composite, GatewayName, GatewayType, EgressGateway, CoreEgressGateway,
     PublicGatewayService, PrivateGatewayService, InternalGatewayService
<1> QED BY <1>1, PTL

LEMMA SuffixNames ==
  /\ GatewaySuffix \in Names
  /\ PodMonitorSuffix \in Names /\ Len(PodMonitorSuffix) = 1
<1>1. ASSUME NEW word \in Words
      PROVE  <<word>> \in Names /\ Len(<<word>>) = 1
  BY DEF Names
<1>2. "gateway" \in Words /\ "monitor" \in Words
  BY WordsAssumption
<1> QED BY <1>1, <1>2 DEF GatewaySuffix, PodMonitorSuffix

LEMMA NameTypes ==
  ASSUME IInv
  PROVE  GatewayName \in Names /\ cr.name \in Names /\ PodMonitorSuffix \in Names
<1>1. cr.name \in Names /\ cr.gateway \in Names \cup {None}
  BY DEF IInv, CRTypes
<1>2. GatewaySuffix \in Names /\ PodMonitorSuffix \in Names
  BY SuffixNames
<1>3. cr.name \o GatewaySuffix \in Names
  BY <1>1, <1>2, ConcatProperties DEF Names
<1> QED BY <1>1, <1>2, <1>3 DEF GatewayName, Composite

\* A name that is cut is as long as a label may be, and begins as it did.
LEMMA ShortNames ==
  ASSUME NEW name \in Names
  PROVE  /\ ShortName(name, PodMonitorSuffix) \in Names
         /\ Len(ShortName(name, PodMonitorSuffix)) <= LabelLimit
         /\ \A i \in 1 .. LabelLimit - 1 :
              i \in DOMAIN name => ShortName(name, PodMonitorSuffix)[i] = name[i]
<1> DEFINE room == LabelLimit - 1
           head == SubSeq(name, 1, room)
<1>1. /\ PodMonitorSuffix \in Names /\ Len(PodMonitorSuffix) = 1
  BY SuffixNames
<1>2. /\ room \in Nat /\ LabelLimit \in Nat /\ Len(name) \in Nat
      /\ DOMAIN name = 1 .. Len(name)
  BY LabelAssumption DEF Names
<1>3. CASE Len(name) > room
  <2>1. Len(name) + Len(PodMonitorSuffix) > LabelLimit
    BY <1>1, <1>2, <1>3
  <2>2. ShortName(name, PodMonitorSuffix) = head \o PodMonitorSuffix
    BY <1>1, <2>1 DEF ShortName
  <2>3. \A i \in 1 .. room : name[i] \in Words
    BY <1>2, <1>3 DEF Names
  <2>4. /\ head \in Names /\ Len(head) = room
        /\ \A i \in 1 .. room : head[i] = name[i]
    <3>1. /\ head \in Seq(Words)
          /\ Len(head) = IF 1 <= room THEN room - 1 + 1 ELSE 0
          /\ \A i \in 1 .. room - 1 + 1 : head[i] = name[1 + i - 1]
      BY <1>2, <2>3, SubSeqProperties
    <3> QED BY <1>2, <3>1 DEF Names
  <2> HIDE DEF head, room
  <2>5. /\ head \o PodMonitorSuffix \in Names
        /\ Len(head \o PodMonitorSuffix) = room + 1
        /\ \A i \in 1 .. room : (head \o PodMonitorSuffix)[i] = head[i]
    <3>1. /\ head \o PodMonitorSuffix \in Seq(Words)
          /\ Len(head \o PodMonitorSuffix) = Len(head) + Len(PodMonitorSuffix)
          /\ \A i \in 1 .. Len(head) + Len(PodMonitorSuffix) :
               (head \o PodMonitorSuffix)[i] =
                 IF i <= Len(head) THEN head[i] ELSE PodMonitorSuffix[i - Len(head)]
      BY <1>1, <2>4, ConcatProperties DEF Names
    <3> QED BY <1>1, <1>2, <2>4, <3>1 DEF Names
  <2>6. room + 1 = LabelLimit
    BY <1>2 DEF room
  <2> QED BY <1>2, <2>2, <2>4, <2>5, <2>6 DEF room
<1>4. CASE ~(Len(name) > room)
  <2>1. ~(Len(name) + Len(PodMonitorSuffix) > LabelLimit)
    BY <1>1, <1>2, <1>4
  <2>2. ShortName(name, PodMonitorSuffix) = name \o PodMonitorSuffix
    BY <2>1 DEF ShortName
  <2>3. /\ name \o PodMonitorSuffix \in Names
        /\ Len(name \o PodMonitorSuffix) = Len(name) + 1
        /\ \A i \in 1 .. Len(name) : (name \o PodMonitorSuffix)[i] = name[i]
    BY <1>1, <1>2, ConcatProperties DEF Names
  <2>4. Len(name) + 1 <= LabelLimit
    BY <1>2, <1>4
  <2> QED BY <1>2, <2>2, <2>3, <2>4
<1> QED BY <1>3, <1>4

\* The PodMonitor is deleted under the name it was applied under, which is a
\* label, and shared only by gateways whose names begin alike.
THEOREM MonitorIsDeleted == Spec => []MonitorDeleted
<1>1. IInv => MonitorDeleted
  <2> SUFFICES ASSUME IInv PROVE MonitorDeleted
    OBVIOUS
  <2> DEFINE room == LabelLimit - 1
             mine == ShortName(GatewayName, PodMonitorSuffix)
  <2>1. PodMonitor.name = mine
    BY DEF PodMonitor, PodMonitorName, ShortName
  <2>2. GatewayName \in Names /\ LabelLimit \in Nat /\ Len(PodMonitorSuffix) = 1
    BY NameTypes, LabelAssumption, SuffixNames
  <2>3. /\ Len(mine) <= LabelLimit
        /\ \A i \in 1 .. room : i \in DOMAIN GatewayName => mine[i] = GatewayName[i]
    BY <2>2, ShortNames, LabelAssumption DEF Names
  <2>4. ASSUME NEW h \in Heads, mine = ShortName(h.name \o GatewaySuffix, PodMonitorSuffix),
               NEW i \in 1 .. room, i \in DOMAIN (h.name \o GatewaySuffix),
               i \in DOMAIN GatewayName
        PROVE  (h.name \o GatewaySuffix)[i] = GatewayName[i]
    <3>1. h.name \in Names /\ GatewaySuffix \in Names
      BY CRAssumption, SuffixNames
    <3>2. h.name \o GatewaySuffix \in Names
      BY <3>1, ConcatProperties DEF Names
    <3>3. mine[i] = (h.name \o GatewaySuffix)[i]
      BY <2>4, <3>2, ShortNames
    <3> QED BY <2>3, <2>4, <3>3
  <2> QED BY <2>1, <2>2, <2>3, <2>4 DEF MonitorDeleted
<1> QED BY <1>1, AlwaysIInv, PTL

-----------------------------------------------------------------------------
(* Memory and versions                                                     *)

\* An egress gateway's memory is the environment's or the minimum, and request
\* and limit keep their order.
THEOREM MemoryAlwaysFits == Spec => []MemoryFits
<1>1. IInv => MemoryFits
  <2>1. IInv => env.limit.n \in Nat /\ env.request.n \in Nat
    BY EnvironmentAssumption DEF IInv
  <2> QED BY <2>1, SettingsAssumption
      DEF MemoryFits, Memory, InMi, TrimMi, MinimumEgressGatewayMemory
<1> QED BY <1>1, AlwaysIInv, PTL

\* The comparison of versions is that of the numbers they make.
THEOREM VersionsOrdered == Spec => []VersionOrder
<1>1. IInv => VersionOrder
  <2> SUFFICES ASSUME IInv, NEW e \in Environments
               PROVE  IsNewerThan(env.version, e.version) <=>
                        10000 * env.version.major + 100 * env.version.minor
                          + env.version.patch
                        > 10000 * e.version.major + 100 * e.version.minor
                            + e.version.patch
    BY DEF VersionOrder
  <2> DEFINE a == env.version.major
             b == env.version.minor
             c == env.version.patch
             x == e.version.major
             y == e.version.minor
             z == e.version.patch
  <2>1. /\ a \in Nat /\ b \in 0 .. 99 /\ c \in 0 .. 99
        /\ x \in Nat /\ y \in 0 .. 99 /\ z \in 0 .. 99
    BY EnvironmentAssumption DEF IInv
  <2>2. IsNewerThan(env.version, e.version) <=>
          a > x \/ (a = x /\ b > y) \/ (a = x /\ b = y /\ c > z)
    BY DEF IsNewerThan
  <2> HIDE DEF a, b, c, x, y, z
  <2>3. a > x \/ (a = x /\ b > y) \/ (a = x /\ b = y /\ c > z)
          <=> 10000 * a + 100 * b + c > 10000 * x + 100 * y + z
    BY <2>1
  <2> QED BY <2>2, <2>3 DEF a, b, c, x, y, z
<1> QED BY <1>1, AlwaysIInv, PTL

-----------------------------------------------------------------------------
(* Ports                                                                   *)

LEMMA PortTypes ==
  ASSUME IInv
  PROVE  /\ cr.gatewayPorts = <<>> \/ cr.gatewayPorts \in Seq(PortRecords)
         /\ Len(cr.gatewayPorts) \in Nat
         /\ DOMAIN cr.gatewayPorts = 1 .. Len(cr.gatewayPorts)
         /\ cr.gatewayPorts # <<>> => cr.gatewayPorts[1] \in ToSet(cr.gatewayPorts)
         /\ \A p \in ToSet(cr.gatewayPorts) : p \in PortRecords
         /\ cr.port \in Int
<1>1. cr.gatewayPorts \in Seq(PortRecords) /\ cr.port \in Int
  BY DEF IInv, CRTypes
<1>2. /\ Len(cr.gatewayPorts) \in Nat
      /\ DOMAIN cr.gatewayPorts = 1 .. Len(cr.gatewayPorts)
      /\ \A i \in 1 .. Len(cr.gatewayPorts) : cr.gatewayPorts[i] \in PortRecords
  BY <1>1
<1>3. cr.gatewayPorts # <<>> => 1 \in DOMAIN cr.gatewayPorts
  BY <1>1, <1>2
<1> QED BY <1>1, <1>2, <1>3 DEF ToSet

\* The ports of an accepted Service are exposed by the container, whose own are
\* distinct unless the CR calls one of them admin, for any list of ports.
THEOREM PortsAreExposed == Spec => []PortsExposed
<1>1. PodMonitor.port = <<"admin">>
  BY DEF PodMonitor
<1>2. Port(PodMonitor.port, Admin) \in ContainerPorts
  BY <1>1 DEF ContainerPorts
<1>3. \A p \in ServicePorts : \E q \in ContainerPorts : q.port = p.target
  <2>1. CASE cr.gatewayPorts = <<>>
    BY <2>1 DEF ServicePorts, ContainerPorts, Port
  <2>2. CASE cr.gatewayPorts # <<>>
    <3>1. ASSUME NEW p \in ToSet(cr.gatewayPorts)
          PROVE  \E q \in ContainerPorts : q.port = p.port
      <4>1. CASE p.port = Admin
        <5>1. Port(<<"admin">>, Admin) \in ContainerPorts
          BY DEF ContainerPorts
        <5>2. Port(<<"admin">>, Admin).port = Admin
          BY DEF Port
        <5> QED BY <4>1, <5>1, <5>2
      <4>2. CASE p.port # Admin
        BY <2>2, <4>2 DEF ContainerPorts
      <4> QED BY <4>1, <4>2
    <3> QED BY <2>2, <3>1 DEF ServicePorts
  <2> QED BY <2>1, <2>2
<1>4. ASSUME IInv, Distinct(ServicePorts), \A p \in ServicePorts : p.name # <<"admin">>
      PROVE  Distinct(ContainerPorts)
  <2>1. CASE cr.gatewayPorts = <<>>
    BY <2>1 DEF ContainerPorts, Distinct, Port, Admin, Web
  <2>2. CASE cr.gatewayPorts # <<>>
    <3> DEFINE served(p) == [name |-> p.name, port |-> p.port, target |-> p.port]
    <3>1. ServicePorts = {served(p) : p \in ToSet(cr.gatewayPorts)}
      BY <2>2 DEF ServicePorts
    <3>2. ASSUME NEW p \in ToSet(cr.gatewayPorts), NEW q \in ToSet(cr.gatewayPorts), p # q
          PROVE  p.name # q.name /\ p.port # q.port
      <4>1. p \in PortRecords /\ q \in PortRecords
        BY <1>4, PortTypes
      <4>2. p.name # q.name \/ p.port # q.port
        BY <3>2, <4>1 DEF PortRecords
      <4>3. served(p) # served(q)
        BY <4>2
      <4>4. served(p) \in ServicePorts /\ served(q) \in ServicePorts
        BY <3>1
      <4> HIDE DEF served
      <4>5. served(p).name # served(q).name /\ served(p).port # served(q).port
        BY <1>4, <4>3, <4>4 DEF Distinct
      <4> QED BY <4>5 DEF served
    <3>3. ASSUME NEW p \in ToSet(cr.gatewayPorts)
          PROVE  p.name # <<"admin">>
      <4>1. served(p) \in ServicePorts
        BY <3>1
      <4> QED BY <1>4, <4>1
    <3> QED BY <2>2, <3>2, <3>3 DEF ContainerPorts, Distinct, Port
  <2> QED BY <2>1, <2>2
<1>5. IInv => PortsExposed
  BY <1>2, <1>3, <1>4 DEF PortsExposed
<1> QED BY <1>5, AlwaysIInv, PTL

LEMMA BackendIsServed ==
  ASSUME IInv,
         \A i \in DOMAIN cr.ingresses : cr.ingresses[i].port = 0,
         \A p \in ServicePorts : p.port > 0,
         cr.name # CoreEgressGateway,
         NEW b \in Ingresses,
         b.kind = "Route" => cr.gatewayPorts # <<>> \/ cr.port = Web
  PROVE  \E s \in Services : \E p \in s.ports :
           /\ s.name = b.service
           /\ b.port = IF b.kind = "Route" THEN p.target ELSE p.port
<1>1. PICK spec \in ToSet(cr.ingresses) :
        /\ ResolveGatewayPort(spec) # Unresolved
        /\ b \in {LegacyIngress(IngressTemplate(spec)), K8sHTTPRoute(IngressTemplate(spec))}
  BY DEF Ingresses
<1>2. GatewayType = "ingress" /\ spec.port = 0
  BY DEF Ingresses, ToSet
<1>3. b.service = cr.name /\ b.port = ResolveGatewayPort(spec)
  <2>1. ResolveGatewayServiceName = cr.name
    BY <1>2 DEF ResolveGatewayServiceName
  <2> QED BY <1>1, <2>1 DEF LegacyIngress, IngressTemplate, K8sIngress, K8sBetaIngress,
      K8sHTTPRoute, OpenshiftRoute, Backend
<1>4. Service(cr.name) \in Services
  BY DEF Services
<1>5. Service(cr.name).name = cr.name /\ Service(cr.name).ports = ServicePorts
  BY DEF Service
<1>6. \E p \in ServicePorts : b.port = IF b.kind = "Route" THEN p.target ELSE p.port
  <2>1. CASE cr.gatewayPorts = <<>>
    <3>1. ServicePorts = {[name |-> <<"web">>, port |-> cr.port, target |-> Web]}
      BY <2>1 DEF ServicePorts
    <3>2. cr.port > 0
      BY <3>1
    <3>3. ResolveGatewayPort(spec) = cr.port
      BY <1>2, <2>1, <3>2 DEF ResolveGatewayPort
    <3> QED BY <1>3, <2>1, <3>1, <3>3
  <2>2. CASE cr.gatewayPorts # <<>>
    <3> DEFINE p == cr.gatewayPorts[1]
               served == [name |-> p.name, port |-> p.port, target |-> p.port]
    <3>1. p \in ToSet(cr.gatewayPorts)
      BY <2>2, PortTypes
    <3>2. served \in ServicePorts
      BY <2>2, <3>1 DEF ServicePorts
    <3>3. p.port > 0
      <4>1. served.port > 0
        BY <3>2
      <4> QED BY <4>1
    <3>4. ResolveGatewayPort(spec) = p.port
      <4>1. ~(spec.port > 0) /\ ~(Len(cr.gatewayPorts) > 1)
        BY <1>1, <1>2 DEF ResolveGatewayPort
      <4> QED BY <2>2, <3>3, <4>1 DEF ResolveGatewayPort
    <3>5. b.port = served.port /\ b.port = served.target
      BY <1>3, <3>4
    <3> HIDE DEF served
    <3> QED BY <3>2, <3>5
  <2> QED BY <2>1, <2>2
<1> QED BY <1>3, <1>4, <1>5, <1>6

\* An ingress without a port of its own leads to a Service that is applied, and
\* to a port it has, for any list of ports and of ingresses.
THEOREM BackendsAreServed == Spec => []BackendsServed
<1>1. IInv => BackendsServed
  BY BackendIsServed DEF BackendsServed
<1> QED BY <1>1, AlwaysIInv, PTL

-----------------------------------------------------------------------------
(* The HPA                                                                 *)

\* A positive number of a CR is taken as it is.
LEMMA GivenValue ==
  ASSUME NEW count \in CountRecords, NEW default \in 1 .. Half - 1,
         \/ count.form = "other"
         \/ count.form # "other" /\ IsInt32(count.n) /\ count.n > 0
  PROVE  /\ ValueOrDefault(count, default) \in Int
         /\ ValueOrDefault(count, default) > 0
         /\ count.form # "other" => ValueOrDefault(count, default) = count.n
         /\ count.form = "other" => ValueOrDefault(count, default) = default
<1>1. count.n \in Int /\ count.form \in {"int", "string", "other"}
  BY DEF CountRecords
<1>2. CASE count.form = "other"
  BY <1>2, HalfAssumption DEF ValueOrDefault
<1>3. CASE count.form # "other"
  <2>1. Int32(count.n) = count.n
    BY <1>3, Int32Fits DEF IsInt32
  <2> QED BY <1>1, <1>3, <2>1 DEF ValueOrDefault
<1> QED BY <1>2, <1>3

LEMMA PoliciesInOrder ==
  ASSUME NEW policies \in Seq(PolicyRecords), NEW d,
         {d.podsValue, d.podsPeriod} \subseteq 1 .. Half - 1,
         {d.percentValue, d.percentPeriod} \subseteq Int32s,
         \A i \in DOMAIN policies :
           \A c \in {policies[i].value, policies[i].period} :
             \/ c.form # "other" /\ IsInt32(c.n) /\ c.n > 0
             \/ c.form = "other" /\ policies[i].type # "Percent"
  PROVE  /\ BehaviorPolicies(policies, d) # <<>>
         /\ \A p \in ToSet(BehaviorPolicies(policies, d)) : p.value > 0 /\ p.period > 0
<1>1. CASE policies = <<>>
  <2> DEFINE only == [type |-> "Pods", value |-> d.podsValue, period |-> d.podsPeriod]
  <2>1. BehaviorPolicies(policies, d) = <<only>>
    BY <1>1 DEF BehaviorPolicies
  <2>2. ToSet(<<only>>) = {only} /\ <<only>> # <<>>
    BY DEF ToSet
  <2>3. only.value > 0 /\ only.period > 0
    BY HalfAssumption
  <2> HIDE DEF only
  <2> QED BY <2>1, <2>2, <2>3
<1>2. CASE policies # <<>>
  <2> DEFINE type(i) == PolicyType(policies[i].type)
             value(i) == ValueOrDefault(policies[i].value,
                           DefaultByPolicyType(type(i), d.podsValue, d.percentValue))
             period(i) == ValueOrDefault(policies[i].period,
                            DefaultByPolicyType(type(i), d.podsPeriod, d.percentPeriod))
             built == [i \in DOMAIN policies |->
                         [type |-> type(i), value |-> value(i), period |-> period(i)]]
  <2>1. BehaviorPolicies(policies, d) = built
    BY <1>2 DEF BehaviorPolicies
  <2>2. DOMAIN policies = 1 .. Len(policies) /\ 1 \in DOMAIN policies
    BY <1>2
  <2>3. ASSUME NEW i \in DOMAIN policies
        PROVE  value(i) > 0 /\ period(i) > 0
    <3> DEFINE p == policies[i]
    <3>1. p \in PolicyRecords
      BY <2>2
    <3>2. p.value \in CountRecords /\ p.period \in CountRecords
      BY <3>1 DEF PolicyRecords
    <3>3. CASE p.type = "Percent"
      <4>1. /\ p.value.form # "other" /\ IsInt32(p.value.n) /\ p.value.n > 0
            /\ p.period.form # "other" /\ IsInt32(p.period.n) /\ p.period.n > 0
        BY <3>3
      <4>2. ASSUME NEW c \in CountRecords, c.form # "other", IsInt32(c.n), c.n > 0, NEW x
            PROVE  ValueOrDefault(c, x) > 0
        <5>1. Int32(c.n) = c.n
          BY <4>2, Int32Fits DEF IsInt32
        <5> QED BY <4>2, <5>1 DEF ValueOrDefault, CountRecords
      <4> QED BY <3>2, <4>1, <4>2
    <3>4. CASE p.type # "Percent"
      <4>1. type(i) = "Pods"
        BY <3>4 DEF PolicyType
      <4>2. /\ DefaultByPolicyType(type(i), d.podsValue, d.percentValue) = d.podsValue
            /\ DefaultByPolicyType(type(i), d.podsPeriod, d.percentPeriod) = d.podsPeriod
        BY <4>1 DEF DefaultByPolicyType
      <4>3. /\ ValueOrDefault(p.value, d.podsValue) > 0
            /\ ValueOrDefault(p.period, d.podsPeriod) > 0
        BY <3>2, GivenValue
      <4> QED BY <4>2, <4>3
    <3> QED BY <3>3, <3>4
  <2> HIDE DEF value, period, type
  <2>4. \A p \in ToSet(built) : p.value > 0 /\ p.period > 0
    BY <2>3 DEF ToSet
  <2>5. DOMAIN built # {}
    BY <2>2
  <2> QED BY <2>1, <2>4, <2>5
<1> QED BY <1>1, <1>2

\* An HPA whose settings the CR gives in order and in full is accepted, for any
\* list of policies and any width of the numbers, whatever defaults in order the
\* administrator has set.
THEOREM HPAIsAccepted == Spec => []HPAAccepted
<1> DEFINE positive(count) == count.form # "other" /\ IsInt32(count.n) /\ count.n > 0
           given(p) == positive(p.value) /\ positive(p.period)
           pods(p) == p.type # "Percent"
                        /\ \A c \in {p.value, p.period} : c.form = "other" \/ positive(c)
           bounded == \/ cr.hpa.min.form = "other" /\ cr.hpa.max.form = "other"
                      \/ /\ positive(cr.hpa.min) /\ positive(cr.hpa.max)
                         /\ cr.hpa.min.n <= cr.hpa.max.n
<1>1. ASSUME IInv, DefaultsInOrder, bounded,
             cr.hpa.cpu.form = "other" \/ positive(cr.hpa.cpu),
             \A p \in ToSet(cr.hpa.up) \cup ToSet(cr.hpa.down) : given(p) \/ pods(p)
      PROVE  /\ \A policies \in {HPA.up, HPA.down} :
                  policies # <<>> /\ \A p \in ToSet(policies) : p.value > 0 /\ p.period > 0
             /\ 0 < HPA.min /\ HPA.min <= HPA.max /\ 0 < HPA.cpu
  <2>1. cr.hpa \in HpaRecords
    BY <1>1 DEF IInv, CRTypes
  <2>2. /\ cr.hpa.min \in CountRecords /\ cr.hpa.max \in CountRecords
        /\ cr.hpa.cpu \in CountRecords
        /\ cr.hpa.up \in Seq(PolicyRecords) /\ cr.hpa.down \in Seq(PolicyRecords)
    BY <2>1 DEF HpaRecords
  <2>3. /\ DefaultsInOrder
        /\ \A d \in {env.hpa.up, env.hpa.down} :
             {d.percentValue, d.percentPeriod} \subseteq Int32s
    <3>1. DefaultNumbers(env.hpa) \subseteq Int32s
      BY <1>1, EnvironmentAssumption DEF IInv
    <3> QED BY <1>1, <3>1 DEF DefaultNumbers
  <2>4. 0 < HPA.min /\ HPA.min <= HPA.max /\ 0 < HPA.cpu
    <3>1. /\ HPA.min = ValueOrDefault(cr.hpa.min, env.hpa.min)
          /\ HPA.max = ValueOrDefault(cr.hpa.max, env.hpa.max)
          /\ HPA.cpu = ValueOrDefault(cr.hpa.cpu, env.hpa.cpu)
      BY DEF HPA
    <3>2. /\ env.hpa.min \in 1 .. Half - 1 /\ env.hpa.max \in 1 .. Half - 1
          /\ env.hpa.cpu \in 1 .. Half - 1 /\ env.hpa.min <= env.hpa.max
      BY <2>3 DEF DefaultsInOrder
    <3> QED BY <1>1, <2>2, <3>1, <3>2, GivenValue
  <2>5. ASSUME NEW policies \in {cr.hpa.up, cr.hpa.down}, NEW i \in DOMAIN policies,
               NEW c \in {policies[i].value, policies[i].period}
        PROVE  \/ c.form # "other" /\ IsInt32(c.n) /\ c.n > 0
               \/ c.form = "other" /\ policies[i].type # "Percent"
    <3>1. policies[i] \in ToSet(cr.hpa.up) \cup ToSet(cr.hpa.down)
      BY DEF ToSet
    <3> QED BY <1>1, <3>1
  <2>6. HPA.up = BehaviorPolicies(cr.hpa.up, env.hpa.up)
        /\ HPA.down = BehaviorPolicies(cr.hpa.down, env.hpa.down)
    BY DEF HPA
  <2>7. /\ HPA.up # <<>> /\ \A p \in ToSet(HPA.up) : p.value > 0 /\ p.period > 0
        /\ HPA.down # <<>> /\ \A p \in ToSet(HPA.down) : p.value > 0 /\ p.period > 0
    BY <2>2, <2>3, <2>5, <2>6, PoliciesInOrder DEF DefaultsInOrder
  <2> QED BY <2>4, <2>7
<1>2. IInv => HPAAccepted
  BY <1>1 DEF HPAAccepted
<1> QED BY <1>2, AlwaysIInv, PTL

-----------------------------------------------------------------------------
(* Induction over the indices of a list: the least element of a set of     *)
(* numbers stands for the theorems that take a predicate.                  *)

Less == {ss \in Nat \X Nat : ss[1] < ss[2]}

LEMMA LessWellFounded == IsWellFoundedOn(Less, Nat)
BY NatLessThanWellFounded, Zenon DEF OpToRel, Less

\* A set of numbers that is not empty has a least one.
LEMMA Least ==
  ASSUME NEW S, S \subseteq Nat, S # {}
  PROVE  \E n \in S : \A m \in S : n <= m
<1>1. PICK n \in S : \A m \in S : <<m, n>> \notin Less
  BY WFMin, LessWellFounded
<1>2. ASSUME NEW m \in S PROVE ~(m < n)
  <2>1. <<m, n>> \in Nat \X Nat /\ <<m, n>>[1] = m /\ <<m, n>>[2] = n
    OBVIOUS
  <2> QED BY <1>1, <2>1 DEF Less
<1> QED BY <1>2

\* Induction up to a bound, on a set of the numbers that have a property.
LEMMA Induction ==
  ASSUME NEW n \in Nat, NEW S, 0 \in S, \A i \in 1 .. n : i - 1 \in S => i \in S
  PROVE  0 .. n \subseteq S
<1> DEFINE rest == (0 .. n) \ S
<1> SUFFICES ASSUME rest # {} PROVE FALSE
  OBVIOUS
<1>1. rest \subseteq Nat
  OBVIOUS
<1>2. PICK i \in rest : \A m \in rest : i <= m
  <2> HIDE DEF rest
  <2> QED BY <1>1, Least
<1>3. i \in 1 .. n /\ i - 1 \in 0 .. n
  OBVIOUS
<1>4. i - 1 \notin rest
  BY <1>2, <1>3
<1> QED BY <1>3, <1>4

Steps(n, T) == [1 .. n -> [T -> T]]
Solves(f, n, base, step) == f[0] = base /\ \A i \in 1 .. n : f[i] = step[i][f[i - 1]]

\* The equation of a function that is defined along the numbers has a solution.
LEMMA Recursion ==
  ASSUME NEW n \in Nat, NEW T, NEW base \in T, NEW step \in Steps(n, T)
  PROVE  \E f \in [0 .. n -> T] : Solves(f, n, base, step)
<1> DEFINE Sol(k, f) == Solves(f, k, base, step)
           S == {k \in 0 .. n : \E f \in [0 .. n -> T] : Sol(k, f)}
<1>1. 0 \in S
  <2>1. [i \in 0 .. n |-> base] \in [0 .. n -> T] /\ Sol(0, [i \in 0 .. n |-> base])
    BY DEF Solves
  <2> HIDE DEF Sol
  <2>2. 0 \in 0 .. n
    OBVIOUS
  <2> QED BY <2>1, <2>2
<1>2. ASSUME NEW k \in 1 .. n, k - 1 \in S PROVE k \in S
  <2>1. PICK f \in [0 .. n -> T] : Sol(k - 1, f)
    BY <1>2
  <2> DEFINE x == step[k][f[k - 1]]
             g == [f EXCEPT ![k] = x]
  <2>2. x \in T
    <3>1. k - 1 \in 0 .. n
      OBVIOUS
    <3>2. f[k - 1] \in T /\ step[k] \in [T -> T]
      BY <3>1 DEF Steps
    <3> QED BY <3>2
  <2>3. g \in [0 .. n -> T] /\ g[k] = x /\ \A i \in 0 .. k - 1 : g[i] = f[i]
    <3> HIDE DEF x
    <3> QED BY <2>2
  <2>4. Sol(k, g)
    <3> HIDE DEF g
    <3>1. g[0] = base /\ \A i \in 1 .. k - 1 : g[i] = step[i][g[i - 1]]
      BY <2>1, <2>3 DEF Solves
    <3>2. g[k] = step[k][g[k - 1]]
      BY <2>3
    <3> QED BY <3>1, <3>2 DEF Solves
  <2> HIDE DEF g, Sol
  <2>5. k \in 0 .. n
    OBVIOUS
  <2> QED BY <2>3, <2>4, <2>5
<1>3. n \in S
  <2> HIDE DEF S
  <2>1. 0 .. n \subseteq S
    BY <1>1, <1>2, Induction
  <2> QED BY <2>1
<1> QED BY <1>3
-----------------------------------------------------------------------------
(* The owners of an object                                                 *)

\* f is what MergeOwnerReferences has after each of the others.
Merged(refs, others, f) ==
  f = [i \in 0 .. Len(others) |->
        IF i = 0 THEN refs
        ELSE IF Contains(f[i - 1], others[i]) THEN f[i - 1]
        ELSE Append(f[i - 1], others[i])]

\* MergeOwnerReferences satisfies its own equation.
LEMMA MergeIsDefined ==
  ASSUME NEW U, NEW refs \in Seq(U), NEW others \in Seq(U)
  PROVE  \E f : Merged(refs, others, f) /\ MergeOwnerReferences(refs, others) = f[Len(others)]
<1> DEFINE n == Len(others)
           add(s, x) == IF Contains(s, x) THEN s ELSE Append(s, x)
           step == [i \in 1 .. n |-> [s \in Seq(U) |-> add(s, others[i])]]
<1>1. n \in Nat /\ \A i \in 1 .. n : others[i] \in U
  OBVIOUS
<1>2. ASSUME NEW i \in 1 .. n, NEW s \in Seq(U) PROVE add(s, others[i]) \in Seq(U)
  BY <1>1
<1>3. step \in Steps(n, Seq(U))
  <2> HIDE DEF add
  <2> QED BY <1>2 DEF Steps
<1>4. PICK f \in [0 .. n -> Seq(U)] : Solves(f, n, refs, step)
  <2> HIDE DEF step, n
  <2> QED BY <1>1, <1>3, Recursion
<1>5. ASSUME NEW i \in 0 .. n
      PROVE  f[i] = IF i = 0 THEN refs ELSE add(f[i - 1], others[i])
  <2> SUFFICES ASSUME i # 0 PROVE f[i] = add(f[i - 1], others[i])
    BY <1>4 DEF Solves
  <2>1. i \in 1 .. n /\ f[i - 1] \in Seq(U)
    BY <1>1
  <2> HIDE DEF add
  <2>2. step[i][f[i - 1]] = add(f[i - 1], others[i])
    BY <2>1
  <2> QED BY <1>4, <2>1, <2>2 DEF Solves
<1>6. f = [i \in 0 .. n |-> IF i = 0 THEN refs ELSE add(f[i - 1], others[i])]
  <2> HIDE DEF add
  <2> QED BY <1>5
<1>7. Merged(refs, others, f)
  BY <1>6 DEF Merged
<1> DEFINE g == CHOOSE h : Merged(refs, others, h)
<1>8. Merged(refs, others, g)
  BY <1>7
<1>9. MergeOwnerReferences(refs, others) = g[n]
  BY DEF MergeOwnerReferences, Merged
<1> QED BY <1>8, <1>9

\* What adding an owner that is not among them does.
LEMMA AppendNew ==
  ASSUME NEW U, NEW s \in Seq(U), NEW x \in U, s # <<>>, IsInjective(s), ~Contains(s, x)
  PROVE  LET t == Append(s, x)
         IN /\ t \in Seq(U) /\ t # <<>> /\ Head(t) = Head(s)
            /\ IsInjective(t) /\ ToSet(t) = ToSet(s) \cup {x}
<1> DEFINE t == Append(s, x)
           n == Len(s)
<1>1. /\ t \in Seq(U) /\ n \in Nat \ {0} /\ Len(t) = n + 1
      /\ t[n + 1] = x /\ \A i \in 1 .. n : t[i] = s[i]
      /\ DOMAIN s = 1 .. n /\ DOMAIN t = 1 .. n + 1
  BY AppendProperties
<1>2. \A i \in 1 .. n : s[i] # x
  BY DEF Contains
<1> HIDE DEF t, n
<1>3. t # <<>> /\ Head(t) = Head(s)
  BY <1>1
<1>4. IsInjective(t)
  BY <1>1, <1>2 DEF IsInjective
<1>5. ToSet(t) = ToSet(s) \cup {x}
  BY <1>1 DEF ToSet
<1> QED BY <1>1, <1>3, <1>4, <1>5 DEF t

\* The owners that are merged: those before, in front, and each new one once.
LEMMA MergeAddsOwners ==
  ASSUME NEW U, NEW refs \in Seq(U), IsInjective(refs), refs # <<>>, NEW others \in Seq(U)
  PROVE  LET merged == MergeOwnerReferences(refs, others)
         IN /\ merged \in Seq(U) /\ IsInjective(merged) /\ Head(merged) = Head(refs)
            /\ ToSet(merged) = ToSet(refs) \cup ToSet(others)
<1> DEFINE n == Len(others)
           owners(i) == ToSet(refs) \cup {others[j] : j \in 1 .. i}
           good(s, i) == /\ s \in Seq(U) /\ IsInjective(s) /\ s # <<>> /\ Head(s) = Head(refs)
                         /\ ToSet(s) = owners(i)
<1>1. n \in Nat /\ \A i \in 1 .. n : others[i] \in U
  OBVIOUS
<1>2. PICK f : Merged(refs, others, f) /\ MergeOwnerReferences(refs, others) = f[n]
  BY MergeIsDefined
<1>3. f[0] = refs
  BY <1>1, <1>2 DEF Merged
<1>4. ASSUME NEW i \in 1 .. n
      PROVE  f[i] = IF Contains(f[i - 1], others[i]) THEN f[i - 1] ELSE Append(f[i - 1], others[i])
  <2>1. i \in 0 .. n /\ i # 0
    OBVIOUS
  <2> DEFINE add(j) == IF Contains(f[j - 1], others[j]) THEN f[j - 1]
                       ELSE Append(f[j - 1], others[j])
  <2>2. f = [j \in 0 .. n |-> IF j = 0 THEN refs ELSE add(j)]
    BY <1>2 DEF Merged
  <2> HIDE DEF add, n
  <2>3. f[i] = add(i)
    BY <2>1, <2>2
  <2> QED BY <2>3 DEF add
<1>5. good(f[0], 0)
  BY <1>3
<1>6. ASSUME NEW i \in 1 .. n, good(f[i - 1], i - 1) PROVE good(f[i], i)
  <2> DEFINE s == f[i - 1]
  <2>1. owners(i) = owners(i - 1) \cup {others[i]}
    BY <1>1
  <2>2. CASE Contains(s, others[i])
    <3>1. others[i] \in ToSet(s)
      BY <2>2, <1>6 DEF Contains, ToSet
    <3> HIDE DEF owners
    <3> QED BY <1>4, <1>6, <2>1, <2>2, <3>1
  <2>3. CASE ~Contains(s, others[i])
    <3>1. f[i] = Append(s, others[i])
      BY <1>4, <2>3
    <3> HIDE DEF owners, s
    <3>2. others[i] \in U /\ s \in Seq(U) /\ s # <<>> /\ IsInjective(s)
      BY <1>1, <1>6 DEF s
    <3> QED BY <1>6, <2>1, <2>3, <3>1, <3>2, AppendNew DEF s
  <2> QED BY <2>2, <2>3
<1>7. good(f[n], n)
  <2> DEFINE S == {i \in 0 .. n : good(f[i], i)}
  <2> HIDE DEF good
  <2>1. 0 \in S /\ \A i \in 1 .. n : i - 1 \in S => i \in S
    BY <1>1, <1>5, <1>6
  <2> HIDE DEF S, n
  <2>2. 0 .. n \subseteq S
    BY <1>1, <2>1, Induction
  <2>3. n \in S
    BY <1>1, <2>2
  <2> QED BY <2>3 DEF S
<1>8. owners(n) = ToSet(refs) \cup ToSet(others)
  BY DEF ToSet
<1> HIDE DEF owners, n
<1> QED BY <1>2, <1>7, <1>8

\* An apply keeps every owner of the object, adds its own once and puts it
\* first, for lists of owners of any length, repetitions included.
THEOREM OwnersAreUnited == Spec => []OwnersUnion
<1>1. ASSUME IInv PROVE OwnersUnion
  <2> DEFINE U == {UID} \cup ToSet(found)
  <2>1. found \in Seq(ToSet(found))
    <3>1. CASE found = <<>>
      BY <3>1
    <3>2. CASE found \in OwnerLists
      BY <3>2, OwnersAssumption
    <3> QED BY <1>1, <3>1, <3>2 DEF IInv
  <2>2. found \in Seq(U)
    BY <2>1, SeqMonotonic
  <2>3. <<UID>> \in Seq(U) /\ <<UID>> # <<>> /\ Head(<<UID>>) = UID
    OBVIOUS
  <2>4. IsInjective(<<UID>>) /\ ToSet(<<UID>>) = {UID}
    BY DEF IsInjective, ToSet
  <2> HIDE DEF U
  <2> QED BY <2>2, <2>3, <2>4, MergeAddsOwners DEF OwnersUnion
<1>2. IInv => OwnersUnion
  BY <1>1
<1> QED BY <1>2, AlwaysIInv, PTL

-----------------------------------------------------------------------------
(* The names of ingresses                                                  *)

\* The first port of that number gives its name.
LEMMA PortNameResolved ==
  ASSUME cr.gatewayPorts \in Seq(PortRecords), NEW port,
         \E i \in DOMAIN cr.gatewayPorts : cr.gatewayPorts[i].port = port
  PROVE  \E i \in DOMAIN cr.gatewayPorts :
           cr.gatewayPorts[i].port = port /\ ResolvePortName(port) = cr.gatewayPorts[i].name
<1> DEFINE I == {i \in 1 .. Len(cr.gatewayPorts) : cr.gatewayPorts[i].port = port}
<1>1. I # {} /\ I \subseteq Nat
  OBVIOUS
<1> HIDE DEF I
<1>2. \E i \in I : \A j \in I : i <= j
  BY <1>1, Least
<1>3. Min(I) \in I
  BY <1>2 DEF Min
<1>4. Min(I) \in DOMAIN cr.gatewayPorts /\ cr.gatewayPorts[Min(I)].port = port /\ Min(I) # 0
  BY <1>3 DEF I
<1>5. SelectInSeq(cr.gatewayPorts, LAMBDA p : p.port = port) = Min(I)
  BY <1>1 DEF SelectInSeq, I
<1> QED BY <1>4, <1>5 DEF ResolvePortName

\* The port of the Service that an ingress leads to has the name resolved.
LEMMA PortKnown ==
  ASSUME IInv, NEW port, \E p \in ServicePorts : p.port = port
  PROVE  /\ \E p \in ServicePorts : p.port = port /\ p.name = ResolvePortName(port)
         /\ ResolvePortName(port) \in Seq(Words \cup {"web"})
<1>1. cr.gatewayPorts \in Seq(PortRecords)
  BY DEF IInv, CRTypes
<1>2. CASE cr.gatewayPorts = <<>>
  <2>1. SelectInSeq(cr.gatewayPorts, LAMBDA p : p.port = port) = 0
    BY <1>2 DEF SelectInSeq
  <2>2. ResolvePortName(port) = <<"web">>
    BY <2>1 DEF ResolvePortName
  <2>3. ServicePorts = {[name |-> <<"web">>, port |-> cr.port, target |-> Web]}
    BY <1>2 DEF ServicePorts
  <2> QED BY <2>2, <2>3
<1>3. CASE cr.gatewayPorts # <<>>
  <2> DEFINE served(p) == [name |-> p.name, port |-> p.port, target |-> p.port]
  <2>1. ServicePorts = {served(p) : p \in ToSet(cr.gatewayPorts)}
    BY <1>3 DEF ServicePorts
  <2>2. \E i \in DOMAIN cr.gatewayPorts : cr.gatewayPorts[i].port = port
    BY <2>1 DEF ToSet
  <2>3. PICK i \in DOMAIN cr.gatewayPorts :
          cr.gatewayPorts[i].port = port /\ ResolvePortName(port) = cr.gatewayPorts[i].name
    BY <1>1, <2>2, PortNameResolved
  <2>4. served(cr.gatewayPorts[i]) \in ServicePorts
    BY <2>1, <2>3 DEF ToSet
  <2>5. cr.gatewayPorts[i].name \in Seq(Words)
    <3>1. cr.gatewayPorts[i] \in PortRecords
      BY <1>1, <2>3
    <3> QED BY <3>1 DEF PortRecords, Names
  <2>6. cr.gatewayPorts[i].name \in Seq(Words \cup {"web"})
    BY <2>5, SeqMonotonic
  <2> QED BY <2>3, <2>4, <2>6
<1> QED BY <1>2, <1>3

\* Two names of one service differ if their ports' names do, none of which ends
\* in w, or if only one of them has w put behind.
Joined(n, p, x) == n \o p \o x
Ending(p, x, w, W) == p \in Seq(W) /\ Last(p) # w /\ x \in {<<>>, <<w>>}
LEMMA NamesApart ==
  ASSUME NEW W, NEW n \in Seq(W), NEW w \in W, NEW p, NEW q, NEW x, NEW y,
         Ending(p, x, w, W), Ending(q, y, w, W), p # q \/ x # y
  PROVE  Joined(n, p, x) # Joined(n, q, y)
<1> USE DEF Ending
<1>1. x \in Seq(W) /\ y \in Seq(W) /\ <<w>> \in Seq(W)
  <2>1. <<w>> \in Seq(W) /\ <<>> \in Seq(W)
    OBVIOUS
  <2> QED BY <2>1
<1>2. ASSUME NEW s \in Seq(W), NEW t \in Seq(W) PROVE (n \o s) \o t = n \o (s \o t)
  BY ConcatAssociative
<1> SUFFICES ASSUME n \o p \o x = n \o q \o y PROVE FALSE
  BY DEF Joined
<1>3. p \o x = q \o y
  <2>1. n \o (p \o x) = n \o (q \o y)
    BY <1>1, <1>2
  <2>2. p \o x \in Seq(W) /\ q \o y \in Seq(W)
    BY <1>1, ConcatProperties
  <2>3. ASSUME NEW s \in Seq(W), NEW t \in Seq(W), n \o s = n \o t PROVE s = t
    BY <2>3, ConcatSimplifications
  <2> QED BY <2>1, <2>2, <2>3
<1>4. ASSUME NEW s \in Seq(W)
      PROVE  /\ s \o <<>> = s
             /\ Len(s \o <<w>>) = Len(s) + 1 /\ Len(s) \in Nat
             /\ (s \o <<w>>)[Len(s) + 1] = w
  BY <1>1, ConcatEmptySeq, ConcatProperties
<1>5. CASE x = y
  BY <1>1, <1>3, <1>5, ConcatSimplifications
<1>6. CASE x = <<w>> /\ y = <<>>
  <2>1. p \o <<w>> = q
    BY <1>3, <1>4, <1>6
  <2> QED BY <1>4, <2>1 DEF Last
<1>7. CASE x = <<>> /\ y = <<w>>
  <2>1. q \o <<w>> = p
    BY <1>3, <1>4, <1>7
  <2> QED BY <1>4, <2>1 DEF Last
<1> QED BY <1>5, <1>6, <1>7

\* Ingresses of a CR that lead to different ports, or one of which is for gRPC,
\* have different names, whatever their number, the ports and their names.
THEOREM IngressesAreApart == Spec => []IngressesApart
<1> DEFINE port(i) == ResolveGatewayPort(cr.ingresses[i])
           name(i) == IngressTemplate(cr.ingresses[i]).name
           part(i) == ResolvePortName(port(i))
           known == {i \in DOMAIN cr.ingresses : \E p \in ServicePorts : p.port = port(i)}
           n == ResolveGatewayServiceName
           W == Words \cup {"web", "grpc"}
           mark(i) == IF cr.ingresses[i].isGrpc THEN <<"grpc">> ELSE <<>>
<1>1. ASSUME IInv, n \notin {PublicGatewayService, PrivateGatewayService},
             Distinct(ServicePorts), \A p \in ServicePorts : Last(p.name) # "grpc",
             NEW i \in known, NEW j \in known,
             port(i) # port(j) \/ cr.ingresses[i].isGrpc # cr.ingresses[j].isGrpc,
             name(i) = name(j)
      PROVE  FALSE
  <2>1. n \in Seq(W)
    <3>1. cr.name \in Names /\ cr.gateway \in Names \cup {None}
      BY <1>1 DEF IInv, CRTypes
    <3>2. n \in Names
      BY <3>1 DEF ResolveGatewayServiceName, Composite
    <3> QED BY <3>2, SeqMonotonic DEF Names
  <2>2. ASSUME NEW k \in known
        PROVE  /\ name(k) = Joined(n, part(k), mark(k))
               /\ cr.ingresses[k].isGrpc \in BOOLEAN
    <3>1. cr.ingresses \in Seq(IngressRecords)
      <4>1. cr.ingresses \in IngressLists \cup {<<>>}
        BY <1>1 DEF IInv, CRTypes
      <4>2. IngressLists \subseteq Seq(IngressRecords)
        BY CRAssumption
      <4> QED BY <4>1, <4>2
    <3>2. cr.ingresses[k] \in IngressRecords
      BY <2>2, <3>1
    <3>3. name(k) = BuildIngressName(cr.ingresses[k].isGrpc, part(k))
      BY DEF IngressTemplate
    <3>4. n # PublicGatewayService /\ n # PrivateGatewayService
      BY <1>1
    <3> QED BY <3>2, <3>3, <3>4 DEF BuildIngressName, Joined, IngressRecords
  <2>3. ASSUME NEW k \in known
        PROVE  /\ \E p \in ServicePorts : p.port = port(k) /\ p.name = part(k)
               /\ part(k) \in Seq(W)
    <3>1. \E p \in ServicePorts : p.port = port(k)
      BY <2>3
    <3> HIDE DEF port
    <3>2. part(k) \in Seq(Words \cup {"web"})
      BY <1>1, <3>1, PortKnown
    <3>3. part(k) \in Seq(W)
      BY <3>2, SeqMonotonic
    <3> QED BY <1>1, <3>1, <3>3, PortKnown
  <2> HIDE DEF port, name, part, known, n, W
  <2>4. PICK p \in ServicePorts : p.port = port(i) /\ p.name = part(i)
    BY <2>3
  <2>5. PICK q \in ServicePorts : q.port = port(j) /\ q.name = part(j)
    BY <2>3
  <2>6. port(i) # port(j) => part(i) # part(j)
    BY <1>1, <2>4, <2>5 DEF Distinct
  <2>7. Last(part(i)) # "grpc" /\ Last(part(j)) # "grpc"
    BY <1>1, <2>4, <2>5
  <2>8. mark(i) \in {<<>>, <<"grpc">>} /\ mark(j) \in {<<>>, <<"grpc">>}
    OBVIOUS
  <2>9. cr.ingresses[i].isGrpc # cr.ingresses[j].isGrpc => mark(i) # mark(j)
    BY <2>2
  <2> HIDE DEF mark
  <2>10. part(i) # part(j) \/ mark(i) # mark(j)
    BY <1>1, <2>6, <2>9
  <2>11. "grpc" \in W /\ part(i) \in Seq(W) /\ part(j) \in Seq(W)
    BY <2>3 DEF W
  <2>12. Joined(n, part(i), mark(i)) # Joined(n, part(j), mark(j))
    <3>1. Ending(part(i), mark(i), "grpc", W) /\ Ending(part(j), mark(j), "grpc", W)
      BY <2>7, <2>8, <2>11 DEF Ending
    <3>2. "grpc" \in W
      BY <2>11
    <3> QED BY <2>1, <2>10, <3>1, <3>2, NamesApart
  <2> QED BY <1>1, <2>2, <2>12
<1>2. IInv => IngressesApart
  BY <1>1 DEF IngressesApart
<1> QED BY <1>2, AlwaysIInv, PTL
=============================================================================
