---------------------- MODULE GatewayResources_proofs -----------------------
(***************************************************************************)
(* Proofs about GatewayResources, for every set of CRs, routers and specs, *)
(* and every bound.                                                        *)
(***************************************************************************)
EXTENDS GatewayResources, SequenceElements

-----------------------------------------------------------------------------
(* Failures.  Neither theorem of the first two parts needs to know which   *)
(* calls a reconcile makes: whatever the list, each call keeps these.      *)

CRsInHand ==
  /\ crs = [c \in CRs |-> crs[c]]
  /\ backingOff \subseteq CRs
  /\ obj # None => running \in CRs

\* Who is marked as failed is to be reconciled again, or is gone.
ToRetry ==
  /\ CRsInHand
  /\ \A c \in backingOff : c \in queue \/ crs[c] = None

LEMMA MutedRetries ==
  ASSUME ToRetry, Muted, crs' = crs
  PROVE  ToRetry'
BY DEF ToRetry, CRsInHand, Muted, Stop

LEMMA FailedRetries ==
  ASSUME ToRetry, Failed, crs' = crs
  PROVE  ToRetry'
BY DEF ToRetry, CRsInHand, Failed, Stop

LEMMA ContinueRetries ==
  ASSUME ToRetry, UNCHANGED <<crs, runVars>>
  PROVE  ToRetry'
BY DEF ToRetry, CRsInHand, runVars

LEMMA AnswerRetries ==
  ASSUME ToRetry, crs' = crs, NEW o, NEW new, Create(o, new) \/ Update(o, new)
  PROVE  ToRetry'
<1>1. Muted \/ Failed \/ Continue
  BY DEF Create, Update, AlreadyExists
<1>2. CASE Continue
  BY <1>2, ContinueRetries DEF Continue, Instead
<1> QED BY <1>1, <1>2, MutedRetries, FailedRetries

LEMMA RetryNext == ToRetry /\ [Next]_vars => ToRetry'
<1> SUFFICES ASSUME ToRetry, [Next]_vars PROVE ToRetry'
  OBVIOUS
<1>1. ASSUME NEW c \in CRs, Start(c) PROVE ToRetry'
  BY <1>1 DEF Start, ToRetry, CRsInHand, envVars
<1>2. ASSUME NEW c \in CRs, WriteCR(c) \/ DeleteCR(c) PROVE ToRetry'
  <2>1. queue' = queue \cup {c} /\ UNCHANGED <<backingOff, obj, running>>
    BY <1>2 DEF WriteCR, DeleteCR, Change
  <2>2. PICK x : crs' = [crs EXCEPT ![c] = x]
    BY <1>2 DEF WriteCR, DeleteCR
  <2>3. /\ crs' = [d \in CRs |-> crs'[d]]
        /\ \A d \in CRs \ {c} : crs'[d] = crs[d]
    BY <2>2 DEF ToRetry, CRsInHand
  <2> QED BY <2>1, <2>3 DEF ToRetry, CRsInHand
<1>3. CASE DoApply
  <2>1. crs' = crs
    BY <1>3 DEF DoApply, Calling, envVars
  <2>2. \E o, new : Create(o, new) \/ Update(o, new)
    BY <1>3 DEF DoApply
  <2> QED BY <2>1, <2>2, AnswerRetries
<1>4. CASE DoCreate
  <2>1. crs' = crs /\ \E o, new : Create(o, new)
    BY <1>4 DEF DoCreate, Calling, envVars
  <2> QED BY <2>1, AnswerRetries
<1>5. CASE DoDelete \/ DoReplace
  <2>1. crs' = crs /\ \E o, gateway, calls : DeleteObject(o, gateway, calls)
    BY <1>5 DEF DoDelete, DoReplace, Calling, envVars
  <2>2. Failed \/ UNCHANGED runVars
    BY <2>1 DEF DeleteObject, Instead
  <2> QED BY <2>1, <2>2, FailedRetries, ContinueRetries
<1>6. CASE DoUnlabel
  <2>1. crs' = crs /\ (Continue \/ \E o, new : Update(o, new))
    BY <1>6 DEF DoUnlabel, Calling, envVars
  <2> QED BY <2>1, AnswerRetries, ContinueRetries DEF Continue, Instead
<1>7. CASE CallFails
  BY <1>7, FailedRetries DEF CallFails, envVars
<1>8. CASE Restart
  BY <1>8 DEF Restart, Stop, ToRetry, CRsInHand, envVars
<1>9. ASSUME UNCHANGED <<crs, runVars>> PROVE ToRetry'
  BY <1>9, ContinueRetries
<1>10. CASE Finish
  BY <1>10 DEF Finish, Stop, ToRetry, CRsInHand, envVars
<1> QED
  BY <1>1, <1>2, <1>3, <1>4, <1>5, <1>6, <1>7, <1>8, <1>9, <1>10
  DEF Next, DoDeleteMeshRouter, DoPriority, DoDeleteFacadeGateway, Instead,
      Calling, Sync, CollectGarbage, Rest, vars, envVars, runVars

\* At rest no Gateway is left marked as failed, whatever failed, raced or was
\* muted, and however often the operator restarted.
THEOREM FailuresAreRetried == Spec => []FailuresRetried
<1>1. Init => ToRetry
  BY DEF Init, ToRetry, CRsInHand
<1>2. ToRetry => FailuresRetried
  BY DEF ToRetry, FailuresRetried, Quiescent
<1> QED BY <1>1, <1>2, RetryNext, PTL DEF Spec

-----------------------------------------------------------------------------
(* Owners                                                                  *)

\* An object is a record of these fields: what replaces one field of it keeps
\* the others.
Record(x) ==
  x = [owners |-> x.owners, by |-> x.by, selects |-> x.selects,
       headless |-> x.headless, mesh |-> x.mesh, label |-> x.label]

Table(t) ==
  /\ t = [o \in Resources |-> t[o]]
  /\ \A o \in Resources : t[o] # None => Record(t[o])

Tables == Table(res) /\ Table(seen)

\* A step that puts a record in place of at most one object, and keeps the
\* owners of the one it finds.
Puts(o, new) ==
  /\ res' = [res EXCEPT ![o] = new]
  /\ Record(new)
  /\ res[o] # None => res[o].owners \subseteq new.owners

Drops(gone) == res' = [o \in Resources |-> IF o \in gone THEN None ELSE res[o]]

OwnersKeptBy(o) ==
  res[o] # None /\ res'[o] # None => res[o].owners \subseteq res'[o].owners

LEMMA PutKeeps ==
  ASSUME Tables, seen' = seen, NEW o, NEW new, Puts(o, new)
  PROVE  Tables' /\ \A x \in Resources : OwnersKeptBy(x)
BY DEF Tables, Table, Puts, OwnersKeptBy

LEMMA DropKeeps ==
  ASSUME Tables, seen' = seen, NEW gone, Drops(gone)
  PROVE  Tables' /\ \A x \in Resources : OwnersKeptBy(x)
BY DEF Tables, Table, Drops, OwnersKeptBy

LEMMA SameKeeps ==
  ASSUME Tables, res' = res, Table(seen')
  PROVE  Tables' /\ \A x \in Resources : OwnersKeptBy(x)
BY DEF Tables, Table, OwnersKeptBy

LEMMA RenderedIsRecord ==
  ASSUME NEW kind, NEW name, NEW gateway
  PROVE  Record(Rendered(kind, name, gateway))
BY DEF Rendered, Record

LEMMA CreateKeeps ==
  ASSUME Tables, seen' = seen, NEW o, NEW new, Record(new), Create(o, new)
  PROVE  Tables' /\ \A x \in Resources : OwnersKeptBy(x)
<1>1. CASE res[o] # None
  <2>1. res' = res
    BY <1>1 DEF Create, AlreadyExists
  <2> QED BY <2>1, SameKeeps DEF Tables
<1>2. CASE res[o] = None
  BY <1>2, PutKeeps DEF Create, Puts
<1> QED BY <1>1, <1>2

LEMMA UpdateKeeps ==
  ASSUME Tables, seen' = seen, NEW o, NEW new, Record(new), Update(o, new),
         seen[o].owners \subseteq new.owners
  PROVE  Tables' /\ \A x \in Resources : OwnersKeptBy(x)
<1>1. CASE Conflict(o)
  <2>1. res' = res
    BY <1>1 DEF Update
  <2> QED BY <2>1, SameKeeps DEF Tables
<1>2. CASE ~Conflict(o)
  BY <1>2, PutKeeps DEF Update, Puts, Conflict
<1> QED BY <1>1, <1>2

LEMMA MergedIsRecord ==
  ASSUME NEW new, NEW found, Record(new)
  PROVE  /\ Record(Merged(new, found))
         /\ found.owners \subseteq Merged(new, found).owners
BY DEF Merged, Record

LEMMA OwnersNext ==
  Tables /\ [Next]_vars => Tables' /\ \A o \in Resources : OwnersKeptBy(o)
<1> SUFFICES ASSUME Tables, [Next]_vars
             PROVE  Tables' /\ \A o \in Resources : OwnersKeptBy(o)
  OBVIOUS
<1> DEFINE Goal == Tables' /\ \A o \in Resources : OwnersKeptBy(o)
<1>1. CASE DoApply
  <2> DEFINE call == Head(todo)
             o == Of(call.kind, call.name)
             new == Rendered(call.kind, call.name, call.gateway)
  <2>1. seen' = seen
    BY <1>1 DEF DoApply, Calling
  <2>2. Record(new)
    BY RenderedIsRecord
  <2>3. CASE seen[o] = None
    <3>1. Create(o, new)
      BY <1>1, <2>3 DEF DoApply
    <3> HIDE DEF o, new
    <3> QED BY <2>1, <2>2, <3>1, CreateKeeps
  <2>4. CASE seen[o] # None
    <3>1. Update(o, Merged(new, seen[o]))
      BY <1>1, <2>4 DEF DoApply
    <3> HIDE DEF o, new
    <3> QED BY <2>1, <2>2, <3>1, UpdateKeeps, MergedIsRecord
  <2> QED BY <2>3, <2>4
<1>2. CASE DoCreate
  <2> DEFINE call == Head(todo)
             o == Of(call.kind, call.name)
             new == Rendered(call.kind, call.name, call.gateway)
  <2>1. seen' = seen /\ Create(o, new)
    BY <1>2 DEF DoCreate, Calling
  <2>2. Record(new)
    BY RenderedIsRecord
  <2> HIDE DEF o, new
  <2> QED BY <2>1, <2>2, CreateKeeps
<1>3. CASE DoDelete \/ DoReplace
  <2>0. seen' = seen /\ \E o, gateway, calls : DeleteObject(o, gateway, calls)
    BY <1>3 DEF DoDelete, DoReplace, Calling
  <2>1. PICK o : seen' = seen /\ (res' = res \/ res' = [res EXCEPT ![o] = None])
    BY <2>0 DEF DeleteObject
  <2>2. res' = res \/ Drops({o})
    BY <2>1 DEF Drops, Tables, Table
  <2> QED BY <2>1, <2>2, SameKeeps, DropKeeps DEF Tables
<1>4. CASE DoUnlabel
  <2> DEFINE o == Of("Deployment", Head(todo).name)
             new == [seen[o] EXCEPT !.label = None]
  <2>1. seen' = seen
    BY <1>4 DEF DoUnlabel, Calling
  <2>2. \/ res' = res
        \/ seen[o] # None /\ Update(o, new)
    BY <1>4 DEF DoUnlabel
  <2>3. CASE o \in Resources /\ seen[o] # None /\ Update(o, new)
    <3>1. Record(seen[o])
      BY <2>3 DEF Tables, Table
    <3>2. Record(new) /\ new.owners = seen[o].owners
      BY <3>1 DEF Record
    <3> HIDE DEF o, new
    <3> QED BY <2>1, <2>3, <3>2, UpdateKeeps
  <2>4. CASE o \notin Resources /\ Update(o, new)
    <3>1. res' = res
      BY <2>4 DEF Update, Tables, Table
    <3> QED BY <2>1, <3>1, SameKeeps DEF Tables
  <2> QED BY <2>1, <2>2, <2>3, <2>4, SameKeeps DEF Tables
<1>5. ASSUME NEW kinds \in Informers, Sync(kinds) PROVE Goal
  <2>1. res' = res /\ Table(seen')
    BY <1>5 DEF Sync, Tables, Table, envVars, runVars
  <2> QED BY <2>1, SameKeeps
<1>6. ASSUME NEW kinds \in Collections, CollectGarbage(kinds) PROVE Goal
  <2>1. seen' = seen /\ \E gone : Drops(gone)
    BY <1>6 DEF CollectGarbage, Drops
  <2> QED BY <2>1, DropKeeps
<1>7. CASE Restart
  <2>1. res' = res /\ Table(seen')
    BY <1>7 DEF Restart, Tables
  <2> QED BY <2>1, SameKeeps
<1>8. ASSUME UNCHANGED <<res, seen>> PROVE Goal
  BY <1>8, SameKeeps DEF Tables
<1> QED
  BY <1>1, <1>2, <1>3, <1>4, <1>5, <1>6, <1>7, <1>8
  DEF Next, Start, WriteCR, DeleteCR, Change, DoDeleteMeshRouter, DoPriority,
      DoDeleteFacadeGateway, Calling, Finish, CallFails, Rest, vars

\* An object loses an owner only when it is created anew, whichever call fails
\* or finds that its cache was old.
THEOREM OwnersAreMerged == Spec => OwnersMerged
<1>1. Init => Tables
  BY DEF Init, Tables, Table, Record, Users
<1>2. Tables /\ [Next]_vars => Tables'
  BY OwnersNext
<1>3. Tables /\ [Next]_vars =>
        [\A o \in Resources : res[o] # None /\ res'[o] # None
           => res[o].owners \subseteq res'[o].owners]_vars
  BY OwnersNext DEF OwnersKeptBy
<1> QED BY <1>1, <1>2, <1>3, PTL DEF Spec, OwnersMerged

-----------------------------------------------------------------------------
(* Objects and calls                                                       *)

Everything == Monitored \cup {"Deployment"}

LEMMA NamesAndGateways ==
  /\ None \notin CRs /\ None \notin Names /\ None \notin Gateways
  /\ Routers \subseteq Gateways
  /\ \A c \in CRs : /\ c = [kind |-> c.kind, name |-> c.name]
                    /\ c.name \in Names /\ FacadeOf[c.name] \in Gateways
<1>1. \A c \in CRs : c = [kind |-> c.kind, name |-> c.name]
  BY GatewayCRsAssumption
<1>2. \A c \in CRs : c.name \in Names
  BY DEF Names
<1>3. \A n \in Names : FacadeOf[n] \in Gateways
  BY DEF Gateways
<1> QED BY <1>1, <1>2, <1>3, GatewayNoneAssumption DEF Gateways

LEMMA ResourcesAre ==
  ASSUME NEW kind, NEW name
  PROVE  /\ Of(kind, name).kind = kind /\ Of(kind, name).name = name
         /\ Of(kind, name) \in Resources <=>
              \/ kind = "Service" /\ name \in Names \cup Routers \cup {ForeignService}
              \/ kind = "Deployment" /\ name \in Gateways \cup {Foreign}
              \/ kind \in Monitored /\ name \in Gateways
BY DEF Of, Resources, Kinded, Monitored

LEMMA ResourceIsOf ==
  ASSUME NEW o \in Resources
  PROVE  o = Of(o.kind, o.name)
BY DEF Of, Resources, Kinded

LEMMA OfInjective ==
  ASSUME NEW kind, NEW name, NEW k, NEW n, Of(kind, name) = Of(k, n)
  PROVE  kind = k /\ name = n
BY ResourcesAre

LEMMA TargetIsGateway ==
  ASSUME NEW c \in CRs, NEW o \in CRObjects
  PROVE  /\ Target(c, o) \in Gateways
         /\ Composite(o) => Target(c, o) = o.gateway /\ o.gateway \in Routers
         /\ ~Composite(o) => Target(c, o) = FacadeOf[c.name]
BY NamesAndGateways DEF Target, Composite, CRObjects

LEMMA CallIsCall ==
  ASSUME NEW do \in {"apply", "create", "delete", "unlabel", "priority",
                     "deleteMeshRouter", "deleteFacadeGateway"},
         NEW kind \in Everything \cup {"Service"}, NEW name \in Names \cup Gateways,
         NEW gateway \in Gateways \cup {None}
  PROVE  Call(do, kind, name, gateway) \in Calls
BY DEF Call, Calls, Everything, Monitored

LEMMA DeleteGatewayCalls ==
  ASSUME NEW g \in Gateways
  PROVE  /\ DeleteGateway(g) \in Seq(Calls)
         /\ Elements(DeleteGateway(g)) = {Delete(kind, g) : kind \in Everything}
<1>1. \A kind \in Everything : Delete(kind, g) \in Calls
  BY CallIsCall DEF Delete
<1>2. {Delete(kind, g) : kind \in Everything}
        = {Delete("Deployment", g), Delete("ConfigMap", g), Delete("PodMonitor", g),
           Delete("HPA", g)}
  BY DEF Everything, Monitored
<1> QED BY <1>1, <1>2, ElementsOfFour DEF DeleteGateway, Everything, Monitored

LEMMA DeleteMeshRouterCalls ==
  ASSUME NEW g \in Routers
  PROVE  /\ DeleteMeshRouter(g) \in Seq(Calls)
         /\ Elements(DeleteMeshRouter(g))
              = {Delete("Service", g)} \cup {Delete(kind, g) : kind \in Everything}
<1>1. g \in Gateways /\ Delete("Service", g) \in Calls
  BY CallIsCall, NamesAndGateways DEF Delete
<1> DEFINE service == <<Delete("Service", g)>>
<1>2. service \in Seq(Calls) /\ Elements(service) = {Delete("Service", g)}
  BY <1>1, ElementsOfOne
<1>3. DeleteMeshRouter(g) = service \o DeleteGateway(g)
  BY DEF DeleteMeshRouter
<1> HIDE DEF service
<1>4. /\ DeleteGateway(g) \in Seq(Calls)
      /\ Elements(DeleteGateway(g)) = {Delete(kind, g) : kind \in Everything}
  BY <1>1, DeleteGatewayCalls
<1>5. /\ service \o DeleteGateway(g) \in Seq(Calls)
      /\ Elements(service \o DeleteGateway(g))
           = Elements(service) \cup Elements(DeleteGateway(g))
  BY <1>2, <1>4, ElementsOfConcat
<1> QED BY <1>2, <1>3, <1>4, <1>5

LEMMA ApplyIsCall ==
  ASSUME NEW kind \in Everything \cup {"Service"}, NEW name \in Names \cup Gateways,
         NEW g \in Gateways
  PROVE  Apply(kind, name, g) \in Calls
BY CallIsCall DEF Apply

LEMMA ApplyMonitoredCalls ==
  ASSUME NEW g \in Gateways
  PROVE  /\ ApplyMonitored(g) \in Seq(Calls)
         /\ Elements(ApplyMonitored(g)) = {Apply(kind, g, g) : kind \in Monitored}
<1>1. \A kind \in Monitored : Apply(kind, g, g) \in Calls
  BY ApplyIsCall DEF Everything
<1>2. {Apply(kind, g, g) : kind \in Monitored}
        = {Apply("ConfigMap", g, g), Apply("HPA", g, g), Apply("PodMonitor", g, g)}
  BY DEF Monitored
<1> QED BY <1>1, <1>2, ElementsOfThree DEF ApplyMonitored, Monitored

LEMMA FacadeGatewayCalls ==
  ASSUME NEW c \in CRs
  PROVE  LET g == FacadeOf[c.name]
         IN /\ ApplyFacadeGateway(c) \in Seq(Calls)
            /\ Elements(ApplyFacadeGateway(c))
                 = {Apply("Service", c.name, g)} \cup {Apply(kind, g, g) : kind \in Everything}
<1> DEFINE g == FacadeOf[c.name]
           own == Apply("Service", c.name, g)
           deployment == Apply("Deployment", g, g)
<1>1. g \in Gateways /\ c.name \in Names
  BY NamesAndGateways
<1>2. own \in Calls /\ deployment \in Calls
  BY <1>1, ApplyIsCall DEF Everything
<1>3. ApplyFacadeGateway(c) = <<own, deployment>> \o ApplyMonitored(g)
  BY DEF ApplyFacadeGateway
<1>4. {Apply(kind, g, g) : kind \in Everything}
        = {deployment} \cup {Apply(kind, g, g) : kind \in Monitored}
  BY DEF Everything
<1> HIDE DEF own, deployment, g
<1> DEFINE both == <<own, deployment>>
<1>5. both \in Seq(Calls) /\ Elements(both) = {own, deployment}
  BY <1>2, ElementsOfTwo
<1> HIDE DEF both
<1>6. /\ ApplyMonitored(g) \in Seq(Calls)
      /\ Elements(ApplyMonitored(g)) = {Apply(kind, g, g) : kind \in Monitored}
  BY <1>1, ApplyMonitoredCalls
<1>7. /\ ApplyFacadeGateway(c) \in Seq(Calls)
      /\ Elements(ApplyFacadeGateway(c))
           = {own, deployment} \cup {Apply(kind, g, g) : kind \in Monitored}
  <2>1. ApplyFacadeGateway(c) = both \o ApplyMonitored(g)
    BY <1>3 DEF both
  <2> QED BY <2>1, <1>5, <1>6, ElementsOfConcat
<1>8. Elements(ApplyFacadeGateway(c)) = {own} \cup {Apply(kind, g, g) : kind \in Everything}
  BY <1>4, <1>7
<1> QED BY <1>7, <1>8 DEF own, g

LEMMA ConfigureCalls ==
  ASSUME NEW g \in Gateways, NEW o
  PROVE  /\ Configure(g, o) \in Seq(Calls)
         /\ Elements(Configure(g, o))
              = {Apply(kind, g, g) : kind \in Everything}
                \cup (IF o.mesh THEN {Apply("Service", g, g)} ELSE {})
<1> DEFINE deployment == Apply("Deployment", g, g)
           service == Apply("Service", g, g)
           shared == IF o.mesh THEN <<service>> ELSE <<>>
<1>1. deployment \in Calls /\ service \in Calls
  BY ApplyIsCall DEF Everything
<1> DEFINE first == <<deployment>>
           start == first \o shared
<1>2. Configure(g, o) = start \o ApplyMonitored(g)
  BY DEF Configure
<1>3. {Apply(kind, g, g) : kind \in Everything}
        = {deployment} \cup {Apply(kind, g, g) : kind \in Monitored}
  BY DEF Everything
<1> HIDE DEF deployment, service
<1>4. /\ shared \in Seq(Calls)
      /\ Elements(shared) = IF o.mesh THEN {service} ELSE {}
  BY <1>1, ElementsOfOption
<1>5. first \in Seq(Calls) /\ Elements(first) = {deployment}
  BY <1>1, ElementsOfOne
<1> HIDE DEF shared, first
<1>6. start \in Seq(Calls) /\ Elements(start) = {deployment} \cup Elements(shared)
  BY <1>4, <1>5, ElementsOfConcat
<1> HIDE DEF start
<1>7. /\ ApplyMonitored(g) \in Seq(Calls)
      /\ Elements(ApplyMonitored(g)) = {Apply(kind, g, g) : kind \in Monitored}
  BY ApplyMonitoredCalls
<1>8. /\ Configure(g, o) \in Seq(Calls)
      /\ Elements(Configure(g, o))
           = Elements(start) \cup Elements(ApplyMonitored(g))
  BY <1>2, <1>6, <1>7, ElementsOfConcat
<1> QED BY <1>3, <1>4, <1>6, <1>7, <1>8 DEF service

PriorityCall(g) == Call("priority", "Deployment", g, None)

LEMMA MeshRouterCalls ==
  ASSUME NEW c \in CRs, NEW o, o.gateway \in Routers
  PROVE  /\ ApplyMeshRouter(c, o) \in Seq(Calls)
         /\ Elements(ApplyMeshRouter(c, o))
              = (IF c.name = CoreEgressGateway THEN {}
                 ELSE {Apply("Service", c.name, o.gateway)})
                \cup {PriorityCall(o.gateway), DeleteFacadeGateway(FacadeOf[c.name])}
<1> DEFINE service == Apply("Service", c.name, o.gateway)
           own == IF c.name # CoreEgressGateway THEN <<service>> ELSE <<>>
           priority == PriorityCall(o.gateway)
           delete == DeleteFacadeGateway(FacadeOf[c.name])
           rest == <<priority, delete>>
<1>1. service \in Calls /\ priority \in Calls /\ delete \in Calls
  BY NamesAndGateways, ApplyIsCall, CallIsCall
  DEF Everything, PriorityCall, DeleteFacadeGateway
<1>2. ApplyMeshRouter(c, o) = own \o rest
  BY DEF ApplyMeshRouter, PriorityCall
<1> HIDE DEF service, priority, delete
<1>3. /\ own \in Seq(Calls)
      /\ Elements(own) = IF c.name # CoreEgressGateway THEN {service} ELSE {}
  BY <1>1, ElementsOfOption
<1>4. rest \in Seq(Calls) /\ Elements(rest) = {priority, delete}
  BY <1>1, ElementsOfTwo
<1> HIDE DEF own, rest
<1>5. own \o rest \in Seq(Calls) /\ Elements(own \o rest) = Elements(own) \cup {priority, delete}
  BY <1>3, <1>4, ElementsOfConcat
<1> QED BY <1>2, <1>3, <1>5 DEF service, priority, delete

LEMMA FacadeServiceCalls ==
  ASSUME NEW c \in CRs
  PROVE  LET g == FacadeOf[c.name]
         IN /\ DeleteFacadeService(c) \in Seq(Calls)
            /\ Elements(DeleteFacadeService(c))
                 = {Call("delete", "Service", c.name, g), DeleteFacadeGateway(g)}
<1> DEFINE g == FacadeOf[c.name]
           service == Call("delete", "Service", c.name, g)
           delete == DeleteFacadeGateway(g)
<1>1. service \in Calls /\ delete \in Calls
  BY NamesAndGateways, CallIsCall DEF Everything, DeleteFacadeGateway
<1>2. DeleteFacadeService(c) = <<service, delete>>
  BY DEF DeleteFacadeService
<1> HIDE DEF service, delete
<1> QED BY <1>1, <1>2, ElementsOfTwo DEF service, delete

LEMMA CleanupCalls ==
  ASSUME NEW calls \in Cleanup
  PROVE  /\ calls \in Seq(Calls)
         /\ \A call \in Elements(calls) : \E g \in MeshRouters :
              (call = Unneeded(g) /\ ~Named(g)) \/ call = Unlabel(g)
         /\ \A g \in MeshRouters : ~Named(g) => Unneeded(g) \in Elements(calls)
<1> DEFINE unnamed == {g \in MeshRouters : ~Named(g)}
           unmastered == {g \in MeshRouters : Named(g) /\ ~Mastered(g)}
           deletes(s) == [i \in DOMAIN s |-> Unneeded(s[i])]
           unlabels(t) == [i \in DOMAIN t |-> Unlabel(t[i])]
<1>1. PICK s \in SetToSeqs(unnamed), t \in SetToSeqs(unmastered) :
        calls = deletes(s) \o unlabels(t)
  <2>1. Cleanup = {deletes(s) \o unlabels(t) :
                     s \in SetToSeqs(unnamed), t \in SetToSeqs(unmastered)}
    BY DEF Cleanup
  <2> HIDE DEF deletes, unlabels, unnamed, unmastered
  <2> QED BY <2>1
<1>2. unnamed \subseteq Gateways /\ unmastered \subseteq Gateways
  BY DEF MeshRouters
<1>3. IsFiniteSet(unnamed) /\ IsFiniteSet(unmastered)
  BY <1>2, FS_Subset, FiniteAssumption
<1>4. /\ unnamed \subseteq MeshRouters /\ unmastered \subseteq MeshRouters
      /\ \A g \in MeshRouters : g \in unnamed <=> ~Named(g)
  OBVIOUS
<1> HIDE DEF unnamed, unmastered
<1>5. /\ s \in Seq(unnamed) /\ Elements(s) = unnamed /\ DOMAIN s = 1..Len(s)
      /\ t \in Seq(unmastered) /\ Elements(t) = unmastered /\ DOMAIN t = 1..Len(t)
  BY <1>1, <1>3, ElementsOfOrder
<1>6. /\ \A i \in 1..Len(s) : s[i] \in unnamed
      /\ \A i \in 1..Len(t) : t[i] \in unmastered
      /\ Len(s) \in Nat /\ Len(t) \in Nat
  BY <1>5
<1>7. \A g \in Gateways : Unneeded(g) \in Calls /\ Unlabel(g) \in Calls
  BY CallIsCall DEF Unneeded, Unlabel, Everything
<1>8. deletes(s) = [i \in 1..Len(s) |-> Unneeded(s[i])]
      /\ unlabels(t) = [i \in 1..Len(t) |-> Unlabel(t[i])]
  BY <1>5
<1>9. deletes(s) \in Seq(Calls) /\ unlabels(t) \in Seq(Calls)
  BY <1>2, <1>6, <1>7, <1>8
<1>10. /\ Elements(deletes(s)) = {Unneeded(g) : g \in unnamed}
       /\ Elements(unlabels(t)) = {Unlabel(g) : g \in unmastered}
  BY <1>5 DEF Elements
<1> HIDE DEF deletes, unlabels
<1>11. /\ calls \in Seq(Calls)
       /\ Elements(calls) = Elements(deletes(s)) \cup Elements(unlabels(t))
  BY <1>1, <1>9, ElementsOfConcat
<1> QED BY <1>2, <1>4, <1>10, <1>11

-----------------------------------------------------------------------------
(* Types                                                                   *)

Pending == Elements(todo)

\* Where a call of the reconcile of c, whose object is o, is directed.
ProperFor(call, c, o) ==
  /\ call \in Calls
  /\ Of(call.kind, call.name) \in Resources
  /\ call.kind = "Deployment" => call.name \in Gateways
  /\ call.do \in {"apply", "create"} =>
       /\ o # None /\ call.gateway \in Gateways
       /\ call.kind # "Service" =>
            call.do = "apply" /\ call.name = Target(c, o) /\ call.gateway = call.name
       /\ call.kind = "Service" =>
            \/ call.name = c.name /\ call.gateway = Target(c, o)
            \/ call.name \in Routers
  /\ call.do = "priority" =>
       o # None /\ Composite(o)
       /\ call = Call("priority", "Deployment", o.gateway, None)
  /\ call.do = "unlabel" => call.kind = "Deployment"
  /\ call.do = "deleteMeshRouter" => call.kind = "Deployment" /\ call.name \in Routers
  /\ call.do = "deleteFacadeGateway" => call.kind = "Deployment"

Proper(call) == ProperFor(call, running, obj)

\* A user's object is as Init has it; a gateway's Deployment is rendered from
\* a CR, and is a mesh router's, or labelled, as that CR wants it.
WellMade(t) ==
  /\ t \in [Resources -> Objects \cup {None}]
  /\ \A o \in Resources : t[o] # None /\ t[o].by = None =>
       /\ o \in {Of("Service", ForeignService), Of("Deployment", Foreign)}
       /\ t[o].owners = {}
       /\ o.kind = "Service" => t[o].selects = Foreign
  /\ \A g \in Gateways : LET d == t[Of("Deployment", g)]
                         IN d # None => /\ d.mesh => g \in Routers
                                        /\ d.label \in {None, d.by.name}
  /\ t[Of("Deployment", Foreign)] # None
  /\ t[Of("Deployment", Foreign)].by = None

Typed ==
  /\ crs \in [CRs -> CRObjects \cup {None}] /\ born \in [CRs -> Nat]
  /\ WellMade(res) /\ WellMade(seen) /\ headless \in BOOLEAN
  /\ queue \subseteq CRs /\ backingOff \subseteq CRs
  /\ todo \in Seq(Calls) /\ \A call \in Pending : Proper(call)
  /\ running \in CRs \cup {None}
  /\ IF running = None THEN obj = None /\ todo = <<>> ELSE obj = crs[running]

LEMMA NextCall ==
  ASSUME Typed, todo # <<>>
  PROVE  LET call == Head(todo)
         IN /\ Proper(call) /\ running \in CRs /\ obj = crs[running]
            /\ Tail(todo) \in Seq(Calls)
            /\ call \in Pending
            /\ Pending = {call} \cup Elements(Tail(todo))
<1>1. todo \in Seq(Calls) /\ \A call \in Pending : Proper(call)
  BY DEF Typed
<1>2. Head(todo) \in Pending /\ Pending = {Head(todo)} \cup Elements(Tail(todo))
  BY <1>1, ElementsOfHeadTail DEF Pending
<1> QED BY <1>1, <1>2, ElementsOfHeadTail DEF Typed

LEMMA ObjectInHand ==
  ASSUME Typed
  PROVE  /\ obj # None => obj \in CRObjects /\ running \in CRs /\ obj = crs[running]
         /\ running = None => todo = <<>> /\ obj = None /\ Pending = {}
BY ElementsOfNone DEF Typed, Pending

LEMMA InsteadIs ==
  ASSUME Typed, todo # <<>>, NEW calls \in Seq(Calls), Instead(calls)
  PROVE  /\ todo' \in Seq(Calls)
         /\ Pending' = Elements(calls) \cup Elements(Tail(todo))
         /\ Pending' \subseteq Elements(calls) \cup Pending
         /\ Pending \subseteq {Head(todo)} \cup Pending'
         /\ UNCHANGED <<queue, running, obj, backingOff>>
<1>1. Tail(todo) \in Seq(Calls) /\ Pending = {Head(todo)} \cup Elements(Tail(todo))
  BY NextCall
<1>2. todo' = calls \o Tail(todo) /\ UNCHANGED <<queue, running, obj, backingOff>>
  BY DEF Instead, runVars
<1>3. todo' \in Seq(Calls) /\ Pending' = Elements(calls) \cup Elements(Tail(todo))
  BY <1>1, <1>2, ElementsOfConcat DEF Pending
<1> QED BY <1>1, <1>2, <1>3

LEMMA ContinueIs ==
  ASSUME Typed, todo # <<>>, Continue
  PROVE  /\ todo' \in Seq(Calls)
         /\ Pending' = Elements(Tail(todo))
         /\ Pending' \subseteq Pending
         /\ Pending \subseteq {Head(todo)} \cup Pending'
         /\ UNCHANGED <<queue, running, obj, backingOff>>
<1>1. <<>> \in Seq(Calls)
  OBVIOUS
<1> QED BY <1>1, InsteadIs, ElementsOfNone DEF Continue

LEMMA SameProper ==
  ASSUME NEW call, Proper(call), UNCHANGED <<running, obj>>
  PROVE  Proper(call)'
BY DEF Proper

LEMMA InsteadTyped ==
  ASSUME Typed, todo # <<>>, NEW calls \in Seq(Calls), Instead(calls),
         \A call \in Elements(calls) : Proper(call),
         UNCHANGED <<envVars, seen, headless>>, WellMade(res')
  PROVE  Typed'
<1>1. /\ todo' \in Seq(Calls) /\ Pending' \subseteq Elements(calls) \cup Pending
      /\ UNCHANGED <<queue, running, obj, backingOff>>
  BY InsteadIs
<1>2. \A call \in Pending' : Proper(call)'
  BY <1>1, SameProper DEF Typed
<1>3. running # None
  BY ObjectInHand
<1>4. WellMade(res)' /\ WellMade(seen)'
  BY DEF Typed, WellMade
<1> QED BY <1>1, <1>2, <1>3, <1>4 DEF Typed, envVars

LEMMA ContinueTyped ==
  ASSUME Typed, todo # <<>>, Continue, UNCHANGED <<envVars, seen, headless>>,
         WellMade(res')
  PROVE  Typed'
<1>1. <<>> \in Seq(Calls)
  OBVIOUS
<1> QED BY <1>1, InsteadTyped, ElementsOfNone DEF Continue

LEMMA StopTyped ==
  ASSUME Typed, Stop, queue' \subseteq CRs, backingOff' \subseteq CRs,
         UNCHANGED <<envVars, seen, headless, res>>
  PROVE  Typed'
<1>1. running' = None /\ obj' = None /\ todo' = <<>> /\ Pending' = {}
  BY ElementsOfNone DEF Stop, Pending
<1>2. <<>> \in Seq(Calls)
  OBVIOUS
<1>3. WellMade(res)' /\ WellMade(seen)'
  BY DEF Typed, WellMade
<1> QED BY <1>1, <1>2, <1>3 DEF Typed, envVars

LEMMA AnswerTyped ==
  ASSUME Typed, running # None, Muted \/ Failed,
         UNCHANGED <<envVars, seen, headless, res>>
  PROVE  Typed'
<1>1. running \in CRs /\ queue \subseteq CRs /\ backingOff \subseteq CRs
  BY DEF Typed
<1>2. Stop /\ queue' \subseteq CRs /\ backingOff' \subseteq CRs
  BY <1>1 DEF Muted, Failed
<1> QED BY <1>2, StopTyped

\* What may be put in place of an object.
MayPut(o, new) ==
  /\ o \in Resources /\ o # Of("Deployment", Foreign)
  /\ new \in Objects /\ new.by \in CRs
  /\ o.kind = "Deployment" => /\ new.mesh => o.name \in Routers
                              /\ new.label \in {None, new.by.name}

LEMMA PutWellMade ==
  ASSUME WellMade(res), NEW o, NEW new, MayPut(o, new),
         res' = [res EXCEPT ![o] = new]
  PROVE  WellMade(res')
<1>1. res' \in [Resources -> Objects \cup {None}]
  BY DEF WellMade, MayPut
<1>2. res'[o] = new /\ \A x \in Resources \ {o} : res'[x] = res[x]
  BY DEF WellMade, MayPut
<1>3. new.by # None
  BY NamesAndGateways DEF MayPut
<1>4. ASSUME NEW x \in Resources, res'[x] # None, res'[x].by = None
      PROVE  /\ x \in {Of("Service", ForeignService), Of("Deployment", Foreign)}
             /\ res'[x].owners = {}
             /\ x.kind = "Service" => res'[x].selects = Foreign
  BY <1>2, <1>3, <1>4 DEF WellMade
<1>5. ASSUME NEW g \in Gateways, res'[Of("Deployment", g)] # None
      PROVE  LET d == res'[Of("Deployment", g)]
             IN /\ d.mesh => g \in Routers
                /\ d.label \in {None, d.by.name}
  <2>1. Of("Deployment", g) \in Resources
    BY ResourcesAre
  <2>2. CASE Of("Deployment", g) = o
    <3>1. o.kind = "Deployment" /\ o.name = g
      BY <2>2, ResourcesAre
    <3> QED BY <1>2, <2>2, <3>1 DEF MayPut
  <2>3. CASE Of("Deployment", g) # o
    BY <1>2, <1>5, <2>1, <2>3 DEF WellMade
  <2> QED BY <2>2, <2>3
<1>6. Of("Deployment", Foreign) \in Resources \ {o}
  BY ResourcesAre DEF MayPut
<1> QED BY <1>1, <1>2, <1>4, <1>5, <1>6 DEF WellMade

LEMMA DropWellMade ==
  ASSUME WellMade(res), NEW gone, Of("Deployment", Foreign) \notin gone,
         res' = [x \in Resources |-> IF x \in gone THEN None ELSE res[x]]
  PROVE  WellMade(res')
<1>1. \A kind, name : Of(kind, name) \in Resources =>
        res'[Of(kind, name)] \in {None, res[Of(kind, name)]}
  OBVIOUS
<1>2. \A g \in Gateways \cup {Foreign} : Of("Deployment", g) \in Resources
  BY ResourcesAre
<1> QED BY <1>1, <1>2 DEF WellMade

-----------------------------------------------------------------------------
(* What the calls do                                                       *)

Object(call) == Of(call.kind, call.name)

\* new is what the reconcile renders for a call, with the owners it found.
RenderedFor(call, new) ==
  LET rendered == Rendered(call.kind, call.name, call.gateway)
  IN \E owners \in SUBSET [cr: CRs, inc: Nat] :
       /\ rendered.owners \subseteq owners
       /\ new = [rendered EXCEPT !.owners = owners]

LEMMA RenderedForIs ==
  ASSUME Typed, running \in CRs, obj \in CRObjects, NEW call, Proper(call),
         call.do \in {"apply", "create"}, NEW new, RenderedFor(call, new)
  PROVE  /\ new.by = running
         /\ [cr |-> running, inc |-> obj.inc] \in new.owners
         /\ new.selects = IF call.kind = "Service" THEN call.gateway ELSE None
         /\ new.headless = (call.kind = "Service" /\ headless)
         /\ new.mesh = (call.kind = "Deployment" /\ Composite(obj))
         /\ new.label = IF call.kind = "Deployment" /\ obj.master THEN running.name ELSE None
         /\ new \in Objects
         /\ MayPut(Object(call), new)
<1> DEFINE rendered == Rendered(call.kind, call.name, call.gateway)
<1>1. PICK owners \in SUBSET [cr: CRs, inc: Nat] :
        rendered.owners \subseteq owners /\ new = [rendered EXCEPT !.owners = owners]
  BY DEF RenderedFor
<1>2. new = [owners |-> owners, by |-> running,
             selects |-> IF call.kind = "Service" THEN call.gateway ELSE None,
             headless |-> call.kind = "Service" /\ headless,
             mesh |-> call.kind = "Deployment" /\ Composite(obj),
             label |-> IF call.kind = "Deployment" /\ obj.master THEN running.name ELSE None]
  BY <1>1 DEF Rendered
<1>3. [cr |-> running, inc |-> obj.inc] \in new.owners
  BY <1>1, <1>2 DEF Rendered
<1>4. /\ call.gateway \in Gateways /\ Object(call) \in Resources
      /\ call.kind = "Deployment" =>
           call.name \in Gateways /\ call.name = Target(running, obj)
      /\ Object(call).kind = call.kind /\ Object(call).name = call.name
  BY ResourcesAre DEF Proper, ProperFor, Object
<1>5. running.name \in Names
  BY NamesAndGateways
<1>6. headless \in BOOLEAN
  BY DEF Typed
<1>7. new \in Objects
  BY <1>2, <1>4, <1>5, <1>6 DEF Objects
<1>8. Object(call) # Of("Deployment", Foreign)
  <2>1. SUFFICES ASSUME call.kind = "Deployment", call.name = Foreign PROVE FALSE
    BY <1>4, ResourcesAre
  <2> QED BY <1>4, <2>1, ForeignAssumption
<1>9. call.kind = "Deployment" => (new.mesh => call.name \in Routers)
  BY <1>2, <1>4, TargetIsGateway
<1>10. MayPut(Object(call), new)
  BY <1>2, <1>4, <1>7, <1>8, <1>9 DEF MayPut
<1> QED BY <1>2, <1>3, <1>7, <1>10

Environs == UNCHANGED <<envVars, seen, headless, recovered, faults>>

\* Apply and create: the reconcile ends, or goes on with the object there.
LEMMA ApplyEffect ==
  ASSUME Typed, DoApply \/ DoCreate
  PROVE  LET call == Head(todo)
             o == Object(call)
         IN /\ todo # <<>> /\ running # None /\ call.do \in {"apply", "create"} /\ Environs
            /\ \/ (Muted \/ Failed) /\ res' = res
               \/ /\ Continue /\ res' = res
                  /\ o.kind \in {"HPA", "PodMonitor"} /\ res[o] # None
               \/ /\ Continue
                  /\ o.kind = "Service" \/ seen[o] = None \/ seen[o] = res[o]
                  /\ \E new : RenderedFor(call, new) /\ res' = [res EXCEPT ![o] = new]
<1> DEFINE call == Head(todo)
           o == Object(call)
           rendered == Rendered(call.kind, call.name, call.gateway)
<1>1. /\ todo # <<>> /\ running # None /\ call.do \in {"apply", "create"} /\ Environs
      /\ \/ seen[o] = None /\ Create(o, rendered)
         \/ call.do = "create" /\ Create(o, rendered)
         \/ seen[o] # None /\ Update(o, Merged(rendered, seen[o]))
  BY DEF DoApply, DoCreate, Calling, Environs, Object
<1>2. Proper(call) /\ running \in CRs /\ obj \in CRObjects
  BY <1>1, NextCall, ObjectInHand DEF Proper, ProperFor
<1>3. /\ o \in Resources /\ o.kind = call.kind
      /\ call.kind \in Monitored \cup {"Service", "Deployment"}
  BY <1>2, ResourcesAre DEF Proper, ProperFor, Object, Calls
<1>4. rendered.owners \in SUBSET [cr: CRs, inc: Nat]
  BY <1>2 DEF Rendered, CRObjects
<1>5. RenderedFor(call, rendered)
  <2>1. rendered = [rendered EXCEPT !.owners = rendered.owners]
    BY DEF Rendered
  <2> QED BY <1>4, <2>1 DEF RenderedFor
<1>6. ASSUME Create(o, rendered),
             seen[o] = None \/ call.do = "create"
      PROVE  \/ (Muted \/ Failed) /\ res' = res
             \/ Continue /\ res' = res /\ o.kind \in {"HPA", "PodMonitor"} /\ res[o] # None
             \/ /\ Continue /\ res[o] = None
                /\ \E new : RenderedFor(call, new) /\ res' = [res EXCEPT ![o] = new]
  BY <1>3, <1>5, <1>6 DEF Create, AlreadyExists, Mutes, Monitored
<1>7. ASSUME seen[o] # None, Update(o, Merged(rendered, seen[o]))
      PROVE  \/ (Muted \/ Failed) /\ res' = res
             \/ /\ Continue /\ seen[o] = res[o]
                /\ \E new : RenderedFor(call, new) /\ res' = [res EXCEPT ![o] = new]
  <2>1. seen[o].owners \in SUBSET [cr: CRs, inc: Nat]
    BY <1>3, <1>7 DEF Typed, WellMade, Objects
  <2>2. RenderedFor(call, Merged(rendered, seen[o]))
    BY <1>4, <2>1 DEF RenderedFor, Merged
  <2> QED BY <1>7, <2>2 DEF Update, Conflict
<1>8. call.do = "create" => o.kind = "Service"
  BY <1>2, <1>3 DEF Proper, ProperFor
<1> HIDE DEF call, o, rendered
<1>9. \/ (Muted \/ Failed) /\ res' = res
      \/ Continue /\ res' = res /\ o.kind \in {"HPA", "PodMonitor"} /\ res[o] # None
      \/ /\ Continue
         /\ o.kind = "Service" \/ seen[o] = None \/ seen[o] = res[o]
         /\ \E new : RenderedFor(call, new) /\ res' = [res EXCEPT ![o] = new]
  <2>1. CASE seen[o] = None /\ Create(o, rendered)
    BY <1>6, <2>1
  <2>2. CASE call.do = "create" /\ Create(o, rendered)
    BY <1>6, <1>8, <2>2
  <2>3. CASE seen[o] # None /\ Update(o, Merged(rendered, seen[o]))
    BY <1>7, <2>3
  <2> QED BY <1>1, <2>1, <2>2, <2>3
<1> QED BY <1>1, <1>9 DEF call, o

\* A delete, alone or before a create: the object may be spared.
LEMMA EraseEffect ==
  ASSUME Typed, NEW o, NEW gateway, NEW calls, DeleteObject(o, gateway, calls)
  PROVE  \/ Failed /\ res' = res
         \/ Instead(calls) /\ res' = res
         \/ /\ Instead(calls) /\ seen[o] # None /\ res' = [res EXCEPT ![o] = None]
            /\ o.kind = "Service" =>
                 SelectsManaged(o, gateway) /\ (seen[o] = res[o] \/ res[o] = None)
BY DEF DeleteObject, Conflict

LEMMA UnlabelEffect ==
  ASSUME Typed, DoUnlabel
  PROVE  LET o == Object(Head(todo))
         IN /\ todo # <<>> /\ running # None /\ Environs
            /\ o \in Resources /\ \E g \in Gateways : o = Of("Deployment", g)
            /\ \/ (Muted \/ Failed) /\ res' = res
               \/ Continue /\ res' = res
               \/ /\ Continue /\ seen[o] # None /\ seen[o] = res[o]
                  /\ res' = [res EXCEPT ![o] = [res[o] EXCEPT !.label = None]]
<1>1. todo # <<>> /\ running # None /\ Environs /\ Head(todo).do = "unlabel"
  BY DEF DoUnlabel, Calling, Environs
<1>2. /\ Head(todo).kind = "Deployment" /\ Head(todo).name \in Gateways
      /\ Object(Head(todo)) \in Resources
  BY <1>1, NextCall DEF Proper, ProperFor, Object
<1>3. Object(Head(todo)) = Of("Deployment", Head(todo).name)
  BY <1>2 DEF Object
<1> QED BY <1>1, <1>2, <1>3 DEF DoUnlabel, Update, Conflict

-----------------------------------------------------------------------------
(* Every step keeps the types                                              *)

LEMMA ApplyTyped ==
  ASSUME Typed, DoApply \/ DoCreate
  PROVE  Typed'
<1> DEFINE call == Head(todo)
           o == Object(call)
<1>1. /\ todo # <<>> /\ running # None /\ Environs
      /\ Proper(call) /\ call.do \in {"apply", "create"}
      /\ running \in CRs /\ obj \in CRObjects
  BY ApplyEffect, NextCall, ObjectInHand DEF Proper, ProperFor
<1>2. CASE (Muted \/ Failed) /\ res' = res
  BY <1>1, <1>2, AnswerTyped DEF Environs
<1>3. CASE Continue /\ res' = res
  BY <1>1, <1>3, ContinueTyped DEF Environs, Typed, WellMade
<1>4. ASSUME Continue, NEW new, RenderedFor(call, new), res' = [res EXCEPT ![o] = new]
      PROVE  Typed'
  <2>1. MayPut(o, new)
    BY <1>1, <1>4, RenderedForIs
  <2> HIDE DEF o
  <2>2. WellMade(res')
    BY <1>4, <2>1, PutWellMade DEF Typed
  <2> QED BY <1>1, <1>4, <2>2, ContinueTyped DEF Environs
<1> QED BY <1>2, <1>3, <1>4, ApplyEffect

LEMMA EraseTyped ==
  ASSUME Typed, todo # <<>>, running # None, Environs, NEW o, NEW gateway,
         NEW calls \in Seq(Calls), \A call \in Elements(calls) : Proper(call),
         o \in Resources, o # Of("Deployment", Foreign),
         DeleteObject(o, gateway, calls)
  PROVE  Typed'
<1>1. CASE Failed /\ res' = res
  BY <1>1, AnswerTyped DEF Environs
<1>2. CASE Instead(calls) /\ res' = res
  BY <1>2, InsteadTyped DEF Environs, Typed, WellMade
<1>3. CASE Instead(calls) /\ res' = [res EXCEPT ![o] = None]
  <2>1. res' = [x \in Resources |-> IF x \in {o} THEN None ELSE res[x]]
    BY <1>3 DEF Typed, WellMade
  <2>2. WellMade(res')
    BY <2>1, DropWellMade DEF Typed
  <2> QED BY <1>3, <2>2, InsteadTyped DEF Environs
<1> QED BY <1>1, <1>2, <1>3, EraseEffect

LEMMA DeleteTyped ==
  ASSUME Typed, DoDelete
  PROVE  Typed'
<1> DEFINE call == Head(todo)
           o == Object(call)
<1>1. todo # <<>> /\ running # None /\ Environs /\ DeleteObject(o, call.gateway, <<>>)
  BY DEF DoDelete, Calling, Environs, Object
<1>2. Proper(call)
  BY <1>1, NextCall
<1>3. o \in Resources /\ o # Of("Deployment", Foreign)
  BY <1>2, ResourcesAre, ForeignAssumption DEF Proper, ProperFor, Object
<1>4. <<>> \in Seq(Calls) /\ Elements(<<>>) = {}
  BY ElementsOfNone
<1> HIDE DEF call, o
<1> QED BY <1>1, <1>3, <1>4, EraseTyped

LEMMA ReplaceCall ==
  ASSUME Typed, DoReplace
  PROVE  LET call == Head(todo)
             create == [call EXCEPT !.do = "create"]
             o == Object(call)
         IN /\ todo # <<>> /\ running # None /\ Environs
            /\ call.do = "apply" /\ call.kind = "Service" /\ o.kind = "Service"
            /\ Proper(call) /\ Proper(create)
            /\ create.kind = "Service" /\ create.name = call.name /\ create.do = "create"
            /\ <<create>> \in Seq(Calls) /\ Elements(<<create>>) = {create}
            /\ DeleteObject(o, None, <<create>>)
            /\ seen[o] # None
<1> DEFINE call == Head(todo)
           create == [call EXCEPT !.do = "create"]
           o == Object(call)
<1>1. /\ todo # <<>> /\ running # None /\ Environs /\ call.do = "apply"
      /\ DeleteObject(o, None, <<create>>)
      /\ seen[o] # None /\ o.kind = "Service"
  BY DEF DoReplace, Calling, Environs, Object, WrongType
<1>2. Proper(call) /\ call \in Calls /\ call.kind = "Service"
  BY <1>1, NextCall, ResourcesAre DEF Proper, ProperFor, Object
<1>3. /\ create \in Calls /\ create.kind = call.kind /\ create.name = call.name
      /\ create.gateway = call.gateway /\ create.do = "create"
  BY <1>2 DEF Calls
<1> HIDE DEF create
<1>4. Proper(create)
  BY <1>1, <1>2, <1>3 DEF Proper, ProperFor
<1> QED BY <1>1, <1>2, <1>3, <1>4, ElementsOfOne DEF create

LEMMA ReplaceTyped ==
  ASSUME Typed, DoReplace
  PROVE  Typed'
<1> DEFINE call == Head(todo)
           calls == <<[call EXCEPT !.do = "create"]>>
           o == Object(call)
<1>1. /\ todo # <<>> /\ running # None /\ Environs /\ calls \in Seq(Calls)
      /\ \A x \in Elements(calls) : Proper(x)
      /\ DeleteObject(o, None, calls)
  BY ReplaceCall
<1>2. o \in Resources /\ o # Of("Deployment", Foreign)
  BY ReplaceCall, ResourcesAre DEF Proper, ProperFor, Object
<1> HIDE DEF call, calls, o
<1> QED BY <1>1, <1>2, EraseTyped

LEMMA UnlabelTyped ==
  ASSUME Typed, DoUnlabel
  PROVE  Typed'
<1> DEFINE o == Object(Head(todo))
<1>1. /\ todo # <<>> /\ running # None /\ Environs /\ o \in Resources
  BY UnlabelEffect
<1>2. PICK g \in Gateways : o = Of("Deployment", g)
  BY UnlabelEffect
<1>3. CASE (Muted \/ Failed) /\ res' = res
  BY <1>1, <1>3, AnswerTyped DEF Environs
<1>4. CASE Continue /\ res' = res
  BY <1>1, <1>4, ContinueTyped DEF Environs, Typed, WellMade
<1>5. CASE /\ Continue /\ seen[o] # None /\ seen[o] = res[o]
           /\ res' = [res EXCEPT ![o] = [res[o] EXCEPT !.label = None]]
  <2> DEFINE new == [res[o] EXCEPT !.label = None]
  <2>1. /\ res[o] \in Objects /\ o.kind = "Deployment" /\ o.name = g
        /\ res[o].mesh => g \in Routers
    BY <1>1, <1>2, <1>5, ResourcesAre DEF Typed, WellMade
  <2>2. o # Of("Deployment", Foreign) /\ o # Of("Service", ForeignService)
    BY <1>2, ResourcesAre, ForeignAssumption
  <2>3. res[o].by \in CRs
    BY <1>1, <1>5, <2>1, <2>2 DEF Typed, WellMade, Objects
  <2>4. /\ new \in Objects /\ new.by = res[o].by /\ new.mesh = res[o].mesh
        /\ new.label = None
    BY <2>1 DEF Objects
  <2>5. MayPut(o, new)
    BY <1>1, <2>1, <2>2, <2>3, <2>4 DEF MayPut
  <2> HIDE DEF o
  <2>6. WellMade(res')
    BY <1>5, <2>5, PutWellMade DEF Typed
  <2> QED BY <1>1, <1>5, <2>6, ContinueTyped DEF Environs
<1> QED BY <1>3, <1>4, <1>5, UnlabelEffect

LEMMA DeleteIsProper ==
  ASSUME NEW g \in Gateways, NEW kind \in Everything \cup {"Service"},
         kind = "Service" => g \in Routers, NEW c, NEW o
  PROVE  ProperFor(Delete(kind, g), c, o)
<1> DEFINE call == Delete(kind, g)
<1>1. call.do = "delete" /\ call.kind = kind /\ call.name = g
  BY DEF Delete, Call
<1>2. call \in Calls
  BY CallIsCall DEF Delete
<1> HIDE DEF call
<1>3. Of(call.kind, call.name) \in Resources
  BY <1>1, ResourcesAre DEF Everything
<1>4. ProperFor(call, c, o)
  BY <1>1, <1>2, <1>3 DEF ProperFor
<1> QED BY <1>4 DEF call

LEMMA DeleteServiceIsProper ==
  ASSUME NEW name \in Names, NEW g \in Gateways, NEW c, NEW o
  PROVE  ProperFor(Call("delete", "Service", name, g), c, o)
<1> DEFINE call == Call("delete", "Service", name, g)
<1>1. call.do = "delete" /\ call.kind = "Service" /\ call.name = name
  BY DEF Call
<1>2. call \in Calls
  BY CallIsCall
<1> HIDE DEF call
<1>3. Of(call.kind, call.name) \in Resources
  BY <1>1, ResourcesAre
<1>4. ProperFor(call, c, o)
  BY <1>1, <1>2, <1>3 DEF ProperFor
<1> QED BY <1>4 DEF call

LEMMA CompoundIsProper ==
  ASSUME NEW g \in Gateways, NEW c, NEW o
  PROVE  /\ ProperFor(DeleteFacadeGateway(g), c, o) /\ ProperFor(Unlabel(g), c, o)
         /\ g \in Routers => ProperFor(Unneeded(g), c, o)
<1>1. ASSUME NEW do \in {"deleteFacadeGateway", "unlabel", "deleteMeshRouter"},
             do = "deleteMeshRouter" => g \in Routers
      PROVE  ProperFor(Call(do, "Deployment", g, None), c, o)
  <2> DEFINE call == Call(do, "Deployment", g, None)
  <2>1. call.do = do /\ call.kind = "Deployment" /\ call.name = g
    BY DEF Call
  <2>2. call \in Calls
    BY CallIsCall DEF Everything
  <2> HIDE DEF call
  <2>3. Of(call.kind, call.name) \in Resources
    BY <2>1, ResourcesAre
  <2>4. ProperFor(call, c, o)
    BY <1>1, <2>1, <2>2, <2>3 DEF ProperFor
  <2> QED BY <2>4 DEF call
<1> QED BY <1>1 DEF DeleteFacadeGateway, Unlabel, Unneeded

LEMMA ApplyIsProper ==
  ASSUME NEW c \in CRs, NEW o, o # None, NEW kind \in Everything \cup {"Service"},
         NEW name \in Names \cup Gateways, NEW g \in Gateways,
         Of(kind, name) \in Resources,
         kind # "Service" => name = Target(c, o) /\ name \in Gateways /\ g = name,
         kind = "Service" => (name = c.name /\ g = Target(c, o)) \/ name \in Routers
  PROVE  ProperFor(Apply(kind, name, g), c, o)
<1> DEFINE call == Apply(kind, name, g)
<1>1. call.do = "apply" /\ call.kind = kind /\ call.name = name /\ call.gateway = g
  BY DEF Apply, Call
<1>2. call \in Calls
  BY ApplyIsCall
<1> HIDE DEF call
<1>3. ProperFor(call, c, o)
  BY <1>1, <1>2 DEF ProperFor, Everything, Monitored
<1> QED BY <1>3 DEF call

LEMMA ApplyAllIsProper ==
  ASSUME NEW c \in CRs, NEW o \in CRObjects
  PROVE  LET g == Target(c, o)
         IN /\ \A kind \in Everything : ProperFor(Apply(kind, g, g), c, o)
            /\ ProperFor(Apply("Service", c.name, g), c, o)
            /\ g \in Routers => ProperFor(Apply("Service", g, g), c, o)
<1> DEFINE g == Target(c, o)
<1>1. g \in Gateways /\ c.name \in Names /\ o # None
  BY TargetIsGateway, NamesAndGateways, GatewayNoneAssumption
<1>2. /\ \A kind \in Everything : Of(kind, g) \in Resources /\ kind # "Service"
      /\ Of("Service", c.name) \in Resources
      /\ g \in Routers => Of("Service", g) \in Resources
  BY <1>1, ResourcesAre DEF Everything, Monitored
<1>3. \A kind \in Everything : ProperFor(Apply(kind, g, g), c, o)
  BY <1>1, <1>2, ApplyIsProper
<1>4. ProperFor(Apply("Service", c.name, g), c, o)
  BY <1>1, <1>2, ApplyIsProper
<1>5. g \in Routers => ProperFor(Apply("Service", g, g), c, o)
  BY <1>1, <1>2, ApplyIsProper
<1> QED BY <1>3, <1>4, <1>5

LEMMA PriorityIsProper ==
  ASSUME NEW c, NEW o \in CRObjects, Composite(o)
  PROVE  ProperFor(PriorityCall(o.gateway), c, o)
<1> DEFINE call == PriorityCall(o.gateway)
<1>1. o.gateway \in Gateways /\ o # None
  BY NamesAndGateways, GatewayNoneAssumption DEF Composite, CRObjects
<1>2. call.do = "priority" /\ call.kind = "Deployment" /\ call.name = o.gateway
  BY DEF PriorityCall, Call
<1>3. call \in Calls
  BY <1>1, CallIsCall DEF PriorityCall, Everything
<1>4. call = Call("priority", "Deployment", o.gateway, None)
  BY DEF PriorityCall
<1> HIDE DEF call
<1>5. Of(call.kind, call.name) \in Resources
  BY <1>1, <1>2, ResourcesAre
<1>6. ProperFor(call, c, o)
  BY <1>1, <1>2, <1>3, <1>4, <1>5 DEF ProperFor
<1> QED BY <1>6 DEF call

LEMMA DeleteMeshRouterTyped ==
  ASSUME Typed, DoDeleteMeshRouter
  PROVE  Typed'
<1> DEFINE g == Head(todo).name
<1>1. /\ todo # <<>> /\ running # None /\ Environs
      /\ Instead(DeleteMeshRouter(g)) /\ res' = res
      /\ Head(todo).do = "deleteMeshRouter"
  BY DEF DoDeleteMeshRouter, Calling, Environs
<1>2. g \in Routers
  BY <1>1, NextCall DEF Proper, ProperFor
<1>3. /\ DeleteMeshRouter(g) \in Seq(Calls)
      /\ Elements(DeleteMeshRouter(g))
           = {Delete("Service", g)} \cup {Delete(kind, g) : kind \in Everything}
  BY <1>2, DeleteMeshRouterCalls
<1>4. \A kind \in Everything \cup {"Service"} : Proper(Delete(kind, g))
  BY <1>2, DeleteIsProper, NamesAndGateways DEF Proper
<1>5. \A x \in Elements(DeleteMeshRouter(g)) : Proper(x)
  BY <1>3, <1>4
<1> QED BY <1>1, <1>3, <1>5, InsteadTyped DEF Environs, Typed, WellMade

LEMMA DeleteFacadeGatewayTyped ==
  ASSUME Typed, DoDeleteFacadeGateway
  PROVE  Typed'
<1> DEFINE g == Head(todo).name
           found == seen[Of("Deployment", g)]
           calls == IF found = None \/ found.mesh \/ found.by = None THEN <<>>
                    ELSE DeleteGateway(g)
<1>1. /\ todo # <<>> /\ running # None /\ Environs /\ Instead(calls) /\ res' = res
      /\ Head(todo).do = "deleteFacadeGateway"
  BY DEF DoDeleteFacadeGateway, Calling, Environs
<1>2. g \in Gateways
  BY <1>1, NextCall DEF Proper, ProperFor
<1>3. /\ DeleteGateway(g) \in Seq(Calls)
      /\ Elements(DeleteGateway(g)) = {Delete(kind, g) : kind \in Everything}
  BY <1>2, DeleteGatewayCalls
<1>4. \A kind \in Everything : Proper(Delete(kind, g))
  BY <1>2, DeleteIsProper DEF Proper, Everything, Monitored
<1>5. calls \in Seq(Calls) /\ \A x \in Elements(calls) : Proper(x)
  <2>1. calls \in {<<>>, DeleteGateway(g)}
    OBVIOUS
  <2> HIDE DEF calls
  <2>2. CASE calls = <<>>
    BY <2>2, ElementsOfNone
  <2>3. CASE calls = DeleteGateway(g)
    BY <2>3, <1>3, <1>4
  <2> QED BY <2>1, <2>2, <2>3
<1> HIDE DEF calls
<1> QED BY <1>1, <1>5, InsteadTyped DEF Environs, Typed, WellMade

LEMMA PriorityTyped ==
  ASSUME Typed, DoPriority
  PROVE  Typed'
<1> DEFINE g == Head(todo).name
           calls == IF MayConfigure(running, obj, g) THEN Configure(g, obj) ELSE <<>>
<1>1. /\ todo # <<>> /\ running # None /\ Environs /\ Instead(calls) /\ res' = res
      /\ Head(todo).do = "priority"
  BY DEF DoPriority, Calling, Environs
<1>2. /\ obj \in CRObjects /\ running \in CRs /\ Composite(obj) /\ g = obj.gateway
      /\ g \in Routers /\ g \in Gateways /\ g = Target(running, obj)
  <2>1. obj # None /\ Composite(obj) /\ Head(todo) = PriorityCall(obj.gateway)
    BY <1>1, NextCall DEF Proper, ProperFor, PriorityCall
  <2>2. g = obj.gateway
    BY <2>1 DEF PriorityCall, Call
  <2> HIDE DEF g
  <2> QED BY <2>1, <2>2, ObjectInHand, TargetIsGateway, NamesAndGateways
<1>3. calls \in Seq(Calls) /\ \A x \in Elements(calls) : Proper(x)
  <2>1. /\ Configure(g, obj) \in Seq(Calls)
        /\ \A x \in Elements(Configure(g, obj)) :
             x = Apply("Service", g, g) \/ \E kind \in Everything : x = Apply(kind, g, g)
    BY <1>2, ConfigureCalls
  <2>2. Proper(Apply("Service", g, g)) /\ \A kind \in Everything : Proper(Apply(kind, g, g))
    BY <1>2, ApplyAllIsProper DEF Proper
  <2>3. calls \in {<<>>, Configure(g, obj)}
    OBVIOUS
  <2> HIDE DEF calls, g
  <2>4. CASE calls = <<>>
    BY <2>4, ElementsOfNone
  <2>5. CASE calls = Configure(g, obj)
    BY <2>5, <2>1, <2>2
  <2> QED BY <2>3, <2>4, <2>5
<1> HIDE DEF calls
<1> QED BY <1>1, <1>3, InsteadTyped DEF Environs, Typed, WellMade

Work(c) ==
  IF crs[c] = None THEN DeleteFacadeService(c)
  ELSE IF Composite(crs[c]) THEN ApplyMeshRouter(c, crs[c])
  ELSE ApplyFacadeGateway(c)

LEMMA WorkIs ==
  ASSUME Typed, NEW c \in CRs
  PROVE  LET f == FacadeOf[c.name]
             o == crs[c]
         IN /\ Work(c) \in Seq(Calls)
            /\ Elements(Work(c)) =
                 IF o = None
                 THEN {Call("delete", "Service", c.name, f), DeleteFacadeGateway(f)}
                 ELSE IF Composite(o)
                 THEN (IF c.name = CoreEgressGateway THEN {}
                       ELSE {Apply("Service", c.name, o.gateway)})
                      \cup {PriorityCall(o.gateway), DeleteFacadeGateway(f)}
                 ELSE {Apply("Service", c.name, f)}
                      \cup {Apply(kind, f, f) : kind \in Everything}
            /\ \A call \in Elements(Work(c)) : ProperFor(call, c, o)
<1> DEFINE f == FacadeOf[c.name]
           o == crs[c]
<1>1. c.name \in Names /\ f \in Gateways
  BY NamesAndGateways
<1>2. CASE o = None
  <2>1. /\ Work(c) \in Seq(Calls)
        /\ Elements(Work(c)) = {Call("delete", "Service", c.name, f), DeleteFacadeGateway(f)}
    BY <1>2, FacadeServiceCalls DEF Work
  <2>2. /\ ProperFor(Call("delete", "Service", c.name, f), c, o)
        /\ ProperFor(DeleteFacadeGateway(f), c, o)
    BY <1>1, DeleteServiceIsProper, CompoundIsProper
  <2> QED BY <1>2, <2>1, <2>2
<1>3. CASE o # None /\ Composite(o)
  <2>1. /\ o \in CRObjects /\ o.gateway \in Routers /\ Target(c, o) = o.gateway
    BY <1>3, TargetIsGateway DEF Typed
  <2>2. /\ Work(c) \in Seq(Calls)
        /\ Elements(Work(c))
             = (IF c.name = CoreEgressGateway THEN {}
                ELSE {Apply("Service", c.name, o.gateway)})
               \cup {PriorityCall(o.gateway), DeleteFacadeGateway(f)}
    BY <1>3, <2>1, MeshRouterCalls DEF Work
  <2>3. /\ ProperFor(Apply("Service", c.name, o.gateway), c, o)
        /\ ProperFor(PriorityCall(o.gateway), c, o)
        /\ ProperFor(DeleteFacadeGateway(f), c, o)
    BY <1>1, <1>3, <2>1, ApplyAllIsProper, PriorityIsProper, CompoundIsProper
  <2> QED BY <1>3, <2>2, <2>3
<1>4. CASE o # None /\ ~Composite(o)
  <2>1. o \in CRObjects /\ Target(c, o) = f
    BY <1>4, TargetIsGateway DEF Typed
  <2>2. /\ Work(c) \in Seq(Calls)
        /\ Elements(Work(c))
             = {Apply("Service", c.name, f)} \cup {Apply(kind, f, f) : kind \in Everything}
    BY <1>4, FacadeGatewayCalls DEF Work
  <2>3. /\ ProperFor(Apply("Service", c.name, f), c, o)
        /\ \A kind \in Everything : ProperFor(Apply(kind, f, f), c, o)
    BY <2>1, ApplyAllIsProper
  <2> QED BY <1>4, <2>2, <2>3
<1> QED BY <1>2, <1>3, <1>4

LEMMA StartCalls ==
  ASSUME Typed, NEW c \in CRs, Start(c)
  PROVE  /\ todo' \in Seq(Calls)
         /\ \E calls \in Cleanup : Pending' = Elements(calls) \cup Elements(Work(c))
         /\ \A call \in Pending' : ProperFor(call, c, crs[c])
<1>1. PICK calls \in Cleanup : todo' = calls \o Work(c)
  BY DEF Start, Work
<1>2. /\ calls \in Seq(Calls)
      /\ \A x \in Elements(calls) : \E g \in MeshRouters : x = Unneeded(g) \/ x = Unlabel(g)
  BY CleanupCalls
<1>3. Work(c) \in Seq(Calls) /\ \A call \in Elements(Work(c)) : ProperFor(call, c, crs[c])
  BY WorkIs
<1>4. todo' \in Seq(Calls) /\ Pending' = Elements(calls) \cup Elements(Work(c))
  BY <1>1, <1>2, <1>3, ElementsOfConcat DEF Pending
<1>5. MeshRouters \subseteq Routers /\ MeshRouters \subseteq Gateways
  BY DEF MeshRouters, Typed, WellMade
<1>6. \A x \in Elements(calls) : ProperFor(x, c, crs[c])
  BY <1>2, <1>5, CompoundIsProper
<1> QED BY <1>3, <1>4, <1>6

LEMMA StartTyped ==
  ASSUME Typed, NEW c \in CRs, Start(c)
  PROVE  Typed'
<1>1. running' = c /\ obj' = crs[c] /\ queue' = queue \ {c} /\ backingOff' = backingOff \ {c}
      /\ UNCHANGED <<crs, born, res, seen, headless>>
  BY DEF Start, envVars
<1>2. todo' \in Seq(Calls) /\ \A call \in Pending' : ProperFor(call, running', obj')
  BY <1>1, StartCalls
<1>3. running' # None
  BY <1>1, NamesAndGateways
<1>4. WellMade(res') /\ WellMade(seen')
  BY <1>1 DEF Typed, WellMade
<1> QED BY <1>1, <1>2, <1>3, <1>4 DEF Typed, Proper, ProperFor

LEMMA InitTyped == Init => Typed
<1> SUFFICES ASSUME Init PROVE Typed
  OBVIOUS
<1>1. crs \in [CRs -> CRObjects \cup {None}] /\ born \in [CRs -> Nat]
  <2>1. \A c \in CRs : InitialSpecs[c] # None => CRObject(InitialSpecs[c], 0) \in CRObjects
    BY GatewaySpecsAssumption DEF CRObject, CRObjects, Written
  <2> QED BY <2>1 DEF Init
<1>2. Users(Foreign) \in Objects /\ Users(None) \in Objects
  BY DEF Users, Objects
<1>3. /\ Users(Foreign).by = None /\ Users(Foreign).owners = {}
      /\ Users(Foreign).selects = Foreign
      /\ Users(None).by = None /\ Users(None).owners = {}
  BY DEF Users
<1>4. Users(None) # None
  BY <1>2, GatewayNoneAssumption
<1> DEFINE s == Of("Service", ForeignService)
           d == Of("Deployment", Foreign)
<1>5. /\ res \in [Resources -> Objects \cup {None}] /\ s # d /\ d \in Resources
      /\ d.kind = "Deployment" /\ s.kind = "Service"
      /\ res[d] = Users(None)
      /\ \A o \in Resources : res[o] = IF o = s THEN Users(Foreign)
                                      ELSE IF o = d THEN Users(None) ELSE None
  <2>1. d \in Resources /\ d.kind = "Deployment" /\ s.kind = "Service" /\ s # d
    BY ResourcesAre
  <2>2. res = [o \in Resources |-> IF o = s THEN Users(Foreign)
                                   ELSE IF o = d THEN Users(None) ELSE None]
    BY DEF Init
  <2> HIDE DEF s, d
  <2> QED BY <1>2, <2>1, <2>2
<1>6. \A g \in Gateways : res[Of("Deployment", g)] = None
  <2> SUFFICES ASSUME NEW g \in Gateways PROVE res[Of("Deployment", g)] = None
    OBVIOUS
  <2>1. Of("Deployment", g) # s /\ Of("Deployment", g) # d /\ Of("Deployment", g) \in Resources
    BY ResourcesAre, ForeignAssumption
  <2> QED BY <1>5, <2>1
<1> HIDE DEF s, d
<1>7. WellMade(res)
  BY <1>3, <1>4, <1>5, <1>6 DEF WellMade, s, d
<1>8. WellMade(seen)
  BY <1>7 DEF Init, WellMade
<1>9. todo \in Seq(Calls) /\ Pending = {}
  <2>1. todo = <<>>
    BY DEF Init
  <2> QED BY <2>1, ElementsOfNone DEF Pending
<1>10. /\ headless \in BOOLEAN /\ queue \subseteq CRs /\ backingOff \subseteq CRs
       /\ running = None /\ obj = None /\ todo = <<>>
  BY DEF Init
<1> QED BY <1>1, <1>7, <1>8, <1>9, <1>10 DEF Typed

LEMMA CRsTyped ==
  ASSUME Typed, NEW c \in CRs, WriteCR(c) \/ DeleteCR(c)
  PROVE  Typed'
<1>1. /\ running = None /\ obj = None /\ todo = <<>>
      /\ queue' \subseteq CRs
      /\ UNCHANGED <<res, seen, headless, running, obj, todo, backingOff>>
  BY ObjectInHand DEF WriteCR, DeleteCR, Change, Typed
<1>2. crs' \in [CRs -> CRObjects \cup {None}] /\ born' \in [CRs -> Nat]
  <2>1. CASE DeleteCR(c)
    BY <2>1 DEF DeleteCR, Typed
  <2>2. CASE WriteCR(c)
    <3> DEFINE n == IF crs[c] = None THEN born[c] ELSE crs[c].inc
    <3>1. PICK w \in Specs[c] : /\ crs' = [crs EXCEPT ![c] = CRObject(w, n)]
                               /\ born' = [born EXCEPT ![c] = n + 1]
      BY <2>2 DEF WriteCR
    <3>2. n \in Nat
      BY DEF Typed, CRObjects
    <3>3. w \in Written
      BY <3>1, GatewaySpecsAssumption
    <3> HIDE DEF n
    <3>4. CRObject(w, n) \in CRObjects
      BY <3>2, <3>3 DEF CRObject, CRObjects, Written
    <3> QED BY <3>1, <3>2, <3>4 DEF Typed
  <2> QED BY <2>1, <2>2
<1>3. todo' \in Seq(Calls) /\ Pending' = {}
  BY <1>1, ElementsOfNone DEF Pending, Typed
<1>4. WellMade(res') /\ WellMade(seen')
  BY <1>1 DEF Typed, WellMade
<1> QED BY <1>1, <1>2, <1>3, <1>4 DEF Typed

LEMMA SyncWellMade ==
  ASSUME WellMade(res), WellMade(seen), NEW late,
         seen' = [o \in Resources |-> IF o \in late THEN res[o] ELSE seen[o]]
  PROVE  WellMade(seen')
<1>1. \A kind, name : Of(kind, name) \in Resources =>
        seen'[Of(kind, name)] \in {seen[Of(kind, name)], res[Of(kind, name)]}
  OBVIOUS
<1>2. \A g \in Gateways \cup {Foreign} : Of("Deployment", g) \in Resources
  BY ResourcesAre
<1> QED BY <1>1, <1>2 DEF WellMade

LEMMA SyncTyped ==
  ASSUME Typed, NEW kinds, Sync(kinds)
  PROVE  Typed'
<1> DEFINE late == {o \in Resources : o.kind \in kinds /\ Conflict(o)}
<1>1. /\ seen' = [o \in Resources |-> IF o \in late THEN res[o] ELSE seen[o]]
      /\ UNCHANGED <<crs, born, res, headless, queue, running, obj, backingOff, todo>>
  BY DEF Sync, envVars, runVars
<1> HIDE DEF late
<1>2. WellMade(seen') /\ WellMade(res')
  BY <1>1, SyncWellMade DEF Typed, WellMade
<1>3. Pending' = Pending
  BY <1>1 DEF Pending
<1>4. \A call \in Pending' : Proper(call)'
  BY <1>1, <1>3, SameProper DEF Typed
<1> QED BY <1>1, <1>2, <1>4 DEF Typed

\* A user's objects are not collected: they have no owners.
LEMMA OnlyOwnedAreCollected ==
  ASSUME Typed, NEW o \in Resources, Collectable(o)
  PROVE  res[o].by # None /\ o # Of("Deployment", Foreign)
BY DEF Collectable, Typed, WellMade

LEMMA GarbageTyped ==
  ASSUME Typed, NEW kinds, CollectGarbage(kinds)
  PROVE  Typed'
<1> DEFINE gone == {o \in Resources : o.kind \in kinds /\ Collectable(o)}
<1>1. /\ res' = [o \in Resources |-> IF o \in gone THEN None ELSE res[o]]
      /\ UNCHANGED <<crs, born, seen, headless, queue, running, obj, backingOff, todo>>
  BY DEF CollectGarbage, envVars, runVars
<1>2. Of("Deployment", Foreign) \notin gone
  BY OnlyOwnedAreCollected
<1> HIDE DEF gone
<1>3. WellMade(seen') /\ WellMade(res')
  BY <1>1, <1>2, DropWellMade DEF Typed, WellMade
<1>4. Pending' = Pending
  BY <1>1 DEF Pending
<1>5. \A call \in Pending' : Proper(call)'
  BY <1>1, <1>4, SameProper DEF Typed
<1> QED BY <1>1, <1>3, <1>5 DEF Typed

LEMMA RestartTyped ==
  ASSUME Typed, Restart
  PROVE  Typed'
<1>1. /\ running' = None /\ obj' = None /\ todo' = <<>> /\ Pending' = {}
      /\ seen' = res /\ headless' \in BOOLEAN /\ queue' \subseteq CRs
      /\ UNCHANGED <<crs, born, res, backingOff>>
  BY ElementsOfNone DEF Restart, Stop, Pending, envVars
<1>2. <<>> \in Seq(Calls)
  OBVIOUS
<1>3. WellMade(res') /\ WellMade(seen')
  BY <1>1 DEF Typed, WellMade
<1> QED BY <1>1, <1>2, <1>3 DEF Typed

LEMMA TypedNext == Typed /\ [Next]_vars => Typed'
<1> SUFFICES ASSUME Typed, [Next]_vars PROVE Typed'
  OBVIOUS
<1>1. ASSUME NEW c \in CRs, Start(c) PROVE Typed'
  BY <1>1, StartTyped
<1>2. ASSUME NEW c \in CRs, WriteCR(c) \/ DeleteCR(c) PROVE Typed'
  BY <1>2, CRsTyped
<1>3. CASE DoApply \/ DoCreate
  BY <1>3, ApplyTyped
<1>4. CASE DoReplace
  BY <1>4, ReplaceTyped
<1>5. CASE DoDelete
  BY <1>5, DeleteTyped
<1>6. CASE DoUnlabel
  BY <1>6, UnlabelTyped
<1>7. CASE DoDeleteMeshRouter
  BY <1>7, DeleteMeshRouterTyped
<1>8. CASE DoPriority
  BY <1>8, PriorityTyped
<1>9. CASE DoDeleteFacadeGateway
  BY <1>9, DeleteFacadeGatewayTyped
<1>10. CASE Finish
  <2>1. Stop /\ UNCHANGED <<envVars, res, seen, headless, queue, backingOff>>
    BY <1>10 DEF Finish
  <2> QED BY <2>1, StopTyped DEF Typed
<1>11. CASE CallFails
  <2>1. running # None /\ Failed /\ UNCHANGED <<envVars, res, seen, headless>>
    BY <1>11 DEF CallFails
  <2> QED BY <2>1, AnswerTyped
<1>12. ASSUME NEW kinds, Sync(kinds) PROVE Typed'
  BY <1>12, SyncTyped
<1>13. ASSUME NEW kinds, CollectGarbage(kinds) PROVE Typed'
  BY <1>13, GarbageTyped
<1>14. CASE Restart
  BY <1>14, RestartTyped
<1>15. CASE Rest \/ UNCHANGED vars
  <2>1. /\ Pending' = Pending
        /\ UNCHANGED <<crs, born, res, seen, headless, queue, running, obj, todo,
                       backingOff>>
    BY <1>15 DEF Rest, vars, envVars, runVars, Pending
  <2>2. \A call \in Pending' : Proper(call)'
    BY <2>1, SameProper DEF Typed
  <2>3. WellMade(res') /\ WellMade(seen')
    BY <2>1 DEF Typed, WellMade
  <2> QED BY <2>1, <2>2, <2>3 DEF Typed
<1> QED BY <1>1, <1>2, <1>3, <1>4, <1>5, <1>6, <1>7, <1>8, <1>9, <1>10, <1>11, <1>12,
           <1>13, <1>14, <1>15 DEF Next

LEMMA AlwaysTyped == Spec => []Typed
BY InitTyped, TypedNext, PTL DEF Spec

LEMMA TypedIsTypeOK == Typed => TypeOK
<1> SUFFICES ASSUME Typed PROVE TypeOK
  OBVIOUS
<1>1. /\ DOMAIN res = Resources /\ DOMAIN seen = Resources
      /\ \A o \in Resources : res[o] \in Objects \cup {None} /\ seen[o] \in Objects \cup {None}
  BY DEF Typed, WellMade
<1>2. ASSUME NEW i \in DOMAIN todo, todo[i].do \in {"apply", "create", "priority"}
      PROVE  running # None /\ obj # None
  <2>1. todo[i] \in Pending
    BY DEF Pending, Elements
  <2>2. obj # None
    BY <1>2, <2>1 DEF Typed, Proper, ProperFor
  <2> QED BY <2>2 DEF Typed
<1> QED BY <1>1, <1>2 DEF Typed, TypeOK

\* The objects stay well formed and a reconcile has a CR in hand for every call
\* that renders one.
THEOREM ResourcesTypeCorrect == Spec => []TypeOK
BY AlwaysTyped, TypedIsTypeOK, PTL

-----------------------------------------------------------------------------
(* The service of a user                                                   *)
LEMMA ForeignServiceIsSpared ==
  ASSUME Typed, NEW gateway \in Gateways \cup {None}, NEW calls,
         LET o == Of("Service", ForeignService)
         IN /\ res[o] # None /\ res[o].by = None
            /\ DeleteObject(o, gateway, calls)
  PROVE  res' = res
<1> DEFINE o == Of("Service", ForeignService)
           d == Of("Deployment", Foreign)
<1>1. o.kind = "Service" /\ o \in Resources
  BY ResourcesAre
<1>2. res[o].selects = Foreign
  BY <1>1 DEF Typed, WellMade
<1>3. seen[d] # None /\ seen[d].by = None
  BY DEF Typed, WellMade
<1> SUFFICES ASSUME res' # res PROVE FALSE
  OBVIOUS
<1>4. SelectsManaged(o, gateway) /\ seen[o] = res[o]
  BY <1>1, EraseEffect
<1>5. seen[o].selects = Foreign
  BY <1>2, <1>4
<1> HIDE DEF o
<1>6. SelectsManaged(o, gateway) <=> gateway # None /\ Foreign = gateway
  BY <1>3, <1>5 DEF SelectsManaged
<1> QED BY <1>4, <1>6, ForeignAssumption

LEMMA ForeignServiceNext ==
  ASSUME Typed, Next,
         LET o == Of("Service", ForeignService) IN res[o] # None /\ res[o].by = None
  PROVE  res'[Of("Service", ForeignService)] # None
<1> DEFINE o == Of("Service", ForeignService)
<1>1. o \in Resources /\ o.kind = "Service"
  BY ResourcesAre
<1>2. \A x : x # o /\ res' = [res EXCEPT ![x] = None] => res'[o] # None
  BY <1>1 DEF Typed, WellMade
<1>3. CASE UNCHANGED res
  BY <1>3
<1>4. CASE DoApply \/ DoCreate
  <2> DEFINE x == Object(Head(todo))
  <2>1. \/ res' = res
        \/ \E new : RenderedFor(Head(todo), new) /\ res' = [res EXCEPT ![x] = new]
    BY <1>4, ApplyEffect
  <2>2. ASSUME NEW new, RenderedFor(Head(todo), new), res' = [res EXCEPT ![x] = new]
        PROVE  res'[o] # None
    <3>1. /\ Proper(Head(todo)) /\ Head(todo).do \in {"apply", "create"}
          /\ running \in CRs /\ obj \in CRObjects
      BY <1>4, ApplyEffect, NextCall, ObjectInHand DEF Proper, ProperFor
    <3>2. new \in Objects
      BY <2>2, <3>1, RenderedForIs
    <3>3. new # None
      BY <3>2, GatewayNoneAssumption
    <3> HIDE DEF x
    <3> QED BY <1>1, <2>2, <3>3 DEF Typed, WellMade
  <2> QED BY <2>1, <2>2
<1>5. CASE DoDelete
  <2> DEFINE call == Head(todo)
             x == Object(call)
  <2>1. todo # <<>> /\ DeleteObject(x, call.gateway, <<>>)
    BY <1>5 DEF DoDelete, Calling, Object
  <2>2. call.gateway \in Gateways \cup {None}
    BY <2>1, NextCall DEF Proper, ProperFor, Calls
  <2>3. x # o => res'[o] # None
    BY <1>2, <2>1, EraseEffect
  <2> HIDE DEF call, x
  <2>4. x = o => res' = res
    BY <2>1, <2>2, ForeignServiceIsSpared
  <2> QED BY <2>3, <2>4
<1>6. CASE DoReplace
  <2> DEFINE call == Head(todo)
             x == Object(call)
             calls == <<[call EXCEPT !.do = "create"]>>
  <2>1. DeleteObject(x, None, calls)
    BY <1>6 DEF DoReplace, Object
  <2> HIDE DEF call, x, calls
  <2>2. x # o => res'[o] # None
    BY <1>2, <2>1, EraseEffect
  <2>3. x = o => res' = res
    BY <2>1, ForeignServiceIsSpared
  <2> QED BY <2>2, <2>3
<1>7. CASE DoUnlabel
  <2> DEFINE x == Object(Head(todo))
  <2>1. PICK g \in Gateways : x = Of("Deployment", g)
    BY <1>7, UnlabelEffect
  <2>2. x # o
    BY <2>1, ResourcesAre
  <2>3. \/ res' = res
        \/ res' = [res EXCEPT ![x] = [res[x] EXCEPT !.label = None]]
    BY <1>7, UnlabelEffect
  <2> HIDE DEF x
  <2> QED BY <1>1, <2>2, <2>3 DEF Typed, WellMade
<1>8. ASSUME NEW kinds, CollectGarbage(kinds) PROVE res'[o] # None
  <2>1. ~Collectable(o)
    BY <1>1, OnlyOwnedAreCollected
  <2> QED BY <1>1, <1>8, <2>1 DEF CollectGarbage
<1>9. ASSUME NEW c \in CRs, Start(c) \/ WriteCR(c) \/ DeleteCR(c) PROVE UNCHANGED res
  BY <1>9 DEF Start, WriteCR, DeleteCR, Change
<1>10. ASSUME NEW kinds, Sync(kinds) PROVE UNCHANGED res
  BY <1>10 DEF Sync
<1>11. CASE DoDeleteMeshRouter \/ DoPriority \/ DoDeleteFacadeGateway \/ Finish
            \/ CallFails \/ Restart \/ Rest
  BY <1>3, <1>11
  DEF DoDeleteMeshRouter, DoPriority, DoDeleteFacadeGateway, Finish, CallFails, Restart,
      Rest, vars
<1> QED BY <1>3, <1>4, <1>5, <1>6, <1>7, <1>8, <1>9, <1>10, <1>11 DEF Next

\* The operator never deletes a service it did not write, however stale its
\* caches: such a service selects a Deployment of a user's, which no precondition
\* lets through, and has no owner whose end would have it collected.
THEOREM ForeignServiceIsKept == Spec => ForeignServiceKept
<1>1. Typed /\ [Next]_vars =>
        [LET o == Of("Service", ForeignService)
         IN res[o] # None /\ res[o].by = None => res'[o] # None]_vars
  BY ForeignServiceNext
<1> QED BY <1>1, AlwaysTyped, PTL DEF Spec, ForeignServiceKept
-----------------------------------------------------------------------------
(* What a reconcile deletes is used by no CR                               *)

Lives(c) == c \in CRs /\ crs[c] # None
Uses(c, g) == Lives(c) /\ Target(c, crs[c]) = g
Used(g) == \E c \in CRs : Uses(c, g)

Harmless(call) ==
  /\ /\ call.do \in {"delete", "deleteMeshRouter", "deleteFacadeGateway"}
     /\ call.kind # "Service"
     => ~Used(call.name)
  /\ call.do = "delete" /\ call.kind = "Service" =>
       \A c \in CRs : Lives(c) => c.name # call.name

Sparing == \A call \in Pending : Harmless(call)

LEMMA UsersAre ==
  ASSUME Apart, Typed, NEW c \in CRs, NEW g, Uses(c, g)
  PROVE  /\ crs[c] \in CRObjects /\ g \in Gateways
         /\ g \in Routers => Composite(crs[c]) /\ crs[c].gateway = g
         /\ g \notin Routers => ~Composite(crs[c]) /\ g = FacadeOf[c.name]
<1>1. crs[c] \in CRObjects /\ g = Target(c, crs[c])
  BY DEF Typed, Uses, Lives
<1>2. FacadeOf[c.name] \notin Routers
  BY DEF Apart, Names
<1> QED BY <1>1, <1>2, TargetIsGateway

LEMMA SameHarmless ==
  ASSUME UNCHANGED crs, NEW call, Harmless(call)
  PROVE  Harmless(call)'
BY DEF Harmless, Used, Uses, Lives

LEMMA InsteadSparing ==
  ASSUME Typed, Sparing, todo # <<>>, NEW calls \in Seq(Calls), Instead(calls),
         \A call \in Elements(calls) : Harmless(call), UNCHANGED crs
  PROVE  Sparing'
<1>1. \A call \in Pending' : Harmless(call)
  BY InsteadIs DEF Sparing
<1> QED BY <1>1, SameHarmless DEF Sparing

LEMMA ContinueSparing ==
  ASSUME Typed, Sparing, todo # <<>>, Continue, UNCHANGED crs
  PROVE  Sparing'
<1>1. <<>> \in Seq(Calls)
  OBVIOUS
<1> QED BY <1>1, InsteadSparing, ElementsOfNone DEF Continue

LEMMA StopSparing ==
  ASSUME Stop
  PROVE  Sparing'
BY ElementsOfNone DEF Stop, Sparing, Pending

LEMMA DeletesHarmless ==
  ASSUME NEW g, ~Used(g), NEW kind \in Everything
  PROVE  Harmless(Delete(kind, g))
<1>1. Delete(kind, g).kind # "Service" /\ Delete(kind, g).name = g
  BY DEF Delete, Call, Everything, Monitored
<1> QED BY <1>1 DEF Harmless

LEMMA AppliesHarmless ==
  ASSUME NEW call, call.do \in {"apply", "create", "priority", "unlabel"}
  PROVE  Harmless(call)
BY DEF Harmless

LEMMA StartSparing ==
  ASSUME Apart, Unique, Typed, NEW c \in CRs, Start(c)
  PROVE  Sparing'
<1> DEFINE f == FacadeOf[c.name]
<1>1. UNCHANGED crs
  BY DEF Start, envVars
<1>2. PICK calls \in Cleanup : Pending' = Elements(calls) \cup Elements(Work(c))
  BY StartCalls
<1>3. MeshRouters \subseteq Routers
  BY DEF MeshRouters, Typed, WellMade
<1>4. \A g \in Routers : ~Named(g) => ~Used(g)
  BY UsersAre DEF Used, Named, Uses, Lives
<1>5. \A call \in Elements(calls) : Harmless(call)
  <2> SUFFICES ASSUME NEW call \in Elements(calls) PROVE Harmless(call)
    OBVIOUS
  <2>1. PICK g \in MeshRouters : (call = Unneeded(g) /\ ~Named(g)) \/ call = Unlabel(g)
    BY CleanupCalls
  <2>2. CASE call = Unneeded(g) /\ ~Named(g)
    <3>1. call.do = "deleteMeshRouter" /\ call.name = g
      BY <2>2 DEF Unneeded, Call
    <3> QED BY <1>3, <1>4, <2>2, <3>1 DEF Harmless
  <2>3. CASE call = Unlabel(g)
    BY <2>3, AppliesHarmless DEF Unlabel, Call
  <2> QED BY <2>1, <2>2, <2>3
<1>6. (crs[c] = None \/ Composite(crs[c])) => Harmless(DeleteFacadeGateway(f))
  <2> SUFFICES ASSUME crs[c] = None \/ Composite(crs[c]) PROVE Harmless(DeleteFacadeGateway(f))
    OBVIOUS
  <2>1. ~Used(f)
    <3> SUFFICES ASSUME NEW d \in CRs, Uses(d, f) PROVE FALSE
      BY DEF Used
    <3>1. f \notin Routers
      BY DEF Apart, Names
    <3>2. ~Composite(crs[d]) /\ f = FacadeOf[d.name] /\ crs[d] # None
      BY <3>1, UsersAre DEF Uses, Lives
    <3>3. c = d
      BY <3>2 DEF Unique
    <3> QED BY <3>2, <3>3
  <2>2. /\ DeleteFacadeGateway(f).do = "deleteFacadeGateway"
        /\ DeleteFacadeGateway(f).name = f
    BY DEF DeleteFacadeGateway, Call
  <2> HIDE DEF f
  <2> QED BY <2>1, <2>2 DEF Harmless
<1>7. crs[c] = None => Harmless(Call("delete", "Service", c.name, f))
  <2> SUFFICES ASSUME crs[c] = None PROVE Harmless(Call("delete", "Service", c.name, f))
    OBVIOUS
  <2>1. \A d \in CRs : Lives(d) => d.name # c.name
    BY DEF Unique, Lives
  <2>2. LET call == Call("delete", "Service", c.name, f)
        IN call.do = "delete" /\ call.kind = "Service" /\ call.name = c.name
    BY DEF Call
  <2> QED BY <2>1, <2>2 DEF Harmless
<1>8. \A kind, name, g : Harmless(Apply(kind, name, g)) /\ Harmless(PriorityCall(g))
  <2>1. \A kind, name, g : Apply(kind, name, g).do = "apply" /\ PriorityCall(g).do = "priority"
    BY DEF Apply, PriorityCall, Call
  <2> QED BY <2>1, AppliesHarmless
<1>9. \A call \in Elements(Work(c)) : Harmless(call)
  <2> HIDE DEF f
  <2>1. CASE crs[c] = None
    BY <2>1, <1>6, <1>7, WorkIs DEF f
  <2>2. CASE crs[c] # None /\ Composite(crs[c])
    BY <2>2, <1>6, <1>8, WorkIs DEF f
  <2>3. CASE crs[c] # None /\ ~Composite(crs[c])
    BY <2>3, <1>8, WorkIs
  <2> QED BY <2>1, <2>2, <2>3
<1>10. \A call \in Pending' : Harmless(call)
  BY <1>2, <1>5, <1>9
<1> QED BY <1>1, <1>10, SameHarmless DEF Sparing

LEMMA EraseSparing ==
  ASSUME Typed, Sparing, todo # <<>>, NEW o, NEW gateway, NEW calls \in Seq(Calls),
         DeleteObject(o, gateway, calls),
         \A call \in Elements(calls) : Harmless(call), UNCHANGED crs
  PROVE  Sparing'
<1>1. CASE Failed
  BY <1>1, StopSparing DEF Failed
<1>2. CASE Instead(calls)
  BY <1>2, InsteadSparing
<1> QED BY <1>1, <1>2, EraseEffect

LEMMA InitSparing == Init => Sparing
BY ElementsOfNone DEF Init, Sparing, Pending

LEMMA SparingNext == Apart /\ Unique /\ Typed /\ Sparing /\ [Next]_vars => Sparing'
<1> SUFFICES ASSUME Apart, Unique, Typed, Sparing, [Next]_vars PROVE Sparing'
  OBVIOUS
<1> DEFINE call == Head(todo)
<1>1. ASSUME NEW c \in CRs, Start(c) PROVE Sparing'
  BY <1>1, StartSparing
<1>2. ASSUME NEW c \in CRs, WriteCR(c) \/ DeleteCR(c) PROVE Sparing'
  <2>1. Pending' = {}
    BY <1>2, ObjectInHand DEF WriteCR, DeleteCR, Change, Pending
  <2> QED BY <2>1 DEF Sparing
<1>3. CASE DoApply \/ DoCreate
  <2>1. todo # <<>> /\ UNCHANGED crs
    BY <1>3, ApplyEffect DEF Environs, envVars
  <2>2. Muted \/ Failed \/ Continue
    BY <1>3, ApplyEffect
  <2> QED BY <2>1, <2>2, StopSparing, ContinueSparing DEF Muted, Failed
<1>4. CASE DoReplace
  <2> DEFINE create == [call EXCEPT !.do = "create"]
             o == Object(call)
  <2>1. /\ todo # <<>> /\ UNCHANGED crs /\ <<create>> \in Seq(Calls)
        /\ Elements(<<create>>) = {create} /\ create.do = "create"
        /\ DeleteObject(o, None, <<create>>)
    BY <1>4, ReplaceCall DEF Environs, envVars
  <2> HIDE DEF create, o
  <2>2. \A x \in Elements(<<create>>) : Harmless(x)
    BY <2>1, AppliesHarmless
  <2> QED BY <2>1, <2>2, EraseSparing
<1>5. CASE DoDelete
  <2>1. /\ todo # <<>> /\ UNCHANGED crs
        /\ DeleteObject(Object(call), call.gateway, <<>>)
    BY <1>5 DEF DoDelete, Calling, envVars, Object
  <2>2. <<>> \in Seq(Calls) /\ Elements(<<>>) = {}
    BY ElementsOfNone
  <2> QED BY <2>1, <2>2, EraseSparing
<1>6. CASE DoUnlabel
  <2>1. todo # <<>> /\ UNCHANGED crs /\ (Muted \/ Failed \/ Continue)
    BY <1>6, UnlabelEffect DEF Environs, envVars
  <2> QED BY <2>1, StopSparing, ContinueSparing DEF Muted, Failed
<1>7. CASE DoDeleteMeshRouter
  <2> DEFINE g == call.name
  <2>1. /\ todo # <<>> /\ UNCHANGED crs /\ call.do = "deleteMeshRouter"
        /\ Instead(DeleteMeshRouter(g))
    BY <1>7 DEF DoDeleteMeshRouter, Calling, envVars
  <2>2. g \in Routers /\ ~Used(g)
    BY <2>1, NextCall DEF Proper, ProperFor, Sparing, Harmless
  <2> HIDE DEF g
  <2>3. \A kind \in Everything : Harmless(Delete(kind, g))
    BY <2>2, DeletesHarmless
  <2>4. Harmless(Delete("Service", g))
    <3>1. \A c \in CRs : c.name # g
      BY <2>2 DEF Apart, Names
    <3>2. Delete("Service", g).name = g /\ Delete("Service", g).kind = "Service"
      BY DEF Delete, Call
    <3> QED BY <3>1, <3>2 DEF Harmless
  <2>5. /\ DeleteMeshRouter(g) \in Seq(Calls)
        /\ \A x \in Elements(DeleteMeshRouter(g)) : Harmless(x)
    BY <2>2, <2>3, <2>4, DeleteMeshRouterCalls
  <2> QED BY <2>1, <2>5, InsteadSparing DEF g
<1>8. CASE DoPriority
  <2> DEFINE g == call.name
             calls == IF MayConfigure(running, obj, g) THEN Configure(g, obj) ELSE <<>>
  <2>1. todo # <<>> /\ UNCHANGED crs /\ Instead(calls) /\ call.do = "priority"
    BY <1>8 DEF DoPriority, Calling, envVars
  <2>2. g \in Gateways
    BY <2>1, NextCall DEF Proper, ProperFor, Call
  <2>3. \A x \in Elements(Configure(g, obj)) : x.do = "apply"
    BY <2>2, ConfigureCalls DEF Apply, Call
  <2>4. calls \in {<<>>, Configure(g, obj)}
    OBVIOUS
  <2> HIDE DEF g, calls
  <2>5. calls \in Seq(Calls) /\ \A x \in Elements(calls) : Harmless(x)
    <3>1. CASE calls = <<>>
      BY <3>1, ElementsOfNone
    <3>2. CASE calls = Configure(g, obj)
      <4>1. calls \in Seq(Calls) /\ \A x \in Elements(calls) : x.do = "apply"
        BY <3>2, <2>2, <2>3, ConfigureCalls
      <4> QED BY <4>1, AppliesHarmless
    <3> QED BY <2>4, <3>1, <3>2
  <2> QED BY <2>1, <2>5, InsteadSparing
<1>9. CASE DoDeleteFacadeGateway
  <2> DEFINE g == call.name
             found == seen[Of("Deployment", g)]
             calls == IF found = None \/ found.mesh \/ found.by = None THEN <<>>
                      ELSE DeleteGateway(g)
  <2>1. todo # <<>> /\ UNCHANGED crs /\ Instead(calls) /\ call.do = "deleteFacadeGateway"
    BY <1>9 DEF DoDeleteFacadeGateway, Calling, envVars
  <2>2. g \in Gateways /\ ~Used(g)
    BY <2>1, NextCall DEF Proper, ProperFor, Sparing, Harmless
  <2>3. calls \in {<<>>, DeleteGateway(g)}
    OBVIOUS
  <2> HIDE DEF g, calls
  <2>4. calls \in Seq(Calls) /\ \A x \in Elements(calls) : Harmless(x)
    <3>1. CASE calls = <<>>
      BY <3>1, ElementsOfNone
    <3>2. CASE calls = DeleteGateway(g)
      BY <3>2, <2>2, DeleteGatewayCalls, DeletesHarmless
    <3> QED BY <2>3, <3>1, <3>2
  <2> QED BY <2>1, <2>4, InsteadSparing
<1>10. CASE Finish \/ CallFails \/ Restart
  BY <1>10, StopSparing DEF Finish, CallFails, Restart, Failed
<1>11. CASE UNCHANGED <<todo, crs>>
  BY <1>11, SameHarmless DEF Sparing, Pending
<1>12. ASSUME NEW kinds, Sync(kinds) \/ CollectGarbage(kinds) PROVE UNCHANGED <<todo, crs>>
  BY <1>12 DEF Sync, CollectGarbage, envVars
<1>13. CASE Rest \/ UNCHANGED vars
  BY <1>13, <1>11 DEF Rest, vars, envVars
<1> QED BY <1>1, <1>2, <1>3, <1>4, <1>5, <1>6, <1>7, <1>8, <1>9, <1>10, <1>11, <1>12,
           <1>13 DEF Next
-----------------------------------------------------------------------------
(* A restart repairs what is used                                          *)

OwnPending ==
  \E call \in Pending : /\ call.do \in {"apply", "create"}
                        /\ call.kind = "Service" /\ call.name = running.name
PriorityPending == \E call \in Pending : call.do = "priority"

Reaching ==
  \A c \in CRs : Lives(c) =>
    c \in queue \/ (running = c /\ OwnPending) \/ Reachable(c)

\* What c wants of its gateway is there, or is to be applied.
Awaited(c) ==
  LET g == Target(c, crs[c])
  IN \A kind \in Everything :
       res[Of(kind, g)] # None \/ (running = c /\ Apply(kind, g, g) \in Pending)

Provided(c) ==
  c \in queue \/ (running = c /\ PriorityPending) \/ Awaited(c)

\* The CR that gave the Deployment of g its template exists: another that names
\* g may have been refused.
Cares(g) == res[Of("Deployment", g)] # None /\ Lives(res[Of("Deployment", g)].by)

Providing ==
  \A c \in CRs : Lives(c) =>
    Provided(c) \/ (Composite(crs[c]) /\ Cares(crs[c].gateway))

Carer(d, g) == /\ res[Of("Deployment", g)] # None
               /\ res[Of("Deployment", g)].by = d /\ Uses(d, g)

\* It is never refused itself.
Caring ==
  \A g \in Gateways : \A d \in CRs : Carer(d, g) =>
    /\ Provided(d)
    /\ g \in Routers => MayConfigure(d, crs[d], g)

Permitted ==
  \A g \in Gateways : Apply("Deployment", g, g) \in Pending =>
    Awaited(running) /\ (g \in Routers => MayConfigure(running, obj, g))

\* What the cache of Deployments may have missed.
SeenAsIs ==
  \A g \in Gateways :
    LET o == Of("Deployment", g)
    IN seen[o] # None => /\ Used(g) => res[o] # None
                         /\ res[o] # None /\ ~Lives(res[o].by) => ~Lives(seen[o].by)

Uncollectable == \A o \in Resources : ~Collectable(o)

Repairing ==
  Reaching /\ Providing /\ Caring /\ Permitted /\ SeenAsIs /\ Uncollectable

LEMMA UsedGateways ==
  ASSUME Typed, NEW c \in CRs, Lives(c)
  PROVE  LET g == Target(c, crs[c])
         IN /\ g \in Gateways /\ Uses(c, g) /\ Used(g)
            /\ Of("Service", c.name) \in Resources
            /\ \A kind \in Everything : Of(kind, g) \in Resources
            /\ Composite(crs[c]) => g = crs[c].gateway /\ g \in Routers
<1>1. crs[c] \in CRObjects
  BY DEF Typed, Lives
<1>2. \A g \in Gateways : \A kind \in Everything : Of(kind, g) \in Resources
  BY ResourcesAre DEF Everything
<1> QED BY <1>1, <1>2, TargetIsGateway, NamesAndGateways, ResourcesAre DEF Used, Uses

\* A CR is granted the router whose Deployment carries its template.
LEMMA OwnTemplate ==
  ASSUME NEW d \in CRs, NEW isMaster, NEW label \in {None, d.name},
         NEW exists \in BOOLEAN
  PROVE  UpdateAvailable(d, isMaster, label, d, exists)
<1>1. NotOutranked(d, d)
  BY GatewayCRsAssumption DEF NotOutranked, Priority, Kinds
<1>2. label = d.name => OwnLabel(d, label, d)
  BY DEF OwnLabel, SameType
<1> QED BY <1>1, <1>2 DEF UpdateAvailable

\* A CR is refused only while the CR whose template the cache shows exists.
LEMMA RefusedByAnother ==
  ASSUME Typed, Unique, NEW c \in CRs, NEW g \in Gateways, ~MayConfigure(c, crs[c], g)
  PROVE  seen[Of("Deployment", g)] # None /\ Lives(seen[Of("Deployment", g)].by)
<1> DEFINE found == seen[Of("Deployment", g)]
           applied == IF crs[found.by] = None THEN None ELSE found.by
           exists == \E d \in CRs : d.name = found.label /\ crs[d] # None
<1>1. found # None /\ ~UpdateAvailable(c, crs[c].master, found.label, applied, exists)
  BY DEF MayConfigure
<1>2. Of("Deployment", g) \in Resources /\ Of("Deployment", g).kind = "Deployment"
      /\ Of("Deployment", g) # Of("Deployment", Foreign)
      /\ Of("Deployment", g) # Of("Service", ForeignService)
  BY ResourcesAre, ForeignAssumption
<1>3. found.by \in CRs /\ found.label \in {None, found.by.name}
  BY <1>1, <1>2 DEF Typed, WellMade, Objects
<1> HIDE DEF found
<1>4. applied # None \/ (found.label # None /\ exists)
  <2>1. SUFFICES ASSUME applied = None PROVE found.label # None /\ exists
    OBVIOUS
  <2>2. NotOutranked(c, None)
    BY DEF NotOutranked
  <2> QED BY <1>1, <2>1, <2>2 DEF UpdateAvailable
<1>5. exists /\ found.label # None => crs[found.by] # None
  BY <1>3 DEF Unique
<1>6. crs[found.by] # None
  BY <1>4, <1>5
<1> QED BY <1>1, <1>3, <1>6 DEF Lives, found

LEMMA SameGrant ==
  ASSUME UNCHANGED <<crs, seen>>, NEW d, NEW g, MayConfigure(d, crs[d], g)
  PROVE  MayConfigure(d, crs[d], g)'
BY DEF MayConfigure

\* A step of a reconcile that goes on.
LEMMA GoesOn ==
  ASSUME Typed, Repairing,
         UNCHANGED <<crs, seen, headless, queue, running, obj>>,
         \A c \in CRs : Lives(c) =>
           \/ res'[Of("Service", c.name)] = res[Of("Service", c.name)]
           \/ Reachable(c)' \/ (c = running /\ OwnPending'),
         OwnPending => OwnPending' \/ Reachable(running)',
         PriorityPending => PriorityPending',
         \A kind \in Everything, g \in Gateways :
           Apply(kind, g, g) \in Pending =>
             Apply(kind, g, g) \in Pending' \/ res'[Of(kind, g)] # None,
         \A kind \in Everything, g \in Gateways :
           Used(g) /\ res[Of(kind, g)] # None => res'[Of(kind, g)] # None,
         \A g \in Gateways :
           LET o == Of("Deployment", g)
           IN res'[o] # None =>
                \/ res[o] # None /\ res'[o].by = res[o].by
                \/ Apply("Deployment", g, g) \in Pending /\ res'[o].by = running,
         \A g \in Gateways :
           Apply("Deployment", g, g) \in Pending' => Apply("Deployment", g, g) \in Pending,
         Uncollectable'
  PROVE  Repairing'
<1>1. \A c \in CRs : \A g : Lives(c)' = Lives(c) /\ Uses(c, g)' = Uses(c, g)
  BY DEF Lives, Uses
<1>2. \A g : Used(g)' = Used(g)
  BY <1>1 DEF Used
<1>3. Reaching'
  <2> SUFFICES ASSUME NEW c \in CRs, Lives(c), c \notin queue
               PROVE  (running = c /\ OwnPending)' \/ Reachable(c)'
    BY <1>1 DEF Reaching
  <2>1. CASE running = c /\ OwnPending
    BY <2>1
  <2>2. CASE Reachable(c)
    BY <2>2 DEF Reachable
  <2> QED BY <2>1, <2>2 DEF Repairing, Reaching
<1>4. ASSUME NEW c \in CRs, Lives(c), Awaited(c) PROVE Awaited(c)'
  <2> DEFINE g == Target(c, crs[c])
  <2>1. g \in Gateways /\ Used(g)
    BY <1>4, UsedGateways
  <2>2. \A kind \in Everything :
          res[Of(kind, g)] # None \/ (running = c /\ Apply(kind, g, g) \in Pending)
    BY <1>4 DEF Awaited
  <2> HIDE DEF g
  <2>3. \A kind \in Everything :
          res'[Of(kind, g)] # None \/ (running = c /\ Apply(kind, g, g) \in Pending')
    BY <2>1, <2>2
  <2> QED BY <2>3 DEF Awaited, g
<1>5. ASSUME NEW c \in CRs, Lives(c), Provided(c) PROVE Provided(c)'
  BY <1>4, <1>5 DEF Provided
<1>6. ASSUME NEW g \in Gateways, Apply("Deployment", g, g) \in Pending
      PROVE  /\ running \in CRs /\ obj = crs[running] /\ Lives(running)
             /\ Awaited(running) /\ (g \in Routers => MayConfigure(running, obj, g))
  <2>1. Proper(Apply("Deployment", g, g)) /\ Apply("Deployment", g, g).do = "apply"
    BY <1>6 DEF Typed, Apply, Call
  <2>2. obj # None
    BY <2>1 DEF Proper, ProperFor
  <2> QED BY <1>6, <2>2, ObjectInHand DEF Lives, Repairing, Permitted
<1>7. ASSUME NEW g \in Gateways, Used(g), Cares(g) PROVE Cares(g)'
  <2>1. res'[Of("Deployment", g)] # None
    BY <1>7 DEF Cares, Everything
  <2> QED BY <1>1, <1>6, <1>7, <2>1 DEF Cares, Lives
<1>8. Providing'
  <2> SUFFICES ASSUME NEW c \in CRs, Lives(c)
               PROVE  Provided(c)' \/ (Composite(crs[c]) /\ Cares(crs[c].gateway)')
    BY <1>1 DEF Providing, Cares
  <2>1. CASE Provided(c)
    BY <1>5, <2>1
  <2>2. CASE Composite(crs[c]) /\ Cares(crs[c].gateway)
    BY <1>7, <2>2, UsedGateways
  <2> QED BY <2>1, <2>2 DEF Repairing, Providing
<1>9. Caring'
  <2> SUFFICES ASSUME NEW g \in Gateways, NEW d \in CRs, Carer(d, g)'
               PROVE  Provided(d)' /\ (g \in Routers => MayConfigure(d, crs[d], g)')
    BY DEF Caring
  <2>1. Lives(d) /\ Uses(d, g) /\ res'[Of("Deployment", g)] # None
        /\ res'[Of("Deployment", g)].by = d
    BY <1>1 DEF Carer, Uses
  <2>2. CASE Carer(d, g)
    <3>1. Provided(d) /\ (g \in Routers => MayConfigure(d, crs[d], g))
      BY <2>2 DEF Repairing, Caring
    <3> QED BY <1>5, <2>1, <3>1, SameGrant
  <2>3. CASE Apply("Deployment", g, g) \in Pending /\ running = d
    <3>1. Provided(d) /\ (g \in Routers => MayConfigure(d, crs[d], g))
      BY <1>6, <2>3 DEF Provided
    <3> QED BY <1>5, <2>1, <3>1, SameGrant
  <2> QED BY <2>1, <2>2, <2>3 DEF Carer
<1>10. Permitted'
  <2> SUFFICES ASSUME NEW g \in Gateways, Apply("Deployment", g, g) \in Pending'
               PROVE  Awaited(running)' /\ (g \in Routers => MayConfigure(running, obj, g)')
    BY DEF Permitted, Apply, Call
  <2>1. Apply("Deployment", g, g) \in Pending
    OBVIOUS
  <2> QED BY <1>4, <1>6, <2>1 DEF MayConfigure, Awaited
<1>11. SeenAsIs'
  <2> SUFFICES ASSUME NEW g \in Gateways, seen[Of("Deployment", g)] # None
               PROVE  LET o == Of("Deployment", g)
                      IN /\ Used(g) => res'[o] # None
                         /\ res'[o] # None /\ ~Lives(res'[o].by) => ~Lives(seen[o].by)
    BY <1>2 DEF SeenAsIs, Lives
  <2> QED BY <1>6 DEF Repairing, SeenAsIs, Everything, Lives
<1> QED BY <1>3, <1>8, <1>9, <1>10, <1>11 DEF Repairing
LEMMA StayUncollectable ==
  ASSUME Uncollectable, UNCHANGED crs,
         \A o \in Resources :
           \/ res'[o] = None
           \/ res[o] # None /\ res'[o].owners = res[o].owners
           \/ \E uid \in res'[o].owners : Alive(uid)
  PROVE  Uncollectable'
BY DEF Uncollectable, Collectable, Alive

\* A step of a reconcile that writes nothing.
LEMMA QuietRepairs ==
  ASSUME Typed, Repairing, todo # <<>>, NEW calls \in Seq(Calls), Instead(calls),
         UNCHANGED <<crs, seen, headless, res>>,
         Head(todo).do # "priority",
         \A x \in Elements(calls) : x.do # "apply",
         OwnPending => OwnPending',
         \A kind \in Everything, g \in Gateways :
           Head(todo) = Apply(kind, g, g) => res[Of(kind, g)] # None
  PROVE  Repairing'
<1>1. /\ Pending' \subseteq Elements(calls) \cup Pending
      /\ Pending \subseteq {Head(todo)} \cup Pending'
      /\ UNCHANGED <<queue, running, obj>>
  BY InsteadIs
<1>2. PriorityPending => PriorityPending'
  BY <1>1 DEF PriorityPending
<1>3. \A kind, g : Apply(kind, g, g).do = "apply"
  BY DEF Apply, Call
<1>4. \A kind \in Everything, g \in Gateways :
        Apply(kind, g, g) \in Pending =>
          Apply(kind, g, g) \in Pending' \/ res'[Of(kind, g)] # None
  BY <1>1
<1>5. \A g \in Gateways :
        Apply("Deployment", g, g) \in Pending' => Apply("Deployment", g, g) \in Pending
  BY <1>1, <1>3
<1>6. Uncollectable'
  BY StayUncollectable DEF Repairing, Uncollectable, Collectable, Alive
<1> QED BY <1>1, <1>2, <1>4, <1>5, <1>6, GoesOn

\* A reconcile that ends before its calls are done is repeated.
LEMMA StopRepairs ==
  ASSUME Typed, Repairing, Stop, UNCHANGED <<crs, seen, headless, res>>,
         \/ running # None /\ queue' = queue \cup {running}
         \/ todo = <<>> /\ queue' = queue
  PROVE  Repairing'
<1>1. running' = None /\ Pending' = {}
  BY ElementsOfNone DEF Stop, Pending
<1>2. todo = <<>> => Pending = {}
  BY ElementsOfNone DEF Pending
<1>3. \A c \in CRs : \A g : Lives(c)' = Lives(c) /\ Uses(c, g)' = Uses(c, g)
  BY DEF Lives, Uses
<1>4. \A g : Used(g)' = Used(g)
  BY <1>3 DEF Used
<1>5. Reaching'
  <2> SUFFICES ASSUME NEW c \in CRs, Lives(c), c \notin queue' PROVE Reachable(c)'
    BY <1>3 DEF Reaching
  <2>1. Reachable(c)
    BY <1>2 DEF Repairing, Reaching, OwnPending
  <2> QED BY <2>1 DEF Reachable
<1>6. ASSUME NEW c \in CRs, Provided(c) PROVE Provided(c)'
  <2> SUFFICES ASSUME c \notin queue' PROVE Awaited(c)'
    BY DEF Provided
  <2>1. Awaited(c) /\ (running = c => Pending = {})
    BY <1>2, <1>6 DEF Provided, PriorityPending
  <2> QED BY <2>1 DEF Awaited
<1>7. Providing'
  <2> SUFFICES ASSUME NEW c \in CRs, Lives(c)
               PROVE  Provided(c)' \/ (Composite(crs[c]) /\ Cares(crs[c].gateway)')
    BY <1>3 DEF Providing, Cares
  <2>1. Provided(c) \/ (Composite(crs[c]) /\ Cares(crs[c].gateway))
    BY DEF Repairing, Providing
  <2> QED BY <1>6, <2>1 DEF Cares, Lives
<1>8. Caring'
  <2> SUFFICES ASSUME NEW g \in Gateways, NEW d \in CRs, Carer(d, g)'
               PROVE  Provided(d)' /\ (g \in Routers => MayConfigure(d, crs[d], g)')
    BY DEF Caring
  <2>1. Carer(d, g)
    BY <1>3 DEF Carer
  <2>2. Provided(d) /\ (g \in Routers => MayConfigure(d, crs[d], g))
    BY <2>1 DEF Repairing, Caring
  <2> QED BY <1>6, <2>2, SameGrant
<1>9. Permitted'
  BY <1>1 DEF Permitted
<1>10. SeenAsIs'
  BY <1>4 DEF Repairing, SeenAsIs, Lives
<1>11. Uncollectable'
  BY StayUncollectable DEF Repairing, Uncollectable, Collectable, Alive
<1> QED BY <1>5, <1>7, <1>8, <1>9, <1>10, <1>11 DEF Repairing

LEMMA AnswerRepairs ==
  ASSUME Typed, Repairing, running # None, Muted \/ Failed,
         UNCHANGED <<crs, seen, headless, res>>
  PROVE  Repairing'
BY StopRepairs DEF Muted, Failed
\* A service rendered for a CR, or for a router, disturbs no other CR's.
LEMMA ServiceNames ==
  ASSUME Apart, Unique, Typed, NEW call, Proper(call), call.kind = "Service",
         call.do \in {"apply", "create"}, NEW c \in CRs,
         Of("Service", c.name) = Object(call)
  PROVE  /\ c = running /\ call.name = running.name
         /\ call.gateway = Target(running, obj)
<1>1. c.name = call.name
  BY ResourcesAre DEF Object
<1>2. c.name \notin Routers
  BY DEF Apart, Names
<1>3. call.name = running.name /\ call.gateway = Target(running, obj) /\ obj # None
  BY <1>1, <1>2 DEF Proper, ProperFor
<1> QED BY <1>1, <1>3, ObjectInHand DEF Unique

LEMMA WriteRepairs ==
  ASSUME Apart, Unique, Typed, Repairing, todo # <<>>, Continue, Environs,
         Head(todo).do \in {"apply", "create"}, NEW new, RenderedFor(Head(todo), new),
         res' = [res EXCEPT ![Object(Head(todo))] = new]
  PROVE  Repairing'
<1> DEFINE call == Head(todo)
           o == Object(call)
<1>1. /\ Proper(call) /\ running \in CRs /\ obj = crs[running] /\ obj \in CRObjects
      /\ UNCHANGED <<crs, seen, headless>>
  BY NextCall, ObjectInHand DEF Proper, ProperFor, Environs, envVars
<1>2. /\ Pending' \subseteq Pending /\ Pending \subseteq {call} \cup Pending'
      /\ UNCHANGED <<queue, running, obj>>
  BY ContinueIs
<1>3. /\ new.by = running /\ [cr |-> running, inc |-> obj.inc] \in new.owners
      /\ new.selects = IF call.kind = "Service" THEN call.gateway ELSE None
      /\ new.headless = (call.kind = "Service" /\ headless)
      /\ new \in Objects
  BY <1>1, RenderedForIs
<1>4. new # None /\ obj # None
  BY <1>1, <1>3, GatewayNoneAssumption
<1>5. o \in Resources /\ o.kind = call.kind /\ o.name = call.name
  BY <1>1, ResourcesAre DEF Proper, ProperFor, Object
<1>6. res'[o] = new /\ \A x \in Resources \ {o} : res'[x] = res[x]
  BY <1>5 DEF Typed, WellMade
<1>7. Uncollectable'
  <2>1. Alive([cr |-> running, inc |-> obj.inc])
    BY <1>1, <1>4 DEF Alive
  <2>2. ASSUME NEW x \in Resources
        PROVE  \/ res'[x] = None
               \/ res[x] # None /\ res'[x].owners = res[x].owners
               \/ \E uid \in res'[x].owners : Alive(uid)
    BY <1>3, <1>6, <2>1
  <2> QED BY <1>1, <2>2, StayUncollectable DEF Repairing
<1>8. PriorityPending => PriorityPending'
  BY <1>2 DEF PriorityPending
<1>9. ASSUME NEW kind \in Everything, NEW g \in Gateways, Apply(kind, g, g) \in Pending
      PROVE  Apply(kind, g, g) \in Pending' \/ res'[Of(kind, g)] # None
  <2>1. CASE Apply(kind, g, g) = call
    <3>1. o = Of(kind, g)
      BY <2>1 DEF Object, Apply, Call
    <3> QED BY <1>4, <1>6, <3>1
  <2> QED BY <1>2, <1>9, <2>1
<1>10. ASSUME call.kind = "Service", NEW c \in CRs, Of("Service", c.name) = o
       PROVE  c = running /\ Reachable(running)'
  <2>1. c = running /\ call.name = running.name /\ call.gateway = Target(running, obj)
    BY <1>1, <1>10, ServiceNames
  <2>2. /\ res'[Of("Service", running.name)] = new
        /\ new.selects = Target(running, obj) /\ new.headless = headless
    BY <1>3, <1>6, <1>10, <2>1 DEF Typed
  <2> QED BY <1>1, <1>2, <1>4, <2>1, <2>2 DEF Reachable
<1>11. OwnPending => OwnPending' \/ Reachable(running)'
  <2> SUFFICES ASSUME OwnPending, ~OwnPending' PROVE Reachable(running)'
    OBVIOUS
  <2>1. call.kind = "Service" /\ call.name = running.name
    BY <1>2 DEF OwnPending
  <2>2. Of("Service", running.name) = o
    BY <2>1 DEF Object
  <2> QED BY <1>1, <1>10, <2>1, <2>2
<1>12. ASSUME NEW c \in CRs
       PROVE  res'[Of("Service", c.name)] = res[Of("Service", c.name)] \/ Reachable(c)'
  <2>1. Of("Service", c.name) \in Resources /\ Of("Service", c.name).kind = "Service"
    BY ResourcesAre, NamesAndGateways
  <2>2. CASE Of("Service", c.name) = o
    <3>1. call.kind = "Service"
      BY <1>5, <2>1, <2>2
    <3>2. c = running /\ Reachable(running)'
      BY <1>10, <2>2, <3>1
    <3> QED BY <1>2, <3>2 DEF Reachable
  <2> QED BY <1>6, <2>1, <2>2
<1>13. ASSUME NEW g \in Gateways, res'[Of("Deployment", g)] # None
       PROVE  \/ /\ res[Of("Deployment", g)] # None
                 /\ res'[Of("Deployment", g)].by = res[Of("Deployment", g)].by
              \/ /\ Apply("Deployment", g, g) \in Pending
                 /\ res'[Of("Deployment", g)].by = running
  <2>1. Of("Deployment", g) \in Resources
    BY ResourcesAre
  <2>2. CASE Of("Deployment", g) = o
    <3>1. call.kind = "Deployment" /\ call.name = g /\ call.do = "apply"
      BY <1>1, <1>5, <2>2, ResourcesAre DEF Proper, ProperFor
    <3>2. call = Apply("Deployment", g, g)
      <4>1. call \in Calls /\ call.gateway = g
        BY <1>1, <3>1 DEF Proper, ProperFor
      <4> QED BY <3>1, <4>1 DEF Calls, Apply, Call
    <3> QED BY <1>3, <1>6, <2>2, <3>2, NextCall
  <2> QED BY <1>6, <1>13, <2>1, <2>2
<1>14. \A kind \in Everything, g \in Gateways :
         res[Of(kind, g)] # None => res'[Of(kind, g)] # None
  <2>1. \A kind \in Everything, g \in Gateways : Of(kind, g) \in Resources
    BY ResourcesAre DEF Everything
  <2> QED BY <1>4, <1>6, <2>1
<1> HIDE DEF call, o
<1> QED BY <1>1, <1>2, <1>7, <1>8, <1>9, <1>11, <1>12, <1>13, <1>14, GoesOn
LEMMA ApplyRepairs ==
  ASSUME Apart, Unique, Typed, Repairing, DoApply \/ DoCreate
  PROVE  Repairing'
<1> DEFINE call == Head(todo)
           o == Object(call)
<1>1. /\ todo # <<>> /\ running # None /\ call.do \in {"apply", "create"}
      /\ Environs /\ UNCHANGED <<crs, seen, headless>>
  BY ApplyEffect DEF Environs, envVars
<1>2. CASE (Muted \/ Failed) /\ res' = res
  BY <1>1, <1>2, AnswerRepairs
<1>3. CASE /\ Continue /\ res' = res
           /\ o.kind \in {"HPA", "PodMonitor"} /\ res[o] # None
  <2>1. <<>> \in Seq(Calls) /\ Elements(<<>>) = {} /\ Instead(<<>>)
    BY <1>3, ElementsOfNone DEF Continue
  <2>2. call.kind # "Service"
    BY <1>3, ResourcesAre DEF Object
  <2>3. OwnPending => OwnPending'
    BY <1>1, <1>3, <2>2, ContinueIs DEF OwnPending
  <2>4. \A kind \in Everything, g \in Gateways :
          call = Apply(kind, g, g) => res[Of(kind, g)] # None
    BY <1>3 DEF Object, Apply, Call
  <2> HIDE DEF o
  <2> QED BY <1>1, <1>3, <2>1, <2>3, <2>4, QuietRepairs
<1>4. ASSUME Continue, NEW new, RenderedFor(call, new), res' = [res EXCEPT ![o] = new]
      PROVE  Repairing'
  BY <1>1, <1>4, WriteRepairs
<1> QED BY <1>2, <1>3, <1>4, ApplyEffect

\* An object that no CR uses, or a service that will be created again, goes.
LEMMA EraseRepairs ==
  ASSUME Apart, Typed, Repairing, todo # <<>>, UNCHANGED <<crs, seen, headless>>,
         NEW calls \in Seq(Calls), Instead(calls), NEW o \in Resources,
         res' = [res EXCEPT ![o] = None],
         Head(todo).do # "priority", \A x \in Elements(calls) : x.do # "apply",
         \A kind, g : Head(todo) # Apply(kind, g, g) \/ kind \notin Everything,
         OwnPending => OwnPending',
         o.kind # "Service" => ~Used(o.name),
         o.kind = "Service" => \A c \in CRs :
           Lives(c) /\ c.name = o.name => c = running /\ OwnPending'
  PROVE  Repairing'
<1>1. /\ Pending' \subseteq Elements(calls) \cup Pending
      /\ Pending \subseteq {Head(todo)} \cup Pending'
      /\ UNCHANGED <<queue, running, obj>>
  BY InsteadIs
<1>2. res'[o] = None /\ \A x \in Resources \ {o} : res'[x] = res[x]
  BY DEF Typed, WellMade
<1>3. Uncollectable'
  BY <1>2, StayUncollectable DEF Repairing, Uncollectable, Collectable, Alive
<1>4. PriorityPending => PriorityPending'
  BY <1>1 DEF PriorityPending
<1>5. \A kind \in Everything, g \in Gateways :
        Apply(kind, g, g) \in Pending => Apply(kind, g, g) \in Pending'
  BY <1>1
<1>6. \A kind, g : Apply(kind, g, g).do = "apply"
  BY DEF Apply, Call
<1>7. \A g : Apply("Deployment", g, g) \in Pending' => Apply("Deployment", g, g) \in Pending
  BY <1>1, <1>6
<1>8. ASSUME NEW c \in CRs, Lives(c)
      PROVE  \/ res'[Of("Service", c.name)] = res[Of("Service", c.name)]
             \/ c = running /\ OwnPending'
  <2>1. /\ Of("Service", c.name) \in Resources
        /\ Of("Service", c.name).kind = "Service" /\ Of("Service", c.name).name = c.name
    BY ResourcesAre, NamesAndGateways
  <2> QED BY <1>2, <1>8, <2>1
<1>9. ASSUME NEW kind \in Everything, NEW g \in Gateways
      PROVE  /\ Of(kind, g) \in Resources
             /\ Used(g) => res'[Of(kind, g)] = res[Of(kind, g)]
             /\ res'[Of(kind, g)] \in {None, res[Of(kind, g)]}
  <2>1. /\ Of(kind, g) \in Resources /\ Of(kind, g).name = g
        /\ Of(kind, g).kind # "Service"
    BY ResourcesAre DEF Everything, Monitored
  <2> QED BY <1>2, <2>1
<1>10. \A g \in Gateways : res'[Of("Deployment", g)] \in {None, res[Of("Deployment", g)]}
  BY <1>9 DEF Everything
<1> QED BY <1>1, <1>3, <1>4, <1>5, <1>7, <1>8, <1>9, <1>10, GoesOn

LEMMA ReplaceRepairs ==
  ASSUME Apart, Unique, Typed, Repairing, DoReplace
  PROVE  Repairing'
<1> DEFINE call == Head(todo)
           create == [call EXCEPT !.do = "create"]
           o == Object(call)
<1>1. /\ todo # <<>> /\ running # None /\ UNCHANGED <<crs, seen, headless>>
      /\ call.do = "apply" /\ call.kind = "Service" /\ o.kind = "Service"
      /\ Proper(call) /\ Proper(create)
      /\ create.kind = "Service" /\ create.name = call.name /\ create.do = "create"
      /\ <<create>> \in Seq(Calls) /\ Elements(<<create>>) = {create}
      /\ DeleteObject(o, None, <<create>>)
  BY ReplaceCall DEF Environs, envVars
<1>2. o \in Resources
  BY <1>1 DEF Proper, ProperFor, Object
<1> DEFINE calls == <<create>>
<1> HIDE DEF create
<1>3. calls \in Seq(Calls) /\ Elements(calls) = {create}
  BY <1>1
<1> HIDE DEF calls
<1>4. ASSUME Instead(calls)
      PROVE  /\ create \in Pending' /\ running' = running
             /\ Pending \subseteq {call} \cup Pending'
    BY <1>1, <1>3, <1>4, InsteadIs
<1>5. Instead(calls) /\ OwnPending => OwnPending'
  BY <1>1, <1>4 DEF OwnPending
<1>6. ASSUME NEW c \in CRs, c.name = o.name, Instead(calls)
      PROVE  c = running /\ OwnPending'
  <2>1. Of("Service", c.name) = o
    BY <1>1, <1>2, <1>6, ResourceIsOf
  <2>2. c = running /\ call.name = running.name
    BY <1>1, <2>1, ServiceNames
  <2> QED BY <1>1, <1>4, <1>6, <2>2 DEF OwnPending
<1>7. \A kind, g : call # Apply(kind, g, g) \/ kind \notin Everything
  <2>1. \A kind, g : Apply(kind, g, g).kind = kind
    BY DEF Apply, Call
  <2> QED BY <1>1, <2>1 DEF Everything, Monitored
<1> HIDE DEF o, call
<1>8. CASE Failed /\ res' = res
  BY <1>1, <1>8, AnswerRepairs
<1>9. CASE Instead(calls) /\ res' = res
  BY <1>1, <1>3, <1>5, <1>7, <1>9, QuietRepairs DEF call
<1>10. CASE Instead(calls) /\ res' = [res EXCEPT ![o] = None]
  BY <1>1, <1>2, <1>3, <1>5, <1>6, <1>7, <1>10, EraseRepairs DEF call
<1>11. DeleteObject(o, None, calls)
  BY <1>1 DEF calls
<1> QED BY <1>8, <1>9, <1>10, <1>11, EraseEffect

LEMMA DeleteRepairs ==
  ASSUME Apart, Typed, Sparing, Repairing, DoDelete
  PROVE  Repairing'
<1> DEFINE call == Head(todo)
           o == Object(call)
<1>1. /\ todo # <<>> /\ running # None /\ UNCHANGED <<crs, seen, headless>>
      /\ call.do = "delete" /\ DeleteObject(o, call.gateway, <<>>)
  BY DEF DoDelete, Calling, Object, envVars
<1>2. /\ o \in Resources /\ o.kind = call.kind /\ o.name = call.name /\ Harmless(call)
  BY <1>1, NextCall, ResourcesAre DEF Proper, ProperFor, Object, Sparing
<1>3. <<>> \in Seq(Calls) /\ Elements(<<>>) = {}
  BY ElementsOfNone
<1>4. Instead(<<>>) /\ OwnPending => OwnPending'
  BY <1>1, <1>3, InsteadIs DEF OwnPending
<1>5. \A kind, g : call # Apply(kind, g, g)
  BY <1>1 DEF Apply, Call
<1>6. /\ o.kind # "Service" => ~Used(o.name)
      /\ o.kind = "Service" => \A c \in CRs : Lives(c) => c.name # o.name
  BY <1>1, <1>2 DEF Harmless
<1> HIDE DEF o, call
<1>7. CASE Failed /\ res' = res
  BY <1>1, <1>7, AnswerRepairs
<1>8. CASE Instead(<<>>) /\ res' = res
  BY <1>1, <1>3, <1>4, <1>5, <1>8, QuietRepairs DEF call
<1>9. CASE Instead(<<>>) /\ res' = [res EXCEPT ![o] = None]
  BY <1>1, <1>2, <1>3, <1>4, <1>5, <1>6, <1>9, EraseRepairs DEF call
<1> QED BY <1>1, <1>7, <1>8, <1>9, EraseEffect

LEMMA UnlabelRepairs ==
  ASSUME Typed, Repairing, DoUnlabel
  PROVE  Repairing'
<1> DEFINE call == Head(todo)
           o == Object(call)
<1>1. /\ todo # <<>> /\ running # None /\ UNCHANGED <<crs, seen, headless>>
      /\ o \in Resources /\ call.do = "unlabel"
  BY UnlabelEffect DEF Environs, envVars, DoUnlabel, Calling
<1>2. PICK g \in Gateways : o = Of("Deployment", g)
  BY UnlabelEffect
<1>3. CASE (Muted \/ Failed) /\ res' = res
  BY <1>1, <1>3, AnswerRepairs
<1>4. Continue => /\ Pending' \subseteq Pending /\ Pending \subseteq {call} \cup Pending'
                  /\ UNCHANGED <<queue, running, obj>>
  BY <1>1, ContinueIs
<1>5. /\ Continue /\ OwnPending => OwnPending'
      /\ Continue /\ PriorityPending => PriorityPending'
  BY <1>1, <1>4 DEF OwnPending, PriorityPending
<1>6. \A kind, x : call # Apply(kind, x, x)
  BY <1>1 DEF Apply, Call
<1>7. CASE Continue /\ res' = res
  <2>1. <<>> \in Seq(Calls) /\ Elements(<<>>) = {} /\ Instead(<<>>)
    BY <1>7, ElementsOfNone DEF Continue
  <2> HIDE DEF o
  <2> QED BY <1>1, <1>5, <1>6, <1>7, <2>1, QuietRepairs
<1>8. CASE /\ Continue /\ seen[o] # None /\ seen[o] = res[o]
           /\ res' = [res EXCEPT ![o] = [res[o] EXCEPT !.label = None]]
  <2> DEFINE new == [res[o] EXCEPT !.label = None]
  <2>1. res[o] \in Objects
    BY <1>1, <1>8 DEF Typed, WellMade
  <2>2. new \in Objects /\ new.by = res[o].by /\ new.owners = res[o].owners
    BY <2>1 DEF Objects
  <2>3. new # None
    BY <2>2, GatewayNoneAssumption
  <2>4. res'[o] = new /\ \A x \in Resources \ {o} : res'[x] = res[x]
    BY <1>1, <1>8 DEF Typed, WellMade
  <2> HIDE DEF new
  <2>5. \A x \in Resources :
          /\ res'[x] = None <=> res[x] = None
          /\ res[x] # None => res'[x].by = res[x].by /\ res'[x].owners = res[x].owners
    BY <1>8, <2>2, <2>3, <2>4
  <2>6. Uncollectable'
    BY <1>1, <2>5, StayUncollectable DEF Repairing
  <2>7. \A c \in CRs : res'[Of("Service", c.name)] = res[Of("Service", c.name)]
    BY <1>2, <2>4, ResourcesAre, NamesAndGateways
  <2>8. \A kind \in Everything, x \in Gateways : Of(kind, x) \in Resources
    BY ResourcesAre DEF Everything
  <2>9. \A x \in Gateways : Of("Deployment", x) \in Resources
    BY <2>8 DEF Everything
  <2> HIDE DEF o, call
  <2> QED BY <1>1, <1>4, <1>5, <1>6, <1>8, <2>5, <2>6, <2>7, <2>8, <2>9, GoesOn
<1> QED BY <1>3, <1>7, <1>8, UnlabelEffect

LEMMA CompoundRepairs ==
  ASSUME Typed, Repairing, DoDeleteMeshRouter \/ DoDeleteFacadeGateway
  PROVE  Repairing'
<1> DEFINE g == Head(todo).name
<1>1. /\ todo # <<>> /\ UNCHANGED <<crs, seen, headless, res>>
      /\ Head(todo).do \in {"deleteMeshRouter", "deleteFacadeGateway"}
      /\ \/ Head(todo).do = "deleteMeshRouter" /\ Instead(DeleteMeshRouter(g))
         \/ Instead(<<>>) \/ Instead(DeleteGateway(g))
  BY DEF DoDeleteMeshRouter, DoDeleteFacadeGateway, Calling, envVars
<1>2. g \in Gateways /\ (Head(todo).do = "deleteMeshRouter" => g \in Routers)
  BY <1>1, NextCall DEF Proper, ProperFor
<1>3. \A kind, x : Delete(kind, x).do = "delete" /\ Head(todo) # Apply(kind, x, x)
  BY <1>1 DEF Delete, Apply, Call
<1> HIDE DEF g
<1>4. ASSUME NEW calls \in Seq(Calls), Instead(calls), \A x \in Elements(calls) : x.do = "delete"
      PROVE  Repairing'
  <2>1. OwnPending => OwnPending'
    BY <1>1, <1>4, InsteadIs DEF OwnPending
  <2> QED BY <1>1, <1>3, <1>4, <2>1, QuietRepairs
<1>5. CASE Head(todo).do = "deleteMeshRouter" /\ Instead(DeleteMeshRouter(g))
  <2>1. /\ DeleteMeshRouter(g) \in Seq(Calls)
        /\ \A x \in Elements(DeleteMeshRouter(g)) : x.do = "delete"
    BY <1>2, <1>3, <1>5, DeleteMeshRouterCalls
  <2> QED BY <1>4, <1>5, <2>1
<1>6. CASE Instead(<<>>)
  <2>1. <<>> \in Seq(Calls) /\ Elements(<<>>) = {}
    BY ElementsOfNone
  <2> QED BY <1>4, <1>6, <2>1
<1>7. CASE Instead(DeleteGateway(g))
  <2>1. /\ DeleteGateway(g) \in Seq(Calls)
        /\ \A x \in Elements(DeleteGateway(g)) : x.do = "delete"
    BY <1>2, <1>3, DeleteGatewayCalls
  <2> QED BY <1>4, <1>7, <2>1
<1> QED BY <1>1, <1>5, <1>6, <1>7
\* A reconcile of c that starts has all of c's work before it.
LEMMA StartRepairs ==
  ASSUME Apart, Typed, Repairing, NEW c \in CRs, Start(c)
  PROVE  Repairing'
<1> DEFINE f == FacadeOf[c.name]
<1>1. /\ running = None /\ Pending = {}
      /\ running' = c /\ obj' = crs[c] /\ queue' = queue \ {c}
      /\ UNCHANGED <<crs, res, seen, headless>>
  BY ObjectInHand DEF Start, envVars
<1>2. PICK calls \in Cleanup : Pending' = Elements(calls) \cup Elements(Work(c))
  BY StartCalls
<1>3. \A d \in CRs : \A g : Lives(d)' = Lives(d) /\ Uses(d, g)' = Uses(d, g)
  BY <1>1 DEF Lives, Uses
<1>4. \A g : Used(g)' = Used(g)
  BY <1>3 DEF Used
<1>5. ASSUME Lives(c) PROVE OwnPending' \/ c.name = CoreEgressGateway
  <2>1. \A g : LET own == Apply("Service", c.name, g)
               IN own.do = "apply" /\ own.kind = "Service" /\ own.name = c.name
    BY DEF Apply, Call
  <2>2. c.name # CoreEgressGateway => \E g : Apply("Service", c.name, g) \in Pending'
    <3>1. CASE Composite(crs[c])
      BY <1>2, <1>5, <3>1, WorkIs DEF Lives
    <3>2. CASE ~Composite(crs[c])
      BY <1>2, <1>5, <3>2, WorkIs DEF Lives
    <3> QED BY <3>1, <3>2
  <2> QED BY <1>1, <2>1, <2>2 DEF OwnPending
<1>6. ASSUME Lives(c) PROVE PriorityPending' \/ Awaited(c)'
  <2>1. CASE Composite(crs[c])
    <3>1. PriorityCall(crs[c].gateway) \in Pending'
      BY <1>2, <1>5, <1>6, <2>1, WorkIs DEF Lives
    <3> QED BY <3>1 DEF PriorityPending, PriorityCall, Call
  <2>2. CASE ~Composite(crs[c])
    <3>1. \A kind \in Everything : Apply(kind, f, f) \in Pending'
      BY <1>2, <1>6, <2>2, WorkIs DEF Lives
    <3>2. Target(c, crs[c]) = f
      BY <2>2 DEF Target
    <3> QED BY <1>1, <3>1, <3>2 DEF Awaited
  <2> QED BY <2>1, <2>2
<1>7. Reaching'
  <2> SUFFICES ASSUME NEW d \in CRs, Lives(d), d \notin queue'
               PROVE  (running = d /\ OwnPending)' \/ Reachable(d)'
    BY <1>3 DEF Reaching
  <2>1. CASE d = c
    BY <1>1, <1>5, <2>1 DEF Reachable
  <2>2. CASE d # c
    <3>1. Reachable(d)
      BY <1>1, <2>2, NamesAndGateways DEF Repairing, Reaching
    <3> QED BY <1>1, <3>1 DEF Reachable
  <2> QED BY <2>1, <2>2
<1>8. ASSUME NEW d \in CRs, Lives(d), Provided(d) PROVE Provided(d)'
  <2>1. CASE d = c
    BY <1>1, <1>6, <1>8, <2>1 DEF Provided
  <2>2. CASE d # c
    <3>1. d \in queue \/ Awaited(d)
      BY <1>1, <1>8, NamesAndGateways DEF Provided
    <3>2. Awaited(d) => Awaited(d)'
      BY <1>1 DEF Awaited
    <3> QED BY <1>1, <2>2, <3>1, <3>2 DEF Provided
  <2> QED BY <2>1, <2>2
<1>9. Providing'
  <2> SUFFICES ASSUME NEW d \in CRs, Lives(d)
               PROVE  Provided(d)' \/ (Composite(crs[d]) /\ Cares(crs[d].gateway)')
    BY <1>1, <1>3 DEF Providing, Cares
  <2>1. Provided(d) \/ (Composite(crs[d]) /\ Cares(crs[d].gateway))
    BY DEF Repairing, Providing
  <2> QED BY <1>1, <1>8, <2>1 DEF Cares, Lives
<1>10. Caring'
  <2> SUFFICES ASSUME NEW g \in Gateways, NEW d \in CRs, Carer(d, g)'
               PROVE  Provided(d)' /\ (g \in Routers => MayConfigure(d, crs[d], g)')
    BY DEF Caring
  <2>1. Carer(d, g) /\ Lives(d)
    BY <1>1, <1>3 DEF Carer, Uses
  <2>2. Provided(d) /\ (g \in Routers => MayConfigure(d, crs[d], g))
    BY <2>1 DEF Repairing, Caring
  <2> QED BY <1>1, <1>8, <2>1, <2>2, SameGrant
<1>11. Permitted'
  <2> SUFFICES ASSUME NEW g \in Gateways, Apply("Deployment", g, g) \in Pending'
               PROVE  Awaited(running)' /\ g \notin Routers
    BY DEF Permitted, Apply, Call
  <2> DEFINE call == Apply("Deployment", g, g)
  <2>1. call.do = "apply" /\ call.kind = "Deployment" /\ call.name = g
    BY DEF Apply, Call
  <2>2. call \notin Elements(calls)
    <3>1. \A x : Unneeded(x).do = "deleteMeshRouter" /\ Unlabel(x).do = "unlabel"
      BY DEF Unneeded, Unlabel, Call
    <3> QED BY <2>1, <3>1, CleanupCalls
  <2>3. call \in Elements(Work(c))
    BY <1>2, <2>2
  <2>4. /\ \A name, x : Apply("Service", name, x).kind = "Service"
        /\ \A x : /\ PriorityCall(x).do = "priority"
                  /\ DeleteFacadeGateway(x).do = "deleteFacadeGateway"
        /\ \A name, x : Call("delete", "Service", name, x).do = "delete"
        /\ \A kind, x : Apply(kind, x, x).name = x
    BY DEF Apply, PriorityCall, DeleteFacadeGateway, Call
  <2> HIDE DEF call
  <2>5. crs[c] # None /\ ~Composite(crs[c]) /\ g = f
    <3>1. CASE crs[c] = None
      BY <2>1, <2>3, <2>4, <3>1, WorkIs
    <3>2. CASE crs[c] # None /\ Composite(crs[c])
      BY <2>1, <2>3, <2>4, <3>2, WorkIs
    <3>3. CASE crs[c] # None /\ ~Composite(crs[c])
      BY <2>1, <2>3, <2>4, <3>3, WorkIs
    <3> QED BY <3>1, <3>2, <3>3
  <2>6. Lives(c) /\ f \notin Routers
    BY <2>5 DEF Lives, Apart, Names
  <2>7. Awaited(c)'
    <3>1. \A kind \in Everything : Apply(kind, f, f) \in Pending'
      BY <1>2, <2>5, WorkIs
    <3>2. Target(c, crs[c]) = f
      BY <2>5 DEF Target
    <3> QED BY <1>1, <3>1, <3>2 DEF Awaited
  <2> QED BY <1>1, <2>5, <2>6, <2>7 DEF Awaited
<1>12. SeenAsIs'
  BY <1>1, <1>4 DEF Repairing, SeenAsIs, Lives
<1>13. Uncollectable'
  BY <1>1, StayUncollectable DEF Repairing, Uncollectable, Collectable, Alive
<1> QED BY <1>7, <1>9, <1>10, <1>11, <1>12, <1>13 DEF Repairing

\* A CR that is refused leaves the router to one whose template it carries.
LEMMA PriorityRepairs ==
  ASSUME Apart, Unique, Typed, Repairing, DoPriority
  PROVE  Repairing'
<1> DEFINE call == Head(todo)
           g == call.name
           calls == IF MayConfigure(running, obj, g) THEN Configure(g, obj) ELSE <<>>
<1>1. /\ todo # <<>> /\ UNCHANGED <<crs, res, seen, headless>>
      /\ Instead(calls) /\ call.do = "priority"
  BY DEF DoPriority, Calling, envVars
<1>2. /\ obj \in CRObjects /\ running \in CRs /\ obj = crs[running] /\ Lives(running)
      /\ Composite(obj) /\ g = obj.gateway
      /\ g \in Routers /\ g \in Gateways /\ g = Target(running, obj)
  <2>1. obj # None /\ Composite(obj) /\ call = PriorityCall(obj.gateway)
    BY <1>1, NextCall DEF Proper, ProperFor, PriorityCall
  <2>2. g = obj.gateway
    BY <2>1 DEF PriorityCall, Call
  <2> HIDE DEF g
  <2> QED BY <2>1, <2>2, ObjectInHand, TargetIsGateway, NamesAndGateways DEF Lives
<1>3. /\ calls \in Seq(Calls)
      /\ MayConfigure(running, obj, g) => calls = Configure(g, obj)
      /\ ~MayConfigure(running, obj, g) => Elements(calls) = {}
  BY <1>2, ConfigureCalls, ElementsOfNone
<1> HIDE DEF calls, g
<1>4. /\ Pending' = Elements(calls) \cup Elements(Tail(todo))
      /\ Pending \subseteq {call} \cup Pending'
      /\ Pending' \subseteq Elements(calls) \cup Pending
      /\ UNCHANGED <<queue, running, obj>>
  BY <1>1, <1>3, InsteadIs
<1>5. /\ OwnPending => OwnPending'
      /\ \A kind, x : Apply(kind, x, x) \in Pending => Apply(kind, x, x) \in Pending'
  <2>1. \A kind, x : Apply(kind, x, x).do = "apply"
    BY DEF Apply, Call
  <2> QED BY <1>1, <1>4, <2>1 DEF OwnPending
<1>6. \A c \in CRs : \A x : Lives(c)' = Lives(c) /\ Uses(c, x)' = Uses(c, x)
  BY <1>1 DEF Lives, Uses
<1>7. \A x : Used(x)' = Used(x)
  BY <1>6 DEF Used
<1>8. MayConfigure(running, obj, g) =>
        \A kind \in Everything : Apply(kind, g, g) \in Pending'
  BY <1>2, <1>3, <1>4, ConfigureCalls
<1>9. MayConfigure(running, obj, g) => Awaited(running)'
  BY <1>1, <1>2, <1>4, <1>8 DEF Awaited
<1>10. ~MayConfigure(running, obj, g) =>
         Cares(g) /\ \A x \in Gateways : ~Carer(running, x)
  <2> SUFFICES ASSUME ~MayConfigure(running, obj, g)
               PROVE  Cares(g) /\ \A x \in Gateways : ~Carer(running, x)
    OBVIOUS
  <2>1. seen[Of("Deployment", g)] # None /\ Lives(seen[Of("Deployment", g)].by)
    BY <1>2, RefusedByAnother
  <2>2. Used(g)
    BY <1>2 DEF Used, Uses
  <2>3. Cares(g)
    BY <1>2, <2>1, <2>2 DEF Repairing, SeenAsIs, Cares
  <2>4. \A x \in Gateways : Carer(running, x) => x = g /\ MayConfigure(running, obj, g)
    BY <1>2 DEF Repairing, Caring, Carer, Uses
  <2> QED BY <2>3, <2>4
<1>11. ASSUME NEW c \in CRs, Awaited(c) PROVE Awaited(c)'
  BY <1>1, <1>4, <1>5, <1>11 DEF Awaited
<1>12. ASSUME NEW c \in CRs, Provided(c)
       PROVE  Provided(c)' \/ (c = running /\ ~MayConfigure(running, obj, g))
  BY <1>4, <1>9, <1>11, <1>12 DEF Provided, Awaited
<1>13. Reaching'
  <2> SUFFICES ASSUME NEW c \in CRs, Lives(c), c \notin queue
               PROVE  (running = c /\ OwnPending)' \/ Reachable(c)'
    BY <1>4, <1>6 DEF Reaching
  <2>1. (running = c /\ OwnPending) \/ Reachable(c)
    BY DEF Repairing, Reaching
  <2> QED BY <1>1, <1>4, <1>5, <2>1 DEF Reachable
<1>14. Providing'
  <2> SUFFICES ASSUME NEW c \in CRs, Lives(c)
               PROVE  Provided(c)' \/ (Composite(crs[c]) /\ Cares(crs[c].gateway)')
    BY <1>1, <1>6 DEF Providing, Cares
  <2>1. Provided(c) \/ (Composite(crs[c]) /\ Cares(crs[c].gateway))
    BY DEF Repairing, Providing
  <2>2. Cares(crs[c].gateway) => Cares(crs[c].gateway)'
    BY <1>1 DEF Cares, Lives
  <2>3. CASE c = running /\ ~MayConfigure(running, obj, g)
    <3>1. Composite(crs[c]) /\ Cares(crs[c].gateway)
      BY <1>2, <1>10, <2>3
    <3> QED BY <2>2, <3>1
  <2> QED BY <1>12, <2>1, <2>2, <2>3
<1>15. Caring'
  <2> SUFFICES ASSUME NEW x \in Gateways, NEW d \in CRs, Carer(d, x)'
               PROVE  Provided(d)' /\ (x \in Routers => MayConfigure(d, crs[d], x)')
    BY DEF Caring
  <2>1. Carer(d, x)
    BY <1>1, <1>6 DEF Carer
  <2>2. Provided(d) /\ (x \in Routers => MayConfigure(d, crs[d], x))
    BY <2>1 DEF Repairing, Caring
  <2> QED BY <1>1, <1>10, <1>12, <2>1, <2>2, SameGrant
<1>16. Permitted'
  <2> SUFFICES ASSUME NEW x \in Gateways, Apply("Deployment", x, x) \in Pending'
               PROVE  Awaited(running)' /\ (x \in Routers => MayConfigure(running, obj, x)')
    BY DEF Permitted, Apply, Call
  <2>1. CASE Apply("Deployment", x, x) \in Pending
    <3>1. Awaited(running) /\ (x \in Routers => MayConfigure(running, obj, x))
      BY <2>1 DEF Repairing, Permitted
    <3> QED BY <1>1, <1>2, <1>4, <1>11, <3>1 DEF MayConfigure, Awaited
  <2>2. CASE Apply("Deployment", x, x) \in Elements(calls)
    <3>1. MayConfigure(running, obj, g) /\ Apply("Deployment", x, x) \in Elements(Configure(g, obj))
      BY <1>3, <2>2
    <3>2. x = g
      <4>1. \A y \in Elements(Configure(g, obj)) : y.name = g
        <5>1. \A y \in Elements(Configure(g, obj)) :
                y = Apply("Service", g, g) \/ \E kind \in Everything : y = Apply(kind, g, g)
          BY <1>2, ConfigureCalls
        <5>2. \A kind : Apply(kind, g, g).name = g
          BY DEF Apply, Call
        <5> QED BY <5>1, <5>2
      <4> QED BY <3>1, <4>1 DEF Apply, Call
    <3> QED BY <1>1, <1>2, <1>4, <1>9, <3>1, <3>2 DEF MayConfigure, Awaited
  <2> QED BY <1>4, <2>1, <2>2
<1>17. SeenAsIs'
  BY <1>1, <1>7 DEF Repairing, SeenAsIs, Lives
<1>18. Uncollectable'
  BY <1>1, StayUncollectable DEF Repairing, Uncollectable, Collectable, Alive
<1> QED BY <1>13, <1>14, <1>15, <1>16, <1>17, <1>18 DEF Repairing
\* The cache catches up: what it then shows of a Deployment is what is there.
LEMMA SeenAnew ==
  ASSUME Typed, NEW g \in Gateways, NEW d \in CRs, Carer(d, g), UNCHANGED crs,
         LET o == Of("Deployment", g)
         IN \/ seen'[o] = res[o]
            \/ seen'[o] = seen[o] /\ MayConfigure(d, crs[d], g)
  PROVE  MayConfigure(d, crs[d], g)'
<1> DEFINE o == Of("Deployment", g)
<1>1. CASE seen'[o] = seen[o] /\ MayConfigure(d, crs[d], g)
  BY <1>1 DEF MayConfigure
<1>2. CASE seen'[o] = res[o]
  <2>1. /\ res[o] # None /\ res[o].by = d /\ res[o].label \in {None, d.name}
        /\ crs'[d] # None
    BY DEF Carer, Uses, Typed, WellMade, Lives
  <2>2. seen'[o].by = d /\ seen'[o].label \in {None, d.name}
    BY <1>2, <2>1
  <2> QED BY <2>1, <2>2, OwnTemplate DEF MayConfigure
<1> QED BY <1>1, <1>2

LEMMA SyncRepairs ==
  ASSUME Typed, Repairing, NEW kinds, Sync(kinds)
  PROVE  Repairing'
<1>1. /\ UNCHANGED <<crs, res, headless, queue, running, obj, todo>>
      /\ running = None /\ Pending = {} /\ Pending' = {}
  BY ObjectInHand DEF Sync, envVars, runVars, Pending
<1>2. \A o \in Resources : seen'[o] \in {seen[o], res[o]}
  BY DEF Sync
<1>3. \A c \in CRs : \A g : Lives(c)' = Lives(c) /\ Uses(c, g)' = Uses(c, g)
  BY <1>1 DEF Lives, Uses
<1>4. \A g : Used(g)' = Used(g)
  BY <1>3 DEF Used
<1>5. \A g \in Gateways : Of("Deployment", g) \in Resources
  BY ResourcesAre
<1>6. Reaching'
  BY <1>1, <1>3 DEF Repairing, Reaching, Reachable, OwnPending, Lives
<1>7. ASSUME NEW c \in CRs, Provided(c) PROVE Provided(c)'
  BY <1>1, <1>7 DEF Provided, Awaited, PriorityPending
<1>8. Providing'
  <2> SUFFICES ASSUME NEW c \in CRs, Lives(c)
               PROVE  Provided(c)' \/ (Composite(crs[c]) /\ Cares(crs[c].gateway)')
    BY <1>1, <1>3 DEF Providing, Cares
  <2>1. Provided(c) \/ (Composite(crs[c]) /\ Cares(crs[c].gateway))
    BY DEF Repairing, Providing
  <2>2. Cares(crs[c].gateway) => Cares(crs[c].gateway)'
    BY <1>1 DEF Cares, Lives
  <2> QED BY <1>7, <2>1, <2>2
<1>9. Caring'
  <2> SUFFICES ASSUME NEW g \in Gateways, NEW d \in CRs, Carer(d, g)'
               PROVE  Provided(d)' /\ (g \in Routers => MayConfigure(d, crs[d], g)')
    BY DEF Caring
  <2>1. Carer(d, g)
    BY <1>1, <1>3 DEF Carer
  <2>2. Provided(d) /\ (g \in Routers => MayConfigure(d, crs[d], g))
    BY <2>1 DEF Repairing, Caring
  <2> QED BY <1>1, <1>2, <1>5, <1>7, <2>1, <2>2, SeenAnew
<1>10. Permitted'
  BY <1>1 DEF Permitted
<1>11. SeenAsIs'
  <2> SUFFICES ASSUME NEW g \in Gateways, seen'[Of("Deployment", g)] # None
               PROVE  LET o == Of("Deployment", g)
                      IN /\ Used(g) => res[o] # None
                         /\ res[o] # None /\ ~Lives(res[o].by) => ~Lives(seen'[o].by)
    BY <1>1, <1>4 DEF SeenAsIs, Lives
  <2> QED BY <1>2, <1>5 DEF Repairing, SeenAsIs
<1>12. Uncollectable'
  BY <1>1, StayUncollectable DEF Repairing, Uncollectable, Collectable, Alive
<1> QED BY <1>6, <1>8, <1>9, <1>10, <1>11, <1>12 DEF Repairing

\* The operator starts over: every CR is queued, and the caches are as new.
LEMMA RestartedRepairs ==
  ASSUME Typed, Restart, recovered'
  PROVE  Repairing'
<1>1. /\ running' = None /\ Pending' = {} /\ seen' = res
      /\ queue' = {c \in CRs : crs[c] # None} /\ UNCHANGED <<crs, res>>
      /\ Uncollectable
  BY ElementsOfNone DEF Restart, Stop, Pending, envVars, Uncollectable
<1>2. \A c \in CRs : Lives(c)' = Lives(c) /\ (Lives(c) => c \in queue')
  BY <1>1 DEF Lives
<1>3. Reaching' /\ Providing'
  BY <1>2 DEF Reaching, Providing, Provided
<1>4. Caring'
  <2> SUFFICES ASSUME NEW g \in Gateways, NEW d \in CRs, Carer(d, g)'
               PROVE  Provided(d)' /\ MayConfigure(d, crs[d], g)'
    BY DEF Caring
  <2>1. Carer(d, g) /\ Lives(d)
    BY <1>1 DEF Carer, Uses, Lives
  <2> QED BY <1>1, <1>2, <2>1, SeenAnew DEF Provided
<1>5. Permitted'
  BY <1>1 DEF Permitted
<1>6. SeenAsIs'
  BY <1>1 DEF SeenAsIs
<1>7. Uncollectable'
  BY <1>1 DEF Uncollectable, Collectable, Alive
<1> QED BY <1>3, <1>4, <1>5, <1>6, <1>7 DEF Repairing

LEMMA InitRepairs ==
  ASSUME Init, Typed
  PROVE  Repairing
<1>1. /\ running = None /\ Pending = {} /\ seen = res
      /\ queue = {c \in CRs : crs[c] # None}
  BY ElementsOfNone DEF Init, Pending
<1>2. \A c \in CRs : Lives(c) => c \in queue
  BY <1>1 DEF Lives
<1>3. ASSUME NEW g \in Gateways PROVE res[Of("Deployment", g)] = None
  <2> DEFINE s == Of("Service", ForeignService)
             d == Of("Deployment", Foreign)
  <2>1. /\ Of("Deployment", g) # s /\ Of("Deployment", g) # d
        /\ Of("Deployment", g) \in Resources
    BY ResourcesAre, ForeignAssumption
  <2>2. res = [o \in Resources |-> IF o = s THEN Users(Foreign)
                                   ELSE IF o = d THEN Users(None) ELSE None]
    BY DEF Init
  <2> HIDE DEF s, d
  <2> QED BY <2>1, <2>2
<1>4. Uncollectable
  <2> SUFFICES ASSUME NEW o \in Resources, Collectable(o) PROVE FALSE
    BY DEF Uncollectable
  <2>1. res[o] \in {Users(Foreign), Users(None)}
    BY DEF Init, Collectable
  <2> QED BY <2>1 DEF Collectable, Users
<1>5. Reaching /\ Providing
  BY <1>2 DEF Reaching, Providing, Provided
<1>6. Caring
  BY <1>3 DEF Caring, Carer
<1>7. Permitted /\ SeenAsIs
  BY <1>1 DEF Permitted, SeenAsIs
<1> QED BY <1>4, <1>5, <1>6, <1>7 DEF Repairing
Repair == recovered => Repairing

LEMMA RepairNext ==
  Apart /\ Unique /\ Typed /\ Sparing /\ Repair /\ [Next]_vars => Repair'
<1> SUFFICES ASSUME Apart, Unique, Typed, Sparing, Repair, [Next]_vars, recovered'
             PROVE  Repairing'
  BY DEF Repair
<1>1. CASE Restart
  BY <1>1, RestartedRepairs
<1>2. ASSUME NEW c \in CRs PROVE ~WriteCR(c) /\ ~DeleteCR(c)
  BY DEF WriteCR, DeleteCR, Change
<1>3. ASSUME ~Restart PROVE recovered' = recovered
  <2>1. CASE \E c \in CRs : Start(c)
    BY <2>1 DEF Start
  <2>2. CASE \/ DoApply \/ DoReplace \/ DoCreate \/ DoDelete \/ DoUnlabel
             \/ DoDeleteMeshRouter \/ DoPriority \/ DoDeleteFacadeGateway
    BY <2>2 DEF DoApply, DoReplace, DoCreate, DoDelete, DoUnlabel, DoDeleteMeshRouter,
                DoPriority, DoDeleteFacadeGateway, Calling
  <2>3. CASE Finish \/ CallFails
    BY <2>3 DEF Finish, CallFails
  <2>4. CASE (\E kinds \in Informers : Sync(kinds))
             \/ \E kinds \in Collections : CollectGarbage(kinds)
    BY <2>4 DEF Sync, CollectGarbage
  <2>5. CASE Rest \/ UNCHANGED vars
    BY <2>5 DEF Rest, vars
  <2> QED BY <1>2, <1>3, <2>1, <2>2, <2>3, <2>4, <2>5 DEF Next
<1> SUFFICES ASSUME ~Restart PROVE Repairing'
  BY <1>1
<1>4. Repairing
  BY <1>3 DEF Repair
<1>5. ASSUME NEW c \in CRs, Start(c) PROVE Repairing'
  BY <1>4, <1>5, StartRepairs
<1>6. CASE DoApply \/ DoCreate
  BY <1>4, <1>6, ApplyRepairs
<1>7. CASE DoReplace
  BY <1>4, <1>7, ReplaceRepairs
<1>8. CASE DoDelete
  BY <1>4, <1>8, DeleteRepairs
<1>9. CASE DoUnlabel
  BY <1>4, <1>9, UnlabelRepairs
<1>10. CASE DoDeleteMeshRouter \/ DoDeleteFacadeGateway
  BY <1>4, <1>10, CompoundRepairs
<1>11. CASE DoPriority
  BY <1>4, <1>11, PriorityRepairs
<1>12. CASE Finish
  <2>1. Stop /\ todo = <<>> /\ queue' = queue /\ UNCHANGED <<crs, seen, headless, res>>
    BY <1>12 DEF Finish, envVars
  <2> QED BY <1>4, <2>1, StopRepairs
<1>13. CASE CallFails
  <2>1. running # None /\ Failed /\ UNCHANGED <<crs, seen, headless, res>>
    BY <1>13 DEF CallFails, envVars
  <2> QED BY <1>4, <2>1, AnswerRepairs
<1>14. ASSUME NEW kinds, Sync(kinds) PROVE Repairing'
  BY <1>4, <1>14, SyncRepairs
<1>15. ASSUME NEW kinds PROVE ~CollectGarbage(kinds)
  BY <1>4 DEF CollectGarbage, Repairing, Uncollectable
<1>16. CASE Rest \/ UNCHANGED vars
  <2>1. /\ Pending' = Pending
        /\ UNCHANGED <<crs, res, seen, headless, queue, running, obj>>
    BY <1>16 DEF Rest, vars, envVars, runVars, Pending
  <2>2. Uncollectable'
    BY <1>4, <2>1 DEF Repairing, Uncollectable, Collectable, Alive
  <2>3. OwnPending' = OwnPending /\ PriorityPending' = PriorityPending
    BY <2>1 DEF OwnPending, PriorityPending
  <2>4. \A kind \in Everything, g \in Gateways :
          res[Of(kind, g)] # None => res'[Of(kind, g)] # None
    BY <2>1
  <2> QED BY <1>4, <2>1, <2>2, <2>3, <2>4, GoesOn
<1> QED BY <1>2, <1>5, <1>6, <1>7, <1>8, <1>9, <1>10, <1>11, <1>12, <1>13, <1>14,
           <1>15, <1>16 DEF Next

LEMMA RepairCompletes == Typed /\ Repair => RestartCompletes
<1> SUFFICES ASSUME Typed, Repairing, Quiescent, NEW c \in CRs, crs[c] # None
             PROVE  Reachable(c) /\ (Left(Target(c, crs[c])) \/ Complete(Target(c, crs[c])))
  BY DEF Repair, RestartCompletes
<1> DEFINE g == Target(c, crs[c])
<1>1. queue = {} /\ running = None /\ Lives(c)
  BY DEF Quiescent, Lives
<1>2. \A d \in CRs : running # d
  BY <1>1, NamesAndGateways
<1>3. Reachable(c)
  BY <1>1, <1>2 DEF Repairing, Reaching
<1>4. ASSUME NEW d \in CRs, Provided(d) PROVE Complete(Target(d, crs[d]))
  BY <1>1, <1>2, <1>4 DEF Provided, Awaited, Complete, Everything
<1>5. CASE Provided(c)
  BY <1>3, <1>4, <1>5
<1>6. CASE Composite(crs[c]) /\ Cares(crs[c].gateway)
  <2> DEFINE by == res[Of("Deployment", g)].by
  <2>1. g = crs[c].gateway /\ g \in Gateways
    BY <1>1, <1>6, UsedGateways
  <2>2. res[Of("Deployment", g)] # None /\ Lives(by)
    BY <1>6, <2>1 DEF Cares
  <2>3. CASE Target(by, crs[by]) # g
    BY <1>3, <2>2, <2>3 DEF Left, Lives
  <2>4. CASE Target(by, crs[by]) = g
    <3>1. by \in CRs /\ Carer(by, g)
      BY <2>2, <2>4 DEF Carer, Uses, Lives
    <3>2. Provided(by)
      BY <2>1, <3>1 DEF Repairing, Caring
    <3> QED BY <1>3, <1>4, <2>4, <3>1, <3>2
  <2> QED BY <2>3, <2>4
<1> QED BY <1>1, <1>5, <1>6 DEF Repairing, Providing

\* README.md:123, "It should recreate the missing entities": the caches a
\* restart fills show every Deployment in use, so that a reconcile is refused
\* only for the sake of a CR that exists, and what it deletes is used by none;
\* one that fails or loses a race is repeated.
THEOREM RestartIsComplete ==
  ASSUME Apart, Unique
  PROVE  Spec => []RestartCompletes
<1>1. Init => Typed /\ Sparing /\ Repair
  BY InitTyped, InitSparing, InitRepairs DEF Repair
<1>2. Typed /\ Sparing /\ Repair /\ [Next]_vars => (Typed /\ Sparing /\ Repair)'
  BY TypedNext, SparingNext, RepairNext
<1>3. Typed /\ Sparing /\ Repair => RestartCompletes
  BY RepairCompletes
<1> QED BY <1>1, <1>2, <1>3, PTL DEF Spec

-----------------------------------------------------------------------------
(* What no CR uses goes                                                    *)

Owners(o) == IF res[o] = None THEN {} ELSE res[o].owners
Own == [cr |-> running, inc |-> obj.inc]

\* The kinds of a gateway's objects beside its Deployment.
Dependent(g) == Monitored \cup (IF g \in Routers THEN {"Service"} ELSE {})

Deleting(kind, g) ==
  \E call \in Pending : call.do = "delete" /\ call.kind = kind /\ call.name = g
Abandoned(o) == \A uid \in Owners(o) : ~Alive(uid)
Ending(kind, g) == Deleting(kind, g) \/ Abandoned(Of(kind, g))

\* Nothing is headless, and the reconcile in hand replaces no service.
Plain ==
  /\ headless = FALSE
  /\ \A o \in Resources : /\ res[o] # None => ~res[o].headless
                          /\ seen[o] # None => ~seen[o].headless
  /\ \A call \in Pending : call.do # "create"

\* A CR that comes again is not the one that owns what was left.
Numbered ==
  /\ \A c \in CRs : crs[c] # None => born[c] = crs[c].inc + 1
  /\ \A o \in Resources : \A uid \in Owners(o) : uid.inc < born[uid.cr]

\* What the operator wrote has owners, and the service of a CR's name no other
\* owner than that CR.
OwnedObject(o, x) ==
  x.by # None =>
    /\ x.owners # {}
    /\ o.kind = "Service" =>
         /\ x.selects \in Gateways /\ o.name \in Names \cup Routers
         /\ o.name \in Names => \A uid \in x.owners : uid.cr.name = o.name
    /\ o.kind = "Deployment" /\ o.name \in Routers => x.mesh

Owned == \A o \in Resources : res[o] # None => OwnedObject(o, res[o])

\* The reconcile in hand applies the objects of its CR's gateway only, and
\* with them the Deployment.
ToApply(g) == Apply("Deployment", g, g) \in Pending
Applying ==
  \A call \in Pending : call.do = "apply" /\ call.kind \in Dependent(call.name) =>
    /\ call.name = Target(running, obj)
    /\ ToApply(call.name) \/ Own \in Owners(Of("Deployment", call.name))

\* A CR that owns an object of a gateway owns its Deployment, or is about to.
Backed ==
  \A g \in Gateways : \A kind \in Dependent(g) :
    \/ Ending(kind, g)
    \/ \A uid \in Owners(Of(kind, g)) : Alive(uid) =>
         \/ uid \in Owners(Of("Deployment", g))
         \/ uid.cr = running /\ ToApply(g)

\* With its Deployment goes all that a gateway has.
Doomed ==
  \A g \in Gateways : Deleting("Deployment", g) =>
    \A kind \in Dependent(g) : Ending(kind, g)

\* A Deployment that no CR uses and a CR owns is still to be deleted.
Attended(g) ==
  \/ Deleting("Deployment", g)
  \/ g \in Routers /\ (queue # {} \/ Unneeded(g) \in Pending)
  \/ \E c \in CRs : /\ FacadeOf[c.name] = g
                    /\ \/ c \in queue
                       \/ running = c /\ DeleteFacadeGateway(g) \in Pending
Handled ==
  \A g \in Gateways : Abandoned(Of("Deployment", g)) \/ Used(g) \/ Attended(g)

Tidying ==
  Plain /\ Numbered /\ Owned /\ Applying /\ Backed /\ Doomed /\ Handled

LEMMA DependentAre ==
  ASSUME NEW g \in Gateways
  PROVE  /\ Of("Deployment", g) \in Resources
         /\ \A kind \in Dependent(g) : /\ Of(kind, g) \in Resources
                                       /\ kind # "Deployment"
                                       /\ Of(kind, g) # Of("Deployment", g)
BY ResourcesAre DEF Dependent, Monitored

LEMMA TypedOwners ==
  ASSUME Typed, NEW o \in Resources
  PROVE  Owners(o) \subseteq [cr: CRs, inc: Nat]
BY DEF Typed, WellMade, Owners, Objects

\* What the reconcile in hand renders is owned by a CR that exists, and that
\* uses the gateway.
LEMMA OwnIsAlive ==
  ASSUME Typed, obj # None
  PROVE  /\ Lives(running) /\ Alive(Own) /\ Own \in [cr: CRs, inc: Nat]
         /\ Own.cr = running /\ Own.inc = obj.inc
         /\ Uses(running, Target(running, obj)) /\ Used(Target(running, obj))
         /\ \A uid \in [cr: CRs, inc: Nat] : uid.cr = running /\ Alive(uid) => uid = Own
<1>1. running \in CRs /\ obj = crs[running] /\ obj \in CRObjects
  BY ObjectInHand
<1>2. Own.cr = running /\ Own.inc = obj.inc /\ Own \in [cr: CRs, inc: Nat]
  BY <1>1 DEF Own, CRObjects
<1>3. \A uid \in [cr: CRs, inc: Nat] : uid = [cr |-> uid.cr, inc |-> uid.inc]
  OBVIOUS
<1>4. \A uid \in [cr: CRs, inc: Nat] : uid.cr = running /\ Alive(uid) => uid = Own
  BY <1>1, <1>3 DEF Alive, Own
<1> QED BY <1>1, <1>2, <1>4 DEF Alive, Lives, Uses, Used

LEMMA EndingStays ==
  ASSUME NEW kind, NEW g, Ending(kind, g), UNCHANGED crs,
         Owners(Of(kind, g))' \subseteq Owners(Of(kind, g)),
         Deleting(kind, g) => Deleting(kind, g)' \/ Abandoned(Of(kind, g))'
  PROVE  Ending(kind, g)'
<1>1. CASE Deleting(kind, g)
  BY <1>1 DEF Ending
<1>2. CASE Abandoned(Of(kind, g))
  BY <1>2 DEF Ending, Abandoned, Alive
<1> QED BY <1>1, <1>2 DEF Ending

\* A call that neither applies nor deletes an object, answered by calls that
\* take its place.
LEMMA CompoundTidies ==
  ASSUME Apart, Typed, Applying, Backed, Doomed, Handled, NEW call, NEW calls,
         UNCHANGED <<crs, queue, running, obj>>,
         \A o \in Resources : Owners(o)' = Owners(o),
         call.do \notin {"apply", "delete"},
         Pending \subseteq {call} \cup Pending',
         Pending' \subseteq calls \cup Pending,
         \A x \in calls : x.do = "apply" /\ x.kind \in Dependent(x.name) =>
           x.name = Target(running, obj) /\ ToApply(x.name)',
         \A x \in calls : x.do = "delete" /\ x.kind = "Deployment" =>
           \A kind \in Dependent(x.name) : Deleting(kind, x.name)',
         \A g \in Gateways :
           \/ call = Unneeded(g) /\ g \in Routers
           \/ call = DeleteFacadeGateway(g) /\ g \notin Routers
           => Deleting("Deployment", g)' \/ Abandoned(Of("Deployment", g))
  PROVE  Applying' /\ Backed' /\ Doomed' /\ Handled'
<1>1. \A kind, g : Deleting(kind, g) => Deleting(kind, g)'
  BY DEF Deleting
<1>2. \A g : ToApply(g) => ToApply(g)'
  BY DEF ToApply, Apply, Call
<1>3. \A o \in Resources : Abandoned(o) => Abandoned(o)'
  BY DEF Abandoned, Alive
<1>4. Applying'
  <2> SUFFICES ASSUME NEW x \in Pending', x.do = "apply", x.kind \in Dependent(x.name)
               PROVE  /\ x.name = Target(running, obj)
                      /\ ToApply(x.name)' \/ Own' \in Owners(Of("Deployment", x.name))'
    BY DEF Applying, Target, Composite
  <2>1. CASE x \in calls
    BY <2>1
  <2>2. CASE x \in Pending
    <3>1. /\ x.name = Target(running, obj)
          /\ ToApply(x.name) \/ Own \in Owners(Of("Deployment", x.name))
      BY <2>2 DEF Applying
    <3>2. Of("Deployment", x.name) \in Resources
      <4>1. obj # None
        BY <2>2 DEF Typed, Proper, ProperFor
      <4>2. running \in CRs /\ obj \in CRObjects
        BY <4>1, ObjectInHand
      <4> QED BY <3>1, <4>2, TargetIsGateway, ResourcesAre
    <3> QED BY <1>2, <3>1, <3>2 DEF Own
  <2> QED BY <2>1, <2>2
<1>5. Backed'
  <2> SUFFICES ASSUME NEW g \in Gateways, NEW kind \in Dependent(g), ~Ending(kind, g)',
                      NEW uid \in Owners(Of(kind, g))', Alive(uid)'
               PROVE  \/ uid \in Owners(Of("Deployment", g))'
                      \/ uid.cr = running' /\ ToApply(g)'
    BY DEF Backed
  <2>1. /\ Owners(Of(kind, g))' = Owners(Of(kind, g))
        /\ Owners(Of("Deployment", g))' = Owners(Of("Deployment", g))
    BY DependentAre
  <2>2. ~Ending(kind, g)
    BY <1>1, <2>1, EndingStays
  <2>3. Alive(uid)
    BY DEF Alive
  <2> QED BY <1>2, <2>1, <2>2, <2>3 DEF Backed
<1>6. Doomed'
  <2> SUFFICES ASSUME NEW g \in Gateways, Deleting("Deployment", g)',
                      NEW kind \in Dependent(g)
               PROVE  Ending(kind, g)'
    BY DEF Doomed
  <2>1. CASE Deleting("Deployment", g)
    <3>1. Ending(kind, g)
      BY <2>1 DEF Doomed
    <3>2. Owners(Of(kind, g))' = Owners(Of(kind, g))
      BY DependentAre
    <3> QED BY <1>1, <3>1, <3>2, EndingStays
  <2>2. CASE ~Deleting("Deployment", g)
    <3>1. PICK x \in calls : x.do = "delete" /\ x.kind = "Deployment" /\ x.name = g
      BY <2>2 DEF Deleting
    <3> QED BY <3>1 DEF Ending
  <2> QED BY <2>1, <2>2
<1>7. Handled'
  <2> SUFFICES ASSUME NEW g \in Gateways, ~Abandoned(Of("Deployment", g))', ~Used(g)'
               PROVE  Attended(g)'
    BY DEF Handled
  <2>1. ~Abandoned(Of("Deployment", g))
    BY <1>3, DependentAre
  <2>2. ~Used(g)
    BY DEF Used, Uses, Lives
  <2>3. Attended(g)
    BY <2>1, <2>2 DEF Handled
  <2>4. CASE Deleting("Deployment", g)
    BY <1>1, <2>4 DEF Attended
  <2>5. CASE g \in Routers /\ (queue # {} \/ Unneeded(g) \in Pending)
    BY <2>1, <2>5 DEF Attended
  <2>6. ASSUME NEW c \in CRs, FacadeOf[c.name] = g,
               c \in queue \/ (running = c /\ DeleteFacadeGateway(g) \in Pending)
        PROVE  Attended(g)'
    <3>1. g \notin Routers
      BY <2>6 DEF Apart, Names
    <3> QED BY <2>1, <2>6, <3>1 DEF Attended
  <2> QED BY <2>3, <2>4, <2>5, <2>6 DEF Attended
<1> QED BY <1>4, <1>5, <1>6, <1>7

\* What is applied is what was found, with another owner.
LEMMA CleanApply ==
  ASSUME Typed, DoApply, ~lagged'
  PROVE  LET call == Head(todo)
             o == Object(call)
         IN /\ todo # <<>> /\ running \in CRs /\ obj \in CRObjects /\ obj # None
            /\ Proper(call) /\ call.do = "apply" /\ call \in Pending
            /\ o \in Resources /\ o.kind = call.kind /\ o.name = call.name
            /\ Environs /\ Continue
            /\ \E new : /\ RenderedFor(call, new)
                        /\ new.owners = {Own} \cup Owners(o)
                        /\ res' = [res EXCEPT ![o] = new]
<1> DEFINE call == Head(todo)
           o == Object(call)
           rendered == Rendered(call.kind, call.name, call.gateway)
<1>1. /\ todo # <<>> /\ running # None /\ call.do = "apply" /\ Environs /\ seen[o] = res[o]
      /\ IF seen[o] = None THEN Create(o, rendered) ELSE Update(o, Merged(rendered, seen[o]))
  BY DEF DoApply, Calling, Reads, Conflict, Environs, Object
<1>2. /\ Proper(call) /\ running \in CRs /\ obj \in CRObjects /\ obj # None
      /\ call \in Pending
  BY <1>1, NextCall, ObjectInHand DEF Proper, ProperFor
<1>3. o \in Resources /\ o.kind = call.kind /\ o.name = call.name
  BY <1>2, ResourcesAre DEF Proper, ProperFor, Object
<1>4. /\ rendered.owners = {Own} /\ Own \in [cr: CRs, inc: Nat]
      /\ rendered = [rendered EXCEPT !.owners = rendered.owners]
  BY <1>2 DEF Rendered, Own, CRObjects
<1>5. \E new : /\ RenderedFor(call, new) /\ new.owners = {Own} \cup Owners(o)
               /\ Continue /\ res' = [res EXCEPT ![o] = new]
  <2>1. CASE res[o] = None
    <3>1. RenderedFor(call, rendered) /\ rendered.owners = {Own} \cup Owners(o)
      <4>1. Owners(o) = {}
        BY <2>1 DEF Owners
      <4>2. rendered.owners \in SUBSET [cr: CRs, inc: Nat]
        BY <1>4
      <4> QED BY <1>4, <4>1, <4>2 DEF RenderedFor
    <3>2. Continue /\ res' = [res EXCEPT ![o] = rendered]
      BY <1>1, <2>1 DEF Create
    <3> QED BY <3>1, <3>2
  <2>2. CASE res[o] # None
    <3> DEFINE new == Merged(rendered, res[o])
    <3>1. Owners(o) \in SUBSET [cr: CRs, inc: Nat] /\ Owners(o) = res[o].owners
      BY <1>3, <2>2, TypedOwners DEF Owners
    <3>2. new = [rendered EXCEPT !.owners = {Own} \cup Owners(o)]
      BY <1>4, <3>1 DEF Merged
    <3>3. new.owners = {Own} \cup Owners(o)
      BY <3>2 DEF Rendered
    <3>4. RenderedFor(call, new)
      <4>1. {Own} \cup Owners(o) \in SUBSET [cr: CRs, inc: Nat]
        BY <1>4, <3>1
      <4> QED BY <1>4, <3>2, <4>1 DEF RenderedFor
    <3>5. Continue /\ res' = [res EXCEPT ![o] = new]
      BY <1>1, <2>2 DEF Update, Conflict
    <3> QED BY <3>3, <3>4, <3>5
  <2> QED BY <2>1, <2>2
<1> QED BY <1>1, <1>2, <1>3, <1>5

LEMMA AppliedObject ==
  ASSUME Apart, Typed, Plain, Numbered, Owned,
         running \in CRs, obj \in CRObjects, obj # None,
         NEW call, Proper(call), call.do = "apply",
         NEW new, RenderedFor(call, new), new.owners = {Own} \cup Owners(Object(call))
  PROVE  /\ ~new.headless /\ OwnedObject(Object(call), new)
         /\ \A uid \in new.owners : uid.inc < born[uid.cr]
<1> DEFINE o == Object(call)
<1>1. /\ o \in Resources /\ o.kind = call.kind /\ o.name = call.name
      /\ new.by = running /\ Own \in new.owners
      /\ new.selects = IF call.kind = "Service" THEN call.gateway ELSE None
      /\ new.headless = (call.kind = "Service" /\ headless)
      /\ new.mesh = (call.kind = "Deployment" /\ Composite(obj))
  BY RenderedForIs, ResourcesAre DEF Proper, ProperFor, Object, Own
<1>2. ~new.headless
  BY <1>1 DEF Plain
<1>3. Own.inc < born[Own.cr] /\ Own.cr = running /\ running # None
  <2>1. obj = crs[running] /\ born[running] = obj.inc + 1 /\ obj.inc \in Nat
    BY ObjectInHand DEF Numbered, CRObjects
  <2> QED BY <2>1, OwnIsAlive, NamesAndGateways
<1>4. \A uid \in new.owners : uid.inc < born[uid.cr]
  BY <1>1, <1>3 DEF Numbered
<1>5. ASSUME o.kind = "Service"
      PROVE  /\ new.selects \in Gateways /\ o.name \in Names \cup Routers
             /\ o.name \in Names => \A uid \in new.owners : uid.cr.name = o.name
  <2>1. new.selects \in Gateways
    BY <1>1, <1>5 DEF Proper, ProperFor
  <2>2. call.name = running.name \/ call.name \in Routers
    BY <1>1, <1>5 DEF Proper, ProperFor
  <2>3. o.name \in Names \cup Routers
    BY <1>1, <2>2, NamesAndGateways
  <2>4. ASSUME o.name \in Names, NEW uid \in new.owners PROVE uid.cr.name = o.name
    <3>1. call.name = running.name
      BY <1>1, <2>2, <2>4 DEF Apart
    <3>2. CASE uid = Own
      BY <1>1, <1>3, <3>1, <3>2
    <3>3. CASE uid \in Owners(o)
      <4>1. res[o] # None /\ uid \in res[o].owners
        BY <3>3 DEF Owners
      <4>2. res[o].by # None
        BY <1>1, <4>1 DEF Typed, WellMade
      <4> QED BY <1>1, <1>5, <2>4, <4>1, <4>2 DEF Owned, OwnedObject
    <3> QED BY <2>4, <3>2, <3>3
  <2> QED BY <2>1, <2>3, <2>4
<1>6. o.kind = "Deployment" /\ o.name \in Routers => new.mesh
  <2> SUFFICES ASSUME o.kind = "Deployment", o.name \in Routers PROVE new.mesh
    OBVIOUS
  <2>1. call.name = Target(running, obj)
    BY <1>1 DEF Proper, ProperFor
  <2>2. FacadeOf[running.name] \notin Routers
    BY DEF Apart, Names
  <2>3. Composite(obj)
    BY <1>1, <2>1, <2>2, TargetIsGateway
  <2> QED BY <1>1, <2>3
<1> QED BY <1>1, <1>2, <1>4, <1>5, <1>6 DEF OwnedObject

LEMMA PutIsSound ==
  ASSUME Typed, Plain, Numbered, Owned, NEW o \in Resources, NEW new,
         res' = [res EXCEPT ![o] = new],
         \/ new = None
         \/ /\ ~new.headless /\ OwnedObject(o, new)
            /\ \A uid \in new.owners : uid.inc < born[uid.cr],
         \A call \in Pending' : call.do # "create",
         UNCHANGED <<crs, born, seen, headless>>
  PROVE  Plain' /\ Numbered' /\ Owned'
<1>1. res'[o] = new /\ \A x \in Resources \ {o} : res'[x] = res[x]
  BY DEF Typed, WellMade
<1>2. Plain'
  BY <1>1 DEF Plain
<1>3. Numbered'
  BY <1>1 DEF Numbered, Owners
<1>4. Owned'
  BY <1>1 DEF Owned, OwnedObject
<1> QED BY <1>2, <1>3, <1>4

LEMMA DoomedAreUnused ==
  ASSUME Sparing, NEW g, NEW kind \in Everything, Deleting(kind, g)
  PROVE  ~Used(g)
BY DEF Sparing, Deleting, Harmless, Everything, Monitored

LEMMA ApplyTidies ==
  ASSUME Apart, Typed, Sparing, Tidying, DoApply, ~lagged'
  PROVE  Tidying'
<1>0. PICK call, o : call = Head(todo) /\ o = Object(call)
  OBVIOUS
<1>1. /\ todo # <<>> /\ running \in CRs /\ obj \in CRObjects /\ obj # None
      /\ Proper(call) /\ call.do = "apply" /\ call \in Pending
      /\ o \in Resources /\ o.kind = call.kind /\ o.name = call.name
      /\ Environs /\ Continue
  BY <1>0, CleanApply
<1>2. PICK new : /\ RenderedFor(call, new)
                 /\ new.owners = {Own} \cup Owners(o)
                 /\ res' = [res EXCEPT ![o] = new]
  BY <1>0, CleanApply
<1>3. /\ Plain /\ Numbered /\ Owned /\ Applying /\ Backed /\ Doomed /\ Handled
      /\ UNCHANGED <<crs, born, seen, headless, queue, running, obj>>
      /\ Pending' \subseteq Pending /\ Pending \subseteq {call} \cup Pending'
  BY <1>0, <1>1, ContinueIs DEF Tidying, Environs, envVars
<1>4. Plain' /\ Numbered' /\ Owned'
  <2>1. /\ ~new.headless /\ OwnedObject(o, new)
        /\ \A uid \in new.owners : uid.inc < born[uid.cr]
    BY <1>0, <1>1, <1>2, <1>3, AppliedObject
  <2>2. \A x \in Pending' : x.do # "create"
    BY <1>3 DEF Plain
  <2> QED BY <1>1, <1>2, <1>3, <2>1, <2>2, PutIsSound
<1>5. /\ Owners(o)' = {Own} \cup Owners(o)
      /\ \A x \in Resources : x # o => Owners(x)' = Owners(x)
  <2>1. new # None
    BY <1>0, <1>1, <1>2, RenderedForIs, GatewayNoneAssumption
  <2>2. res'[o] = new /\ \A x \in Resources : x # o => res'[x] = res[x]
    BY <1>1, <1>2 DEF Typed, WellMade
  <2> QED BY <1>2, <2>1, <2>2 DEF Owners
<1>6. \A kind, g : /\ Deleting(kind, g) <=> Deleting(kind, g)'
                   /\ Of(kind, g) = o => kind = call.kind /\ g = call.name
  BY <1>0, <1>1, <1>3, ResourcesAre DEF Deleting, Object
<1>7. ASSUME NEW g, ToApply(g)
      PROVE  ToApply(g)' \/ (o = Of("Deployment", g) /\ Own \in Owners(Of("Deployment", g))')
  <2>1. CASE call = Apply("Deployment", g, g)
    <3>1. o = Of("Deployment", g)
      BY <1>0, <2>1 DEF Object, Apply, Call
    <3> QED BY <1>5, <3>1
  <2>2. CASE call # Apply("Deployment", g, g)
    BY <1>3, <1>7, <2>2 DEF ToApply
  <2> QED BY <2>1, <2>2
<1>8. ASSUME NEW g \in Gateways, NEW uid \in Owners(Of("Deployment", g))
      PROVE  uid \in Owners(Of("Deployment", g))'
  <2>1. Of("Deployment", g) \in Resources
    BY DependentAre
  <2> QED BY <1>5, <1>8, <2>1
<1>9. Used(Target(running, obj)) /\ Target(running, obj) \in Gateways
  BY <1>1, OwnIsAlive, TargetIsGateway
<1>10. Own' = Own /\ \A uid : Alive(uid)' <=> Alive(uid)
  BY <1>3 DEF Own, Alive
<1>11. Applying'
  <2> SUFFICES ASSUME NEW x \in Pending', x.do = "apply", x.kind \in Dependent(x.name)
               PROVE  /\ x.name = Target(running, obj)
                      /\ ToApply(x.name)' \/ Own \in Owners(Of("Deployment", x.name))'
    BY <1>3, <1>10 DEF Applying, Target, Composite
  <2>1. /\ x.name = Target(running, obj)
        /\ ToApply(x.name) \/ Own \in Owners(Of("Deployment", x.name))
    BY <1>3 DEF Applying
  <2> QED BY <1>7, <1>8, <1>9, <2>1
<1>12. ASSUME NEW g \in Gateways, NEW kind \in Dependent(g), Of(kind, g) = o
       PROVE  /\ g = Target(running, obj) /\ call # Apply("Deployment", g, g)
              /\ ToApply(g) \/ Own \in Owners(Of("Deployment", g))
  <2>1. call.kind = kind /\ call.name = g /\ kind # "Deployment"
    BY <1>6, <1>12, DependentAre
  <2>2. call # Apply("Deployment", g, g)
    BY <2>1 DEF Apply, Call
  <2> QED BY <1>1, <1>3, <2>1, <2>2 DEF Applying
<1>13. Backed'
  <2> SUFFICES ASSUME NEW g \in Gateways, NEW kind \in Dependent(g), ~Ending(kind, g)',
                      NEW uid \in Owners(Of(kind, g))', Alive(uid)
               PROVE  \/ uid \in Owners(Of("Deployment", g))'
                      \/ uid.cr = running /\ ToApply(g)'
    BY <1>3, <1>10 DEF Backed
  <2> DEFINE x == Of(kind, g)
  <2>1. x \in Resources /\ x # Of("Deployment", g)
    BY DependentAre
  <2>2. CASE uid \in Owners(x)
    <3>1. ~Ending(kind, g)
      <4>1. ~Abandoned(x)
        BY <2>2 DEF Abandoned
      <4>2. ~Deleting(kind, g)
        BY <1>6 DEF Ending
      <4> QED BY <4>1, <4>2 DEF Ending
    <3>2. uid \in Owners(Of("Deployment", g)) \/ (uid.cr = running /\ ToApply(g))
      BY <2>2, <3>1, <1>3 DEF Backed
    <3>3. CASE uid.cr = running /\ ToApply(g)
      <4>1. uid = Own
        BY <1>1, <2>1, <2>2, <3>3, TypedOwners, OwnIsAlive
      <4> QED BY <1>7, <3>3, <4>1
    <3> QED BY <1>8, <3>2, <3>3
  <2>3. CASE uid \notin Owners(x)
    <3>1. x = o /\ uid = Own
      BY <1>5, <2>1, <2>3
    <3>2. uid.cr = running
      BY <1>1, <3>1, OwnIsAlive
    <3> QED BY <1>7, <1>8, <1>12, <3>1, <3>2
  <2> QED BY <2>2, <2>3
<1>14. Doomed'
  <2> SUFFICES ASSUME NEW g \in Gateways, Deleting("Deployment", g)',
                      NEW kind \in Dependent(g)
               PROVE  Ending(kind, g)'
    BY DEF Doomed
  <2>1. Deleting("Deployment", g) /\ Ending(kind, g)
    BY <1>3, <1>6 DEF Doomed
  <2>2. ~Used(g)
    BY <2>1, DoomedAreUnused DEF Everything
  <2>3. Of(kind, g) # o /\ Of(kind, g) \in Resources
    BY <1>9, <1>12, <2>2, DependentAre
  <2>4. Owners(Of(kind, g))' = Owners(Of(kind, g))
    BY <1>5, <2>3
  <2> QED BY <1>3, <1>6, <2>1, <2>4, EndingStays
<1>15. Handled'
  <2> SUFFICES ASSUME NEW g \in Gateways, ~Abandoned(Of("Deployment", g))', ~Used(g)
               PROVE  Attended(g)'
    BY <1>3 DEF Handled, Used, Uses, Lives
  <2>1. Of("Deployment", g) # o
    <3>1. SUFFICES ASSUME call.kind = "Deployment", call.name = g PROVE FALSE
      BY <1>6
    <3>2. g = Target(running, obj)
      BY <1>1, <3>1 DEF Proper, ProperFor
    <3> QED BY <1>9, <3>2
  <2>2. Owners(Of("Deployment", g))' = Owners(Of("Deployment", g))
    BY <1>5, <2>1, DependentAre
  <2>3. ~Abandoned(Of("Deployment", g))
    BY <1>10, <2>2 DEF Abandoned
  <2>4. call # Unneeded(g) /\ call # DeleteFacadeGateway(g)
    BY <1>1 DEF Unneeded, DeleteFacadeGateway, Call
  <2>5. Attended(g)
    BY <1>3, <2>3 DEF Handled
  <2> QED BY <1>3, <1>6, <2>4, <2>5 DEF Attended
<1> QED BY <1>4, <1>11, <1>13, <1>14, <1>15 DEF Tidying

\* A gateway's object that is deleted is gone: a mesh router's service selects
\* a gateway of the operator.
LEMMA CleanDelete ==
  ASSUME Typed, Owned, DoDelete, ~lagged', NEW o, o = Object(Head(todo))
  PROVE  LET call == Head(todo)
         IN /\ todo # <<>> /\ Proper(call) /\ call.do = "delete" /\ call \in Pending
            /\ o \in Resources /\ o.kind = call.kind /\ o.name = call.name
            /\ Environs /\ Continue
            /\ res' = res \/ res' = [res EXCEPT ![o] = None]
            /\ o.kind \in Everything \/ o.name \in Routers => Owners(o)' = {}
<1> DEFINE call == Head(todo)
<1>1. /\ todo # <<>> /\ running # None /\ call.do = "delete" /\ Environs /\ seen[o] = res[o]
      /\ DeleteObject(o, call.gateway, <<>>)
  BY DEF DoDelete, Calling, Reads, Conflict, Environs, Object
<1>2. Proper(call) /\ call \in Pending
  BY <1>1, NextCall
<1>3. o \in Resources /\ o.kind = call.kind /\ o.name = call.name
  BY <1>2, ResourcesAre DEF Proper, ProperFor, Object
<1>4. /\ Continue
      /\ \/ /\ res' = res
            /\ res[o] = None \/ (o.kind = "Service" /\ ~SelectsManaged(o, call.gateway))
         \/ res' = [res EXCEPT ![o] = None]
  BY <1>1 DEF DeleteObject, Conflict, Continue
<1>5. ASSUME o.kind \in Everything \/ o.name \in Routers
      PROVE  Owners(o)' = {}
  <2>1. CASE res' = [res EXCEPT ![o] = None]
    BY <1>3, <2>1 DEF Owners, Typed, WellMade
  <2>2. CASE res' = res /\ res[o] = None
    BY <2>2 DEF Owners
  <2>3. CASE res' = res /\ res[o] # None /\ o.kind = "Service"
             /\ ~SelectsManaged(o, call.gateway)
    <3>1. res[o].by = None
      <4> SUFFICES ASSUME res[o].by # None PROVE FALSE
        OBVIOUS
      <4> DEFINE app == seen[o].selects
                 d == Of("Deployment", app)
      <4>1. app \in Gateways
        BY <1>1, <1>3, <2>3 DEF Owned, OwnedObject
      <4>2. seen[d] # None /\ seen[d].by = None
        BY <2>3 DEF SelectsManaged
      <4>3. d \in Resources /\ d # Of("Deployment", Foreign) /\ d # Of("Service", ForeignService)
        BY <4>1, ResourcesAre, ForeignAssumption
      <4> QED BY <4>2, <4>3 DEF Typed, WellMade
    <3>2. res[o].owners = {}
      BY <1>3, <2>3, <3>1 DEF Typed, WellMade
    <3> QED BY <2>3, <3>2 DEF Owners
  <2> QED BY <1>4, <2>1, <2>2, <2>3
<1> QED BY <1>1, <1>2, <1>3, <1>4, <1>5

LEMMA DeleteTidies ==
  ASSUME Apart, Typed, Sparing, Tidying, DoDelete, ~lagged'
  PROVE  Tidying'
<1>0. PICK call, o : call = Head(todo) /\ o = Object(call)
  OBVIOUS
<1>1. /\ todo # <<>> /\ Proper(call) /\ call.do = "delete" /\ call \in Pending
      /\ o \in Resources /\ o.kind = call.kind /\ o.name = call.name
      /\ Environs /\ Continue
      /\ res' = res \/ res' = [res EXCEPT ![o] = None]
      /\ o.kind \in Everything \/ o.name \in Routers => Owners(o)' = {}
  BY <1>0, CleanDelete DEF Tidying
<1>2. /\ Plain /\ Numbered /\ Owned /\ Applying /\ Backed /\ Doomed /\ Handled
      /\ UNCHANGED <<crs, born, seen, headless, queue, running, obj>>
      /\ Pending' \subseteq Pending /\ Pending \subseteq {call} \cup Pending'
  BY <1>0, <1>1, ContinueIs DEF Tidying, Environs, envVars
<1>3. Plain' /\ Numbered' /\ Owned'
  <2>1. \A x \in Pending' : x.do # "create"
    BY <1>2 DEF Plain
  <2>2. CASE res' = [res EXCEPT ![o] = None]
    BY <1>1, <1>2, <2>1, <2>2, PutIsSound
  <2>3. CASE res' = res
    BY <1>2, <2>1, <2>3 DEF Plain, Numbered, Owned, Owners, OwnedObject
  <2> QED BY <1>1, <2>2, <2>3
<1>4. /\ \A x \in Resources : x # o => Owners(x)' = Owners(x)
      /\ \A x \in Resources : Owners(x)' \subseteq Owners(x)
  BY <1>1 DEF Owners, Typed, WellMade
<1>5. \A kind, g : /\ Deleting(kind, g)' => Deleting(kind, g)
                   /\ Deleting(kind, g) => Deleting(kind, g)' \/ Of(kind, g) = o
  BY <1>0, <1>1, <1>2 DEF Deleting, Object
<1>6. \A g : ToApply(g) => ToApply(g)'
  BY <1>1, <1>2 DEF ToApply, Apply, Call
<1>7. Own' = Own /\ \A uid : Alive(uid)' <=> Alive(uid)
  BY <1>2 DEF Own, Alive
<1>8. ASSUME NEW g \in Gateways, Of("Deployment", g) = o
      PROVE  Deleting("Deployment", g) /\ ~Used(g) /\ Owners(Of("Deployment", g))' = {}
  <2>1. call.kind = "Deployment" /\ call.name = g
    BY <1>1, <1>8, ResourcesAre
  <2>2. Deleting("Deployment", g)
    BY <1>1, <2>1 DEF Deleting
  <2> QED BY <1>1, <1>8, <2>1, <2>2, DoomedAreUnused DEF Everything
<1>9. ASSUME NEW g \in Gateways, NEW kind \in Dependent(g), Of(kind, g) = o
      PROVE  Owners(o)' = {}
  <2>1. o.kind = kind /\ o.name = g
    BY <1>9, ResourcesAre
  <2> QED BY <1>1, <2>1 DEF Dependent, Everything
<1>10. ASSUME NEW g \in Gateways, NEW kind \in Dependent(g), Ending(kind, g)
       PROVE  Ending(kind, g)'
  <2>1. CASE Of(kind, g) = o
    BY <1>9, <2>1 DEF Ending, Abandoned
  <2>2. CASE Of(kind, g) # o
    <3>1. Owners(Of(kind, g))' \subseteq Owners(Of(kind, g))
      BY <1>4, DependentAre
    <3> QED BY <1>2, <1>5, <1>10, <2>2, <3>1, EndingStays
  <2> QED BY <2>1, <2>2
<1>11. Applying'
  <2> SUFFICES ASSUME NEW x \in Pending', x.do = "apply", x.kind \in Dependent(x.name)
               PROVE  /\ x.name = Target(running, obj)
                      /\ ToApply(x.name)' \/ Own \in Owners(Of("Deployment", x.name))'
    BY <1>2, <1>7 DEF Applying, Target, Composite
  <2>1. /\ x.name = Target(running, obj)
        /\ ToApply(x.name) \/ Own \in Owners(Of("Deployment", x.name))
    BY <1>2 DEF Applying
  <2>2. Used(x.name) /\ x.name \in Gateways
    <3>1. obj # None
      BY <1>2 DEF Typed, Proper, ProperFor
    <3> QED BY <2>1, <3>1, OwnIsAlive, ObjectInHand, TargetIsGateway
  <2>3. Owners(Of("Deployment", x.name))' = Owners(Of("Deployment", x.name))
    BY <1>4, <1>8, <2>2, DependentAre
  <2> QED BY <1>6, <2>1, <2>3
<1>12. Backed'
  <2> SUFFICES ASSUME NEW g \in Gateways, NEW kind \in Dependent(g), ~Ending(kind, g)',
                      NEW uid \in Owners(Of(kind, g))', Alive(uid)
               PROVE  \/ uid \in Owners(Of("Deployment", g))'
                      \/ uid.cr = running /\ ToApply(g)'
    BY <1>2, <1>7 DEF Backed
  <2>1. ~Ending(kind, g)
    BY <1>10
  <2>2. uid \in Owners(Of(kind, g))
    BY <1>4, DependentAre
  <2>3. uid \in Owners(Of("Deployment", g)) \/ (uid.cr = running /\ ToApply(g))
    BY <1>2, <2>1, <2>2 DEF Backed
  <2>4. Of("Deployment", g) # o
    BY <1>2, <1>8, <2>1 DEF Doomed
  <2>5. Owners(Of("Deployment", g))' = Owners(Of("Deployment", g))
    BY <1>4, <2>4, DependentAre
  <2> QED BY <1>6, <2>3, <2>5
<1>13. Doomed'
  BY <1>2, <1>5, <1>10 DEF Doomed
<1>14. Handled'
  <2> SUFFICES ASSUME NEW g \in Gateways, ~Abandoned(Of("Deployment", g))', ~Used(g)
               PROVE  Attended(g)'
    BY <1>2 DEF Handled, Used, Uses, Lives
  <2>1. Of("Deployment", g) # o
    BY <1>8 DEF Abandoned
  <2>2. Owners(Of("Deployment", g))' = Owners(Of("Deployment", g))
    BY <1>4, <2>1, DependentAre
  <2>3. ~Abandoned(Of("Deployment", g))
    BY <1>7, <2>2 DEF Abandoned
  <2>4. call # Unneeded(g) /\ call # DeleteFacadeGateway(g)
    BY <1>1 DEF Unneeded, DeleteFacadeGateway, Call
  <2>5. Attended(g)
    BY <1>2, <2>3 DEF Handled
  <2>6. Deleting("Deployment", g) => Deleting("Deployment", g)'
    BY <1>5, <2>1
  <2> QED BY <1>2, <2>4, <2>5, <2>6 DEF Attended
<1> QED BY <1>3, <1>11, <1>12, <1>13, <1>14 DEF Tidying

LEMMA SamePlain ==
  ASSUME Plain, Numbered, Owned, \A call \in Pending' : call.do # "create",
         UNCHANGED <<crs, born, res, seen, headless>>
  PROVE  /\ Plain' /\ Numbered' /\ Owned'
         /\ \A o \in Resources : Owners(o)' = Owners(o)
BY DEF Plain, Numbered, Owned, Owners, OwnedObject

LEMMA UnlabelTidies ==
  ASSUME Apart, Typed, Tidying, DoUnlabel, ~lagged'
  PROVE  Tidying'
<1>0. PICK call, o : call = Head(todo) /\ o = Of("Deployment", call.name)
  OBVIOUS
<1>1. /\ todo # <<>> /\ call.do = "unlabel" /\ seen[o] = res[o]
      /\ UNCHANGED <<crs, born, seen, headless>>
  <2>1. todo # <<>> /\ call.do = "unlabel"
    BY <1>0 DEF DoUnlabel, Calling
  <2>2. call.kind = "Deployment"
    BY <1>0, <2>1, NextCall DEF Proper, ProperFor
  <2> QED BY <1>0, <2>1, <2>2 DEF DoUnlabel, Calling, Reads, Conflict, envVars
<1>2. o \in Resources /\ seen[o] \in Objects \cup {None}
  BY <1>0, <1>1, NextCall, ResourcesAre DEF Proper, ProperFor, Typed, WellMade
<1>3. /\ Continue
      /\ \/ res' = res
         \/ res[o] # None /\ res' = [res EXCEPT ![o] = [res[o] EXCEPT !.label = None]]
  BY <1>0, <1>1 DEF DoUnlabel, Update, Conflict
<1>4. /\ Plain /\ Numbered /\ Owned /\ Applying /\ Backed /\ Doomed /\ Handled
      /\ UNCHANGED <<queue, running, obj>>
      /\ Pending' \subseteq Pending /\ Pending \subseteq {call} \cup Pending'
  BY <1>0, <1>1, <1>3, ContinueIs DEF Tidying
<1>5. \A x \in Pending' : x.do # "create"
  BY <1>4 DEF Plain
<1>6. /\ Plain' /\ Numbered' /\ Owned'
      /\ \A x \in Resources : Owners(x)' = Owners(x)
  <2>1. CASE res' = res
    BY <1>1, <1>4, <1>5, <2>1, SamePlain
  <2>2. CASE res[o] # None /\ res' = [res EXCEPT ![o] = [res[o] EXCEPT !.label = None]]
    <3> DEFINE new == [res[o] EXCEPT !.label = None]
    <3>1. /\ res[o] \in Objects /\ new \in Objects
          /\ new.owners = res[o].owners /\ new.by = res[o].by
          /\ new.selects = res[o].selects /\ new.headless = res[o].headless
          /\ new.mesh = res[o].mesh
      BY <1>1, <1>2, <2>2 DEF Objects
    <3>2. new # None
      BY <3>1, GatewayNoneAssumption
    <3>3. ~new.headless
      BY <1>2, <1>4, <2>2, <3>1 DEF Plain
    <3>4. OwnedObject(o, new)
      BY <1>2, <1>4, <2>2, <3>1 DEF Owned, OwnedObject
    <3>5. \A uid \in new.owners : uid.inc < born[uid.cr]
      BY <1>2, <1>4, <2>2, <3>1 DEF Numbered, Owners
    <3>6. \A x \in Resources : Owners(x)' = Owners(x)
      <4> HIDE DEF new
      <4>1. res'[o] = new /\ \A x \in Resources : x # o => res'[x] = res[x]
        BY <1>2, <2>2 DEF Typed, WellMade, new
      <4> QED BY <2>2, <3>1, <3>2, <4>1 DEF Owners
    <3> HIDE DEF new
    <3>7. res' = [res EXCEPT ![o] = new]
      BY <2>2 DEF new
    <3> QED BY <1>1, <1>2, <1>4, <1>5, <3>3, <3>4, <3>5, <3>6, <3>7, PutIsSound
  <2> QED BY <1>3, <2>1, <2>2
<1>7. \A g : call # Unneeded(g) /\ call # DeleteFacadeGateway(g)
  BY <1>1 DEF Unneeded, DeleteFacadeGateway, Call
<1>8. PICK none : none = {}
  OBVIOUS
<1>9. /\ Pending' \subseteq none \cup Pending /\ \A x \in none : FALSE
      /\ call.do \notin {"apply", "delete"}
  BY <1>1, <1>4, <1>8
<1>10. Applying' /\ Backed' /\ Doomed' /\ Handled'
  BY <1>1, <1>4, <1>6, <1>7, <1>9, CompoundTidies
<1> QED BY <1>6, <1>10 DEF Tidying

LEMMA DeletesPending ==
  ASSUME NEW g, NEW kind, Delete(kind, g) \in Pending'
  PROVE  Deleting(kind, g)'
BY DEF Deleting, Delete, Call

LEMMA MeshRouterTidies ==
  ASSUME Apart, Typed, Tidying, DoDeleteMeshRouter
  PROVE  Tidying'
<1>0. PICK call, g : call = Head(todo) /\ g = call.name
  OBVIOUS
<1> DEFINE calls == {Delete("Service", g)} \cup {Delete(kind, g) : kind \in Everything}
<1>1. /\ todo # <<>> /\ call.do = "deleteMeshRouter" /\ Instead(DeleteMeshRouter(g))
      /\ UNCHANGED <<crs, born, res, seen, headless>>
  BY <1>0 DEF DoDeleteMeshRouter, Calling, envVars
<1>2. g \in Routers
  BY <1>0, <1>1, NextCall DEF Proper, ProperFor
<1>3. DeleteMeshRouter(g) \in Seq(Calls) /\ Elements(DeleteMeshRouter(g)) = calls
  BY <1>2, DeleteMeshRouterCalls
<1>4. /\ Plain /\ Numbered /\ Owned /\ Applying /\ Backed /\ Doomed /\ Handled
      /\ UNCHANGED <<queue, running, obj>>
      /\ calls \subseteq Pending'
      /\ Pending' \subseteq calls \cup Pending /\ Pending \subseteq {call} \cup Pending'
  BY <1>0, <1>1, <1>3, InsteadIs DEF Tidying
<1>5. \A x \in calls : /\ x.do = "delete" /\ x.name = g
                       /\ x.kind \in Everything \cup {"Service"}
  BY DEF Delete, Call
<1>6. \A kind \in Everything \cup {"Service"} : Deleting(kind, g)'
  BY <1>4, DeletesPending
<1> HIDE DEF calls
<1>7. \A x \in Pending' : x.do # "create"
  BY <1>4, <1>5 DEF Plain
<1>8. /\ Plain' /\ Numbered' /\ Owned'
      /\ \A x \in Resources : Owners(x)' = Owners(x)
  BY <1>1, <1>4, <1>7, SamePlain
<1>9. \A h : /\ call = Unneeded(h) => h = g
             /\ call # DeleteFacadeGateway(h)
  BY <1>0, <1>1 DEF Unneeded, DeleteFacadeGateway, Call
<1>10. \A kind \in Dependent(g) : Deleting(kind, g)'
  BY <1>6 DEF Dependent, Everything
<1>11. \A h \in Gateways :
         \/ call = Unneeded(h) /\ h \in Routers
         \/ call = DeleteFacadeGateway(h) /\ h \notin Routers
         => Deleting("Deployment", h)' \/ Abandoned(Of("Deployment", h))
  BY <1>6, <1>9 DEF Everything
<1>12. call.do \notin {"apply", "delete"}
  BY <1>1
<1>13. Applying' /\ Backed' /\ Doomed' /\ Handled'
  BY <1>1, <1>4, <1>5, <1>8, <1>10, <1>11, <1>12, CompoundTidies
<1> QED BY <1>8, <1>13 DEF Tidying

LEMMA FacadeGatewayTidies ==
  ASSUME Apart, Typed, Tidying, DoDeleteFacadeGateway, ~lagged'
  PROVE  Tidying'
<1>0. PICK call, g, d : call = Head(todo) /\ g = call.name /\ d = Of("Deployment", g)
  OBVIOUS
<1> DEFINE calls == IF res[d] = None \/ res[d].mesh \/ res[d].by = None THEN <<>>
                    ELSE DeleteGateway(g)
<1>1. /\ todo # <<>> /\ call.do = "deleteFacadeGateway" /\ call.kind = "Deployment"
      /\ seen[d] = res[d] /\ Instead(calls) /\ call \in Pending
      /\ UNCHANGED <<crs, born, res, seen, headless>>
  <2>1. todo # <<>> /\ call.do = "deleteFacadeGateway"
    BY <1>0 DEF DoDeleteFacadeGateway, Calling
  <2>2. call.kind = "Deployment" /\ call \in Pending
    BY <1>0, <2>1, NextCall DEF Proper, ProperFor
  <2> QED BY <1>0, <2>1, <2>2
          DEF DoDeleteFacadeGateway, Calling, Reads, Conflict, envVars
<1>2. g \in Gateways /\ d \in Resources /\ d.kind = "Deployment" /\ d.name = g
  BY <1>0, <1>1, NextCall, ResourcesAre DEF Proper, ProperFor
<1>3. /\ calls \in Seq(Calls)
      /\ \/ calls = <<>> /\ Elements(calls) = {}
            /\ (res[d] = None \/ res[d].mesh \/ res[d].by = None)
         \/ /\ Elements(calls) = {Delete(kind, g) : kind \in Everything}
            /\ res[d] # None /\ ~res[d].mesh /\ res[d].by # None
  <2>1. CASE res[d] = None \/ res[d].mesh \/ res[d].by = None
    BY <2>1, ElementsOfNone
  <2>2. CASE ~(res[d] = None \/ res[d].mesh \/ res[d].by = None)
    BY <1>2, <2>2, DeleteGatewayCalls
  <2> QED BY <2>1, <2>2
<1> DEFINE new == Elements(calls)
<1>4. /\ Plain /\ Numbered /\ Owned /\ Applying /\ Backed /\ Doomed /\ Handled
      /\ UNCHANGED <<queue, running, obj>>
      /\ new \subseteq Pending'
      /\ Pending' \subseteq new \cup Pending /\ Pending \subseteq {call} \cup Pending'
  <2> HIDE DEF calls
  <2> QED BY <1>0, <1>1, <1>3, InsteadIs DEF Tidying
<1>5. \A x \in new : x.do = "delete" /\ x.name = g
  BY <1>3 DEF Delete, Call
<1>6. new # {} => \A kind \in Everything : Deleting(kind, g)'
  <2> HIDE DEF calls
  <2> QED BY <1>3, <1>4, DeletesPending
<1>7. new # {} => g \notin Routers
  <2> HIDE DEF calls
  <2> QED BY <1>2, <1>3, <1>4 DEF Owned, OwnedObject
<1>8. g \notin Routers => new # {} \/ Abandoned(d)
  <2> SUFFICES ASSUME g \notin Routers, new = {} PROVE Abandoned(d)
    OBVIOUS
  <2>1. Delete("Deployment", g) \in {Delete(kind, g) : kind \in Everything}
    BY DEF Everything
  <2>2. res[d] = None \/ res[d].mesh \/ res[d].by = None
    BY <1>3, <2>1
  <2>3. res[d] # None => ~res[d].mesh
    BY <1>0, <1>2 DEF Typed, WellMade
  <2>4. res[d] # None /\ res[d].by = None => res[d].owners = {}
    BY <1>2 DEF Typed, WellMade
  <2> QED BY <2>2, <2>3, <2>4 DEF Abandoned, Owners
<1> HIDE DEF new, calls
<1>9. \A x \in Pending' : x.do # "create"
  BY <1>4, <1>5 DEF Plain
<1>10. /\ Plain' /\ Numbered' /\ Owned'
       /\ \A x \in Resources : Owners(x)' = Owners(x)
  BY <1>1, <1>4, <1>9, SamePlain
<1>11. \A h : /\ call = DeleteFacadeGateway(h) => h = g
              /\ call # Unneeded(h)
  BY <1>0, <1>1 DEF Unneeded, DeleteFacadeGateway, Call
<1>12. new # {} => \A kind \in Dependent(g) : Deleting(kind, g)'
  BY <1>6, <1>7 DEF Dependent, Everything
<1>13. \A h \in Gateways :
         \/ call = Unneeded(h) /\ h \in Routers
         \/ call = DeleteFacadeGateway(h) /\ h \notin Routers
         => Deleting("Deployment", h)' \/ Abandoned(Of("Deployment", h))
  BY <1>0, <1>6, <1>8, <1>11 DEF Everything
<1>14. \A x \in new : x.do = "delete" /\ \A kind \in Dependent(x.name) : Deleting(kind, x.name)'
  BY <1>5, <1>12
<1>15. call.do \notin {"apply", "delete"}
  BY <1>1
<1>16. Applying' /\ Backed' /\ Doomed' /\ Handled'
  BY <1>1, <1>4, <1>10, <1>13, <1>14, <1>15, CompoundTidies
<1> QED BY <1>10, <1>16 DEF Tidying

LEMMA PriorityTidies ==
  ASSUME Apart, Typed, Tidying, DoPriority
  PROVE  Tidying'
<1>0. PICK call, g : call = Head(todo) /\ g = call.name
  OBVIOUS
<1> DEFINE calls == IF MayConfigure(running, obj, g) THEN Configure(g, obj) ELSE <<>>
           new == Elements(calls)
<1>1. /\ todo # <<>> /\ call.do = "priority" /\ Instead(calls)
      /\ UNCHANGED <<crs, born, res, seen, headless>>
  BY <1>0 DEF DoPriority, Calling, envVars
<1>2. g \in Gateways /\ g = Target(running, obj)
  <2>1. obj # None /\ Composite(obj) /\ call = PriorityCall(obj.gateway)
    BY <1>0, <1>1, NextCall DEF Proper, ProperFor, PriorityCall
  <2>2. g = obj.gateway
    BY <1>0, <2>1 DEF PriorityCall, Call
  <2> HIDE DEF calls
  <2> QED BY <2>1, <2>2, ObjectInHand, TargetIsGateway
<1>3. /\ calls \in Seq(Calls)
      /\ new # {} => Apply("Deployment", g, g) \in new
      /\ \A x \in new : x.do = "apply" /\ x.name = g
  <2>1. CASE MayConfigure(running, obj, g)
    <3>1. /\ calls \in Seq(Calls)
          /\ new = {Apply(kind, g, g) : kind \in Everything}
                   \cup (IF obj.mesh THEN {Apply("Service", g, g)} ELSE {})
      BY <1>2, <2>1, ConfigureCalls
    <3>2. "Deployment" \in Everything
      BY DEF Everything
    <3>3. \A kind : Apply(kind, g, g).do = "apply" /\ Apply(kind, g, g).name = g
      BY DEF Apply, Call
    <3> HIDE DEF new, calls
    <3> QED BY <3>1, <3>2, <3>3
  <2>2. CASE ~MayConfigure(running, obj, g)
    BY <2>2, ElementsOfNone
  <2> QED BY <2>1, <2>2
<1> HIDE DEF calls
<1>4. /\ Plain /\ Numbered /\ Owned /\ Applying /\ Backed /\ Doomed /\ Handled
      /\ UNCHANGED <<queue, running, obj>>
      /\ new \subseteq Pending'
      /\ Pending' \subseteq new \cup Pending /\ Pending \subseteq {call} \cup Pending'
  BY <1>0, <1>1, <1>3, InsteadIs DEF Tidying
<1> HIDE DEF new
<1>5. \A x \in Pending' : x.do # "create"
  BY <1>3, <1>4 DEF Plain
<1>6. /\ Plain' /\ Numbered' /\ Owned'
      /\ \A x \in Resources : Owners(x)' = Owners(x)
  BY <1>1, <1>4, <1>5, SamePlain
<1>7. \A h : call # Unneeded(h) /\ call # DeleteFacadeGateway(h)
  BY <1>1 DEF Unneeded, DeleteFacadeGateway, Call
<1>8. \A x \in new : x.do = "apply" /\ x.name = Target(running, obj) /\ ToApply(x.name)'
  BY <1>2, <1>3, <1>4 DEF ToApply
<1>9. call.do \notin {"apply", "delete"}
  BY <1>1
<1>10. Applying' /\ Backed' /\ Doomed' /\ Handled'
  BY <1>1, <1>4, <1>6, <1>7, <1>8, <1>9, CompoundTidies
<1> QED BY <1>6, <1>10 DEF Tidying

\* Between two reconciles nothing is to be called.
LEMMA IdleTidying ==
  ASSUME Typed, todo = <<>>, Tidying
  PROVE  /\ Pending = {}
         /\ \A g \in Gateways : \A kind \in Dependent(g) :
              \A uid \in Owners(Of(kind, g)) :
                Alive(uid) => uid \in Owners(Of("Deployment", g))
         /\ \A g \in Gateways :
              \/ Abandoned(Of("Deployment", g)) \/ Used(g)
              \/ g \in Routers /\ queue # {}
              \/ \E c \in CRs : FacadeOf[c.name] = g /\ c \in queue
<1>1. Pending = {}
  BY ElementsOfNone DEF Pending
<1>2. \A kind, g : ~Deleting(kind, g) /\ ~ToApply(g)
  BY <1>1 DEF Deleting, ToApply
<1>3. /\ \A kind, g : Ending(kind, g) => Abandoned(Of(kind, g))
      /\ \A g : Attended(g) => \/ g \in Routers /\ queue # {}
                               \/ \E c \in CRs : FacadeOf[c.name] = g /\ c \in queue
  BY <1>1, <1>2 DEF Ending, Attended
<1> QED BY <1>1, <1>2, <1>3 DEF Tidying, Backed, Handled, Abandoned

LEMMA TidyWhenIdle ==
  ASSUME Pending' = {}, Plain', Numbered', Owned',
         \A g \in Gateways : \A kind \in Dependent(g) :
           \A uid \in Owners(Of(kind, g))' :
             Alive(uid)' => uid \in Owners(Of("Deployment", g))',
         \A g \in Gateways :
           \/ Abandoned(Of("Deployment", g))' \/ Used(g)'
           \/ g \in Routers /\ queue' # {}
           \/ \E c \in CRs : FacadeOf[c.name] = g /\ c \in queue'
  PROVE  Tidying'
<1>1. Applying' /\ Doomed'
  BY DEF Applying, Doomed, Deleting
<1>2. Backed'
  BY DEF Backed
<1>3. Handled'
  BY DEF Handled, Attended
<1> QED BY <1>1, <1>2, <1>3 DEF Tidying

LEMMA FinishTidies ==
  ASSUME Typed, Tidying, Finish
  PROVE  Tidying'
<1>1. /\ todo = <<>> /\ todo' = <<>>
      /\ UNCHANGED <<crs, born, res, seen, headless, queue>>
  BY DEF Finish, Stop, envVars
<1>2. Pending' = {}
  BY <1>1, ElementsOfNone DEF Pending
<1>3. Plain /\ Numbered /\ Owned
  BY DEF Tidying
<1>4. /\ Plain' /\ Numbered' /\ Owned'
      /\ \A x \in Resources : Owners(x)' = Owners(x)
  BY <1>1, <1>2, <1>3, SamePlain
<1>5. /\ \A uid : Alive(uid)' <=> Alive(uid)
      /\ \A g : Used(g)' <=> Used(g)
  BY <1>1 DEF Alive, Used, Uses, Lives
<1>6. \A g \in Gateways : \A kind \in Dependent(g) :
        \A uid \in Owners(Of(kind, g))' :
          Alive(uid)' => uid \in Owners(Of("Deployment", g))'
  BY <1>1, <1>4, <1>5, IdleTidying, DependentAre
<1>7. \A g \in Gateways : Abandoned(Of("Deployment", g)) => Abandoned(Of("Deployment", g))'
  BY <1>4, <1>5, DependentAre DEF Abandoned
<1>8. \A g \in Gateways :
        \/ Abandoned(Of("Deployment", g))' \/ Used(g)'
        \/ g \in Routers /\ queue' # {}
        \/ \E c \in CRs : FacadeOf[c.name] = g /\ c \in queue'
  BY <1>1, <1>5, <1>7, IdleTidying
<1> QED BY <1>2, <1>4, <1>6, <1>8, TidyWhenIdle

LEMMA StartedCalls ==
  ASSUME Apart, Typed, NEW c \in CRs, Start(c)
  PROVE  \A x \in Pending' :
           /\ x.do # "create" /\ (x.do = "delete" => x.kind = "Service")
           /\ x.do = "apply" /\ x.kind \in Dependent(x.name) =>
                x.name = Target(c, crs[c]) /\ Apply("Deployment", x.name, x.name) \in Pending'
<1>1. PICK cleanup \in Cleanup : Pending' = Elements(cleanup) \cup Elements(Work(c))
  BY StartCalls
<1>2. \A x \in Elements(cleanup) : x.do \in {"deleteMeshRouter", "unlabel"}
  <2>1. \A g : Unneeded(g).do = "deleteMeshRouter" /\ Unlabel(g).do = "unlabel"
    BY DEF Unneeded, Unlabel, Call
  <2>2. \A x \in Elements(cleanup) : \E g : x = Unneeded(g) \/ x = Unlabel(g)
    BY CleanupCalls
  <2> QED BY <2>1, <2>2
<1>3. /\ \A kind, name, g : LET x == Apply(kind, name, g)
                            IN x.do = "apply" /\ x.kind = kind /\ x.name = name
      /\ \A g : PriorityCall(g).do = "priority"
                /\ DeleteFacadeGateway(g).do = "deleteFacadeGateway"
      /\ \A name, g : LET x == Call("delete", "Service", name, g)
                      IN x.do = "delete" /\ x.kind = "Service"
  BY DEF Apply, PriorityCall, DeleteFacadeGateway, Call
<1>4. "Service" \notin Dependent(c.name)
  BY DEF Apart, Names, Dependent, Monitored
<1>5. \A x \in Elements(Work(c)) :
        /\ x.do # "create" /\ (x.do = "delete" => x.kind = "Service")
        /\ x.do = "apply" /\ x.kind \in Dependent(x.name) =>
             /\ x.name = Target(c, crs[c])
             /\ Apply("Deployment", x.name, x.name) \in Elements(Work(c))
  <2>1. CASE crs[c] = None
    <3>1. \A x \in Elements(Work(c)) :
            \/ x = Call("delete", "Service", c.name, FacadeOf[c.name])
            \/ x = DeleteFacadeGateway(FacadeOf[c.name])
      BY <2>1, WorkIs
    <3> QED BY <1>3, <3>1
  <2>2. CASE crs[c] # None /\ Composite(crs[c])
    <3>1. \A x \in Elements(Work(c)) :
            \/ x = Apply("Service", c.name, crs[c].gateway)
            \/ x = PriorityCall(crs[c].gateway)
            \/ x = DeleteFacadeGateway(FacadeOf[c.name])
      BY <2>2, WorkIs
    <3> QED BY <1>3, <1>4, <3>1
  <2>3. CASE crs[c] # None /\ ~Composite(crs[c])
    <3> DEFINE f == FacadeOf[c.name]
    <3>1. f = Target(c, crs[c]) /\ "Deployment" \in Everything
      BY <2>3 DEF Target, Everything
    <3>2. Elements(Work(c))
            = {Apply("Service", c.name, f)} \cup {Apply(kind, f, f) : kind \in Everything}
      BY <2>3, WorkIs
    <3> HIDE DEF f
    <3> QED BY <1>3, <1>4, <3>1, <3>2
  <2> QED BY <2>1, <2>2, <2>3
<1> QED BY <1>1, <1>2, <1>5

\* The cleanup sees every mesh router that no CR names, and a CR that is gone or
\* has moved has its facade gateway deleted.
LEMMA StartTidies ==
  ASSUME Apart, Typed, Tidying, NEW c \in CRs, Start(c), ~lagged'
  PROVE  Tidying'
<1>1. /\ todo = <<>> /\ running' = c /\ obj' = crs[c] /\ queue' = queue \ {c}
      /\ UNCHANGED <<crs, born, res, seen, headless>>
      /\ \A g \in Gateways : seen[Of("Deployment", g)] = res[Of("Deployment", g)]
  BY ObjectInHand DEF Start, envVars, Conflict
<1>2. Plain /\ Numbered /\ Owned
  BY DEF Tidying
<1>3. \A x \in Pending' : x.do # "create" /\ (x.do = "delete" => x.kind = "Service")
  BY StartedCalls
<1>4. /\ Plain' /\ Numbered' /\ Owned'
      /\ \A x \in Resources : Owners(x)' = Owners(x)
  BY <1>1, <1>2, <1>3, SamePlain
<1>5. /\ \A uid : Alive(uid)' <=> Alive(uid)
      /\ \A g : Used(g)' <=> Used(g)
  BY <1>1 DEF Alive, Used, Uses, Lives
<1>6. Applying'
  BY <1>1, StartedCalls DEF Applying, ToApply, Target, Composite
<1>7. Backed'
  BY <1>1, <1>4, <1>5, IdleTidying, DependentAre DEF Backed
<1>8. Doomed'
  BY <1>3 DEF Doomed, Deleting
<1>9. Handled'
  <2> SUFFICES ASSUME NEW g \in Gateways, ~Abandoned(Of("Deployment", g))', ~Used(g)
               PROVE  Attended(g)'
    BY <1>5 DEF Handled
  <2> DEFINE d == Of("Deployment", g)
  <2>1. d \in Resources /\ ~Abandoned(d) /\ res[d] # None /\ d.kind = "Deployment" /\ d.name = g
    BY <1>4, <1>5, DependentAre, ResourcesAre DEF Abandoned, Owners
  <2>2. PICK calls \in Cleanup : Pending' = Elements(calls) \cup Elements(Work(c))
    BY StartCalls
  <2>3. CASE g \in Routers
    <3>1. g \in MeshRouters
      <4>1. res[d].by # None
        BY <2>1 DEF Abandoned, Owners, Typed, WellMade
      <4>2. res[d].mesh
        BY <1>2, <2>1, <2>3, <4>1 DEF Owned, OwnedObject
      <4> QED BY <1>1, <2>1, <4>2 DEF MeshRouters
    <3>2. ~Named(g)
      <4> SUFFICES ASSUME NEW e \in CRs, crs[e] # None, crs[e].gateway = g PROVE FALSE
        BY DEF Named
      <4>1. Composite(crs[e])
        BY NamesAndGateways DEF Composite
      <4> QED BY <4>1 DEF Used, Uses, Lives, Target
    <3>3. Unneeded(g) \in Pending'
      BY <2>2, <3>1, <3>2, CleanupCalls
    <3> QED BY <2>3, <3>3 DEF Attended
  <2>4. CASE g \notin Routers
    <3>1. PICK e \in CRs : FacadeOf[e.name] = g /\ e \in queue
      BY <1>1, <2>1, <2>4, IdleTidying
    <3>2. CASE e # c
      BY <1>1, <3>1, <3>2 DEF Attended
    <3>3. CASE e = c
      <4>1. crs[c] = None \/ Composite(crs[c])
        BY <3>1, <3>3 DEF Used, Uses, Lives, Target
      <4>2. DeleteFacadeGateway(g) \in Elements(Work(c))
        BY <3>1, <3>3, <4>1, WorkIs
      <4>3. DeleteFacadeGateway(g) \in Pending'
        BY <2>2, <4>2
      <4> QED BY <1>1, <3>1, <3>3, <4>3 DEF Attended
    <3> QED BY <3>2, <3>3
  <2> QED BY <2>3, <2>4
<1> QED BY <1>4, <1>6, <1>7, <1>8, <1>9 DEF Tidying

\* A CR that comes owns nothing that is there already; one that goes or moves is
\* reconciled.
LEMMA ChangeTidies ==
  ASSUME Apart, Typed, Tidying, NEW c \in CRs, WriteCR(c) \/ DeleteCR(c)
  PROVE  Tidying'
<1>1. /\ todo = <<>> /\ todo' = <<>> /\ queue' = queue \cup {c}
      /\ UNCHANGED <<res, seen, headless>>
  BY ObjectInHand DEF WriteCR, DeleteCR, Change
<1>2. Pending' = {}
  BY <1>1, ElementsOfNone DEF Pending
<1>3. Plain /\ Numbered /\ Owned
  BY DEF Tidying
<1>4. /\ \A d \in CRs : d # c => crs'[d] = crs[d] /\ born'[d] = born[d]
      /\ \/ crs'[c] = None /\ born'[c] = born[c]
         \/ /\ crs[c] = None /\ crs'[c].inc = born[c] /\ born'[c] = born[c] + 1
         \/ /\ crs[c] # None /\ crs'[c].inc = crs[c].inc /\ born'[c] = born[c]
      /\ crs' \in [CRs -> CRObjects \cup {None}] /\ born[c] \in Nat
  <2>1. /\ crs \in [CRs -> CRObjects \cup {None}] /\ born \in [CRs -> Nat]
        /\ crs' \in [CRs -> CRObjects \cup {None}]
    BY CRsTyped DEF Typed
  <2>2. CASE DeleteCR(c)
    BY <2>1, <2>2 DEF DeleteCR
  <2>3. CASE WriteCR(c)
    <3> DEFINE n == IF crs[c] = None THEN born[c] ELSE crs[c].inc
    <3>1. PICK s : /\ crs' = [crs EXCEPT ![c] = CRObject(s, n)]
                   /\ born' = [born EXCEPT ![c] = n + 1]
      BY <2>3 DEF WriteCR
    <3>2. crs'[c].inc = n
      BY <2>1, <3>1 DEF CRObject
    <3> QED BY <1>3, <2>1, <3>1, <3>2 DEF Numbered
  <2> QED BY <2>1, <2>2, <2>3
<1>5. \A o \in Resources : Owners(o)' = Owners(o)
  BY <1>1 DEF Owners
<1>6. Numbered'
  <2>1. ASSUME NEW d \in CRs, crs'[d] # None PROVE born'[d] = crs'[d].inc + 1
    BY <1>3, <1>4, <2>1 DEF Numbered
  <2>2. ASSUME NEW o \in Resources, NEW uid \in Owners(o) PROVE uid.inc < born'[uid.cr]
    <3>1. uid.cr \in CRs /\ uid.inc \in Nat /\ uid.inc < born[uid.cr]
      BY <1>3, <2>2, TypedOwners DEF Numbered
    <3> QED BY <1>4, <3>1
  <2> QED BY <1>5, <2>1, <2>2 DEF Numbered
<1>7. Plain' /\ Owned'
  BY <1>1, <1>2, <1>3 DEF Plain, Owned, OwnedObject
<1>8. ASSUME NEW o \in Resources, NEW uid \in Owners(o), Alive(uid)'
      PROVE  Alive(uid)
  <2>1. uid.cr \in CRs /\ uid.inc \in Nat /\ uid.inc < born[uid.cr]
    BY <1>3, <1>8, TypedOwners DEF Numbered
  <2> QED BY <1>4, <1>8, <2>1 DEF Alive
<1>9. \A g \in Gateways : \A kind \in Dependent(g) :
        \A uid \in Owners(Of(kind, g))' :
          Alive(uid)' => uid \in Owners(Of("Deployment", g))'
  BY <1>1, <1>5, <1>8, IdleTidying, DependentAre
<1>10. \A g \in Gateways : Abandoned(Of("Deployment", g)) => Abandoned(Of("Deployment", g))'
  BY <1>5, <1>8, DependentAre DEF Abandoned
<1>11. ASSUME NEW g \in Gateways, Used(g), ~Used(g)'
       PROVE  g \in Routers \/ FacadeOf[c.name] = g
  <2>1. Uses(c, g)
    BY <1>4, <1>11 DEF Used, Uses, Lives, Target, Composite
  <2> QED BY <2>1, UsersAre
<1>12. \A g \in Gateways :
         \/ Abandoned(Of("Deployment", g))' \/ Used(g)'
         \/ g \in Routers /\ queue' # {}
         \/ \E d \in CRs : FacadeOf[d.name] = g /\ d \in queue'
  BY <1>1, <1>10, <1>11, IdleTidying
<1> QED BY <1>2, <1>6, <1>7, <1>9, <1>12, TidyWhenIdle

\* Neither the calls nor the CRs change, and no owner that lives goes.
LEMMA SameTidies ==
  ASSUME Typed, Applying, Backed, Doomed, Handled,
         UNCHANGED <<crs, queue, running, obj>>, Pending' = Pending,
         \A o \in Resources : Owners(o)' \subseteq Owners(o),
         \A o \in Resources : \A uid \in Owners(o) : Alive(uid) => uid \in Owners(o)'
  PROVE  Applying' /\ Backed' /\ Doomed' /\ Handled'
<1>1. /\ Own' = Own /\ \A uid : Alive(uid)' <=> Alive(uid)
      /\ \A kind, g : Deleting(kind, g)' <=> Deleting(kind, g)
      /\ \A g : (ToApply(g)' <=> ToApply(g)) /\ (Used(g)' <=> Used(g))
      /\ \A g : Attended(g) => Attended(g)'
  BY DEF Own, Alive, Deleting, ToApply, Used, Uses, Lives, Attended
<1>2. \A o \in Resources : Abandoned(o)' <=> Abandoned(o)
  BY <1>1 DEF Abandoned
<1>3. \A g \in Gateways : \A kind \in Dependent(g) : Ending(kind, g)' <=> Ending(kind, g)
  BY <1>1, <1>2, DependentAre DEF Ending
<1>4. Applying'
  <2> SUFFICES ASSUME NEW x \in Pending, x.do = "apply", x.kind \in Dependent(x.name)
               PROVE  /\ x.name = Target(running, obj)
                      /\ ToApply(x.name) \/ Own \in Owners(Of("Deployment", x.name))'
    BY <1>1 DEF Applying, Target, Composite
  <2>1. /\ x.name = Target(running, obj)
        /\ ToApply(x.name) \/ Own \in Owners(Of("Deployment", x.name))
    BY DEF Applying
  <2>2. Alive(Own) /\ Of("Deployment", x.name) \in Resources
    <3>1. obj # None
      BY DEF Typed, Proper, ProperFor
    <3> QED BY <2>1, <3>1, OwnIsAlive, ObjectInHand, TargetIsGateway, DependentAre
  <2> QED BY <2>1, <2>2
<1>5. Backed'
  <2> SUFFICES ASSUME NEW g \in Gateways, NEW kind \in Dependent(g), ~Ending(kind, g),
                      NEW uid \in Owners(Of(kind, g))', Alive(uid)
               PROVE  \/ uid \in Owners(Of("Deployment", g))'
                      \/ uid.cr = running /\ ToApply(g)
    BY <1>1, <1>3 DEF Backed
  <2>1. uid \in Owners(Of(kind, g))
    BY DependentAre
  <2> QED BY <2>1, DependentAre DEF Backed
<1>6. Doomed'
  BY <1>1, <1>3 DEF Doomed
<1>7. Handled'
  BY <1>1, <1>2, DependentAre DEF Handled
<1> QED BY <1>4, <1>5, <1>6, <1>7

LEMMA SyncTidies ==
  ASSUME Typed, Tidying, NEW kinds, Sync(kinds)
  PROVE  Tidying'
<1> DEFINE late == {o \in Resources : o.kind \in kinds /\ Conflict(o)}
<1>1. /\ seen' = [o \in Resources |-> IF o \in late THEN res[o] ELSE seen[o]]
      /\ UNCHANGED <<crs, born, res, headless, queue, running, obj, todo>>
  BY DEF Sync, envVars, runVars
<1> HIDE DEF late
<1>2. Pending' = Pending
  BY <1>1 DEF Pending
<1>3. Plain'
  BY <1>1, <1>2 DEF Tidying, Plain
<1>4. Numbered' /\ Owned'
  BY <1>1 DEF Tidying, Numbered, Owners, Owned, OwnedObject
<1>5. /\ \A o \in Resources : Owners(o)' = Owners(o)
      /\ Own' = Own /\ \A uid : Alive(uid)' <=> Alive(uid)
      /\ \A kind, g : Deleting(kind, g)' <=> Deleting(kind, g)
      /\ \A g : (ToApply(g)' <=> ToApply(g)) /\ (Used(g)' <=> Used(g))
  BY <1>1, <1>2 DEF Owners, Own, Alive, Deleting, ToApply, Used, Uses, Lives
<1> QED BY <1>1, <1>2, <1>3, <1>4, <1>5, SameTidies DEF Tidying

\* What is collected has no owner that lives.
LEMMA GarbageTidies ==
  ASSUME Typed, Tidying, NEW kinds, CollectGarbage(kinds)
  PROVE  Tidying'
<1> DEFINE gone == {o \in Resources : o.kind \in kinds /\ Collectable(o)}
<1>1. /\ res' = [o \in Resources |-> IF o \in gone THEN None ELSE res[o]]
      /\ UNCHANGED <<crs, born, seen, headless, queue, running, obj, todo>>
  BY DEF CollectGarbage, envVars, runVars
<1>2. \A o \in gone : Abandoned(o)
  BY DEF Collectable, Abandoned, Owners
<1> HIDE DEF gone
<1>3. Pending' = Pending
  BY <1>1 DEF Pending
<1>4. /\ Plain' /\ Numbered' /\ Owned'
  BY <1>1, <1>3 DEF Tidying, Plain, Numbered, Owners, Owned, OwnedObject
<1>5. /\ \A o \in Resources : Owners(o)' = IF o \in gone THEN {} ELSE Owners(o)
      /\ Own' = Own /\ \A uid : Alive(uid)' <=> Alive(uid)
      /\ \A kind, g : Deleting(kind, g)' <=> Deleting(kind, g)
      /\ \A g : (ToApply(g)' <=> ToApply(g)) /\ (Used(g)' <=> Used(g))
  BY <1>1, <1>3 DEF Owners, Own, Alive, Deleting, ToApply, Used, Uses, Lives
<1>6. \A o \in Resources : \A uid \in Owners(o) : Alive(uid) => uid \in Owners(o)'
  BY <1>2, <1>5 DEF Abandoned
<1> QED BY <1>1, <1>3, <1>4, <1>5, <1>6, SameTidies DEF Tidying

LEMMA NothingToReplace ==
  ASSUME Typed, Tidying
  PROVE  ~DoReplace /\ ~DoCreate
<1>1. ASSUME DoReplace PROVE FALSE
  <2>1. /\ Object(Head(todo)) \in Resources /\ seen[Object(Head(todo))] # None
        /\ Object(Head(todo)).kind = "Service" /\ Proper(Head(todo))
    BY <1>1, ReplaceCall DEF Proper, ProperFor, Object
  <2>2. WrongType(Object(Head(todo)))
    BY <1>1 DEF DoReplace, Object
  <2> QED BY <2>1, <2>2 DEF WrongType, Tidying, Plain, Typed, WellMade, Objects
<1>2. ASSUME DoCreate PROVE FALSE
  <2>1. todo # <<>> /\ Head(todo).do = "create"
    BY <1>2 DEF DoCreate, Calling
  <2> QED BY <2>1, NextCall DEF Tidying, Plain
<1> QED BY <1>1, <1>2

LEMMA InitTidying ==
  ASSUME Init, Typed
  PROVE  Tidying
<1>1. todo = <<>> /\ seen = res /\ headless = FALSE /\ Pending = {}
  BY ElementsOfNone DEF Init, Pending
<1>2. ASSUME NEW o \in Resources, res[o] # None
      PROVE  ~res[o].headless /\ res[o].by = None /\ res[o].owners = {}
  <2>1. res[o] \in {Users(Foreign), Users(None)}
    BY <1>2 DEF Init
  <2> QED BY <2>1 DEF Users
<1>3. \A o \in Resources : Owners(o) = {}
  BY <1>2 DEF Owners
<1>4. Plain /\ Owned
  BY <1>1, <1>2 DEF Plain, Owned, OwnedObject
<1>5. Numbered
  <2>1. ASSUME NEW c \in CRs, crs[c] # None PROVE born[c] = crs[c].inc + 1
    <3>1. /\ crs[c] = IF InitialSpecs[c] = None THEN None ELSE CRObject(InitialSpecs[c], 0)
          /\ born[c] = IF InitialSpecs[c] = None THEN 0 ELSE 1
      BY DEF Init
    <3>2. CRObject(InitialSpecs[c], 0).inc = 0
      BY DEF CRObject
    <3> QED BY <2>1, <3>1, <3>2
  <2> QED BY <1>3, <2>1 DEF Numbered
<1>6. Applying /\ Doomed
  BY <1>1 DEF Applying, Doomed, Deleting
<1>7. Backed /\ Handled
  BY <1>3, DependentAre DEF Backed, Handled, Abandoned
<1> QED BY <1>4, <1>5, <1>6, <1>7 DEF Tidying

Tidy == faults \in Nat /\ (~lagged /\ faults = 0 => Tidying)

LEMMA TidyNext ==
  Apart /\ Typed /\ Sparing /\ Tidy /\ [Next]_vars => Tidy'
<1> SUFFICES ASSUME Apart, Typed, Sparing, Tidy, [Next]_vars PROVE Tidy'
  OBVIOUS
<1>1. ASSUME CallFails \/ Restart PROVE Tidy'
  <2>1. faults' = faults + 1 /\ faults \in Nat
    BY <1>1 DEF CallFails, Restart, Tidy
  <2>2. faults' \in Nat /\ faults' # 0
    BY <2>1
  <2> QED BY <2>2 DEF Tidy
<1> SUFFICES ASSUME ~CallFails /\ ~Restart PROVE Tidy'
  BY <1>1
<1>2. faults' = faults /\ (lagged => lagged')
  <2>1. ASSUME NEW c \in CRs, Start(c) \/ WriteCR(c) \/ DeleteCR(c)
        PROVE  faults' = faults /\ (lagged => lagged')
    <3>1. CASE Start(c)
      BY <3>1 DEF Start
    <3>2. CASE WriteCR(c) \/ DeleteCR(c)
      BY <3>2 DEF WriteCR, DeleteCR, Change
    <3> QED BY <2>1, <3>1, <3>2
  <2>2. CASE \/ DoApply \/ DoReplace \/ DoCreate \/ DoDelete \/ DoUnlabel
             \/ DoPriority \/ DoDeleteFacadeGateway
    <3>1. faults' = faults /\ Reads
      BY <2>2 DEF DoApply, DoReplace, DoCreate, DoDelete, DoUnlabel, DoPriority,
                  DoDeleteFacadeGateway, Calling
    <3> QED BY <3>1 DEF Reads
  <2>6. CASE DoDeleteMeshRouter
    BY <2>6 DEF DoDeleteMeshRouter, Calling
  <2>3. CASE Finish
    BY <2>3 DEF Finish
  <2>4. CASE (\E kinds \in Informers : Sync(kinds))
             \/ \E kinds \in Collections : CollectGarbage(kinds)
    BY <2>4 DEF Sync, CollectGarbage
  <2>5. CASE Rest \/ UNCHANGED vars
    BY <2>5 DEF Rest, vars
  <2> QED BY <2>1, <2>2, <2>3, <2>4, <2>5, <2>6 DEF Next
<1> SUFFICES ASSUME ~lagged', faults' = 0 PROVE Tidying'
  BY <1>2 DEF Tidy
<1>3. Tidying
  BY <1>2 DEF Tidy
<1>4. ASSUME NEW c \in CRs, Start(c) PROVE Tidying'
  BY <1>3, <1>4, StartTidies
<1>5. ASSUME NEW c \in CRs, WriteCR(c) \/ DeleteCR(c) PROVE Tidying'
  BY <1>3, <1>5, ChangeTidies
<1>6. CASE DoApply
  BY <1>3, <1>6, ApplyTidies
<1>7. ~DoReplace /\ ~DoCreate
  BY <1>3, NothingToReplace
<1>8. CASE DoDelete
  BY <1>3, <1>8, DeleteTidies
<1>9. CASE DoUnlabel
  BY <1>3, <1>9, UnlabelTidies
<1>10. CASE DoDeleteMeshRouter
  BY <1>3, <1>10, MeshRouterTidies
<1>11. CASE DoPriority
  BY <1>3, <1>11, PriorityTidies
<1>12. CASE DoDeleteFacadeGateway
  BY <1>3, <1>12, FacadeGatewayTidies
<1>13. CASE Finish
  BY <1>3, <1>13, FinishTidies
<1>14. ASSUME NEW kinds, Sync(kinds) PROVE Tidying'
  BY <1>3, <1>14, SyncTidies
<1>15. ASSUME NEW kinds, CollectGarbage(kinds) PROVE Tidying'
  BY <1>3, <1>15, GarbageTidies
<1>16. CASE Rest \/ UNCHANGED vars
  <2>1. /\ Pending' = Pending
        /\ UNCHANGED <<crs, born, res, seen, headless, queue, running, obj>>
    BY <1>16 DEF Rest, vars, envVars, runVars, Pending
  <2>2. Plain' /\ Numbered' /\ Owned' /\ \A o \in Resources : Owners(o)' = Owners(o)
    BY <1>3, <2>1, SamePlain DEF Tidying, Plain
  <2> QED BY <1>3, <2>1, <2>2, SameTidies DEF Tidying
<1> QED BY <1>4, <1>5, <1>6, <1>7, <1>8, <1>9, <1>10, <1>11, <1>12, <1>13, <1>14,
           <1>15, <1>16 DEF Next

LEMMA TidyLeavesNothing ==
  ASSUME Typed, Tidy
  PROVE  NothingLeftBehind
<1> SUFFICES ASSUME Tidying, Quiescent, NEW o \in Resources, res[o] # None, res[o].by # None
             PROVE  \E c \in CRs : crs[c] # None /\ o.name \in {c.name, Target(c, crs[c])}
  BY DEF Tidy, NothingLeftBehind
<1>1. todo = <<>> /\ queue = {}
  BY ObjectInHand DEF Quiescent
<1>2. OwnedObject(o, res[o])
  BY DEF Tidying, Owned
<1>3. PICK uid \in Owners(o) : Alive(uid)
  BY <1>2 DEF Quiescent, Collectable, OwnedObject, Owners
<1>4. uid.cr \in CRs /\ crs[uid.cr] # None
  BY <1>3, TypedOwners DEF Alive
<1>5. ASSUME NEW g \in Gateways, uid \in Owners(Of("Deployment", g)), o.name = g
      PROVE  \E c \in CRs : crs[c] # None /\ o.name \in {c.name, Target(c, crs[c])}
  <2>1. ~Abandoned(Of("Deployment", g))
    BY <1>3, <1>5 DEF Abandoned
  <2>2. Used(g)
    BY <1>1, <2>1, IdleTidying
  <2> QED BY <1>5, <2>2 DEF Used, Uses, Lives
<1>6. ASSUME NEW g \in Gateways, NEW kind \in Dependent(g), o = Of(kind, g)
      PROVE  \E c \in CRs : crs[c] # None /\ o.name \in {c.name, Target(c, crs[c])}
  <2>1. uid \in Owners(Of("Deployment", g))
    BY <1>1, <1>3, <1>6, IdleTidying
  <2> QED BY <1>5, <1>6, <2>1, ResourcesAre
<1>7. CASE o.kind = "Service"
  <2>1. o.name \in Names => uid.cr.name = o.name
    BY <1>2, <1>3, <1>7 DEF OwnedObject, Owners
  <2>2. o.name \in Routers => o.name \in Gateways /\ "Service" \in Dependent(o.name)
    BY NamesAndGateways DEF Dependent
  <2>3. o.name \in Names \cup Routers /\ o = Of("Service", o.name)
    BY <1>2, <1>7, ResourceIsOf DEF OwnedObject
  <2> QED BY <1>4, <1>6, <2>1, <2>2, <2>3
<1>8. CASE o.kind = "Deployment"
  <2>1. o = Of("Deployment", o.name) /\ o # Of("Deployment", Foreign)
    BY <1>8, ResourceIsOf DEF Typed, WellMade
  <2>2. o.name \in Gateways
    BY <2>1, ResourcesAre
  <2> QED BY <1>3, <1>5, <2>1, <2>2
<1>9. CASE o.kind \in Monitored
  <2>1. o = Of(o.kind, o.name) /\ o.name \in Gateways
    BY <1>9, ResourceIsOf, ResourcesAre DEF Monitored
  <2>2. o.kind \in Dependent(o.name)
    BY <1>9 DEF Dependent
  <2> QED BY <1>6, <2>1, <2>2
<1> QED BY <1>7, <1>8, <1>9 DEF Resources, Kinded

\* In whatever order CRs come, move and go, once the reconciles are done the
\* gateway that none uses has gone with all its objects: the last CR to leave it
\* is reconciled, its cleanup or its deleteFacadeGateway finds the Deployment,
\* and whoever owns another object of a gateway owns the Deployment too.
THEOREM NothingIsLeftBehind ==
  ASSUME Apart, Unique
  PROVE  Spec => []NothingLeftBehind
<1>1. Init => Typed /\ Sparing /\ Tidy
  <2>1. Init => faults = 0
    BY DEF Init
  <2> QED BY <2>1, InitTyped, InitSparing, InitTidying DEF Tidy
<1>2. Typed /\ Sparing /\ Tidy /\ [Next]_vars => (Typed /\ Sparing /\ Tidy)'
  BY TypedNext, SparingNext, TidyNext
<1>3. Typed /\ Tidy => NothingLeftBehind
  BY TidyLeavesNothing
<1> QED BY <1>1, <1>2, <1>3, PTL DEF Spec
=============================================================================
