-------------------------- MODULE GatewayResources --------------------------
(***************************************************************************)
(* The Kubernetes objects of a gateway: beside its Deployment a config     *)
(* map, an HPA and a pod monitor of the gateway's name, and services of    *)
(* the CRs' names and, for a mesh gateway, of the gateway's name.          *)
(* Reconciles create and delete them one call after another; any call may  *)
(* fail, each reads a cache that may trail the API server, and each client *)
(* answers a race in its own way.  Reconciles run one at a time here: how  *)
(* they interleave is FacadeReconciler's matter.                           *)
(***************************************************************************)
EXTENDS CRPriority, FiniteSets, Sequences, SequencesExt

CONSTANTS
  CRs,                \* the CRs that may exist, [kind, name]
  Routers,            \* composite gateways
  FacadeOf,           \* CR name |-> its facade gateway, "<name>-gateway"
  CoreEgressGateway,  \* the CR name "core-egress-gateway"
  Specs,              \* CR |-> what users write: [gateway, master, mesh]
  InitialSpecs,       \* CR |-> its spec when the operator starts, or None
  Foreign,            \* a Deployment of a user
  ForeignService,     \* the service that selects it
  Informers,          \* bound: sets of kinds whose caches catch up together
  Collections,        \* bound: sets of kinds collected together
  MaxChanges,         \* bound: CRs created, updated and deleted by users
  MaxFaults           \* bound: calls that fail, and restarts

ASSUME GatewayCRsAssumption == CRs \subseteq [kind: Kinds, name: DOMAIN FacadeOf]
ASSUME GatewayBoundsAssumption == MaxChanges \in Nat /\ MaxFaults \in Nat

Written == [gateway: Routers \cup {None}, master: BOOLEAN, mesh: BOOLEAN]

ASSUME GatewaySpecsAssumption ==
  \A c \in CRs : Specs[c] \subseteq Written /\ InitialSpecs[c] \in Written \cup {None}

VARIABLES
  crs,        \* CR |-> its object, or None (API server and cache)
  born,       \* CR |-> how many objects of that name have been created
  res,        \* API server: resource |-> its object, or None
  seen,       \* the informers' caches of res
  headless,   \* the operator's environment asks for headless services
  queue,      \* CRs to reconcile
  running,    \* the CR being reconciled, or None
  obj,        \* its object when the reconcile started, or None
  todo,       \* the calls the reconcile still has to make
  backingOff, \* Gateways whose last reconcile ended in SetFail
  lagged,     \* a call has found its cache behind the server
  recovered,  \* only the operator has acted since it last started
  changes, faults

envVars == <<crs, born, changes>>
runVars == <<queue, running, obj, backingOff>>
vars == <<envVars, res, seen, headless, runVars, todo, lagged, recovered,
          faults>>

-----------------------------------------------------------------------------
(* Objects                                                                 *)

Names == {c.name : c \in CRs}
Gateways == Routers \cup {FacadeOf[n] : n \in Names}
Kinded(kinds, names) == [kind: kinds, name: names]
Monitored == {"ConfigMap", "HPA", "PodMonitor"}
Resources == Kinded({"Service"}, Names \cup Routers \cup {ForeignService})
             \cup Kinded({"Deployment"}, Gateways \cup {Foreign})
             \cup Kinded(Monitored, Gateways)

ASSUME ForeignAssumption == Foreign \notin Gateways
ASSUME FiniteAssumption == IsFiniteSet(Gateways)

CRObjects ==
  [inc: Nat, gateway: Routers \cup {None}, master: BOOLEAN, mesh: BOOLEAN]

\* by is the CR an object was rendered from, None for a user's; selects is
\* the Deployment a service sends its requests to.
Objects ==
  [owners: SUBSET [cr: CRs, inc: Nat], by: CRs \cup {None},
   selects: Gateways \cup {Foreign, None}, headless: BOOLEAN, mesh: BOOLEAN,
   label: Names \cup {None}]

ASSUME GatewayNoneAssumption ==
  None \notin CRs \cup Names \cup Gateways \cup {Foreign} \cup Written
             \cup CRObjects \cup Objects

Of(kind, name) == [kind |-> kind, name |-> name]
Composite(o) == o.gateway # None
Target(c, o) == IF Composite(o) THEN o.gateway ELSE FacadeOf[c.name]

Rendered(kind, name, gateway) ==
  [owners   |-> {[cr |-> running, inc |-> obj.inc]},
   by       |-> running,
   selects  |-> IF kind = "Service" THEN gateway ELSE None,
   headless |-> kind = "Service" /\ headless,
   mesh     |-> kind = "Deployment" /\ Composite(obj),
   label    |-> IF kind = "Deployment" /\ obj.master THEN running.name ELSE None]

\* Mutant: the owners found are replaced.
NotMerged(new, found) == new

\* MergeOwnerReferences: the owners found are kept.
Merged(new, found) == [new EXCEPT !.owners = @ \cup found.owners]

Users(selects) == [owners |-> {}, by |-> None, selects |-> selects,
                   headless |-> FALSE, mesh |-> FALSE, label |-> None]

-----------------------------------------------------------------------------
(* The calls of a reconcile                                                *)

\* expect: the gateway deleteService expects a service to select, or None.
Call(do, kind, name, gateway) ==
  [do |-> do, kind |-> kind, name |-> name, gateway |-> gateway]
Apply(kind, name, gateway) == Call("apply", kind, name, gateway)
Delete(kind, name) == Call("delete", kind, name, None)

\* Mutant: the HPA is forgotten.
DeleteAllButHPA(g) ==
  <<Delete("Deployment", g), Delete("ConfigMap", g), Delete("PodMonitor", g)>>

DeleteGateway(g) ==
  <<Delete("Deployment", g), Delete("ConfigMap", g), Delete("PodMonitor", g),
    Delete("HPA", g)>>

DeleteMeshRouter(g) == <<Delete("Service", g)>> \o DeleteGateway(g)

\* What applyMeshRouter and applyFacadeGateway end with.
ApplyMonitored(g) ==
  <<Apply("ConfigMap", g, g), Apply("HPA", g, g), Apply("PodMonitor", g, g)>>

ApplyFacadeGateway(c) ==
  LET g == FacadeOf[c.name]
  IN <<Apply("Service", c.name, g), Apply("Deployment", g, g)>>
     \o ApplyMonitored(g)

\* What the priority check of a composite gateway guards.
Configure(g, o) ==
  <<Apply("Deployment", g, g)>>
  \o (IF o.mesh THEN <<Apply("Service", g, g)>> ELSE <<>>) \o ApplyMonitored(g)

\* A call made of others, which it turns into when its turn comes.
DeleteFacadeGateway(g) == Call("deleteFacadeGateway", "Deployment", g, None)

\* The service comes before the priority check.
ApplyMeshRouter(c, o) ==
  (IF c.name = CoreEgressGateway THEN <<>>
   ELSE <<Apply("Service", c.name, o.gateway)>>)
  \o <<Call("priority", "Deployment", o.gateway, None),
       DeleteFacadeGateway(FacadeOf[c.name])>>

DeleteFacadeService(c) ==
  LET g == FacadeOf[c.name]
  IN <<Call("delete", "Service", c.name, g), DeleteFacadeGateway(g)>>

Unneeded(g) == Call("deleteMeshRouter", "Deployment", g, None)
Unlabel(g) == Call("unlabel", "Deployment", g, None)

MeshRouters ==
  {g \in Gateways : LET found == seen[Of("Deployment", g)]
                    IN found # None /\ found.mesh}

Named(g) == \E c \in CRs : crs[c] # None /\ crs[c].gateway = g

Mastered(g) ==
  \E c \in CRs : /\ crs[c] # None /\ crs[c].master
                 /\ c.name = seen[Of("Deployment", g)].label

\* cleanupDeployments, in the order the list gave, without the write of
\* cleanupLastApplied: it marks an annotation as deleted, which nobody reads.
Cleanup ==
  {[i \in DOMAIN s |-> Unneeded(s[i])] \o [i \in DOMAIN t |-> Unlabel(t[i])] :
     s \in SetToSeqs({g \in MeshRouters : ~Named(g)}),
     t \in SetToSeqs({g \in MeshRouters : Named(g) /\ ~Mastered(g)})}

-----------------------------------------------------------------------------
(* Answers                                                                 *)

\* Mutant: what was still to do is kept.
StopOnly == running' = None /\ obj' = None /\ UNCHANGED todo

Stop == running' = None /\ obj' = None /\ todo' = <<>>

\* A call is replaced by the calls it is made of.
Instead(calls) == todo' = calls \o Tail(todo) /\ UNCHANGED runVars

Continue == Instead(<<>>)

\* An ExpectedError: the key is retried and the CR's status left alone.
Muted ==
  Stop /\ queue' = queue \cup {running} /\ UNCHANGED backingOff

\* Mutant: the error is not returned to the controller.
FailedForGood ==
  /\ Stop
  /\ backingOff' = IF obj = None \/ running.kind # "Gateway" THEN backingOff
                   ELSE backingOff \cup {running}
  /\ UNCHANGED queue

\* Any other error also marks the Gateway as failed.
Failed ==
  /\ Stop
  /\ queue' = queue \cup {running}
  /\ backingOff' = IF obj = None \/ running.kind # "Gateway" THEN backingOff
                   ELSE backingOff \cup {running}

\* The kinds whose clients mute a conflict and AlreadyExists.
Mutes(kind) == kind \in {"Service", "Deployment", "ConfigMap"}

Conflict(o) == seen[o] # res[o]

\* Mutant: AlreadyExists ends the reconcile as done.
AlreadyExistsDone(o) == Stop /\ UNCHANGED <<queue, backingOff, res>>

\* A create that found an object the cache did not show: the HPA and
\* pod-monitor clients take it as done.
AlreadyExists(o) ==
  /\ IF Mutes(o.kind) THEN Muted ELSE Continue
  /\ UNCHANGED res

Create(o, new) ==
  IF res[o] # None THEN AlreadyExists(o)
  ELSE res' = [res EXCEPT ![o] = new] /\ Continue

Update(o, new) ==
  IF Conflict(o)
  THEN /\ IF Mutes(o.kind) /\ res[o] # None THEN Muted ELSE Failed
       /\ UNCHANGED res
  ELSE res' = [res EXCEPT ![o] = new] /\ Continue

\* isWrongType
WrongType(o) == o.kind = "Service" /\ seen[o].headless # headless

\* Mutant: any service is deleted.
SelectsAnything(o, gateway) == TRUE

\* The service's selector is the expected gateway, or it selects a gateway of
\* the operator or a Deployment that is not seen.
SelectsManaged(o, gateway) ==
  LET app == seen[o].selects
  IN \/ gateway # None /\ app = gateway
     \/ seen[Of("Deployment", app)] = None
     \/ seen[Of("Deployment", app)].by # None

MayConfigure(c, o, g) ==
  LET found == seen[Of("Deployment", g)]
      applied == IF crs[found.by] = None THEN None ELSE found.by
      exists == \E d \in CRs : d.name = found.label /\ crs[d] # None
  IN found # None =>
       UpdateAvailable(c, o.master, found.label, applied, exists)

-----------------------------------------------------------------------------
(* Steps of the operator                                                   *)

\* A reconcile starts with the cleanup; deleteFacadeService follows when the
\* CR is gone, applyFacadeService otherwise.
Start(c) ==
  /\ running = None /\ c \in queue
  /\ queue' = queue \ {c}
  /\ running' = c
  /\ obj' = crs[c]
  /\ lagged' = (lagged \/ \E g \in Gateways : Conflict(Of("Deployment", g)))
  /\ \E cleanup \in Cleanup :
       todo' = cleanup \o (IF crs[c] = None THEN DeleteFacadeService(c)
                           ELSE IF Composite(crs[c]) THEN ApplyMeshRouter(c, crs[c])
                           ELSE ApplyFacadeGateway(c))
  /\ backingOff' = backingOff \ {c}
  /\ UNCHANGED <<envVars, res, seen, headless, recovered, faults>>

\* The call that is next, and what every call leaves alone.
Calling(do) ==
  /\ running # None /\ todo # <<>> /\ Head(todo).do = do
  /\ UNCHANGED <<envVars, seen, headless, recovered, faults>>

\* It reads its object from the cache, or sends what it read before.
Reads == lagged' = (lagged \/ Conflict(Of(Head(todo).kind, Head(todo).name)))

\* Apply of every client.
DoApply ==
  /\ Calling("apply") /\ Reads
  /\ LET call == Head(todo)
         o == Of(call.kind, call.name)
         new == Rendered(call.kind, call.name, call.gateway)
     IN /\ ~(seen[o] # None /\ WrongType(o))
        /\ IF seen[o] = None THEN Create(o, new)
           ELSE Update(o, Merged(new, seen[o]))

\* Only a service's delete asks whose it is and has a precondition.
DeleteObject(o, gateway, calls) ==
  IF \/ seen[o] = None
     \/ o.kind = "Service" /\ ~SelectsManaged(o, gateway)
  THEN Instead(calls) /\ UNCHANGED res
  ELSE IF o.kind = "Service" /\ Conflict(o) /\ res[o] # None
  THEN Failed /\ UNCHANGED res
  ELSE res' = [res EXCEPT ![o] = None] /\ Instead(calls)

\* Apply of a service of the wrong type: it is deleted and created.
DoReplace ==
  /\ Calling("apply") /\ Reads
  /\ LET call == Head(todo)
         o == Of(call.kind, call.name)
     IN /\ seen[o] # None /\ WrongType(o)
        /\ DeleteObject(o, None, <<[call EXCEPT !.do = "create"]>>)

DoCreate ==
  /\ Calling("create") /\ Reads
  /\ LET call == Head(todo)
     IN Create(Of(call.kind, call.name),
               Rendered(call.kind, call.name, call.gateway))

DoDelete ==
  /\ Calling("delete") /\ Reads
  /\ LET call == Head(todo)
     IN DeleteObject(Of(call.kind, call.name), call.gateway, <<>>)

\* DeleteMasterCRLabel
DoUnlabel ==
  /\ Calling("unlabel") /\ Reads
  /\ LET o == Of("Deployment", Head(todo).name)
     IN IF seen[o] = None \/ seen[o].label = None THEN Continue /\ UNCHANGED res
        ELSE Update(o, [seen[o] EXCEPT !.label = None])

DoDeleteMeshRouter ==
  /\ Calling("deleteMeshRouter")
  /\ Instead(DeleteMeshRouter(Head(todo).name))
  /\ UNCHANGED <<res, lagged>>

\* UpdateAvailable: a CR that is refused goes on with deleteFacadeGateway.
DoPriority ==
  /\ Calling("priority") /\ Reads
  /\ LET g == Head(todo).name
     IN Instead(IF MayConfigure(running, obj, g) THEN Configure(g, obj) ELSE <<>>)
  /\ UNCHANGED res

\* IsFacadeGateway: without the Deployment nothing else is deleted either.
DoDeleteFacadeGateway ==
  /\ Calling("deleteFacadeGateway") /\ Reads
  /\ LET g == Head(todo).name
         found == seen[Of("Deployment", g)]
     IN Instead(IF found = None \/ found.mesh \/ found.by = None THEN <<>>
                ELSE DeleteGateway(g))
  /\ UNCHANGED res

Finish ==
  /\ running # None /\ todo = <<>>
  /\ Stop
  /\ UNCHANGED <<envVars, res, seen, headless, queue, backingOff, lagged,
                 recovered, faults>>

\* A call fails, at the API server or at the control plane, or panics.
CallFails ==
  /\ running # None
  /\ faults < MaxFaults
  /\ faults' = faults + 1
  /\ Failed
  /\ UNCHANGED <<envVars, res, seen, headless, lagged, recovered>>

-----------------------------------------------------------------------------
(* Users, informers, the garbage collector, the operator's pod             *)

CRObject(s, n) ==
  [inc |-> n, gateway |-> s.gateway, master |-> s.master, mesh |-> s.mesh]

Change(c) ==
  /\ running = None
  /\ changes < MaxChanges
  /\ changes' = changes + 1
  /\ queue' = queue \cup {c}
  /\ recovered' = FALSE
  /\ UNCHANGED <<res, seen, headless, running, obj, todo, backingOff, lagged,
                 faults>>

WriteCR(c) ==
  /\ \E s \in Specs[c] :
       LET n == IF crs[c] = None THEN born[c] ELSE crs[c].inc
       IN /\ crs[c] # CRObject(s, n)
          /\ crs' = [crs EXCEPT ![c] = CRObject(s, n)]
          /\ born' = [born EXCEPT ![c] = n + 1]
  /\ Change(c)

DeleteCR(c) ==
  /\ crs[c] # None
  /\ crs' = [crs EXCEPT ![c] = None]
  /\ UNCHANGED born
  /\ Change(c)

\* Informers catch up.
Sync(kinds) ==
  LET late == {o \in Resources : o.kind \in kinds /\ Conflict(o)}
  IN /\ running = None
     /\ late # {}
     /\ seen' = [o \in Resources |-> IF o \in late THEN res[o] ELSE seen[o]]
     /\ UNCHANGED <<envVars, res, headless, runVars, todo, lagged, recovered,
                    faults>>

Alive(uid) == crs[uid.cr] # None /\ crs[uid.cr].inc = uid.inc

Collectable(o) ==
  /\ res[o] # None /\ res[o].owners # {}
  /\ \A uid \in res[o].owners : ~Alive(uid)

CollectGarbage(kinds) ==
  LET gone == {o \in Resources : o.kind \in kinds /\ Collectable(o)}
  IN /\ gone # {}
     /\ res' = [o \in Resources |-> IF o \in gone THEN None ELSE res[o]]
     /\ UNCHANGED <<envVars, seen, headless, runVars, todo, lagged, recovered,
                    faults>>

\* The pod is replaced, perhaps with another type of service configured.
Restart ==
  /\ faults < MaxFaults
  /\ faults' = faults + 1
  /\ headless' \in BOOLEAN
  /\ seen' = res
  /\ queue' = {c \in CRs : crs[c] # None}
  /\ Stop
  /\ recovered' = \A o \in Resources : ~Collectable(o)
  /\ UNCHANGED <<envVars, res, backingOff, lagged>>

Init ==
  /\ crs = [c \in CRs |-> IF InitialSpecs[c] = None THEN None
                          ELSE CRObject(InitialSpecs[c], 0)]
  /\ born = [c \in CRs |-> IF InitialSpecs[c] = None THEN 0 ELSE 1]
  /\ res = [o \in Resources |->
              IF o = Of("Service", ForeignService) THEN Users(Foreign)
              ELSE IF o = Of("Deployment", Foreign) THEN Users(None) ELSE None]
  /\ seen = res
  /\ headless = FALSE
  /\ queue = {c \in CRs : crs[c] # None}
  /\ running = None /\ obj = None /\ todo = <<>>
  /\ backingOff = {} /\ lagged = FALSE /\ recovered = TRUE
  /\ changes = 0 /\ faults = 0

Quiescent ==
  /\ queue = {} /\ running = None
  /\ seen = res
  /\ \A o \in Resources : ~Collectable(o)

\* An operator at rest is no deadlock.
Rest == Quiescent /\ UNCHANGED vars

Next ==
  \/ \E c \in CRs : Start(c) \/ WriteCR(c) \/ DeleteCR(c)
  \/ DoApply \/ DoReplace \/ DoCreate \/ DoDelete \/ DoUnlabel
  \/ DoDeleteMeshRouter \/ DoPriority \/ DoDeleteFacadeGateway
  \/ Finish \/ CallFails
  \/ \E kinds \in Informers : Sync(kinds)
  \/ \E kinds \in Collections : CollectGarbage(kinds)
  \/ Restart
  \/ Rest

Spec == Init /\ [][Next]_vars

-----------------------------------------------------------------------------
(* Properties                                                              *)

Calls ==
  [do: {"apply", "create", "delete", "unlabel", "priority", "deleteMeshRouter",
        "deleteFacadeGateway"},
   kind: Monitored \cup {"Service", "Deployment"},
   name: Names \cup Gateways, gateway: Gateways \cup {None}]

\* The objects are well formed, and a reconcile has a CR in hand for every
\* call that renders one.
TypeOK ==
  /\ DOMAIN res = Resources /\ DOMAIN seen = Resources
  /\ \A o \in Resources : res[o] \in Objects \cup {None}
                          /\ seen[o] \in Objects \cup {None}
  /\ todo \in Seq(Calls)
  /\ queue \subseteq CRs /\ backingOff \subseteq CRs
  /\ running \in CRs \cup {None}
  /\ \A i \in DOMAIN todo : todo[i].do \in {"apply", "create", "priority"}
                              => running # None /\ obj # None

\* The service of a CR selects its gateway and has the type configured.
Reachable(c) ==
  LET s == res[Of("Service", c.name)]
  IN c.name # CoreEgressGateway =>
       s # None /\ s.selects = Target(c, crs[c]) /\ s.headless = headless

Complete(g) ==
  \A kind \in Monitored \cup {"Deployment"} : res[Of(kind, g)] # None

\* The CR that gave a Deployment its template has moved to another gateway:
\* while it exists, CRPriority may refuse the CRs that still name this one.
Left(g) ==
  LET by == res[Of("Deployment", g)].by
  IN res[Of("Deployment", g)] # None /\ crs[by] # None /\ Target(by, crs[by]) # g

\* The names of an installation: no name is both a router's and a CR's or its
\* facade gateway's, and CRs of both kinds have names of their own.
Apart == (Names \cup {FacadeOf[n] : n \in Names}) \cap Routers = {}
Unique ==
  \A c, d \in CRs :
    c.name = d.name \/ FacadeOf[c.name] = FacadeOf[d.name] => c = d

\* Once the operator has restarted and nobody has changed a CR since, at rest
\* every CR has its service, of the type configured and selecting its gateway,
\* and the gateway, unless it was left, its Deployment, config map, HPA and pod
\* monitor, whatever failed or raced (README.md, "It should recreate the
\* missing entities").
RestartCompletes ==
  Quiescent /\ recovered =>
    \A c \in CRs : crs[c] # None =>
      /\ Reachable(c)
      /\ Left(Target(c, crs[c])) \/ Complete(Target(c, crs[c]))

\* README.md:123 as it stands, "It should recreate the missing entities":
\* after a restart every gateway named by a CR has its objects.
RestartRepairs ==
  Quiescent /\ recovered =>
    \A c \in CRs : crs[c] # None => Complete(Target(c, crs[c]))

\* When no call failed or read an old cache, nothing of a gateway that no CR
\* uses is left, in whatever order CRs came, moved and went.
NothingLeftBehind ==
  Quiescent /\ ~lagged /\ faults = 0 =>
    \A o \in Resources : res[o] # None /\ res[o].by # None =>
      \E c \in CRs : crs[c] # None /\ o.name \in {c.name, Target(c, crs[c])}

\* Every reconcile that ends in SetFail is followed by another of the same
\* Gateway: at rest none is left marked as failed.
FailuresRetried == Quiescent => \A c \in backingOff : crs[c] = None

\* The operator never deletes a service it did not write: a user's service of
\* a gateway's name stays when the gateway goes.
ForeignServiceKept ==
  [][LET o == Of("Service", ForeignService)
     IN res[o] # None /\ res[o].by = None => res'[o] # None]_vars

\* An object of a gateway in use loses an owner only when it is created anew:
\* an update works on the version whose owners it merges.
OwnersMerged ==
  [][\A o \in Resources : res[o] # None /\ res'[o] # None
       => res[o].owners \subseteq res'[o].owners]_vars
=============================================================================
