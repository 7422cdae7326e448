-------------------------- MODULE FacadeReconciler --------------------------
(***************************************************************************)
(* The reconciliation of FacadeService and Gateway custom resources        *)
(* (controllers/facade_common_controller.go) against the Deployments they  *)
(* ask for, with the two controllers' workers, the named locks they share, *)
(* the informer caches they read, the Kubernetes API they write, and the   *)
(* garbage collector.                                                      *)
(*                                                                         *)
(* A CR without spec.gateway gets a facade gateway of its own, the         *)
(* Deployment FacadeOf[name] ("<name>-gateway").  A CR with spec.gateway   *)
(* shares the mesh router of that name with every other such CR; it is     *)
(* configured by one of them (CRPriority) and deleted when none is left.   *)
(*                                                                         *)
(* Every read goes to a cache that trails the API server; every write goes *)
(* to the server.  A cached object that differs from the server's has an   *)
(* old resourceVersion, so an update built from it is a conflict.          *)
(***************************************************************************)
EXTENDS CRPriority

CONSTANTS
  CRs,                \* the CRs that may exist, [kind, name]
  Names,              \* CR names
  Deployments,        \* Deployment names
  FacadeOf,           \* CR name |-> its facade gateway, "<name>-gateway"
  EgressGateway,      \* the CR name "egress-gateway"
  CoreEgressGateway,  \* the CR name "core-egress-gateway"
  Specs,              \* what users write: [gateway, master]
  InitialSpecs,       \* CR |-> its spec when the operator starts, or None
  Workers,            \* reconcile goroutines of both controllers
  WorkerKind,         \* worker |-> the kind its controller is For()
  MaxChanges,         \* bound: CRs created, updated and deleted by users
  MaxErrors,          \* bound: API errors, panics and not-ready answers
  MaxRestarts         \* bound: restarts of the operator

ASSUME CRsAssumption == CRs \subseteq [kind: Kinds, name: Names]
ASSUME NamesAssumption == None \notin Names \cup Deployments
ASSUME NamesDisjoint == Names \cap Deployments = {}
ASSUME FacadeOfAssumption == FacadeOf \in [Names -> Deployments]
ASSUME SpecsAssumption ==
  Specs \subseteq [gateway: Deployments \cup {None}, master: BOOLEAN]
ASSUME InitialSpecsAssumption == InitialSpecs \in [CRs -> Specs \cup {None}]
ASSUME NoneAssumption == None \notin Specs \cup CRs \cup Workers
ASSUME WorkerKindAssumption == WorkerKind \in [Workers -> Kinds]
ASSUME BoundsAssumption ==
  MaxChanges \in Nat /\ MaxErrors \in Nat /\ MaxRestarts \in Nat

VARIABLES
  crs,          \* API server: CR |-> its object, or None
  crCache,      \* the two CR informers' caches
  born,         \* CR |-> how many objects of that name have been created
  dep,          \* API server: Deployment name |-> its object, or None
  depCache,     \* the Deployment informer's cache
  lockedNames,  \* NamedResourceLock.lockedNames
  queue,        \* the controllers' work queues
  pc,           \* worker |-> where it is in Reconcile
  req,          \* worker |-> the CR it reconciles, or None
  obj,          \* worker |-> the object getCR gave it, or None
  marks,        \* worker |-> [router, last]: cleanupLastApplied still to do
  dels,         \* worker |-> routers still to delete
  unlabels,     \* worker |-> routers whose master label is still to delete
  recovered,    \* nothing but the operator acted since it last started
  changes, errors, restarts

envVars == <<crs, born>>
cacheVars == <<crCache, depCache>>
planVars == <<marks, dels, unlabels>>
workerVars == <<pc, req, obj, planVars>>
budgetVars == <<changes, errors, restarts>>
vars == <<envVars, cacheVars, dep, lockedNames, queue, workerVars,
          recovered, budgetVars>>

-----------------------------------------------------------------------------
(* Objects                                                                 *)

\* A CR's UID: a CR deleted and created again is another owner.
Uids == [cr: CRs, inc: Nat]
\* gen is metadata.generation: a spec changed and changed back is newer.
CRObjects ==
  [inc: Nat, gen: Nat, gateway: Deployments \cup {None}, master: BOOLEAN]

\* template is the CR the pod template was rendered from.
DeploymentObjects ==
  [owners: SUBSET Uids, label: Names \cup {None}, template: CRs,
   last: [cr: CRs, deleted: BOOLEAN], mesh: BOOLEAN]

ASSUME ObjectsAssumption == None \notin CRObjects \cup DeploymentObjects

PCs == {"idle", "wantName", "start", "cleanup", "wantGateway", "priority",
        "write", "dropFacade", "finish"}

CRObject(s, n, k) ==
  [inc |-> n, gen |-> k, gateway |-> s.gateway, master |-> s.master]
Composite(o) == o # None /\ o.gateway # None
Target(c, o) == IF Composite(o) THEN o.gateway ELSE FacadeOf[c.name]

\* IsCRExistByName
CRExists(name) == \E c \in CRs : c.name = name /\ crCache[c] # None

-----------------------------------------------------------------------------
(* Locks                                                                   *)

HoldsName(w) == pc[w] \notin {"idle", "wantName"}
HoldsGateway(w) ==
  pc[w] \in {"priority", "write", "dropFacade"} /\ Composite(obj[w])

\* The names worker w has stored in lockedNames and will delete from it.
Held(w) == {n \in Names : HoldsName(w) /\ n = req[w].name}
           \cup {g \in Deployments : HoldsGateway(w) /\ g = obj[w].gateway}

-----------------------------------------------------------------------------
(* Ends of a reconcile: every return runs the deferred Unlocks.            *)

\* Mutant: the deferred Unlock of the gateway is forgotten.
ReleaseNameOnly(w) ==
  /\ lockedNames' = lockedNames \ (Held(w) \cap Names)
  /\ pc' = [pc EXCEPT ![w] = "idle"]
  /\ req' = [req EXCEPT ![w] = None]
  /\ obj' = [obj EXCEPT ![w] = None]
  /\ marks' = [marks EXCEPT ![w] = {}]
  /\ dels' = [dels EXCEPT ![w] = {}]
  /\ unlabels' = [unlabels EXCEPT ![w] = {}]

Release(w) ==
  /\ lockedNames' = lockedNames \ Held(w)
  /\ pc' = [pc EXCEPT ![w] = "idle"]
  /\ req' = [req EXCEPT ![w] = None]
  /\ obj' = [obj EXCEPT ![w] = None]
  /\ marks' = [marks EXCEPT ![w] = {}]
  /\ dels' = [dels EXCEPT ![w] = {}]
  /\ unlabels' = [unlabels EXCEPT ![w] = {}]

Done(w) == Release(w) /\ UNCHANGED queue
Requeue(w) == Release(w) /\ queue' = queue \cup {req[w]}

Goto(w, label) == pc' = [pc EXCEPT ![w] = label]

-----------------------------------------------------------------------------
(* The steps of a reconcile                                                *)

\* A worker takes a key (never one that a worker already has) and getCR
\* reads the CR, before Reconcile waits for the lock.
Dequeue(w) ==
  /\ pc[w] = "idle"
  /\ \E c \in queue :
       /\ c.kind = WorkerKind[w]
       /\ \A v \in Workers : req[v] # c
       /\ queue' = queue \ {c}
       /\ req' = [req EXCEPT ![w] = c]
       /\ obj' = [obj EXCEPT ![w] = crCache[c]]
  /\ Goto(w, "wantName")
  /\ UNCHANGED <<envVars, cacheVars, dep, lockedNames, planVars,
                 recovered, budgetVars>>

\* Mutant: NamedResourceLock.Lock stores the name without asking for it.
LockNameHeld(w) ==
  /\ pc[w] = "wantName"
  /\ lockedNames' = lockedNames \cup {req[w].name}
  /\ Goto(w, "start")
  /\ UNCHANGED <<envVars, cacheVars, dep, queue, req, obj, planVars,
                 recovered, budgetVars>>

LockName(w) ==
  /\ pc[w] = "wantName"
  /\ req[w].name \notin lockedNames
  /\ lockedNames' = lockedNames \cup {req[w].name}
  /\ Goto(w, "start")
  /\ UNCHANGED <<envVars, cacheVars, dep, queue, req, obj, planVars,
                 recovered, budgetVars>>

\* Mutant: only a core-egress-gateway of the same kind counts.
YieldsToSameKind(w) ==
  /\ req[w].name = EgressGateway
  /\ \E c \in CRs : /\ c.name = CoreEgressGateway /\ crCache[c] # None
                     /\ c.kind = req[w].kind

YieldsToCoreEgress(w) ==
  req[w].name = EgressGateway /\ CRExists(CoreEgressGateway)

\* SetUpdated on a Gateway that is gone is an error.
EgressNoOp(w) ==
  /\ pc[w] = "start"
  /\ YieldsToCoreEgress(w)
  /\ IF obj[w] # None /\ req[w].kind = "Gateway" /\ crs[req[w]] = None
     THEN Requeue(w) ELSE Done(w)
  /\ UNCHANGED <<envVars, cacheVars, dep, recovered, budgetVars>>

MeshRouters == {g \in Deployments : depCache[g] # None /\ depCache[g].mesh}

\* Mutant: GetAll lists the FacadeServices alone.
ReferencedByFacade(g) ==
  \E c \in CRs : /\ c.kind = "FacadeService"
                 /\ crCache[c] # None /\ crCache[c].gateway = g

Referenced(g) == \E c \in CRs : crCache[c] # None /\ crCache[c].gateway = g

MasterExists(g) ==
  \E c \in CRs : /\ crCache[c] # None
                 /\ crCache[c].master
                 /\ c.name = depCache[g].label

\* GetMeshRouterDeployments, GetAll and the classification of each router;
\* what follows works on this snapshot.
PlanCleanup(w) ==
  /\ pc[w] = "start"
  /\ ~YieldsToCoreEgress(w)
  /\ LET used == {g \in MeshRouters : Referenced(g)}
     IN /\ marks' = [marks EXCEPT ![w] =
                       {[router |-> g, last |-> depCache[g].last] : g \in used}]
        /\ dels' = [dels EXCEPT ![w] = MeshRouters \ used]
        /\ unlabels' = [unlabels EXCEPT ![w] = {g \in used : ~MasterExists(g)}]
  /\ Goto(w, "cleanup")
  /\ UNCHANGED <<envVars, cacheVars, dep, lockedNames, queue, req, obj,
                 recovered, budgetVars>>

\* A Get from the cache and an Update with the resourceVersion it returned.
\* Mutant: the Update is sent without a resourceVersion.
NoConflict(g) == depCache[g] # None /\ dep[g] = None

Conflict(g) == depCache[g] # dep[g]

\* cleanupLastApplied writes the annotation of the snapshot back; a conflict
\* ends the reconcile, which is retried.
MarkLastApplied(w) ==
  /\ pc[w] = "cleanup"
  /\ \E m \in marks[w] :
       LET g == m.router
           gone == crCache[m.last.cr] = None /\ depCache[g] # None
       IN IF gone /\ Conflict(g)
          THEN Requeue(w) /\ UNCHANGED dep
          ELSE /\ dep' = IF gone
                         THEN [dep EXCEPT ![g] = [@ EXCEPT !.last =
                                 [cr |-> m.last.cr, deleted |-> TRUE]]]
                         ELSE dep
               /\ marks' = [marks EXCEPT ![w] = @ \ {m}]
               /\ UNCHANGED <<lockedNames, queue, pc, req, obj, dels, unlabels>>
  /\ UNCHANGED <<envVars, cacheVars, recovered, budgetVars>>

\* The delete has no precondition: it removes whatever has the name.
DeleteMeshRouter(w) ==
  /\ pc[w] = "cleanup"
  /\ marks[w] = {}
  /\ \E g \in dels[w] :
       /\ dep' = IF depCache[g] # None THEN [dep EXCEPT ![g] = None] ELSE dep
       /\ dels' = [dels EXCEPT ![w] = @ \ {g}]
  /\ UNCHANGED <<envVars, cacheVars, lockedNames, queue, pc, req, obj, marks,
                 unlabels, recovered, budgetVars>>

DeleteMasterCRLabel(w) ==
  /\ pc[w] = "cleanup"
  /\ marks[w] = {} /\ dels[w] = {}
  /\ \E g \in unlabels[w] :
       LET labelled == depCache[g] # None /\ depCache[g].label # None
       IN IF labelled /\ Conflict(g)
          THEN Requeue(w) /\ UNCHANGED dep
          ELSE /\ dep' = IF labelled
                         THEN [dep EXCEPT ![g] = [@ EXCEPT !.label = None]]
                         ELSE dep
               /\ unlabels' = [unlabels EXCEPT ![w] = @ \ {g}]
               /\ UNCHANGED <<lockedNames, queue, pc, req, obj, marks, dels>>
  /\ UNCHANGED <<envVars, cacheVars, recovered, budgetVars>>

CleanedUp(w) ==
  pc[w] = "cleanup" /\ marks[w] = {} /\ dels[w] = {} /\ unlabels[w] = {}

\* The CR goes to deleteFacadeService.
BeginDelete(w) ==
  /\ CleanedUp(w)
  /\ obj[w] = None
  /\ Goto(w, "dropFacade")
  /\ UNCHANGED <<envVars, cacheVars, dep, lockedNames, queue, req, obj,
                 planVars, recovered, budgetVars>>

\* The CR goes to applyFacadeService.  A Gateway whose status is not already
\* Updating is patched first: the answer replaces the object in hand, and a
\* Gateway that is gone is an error.
\* Mutant: the patch's NotFound is ignored.
BeginApplyUnchecked(w) ==
  /\ CleanedUp(w)
  /\ obj[w] # None
  /\ \E o \in {obj[w]} \cup (IF req[w].kind = "Gateway" THEN {crs[req[w]]}
                             ELSE {}) :
       /\ obj' = [obj EXCEPT ![w] = o]
       /\ Goto(w, IF Composite(o) THEN "wantGateway" ELSE "write")
  /\ UNCHANGED <<envVars, cacheVars, dep, lockedNames, queue, req, planVars,
                 recovered, budgetVars>>

BeginApply(w) ==
  /\ CleanedUp(w)
  /\ obj[w] # None
  /\ LET apply(o) ==
           /\ obj' = [obj EXCEPT ![w] = o]
           /\ Goto(w, IF Composite(o) THEN "wantGateway" ELSE "write")
           /\ UNCHANGED <<lockedNames, queue, req, planVars>>
     IN \/ apply(obj[w])
        \/ req[w].kind = "Gateway" /\ crs[req[w]] # None /\ apply(crs[req[w]])
        \/ req[w].kind = "Gateway" /\ crs[req[w]] = None /\ Requeue(w)
  /\ UNCHANGED <<envVars, cacheVars, dep, recovered, budgetVars>>

LockGateway(w) ==
  /\ pc[w] = "wantGateway"
  /\ obj[w].gateway \notin lockedNames
  /\ lockedNames' = lockedNames \cup {obj[w].gateway}
  /\ Goto(w, "priority")
  /\ UNCHANGED <<envVars, cacheVars, dep, queue, req, obj, planVars,
                 recovered, budgetVars>>

\* GetByLastAppliedCr: found by kind and name, whatever its UID.
Applied(g) ==
  IF crCache[depCache[g].last.cr] = None THEN None ELSE depCache[g].last.cr

MayConfigure(w, g) ==
  depCache[g] # None =>
    UpdateAvailable(req[w], obj[w].master, depCache[g].label, Applied(g),
                    CRExists(depCache[g].label))

\* Mutant: the gateway's lock covers the priority check and not the write.
CheckPriorityOnlyLocked(w) ==
  /\ pc[w] = "priority"
  /\ Goto(w, IF MayConfigure(w, obj[w].gateway) THEN "write" ELSE "dropFacade")
  /\ lockedNames' = lockedNames \ {obj[w].gateway}
  /\ UNCHANGED <<envVars, cacheVars, dep, queue, req, obj,
                 planVars, recovered, budgetVars>>

CheckPriority(w) ==
  /\ pc[w] = "priority"
  /\ Goto(w, IF MayConfigure(w, obj[w].gateway) THEN "write" ELSE "dropFacade")
  /\ UNCHANGED <<envVars, cacheVars, dep, lockedNames, queue, req, obj,
                 planVars, recovered, budgetVars>>

\* Mutant: the labels found are kept.
RenderedOnFound(w, g) ==
  [owners   |-> {[cr |-> req[w], inc |-> obj[w].inc]}
                \cup (IF depCache[g] = None THEN {} ELSE depCache[g].owners),
   label    |-> IF obj[w].master THEN req[w].name
                ELSE IF depCache[g] = None THEN None ELSE depCache[g].label,
   template |-> req[w],
   last     |-> [cr |-> req[w], deleted |-> FALSE],
   mesh     |-> Composite(obj[w])]

\* MergeOwnerReferences: the writer and every owner that was read.
Rendered(w, g) ==
  [owners   |-> {[cr |-> req[w], inc |-> obj[w].inc]}
                \cup (IF depCache[g] = None THEN {} ELSE depCache[g].owners),
   label    |-> IF obj[w].master THEN req[w].name ELSE None,
   template |-> req[w],
   last     |-> [cr |-> req[w], deleted |-> FALSE],
   mesh     |-> Composite(obj[w])]

\* applyDeployment: create what the cache does not hold, update what it does;
\* AlreadyExists, Conflict and NotFound end the reconcile, which is retried.
WriteDeployment(w) ==
  /\ pc[w] = "write"
  /\ LET g == Target(req[w], obj[w])
     IN IF Conflict(g)
        THEN Requeue(w) /\ UNCHANGED dep
        ELSE /\ dep' = [dep EXCEPT ![g] = Rendered(w, g)]
             /\ Goto(w, IF Composite(obj[w]) THEN "dropFacade" ELSE "finish")
             /\ UNCHANGED <<lockedNames, queue, req, obj, planVars>>
  /\ UNCHANGED <<envVars, cacheVars, recovered, budgetVars>>

\* deleteFacadeGateway, and the return from applyFacadeService, which
\* releases the gateway's lock.
DropFacade(w) ==
  /\ pc[w] = "dropFacade"
  /\ LET g == FacadeOf[req[w].name]
         isFacade == depCache[g] # None /\ ~depCache[g].mesh
     IN dep' = IF isFacade THEN [dep EXCEPT ![g] = None] ELSE dep
  /\ lockedNames' = lockedNames
        \ {g \in Deployments : HoldsGateway(w) /\ g = obj[w].gateway}
  /\ Goto(w, "finish")
  /\ UNCHANGED <<envVars, cacheVars, queue, req, obj, planVars,
                 recovered, budgetVars>>

\* Mutant: the Gateway waits for the Deployment of a facade gateway.
FinishOnFacade(w) ==
  /\ pc[w] = "finish"
  /\ IF /\ obj[w] # None
        /\ req[w].kind = "Gateway"
        /\ \/ depCache[FacadeOf[req[w].name]] = None
           \/ crs[req[w]] = None
     THEN Requeue(w) ELSE Done(w)
  /\ UNCHANGED <<envVars, cacheVars, dep, recovered, budgetVars>>

\* getCtrlResultForApply: a Gateway waits until its Deployment is seen, then
\* SetUpdated, which is an error when the Gateway is gone.
Finish(w) ==
  /\ pc[w] = "finish"
  /\ IF /\ obj[w] # None
        /\ req[w].kind = "Gateway"
        /\ depCache[Target(req[w], obj[w])] = None \/ crs[req[w]] = None
     THEN Requeue(w) ELSE Done(w)
  /\ UNCHANGED <<envVars, cacheVars, dep, recovered, budgetVars>>

\* Any call of the reconcile returns an error or panics, or the Deployment's
\* pods are not ready yet: the locks are released and the key is retried.
Fail(w) ==
  /\ pc[w] \notin {"idle", "wantName", "wantGateway"}
  /\ errors < MaxErrors
  /\ errors' = errors + 1
  /\ Requeue(w)
  /\ UNCHANGED <<envVars, cacheVars, dep, recovered, changes, restarts>>

WorkerStep(w) ==
  \/ LockName(w) \/ EgressNoOp(w) \/ PlanCleanup(w)
  \/ MarkLastApplied(w) \/ DeleteMeshRouter(w) \/ DeleteMasterCRLabel(w)
  \/ BeginDelete(w) \/ BeginApply(w) \/ LockGateway(w) \/ CheckPriority(w)
  \/ WriteDeployment(w) \/ DropFacade(w) \/ Finish(w)

-----------------------------------------------------------------------------
(* Users, informers, the garbage collector, the operator's pod             *)

Change ==
  /\ changes < MaxChanges
  /\ changes' = changes + 1
  /\ recovered' = FALSE
  /\ UNCHANGED <<cacheVars, dep, lockedNames, queue, workerVars,
                 errors, restarts>>

CreateCR(c) ==
  /\ crs[c] = None
  /\ \E s \in Specs : crs' = [crs EXCEPT ![c] = CRObject(s, born[c], 1)]
  /\ born' = [born EXCEPT ![c] = @ + 1]
  /\ Change

UpdateCR(c) ==
  /\ crs[c] # None
  /\ \E s \in Specs :
       /\ CRObject(s, crs[c].inc, crs[c].gen) # crs[c]
       /\ crs' = [crs EXCEPT ![c] = CRObject(s, @.inc, @.gen + 1)]
  /\ UNCHANGED born
  /\ Change

DeleteCR(c) ==
  /\ crs[c] # None
  /\ crs' = [crs EXCEPT ![c] = None]
  /\ UNCHANGED born
  /\ Change

\* The informer of a kind catches up; every CR whose spec changed is queued.
SyncCRs(kind) ==
  LET changed == {c \in CRs : c.kind = kind /\ crCache[c] # crs[c]}
  IN /\ changed # {}
     /\ crCache' = [c \in CRs |-> IF c \in changed THEN crs[c] ELSE crCache[c]]
     /\ queue' = queue \cup changed
     /\ UNCHANGED <<envVars, depCache, dep, lockedNames, workerVars,
                    recovered, budgetVars>>

\* The Deployment informer catches up; no controller watches Deployments.
SyncDeployments ==
  /\ depCache # dep
  /\ depCache' = dep
  /\ UNCHANGED <<envVars, crCache, dep, lockedNames, queue, workerVars,
                 recovered, budgetVars>>

Alive(uid) == crs[uid.cr] # None /\ crs[uid.cr].inc = uid.inc

Collectable(g) ==
  dep[g] # None /\ \A uid \in dep[g].owners : ~Alive(uid)

\* Kubernetes deletes an object none of whose owners exists.
CollectGarbage(g) ==
  /\ Collectable(g)
  /\ dep' = [dep EXCEPT ![g] = None]
  /\ UNCHANGED <<envVars, cacheVars, lockedNames, queue, workerVars,
                 recovered, budgetVars>>

\* The pod is replaced: locks, queues and reconciles in flight are lost, the
\* caches are filled anew and every CR is queued.
Restart ==
  /\ restarts < MaxRestarts
  /\ restarts' = restarts + 1
  /\ crCache' = crs
  /\ depCache' = dep
  /\ lockedNames' = {}
  /\ queue' = {c \in CRs : crs[c] # None}
  /\ pc' = [w \in Workers |-> "idle"]
  /\ req' = [w \in Workers |-> None]
  /\ obj' = [w \in Workers |-> None]
  /\ marks' = [w \in Workers |-> {}]
  /\ dels' = [w \in Workers |-> {}]
  /\ unlabels' = [w \in Workers |-> {}]
  /\ recovered' = \A g \in Deployments : ~Collectable(g)
  /\ UNCHANGED <<envVars, dep, changes, errors>>

Init ==
  /\ crs = [c \in CRs |-> IF InitialSpecs[c] = None THEN None
                          ELSE CRObject(InitialSpecs[c], 0, 1)]
  /\ born = [c \in CRs |-> IF InitialSpecs[c] = None THEN 0 ELSE 1]
  /\ crCache = crs
  /\ dep = [g \in Deployments |-> None]
  /\ depCache = dep
  /\ lockedNames = {}
  /\ queue = {c \in CRs : crs[c] # None}
  /\ pc = [w \in Workers |-> "idle"]
  /\ req = [w \in Workers |-> None]
  /\ obj = [w \in Workers |-> None]
  /\ marks = [w \in Workers |-> {}]
  /\ dels = [w \in Workers |-> {}]
  /\ unlabels = [w \in Workers |-> {}]
  /\ recovered = TRUE
  /\ changes = 0 /\ errors = 0 /\ restarts = 0

-----------------------------------------------------------------------------

\* Nothing is queued, running, unseen or left to collect.
Quiescent ==
  /\ queue = {}
  /\ \A w \in Workers : pc[w] = "idle"
  /\ crCache = crs
  /\ depCache = dep
  /\ \A g \in Deployments : ~Collectable(g)

\* An operator at rest is no deadlock.
Rest == Quiescent /\ UNCHANGED vars

Next ==
  \/ \E w \in Workers : Dequeue(w) \/ WorkerStep(w) \/ Fail(w)
  \/ \E c \in CRs : CreateCR(c) \/ UpdateCR(c) \/ DeleteCR(c)
  \/ \E kind \in Kinds : SyncCRs(kind)
  \/ SyncDeployments
  \/ \E g \in Deployments : CollectGarbage(g)
  \/ Restart
  \/ Rest

Spec == Init /\ [][Next]_vars

\* The Go runtime runs every goroutine that can run, the informers' watches
\* deliver, the garbage collector works.  A worker polling for a lock gets no
\* more than that: NamedResourceLock keeps no queue.
Fairness ==
  /\ \A w \in Workers : WF_vars(Dequeue(w)) /\ WF_vars(WorkerStep(w))
  /\ \A kind \in Kinds : WF_vars(SyncCRs(kind))
  /\ WF_vars(SyncDeployments)
  /\ \A g \in Deployments : WF_vars(CollectGarbage(g))

FairSpec == Spec /\ Fairness

-----------------------------------------------------------------------------
(* Properties                                                              *)

\* What a worker has in hand where it is.
WorkerOK(w) ==
  /\ pc[w] # "idle" => req[w] # None
  /\ pc[w] \in {"wantGateway", "priority"} => Composite(obj[w])
  /\ pc[w] = "write" => obj[w] # None

\* The variables have their types, and a worker has in hand what it needs.
TypeOK ==
  /\ crs \in [CRs -> CRObjects \cup {None}]
  /\ crCache \in [CRs -> CRObjects \cup {None}]
  /\ born \in [CRs -> Nat]
  /\ dep \in [Deployments -> DeploymentObjects \cup {None}]
  /\ depCache \in [Deployments -> DeploymentObjects \cup {None}]
  /\ lockedNames \subseteq Names \cup Deployments
  /\ queue \subseteq CRs
  /\ pc \in [Workers -> PCs]
  /\ req \in [Workers -> CRs \cup {None}]
  /\ obj \in [Workers -> CRObjects \cup {None}]
  /\ marks \in [Workers -> SUBSET
       [router: Deployments, last: [cr: CRs, deleted: BOOLEAN]]]
  /\ dels \in [Workers -> SUBSET Deployments]
  /\ unlabels \in [Workers -> SUBSET Deployments]
  /\ recovered \in BOOLEAN
  /\ changes \in 0..MaxChanges
  /\ errors \in 0..MaxErrors
  /\ restarts \in 0..MaxRestarts
  /\ \A w \in Workers : WorkerOK(w)

\* lockedNames holds exactly what the workers hold, and each name is one's.
LocksExact ==
  /\ lockedNames = UNION {Held(w) : w \in Workers}
  /\ \A v, w \in Workers : v # w => Held(v) \cap Held(w) = {}

\* Lock polls until the name is free, with no timeout and whoever has it.
Awaited(w) == IF pc[w] = "wantName" THEN req[w].name ELSE obj[w].gateway
Blocked(w) == pc[w] \in {"wantName", "wantGateway"} /\ Awaited(w) \in lockedNames

\* A lock that is waited for is held by a worker, which goes on or waits for a
\* gateway whose holder goes on.
WaitsEnd ==
  \A w \in Workers : Blocked(w) =>
    \E v \in Workers :
      /\ Awaited(w) \in Held(v)
      /\ Blocked(v) => \E u \in Workers : Awaited(v) \in Held(u) /\ ~Blocked(u)

\* On every path through Reconcile (errors, conflicts and panics run the
\* deferred Unlocks) no two workers hold the same CR name or the same gateway:
\* Unlock, which asks for no owner, never frees another worker's lock.  And no
\* worker waits for a lock of its own, for one that nobody is to release, or in
\* a circle: there is no deadlock.
LockInv == LocksExact /\ WaitsEnd

\* The locks as ReconcileLocks specifies them: a name is held when it is in
\* lockedNames, by the worker that is to delete it.
Holder ==
  [n \in Names \cup Deployments |->
     IF n \in lockedNames THEN CHOOSE w \in Workers : n \in Held(w) ELSE None]

Locks == INSTANCE ReconcileLocks WITH holder <- Holder

\* The workers lock a CR name, then at most one gateway, and never wait while
\* they hold a gateway: the reconciler implements ReconcileLocks.
LocksImplemented == Locks!Spec

\* However the writers of a router interleave, its master label is absent or
\* names the CR its template came from, and that CR is among its owners: the
\* collector cannot take a router from under the CR that configures it.
Provenance ==
  \A g \in Deployments : dep[g] # None =>
    /\ dep[g].label \in {None, dep[g].template.name}
    /\ \E uid \in dep[g].owners : uid.cr = dep[g].template

\* A router in use never loses an owner to a writer that read an older one:
\* MergeOwnerReferences works on the version it replaces.
OwnersKept ==
  [][\A g \in Deployments : dep[g] # None /\ dep'[g] # None
       => dep[g].owners \subseteq dep'[g].owners]_vars

\* A router gets a new template only from the worker that has its lock, and
\* while the lock is in lockedNames: from the priority check to the write the
\* CRs sharing a router go one at a time.
ConfiguredUnderLock ==
  [][\A g \in Deployments :
       /\ dep[g] # None /\ dep'[g] # None
       /\ dep'[g].mesh /\ dep'[g].template # dep[g].template
       => \E w \in Workers : /\ g \in Held(w) \cap lockedNames
                              /\ dep'[g].template = req[w]]_vars

\* Once the operator has restarted, nothing was left to collect, and nobody
\* has changed a CR since, then at rest every CR has its Deployment and every
\* Deployment has a CR, whatever was lost or leaked before.
RestartConverges ==
  Quiescent /\ recovered =>
    /\ \A c \in CRs : crs[c] # None =>
         LET g == Target(c, crs[c])
         IN dep[g] # None /\ dep[g].mesh = Composite(crs[c])
    /\ \A g \in Deployments : dep[g] # None =>
         \E c \in CRs : crs[c] # None /\ Target(c, crs[c]) = g

\* While the CRs stay as the restarted operator found them, it never deletes
\* a Deployment one of them uses, whatever fails or races meanwhile.
RestartKeepsRouters ==
  [][recovered /\ recovered' =>
       \A c \in CRs : crs[c] # None =>
         LET g == Target(c, crs[c])
         IN dep[g] # None /\ dep[g].mesh = Composite(crs[c])
              => dep'[g] # None]_vars

\* Beside a core-egress-gateway that was there when the operator first started
\* and has not changed since, nothing that happens to egress-gateway deletes
\* or configures the egress router (docs/core-egress-gateway.md:49).
CoreEgressUndisturbed ==
  [][\A c \in CRs :
       /\ c.name = CoreEgressGateway /\ InitialSpecs[c] # None
       /\ crs[c] = CRObject(InitialSpecs[c], 0, 1) /\ crs'[c] = crs[c]
       => LET g == Target(c, crs[c])
          IN dep[g] # None => dep'[g] # None
                              /\ dep'[g].template.name # EgressGateway]_vars

\* Whatever users did, the operator comes to rest: no reconcile waits for a
\* lock for ever, and no conflict is retried for ever.
EventuallyQuiescent == <>[]Quiescent
=============================================================================
