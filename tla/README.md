# A verification of the facade operator

TLA+ models of qubership-core-facade-operator
(`facade-operator-service/`), checked with TLC and, where a statement holds for
every instance, proved with TLAPS. All source paths below are relative to
`src/facade-operator-service/` unless they start with `docs/` or are the
repository's `README.md`.

## 1. The system

The operator watches two kinds of custom resources (CRs), `FacadeService` and
`Gateway`, and creates Envoy gateways for them.

* A CR **without `spec.gateway`** gets a gateway of its own, a *facade gateway*:
  Deployment `<name>-gateway`.
* A CR **with `spec.gateway`** shares the *composite gateway* (mesh router) of that
  name with every other such CR. One CR at a time gives it its template; the others
  are only routes to it. A CR with `masterConfiguration` is the *master*.

A gateway is more than its Deployment: services, a config map, an HPA and a pod
monitor go with it, and a CR of type ingress declares ingresses, OpenShift routes
or HTTPRoutes.

### Components

| Component | State | Operations | Interacts with |
|---|---|---|---|
| `FacadeCommonReconciler` and its two controllers (`controllers/facade_common_controller.go`) | `namedLock`; work queues; reconciles in flight | `Reconcile`: cleanup of routers no CR uses, apply or delete of one CR | every client below; two controllers, `MAX_CONCURRENT_RECONCILES` workers each, in one process |
| `CRPriorityService` (`pkg/services/cr_priority_service.go`) | none | `UpdateAvailable` | Deployment client, CR look-ups |
| `NamedResourceLock` (`pkg/utils/utils.go`) | `lockedNames`, a `sync.Map` | `Lock` (polling), `Unlock` (no owner) | the reconciler: `ns/name` of the CR, then the gateway's name |
| `CommonCRClient` | none | `GetAll`, `IsCRExistByName`, `GetByLastAppliedCr`, `FindBy...` | informer caches |
| `DeploymentClient` | none | `Get`, `Apply`, `Delete`, `SetLastAppliedCR`, `DeleteMasterCRLabel`, `GetMeshRouterDeployments`, `IsFacadeGateway` | reads the cache, writes the API server |
| Service, ConfigMap, HPA, PodMonitor clients | cluster objects | apply and delete by name, each with its own answer to a conflict | reconciler |
| Ingress, Route, HTTPRoute clients, generic client | cluster objects | apply, delete, delete orphans and orphaned policies | reconciler, CR look-ups |
| Ready service, status updater | `Gateway.status` | phases `Updating`, `Updated`, `BackingOff`; requeue until ready | reconciler |
| `ConfigMapReconciller` | Deployments' image | rewrites the image of every gateway | writes the same Deployments, takes no lock |
| Templates, builders, utilities | none | names, ports, replicas, memory, HPA, owners, versions | called by the reconciler |
| Control-plane client | none | register and drop a gateway (HTTP) | reconciler |
| Logging, startup | none | wiring; a restart reads every cache anew and queues every CR | - |

### What is hard, and what makes each part correct

* **Sharing.** Many CRs write one Deployment from several goroutines. Correct: no
  writer drops another's owner reference, the label and the template belong
  together, the router is configured under its lock, the right CR wins.
* **Stale caches.** Reads come from informers, writes go to the server; the same
  object is read several times in one reconcile. Correct: conflicts are found and
  retried, and nothing decided on an old snapshot damages what is in use.
* **Cleanup.** Every reconcile classifies *every* router on a snapshot and deletes or
  relabels routers without their locks; every reconcile deletes the ingresses that no
  CR seems to declare, while others create theirs.
* **Garbage collection.** Routers are owned by the CRs that configured them, not by
  those that use them.
* **Several resources per gateway**, created and deleted one by one. Correct: a
  failure between two calls leaves neither an incomplete gateway nor, where the code
  can tell, an object behind.
* **Crashes, errors, panics.** Locks must be given back, retries must happen, a
  restart must converge.
* **Two writers without a common lock.** The image controller beside the reconciles;
  status patches without a precondition.
* **Liveness.** Polled locks in two levels, muted conflicts, requeues until ready.
* **Boundaries.** Counts cut to 32 bits, names cut to 63 characters, defaults in
  units the code does not read, names that must be computed alike in two places.

`PROJECT.json` lists every hazard at the line where it bites, with the properties
that watch it, and with what the code does where no property can hold: some races
leave an annotation, a label or a leftover object that only the next reconcile of the
CR concerned, or nothing, puts right.

## 2. Modules

| Module | What it is |
|---|---|
| `CRPriority` | `UpdateAvailable` and its helpers as operators on the facts they look up |
| `FacadeReconciler` | the core: reconciles, locks, queues, caches, API server, garbage collector, restarts, on the Deployments |
| `ReconcileLocks` | abstract specification of the locking, implemented by `FacadeReconciler` |
| `FacadeClaims` | promises of the documentation that the code breaks |
| `GatewayElection` | the priority rule and the cleanup on one router, serially and on fresh caches |
| `GatewayResources` | every object of a gateway, call by call |
| `GatewayRollout` | the status of a Gateway, the rollout of its Deployment, the image controller |
| `IngressOrphans` | ingresses, HTTPRoutes and policies of CRs reconciled at once |
| `GatewayTemplates` | what is computed from a CR and the environment |
| `MC...` | instances of these for TLC |
| `..._proofs` | theorems about `FacadeReconciler` (two modules: `FacadeReconciler_proofs`, `FacadeRestart_proofs`), `GatewayElection`, `GatewayResources`, `GatewayRollout`, `GatewayTemplates`, `IngressOrphans` |
| `SequenceElements` | lemmas about the elements of a sequence, for reconciles that are lists of calls |

`FacadeReconciler`, `GatewayElection` and `GatewayResources` extend `CRPriority`;
`FacadeReconciler` instantiates `ReconcileLocks` with a refinement mapping (`Holder`).
Each module looks at the reconciler from one side and leaves out what the others
show: the interleaving on Deployments, the single calls, the status, the ingresses,
the data. Operators whose comment starts with *Mutant* are not part of any
specification: each is a faulty version of the definition that follows it, which the
property named in `PROJECT.json` must catch.

### FacadeReconciler and the code

State: `crs` and `dep` are the API server, `crCache` and `depCache` the informers;
`lockedNames`, `queue` as in the code; `pc`, `req`, `obj` are a goroutine's position,
key and CR in hand; `marks`, `dels`, `unlabels` are the local lists of
`cleanupDeployments`. A Deployment is its owner references, master label, the CR its
template came from, the last-applied annotation and whether it is a mesh router.

One action per step that can interleave with another actor:

| Action | Code |
|---|---|
| `Dequeue` | work queue, `Reconcile`/`getCR` of both controllers: the CR is read *before* the lock |
| `LockName` | `namedLock.Lock(req.NamespacedName)` |
| `EgressNoOp` | `egress-gateway` yields to `core-egress-gateway` |
| `PlanCleanup` | `GetMeshRouterDeployments`, `GetAll`, classification |
| `MarkLastApplied`, `DeleteMeshRouter`, `DeleteMasterCRLabel` | the cleanup's writes, in their order |
| `BeginApply`, `BeginDelete` | the branch on `cr != nil`, with `SetUpdating` (its patch replaces the object in hand) |
| `LockGateway`, `CheckPriority`, `WriteDeployment` | `applyFacadeService`, `applyMeshRouter`, `Apply` |
| `DropFacade` | `deleteFacadeGateway`, and the deferred unlock of the gateway |
| `Finish` | `getCtrlResultForApply`, with `SetUpdated` |
| `Fail` | any error, panic or not-ready answer: deferred unlocks, retry |
| `CreateCR`, `UpdateCR`, `DeleteCR` | users |
| `SyncCRs`, `SyncDeployments` | an informer catches up; CRs whose spec changed are queued |
| `CollectGarbage` | Kubernetes deletes a Deployment none of whose owners exists |
| `Restart` | the pod is replaced |

Abstractions:

* A cached object equal to the server's counts as the same version. A change made
  and undone is a conflict in the cluster and none in the model, so the model lets
  *more* stale writes through; conflicts caused by others (the Deployment's status,
  the image controller) are among the failures of `Fail`.
* An informer jumps to the server's present state, one kind at a time. Events in
  between are merged, as the work queue merges them.
* The two `List` calls of `GetAll` and that of the routers are one step.
* `Delete` of a Deployment is a read and an unconditional delete in one step; that
  another writer recreates it in between ends in the same states as a delete after.
* The status phase is not kept: whether a Gateway's status is patched at the start
  of an apply is nondeterministic, not ready yet is `Fail`. `GatewayRollout` keeps it.
* The last-applied annotation is always present, as on every Deployment this code
  creates. Owner references of deleted CRs stay until the object goes.
* Errors and panics are one action; the error's class decides only logging and
  status.
* Writes a killed process had in flight are not seen after `Restart`.
* One namespace. A facade gateway's name differs from any name a CR can have in the
  lock table (`ns/name` against a plain name): `NamesDisjoint`.

### GatewayElection

One router, CRs that all share it, `Reconcile` whole and atomic. It has no bound on
the number of changes. It separates what is lost to races (fails in
`FacadeReconciler`, holds here) from what the rule itself decides. Since every CR
names the one router, a master that moves to another gateway is not in it. The
cleanup is without the write of `cleanupLastApplied`, here and in `GatewayResources`:
it marks the annotation of a CR that is gone as deleted, which no decision reads.
`FacadeReconciler` has it, for the conflict it may meet (`MarkLastApplied`).

### GatewayResources and the code

State: `res` is the API server and `seen` the informers' caches, for each object of a
gateway; an object is its owners, the CR it was rendered from (none for a user's), what
a service selects and its type. `todo` is the list of calls that the reconcile under way
still has to make: `Start` computes it in the order of `cleanupDeployments`,
`applyFacadeService`, `applyMeshRouter` and `deleteFacadeService`. A call that is made
of others turns into them when its turn comes (`Instead`), so that what it reads it
reads then: `DoDeleteMeshRouter`, `DoPriority` and `DoDeleteFacadeGateway`, the last two
with the early returns of the code.

| Action | Code |
|---|---|
| `DoApply`, `DoReplace`, `DoCreate` | `Apply` of the Service, Deployment, ConfigMap, HPA and PodMonitor clients; a service of the wrong type (`isWrongType`) is deleted and created in two calls |
| `DoDelete` | `Delete` of the clients; the service client first asks what the service selects, and has a precondition |
| `DoUnlabel`, `DoPriority`, `DoDeleteFacadeGateway`, `DoDeleteMeshRouter` | `DeleteMasterCRLabel`, `UpdateAvailable`, `IsFacadeGateway` and `deleteFacadeGateway`, `deleteMeshRouter` |
| `CallFails` | a call to the API server or the control plane fails, or panics |
| `Sync`, `CollectGarbage`, `Restart` | informers, Kubernetes, the pod |

`Sync` and `CollectGarbage` take the kinds of one group together (`Informers`,
`Collections`); the theorems of section 5 hold for every grouping.

`Muted` and `Failed` are the two classes of errors; `Mutes` says which clients answer a
conflict or AlreadyExists in which way, for they differ: the Service, Deployment and
ConfigMap clients retry silently, the HPA and PodMonitor clients fail on a conflict
and take AlreadyExists for success. Reconciles run one at a time, and users and
informers act between them: how reconciles interleave is `FacadeReconciler`'s matter,
and what a trailing cache does to a call is all here, since a cache that is behind
when a reconcile starts stays behind. `CollectGarbage` and `Restart` may happen
between any two calls.

### GatewayRollout and the code

Gateways with a facade gateway each. State: CRs with object number, generation and
status; Deployments with owners, the generation they were rendered from, image,
rollout and resourceVersion; the config map; `sync`, the image controller's reconcile.

| Action | Code |
|---|---|
| `Begin` | `getCR`, `SetUpdating` (unless `IsUpdatingPhase`), `GetGatewayImage`, with `SetFail` when there is none |
| `Write` | `DeploymentClient.Apply` |
| `SetUpdated`, `NotReady` | `CheckDeploymentReady`: replica counts from the cache, `SetUpdated` or requeue |
| `BeginRemove`, `Remove` | the CR is gone: `deleteFacadeGateway` |
| `ReadNewImage`, `ListDeployments`, `UpdateImage`, `ImagesUpdated` | `ConfigMapReconciller.Reconcile`, `updateImages`: conflicts are collected and retried, another error ends the loop |
| `ReconcileFails`, `SyncFails` | any call fails |
| `SyncCR`, `SyncDeployment`, `SyncConfigMap` | informers, with the two event filters |
| `RollOut`, `CollectGarbage` | Kubernetes |

Every change of the config map is an event, one that has been undone as well: `unseen`
says that there is one the informer has not delivered. A restart queues the config map
if it exists, be it empty. A status patch has no precondition and carries the generation of the object in hand.
Kubernetes refuses an empty image. A resourceVersion is a small number unlike that
of every copy of the Deployment still around, which is all a comparison can tell.
`missed` holds the Deployments the image controller had no occasion to update, for
which the code promises nothing: those whose reconcile had read an image that was
replaced before it wrote, and those a trailing cache hid from the list.

### IngressOrphans and the code

Several reconciles at once, each a list of calls as in `GatewayResources`; a call
carries the names it works on, the locals of the function it stands for. `Begin` reads
the CR before `LockName` takes the lock of its name, as the controllers do; that lock
only keeps two CRs of one name apart.
`DeleteOrphaned` is `list` (ingresses from the cache: `List`), `collect` (FacadeServices:
`Collect`) and `decide` (Gateways: `Decide`): `FindByFields` reads the two kinds one after
the other, and an ingress whose port `BuildNameAndPort` cannot tell ends the reconcile.
`DoApply` and `DoDelete` take one name of their call at a time; `DoSweep` is `deleteOrphanedPolicies`, whose list comes from the API server and
not from a cache; a failed delete of a deleted route's policy (`tryDelete`) is only
logged. The three legacy kinds (Ingress in two versions, Route) are one, since an
installation has one of them. `standing` records which CR has declared what ever
since a listing, `lagged` whether a listing met a cache that was behind, `routed`
whether the last start found a route that a CR declares: `deleteOrphanedPolicies` runs
only while a managed route is listed. A CR's type is left out: it declares ingresses or
it does not. The index by which names are collected has `spec.gatewayType` where the
apply asks `GetGatewayType` (`indexes.go:66-85`), so that the ingresses an
egress-gateway declares as of type ingress are collected and never applied; such a CR
is not among those of the model.

### GatewayTemplates and the code

No concurrency: a CR, the operator's environment and the owners found, changed one
setting at a time, and what the templates, builders and utilities compute from them.
A name is the sequence of its words, so that joining, cutting and comparing names
mean what they mean in the code; an int32 holds `-Half .. Half - 1`; memory is a
number and a unit. The environment is whatever the administrator sets: the HPA's
defaults (`GATEWAY_HPA_*`) are any int32s, which nothing in the chart or the code
checks. Those built in are in order (1 and 9999, 75, 1 and 60), and that the
environment's are is a premise of `HPAAccepted` (`DefaultsInOrder`), not an assumption.
A Service's ports are a set, all TCP. Versions have at most two digits per part. Two definitions of one name in the code, like
`PodMonitorName`/`ShortName` or `ResolveGatewayServiceName`/`ServiceNameVariable`,
are two definitions here, and the properties compare them.

## 3. Runs

Bounds are the constants `MaxChanges` (users' changes), `MaxErrors`, `MaxRestarts` or
`MaxFaults` (both), written *c/e/r* or *c/f* below. Two CRs of different kinds on one
router already show every pair of racing steps; two changes let a CR be deleted and
created again, or one move while the other goes; one failure releases locks, or stops
a list of calls, at every point. The run of the locks has a third worker, so two of
one controller, and two CRs of one name.

| Run | Instance | Shows |
|---|---|---|
| `recovery` | 2 CRs, 1 router, of which the FacadeService is there at the start; 2/1/1 | types; label, template and owners agree; no owner is dropped; templates are written under the lock; a restarted operator serves every CR, deletes leftovers, and never a Deployment in use |
| `locks` | one name, both kinds, and a second Gateway; 3 workers; 0/1/1; `FairSpec` | locks are exact and exclusive; every chain of waits for locks ends at a worker that goes on, one of two waits included; the locking implements `ReconcileLocks`; the operator always comes to rest |
| `egress` | core-egress (FacadeService) and egress (Gateway), 2/1/1 | while core-egress stays, egress-gateway's events touch nothing |
| `election` | 5 CRs, a FacadeService and a Gateway of one name among them; unbounded changes | after a restart the best CR has the gateway if those there have different names; a master keeps it against all but masters of a higher kind, its namesake included |
| `resources` | a FacadeService that joins or leaves a mesh router, its master, a user's service of the router's name; 2/1; two groups of informers, three of the collector | a restart completes every gateway; without a failure or a lagging cache nothing is left behind; failed reconciles are retried; a user's service stays; owners are merged |
| `rollout` | one Gateway, deployed or not at the start, two images and a missing config map; two events (changes of the CR or of the image, faults) in any order; `FairSpec` | at rest the status is true and the image the configured one; a Gateway becomes Updated only for what was applied; it becomes Updated in the end |
| `ingress` | a FacadeService and a Gateway of one name and a Gateway of another, which alone is there at the start; the FacadeService may come to declare the ingress the other gives up, the Gateway of its name declares another or one whose port cannot be told; 2/1; ingresses or HTTPRoutes, one of which has a policy | a restart serves what is declared and removes what is not, policies included; no ingress is deleted that its CR has declared ever since the listing |
| `templates` | 18 words, labels of 4, `Half` = 8, counts around 0, `Half` and 2 * `Half`, two edits of any setting, four environments, one with the HPA's bounds out of order | the objects computed from a CR fit each other |

Two informer groups (services and Deployments, the others) are enough in `resources`
for one object of a gateway to be seen without another, and three of the collector
for its Deployment to go before or after the rest. `rollout` has
one Gateway, so in it an error of the image controller passes over no other Deployment;
that those after the failing one get the image is `ImagesFollow` (section 5). In `templates` a label of
four words cuts names with and without a common beginning, and 8 in place of 2^31
puts counts on both sides of every cut; the theorems of section 5 hold for every
limit and every width. Two edits are enough for each property, none of which reads
more than two settings that can be edited. That users stop editing is its
only end, so the run does not check deadlock.

`RestartConverges`, `RestartKeepsRouters`, `RestartCompletes`, `RestartServes` and
`RestartCleans` speak of the time since the last start in which no user changed a CR
and nothing was left to collect (`recovered`). Without that they are false: nobody
notices a collected router, for the CRs it refused are not its owners and no event
queues them. `RestartCompletes` asks only the service, not the other objects, of a CR
whose gateway was left by the CR of its template (`Left`): the run `left_gateway`
shows why. `NothingLeftBehind` and `NothingOrphaned` speak of runs in which no call
failed and no call met a cache that was behind: after a failed delete the next
reconcile finds no facade Deployment and leaves the config map, HPA and monitor, as
long as their owner stays. `RestartCleans` speaks of policies too, if the start found a
route that stays (`routed`); policies of the last route are left as long
as their owner stays.

Runs that end in a violation check one sentence of the documentation each:

| Run | Sentence | What happens |
|---|---|---|
| `core_egress_wins` | `docs/core-egress-gateway.md:47` | egress-gateway is a Gateway and was first: kind priority refuses core-egress-gateway for good |
| `egress_deletion` | `docs/core-egress-gateway.md:50` | core-egress-gateway was refused and owns nothing; egress-gateway is deleted, the Deployment is collected |
| `same_name` | `README.md:123` | a composite CR deletes the facade gateway of the other kind's CR of its name, at every start |
| `left_gateway` | `README.md:123` | a Gateway fails after the router's Deployment and moves to another gateway; the FacadeService that still names the router is refused for its sake, and the router stays without config map, HPA or pod monitor after a restart too |

## 4. Fairness

`FairSpec` of `FacadeReconciler` assumes weak fairness of each worker's dequeuing and
of its next step (goroutines run), of each informer and of the garbage collector.
Waiting for a lock gets no more: `NamedResourceLock` polls and keeps no queue, so
strong fairness would not be justified. `FairSpec` of `GatewayRollout` assumes weak
fairness of each Gateway's reconcile, of the image controller, of each informer, of
the rollout and of the garbage collector. Nothing is assumed of users, failures and
restarts, which are bounded. `locks` starts with every CR queued, and again after the
restart, so its races need no changes of users. `EventuallyReported` has the premise that the config map
is there from some time on: without an image every reconcile ends in `SetFail` and a
retry. Deadlock is checked in every run but `templates`: an operator at rest stutters
by `Rest`, every other state without a successor would be reported.

## 5. Proofs

Assumptions: the named `ASSUME`s of the modules (CRs have a kind and a name; CR names
and Deployment names are disjoint lock names; `None` is no value; bounds are
naturals; the numbers of the environment are int32s) and those of a theorem that are
listed with it. No theorem uses a size of any set, and none the bounds.

`FacadeReconciler_proofs`:

* `TypeCorrect` (`TypeOK`). Inductive as it stands, because it includes `WorkerOK`:
  a worker that is about to write has a CR in hand.
* `LocksCorrect` (`LockInv`). The inductive part is `LocksExact`: each worker step keeps
  what it holds, takes a free name, takes a free gateway, or releases (`LockMove`);
  each of these preserves `LocksExact`, with disjoint name spaces needed for the
  gateway's release. `WaitsEnd` follows from it: a lock that is waited for has a
  holder; a holder that waits itself is at `wantGateway`, and who holds a gateway is
  past its locks. That a worker at its locks does get them is `EventuallyQuiescent`.
* `OwnersAreKept`, `ProvenanceCorrect`. A step changes a Deployment in one of a few
  ways (`DeploymentChange`): a write rendered from the version replaced, a changed
  annotation, a removed label, a deletion. The conflict check is what makes
  the version read the version replaced.
* `ConfiguredByHolder`. Only a rendered write changes a template; its writer is at
  `write` on a composite CR, hence holds the gateway, which by `LocksExact` is locked.
* `ImplementsLocks`. `Holder` maps the reconciler to `ReconcileLocks`; each kind of
  `LockMove` is an abstract step or a stutter, a restart is `Crash`.

`FacadeRestart_proofs`: `RestartIsConvergent` (`RestartConverges`) and
`RestartKeepsWhatIsUsed` (`RestartKeepsRouters`), for any number of CRs, routers,
workers and failures, under three assumptions:

* `Apart`: no composite gateway has a facade gateway's name;
* `Unique`: no two CRs have one facade gateway. The run `same_name` is what happens
  otherwise;
* `NoEgress`: no CR is called egress-gateway, which may yield its router to another.

Neither property is inductive. `KeptApart`, whatever users do: routers and facade
gateways keep apart, in the server, the caches and the plans. `Recovering`, as long as
`recovered` holds: caches of CRs are current, the CR in hand is the one there is, a
plan names no router in use, every CR has its Deployment or is still to be written,
what is left over is still to be cleaned up or dropped, a used Deployment is in the
server whenever it is in the cache, nothing can be collected. The step of a worker is
first reduced to what it does to its place and its plan (`WorkerMove`), and each
conjunct is then kept by each kind of move. The invariant was checked with TLC on the
instance of `recovery` before it was proved.

There too `CoreEgressIsUndisturbed` (`CoreEgressUndisturbed`), for any other CRs
beside the two, as long as none of them uses the egress router (`Unshared`, a
hypothesis on the behaviour; a third CR could refuse core-egress-gateway and take the
router with it) or has the name or the facade gateway of core-egress-gateway
(`CoreApart`). While that CR is as it was at the first start, `Untouched`: no worker of
egress-gateway gets past its start, no worker has another user of the router in hand,
no plan has the router, and the router is core-egress-gateway's by template and owner.
That a changed CR is never again as at first is in `Begun`: its number or its
generation has grown.

`GatewayElection_proofs`:

* `MasterKeeps` (`MasterKept`): from `LabelGuards`, a fact of `UpdateAvailable`, and
  from the cleanup keeping the label of a live master.
* `ElectionCorrect` (`RestartElects`, which is about live CRs of different names). Not
  inductive: while CRs are still queued the router may belong to the wrong one. `IInv`
  says that every CR already reconciled is matched by one it does not outclass that is
  still queued or is settled on the router; a CR that wins is not outclassed by the one
  it replaces, a CR that loses does not outclass the one that stays, or a queued master
  that has the name of the router's former CR and will take it.

`GatewayRollout_proofs`:

* `RolloutTypeCorrect` (`TypeOK`), from `Types`, which adds the functions' domains and
  what the image controller has listed. A new resourceVersion exists because
  at most three copies of a Deployment are around (`StoredType`).
* `ObservedIsApplied` (`ObservedWasApplied`). `LastWriteOwn`: while a reconcile waits
  for its Deployment, the Deployment is of the generation in hand or its CR is not
  the object in hand any more; `Numbered`: no object has a number not yet given.

* `StatusIsTrue` (`StatusTrue`). What holds at rest is not inductive. `StatusInv` says
  who has still to act: a Gateway is queued or its informer has not shown the last
  object; or a reconcile is about to write with that object in hand; or it waits with
  the Deployment rendered from it; or the Deployment is and the status says so.
  `NotAhead`: an informer shows no generation the server does not have.
* `ImagesFollow` (`ImagesInSync`). `ImageInv`: the change of the config map is not
  delivered or is queued; else the image controller works with its present image, and
  every Deployment has that image, is in `missed`, or is yet to be listed, updated or
  retried (`ToUpdate`).

`GatewayResources_proofs`. Two theorems hold whatever calls a reconcile is made of:

* `FailuresAreRetried` (`FailuresRetried`), from `ToRetry`: a CR marked as failed is
  queued or gone, and the one in hand is a CR that may exist (`CRsInHand`).
* `OwnersAreMerged` (`OwnersMerged`), from `Tables`: every object, on the server and in
  the caches, is a whole record, so that an update of one field keeps its owners; that
  the merge saw the present owners follows from the resourceVersion.

The others look into the list of calls, as the set of its elements (`Pending`):

* `ResourcesTypeCorrect` (`TypeOK`), from `Typed`: each pending call is one the CR in
  hand makes, directed at its service, its gateway, or a gateway the cleanup found
  (`ProperFor`); an object without CR is as the user wrote it, and only a router's
  Deployment is a mesh one (`WellMade`).
* `ForeignServiceIsKept` (`ForeignServiceKept`), from `Typed`: a user's service is
  never collected, for it has no owner, and a cached version that the operator would
  delete differs from it, which the precondition of the delete finds.
* `RestartIsComplete` (`RestartCompletes`), when `Apart` and `Unique` hold of the
  names: no name is both a router's and a CR's or its facade gateway's, and no two CRs
  have one name or one facade gateway. These are the assumptions of `FacadeRestart_proofs`, met by
  the instances (`NamesAssumption`). The invariant adds to `Typed`
  * `Sparing`, always: what a reconcile is about to delete no CR uses;
  * `Repairing`, as long as `recovered` holds. Every CR is queued, in hand or has its
    service (`Reaching`). It is queued, about to ask for priority, or has every object
    of its gateway there or about to be applied (`Provided`), unless the CR of the
    router's template exists (`Providing`): a refused CR need not have come to its
    config map. That other CR, if it names the router, is `Provided` itself (`Caring`),
    and no apply overrules it (`Permitted`), so somebody completes the gateway; if it
    names another, the gateway was `Left`. A priority check reads the cache, where an
    old template's CR lives only if the present one's does (`SeenAsIs`), and collection
    is done (`Uncollectable`).

  It was checked with TLC on instances with two Gateways on one router before it was
  proved; the exception of `Left` and `same_name`'s assumption came from there.
* `NothingIsLeftBehind` (`NothingLeftBehind`), under the same assumptions, from
  `Sparing` and `Tidying`, as long as no call failed and none read an old cache. A
  Deployment that a CR owns and none uses is still to be deleted: by a call that is
  pending, or by a reconcile that is queued (`Handled`). Whoever owns another object of
  a gateway owns its Deployment too, or is about to (`Backed`), since a reconcile
  applies nothing of a gateway without its Deployment (`Applying`) and what deletes the
  Deployment deletes the rest (`Doomed`). So what outlives its users lies with the
  collector. For that the CR that comes back under an old name must not be the owner
  of what it left (`Numbered`), a mesh router's Deployment must show as one and its
  service select a gateway of the operator, or the cleanup would pass them over
  (`Owned`). It needs no order of the pending calls. TLC checked it first, on the
  instance of `resources` and with two CRs that share, leave and return in three
  changes.

`IngressOrphans_proofs`, for any number of reconciles at once:

* `IngressTypeCorrect` (`TypeOK`), from `Typed`: as above, for each CR's list of calls.
* `StandingIsKept` (`StandingKept`), from `Standing`: a list of calls reads the CRs
  before it deletes (`ListsFirst`), and what it deletes then is none of those declared
  ever since.
* `RestartsServe`, `RestartsClean`, `NothingIsOrphaned` (`RestartServes`,
  `RestartCleans`, `NothingOrphaned`) from one invariant, `Tended`. `Recovering`, while
  nobody changed a CR since the start: caches of CRs are current, nothing can be
  collected, every declared name of a CR is queued, in a pending call or served.
  `Followed`, then and while no listing met an old cache and no call failed: a route of
  a name that no CR declares is in hand, to be listed or deleted by somebody
  (`InHand`); the reconciles beside that one do not bring it back, for the object a
  reconcile works with is the present one or its CR is queued again (`Fresh`).
  `PoliciesFollowed`, after a start that found a route which stays: that route goes on
  existing and being seen, so every listing comes to the sweep, and a policy no CR
  declares is to be swept or deleted by somebody.

`SequenceElements` has the lemmas on the elements of lists that both need: of a
concatenation, a head and tail, a list of one call per member of a set.

`GatewayTemplates_proofs`: `RegisteredIsServed`, `PortsAreExposed`,
`BackendsAreServed`, `IngressesAreApart`, `MemoryAlwaysFits`, `CountsReadAlike`,
`HPAIsAccepted`, `MonitorIsDeleted`, `OwnersAreUnited`, `VersionsOrdered`,
`TemplatesTypeCorrect`, for every CR and every environment the assumptions admit
(`HPAIsAccepted` for defaults in order). The invariant is that the CR's settings keep their types; the lemmas are that cutting to
32 bits is the identity on what fits (`Int32Fits`), that both ways to cut a name agree
and keep within the limit (`ShortNames`), that the first port of a number gives its
name (`PortNameResolved`), and that names with one beginning differ if their ports do
or only one is marked as for gRPC (`NamesApart`).

`OwnersAreUnited` is about a loop over a list of any length, hence by induction. The
library's induction theorems take a predicate, which the provers cannot instantiate;
that every set of numbers has a least element (`Least`, from the well-foundedness of
`<`) is a statement about sets, and gives induction on the set of the numbers that
have a property (`Induction`) and a solution to the equation of a function defined
along the numbers (`Recursion`). `MergeIsDefined` applies the latter to
`MergeOwnerReferences`, `MergeAddsOwners` the former: after `i` of the owners found the
merged list begins as it did, repeats nothing and holds the first `i`. The modules in
which owners are a set and an apply takes a union (`FacadeReconciler`,
`GatewayResources`) rest on that; that the list repeats no owner and begins with the
CR's own is what their sets leave out.

Every safety property a passing run checks is proved. Only model-checked:
`EventuallyQuiescent` and `EventuallyReported`, since liveness is out of the prover's
reach.

## 6. Not modelled

* The control plane: two HTTP calls without state in the operator. That they fail is
  among the failures of every model, the name they register is in `GatewayTemplates`.
* Volumes, probes, security contexts, topology constraints, annotations and TLS
  policies of the templates: constants and copies that no property tells apart.
* The parsing of versions, topologies and environment variables; flags, schemes,
  indexes and health probe; logging, error texts, generated code, mocks.
* `FindByNames`, which has no caller.

`PROJECT.json` gives each part's status.

## 7. Plan

1. Two mesh routers in `GatewayResources`, and a CR that moves between them; two routers
   in `GatewayElection`, for a master that leaves one.
2. Several reconciles at once in `GatewayResources`, for conflicts between CRs of one
   router on its config map and services.
