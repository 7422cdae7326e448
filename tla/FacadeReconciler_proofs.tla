----------------------- MODULE FacadeReconciler_proofs -----------------------
(***************************************************************************)
(* Proofs about FacadeReconciler for every set of CRs, Deployments and     *)
(* workers, and every bound.                                               *)
(***************************************************************************)
EXTENDS FacadeReconciler, TLAPS

USE DEF Kinds

LEMMA ObjectTypes ==
  ASSUME NEW s \in Specs, NEW n \in Nat, NEW k \in Nat
  PROVE  CRObject(s, n, k) \in CRObjects
BY SpecsAssumption DEF CRObject, CRObjects

LEMMA RequestTypes ==
  ASSUME NEW c \in CRs
  PROVE  c.name \in Names /\ c.kind \in Kinds /\ FacadeOf[c.name] \in Deployments
BY CRsAssumption, FacadeOfAssumption

\* The Deployment that applyDeployment renders is well formed.
LEMMA RenderedType ==
  ASSUME TypeOK, NEW w \in Workers, pc[w] = "write"
  PROVE  /\ Target(req[w], obj[w]) \in Deployments
         /\ Rendered(w, Target(req[w], obj[w])) \in DeploymentObjects
<1>1. req[w] \in CRs /\ obj[w] \in CRObjects
  BY DEF TypeOK, WorkerOK
<1>2. req[w].name \in Names /\ FacadeOf[req[w].name] \in Deployments
  BY <1>1, RequestTypes
<1>3. Target(req[w], obj[w]) \in Deployments
  BY <1>1, <1>2 DEF Target, Composite, CRObjects
<1> DEFINE g == Target(req[w], obj[w])
<1>4. depCache[g] \in DeploymentObjects \cup {None}
  BY <1>3 DEF TypeOK
<1>5. [cr |-> req[w], inc |-> obj[w].inc] \in Uids
  BY <1>1 DEF Uids, CRObjects
<1>6. Composite(obj[w]) \in BOOLEAN
  BY DEF Composite
<1>7. {[cr |-> req[w], inc |-> obj[w].inc]}
      \cup (IF depCache[g] = None THEN {} ELSE depCache[g].owners) \in SUBSET Uids
  BY <1>4, <1>5 DEF DeploymentObjects
<1>8. (IF obj[w].master THEN req[w].name ELSE None) \in Names \cup {None}
  BY <1>2
<1>9. Rendered(w, g) \in DeploymentObjects
  BY <1>1, <1>6, <1>7, <1>8 DEF Rendered, DeploymentObjects
<1> QED BY <1>3, <1>9

-----------------------------------------------------------------------------
(* Types                                                                   *)

LEMMA InitTypes == Init => TypeOK
<1> SUFFICES ASSUME Init PROVE TypeOK
  OBVIOUS
<1>1. ASSUME NEW c \in CRs
      PROVE  crs[c] \in CRObjects \cup {None}
  <2>1. InitialSpecs[c] # None => CRObject(InitialSpecs[c], 0, 1) \in CRObjects
    BY InitialSpecsAssumption, ObjectTypes
  <2> QED BY <2>1 DEF Init
<1>2. crs \in [CRs -> CRObjects \cup {None}]
  BY <1>1 DEF Init
<1>3. born \in [CRs -> Nat]
  BY DEF Init
<1>4. /\ dep \in [Deployments -> DeploymentObjects \cup {None}]
      /\ lockedNames \subseteq Names \cup Deployments
      /\ queue \subseteq CRs
  BY DEF Init
<1>5. /\ pc \in [Workers -> PCs]
      /\ req \in [Workers -> CRs \cup {None}]
      /\ obj \in [Workers -> CRObjects \cup {None}]
  BY DEF Init, PCs
<1>6. /\ marks \in [Workers -> SUBSET
             [router: Deployments, last: [cr: CRs, deleted: BOOLEAN]]]
      /\ dels \in [Workers -> SUBSET Deployments]
      /\ unlabels \in [Workers -> SUBSET Deployments]
  BY DEF Init
<1>7. ASSUME NEW w \in Workers PROVE WorkerOK(w)
  BY DEF Init, WorkerOK
<1>8. changes \in 0..MaxChanges /\ errors \in 0..MaxErrors /\ restarts \in 0..MaxRestarts
  <2>1. changes = 0 /\ errors = 0 /\ restarts = 0
    BY DEF Init
  <2> QED BY <2>1, BoundsAssumption
<1> QED BY <1>2, <1>3, <1>4, <1>5, <1>6, <1>7, <1>8 DEF Init, TypeOK

\* Every return from Reconcile leaves the worker idle and empty-handed.
LEMMA ReleaseTypes ==
  ASSUME TypeOK, NEW w \in Workers, pc[w] # "idle", Done(w) \/ Requeue(w),
         UNCHANGED <<envVars, cacheVars, recovered, changes, restarts>>,
         dep' \in [Deployments -> DeploymentObjects \cup {None}],
         errors' \in 0..MaxErrors
  PROVE  TypeOK'
<1>1. lockedNames' \subseteq Names \cup Deployments
  BY DEF TypeOK, Done, Requeue, Release
<1>2. queue' \subseteq CRs
  BY DEF TypeOK, WorkerOK, Done, Requeue, Release
<1>3. /\ pc' \in [Workers -> PCs]
      /\ req' \in [Workers -> CRs \cup {None}]
      /\ obj' \in [Workers -> CRObjects \cup {None}]
  BY DEF TypeOK, Done, Requeue, Release, PCs
<1>4. /\ marks' \in [Workers -> SUBSET
             [router: Deployments, last: [cr: CRs, deleted: BOOLEAN]]]
      /\ dels' \in [Workers -> SUBSET Deployments]
      /\ unlabels' \in [Workers -> SUBSET Deployments]
  BY DEF TypeOK, Done, Requeue, Release
<1>5. ASSUME NEW u \in Workers PROVE WorkerOK(u)'
  BY DEF TypeOK, WorkerOK, Done, Requeue, Release, Composite
<1> QED
  BY <1>1, <1>2, <1>3, <1>4, <1>5 DEF TypeOK, envVars, cacheVars

\* A worker's step that goes on leaves every field of a type.
LEMMA GotoTypes ==
  ASSUME TypeOK, NEW w \in Workers, NEW label \in PCs, Goto(w, label)
  PROVE  /\ pc' \in [Workers -> PCs]
         /\ pc'[w] = label
         /\ \A u \in Workers \ {w} : pc'[u] = pc[u]
BY DEF TypeOK, Goto

LEMMA DequeueTypes ==
  ASSUME TypeOK, NEW w \in Workers, Dequeue(w)
  PROVE  TypeOK'
<1>1. PICK c \in queue : /\ queue' = queue \ {c}
                         /\ req' = [req EXCEPT ![w] = c]
                         /\ obj' = [obj EXCEPT ![w] = crCache[c]]
  BY DEF Dequeue
<1>2. c \in CRs /\ crCache[c] \in CRObjects \cup {None}
  BY DEF TypeOK
<1>3. /\ pc' \in [Workers -> PCs]
      /\ pc'[w] = "wantName"
      /\ \A u \in Workers \ {w} : pc'[u] = pc[u]
  BY GotoTypes DEF Dequeue, PCs
<1>4. /\ queue' \subseteq CRs
      /\ req' \in [Workers -> CRs \cup {None}]
      /\ obj' \in [Workers -> CRObjects \cup {None}]
  BY <1>1, <1>2 DEF TypeOK
<1>5. c # None
  BY <1>2, NoneAssumption
<1>6. ASSUME NEW u \in Workers PROVE WorkerOK(u)'
  BY <1>1, <1>3, <1>5 DEF TypeOK, WorkerOK, Composite
<1> QED
  BY <1>3, <1>4, <1>6
  DEF TypeOK, Dequeue, envVars, cacheVars, planVars, budgetVars

\* The steps that change only the worker's place and the locks.
LEMMA MoveTypes ==
  ASSUME TypeOK, NEW w \in Workers, pc[w] # "idle", NEW label \in PCs,
         Goto(w, label),
         label \in {"wantGateway", "priority"} => Composite(obj'[w]),
         label = "write" => obj'[w] # None,
         obj' \in [Workers -> CRObjects \cup {None}],
         \A u \in Workers \ {w} : obj'[u] = obj[u],
         lockedNames' \subseteq Names \cup Deployments,
         marks' \in [Workers -> SUBSET
             [router: Deployments, last: [cr: CRs, deleted: BOOLEAN]]],
         dels' \in [Workers -> SUBSET Deployments],
         unlabels' \in [Workers -> SUBSET Deployments],
         dep' \in [Deployments -> DeploymentObjects \cup {None}],
         UNCHANGED <<envVars, cacheVars, queue, req, recovered, budgetVars>>
  PROVE  TypeOK'
<1>1. /\ pc' \in [Workers -> PCs]
      /\ pc'[w] = label
      /\ \A u \in Workers \ {w} : pc'[u] = pc[u]
  BY GotoTypes
<1>2. ASSUME NEW u \in Workers PROVE WorkerOK(u)'
  BY <1>1 DEF TypeOK, WorkerOK, Composite
<1> QED
  BY <1>1, <1>2 DEF TypeOK, envVars, cacheVars, budgetVars

LEMMA PlanCleanupTypes ==
  ASSUME TypeOK, NEW w \in Workers, PlanCleanup(w)
  PROVE  TypeOK'
<1> DEFINE used == {g \in MeshRouters : Referenced(g)}
<1>1. MeshRouters \subseteq Deployments
  BY DEF MeshRouters
<1>2. ASSUME NEW g \in MeshRouters
      PROVE  depCache[g].last \in [cr: CRs, deleted: BOOLEAN]
  BY <1>1 DEF TypeOK, MeshRouters, DeploymentObjects
<1>3. {[router |-> g, last |-> depCache[g].last] : g \in used}
        \in SUBSET [router: Deployments, last: [cr: CRs, deleted: BOOLEAN]]
  BY <1>1, <1>2
<1>4. marks' \in [Workers -> SUBSET
             [router: Deployments, last: [cr: CRs, deleted: BOOLEAN]]]
  BY <1>3 DEF TypeOK, PlanCleanup
<1>5. /\ dels' \in [Workers -> SUBSET Deployments]
      /\ unlabels' \in [Workers -> SUBSET Deployments]
  BY <1>1 DEF TypeOK, PlanCleanup
<1> QED
  BY <1>4, <1>5, MoveTypes DEF TypeOK, PlanCleanup, PCs

LEMMA MarkLastAppliedTypes ==
  ASSUME TypeOK, NEW w \in Workers, MarkLastApplied(w)
  PROVE  TypeOK'
<1>1. PICK m \in marks[w] :
        LET gone == crCache[m.last.cr] = None /\ depCache[m.router] # None
        IN IF gone /\ Conflict(m.router)
           THEN Requeue(w) /\ UNCHANGED dep
           ELSE /\ dep' = IF gone
                          THEN [dep EXCEPT ![m.router] = [@ EXCEPT !.last =
                                  [cr |-> m.last.cr, deleted |-> TRUE]]]
                          ELSE dep
                /\ marks' = [marks EXCEPT ![w] = @ \ {m}]
                /\ UNCHANGED <<lockedNames, queue, pc, req, obj, dels, unlabels>>
  BY DEF MarkLastApplied
<1> DEFINE gone == crCache[m.last.cr] = None /\ depCache[m.router] # None
<1>2. m.router \in Deployments /\ m.last.cr \in CRs
  BY DEF TypeOK
<1>3. CASE gone /\ Conflict(m.router)
  BY <1>1, <1>3, ReleaseTypes DEF TypeOK, MarkLastApplied, budgetVars
<1>4. CASE ~(gone /\ Conflict(m.router))
  <2>1. dep' \in [Deployments -> DeploymentObjects \cup {None}]
    <3>1. CASE gone
      <4>1. dep[m.router] \in DeploymentObjects
        BY <1>2, <1>4, <3>1 DEF TypeOK, Conflict
      <4>2. [dep[m.router] EXCEPT !.last = [cr |-> m.last.cr, deleted |-> TRUE]]
              \in DeploymentObjects
        BY <1>2, <4>1 DEF DeploymentObjects
      <4> QED BY <1>1, <1>2, <1>4, <3>1, <4>2 DEF TypeOK
    <3>2. CASE ~gone
      BY <1>1, <1>4, <3>2 DEF TypeOK
    <3> QED BY <3>1, <3>2
  <2>2. marks' \in [Workers -> SUBSET
             [router: Deployments, last: [cr: CRs, deleted: BOOLEAN]]]
    BY <1>1, <1>4 DEF TypeOK
  <2>3. UNCHANGED <<lockedNames, queue, pc, req, obj, dels, unlabels>>
    BY <1>1, <1>4
  <2>4. ASSUME NEW u \in Workers PROVE WorkerOK(u)'
    BY <2>3 DEF TypeOK, WorkerOK, Composite
  <2> QED
    BY <2>1, <2>2, <2>3, <2>4
    DEF TypeOK, MarkLastApplied, envVars, cacheVars, budgetVars
<1> QED BY <1>3, <1>4

LEMMA DeleteMeshRouterTypes ==
  ASSUME TypeOK, NEW w \in Workers, DeleteMeshRouter(w)
  PROVE  TypeOK'
<1>1. dep' \in [Deployments -> DeploymentObjects \cup {None}]
  BY DEF TypeOK, DeleteMeshRouter
<1>2. dels' \in [Workers -> SUBSET Deployments]
  BY DEF TypeOK, DeleteMeshRouter
<1>3. ASSUME NEW u \in Workers PROVE WorkerOK(u)'
  BY DEF TypeOK, DeleteMeshRouter, WorkerOK, Composite
<1> QED
  BY <1>1, <1>2, <1>3
  DEF TypeOK, DeleteMeshRouter, envVars, cacheVars, budgetVars

LEMMA DeleteMasterCRLabelTypes ==
  ASSUME TypeOK, NEW w \in Workers, DeleteMasterCRLabel(w)
  PROVE  TypeOK'
<1>1. PICK g \in unlabels[w] :
        LET labelled == depCache[g] # None /\ depCache[g].label # None
        IN IF labelled /\ Conflict(g)
           THEN Requeue(w) /\ UNCHANGED dep
           ELSE /\ dep' = IF labelled
                          THEN [dep EXCEPT ![g] = [@ EXCEPT !.label = None]]
                          ELSE dep
                /\ unlabels' = [unlabels EXCEPT ![w] = @ \ {g}]
                /\ UNCHANGED <<lockedNames, queue, pc, req, obj, marks, dels>>
  BY DEF DeleteMasterCRLabel
<1> DEFINE labelled == depCache[g] # None /\ depCache[g].label # None
<1>2. g \in Deployments
  BY DEF TypeOK
<1>3. CASE labelled /\ Conflict(g)
  BY <1>1, <1>3, ReleaseTypes DEF TypeOK, DeleteMasterCRLabel, budgetVars
<1>4. CASE ~(labelled /\ Conflict(g))
  <2>1. dep' \in [Deployments -> DeploymentObjects \cup {None}]
    <3>1. CASE labelled
      <4>1. dep[g] \in DeploymentObjects
        BY <1>2, <1>4, <3>1 DEF TypeOK, Conflict
      <4>2. [dep[g] EXCEPT !.label = None] \in DeploymentObjects
        BY <4>1 DEF DeploymentObjects
      <4> QED BY <1>1, <1>2, <1>4, <3>1, <4>2 DEF TypeOK
    <3>2. CASE ~labelled
      BY <1>1, <1>4, <3>2 DEF TypeOK
    <3> QED BY <3>1, <3>2
  <2>2. unlabels' \in [Workers -> SUBSET Deployments]
    BY <1>1, <1>4 DEF TypeOK
  <2>3. UNCHANGED <<lockedNames, queue, pc, req, obj, marks, dels>>
    BY <1>1, <1>4
  <2>4. ASSUME NEW u \in Workers PROVE WorkerOK(u)'
    BY <2>3 DEF TypeOK, WorkerOK, Composite
  <2> QED
    BY <2>1, <2>2, <2>3, <2>4
    DEF TypeOK, DeleteMasterCRLabel, envVars, cacheVars, budgetVars
<1> QED BY <1>3, <1>4

LEMMA BeginApplyTypes ==
  ASSUME TypeOK, NEW w \in Workers, BeginApply(w)
  PROVE  TypeOK'
<1> DEFINE apply(o) ==
      /\ obj' = [obj EXCEPT ![w] = o]
      /\ Goto(w, IF Composite(o) THEN "wantGateway" ELSE "write")
      /\ UNCHANGED <<lockedNames, queue, req, planVars>>
<1>1. ASSUME NEW o \in CRObjects \cup {None}, o # None, apply(o)
      PROVE  TypeOK'
  <2>1. /\ obj' \in [Workers -> CRObjects \cup {None}]
        /\ obj'[w] = o
        /\ \A u \in Workers \ {w} : obj'[u] = obj[u]
    BY <1>1 DEF TypeOK
  <2>2. CASE Composite(o)
    BY <1>1, <2>1, <2>2, MoveTypes
    DEF TypeOK, BeginApply, CleanedUp, PCs, planVars, Composite
  <2>3. CASE ~Composite(o)
    BY <1>1, <2>1, <2>3, MoveTypes
    DEF TypeOK, BeginApply, CleanedUp, PCs, planVars
  <2> QED BY <2>2, <2>3
<1>2. CASE apply(obj[w])
  BY <1>1, <1>2 DEF TypeOK, BeginApply
<1>3. CASE req[w].kind = "Gateway" /\ crs[req[w]] # None /\ apply(crs[req[w]])
  <2>1. req[w] \in CRs
    BY DEF TypeOK, WorkerOK, BeginApply, CleanedUp
  <2> QED BY <1>1, <1>3, <2>1 DEF TypeOK
<1>4. CASE Requeue(w)
  BY <1>4, ReleaseTypes DEF TypeOK, BeginApply, CleanedUp, budgetVars
<1> QED BY <1>2, <1>3, <1>4 DEF BeginApply

LEMMA WriteDeploymentTypes ==
  ASSUME TypeOK, NEW w \in Workers, WriteDeployment(w)
  PROVE  TypeOK'
<1> DEFINE g == Target(req[w], obj[w])
<1>1. g \in Deployments /\ Rendered(w, g) \in DeploymentObjects
  BY RenderedType DEF WriteDeployment
<1>2. CASE Conflict(g)
  BY <1>2, ReleaseTypes DEF TypeOK, WriteDeployment, budgetVars
<1>3. CASE ~Conflict(g)
  <2>1. dep' \in [Deployments -> DeploymentObjects \cup {None}]
    BY <1>1, <1>3 DEF TypeOK, WriteDeployment
  <2>2. PICK label \in {"dropFacade", "finish"} : Goto(w, label)
    BY <1>3 DEF WriteDeployment
  <2> QED
    BY <1>3, <2>1, <2>2, MoveTypes DEF TypeOK, WriteDeployment, PCs, planVars
<1> QED BY <1>2, <1>3

LEMMA DropFacadeTypes ==
  ASSUME TypeOK, NEW w \in Workers, DropFacade(w)
  PROVE  TypeOK'
<1>1. dep' \in [Deployments -> DeploymentObjects \cup {None}]
  BY DEF TypeOK, DropFacade
<1>2. lockedNames' \subseteq Names \cup Deployments
  BY DEF TypeOK, DropFacade
<1> QED
  BY <1>1, <1>2, MoveTypes DEF TypeOK, DropFacade, PCs, planVars

LEMMA FailTypes ==
  ASSUME TypeOK, NEW w \in Workers, Fail(w)
  PROVE  TypeOK'
<1>1. errors' \in 0..MaxErrors
  <2>1. errors \in 0..MaxErrors /\ errors < MaxErrors /\ errors' = errors + 1
    BY DEF TypeOK, Fail
  <2> QED BY <2>1, BoundsAssumption
<1> QED
  BY <1>1, ReleaseTypes DEF TypeOK, Fail

LEMMA WorkerTypes ==
  ASSUME TypeOK, NEW w \in Workers, Dequeue(w) \/ WorkerStep(w) \/ Fail(w)
  PROVE  TypeOK'
<1>1. CASE LockName(w)
  <2>1. lockedNames' \subseteq Names \cup Deployments
    BY <1>1, RequestTypes DEF TypeOK, WorkerOK, LockName
  <2> QED BY <1>1, <2>1, MoveTypes DEF TypeOK, LockName, PCs, planVars
<1>2. CASE EgressNoOp(w)
  BY <1>2, ReleaseTypes DEF TypeOK, EgressNoOp, budgetVars
<1>3. CASE BeginDelete(w)
  BY <1>3, MoveTypes DEF TypeOK, BeginDelete, CleanedUp, PCs, planVars
<1>4. CASE LockGateway(w)
  <2>1. Composite(obj[w])
    BY <1>4 DEF TypeOK, WorkerOK, LockGateway
  <2>2. lockedNames' \subseteq Names \cup Deployments
    BY <1>4, <2>1 DEF TypeOK, LockGateway, Composite, CRObjects
  <2> QED
    BY <1>4, <2>1, <2>2, MoveTypes DEF TypeOK, LockGateway, PCs, planVars, Composite
<1>5. CASE CheckPriority(w)
  <2>1. obj[w] # None
    BY <1>5 DEF TypeOK, WorkerOK, CheckPriority, Composite
  <2>2. PICK label \in {"write", "dropFacade"} : Goto(w, label)
    BY <1>5 DEF CheckPriority
  <2> QED
    BY <1>5, <2>1, <2>2, MoveTypes DEF TypeOK, CheckPriority, PCs, planVars
<1>6. CASE Finish(w)
  BY <1>6, ReleaseTypes DEF TypeOK, Finish, budgetVars
<1> QED
  BY <1>1, <1>2, <1>3, <1>4, <1>5, <1>6, DequeueTypes, PlanCleanupTypes,
     MarkLastAppliedTypes, DeleteMeshRouterTypes, DeleteMasterCRLabelTypes,
     BeginApplyTypes, WriteDeploymentTypes, DropFacadeTypes, FailTypes
  DEF WorkerStep

LEMMA ChangeTypes ==
  ASSUME TypeOK, NEW c \in CRs, CreateCR(c) \/ UpdateCR(c) \/ DeleteCR(c)
  PROVE  TypeOK'
<1>1. Change
  BY DEF CreateCR, UpdateCR, DeleteCR
<1>2. changes' \in 0..MaxChanges
  <2>1. changes \in 0..MaxChanges /\ changes < MaxChanges /\ changes' = changes + 1
    BY <1>1 DEF TypeOK, Change
  <2> QED BY <2>1, BoundsAssumption
<1>3. crs' \in [CRs -> CRObjects \cup {None}] /\ born' \in [CRs -> Nat]
  <2>1. CASE CreateCR(c)
    <3>1. PICK s \in Specs : crs' = [crs EXCEPT ![c] = CRObject(s, born[c], 1)]
      BY <2>1 DEF CreateCR
    <3>2. CRObject(s, born[c], 1) \in CRObjects
      BY ObjectTypes DEF TypeOK
    <3> QED BY <2>1, <3>1, <3>2 DEF TypeOK, CreateCR
  <2>2. CASE UpdateCR(c)
    <3>1. PICK s \in Specs :
            crs' = [crs EXCEPT ![c] = CRObject(s, @.inc, @.gen + 1)]
      BY <2>2 DEF UpdateCR
    <3>2. crs[c].inc \in Nat /\ crs[c].gen + 1 \in Nat
      BY <2>2 DEF TypeOK, UpdateCR, CRObjects
    <3>3. CRObject(s, crs[c].inc, crs[c].gen + 1) \in CRObjects
      BY <3>2, ObjectTypes
    <3> QED BY <2>2, <3>1, <3>3 DEF TypeOK, UpdateCR
  <2>3. CASE DeleteCR(c)
    BY <2>3 DEF TypeOK, DeleteCR
  <2> QED BY <2>1, <2>2, <2>3
<1>4. ASSUME NEW u \in Workers PROVE WorkerOK(u)'
  BY <1>1 DEF TypeOK, Change, workerVars, WorkerOK, Composite
<1> QED
  BY <1>1, <1>2, <1>3, <1>4
  DEF TypeOK, Change, cacheVars, workerVars, planVars

LEMMA EnvironmentTypes ==
  ASSUME TypeOK,
         \/ \E kind \in Kinds : SyncCRs(kind)
         \/ SyncDeployments
         \/ \E g \in Deployments : CollectGarbage(g)
  PROVE  TypeOK'
<1>1. /\ UNCHANGED <<envVars, lockedNames, workerVars, recovered, budgetVars>>
      /\ crCache' \in [CRs -> CRObjects \cup {None}]
      /\ depCache' \in [Deployments -> DeploymentObjects \cup {None}]
      /\ dep' \in [Deployments -> DeploymentObjects \cup {None}]
      /\ queue' \subseteq CRs
  <2>1. ASSUME NEW kind \in Kinds, SyncCRs(kind) PROVE <1>1!:
    BY <2>1 DEF TypeOK, SyncCRs
  <2>2. CASE SyncDeployments
    BY <2>2 DEF TypeOK, SyncDeployments
  <2>3. ASSUME NEW g \in Deployments, CollectGarbage(g) PROVE <1>1!:
    BY <2>3 DEF TypeOK, CollectGarbage, cacheVars
  <2> QED BY <2>1, <2>2, <2>3
<1>2. ASSUME NEW u \in Workers PROVE WorkerOK(u)'
  BY <1>1 DEF TypeOK, workerVars, WorkerOK, Composite
<1> QED
  BY <1>1, <1>2 DEF TypeOK, envVars, workerVars, planVars, budgetVars

LEMMA RestartTypes ==
  ASSUME TypeOK, Restart
  PROVE  TypeOK'
<1>1. restarts' \in 0..MaxRestarts
  <2>1. restarts \in 0..MaxRestarts /\ restarts < MaxRestarts /\ restarts' = restarts + 1
    BY DEF TypeOK, Restart
  <2> QED BY <2>1, BoundsAssumption
<1>2. ASSUME NEW u \in Workers PROVE WorkerOK(u)'
  BY DEF Restart, WorkerOK
<1>3. pc' \in [Workers -> PCs]
  BY DEF Restart, PCs
<1>4. recovered' \in BOOLEAN
  BY DEF Restart
<1> QED
  BY <1>1, <1>2, <1>3, <1>4 DEF TypeOK, Restart, envVars

LEMMA TypeStep == TypeOK /\ [Next]_vars => TypeOK'
<1> SUFFICES ASSUME TypeOK, [Next]_vars PROVE TypeOK'
  OBVIOUS
<1>1. CASE UNCHANGED vars
  <2>1. ASSUME NEW u \in Workers PROVE WorkerOK(u)'
    BY <1>1 DEF TypeOK, vars, workerVars, WorkerOK, Composite
  <2> QED
    BY <1>1, <2>1
    DEF TypeOK, vars, envVars, cacheVars, workerVars, planVars, budgetVars
<1>2. CASE Rest
  BY <1>1, <1>2 DEF Rest
<1>3. CASE Next /\ ~Rest
  BY <1>3, WorkerTypes, ChangeTypes, EnvironmentTypes, RestartTypes DEF Next
<1> QED BY <1>1, <1>2, <1>3

\* Every variable of the reconciler keeps its type, and a worker always has in
\* hand what its next step reads (a key once it has dequeued, a CR with a
\* gateway when it locks and checks that gateway, a CR when it writes).
THEOREM TypeCorrect == Spec => []TypeOK
<1>1. Init => TypeOK
  BY InitTypes
<1>2. TypeOK /\ [Next]_vars => TypeOK'
  BY TypeStep
<1> QED BY <1>1, <1>2, PTL DEF Spec

-----------------------------------------------------------------------------
(* Locks.  A worker's step does one of five things to the locks; mutual    *)
(* exclusion and the refinement of ReconcileLocks follow from that alone.  *)

Keeps(w) == Held(w)' = Held(w) /\ lockedNames' = lockedNames

TakesName(w) ==
  \E n \in Names : /\ n \notin lockedNames
                   /\ Held(w) = {} /\ Held(w)' = {n}
                   /\ lockedNames' = lockedNames \cup {n}

TakesGateway(w) ==
  \E g \in Deployments : /\ g \notin lockedNames
                         /\ Held(w) \cap Names # {}
                         /\ Held(w) \cap Deployments = {}
                         /\ Held(w)' = Held(w) \cup {g}
                         /\ lockedNames' = lockedNames \cup {g}

ReleasesAll(w) == Held(w)' = {} /\ lockedNames' = lockedNames \ Held(w)

ReleasesGateway(w) ==
  /\ Held(w)' = Held(w) \ Deployments
  /\ lockedNames' = lockedNames \ (Held(w) \cap Deployments)

LockMove(w) ==
  /\ \A u \in Workers \ {w} : Held(u)' = Held(u)
  /\ \/ Keeps(w) \/ TakesName(w) \/ TakesGateway(w)
     \/ ReleasesAll(w) \/ ReleasesGateway(w)

LEMMA HeldSame ==
  ASSUME NEW u \in Workers, pc'[u] = pc[u], req'[u] = req[u], obj'[u] = obj[u]
  PROVE  Held(u)' = Held(u)
BY DEF Held, HoldsName, HoldsGateway, Composite

LEMMA HeldNames ==
  ASSUME NEW w \in Workers
  PROVE  Held(w) \subseteq Names \cup Deployments
BY DEF Held

\* Every step of a worker changes its own place and hands only.
LEMMA OthersSame ==
  ASSUME NEW w \in Workers,
         \A u \in Workers \ {w} :
           pc'[u] = pc[u] /\ req'[u] = req[u] /\ obj'[u] = obj[u]
  PROVE  \A u \in Workers \ {w} : Held(u)' = Held(u)
BY HeldSame

\* Whatever ends a reconcile gives back all that the worker held.
LEMMA ReleaseLocks ==
  ASSUME TypeOK, NEW w \in Workers, Done(w) \/ Requeue(w)
  PROVE  LockMove(w)
<1>1. /\ lockedNames' = lockedNames \ Held(w)
      /\ pc'[w] = "idle"
      /\ \A u \in Workers \ {w} :
           pc'[u] = pc[u] /\ req'[u] = req[u] /\ obj'[u] = obj[u]
  BY DEF TypeOK, Done, Requeue, Release
<1>2. Held(w)' = {}
  BY <1>1 DEF Held, HoldsName, HoldsGateway
<1> QED BY <1>1, <1>2, OthersSame DEF LockMove, ReleasesAll

LEMMA CleanupLocks ==
  ASSUME TypeOK, NEW w \in Workers,
         \/ PlanCleanup(w) \/ MarkLastApplied(w) \/ DeleteMeshRouter(w)
         \/ DeleteMasterCRLabel(w)
  PROVE  LockMove(w)
<1>1. CASE PlanCleanup(w)
  <2>1. Held(w)' = Held(w)
    BY <1>1 DEF TypeOK, PlanCleanup, Goto, Held, HoldsName, HoldsGateway
  <2>2. /\ lockedNames' = lockedNames
        /\ \A u \in Workers \ {w} :
             pc'[u] = pc[u] /\ req'[u] = req[u] /\ obj'[u] = obj[u]
    BY <1>1 DEF TypeOK, PlanCleanup, Goto
  <2> QED BY <2>1, <2>2, OthersSame DEF LockMove, Keeps
<1>2. ASSUME UNCHANGED <<lockedNames, pc, req, obj>>
      PROVE  LockMove(w)
  BY <1>2, HeldSame DEF LockMove, Keeps
<1>3. CASE MarkLastApplied(w)
  BY <1>2, <1>3, ReleaseLocks DEF MarkLastApplied
<1>4. CASE DeleteMeshRouter(w)
  BY <1>2, <1>4 DEF DeleteMeshRouter
<1>5. CASE DeleteMasterCRLabel(w)
  BY <1>2, <1>5, ReleaseLocks DEF DeleteMasterCRLabel
<1> QED BY <1>1, <1>3, <1>4, <1>5

LEMMA BeginLocks ==
  ASSUME TypeOK, NEW w \in Workers, Dequeue(w) \/ BeginDelete(w) \/ BeginApply(w)
  PROVE  LockMove(w)
<1>1. CASE Dequeue(w)
  <2>1. /\ pc[w] = "idle" /\ pc'[w] = "wantName" /\ UNCHANGED lockedNames
        /\ \A u \in Workers \ {w} :
             pc'[u] = pc[u] /\ req'[u] = req[u] /\ obj'[u] = obj[u]
    BY <1>1 DEF TypeOK, Dequeue, Goto
  <2>2. Held(w)' = Held(w)
    BY <2>1 DEF Held, HoldsName, HoldsGateway
  <2> QED BY <2>1, <2>2, OthersSame DEF LockMove, Keeps
<1>2. CASE BeginDelete(w)
  <2>1. /\ pc[w] = "cleanup" /\ pc'[w] = "dropFacade" /\ obj'[w] = None
        /\ UNCHANGED <<lockedNames, req>>
        /\ \A u \in Workers \ {w} :
             pc'[u] = pc[u] /\ req'[u] = req[u] /\ obj'[u] = obj[u]
    BY <1>2 DEF TypeOK, BeginDelete, CleanedUp, Goto
  <2>2. Held(w)' = Held(w)
    BY <2>1 DEF Held, HoldsName, HoldsGateway, Composite
  <2> QED BY <2>1, <2>2, OthersSame DEF LockMove, Keeps
<1>3. CASE BeginApply(w)
  <2>1. ASSUME ~Requeue(w)
        PROVE  /\ pc[w] = "cleanup"
               /\ pc'[w] = IF Composite(obj'[w]) THEN "wantGateway" ELSE "write"
               /\ UNCHANGED <<lockedNames, req>>
               /\ \A u \in Workers \ {w} :
                    pc'[u] = pc[u] /\ req'[u] = req[u] /\ obj'[u] = obj[u]
    BY <1>3, <2>1 DEF TypeOK, BeginApply, CleanedUp, Goto, Composite
  <2>2. ASSUME ~Requeue(w)
        PROVE  Held(w)' = Held(w)
    BY <2>1, <2>2 DEF Held, HoldsName, HoldsGateway, Composite
  <2> QED BY <2>1, <2>2, OthersSame, ReleaseLocks DEF LockMove, Keeps
<1> QED BY <1>1, <1>2, <1>3

\* LoadOrStore succeeds only on a name that nobody holds.
LEMMA AcquireLocks ==
  ASSUME TypeOK, NEW w \in Workers, LockName(w) \/ LockGateway(w)
  PROVE  LockMove(w)
<1>1. CASE LockName(w)
  <2>1. req[w] \in CRs /\ req[w].name \in Names
    BY <1>1, RequestTypes DEF TypeOK, WorkerOK, LockName
  <2>2. /\ pc[w] = "wantName" /\ pc'[w] = "start"
        /\ \A u \in Workers \ {w} :
             pc'[u] = pc[u] /\ req'[u] = req[u] /\ obj'[u] = obj[u]
        /\ UNCHANGED <<req, obj>>
        /\ lockedNames' = lockedNames \cup {req[w].name}
        /\ req[w].name \notin lockedNames
    BY <1>1 DEF TypeOK, LockName, Goto
  <2>3. Held(w) = {} /\ Held(w)' = {req[w].name}
    BY <2>1, <2>2 DEF Held, HoldsName, HoldsGateway
  <2> QED BY <2>1, <2>2, <2>3, OthersSame DEF LockMove, TakesName
<1>2. CASE LockGateway(w)
  <2>1. obj[w].gateway \in Deployments /\ Composite(obj[w])
    BY <1>2 DEF TypeOK, WorkerOK, LockGateway, Composite, CRObjects
  <2>2. req[w] \in CRs /\ req[w].name \in Names
    BY <1>2, RequestTypes DEF TypeOK, WorkerOK, LockGateway
  <2>3. /\ pc[w] = "wantGateway" /\ pc'[w] = "priority"
        /\ \A u \in Workers \ {w} :
             pc'[u] = pc[u] /\ req'[u] = req[u] /\ obj'[u] = obj[u]
        /\ UNCHANGED <<req, obj>>
        /\ lockedNames' = lockedNames \cup {obj[w].gateway}
        /\ obj[w].gateway \notin lockedNames
    BY <1>2 DEF TypeOK, LockGateway, Goto
  <2>4. Held(w)' = Held(w) \cup {obj[w].gateway}
    BY <2>1, <2>3 DEF Held, HoldsName, HoldsGateway, Composite
  <2>5. Held(w) = {req[w].name}
    BY <2>2, <2>3 DEF Held, HoldsName, HoldsGateway
  <2> QED
    BY <2>1, <2>2, <2>3, <2>4, <2>5, OthersSame, NamesDisjoint
    DEF LockMove, TakesGateway
<1> QED BY <1>1, <1>2

LEMMA ApplyLocks ==
  ASSUME TypeOK, NEW w \in Workers,
         CheckPriority(w) \/ WriteDeployment(w) \/ DropFacade(w)
  PROVE  LockMove(w)
<1>1. CASE CheckPriority(w)
  <2>1. /\ pc[w] = "priority" /\ pc'[w] \in {"write", "dropFacade"}
        /\ UNCHANGED <<lockedNames, req, obj>>
        /\ \A u \in Workers \ {w} :
             pc'[u] = pc[u] /\ req'[u] = req[u] /\ obj'[u] = obj[u]
    BY <1>1 DEF TypeOK, CheckPriority, Goto
  <2>2. Held(w)' = Held(w)
    BY <2>1 DEF Held, HoldsName, HoldsGateway, Composite
  <2> QED BY <2>1, <2>2, OthersSame DEF LockMove, Keeps
<1>2. CASE WriteDeployment(w)
  <2>1. ASSUME ~Requeue(w)
        PROVE  /\ pc[w] = "write"
               /\ pc'[w] = IF Composite(obj[w]) THEN "dropFacade" ELSE "finish"
               /\ UNCHANGED <<lockedNames, req, obj>>
               /\ \A u \in Workers \ {w} :
                    pc'[u] = pc[u] /\ req'[u] = req[u] /\ obj'[u] = obj[u]
    BY <1>2, <2>1 DEF TypeOK, WriteDeployment, Goto
  <2>2. ASSUME ~Requeue(w)
        PROVE  Held(w)' = Held(w)
    BY <2>1, <2>2 DEF Held, HoldsName, HoldsGateway, Composite
  <2> QED BY <2>1, <2>2, OthersSame, ReleaseLocks DEF LockMove, Keeps
<1>3. CASE DropFacade(w)
  <2> DEFINE gateways == {g \in Deployments : HoldsGateway(w) /\ g = obj[w].gateway}
  <2>1. /\ pc[w] = "dropFacade" /\ pc'[w] = "finish"
        /\ UNCHANGED <<req, obj>>
        /\ \A u \in Workers \ {w} :
             pc'[u] = pc[u] /\ req'[u] = req[u] /\ obj'[u] = obj[u]
        /\ lockedNames' = lockedNames \ gateways
    BY <1>3 DEF TypeOK, DropFacade, Goto
  <2>2. gateways = Held(w) \cap Deployments
    BY NamesDisjoint DEF Held
  <2>3. Held(w)' = Held(w) \ Deployments
    BY <2>1, NamesDisjoint DEF Held, HoldsName, HoldsGateway
  <2> QED BY <2>1, <2>2, <2>3, OthersSame DEF LockMove, ReleasesGateway
<1> QED BY <1>1, <1>2, <1>3

LEMMA WorkerLocks ==
  ASSUME TypeOK, NEW w \in Workers, Dequeue(w) \/ WorkerStep(w) \/ Fail(w)
  PROVE  LockMove(w)
<1>1. CASE EgressNoOp(w) \/ Finish(w) \/ Fail(w)
  BY <1>1, ReleaseLocks DEF EgressNoOp, Finish, Fail
<1> QED
  BY <1>1, CleanupLocks, BeginLocks, AcquireLocks, ApplyLocks DEF WorkerStep

\* The other steps leave the workers alone, or lose them all.
LEMMA OtherLocks ==
  ASSUME [Next]_vars, \A w \in Workers : ~(Dequeue(w) \/ WorkerStep(w) \/ Fail(w))
  PROVE  \/ lockedNames' = lockedNames /\ \A u \in Workers : Held(u)' = Held(u)
         \/ lockedNames' = {} /\ \A u \in Workers : Held(u)' = {}
<1>1. ASSUME UNCHANGED <<lockedNames, pc, req, obj>>
      PROVE  lockedNames' = lockedNames /\ \A u \in Workers : Held(u)' = Held(u)
  BY <1>1, HeldSame
<1>2. CASE UNCHANGED vars
  BY <1>1, <1>2 DEF vars, workerVars
<1>3. ASSUME NEW c \in CRs, CreateCR(c) \/ UpdateCR(c) \/ DeleteCR(c)
      PROVE  UNCHANGED <<lockedNames, pc, req, obj>>
  BY <1>3 DEF CreateCR, UpdateCR, DeleteCR, Change, workerVars
<1>4. ASSUME NEW kind \in Kinds, SyncCRs(kind)
      PROVE  UNCHANGED <<lockedNames, pc, req, obj>>
  BY <1>4 DEF SyncCRs, workerVars
<1>5. CASE SyncDeployments
  BY <1>1, <1>5 DEF SyncDeployments, workerVars
<1>6. ASSUME NEW g \in Deployments, CollectGarbage(g)
      PROVE  UNCHANGED <<lockedNames, pc, req, obj>>
  BY <1>6 DEF CollectGarbage, workerVars
<1>7. CASE Restart
  <2>1. lockedNames' = {} /\ \A u \in Workers : pc'[u] = "idle"
    BY <1>7 DEF Restart
  <2> QED BY <2>1 DEF Held, HoldsName, HoldsGateway
<1>8. CASE Rest
  BY <1>2, <1>8 DEF Rest
<1> QED BY <1>1, <1>2, <1>3, <1>4, <1>5, <1>6, <1>7, <1>8 DEF Next

LEMMA InitLocks == Init => LocksExact
<1> SUFFICES ASSUME Init PROVE LocksExact
  OBVIOUS
<1>1. lockedNames = {} /\ \A w \in Workers : pc[w] = "idle"
  BY DEF Init
<1>2. \A w \in Workers : Held(w) = {}
  BY <1>1 DEF Held, HoldsName, HoldsGateway
<1> QED BY <1>1, <1>2 DEF LocksExact

\* What a worker takes nobody holds, so the others' locks stay apart from it.
LEMMA LockMoveInv ==
  ASSUME LocksExact, NEW w \in Workers, LockMove(w)
  PROVE  LocksExact'
<1>1. /\ lockedNames' = (lockedNames \ Held(w)) \cup Held(w)'
      /\ (Held(w)' \ Held(w)) \cap lockedNames = {}
  <2>1. Held(w) \subseteq lockedNames
    BY DEF LocksExact
  <2> QED
    BY <2>1, HeldNames
    DEF LockMove, Keeps, TakesName, TakesGateway, ReleasesAll, ReleasesGateway
<1>2. \A u \in Workers \ {w} : Held(u)' = Held(u)
  BY DEF LockMove
<1>3. ASSUME NEW u \in Workers, NEW t \in Workers, u # t
      PROVE  Held(u)' \cap Held(t)' = {}
  BY <1>1, <1>2, <1>3 DEF LocksExact
<1>4. ASSUME NEW n \in lockedNames' PROVE \E u \in Workers : n \in Held(u)'
  BY <1>1, <1>2 DEF LocksExact
<1>5. ASSUME NEW u \in Workers, NEW n \in Held(u)' PROVE n \in lockedNames'
  BY <1>1, <1>2 DEF LocksExact
<1>6. lockedNames' = UNION {Held(u)' : u \in Workers}
  BY <1>4, <1>5
<1> QED BY <1>3, <1>6 DEF LocksExact

LEMMA LockStep == TypeOK /\ LocksExact /\ [Next]_vars => LocksExact'
BY WorkerLocks, LockMoveInv, OtherLocks DEF LocksExact

LEMMA LocksAreExact == Spec => []LocksExact
<1>1. Init => TypeOK /\ LocksExact
  BY InitTypes, InitLocks
<1>2. TypeOK /\ LocksExact /\ [Next]_vars => (TypeOK /\ LocksExact)'
  BY TypeStep, LockStep
<1> QED BY <1>1, <1>2, PTL DEF Spec

\* Who is waited for while it waits itself waits for a gateway, and who holds a
\* gateway waits no more.
LEMMA ExactLocksEnd == ASSUME TypeOK, LocksExact PROVE WaitsEnd
<1> SUFFICES ASSUME NEW w \in Workers, Blocked(w)
             PROVE  \E v \in Workers :
                      /\ Awaited(w) \in Held(v)
                      /\ Blocked(v) => \E u \in Workers : Awaited(v) \in Held(u) /\ ~Blocked(u)
  BY DEF WaitsEnd
<1>1. ASSUME NEW x \in Workers, Blocked(x)
      PROVE  \E y \in Workers : Awaited(x) \in Held(y)
  BY <1>1 DEF Blocked, LocksExact
<1>2. PICK v \in Workers : Awaited(w) \in Held(v)
  BY <1>1
<1> SUFFICES ASSUME Blocked(v)
             PROVE  \E u \in Workers : Awaited(v) \in Held(u) /\ ~Blocked(u)
  BY <1>2
<1>3. pc[v] = "wantGateway"
  BY <1>2 DEF Blocked, Held, HoldsName, HoldsGateway
<1>4. Awaited(v) = obj[v].gateway /\ obj[v].gateway \in Deployments
  BY <1>3 DEF Awaited, TypeOK, WorkerOK, Composite, CRObjects
<1>5. PICK u \in Workers : Awaited(v) \in Held(u)
  BY <1>1
<1>6. HoldsGateway(u)
  BY <1>4, <1>5, NamesDisjoint DEF Held
<1>7. ~Blocked(u)
  BY <1>6 DEF HoldsGateway, Blocked
<1> QED BY <1>5, <1>7

\* lockedNames is exactly what the workers hold, no two workers hold the same CR
\* name or the same gateway, and every chain of waits ends at a worker that goes
\* on, on any path through Reconcile, failures and restarts included, for any
\* number of workers.
THEOREM LocksCorrect == Spec => []LockInv
<1>1. TypeOK /\ LocksExact => LockInv
  BY ExactLocksEnd DEF LockInv
<1> QED BY <1>1, TypeCorrect, LocksAreExact, PTL

-----------------------------------------------------------------------------
(* Routers                                                                 *)

\* How a step can change a Deployment's object: mark its annotation, delete
\* its label, write it, or remove it.
LEMMA DeploymentChange ==
  ASSUME TypeOK, [Next]_vars, NEW g \in Deployments, dep'[g] # dep[g]
  PROVE  \/ dep'[g] = None
         \/ /\ dep[g] # None
            /\ dep[g] \in DeploymentObjects
            /\ \E last : dep'[g] = [dep[g] EXCEPT !.last = last]
         \/ /\ dep[g] # None
            /\ dep[g] \in DeploymentObjects
            /\ dep'[g] = [dep[g] EXCEPT !.label = None]
         \/ \E w \in Workers :
              /\ WriteDeployment(w)
              /\ g = Target(req[w], obj[w])
              /\ ~Conflict(g)
              /\ dep'[g] = Rendered(w, g)
<1>1. ASSUME NEW w \in Workers, MarkLastApplied(w)
      PROVE  /\ dep[g] # None
             /\ dep[g] \in DeploymentObjects
             /\ \E last : dep'[g] = [dep[g] EXCEPT !.last = last]
  <2>1. PICK m \in marks[w] :
          /\ depCache[m.router] # None
          /\ ~Conflict(m.router)
          /\ dep' = [dep EXCEPT ![m.router] = [@ EXCEPT !.last =
                       [cr |-> m.last.cr, deleted |-> TRUE]]]
    BY <1>1 DEF MarkLastApplied
  <2>2. m.router = g
    BY <2>1 DEF TypeOK
  <2> QED BY <2>1, <2>2 DEF TypeOK, Conflict
<1>2. ASSUME NEW w \in Workers, DeleteMasterCRLabel(w)
      PROVE  /\ dep[g] # None
             /\ dep[g] \in DeploymentObjects
             /\ dep'[g] = [dep[g] EXCEPT !.label = None]
  <2>1. PICK h \in unlabels[w] :
          /\ depCache[h] # None
          /\ ~Conflict(h)
          /\ dep' = [dep EXCEPT ![h] = [@ EXCEPT !.label = None]]
    BY <1>2 DEF DeleteMasterCRLabel
  <2>2. h = g
    BY <2>1 DEF TypeOK
  <2> QED BY <2>1, <2>2 DEF TypeOK, Conflict
<1>3. ASSUME NEW w \in Workers, DeleteMeshRouter(w) \/ DropFacade(w)
      PROVE  dep'[g] = None
  BY <1>3 DEF TypeOK, DeleteMeshRouter, DropFacade
<1>4. ASSUME NEW w \in Workers, WriteDeployment(w)
      PROVE  /\ g = Target(req[w], obj[w])
             /\ ~Conflict(g)
             /\ dep'[g] = Rendered(w, g)
  BY <1>4, RenderedType DEF TypeOK, WriteDeployment
<1>5. ASSUME NEW h \in Deployments, CollectGarbage(h)
      PROVE  dep'[g] = None
  BY <1>5 DEF TypeOK, CollectGarbage
<1>6. ~UNCHANGED dep
  OBVIOUS
<1>7. CASE UNCHANGED vars
  BY <1>6, <1>7 DEF vars
<1>8. ASSUME NEW w \in Workers, Dequeue(w) \/ WorkerStep(w) \/ Fail(w)
      PROVE  \/ MarkLastApplied(w) \/ DeleteMasterCRLabel(w)
             \/ DeleteMeshRouter(w) \/ DropFacade(w) \/ WriteDeployment(w)
  BY <1>6, <1>8
  DEF WorkerStep, Dequeue, LockName, EgressNoOp, PlanCleanup, BeginDelete,
      BeginApply, LockGateway, CheckPriority, Finish, Fail
<1>9. ASSUME NEW c \in CRs, CreateCR(c) \/ UpdateCR(c) \/ DeleteCR(c) PROVE FALSE
  BY <1>6, <1>9 DEF CreateCR, UpdateCR, DeleteCR, Change
<1>10. ASSUME NEW kind \in Kinds, SyncCRs(kind) PROVE FALSE
  BY <1>6, <1>10 DEF SyncCRs
<1>11. CASE SyncDeployments \/ Restart \/ Rest
  BY <1>6, <1>11 DEF SyncDeployments, Restart, Rest, vars
<1> QED
  BY <1>1, <1>2, <1>3, <1>4, <1>5, <1>7, <1>8, <1>9, <1>10, <1>11 DEF Next

\* No step of the reconciler, whoever it races with, takes an owner from a
\* Deployment that stays: a CR that once configured a router keeps it from
\* the collector.
THEOREM OwnersAreKept == Spec => OwnersKept
<1> DEFINE Kept == \A g \in Deployments : dep[g] # None /\ dep'[g] # None
                      => dep[g].owners \subseteq dep'[g].owners
<1>1. TypeOK /\ [Next]_vars => Kept
  <2> SUFFICES ASSUME TypeOK, [Next]_vars,
                      NEW g \in Deployments, dep[g] # None, dep'[g] # None
               PROVE  dep[g].owners \subseteq dep'[g].owners
    OBVIOUS
  <2>1. CASE dep'[g] = dep[g]
    BY <2>1
  <2>2. ASSUME dep[g] \in DeploymentObjects,
               NEW last, dep'[g] = [dep[g] EXCEPT !.last = last]
        PROVE  dep[g].owners \subseteq dep'[g].owners
    BY <2>2 DEF DeploymentObjects
  <2>3. CASE dep[g] \in DeploymentObjects /\ dep'[g] = [dep[g] EXCEPT !.label = None]
    BY <2>3 DEF DeploymentObjects
  <2>4. ASSUME NEW w \in Workers, ~Conflict(g), dep'[g] = Rendered(w, g)
        PROVE  dep[g].owners \subseteq dep'[g].owners
    BY <2>4 DEF Conflict, Rendered
  <2> QED BY <2>1, <2>2, <2>3, <2>4, DeploymentChange
<1>2. TypeOK /\ [Next]_vars => [Kept]_vars
  BY <1>1
<1> QED BY <1>2, TypeCorrect, PTL DEF Spec, OwnersKept

\* The master label and the owners of a router always agree with the CR its
\* template came from.
THEOREM ProvenanceCorrect == Spec => []Provenance
<1>1. Init => Provenance
  BY DEF Init, Provenance
<1>2. TypeOK /\ Provenance /\ [Next]_vars => Provenance'
  <2> SUFFICES ASSUME TypeOK, Provenance, [Next]_vars,
                      NEW g \in Deployments, dep'[g] # None
               PROVE  /\ dep'[g].label \in {None, dep'[g].template.name}
                      /\ \E uid \in dep'[g].owners : uid.cr = dep'[g].template
    BY DEF Provenance
  <2>1. CASE dep'[g] = dep[g]
    BY <2>1 DEF Provenance
  <2>2. ASSUME dep[g] # None, dep[g] \in DeploymentObjects,
               NEW last, dep'[g] = [dep[g] EXCEPT !.last = last]
        PROVE  /\ dep'[g].label \in {None, dep'[g].template.name}
               /\ \E uid \in dep'[g].owners : uid.cr = dep'[g].template
    BY <2>2 DEF Provenance, DeploymentObjects
  <2>3. CASE /\ dep[g] # None /\ dep[g] \in DeploymentObjects
             /\ dep'[g] = [dep[g] EXCEPT !.label = None]
    BY <2>3 DEF Provenance, DeploymentObjects
  <2>4. ASSUME NEW w \in Workers, dep'[g] = Rendered(w, g)
        PROVE  /\ dep'[g].label \in {None, dep'[g].template.name}
               /\ \E uid \in dep'[g].owners : uid.cr = dep'[g].template
    <3> DEFINE uid == [cr |-> req[w], inc |-> obj[w].inc]
    <3>1. uid \in dep'[g].owners /\ uid.cr = dep'[g].template
      BY <2>4 DEF Rendered
    <3>2. dep'[g].label \in {None, dep'[g].template.name}
      BY <2>4 DEF Rendered
    <3> QED BY <3>1, <3>2
  <2> QED BY <2>1, <2>2, <2>3, <2>4, DeploymentChange
<1> QED BY <1>1, <1>2, TypeCorrect, TypeStep, PTL DEF Spec

\* Only the holder of a router's lock gives the router a new template.
THEOREM ConfiguredByHolder == Spec => ConfiguredUnderLock
<1> DEFINE UnderLock ==
      \A g \in Deployments :
        /\ dep[g] # None /\ dep'[g] # None
        /\ dep'[g].mesh /\ dep'[g].template # dep[g].template
        => \E w \in Workers : /\ g \in Held(w) \cap lockedNames
                               /\ dep'[g].template = req[w]
<1>1. TypeOK /\ LocksExact /\ [Next]_vars => UnderLock
  <2> SUFFICES ASSUME TypeOK, LocksExact, [Next]_vars, NEW g \in Deployments,
                      dep[g] # None, dep'[g] # None, dep'[g].mesh,
                      dep'[g].template # dep[g].template
               PROVE  \E w \in Workers : /\ g \in Held(w) \cap lockedNames
                                          /\ dep'[g].template = req[w]
    OBVIOUS
  <2>1. ~ \E last : /\ dep[g] \in DeploymentObjects
                    /\ dep'[g] = [dep[g] EXCEPT !.last = last]
    BY DEF DeploymentObjects
  <2>2. ~ (/\ dep[g] \in DeploymentObjects
           /\ dep'[g] = [dep[g] EXCEPT !.label = None])
    BY DEF DeploymentObjects
  <2>3. PICK w \in Workers : /\ WriteDeployment(w)
                             /\ g = Target(req[w], obj[w])
                             /\ dep'[g] = Rendered(w, g)
    BY <2>1, <2>2, DeploymentChange
  <2>4. Composite(obj[w])
    BY <2>3 DEF Rendered
  <2>5. g \in Held(w)
    BY <2>3, <2>4 DEF WriteDeployment, Held, HoldsGateway, Target
  <2>6. g \in lockedNames
    BY <2>5 DEF LocksExact
  <2>7. dep'[g].template = req[w]
    BY <2>3 DEF Rendered
  <2> QED BY <2>5, <2>6, <2>7
<1>2. TypeOK /\ LocksExact /\ [Next]_vars => [UnderLock]_vars
  BY <1>1
<1> QED BY <1>2, TypeCorrect, LocksAreExact, PTL DEF Spec, ConfiguredUnderLock

-----------------------------------------------------------------------------
(* The reconciler implements ReconcileLocks.                               *)

LEMMA HolderIs ==
  ASSUME LocksExact, NEW n \in Names \cup Deployments
  PROVE  /\ \A w \in Workers : Holder[n] = w <=> n \in Held(w)
         /\ Holder[n] = None <=> n \notin lockedNames
         /\ Holder[n] \in Workers \cup {None}
<1>1. CASE n \notin lockedNames
  <2>1. Holder[n] = None
    BY <1>1 DEF Holder
  <2>2. \A w \in Workers : n \notin Held(w)
    BY <1>1 DEF LocksExact
  <2> QED BY <1>1, <2>1, <2>2, NoneAssumption
<1>2. CASE n \in lockedNames
  <2>1. PICK w \in Workers : n \in Held(w)
    BY <1>2 DEF LocksExact
  <2>2. \A u \in Workers : n \in Held(u) => u = w
    BY <2>1 DEF LocksExact
  <2>3. (CHOOSE u \in Workers : n \in Held(u)) = w
    BY <2>1, <2>2
  <2>4. Holder[n] = w
    BY <1>2, <2>3 DEF Holder
  <2> QED BY <1>2, <2>1, <2>2, <2>4, NoneAssumption
<1> QED BY <1>1, <1>2

LEMMA HolderInv ==
  LocksExact => \A n \in Names \cup Deployments :
               /\ \A w \in Workers : Holder[n] = w <=> n \in Held(w)
               /\ Holder[n] = None <=> n \notin lockedNames
               /\ Holder[n] \in Workers \cup {None}
BY HolderIs

\* The same of the primed state.
LEMMA HolderPrime ==
  LocksExact' => \A n \in Names \cup Deployments :
                /\ \A w \in Workers : Holder'[n] = w <=> n \in Held(w)'
                /\ Holder'[n] = None <=> n \notin lockedNames'
                /\ Holder'[n] \in Workers \cup {None}
<1>1. (LocksExact => \A n \in Names \cup Deployments :
                    /\ \A w \in Workers : Holder[n] = w <=> n \in Held(w)
                    /\ Holder[n] = None <=> n \notin lockedNames
                    /\ Holder[n] \in Workers \cup {None})'
  BY HolderInv, PTL
<1> QED BY <1>1

LEMMA HeldByIs ==
  ASSUME LocksExact, NEW w \in Workers
  PROVE  Locks!HeldBy(w) = Held(w)
BY HolderIs, HeldNames DEF Locks!HeldBy

\* A step of w moves the holder of a name to w, away from w, or not at all.
LEMMA HolderChange ==
  ASSUME LocksExact, NEW w \in Workers, LockMove(w)
  PROVE  Holder' = [n \in Names \cup Deployments |->
                      IF n \in Held(w)' THEN w
                      ELSE IF n \in Held(w) THEN None ELSE Holder[n]]
<1>1. LocksExact'
  BY LockMoveInv
<1>2. \A n \in Names \cup Deployments :
        /\ \A u \in Workers : Holder'[n] = u <=> n \in Held(u)'
        /\ Holder'[n] = None <=> n \notin lockedNames'
        /\ Holder'[n] \in Workers \cup {None}
  BY <1>1, HolderPrime
<1>3. ASSUME NEW n \in Names \cup Deployments
      PROVE  Holder'[n] = IF n \in Held(w)' THEN w
                          ELSE IF n \in Held(w) THEN None ELSE Holder[n]
  <2>1. CASE n \in Held(w)'
    BY <1>2, <2>1
  <2>2. CASE n \notin Held(w)' /\ n \in Held(w)
    <3>1. \A u \in Workers : n \notin Held(u)'
      BY <2>2 DEF LockMove, LocksExact
    <3> QED BY <1>2, <2>2, <3>1
  <2>3. CASE n \notin Held(w)' /\ n \notin Held(w)
    <3>1. \A u \in Workers : n \in Held(u)' <=> n \in Held(u)
      BY <2>3 DEF LockMove
    <3> QED BY <1>2, <2>3, <3>1, HolderIs
  <2> QED BY <2>1, <2>2, <2>3
<1>4. Holder' = [n \in Names \cup Deployments |-> Holder'[n]]
  BY DEF Holder
<1> QED BY <1>3, <1>4

LEMMA StepImplementsLocks ==
  ASSUME TypeOK, LocksExact, [Next]_vars
  PROVE  [Locks!Next]_Holder
<1>1. ASSUME NEW w \in Workers, Dequeue(w) \/ WorkerStep(w) \/ Fail(w)
      PROVE  [Locks!Next]_Holder
  <2>1. LockMove(w)
    BY <1>1, WorkerLocks
  <2>2. Holder' = [n \in Names \cup Deployments |->
                     IF n \in Held(w)' THEN w
                     ELSE IF n \in Held(w) THEN None ELSE Holder[n]]
    BY <2>1, HolderChange
  <2>3. Locks!HeldBy(w) = Held(w)
    BY HeldByIs
  <2>4. CASE Keeps(w)
    <3>1. \A n \in Names \cup Deployments : n \in Held(w) => Holder[n] = w
      BY HolderIs
    <3>2. Holder' = [n \in Names \cup Deployments |-> Holder[n]]
      BY <2>2, <2>4, <3>1 DEF Keeps
    <3> QED BY <3>2 DEF Holder
  <2>5. CASE TakesName(w)
    <3>1. PICK n \in Names : /\ n \notin lockedNames
                             /\ Held(w) = {} /\ Held(w)' = {n}
      BY <2>5 DEF TakesName
    <3>2. Holder[n] = None
      BY <3>1, HolderIs
    <3>3. Locks!LockName(w, n)
      BY <2>2, <2>3, <3>1, <3>2 DEF Locks!LockName, Locks!Assign
    <3> QED BY <3>3 DEF Locks!Next
  <2>6. CASE TakesGateway(w)
    <3>1. PICK g \in Deployments : /\ g \notin lockedNames
                                   /\ Held(w) \cap Names # {}
                                   /\ Held(w) \cap Deployments = {}
                                   /\ Held(w)' = Held(w) \cup {g}
      BY <2>6 DEF TakesGateway
    <3>2. Holder[g] = None
      BY <3>1, HolderIs
    <3>3. \A n \in Held(w) : Holder[n] = w
      BY HolderIs, HeldNames
    <3>4. Holder' = [n \in Names \cup Deployments |->
                       IF n \in {g} THEN w ELSE Holder[n]]
      BY <2>2, <3>1, <3>3
    <3>5. Locks!LockGateway(w, g)
      BY <2>3, <3>1, <3>2, <3>4 DEF Locks!LockGateway, Locks!Assign
    <3> QED BY <3>5 DEF Locks!Next
  <2>7. CASE ReleasesAll(w)
    <3>1. Locks!Assign(Locks!HeldBy(w), None)
      BY <2>2, <2>3, <2>7 DEF ReleasesAll, Locks!Assign
    <3> QED BY <3>1 DEF Locks!Next, Locks!Unlock
  <2>8. CASE ReleasesGateway(w)
    <3>1. \A n \in Held(w) : Holder[n] = w
      BY HolderIs, HeldNames
    <3>2. Locks!Assign(Locks!HeldBy(w) \cap Deployments, None)
      BY <2>2, <2>3, <2>8, <3>1 DEF ReleasesGateway, Locks!Assign
    <3> QED BY <3>2 DEF Locks!Next, Locks!Unlock
  <2> QED BY <2>1, <2>4, <2>5, <2>6, <2>7, <2>8 DEF LockMove
<1>2. ASSUME lockedNames' = lockedNames, \A u \in Workers : Held(u)' = Held(u)
      PROVE  Holder' = Holder
  <2>1. LocksExact'
    BY <1>2 DEF LocksExact
  <2>2. \A n \in Names \cup Deployments : Holder'[n] = Holder[n]
    BY <1>2, <2>1, HolderPrime, HolderInv DEF LocksExact
  <2>3. /\ Holder = [n \in Names \cup Deployments |-> Holder[n]]
        /\ Holder' = [n \in Names \cup Deployments |-> Holder'[n]]
    BY DEF Holder
  <2> QED BY <2>2, <2>3
<1>3. ASSUME lockedNames' = {}
      PROVE  Locks!Crash
  BY <1>3 DEF Holder, Locks!Crash, Locks!Assign
<1> QED BY <1>1, <1>2, <1>3, OtherLocks DEF Locks!Next

\* The reconciler's locking implements ReconcileLocks: exclusive locks, a CR
\* name before a gateway, at most one of each, and no wait under a gateway.
THEOREM ImplementsLocks == Spec => LocksImplemented
<1>1. Init => Locks!Init
  <2> SUFFICES ASSUME Init PROVE Locks!Init
    OBVIOUS
  <2>1. lockedNames = {}
    BY DEF Init
  <2> QED BY <2>1 DEF Holder, Locks!Init
<1>2. TypeOK /\ LocksExact /\ [Next]_vars => [Locks!Next]_Holder
  BY StepImplementsLocks
<1> QED
  BY <1>1, <1>2, TypeCorrect, LocksAreExact, PTL
  DEF Spec, LocksImplemented, Locks!Spec
=============================================================================
