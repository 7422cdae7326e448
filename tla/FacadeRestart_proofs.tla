------------------------ MODULE FacadeRestart_proofs ------------------------
(***************************************************************************)
(* Proofs about FacadeReconciler after a restart of the operator, and of   *)
(* core-egress-gateway, for every set of CRs, Deployments and workers, and *)
(* every bound.                                                            *)
(***************************************************************************)
EXTENDS FacadeReconciler_proofs

Facades == {FacadeOf[n] : n \in Names}

\* No composite gateway has the name of a facade gateway.
Apart == \A s \in Specs : s.gateway \notin Facades

\* No two CRs, of one name and different kinds, have one facade gateway.
Unique == \A c, d \in CRs : FacadeOf[c.name] = FacadeOf[d.name] => c = d

\* egress-gateway, which may yield its Deployment to another CR, is not there.
NoEgress == \A c \in CRs : c.name # EgressGateway

-----------------------------------------------------------------------------
(* The inductive invariant                                                 *)

Live(c) == crs[c] # None
Uses(c, g) == Live(c) /\ Target(c, crs[c]) = g
Used(g) == \E c \in CRs : Uses(c, g)

AtWork(c, places) == c \in queue \/ \E w \in Workers : req[w] = c /\ pc[w] \in places
BeforeWrite == {"wantName", "start", "cleanup", "wantGateway", "priority", "write"}
BeforeDrop == BeforeWrite \cup {"dropFacade"}

\* A reconcile is to come that cleans g up.
ToClean(g) ==
  \/ queue # {}
  \/ \E w \in Workers : \/ pc[w] \in {"wantName", "start"}
                        \/ pc[w] = "cleanup" /\ g \in dels[w]

\* Whatever users do, routers and facade gateways keep apart.
WorkerApart(w) ==
  /\ obj[w] # None => obj[w].gateway \notin Facades
  /\ dels[w] \cap Facades = {}
  /\ pc[w] = "dropFacade" => obj[w] = None \/ Composite(obj[w])
CRApart(c) ==
  \A o \in {crs[c], crCache[c]} \ {None} : o.gateway \notin Facades
ObjectApart(d, g) ==
  d # None =>
    /\ d.mesh <=> g \notin Facades
    /\ g \in Facades => \A uid \in d.owners : FacadeOf[uid.cr.name] = g
DeploymentApart(g) == ObjectApart(dep[g], g) /\ ObjectApart(depCache[g], g)

\* What is true besides since a restart, while users change nothing.
WorkerCurrent(w) ==
  /\ pc[w] # "idle" => obj[w] = crs[req[w]]
  /\ \A g \in dels[w] : ~Used(g)
CRServed(c) ==
  /\ crCache[c] = crs[c]
  /\ Live(c) => \/ AtWork(c, BeforeWrite)
                \/ dep[Target(c, crs[c])] # None
  /\ Composite(crs[c]) => \/ AtWork(c, BeforeDrop)
                          \/ dep[FacadeOf[c.name]] = None
DeploymentKept(g) ==
  /\ ~Collectable(g)
  /\ Used(g) => depCache[g] = None \/ dep[g] # None
  /\ ~Used(g) => dep[g] = None \/ depCache[g] # None
  /\ ~Used(g) /\ g \notin Facades => dep[g] = None \/ ToClean(g)

KeptApart ==
  /\ \A w \in Workers : WorkerApart(w)
  /\ \A c \in CRs : CRApart(c)
  /\ \A g \in Deployments : DeploymentApart(g)
Recovering ==
  /\ \A w \in Workers : WorkerCurrent(w)
  /\ \A c \in CRs : CRServed(c)
  /\ \A g \in Deployments : DeploymentKept(g)
IInv == KeptApart /\ (recovered => Recovering)

-----------------------------------------------------------------------------
(* What the step of a worker does to its place and its plan                *)

Others(w) ==
  \A u \in Workers \ {w} :
    pc'[u] = pc[u] /\ req'[u] = req[u] /\ obj'[u] = obj[u] /\ dels'[u] = dels[u]

Enters(w) ==
  /\ pc[w] = "idle"
  /\ \E c \in queue :
       /\ queue' = queue \ {c}
       /\ pc'[w] = "wantName" /\ req'[w] = c /\ obj'[w] = crCache[c]
       /\ dels'[w] = dels[w]

Leaves(w) ==
  /\ pc[w] # "idle" /\ pc'[w] = "idle" /\ req'[w] = None /\ obj'[w] = None
  /\ dels'[w] = {}
  /\ \/ queue' = queue \cup {req[w]}
     \/ queue' = queue /\ (pc[w] = "finish" \/ YieldsToCoreEgress(w))

Stays(w) ==
  /\ pc[w] # "idle" /\ req'[w] = req[w] /\ obj'[w] = obj[w] /\ queue' = queue

Plans(w) ==
  /\ Stays(w) /\ pc[w] = "start" /\ pc'[w] = "cleanup" /\ ~YieldsToCoreEgress(w)
  /\ dels'[w] = {g \in MeshRouters : ~Referenced(g)}

Cleans(w) ==
  /\ Stays(w) /\ pc[w] = "cleanup" /\ pc'[w] = "cleanup"
  /\ dels'[w] \subseteq dels[w]
  /\ \A g \in dels[w] \ dels'[w] : depCache[g] = None \/ dep'[g] = None

Begins(w) ==
  /\ pc[w] = "cleanup" /\ dels[w] = {} /\ dels'[w] = {}
  /\ req'[w] = req[w] /\ queue' = queue
  /\ obj'[w] \in {obj[w], crs[req[w]]}
  /\ \/ obj'[w] = None /\ pc'[w] = "dropFacade"
     \/ obj'[w] # None /\ pc'[w] \in {"wantGateway", "write"}

Goes(w) ==
  /\ Stays(w) /\ dels'[w] = dels[w]
  /\ \/ pc[w] = "wantName" /\ pc'[w] = "start"
     \/ pc[w] \in {"wantGateway", "priority"} /\ pc'[w] \in {"priority", "write"}
     \/ /\ pc[w] = "priority" /\ pc'[w] = "dropFacade"
        /\ Composite(obj[w]) /\ depCache[Target(req[w], obj[w])] # None
     \/ /\ pc[w] = "write" /\ dep'[Target(req[w], obj[w])] # None
        /\ pc'[w] = IF Composite(obj[w]) THEN "dropFacade" ELSE "finish"
     \/ /\ pc[w] = "dropFacade" /\ pc'[w] = "finish"
        /\ LET g == FacadeOf[req[w].name]
           IN dep'[g] = None \/ depCache[g] = None \/ depCache[g].mesh

Moves(w) ==
  /\ Others(w)
  /\ Enters(w) \/ Leaves(w) \/ Plans(w) \/ Cleans(w) \/ Begins(w) \/ Goes(w)

\* A Deployment that has been written is there.
LEMMA WrittenIsSome ==
  ASSUME TypeOK, NEW w \in Workers, pc[w] = "write"
  PROVE  Rendered(w, Target(req[w], obj[w])) # None
BY RenderedType, ObjectsAssumption

LEMMA ReleaseMove ==
  ASSUME TypeOK, NEW w \in Workers, pc[w] # "idle",
         \/ Requeue(w)
         \/ Done(w) /\ (pc[w] = "finish" \/ YieldsToCoreEgress(w))
  PROVE  Moves(w)
BY DEF TypeOK, Requeue, Done, Release, Moves, Others, Leaves

LEMMA CleanupMove ==
  ASSUME TypeOK, NEW w \in Workers,
         \/ PlanCleanup(w) \/ MarkLastApplied(w) \/ DeleteMeshRouter(w)
         \/ DeleteMasterCRLabel(w)
  PROVE  Moves(w)
<1>1. CASE PlanCleanup(w)
  <2>1. Others(w) /\ Stays(w)
    BY <1>1 DEF TypeOK, PlanCleanup, Goto, Others, Stays
  <2>2. dels'[w] = {g \in MeshRouters : ~Referenced(g)}
    BY <1>1 DEF TypeOK, PlanCleanup
  <2>3. pc[w] = "start" /\ pc'[w] = "cleanup" /\ ~YieldsToCoreEgress(w)
    BY <1>1 DEF TypeOK, PlanCleanup, Goto
  <2> QED BY <2>1, <2>2, <2>3 DEF Moves, Plans
<1>2. ASSUME UNCHANGED <<queue, pc, req, obj, dels>>, pc[w] = "cleanup"
      PROVE  Moves(w)
  BY <1>2 DEF Moves, Others, Cleans, Stays
<1>3. CASE MarkLastApplied(w)
  <2>1. pc[w] = "cleanup"
    BY <1>3 DEF MarkLastApplied
  <2>2. Requeue(w) \/ UNCHANGED <<queue, pc, req, obj, dels>>
    BY <1>3 DEF MarkLastApplied
  <2> QED BY <1>2, <2>1, <2>2, ReleaseMove
<1>4. CASE DeleteMeshRouter(w)
  <2>1. PICK g \in dels[w] :
          /\ dep' = IF depCache[g] # None THEN [dep EXCEPT ![g] = None] ELSE dep
          /\ dels' = [dels EXCEPT ![w] = @ \ {g}]
    BY <1>4 DEF DeleteMeshRouter
  <2>2. g \in Deployments
    BY <2>1 DEF TypeOK
  <2>3. depCache[g] = None \/ dep'[g] = None
    BY <2>1, <2>2 DEF TypeOK
  <2>4. dels'[w] = dels[w] \ {g}
    BY <2>1 DEF TypeOK
  <2>5. Others(w) /\ Stays(w) /\ pc[w] = "cleanup" /\ pc'[w] = "cleanup"
    BY <1>4, <2>1 DEF TypeOK, DeleteMeshRouter, Others, Stays
  <2> QED BY <2>3, <2>4, <2>5 DEF Moves, Cleans
<1>5. CASE DeleteMasterCRLabel(w)
  <2>1. pc[w] = "cleanup"
    BY <1>5 DEF DeleteMasterCRLabel
  <2>2. Requeue(w) \/ UNCHANGED <<queue, pc, req, obj, dels>>
    BY <1>5 DEF DeleteMasterCRLabel
  <2> QED BY <1>2, <2>1, <2>2, ReleaseMove
<1> QED BY <1>1, <1>3, <1>4, <1>5

LEMMA BeginMove ==
  ASSUME TypeOK, NEW w \in Workers, BeginDelete(w) \/ BeginApply(w)
  PROVE  Moves(w)
<1>1. CASE BeginDelete(w)
  BY <1>1 DEF TypeOK, BeginDelete, CleanedUp, Goto, planVars, Moves, Others, Begins
<1>2. CASE BeginApply(w)
  <2>1. pc[w] = "cleanup" /\ dels[w] = {}
    BY <1>2 DEF BeginApply, CleanedUp
  <2>2. ASSUME NEW o \in {obj[w], crs[req[w]]} \ {None},
               obj' = [obj EXCEPT ![w] = o],
               Goto(w, IF Composite(o) THEN "wantGateway" ELSE "write"),
               UNCHANGED <<queue, req, dels>>
        PROVE  Moves(w)
    <3>1. Others(w)
      BY <2>2 DEF TypeOK, Goto, Others
    <3>2. obj'[w] = o /\ pc'[w] \in {"wantGateway", "write"}
      BY <2>2 DEF TypeOK, Goto
    <3> QED BY <2>1, <2>2, <3>1, <3>2 DEF Moves, Begins
  <2> QED BY <1>2, <2>1, <2>2, ReleaseMove DEF BeginApply, planVars
<1> QED BY <1>1, <1>2

LEMMA WorkerMove ==
  ASSUME TypeOK, NEW w \in Workers, Dequeue(w) \/ WorkerStep(w) \/ Fail(w)
  PROVE  Moves(w)
<1>1. CASE Dequeue(w)
  BY <1>1 DEF TypeOK, Dequeue, Goto, planVars, Moves, Others, Enters
<1>2. CASE LockName(w) \/ LockGateway(w)
  BY <1>2 DEF TypeOK, LockName, LockGateway, Goto, planVars, Moves, Others, Goes,
              Stays
<1>3. CASE CheckPriority(w)
  <2>1. Others(w) /\ Stays(w) /\ dels'[w] = dels[w]
    BY <1>3 DEF TypeOK, CheckPriority, Goto, planVars, Others, Stays
  <2>2. Composite(obj[w]) /\ Target(req[w], obj[w]) = obj[w].gateway
    BY <1>3 DEF TypeOK, WorkerOK, CheckPriority, Target
  <2>3. pc[w] = "priority"
    BY <1>3 DEF CheckPriority
  <2>4. \/ pc'[w] = "write"
        \/ pc'[w] = "dropFacade" /\ depCache[obj[w].gateway] # None
    BY <1>3 DEF TypeOK, CheckPriority, MayConfigure, Goto
  <2> QED BY <2>1, <2>2, <2>3, <2>4 DEF Moves, Goes
<1>4. CASE WriteDeployment(w)
  <2> DEFINE g == Target(req[w], obj[w])
  <2>1. CASE Requeue(w)
    BY <1>4, <2>1, ReleaseMove DEF WriteDeployment
  <2>2. CASE ~Requeue(w)
    <3>1. /\ pc[w] = "write"
          /\ dep' = [dep EXCEPT ![g] = Rendered(w, g)]
          /\ Goto(w, IF Composite(obj[w]) THEN "dropFacade" ELSE "finish")
          /\ UNCHANGED <<queue, req, obj, planVars>>
      BY <1>4, <2>2 DEF WriteDeployment
    <3>2. Others(w) /\ Stays(w) /\ dels'[w] = dels[w]
      BY <3>1 DEF TypeOK, Goto, planVars, Others, Stays
    <3>3. pc'[w] = IF Composite(obj[w]) THEN "dropFacade" ELSE "finish"
      BY <3>1 DEF TypeOK, Goto
    <3>4. dep'[g] = Rendered(w, g)
      BY <3>1, RenderedType DEF TypeOK
    <3>5. Rendered(w, g) # None
      BY <3>1, WrittenIsSome
    <3> QED BY <3>1, <3>2, <3>3, <3>4, <3>5 DEF Moves, Goes
  <2> QED BY <2>1, <2>2
<1>5. CASE DropFacade(w)
  <2> DEFINE g == FacadeOf[req[w].name]
  <2>1. Others(w) /\ Stays(w) /\ dels'[w] = dels[w]
    BY <1>5 DEF TypeOK, DropFacade, Goto, planVars, Others, Stays
  <2>2. pc[w] = "dropFacade" /\ pc'[w] = "finish"
    BY <1>5 DEF TypeOK, DropFacade, Goto
  <2>3. req[w] \in CRs
    BY <2>2 DEF TypeOK, WorkerOK
  <2>4. g \in Deployments
    BY <2>3, RequestTypes
  <2>5. dep'[g] = None \/ depCache[g] = None \/ depCache[g].mesh
    BY <1>5, <2>4 DEF TypeOK, DropFacade
  <2> QED BY <2>1, <2>2, <2>5 DEF Moves, Goes
<1>6. CASE EgressNoOp(w) \/ Finish(w)
  BY <1>6, ReleaseMove DEF EgressNoOp, Finish
<1>7. CASE Fail(w)
  BY <1>7, ReleaseMove DEF Fail
<1> QED
  BY <1>1, <1>2, <1>3, <1>4, <1>5, <1>6, <1>7, CleanupMove, BeginMove DEF WorkerStep

\* The steps of a worker that remove a Deployment, and which they remove.
LEMMA WorkerDeletes ==
  ASSUME TypeOK, NEW w \in Workers, Dequeue(w) \/ WorkerStep(w) \/ Fail(w),
         NEW g \in Deployments, dep[g] # None, dep'[g] = None
  PROVE  \/ DeleteMeshRouter(w) /\ g \in dels[w]
         \/ /\ DropFacade(w) /\ g = FacadeOf[req[w].name]
            /\ depCache[g] # None /\ ~depCache[g].mesh
<1>1. CASE DeleteMeshRouter(w)
  BY <1>1 DEF TypeOK, DeleteMeshRouter
<1>2. CASE DropFacade(w)
  BY <1>2 DEF TypeOK, DropFacade
<1>4. CASE WriteDeployment(w)
  BY <1>4, WrittenIsSome, RenderedType DEF TypeOK, WriteDeployment
<1>5. dep[g] \in DeploymentObjects
  BY DEF TypeOK
<1>6. CASE MarkLastApplied(w)
  <2>1. PICK m \in marks[w] :
          dep' = [dep EXCEPT ![m.router] = [@ EXCEPT !.last =
                    [cr |-> m.last.cr, deleted |-> TRUE]]]
    BY <1>6 DEF MarkLastApplied
  <2>2. m.router = g /\ m.last.cr \in CRs
    BY <2>1 DEF TypeOK
  <2> DEFINE last == [cr |-> m.last.cr, deleted |-> TRUE]
  <2>3. dep'[g] = [dep[g] EXCEPT !.last = last]
    BY <2>1, <2>2 DEF TypeOK
  <2>4. last \in [cr: CRs, deleted: BOOLEAN]
    BY <2>2
  <2> HIDE DEF last
  <2>5. dep'[g] \in DeploymentObjects
    BY <1>5, <2>3, <2>4 DEF DeploymentObjects
  <2> QED BY <2>5, ObjectsAssumption
<1>7. CASE DeleteMasterCRLabel(w)
  <2>1. PICK h \in unlabels[w] :
          dep' = [dep EXCEPT ![h] = [@ EXCEPT !.label = None]]
    BY <1>7 DEF DeleteMasterCRLabel
  <2>2. dep'[g] = [dep[g] EXCEPT !.label = None]
    BY <2>1 DEF TypeOK
  <2>3. dep'[g] \in DeploymentObjects
    BY <1>5, <2>2 DEF DeploymentObjects
  <2> QED BY <2>3, ObjectsAssumption
<1>8. CASE UNCHANGED dep
  BY <1>8
<1> QED
  BY <1>1, <1>2, <1>4, <1>6, <1>7, <1>8
  DEF WorkerStep, Dequeue, LockName, EgressNoOp, PlanCleanup, BeginDelete,
      BeginApply, LockGateway, CheckPriority, Finish, Fail

-----------------------------------------------------------------------------
(* Routers and facade gateways keep apart                                  *)

LEMMA FacadeIsApart ==
  ASSUME TypeOK, NEW w \in Workers, req[w] \in CRs,
         obj[w] # None => obj[w].gateway \notin Facades
  PROVE  Target(req[w], obj[w]) \in Facades <=> ~Composite(obj[w])
BY RequestTypes DEF Target, Composite, Facades

LEMMA CRsApart ==
  ASSUME Apart, TypeOK, KeptApart, [Next]_vars, NEW c \in CRs
  PROVE  CRApart(c)'
<1>1. ASSUME NEW s \in Specs, NEW n, NEW k
      PROVE  CRObject(s, n, k).gateway \notin Facades
  BY <1>1 DEF Apart, CRObject
<1>2. \A o \in {crs[c], crCache[c]} \ {None} : o.gateway \notin Facades
  BY DEF KeptApart, CRApart
<1>3. ASSUME NEW d \in CRs, CreateCR(d) \/ UpdateCR(d) \/ DeleteCR(d)
      PROVE  CRApart(c)'
  <2>1. crCache' = crCache
    BY <1>3 DEF CreateCR, UpdateCR, DeleteCR, Change, cacheVars
  <2>2. \/ crs'[c] \in {crs[c], None}
        \/ \E s \in Specs : \E n, k : crs'[c] = CRObject(s, n, k)
    BY <1>3 DEF TypeOK, CreateCR, UpdateCR, DeleteCR
  <2> QED BY <1>1, <1>2, <2>1, <2>2 DEF CRApart
<1>4. CASE UNCHANGED crs /\ crCache'[c] \in {crs[c], crCache[c]}
  BY <1>2, <1>4 DEF CRApart
<1>5. ASSUME NEW kind \in Kinds, SyncCRs(kind)
      PROVE  UNCHANGED crs /\ crCache'[c] \in {crs[c], crCache[c]}
  BY <1>5 DEF SyncCRs, envVars
<1>6. CASE Restart
  BY <1>4, <1>6 DEF Restart, envVars
<1>7. CASE UNCHANGED <<crs, crCache>>
  BY <1>4, <1>7
<1>8. ASSUME NEW w \in Workers, Dequeue(w) \/ WorkerStep(w) \/ Fail(w)
      PROVE  UNCHANGED <<crs, crCache>>
  BY <1>8
  DEF WorkerStep, Dequeue, LockName, EgressNoOp, PlanCleanup, MarkLastApplied,
      DeleteMeshRouter, DeleteMasterCRLabel, BeginDelete, BeginApply,
      LockGateway, CheckPriority, WriteDeployment, DropFacade, Finish, Fail,
      envVars, cacheVars
<1>9. CASE \/ SyncDeployments \/ Rest \/ UNCHANGED vars
           \/ \E g \in Deployments : CollectGarbage(g)
  BY <1>7, <1>9 DEF SyncDeployments, CollectGarbage, Rest, vars, envVars, cacheVars
<1> QED BY <1>3, <1>4, <1>5, <1>6, <1>7, <1>8, <1>9 DEF Next

LEMMA DeploymentsApart ==
  ASSUME TypeOK, KeptApart, [Next]_vars, NEW g \in Deployments
  PROVE  DeploymentApart(g)'
<1>1. ObjectApart(dep[g], g) /\ ObjectApart(depCache[g], g)
  BY DEF KeptApart, DeploymentApart
<1>2. ObjectApart(dep'[g], g)
  <2>1. CASE dep'[g] = dep[g] \/ dep'[g] = None
    BY <1>1, <2>1 DEF ObjectApart
  <2>2. ASSUME dep[g] # None, dep[g] \in DeploymentObjects,
               NEW last, dep'[g] = [dep[g] EXCEPT !.last = last]
        PROVE  ObjectApart(dep'[g], g)
    BY <1>1, <2>2 DEF ObjectApart, DeploymentObjects
  <2>3. CASE /\ dep[g] # None /\ dep[g] \in DeploymentObjects
             /\ dep'[g] = [dep[g] EXCEPT !.label = None]
    BY <1>1, <2>3 DEF ObjectApart, DeploymentObjects
  <2>4. ASSUME NEW w \in Workers, WriteDeployment(w),
               g = Target(req[w], obj[w]), dep'[g] = Rendered(w, g)
        PROVE  ObjectApart(dep'[g], g)
    <3>1. req[w] \in CRs /\ obj[w] # None
      BY <2>4 DEF TypeOK, WorkerOK, WriteDeployment
    <3>2. g \in Facades <=> ~Composite(obj[w])
      BY <2>4, <3>1, FacadeIsApart DEF KeptApart, WorkerApart
    <3>3. dep'[g].mesh <=> g \notin Facades
      BY <2>4, <3>2 DEF Rendered
    <3>4. ASSUME g \in Facades, NEW uid \in dep'[g].owners
          PROVE  FacadeOf[uid.cr.name] = g
      <4>1. g = FacadeOf[req[w].name]
        BY <2>4, <3>2, <3>4 DEF Target
      <4>2. dep'[g].owners = {[cr |-> req[w], inc |-> obj[w].inc]}
                \cup (IF depCache[g] = None THEN {} ELSE depCache[g].owners)
        BY <2>4 DEF Rendered
      <4>3. \/ uid.cr = req[w]
            \/ depCache[g] # None /\ uid \in depCache[g].owners
        BY <3>4, <4>2
      <4> QED BY <1>1, <3>4, <4>1, <4>3 DEF ObjectApart
    <3> QED BY <3>3, <3>4 DEF ObjectApart
  <2> QED BY <2>1, <2>2, <2>3, <2>4, DeploymentChange
<1>3. depCache'[g] \in {depCache[g], dep[g]}
  <2>1. CASE UNCHANGED depCache
    BY <2>1
  <2>2. ASSUME NEW w \in Workers, Dequeue(w) \/ WorkerStep(w) \/ Fail(w)
        PROVE  UNCHANGED depCache
    BY <2>2
    DEF WorkerStep, Dequeue, LockName, EgressNoOp, PlanCleanup, MarkLastApplied,
        DeleteMeshRouter, DeleteMasterCRLabel, BeginDelete, BeginApply,
        LockGateway, CheckPriority, WriteDeployment, DropFacade, Finish, Fail,
        cacheVars
  <2>3. ASSUME NEW c \in CRs, CreateCR(c) \/ UpdateCR(c) \/ DeleteCR(c)
        PROVE  UNCHANGED depCache
    BY <2>3 DEF CreateCR, UpdateCR, DeleteCR, Change, cacheVars
  <2>4. CASE \/ Rest \/ UNCHANGED vars
             \/ \E kind \in Kinds : SyncCRs(kind)
             \/ \E h \in Deployments : CollectGarbage(h)
    BY <2>4 DEF SyncCRs, CollectGarbage, Rest, vars, cacheVars
  <2>5. CASE SyncDeployments \/ Restart
    BY <2>5 DEF SyncDeployments, Restart
  <2> QED BY <2>1, <2>2, <2>3, <2>4, <2>5 DEF Next
<1>4. ObjectApart(depCache'[g], g)
  BY <1>1, <1>3
<1> QED BY <1>2, <1>4 DEF DeploymentApart, ObjectApart

LEMMA WorkersApart ==
  ASSUME TypeOK, KeptApart, [Next]_vars, NEW w \in Workers
  PROVE  WorkerApart(w)'
<1>1. WorkerApart(w)
  BY DEF KeptApart
<1>2. CASE pc'[w] = pc[w] /\ obj'[w] = obj[w] /\ dels'[w] = dels[w]
  BY <1>1, <1>2 DEF WorkerApart, Composite
<1>3. ASSUME NEW u \in Workers, Dequeue(u) \/ WorkerStep(u) \/ Fail(u)
      PROVE  WorkerApart(w)'
  <2>1. Moves(u)
    BY <1>3, WorkerMove
  <2>2. CASE u # w
    BY <1>2, <2>1, <2>2 DEF Moves, Others
  <2>3. CASE u = w
    <3>1. \A c \in CRs : \A o \in {crs[c], crCache[c]} \ {None} : o.gateway \notin Facades
      BY DEF KeptApart, CRApart
    <3>2. CASE Enters(w)
      BY <1>1, <3>1, <3>2 DEF TypeOK, Enters, WorkerApart
    <3>3. CASE Leaves(w)
      BY <3>3 DEF Leaves, WorkerApart
    <3>4. CASE Plans(w)
      <4>1. ASSUME NEW g \in MeshRouters PROVE g \notin Facades
        BY <4>1 DEF KeptApart, DeploymentApart, ObjectApart, MeshRouters
      <4> QED BY <1>1, <3>4, <4>1 DEF Plans, Stays, WorkerApart
    <3>5. CASE Cleans(w)
      BY <1>1, <3>5 DEF Cleans, Stays, WorkerApart
    <3>6. CASE Begins(w)
      <4>1. req[w] \in CRs
        BY <3>6 DEF TypeOK, WorkerOK, Begins
      <4> QED BY <1>1, <3>1, <3>6, <4>1 DEF Begins, WorkerApart
    <3>7. CASE Goes(w)
      BY <1>1, <3>7 DEF Goes, Stays, WorkerApart, Composite
    <3> QED BY <2>1, <2>3, <3>2, <3>3, <3>4, <3>5, <3>6, <3>7 DEF Moves
  <2> QED BY <2>2, <2>3
<1>4. ASSUME NEW c \in CRs, CreateCR(c) \/ UpdateCR(c) \/ DeleteCR(c)
      PROVE  UNCHANGED <<pc, obj, dels>>
  BY <1>4 DEF CreateCR, UpdateCR, DeleteCR, Change, workerVars, planVars
<1>5. CASE \/ SyncDeployments \/ Rest \/ UNCHANGED vars
           \/ \E kind \in Kinds : SyncCRs(kind)
           \/ \E g \in Deployments : CollectGarbage(g)
  BY <1>2, <1>5
  DEF SyncDeployments, SyncCRs, CollectGarbage, Rest, vars, workerVars, planVars
<1>6. CASE Restart
  BY <1>6 DEF Restart, WorkerApart
<1> QED BY <1>2, <1>3, <1>4, <1>5, <1>6 DEF Next

LEMMA ApartStep == Apart /\ TypeOK /\ KeptApart /\ [Next]_vars => KeptApart'
BY CRsApart, DeploymentsApart, WorkersApart DEF KeptApart

-----------------------------------------------------------------------------
(* While users change nothing                                              *)

\* Only the operator acts, and only a worker changes places, plans, queues
\* and Deployments.
Undisturbed ==
  /\ UNCHANGED <<crs, crCache>>
  /\ depCache' = depCache \/ depCache' = dep
  /\ \/ UNCHANGED <<pc, req, obj, dels, queue, dep>>
     \/ UNCHANGED depCache /\ \E w \in Workers : Dequeue(w) \/ WorkerStep(w) \/ Fail(w)

LEMMA OperatorOnly ==
  ASSUME TypeOK, Recovering, [Next]_vars, recovered', ~Restart
  PROVE  Undisturbed
<1>1. ASSUME NEW c \in CRs, CreateCR(c) \/ UpdateCR(c) \/ DeleteCR(c) PROVE FALSE
  BY <1>1 DEF CreateCR, UpdateCR, DeleteCR, Change
<1>2. ASSUME NEW kind \in Kinds, SyncCRs(kind) PROVE FALSE
  BY <1>2 DEF SyncCRs, Recovering, CRServed
<1>3. ASSUME NEW g \in Deployments, CollectGarbage(g) PROVE FALSE
  BY <1>3 DEF CollectGarbage, Recovering, DeploymentKept
<1>4. CASE UNCHANGED vars
  BY <1>4 DEF Undisturbed, vars, envVars, cacheVars, workerVars, planVars
<1>5. CASE SyncDeployments \/ Rest
  BY <1>4, <1>5 DEF SyncDeployments, Rest, Undisturbed, envVars, workerVars, planVars
<1>6. ASSUME NEW w \in Workers, Dequeue(w) \/ WorkerStep(w) \/ Fail(w)
      PROVE  UNCHANGED <<crs, crCache, depCache>>
  BY <1>6
  DEF WorkerStep, Dequeue, LockName, EgressNoOp, PlanCleanup, MarkLastApplied,
      DeleteMeshRouter, DeleteMasterCRLabel, BeginDelete, BeginApply,
      LockGateway, CheckPriority, WriteDeployment, DropFacade, Finish, Fail,
      envVars, cacheVars
<1> QED BY <1>1, <1>2, <1>3, <1>4, <1>5, <1>6 DEF Next, Undisturbed

\* The operator deletes nothing that a CR uses: a router is in no plan, and
\* who drops a facade gateway is composite or gone.
LEMMA UsedIsKept ==
  ASSUME Unique, TypeOK, KeptApart, Recovering, Undisturbed,
         NEW g \in Deployments, Used(g), dep[g] # None
  PROVE  dep'[g] # None
<1> SUFFICES ASSUME dep'[g] = None
             PROVE  FALSE
  OBVIOUS
<1>1. PICK w \in Workers : Dequeue(w) \/ WorkerStep(w) \/ Fail(w)
  BY DEF Undisturbed
<1>2. CASE DeleteMeshRouter(w) /\ g \in dels[w]
  BY <1>2 DEF Recovering, WorkerCurrent
<1>3. CASE DropFacade(w) /\ g = FacadeOf[req[w].name]
  <2>1. pc[w] = "dropFacade"
    BY <1>3 DEF DropFacade
  <2>2. req[w] \in CRs
    BY <2>1 DEF TypeOK, WorkerOK
  <2>3. obj[w] = crs[req[w]] /\ (obj[w] = None \/ Composite(obj[w]))
    BY <2>1 DEF Recovering, WorkerCurrent, KeptApart, WorkerApart
  <2>4. PICK c \in CRs : Uses(c, g)
    BY DEF Used
  <2>5. g \in Facades
    BY <1>3, <2>2, RequestTypes DEF Facades
  <2>6. ~Composite(crs[c]) /\ g = FacadeOf[c.name]
    BY <2>4, <2>5 DEF Uses, Live, Target, Composite, KeptApart, CRApart
  <2>7. c = req[w]
    BY <1>3, <2>2, <2>6 DEF Unique
  <2> QED BY <2>3, <2>4, <2>6, <2>7 DEF Uses, Live
<1> QED BY <1>1, <1>2, <1>3, WorkerDeletes

\* Nor does it write what no CR uses.
LEMMA UnusedIsUnwritten ==
  ASSUME TypeOK, Recovering, [Next]_vars, NEW g \in Deployments,
         ~Used(g), dep[g] = None
  PROVE  dep'[g] = None
<1> SUFFICES ASSUME dep'[g] # None
             PROVE  FALSE
  OBVIOUS
<1>1. PICK w \in Workers : WriteDeployment(w) /\ g = Target(req[w], obj[w])
  BY DeploymentChange
<1>2. pc[w] = "write" /\ req[w] \in CRs /\ obj[w] # None
  BY <1>1 DEF TypeOK, WorkerOK, WriteDeployment
<1>3. obj[w] = crs[req[w]]
  BY <1>2 DEF Recovering, WorkerCurrent
<1> QED BY <1>1, <1>2, <1>3 DEF Used, Uses, Live

LEMMA UsesWhileUndisturbed ==
  ASSUME Undisturbed
  PROVE  \A g : Used(g)' <=> Used(g)
BY DEF Undisturbed, Used, Uses, Live, Target, Composite

\* A mesh router that no CR references is not used.
LEMMA UnreferencedIsUnused ==
  ASSUME TypeOK, KeptApart, Recovering, NEW g \in Deployments, g \notin Facades
  PROVE  Referenced(g) <=> Used(g)
<1>1. ASSUME NEW c \in CRs
      PROVE  (crCache[c] # None /\ crCache[c].gateway = g) <=> Uses(c, g)
  <2>1. crCache[c] = crs[c]
    BY DEF Recovering, CRServed
  <2>2. FacadeOf[c.name] \in Facades /\ g # None
    BY RequestTypes, NamesAssumption DEF Facades
  <2> QED BY <2>1, <2>2 DEF Uses, Live, Target, Composite
<1> QED BY <1>1 DEF Referenced, Used

LEMMA CurrentStep ==
  ASSUME TypeOK, KeptApart, Recovering, Undisturbed, NEW w \in Workers
  PROVE  WorkerCurrent(w)'
<1>1. WorkerCurrent(w)
  BY DEF Recovering
<1>2. CASE pc'[w] = pc[w] /\ req'[w] = req[w] /\ obj'[w] = obj[w] /\ dels'[w] = dels[w]
  BY <1>1, <1>2, UsesWhileUndisturbed DEF Undisturbed, WorkerCurrent
<1>3. ASSUME NEW u \in Workers, Moves(u)
      PROVE  WorkerCurrent(w)'
  <2>1. CASE u # w
    BY <1>2, <1>3, <2>1 DEF Moves, Others
  <2>2. ASSUME pc'[w] # "idle" => obj'[w] = crs[req'[w]],
               dels'[w] \subseteq dels[w]
        PROVE  WorkerCurrent(w)'
    BY <1>1, <2>2, UsesWhileUndisturbed DEF Undisturbed, WorkerCurrent
  <2>3. CASE Enters(w)
    <3>1. PICK c \in queue : /\ req'[w] = c /\ obj'[w] = crCache[c]
                             /\ dels'[w] = dels[w]
      BY <2>3 DEF Enters
    <3>2. crCache[c] = crs[c]
      BY <3>1 DEF TypeOK, Recovering, CRServed
    <3> QED BY <2>2, <3>1, <3>2
  <2>4. CASE Leaves(w)
    BY <2>2, <2>4 DEF Leaves
  <2>5. CASE Plans(w)
    <3>1. ASSUME NEW g \in dels'[w] PROVE ~Used(g)
      <4>1. g \in MeshRouters /\ ~Referenced(g)
        BY <2>5 DEF Plans
      <4>2. g \notin Facades
        BY <4>1 DEF KeptApart, DeploymentApart, ObjectApart, MeshRouters
      <4> QED BY <4>1, <4>2, UnreferencedIsUnused DEF MeshRouters
    <3>2. obj'[w] = crs[req'[w]]
      BY <1>1, <2>5 DEF Plans, Stays, WorkerCurrent
    <3> QED BY <3>1, <3>2, UsesWhileUndisturbed DEF Undisturbed, WorkerCurrent
  <2>6. CASE Cleans(w) \/ Begins(w) \/ Goes(w)
    BY <1>1, <2>2, <2>6 DEF Cleans, Begins, Goes, Stays, WorkerCurrent
  <2> QED BY <1>3, <2>1, <2>3, <2>4, <2>5, <2>6 DEF Moves
<1> QED BY <1>2, <1>3, WorkerMove DEF Undisturbed

\* A reconcile that is to come, or under way, does not get lost.
LEMMA WorkGoesOn ==
  ASSUME NoEgress, TypeOK, Recovering, NEW c \in CRs, NEW u \in Workers, Moves(u),
         NEW places \in {BeforeWrite, BeforeDrop}, AtWork(c, places)
  PROVE  \/ AtWork(c, places)'
         \/ req[u] = c /\ pc[u] \in places /\ (Begins(u) \/ Goes(u))
<1>1. "wantName" \in places /\ "cleanup" \in places /\ "finish" \notin places
  BY DEF BeforeWrite, BeforeDrop
<1>2. ~YieldsToCoreEgress(u) \/ pc[u] = "idle" \/ ~Leaves(u)
  BY DEF NoEgress, YieldsToCoreEgress, TypeOK, WorkerOK, Leaves
<1>3. CASE c \in queue
  <2>1. CASE Enters(u)
    BY <1>1, <1>3, <2>1 DEF Enters, AtWork
  <2>2. CASE ~Enters(u)
    <3>1. c \in queue'
      BY <1>3, <2>2 DEF Moves, Leaves, Plans, Cleans, Begins, Goes, Stays
    <3> QED BY <3>1 DEF AtWork
  <2> QED BY <2>1, <2>2
<1>4. ASSUME NEW w \in Workers, req[w] = c, pc[w] \in places
      PROVE  \/ AtWork(c, places)'
             \/ req[u] = c /\ pc[u] \in places /\ (Begins(u) \/ Goes(u))
  <2>1. CASE u # w
    BY <1>4, <2>1 DEF Moves, Others, AtWork
  <2>2. CASE u = w /\ Enters(u)
    BY <1>4, <2>2 DEF Enters, BeforeWrite, BeforeDrop
  <2>3. CASE u = w /\ Leaves(u)
    BY <1>1, <1>2, <1>4, <2>3 DEF Leaves, AtWork
  <2>4. CASE u = w /\ (Plans(u) \/ Cleans(u))
    BY <1>1, <1>4, <2>4 DEF Plans, Cleans, Stays, AtWork
  <2> QED BY <1>4, <2>1, <2>2, <2>3, <2>4 DEF Moves
<1> QED BY <1>3, <1>4 DEF AtWork

LEMMA TargetType ==
  ASSUME TypeOK, NEW c \in CRs, Live(c)
  PROVE  Target(c, crs[c]) \in Deployments /\ Used(Target(c, crs[c]))
<1>1. crs[c] \in CRObjects /\ FacadeOf[c.name] \in Deployments
  BY RequestTypes DEF TypeOK, Live
<1> QED BY <1>1 DEF Target, Composite, CRObjects, Live, Used, Uses

\* The facade gateway of a composite CR is nobody's.
LEMMA FacadeOfComposite ==
  ASSUME Unique, TypeOK, KeptApart, NEW c \in CRs, Composite(crs[c])
  PROVE  ~Used(FacadeOf[c.name])
<1> DEFINE g == FacadeOf[c.name]
<1> SUFFICES ASSUME NEW d \in CRs, Uses(d, g)
             PROVE  FALSE
  BY DEF Used
<1>1. g \in Facades
  BY RequestTypes DEF Facades
<1>2. ~Composite(crs[d]) /\ g = FacadeOf[d.name]
  BY <1>1 DEF Uses, Live, Target, Composite, KeptApart, CRApart
<1> QED BY <1>2 DEF Unique

LEMMA ServedStep ==
  ASSUME Unique, NoEgress, TypeOK, KeptApart, Recovering, Undisturbed, [Next]_vars,
         NEW c \in CRs
  PROVE  CRServed(c)'
<1>1. CRServed(c)
  BY DEF Recovering
<1>2. ASSUME Live(c)
      PROVE  \/ AtWork(c, BeforeWrite)'
             \/ dep'[Target(c, crs[c])] # None
  <2> DEFINE g == Target(c, crs[c])
  <2>1. g \in Deployments /\ Used(g)
    BY <1>2, TargetType
  <2>2. CASE dep[g] # None
    BY <2>1, <2>2, UsedIsKept
  <2>3. CASE AtWork(c, BeforeWrite) /\ UNCHANGED <<pc, req, queue>>
    BY <2>3 DEF AtWork
  <2>4. ASSUME NEW u \in Workers, Moves(u), AtWork(c, BeforeWrite),
               ~AtWork(c, BeforeWrite)'
        PROVE  dep'[g] # None
    <3>1. req[u] = c /\ pc[u] \in BeforeWrite /\ (Begins(u) \/ Goes(u))
      BY <2>4, WorkGoesOn
    <3>2. obj[u] = crs[c]
      BY <3>1 DEF Recovering, WorkerCurrent, BeforeWrite
    <3>3. ~(req'[u] = c /\ pc'[u] \in BeforeWrite)
      BY <2>4 DEF AtWork
    <3>4. CASE Begins(u)
      BY <1>2, <3>1, <3>2, <3>3, <3>4 DEF Begins, Live, BeforeWrite
    <3>5. CASE Goes(u)
      <4>1. \/ pc[u] = "priority" /\ depCache[g] # None
            \/ pc[u] = "write" /\ dep'[g] # None
        BY <3>1, <3>2, <3>3, <3>5 DEF Goes, Stays, BeforeWrite
      <4> QED BY <2>1, <4>1, UsedIsKept DEF Recovering, DeploymentKept
    <3> QED BY <3>1, <3>4, <3>5
  <2> QED BY <1>1, <1>2, <2>2, <2>3, <2>4, WorkerMove DEF CRServed, Undisturbed
<1>3. ASSUME Composite(crs[c])
      PROVE  \/ AtWork(c, BeforeDrop)'
             \/ dep'[FacadeOf[c.name]] = None
  <2> DEFINE g == FacadeOf[c.name]
  <2>1. g \in Deployments /\ g \in Facades /\ ~Used(g)
    BY <1>3, RequestTypes, FacadeOfComposite DEF Facades
  <2>2. CASE dep[g] = None
    BY <2>1, <2>2, UnusedIsUnwritten
  <2>3. CASE AtWork(c, BeforeDrop) /\ UNCHANGED <<pc, req, queue>>
    BY <2>3 DEF AtWork
  <2>4. ASSUME NEW u \in Workers, Moves(u), AtWork(c, BeforeDrop),
               ~AtWork(c, BeforeDrop)'
        PROVE  dep'[g] = None
    <3>1. req[u] = c /\ pc[u] \in BeforeDrop /\ (Begins(u) \/ Goes(u))
      BY <2>4, WorkGoesOn
    <3>2. obj[u] = crs[c]
      BY <3>1 DEF Recovering, WorkerCurrent, BeforeDrop, BeforeWrite
    <3>3. ~(req'[u] = c /\ pc'[u] \in BeforeDrop)
      BY <2>4 DEF AtWork
    <3>4. CASE Begins(u)
      BY <3>1, <3>3, <3>4 DEF Begins, BeforeDrop, BeforeWrite
    <3>5. CASE Goes(u)
      <4>1. dep'[g] = None \/ depCache[g] = None \/ depCache[g].mesh
        BY <1>3, <3>1, <3>2, <3>3, <3>5 DEF Goes, Stays, BeforeDrop, BeforeWrite
      <4>2. dep'[g] = None \/ depCache[g] = None
        BY <2>1, <4>1 DEF KeptApart, DeploymentApart, ObjectApart
      <4> QED BY <2>1, <4>2, UnusedIsUnwritten DEF Recovering, DeploymentKept
    <3> QED BY <3>1, <3>4, <3>5
  <2> QED BY <1>1, <1>3, <2>2, <2>3, <2>4, WorkerMove DEF CRServed, Undisturbed
<1>4. crs' = crs /\ crCache' = crCache
  BY DEF Undisturbed
<1> QED BY <1>1, <1>2, <1>3, <1>4 DEF CRServed, Live, Target, Composite

\* A router that no CR uses stays in a plan, or a plan is to come.
LEMMA CleaningGoesOn ==
  ASSUME NoEgress, TypeOK, KeptApart, Recovering, Undisturbed,
         NEW g \in Deployments, ~Used(g), g \notin Facades, dep[g] # None,
         dep'[g] # None
  PROVE  ToClean(g)'
<1>1. ToClean(g) /\ depCache[g] # None
  BY DEF Recovering, DeploymentKept
<1>2. CASE UNCHANGED <<pc, dels, queue>>
  BY <1>1, <1>2 DEF ToClean
<1>3. ASSUME NEW u \in Workers, Moves(u)
      PROVE  ToClean(g)'
  <2>1. ~YieldsToCoreEgress(u) \/ ~Leaves(u)
    BY DEF NoEgress, YieldsToCoreEgress, TypeOK, WorkerOK, Leaves
  <2>2. CASE queue # {}
    BY <1>3, <2>2
    DEF Moves, Enters, Leaves, Plans, Cleans, Begins, Goes, Stays, ToClean
  <2>3. ASSUME NEW w \in Workers, pc[w] \in {"wantName", "start"}
        PROVE  ToClean(g)'
    <3>1. CASE u # w
      BY <1>3, <2>3, <3>1 DEF Moves, Others, ToClean
    <3>2. CASE u = w /\ Enters(u)
      BY <2>3, <3>2 DEF Enters
    <3>3. CASE u = w /\ Leaves(u)
      BY <2>1, <2>3, <3>3 DEF Leaves, ToClean
    <3>4. CASE u = w /\ Plans(u)
      <4>1. g \in MeshRouters
        BY <1>1 DEF MeshRouters, KeptApart, DeploymentApart, ObjectApart
      <4>2. ~Referenced(g)
        BY UnreferencedIsUnused
      <4> QED BY <3>4, <4>1, <4>2 DEF Plans, ToClean
    <3>5. CASE u = w /\ (Cleans(u) \/ Begins(u))
      BY <2>3, <3>5 DEF Cleans, Begins
    <3>6. CASE u = w /\ Goes(u)
      BY <2>3, <3>6 DEF Goes, ToClean
    <3> QED BY <1>3, <3>1, <3>2, <3>3, <3>4, <3>5, <3>6 DEF Moves
  <2>4. ASSUME NEW w \in Workers, pc[w] = "cleanup", g \in dels[w]
        PROVE  ToClean(g)'
    <3>1. CASE u # w
      BY <1>3, <2>4, <3>1 DEF Moves, Others, ToClean
    <3>2. CASE u = w /\ (Enters(u) \/ Plans(u) \/ Begins(u) \/ Goes(u))
      BY <2>4, <3>2 DEF Enters, Plans, Begins, Goes
    <3>3. CASE u = w /\ Leaves(u)
      BY <2>1, <2>4, <3>3 DEF Leaves, ToClean
    <3>4. CASE u = w /\ Cleans(u)
      BY <1>1, <2>4, <3>4 DEF Cleans, ToClean
    <3> QED BY <1>3, <3>1, <3>2, <3>3, <3>4 DEF Moves
  <2> QED BY <1>1, <2>2, <2>3, <2>4 DEF ToClean
<1> QED BY <1>2, <1>3, WorkerMove DEF Undisturbed

\* What a worker writes belongs to the CR it has read, which is there; an
\* owner that is there stays an owner.
LEMMA UncollectableStep ==
  ASSUME TypeOK, Recovering, Undisturbed, [Next]_vars, NEW g \in Deployments
  PROVE  ~Collectable(g)'
<1>1. ~Collectable(g)
  BY DEF Recovering, DeploymentKept
<1>2. \A uid : Alive(uid)' <=> Alive(uid)
  BY DEF Undisturbed, Alive
<1>3. CASE dep'[g] = None
  BY <1>3 DEF Collectable
<1>4. ASSUME dep[g] # None, dep'[g] # None, dep[g].owners \subseteq dep'[g].owners
      PROVE  ~Collectable(g)'
  BY <1>1, <1>2, <1>4 DEF Collectable
<1>5. ASSUME dep[g] \in DeploymentObjects,
             NEW last, dep'[g] = [dep[g] EXCEPT !.last = last]
      PROVE  dep'[g].owners = dep[g].owners
  BY <1>5 DEF DeploymentObjects
<1>6. ASSUME dep[g] \in DeploymentObjects, dep'[g] = [dep[g] EXCEPT !.label = None]
      PROVE  dep'[g].owners = dep[g].owners
  BY <1>6 DEF DeploymentObjects
<1>7. ASSUME NEW w \in Workers, WriteDeployment(w), dep'[g] = Rendered(w, g)
      PROVE  ~Collectable(g)'
  <2> DEFINE uid == [cr |-> req[w], inc |-> obj[w].inc]
  <2>1. obj[w] = crs[req[w]] /\ obj[w] # None
    BY <1>7 DEF Recovering, WorkerCurrent, TypeOK, WorkerOK, WriteDeployment
  <2>2. Alive(uid)
    BY <2>1 DEF Alive
  <2>3. uid \in dep'[g].owners
    BY <1>7 DEF Rendered
  <2> QED BY <1>2, <2>2, <2>3 DEF Collectable
<1> QED BY <1>3, <1>4, <1>5, <1>6, <1>7, DeploymentChange

LEMMA KeptStep ==
  ASSUME Unique, NoEgress, TypeOK, KeptApart, Recovering, Undisturbed, [Next]_vars,
         NEW g \in Deployments
  PROVE  DeploymentKept(g)'
<1>1. DeploymentKept(g)
  BY DEF Recovering
<1>2. depCache'[g] = depCache[g] \/ depCache'[g] = dep[g]
  BY DEF Undisturbed
<1>3. Used(g)' <=> Used(g)
  BY UsesWhileUndisturbed
<1>4. Used(g) => depCache'[g] = None \/ dep'[g] # None
  BY <1>1, <1>2, UsedIsKept DEF DeploymentKept
<1>5. ~Used(g) => dep'[g] = None \/ depCache'[g] # None
  BY <1>1, <1>2, UnusedIsUnwritten DEF DeploymentKept
<1>6. ~Used(g) /\ g \notin Facades => dep'[g] = None \/ ToClean(g)'
  BY UnusedIsUnwritten, CleaningGoesOn
<1> QED BY <1>3, <1>4, <1>5, <1>6, UncollectableStep DEF DeploymentKept

\* A restart fills the caches and queues every CR.
LEMMA RestartRecovers ==
  ASSUME TypeOK, Restart, recovered'
  PROVE  Recovering'
<1>1. /\ crs' = crs /\ crCache' = crs /\ dep' = dep /\ depCache' = dep
      /\ queue' = {c \in CRs : crs[c] # None}
      /\ \A w \in Workers : pc'[w] = "idle" /\ dels'[w] = {}
      /\ \A g \in Deployments : ~Collectable(g)
  BY DEF Restart, envVars
<1>2. ASSUME NEW w \in Workers PROVE WorkerCurrent(w)'
  BY <1>1 DEF WorkerCurrent
<1>3. ASSUME NEW c \in CRs PROVE CRServed(c)'
  BY <1>1 DEF CRServed, Live, Composite, AtWork
<1>4. ASSUME NEW g \in Deployments PROVE DeploymentKept(g)'
  <2>1. ~Collectable(g)'
    BY <1>1 DEF Collectable, Alive
  <2>2. dep[g] # None => queue' # {}
    <3> SUFFICES ASSUME dep[g] # None
                 PROVE  queue' # {}
      OBVIOUS
    <3>1. PICK uid \in dep[g].owners : Alive(uid)
      BY <1>1 DEF Collectable
    <3>2. uid.cr \in CRs
      BY <3>1 DEF TypeOK, DeploymentObjects, Uids
    <3> QED BY <1>1, <3>1, <3>2 DEF Alive
  <2> QED BY <1>1, <2>1, <2>2 DEF DeploymentKept, ToClean
<1> QED BY <1>2, <1>3, <1>4 DEF Recovering

LEMMA InitIInv == Apart /\ Init => IInv
<1> SUFFICES ASSUME Apart, Init
             PROVE  IInv
  OBVIOUS
<1>1. ASSUME NEW c \in CRs
      PROVE  crs[c] # None => crs[c].gateway \notin Facades
  BY InitialSpecsAssumption DEF Init, Apart, CRObject
<1>2. KeptApart
  BY <1>1 DEF Init, KeptApart, WorkerApart, CRApart, DeploymentApart, ObjectApart
<1>3. Recovering
  BY DEF Init, Recovering, WorkerCurrent, CRServed, DeploymentKept, Live, Composite,
         AtWork, Collectable
<1> QED BY <1>2, <1>3 DEF IInv

LEMMA IInvStep ==
  Apart /\ Unique /\ NoEgress /\ TypeOK /\ IInv /\ [Next]_vars => IInv'
<1> SUFFICES ASSUME Apart, Unique, NoEgress, TypeOK, IInv, [Next]_vars
             PROVE  IInv'
  OBVIOUS
<1>1. KeptApart'
  BY ApartStep DEF IInv
<1>2. CASE Restart
  BY <1>1, <1>2, RestartRecovers DEF IInv
<1>3. ASSUME ~Restart, recovered'
      PROVE  Recovering'
  <2>1. recovered
    <3>1. CASE UNCHANGED recovered
      BY <1>3, <3>1
    <3>2. ASSUME NEW w \in Workers, Dequeue(w) \/ WorkerStep(w) \/ Fail(w)
          PROVE  UNCHANGED recovered
      BY <3>2
      DEF WorkerStep, Dequeue, LockName, EgressNoOp, PlanCleanup, MarkLastApplied,
          DeleteMeshRouter, DeleteMasterCRLabel, BeginDelete, BeginApply,
          LockGateway, CheckPriority, WriteDeployment, DropFacade, Finish, Fail
    <3>3. ASSUME NEW c \in CRs, CreateCR(c) \/ UpdateCR(c) \/ DeleteCR(c)
          PROVE  FALSE
      BY <1>3, <3>3 DEF CreateCR, UpdateCR, DeleteCR, Change
    <3>4. CASE \/ SyncDeployments \/ Rest \/ UNCHANGED vars
               \/ \E kind \in Kinds : SyncCRs(kind)
               \/ \E g \in Deployments : CollectGarbage(g)
      BY <3>1, <3>4 DEF SyncDeployments, SyncCRs, CollectGarbage, Rest, vars
    <3> QED BY <1>3, <3>1, <3>2, <3>3, <3>4 DEF Next
  <2>2. KeptApart /\ Recovering
    BY <2>1 DEF IInv
  <2>3. Undisturbed
    BY <1>3, <2>2, OperatorOnly
  <2> QED BY <2>2, <2>3, CurrentStep, ServedStep, KeptStep DEF Recovering
<1> QED BY <1>1, <1>2, <1>3 DEF IInv

-----------------------------------------------------------------------------
(* Theorems                                                                *)

\* What the invariant says of an operator at rest.
LEMMA AtRestConverged ==
  Unique /\ TypeOK /\ IInv => RestartConverges
<1> SUFFICES ASSUME Unique, TypeOK, IInv, Quiescent, recovered
             PROVE  /\ \A c \in CRs : crs[c] # None =>
                         LET g == Target(c, crs[c])
                         IN dep[g] # None /\ dep[g].mesh = Composite(crs[c])
                    /\ \A g \in Deployments : dep[g] # None =>
                         \E c \in CRs : crs[c] # None /\ Target(c, crs[c]) = g
  BY DEF RestartConverges
<1>1. KeptApart /\ Recovering
  BY DEF IInv
<1>2. \A c \in CRs : ~AtWork(c, BeforeWrite) /\ ~AtWork(c, BeforeDrop)
  BY DEF Quiescent, AtWork, BeforeWrite, BeforeDrop
<1>3. ASSUME NEW c \in CRs, crs[c] # None
      PROVE  LET g == Target(c, crs[c])
             IN dep[g] # None /\ dep[g].mesh = Composite(crs[c])
  <2> DEFINE g == Target(c, crs[c])
  <2>1. dep[g] # None /\ g \in Deployments
    BY <1>1, <1>2, <1>3, TargetType DEF Recovering, CRServed, Live
  <2>2. dep[g].mesh \in BOOLEAN /\ Composite(crs[c]) \in BOOLEAN
    BY <2>1 DEF TypeOK, DeploymentObjects, Composite
  <2>3. dep[g].mesh <=> g \notin Facades
    BY <1>1, <2>1 DEF KeptApart, DeploymentApart, ObjectApart
  <2>4. g \notin Facades <=> Composite(crs[c])
    <3>1. FacadeOf[c.name] \in Facades
      BY RequestTypes DEF Facades
    <3>2. crs[c].gateway \notin Facades
      BY <1>1, <1>3 DEF KeptApart, CRApart
    <3> QED BY <3>1, <3>2 DEF Target, Composite
  <2> QED BY <2>1, <2>2, <2>3, <2>4
<1>4. ASSUME NEW g \in Deployments, dep[g] # None
      PROVE  Used(g)
  <2>1. CASE g \notin Facades
    BY <1>1, <1>4, <2>1 DEF Recovering, DeploymentKept, ToClean, Quiescent
  <2>2. CASE g \in Facades
    <3>1. PICK uid \in dep[g].owners : Alive(uid)
      BY <1>1, <1>4 DEF Recovering, DeploymentKept, Collectable
    <3>2. uid.cr \in CRs
      BY <1>4, <3>1 DEF TypeOK, DeploymentObjects, Uids
    <3>3. FacadeOf[uid.cr.name] = g
      BY <1>1, <1>4, <2>2, <3>1 DEF KeptApart, DeploymentApart, ObjectApart
    <3>4. ~Composite(crs[uid.cr])
      BY <1>1, <1>2, <1>4, <3>2, <3>3 DEF Recovering, CRServed
    <3> QED BY <3>1, <3>2, <3>3, <3>4 DEF Alive, Used, Uses, Live, Target
  <2> QED BY <2>1, <2>2
<1> QED BY <1>3, <1>4 DEF Used, Uses, Live

\* Once the operator has restarted and users leave the CRs alone, every CR
\* gets its Deployment and what no CR uses goes, however many workers race
\* and fail, and whatever was leaked before.
THEOREM RestartIsConvergent ==
  ASSUME Apart, Unique, NoEgress
  PROVE  Spec => []RestartConverges
<1>1. Init => TypeOK /\ IInv
  BY InitTypes, InitIInv
<1>2. TypeOK /\ IInv /\ [Next]_vars => (TypeOK /\ IInv)'
  BY TypeStep, IInvStep
<1>3. TypeOK /\ IInv => RestartConverges
  BY AtRestConverged
<1> QED BY <1>1, <1>2, <1>3, PTL DEF Spec

\* Meanwhile the operator deletes no Deployment that a CR uses.
THEOREM RestartKeepsWhatIsUsed ==
  ASSUME Apart, Unique, NoEgress
  PROVE  Spec => RestartKeepsRouters
<1> DEFINE Kept ==
      recovered /\ recovered' =>
        \A c \in CRs : crs[c] # None =>
          LET g == Target(c, crs[c])
          IN dep[g] # None /\ dep[g].mesh = Composite(crs[c]) => dep'[g] # None
<1>1. Init => TypeOK /\ IInv
  BY InitTypes, InitIInv
<1>2. TypeOK /\ IInv /\ [Next]_vars => (TypeOK /\ IInv)'
  BY TypeStep, IInvStep
<1>3. TypeOK /\ IInv /\ [Next]_vars => Kept
  <2> SUFFICES ASSUME TypeOK, IInv, [Next]_vars, recovered, recovered',
                      NEW c \in CRs, crs[c] # None,
                      dep[Target(c, crs[c])] # None
               PROVE  dep'[Target(c, crs[c])] # None
    OBVIOUS
  <2>1. KeptApart /\ Recovering
    BY DEF IInv
  <2>2. Target(c, crs[c]) \in Deployments /\ Used(Target(c, crs[c]))
    BY TargetType DEF Live
  <2>3. CASE Restart
    BY <2>3 DEF Restart
  <2>4. CASE ~Restart
    BY <2>1, <2>2, <2>4, OperatorOnly, UsedIsKept
  <2> QED BY <2>3, <2>4
<1>4. TypeOK /\ IInv /\ [Next]_vars => [Kept]_vars
  BY <1>3
<1> QED BY <1>1, <1>2, <1>4, PTL DEF Spec, RestartKeepsRouters

-----------------------------------------------------------------------------
(* core-egress-gateway                                                     *)

\* c is a core-egress-gateway that was there when the operator first started,
\* First(c) its object then, and Egress(c) the egress router.
Documented(c) == c \in CRs /\ c.name = CoreEgressGateway /\ InitialSpecs[c] # None
First(c) == CRObject(InitialSpecs[c], 0, 1)
Egress(c) == Target(c, First(c))

\* A CR that is neither core-egress-gateway nor egress-gateway.
Stranger(c, d) == d \in CRs /\ d # c /\ d.name # EgressGateway

\* No stranger has the name or the facade gateway of core-egress-gateway.
CoreApart ==
  \A c, d \in CRs : c.name = CoreEgressGateway /\ Stranger(c, d)
                      => FacadeOf[d.name] # FacadeOf[c.name]

\* No stranger uses the egress router, as an object or in a cache says.
UnsharedBy(c, d, o) == Stranger(c, d) /\ o # None => Target(d, o) # Egress(c)

Unshared ==
  \A c \in CRs : Documented(c) /\ crs[c] = First(c) =>
    \A d \in CRs : UnsharedBy(c, d, crs[d])

\* The egress router is a core-egress-gateway's.
Rightful(c, d) ==
  d # None => /\ d.template.name # EgressGateway
              /\ d.mesh = Composite(First(c))
              /\ [cr |-> c, inc |-> 0] \in d.owners

\* egress-gateway's reconciles do nothing, and the others keep off the router.
Harmless(c, w) ==
  /\ req[w] = c => obj[w] = First(c)
  /\ req[w] \in CRs /\ req[w].name = EgressGateway => pc[w] \in {"wantName", "start"}
  /\ UnsharedBy(c, req[w], obj[w])
  /\ pc[w] = "dropFacade" => obj[w] = None \/ Composite(obj[w])
  /\ Egress(c) \notin dels[w]

Untouched(c) ==
  /\ crCache[c] = First(c)
  /\ \A d \in CRs : UnsharedBy(c, d, crCache[d])
  /\ \A w \in Workers : Harmless(c, w)
  /\ Rightful(c, dep[Egress(c)]) /\ Rightful(c, depCache[Egress(c)])

\* Once c has been changed it never is as at first again.
Begun(c) == born[c] > 0 /\ (crs[c] # None => crs[c].gen > 0)

CoreInv(c) == Begun(c) /\ (crs[c] = First(c) => Untouched(c))

LEMMA FirstIs ==
  ASSUME NEW c, Documented(c)
  PROVE  /\ First(c) \in CRObjects /\ First(c) # None
         /\ First(c).inc = 0 /\ First(c).gen = 1
         /\ Egress(c) \in Deployments
<1>1. InitialSpecs[c] \in Specs
  BY InitialSpecsAssumption DEF Documented
<1>2. First(c) \in CRObjects /\ First(c).inc = 0 /\ First(c).gen = 1
  BY <1>1, ObjectTypes DEF First, CRObject
<1>3. Egress(c) \in Deployments
  BY <1>2, RequestTypes DEF Egress, Target, Composite, CRObjects, Documented
<1> QED BY <1>2, <1>3, ObjectsAssumption

LEMMA InitCore == Init => \A c \in CRs : Documented(c) /\ Unshared => CoreInv(c)
<1> SUFFICES ASSUME Init, Unshared, NEW c \in CRs, Documented(c) PROVE CoreInv(c)
  OBVIOUS
<1>1. crs[c] = First(c) /\ born[c] = 1
  BY DEF Init, First, Documented
<1>2. Begun(c)
  BY <1>1, FirstIs DEF Begun
<1>3. crCache = crs /\ \A d \in CRs : UnsharedBy(c, d, crs[d])
  BY <1>1 DEF Init, Unshared
<1>4. dep[Egress(c)] = None /\ depCache[Egress(c)] = None
  BY FirstIs DEF Init
<1>5. ASSUME NEW w \in Workers PROVE Harmless(c, w)
  <2>1. req[w] = None /\ obj[w] = None /\ pc[w] = "idle" /\ dels[w] = {}
    BY DEF Init
  <2> QED BY <2>1, NoneAssumption DEF Harmless, UnsharedBy, Stranger
<1> QED BY <1>1, <1>2, <1>3, <1>4, <1>5 DEF CoreInv, Untouched, Rightful

\* Nobody but users changes c, and never back to what it was.
LEMMA BegunStays ==
  ASSUME TypeOK, NEW c \in CRs, Documented(c), Begun(c), [Next]_vars
  PROVE  Begun(c)' /\ (crs'[c] = First(c) => crs[c] = First(c))
<1> DEFINE Kept == Begun(c)' /\ (crs'[c] = First(c) => crs[c] = First(c))
<1>1. ASSUME UNCHANGED envVars PROVE Kept
  BY <1>1 DEF Begun, envVars
<1>2. ASSUME NEW d \in CRs, CreateCR(d) PROVE Kept
  <2>1. PICK s \in Specs : crs' = [crs EXCEPT ![d] = CRObject(s, born[d], 1)]
    BY <1>2 DEF CreateCR
  <2>2. born' = [born EXCEPT ![d] = @ + 1] /\ born \in [CRs -> Nat] /\ DOMAIN crs = CRs
    BY <1>2 DEF CreateCR, TypeOK
  <2>3. d # c => crs'[c] = crs[c] /\ born'[c] = born[c]
    BY <2>1, <2>2
  <2>4. d = c => /\ crs'[c].inc = born[c] /\ crs'[c].gen = 1
                 /\ born'[c] = born[c] + 1
    BY <2>1, <2>2 DEF CRObject
  <2> QED BY <2>2, <2>3, <2>4, FirstIs DEF Begun
<1>3. ASSUME NEW d \in CRs, UpdateCR(d) PROVE Kept
  <2>1. PICK s \in Specs : crs' = [crs EXCEPT ![d] = CRObject(s, @.inc, @.gen + 1)]
    BY <1>3 DEF UpdateCR
  <2>2. born' = born /\ DOMAIN crs = CRs /\ crs[d] # None
    BY <1>3 DEF UpdateCR, TypeOK
  <2>3. d # c => crs'[c] = crs[c]
    BY <2>1, <2>2
  <2>4. d = c => crs'[c].gen = crs[c].gen + 1 /\ crs[c].gen \in Nat
    BY <2>1, <2>2 DEF CRObject, TypeOK, CRObjects
  <2> QED BY <2>2, <2>3, <2>4, FirstIs DEF Begun
<1>4. ASSUME NEW d \in CRs, DeleteCR(d) PROVE Kept
  <2>1. crs' = [crs EXCEPT ![d] = None] /\ born' = born /\ DOMAIN crs = CRs
    BY <1>4 DEF DeleteCR, TypeOK
  <2>2. crs'[c] = crs[c] \/ crs'[c] = None
    BY <2>1
  <2> QED BY <2>1, <2>2, FirstIs DEF Begun
<1>5. (\E d \in CRs : CreateCR(d) \/ UpdateCR(d) \/ DeleteCR(d)) \/ UNCHANGED envVars
  BY DEF Next, WorkerStep, Dequeue, LockName, EgressNoOp, PlanCleanup, MarkLastApplied,
         DeleteMeshRouter, DeleteMasterCRLabel, BeginDelete, BeginApply, LockGateway,
         CheckPriority, WriteDeployment, DropFacade, Finish, Fail, SyncCRs,
         SyncDeployments, CollectGarbage, Restart, Rest, vars
<1> QED BY <1>1, <1>2, <1>3, <1>4, <1>5

\* A worker that is past the start and would touch the router is c's.
LEMMA OnlyCoreWorks ==
  ASSUME TypeOK, CoreApart, NEW c \in CRs, Documented(c), Untouched(c),
         NEW w \in Workers, pc[w] \notin {"idle", "wantName", "start"},
         \/ obj[w] # None /\ Target(req[w], obj[w]) = Egress(c)
         \/ FacadeOf[req[w].name] = FacadeOf[c.name]
  PROVE  req[w] = c /\ req[w].name # EgressGateway /\ obj[w] = First(c)
<1>1. req[w] \in CRs
  BY DEF TypeOK, WorkerOK
<1>2. Harmless(c, w)
  BY DEF Untouched
<1>3. req[w].name # EgressGateway
  BY <1>1, <1>2 DEF Harmless
<1>4. req[w] = c
  BY <1>1, <1>2, <1>3 DEF Harmless, UnsharedBy, Stranger, CoreApart, Documented
<1> QED BY <1>2, <1>3, <1>4 DEF Harmless

\* What a step makes of the egress router.
LEMMA RouterStays ==
  ASSUME TypeOK, CoreApart, NEW c \in CRs, Documented(c), crs[c] = First(c),
         Untouched(c), [Next]_vars
  PROVE  /\ Rightful(c, dep'[Egress(c)])
         /\ dep[Egress(c)] # None => dep'[Egress(c)] # None
<1>1. PICK g \in Deployments : g = Egress(c)
  BY FirstIs
<1> SUFFICES Rightful(c, dep'[g]) /\ (dep[g] # None => dep'[g] # None)
  BY <1>1
<1>2. Rightful(c, dep[g]) /\ Rightful(c, depCache[g])
  BY <1>1 DEF Untouched
<1>3. CASE dep'[g] = dep[g]
  BY <1>2, <1>3
<1>4. ASSUME dep[g] # None, dep[g] \in DeploymentObjects,
             NEW last, dep'[g] = [dep[g] EXCEPT !.last = last]
      PROVE  Rightful(c, dep'[g])
  BY <1>2, <1>4 DEF Rightful, DeploymentObjects
<1>5. ASSUME dep[g] # None, dep[g] \in DeploymentObjects,
             dep'[g] = [dep[g] EXCEPT !.label = None]
      PROVE  Rightful(c, dep'[g])
  BY <1>2, <1>5 DEF Rightful, DeploymentObjects
<1>6. ASSUME NEW w \in Workers, WriteDeployment(w), g = Target(req[w], obj[w]),
             dep'[g] = Rendered(w, g)
      PROVE  Rightful(c, dep'[g])
  <2>1. pc[w] = "write" /\ obj[w] # None
    BY <1>6 DEF WriteDeployment, TypeOK, WorkerOK
  <2>2. req[w] = c /\ req[w].name # EgressGateway /\ obj[w] = First(c)
    BY <1>1, <1>6, <2>1, OnlyCoreWorks
  <2>3. Rightful(c, Rendered(w, g))
    BY <2>2, FirstIs DEF Rightful, Rendered
  <2> QED BY <1>6, <2>3
<1>7. ASSUME dep[g] # None, dep'[g] = None PROVE FALSE
  <2>1. ASSUME NEW w \in Workers, g \in dels[w] PROVE FALSE
    BY <1>1, <2>1 DEF Untouched, Harmless
  <2>2. ASSUME NEW w \in Workers, DropFacade(w), g = FacadeOf[req[w].name],
               depCache[g] # None, ~depCache[g].mesh
        PROVE  FALSE
    <3>1. pc[w] = "dropFacade"
      BY <2>2 DEF DropFacade
    <3>2. ~Composite(First(c))
      BY <1>2, <2>2 DEF Rightful
    <3>3. FacadeOf[req[w].name] = FacadeOf[c.name]
      BY <1>1, <2>2, <3>2 DEF Egress, Target
    <3>4. obj[w] = First(c)
      BY <3>1, <3>3, OnlyCoreWorks
    <3>5. obj[w] = None \/ Composite(obj[w])
      BY <3>1 DEF Untouched, Harmless
    <3> QED BY <3>2, <3>4, <3>5, FirstIs
  <2>3. ASSUME NEW h \in Deployments, CollectGarbage(h) PROVE FALSE
    <3>1. h = g
      BY <1>7, <2>3 DEF CollectGarbage, TypeOK
    <3>2. Alive([cr |-> c, inc |-> 0])
      BY FirstIs DEF Alive
    <3> QED BY <1>2, <1>7, <2>3, <3>1, <3>2 DEF CollectGarbage, Collectable, Rightful
  <2>4. ASSUME NEW w \in Workers, Dequeue(w) \/ WorkerStep(w) \/ Fail(w) PROVE FALSE
    BY <1>7, <2>1, <2>2, <2>4, WorkerDeletes
  <2>5. ASSUME UNCHANGED dep PROVE FALSE
    BY <1>7, <2>5
  <2> QED
    BY <2>3, <2>4, <2>5 DEF Next, CreateCR, UpdateCR, DeleteCR, Change, SyncCRs,
                            SyncDeployments, Restart, Rest, vars
<1>8. ASSUME dep'[g] = None PROVE Rightful(c, dep'[g])
  BY <1>8 DEF Rightful
<1>9. Rightful(c, dep'[g])
  <2>1. ASSUME dep'[g] # dep[g], dep'[g] # None
        PROVE  \/ /\ dep[g] # None /\ dep[g] \in DeploymentObjects
                  /\ \E last : dep'[g] = [dep[g] EXCEPT !.last = last]
               \/ /\ dep[g] # None /\ dep[g] \in DeploymentObjects
                  /\ dep'[g] = [dep[g] EXCEPT !.label = None]
               \/ \E w \in Workers : /\ WriteDeployment(w) /\ g = Target(req[w], obj[w])
                                     /\ dep'[g] = Rendered(w, g)
    BY <2>1, DeploymentChange
  <2> QED BY <1>3, <1>4, <1>5, <1>6, <1>8, <2>1
<1> QED BY <1>7, <1>9

\* A worker takes from the caches and the API server what they hold.
LEMMA WorkersHarmless ==
  ASSUME TypeOK, Unshared, NEW c \in CRs, Documented(c), crs[c] = First(c),
         Untouched(c), NEW w \in Workers, Dequeue(w) \/ WorkerStep(w) \/ Fail(w)
  PROVE  \A u \in Workers : Harmless(c, u)'
<1>1. Moves(w)
  BY WorkerMove
<1>2. \A u \in Workers : Harmless(c, u)
  BY DEF Untouched
<1>3. ASSUME NEW u \in Workers \ {w} PROVE Harmless(c, u)'
  BY <1>1, <1>2 DEF Moves, Others, Harmless, UnsharedBy, Stranger, Composite
<1> SUFFICES Harmless(c, w)'
  BY <1>3
<1>4. pc[w] # "idle" => req[w] \in CRs
  BY DEF TypeOK, WorkerOK
<1>5. CASE Enters(w)
  <2>1. PICK d \in CRs : /\ pc'[w] = "wantName" /\ req'[w] = d /\ obj'[w] = crCache[d]
                         /\ dels'[w] = dels[w]
    BY <1>5 DEF Enters, TypeOK
  <2>2. UnsharedBy(c, d, crCache[d]) /\ crCache[c] = First(c)
    BY DEF Untouched
  <2>3. UnsharedBy(c, req[w], obj[w])'
    BY <2>1, <2>2 DEF UnsharedBy, Stranger
  <2> QED BY <1>2, <2>1, <2>2, <2>3 DEF Harmless
<1>6. CASE Leaves(w)
  <2>1. req'[w] \notin CRs
    BY <1>6, NoneAssumption DEF Leaves
  <2> QED BY <1>6, <2>1 DEF Leaves, Harmless, UnsharedBy, Stranger
<1>7. CASE Plans(w)
  <2>1. /\ req'[w] = req[w] /\ obj'[w] = obj[w] /\ pc'[w] = "cleanup"
        /\ ~YieldsToCoreEgress(w) /\ dels'[w] = {g \in MeshRouters : ~Referenced(g)}
    BY <1>7 DEF Plans, Stays
  <2>2. req[w].name # EgressGateway
    BY <2>1, FirstIs DEF YieldsToCoreEgress, CRExists, Untouched, Documented
  <2>3. Egress(c) \notin dels'[w]
    <3>1. ASSUME Egress(c) \in MeshRouters PROVE Referenced(Egress(c))
      <4>1. Composite(First(c))
        BY <3>1 DEF MeshRouters, Untouched, Rightful
      <4>2. crCache[c] # None /\ crCache[c].gateway = Egress(c)
        BY <4>1, FirstIs DEF Untouched, Egress, Target
      <4> QED BY <4>2 DEF Referenced
    <3> QED BY <2>1, <3>1
  <2> QED BY <1>2, <2>1, <2>2, <2>3 DEF Harmless, UnsharedBy, Stranger
<1>8. CASE Cleans(w)
  BY <1>2, <1>8 DEF Cleans, Stays, Harmless, UnsharedBy, Stranger
<1>9. CASE Begins(w)
  <2>1. /\ pc[w] = "cleanup" /\ req'[w] = req[w] /\ dels'[w] = {}
        /\ obj'[w] \in {obj[w], crs[req[w]]}
        /\ \/ obj'[w] = None /\ pc'[w] = "dropFacade"
           \/ obj'[w] # None /\ pc'[w] \in {"wantGateway", "write"}
    BY <1>9 DEF Begins
  <2>2. req[w] \in CRs /\ req[w].name # EgressGateway
    BY <1>2, <1>4, <2>1 DEF Harmless
  <2>3. UnsharedBy(c, req[w], crs[req[w]])
    BY <2>2 DEF Unshared
  <2>4. UnsharedBy(c, req[w], obj[w])'
    BY <1>2, <2>1, <2>3 DEF Harmless, UnsharedBy, Stranger
  <2>5. req'[w] = c => obj'[w] = First(c)
    BY <1>2, <2>1 DEF Harmless
  <2> QED BY <2>1, <2>2, <2>4, <2>5 DEF Harmless
<1>10. CASE Goes(w)
  <2>1. /\ req'[w] = req[w] /\ obj'[w] = obj[w] /\ dels'[w] = dels[w]
        /\ \/ pc[w] = "wantName" /\ pc'[w] = "start"
           \/ pc[w] \notin {"idle", "wantName", "start"}
        /\ pc'[w] = "dropFacade" => Composite(obj[w])
    BY <1>10 DEF Goes, Stays
  <2>2. UnsharedBy(c, req[w], obj[w])'
    BY <1>2, <2>1 DEF Harmless, UnsharedBy, Stranger
  <2> QED BY <1>2, <2>1, <2>2 DEF Harmless, Composite
<1> QED BY <1>1, <1>3, <1>5, <1>6, <1>7, <1>8, <1>9, <1>10 DEF Moves

\* The informers show what is on the server; a restart leaves no work.
LEMMA CoreStep ==
  ASSUME TypeOK, CoreApart, Unshared, NEW c \in CRs, Documented(c), CoreInv(c),
         [Next]_vars
  PROVE  CoreInv(c)'
<1>1. Begun(c)' /\ (crs'[c] = First(c) => crs[c] = First(c))
  BY BegunStays DEF CoreInv
<1> SUFFICES ASSUME crs'[c] = First(c) PROVE Untouched(c)'
  BY <1>1 DEF CoreInv
<1>2. crs[c] = First(c) /\ Untouched(c)
  BY <1>1 DEF CoreInv
<1>3. Rightful(c, dep'[Egress(c)])
  BY <1>2, RouterStays
<1>4. \A d \in CRs : UnsharedBy(c, d, crs[d])
  BY <1>2 DEF Unshared
<1>5. /\ crCache'[c] = First(c)
      /\ \A d \in CRs : UnsharedBy(c, d, crCache'[d])
      /\ Rightful(c, depCache'[Egress(c)])
  <2>1. CASE UNCHANGED cacheVars
    BY <1>2, <2>1 DEF cacheVars, Untouched
  <2>2. ASSUME NEW kind \in Kinds, SyncCRs(kind) PROVE <1>5!:
    <3>1. depCache' = depCache /\ \A d \in CRs : crCache'[d] \in {crs[d], crCache[d]}
      BY <2>2 DEF SyncCRs
    <3> QED BY <1>2, <1>4, <3>1 DEF Untouched
  <2>3. CASE SyncDeployments
    BY <1>2, <2>3 DEF SyncDeployments, Untouched, Rightful
  <2>4. CASE Restart
    BY <1>2, <1>4, <2>4 DEF Restart, Untouched
  <2> QED
    BY <2>1, <2>2, <2>3, <2>4
    DEF Next, WorkerStep, Dequeue, LockName, EgressNoOp, PlanCleanup, MarkLastApplied,
        DeleteMeshRouter, DeleteMasterCRLabel, BeginDelete, BeginApply, LockGateway,
        CheckPriority, WriteDeployment, DropFacade, Finish, Fail, CreateCR, UpdateCR,
        DeleteCR, Change, CollectGarbage, Rest, vars
<1>6. \A w \in Workers : Harmless(c, w)'
  <2>1. ASSUME NEW w \in Workers, Dequeue(w) \/ WorkerStep(w) \/ Fail(w) PROVE <1>6!:
    BY <1>2, <2>1, WorkersHarmless
  <2>2. CASE Restart
    <3> SUFFICES ASSUME NEW w \in Workers PROVE Harmless(c, w)'
      OBVIOUS
    <3>1. req'[w] = None /\ obj'[w] = None /\ pc'[w] = "idle" /\ dels'[w] = {}
      BY <2>2 DEF Restart
    <3>2. req'[w] \notin CRs
      BY <3>1, NoneAssumption
    <3> QED BY <3>1, <3>2 DEF Harmless, UnsharedBy, Stranger
  <2>3. CASE UNCHANGED workerVars
    BY <1>2, <2>3 DEF Untouched, Harmless, UnsharedBy, Stranger, Composite, workerVars,
                      planVars
  <2> QED
    BY <2>1, <2>2, <2>3 DEF Next, CreateCR, UpdateCR, DeleteCR, Change, SyncCRs,
                            SyncDeployments, CollectGarbage, Rest, vars
<1> QED BY <1>3, <1>5, <1>6 DEF Untouched

\* docs/core-egress-gateway.md:49: while a core-egress-gateway stays as the
\* operator found it at its first start and only egress-gateway shares its
\* router, no event of egress-gateway, whoever it races with, deletes or
\* configures the router.
THEOREM CoreEgressIsUndisturbed ==
  ASSUME CoreApart
  PROVE  Spec /\ []Unshared => CoreEgressUndisturbed
<1> DEFINE CI == \A c \in CRs : Documented(c) => CoreInv(c)
           Calm == \A c \in CRs :
             /\ c.name = CoreEgressGateway /\ InitialSpecs[c] # None
             /\ crs[c] = CRObject(InitialSpecs[c], 0, 1) /\ crs'[c] = crs[c]
             => LET g == Target(c, crs[c])
                IN dep[g] # None => dep'[g] # None
                                    /\ dep'[g].template.name # EgressGateway
<1>1. Init /\ Unshared => CI
  BY InitCore
<1>2. TypeOK /\ CI /\ Unshared /\ [Next]_vars => CI'
  BY CoreStep
<1>3. TypeOK /\ CI /\ Unshared /\ [Next]_vars => Calm
  BY RouterStays DEF Documented, First, Egress, CoreInv, Rightful
<1>4. TypeOK /\ CI /\ Unshared /\ [Next]_vars => [Calm]_vars
  BY <1>3
<1> QED BY <1>1, <1>2, <1>4, TypeCorrect, PTL DEF Spec, CoreEgressUndisturbed
=============================================================================
