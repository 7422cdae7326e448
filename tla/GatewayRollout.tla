--------------------------- MODULE GatewayRollout ---------------------------
(***************************************************************************)
(* The status a Gateway shows while its Deployment rolls out, and the      *)
(* synchronisation of the Deployments' image with the config map           *)
(* core-gateway-image.  The image controller (ConfigMapReconciller) holds  *)
(* no lock and updates the Deployments beside the CR controllers; the      *)
(* statuses are written by merge patches that have no precondition.        *)
(* Each Gateway has a facade gateway of its own: how CRs share one is      *)
(* FacadeReconciler's matter.  A Deployment has the name of its CR here.   *)
(***************************************************************************)
EXTENDS Naturals

CONSTANTS
  None,
  Gateways,        \* CRs of the kind that has a status
  Images,          \* what the config map may say
  InitialImage,    \* what it says then
  NoImage,         \* the config map is missing or empty
  MaxEvents        \* bound: CRs created, updated and deleted by users, changes
                   \* of the config map, calls that fail, and restarts

Objects ==
  [inc: Nat, gen: Nat, phase: {"", "Updating", "Updated", "BackingOff"},
   observed: Nat]
DeploymentObjects ==
  [owners: SUBSET Nat, of: [inc: Nat, gen: Nat], image: Images,
   seen: BOOLEAN, ready: BOOLEAN, rev: Nat]

ASSUME NoneAssumption == None \notin Objects \cup DeploymentObjects
ASSUME ImagesAssumption == NoImage \notin Images /\ InitialImage \in Images
ASSUME RolloutBoundAssumption == MaxEvents \in Nat

Idle == "idle"

VARIABLES
  crs,         \* API server: CR |-> its object, or None
  crCache,     \* the CR informers' caches
  born,        \* CR |-> how many objects of that name have been created
  dep,         \* API server: CR |-> its Deployment, or None
  depCache,    \* the Deployment informer's cache
  image,       \* what the config map says
  imageCache,  \* the config-map informer's cache
  unseen,      \* the config map has changed since that informer caught up
  queue,       \* CRs to reconcile
  step,        \* CR |-> where its reconcile is
  obj,         \* CR |-> the object its reconcile has in hand, or None
  read,        \* CR |-> the image its reconcile has read
  sync,        \* the image controller: [queued, step, image, todo, conflict]
  missed,      \* Deployments the image controller had no occasion to update
  events       \* how many have happened

crVars == <<crs, born>>
caches == <<crCache, depCache, imageCache>>
configMap == <<image, unseen>>
workVars == <<queue, step, obj, read>>
vars == <<crVars, caches, dep, configMap, workVars, sync, missed, events>>

-----------------------------------------------------------------------------
(* Objects                                                                 *)

\* of is the CR's object and generation a Deployment was rendered from; seen:
\* Kubernetes has started to roll this template out; ready: the replica counts
\* of the status show no replica that is not ready; rev is the resourceVersion.
NewDeployment(c) ==
  [owners |-> {obj[c].inc}, of |-> [inc |-> obj[c].inc, gen |-> obj[c].gen],
   image |-> read[c], seen |-> FALSE, ready |-> TRUE, rev |-> 0]

\* A write gives the Deployment a revision that no copy of an older one has.
Copies(c) ==
  ({dep[c], depCache[c]} \ {None})
  \cup {sync.todo[d] : d \in DOMAIN sync.todo \cap {c}}
Stored(d, c) ==
  LET free(n) == \A copy \in Copies(c) : copy.rev # n
      fresh == CHOOSE n \in 0..3 : free(n) /\ \A k \in 0..(n - 1) : ~free(k)
  IN [dep EXCEPT ![c] = [d EXCEPT !.rev = fresh]]
Conflict(c, version) == dep[c] # version

\* patchStatus: the generation is that of the object in hand.
Patched(o, phase, generation) ==
  [o EXCEPT !.phase = phase, !.observed = generation]

IsUpdatingPhase(o) == o.observed = o.gen /\ o.phase = "Updating"

-----------------------------------------------------------------------------
(* Ends of a reconcile                                                     *)

Return(c) ==
  /\ step' = [step EXCEPT ![c] = Idle]
  /\ obj' = [obj EXCEPT ![c] = None]
  /\ read' = [read EXCEPT ![c] = NoImage]

Done(c) == Return(c) /\ UNCHANGED queue

\* Mutant: a race is muted and forgotten.
MutedForGood(c) == Done(c)

Requeue(c) == Return(c) /\ queue' = queue \cup {c}

\* An ExpectedError.
Muted(c) == Requeue(c)

\* SetFail; that it fails itself is only logged.
FailedStatus(c, o) ==
  IF o # None /\ crs[c] # None
  THEN [crs EXCEPT ![c] = Patched(@, "BackingOff", o.gen)] ELSE crs
Failed(c) == Requeue(c) /\ crs' = FailedStatus(c, obj[c])

\* Nothing but the bound limits what users do and what fails.
Event == events < MaxEvents /\ events' = events + 1

Goto(c, label) == step' = [step EXCEPT ![c] = label]

-----------------------------------------------------------------------------
(* The steps of a reconcile                                                *)

\* Mutant: an empty image is taken for an image.
AnyImage == TRUE

HasImage == imageCache # NoImage

\* getCR, SetUpdating unless the status says so, GetGatewayImage: one step, for
\* what runs beside them commutes with one or the other.  The answer to the
\* patch replaces the object in hand, and a Gateway that is gone is an error.
Begin(c) ==
  /\ c \in queue /\ step[c] = Idle /\ crCache[c] # None
  /\ LET o == crCache[c]
         patch == ~IsUpdatingPhase(o)
         gone == patch /\ crs[c] = None
         inHand == IF patch /\ ~gone THEN Patched(crs[c], "Updating", o.gen) ELSE o
     IN IF gone THEN UNCHANGED <<crs, workVars>>
        ELSE IF HasImage
        THEN /\ crs' = IF patch THEN [crs EXCEPT ![c] = inHand] ELSE crs
             /\ queue' = queue \ {c}
             /\ obj' = [obj EXCEPT ![c] = inHand]
             /\ read' = [read EXCEPT ![c] = imageCache]
             /\ Goto(c, "write")
        ELSE /\ crs' = FailedStatus(c, inHand)
             /\ UNCHANGED workVars
  /\ UNCHANGED <<born, caches, dep, configMap, sync, missed, events>>

BeginRemove(c) ==
  /\ c \in queue /\ step[c] = Idle /\ crCache[c] = None
  /\ queue' = queue \ {c}
  /\ Goto(c, "remove")
  /\ UNCHANGED <<crVars, caches, dep, configMap, obj, read, sync, missed, events>>

\* Apply of the Deployment.  One that is as rendered already is not changed.
Write(c) ==
  /\ step[c] = "write"
  /\ LET new == NewDeployment(c)
         merged == [new EXCEPT !.owners = @ \cup depCache[c].owners,
                               !.ready = depCache[c].ready,
                               !.rev = depCache[c].rev]
         same == [merged EXCEPT !.seen = depCache[c].seen] = depCache[c]
     IN IF Conflict(c, depCache[c])
        THEN /\ IF dep[c] = None THEN Failed(c) ELSE Muted(c) /\ UNCHANGED crs
             /\ UNCHANGED <<dep, missed>>
        ELSE /\ dep' = IF depCache[c] = None THEN Stored(new, c)
                       ELSE IF same THEN dep ELSE Stored(merged, c)
             /\ missed' = IF read[c] # image THEN missed \cup {c} ELSE missed
             /\ Goto(c, "check")
             /\ UNCHANGED <<crs, queue, obj, read>>
  /\ UNCHANGED <<born, caches, configMap, sync, events>>

\* isDeploymentReadyInternal
DeploymentReady(c) == depCache[c] # None /\ depCache[c].ready

\* Mutant: the generation is that of the server's object.
SetUpdatedToCurrent(c) ==
  /\ step[c] = "check" /\ DeploymentReady(c)
  /\ IF crs[c] = None THEN Failed(c)
     ELSE /\ crs' = [crs EXCEPT ![c] = Patched(@, "Updated", crs[c].gen)]
          /\ Done(c)
  /\ UNCHANGED <<born, caches, dep, configMap, sync, missed, events>>

\* CheckDeploymentReady
SetUpdated(c) ==
  /\ step[c] = "check" /\ DeploymentReady(c)
  /\ IF crs[c] = None THEN Failed(c)
     ELSE /\ crs' = [crs EXCEPT ![c] = Patched(@, "Updated", obj[c].gen)]
          /\ Done(c)
  /\ UNCHANGED <<born, caches, dep, configMap, sync, missed, events>>

\* Mutant: nobody looks again.
NotReadyDone(c) ==
  /\ step[c] = "check" /\ ~DeploymentReady(c)
  /\ Done(c)
  /\ UNCHANGED <<crVars, caches, dep, configMap, sync, missed, events>>

NotReady(c) ==
  /\ step[c] = "check" /\ ~DeploymentReady(c)
  /\ Requeue(c)
  /\ UNCHANGED <<crVars, caches, dep, configMap, sync, missed, events>>

\* deleteFacadeGateway
Remove(c) ==
  /\ step[c] = "remove"
  /\ dep' = IF depCache[c] # None THEN [dep EXCEPT ![c] = None] ELSE dep
  /\ Done(c)
  /\ UNCHANGED <<crVars, caches, configMap, sync, missed, events>>

\* Any call of the reconcile fails or panics, perhaps SetFail too.
ReconcileFails(c) ==
  /\ step[c] # Idle
  /\ Event
  /\ Failed(c) \/ (Requeue(c) /\ UNCHANGED crs)
  /\ UNCHANGED <<born, caches, dep, configMap, sync, missed>>

-----------------------------------------------------------------------------
(* The image controller                                                    *)

AtRest(queued) ==
  [queued |-> queued, step |-> Idle, image |-> NoImage, todo |-> <<>>,
   conflict |-> FALSE]

\* GetGatewayImage: that the config map is missing is no error here.
ReadNewImage ==
  /\ sync.queued /\ sync.step = Idle
  /\ sync' = [sync EXCEPT !.queued = FALSE, !.step = "list", !.image = imageCache]
  /\ UNCHANGED <<crVars, caches, dep, configMap, workVars, missed, events>>

ListDeployments ==
  /\ sync.step = "list"
  /\ sync' = [sync EXCEPT !.step = "update",
                          !.todo = [c \in {d \in Gateways : depCache[d] # None} |->
                                      depCache[c]]]
  /\ missed' = LET outdated == {c \in Gateways :
                         depCache[c] # None /\ depCache[c].image # sync.image}
                IN (missed \ outdated) \cup
                   {c \in Gateways \ outdated :
                      dep[c] # None /\ dep[c].image # sync.image}
  /\ UNCHANGED <<crVars, caches, dep, configMap, workVars, events>>

Without(todo, c) == [d \in DOMAIN todo \ {c} |-> todo[d]]

\* One turn of updateImages: a conflict is remembered, any other error ends the
\* reconcile.  There is one if the Deployment is gone, and Kubernetes refuses an
\* empty image, which nobody has looked for here.
UpdateImage ==
  /\ sync.step = "update"
  /\ \E c \in DOMAIN sync.todo :
       LET found == sync.todo[c]
           rest == [sync EXCEPT !.todo = Without(@, c)]
       IN IF found.image = sync.image THEN sync' = rest /\ UNCHANGED dep
          ELSE IF dep[c] = None THEN sync' = AtRest(TRUE) /\ UNCHANGED dep
          ELSE IF Conflict(c, found)
          THEN sync' = [rest EXCEPT !.conflict = TRUE] /\ UNCHANGED dep
          ELSE IF sync.image = NoImage THEN sync' = AtRest(TRUE) /\ UNCHANGED dep
          ELSE /\ sync' = rest
               /\ dep' = Stored([found EXCEPT !.image = sync.image,
                                              !.seen = FALSE], c)
  /\ UNCHANGED <<crVars, caches, configMap, workVars, missed, events>>

\* Mutant: the conflicts are not tried again.
ImagesUpdatedForGood ==
  /\ sync.step = "update" /\ DOMAIN sync.todo = {}
  /\ sync' = AtRest(sync.queued)
  /\ UNCHANGED <<crVars, caches, dep, configMap, workVars, missed, events>>

ImagesUpdated ==
  /\ sync.step = "update" /\ DOMAIN sync.todo = {}
  /\ sync' = AtRest(sync.queued \/ sync.conflict)
  /\ UNCHANGED <<crVars, caches, dep, configMap, workVars, missed, events>>

\* Mutant: the error is logged, and the Deployments after it wait for the next
\* change of the config map.
SyncFailsForGood ==
  /\ sync.step # Idle
  /\ Event
  /\ sync' = AtRest(sync.queued)
  /\ UNCHANGED <<crVars, caches, dep, configMap, workVars, missed>>

SyncFails ==
  /\ sync.step # Idle
  /\ Event
  /\ sync' = AtRest(TRUE)
  /\ UNCHANGED <<crVars, caches, dep, configMap, workVars, missed>>

-----------------------------------------------------------------------------
(* Users, informers, Kubernetes, the operator's pod                        *)

ChangeCR ==
  /\ Event
  /\ UNCHANGED <<caches, dep, configMap, workVars, sync, missed>>

NewCR(n) == [inc |-> n, gen |-> 1, phase |-> "", observed |-> 0]

CreateCR(c) ==
  /\ crs[c] = None
  /\ crs' = [crs EXCEPT ![c] = NewCR(born[c])]
  /\ born' = [born EXCEPT ![c] = @ + 1]
  /\ ChangeCR

UpdateCR(c) ==
  /\ crs[c] # None
  /\ crs' = [crs EXCEPT ![c].gen = @ + 1]
  /\ UNCHANGED born
  /\ ChangeCR

DeleteCR(c) ==
  /\ crs[c] # None
  /\ crs' = [crs EXCEPT ![c] = None]
  /\ UNCHANGED born
  /\ ChangeCR

ChangeImage ==
  /\ Event
  /\ image' \in (Images \cup {NoImage}) \ {image}
  /\ unseen' = TRUE
  /\ UNCHANGED <<crVars, caches, dep, workVars, sync, missed>>

\* IgnoreUpdateStatusPredicate: an update that leaves the generation queues
\* nothing.
Ignored(old, new) ==
  old # None /\ new # None /\ old.inc = new.inc /\ old.gen = new.gen

SyncCR(c) ==
  /\ crCache[c] # crs[c]
  /\ crCache' = [crCache EXCEPT ![c] = crs[c]]
  /\ queue' = IF Ignored(crCache[c], crs[c]) THEN queue ELSE queue \cup {c}
  /\ UNCHANGED <<crVars, dep, depCache, configMap, imageCache, step, obj, read,
                 sync, missed, events>>

SyncDeployment(c) ==
  /\ depCache[c] # dep[c]
  /\ depCache' = [depCache EXCEPT ![c] = dep[c]]
  /\ UNCHANGED <<crVars, crCache, dep, configMap, imageCache, workVars, sync,
                 missed, events>>

\* Every change is an event, one that has been undone as well.
SyncConfigMap ==
  /\ unseen
  /\ unseen' = FALSE
  /\ imageCache' = image
  /\ sync' = [sync EXCEPT !.queued = TRUE]
  /\ UNCHANGED <<crVars, crCache, dep, depCache, image, workVars, missed, events>>

RollOut(c) ==
  /\ dep[c] # None
  /\ \/ ~dep[c].seen /\ dep' = Stored([dep[c] EXCEPT !.seen = TRUE,
                                                     !.ready = FALSE], c)
     \/ /\ dep[c].seen /\ ~dep[c].ready
        /\ dep' = Stored([dep[c] EXCEPT !.ready = TRUE], c)
  /\ UNCHANGED <<crVars, caches, configMap, workVars, sync, missed, events>>

RolledOut(c) == dep[c] # None => dep[c].seen /\ dep[c].ready

Collectable(c) ==
  dep[c] # None /\ ~(crs[c] # None /\ crs[c].inc \in dep[c].owners)

CollectGarbage(c) ==
  /\ Collectable(c)
  /\ dep' = [dep EXCEPT ![c] = None]
  /\ UNCHANGED <<crVars, caches, configMap, workVars, sync, missed, events>>

\* The config map is queued if there is one, be it empty.
Restart ==
  /\ Event
  /\ crCache' = crs /\ depCache' = dep /\ imageCache' = image
  /\ unseen' = FALSE
  /\ queue' = {c \in Gateways : crs[c] # None}
  /\ step' = [c \in Gateways |-> Idle]
  /\ obj' = [c \in Gateways |-> None]
  /\ read' = [c \in Gateways |-> NoImage]
  /\ \E queued \in {TRUE, image # NoImage} : sync' = AtRest(queued)
  /\ missed' = {}
  /\ UNCHANGED <<crVars, dep, image>>

\* Some Gateways are rolled out when the operator starts.
Init ==
  /\ image = InitialImage /\ imageCache = image /\ unseen = FALSE
  /\ \E deployed \in SUBSET Gateways :
       /\ crs = [c \in Gateways |-> IF c \notin deployed THEN None
                               ELSE Patched(NewCR(0), "Updated", 1)]
       /\ born = [c \in Gateways |-> IF c \in deployed THEN 1 ELSE 0]
       /\ dep = [c \in Gateways |->
                   IF c \notin deployed THEN None
                   ELSE [owners |-> {0}, of |-> [inc |-> 0, gen |-> 1],
                         image |-> image, seen |-> TRUE, ready |-> TRUE, rev |-> 0]]
       /\ queue = deployed
  /\ crCache = crs /\ depCache = dep
  /\ step = [c \in Gateways |-> Idle]
  /\ obj = [c \in Gateways |-> None]
  /\ read = [c \in Gateways |-> NoImage]
  /\ sync = AtRest(TRUE)
  /\ missed = {}
  /\ events = 0

Quiescent ==
  /\ queue = {} /\ \A c \in Gateways : step[c] = Idle
  /\ ~sync.queued /\ sync.step = Idle
  /\ crCache = crs /\ depCache = dep /\ ~unseen
  /\ \A c \in Gateways : ~Collectable(c) /\ RolledOut(c)

\* An operator at rest is no deadlock.
Rest == Quiescent /\ UNCHANGED vars

Reconcile(c) ==
  \/ Begin(c) \/ BeginRemove(c) \/ Write(c)
  \/ SetUpdated(c) \/ NotReady(c) \/ Remove(c)

SyncImages ==
  ReadNewImage \/ ListDeployments \/ UpdateImage \/ ImagesUpdated

Informers(c) == SyncCR(c) \/ SyncDeployment(c)

Kubernetes(c) == RollOut(c) \/ CollectGarbage(c)

Next ==
  \/ \E c \in Gateways :
       \/ Reconcile(c) \/ ReconcileFails(c) \/ Informers(c) \/ Kubernetes(c)
       \/ CreateCR(c) \/ UpdateCR(c) \/ DeleteCR(c)
  \/ SyncImages \/ SyncFails \/ SyncConfigMap \/ ChangeImage
  \/ Restart
  \/ Rest

Spec == Init /\ [][Next]_vars

\* The workers are goroutines and the informers and Kubernetes go on: weak
\* fairness of each.  Users do nothing in particular, and nothing need fail.
FairSpec ==
  /\ Spec
  /\ \A c \in Gateways :
       /\ WF_vars(Reconcile(c))
       /\ WF_vars(SyncCR(c)) /\ WF_vars(SyncDeployment(c))
       /\ WF_vars(RollOut(c)) /\ WF_vars(CollectGarbage(c))
  /\ WF_vars(SyncImages)
  /\ WF_vars(SyncConfigMap)

-----------------------------------------------------------------------------
(* Properties                                                              *)

\* The variables are well formed, and a reconcile has in hand what the next
\* call needs: an object to the end, and an image for the Deployment.
TypeOK ==
  /\ \A c \in Gateways :
       /\ {crs[c], crCache[c], obj[c]} \subseteq Objects \cup {None}
       /\ {dep[c], depCache[c]} \subseteq DeploymentObjects \cup {None}
       /\ step[c] \in {Idle, "write", "check", "remove"}
       /\ step[c] \in {"write", "check"} => obj[c] # None /\ read[c] # NoImage
  /\ {image, imageCache, sync.image} \subseteq Images \cup {NoImage}
  /\ queue \subseteq Gateways /\ missed \subseteq Gateways /\ unseen \in BOOLEAN

\* What a Gateway shows once everything is at rest is true: it is Updated, for
\* the generation its users wrote last, and the Deployment is of that one.
Reported(c) == crs[c].phase = "Updated" /\ crs[c].observed = crs[c].gen
AppliedLast(c) ==
  dep[c] # None /\ dep[c].of = [inc |-> crs[c].inc, gen |-> crs[c].gen]
StatusTrue ==
  Quiescent => \A c \in Gateways : crs[c] # None =>
                 AppliedLast(c) /\ Reported(c)

\* Every Deployment ends up with the image the config map says, whatever
\* raced or failed, unless a reconcile that had read another image wrote it
\* after the image controller; a restart mends that too.
ImagesInSync ==
  Quiescent /\ image # NoImage =>
    \A c \in Gateways : dep[c] # None => dep[c].image = image \/ c \in missed

\* A Gateway becomes Updated for the generation that its Deployment was last
\* rendered from, even when users change it while the rollout is awaited.
Status(o) == <<o.phase, o.observed>>
ObservedWasApplied ==
  [][\A c \in Gateways :
       /\ step[c] = "check" /\ {crs[c], crs'[c]} \cap {None} = {}
       /\ crs'[c].phase = "Updated" /\ Status(crs'[c]) # Status(crs[c])
       /\ obj[c].inc = crs[c].inc
       => dep[c] # None /\ dep[c].of = [inc |-> crs'[c].inc,
                                        gen |-> crs'[c].observed]]_vars

\* With an image to roll out, every Gateway is Updated in the end, for its
\* last generation: the polling of the Deployment, the retries and the image
\* controller do not keep each other busy for ever.
EventuallyReported ==
  <>[](image # NoImage) =>
    <>[](\A c \in Gateways : crs[c] # None => Reported(c))
=============================================================================
