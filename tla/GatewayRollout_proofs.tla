------------------------ MODULE GatewayRollout_proofs ------------------------
(***************************************************************************)
(* Proofs about GatewayRollout for every set of Gateways and images, and   *)
(* every bound.                                                            *)
(***************************************************************************)
EXTENDS GatewayRollout, TLAPS

Steps == {Idle, "write", "check", "remove"}
MaybeImages == Images \cup {NoImage}
Todos == UNION {[D -> DeploymentObjects] : D \in SUBSET Gateways}
Syncs ==
  [queued: BOOLEAN, step: {Idle, "list", "update"}, image: MaybeImages,
   todo: Todos, conflict: BOOLEAN]

\* TypeOK, with the functions' domains, what the image controller has listed,
\* and the images that reconciles have read.
CRTypes ==
  /\ crs \in [Gateways -> Objects \cup {None}]
  /\ crCache \in [Gateways -> Objects \cup {None}]
  /\ obj \in [Gateways -> Objects \cup {None}]
  /\ born \in [Gateways -> Nat]
DeploymentTypes ==
  /\ dep \in [Gateways -> DeploymentObjects \cup {None}]
  /\ depCache \in [Gateways -> DeploymentObjects \cup {None}]
WorkTypes ==
  /\ step \in [Gateways -> Steps]
  /\ read \in [Gateways -> MaybeImages]
  /\ queue \in SUBSET Gateways /\ missed \in SUBSET Gateways
  /\ \A c \in Gateways : step[c] \in {"write", "check"} =>
       obj[c] # None /\ read[c] # NoImage
SyncTypes ==
  /\ sync \in Syncs /\ image \in MaybeImages /\ imageCache \in MaybeImages
  /\ unseen \in BOOLEAN

Types == CRTypes /\ DeploymentTypes /\ WorkTypes /\ SyncTypes

\* Among four revisions there is one that none of three copies has.
LEMMA StoredType ==
  ASSUME Types, NEW c \in Gateways, NEW d \in DeploymentObjects
  PROVE  \E n \in Nat : Stored(d, c) = [dep EXCEPT ![c] = [d EXCEPT !.rev = n]]
<1> DEFINE free(n) == \A copy \in Copies(c) : copy.rev # n
           least(n) == free(n) /\ \A k \in 0 .. (n - 1) : ~free(k)
<1>1. PICK a, b, e : Copies(c) \subseteq {a, b, e}
  <2>1. \E e : {sync.todo[x] : x \in DOMAIN sync.todo \cap {c}} \subseteq {e}
    <3>1. {sync.todo[x] : x \in DOMAIN sync.todo \cap {c}} \subseteq {sync.todo[c]}
      OBVIOUS
    <3> QED BY <3>1
  <2> QED BY <2>1 DEF Copies
<1>2. \E n \in 0 .. 3 : free(n)
  BY <1>1
<1>3. \E n \in 0 .. 3 : least(n)
  <2> HIDE DEF free
  <2>1. CASE free(0)
    BY <2>1
  <2>2. CASE ~free(0) /\ free(1)
    BY <2>2
  <2>3. CASE ~free(0) /\ ~free(1) /\ free(2)
    BY <2>3
  <2>4. CASE ~free(0) /\ ~free(1) /\ ~free(2) /\ free(3)
    BY <2>4
  <2> QED BY <1>2, <2>1, <2>2, <2>3, <2>4
<1>4. (CHOOSE n \in 0 .. 3 : least(n)) \in Nat
  <2> HIDE DEF least
  <2> QED BY <1>3
<1> QED BY <1>4 DEF Stored

LEMMA NothingListed == <<>> \in Todos
<1>1. <<>> \in [{} -> DeploymentObjects]
  OBVIOUS
<1>2. {} \in SUBSET Gateways
  OBVIOUS
<1> QED BY <1>1, <1>2 DEF Todos

LEMMA RestType ==
  ASSUME NEW q \in BOOLEAN
  PROVE  AtRest(q) \in Syncs
BY NothingListed DEF AtRest, Syncs, MaybeImages

LEMMA PatchedType ==
  ASSUME NEW o \in Objects, NEW g \in Nat,
         NEW phase \in {"", "Updating", "Updated", "BackingOff"}
  PROVE  /\ Patched(o, phase, g) \in Objects
         /\ Patched(o, phase, g) # None
         /\ Patched(o, phase, g).inc = o.inc
         /\ Patched(o, phase, g).gen = o.gen
         /\ Patched(o, phase, g).phase = phase
         /\ Patched(o, phase, g).observed = g
BY NoneAssumption DEF Patched, Objects

LEMMA UpdatedType ==
  ASSUME NEW o \in Objects
  PROVE  /\ [o EXCEPT !.gen = o.gen + 1] \in Objects
         /\ [o EXCEPT !.gen = o.gen + 1] # None
         /\ [o EXCEPT !.gen = o.gen + 1].inc = o.inc
         /\ [o EXCEPT !.gen = o.gen + 1].phase = o.phase
         /\ [o EXCEPT !.gen = o.gen + 1].observed = o.observed
<1>1. o.gen + 1 \in Nat
  <2>1. o.gen \in Nat
    BY DEF Objects
  <2> QED BY <2>1
<1> DEFINE n == o.gen + 1
<1> HIDE DEF n
<1>2. n \in Nat
  BY <1>1 DEF n
<1>3. /\ [o EXCEPT !.gen = n] \in Objects
      /\ [o EXCEPT !.gen = n].inc = o.inc
      /\ [o EXCEPT !.gen = n].phase = o.phase
      /\ [o EXCEPT !.gen = n].observed = o.observed
  BY <1>2 DEF Objects
<1> QED BY <1>3, NoneAssumption DEF n

\* A failure gives a Gateway that is still there the phase BackingOff.
LEMMA FailedType ==
  ASSUME Types, NEW c \in Gateways, NEW o \in Objects \cup {None}
  PROVE  /\ FailedStatus(c, o) \in [Gateways -> Objects \cup {None}]
         /\ \A d \in Gateways :
              \/ FailedStatus(c, o)[d] = crs[d]
              \/ /\ crs[d] # None /\ FailedStatus(c, o)[d] # None
                 /\ FailedStatus(c, o)[d].inc = crs[d].inc
                 /\ FailedStatus(c, o)[d].gen = crs[d].gen
                 /\ FailedStatus(c, o)[d].phase = "BackingOff"
<1>1. CASE o # None /\ crs[c] # None
  <2>1. o.gen \in Nat /\ crs[c] \in Objects
    BY <1>1 DEF Types, CRTypes, Objects
  <2>2. /\ Patched(crs[c], "BackingOff", o.gen) \in Objects \ {None}
        /\ Patched(crs[c], "BackingOff", o.gen).inc = crs[c].inc
        /\ Patched(crs[c], "BackingOff", o.gen).gen = crs[c].gen
        /\ Patched(crs[c], "BackingOff", o.gen).phase = "BackingOff"
    BY <2>1, PatchedType
  <2>3. FailedStatus(c, o) = [crs EXCEPT ![c] = Patched(crs[c], "BackingOff", o.gen)]
    BY <1>1 DEF FailedStatus
  <2> QED BY <1>1, <2>2, <2>3 DEF Types, CRTypes
<1>2. CASE ~(o # None /\ crs[c] # None)
  <2>1. FailedStatus(c, o) = crs
    BY <1>2 DEF FailedStatus
  <2> QED BY <2>1 DEF Types, CRTypes
<1> QED BY <1>1, <1>2

LEMMA ReturnTypes ==
  ASSUME Types, NEW c \in Gateways, Return(c), queue' \in SUBSET Gateways,
         missed' = missed
  PROVE  WorkTypes' /\ obj' \in [Gateways -> Objects \cup {None}]
BY DEF Types, WorkTypes, CRTypes, Return, MaybeImages, Steps, Idle

LEMMA RequeueTypes ==
  ASSUME Types, NEW c \in Gateways, Requeue(c), missed' = missed
  PROVE  WorkTypes' /\ obj' \in [Gateways -> Objects \cup {None}]
<1>1. queue' \in SUBSET Gateways
  BY DEF Requeue, Types, WorkTypes
<1> QED BY <1>1, ReturnTypes DEF Requeue

LEMMA FailedTypes ==
  ASSUME Types, NEW c \in Gateways, Failed(c), missed' = missed, born' = born,
         crCache' = crCache
  PROVE  WorkTypes' /\ CRTypes'
<1>1. WorkTypes' /\ obj' \in [Gateways -> Objects \cup {None}]
  BY RequeueTypes DEF Failed
<1>2. obj[c] \in Objects \cup {None}
  BY DEF Types, CRTypes
<1>3. crs' \in [Gateways -> Objects \cup {None}]
  BY <1>2, FailedType DEF Failed
<1> QED BY <1>1, <1>3 DEF Types, CRTypes

\* What a reconcile renders is well formed.
LEMMA NewType ==
  ASSUME Types, NEW c \in Gateways, step[c] = "write"
  PROVE  /\ obj[c] \in Objects
         /\ NewDeployment(c) \in DeploymentObjects
         /\ NewDeployment(c).owners = {obj[c].inc}
         /\ NewDeployment(c).of = [inc |-> obj[c].inc, gen |-> obj[c].gen]
         /\ NewDeployment(c).image = read[c]
<1>1. obj[c] \in Objects /\ read[c] \in Images
  BY DEF Types, CRTypes, WorkTypes, MaybeImages
<1>2. obj[c].inc \in Nat /\ obj[c].gen \in Nat
  BY <1>1 DEF Objects
<1> QED BY <1>1, <1>2 DEF NewDeployment, DeploymentObjects

-----------------------------------------------------------------------------
(* Types                                                                   *)

LEMMA InitTypes == Init => Types
<1> SUFFICES ASSUME Init PROVE Types
  OBVIOUS
<1>1. NewCR(0) \in Objects /\ Patched(NewCR(0), "Updated", 1) \in Objects
  BY PatchedType DEF NewCR, Objects
<1>2. CRTypes
  BY <1>1 DEF Init, CRTypes
<1>3. DeploymentTypes
  BY ImagesAssumption DEF Init, DeploymentTypes, DeploymentObjects
<1>4. WorkTypes
  BY DEF Init, WorkTypes, Steps, Idle, MaybeImages
<1>5. SyncTypes
  BY ImagesAssumption, RestType DEF Init, SyncTypes, MaybeImages
<1> QED BY <1>2, <1>3, <1>4, <1>5 DEF Types

\* The Deployment that Write stores, if it stores one.
LEMMA WriteStores ==
  ASSUME Types, NEW c \in Gateways, Write(c), ~Conflict(c, depCache[c])
  PROVE  /\ dep' \in [Gateways -> DeploymentObjects \cup {None}]
         /\ dep'[c] # None
         /\ dep'[c].of = [inc |-> obj[c].inc, gen |-> obj[c].gen]
         /\ dep'[c].image = read[c]
         /\ obj[c].inc \in dep'[c].owners
         /\ \A d \in Gateways \ {c} : dep'[d] = dep[d]
<1> DEFINE new == NewDeployment(c)
           merged == [new EXCEPT !.owners = @ \cup depCache[c].owners,
                                 !.ready = depCache[c].ready,
                                 !.rev = depCache[c].rev]
           same == [merged EXCEPT !.seen = depCache[c].seen] = depCache[c]
<1>1. step[c] = "write" /\ dep[c] = depCache[c]
  BY DEF Write, Conflict
<1>2. dep' = IF depCache[c] = None THEN Stored(new, c)
             ELSE IF same THEN dep ELSE Stored(merged, c)
  BY DEF Write
<1>3. /\ new \in DeploymentObjects /\ new.owners = {obj[c].inc}
      /\ new.of = [inc |-> obj[c].inc, gen |-> obj[c].gen]
      /\ new.image = read[c]
  BY <1>1, NewType
<1> HIDE DEF new
<1>4. ASSUME NEW d \in DeploymentObjects, dep' = Stored(d, c),
             d.of = new.of, d.image = new.image, obj[c].inc \in d.owners
      PROVE  /\ dep' \in [Gateways -> DeploymentObjects \cup {None}]
             /\ dep'[c] # None /\ dep'[c].of = new.of
             /\ dep'[c].image = new.image
             /\ obj[c].inc \in dep'[c].owners
             /\ \A x \in Gateways \ {c} : dep'[x] = dep[x]
  <2>1. PICK n \in Nat : dep' = [dep EXCEPT ![c] = [d EXCEPT !.rev = n]]
    BY <1>4, StoredType
  <2>2. [d EXCEPT !.rev = n] \in DeploymentObjects
    BY DEF DeploymentObjects
  <2>3. /\ [d EXCEPT !.rev = n].of = d.of /\ [d EXCEPT !.rev = n].owners = d.owners
        /\ [d EXCEPT !.rev = n].image = d.image
    BY DEF DeploymentObjects
  <2> HIDE DEF DeploymentObjects
  <2> QED BY <1>4, <2>1, <2>2, <2>3, NoneAssumption DEF Types, DeploymentTypes
<1>5. CASE depCache[c] = None
  BY <1>2, <1>3, <1>4, <1>5
<1>6. CASE depCache[c] # None
  <2>1. depCache[c] \in DeploymentObjects
    BY <1>6 DEF Types, DeploymentTypes
  <2>2. /\ merged \in DeploymentObjects /\ merged.of = new.of
        /\ merged.image = new.image /\ obj[c].inc \in merged.owners
    BY <1>3, <2>1 DEF DeploymentObjects
  <2>3. CASE ~same
    <3>1. dep' = Stored(merged, c)
      BY <1>2, <1>6, <2>3
    <3> HIDE DEF merged
    <3> QED BY <1>3, <1>4, <2>2, <3>1
  <2>4. CASE same
    <3>1. /\ [merged EXCEPT !.seen = depCache[c].seen].of = merged.of
          /\ [merged EXCEPT !.seen = depCache[c].seen].image = merged.image
      BY <2>2 DEF DeploymentObjects
    <3>2. [merged EXCEPT !.seen = depCache[c].seen].owners = merged.owners
      BY <2>2 DEF DeploymentObjects
    <3>3. /\ depCache[c].of = new.of /\ depCache[c].image = new.image
          /\ obj[c].inc \in depCache[c].owners
      BY <2>2, <2>4, <3>1, <3>2
    <3>4. dep' = dep
      BY <1>2, <1>6, <2>4
    <3> QED BY <1>1, <1>3, <1>6, <3>3, <3>4 DEF Types, DeploymentTypes
  <2> QED BY <2>3, <2>4
<1> QED BY <1>3, <1>5, <1>6

\* The Deployment in hand keeps its content when its revision, its image or
\* its rollout changes.
LEMMA ChangedType ==
  ASSUME Types, NEW c \in Gateways, NEW d \in DeploymentObjects, NEW e,
         e \in DeploymentObjects, e.of = d.of, e.owners = d.owners, dep' = Stored(e, c)
  PROVE  /\ dep' \in [Gateways -> DeploymentObjects \cup {None}]
         /\ dep'[c] # None /\ dep'[c].of = d.of /\ dep'[c].owners = d.owners
         /\ dep'[c].image = e.image
         /\ \A x \in Gateways \ {c} : dep'[x] = dep[x]
<1>1. PICK n \in Nat : dep' = [dep EXCEPT ![c] = [e EXCEPT !.rev = n]]
  BY StoredType
<1>2. /\ [e EXCEPT !.rev = n] \in DeploymentObjects
      /\ [e EXCEPT !.rev = n].of = d.of /\ [e EXCEPT !.rev = n].owners = d.owners
      /\ [e EXCEPT !.rev = n].image = e.image
  BY DEF DeploymentObjects
<1> HIDE DEF DeploymentObjects
<1> QED BY <1>1, <1>2, NoneAssumption DEF Types, DeploymentTypes

\* What Kubernetes and the image controller make of a Deployment.
SameContent(c) ==
  /\ dep' \in [Gateways -> DeploymentObjects \cup {None}]
  /\ dep'[c] # None /\ dep'[c].of = dep[c].of /\ dep'[c].owners = dep[c].owners
  /\ \A x \in Gateways \ {c} : dep'[x] = dep[x]

LEMMA RollOutKeeps ==
  ASSUME Types, NEW c \in Gateways, RollOut(c)
  PROVE  SameContent(c) /\ dep[c] # None /\ dep'[c].image = dep[c].image
<1>1. dep[c] \in DeploymentObjects /\ dep[c] # None
  BY DEF RollOut, Types, DeploymentTypes
<1>2. /\ [dep[c] EXCEPT !.seen = TRUE, !.ready = FALSE] \in DeploymentObjects
      /\ [dep[c] EXCEPT !.seen = TRUE, !.ready = FALSE].of = dep[c].of
      /\ [dep[c] EXCEPT !.seen = TRUE, !.ready = FALSE].owners = dep[c].owners
      /\ [dep[c] EXCEPT !.seen = TRUE, !.ready = FALSE].image = dep[c].image
      /\ [dep[c] EXCEPT !.ready = TRUE] \in DeploymentObjects
      /\ [dep[c] EXCEPT !.ready = TRUE].of = dep[c].of
      /\ [dep[c] EXCEPT !.ready = TRUE].owners = dep[c].owners
      /\ [dep[c] EXCEPT !.ready = TRUE].image = dep[c].image
  BY <1>1 DEF DeploymentObjects
<1>3. \E e \in DeploymentObjects : /\ e.of = dep[c].of /\ e.owners = dep[c].owners
                                   /\ e.image = dep[c].image /\ dep' = Stored(e, c)
  BY <1>2 DEF RollOut
<1> QED BY <1>1, <1>3, ChangedType DEF SameContent

LEMMA UpdateImageKeeps ==
  ASSUME Types, UpdateImage
  PROVE  /\ sync' \in Syncs
         /\ \/ dep' = dep
            \/ \E c \in Gateways : /\ dep[c] # None /\ SameContent(c)
                                  /\ dep'[c].image = sync.image
<1>1. PICK c \in DOMAIN sync.todo :
        LET found == sync.todo[c]
            rest == [sync EXCEPT !.todo = Without(@, c)]
        IN IF found.image = sync.image THEN sync' = rest /\ UNCHANGED dep
           ELSE IF dep[c] = None THEN sync' = AtRest(TRUE) /\ UNCHANGED dep
           ELSE IF Conflict(c, found)
           THEN sync' = [rest EXCEPT !.conflict = TRUE] /\ UNCHANGED dep
           ELSE IF sync.image = NoImage THEN sync' = AtRest(TRUE) /\ UNCHANGED dep
           ELSE /\ sync' = rest
                /\ dep' = Stored([found EXCEPT !.image = sync.image, !.seen = FALSE], c)
  BY DEF UpdateImage
<1> DEFINE found == sync.todo[c]
           rest == [sync EXCEPT !.todo = Without(@, c)]
           new == [found EXCEPT !.image = sync.image, !.seen = FALSE]
<1>2. PICK D \in SUBSET Gateways : sync.todo \in [D -> DeploymentObjects]
  BY DEF Types, SyncTypes, Syncs, Todos
<1>3. c \in Gateways /\ found \in DeploymentObjects
  BY <1>2
<1>4. rest \in Syncs /\ [rest EXCEPT !.conflict = TRUE] \in Syncs
  <2>1. Without(sync.todo, c) \in [D \ {c} -> DeploymentObjects]
    BY <1>2 DEF Without
  <2>2. Without(sync.todo, c) \in Todos
    BY <2>1 DEF Todos
  <2> QED BY <2>2 DEF Types, SyncTypes, Syncs
<1>5. sync' \in Syncs
  BY <1>1, <1>4, RestType
<1>6. CASE dep' = dep
  BY <1>5, <1>6
<1>7. CASE dep' # dep
  <2>1. /\ dep[c] = found /\ dep[c] # None /\ sync.image # NoImage
        /\ dep' = Stored(new, c)
    BY <1>1, <1>7 DEF Conflict
  <2>2. sync.image \in Images
    BY <2>1 DEF Types, SyncTypes, Syncs, MaybeImages
  <2>3. /\ new \in DeploymentObjects /\ new.of = dep[c].of /\ new.owners = dep[c].owners
        /\ new.image = sync.image
    BY <1>3, <2>1, <2>2 DEF DeploymentObjects
  <2> HIDE DEF new
  <2>4. SameContent(c) /\ dep'[c].image = sync.image
    BY <1>3, <2>1, <2>3, ChangedType DEF SameContent
  <2> QED BY <1>3, <1>5, <2>1, <2>4
<1> QED BY <1>6, <1>7

\* Begin: the object in hand is one of its Gateway's, and its phase is not
\* Updated where the status was changed.
LEMMA BeginGives ==
  ASSUME Types, NEW c \in Gateways, Begin(c)
  PROVE  /\ CRTypes' /\ WorkTypes'
         /\ \A d \in Gateways :
              \/ crs'[d] = crs[d]
              \/ /\ crs[d] # None /\ crs'[d] # None
                 /\ crs'[d].inc = crs[d].inc /\ crs'[d].gen = crs[d].gen
                 /\ crs'[d].phase # "Updated"
         /\ \A d \in Gateways : step'[d] = "check" => step[d] = "check" /\ obj'[d] = obj[d]
         /\ \A d \in Gateways : obj'[d] \in {obj[d], crs'[d], crCache[d]}
<1> DEFINE o == crCache[c]
           patch == ~IsUpdatingPhase(o)
           gone == patch /\ crs[c] = None
           inHand == IF patch /\ ~gone THEN Patched(crs[c], "Updating", o.gen) ELSE o
<1>1. o \in Objects /\ o # None /\ o.gen \in Nat
  BY DEF Begin, Types, CRTypes, Objects
<1>2. CASE gone
  <2>1. UNCHANGED <<crs, born, crCache, missed, queue, step, obj, read>>
    BY <1>2 DEF Begin, caches, configMap, workVars
  <2> QED BY <2>1 DEF Types, CRTypes, WorkTypes
<1>3. CASE ~gone
  <2>1. /\ inHand \in Objects /\ inHand # None
        /\ patch => /\ crs[c] \in Objects /\ crs[c] # None
                    /\ inHand.inc = crs[c].inc /\ inHand.gen = crs[c].gen
                    /\ inHand.phase = "Updating"
        /\ ~patch => inHand = crCache[c]
    <3>1. CASE patch
      <4>1. crs[c] \in Objects /\ crs[c] # None
        BY <1>3, <3>1 DEF Types, CRTypes
      <4>2. inHand = Patched(crs[c], "Updating", o.gen)
        BY <1>3, <3>1
      <4> QED BY <1>1, <3>1, <4>1, <4>2, PatchedType
    <3>2. CASE ~patch
      BY <1>1, <3>2
    <3> QED BY <3>1, <3>2
  <2>2. CASE HasImage
    <3>1. /\ crs' = IF patch THEN [crs EXCEPT ![c] = inHand] ELSE crs
          /\ queue' = queue \ {c} /\ obj' = [obj EXCEPT ![c] = inHand]
          /\ read' = [read EXCEPT ![c] = imageCache]
          /\ step' = [step EXCEPT ![c] = "write"]
      BY <1>3, <2>2 DEF Begin, Goto
    <3>2. UNCHANGED <<born, crCache, missed>>
      BY DEF Begin, caches, configMap
    <3> HIDE DEF inHand, patch
    <3>3. CRTypes'
      BY <2>1, <3>1, <3>2 DEF Types, CRTypes
    <3>4. WorkTypes'
      BY <2>1, <2>2, <3>1, <3>2 DEF Types, CRTypes, WorkTypes, SyncTypes, HasImage, Steps
    <3> QED BY <2>1, <3>1, <3>3, <3>4 DEF Types, CRTypes, WorkTypes
  <2>3. CASE ~HasImage
    <3>1. crs' = FailedStatus(c, inHand) /\ UNCHANGED workVars
      BY <1>3, <2>3 DEF Begin
    <3>2. UNCHANGED <<born, crCache, missed>>
      BY DEF Begin, caches, configMap
    <3> HIDE DEF inHand, patch
    <3>3. /\ crs' \in [Gateways -> Objects \cup {None}]
          /\ \A d \in Gateways :
               \/ crs'[d] = crs[d]
               \/ /\ crs[d] # None /\ crs'[d] # None
                  /\ crs'[d].inc = crs[d].inc /\ crs'[d].gen = crs[d].gen
                  /\ crs'[d].phase = "BackingOff"
      BY <2>1, <3>1, FailedType
    <3> QED BY <3>1, <3>2, <3>3 DEF Types, CRTypes, WorkTypes, workVars
  <2> QED BY <2>2, <2>3
<1> QED BY <1>2, <1>3

LEMMA TypesNext == Types /\ [Next]_vars => Types'
<1> SUFFICES ASSUME Types, [Next]_vars PROVE Types'
  OBVIOUS
<1> USE DEF Types
<1>1. ASSUME NEW c \in Gateways, Begin(c) PROVE Types'
  <2>1. CRTypes' /\ WorkTypes'
    BY <1>1, BeginGives
  <2> QED BY <1>1, <2>1 DEF Begin, caches, configMap, DeploymentTypes, SyncTypes
<1>2. ASSUME NEW c \in Gateways, BeginRemove(c) PROVE Types'
  BY <1>2 DEF BeginRemove, Goto, caches, configMap, crVars, CRTypes, DeploymentTypes, WorkTypes,
     SyncTypes, Steps
<1>3. ASSUME NEW c \in Gateways, Write(c) PROVE Types'
  <2>1. UNCHANGED <<born, crCache, depCache, imageCache, image, unseen, sync>>
    BY <1>3 DEF Write, caches, configMap
  <2>2. CASE Conflict(c, depCache[c])
    <3>1. /\ Failed(c) \/ (Muted(c) /\ UNCHANGED crs)
          /\ UNCHANGED <<dep, missed>>
      BY <1>3, <2>2 DEF Write
    <3>2. WorkTypes' /\ CRTypes'
      <4>1. CASE Failed(c)
        BY <2>1, <3>1, <4>1, FailedTypes
      <4>2. CASE Muted(c) /\ UNCHANGED crs
        BY <2>1, <3>1, <4>2, RequeueTypes DEF Muted, CRTypes
      <4> QED BY <3>1, <4>1, <4>2
    <3> QED BY <2>1, <3>1, <3>2 DEF DeploymentTypes, SyncTypes
  <2>3. CASE ~Conflict(c, depCache[c])
    <3>1. /\ missed' = IF read[c] # image THEN missed \cup {c} ELSE missed
          /\ Goto(c, "check") /\ step[c] = "write"
          /\ UNCHANGED <<crs, queue, obj, read>>
      BY <1>3, <2>3 DEF Write
    <3>2. WorkTypes' /\ CRTypes'
      BY <2>1, <3>1 DEF Goto, CRTypes, WorkTypes, Steps
    <3>3. DeploymentTypes'
      BY <1>3, <2>1, <2>3, WriteStores DEF DeploymentTypes
    <3> QED BY <2>1, <3>2, <3>3 DEF SyncTypes
  <2> QED BY <2>2, <2>3
<1>4. ASSUME NEW c \in Gateways, SetUpdated(c) PROVE Types'
  <2>1. UNCHANGED <<born, crCache, dep, depCache, imageCache, image, unseen, sync, missed>>
    BY <1>4 DEF SetUpdated, caches, configMap
  <2>2. CASE crs[c] = None
    <3>1. Failed(c)
      BY <1>4, <2>2 DEF SetUpdated
    <3> QED BY <2>1, <3>1, FailedTypes DEF DeploymentTypes, SyncTypes
  <2>3. CASE crs[c] # None
    <3>1. /\ crs' = [crs EXCEPT ![c] = Patched(crs[c], "Updated", obj[c].gen)]
          /\ Return(c) /\ UNCHANGED queue /\ step[c] = "check"
      BY <1>4, <2>3 DEF SetUpdated, Done
    <3>2. crs[c] \in Objects /\ obj[c] \in Objects
      BY <2>3, <3>1 DEF CRTypes, WorkTypes
    <3>3. Patched(crs[c], "Updated", obj[c].gen) \in Objects
      BY <3>2, PatchedType DEF Objects
    <3>4. WorkTypes' /\ obj' \in [Gateways -> Objects \cup {None}]
      BY <2>1, <3>1, ReturnTypes DEF WorkTypes
    <3> QED BY <2>1, <3>1, <3>3, <3>4 DEF CRTypes, DeploymentTypes, SyncTypes
  <2> QED BY <2>2, <2>3
<1>5. ASSUME NEW c \in Gateways, NotReady(c) PROVE Types'
  <2>1. /\ UNCHANGED <<crs, born, crCache, dep, depCache, imageCache, image, unseen, sync, missed>>
        /\ Requeue(c)
    BY <1>5 DEF NotReady, caches, configMap, crVars
  <2> QED BY <2>1, RequeueTypes DEF CRTypes, DeploymentTypes, SyncTypes
<1>6. ASSUME NEW c \in Gateways, Remove(c) PROVE Types'
  <2>1. /\ UNCHANGED <<crs, born, crCache, depCache, imageCache, image, unseen, sync, missed, queue>>
        /\ Return(c)
        /\ dep' = dep \/ dep' = [dep EXCEPT ![c] = None]
    BY <1>6 DEF Remove, Done, caches, configMap, crVars
  <2>2. WorkTypes' /\ obj' \in [Gateways -> Objects \cup {None}]
    BY <2>1, ReturnTypes DEF WorkTypes
  <2> QED BY <2>1, <2>2 DEF CRTypes, DeploymentTypes, SyncTypes
<1>7. ASSUME NEW c \in Gateways, ReconcileFails(c) PROVE Types'
  <2>1. /\ UNCHANGED <<born, crCache, dep, depCache, imageCache, image, unseen, sync, missed>>
        /\ Failed(c) \/ (Requeue(c) /\ UNCHANGED crs)
    BY <1>7 DEF ReconcileFails, caches, configMap
  <2>2. WorkTypes' /\ CRTypes'
    <3>1. CASE Failed(c)
      BY <2>1, <3>1, FailedTypes
    <3>2. CASE Requeue(c) /\ UNCHANGED crs
      BY <2>1, <3>2, RequeueTypes DEF CRTypes
    <3> QED BY <2>1, <3>1, <3>2
  <2> QED BY <2>1, <2>2 DEF DeploymentTypes, SyncTypes
<1>8. ASSUME NEW c \in Gateways, CreateCR(c) \/ UpdateCR(c) \/ DeleteCR(c) PROVE Types'
  <2>1. UNCHANGED <<crCache, dep, depCache, imageCache, image, unseen, queue, step, obj,
                    read, sync, missed>>
    BY <1>8 DEF CreateCR, UpdateCR, DeleteCR, ChangeCR, caches, configMap, workVars
  <2>2. CRTypes'
    <3>1. CASE CreateCR(c)
      <4>1. NewCR(born[c]) \in Objects
        BY DEF NewCR, Objects, CRTypes
      <4> QED BY <2>1, <3>1, <4>1 DEF CreateCR, CRTypes
    <3>2. CASE UpdateCR(c)
      <4>1. crs[c] \in Objects /\ crs' = [crs EXCEPT ![c].gen = @ + 1] /\ born' = born
        BY <3>2 DEF UpdateCR, CRTypes
      <4>2. [crs[c] EXCEPT !.gen = crs[c].gen + 1] \in Objects
        BY <4>1, UpdatedType
      <4>3. crs' = [crs EXCEPT ![c] = [crs[c] EXCEPT !.gen = crs[c].gen + 1]]
        BY <4>1 DEF CRTypes
      <4> QED BY <2>1, <4>1, <4>2, <4>3 DEF CRTypes
    <3>3. CASE DeleteCR(c)
      BY <2>1, <3>3 DEF DeleteCR, CRTypes
    <3> QED BY <1>8, <3>1, <3>2, <3>3
  <2> QED BY <2>1, <2>2 DEF DeploymentTypes, WorkTypes, SyncTypes
<1>9. ASSUME NEW c \in Gateways, SyncCR(c) \/ SyncDeployment(c) PROVE Types'
  BY <1>9 DEF SyncCR, SyncDeployment, crVars, configMap, workVars, CRTypes, DeploymentTypes,
     WorkTypes, SyncTypes
<1>10. ASSUME NEW c \in Gateways, RollOut(c) \/ CollectGarbage(c) PROVE Types'
  <2>1. UNCHANGED <<crs, born, crCache, depCache, imageCache, image, unseen, queue, step,
                    obj, read, sync, missed>>
    BY <1>10 DEF RollOut, CollectGarbage, crVars, caches, configMap, workVars
  <2>2. dep' \in [Gateways -> DeploymentObjects \cup {None}]
    BY <1>10, RollOutKeeps DEF SameContent, CollectGarbage, DeploymentTypes
  <2> QED BY <2>1, <2>2 DEF CRTypes, DeploymentTypes, WorkTypes, SyncTypes
<1>11. ASSUME UpdateImage PROVE Types'
  <2>1. UNCHANGED <<crs, born, crCache, depCache, imageCache, image, unseen, queue, step,
                    obj, read, missed>>
    BY <1>11 DEF UpdateImage, crVars, caches, configMap, workVars
  <2>2. sync' \in Syncs /\ dep' \in [Gateways -> DeploymentObjects \cup {None}]
    BY <1>11, UpdateImageKeeps DEF SameContent, DeploymentTypes
  <2> QED BY <2>1, <2>2 DEF CRTypes, DeploymentTypes, WorkTypes, SyncTypes
<1>12. ASSUME ReadNewImage \/ ListDeployments \/ ImagesUpdated \/ SyncFails \/ SyncConfigMap
       PROVE  Types'
  <2>1. UNCHANGED <<crs, born, crCache, dep, depCache, image, queue, step, obj, read>>
    BY <1>12 DEF ReadNewImage, ListDeployments, ImagesUpdated, SyncFails, SyncConfigMap,
       crVars, caches, configMap, workVars
  <2>2. sync' \in Syncs
    <3>1. CASE ListDeployments
      <4> DEFINE listed == [c \in {d \in Gateways : depCache[d] # None} |-> depCache[c]]
      <4>1. listed \in [{d \in Gateways : depCache[d] # None} -> DeploymentObjects]
        BY DEF DeploymentTypes
      <4>2. listed \in Todos
        BY <4>1 DEF Todos
      <4> HIDE DEF listed
      <4>3. sync' = [sync EXCEPT !.step = "update", !.todo = listed]
        BY <3>1 DEF ListDeployments, listed
      <4> QED BY <4>2, <4>3 DEF SyncTypes, Syncs
    <3>2. CASE ~ListDeployments
      <4>1. \/ sync' = [sync EXCEPT !.queued = FALSE, !.step = "list", !.image = imageCache]
            \/ sync' = AtRest(sync.queued \/ sync.conflict)
            \/ sync' = AtRest(TRUE)
            \/ sync' = [sync EXCEPT !.queued = TRUE]
        BY <1>12, <3>2 DEF ReadNewImage, ImagesUpdated, SyncFails, SyncConfigMap
      <4>2. (sync.queued \/ sync.conflict) \in BOOLEAN
        BY DEF SyncTypes, Syncs
      <4> QED BY <4>1, <4>2, RestType DEF SyncTypes, Syncs
    <3> QED BY <3>1, <3>2
  <2>3. /\ imageCache' \in MaybeImages /\ missed' \in SUBSET Gateways
        /\ unseen' \in BOOLEAN
    BY <1>12 DEF ReadNewImage, ListDeployments, ImagesUpdated, SyncFails, SyncConfigMap,
       caches, configMap, SyncTypes, WorkTypes
  <2> QED BY <2>1, <2>2, <2>3 DEF CRTypes, DeploymentTypes, WorkTypes, SyncTypes
<1>13. ASSUME ChangeImage PROVE Types'
  BY <1>13 DEF ChangeImage, crVars, caches, configMap, workVars, CRTypes, DeploymentTypes,
     WorkTypes, SyncTypes, MaybeImages
<1>14. ASSUME Restart PROVE Types'
  <2>1. sync' \in Syncs
    BY <1>14, RestType DEF Restart
  <2> QED BY <1>14, <2>1 DEF Restart, crVars, CRTypes, DeploymentTypes, WorkTypes,
      SyncTypes, MaybeImages, Steps, Idle
<1>15. ASSUME UNCHANGED vars PROVE Types'
  BY <1>15 DEF vars, crVars, caches, configMap, workVars, CRTypes, DeploymentTypes, WorkTypes,
     SyncTypes
<1> QED
  <2> HIDE DEF Types
  <2> QED BY <1>1, <1>2, <1>3, <1>4, <1>5, <1>6, <1>7, <1>8, <1>9, <1>10, <1>11, <1>12,
      <1>13, <1>14, <1>15
      DEF Next, Reconcile, Informers, Kubernetes, SyncImages, Rest

\* The variables of GatewayRollout keep their types: a reconcile that is about
\* to write has an object and an image in hand, and neither a reconcile nor the
\* image controller gives a Deployment the empty image.
THEOREM RolloutTypeCorrect == Spec => []TypeOK
<1>1. Types => TypeOK
  BY DEF Types, CRTypes, DeploymentTypes, WorkTypes, SyncTypes, Syncs, MaybeImages, Steps,
     TypeOK
<1> QED BY <1>1, InitTypes, TypesNext, PTL DEF Spec

-----------------------------------------------------------------------------
(* What a Gateway is reported to be                                        *)

\* The objects of a Gateway's name are numbered.
Numbered ==
  \A c \in Gateways :
    \A o \in {crs[c], crCache[c], obj[c]} \ {None} : o.inc < born[c]

\* While a reconcile checks the Deployment, the last write of it is its own, if
\* the Gateway is the one it has in hand: nobody else renders that Deployment,
\* and one that its Gateway owns is not collected.
OwnWrite(c) ==
  /\ dep[c] # None
  /\ dep[c].of = [inc |-> obj[c].inc, gen |-> obj[c].gen]
  /\ obj[c].inc \in dep[c].owners
LastWriteOwn ==
  \A c \in Gateways :
    step[c] = "check" /\ crs[c] # None /\ crs[c].inc = obj[c].inc => OwnWrite(c)

IInv == Types /\ Numbered /\ LastWriteOwn

LEMMA InitIInv == Init => IInv
<1> SUFFICES ASSUME Init PROVE IInv
  OBVIOUS
<1>1. Types
  BY InitTypes
<1>2. ASSUME NEW c \in Gateways, crs[c] # None
      PROVE  crs[c].inc = 0 /\ born[c] = 1
  <2>1. crs[c] = Patched(NewCR(0), "Updated", 1) /\ born[c] = 1
    BY <1>2 DEF Init
  <2>2. NewCR(0) \in Objects /\ NewCR(0).inc = 0
    BY DEF NewCR, Objects
  <2>3. Patched(NewCR(0), "Updated", 1).inc = NewCR(0).inc
    BY DEF NewCR, Patched
  <2> QED BY <2>1, <2>2, <2>3
<1>3. Numbered
  BY <1>2 DEF Init, Numbered
<1>4. LastWriteOwn
  BY DEF Init, LastWriteOwn, Idle
<1> QED BY <1>1, <1>3, <1>4 DEF IInv

\* A step changes the Gateway of a name in one of three ways: its users delete
\* it or create it anew, or it keeps its number, and becomes Updated only when
\* its reconcile checks the Deployment.
GatewayChange(c) ==
  /\ crs'[c] = crs[c] => born'[c] = born[c]
  /\ \/ crs'[c] = crs[c]
     \/ crs'[c] = None /\ born'[c] = born[c]
     \/ /\ crs[c] = None /\ crs'[c] # None
        /\ crs'[c].inc = born[c] /\ born'[c] = born[c] + 1
     \/ /\ crs[c] # None /\ crs'[c] # None /\ crs'[c].inc = crs[c].inc
        /\ born'[c] = born[c]
        /\ \/ Status(crs'[c]) = Status(crs[c])
           \/ crs'[c].phase # "Updated"
           \/ step[c] = "check" /\ crs'[c].observed = obj[c].gen

\* What is copied of a Gateway.
CopyChange(c) ==
  /\ crCache'[c] \in {crCache[c], crs[c]}
  /\ obj'[c] \in {obj[c], None, crs'[c], crCache[c]}

\* A reconcile that checks the Deployment has just written it, or goes on
\* checking, and then its write stands.
CheckChange(c) ==
  step'[c] = "check" =>
    \/ OwnWrite(c)'
    \/ /\ step[c] = "check" /\ obj'[c] = obj[c]
       /\ OwnWrite(c) /\ crs[c] # None /\ crs[c].inc = obj[c].inc => OwnWrite(c)'

Change(c) == GatewayChange(c) /\ CopyChange(c) /\ CheckChange(c)

LEMMA WorkChange ==
  ASSUME Types, NEW d \in Gateways, Return(d),
         \/ crs' = crs
         \/ crs' = FailedStatus(d, obj[d])
         \/ /\ step[d] = "check" /\ crs[d] # None
            /\ crs' = [crs EXCEPT ![d] = Patched(crs[d], "Updated", obj[d].gen)],
         born' = born, crCache' = crCache,
         dep' = dep \/ (step[d] = "remove" /\ dep' = [dep EXCEPT ![d] = None]),
         NEW c \in Gateways
  PROVE  Change(c)
<1>1. GatewayChange(c)
  <2>1. CASE crs' = crs
    BY <2>1 DEF GatewayChange
  <2>2. CASE crs' = FailedStatus(d, obj[d])
    <3>1. obj[d] \in Objects \cup {None}
      BY DEF Types, CRTypes
    <3>2. \/ crs'[c] = crs[c]
          \/ /\ crs[c] # None /\ crs'[c] # None /\ crs'[c].inc = crs[c].inc
             /\ crs'[c].phase = "BackingOff"
      BY <2>2, <3>1, FailedType
    <3> QED BY <3>2 DEF GatewayChange
  <2>3. CASE /\ step[d] = "check" /\ crs[d] # None
             /\ crs' = [crs EXCEPT ![d] = Patched(crs[d], "Updated", obj[d].gen)]
    <3>1. crs[d] \in Objects /\ obj[d] \in Objects
      BY <2>3 DEF Types, CRTypes, WorkTypes
    <3>2. obj[d].gen \in Nat
      BY <3>1 DEF Objects
    <3> DEFINE new == Patched(crs[d], "Updated", obj[d].gen)
    <3>3. /\ new \in Objects /\ new # None
          /\ new.inc = crs[d].inc /\ new.observed = obj[d].gen
      BY <3>1, <3>2, PatchedType
    <3> HIDE DEF new
    <3>4. crs' = [crs EXCEPT ![d] = new] /\ crs'[d] = new
      BY <2>3 DEF new, Types, CRTypes
    <3>5. c # d => crs'[c] = crs[c]
      BY <3>4 DEF Types, CRTypes
    <3> QED BY <2>3, <3>3, <3>4, <3>5 DEF GatewayChange
  <2> QED BY <2>1, <2>2, <2>3
<1>2. CopyChange(c)
  BY DEF Return, CopyChange, Types, CRTypes
<1>3. CheckChange(c)
  BY DEF Return, CheckChange, OwnWrite, Types, CRTypes, WorkTypes, DeploymentTypes, Idle
<1> QED BY <1>1, <1>2, <1>3 DEF Change

LEMMA NothingChanges ==
  ASSUME NEW c \in Gateways, UNCHANGED <<crs, born, step, obj>>,
         crCache'[c] \in {crCache[c], crs[c]},
         OwnWrite(c) /\ crs[c] # None /\ crs[c].inc = obj[c].inc => OwnWrite(c)'
  PROVE  Change(c)
BY DEF Change, GatewayChange, CopyChange, CheckChange

LEMMA NextChange ==
  ASSUME Types, [Next]_vars, NEW c \in Gateways
  PROVE  Change(c)
<1>1. ASSUME NEW d \in Gateways, Begin(d) PROVE Change(c)
  <2>1. UNCHANGED <<born, crCache, dep>>
    BY <1>1 DEF Begin, caches
  <2>2. GatewayChange(c) /\ CopyChange(c)
    BY <1>1, <2>1, BeginGives DEF GatewayChange, CopyChange
  <2>3. step'[c] = "check" => step[c] = "check" /\ obj'[c] = obj[c]
    BY <1>1, BeginGives
  <2>4. CheckChange(c)
    BY <2>1, <2>3 DEF CheckChange, OwnWrite
  <2> QED BY <2>2, <2>4 DEF Change
<1>2. ASSUME NEW d \in Gateways, BeginRemove(d) PROVE Change(c)
  <2>1. /\ UNCHANGED <<crs, born, crCache, dep, obj>>
        /\ step' = [step EXCEPT ![d] = "remove"]
    BY <1>2 DEF BeginRemove, Goto, crVars, caches
  <2> QED BY <2>1 DEF Change, GatewayChange, CopyChange, CheckChange, OwnWrite, Types,
      WorkTypes
<1>3. ASSUME NEW d \in Gateways, Write(d) PROVE Change(c)
  <2>1. UNCHANGED <<born, crCache>>
    BY <1>3 DEF Write, caches
  <2>2. CASE Conflict(d, depCache[d])
    <3>1. /\ Failed(d) \/ (Muted(d) /\ UNCHANGED crs)
          /\ UNCHANGED dep
      BY <1>3, <2>2 DEF Write
    <3> QED BY <2>1, <3>1, WorkChange DEF Failed, Muted, Requeue
  <2>3. CASE ~Conflict(d, depCache[d])
    <3>1. UNCHANGED <<crs, obj>> /\ step' = [step EXCEPT ![d] = "check"]
      BY <1>3, <2>3 DEF Write, Goto
    <3>2. GatewayChange(c) /\ CopyChange(c)
      BY <2>1, <3>1 DEF GatewayChange, CopyChange
    <3>3. CheckChange(c)
      <4>1. CASE c = d
        <5>1. OwnWrite(c)'
          BY <1>3, <2>3, <3>1, <4>1, WriteStores DEF OwnWrite
        <5> QED BY <5>1 DEF CheckChange
      <4>2. CASE c # d
        <5>1. dep'[c] = dep[c] /\ step'[c] = step[c]
          BY <1>3, <2>3, <3>1, <4>2, WriteStores DEF Types, WorkTypes
        <5> QED BY <3>1, <5>1 DEF CheckChange, OwnWrite
      <4> QED BY <4>1, <4>2
    <3> QED BY <3>2, <3>3 DEF Change
  <2> QED BY <2>2, <2>3
<1>4. ASSUME NEW d \in Gateways, SetUpdated(d) \/ NotReady(d) \/ ReconcileFails(d)
      PROVE  Change(c)
  <2>1. UNCHANGED <<born, crCache, dep>> /\ Return(d)
    BY <1>4 DEF SetUpdated, NotReady, ReconcileFails, caches, crVars, Failed, Requeue, Done
  <2>2. \/ crs' = crs
        \/ crs' = FailedStatus(d, obj[d])
        \/ /\ step[d] = "check" /\ crs[d] # None
           /\ crs' = [crs EXCEPT ![d] = Patched(crs[d], "Updated", obj[d].gen)]
    BY <1>4 DEF SetUpdated, NotReady, ReconcileFails, crVars, Failed
  <2> QED BY <2>1, <2>2, WorkChange
<1>5. ASSUME NEW d \in Gateways, Remove(d) PROVE Change(c)
  <2>1. /\ UNCHANGED <<crs, born, crCache>> /\ Return(d)
        /\ dep' = dep \/ (step[d] = "remove" /\ dep' = [dep EXCEPT ![d] = None])
    BY <1>5 DEF Remove, Done, caches, crVars
  <2> QED BY <2>1, WorkChange
<1>6. ASSUME NEW d \in Gateways, CreateCR(d) \/ UpdateCR(d) \/ DeleteCR(d) PROVE Change(c)
  <2>1. UNCHANGED <<crCache, dep, step, obj>>
    BY <1>6 DEF CreateCR, UpdateCR, DeleteCR, ChangeCR, caches, workVars
  <2>2. CopyChange(c) /\ CheckChange(c)
    BY <2>1 DEF CopyChange, CheckChange, OwnWrite
  <2>3. GatewayChange(c)
    <3>1. CASE CreateCR(d)
      <4>1. NewCR(born[d]) \in Objects /\ NewCR(born[d]).inc = born[d]
        BY DEF NewCR, Objects, Types, CRTypes
      <4>2. NewCR(born[d]) # None
        BY <4>1, NoneAssumption
      <4> QED BY <3>1, <4>1, <4>2 DEF CreateCR, GatewayChange, Types, CRTypes
    <3>2. CASE UpdateCR(d)
      <4>1. crs[d] \in Objects /\ crs[d] # None /\ born' = born
        BY <3>2 DEF UpdateCR, Types, CRTypes
      <4>2. crs' = [crs EXCEPT ![d] = [crs[d] EXCEPT !.gen = crs[d].gen + 1]]
        BY <3>2 DEF UpdateCR, Types, CRTypes
      <4> DEFINE new == [crs[d] EXCEPT !.gen = crs[d].gen + 1]
      <4>3. /\ new # None /\ new.inc = crs[d].inc
            /\ new.phase = crs[d].phase /\ new.observed = crs[d].observed
        BY <4>1, UpdatedType
      <4> HIDE DEF new
      <4>4. crs' = [crs EXCEPT ![d] = new]
        BY <4>2 DEF new
      <4> QED BY <4>1, <4>3, <4>4 DEF GatewayChange, Status, Types, CRTypes
    <3>3. CASE DeleteCR(d)
      BY <3>3 DEF DeleteCR, GatewayChange, Types, CRTypes
    <3> QED BY <1>6, <3>1, <3>2, <3>3
  <2> QED BY <2>2, <2>3 DEF Change
<1>7. ASSUME NEW d \in Gateways, SyncCR(d) \/ SyncDeployment(d) PROVE Change(c)
  <2>1. UNCHANGED <<crs, born, dep, step, obj>>
    BY <1>7 DEF SyncCR, SyncDeployment, crVars, workVars
  <2>2. crCache'[c] \in {crCache[c], crs[c]}
    BY <1>7 DEF SyncCR, SyncDeployment, Types, CRTypes
  <2> QED BY <2>1, <2>2, NothingChanges DEF OwnWrite
<1>8. ASSUME NEW d \in Gateways, RollOut(d) PROVE Change(c)
  <2>1. UNCHANGED <<crs, born, crCache, step, obj>>
    BY <1>8 DEF RollOut, crVars, caches, workVars
  <2> QED BY <1>8, <2>1, RollOutKeeps, NothingChanges DEF OwnWrite, SameContent
<1>9. ASSUME NEW d \in Gateways, CollectGarbage(d) PROVE Change(c)
  <2>1. /\ UNCHANGED <<crs, born, crCache, step, obj>>
        /\ dep' = [dep EXCEPT ![d] = None]
        /\ ~(crs[d] # None /\ crs[d].inc \in dep[d].owners)
    BY <1>9 DEF CollectGarbage, Collectable, crVars, caches, workVars
  <2> QED BY <2>1, NothingChanges DEF OwnWrite, Types, DeploymentTypes
<1>10. ASSUME UpdateImage PROVE Change(c)
  <2>1. UNCHANGED <<crs, born, crCache, step, obj>>
    BY <1>10 DEF UpdateImage, crVars, caches, workVars
  <2> QED BY <1>10, <2>1, UpdateImageKeeps, NothingChanges DEF OwnWrite, SameContent
<1>11. ASSUME \/ ReadNewImage \/ ListDeployments \/ ImagesUpdated \/ SyncFails
              \/ SyncConfigMap \/ ChangeImage \/ UNCHANGED vars
       PROVE  Change(c)
  <2>1. UNCHANGED <<crs, born, crCache, dep, step, obj>>
    BY <1>11 DEF ReadNewImage, ListDeployments, ImagesUpdated, SyncFails, SyncConfigMap,
       ChangeImage, vars, crVars, caches, workVars
  <2> QED BY <2>1, NothingChanges DEF OwnWrite
<1>12. ASSUME Restart PROVE Change(c)
  BY <1>12 DEF Restart, crVars, Change, GatewayChange, CopyChange, CheckChange, Idle
<1> QED
  BY <1>1, <1>2, <1>3, <1>4, <1>5, <1>6, <1>7, <1>8, <1>9, <1>10, <1>11, <1>12
  DEF Next, Reconcile, Informers, Kubernetes, SyncImages, Rest

LEMMA NumberedNext == IInv /\ [Next]_vars => Numbered'
<1> SUFFICES ASSUME IInv, [Next]_vars, NEW c \in Gateways,
                    NEW o \in {crs'[c], crCache'[c], obj'[c]} \ {None}
             PROVE  o.inc < born'[c]
  BY DEF Numbered
<1>1. Change(c)
  BY NextChange DEF IInv
<1>2. born[c] \in Nat /\ born'[c] \in {born[c], born[c] + 1}
  BY <1>1 DEF Change, GatewayChange, IInv, Types, CRTypes
<1>3. ASSUME NEW p \in {crs[c], crCache[c], obj[c]} \ {None}
      PROVE  p.inc \in Nat /\ p.inc < born[c]
  BY <1>3 DEF IInv, Numbered, Types, CRTypes, Objects
<1>4. crs'[c] # None => crs'[c].inc < born'[c]
  BY <1>1, <1>2, <1>3 DEF Change, GatewayChange
<1>5. o = crs'[c] \/ o \in {crs[c], crCache[c], obj[c]}
  BY <1>1 DEF Change, CopyChange
<1> QED BY <1>2, <1>3, <1>4, <1>5

LEMMA LastWriteOwnNext == IInv /\ [Next]_vars => LastWriteOwn'
<1> SUFFICES ASSUME IInv, [Next]_vars, NEW c \in Gateways, step'[c] = "check",
                    crs'[c] # None, crs'[c].inc = obj'[c].inc
             PROVE  OwnWrite(c)'
  BY DEF LastWriteOwn
<1>1. Change(c)
  BY NextChange DEF IInv
<1>2. CASE ~OwnWrite(c)'
  <2>1. step[c] = "check" /\ obj'[c] = obj[c]
    BY <1>1, <1>2 DEF Change, CheckChange
  <2>2. obj[c].inc \in Nat /\ obj[c].inc < born[c] /\ born[c] \in Nat
    BY <2>1 DEF IInv, Types, CRTypes, WorkTypes, Numbered, Objects
  <2>3. crs[c] # None /\ crs[c].inc = obj[c].inc
    BY <1>1, <2>1, <2>2 DEF Change, GatewayChange
  <2>4. OwnWrite(c)
    BY <2>1, <2>3 DEF IInv, LastWriteOwn
  <2> QED BY <1>1, <1>2, <2>3, <2>4 DEF Change, CheckChange
<1> QED BY <1>2

\* A Gateway becomes Updated for the generation its Deployment was last rendered
\* from, whatever its users, other writers of the Deployment and failures do
\* while the rollout is awaited.
THEOREM ObservedIsApplied == Spec => ObservedWasApplied
<1>1. IInv /\ [Next]_vars => IInv'
  BY TypesNext, NumberedNext, LastWriteOwnNext DEF IInv
<1> DEFINE Applied(c) ==
      /\ step[c] = "check" /\ {crs[c], crs'[c]} \cap {None} = {}
      /\ crs'[c].phase = "Updated" /\ Status(crs'[c]) # Status(crs[c])
      /\ obj[c].inc = crs[c].inc
      => dep[c] # None /\ dep[c].of = [inc |-> crs'[c].inc,
                                       gen |-> crs'[c].observed]
<1>2. IInv /\ [Next]_vars => \A c \in Gateways : Applied(c)
  <2> SUFFICES ASSUME IInv, [Next]_vars, NEW c \in Gateways, step[c] = "check",
                      crs[c] # None, crs'[c] # None, crs'[c].phase = "Updated",
                      Status(crs'[c]) # Status(crs[c]), obj[c].inc = crs[c].inc
               PROVE  dep[c] # None /\ dep[c].of = [inc |-> crs'[c].inc,
                                                    gen |-> crs'[c].observed]
    OBVIOUS
  <2>1. Change(c)
    BY NextChange DEF IInv
  <2>2. crs'[c].inc = obj[c].inc /\ crs'[c].observed = obj[c].gen
    BY <2>1 DEF Change, GatewayChange
  <2>3. OwnWrite(c)
    BY DEF IInv, LastWriteOwn
  <2> QED BY <2>2, <2>3 DEF OwnWrite
<1> QED BY <1>1, <1>2, InitIInv, PTL DEF Spec, ObservedWasApplied

-----------------------------------------------------------------------------
(* Statuses and images at rest                                             *)

\* o is the Gateway c as its users wrote it last.
Current(o, c) ==
  o # None /\ crs[c] # None /\ o.inc = crs[c].inc /\ o.gen = crs[c].gen

\* A reconcile of c is to come: it is queued, or will be when the informer
\* catches up.
InTurn(c) == c \in queue \/ ~Current(crCache[c], c)

Rendered(c) == AppliedLast(c) /\ crs[c].inc \in dep[c].owners

\* What a Gateway lacks to be reported as it is, somebody has still to do.
Reporting(c) ==
  crs[c] # None =>
    \/ InTurn(c)
    \/ step[c] = "write" /\ Current(obj[c], c)
    \/ step[c] = "check" /\ Current(obj[c], c) /\ Rendered(c)
    \/ step[c] = Idle /\ Rendered(c) /\ Reported(c)

\* An informer shows no generation that the server does not have.
NotAhead(c) ==
  crCache[c] # None /\ crs[c] # None /\ crCache[c].inc = crs[c].inc =>
    crCache[c].gen <= crs[c].gen

StatusInv == \A c \in Gateways : NotAhead(c) /\ Reporting(c)

-----------------------------------------------------------------------------
(* Statuses                                                                *)

\* Steps that do not concern c.
Elsewhere(c) ==
  /\ crs'[c] = crs[c] /\ crCache'[c] = crCache[c]
  /\ step'[c] = step[c] /\ obj'[c] = obj[c]
  /\ c \in queue => c \in queue'
  /\ Rendered(c) => Rendered(c)'

LEMMA StaysReporting ==
  ASSUME NEW c \in Gateways, Elsewhere(c), NotAhead(c), Reporting(c)
  PROVE  NotAhead(c)' /\ Reporting(c)'
BY DEF Elsewhere, NotAhead, Reporting, InTurn, Current, Reported

\* Whoever writes a status leaves the generation alone.
SameGeneration(c) ==
  /\ crs'[c] = None <=> crs[c] = None
  /\ crs[c] # None => crs'[c].inc = crs[c].inc /\ crs'[c].gen = crs[c].gen

LEMMA StaysNotAhead ==
  ASSUME NEW c \in Gateways, NotAhead(c), SameGeneration(c), crCache' = crCache
  PROVE  NotAhead(c)'
BY DEF NotAhead, SameGeneration

LEMMA QueuedIsReporting ==
  ASSUME NEW c \in Gateways, NotAhead(c), SameGeneration(c), crCache' = crCache,
         c \in queue'
  PROVE  NotAhead(c)' /\ Reporting(c)'
BY StaysNotAhead DEF Reporting, InTurn

LEMMA FailedStays ==
  ASSUME Types, NEW c \in Gateways, NEW o \in Objects \cup {None}, NEW d \in Gateways,
         crs' = FailedStatus(c, o)
  PROVE  SameGeneration(d) /\ (d # c => crs'[d] = crs[d])
<1>1. SameGeneration(d)
  BY FailedType DEF SameGeneration
<1>2. d # c => crs'[d] = crs[d]
  BY DEF FailedStatus, Types, CRTypes
<1> QED BY <1>1, <1>2

LEMMA BeginReports ==
  ASSUME Types, NEW c \in Gateways, NEW d \in Gateways, NotAhead(c), Reporting(c),
         Begin(d)
  PROVE  NotAhead(c)' /\ Reporting(c)'
<1> DEFINE o == crCache[d]
           patch == ~IsUpdatingPhase(o)
           gone == patch /\ crs[d] = None
           inHand == IF patch /\ ~gone THEN Patched(crs[d], "Updating", o.gen) ELSE o
<1>1. o \in Objects /\ o.gen \in Nat
  BY DEF Begin, Types, CRTypes, Objects
<1>2. UNCHANGED <<crCache, dep>>
  BY DEF Begin, caches
<1>3. CASE gone
  <2>1. UNCHANGED <<crs, queue, step, obj>>
    BY <1>3 DEF Begin, workVars
  <2> QED BY <1>2, <2>1, StaysReporting DEF Elsewhere, Rendered, AppliedLast
<1>4. CASE ~gone /\ HasImage
  <2>1. /\ crs' = IF patch THEN [crs EXCEPT ![d] = inHand] ELSE crs
        /\ queue' = queue \ {d} /\ obj' = [obj EXCEPT ![d] = inHand]
        /\ step' = [step EXCEPT ![d] = "write"]
    BY <1>4 DEF Begin, Goto
  <2>2. CASE c # d
    <3>1. /\ crs'[c] = crs[c] /\ step'[c] = step[c] /\ obj'[c] = obj[c]
          /\ c \in queue => c \in queue'
      BY <2>1, <2>2 DEF Types, CRTypes, WorkTypes
    <3> QED BY <1>2, <3>1, StaysReporting DEF Elsewhere, Rendered, AppliedLast
  <2>3. CASE c = d /\ patch
    <3>1. /\ crs[c] # None /\ inHand # None
          /\ inHand.inc = crs[c].inc /\ inHand.gen = crs[c].gen
      <4>1. crs[c] # None /\ crs[c] \in Objects
        BY <1>4, <2>3 DEF Types, CRTypes
      <4>2. inHand = Patched(crs[c], "Updating", o.gen)
        BY <1>4, <2>3
      <4> HIDE DEF inHand
      <4>3. /\ Patched(crs[c], "Updating", o.gen) # None
            /\ Patched(crs[c], "Updating", o.gen).inc = crs[c].inc
            /\ Patched(crs[c], "Updating", o.gen).gen = crs[c].gen
        BY <1>1, <4>1, PatchedType
      <4> QED BY <4>1, <4>2, <4>3
    <3> HIDE DEF inHand
    <3>2. crs'[c] = inHand /\ obj'[c] = inHand /\ step'[c] = "write"
      BY <2>1, <2>3 DEF Types, CRTypes, WorkTypes
    <3>3. SameGeneration(c)
      BY <3>1, <3>2 DEF SameGeneration
    <3> QED BY <1>2, <3>1, <3>2, <3>3, StaysNotAhead DEF Reporting, Current
  <2>4. CASE c = d /\ ~patch
    <3>1. crs' = crs /\ obj'[c] = crCache[c] /\ step'[c] = "write"
      BY <2>1, <2>4 DEF Types, CRTypes, WorkTypes
    <3>2. SameGeneration(c)
      BY <3>1 DEF SameGeneration
    <3> QED BY <1>2, <3>1, <3>2, StaysNotAhead DEF Reporting, InTurn, Current
  <2> QED BY <2>2, <2>3, <2>4
<1>5. CASE ~gone /\ ~HasImage
  <2>1. crs' = FailedStatus(d, inHand) /\ UNCHANGED <<queue, step, obj>> /\ d \in queue
    BY <1>5 DEF Begin, workVars
  <2>2. inHand \in Objects
    <3>1. CASE patch
      <4>1. crs[d] \in Objects
        BY <1>5, <3>1 DEF Types, CRTypes
      <4> QED BY <1>1, <1>5, <3>1, <4>1, PatchedType
    <3>2. CASE ~patch
      BY <1>1, <3>2
    <3> QED BY <3>1, <3>2
  <2> HIDE DEF inHand
  <2>3. SameGeneration(c) /\ (c # d => crs'[c] = crs[c])
    BY <2>1, <2>2, FailedStays
  <2>4. CASE c = d
    BY <1>2, <2>1, <2>3, <2>4, QueuedIsReporting
  <2>5. CASE c # d
    BY <1>2, <2>1, <2>3, <2>5, StaysReporting DEF Elsewhere, Rendered, AppliedLast
  <2> QED BY <2>4, <2>5
<1> QED BY <1>3, <1>4, <1>5

LEMMA WriteReports ==
  ASSUME Types, NEW c \in Gateways, NEW d \in Gateways, NotAhead(c), Reporting(c),
         Write(d)
  PROVE  NotAhead(c)' /\ Reporting(c)'
<1>1. UNCHANGED crCache /\ step[d] = "write"
  BY DEF Write, caches
<1>2. CASE Conflict(d, depCache[d])
  <2>1. /\ Failed(d) \/ (Requeue(d) /\ UNCHANGED crs)
        /\ UNCHANGED dep
    BY <1>2 DEF Write, Muted
  <2>2. Requeue(d) /\ SameGeneration(c) /\ (c # d => crs'[c] = crs[c])
    <3>1. obj[d] \in Objects \cup {None}
      BY DEF Types, CRTypes
    <3> QED BY <2>1, <3>1, FailedStays DEF Failed, SameGeneration
  <2>3. CASE c = d
    BY <1>1, <2>2, <2>3, QueuedIsReporting DEF Requeue
  <2>4. CASE c # d
    <3>1. step'[c] = step[c] /\ obj'[c] = obj[c] /\ (c \in queue => c \in queue')
      BY <2>2, <2>4 DEF Requeue, Return, Types, CRTypes, WorkTypes
    <3> QED BY <1>1, <2>1, <2>2, <2>4, <3>1, StaysReporting
        DEF Elsewhere, Rendered, AppliedLast
  <2> QED BY <2>3, <2>4
<1>3. CASE ~Conflict(d, depCache[d])
  <2>1. /\ UNCHANGED <<crs, queue, obj>> /\ step' = [step EXCEPT ![d] = "check"]
    BY <1>3 DEF Write, Goto
  <2>2. /\ dep'[d] # None /\ dep'[d].of = [inc |-> obj[d].inc, gen |-> obj[d].gen]
        /\ obj[d].inc \in dep'[d].owners
        /\ \A x \in Gateways \ {d} : dep'[x] = dep[x]
    BY <1>3, WriteStores
  <2>3. CASE c = d
    BY <1>1, <2>1, <2>2, <2>3
    DEF NotAhead, Reporting, InTurn, Current, Rendered, AppliedLast, Types, WorkTypes, Idle
  <2>4. CASE c # d
    <3>1. step'[c] = step[c] /\ dep'[c] = dep[c]
      BY <2>1, <2>2, <2>4 DEF Types, WorkTypes
    <3> QED BY <1>1, <2>1, <3>1, StaysReporting DEF Elsewhere, Rendered, AppliedLast
  <2> QED BY <2>3, <2>4
<1> QED BY <1>2, <1>3

\* The other ends of a reconcile.
LEMMA ReturnReports ==
  ASSUME Types, NEW c \in Gateways, NEW d \in Gateways, NotAhead(c), Reporting(c),
         SetUpdated(d) \/ NotReady(d) \/ Remove(d) \/ ReconcileFails(d)
  PROVE  NotAhead(c)' /\ Reporting(c)'
<1>1. UNCHANGED crCache /\ Return(d) /\ (queue' = queue \/ queue' = queue \cup {d})
  BY DEF SetUpdated, NotReady, Remove, ReconcileFails, caches, Done, Failed, Requeue
<1>2. /\ SameGeneration(c) /\ (c # d => crs'[c] = crs[c])
  <2>1. obj[d] \in Objects \cup {None}
    BY DEF Types, CRTypes
  <2>2. CASE crs' = crs \/ crs' = FailedStatus(d, obj[d])
    BY <2>1, <2>2, FailedStays DEF SameGeneration
  <2>3. CASE ~(crs' = crs \/ crs' = FailedStatus(d, obj[d]))
    <3>1. /\ step[d] = "check" /\ crs[d] # None
          /\ crs' = [crs EXCEPT ![d] = Patched(crs[d], "Updated", obj[d].gen)]
      BY <2>3 DEF SetUpdated, NotReady, Remove, ReconcileFails, crVars, Failed
    <3>2. crs[d] \in Objects /\ obj[d].gen \in Nat
      BY <3>1 DEF Types, CRTypes, WorkTypes, Objects
    <3> DEFINE new == Patched(crs[d], "Updated", obj[d].gen)
    <3>3. new # None /\ new.inc = crs[d].inc /\ new.gen = crs[d].gen
      BY <3>2, PatchedType
    <3> HIDE DEF new
    <3>4. crs'[d] = new /\ (c # d => crs'[c] = crs[c])
      BY <3>1 DEF new, Types, CRTypes
    <3> QED BY <3>1, <3>3, <3>4 DEF SameGeneration
  <2> QED BY <2>2, <2>3
<1>3. CASE c # d
  <2>1. /\ step'[c] = step[c] /\ obj'[c] = obj[c] /\ (c \in queue => c \in queue')
    BY <1>1, <1>3 DEF Return, Types, CRTypes, WorkTypes
  <2>2. dep'[c] = dep[c]
    BY <1>3 DEF SetUpdated, NotReady, Remove, ReconcileFails, Types, DeploymentTypes
  <2> QED BY <1>1, <1>2, <1>3, <2>1, <2>2, StaysReporting DEF Elsewhere, Rendered, AppliedLast
<1>4. CASE c = d /\ c \in queue'
  BY <1>1, <1>2, <1>4, QueuedIsReporting
<1>5. CASE c = d /\ c \notin queue'
  <2>1. (SetUpdated(c) /\ crs[c] # None) \/ Remove(c) \/ (SetUpdated(c) /\ crs'[c] = None)
    BY <1>2, <1>5 DEF SetUpdated, NotReady, Remove, ReconcileFails, Failed, Requeue, Done, SameGeneration
  <2>2. CASE SetUpdated(c) /\ crs[c] # None
    <3>1. /\ step[c] = "check" /\ UNCHANGED <<dep, queue>>
          /\ crs' = [crs EXCEPT ![c] = Patched(crs[c], "Updated", obj[c].gen)]
      BY <2>2 DEF SetUpdated, Done
    <3>2. crs[c] \in Objects /\ obj[c].gen \in Nat
      BY <2>2, <3>1 DEF Types, CRTypes, WorkTypes, Objects
    <3>3. step'[c] = Idle
      BY <1>1, <1>5 DEF Return, Types, WorkTypes
    <3>4. crs'[c].phase = "Updated" /\ crs'[c].observed = obj[c].gen
      BY <3>1, <3>2, PatchedType DEF Types, CRTypes
    <3>5. CASE InTurn(c)
      <4>1. InTurn(c)'
        BY <1>1, <1>2, <2>2, <3>1, <3>5 DEF InTurn, Current, SameGeneration
      <4> QED BY <1>1, <1>2, <4>1, StaysNotAhead DEF Reporting
    <3>6. CASE ~InTurn(c)
      <4>1. Current(obj[c], c) /\ Rendered(c)
        BY <2>2, <3>1, <3>6 DEF Reporting, Idle
      <4>2. Rendered(c)' /\ Reported(c)'
        BY <1>2, <2>2, <3>1, <3>4, <4>1
        DEF Current, Rendered, AppliedLast, Reported, SameGeneration
      <4> QED BY <1>1, <1>2, <3>3, <4>2, StaysNotAhead DEF Reporting
    <3> QED BY <3>5, <3>6
  <2>3. CASE Remove(c)
    <3>1. step[c] = "remove" /\ UNCHANGED <<crs, queue>>
      BY <2>3 DEF Remove, Done, crVars
    <3>2. Reporting(c)'
      BY <1>1, <3>1 DEF Reporting, InTurn, Current, Idle
    <3> QED BY <1>1, <1>2, <3>2, StaysNotAhead
  <2>4. CASE crs'[c] = None
    BY <1>1, <1>2, <2>4, StaysNotAhead DEF Reporting
  <2> QED BY <2>1, <2>2, <2>3, <2>4
<1> QED BY <1>3, <1>4, <1>5

\* Whatever users do to a Gateway, the informer has yet to show.
LEMMA ChangeReports ==
  ASSUME IInv, NEW c \in Gateways, NEW d \in Gateways, NotAhead(c), Reporting(c),
         CreateCR(d) \/ UpdateCR(d) \/ DeleteCR(d)
  PROVE  NotAhead(c)' /\ Reporting(c)'
<1>1. UNCHANGED <<crCache, dep, queue, step, obj>>
  BY DEF CreateCR, UpdateCR, DeleteCR, ChangeCR, caches, workVars
<1>2. CASE c # d
  <2>1. crs'[c] = crs[c]
    BY <1>2 DEF CreateCR, UpdateCR, DeleteCR, IInv, Types, CRTypes
  <2> QED BY <1>1, <2>1, StaysReporting DEF Elsewhere, Rendered, AppliedLast
<1>3. CASE c = d /\ CreateCR(d)
  <2>1. crs'[c].inc = born[c]
    BY <1>3 DEF CreateCR, NewCR, IInv, Types, CRTypes
  <2>2. crCache[c] # None => crCache[c].inc \in Nat /\ crCache[c].inc < born[c]
    BY DEF IInv, Numbered, Types, CRTypes, Objects
  <2>3. crCache[c] # None => crCache[c].inc # crs'[c].inc
    BY <2>1, <2>2
  <2> QED BY <1>1, <2>3 DEF NotAhead, Reporting, InTurn, Current
<1>4. CASE c = d /\ UpdateCR(d)
  <2>1. crs[c] \in Objects /\ crs' = [crs EXCEPT ![c] = [crs[c] EXCEPT !.gen = crs[c].gen + 1]]
    BY <1>4 DEF UpdateCR, IInv, Types, CRTypes
  <2>2. crs'[c] = [crs[c] EXCEPT !.gen = crs[c].gen + 1]
    BY <2>1 DEF IInv, Types, CRTypes
  <2>3. crs'[c].inc = crs[c].inc /\ crs'[c].gen = crs[c].gen + 1
    BY <2>1, <2>2 DEF Objects
  <2>4. crs[c] # None /\ crs[c].gen \in Nat
    BY <1>4, <2>1 DEF UpdateCR, Objects
  <2>5. crCache[c] # None => crCache[c].gen \in Nat
    BY DEF IInv, Types, CRTypes, Objects
  <2>6. crCache[c] # None /\ crCache[c].inc = crs'[c].inc => crCache[c].gen < crs'[c].gen
    BY <2>3, <2>4, <2>5 DEF NotAhead
  <2>7. crCache[c] # None /\ crCache[c].inc = crs'[c].inc =>
          crCache[c].gen <= crs'[c].gen /\ crCache[c].gen # crs'[c].gen
    BY <2>3, <2>4, <2>5, <2>6
  <2> QED BY <1>1, <2>7 DEF NotAhead, Reporting, InTurn, Current
<1>5. CASE c = d /\ DeleteCR(d)
  <2>1. crs'[c] = None
    BY <1>5 DEF DeleteCR, IInv, Types, CRTypes
  <2> QED BY <2>1 DEF NotAhead, Reporting
<1> QED BY <1>2, <1>3, <1>4, <1>5

\* The informer queues a Gateway whose generation it has not shown before.
LEMMA SyncReports ==
  ASSUME Types, NEW c \in Gateways, NEW d \in Gateways, NotAhead(c), Reporting(c),
         SyncCR(d)
  PROVE  NotAhead(c)' /\ Reporting(c)'
<1>1. /\ UNCHANGED <<crs, dep, step, obj>>
      /\ crCache' = [crCache EXCEPT ![d] = crs[d]]
      /\ queue' = IF Ignored(crCache[d], crs[d]) THEN queue ELSE queue \cup {d}
  BY DEF SyncCR, crVars
<1>2. CASE c # d
  <2>1. crCache'[c] = crCache[c]
    BY <1>1, <1>2 DEF Types, CRTypes
  <2> QED BY <1>1, <2>1, StaysReporting DEF Elsewhere, Rendered, AppliedLast
<1>3. CASE c = d
  <2>1. crCache'[c] = crs[c]
    BY <1>1, <1>3 DEF Types, CRTypes
  <2>2. crs[c] # None => crs[c].gen \in Nat
    BY DEF Types, CRTypes, Objects
  <2>3. NotAhead(c)'
    BY <1>1, <2>1, <2>2 DEF NotAhead
  <2>4. CASE Ignored(crCache[c], crs[c])
    BY <1>1, <1>3, <2>3, <2>4
    DEF Ignored, Reporting, InTurn, Current, Rendered, AppliedLast, Reported
  <2>5. CASE ~Ignored(crCache[c], crs[c])
    BY <1>1, <1>3, <2>3, <2>5 DEF Reporting, InTurn
  <2> QED BY <2>4, <2>5
<1> QED BY <1>2, <1>3

LEMMA StatusNext == IInv /\ StatusInv /\ [Next]_vars => StatusInv'
<1> SUFFICES ASSUME IInv, StatusInv, [Next]_vars, NEW c \in Gateways
             PROVE  NotAhead(c)' /\ Reporting(c)'
  BY DEF StatusInv
<1>1. Types /\ NotAhead(c) /\ Reporting(c)
  BY DEF IInv, StatusInv
<1>2. ASSUME NEW d \in Gateways, Begin(d) PROVE NotAhead(c)' /\ Reporting(c)'
  BY <1>1, <1>2, BeginReports
<1>3. ASSUME NEW d \in Gateways, BeginRemove(d) PROVE NotAhead(c)' /\ Reporting(c)'
  <2>1. /\ UNCHANGED <<crs, crCache, dep, obj>> /\ crCache[d] = None
        /\ queue' = queue \ {d} /\ step' = [step EXCEPT ![d] = "remove"]
    BY <1>3 DEF BeginRemove, Goto, crVars, caches
  <2>2. CASE c # d
    <3>1. step'[c] = step[c] /\ (c \in queue => c \in queue')
      BY <1>1, <2>1, <2>2 DEF Types, WorkTypes
    <3> QED BY <1>1, <2>1, <3>1, StaysReporting DEF Elsewhere, Rendered, AppliedLast
  <2>3. CASE c = d
    BY <2>1, <2>3 DEF NotAhead, Reporting, InTurn, Current
  <2> QED BY <2>2, <2>3
<1>4. ASSUME NEW d \in Gateways, Write(d) PROVE NotAhead(c)' /\ Reporting(c)'
  BY <1>1, <1>4, WriteReports
<1>5. ASSUME NEW d \in Gateways,
             SetUpdated(d) \/ NotReady(d) \/ Remove(d) \/ ReconcileFails(d)
      PROVE  NotAhead(c)' /\ Reporting(c)'
  BY <1>1, <1>5, ReturnReports
<1>6. ASSUME NEW d \in Gateways, CreateCR(d) \/ UpdateCR(d) \/ DeleteCR(d)
      PROVE  NotAhead(c)' /\ Reporting(c)'
  BY <1>1, <1>6, ChangeReports
<1>7. ASSUME NEW d \in Gateways, SyncCR(d) PROVE NotAhead(c)' /\ Reporting(c)'
  BY <1>1, <1>7, SyncReports
<1>8. ASSUME NEW d \in Gateways, RollOut(d) PROVE NotAhead(c)' /\ Reporting(c)'
  <2>1. UNCHANGED <<crs, crCache, queue, step, obj>>
    BY <1>8 DEF RollOut, crVars, caches, workVars
  <2>2. Rendered(c) => Rendered(c)'
    BY <1>1, <1>8, <2>1, RollOutKeeps DEF SameContent, Rendered, AppliedLast
  <2> QED BY <1>1, <2>1, <2>2, StaysReporting DEF Elsewhere
<1>9. ASSUME NEW d \in Gateways, CollectGarbage(d) PROVE NotAhead(c)' /\ Reporting(c)'
  <2>1. /\ UNCHANGED <<crs, crCache, queue, step, obj>>
        /\ dep' = [dep EXCEPT ![d] = None]
        /\ ~(crs[d] # None /\ crs[d].inc \in dep[d].owners)
    BY <1>9 DEF CollectGarbage, Collectable, crVars, caches, workVars
  <2>2. crs[c] # None /\ Rendered(c) => Rendered(c)'
    BY <1>1, <2>1 DEF Rendered, AppliedLast, Types, DeploymentTypes
  <2> QED BY <1>1, <2>1, <2>2 DEF NotAhead, Reporting, InTurn, Current, Reported
<1>10. ASSUME UpdateImage PROVE NotAhead(c)' /\ Reporting(c)'
  <2>1. UNCHANGED <<crs, crCache, queue, step, obj>>
    BY <1>10 DEF UpdateImage, crVars, caches, workVars
  <2>2. Rendered(c) => Rendered(c)'
    BY <1>1, <1>10, <2>1, UpdateImageKeeps DEF SameContent, Rendered, AppliedLast
  <2> QED BY <1>1, <2>1, <2>2, StaysReporting DEF Elsewhere
<1>11. ASSUME \/ ReadNewImage \/ ListDeployments \/ ImagesUpdated \/ SyncFails
              \/ SyncConfigMap \/ ChangeImage \/ UNCHANGED vars
              \/ \E d \in Gateways : SyncDeployment(d)
       PROVE  NotAhead(c)' /\ Reporting(c)'
  <2>1. UNCHANGED <<crs, crCache, dep, queue, step, obj>>
    BY <1>11 DEF ReadNewImage, ListDeployments, ImagesUpdated, SyncFails, SyncConfigMap,
       ChangeImage, SyncDeployment, vars, crVars, caches, workVars
  <2> QED BY <1>1, <2>1, StaysReporting DEF Elsewhere, Rendered, AppliedLast
<1>12. ASSUME Restart PROVE NotAhead(c)' /\ Reporting(c)'
  <2>1. crCache' = crs /\ crs' = crs /\ queue' = {d \in Gateways : crs[d] # None}
    BY <1>12 DEF Restart, crVars
  <2>2. crs[c] # None => crs[c].gen \in Nat
    BY <1>1 DEF Types, CRTypes, Objects
  <2> QED BY <2>1, <2>2 DEF NotAhead, Reporting, InTurn
<1> QED
  BY <1>2, <1>3, <1>4, <1>5, <1>6, <1>7, <1>8, <1>9, <1>10, <1>11, <1>12
  DEF Next, Reconcile, Informers, Kubernetes, SyncImages, Rest

\* Once everything is at rest, every Gateway is reported to be Updated for the
\* generation its users wrote last, and its Deployment is of that one, whatever
\* raced, failed, was recreated or collected.
THEOREM StatusIsTrue == Spec => []StatusTrue
<1>1. Init => IInv /\ StatusInv
  <2> SUFFICES ASSUME Init, NEW c \in Gateways
               PROVE  NotAhead(c) /\ Reporting(c)
    BY InitIInv DEF StatusInv
  <2>1. crCache = crs /\ (crs[c] # None => c \in queue)
    BY DEF Init
  <2>2. crs[c] # None => crs[c].gen \in Nat
    BY InitTypes DEF Types, CRTypes, Objects
  <2> QED BY <2>1, <2>2 DEF NotAhead, Reporting, InTurn
<1>2. IInv /\ StatusInv /\ [Next]_vars => (IInv /\ StatusInv)'
  BY TypesNext, NumberedNext, LastWriteOwnNext, StatusNext DEF IInv
<1>3. StatusInv => StatusTrue
  BY DEF StatusInv, StatusTrue, Reporting, InTurn, Current, Rendered, Quiescent, Idle
<1> QED BY <1>1, <1>2, <1>3, PTL DEF Spec

-----------------------------------------------------------------------------
(* Images                                                                  *)

\* The image controller is to read the config map.
SyncDue == unseen \/ sync.queued

\* It has yet to update c, or to try it again.
ToUpdate(c) ==
  \/ sync.step = "list"
  \/ /\ sync.step = "update"
     /\ \/ sync.conflict
        \/ c \in DOMAIN sync.todo /\ sync.todo[c].image # sync.image

Supplied(c) ==
  dep[c] # None => dep[c].image = image \/ c \in missed \/ ToUpdate(c)

\* What the image controller works with is what the config map says.
ReadLast ==
  /\ ~unseen => imageCache = image
  /\ ~SyncDue /\ image # NoImage /\ sync.step # Idle => sync.image = image

ImageInv ==
  /\ ReadLast
  /\ ~SyncDue /\ image # NoImage => \A c \in Gateways : Supplied(c)

\* Steps of others than the image controller.
LEMMA OthersSupply ==
  ASSUME ImageInv, UNCHANGED <<image, imageCache, unseen, sync>>,
         \A c \in Gateways : dep'[c] # None =>
           \/ dep[c] # None /\ dep'[c].image = dep[c].image /\ (c \in missed => c \in missed')
           \/ dep'[c].image = image \/ c \in missed'
  PROVE  ImageInv'
BY DEF ImageInv, ReadLast, SyncDue, Supplied, ToUpdate

LEMMA UpdateSupplies ==
  ASSUME Types, ImageInv, UpdateImage
  PROVE  ImageInv'
<1>1. UNCHANGED <<image, imageCache, unseen, missed>> /\ sync.step = "update"
  BY DEF UpdateImage, caches, configMap
<1>2. PICK c \in DOMAIN sync.todo :
        LET found == sync.todo[c]
            rest == [sync EXCEPT !.todo = Without(@, c)]
        IN IF found.image = sync.image THEN sync' = rest /\ UNCHANGED dep
           ELSE IF dep[c] = None THEN sync' = AtRest(TRUE) /\ UNCHANGED dep
           ELSE IF Conflict(c, found)
           THEN sync' = [rest EXCEPT !.conflict = TRUE] /\ UNCHANGED dep
           ELSE IF sync.image = NoImage THEN sync' = AtRest(TRUE) /\ UNCHANGED dep
           ELSE /\ sync' = rest
                /\ dep' = Stored([found EXCEPT !.image = sync.image, !.seen = FALSE], c)
  BY DEF UpdateImage
<1> DEFINE found == sync.todo[c]
           rest == [sync EXCEPT !.todo = Without(sync.todo, c)]
<1>3. PICK D \in SUBSET Gateways : sync.todo \in [D -> DeploymentObjects]
  BY DEF Types, SyncTypes, Syncs, Todos
<1>4. /\ DOMAIN Without(sync.todo, c) = DOMAIN sync.todo \ {c}
      /\ \A d \in DOMAIN sync.todo \ {c} : Without(sync.todo, c)[d] = sync.todo[d]
  BY <1>3 DEF Without
<1>5. /\ rest.queued = sync.queued /\ rest.step = sync.step /\ rest.image = sync.image
      /\ rest.todo = Without(sync.todo, c) /\ rest.conflict = sync.conflict
      /\ [rest EXCEPT !.conflict = TRUE].queued = sync.queued
      /\ [rest EXCEPT !.conflict = TRUE].step = sync.step
      /\ [rest EXCEPT !.conflict = TRUE].image = sync.image
      /\ [rest EXCEPT !.conflict = TRUE].conflict
  BY DEF Types, SyncTypes, Syncs
<1> HIDE DEF rest
<1>6. CASE found.image = sync.image
  <2>1. sync' = rest /\ dep' = dep
    BY <1>2, <1>6 DEF rest
  <2> QED BY <1>1, <1>4, <1>5, <1>6, <2>1 DEF ImageInv, ReadLast, SyncDue, Supplied, ToUpdate
<1>7. CASE sync' = AtRest(TRUE)
  BY <1>1, <1>7 DEF AtRest, ImageInv, ReadLast, SyncDue
<1>8. CASE sync' = [rest EXCEPT !.conflict = TRUE]
  BY <1>1, <1>5, <1>8 DEF ImageInv, ReadLast, SyncDue, Supplied, ToUpdate
<1>9. CASE /\ found.image # sync.image /\ dep[c] = found /\ sync' = rest
           /\ dep' = Stored([found EXCEPT !.image = sync.image, !.seen = FALSE], c)
           /\ sync.image # NoImage
  <2> DEFINE new == [found EXCEPT !.image = sync.image, !.seen = FALSE]
  <2>1. found \in DeploymentObjects /\ c \in Gateways /\ sync.image \in Images
    BY <1>3, <1>9 DEF Types, SyncTypes, Syncs, MaybeImages
  <2>2. /\ new \in DeploymentObjects /\ new.image = sync.image
        /\ new.of = found.of /\ new.owners = found.owners
    BY <2>1 DEF DeploymentObjects
  <2>3. dep' = Stored(new, c)
    BY <1>9 DEF new
  <2> HIDE DEF new
  <2>4. /\ dep'[c].image = sync.image
        /\ \A d \in Gateways \ {c} : dep'[d] = dep[d]
    BY <2>1, <2>2, <2>3, ChangedType
  <2>5. ReadLast' /\ (~SyncDue' => ~SyncDue)
    BY <1>1, <1>5, <1>9 DEF ImageInv, ReadLast, SyncDue
  <2>6. ASSUME ~SyncDue, image # NoImage, NEW d \in Gateways, d # c
        PROVE  Supplied(d)'
    <3>1. Supplied(d) /\ dep'[d] = dep[d]
      BY <2>4, <2>6 DEF ImageInv
    <3> QED BY <1>1, <1>4, <1>5, <1>9, <2>6, <3>1 DEF Supplied, ToUpdate
  <2>7. ~SyncDue /\ image # NoImage => Supplied(c)'
    BY <1>1, <2>4 DEF ImageInv, ReadLast, SyncDue, Supplied, Idle
  <2> QED BY <1>1, <2>5, <2>6, <2>7 DEF ImageInv
<1> QED BY <1>2, <1>6, <1>7, <1>8, <1>9 DEF Conflict, rest

LEMMA ImageNext == Types /\ ImageInv /\ [Next]_vars => ImageInv'
<1> SUFFICES ASSUME Types, ImageInv, [Next]_vars PROVE ImageInv'
  OBVIOUS
<1>1. ASSUME NEW d \in Gateways, Write(d) PROVE ImageInv'
  <2>1. UNCHANGED <<image, imageCache, unseen, sync>>
    BY <1>1 DEF Write, caches, configMap
  <2>2. CASE Conflict(d, depCache[d])
    <3>1. UNCHANGED <<dep, missed>>
      BY <1>1, <2>2 DEF Write
    <3> QED BY <2>1, <3>1, OthersSupply
  <2>3. CASE ~Conflict(d, depCache[d])
    <3>1. missed' = IF read[d] # image THEN missed \cup {d} ELSE missed
      BY <1>1, <2>3 DEF Write
    <3>2. /\ dep'[d].image = read[d]
          /\ \A x \in Gateways \ {d} : dep'[x] = dep[x]
      BY <1>1, <2>3, WriteStores
    <3> QED BY <2>1, <3>1, <3>2, OthersSupply
  <2> QED BY <2>2, <2>3
<1>2. ASSUME NEW d \in Gateways, RollOut(d) PROVE ImageInv'
  <2>1. UNCHANGED <<image, imageCache, unseen, sync, missed>>
    BY <1>2 DEF RollOut, caches, configMap
  <2> QED BY <1>2, <2>1, RollOutKeeps, OthersSupply DEF SameContent
<1>3. ASSUME NEW d \in Gateways, Remove(d) \/ CollectGarbage(d) PROVE ImageInv'
  <2>1. /\ UNCHANGED <<image, imageCache, unseen, sync, missed>>
        /\ dep' = dep \/ dep' = [dep EXCEPT ![d] = None]
    BY <1>3 DEF Remove, CollectGarbage, caches, configMap
  <2> QED BY <2>1, OthersSupply DEF Types, DeploymentTypes
<1>4. ASSUME NEW d \in Gateways,
             \/ Begin(d) \/ BeginRemove(d) \/ SetUpdated(d) \/ NotReady(d)
             \/ ReconcileFails(d) \/ SyncCR(d) \/ SyncDeployment(d)
             \/ CreateCR(d) \/ UpdateCR(d) \/ DeleteCR(d)
      PROVE  ImageInv'
  <2>1. UNCHANGED <<image, imageCache, unseen, sync, missed, dep>>
    BY <1>4 DEF Begin, BeginRemove, SetUpdated, NotReady, ReconcileFails, SyncCR,
       SyncDeployment, CreateCR, UpdateCR, DeleteCR, ChangeCR, caches, configMap
  <2> QED BY <2>1, OthersSupply
<1>5. ASSUME UNCHANGED vars PROVE ImageInv'
  BY <1>5, OthersSupply DEF vars, caches, configMap
<1>6. CASE ReadNewImage
  <2>1. /\ UNCHANGED <<image, imageCache, unseen, missed, dep>>
        /\ sync' = [sync EXCEPT !.queued = FALSE, !.step = "list", !.image = imageCache]
    BY <1>6 DEF ReadNewImage, caches, configMap
  <2>2. sync'.step = "list" /\ sync'.image = imageCache
    BY <2>1 DEF Types, SyncTypes, Syncs
  <2> QED BY <2>1, <2>2 DEF ImageInv, ReadLast, SyncDue, Supplied, ToUpdate
<1>7. CASE ListDeployments
  <2> DEFINE listed == [c \in {d \in Gateways : depCache[d] # None} |-> depCache[c]]
  <2>1. /\ UNCHANGED <<image, imageCache, unseen, dep>> /\ sync.step = "list"
        /\ sync' = [sync EXCEPT !.step = "update", !.todo = listed]
        /\ \A c \in Gateways :
             IF depCache[c] # None /\ depCache[c].image # sync.image THEN TRUE
             ELSE \/ c \in missed'
                  \/ dep[c] = None \/ (dep[c].image = sync.image /\ c \notin missed)
    BY <1>7 DEF ListDeployments, caches, configMap
  <2>2. /\ sync'.step = "update" /\ sync'.todo = listed /\ sync'.image = sync.image
        /\ sync'.queued = sync.queued
    BY <2>1 DEF Types, SyncTypes, Syncs
  <2>3. ASSUME NEW c \in Gateways, depCache[c] # None, depCache[c].image # sync.image
        PROVE  ToUpdate(c)'
    <3>1. c \in DOMAIN listed /\ listed[c] = depCache[c]
      BY <2>3
    <3> HIDE DEF listed
    <3> QED BY <2>2, <2>3, <3>1 DEF ToUpdate
  <2> HIDE DEF listed
  <2>4. ReadLast'
    BY <2>1, <2>2 DEF ImageInv, ReadLast, SyncDue, Idle
  <2>5. ASSUME ~SyncDue', image # NoImage, NEW c \in Gateways
        PROVE  Supplied(c)'
    <3>1. sync.image = image
      BY <2>1, <2>2, <2>5 DEF ImageInv, ReadLast, SyncDue, Idle
    <3> QED BY <2>1, <2>3, <3>1 DEF Supplied
  <2> QED BY <2>1, <2>4, <2>5 DEF ImageInv
<1>8. CASE UpdateImage
  BY <1>8, UpdateSupplies
<1>9. CASE ImagesUpdated
  <2>1. /\ UNCHANGED <<image, imageCache, unseen, missed, dep>>
        /\ sync.step = "update" /\ DOMAIN sync.todo = {}
        /\ sync' = AtRest(sync.queued \/ sync.conflict)
    BY <1>9 DEF ImagesUpdated, caches, configMap
  <2>2. sync'.step = Idle /\ (sync'.queued <=> sync.queued \/ sync.conflict)
    BY <2>1 DEF AtRest
  <2> QED BY <2>1, <2>2 DEF ImageInv, ReadLast, SyncDue, Supplied, ToUpdate
<1>10. CASE SyncFails
  <2>1. UNCHANGED <<image, imageCache, unseen, missed, dep>> /\ sync' = AtRest(TRUE)
    BY <1>10 DEF SyncFails, caches, configMap
  <2>2. sync'.queued
    BY <2>1 DEF AtRest
  <2> QED BY <2>1, <2>2 DEF ImageInv, ReadLast, SyncDue
<1>11. CASE SyncConfigMap
  <2>1. image' = image /\ imageCache' = image /\ sync'.queued
    BY <1>11 DEF SyncConfigMap, Types, SyncTypes, Syncs
  <2> QED BY <2>1 DEF ImageInv, ReadLast, SyncDue
<1>12. CASE ChangeImage
  BY <1>12 DEF ChangeImage, ImageInv, ReadLast, SyncDue
<1>13. CASE Restart
  <2>1. /\ image' = image /\ imageCache' = image
        /\ image # NoImage => sync' = AtRest(TRUE)
    BY <1>13 DEF Restart
  <2>2. image # NoImage => sync'.queued
    BY <2>1 DEF AtRest
  <2> QED BY <2>1, <2>2 DEF ImageInv, ReadLast, SyncDue
<1> QED
  BY <1>1, <1>2, <1>3, <1>4, <1>5, <1>6, <1>7, <1>8, <1>9, <1>10, <1>11, <1>12, <1>13
  DEF Next, Reconcile, Informers, Kubernetes, SyncImages, Rest

\* At rest every Deployment has the image the config map says, however often
\* it changed, whatever raced or failed, but for those the image controller
\* had no occasion to update.
THEOREM ImagesFollow == Spec => []ImagesInSync
<1>1. Init => Types /\ ImageInv
  <2>1. Init => ImageInv
    BY DEF Init, AtRest, ImageInv, ReadLast, SyncDue
  <2> QED BY <2>1, InitTypes
<1>2. Types /\ ImageInv /\ [Next]_vars => (Types /\ ImageInv)'
  BY TypesNext, ImageNext
<1>3. ImageInv => ImagesInSync
  BY DEF ImageInv, SyncDue, ImagesInSync, Quiescent, Supplied, ToUpdate, Idle
<1> QED BY <1>1, <1>2, <1>3, PTL DEF Spec
=============================================================================
