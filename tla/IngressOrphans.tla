--------------------------- MODULE IngressOrphans ---------------------------
(***************************************************************************)
(* The ingresses, HTTPRoutes and traffic policies of CRs of type ingress.  *)
(* Every reconcile, of whatever CR, deletes those that no CR declares      *)
(* (DeleteOrphaned) and then applies its own, while the reconciles of      *)
(* other CRs do the same.  Nothing is locked between them, the deletions   *)
(* are decided from two caches read one after the other, and a deletion is *)
(* by name.  Policies are read from the API server.                        *)
(***************************************************************************)
EXTENDS Naturals, Sequences

CONSTANTS
  None,
  CRs,           \* the CRs that may exist, [kind, name]
  IngressNames,  \* names BuildNameAndPort gives to ingresses
  Unnamed,       \* an ingress whose port BuildNameAndPort cannot tell
  Declarations,  \* CR |-> the sets of ingresses its users may declare
  Initially,     \* CR |-> those it declares when the operator starts, or None
  PoliciesOf,    \* ingress name |-> the kinds of policies its HTTPRoute gets
  Systems,       \* what is deployed: a sequence of "Ingress" and "HTTPRoute"
  MaxChanges,    \* bound: CRs created, updated and deleted by users
  MaxFaults      \* bound: calls that fail, and restarts

RouteKinds == {"Ingress", "HTTPRoute"}
PolicyKinds == {"BackendTrafficPolicy", "ClientTrafficPolicy"}
Cached == [kind: RouteKinds, name: IngressNames]
Resources == Cached \cup [kind: PolicyKinds, name: IngressNames]

AnyNames == SUBSET (IngressNames \cup {Unnamed})
Objects == [inc: Nat, declares: AnyNames]
Owners == [cr: CRs, inc: Nat]
Versions == [owners: SUBSET Owners, rev: 0..2]

ASSUME KindsAssumption == \A c \in CRs : c.kind \in {"FacadeService", "Gateway"}
ASSUME UnnamedAssumption == Unnamed \notin IngressNames
ASSUME DeclarationsAssumption ==
  \A c \in CRs :
    /\ \A d \in Declarations[c] : d \in AnyNames
    /\ Initially[c] = None \/ Initially[c] \in AnyNames
ASSUME PoliciesAssumption == PoliciesOf \in [IngressNames -> SUBSET PolicyKinds]
ASSUME SystemsAssumption == \A s \in Systems : s \in Seq(RouteKinds)
ASSUME NoneAssumption == None \notin Objects /\ None \notin Versions
ASSUME OrphanBoundsAssumption == MaxChanges \in Nat /\ MaxFaults \in Nat

VARIABLES
  crs,       \* API server: CR |-> [inc, declares], or None
  crCache,   \* the CR informers' caches
  born,      \* CR |-> how many objects of that name have been created
  res,       \* API server: resource |-> [owners, rev], or None
  seen,      \* the informers' caches of ingresses and HTTPRoutes
  system,    \* what this installation deploys
  queue,     \* CRs to reconcile
  todo,      \* CR |-> the calls its reconcile still has to make
  busy,      \* CRs being reconciled
  obj,       \* CR |-> the object its reconcile has in hand, or None
  standing,  \* CR |-> <<d, n>>: CR d has declared n ever since it listed
  lagged,    \* a listing has found its cache behind the server
  recovered, \* only the operator has acted since it last started
  routed,    \* and then it found a route that a CR declares
  changes, faults

crVars == <<crs, born>>
workVars == <<queue, busy, obj>>
startVars == <<recovered, routed>>
vars == <<crVars, crCache, res, seen, system, workVars, todo, standing,
          lagged, startVars, changes, faults>>

-----------------------------------------------------------------------------
(* Objects                                                                 *)

Of(kind, name) == [kind |-> kind, name |-> name]
Declares(objects, c) == IF objects[c] = None THEN {} ELSE objects[c].declares
Declared == UNION {Declares(crs, c) : c \in CRs}

\* What a Get returns.
Found(o) == IF o \in Cached THEN seen[o] ELSE res[o]
Conflict(o) == Found(o) # res[o]

\* A write gives an object a revision the cached one does not have.
Version(o, owners) ==
  [owners |-> owners,
   rev |-> CHOOSE n \in 0..2 : \A v \in {res[o], seen[o]} \ {None} : v.rev # n]

-----------------------------------------------------------------------------
(* The calls of a reconcile                                                *)

\* names: what the call is about; keep: names that CRs have been seen to declare.
Call(do, kind, names, keep) == [do |-> do, kind |-> kind, names |-> names, keep |-> keep]
ForEach(call) == IF call.names = {} THEN <<>> ELSE <<call>>

LockCall == Call("lock", None, {}, {})

\* Mutant: the FacadeServices' names are collected before the ingresses are listed.
CollectedFirst == <<"collect", "list", "decide">>

\* DeleteOrphaned.  FindByFields lists the FacadeServices (collect), then the
\* Gateways (decide).
Phases == <<"list", "collect", "decide">>
Following(phase) == IF phase = Phases[1] THEN Phases[2] ELSE Phases[3]
DeleteOrphaned(kind) == Call(Phases[1], kind, {}, {})

Delete(kind, names) == ForEach(Call("delete", kind, names, {}))

\* A route's policies are deleted after it.
DeletePolicies(kind, name) ==
  IF kind # "HTTPRoute" THEN <<>>
  ELSE <<Call("tryDelete", "BackendTrafficPolicy", {name}, {}),
         Call("tryDelete", "ClientTrafficPolicy", {name}, {})>>

\* Mutant: the policies of one kind are forgotten.
SweepBackend(kind, keep) ==
  IF kind # "HTTPRoute" THEN <<>>
  ELSE <<Call("sweep", "ClientTrafficPolicy", {}, keep)>>

Sweep(kind, keep) ==
  IF kind # "HTTPRoute" THEN <<>>
  ELSE <<Call("sweep", "BackendTrafficPolicy", {}, keep),
         Call("sweep", "ClientTrafficPolicy", {}, keep)>>

Apply(kind, name) == Call("apply", kind, {name}, {})

ApplyPolicies(kind, name) ==
  LET apply(policy) == IF kind = "HTTPRoute" /\ policy \in PoliciesOf[name]
                       THEN <<Apply(policy, name)>> ELSE <<>>
  IN apply("BackendTrafficPolicy") \o apply("ClientTrafficPolicy")

\* applyIngressSpecs: the ingresses of the CR, in some order.
ApplyIngressSpecs(names) == ForEach(Call("specs", None, names, {}))

\* The deletions of applyIngresses and of deleteFacadeService.
Orphans == [i \in DOMAIN system |-> DeleteOrphaned(system[i])]

-----------------------------------------------------------------------------
(* Ends of a reconcile                                                     *)

Return(c) ==
  /\ todo' = [todo EXCEPT ![c] = <<>>]
  /\ busy' = busy \ {c}
  /\ obj' = [obj EXCEPT ![c] = None]
  /\ standing' = [standing EXCEPT ![c] = {}]

\* Mutant: the error is dropped.
RetryNever(c) == Return(c) /\ UNCHANGED queue

\* Mutant: a failed reconcile's calls are kept.
RetryKeepsCalls(c) ==
  /\ queue' = queue \cup {c} /\ busy' = busy \ {c}
  /\ UNCHANGED <<todo, obj, standing>>

\* Every error leads to another reconcile, the races' ones too.
Retry(c) == Return(c) /\ queue' = queue \cup {c}

\* The reconcile goes on with other calls in place of the first.
Instead(c, calls) == todo' = [todo EXCEPT ![c] = calls \o Tail(@)]
Continue(c) == Instead(c, <<>>) /\ UNCHANGED workVars

-----------------------------------------------------------------------------
(* Steps of the operator                                                   *)

\* A CR has one reconcile at a time, which reads it before it has the lock.
Begin(c) ==
  /\ c \in queue \ busy
  /\ queue' = queue \ {c}
  /\ busy' = busy \cup {c}
  /\ obj' = [obj EXCEPT ![c] = crCache[c]]
  /\ todo' = [todo EXCEPT ![c] = <<LockCall>> \o Orphans
                                \o ApplyIngressSpecs(Declares(crCache, c))]
  /\ UNCHANGED <<crVars, crCache, res, seen, system, standing, lagged,
                 startVars, changes, faults>>

Calling(c, do) ==
  /\ c \in busy /\ todo[c] # <<>> /\ Head(todo[c]).do = do
  /\ UNCHANGED <<crVars, crCache, seen, system, startVars, changes, faults>>

Waiting(c) == c \in busy /\ todo[c] # <<>> /\ Head(todo[c]) = LockCall

\* namedLock.Lock: the CRs of one name go one at a time.
LockName(c) ==
  /\ Calling(c, "lock")
  /\ \A d \in busy : d.name = c.name => Waiting(d)
  /\ Continue(c)
  /\ UNCHANGED <<res, standing, lagged>>

\* Without a managed ingress nothing is collected and no policy looked for.
List(c) ==
  /\ Calling(c, "list")
  /\ LET call == Head(todo[c])
         found == {n \in IngressNames : seen[Of(call.kind, n)] # None}
     IN /\ Instead(c, ForEach(Call(Following("list"), call.kind, found, call.keep)))
        /\ lagged' = (lagged \/ \E n \in IngressNames : Conflict(Of(call.kind, n)))
  /\ standing' = [standing EXCEPT ![c] =
                    {p \in CRs \X IngressNames : p[2] \in Declares(crCache, p[1])}]
  /\ UNCHANGED <<res, workVars>>

\* The index takes a CR for what its spec says: an egress-gateway of type ingress,
\* which has its names collected and never applied, is left out.
DeclaredBy(kind) == UNION {Declares(crCache, d) : d \in {e \in CRs : e.kind = kind}}

Collect(c) ==
  /\ Calling(c, "collect")
  /\ LET call == Head(todo[c])
     IN Instead(c, <<Call(Following("collect"), call.kind, call.names,
                          DeclaredBy("FacadeService"))>>)
  /\ UNCHANGED <<res, workVars, standing, lagged>>

\* Mutant: without a CR of type ingress nothing is deleted.
OrphanedIfAny(found, names) == IF names = {} THEN {} ELSE found \ names

Orphaned(found, names) == found \ names

\* An ingress that BuildNameAndPort cannot name ends the reconcile, whoever
\* declared it.
Decide(c) ==
  /\ Calling(c, "decide")
  /\ LET call == Head(todo[c])
         names == call.keep \cup DeclaredBy("Gateway")
     IN IF Unnamed \in names THEN Retry(c)
        ELSE /\ Instead(c, Delete(call.kind, Orphaned(call.names, names))
                           \o Sweep(call.kind, names))
             /\ UNCHANGED <<workVars, standing>>
  /\ UNCHANGED <<res, lagged>>

\* GenericClient.Delete: by name, if there is one.
Gone(o) == IF Found(o) = None THEN res ELSE [res EXCEPT ![o] = None]

DoDelete(c, n) ==
  /\ Calling(c, "delete")
  /\ LET call == Head(todo[c])
     IN /\ n \in call.names
        /\ res' = Gone(Of(call.kind, n))
        /\ Instead(c, DeletePolicies(call.kind, n) \o Delete(call.kind, call.names \ {n}))
  /\ UNCHANGED <<workVars, standing, lagged>>

\* The deletes of a route's policies, which may fail: that is only logged.
TryDelete(c) ==
  /\ Calling(c, "tryDelete")
  /\ \E n \in Head(todo[c]).names : res' = Gone(Of(Head(todo[c]).kind, n))
  /\ Continue(c)
  /\ UNCHANGED <<standing, lagged>>

\* deleteOrphanedPolicies
DoSweep(c) ==
  /\ Calling(c, "sweep")
  /\ LET call == Head(todo[c])
     IN Instead(c, Delete(call.kind, {n \in IngressNames \ call.keep :
                                        res[Of(call.kind, n)] # None}))
  /\ UNCHANGED <<res, workVars, standing, lagged>>

\* The next turn of applyIngressSpecs.
NextSpec(c, n) ==
  /\ Calling(c, "specs")
  /\ n \in Head(todo[c]).names
  /\ Instead(c, [i \in DOMAIN system |-> Apply(system[i], n)]
                \o ApplyIngressSpecs(Head(todo[c]).names \ {n}))
  /\ UNCHANGED <<res, workVars, standing, lagged>>

\* GenericClient.Apply: a conflict, AlreadyExists and NotFound are all retried.
DoApply(c) ==
  /\ Calling(c, "apply")
  /\ \E n \in Head(todo[c]).names :
       LET o == Of(Head(todo[c]).kind, n)
           owner == [cr |-> c, inc |-> obj[c].inc]
           found == IF Found(o) = None THEN {} ELSE Found(o).owners
       IN IF n = Unnamed \/ Conflict(o) THEN Retry(c) /\ UNCHANGED res
          ELSE /\ res' = IF owner \in found THEN res
                         ELSE [res EXCEPT ![o] = Version(o, found \cup {owner})]
               /\ Instead(c, ApplyPolicies(o.kind, n))
               /\ UNCHANGED <<workVars, standing>>
  /\ UNCHANGED lagged

Finish(c) ==
  /\ c \in busy /\ todo[c] = <<>>
  /\ Return(c)
  /\ UNCHANGED <<crVars, crCache, res, seen, system, queue, lagged, startVars,
                 changes, faults>>

CallFails(c) ==
  /\ c \in busy /\ todo[c] # <<>> /\ ~Waiting(c)
  /\ faults < MaxFaults
  /\ faults' = faults + 1
  /\ IF Head(todo[c]).do = "tryDelete" THEN Continue(c) /\ UNCHANGED standing
     ELSE Retry(c)
  /\ UNCHANGED <<crVars, crCache, res, seen, system, lagged, startVars, changes>>

-----------------------------------------------------------------------------
(* Users, informers, the garbage collector, the operator's pod             *)

Change ==
  /\ changes < MaxChanges
  /\ changes' = changes + 1
  /\ recovered' = FALSE
  /\ UNCHANGED <<crCache, res, seen, system, workVars, todo, standing, lagged,
                 routed, faults>>

WriteCR(c) ==
  /\ \E d \in Declarations[c] :
       /\ d # Declares(crs, c) \/ crs[c] = None
       /\ crs' = [crs EXCEPT ![c] =
                    [inc |-> IF @ = None THEN born[c] ELSE @.inc, declares |-> d]]
  /\ born' = [born EXCEPT ![c] = IF crs[c] = None THEN @ + 1 ELSE @]
  /\ Change

DeleteCR(c) ==
  /\ crs[c] # None
  /\ crs' = [crs EXCEPT ![c] = None]
  /\ UNCHANGED born
  /\ Change

SyncCR(c) ==
  /\ crCache[c] # crs[c]
  /\ crCache' = [crCache EXCEPT ![c] = crs[c]]
  /\ queue' = queue \cup {c}
  /\ standing' = [d \in CRs |-> {p \in standing[d] :
                    p[1] = c => p[2] \in Declares(crs, c)}]
  /\ UNCHANGED <<crVars, res, seen, system, busy, obj, todo, lagged,
                 startVars, changes, faults>>

SyncResource(o) ==
  /\ Conflict(o)
  /\ seen' = [seen EXCEPT ![o] = res[o]]
  /\ UNCHANGED <<crVars, crCache, res, system, workVars, todo, standing,
                 lagged, startVars, changes, faults>>

Alive(uid) == crs[uid.cr] # None /\ crs[uid.cr].inc = uid.inc

Collectable(o) == res[o] # None /\ ~\E uid \in res[o].owners : Alive(uid)

CollectGarbage(o) ==
  /\ Collectable(o)
  /\ res' = [res EXCEPT ![o] = None]
  /\ UNCHANGED <<crVars, crCache, seen, system, workVars, todo, standing,
                 lagged, startVars, changes, faults>>

Restart ==
  /\ faults < MaxFaults
  /\ faults' = faults + 1
  /\ crCache' = crs
  /\ seen' = [o \in Resources |-> res[o]]
  /\ queue' = {c \in CRs : crs[c] # None}
  /\ busy' = {}
  /\ todo' = [c \in CRs |-> <<>>]
  /\ obj' = [c \in CRs |-> None]
  /\ standing' = [c \in CRs |-> {}]
  /\ recovered' = \A o \in Resources : ~Collectable(o)
  /\ routed' = \E n \in IngressNames \cap Declared : res[Of("HTTPRoute", n)] # None
  /\ UNCHANGED <<crVars, res, system, lagged, changes>>

Init ==
  /\ crs = [c \in CRs |-> IF Initially[c] = None THEN None
                          ELSE [inc |-> 0, declares |-> Initially[c]]]
  /\ crCache = crs
  /\ born = [c \in CRs |-> IF Initially[c] = None THEN 0 ELSE 1]
  /\ res = [o \in Resources |-> None]
  /\ seen = res
  /\ system \in Systems
  /\ queue = {c \in CRs : crs[c] # None}
  /\ busy = {}
  /\ todo = [c \in CRs |-> <<>>]
  /\ obj = [c \in CRs |-> None]
  /\ standing = [c \in CRs |-> {}]
  /\ lagged = FALSE /\ recovered = TRUE /\ routed = FALSE
  /\ changes = 0 /\ faults = 0

Quiescent ==
  /\ queue = {} /\ busy = {}
  /\ crCache = crs
  /\ \A o \in Resources : ~Conflict(o) /\ ~Collectable(o)

\* An operator at rest is no deadlock.
Rest == Quiescent /\ UNCHANGED vars

Next ==
  \/ \E c \in CRs :
       \/ Begin(c) \/ LockName(c) \/ List(c) \/ Collect(c) \/ Decide(c) \/ TryDelete(c)
       \/ DoSweep(c) \/ DoApply(c) \/ Finish(c) \/ CallFails(c)
       \/ \E n \in IngressNames \cup {Unnamed} : DoDelete(c, n) \/ NextSpec(c, n)
       \/ WriteCR(c) \/ DeleteCR(c) \/ SyncCR(c)
  \/ \E o \in Resources : SyncResource(o) \/ CollectGarbage(o)
  \/ Restart
  \/ Rest

Spec == Init /\ [][Next]_vars

-----------------------------------------------------------------------------
(* Properties                                                              *)

Deployed == {system[i] : i \in DOMAIN system}

Calls ==
  [do: {"lock", "list", "collect", "decide", "delete", "tryDelete", "sweep", "specs", "apply"},
   kind: RouteKinds \cup PolicyKinds \cup {None}, names: AnyNames, keep: AnyNames]

\* Types, and a reconcile that is over has nothing left to do.
TypeOK ==
  /\ crs \in [CRs -> Objects \cup {None}]
  /\ crCache \in [CRs -> Objects \cup {None}]
  /\ res \in [Resources -> Versions \cup {None}]
  /\ seen \in [Resources -> Versions \cup {None}]
  /\ queue \subseteq CRs /\ busy \subseteq CRs
  /\ \A c \in CRs :
       /\ todo[c] \in Seq(Calls)
       /\ obj[c] \in Objects \cup {None}
       /\ standing[c] \subseteq CRs \X IngressNames
       /\ c \notin busy => todo[c] = <<>> /\ obj[c] = None

\* Whatever state a restart finds, and whatever the reconciles it starts
\* delete beside each other, once they are done and users have changed nothing
\* meanwhile every declared ingress exists in each kind deployed, with its
\* policies (applyIngressSpecs after DeleteOrphaned).
RestartServes ==
  Quiescent /\ recovered =>
    \A n \in Declared : \A kind \in Deployed :
      /\ res[Of(kind, n)] # None
      /\ kind = "HTTPRoute" => \A p \in PoliciesOf[n] : res[Of(p, n)] # None

\* In the same state no ingress or route is left that no CR declares, those
\* of a CR that has become another's or has lost its ingresses included, and
\* no traffic policy whose route went without it.  Policies are looked for only
\* while there are routes, so the restart must have found one that stays.
RestartCleans ==
  Quiescent /\ recovered =>
    \A o \in IF routed THEN Resources ELSE Cached :
      res[o] # None => o.name \in Declared

\* As long as every listing has seen the server's state and no call has
\* failed, an operator at rest has left no undeclared ingress or route, in
\* whatever order users gave them up while other reconciles went on.
NothingOrphaned ==
  Quiescent /\ ~lagged /\ faults = 0 =>
    \A o \in Cached : res[o] # None => o.name \in Declared

\* DeleteOrphaned collects the names after it has listed the ingresses, so
\* that it deletes no ingress of a CR that has declared it ever since the
\* listing.
StandingKept ==
  [][\A c \in CRs : \A n \in IngressNames :
       DoDelete(c, n) /\ Head(todo[c]).kind \in RouteKinds
         => \A d \in CRs : <<d, n>> \notin standing[c]]_vars
=============================================================================
