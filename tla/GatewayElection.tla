-------------------------- MODULE GatewayElection --------------------------
(***************************************************************************)
(* The CRs sharing one composite gateway, reconciled one at a time from    *)
(* caches that are up to date: what the cleanup and the priority rule      *)
(* decide together when nothing interferes.  FacadeReconciler is the same  *)
(* code with its interleavings and stale caches; a promise that fails      *)
(* there and holds here is lost to a race, one that fails here is lost by  *)
(* the rule itself.  Every CR that exists shares the gateway.              *)
(***************************************************************************)
EXTENDS CRPriority

CONSTANT CRs            \* the CRs that may exist, [kind, name]

\* owners are the owner references whose CR exists; template is the CR that
\* gave the pod template, and the last-applied annotation.
Routers == [owners: SUBSET CRs, label: {c.name : c \in CRs} \cup {None},
            template: CRs]

\* A CR is its kind and its name.
ASSUME CRsAssumption ==
  \A c, d \in CRs :
    /\ c.kind \in Kinds /\ c.name # None
    /\ c.kind = d.kind /\ c.name = d.name => c = d
ASSUME NoneAssumption ==
  None \notin CRs /\ None \notin BOOLEAN /\ None \notin Routers

VARIABLES
  master,     \* CR |-> its spec.masterConfiguration, or None
  router,     \* the gateway's Deployment, or None
  pending,    \* CRs that are queued
  recovered   \* no CR changed since the operator last started

vars == <<master, router, pending, recovered>>

Live == {c \in CRs : master[c] # None}

-----------------------------------------------------------------------------
(* One reconcile: cleanupDeployments, then deleteFacadeService or          *)
(* applyFacadeService.                                                     *)

MasterExists(r) == \E c \in Live : master[c] /\ c.name = r.label

\* deleteNotUsedMeshRouters.  The write of cleanupLastApplied, which marks the
\* annotation of a CR that is gone as deleted, is left out: Applied looks for the
\* CR itself.
Cleaned ==
  IF router = None \/ Live = {} THEN None
  ELSE [router EXCEPT !.label = IF MasterExists(router) THEN @ ELSE None]

\* GetByLastAppliedCr
Applied(r) == IF r.template \in Live THEN r.template ELSE None

MayConfigure(c, r) ==
  r # None => UpdateAvailable(c, master[c], r.label, Applied(r),
                              \E d \in Live : d.name = r.label)

\* Mutant: the label gets the CR's kind for its name.
ConfiguredByKind(c, r) ==
  [owners   |-> {c} \cup (IF r = None THEN {} ELSE r.owners),
   label    |-> IF master[c] THEN c.kind ELSE None,
   template |-> c]

\* applyDeployment
Configured(c, r) ==
  [owners   |-> {c} \cup (IF r = None THEN {} ELSE r.owners),
   label    |-> IF master[c] THEN c.name ELSE None,
   template |-> c]

Reconcile(c) ==
  /\ c \in pending
  /\ pending' = pending \ {c}
  /\ router' = IF c \in Live /\ MayConfigure(c, Cleaned)
               THEN Configured(c, Cleaned) ELSE Cleaned
  /\ UNCHANGED <<master, recovered>>

-----------------------------------------------------------------------------

\* A user creates c or changes what its spec says.
WriteCR(c) ==
  /\ \E m \in BOOLEAN : m # master[c] /\ master' = [master EXCEPT ![c] = m]
  /\ pending' = pending \cup {c}
  /\ recovered' = FALSE
  /\ UNCHANGED router

DeleteCR(c) ==
  /\ c \in Live
  /\ master' = [master EXCEPT ![c] = None]
  /\ router' = IF router = None THEN None
               ELSE [router EXCEPT !.owners = @ \ {c}]
  /\ pending' = pending \cup {c}
  /\ recovered' = FALSE

\* Kubernetes deletes a Deployment none of whose owners exists.
CollectGarbage ==
  /\ router # None
  /\ router.owners = {}
  /\ router' = None
  /\ UNCHANGED <<master, pending, recovered>>

\* The operator starts again and every CR is queued.
Restart ==
  /\ pending' = Live
  /\ recovered' = TRUE
  /\ UNCHANGED <<master, router>>

Init ==
  /\ master \in [CRs -> BOOLEAN \cup {None}]
  /\ router = None
  /\ pending = Live
  /\ recovered = TRUE

Next ==
  \/ \E c \in CRs : Reconcile(c) \/ WriteCR(c) \/ DeleteCR(c)
  \/ CollectGarbage
  \/ Restart

Spec == Init /\ [][Next]_vars

-----------------------------------------------------------------------------

\* The variables have their types.
TypeOK ==
  /\ master \in [CRs -> BOOLEAN \cup {None}]
  /\ router \in Routers \cup {None}
  /\ pending \subseteq CRs
  /\ recovered \in BOOLEAN

\* Masters come before others, and Gateways before FacadeServices.
Outclasses(c, d) ==
  \/ master[c] /\ ~master[d]
  \/ master[c] = master[d] /\ Priority(c.kind) > Priority(d.kind)

\* The master that configured the gateway keeps it until it is changed or
\* deleted itself, or a master of a higher kind takes it: never a CR that is
\* no master, never a master of its own kind.
MasterKept ==
  [][\A c \in CRs :
       /\ router # None /\ router.template = c /\ router.label = c.name
       /\ master[c] = TRUE /\ master'[c] = TRUE /\ c \in router.owners
       => /\ router' # None
          /\ LET d == router'.template
             IN d # c => master[d] = TRUE /\ Priority(d.kind) > Priority(c.kind)]_vars

NamesDiffer == \A c, d \in Live : c.name = d.name => c = d

\* Once every CR has been reconciled after a restart the gateway has the
\* template of a CR that no other outclasses, whatever it was before.  The
\* master label tells no kinds apart: this is about CRs of different names (of
\* a FacadeService and a Gateway of one name the one that ceased to be master
\* can keep the label, and the gateway, from the one that is).  CRs that are
\* gone may have had the names of those that are there.
RestartElects ==
  pending = {} /\ recovered /\ Live # {} /\ NamesDiffer =>
    /\ router # None
    /\ router.template \in Live
    /\ \A c \in Live : ~Outclasses(c, router.template)
=============================================================================
