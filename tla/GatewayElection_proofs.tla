----------------------- MODULE GatewayElection_proofs -----------------------
(* Proofs about GatewayElection.                                           *)
EXTENDS GatewayElection, TLAPS

-----------------------------------------------------------------------------
(* The rule                                                                *)

\* While a CR has the label's name only that CR, or a master of a higher kind
\* than the one applied last, may configure the gateway.
LEMMA LabelGuards ==
  ASSUME NEW c \in CRs, NEW isMaster \in BOOLEAN, NEW label, NEW applied,
         label # None,
         UpdateAvailable(c, isMaster, label, applied, TRUE)
  PROVE  \/ c.name = label /\ SameType(c, applied) /\ NotOutranked(c, applied)
         \/ isMaster /\ Outranks(c, applied)
BY DEF UpdateAvailable, OwnLabel

LEMMA LiveType ==
  ASSUME TypeOK
  PROVE  /\ Live \subseteq CRs
         /\ \A c \in CRs : c \in Live <=> master[c] \in BOOLEAN
BY NoneAssumption DEF TypeOK, Live

LEMMA CleanedType ==
  ASSUME TypeOK
  PROVE  /\ Cleaned \in Routers \cup {None}
         /\ Cleaned # None =>
              /\ router # None
              /\ Cleaned.owners = router.owners
              /\ Cleaned.template = router.template
              /\ Cleaned.label \in {None, router.label}
              /\ Cleaned.label # None => MasterExists(router)
         /\ router # None /\ Live # {} => Cleaned # None
BY NoneAssumption DEF TypeOK, Cleaned, Routers

LEMMA ConfiguredType ==
  ASSUME TypeOK, NEW c \in CRs, NEW r \in Routers \cup {None}
  PROVE  /\ Configured(c, r) \in Routers
         /\ Configured(c, r) # None
         /\ Configured(c, r).template = c
         /\ c \in Configured(c, r).owners
         /\ Configured(c, r).label = IF master[c] THEN c.name ELSE None
<1> DEFINE os == {c} \cup (IF r = None THEN {} ELSE r.owners)
           l == IF master[c] THEN c.name ELSE None
<1>1. os \in SUBSET CRs
  BY DEF Routers
<1>2. l \in {d.name : d \in CRs} \cup {None}
  OBVIOUS
<1>3. Configured(c, r) = [owners |-> os, label |-> l, template |-> c]
  BY DEF Configured
<1>4. c \in os /\ l = IF master[c] THEN c.name ELSE None
  OBVIOUS
<1> HIDE DEF os, l
<1>5. Configured(c, r) \in Routers
  BY <1>1, <1>2, <1>3 DEF Routers
<1>6. Configured(c, r) # None
  BY <1>5, NoneAssumption
<1> QED BY <1>3, <1>4, <1>5, <1>6

-----------------------------------------------------------------------------
(* Types                                                                   *)

\* The variables keep their types.
THEOREM ElectionTypeCorrect == Spec => []TypeOK
<1>1. Init => TypeOK
  BY DEF Init, TypeOK, Live
<1>2. TypeOK /\ [Next]_vars => TypeOK'
  <2> SUFFICES ASSUME TypeOK, [Next]_vars PROVE TypeOK'
    OBVIOUS
  <2>1. ASSUME NEW c \in CRs, Reconcile(c) PROVE TypeOK'
    <3>1. router' \in Routers \cup {None}
      BY <2>1, CleanedType, ConfiguredType DEF Reconcile
    <3> QED BY <2>1, <3>1 DEF Reconcile, TypeOK
  <2>2. ASSUME NEW c \in CRs, WriteCR(c) PROVE TypeOK'
    BY <2>2 DEF WriteCR, TypeOK
  <2>3. ASSUME NEW c \in CRs, DeleteCR(c) PROVE TypeOK'
    <3>1. router' \in Routers \cup {None}
      BY <2>3 DEF DeleteCR, TypeOK, Routers
    <3> QED BY <2>3, <3>1 DEF DeleteCR, TypeOK
  <2>4. CASE CollectGarbage
    BY <2>4 DEF CollectGarbage, TypeOK
  <2>5. CASE Restart
    BY <2>5, LiveType DEF Restart, TypeOK
  <2>6. CASE UNCHANGED vars
    BY <2>6 DEF vars, TypeOK
  <2> QED BY <2>1, <2>2, <2>3, <2>4, <2>5, <2>6 DEF Next
<1> QED BY <1>1, <1>2, PTL DEF Spec

-----------------------------------------------------------------------------
(* The master                                                              *)

LEMMA StepKeepsMaster ==
  ASSUME TypeOK, [Next]_vars, NEW c \in CRs,
         router # None, router.template = c, router.label = c.name,
         master[c] = TRUE, master'[c] = TRUE, c \in router.owners
  PROVE  /\ router' # None
         /\ LET d == router'.template
            IN d # c => master[d] = TRUE /\ Priority(d.kind) > Priority(c.kind)
<1>1. c \in Live /\ MasterExists(router)
  BY LiveType DEF MasterExists
<1>2. Cleaned = router
  BY <1>1 DEF Cleaned, TypeOK, Routers
<1>3. ASSUME NEW e \in CRs, Reconcile(e), e \in Live, MayConfigure(e, Cleaned),
             e # c
      PROVE  master[e] = TRUE /\ Priority(e.kind) > Priority(c.kind)
  <2>1. UpdateAvailable(e, master[e], c.name, c, TRUE)
    <3>1. Applied(router) = c
      BY <1>1 DEF Applied
    <3>2. (\E d \in Live : d.name = router.label) = TRUE
      BY <1>1
    <3> QED BY <1>2, <1>3, <3>1, <3>2 DEF MayConfigure
  <2>2. master[e] \in BOOLEAN
    BY <1>3, LiveType
  <2>3. c.name # None /\ c # None
    BY CRsAssumption, NoneAssumption
  <2>4. \/ e.name = c.name /\ SameType(e, c)
        \/ master[e] /\ Outranks(e, c)
    BY <2>1, <2>2, <2>3, LabelGuards
  <2>5. ~(e.name = c.name /\ SameType(e, c))
    BY <1>3, <2>3, CRsAssumption DEF SameType
  <2> QED BY <2>2, <2>3, <2>4, <2>5 DEF Outranks
<1>4. ASSUME NEW e \in CRs, Reconcile(e)
      PROVE  /\ router' # None
             /\ LET d == router'.template
                IN d # c => master[d] = TRUE /\ Priority(d.kind) > Priority(c.kind)
  <2>1. CASE e \in Live /\ MayConfigure(e, Cleaned)
    <3>1. router' = Configured(e, Cleaned)
      BY <1>4, <2>1 DEF Reconcile
    <3>2. router' # None /\ router'.template = e
      BY <3>1, CleanedType, ConfiguredType
    <3> QED BY <1>3, <1>4, <2>1, <3>2
  <2>2. CASE ~(e \in Live /\ MayConfigure(e, Cleaned))
    BY <1>2, <1>4, <2>2 DEF Reconcile
  <2> QED BY <2>1, <2>2
<1>5. ASSUME NEW e \in CRs, WriteCR(e) \/ DeleteCR(e)
      PROVE  router' # None /\ router'.template = c
  <2>1. router' \in Routers
    BY <1>5 DEF WriteCR, DeleteCR, TypeOK, Routers
  <2> QED BY <1>5, <2>1, NoneAssumption DEF WriteCR, DeleteCR, TypeOK, Routers
<1>6. ~CollectGarbage
  BY DEF CollectGarbage
<1> QED BY <1>4, <1>5, <1>6 DEF Next, vars, Restart

\* However the CRs change, the master that configured the gateway loses it
\* only to a master of a higher kind.
THEOREM MasterKeeps == Spec => MasterKept
<1>1. TypeOK /\ [Next]_vars =>
        [\A c \in CRs :
           /\ router # None /\ router.template = c /\ router.label = c.name
           /\ master[c] = TRUE /\ master'[c] = TRUE /\ c \in router.owners
           => /\ router' # None
              /\ LET d == router'.template
                 IN d # c => master[d] = TRUE
                             /\ Priority(d.kind) > Priority(c.kind)]_vars
  BY StepKeepsMaster
<1> QED BY <1>1, ElectionTypeCorrect, PTL DEF Spec, MasterKept

-----------------------------------------------------------------------------
(* The election                                                            *)

\* The gateway's template is d's as d is now, and d keeps it alive.
Settled(d) ==
  /\ router # None /\ router.template = d /\ d \in router.owners
  /\ router.label = IF master[d] THEN d.name ELSE None

\* After a restart, whatever CR has been reconciled, one that it does not
\* outclass is still to come or has configured the gateway.  A master that has
\* the name of a router's CR that is gone takes the router in its turn.
IInv ==
  /\ router # None => router.label \in {None, router.template.name}
  /\ recovered /\ NamesDiffer =>
       /\ pending \subseteq Live
       /\ router # None /\ router.template \in Live \ pending
            => Settled(router.template)
       /\ router # None /\ router.template \notin Live
            => \A u \in Live : master[u] /\ u.name = router.label => u \in pending
       /\ \A c \in Live \ pending : \E d \in Live :
            ~Outclasses(c, d) /\ (d \in pending \/ Settled(d))

LEMMA PriorityType == ASSUME NEW k PROVE Priority(k) \in {0, 1}
BY DEF Priority

LEMMA NotSelf == ASSUME NEW c PROVE ~Outclasses(c, c)
<1>1. ~(Priority(c.kind) > Priority(c.kind))
  BY PriorityType
<1> QED BY <1>1, Zenon DEF Outclasses

LEMMA OutclassesOrder ==
  ASSUME TypeOK, NEW c \in Live, NEW d \in Live, NEW e \in Live,
         ~Outclasses(c, d), ~Outclasses(d, e)
  PROVE  ~Outclasses(c, e)
<1>1. master[c] \in BOOLEAN /\ master[d] \in BOOLEAN /\ master[e] \in BOOLEAN
  BY LiveType
<1>2. /\ Priority(c.kind) \in Nat
      /\ Priority(d.kind) \in Nat
      /\ Priority(e.kind) \in Nat
  BY PriorityType
<1>3. ~(Priority(c.kind) > Priority(d.kind))
      /\ ~(Priority(d.kind) > Priority(e.kind))
      => ~(Priority(c.kind) > Priority(e.kind))
  BY <1>2
<1> QED BY <1>1, <1>3, Zenon DEF Outclasses

\* The cleanup leaves a settled gateway alone.
LEMMA CleanedSettled ==
  ASSUME TypeOK, NEW d \in Live, Settled(d)
  PROVE  Cleaned = router
<1>1. router \in Routers
  BY DEF Settled, TypeOK
<1>2. master[d] \in BOOLEAN
  BY LiveType
<1>3. master[d] => MasterExists(router)
  BY DEF Settled, MasterExists
<1>4. ~master[d] => router.label = None
  BY DEF Settled
<1> QED BY <1>1, <1>2, <1>3, <1>4 DEF Cleaned, Routers, Settled

\* A CR that may replace the gateway's settled template is not outclassed.
LEMMA WinnerNotOutclassed ==
  ASSUME NamesDiffer, TypeOK, NEW d \in Live, Settled(d),
         NEW e \in Live, MayConfigure(e, Cleaned)
  PROVE  ~Outclasses(d, e)
<1>1. Cleaned = router /\ router # None /\ router.template = d
  BY CleanedSettled DEF Settled
<1>2. /\ Live \subseteq CRs /\ d.name # None /\ d # None
      /\ master[d] \in BOOLEAN /\ master[e] \in BOOLEAN
  BY LiveType, CRsAssumption, NoneAssumption
<1>3. Applied(router) = d
  BY <1>1 DEF Applied
<1>4. UpdateAvailable(e, master[e], router.label, d,
                      \E c \in Live : c.name = router.label)
  BY <1>1, <1>3 DEF MayConfigure
<1>5. CASE master[d]
  <2>1. router.label = d.name
    BY <1>5 DEF Settled
  <2>2. (\E c \in Live : c.name = router.label) = TRUE
    BY <2>1
  <2>3. UpdateAvailable(e, master[e], d.name, d, TRUE)
    BY <1>4, <2>1, <2>2
  <2>4. \/ e.name = d.name
        \/ master[e] /\ Outranks(e, d)
    BY <1>2, <2>3, LabelGuards
  <2>5. CASE e = d
    BY <2>5, NotSelf
  <2>6. CASE master[e] /\ Outranks(e, d)
    <3>1. ~(Priority(d.kind) > Priority(e.kind))
      BY <1>2, <2>6, PriorityType DEF Outranks
    <3> QED BY <2>6, <3>1, Zenon DEF Outclasses
  <2> QED BY <1>2, <2>4, <2>5, <2>6 DEF NamesDiffer
<1>6. CASE ~master[d]
  <2>1. router.label = None
    BY <1>6 DEF Settled
  <2>2. master[e] \/ NotOutranked(e, d)
    BY <1>4, <2>1, Zenon DEF UpdateAvailable
  <2>3. NotOutranked(e, d) => ~(Priority(d.kind) > Priority(e.kind))
    BY <1>2, PriorityType DEF NotOutranked
  <2> QED BY <1>2, <1>6, <2>2, <2>3, Zenon DEF Outclasses
<1> QED BY <1>2, <1>5, <1>6

\* A CR that may not configure the gateway does not outclass the one that did,
\* or a master that is still to take it.
LEMMA LoserDoesNotOutclass ==
  ASSUME NamesDiffer, TypeOK, IInv, recovered,
         NEW e \in Live, ~MayConfigure(e, Cleaned)
  PROVE  /\ Cleaned # None /\ router.template # e
         /\ \E d \in Live \ {e} :
              /\ ~Outclasses(e, d)
              /\ d = router.template \/ d \in pending
<1> DEFINE t == router.template
<1>1. Cleaned # None /\ Cleaned \in Routers
  BY CleanedType DEF MayConfigure
<1>2. /\ router # None /\ Cleaned.template = t
      /\ Cleaned.label \in {None, router.label}
      /\ Cleaned.label # None => MasterExists(router)
  BY <1>1, CleanedType
<1>3. router.label \in {None, t.name} /\ t \in CRs
  BY <1>2 DEF IInv, TypeOK, Routers
<1>4. Live \subseteq CRs /\ master[e] \in BOOLEAN
  BY LiveType
<1>5. ~UpdateAvailable(e, master[e], Cleaned.label, Applied(Cleaned),
                       \E d \in Live : d.name = Cleaned.label)
  BY <1>1 DEF MayConfigure
<1>6. Applied(Cleaned) = IF t \in Live THEN t ELSE None
  BY <1>2 DEF Applied
<1>7. CASE Cleaned.label = None
  <2>1. ~master[e] /\ ~NotOutranked(e, Applied(Cleaned))
    BY <1>5, <1>7, Zenon DEF UpdateAvailable
  <2>2. t \in Live /\ ~(Priority(e.kind) >= Priority(t.kind))
    BY <1>6, <2>1 DEF NotOutranked
  <2>3. ~(Priority(e.kind) > Priority(t.kind)) /\ t # e
    BY <2>2, PriorityType
  <2>4. ~Outclasses(e, t)
    BY <2>1, <2>3, Zenon DEF Outclasses
  <2> QED BY <1>1, <2>2, <2>3, <2>4
<1>8. CASE Cleaned.label # None
  <2>1. Cleaned.label = t.name /\ router.label = t.name /\ MasterExists(router)
    BY <1>2, <1>3, <1>8
  <2>2. PICK u \in Live : master[u] /\ u.name = t.name
    BY <2>1 DEF MasterExists
  <2>3. (\E d \in Live : d.name = Cleaned.label) = TRUE
    BY <2>1, <2>2
  <2>4. ~UpdateAvailable(e, master[e], t.name, Applied(Cleaned), TRUE)
    BY <1>5, <2>1, <2>3
  <2>5. ~(OwnLabel(e, t.name, Applied(Cleaned))
          /\ NotOutranked(e, Applied(Cleaned)))
    BY <2>4, Zenon DEF UpdateAvailable
  <2>6. ~OwnLabel(e, t.name, Applied(Cleaned))
        => ~master[e] \/ ~Outranks(e, Applied(Cleaned))
    BY <1>8, <2>1, <2>4, Zenon DEF UpdateAvailable
  <2>7. CASE t \in Live
    <3>1. t # e
      BY <1>6, <2>5, <2>7, PriorityType DEF OwnLabel, SameType, NotOutranked
    <3>2. ~OwnLabel(e, t.name, t)
      BY <2>7, <3>1 DEF OwnLabel, NamesDiffer
    <3>3. ~master[e] \/ ~Outranks(e, t)
      BY <1>6, <2>6, <2>7, <3>2
    <3>4. ~Outranks(e, t) => ~(Priority(e.kind) > Priority(t.kind))
      BY DEF Outranks
    <3>5. master[t]
      BY <2>2, <2>7 DEF NamesDiffer
    <3>6. ~Outclasses(e, t)
      BY <3>3, <3>4, <3>5, Zenon DEF Outclasses
    <3> QED BY <1>1, <2>7, <3>1, <3>6
  <2>8. CASE t \notin Live
    <3>1. Applied(Cleaned) = None
      BY <1>6, <2>8
    <3>2. SameType(e, None) /\ NotOutranked(e, None) /\ Outranks(e, None)
      BY DEF SameType, NotOutranked, Outranks
    <3>3. e # u
      BY <2>2, <2>5, <3>1, <3>2 DEF OwnLabel
    <3>4. ~master[e]
      BY <2>5, <2>6, <3>1, <3>2
    <3>5. ~Outclasses(e, u)
      BY <2>2, <3>4, Zenon DEF Outclasses
    <3>6. u \in pending
      BY <1>2, <2>1, <2>2, <2>8 DEF IInv
    <3> QED BY <1>1, <2>8, <3>3, <3>5, <3>6
  <2> QED BY <2>7, <2>8
<1> QED BY <1>7, <1>8

LEMMA ReconcileElects ==
  ASSUME NamesDiffer, TypeOK, IInv, recovered, NEW e \in CRs, Reconcile(e)
  PROVE  IInv'
<1>1. /\ e \in Live /\ e \in pending
      /\ Live' = Live /\ Live \subseteq CRs
      /\ pending' = pending \ {e} /\ pending \subseteq Live
      /\ master' = master /\ recovered'
  BY LiveType DEF Reconcile, IInv, Live
<1>2. ASSUME NEW c, NEW d PROVE Outclasses(c, d)' <=> Outclasses(c, d)
  BY <1>1 DEF Outclasses
<1>4. CASE MayConfigure(e, Cleaned)
  <2>1. router' = Configured(e, Cleaned)
    BY <1>1, <1>4 DEF Reconcile
  <2>2. Settled(e)' /\ router'.template = e
    BY <1>1, <2>1, CleanedType, ConfiguredType DEF Settled
  <2>3. ASSUME NEW c \in Live \ pending'
        PROVE  \E d \in Live : ~Outclasses(c, d) /\ (d \in pending' \/ Settled(d)')
    <3>1. CASE c = e
      BY <1>1, <2>2, <3>1, NotSelf
    <3>2. CASE c # e
      <4>1. PICK d \in Live : ~Outclasses(c, d) /\ (d \in pending \/ Settled(d))
        BY <1>1, <3>2 DEF IInv
      <4>2. CASE d \in pending \ {e}
        BY <1>1, <4>1, <4>2
      <4>3. CASE d = e
        BY <1>1, <2>2, <4>1, <4>3
      <4>4. CASE Settled(d)
        <5>1. ~Outclasses(c, e)
          BY <1>1, <1>4, <4>1, <4>4, WinnerNotOutclassed, OutclassesOrder
        <5> QED BY <1>1, <2>2, <5>1
      <4> QED BY <4>1, <4>2, <4>3, <4>4
    <3> QED BY <3>1, <3>2
  <2>4. router'.label \in {None, router'.template.name}
    BY <2>2 DEF Settled
  <2>5. router'.template \in Live'
    BY <1>1, <2>2
  <2> QED BY <1>1, <1>2, <2>2, <2>3, <2>4, <2>5 DEF IInv
<1>5. CASE ~MayConfigure(e, Cleaned)
  <2> PICK t : t = router.template
    OBVIOUS
  <2>1. router' = Cleaned
    BY <1>5 DEF Reconcile
  <2>2. Cleaned # None
    BY <1>1, <1>5, LoserDoesNotOutclass
  <2>3. PICK w \in Live \ {e} : ~Outclasses(e, w) /\ (w = t \/ w \in pending)
    BY <1>1, <1>5, LoserDoesNotOutclass
  <2>4. ASSUME NEW d \in Live, Settled(d) PROVE Settled(d)'
    BY <1>1, <2>1, <2>4, CleanedSettled DEF Settled
  <2>5. router # None /\ router' # None /\ router'.template = t
    BY <2>1, <2>2, CleanedType
  <2>6. w \in pending' \/ Settled(w)'
    <3>1. CASE w \in pending
      BY <1>1, <2>3, <3>1
    <3>2. CASE w \notin pending
      <4>1. Settled(w)
        BY <1>1, <2>3, <2>5, <3>2 DEF IInv
      <4> QED BY <2>3, <2>4, <4>1
    <3> QED BY <3>1, <3>2
  <2>7. ASSUME NEW c \in Live \ pending'
        PROVE  \E d \in Live : ~Outclasses(c, d) /\ (d \in pending' \/ Settled(d)')
    <3>1. CASE c = e
      BY <2>3, <2>6, <3>1
    <3>2. CASE c # e
      <4>1. PICK d \in Live : ~Outclasses(c, d) /\ (d \in pending \/ Settled(d))
        BY <1>1, <3>2 DEF IInv
      <4>2. CASE d = e
        <5>1. ~Outclasses(c, w)
          BY <1>1, <2>3, <4>1, <4>2, OutclassesOrder
        <5> QED BY <2>3, <2>6, <5>1
      <4>3. CASE d # e
        BY <1>1, <2>4, <4>1, <4>3
      <4> QED BY <4>2, <4>3
    <3> QED BY <3>1, <3>2
  <2>8. router'.label \in {None, router'.template.name}
    BY <2>1, <2>2, <2>5, CleanedType DEF IInv
  <2>9. ASSUME t \in Live \ pending' PROVE Settled(t)'
    <3>1. t # e
      BY <1>1, <1>5, LoserDoesNotOutclass
    <3> QED BY <1>1, <2>4, <2>5, <2>9, <3>1 DEF IInv
  <2>10. ASSUME t \notin Live, NEW u \in Live, master[u], u.name = router'.label
         PROVE  u \in pending'
    <3>1. u.name = router.label /\ u \in pending
      <4>1. u.name # None
        BY <1>1, CRsAssumption
      <4> QED BY <1>1, <2>1, <2>2, <2>5, <2>10, <4>1, CleanedType DEF IInv
    <3>2. Applied(Cleaned) = None /\ Cleaned.label = u.name
      BY <2>1, <2>5, <2>10 DEF Applied
    <3>3. UpdateAvailable(u, master[u], Cleaned.label, None, FALSE)
          /\ UpdateAvailable(u, master[u], Cleaned.label, None, TRUE)
      BY <3>2 DEF UpdateAvailable, OwnLabel, SameType, NotOutranked
    <3>4. MayConfigure(u, Cleaned)
      BY <3>2, <3>3 DEF MayConfigure
    <3> QED BY <1>1, <1>5, <3>1, <3>4
  <2> QED BY <1>1, <1>2, <2>5, <2>7, <2>8, <2>9, <2>10 DEF IInv
<1> QED BY <1>4, <1>5

LEMMA StepElects ==
  ASSUME TypeOK, IInv, [Next]_vars
  PROVE  IInv'
<1>1. ASSUME NEW e \in CRs, Reconcile(e) PROVE IInv'
  <2>1. CASE recovered /\ NamesDiffer
    BY <1>1, <2>1, ReconcileElects
  <2>2. CASE ~(recovered /\ NamesDiffer)
    <3> (recovered /\ NamesDiffer)' <=> recovered /\ NamesDiffer
      BY <1>1 DEF Reconcile, NamesDiffer, Live
    <3>1. router' # None => router'.label \in {None, router'.template.name}
      <4>1. CASE e \in Live /\ MayConfigure(e, Cleaned)
        BY <1>1, <4>1, CleanedType, ConfiguredType DEF Reconcile
      <4>2. CASE ~(e \in Live /\ MayConfigure(e, Cleaned))
        BY <1>1, <4>2, CleanedType DEF Reconcile, IInv
      <4> QED BY <4>1, <4>2
    <3> QED BY <1>1, <2>2, <3>1 DEF Reconcile, IInv
  <2> QED BY <2>1, <2>2
<1>2. ASSUME NEW e \in CRs, WriteCR(e) PROVE IInv'
  BY <1>2 DEF WriteCR, IInv
<1>3. ASSUME NEW e \in CRs, DeleteCR(e) PROVE IInv'
  <2>1. router' # None => /\ router # None
                          /\ router'.label = router.label
                          /\ router'.template = router.template
    BY <1>3 DEF DeleteCR, TypeOK, Routers
  <2> QED BY <1>3, <2>1 DEF DeleteCR, IInv
<1>4. CASE CollectGarbage
  <2>1. /\ Live' = Live /\ pending' = pending /\ recovered' = recovered
        /\ master' = master /\ router' = None
    BY <1>4 DEF CollectGarbage, Live
  <2>2. \A d : ~Settled(d)
    BY <1>4 DEF CollectGarbage, Settled
  <2>3. \A c, d : Outclasses(c, d)' <=> Outclasses(c, d)
    BY <2>1 DEF Outclasses
  <2> QED BY <2>1, <2>2, <2>3 DEF IInv, NamesDiffer
<1>5. CASE Restart
  <2>1. pending' = Live' /\ router' = router
    BY <1>5 DEF Restart, Live
  <2> QED BY <2>1 DEF IInv, Restart
<1>6. CASE UNCHANGED vars
  BY <1>6 DEF vars, IInv, Live, Settled, Outclasses, NamesDiffer
<1> QED BY <1>1, <1>2, <1>3, <1>4, <1>5, <1>6 DEF Next

LEMMA IInvElects ==
  ASSUME TypeOK, IInv
  PROVE  RestartElects
<1> SUFFICES ASSUME pending = {}, recovered, Live # {}, NamesDiffer
             PROVE  /\ router # None
                    /\ router.template \in Live
                    /\ \A c \in Live : ~Outclasses(c, router.template)
  BY DEF RestartElects
<1>1. \A c \in Live : \E d \in Live : ~Outclasses(c, d) /\ Settled(d)
  BY DEF IInv
<1> QED BY <1>1 DEF Settled

\* When no two CRs that exist have one name, after a restart the gateway goes
\* to a CR that no other outclasses, whatever was there before.
THEOREM ElectionCorrect == Spec => []RestartElects
<1>1. Init => IInv
  BY DEF Init, IInv, Live
<1>2. TypeOK /\ IInv /\ [Next]_vars => IInv'
  BY StepElects
<1>3. TypeOK /\ IInv => RestartElects
  BY IInvElects
<1> QED BY <1>1, <1>2, <1>3, ElectionTypeCorrect, PTL DEF Spec
=============================================================================
