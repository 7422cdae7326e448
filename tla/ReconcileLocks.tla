--------------------------- MODULE ReconcileLocks ---------------------------
(***************************************************************************)
(* What the reconciler promises about utils.NamedResourceLock, which knows *)
(* neither owners nor levels: a name is held by at most one worker, and a  *)
(* worker locks one CR name, then at most one gateway, and lets go of the  *)
(* gateway no later than of the CR.  A worker that holds a gateway waits   *)
(* for no lock, so the waits have no cycle.                                *)
(***************************************************************************)
CONSTANTS Names, Deployments, Workers, None

VARIABLE holder     \* lock name |-> the worker that holds it, or None

HeldBy(w) == {n \in Names \cup Deployments : holder[n] = w}

Assign(S, w) ==
  holder' = [n \in Names \cup Deployments |-> IF n \in S THEN w ELSE holder[n]]

Init == holder = [n \in Names \cup Deployments |-> None]

LockName(w, n) ==
  /\ HeldBy(w) = {}
  /\ holder[n] = None
  /\ Assign({n}, w)

LockGateway(w, g) ==
  /\ HeldBy(w) \cap Names # {}
  /\ HeldBy(w) \cap Deployments = {}
  /\ holder[g] = None
  /\ Assign({g}, w)

\* The gateway alone, or everything.
Unlock(w) ==
  \/ Assign(HeldBy(w), None)
  \/ Assign(HeldBy(w) \cap Deployments, None)

\* The operator's process dies.
Crash == Assign(Names \cup Deployments, None)

Next ==
  \/ \E w \in Workers :
       \/ \E n \in Names : LockName(w, n)
       \/ \E g \in Deployments : LockGateway(w, g)
       \/ Unlock(w)
  \/ Crash

Spec == Init /\ [][Next]_holder
=============================================================================
