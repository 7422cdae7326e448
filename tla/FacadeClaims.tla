---------------------------- MODULE FacadeClaims ----------------------------
(***************************************************************************)
(* What the documentation says of the reconciliation, where the code does  *)
(* otherwise.  Each property is the promise of a document; TLC shows a     *)
(* behaviour of FacadeReconciler that breaks it.                           *)
(***************************************************************************)
EXTENDS FacadeReconciler

CoreEgressCRs == {c \in CRs : c.name = CoreEgressGateway}

\* docs/core-egress-gateway.md:47: when the core-egress-gateway CR exists it
\* always wins and controls the egress gateway, regardless of masters.
CoreEgressWins ==
  Quiescent => \A c \in CoreEgressCRs : crs[c] # None =>
    LET g == Target(c, crs[c]) IN dep[g] # None => dep[g].template = c

\* docs/core-egress-gateway.md:50: deleting the egress-gateway CR while
\* core-egress-gateway exists has no effect on the egress gateway's
\* Deployment; so a core-egress-gateway always has one.
EgressDeletionHarmless ==
  Quiescent => \A c \in CoreEgressCRs : crs[c] # None =>
    dep[Target(c, crs[c])] # None

\* README.md:123: a restart of the operator recreates the missing entities.
RestartRecreates ==
  Quiescent /\ recovered =>
    \A c \in CRs : crs[c] # None => dep[Target(c, crs[c])] # None
=============================================================================
