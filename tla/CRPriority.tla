----------------------------- MODULE CRPriority -----------------------------
(***************************************************************************)
(* Which custom resource may configure a composite gateway.                *)
(*                                                                         *)
(* Several CRs name the same composite gateway in spec.gateway; one        *)
(* Deployment serves them all and one CR at a time gives it its template.  *)
(* crPriorityServiceImpl.UpdateAvailable decides, from what the informer   *)
(* caches hold, whether the CR being reconciled may replace the template.  *)
(*                                                                         *)
(* The operators take the facts the Go code looks up, and not the look-ups *)
(* (those read a cache at a moment, which is FacadeReconciler's matter):   *)
(*   cr           the reconciled CR, [kind, name]                          *)
(*   isMaster     its spec.masterConfiguration                             *)
(*   label        the master-CR label of the Deployment, or None           *)
(*   applied      the CR of the last-applied annotation when it was found, *)
(*                or None                                                  *)
(*   labelExists  whether a CR of either kind has the label as its name    *)
(***************************************************************************)
EXTENDS Naturals

CONSTANT None           \* Go's nil, and the empty string of a label

Kinds == {"FacadeService", "Gateway"}

Priority(kind) == IF kind = "Gateway" THEN 1 ELSE 0

SameType(cr, applied) == applied # None => applied.kind = cr.kind

\* checkByKindPriority
NotOutranked(cr, applied) ==
  applied # None => Priority(cr.kind) >= Priority(applied.kind)

\* checkMasterCRByKindPriority
Outranks(cr, applied) ==
  applied # None => Priority(cr.kind) > Priority(applied.kind)

\* Mutant: the label alone tells the master.
LabelAlone(cr, label, applied) == label = cr.name

\* The router already carries this CR as its master.
OwnLabel(cr, label, applied) == label = cr.name /\ SameType(cr, applied)

UpdateAvailable(cr, isMaster, label, applied, labelExists) ==
  \/ isMaster /\ label = None
  \/ /\ label = None \/ OwnLabel(cr, label, applied) \/ ~labelExists
     /\ NotOutranked(cr, applied)
  \/ /\ label # None /\ ~OwnLabel(cr, label, applied) /\ labelExists
     /\ isMaster
     /\ Outranks(cr, applied)
=============================================================================
