----------------------------- MODULE UpgradeClaims -----------------------------
(***************************************************************************)
(* What the comments and the documents say of a system upgrade, where the  *)
(* code of UpgradeOperation does otherwise.                                *)
(***************************************************************************)
EXTENDS UpgradeOperation

(* An operation that is active ends (the watchdog's comments: it closes the
   gap where the host keeps returning the same checkpoint, so that none stays
   active for ever).  A host that fails while the row says "restarting" is
   refused by the transition graph, and its pass ends before the watchdog. *)
OperationAlwaysEnds == \A o \in Ops : Active(o) ~> ~Active(o)
=============================================================================
