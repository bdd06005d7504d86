------------------------------ MODULE ScanClaims ------------------------------
(***************************************************************************)
(* What the comments, the documents and the tests of the server say of the *)
(* execution of a scan, where the code of ScanExecution does otherwise.    *)
(* Each definition states one sentence of theirs; its run finds a          *)
(* behaviour of the code that breaks it.                                   *)
(***************************************************************************)
EXTENDS ScanExecution

(* A scan succeeds only when every task is through: blocked tasks wait for
   their stage, they are not ignored (the stage barrier of the scan
   application).  recalculateScanStatus leaves blocked tasks out of its
   counts, so whoever counts between the commit of a stage and the unlock of
   the next one takes the scan for finished. *)
SucceededScanHasNothingLeft ==
    \A s \in Scans :
        scan[s].status = "succeeded" => ~Has(s, UnfinishedStatuses)
=============================================================================
