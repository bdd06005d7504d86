----------------------------- MODULE TargetClaims -----------------------------
(* What the project says of deleting a target, and the code does not keep.    *)
EXTENDS TargetCleanup

\* cmd/server/target_cleanup_postgres_gate_test.go:49 "Target writers and result
\* materialization serialize with delete in both commit orders": whichever
\* commits first, a completed cleanup has left no asset behind.
WritersSerializeWithDelete ==
    \A t \in Targets : job[t] = "completed" => rows[t] = {}
=============================================================================
