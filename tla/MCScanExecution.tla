--------------------------- MODULE MCScanExecution ---------------------------
(* Small instances of ScanExecution and ScanClaims for TLC.                *)
EXTENDS ScanClaims, TLC

CONSTANTS s1, a1, a2, r1, r2, r3, w1, w2, m1

(* One scan: two steps in its first stage, one in its second. *)
OneScan   == 1 :> s1 @@ 2 :> s1 @@ 3 :> s1
TwoStages == 1 :> 1 @@ 2 :> 1 @@ 3 :> 2

(* One scan of two steps in successive stages. *)
TwoSteps == 1 :> s1 @@ 2 :> s1
Chain    == 1 :> 1 @@ 2 :> 2

RunsAll == a1 :> Tasks @@ a2 :> Tasks
RunsOne == a1 :> Tasks

NoSkip    == {{}}
SomeSkips == {{}, {1}, {1, 2}}

Symmetry == Permutations(Requests) \cup Permutations(Streams)
==============================================================================
