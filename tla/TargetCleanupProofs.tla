-------------------------- MODULE TargetCleanupProofs --------------------------
(***************************************************************************)
(* Proofs that the cleanup of deleted targets keeps TargetLifecycle, for   *)
(* any number of targets, schedules, scans, requests and faults.           *)
(***************************************************************************)
EXTENDS TargetCleanup, SequenceTheorems, TLAPS

-----------------------------------------------------------------------------
(* Types *)

LEMMA TablesAreAList == Resources \in Seq(Range(Resources))
  BY CleanupAssumption, Zenon

LEMMA Bounds == MaxEpoch \in Nat \ {0} /\ MaxBatches \in Nat \ {0} /\ MaxFaults \in Nat
  BY CleanupAssumption, Zenon

LEMMA NoTargetIsNone == NoTarget \notin Targets
  BY CleanupAssumption, Zenon

(* Going on to the next table leaves the end of the list of tables. *)
LEMMA TailOfTablesLeft ==
  ASSUME NEW left \in TablesLeft, left # <<>>
  PROVE  Tail(left) \in TablesLeft
<1>1. PICK i \in 1 .. Len(Resources) + 1 : left = SubSeq(Resources, i, Len(Resources))
  BY DEF TablesLeft
<1>2. Resources \in Seq(Range(Resources)) /\ Len(Resources) \in Nat
  BY TablesAreAList
<1>3. i \in 1 .. Len(Resources)
  <2>1. i # Len(Resources) + 1
    BY <1>1, <1>2, SubSeqEmpty
  <2>2. QED
    BY <1>2, <2>1
<1>4. Tail(left) = SubSeq(Resources, i + 1, Len(Resources))
  BY <1>1, <1>2, <1>3, HeadTailOfSubSeq
<1>5. i + 1 \in 1 .. Len(Resources) + 1
  BY <1>2, <1>3
<1>6. QED
  BY <1>4, <1>5 DEF TablesLeft

LEMMA AllAndNoTablesLeft == Resources \in TablesLeft /\ <<>> \in TablesLeft
<1>1. Resources \in Seq(Range(Resources)) /\ Len(Resources) \in Nat
  BY TablesAreAList
<1>2. Resources = SubSeq(Resources, 1, Len(Resources))
  BY <1>1, SubSeqFull
<1>3. <<>> = SubSeq(Resources, Len(Resources) + 1, Len(Resources))
  BY <1>1, SubSeqEmpty
<1>4. QED
  BY <1>1, <1>2, <1>3 DEF TablesLeft

LEMMA RestingPlaces ==
  /\ Idle \in Places
  /\ runner \in Places => JobDone \in Places
<1>1. 0 \in 0 .. MaxBatches
  BY Bounds
<1>2. QED
  BY <1>1, AllAndNoTablesLeft DEF Idle, JobDone, Places

LEMMA TypeInit == Init => TypeOK
<1>1. 0 \in 0 .. MaxEpoch /\ 1 \in 1 .. MaxEpoch /\ 0 \in 0 .. MaxFaults
  BY Bounds
<1>2. QED
  BY <1>1, RestingPlaces DEF Init, TypeOK, ActiveStatuses

LEMMA WriterTypes ==
  ASSUME TypeOK, WriterStep
  PROVE  TypeOK'
<1> USE DEF TypeOK, ActiveStatuses
<1>1. ASSUME NEW t \in Targets, CreateTarget(t) \/ LinkTarget(t)
      PROVE  TypeOK'
  BY <1>1 DEF CreateTarget, LinkTarget
<1>2. ASSUME NEW s \in Schedules, NEW t \in Targets, SaveSchedule(s, t)
      PROVE  TypeOK'
  BY <1>2 DEF SaveSchedule
<1>3. ASSUME NEW s \in Scans, NEW t \in Targets, CreateScan(s, t)
      PROVE  TypeOK'
  BY <1>3 DEF CreateScan
<1>4. ASSUME NEW s \in Scans, ClaimTask(s) \/ EndTask(s) \/ StopScan(s) \/ FenceSupersededSession(s)
      PROVE  TypeOK'
  BY Bounds, <1>4 DEF ClaimTask, EndTask, StopScan, FenceSupersededSession
<1>5. CASE RecordConnection
  BY Bounds, <1>5 DEF RecordConnection
<1>6. ASSUME NEW s \in Scans, NEW a \in Assets, AdmitBatch(s, a)
      PROVE  TypeOK'
  <2>1. [kind |-> "batch", scan |-> s, epoch |-> session, asset |-> a] \in Requests
    BY DEF Requests
  <2>2. QED
    BY <1>6, <2>1 DEF AdmitBatch
<1>7. ASSUME NEW t \in Targets, NEW a \in Assets, AdmitAssets(t, a)
      PROVE  TypeOK'
  <2>1. [kind |-> "asset request", target |-> t, asset |-> a] \in Requests
    BY DEF Requests
  <2>2. QED
    BY <1>7, <2>1 DEF AdmitAssets
<1>8. ASSUME NEW r \in requests, Materialize(r)
      PROVE  TypeOK'
  <2>1. r \in Requests /\ r.kind = "batch"
    BY <1>8 DEF Materialize
  <2>2. r.scan \in Scans /\ r.asset \in Assets
    BY <2>1 DEF Requests
  <2>3. rows' \in [Targets -> SUBSET Assets] /\ snapshot' \in [Scans -> SUBSET Assets]
    BY <1>8, <2>2 DEF Materialize
  <2>4. QED
    BY <1>8, <2>3 DEF Materialize
<1>9. ASSUME NEW r \in requests, InsertAssets(r)
      PROVE  TypeOK'
  <2>1. r \in Requests /\ r.kind = "asset request"
    BY <1>9 DEF InsertAssets
  <2>2. r.target \in Targets /\ r.asset \in Assets
    BY <2>1 DEF Requests
  <2>3. rows' \in [Targets -> SUBSET Assets]
    BY <1>9, <2>2 DEF InsertAssets
  <2>4. QED
    BY <1>9, <2>3 DEF InsertAssets
<1>10. QED
  BY <1>1, <1>2, <1>3, <1>4, <1>5, <1>6, <1>7, <1>8, <1>9 DEF WriterStep

LEMMA RunnerTypes ==
  ASSUME TypeOK, RunnerStep
  PROVE  TypeOK'
<1>0. runner \in Places
  BY DEF TypeOK
<1>1. Idle \in Places /\ JobDone \in Places
  BY <1>0, RestingPlaces
<1>2. CASE ListDue \/ NextJob
  <2>1. CASE ListDue
    BY <1>1, <2>1 DEF TypeOK, owners, ListDue, Places
  <2>2. CASE NextJob
    <3>1. ASSUME NEW t \in runner.listed
          PROVE  [Idle EXCEPT !.step = "confirm", !.target = t, !.listed = runner.listed \ {t}]
                   \in Places
      BY <1>0, <1>1 DEF Places
    <3>2. runner' \in Places
      BY <1>1, <2>2, <3>1 DEF NextJob
    <3>3. QED
      BY <2>2, <3>2 DEF TypeOK, owners, NextJob
  <2>3. QED
    BY <1>2, <2>1, <2>2
<1>3. CASE ConfirmTombstone \/ AssetsDone
  BY <1>0, <1>3 DEF TypeOK, owners, ConfirmTombstone, AssetsDone, Places
<1>4. CASE DeleteSchedule
  <2>1. runner' \in Places
    BY <1>0, <1>4 DEF Places, TypeOK, DeleteSchedule
  <2>2. QED
    BY <1>4, <2>1 DEF TypeOK, DeleteSchedule
<1>5. CASE DeleteControlPlane
  <2>1. runner' \in Places
    BY <1>0, <1>5 DEF Places, TypeOK, DeleteControlPlane
  <2>2. QED
    BY <1>5, <2>1 DEF TypeOK, DeleteControlPlane
<1>6. CASE CancelNextActiveScan
  <2>1. runner' \in Places
    BY <1>0, <1>6, AllAndNoTablesLeft DEF Places, TypeOK, CancelNextActiveScan
  <2>2. scan' \in [Scans -> [target : Targets \cup {NoTarget},
                             status : ActiveStatuses \cup {"absent", "ended"}, lease : 0 .. MaxEpoch]]
    BY <1>6 DEF TypeOK, CancelNextActiveScan, Cancellable
  <2>3. QED
    BY <1>6, <2>1, <2>2 DEF TypeOK, CancelNextActiveScan
<1>7. CASE DeleteAssetBatch
  <2>1. runner' \in Places
    <3>1. CASE runner' = [runner EXCEPT !.left = Tail(@)]
      <4>1. Tail(runner.left) \in TablesLeft
        BY <1>0, <1>7, TailOfTablesLeft DEF Places, DeleteAssetBatch
      <4>2. QED
        BY <1>0, <3>1, <4>1 DEF Places
    <3>2. CASE runner' = [runner EXCEPT !.batches = @ + 1]
      <4>1. runner.batches \in 0 .. MaxBatches /\ runner.batches < MaxBatches
        BY <1>0, <1>7 DEF Places, DeleteAssetBatch, WithinBudget
      <4>2. runner.batches + 1 \in 0 .. MaxBatches
        BY <4>1, Bounds
      <4>3. QED
        BY <1>0, <3>2, <4>2 DEF Places
    <3>3. QED
      BY <1>7, <3>1, <3>2 DEF DeleteAssetBatch
  <2>2. rows' \in [Targets -> SUBSET Assets]
    BY <1>7 DEF TypeOK, DeleteAssetBatch
  <2>3. QED
    BY <1>7, <2>1, <2>2 DEF TypeOK, DeleteAssetBatch
<1>8. CASE ExhaustBudget
  BY <1>1, <1>8 DEF TypeOK, owners, Defer, ExhaustBudget
<1>9. CASE MarkCompletedIfClear
  BY <1>1, <1>9 DEF TypeOK, owners, Defer, MarkCompletedIfClear
<1>10. QED
  BY <1>2, <1>3, <1>4, <1>5, <1>6, <1>7, <1>8, <1>9 DEF RunnerStep

LEMMA TypeStep ==
  ASSUME TypeOK, [Next]_vars
  PROVE  TypeOK'
<1>1. ASSUME NEW ts \in SUBSET Targets \ {{}}, DeleteTargets(ts)
      PROVE  TypeOK'
  BY <1>1 DEF TypeOK, owners, DeleteTargets
<1>2. ASSUME NEW t \in Targets, RetryFallsDue(t)
      PROVE  TypeOK'
  BY <1>2 DEF TypeOK, owners, RetryFallsDue
<1>3. CASE RunFails \/ Restart
  <2>1. Idle \in Places /\ JobDone \in Places
    BY RestingPlaces DEF TypeOK
  <2>2. faults < MaxFaults => faults + 1 \in 0 .. MaxFaults
    BY Bounds DEF TypeOK
  <2>3. CASE RunFails
    BY <2>1, <2>2, <2>3 DEF TypeOK, owners, Defer, RunFails
  <2>4. CASE Restart
    BY <2>1, <2>2, <2>4 DEF TypeOK, Restart
  <2>5. QED
    BY <1>3, <2>3, <2>4
<1>4. CASE UNCHANGED vars
  BY <1>4 DEF vars, TypeOK
<1>5. QED
  BY <1>1, <1>2, <1>3, <1>4, WriterTypes, RunnerTypes DEF Next

(* The tables, the requests and the runner keep their types. *)
THEOREM CleanupTypeCorrectness == Spec => []TypeOK
  BY TypeInit, TypeStep, PTL DEF Spec
-----------------------------------------------------------------------------
(* The inductive invariant *)

(* Nothing the cleanup waits for belongs to t; asset rows may have landed. *)
Bare(t) ==
    /\ \A s \in Schedules : schedule[s] # t
    /\ ~linked[t] /\ ~policy[t]
    /\ \A s \in Scans : scan[s].target = t => scan[s].status \notin ActiveStatuses

ActiveScansHaveTargets ==
    \A s \in Scans : scan[s].status \in ActiveStatuses => scan[s].target \in Targets

JobsFollowTombstones == \A t \in Targets : job[t] # "none" => target[t] = "deleted"

(* Before its creation and after its cleanup a target is bare, and stays so
   because every writer wants it live. *)
BareOutsideLife ==
    \A t \in Targets : target[t] = "absent" \/ job[t] = "completed" => Bare(t)

(* The runner reconciles each job of its list once, so the job it works on is
   not complete. *)
RunnerWorksOnPendingJobs ==
    /\ \A t \in runner.listed : job[t] = "pending"
    /\ Reconciling =>
           /\ runner.target \in Targets \ runner.listed
           /\ job[runner.target] = "pending"

Links ==
    /\ ActiveScansHaveTargets
    /\ JobsFollowTombstones
    /\ BareOutsideLife
    /\ RunnerWorksOnPendingJobs

CleanupIInv == TypeOK /\ Links

LEMMA CleanupInit == Init => CleanupIInv
<1>1. Init => Reconciling = FALSE /\ runner.listed = {}
  BY DEF Init, Reconciling, Idle
<1>2. QED
  BY <1>1, TypeInit, NoTargetIsNone
     DEF Init, CleanupIInv, Links, ActiveScansHaveTargets, JobsFollowTombstones, BareOutsideLife, Bare,
         RunnerWorksOnPendingJobs, ActiveStatuses

(* Writers start nothing for a target that is not live, and touch neither
   jobs nor the runner. *)
LEMMA WritersKeepBareness ==
  ASSUME TypeOK, Links, WriterStep
  PROVE  ActiveScansHaveTargets' /\ BareOutsideLife'
<1> USE DEF Links, ActiveScansHaveTargets, BareOutsideLife, Bare, ActiveStatuses, TypeOK, LockActive
<1>1. ASSUME NEW t \in Targets, CreateTarget(t)
      PROVE  ActiveScansHaveTargets' /\ BareOutsideLife'
  BY <1>1 DEF CreateTarget, JobsFollowTombstones
<1>2. ASSUME NEW t \in Targets, LinkTarget(t)
      PROVE  ActiveScansHaveTargets' /\ BareOutsideLife'
  BY <1>2 DEF LinkTarget, JobsFollowTombstones
<1>3. ASSUME NEW s \in Schedules, NEW t \in Targets, SaveSchedule(s, t)
      PROVE  ActiveScansHaveTargets' /\ BareOutsideLife'
  BY <1>3 DEF SaveSchedule, JobsFollowTombstones
<1>4. ASSUME NEW s \in Scans, NEW t \in Targets, CreateScan(s, t)
      PROVE  ActiveScansHaveTargets' /\ BareOutsideLife'
  BY <1>4 DEF CreateScan, JobsFollowTombstones
<1>5. ASSUME NEW s \in Scans, ClaimTask(s)
      PROVE  ActiveScansHaveTargets' /\ BareOutsideLife'
  BY <1>5 DEF ClaimTask
<1>6. ASSUME NEW s \in Scans, EndTask(s) \/ StopScan(s) \/ FenceSupersededSession(s)
      PROVE  ActiveScansHaveTargets' /\ BareOutsideLife'
  BY <1>6 DEF EndTask, StopScan, FenceSupersededSession
<1>7. ASSUME UNCHANGED <<target, job, schedule, linked, policy, scan>>
      PROVE  ActiveScansHaveTargets' /\ BareOutsideLife'
  BY <1>7
<1> HIDE DEF Links, ActiveScansHaveTargets, BareOutsideLife, Bare, ActiveStatuses, TypeOK
<1>8. ASSUME \/ RecordConnection
             \/ \E s \in Scans, a \in Assets : AdmitBatch(s, a)
             \/ \E t \in Targets, a \in Assets : AdmitAssets(t, a)
             \/ \E r \in requests : Materialize(r) \/ InsertAssets(r)
      PROVE  ActiveScansHaveTargets' /\ BareOutsideLife'
  <2>1. UNCHANGED <<target, job, schedule, linked, policy, scan>>
    BY <1>8 DEF RecordConnection, AdmitBatch, AdmitAssets, Materialize, InsertAssets
  <2>2. QED
    BY <2>1, <1>7
<1>9. QED
  BY <1>1, <1>2, <1>3, <1>4, <1>5, <1>6, <1>8 DEF WriterStep

LEMMA WritersKeepLinks ==
  ASSUME TypeOK, Links, WriterStep
  PROVE  Links'
<1>1. UNCHANGED <<job, runner>>
  BY DEF WriterStep, CreateTarget, LinkTarget, SaveSchedule, CreateScan, ClaimTask, EndTask, StopScan,
         FenceSupersededSession, RecordConnection, AdmitBatch, AdmitAssets, Materialize, InsertAssets
<1>2. \A t \in Targets : target[t] = "deleted" => target'[t] = "deleted"
  <2>1. CASE UNCHANGED target
    BY <2>1
  <2>2. CASE \E t \in Targets : CreateTarget(t)
    BY <2>2 DEF CreateTarget, TypeOK
  <2>3. UNCHANGED target \/ \E t \in Targets : CreateTarget(t)
    BY DEF WriterStep, LinkTarget, SaveSchedule, CreateScan, ClaimTask, EndTask, StopScan,
           FenceSupersededSession, RecordConnection, AdmitBatch, AdmitAssets, Materialize, InsertAssets
  <2>4. QED
    BY <2>1, <2>2, <2>3
<1>3. JobsFollowTombstones'
  BY <1>1, <1>2 DEF Links, JobsFollowTombstones
<1>4. RunnerWorksOnPendingJobs'
  BY <1>1 DEF Links, RunnerWorksOnPendingJobs, Reconciling
<1>5. QED
  BY <1>3, <1>4, WritersKeepBareness DEF Links

(* The runner removes, and completes one job: the one it works on, and only
   over a target nothing belongs to. *)
LEMMA RunnerKeepsBareness ==
  ASSUME TypeOK, Links, RunnerStep
  PROVE  ActiveScansHaveTargets' /\ JobsFollowTombstones' /\ BareOutsideLife'
<1> DEFINE Goal == ActiveScansHaveTargets' /\ JobsFollowTombstones' /\ BareOutsideLife'
<1>1. CASE DeleteSchedule
  <2>1. \A t \in Targets, s \in Schedules : schedule'[s] = t => schedule[s] = t
    BY <1>1, NoTargetIsNone DEF DeleteSchedule, TypeOK
  <2>2. UNCHANGED <<target, job, linked, policy, scan>>
    BY <1>1 DEF DeleteSchedule
  <2>3. QED
    BY <2>1, <2>2 DEF Goal, Links, ActiveScansHaveTargets, JobsFollowTombstones, BareOutsideLife, Bare
<1>2. CASE DeleteControlPlane
  <2>1. \A t \in Targets : (linked'[t] => linked[t]) /\ (policy'[t] => policy[t])
    BY <1>2 DEF DeleteControlPlane, TypeOK
  <2>2. UNCHANGED <<target, job, schedule, scan>>
    BY <1>2 DEF DeleteControlPlane
  <2>3. QED
    BY <2>1, <2>2 DEF Goal, Links, ActiveScansHaveTargets, JobsFollowTombstones, BareOutsideLife, Bare
<1>3. CASE CancelNextActiveScan
  <2>1. \A s \in Scans : scan'[s].status \in ActiveStatuses =>
            scan[s].status \in ActiveStatuses /\ scan'[s].target = scan[s].target
    BY <1>3 DEF CancelNextActiveScan, Cancellable, TypeOK, ActiveStatuses
  <2>2. UNCHANGED <<target, job, schedule, linked, policy>>
    BY <1>3 DEF CancelNextActiveScan
  <2>3. QED
    BY <2>1, <2>2 DEF Goal, Links, ActiveScansHaveTargets, JobsFollowTombstones, BareOutsideLife, Bare
<1>4. CASE MarkCompletedIfClear
  <2>1. UNCHANGED <<target, schedule, linked, policy, scan>>
    BY <1>4 DEF MarkCompletedIfClear, owners
  <2>2. \A t \in Targets :
          \/ job'[t] = job[t]
          \/ t = runner.target /\ job'[t] = "completed" /\ IsClear(t)
    BY <1>4 DEF MarkCompletedIfClear, TypeOK
  <2>3. Reconciling
    BY <1>4 DEF MarkCompletedIfClear, Reconciling
  <2>4. JobsFollowTombstones'
    BY <2>1, <2>2, <2>3 DEF Links, JobsFollowTombstones, RunnerWorksOnPendingJobs
  <2>5. \A t \in Targets : IsClear(t) => Bare(t)
    BY DEF IsClear, Bare, ActiveScans
  <2>6. BareOutsideLife'
    BY <2>1, <2>2, <2>5 DEF Links, BareOutsideLife, Bare
  <2>7. QED
    BY <2>1, <2>4, <2>6 DEF Goal, Links, ActiveScansHaveTargets
<1>5. CASE ListDue \/ NextJob \/ ConfirmTombstone \/ DeleteAssetBatch \/ ExhaustBudget \/ AssetsDone
  <2>1. UNCHANGED <<target, job, schedule, linked, policy, scan>>
    BY <1>5 DEF ListDue, NextJob, ConfirmTombstone, DeleteAssetBatch, ExhaustBudget, AssetsDone, owners
  <2>2. QED
    BY <2>1 DEF Goal, Links, ActiveScansHaveTargets, JobsFollowTombstones, BareOutsideLife, Bare
<1>6. QED
  BY <1>1, <1>2, <1>3, <1>4, <1>5 DEF RunnerStep, Goal

(* What the runner knows between two jobs, and between two passes. *)
LEMMA RestingFields ==
  /\ Idle.step = "idle" /\ Idle.listed = {}
  /\ JobDone.step = "next" /\ JobDone.listed = runner.listed
  BY SMT DEF Idle, JobDone

LEMMA RunnerKeepsLinks ==
  ASSUME TypeOK, Links, RunnerStep
  PROVE  Links'
<1> USE DEF RunnerWorksOnPendingJobs, Reconciling
<1>0. runner \in Places /\ RunnerWorksOnPendingJobs
  BY DEF TypeOK, Links
<1>1. ASSUME ListDue
      PROVE  RunnerWorksOnPendingJobs'
  BY <1>0, <1>1 DEF ListDue, Idle
<1>2. ASSUME NextJob
      PROVE  RunnerWorksOnPendingJobs'
  <2>1. CASE runner' = Idle
    BY <1>2, <2>1, RestingFields DEF NextJob
  <2>2. ASSUME NEW t \in runner.listed,
               runner' = [Idle EXCEPT !.step = "confirm", !.target = t, !.listed = runner.listed \ {t}]
        PROVE  RunnerWorksOnPendingJobs'
    <3>1. /\ runner'.step = "confirm" /\ runner'.target = t /\ runner'.listed = runner.listed \ {t}
          /\ job' = job
      BY <1>2, <2>2 DEF Idle, NextJob
    <3>2. QED
      BY <1>0, <3>1 DEF Places
  <2>3. QED
    BY <1>2, <2>1, <2>2 DEF NextJob
<1>3. ASSUME ConfirmTombstone \/ AssetsDone \/ DeleteControlPlane
      PROVE  RunnerWorksOnPendingJobs'
  <2>1. runner'.target = runner.target /\ runner'.listed = runner.listed /\ job' = job /\ Reconciling
    BY <1>0, <1>3 DEF ConfirmTombstone, AssetsDone, DeleteControlPlane, Places
  <2>2. QED
    BY <1>0, <2>1
<1>4. ASSUME DeleteSchedule \/ CancelNextActiveScan \/ DeleteAssetBatch
      PROVE  RunnerWorksOnPendingJobs'
  <2>1. runner'.target = runner.target /\ runner'.listed = runner.listed /\ job' = job /\ Reconciling
    BY <1>0, <1>4 DEF DeleteSchedule, CancelNextActiveScan, DeleteAssetBatch, Places
  <2>2. QED
    BY <1>0, <2>1
<1>5. ASSUME ExhaustBudget
      PROVE  RunnerWorksOnPendingJobs'
  BY <1>0, <1>5 DEF ExhaustBudget, JobDone, Idle, Places
<1>6. ASSUME MarkCompletedIfClear
      PROVE  RunnerWorksOnPendingJobs'
  <2>1. runner' = JobDone /\ runner.target \notin runner.listed
    BY <1>0, <1>6 DEF MarkCompletedIfClear
  <2>2. \A t \in runner.listed : job'[t] = job[t]
    BY <1>0, <1>6, <2>1 DEF MarkCompletedIfClear, TypeOK, Places
  <2>3. runner'.step = "next" /\ runner'.listed = runner.listed
    BY <2>1, RestingFields
  <2>4. \A t \in runner'.listed : job'[t] = "pending"
    BY <1>0, <2>2, <2>3
  <2>5. QED
    BY <2>3, <2>4
<1>7. RunnerWorksOnPendingJobs'
  BY <1>1, <1>2, <1>3, <1>4, <1>5, <1>6 DEF RunnerStep
<1>8. QED
  BY <1>7, RunnerKeepsBareness DEF Links

LEMMA CleanupStep ==
  ASSUME CleanupIInv, [Next]_vars
  PROVE  CleanupIInv'
<1>0. TypeOK /\ Links /\ TypeOK'
  BY TypeStep DEF CleanupIInv
<1>1. ASSUME NEW ts \in SUBSET Targets, DeleteTargets(ts)
      PROVE  Links'
  <2>1. UNCHANGED <<schedule, linked, policy, scan, runner>>
    BY <1>1 DEF DeleteTargets, owners
  <2>2. \A t \in Targets :
          /\ job'[t] # "none" => job[t] # "none" \/ target'[t] = "deleted"
          /\ target[t] = "deleted" => target'[t] = "deleted"
          /\ target'[t] = "absent" => target[t] = "absent"
          /\ job'[t] = "completed" => job[t] = "completed"
          /\ job[t] = "pending" => job'[t] = "pending"
    BY <1>1 DEF DeleteTargets
  <2>3. ActiveScansHaveTargets' /\ JobsFollowTombstones'
    BY <1>0, <2>1, <2>2 DEF Links, ActiveScansHaveTargets, JobsFollowTombstones
  <2>4. BareOutsideLife'
    BY <1>0, <2>1, <2>2 DEF Links, BareOutsideLife, Bare
  <2>5. RunnerWorksOnPendingJobs'
    BY <1>0, <2>1, <2>2 DEF Links, RunnerWorksOnPendingJobs, Reconciling, TypeOK, Places
  <2>6. QED
    BY <2>3, <2>4, <2>5 DEF Links
<1>2. ASSUME RunFails \/ Restart
      PROVE  Links'
  <2>1. UNCHANGED <<target, job, schedule, linked, policy, scan>>
    BY <1>2 DEF RunFails, Restart, owners
  <2>2. runner' = Idle \/ runner' = JobDone
    BY <1>2 DEF RunFails, Restart
  <2>3. runner'.step \in {"idle", "next"} /\ runner'.listed \subseteq runner.listed
    BY <2>2, RestingFields
  <2>4. RunnerWorksOnPendingJobs'
    BY <1>0, <2>1, <2>3 DEF Links, RunnerWorksOnPendingJobs, Reconciling
  <2>5. QED
    BY <1>0, <2>1, <2>4
       DEF Links, ActiveScansHaveTargets, JobsFollowTombstones, BareOutsideLife, Bare
<1>3. ASSUME UNCHANGED vars \/ \E t \in Targets : RetryFallsDue(t)
      PROVE  Links'
  <2>1. UNCHANGED <<target, job, schedule, linked, policy, scan, runner>>
    BY <1>3 DEF RetryFallsDue, vars, owners
  <2>2. QED
    BY <1>0, <2>1
       DEF Links, ActiveScansHaveTargets, JobsFollowTombstones, BareOutsideLife, Bare,
           RunnerWorksOnPendingJobs, Reconciling
<1>4. Links'
  BY <1>0, <1>1, <1>2, <1>3, WritersKeepLinks, RunnerKeepsLinks DEF Next
<1>5. QED
  BY <1>0, <1>4 DEF CleanupIInv

LEMMA CleanupInvariance == Spec => []CleanupIInv
  BY CleanupInit, CleanupStep, PTL DEF Spec

-----------------------------------------------------------------------------
(* What a scan reports. *)

LEMMA LeaseStep ==
  ASSUME TypeOK, [Next]_vars, NEW s \in Scans, snapshot'[s] # snapshot[s]
  PROVE  scan[s].status = "running" /\ scan[s].lease = session
<1>1. CASE \E r \in requests : Materialize(r)
  <2>1. PICK r \in requests : Materialize(r)
    BY <1>1
  <2>2. LockActiveExecution(r) /\ snapshot' = [snapshot EXCEPT ![r.scan] = @ \cup {r.asset}]
    BY <2>1 DEF Materialize
  <2>3. r.scan = s
    BY <2>2 DEF TypeOK
  <2>4. QED
    BY <2>2, <2>3 DEF LockActiveExecution
<1>2. CASE UNCHANGED snapshot
  BY <1>2
<1>3. UNCHANGED snapshot \/ \E r \in requests : Materialize(r)
  BY DEF Next, vars, owners, WriterStep, CreateTarget, LinkTarget, SaveSchedule, CreateScan, ClaimTask,
         EndTask, StopScan, FenceSupersededSession, RecordConnection, AdmitBatch, AdmitAssets,
         InsertAssets, DeleteTargets, RetryFallsDue, RunFails, Restart, RunnerStep, ListDue, NextJob,
         ConfirmTombstone, DeleteSchedule, DeleteControlPlane, CancelNextActiveScan,
         DeleteAssetBatch, ExhaustBudget, AssetsDone, MarkCompletedIfClear
<1>4. QED
  BY <1>1, <1>2, <1>3

(* A snapshot row is written only for a running scan, under the lease of the
   agent's present session. *)
THEOREM LeasedResults == Spec => ResultsBelongToTheLease
<1>1. TypeOK /\ [Next]_vars =>
        [\A s \in Scans : snapshot'[s] # snapshot[s] =>
           /\ scan[s].status = "running"
           /\ scan[s].lease = session]_vars
  BY LeaseStep
<1>2. QED
  BY <1>1, CleanupTypeCorrectness, PTL DEF Spec, ResultsBelongToTheLease
-----------------------------------------------------------------------------
(* The refinement of the lifecycle, action by action. *)

Phase(t) == IF job[t] = "completed" THEN "clear" ELSE target[t]

(* With the invariant, a target's phase says what its rows say. *)
LEMMA PhaseOfTargets ==
  ASSUME TypeOK, Links, NEW t \in Targets
  PROVE  /\ target[t] = "live" => Phase(t) = "live"
         /\ job[t] = "pending" => Phase(t) = "deleted"
         /\ ActiveScans(t) # {} => Phase(t) \in {"live", "deleted"}
  BY DEF TypeOK, Links, JobsFollowTombstones, BareOutsideLife, Bare, ActiveScans, Phase

(* What belongs to a target does not grow when none of its parts does. *)
LEMMA OwnedShrinks ==
  ASSUME NEW t \in Targets,
         \A s \in Schedules : schedule'[s] = t => schedule[s] = t,
         ActiveScans(t)' \subseteq ActiveScans(t),
         rows'[t] \subseteq rows[t],
         linked'[t] => linked[t],
         policy'[t] => policy[t]
  PROVE  Owned(t)' \subseteq Owned(t)
  BY DEF Owned

LEMMA OwnedStays ==
  ASSUME NEW t \in Targets,
         \A s \in Schedules : schedule'[s] = t <=> schedule[s] = t,
         ActiveScans(t)' = ActiveScans(t),
         rows'[t] = rows[t],
         linked'[t] = linked[t],
         policy'[t] = policy[t]
  PROVE  Owned(t)' = Owned(t)
  BY DEF Owned

Things ==
    ({"schedule"} \X Schedules) \cup ({"scan"} \X Scans)
        \cup ({"asset"} \X Assets) \cup ({"link", "policy"} \X Targets)

LEMMA OwnedThings == TypeOK => \A t \in Targets : Owned(t) \subseteq Things
<1>1. ASSUME TypeOK, NEW t \in Targets
      PROVE  Owned(t) \subseteq Things
  <2>1. rows[t] \subseteq Assets /\ ActiveScans(t) \subseteq Scans
    BY <1>1 DEF TypeOK, ActiveScans
  <2>2. QED
    BY <2>1 DEF Owned, Things
<1>2. QED
  BY <1>1

LEMMA OwnedThingsNext == TypeOK' => \A t \in Targets : Owned(t)' \subseteq Things
<1>1. TypeOK' => (\A t \in Targets : Owned(t) \subseteq Things)'
  BY OwnedThings, PTL
<1>2. QED
  BY <1>1 DEF Things

(* Steps of the lifecycle, target by target. *)
LEMMA StutterStep ==
  ASSUME \A u \in Targets : Phase(u)' = Phase(u) /\ Owned(u)' = Owned(u) /\ Late(u)' = Late(u)
  PROVE  UNCHANGED Lifecycle!lifecycle
  BY DEF Lifecycle!lifecycle, Phase

LEMMA ChangeStep ==
  ASSUME TypeOK',
         \A u \in Targets : Phase(u)' = Phase(u) /\ Late(u)' = Late(u),
         \A u \in Targets : Owned(u)' # Owned(u) => Phase(u) = "live"
  PROVE  Lifecycle!Change
  BY OwnedThingsNext DEF Lifecycle!Change, Phase, Things

LEMMA ShrinkStep ==
  ASSUME NEW t \in Targets, Phase(t) = "deleted",
         \A u \in Targets : Phase(u)' = Phase(u) /\ Late(u)' = Late(u),
         \A u \in Targets \ {t} : Owned(u)' = Owned(u),
         Owned(t)' \subseteq Owned(t)
  PROVE  Lifecycle!Shrink(t)
  BY DEF Lifecycle!Shrink, Phase

LEMMA AppearStep ==
  ASSUME TypeOK', NEW t \in Targets, Phase(t) = "absent", Phase(t)' = "live",
         \A u \in Targets \ {t} : Phase(u)' = Phase(u) /\ Owned(u)' = Owned(u),
         \A u \in Targets : Late(u)' = Late(u)
  PROVE  Lifecycle!Appear(t)
<1>1. Owned(t)' \in SUBSET Things
  BY OwnedThingsNext
<1>2. QED
  BY <1>1 DEF Lifecycle!Appear, Phase, Things

LEMMA AdmitStep ==
  ASSUME NEW t \in Targets, NEW a \in Assets, Phase(t) = "live",
         \A u \in Targets : Phase(u)' = Phase(u) /\ Owned(u)' = Owned(u),
         \A u \in Targets \ {t} : Late(u)' = Late(u),
         Late(t)' = Late(t) \cup {<<"asset", a>>}
  PROVE  Lifecycle!Admit(t)
<1>1. <<"asset", a>> \in Things
  BY DEF Things
<1>2. QED
  BY <1>1 DEF Lifecycle!Admit, Phase, Things

LEMMA LandStep ==
  ASSUME NEW t \in Targets, NEW x \in Late(t),
         \A u \in Targets : Phase(u)' = Phase(u),
         \A u \in Targets \ {t} : Late(u)' = Late(u) /\ Owned(u)' = Owned(u),
         Owned(t)' = Owned(t) \cup {x},
         Late(t)' = Late(t) \ {x}
  PROVE  Lifecycle!Land(t)
  BY DEF Lifecycle!Land, Phase

LEMMA LoseStep ==
  ASSUME \A u \in Targets : Phase(u)' = Phase(u) /\ Owned(u)' = Owned(u) /\ Late(u)' = {}
  PROVE  Lifecycle!Lose
  BY DEF Lifecycle!Lose, Phase

LEMMA DisappearStep ==
  ASSUME NEW ts \in SUBSET Targets, \A u \in ts : Phase(u) = "live" /\ Phase(u)' = "deleted",
         \A u \in Targets \ ts : Phase(u)' = Phase(u),
         \A u \in Targets : Owned(u)' = Owned(u) /\ Late(u)' = Late(u)
  PROVE  Lifecycle!Disappear(ts)
  BY DEF Lifecycle!Disappear, Phase

LEMMA ClearStep ==
  ASSUME NEW t \in Targets, Phase(t) = "deleted", Phase(t)' = "clear", Owned(t) = {},
         \A u \in Targets \ {t} : Phase(u)' = Phase(u),
         \A u \in Targets : Owned(u)' = Owned(u) /\ Late(u)' = Late(u)
  PROVE  Lifecycle!Clear(t)
  BY DEF Lifecycle!Clear, Phase

(* What is on its way depends on the requests alone, and on their asset
   requests only. *)
LEMMA LateStays ==
  ASSUME \A r : r.kind = "asset request" => (r \in requests' <=> r \in requests)
  PROVE  \A u \in Targets : Late(u)' = Late(u)
  BY DEF Late

(* A target has one request under way for an asset. *)
LEMMA SameRecord ==
  ASSUME NEW K, NEW T, NEW A,
         NEW q \in [kind : K, target : T, asset : A], NEW r \in [kind : K, target : T, asset : A],
         q.kind = r.kind, q.target = r.target, q.asset = r.asset
  PROVE  q = r
  OBVIOUS

LEMMA SameAssetRequest ==
  ASSUME NEW q \in [kind : {"asset request"}, target : Targets, asset : Assets],
         NEW r \in [kind : {"asset request"}, target : Targets, asset : Assets],
         q.target = r.target, q.asset = r.asset
  PROVE  q = r
<1>1. q.kind = "asset request" /\ r.kind = "asset request"
  OBVIOUS
<1>2. QED
  BY <1>1, SameRecord

(* Steps of the writers that lock the target. *)
LEMMA LockingWritersRefine ==
  ASSUME TypeOK, TypeOK', Links,
         \/ \E t \in Targets : CreateTarget(t) \/ LinkTarget(t)
         \/ \E s \in Schedules, t \in Targets : SaveSchedule(s, t)
         \/ \E s \in Scans, t \in Targets : CreateScan(s, t)
  PROVE  [Lifecycle!LifecycleNext]_(Lifecycle!lifecycle)
<1>1. ASSUME NEW t \in Targets, CreateTarget(t)
      PROVE  Lifecycle!Appear(t)
  <2>1. target[t] = "absent" /\ target' = [target EXCEPT ![t] = "live"]
    BY <1>1 DEF CreateTarget
  <2>2. UNCHANGED <<job, linked, schedule, scan, rows, requests>>
    BY <1>1 DEF CreateTarget
  <2>3. \A u \in Targets \ {t} : policy'[u] = policy[u]
    BY <1>1 DEF CreateTarget, TypeOK
  <2>4. job[t] # "completed"
    BY <2>1 DEF TypeOK, Links, JobsFollowTombstones
  <2>5. Phase(t) = "absent" /\ Phase(t)' = "live"
    BY <2>1, <2>2, <2>4 DEF Phase, TypeOK
  <2>6. \A u \in Targets \ {t} : Phase(u)' = Phase(u)
    BY <2>1, <2>2 DEF Phase, TypeOK
  <2>7. \A u \in Targets \ {t} : Owned(u)' = Owned(u)
    BY <2>2, <2>3, OwnedStays DEF ActiveScans
  <2>8. \A u \in Targets : Late(u)' = Late(u)
    BY <2>2, LateStays
  <2>9. QED
    BY <2>5, <2>6, <2>7, <2>8, AppearStep
<1>2. ASSUME NEW t \in Targets, LinkTarget(t)
      PROVE  Lifecycle!Change
  <2>1. target[t] = "live" /\ UNCHANGED <<target, job, policy, schedule, scan, rows, requests>>
    BY <1>2 DEF LinkTarget, LockActive
  <2>2. \A u \in Targets \ {t} : linked'[u] = linked[u]
    BY <1>2 DEF LinkTarget, TypeOK
  <2>3. \A u \in Targets \ {t} : Owned(u)' = Owned(u)
    BY <2>1, <2>2, OwnedStays DEF ActiveScans
  <2>4. \A u \in Targets : Phase(u)' = Phase(u) /\ Late(u)' = Late(u)
    BY <2>1, LateStays DEF Phase
  <2>5. QED
    BY <2>1, <2>3, <2>4, PhaseOfTargets, ChangeStep
<1>3. ASSUME NEW s \in Schedules, NEW t \in Targets, SaveSchedule(s, t)
      PROVE  Lifecycle!Change
  <2>1. target[t] = "live" /\ UNCHANGED <<target, job, linked, policy, scan, rows, requests>>
    BY <1>3 DEF SaveSchedule, LockActive
  <2>2. \A u \in Targets : target[u] # "live" =>
            \A x \in Schedules : schedule'[x] = u <=> schedule[x] = u
    <3>1. \A x \in Schedules : schedule'[x] = IF x = s THEN t ELSE schedule[x]
      BY <1>3 DEF SaveSchedule, TypeOK
    <3>2. schedule[s] # NoTarget => target[schedule[s]] = "live"
      BY <1>3 DEF SaveSchedule, LockActive
    <3>3. QED
      BY <2>1, <3>1, <3>2, NoTargetIsNone
  <2>3. \A u \in Targets : target[u] # "live" => Owned(u)' = Owned(u)
    BY <2>1, <2>2, OwnedStays DEF ActiveScans
  <2>4. \A u \in Targets : Phase(u)' = Phase(u) /\ Late(u)' = Late(u)
    BY <2>1, LateStays DEF Phase
  <2>5. QED
    BY <2>3, <2>4, PhaseOfTargets, ChangeStep
<1>4. ASSUME NEW s \in Scans, NEW t \in Targets, CreateScan(s, t)
      PROVE  Lifecycle!Change
  <2>1. target[t] = "live" /\ UNCHANGED <<target, job, linked, policy, schedule, rows, requests>>
    BY <1>4 DEF CreateScan, LockActive
  <2>2. \A u \in Targets \ {t} : ActiveScans(u)' = ActiveScans(u)
    <3>1. \A x \in Scans \ {s} : scan'[x] = scan[x]
      BY <1>4 DEF CreateScan, TypeOK
    <3>2. scan'[s].target = t /\ scan[s].status \notin ActiveStatuses
      <4>1. scan'[s] = [scan[s] EXCEPT !.target = t, !.status = "pending"]
        BY <1>4 DEF CreateScan, TypeOK
      <4>2. scan[s].status = "absent"
        BY <1>4 DEF CreateScan
      <4>3. scan[s] \in [target : Targets \cup {NoTarget},
                        status : ActiveStatuses \cup {"absent", "ended"}, lease : 0 .. MaxEpoch]
        BY DEF TypeOK
      <4>4. scan'[s].target = t
        BY <4>1, <4>3
      <4>5. QED
        BY <4>2, <4>4 DEF ActiveStatuses
    <3>3. QED
      BY <3>1, <3>2 DEF ActiveScans, ActiveStatuses
  <2>3. \A u \in Targets \ {t} : Owned(u)' = Owned(u)
    BY <2>1, <2>2, OwnedStays
  <2>4. \A u \in Targets : Phase(u)' = Phase(u) /\ Late(u)' = Late(u)
    BY <2>1, LateStays DEF Phase
  <2>5. QED
    BY <2>1, <2>3, <2>4, PhaseOfTargets, ChangeStep
<1>5. QED
  BY <1>1, <1>2, <1>3, <1>4 DEF Lifecycle!LifecycleNext

(* The end of an active scan, whoever ends it: its target loses it. *)
LEMMA EndingRefines ==
  ASSUME TypeOK, TypeOK', Links, NEW s \in Scans, scan[s].status \in ActiveStatuses,
         scan' = [scan EXCEPT ![s].status = "ended"],
         UNCHANGED <<target, job, linked, policy, schedule, rows, requests>>
  PROVE  [Lifecycle!LifecycleNext]_(Lifecycle!lifecycle)
<1>1. PICK t \in Targets : t = scan[s].target /\ s \in ActiveScans(t)
  BY DEF Links, ActiveScansHaveTargets, ActiveScans
<1>2. Phase(t) \in {"live", "deleted"}
  <2>1. ActiveScans(t) # {}
    BY <1>1
  <2>2. QED
    BY <1>1, <2>1, PhaseOfTargets
<1>3. \A x \in Scans :
        /\ scan'[x].target = scan[x].target
        /\ x # s => scan'[x].status = scan[x].status
        /\ scan'[x].status \in ActiveStatuses => scan[x].status \in ActiveStatuses
  BY DEF ActiveStatuses, TypeOK
<1>4. \A u \in Targets \ {t} : Owned(u)' = Owned(u)
  <2>1. \A u \in Targets \ {t} : ActiveScans(u)' = ActiveScans(u)
    BY <1>1, <1>3 DEF ActiveScans, ActiveStatuses
  <2>2. QED
    BY <2>1, OwnedStays
<1>5. Owned(t)' \subseteq Owned(t)
  <2>1. ActiveScans(t)' \subseteq ActiveScans(t)
    BY <1>3 DEF ActiveScans, ActiveStatuses
  <2>2. QED
    BY <1>1, <2>1, OwnedShrinks
<1>6. \A u \in Targets : Phase(u)' = Phase(u) /\ Late(u)' = Late(u)
  BY LateStays DEF Phase
<1>7. CASE Phase(t) = "live"
  <2>1. Lifecycle!Change
    BY <1>4, <1>6, <1>7, ChangeStep
  <2>2. QED
    BY <2>1 DEF Lifecycle!LifecycleNext
<1>8. CASE Phase(t) = "deleted"
  <2>1. Lifecycle!Shrink(t)
    BY <1>4, <1>5, <1>6, <1>8, ShrinkStep
  <2>2. QED
    BY <2>1 DEF Lifecycle!LifecycleNext
<1>9. QED
  BY <1>2, <1>7, <1>8

(* Steps of the agent, of its results and of the requests. *)
LEMMA AgentsRefine ==
  ASSUME TypeOK, TypeOK', Links,
         \/ \E s \in Scans : ClaimTask(s) \/ EndTask(s) \/ StopScan(s) \/ FenceSupersededSession(s)
         \/ RecordConnection
         \/ \E s \in Scans, a \in Assets : AdmitBatch(s, a)
         \/ \E t \in Targets, a \in Assets : AdmitAssets(t, a)
         \/ \E r \in requests : Materialize(r) \/ InsertAssets(r)
  PROVE  [Lifecycle!LifecycleNext]_(Lifecycle!lifecycle)
<1>1. ASSUME NEW s \in Scans, ClaimTask(s)
      PROVE  UNCHANGED Lifecycle!lifecycle
  <2>1. UNCHANGED <<target, job, linked, policy, schedule, rows, requests>>
    BY <1>1 DEF ClaimTask
  <2>2. \A x \in Scans :
          /\ scan'[x].target = scan[x].target
          /\ scan'[x].status \in ActiveStatuses <=> scan[x].status \in ActiveStatuses
    BY <1>1 DEF ClaimTask, ActiveStatuses, TypeOK
  <2>3. \A u \in Targets : ActiveScans(u)' = ActiveScans(u)
    BY <2>2 DEF ActiveScans, ActiveStatuses
  <2>4. \A u \in Targets : Owned(u)' = Owned(u)
    BY <2>1, <2>3, OwnedStays
  <2>5. \A u \in Targets : Phase(u)' = Phase(u) /\ Late(u)' = Late(u)
    BY <2>1, LateStays DEF Phase
  <2>6. QED
    BY <2>4, <2>5, StutterStep
<1>2. ASSUME NEW s \in Scans, EndTask(s) \/ StopScan(s) \/ FenceSupersededSession(s)
      PROVE  [Lifecycle!LifecycleNext]_(Lifecycle!lifecycle)
  <2>1. /\ scan[s].status \in ActiveStatuses
        /\ scan' = [scan EXCEPT ![s].status = "ended"]
        /\ UNCHANGED <<target, job, linked, policy, schedule, rows, requests>>
    BY <1>2 DEF EndTask, StopScan, FenceSupersededSession, ActiveStatuses
  <2>2. QED
    BY <2>1, EndingRefines
<1>3. ASSUME RecordConnection \/ \E s \in Scans, a \in Assets : AdmitBatch(s, a)
      PROVE  UNCHANGED Lifecycle!lifecycle
  <2>1. UNCHANGED <<target, job, linked, policy, schedule, scan, rows>>
    BY <1>3 DEF RecordConnection, AdmitBatch
  <2>2. \A r : r.kind = "asset request" => (r \in requests' <=> r \in requests)
    <3>1. CASE RecordConnection
      BY <3>1 DEF RecordConnection
    <3>2. ASSUME NEW s \in Scans, NEW a \in Assets, AdmitBatch(s, a)
          PROVE  \A r : r.kind = "asset request" => (r \in requests' <=> r \in requests)
      <4>1. PICK b : b.kind = "batch" /\ requests' = requests \cup {b}
        BY <3>2 DEF AdmitBatch
      <4>2. QED
        BY <4>1
    <3>3. QED
      BY <1>3, <3>1, <3>2
  <2>3. \A u \in Targets : Owned(u)' = Owned(u)
    BY <2>1, OwnedStays DEF ActiveScans
  <2>4. \A u \in Targets : Phase(u)' = Phase(u) /\ Late(u)' = Late(u)
    BY <2>1, <2>2, LateStays DEF Phase
  <2>5. QED
    BY <2>3, <2>4, StutterStep
<1>4. ASSUME NEW t \in Targets, NEW a \in Assets, AdmitAssets(t, a)
      PROVE  Lifecycle!Admit(t)
  <2>1. UNCHANGED <<target, job, linked, policy, schedule, scan, rows>> /\ target[t] = "live"
    BY <1>4 DEF AdmitAssets, LockActive
  <2>2. \A u \in Targets : Owned(u)' = Owned(u)
    BY <2>1, OwnedStays DEF ActiveScans
  <2>3. PICK q : /\ q.kind = "asset request" /\ q.target = t /\ q.asset = a
                 /\ requests' = requests \cup {q}
    BY <1>4 DEF AdmitAssets
  <2>4. Late(t)' = Late(t) \cup {<<"asset", a>>}
    BY <2>3 DEF Late
  <2>5. \A u \in Targets \ {t} : Late(u)' = Late(u)
    BY <2>3 DEF Late
  <2>6. \A u \in Targets : Phase(u)' = Phase(u)
    BY <2>1 DEF Phase
  <2>7. QED
    BY <2>1, <2>2, <2>4, <2>5, <2>6, PhaseOfTargets, AdmitStep
<1>5. ASSUME NEW r \in requests, Materialize(r)
      PROVE  Lifecycle!Change
  <2>1. UNCHANGED <<target, job, linked, policy, schedule, scan>>
    BY <1>5 DEF Materialize
  <2>2. \A q : q.kind = "asset request" => (q \in requests' <=> q \in requests)
    BY <1>5 DEF Materialize
  <2>3. \A u \in Targets : rows'[u] # rows[u] => target[u] = "live"
    BY <1>5 DEF Materialize, LockActiveExecution, LockActive, TypeOK
  <2>4. \A u \in Targets : Owned(u)' # Owned(u) => Phase(u) = "live"
    BY <2>1, <2>3, OwnedStays, PhaseOfTargets DEF ActiveScans
  <2>5. \A u \in Targets : Phase(u)' = Phase(u) /\ Late(u)' = Late(u)
    BY <2>1, <2>2, LateStays DEF Phase
  <2>6. QED
    BY <2>4, <2>5, ChangeStep
<1>6. ASSUME NEW r \in requests, InsertAssets(r)
      PROVE  \E t \in Targets : Lifecycle!Land(t)
  <2>1. r \in [kind : {"asset request"}, target : Targets, asset : Assets]
    BY <1>6 DEF InsertAssets, TypeOK, Requests
  <2>2. PICK t \in Targets : t = r.target
    BY <2>1
  <2>3. PICK x \in Late(t) : x = <<"asset", r.asset>>
    BY <2>1, <2>2 DEF Late
  <2>4. /\ UNCHANGED <<target, job, linked, policy, schedule, scan>>
        /\ requests' = requests \ {r}
        /\ rows' = [rows EXCEPT ![t] = @ \cup {r.asset}]
    BY <1>6, <2>2 DEF InsertAssets
  <2>5. Owned(t)' = Owned(t) \cup {x}
    BY <2>3, <2>4 DEF Owned, ActiveScans, TypeOK
  <2>6. \A u \in Targets \ {t} : Owned(u)' = Owned(u)
    BY <2>4, OwnedStays DEF ActiveScans, TypeOK
  <2>7. \A u \in Targets \ {t} : Late(u)' = Late(u)
    BY <2>2, <2>4 DEF Late
  <2>8. Late(t)' = Late(t) \ {x}
    <3>1. \A q \in requests : q.kind = "asset request" /\ q.target = t /\ q.asset = r.asset => q = r
      <4>1. \A q \in requests : q.kind = "asset request" =>
                q \in [kind : {"asset request"}, target : Targets, asset : Assets]
        BY DEF TypeOK, Requests
      <4>2. ASSUME NEW q \in [kind : {"asset request"}, target : Targets, asset : Assets],
                   q.target = t, q.asset = r.asset
            PROVE  q = r
        BY <2>1, <2>2, <4>2, SameAssetRequest
      <4>3. QED
        BY <4>1, <4>2
    <3>2. \A q \in requests :
            q.kind = "asset request" /\ q.target = t /\ <<"asset", q.asset>> = x => q = r
      BY <2>3, <3>1
    <3>3. QED
      BY <2>1, <2>2, <2>3, <2>4, <3>2 DEF Late
  <2>9. \A u \in Targets : Phase(u)' = Phase(u)
    BY <2>4 DEF Phase
  <2>10. QED
    BY <2>5, <2>6, <2>7, <2>8, <2>9, LandStep
<1>7. QED
  BY <1>1, <1>2, <1>3, <1>4, <1>5, <1>6 DEF Lifecycle!LifecycleNext

(* Steps of the runner: what it removes belongs to the deleted target it works
   on, and it completes the job over nothing. *)
LEMMA RunnerWorksOnDeleted ==
  ASSUME TypeOK, Links, Reconciling
  PROVE  runner.target \in Targets /\ Phase(runner.target) = "deleted"
<1>1. runner.target \in Targets /\ job[runner.target] = "pending"
  BY DEF Links, RunnerWorksOnPendingJobs
<1>2. QED
  BY <1>1, PhaseOfTargets

LEMMA RunnerRefines ==
  ASSUME TypeOK, TypeOK', Links, RunnerStep
  PROVE  [Lifecycle!LifecycleNext]_(Lifecycle!lifecycle)
<1>1. CASE ListDue \/ NextJob \/ ConfirmTombstone \/ ExhaustBudget \/ AssetsDone
  <2>1. UNCHANGED <<target, job, linked, policy, schedule, scan, rows, requests>>
    BY <1>1 DEF ListDue, NextJob, ConfirmTombstone, ExhaustBudget, AssetsDone, owners
  <2>2. \A u \in Targets : Owned(u)' = Owned(u)
    BY <2>1, OwnedStays DEF ActiveScans
  <2>3. \A u \in Targets : Phase(u)' = Phase(u) /\ Late(u)' = Late(u)
    BY <2>1, LateStays DEF Phase
  <2>4. QED
    BY <2>2, <2>3, StutterStep
<1>2. CASE DeleteSchedule
  <2>1. PICK t \in Targets : t = runner.target /\ Phase(t) = "deleted"
    BY <1>2, RunnerWorksOnDeleted DEF DeleteSchedule, Reconciling
  <2>2. UNCHANGED <<target, job, linked, policy, scan, rows, requests>>
    BY <1>2 DEF DeleteSchedule
  <2>3. \A x \in Schedules : schedule'[x] = schedule[x] \/ (schedule[x] = t /\ schedule'[x] = NoTarget)
    BY <1>2, <2>1 DEF DeleteSchedule, TypeOK
  <2>4. \A u \in Targets \ {t} : Owned(u)' = Owned(u)
    BY <2>2, <2>3, OwnedStays, NoTargetIsNone DEF ActiveScans
  <2>5. Owned(t)' \subseteq Owned(t)
    BY <2>2, <2>3, OwnedShrinks, NoTargetIsNone DEF ActiveScans
  <2>6. \A u \in Targets : Phase(u)' = Phase(u) /\ Late(u)' = Late(u)
    BY <2>2, LateStays DEF Phase
  <2>7. Lifecycle!Shrink(t)
    BY <2>1, <2>4, <2>5, <2>6, ShrinkStep
  <2>8. QED
    BY <2>7 DEF Lifecycle!LifecycleNext
<1>3. CASE DeleteControlPlane
  <2>1. PICK t \in Targets : t = runner.target /\ Phase(t) = "deleted"
    BY <1>3, RunnerWorksOnDeleted DEF DeleteControlPlane, Reconciling
  <2>2. UNCHANGED <<target, job, schedule, scan, rows, requests>>
    BY <1>3 DEF DeleteControlPlane
  <2>3. /\ \A u \in Targets \ {t} : linked'[u] = linked[u] /\ policy'[u] = policy[u]
        /\ ~linked'[t] /\ ~policy'[t]
    BY <1>3, <2>1 DEF DeleteControlPlane, TypeOK
  <2>4. \A u \in Targets \ {t} : Owned(u)' = Owned(u)
    BY <2>2, <2>3, OwnedStays DEF ActiveScans
  <2>5. Owned(t)' \subseteq Owned(t)
    BY <2>2, <2>3, OwnedShrinks DEF ActiveScans
  <2>6. \A u \in Targets : Phase(u)' = Phase(u) /\ Late(u)' = Late(u)
    BY <2>2, LateStays DEF Phase
  <2>7. Lifecycle!Shrink(t)
    BY <2>1, <2>4, <2>5, <2>6, ShrinkStep
  <2>8. QED
    BY <2>7 DEF Lifecycle!LifecycleNext
<1>4. CASE CancelNextActiveScan
  <2>1. UNCHANGED <<target, job, linked, policy, schedule, rows, requests>>
    BY <1>4 DEF CancelNextActiveScan
  <2>2. CASE UNCHANGED scan
    <3>1. \A u \in Targets : Owned(u)' = Owned(u)
      BY <2>1, <2>2, OwnedStays DEF ActiveScans
    <3>2. \A u \in Targets : Phase(u)' = Phase(u) /\ Late(u)' = Late(u)
      BY <2>1, LateStays DEF Phase
    <3>3. QED
      BY <3>1, <3>2, StutterStep
  <2>3. ASSUME NEW s \in Cancellable(runner.target), scan' = [scan EXCEPT ![s].status = "ended"]
        PROVE  [Lifecycle!LifecycleNext]_(Lifecycle!lifecycle)
    <3>1. s \in Scans /\ scan[s].status \in ActiveStatuses
      BY DEF Cancellable
    <3>2. QED
      BY <2>1, <2>3, <3>1, EndingRefines
  <2>4. QED
    BY <1>4, <2>2, <2>3 DEF CancelNextActiveScan
<1>5. CASE DeleteAssetBatch
  <2>1. PICK t \in Targets : t = runner.target /\ Phase(t) = "deleted"
    BY <1>5, RunnerWorksOnDeleted DEF DeleteAssetBatch, Reconciling
  <2>2. UNCHANGED <<target, job, linked, policy, schedule, scan, requests>>
    BY <1>5 DEF DeleteAssetBatch
  <2>3. rows'[t] \subseteq rows[t] /\ \A u \in Targets \ {t} : rows'[u] = rows[u]
    BY <1>5, <2>1 DEF DeleteAssetBatch, TypeOK
  <2>4. \A u \in Targets \ {t} : Owned(u)' = Owned(u)
    BY <2>2, <2>3, OwnedStays DEF ActiveScans
  <2>5. Owned(t)' \subseteq Owned(t)
    BY <2>2, <2>3, OwnedShrinks DEF ActiveScans
  <2>6. \A u \in Targets : Phase(u)' = Phase(u) /\ Late(u)' = Late(u)
    BY <2>2, LateStays DEF Phase
  <2>7. Lifecycle!Shrink(t)
    BY <2>1, <2>4, <2>5, <2>6, ShrinkStep
  <2>8. QED
    BY <2>7 DEF Lifecycle!LifecycleNext
<1>6. CASE MarkCompletedIfClear
  <2>1. PICK t \in Targets : t = runner.target /\ Phase(t) = "deleted"
    BY <1>6, RunnerWorksOnDeleted DEF MarkCompletedIfClear, Reconciling
  <2>2. UNCHANGED <<target, linked, policy, schedule, scan, rows, requests>>
    BY <1>6 DEF MarkCompletedIfClear, owners
  <2>3. \A u \in Targets : Owned(u)' = Owned(u) /\ Late(u)' = Late(u)
    BY <2>2, OwnedStays, LateStays DEF ActiveScans
  <2>4. CASE UNCHANGED job
    BY <2>2, <2>3, <2>4, StutterStep DEF Phase
  <2>5. CASE IsClear(t)
    <3>1. job' = [job EXCEPT ![t] = "completed"]
      BY <1>6, <2>1, <2>5 DEF MarkCompletedIfClear
    <3>2. Phase(t)' = "clear" /\ \A u \in Targets \ {t} : Phase(u)' = Phase(u)
      BY <2>2, <3>1 DEF Phase, TypeOK
    <3>3. Owned(t) = {}
      BY <2>5 DEF IsClear, Owned
    <3>4. Lifecycle!Clear(t)
      BY <2>1, <2>3, <3>2, <3>3, ClearStep
    <3>5. QED
      BY <3>4 DEF Lifecycle!LifecycleNext
  <2>6. QED
    BY <1>6, <2>1, <2>4, <2>5 DEF MarkCompletedIfClear
<1>7. QED
  BY <1>1, <1>2, <1>3, <1>4, <1>5, <1>6 DEF RunnerStep

LEMMA StepRefines ==
  ASSUME CleanupIInv, CleanupIInv', [Next]_vars
  PROVE  [Lifecycle!LifecycleNext]_(Lifecycle!lifecycle)
<1>0. TypeOK /\ Links /\ TypeOK'
  BY DEF CleanupIInv
<1>1. ASSUME NEW ts \in SUBSET Targets, DeleteTargets(ts)
      PROVE  [Lifecycle!LifecycleNext]_(Lifecycle!lifecycle)
  <2>0. PICK gone \in SUBSET Targets : gone = {t \in ts : Phase(t) = "live"}
    OBVIOUS
  <2>1. UNCHANGED <<linked, policy, schedule, scan, rows, requests>>
    BY <1>1 DEF DeleteTargets, owners
  <2>2. \A u \in Targets : Owned(u)' = Owned(u) /\ Late(u)' = Late(u)
    BY <2>1, OwnedStays, LateStays DEF ActiveScans
  <2>3. \A u \in Targets : /\ target'[u] = IF u \in ts THEN "deleted" ELSE target[u]
                           /\ job'[u] = "completed" <=> job[u] = "completed"
                           /\ u \in ts => target[u] \in {"live", "deleted"}
    BY <1>0, <1>1 DEF DeleteTargets, TypeOK
  <2>4. \A u \in gone : Phase(u)' = "deleted"
    BY <2>0, <2>3 DEF Phase
  <2>5. \A u \in Targets \ gone : Phase(u)' = Phase(u)
    BY <2>0, <2>3 DEF Phase
  <2>6. Lifecycle!Disappear(gone)
    BY <2>0, <2>2, <2>4, <2>5, DisappearStep
  <2>7. QED
    BY <2>6 DEF Lifecycle!LifecycleNext
<1>2. CASE Restart
  <2>1. UNCHANGED <<target, job, linked, policy, schedule, scan, rows>> /\ requests' = {}
    BY <1>2 DEF Restart
  <2>2. \A u \in Targets : Owned(u)' = Owned(u)
    BY <2>1, OwnedStays DEF ActiveScans
  <2>3. \A u \in Targets : Phase(u)' = Phase(u) /\ Late(u)' = {}
    BY <2>1 DEF Phase, Late
  <2>4. QED
    BY <2>2, <2>3, LoseStep DEF Lifecycle!LifecycleNext
<1>3. CASE UNCHANGED vars \/ RunFails \/ \E t \in Targets : RetryFallsDue(t)
  <2>1. UNCHANGED <<target, job, linked, policy, schedule, scan, rows, requests>>
    BY <1>3 DEF vars, RunFails, RetryFallsDue, owners
  <2>2. \A u \in Targets : Owned(u)' = Owned(u)
    BY <2>1, OwnedStays DEF ActiveScans
  <2>3. \A u \in Targets : Phase(u)' = Phase(u) /\ Late(u)' = Late(u)
    BY <2>1, LateStays DEF Phase
  <2>4. QED
    BY <2>2, <2>3, StutterStep
<1>4. CASE WriterStep
  BY <1>0, <1>4, LockingWritersRefine, AgentsRefine DEF WriterStep
<1>5. QED
  BY <1>0, <1>1, <1>2, <1>3, <1>4, RunnerRefines DEF Next

LEMMA InitRefines == Init => Lifecycle!LifecycleInit
<1>1. Init => \A u \in Targets : Owned(u) = {} /\ Late(u) = {} /\ Phase(u) = "absent"
  BY NoTargetIsNone DEF Init, Owned, Late, Phase, ActiveScans, ActiveStatuses
<1>2. QED
  BY <1>1 DEF Lifecycle!LifecycleInit, Phase

(* Deleting a target keeps what TargetLifecycle promises: with every table,
   every request under way and the runner's place, whatever the instance's
   size and whichever writers it has. *)
THEOREM CleanupKeepsTheLifecycle == Spec => KeepsTheLifecycle
<1>1. CleanupIInv /\ CleanupIInv' /\ [Next]_vars => [Lifecycle!LifecycleNext]_(Lifecycle!lifecycle)
  BY StepRefines
<1>2. QED
  BY <1>1, InitRefines, CleanupInvariance, PTL
     DEF Spec, KeepsTheLifecycle, Lifecycle!LifecycleSpec
=============================================================================
