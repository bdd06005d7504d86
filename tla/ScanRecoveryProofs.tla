------------------------- MODULE ScanRecoveryProofs -------------------------
(***************************************************************************)
(* Proofs of the recovery invariants of ScanExecution, for every set of    *)
(* scans, tasks, agents, requests, streams and monitors:                   *)
(*                                                                         *)
(*   Outcomes.    A scan that failed or was stopped has nothing to start:  *)
(*                its verdict is written after its tasks were cancelled.   *)
(*   Fencing.     A session serves only after the leases of the sessions   *)
(*                before it are closed, although one transaction selects   *)
(*                their scans and a later one fails their tasks.           *)
(*   Convergence. While nothing fails, a scan with nothing left to wait    *)
(*                for has a marker or a goroutine about to write its       *)
(*                status: the last count of its tasks sees that it is.     *)
(***************************************************************************)
EXTENDS ScanExecutionProofs, WellFoundedInduction

-----------------------------------------------------------------------------
(* A step moves one goroutine, or none, or all of them at a restart. *)

StreamStep(w)  == StreamWork(w) \/ ClientMessage(w) \/ BreakHandler(w)
MonitorStep(w) == MonitorWork(w) \/ MonitorFails(w)

LEMMA WhoMoves ==
  ASSUME ExecutionIInv, Next, NEW w \in Workers
  PROVE  \/ pc'[w] = pc[w] /\ job'[w] = job[w]
         \/ w \in Streams /\ StreamStep(w)
         \/ w \in Monitors /\ MonitorStep(w)
         \/ Restart
<1>a. HandlersOK /\ ExecutionTypeOK /\ Streams \subseteq Workers /\ Monitors \subseteq Workers
  BY DEF ExecutionIInv, Workers
<1>b. ASSUME NEW v \in Workers, Moves(v), v # w
      PROVE  pc'[w] = pc[w] /\ job'[w] = job[w]
  BY <1>a, <1>b DEF Moves, Goto, HandlersOK
<1>1. ASSUME NEW v \in Streams, StreamStep(v)
      PROVE  Moves(v) \/ UNCHANGED <<pc, job>>
  <2>1. v \in Workers
    BY <1>a
  <2>2. QED
    BY <1>a, <1>1, <2>1, StreamWorkMoves, FailSelectedMoves, ReconcileMoves, ClientMessageMoves,
       EndStreamMoves
       DEF StreamStep, StreamWork, BreakHandler
<1>2. ASSUME NEW v \in Monitors, MonitorStep(v)
      PROVE  Moves(v)
  <2>1. v \in Workers
    BY <1>a
  <2>2. QED
    BY <1>a, <1>2, <2>1, MonitorWorkMoves, FailSelectedMoves, ReconcileMoves, MonitorFailsMoves
       DEF MonitorStep, MonitorWork, ExecutionTypeOK
<1>3. CASE Operator \/ \E a \in Agents : Lapse(a)
  BY <1>3 DEF Operator, AdmitScan, CreateAdmitted, StopScans, DeleteScan, RemoveAgent, Lapse,
              memoryVars
<1>4. CASE \E v \in Streams : StreamStep(v)
  BY <1>a, <1>b, <1>1, <1>4
<1>5. CASE \E v \in Monitors : MonitorStep(v)
  BY <1>a, <1>b, <1>2, <1>5
<1>6. QED
  BY <1>3, <1>4, <1>5 DEF Next, StreamStep, MonitorStep

-----------------------------------------------------------------------------
(* Outcomes.  A scan fails or is cancelled only when nothing of it waits: the
   verdict was written after the cancellation of what had not started, and
   nothing becomes unstarted again.                                        *)

(* A goroutine that is about to record a failure or a cancellation has seen a
   task of the scan, and has cancelled its unstarted tasks before it writes. *)
DecisionOK(w) ==
    pc[w] \in {"cancel", "update"} /\ job[w].verdict # "succeeded" =>
        /\ scan[job[w].scan].status # "absent"
        /\ pc[w] = "update" => ~Has(job[w].scan, UnstartedStatuses)

OutcomeIInv == EndedScanIsSettled /\ \A w \in Workers : DecisionOK(w)

(* The steps that write a scan row. *)
ScanWriter ==
    \/ \E w \in Workers : UpdateScan(w)
    \/ \E a \in Agents, e \in Epochs, r \in Requests, t \in Tasks : Claim(a, e, r, t)
    \/ \E s \in Scans, a \in Agents \cup {NoAgent}, skip \in SUBSET Tasks : CreateScan(s, a, skip)
    \/ \E S \in SUBSET Scans : StopActiveScans(S)
    \/ \E s \in Scans : SoftDelete(s)
    \/ \E a \in Agents : DeleteAgent(a)

LEMMA HandlersWriteNoScan ==
  ASSUME NEW w \in Workers,
         \/ StreamWork(w) \/ BreakHandler(w) \/ MonitorWork(w) \/ MonitorFails(w)
         \/ ClientMessage(w),
         ~UpdateScan(w), ~\E r \in Requests, t \in Tasks : ClaimTask(w, r, t)
  PROVE  UNCHANGED scan
<1>1. CASE Reconcile(w)
  BY <1>1 DEF Reconcile, ReconcileNext, UnlockStage, UnlockNextStageOrder, CountTasks,
              CancelUnstarted, CancelUnstartedTasks, ClearMarker, ClearReconciliationPending,
              storeVars
<1>2. CASE FailSelected(w)
  BY <1>2 DEF FailSelected, FailTasksForOfflineAgent, FailTasksForSupersededSession, Disconnect
<1>3. CASE StreamWork(w) /\ ~Reconcile(w) /\ ~FailSelected(w)
  BY <1>3 DEF StreamWork, PersistSession, UpdateHeartbeat, AttachSnapshot, Fence, SelectScans,
              ListSuperseded, BecomeReady, RecordHeartbeat, AssignNothing, CommitResult,
              Committed, CommitTerminalStatus, AlreadyCommitted, MarkUnacknowledged,
              MarkReconciliationPending, Acknowledge, ClearAcknowledged,
              ClearReconciliationPending, Reject, EndStream, storeVars
<1>4. CASE MonitorWork(w) /\ ~Reconcile(w) /\ ~FailSelected(w)
  BY <1>4 DEF MonitorWork, StartCheck, StartSweep, QueryStale, MarkOffline,
              MarkOfflineFromOnline, KeepOnline, QuerySessions, FinishCheck, RecoverOffline,
              RecoverSuperseded, SelectScans, storeVars
<1>5. CASE BreakHandler(w) \/ MonitorFails(w)
  BY <1>5 DEF BreakHandler, EndStream, MonitorFails, storeVars
<1>6. CASE ClientMessage(w)
  BY <1>6 DEF ClientMessage, RegisterSession, RecordConnection, Heartbeat, RequestTask, Serve,
              ReportResult, CloseStream, EndStream, storeVars
<1>7. QED
  BY <1>1, <1>2, <1>3, <1>4, <1>5, <1>6

LEMMA ScanSteps ==
  ASSUME ExecutionIInv, Next
  PROVE  ScanWriter \/ UNCHANGED scan
<1>a. HandlersOK /\ Streams \subseteq Workers /\ Monitors \subseteq Workers
  BY DEF ExecutionIInv, Workers
<1>1. ASSUME NEW w \in Workers, NEW r \in Requests, NEW t \in Tasks, ClaimTask(w, r, t)
      PROVE  ScanWriter
  <2>1. job[w].agent \in Agents /\ job[w].epoch \in Epochs
    BY <1>1, <1>a, JobFacts DEF ClaimTask, SessionLabels
  <2>2. Claim(job[w].agent, job[w].epoch, r, t)
    BY <1>1 DEF ClaimTask
  <2>3. QED
    BY <2>1, <2>2 DEF ScanWriter
<1>2. ASSUME NEW w \in Workers,
             \/ StreamWork(w) \/ BreakHandler(w) \/ MonitorWork(w) \/ MonitorFails(w)
             \/ ClientMessage(w)
      PROVE  ScanWriter \/ UNCHANGED scan
  BY <1>1, <1>2, HandlersWriteNoScan DEF ScanWriter
<1>3. ASSUME NEW s \in Scans, NEW skip \in Skips, CreateAdmitted(s, skip)
      PROVE  ScanWriter
  <2>1. CreateScan(s, admitted[s], skip) /\ admitted[s] # None
    BY <1>3 DEF CreateAdmitted
  <2>2. admitted[s] \in Agents \cup {NoAgent} /\ skip \in SUBSET Tasks
    BY <2>1, WorkersAssumption DEF ExecutionIInv, ExecutionTypeOK
  <2>3. QED
    BY <2>1, <2>2 DEF ScanWriter
<1>4. CASE \/ \E s \in Scans, a \in Agents \cup {NoAgent} : AdmitScan(s, a)
           \/ \E S \in SUBSET Scans : StopScans(S)
           \/ \E s \in Scans : DeleteScan(s)
           \/ \E a \in Agents : RemoveAgent(a)
           \/ \E a \in Agents : Lapse(a)
           \/ Restart
  BY <1>4 DEF AdmitScan, StopScans, DeleteScan, RemoveAgent, Lapse, HeartbeatLapses, Restart,
              storeVars, ScanWriter
<1>5. QED
  BY <1>a, <1>2, <1>3, <1>4 DEF Next, Operator

(* What a step does to the status of a scan. *)
LEMMA StatusStep ==
  ASSUME ExecutionIInv, Next, NEW s \in Scans
  PROVE  /\ scan[s].status # "absent" => scan'[s].status # "absent"
         /\ Active(s)' => \/ Active(s)
                          \/ /\ scan[s].status = "absent"
                             /\ \E a \in Agents \cup {NoAgent}, skip \in SUBSET Tasks :
                                   CreateScan(s, a, skip)
         /\ \/ scan'[s].status = scan[s].status
            \/ scan'[s].status \notin {"failed", "cancelled"}
            \/ \E w \in Workers : /\ UpdateScan(w)
                                  /\ job[w].scan = s /\ job[w].verdict = scan'[s].status
            \/ \A t \in TasksOf(s) : task'[t].status \notin UnstartedStatuses
<1>a. /\ scan \in [Scans -> ScanRow] /\ task \in [Tasks -> TaskRow]
      /\ \A x \in Scans : scan[x] \in ScanRow
      /\ \A t \in Tasks : ScanOf[t] \in Scans /\ task[t] \in TaskRow
      /\ HandlersOK
  BY WorkflowAssumption DEF ExecutionIInv, ExecutionTypeOK, StoreTypeOK
<1> USE DEF Active, ActiveScanStatuses
<1>1. ASSUME NEW w \in Workers, UpdateScan(w),
             scan'[s].status # scan[s].status
      PROVE  /\ Active(s) /\ job[w].scan = s /\ job[w].verdict = scan'[s].status
             /\ scan'[s].status \in TerminalScanStatuses
  <2>1. job[w].scan \in Scans /\ job[w].verdict \in TerminalScanStatuses
    BY <1>a, <1>1, JobFacts DEF UpdateScan, LocalOK
  <2>2. Active(job[w].scan) /\ scan' = [scan EXCEPT ![job[w].scan].status = job[w].verdict]
    BY <1>1 DEF UpdateScan, UpdateScanStatus
  <2>3. \A x \in Scans : x # job[w].scan => scan'[x] = scan[x]
    BY <1>a, <2>2
  <2>4. job[w].scan = s
    BY <1>1, <2>3
  <2>5. scan'[s].status = job[w].verdict
    BY <1>a, <2>2, <2>4 DEF ScanRow
  <2>6. QED
    BY <2>1, <2>2, <2>4, <2>5
<1>2. ASSUME NEW a \in Agents, NEW e \in Epochs, NEW r \in Requests, NEW t \in Tasks,
             Claim(a, e, r, t)
      PROVE  \/ scan'[s].status = scan[s].status
             \/ Active(s) /\ scan'[s].status = "running"
  <2>1. /\ Active(ScanOf[t])
        /\ scan' = [scan EXCEPT ![ScanOf[t]] = [@ EXCEPT !.status = "running", !.agent = a]]
    BY <1>2 DEF Claim, Candidates
  <2>2. CASE s = ScanOf[t]
    BY <1>a, <2>1, <2>2 DEF ScanRow
  <2>3. CASE s # ScanOf[t]
    BY <1>a, <2>1, <2>3
  <2>4. QED
    BY <2>2, <2>3
<1>3. ASSUME NEW x \in Scans, NEW a \in Agents \cup {NoAgent}, NEW skip \in SUBSET Tasks,
             CreateScan(x, a, skip)
      PROVE  \/ scan'[s].status = scan[s].status
             \/ x = s /\ scan[s].status = "absent" /\ scan'[s].status \in {"succeeded", "pending"}
  BY <1>a, <1>3 DEF CreateScan, ScanRow
<1>4. ASSUME NEW S \in SUBSET Scans, StopActiveScans(S)
      PROVE  \/ scan'[s].status = scan[s].status
             \/ /\ scan'[s].status = "cancelled"
                /\ \A t \in TasksOf(s) : task'[t].status \notin UnstartedStatuses
  <2>1. scan'[s] = IF s \in S THEN [scan[s] EXCEPT !.status = "cancelled"] ELSE scan[s]
    BY <1>4 DEF StopActiveScans
  <2>2. CASE s \in S
    <3>1. scan'[s].status = "cancelled"
      BY <1>a, <2>1, <2>2 DEF ScanRow
    <3>2. ASSUME NEW t \in TasksOf(s)
          PROVE  task'[t].status \notin UnstartedStatuses
      <4>1. t \in Tasks /\ ScanOf[t] \in S /\ task[t] \in TaskRow
        BY <1>a, <2>2 DEF TasksOf
      <4>2. task'[t] = IF task[t].status \in UnfinishedStatuses
                       THEN [task[t] EXCEPT !.status = "cancelled"] ELSE task[t]
        BY <1>4, <4>1 DEF StopActiveScans
      <4>3. QED
        BY <4>1, <4>2 DEF TaskRow, UnfinishedStatuses, UnstartedStatuses
    <3>3. QED
      BY <3>1, <3>2
  <2>3. QED
    BY <2>1, <2>2
<1>5. ASSUME NEW x \in Scans, SoftDelete(x)
      PROVE  scan'[s].status = scan[s].status
  BY <1>a, <1>5 DEF SoftDelete, ScanRow
<1>6. ASSUME NEW a \in Agents, DeleteAgent(a)
      PROVE  \/ scan'[s].status = scan[s].status
             \/ /\ scan'[s].status = "failed"
                /\ \A t \in TasksOf(s) : task'[t].status \notin UnstartedStatuses
  <2>1. \/ scan'[s] = scan[s]
        \/ /\ scan'[s] = [scan[s] EXCEPT !.status = "failed"]
           /\ \A t \in TasksOf(s) : task'[t].status \notin UnfinishedStatuses
    BY <1>6 DEF DeleteAgent
  <2>2. [scan[s] EXCEPT !.status = "failed"].status = "failed"
    BY <1>a DEF ScanRow
  <2>3. QED
    BY <2>1, <2>2 DEF UnfinishedStatuses
<1>7. CASE UNCHANGED scan
  BY <1>7
<1>8. CASE \E w \in Workers : UpdateScan(w)
  BY <1>1, <1>8 DEF TerminalScanStatuses
<1>9. CASE \E x \in Scans, a \in Agents \cup {NoAgent}, skip \in SUBSET Tasks : CreateScan(x, a, skip)
  BY <1>3, <1>9
<1>10. QED
  BY <1>2, <1>4, <1>5, <1>6, <1>7, <1>8, <1>9, ScanSteps DEF ScanWriter

-----------------------------------------------------------------------------
(* Nothing of a scan becomes unstarted again. *)

Barren(s) == \A t \in TasksOf(s) : task[t].status \notin UnstartedStatuses

LEMMA BarrenStays ==
  ASSUME ExecutionIInv, Next, NEW s \in Scans, scan[s].status # "absent", Barren(s)
  PROVE  Barren(s)'
<1>1. SUFFICES ASSUME NEW t \in TasksOf(s)
               PROVE  task'[t].status \notin UnstartedStatuses
  BY DEF Barren, TasksOf
<1>2. t \in Tasks /\ ScanOf[t] = s /\ task[t].status \notin UnstartedStatuses
  BY DEF Barren, TasksOf
<1>3. CASE StageQuiet
  BY <1>2, <1>3 DEF StageQuiet
<1>4. ASSUME NEW w \in Workers, UnlockStage(w)
      PROVE  task'[t] = task[t]
  BY <1>2, <1>4 DEF UnlockStage, UnlockNextStageOrder, NextStage, Unlockable, UnstartedStatuses
<1>5. ASSUME NEW x \in Scans, NEW a \in Agents \cup {NoAgent}, NEW skip \in SUBSET Tasks,
             CreateScan(x, a, skip)
      PROVE  task'[t] = task[t]
  BY <1>2, <1>5 DEF CreateScan, TasksOf
<1>6. QED
  BY <1>2, <1>3, <1>4, <1>5, StageSteps

-----------------------------------------------------------------------------
(* A goroutine gets to a decision only from CountTasks. *)

GoesOn(w) == \E label, local : label \notin {"cancel", "update"} /\ Goto(w, label, local)

LEMMA RecalculationGoesOn ==
  ASSUME NEW w, NEW local, NEW S, Recalculate(w, local, S)
  PROVE  GoesOn(w)
  BY DEF Recalculate, AfterScans, GoesOn

LEMMA OthersGoOn ==
  ASSUME NEW w \in Workers,
         \/ StreamWork(w) \/ BreakHandler(w) \/ MonitorWork(w) \/ MonitorFails(w)
         \/ ClientMessage(w),
         ~CountTasks(w), ~CancelUnstarted(w)
  PROVE  GoesOn(w) \/ UNCHANGED <<pc, job>>
<1> USE RecalculationGoesOn
<1>1. CASE StreamWork(w) /\ ~Reconcile(w) /\ ~FailSelected(w)
  BY <1>1 DEF StreamWork, PersistSession, AttachSnapshot, Fence, SelectScans, ListSuperseded,
              BecomeReady, RecordHeartbeat, AssignNothing, ClaimTask, CommitResult, Committed,
              AlreadyCommitted, MarkUnacknowledged, Acknowledge, ClearAcknowledged, Reject,
              EndStream, GoesOn
<1>2. CASE UnlockStage(w) \/ UpdateScan(w) \/ FailSelected(w)
  BY <1>2 DEF UnlockStage, UpdateScan, FailSelected, GoesOn
<1>3. CASE ReconcileNext(w)
  <2>1. PICK t \in job[w].tasks :
           LET local == [job[w] EXCEPT !.tasks = @ \ {t}, !.task = t]
           IN  IF task[t].status = "succeeded" /\ ~StageHasActive(t)
               THEN Goto(w, "unlock", local) ELSE Recalculate(w, local, {ScanOf[t]})
    BY <1>3 DEF ReconcileNext
  <2>2. QED
    BY <2>1 DEF GoesOn
<1>4. ASSUME NEW T, NextTask(w, T)
      PROVE  GoesOn(w)
  BY <1>4 DEF NextTask, GoesOn
<1>5. CASE ClearMarker(w)
  BY <1>4, <1>5 DEF ClearMarker, GoesOn
<1>6. ASSUME NEW A, NextStale(w, A)
      PROVE  GoesOn(w)
  BY <1>6 DEF NextStale, GoesOn
<1>7. CASE MonitorWork(w) /\ ~Reconcile(w) /\ ~FailSelected(w)
  BY <1>6, <1>7 DEF MonitorWork, StartCheck, StartSweep, QueryStale, MarkOffline, KeepOnline,
                    QuerySessions, FinishCheck, RecoverOffline, RecoverSuperseded, SelectScans,
                    GoesOn
<1>8. CASE MonitorFails(w)
  BY <1>4, <1>6, <1>8 DEF MonitorFails, SkipRecalculation, SkipRecovery, GoesOn
<1>9. CASE ClientMessage(w) \/ BreakHandler(w)
  BY <1>9 DEF ClientMessage, RegisterSession, Heartbeat, RequestTask, Serve, ReportResult,
              CloseStream, BreakHandler, EndStream, GoesOn
<1>10. QED
  BY <1>1, <1>2, <1>3, <1>5, <1>7, <1>8, <1>9 DEF StreamWork, MonitorWork, Reconcile

LEMMA DecidersStep ==
  ASSUME ExecutionIInv, Next, NEW w \in Workers, pc'[w] \in {"cancel", "update"}
  PROVE  \/ pc'[w] = pc[w] /\ job'[w] = job[w]
         \/ CountTasks(w)
         \/ CancelUnstarted(w)
<1>a. HandlersOK /\ Streams \subseteq Workers /\ Monitors \subseteq Workers
  BY DEF ExecutionIInv, Workers
<1>1. CASE GoesOn(w)
  BY <1>a, <1>1 DEF GoesOn, Goto, HandlersOK
<1>2. CASE Restart
  BY <1>2 DEF Restart
<1>3. CASE \/ w \in Streams /\ StreamStep(w)
           \/ w \in Monitors /\ MonitorStep(w)
  BY <1>1, <1>3, OthersGoOn DEF StreamStep, MonitorStep
<1>4. QED
  BY <1>2, <1>3, WhoMoves

(* A count that decides a failure or a cancellation has seen such a task, so
   the scan exists. *)
LEMMA CountsAreOfScans ==
  ASSUME StoreIInv, NEW s \in Scans, ResolvedStatus(s) \in {"failed", "cancelled"}
  PROVE  scan[s].status # "absent"
<1>1. Has(s, {"failed"}) \/ Has(s, {"cancelled"})
  BY DEF ResolvedStatus
<1>2. PICK t \in TasksOf(s) : task[t].status \in {"failed", "cancelled"}
  BY <1>1 DEF Has
<1>3. QED
  BY <1>2 DEF TasksOf, StoreIInv, NothingBeforeCreation

LEMMA DecisionsStep ==
  ASSUME ExecutionIInv, StoreIInv, OutcomeIInv, Next, NEW w \in Workers
  PROVE  DecisionOK(w)'
<1>a. HandlersOK /\ DecisionOK(w)
  BY DEF ExecutionIInv, OutcomeIInv
<1>1. SUFFICES ASSUME pc'[w] \in {"cancel", "update"}, job'[w].verdict # "succeeded"
               PROVE  /\ scan'[job'[w].scan].status # "absent"
                      /\ pc'[w] = "update" =>
                            \A t \in TasksOf(job'[w].scan) : task'[t].status \notin UnstartedStatuses
  BY DEF DecisionOK, Has, TasksOf
<1>b. job'[w].scan \in Scans
  BY <1>1, HandlersStep DEF HandlersOK, LocalOK
<1>2. CASE pc'[w] = pc[w] /\ job'[w] = job[w]
  <2>1. /\ scan[job[w].scan].status # "absent"
        /\ pc[w] = "update" => Barren(job[w].scan)
    BY <1>a, <1>1, <1>2 DEF DecisionOK, Barren, Has
  <2>2. PICK s \in Scans : s = job[w].scan
    BY <1>b, <1>2
  <2>3. scan[s].status # "absent" /\ (pc[w] = "update" => Barren(s))
    BY <2>1, <2>2
  <2>4. scan'[s].status # "absent"
    BY <2>3, StatusStep
  <2>5. pc[w] = "update" => Barren(s)'
    BY <2>3, BarrenStays
  <2>6. QED
    BY <1>2, <2>2, <2>4, <2>5 DEF Barren, TasksOf
<1>3. CASE CountTasks(w)
  <2>1. PICK s \in job[w].scans :
           IF ResolvedStatus(s) = "undecided" THEN Recalculate(w, job[w], job[w].scans \ {s})
           ELSE Goto(w, IF ResolvedStatus(s) = "succeeded" THEN "update" ELSE "cancel",
                     [job[w] EXCEPT !.scans = @ \ {s}, !.scan = s, !.verdict = ResolvedStatus(s)])
    BY <1>3 DEF CountTasks
  <2>2. ResolvedStatus(s) # "undecided"
    <3>1. ASSUME Recalculate(w, job[w], job[w].scans \ {s})
          PROVE  FALSE
      <4>1. pc'[w] \notin {"cancel", "update"}
        BY <1>a, <3>1, RecalculationGoesOn DEF GoesOn, Goto, HandlersOK
      <4>2. QED
        BY <1>1, <4>1
    <3>2. QED
      BY <2>1, <3>1
  <2>3. /\ pc'[w] = IF ResolvedStatus(s) = "succeeded" THEN "update" ELSE "cancel"
        /\ job'[w].scan = s /\ job'[w].verdict = ResolvedStatus(s)
    <3> DEFINE local == [job[w] EXCEPT !.scans = @ \ {s}, !.scan = s, !.verdict = ResolvedStatus(s)]
    <3>1. Goto(w, IF ResolvedStatus(s) = "succeeded" THEN "update" ELSE "cancel", local)
      BY <2>1, <2>2
    <3>2. local.scan = s /\ local.verdict = ResolvedStatus(s)
      BY <1>a, JobFacts DEF JobRow
    <3> HIDE DEF local
    <3>3. QED
      BY <1>a, <3>1, <3>2 DEF Goto, HandlersOK
  <2>4. ResolvedStatus(s) \in {"failed", "cancelled"} /\ pc'[w] = "cancel"
    BY <1>1, <2>2, <2>3 DEF ResolvedStatus
  <2>5. s \in Scans
    BY <1>b, <2>3
  <2>6. scan[s].status # "absent"
    BY <2>4, <2>5, CountsAreOfScans
  <2>7. UNCHANGED scan
    BY <1>3 DEF CountTasks, storeVars
  <2>8. QED
    BY <2>3, <2>4, <2>6, <2>7
<1>4. CASE CancelUnstarted(w)
  <2>1. /\ CancelUnstartedTasks(job[w].scan) /\ pc[w] = "cancel"
        /\ job'[w] = job[w]
    BY <1>a, <1>4 DEF CancelUnstarted, Goto, HandlersOK
  <2>2. \A t \in TasksOf(job[w].scan) : task'[t].status \notin UnstartedStatuses
    <3>1. \A t \in Tasks : task[t] \in TaskRow
      BY DEF ExecutionIInv, ExecutionTypeOK, StoreTypeOK
    <3>2. QED
      BY <2>1, <3>1 DEF CancelUnstartedTasks, TasksOf, TaskRow, UnstartedStatuses
  <2>3. scan'[job[w].scan].status # "absent"
    BY <1>a, <1>1, <2>1 DEF DecisionOK, CancelUnstartedTasks
  <2>4. QED
    BY <2>1, <2>2, <2>3 DEF Barren, TasksOf
<1>5. QED
  BY <1>1, <1>2, <1>3, <1>4, DecidersStep

LEMMA EndedStep ==
  ASSUME ExecutionIInv, OutcomeIInv, Next
  PROVE  EndedScanIsSettled'
<1>1. SUFFICES ASSUME NEW s \in Scans, scan'[s].status \in {"failed", "cancelled"}
               PROVE  Barren(s)'
  BY DEF EndedScanIsSettled, Barren, Has, TasksOf, UnstartedStatuses
<1>2. CASE scan'[s].status = scan[s].status
  <2>1. scan[s].status # "absent" /\ Barren(s)
    BY <1>1, <1>2 DEF OutcomeIInv, EndedScanIsSettled, Barren, Has, UnstartedStatuses
  <2>2. QED
    BY <2>1, BarrenStays
<1>3. ASSUME NEW w \in Workers, UpdateScan(w), job[w].scan = s,
             job[w].verdict = scan'[s].status
      PROVE  Barren(s)'
  <2>1. scan[s].status # "absent" /\ Barren(s)
    BY <1>1, <1>3 DEF OutcomeIInv, DecisionOK, Barren, Has, UpdateScan
  <2>2. QED
    BY <2>1, BarrenStays
<1>4. CASE \A t \in TasksOf(s) : task'[t].status \notin UnstartedStatuses
  BY <1>4 DEF Barren, TasksOf
<1>5. QED
  BY <1>1, <1>2, <1>3, <1>4, StatusStep

LEMMA OutcomeInit == Init => OutcomeIInv
<1> SUFFICES ASSUME Init PROVE OutcomeIInv
  OBVIOUS
<1>1. \A s \in Scans : scan[s].status = "absent"
  BY DEF Init, StoreInit, NoScan
<1>2. \A w \in Workers : pc[w] = "idle"
  BY DEF Init
<1>3. QED
  BY <1>1, <1>2 DEF OutcomeIInv, EndedScanIsSettled, DecisionOK

LEMMA OutcomeInvStep ==
  ExecutionIInv /\ StoreIInv /\ OutcomeIInv /\ [Next]_vars => OutcomeIInv'
<1> SUFFICES ASSUME ExecutionIInv, StoreIInv, OutcomeIInv, [Next]_vars PROVE OutcomeIInv'
  OBVIOUS
<1>1. CASE Next
  BY <1>1, EndedStep, DecisionsStep DEF OutcomeIInv
<1>2. CASE UNCHANGED vars
  BY <1>2 DEF vars, storeVars, memoryVars, OutcomeIInv, EndedScanIsSettled, DecisionOK, Has,
              TasksOf
<1>3. QED
  BY <1>1, <1>2

(* A verdict of failure is on its way to a scan row only when nothing of the
   scan can start any more, and the rows that have one keep it that way. *)
THEOREM OutcomeInvariance == Spec => []OutcomeIInv
<1>1. Spec => []StoreIInv
  BY ExecutionImplementsStore, StoreIInvariance, PTL
<1>2. QED
  BY <1>1, ExecutionInvariance, OutcomeInit, OutcomeInvStep, PTL DEF Spec

(* A scan that was stopped or has failed has no task left to claim or to
   unlock, whichever goroutine decided it from whatever counts, and whoever
   unlocks a stage of it meanwhile. *)
THEOREM EndedScansAreSettled == Spec => []EndedScanIsSettled
  BY OutcomeInvariance, PTL DEF OutcomeIInv

-----------------------------------------------------------------------------
(* Fencing.  Before a session serves, its handler has closed every lease an
   earlier session of the agent had in an active scan; no new one appears,
   because only the persisted session claims.                              *)

(* The agent has had this session, or is gone. *)
Passed(a, e) == agent[a].present => agent[a].epoch >= e

OldLease(t, a, e) ==
    /\ task[t].status = "running"
    /\ task[t].agent = a
    /\ task[t].epoch < e
    /\ Active(ScanOf[t])

SettlingLabels == {"commit", "reconcile", "unlock", "recalculate", "cancel", "update", "clear"}
AloneLabels == SettlingLabels \cup {"list", "ready", "serve", "heartbeat", "claim",
                                    "mark", "acknowledge", "unmark"}

Alone(a, e) == \A t \in Tasks : ~OldLease(t, a, e)

(* How far the fence of a control session has come. *)
Fenced(label, local) ==
    \/ label \in {"idle", "persist"}
    \/ /\ label \in {"attach", "fence", "disconnect"} \cup AloneLabels
       /\ Passed(local.agent, local.epoch)
       /\ label = "disconnect" =>
             /\ local.phase = "fence"
             /\ \A t \in Tasks : OldLease(t, local.agent, local.epoch) => ScanOf[t] \in local.scans
       /\ label \in SettlingLabels => local.phase \in SessionPhases
       /\ label \in AloneLabels => Alone(local.agent, local.epoch)

FenceIInv == \A w \in Streams : Fenced(pc[w], job[w])

LEMMA PassedStays ==
  ASSUME ExecutionIInv, StoreIInv, Next, NEW a \in Agents, NEW e \in Epochs, Passed(a, e)
  PROVE  /\ Passed(a, e)'
         /\ \A t \in Tasks : OldLease(t, a, e)' => OldLease(t, a, e)
<1>a. /\ StoreTypeOK /\ LeaseIntegrity /\ NothingBeforeCreation
      /\ \A t \in Tasks : ScanOf[t] \in Scans /\ task[t].epoch \in Int
      /\ agent[a].epoch \in Int /\ e \in Int
  BY WorkflowAssumption
     DEF StoreIInv, StoreInv, StoreTypeOK, TaskRow, AgentRow, Epochs
<1>b. agent'[a].epoch \in Int
  <2>1. StoreIInv'
    BY StepRefines, IInvStep
  <2>2. QED
    BY <2>1 DEF StoreIInv, StoreInv, StoreTypeOK, AgentRow, Epochs
<1>c. ASSUME NEW t \in Tasks, task[t].status = "running", Active(ScanOf[t])'
      PROVE  Active(ScanOf[t])
  <2>1. scan[ScanOf[t]].status # "absent"
    BY <1>a, <1>c DEF NothingBeforeCreation
  <2>2. QED
    BY <1>a, <1>c, <2>1, StatusStep
<1>1. CASE QuietStep
  <2>1. Passed(a, e)'
    BY <1>a, <1>b, <1>1 DEF QuietStep, Passed
  <2>2. ASSUME NEW t \in Tasks, OldLease(t, a, e)'
        PROVE  OldLease(t, a, e)
    <3>1. /\ task'[t].status = "running" /\ task'[t].agent = a /\ task'[t].epoch < e
          /\ Active(ScanOf[t])'
      BY <2>2 DEF OldLease
    <3>2. task[t].status = "running" /\ task[t].agent = a /\ task[t].epoch < e
      BY <1>1, <3>1 DEF QuietStep, LeaseUnchanged
    <3>3. QED
      BY <1>c, <3>1, <3>2 DEF OldLease
  <2>3. QED
    BY <2>1, <2>2
<1>2. ASSUME NEW b \in Agents, NEW f \in Epochs, NEW r \in Requests, NEW u \in Tasks,
             Claim(b, f, r, u)
      PROVE  /\ Passed(a, e)'
             /\ \A t \in Tasks : OldLease(t, a, e)' => OldLease(t, a, e)
  <2>1. /\ agent[b].present /\ agent[b].epoch = f /\ agent' = agent
        /\ task' = [task EXCEPT ![u] = [@ EXCEPT !.status = "running", !.agent = b,
                                                !.epoch = f, !.request = r]]
    BY <1>2 DEF Claim, SessionPersisted
  <2>2. /\ \A t \in Tasks \ {u} : task'[t] = task[t]
        /\ task'[u].agent = b /\ task'[u].epoch = f
    BY <1>a, <2>1 DEF StoreTypeOK, TaskRow
  <2>3. ASSUME NEW t \in Tasks, OldLease(t, a, e)'
        PROVE  OldLease(t, a, e)
    <3>1. /\ task'[t].status = "running" /\ task'[t].agent = a /\ task'[t].epoch < e
          /\ Active(ScanOf[t])'
      BY <2>3 DEF OldLease
    <3>2. t # u
      BY <1>a, <2>1, <2>2, <3>1 DEF Passed
    <3>3. task'[t] = task[t]
      BY <2>2, <3>2
    <3>4. QED
      BY <1>c, <3>1, <3>3 DEF OldLease
  <2>4. Passed(a, e)'
    BY <2>1 DEF Passed
  <2>5. QED
    BY <2>3, <2>4
<1>3. CASE UNCHANGED storeVars
  BY <1>3 DEF storeVars, Passed, OldLease, Active
<1>4. QED
  BY <1>a, <1>1, <1>2, <1>3, StepRefines, QuietTransactions

LEMMA FencedStays ==
  ASSUME ExecutionIInv, StoreIInv, Next, NEW label, NEW local, LocalOK(label, local),
         local.epoch \in Epochs, Fenced(label, local)
  PROVE  Fenced(label, local)'
<1>1. CASE label \in {"idle", "persist"}
  BY <1>1 DEF Fenced
<1>2. CASE label \notin {"idle", "persist"}
  <2> DEFINE a == local.agent
             e == local.epoch
  <2>1. a \in Agents /\ e \in Epochs
    BY <1>2 DEF Fenced, LocalOK, SessionLabels, SessionPhases, AloneLabels, SettlingLabels
  <2>2. Passed(a, e)
    BY <1>2 DEF Fenced
  <2>3. Passed(a, e)' /\ \A t \in Tasks : OldLease(t, a, e)' => OldLease(t, a, e)
    BY <2>1, <2>2, PassedStays
  <2>4. QED
    BY <1>2, <2>3 DEF Fenced, Alone
<1>3. QED
  BY <1>1, <1>2

FencedMove(w) == \E label, local : Goto(w, label, local) /\ Fenced(label, local)

(* A handler whose session is alone reconciles for that session, and stays
   alone, until its stream ends. *)
LEMMA ReconciliationIsFenced ==
  ASSUME HandlersOK, NEW w \in Workers, Fenced(pc[w], job[w]), Reconcile(w)
  PROVE  FencedMove(w)
<1> DEFINE a == job[w].agent
           e == job[w].epoch
<1>a. /\ job[w] \in JobRow
      /\ pc[w] \in SettlingLabels
  BY JobFacts
     DEF Reconcile, ReconcileNext, UnlockStage, CountTasks, CancelUnstarted, UpdateScan,
         ClearMarker, SettlingLabels
<1>b. Passed(a, e) /\ Alone(a, e) /\ job[w].phase \in SessionPhases
  BY <1>a DEF Fenced, AloneLabels, SettlingLabels
<1>c. ASSUME NEW label \in AloneLabels, NEW local, Goto(w, label, local),
             local.agent = a, local.epoch = e, local.phase \in SessionPhases
      PROVE  FencedMove(w)
  <2>1. Fenced(label, local)
    BY <1>b, <1>c DEF Fenced, AloneLabels, SettlingLabels
  <2>2. QED
    BY <1>c, <2>1 DEF FencedMove
<1>d. ASSUME NEW local \in JobRow, NEW S, Recalculate(w, local, S),
             local.agent = a, local.epoch = e, local.phase = job[w].phase
      PROVE  FencedMove(w)
  <2> DEFINE next == [local EXCEPT !.scans = S, !.scan = None, !.verdict = "none"]
             label == IF S = {} THEN AfterScans(local.phase) ELSE "recalculate"
  <2>1. Goto(w, label, next)
    BY <1>d DEF Recalculate
  <2>2. next.agent = a /\ next.epoch = e /\ next.phase \in SessionPhases
    BY <1>b, <1>d DEF JobRow
  <2>3. label \in AloneLabels
    BY <1>b, <1>d DEF AfterScans, SessionPhases, AloneLabels, SettlingLabels
  <2> HIDE DEF next, label
  <2>4. QED
    BY <1>c, <2>1, <2>2, <2>3
<1>1. CASE ReconcileNext(w)
  <2>1. PICK t \in job[w].tasks :
           \/ Goto(w, "unlock", [job[w] EXCEPT !.tasks = @ \ {t}, !.task = t])
           \/ Recalculate(w, [job[w] EXCEPT !.tasks = @ \ {t}, !.task = t], {ScanOf[t]})
    BY <1>1 DEF ReconcileNext
  <2> DEFINE local == [job[w] EXCEPT !.tasks = @ \ {t}, !.task = t]
  <2>2. local \in JobRow /\ local.agent = a /\ local.epoch = e /\ local.phase = job[w].phase
    BY <1>a DEF JobRow
  <2>3. Goto(w, "unlock", local) \/ Recalculate(w, local, {ScanOf[t]})
    BY <2>1
  <2>4. "unlock" \in AloneLabels
    BY DEF AloneLabels, SettlingLabels
  <2> HIDE DEF local
  <2>5. QED
    BY <1>b, <1>c, <1>d, <2>2, <2>3, <2>4
<1>2. CASE UnlockStage(w) \/ UpdateScan(w)
  <2>1. \E S : Recalculate(w, job[w], S)
    BY <1>2 DEF UnlockStage, UpdateScan
  <2>2. QED
    BY <1>a, <1>d, <2>1
<1>3. CASE CountTasks(w)
  <2>1. PICK s \in job[w].scans :
          \/ Recalculate(w, job[w], job[w].scans \ {s})
          \/ \E label \in {"update", "cancel"} :
                Goto(w, label, [job[w] EXCEPT !.scans = @ \ {s}, !.scan = s,
                                              !.verdict = ResolvedStatus(s)])
    BY <1>3 DEF CountTasks
  <2> DEFINE local == [job[w] EXCEPT !.scans = @ \ {s}, !.scan = s, !.verdict = ResolvedStatus(s)]
  <2>2. local.agent = a /\ local.epoch = e /\ local.phase = job[w].phase
    BY <1>a DEF JobRow
  <2>3. \/ Recalculate(w, job[w], job[w].scans \ {s})
        \/ \E label \in {"update", "cancel"} : Goto(w, label, local)
    BY <2>1
  <2>4. {"update", "cancel"} \subseteq AloneLabels
    BY DEF AloneLabels, SettlingLabels
  <2> HIDE DEF local
  <2>5. QED
    BY <1>a, <1>b, <1>c, <1>d, <2>2, <2>3, <2>4
<1>4. CASE CancelUnstarted(w)
  <2>1. Goto(w, "update", job[w]) /\ "update" \in AloneLabels
    BY <1>4 DEF CancelUnstarted, AloneLabels, SettlingLabels
  <2>2. QED
    BY <1>b, <1>c, <2>1
<1>5. CASE ClearMarker(w)
  <2>1. CASE job[w].phase = "report"
    <3>1. Goto(w, "mark", job[w]) /\ "mark" \in AloneLabels
      BY <1>5, <2>1 DEF ClearMarker, AloneLabels
    <3>2. QED
      BY <1>b, <1>c, <3>1
  <2>2. CASE job[w].phase # "report"
    <3> DEFINE local == [job[w] EXCEPT !.tasks = job[w].tasks, !.task = None, !.scans = {},
                                       !.scan = None, !.verdict = "none"]
    <3>1. local.agent = a /\ local.epoch = e /\ local.phase = job[w].phase
      BY <1>a DEF JobRow
    <3>2. \/ Goto(w, "reconcile", local) \/ Goto(w, "list", local)
          \/ Goto(w, "idle", NoJob)
      BY <1>5, <1>b, <2>2, <3>1 DEF ClearMarker, NextTask, SessionPhases
    <3>3. {"reconcile", "list"} \subseteq AloneLabels
      BY DEF AloneLabels, SettlingLabels
    <3> HIDE DEF local
    <3>4. Goto(w, "idle", NoJob) => FencedMove(w)
      BY DEF FencedMove, Fenced
    <3>5. QED
      BY <1>b, <1>c, <3>1, <3>2, <3>3, <3>4
  <2>3. QED
    BY <2>1, <2>2
<1>6. QED
  BY <1>1, <1>2, <1>3, <1>4, <1>5 DEF Reconcile

(* FenceSupersededAgentSession selects the scan of every lease it has to close. *)
LEMMA FenceSelects ==
  ASSUME ExecutionIInv, StoreIInv, NEW w \in Workers, Fenced(pc[w], job[w]), Fence(w)
  PROVE  FencedMove(w)
<1> DEFINE a == job[w].agent
           e == job[w].epoch
           S == SupersededScans(a, e)
           local == [job[w] EXCEPT !.phase = "fence"]
<1>a. /\ pc[w] = "fence" /\ SelectScans(w, local, S)
      /\ job[w] \in JobRow /\ Passed(a, e)
  BY JobFacts DEF ExecutionIInv, Fence, Fenced
<1>b. local \in JobRow /\ local.agent = a /\ local.epoch = e /\ local.phase = "fence"
  BY <1>a DEF JobRow, Phases
<1>1. ASSUME NEW t \in Tasks, OldLease(t, a, e)
      PROVE  ScanOf[t] \in S
  <2>1. /\ task[t].status = "running" /\ task[t].agent = a /\ task[t].epoch < e
        /\ Active(ScanOf[t]) /\ ScanOf[t] \in Scans /\ t \in TasksOf(ScanOf[t])
    BY <1>1, WorkflowAssumption DEF OldLease, TasksOf
  <2>2. LeaseIntegrity
    BY DEF StoreIInv, StoreInv
  <2>3. task[t].epoch > 0 /\ scan[ScanOf[t]].agent = a
    BY <2>1, <2>2 DEF LeaseIntegrity, Leased
  <2>4. scan[ScanOf[t]].status \notin {"failed", "cancelled"}
    BY <2>1 DEF Active, ActiveScanStatuses
  <2> HIDE DEF a, e, local
  <2>5. QED
    BY <2>1, <2>3, <2>4 DEF SupersededScans, LeasedBefore
<1> HIDE DEF local, S
<1>2. CASE S = {}
  <2> DEFINE next == [local EXCEPT !.scans = {}, !.scan = None, !.verdict = "none"]
  <2>1. Recalculate(w, local, {})
    BY <1>a, <1>2 DEF SelectScans
  <2>2. Goto(w, "list", next)
    BY <1>b, <2>1 DEF Recalculate, AfterScans
  <2>3. next.agent = a /\ next.epoch = e
    BY <1>b DEF JobRow
  <2>4. Alone(a, e)
    BY <1>1, <1>2 DEF Alone
  <2> HIDE DEF next
  <2>5. Fenced("list", next)
    BY <1>a, <2>3, <2>4 DEF Fenced, AloneLabels, SettlingLabels
  <2>6. QED
    BY <2>2, <2>5 DEF FencedMove
<1>3. CASE S # {}
  <2> DEFINE next == [local EXCEPT !.scans = S]
  <2>1. Goto(w, "disconnect", next)
    BY <1>a, <1>3 DEF SelectScans
  <2>2. next.agent = a /\ next.epoch = e /\ next.phase = "fence" /\ next.scans = S
    BY <1>b DEF JobRow
  <2> HIDE DEF next
  <2>3. Fenced("disconnect", next)
    BY <1>a, <1>1, <2>2 DEF Fenced, AloneLabels, SettlingLabels
  <2>4. QED
    BY <2>1, <2>3 DEF FencedMove
<1>4. QED
  BY <1>2, <1>3

LEMMA SessionIsFenced ==
  ASSUME HandlersOK, NEW w \in Workers, Fenced(pc[w], job[w]),
         \/ AttachSnapshot(w) \/ ListSuperseded(w) \/ BecomeReady(w) \/ RecordHeartbeat(w)
         \/ AssignNothing(w) \/ \E r \in Requests, t \in Tasks : ClaimTask(w, r, t)
         \/ CommitResult(w) \/ MarkUnacknowledged(w) \/ Acknowledge(w)
         \/ ClearAcknowledged(w) \/ Reject(w) \/ BreakHandler(w) \/ ClientMessage(w)
  PROVE  FencedMove(w) \/ UNCHANGED <<pc, job>>
<1> DEFINE a == job[w].agent
           e == job[w].epoch
<1>a. job[w] \in JobRow
  BY JobFacts
<1>b. pc[w] \in AloneLabels =>
         /\ Passed(a, e) /\ Alone(a, e)
         /\ pc[w] \in SettlingLabels => job[w].phase \in SessionPhases
  BY DEF Fenced, AloneLabels, SettlingLabels
<1>c. ASSUME NEW label \in AloneLabels, NEW local, Goto(w, label, local), pc[w] \in AloneLabels,
             local.agent = a, local.epoch = e,
             label \in SettlingLabels => local.phase \in SessionPhases
      PROVE  FencedMove(w)
  <2>1. Fenced(label, local)
    BY <1>b, <1>c DEF Fenced, AloneLabels, SettlingLabels
  <2>2. QED
    BY <1>c, <2>1 DEF FencedMove
<1>d. Goto(w, "idle", NoJob) => FencedMove(w)
  BY DEF FencedMove, Fenced
<1>1. CASE ListSuperseded(w)
  <2>1. PICK T : Goto(w, IF T = {} THEN "ready" ELSE "reconcile",
                      [job[w] EXCEPT !.phase = "drain", !.tasks = T])
    BY <1>1 DEF ListSuperseded
  <2> DEFINE local == [job[w] EXCEPT !.phase = "drain", !.tasks = T]
  <2>2. local.agent = a /\ local.epoch = e /\ local.phase = "drain"
    BY <1>a DEF JobRow
  <2>3. Goto(w, "ready", local) \/ Goto(w, "reconcile", local)
    BY <2>1
  <2>4. /\ {pc[w], "ready", "reconcile"} \subseteq AloneLabels
        /\ "drain" \in SessionPhases
    BY <1>1 DEF ListSuperseded, AloneLabels, SettlingLabels, SessionPhases
  <2> HIDE DEF local
  <2>5. QED
    BY <1>c, <2>2, <2>3, <2>4
<1>2. CASE BecomeReady(w) \/ ClearAcknowledged(w)
  <2> DEFINE local == [NoJob EXCEPT !.agent = a, !.epoch = e]
  <2>1. Goto(w, "serve", local) /\ pc[w] \in AloneLabels /\ "serve" \in AloneLabels
    BY <1>2 DEF BecomeReady, ClearAcknowledged, AloneLabels
  <2>2. local.agent = a /\ local.epoch = e
    BY DEF NoJob
  <2> HIDE DEF local
  <2>3. QED
    BY <1>c, <2>1, <2>2 DEF SettlingLabels
<1>3. CASE CommitResult(w)
  <2> DEFINE local == [job[w] EXCEPT !.result = "none"]
  <2>1. Goto(w, "reconcile", local) /\ pc[w] = "commit"
    BY <1>3 DEF CommitResult, Committed, AlreadyCommitted
  <2>2. local.agent = a /\ local.epoch = e /\ local.phase = job[w].phase
    BY <1>a DEF JobRow
  <2> HIDE DEF local
  <2>3. QED
    BY <1>b, <1>c, <2>1, <2>2 DEF AloneLabels, SettlingLabels
<1>4. CASE MarkUnacknowledged(w) \/ Acknowledge(w)
  <2>1. PICK label \in {"acknowledge", "unmark"} :
           Goto(w, label, job[w]) /\ pc[w] \in {"mark", "acknowledge"}
    BY <1>4 DEF MarkUnacknowledged, Acknowledge
  <2>2. QED
    BY <1>c, <2>1 DEF AloneLabels, SettlingLabels
<1>5. CASE Reject(w) \/ BreakHandler(w) \/ CloseStream(w)
  BY <1>d, <1>5 DEF Reject, BreakHandler, CloseStream, EndStream
<1>6. CASE \E b \in Agents, f \in Epochs : RegisterSession(w, b, f)
  BY <1>6 DEF RegisterSession, FencedMove, Fenced
<1>7. ASSUME NEW t \in Tasks, NEW result \in AgentResults, ReportResult(w, t, result)
      PROVE  FencedMove(w)
  <2> DEFINE first == [job[w] EXCEPT !.phase = "report", !.tasks = {t}, !.result = result]
             again == [job[w] EXCEPT !.phase = "report", !.tasks = {t}]
  <2>1. Goto(w, "commit", first) \/ Goto(w, "reconcile", again)
    BY <1>7 DEF ReportResult
  <2>2. /\ first.agent = a /\ first.epoch = e /\ first.phase = "report"
        /\ again.agent = a /\ again.epoch = e /\ again.phase = "report"
    BY <1>a DEF JobRow
  <2>3. /\ {pc[w], "commit", "reconcile"} \subseteq AloneLabels
        /\ "report" \in SessionPhases
    BY <1>7 DEF ReportResult, AloneLabels, SettlingLabels, SessionPhases
  <2> HIDE DEF first, again
  <2>4. QED
    BY <1>c, <2>1, <2>2, <2>3
<1>8. CASE \/ Heartbeat(w) \/ RequestTask(w) \/ RecordHeartbeat(w) \/ AssignNothing(w)
           \/ \E r \in Requests, t \in Tasks : ClaimTask(w, r, t)
  <2>1. PICK label \in {"heartbeat", "claim", "serve"} :
           Goto(w, label, job[w]) /\ pc[w] \in {"serve", "heartbeat", "claim"}
    BY <1>8 DEF Heartbeat, RequestTask, Serve, RecordHeartbeat, AssignNothing, ClaimTask
  <2>2. QED
    BY <1>c, <2>1 DEF AloneLabels, SettlingLabels
<1>9. CASE AttachSnapshot(w)
  <2>1. Goto(w, "fence", job[w]) /\ pc[w] = "attach"
    BY <1>9 DEF AttachSnapshot
  <2>2. Fenced("fence", job[w])
    BY <2>1 DEF Fenced, AloneLabels, SettlingLabels
  <2>3. QED
    BY <2>1, <2>2 DEF FencedMove
<1>10. QED
  BY <1>1, <1>2, <1>3, <1>4, <1>5, <1>6, <1>7, <1>8, <1>9 DEF ClientMessage

(* The heartbeat upsert of the registration makes the session the agent's. *)
LEMMA PersistPasses ==
  ASSUME ExecutionIInv, NEW w \in Workers, PersistSession(w)
  PROVE  Fenced(pc[w], job[w])'
<1>a. HandlersOK /\ StoreTypeOK
  BY DEF ExecutionIInv, ExecutionTypeOK
<1>1. /\ job[w].agent \in Agents /\ job[w].epoch \in Epochs
      /\ UpdateHeartbeat(job[w].agent, job[w].epoch)
      /\ pc'[w] = "attach" /\ job'[w] = job[w]
  BY <1>a, JobFacts DEF PersistSession, SessionLabels, Goto, HandlersOK
<1>2. agent'[job[w].agent].epoch = job[w].epoch
  BY <1>a, <1>1 DEF UpdateHeartbeat, StoreTypeOK
<1>3. job[w].epoch >= job[w].epoch
  BY <1>1 DEF Epochs
<1>4. QED
  BY <1>1, <1>2, <1>3 DEF Fenced, Passed, AloneLabels, SettlingLabels

(* The transaction that fails the tasks of the selected scans leaves no old
   lease. *)
LEMMA FailingLeavesNone ==
  ASSUME ExecutionIInv, StoreIInv, Next, NEW w \in Workers, Fenced(pc[w], job[w]),
         FailSelected(w)
  PROVE  Fenced(pc[w], job[w])'
<1>0. PICK a, e, S, next :
         /\ a = job[w].agent /\ e = job[w].epoch /\ S = job[w].scans
         /\ next = [job[w] EXCEPT !.scans = job[w].scans, !.scan = None, !.verdict = "none"]
  OBVIOUS
<1>a. /\ HandlersOK /\ job[w] \in JobRow /\ pc[w] = "disconnect"
      /\ \A t \in Tasks : task[t] \in TaskRow
  BY JobFacts DEF ExecutionIInv, ExecutionTypeOK, StoreTypeOK, FailSelected
<1>b. /\ job[w].phase = "fence" /\ Passed(a, e)
      /\ \A t \in Tasks : OldLease(t, a, e) => ScanOf[t] \in S
      /\ a \in Agents /\ e \in Epochs
  BY <1>0, <1>a, JobFacts DEF Fenced, AloneLabels, SettlingLabels, SessionPhases
<1>1. /\ FailTasksForSupersededSession(a, e, S)
      /\ Goto(w, IF S = {} THEN "list" ELSE "recalculate", next)
  BY <1>0, <1>b DEF FailSelected, Recalculate, AfterScans
<1>2. next.agent = a /\ next.epoch = e /\ next.phase = "fence"
  BY <1>0, <1>a, <1>b DEF JobRow
<1>3. Passed(a, e)' /\ \A t \in Tasks : OldLease(t, a, e)' => OldLease(t, a, e)
  BY <1>b, PassedStays
<1>4. ASSUME NEW t \in Tasks, OldLease(t, a, e)'
      PROVE  FALSE
  <2>1. OldLease(t, a, e) /\ ScanOf[t] \in S
    BY <1>b, <1>3, <1>4
  <2>2. LeasedBefore(t, e) /\ t \in RunningIn(S)
    <3>1. LeaseIntegrity
      BY DEF StoreIInv, StoreInv
    <3>2. task[t].epoch > 0
      BY <2>1, <3>1 DEF LeaseIntegrity, Leased, OldLease
    <3>3. QED
      BY <2>1, <3>2 DEF LeasedBefore, RunningIn, OldLease
  <2>3. task'[t].status = "failed"
    BY <1>a, <1>1, <2>2 DEF FailTasksForSupersededSession, Disconnect, TaskRow
  <2>4. QED
    BY <1>4, <2>3 DEF OldLease
<1>5. job'[w] = next /\ pc'[w] \in {"list", "recalculate"}
  BY <1>a, <1>1 DEF Goto, HandlersOK
<1>6. QED
  BY <1>2, <1>3, <1>4, <1>5 DEF Fenced, Alone, AloneLabels, SettlingLabels, SessionPhases

LEMMA StreamsStayFenced ==
  ASSUME ExecutionIInv, StoreIInv, FenceIInv, Next, NEW w \in Streams
  PROVE  Fenced(pc[w], job[w])'
<1>a. HandlersOK /\ HandlersOK' /\ w \in Workers /\ w \notin Monitors /\ Fenced(pc[w], job[w])
  BY HandlersStep, WorkersAssumption DEF ExecutionIInv, FenceIInv, Workers
<1>1. ASSUME NEW label, NEW local, pc'[w] = label, job'[w] = local, Fenced(label, local)
      PROVE  Fenced(pc[w], job[w])'
  <2>1. LocalOK(label, local) /\ local.epoch \in Epochs
    BY <1>a, <1>1 DEF HandlersOK, JobRow
  <2>2. Fenced(label, local)'
    BY <1>1, <2>1, FencedStays
  <2>3. QED
    BY <1>1, <2>2 DEF Fenced
<1>2. CASE pc'[w] = pc[w] /\ job'[w] = job[w]
  BY <1>a, <1>1, <1>2
<1>3. CASE FencedMove(w)
  <2>1. PICK label, local : Goto(w, label, local) /\ Fenced(label, local)
    BY <1>3 DEF FencedMove
  <2>2. pc'[w] = label /\ job'[w] = local
    BY <1>a, <2>1 DEF Goto, HandlersOK
  <2>3. QED
    BY <1>1, <2>1, <2>2
<1>4. CASE Restart
  BY <1>a, <1>4 DEF Restart, Fenced
<1>5. CASE StreamStep(w)
  <2>1. CASE PersistSession(w)
    BY <1>a, <2>1, PersistPasses
  <2>2. CASE FailSelected(w)
    BY <1>a, <2>2, FailingLeavesNone
  <2>3. CASE ~PersistSession(w) /\ ~FailSelected(w)
    <3>1. FencedMove(w) \/ UNCHANGED <<pc, job>>
      BY <1>a, <1>5, <2>3, ReconciliationIsFenced, FenceSelects, SessionIsFenced
         DEF StreamStep, StreamWork
    <3>2. QED
      BY <1>2, <1>3, <3>1
  <2>4. QED
    BY <2>1, <2>2, <2>3
<1>6. QED
  BY <1>a, <1>2, <1>4, <1>5, WhoMoves

LEMMA FenceInit == Init => FenceIInv
  BY DEF Init, FenceIInv, Fenced, Workers

LEMMA FenceStep ==
  ExecutionIInv /\ StoreIInv /\ FenceIInv /\ [Next]_vars => FenceIInv'
<1> SUFFICES ASSUME ExecutionIInv, StoreIInv, FenceIInv, [Next]_vars PROVE FenceIInv'
  OBVIOUS
<1>1. CASE Next
  BY <1>1, StreamsStayFenced DEF FenceIInv
<1>2. CASE UNCHANGED vars
  BY <1>2 DEF vars, storeVars, memoryVars, FenceIInv, Fenced, Passed, Alone, OldLease, Active
<1>3. QED
  BY <1>1, <1>2

(* At every step of a registration, the handler has in hand, or has closed,
   each lease of an earlier session, and what it has closed stays closed. *)
THEOREM FenceInvariance == Spec => []FenceIInv
<1>1. Spec => []StoreIInv
  BY ExecutionImplementsStore, StoreIInvariance, PTL
<1>2. QED
  BY <1>1, ExecutionInvariance, FenceInit, FenceStep, PTL DEF Spec

(* When a session is ready, every lease that an earlier session of its agent
   had in an active scan is closed, although the fence selects the scans in
   one transaction and fails their tasks in a later one, and whatever the old
   session, the monitor and the operator do between the two. *)
THEOREM ReadySessionsAreAlone == Spec => []ReadySessionIsAlone
<1>1. ASSUME ExecutionIInv, FenceIInv
      PROVE  ReadySessionIsAlone
  <2>1. SUFFICES ASSUME NEW w \in Streams, NEW t \in Tasks, pc[w] \in {"ready", "serve"},
                        task[t].status = "running", task[t].agent = job[w].agent,
                        Active(ScanOf[t])
                 PROVE  task[t].epoch >= job[w].epoch
    BY DEF ReadySessionIsAlone
  <2>2. ~OldLease(t, job[w].agent, job[w].epoch)
    BY <1>1, <2>1 DEF FenceIInv, Fenced, Alone, AloneLabels
  <2>3. task[t].epoch \in Int /\ job[w].epoch \in Int
    BY <1>1, <2>1, JobFacts
       DEF ExecutionIInv, ExecutionTypeOK, StoreTypeOK, TaskRow, Epochs, Workers
  <2>4. QED
    BY <2>1, <2>2, <2>3 DEF OldLease
<1>2. QED
  BY <1>1, ExecutionInvariance, FenceInvariance, PTL

-----------------------------------------------------------------------------
(* Convergence.  What a goroutine reconciles is over, and it recalculates the
   scan of the task it has in hand.                                        *)

Over(t) == task[t].status \in AgentResults

(* The goroutine reconciles a task, as opposed to recovering leases. *)
HasTask(label, local) ==
    label \in TaskLabels \/ (label \in ScanLabels /\ local.phase \notin RecoveryPhases)

InHand(label, local) ==
    /\ label = "commit" => \E t \in Tasks : local.tasks = {t}
    /\ label # "commit" => \A t \in local.tasks : Over(t)
    /\ HasTask(label, local) =>
          /\ Over(local.task)
          /\ label = "recalculate" => local.scans = {ScanOf[local.task]}
          /\ label \in {"cancel", "update"} =>
                local.scan = ScanOf[local.task] /\ local.scans = {}

TasksInHand == \A w \in Workers : InHand(pc[w], job[w])

LEMMA OverStays ==
  ASSUME ExecutionIInv, StoreIInv, Next, NEW t \in Tasks, Over(t)
  PROVE  Over(t)'
<1>1. [StoreNext]_storeVars
  BY StepRefines
<1>2. CASE StoreNext
  <2>1. OutcomeKept
    BY <1>2, OutcomeStep
  <2>2. QED
    BY <2>1 DEF OutcomeKept, Over, TerminalTaskStatuses
<1>3. CASE UNCHANGED storeVars
  BY <1>3 DEF storeVars, Over
<1>4. QED
  BY <1>1, <1>2, <1>3

LEMMA InHandStays ==
  ASSUME ExecutionIInv, StoreIInv, Next, NEW label, NEW local, local \in JobRow,
         LocalOK(label, local), InHand(label, local)
  PROVE  InHand(label, local)'
<1>1. \A t \in local.tasks : t \in Tasks
  BY DEF JobRow
<1>2. HasTask(label, local) => local.task \in Tasks
  BY DEF HasTask, LocalOK
<1>3. QED
  BY <1>1, <1>2, OverStays DEF InHand, HasTask

InHandMove(w) == \E label, local : Goto(w, label, local) /\ InHand(label, local)

LEMMA PlainInHand ==
  ASSUME NEW w, NEW label, NEW local, Goto(w, label, local),
         label \notin {"commit"} \cup TaskLabels \cup ScanLabels,
         \A t \in local.tasks : Over(t)
  PROVE  InHandMove(w)
  BY DEF InHandMove, InHand, HasTask

LEMMA RecalculationInHand ==
  ASSUME NEW w, NEW local \in JobRow, NEW S, Recalculate(w, local, S),
         \A t \in local.tasks : Over(t),
         \/ local.phase \in RecoveryPhases
         \/ Over(local.task) /\ S \in {{}, {ScanOf[local.task]}}
  PROVE  InHandMove(w)
<1> DEFINE next == [local EXCEPT !.scans = S, !.scan = None, !.verdict = "none"]
           label == IF S = {} THEN AfterScans(local.phase) ELSE "recalculate"
<1>1. Goto(w, label, next)
  BY DEF Recalculate
<1>2. /\ next.tasks = local.tasks /\ next.task = local.task /\ next.scans = S
      /\ next.phase = local.phase
  BY DEF JobRow
<1>3. /\ S # {} => label = "recalculate"
      /\ S = {} => \/ label \in {"list", "mark offline", "keep online", "sessions"}
                   \/ label = "clear" /\ local.phase \notin RecoveryPhases
  BY DEF AfterScans, RecoveryPhases
<1> HIDE DEF next, label
<1>4. InHand(label, next)
  BY <1>2, <1>3 DEF InHand, HasTask, TaskLabels, ScanLabels
<1>5. QED
  BY <1>1, <1>4 DEF InHandMove

LEMMA SelectionInHand ==
  ASSUME NEW w, NEW local \in JobRow, NEW S, SelectScans(w, local, S),
         \A t \in local.tasks : Over(t), local.phase \in RecoveryPhases
  PROVE  InHandMove(w)
<1>1. CASE S = {}
  <2>1. Recalculate(w, local, {})
    BY <1>1 DEF SelectScans
  <2>2. QED
    BY <2>1, RecalculationInHand
<1>2. CASE S # {}
  <2>1. Goto(w, "disconnect", [local EXCEPT !.scans = S])
    BY <1>2 DEF SelectScans
  <2>2. [local EXCEPT !.scans = S].tasks = local.tasks
    BY DEF JobRow
  <2>3. QED
    BY <2>1, <2>2, PlainInHand DEF TaskLabels, ScanLabels
<1>3. QED
  BY <1>1, <1>2

LEMMA NextTaskInHand ==
  ASSUME NEW w, job[w] \in JobRow, NEW T, NextTask(w, T), \A t \in T : Over(t)
  PROVE  InHandMove(w)
<1> DEFINE local == [job[w] EXCEPT !.tasks = T, !.task = None, !.scans = {},
                                   !.scan = None, !.verdict = "none"]
<1>1. local.tasks = T /\ NoJob.tasks = {}
  BY DEF JobRow, NoJob
<1>2. \/ \E label \in {"reconcile", "list", "stale"} : Goto(w, label, local)
      \/ Goto(w, "idle", NoJob)
  BY DEF NextTask
<1> HIDE DEF local
<1>3. QED
  BY <1>1, <1>2, PlainInHand DEF TaskLabels, ScanLabels

LEMMA ReconciliationInHand ==
  ASSUME HandlersOK, NEW w \in Workers, InHand(pc[w], job[w]), Reconcile(w)
  PROVE  InHandMove(w)
<1>a. /\ job[w] \in JobRow /\ LocalOK(pc[w], job[w])
      /\ pc[w] # "commit" /\ \A t \in job[w].tasks : Over(t)
  BY JobFacts
     DEF Reconcile, ReconcileNext, UnlockStage, CountTasks, CancelUnstarted, UpdateScan,
         ClearMarker, InHand
<1>b. pc[w] \in ScanLabels => \/ job[w].phase \in RecoveryPhases
                              \/ HasTask(pc[w], job[w]) /\ Over(job[w].task)
  BY DEF HasTask, InHand
<1>1. CASE ReconcileNext(w)
  <2>1. PICK t \in job[w].tasks :
           \/ Goto(w, "unlock", [job[w] EXCEPT !.tasks = @ \ {t}, !.task = t])
           \/ Recalculate(w, [job[w] EXCEPT !.tasks = @ \ {t}, !.task = t], {ScanOf[t]})
    BY <1>1 DEF ReconcileNext
  <2> DEFINE local == [job[w] EXCEPT !.tasks = @ \ {t}, !.task = t]
  <2>2. local \in JobRow /\ local.tasks \subseteq job[w].tasks /\ local.task = t /\ Over(t)
    BY <1>a DEF JobRow
  <2>3. Goto(w, "unlock", local) \/ Recalculate(w, local, {ScanOf[t]})
    BY <2>1
  <2> HIDE DEF local
  <2>4. InHand("unlock", local)
    BY <1>a, <2>2 DEF InHand
  <2>5. CASE Recalculate(w, local, {ScanOf[t]})
    BY <1>a, <2>2, <2>5, RecalculationInHand
  <2>6. QED
    BY <2>3, <2>4, <2>5 DEF InHandMove
<1>2. CASE UnlockStage(w)
  <2>1. Recalculate(w, job[w], {ScanOf[job[w].task]}) /\ Over(job[w].task)
    BY <1>2 DEF UnlockStage, InHand, HasTask, TaskLabels
  <2>2. QED
    BY <1>a, <2>1, RecalculationInHand
<1>3. CASE CountTasks(w)
  <2>1. PICK s \in job[w].scans :
          \/ Recalculate(w, job[w], job[w].scans \ {s})
          \/ \E label \in {"update", "cancel"} :
                Goto(w, label, [job[w] EXCEPT !.scans = @ \ {s}, !.scan = s,
                                              !.verdict = ResolvedStatus(s)])
    BY <1>3 DEF CountTasks
  <2>2. pc[w] = "recalculate" /\ pc[w] \in ScanLabels
    BY <1>3 DEF CountTasks, ScanLabels
  <2>3. HasTask(pc[w], job[w]) => /\ job[w].scans = {ScanOf[job[w].task]}
                                  /\ s = ScanOf[job[w].task] /\ job[w].scans \ {s} = {}
    BY <2>2 DEF InHand
  <2>4. CASE Recalculate(w, job[w], job[w].scans \ {s})
    BY <1>a, <1>b, <2>2, <2>3, <2>4, RecalculationInHand
  <2>5. ASSUME NEW label \in {"update", "cancel"},
               Goto(w, label, [job[w] EXCEPT !.scans = @ \ {s}, !.scan = s,
                                             !.verdict = ResolvedStatus(s)])
        PROVE  InHandMove(w)
    <3> DEFINE local == [job[w] EXCEPT !.scans = @ \ {s}, !.scan = s,
                                       !.verdict = ResolvedStatus(s)]
    <3>1. /\ local.tasks = job[w].tasks /\ local.task = job[w].task
          /\ local.phase = job[w].phase /\ local.scan = s /\ local.scans = job[w].scans \ {s}
      BY <1>a DEF JobRow
    <3>2. Goto(w, label, local)
      BY <2>5
    <3> HIDE DEF local
    <3>3. InHand(label, local)
      BY <1>a, <1>b, <2>2, <2>3, <3>1 DEF InHand, HasTask, TaskLabels, ScanLabels
    <3>4. QED
      BY <3>2, <3>3 DEF InHandMove
  <2>6. QED
    BY <2>1, <2>4, <2>5
<1>4. CASE CancelUnstarted(w)
  <2>1. Goto(w, "update", job[w]) /\ pc[w] = "cancel"
    BY <1>4 DEF CancelUnstarted
  <2>2. InHand("update", job[w])
    BY <2>1 DEF InHand, HasTask, TaskLabels, ScanLabels
  <2>3. QED
    BY <2>1, <2>2 DEF InHandMove
<1>5. CASE UpdateScan(w)
  <2>1. Recalculate(w, job[w], job[w].scans) /\ pc[w] = "update" /\ pc[w] \in ScanLabels
    BY <1>5 DEF UpdateScan, ScanLabels
  <2>2. HasTask(pc[w], job[w]) => job[w].scans = {}
    BY <2>1 DEF InHand
  <2>3. QED
    BY <1>a, <1>b, <2>1, <2>2, RecalculationInHand
<1>6. CASE ClearMarker(w)
  <2>1. CASE job[w].phase = "report"
    <3>1. Goto(w, "mark", job[w]) /\ pc[w] = "clear"
      BY <1>6, <2>1 DEF ClearMarker
    <3>2. InHand("mark", job[w])
      BY <1>a, <3>1 DEF InHand, HasTask, TaskLabels, ScanLabels
    <3>3. QED
      BY <3>1, <3>2 DEF InHandMove
  <2>2. CASE job[w].phase # "report"
    BY <1>a, <1>6, <2>2, NextTaskInHand DEF ClearMarker
  <2>3. QED
    BY <2>1, <2>2
<1>7. QED
  BY <1>1, <1>2, <1>3, <1>4, <1>5, <1>6 DEF Reconcile

LEMMA FailingInHand ==
  ASSUME HandlersOK, NEW w \in Workers, InHand(pc[w], job[w]), FailSelected(w)
  PROVE  InHandMove(w)
<1>1. /\ job[w] \in JobRow /\ Recalculate(w, job[w], job[w].scans)
      /\ job[w].phase \in RecoveryPhases /\ \A t \in job[w].tasks : Over(t)
  BY JobFacts DEF FailSelected, LocalOK, RecoveryPhases, InHand
<1>2. QED
  BY <1>1, RecalculationInHand

LEMMA StreamInHand ==
  ASSUME HandlersOK, StoreTypeOK, NEW w \in Workers, InHand(pc[w], job[w]),
         \/ PersistSession(w) \/ AttachSnapshot(w) \/ Fence(w) \/ ListSuperseded(w)
         \/ BecomeReady(w) \/ RecordHeartbeat(w) \/ AssignNothing(w)
         \/ \E r \in Requests, t \in Tasks : ClaimTask(w, r, t)
         \/ MarkUnacknowledged(w) \/ Acknowledge(w) \/ ClearAcknowledged(w)
         \/ Reject(w) \/ BreakHandler(w) \/ ClientMessage(w)
  PROVE  InHandMove(w) \/ UNCHANGED <<pc, job>>
<1>a. job[w] \in JobRow /\ LocalOK(pc[w], job[w])
  BY JobFacts
<1>b. pc[w] # "commit" => \A t \in job[w].tasks : Over(t)
  BY DEF InHand
<1>c. NoJob.tasks = {} /\ \A a, e : [NoJob EXCEPT !.agent = a, !.epoch = e].tasks = {}
  BY DEF NoJob
<1> USE DEF TaskLabels, ScanLabels
<1>1. CASE \/ PersistSession(w) \/ AttachSnapshot(w) \/ RecordHeartbeat(w) \/ AssignNothing(w)
           \/ Heartbeat(w) \/ RequestTask(w)
           \/ \E r \in Requests, t \in Tasks : ClaimTask(w, r, t)
  <2>1. PICK label \in {"attach", "fence", "serve", "heartbeat", "claim"} :
           Goto(w, label, job[w]) /\ pc[w] # "commit"
    BY <1>1 DEF PersistSession, AttachSnapshot, RecordHeartbeat, AssignNothing, Heartbeat,
                RequestTask, Serve, ClaimTask
  <2>2. QED
    BY <1>b, <2>1, PlainInHand
<1>2. CASE Fence(w)
  <2> DEFINE local == [job[w] EXCEPT !.phase = "fence"]
             S == SupersededScans(job[w].agent, job[w].epoch)
  <2>1. SelectScans(w, local, S) /\ pc[w] = "fence"
    BY <1>2 DEF Fence
  <2>2. local \in JobRow /\ local.phase = "fence" /\ local.tasks = job[w].tasks
    BY <1>a DEF JobRow, Phases
  <2> HIDE DEF local, S
  <2>3. QED
    BY <1>b, <2>1, <2>2, SelectionInHand DEF RecoveryPhases
<1>3. CASE ListSuperseded(w)
  <2>1. PICK T \in SUBSET PendingReconciliation :
           Goto(w, IF T = {} THEN "ready" ELSE "reconcile",
                [job[w] EXCEPT !.phase = "drain", !.tasks = T])
    BY <1>3 DEF ListSuperseded
  <2> DEFINE local == [job[w] EXCEPT !.phase = "drain", !.tasks = T]
  <2>2. local.tasks = T /\ \A t \in T : Over(t)
    BY <1>a DEF JobRow, PendingReconciliation, Over
  <2>3. Goto(w, "ready", local) \/ Goto(w, "reconcile", local)
    BY <2>1
  <2> HIDE DEF local
  <2>4. QED
    BY <2>2, <2>3, PlainInHand
<1>4. CASE BecomeReady(w) \/ ClearAcknowledged(w)
  <2> DEFINE local == [NoJob EXCEPT !.agent = job[w].agent, !.epoch = job[w].epoch]
  <2>1. Goto(w, "serve", local) /\ local.tasks = {}
    BY <1>c, <1>4 DEF BecomeReady, ClearAcknowledged
  <2> HIDE DEF local
  <2>2. QED
    BY <2>1, PlainInHand
<1>5. CASE MarkUnacknowledged(w) \/ Acknowledge(w)
  <2>1. PICK label \in {"acknowledge", "unmark"} :
           Goto(w, label, job[w]) /\ pc[w] \in {"mark", "acknowledge"}
    BY <1>5 DEF MarkUnacknowledged, Acknowledge
  <2>2. InHand(label, job[w])
    BY <1>b, <2>1 DEF InHand, HasTask
  <2>3. QED
    BY <2>1, <2>2 DEF InHandMove
<1>6. CASE Reject(w) \/ BreakHandler(w) \/ CloseStream(w)
  BY <1>c, <1>6, PlainInHand DEF Reject, BreakHandler, CloseStream, EndStream
<1>7. ASSUME NEW a \in Agents, NEW e \in Epochs, RegisterSession(w, a, e)
      PROVE  InHandMove(w)
  <2>1. Goto(w, "persist", [NoJob EXCEPT !.agent = a, !.epoch = e])
    BY <1>7 DEF RegisterSession
  <2>2. QED
    BY <1>c, <2>1, PlainInHand
<1>8. ASSUME NEW t \in Tasks, NEW result \in AgentResults, ReportResult(w, t, result)
      PROVE  InHandMove(w)
  <2> DEFINE first == [job[w] EXCEPT !.phase = "report", !.tasks = {t}, !.result = result]
             again == [job[w] EXCEPT !.phase = "report", !.tasks = {t}]
  <2>1. first.tasks = {t} /\ again.tasks = {t}
    BY <1>a DEF JobRow
  <2>2. \/ Goto(w, "commit", first)
        \/ Goto(w, "reconcile", again) /\ Over(t)
    BY <1>8 DEF ReportResult, SameResult, Over
  <2> HIDE DEF first, again
  <2>3. InHand("commit", first)
    BY <2>1 DEF InHand, HasTask
  <2>4. QED
    BY <2>1, <2>2, <2>3, PlainInHand DEF InHandMove
<1>9. QED
  BY <1>1, <1>2, <1>3, <1>4, <1>5, <1>6, <1>7, <1>8 DEF ClientMessage

LEMMA CommitInHand ==
  ASSUME HandlersOK, StoreTypeOK, NEW w \in Workers, InHand(pc[w], job[w]), CommitResult(w)
  PROVE  InHand(pc[w], job[w])'
<1> DEFINE local == [job[w] EXCEPT !.result = "none"]
<1>1. /\ pc[w] = "commit" /\ Goto(w, "reconcile", local) /\ job[w] \in JobRow
      /\ \A u \in Tasks : task[u] \in TaskRow
  BY JobFacts DEF CommitResult, Committed, AlreadyCommitted, StoreTypeOK
<1>2. PICK t \in Tasks : job[w].tasks = {t}
  BY <1>1 DEF InHand
<1>3. Committed(w, t) \/ AlreadyCommitted(w, t)
  BY <1>2 DEF CommitResult
<1>4. task'[t].status \in AgentResults
  <2>1. CASE Committed(w, t)
    BY <1>1, <2>1 DEF Committed, CommitTerminalStatus, StoreTypeOK, TaskRow
  <2>2. CASE AlreadyCommitted(w, t)
    <3>1. task'[t] = task[t] /\ task[t].status = job[w].result
      BY <2>2 DEF AlreadyCommitted, SameResult, storeVars
    <3>2. task[t].status \in TaskStatuses /\ job[w].result \in AgentResults \cup {"none"}
      BY <1>1 DEF TaskRow, JobRow
    <3>3. "none" \notin TaskStatuses
      BY DEF TaskStatuses, UnfinishedStatuses, UnstartedStatuses, TerminalTaskStatuses,
             AgentResults
    <3>4. QED
      BY <3>1, <3>2, <3>3
  <2>3. QED
    BY <1>3, <2>1, <2>2
<1>5. local.tasks = {t}
  BY <1>1, <1>2 DEF JobRow
<1> HIDE DEF local
<1>6. pc'[w] = "reconcile" /\ job'[w] = local
  BY <1>1 DEF Goto, HandlersOK
<1>7. QED
  BY <1>4, <1>5, <1>6 DEF InHand, HasTask, Over, TaskLabels, ScanLabels

LEMMA MonitorInHand ==
  ASSUME HandlersOK, NEW w \in Workers, InHand(pc[w], job[w]),
         \/ StartCheck(w) \/ QueryStale(w) \/ MarkOffline(w) \/ KeepOnline(w)
         \/ QuerySessions(w) \/ FinishCheck(w) \/ MonitorFails(w)
         \/ \E a \in Agents : RecoverOffline(w, a)
         \/ \E a \in Agents, e \in Epochs : RecoverSuperseded(w, a, e)
  PROVE  InHandMove(w)
<1>a. job[w] \in JobRow /\ LocalOK(pc[w], job[w])
  BY JobFacts
<1>b. pc[w] # "commit" => \A t \in job[w].tasks : Over(t)
  BY DEF InHand
<1>c. /\ NoJob.tasks = {} /\ \A A : [NoJob EXCEPT !.stale = A].tasks = {}
      /\ \A phase, T : [NoJob EXCEPT !.phase = phase, !.tasks = T].tasks = T
      /\ \A phase, X : [NoJob EXCEPT !.phase = phase, !.sessions = X].tasks = {}
      /\ \A phase : [NoJob EXCEPT !.phase = phase].tasks = {}
  BY DEF NoJob
<1>d. ASSUME NEW A, NextStale(w, A)
      PROVE  InHandMove(w)
  BY <1>c, <1>d, PlainInHand DEF NextStale, TaskLabels, ScanLabels
<1>1. ASSUME NEW phase, StartSweep(w, phase)
      PROVE  InHandMove(w)
  <2> DEFINE local == [NoJob EXCEPT !.phase = phase, !.tasks = PendingReconciliation]
  <2>1. \E label \in {"reconcile", "stale", "idle"} : Goto(w, label, NoJob) \/ Goto(w, label, local)
    BY <1>1 DEF StartSweep
  <2>2. local.tasks = PendingReconciliation
    BY <1>c
  <2> HIDE DEF local
  <2>3. \A t \in local.tasks : Over(t)
    BY <2>2 DEF PendingReconciliation, Over
  <2>4. QED
    BY <1>c, <2>1, <2>3, PlainInHand DEF TaskLabels, ScanLabels
<1>2. CASE StartCheck(w) \/ FinishCheck(w)
  BY <1>1, <1>2 DEF StartCheck, FinishCheck
<1>3. CASE QueryStale(w) \/ MarkOffline(w) \/ KeepOnline(w)
  BY <1>d, <1>3 DEF QueryStale, MarkOffline, KeepOnline
<1>4. CASE QuerySessions(w)
  BY <1>c, <1>4, PlainInHand DEF QuerySessions, TaskLabels, ScanLabels
<1>5. ASSUME NEW a \in Agents, RecoverOffline(w, a)
      PROVE  InHandMove(w)
  <2> DEFINE local == [job[w] EXCEPT !.phase = "offline", !.agent = a,
                                     !.stale = job[w].stale \ {a}]
             S == OfflineScans(a)
  <2>1. SelectScans(w, local, S) /\ pc[w] = "offline"
    BY <1>5 DEF RecoverOffline
  <2>2. local \in JobRow /\ local.phase = "offline" /\ local.tasks = job[w].tasks
    BY <1>a DEF JobRow, Phases
  <2> HIDE DEF local, S
  <2>3. QED
    BY <1>b, <2>1, <2>2, SelectionInHand DEF RecoveryPhases
<1>6. ASSUME NEW a \in Agents, NEW e \in Epochs, RecoverSuperseded(w, a, e)
      PROVE  InHandMove(w)
  <2> DEFINE local == [job[w] EXCEPT !.agent = a, !.epoch = e,
                                     !.sessions = job[w].sessions \ {<<a, e>>}]
             S == SupersededScans(a, e)
  <2>1. SelectScans(w, local, S) /\ pc[w] = "sessions" /\ job[w].phase = "sessions"
    BY <1>a, <1>6 DEF RecoverSuperseded, LocalOK
  <2>2. local \in JobRow /\ local.phase = "sessions" /\ local.tasks = job[w].tasks
    BY <1>a, <2>1 DEF JobRow, Phases
  <2> HIDE DEF local, S
  <2>3. QED
    BY <1>b, <2>1, <2>2, SelectionInHand DEF RecoveryPhases
<1>7. CASE SkipRecalculation(w)
  <2>1. pc[w] # "commit" /\ \A t \in job[w].tasks : Over(t)
    BY <1>b, <1>7 DEF SkipRecalculation
  <2>2. CASE job[w].phase \in {"sweep", "last sweep"}
    <3>1. NextTask(w, job[w].tasks)
      BY <1>7, <2>2 DEF SkipRecalculation
    <3>2. QED
      BY <1>a, <2>1, <3>1, NextTaskInHand
  <2>3. CASE job[w].phase \notin {"sweep", "last sweep"}
    <3> DEFINE local == IF job[w].phase = "sessions" THEN job[w]
                        ELSE [job[w] EXCEPT !.phase = "unrecovered"]
    <3>1. PICK S : Recalculate(w, local, S)
      BY <1>7, <2>3 DEF SkipRecalculation
    <3>2. local \in JobRow /\ local.tasks = job[w].tasks /\ local.phase \in RecoveryPhases
      BY <1>a DEF JobRow, Phases, RecoveryPhases
    <3> HIDE DEF local
    <3>3. QED
      BY <2>1, <3>1, <3>2, RecalculationInHand
  <2>4. QED
    BY <2>2, <2>3
<1>8. CASE SkipRecovery(w)
  <2>1. CASE \/ pc[w] \in {"offline", "mark offline"}
             \/ pc[w] = "disconnect" /\ job[w].phase = "offline"
    BY <1>d, <1>8, <2>1 DEF SkipRecovery
  <2>2. CASE pc[w] = "disconnect" /\ job[w].phase # "offline"
    <3>1. /\ Recalculate(w, job[w], {}) /\ job[w].phase \in RecoveryPhases
          /\ \A t \in job[w].tasks : Over(t)
      BY <1>a, <1>b, <1>8, <2>2 DEF SkipRecovery, LocalOK, RecoveryPhases
    <3>2. QED
      BY <1>a, <3>1, RecalculationInHand
  <2>3. CASE pc[w] = "sessions"
    <3>1. PICK x : Goto(w, "sessions", [job[w] EXCEPT !.sessions = @ \ {x}])
      BY <1>8, <2>3 DEF SkipRecovery
    <3>2. [job[w] EXCEPT !.sessions = @ \ {x}].tasks = job[w].tasks
      BY <1>a DEF JobRow
    <3>3. QED
      BY <1>b, <2>3, <3>1, <3>2, PlainInHand DEF TaskLabels, ScanLabels
  <2>4. CASE pc[w] \in {"stale", "snapshot"}
    <3>1. Goto(w, "sessions", [NoJob EXCEPT !.phase = "sessions"])
      BY <1>8, <2>4 DEF SkipRecovery
    <3>2. QED
      BY <1>c, <3>1, PlainInHand DEF TaskLabels, ScanLabels
  <2>5. QED
    BY <1>8, <2>1, <2>2, <2>3, <2>4 DEF SkipRecovery
<1>9. QED
  BY <1>2, <1>3, <1>4, <1>5, <1>6, <1>7, <1>8 DEF MonitorFails

LEMMA TasksInHandStep ==
  ASSUME ExecutionIInv, StoreIInv, TasksInHand, Next, NEW w \in Workers
  PROVE  InHand(pc[w], job[w])'
<1>a. HandlersOK /\ HandlersOK' /\ StoreTypeOK /\ InHand(pc[w], job[w])
  BY HandlersStep DEF ExecutionIInv, ExecutionTypeOK, TasksInHand
<1>1. ASSUME NEW label, NEW local, pc'[w] = label, job'[w] = local, InHand(label, local)
      PROVE  InHand(pc[w], job[w])'
  <2>1. local \in JobRow /\ LocalOK(label, local)
    BY <1>a, <1>1 DEF HandlersOK
  <2>2. InHand(label, local)'
    BY <1>1, <2>1, InHandStays
  <2>3. QED
    BY <1>1, <2>2 DEF InHand
<1>2. CASE pc'[w] = pc[w] /\ job'[w] = job[w]
  BY <1>a, <1>1, <1>2
<1>3. CASE InHandMove(w)
  <2>1. PICK label, local : Goto(w, label, local) /\ InHand(label, local)
    BY <1>3 DEF InHandMove
  <2>2. pc'[w] = label /\ job'[w] = local
    BY <1>a, <2>1 DEF Goto, HandlersOK
  <2>3. QED
    BY <1>1, <2>1, <2>2
<1>4. CASE Restart
  <2>1. pc'[w] = "idle" /\ job'[w] = NoJob
    BY <1>4 DEF Restart
  <2>2. QED
    BY <2>1 DEF InHand, HasTask, TaskLabels, ScanLabels, NoJob
<1>5. CASE CommitResult(w)
  BY <1>a, <1>5, CommitInHand
<1>6. CASE (StreamStep(w) /\ ~CommitResult(w)) \/ MonitorStep(w)
  <2>1. InHandMove(w) \/ UNCHANGED <<pc, job>>
    BY <1>a, <1>6, ReconciliationInHand, FailingInHand, StreamInHand, MonitorInHand
       DEF StreamStep, StreamWork, MonitorStep, MonitorWork
  <2>2. QED
    BY <1>2, <1>3, <2>1
<1>7. QED
  BY <1>2, <1>4, <1>5, <1>6, WhoMoves

-----------------------------------------------------------------------------
(* What a step without a fault does to the tasks and to the goroutines *)

LEMMA FaultFree ==
  ASSUME ExecutionIInv, Next, faults' = 0
  PROVE  faults = 0
<1>a. faults \in Nat
  BY WorkersAssumption DEF ExecutionIInv, ExecutionTypeOK
<1>1. ASSUME NEW w \in Streams, StreamWork(w)
      PROVE  faults' = faults
  BY <1>1 DEF StreamWork, PersistSession, AttachSnapshot, Fence, SelectScans, FailSelected,
              ListSuperseded, BecomeReady, RecordHeartbeat, AssignNothing, ClaimTask,
              CommitResult, Committed, AlreadyCommitted, Reconcile, ReconcileNext, UnlockStage,
              CountTasks, CancelUnstarted, UpdateScan, ClearMarker, MarkUnacknowledged,
              Acknowledge, ClearAcknowledged, Reject, Rest
<1>2. ASSUME NEW w \in Streams, ClientMessage(w)
      PROVE  faults' = faults
  BY <1>2 DEF ClientMessage, RegisterSession, Heartbeat, RequestTask, Serve, ReportResult,
              CloseStream, Rest
<1>3. ASSUME NEW w \in Monitors, MonitorWork(w)
      PROVE  faults' = faults
  BY <1>3 DEF MonitorWork, StartCheck, StartSweep, QueryStale, MarkOffline, KeepOnline,
              QuerySessions, FailSelected, Reconcile, ReconcileNext, UnlockStage, CountTasks,
              CancelUnstarted, UpdateScan, ClearMarker, FinishCheck, RecoverOffline,
              RecoverSuperseded, SelectScans, Rest
<1>4. CASE Operator \/ \E a \in Agents : Lapse(a)
  BY <1>4 DEF Operator, AdmitScan, CreateAdmitted, StopScans, DeleteScan, RemoveAgent, Lapse,
              memoryVars
<1>5. CASE \/ \E w \in Streams : BreakHandler(w)
           \/ \E w \in Monitors : MonitorFails(w)
           \/ Restart
  <2>1. faults' = faults + 1
    BY <1>5 DEF BreakHandler, MonitorFails, Restart
  <2>2. QED
    BY <1>a, <2>1
<1>6. QED
  BY <1>1, <1>2, <1>3, <1>4, <1>5 DEF Next

LEMMA WhoWorks ==
  ASSUME ExecutionIInv, Next, faults' = 0, NEW w \in Workers
  PROVE  \/ pc'[w] = pc[w] /\ job'[w] = job[w]
         \/ StreamWork(w) \/ ClientMessage(w)
         \/ MonitorWork(w)
<1>a. faults \in Nat
  BY WorkersAssumption DEF ExecutionIInv, ExecutionTypeOK
<1>1. ~BreakHandler(w) /\ ~MonitorFails(w) /\ ~Restart
  BY <1>a DEF BreakHandler, MonitorFails, Restart
<1>2. QED
  BY <1>1, WhoMoves DEF StreamStep, MonitorStep

TaskWork(w) ==
    \/ CommitResult(w) \/ FailSelected(w) \/ CancelUnstarted(w) \/ UnlockStage(w)
    \/ ClearMarker(w) \/ MarkUnacknowledged(w) \/ ClearAcknowledged(w)
    \/ \E r \in Requests, t \in Tasks : ClaimTask(w, r, t)

LEMMA TaskSteps ==
  ASSUME Next
  PROVE  \/ UNCHANGED task
         \/ \E w \in Workers : TaskWork(w)
         \/ \E s \in Scans : \E a, skip : CreateScan(s, a, skip)
         \/ \E S \in SUBSET Scans : StopActiveScans(S)
         \/ \E a \in Agents : DeleteAgent(a)
<1>a. Streams \subseteq Workers /\ Monitors \subseteq Workers
  BY DEF Workers
<1>1. ASSUME NEW w \in Workers, StreamWork(w) \/ BreakHandler(w)
      PROVE  UNCHANGED task \/ TaskWork(w)
  BY <1>1 DEF StreamWork, PersistSession, UpdateHeartbeat, AttachSnapshot, Fence, SelectScans,
              ListSuperseded, BecomeReady, RecordHeartbeat, AssignNothing, Reconcile,
              ReconcileNext, CountTasks, UpdateScan, UpdateScanStatus, Acknowledge, Reject,
              BreakHandler, EndStream, storeVars, TaskWork
<1>2. ASSUME NEW w \in Workers, ClientMessage(w)
      PROVE  UNCHANGED task \/ TaskWork(w)
  BY <1>2 DEF ClientMessage, RegisterSession, RecordConnection, Heartbeat, RequestTask, Serve,
              CloseStream, EndStream, ReportResult, storeVars, TaskWork
<1>3. ASSUME NEW w \in Workers, MonitorWork(w) \/ MonitorFails(w)
      PROVE  UNCHANGED task \/ TaskWork(w)
  BY <1>3 DEF MonitorWork, StartCheck, StartSweep, QueryStale, MarkOffline,
              MarkOfflineFromOnline, KeepOnline, QuerySessions, FinishCheck, MonitorFails,
              RecoverOffline, RecoverSuperseded, SelectScans, Reconcile, ReconcileNext,
              CountTasks, UpdateScan, UpdateScanStatus, storeVars, TaskWork
<1>4. CASE \/ \E s \in Scans, a \in Agents \cup {NoAgent} : AdmitScan(s, a)
           \/ \E s \in Scans : DeleteScan(s)
           \/ \E a \in Agents : Lapse(a)
           \/ Restart
  BY <1>4 DEF AdmitScan, DeleteScan, SoftDelete, Lapse, HeartbeatLapses, Restart, storeVars
<1>5. CASE \/ \E s \in Scans, skip \in Skips : CreateAdmitted(s, skip)
           \/ \E S \in SUBSET Scans : StopScans(S)
           \/ \E a \in Agents : RemoveAgent(a)
  BY <1>5 DEF CreateAdmitted, StopScans, RemoveAgent
<1>6. QED
  BY <1>a, <1>1, <1>2, <1>3, <1>4, <1>5 DEF Next, Operator

-----------------------------------------------------------------------------
(* A goroutine is past the count of a task when it will clear, or has cleared,
   the marker of the task without counting again.                          *)

PastLabels == {"clear", "mark", "acknowledge", "unmark"}

PastCount(w, t) == pc[w] \in PastLabels /\ job[w].task = t

(* A marker that some goroutine will still find and count on. *)
Sure(t) == t \in PendingReconciliation /\ ~\E w \in Workers : PastCount(w, t)

Owed(s) == Deciding(s) \/ \E t \in TasksOf(s) : Sure(t)

OwedIInv == TasksInHand /\ (faults = 0 => \A s \in Scans : Settled(s) => Owed(s))

Returns(w) == \E label, local : label \notin PastLabels /\ Goto(w, label, local)

LEMMA RecalculationReturns ==
  ASSUME NEW w, NEW local, NEW S, Recalculate(w, local, S),
         S # {} \/ local.phase \in RecoveryPhases
  PROVE  Returns(w)
  BY DEF Recalculate, AfterScans, Returns, PastLabels, RecoveryPhases

LEMMA OthersReturn ==
  ASSUME HandlersOK, NEW w \in Workers, StreamWork(w) \/ ClientMessage(w) \/ MonitorWork(w),
         ~CountTasks(w), ~UpdateScan(w), ~ClearMarker(w), ~MarkUnacknowledged(w), ~Acknowledge(w)
  PROVE  Returns(w) \/ UNCHANGED <<pc, job>>
<1>a. job[w] \in JobRow /\ LocalOK(pc[w], job[w])
  BY JobFacts
<1> USE DEF PastLabels
<1>b. ASSUME NEW local, NEW S, SelectScans(w, local, S), local.phase \in RecoveryPhases
      PROVE  Returns(w)
  BY <1>b, RecalculationReturns DEF SelectScans, Returns
<1>1. CASE \/ PersistSession(w) \/ AttachSnapshot(w) \/ ListSuperseded(w) \/ BecomeReady(w)
           \/ RecordHeartbeat(w) \/ AssignNothing(w) \/ CommitResult(w)
           \/ \E r \in Requests, t \in Tasks : ClaimTask(w, r, t)
           \/ ClearAcknowledged(w) \/ Reject(w)
  BY <1>1 DEF PersistSession, AttachSnapshot, ListSuperseded, BecomeReady, RecordHeartbeat,
              AssignNothing, ClaimTask, CommitResult, Committed, AlreadyCommitted,
              ClearAcknowledged, Reject, EndStream, Returns
<1>2. CASE Fence(w)
  <2> DEFINE local == [job[w] EXCEPT !.phase = "fence"]
             S == SupersededScans(job[w].agent, job[w].epoch)
  <2>1. SelectScans(w, local, S)
    BY <1>2 DEF Fence
  <2>2. local.phase \in RecoveryPhases
    BY <1>a DEF JobRow, RecoveryPhases
  <2> HIDE DEF local, S
  <2>3. QED
    BY <1>b, <2>1, <2>2
<1>3. CASE FailSelected(w)
  BY <1>a, <1>3, RecalculationReturns DEF FailSelected, LocalOK, RecoveryPhases
<1>4. CASE ReconcileNext(w)
  <2>1. PICK t \in job[w].tasks :
           LET local == [job[w] EXCEPT !.tasks = @ \ {t}, !.task = t]
           IN  IF task[t].status = "succeeded" /\ ~StageHasActive(t)
               THEN Goto(w, "unlock", local) ELSE Recalculate(w, local, {ScanOf[t]})
    BY <1>4 DEF ReconcileNext
  <2>2. {ScanOf[t]} # {}
    OBVIOUS
  <2>3. QED
    BY <2>1, <2>2, RecalculationReturns DEF Returns
<1>5. CASE UnlockStage(w)
  <2>1. {ScanOf[job[w].task]} # {}
    OBVIOUS
  <2>2. QED
    BY <1>5, <2>1, RecalculationReturns DEF UnlockStage
<1>6. CASE CancelUnstarted(w)
  BY <1>6 DEF CancelUnstarted, Returns
<1>7. CASE \/ StartCheck(w) \/ QueryStale(w) \/ MarkOffline(w) \/ KeepOnline(w)
           \/ QuerySessions(w) \/ FinishCheck(w)
  BY <1>7 DEF StartCheck, StartSweep, QueryStale, MarkOffline, KeepOnline, QuerySessions,
              FinishCheck, NextStale, Returns
<1>8. ASSUME NEW a \in Agents, RecoverOffline(w, a)
      PROVE  Returns(w)
  <2> DEFINE local == [job[w] EXCEPT !.phase = "offline", !.agent = a,
                                     !.stale = job[w].stale \ {a}]
             S == OfflineScans(a)
  <2>1. SelectScans(w, local, S)
    BY <1>8 DEF RecoverOffline
  <2>2. local.phase \in RecoveryPhases
    BY <1>a DEF JobRow, RecoveryPhases
  <2> HIDE DEF local, S
  <2>3. QED
    BY <1>b, <2>1, <2>2
<1>9. ASSUME NEW a \in Agents, NEW e \in Epochs, RecoverSuperseded(w, a, e)
      PROVE  Returns(w)
  <2> DEFINE local == [job[w] EXCEPT !.agent = a, !.epoch = e,
                                     !.sessions = job[w].sessions \ {<<a, e>>}]
             S == SupersededScans(a, e)
  <2>1. SelectScans(w, local, S) /\ job[w].phase = "sessions"
    BY <1>a, <1>9 DEF RecoverSuperseded, LocalOK
  <2>2. local.phase \in RecoveryPhases
    BY <1>a, <2>1 DEF JobRow, RecoveryPhases
  <2> HIDE DEF local, S
  <2>3. QED
    BY <1>b, <2>1, <2>2
<1>10. CASE ClientMessage(w)
  BY <1>10 DEF ClientMessage, RegisterSession, Heartbeat, RequestTask, Serve, ReportResult,
               CloseStream, EndStream, Returns
<1>11. QED
  BY <1>1, <1>2, <1>3, <1>4, <1>5, <1>6, <1>7, <1>8, <1>9, <1>10
     DEF StreamWork, MonitorWork, Reconcile

(* It gets past a count only when the count leaves the scan undecided, or when
   the decision has been written. *)
LEMMA PastCountStep ==
  ASSUME ExecutionIInv, TasksInHand, Next, faults' = 0,
         NEW w \in Workers, NEW t \in Tasks, PastCount(w, t)'
  PROVE  \/ PastCount(w, t)
         \/ CountTasks(w) /\ ResolvedStatus(ScanOf[t]) = "undecided"
         \/ UpdateScan(w) /\ job[w].scan = ScanOf[t]
<1>a. /\ HandlersOK /\ job[w] \in JobRow /\ LocalOK(pc[w], job[w]) /\ InHand(pc[w], job[w])
      /\ pc'[w] \in PastLabels /\ job'[w].task = t
  BY JobFacts DEF ExecutionIInv, TasksInHand, PastCount
<1>1. CASE pc'[w] = pc[w] /\ job'[w] = job[w]
  BY <1>a, <1>1 DEF PastCount
<1>2. CASE Returns(w)
  BY <1>a, <1>2 DEF Returns, Goto, HandlersOK
<1>3. CASE MarkUnacknowledged(w) \/ Acknowledge(w)
  BY <1>a, <1>3 DEF MarkUnacknowledged, Acknowledge, Goto, HandlersOK, PastCount, PastLabels
<1>4. CASE ClearMarker(w)
  <2>1. CASE job[w].phase = "report"
    BY <1>a, <1>4, <2>1 DEF ClearMarker, Goto, HandlersOK, PastCount, PastLabels
  <2>2. CASE job[w].phase # "report"
    <3>1. Returns(w)
      BY <1>4, <2>2 DEF ClearMarker, NextTask, Returns, PastLabels
    <3>2. QED
      BY <1>2, <3>1
  <2>3. QED
    BY <2>1, <2>2
<1>5. ASSUME NEW S, Recalculate(w, job[w], S)
      PROVE  S = {} /\ job[w].phase \notin RecoveryPhases /\ job[w].task = t
  <2> DEFINE next == [job[w] EXCEPT !.scans = S, !.scan = None, !.verdict = "none"]
             label == IF S = {} THEN AfterScans(job[w].phase) ELSE "recalculate"
  <2>1. Goto(w, label, next) /\ next.task = job[w].task
    BY <1>a, <1>5 DEF Recalculate, JobRow
  <2>2. label = "clear" => S = {} /\ job[w].phase \notin RecoveryPhases
    BY DEF AfterScans, RecoveryPhases
  <2>3. label \in PastLabels => label = "clear"
    BY DEF AfterScans, PastLabels
  <2> HIDE DEF next, label
  <2>4. pc'[w] = label /\ job'[w] = next
    BY <1>a, <2>1 DEF Goto, HandlersOK
  <2>5. QED
    BY <1>a, <2>1, <2>2, <2>3, <2>4
<1>6. CASE CountTasks(w)
  <2>1. PICK s \in job[w].scans :
           IF ResolvedStatus(s) = "undecided" THEN Recalculate(w, job[w], job[w].scans \ {s})
           ELSE \E label \in {"update", "cancel"} : \E local : Goto(w, label, local)
    BY <1>6 DEF CountTasks
  <2>2. ResolvedStatus(s) = "undecided" /\ Recalculate(w, job[w], job[w].scans \ {s})
    BY <1>a, <2>1 DEF Goto, HandlersOK, PastLabels
  <2>3. job[w].phase \notin RecoveryPhases /\ job[w].task = t
    BY <1>5, <2>2
  <2>4. job[w].scans = {ScanOf[t]}
    BY <1>a, <1>6, <2>3 DEF CountTasks, InHand, HasTask, ScanLabels
  <2>5. QED
    BY <1>6, <2>1, <2>2, <2>4
<1>7. CASE UpdateScan(w)
  <2>1. Recalculate(w, job[w], job[w].scans) /\ pc[w] = "update"
    BY <1>7 DEF UpdateScan
  <2>2. job[w].phase \notin RecoveryPhases /\ job[w].task = t
    BY <1>5, <2>1
  <2>3. QED
    BY <1>a, <1>7, <2>1, <2>2 DEF InHand, HasTask, ScanLabels
<1>8. QED
  BY <1>a, <1>1, <1>2, <1>3, <1>4, <1>6, <1>7, WhoWorks, OthersReturn

(* Once the decision is written the scan is no longer active. *)
LEMMA UpdateEnds ==
  ASSUME ExecutionIInv, NEW w \in Workers, NEW s \in Scans, UpdateScan(w), job[w].scan = s
  PROVE  ~Active(s)'
<1>1. scan \in [Scans -> ScanRow] /\ job[w].verdict \in TerminalScanStatuses
  BY JobFacts DEF ExecutionIInv, ExecutionTypeOK, StoreTypeOK, UpdateScan, LocalOK
<1>2. UpdateScanStatus(s, job[w].verdict)
  BY DEF UpdateScan
<1>3. CASE Active(s)
  <2>1. scan' = [scan EXCEPT ![s].status = job[w].verdict]
    BY <1>2, <1>3 DEF UpdateScanStatus
  <2>2. scan'[s].status = job[w].verdict
    BY <1>1, <2>1 DEF ScanRow
  <2>3. QED
    BY <1>1, <2>2 DEF Active, ActiveScanStatuses, TerminalScanStatuses
<1>4. CASE ~Active(s)
  BY <1>2, <1>4 DEF UpdateScanStatus, Active
<1>5. QED
  BY <1>3, <1>4

LEMMA DecidersGoOn ==
  ASSUME ExecutionIInv, Next, faults' = 0, NEW s \in Scans, Active(s)', Deciding(s)
  PROVE  Deciding(s)'
<1>1. PICK w \in Workers : job[w].scan = s /\ pc[w] \in {"cancel", "update"}
  BY DEF Deciding
<1>2. CASE pc'[w] = pc[w] /\ job'[w] = job[w]
  BY <1>1, <1>2 DEF Deciding
<1>3. CASE StreamWork(w) \/ ClientMessage(w) \/ MonitorWork(w)
  <2>1. CancelUnstarted(w) \/ UpdateScan(w)
    BY <1>1, <1>3
       DEF StreamWork, PersistSession, AttachSnapshot, Fence, FailSelected, ListSuperseded,
           BecomeReady, RecordHeartbeat, AssignNothing, ClaimTask, CommitResult, Reconcile,
           ReconcileNext, UnlockStage, CountTasks, ClearMarker, MarkUnacknowledged,
           Acknowledge, ClearAcknowledged, Reject, RejectedAt, ClientMessage, RegisterSession,
           Heartbeat, RequestTask, Serve, ReportResult, CloseStream, MonitorWork, StartCheck,
           QueryStale, MarkOffline, KeepOnline, QuerySessions, FinishCheck, RecoverOffline,
           RecoverSuperseded
  <2>2. CASE CancelUnstarted(w)
    <3>1. pc'[w] = "update" /\ job'[w] = job[w]
      BY <2>2 DEF CancelUnstarted, Goto, ExecutionIInv, HandlersOK
    <3>2. QED
      BY <1>1, <3>1 DEF Deciding
  <2>3. CASE UpdateScan(w)
    BY <1>1, <2>3, UpdateEnds
  <2>4. QED
    BY <2>1, <2>2, <2>3
<1>4. QED
  BY <1>2, <1>3, WhoWorks

(* Only ClearMarker and ClearAcknowledged clear a marker, and only past the count. *)
LEMMA MarkersStay ==
  ASSUME ExecutionIInv, StoreIInv, Next, NEW t \in Tasks, Active(ScanOf[t]), Sure(t)
  PROVE  (t \in PendingReconciliation)'
<1>a. /\ Over(t) /\ task[t].pending /\ \A w \in Workers : ~PastCount(w, t)
      /\ task \in [Tasks -> TaskRow] /\ task[t] \in TaskRow
  BY DEF Sure, PendingReconciliation, Over, ExecutionIInv, ExecutionTypeOK, StoreTypeOK
<1>b. SUFFICES task'[t].pending
  BY OverStays, <1>a DEF PendingReconciliation, Over
<1>c. task[t].status \notin UnfinishedStatuses
  BY <1>a DEF Over, AgentResults, UnfinishedStatuses, UnstartedStatuses
<1>1. ASSUME NEW w \in Workers, CommitResult(w)
      PROVE  task'[t].pending
  <2>1. PICK u \in job[w].tasks : Committed(w, u) \/ AlreadyCommitted(w, u)
    BY <1>1 DEF CommitResult
  <2>2. CASE Committed(w, u)
    <3>1. /\ task[u].status = "running"
          /\ task' = [task EXCEPT ![u] = [@ EXCEPT !.status = job[w].result, !.pending = TRUE,
                                                  !.failure = FailureOf(job[w].result)]]
      BY <2>2 DEF Committed, CommitTerminalStatus
    <3>2. u # t
      BY <1>c, <3>1 DEF UnfinishedStatuses
    <3>3. QED
      BY <1>a, <3>1, <3>2
  <2>3. CASE AlreadyCommitted(w, u)
    BY <1>a, <2>3 DEF AlreadyCommitted, storeVars
  <2>4. QED
    BY <2>1, <2>2, <2>3
<1>2. ASSUME NEW w \in Workers, FailSelected(w)
      PROVE  task'[t].pending
  <2>1. PICK T : Disconnect(T)
    BY <1>2 DEF FailSelected, FailTasksForOfflineAgent, FailTasksForSupersededSession
  <2>2. QED
    BY <1>a, <2>1 DEF Disconnect, TaskRow
<1>3. ASSUME NEW w \in Workers, CancelUnstarted(w) \/ UnlockStage(w)
      PROVE  task'[t].pending
  <2>1. task'[t] = task[t]
    BY <1>c, <1>3 DEF CancelUnstarted, CancelUnstartedTasks, UnlockStage, UnlockNextStageOrder,
                      NextStage, Unlockable, UnfinishedStatuses, UnstartedStatuses
  <2>2. QED
    BY <1>a, <2>1
<1>4. ASSUME NEW w \in Workers, ClearMarker(w) \/ ClearAcknowledged(w)
      PROVE  task'[t].pending
  <2>1. job[w].task # t
    BY <1>a, <1>4 DEF ClearMarker, ClearAcknowledged, PastCount, PastLabels
  <2>2. task' = [task EXCEPT ![job[w].task].pending = FALSE]
    BY <1>4 DEF ClearMarker, ClearAcknowledged, ClearReconciliationPending
  <2>3. QED
    BY <1>a, <2>1, <2>2
<1>5. ASSUME NEW w \in Workers, MarkUnacknowledged(w)
      PROVE  task'[t].pending
  <2>1. task' = [task EXCEPT ![job[w].task].pending = TRUE]
    BY <1>5 DEF MarkUnacknowledged, MarkReconciliationPending
  <2>2. QED
    BY <1>a, <2>1 DEF TaskRow
<1>6. ASSUME NEW w \in Workers, NEW r \in Requests, NEW u \in Tasks, ClaimTask(w, r, u)
      PROVE  task'[t].pending
  <2>1. /\ task[u].status = "pending"
        /\ \A v \in Tasks \ {u} : task'[v] = task[v]
    BY <1>a, <1>6 DEF ClaimTask, Claim, Candidates
  <2>2. QED
    BY <1>a, <1>c, <2>1 DEF UnfinishedStatuses, UnstartedStatuses
<1>7. ASSUME NEW s \in Scans, NEW a, NEW skip, CreateScan(s, a, skip)
      PROVE  task'[t].pending
  <2>1. ScanOf[t] # s
    BY <1>7 DEF CreateScan, Active, ActiveScanStatuses
  <2>2. QED
    BY <1>a, <1>7, <2>1 DEF CreateScan, TasksOf
<1>8. ASSUME NEW S \in SUBSET Scans, StopActiveScans(S)
      PROVE  task'[t].pending
  BY <1>a, <1>c, <1>8 DEF StopActiveScans
<1>9. ASSUME NEW a \in Agents, DeleteAgent(a)
      PROVE  task'[t].pending
  BY <1>a, <1>c, <1>9 DEF DeleteAgent, UnfinishedStatuses
<1>10. QED
  BY <1>a, <1>1, <1>2, <1>3, <1>4, <1>5, <1>6, <1>7, <1>8, <1>9, TaskSteps DEF TaskWork

LEMMA SureStays ==
  ASSUME ExecutionIInv, StoreIInv, TasksInHand, Next, faults' = 0,
         NEW s \in Scans, Settled(s), Active(s)', NEW t \in TasksOf(s), Sure(t)
  PROVE  Sure(t)'
<1>1. t \in Tasks /\ ScanOf[t] = s /\ Active(s)
  BY DEF TasksOf, Settled
<1>2. (t \in PendingReconciliation)'
  BY <1>1, MarkersStay
<1>3. ASSUME NEW w \in Workers, PastCount(w, t)'
      PROVE  FALSE
  <2>1. ~PastCount(w, t)
    BY DEF Sure
  <2>2. ResolvedStatus(s) # "undecided"
    BY DEF Settled, ResolvedStatus
  <2>3. UpdateScan(w) /\ job[w].scan = s
    BY <1>1, <1>3, <2>1, <2>2, PastCountStep
  <2>4. QED
    BY <2>3, UpdateEnds
<1>4. QED
  BY <1>2, <1>3 DEF Sure

(* A scan becomes settled when its last waiting or running task is gone.  The
   transaction that takes it leaves a marker, is the cancellation of a
   goroutine that has decided, or ends the scan.                           *)
LEMMA LastTaskOwes ==
  ASSUME ExecutionIInv, StoreIInv, TasksInHand, Next, faults' = 0,
         NEW s \in Scans, Active(s), Settled(s)',
         NEW t \in TasksOf(s), task[t].status \in {"pending", "running"}
  PROVE  Owed(s)'
<1>a. /\ t \in Tasks /\ ScanOf[t] = s /\ task[t] \in TaskRow
      /\ task \in [Tasks -> TaskRow] /\ scan \in [Scans -> ScanRow]
      /\ task'[t].status \notin {"pending", "running"} /\ Active(s)'
      /\ HandlersOK /\ ~Over(t)
  BY DEF TasksOf, ExecutionIInv, ExecutionTypeOK, StoreTypeOK, Settled, Has, Over, AgentResults
<1>b. ASSUME task'[t].status \in AgentResults, task'[t].pending
      PROVE  Owed(s)'
  <2>1. ASSUME NEW w \in Workers, PastCount(w, t)'
        PROVE  FALSE
    <3>1. ~PastCount(w, t)
      BY <1>a DEF TasksInHand, InHand, HasTask, PastCount, PastLabels, TaskLabels
    <3>2. UNCHANGED task
      BY <1>a, <2>1, <3>1, PastCountStep
         DEF CountTasks, UpdateScan, UpdateScanStatus, storeVars
    <3>3. QED
      BY <1>a, <3>2
  <2>2. Sure(t)'
    BY <1>a, <1>b, <2>1 DEF Sure, PendingReconciliation
  <2>3. QED
    BY <2>2 DEF Owed, TasksOf
<1>c. ASSUME task'[t] = task[t]
      PROVE  FALSE
  BY <1>a, <1>c
<1>1. ASSUME NEW w \in Workers, CommitResult(w)
      PROVE  Owed(s)'
  <2>1. PICK u \in job[w].tasks : Committed(w, u) \/ AlreadyCommitted(w, u)
    BY <1>1 DEF CommitResult
  <2>2. CASE Committed(w, u)
    <3>1. /\ job[w].result \in AgentResults
          /\ task' = [task EXCEPT ![u] = [@ EXCEPT !.status = job[w].result, !.pending = TRUE,
                                                  !.failure = FailureOf(job[w].result)]]
      BY <2>2 DEF Committed, CommitTerminalStatus
    <3>2. u = t
      BY <1>a, <1>c, <3>1
    <3>3. task'[t].status = job[w].result /\ task'[t].pending
      BY <1>a, <3>1, <3>2 DEF TaskRow
    <3>4. QED
      BY <1>b, <3>1, <3>3
  <2>3. CASE AlreadyCommitted(w, u)
    BY <1>c, <2>3 DEF AlreadyCommitted, storeVars
  <2>4. QED
    BY <2>1, <2>2, <2>3
<1>2. ASSUME NEW w \in Workers, FailSelected(w)
      PROVE  Owed(s)'
  <2>1. PICK T : Disconnect(T)
    BY <1>2 DEF FailSelected, FailTasksForOfflineAgent, FailTasksForSupersededSession
  <2>2. t \in T
    BY <1>a, <1>c, <2>1 DEF Disconnect
  <2>3. task'[t].status = "failed" /\ task'[t].pending
    BY <1>a, <2>1, <2>2 DEF Disconnect, TaskRow
  <2>4. QED
    BY <1>b, <2>3 DEF AgentResults
<1>3. ASSUME NEW w \in Workers, CancelUnstarted(w)
      PROVE  Owed(s)'
  <2>1. job[w].scan = s
    BY <1>a, <1>c, <1>3 DEF CancelUnstarted, CancelUnstartedTasks, TasksOf
  <2>2. pc'[w] = "update" /\ job'[w] = job[w]
    BY <1>a, <1>3 DEF CancelUnstarted, Goto, HandlersOK
  <2>3. QED
    BY <2>1, <2>2 DEF Owed, Deciding
<1>4. ASSUME NEW w \in Workers, UnlockStage(w)
      PROVE  FALSE
  BY <1>a, <1>c, <1>4 DEF UnlockStage, UnlockNextStageOrder, NextStage, Unlockable
<1>5. ASSUME NEW w \in Workers,
             ClearMarker(w) \/ MarkUnacknowledged(w) \/ ClearAcknowledged(w)
      PROVE  FALSE
  <2>1. PICK p \in BOOLEAN : task' = [task EXCEPT ![job[w].task].pending = p]
    BY <1>5 DEF ClearMarker, MarkUnacknowledged, ClearAcknowledged, ClearReconciliationPending,
                MarkReconciliationPending
  <2>2. task'[t].status = task[t].status
    BY <1>a, <2>1 DEF TaskRow
  <2>3. QED
    BY <1>a, <2>2
<1>6. ASSUME NEW w \in Workers, NEW r \in Requests, NEW u \in Tasks, ClaimTask(w, r, u)
      PROVE  FALSE
  <2>1. task' = [task EXCEPT ![u] = [@ EXCEPT !.status = "running", !.agent = job[w].agent,
                                             !.epoch = job[w].epoch, !.request = r]]
    BY <1>6 DEF ClaimTask, Claim
  <2>2. task'[t] = task[t] \/ task'[t].status = "running"
    BY <1>a, <2>1 DEF TaskRow
  <2>3. QED
    BY <1>a, <1>c, <2>2
<1>7. ASSUME NEW x \in Scans, NEW a, NEW skip, CreateScan(x, a, skip)
      PROVE  FALSE
  BY <1>a, <1>c, <1>7 DEF CreateScan, TasksOf, Active, ActiveScanStatuses
<1>8. ASSUME NEW S \in SUBSET Scans, StopActiveScans(S)
      PROVE  FALSE
  <2>1. s \in S
    BY <1>a, <1>c, <1>8 DEF StopActiveScans
  <2>2. scan'[s].status = "cancelled"
    BY <1>a, <1>8, <2>1 DEF StopActiveScans, ScanRow
  <2>3. QED
    BY <1>a, <2>2 DEF Active, ActiveScanStatuses
<1>9. ASSUME NEW a \in Agents, DeleteAgent(a)
      PROVE  FALSE
  <2>1. s \in PinnedTo(a) /\ task[t].status \in UnstartedStatuses
    BY <1>a, <1>c, <1>9 DEF DeleteAgent
  <2>2. task'[t].failure = "agent_deleted"
    BY <1>a, <1>9, <2>1 DEF DeleteAgent, TaskRow
  <2>3. ASSUME NEW u \in TasksOf(s)
        PROVE  task'[u].status \notin UnfinishedStatuses
    <3>1. task'[u].status \notin {"pending", "running"}
      BY <2>3 DEF Settled, Has, TasksOf
    <3>2. task'[u].status # "blocked"
      <4>1. /\ u \in Tasks /\ ScanOf[u] = s /\ task[u] \in TaskRow
        BY <1>a, <2>3 DEF TasksOf
      <4>2. task'[u] = IF task[u].status \in UnstartedStatuses
                       THEN [task[u] EXCEPT !.status = "failed", !.pending = FALSE,
                                            !.failure = "agent_deleted"]
                       ELSE task[u]
        BY <1>9, <2>1, <4>1 DEF DeleteAgent
      <4>3. QED
        BY <4>1, <4>2 DEF TaskRow, UnstartedStatuses
    <3>3. QED
      BY <3>1, <3>2 DEF UnfinishedStatuses, UnstartedStatuses
  <2>4. scan'[s] = [scan[s] EXCEPT !.status = "failed"]
    <3>1. scan'[s] = IF /\ s \in PinnedTo(a)
                        /\ Active(s)
                        /\ \E u \in TasksOf(s) : task'[u].failure = "agent_deleted"
                        /\ \A u \in TasksOf(s) : task'[u].status \notin UnfinishedStatuses
                     THEN [scan[s] EXCEPT !.status = "failed"] ELSE scan[s]
      BY <1>9 DEF DeleteAgent
    <3>2. QED
      BY <2>1, <2>2, <2>3, <3>1
  <2>5. scan'[s].status = "failed"
    BY <1>a, <2>4 DEF ScanRow
  <2>6. QED
    BY <1>a, <2>5 DEF Active, ActiveScanStatuses
<1>10. CASE UNCHANGED task
  BY <1>c, <1>10
<1>11. QED
  BY <1>1, <1>2, <1>3, <1>4, <1>5, <1>6, <1>7, <1>8, <1>9, <1>10, TaskSteps DEF TaskWork

LEMMA LeastNumber ==
  ASSUME NEW S, S \subseteq Nat, S # {}
  PROVE  \E m \in S : \A n \in S : m <= n
<1>1. PICK m \in S : \A n \in S : <<n, m>> \notin OpToRel(<, Nat)
  BY NatLessThanWellFounded, WFMin, Zenon
<1>2. ASSUME NEW n \in S
      PROVE  m <= n
  <2>1. m \in Nat /\ n \in Nat
    OBVIOUS
  <2>2. ~(n < m)
    BY <1>1, <2>1 DEF OpToRel
  <2>3. QED
    BY <2>1, <2>2
<1>3. QED
  BY <1>2

(* A scan that is created active has a task to claim. *)
LEMMA CreatedScansWait ==
  ASSUME NEW s \in Scans, NEW a, NEW skip \in SUBSET Tasks, ExecutionIInv,
         CreateScan(s, a, skip), Active(s)'
  PROVE  Has(s, {"pending", "running"})'
<1>1. scan \in [Scans -> ScanRow]
  BY DEF ExecutionIInv, ExecutionTypeOK, StoreTypeOK
<1>2. skip # TasksOf(s) /\ skip \subseteq TasksOf(s)
  BY <1>1 DEF CreateScan, Active, ActiveScanStatuses
<1> DEFINE S == {StageOf[t] : t \in Executable(s, skip)}
<1>3. S \subseteq Nat /\ S # {}
  BY <1>2, WorkflowAssumption DEF Executable, TasksOf
<1>4. PICK m \in S : \A n \in S : m <= n
  <2> HIDE DEF S
  <2>1. QED
    BY <1>3, LeastNumber
<1>5. PICK t \in Executable(s, skip) : StageOf[t] = m
  BY <1>4
<1>6. t \in TasksOf(s) /\ t \notin skip /\ t \in Tasks
  BY <1>5 DEF Executable, TasksOf
<1>7. InFirstStage(t, s, skip)
  BY <1>4, <1>5 DEF InFirstStage
<1>8. CreatedStatus(t, s, skip) = "pending"
  BY <1>6, <1>7 DEF CreatedStatus
<1>9. task'[t].status = "pending"
  BY <1>6, <1>8 DEF CreateScan, NoTask
<1>10. QED
  BY <1>6, <1>9 DEF Has, TasksOf

LEMMA OwedStep ==
  ASSUME ExecutionIInv, StoreIInv, OwedIInv, Next, faults' = 0,
         NEW s \in Scans, Settled(s)'
  PROVE  Owed(s)'
<1>a. TasksInHand /\ Active(s)' /\ (Settled(s) => Owed(s))
  BY FaultFree DEF OwedIInv, Settled
<1>1. CASE Settled(s)
  <2>1. CASE Deciding(s)
    BY <1>a, <2>1, DecidersGoOn DEF Owed
  <2>2. ASSUME NEW t \in TasksOf(s), Sure(t)
        PROVE  Owed(s)'
    <3>1. Sure(t)'
      BY <1>a, <1>1, <2>2, SureStays
    <3>2. t \in TasksOf(s)'
      BY DEF TasksOf
    <3>3. QED
      BY <3>1, <3>2 DEF Owed
  <2>3. QED
    BY <1>a, <1>1, <2>1, <2>2 DEF Owed
<1>2. CASE Active(s) /\ ~Settled(s)
  <2>1. PICK t \in TasksOf(s) : task[t].status \in {"pending", "running"}
    BY <1>2 DEF Settled, Has
  <2>2. QED
    BY <1>a, <1>2, <2>1, LastTaskOwes
<1>3. CASE ~Active(s)
  <2>1. PICK a \in Agents \cup {NoAgent}, skip \in SUBSET Tasks : CreateScan(s, a, skip)
    BY <1>a, <1>3, StatusStep
  <2>2. Has(s, {"pending", "running"})'
    BY <1>a, <2>1, CreatedScansWait
  <2>3. QED
    BY <2>2 DEF Settled
<1>4. QED
  BY <1>1, <1>2, <1>3

LEMMA OwedInit == Init => OwedIInv
<1> SUFFICES ASSUME Init PROVE OwedIInv
  OBVIOUS
<1>1. \A w \in Workers : pc[w] = "idle" /\ job[w].tasks = {}
  BY DEF Init, NoJob
<1>2. \A s \in Scans : ~Settled(s)
  BY DEF Init, StoreInit, NoScan, Settled, Active, ActiveScanStatuses
<1>3. QED
  BY <1>1, <1>2 DEF OwedIInv, TasksInHand, InHand, HasTask, TaskLabels, ScanLabels

LEMMA OwedInvStep ==
  ExecutionIInv /\ StoreIInv /\ OwedIInv /\ [Next]_vars => OwedIInv'
<1> SUFFICES ASSUME ExecutionIInv, StoreIInv, OwedIInv, [Next]_vars PROVE OwedIInv'
  OBVIOUS
<1>1. CASE Next
  <2>1. TasksInHand'
    BY <1>1, TasksInHandStep DEF OwedIInv, TasksInHand
  <2>2. faults' = 0 => \A s \in Scans : Settled(s)' => Owed(s)'
    BY <1>1, OwedStep
  <2>3. QED
    BY <2>1, <2>2 DEF OwedIInv
<1>2. CASE UNCHANGED vars
  BY <1>2 DEF vars, storeVars, memoryVars, OwedIInv, TasksInHand, InHand, HasTask, Over, Settled,
              Active, Has, TasksOf, Owed, Deciding, Sure, PendingReconciliation, PastCount
<1>3. QED
  BY <1>1, <1>2

(* As long as nothing fails, every goroutine reconciles a task that is over,
   and a settled scan is owed a count that some goroutine or marker will make. *)
THEOREM OwedInvariance == Spec => []OwedIInv
<1>1. Spec => []StoreIInv
  BY ExecutionImplementsStore, StoreIInvariance, PTL
<1>2. QED
  BY <1>1, ExecutionInvariance, OwedInit, OwedInvStep, PTL DEF Spec

(* As long as no server restarts, no handler is cut off and no query fails, a
   scan with nothing left to claim or to wait for has a marker on one of its
   tasks, or a goroutine that is about to write its status: whatever the other
   streams, the monitor and the operator do between the transactions of a
   reconciliation, its marker is not cleared before the scan was recalculated
   from counts that saw it settled. *)
THEOREM ConvergenceStaysOwed == Spec => [](faults = 0 => ConvergenceOwed)
<1>1. OwedIInv => (faults = 0 => ConvergenceOwed)
  BY DEF OwedIInv, Owed, Sure, Marked, ConvergenceOwed
<1>2. QED
  BY <1>1, OwedInvariance, PTL
=============================================================================
