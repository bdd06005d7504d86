------------------------ MODULE ScanExecutionProofs ------------------------
(***************************************************************************)
(* Proofs about the goroutines of ScanExecution, for every set of scans,   *)
(* tasks, agents, requests, streams and monitors and every bound:          *)
(* they implement ScanStore, so that whatever ScanStoreProofs proves of    *)
(* the tables holds while they run, and no stage of a scan opens before    *)
(* the stages before it are over, for every workflow.  ScanRecoveryProofs  *)
(* has the invariants of the recovery.                                     *)
(***************************************************************************)
EXTENDS ScanExecution, ScanStoreProofs

-----------------------------------------------------------------------------
(* Handlers.  The locals a step is about to use were set by the steps that *)
(* led to it: a handler of a session knows its agent and epoch, one that   *)
(* reconciles has a task, one that has decided has a scan and a verdict.   *)

SessionLabels == {"persist", "attach", "fence", "list", "ready", "serve", "heartbeat", "claim",
                  "commit", "mark", "acknowledge", "unmark"}
SessionPhases == {"fence", "drain", "report"}
TaskLabels    == {"unlock", "clear", "mark", "acknowledge", "unmark"}
ScanLabels    == {"recalculate", "cancel", "update"}
RecoveryPhases == {"fence", "offline", "unrecovered", "sessions"}

LocalOK(label, local) ==
    /\ label \in SessionLabels \/ local.phase \in SessionPhases =>
          local.agent \in Agents /\ local.epoch \in Epochs \ {0}
    /\ label \in {"disconnect", "mark offline"} \/ local.phase = "offline" =>
          local.agent \in Agents
    /\ label = "disconnect" => local.phase \in {"fence", "offline", "sessions"}
    /\ label = "sessions" => local.phase = "sessions"
    /\ label \in TaskLabels => local.task \in Tasks
    /\ label \in ScanLabels => local.task \in Tasks \/ local.phase \in RecoveryPhases
    /\ label \in {"cancel", "update"} =>
          local.scan \in Scans /\ local.verdict \in TerminalScanStatuses

HandlersOK ==
    /\ pc \in [Workers -> Labels]
    /\ job \in [Workers -> JobRow]
    /\ \A w \in Workers : LocalOK(pc[w], job[w])

ExecutionIInv == ExecutionTypeOK /\ HandlersOK

-----------------------------------------------------------------------------
(* Refinement: every step is one transaction of ScanStore, or leaves the
   tables alone. *)

LEMMA StreamWorkRefines ==
  ASSUME HandlersOK, NEW w \in Workers,
         \/ PersistSession(w) \/ AttachSnapshot(w) \/ Fence(w) \/ ListSuperseded(w)
         \/ BecomeReady(w) \/ RecordHeartbeat(w) \/ AssignNothing(w)
         \/ \E r \in Requests, t \in Tasks : ClaimTask(w, r, t)
         \/ CommitResult(w) \/ MarkUnacknowledged(w) \/ Acknowledge(w)
         \/ ClearAcknowledged(w) \/ Reject(w)
  PROVE  [StoreNext]_storeVars
<1>a. job[w] \in JobRow /\ LocalOK(pc[w], job[w])
  BY DEF HandlersOK
<1>1. CASE PersistSession(w) \/ RecordHeartbeat(w)
  <2>1. job[w].agent \in Agents /\ job[w].epoch \in Epochs \ {0}
    BY <1>a, <1>1 DEF PersistSession, RecordHeartbeat, LocalOK, SessionLabels
  <2>2. UpdateHeartbeat(job[w].agent, job[w].epoch)
    BY <1>1 DEF PersistSession, RecordHeartbeat
  <2>3. QED
    BY <2>1, <2>2 DEF StoreNext
<1>2. CASE CommitResult(w)
  <2>1. PICK t \in job[w].tasks : Committed(w, t) \/ AlreadyCommitted(w, t)
    BY <1>2 DEF CommitResult
  <2>2. t \in Tasks
    BY <1>a DEF JobRow
  <2>3. job[w].agent \in Agents /\ job[w].epoch \in Epochs
    BY <1>a, <1>2 DEF CommitResult, LocalOK, SessionLabels
  <2>4. CASE Committed(w, t)
    <3>1. CommitTerminalStatus(t, job[w].agent, job[w].epoch, job[w].result)
      BY <2>4 DEF Committed
    <3>2. job[w].result \in AgentResults
      BY <3>1 DEF CommitTerminalStatus
    <3>3. QED
      BY <2>2, <2>3, <3>1, <3>2 DEF StoreNext
  <2>5. CASE AlreadyCommitted(w, t)
    BY <2>5 DEF AlreadyCommitted
  <2>6. QED
    BY <2>1, <2>4, <2>5
<1>3. CASE MarkUnacknowledged(w) \/ ClearAcknowledged(w)
  <2>1. job[w].task \in Tasks
    BY <1>a, <1>3 DEF MarkUnacknowledged, ClearAcknowledged, LocalOK, TaskLabels
  <2>2. MarkReconciliationPending(job[w].task) \/ ClearReconciliationPending(job[w].task)
    BY <1>3 DEF MarkUnacknowledged, ClearAcknowledged
  <2>3. QED
    BY <2>1, <2>2 DEF StoreNext
<1>4. ASSUME NEW r \in Requests, NEW t \in Tasks, ClaimTask(w, r, t)
      PROVE  StoreNext
  <2>1. Claim(job[w].agent, job[w].epoch, r, t)
    BY <1>4 DEF ClaimTask
  <2>2. job[w].agent \in Agents /\ job[w].epoch \in Epochs \ {0}
    BY <1>a, <1>4 DEF ClaimTask, LocalOK, SessionLabels
  <2>3. QED
    BY <2>1, <2>2 DEF StoreNext
<1>5. CASE \/ AttachSnapshot(w) \/ Fence(w) \/ ListSuperseded(w) \/ BecomeReady(w)
           \/ AssignNothing(w) \/ Acknowledge(w) \/ Reject(w)
  BY <1>5 DEF AttachSnapshot, Fence, SelectScans, ListSuperseded, BecomeReady, AssignNothing,
              Acknowledge, Reject, EndStream
<1>6. QED
  BY <1>1, <1>2, <1>3, <1>4, <1>5

LEMMA FailSelectedRefines ==
  ASSUME HandlersOK, NEW w \in Workers, FailSelected(w)
  PROVE  [StoreNext]_storeVars
<1>1. /\ job[w].agent \in Agents /\ job[w].epoch \in Epochs
      /\ job[w].scans \in SUBSET Scans
  BY DEF HandlersOK, FailSelected, LocalOK, JobRow
<1>2. CASE job[w].phase = "offline"
  <2>1. FailTasksForOfflineAgent(job[w].agent, job[w].scans)
    BY <1>2 DEF FailSelected
  <2>2. QED
    BY <1>1, <2>1 DEF StoreNext
<1>3. CASE job[w].phase # "offline"
  <2>1. FailTasksForSupersededSession(job[w].agent, job[w].epoch, job[w].scans)
    BY <1>3 DEF FailSelected
  <2>2. QED
    BY <1>1, <2>1 DEF StoreNext
<1>4. QED
  BY <1>2, <1>3

LEMMA ReconcileRefines ==
  ASSUME HandlersOK, NEW w \in Workers, Reconcile(w)
  PROVE  [StoreNext]_storeVars
<1>a. job[w] \in JobRow /\ LocalOK(pc[w], job[w])
  BY DEF HandlersOK
<1>1. CASE ReconcileNext(w) \/ CountTasks(w)
  BY <1>1 DEF ReconcileNext, CountTasks
<1>2. CASE UnlockStage(w)
  <2>1. job[w].task \in Tasks
    BY <1>a, <1>2 DEF UnlockStage, LocalOK, TaskLabels
  <2>2. UnlockNextStageOrder(ScanOf[job[w].task], StageOf[job[w].task])
    BY <1>2 DEF UnlockStage
  <2>3. ScanOf[job[w].task] \in Scans
    BY <2>1, WorkflowAssumption
  <2>4. QED
    BY <2>1, <2>2, <2>3 DEF StoreNext
<1>3. CASE CancelUnstarted(w)
  <2>1. job[w].scan \in Scans
    BY <1>a, <1>3 DEF CancelUnstarted, LocalOK
  <2>2. CancelUnstartedTasks(job[w].scan)
    BY <1>3 DEF CancelUnstarted
  <2>3. QED
    BY <2>1, <2>2 DEF StoreNext
<1>4. CASE UpdateScan(w)
  <2>1. job[w].scan \in Scans /\ job[w].verdict \in TerminalScanStatuses
    BY <1>a, <1>4 DEF UpdateScan, LocalOK
  <2>2. UpdateScanStatus(job[w].scan, job[w].verdict)
    BY <1>4 DEF UpdateScan
  <2>3. QED
    BY <2>1, <2>2 DEF StoreNext
<1>5. CASE ClearMarker(w)
  <2>1. job[w].task \in Tasks
    BY <1>a, <1>5 DEF ClearMarker, LocalOK, TaskLabels
  <2>2. ClearReconciliationPending(job[w].task)
    BY <1>5 DEF ClearMarker
  <2>3. QED
    BY <2>1, <2>2 DEF StoreNext
<1>6. QED
  BY <1>1, <1>2, <1>3, <1>4, <1>5 DEF Reconcile

LEMMA MonitorWorkRefines ==
  ASSUME HandlersOK, NEW w \in Workers,
         \/ StartCheck(w) \/ QueryStale(w) \/ MarkOffline(w) \/ KeepOnline(w)
         \/ QuerySessions(w) \/ FinishCheck(w) \/ MonitorFails(w)
         \/ \E a \in Agents : RecoverOffline(w, a)
         \/ \E a \in Agents, e \in Epochs : RecoverSuperseded(w, a, e)
  PROVE  [StoreNext]_storeVars
<1>1. CASE MarkOffline(w)
  <2>1. job[w].agent \in Agents /\ MarkOfflineFromOnline(job[w].agent)
    BY <1>1 DEF HandlersOK, LocalOK, MarkOffline
  <2>2. QED
    BY <2>1 DEF StoreNext
<1>2. CASE ~MarkOffline(w)
  BY <1>2 DEF StartCheck, StartSweep, QueryStale, KeepOnline, QuerySessions, FinishCheck,
              MonitorFails, RecoverOffline, RecoverSuperseded, SelectScans
<1>3. QED
  BY <1>1, <1>2

LEMMA ClientMessageRefines ==
  ASSUME HandlersOK, NEW w \in Workers, ClientMessage(w)
  PROVE  [StoreNext]_storeVars
<1>1. CASE \E a \in Agents, e \in Epochs : RegisterSession(w, a, e)
  <2>1. \E a \in Agents : RecordConnection(a)
    BY <1>1 DEF RegisterSession
  <2>2. QED
    BY <2>1 DEF StoreNext
<1>2. CASE \/ Heartbeat(w) \/ RequestTask(w) \/ CloseStream(w)
           \/ \E t \in Tasks, result \in AgentResults : ReportResult(w, t, result)
  BY <1>2 DEF Heartbeat, RequestTask, Serve, ReportResult, CloseStream, EndStream
<1>3. QED
  BY <1>1, <1>2 DEF ClientMessage

LEMMA OperatorRefines ==
  ASSUME ExecutionTypeOK, Operator
  PROVE  [StoreNext]_storeVars
<1>1. CASE \E s \in Scans, a \in Agents \cup {NoAgent} : AdmitScan(s, a)
  BY <1>1 DEF AdmitScan
<1>2. ASSUME NEW s \in Scans, NEW skip \in Skips, CreateAdmitted(s, skip)
      PROVE  StoreNext
  <2>1. CreateScan(s, admitted[s], skip) /\ admitted[s] \in Agents \cup {NoAgent}
    BY <1>2 DEF CreateAdmitted, ExecutionTypeOK
  <2>2. skip \in SUBSET TasksOf(s)
    BY <2>1 DEF CreateScan
  <2>3. QED
    BY <2>1, <2>2 DEF StoreNext
<1>3. ASSUME NEW S \in SUBSET Scans, StopScans(S)
      PROVE  StoreNext
  BY <1>3 DEF StopScans, StoreNext
<1>4. ASSUME NEW s \in Scans, DeleteScan(s)
      PROVE  StoreNext
  BY <1>4 DEF DeleteScan, StoreNext
<1>5. ASSUME NEW a \in Agents, RemoveAgent(a)
      PROVE  StoreNext
  BY <1>5 DEF RemoveAgent, StoreNext
<1>6. QED
  BY <1>1, <1>2, <1>3, <1>4, <1>5 DEF Operator

LEMMA StepRefines ==
  ASSUME ExecutionIInv, [Next]_vars
  PROVE  [StoreNext]_storeVars
<1>a. HandlersOK /\ ExecutionTypeOK /\ Streams \subseteq Workers /\ Monitors \subseteq Workers
  BY DEF ExecutionIInv, Workers
<1>1. ASSUME NEW w \in Streams, StreamWork(w)
      PROVE  [StoreNext]_storeVars
  BY <1>a, <1>1, StreamWorkRefines, FailSelectedRefines, ReconcileRefines DEF StreamWork
<1>2. ASSUME NEW w \in Streams, ClientMessage(w)
      PROVE  [StoreNext]_storeVars
  BY <1>a, <1>2, ClientMessageRefines
<1>3. ASSUME NEW w \in Streams, BreakHandler(w)
      PROVE  [StoreNext]_storeVars
  BY <1>3 DEF BreakHandler, EndStream
<1>4. ASSUME NEW w \in Monitors, MonitorWork(w) \/ MonitorFails(w)
      PROVE  [StoreNext]_storeVars
  BY <1>a, <1>4, MonitorWorkRefines, FailSelectedRefines, ReconcileRefines DEF MonitorWork
<1>5. ASSUME NEW a \in Agents, Lapse(a)
      PROVE  StoreNext
  BY <1>5 DEF Lapse, StoreNext
<1>6. CASE Restart \/ UNCHANGED vars
  BY <1>6 DEF Restart, vars
<1>7. QED
  BY <1>a, <1>1, <1>2, <1>3, <1>4, <1>5, <1>6, OperatorRefines DEF Next

-----------------------------------------------------------------------------
(* Handlers keep their locals: a step moves one goroutine to a label for     *)
(* which its new locals are fit, or leaves all goroutines where they are.    *)

Fit(label, local) == label \in Labels /\ local \in JobRow /\ LocalOK(label, local)

Moves(w) == \E label, local : Goto(w, label, local) /\ Fit(label, local)

LEMMA MovesKeepHandlers ==
  ASSUME HandlersOK, NEW w \in Workers, Moves(w)
  PROVE  HandlersOK'
<1>1. PICK label, local : Goto(w, label, local) /\ Fit(label, local)
  BY DEF Moves
<1>2. pc' = [pc EXCEPT ![w] = label] /\ job' = [job EXCEPT ![w] = local]
  BY <1>1 DEF Goto
<1>3. pc' \in [Workers -> Labels] /\ job' \in [Workers -> JobRow]
  BY <1>1, <1>2 DEF HandlersOK, Fit
<1>4. ASSUME NEW v \in Workers
      PROVE  LocalOK(pc'[v], job'[v])
  <2>1. CASE v = w
    <3>1. pc'[v] = label /\ job'[v] = local
      BY <1>2, <2>1 DEF HandlersOK
    <3>2. QED
      BY <1>1, <3>1 DEF Fit
  <2>2. CASE v # w
    <3>1. pc'[v] = pc[v] /\ job'[v] = job[v]
      BY <1>2, <2>2 DEF HandlersOK
    <3>2. QED
      BY <3>1 DEF HandlersOK
  <2>3. QED
    BY <2>1, <2>2
<1>5. HandlersOK' <=> /\ pc' \in [Workers -> Labels] /\ job' \in [Workers -> JobRow]
                      /\ \A v \in Workers : LocalOK(pc'[v], job'[v])
  BY DEF HandlersOK, LocalOK
<1>6. QED
  BY <1>3, <1>4, <1>5

LEMMA NoJobFits ==
  /\ NoJob \in JobRow
  /\ Fit("idle", NoJob)
  /\ \A a \in Agents, e \in Epochs \ {0}, label \in {"persist", "serve"} :
        Fit(label, [NoJob EXCEPT !.agent = a, !.epoch = e])
  /\ \A A \in SUBSET Agents, label \in {"offline", "snapshot"} :
        Fit(label, [NoJob EXCEPT !.stale = A])
<1>1. 0 \in Epochs
  BY IdentityAssumption DEF Epochs
<1>2. NoJob \in JobRow
  BY <1>1 DEF NoJob, JobRow, Phases
<1>3. ASSUME NEW local \in JobRow, local.phase = "none",
             NEW label \in {"idle", "offline", "snapshot"}
      PROVE  Fit(label, local)
  BY <1>3 DEF Fit, Labels, LocalOK, SessionLabels, SessionPhases, TaskLabels, ScanLabels
<1>4. ASSUME NEW local \in JobRow, local.phase = "none",
             NEW label \in {"persist", "serve"},
             local.agent \in Agents, local.epoch \in Epochs \ {0}
      PROVE  Fit(label, local)
  BY <1>4 DEF Fit, Labels, LocalOK, SessionLabels, SessionPhases, TaskLabels, ScanLabels
<1>5. NoJob.phase = "none"
  BY DEF NoJob
<1>6. ASSUME NEW a \in Agents, NEW e \in Epochs \ {0}, NEW label \in {"persist", "serve"}
      PROVE  Fit(label, [NoJob EXCEPT !.agent = a, !.epoch = e])
  <2> DEFINE local == [NoJob EXCEPT !.agent = a, !.epoch = e]
  <2>1. local \in JobRow /\ local.phase = "none" /\ local.agent = a /\ local.epoch = e
    BY <1>2, <1>5 DEF JobRow
  <2> HIDE DEF local
  <2>2. Fit(label, local)
    BY <1>4, <2>1
  <2>3. QED
    BY <2>2 DEF local
<1>7. ASSUME NEW A \in SUBSET Agents, NEW label \in {"offline", "snapshot"}
      PROVE  Fit(label, [NoJob EXCEPT !.stale = A])
  <2> DEFINE local == [NoJob EXCEPT !.stale = A]
  <2>1. local \in JobRow /\ local.phase = "none"
    BY <1>2, <1>5 DEF JobRow
  <2> HIDE DEF local
  <2>2. Fit(label, local)
    BY <1>3, <2>1
  <2>3. QED
    BY <2>2 DEF local
<1>8. Fit("idle", NoJob)
  BY <1>2, <1>3, <1>5
<1>9. QED
  BY <1>2, <1>6, <1>7, <1>8

(* What a goroutine may hand to a recalculation of the scans S. *)
LEMMA RecalculationMoves ==
  ASSUME NEW w \in Workers, NEW local \in JobRow, NEW S \in SUBSET Scans,
         Recalculate(w, local, S),
         local.phase \in SessionPhases => local.agent \in Agents /\ local.epoch \in Epochs \ {0},
         local.phase = "offline" => local.agent \in Agents,
         local.task \in Tasks \/ local.phase \in RecoveryPhases
  PROVE  Moves(w)
<1> DEFINE next == [local EXCEPT !.scans = S, !.scan = None, !.verdict = "none"]
           label == IF S = {} THEN AfterScans(local.phase) ELSE "recalculate"
<1>1. Goto(w, label, next)
  BY DEF Recalculate
<1>2. /\ next \in JobRow /\ next.phase = local.phase /\ next.agent = local.agent
      /\ next.epoch = local.epoch /\ next.task = local.task
  BY DEF JobRow
<1>3. \/ label = "recalculate"
      \/ label = "list" /\ local.phase = "fence"
      \/ label = "mark offline" /\ local.phase = "offline"
      \/ label = "keep online"
      \/ label = "sessions" /\ local.phase = "sessions"
      \/ label = "clear" /\ local.phase \notin RecoveryPhases
  BY DEF AfterScans, RecoveryPhases
<1>4. label \in Labels
  BY <1>3 DEF Labels
<1>5. LocalOK(label, next)
  BY <1>2, <1>3 DEF LocalOK, SessionLabels, SessionPhases, TaskLabels, ScanLabels, RecoveryPhases
<1>6. QED
  BY <1>1, <1>2, <1>4, <1>5 DEF Moves, Fit

LEMMA SelectionMoves ==
  ASSUME NEW w \in Workers, NEW local \in JobRow, NEW S \in SUBSET Scans,
         SelectScans(w, local, S),
         local.phase = "fence" => local.epoch \in Epochs \ {0},
         local.agent \in Agents,
         local.phase \in {"fence", "offline", "sessions"}
  PROVE  Moves(w)
<1>1. CASE S = {}
  <2>1. Recalculate(w, local, {})
    BY <1>1 DEF SelectScans
  <2>2. QED
    BY <1>1, <2>1, RecalculationMoves DEF SessionPhases, RecoveryPhases
<1>2. CASE S # {}
  <2>1. Goto(w, "disconnect", [local EXCEPT !.scans = S])
    BY <1>2 DEF SelectScans
  <2>2. /\ [local EXCEPT !.scans = S] \in JobRow
        /\ LocalOK("disconnect", [local EXCEPT !.scans = S])
    BY DEF JobRow, LocalOK, SessionLabels, SessionPhases, TaskLabels, ScanLabels
  <2>3. QED
    BY <2>1, <2>2 DEF Moves, Fit, Labels
<1>3. QED
  BY <1>1, <1>2

LEMMA NextTaskMoves ==
  ASSUME HandlersOK, NEW w \in Workers, NEW T \in SUBSET Tasks, NextTask(w, T)
  PROVE  Moves(w)
<1> DEFINE local == [job[w] EXCEPT !.tasks = T, !.task = None, !.scans = {},
                                   !.scan = None, !.verdict = "none"]
<1>1. /\ job[w] \in JobRow
      /\ job[w].phase \in SessionPhases => job[w].agent \in Agents /\ job[w].epoch \in Epochs \ {0}
      /\ job[w].phase = "offline" => job[w].agent \in Agents
  BY DEF HandlersOK, LocalOK
<1>2. /\ local \in JobRow /\ local.phase = job[w].phase /\ local.agent = job[w].agent
      /\ local.epoch = job[w].epoch
  BY <1>1 DEF JobRow
<1>3. Fit("reconcile", local) /\ Fit("stale", local)
  BY <1>1, <1>2 DEF Fit, Labels, LocalOK, SessionLabels, SessionPhases, TaskLabels, ScanLabels
<1>4. local.phase = "drain" => Fit("list", local)
  BY <1>1, <1>2 DEF Fit, Labels, LocalOK, SessionLabels, SessionPhases, TaskLabels, ScanLabels
<1>5. \/ Goto(w, "reconcile", local)
      \/ local.phase = "drain" /\ Goto(w, "list", local)
      \/ Goto(w, "stale", local)
      \/ Goto(w, "idle", NoJob)
  BY <1>2 DEF NextTask
<1>6. QED
  BY <1>3, <1>4, <1>5, NoJobFits DEF Moves

(* Labels that ask nothing of the locals beyond what the phase asks. *)
PlainLabels == {"reconcile", "stale", "offline", "keep online", "snapshot", "idle"}

LEMMA PlainMove ==
  ASSUME NEW label \in PlainLabels, NEW local \in JobRow,
         local.phase \in SessionPhases => local.agent \in Agents /\ local.epoch \in Epochs \ {0},
         local.phase = "offline" => local.agent \in Agents
  PROVE  Fit(label, local)
  BY DEF PlainLabels, Fit, Labels, LocalOK, SessionLabels, SessionPhases, TaskLabels, ScanLabels

LEMMA SessionMove ==
  ASSUME NEW label \in SessionLabels \cup {"reconcile"}, NEW local \in JobRow,
         local.agent \in Agents, local.epoch \in Epochs \ {0},
         label \in TaskLabels => local.task \in Tasks
  PROVE  Fit(label, local)
  BY DEF Fit, Labels, LocalOK, SessionLabels, SessionPhases, TaskLabels, ScanLabels

LEMMA JobFacts ==
  ASSUME HandlersOK, NEW w \in Workers
  PROVE  /\ job[w] \in JobRow /\ LocalOK(pc[w], job[w])
         /\ job[w].agent \in Agents \cup {NoAgent} /\ job[w].epoch \in Epochs
         /\ job[w].tasks \in SUBSET Tasks /\ job[w].scans \in SUBSET Scans
         /\ job[w].stale \in SUBSET Agents
         /\ job[w].sessions \in SUBSET (Agents \X Epochs)
         /\ pc[w] \in SessionLabels => job[w].agent \in Agents /\ job[w].epoch \in Epochs \ {0}
         /\ job[w].phase \in SessionPhases =>
               job[w].agent \in Agents /\ job[w].epoch \in Epochs \ {0}
         /\ job[w].phase = "offline" => job[w].agent \in Agents
<1>1. job[w] \in JobRow /\ LocalOK(pc[w], job[w])
  BY DEF HandlersOK
<1>2. QED
  BY <1>1 DEF JobRow, LocalOK

LEMMA EndStreamMoves ==
  ASSUME NEW w \in Workers, EndStream(w)
  PROVE  Moves(w)
  BY NoJobFits DEF EndStream, Moves

LEMMA FailSelectedMoves ==
  ASSUME HandlersOK, NEW w \in Workers, FailSelected(w)
  PROVE  Moves(w)
<1>1. /\ Recalculate(w, job[w], job[w].scans)
      /\ job[w].phase \in {"fence", "offline", "sessions"}
  BY JobFacts DEF FailSelected, LocalOK
<1>2. QED
  BY <1>1, JobFacts, RecalculationMoves DEF RecoveryPhases

LEMMA StreamWorkMoves ==
  ASSUME HandlersOK, NEW w \in Workers,
         \/ PersistSession(w) \/ AttachSnapshot(w) \/ Fence(w) \/ ListSuperseded(w)
         \/ BecomeReady(w) \/ RecordHeartbeat(w) \/ AssignNothing(w)
         \/ \E r \in Requests, t \in Tasks : ClaimTask(w, r, t)
         \/ CommitResult(w) \/ MarkUnacknowledged(w) \/ Acknowledge(w)
         \/ ClearAcknowledged(w) \/ Reject(w)
  PROVE  Moves(w)
<1>a. pc[w] \in SessionLabels => job[w].agent \in Agents /\ job[w].epoch \in Epochs \ {0}
  BY JobFacts
<1>b. job[w] \in JobRow
  BY JobFacts
<1>1. CASE \/ PersistSession(w) \/ AttachSnapshot(w) \/ RecordHeartbeat(w) \/ AssignNothing(w)
           \/ \E r \in Requests, t \in Tasks : ClaimTask(w, r, t)
  <2>1. PICK label \in {"attach", "fence", "serve"} :
           Goto(w, label, job[w]) /\ pc[w] \in SessionLabels
    BY <1>1 DEF PersistSession, AttachSnapshot, RecordHeartbeat, AssignNothing, ClaimTask,
                SessionLabels
  <2>2. Fit(label, job[w])
    BY <1>a, <1>b, <2>1, SessionMove DEF SessionLabels, TaskLabels
  <2>3. QED
    BY <2>1, <2>2 DEF Moves
<1>2. CASE Fence(w)
  <2> DEFINE local == [job[w] EXCEPT !.phase = "fence"]
             S == SupersededScans(job[w].agent, job[w].epoch)
  <2>1. job[w].agent \in Agents /\ job[w].epoch \in Epochs \ {0}
    BY <1>a, <1>2 DEF Fence, SessionLabels
  <2>2. /\ local \in JobRow /\ local.phase = "fence" /\ local.agent = job[w].agent
        /\ local.epoch = job[w].epoch
    BY <1>b DEF JobRow, Phases
  <2>3. SelectScans(w, local, S)
    BY <1>2 DEF Fence
  <2>4. S \in SUBSET Scans
    BY DEF SupersededScans
  <2> HIDE DEF local, S
  <2>5. QED
    BY <2>1, <2>2, <2>3, <2>4, SelectionMoves
<1>3. CASE ListSuperseded(w)
  <2>1. PICK T \in SUBSET Tasks :
           Goto(w, IF T = {} THEN "ready" ELSE "reconcile",
                [job[w] EXCEPT !.phase = "drain", !.tasks = T])
    BY <1>3 DEF ListSuperseded, PendingReconciliation
  <2> DEFINE local == [job[w] EXCEPT !.phase = "drain", !.tasks = T]
  <2>2. /\ local \in JobRow /\ local.agent = job[w].agent /\ local.epoch = job[w].epoch
    BY <1>b DEF JobRow, Phases
  <2>3. job[w].agent \in Agents /\ job[w].epoch \in Epochs \ {0}
    BY <1>a, <1>3 DEF ListSuperseded, SessionLabels
  <2> HIDE DEF local
  <2>4. Fit("ready", local) /\ Fit("reconcile", local)
    BY <2>2, <2>3, SessionMove DEF SessionLabels, TaskLabels
  <2>5. Goto(w, "ready", local) \/ Goto(w, "reconcile", local)
    BY <2>1 DEF local
  <2>6. QED
    BY <2>4, <2>5 DEF Moves
<1>4. CASE BecomeReady(w) \/ ClearAcknowledged(w)
  <2>1. /\ Goto(w, "serve", [NoJob EXCEPT !.agent = job[w].agent, !.epoch = job[w].epoch])
        /\ pc[w] \in SessionLabels
    BY <1>4 DEF BecomeReady, ClearAcknowledged, SessionLabels
  <2>2. Fit("serve", [NoJob EXCEPT !.agent = job[w].agent, !.epoch = job[w].epoch])
    BY <1>a, <2>1, NoJobFits
  <2>3. QED
    BY <2>1, <2>2 DEF Moves
<1>5. CASE CommitResult(w)
  <2> DEFINE local == [job[w] EXCEPT !.result = "none"]
  <2>1. Goto(w, "reconcile", local)
    BY <1>5 DEF CommitResult, Committed, AlreadyCommitted
  <2>2. /\ local \in JobRow /\ local.agent = job[w].agent /\ local.epoch = job[w].epoch
    BY <1>b DEF JobRow
  <2>3. job[w].agent \in Agents /\ job[w].epoch \in Epochs \ {0}
    BY <1>a, <1>5 DEF CommitResult, SessionLabels
  <2> HIDE DEF local
  <2>4. Fit("reconcile", local)
    BY <2>2, <2>3, SessionMove DEF TaskLabels
  <2>5. QED
    BY <2>1, <2>4 DEF Moves
<1>6. CASE MarkUnacknowledged(w) \/ Acknowledge(w)
  <2>1. PICK label \in {"acknowledge", "unmark"} :
           Goto(w, label, job[w]) /\ pc[w] \in {"mark", "acknowledge"}
    BY <1>6 DEF MarkUnacknowledged, Acknowledge
  <2>2. job[w].task \in Tasks
    BY <2>1, JobFacts DEF LocalOK, TaskLabels
  <2>3. Fit(label, job[w])
    BY <1>a, <1>b, <2>1, <2>2, SessionMove DEF SessionLabels
  <2>4. QED
    BY <2>1, <2>3 DEF Moves
<1>7. CASE Reject(w)
  BY <1>7, EndStreamMoves DEF Reject
<1>8. QED
  BY <1>1, <1>2, <1>3, <1>4, <1>5, <1>6, <1>7

LEMMA ReconcileMoves ==
  ASSUME HandlersOK, NEW w \in Workers, Reconcile(w)
  PROVE  Moves(w)
<1>b. /\ job[w] \in JobRow /\ job[w].tasks \in SUBSET Tasks /\ job[w].scans \in SUBSET Scans
      /\ job[w].phase \in SessionPhases => job[w].agent \in Agents /\ job[w].epoch \in Epochs \ {0}
      /\ job[w].phase = "offline" => job[w].agent \in Agents
  BY JobFacts
<1>c. pc[w] \in {"unlock", "clear"} => job[w].task \in Tasks
  BY JobFacts DEF LocalOK, TaskLabels
<1>d. pc[w] \in ScanLabels => job[w].task \in Tasks \/ job[w].phase \in RecoveryPhases
  BY JobFacts DEF LocalOK
<1>1. CASE ReconcileNext(w)
  <2>1. PICK t \in job[w].tasks :
           \/ Goto(w, "unlock", [job[w] EXCEPT !.tasks = @ \ {t}, !.task = t])
           \/ Recalculate(w, [job[w] EXCEPT !.tasks = @ \ {t}, !.task = t], {ScanOf[t]})
    BY <1>1 DEF ReconcileNext
  <2> DEFINE local == [job[w] EXCEPT !.tasks = @ \ {t}, !.task = t]
  <2>2. t \in Tasks /\ {ScanOf[t]} \in SUBSET Scans
    BY <1>b, WorkflowAssumption
  <2>3. /\ local \in JobRow /\ local.agent = job[w].agent /\ local.epoch = job[w].epoch
        /\ local.phase = job[w].phase /\ local.task = t
    BY <1>b, <2>2 DEF JobRow
  <2>4. Goto(w, "unlock", local) \/ Recalculate(w, local, {ScanOf[t]})
    BY <2>1
  <2> HIDE DEF local
  <2>5. Fit("unlock", local)
    BY <1>b, <2>2, <2>3 DEF Fit, Labels, LocalOK, SessionLabels, SessionPhases, ScanLabels
  <2>6. CASE Recalculate(w, local, {ScanOf[t]})
    BY <1>b, <2>2, <2>3, <2>6, RecalculationMoves
  <2>7. QED
    BY <2>4, <2>5, <2>6 DEF Moves
<1>2. CASE UnlockStage(w)
  <2>1. Recalculate(w, job[w], {ScanOf[job[w].task]}) /\ job[w].task \in Tasks
    BY <1>2, <1>c DEF UnlockStage
  <2>2. {ScanOf[job[w].task]} \in SUBSET Scans
    BY <2>1, WorkflowAssumption
  <2>3. QED
    BY <1>b, <2>1, <2>2, RecalculationMoves
<1>3. CASE CountTasks(w)
  <2>1. pc[w] = "recalculate"
    BY <1>3 DEF CountTasks
  <2>2. PICK s \in job[w].scans :
          \/ Recalculate(w, job[w], job[w].scans \ {s})
          \/ /\ ResolvedStatus(s) # "undecided"
             /\ \E label \in {"update", "cancel"} :
                   Goto(w, label, [job[w] EXCEPT !.scans = @ \ {s}, !.scan = s,
                                                 !.verdict = ResolvedStatus(s)])
    BY <1>3 DEF CountTasks
  <2>3. CASE Recalculate(w, job[w], job[w].scans \ {s})
    <3>1. job[w].scans \ {s} \in SUBSET Scans
      BY <1>b
    <3>2. QED
      BY <1>b, <1>d, <2>1, <2>3, <3>1, RecalculationMoves DEF ScanLabels
  <2>4. ASSUME ResolvedStatus(s) # "undecided", NEW label \in {"update", "cancel"},
               Goto(w, label, [job[w] EXCEPT !.scans = @ \ {s}, !.scan = s,
                                             !.verdict = ResolvedStatus(s)])
        PROVE  Moves(w)
    <3> DEFINE verdict == ResolvedStatus(s)
               local == [job[w] EXCEPT !.scans = @ \ {s}, !.scan = s, !.verdict = verdict]
    <3>1. verdict \in TerminalScanStatuses /\ s \in Scans
      BY <1>b, <2>4 DEF ResolvedStatus, TerminalScanStatuses
    <3> HIDE DEF verdict
    <3>2. /\ local \in JobRow /\ local.agent = job[w].agent /\ local.epoch = job[w].epoch
          /\ local.phase = job[w].phase /\ local.task = job[w].task
          /\ local.scan = s /\ local.verdict = verdict
      BY <1>b, <3>1 DEF JobRow
    <3>3. Goto(w, label, local)
      BY <2>4 DEF verdict
    <3> HIDE DEF local
    <3>4. Fit(label, local)
      BY <1>b, <1>d, <2>1, <3>1, <3>2
         DEF Fit, Labels, LocalOK, SessionLabels, SessionPhases, ScanLabels, TaskLabels
    <3>5. QED
      BY <3>3, <3>4 DEF Moves
  <2>5. QED
    BY <2>2, <2>3, <2>4
<1>4. CASE CancelUnstarted(w)
  <2>1. Goto(w, "update", job[w]) /\ pc[w] = "cancel"
    BY <1>4 DEF CancelUnstarted
  <2>2. Fit("update", job[w])
    BY <1>b, <1>d, <2>1, JobFacts
       DEF Fit, Labels, LocalOK, SessionLabels, SessionPhases, ScanLabels, TaskLabels
  <2>3. QED
    BY <2>1, <2>2 DEF Moves
<1>5. CASE UpdateScan(w)
  <2>1. Recalculate(w, job[w], job[w].scans) /\ pc[w] \in ScanLabels
    BY <1>5 DEF UpdateScan, ScanLabels
  <2>2. QED
    BY <1>b, <1>d, <2>1, RecalculationMoves
<1>6. CASE ClearMarker(w)
  <2>1. CASE job[w].phase = "report"
    <3>1. Goto(w, "mark", job[w])
      BY <1>6, <2>1 DEF ClearMarker
    <3>2. Fit("mark", job[w])
      BY <1>b, <1>c, <1>6, <2>1, SessionMove DEF ClearMarker, SessionLabels, SessionPhases
    <3>3. QED
      BY <3>1, <3>2 DEF Moves
  <2>2. CASE job[w].phase # "report"
    BY <1>b, <1>6, <2>2, NextTaskMoves DEF ClearMarker
  <2>3. QED
    BY <2>1, <2>2
<1>7. QED
  BY <1>1, <1>2, <1>3, <1>4, <1>5, <1>6 DEF Reconcile

LEMMA NextStaleMoves ==
  ASSUME NEW w \in Workers, NEW A \in SUBSET Agents, NextStale(w, A)
  PROVE  Moves(w)
<1>1. PICK label \in {"offline", "snapshot"} : Goto(w, label, [NoJob EXCEPT !.stale = A])
  BY DEF NextStale
<1>2. QED
  BY <1>1, NoJobFits DEF Moves

LEMMA SessionsMoves ==
  ASSUME NEW w \in Workers, NEW X \in SUBSET (Agents \X Epochs), NEW local \in JobRow,
         local.phase = "sessions",
         Goto(w, "sessions", [local EXCEPT !.sessions = X])
  PROVE  Moves(w)
<1>1. /\ [local EXCEPT !.sessions = X] \in JobRow
      /\ [local EXCEPT !.sessions = X].phase = "sessions"
  BY DEF JobRow
<1>2. Fit("sessions", [local EXCEPT !.sessions = X])
  BY <1>1 DEF Fit, Labels, LocalOK, SessionLabels, SessionPhases, TaskLabels, ScanLabels
<1>3. QED
  BY <1>2 DEF Moves

LEMMA StartSweepMoves ==
  ASSUME NEW w \in Workers, NEW phase \in {"sweep", "last sweep"}, StartSweep(w, phase)
  PROVE  Moves(w)
<1> DEFINE local == [NoJob EXCEPT !.phase = phase, !.tasks = PendingReconciliation]
<1>1. local \in JobRow /\ local.phase = phase
  BY NoJobFits DEF JobRow, Phases, PendingReconciliation
<1>2. \/ Goto(w, "idle", NoJob)
      \/ \E label \in {"reconcile", "stale"} : Goto(w, label, local)
  BY DEF StartSweep
<1> HIDE DEF local
<1>3. \A label \in {"reconcile", "stale"} : Fit(label, local)
  BY <1>1, PlainMove DEF PlainLabels, SessionPhases
<1>4. QED
  BY <1>2, <1>3, NoJobFits DEF Moves

LEMMA MonitorWorkMoves ==
  ASSUME StoreTypeOK, HandlersOK, NEW w \in Workers,
         \/ StartCheck(w) \/ QueryStale(w) \/ MarkOffline(w) \/ KeepOnline(w)
         \/ QuerySessions(w) \/ FinishCheck(w)
         \/ \E a \in Agents : RecoverOffline(w, a)
         \/ \E a \in Agents, e \in Epochs : RecoverSuperseded(w, a, e)
  PROVE  Moves(w)
<1>b. /\ job[w] \in JobRow /\ job[w].stale \in SUBSET Agents
      /\ job[w].sessions \in SUBSET (Agents \X Epochs)
  BY JobFacts
<1>1. CASE StartCheck(w) \/ FinishCheck(w)
  BY <1>1, StartSweepMoves DEF StartCheck, FinishCheck
<1>2. CASE QueryStale(w) \/ MarkOffline(w) \/ KeepOnline(w)
  <2>1. PICK A \in SUBSET Agents : NextStale(w, A)
    BY <1>b, <1>2 DEF QueryStale, MarkOffline, KeepOnline, StaleOnline
  <2>2. QED
    BY <2>1, NextStaleMoves
<1>3. CASE QuerySessions(w)
  <2> DEFINE local == [NoJob EXCEPT !.phase = "sessions"]
  <2>1. local \in JobRow /\ local.phase = "sessions"
    BY NoJobFits DEF JobRow, Phases
  <2>2. OnlineSessions \in SUBSET (Agents \X Epochs)
    BY DEF OnlineSessions, StoreTypeOK, AgentRow
  <2>3. Goto(w, "sessions", [local EXCEPT !.sessions = OnlineSessions])
    BY <1>3 DEF QuerySessions
  <2> HIDE DEF local
  <2>4. QED
    BY <2>1, <2>2, <2>3, SessionsMoves
<1>4. ASSUME NEW a \in Agents, RecoverOffline(w, a)
      PROVE  Moves(w)
  <2> DEFINE local == [job[w] EXCEPT !.phase = "offline", !.agent = a, !.stale = @ \ {a}]
  <2>1. SelectScans(w, local, OfflineScans(a))
    BY <1>4 DEF RecoverOffline
  <2>2. local \in JobRow /\ local.agent = a /\ local.phase = "offline"
    BY <1>b DEF JobRow, Phases
  <2>3. OfflineScans(a) \in SUBSET Scans
    BY DEF OfflineScans
  <2> HIDE DEF local
  <2>4. QED
    BY <2>1, <2>2, <2>3, SelectionMoves
<1>5. ASSUME NEW a \in Agents, NEW e \in Epochs, RecoverSuperseded(w, a, e)
      PROVE  Moves(w)
  <2> DEFINE local == [job[w] EXCEPT !.agent = a, !.epoch = e, !.sessions = @ \ {<<a, e>>}]
  <2>1. SelectScans(w, local, SupersededScans(a, e)) /\ pc[w] = "sessions"
    BY <1>5 DEF RecoverSuperseded
  <2>2. job[w].phase = "sessions"
    BY <2>1, JobFacts DEF LocalOK
  <2>3. local \in JobRow /\ local.agent = a /\ local.phase = "sessions"
    BY <1>b, <2>2 DEF JobRow
  <2>4. SupersededScans(a, e) \in SUBSET Scans
    BY DEF SupersededScans
  <2> HIDE DEF local
  <2>5. QED
    BY <2>1, <2>3, <2>4, SelectionMoves
<1>6. QED
  BY <1>1, <1>2, <1>3, <1>4, <1>5

LEMMA MonitorFailsMoves ==
  ASSUME HandlersOK, NEW w \in Workers, MonitorFails(w)
  PROVE  Moves(w)
<1>b. /\ job[w] \in JobRow /\ job[w].tasks \in SUBSET Tasks
      /\ job[w].stale \in SUBSET Agents /\ job[w].sessions \in SUBSET (Agents \X Epochs)
      /\ job[w].scans \in SUBSET Scans
  BY JobFacts
<1>1. CASE SkipRecalculation(w)
  <2>1. \A S \in ScansLeft(w) : S \in SUBSET Scans
    BY <1>b DEF ScansLeft
  <2>2. CASE job[w].phase \in {"sweep", "last sweep"}
    BY <1>b, <1>1, <2>2, NextTaskMoves DEF SkipRecalculation
  <2>3. CASE job[w].phase = "sessions"
    <3>1. PICK S \in ScansLeft(w) : Recalculate(w, job[w], S)
      BY <1>1, <2>3 DEF SkipRecalculation
    <3>2. QED
      BY <1>b, <2>1, <2>3, <3>1, RecalculationMoves DEF SessionPhases, RecoveryPhases
  <2>4. CASE job[w].phase \notin {"sweep", "last sweep", "sessions"}
    <3> DEFINE local == [job[w] EXCEPT !.phase = "unrecovered"]
    <3>1. local \in JobRow /\ local.phase = "unrecovered"
      BY <1>b DEF JobRow, Phases
    <3>2. PICK S \in ScansLeft(w) : Recalculate(w, local, S)
      BY <1>1, <2>4 DEF SkipRecalculation
    <3> HIDE DEF local
    <3>3. QED
      BY <2>1, <3>1, <3>2, RecalculationMoves DEF SessionPhases, RecoveryPhases
  <2>5. QED
    BY <2>2, <2>3, <2>4
<1>2. CASE SkipRecovery(w)
  <2>1. ASSUME NEW A \in SUBSET Agents, NextStale(w, A)
        PROVE  Moves(w)
    BY <2>1, NextStaleMoves
  <2>2. CASE pc[w] = "disconnect" /\ Recalculate(w, job[w], {}) /\ job[w].phase # "offline"
    <3>1. job[w].phase \in {"fence", "sessions"}
      BY <2>2, JobFacts DEF LocalOK
    <3>2. QED
      BY <2>2, <3>1, JobFacts, RecalculationMoves DEF RecoveryPhases
  <2>3. ASSUME pc[w] = "sessions", NEW x \in job[w].sessions,
               Goto(w, "sessions", [job[w] EXCEPT !.sessions = @ \ {x}])
        PROVE  Moves(w)
    <3>1. job[w].phase = "sessions"
      BY <2>3, JobFacts DEF LocalOK
    <3>2. job[w].sessions \ {x} \in SUBSET (Agents \X Epochs)
      BY <1>b
    <3>3. QED
      BY <1>b, <2>3, <3>1, <3>2, SessionsMoves
  <2>4. CASE Goto(w, "sessions", [NoJob EXCEPT !.phase = "sessions"])
    <3> DEFINE local == [NoJob EXCEPT !.phase = "sessions"]
    <3>1. local \in JobRow /\ local.phase = "sessions"
      BY NoJobFits DEF JobRow, Phases
    <3>2. Fit("sessions", local)
      BY <3>1 DEF Fit, Labels, LocalOK, SessionLabels, SessionPhases, TaskLabels, ScanLabels
    <3>3. QED
      BY <2>4, <3>2 DEF Moves
  <2>5. \/ \E A \in SUBSET Agents : NextStale(w, A)
        \/ pc[w] = "disconnect" /\ Recalculate(w, job[w], {}) /\ job[w].phase # "offline"
        \/ pc[w] = "sessions" /\ \E x \in job[w].sessions :
              Goto(w, "sessions", [job[w] EXCEPT !.sessions = @ \ {x}])
        \/ Goto(w, "sessions", [NoJob EXCEPT !.phase = "sessions"])
    BY <1>b, <1>2 DEF SkipRecovery
  <2>6. QED
    BY <2>1, <2>2, <2>3, <2>4, <2>5
<1>3. QED
  BY <1>1, <1>2 DEF MonitorFails

LEMMA ClientMessageMoves ==
  ASSUME ExecutionTypeOK, HandlersOK, NEW w \in Workers, ClientMessage(w)
  PROVE  Moves(w) \/ UNCHANGED <<pc, job>>
<1>1. ASSUME NEW a \in Agents, NEW e \in Epochs, RegisterSession(w, a, e)
      PROVE  Moves(w)
  <2>1. /\ Goto(w, "persist", [NoJob EXCEPT !.agent = a, !.epoch = e])
        /\ e \in ReusableEpochs(a) \cup {NextEpoch(a)}
    BY <1>1 DEF RegisterSession
  <2>2. /\ live[a].epoch \in Nat /\ agent[a].epoch \in Nat /\ lastEpoch[a] \in Nat
    BY DEF ExecutionTypeOK, SessionRow, StoreTypeOK, AgentRow, Epochs
  <2>3. e # 0
    BY <2>1, <2>2 DEF ReusableEpochs, NextEpoch
  <2>4. QED
    BY <2>1, <2>3, NoJobFits DEF Moves
<1>2. ASSUME NEW t \in Tasks, NEW result \in AgentResults, ReportResult(w, t, result)
      PROVE  Moves(w)
  <2>1. PICK r \in AgentResults \cup {"none"}, label \in {"commit", "reconcile"} :
          Goto(w, label, [job[w] EXCEPT !.phase = "report", !.tasks = {t}, !.result = r])
    <3>1. job[w] \in JobRow
      BY JobFacts
    <3>2. [job[w] EXCEPT !.phase = "report", !.tasks = {t}] =
             [job[w] EXCEPT !.phase = "report", !.tasks = {t}, !.result = job[w].result]
      BY <3>1 DEF JobRow
    <3>3. job[w].result \in AgentResults \cup {"none"}
      BY <3>1 DEF JobRow
    <3>4. CASE Goto(w, "commit", [job[w] EXCEPT !.phase = "report", !.tasks = {t},
                                                !.result = result])
      BY <3>4
    <3>5. CASE Goto(w, "reconcile", [job[w] EXCEPT !.phase = "report", !.tasks = {t}])
      BY <3>2, <3>3, <3>5
    <3>6. QED
      BY <1>2, <3>4, <3>5 DEF ReportResult
  <2> DEFINE local == [job[w] EXCEPT !.phase = "report", !.tasks = {t}, !.result = r]
  <2>2. /\ local \in JobRow /\ local.agent = job[w].agent /\ local.epoch = job[w].epoch
    BY JobFacts DEF JobRow, Phases
  <2>3. job[w].agent \in Agents /\ job[w].epoch \in Epochs \ {0}
    BY <1>2, JobFacts DEF ReportResult, SessionLabels
  <2> HIDE DEF local
  <2>4. Fit(label, local)
    BY <2>2, <2>3, SessionMove DEF SessionLabels, TaskLabels
  <2>5. QED
    BY <2>1, <2>4 DEF Moves, local
<1>3. CASE CloseStream(w)
  BY <1>3, EndStreamMoves DEF CloseStream
<1>4. CASE Heartbeat(w) \/ RequestTask(w)
  <2>1. PICK label \in {"heartbeat", "claim"} : Goto(w, label, job[w]) /\ pc[w] = "serve"
    BY <1>4 DEF Heartbeat, RequestTask, Serve
  <2>2. Fit(label, job[w])
    BY <2>1, JobFacts, SessionMove DEF SessionLabels, TaskLabels
  <2>3. QED
    BY <2>1, <2>2 DEF Moves
<1>5. QED
  BY <1>1, <1>2, <1>3, <1>4 DEF ClientMessage

LEMMA HandlersStep ==
  ASSUME ExecutionIInv, [Next]_vars
  PROVE  HandlersOK'
<1>a. /\ HandlersOK /\ ExecutionTypeOK /\ StoreTypeOK
      /\ Streams \subseteq Workers /\ Monitors \subseteq Workers
  BY DEF ExecutionIInv, ExecutionTypeOK, Workers
<1>b. ASSUME UNCHANGED <<pc, job>>
      PROVE  HandlersOK'
  BY <1>a, <1>b DEF HandlersOK, LocalOK
<1>1. ASSUME NEW w \in Streams, StreamWork(w) \/ ClientMessage(w) \/ BreakHandler(w)
      PROVE  HandlersOK'
  <2>1. w \in Workers
    BY <1>a
  <2>2. Moves(w) \/ UNCHANGED <<pc, job>>
    BY <1>a, <1>1, <2>1, StreamWorkMoves, FailSelectedMoves, ReconcileMoves, ClientMessageMoves,
       EndStreamMoves
       DEF StreamWork, BreakHandler
  <2>3. QED
    BY <1>a, <1>b, <2>1, <2>2, MovesKeepHandlers
<1>2. ASSUME NEW w \in Monitors, MonitorWork(w) \/ MonitorFails(w)
      PROVE  HandlersOK'
  <2>1. w \in Workers
    BY <1>a
  <2>2. Moves(w)
    BY <1>a, <1>2, <2>1, MonitorWorkMoves, FailSelectedMoves, ReconcileMoves, MonitorFailsMoves
       DEF MonitorWork
  <2>3. QED
    BY <1>a, <2>1, <2>2, MovesKeepHandlers
<1>3. CASE Restart
  <2>1. pc' = [w \in Workers |-> "idle"] /\ job' = [w \in Workers |-> NoJob]
    BY <1>3 DEF Restart
  <2>2. \A w \in Workers : pc'[w] = "idle" /\ job'[w] = NoJob
    BY <2>1
  <2>3. "idle" \in Labels /\ NoJob \in JobRow /\ LocalOK("idle", NoJob)
    BY NoJobFits DEF Fit
  <2>4. pc' \in [Workers -> Labels] /\ job' \in [Workers -> JobRow]
    BY <2>1, <2>3
  <2>5. \A w \in Workers : LocalOK(pc'[w], job'[w])
    BY <2>2, <2>3
  <2>6. QED
    BY <2>4, <2>5 DEF HandlersOK, LocalOK
<1>4. CASE Operator \/ (\E a \in Agents : Lapse(a)) \/ UNCHANGED vars
  <2>1. UNCHANGED <<pc, job>>
    BY <1>4 DEF Operator, AdmitScan, CreateAdmitted, StopScans, DeleteScan, RemoveAgent, Lapse,
                memoryVars, vars
  <2>2. QED
    BY <1>b, <2>1
<1>5. QED
  BY <1>1, <1>2, <1>3, <1>4 DEF Next

-----------------------------------------------------------------------------
(* The registry, the admitted requests and the fault counter *)

RegistryOK ==
    /\ admitted \in [Scans -> Agents \cup {NoAgent, None}]
    /\ live \in [Agents -> SessionRow]
    /\ lastEpoch \in [Agents -> Epochs]
    /\ faults \in 0 .. MaxFaults

LEMMA SessionWrites ==
  /\ NoSession \in SessionRow
  /\ \A row \in SessionRow : /\ [row EXCEPT !.ready = TRUE] \in SessionRow
                             /\ [row EXCEPT !.stream = None, !.ready = FALSE] \in SessionRow
  /\ \A e \in Epochs, w \in Streams :
        [epoch |-> e, stream |-> w, ready |-> FALSE] \in SessionRow
<1>1. 0 \in Epochs
  BY IdentityAssumption DEF Epochs
<1>2. QED
  BY <1>1 DEF NoSession, SessionRow

LEMMA EndStreamKeepsRegistry ==
  ASSUME RegistryOK, NEW w \in Streams, EndStream(w)
  PROVE  /\ live' \in [Agents -> SessionRow]
         /\ UNCHANGED <<admitted, lastEpoch>>
<1>1. /\ UNCHANGED <<admitted, lastEpoch>>
      /\ live' = [a \in Agents |->
            IF a = job[w].agent /\ live[a].stream = w
            THEN [live[a] EXCEPT !.stream = None, !.ready = FALSE] ELSE live[a]]
  BY DEF EndStream, Detach
<1>2. \A a \in Agents : live[a] \in SessionRow
  BY DEF RegistryOK
<1>3. QED
  BY <1>1, <1>2, SessionWrites

LEMMA RegisterKeepsRegistry ==
  ASSUME StoreTypeOK, RegistryOK, NEW w \in Streams, NEW a \in Agents, NEW e \in Epochs,
         RegisterSession(w, a, e)
  PROVE  RegistryOK'
<1>1. /\ e \in ReusableEpochs(a) \cup ({NextEpoch(a)} \cap Epochs)
      /\ live' = [live EXCEPT ![a] = [epoch |-> e, stream |-> w, ready |-> FALSE]]
      /\ lastEpoch' = [lastEpoch EXCEPT
             ![a] = IF e = NextEpoch(a) THEN e ELSE NextEpoch(a) - 1]
      /\ UNCHANGED <<admitted, faults>>
  BY DEF RegisterSession
<1>2. agent[a].epoch \in Epochs /\ lastEpoch[a] \in Epochs
  BY DEF StoreTypeOK, AgentRow, RegistryOK
<1>3. NextEpoch(a) - 1 \in Epochs
  BY <1>2 DEF NextEpoch, Epochs
<1>4. live' \in [Agents -> SessionRow] /\ lastEpoch' \in [Agents -> Epochs]
  BY <1>1, <1>3, SessionWrites DEF RegistryOK
<1>5. QED
  BY <1>1, <1>4 DEF RegistryOK

LEMMA StreamKeepsRegistry ==
  ASSUME StoreTypeOK, RegistryOK, NEW w \in Streams,
         StreamWork(w) \/ ClientMessage(w) \/ BreakHandler(w)
  PROVE  RegistryOK'
<1>a. ASSUME UNCHANGED <<admitted, live, lastEpoch, faults>>
      PROVE  RegistryOK'
  BY <1>a DEF RegistryOK
<1>1. CASE StreamWork(w) /\ ~BecomeReady(w) /\ ~Reject(w)
  <2>1. UNCHANGED <<admitted, live, lastEpoch, faults>>
    BY <1>1 DEF StreamWork, PersistSession, AttachSnapshot, Fence, SelectScans, FailSelected,
                ListSuperseded, RecordHeartbeat, AssignNothing, ClaimTask,
                CommitResult, Committed, AlreadyCommitted, Reconcile, ReconcileNext,
                UnlockStage, CountTasks, CancelUnstarted, UpdateScan, ClearMarker,
                MarkUnacknowledged, Acknowledge, ClearAcknowledged, Rest
  <2>2. QED
    BY <1>a, <2>1
<1>2. CASE BecomeReady(w)
  <2>1. /\ live' = [live EXCEPT ![job[w].agent].ready = TRUE]
        /\ UNCHANGED <<admitted, lastEpoch, faults>>
    BY <1>2 DEF BecomeReady
  <2>2. live' \in [Agents -> SessionRow]
    BY <2>1, SessionWrites DEF RegistryOK
  <2>3. QED
    BY <2>1, <2>2 DEF RegistryOK
<1>3. CASE Reject(w) \/ CloseStream(w)
  BY <1>3, EndStreamKeepsRegistry DEF Reject, CloseStream, RegistryOK
<1>4. CASE BreakHandler(w)
  <2>1. faults' \in 0 .. MaxFaults
    BY <1>4, WorkersAssumption DEF BreakHandler, RegistryOK
  <2>2. QED
    BY <1>4, <2>1, EndStreamKeepsRegistry DEF BreakHandler, RegistryOK
<1>5. CASE \E a \in Agents, e \in Epochs : RegisterSession(w, a, e)
  BY <1>5, RegisterKeepsRegistry
<1>6. CASE ClientMessage(w) /\ ~CloseStream(w)
           /\ ~\E a \in Agents, e \in Epochs : RegisterSession(w, a, e)
  <2>1. UNCHANGED <<admitted, live, lastEpoch, faults>>
    BY <1>6 DEF ClientMessage, Heartbeat, RequestTask, Serve, ReportResult, Rest
  <2>2. QED
    BY <1>a, <2>1
<1>7. QED
  BY <1>1, <1>2, <1>3, <1>4, <1>5, <1>6

LEMMA RegistryStep ==
  ASSUME StoreTypeOK, RegistryOK, [Next]_vars
  PROVE  RegistryOK'
<1>a. ASSUME UNCHANGED <<admitted, live, lastEpoch, faults>>
      PROVE  RegistryOK'
  BY <1>a DEF RegistryOK
<1>1. ASSUME NEW w \in Streams, StreamWork(w) \/ ClientMessage(w) \/ BreakHandler(w)
      PROVE  RegistryOK'
  BY <1>1, StreamKeepsRegistry
<1>2. ASSUME NEW w \in Monitors, MonitorWork(w)
      PROVE  RegistryOK'
  <2>1. UNCHANGED <<admitted, live, lastEpoch, faults>>
    BY <1>2 DEF MonitorWork, StartCheck, StartSweep, QueryStale, MarkOffline, KeepOnline,
                QuerySessions, FailSelected, Reconcile, ReconcileNext, UnlockStage, CountTasks,
                CancelUnstarted, UpdateScan, ClearMarker, FinishCheck, RecoverOffline,
                RecoverSuperseded, SelectScans, Rest
  <2>2. QED
    BY <1>a, <2>1
<1>3. CASE \/ \E w \in Monitors : MonitorFails(w)
           \/ Restart
  <2>1. faults' \in 0 .. MaxFaults /\ UNCHANGED admitted
    BY <1>3, WorkersAssumption DEF MonitorFails, Restart, RegistryOK
  <2>2. live' \in [Agents -> SessionRow] /\ lastEpoch' \in [Agents -> Epochs]
    <3>1. 0 \in Epochs
      BY IdentityAssumption DEF Epochs
    <3>2. QED
      BY <1>3, <3>1, SessionWrites DEF MonitorFails, Restart, Registry, RegistryOK
  <2>3. QED
    BY <2>1, <2>2 DEF RegistryOK
<1>4. CASE Operator
  <2>1. UNCHANGED <<live, lastEpoch, faults>>
    BY <1>4 DEF Operator, AdmitScan, CreateAdmitted, StopScans, DeleteScan, RemoveAgent,
                memoryVars, Registry
  <2>2. admitted' \in [Scans -> Agents \cup {NoAgent, None}]
    BY <1>4 DEF Operator, AdmitScan, CreateAdmitted, StopScans, DeleteScan, RemoveAgent,
                memoryVars, RegistryOK
  <2>3. QED
    BY <2>1, <2>2 DEF RegistryOK
<1>5. CASE (\E a \in Agents : Lapse(a)) \/ UNCHANGED vars
  BY <1>a, <1>5 DEF Lapse, memoryVars, vars
<1>6. QED
  BY <1>1, <1>2, <1>3, <1>4, <1>5 DEF Next

-----------------------------------------------------------------------------
(* The theorems *)

LEMMA ExecutionInit == Init => ExecutionIInv
<1> SUFFICES ASSUME Init PROVE ExecutionIInv
  OBVIOUS
<1>1. StoreTypeOK
  BY TypeInit DEF Init
<1>2. RegistryOK
  <2>1. 0 \in Epochs
    BY IdentityAssumption DEF Epochs
  <2>2. NoSession \in SessionRow
    BY SessionWrites
  <2>3. 0 \in 0 .. MaxFaults
    BY WorkersAssumption
  <2>4. QED
    BY <2>1, <2>2, <2>3 DEF Init, RegistryOK
<1>3. HandlersOK
  <2>1. /\ pc = [w \in Workers |-> "idle"] /\ job = [w \in Workers |-> NoJob]
        /\ \A w \in Workers : pc[w] = "idle" /\ job[w] = NoJob
    BY DEF Init
  <2>2. "idle" \in Labels /\ NoJob \in JobRow /\ LocalOK("idle", NoJob)
    BY NoJobFits DEF Fit
  <2>3. \A w \in Workers : LocalOK(pc[w], job[w])
    BY <2>1, <2>2
  <2>4. QED
    BY <2>1, <2>2, <2>3 DEF HandlersOK
<1>4. QED
  BY <1>1, <1>2, <1>3 DEF ExecutionIInv, ExecutionTypeOK, RegistryOK, HandlersOK

LEMMA ExecutionStep == ExecutionIInv /\ [Next]_vars => ExecutionIInv'
<1> SUFFICES ASSUME ExecutionIInv, [Next]_vars PROVE ExecutionIInv'
  OBVIOUS
<1>1. StoreTypeOK /\ RegistryOK
  BY DEF ExecutionIInv, ExecutionTypeOK, RegistryOK
<1>2. StoreTypeOK'
  <2>1. CASE StoreNext
    BY <1>1, <2>1, TypeStep
  <2>2. CASE UNCHANGED storeVars
    BY <1>1, <2>2 DEF storeVars, StoreTypeOK
  <2>3. QED
    BY <2>1, <2>2, StepRefines
<1>3. RegistryOK' /\ HandlersOK'
  BY <1>1, RegistryStep, HandlersStep
<1>4. QED
  BY <1>2, <1>3 DEF ExecutionIInv, ExecutionTypeOK, RegistryOK, HandlersOK

(* Types and the fitness of the locals together are inductive. *)
THEOREM ExecutionInvariance == Spec => []ExecutionIInv
  BY ExecutionInit, ExecutionStep, PTL DEF Spec

(* The registry, the goroutines and their locals keep their types: no handler
   runs with an agent, a task or a verdict it never obtained. *)
THEOREM ExecutionTypeCorrectness == Spec => []ExecutionTypeOK
  BY ExecutionInvariance, PTL DEF ExecutionIInv

(* The goroutines implement the tables' specification: every step of a
   handler, of the monitor or of an operator is one transaction of ScanStore
   or leaves the tables alone. *)
THEOREM ExecutionImplementsStore == Spec => StoreSpec
<1>1. Init => StoreInit
  BY DEF Init
<1>2. ExecutionIInv /\ [Next]_vars => [StoreNext]_storeVars
  BY StepRefines
<1>3. QED
  BY <1>1, <1>2, ExecutionInvariance, PTL DEF Spec, StoreSpec

(* What is proved of the tables holds while the goroutines run. *)
COROLLARY ExecutionKeepsTheTables ==
  Spec => /\ []StoreInv
          /\ OutcomesAreFinal
          /\ SupersededSessionIsFenced
<1>1. StoreIInv => StoreInv
  BY DEF StoreIInv
<1>2. QED
  BY <1>1, ExecutionImplementsStore, StoreIInvariance, OutcomesNeverChange,
     SupersededSessionsAreFenced, PTL

-----------------------------------------------------------------------------
(* Stages.  StageBarrier is not inductive: an unlock trusts a count of tasks
   that another transaction read before it.  UnlocksAreDue says why the count
   is not stale: what is over stays over.                                  *)

(* A task whose stage has been opened; it may also have failed or been
   cancelled since, but so may a task whose stage never opened. *)
Opened == {"pending", "running", "succeeded"}

SameScan(t, u) == ScanOf[t] = ScanOf[u]

StagesInOrder ==
    \A t, u \in Tasks :
        SameScan(t, u) /\ task[u].status \in Opened =>
            /\ StageOf[t] < StageOf[u] => task[t].status \notin UnfinishedStatuses
            /\ StageOf[t] = StageOf[u] => task[t].status # "blocked"

Due(t) ==
    /\ t \in Tasks
    /\ task[t].status = "succeeded"
    /\ \A u \in Tasks : SameScan(u, t) /\ StageOf[u] <= StageOf[t]
                            => task[u].status \notin UnfinishedStatuses

UnlocksAreDue == \A w \in Workers : pc[w] = "unlock" => Due(job[w].task)

StageIInv == StagesInOrder /\ UnlocksAreDue

-----------------------------------------------------------------------------
(* Only creation and unlocking open a stage or block a task; after any other
   step fewer tasks are open, blocked or unfinished, and successes remain. *)

StageQuiet ==
    \A t \in Tasks :
        /\ task'[t].status \in Opened => task[t].status \in Opened
        /\ task'[t].status \in UnfinishedStatuses => task[t].status \in UnfinishedStatuses
        /\ task'[t].status \in UnstartedStatuses => task[t].status \in UnstartedStatuses
        /\ task'[t].status = "blocked" => task[t].status = "blocked"
        /\ task[t].status = "succeeded" => task'[t].status = "succeeded"

QuietTransaction ==
    \/ \E a \in Agents, e \in Epochs, r \in Requests, t \in Tasks : Claim(a, e, r, t)
    \/ \E t \in Tasks, a \in Agents, e \in Epochs, result \in AgentResults :
          CommitTerminalStatus(t, a, e, result)
    \/ \E s \in Scans : CancelUnstartedTasks(s)
    \/ \E t \in Tasks : MarkReconciliationPending(t) \/ ClearReconciliationPending(t)
    \/ \E S \in SUBSET Scans : \E T \in SUBSET RunningIn(S) : Disconnect(T)
    \/ \E S \in SUBSET Scans : StopActiveScans(S)
    \/ \E a \in Agents : DeleteAgent(a)
    \/ UNCHANGED task

LEMMA QuietTransactionsAreStageQuiet ==
  ASSUME StoreTypeOK, QuietTransaction
  PROVE  StageQuiet
<1>a. task \in [Tasks -> TaskRow] /\ \A t \in Tasks : task[t] \in TaskRow
  BY DEF StoreTypeOK
<1> USE DEF StageQuiet, Opened, UnfinishedStatuses, UnstartedStatuses
(* It is enough that the tasks whose status changes leave an open, a waiting or
   a running status for a final one, or are claimed. *)
<1>b. ASSUME \A t \in Tasks :
                \/ task'[t].status = task[t].status
                \/ task[t].status = "running" /\ task'[t].status \in AgentResults
                \/ /\ task[t].status \in UnfinishedStatuses
                   /\ task'[t].status \in {"failed", "cancelled"}
                \/ task[t].status = "pending" /\ task'[t].status = "running"
      PROVE  StageQuiet
  BY <1>b DEF AgentResults
<1>1. ASSUME NEW a \in Agents, NEW e \in Epochs, NEW r \in Requests, NEW t \in Tasks,
             Claim(a, e, r, t)
      PROVE  StageQuiet
  <2>1. task[t].status = "pending"
    BY <1>1 DEF Claim, Candidates
  <2>2. /\ task' = [task EXCEPT ![t] = [@ EXCEPT !.status = "running", !.agent = a,
                                                !.epoch = e, !.request = r]]
    BY <1>1 DEF Claim
  <2>3. task'[t].status = "running" /\ \A u \in Tasks \ {t} : task'[u] = task[u]
    BY <1>a, <2>2 DEF TaskRow
  <2>4. QED
    BY <1>b, <2>1, <2>3
<1>2. ASSUME NEW t \in Tasks, NEW a \in Agents, NEW e \in Epochs, NEW result \in AgentResults,
             CommitTerminalStatus(t, a, e, result)
      PROVE  StageQuiet
  <2>1. /\ task[t].status = "running"
        /\ task' = [task EXCEPT ![t] = [@ EXCEPT !.status = result, !.pending = TRUE,
                                                !.failure = FailureOf(result)]]
    BY <1>2 DEF CommitTerminalStatus
  <2>2. task'[t].status = result /\ \A u \in Tasks \ {t} : task'[u] = task[u]
    BY <1>a, <2>1 DEF TaskRow
  <2>3. QED
    BY <1>b, <2>1, <2>2
<1>3. ASSUME NEW s \in Scans, CancelUnstartedTasks(s)
      PROVE  StageQuiet
  <2>1. \A t \in Tasks : \/ task'[t] = task[t]
                         \/ /\ task[t].status \in UnstartedStatuses
                            /\ task'[t].status = "cancelled"
    BY <1>3, <1>a DEF CancelUnstartedTasks, TaskRow
  <2>2. QED
    BY <1>b, <2>1
<1>4. ASSUME NEW t \in Tasks, MarkReconciliationPending(t) \/ ClearReconciliationPending(t)
      PROVE  StageQuiet
  <2>1. PICK p \in BOOLEAN : task' = [task EXCEPT ![t].pending = p]
    BY <1>4 DEF MarkReconciliationPending, ClearReconciliationPending
  <2>2. \A u \in Tasks : task'[u].status = task[u].status
    BY <1>a, <2>1 DEF TaskRow
  <2>3. QED
    BY <1>b, <2>2
<1>5. ASSUME NEW S \in SUBSET Scans, NEW T \in SUBSET RunningIn(S), Disconnect(T)
      PROVE  StageQuiet
  <2>1. \A t \in Tasks : \/ task'[t] = task[t]
                         \/ task[t].status = "running" /\ task'[t].status = "failed"
    BY <1>5, <1>a DEF Disconnect, RunningIn, TaskRow
  <2>2. QED
    BY <1>b, <2>1
<1>6. ASSUME NEW S \in SUBSET Scans, StopActiveScans(S)
      PROVE  StageQuiet
  <2>1. \A t \in Tasks : \/ task'[t] = task[t]
                         \/ /\ task[t].status \in UnfinishedStatuses
                            /\ task'[t].status = "cancelled"
    BY <1>6, <1>a DEF StopActiveScans, TaskRow
  <2>2. QED
    BY <1>b, <2>1
<1>7. ASSUME NEW a \in Agents, DeleteAgent(a)
      PROVE  StageQuiet
  <2>1. \A t \in Tasks : \/ task'[t] = task[t]
                         \/ /\ task[t].status \in UnstartedStatuses
                            /\ task'[t].status = "failed"
    BY <1>7, <1>a DEF DeleteAgent, TaskRow
  <2>2. QED
    BY <1>b, <2>1
<1>8. CASE UNCHANGED task
  BY <1>b, <1>8
<1>9. QED
  BY <1>1, <1>2, <1>3, <1>4, <1>5, <1>6, <1>7, <1>8 DEF QuietTransaction

LEMMA StageSteps ==
  ASSUME ExecutionIInv, Next
  PROVE  \/ StageQuiet
         \/ \E w \in Workers : UnlockStage(w)
         \/ \E s \in Scans, a \in Agents \cup {NoAgent}, skip \in SUBSET Tasks :
               CreateScan(s, a, skip) /\ UNCHANGED <<pc, job>>
<1>a. HandlersOK /\ StoreTypeOK /\ Streams \subseteq Workers /\ Monitors \subseteq Workers
  BY DEF ExecutionIInv, ExecutionTypeOK, Workers
<1>b. ASSUME QuietTransaction
      PROVE  StageQuiet
  BY <1>a, <1>b, QuietTransactionsAreStageQuiet
<1>1. ASSUME NEW w \in Workers, CommitResult(w)
      PROVE  QuietTransaction
  <2>1. PICK t \in job[w].tasks : Committed(w, t) \/ AlreadyCommitted(w, t)
    BY <1>1 DEF CommitResult
  <2>2. t \in Tasks /\ job[w].agent \in Agents /\ job[w].epoch \in Epochs
    BY <1>1, <1>a, JobFacts DEF CommitResult, SessionLabels
  <2>3. CASE Committed(w, t)
    BY <2>2, <2>3 DEF Committed, QuietTransaction, CommitTerminalStatus
  <2>4. CASE AlreadyCommitted(w, t)
    BY <2>4 DEF AlreadyCommitted, QuietTransaction, storeVars
  <2>5. QED
    BY <2>1, <2>3, <2>4
<1>2. ASSUME NEW w \in Workers,
             MarkUnacknowledged(w) \/ ClearAcknowledged(w) \/ ClearMarker(w)
      PROVE  QuietTransaction
  <2>1. job[w].task \in Tasks
    BY <1>2, <1>a, JobFacts
       DEF MarkUnacknowledged, ClearAcknowledged, ClearMarker, LocalOK, TaskLabels
  <2>2. MarkReconciliationPending(job[w].task) \/ ClearReconciliationPending(job[w].task)
    BY <1>2 DEF MarkUnacknowledged, ClearAcknowledged, ClearMarker
  <2>3. QED
    BY <2>1, <2>2 DEF QuietTransaction
<1>3. ASSUME NEW w \in Workers, FailSelected(w)
      PROVE  QuietTransaction
  <2>1. job[w].scans \in SUBSET Scans
    BY <1>a, JobFacts
  <2>2. PICK T \in SUBSET RunningIn(job[w].scans) : Disconnect(T)
    BY <1>3 DEF FailSelected, FailTasksForOfflineAgent, FailTasksForSupersededSession
  <2>3. QED
    BY <2>1, <2>2 DEF QuietTransaction
<1>4. ASSUME NEW w \in Workers, CancelUnstarted(w)
      PROVE  QuietTransaction
  <2>1. job[w].scan \in Scans
    BY <1>4, <1>a, JobFacts DEF CancelUnstarted, LocalOK
  <2>2. CancelUnstartedTasks(job[w].scan)
    BY <1>4 DEF CancelUnstarted
  <2>3. QED
    BY <2>1, <2>2 DEF QuietTransaction
<1>5. ASSUME NEW w \in Workers, ReconcileNext(w) \/ CountTasks(w) \/ UpdateScan(w)
      PROVE  UNCHANGED task
  BY <1>5 DEF ReconcileNext, CountTasks, UpdateScan, UpdateScanStatus, storeVars
<1>6. ASSUME NEW w \in Workers, Reconcile(w)
      PROVE  StageQuiet \/ UnlockStage(w)
  BY <1>b, <1>2, <1>4, <1>5, <1>6 DEF Reconcile, QuietTransaction
<1>7. ASSUME NEW w \in Workers,
             \/ PersistSession(w) \/ AttachSnapshot(w) \/ Fence(w) \/ ListSuperseded(w)
             \/ BecomeReady(w) \/ RecordHeartbeat(w) \/ AssignNothing(w) \/ Acknowledge(w)
             \/ Reject(w) \/ BreakHandler(w) \/ ClientMessage(w)
      PROVE  UNCHANGED task
  BY <1>7 DEF PersistSession, AttachSnapshot, UpdateHeartbeat, Fence, SelectScans,
              ListSuperseded, BecomeReady, RecordHeartbeat, AssignNothing, Acknowledge, Reject,
              BreakHandler, EndStream, ClientMessage, RegisterSession, RecordConnection,
              Heartbeat, RequestTask, Serve, ReportResult, CloseStream, storeVars
<1>8. ASSUME NEW w \in Workers,
             \/ StartCheck(w) \/ QueryStale(w) \/ MarkOffline(w) \/ KeepOnline(w)
             \/ QuerySessions(w) \/ FinishCheck(w) \/ MonitorFails(w)
             \/ \E a \in Agents : RecoverOffline(w, a)
             \/ \E a \in Agents, e \in Epochs : RecoverSuperseded(w, a, e)
      PROVE  UNCHANGED task
  BY <1>8 DEF StartCheck, StartSweep, QueryStale, MarkOffline, MarkOfflineFromOnline, KeepOnline,
              QuerySessions, FinishCheck, MonitorFails, RecoverOffline, RecoverSuperseded,
              SelectScans, storeVars
<1>9. ASSUME NEW w \in Workers, NEW r \in Requests, NEW t \in Tasks, ClaimTask(w, r, t)
      PROVE  QuietTransaction
  <2>1. job[w].agent \in Agents /\ job[w].epoch \in Epochs
    BY <1>9, <1>a, JobFacts DEF ClaimTask, SessionLabels
  <2>2. Claim(job[w].agent, job[w].epoch, r, t)
    BY <1>9 DEF ClaimTask
  <2>3. QED
    BY <2>1, <2>2 DEF QuietTransaction
<1>10. ASSUME NEW s \in Scans, NEW skip \in Skips, CreateAdmitted(s, skip)
       PROVE  \E a \in Agents \cup {NoAgent}, skipped \in SUBSET Tasks :
                 CreateScan(s, a, skipped) /\ UNCHANGED <<pc, job>>
  <2>1. /\ CreateScan(s, admitted[s], skip) /\ admitted[s] # None
        /\ UNCHANGED <<pc, job>>
    BY <1>10 DEF CreateAdmitted
  <2>2. admitted[s] \in Agents \cup {NoAgent} /\ skip \in SUBSET Tasks
    BY <2>1, WorkersAssumption DEF ExecutionIInv, ExecutionTypeOK
  <2>3. QED
    BY <2>1, <2>2
<1>11. CASE \/ \E s \in Scans, a \in Agents \cup {NoAgent} : AdmitScan(s, a)
            \/ \E S \in SUBSET Scans : StopScans(S)
            \/ \E s \in Scans : DeleteScan(s)
            \/ \E a \in Agents : RemoveAgent(a)
            \/ \E a \in Agents : Lapse(a)
            \/ Restart
  BY <1>b, <1>11 DEF AdmitScan, StopScans, DeleteScan, SoftDelete, RemoveAgent, Lapse,
                     HeartbeatLapses, Restart, storeVars, QuietTransaction
<1>12. QED
  <2>1. ASSUME NEW w \in Streams, StreamWork(w) \/ ClientMessage(w) \/ BreakHandler(w)
        PROVE  StageQuiet \/ UnlockStage(w)
    <3>1. w \in Workers
      BY <1>a
    <3>2. QED
      BY <1>b, <1>1, <1>2, <1>3, <1>6, <1>7, <1>9, <2>1, <3>1 DEF StreamWork, QuietTransaction
  <2>2. ASSUME NEW w \in Monitors, MonitorWork(w) \/ MonitorFails(w)
        PROVE  StageQuiet \/ UnlockStage(w)
    <3>1. w \in Workers
      BY <1>a
    <3>2. QED
      BY <1>b, <1>3, <1>6, <1>8, <2>2, <3>1 DEF MonitorWork, QuietTransaction
  <2>3. QED
    BY <1>a, <1>10, <1>11, <2>1, <2>2 DEF Next, Operator

-----------------------------------------------------------------------------
(* The stages stay in order *)

LEMMA StageQuietKeepsOrder ==
  ASSUME StagesInOrder, StageQuiet
  PROVE  StagesInOrder'
  BY DEF StagesInOrder, StageQuiet

LEMMA StageQuietKeepsDue ==
  ASSUME NEW t, Due(t), StageQuiet
  PROVE  Due(t)'
  BY DEF Due, StageQuiet

LEMMA CreationKeepsOrder ==
  ASSUME StagesInOrder, NEW s \in Scans, NEW a \in Agents \cup {NoAgent},
         NEW skip \in SUBSET Tasks, CreateScan(s, a, skip)
  PROVE  StagesInOrder'
<1>1. ASSUME NEW t \in TasksOf(s)
      PROVE  task'[t].status = CreatedStatus(t, s, skip)
  BY <1>1 DEF CreateScan, TasksOf, NoTask
<1>2. \A t \in Tasks \ TasksOf(s) : task'[t] = task[t]
  BY DEF CreateScan
<1>3. ASSUME NEW t \in Tasks, NEW u \in Tasks, SameScan(t, u), task'[u].status \in Opened
      PROVE  /\ StageOf[t] < StageOf[u] => task'[t].status \notin UnfinishedStatuses
             /\ StageOf[t] = StageOf[u] => task'[t].status # "blocked"
  <2>1. CASE ScanOf[t] = s
    <3>1. /\ t \in TasksOf(s) /\ u \in TasksOf(s)
          /\ StageOf[t] \in Nat /\ StageOf[u] \in Nat
      BY <1>3, <2>1, WorkflowAssumption DEF SameScan, TasksOf
    <3>2. u \notin skip /\ InFirstStage(u, s, skip)
      BY <1>1, <1>3, <3>1 DEF CreatedStatus, Opened
    <3>3. t \notin skip => StageOf[u] <= StageOf[t]
      BY <3>1, <3>2 DEF InFirstStage, Executable
    <3>4. t \in skip => task'[t].status = "skipped"
      BY <1>1, <3>1 DEF CreatedStatus
    <3>5. t \notin skip /\ StageOf[t] = StageOf[u] => task'[t].status = "pending"
      BY <1>1, <3>1, <3>2 DEF CreatedStatus, InFirstStage
    <3>6. QED
      BY <3>1, <3>3, <3>4, <3>5 DEF UnfinishedStatuses, UnstartedStatuses
  <2>2. CASE ScanOf[t] # s
    <3>1. task'[t] = task[t] /\ task'[u] = task[u]
      BY <1>2, <1>3, <2>2 DEF SameScan, TasksOf
    <3>2. QED
      BY <1>3, <3>1 DEF StagesInOrder
  <2>3. QED
    BY <2>1, <2>2
<1>4. QED
  BY <1>3 DEF StagesInOrder

(* The tasks of a scan that is created did not exist, so no unlock waits for
   one of them. *)
LEMMA CreationKeepsDue ==
  ASSUME StoreIInv, NEW t, Due(t), NEW s \in Scans, NEW a \in Agents \cup {NoAgent},
         NEW skip \in SUBSET Tasks, CreateScan(s, a, skip)
  PROVE  Due(t)'
<1>1. t \in Tasks /\ ScanOf[t] # s
  BY DEF Due, CreateScan, StoreIInv, NothingBeforeCreation
<1>2. \A u \in Tasks : SameScan(u, t) => task'[u] = task[u]
  BY <1>1 DEF CreateScan, SameScan, TasksOf
<1>3. QED
  BY <1>1, <1>2 DEF Due, SameScan

(* A due unlock opens the earliest stage that is left, as a whole, and nothing
   before it is unfinished. *)
LEMMA UnlockKeepsOrder ==
  ASSUME StoreTypeOK, StagesInOrder, NEW j, Due(j),
         UnlockNextStageOrder(ScanOf[j], StageOf[j])
  PROVE  StagesInOrder'
<1> DEFINE s == ScanOf[j]
           k == StageOf[j]
           Opening == NextStage(s, k)
<1>a. /\ j \in Tasks /\ task \in [Tasks -> TaskRow]
      /\ \A t \in Tasks : StageOf[t] \in Nat /\ task[t] \in TaskRow
  BY WorkflowAssumption DEF Due, StoreTypeOK
<1>1. /\ \A t \in Opening : t \in Tasks /\ task[t].status = "blocked" /\ task'[t].status = "pending"
      /\ \A t \in Tasks \ Opening : task'[t] = task[t]
  BY <1>a DEF UnlockNextStageOrder, NextStage, Unlockable, TasksOf, TaskRow
<1>2. ASSUME NEW u \in Opening, NEW t \in Tasks, SameScan(t, u), StageOf[t] < StageOf[u]
      PROVE  task[t].status \notin UnfinishedStatuses
  <2>1. /\ u \in Unlockable(s, k) /\ ScanOf[t] = s /\ StageOf[u] > k
        /\ \A v \in Unlockable(s, k) : StageOf[u] <= StageOf[v]
    BY <1>2 DEF NextStage, Unlockable, TasksOf, SameScan
  <2>2. CASE StageOf[t] <= k
    BY <2>1, <2>2 DEF Due, SameScan
  <2>3. CASE StageOf[t] > k
    <3>1. task[t].status \notin {"pending", "running"}
      BY <1>2, <2>1, <2>3 DEF Unlockable, TasksOf
    <3>2. task[t].status # "blocked"
      <4>1. SUFFICES ASSUME task[t].status = "blocked" PROVE FALSE
        OBVIOUS
      <4>2. ASSUME NEW v \in TasksOf(s), StageOf[v] > k, StageOf[v] < StageOf[t]
            PROVE  task[v].status \notin {"pending", "running", "failed", "cancelled"}
        <5>1. StageOf[v] < StageOf[u]
          BY <1>2, <1>a, <1>1, <4>2 DEF TasksOf
        <5>2. QED
          BY <2>1, <4>2, <5>1 DEF Unlockable
      <4>3. t \in Unlockable(s, k)
        BY <2>1, <2>3, <4>1, <4>2 DEF Unlockable, TasksOf
      <4>4. StageOf[u] <= StageOf[t]
        BY <2>1, <4>3
      <4>5. QED
        BY <1>2, <1>a, <1>1, <4>4
    <3>3. QED
      BY <3>1, <3>2 DEF UnfinishedStatuses, UnstartedStatuses
  <2>4. QED
    BY <1>a, <2>2, <2>3
<1>3. ASSUME NEW u \in Opening, NEW t \in Tasks, SameScan(t, u), StageOf[t] = StageOf[u],
             task[t].status = "blocked"
      PROVE  t \in Opening
  BY <1>3 DEF NextStage, Unlockable, TasksOf, SameScan
<1>4. ASSUME NEW t \in Tasks, NEW u \in Tasks, SameScan(t, u), task'[u].status \in Opened
      PROVE  /\ StageOf[t] < StageOf[u] => task'[t].status \notin UnfinishedStatuses
             /\ StageOf[t] = StageOf[u] => task'[t].status # "blocked"
  <2>1. CASE u \in Opening
    <3>1. ASSUME StageOf[t] < StageOf[u]
          PROVE  task'[t].status \notin UnfinishedStatuses
      <4>1. task[t].status \notin UnfinishedStatuses
        BY <1>2, <1>4, <2>1, <3>1
      <4>2. t \notin Opening
        BY <1>1, <4>1 DEF UnfinishedStatuses, UnstartedStatuses
      <4>3. QED
        BY <1>1, <4>1, <4>2
    <3>2. ASSUME StageOf[t] = StageOf[u]
          PROVE  task'[t].status # "blocked"
      BY <1>1, <1>3, <1>4, <2>1, <3>2
    <3>3. QED
      BY <3>1, <3>2
  <2>2. CASE u \notin Opening
    <3>1. task[u].status \in Opened
      BY <1>1, <1>4, <2>2
    <3>2. /\ StageOf[t] < StageOf[u] => task[t].status \notin UnfinishedStatuses
          /\ StageOf[t] = StageOf[u] => task[t].status # "blocked"
      BY <1>4, <3>1 DEF StagesInOrder
    <3>3. CASE t \in Opening
      BY <1>1, <3>2, <3>3 DEF UnfinishedStatuses, UnstartedStatuses
    <3>4. CASE t \notin Opening
      BY <1>1, <3>2, <3>4
    <3>5. QED
      BY <3>3, <3>4
  <2>3. QED
    BY <2>1, <2>2
<1>5. QED
  BY <1>4 DEF StagesInOrder

(* It also leaves alone what another unlock has found finished. *)
LEMMA UnlockKeepsDue ==
  ASSUME StoreTypeOK, NEW t, Due(t), NEW s, NEW k, UnlockNextStageOrder(s, k)
  PROVE  Due(t)'
<1>1. ASSUME NEW u \in Tasks, task[u].status # "blocked"
      PROVE  task'[u] = task[u]
  BY <1>1 DEF UnlockNextStageOrder, NextStage, Unlockable
<1>2. t \in Tasks /\ task[t].status = "succeeded"
  BY DEF Due
<1>3. QED
  BY <1>1, <1>2 DEF Due, SameScan, UnfinishedStatuses, UnstartedStatuses

-----------------------------------------------------------------------------
(* A goroutine gets to an unlock only from ReconcileNext. *)

Elsewhere(w) == \E label, local : label # "unlock" /\ Goto(w, label, local)

LEMMA ElsewhereKeepsUnlocks ==
  ASSUME HandlersOK, NEW v \in Workers, Elsewhere(v),
         NEW w \in Workers, pc'[w] = "unlock"
  PROVE  pc[w] = "unlock" /\ job'[w] = job[w]
  BY DEF HandlersOK, Elsewhere, Goto

LEMMA RecalculationGoesElsewhere ==
  ASSUME NEW w, NEW local, NEW S, Recalculate(w, local, S)
  PROVE  Elsewhere(w)
  BY DEF Recalculate, AfterScans, Elsewhere

LEMMA OthersGoElsewhere ==
  ASSUME NEW w \in Workers,
         \/ StreamWork(w) \/ BreakHandler(w) \/ MonitorWork(w) \/ MonitorFails(w)
         \/ ClientMessage(w),
         ~ReconcileNext(w)
  PROVE  Elsewhere(w) \/ UNCHANGED <<pc, job>>
<1> USE RecalculationGoesElsewhere
<1>1. CASE StreamWork(w) /\ ~Reconcile(w) /\ ~FailSelected(w)
  BY <1>1 DEF StreamWork, PersistSession, AttachSnapshot, Fence, SelectScans, ListSuperseded,
              BecomeReady, RecordHeartbeat, AssignNothing, ClaimTask, CommitResult, Committed,
              AlreadyCommitted, MarkUnacknowledged, Acknowledge, ClearAcknowledged,
              Reject, EndStream, Elsewhere
<1>2. CASE UnlockStage(w) \/ CancelUnstarted(w) \/ UpdateScan(w) \/ FailSelected(w)
  BY <1>2 DEF UnlockStage, CancelUnstarted, UpdateScan, FailSelected, Elsewhere
<1>3. CASE CountTasks(w)
  <2>1. PICK s \in job[w].scans :
          \/ Recalculate(w, job[w], job[w].scans \ {s})
          \/ \E label \in {"update", "cancel"} : \E local : Goto(w, label, local)
    BY <1>3 DEF CountTasks
  <2>2. QED
    BY <2>1 DEF Elsewhere
<1>4. ASSUME NEW T, NextTask(w, T)
      PROVE  Elsewhere(w)
  BY <1>4 DEF NextTask, Elsewhere
<1>5. CASE ClearMarker(w)
  BY <1>4, <1>5 DEF ClearMarker, Elsewhere
<1>6. ASSUME NEW A, NextStale(w, A)
      PROVE  Elsewhere(w)
  BY <1>6 DEF NextStale, Elsewhere
<1>7. CASE MonitorWork(w) /\ ~Reconcile(w) /\ ~FailSelected(w)
  BY <1>6, <1>7 DEF MonitorWork, StartCheck, StartSweep, QueryStale, MarkOffline, KeepOnline,
                    QuerySessions, FinishCheck, RecoverOffline, RecoverSuperseded, SelectScans,
                    Elsewhere
<1>8. CASE MonitorFails(w)
  BY <1>4, <1>6, <1>8 DEF MonitorFails, SkipRecalculation, SkipRecovery, Elsewhere
<1>9. CASE ClientMessage(w) \/ BreakHandler(w)
  BY <1>9 DEF ClientMessage, RegisterSession, Heartbeat, RequestTask, Serve, ReportResult,
              CloseStream, BreakHandler, EndStream, Elsewhere
<1>10. QED
  BY <1>1, <1>2, <1>3, <1>5, <1>7, <1>8, <1>9 DEF StreamWork, MonitorWork, Reconcile

(* ReconcileNext sees a success and no waiting or running task of its stage:
   by StagesInOrder nothing of the stage is blocked and nothing before it is
   unfinished. *)
LEMMA ArrivalIsDue ==
  ASSUME HandlersOK, StagesInOrder, NEW w \in Workers, ReconcileNext(w), pc'[w] = "unlock"
  PROVE  Due(job[w].task)'
<1>1. PICK t \in job[w].tasks :
         LET local == [job[w] EXCEPT !.tasks = @ \ {t}, !.task = t]
         IN  IF task[t].status = "succeeded" /\ ~StageHasActive(t)
             THEN Goto(w, "unlock", local) ELSE Recalculate(w, local, {ScanOf[t]})
  BY DEF ReconcileNext
<1>2. /\ job[w] \in JobRow /\ t \in Tasks /\ UNCHANGED task
  BY JobFacts DEF ReconcileNext, storeVars
<1>3. /\ task[t].status = "succeeded" /\ ~StageHasActive(t)
      /\ Goto(w, "unlock", [job[w] EXCEPT !.tasks = @ \ {t}, !.task = t])
  <2>1. ASSUME NEW local, Recalculate(w, local, {ScanOf[t]})
        PROVE  FALSE
    <3>1. pc' = [pc EXCEPT ![w] = "recalculate"]
      BY <2>1 DEF Recalculate, Goto
    <3>2. QED
      BY <3>1 DEF HandlersOK
  <2>2. QED
    BY <1>1, <2>1
<1>4. job'[w].task = t
  BY <1>2, <1>3 DEF Goto, HandlersOK, JobRow
<1>5. ASSUME NEW u \in Tasks, SameScan(u, t), StageOf[u] <= StageOf[t]
      PROVE  task[u].status \notin UnfinishedStatuses
  <2>1. StageOf[u] \in Nat /\ StageOf[t] \in Nat
    BY <1>2, WorkflowAssumption
  <2>2. CASE StageOf[u] < StageOf[t]
    BY <1>2, <1>3, <1>5, <2>2 DEF StagesInOrder, Opened
  <2>3. CASE StageOf[u] = StageOf[t]
    <3>1. task[u].status # "blocked"
      BY <1>2, <1>3, <1>5, <2>3 DEF StagesInOrder, Opened
    <3>2. task[u].status \notin {"pending", "running"}
      BY <1>3, <1>5, <2>3 DEF StageHasActive, TasksOf, SameScan
    <3>3. QED
      BY <3>1, <3>2 DEF UnfinishedStatuses, UnstartedStatuses
  <2>4. QED
    BY <1>5, <2>1, <2>2, <2>3
<1>6. QED
  BY <1>2, <1>3, <1>4, <1>5 DEF Due

LEMMA UnlockersAreDue ==
  ASSUME ExecutionIInv, StoreIInv, StageIInv, Next,
         NEW w \in Workers, pc'[w] = "unlock"
  PROVE  Due(job[w].task)'
<1>a. /\ HandlersOK /\ StoreTypeOK /\ StagesInOrder /\ UnlocksAreDue
      /\ Streams \subseteq Workers /\ Monitors \subseteq Workers
  BY DEF ExecutionIInv, ExecutionTypeOK, StageIInv, Workers
<1>1. \/ \E v \in Workers : ReconcileNext(v)
      \/ \E v \in Workers : Elsewhere(v)
      \/ UNCHANGED <<pc, job>>
      \/ Restart
  BY <1>a, OthersGoElsewhere
     DEF Next, Operator, AdmitScan, CreateAdmitted, StopScans, DeleteScan, RemoveAgent, Lapse,
         memoryVars
<1>2. CASE ReconcileNext(w)
  BY <1>a, <1>2, ArrivalIsDue
<1>3. CASE ~ReconcileNext(w)
  <2>1. pc[w] = "unlock" /\ job'[w] = job[w]
    <3>1. ASSUME NEW v \in Workers, ReconcileNext(v)
          PROVE  pc[w] = "unlock" /\ job'[w] = job[w]
      <4>1. v # w
        BY <1>3, <3>1
      <4>2. \E label, local : Goto(v, label, local)
        BY <3>1 DEF ReconcileNext, Recalculate
      <4>3. QED
        BY <1>a, <4>1, <4>2 DEF Goto, HandlersOK
    <3>2. ASSUME NEW v \in Workers, Elsewhere(v)
          PROVE  pc[w] = "unlock" /\ job'[w] = job[w]
      BY <1>a, <3>2, ElsewhereKeepsUnlocks
    <3>3. CASE UNCHANGED <<pc, job>>
      BY <3>3
    <3>4. CASE Restart
      BY <3>4 DEF Restart
    <3>5. QED
      BY <1>1, <3>1, <3>2, <3>3, <3>4
  <2>2. PICK t : t = job[w].task
    OBVIOUS
  <2>3. Due(t)
    BY <1>a, <2>1, <2>2 DEF UnlocksAreDue
  <2>4. Due(t)'
    <3>1. CASE StageQuiet
      BY <2>3, <3>1, StageQuietKeepsDue
    <3>2. ASSUME NEW v \in Workers, UnlockStage(v)
          PROVE  Due(t)'
      BY <1>a, <2>3, <3>2, UnlockKeepsDue DEF UnlockStage
    <3>3. ASSUME NEW s \in Scans, NEW a \in Agents \cup {NoAgent}, NEW skip \in SUBSET Tasks,
                 CreateScan(s, a, skip)
          PROVE  Due(t)'
      BY <2>3, <3>3, CreationKeepsDue
    <3>4. QED
      BY <3>1, <3>2, <3>3, StageSteps
  <2>5. job'[w].task = t
    BY <2>1, <2>2
  <2>6. QED
    BY <2>4, <2>5 DEF Due
<1>4. QED
  BY <1>2, <1>3

LEMMA OrderStep ==
  ASSUME ExecutionIInv, StageIInv, Next
  PROVE  StagesInOrder'
<1>a. /\ StoreTypeOK /\ StagesInOrder /\ UnlocksAreDue
  BY DEF ExecutionIInv, ExecutionTypeOK, StageIInv
<1>1. ASSUME NEW w \in Workers, UnlockStage(w)
      PROVE  StagesInOrder'
  <2>1. /\ Due(job[w].task)
        /\ UnlockNextStageOrder(ScanOf[job[w].task], StageOf[job[w].task])
    BY <1>a, <1>1 DEF UnlockStage, UnlocksAreDue
  <2>2. QED
    BY <1>a, <2>1, UnlockKeepsOrder
<1>2. QED
  BY <1>a, <1>1, StageSteps, StageQuietKeepsOrder, CreationKeepsOrder

-----------------------------------------------------------------------------
(* The theorem *)

LEMMA StageInit == Init => StageIInv
<1> SUFFICES ASSUME Init PROVE StageIInv
  OBVIOUS
<1>1. \A t \in Tasks : task[t].status = "absent"
  BY DEF Init, StoreInit, NoTask
<1>2. \A w \in Workers : pc[w] = "idle"
  BY DEF Init
<1>3. QED
  BY <1>1, <1>2 DEF StageIInv, StagesInOrder, Opened, UnlocksAreDue

LEMMA StageStep ==
  ExecutionIInv /\ StoreIInv /\ StageIInv /\ [Next]_vars => StageIInv'
<1> SUFFICES ASSUME ExecutionIInv, StoreIInv, StageIInv, [Next]_vars PROVE StageIInv'
  OBVIOUS
<1>1. CASE Next
  <2>1. StagesInOrder'
    BY <1>1, OrderStep
  <2>2. UnlocksAreDue'
    BY <1>1, UnlockersAreDue DEF UnlocksAreDue
  <2>3. QED
    BY <2>1, <2>2 DEF StageIInv
<1>2. CASE UNCHANGED vars
  BY <1>2 DEF vars, storeVars, memoryVars, StageIInv, StagesInOrder, UnlocksAreDue, Due
<1>3. QED
  BY <1>1, <1>2

(* StagesInOrder and UnlocksAreDue together are inductive. *)
THEOREM StageInvariance == Spec => []StageIInv
<1>1. Spec => []StoreIInv
  BY ExecutionImplementsStore, StoreIInvariance, PTL
<1>2. QED
  BY <1>1, ExecutionInvariance, StageInit, StageStep, PTL DEF Spec

(* A stage opens only when the stages before it are over, for every workflow,
   any number of streams and monitors, and whatever crashes between two
   transactions: the count an unlock relies on cannot become stale. *)
THEOREM StagesOpenInOrder == Spec => []StageBarrier
<1>1. StageIInv => StageBarrier
  BY DEF StageIInv, StagesInOrder, SameScan, Opened, StageBarrier
<1>2. QED
  BY <1>1, StageInvariance, PTL
=============================================================================
