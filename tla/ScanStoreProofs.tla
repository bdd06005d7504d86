--------------------------- MODULE ScanStoreProofs ---------------------------
(***************************************************************************)
(* Proofs that the properties of ScanStore hold for every set of scans,    *)
(* tasks, agents and requests and every bound on epochs.                   *)
(*                                                                         *)
(* The inductive invariant is StoreInv together with NothingBeforeCreation *)
(* and its proof has one lemma per transaction, each about the conjuncts   *)
(* the transaction can disturb.                                            *)
(***************************************************************************)
EXTENDS ScanStore, TLAPS

(* A scan that is not created yet has no agent, and its tasks do not exist. *)
NothingBeforeCreation ==
    /\ \A s \in Scans : scan[s].status = "absent" => scan[s].agent = NoAgent
    /\ \A t \in Tasks : scan[ScanOf[t]].status = "absent" => task[t].status = "absent"

StoreIInv == StoreInv /\ NothingBeforeCreation

-----------------------------------------------------------------------------
(* Rows: what the transactions write has the type of the row. *)

LEMMA Statuses ==
  /\ UnfinishedStatuses \subseteq TaskStatuses
  /\ TerminalTaskStatuses \subseteq TaskStatuses
  /\ AgentResults \subseteq TaskStatuses
  /\ ActiveScanStatuses \subseteq ScanStatuses
  /\ TerminalScanStatuses \subseteq ScanStatuses
  BY DEF TaskStatuses, ScanStatuses, TerminalTaskStatuses

LEMMA TaskWrites ==
  ASSUME NEW row \in TaskRow, NEW status \in TaskStatuses, NEW p \in BOOLEAN,
         NEW kind \in FailureKinds
  PROVE  /\ [row EXCEPT !.status = status] \in TaskRow
         /\ [row EXCEPT !.pending = p] \in TaskRow
         /\ [row EXCEPT !.status = status, !.pending = p, !.failure = kind] \in TaskRow
  BY DEF TaskRow

LEMMA LeaseWrite ==
  ASSUME NEW row \in TaskRow, NEW status \in TaskStatuses, NEW a \in Agents,
         NEW e \in Epochs, NEW r \in Requests
  PROVE  [row EXCEPT !.status = status, !.agent = a, !.epoch = e, !.request = r] \in TaskRow
  BY DEF TaskRow

LEMMA ScanWrites ==
  ASSUME NEW row \in ScanRow, NEW status \in ScanStatuses, NEW a \in Agents
  PROVE  /\ [row EXCEPT !.status = status] \in ScanRow
         /\ [row EXCEPT !.status = status, !.agent = a] \in ScanRow
         /\ [row EXCEPT !.deleted = TRUE] \in ScanRow
  BY DEF ScanRow

LEMMA AgentWrites ==
  ASSUME NEW row \in AgentRow, NEW b \in BOOLEAN
  PROVE  /\ [row EXCEPT !.online = b] \in AgentRow
         /\ [row EXCEPT !.fresh = b] \in AgentRow
  BY DEF AgentRow

LEMMA NewRows ==
  /\ NoScan \in ScanRow
  /\ NoTask \in TaskRow
  /\ NewAgent \in AgentRow
  /\ GoneAgent \in AgentRow
<1>1. 0 \in Epochs
  BY IdentityAssumption DEF Epochs
<1>2. /\ "absent" \in ScanStatuses /\ "absent" \in TaskStatuses
      /\ "none" \in FailureKinds
  BY DEF ScanStatuses, TaskStatuses, FailureKinds
<1>3. QED
  BY <1>1, <1>2 DEF NoScan, NoTask, NewAgent, GoneAgent, ScanRow, TaskRow, AgentRow

-----------------------------------------------------------------------------
(* Types *)

LEMMA TypeInit == StoreInit => StoreTypeOK
  BY NewRows DEF StoreInit, StoreTypeOK

LEMMA TypeStep ==
  ASSUME StoreTypeOK, StoreNext
  PROVE  StoreTypeOK'
<1> USE DEF StoreTypeOK
<1>a. ASSUME NEW t \in Tasks
      PROVE  task[t] \in TaskRow /\ ScanOf[t] \in Scans
  BY <1>a, WorkflowAssumption
<1>b. ASSUME NEW s \in Scans
      PROVE  scan[s] \in ScanRow
  BY <1>b
<1>c. ASSUME NEW a \in Agents
      PROVE  agent[a] \in AgentRow
  BY <1>c
<1>1. ASSUME NEW s \in Scans, NEW a \in Agents \cup {NoAgent},
             NEW skip \in SUBSET TasksOf(s), CreateScan(s, a, skip)
      PROVE  StoreTypeOK'
  <2>1. ASSUME NEW t \in Tasks
        PROVE  [NoTask EXCEPT !.status = CreatedStatus(t, s, skip)] \in TaskRow
    <3>1. CreatedStatus(t, s, skip) \in TaskStatuses
      BY DEF CreatedStatus, TaskStatuses, UnfinishedStatuses, UnstartedStatuses,
             TerminalTaskStatuses
    <3>2. "none" \in FailureKinds
      BY DEF FailureKinds
    <3>3. QED
      BY <3>1, <3>2, NewRows, TaskWrites
  <2>2. task' \in [Tasks -> TaskRow]
    BY <1>a, <1>1, <2>1 DEF CreateScan
  <2>3. [status  |-> IF skip = TasksOf(s) THEN "succeeded" ELSE "pending",
         agent   |-> a,
         mode    |-> IF a = NoAgent THEN "automatic" ELSE "pinned",
         deleted |-> FALSE] \in ScanRow
    BY DEF ScanRow, ScanStatuses, ActiveScanStatuses, TerminalScanStatuses
  <2>4. scan' \in [Scans -> ScanRow]
    BY <1>1, <2>3 DEF CreateScan
  <2>5. QED
    BY <1>1, <2>2, <2>4 DEF CreateScan
<1>2. ASSUME NEW a \in Agents, NEW e \in Epochs, NEW r \in Requests, NEW t \in Tasks,
             Claim(a, e, r, t)
      PROVE  StoreTypeOK'
  <2>1. "running" \in TaskStatuses /\ "running" \in ScanStatuses
    BY Statuses DEF UnfinishedStatuses, ActiveScanStatuses
  <2>2. task' \in [Tasks -> TaskRow]
    BY <1>2, <1>a, <2>1, LeaseWrite DEF Claim
  <2>3. scan' \in [Scans -> ScanRow]
    BY <1>2, <1>a, <1>b, <2>1, ScanWrites DEF Claim
  <2>4. QED
    BY <1>2, <2>2, <2>3 DEF Claim
<1>3. ASSUME NEW t \in Tasks, NEW a \in Agents, NEW e \in Epochs,
             NEW result \in AgentResults, CommitTerminalStatus(t, a, e, result)
      PROVE  StoreTypeOK'
  <2>1. FailureOf(result) \in FailureKinds /\ result \in TaskStatuses
    BY Statuses DEF FailureOf, FailureKinds
  <2>2. task' \in [Tasks -> TaskRow]
    BY <1>3, <1>a, <2>1, TaskWrites DEF CommitTerminalStatus
  <2>3. QED
    BY <1>3, <2>2 DEF CommitTerminalStatus
<1>4. ASSUME NEW s \in Scans, NEW t \in Tasks, UnlockNextStageOrder(s, StageOf[t])
      PROVE  StoreTypeOK'
  <2>1. "pending" \in TaskStatuses /\ "none" \in FailureKinds
    BY Statuses DEF UnfinishedStatuses, UnstartedStatuses, FailureKinds
  <2>2. task' \in [Tasks -> TaskRow]
    BY <1>4, <1>a, <2>1, TaskWrites DEF UnlockNextStageOrder
  <2>3. QED
    BY <1>4, <2>2 DEF UnlockNextStageOrder
<1>5. ASSUME NEW s \in Scans, CancelUnstartedTasks(s)
      PROVE  StoreTypeOK'
  <2>1. "cancelled" \in TaskStatuses /\ "none" \in FailureKinds
    BY Statuses DEF AgentResults, FailureKinds
  <2>2. task' \in [Tasks -> TaskRow]
    BY <1>5, <1>a, <2>1, TaskWrites DEF CancelUnstartedTasks
  <2>3. QED
    BY <1>5, <2>2 DEF CancelUnstartedTasks
<1>6. ASSUME NEW s \in Scans, NEW status \in TerminalScanStatuses,
             UpdateScanStatus(s, status)
      PROVE  StoreTypeOK'
  <2>1. CASE Active(s)
    <3>1. scan' \in [Scans -> ScanRow]
      <4>1. [scan[s] EXCEPT !.status = status] \in ScanRow
        BY <1>b, Statuses DEF ScanRow
      <4>2. QED
        BY <1>6, <2>1, <4>1 DEF UpdateScanStatus
    <3>2. outbox' \in [Scans -> Seq({"succeeded", "failed"})]
      <4>1. CASE status \in {"succeeded", "failed"}
        <5>1. Append(outbox[s], status) \in Seq({"succeeded", "failed"})
          BY <4>1
        <5>2. QED
          BY <1>6, <2>1, <4>1, <5>1 DEF UpdateScanStatus
      <4>2. CASE status \notin {"succeeded", "failed"}
        BY <1>6, <2>1, <4>2 DEF UpdateScanStatus
      <4>3. QED
        BY <4>1, <4>2
    <3>3. QED
      BY <1>6, <3>1, <3>2 DEF UpdateScanStatus
  <2>2. CASE ~Active(s)
    BY <1>6, <2>2 DEF UpdateScanStatus
  <2>3. QED
    BY <2>1, <2>2
<1>7. ASSUME NEW t \in Tasks,
             MarkReconciliationPending(t) \/ ClearReconciliationPending(t)
      PROVE  StoreTypeOK'
  <2>1. [task[t] EXCEPT !.pending = TRUE] \in TaskRow
        /\ [task[t] EXCEPT !.pending = FALSE] \in TaskRow
    BY <1>a DEF TaskRow
  <2>2. task' \in [Tasks -> TaskRow]
    BY <1>7, <2>1 DEF MarkReconciliationPending, ClearReconciliationPending
  <2>3. QED
    BY <1>7, <2>2 DEF MarkReconciliationPending, ClearReconciliationPending
<1>8. ASSUME NEW T, Disconnect(T)
      PROVE  StoreTypeOK'
  <2>1. "failed" \in TaskStatuses /\ "agent_disconnected" \in FailureKinds
    BY Statuses DEF AgentResults, FailureKinds
  <2>2. task' \in [Tasks -> TaskRow]
    BY <1>8, <1>a, <2>1, TaskWrites DEF Disconnect
  <2>3. QED
    BY <1>8, <2>2 DEF Disconnect
<1>9. ASSUME NEW S \in SUBSET Scans, StopActiveScans(S)
      PROVE  StoreTypeOK'
  <2>1. /\ "cancelled" \in TaskStatuses /\ "cancelled" \in ScanStatuses
        /\ "none" \in FailureKinds
    BY Statuses DEF AgentResults, TerminalScanStatuses, FailureKinds
  <2>2. task' \in [Tasks -> TaskRow]
    BY <1>9, <1>a, <2>1, TaskWrites DEF StopActiveScans
  <2>3. ASSUME NEW s \in Scans
        PROVE  [scan[s] EXCEPT !.status = "cancelled"] \in ScanRow
    BY <1>b, <2>1 DEF ScanRow
  <2>4. scan' \in [Scans -> ScanRow]
    BY <1>9, <1>b, <2>3 DEF StopActiveScans
  <2>5. QED
    BY <1>9, <2>2, <2>4 DEF StopActiveScans
<1>10. ASSUME NEW s \in Scans, SoftDelete(s)
       PROVE  StoreTypeOK'
  <2>1. [scan[s] EXCEPT !.deleted = TRUE] \in ScanRow
    BY <1>b DEF ScanRow
  <2>2. QED
    BY <1>10, <2>1 DEF SoftDelete
<1>11. ASSUME NEW a \in Agents, DeleteAgent(a)
       PROVE  StoreTypeOK'
  <2>1. /\ "failed" \in TaskStatuses /\ "failed" \in ScanStatuses
        /\ "agent_deleted" \in FailureKinds
    BY Statuses DEF AgentResults, TerminalScanStatuses, FailureKinds
  <2>2. task' \in [Tasks -> TaskRow]
    BY <1>11, <1>a, <2>1, TaskWrites DEF DeleteAgent
  <2>3. ASSUME NEW s \in Scans
        PROVE  [scan[s] EXCEPT !.status = "failed"] \in ScanRow
    BY <1>b, <2>1 DEF ScanRow
  <2>4. scan' \in [Scans -> ScanRow]
    BY <1>11, <1>b, <2>3 DEF DeleteAgent
  <2>5. QED
    BY <1>11, <2>2, <2>4, NewRows DEF DeleteAgent
<1>12. ASSUME NEW a \in Agents,
              RecordConnection(a) \/ HeartbeatLapses(a) \/ MarkOfflineFromOnline(a)
       PROVE  StoreTypeOK'
  <2>1. agent' \in [Agents -> AgentRow]
    BY <1>12, <1>c, AgentWrites
       DEF RecordConnection, HeartbeatLapses, MarkOfflineFromOnline
  <2>2. QED
    BY <1>12, <2>1 DEF RecordConnection, HeartbeatLapses, MarkOfflineFromOnline
<1>13. ASSUME NEW a \in Agents, NEW e \in Epochs \ {0}, UpdateHeartbeat(a, e)
       PROVE  StoreTypeOK'
  <2>1. [present |-> TRUE, online |-> TRUE, epoch |-> e, fresh |-> TRUE] \in AgentRow
    BY DEF AgentRow
  <2>2. QED
    BY <1>13, <2>1 DEF UpdateHeartbeat
<1>14. QED
  BY <1>1, <1>2, <1>3, <1>4, <1>5, <1>6, <1>7, <1>8, <1>9, <1>10, <1>11, <1>12, <1>13
     DEF StoreNext, FailTasksForOfflineAgent, FailTasksForSupersededSession

-----------------------------------------------------------------------------
(* Leases.  Every transaction but a claim is quiet: it hands out no lease.  *)

Unleasable == {"absent", "skipped"} \cup UnstartedStatuses

Unbound == {"absent", "pending"}

LeaseUnchanged(t) ==
    /\ task'[t].agent = task[t].agent
    /\ task'[t].epoch = task[t].epoch
    /\ task'[t].request = task[t].request
    /\ task'[t].status = "running" => task[t].status = "running"
    /\ task'[t].status \in Unleasable => task[t].status \in Unleasable

QuietStep ==
    /\ \A t \in Tasks : LeaseUnchanged(t)
    /\ \A s \in Scans :
          /\ scan[s].status # "absent" => scan'[s].agent = scan[s].agent
          /\ scan'[s].status \in Unbound => scan[s].status \in Unbound
    /\ \A a \in Agents :
          agent'[a].present => agent[a].present /\ agent[a].epoch <= agent'[a].epoch

LEMMA QuietStepKeepsLeases ==
  ASSUME StoreTypeOK, StoreTypeOK', LeaseIntegrity, OneTaskPerRequest, QuietStep
  PROVE  LeaseIntegrity' /\ OneTaskPerRequest'
<1>1. LeaseIntegrity'
  <2> SUFFICES ASSUME NEW t \in Tasks
               PROVE  /\ task'[t].status = "running" => Leased(t)'
                      /\ task'[t].status \in Unleasable => ~Leased(t)'
                      /\ ~Leased(t)' => task'[t].agent = NoAgent /\ task'[t].request = NoRequest
                      /\ Leased(t)' =>
                            /\ task'[t].agent \in Agents
                            /\ task'[t].request \in Requests
                            /\ task'[t].agent = scan'[ScanOf[t]].agent
                            /\ scan'[ScanOf[t]].status \notin Unbound
                            /\ agent'[task'[t].agent].present =>
                                   task'[t].epoch <= agent'[task'[t].agent].epoch
    BY DEF LeaseIntegrity, Unleasable, Unbound
  <2>1. ScanOf[t] \in Scans
    BY WorkflowAssumption
  <2>2. Leased(t)' = Leased(t)
    BY DEF Leased, QuietStep, LeaseUnchanged
  <2>3. /\ task[t].status = "running" => Leased(t)
        /\ task[t].status \in Unleasable => ~Leased(t)
        /\ ~Leased(t) => task[t].agent = NoAgent /\ task[t].request = NoRequest
        /\ Leased(t) =>
              /\ task[t].agent \in Agents
              /\ task[t].request \in Requests
              /\ task[t].agent = scan[ScanOf[t]].agent
              /\ scan[ScanOf[t]].status \notin Unbound
              /\ agent[task[t].agent].present =>
                     task[t].epoch <= agent[task[t].agent].epoch
    BY DEF LeaseIntegrity, Unleasable, Unbound
  <2>4. ASSUME Leased(t), agent'[task'[t].agent].present
        PROVE  task'[t].epoch <= agent'[task'[t].agent].epoch
    <3>1. /\ task'[t].agent = task[t].agent /\ task[t].agent \in Agents
          /\ task'[t].epoch = task[t].epoch
      BY <2>3, <2>4 DEF QuietStep, LeaseUnchanged
    <3>2. /\ agent[task[t].agent].present
          /\ agent[task[t].agent].epoch <= agent'[task[t].agent].epoch
      BY <2>4, <3>1 DEF QuietStep, LeaseUnchanged
    <3>3. task[t].epoch <= agent[task[t].agent].epoch
      BY <2>3, <2>4, <3>2
    <3>4. /\ task[t].epoch \in Int /\ agent[task[t].agent].epoch \in Int
          /\ agent'[task[t].agent].epoch \in Int
      BY <3>1 DEF StoreTypeOK, TaskRow, AgentRow, Epochs
    <3>5. QED
      BY <3>1, <3>2, <3>3, <3>4
  <2>5. QED
    BY <2>1, <2>2, <2>3, <2>4 DEF QuietStep, LeaseUnchanged, Unbound
<1>2. OneTaskPerRequest'
  BY DEF OneTaskPerRequest, Leased, QuietStep, LeaseUnchanged
<1>3. QED
  BY <1>1, <1>2

LEMMA CreateScanIsQuiet ==
  ASSUME StoreTypeOK, LeaseIntegrity, NothingBeforeCreation,
         NEW s \in Scans, NEW a \in Agents \cup {NoAgent}, NEW skip \in SUBSET TasksOf(s),
         CreateScan(s, a, skip)
  PROVE  QuietStep
<1>1. ASSUME NEW t \in Tasks
      PROVE  LeaseUnchanged(t)
  <2>1. CASE t \in TasksOf(s)
    <3>1. task[t].status = "absent"
      BY <2>1 DEF CreateScan, NothingBeforeCreation, TasksOf
    <3>2. ~Leased(t) /\ task[t].agent = NoAgent /\ task[t].request = NoRequest
      BY <3>1 DEF LeaseIntegrity
    <3>3. task[t].epoch = 0
      BY <3>2 DEF Leased, StoreTypeOK, TaskRow, Epochs
    <3>4. task'[t] = [NoTask EXCEPT !.status = CreatedStatus(t, s, skip)]
      BY <2>1 DEF CreateScan
    <3>5. CreatedStatus(t, s, skip) # "running"
      BY DEF CreatedStatus
    <3>6. QED
      BY <3>1, <3>2, <3>3, <3>4, <3>5 DEF LeaseUnchanged, NoTask, Unleasable
  <2>2. CASE t \notin TasksOf(s)
    BY <2>2 DEF CreateScan, LeaseUnchanged
  <2>3. QED
    BY <2>1, <2>2
<1>2. ASSUME NEW x \in Scans
      PROVE  /\ scan[x].status # "absent" => scan'[x].agent = scan[x].agent
             /\ scan'[x].status \in Unbound => scan[x].status \in Unbound
  BY DEF CreateScan, StoreTypeOK, Unbound
<1>3. ASSUME NEW b \in Agents
      PROVE  agent'[b].present => agent[b].present /\ agent[b].epoch <= agent'[b].epoch
  <2>1. agent[b].epoch \in Int
    BY DEF StoreTypeOK, AgentRow, Epochs
  <2>2. QED
    BY <2>1 DEF CreateScan
<1>4. QED
  BY <1>1, <1>2, <1>3 DEF QuietStep, LeaseUnchanged

LEMMA QuietTransactions ==
  ASSUME StoreTypeOK, LeaseIntegrity, NothingBeforeCreation, StoreNext
  PROVE  \/ QuietStep
         \/ \E a \in Agents, e \in Epochs, r \in Requests, t \in Tasks : Claim(a, e, r, t)
<1>a. ASSUME NEW t \in Tasks
      PROVE  task[t] \in TaskRow /\ task[t].epoch \in Int
  BY DEF StoreTypeOK, TaskRow, Epochs
<1>b. ASSUME NEW b \in Agents
      PROVE  agent[b] \in AgentRow /\ agent[b].epoch \in Int
  BY DEF StoreTypeOK, AgentRow, Epochs
<1>c. ASSUME NEW s \in Scans
      PROVE  scan[s] \in ScanRow
  BY DEF StoreTypeOK
<1>d. /\ task \in [Tasks -> TaskRow]
      /\ scan \in [Scans -> ScanRow]
      /\ agent \in [Agents -> AgentRow]
  BY DEF StoreTypeOK
<1>1. ASSUME NEW s \in Scans, NEW a \in Agents \cup {NoAgent},
             NEW skip \in SUBSET TasksOf(s), CreateScan(s, a, skip)
      PROVE  QuietStep
  BY <1>1, CreateScanIsQuiet
<1>2. ASSUME NEW t \in Tasks, NEW a \in Agents, NEW e \in Epochs,
             NEW result \in AgentResults, CommitTerminalStatus(t, a, e, result)
      PROVE  QuietStep
  BY <1>2, <1>a, <1>b, <1>d
     DEF TaskRow, CommitTerminalStatus, QuietStep, LeaseUnchanged, AgentResults,
         Unleasable, UnstartedStatuses
<1>3. ASSUME NEW s \in Scans, NEW t \in Tasks, UnlockNextStageOrder(s, StageOf[t])
      PROVE  QuietStep
  BY <1>3, <1>a, <1>b
     DEF TaskRow, UnlockNextStageOrder, NextStage, Unlockable, QuietStep, LeaseUnchanged,
         Unleasable, UnstartedStatuses
<1>4. ASSUME NEW s \in Scans, CancelUnstartedTasks(s)
      PROVE  QuietStep
  BY <1>4, <1>a, <1>b
     DEF TaskRow, CancelUnstartedTasks, QuietStep, LeaseUnchanged, Unleasable, UnstartedStatuses
<1>5. ASSUME NEW s \in Scans, NEW status \in TerminalScanStatuses,
             UpdateScanStatus(s, status)
      PROVE  QuietStep
  BY <1>5, <1>a, <1>b, <1>c, <1>d
     DEF UpdateScanStatus, QuietStep, LeaseUnchanged, Unbound, TerminalScanStatuses, ScanRow
<1>6. ASSUME NEW t \in Tasks,
             MarkReconciliationPending(t) \/ ClearReconciliationPending(t)
      PROVE  QuietStep
  <2>1. PICK p \in BOOLEAN : task' = [task EXCEPT ![t].pending = p]
    BY <1>6 DEF MarkReconciliationPending, ClearReconciliationPending
  <2>2. ASSUME NEW u \in Tasks
        PROVE  task'[u] = task[u] \/ task'[u] = [task[u] EXCEPT !.pending = p]
    BY <1>d, <2>1
  <2>3. UNCHANGED <<scan, agent>>
    BY <1>6 DEF MarkReconciliationPending, ClearReconciliationPending
  <2>4. ASSUME NEW u \in Tasks
        PROVE  LeaseUnchanged(u)
    BY <1>a, <2>2 DEF LeaseUnchanged, TaskRow
  <2>5. QED
    BY <1>b, <2>3, <2>4 DEF QuietStep
<1>7. ASSUME NEW S \in SUBSET Scans, NEW T \in SUBSET RunningIn(S), Disconnect(T)
      PROVE  QuietStep
  <2>1. ASSUME NEW t \in Tasks
        PROVE  \/ task'[t] = task[t]
               \/ /\ task[t].status = "running"
                  /\ task'[t] = [task[t] EXCEPT !.status = "failed", !.pending = TRUE,
                                                !.failure = "agent_disconnected"]
    BY <1>7 DEF Disconnect, RunningIn
  <2>2. UNCHANGED <<scan, agent>>
    BY <1>7 DEF Disconnect
  <2>3. ASSUME NEW t \in Tasks
        PROVE  LeaseUnchanged(t)
    BY <1>a, <2>1 DEF LeaseUnchanged, TaskRow, Unleasable, UnstartedStatuses
  <2>4. QED
    BY <1>b, <2>2, <2>3 DEF QuietStep
<1>8. ASSUME NEW S \in SUBSET Scans, StopActiveScans(S)
      PROVE  QuietStep
  <2>1. ASSUME NEW s \in Scans
        PROVE  /\ scan'[s].agent = scan[s].agent
               /\ scan'[s].status \in Unbound => scan[s].status \in Unbound
    BY <1>8, <1>c DEF StopActiveScans, Unbound, ScanRow
  <2>2. QED
    BY <1>8, <1>a, <1>b, <2>1
       DEF TaskRow, StopActiveScans, QuietStep, LeaseUnchanged, Unleasable,
           UnstartedStatuses
<1>9. ASSUME NEW s \in Scans, SoftDelete(s)
      PROVE  QuietStep
  BY <1>9, <1>a, <1>b, <1>c, <1>d DEF SoftDelete, QuietStep, LeaseUnchanged, Unbound, ScanRow
<1>10. ASSUME NEW a \in Agents, DeleteAgent(a)
       PROVE  QuietStep
  <2>1. ASSUME NEW s \in Scans
        PROVE  /\ scan'[s].agent = scan[s].agent
               /\ scan'[s].status \in Unbound => scan[s].status \in Unbound
    BY <1>10, <1>c DEF DeleteAgent, Unbound, ScanRow
  <2>2. ASSUME NEW b \in Agents
        PROVE  agent'[b].present => agent[b].present /\ agent[b].epoch <= agent'[b].epoch
    <3>1. agent' = [agent EXCEPT ![a] = GoneAgent]
      BY <1>10 DEF DeleteAgent
    <3>2. CASE b = a
      BY <1>d, <3>1, <3>2 DEF GoneAgent, NewAgent
    <3>3. CASE b # a
      BY <1>b, <1>d, <3>1, <3>3
    <3>4. QED
      BY <3>2, <3>3
  <2>3. ASSUME NEW t \in Tasks
        PROVE  LeaseUnchanged(t)
    <3>1. \/ task'[t] = task[t]
          \/ /\ task[t].status \in UnstartedStatuses
             /\ task'[t] = [task[t] EXCEPT !.status = "failed", !.pending = FALSE,
                                           !.failure = "agent_deleted"]
      BY <1>10 DEF DeleteAgent
    <3>2. QED
      BY <1>a, <3>1 DEF LeaseUnchanged, TaskRow, Unleasable, UnstartedStatuses
  <2>4. QED
    BY <2>1, <2>2, <2>3 DEF QuietStep
<1>11. ASSUME NEW a \in Agents,
              RecordConnection(a) \/ HeartbeatLapses(a) \/ MarkOfflineFromOnline(a)
       PROVE  QuietStep
  <2>1. ASSUME NEW b \in Agents
        PROVE  agent'[b].present = agent[b].present /\ agent'[b].epoch = agent[b].epoch
    <3>1. \/ agent' = [agent EXCEPT ![a].online = TRUE]
          \/ agent' = [agent EXCEPT ![a].online = FALSE]
          \/ agent' = [agent EXCEPT ![a].fresh = FALSE]
      BY <1>11 DEF RecordConnection, HeartbeatLapses, MarkOfflineFromOnline
    <3>2. QED
      BY <1>b, <1>d, <3>1 DEF AgentRow
  <2>2. QED
    BY <1>11, <1>b, <2>1
       DEF QuietStep, LeaseUnchanged, RecordConnection, HeartbeatLapses, MarkOfflineFromOnline
<1>12. ASSUME NEW a \in Agents, NEW e \in Epochs \ {0}, UpdateHeartbeat(a, e)
       PROVE  QuietStep
  BY <1>12, <1>b DEF UpdateHeartbeat, QuietStep, LeaseUnchanged, StoreTypeOK
<1>13. QED
  BY <1>1, <1>2, <1>3, <1>4, <1>5, <1>6, <1>7, <1>8, <1>9, <1>10, <1>11, <1>12
     DEF StoreNext, FailTasksForOfflineAgent, FailTasksForSupersededSession

(* A claim leases a task that has no lease, of a scan that is free or bound to
   the claiming agent, to a request that has none. *)
LEMMA ClaimKeepsLeases ==
  ASSUME StoreTypeOK, LeaseIntegrity, OneTaskPerRequest,
         NEW a \in Agents, NEW e \in Epochs, NEW r \in Requests, NEW t \in Tasks,
         Claim(a, e, r, t)
  PROVE  LeaseIntegrity' /\ OneTaskPerRequest'
<1> DEFINE s == ScanOf[t]
<1>1. /\ s \in Scans /\ task[t] \in TaskRow /\ scan[s] \in ScanRow
      /\ task \in [Tasks -> TaskRow] /\ scan \in [Scans -> ScanRow]
      /\ \A u \in Tasks : task[u].epoch \in Int
  BY WorkflowAssumption DEF StoreTypeOK, TaskRow, Epochs
<1>2. task'[t] = [task[t] EXCEPT !.status = "running", !.agent = a, !.epoch = e, !.request = r]
  BY <1>1 DEF Claim
<1>3. /\ task'[t].status = "running" /\ task'[t].agent = a
      /\ task'[t].epoch = e /\ task'[t].request = r
  BY <1>1, <1>2 DEF TaskRow
<1>4. \A u \in Tasks \ {t} : task'[u] = task[u]
  BY <1>1 DEF Claim
<1>5. scan'[s].status = "running" /\ scan'[s].agent = a
  BY <1>1 DEF Claim, ScanRow
<1>6. \A x \in Scans \ {s} : scan'[x] = scan[x]
  BY <1>1 DEF Claim
<1>7. /\ agent' = agent /\ e > 0 /\ agent[a].present /\ agent[a].epoch = e
      /\ scan[s].agent \in {NoAgent, a}
      /\ Claimed(a, e, r) = {}
      /\ ~Leased(t)
  BY DEF Claim, SessionPersisted, Candidates, LeaseIntegrity, UnstartedStatuses
<1>8. LeaseIntegrity'
  <2> SUFFICES ASSUME NEW u \in Tasks
               PROVE  /\ task'[u].status = "running" => Leased(u)'
                      /\ task'[u].status \in Unleasable => ~Leased(u)'
                      /\ ~Leased(u)' => task'[u].agent = NoAgent /\ task'[u].request = NoRequest
                      /\ Leased(u)' =>
                            /\ task'[u].agent \in Agents
                            /\ task'[u].request \in Requests
                            /\ task'[u].agent = scan'[ScanOf[u]].agent
                            /\ scan'[ScanOf[u]].status \notin Unbound
                            /\ agent'[task'[u].agent].present =>
                                   task'[u].epoch <= agent'[task'[u].agent].epoch
    BY DEF LeaseIntegrity, Unleasable, Unbound
  <2>1. CASE u = t
    <3>1. Leased(t)' /\ "running" \notin Unleasable \cup Unbound
      BY <1>3, <1>7 DEF Leased, Unleasable, Unbound, UnstartedStatuses
    <3>2. agent'[task'[t].agent].present => task'[t].epoch <= agent'[task'[t].agent].epoch
      BY <1>3, <1>7 DEF Epochs
    <3>3. QED
      BY <1>3, <1>5, <2>1, <3>1, <3>2
  <2>2. CASE u # t
    <3>1. task'[u] = task[u] /\ Leased(u)' = Leased(u) /\ ScanOf[u] \in Scans
      BY <1>4, <2>2, WorkflowAssumption DEF Leased
    <3>2. /\ task[u].status = "running" => Leased(u)
          /\ task[u].status \in Unleasable => ~Leased(u)
          /\ ~Leased(u) => task[u].agent = NoAgent /\ task[u].request = NoRequest
          /\ Leased(u) =>
                /\ task[u].agent \in Agents
                /\ task[u].request \in Requests
                /\ task[u].agent = scan[ScanOf[u]].agent
                /\ scan[ScanOf[u]].status \notin Unbound
                /\ agent[task[u].agent].present =>
                       task[u].epoch <= agent[task[u].agent].epoch
      BY DEF LeaseIntegrity, Unleasable, Unbound
    <3>3. Leased(u) => /\ scan'[ScanOf[u]].agent = scan[ScanOf[u]].agent
                       /\ scan'[ScanOf[u]].status \notin Unbound
      BY <1>5, <1>6, <1>7, <3>1, <3>2, IdentityAssumption DEF Unbound
    <3>4. QED
      BY <1>7, <3>1, <3>2, <3>3
  <2>3. QED
    BY <2>1, <2>2
<1>9. OneTaskPerRequest'
  BY <1>1, <1>3, <1>4, <1>7 DEF OneTaskPerRequest, Leased, Claimed
<1>10. QED
  BY <1>8, <1>9

-----------------------------------------------------------------------------
(* Notifications, and scans that are not created yet *)

(* Only UpdateScanStatus queues a notification, and it ends the scan; a scan
   that has one is never written a status again. *)
LEMMA NotificationStep ==
  ASSUME StoreTypeOK, NotificationAgrees, StoreNext
  PROVE  NotificationAgrees'
<1>a. /\ scan \in [Scans -> ScanRow]
      /\ outbox \in [Scans -> Seq({"succeeded", "failed"})]
      /\ \A s \in Scans : scan[s] \in ScanRow
  BY DEF StoreTypeOK
<1>1. ASSUME outbox' = outbox,
             \A x \in Scans : scan[x].status \in TerminalScanStatuses
                                  => scan'[x].status = scan[x].status
      PROVE  NotificationAgrees'
  BY <1>1 DEF NotificationAgrees, TerminalScanStatuses
<1>2. ASSUME NEW s \in Scans, NEW status \in TerminalScanStatuses,
             UpdateScanStatus(s, status)
      PROVE  NotificationAgrees'
  <2>1. CASE ~Active(s)
    BY <1>2, <2>1 DEF UpdateScanStatus, NotificationAgrees
  <2>2. CASE Active(s)
    <3>1. outbox[s] = <<>>
      BY <2>2 DEF NotificationAgrees, Active, ActiveScanStatuses
    <3>2. scan'[s].status = status /\ \A x \in Scans \ {s} : scan'[x] = scan[x]
      BY <1>2, <1>a, <2>2 DEF UpdateScanStatus, ScanRow
    <3>3. \A x \in Scans \ {s} : outbox'[x] = outbox[x]
      BY <1>2, <1>a, <2>2 DEF UpdateScanStatus
    <3>4. \/ outbox'[s] = <<>>
          \/ status \in {"succeeded", "failed"} /\ outbox'[s] = <<status>>
      BY <1>2, <1>a, <2>2, <3>1 DEF UpdateScanStatus
    <3>5. QED
      BY <3>2, <3>3, <3>4 DEF NotificationAgrees
  <2>3. QED
    BY <2>1, <2>2
<1>3. ASSUME NEW s \in Scans, NEW a \in Agents \cup {NoAgent},
             NEW skip \in SUBSET TasksOf(s), CreateScan(s, a, skip)
      PROVE  NotificationAgrees'
  BY <1>1, <1>3, <1>a DEF CreateScan, TerminalScanStatuses
<1>4. ASSUME NEW a \in Agents, NEW e \in Epochs, NEW r \in Requests, NEW t \in Tasks,
             Claim(a, e, r, t)
      PROVE  NotificationAgrees'
  <2>1. Active(ScanOf[t]) /\ ScanOf[t] \in Scans
    BY <1>4, WorkflowAssumption DEF Claim, Candidates
  <2>2. \A x \in Scans \ {ScanOf[t]} : scan'[x] = scan[x]
    BY <1>4, <1>a DEF Claim
  <2>3. outbox' = outbox
    BY <1>4 DEF Claim
  <2>4. QED
    BY <1>1, <2>1, <2>2, <2>3 DEF Active, ActiveScanStatuses, TerminalScanStatuses
<1>5. ASSUME NEW S \in SUBSET Scans, StopActiveScans(S)
      PROVE  NotificationAgrees'
  BY <1>1, <1>5 DEF StopActiveScans, Active, ActiveScanStatuses, TerminalScanStatuses
<1>6. ASSUME NEW s \in Scans, SoftDelete(s)
      PROVE  NotificationAgrees'
  BY <1>1, <1>6, <1>a DEF SoftDelete, ScanRow
<1>7. ASSUME NEW a \in Agents, DeleteAgent(a)
      PROVE  NotificationAgrees'
  BY <1>1, <1>7 DEF DeleteAgent, Active, ActiveScanStatuses, TerminalScanStatuses
<1>8. ASSUME UNCHANGED <<scan, outbox>>
      PROVE  NotificationAgrees'
  BY <1>8 DEF NotificationAgrees
<1>9. QED
  BY <1>2, <1>3, <1>4, <1>5, <1>6, <1>7, <1>8
     DEF StoreNext, CommitTerminalStatus, UnlockNextStageOrder, CancelUnstartedTasks,
         MarkReconciliationPending, ClearReconciliationPending, FailTasksForOfflineAgent,
         FailTasksForSupersededSession, Disconnect, RecordConnection, UpdateHeartbeat,
         HeartbeatLapses, MarkOfflineFromOnline

LEMMA CreationStep ==
  ASSUME StoreTypeOK, NothingBeforeCreation, StoreNext
  PROVE  NothingBeforeCreation'
<1>a. /\ scan \in [Scans -> ScanRow] /\ task \in [Tasks -> TaskRow]
      /\ \A s \in Scans : scan[s] \in ScanRow
      /\ \A t \in Tasks : task[t] \in TaskRow /\ ScanOf[t] \in Scans
  BY WorkflowAssumption DEF StoreTypeOK
(* It is enough that no scan goes back to "absent", that an absent scan keeps
   its row and that an absent task comes into being with its scan only. *)
<1>b. ASSUME \A s \in Scans : scan'[s].status = "absent" => scan'[s] = scan[s],
             \A t \in Tasks : task[t].status = "absent" /\ scan'[ScanOf[t]].status = "absent"
                                  => task'[t].status = "absent"
      PROVE  NothingBeforeCreation'
  BY <1>a, <1>b DEF NothingBeforeCreation
<1>1. ASSUME NEW s \in Scans, NEW a \in Agents \cup {NoAgent},
             NEW skip \in SUBSET TasksOf(s), CreateScan(s, a, skip)
      PROVE  NothingBeforeCreation'
  <2>1. scan'[s].status # "absent"
    BY <1>1, <1>a DEF CreateScan
  <2>2. QED
    BY <1>1, <1>a, <1>b, <2>1 DEF CreateScan, TasksOf
<1>2. ASSUME NEW a \in Agents, NEW e \in Epochs, NEW r \in Requests, NEW t \in Tasks,
             Claim(a, e, r, t)
      PROVE  NothingBeforeCreation'
  <2>1. task[t].status = "pending" /\ scan'[ScanOf[t]].status = "running"
    BY <1>2, <1>a DEF Claim, Candidates, ScanRow
  <2>2. /\ \A s \in Scans \ {ScanOf[t]} : scan'[s] = scan[s]
        /\ \A u \in Tasks \ {t} : task'[u] = task[u]
    BY <1>2, <1>a DEF Claim
  <2>3. QED
    BY <1>a, <1>b, <2>1, <2>2
<1>3. ASSUME NEW t \in Tasks, NEW a \in Agents, NEW e \in Epochs,
             NEW result \in AgentResults, CommitTerminalStatus(t, a, e, result)
      PROVE  NothingBeforeCreation'
  <2>1. \A u \in Tasks : task[u].status = "absent" => task'[u] = task[u]
    BY <1>3, <1>a DEF CommitTerminalStatus
  <2>2. QED
    BY <1>3, <1>b, <2>1 DEF CommitTerminalStatus
<1>4. ASSUME NEW s \in Scans, NEW t \in Tasks, UnlockNextStageOrder(s, StageOf[t])
      PROVE  NothingBeforeCreation'
  BY <1>4, <1>b DEF UnlockNextStageOrder, NextStage, Unlockable
<1>5. ASSUME NEW s \in Scans, CancelUnstartedTasks(s)
      PROVE  NothingBeforeCreation'
  BY <1>5, <1>b DEF CancelUnstartedTasks, UnstartedStatuses
<1>6. ASSUME NEW s \in Scans, NEW status \in TerminalScanStatuses,
             UpdateScanStatus(s, status)
      PROVE  NothingBeforeCreation'
  <2>1. \A x \in Scans : scan'[x].status = "absent" => scan'[x] = scan[x]
    BY <1>6, <1>a DEF UpdateScanStatus, ScanRow, TerminalScanStatuses
  <2>2. QED
    BY <1>6, <1>b, <2>1 DEF UpdateScanStatus
<1>7. ASSUME NEW t \in Tasks,
             MarkReconciliationPending(t) \/ ClearReconciliationPending(t)
      PROVE  NothingBeforeCreation'
  <2>1. \A u \in Tasks : task[u].status = "absent" => task'[u] = task[u]
    BY <1>7, <1>a DEF MarkReconciliationPending, ClearReconciliationPending
  <2>2. QED
    BY <1>7, <1>b, <2>1 DEF MarkReconciliationPending, ClearReconciliationPending
<1>8. ASSUME NEW S \in SUBSET Scans, NEW T \in SUBSET RunningIn(S), Disconnect(T)
      PROVE  NothingBeforeCreation'
  BY <1>8, <1>b DEF Disconnect, RunningIn
<1>9. ASSUME NEW S \in SUBSET Scans, StopActiveScans(S)
      PROVE  NothingBeforeCreation'
  <2>1. \A x \in Scans : scan'[x].status = "absent" => scan'[x] = scan[x]
    BY <1>9, <1>a DEF StopActiveScans, ScanRow
  <2>2. \A t \in Tasks : task[t].status = "absent" => task'[t] = task[t]
    BY <1>9 DEF StopActiveScans, UnfinishedStatuses, UnstartedStatuses
  <2>3. QED
    BY <1>b, <2>1, <2>2
<1>10. ASSUME NEW s \in Scans, SoftDelete(s)
       PROVE  NothingBeforeCreation'
  <2>1. \A x \in Scans : scan'[x].status = "absent" => scan'[x] = scan[x]
    BY <1>10, <1>a DEF SoftDelete, ScanRow, TerminalScanStatuses
  <2>2. QED
    BY <1>10, <1>b, <2>1 DEF SoftDelete
<1>11. ASSUME NEW a \in Agents, DeleteAgent(a)
       PROVE  NothingBeforeCreation'
  <2>1. \A x \in Scans : scan'[x].status = "absent" => scan'[x] = scan[x]
    BY <1>11, <1>a DEF DeleteAgent, ScanRow
  <2>2. \A t \in Tasks : task[t].status = "absent" => task'[t] = task[t]
    BY <1>11 DEF DeleteAgent, UnstartedStatuses
  <2>3. QED
    BY <1>b, <2>1, <2>2
<1>12. ASSUME UNCHANGED <<scan, task>>
       PROVE  NothingBeforeCreation'
  BY <1>12 DEF NothingBeforeCreation
<1>13. QED
  BY <1>1, <1>2, <1>3, <1>4, <1>5, <1>6, <1>7, <1>8, <1>9, <1>10, <1>11, <1>12
     DEF StoreNext, FailTasksForOfflineAgent, FailTasksForSupersededSession, RecordConnection,
         UpdateHeartbeat, HeartbeatLapses, MarkOfflineFromOnline

-----------------------------------------------------------------------------
(* The invariant *)

LEMMA IInvInit == StoreInit => StoreIInv
<1> SUFFICES ASSUME StoreInit PROVE StoreIInv
  OBVIOUS
<1>1. /\ \A s \in Scans : scan[s] = NoScan /\ outbox[s] = <<>>
      /\ \A t \in Tasks : task[t] = NoTask /\ ScanOf[t] \in Scans
  BY WorkflowAssumption DEF StoreInit
<1>2. LeaseIntegrity
  BY <1>1 DEF LeaseIntegrity, Leased, NoTask
<1>3. OneTaskPerRequest /\ NotificationAgrees /\ NothingBeforeCreation
  BY <1>1 DEF OneTaskPerRequest, Leased, NotificationAgrees, NothingBeforeCreation,
              NoTask, NoScan
<1>4. QED
  BY <1>2, <1>3, TypeInit DEF StoreIInv, StoreInv

LEMMA IInvStep == StoreIInv /\ [StoreNext]_storeVars => StoreIInv'
<1> SUFFICES ASSUME StoreIInv, [StoreNext]_storeVars PROVE StoreIInv'
  OBVIOUS
<1>1. CASE StoreNext
  <2>1. StoreTypeOK' /\ NotificationAgrees' /\ NothingBeforeCreation'
    BY <1>1, TypeStep, NotificationStep, CreationStep DEF StoreIInv, StoreInv
  <2>2. LeaseIntegrity' /\ OneTaskPerRequest'
    BY <1>1, <2>1, QuietTransactions, QuietStepKeepsLeases, ClaimKeepsLeases
       DEF StoreIInv, StoreInv
  <2>3. QED
    BY <2>1, <2>2 DEF StoreIInv, StoreInv
<1>2. CASE UNCHANGED storeVars
  BY <1>2 DEF storeVars, StoreIInv, StoreInv, StoreTypeOK, LeaseIntegrity, OneTaskPerRequest,
              NotificationAgrees, NothingBeforeCreation, Leased
<1>3. QED
  BY <1>1, <1>2

(* The inductive invariant holds. *)
THEOREM StoreIInvariance == StoreSpec => []StoreIInv
  BY IInvInit, IInvStep, PTL DEF StoreSpec

(* Every row keeps the type of its table: no transaction writes a status,
   an epoch or a reference the code could not have written. *)
THEOREM TypeCorrectness == StoreSpec => []StoreTypeOK
  BY StoreIInvariance, PTL DEF StoreIInv, StoreInv

(* Leases are whole, belong to the agent their scan is bound to and to a
   session that agent had, in whatever order claims, results, fences, agent
   deletions and heartbeats commit. *)
THEOREM LeasesAreSound == StoreSpec => []LeaseIntegrity
  BY StoreIInvariance, PTL DEF StoreIInv, StoreInv

(* A retried RequestTask never obtains a second task. *)
THEOREM RequestsAreIdempotent == StoreSpec => []OneTaskPerRequest
  BY StoreIInvariance, PTL DEF StoreIInv, StoreInv

(* A scan is notified at most once, of the outcome it keeps. *)
THEOREM NotificationsAreRight == StoreSpec => []NotificationAgrees
  BY StoreIInvariance, PTL DEF StoreIInv, StoreInv

-----------------------------------------------------------------------------
(* Outcomes *)

OutcomeKept ==
    /\ \A s \in Scans : scan[s].status \in TerminalScanStatuses
                            => scan'[s].status = scan[s].status
    /\ \A t \in Tasks : task[t].status \in TerminalTaskStatuses
                            => /\ task'[t].status = task[t].status
                               /\ task'[t].failure = task[t].failure

LEMMA OutcomeStep ==
  ASSUME StoreIInv, StoreNext
  PROVE  OutcomeKept
<1>a. /\ scan \in [Scans -> ScanRow] /\ task \in [Tasks -> TaskRow]
      /\ \A s \in Scans : scan[s] \in ScanRow
      /\ \A t \in Tasks : task[t] \in TaskRow /\ ScanOf[t] \in Scans
  BY WorkflowAssumption DEF StoreIInv, StoreInv, StoreTypeOK
<1>b. /\ {"absent", "pending", "running"} \cap TerminalScanStatuses = {}
      /\ ({"absent"} \cup UnfinishedStatuses) \cap TerminalTaskStatuses = {}
      /\ UnstartedStatuses \subseteq UnfinishedStatuses
      /\ ActiveScanStatuses \cap TerminalScanStatuses = {}
  BY DEF TerminalScanStatuses, TerminalTaskStatuses, UnfinishedStatuses, UnstartedStatuses,
         AgentResults, ActiveScanStatuses
(* It is enough that the rows of ended scans and tasks are left alone. *)
<1>c. ASSUME \A s \in Scans : scan[s].status \in TerminalScanStatuses => scan'[s] = scan[s],
             \A t \in Tasks : task[t].status \in TerminalTaskStatuses => task'[t] = task[t]
      PROVE  OutcomeKept
  BY <1>c DEF OutcomeKept
<1>1. ASSUME NEW s \in Scans, NEW a \in Agents \cup {NoAgent},
             NEW skip \in SUBSET TasksOf(s), CreateScan(s, a, skip)
      PROVE  OutcomeKept
  <2>1. \A t \in TasksOf(s) : task[t].status = "absent"
    BY <1>1 DEF CreateScan, StoreIInv, NothingBeforeCreation, TasksOf
  <2>2. QED
    BY <1>1, <1>a, <1>b, <1>c, <2>1 DEF CreateScan
<1>2. ASSUME NEW a \in Agents, NEW e \in Epochs, NEW r \in Requests, NEW t \in Tasks,
             Claim(a, e, r, t)
      PROVE  OutcomeKept
  <2>1. task[t].status = "pending" /\ scan[ScanOf[t]].status \in ActiveScanStatuses
    BY <1>2 DEF Claim, Candidates, Active
  <2>2. /\ \A s \in Scans \ {ScanOf[t]} : scan'[s] = scan[s]
        /\ \A u \in Tasks \ {t} : task'[u] = task[u]
    BY <1>2, <1>a DEF Claim
  <2>3. QED
    BY <1>a, <1>b, <1>c, <2>1, <2>2 DEF UnfinishedStatuses, UnstartedStatuses
<1>3. ASSUME NEW t \in Tasks, NEW a \in Agents, NEW e \in Epochs,
             NEW result \in AgentResults, CommitTerminalStatus(t, a, e, result)
      PROVE  OutcomeKept
  <2>1. task[t].status = "running" /\ \A u \in Tasks \ {t} : task'[u] = task[u]
    BY <1>3, <1>a DEF CommitTerminalStatus
  <2>2. QED
    BY <1>3, <1>b, <1>c, <2>1 DEF CommitTerminalStatus, UnfinishedStatuses
<1>4. ASSUME NEW s \in Scans, NEW t \in Tasks, UnlockNextStageOrder(s, StageOf[t])
      PROVE  OutcomeKept
  BY <1>4, <1>b, <1>c
     DEF UnlockNextStageOrder, NextStage, Unlockable, UnfinishedStatuses, UnstartedStatuses
<1>5. ASSUME NEW s \in Scans, CancelUnstartedTasks(s)
      PROVE  OutcomeKept
  BY <1>5, <1>b, <1>c DEF CancelUnstartedTasks
<1>6. ASSUME NEW s \in Scans, NEW status \in TerminalScanStatuses,
             UpdateScanStatus(s, status)
      PROVE  OutcomeKept
  BY <1>6, <1>a, <1>b, <1>c DEF UpdateScanStatus, Active
<1>7. ASSUME NEW t \in Tasks,
             MarkReconciliationPending(t) \/ ClearReconciliationPending(t)
      PROVE  OutcomeKept
  <2>1. PICK p \in BOOLEAN : task' = [task EXCEPT ![t].pending = p]
    BY <1>7 DEF MarkReconciliationPending, ClearReconciliationPending
  <2>2. \A u \in Tasks : task'[u].status = task[u].status /\ task'[u].failure = task[u].failure
    BY <1>a, <2>1 DEF TaskRow
  <2>3. QED
    BY <1>7, <2>2 DEF OutcomeKept, MarkReconciliationPending, ClearReconciliationPending
<1>8. ASSUME NEW S \in SUBSET Scans, NEW T \in SUBSET RunningIn(S), Disconnect(T)
      PROVE  OutcomeKept
  BY <1>8, <1>b, <1>c DEF Disconnect, RunningIn, UnfinishedStatuses
<1>9. ASSUME NEW S \in SUBSET Scans, StopActiveScans(S)
      PROVE  OutcomeKept
  BY <1>9, <1>b, <1>c DEF StopActiveScans, Active
<1>10. ASSUME NEW s \in Scans, SoftDelete(s)
       PROVE  OutcomeKept
  <2>1. \A x \in Scans : scan'[x].status = scan[x].status
    BY <1>10, <1>a DEF SoftDelete, ScanRow
  <2>2. QED
    BY <1>10, <2>1 DEF OutcomeKept, SoftDelete
<1>11. ASSUME NEW a \in Agents, DeleteAgent(a)
       PROVE  OutcomeKept
  <2>1. \A x \in Scans : scan[x].status \in TerminalScanStatuses => scan'[x] = scan[x]
    BY <1>11, <1>b DEF DeleteAgent, Active
  <2>2. \A t \in Tasks : task[t].status \in TerminalTaskStatuses => task'[t] = task[t]
    BY <1>11, <1>b DEF DeleteAgent
  <2>3. QED
    BY <1>c, <2>1, <2>2
<1>12. ASSUME UNCHANGED <<scan, task>>
       PROVE  OutcomeKept
  BY <1>12 DEF OutcomeKept
<1>13. QED
  BY <1>1, <1>2, <1>3, <1>4, <1>5, <1>6, <1>7, <1>8, <1>9, <1>10, <1>11, <1>12
     DEF StoreNext, FailTasksForOfflineAgent, FailTasksForSupersededSession, RecordConnection,
         UpdateHeartbeat, HeartbeatLapses, MarkOfflineFromOnline

LEMMA BindingStep ==
  ASSUME StoreIInv, StoreNext
  PROVE  /\ \A s \in Scans : scan[s].agent # NoAgent => scan'[s].agent = scan[s].agent
         /\ \A t \in Tasks : Leased(t) => /\ task'[t].agent = task[t].agent
                                          /\ task'[t].epoch = task[t].epoch
                                          /\ task'[t].request = task[t].request
<1>1. CASE QuietStep
  BY <1>1 DEF QuietStep, LeaseUnchanged, StoreIInv, NothingBeforeCreation
<1>2. ASSUME NEW a \in Agents, NEW e \in Epochs, NEW r \in Requests, NEW t \in Tasks,
             Claim(a, e, r, t)
      PROVE  /\ \A s \in Scans : scan[s].agent # NoAgent => scan'[s].agent = scan[s].agent
             /\ \A u \in Tasks : Leased(u) => task'[u] = task[u]
  <2>1. /\ scan \in [Scans -> ScanRow] /\ task \in [Tasks -> TaskRow]
        /\ ScanOf[t] \in Scans /\ scan[ScanOf[t]] \in ScanRow
    BY WorkflowAssumption DEF StoreIInv, StoreInv, StoreTypeOK
  <2>2. /\ scan[ScanOf[t]].agent \in {NoAgent, a} /\ ~Leased(t)
    BY <1>2 DEF Claim, Candidates, StoreIInv, StoreInv, LeaseIntegrity, UnstartedStatuses
  <2>3. /\ scan'[ScanOf[t]].agent = a
        /\ \A s \in Scans \ {ScanOf[t]} : scan'[s] = scan[s]
        /\ \A u \in Tasks \ {t} : task'[u] = task[u]
    BY <1>2, <2>1 DEF Claim, ScanRow
  <2>4. QED
    BY <2>2, <2>3
<1>3. QED
  BY <1>1, <1>2, QuietTransactions DEF StoreIInv, StoreInv

LEMMA FinalTransactions == StoreIInv /\ [StoreNext]_storeVars => [FinalStep]_storeVars
  BY OutcomeStep, BindingStep DEF FinalStep, OutcomeKept

(* No transaction reopens a scan or a task that has ended, re-binds a scan or
   hands a leased task out again. *)
THEOREM OutcomesNeverChange == StoreSpec => OutcomesAreFinal
<1>1. StoreIInv /\ [StoreNext]_storeVars => [FinalStep]_storeVars
  BY FinalTransactions
<1>2. QED
  BY <1>1, StoreIInvariance, PTL DEF StoreSpec, OutcomesAreFinal

-----------------------------------------------------------------------------
(* Fencing *)

LEMMA FencedTransactions ==
  ASSUME StoreIInv, StoreNext
  PROVE  FencedStep
<1>a. /\ task \in [Tasks -> TaskRow]
      /\ \A t \in Tasks : task[t] \in TaskRow /\ ScanOf[t] \in Scans
  BY WorkflowAssumption DEF StoreIInv, StoreInv, StoreTypeOK
<1>b. ASSUME \A t \in Tasks : task[t].status = "running" => task'[t].status = "running"
      PROVE  FencedStep
  BY <1>b DEF FencedStep
<1>1. ASSUME NEW s \in Scans, NEW a \in Agents \cup {NoAgent},
             NEW skip \in SUBSET TasksOf(s), CreateScan(s, a, skip)
      PROVE  FencedStep
  <2>1. \A t \in TasksOf(s) : task[t].status = "absent"
    BY <1>1 DEF CreateScan, StoreIInv, NothingBeforeCreation, TasksOf
  <2>2. QED
    BY <1>1, <1>b, <2>1 DEF CreateScan
<1>2. ASSUME NEW a \in Agents, NEW e \in Epochs, NEW r \in Requests, NEW t \in Tasks,
             Claim(a, e, r, t)
      PROVE  FencedStep
  BY <1>2, <1>a, <1>b DEF Claim, TaskRow
<1>3. ASSUME NEW t \in Tasks, NEW a \in Agents, NEW e \in Epochs,
             NEW result \in AgentResults, CommitTerminalStatus(t, a, e, result)
      PROVE  FencedStep
  <2>1. SessionPersisted(task[t].agent, task[t].epoch)
    BY <1>3 DEF CommitTerminalStatus, LeaseMatches
  <2>2. \A u \in Tasks \ {t} : task'[u] = task[u]
    BY <1>3, <1>a DEF CommitTerminalStatus
  <2>3. QED
    BY <2>1, <2>2 DEF FencedStep
<1>4. ASSUME NEW s \in Scans, NEW t \in Tasks, UnlockNextStageOrder(s, StageOf[t])
      PROVE  FencedStep
  BY <1>4, <1>b DEF UnlockNextStageOrder, NextStage, Unlockable
<1>5. ASSUME NEW s \in Scans, CancelUnstartedTasks(s)
      PROVE  FencedStep
  BY <1>5, <1>b DEF CancelUnstartedTasks, UnstartedStatuses
<1>6. ASSUME NEW t \in Tasks,
             MarkReconciliationPending(t) \/ ClearReconciliationPending(t)
      PROVE  FencedStep
  <2>1. PICK p \in BOOLEAN : task' = [task EXCEPT ![t].pending = p]
    BY <1>6 DEF MarkReconciliationPending, ClearReconciliationPending
  <2>2. QED
    BY <1>a, <1>b, <2>1 DEF TaskRow
<1>7. ASSUME NEW S \in SUBSET Scans, NEW T \in SUBSET RunningIn(S), Disconnect(T)
      PROVE  FencedStep
  <2>1. ASSUME NEW t \in T
        PROVE  task'[t].status = "failed" /\ task'[t].failure = "agent_disconnected"
    BY <1>7, <1>a DEF Disconnect, RunningIn, TaskRow
  <2>2. \A t \in Tasks \ T : task'[t] = task[t]
    BY <1>7 DEF Disconnect
  <2>3. QED
    BY <2>1, <2>2 DEF FencedStep
<1>8. ASSUME NEW S \in SUBSET Scans, StopActiveScans(S)
      PROVE  FencedStep
  <2>1. ASSUME NEW t \in Tasks
        PROVE  \/ task'[t] = task[t]
               \/ task'[t].status = "cancelled" /\ task'[t].pending = task[t].pending
    BY <1>8, <1>a DEF StopActiveScans, TaskRow
  <2>2. QED
    BY <2>1 DEF FencedStep
<1>9. ASSUME NEW a \in Agents, DeleteAgent(a)
      PROVE  FencedStep
  BY <1>9, <1>b DEF DeleteAgent, UnstartedStatuses
<1>10. ASSUME UNCHANGED task
       PROVE  FencedStep
  BY <1>10, <1>b
<1>11. QED
  BY <1>1, <1>2, <1>3, <1>4, <1>5, <1>6, <1>7, <1>8, <1>9, <1>10
     DEF StoreNext, FailTasksForOfflineAgent, FailTasksForSupersededSession, UpdateScanStatus,
         SoftDelete, RecordConnection, UpdateHeartbeat, HeartbeatLapses, MarkOfflineFromOnline

(* A superseded session records no result any more: its leases only end
   cancelled or disconnected. *)
THEOREM SupersededSessionsAreFenced == StoreSpec => SupersededSessionIsFenced
<1>1. StoreIInv /\ [StoreNext]_storeVars => [FencedStep]_storeVars
  BY FencedTransactions
<1>2. QED
  BY <1>1, StoreIInvariance, PTL DEF StoreSpec, SupersededSessionIsFenced
=============================================================================
