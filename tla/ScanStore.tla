------------------------------ MODULE ScanStore ------------------------------
(***************************************************************************)
(* The scan, scan_task, agent and agent_runtime_status tables of the       *)
(* LunaFox server, and the database transactions that write them.          *)
(*                                                                         *)
(* Every action below is ONE committed transaction of the repositories     *)
(* (modules/scan/repository, modules/agent/repository), atomic because of  *)
(* the row locks it takes or because it writes with one statement.  The    *)
(* order in which the server calls them is the business of ScanExecution;  *)
(* here they may come in any order, so what holds of this specification    *)
(* holds however the calls are interleaved, retried or abandoned.          *)
(*                                                                         *)
(* A session is named by its epoch: the heartbeat upsert stores an epoch   *)
(* with a single session identifier, so the epoch alone tells sessions of  *)
(* one agent apart.                                                        *)
(***************************************************************************)
EXTENDS Integers, Sequences, FiniteSets

CONSTANTS
    Scans,       \* scan identifiers
    Tasks,       \* scan_task identifiers, one per workflow step of a scan
    Agents,      \* agent identifiers
    Requests,    \* request_id of RequestTask messages (UUIDs)
    ScanOf,      \* scan_task.scan_id
    StageOf,     \* scan_task.stage_order
    Runs,        \* Runs[a]: tasks whose plan needs an Engine API major of a
    MaxEpoch,    \* bound on session epochs
    NoAgent,     \* NULL in scan.agent_id and scan_task.assigned_agent_id
    NoRequest    \* NULL in scan_task.assigned_request_id

ASSUME WorkflowAssumption ==
    /\ ScanOf \in [Tasks -> Scans]
    /\ StageOf \in [Tasks -> Nat \ {0}]
    /\ Runs \in [Agents -> SUBSET Tasks]

ASSUME IdentityAssumption ==
    /\ MaxEpoch \in Nat
    /\ NoAgent \notin Agents
    /\ NoRequest \notin Requests

VARIABLES
    scan,    \* scan rows: status, agent, mode, deleted
    task,    \* scan_task rows
    agent,   \* agent and agent_runtime_status rows
    outbox   \* terminal notification candidates written per scan, in order

storeVars == <<scan, task, agent, outbox>>

-----------------------------------------------------------------------------
(* Statuses: modules/scan/domain.  "absent" is a scan not created yet.     *)

ActiveScanStatuses   == {"pending", "running"}
TerminalScanStatuses == {"succeeded", "failed", "cancelled"}
ScanStatuses == {"absent"} \cup ActiveScanStatuses \cup TerminalScanStatuses

AgentResults         == {"succeeded", "failed", "cancelled"}
UnstartedStatuses    == {"pending", "blocked"}
UnfinishedStatuses   == UnstartedStatuses \cup {"running"}
TerminalTaskStatuses == AgentResults \cup {"skipped"}
TaskStatuses == {"absent"} \cup UnfinishedStatuses \cup TerminalTaskStatuses

FailureKinds == {"none", "engine", "agent_disconnected", "agent_deleted"}
Epochs == 0 .. MaxEpoch

TasksOf(s) == {t \in Tasks : ScanOf[t] = s}

Active(s) == scan[s].status \in ActiveScanStatuses

(* The counts that CountByStatusForScanID and CountActiveByScanAndStageOrder
   read, as the questions their callers ask. *)
Has(s, statuses) == \E t \in TasksOf(s) : task[t].status \in statuses

(* ResolveScanStatusFromTaskCounts, with the blocked tasks left out of the
   counts; "undecided" is its shouldUpdate = false. *)
ResolvedStatus(s) ==
    CASE Has(s, {"pending", "running"}) -> "undecided"
      [] ~Has(s, {"pending", "running"}) /\ Has(s, {"failed"}) -> "failed"
      [] ~Has(s, {"pending", "running", "failed"}) /\ Has(s, {"cancelled"}) -> "cancelled"
      [] OTHER -> "succeeded"

(* requirePersistedAgentExecutionSession *)
SessionPersisted(a, e) == agent[a].present /\ e > 0 /\ agent[a].epoch = e

LeaseMatches(t, a, e) ==
    /\ scan[ScanOf[t]].agent = a
    /\ task[t].agent = a
    /\ task[t].epoch = e

-----------------------------------------------------------------------------

NoScan == [status |-> "absent", agent |-> NoAgent, mode |-> "automatic",
           deleted |-> FALSE]

NoTask == [status |-> "absent", agent |-> NoAgent, epoch |-> 0,
           request |-> NoRequest, pending |-> FALSE, failure |-> "none"]

(* An enrolled agent that has not connected yet. *)
NewAgent == [present |-> TRUE, online |-> FALSE, epoch |-> 0, fresh |-> FALSE]

GoneAgent == [NewAgent EXCEPT !.present = FALSE]

StoreInit ==
    /\ scan = [s \in Scans |-> NoScan]
    /\ task = [t \in Tasks |-> NoTask]
    /\ agent = [a \in Agents |-> NewAgent]
    /\ outbox = [s \in Scans |-> <<>>]

-----------------------------------------------------------------------------
(* Creation.  The planner finalises each task inside the transaction:      *)
(* disabled or inapplicable steps (the set skip) are skipped, executable   *)
(* tasks of the first executable stage are pending and later ones blocked. *)

Executable(s, skip) == TasksOf(s) \ skip

InFirstStage(t, s, skip) ==
    \A u \in Executable(s, skip) : StageOf[t] <= StageOf[u]

CreatedStatus(t, s, skip) ==
    CASE t \in skip -> "skipped"
      [] t \notin skip /\ InFirstStage(t, s, skip) -> "pending"
      [] OTHER -> "blocked"

CreateScan(s, a, skip) ==
    /\ scan[s].status = "absent"
    /\ TasksOf(s) # {}
    /\ skip \subseteq TasksOf(s)
    /\ scan' = [scan EXCEPT ![s] =
           [status  |-> IF skip = TasksOf(s) THEN "succeeded" ELSE "pending",
            agent   |-> a,
            mode    |-> IF a = NoAgent THEN "automatic" ELSE "pinned",
            deleted |-> FALSE]]
    /\ task' = [t \in Tasks |->
           IF t \in TasksOf(s)
           THEN [NoTask EXCEPT !.status = CreatedStatus(t, s, skip)]
           ELSE task[t]]
    /\ UNCHANGED <<agent, outbox>>

-----------------------------------------------------------------------------
(* Claiming: ClaimNextCompatibleSavedExecutionPlan                         *)

(* Mutant: only a task that is still running answers its request again. *)
ClaimedAndRunning(a, e, r) ==
    {t \in Tasks : /\ task[t].status = "running"
                   /\ task[t].agent = a /\ task[t].epoch = e /\ task[t].request = r}

(* findSavedPlanClaimReplay: the tasks a lease was handed out for, whatever
   their status is by now. *)
Claimed(a, e, r) ==
    {t \in Tasks : task[t].agent = a /\ task[t].epoch = e /\ task[t].request = r}

(* Mutant: the agent a scan is bound to is not compared. *)
CandidatesOfAnyScan(a) ==
    {t \in Runs[a] : task[t].status = "pending" /\ Active(ScanOf[t]) /\ ~scan[ScanOf[t]].deleted}

(* selectCompatibleSavedPlanCandidate.  The query orders the candidates and
   skips the rows other transactions have locked, so any candidate may be the
   first it sees. *)
Candidates(a) ==
    {t \in Runs[a] :
        /\ task[t].status = "pending"
        /\ Active(ScanOf[t])
        /\ ~scan[ScanOf[t]].deleted
        /\ scan[ScanOf[t]].agent \in {NoAgent, a}}

Claim(a, e, r, t) ==
    /\ SessionPersisted(a, e)
    /\ Claimed(a, e, r) = {}
    /\ t \in Candidates(a)
    /\ task' = [task EXCEPT ![t] = [@ EXCEPT !.status = "running", !.agent = a,
                                             !.epoch = e, !.request = r]]
    /\ scan' = [scan EXCEPT ![ScanOf[t]] = [@ EXCEPT !.status = "running", !.agent = a]]
    /\ UNCHANGED <<agent, outbox>>

-----------------------------------------------------------------------------
(* Terminal results and their reconciliation                               *)

FailureOf(result) == IF result = "failed" THEN "engine" ELSE "none"

(* Mutant: the commit does not ask for the persisted session. *)
CommitOfAnySession(t, a, e, result) ==
    /\ task[t].status = "running"
    /\ LeaseMatches(t, a, e)
    /\ result \in AgentResults
    /\ task' = [task EXCEPT ![t] = [@ EXCEPT !.status = result, !.pending = TRUE,
                                             !.failure = FailureOf(result)]]
    /\ UNCHANGED <<scan, agent, outbox>>

(* commitScanTaskTerminalStatus, for a result of the leasing session *)
CommitTerminalStatus(t, a, e, result) ==
    /\ SessionPersisted(a, e)
    /\ task[t].status = "running"
    /\ LeaseMatches(t, a, e)
    /\ result \in AgentResults
    /\ task' = [task EXCEPT ![t] = [@ EXCEPT !.status = result, !.pending = TRUE,
                                             !.failure = FailureOf(result)]]
    /\ UNCHANGED <<scan, agent, outbox>>

(* findNextUnlockableStageOrder: the blocked tasks after stage k that no
   waiting, running, failed or cancelled task separates from it ... *)
Unlockable(s, k) ==
    {t \in TasksOf(s) :
        /\ task[t].status = "blocked"
        /\ StageOf[t] > k
        /\ ~\E u \in TasksOf(s) :
              /\ StageOf[u] > k
              /\ StageOf[u] < StageOf[t]
              /\ task[u].status \in {"pending", "running", "failed", "cancelled"}}

(* ... of which the earliest stage is unlocked. *)
NextStage(s, k) ==
    {t \in Unlockable(s, k) : \A u \in Unlockable(s, k) : StageOf[t] <= StageOf[u]}

UnlockNextStageOrder(s, k) ==
    /\ task' = [t \in Tasks |->
           IF t \in NextStage(s, k) THEN [task[t] EXCEPT !.status = "pending"]
                                    ELSE task[t]]
    /\ UNCHANGED <<scan, agent, outbox>>

CancelUnstartedTasks(s) ==
    /\ task' = [t \in Tasks |->
           IF t \in TasksOf(s) /\ task[t].status \in UnstartedStatuses
           THEN [task[t] EXCEPT !.status = "cancelled"] ELSE task[t]]
    /\ UNCHANGED <<scan, agent, outbox>>

(* Mutants: a scan that has ended is written again, or a cancellation is
   notified too. *)
UpdateAnyScanStatus(s, status) ==
    /\ scan[s].status # "absent"
    /\ scan' = [scan EXCEPT ![s].status = status]
    /\ outbox' = IF status \in {"succeeded", "failed"}
                 THEN [outbox EXCEPT ![s] = Append(@, status)] ELSE outbox
    /\ UNCHANGED <<task, agent>>

(* UpdateScanStatus: only an active scan is written, and the notification
   candidate of an outcome commits with it. *)
UpdateScanStatus(s, status) ==
    /\ IF Active(s)
       THEN /\ scan' = [scan EXCEPT ![s].status = status]
            /\ outbox' = IF status \in {"succeeded", "failed"}
                         THEN [outbox EXCEPT ![s] = Append(@, status)]
                         ELSE outbox
       ELSE UNCHANGED <<scan, outbox>>
    /\ UNCHANGED <<task, agent>>

MarkReconciliationPending(t) ==
    /\ task[t].status # "absent"
    /\ task' = [task EXCEPT ![t].pending = TRUE]
    /\ UNCHANGED <<scan, agent, outbox>>

ClearReconciliationPending(t) ==
    /\ task[t].status # "absent"
    /\ task' = [task EXCEPT ![t].pending = FALSE]
    /\ UNCHANGED <<scan, agent, outbox>>

-----------------------------------------------------------------------------
(* Lease recovery: failRunningTasksForAgent.  It selects scans, without a    *)
(* lock, and updates their running tasks in a later statement.             *)

OfflineScans(a) ==
    {s \in Scans : scan[s].agent = a /\ Has(s, {"running"})}

(* Mutant: off by one, the session just before the current one is spared. *)
LeasedLongBefore(t, e) == task[t].epoch > 0 /\ task[t].epoch + 1 < e

LeasedBefore(t, e) == task[t].epoch > 0 /\ task[t].epoch < e

SupersededScans(a, e) ==
    {s \in Scans :
        /\ scan[s].agent = a
        /\ scan[s].status \notin {"failed", "cancelled"}
        /\ \E t \in TasksOf(s) :
              /\ LeasedBefore(t, e)
              /\ \/ task[t].status = "running"
                 \/ task[t].status = "failed" /\ task[t].failure = "agent_disconnected"}

(* Mutant: a disconnected task gets no recovery marker. *)
DisconnectWithoutMarker(T) ==
    /\ task' = [t \in Tasks |->
           IF t \in T THEN [task[t] EXCEPT !.status = "failed",
                                           !.failure = "agent_disconnected"]
                      ELSE task[t]]
    /\ UNCHANGED <<scan, agent, outbox>>

Disconnect(T) ==
    /\ task' = [t \in Tasks |->
           IF t \in T THEN [task[t] EXCEPT !.status = "failed", !.pending = TRUE,
                                           !.failure = "agent_disconnected"]
                      ELSE task[t]]
    /\ UNCHANGED <<scan, agent, outbox>>

RunningIn(S) == {t \in Tasks : ScanOf[t] \in S /\ task[t].status = "running"}

FailTasksForOfflineAgent(a, S) ==
    /\ \A s \in S : scan[s].agent = a
    /\ Disconnect(RunningIn(S))

FailTasksForSupersededSession(a, e, S) ==
    /\ \A s \in S : scan[s].agent = a
    /\ Disconnect({t \in RunningIn(S) : LeasedBefore(t, e)})

-----------------------------------------------------------------------------
(* Operator commands                                                       *)

(* Mutant: only tasks that are or may be leased are cancelled. *)
StopClaimable(S) ==
    /\ S # {}
    /\ \A s \in S : Active(s)
    /\ scan' = [s \in Scans |->
           IF s \in S THEN [scan[s] EXCEPT !.status = "cancelled"] ELSE scan[s]]
    /\ task' = [t \in Tasks |->
           IF ScanOf[t] \in S /\ task[t].status \in {"pending", "running"}
           THEN [task[t] EXCEPT !.status = "cancelled"] ELSE task[t]]
    /\ UNCHANGED <<agent, outbox>>

(* The one cancellation transaction behind Stop, batch stop, stop-all before
   an upgrade and the cleanup of a deleted target. *)
StopActiveScans(S) ==
    /\ S # {}
    /\ \A s \in S : Active(s)
    /\ scan' = [s \in Scans |->
           IF s \in S THEN [scan[s] EXCEPT !.status = "cancelled"] ELSE scan[s]]
    /\ task' = [t \in Tasks |->
           IF ScanOf[t] \in S /\ task[t].status \in UnfinishedStatuses
           THEN [task[t] EXCEPT !.status = "cancelled"] ELSE task[t]]
    /\ UNCHANGED <<agent, outbox>>

(* BatchSoftDelete.  Its callers stop the scan first, so the scan has ended. *)
SoftDelete(s) ==
    /\ scan[s].status \in TerminalScanStatuses
    /\ ~scan[s].deleted
    /\ scan' = [scan EXCEPT ![s].deleted = TRUE]
    /\ UNCHANGED <<task, agent, outbox>>

(* The live scans pinned to a *)
PinnedTo(a) ==
    {s \in Scans : /\ scan[s].status # "absent"
                   /\ scan[s].agent = a
                   /\ scan[s].mode = "pinned"
                   /\ ~scan[s].deleted}

(* DeleteAgent: unstarted work pinned to the agent fails, and the scans that
   have no running task left fail with it, in the same transaction. *)
DeleteAgent(a) ==
    /\ agent[a].present
    /\ task' = [t \in Tasks |->
           IF ScanOf[t] \in PinnedTo(a) /\ task[t].status \in UnstartedStatuses
           THEN [task[t] EXCEPT !.status = "failed", !.pending = FALSE,
                                !.failure = "agent_deleted"]
           ELSE task[t]]
    /\ scan' = [s \in Scans |->
           IF /\ s \in PinnedTo(a)
              /\ Active(s)
              /\ \E t \in TasksOf(s) : task'[t].failure = "agent_deleted"
              /\ \A t \in TasksOf(s) : task'[t].status \notin UnfinishedStatuses
           THEN [scan[s] EXCEPT !.status = "failed"] ELSE scan[s]]
    /\ agent' = [agent EXCEPT ![a] = GoneAgent]
    /\ UNCHANGED outbox

-----------------------------------------------------------------------------
(* Agent presence: modules/agent/repository                                *)

RecordConnection(a) ==
    /\ agent[a].present
    /\ agent' = [agent EXCEPT ![a].online = TRUE]
    /\ UNCHANGED <<scan, task, outbox>>

(* Mutant: the upsert takes any epoch. *)
UpdateHeartbeatOfAnyEpoch(a, e) ==
    /\ agent[a].present
    /\ agent' = [agent EXCEPT ![a] =
           [present |-> TRUE, online |-> TRUE, epoch |-> e, fresh |-> TRUE]]
    /\ UNCHANGED <<scan, task, outbox>>

(* UpdateHeartbeat: the upsert keeps the epoch from going back. *)
UpdateHeartbeat(a, e) ==
    /\ agent[a].present
    /\ agent[a].epoch <= e
    /\ agent' = [agent EXCEPT ![a] =
           [present |-> TRUE, online |-> TRUE, epoch |-> e, fresh |-> TRUE]]
    /\ UNCHANGED <<scan, task, outbox>>

(* Time passes: last_heartbeat falls behind the monitor's cutoff. *)
HeartbeatLapses(a) ==
    /\ agent[a].fresh
    /\ agent' = [agent EXCEPT ![a].fresh = FALSE]
    /\ UNCHANGED <<scan, task, outbox>>

MarkOfflineFromOnline(a) ==
    /\ agent' = [agent EXCEPT ![a].online = FALSE]
    /\ UNCHANGED <<scan, task, outbox>>

(* FindStaleOnline and FindOnlineRuntimeSessions *)
StaleOnline == {a \in Agents : agent[a].present /\ agent[a].online
                               /\ agent[a].epoch > 0 /\ ~agent[a].fresh}

OnlineSessions == {<<a, agent[a].epoch>> : a \in
                    {b \in Agents : agent[b].present /\ agent[b].online
                                    /\ agent[b].epoch > 0}}

-----------------------------------------------------------------------------

StoreNext ==
    \/ \E s \in Scans, a \in Agents \cup {NoAgent} :
          \E skip \in SUBSET TasksOf(s) : CreateScan(s, a, skip)
    \/ \E a \in Agents, e \in Epochs, r \in Requests, t \in Tasks : Claim(a, e, r, t)
    \/ \E t \in Tasks, a \in Agents, e \in Epochs, result \in AgentResults :
          CommitTerminalStatus(t, a, e, result)
    \/ \E s \in Scans, t \in Tasks :
          ScanOf[t] = s /\ UnlockNextStageOrder(s, StageOf[t])
    \/ \E s \in Scans : CancelUnstartedTasks(s)
    \/ \E s \in Scans, status \in TerminalScanStatuses : UpdateScanStatus(s, status)
    \/ \E t \in Tasks : \/ MarkReconciliationPending(t)
                        \/ ClearReconciliationPending(t)
    \/ \E a \in Agents, S \in SUBSET Scans : FailTasksForOfflineAgent(a, S)
    \/ \E a \in Agents, e \in Epochs, S \in SUBSET Scans :
          FailTasksForSupersededSession(a, e, S)
    \/ \E S \in SUBSET Scans : StopActiveScans(S)
    \/ \E s \in Scans : SoftDelete(s)
    \/ \E a \in Agents : DeleteAgent(a)
    \/ \E a \in Agents : RecordConnection(a)
    \/ \E a \in Agents, e \in Epochs \ {0} : UpdateHeartbeat(a, e)
    \/ \E a \in Agents : HeartbeatLapses(a)
    \/ \E a \in Agents : MarkOfflineFromOnline(a)

StoreSpec == StoreInit /\ [][StoreNext]_storeVars

-----------------------------------------------------------------------------
(* What holds of the tables however the transactions are ordered.          *)

ScanRow == [status : ScanStatuses, agent : Agents \cup {NoAgent},
            mode : {"automatic", "pinned"}, deleted : BOOLEAN]

TaskRow == [status : TaskStatuses, agent : Agents \cup {NoAgent}, epoch : Epochs,
            request : Requests \cup {NoRequest}, pending : BOOLEAN,
            failure : FailureKinds]

AgentRow == [present : BOOLEAN, online : BOOLEAN, epoch : Epochs, fresh : BOOLEAN]

(* Every row has values the code can write to it. *)
StoreTypeOK ==
    /\ scan \in [Scans -> ScanRow]
    /\ task \in [Tasks -> TaskRow]
    /\ agent \in [Agents -> AgentRow]
    /\ outbox \in [Scans -> Seq({"succeeded", "failed"})]

Leased(t) == task[t].epoch > 0

(* A lease is whole or absent; a leased task belongs to the agent its scan is
   bound to, was handed out by a session the agent really had, and its scan
   has started.  A running task always has one. *)
LeaseIntegrity ==
    \A t \in Tasks :
        /\ task[t].status = "running" => Leased(t)
        /\ task[t].status \in {"absent", "skipped"} \cup UnstartedStatuses => ~Leased(t)
        /\ ~Leased(t) => task[t].agent = NoAgent /\ task[t].request = NoRequest
        /\ Leased(t) =>
              /\ task[t].agent \in Agents
              /\ task[t].request \in Requests
              /\ task[t].agent = scan[ScanOf[t]].agent
              /\ scan[ScanOf[t]].status \notin {"absent", "pending"}
              /\ agent[task[t].agent].present =>
                     task[t].epoch <= agent[task[t].agent].epoch

(* A request of a session obtains at most one task: a retried RequestTask is
   answered with the same task, never with a second one. *)
OneTaskPerRequest ==
    \A t, u \in Tasks :
        /\ Leased(t) /\ Leased(u)
        /\ task[t].agent = task[u].agent
        /\ task[t].epoch = task[u].epoch
        /\ task[t].request = task[u].request
        => t = u

(* At most one terminal notification is ever queued for a scan, and it names
   the outcome the scan has. *)
NotificationAgrees ==
    \A s \in Scans :
        \/ outbox[s] = <<>>
        \/ outbox[s] = <<scan[s].status>> /\ scan[s].status \in {"succeeded", "failed"}

StoreInv == StoreTypeOK /\ LeaseIntegrity /\ OneTaskPerRequest /\ NotificationAgrees

(* No transaction takes a scan or a task out of a terminal status, re-binds a
   scan to another agent or hands a leased task out again. *)
FinalStep ==
    /\ \A s \in Scans :
          /\ scan[s].status \in TerminalScanStatuses => scan'[s].status = scan[s].status
          /\ scan[s].agent # NoAgent => scan'[s].agent = scan[s].agent
    /\ \A t \in Tasks :
          /\ task[t].status \in TerminalTaskStatuses =>
                 /\ task'[t].status = task[t].status
                 /\ task'[t].failure = task[t].failure
          /\ Leased(t) => /\ task'[t].agent = task[t].agent
                          /\ task'[t].epoch = task[t].epoch
                          /\ task'[t].request = task[t].request

OutcomesAreFinal == [][FinalStep]_storeVars

(* A superseded session is fenced: once its agent has a later session, or is
   gone, a lease of the old one can only be cancelled or lost to
   agent_disconnected; no result of the old session is recorded. *)
FencedStep ==
    \A t \in Tasks :
        /\ task[t].status = "running"
        /\ task'[t].status # "running"
        /\ ~SessionPersisted(task[t].agent, task[t].epoch)
        => \/ task'[t].status = "cancelled" /\ task'[t].pending = task[t].pending
           \/ task'[t].status = "failed" /\ task'[t].failure = "agent_disconnected"

SupersededSessionIsFenced == [][FencedStep]_storeVars
=============================================================================
