---------------------------- MODULE ScanExecution ----------------------------
(***************************************************************************)
(* The server goroutines that drive a scan through the tables of           *)
(* ScanStore: one control stream per agent connection (grpc/agentcontrol), *)
(* whose handlers run the scan task bridge (modules/scan/application), and *)
(* the agent monitor job (job/agent_monitor.go).                           *)
(*                                                                         *)
(* A goroutine is a program counter and the local variables of its         *)
(* handler; between two steps other goroutines run.  One step is one       *)
(* database transaction, or one access to the in-memory session registry,  *)
(* with the local work up to the next one.  Agents are outside the server: *)
(* a connected stream may carry any claim, heartbeat or terminal result,   *)
(* repeated ones and ones about tasks of other leases included.            *)
(***************************************************************************)
EXTENDS ScanStore

CONSTANTS
    Streams,    \* control stream goroutines
    Monitors,   \* agent monitor goroutines
    Skips,      \* task sets the planner may skip at creation
    Events,     \* operator commands and other events of the instance
    MaxFaults,  \* bound on server restarts, broken handlers and failed queries
    None        \* no task, no scan, no stream, no create request

Workers == Streams \cup Monitors

ASSUME WorkersAssumption ==
    /\ Tasks \subseteq Nat
    /\ Streams \cap Monitors = {}
    /\ None \notin Workers \cup Agents \cup {NoAgent}
    /\ Skips \subseteq SUBSET Tasks
    /\ MaxFaults \in Nat

VARIABLES
    admitted,   \* admitted[s]: agent selected by a validated create request
    live,       \* ActiveSessionRegistry.sessions
    lastEpoch,  \* ActiveSessionRegistry.lastEpoch
    pc,         \* where each goroutine is
    job,        \* the local variables of its handler
    faults      \* faults so far

memoryVars == <<admitted, live, lastEpoch, pc, job, faults>>
vars == <<storeVars, memoryVars>>

-----------------------------------------------------------------------------

(* phase says on whose behalf a goroutine reconciles: a terminal "report",
   the "fence" of a registration and the "drain" of its superseded markers,
   the monitor's "sweep" and "last sweep" over all markers, its recovery of
   an "offline" agent, and of superseded "sessions". *)
NoJob == [phase |-> "none", agent |-> NoAgent, epoch |-> 0, result |-> "none",
          stale |-> {}, sessions |-> {}, tasks |-> {}, task |-> None,
          scans |-> {}, scan |-> None, verdict |-> "none"]

NoSession == [epoch |-> 0, stream |-> None, ready |-> FALSE]

Init ==
    /\ StoreInit
    /\ admitted = [s \in Scans |-> None]
    /\ live = [a \in Agents |-> NoSession]
    /\ lastEpoch = [a \in Agents |-> 0]
    /\ pc = [w \in Workers |-> "idle"]
    /\ job = [w \in Workers |-> NoJob]
    /\ faults = 0

Goto(w, label, local) ==
    /\ pc' = [pc EXCEPT ![w] = label]
    /\ job' = [job EXCEPT ![w] = local]

Registry == <<live, lastEpoch>>

Rest == <<admitted, live, lastEpoch, faults>>

(* MatchesCurrentSession *)
Current(w) ==
    live[job[w].agent] = [epoch |-> job[w].epoch, stream |-> w, ready |-> TRUE]

(* The session of this stream, ready or not, is the registry's. *)
Registered(w) ==
    live[job[w].agent].stream = w /\ live[job[w].agent].epoch = job[w].epoch

(* DetachStreamIfCurrent, for the session this goroutine registered *)
Detach(w) ==
    live' = [a \in Agents |->
        IF a = job[w].agent /\ live[a].stream = w
        THEN [live[a] EXCEPT !.stream = None, !.ready = FALSE] ELSE live[a]]

(* The stream ends: every handler error is returned from Connect. *)
EndStream(w) ==
    /\ Goto(w, "idle", NoJob)
    /\ Detach(w)
    /\ UNCHANGED <<storeVars, admitted, lastEpoch>>

-----------------------------------------------------------------------------
(* Registration of a control session: registerSession                      *)

(* RestorePersistedSession and Register: a live session of the same process
   keeps its epoch, any other gets the next one. *)
NextEpoch(a) ==
    1 + IF lastEpoch[a] < agent[a].epoch THEN agent[a].epoch ELSE lastEpoch[a]

ReusableEpochs(a) ==
    IF live[a].epoch > 0 THEN {live[a].epoch}
    ELSE {e \in {agent[a].epoch} : e > 0 /\ agent[a].fresh}

RegisterSession(w, a, e) ==
    /\ pc[w] = "idle"
    /\ e \in ReusableEpochs(a) \cup ({NextEpoch(a)} \cap Epochs)
    /\ RecordConnection(a)
    /\ live' = [live EXCEPT ![a] = [epoch |-> e, stream |-> w, ready |-> FALSE]]
    /\ lastEpoch' = [lastEpoch EXCEPT ![a] = IF e = NextEpoch(a) THEN e ELSE NextEpoch(a) - 1]
    /\ Goto(w, "persist", [NoJob EXCEPT !.agent = a, !.epoch = e])
    /\ UNCHANGED <<admitted, faults>>

PersistSession(w) ==
    /\ pc[w] = "persist"
    /\ UpdateHeartbeat(job[w].agent, job[w].epoch)
    /\ Goto(w, "attach", job[w])
    /\ UNCHANGED Rest

(* UpdateExecutionSnapshotIfCurrent; the snapshot itself is left out. *)
AttachSnapshot(w) ==
    /\ pc[w] = "attach"
    /\ Registered(w)
    /\ Goto(w, "fence", job[w])
    /\ UNCHANGED <<storeVars, Rest>>

(* Where a handler continues when the scans it had to recalculate are done. *)
AfterScans(phase) ==
    CASE phase = "fence"       -> "list"
      [] phase = "offline"     -> "mark offline"
      [] phase = "unrecovered" -> "keep online"
      [] phase = "sessions"    -> "sessions"
      [] OTHER                 -> "clear"

Recalculate(w, local, S) ==
    Goto(w, IF S = {} THEN AfterScans(local.phase) ELSE "recalculate",
         [local EXCEPT !.scans = S, !.scan = None, !.verdict = "none"])

(* failRunningTasksForAgent: the scans it selected, then the update of their
   running tasks. *)
SelectScans(w, local, S) ==
    /\ IF S = {} THEN Recalculate(w, local, {})
                 ELSE Goto(w, "disconnect", [local EXCEPT !.scans = S])
    /\ UNCHANGED <<storeVars, Rest>>

FailSelected(w) ==
    /\ pc[w] = "disconnect"
    /\ IF job[w].phase = "offline"
       THEN FailTasksForOfflineAgent(job[w].agent, job[w].scans)
       ELSE FailTasksForSupersededSession(job[w].agent, job[w].epoch, job[w].scans)
    /\ Recalculate(w, job[w], job[w].scans)
    /\ UNCHANGED Rest

(* FenceSupersededAgentSession *)
Fence(w) ==
    /\ pc[w] = "fence"
    /\ SelectScans(w, [job[w] EXCEPT !.phase = "fence"],
                   SupersededScans(job[w].agent, job[w].epoch))

PendingReconciliation ==
    {t \in Tasks : task[t].pending /\ task[t].status \in AgentResults}

(* ListSupersededSessionTerminalTasksPendingReconciliation, until empty *)
ListSuperseded(w) ==
    /\ pc[w] = "list"
    /\ LET T == {t \in PendingReconciliation :
                    /\ scan[ScanOf[t]].agent = job[w].agent
                    /\ LeasedBefore(t, job[w].epoch)}
       IN  Goto(w, IF T = {} THEN "ready" ELSE "reconcile",
                [job[w] EXCEPT !.phase = "drain", !.tasks = T])
    /\ UNCHANGED <<storeVars, Rest>>

(* SessionReady has been sent: MarkReadyIfCurrent *)
BecomeReady(w) ==
    /\ pc[w] = "ready"
    /\ Registered(w)
    /\ live' = [live EXCEPT ![job[w].agent].ready = TRUE]
    /\ Goto(w, "serve", [NoJob EXCEPT !.agent = job[w].agent, !.epoch = job[w].epoch])
    /\ UNCHANGED <<storeVars, admitted, lastEpoch, faults>>

-----------------------------------------------------------------------------
(* Messages of a ready session                                             *)

(* A message is served only to the current session, which may have been
   superseded when its transaction runs. *)
Serve(w, label) ==
    /\ pc[w] = "serve"
    /\ Current(w)
    /\ Goto(w, label, job[w])
    /\ UNCHANGED <<storeVars, Rest>>

Heartbeat(w) == Serve(w, "heartbeat")

RecordHeartbeat(w) ==
    /\ pc[w] = "heartbeat"
    /\ UpdateHeartbeat(job[w].agent, job[w].epoch)
    /\ Goto(w, "serve", job[w])
    /\ UNCHANGED Rest

RequestTask(w) == Serve(w, "claim")

(* ClaimNextExecutionPlan, for any request the message may have named *)
ClaimTask(w, r, t) ==
    /\ pc[w] = "claim"
    /\ Claim(job[w].agent, job[w].epoch, r, t)
    /\ Goto(w, "serve", job[w])
    /\ UNCHANGED Rest

(* Nothing new is claimed: the request is a replay, or no task is on offer. *)
AssignNothing(w) ==
    /\ pc[w] = "claim"
    /\ SessionPersisted(job[w].agent, job[w].epoch)
    /\ Goto(w, "serve", job[w])
    /\ UNCHANGED <<storeVars, Rest>>

SameResult(t, result) ==
    task[t].status = result /\ task[t].failure = FailureOf(result)

(* handleTerminalTaskResult up to the read of the task: a running task is
   committed next, a task that already has this result is reconciled again. *)
ReportResult(w, t, result) ==
    /\ pc[w] = "serve"
    /\ Current(w)
    /\ SessionPersisted(job[w].agent, job[w].epoch)
    /\ LeaseMatches(t, job[w].agent, job[w].epoch)
    /\ \/ task[t].status = "running" /\ Goto(w, "commit", [job[w] EXCEPT
              !.phase = "report", !.tasks = {t}, !.result = result])
       \/ SameResult(t, result) /\ Goto(w, "reconcile", [job[w] EXCEPT
              !.phase = "report", !.tasks = {t}])
    /\ UNCHANGED <<storeVars, Rest>>

Committed(w, t) ==
    /\ CommitTerminalStatus(t, job[w].agent, job[w].epoch, job[w].result)
    /\ Goto(w, "reconcile", [job[w] EXCEPT !.result = "none"])
    /\ UNCHANGED Rest

(* Another delivery won, with the same result. *)
AlreadyCommitted(w, t) ==
    /\ SessionPersisted(job[w].agent, job[w].epoch)
    /\ LeaseMatches(t, job[w].agent, job[w].epoch)
    /\ SameResult(t, job[w].result)
    /\ Goto(w, "reconcile", [job[w] EXCEPT !.result = "none"])
    /\ UNCHANGED <<storeVars, Rest>>

CommitResult(w) ==
    /\ pc[w] = "commit"
    /\ \E t \in job[w].tasks : Committed(w, t) \/ AlreadyCommitted(w, t)

(* The marker is set again until the acknowledgement is on the wire. *)
MarkUnacknowledged(w) ==
    /\ pc[w] = "mark"
    /\ MarkReconciliationPending(job[w].task)
    /\ Goto(w, "acknowledge", job[w])
    /\ UNCHANGED Rest

Acknowledge(w) ==
    /\ pc[w] = "acknowledge"
    /\ Current(w)
    /\ Goto(w, "unmark", job[w])
    /\ UNCHANGED <<storeVars, Rest>>

(* The acknowledgement is on the wire. *)
ClearAcknowledged(w) ==
    /\ pc[w] = "unmark"
    /\ ClearReconciliationPending(job[w].task)
    /\ Goto(w, "serve", [NoJob EXCEPT !.agent = job[w].agent, !.epoch = job[w].epoch])
    /\ UNCHANGED Rest

(* A check of the handler fails: the session was superseded, the upsert
   refused its epoch, or another result was committed. *)
RejectedAt(w) ==
    \/ pc[w] \in {"persist", "heartbeat"} /\ ~(agent[job[w].agent].present
                              /\ agent[job[w].agent].epoch <= job[w].epoch)
    \/ pc[w] \in {"attach", "ready"} /\ ~Registered(w)
    \/ pc[w] = "claim" /\ ~SessionPersisted(job[w].agent, job[w].epoch)
    \/ pc[w] = "acknowledge" /\ ~Current(w)
    \/ pc[w] = "commit" /\ \A t \in job[w].tasks :
          \/ ~SessionPersisted(job[w].agent, job[w].epoch)
          \/ ~LeaseMatches(t, job[w].agent, job[w].epoch)
          \/ task[t].status # "running" /\ ~SameResult(t, job[w].result)

Reject(w) ==
    /\ w \in Streams
    /\ RejectedAt(w)
    /\ EndStream(w)
    /\ UNCHANGED faults

(* The client goes away between two messages, or sends one that is refused. *)
CloseStream(w) ==
    /\ pc[w] = "serve"
    /\ EndStream(w)
    /\ UNCHANGED faults

-----------------------------------------------------------------------------
(* Reconciliation of one terminal task: reconcileTerminalTaskResult,       *)
(* unlockNextStageIfReady and recalculateScanStatus, a query or a          *)
(* transaction at a time.  Tasks are taken in the order of their IDs.      *)

(* Mutant: running tasks do not hold a stage open. *)
StageHasPending(t) ==
    \E u \in TasksOf(ScanOf[t]) :
        StageOf[u] = StageOf[t] /\ task[u].status = "pending"

StageHasActive(t) ==
    \E u \in TasksOf(ScanOf[t]) :
        StageOf[u] = StageOf[t] /\ task[u].status \in {"pending", "running"}

(* Mutant: only a success is reconciled, other results just lose the marker. *)
ReconcileSuccessOnly(w) ==
    /\ pc[w] = "reconcile"
    /\ \E t \in job[w].tasks :
          LET local == [job[w] EXCEPT !.tasks = @ \ {t}, !.task = t]
          IN  IF task[t].status = "succeeded" /\ ~StageHasActive(t)
              THEN Goto(w, "unlock", local)
              ELSE Goto(w, "clear", local)
    /\ UNCHANGED <<storeVars, Rest>>

ReconcileNext(w) ==
    /\ pc[w] = "reconcile"
    /\ \E t \in job[w].tasks :
          /\ \A u \in job[w].tasks : t <= u
          /\ LET local == [job[w] EXCEPT !.tasks = @ \ {t}, !.task = t]
             IN  IF task[t].status = "succeeded" /\ ~StageHasActive(t)
                 THEN Goto(w, "unlock", local)
                 ELSE Recalculate(w, local, {ScanOf[t]})
    /\ UNCHANGED <<storeVars, Rest>>

UnlockStage(w) ==
    /\ pc[w] = "unlock"
    /\ UnlockNextStageOrder(ScanOf[job[w].task], StageOf[job[w].task])
    /\ Recalculate(w, job[w], {ScanOf[job[w].task]})
    /\ UNCHANGED Rest

(* Mutant: the verdict is written although the counts decide nothing. *)
CountTasksUndecided(w) ==
    /\ pc[w] = "recalculate"
    /\ \E s \in job[w].scans :
          Goto(w, "cancel", [job[w] EXCEPT !.scans = @ \ {s}, !.scan = s,
                                           !.verdict = ResolvedStatus(s)])
    /\ UNCHANGED <<storeVars, Rest>>

CountTasks(w) ==
    /\ pc[w] = "recalculate"
    /\ \E s \in job[w].scans :
          LET verdict == ResolvedStatus(s)
          IN  IF verdict = "undecided"
              THEN Recalculate(w, job[w], job[w].scans \ {s})
              ELSE Goto(w, IF verdict = "succeeded" THEN "update" ELSE "cancel",
                        [job[w] EXCEPT !.scans = @ \ {s}, !.scan = s, !.verdict = verdict])
    /\ UNCHANGED <<storeVars, Rest>>

CancelUnstarted(w) ==
    /\ pc[w] = "cancel"
    /\ CancelUnstartedTasks(job[w].scan)
    /\ Goto(w, "update", job[w])
    /\ UNCHANGED Rest

(* Mutant: the verdict is written past the repository's guard. *)
UpdateScanUnguarded(w) ==
    /\ pc[w] = "update"
    /\ scan' = [scan EXCEPT ![job[w].scan].status = job[w].verdict]
    /\ Recalculate(w, job[w], job[w].scans)
    /\ UNCHANGED <<task, agent, outbox, Rest>>

UpdateScan(w) ==
    /\ pc[w] = "update"
    /\ UpdateScanStatus(job[w].scan, job[w].verdict)
    /\ Recalculate(w, job[w], job[w].scans)
    /\ UNCHANGED Rest

(* Where a goroutine goes once it is done with a task and T is left. *)
NextTask(w, T) ==
    LET local == [job[w] EXCEPT !.tasks = T, !.task = None, !.scans = {},
                                !.scan = None, !.verdict = "none"]
    IN  IF T # {} THEN Goto(w, "reconcile", local)
        ELSE CASE job[w].phase = "drain" -> Goto(w, "list", local)
               [] job[w].phase = "sweep" -> Goto(w, "stale", local)
               [] OTHER                  -> Goto(w, "idle", NoJob)

ClearMarker(w) ==
    /\ pc[w] = "clear"
    /\ ClearReconciliationPending(job[w].task)
    /\ IF job[w].phase = "report" THEN Goto(w, "mark", job[w])
                                  ELSE NextTask(w, job[w].tasks)
    /\ UNCHANGED Rest

-----------------------------------------------------------------------------
(* The agent monitor: check                                                *)

(* ReconcilePersistedTerminalTasks lists the markers once, at the start and
   again (deferred) at the end of a check. *)
StartSweep(w, phase) ==
    /\ Goto(w, IF PendingReconciliation # {} THEN "reconcile"
               ELSE IF phase = "sweep" THEN "stale" ELSE "idle",
            IF PendingReconciliation = {} /\ phase = "last sweep" THEN NoJob
            ELSE [NoJob EXCEPT !.phase = phase, !.tasks = PendingReconciliation])
    /\ UNCHANGED <<storeVars, Rest>>

StartCheck(w) == pc[w] = "idle" /\ StartSweep(w, "sweep")

FinishCheck(w) ==
    pc[w] = "sessions" /\ job[w].sessions = {} /\ StartSweep(w, "last sweep")

(* The agents left over from the FindStaleOnline query, or the next query *)
NextStale(w, A) ==
    Goto(w, IF A = {} THEN "snapshot" ELSE "offline", [NoJob EXCEPT !.stale = A])

QueryStale(w) ==
    /\ pc[w] = "stale"
    /\ NextStale(w, StaleOnline)
    /\ UNCHANGED <<storeVars, Rest>>

RecoverOffline(w, a) ==
    /\ pc[w] = "offline"
    /\ a \in job[w].stale
    /\ SelectScans(w, [job[w] EXCEPT !.phase = "offline", !.agent = a, !.stale = @ \ {a}],
                   OfflineScans(a))

MarkOffline(w) ==
    /\ pc[w] = "mark offline"
    /\ MarkOfflineFromOnline(job[w].agent)
    /\ NextStale(w, job[w].stale)
    /\ UNCHANGED Rest

KeepOnline(w) ==
    /\ pc[w] = "keep online"
    /\ NextStale(w, job[w].stale)
    /\ UNCHANGED <<storeVars, Rest>>

QuerySessions(w) ==
    /\ pc[w] = "snapshot"
    /\ Goto(w, "sessions", [NoJob EXCEPT !.phase = "sessions", !.sessions = OnlineSessions])
    /\ UNCHANGED <<storeVars, Rest>>

RecoverSuperseded(w, a, e) ==
    /\ pc[w] = "sessions"
    /\ <<a, e>> \in job[w].sessions
    /\ SelectScans(w, [job[w] EXCEPT !.agent = a, !.epoch = e, !.sessions = @ \ {<<a, e>>}],
                   SupersededScans(a, e))

(* A query or a transaction of the monitor fails.  It is logged and the check
   goes on without it: a task of a sweep keeps its marker, an agent whose
   scans were not all recalculated stays online, a scan or a session waits for
   the next check, and a failed query leaves only the last sweep. *)
ScansLeft(w) ==
    IF pc[w] = "recalculate" THEN {job[w].scans \ {s} : s \in job[w].scans}
                             ELSE {job[w].scans}

SkipRecalculation(w) ==
    /\ pc[w] \in {"unlock", "recalculate", "cancel", "update", "clear"}
    /\ CASE job[w].phase \in {"sweep", "last sweep"} -> NextTask(w, job[w].tasks)
         [] job[w].phase = "sessions" ->
               \E S \in ScansLeft(w) : Recalculate(w, job[w], S)
         [] OTHER ->
               \E S \in ScansLeft(w) :
                  Recalculate(w, [job[w] EXCEPT !.phase = "unrecovered"], S)

SkipRecovery(w) ==
    \/ pc[w] = "offline" /\ \E a \in job[w].stale : NextStale(w, job[w].stale \ {a})
    \/ pc[w] = "mark offline" /\ NextStale(w, job[w].stale)
    \/ pc[w] = "disconnect" /\ IF job[w].phase = "offline" THEN NextStale(w, job[w].stale)
                               ELSE Recalculate(w, job[w], {})
    \/ pc[w] = "sessions" /\ \E x \in job[w].sessions :
          Goto(w, "sessions", [job[w] EXCEPT !.sessions = @ \ {x}])
    \/ pc[w] \in {"stale", "snapshot"}
          /\ Goto(w, "sessions", [NoJob EXCEPT !.phase = "sessions"])

MonitorFails(w) ==
    /\ faults < MaxFaults
    /\ SkipRecalculation(w) \/ SkipRecovery(w)
    /\ faults' = faults + 1
    /\ UNCHANGED <<storeVars, admitted, Registry>>

-----------------------------------------------------------------------------
(* Faults: the connection breaks under a handler, the server restarts.     *)

BreakHandler(w) ==
    /\ faults < MaxFaults
    /\ pc[w] \notin {"idle", "serve"}
    /\ EndStream(w)
    /\ faults' = faults + 1

Restart ==
    /\ faults < MaxFaults
    /\ faults' = faults + 1
    /\ live' = [a \in Agents |-> NoSession]
    /\ lastEpoch' = [a \in Agents |-> 0]
    /\ pc' = [w \in Workers |-> "idle"]
    /\ job' = [w \in Workers |-> NoJob]
    /\ UNCHANGED <<storeVars, admitted>>

-----------------------------------------------------------------------------
(* Operator commands.  A scan pinned to an agent is admitted on a check    *)
(* that the agent exists, and created by a later transaction.              *)

AdmitScan(s, a) ==
    /\ scan[s].status = "absent" /\ admitted[s] = None
    /\ \/ a = NoAgent
       \/ a \in Agents /\ agent[a].present /\ "pin" \in Events
    /\ admitted' = [admitted EXCEPT ![s] = a]
    /\ UNCHANGED <<storeVars, Registry, pc, job, faults>>

CreateAdmitted(s, skip) ==
    /\ admitted[s] # None
    /\ CreateScan(s, admitted[s], skip)
    /\ admitted' = [admitted EXCEPT ![s] = None]
    /\ UNCHANGED <<Registry, pc, job, faults>>

StopScans(S) ==
    "stop" \in Events /\ StopActiveScans(S) /\ UNCHANGED memoryVars

DeleteScan(s) ==
    "delete scan" \in Events /\ SoftDelete(s) /\ UNCHANGED memoryVars

RemoveAgent(a) ==
    "delete agent" \in Events /\ DeleteAgent(a) /\ UNCHANGED memoryVars

Lapse(a) ==
    "lapse" \in Events /\ HeartbeatLapses(a) /\ UNCHANGED memoryVars

-----------------------------------------------------------------------------

(* The steps a handler takes by itself once it has begun *)
Reconcile(w) ==
    \/ ReconcileNext(w) \/ UnlockStage(w) \/ CountTasks(w) \/ CancelUnstarted(w)
    \/ UpdateScan(w) \/ ClearMarker(w)

StreamWork(w) ==
    \/ PersistSession(w) \/ AttachSnapshot(w) \/ Fence(w) \/ FailSelected(w)
    \/ ListSuperseded(w) \/ BecomeReady(w)
    \/ RecordHeartbeat(w) \/ AssignNothing(w)
    \/ \E r \in Requests, t \in Tasks : ClaimTask(w, r, t)
    \/ CommitResult(w) \/ Reconcile(w)
    \/ MarkUnacknowledged(w) \/ Acknowledge(w) \/ ClearAcknowledged(w)
    \/ Reject(w)

MonitorWork(w) ==
    \/ StartCheck(w) \/ QueryStale(w) \/ MarkOffline(w) \/ KeepOnline(w)
    \/ QuerySessions(w) \/ FailSelected(w)
    \/ Reconcile(w) \/ FinishCheck(w)
    \/ \E a \in Agents : RecoverOffline(w, a)
    \/ \E a \in Agents, e \in Epochs : RecoverSuperseded(w, a, e)

ClientMessage(w) ==
    \/ \E a \in Agents, e \in Epochs : RegisterSession(w, a, e)
    \/ Heartbeat(w)
    \/ RequestTask(w)
    \/ \E t \in Tasks, result \in AgentResults : ReportResult(w, t, result)
    \/ CloseStream(w)

Operator ==
    \/ \E s \in Scans, a \in Agents \cup {NoAgent} : AdmitScan(s, a)
    \/ \E s \in Scans, skip \in Skips : CreateAdmitted(s, skip)
    \/ \E S \in SUBSET Scans : StopScans(S)
    \/ \E s \in Scans : DeleteScan(s)
    \/ \E a \in Agents : RemoveAgent(a)

Next ==
    \/ \E w \in Streams : StreamWork(w) \/ ClientMessage(w) \/ BreakHandler(w)
    \/ \E w \in Monitors : MonitorWork(w) \/ MonitorFails(w)
    \/ Operator
    \/ \E a \in Agents : Lapse(a)
    \/ Restart

Spec == Init /\ [][Next]_vars

(* A handler runs to its end, and the monitor's ticker keeps calling check. *)
Fairness ==
    /\ \A w \in Streams : WF_vars(StreamWork(w))
    /\ \A w \in Monitors : WF_vars(MonitorWork(w))

FairSpec == Spec /\ Fairness

-----------------------------------------------------------------------------
(* Correctness                                                             *)

Phases == {"none", "report", "fence", "drain", "sweep", "last sweep", "offline",
           "unrecovered", "sessions"}

Labels == {"idle", "persist", "attach", "fence", "disconnect", "list", "ready", "serve",
           "heartbeat", "claim", "commit", "reconcile", "unlock", "recalculate", "cancel",
           "update", "clear",
           "mark", "acknowledge", "unmark", "stale", "offline", "mark offline",
           "keep online", "snapshot", "sessions"}

SessionRow == [epoch : Epochs, stream : Streams \cup {None}, ready : BOOLEAN]

JobRow == [phase : Phases, agent : Agents \cup {NoAgent}, epoch : Epochs,
           result : AgentResults \cup {"none"}, stale : SUBSET Agents,
           sessions : SUBSET (Agents \X Epochs), tasks : SUBSET Tasks,
           task : Tasks \cup {None}, scans : SUBSET Scans, scan : Scans \cup {None},
           verdict : TerminalScanStatuses \cup {"none"}]

(* The registry, the goroutines and their locals have values the code can
   give them. *)
ExecutionTypeOK ==
    /\ StoreTypeOK
    /\ admitted \in [Scans -> Agents \cup {NoAgent, None}]
    /\ live \in [Agents -> SessionRow]
    /\ lastEpoch \in [Agents -> Epochs]
    /\ pc \in [Workers -> Labels]
    /\ job \in [Workers -> JobRow]
    /\ faults \in 0 .. MaxFaults

(* A stage opens only when the stages before it are over: no task waits to be
   claimed, or runs, while a task of an earlier stage of its scan is
   unfinished - whoever unlocks it, and however unlocks and claims interleave. *)
StageBarrier ==
    \A t, u \in Tasks :
        /\ ScanOf[t] = ScanOf[u] /\ StageOf[t] < StageOf[u]
        /\ task[u].status \in {"pending", "running"}
        => task[t].status \notin UnfinishedStatuses

(* Convergence is never forgotten: an active scan none of whose tasks can
   still be claimed or is running has a marker on one of its tasks, so that the
   monitor or the next session finishes what others left undone - or a
   goroutine is about to write the status it has decided on.  (Only as long as
   nothing fails: that decision is nowhere but in the goroutine's memory.) *)
Settled(s) == Active(s) /\ ~Has(s, {"pending", "running"})

Marked(s) == \E t \in TasksOf(s) : t \in PendingReconciliation

Deciding(s) == \E w \in Workers : job[w].scan = s /\ pc[w] \in {"cancel", "update"}

ConvergenceOwed == \A s \in Scans : Settled(s) => Marked(s) \/ Deciding(s)

(* A scan that was stopped or has failed has no task left to claim, to unlock
   or to wait for, whoever decided it and from whatever counts.  (A lease may
   outlive a failure; of scans that succeed the code keeps not even this:
   SucceededScanHasNothingLeft.) *)
EndedScanIsSettled ==
    \A s \in Scans :
        scan[s].status \in {"failed", "cancelled"} => ~Has(s, {"blocked", "pending"})

(* When a session is ready, no lease that an earlier session of its agent had
   in an active scan is still running. *)
ReadySessionIsAlone ==
    \A w \in Streams, t \in Tasks :
        /\ pc[w] \in {"ready", "serve"}
        /\ task[t].status = "running"
        /\ task[t].agent = job[w].agent
        /\ Active(ScanOf[t])
        => task[t].epoch >= job[w].epoch

(* A fault came between the cancellation of what had not started and the write
   of the status that was decided, and every other goroutine had counted before
   that cancellation: nothing is left to remind anyone of the scan. *)
Stranded(s) ==
    /\ faults > 0
    /\ Settled(s) /\ ~Marked(s) /\ ~Deciding(s)
    /\ ~Has(s, UnstartedStatuses)
    /\ \E t \in TasksOf(s) : task[t].status = "cancelled" /\ task[t].agent = NoAgent

(* A scan none of whose tasks can be claimed or is running ends, or its next
   stage opens - unless a fault has stranded it: the code keeps no record of a
   decision that is still to be written (a finding). *)
SettledScansEnd == \A s \in Scans : Settled(s) ~> (~Settled(s) \/ Stranded(s))

(* A lease of a superseded session does not hold its scan up: while the agent
   is online, the lease is closed or the scan ends. *)
HeldUp(t, a) ==
    /\ task[t].status = "running"
    /\ task[t].agent = a
    /\ task[t].epoch < agent[a].epoch
    /\ agent[a].online
    /\ Active(ScanOf[t])

SupersededLeasesClose == \A t \in Tasks, a \in Agents : HeldUp(t, a) ~> ~HeldUp(t, a)
=============================================================================
