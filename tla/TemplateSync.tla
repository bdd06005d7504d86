---------------------------- MODULE TemplateSync ----------------------------
(***************************************************************************)
(* The synchronisation of the Nuclei template catalogue                    *)
(* (modules/nucleipoc).  A request creates one durable task; the runner of *)
(* some server process claims it under a lease, clones the repository into *)
(* a workspace, validates and stages the templates, removes the workspace  *)
(* and promotes what it staged in one transaction.  Operators cancel, the  *)
(* hourly retention job recovers tasks whose lease has lapsed and removes  *)
(* workspaces nobody claims, and processes stop at any point.              *)
(*                                                                         *)
(* One store call is one action.  The transactions of withCatalogMutation  *)
(* are serialised by its advisory lock; the others are single statements.  *)
(* The workspace root is shared by the processes.  Not modelled: the       *)
(* request fingerprint, counters and diagnostics, the rows of sources, the *)
(* expiry of request tombstones (a request is never forgotten) and the     *)
(* overflow of the runner's queue of eight.                                *)
(***************************************************************************)
EXTENDS Naturals, FiniteSets

CONSTANTS
    Processes,   \* server processes
    Requests,    \* sync requests, and the task each of them makes
    Templates,   \* template ids
    Sweepers,    \* bound: the processes whose retention job runs
    Reaches,     \* bound: which process a request about which task reaches
    Entries,     \* bound: the processes that the first request of a task reaches
    MaxFaults,   \* bound: crashes, late renewals, failed calls, repeated requests
    None

ASSUME SyncAssumption ==
    /\ MaxFaults \in Nat
    /\ Sweepers \subseteq Processes
    /\ Reaches \subseteq Processes \X Requests
    /\ Entries \subseteq Processes
    /\ None \notin Processes \cup Requests

VARIABLES
    catalog,     \* nuclei_poc: "absent", "disabled" or "enabled"
    task,        \* nuclei_poc_sync_task, one row per request
    candidates,  \* nuclei_poc_candidate_import, by task
    told,        \* terminal notifications in the outbox
    dirs,        \* tasks whose workspace directory exists
    queue,       \* each process: tasks enqueued at its runner
    run,         \* each process: its RunOnce and the locals of it
    sweep,       \* each process: its retention job and the keys it protects
    offer,       \* history: what the checkout of a task held
    faults

vars == <<catalog, task, candidates, told, dirs, queue, run, sweep, offer, faults>>

Outcomes == {"succeeded", "failed", "cancelled"}
Phases == {"validating source", "cloning", "scanning", "validating templates",
           "committing", "cleaning"}

Terminal(r) == task[r].state \in Outcomes
Active(r) == task[r].state \in Phases \cup {"cancelling"}

ActiveTask == {r \in Requests : Active(r)}

NoTask == [state |-> "absent", started |-> FALSE, lease |-> "none", key |-> FALSE,
           cleanup |-> "pending"]

NoRun == [pc |-> "idle", task |-> None, live |-> FALSE, requested |-> FALSE,
          key |-> FALSE, found |-> {}, cleanup |-> "clean"]

NoSweep == [pc |-> "recover", kept |-> {}]

Init ==
    /\ catalog = [t \in Templates |-> "absent"]
    /\ task = [r \in Requests |-> NoTask]
    /\ candidates = [r \in Requests |-> {}]
    /\ told = {}
    /\ dirs = {}
    /\ queue = [p \in Processes |-> {}]
    /\ run = [p \in Processes |-> NoRun]
    /\ sweep = [p \in Processes |-> NoSweep]
    /\ offer = [r \in Requests |-> {}]
    /\ faults = 0

Fault == faults < MaxFaults /\ faults' = faults + 1
NoFault == UNCHANGED faults

-----------------------------------------------------------------------------
(* Requests of operators.  A process serves them at any time.              *)

(* CreateOrReplaySyncTask and, for a task nobody has claimed, the runner's
   queue.  A request whose task has ended gets that task, or, when its row
   has expired, is refused by its tombstone: nothing changes either way. *)
CreateSync(p, r) ==
    /\ \/ /\ task[r].state = "absent"
          /\ p \in Entries
          /\ ActiveTask = {}
          /\ task' = [task EXCEPT ![r] = [@ EXCEPT !.state = "validating source",
                                                   !.lease = "fresh"]]
          /\ NoFault
       \/ /\ task[r].state = "validating source"
          /\ ~task[r].started
          /\ UNCHANGED task
          /\ Fault
    /\ queue' = [queue EXCEPT ![p] = @ \cup {r}]
    /\ UNCHANGED <<catalog, candidates, told, dirs, run, sweep, offer>>

(* CancelSync: the durable request, then the run of this process, if any. *)
CancelSync(p, r) ==
    /\ task[r].state \in Phases
    /\ task' = [task EXCEPT ![r] =
           [@ EXCEPT !.state = "cancelling",
                     !.lease = IF task[r].lease = "waited" THEN "fresh"
                               ELSE task[r].lease]]
    /\ run' = IF run[p].task = r
              THEN [run EXCEPT ![p] = [@ EXCEPT !.requested = TRUE, !.live = FALSE]]
              ELSE run
    /\ UNCHANGED <<catalog, candidates, told, dirs, queue, sweep, offer, faults>>

Switched(T, flag) ==
    [t \in Templates |-> IF t \in T /\ catalog[t] # "absent" THEN flag ELSE catalog[t]]

(* UpdatePOCEnabled asks for no quiet catalogue, SetPOCActivation does. *)
UpdatePOCEnabled(t, flag) ==
    /\ catalog[t] # "absent"
    /\ catalog' = Switched({t}, flag)
    /\ UNCHANGED <<task, candidates, told, dirs, queue, run, sweep, offer, faults>>

SetPOCActivation(T, flag) ==
    /\ ActiveTask = {}
    /\ \A t \in T : catalog[t] # "absent"
    /\ catalog' = Switched(T, flag)
    /\ UNCHANGED <<task, candidates, told, dirs, queue, run, sweep, offer, faults>>

-----------------------------------------------------------------------------
(* The runner: RunOnce of process p, from one store call to the next.      *)

Running(p, pc) == run[p].pc = pc

Goto(p, pc, local) == run' = [run EXCEPT ![p] = [local EXCEPT !.pc = pc]]

End(p) == run' = [run EXCEPT ![p] = NoRun]

(* The way out uses contexts of its own and nothing the run has found. *)
GiveUp(p, pc, cleanup) ==
    run' = [run EXCEPT ![p] = [NoRun EXCEPT !.pc = pc, !.task = run[p].task,
                                            !.requested = run[p].requested, !.cleanup = cleanup]]

(* The loop takes the next task; registerRun. *)
Begin(p) ==
    /\ Running(p, "idle")
    /\ \E r \in queue[p] :
          /\ queue' = [queue EXCEPT ![p] = @ \ {r}]
          /\ Goto(p, "read", [NoRun EXCEPT !.task = r, !.live = TRUE])
    /\ UNCHANGED <<catalog, task, candidates, told, dirs, sweep, offer, faults>>

(* runCancellationRequested, when its read succeeds *)
CancelRequested(p) ==
    \/ run[p].requested
    \/ task[run[p].task].state \in {"cancelling", "cancelled"}

CleanupOf(key) == IF key THEN "residual" ELSE "clean"

ReadTask(p) ==
    /\ Running(p, "read")
    /\ LET row == task[run[p].task]
       IN  \/ /\ run[p].live /\ row.state = "cancelling"
              /\ GiveUp(p, "finish", CleanupOf(row.key))
              /\ NoFault
           \/ /\ run[p].live /\ row.state \in Phases
              /\ Goto(p, "claim", [run[p] EXCEPT !.key = row.key])
              /\ NoFault
           \/ /\ run[p].live /\ row.state \in Outcomes
              /\ End(p)
              /\ NoFault
           \/ /\ IF run[p].live THEN Fault ELSE NoFault
              /\ IF CancelRequested(p) THEN GiveUp(p, "finish", "clean") ELSE End(p)
    /\ UNCHANGED <<catalog, task, candidates, told, dirs, queue, sweep, offer>>

Claimable(r) == task[r].state = "validating source" /\ ~task[r].started

ClaimTask(p) ==
    /\ Running(p, "claim")
    /\ LET r == run[p].task
       IN  \/ /\ run[p].live /\ Claimable(r)
              /\ task' = [task EXCEPT ![r] = [@ EXCEPT !.state = "validating source",
                                                       !.started = TRUE, !.lease = "held"]]
              /\ Goto(p, "create", [run[p] EXCEPT !.key = FALSE])
              /\ NoFault
           \/ /\ IF run[p].live /\ Claimable(r) THEN Fault ELSE NoFault
              /\ IF CancelRequested(p)
                 THEN GiveUp(p, "finish", CleanupOf(run[p].key))
                 ELSE End(p)
              /\ UNCHANGED task
    /\ UNCHANGED <<catalog, candidates, told, dirs, queue, sweep, offer>>

(* The source is validated and the workspace made. *)
CreateWorkspace(p) ==
    /\ Running(p, "create")
    /\ \/ /\ run[p].live
          /\ dirs' = dirs \cup {run[p].task}
          /\ Goto(p, "key", run[p])
          /\ NoFault
       \/ /\ IF run[p].live THEN Fault ELSE NoFault
          /\ GiveUp(p, "fail", "clean")
          /\ UNCHANGED dirs
    /\ UNCHANGED <<catalog, task, candidates, told, queue, sweep, offer>>

(* The statements of a run that update its task do so only while the task is
   neither ended nor being cancelled. *)
Updatable(p) == run[p].live /\ task[run[p].task].state \in Phases

(* Mutant: a run that cannot record its workspace fails without removing it. *)
SetTaskWorkspaceKeyOrFail(p) ==
    /\ Running(p, "key")
    /\ \/ /\ Updatable(p)
          /\ task' = [task EXCEPT ![run[p].task].key = TRUE]
          /\ Goto(p, "cloning", run[p])
          /\ NoFault
       \/ /\ IF Updatable(p) THEN Fault ELSE NoFault
          /\ GiveUp(p, "fail", "clean")
          /\ UNCHANGED task
    /\ UNCHANGED <<catalog, candidates, told, dirs, queue, sweep, offer>>

SetTaskWorkspaceKey(p) ==
    /\ Running(p, "key")
    /\ \/ /\ Updatable(p)
          /\ task' = [task EXCEPT ![run[p].task].key = TRUE]
          /\ Goto(p, "cloning", run[p])
          /\ NoFault
       \/ /\ IF Updatable(p) THEN Fault ELSE NoFault
          /\ GiveUp(p, "abort", "clean")
          /\ UNCHANGED task
    /\ UNCHANGED <<catalog, candidates, told, dirs, queue, sweep, offer>>

(* UpdateTaskProgress: the phase a run enters, and what it does next. *)
NextStep == [pc \in {"cloning", "scanning", "validating templates", "committing", "cleaning"} |->
    CASE pc = "cloning" -> "clone"
      [] pc = "scanning" -> "validating templates"
      [] pc = "validating templates" -> "stage"
      [] pc = "committing" -> "cleaning"
      [] OTHER -> "clean"]

UpdateTaskProgress(p) ==
    /\ run[p].pc \in DOMAIN NextStep
    /\ LET r == run[p].task
       IN  \/ /\ Updatable(p)
              /\ task' = [task EXCEPT ![r].state = run[p].pc]
              /\ IF \/ run[p].pc = "scanning" /\ run[p].found = None
                    \/ run[p].pc = "validating templates" /\ run[p].found = {}
                 THEN GiveUp(p, "abort", "clean")
                 ELSE Goto(p, NextStep[run[p].pc], run[p])
              /\ NoFault
           \/ /\ IF Updatable(p) THEN Fault ELSE NoFault
              /\ GiveUp(p, "abort", "clean")
              /\ UNCHANGED task
    /\ UNCHANGED <<catalog, candidates, told, dirs, queue, sweep, offer>>

(* git clone makes the directory again if it is gone. *)
Clone(p) ==
    /\ Running(p, "clone")
    /\ \/ /\ run[p].live
          /\ dirs' = dirs \cup {run[p].task}
          /\ Goto(p, "scan", run[p])
          /\ NoFault
       \/ /\ IF run[p].live THEN Fault ELSE NoFault
          /\ GiveUp(p, "abort", "clean")
          /\ UNCHANGED dirs
    /\ UNCHANGED <<catalog, task, candidates, told, queue, sweep, offer>>

(* scanAndValidateRepository: the valid templates of whatever the checkout
   holds; without a directory, and for a dead context, an error. *)
Scan(p) ==
    /\ Running(p, "scan")
    /\ LET r == run[p].task
       IN  \/ /\ run[p].live /\ r \in dirs
              /\ \E T \in SUBSET Templates :
                    /\ Goto(p, "scanning", [run[p] EXCEPT !.found = T])
                    /\ offer' = [offer EXCEPT ![r] = T]
              /\ NoFault
           \/ /\ IF run[p].live /\ r \in dirs THEN Fault ELSE NoFault
              /\ Goto(p, "scanning", [run[p] EXCEPT !.found = None])
              /\ UNCHANGED offer
    /\ UNCHANGED <<catalog, task, candidates, told, dirs, queue, sweep>>

(* StageCandidate inserts one template and does not look at the task; `found`
   is what is left to stage. *)
StageCandidate(p) ==
    /\ Running(p, "stage")
    /\ LET r == run[p].task
       IN  \/ /\ run[p].live
              /\ \E t \in run[p].found :
                    /\ candidates' = [candidates EXCEPT ![r] = @ \cup {t}]
                    /\ Goto(p, IF run[p].found = {t} THEN "committing" ELSE "stage",
                            [run[p] EXCEPT !.found = @ \ {t}])
              /\ NoFault
           \/ /\ IF run[p].live THEN Fault ELSE NoFault
              /\ GiveUp(p, "abort", "clean")
              /\ UNCHANGED candidates
    /\ UNCHANGED <<catalog, task, told, dirs, queue, sweep, offer>>

(* workspace.Remove: the last thing before promotion, and the first of every
   failure of a run that has a workspace. *)
RemoveWorkspace(p) ==
    /\ run[p].pc \in {"clean", "abort"}
    /\ \E removed \in BOOLEAN :
          /\ IF removed THEN NoFault ELSE Fault
          /\ dirs' = IF removed THEN dirs \ {run[p].task} ELSE dirs
          /\ LET cleanup == IF removed THEN "clean" ELSE "residual"
             IN  IF run[p].pc = "clean"
                 THEN Goto(p, "promote", [run[p] EXCEPT !.cleanup = cleanup])
                 ELSE GiveUp(p, "fail", cleanup)
    /\ UNCHANGED <<catalog, task, candidates, told, queue, sweep, offer>>

-----------------------------------------------------------------------------
(* The catalogue transactions that end a task.                             *)

Ended(r, outcome, cleanup) ==
    task' = [task EXCEPT ![r] = [@ EXCEPT !.state = outcome, !.lease = "none",
                                          !.cleanup = cleanup]]

(* A template that stays keeps its switch; a new one is disabled. *)
Replaced(T) ==
    [t \in Templates |->
        IF t \notin T THEN "absent"
        ELSE IF catalog[t] = "absent" THEN "disabled" ELSE catalog[t]]

(* Mutant: a cancellation does not stop a promotion. *)
PromotableWhileCancelling(r) ==
    task[r].state \in {"committing", "cleaning", "cancelling"} /\ candidates[r] # {}

Promotable(r) == task[r].state \in {"committing", "cleaning"} /\ candidates[r] # {}

(* PromoteCandidates.  Its commit may be lost on the way back. *)
PromoteCandidates(p) ==
    /\ Running(p, "promote")
    /\ LET r == run[p].task
       IN  \/ /\ run[p].live /\ Promotable(r)
              /\ catalog' = Replaced(candidates[r])
              /\ Ended(r, "succeeded", run[p].cleanup)
              /\ told' = told \cup {<<r, "succeeded">>}
              /\ \/ End(p) /\ NoFault
                 \/ GiveUp(p, "fail", run[p].cleanup) /\ Fault
           \/ /\ IF run[p].live /\ Promotable(r) THEN Fault ELSE NoFault
              /\ GiveUp(p, "fail", run[p].cleanup)
              /\ UNCHANGED <<catalog, task, told>>
    /\ UNCHANGED <<candidates, dirs, queue, sweep, offer>>

(* fail(): is it a cancellation? *)
Fail(p) ==
    /\ Running(p, "fail")
    /\ \/ /\ Goto(p, IF CancelRequested(p) THEN "finish" ELSE "mark", run[p])
          /\ NoFault
       \/ /\ ~run[p].requested /\ CancelRequested(p)
          /\ Goto(p, "mark", run[p])
          /\ Fault
    /\ UNCHANGED <<catalog, task, candidates, told, dirs, queue, sweep, offer>>

(* DeleteCandidatesForTask, the first statement of both ways out; its error is
   ignored. *)
DeleteCandidates(r) ==
    \/ candidates' = [candidates EXCEPT ![r] = {}] /\ NoFault
    \/ UNCHANGED candidates /\ Fault

(* MarkTaskTerminal writes a failure only over a task that still runs; after
   anything but an error the state is read once more. *)
MarkTaskTerminal(p) ==
    /\ Running(p, "mark")
    /\ LET r == run[p].task
       IN  \/ /\ task[r].state \in Phases
              /\ Ended(r, "failed", run[p].cleanup)
              /\ told' = told \cup {<<r, "failed">>}
              /\ Goto(p, "reread", run[p])
              /\ DeleteCandidates(r)
           \/ /\ task[r].state \in {"failed", "cancelling", "cancelled"}
              /\ told' = IF task[r].state = "failed" THEN told \cup {<<r, "failed">>} ELSE told
              /\ Goto(p, "reread", run[p])
              /\ DeleteCandidates(r)
              /\ UNCHANGED task
           \/ /\ IF task[r].state = "succeeded" THEN NoFault ELSE Fault
              /\ candidates' = [candidates EXCEPT ![r] = {}]
              /\ End(p)
              /\ UNCHANGED <<task, told>>
    /\ UNCHANGED <<catalog, dirs, queue, sweep, offer>>

RereadTask(p) ==
    /\ Running(p, "reread")
    /\ \/ /\ task[run[p].task].state \in {"cancelling", "cancelled"}
          /\ Goto(p, "finish", run[p])
          /\ NoFault
       \/ /\ IF task[run[p].task].state \in {"cancelling", "cancelled"} THEN Fault ELSE NoFault
          /\ End(p)
    /\ UNCHANGED <<catalog, task, candidates, told, dirs, queue, sweep, offer>>

Cancellable(r) == task[r].state = "cancelling"

(* cancelled(): the candidates are deleted, whatever becomes of
   MarkTaskCancelled, which deletes them again. *)
MarkTaskCancelled(p) ==
    /\ Running(p, "finish")
    /\ LET r == run[p].task
       IN  \/ /\ Cancellable(r)
              /\ Ended(r, "cancelled", run[p].cleanup)
              /\ NoFault
           \/ /\ IF Cancellable(r) THEN Fault ELSE NoFault
              /\ UNCHANGED task
    /\ candidates' = [candidates EXCEPT ![run[p].task] = {}]
    /\ End(p)
    /\ UNCHANGED <<catalog, told, dirs, queue, sweep, offer>>

-----------------------------------------------------------------------------
(* What ends the context of a run: the watchers of cancellation and of the *)
(* lease, its deadline, the shutdown of its process.                       *)

Watched == {"create", "key", "clone", "scan", "stage", "clean", "promote"} \cup DOMAIN NextStep

WatchCancellation(p) ==
    /\ run[p].pc \in Watched
    /\ run[p].live
    /\ task[run[p].task].state \notin Phases
    /\ run' = [run EXCEPT ![p] =
           [@ EXCEPT !.live = FALSE,
                     !.requested = run[p].requested \/ task[run[p].task].state = "cancelling"]]
    /\ UNCHANGED <<catalog, task, candidates, told, dirs, queue, sweep, offer, faults>>

WatchLease(p) ==
    /\ run[p].pc \in Watched
    /\ run[p].live
    /\ task[run[p].task].lease # "held"
    /\ run' = [run EXCEPT ![p].live = FALSE]
    /\ UNCHANGED <<catalog, task, candidates, told, dirs, queue, sweep, offer, faults>>

Interrupt(p) ==
    /\ run[p].live
    /\ Fault
    /\ run' = [run EXCEPT ![p].live = FALSE]
    /\ UNCHANGED <<catalog, task, candidates, told, dirs, queue, sweep, offer>>

(* Renewed every five seconds, a lease of thirty lapses when nobody renews it
   any more, or when a renewal is late. *)
Renewed(r) == \E p \in Processes : run[p].task = r /\ run[p].pc \in Watched /\ run[p].live

LeaseLapses(r) ==
    /\ task[r].lease = "held"
    /\ IF Renewed(r) THEN Fault ELSE NoFault
    /\ task' = [task EXCEPT ![r].lease = "lapsed"]
    /\ UNCHANGED <<catalog, candidates, told, dirs, queue, run, sweep, offer>>

(* syncTaskUnclaimedRecoveryGrace passes. *)
WaitsUnclaimed(r) ==
    /\ task[r].lease = "fresh"
    /\ task' = [task EXCEPT ![r].lease = "waited"]
    /\ UNCHANGED <<catalog, candidates, told, dirs, queue, run, sweep, offer, faults>>

-----------------------------------------------------------------------------
(* Retention, hourly and at the start of a process.                        *)

(* Mutant: a task that nobody ever claimed has no lease to lapse. *)
InterruptedClaimed(r) == Active(r) /\ task[r].lease = "lapsed"

Interrupted(r) == Active(r) /\ task[r].lease \in {"lapsed", "waited"}

(* RecoverInterruptedTasks; its error is ignored. *)
RecoverInterruptedTasks(p) ==
    /\ sweep[p].pc = "recover"
    /\ sweep' = [sweep EXCEPT ![p].pc = "expire"]
    /\ LET lost == {r \in Requests : Interrupted(r)}
       IN  \/ /\ task' = [r \in Requests |->
                     IF r \notin lost THEN task[r]
                     ELSE IF task[r].state = "cancelling"
                     THEN [task[r] EXCEPT !.state = "cancelled", !.lease = "none",
                                          !.cleanup = CleanupOf(task[r].key)]
                     ELSE [task[r] EXCEPT !.state = "failed", !.lease = "none"]]
              /\ candidates' = [r \in Requests |-> IF r \in lost THEN {} ELSE candidates[r]]
              /\ told' = told \cup {<<r, "failed">> : r \in {s \in lost : task[s].state # "cancelling"}}
              /\ NoFault
           \/ /\ lost # {}
              /\ Fault
              /\ UNCHANGED <<task, candidates, told>>
    /\ UNCHANGED <<catalog, dirs, queue, run, offer>>

(* DeleteExpiredTasks: a month after its end nothing of a task runs any more;
   what goes with its row are the candidates.  Then ActiveWorkspaceKeys;
   without an answer nothing is protected. *)
ExpireAndProtect(p) ==
    /\ sweep[p].pc = "expire"
    /\ \E S \in SUBSET {r \in Requests : Terminal(r)} :
          /\ \A r \in S, q \in Processes : run[q].task # r /\ r \notin queue[q]
          /\ candidates' = [r \in Requests |-> IF r \in S THEN {} ELSE candidates[r]]
    /\ \E kept \in {{}, {r \in Requests : Active(r) /\ task[r].key}} :
          /\ IF \E r \in Requests \ kept : Active(r) /\ task[r].key THEN Fault ELSE NoFault
          /\ sweep' = [sweep EXCEPT ![p] = [pc |-> "remove", kept |-> kept]]
    /\ UNCHANGED <<catalog, task, told, dirs, queue, run, offer>>

(* RemoveResidualsExcept: a directory that cannot be removed is left. *)
RemoveResiduals(p) ==
    /\ sweep[p].pc = "remove"
    /\ \/ dirs' = dirs \cap sweep[p].kept /\ NoFault
       \/ UNCHANGED dirs /\ Fault
    /\ sweep' = [sweep EXCEPT ![p] = NoSweep]
    /\ UNCHANGED <<catalog, task, candidates, told, queue, run, offer>>

(* A process stops; the next one begins with the recovery. *)
Restart(p) ==
    /\ Fault
    /\ queue' = [queue EXCEPT ![p] = {}]
    /\ run' = [run EXCEPT ![p] = NoRun]
    /\ sweep' = [sweep EXCEPT ![p] = NoSweep]
    /\ UNCHANGED <<catalog, task, candidates, told, dirs, offer>>

-----------------------------------------------------------------------------
RunStep(p) ==
    \/ Begin(p) \/ ReadTask(p) \/ ClaimTask(p) \/ CreateWorkspace(p)
    \/ SetTaskWorkspaceKey(p) \/ UpdateTaskProgress(p) \/ Clone(p) \/ Scan(p)
    \/ StageCandidate(p) \/ RemoveWorkspace(p)
    \/ PromoteCandidates(p) \/ Fail(p)
    \/ MarkTaskTerminal(p) \/ RereadTask(p) \/ MarkTaskCancelled(p)

SweepStep(p) ==
    RecoverInterruptedTasks(p) \/ ExpireAndProtect(p) \/ RemoveResiduals(p)

Next ==
    \/ \E p \in Processes, r \in Requests :
          <<p, r>> \in Reaches /\ (CreateSync(p, r) \/ CancelSync(p, r))
    \/ \E t \in Templates, flag \in {"disabled", "enabled"} : UpdatePOCEnabled(t, flag)
    \/ \E T \in SUBSET Templates \ {{}}, flag \in {"disabled", "enabled"} :
          SetPOCActivation(T, flag)
    \/ \E p \in Processes :
          \/ RunStep(p)
          \/ WatchCancellation(p) \/ WatchLease(p) \/ Interrupt(p) \/ Restart(p)
    \/ \E p \in Sweepers : SweepStep(p)
    \/ \E r \in Requests : LeaseLapses(r) \/ WaitsUnclaimed(r)

Spec == Init /\ [][Next]_vars

(* Every call of a run has a deadline, the retention job is driven by a
   ticker, and a lease that nobody renews runs out. *)
FairSpec ==
    /\ Spec
    /\ \A p \in Processes : WF_vars(RunStep(p))
    /\ \A p \in Sweepers : WF_vars(SweepStep(p))
    /\ WF_vars(\E r \in Requests : WaitsUnclaimed(r) \/ (LeaseLapses(r) /\ ~Renewed(r)))

-----------------------------------------------------------------------------
(* Correctness                                                             *)

PhaseOf(r) ==
    CASE task[r].state = "absent" -> "none"
      [] task[r].state \in Phases -> "open"
      [] task[r].state = "cancelling" -> "stopping"
      [] OTHER -> task[r].state

(* Whoever runs, cancels or recovers a task, and whatever the runner does
   after it has lost it: the catalogue, the outcomes and the notifications
   are those of TemplateCatalog.  In particular one sync is open at a time,
   what a success installs is all that its checkout held, and a sync that an
   operator has cancelled does not succeed or fail. *)
Abstract == INSTANCE TemplateCatalog WITH phase <- [r \in Requests |-> PhaseOf(r)]

KeepsTheCatalog == Abstract!CatalogSpec

(* A run that ends its task as failed or succeeded and calls it clean has left
   no workspace behind. *)
CleanRunsLeaveNothing ==
    \A r \in Requests :
        task[r].state \in {"failed", "succeeded"} /\ task[r].cleanup = "clean" => r \notin dirs

(* The one slot for a sync is freed in the end: whoever dies, loses a lease or
   a call, the task that holds it succeeds, fails or is cancelled. *)
SlotIsFreed == ActiveTask # {} ~> ActiveTask = {}
=============================================================================
