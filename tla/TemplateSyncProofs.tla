------------------------- MODULE TemplateSyncProofs -------------------------
(***************************************************************************)
(* Theorems about TemplateSync, for any set of processes, requests and     *)
(* templates and any number of faults: a run that calls itself clean has   *)
(* left no workspace, and the runners, operators and retention jobs        *)
(* implement TemplateCatalog.                                              *)
(*                                                                         *)
(* The invariant says of a run what holds of its task while the others go  *)
(* on (RunOK), and of a row what holds whoever wrote it (RowOK).  A step   *)
(* of a run touches one row (RunStepKeeps); the rows that operators and    *)
(* the retention job write keep what a run relies on (Steady).             *)
(***************************************************************************)
EXTENDS TemplateSync, TLAPS

-----------------------------------------------------------------------------
(* Types                                                                   *)

(* Where a run has a workspace of its own, from its first call on. *)
Before == {"create", "key", "cloning", "clone", "scan"}

Staging == {"validating templates", "stage"}

Staged == {"committing", "cleaning", "clean", "promote"}

Working == Before \cup {"scanning", "abort"} \cup Staging \cup Staged

(* A run is past its claim. *)
Claimed == Working \cup {"fail", "mark", "reread"}

Pcs == Claimed \cup {"idle", "read", "claim", "finish"}

RunRows ==
    [pc : Pcs, task : Requests \cup {None}, live : BOOLEAN, requested : BOOLEAN,
     key : BOOLEAN, found : (SUBSET Templates) \cup {None}, cleanup : {"clean", "residual"}]

TaskRows ==
    [state : {"absent", "cancelling"} \cup Phases \cup Outcomes, started : BOOLEAN,
     lease : {"none", "fresh", "waited", "held", "lapsed"}, key : BOOLEAN,
     cleanup : {"pending", "clean", "residual"}]

SweepRows == [pc : {"recover", "expire", "remove"}, kept : SUBSET Requests]

(* The type invariant: tables, queues and the locals of runs and of retention
   jobs; a run that is not idle has a task. *)
Types ==
    /\ catalog \in [Templates -> {"absent", "disabled", "enabled"}]
    /\ task \in [Requests -> TaskRows]
    /\ candidates \in [Requests -> SUBSET Templates]
    /\ told \subseteq Requests \X Outcomes
    /\ dirs \subseteq Requests
    /\ queue \in [Processes -> SUBSET Requests]
    /\ run \in [Processes -> RunRows]
    /\ \A p \in Processes : run[p].pc # "idle" \/ run[p].requested => run[p].task \in Requests
    /\ sweep \in [Processes -> SweepRows]
    /\ offer \in [Requests -> SUBSET Templates]
    /\ faults \in 0 .. MaxFaults

-----------------------------------------------------------------------------
(* The invariant                                                           *)

OneActive == \A r, s \in Requests : Active(r) /\ Active(s) => r = s

ClaimsAreAlone ==
    \A p, q \in Processes :
        run[p].pc \in Claimed /\ run[q].pc \in Claimed /\ run[p].task = run[q].task => p = q

Stopping(r) == task[r].state \in {"cancelling", "cancelled"}

(* What holds of a row, whoever wrote it. *)
RowOK(r) ==
    /\ ~task[r].started => candidates[r] = {} /\ offer[r] = {} /\ r \notin dirs
    /\ task[r].started => task[r].state # "absent"
    /\ task[r].state = "failed" => <<r, "failed">> \in told
    /\ task[r].state \notin Outcomes => task[r].cleanup = "pending"
    /\ task[r].state \in {"failed", "succeeded"} /\ task[r].cleanup = "clean" => r \notin dirs

(* What the run of p has staged is what its checkout held. *)
StagingIsFaithful(p) ==
    LET r == run[p].task
    IN  /\ run[p].pc \in Before => candidates[r] = {} /\ offer[r] = {}
        /\ \/ run[p].pc = "scanning" /\ run[p].found # None
           \/ run[p].pc \in Staging
           => /\ run[p].found \in SUBSET Templates
              /\ task[r].state \in Phases => candidates[r] \cup run[p].found = offer[r]
        /\ run[p].pc \in Staged /\ task[r].state \in Phases => candidates[r] = offer[r]

(* Nobody has settled what becomes of the workspace of a run, and a run that
   calls it removed is right. *)
WorkspaceIsOwn(p) ==
    LET r == run[p].task
    IN  /\ run[p].pc = "create" => r \notin dirs
        /\ run[p].pc \in Working => task[r].cleanup = "pending" \/ task[r].state = "cancelled"
        /\ run[p].pc \in {"promote", "fail", "mark"} /\ run[p].cleanup = "clean" => r \notin dirs

(* What a run relies on: its claim, that a cancellation it has heard of stays
   one, and what it has in its workspace and among the candidates. *)
RunOK(p) ==
    /\ run[p].requested \/ run[p].pc = "finish" => Stopping(run[p].task)
    /\ run[p].pc \in Claimed => task[run[p].task].started
    /\ StagingIsFaithful(p)
    /\ WorkspaceIsOwn(p)

IInv ==
    /\ Types
    /\ OneActive
    /\ ClaimsAreAlone
    /\ \A r \in Requests : RowOK(r)
    /\ \A p \in Processes : RunOK(p)

-----------------------------------------------------------------------------
(* What a step does to a run and to a row                                  *)

RunBecomes(p, pc, r, requested, found, cleanup) ==
    /\ run' \in [Processes -> RunRows]
    /\ run'[p].pc = pc /\ run'[p].task = r /\ run'[p].requested = requested
    /\ run'[p].found = found /\ run'[p].cleanup = cleanup
    /\ \A q \in Processes : q # p => run'[q] = run[q]

RowBecomes(r, state, started, cleanup) ==
    /\ task' \in [Requests -> TaskRows]
    /\ task'[r].state = state /\ task'[r].started = started /\ task'[r].cleanup = cleanup
    /\ \A s \in Requests : s # r => task'[s] = task[s]

LEMMA GotoForm ==
  ASSUME Types, NEW p \in Processes, NEW pc \in Pcs, NEW l \in RunRows, Goto(p, pc, l)
  PROVE  RunBecomes(p, pc, l.task, l.requested, l.found, l.cleanup)
<1> DEFINE new == [l EXCEPT !.pc = pc]
<1>1. /\ new \in RunRows /\ new.pc = pc /\ new.task = l.task /\ new.requested = l.requested
      /\ new.found = l.found /\ new.cleanup = l.cleanup
  BY DEF RunRows
<1>2. run' = [run EXCEPT ![p] = new] /\ run \in [Processes -> RunRows]
  BY DEF Goto, Types
<1> HIDE DEF new
<1>3. run' \in [Processes -> RunRows] /\ run'[p] = new
      /\ \A q \in Processes : q # p => run'[q] = run[q]
  BY <1>1, <1>2
<1>4. QED
  BY <1>1, <1>3 DEF RunBecomes

LEMMA Blank == NoRun \in RunRows /\ NoSweep \in SweepRows /\ NoTask \in TaskRows
  BY DEF NoRun, NoSweep, NoTask, RunRows, SweepRows, TaskRows, Pcs

LEMMA GiveUpForm ==
  ASSUME Types, NEW p \in Processes, NEW pc \in Pcs, NEW cleanup \in {"clean", "residual"},
         GiveUp(p, pc, cleanup)
  PROVE  RunBecomes(p, pc, run[p].task, run[p].requested, {}, cleanup)
<1> DEFINE new == [NoRun EXCEPT !.pc = pc, !.task = run[p].task,
                                !.requested = run[p].requested, !.cleanup = cleanup]
<1>1. run[p] \in RunRows
  BY DEF Types
<1>2. /\ new \in RunRows /\ new.pc = pc /\ new.task = run[p].task
      /\ new.requested = run[p].requested /\ new.found = {} /\ new.cleanup = cleanup
  BY <1>1 DEF RunRows, NoRun
<1>3. run' = [run EXCEPT ![p] = new] /\ run \in [Processes -> RunRows]
  BY DEF GiveUp, Types
<1> HIDE DEF new
<1>4. run' \in [Processes -> RunRows] /\ run'[p] = new
      /\ \A q \in Processes : q # p => run'[q] = run[q]
  BY <1>2, <1>3
<1>5. QED
  BY <1>2, <1>4 DEF RunBecomes

LEMMA EndForm ==
  ASSUME Types, NEW p \in Processes, run' = [run EXCEPT ![p] = NoRun]
  PROVE  RunBecomes(p, "idle", None, FALSE, {}, "clean")
<1>1. run' \in [Processes -> RunRows] /\ run'[p] = NoRun
      /\ \A q \in Processes : q # p => run'[q] = run[q]
  BY Blank DEF Types
<1>2. QED
  BY <1>1 DEF RunBecomes, NoRun

(* The task of a run that is not idle. *)
LEMMA TaskOfRun ==
  ASSUME Types, NEW p \in Processes, run[p].pc # "idle"
  PROVE  /\ run[p].task \in Requests /\ run[p] \in RunRows
         /\ task[run[p].task] \in TaskRows
         /\ task[run[p].task].state \in {"absent", "cancelling"} \cup Phases \cup Outcomes
         /\ task[run[p].task].cleanup \in {"pending", "clean", "residual"}
         /\ run[p].requested \in BOOLEAN /\ run[p].cleanup \in {"clean", "residual"}
         /\ run[p].found \in (SUBSET Templates) \cup {None}
  BY DEF Types, TaskRows, RunRows

LEMMA NextSteps ==
  /\ DOMAIN NextStep = {"cloning", "scanning", "validating templates", "committing", "cleaning"}
  /\ NextStep["cloning"] = "clone" /\ NextStep["scanning"] = "validating templates"
  /\ NextStep["validating templates"] = "stage" /\ NextStep["committing"] = "cleaning"
  /\ NextStep["cleaning"] = "clean"
  BY DEF NextStep

LEMMA CleanupIs == \A key : CleanupOf(key) \in {"clean", "residual"}
  BY DEF CleanupOf

LEMMA TypesKept ==
  ASSUME Types, NEW p \in Processes, NEW pc, NEW r \in Requests \cup {None}, NEW requested,
         NEW found, NEW cleanup, (pc = "idle" /\ ~requested) \/ r \in Requests,
         RunBecomes(p, pc, r, requested, found, cleanup),
         task' \in [Requests -> TaskRows], candidates' \in [Requests -> SUBSET Templates],
         told' \subseteq Requests \X Outcomes, dirs' \subseteq Requests,
         catalog' \in [Templates -> {"absent", "disabled", "enabled"}],
         queue' \in [Processes -> SUBSET Requests], sweep' \in [Processes -> SweepRows],
         offer' \in [Requests -> SUBSET Templates], faults' \in 0 .. MaxFaults
  PROVE  Types'
<1>1. \A q \in Processes :
          run'[q].pc # "idle" \/ run'[q].requested => run'[q].task \in Requests
  BY DEF RunBecomes, Types
<1>2. QED
  BY <1>1 DEF RunBecomes, Types

LEMMA FaultTypes ==
  ASSUME Types, Fault \/ NoFault
  PROVE  faults' \in 0 .. MaxFaults
  BY SyncAssumption DEF Types, Fault, NoFault

-----------------------------------------------------------------------------
(* What a step leaves to the others                                        *)

Alone(p, r) == \A q \in Processes : q # p /\ run[q].pc \in Claimed => run[q].task # r

(* A row as its run may find it, whatever the others have done to it. *)
Steady(r) ==
    /\ offer'[r] = offer[r]
    /\ candidates'[r] = candidates[r] \/ candidates'[r] = {}
    /\ task'[r].state \in Phases => task[r].state \in Phases /\ candidates'[r] = candidates[r]
    /\ r \in dirs' => r \in dirs
    /\ task'[r].cleanup = task[r].cleanup \/ task'[r].state = "cancelled"
    /\ task[r].state = "cancelled" => task'[r].state = "cancelled"

Kept(r) ==
    /\ Stopping(r) => Stopping(r)'
    /\ task[r].started => task'[r].started

LEMMA AloneWhen ==
  ASSUME IInv, NEW p \in Processes, NEW r,
         (run[p].pc \in Claimed /\ run[p].task = r) \/ ~task[r].started
  PROVE  Alone(p, r)
  BY DEF IInv, ClaimsAreAlone, RunOK, Alone

LEMMA OtherRuns ==
  ASSUME Types, NEW q \in Processes, RunOK(q), run'[q] = run[q],
         run[q].task \in Requests => Kept(run[q].task),
         run[q].pc \in Claimed => Steady(run[q].task)
  PROVE  RunOK(q)'
<1> DEFINE r == run[q].task
<1>1. run'[q].task = r /\ run'[q].pc = run[q].pc /\ run'[q].requested = run[q].requested
      /\ run'[q].found = run[q].found /\ run'[q].cleanup = run[q].cleanup
  OBVIOUS
<1>2. CASE run[q].pc \in Claimed
  <2>1. Steady(r) /\ Kept(r)
    BY <1>2 DEF Types, Claimed, Working, Before, Staging, Staged
  <2>2. run[q].pc \notin {"finish"}
    BY <1>2 DEF Claimed, Working, Before, Staging, Staged
  <2>3. StagingIsFaithful(q)'
    BY <1>1, <2>1 DEF StagingIsFaithful, RunOK, Steady
  <2>4. WorkspaceIsOwn(q)'
    BY <1>1, <2>1 DEF WorkspaceIsOwn, RunOK, Steady
  <2>5. QED
    BY <1>1, <2>1, <2>2, <2>3, <2>4 DEF RunOK, Kept, Stopping
<1>3. CASE run[q].pc \notin Claimed
  <2>1. run[q].requested \/ run[q].pc = "finish" => Kept(r)
    BY DEF Types, RunOK, Stopping
  <2>2. StagingIsFaithful(q)' /\ WorkspaceIsOwn(q)'
    BY <1>1, <1>3 DEF StagingIsFaithful, WorkspaceIsOwn, Claimed, Working, Before, Staging, Staged
  <2>3. QED
    BY <1>1, <1>3, <2>1, <2>2 DEF RunOK, Kept, Stopping
<1>4. QED
  BY <1>2, <1>3
(* A step that changes the run of p, or none, and keeps every other row steady
   or has it for itself. *)
LEMMA StepKeeps ==
  ASSUME IInv, Types', OneActive', NEW p,
         \A q \in Processes : q # p => run'[q] = run[q],
         \A s \in Requests : RowOK(s)' /\ Kept(s) /\ (Steady(s) \/ Alone(p, s)),
         p \in Processes => RunOK(p)' /\ (run'[p].pc \in Claimed => Alone(p, run'[p].task))
  PROVE  IInv'
<1>1. ASSUME NEW q \in Processes, q # p
      PROVE  RunOK(q)'
  <2>1. run[q].pc \in Claimed => run[q].task \in Requests /\ ~Alone(p, run[q].task)
    BY <1>1 DEF IInv, Types, Alone, Claimed, Working, Before, Staging, Staged
  <2>2. QED
    BY <1>1, <2>1, OtherRuns DEF IInv
<1>2. ClaimsAreAlone'
  BY DEF ClaimsAreAlone, Alone, IInv
<1>3. QED
  BY <1>1, <1>2 DEF IInv

(* A step of one run, at one row. *)
LEMMA RunStepKeeps ==
  ASSUME IInv, Types', NEW p \in Processes, NEW r \in Requests,
         \A q \in Processes : q # p => run'[q] = run[q],
         \A s \in Requests : s # r =>
             /\ task'[s] = task[s] /\ candidates'[s] = candidates[s] /\ offer'[s] = offer[s]
             /\ s \in dirs' => s \in dirs,
         told \subseteq told',
         Active(r)' => Active(r), Kept(r), RowOK(r)', Steady(r) \/ Alone(p, r),
         RunOK(p)', run'[p].pc \in Claimed => run'[p].task = r /\ Alone(p, r)
  PROVE  IInv'
<1>1. OneActive'
  BY DEF IInv, OneActive, Active
<1>2. ASSUME NEW s \in Requests, s # r
      PROVE  RowOK(s)' /\ Kept(s) /\ Steady(s)
  <2>1. RowOK(s)'
    BY <1>2 DEF IInv, RowOK
  <2>2. Kept(s) /\ Steady(s)
    BY <1>2 DEF Kept, Steady, Stopping
  <2>3. QED
    BY <2>1, <2>2
<1>3. QED
  BY <1>1, <1>2, StepKeeps

(* A step that moves one run and touches no row. *)
LEMMA RunMoves ==
  ASSUME IInv, Types', NEW p \in Processes, UNCHANGED <<task, candidates, offer, dirs, told>>,
         \A q \in Processes : q # p => run'[q] = run[q], RunOK(p)',
         run'[p].pc \in Claimed => run[p].pc \in Claimed /\ run'[p].task = run[p].task
  PROVE  IInv'
<1>1. OneActive'
  BY DEF IInv, OneActive, Active
<1>2. \A s \in Requests : RowOK(s)' /\ Kept(s) /\ Steady(s)
  BY DEF IInv, RowOK, Kept, Steady, Stopping
<1>3. run'[p].pc \in Claimed => Alone(p, run'[p].task)
  BY AloneWhen
<1>4. QED
  BY <1>1, <1>2, <1>3, StepKeeps

(* A step that changes rows and no run. *)
LEMMA RowsMove ==
  ASSUME IInv, Types', OneActive', UNCHANGED run,
         \A s \in Requests : RowOK(s)' /\ Kept(s) /\ Steady(s)
  PROVE  IInv'
<1>1. None \notin Processes
  BY SyncAssumption
<1>2. QED
  BY <1>1, StepKeeps

(* Where a run has nothing to answer for. *)
LEMMA AtRest ==
  ASSUME NEW p \in Processes,
         run'[p].pc \in {"idle", "read", "claim", "finish"},
         run'[p].requested \/ run'[p].pc = "finish" => Stopping(run[p].task)'
  PROVE  RunOK(p)'
  BY DEF RunOK, StagingIsFaithful, WorkspaceIsOwn, Claimed, Working, Before, Staging, Staged

-----------------------------------------------------------------------------
(* The steps of a run that touch no row                                    *)

LEMMA RequestedIs ==
  ASSUME IInv, NEW p \in Processes, CancelRequested(p)
  PROVE  Stopping(run[p].task)
  BY DEF CancelRequested, IInv, RunOK, Stopping

LEMMA BeginStep ==
  ASSUME IInv, NEW p \in Processes, Begin(p)
  PROVE  IInv'
<1>1. PICK r \in queue[p] :
          /\ queue' = [queue EXCEPT ![p] = @ \ {r}]
          /\ Goto(p, "read", [NoRun EXCEPT !.task = r, !.live = TRUE])
  BY DEF Begin
<1>2. r \in Requests /\ Types
  BY DEF IInv, Types
<1> DEFINE l == [NoRun EXCEPT !.task = r, !.live = TRUE]
<1>3. l \in RunRows /\ l.task = r /\ l.requested = FALSE /\ l.found = {} /\ l.cleanup = "clean"
  BY <1>2, Blank DEF RunRows, NoRun
<1>4. RunBecomes(p, "read", r, FALSE, {}, "clean")
  <2> HIDE DEF l
  <2>1. Goto(p, "read", l)
    BY <1>1 DEF l
  <2>2. QED
    BY <1>2, <1>3, <2>1, GotoForm DEF Pcs
<1>5. queue' \in [Processes -> SUBSET Requests]
  BY <1>1, <1>2 DEF Types
<1>6. Types'
  BY <1>2, <1>4, <1>5, TypesKept DEF Begin, Types
<1>7. RunOK(p)'
  BY <1>4, AtRest DEF RunBecomes
<1>8. QED
  BY <1>4, <1>6, <1>7, RunMoves DEF RunBecomes, Begin, Claimed, Working, Before, Staging, Staged

(* A run that leaves, or turns to the cancellation of its task. *)
LEMMA Leaves ==
  ASSUME IInv, NEW p \in Processes, run[p].pc # "idle",
         \/ run' = [run EXCEPT ![p] = NoRun]
         \/ /\ CancelRequested(p)
            /\ \/ \E cleanup \in {"clean", "residual"} : GiveUp(p, "finish", cleanup)
               \/ Goto(p, "finish", run[p]),
         UNCHANGED <<catalog, task, candidates, told, dirs, queue, sweep, offer>>, Fault \/ NoFault
  PROVE  IInv'
<1>1. Types /\ run[p].task \in Requests /\ run[p] \in RunRows
  BY TaskOfRun DEF IInv
<1>2. faults' \in 0 .. MaxFaults
  BY <1>1, FaultTypes
<1>3. CASE run' = [run EXCEPT ![p] = NoRun]
  <2>1. RunBecomes(p, "idle", None, FALSE, {}, "clean")
    BY <1>1, <1>3, EndForm
  <2>2. Types'
    BY <1>1, <1>2, <2>1, TypesKept DEF Types
  <2>3. RunOK(p)'
    BY <2>1, AtRest DEF RunBecomes
  <2>4. QED
    BY <2>1, <2>2, <2>3, RunMoves DEF RunBecomes, Claimed, Working, Before, Staging, Staged
<1>4. ASSUME CancelRequested(p),
             \/ \E cleanup \in {"clean", "residual"} : GiveUp(p, "finish", cleanup)
             \/ Goto(p, "finish", run[p])
      PROVE  IInv'
  <2>1. PICK found, cleanup :
            RunBecomes(p, "finish", run[p].task, run[p].requested, found, cleanup)
    <3>1. CASE Goto(p, "finish", run[p])
      BY <1>1, <3>1, GotoForm DEF Pcs
    <3>2. CASE \E cleanup \in {"clean", "residual"} : GiveUp(p, "finish", cleanup)
      BY <1>1, <3>2, GiveUpForm DEF Pcs
    <3>3. QED
      BY <1>4, <3>1, <3>2
  <2>2. Types'
    BY <1>1, <1>2, <2>1, TypesKept DEF Types
  <2>3. Stopping(run[p].task)'
    BY <1>4, <2>1, RequestedIs DEF RunBecomes, Stopping
  <2>4. RunOK(p)'
    BY <2>1, <2>3, AtRest DEF RunBecomes
  <2>5. QED
    BY <2>1, <2>2, <2>4, RunMoves DEF RunBecomes, Claimed, Working, Before, Staging, Staged
<1>5. QED
  BY <1>3, <1>4

LEMMA ReadStep ==
  ASSUME IInv, NEW p \in Processes, ReadTask(p)
  PROVE  IInv'
<1>1. Types /\ run[p].pc = "read" /\ run[p].task \in Requests /\ run[p] \in RunRows
  BY TaskOfRun DEF IInv, ReadTask, Running
<1>2. UNCHANGED <<catalog, task, candidates, told, dirs, queue, sweep, offer>> /\ (Fault \/ NoFault)
  BY DEF ReadTask
<1>3. \/ run' = [run EXCEPT ![p] = NoRun]
      \/ CancelRequested(p) /\ \E cleanup \in {"clean", "residual"} : GiveUp(p, "finish", cleanup)
      \/ \E key : Goto(p, "claim", [run[p] EXCEPT !.key = key]) /\ key \in BOOLEAN
  <2>1. task[run[p].task].key \in BOOLEAN
    BY <1>1 DEF Types, TaskRows
  <2>2. QED
    BY <2>1, CleanupIs DEF ReadTask, End, CancelRequested
<1>4. ASSUME NEW key \in BOOLEAN, Goto(p, "claim", [run[p] EXCEPT !.key = key])
      PROVE  IInv'
  <2> DEFINE l == [run[p] EXCEPT !.key = key]
  <2>1. l \in RunRows /\ l.task = run[p].task /\ l.requested = run[p].requested
    BY <1>1 DEF RunRows
  <2>2. RunBecomes(p, "claim", run[p].task, run[p].requested, l.found, l.cleanup)
    <3> HIDE DEF l
    <3>1. Goto(p, "claim", l)
      BY <1>4 DEF l
    <3>2. QED
      BY <1>1, <2>1, <3>1, GotoForm DEF Pcs
  <2>3. Types'
    BY <1>1, <1>2, <2>2, TypesKept, FaultTypes DEF Types
  <2>4. run'[p].requested => Stopping(run[p].task)'
    BY <1>2, <2>2 DEF RunBecomes, IInv, RunOK, Stopping
  <2>5. RunOK(p)'
    BY <2>2, <2>4, AtRest DEF RunBecomes
  <2>6. QED
    BY <1>2, <2>2, <2>3, <2>5, RunMoves DEF RunBecomes, Claimed, Working, Before, Staging, Staged
<1>5. QED
  BY <1>1, <1>2, <1>3, <1>4, Leaves

(* A run past its claim that gives up: it keeps its task, has nothing staged
   left to answer for, and calls its workspace removed only if it is. *)
LEMMA GivesUp ==
  ASSUME IInv, NEW p \in Processes, run[p].pc \in Claimed,
         NEW pc \in {"abort", "fail", "mark", "reread"}, NEW found, NEW cleanup,
         RunBecomes(p, pc, run[p].task, run[p].requested, found, cleanup),
         pc \in {"fail", "mark"} /\ cleanup = "clean" => run[p].task \notin dirs,
         pc = "abort" => run[p].pc \in Working,
         UNCHANGED <<task, candidates, dirs, told, offer>>
  PROVE  RunOK(p)'
<1>1. run'[p].requested \/ run'[p].pc = "finish" => Stopping(run[p].task)'
  BY DEF RunBecomes, IInv, RunOK, Stopping
<1>2. task'[run'[p].task].started
  BY DEF RunBecomes, IInv, RunOK
<1>3. StagingIsFaithful(p)'
  BY DEF RunBecomes, StagingIsFaithful, Before, Staging, Staged
<1>4. WorkspaceIsOwn(p)'
  BY DEF RunBecomes, WorkspaceIsOwn, IInv, RunOK, Working, Before, Staging, Staged
<1>5. QED
  BY <1>1, <1>2, <1>3, <1>4 DEF RunOK

-----------------------------------------------------------------------------
(* The steps of a run past its claim                                       *)

LEMMA RowForm ==
  ASSUME Types, NEW r \in Requests, NEW row \in TaskRows, task' = [task EXCEPT ![r] = row]
  PROVE  RowBecomes(r, row.state, row.started, row.cleanup)
  BY DEF Types, RowBecomes

LEMMA ClaimStep ==
  ASSUME IInv, NEW p \in Processes, ClaimTask(p)
  PROVE  IInv'
<1>1. Types /\ run[p].pc = "claim" /\ run[p].task \in Requests /\ run[p] \in RunRows
  BY TaskOfRun DEF IInv, ClaimTask, Running
<1>2. PICK r \in Requests : r = run[p].task
  BY <1>1
<1>3. CASE /\ Claimable(r)
           /\ task' = [task EXCEPT ![r] = [@ EXCEPT !.state = "validating source",
                                                    !.started = TRUE, !.lease = "held"]]
           /\ Goto(p, "create", [run[p] EXCEPT !.key = FALSE])
           /\ NoFault
  <2>1. RunBecomes(p, "create", r, run[p].requested, run[p].found, run[p].cleanup)
    <3> DEFINE l == [run[p] EXCEPT !.key = FALSE]
    <3>1. /\ l \in RunRows /\ l.task = r /\ l.requested = run[p].requested
          /\ l.found = run[p].found /\ l.cleanup = run[p].cleanup
      BY <1>1, <1>2 DEF RunRows
    <3>2. Goto(p, "create", l)
      BY <1>3
    <3> HIDE DEF l
    <3>3. "create" \in Pcs
      BY DEF Pcs, Claimed, Working, Before
    <3>4. QED
      BY <1>1, <3>1, <3>2, <3>3, GotoForm
  <2>2. RowBecomes(r, "validating source", TRUE, task[r].cleanup)
    <3> DEFINE row == [task[r] EXCEPT !.state = "validating source",
                                      !.started = TRUE, !.lease = "held"]
    <3>1. /\ row \in TaskRows /\ row.state = "validating source" /\ row.started = TRUE
          /\ row.cleanup = task[r].cleanup
      <4>1. task[r] \in TaskRows /\ "validating source" \in Phases
        BY <1>1 DEF Types, Phases
      <4>2. QED
        BY <4>1 DEF TaskRows
    <3>2. task' = [task EXCEPT ![r] = row]
      BY <1>3
    <3> HIDE DEF row
    <3>3. QED
      BY <1>1, <3>1, <3>2, RowForm
  <2>3. UNCHANGED <<catalog, candidates, told, dirs, queue, sweep, offer, faults>>
    BY <1>3 DEF ClaimTask, NoFault
  <2>4. Types'
    BY <1>1, <2>1, <2>2, <2>3, TypesKept DEF Types, RowBecomes
  <2>5. /\ task[r].state = "validating source" /\ ~task[r].started /\ RowOK(r) /\ RunOK(p)
      BY <1>3 DEF Claimable, IInv
  <2>6. /\ candidates[r] = {} /\ offer[r] = {} /\ r \notin dirs /\ task[r].cleanup = "pending"
    BY <2>5 DEF RowOK, Outcomes
  <2>7. ~run[p].requested
    BY <1>2, <2>5 DEF RunOK, Stopping
  <2>8. RowOK(r)'
    BY <2>2, <2>3, <2>6 DEF RowOK, RowBecomes
  <2>9. StagingIsFaithful(p)'
    BY <2>1, <2>3, <2>6 DEF StagingIsFaithful, RunBecomes, Before, Staging, Staged
  <2>10. WorkspaceIsOwn(p)'
    BY <2>1, <2>2, <2>3, <2>6 DEF WorkspaceIsOwn, RunBecomes, RowBecomes
  <2>11. RunOK(p)'
    BY <2>1, <2>2, <2>7, <2>9, <2>10 DEF RunOK, RunBecomes, RowBecomes
  <2>12. Alone(p, r)
    BY <2>5, AloneWhen
  <2>13. (Active(r)' => Active(r)) /\ Kept(r)
    BY <2>2, <2>5 DEF Active, Kept, Stopping, RowBecomes, Phases
  <2>14. QED
    BY <2>1, <2>2, <2>3, <2>4, <2>8, <2>11, <2>12, <2>13, RunStepKeeps DEF RunBecomes, RowBecomes
<1>4. CASE /\ Fault \/ NoFault
           /\ IF CancelRequested(p)
              THEN GiveUp(p, "finish", CleanupOf(run[p].key))
              ELSE End(p)
           /\ UNCHANGED task
  <2>1. UNCHANGED <<catalog, task, candidates, told, dirs, queue, sweep, offer>>
    BY <1>4 DEF ClaimTask
  <2>2. QED
    BY <1>1, <1>4, <2>1, CleanupIs, Leaves DEF End
<1>5. QED
  BY <1>2, <1>3, <1>4 DEF ClaimTask

(* A run past its claim has its row for itself. *)
LEMMA Claimer ==
  ASSUME IInv, NEW p \in Processes, run[p].pc \in Claimed
  PROVE  /\ Types /\ run[p].task \in Requests /\ run[p] \in RunRows
         /\ RunOK(p) /\ RowOK(run[p].task) /\ Alone(p, run[p].task)
         /\ task[run[p].task].started
  BY TaskOfRun, AloneWhen DEF IInv, RunOK, Claimed, Working, Before, Staging, Staged

(* It gives up where it stands. *)
LEMMA GiveUpStep ==
  ASSUME IInv, NEW p \in Processes, run[p].pc \in Working,
         NEW pc \in {"abort", "fail"}, NEW cleanup \in {"clean", "residual"},
         GiveUp(p, pc, cleanup), pc = "fail" /\ cleanup = "clean" => run[p].task \notin dirs,
         UNCHANGED <<catalog, task, candidates, told, dirs, queue, sweep, offer>>, Fault \/ NoFault
  PROVE  IInv'
<1>1. run[p].pc \in Claimed
  BY DEF Claimed
<1>2. Types /\ run[p].task \in Requests
  BY <1>1, Claimer
<1>3. pc \in Pcs
  BY DEF Pcs, Claimed, Working
<1>4. RunBecomes(p, pc, run[p].task, run[p].requested, {}, cleanup)
  BY <1>2, <1>3, GiveUpForm
<1>5. Types'
  BY <1>2, <1>4, TypesKept, FaultTypes DEF Types
<1>6. RunOK(p)'
  BY <1>1, <1>4, GivesUp
<1>7. QED
  BY <1>1, <1>4, <1>5, <1>6, RunMoves DEF RunBecomes

LEMMA CreateWorkspaceStep ==
  ASSUME IInv, NEW p \in Processes, CreateWorkspace(p)
  PROVE  IInv'
<1>1. run[p].pc = "create" /\ run[p].pc \in Working /\ run[p].pc \in Claimed
  BY DEF CreateWorkspace, Running, Claimed, Working, Before
<1>2. PICK r \in Requests : r = run[p].task
  BY <1>1, Claimer
<1>3. /\ Types /\ RunOK(p) /\ RowOK(r) /\ Alone(p, r) /\ task[r].started /\ run[p] \in RunRows
  BY <1>1, <1>2, Claimer
<1>4. UNCHANGED <<catalog, task, candidates, told, queue, sweep, offer>>
  BY DEF CreateWorkspace
<1>5. CASE dirs' = dirs \cup {r} /\ Goto(p, "key", run[p]) /\ NoFault
  <2>1. RunBecomes(p, "key", r, run[p].requested, run[p].found, run[p].cleanup)
    BY <1>2, <1>3, <1>5, GotoForm DEF Pcs, Claimed, Working, Before
  <2>2. Types'
    BY <1>3, <1>4, <1>5, <2>1, TypesKept, FaultTypes DEF Types
  <2>3. task[r].cleanup = "pending" \/ task[r].state = "cancelled"
    BY <1>1, <1>2, <1>3 DEF RunOK, WorkspaceIsOwn
  <2>4. RowOK(r)'
    BY <1>3, <1>4, <1>5, <2>3 DEF RowOK
  <2>5. StagingIsFaithful(p)'
    BY <1>1, <1>2, <1>3, <1>4, <2>1 DEF RunOK, StagingIsFaithful, RunBecomes, Before, Staging, Staged
  <2>6. WorkspaceIsOwn(p)'
    BY <1>4, <2>1, <2>3 DEF WorkspaceIsOwn, RunBecomes
  <2>7. RunOK(p)'
    BY <1>2, <1>3, <1>4, <2>1, <2>5, <2>6 DEF RunOK, RunBecomes, Stopping
  <2>8. (Active(r)' => Active(r)) /\ Kept(r)
    BY <1>4 DEF Active, Kept, Stopping
  <2>9. QED
    BY <1>3, <1>4, <1>5, <2>1, <2>2, <2>4, <2>7, <2>8, RunStepKeeps DEF RunBecomes
<1>6. CASE (Fault \/ NoFault) /\ GiveUp(p, "fail", "clean") /\ UNCHANGED dirs
  <2>1. r \notin dirs
    BY <1>1, <1>2, <1>3 DEF RunOK, WorkspaceIsOwn
  <2>2. QED
    BY <1>1, <1>2, <1>4, <1>6, <2>1, GiveUpStep
<1>7. QED
  BY <1>2, <1>5, <1>6 DEF CreateWorkspace

(* A statement that updates the row of a task still running. *)
LEMMA UpdatesRow ==
  ASSUME IInv, NEW p \in Processes, run[p].pc \in Working, NEW r \in Requests, r = run[p].task,
         task[r].state \in Phases, NEW state \in Phases,
         RowBecomes(r, state, task[r].started, task[r].cleanup),
         NEW pc \in Claimed, NEW found, NEW cleanup,
         RunBecomes(p, pc, r, run[p].requested, found, cleanup),
         StagingIsFaithful(p)', pc \notin {"create", "promote", "fail", "mark"},
         UNCHANGED <<catalog, candidates, told, dirs, queue, sweep, offer>>, NoFault
  PROVE  IInv'
<1>1. Types /\ RunOK(p) /\ RowOK(r) /\ Alone(p, r) /\ task[r].started
  BY Claimer DEF Claimed
<1>2. Types'
  BY <1>1, TypesKept, FaultTypes DEF Types, RowBecomes
<1>3. task[r].cleanup = "pending" /\ ~run[p].requested
  BY <1>1 DEF RowOK, RunOK, Stopping, Phases, Outcomes
<1>4. RowOK(r)'
  BY <1>1, <1>3 DEF RowOK, RowBecomes, Phases, Outcomes
<1>5. WorkspaceIsOwn(p)'
  BY <1>3 DEF WorkspaceIsOwn, RunBecomes, RowBecomes
<1>6. RunOK(p)'
  BY <1>1, <1>3, <1>5 DEF RunOK, RunBecomes, RowBecomes, Claimed, Working, Before, Staging, Staged
<1>7. (Active(r)' => Active(r)) /\ Kept(r)
  BY <1>1 DEF Active, Kept, Stopping, RowBecomes, Phases
<1>8. QED
  BY <1>1, <1>2, <1>4, <1>6, <1>7, RunStepKeeps DEF RunBecomes, RowBecomes

LEMMA SetKeyStep ==
  ASSUME IInv, NEW p \in Processes, SetTaskWorkspaceKey(p)
  PROVE  IInv'
<1>1. run[p].pc = "key" /\ run[p].pc \in Working /\ run[p].pc \in Claimed
  BY DEF SetTaskWorkspaceKey, Running, Claimed, Working, Before
<1>2. PICK r \in Requests : r = run[p].task
  BY <1>1, Claimer
<1>3. /\ Types /\ RunOK(p) /\ run[p] \in RunRows
  BY <1>1, <1>2, Claimer
<1>4. UNCHANGED <<catalog, candidates, told, dirs, queue, sweep, offer>>
  BY DEF SetTaskWorkspaceKey
<1>5. CASE /\ Updatable(p) /\ task' = [task EXCEPT ![r].key = TRUE]
           /\ Goto(p, "cloning", run[p]) /\ NoFault
  <2>1. RunBecomes(p, "cloning", r, run[p].requested, run[p].found, run[p].cleanup)
    BY <1>2, <1>3, <1>5, GotoForm DEF Pcs, Claimed, Working, Before
  <2>2. RowBecomes(r, task[r].state, task[r].started, task[r].cleanup)
    <3> DEFINE row == [task[r] EXCEPT !.key = TRUE]
    <3>1. /\ row \in TaskRows /\ row.state = task[r].state /\ row.started = task[r].started
          /\ row.cleanup = task[r].cleanup
      BY <1>3 DEF Types, TaskRows
    <3>2. task' = [task EXCEPT ![r] = row]
      BY <1>5
    <3> HIDE DEF row
    <3>3. QED
      BY <1>3, <3>1, <3>2, RowForm
  <2>3. StagingIsFaithful(p)'
    BY <1>1, <1>2, <1>3, <1>4, <2>1
    DEF RunOK, StagingIsFaithful, RunBecomes, Before, Staging, Staged
  <2>4. "cloning" \in Claimed /\ task[r].state \in Phases
    BY <1>2, <1>5 DEF Claimed, Working, Before, Updatable
  <2>5. QED
    BY <1>1, <1>2, <1>4, <1>5, <2>1, <2>2, <2>3, <2>4, UpdatesRow
<1>6. CASE (Fault \/ NoFault) /\ GiveUp(p, "abort", "clean") /\ UNCHANGED task
  BY <1>1, <1>4, <1>6, GiveUpStep
<1>7. QED
  BY <1>2, <1>5, <1>6 DEF SetTaskWorkspaceKey

(* The checkpoint of a phase, with which a run that has found nothing ends. *)
LEMMA ProgressStep ==
  ASSUME IInv, NEW p \in Processes, UpdateTaskProgress(p)
  PROVE  IInv'
<1>1. /\ run[p].pc \in {"cloning", "scanning", "validating templates", "committing", "cleaning"}
      /\ run[p].pc \in Working /\ run[p].pc \in Claimed
  BY NextSteps DEF UpdateTaskProgress, Claimed, Working, Before, Staging, Staged
<1>2. PICK r \in Requests : r = run[p].task
  BY <1>1, Claimer
<1>3. /\ Types /\ RunOK(p) /\ run[p] \in RunRows
  BY <1>1, <1>2, Claimer
<1>4. UNCHANGED <<catalog, candidates, told, dirs, queue, sweep, offer>>
  BY DEF UpdateTaskProgress
<1>5. ASSUME Updatable(p), task' = [task EXCEPT ![r].state = run[p].pc], NoFault,
             IF \/ run[p].pc = "scanning" /\ run[p].found = None
                \/ run[p].pc = "validating templates" /\ run[p].found = {}
             THEN GiveUp(p, "abort", "clean")
             ELSE Goto(p, NextStep[run[p].pc], run[p])
      PROVE  IInv'
  <2>1. run[p].pc \in Phases /\ task[r].state \in Phases
    BY <1>1, <1>2, <1>5 DEF Phases, Updatable
  <2>2. RowBecomes(r, run[p].pc, task[r].started, task[r].cleanup)
    <3> DEFINE row == [task[r] EXCEPT !.state = run[p].pc]
    <3>1. /\ row \in TaskRows /\ row.state = run[p].pc /\ row.started = task[r].started
          /\ row.cleanup = task[r].cleanup
      <4>1. task[r] \in TaskRows
        BY <1>3 DEF Types
      <4>2. QED
        BY <2>1, <4>1 DEF TaskRows
    <3>2. task' = [task EXCEPT ![r] = row]
      BY <1>5
    <3> HIDE DEF row
    <3>3. QED
      BY <1>3, <3>1, <3>2, RowForm
  <2>3. CASE /\ ~(run[p].pc = "scanning" /\ run[p].found = None)
             /\ Goto(p, NextStep[run[p].pc], run[p])
    <3> DEFINE pc == NextStep[run[p].pc]
    <3>1. pc \in Claimed /\ pc \in Pcs /\ pc \notin {"create", "promote", "fail", "mark"}
      BY <1>1, NextSteps DEF Pcs, Claimed, Working, Before, Staging, Staged
    <3>2. RunBecomes(p, pc, r, run[p].requested, run[p].found, run[p].cleanup)
      BY <1>2, <1>3, <2>3, <3>1, GotoForm
    <3>3. /\ run[p].pc = "cloning" => pc = "clone"
          /\ run[p].pc = "scanning" => pc = "validating templates"
          /\ run[p].pc = "validating templates" => pc = "stage"
          /\ run[p].pc = "committing" => pc = "cleaning"
          /\ run[p].pc = "cleaning" => pc = "clean"
      BY NextSteps
    <3> HIDE DEF pc
    <3>4. StagingIsFaithful(p)'
      BY <1>1, <1>2, <1>3, <1>4, <2>1, <2>3, <3>2, <3>3
      DEF RunOK, StagingIsFaithful, RunBecomes, Before, Staging, Staged
    <3>5. QED
      BY <1>1, <1>2, <1>4, <1>5, <2>1, <2>2, <3>1, <3>2, <3>4, UpdatesRow
  <2>4. CASE GiveUp(p, "abort", "clean")
    <3>1. "abort" \in Pcs /\ "abort" \in Claimed
      BY DEF Pcs, Claimed, Working
    <3>2. RunBecomes(p, "abort", r, run[p].requested, {}, "clean")
      BY <1>2, <1>3, <2>4, <3>1, GiveUpForm
    <3>3. StagingIsFaithful(p)'
      BY <3>2 DEF StagingIsFaithful, RunBecomes, Before, Staging, Staged
    <3>4. QED
      BY <1>1, <1>2, <1>4, <1>5, <2>1, <2>2, <3>1, <3>2, <3>3, UpdatesRow
  <2>5. QED
    BY <1>5, <2>3, <2>4
<1>6. CASE (Fault \/ NoFault) /\ GiveUp(p, "abort", "clean") /\ UNCHANGED task
  BY <1>1, <1>4, <1>6, GiveUpStep
<1>7. QED
  BY <1>2, <1>5, <1>6 DEF UpdateTaskProgress

LEMMA CloneStep ==
  ASSUME IInv, NEW p \in Processes, Clone(p)
  PROVE  IInv'
<1>1. run[p].pc = "clone" /\ run[p].pc \in Working /\ run[p].pc \in Claimed
  BY DEF Clone, Running, Claimed, Working, Before
<1>2. PICK r \in Requests : r = run[p].task
  BY <1>1, Claimer
<1>3. /\ Types /\ RunOK(p) /\ RowOK(r) /\ Alone(p, r) /\ task[r].started /\ run[p] \in RunRows
  BY <1>1, <1>2, Claimer
<1>4. UNCHANGED <<catalog, task, candidates, told, queue, sweep, offer>>
  BY DEF Clone
<1>5. CASE dirs' = dirs \cup {r} /\ Goto(p, "scan", run[p]) /\ NoFault
  <2>1. RunBecomes(p, "scan", r, run[p].requested, run[p].found, run[p].cleanup)
    BY <1>2, <1>3, <1>5, GotoForm DEF Pcs, Claimed, Working, Before
  <2>2. Types'
    BY <1>3, <1>4, <1>5, <2>1, TypesKept, FaultTypes DEF Types
  <2>3. task[r].cleanup = "pending" \/ task[r].state = "cancelled"
    BY <1>1, <1>2, <1>3 DEF RunOK, WorkspaceIsOwn
  <2>4. RowOK(r)'
    BY <1>3, <1>4, <1>5, <2>3 DEF RowOK
  <2>5. StagingIsFaithful(p)'
    BY <1>1, <1>2, <1>3, <1>4, <2>1 DEF RunOK, StagingIsFaithful, RunBecomes, Before, Staging, Staged
  <2>6. WorkspaceIsOwn(p)'
    BY <1>4, <2>1, <2>3 DEF WorkspaceIsOwn, RunBecomes
  <2>7. RunOK(p)'
    BY <1>2, <1>3, <1>4, <2>1, <2>5, <2>6 DEF RunOK, RunBecomes, Stopping
  <2>8. (Active(r)' => Active(r)) /\ Kept(r)
    BY <1>4 DEF Active, Kept, Stopping
  <2>9. QED
    BY <1>3, <1>4, <1>5, <2>1, <2>2, <2>4, <2>7, <2>8, RunStepKeeps DEF RunBecomes
<1>6. CASE (Fault \/ NoFault) /\ GiveUp(p, "abort", "clean") /\ UNCHANGED dirs
  BY <1>1, <1>4, <1>6, GiveUpStep
<1>7. QED
  BY <1>2, <1>5, <1>6 DEF Clone

(* What the checkout holds is found once, and nothing has been staged before. *)
LEMMA ScanStep ==
  ASSUME IInv, NEW p \in Processes, Scan(p)
  PROVE  IInv'
<1>1. run[p].pc = "scan" /\ run[p].pc \in Working /\ run[p].pc \in Claimed
  BY DEF Scan, Running, Claimed, Working, Before
<1>2. PICK r \in Requests : r = run[p].task
  BY <1>1, Claimer
<1>3. /\ Types /\ RunOK(p) /\ RowOK(r) /\ Alone(p, r) /\ task[r].started /\ run[p] \in RunRows
  BY <1>1, <1>2, Claimer
<1>4. UNCHANGED <<catalog, task, candidates, told, dirs, queue, sweep>>
  BY DEF Scan
<1>5. PICK found \in (SUBSET Templates) \cup {None} :
          /\ Goto(p, "scanning", [run[p] EXCEPT !.found = found])
          /\ \/ found \in SUBSET Templates /\ offer' = [offer EXCEPT ![r] = found]
             \/ found = None /\ UNCHANGED offer
          /\ Fault \/ NoFault
  BY <1>2 DEF Scan
<1>6. RunBecomes(p, "scanning", r, run[p].requested, found, run[p].cleanup)
  <2> DEFINE l == [run[p] EXCEPT !.found = found]
  <2>1. /\ l \in RunRows /\ l.task = r /\ l.requested = run[p].requested
        /\ l.found = found /\ l.cleanup = run[p].cleanup
    BY <1>2, <1>3 DEF RunRows
  <2>2. Goto(p, "scanning", l) /\ "scanning" \in Pcs
    BY <1>5 DEF Pcs, Claimed, Working
  <2> HIDE DEF l
  <2>3. QED
    BY <1>3, <2>1, <2>2, GotoForm
<1>7. /\ offer' \in [Requests -> SUBSET Templates]
      /\ \A s \in Requests : s # r => offer'[s] = offer[s]
      /\ found # None => offer'[r] = found /\ found \in SUBSET Templates
  BY <1>3, <1>5 DEF Types
<1>8. Types'
  BY <1>3, <1>4, <1>5, <1>6, <1>7, TypesKept, FaultTypes DEF Types
<1>9. RowOK(r)'
  BY <1>3, <1>4 DEF RowOK
<1>10. StagingIsFaithful(p)'
  <2>1. candidates[r] = {}
    BY <1>1, <1>2, <1>3 DEF RunOK, StagingIsFaithful, Before
  <2>2. QED
    BY <1>4, <1>6, <1>7, <2>1 DEF StagingIsFaithful, RunBecomes, Before, Staging, Staged
<1>11. RunOK(p)'
  <2>1. WorkspaceIsOwn(p)'
    BY <1>1, <1>2, <1>3, <1>4, <1>6 DEF RunOK, WorkspaceIsOwn, RunBecomes
  <2>2. QED
    BY <1>2, <1>3, <1>4, <1>6, <1>10, <2>1 DEF RunOK, RunBecomes, Stopping
<1>12. (Active(r)' => Active(r)) /\ Kept(r)
  BY <1>4 DEF Active, Kept, Stopping
<1>13. QED
  BY <1>3, <1>4, <1>6, <1>7, <1>8, <1>9, <1>11, <1>12, RunStepKeeps DEF RunBecomes

(* One template more among the candidates, one less to stage. *)
LEMMA StageStep ==
  ASSUME IInv, NEW p \in Processes, StageCandidate(p)
  PROVE  IInv'
<1>1. run[p].pc = "stage" /\ run[p].pc \in Working /\ run[p].pc \in Claimed
  BY DEF StageCandidate, Running, Claimed, Working, Staging
<1>2. PICK r \in Requests : r = run[p].task
  BY <1>1, Claimer
<1>3. /\ Types /\ RunOK(p) /\ RowOK(r) /\ Alone(p, r) /\ task[r].started /\ run[p] \in RunRows
  BY <1>1, <1>2, Claimer
<1>4. UNCHANGED <<catalog, task, told, dirs, queue, sweep, offer>>
  BY DEF StageCandidate
<1>5. ASSUME NEW t \in run[p].found, candidates' = [candidates EXCEPT ![r] = @ \cup {t}],
             Goto(p, IF run[p].found = {t} THEN "committing" ELSE "stage",
                     [run[p] EXCEPT !.found = @ \ {t}]), NoFault
      PROVE  IInv'
  <2> DEFINE pc == IF run[p].found = {t} THEN "committing" ELSE "stage"
             found == run[p].found \ {t}
  <2>1. run[p].found \in SUBSET Templates
        /\ (task[r].state \in Phases => candidates[r] \cup run[p].found = offer[r])
    BY <1>1, <1>2, <1>3 DEF RunOK, StagingIsFaithful, Staging
  <2>2. RunBecomes(p, pc, r, run[p].requested, found, run[p].cleanup)
    <3> DEFINE l == [run[p] EXCEPT !.found = @ \ {t}]
    <3>1. /\ l \in RunRows /\ l.task = r /\ l.requested = run[p].requested
          /\ l.found = found /\ l.cleanup = run[p].cleanup
      BY <1>2, <1>3, <2>1 DEF RunRows
    <3>2. Goto(p, pc, l) /\ pc \in Pcs
      BY <1>5 DEF Pcs, Claimed, Working, Staging, Staged
    <3> HIDE DEF l, pc, found
    <3>3. QED
      BY <1>3, <3>1, <3>2, GotoForm
  <2>3. /\ candidates' \in [Requests -> SUBSET Templates]
        /\ candidates'[r] = candidates[r] \cup {t}
        /\ \A s \in Requests : s # r => candidates'[s] = candidates[s]
    BY <1>3, <1>5, <2>1 DEF Types
  <2>4. Types'
    <3> HIDE DEF pc, found
    <3>1. QED
      BY <1>3, <1>4, <1>5, <2>2, <2>3, TypesKept, FaultTypes DEF Types
  <2>5. RowOK(r)'
    BY <1>3, <1>4 DEF RowOK
  <2>6. StagingIsFaithful(p)'
    <3>1. pc \in {"committing", "stage"} /\ (pc = "committing" => run[p].found = {t})
      OBVIOUS
    <3>2. candidates'[r] \cup found = candidates[r] \cup run[p].found
      BY <2>3
    <3>3. found \in SUBSET Templates /\ (pc = "committing" => found = {})
      BY <2>1
    <3> HIDE DEF pc, found
    <3>4. QED
      BY <1>4, <2>1, <2>2, <3>1, <3>2, <3>3
      DEF StagingIsFaithful, RunBecomes, Before, Staging, Staged
  <2>7. RunOK(p)'
    <3>1. pc \in {"committing", "stage"}
      OBVIOUS
    <3> HIDE DEF pc, found
    <3>2. WorkspaceIsOwn(p)'
      BY <1>1, <1>2, <1>3, <1>4, <2>2, <3>1 DEF RunOK, WorkspaceIsOwn, RunBecomes
    <3>3. QED
      BY <1>2, <1>3, <1>4, <2>2, <2>6, <3>1, <3>2 DEF RunOK, RunBecomes, Stopping
  <2>8. (Active(r)' => Active(r)) /\ Kept(r)
    BY <1>4 DEF Active, Kept, Stopping
  <2>9. \A q \in Processes : q # p => run'[q] = run[q]
    BY <2>2 DEF RunBecomes
  <2>10. run'[p].task = r
    BY <2>2 DEF RunBecomes
  <2> HIDE DEF pc, found
  <2>11. QED
    BY <1>3, <1>4, <2>3, <2>4, <2>5, <2>7, <2>8, <2>9, <2>10, RunStepKeeps
<1>6. CASE (Fault \/ NoFault) /\ GiveUp(p, "abort", "clean") /\ UNCHANGED candidates
  BY <1>1, <1>4, <1>6, GiveUpStep
<1>7. QED
  BY <1>2, <1>5, <1>6 DEF StageCandidate

LEMMA RemoveStep ==
  ASSUME IInv, NEW p \in Processes, RemoveWorkspace(p)
  PROVE  IInv'
<1>1. run[p].pc \in {"clean", "abort"} /\ run[p].pc \in Working /\ run[p].pc \in Claimed
  BY DEF RemoveWorkspace, Claimed, Working, Staged
<1>2. PICK r \in Requests : r = run[p].task
  BY <1>1, Claimer
<1>3. /\ Types /\ RunOK(p) /\ RowOK(r) /\ Alone(p, r) /\ task[r].started /\ run[p] \in RunRows
  BY <1>1, <1>2, Claimer
<1>4. UNCHANGED <<catalog, task, candidates, told, queue, sweep, offer>>
  BY DEF RemoveWorkspace
<1>5. PICK cleanup \in {"clean", "residual"} :
          /\ Fault \/ NoFault
          /\ dirs' = IF cleanup = "clean" THEN dirs \ {r} ELSE dirs
          /\ IF run[p].pc = "clean"
             THEN Goto(p, "promote", [run[p] EXCEPT !.cleanup = cleanup])
             ELSE GiveUp(p, "fail", cleanup)
  <2>1. PICK removed \in BOOLEAN :
            /\ Fault \/ NoFault
            /\ dirs' = IF removed THEN dirs \ {r} ELSE dirs
            /\ IF run[p].pc = "clean"
               THEN Goto(p, "promote", [run[p] EXCEPT !.cleanup = IF removed THEN "clean" ELSE "residual"])
               ELSE GiveUp(p, "fail", IF removed THEN "clean" ELSE "residual")
    BY <1>2 DEF RemoveWorkspace
  <2>2. CASE removed = TRUE
    BY <2>1, <2>2
  <2>3. CASE removed = FALSE
    BY <2>1, <2>3
  <2>4. QED
    BY <2>2, <2>3
<1>6. PICK pc, found :
          /\ pc \in {"promote", "fail"}
          /\ RunBecomes(p, pc, r, run[p].requested, found, cleanup)
          /\ pc = "promote" => run[p].pc = "clean"
  <2>1. "promote" \in Pcs /\ "fail" \in Pcs
    BY DEF Pcs, Claimed, Working, Staged
  <2>2. CASE run[p].pc = "clean"
    <3> DEFINE l == [run[p] EXCEPT !.cleanup = cleanup]
    <3>1. /\ l \in RunRows /\ l.task = r /\ l.requested = run[p].requested
          /\ l.cleanup = cleanup
      BY <1>2, <1>3 DEF RunRows
    <3>2. Goto(p, "promote", l)
      BY <1>5, <2>2
    <3> HIDE DEF l
    <3>3. RunBecomes(p, "promote", r, run[p].requested, l.found, cleanup)
      BY <1>3, <2>1, <3>1, <3>2, GotoForm
    <3>4. QED
      BY <2>2, <3>3
  <2>3. CASE run[p].pc # "clean"
    BY <1>2, <1>3, <1>5, <2>1, <2>3, GiveUpForm
  <2>4. QED
    BY <2>2, <2>3
<1>7. /\ dirs' \subseteq dirs /\ (cleanup = "clean" => r \notin dirs')
      /\ \A s \in Requests : s \in dirs' => s \in dirs
  BY <1>5
<1>8. Types'
  BY <1>3, <1>4, <1>5, <1>6, <1>7, TypesKept, FaultTypes DEF Types
<1>9. RowOK(r)'
  BY <1>3, <1>4, <1>7 DEF RowOK
<1>10. StagingIsFaithful(p)'
  BY <1>1, <1>2, <1>3, <1>4, <1>6
  DEF RunOK, StagingIsFaithful, RunBecomes, Before, Staging, Staged
<1>11. WorkspaceIsOwn(p)'
  BY <1>1, <1>2, <1>3, <1>4, <1>6, <1>7 DEF RunOK, WorkspaceIsOwn, RunBecomes
<1>12. RunOK(p)'
  BY <1>2, <1>3, <1>4, <1>6, <1>10, <1>11 DEF RunOK, RunBecomes, Stopping
<1>13. (Active(r)' => Active(r)) /\ Kept(r)
  BY <1>4 DEF Active, Kept, Stopping
<1>14. QED
  BY <1>3, <1>4, <1>6, <1>7, <1>8, <1>9, <1>12, <1>13, RunStepKeeps DEF RunBecomes

-----------------------------------------------------------------------------
(* The steps that end a task, and the way out                              *)

LEMMA EndedForm ==
  ASSUME Types, NEW r \in Requests, NEW outcome \in Outcomes, NEW cleanup \in {"clean", "residual"},
         Ended(r, outcome, cleanup)
  PROVE  RowBecomes(r, outcome, task[r].started, cleanup)
<1> DEFINE row == [task[r] EXCEPT !.state = outcome, !.lease = "none", !.cleanup = cleanup]
<1>1. /\ row \in TaskRows /\ row.state = outcome /\ row.started = task[r].started
      /\ row.cleanup = cleanup
  <2>1. task[r] \in TaskRows
    BY DEF Types
  <2>2. QED
    BY <2>1 DEF TaskRows
<1>2. task' = [task EXCEPT ![r] = row]
  BY DEF Ended
<1> HIDE DEF row
<1>3. QED
  BY <1>1, <1>2, RowForm

LEMMA ReplacedIs ==
  ASSUME Types, NEW T
  PROVE  Replaced(T) \in [Templates -> {"absent", "disabled", "enabled"}]
  BY DEF Replaced, Types

LEMMA PromoteStep ==
  ASSUME IInv, NEW p \in Processes, PromoteCandidates(p)
  PROVE  IInv'
<1>1. run[p].pc = "promote" /\ run[p].pc \in Working /\ run[p].pc \in Claimed
  BY DEF PromoteCandidates, Running, Claimed, Working, Staged
<1>2. PICK r \in Requests : r = run[p].task
  BY <1>1, Claimer
<1>3. /\ Types /\ RunOK(p) /\ RowOK(r) /\ Alone(p, r) /\ task[r].started /\ run[p] \in RunRows
      /\ run[p].cleanup \in {"clean", "residual"}
  BY <1>1, <1>2, Claimer DEF RunRows
<1>4. UNCHANGED <<candidates, dirs, queue, sweep, offer>> /\ (Fault \/ NoFault)
  BY DEF PromoteCandidates
<1>5. run[p].cleanup = "clean" => r \notin dirs
  BY <1>1, <1>2, <1>3 DEF RunOK, WorkspaceIsOwn
<1>6. CASE /\ Promotable(r) /\ catalog' = Replaced(candidates[r])
           /\ Ended(r, "succeeded", run[p].cleanup)
           /\ told' = told \cup {<<r, "succeeded">>}
           /\ End(p) \/ GiveUp(p, "fail", run[p].cleanup)
  <2>1. RowBecomes(r, "succeeded", task[r].started, run[p].cleanup)
    BY <1>3, <1>6, EndedForm DEF Outcomes
  <2>2. \/ RunBecomes(p, "idle", None, FALSE, {}, "clean")
        \/ RunBecomes(p, "fail", r, run[p].requested, {}, run[p].cleanup)
    BY <1>2, <1>3, <1>6, EndForm, GiveUpForm DEF End, Pcs, Claimed
  <2>3. told' \subseteq Requests \X Outcomes
    BY <1>3, <1>6 DEF Types, Outcomes
  <2>4. catalog' \in [Templates -> {"absent", "disabled", "enabled"}]
    BY <1>3, <1>6, ReplacedIs
  <2>5. Types'
    BY <1>3, <1>4, <2>1, <2>2, <2>3, <2>4, TypesKept, FaultTypes DEF Types, RowBecomes
  <2>6. RowOK(r)'
    BY <1>3, <1>4, <1>5, <2>1 DEF RowOK, RowBecomes, Outcomes
  <2>7. task[r].state \in Phases /\ ~Stopping(r) /\ ~run[p].requested
    BY <1>2, <1>3, <1>6 DEF Promotable, Phases, Stopping, RunOK
  <2>8. RunOK(p)'
    <3>1. CASE RunBecomes(p, "idle", None, FALSE, {}, "clean")
      BY <3>1, AtRest DEF RunBecomes
    <3>2. CASE RunBecomes(p, "fail", r, run[p].requested, {}, run[p].cleanup)
      <4>1. StagingIsFaithful(p)' /\ WorkspaceIsOwn(p)'
        BY <1>4, <1>5, <3>2
        DEF StagingIsFaithful, WorkspaceIsOwn, RunBecomes, Working, Before, Staging, Staged
      <4>2. QED
        BY <1>3, <2>1, <2>7, <3>2, <4>1 DEF RunOK, RunBecomes, RowBecomes
    <3>3. QED
      BY <2>2, <3>1, <3>2
  <2>9. (Active(r)' => Active(r)) /\ Kept(r)
    BY <2>1, <2>7 DEF Active, Kept, RowBecomes
  <2>10. /\ \A q \in Processes : q # p => run'[q] = run[q]
         /\ run'[p].pc \in Claimed => run'[p].task = r
    BY <2>2 DEF RunBecomes, Claimed, Working, Before, Staging, Staged
  <2>11. QED
    BY <1>3, <1>4, <1>6, <2>1, <2>5, <2>6, <2>8, <2>9, <2>10, RunStepKeeps DEF RowBecomes
<1>7. CASE GiveUp(p, "fail", run[p].cleanup) /\ UNCHANGED <<catalog, task, told>>
  BY <1>1, <1>2, <1>3, <1>4, <1>5, <1>7, GiveUpStep
<1>8. QED
  BY <1>2, <1>6, <1>7 DEF PromoteCandidates

LEMMA FailStep ==
  ASSUME IInv, NEW p \in Processes, Fail(p)
  PROVE  IInv'
<1>1. run[p].pc = "fail" /\ run[p].pc \in Claimed
  BY DEF Fail, Running, Claimed
<1>2. Types /\ RunOK(p) /\ run[p] \in RunRows /\ run[p].task \in Requests
  BY <1>1, Claimer
<1>3. UNCHANGED <<catalog, task, candidates, told, dirs, queue, sweep, offer>> /\ (Fault \/ NoFault)
  BY DEF Fail
<1>4. CASE CancelRequested(p) /\ Goto(p, "finish", run[p])
  BY <1>1, <1>3, <1>4, Leaves
<1>5. CASE Goto(p, "mark", run[p])
  <2>1. RunBecomes(p, "mark", run[p].task, run[p].requested, run[p].found, run[p].cleanup)
    BY <1>2, <1>5, GotoForm DEF Pcs, Claimed
  <2>2. Types'
    BY <1>2, <1>3, <2>1, TypesKept, FaultTypes DEF Types
  <2>3. run[p].cleanup = "clean" => run[p].task \notin dirs
    BY <1>1, <1>2 DEF RunOK, WorkspaceIsOwn
  <2>4. RunOK(p)'
    BY <1>1, <1>3, <2>1, <2>3, GivesUp
  <2>5. QED
    BY <1>1, <1>3, <2>1, <2>2, <2>4, RunMoves DEF RunBecomes
<1>6. QED
  BY <1>4, <1>5 DEF Fail

LEMMA DeletedCandidates ==
  ASSUME Types, NEW r \in Requests, DeleteCandidates(r) \/ candidates' = [candidates EXCEPT ![r] = {}]
  PROVE  /\ candidates' \in [Requests -> SUBSET Templates]
         /\ candidates'[r] = candidates[r] \/ candidates'[r] = {}
         /\ \A s \in Requests : s # r => candidates'[s] = candidates[s]
  BY DEF DeleteCandidates, Types

(* A failure is written only over a task that still runs. *)
LEMMA MarkStep ==
  ASSUME IInv, NEW p \in Processes, MarkTaskTerminal(p)
  PROVE  IInv'
<1>1. run[p].pc = "mark" /\ run[p].pc \in Claimed
  BY DEF MarkTaskTerminal, Running, Claimed
<1>2. PICK r \in Requests : r = run[p].task
  BY <1>1, Claimer
<1>3. /\ Types /\ RunOK(p) /\ RowOK(r) /\ Alone(p, r) /\ task[r].started /\ run[p] \in RunRows
      /\ run[p].cleanup \in {"clean", "residual"}
  BY <1>1, <1>2, Claimer DEF RunRows
<1>4. UNCHANGED <<catalog, dirs, queue, sweep, offer>> /\ (Fault \/ NoFault)
  BY DEF MarkTaskTerminal, DeleteCandidates
<1>5. run[p].cleanup = "clean" => r \notin dirs
  BY <1>1, <1>2, <1>3 DEF RunOK, WorkspaceIsOwn
<1>6. /\ candidates' \in [Requests -> SUBSET Templates]
      /\ \A s \in Requests : s # r => candidates'[s] = candidates[s]
  BY <1>2, <1>3, DeletedCandidates DEF MarkTaskTerminal
<1>7. /\ \/ Goto(p, "reread", run[p])
         \/ End(p)
      /\ \/ UNCHANGED task
         \/ task[r].state \in Phases /\ Ended(r, "failed", run[p].cleanup)
            /\ told' = told \cup {<<r, "failed">>}
      /\ told' = told \/ told' = told \cup {<<r, "failed">>}
  BY <1>2 DEF MarkTaskTerminal
<1>8. \/ RunBecomes(p, "reread", r, run[p].requested, run[p].found, run[p].cleanup)
      \/ RunBecomes(p, "idle", None, FALSE, {}, "clean")
  BY <1>2, <1>3, <1>7, EndForm, GotoForm DEF End, Pcs, Claimed
<1>9. \/ UNCHANGED task
      \/ /\ task[r].state \in Phases /\ RowBecomes(r, "failed", task[r].started, run[p].cleanup)
         /\ told' = told \cup {<<r, "failed">>}
  BY <1>3, <1>7, EndedForm DEF Outcomes
<1>10. told' \subseteq Requests \X Outcomes /\ told \subseteq told'
  BY <1>3, <1>7 DEF Types, Outcomes
<1>11. task' \in [Requests -> TaskRows] /\ \A s \in Requests : s # r => task'[s] = task[s]
  BY <1>3, <1>9 DEF RowBecomes, Types
<1>12. Types'
  BY <1>3, <1>4, <1>6, <1>8, <1>10, <1>11, TypesKept, FaultTypes DEF Types
<1>13. RowOK(r)'
  <2>1. CASE UNCHANGED task
    BY <1>3, <1>4, <1>10, <2>1 DEF RowOK
  <2>2. CASE RowBecomes(r, "failed", task[r].started, run[p].cleanup)
             /\ told' = told \cup {<<r, "failed">>}
    BY <1>3, <1>4, <1>5, <2>2 DEF RowOK, RowBecomes, Outcomes
  <2>3. QED
    BY <1>9, <2>1, <2>2
<1>14. (Active(r)' => Active(r)) /\ Kept(r)
  BY <1>9 DEF Active, Kept, Stopping, RowBecomes, Phases
<1>15. RunOK(p)'
  <2>1. CASE RunBecomes(p, "idle", None, FALSE, {}, "clean")
    BY <2>1, AtRest DEF RunBecomes
  <2>2. CASE RunBecomes(p, "reread", r, run[p].requested, run[p].found, run[p].cleanup)
    <3>1. StagingIsFaithful(p)' /\ WorkspaceIsOwn(p)'
      BY <2>2 DEF StagingIsFaithful, WorkspaceIsOwn, RunBecomes, Working, Before, Staging, Staged
    <3>2. task'[r].started /\ (run[p].requested => Stopping(r)')
      BY <1>2, <1>3, <1>14 DEF RunOK, Kept
    <3>3. QED
      BY <2>2, <3>1, <3>2 DEF RunOK, RunBecomes, Stopping
  <2>3. QED
    BY <1>8, <2>1, <2>2
<1>16. /\ \A q \in Processes : q # p => run'[q] = run[q]
       /\ run'[p].pc \in Claimed => run'[p].task = r
  BY <1>8 DEF RunBecomes, Claimed, Working, Before, Staging, Staged
<1>17. QED
  BY <1>3, <1>4, <1>6, <1>10, <1>11, <1>12, <1>13, <1>14, <1>15, <1>16, RunStepKeeps

LEMMA RereadStep ==
  ASSUME IInv, NEW p \in Processes, RereadTask(p)
  PROVE  IInv'
<1>1. run[p].pc # "idle"
  BY DEF RereadTask, Running
<1>2. UNCHANGED <<catalog, task, candidates, told, dirs, queue, sweep, offer>> /\ (Fault \/ NoFault)
  BY DEF RereadTask
<1>3. \/ run' = [run EXCEPT ![p] = NoRun]
      \/ CancelRequested(p) /\ Goto(p, "finish", run[p])
  BY DEF RereadTask, End, CancelRequested
<1>4. QED
  BY <1>1, <1>2, <1>3, Leaves

(* The cancellation may be finished by a run that never had the task. *)
LEMMA FinishStep ==
  ASSUME IInv, NEW p \in Processes, MarkTaskCancelled(p)
  PROVE  IInv'
<1>1. run[p].pc = "finish" /\ Types /\ RunOK(p)
  BY DEF MarkTaskCancelled, Running, IInv
<1>2. PICK r \in Requests : r = run[p].task
  BY <1>1, TaskOfRun
<1>3. RowOK(r) /\ Stopping(r) /\ run[p].cleanup \in {"clean", "residual"}
  BY <1>1, <1>2, TaskOfRun DEF IInv, RunOK
<1>4. UNCHANGED <<catalog, told, dirs, queue, sweep, offer>> /\ (Fault \/ NoFault)
      /\ candidates' = [candidates EXCEPT ![r] = {}]
  BY <1>2 DEF MarkTaskCancelled
<1>5. RunBecomes(p, "idle", None, FALSE, {}, "clean")
  BY <1>1, EndForm DEF MarkTaskCancelled, End
<1>6. \/ UNCHANGED task
      \/ RowBecomes(r, "cancelled", task[r].started, run[p].cleanup)
  BY <1>1, <1>2, <1>3, EndedForm DEF MarkTaskCancelled, Outcomes
<1>7. /\ candidates' \in [Requests -> SUBSET Templates] /\ candidates'[r] = {}
      /\ \A s \in Requests : s # r => candidates'[s] = candidates[s]
  BY <1>1, <1>2, <1>4 DEF Types
<1>8. task' \in [Requests -> TaskRows] /\ \A s \in Requests : s # r => task'[s] = task[s]
  BY <1>1, <1>6 DEF RowBecomes, Types
<1>9. Types'
  BY <1>1, <1>4, <1>5, <1>7, <1>8, TypesKept, FaultTypes DEF Types
<1>10. RowOK(r)'
  BY <1>3, <1>4, <1>6, <1>7 DEF RowOK, RowBecomes, Outcomes
<1>11. Kept(r)
  BY <1>6 DEF Kept, Stopping, RowBecomes
<1>12. Steady(r)
  BY <1>3, <1>4, <1>6, <1>7 DEF Steady, RowBecomes, Stopping, Phases
<1>13. Active(r)' => Active(r)
  BY <1>6 DEF Active, RowBecomes, Phases
<1>14. RunOK(p)'
  BY <1>5, AtRest DEF RunBecomes
<1>15. QED
  BY <1>4, <1>5, <1>7, <1>8, <1>9, <1>10, <1>11, <1>12, <1>13, <1>14, RunStepKeeps
  DEF RunBecomes, Claimed, Working, Before, Staging, Staged

-----------------------------------------------------------------------------
(* The watchers, interruptions and restarts                                *)

LEMMA RunForm ==
  ASSUME Types, NEW p \in Processes, NEW row \in RunRows, run' = [run EXCEPT ![p] = row]
  PROVE  RunBecomes(p, row.pc, row.task, row.requested, row.found, row.cleanup)
<1>1. run' \in [Processes -> RunRows] /\ run'[p] = row
      /\ \A q \in Processes : q # p => run'[q] = run[q]
  BY DEF Types
<1>2. QED
  BY <1>1 DEF RunBecomes

(* What ends the context of a run leaves it where it is. *)
LEMMA TouchedStep ==
  ASSUME IInv, NEW p \in Processes, NEW requested \in BOOLEAN,
         RunBecomes(p, run[p].pc, run[p].task, requested, run[p].found, run[p].cleanup),
         requested => run[p].requested \/ (run[p].task \in Requests /\ Stopping(run[p].task)),
         UNCHANGED <<catalog, task, candidates, told, dirs, queue, sweep, offer>>, Fault \/ NoFault
  PROVE  IInv'
<1>1. Types /\ RunOK(p) /\ run[p] \in RunRows
  BY DEF IInv, Types
<1>2. (run[p].pc = "idle" /\ ~requested) \/ run[p].task \in Requests
  BY <1>1 DEF Types
<1>3. run[p].task \in Requests \cup {None}
  BY <1>1 DEF RunRows
<1>4. Types'
  BY <1>1, <1>2, <1>3, TypesKept, FaultTypes DEF Types
<1>5. StagingIsFaithful(p)' /\ WorkspaceIsOwn(p)'
  BY <1>1 DEF RunOK, StagingIsFaithful, WorkspaceIsOwn, RunBecomes
<1>6. RunOK(p)'
  BY <1>1, <1>5 DEF RunOK, RunBecomes, Stopping
<1>7. QED
  BY <1>4, <1>6, RunMoves DEF RunBecomes

LEMMA WatcherSteps ==
  ASSUME IInv, NEW p \in Processes, WatchCancellation(p) \/ WatchLease(p) \/ Interrupt(p)
  PROVE  IInv'
<1>1. Types /\ run[p] \in RunRows /\ run[p].requested \in BOOLEAN
  BY DEF IInv, Types, RunRows
<1>2. UNCHANGED <<catalog, task, candidates, told, dirs, queue, sweep, offer>> /\ (Fault \/ NoFault)
  BY DEF WatchCancellation, WatchLease, Interrupt, NoFault
<1>3. CASE WatchCancellation(p)
  <2> DEFINE requested == run[p].requested \/ task[run[p].task].state = "cancelling"
  <2>1. requested \in BOOLEAN
        /\ (requested => run[p].requested \/ Stopping(run[p].task))
    <3>1. requested => run[p].requested \/ Stopping(run[p].task)
      BY DEF Stopping
    <3>2. requested \in BOOLEAN
      BY Zenon
    <3>3. QED
      BY <3>1, <3>2
  <2>2. run[p].task \in Requests
    <3>1. run[p].pc # "idle"
      BY <1>3, NextSteps DEF WatchCancellation, Watched
    <3>2. QED
      BY <1>1, <3>1 DEF Types
  <2>3. RunBecomes(p, run[p].pc, run[p].task, requested, run[p].found, run[p].cleanup)
    <3> DEFINE row == [run[p] EXCEPT !.live = FALSE,
                                     !.requested = requested]
    <3>1. /\ row \in RunRows /\ row.pc = run[p].pc /\ row.task = run[p].task
          /\ row.found = run[p].found /\ row.cleanup = run[p].cleanup
          /\ row.requested = requested
      <4> HIDE DEF requested
      <4>1. QED
        BY <1>1, <2>1 DEF RunRows
    <3>2. run' = [run EXCEPT ![p] = row]
      BY <1>3 DEF WatchCancellation
    <3> HIDE DEF row, requested
    <3>3. QED
      BY <1>1, <3>1, <3>2, RunForm
  <2> HIDE DEF requested
  <2>4. QED
    BY <1>2, <2>1, <2>2, <2>3, TouchedStep
<1>4. CASE WatchLease(p) \/ Interrupt(p)
  <2>1. RunBecomes(p, run[p].pc, run[p].task, run[p].requested, run[p].found, run[p].cleanup)
    <3> DEFINE row == [run[p] EXCEPT !.live = FALSE]
    <3>1. /\ row \in RunRows /\ row.pc = run[p].pc /\ row.task = run[p].task
          /\ row.requested = run[p].requested
          /\ row.found = run[p].found /\ row.cleanup = run[p].cleanup
      BY <1>1 DEF RunRows
    <3>2. run' = [run EXCEPT ![p] = row]
      BY <1>4 DEF WatchLease, Interrupt
    <3> HIDE DEF row
    <3>3. QED
      BY <1>1, <3>1, <3>2, RunForm
  <2>2. QED
    BY <1>1, <1>2, <2>1, TouchedStep
<1>5. QED
  BY <1>3, <1>4

LEMMA RestartStep ==
  ASSUME IInv, NEW p \in Processes, Restart(p)
  PROVE  IInv'
<1>1. Types
  BY DEF IInv
<1>2. UNCHANGED <<catalog, task, candidates, told, dirs, offer>> /\ Fault
  BY DEF Restart
<1>3. RunBecomes(p, "idle", None, FALSE, {}, "clean")
  BY <1>1, EndForm DEF Restart
<1>4. queue' \in [Processes -> SUBSET Requests] /\ sweep' \in [Processes -> SweepRows]
  BY <1>1, Blank DEF Restart, Types
<1>5. Types'
  BY <1>1, <1>2, <1>3, <1>4, TypesKept, FaultTypes DEF Types
<1>6. RunOK(p)'
  BY <1>3, AtRest DEF RunBecomes
<1>7. QED
  BY <1>2, <1>3, <1>5, <1>6, RunMoves DEF RunBecomes, Claimed, Working, Before, Staging, Staged

-----------------------------------------------------------------------------
(* Operators, leases and retention                                         *)

LEMMA RowTypes ==
  ASSUME Types, UNCHANGED <<run, offer>>,
         task' \in [Requests -> TaskRows], candidates' \in [Requests -> SUBSET Templates],
         told' \subseteq Requests \X Outcomes, dirs' \subseteq Requests,
         catalog' \in [Templates -> {"absent", "disabled", "enabled"}],
         queue' \in [Processes -> SUBSET Requests], sweep' \in [Processes -> SweepRows],
         faults' \in 0 .. MaxFaults
  PROVE  Types'
  BY DEF Types

LEMMA Unclaimed ==
  ASSUME IInv, NEW p, NEW r, ~task[r].started
  PROVE  Alone(p, r)
  BY DEF IInv, RunOK, Alone

(* The one slot is free when a task is made. *)
LEMMA CreateStep ==
  ASSUME IInv, NEW p \in Processes, NEW r \in Requests, CreateSync(p, r)
  PROVE  IInv'
<1>1. Types /\ RowOK(r) /\ UNCHANGED <<catalog, candidates, told, dirs, run, sweep, offer>>
  BY DEF IInv, CreateSync
<1>2. queue' \in [Processes -> SUBSET Requests] /\ faults' \in 0 .. MaxFaults
  <2>1. queue' \in [Processes -> SUBSET Requests]
    BY <1>1 DEF Types, CreateSync
  <2>2. QED
    BY <1>1, <2>1, FaultTypes DEF CreateSync
<1>3. CASE /\ task[r].state = "absent" /\ ActiveTask = {}
           /\ task' = [task EXCEPT ![r] = [@ EXCEPT !.state = "validating source",
                                                    !.lease = "fresh"]]
  <2>1. RowBecomes(r, "validating source", task[r].started, task[r].cleanup)
    <3> DEFINE row == [task[r] EXCEPT !.state = "validating source", !.lease = "fresh"]
    <3>1. /\ row \in TaskRows /\ row.state = "validating source"
          /\ row.started = task[r].started /\ row.cleanup = task[r].cleanup
      <4>1. task[r] \in TaskRows /\ "validating source" \in Phases
        BY <1>1 DEF Types, Phases
      <4>2. QED
        BY <4>1 DEF TaskRows
    <3>2. task' = [task EXCEPT ![r] = row]
      BY <1>3
    <3> HIDE DEF row
    <3>3. QED
      BY <1>1, <3>1, <3>2, RowForm
  <2>2. Types'
    BY <1>1, <1>2, <2>1, RowTypes DEF Types, RowBecomes
  <2>3. ~task[r].started /\ ~Stopping(r) /\ task[r].cleanup = "pending"
    BY <1>1, <1>3 DEF RowOK, Stopping, Outcomes
  <2>4. \A s \in Requests : Active(s)' => s = r
    BY <1>3, <2>1 DEF ActiveTask, Active, RowBecomes
  <2>5. OneActive'
    BY <2>4 DEF OneActive
  <2>6. RowOK(r)' /\ Kept(r) /\ Alone(None, r)
    <3>1. RowOK(r)'
      BY <1>1, <2>1, <2>3 DEF RowOK, RowBecomes, Outcomes
    <3>2. Kept(r)
      BY <2>1, <2>3 DEF Kept, RowBecomes
    <3>3. QED
      BY <2>3, <3>1, <3>2, Unclaimed
  <2>7. ASSUME NEW s \in Requests, s # r
        PROVE  RowOK(s)' /\ Kept(s) /\ Steady(s)
    <3>1. task'[s] = task[s]
      BY <2>1, <2>7 DEF RowBecomes
    <3>2. RowOK(s)'
      BY <1>1, <3>1 DEF IInv, RowOK
    <3>3. QED
      BY <1>1, <3>1, <3>2 DEF Kept, Steady, Stopping
  <2>8. None \notin Processes
    BY SyncAssumption
  <2>9. \A q \in Processes : q # None => run'[q] = run[q]
    BY <1>1
  <2>10. QED
    BY <2>2, <2>5, <2>6, <2>7, <2>8, <2>9, StepKeeps
<1>4. CASE UNCHANGED task
  <2>1. Types'
    BY <1>1, <1>2, <1>4, RowTypes DEF Types
  <2>2. OneActive' /\ \A s \in Requests : RowOK(s)' /\ Kept(s) /\ Steady(s)
    BY <1>1, <1>4 DEF IInv, OneActive, Active, RowOK, Kept, Steady, Stopping
  <2>3. QED
    BY <1>1, <2>1, <2>2, RowsMove
<1>5. QED
  BY <1>3, <1>4 DEF CreateSync

LEMMA CancelStep ==
  ASSUME IInv, NEW p \in Processes, NEW r \in Requests, CancelSync(p, r)
  PROVE  IInv'
<1>1. Types /\ RowOK(r) /\ task[r].state \in Phases
      /\ UNCHANGED <<catalog, candidates, told, dirs, queue, sweep, offer, faults>>
  BY DEF IInv, CancelSync
<1>2. RowBecomes(r, "cancelling", task[r].started, task[r].cleanup)
  <2> DEFINE lease == IF task[r].lease = "waited" THEN "fresh" ELSE task[r].lease
             row == [task[r] EXCEPT !.state = "cancelling", !.lease = lease]
  <2>1. /\ row \in TaskRows /\ row.state = "cancelling"
        /\ row.started = task[r].started /\ row.cleanup = task[r].cleanup
    <3>1. task[r] \in TaskRows
      BY <1>1 DEF Types
    <3>2. lease \in {"none", "fresh", "waited", "held", "lapsed"}
      BY <3>1 DEF TaskRows
    <3> HIDE DEF lease
    <3>3. QED
      BY <3>1, <3>2 DEF TaskRows
  <2>2. task' = [task EXCEPT ![r] = row]
    BY DEF CancelSync
  <2> HIDE DEF row
  <2>3. QED
    BY <1>1, <2>1, <2>2, RowForm
<1>3. RowOK(r)' /\ Kept(r) /\ Steady(r) /\ (Active(r)' => Active(r))
  <2>1. task[r].cleanup = "pending"
    BY <1>1 DEF RowOK, Phases, Outcomes
  <2>2. RowOK(r)'
    BY <1>1, <1>2, <2>1 DEF RowOK, RowBecomes, Phases, Outcomes
  <2>3. Kept(r) /\ Steady(r)
    BY <1>1, <1>2 DEF Kept, Steady, Stopping, RowBecomes, Phases
  <2>4. Active(r)' => Active(r)
    BY <1>1 DEF Active
  <2>5. QED
    BY <2>2, <2>3, <2>4
<1>4. ASSUME NEW s \in Requests, s # r
      PROVE  RowOK(s)' /\ Kept(s) /\ Steady(s) /\ (Active(s)' => Active(s))
  <2>1. task'[s] = task[s]
    BY <1>2, <1>4 DEF RowBecomes
  <2>2. RowOK(s)'
    BY <1>1, <2>1 DEF IInv, RowOK
  <2>3. QED
    BY <1>1, <2>1, <2>2 DEF Kept, Steady, Stopping, Active
<1>5. CASE run[p].task # r /\ UNCHANGED run
  <2>1. Types'
    BY <1>1, <1>2, <1>5, RowTypes DEF Types, RowBecomes
  <2>2. OneActive'
    BY <1>3, <1>4 DEF IInv, OneActive
  <2>3. QED
    BY <1>3, <1>4, <1>5, <2>1, <2>2, RowsMove
<1>6. ASSUME run[p].task = r,
             run' = [run EXCEPT ![p] = [@ EXCEPT !.requested = TRUE, !.live = FALSE]]
      PROVE  IInv'
  <2>1. RunBecomes(p, run[p].pc, r, TRUE, run[p].found, run[p].cleanup)
    <3> DEFINE row == [run[p] EXCEPT !.requested = TRUE, !.live = FALSE]
    <3>1. /\ row \in RunRows /\ row.pc = run[p].pc /\ row.task = r /\ row.requested = TRUE
          /\ row.found = run[p].found /\ row.cleanup = run[p].cleanup
      BY <1>1, <1>6 DEF Types, RunRows
    <3>2. run' = [run EXCEPT ![p] = row]
      BY <1>6
    <3> HIDE DEF row
    <3>3. QED
      BY <1>1, <3>1, <3>2, RunForm
  <2>2. Types'
    BY <1>1, <1>2, <2>1, TypesKept DEF Types, RowBecomes
  <2>3. RunOK(p)
    BY DEF IInv
  <2>4. StagingIsFaithful(p)'
    BY <1>1, <1>2, <1>6, <2>1, <2>3 DEF RunOK, StagingIsFaithful, RunBecomes, RowBecomes, Phases
  <2>5. WorkspaceIsOwn(p)'
    <3>1. task'[r].cleanup = "pending"
      BY <1>1, <1>2 DEF RowOK, RowBecomes, Phases, Outcomes
    <3>2. /\ run[p].pc = "create" => r \notin dirs
          /\ run[p].pc \in {"promote", "fail", "mark"} /\ run[p].cleanup = "clean" => r \notin dirs
      BY <1>6, <2>3 DEF RunOK, WorkspaceIsOwn
    <3>3. QED
      BY <1>1, <2>1, <3>1, <3>2 DEF WorkspaceIsOwn, RunBecomes
  <2>6. RunOK(p)'
    BY <1>2, <1>6, <2>1, <2>3, <2>4, <2>5 DEF RunOK, RunBecomes, RowBecomes, Stopping
  <2>7. run'[p].pc \in Claimed => run'[p].task = r /\ Alone(p, r)
    BY <1>6, <2>1, AloneWhen DEF RunBecomes
  <2>8. QED
    BY <1>1, <1>2, <1>3, <2>1, <2>2, <2>6, <2>7, RunStepKeeps DEF RunBecomes, RowBecomes
<1>7. QED
  BY <1>5, <1>6 DEF CancelSync

(* A step that leaves every row, but its lease, and every run as they are. *)
LEMMA SameRows ==
  ASSUME IInv, Types', UNCHANGED <<run, candidates, offer, dirs, told>>,
         \A r \in Requests : /\ task'[r].state = task[r].state
                             /\ task'[r].started = task[r].started
                             /\ task'[r].cleanup = task[r].cleanup
  PROVE  IInv'
<1>1. OneActive' /\ \A s \in Requests : RowOK(s)' /\ Kept(s) /\ Steady(s)
  BY DEF IInv, OneActive, Active, RowOK, Kept, Steady, Stopping
<1>2. QED
  BY <1>1, RowsMove

LEMMA SwitchedIs ==
  ASSUME Types, NEW T, NEW flag \in {"disabled", "enabled"}
  PROVE  Switched(T, flag) \in [Templates -> {"absent", "disabled", "enabled"}]
  BY DEF Switched, Types

LEMMA SwitchSteps ==
  ASSUME IInv, NEW T, NEW flag \in {"disabled", "enabled"}, catalog' = Switched(T, flag),
         UNCHANGED <<task, candidates, told, dirs, queue, run, sweep, offer, faults>>
  PROVE  IInv'
<1>1. Types
  BY DEF IInv
<1>2. catalog' \in [Templates -> {"absent", "disabled", "enabled"}]
  BY <1>1, SwitchedIs
<1>3. Types'
  BY <1>1, <1>2, RowTypes DEF Types
<1>4. QED
  BY <1>3, SameRows

LEMMA LeaseSteps ==
  ASSUME IInv, NEW r \in Requests, LeaseLapses(r) \/ WaitsUnclaimed(r)
  PROVE  IInv'
<1>1. Types /\ UNCHANGED <<catalog, candidates, told, dirs, queue, run, sweep, offer>>
  BY DEF IInv, LeaseLapses, WaitsUnclaimed
<1>2. PICK lease \in {"lapsed", "waited"} : task' = [task EXCEPT ![r] = [task[r] EXCEPT !.lease = lease]]
  BY DEF LeaseLapses, WaitsUnclaimed
<1>3. RowBecomes(r, task[r].state, task[r].started, task[r].cleanup)
  <2> DEFINE row == [task[r] EXCEPT !.lease = lease]
  <2>1. /\ row \in TaskRows /\ row.state = task[r].state
        /\ row.started = task[r].started /\ row.cleanup = task[r].cleanup
    BY <1>1 DEF Types, TaskRows
  <2>2. task' = [task EXCEPT ![r] = row]
    BY <1>2
  <2> HIDE DEF row
  <2>3. QED
    BY <1>1, <2>1, <2>2, RowForm
<1>4. faults' \in 0 .. MaxFaults
  <2>1. Fault \/ NoFault
    BY DEF LeaseLapses, WaitsUnclaimed, NoFault
  <2>2. QED
    BY <1>1, <2>1, FaultTypes
<1>5. Types'
  BY <1>1, <1>3, <1>4, RowTypes DEF Types, RowBecomes
<1>6. QED
  BY <1>1, <1>3, <1>5, SameRows DEF RowBecomes

(* The recovery ends what it finds interrupted, as cancelled or as failed. *)
LEMMA RecoverEffect ==
  ASSUME Types, NEW p \in Processes, RecoverInterruptedTasks(p),
         ~UNCHANGED <<task, candidates, told>>
  PROVE  /\ task' \in [Requests -> TaskRows] /\ candidates' \in [Requests -> SUBSET Templates]
         /\ told' = told \cup {<<r, "failed">> : r \in {s \in Requests : Interrupted(s) /\ task[s].state # "cancelling"}}
         /\ \A r \in Requests :
               \/ ~Interrupted(r) /\ task'[r] = task[r] /\ candidates'[r] = candidates[r]
               \/ /\ Interrupted(r) /\ candidates'[r] = {}
                  /\ task'[r].started = task[r].started
                  /\ \/ task[r].state = "cancelling" /\ task'[r].state = "cancelled"
                     \/ /\ task[r].state # "cancelling" /\ task'[r].state = "failed"
                        /\ task'[r].cleanup = task[r].cleanup
<1> DEFINE lost == {r \in Requests : Interrupted(r)}
           gone(r) == [task[r] EXCEPT !.state = "cancelled", !.lease = "none",
                                      !.cleanup = CleanupOf(task[r].key)]
           failed(r) == [task[r] EXCEPT !.state = "failed", !.lease = "none"]
<1>1. /\ task' = [r \in Requests |-> IF r \notin lost THEN task[r]
                                     ELSE IF task[r].state = "cancelling" THEN gone(r) ELSE failed(r)]
      /\ candidates' = [r \in Requests |-> IF r \in lost THEN {} ELSE candidates[r]]
      /\ told' = told \cup {<<r, "failed">> : r \in {s \in lost : task[s].state # "cancelling"}}
  BY DEF RecoverInterruptedTasks
<1>2. \A r \in Requests :
          /\ gone(r) \in TaskRows /\ gone(r).state = "cancelled" /\ gone(r).started = task[r].started
          /\ failed(r) \in TaskRows /\ failed(r).state = "failed"
          /\ failed(r).started = task[r].started /\ failed(r).cleanup = task[r].cleanup
  <2> TAKE r \in Requests
  <2>1. task[r] \in TaskRows /\ {"cancelled", "failed"} \subseteq Outcomes
        /\ CleanupOf(task[r].key) \in {"clean", "residual"}
    BY CleanupIs DEF Types, Outcomes
  <2>2. QED
    BY <2>1 DEF TaskRows
<1> HIDE DEF gone, failed
<1>3. \A r \in Requests : task[r] \in TaskRows /\ candidates[r] \in SUBSET Templates
  BY DEF Types
<1>4. task' \in [Requests -> TaskRows] /\ candidates' \in [Requests -> SUBSET Templates]
  BY <1>1, <1>2, <1>3
<1>5. {s \in lost : task[s].state # "cancelling"} =
          {s \in Requests : Interrupted(s) /\ task[s].state # "cancelling"}
  OBVIOUS
<1>6. ASSUME NEW r \in Requests
      PROVE  \/ ~Interrupted(r) /\ task'[r] = task[r] /\ candidates'[r] = candidates[r]
             \/ /\ Interrupted(r) /\ candidates'[r] = {}
                /\ task'[r].started = task[r].started
                /\ \/ task[r].state = "cancelling" /\ task'[r].state = "cancelled"
                   \/ /\ task[r].state # "cancelling" /\ task'[r].state = "failed"
                      /\ task'[r].cleanup = task[r].cleanup
  <2>1. r \in lost <=> Interrupted(r)
    OBVIOUS
  <2> HIDE DEF lost
  <2>2. QED
    BY <1>1, <1>2, <2>1
<1>7. QED
  BY <1>1, <1>4, <1>5, <1>6

LEMMA RecoverStep ==
  ASSUME IInv, NEW p \in Processes, RecoverInterruptedTasks(p)
  PROVE  IInv'
<1>1. Types /\ UNCHANGED <<catalog, dirs, queue, run, offer>> /\ (Fault \/ NoFault)
  BY DEF IInv, RecoverInterruptedTasks
<1>2. sweep' \in [Processes -> SweepRows]
  <2>1. [sweep[p] EXCEPT !.pc = "expire"] \in SweepRows
    BY <1>1 DEF Types, SweepRows
  <2>2. sweep' = [sweep EXCEPT ![p] = [sweep[p] EXCEPT !.pc = "expire"]]
    BY DEF RecoverInterruptedTasks
  <2>3. QED
    BY <1>1, <2>1, <2>2 DEF Types
<1>3. CASE UNCHANGED <<task, candidates, told>>
  <2>1. Types'
    BY <1>1, <1>2, <1>3, RowTypes, FaultTypes DEF Types
  <2>2. QED
    BY <1>1, <1>3, <2>1, SameRows
<1>4. CASE ~UNCHANGED <<task, candidates, told>>
  <2>1. /\ task' \in [Requests -> TaskRows] /\ candidates' \in [Requests -> SUBSET Templates]
        /\ told' = told \cup {<<r, "failed">> : r \in {s \in Requests : Interrupted(s) /\ task[s].state # "cancelling"}}
    BY <1>1, <1>4, RecoverEffect
  <2>2. told' \subseteq Requests \X Outcomes /\ told \subseteq told'
    BY <1>1, <2>1 DEF Types, Outcomes
  <2>3. Types'
    BY <1>1, <1>2, <2>1, <2>2, RowTypes, FaultTypes DEF Types
  <2>4. ASSUME NEW r \in Requests
        PROVE  RowOK(r)' /\ Kept(r) /\ Steady(r) /\ (Active(r)' => Active(r))
    <3>1. CASE ~Interrupted(r) /\ task'[r] = task[r] /\ candidates'[r] = candidates[r]
      <4>1. RowOK(r)'
        BY <1>1, <2>2, <3>1 DEF IInv, RowOK
      <4>2. QED
        BY <1>1, <3>1, <4>1 DEF Kept, Steady, Stopping, Active
    <3>2. CASE /\ Interrupted(r) /\ candidates'[r] = {}
               /\ task'[r].started = task[r].started
               /\ \/ task[r].state = "cancelling" /\ task'[r].state = "cancelled"
                  \/ /\ task[r].state # "cancelling" /\ task'[r].state = "failed"
                     /\ task'[r].cleanup = task[r].cleanup
      <4>1. RowOK(r) /\ Active(r)
        BY <3>2 DEF IInv, Interrupted
      <4>2. task[r].state \notin Outcomes /\ task[r].cleanup = "pending"
        BY <4>1 DEF RowOK, Active, Phases, Outcomes
      <4>3. task'[r].state = "failed" => <<r, "failed">> \in told'
        BY <2>1, <3>2
      <4>4. RowOK(r)'
        BY <1>1, <3>2, <4>1, <4>2, <4>3 DEF RowOK, Outcomes
      <4>5. Kept(r) /\ Steady(r)
        BY <1>1, <3>2, <4>2 DEF Kept, Steady, Stopping, Phases, Outcomes
      <4>6. QED
        BY <4>1, <4>4, <4>5
    <3>3. QED
      BY <1>1, <1>4, <3>1, <3>2, RecoverEffect
  <2>5. OneActive'
    BY <2>4 DEF IInv, OneActive
  <2>6. QED
    BY <1>1, <2>3, <2>4, <2>5, RowsMove
<1>5. QED
  BY <1>3, <1>4

LEMMA ExpireStep ==
  ASSUME IInv, NEW p \in Processes, ExpireAndProtect(p)
  PROVE  IInv'
<1>1. Types /\ UNCHANGED <<catalog, task, told, dirs, queue, run, offer>> /\ (Fault \/ NoFault)
  BY DEF IInv, ExpireAndProtect
<1>2. PICK S \in SUBSET {r \in Requests : Terminal(r)} :
          candidates' = [r \in Requests |-> IF r \in S THEN {} ELSE candidates[r]]
  BY DEF ExpireAndProtect
<1>3. \A r \in Requests : candidates[r] \in SUBSET Templates
  BY <1>1 DEF Types
<1>4. candidates' \in [Requests -> SUBSET Templates]
  BY <1>2, <1>3
<1>5. sweep' \in [Processes -> SweepRows]
  <2>1. PICK kept \in {{}, {r \in Requests : Active(r) /\ task[r].key}} :
            sweep' = [sweep EXCEPT ![p] = [pc |-> "remove", kept |-> kept]]
    BY DEF ExpireAndProtect
  <2>2. [pc |-> "remove", kept |-> kept] \in SweepRows
    BY <2>1 DEF SweepRows
  <2>3. QED
    BY <1>1, <2>1, <2>2 DEF Types
<1>6. Types'
  BY <1>1, <1>4, <1>5, RowTypes, FaultTypes DEF Types
<1>7. ASSUME NEW r \in Requests
      PROVE  RowOK(r)' /\ Kept(r) /\ Steady(r)
  <2>1. /\ candidates'[r] = candidates[r] \/ candidates'[r] = {}
        /\ task[r].state \in Phases => candidates'[r] = candidates[r]
    BY <1>2 DEF Terminal, Phases, Outcomes
  <2>2. RowOK(r)'
    BY <1>1, <2>1 DEF IInv, RowOK
  <2>3. QED
    BY <1>1, <2>1, <2>2 DEF Kept, Steady, Stopping
<1>8. OneActive'
  BY <1>1 DEF IInv, OneActive, Active
<1>9. QED
  BY <1>1, <1>6, <1>7, <1>8, RowsMove

LEMMA RemoveResidualsStep ==
  ASSUME IInv, NEW p \in Processes, RemoveResiduals(p)
  PROVE  IInv'
<1>1. Types /\ UNCHANGED <<catalog, task, candidates, told, queue, run, offer>> /\ (Fault \/ NoFault)
      /\ dirs' \subseteq dirs
  BY DEF IInv, RemoveResiduals
<1>2. sweep' \in [Processes -> SweepRows]
  BY <1>1, Blank DEF RemoveResiduals, Types
<1>3. Types'
  BY <1>1, <1>2, RowTypes, FaultTypes DEF Types
<1>4. \A r \in Requests : RowOK(r)' /\ Kept(r) /\ Steady(r)
  BY <1>1 DEF IInv, RowOK, Kept, Steady, Stopping
<1>5. OneActive'
  BY <1>1 DEF IInv, OneActive, Active
<1>6. QED
  BY <1>1, <1>3, <1>4, <1>5, RowsMove

-----------------------------------------------------------------------------
(* The invariant                                                           *)

LEMMA IInvInit == Init => IInv
<1> SUFFICES ASSUME Init PROVE IInv
  OBVIOUS
<1>1. \A p \in Processes : run[p].pc = "idle" /\ ~run[p].requested
  BY DEF Init, NoRun
<1>2. \A r \in Requests :
          /\ task[r].state = "absent" /\ ~task[r].started /\ task[r].cleanup = "pending"
          /\ candidates[r] = {} /\ offer[r] = {} /\ r \notin dirs
  BY DEF Init, NoTask
<1>3. Types
  <2>1. task \in [Requests -> TaskRows] /\ run \in [Processes -> RunRows]
        /\ sweep \in [Processes -> SweepRows]
    BY Blank DEF Init
  <2>2. faults \in 0 .. MaxFaults
    BY SyncAssumption DEF Init
  <2>3. QED
    BY <1>1, <2>1, <2>2 DEF Init, Types
<1>4. OneActive
  BY <1>2 DEF OneActive, Active, Phases
<1>5. ClaimsAreAlone
  BY <1>1 DEF ClaimsAreAlone, Claimed, Working, Before, Staging, Staged
<1>6. \A r \in Requests : RowOK(r)
  BY <1>2 DEF RowOK, Outcomes
<1>7. \A p \in Processes : RunOK(p)
  BY <1>1 DEF RunOK, StagingIsFaithful, WorkspaceIsOwn, Claimed, Working, Before, Staging, Staged
<1>8. QED
  BY <1>3, <1>4, <1>5, <1>6, <1>7 DEF IInv

LEMMA IInvStep == IInv /\ [Next]_vars => IInv'
<1> SUFFICES ASSUME IInv, [Next]_vars PROVE IInv'
  OBVIOUS
<1>1. CASE \E p \in Processes, r \in Requests :
               <<p, r>> \in Reaches /\ (CreateSync(p, r) \/ CancelSync(p, r))
  BY <1>1, CreateStep, CancelStep
<1>2. CASE \/ \E t \in Templates, flag \in {"disabled", "enabled"} : UpdatePOCEnabled(t, flag)
           \/ \E T \in SUBSET Templates \ {{}}, flag \in {"disabled", "enabled"} :
                  SetPOCActivation(T, flag)
  BY <1>2, SwitchSteps DEF UpdatePOCEnabled, SetPOCActivation
<1>3. CASE \E p \in Processes : RunStep(p)
  BY <1>3, BeginStep, ReadStep, ClaimStep, CreateWorkspaceStep, SetKeyStep, ProgressStep,
     CloneStep, ScanStep, StageStep, RemoveStep, PromoteStep, FailStep, MarkStep, RereadStep,
     FinishStep DEF RunStep
<1>4. CASE \E p \in Processes :
               WatchCancellation(p) \/ WatchLease(p) \/ Interrupt(p) \/ Restart(p)
  BY <1>4, WatcherSteps, RestartStep
<1>5. CASE \E p \in Sweepers : SweepStep(p)
  BY <1>5, SyncAssumption, RecoverStep, ExpireStep, RemoveResidualsStep DEF SweepStep
<1>6. CASE \E r \in Requests : LeaseLapses(r) \/ WaitsUnclaimed(r)
  BY <1>6, LeaseSteps
<1>7. CASE UNCHANGED vars
  <2>1. UNCHANGED <<catalog, task, candidates, told, dirs, queue, run, sweep, offer, faults>>
    BY <1>7 DEF vars
  <2>2. Types'
    BY <2>1 DEF IInv, Types
  <2>3. QED
    BY <2>1, <2>2, SameRows
<1>8. QED
  BY <1>1, <1>2, <1>3, <1>4, <1>5, <1>6, <1>7 DEF Next

(* The inductive invariant holds of every instance. *)
THEOREM SyncInvariance == Spec => []IInv
  BY IInvInit, IInvStep, PTL DEF Spec

(* Tables, queues, runs and retention jobs keep their types, and a run that is
   under way has a task, however claims, cancellations and restarts meet. *)
THEOREM SyncTypeCorrectness == Spec => []Types
<1>1. IInv => Types
  BY DEF IInv
<1>2. QED
  BY <1>1, SyncInvariance, PTL

(* A task that ended as failed or succeeded and is called clean has no
   workspace, although its run ends in one of a dozen ways and retention,
   recovery and other processes share the workspace root. *)
THEOREM CleanMeansClean == Spec => []CleanRunsLeaveNothing
<1>1. IInv => CleanRunsLeaveNothing
  BY DEF IInv, RowOK, CleanRunsLeaveNothing
<1>2. QED
  BY <1>1, SyncInvariance, PTL

-----------------------------------------------------------------------------
(* The refinement of TemplateCatalog                                       *)

LEMMA PhaseIs ==
  ASSUME NEW r
  PROVE  /\ task[r].state = "absent" => PhaseOf(r) = "none"
         /\ task[r].state \in Phases => PhaseOf(r) = "open"
         /\ task[r].state = "cancelling" => PhaseOf(r) = "stopping"
         /\ task[r].state \in Outcomes => PhaseOf(r) = task[r].state
  BY DEF PhaseOf, Phases, Outcomes

LEMMA PhaseBecomes ==
  ASSUME NEW r
  PROVE  /\ task'[r].state = "absent" => PhaseOf(r)' = "none"
         /\ task'[r].state \in Phases => PhaseOf(r)' = "open"
         /\ task'[r].state = "cancelling" => PhaseOf(r)' = "stopping"
         /\ task'[r].state \in Outcomes => PhaseOf(r)' = task'[r].state
  BY DEF PhaseOf, Phases, Outcomes

LEMMA PhaseStays ==
  ASSUME NEW r, task'[r].state = task[r].state
  PROVE  PhaseOf(r)' = PhaseOf(r)
  BY DEF PhaseOf

(* One sync moves on. *)
LEMMA PhaseStep ==
  ASSUME NEW r \in Requests, NEW to, PhaseOf(r)' = to,
         \A s \in Requests : s # r => task'[s].state = task[s].state
  PROVE  /\ [s \in Requests |-> PhaseOf(s)]' = [[s \in Requests |-> PhaseOf(s)] EXCEPT ![r] = to]
         /\ [s \in Requests |-> PhaseOf(s)][r] = PhaseOf(r)
  BY PhaseStays

LEMMA NoPhaseStep ==
  ASSUME \A r \in Requests : PhaseOf(r)' = PhaseOf(r)
  PROVE  [r \in Requests |-> PhaseOf(r)]' = [r \in Requests |-> PhaseOf(r)]
  OBVIOUS

LEMMA Stutters ==
  ASSUME UNCHANGED <<catalog, offer, told>>,
         \A r \in Requests : task'[r].state = task[r].state
  PROVE  [Abstract!CatalogNext]_(Abstract!catalogVars)
<1>1. \A r \in Requests : PhaseOf(r)' = PhaseOf(r)
  BY PhaseStays
<1>2. [r \in Requests |-> PhaseOf(r)]' = [r \in Requests |-> PhaseOf(r)]
  BY <1>1, NoPhaseStep
<1>3. QED
  BY <1>2 DEF Abstract!catalogVars

LEMMA QuietIs ==
  ASSUME Types, ActiveTask = {}
  PROVE  Abstract!Quiet
<1>1. \A r \in Requests : PhaseOf(r) \notin {"open", "stopping"}
  <2> TAKE r \in Requests
  <2>1. task[r].state \in {"absent"} \cup Outcomes
    BY DEF Types, TaskRows, ActiveTask, Active
  <2>2. QED
    BY <2>1, PhaseIs DEF Outcomes
<1>2. QED
  BY <1>1 DEF Abstract!Quiet

(* A sync that is open is lost, or one that stops has stopped. *)
LEMMA LoseRefines ==
  ASSUME NEW r \in Requests, task[r].state \in Phases, task'[r].state = "failed",
         \A s \in Requests : s # r => task'[s].state = task[s].state,
         told' = told \cup {<<r, "failed">>}, UNCHANGED <<catalog, offer>>
  PROVE  Abstract!CatalogNext
<1>1. PhaseOf(r) = "open" /\ PhaseOf(r)' = "failed"
  BY PhaseIs, PhaseBecomes DEF Outcomes
<1>2. Abstract!Lose(r)
  BY <1>1, PhaseStep DEF Abstract!Lose
<1>3. QED
  BY <1>2 DEF Abstract!CatalogNext

LEMMA StoppedRefines ==
  ASSUME NEW r \in Requests, task[r].state = "cancelling", task'[r].state = "cancelled",
         \A s \in Requests : s # r => task'[s].state = task[s].state,
         UNCHANGED <<catalog, offer, told>>
  PROVE  Abstract!CatalogNext
<1>1. PhaseOf(r) = "stopping" /\ PhaseOf(r)' = "cancelled"
  BY PhaseIs, PhaseBecomes DEF Outcomes
<1>2. Abstract!Stopped(r)
  BY <1>1, PhaseStep DEF Abstract!Stopped
<1>3. QED
  BY <1>2 DEF Abstract!CatalogNext

LEMMA CreateRefines ==
  ASSUME IInv, NEW p \in Processes, NEW r \in Requests, CreateSync(p, r)
  PROVE  [Abstract!CatalogNext]_(Abstract!catalogVars)
<1>1. Types /\ UNCHANGED <<catalog, told, offer>>
  BY DEF IInv, CreateSync
<1>2. CASE UNCHANGED task
  BY <1>1, <1>2, Stutters
<1>3. CASE /\ task[r].state = "absent" /\ ActiveTask = {}
           /\ task' = [task EXCEPT ![r] = [@ EXCEPT !.state = "validating source",
                                                    !.lease = "fresh"]]
  <2>1. task[r] \in TaskRows
    BY <1>1 DEF Types
  <2>2. /\ task'[r].state = "validating source"
        /\ \A s \in Requests : s # r => task'[s].state = task[s].state
    BY <1>1, <1>3, <2>1 DEF Types, TaskRows
  <2>3. PhaseOf(r) = "none" /\ PhaseOf(r)' = "open"
    BY <1>3, <2>2, PhaseIs, PhaseBecomes DEF Phases
  <2>4. Abstract!Quiet
    BY <1>1, <1>3, QuietIs
  <2>5. Abstract!Open(r)
    BY <1>1, <2>2, <2>3, <2>4, PhaseStep DEF Abstract!Open
  <2>6. QED
    BY <2>5 DEF Abstract!CatalogNext
<1>4. QED
  BY <1>2, <1>3 DEF CreateSync

LEMMA CancelRefines ==
  ASSUME IInv, NEW p \in Processes, NEW r \in Requests, CancelSync(p, r)
  PROVE  Abstract!CatalogNext
<1>1. Types /\ UNCHANGED <<catalog, told, offer>> /\ task[r].state \in Phases
  BY DEF IInv, CancelSync
<1>2. task[r] \in TaskRows
  BY <1>1 DEF Types
<1>3. /\ task'[r].state = "cancelling"
      /\ \A s \in Requests : s # r => task'[s].state = task[s].state
  BY <1>1, <1>2 DEF CancelSync, Types, TaskRows
<1>4. PhaseOf(r) = "open" /\ PhaseOf(r)' = "stopping"
  BY <1>1, <1>3, PhaseIs, PhaseBecomes
<1>5. Abstract!Stop(r)
  BY <1>1, <1>3, <1>4, PhaseStep DEF Abstract!Stop
<1>6. QED
  BY <1>5 DEF Abstract!CatalogNext

LEMMA SwitchRefines ==
  ASSUME IInv,
         \/ \E t \in Templates, flag \in {"disabled", "enabled"} : UpdatePOCEnabled(t, flag)
         \/ \E T \in SUBSET Templates \ {{}}, flag \in {"disabled", "enabled"} :
                SetPOCActivation(T, flag)
  PROVE  Abstract!CatalogNext
<1>1. Types
  BY DEF IInv
<1>2. UNCHANGED <<task, offer, told>>
  BY DEF UpdatePOCEnabled, SetPOCActivation
<1>3. [r \in Requests |-> PhaseOf(r)]' = [r \in Requests |-> PhaseOf(r)]
  BY <1>2, PhaseStays, NoPhaseStep
<1>4. ASSUME NEW t \in Templates, NEW flag \in {"disabled", "enabled"}, UpdatePOCEnabled(t, flag)
      PROVE  Abstract!CatalogNext
  <2>1. Abstract!Switch(t, flag)
    BY <1>2, <1>3, <1>4 DEF Abstract!Switch, Abstract!Switched, UpdatePOCEnabled, Switched
  <2>2. QED
    BY <2>1 DEF Abstract!CatalogNext
<1>5. ASSUME NEW T \in SUBSET Templates, NEW flag \in {"disabled", "enabled"},
             SetPOCActivation(T, flag)
      PROVE  Abstract!CatalogNext
  <2>1. Abstract!Quiet
    BY <1>1, <1>5, QuietIs DEF SetPOCActivation
  <2>2. Abstract!SwitchMany(T, flag)
    BY <1>2, <1>3, <1>5, <2>1
    DEF Abstract!SwitchMany, Abstract!Switched, SetPOCActivation, Switched
  <2>3. QED
    BY <2>2 DEF Abstract!CatalogNext
<1>6. QED
  BY <1>4, <1>5

(* The checkout is looked at once. *)
LEMMA ScanRefines ==
  ASSUME IInv, NEW p \in Processes, Scan(p)
  PROVE  [Abstract!CatalogNext]_(Abstract!catalogVars)
<1>1. run[p].pc = "scan" /\ run[p].pc \in Claimed
  BY DEF Scan, Running, Claimed, Working, Before
<1>2. PICK r \in Requests : r = run[p].task
  BY <1>1, Claimer
<1>3. Types /\ RunOK(p) /\ RowOK(r) /\ task[r].started
  BY <1>1, <1>2, Claimer
<1>4. UNCHANGED <<catalog, task, told>>
  BY DEF Scan
<1>5. CASE UNCHANGED offer
  BY <1>4, <1>5, Stutters
<1>6. CASE \E T \in SUBSET Templates : offer' = [offer EXCEPT ![r] = T]
  <2>1. offer[r] = {}
    BY <1>1, <1>2, <1>3 DEF RunOK, StagingIsFaithful, Before
  <2>2. task[r].state # "absent"
    BY <1>3 DEF RowOK
  <2>3. PhaseOf(r) # "none"
    BY <1>3, <2>2, PhaseIs DEF Types, TaskRows, Outcomes
  <2>4. [s \in Requests |-> PhaseOf(s)]' = [s \in Requests |-> PhaseOf(s)]
    BY <1>4, PhaseStays, NoPhaseStep
  <2>5. [s \in Requests |-> PhaseOf(s)][r] # "none"
    BY <2>3
  <2>6. Abstract!Validate(r)
    BY <1>4, <1>6, <2>1, <2>4, <2>5 DEF Abstract!Validate
  <2>7. QED
    BY <2>6 DEF Abstract!CatalogNext
<1>7. QED
  BY <1>2, <1>5, <1>6 DEF Scan

(* What is installed is what the checkout held. *)
LEMMA PromoteRefines ==
  ASSUME IInv, NEW p \in Processes, PromoteCandidates(p)
  PROVE  [Abstract!CatalogNext]_(Abstract!catalogVars)
<1>1. run[p].pc = "promote" /\ run[p].pc \in Claimed
  BY DEF PromoteCandidates, Running, Claimed, Working, Staged
<1>2. PICK r \in Requests : r = run[p].task
  BY <1>1, Claimer
<1>3. Types /\ RunOK(p) /\ run[p].cleanup \in {"clean", "residual"}
  BY <1>1, <1>2, Claimer DEF RunRows
<1>4. UNCHANGED offer
  BY DEF PromoteCandidates
<1>5. CASE UNCHANGED <<catalog, task, told>>
  BY <1>4, <1>5, Stutters
<1>6. CASE /\ Promotable(r) /\ catalog' = Replaced(candidates[r])
           /\ Ended(r, "succeeded", run[p].cleanup)
           /\ told' = told \cup {<<r, "succeeded">>}
  <2>1. RowBecomes(r, "succeeded", task[r].started, run[p].cleanup)
    BY <1>3, <1>6, EndedForm DEF Outcomes
  <2>2. task[r].state \in Phases /\ candidates[r] # {}
    BY <1>6 DEF Promotable, Phases
  <2>3. candidates[r] = offer[r]
    BY <1>1, <1>2, <1>3, <2>2 DEF RunOK, StagingIsFaithful, Staged
  <2>4. PhaseOf(r) = "open" /\ PhaseOf(r)' = "succeeded"
    BY <2>1, <2>2, PhaseIs, PhaseBecomes DEF RowBecomes, Outcomes
  <2>5. \A s \in Requests : s # r => task'[s].state = task[s].state
    BY <2>1 DEF RowBecomes
  <2>6. catalog' = Abstract!Install(offer[r])
    BY <1>6, <2>3 DEF Replaced, Abstract!Install
  <2>7. Abstract!Succeed(r)
    BY <1>4, <1>6, <2>2, <2>3, <2>4, <2>5, <2>6, PhaseStep DEF Abstract!Succeed
  <2>8. QED
    BY <2>7 DEF Abstract!CatalogNext
<1>7. QED
  BY <1>2, <1>5, <1>6 DEF PromoteCandidates

LEMMA MarkRefines ==
  ASSUME IInv, NEW p \in Processes, MarkTaskTerminal(p)
  PROVE  [Abstract!CatalogNext]_(Abstract!catalogVars)
<1>1. run[p].pc = "mark" /\ run[p].pc \in Claimed
  BY DEF MarkTaskTerminal, Running, Claimed
<1>2. PICK r \in Requests : r = run[p].task
  BY <1>1, Claimer
<1>3. Types /\ RowOK(r) /\ run[p].cleanup \in {"clean", "residual"}
  BY <1>1, <1>2, Claimer DEF RunRows
<1>4. UNCHANGED <<catalog, offer>>
  BY DEF MarkTaskTerminal
<1>5. CASE /\ task[r].state \in Phases /\ Ended(r, "failed", run[p].cleanup)
           /\ told' = told \cup {<<r, "failed">>}
  <2>1. RowBecomes(r, "failed", task[r].started, run[p].cleanup)
    BY <1>3, <1>5, EndedForm DEF Outcomes
  <2>2. task'[r].state = "failed" /\ \A s \in Requests : s # r => task'[s].state = task[s].state
    BY <2>1 DEF RowBecomes
  <2>3. QED
    BY <1>4, <1>5, <2>2, LoseRefines
<1>6. CASE /\ UNCHANGED task
           /\ told' = IF task[r].state = "failed" THEN told \cup {<<r, "failed">>} ELSE told
  <2>1. UNCHANGED told
    BY <1>3, <1>6 DEF RowOK
  <2>2. QED
    BY <1>4, <1>6, <2>1, Stutters
<1>7. CASE UNCHANGED <<task, told>>
  BY <1>4, <1>7, Stutters
<1>8. QED
  BY <1>2, <1>5, <1>6, <1>7 DEF MarkTaskTerminal

LEMMA FinishRefines ==
  ASSUME IInv, NEW p \in Processes, MarkTaskCancelled(p)
  PROVE  [Abstract!CatalogNext]_(Abstract!catalogVars)
<1>1. run[p].pc = "finish" /\ Types
  BY DEF MarkTaskCancelled, Running, IInv
<1>2. PICK r \in Requests : r = run[p].task
  BY <1>1, TaskOfRun
<1>3. run[p].cleanup \in {"clean", "residual"}
  BY <1>1, TaskOfRun
<1>4. UNCHANGED <<catalog, offer, told>>
  BY DEF MarkTaskCancelled
<1>5. CASE UNCHANGED task
  BY <1>4, <1>5, Stutters
<1>6. CASE Cancellable(r) /\ Ended(r, "cancelled", run[p].cleanup)
  <2>1. RowBecomes(r, "cancelled", task[r].started, run[p].cleanup)
    BY <1>1, <1>3, <1>6, EndedForm DEF Outcomes
  <2>2. task'[r].state = "cancelled" /\ \A s \in Requests : s # r => task'[s].state = task[s].state
    BY <2>1 DEF RowBecomes
  <2>3. QED
    BY <1>4, <1>6, <2>2, StoppedRefines DEF Cancellable
<1>7. QED
  BY <1>2, <1>5, <1>6 DEF MarkTaskCancelled

(* Nothing else is open when the recovery ends a sync. *)
LEMMA RecoverRefines ==
  ASSUME IInv, NEW p \in Processes, RecoverInterruptedTasks(p)
  PROVE  [Abstract!CatalogNext]_(Abstract!catalogVars)
<1>1. Types /\ UNCHANGED <<catalog, offer>>
  BY DEF IInv, RecoverInterruptedTasks
<1>2. CASE UNCHANGED <<task, candidates, told>>
  BY <1>1, <1>2, Stutters
<1>3. ASSUME ~UNCHANGED <<task, candidates, told>>
      PROVE  [Abstract!CatalogNext]_(Abstract!catalogVars)
  <2> DEFINE failed == {s \in Requests : Interrupted(s) /\ task[s].state # "cancelling"}
  <2>1. told' = told \cup {<<s, "failed">> : s \in failed}
    BY <1>1, <1>3, RecoverEffect
  <2>2. \A s \in Requests : ~Interrupted(s) => task'[s].state = task[s].state
    BY <1>1, <1>3, RecoverEffect
  <2>3. \A s \in Requests : Interrupted(s) =>
            \/ task[s].state = "cancelling" /\ task'[s].state = "cancelled"
            \/ task[s].state # "cancelling" /\ task'[s].state = "failed"
    BY <1>1, <1>3, RecoverEffect
  <2>4. CASE \A s \in Requests : ~Interrupted(s)
    <3>1. UNCHANGED told
      BY <2>1, <2>4
    <3>2. QED
      BY <1>1, <2>2, <2>4, <3>1, Stutters
  <2>5. ASSUME NEW r \in Requests, Interrupted(r)
        PROVE  Abstract!CatalogNext
    <3>1. \A s \in Requests : Interrupted(s) => s = r
      BY <2>5 DEF IInv, OneActive, Interrupted
    <3>2. \A s \in Requests : s # r => task'[s].state = task[s].state
      BY <2>2, <3>1
    <3>3. task[r].state \in Phases \cup {"cancelling"}
      BY <2>5 DEF Interrupted, Active
    <3>4. CASE task[r].state = "cancelling"
      <4>1. failed = {}
        BY <3>1, <3>4
      <4>2. UNCHANGED told
        BY <2>1, <4>1
      <4>3. QED
        BY <1>1, <2>3, <2>5, <3>2, <3>4, <4>2, StoppedRefines
    <3>5. CASE task[r].state # "cancelling"
      <4>1. failed = {r}
        BY <2>5, <3>1, <3>5
      <4>2. told' = told \cup {<<r, "failed">>}
        <5> HIDE DEF failed
        <5>1. {<<s, "failed">> : s \in failed} = {<<r, "failed">>}
          BY <4>1
        <5>2. QED
          BY <2>1, <5>1
      <4>3. QED
        BY <1>1, <2>3, <2>5, <3>2, <3>3, <3>5, <4>2, LoseRefines
    <3>6. QED
      BY <3>4, <3>5
  <2>6. QED
    BY <2>4, <2>5
<1>4. QED
  BY <1>2, <1>3

LEMMA RunRefines ==
  ASSUME IInv, NEW p \in Processes, RunStep(p)
  PROVE  [Abstract!CatalogNext]_(Abstract!catalogVars)
<1>1. CASE \/ Begin(p) \/ ReadTask(p) \/ CreateWorkspace(p) \/ Clone(p) \/ StageCandidate(p)
           \/ RemoveWorkspace(p) \/ Fail(p) \/ RereadTask(p)
  <2>1. UNCHANGED <<catalog, offer, told, task>>
    BY <1>1 DEF Begin, ReadTask, CreateWorkspace, Clone, StageCandidate, RemoveWorkspace, Fail,
                RereadTask
  <2>2. QED
    BY <2>1, Stutters
<1>2. CASE ClaimTask(p) \/ SetTaskWorkspaceKey(p) \/ UpdateTaskProgress(p)
  <2>1. UNCHANGED <<catalog, offer, told>>
    BY <1>2 DEF ClaimTask, SetTaskWorkspaceKey, UpdateTaskProgress
  <2>2. PICK r \in Requests : r = run[p].task
    BY <1>2, NextSteps, TaskOfRun
    DEF IInv, ClaimTask, SetTaskWorkspaceKey, UpdateTaskProgress, Running
  <2>3. task \in [Requests -> TaskRows] /\ task[r] \in TaskRows
    BY DEF IInv, Types
  <2>4. CASE UNCHANGED task
    BY <2>1, <2>4, Stutters
  <2>5. ASSUME task # task'
        PROVE  /\ task[r].state \in Phases /\ task'[r].state \in Phases
               /\ \A s \in Requests : s # r => task'[s].state = task[s].state
    <3>1. CASE ClaimTask(p)
      BY <2>2, <2>3, <2>5, <3>1 DEF ClaimTask, Claimable, TaskRows, Phases
    <3>2. CASE SetTaskWorkspaceKey(p)
      BY <2>2, <2>3, <2>5, <3>2 DEF SetTaskWorkspaceKey, Updatable, TaskRows
    <3>3. CASE UpdateTaskProgress(p)
      <4>1. run[p].pc \in Phases
        BY <3>3, NextSteps DEF UpdateTaskProgress, Phases
      <4>2. QED
        BY <2>2, <2>3, <2>5, <3>3, <4>1 DEF UpdateTaskProgress, Updatable, TaskRows
    <3>4. QED
      BY <1>2, <3>1, <3>2, <3>3
  <2>6. CASE task # task'
    <3>1. PhaseOf(r)' = PhaseOf(r)
      BY <2>5, <2>6, PhaseIs, PhaseBecomes
    <3>2. \A s \in Requests : PhaseOf(s)' = PhaseOf(s)
      BY <2>5, <2>6, <3>1, PhaseStays
    <3>3. [s \in Requests |-> PhaseOf(s)]' = [s \in Requests |-> PhaseOf(s)]
      BY <3>2, NoPhaseStep
    <3>4. QED
      BY <2>1, <3>3 DEF Abstract!catalogVars
  <2>7. QED
    BY <2>4, <2>6
<1>3. QED
  BY <1>1, <1>2, ScanRefines, PromoteRefines, MarkRefines, FinishRefines DEF RunStep

LEMMA StepRefines ==
  ASSUME IInv, [Next]_vars
  PROVE  [Abstract!CatalogNext]_(Abstract!catalogVars)
<1>1. CASE \E p \in Processes, r \in Requests :
               <<p, r>> \in Reaches /\ (CreateSync(p, r) \/ CancelSync(p, r))
  BY <1>1, CreateRefines, CancelRefines
<1>2. CASE \/ \E t \in Templates, flag \in {"disabled", "enabled"} : UpdatePOCEnabled(t, flag)
           \/ \E T \in SUBSET Templates \ {{}}, flag \in {"disabled", "enabled"} :
                  SetPOCActivation(T, flag)
  BY <1>2, SwitchRefines
<1>3. CASE \E p \in Processes : RunStep(p)
  BY <1>3, RunRefines
<1>4. CASE \E p \in Processes :
               WatchCancellation(p) \/ WatchLease(p) \/ Interrupt(p) \/ Restart(p)
  <2>1. UNCHANGED <<catalog, offer, told, task>>
    BY <1>4 DEF WatchCancellation, WatchLease, Interrupt, Restart
  <2>2. QED
    BY <2>1, Stutters
<1>5. CASE \E p \in Sweepers : SweepStep(p)
  <2>1. PICK p \in Processes : SweepStep(p)
    BY <1>5, SyncAssumption
  <2>2. CASE RecoverInterruptedTasks(p)
    BY <2>2, RecoverRefines
  <2>3. CASE ExpireAndProtect(p) \/ RemoveResiduals(p)
    <3>1. UNCHANGED <<catalog, offer, told, task>>
      BY <2>3 DEF ExpireAndProtect, RemoveResiduals
    <3>2. QED
      BY <3>1, Stutters
  <2>4. QED
    BY <2>1, <2>2, <2>3 DEF SweepStep
<1>6. CASE \E r \in Requests : LeaseLapses(r) \/ WaitsUnclaimed(r)
  <2>1. PICK r \in Requests : LeaseLapses(r) \/ WaitsUnclaimed(r)
    BY <1>6
  <2>2. UNCHANGED <<catalog, offer, told>>
    BY <2>1 DEF LeaseLapses, WaitsUnclaimed
  <2>3. task[r] \in TaskRows /\ task \in [Requests -> TaskRows]
    BY DEF IInv, Types
  <2>4. \A s \in Requests : task'[s].state = task[s].state
    BY <2>1, <2>3 DEF LeaseLapses, WaitsUnclaimed, TaskRows
  <2>5. QED
    BY <2>2, <2>4, Stutters
<1>7. CASE UNCHANGED vars
  <2>1. UNCHANGED <<catalog, offer, told, task>>
    BY <1>7 DEF vars
  <2>2. QED
    BY <2>1, Stutters
<1>8. QED
  BY <1>1, <1>2, <1>3, <1>4, <1>5, <1>6, <1>7 DEF Next

LEMMA InitRefines == Init => Abstract!CatalogInit
<1>1. Init => \A r \in Requests : PhaseOf(r) = "none"
  BY PhaseIs DEF Init, NoTask
<1>2. QED
  BY <1>1 DEF Init, Abstract!CatalogInit

(* Runners, operators and retention jobs of any number of processes implement
   TemplateCatalog: one sync is open at a time, a success installs all its
   checkout held and at once, and what an operator stopped neither succeeds
   nor fails, whoever still works on it. *)
THEOREM CatalogIsKept == Spec => KeepsTheCatalog
<1>1. IInv /\ [Next]_vars => [Abstract!CatalogNext]_(Abstract!catalogVars)
  BY StepRefines
<1>2. QED
  BY <1>1, InitRefines, SyncInvariance, PTL DEF Spec, KeepsTheCatalog, Abstract!CatalogSpec
=============================================================================
