---------------------------- MODULE UpgradeProofs ----------------------------
(***************************************************************************)
(* What holds of a system upgrade for any operations, releases and bounds: *)
(* the types, what the host's journal and lock keep, and what the Server   *)
(* records of them.                                                        *)
(***************************************************************************)
EXTENDS UpgradeOperation, TLAPS

(* The journal remembers that a migration command was started. *)
JournalRemembers ==
    \A o \in Ops : migrations[o] <= 1 /\ (journal[o].migration = "not_started" => migrations[o] = 0)

(* The lock follows the daemon's hold and the lifecycle command's; what a
   daemon that is down held and ran is gone. *)
LockFollowsHolder ==
    /\ held # Nobody => lock = held
    /\ lifecycle => lock = "lifecycle"
    /\ ~up => held = Nobody /\ \A o \in Ops : execution[o] = "idle"

(* Commands run only under the lock, for an operation that is open. *)
WorkIsHeld ==
    \A o \in Ops : execution[o] = "working" => held = o /\ Open(journal[o].stage)

(* A verified planned operation is never let go before it is confirmed. *)
VerifiedIsHeld ==
    \A o \in Ops :
        Planned(o) /\ journal[o].stage = "verifying" /\ o \in receipts /\ up
                /\ execution[o] \in {"idle", "finishing"}
            => held = o

LockIInv == LockFollowsHolder /\ WorkIsHeld /\ VerifiedIsHeld

(* What a row, a request's copy or an event claims, the host's records show. *)
Shown(o, r) == (r.observed => o \in receipts) /\ (r.migration = "succeeded" => journal[o].migration = "succeeded")
Proven(o) == o \in receipts /\ (Migrates(o) => journal[o].migration = "succeeded")

EvidenceIsShown ==
    /\ \A o \in Ops : Shown(o, row[o])
    /\ api.op \in Ops => Shown(api.op, api.copy)
    /\ job.op \in Ops => Shown(job.op, job)
    /\ job.step \in {"confirm", "succeed"} => Proven(job.op)
    /\ job.step = "succeed" /\ Planned(job.op) => job.op \in confirmed

(* What the two long steps of the Server remember of the row's status. *)
CopiesAreOpen ==
    /\ ~Terminal(api.copy.status)
    /\ job.step = "verify" => job.stage \in {"verifying", "agent_verifying"}

EvidenceIInv == EvidenceIsShown /\ CopiesAreOpen /\ SuccessIsProven

IInv == TypeOK /\ JournalRemembers /\ FailureIsClean /\ LockIInv /\ EvidenceIInv

-----------------------------------------------------------------------------
(* The steps of the host, and what they keep whoever asks for them. *)

HostStep ==
    \/ \E o \in Ops : Execution(o) \/ CrashInConfirm(o)
    \/ Crash \/ Serve \/ LifecycleStarts \/ LifecycleEnds \/ OperatorRemovesLock \/ ReleaseLate
    \/ \E o \in Ops : up /\ (AcceptStart(o) \/ AcceptRepair(o) \/ AcceptStop(o) \/ AcceptConfirm(o)
                              \/ AcceptConfirmLate(o))

HostTypes ==
    /\ release \in Plans
    /\ current \in Ops \cup {Nobody}
    /\ receipts \subseteq Ops /\ confirmed \subseteq Ops
    /\ lock \in Ops \cup {"free", "lifecycle"}
    /\ lifecycle \in BOOLEAN /\ up \in BOOLEAN /\ held \in Ops \cup {Nobody}
    /\ execution \in [Ops -> {"idle", "waiting", "working", "finishing"}]
    /\ cancelled \subseteq Ops
    /\ releasing \in BOOLEAN

JournalTypes ==
    /\ journal \in [Ops -> Journals]
    /\ migrations \in [Ops -> Nat]
    /\ \A o \in Ops : Open(journal[o].stage) => current = o

JournalIInv == JournalTypes /\ JournalRemembers /\ FailureIsClean

(* Receipts, confirmations and proved migrations are never taken back. *)
EvidenceGrows ==
    /\ release' = release
    /\ receipts \subseteq receipts' /\ confirmed \subseteq confirmed'
    /\ \A o \in Ops : journal[o].migration = "succeeded" => journal'[o].migration = "succeeded"

LEMMA Names == Nobody \notin Ops /\ "free" \notin Ops /\ "lifecycle" \notin Ops
<1>1. Nobody \notin Ops /\ {"free", "lifecycle"} \cap Ops = {}
  BY UpgradeAssumption, Zenon
<1>2. QED
  BY <1>1

LEMMA StagesAre ==
  Stages = {"none", "queued", "stopping", "preflight", "updating", "migrating", "restarting",
            "agent_verifying", "verifying", "failed", "succeeded", "needs_recovery", "needs_attention"}
  BY DEF Stages, Rank

(* Checkpoints are journal values. *)
LEMMA CheckpointTypes ==
  ASSUME NEW j \in Journals, NEW stage \in Stages \ {"stopping"}
  PROVE  /\ At(j, stage) \in Journals
         /\ At(j, stage).stage = stage
         /\ At(j, stage).migration = j.migration
<1>1. RepairStageFor(j.stage) \in {"queued", "updating", "restarting"}
  BY DEF RepairStageFor
<1>2. QED
  BY <1>1 DEF At, Journals

LEMMA MigrationTypes ==
  ASSUME NEW j \in Journals, NEW m, m \in {"not_started", "running", "succeeded", "failed", "unknown"}
  PROVE  \E k \in Journals : k = [j EXCEPT !.migration = m] /\ k.migration = m /\ k.stage = j.stage
<1>1. [j EXCEPT !.migration = m] \in Journals
  BY DEF Journals, Migrations
<1>2. [j EXCEPT !.migration = m].migration = m /\ [j EXCEPT !.migration = m].stage = j.stage
  BY DEF Journals
<1>3. QED
  BY <1>1, <1>2

LEMMA OutcomeTypes ==
  ASSUME NEW o \in Ops, NEW j \in Journals
  PROVE  /\ Failed(o, j) \in Journals /\ Stopped(o, j) \in Journals
         /\ Failed(o, j).migration = j.migration /\ Stopped(o, j).migration = j.migration
         /\ Failed(o, j).stage \in {"needs_recovery", "failed"}
         /\ Stopped(o, j).stage \in {"needs_recovery", "needs_attention"}
         /\ Failed(o, j).stage = "failed" => j.migration = "not_started"
<1>1. {"needs_recovery", "failed", "needs_attention"} \subseteq Stages \ {"stopping"}
  BY StagesAre
<1>2. FailureStage(o, j) \in {"needs_recovery", "failed"}
      /\ (FailureStage(o, j) = "failed" => j.migration = "not_started")
  BY DEF FailureStage, Evidence
<1>3. QED
  BY <1>1, <1>2, CheckpointTypes DEF Failed, Stopped

(* One checkpoint of one operation. *)
LEMMA CheckpointKeeps ==
  ASSUME JournalIInv, NEW o \in Ops, NEW k \in Journals,
         journal' = [journal EXCEPT ![o] = k],
         UNCHANGED << migrations, current >>,
         Open(k.stage) => Open(journal[o].stage),
         k.migration = "not_started" => journal[o].migration = "not_started",
         journal[o].migration = "succeeded" => k.migration = "succeeded",
         k.stage = "failed" => journal[o].stage = "failed" \/ k.migration = "not_started"
  PROVE  /\ JournalIInv'
         /\ \A p \in Ops : journal[p].migration = "succeeded" => journal'[p].migration = "succeeded"
<1>1. \A p \in Ops : journal'[p] = IF p = o THEN k ELSE journal[p]
  BY DEF JournalIInv, JournalTypes
<1>2. JournalTypes'
  BY <1>1 DEF JournalIInv, JournalTypes, Open
<1>3. JournalRemembers'
  BY <1>1 DEF JournalIInv, JournalRemembers
<1>4. FailureIsClean'
  BY <1>1 DEF JournalIInv, JournalRemembers, FailureIsClean
<1>5. QED
  BY <1>1, <1>2, <1>3, <1>4 DEF JournalIInv

(* An execution that returns with the journal value j. *)
LEMMA ConcludeKeeps ==
  ASSUME JournalIInv, NEW o \in Ops, NEW j \in Journals, Conclude(o, j),
         UNCHANGED << migrations, current >>,
         Open(j.stage) => Open(journal[o].stage),
         j.migration = "not_started" => journal[o].migration = "not_started",
         journal[o].migration = "succeeded" => j.migration = "succeeded",
         j.stage = "failed" => journal[o].stage = "failed" \/ j.migration = "not_started"
  PROVE  /\ JournalIInv'
         /\ \A p \in Ops : journal[p].migration = "succeeded" => journal'[p].migration = "succeeded"
<1>1. CASE o \in cancelled /\ Open(j.stage)
  <2>1. PICK k \in Journals : /\ k = Stopped(o, j)
                             /\ k.migration = j.migration
                             /\ k.stage \in {"needs_recovery", "needs_attention"}
    BY OutcomeTypes
  <2>2. journal' = [journal EXCEPT ![o] = k]
    BY <1>1, <2>1 DEF Conclude
  <2>3. ~Open(k.stage) /\ k.stage # "failed"
    BY <2>1 DEF Open, Terminal
  <2>4. QED
    BY <2>1, <2>2, <2>3, CheckpointKeeps
<1>2. CASE ~(o \in cancelled /\ Open(j.stage))
  <2>1. journal' = [journal EXCEPT ![o] = j]
    BY <1>2 DEF Conclude
  <2>2. QED
    BY <2>1, CheckpointKeeps
<1>3. QED
  BY <1>1, <1>2

(* An execution that goes on with the journal value j. *)
LEMMA WorkKeeps ==
  ASSUME JournalIInv, NEW o \in Ops, NEW j \in Journals, Work(o, j), Open(j.stage),
         UNCHANGED << migrations, current >>,
         Open(journal[o].stage),
         j.migration = "not_started" => journal[o].migration = "not_started",
         journal[o].migration = "succeeded" => j.migration = "succeeded"
  PROVE  /\ JournalIInv'
         /\ \A p \in Ops : journal[p].migration = "succeeded" => journal'[p].migration = "succeeded"
<1>1. journal' = [journal EXCEPT ![o] = j] /\ j.stage # "failed"
  BY DEF Work, Open, Terminal
<1>2. QED
  BY <1>1, CheckpointKeeps

LEMMA ExecutionKeepsJournal ==
  ASSUME JournalIInv, NEW o \in Ops, Execution(o)
  PROVE  /\ JournalIInv'
         /\ \A p \in Ops : journal[p].migration = "succeeded" => journal'[p].migration = "succeeded"
<1> DEFINE Goal == /\ JournalIInv'
                   /\ \A p \in Ops : journal[p].migration = "succeeded" => journal'[p].migration = "succeeded"
<1>0. PICK j \in Journals : j = journal[o]
  BY DEF JournalIInv, JournalTypes
<1>1. PICK failed \in Journals : /\ failed = Failed(o, j)
                                 /\ failed.migration = j.migration
                                 /\ ~Open(failed.stage)
                                 /\ failed.stage = "failed" => j.migration = "not_started"
  BY OutcomeTypes DEF Open, Terminal
<1>2. \A p : Open(p) => p # "failed"
  BY DEF Open, Terminal
<1>3. ASSUME Begin(o)
      PROVE  Goal
  <2>1. UNCHANGED << migrations, current >>
    BY <1>3 DEF Begin
  <2>2. CASE (Terminal(j.stage) \/ ConfirmationPending(o)) /\ Conclude(o, j)
    BY <1>0, <2>1, <2>2, ConcludeKeeps
  <2>3. CASE Conclude(o, Failed(o, j))
    BY <1>0, <1>1, <2>1, <2>3, ConcludeKeeps
  <2>4. CASE Open(j.stage) /\ Work(o, j)
    BY <1>0, <2>1, <2>4, WorkKeeps
  <2>5. CASE j.stage = "migrating" /\ Work(o, At(j, "restarting"))
    <3>1. PICK k \in Journals : k = At(j, "restarting") /\ k.migration = j.migration /\ k.stage = "restarting"
      BY CheckpointTypes, StagesAre
    <3>2. Open(j.stage) /\ Open(k.stage)
      BY <2>5, <3>1 DEF Open, Terminal
    <3>3. QED
      BY <1>0, <2>1, <2>5, <3>1, <3>2, WorkKeeps
  <2>6. CASE /\ j.stage = "migrating" /\ j.migration # "succeeded"
             /\ Conclude(o, At([j EXCEPT !.migration = IF @ = "running" THEN "unknown" ELSE @], "needs_recovery"))
    <3>0. PICK m \in {"not_started", "running", "succeeded", "failed", "unknown"} :
            m = IF j.migration = "running" THEN "unknown" ELSE j.migration
      BY DEF Journals, Migrations
    <3>1. PICK r \in Journals : r = [j EXCEPT !.migration = m] /\ r.migration = m
      BY MigrationTypes
    <3>2. PICK k \in Journals : k = At(r, "needs_recovery") /\ k.migration = r.migration /\ k.stage = "needs_recovery"
      BY CheckpointTypes, StagesAre
    <3>3. ~Open(k.stage)
      BY <3>2 DEF Open, Terminal
    <3>4. QED
      BY <1>0, <2>1, <2>6, <3>0, <3>1, <3>2, <3>3, ConcludeKeeps
  <2>7. QED
    BY <1>0, <1>3, <2>2, <2>3, <2>4, <2>5, <2>6 DEF Begin
<1>4. ASSUME StopWaiting(o)
      PROVE  Goal
  BY <1>0, <1>4, ConcludeKeeps DEF StopWaiting
<1>5. ASSUME Proceed(o)
      PROVE  Goal
  <2>1. /\ Work(o, At(j, NextStage(o))) /\ UNCHANGED << migrations, current >>
        /\ j.stage \in {"queued", "preflight", "updating", "migrating", "restarting", "agent_verifying"}
    BY <1>0, <1>5 DEF Proceed, Working
  <2>2. NextStage(o) \in {"preflight", "updating", "migrating", "restarting", "agent_verifying", "verifying"}
    BY <1>0, <2>1 DEF NextStage
  <2>3. PICK k \in Journals : k = At(j, NextStage(o)) /\ k.migration = j.migration /\ k.stage = NextStage(o)
    BY <2>2, CheckpointTypes, StagesAre
  <2>4. Open(k.stage) /\ Open(j.stage)
    BY <2>1, <2>2, <2>3 DEF Open, Terminal
  <2>5. QED
    BY <1>0, <2>1, <2>3, <2>4, WorkKeeps
<1>6. ASSUME CommandFails(o)
      PROVE  Goal
  BY <1>0, <1>1, <1>6, ConcludeKeeps DEF CommandFails
<1>7. ASSUME StartMigration(o)
      PROVE  Goal
  <2>1. /\ j.stage = "migrating" /\ j.migration = "not_started" /\ UNCHANGED current
        /\ journal' = [journal EXCEPT ![o] = [j EXCEPT !.migration = "running"]]
        /\ migrations' = [migrations EXCEPT ![o] = @ + 1]
    BY <1>0, <1>7 DEF StartMigration, Working, Work
  <2>2. PICK k \in Journals : k = [j EXCEPT !.migration = "running"] /\ k.migration = "running" /\ k.stage = "migrating"
    BY <2>1, MigrationTypes
  <2>3. \A p \in Ops : journal'[p] = IF p = o THEN k ELSE journal[p]
    BY <2>1, <2>2 DEF JournalIInv, JournalTypes
  <2>4. migrations[o] = 0
    BY <1>0, <2>1 DEF JournalIInv, JournalRemembers
  <2>5. \A p \in Ops : migrations'[p] = IF p = o THEN 1 ELSE migrations[p]
    BY <2>1, <2>4 DEF JournalIInv, JournalTypes
  <2>6. JournalTypes'
    <3>1. journal' \in [Ops -> Journals]
      BY <2>1, <2>2 DEF JournalIInv, JournalTypes
    <3>2. migrations' \in [Ops -> Nat]
      BY <2>1 DEF JournalIInv, JournalTypes
    <3>3. \A p \in Ops : Open(journal'[p].stage) => current' = p
      BY <1>0, <2>1, <2>2, <2>3 DEF JournalIInv, JournalTypes
    <3>4. QED
      BY <3>1, <3>2, <3>3 DEF JournalTypes, Open, Terminal
  <2>7. JournalRemembers' /\ FailureIsClean'
    <3>1. JournalRemembers'
      <4>1. ASSUME NEW p \in Ops
            PROVE  migrations'[p] <= 1 /\ (journal'[p].migration = "not_started" => migrations'[p] = 0)
        <5>1. CASE p = o
          <6>1. migrations'[p] = 1 /\ journal'[p].migration = "running"
            BY <2>2, <2>3, <2>5, <5>1
          <6>2. QED
            BY <6>1
        <5>2. CASE p # o
          <6>1. migrations'[p] = migrations[p] /\ journal'[p] = journal[p]
            BY <2>3, <2>5, <5>2
          <6>2. QED
            BY <6>1 DEF JournalIInv, JournalRemembers
        <5>3. QED
          BY <5>1, <5>2
      <4>2. QED
        BY <4>1 DEF JournalRemembers
    <3>2. FailureIsClean'
      BY <2>2, <2>3, <2>5 DEF JournalIInv, FailureIsClean
    <3>3. QED
      BY <3>1, <3>2
  <2>8. QED
    BY <1>0, <2>1, <2>3, <2>6, <2>7 DEF JournalIInv
<1>8. ASSUME MigrationReturns(o)
      PROVE  Goal
  <2>1. j.stage = "migrating" /\ j.migration = "running" /\ UNCHANGED << migrations, current >>
    BY <1>0, <1>8 DEF MigrationReturns, Working
  <2>2. Open(j.stage)
    BY <2>1 DEF Open, Terminal
  <2>3. PICK outcome \in {"succeeded", "unknown", "failed"} : Work(o, [j EXCEPT !.migration = outcome])
    BY <1>0, <1>8 DEF MigrationReturns
  <2>4. PICK k \in Journals : k = [j EXCEPT !.migration = outcome] /\ k.migration = outcome /\ k.stage = j.stage
    BY MigrationTypes
  <2>5. QED
    BY <1>0, <2>1, <2>2, <2>3, <2>4, WorkKeeps
<1>9. ASSUME Complete(o)
      PROVE  Goal
  <2>1. UNCHANGED << migrations, current >> /\ Open(j.stage)
    BY <1>0, <1>9 DEF Complete, Working, Open, Terminal
  <2>2. QED
    BY <1>0, <1>9, <2>1, ConcludeKeeps, WorkKeeps DEF Complete
<1>12. ASSUME KeepUnproved(o)
       PROVE  Goal
  <2>1. /\ UNCHANGED << migrations, current >>
        /\ Conclude(o, At(j, "needs_recovery"))
    BY <1>0, <1>12 DEF KeepUnproved
  <2>2. PICK k \in Journals : k = At(j, "needs_recovery") /\ k.migration = j.migration /\ k.stage = "needs_recovery"
    BY CheckpointTypes, StagesAre
  <2>3. ~Open(k.stage)
    BY <2>2 DEF Open, Terminal
  <2>4. QED
    BY <1>0, <2>1, <2>2, <2>3, ConcludeKeeps
<1>10. ASSUME Finish(o)
       PROVE  Goal
  <2>1. UNCHANGED << journal, migrations, current >>
    BY <1>10 DEF Finish
  <2>2. QED
    BY <2>1 DEF JournalIInv, JournalTypes, JournalRemembers, FailureIsClean
<1>11. QED
  BY <1>3, <1>4, <1>5, <1>6, <1>7, <1>8, <1>9, <1>10, <1>12 DEF Execution

LEMMA RequestsKeepJournal ==
  ASSUME JournalIInv, NEW o \in Ops,
         AcceptStart(o) \/ AcceptRepair(o) \/ AcceptStop(o) \/ RecordConfirmation(o) \/ CrashInConfirm(o)
  PROVE  /\ JournalIInv'
         /\ \A p \in Ops : journal[p].migration = "succeeded" => journal'[p].migration = "succeeded"
<1> DEFINE Goal == /\ JournalIInv'
                   /\ \A p \in Ops : journal[p].migration = "succeeded" => journal'[p].migration = "succeeded"
<1>0. PICK j \in Journals : j = journal[o]
  BY DEF JournalIInv, JournalTypes
<1>1. ASSUME UNCHANGED << journal, migrations, current >>
      PROVE  Goal
  BY <1>1 DEF JournalIInv, JournalTypes, JournalRemembers, FailureIsClean
<1>2. ASSUME AcceptStart(o), journal[o].stage = "none", Idle, current' = o,
             journal' = [journal EXCEPT ![o].stage = "queued"]
      PROVE  Goal
  <2>1. PICK k \in Journals : k = [j EXCEPT !.stage = "queued"] /\ k.stage = "queued" /\ k.migration = j.migration
    <3>1. [j EXCEPT !.stage = "queued"] \in Journals
      BY StagesAre DEF Journals
    <3>2. [j EXCEPT !.stage = "queued"].stage = "queued"
          /\ [j EXCEPT !.stage = "queued"].migration = j.migration
      BY DEF Journals
    <3>3. QED
      BY <3>1, <3>2
  <2>2. journal' = [journal EXCEPT ![o] = k]
    BY <1>0, <1>2, <2>1 DEF JournalIInv, JournalTypes
  <2>3. \A p \in Ops : journal'[p] = IF p = o THEN k ELSE journal[p]
    BY <2>2 DEF JournalIInv, JournalTypes
  <2>4. \A p \in Ops : ~Open(journal[p].stage)
    BY <1>2, Names DEF JournalIInv, JournalTypes, Idle, Open
  <2>5. migrations' = migrations
    BY <1>2 DEF AcceptStart
  <2>6. JournalTypes'
    BY <1>2, <2>2, <2>3, <2>4, <2>5 DEF JournalIInv, JournalTypes, Open
  <2>7. JournalRemembers'
    BY <1>0, <2>1, <2>3, <2>5 DEF JournalIInv, JournalRemembers
  <2>8. FailureIsClean'
    BY <2>1, <2>3, <2>5 DEF JournalIInv, FailureIsClean
  <2>9. QED
    BY <1>0, <2>1, <2>3, <2>6, <2>7, <2>8 DEF JournalIInv
<1>3. CASE AcceptStart(o)
  BY <1>1, <1>2, <1>3 DEF AcceptStart
<1>4. CASE AcceptRepair(o)
  <2>1. /\ current = o /\ UNCHANGED << migrations, current >>
        /\ journal' = [journal EXCEPT ![o].stage = journal[o].repair, ![o].repair = "queued"]
    BY <1>4 DEF AcceptRepair
  <2>2. PICK k \in Journals : /\ k = [j EXCEPT !.stage = j.repair, !.repair = "queued"]
                              /\ k.stage \in {"queued", "updating", "restarting"} /\ k.migration = j.migration
    <3>1. j.repair \in {"queued", "updating", "restarting"}
      BY DEF Journals
    <3>2. [j EXCEPT !.stage = j.repair, !.repair = "queued"] \in Journals
      BY <3>1, StagesAre DEF Journals
    <3>3. [j EXCEPT !.stage = j.repair, !.repair = "queued"].stage = j.repair
          /\ [j EXCEPT !.stage = j.repair, !.repair = "queued"].migration = j.migration
      BY DEF Journals
    <3>4. QED
      BY <3>1, <3>2, <3>3
  <2>3. \A p \in Ops : journal'[p] = IF p = o THEN k ELSE journal[p]
    BY <1>0, <2>1, <2>2 DEF JournalIInv, JournalTypes
  <2>4. JournalTypes'
    <3>1. journal' \in [Ops -> Journals]
      BY <1>0, <2>1, <2>2, <2>3 DEF JournalIInv, JournalTypes
    <3>2. QED
      BY <2>1, <2>3, <3>1 DEF JournalIInv, JournalTypes, Open
  <2>5. JournalRemembers'
    BY <1>0, <2>1, <2>2, <2>3 DEF JournalIInv, JournalRemembers
  <2>6. FailureIsClean'
    BY <2>1, <2>2, <2>3 DEF JournalIInv, FailureIsClean
  <2>7. QED
    BY <1>0, <2>2, <2>3, <2>4, <2>5, <2>6 DEF JournalIInv
<1>5. CASE AcceptStop(o)
  <2>1. UNCHANGED << migrations, current >>
    BY <1>5 DEF AcceptStop
  <2>2. CASE UNCHANGED journal
    BY <1>1, <2>1, <2>2
  <2>3. CASE journal' = [journal EXCEPT ![o] = Stopped(o, @)]
    <3>1. PICK k \in Journals : /\ k = Stopped(o, j) /\ k.migration = j.migration
                                /\ k.stage \in {"needs_recovery", "needs_attention"}
      BY OutcomeTypes
    <3>2. ~Open(k.stage) /\ k.stage # "failed"
      BY <3>1 DEF Open, Terminal
    <3>3. QED
      BY <1>0, <2>1, <2>3, <3>1, <3>2, CheckpointKeeps
  <2>4. QED
    BY <1>5, <2>2, <2>3 DEF AcceptStop
<1>6. CASE RecordConfirmation(o) \/ CrashInConfirm(o)
  <2>1. UNCHANGED << migrations, current >>
    BY <1>6 DEF RecordConfirmation, CrashInConfirm
  <2>2. CASE UNCHANGED journal
    BY <1>1, <2>1, <2>2
  <2>3. CASE journal' = [journal EXCEPT ![o] = j]
    BY <1>0, <2>1, <2>3, CheckpointKeeps
  <2>4. CASE journal' = [journal EXCEPT ![o] = At(j, "succeeded")]
    <3>1. PICK k \in Journals : k = At(j, "succeeded") /\ k.migration = j.migration /\ k.stage = "succeeded"
      BY CheckpointTypes, StagesAre
    <3>2. ~Open(k.stage)
      BY <3>1 DEF Open, Terminal
    <3>3. QED
      BY <1>0, <2>1, <2>4, <3>1, <3>2, CheckpointKeeps
  <2>5. QED
    BY <1>0, <1>6, <2>2, <2>3, <2>4 DEF RecordConfirmation, CrashInConfirm
<1>7. QED
  BY <1>3, <1>4, <1>5, <1>6

(* The host's journal keeps what it says of a migration. *)
LEMMA HostKeepsJournal ==
  ASSUME JournalIInv, HostStep \/ UNCHANGED hostVars
  PROVE  JournalIInv' /\ EvidenceGrows
<1>1. ASSUME UNCHANGED << journal, migrations, current >>
      PROVE  JournalIInv' /\ \A p \in Ops : journal[p].migration = "succeeded" => journal'[p].migration = "succeeded"
  BY <1>1 DEF JournalIInv, JournalTypes, JournalRemembers, FailureIsClean
<1>2. ASSUME \/ Crash \/ Serve \/ LifecycleStarts \/ LifecycleEnds \/ OperatorRemovesLock
             \/ ReleaseLate \/ UNCHANGED hostVars
      PROVE  UNCHANGED << journal, migrations, current >>
  BY <1>2 DEF Crash, ReleaseLate, Serve, LifecycleStarts, LifecycleEnds, OperatorRemovesLock, Dies, hostVars
<1>3. JournalIInv' /\ \A p \in Ops : journal[p].migration = "succeeded" => journal'[p].migration = "succeeded"
  BY <1>1, <1>2, ExecutionKeepsJournal, RequestsKeepJournal DEF HostStep, AcceptConfirm, AcceptConfirmLate
<1>4. release' = release /\ receipts \subseteq receipts' /\ confirmed \subseteq confirmed'
  BY DEF HostStep, Execution, Begin, StopWaiting, Proceed, CommandFails, StartMigration, MigrationReturns,
         Complete, KeepUnproved, Finish, Crash, CrashInConfirm, Serve, LifecycleStarts, LifecycleEnds,
         OperatorRemovesLock, ReleaseLate, AcceptStart, AcceptRepair, AcceptStop, AcceptConfirm,
         AcceptConfirmLate, RecordConfirmation, hostVars
<1>5. QED
  BY <1>3, <1>4 DEF EvidenceGrows

(* The host's records, its lock and its executions keep their types. *)
LEMMA HostKeepsTypes ==
  ASSUME HostTypes, HostStep \/ UNCHANGED hostVars
  PROVE  HostTypes'
<1>1. ASSUME NEW o \in Ops,
             \/ Proceed(o) \/ CommandFails(o) \/ StartMigration(o)
             \/ MigrationReturns(o) \/ Complete(o) \/ KeepUnproved(o)
      PROVE  HostTypes'
  BY <1>1 DEF HostTypes, Proceed, CommandFails, StartMigration, MigrationReturns, Complete, KeepUnproved,
              Work, Conclude
<1>2. ASSUME NEW o \in Ops, Begin(o) \/ StopWaiting(o)
      PROVE  HostTypes'
  BY <1>2 DEF HostTypes, Begin, StopWaiting, TakeLock, Work, Conclude
<1>3. ASSUME NEW o \in Ops, Finish(o)
      PROVE  HostTypes'
  BY <1>3 DEF HostTypes, Finish, ReleaseLock
<1>4. ASSUME NEW o \in Ops, AcceptStart(o) \/ AcceptRepair(o) \/ AcceptStop(o)
      PROVE  HostTypes'
  BY <1>4 DEF HostTypes, AcceptStart, AcceptRepair, AcceptStop, Launch
<1>5. ASSUME NEW o \in Ops, AcceptConfirm(o) \/ AcceptConfirmLate(o)
      PROVE  HostTypes'
  BY <1>5 DEF HostTypes, AcceptConfirm, AcceptConfirmLate, RecordConfirmation, ReleaseHeld, ReleaseLock
<1>6. ASSUME NEW o \in Ops, CrashInConfirm(o)
      PROVE  HostTypes'
  BY <1>6 DEF HostTypes, CrashInConfirm, Dies
<1>7. ASSUME Crash
      PROVE  HostTypes'
  BY <1>7 DEF HostTypes, Crash, Dies
<1>8. ASSUME Serve
      PROVE  HostTypes'
  <2>1. current \in Ops \/ current = Nobody
    BY DEF HostTypes
  <2>2. /\ lock' \in Ops \cup {"free", "lifecycle"}
        /\ held' \in Ops \cup {Nobody}
    BY <1>8, <2>1 DEF HostTypes, Serve
  <2>3. execution' \in [Ops -> {"idle", "waiting", "working", "finishing"}]
    BY <1>8, <2>1 DEF HostTypes, Serve, Launch
  <2>4. QED
    BY <1>8, <2>2, <2>3 DEF HostTypes, Serve
<1>9. ASSUME LifecycleStarts \/ LifecycleEnds \/ OperatorRemovesLock \/ ReleaseLate \/ UNCHANGED hostVars
      PROVE  HostTypes'
  BY <1>9 DEF HostTypes, ReleaseLate, ReleaseHeld, ReleaseLock, LifecycleStarts, LifecycleEnds, OperatorRemovesLock, hostVars
<1>10. QED
  BY <1>1, <1>2, <1>3, <1>4, <1>5, <1>6, <1>7, <1>8, <1>9 DEF HostStep, Execution
-----------------------------------------------------------------------------
(* The deployment lock.  An operator may remove the lock of an operation that
   ended, from under a daemon that still holds it in memory, and a
   confirmation whose caller gave up may release a later lock; short of that: *)

LockKept == {"lock removed", "late release"} \cap Events = {}
NothingLate == ~releasing

LEMMA NothingComesLate ==
  ASSUME LockKept, NothingLate, HostStep \/ UNCHANGED hostVars
  PROVE  NothingLate'
<1>1. ~\E o \in Ops : AcceptConfirmLate(o)
  BY DEF AcceptConfirmLate, LockKept
<1>2. QED
  BY <1>1 DEF NothingLate, HostStep, Execution, Begin, StopWaiting, Proceed, CommandFails, StartMigration,
         MigrationReturns, Complete, KeepUnproved, Finish, Crash, CrashInConfirm, Dies, Serve, LifecycleStarts,
         LifecycleEnds, OperatorRemovesLock, ReleaseLate, AcceptStart, AcceptRepair, AcceptStop,
         AcceptConfirm, hostVars

LEMMA ExecutionKeepsLock ==
  ASSUME HostTypes, JournalIInv, JournalIInv', LockIInv, NEW o \in Ops, Execution(o)
  PROVE  LockIInv'
<1> USE DEF LockIInv
<1>1. CASE Begin(o)
  <2>1. /\ up /\ execution[o] = "waiting" /\ TakeLock(o)
        /\ UNCHANGED << lifecycle, release, receipts, up >>
    BY <1>1 DEF Begin
  <2>2. held' = o /\ lock' = o
    BY <2>1, Names DEF TakeLock, LockFollowsHolder
  <2>3. ~lifecycle /\ \A p \in Ops : held = p => p = o
    BY <2>1, Names DEF TakeLock, LockFollowsHolder
  <2>4. \A p \in Ops \ {o} : execution'[p] = execution[p] /\ journal'[p] = journal[p]
    BY <1>1 DEF Begin, Work, Conclude, HostTypes, JournalIInv, JournalTypes
  <2>5. execution'[o] = "working" => Open(journal'[o].stage)
    <3>1. ASSUME NEW j, Conclude(o, j)
          PROVE  execution'[o] # "working"
      BY <3>1 DEF Conclude, HostTypes
    <3>2. ASSUME NEW j, Work(o, j), Open(j.stage)
          PROVE  Open(journal'[o].stage)
      BY <3>2 DEF Work, JournalIInv, JournalTypes
    <3>3. ASSUME Work(o, At(journal[o], "restarting"))
          PROVE  Open(At(journal[o], "restarting").stage)
      <4>1. At(journal[o], "restarting").stage = "restarting"
        BY CheckpointTypes, StagesAre DEF JournalIInv, JournalTypes
      <4>2. QED
        BY <4>1 DEF Open, Terminal
    <3>4. QED
      BY <1>1, <3>1, <3>2, <3>3 DEF Begin
  <2>6. LockFollowsHolder'
    BY <2>1, <2>2, <2>3 DEF LockFollowsHolder
  <2>7. WorkIsHeld'
    BY <2>2, <2>3, <2>4, <2>5 DEF WorkIsHeld
  <2>8. VerifiedIsHeld'
    BY <2>1, <2>2, <2>3, <2>4 DEF VerifiedIsHeld, Planned
  <2>9. QED
    BY <2>6, <2>7, <2>8
<1>2. CASE StopWaiting(o)
  <2>1. UNCHANGED << lifecycle, release, receipts, up, lock, held >>
    BY <1>2 DEF StopWaiting
  <2>2. \A p \in Ops \ {o} : execution'[p] = execution[p] /\ journal'[p] = journal[p]
    BY <1>2 DEF StopWaiting, Conclude, HostTypes, JournalIInv, JournalTypes
  <2>3. execution'[o] = "finishing" /\ journal'[o].stage # "verifying"
    <3>1. execution'[o] = "finishing"
      BY <1>2 DEF StopWaiting, Conclude, HostTypes
    <3>2. CASE Open(journal[o].stage)
      <4>1. journal'[o] = Stopped(o, journal[o])
        BY <1>2, <3>2 DEF StopWaiting, Conclude, JournalIInv, JournalTypes
      <4>2. QED
        BY <3>1, <4>1, OutcomeTypes DEF JournalIInv, JournalTypes
    <3>3. CASE ~Open(journal[o].stage)
      <4>1. journal'[o] = journal[o]
        BY <1>2, <3>3 DEF StopWaiting, Conclude, JournalIInv, JournalTypes
      <4>2. QED
        BY <3>1, <3>3, <4>1 DEF Open, Terminal
    <3>4. QED
      BY <3>2, <3>3
  <2>4. up
    BY <1>2 DEF StopWaiting
  <2>5. LockFollowsHolder'
    BY <2>1, <2>4 DEF LockFollowsHolder
  <2>6. WorkIsHeld' /\ VerifiedIsHeld'
    BY <2>1, <2>2, <2>3 DEF WorkIsHeld, VerifiedIsHeld, Planned
  <2>7. QED
    BY <2>5, <2>6
<1>3. CASE \/ Proceed(o) \/ StartMigration(o) \/ CommandFails(o)
           \/ MigrationReturns(o) \/ Complete(o) \/ KeepUnproved(o)
  <2>1. up /\ execution[o] = "working" /\ UNCHANGED << lifecycle, release, up, lock, held >>
    BY <1>3 DEF Proceed, StartMigration, CommandFails, MigrationReturns, Complete, KeepUnproved, Working
  <2>2. \A p \in Ops \ {o} : execution'[p] = execution[p] /\ journal'[p] = journal[p]
    BY <1>3 DEF Proceed, StartMigration, CommandFails, MigrationReturns, Complete, KeepUnproved, Work, Conclude,
                HostTypes, JournalIInv, JournalTypes
  <2>3. \A p \in Ops \ {o} : p \in receipts' <=> p \in receipts
    BY <1>3 DEF Proceed, StartMigration, CommandFails, MigrationReturns, Complete, KeepUnproved
  <2>4. held = o
    BY <2>1 DEF WorkIsHeld
  <2>5. execution'[o] = "working" => Open(journal'[o].stage)
    <3>1. ASSUME NEW j, Conclude(o, j)
          PROVE  execution'[o] # "working"
      BY <3>1 DEF Conclude, HostTypes
    <3>2. CASE Proceed(o)
      <4>1. NextStage(o) \in {"preflight", "updating", "migrating", "restarting", "agent_verifying", "verifying"}
        BY <3>2 DEF Proceed, Working, NextStage
      <4>2. At(journal[o], NextStage(o)).stage = NextStage(o)
        BY <4>1, CheckpointTypes, StagesAre DEF JournalIInv, JournalTypes
      <4>3. journal'[o] = At(journal[o], NextStage(o))
        BY <3>2 DEF Proceed, Work, JournalIInv, JournalTypes
      <4>4. QED
        BY <4>1, <4>2, <4>3 DEF Open, Terminal
    <3>3. CASE StartMigration(o) \/ MigrationReturns(o) \/ (Complete(o) /\ Work(o, journal[o]))
      <4>1. journal'[o].stage = journal[o].stage
        BY <3>3 DEF StartMigration, MigrationReturns, Work, JournalIInv, JournalTypes, Journals
      <4>2. QED
        BY <2>1, <4>1 DEF WorkIsHeld
    <3>4. QED
      BY <1>3, <3>1, <3>2, <3>3 DEF CommandFails, Complete, KeepUnproved
  <2>6. LockFollowsHolder'
    BY <2>1 DEF LockFollowsHolder
  <2>7. WorkIsHeld'
    BY <2>1, <2>2, <2>4, <2>5 DEF WorkIsHeld
  <2>8. VerifiedIsHeld'
    BY <2>1, <2>2, <2>3, <2>4 DEF VerifiedIsHeld, Planned
  <2>9. QED
    BY <2>6, <2>7, <2>8
<1>4. CASE Finish(o)
  <2>1. up /\ execution[o] = "finishing" /\ UNCHANGED << lifecycle, release, journal, receipts, up >>
    BY <1>4 DEF Finish
  <2>2. execution'[o] = "idle" /\ \A p \in Ops \ {o} : execution'[p] = execution[p]
    BY <1>4 DEF Finish, HostTypes
  <2>3. \/ UNCHANGED << lock, held >>
        \/ held = o /\ held' = Nobody /\ lock' = "free" /\ ~FenceRequired(current)
    BY <1>4, Names DEF Finish, ReleaseLock, LockFollowsHolder
  <2>4. held = o /\ lifecycle => FALSE
    BY Names DEF LockFollowsHolder
  <2>5. LockFollowsHolder'
    BY <2>1, <2>3, <2>4 DEF LockFollowsHolder
  <2>6. WorkIsHeld'
    BY <2>1, <2>2, <2>3, Names DEF WorkIsHeld
  <2>7. Planned(o) /\ journal[o].stage = "verifying" => FenceRequired(current)
    <3>1. journal[o].stage = "verifying" => current = o
      BY DEF JournalIInv, JournalTypes, Open, Terminal
    <3>2. QED
      BY <3>1 DEF FenceRequired
  <2>8. VerifiedIsHeld'
    BY <2>1, <2>2, <2>3, <2>7, Names DEF VerifiedIsHeld, Planned
  <2>9. QED
    BY <2>5, <2>6, <2>8
<1>5. QED
  BY <1>1, <1>2, <1>3, <1>4 DEF Execution

LEMMA RequestsKeepLock ==
  ASSUME HostTypes, JournalIInv, JournalIInv', LockIInv, NEW o \in Ops, up,
         AcceptStart(o) \/ AcceptRepair(o) \/ AcceptStop(o) \/ AcceptConfirm(o)
  PROVE  LockIInv'
<1> USE DEF LockIInv
<1>0. /\ UNCHANGED << lifecycle, release, receipts, up >>
      /\ \A p \in Ops \ {o} : journal'[p] = journal[p]
  BY DEF AcceptStart, AcceptRepair, AcceptStop, AcceptConfirm, RecordConfirmation, JournalIInv, JournalTypes
<1>1. CASE AcceptStart(o)
  <2>1. UNCHANGED << lock, held >> /\ \A p \in Ops \ {o} : execution'[p] = execution[p]
    BY <1>1 DEF AcceptStart, Launch, HostTypes
  <2>2. LockFollowsHolder'
    BY <1>0, <2>1 DEF LockFollowsHolder
  <2>3. CASE UNCHANGED << journal, execution >>
    BY <1>0, <2>1, <2>2, <2>3 DEF WorkIsHeld, VerifiedIsHeld, Planned
  <2>4. CASE UNCHANGED journal /\ Launch(o)
    <3>1. execution'[o] = execution[o] \/ execution'[o] = "waiting"
      BY <2>4 DEF Launch, HostTypes
    <3>2. QED
      BY <1>0, <2>1, <2>2, <2>4, <3>1 DEF WorkIsHeld, VerifiedIsHeld, Planned
  <2>5. CASE journal[o].stage = "none" /\ journal' = [journal EXCEPT ![o].stage = "queued"] /\ Launch(o)
    <3>1. execution[o] # "working"
      BY <2>5 DEF WorkIsHeld, Open
    <3>2. execution'[o] # "working"
      BY <2>5, <3>1 DEF Launch, HostTypes
    <3>3. journal'[o].stage = "queued"
      BY <2>5 DEF JournalIInv, JournalTypes, Journals
    <3>4. QED
      BY <1>0, <2>1, <2>2, <3>2, <3>3 DEF WorkIsHeld, VerifiedIsHeld, Planned
  <2>6. QED
    BY <1>1, <2>3, <2>4, <2>5 DEF AcceptStart
<1>2. CASE AcceptRepair(o)
  <2>1. UNCHANGED << lock, held >> /\ \A p \in Ops \ {o} : execution'[p] = execution[p]
    BY <1>2 DEF AcceptRepair, Launch, HostTypes
  <2>2. execution'[o] = "waiting"
    BY <1>2 DEF AcceptRepair, Launch, HostTypes
  <2>3. LockFollowsHolder'
    BY <1>0, <2>1 DEF LockFollowsHolder
  <2>4. QED
    BY <1>0, <2>1, <2>2, <2>3 DEF WorkIsHeld, VerifiedIsHeld, Planned
<1>3. CASE AcceptStop(o)
  <2>1. UNCHANGED << lock, held, execution >>
    BY <1>3 DEF AcceptStop
  <2>2. LockFollowsHolder'
    BY <1>0, <2>1 DEF LockFollowsHolder
  <2>3. journal'[o] = journal[o] \/ (execution[o] = "idle" /\ journal'[o].stage # "verifying")
    <3>1. CASE UNCHANGED journal
      BY <3>1
    <3>2. CASE execution[o] = "idle" /\ journal' = [journal EXCEPT ![o] = Stopped(o, @)]
      <4>1. journal'[o] = Stopped(o, journal[o])
        BY <3>2 DEF JournalIInv, JournalTypes
      <4>2. QED
        BY <3>2, <4>1, OutcomeTypes DEF JournalIInv, JournalTypes
    <3>3. QED
      BY <1>3, <3>1, <3>2 DEF AcceptStop
  <2>4. QED
    BY <1>0, <2>1, <2>2, <2>3 DEF WorkIsHeld, VerifiedIsHeld, Planned
<1>4. CASE AcceptConfirm(o)
  <2>1. /\ execution[o] = "idle" /\ current = o /\ journal[o].stage \in {"verifying", "succeeded"}
        /\ journal[o].stage = "verifying" => held = o
        /\ UNCHANGED execution
    BY <1>4 DEF AcceptConfirm, RecordConfirmation, Confirmable
  <2>2. \A p \in Ops : execution[p] # "working"
    <3>1. ASSUME NEW p \in Ops, execution[p] = "working"
          PROVE  FALSE
      BY <2>1, <3>1 DEF WorkIsHeld, JournalIInv, JournalTypes
    <3>2. QED
      BY <3>1
  <2>3. journal'[o].stage = "succeeded"
    <3>1. At(journal[o], "succeeded").stage = "succeeded"
      BY CheckpointTypes, StagesAre DEF JournalIInv, JournalTypes
    <3>2. QED
      BY <1>4, <3>1 DEF AcceptConfirm, RecordConfirmation, JournalIInv, JournalTypes
  <2>4. \A p \in Ops : journal'[p].stage = "verifying" => FALSE
    <3>1. ASSUME NEW p \in Ops \ {o}, journal[p].stage = "verifying"
          PROVE  FALSE
      BY <2>1, <3>1 DEF JournalIInv, JournalTypes, Open, Terminal
    <3>2. QED
      BY <1>0, <2>3, <3>1
  <2>5. \/ UNCHANGED << lock, held >>
        \/ held' = Nobody /\ held # Nobody /\ held = lock
    BY <1>4 DEF AcceptConfirm, ReleaseHeld, ReleaseLock, LockFollowsHolder
  <2>6. LockFollowsHolder'
    BY <1>0, <2>5, Names DEF LockFollowsHolder, HostTypes
  <2>7. QED
    BY <2>1, <2>2, <2>4, <2>6 DEF WorkIsHeld, VerifiedIsHeld
<1>5. QED
  BY <1>1, <1>2, <1>3, <1>4

LEMMA HostKeepsLock ==
  ASSUME LockKept, NothingLate, HostTypes, JournalIInv, JournalIInv', LockIInv, HostStep \/ UNCHANGED hostVars
  PROVE  LockIInv'
<1> USE DEF LockIInv
<1>1. ASSUME Crash \/ \E o \in Ops : CrashInConfirm(o)
      PROVE  LockIInv'
  <2>1. /\ up' = FALSE /\ held' = Nobody /\ \A o \in Ops : execution'[o] = "idle"
        /\ UNCHANGED << lifecycle, lock >>
    BY <1>1 DEF Crash, CrashInConfirm, Dies
  <2>2. QED
    BY <2>1 DEF LockFollowsHolder, WorkIsHeld, VerifiedIsHeld
<1>2. ASSUME Serve
      PROVE  LockIInv'
  <2>1. ~up /\ up' /\ UNCHANGED << lifecycle, release, journal, receipts >>
    BY <1>2 DEF Serve
  <2>2. held = Nobody /\ \A o \in Ops : execution[o] = "idle"
    BY <2>1 DEF LockFollowsHolder
  <2>3. \A o \in Ops : execution'[o] # "working"
    BY <1>2, <2>2 DEF Serve, Launch, HostTypes
  <2>4. \/ UNCHANGED << lock, held >> /\ (current = Nobody \/ ~FenceRequired(current))
        \/ held' = current /\ lock' = current /\ lock \in {"free", current} /\ current \in Ops
    BY <1>2 DEF Serve, HostTypes
  <2>5. LockFollowsHolder'
    BY <2>1, <2>2, <2>4, Names DEF LockFollowsHolder
  <2>6. ASSUME NEW o \in Ops, Planned(o), journal[o].stage = "verifying"
        PROVE  held' = o
    <3>1. current = o
      BY <2>6 DEF JournalIInv, JournalTypes, Open, Terminal
    <3>2. FenceRequired(current)
      BY <2>6, <3>1 DEF FenceRequired
    <3>3. QED
      BY <2>4, <3>1, <3>2, Names
  <2>7. QED
    BY <2>1, <2>3, <2>5, <2>6 DEF WorkIsHeld, VerifiedIsHeld, Planned
<1>3. ASSUME LifecycleStarts
      PROVE  LockIInv'
  <2>1. /\ lock = "free" /\ lock' = "lifecycle" /\ UNCHANGED << release, journal, receipts, up, held, execution >>
    BY <1>3 DEF LifecycleStarts
  <2>2. held = Nobody
    BY <2>1, Names DEF LockFollowsHolder, HostTypes
  <2>3. QED
    BY <2>1, <2>2 DEF LockFollowsHolder, WorkIsHeld, VerifiedIsHeld, Planned
<1>4. ASSUME LifecycleEnds
      PROVE  LockIInv'
  <2>1. /\ lifecycle /\ ~lifecycle' /\ UNCHANGED << release, journal, receipts, up, held, execution >>
    BY <1>4 DEF LifecycleEnds
  <2>2. held = Nobody
    BY <2>1, Names DEF LockFollowsHolder, HostTypes
  <2>3. QED
    BY <2>1, <2>2 DEF LockFollowsHolder, WorkIsHeld, VerifiedIsHeld, Planned
<1>5. ~OperatorRemovesLock /\ ~ReleaseLate /\ ~\E o \in Ops : AcceptConfirmLate(o)
  BY DEF OperatorRemovesLock, ReleaseLate, AcceptConfirmLate, Fault, LockKept, NothingLate
<1>6. ASSUME UNCHANGED hostVars
      PROVE  LockIInv'
  BY <1>6 DEF hostVars, LockFollowsHolder, WorkIsHeld, VerifiedIsHeld, Planned
<1>7. QED
  BY <1>1, <1>2, <1>3, <1>4, <1>5, <1>6, ExecutionKeepsLock, RequestsKeepLock DEF HostStep

-----------------------------------------------------------------------------
(* The Server: types of its rows, its requests and its recovery job. *)

ServerTypes ==
    /\ faults \in 0 .. MaxFaults /\ requests \in 0 .. MaxRequests
    /\ row \in [Ops -> Rows]
    /\ paused \in BOOLEAN
    /\ api \in Requests /\ (api.op = Nobody => api.step = "idle")
    /\ job \in Passes /\ (job.op = Nobody => job.step \in {"idle", "watch"})

LEMMA TypeParts == TypeOK <=> HostTypes /\ JournalTypes /\ ServerTypes
  BY DEF TypeOK, HostTypes, JournalTypes, ServerTypes

LEMMA RowTypes ==
  ASSUME NEW r \in Rows, NEW status \in Stages
  PROVE  /\ [r EXCEPT !.status = status] \in Rows
         /\ [r EXCEPT !.status = status].status = status
         /\ [r EXCEPT !.status = status].migration = r.migration
         /\ [r EXCEPT !.status = status].observed = r.observed
  BY DEF Rows

LEMMA RequestTypes ==
  ASSUME NEW step \in {"idle", "stopping", "prepare", "record", "dispatch", "unavailable"},
         NEW o \in Ops, NEW action \in {"start", "repair", "stop"}, NEW copy \in Rows
  PROVE  /\ Request(step, o, action, copy) \in Requests
         /\ Request(step, o, action, copy).step = step
         /\ Request(step, o, action, copy).op = o
         /\ Request(step, o, action, copy).action = action
         /\ Request(step, o, action, copy).copy = copy
  BY DEF Request, Requests

LEMMA AdvanceTypes ==
  ASSUME NEW r \in Requests,
         NEW step \in {"idle", "stopping", "prepare", "record", "dispatch", "unavailable"}
  PROVE  /\ [r EXCEPT !.step = step] \in Requests
         /\ [r EXCEPT !.step = step].step = step
         /\ [r EXCEPT !.step = step].op = r.op
         /\ [r EXCEPT !.step = step].copy = r.copy
  BY DEF Requests

LEMMA RestTypes ==
  /\ NoRequest \in Requests /\ NoRequest.op = Nobody /\ NoRequest.step = "idle"
  /\ NoRequest.copy.status = "none"
  /\ NoEvent \in Passes /\ NoEvent.op = Nobody /\ NoEvent.step = "idle"
  /\ Watch \in Passes /\ Watch.op = Nobody /\ Watch.step = "watch"
<1>1. "none" \in Stages
  BY StagesAre
<1>2. [status |-> "none", migration |-> "not_started", observed |-> FALSE] \in Rows
  BY <1>1 DEF Rows, Migrations
<1>3. NoRequest \in Requests /\ NoRequest.op = Nobody /\ NoRequest.step = "idle" /\ NoRequest.copy.status = "none"
  BY <1>2 DEF NoRequest, Requests
<1>4. NoEvent \in Passes /\ NoEvent.op = Nobody /\ NoEvent.step = "idle"
  BY <1>1 DEF NoEvent, Passes, Migrations
<1>5. Watch \in Passes /\ Watch.op = Nobody /\ Watch.step = "watch"
  BY <1>4 DEF Watch, Passes
<1>6. QED
  BY <1>3, <1>4, <1>5

LEMMA WriteTypes ==
  ASSUME row \in [Ops -> Rows], paused \in BOOLEAN, NEW o \in Ops, NEW copy \in Rows
  PROVE  /\ Update(o, copy) => row' \in [Ops -> Rows]
         /\ \A expected : Transition(o, expected, copy) => row' \in [Ops -> Rows] /\ paused' \in BOOLEAN
  BY DEF Update, Transition

LEMMA FaultTypes ==
  ASSUME ServerTypes, NEW event, Fault(event)
  PROVE  faults' \in 0 .. MaxFaults
<1>1. MaxFaults \in Nat
  BY UpgradeAssumption, Zenon
<1>2. QED
  BY <1>1 DEF ServerTypes, Fault

LEMMA RequestBound == ServerTypes /\ requests < MaxRequests => requests + 1 \in 0 .. MaxRequests
<1>1. MaxRequests \in Nat
  BY UpgradeAssumption, Zenon
<1>2. QED
  BY <1>1 DEF ServerTypes

(* Every step of the system is, on the host, a step of the host or none. *)
LEMMA StepIsHostStep ==
  ASSUME ServerTypes, [Next]_vars
  PROVE  HostStep \/ UNCHANGED hostVars
<1>1. CASE HostNext
  BY <1>1 DEF HostNext, HostStep
<1>2. CASE Dispatch
  <2>1. api.op \in Ops
    BY <1>2 DEF Dispatch, ServerTypes, Requests
  <2>2. QED
    BY <1>2, <2>1 DEF Dispatch, Accept, HostStep
<1>3. CASE JobConfirms
  <2>1. job.op \in Ops
    BY <1>3 DEF JobConfirms, ServerTypes, Passes
  <2>2. QED
    BY <1>3, <2>1 DEF JobConfirms, HostStep
<1>4. CASE RequestStep /\ ~Dispatch
  BY <1>4 DEF RequestStep, EnterStopping, Prepare, RecordCancellation, MarkUnavailable
<1>5. CASE JobStep /\ ~JobConfirms
  BY <1>5 DEF JobStep, JobReads, JobReconciles, JobVerifies, JobSucceeds, JobRests
<1>6. CASE JobFindsUnreadable \/ JobStalls \/ ServerRestarts \/ UNCHANGED vars
  BY <1>6 DEF JobFindsUnreadable, JobStalls, ServerRestarts, vars
<1>7. CASE \E o \in Ops : Create(o) \/ Retry(o) \/ Stop(o)
  BY <1>7 DEF Create, Retry, Stop
<1>8. QED
  BY <1>1, <1>2, <1>3, <1>4, <1>5, <1>6, <1>7 DEF Next

LEMMA RequestsKeepTypes ==
  ASSUME ServerTypes, \/ \E o \in Ops : Create(o) \/ Retry(o) \/ Stop(o)
                      \/ RequestStep
  PROVE  ServerTypes'
<1>0. {"queued", "stopping", "failed", "restarting", "needs_recovery", "needs_attention"} \subseteq Stages
  BY StagesAre
<1>1. ASSUME NEW o \in Ops, Create(o)
      PROVE  ServerTypes'
  <2>1. PICK copy \in Rows : copy = [row[o] EXCEPT !.status = "queued"]
    BY <1>0, RowTypes DEF ServerTypes
  <2>2. \E step \in {"dispatch", "stopping"} : api' = Request(step, o, "start", copy)
    BY <1>1, <2>1 DEF Create
  <2>3. api' \in Requests /\ api'.op = o
    BY <2>2, RequestTypes
  <2>4. QED
    BY <1>1, <2>1, <2>3, Names DEF Create, ServerTypes
<1>2. ASSUME NEW o \in Ops, Retry(o)
      PROVE  ServerTypes'
  <2>1. RetryStatus(row[o]) \in Stages /\ RetryMigration(row[o]) \in Migrations
    BY <1>0 DEF RetryStatus, RetryMigration, ServerTypes, Rows, Migrations
  <2>2. PICK copy \in Rows : copy = [row[o] EXCEPT !.status = RetryStatus(row[o]), !.migration = RetryMigration(row[o])]
    BY <2>1 DEF ServerTypes, Rows
  <2>3. api' = Request("dispatch", o, "repair", copy) /\ row' = [row EXCEPT ![o] = copy]
    BY <1>2, <2>2 DEF Retry
  <2>4. api' \in Requests /\ api'.op = o
    BY <2>3, RequestTypes
  <2>5. QED
    BY <1>2, <2>3, <2>4, Names, RequestBound DEF Retry, ServerTypes
<1>3. ASSUME NEW o \in Ops, Stop(o)
      PROVE  ServerTypes'
  <2>1. api' = Request("dispatch", o, "stop", row[o]) /\ row[o] \in Rows
    BY <1>3 DEF Stop, ServerTypes
  <2>2. api' \in Requests /\ api'.op = o
    BY <2>1, RequestTypes
  <2>3. QED
    BY <1>3, <2>2, Names, RequestBound DEF Stop, ServerTypes
<1>4. ASSUME RequestStep
      PROVE  api \in Requests /\ api.op \in Ops /\ api.copy \in Rows /\ api.action \in {"start", "repair", "stop"}
  BY <1>4 DEF RequestStep, EnterStopping, Prepare, RecordCancellation, Dispatch, MarkUnavailable,
              ServerTypes, Requests
<1>5. ASSUME EnterStopping
      PROVE  ServerTypes'
  <2>1. PICK copy \in Rows : copy = [api.copy EXCEPT !.status = "stopping"]
    BY <1>0, <1>4, <1>5, RowTypes DEF RequestStep
  <2>2. api' = Request("prepare", api.op, "start", copy) \/ api' = NoRequest
    BY <1>5, <2>1 DEF EnterStopping
  <2>3. api' \in Requests /\ (api'.op = Nobody => api'.step = "idle")
    BY <1>4, <1>5, <2>2, RequestTypes, RestTypes, Names DEF RequestStep
  <2>4. row' \in [Ops -> Rows]
    BY <1>4, <1>5, <2>1, WriteTypes DEF EnterStopping, RequestStep, ServerTypes
  <2>5. QED
    BY <1>5, <2>3, <2>4 DEF EnterStopping, ServerTypes
<1>6. ASSUME Prepare
      PROVE  ServerTypes'
  <2>1. PICK copy \in Rows : copy = [api.copy EXCEPT !.status = "failed"]
    BY <1>0, <1>4, <1>6, RowTypes DEF RequestStep
  <2>2. api' = [api EXCEPT !.step = "record"] \/ api' = NoRequest
    BY <1>6 DEF Prepare
  <2>3. api' \in Requests /\ (api'.op = Nobody => api'.step = "idle")
    <3>1. api \in Requests /\ api.op \in Ops
      BY <1>4, <1>6 DEF RequestStep
    <3>2. [api EXCEPT !.step = "record"] \in Requests /\ [api EXCEPT !.step = "record"].op \in Ops
      BY <3>1, AdvanceTypes
    <3>3. QED
      BY <2>2, <3>2, RestTypes, Names
  <2>4. row' \in [Ops -> Rows] /\ paused' \in BOOLEAN
    BY <1>4, <1>6, <2>1, WriteTypes DEF Prepare, RequestStep, ServerTypes
  <2>5. QED
    BY <1>6, <2>3, <2>4 DEF Prepare, ServerTypes
<1>7. ASSUME RecordCancellation
      PROVE  ServerTypes'
  <2>1. api' = [api EXCEPT !.step = "dispatch"] \/ api' = NoRequest
    BY <1>7 DEF RecordCancellation
  <2>2. api' \in Requests /\ (api'.op = Nobody => api'.step = "idle")
    <3>1. api \in Requests /\ api.op \in Ops
      BY <1>4, <1>7 DEF RequestStep
    <3>2. [api EXCEPT !.step = "dispatch"] \in Requests /\ [api EXCEPT !.step = "dispatch"].op \in Ops
      BY <3>1, AdvanceTypes
    <3>3. QED
      BY <2>1, <3>2, RestTypes, Names
  <2>3. row' \in [Ops -> Rows]
    BY <1>4, <1>7, WriteTypes DEF RecordCancellation, RequestStep, ServerTypes
  <2>4. QED
    BY <1>7, <2>2, <2>3 DEF RecordCancellation, ServerTypes
<1>8. ASSUME Dispatch
      PROVE  ServerTypes'
  <2>1. api' = [api EXCEPT !.step = "unavailable"] \/ api' = NoRequest
    BY <1>8 DEF Dispatch
  <2>2. api' \in Requests /\ (api'.op = Nobody => api'.step = "idle")
    <3>1. api \in Requests /\ api.op \in Ops
      BY <1>4, <1>8 DEF RequestStep
    <3>2. [api EXCEPT !.step = "unavailable"] \in Requests /\ [api EXCEPT !.step = "unavailable"].op \in Ops
      BY <3>1, AdvanceTypes
    <3>3. QED
      BY <2>1, <3>2, RestTypes, Names
  <2>3. faults' \in 0 .. MaxFaults
    BY <1>8, FaultTypes DEF Dispatch, ServerTypes
  <2>4. QED
    BY <1>8, <2>2, <2>3 DEF Dispatch, ServerTypes
<1>9. ASSUME MarkUnavailable
      PROVE  ServerTypes'
  <2>1. \E outcome \in {"needs_recovery", "needs_attention", "failed"} :
            Update(api.op, [api.copy EXCEPT !.status = outcome])
    BY <1>9 DEF MarkUnavailable
  <2>2. row' \in [Ops -> Rows]
    BY <1>0, <1>4, <1>9, <2>1, RowTypes, WriteTypes DEF RequestStep, ServerTypes
  <2>3. QED
    BY <1>9, <2>2, RestTypes DEF MarkUnavailable, ServerTypes
<1>10. QED
  BY <1>1, <1>2, <1>3, <1>5, <1>6, <1>7, <1>8, <1>9 DEF RequestStep

LEMMA PassTypes ==
  ASSUME NEW p \in Passes, NEW step \in {"idle", "event", "verify", "confirm", "succeed", "watch"}
  PROVE  /\ [p EXCEPT !.step = step] \in Passes
         /\ [p EXCEPT !.step = step].step = step
         /\ [p EXCEPT !.step = step].op = p.op
         /\ [p EXCEPT !.step = step].stage = p.stage
         /\ [p EXCEPT !.step = step].migration = p.migration
         /\ [p EXCEPT !.step = step].observed = p.observed
  BY DEF Passes

(* What the recovery job makes of an event. *)
LEMMA VerdictTypes ==
  ASSUME ServerTypes, NEW o \in Ops, NEW e \in Passes
  PROVE  /\ Status(o, e) \in (Stages \ {"succeeded"}) \cup {"ignored", "error"}
         /\ Terminal(row[o].status) => Status(o, e) \in {"ignored", "error", "needs_recovery"}
         /\ row[o].status = "succeeded" => Status(o, e) = "ignored"
<1>1. row[o].status \in Stages /\ e.stage \in Stages
  BY DEF ServerTypes, Rows, Passes
<1>2. Requested(o, e) \in Stages \ {"succeeded"}
  BY <1>1, StagesAre DEF Requested, Open, Terminal
<1>3. Terminal(row[o].status) => ~Open(row[o].status)
  BY DEF Open
<1>4. Status(o, e) \in {"ignored", "error", "needs_attention", Requested(o, e)}
  BY DEF Status
<1>5. Terminal(row[o].status) => Status(o, e) \in {"ignored", "error", "needs_recovery"}
  BY <1>3 DEF Status, Replayable, Terminal
<1>6. row[o].status = "succeeded" => Status(o, e) = "ignored"
  BY DEF Status, Terminal
<1>7. QED
  BY <1>2, <1>4, <1>5, <1>6, StagesAre

LEMMA MigrationOfBoth ==
  ASSUME NEW a \in Migrations, NEW b \in Migrations
  PROVE  Stronger(a, b) \in {a, b}
  BY DEF Stronger

LEMMA JobKeepsTypes ==
  ASSUME ServerTypes, HostTypes, JournalTypes, JobStep \/ JobFindsUnreadable \/ JobStalls
  PROVE  ServerTypes'
<1>0. {"needs_recovery", "needs_attention", "failed", "verifying", "succeeded"} \subseteq Stages
  BY StagesAre
<1>1. /\ job \in Passes /\ row \in [Ops -> Rows] /\ paused \in BOOLEAN
      /\ job.step \in {"event", "verify", "confirm", "succeed"} => job.op \in Ops
  BY DEF ServerTypes, Passes
<1>2. ASSUME JobReads
      PROVE  ServerTypes'
  <2>1. CASE current = Nobody
    BY <1>2, <2>1, RestTypes DEF JobReads, ServerTypes
  <2>2. CASE current # Nobody
    <3>1. current \in Ops /\ journal[current] \in Journals
      BY <2>2 DEF HostTypes, JournalTypes
    <3>2. journal[current].stage \in Stages /\ journal[current].migration \in Migrations
      BY <3>1 DEF Journals
    <3>3. job' \in Passes /\ job'.op \in Ops
      BY <1>2, <2>2, <3>1, <3>2 DEF JobReads, Passes
    <3>4. QED
      BY <1>2, <3>3, Names DEF JobReads, ServerTypes
  <2>3. QED
    BY <2>1, <2>2
<1>3. ASSUME JobFindsUnreadable
      PROVE  ServerTypes'
  <2>1. \/ UNCHANGED << row, paused >>
        \/ \E o \in Ops, outcome \in {"needs_recovery", "needs_attention", "failed"} :
             Transition(o, row[o].status, [row[o] EXCEPT !.status = outcome])
    BY <1>3 DEF JobFindsUnreadable
  <2>2. row' \in [Ops -> Rows] /\ paused' \in BOOLEAN
    BY <1>0, <1>1, <2>1, RowTypes, WriteTypes
  <2>3. faults' \in 0 .. MaxFaults
    BY <1>3, FaultTypes DEF JobFindsUnreadable
  <2>4. QED
    BY <1>3, <2>2, <2>3, RestTypes DEF JobFindsUnreadable, ServerTypes
<1>4. ASSUME JobReconciles
      PROVE  ServerTypes'
  <2>1. PICK o \in Ops : o = job.op
    BY <1>1, <1>4 DEF JobReconciles
  <2>2. PICK to : to = Status(o, job)
    OBVIOUS
  <2>3. to \in Stages \cup {"ignored", "error"}
    BY <1>1, <2>2, VerdictTypes
  <2>4. row' \in [Ops -> Rows] /\ paused' \in BOOLEAN
    <3>1. CASE UNCHANGED << row, paused >>
      BY <1>1, <3>1
    <3>2. CASE to \notin {"ignored", "error"}
      <4>1. PICK r \in Rows : r = [status |-> to, migration |-> Stronger(row[o].migration, job.migration),
                                   observed |-> row[o].observed \/ job.observed]
        <5>1. /\ row[o].migration \in Migrations /\ job.migration \in Migrations
              /\ row[o].observed \in BOOLEAN /\ job.observed \in BOOLEAN
          BY <1>1 DEF Rows, Passes
        <5>2. Stronger(row[o].migration, job.migration) \in Migrations
          BY <5>1, MigrationOfBoth
        <5>3. (row[o].observed \/ job.observed) \in BOOLEAN
          BY <5>1
        <5>4. QED
          BY <2>3, <3>2, <5>2, <5>3 DEF Rows
      <4>2. Transition(o, row[o].status, r)
        BY <1>4, <2>1, <2>2, <3>2, <4>1 DEF JobReconciles
      <4>3. QED
        BY <1>1, <4>2, WriteTypes
    <3>3. QED
      BY <1>4, <2>1, <2>2, <3>1, <3>2 DEF JobReconciles
  <2>5. \/ job' = NoEvent \/ job' = Watch
        \/ job' = [job EXCEPT !.step = "verify", !.stage = to] /\ to \in {"verifying", "agent_verifying"}
    BY <1>4, <2>1, <2>2 DEF JobReconciles
  <2>6. [job EXCEPT !.step = "verify", !.stage = to].op = o
        /\ (to \in Stages => [job EXCEPT !.step = "verify", !.stage = to] \in Passes)
    BY <1>1, <2>1 DEF Passes
  <2>7. job' \in Passes /\ (job'.op = Nobody => job'.step \in {"idle", "watch"})
    BY <2>3, <2>5, <2>6, RestTypes, Names
  <2>8. QED
    BY <1>4, <2>4, <2>7 DEF JobReconciles, ServerTypes
<1>5. ASSUME JobVerifies
      PROVE  ServerTypes'
  <2>1. PICK o \in Ops : o = job.op
    BY <1>1, <1>5 DEF JobVerifies
  <2>2. \/ UNCHANGED << row, paused >>
        \/ \E status \in {"needs_attention", "needs_recovery", "verifying"} :
             Transition(o, job.stage, [row[o] EXCEPT !.status = status])
    BY <1>5, <2>1 DEF JobVerifies
  <2>3. row' \in [Ops -> Rows] /\ paused' \in BOOLEAN
    BY <1>0, <1>1, <2>2, RowTypes, WriteTypes
  <2>4. job' = Watch \/ \E step \in {"confirm", "succeed"} : job' = [job EXCEPT !.step = step]
    BY <1>5 DEF JobVerifies
  <2>5. \A step \in {"confirm", "succeed"} :
          [job EXCEPT !.step = step] \in Passes /\ [job EXCEPT !.step = step].op = o
    <3>1. [job EXCEPT !.step = "confirm"] \in Passes /\ [job EXCEPT !.step = "confirm"].op = o
      BY <1>1, <2>1, PassTypes
    <3>2. [job EXCEPT !.step = "succeed"] \in Passes /\ [job EXCEPT !.step = "succeed"].op = o
      BY <1>1, <2>1, PassTypes
    <3>3. QED
      BY <3>1, <3>2
  <2>6. job' \in Passes /\ (job'.op = Nobody => job'.step \in {"idle", "watch"})
    BY <2>4, <2>5, RestTypes, Names
  <2>7. QED
    BY <1>5, <2>3, <2>6 DEF JobVerifies, ServerTypes
<1>6. ASSUME JobConfirms
      PROVE  ServerTypes'
  <2>1. job' = Watch \/ job' = [job EXCEPT !.step = "succeed"]
    BY <1>6 DEF JobConfirms
  <2>2. [job EXCEPT !.step = "succeed"] \in Passes /\ [job EXCEPT !.step = "succeed"].op \in Ops
    BY <1>1, <1>6, PassTypes DEF JobConfirms
  <2>3. job' \in Passes /\ (job'.op = Nobody => job'.step \in {"idle", "watch"})
    BY <2>1, <2>2, RestTypes, Names
  <2>4. faults' \in 0 .. MaxFaults
    BY <1>6, FaultTypes DEF JobConfirms, ServerTypes
  <2>5. QED
    BY <1>6, <2>3, <2>4 DEF JobConfirms, ServerTypes
<1>7. ASSUME JobSucceeds
      PROVE  ServerTypes'
  <2>1. PICK o \in Ops : o = job.op
    BY <1>1, <1>7 DEF JobSucceeds
  <2>2. PICK r \in Rows : r = [row[o] EXCEPT !.status = "succeeded"]
    BY <1>0, <1>1, RowTypes
  <2>3. row' \in [Ops -> Rows] /\ paused' \in BOOLEAN
    BY <1>1, <1>7, <2>1, <2>2, WriteTypes DEF JobSucceeds
  <2>4. QED
    BY <1>7, <2>3, RestTypes DEF JobSucceeds, ServerTypes
<1>8. ASSUME JobStalls
      PROVE  ServerTypes'
  <2>1. \E o \in Ops, outcome \in {"needs_recovery", "needs_attention"} :
             Transition(o, row[o].status, [row[o] EXCEPT !.status = outcome])
    BY <1>8 DEF JobStalls
  <2>2. row' \in [Ops -> Rows] /\ paused' \in BOOLEAN
    BY <1>0, <1>1, <2>1, RowTypes, WriteTypes
  <2>3. QED
    BY <1>8, <2>2, RestTypes DEF JobStalls, ServerTypes
<1>9. ASSUME JobRests
      PROVE  ServerTypes'
  BY <1>9, RestTypes DEF JobRests, ServerTypes
<1>10. QED
  BY <1>2, <1>3, <1>4, <1>5, <1>6, <1>7, <1>8, <1>9 DEF JobStep

LEMMA UpgradeInit == Init => HostTypes /\ JournalIInv /\ ServerTypes /\ LockIInv /\ EvidenceIInv
<1>1. 0 \in 0 .. MaxFaults /\ 0 \in 0 .. MaxRequests
  <2>1. MaxFaults \in Nat /\ MaxRequests \in Nat
    BY UpgradeAssumption, Zenon
  <2>2. QED
    BY <2>1
<1>2. [stage |-> "none", migration |-> "not_started", repair |-> "queued"] \in Journals
      /\ [status |-> "none", migration |-> "not_started", observed |-> FALSE] \in Rows
  BY StagesAre DEF Journals, Rows, Migrations
<1>3. Init => HostTypes
  BY DEF Init, HostInit, HostTypes
<1>4. Init => JournalIInv
  BY <1>2 DEF Init, HostInit, JournalIInv, JournalTypes, JournalRemembers, FailureIsClean, Open
<1>5. Init => ServerTypes
  BY <1>1, <1>2, RestTypes DEF Init, HostInit, ServerTypes
<1>6. Init => LockIInv
  BY DEF Init, HostInit, LockIInv, LockFollowsHolder, WorkIsHeld, VerifiedIsHeld
<1>7. Init => EvidenceIInv
  <2>1. ASSUME Init
        PROVE  EvidenceIInv
    <3>1. /\ \A o \in Ops : row[o].status = "none" /\ row[o].migration = "not_started" /\ row[o].observed = FALSE
          /\ api.op = Nobody /\ job.op = Nobody /\ job.step = "idle" /\ api.copy.status = "none"
      BY <2>1, RestTypes DEF Init
    <3>2. QED
      BY <3>1, Names DEF EvidenceIInv, EvidenceIsShown, Shown, CopiesAreOpen, Terminal, SuccessIsProven
  <2>2. QED
    BY <2>1
<1>8. QED
  BY <1>3, <1>4, <1>5, <1>6, <1>7

LEMMA TypeStep ==
  ASSUME HostTypes, JournalIInv, ServerTypes, [Next]_vars
  PROVE  HostTypes' /\ JournalIInv' /\ ServerTypes' /\ EvidenceGrows
<1>1. HostStep \/ UNCHANGED hostVars
  BY StepIsHostStep
<1>2. HostTypes' /\ JournalIInv' /\ EvidenceGrows
  BY <1>1, HostKeepsTypes, HostKeepsJournal
<1>3. ServerTypes'
  <2>1. ASSUME HostNext, UNCHANGED serverVars
        PROVE  ServerTypes'
    <3>1. UNCHANGED faults \/ \E event \in Events : Fault(event)
      BY <2>1 DEF HostNext, Execution, Begin, StopWaiting, Proceed, CommandFails, StartMigration,
                  MigrationReturns, Complete, KeepUnproved, Finish, CrashInConfirm, Crash, Serve, LifecycleStarts,
                  LifecycleEnds, OperatorRemovesLock, ReleaseLate, Fault
    <3>2. faults' \in 0 .. MaxFaults
      BY <3>1, FaultTypes DEF ServerTypes
    <3>3. QED
      BY <2>1, <3>2 DEF serverVars, ServerTypes
  <2>2. ASSUME ServerRestarts
        PROVE  ServerTypes'
    <3>1. faults' \in 0 .. MaxFaults
      BY <2>2, FaultTypes DEF ServerRestarts
    <3>2. QED
      BY <2>2, <3>1, RestTypes DEF ServerRestarts, ServerTypes
  <2>3. ASSUME UNCHANGED vars
        PROVE  ServerTypes'
    BY <2>3 DEF vars, serverVars, ServerTypes
  <2>4. QED
    BY <2>1, <2>2, <2>3, RequestsKeepTypes, JobKeepsTypes DEF Next, JournalIInv
<1>4. QED
  BY <1>2, <1>3

LEMMA TypesHold == Spec => [](HostTypes /\ JournalIInv /\ ServerTypes)
  BY UpgradeInit, TypeStep, PTL DEF Spec

(* Rows, requests, events, journals and locks hold what the code writes, and
   current.json names the one operation the host has open. *)
THEOREM UpgradeTypeCorrectness == Spec => []TypeOK
<1>1. HostTypes /\ JournalIInv /\ ServerTypes => TypeOK
  BY TypeParts DEF JournalIInv
<1>2. QED
  BY <1>1, TypesHold, PTL

(* A migration command is started at most once. *)
THEOREM OneMigration == Spec => []MigrationRunsOnce
<1>1. JournalIInv => MigrationRunsOnce
  BY DEF JournalIInv, JournalRemembers, MigrationRunsOnce
<1>2. QED
  BY <1>1, TypesHold, PTL

(* What the host ends as failed never started its migration command. *)
THEOREM CleanFailure == Spec => []FailureIsClean
<1>1. JournalIInv => FailureIsClean
  BY DEF JournalIInv
<1>2. QED
  BY <1>1, TypesHold, PTL

LEMMA LockHolds ==
  ASSUME LockKept
  PROVE  Spec => []LockIInv
<1>1. ServerTypes /\ NothingLate /\ [Next]_vars => NothingLate'
  BY StepIsHostStep, NothingComesLate
<1>2. HostTypes /\ JournalIInv /\ ServerTypes /\ NothingLate /\ LockIInv /\ [Next]_vars => LockIInv'
  BY TypeStep, StepIsHostStep, HostKeepsLock
<1>3. Init => NothingLate
  BY DEF Init, HostInit, NothingLate
<1>4. QED
  BY <1>1, <1>2, <1>3, UpgradeInit, TypesHold, PTL DEF Spec

(* Unless an operator removes the lock of an ended operation, or a confirmation
   nobody waits for releases one late, the Compose commands of an operation run
   alone. *)
THEOREM MutationsExclude ==
  ASSUME LockKept
  PROVE  Spec => []MutationsNeverOverlap
<1>1. LockIInv => MutationsNeverOverlap
  BY Names DEF LockIInv, LockFollowsHolder, WorkIsHeld, MutationsNeverOverlap
<1>2. QED
  BY <1>1, LockHolds, PTL

(* And the host that waits for a confirmation has the lock. *)
THEOREM ConfirmationFence ==
  ASSUME LockKept
  PROVE  Spec => []ConfirmationIsFenced
<1>1. LockIInv => ConfirmationIsFenced
  BY Names DEF LockIInv, LockFollowsHolder, VerifiedIsHeld, ConfirmationIsFenced
<1>2. QED
  BY <1>1, LockHolds, PTL

-----------------------------------------------------------------------------
(* What the Server writes, the host's records show when it writes it. *)

RowsAreBacked ==
    \A o \in Ops : row'[o] # row[o] =>
        /\ Shown(o, row'[o])
        /\ row[o].status # "succeeded"
        /\ row'[o].status = "succeeded" => Proven(o) /\ (Planned(o) => o \in confirmed)

RequestIsBacked ==
    /\ api'.op \in Ops => Shown(api'.op, api'.copy)
    /\ ~Terminal(api'.copy.status)

PassIsBacked ==
    /\ job'.op \in Ops => Shown(job'.op, job')
    /\ job'.step = "verify" => job'.stage \in {"verifying", "agent_verifying"}
    /\ job'.step \in {"confirm", "succeed"} => Proven(job'.op)
    /\ job'.step = "succeed" /\ Planned(job'.op) => job'.op \in confirmed'

LEMMA BackedEvidence ==
  ASSUME HostTypes, ServerTypes, ServerTypes', EvidenceIInv, EvidenceGrows,
         RowsAreBacked, RequestIsBacked, PassIsBacked
  PROVE  EvidenceIInv'
<1>1. \A o \in Ops, r \in Rows : Shown(o, r) =>
          (r.observed => o \in receipts') /\ (r.migration = "succeeded" => journal'[o].migration = "succeeded")
  BY DEF Shown, EvidenceGrows
<1>2. \A o \in Ops : Proven(o) => Proven(o)'
  BY DEF Proven, EvidenceGrows, Migrates
<1>3. (\A o \in Ops : Shown(o, row[o]))'
  <2>1. ASSUME NEW o \in Ops
        PROVE  Shown(o, row'[o])
    BY DEF RowsAreBacked, EvidenceIInv, EvidenceIsShown
  <2>2. QED
    BY <1>1, <2>1 DEF Shown, ServerTypes
<1>4. (api.op \in Ops => Shown(api.op, api.copy))'
  BY <1>1 DEF RequestIsBacked, Shown, ServerTypes, Requests
<1>5. (job.op \in Ops => Shown(job.op, job))'
  BY DEF PassIsBacked, Shown, EvidenceGrows
<1>6. (job.step \in {"confirm", "succeed"} => Proven(job.op))'
  <2>1. job'.step \in {"confirm", "succeed"} => job'.op \in Ops
    BY DEF ServerTypes, Passes
  <2>2. QED
    BY <1>2, <2>1 DEF PassIsBacked, Proven, EvidenceGrows, Migrates
<1>7. (job.step = "succeed" /\ Planned(job.op) => job.op \in confirmed)'
  BY DEF PassIsBacked, Planned, EvidenceGrows
<1>8. CopiesAreOpen'
  BY DEF RequestIsBacked, PassIsBacked, CopiesAreOpen, Terminal
<1>9. SuccessIsProven'
  <2>1. ASSUME NEW o \in Ops, row'[o].status = "succeeded"
        PROVE  Proven(o) /\ (Planned(o) => o \in confirmed)
    BY <2>1 DEF RowsAreBacked, EvidenceIInv, SuccessIsProven, Proven
  <2>2. QED
    BY <1>2, <2>1 DEF SuccessIsProven, Proven, Planned, EvidenceGrows
<1>10. QED
  BY <1>3, <1>4, <1>5, <1>6, <1>7, <1>8, <1>9 DEF EvidenceIInv, EvidenceIsShown

(* Writes of a row, by a request and by the recovery job. *)
LEMMA UpdateIsBacked ==
  ASSUME ServerTypes, NEW o \in Ops, NEW copy \in Rows, Update(o, copy), Shown(o, copy),
         copy.status # "succeeded"
  PROVE  RowsAreBacked
<1>1. CASE Writable(o, copy.status)
  <2>1. \A p \in Ops : row'[p] = IF p = o THEN copy ELSE row[p]
    BY <1>1 DEF Update, ServerTypes
  <2>2. row[o].status # "succeeded"
    BY <1>1 DEF Writable, Terminal
  <2>3. QED
    BY <2>1, <2>2 DEF RowsAreBacked
<1>2. CASE ~Writable(o, copy.status)
  BY <1>2 DEF Update, RowsAreBacked
<1>3. QED
  BY <1>1, <1>2

LEMMA TransitionIsBacked ==
  ASSUME ServerTypes, NEW o \in Ops, NEW expected, NEW new \in Rows, Transition(o, expected, new),
         Shown(o, new), expected # "succeeded",
         new.status = "succeeded" => Proven(o) /\ (Planned(o) => o \in confirmed)
  PROVE  RowsAreBacked
<1>1. CASE row[o].status = expected
  <2>1. \A p \in Ops : row'[p] = IF p = o THEN new ELSE row[p]
    BY <1>1 DEF Transition, ServerTypes
  <2>2. QED
    BY <1>1, <2>1 DEF RowsAreBacked
<1>2. CASE row[o].status # expected
  BY <1>2 DEF Transition, RowsAreBacked
<1>3. QED
  BY <1>1, <1>2

LEMMA SameShown ==
  ASSUME NEW o \in Ops, NEW r, NEW q, Shown(o, r), q.observed = r.observed, q.migration = r.migration
  PROVE  Shown(o, q)
  BY DEF Shown

LEMMA RestIsBacked ==
  /\ api' = NoRequest => RequestIsBacked
  /\ job' = NoEvent \/ job' = Watch => PassIsBacked
  BY RestTypes, Names DEF RequestIsBacked, PassIsBacked, Terminal

LEMMA UnchangedIsBacked ==
  ASSUME EvidenceIInv, EvidenceGrows
  PROVE  /\ UNCHANGED row => RowsAreBacked
         /\ UNCHANGED api => RequestIsBacked
         /\ UNCHANGED job => PassIsBacked
  BY DEF EvidenceIInv, EvidenceIsShown, CopiesAreOpen, RowsAreBacked, RequestIsBacked, PassIsBacked,
         EvidenceGrows

LEMMA RequestsAreBacked ==
  ASSUME ServerTypes, EvidenceIInv, EvidenceGrows,
         \/ \E o \in Ops : Create(o) \/ Retry(o) \/ Stop(o)
         \/ RequestStep
  PROVE  RowsAreBacked /\ RequestIsBacked /\ PassIsBacked
<1>0. {"queued", "stopping", "failed", "restarting", "needs_recovery", "needs_attention"} \subseteq Stages
  BY StagesAre
<1>1. PassIsBacked
  <2>1. UNCHANGED job
    BY DEF Create, Retry, Stop, RequestStep, EnterStopping, Prepare, RecordCancellation, Dispatch, MarkUnavailable
  <2>2. QED
    BY <2>1, UnchangedIsBacked
<1>2. ASSUME NEW o \in Ops
      PROVE  row[o] \in Rows /\ Shown(o, row[o])
  BY DEF ServerTypes, EvidenceIInv, EvidenceIsShown
<1>3. ASSUME NEW o \in Ops, Create(o)
      PROVE  RowsAreBacked /\ RequestIsBacked
  <2>1. PICK copy \in Rows : /\ copy = [row[o] EXCEPT !.status = "queued"] /\ copy.status = "queued"
                             /\ copy.observed = row[o].observed /\ copy.migration = row[o].migration
    BY <1>0, <1>2, RowTypes
  <2>2. Shown(o, copy)
    BY <1>2, <2>1, SameShown
  <2>3. \E step \in {"dispatch", "stopping"} : api' = Request(step, o, "start", copy)
    BY <1>3, <2>1 DEF Create
  <2>4. api'.op = o /\ api'.copy = copy
    BY <2>3, RequestTypes
  <2>5. \A p \in Ops : row'[p] = IF p = o THEN copy ELSE row[p]
    BY <1>3, <2>1 DEF Create, ServerTypes
  <2>6. RowsAreBacked
    BY <1>3, <2>1, <2>2, <2>5 DEF Create, RowsAreBacked
  <2>7. QED
    BY <2>1, <2>2, <2>4, <2>6 DEF RequestIsBacked, Terminal
<1>4. ASSUME NEW o \in Ops, Retry(o)
      PROVE  RowsAreBacked /\ RequestIsBacked
  <2>1. RetryStatus(row[o]) \in {"restarting", "queued"}
        /\ RetryMigration(row[o]) \in {"not_started", row[o].migration}
    BY DEF RetryStatus, RetryMigration
  <2>2. PICK copy \in Rows :
          /\ copy = [row[o] EXCEPT !.status = RetryStatus(row[o]), !.migration = RetryMigration(row[o])]
          /\ copy.status \in {"restarting", "queued"} /\ copy.observed = row[o].observed
          /\ copy.migration \in {"not_started", row[o].migration}
    <3>1. RetryStatus(row[o]) \in Stages /\ RetryMigration(row[o]) \in Migrations
      BY <1>0, <1>2, <2>1 DEF Rows, Migrations
    <3>2. PICK status \in Stages, migration \in Migrations :
            status = RetryStatus(row[o]) /\ migration = RetryMigration(row[o])
      BY <3>1
    <3>3. [row[o] EXCEPT !.status = status, !.migration = migration] \in Rows
      BY <1>2 DEF Rows
    <3>4. /\ [row[o] EXCEPT !.status = status, !.migration = migration].status = status
          /\ [row[o] EXCEPT !.status = status, !.migration = migration].migration = migration
          /\ [row[o] EXCEPT !.status = status, !.migration = migration].observed = row[o].observed
      BY <1>2 DEF Rows
    <3>5. QED
      BY <2>1, <3>2, <3>3, <3>4
  <2>3. Shown(o, copy)
    BY <1>2, <2>2 DEF Shown
  <2>4. api' = Request("dispatch", o, "repair", copy) /\ row' = [row EXCEPT ![o] = copy]
        /\ row[o].status # "succeeded"
    BY <1>4, <2>2 DEF Retry, Retryable
  <2>5. api'.op = o /\ api'.copy = copy
    BY <2>4, RequestTypes
  <2>6. \A p \in Ops : row'[p] = IF p = o THEN copy ELSE row[p]
    BY <2>4 DEF ServerTypes
  <2>7. RowsAreBacked
    BY <2>2, <2>3, <2>4, <2>6 DEF RowsAreBacked
  <2>8. QED
    BY <2>2, <2>3, <2>5, <2>7 DEF RequestIsBacked, Terminal
<1>5. ASSUME NEW o \in Ops, Stop(o)
      PROVE  RowsAreBacked /\ RequestIsBacked
  <2>1. api' = Request("dispatch", o, "stop", row[o]) /\ UNCHANGED row /\ ~Terminal(row[o].status)
    BY <1>5 DEF Stop, Active, Open
  <2>2. api'.op = o /\ api'.copy = row[o]
    BY <1>2, <2>1, RequestTypes
  <2>3. QED
    BY <1>2, <2>1, <2>2, UnchangedIsBacked DEF RequestIsBacked
<1>6. ASSUME RequestStep
      PROVE  /\ api \in Requests /\ api.op \in Ops /\ api.copy \in Rows /\ Shown(api.op, api.copy)
             /\ ~Terminal(api.copy.status)
  BY <1>6 DEF RequestStep, EnterStopping, Prepare, RecordCancellation, Dispatch, MarkUnavailable,
              ServerTypes, Requests, EvidenceIInv, EvidenceIsShown, CopiesAreOpen
<1>7. ASSUME EnterStopping
      PROVE  RowsAreBacked /\ RequestIsBacked
  <2>1. PICK copy \in Rows : /\ copy = [api.copy EXCEPT !.status = "stopping"] /\ copy.status = "stopping"
                             /\ copy.observed = api.copy.observed /\ copy.migration = api.copy.migration
    BY <1>0, <1>6, <1>7, RowTypes DEF RequestStep
  <2>2. PICK o \in Ops : o = api.op
    BY <1>6, <1>7 DEF RequestStep
  <2>3. Shown(o, copy)
    BY <1>6, <1>7, <2>1, <2>2, SameShown DEF RequestStep
  <2>4. RowsAreBacked
    BY <1>7, <2>1, <2>2, <2>3, UpdateIsBacked DEF EnterStopping
  <2>5. api' = Request("prepare", o, "start", copy) \/ api' = NoRequest
    BY <1>7, <2>1, <2>2 DEF EnterStopping
  <2>6. CASE api' = Request("prepare", o, "start", copy)
    <3>1. api'.op = o /\ api'.copy = copy
      BY <2>6, RequestTypes
    <3>2. QED
      BY <2>1, <2>3, <2>4, <3>1 DEF RequestIsBacked, Terminal
  <2>7. QED
    BY <2>4, <2>5, <2>6, RestIsBacked
<1>8. ASSUME api \in Requests,
             NEW step \in {"record", "dispatch", "unavailable"}, api' = [api EXCEPT !.step = step], RequestStep
      PROVE  RequestIsBacked
  <2>1. api'.op = api.op /\ api'.copy = api.copy
    BY <1>8 DEF Requests
  <2>2. QED
    BY <1>6, <1>8, <2>1 DEF RequestIsBacked
<1>9. ASSUME Prepare
      PROVE  RowsAreBacked /\ RequestIsBacked
  <2>1. PICK copy \in Rows : /\ copy = [api.copy EXCEPT !.status = "failed"] /\ copy.status = "failed"
                             /\ copy.observed = api.copy.observed /\ copy.migration = api.copy.migration
    BY <1>0, <1>6, <1>9, RowTypes DEF RequestStep
  <2>2. PICK o \in Ops : o = api.op
    BY <1>6, <1>9 DEF RequestStep
  <2>3. Shown(o, copy)
    BY <1>6, <1>9, <2>1, <2>2, SameShown DEF RequestStep
  <2>4. CASE UNCHANGED row /\ api' = [api EXCEPT !.step = "record"]
    BY <1>6, <1>8, <1>9, <2>4, UnchangedIsBacked DEF RequestStep
  <2>5. CASE Update(o, copy) /\ api' = NoRequest
    BY <2>1, <2>3, <2>5, UpdateIsBacked, RestIsBacked
  <2>6. QED
    BY <1>9, <2>1, <2>2, <2>4, <2>5 DEF Prepare
<1>10. ASSUME RecordCancellation
       PROVE  RowsAreBacked /\ RequestIsBacked
  <2>1. PICK o \in Ops, copy \in Rows : o = api.op /\ copy = api.copy
    BY <1>6, <1>10 DEF RequestStep
  <2>2. Shown(o, copy) /\ copy.status # "succeeded"
    BY <1>6, <1>10, <2>1 DEF RequestStep, Terminal
  <2>3. RowsAreBacked
    BY <1>10, <2>1, <2>2, UpdateIsBacked DEF RecordCancellation
  <2>4. api' = [api EXCEPT !.step = "dispatch"] \/ api' = NoRequest
    BY <1>10 DEF RecordCancellation
  <2>5. QED
    BY <1>6, <1>8, <1>10, <2>3, <2>4, RestIsBacked DEF RequestStep
<1>11. ASSUME Dispatch
       PROVE  RowsAreBacked /\ RequestIsBacked
  <2>1. UNCHANGED row
    BY <1>11 DEF Dispatch
  <2>2. api' = [api EXCEPT !.step = "unavailable"] \/ api' = NoRequest
    BY <1>11 DEF Dispatch
  <2>3. QED
    BY <1>6, <1>8, <1>11, <2>1, <2>2, RestIsBacked, UnchangedIsBacked DEF RequestStep
<1>12. ASSUME MarkUnavailable
       PROVE  RowsAreBacked /\ RequestIsBacked
  <2>1. PICK outcome \in {"needs_recovery", "needs_attention", "failed"} :
            Update(api.op, [api.copy EXCEPT !.status = outcome])
    BY <1>12 DEF MarkUnavailable
  <2>2. PICK copy \in Rows : /\ copy = [api.copy EXCEPT !.status = outcome] /\ copy.status = outcome
                             /\ copy.observed = api.copy.observed /\ copy.migration = api.copy.migration
    <3>1. api.copy \in Rows /\ outcome \in Stages
      BY <1>0, <1>6, <1>12 DEF RequestStep
    <3>2. QED
      BY <3>1, RowTypes
  <2>3. PICK o \in Ops : o = api.op
    BY <1>6, <1>12 DEF RequestStep
  <2>4. Shown(o, copy)
    BY <1>6, <1>12, <2>2, <2>3, SameShown DEF RequestStep
  <2>5. QED
    BY <1>12, <2>1, <2>2, <2>3, <2>4, UpdateIsBacked, RestIsBacked DEF MarkUnavailable
<1>13. QED
  BY <1>1, <1>3, <1>4, <1>5, <1>7, <1>9, <1>10, <1>11, <1>12 DEF RequestStep

LEMMA JobIsBacked ==
  ASSUME HostTypes, JournalTypes, ServerTypes, EvidenceIInv, EvidenceGrows,
         JobStep \/ JobFindsUnreadable \/ JobStalls
  PROVE  RowsAreBacked /\ RequestIsBacked /\ PassIsBacked
<1>0. {"needs_recovery", "needs_attention", "failed", "verifying", "succeeded"} \subseteq Stages
  BY StagesAre
<1>1. RequestIsBacked
  <2>1. UNCHANGED api
    BY DEF JobStep, JobReads, JobReconciles, JobVerifies, JobConfirms, JobSucceeds, JobRests,
           JobFindsUnreadable, JobStalls
  <2>2. QED
    BY <2>1, UnchangedIsBacked
<1>2. \A o \in Ops : row[o] \in Rows /\ Shown(o, row[o])
  BY DEF ServerTypes, EvidenceIInv, EvidenceIsShown
<1>3. /\ job \in Passes
      /\ job.step \in {"event", "verify", "confirm", "succeed"} => job.op \in Ops /\ Shown(job.op, job)
  BY DEF ServerTypes, Passes, EvidenceIInv, EvidenceIsShown
(* A row's copy with another status shows what the row showed. *)
<1>4. ASSUME NEW o \in Ops, NEW status \in Stages
      PROVE  \E r \in Rows : r = [row[o] EXCEPT !.status = status] /\ r.status = status /\ Shown(o, r)
  <2>1. row[o] \in Rows /\ Shown(o, row[o])
    BY <1>2
  <2>2. PICK r \in Rows : /\ r = [row[o] EXCEPT !.status = status] /\ r.status = status
                          /\ r.observed = row[o].observed /\ r.migration = row[o].migration
    BY <2>1, RowTypes
  <2>3. QED
    BY <2>1, <2>2, SameShown
(* The recovery job ends an open operation otherwise than as a success. *)
<1>5. ASSUME NEW o \in Ops, NEW status \in {"needs_recovery", "needs_attention", "failed", "verifying"},
             NEW expected, expected # "succeeded",
             Transition(o, expected, [row[o] EXCEPT !.status = status])
      PROVE  RowsAreBacked
  <2>1. PICK r \in Rows : r = [row[o] EXCEPT !.status = status] /\ r.status = status /\ Shown(o, r)
    BY <1>0, <1>4
  <2>2. Transition(o, expected, r) /\ r.status # "succeeded"
    BY <1>5, <2>1
  <2>3. QED
    BY <1>5, <2>1, <2>2, TransitionIsBacked
<1>6. ASSUME JobReads
      PROVE  RowsAreBacked /\ PassIsBacked
  <2>1. RowsAreBacked
    BY <1>6, UnchangedIsBacked DEF JobReads
  <2>2. CASE current = Nobody
    BY <1>6, <2>1, <2>2, RestIsBacked DEF JobReads
  <2>3. CASE current # Nobody
    <3>1. /\ job'.op = current /\ job'.step = "event" /\ job'.migration = journal[current].migration
          /\ job'.observed = (current \in receipts)
      BY <1>6, <2>3 DEF JobReads
    <3>2. QED
      BY <2>1, <3>1 DEF PassIsBacked, Shown
  <2>4. QED
    BY <2>2, <2>3
<1>7. ASSUME JobFindsUnreadable
      PROVE  RowsAreBacked /\ PassIsBacked
  <2>1. \/ UNCHANGED << row, paused >>
        \/ \E o \in Ops, outcome \in {"needs_recovery", "needs_attention", "failed"} :
             Active(o) /\ Transition(o, row[o].status, [row[o] EXCEPT !.status = outcome])
    BY <1>7 DEF JobFindsUnreadable
  <2>2. \A o \in Ops : Active(o) => row[o].status # "succeeded"
    BY DEF Active, Open, Terminal
  <2>3. RowsAreBacked
    BY <1>5, <2>1, <2>2, UnchangedIsBacked
  <2>4. QED
    BY <1>7, <2>3, RestIsBacked DEF JobFindsUnreadable
<1>8. ASSUME JobReconciles
      PROVE  RowsAreBacked /\ PassIsBacked
  <2>1. PICK o \in Ops : o = job.op
    BY <1>3, <1>8 DEF JobReconciles
  <2>2. PICK to : to = Status(o, job)
    OBVIOUS
  <2>3. /\ to \in (Stages \ {"succeeded"}) \cup {"ignored", "error"}
        /\ row[o].status = "succeeded" => to = "ignored"
    BY <1>3, <2>2, VerdictTypes
  <2>4. RowsAreBacked
    <3>1. CASE UNCHANGED << row, paused >>
      BY <3>1, UnchangedIsBacked
    <3>2. CASE to \notin {"ignored", "error"}
      <4>1. PICK merged : merged = Stronger(row[o].migration, job.migration)
        OBVIOUS
      <4>2. merged \in {row[o].migration, job.migration} /\ merged \in Migrations
        BY <1>2, <1>3, <4>1, MigrationOfBoth DEF Rows, Passes
      <4>3. PICK r \in Rows : /\ r = [status |-> to, migration |-> merged, observed |-> row[o].observed \/ job.observed]
                              /\ r.status = to /\ r.migration = merged
                              /\ r.observed = (row[o].observed \/ job.observed)
        <5>1. to \in Stages /\ row[o].observed \in BOOLEAN /\ job.observed \in BOOLEAN
          BY <1>2, <1>3, <2>3, <3>2 DEF Rows, Passes
        <5>2. (row[o].observed \/ job.observed) \in BOOLEAN
          BY <5>1
        <5>3. PICK seen \in BOOLEAN : seen = (row[o].observed \/ job.observed)
          BY <5>2
        <5>4. /\ [status |-> to, migration |-> merged, observed |-> seen] \in Rows
              /\ [status |-> to, migration |-> merged, observed |-> seen].status = to
              /\ [status |-> to, migration |-> merged, observed |-> seen].migration = merged
              /\ [status |-> to, migration |-> merged, observed |-> seen].observed = seen
          BY <4>2, <5>1 DEF Rows
        <5>5. QED
          BY <5>3, <5>4
      <4>4. Shown(o, r)
        <5>1. Shown(o, row[o]) /\ Shown(o, job)
          BY <1>2, <1>3, <1>8, <2>1 DEF JobReconciles
        <5>2. QED
          BY <4>2, <4>3, <5>1 DEF Shown
      <4>5. Transition(o, row[o].status, r)
        BY <1>8, <2>1, <2>2, <3>2, <4>1, <4>3 DEF JobReconciles
      <4>6. row[o].status # "succeeded" /\ r.status # "succeeded"
        BY <2>3, <3>2, <4>3
      <4>7. QED
        BY <4>4, <4>5, <4>6, TransitionIsBacked
    <3>3. QED
      BY <1>8, <2>1, <2>2, <3>1, <3>2 DEF JobReconciles
  <2>5. \/ job' = NoEvent \/ job' = Watch
        \/ job' = [job EXCEPT !.step = "verify", !.stage = to] /\ to \in {"verifying", "agent_verifying"}
    BY <1>8, <2>1, <2>2 DEF JobReconciles
  <2>6. CASE job' = [job EXCEPT !.step = "verify", !.stage = to] /\ to \in {"verifying", "agent_verifying"}
    <3>1. /\ job'.step = "verify" /\ job'.stage = to /\ job'.op = o
          /\ job'.migration = job.migration /\ job'.observed = job.observed
      BY <1>3, <2>1, <2>6 DEF Passes
    <3>2. Shown(o, job)
      BY <1>3, <1>8, <2>1 DEF JobReconciles
    <3>3. QED
      BY <2>4, <2>6, <3>1, <3>2 DEF PassIsBacked, Shown
  <2>7. QED
    BY <2>4, <2>5, <2>6, RestIsBacked
<1>9. ASSUME JobVerifies
      PROVE  RowsAreBacked /\ PassIsBacked
  <2>1. PICK o \in Ops : o = job.op
    BY <1>3, <1>9 DEF JobVerifies
  <2>2. \/ UNCHANGED << row, paused >>
        \/ \E status \in {"needs_attention", "needs_recovery", "verifying"} :
             Transition(o, job.stage, [row[o] EXCEPT !.status = status])
    BY <1>9, <2>1 DEF JobVerifies
  <2>3. job.stage # "succeeded"
    BY <1>9 DEF JobVerifies, EvidenceIInv, CopiesAreOpen
  <2>4. RowsAreBacked
    BY <1>5, <2>2, <2>3, UnchangedIsBacked
  <2>5. \/ job' = Watch
        \/ /\ row[o].observed /\ (Migrates(o) => row[o].migration = "succeeded")
           /\ job' = [job EXCEPT !.step = IF Planned(o) THEN "confirm" ELSE "succeed"]
    BY <1>9, <2>1 DEF JobVerifies
  <2>6. CASE /\ row[o].observed /\ (Migrates(o) => row[o].migration = "succeeded")
             /\ job' = [job EXCEPT !.step = IF Planned(o) THEN "confirm" ELSE "succeed"]
    <3>1. Proven(o)
      BY <1>2, <2>6 DEF Proven, Shown
    <3>2. /\ job'.op = o /\ job'.step = (IF Planned(o) THEN "confirm" ELSE "succeed")
          /\ job'.migration = job.migration /\ job'.observed = job.observed
      BY <1>3, <2>1, <2>6 DEF Passes
    <3>3. Shown(o, job)
      BY <1>3, <1>9, <2>1 DEF JobVerifies
    <3>4. PassIsBacked
      BY <3>1, <3>2, <3>3 DEF PassIsBacked, Shown
    <3>5. QED
      BY <2>4, <3>4
  <2>7. QED
    BY <2>4, <2>5, <2>6, RestIsBacked
<1>10. ASSUME JobConfirms
       PROVE  RowsAreBacked /\ PassIsBacked
  <2>1. PICK o \in Ops : o = job.op
    BY <1>3, <1>10 DEF JobConfirms
  <2>2. RowsAreBacked
    BY <1>10, UnchangedIsBacked DEF JobConfirms
  <2>3. job' = Watch \/ (AcceptConfirm(o) /\ job' = [job EXCEPT !.step = "succeed"])
    BY <1>10, <2>1 DEF JobConfirms
  <2>4. CASE AcceptConfirm(o) /\ job' = [job EXCEPT !.step = "succeed"]
    <3>1. o \in confirmed'
      BY <2>4 DEF AcceptConfirm, RecordConfirmation
    <3>2. /\ job'.op = o /\ job'.step = "succeed"
          /\ job'.migration = job.migration /\ job'.observed = job.observed
      BY <1>3, <2>1, <2>4 DEF Passes
    <3>3. Proven(o) /\ Shown(o, job)
      BY <1>3, <1>10, <2>1 DEF JobConfirms, EvidenceIInv, EvidenceIsShown
    <3>4. PassIsBacked
      BY <3>1, <3>2, <3>3 DEF PassIsBacked, Shown
    <3>5. QED
      BY <2>2, <3>4
  <2>5. QED
    BY <2>2, <2>3, <2>4, RestIsBacked
<1>11. ASSUME JobSucceeds
       PROVE  RowsAreBacked /\ PassIsBacked
  <2>1. PICK o \in Ops : o = job.op
    BY <1>3, <1>11 DEF JobSucceeds
  <2>2. Proven(o) /\ (Planned(o) => o \in confirmed)
    BY <1>11, <2>1 DEF JobSucceeds, EvidenceIInv, EvidenceIsShown
  <2>3. PICK r \in Rows : r = [row[o] EXCEPT !.status = "succeeded"] /\ Shown(o, r)
    BY <1>0, <1>4
  <2>4. Transition(o, "verifying", r) /\ job' = Watch
    BY <1>11, <2>1, <2>3 DEF JobSucceeds
  <2>5. QED
    BY <2>2, <2>3, <2>4, TransitionIsBacked, RestIsBacked
<1>12. ASSUME JobStalls
       PROVE  RowsAreBacked /\ PassIsBacked
  <2>1. \E o \in Ops, outcome \in {"needs_recovery", "needs_attention"} :
             Active(o) /\ Transition(o, row[o].status, [row[o] EXCEPT !.status = outcome])
    BY <1>12 DEF JobStalls
  <2>2. \A o \in Ops : Active(o) => row[o].status # "succeeded"
    BY DEF Active, Open, Terminal
  <2>3. RowsAreBacked
    BY <1>5, <2>1, <2>2
  <2>4. QED
    BY <1>12, <2>3, RestIsBacked DEF JobStalls
<1>13. ASSUME JobRests
       PROVE  RowsAreBacked /\ PassIsBacked
  BY <1>13, UnchangedIsBacked, RestIsBacked DEF JobRests
<1>14. QED
  BY <1>1, <1>6, <1>7, <1>8, <1>9, <1>10, <1>11, <1>12, <1>13 DEF JobStep

LEMMA EvidenceStep ==
  ASSUME HostTypes, JournalIInv, ServerTypes, EvidenceIInv, [Next]_vars
  PROVE  EvidenceIInv'
<1>1. HostTypes' /\ ServerTypes' /\ EvidenceGrows
  BY TypeStep
<1>2. RowsAreBacked /\ RequestIsBacked /\ PassIsBacked
  <2>1. CASE UNCHANGED serverVars
    BY <1>1, <2>1, UnchangedIsBacked DEF serverVars
  <2>2. CASE ServerRestarts
    BY <1>1, <2>2, UnchangedIsBacked, RestIsBacked DEF ServerRestarts
  <2>3. CASE RequestStep \/ \E o \in Ops : Create(o) \/ Retry(o) \/ Stop(o)
    BY <1>1, <2>3, RequestsAreBacked
  <2>4. CASE JobStep \/ JobFindsUnreadable \/ JobStalls
    BY <1>1, <2>4, JobIsBacked DEF JournalIInv
  <2>5. QED
    BY <2>1, <2>2, <2>3, <2>4 DEF Next, vars
<1>3. QED
  BY <1>1, <1>2, BackedEvidence

LEMMA EvidenceHolds == Spec => []EvidenceIInv
<1>1. HostTypes /\ JournalIInv /\ ServerTypes /\ EvidenceIInv /\ [Next]_vars => EvidenceIInv'
  BY EvidenceStep
<1>2. QED
  BY <1>1, UpgradeInit, TypesHold, PTL DEF Spec

(* A recorded success has its receipt, its proved migration and, when it was
   planned, the host's confirmation, whatever was lost, late or restarted. *)
THEOREM ProvenSuccess == Spec => []SuccessIsProven
<1>1. EvidenceIInv => SuccessIsProven
  BY DEF EvidenceIInv
<1>2. QED
  BY <1>1, EvidenceHolds, PTL

-----------------------------------------------------------------------------
(* The outcome of an operation. *)

RowsAreFinal ==
    \A o \in Ops : Terminal(row[o].status) /\ row'[o].status # row[o].status =>
        /\ row[o].status # "succeeded"
        /\ row'[o].status = "needs_recovery" \/ (api'.action = "repair" /\ api'.op = o)

LEMMA UpdateIsFinal ==
  ASSUME ServerTypes, NEW o \in Ops, NEW copy, Update(o, copy)
  PROVE  RowsAreFinal
<1>1. CASE Writable(o, copy.status)
  <2>1. \A p \in Ops : row'[p] = IF p = o THEN copy ELSE row[p]
    BY <1>1 DEF Update, ServerTypes
  <2>2. QED
    BY <1>1, <2>1 DEF Writable, RowsAreFinal
<1>2. CASE ~Writable(o, copy.status)
  BY <1>2 DEF Update, RowsAreFinal
<1>3. QED
  BY <1>1, <1>2

LEMMA TransitionIsFinal ==
  ASSUME ServerTypes, NEW o \in Ops, NEW expected, NEW new, Transition(o, expected, new),
         ~Terminal(expected) \/ (expected # "succeeded" /\ new.status = "needs_recovery")
  PROVE  RowsAreFinal
<1>1. CASE row[o].status = expected
  <2>1. \A p \in Ops : row'[p] = IF p = o THEN new ELSE row[p]
    BY <1>1 DEF Transition, ServerTypes
  <2>2. QED
    BY <1>1, <2>1 DEF RowsAreFinal
<1>2. CASE row[o].status # expected
  BY <1>2 DEF Transition, RowsAreFinal
<1>3. QED
  BY <1>1, <1>2

LEMMA RowsStay == UNCHANGED row => RowsAreFinal
  BY DEF RowsAreFinal

LEMMA RequestsAreFinal ==
  ASSUME ServerTypes, \/ \E o \in Ops : Create(o) \/ Retry(o) \/ Stop(o)
                      \/ RequestStep
  PROVE  RowsAreFinal
<1>1. ASSUME NEW o \in Ops, Create(o)
      PROVE  RowsAreFinal
  <2>1. row[o].status = "none" /\ \A p \in Ops \ {o} : row'[p] = row[p]
    BY <1>1 DEF Create, ServerTypes
  <2>2. QED
    BY <2>1 DEF RowsAreFinal, Terminal
<1>2. ASSUME NEW o \in Ops, Retry(o)
      PROVE  RowsAreFinal
  <2>1. row[o].status # "succeeded" /\ \A p \in Ops \ {o} : row'[p] = row[p]
    BY <1>2 DEF Retry, Retryable, ServerTypes
  <2>2. api'.op = o /\ api'.action = "repair"
    BY <1>2 DEF Retry, Request
  <2>3. QED
    BY <2>1, <2>2 DEF RowsAreFinal
<1>3. ASSUME \/ \E o \in Ops : Stop(o)
             \/ Dispatch
      PROVE  RowsAreFinal
  BY <1>3, RowsStay DEF Stop, Dispatch
<1>4. ASSUME EnterStopping \/ Prepare \/ RecordCancellation \/ MarkUnavailable
      PROVE  RowsAreFinal
  <2>1. PICK o \in Ops : o = api.op
    BY <1>4 DEF EnterStopping, Prepare, RecordCancellation, MarkUnavailable, ServerTypes, Requests
  <2>2. UNCHANGED row \/ \E copy : Update(o, copy)
    BY <1>4, <2>1 DEF EnterStopping, Prepare, RecordCancellation, MarkUnavailable
  <2>3. QED
    BY <2>2, UpdateIsFinal, RowsStay
<1>5. QED
  BY <1>1, <1>2, <1>3, <1>4 DEF RequestStep

LEMMA JobIsFinal ==
  ASSUME ServerTypes, EvidenceIInv, JobStep \/ JobFindsUnreadable \/ JobStalls
  PROVE  RowsAreFinal
<1>1. ASSUME JobReads \/ JobConfirms \/ JobRests
      PROVE  RowsAreFinal
  BY <1>1, RowsStay DEF JobReads, JobConfirms, JobRests
<1>2. ASSUME JobFindsUnreadable \/ JobStalls
      PROVE  RowsAreFinal
  <2>1. UNCHANGED row \/ \E o \in Ops : Active(o) /\ \E new : Transition(o, row[o].status, new)
    BY <1>2 DEF JobFindsUnreadable, JobStalls
  <2>2. \A o \in Ops : Active(o) => ~Terminal(row[o].status)
    BY DEF Active, Open
  <2>3. QED
    BY <2>1, <2>2, TransitionIsFinal, RowsStay
<1>3. ASSUME JobReconciles
      PROVE  RowsAreFinal
  <2>1. PICK o \in Ops : o = job.op
    BY <1>3 DEF JobReconciles, ServerTypes, Passes
  <2>2. PICK to : to = Status(o, job)
    OBVIOUS
  <2>3. /\ Terminal(row[o].status) => to \in {"ignored", "error", "needs_recovery"}
        /\ row[o].status = "succeeded" => to = "ignored"
    BY <2>2, VerdictTypes DEF ServerTypes
  <2>4. \/ UNCHANGED row
        \/ to \notin {"ignored", "error"} /\ \E new : new.status = to /\ Transition(o, row[o].status, new)
    BY <1>3, <2>1, <2>2 DEF JobReconciles
  <2>5. QED
    BY <2>3, <2>4, TransitionIsFinal, RowsStay
<1>4. ASSUME JobVerifies
      PROVE  RowsAreFinal
  <2>1. PICK o \in Ops : o = job.op
    BY <1>4 DEF JobVerifies, ServerTypes, Passes
  <2>2. UNCHANGED row \/ \E new : Transition(o, job.stage, new)
    BY <1>4, <2>1 DEF JobVerifies
  <2>3. ~Terminal(job.stage)
    BY <1>4 DEF JobVerifies, EvidenceIInv, CopiesAreOpen, Terminal
  <2>4. QED
    BY <2>2, <2>3, TransitionIsFinal, RowsStay
<1>5. ASSUME JobSucceeds
      PROVE  RowsAreFinal
  <2>1. PICK o \in Ops : o = job.op
    BY <1>5 DEF JobSucceeds, ServerTypes, Passes
  <2>2. (\E new : Transition(o, "verifying", new)) /\ ~Terminal("verifying")
    BY <1>5, <2>1 DEF JobSucceeds, Terminal
  <2>3. QED
    BY <2>2, TransitionIsFinal
<1>6. QED
  BY <1>1, <1>2, <1>3, <1>4, <1>5 DEF JobStep

(* An outcome changes only into needs_recovery or by a retry, and a success
   never: late, repeated and reordered reports included. *)
THEOREM FinalOutcomes == Spec => OutcomesAreFinal
<1>1. ServerTypes /\ EvidenceIInv /\ [Next]_vars => RowsAreFinal
  <2>1. UNCHANGED vars \/ (HostNext /\ UNCHANGED serverVars) \/ ServerRestarts => RowsAreFinal
    BY RowsStay DEF vars, serverVars, ServerRestarts
  <2>2. QED
    BY <2>1, RequestsAreFinal, JobIsFinal DEF Next
<1>2. RowsAreFinal =>
        [\A o \in Ops :
           Terminal(row[o].status) /\ row'[o].status # row[o].status =>
             /\ row[o].status # "succeeded"
             /\ row'[o].status = "needs_recovery" \/ (api'.action = "repair" /\ api'.op = o)]_vars
  BY DEF RowsAreFinal
<1>3. QED
  BY <1>1, <1>2, TypesHold, EvidenceHolds, PTL DEF Spec, OutcomesAreFinal
=============================================================================
