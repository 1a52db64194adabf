------------------------- MODULE RunLifecycleProofs -------------------------
(***************************************************************************)
(* What is proved of RunLifecycle, in three parts.                         *)
(*                                                                         *)
(* Types: the initial state is typed, and every step from a state with the *)
(* invariant Ownership leads to a typed state.  Typing alone is not        *)
(* inductive: the GPU a task is given is that of the attempt its accept    *)
(* left in respawn (OneSpawner), and the verdict of a task is that of an   *)
(* ended trainer (TrainerPhase).                                           *)
(*                                                                         *)
(* Ownership: it is an inductive invariant and implies the safety          *)
(* invariants of RunProperties.  Most steps are quiet and calm for every   *)
(* run and are dealt with by two lemmas; what remains is a handful of      *)
(* actions: those that decide the outcome of a run, and those that create, *)
(* accept, spawn or delete.                                                *)
(*                                                                         *)
(* Steps: RunLifecycle implements AttemptLedger.  The accounts of          *)
(* RunInvariant are shown to be kept, then every step of the lifecycle to  *)
(* be one step of the ledger or to change nothing it sees.  And it has the *)
(* action properties of RunProperties: a completed run is final because    *)
(* whoever writes a status owns its run or finds it waiting, and a         *)
(* completed run has no owner; recovery is thorough because no task and no *)
(* request moves while it runs.                                            *)
(***************************************************************************)
EXTENDS RunInvariant, TLAPS

-----------------------------------------------------------------------------
(* Types *)

\* every variable keeps its value, component by component
LEMMA TypeStutter ==
  ASSUME TypeOK, UNCHANGED vars
  PROVE  TypeOK'
  BY DEF TypeOK, RowType, AttemptType, MemoryType, BootType, vars, db, dbRun,
         setup, dbAtt, dbKids, memory, heap, locals, calls, registry, boot

LEMMA InitTyped == Init => TypeOK
  <1> SUFFICES ASSUME Init PROVE TypeOK
    OBVIOUS
  <1> USE ConstantsAssumption DEF Init, Attempts
  <1>1. RowType
    BY DEF RowType, Strategies
  <1>2. AttemptType
    BY DEF AttemptType
  <1>3. MemoryType
    BY DEF MemoryType, TaskPoints
  <1>4. BootType
    BY DEF BootType
  <1> QED
    BY <1>1, <1>2, <1>3, <1>4 DEF TypeOK

\* the handlers a user calls
LEMMA UserTyped ==
  ASSUME Ownership, NEW r \in Runs,
         UserStep(r)
  PROVE  TypeOK'
  <1>0. TypeOK /\ OneSpawner(r) /\ TrainerPhase(r)
    BY DEF Ownership, RunInv, Structure
  <1> USE ConstantsAssumption DEF TypeOK, RowType, AttemptType, MemoryType,
        BootType, db, dbRun, setup, dbAtt, dbKids, memory, heap, locals,
        calls, registry, boot, Attempts
  <1>1. ASSUME Create(r) PROVE TypeOK'
    <2>1. RowType'
      BY <1>0, <1>1 DEF Create, Strategies, RowStatus
    <2>2. AttemptType'
      BY <1>0, <1>1 DEF Create, ExitReasons, Strategies
    <2>3. MemoryType'
      BY <1>0, <1>1 DEF Create
    <2>4. BootType'
      BY <1>0, <1>1 DEF Create
    <2> QED
      BY <2>1, <2>2, <2>3, <2>4
  <1>2. ASSUME Cancel(r) PROVE TypeOK'
    BY <1>0, <1>2 DEF Cancel, RowStatus
  <1>3. ASSUME Pause(r) PROVE TypeOK'
    BY <1>0, <1>3 DEF Pause, RowStatus
  <1>4. ASSUME Delete(r) PROVE TypeOK'
    BY <1>0, <1>4 DEF Delete, RowStatus
  <1>5. ASSUME AcceptFallback(r) PROVE TypeOK'
    BY <1>0, <1>5 DEF AcceptFallback, Accept, IsNext, RowStatus, ExitReasons
  <1>6. ASSUME CancelFallback(r) PROVE TypeOK'
    BY <1>0, <1>6 DEF CancelFallback, Existing, RowStatus
  <1>7. ASSUME NEW c \in Runs, Resume(r, c) PROVE TypeOK'
    BY <1>0, <1>7 DEF Resume, RowStatus
  <1> QED
    BY <1>1, <1>2, <1>3, <1>4, <1>5, <1>6, <1>7 DEF UserStep

\* the second halves of the handlers
LEMMA RequestTyped ==
  ASSUME Ownership, NEW r \in Runs,
         RequestStep(r)
  PROVE  TypeOK'
  <1>0. TypeOK /\ OneSpawner(r) /\ TrainerPhase(r)
    BY DEF Ownership, RunInv, Structure
  <1> USE ConstantsAssumption DEF TypeOK, RowType, AttemptType, MemoryType,
        BootType, db, dbRun, setup, dbAtt, dbKids, memory, heap, locals,
        calls, registry, boot, Attempts
  <1>1. ASSUME SnapshotWritten(r) PROVE TypeOK'
    BY <1>0, <1>1 DEF SnapshotWritten
  <1>2. ASSUME SnapshotFails(r) PROVE TypeOK'
    BY <1>0, <1>2 DEF SnapshotFails
  <1>3. ASSUME Launch(r) PROVE TypeOK'
    BY <1>0, <1>3 DEF Launch, Spawn, TaskPoints
  <1>4. ASSUME Respawn(r) PROVE TypeOK'
    BY <1>0, <1>4 DEF Respawn, SpawnAccepted, Spawn, OneSpawner, TaskPoints
  <1>5. ASSUME SkipAfterCancel(r) PROVE TypeOK'
    BY <1>0, <1>5 DEF SkipAfterCancel, SkipPending
  <1>6. ASSUME RequestFails(r) PROVE TypeOK'
    BY <1>0, <1>6 DEF RequestFails
  <1> QED
    BY <1>1, <1>2, <1>3, <1>4, <1>5, <1>6 DEF RequestStep

\* the events of a trainer
LEMMA EventTyped ==
  ASSUME Ownership, NEW r \in Runs, NEW i \in Attempts,
         EventStep(r, i)
  PROVE  TypeOK'
  <1>0. TypeOK /\ OneSpawner(r) /\ TrainerPhase(r)
    BY DEF Ownership, RunInv, Structure
  <1> USE ConstantsAssumption DEF TypeOK, RowType, AttemptType, MemoryType,
        BootType, db, dbRun, setup, dbAtt, dbKids, memory, heap, locals,
        calls, registry, boot, Attempts
  <1>1. ASSUME TaskEnterStage(r, i) PROVE TypeOK'
    BY <1>0, <1>1 DEF TaskEnterStage, At, Goto, TaskPoints, Guarded
  <1>2. ASSUME TaskLeaveStage(r, i) PROVE TypeOK'
    BY <1>0, <1>2 DEF TaskLeaveStage, At
  <1>3. ASSUME TaskProgress(r, i) PROVE TypeOK'
    BY <1>0, <1>3 DEF TaskProgress, At, Write, HasRow, RowStatus
  <1>4. ASSUME TaskCheckpoint(r, i) PROVE TypeOK'
    BY <1>0, <1>4 DEF TaskCheckpoint, At, Write, HasRow, Goto, RowStatus,
        TaskPoints, Guarded
  <1>5. ASSUME TaskRecord(r, i) PROVE TypeOK'
    BY <1>0, <1>5 DEF TaskRecord, At, InsertChild
  <1> QED
    BY <1>1, <1>2, <1>3, <1>4, <1>5 DEF EventStep

\* the orchestration task
LEMMA TaskTyped ==
  ASSUME Ownership, NEW r \in Runs, NEW i \in Attempts,
         TaskStep(r, i)
  PROVE  TypeOK'
  <1>0. TypeOK /\ OneSpawner(r) /\ TrainerPhase(r)
    BY DEF Ownership, RunInv, Structure
  <1> USE ConstantsAssumption DEF TypeOK, RowType, AttemptType, MemoryType,
        BootType, db, dbRun, setup, dbAtt, dbKids, memory, heap, locals,
        calls, registry, boot, Attempts
  <1>1. ASSUME TaskStart(r, i) PROVE TypeOK'
    BY <1>0, <1>1 DEF TaskStart, At, Write, HasRow, Goto, RowStatus,
        TaskPoints, Guarded
  <1>2. ASSUME TaskPrepare(r, i) PROVE TypeOK'
    BY <1>0, <1>2 DEF TaskPrepare, At, Goto, TaskPoints, Guarded
  <1>3. ASSUME TaskDispatch(r, i) PROVE TypeOK'
    BY <1>0, <1>3 DEF TaskDispatch, At, Goto, TaskPoints, Guarded
  <1>4. ASSUME TaskRegister(r, i) PROVE TypeOK'
    BY <1>0, <1>4 DEF TaskRegister, At, Write, HasRow, Goto, RowStatus,
        TaskPoints, Guarded
  <1>5. ASSUME TaskEntered(r, i) PROVE TypeOK'
    BY <1>0, <1>5 DEF TaskEntered, At, Write, HasRow, Goto, RowStatus,
        TaskPoints, Guarded
  <1>6. ASSUME TaskSaved(r, i) PROVE TypeOK'
    BY <1>0, <1>6 DEF TaskSaved, At, InsertChild, Goto, TaskPoints, Guarded
  <1>7. ASSUME TaskDrain(r, i) PROVE TypeOK'
    BY <1>0, <1>7 DEF TaskDrain, At, Goto, TaskPoints, Guarded
  <1>8. ASSUME TaskClose(r, i) PROVE TypeOK'
    BY <1>0, <1>8 DEF TaskClose, At, CloseCurrent, IsCurrent, Verdict, Goto,
        ExitReasons, TaskPoints, TrainerPhase, EndedPoints, Endings, Guarded
  <1>9. ASSUME TaskCloseOom(r, i) PROVE TypeOK'
    BY <1>0, <1>9 DEF TaskCloseOom, At, CloseOom, IsCurrent, Goto,
        ExitReasons, TaskPoints, Guarded
  <1>10. ASSUME TaskPropose(r, i) PROVE TypeOK'
    BY <1>0, <1>10 DEF TaskPropose, At, Write, HasRow, Goto, RowStatus,
        TaskPoints, Guarded
  <1>11. ASSUME TaskAccept(r, i) PROVE TypeOK'
    BY <1>0, <1>11 DEF TaskAccept, At, Accept, IsNext, FirstCandidate, Goto,
        TaskPoints, RowStatus, ExitReasons, Guarded
  <1>12. ASSUME TaskAcceptRefused(r, i) PROVE TypeOK'
    BY <1>0, <1>12 DEF TaskAcceptRefused, At, FirstCandidate, Goto,
        TaskPoints, Guarded, RowStatus
  <1>13. ASSUME TaskSpawn(r, i) PROVE TypeOK'
    <2>1. respawn[r] \in Attempts
      BY <1>0, <1>13 DEF TaskSpawn, At, OneSpawner
    <2>2. [task[r] EXCEPT ![i] = "post"] \in [Attempts -> TaskPoints]
      BY <1>0 DEF TaskPoints, Guarded
    <2>3. task' \in [Runs -> [Attempts -> TaskPoints]]
      BY <1>0, <1>13, <2>1, <2>2 DEF TaskSpawn, SpawnAccepted, Spawn,
          TaskPoints
    <2>4. /\ taskGpu' = [taskGpu EXCEPT ![r][respawn[r]] =
                                                attGpu[r][respawn[r]]]
          /\ activeTask' = [activeTask EXCEPT ![r] = respawn[r]]
          /\ respawn' = [respawn EXCEPT ![r] = None]
          /\ UNCHANGED <<tally, request, activeProc>>
      BY <1>13 DEF TaskSpawn, SpawnAccepted, Spawn
    <2>5. MemoryType'
      BY <1>0, <2>1, <2>3, <2>4
    <2>6. RowType' /\ AttemptType' /\ BootType'
      BY <1>0, <1>13 DEF TaskSpawn
    <2> QED
      BY <2>5, <2>6
  <1>14. ASSUME TaskSum(r, i) PROVE TypeOK'
    BY <1>0, <1>14 DEF TaskSum, At, Existing, Goto, TaskPoints, Guarded
  <1>15. ASSUME TaskSkip(r, i) PROVE TypeOK'
    BY <1>0, <1>15 DEF TaskSkip, At, SkipPending, Goto, TaskPoints, Guarded,
        RowStatus
  <1>16. ASSUME TaskStatus(r, i) PROVE TypeOK'
    BY <1>0, <1>16 DEF TaskStatus, At, Write, HasRow, Verdict, Goto,
        RowStatus, TaskPoints, TrainerPhase, EndedPoints, Endings, Guarded
  <1>17. ASSUME TaskPost(r, i) PROVE TypeOK'
    BY <1>0, <1>17 DEF TaskPost, At, Goto, TaskPoints, Guarded
  <1>18. ASSUME TaskFail(r, i) PROVE TypeOK'
    BY <1>0, <1>18 DEF TaskFail, At, Write, HasRow, Goto, RowStatus,
        TaskPoints, Guarded
  <1>19. ASSUME Evict(r, i) PROVE TypeOK'
    BY <1>0, <1>19 DEF Evict, At, Goto, TaskPoints, Guarded
  <1> QED
    BY <1>1, <1>2, <1>3, <1>4, <1>5, <1>6, <1>7, <1>8, <1>9, <1>10, <1>11,
        <1>12, <1>13, <1>14, <1>15, <1>16, <1>17, <1>18, <1>19 DEF TaskStep

\* exceptions, and the end of a trainer
LEMMA FaultTyped ==
  ASSUME Ownership, NEW r \in Runs, NEW i \in Attempts,
         FaultStep(r, i) \/ TrainerExit(r, i)
  PROVE  TypeOK'
  <1>0. TypeOK /\ OneSpawner(r) /\ TrainerPhase(r)
    BY DEF Ownership, RunInv, Structure
  <1> USE ConstantsAssumption DEF TypeOK, RowType, AttemptType, MemoryType,
        BootType, db, dbRun, setup, dbAtt, dbKids, memory, heap, locals,
        calls, registry, boot, Attempts
  <1>1. ASSUME TaskRaise(r, i) PROVE TypeOK'
    BY <1>0, <1>1 DEF TaskRaise, Goto, TaskPoints, Guarded
  <1>2. ASSUME TaskDie(r, i) PROVE TypeOK'
    BY <1>0, <1>2 DEF TaskDie, Goto, TaskPoints, Guarded
  <1>3. ASSUME TrainerExit(r, i) PROVE TypeOK'
    BY <1>0, <1>3 DEF TrainerExit, Endings
  <1> QED
    BY <1>1, <1>2, <1>3 DEF FaultStep

\* recovery and sweep of one row
LEMMA RecoveryTyped ==
  ASSUME Ownership, NEW r \in Runs,
         RecoverSkip(r) \/ RecoverPending(r) \/ RecoverRunning(r)
         \/ SweepClose(r)
  PROVE  TypeOK'
  <1>0. TypeOK /\ OneSpawner(r) /\ TrainerPhase(r)
    BY DEF Ownership, RunInv, Structure
  <1> USE ConstantsAssumption DEF TypeOK, RowType, AttemptType, MemoryType,
        BootType, db, dbRun, setup, dbAtt, dbKids, memory, heap, locals,
        calls, registry, boot, Attempts
  <1>1. ASSUME RecoverSkip(r) PROVE TypeOK'
    BY <1>0, <1>1 DEF RecoverSkip, Recovering, RowStatus
  <1>2. ASSUME RecoverPending(r) PROVE TypeOK'
    BY <1>0, <1>2 DEF RecoverPending, Recovering, RowStatus
  <1>3. ASSUME RecoverRunning(r) PROVE TypeOK'
    BY <1>0, <1>3 DEF RecoverRunning, Recovering, RowStatus
  <1>4. ASSUME SweepClose(r) PROVE TypeOK'
    BY <1>0, <1>4 DEF SweepClose, CloseCurrent, IsCurrent, ExitReasons
  <1> QED
    BY <1>1, <1>2, <1>3, <1>4

\* crash and startup
LEMMA BootTyped ==
  ASSUME Ownership,
         Crash \/ Restart \/ RecoverSecond \/ SweepBegin \/ SweepSum
         \/ SweepSkip \/ SweepStatus \/ SweepRaise \/ Serve
  PROVE  TypeOK'
  <1>0. TypeOK /\ BootInv
    BY DEF Ownership
  <1> USE ConstantsAssumption DEF TypeOK, RowType, AttemptType, MemoryType,
        BootType, db, dbRun, setup, dbAtt, dbKids, memory, heap, locals,
        calls, registry, boot, Attempts
  <1>1. ASSUME Crash PROVE TypeOK'
    BY <1>0, <1>1 DEF Crash, TaskPoints
  <1>2. ASSUME Restart PROVE TypeOK'
    BY <1>0, <1>2 DEF Restart, RowStatus
  <1>3. ASSUME RecoverSecond PROVE TypeOK'
    BY <1>0, <1>3 DEF RecoverSecond, SkipPending, BootInv
  <1>4. ASSUME SweepBegin PROVE TypeOK'
    BY <1>0, <1>4 DEF SweepBegin, RowStatus
  <1>5. ASSUME SweepSum PROVE TypeOK'
    BY <1>0, <1>5 DEF SweepSum, Existing
  <1>6. ASSUME SweepSkip PROVE TypeOK'
    BY <1>0, <1>6 DEF SweepSkip, SkipPending, BootInv, RowStatus
  <1>7. ASSUME SweepStatus PROVE TypeOK'
    BY <1>0, <1>7 DEF SweepStatus, Write, HasRow, RowStatus
  <1>8. ASSUME SweepRaise PROVE TypeOK'
    BY <1>0, <1>8 DEF SweepRaise
  <1>9. ASSUME Serve PROVE TypeOK'
    BY <1>0, <1>9 DEF Serve
  <1> QED
    BY <1>1, <1>2, <1>3, <1>4, <1>5, <1>6, <1>7, <1>8, <1>9

(* A step from a state with the invariant leads to a typed state.          *)
THEOREM TypeStep ==
  ASSUME Ownership, [Next]_vars
  PROVE  TypeOK'
  <1>1. CASE UNCHANGED vars
    BY <1>1, TypeStutter DEF Ownership
  <1>2. ASSUME NEW r \in Runs, UserStep(r) \/ RequestStep(r) PROVE TypeOK'
    BY <1>2, UserTyped, RequestTyped
  <1>3. ASSUME NEW r \in Runs, NEW i \in Attempts,
               EventStep(r, i) \/ TaskStep(r, i) \/ FaultStep(r, i)
               \/ TrainerExit(r, i)
        PROVE  TypeOK'
    BY <1>3, EventTyped, TaskTyped, FaultTyped
  <1>4. ASSUME NEW r \in Runs,
               RecoverSkip(r) \/ RecoverPending(r) \/ RecoverRunning(r)
               \/ SweepClose(r)
        PROVE  TypeOK'
    BY <1>4, RecoveryTyped
  <1>5. CASE Crash \/ Restart \/ RecoverSecond \/ SweepBegin \/ SweepSum
             \/ SweepSkip \/ SweepStatus \/ SweepRaise \/ Serve
    BY <1>5, BootTyped
  <1> QED
    BY <1>1, <1>2, <1>3, <1>4, <1>5 DEF Next, StartupStep

-----------------------------------------------------------------------------
(* Quiet and calm steps *)

(* A step is quiet for a run when nothing of the run is new: no attempt,   *)
(* no task, no owner; attempts may close, tasks move on, trainers end.     *)
Quiet(r) ==
    /\ status'[r] = "none" => status[r] = "none"
    /\ status'[r] = "deleted" <=> status[r] = "deleted"
    /\ gpu'[r] = gpu[r] /\ attGpu'[r] = attGpu[r] /\ taskGpu'[r] = taskGpu[r]
    /\ \A i \in Attempts :
          /\ \/ att'[r][i] = att[r][i]
             \/ att[r][i] # "none" /\ att'[r][i] \in ExitReasons
          /\ \/ task'[r][i] = task[r][i]
             \/ /\ task[r][i] \notin {"none", "done", "lost"}
                /\ task'[r][i] \notin {"none", "start", "spawn"}
                /\ task'[r][i] \in OwnerPoints => task[r][i] \in OwnerPoints
                /\ task'[r][i] \in {"prepare", "dispatch"}
                      => trainer'[r][i] = "none"
                /\ task'[r][i] \in EndedPoints => trainer'[r][i] \in Endings
          /\ \/ trainer'[r][i] = trainer[r][i]
             \/ trainer[r][i] = "live" /\ trainer'[r][i] \in Endings
             \/ /\ task[r][i] = "dispatch" /\ task'[r][i] = "register"
                /\ trainer'[r][i] = "live"
          /\ (activeTask[r] = i /\ task'[r][i] \notin {"none", "done", "lost"})
                => activeTask'[r] = i
    /\ request'[r] \in {"snapshot", "launch"}
          => request[r] \in {"snapshot", "launch"}
    /\ request'[r] = "respawn" => request[r] = "respawn"
    /\ \/ respawn'[r] = respawn[r]
       \/ /\ respawn'[r] = None
          /\ request'[r] # "respawn"
          /\ \A i \in Attempts : task'[r][i] # "spawn"

(* A quiet step is calm when it decides nothing about the run either: it   *)
(* neither puts the run up for a decision nor bills, completes or dates    *)
(* it, and no task moves inside the terminal sequence.                     *)
RestCalm(r) ==
    status'[r] = "fallback_pending" =>
        status[r] = "fallback_pending" /\ cost'[r] = cost[r]

BillCalm(r) == cost'[r] = cost[r]

StagesCalm(r) ==
    \A s \in Stages : stage'[r][s] = "pending" => stage[r][s] = "pending"

RollUpCalm(r) ==
    /\ StagesCalm(r)
    /\ \A i \in Attempts :
          task'[r][i] \in {"propose", "sum", "skip", "status"}
          => task'[r][i] = task[r][i] /\ tally'[r][i] = tally[r][i]

WholeCalm(r) ==
    status'[r] = "completed" =>
        status[r] = "completed" /\ cost'[r] = cost[r] /\ StagesCalm(r)

AnchorCalm(r) == started'[r] = started[r]

Calm(r) ==
    /\ RestCalm(r) /\ BillCalm(r) /\ RollUpCalm(r) /\ WholeCalm(r)
    /\ AnchorCalm(r)

\* after a quiet step there is no new owner and the same attempts exist
LEMMA QuietFacts ==
  ASSUME NEW r \in Runs, Quiet(r)
  PROVE  /\ \A i \in Attempts : Owner(r, i)' => Owner(r, i)
         /\ \A i \in Attempts : att'[r][i] = "none" <=> att[r][i] = "none"
         /\ \A i \in Attempts : att'[r][i] = "open" => att[r][i] = "open"
         /\ Existing(r)' = Existing(r)
         /\ \A i \in Attempts : IsCurrent(r, i) <=> IsCurrent(r, i)'
  <1>1. \A i \in Attempts : Owner(r, i)' => Owner(r, i)
    BY ConstantsAssumption DEF Quiet, Owner, OwnerPoints, Attempts, None
  <1>2. \A i \in Attempts : att'[r][i] = "none" <=> att[r][i] = "none"
    BY DEF Quiet, ExitReasons
  <1>3. \A i \in Attempts : att'[r][i] = "open" => att[r][i] = "open"
    BY DEF Quiet, ExitReasons
  <1>4. Existing(r)' = Existing(r)
    BY <1>2 DEF Existing
  <1>5. \A i \in Attempts : IsCurrent(r, i) <=> IsCurrent(r, i)'
    BY <1>2 DEF IsCurrent
  <1> QED
    BY <1>1, <1>2, <1>3, <1>4, <1>5

\* a quiet step keeps ownership as it was
LEMMA QuietStructure ==
  ASSUME NEW r \in Runs, Structure(r), Quiet(r)
  PROVE  Structure(r)'
  <1> USE QuietFacts DEF Structure
  <1>1. OneOwner(r)'
    BY DEF OneOwner
  <1>2. OwnerIsCurrent(r)'
    BY DEF OwnerIsCurrent, Quiet
  <1>3. SpawnIsNew(r)'
    <2>1. request'[r] \in {"snapshot", "launch"} =>
             /\ respawn'[r] = None
             /\ \A j \in Attempts : task'[r][j] = "none"
      BY DEF SpawnIsNew, Quiet
    <2>2. \A n, j \in Attempts :
             (respawn'[r] = n /\ n <= j) => task'[r][j] = "none"
      BY ConstantsAssumption DEF SpawnIsNew, Quiet, Attempts, None
    <2> QED
      BY <2>1, <2>2 DEF SpawnIsNew
  <1>4. OneSpawner(r)'
    BY DEF OneSpawner, Quiet
  <1>5. Unborn(r)'
    BY DEF Unborn, Quiet
  <1>6. Closing(r)'
    BY DEF Closing, Quiet
  <1>7. TrainerPhase(r)'
    BY DEF TrainerPhase, Quiet, Endings, EndedPoints
  <1>8. LiveIsCurrent(r)'
    BY DEF LiveIsCurrent, OwnerIsCurrent, Quiet, Owner, Endings, OwnerPoints
  <1>9. Gpus(r)'
    BY DEF Gpus, Quiet
  <1>10. Registered(r)'
    BY DEF Registered, Quiet
  <1> QED
    BY <1>1, <1>2, <1>3, <1>4, <1>5, <1>6, <1>7, <1>8, <1>9, <1>10

LEMMA RestingKept ==
  ASSUME NEW r \in Runs, RunInv(r), Quiet(r), RestCalm(r)
  PROVE  Resting(r)'
  BY QuietFacts DEF RunInv, Outcome, RestCalm, Resting, Quiet, Owner, Endings,
     OwnerPoints

LEMMA BilledKept ==
  ASSUME NEW r \in Runs, RunInv(r), Quiet(r), BillCalm(r)
  PROVE  Billed(r)'
  BY QuietFacts DEF RunInv, Outcome, BillCalm, Billed, Quiet

LEMMA RollUpKept ==
  ASSUME NEW r \in Runs, RunInv(r), Quiet(r), RollUpCalm(r)
  PROVE  RollUp(r)'
  BY QuietFacts DEF RunInv, Outcome, RollUpCalm, StagesCalm, RollUp, Quiet

LEMMA WholeKept ==
  ASSUME NEW r \in Runs, RunInv(r), Quiet(r), WholeCalm(r)
  PROVE  Whole(r)'
  BY DEF RunInv, Outcome, WholeCalm, StagesCalm, Whole

LEMMA AnchorKept ==
  ASSUME TypeOK, NEW r \in Runs, RunInv(r), Quiet(r), AnchorCalm(r)
  PROVE  Anchor(r)'
  <1>1. started[r] # None => started[r] \in Attempts
    BY DEF TypeOK, RowType
  <1> QED
    BY <1>1, QuietFacts DEF RunInv, Outcome, AnchorCalm, Anchor, Quiet

LEMMA CalmInv ==
  ASSUME Ownership, NEW r \in Runs, Quiet(r), Calm(r)
  PROVE  RunInv(r)'
  BY QuietStructure, RestingKept, BilledKept, RollUpKept, WholeKept, AnchorKept
     DEF Ownership, RunInv, Outcome, Calm

LEMMA InitOwnership == Init => Ownership
  <1> SUFFICES ASSUME Init PROVE Ownership
    OBVIOUS
  <1>1. TypeOK
    BY InitTyped
  <1>2. ASSUME NEW r \in Runs PROVE Structure(r)
    BY ConstantsAssumption DEF Init, Structure, OneOwner, OwnerIsCurrent,
       SpawnIsNew, OneSpawner, Unborn, Closing, TrainerPhase, LiveIsCurrent,
       Gpus, Registered, Owner, IsCurrent, OwnerPoints, EndedPoints, Attempts,
       None
  <1>3. ASSUME NEW r \in Runs PROVE Outcome(r)
    BY DEF Init, Outcome, Resting, Billed, RollUp, Whole, Anchor
  <1>4. BootInv
    BY DEF Init, BootInv
  <1> QED
    BY <1>1, <1>2, <1>3, <1>4 DEF Ownership, RunInv

-----------------------------------------------------------------------------
(* The quiet and calm actions *)

\* requests that decide nothing
LEMMA RequestCalm ==
  ASSUME Ownership, NEW q \in Runs, NEW r \in Runs,
         Cancel(r) \/ Pause(r) \/ SnapshotWritten(r) \/ SnapshotFails(r)
         \/ SkipAfterCancel(r) \/ RequestFails(r)
         \/ \E c \in Runs : Resume(r, c)
  PROVE  Quiet(q) /\ Calm(q)
  <1>0. TypeOK /\ TrainerPhase(r) /\ OneSpawner(r)
    BY DEF Ownership, RunInv, Structure
  <1> USE DEF TypeOK, RowType, AttemptType, MemoryType, db, dbRun, setup,
        dbAtt, dbKids, memory, heap, locals, calls, registry, boot, Quiet,
        Calm, RestCalm, BillCalm, StagesCalm, RollUpCalm, WholeCalm,
        AnchorCalm, Attempts, None
  <1>1. ASSUME Cancel(r) PROVE Quiet(q) /\ Calm(q)
    BY <1>0, <1>1 DEF Cancel
  <1>2. ASSUME Pause(r) PROVE Quiet(q) /\ Calm(q)
    BY <1>0, <1>2 DEF Pause
  <1>3. ASSUME SnapshotWritten(r) PROVE Quiet(q) /\ Calm(q)
    BY <1>0, <1>3 DEF SnapshotWritten
  <1>4. ASSUME SnapshotFails(r) PROVE Quiet(q) /\ Calm(q)
    BY <1>0, <1>4 DEF SnapshotFails
  <1>5. ASSUME SkipAfterCancel(r) PROVE Quiet(q) /\ Calm(q)
    BY <1>0, <1>5 DEF SkipAfterCancel, SkipPending
  <1>6. ASSUME NEW c \in Runs, Resume(r, c) PROVE Quiet(q) /\ Calm(q)
    BY <1>0, <1>6 DEF Resume
  <1>7. ASSUME RequestFails(r) PROVE Quiet(q) /\ Calm(q)
    BY <1>0, <1>7 DEF RequestFails, OneSpawner
  <1> QED
    BY <1>1, <1>2, <1>3, <1>4, <1>5, <1>6, <1>7

\* the events of a trainer
LEMMA EventCalm ==
  ASSUME Ownership, NEW q \in Runs, NEW r \in Runs, NEW i \in Attempts,
         EventStep(r, i)
  PROVE  Quiet(q) /\ Calm(q)
  <1>0. TypeOK /\ TrainerPhase(r)
    BY DEF Ownership, RunInv, Structure
  <1> USE DEF TypeOK, RowType, AttemptType, MemoryType, db, dbRun, setup,
        dbAtt, dbKids, memory, heap, locals, calls, registry, boot, Quiet,
        Calm, RestCalm, BillCalm, StagesCalm, RollUpCalm, WholeCalm,
        AnchorCalm, Attempts, None
  <1>1. ASSUME TaskEnterStage(r, i) PROVE Quiet(q) /\ Calm(q)
    BY <1>0, <1>1 DEF TaskEnterStage, At, Goto, OwnerPoints, EndedPoints
  <1>2. ASSUME TaskLeaveStage(r, i) PROVE Quiet(q) /\ Calm(q)
    BY <1>0, <1>2 DEF TaskLeaveStage, At, OwnerPoints, EndedPoints
  <1>3. ASSUME TaskProgress(r, i) PROVE Quiet(q) /\ Calm(q)
    BY <1>0, <1>3 DEF TaskProgress, At, Write, HasRow, RowStatus,
        OwnerPoints, EndedPoints
  <1>4. ASSUME TaskCheckpoint(r, i) PROVE Quiet(q) /\ Calm(q)
    BY <1>0, <1>4 DEF TaskCheckpoint, At, Write, HasRow, RowStatus, Goto,
        OwnerPoints, EndedPoints
  <1>5. ASSUME TaskRecord(r, i) PROVE Quiet(q) /\ Calm(q)
    BY <1>0, <1>5 DEF TaskRecord, At, InsertChild, OwnerPoints, EndedPoints
  <1> QED
    BY <1>1, <1>2, <1>3, <1>4, <1>5 DEF EventStep

\* the steps of a task that decide nothing, and the end of a trainer
LEMMA TaskCalm ==
  ASSUME Ownership, NEW q \in Runs, NEW r \in Runs, NEW i \in Attempts,
         TaskStart(r, i) \/ TaskPrepare(r, i) \/ TaskDispatch(r, i) \/
         TaskRegister(r, i) \/ TaskSaved(r, i) \/ TaskDrain(r, i) \/
         TaskAcceptRefused(r, i) \/ TaskPost(r, i) \/ TaskRaise(r, i) \/
         TaskFail(r, i) \/ TaskDie(r, i) \/ Evict(r, i) \/ TrainerExit(r,
         i)
  PROVE  Quiet(q) /\ Calm(q)
  <1>0. TypeOK /\ TrainerPhase(r) /\ OneSpawner(r)
    BY DEF Ownership, RunInv, Structure
  <1> USE DEF TypeOK, RowType, AttemptType, MemoryType, db, dbRun, setup,
        dbAtt, dbKids, memory, heap, locals, calls, registry, boot, Quiet,
        Calm, RestCalm, BillCalm, StagesCalm, RollUpCalm, WholeCalm,
        AnchorCalm, Attempts, None
  <1>1. ASSUME TaskStart(r, i) PROVE Quiet(q) /\ Calm(q)
    BY <1>0, <1>1 DEF TaskStart, At, Write, HasRow, RowStatus, Goto,
        OwnerPoints, EndedPoints, TrainerPhase
  <1>2. ASSUME TaskPrepare(r, i) PROVE Quiet(q) /\ Calm(q)
    BY <1>0, <1>2 DEF TaskPrepare, At, Goto, OwnerPoints, EndedPoints,
        TrainerPhase
  <1>3. ASSUME TaskDispatch(r, i) PROVE Quiet(q) /\ Calm(q)
    BY <1>0, <1>3 DEF TaskDispatch, At, Goto, OwnerPoints, EndedPoints,
        TrainerPhase
  <1>4. ASSUME TaskRegister(r, i) PROVE Quiet(q) /\ Calm(q)
    BY <1>0, <1>4 DEF TaskRegister, At, Write, HasRow, RowStatus, Goto,
        OwnerPoints, EndedPoints
  <1>5. ASSUME TaskSaved(r, i) PROVE Quiet(q) /\ Calm(q)
    BY <1>0, <1>5 DEF TaskSaved, At, InsertChild, Goto, OwnerPoints,
        EndedPoints
  <1>6. ASSUME TaskDrain(r, i) PROVE Quiet(q) /\ Calm(q)
    BY <1>0, <1>6 DEF TaskDrain, At, Endings, Goto, OwnerPoints, EndedPoints
  <1>7. ASSUME TaskAcceptRefused(r, i) PROVE Quiet(q) /\ Calm(q)
    BY <1>0, <1>7 DEF TaskAcceptRefused, At, FirstCandidate, Goto,
        OwnerPoints, EndedPoints, TrainerPhase
  <1>8. ASSUME TaskPost(r, i) PROVE Quiet(q) /\ Calm(q)
    BY <1>0, <1>8 DEF TaskPost, At, Goto, OwnerPoints, EndedPoints,
        TrainerPhase
  <1>9. ASSUME TaskRaise(r, i) PROVE Quiet(q) /\ Calm(q)
    BY <1>0, <1>9 DEF TaskRaise, Guarded, At, Goto, OwnerPoints, EndedPoints,
        TrainerPhase, OneSpawner
  <1>10. ASSUME TaskFail(r, i) PROVE Quiet(q) /\ Calm(q)
    BY <1>0, <1>10 DEF TaskFail, At, Write, HasRow, RowStatus, Goto,
        OwnerPoints, EndedPoints
  <1>11. ASSUME TaskDie(r, i) PROVE Quiet(q) /\ Calm(q)
    BY <1>0, <1>11 DEF TaskDie, Goto, OwnerPoints, EndedPoints
  <1>12. ASSUME Evict(r, i) PROVE Quiet(q) /\ Calm(q)
    BY <1>0, <1>12 DEF Evict, At, Goto, OwnerPoints, EndedPoints
  <1>13. ASSUME TrainerExit(r, i) PROVE Quiet(q) /\ Calm(q)
    BY <1>0, <1>13 DEF TrainerExit, Endings
  <1> QED
    BY <1>1, <1>2, <1>3, <1>4, <1>5, <1>6, <1>7, <1>8, <1>9, <1>10, <1>11,
        <1>12, <1>13

\* recovery of one row, and the start of its sweep
LEMMA RecoveryCalm ==
  ASSUME Ownership, NEW q \in Runs, NEW r \in Runs,
         RecoverSkip(r) \/ RecoverPending(r) \/ RecoverRunning(r) \/
         SweepClose(r)
  PROVE  Quiet(q) /\ Calm(q)
  <1>0. TypeOK /\ TrainerPhase(r)
    BY DEF Ownership, RunInv, Structure
  <1> USE DEF TypeOK, RowType, AttemptType, MemoryType, db, dbRun, setup,
        dbAtt, dbKids, memory, heap, locals, calls, registry, boot, Quiet,
        Calm, RestCalm, BillCalm, StagesCalm, RollUpCalm, WholeCalm,
        AnchorCalm, Attempts, None
  <1>1. ASSUME RecoverSkip(r) PROVE Quiet(q) /\ Calm(q)
    BY <1>0, <1>1 DEF RecoverSkip, Recovering
  <1>2. ASSUME RecoverPending(r) PROVE Quiet(q) /\ Calm(q)
    BY <1>0, <1>2 DEF RecoverPending, Recovering
  <1>3. ASSUME RecoverRunning(r) PROVE Quiet(q) /\ Calm(q)
    BY <1>0, <1>3 DEF RecoverRunning, Recovering
  <1>4. ASSUME SweepClose(r) PROVE Quiet(q) /\ Calm(q)
    BY <1>0, <1>4 DEF SweepClose, CloseCurrent, IsCurrent, ExitReasons
  <1> QED
    BY <1>1, <1>2, <1>3, <1>4

\* crash and startup, but for the verdict of the sweep
LEMMA BootCalm ==
  ASSUME Ownership, NEW q \in Runs,
         Crash \/ Restart \/ RecoverSecond \/ SweepBegin \/ SweepSum \/
         SweepSkip \/ SweepRaise \/ Serve
  PROVE  Quiet(q) /\ Calm(q)
  <1>0. TypeOK /\ BootInv
    BY DEF Ownership, RunInv, Structure
  <1> USE DEF TypeOK, RowType, AttemptType, MemoryType, db, dbRun, setup,
        dbAtt, dbKids, memory, heap, locals, calls, registry, boot, Quiet,
        Calm, RestCalm, BillCalm, StagesCalm, RollUpCalm, WholeCalm,
        AnchorCalm, Attempts, None
  <1>1. ASSUME Crash PROVE Quiet(q) /\ Calm(q)
    BY <1>0, <1>1 DEF Crash, OwnerPoints, EndedPoints
  <1>2. ASSUME Restart PROVE Quiet(q) /\ Calm(q)
    BY <1>0, <1>2 DEF Restart
  <1>3. ASSUME RecoverSecond PROVE Quiet(q) /\ Calm(q)
    BY <1>0, <1>3 DEF RecoverSecond, SkipPending
  <1>4. ASSUME SweepBegin PROVE Quiet(q) /\ Calm(q)
    BY <1>0, <1>4 DEF SweepBegin
  <1>5. ASSUME SweepSum PROVE Quiet(q) /\ Calm(q)
    BY <1>0, <1>5 DEF SweepSum, Existing
  <1>6. ASSUME SweepSkip PROVE Quiet(q) /\ Calm(q)
    BY <1>0, <1>6 DEF SweepSkip, SkipPending
  <1>7. ASSUME SweepRaise PROVE Quiet(q) /\ Calm(q)
    BY <1>0, <1>7 DEF SweepRaise
  <1>8. ASSUME Serve PROVE Quiet(q) /\ Calm(q)
    BY <1>0, <1>8 DEF Serve
  <1> QED
    BY <1>1, <1>2, <1>3, <1>4, <1>5, <1>6, <1>7, <1>8

-----------------------------------------------------------------------------
(* The actions that decide something about their run.  Each is quiet, calm *)
(* for the other runs, and calm for its own run but for what it decides.   *)

LEMMA EnteredQuiet ==
  ASSUME TypeOK, NEW q \in Runs, NEW r \in Runs, NEW i \in Attempts,
         TaskEntered(r, i)
  PROVE  Quiet(q) /\ RestCalm(q) /\ BillCalm(q) /\ RollUpCalm(q) /\ WholeCalm(q)
  BY DEF TaskEntered, At, Goto, Write, HasRow, RowStatus, OwnerPoints,
     EndedPoints, Quiet, RestCalm, BillCalm, StagesCalm, RollUpCalm,
     WholeCalm, TypeOK, RowType, MemoryType, dbAtt, dbKids, heap, locals,
     calls, registry, setup

\* stage_enter: started_at is set by the owner, for the current attempt
LEMMA EnteredInv ==
  ASSUME Ownership, NEW q \in Runs, NEW r \in Runs, NEW i \in Attempts,
         TaskEntered(r, i)
  PROVE  RunInv(q)'
  <1>0. TypeOK /\ RunInv(q) /\ RunInv(r)
    BY DEF Ownership
  <1>1. Quiet(q) /\ RestCalm(q) /\ BillCalm(q) /\ RollUpCalm(q) /\ WholeCalm(q)
    BY <1>0, EnteredQuiet
  <1>2. CASE q # r
    <2>1. AnchorCalm(q)
      BY <1>0, <1>2 DEF TaskEntered, AnchorCalm, TypeOK, RowType
    <2> QED
      BY <1>1, <2>1, CalmInv DEF Calm
  <1>3. CASE q = r
    <2>1. started'[r] \in {started[r], i}
      BY <1>0 DEF TaskEntered, TypeOK, RowType
    <2>2. status[r] # "deleted" => IsCurrent(r, i)
      BY <1>0 DEF TaskEntered, At, RunInv, Structure, OwnerIsCurrent, Owner,
         OwnerPoints
    <2>3. started[r] # None => started[r] \in Attempts
      BY <1>0 DEF TypeOK, RowType
    <2>4. Anchor(r)'
      BY <1>0, <1>1, <1>3, <2>1, <2>2, <2>3, QuietFacts
         DEF RunInv, Outcome, Anchor, Quiet
    <2> QED
      BY <1>0, <1>1, <1>3, <2>4, QuietStructure, RestingKept, BilledKept,
         RollUpKept, WholeKept DEF RunInv, Outcome
  <1> QED
    BY <1>2, <1>3

\* the owner closes its attempt, the only one that may be open
LEMMA ClosesAll ==
  ASSUME TypeOK, NEW r \in Runs, RunInv(r), NEW i \in Attempts, Owner(r, i),
         status[r] # "deleted", NEW reason \in ExitReasons,
         CloseCurrent(r, reason) \/ CloseOom(r)
  PROVE  \A j \in Attempts : att'[r][j] # "open"
  <1>1. IsCurrent(r, i)
    BY DEF RunInv, Structure, OwnerIsCurrent
  <1>2. \A j \in Attempts : j # i => att[r][j] # "open" /\ ~IsCurrent(r, j)
    BY <1>1, ConstantsAssumption
       DEF RunInv, Structure, Closing, IsCurrent, ExitReasons, Attempts
  <1>3. att'[r][i] # "open"
    BY <1>1 DEF CloseCurrent, CloseOom, ExitReasons, TypeOK, AttemptType
  <1>4. \A j \in Attempts : j # i => att'[r][j] = att[r][j]
    BY <1>2 DEF CloseCurrent, CloseOom, TypeOK, AttemptType
  <1> QED
    BY <1>2, <1>3, <1>4

\* closing, summing and skipping decide nothing yet
LEMMA RollUpQuiet ==
  ASSUME TypeOK, NEW q \in Runs, NEW r \in Runs, NEW i \in Attempts,
         TrainerPhase(r),
         \/ TaskClose(r, i) \/ TaskCloseOom(r, i)
         \/ TaskSum(r, i) \/ TaskSkip(r, i)
  PROVE  Quiet(q) /\ RestCalm(q) /\ BillCalm(q) /\ WholeCalm(q)
         /\ AnchorCalm(q)
  <1> USE DEF Goto, At, Existing, dbRun, dbKids, heap, locals, calls, registry,
        Quiet, RestCalm, BillCalm, StagesCalm, WholeCalm, AnchorCalm,
        OwnerPoints, EndedPoints, ExitReasons, TypeOK, AttemptType, MemoryType,
        setup, dbAtt, db
  <1>1. CASE TaskClose(r, i)
    BY <1>1 DEF TaskClose, CloseCurrent, Verdict, TrainerPhase, Endings
  <1>2. CASE TaskCloseOom(r, i)
    BY <1>2 DEF TaskCloseOom, CloseOom, IsCurrent, TrainerPhase
  <1>3. CASE TaskSum(r, i)
    BY <1>3 DEF TaskSum, TrainerPhase
  <1>4. CASE TaskSkip(r, i)
    BY <1>4 DEF TaskSkip, SkipPending, TrainerPhase
  <1> QED
    BY <1>1, <1>2, <1>3, <1>4

\* the steps of the terminal sequence up to the verdict
LEMMA RollUpInv ==
  ASSUME Ownership, NEW q \in Runs, NEW r \in Runs, NEW i \in Attempts,
         \/ TaskClose(r, i) \/ TaskCloseOom(r, i)
         \/ TaskSum(r, i) \/ TaskSkip(r, i)
  PROVE  RunInv(q)'
  <1>0. TypeOK /\ RunInv(q) /\ RunInv(r) /\ TrainerPhase(r)
    BY DEF Ownership, RunInv, Structure
  <1> USE DEF Goto, At, Existing, dbRun, dbKids, heap, locals, calls, registry
  <1>1. Quiet(q) /\ RestCalm(q) /\ BillCalm(q) /\ WholeCalm(q) /\ AnchorCalm(q)
    BY <1>0, RollUpQuiet
  <1>2. CASE q # r
    <2>1. RollUpCalm(q)
      BY <1>0, <1>2 DEF TaskClose, TaskCloseOom, TaskSum, TaskSkip,
         SkipPending, RollUpCalm, StagesCalm, TypeOK, AttemptType, MemoryType,
         db
    <2> QED
      BY <1>1, <2>1, CalmInv DEF Calm
  <1>3. CASE q = r
    <2>1. ASSUME status[r] = "deleted" PROVE RollUp(r)'
      BY <1>1, <1>3, <2>1 DEF RollUp, Quiet
    <2>2. ASSUME status[r] # "deleted" PROVE RollUp(r)'
      <3>1. Owner(r, i)
        BY DEF TaskClose, TaskCloseOom, TaskSum, TaskSkip, Owner, OwnerPoints
      <3>2. \A j \in Attempts : j # i =>
               task'[r][j] = task[r][j] /\ task'[r][j] \notin OwnerPoints
        BY <1>0, <3>1 DEF RunInv, Structure, OneOwner, Owner, TaskClose,
           TaskCloseOom, TaskSum, TaskSkip, TypeOK, MemoryType
      <3>3. \A j \in Attempts : att'[r][j] # "open"
        <4>1. CASE TaskClose(r, i)
          <5>1. Verdict(r, i) \in ExitReasons
            BY <1>0, <4>1 DEF TaskClose, Verdict, TrainerPhase, EndedPoints,
               Endings, ExitReasons
          <5> QED
            BY <1>0, <2>2, <3>1, <4>1, <5>1, ClosesAll DEF TaskClose
        <4>2. CASE TaskCloseOom(r, i)
          BY <1>0, <2>2, <3>1, <4>2, ClosesAll DEF TaskCloseOom, ExitReasons
        <4>3. CASE TaskSum(r, i) \/ TaskSkip(r, i)
          BY <1>0, <2>2, <4>3 DEF TaskSum, TaskSkip, RunInv, Outcome, RollUp,
             db, dbAtt
        <4> QED
          BY <4>1, <4>2, <4>3
      <3>4. task'[r][i] \in {"skip", "status"} =>
               tally'[r][i] = Existing(r)'
        BY <1>0, <2>2 DEF TaskClose, TaskCloseOom, TaskSum, TaskSkip, RunInv,
           Outcome, RollUp, TypeOK, MemoryType, db, dbAtt
      <3>5. task'[r][i] = "status" =>
               \A s \in Stages : stage'[r][s] # "pending"
        BY <1>0 DEF TaskClose, TaskCloseOom, TaskSum, TaskSkip, SkipPending,
           TypeOK, AttemptType, MemoryType
      <3> QED
        BY <1>3, <3>2, <3>3, <3>4, <3>5 DEF RollUp, OwnerPoints
    <2>3. RollUp(r)'
      BY <2>1, <2>2
    <2> QED
      BY <1>0, <1>1, <1>3, <2>3, QuietStructure, RestingKept, BilledKept,
         WholeKept, AnchorKept DEF RunInv, Outcome
  <1> QED
    BY <1>2, <1>3

LEMMA ProposeQuiet ==
  ASSUME TypeOK, NEW q \in Runs, NEW r \in Runs, NEW i \in Attempts,
         TrainerPhase(r), TaskPropose(r, i)
  PROVE  Quiet(q) /\ BillCalm(q) /\ RollUpCalm(q) /\ WholeCalm(q)
         /\ AnchorCalm(q)
  <1>1. trainer[r][i] \in Endings
    BY DEF TaskPropose, At, TrainerPhase, EndedPoints
  <1> QED
    BY <1>1 DEF TaskPropose, Goto, At, Write, HasRow, RowStatus, setup, heap,
       locals, calls, registry, Quiet, BillCalm, StagesCalm, RollUpCalm,
       WholeCalm, AnchorCalm, OwnerPoints, EndedPoints, TypeOK, RowType,
       MemoryType, dbAtt, dbKids

\* giving the run up for a decision: the owner has closed everything, and its
\* trainer, the only one that could be alive, has ended
LEMMA ProposeInv ==
  ASSUME Ownership, NEW q \in Runs, NEW r \in Runs, NEW i \in Attempts,
         TaskPropose(r, i)
  PROVE  RunInv(q)'
  <1>0. TypeOK /\ RunInv(q) /\ RunInv(r)
    BY DEF Ownership
  <1> USE DEF TaskPropose, Goto, At, Write, HasRow, RowStatus, setup, heap,
          locals, calls, registry
  <1>1. Quiet(q) /\ BillCalm(q) /\ RollUpCalm(q) /\ WholeCalm(q)
        /\ AnchorCalm(q)
    BY <1>0, ProposeQuiet DEF RunInv, Structure
  <1>2. CASE q # r
    <2>1. RestCalm(q)
      BY <1>0, <1>2 DEF RestCalm, TypeOK, RowType
    <2> QED
      BY <1>1, <2>1, CalmInv DEF Calm
  <1>3. CASE q = r
    <2>1. Owner(r, i)
      BY DEF Owner, OwnerPoints
    <2>2. ASSUME status'[r] = "fallback_pending" PROVE Resting(r)'
      <3>1. status[r] # "deleted"
        BY <2>2, <1>0 DEF TypeOK, RowType
      <3>2. cost'[r] = {}
        BY <1>0, <1>1, <1>3, <2>1, <3>1 DEF RunInv, Outcome, Billed, BillCalm
      <3>3. \A j \in Attempts : ~Owner(r, j)'
        <4>1. \A j \in Attempts : Owner(r, j)' => j = i
          BY <1>0, <1>1, <1>3, <2>1, QuietFacts DEF RunInv, Structure, OneOwner
        <4>2. task'[r][i] \notin OwnerPoints
          BY <1>0 DEF OwnerPoints, TypeOK, MemoryType
        <4>3. respawn'[r] # i /\ request'[r] \notin {"snapshot", "launch"}
          BY <1>0, ConstantsAssumption
             DEF RunInv, Structure, SpawnIsNew, Attempts
        <4> QED
          BY <4>1, <4>2, <4>3 DEF Owner
      <3>4. \A j \in Attempts : att'[r][j] # "open"
        BY <1>0, <3>1 DEF RunInv, Outcome, RollUp, dbAtt
      <3>5. \A j \in Attempts : trainer'[r][j] # "live"
        <4>1. \A j \in Attempts : trainer[r][j] = "live" => j = i
          BY <1>0, <2>1, <3>1, ConstantsAssumption DEF RunInv, Structure,
             LiveIsCurrent, OwnerIsCurrent, IsCurrent, Attempts
        <4>2. trainer[r][i] # "live"
          BY <1>0 DEF RunInv, Structure, TrainerPhase, EndedPoints, Endings
        <4> QED
          BY <4>1, <4>2
      <3> QED
        BY <3>2, <3>3, <3>4, <3>5 DEF Resting
    <2>3. Resting(r)'
      BY <2>2 DEF Resting
    <2> QED
      BY <1>0, <1>1, <1>3, <2>3, QuietStructure, BilledKept, RollUpKept,
         WholeKept, AnchorKept DEF RunInv, Outcome
  <1> QED
    BY <1>2, <1>3

LEMMA VerdictQuiet ==
  ASSUME TypeOK, NEW q \in Runs, NEW r \in Runs, NEW i \in Attempts,
         TrainerPhase(r), TaskStatus(r, i)
  PROVE  Quiet(q) /\ RestCalm(q) /\ RollUpCalm(q) /\ AnchorCalm(q)
  <1>1. Verdict(r, i) \in Terminal /\ trainer[r][i] \in Endings
    BY DEF TaskStatus, At, TrainerPhase, EndedPoints, Verdict, Endings,
       Terminal
  <1> QED
    BY <1>1 DEF TaskStatus, Goto, At, Write, HasRow, RowStatus, setup, heap,
       locals, calls, registry, dbAtt, dbKids, Quiet, RestCalm, StagesCalm,
       RollUpCalm, AnchorCalm, Terminal, OwnerPoints, EndedPoints, TypeOK,
       RowType, MemoryType

\* the verdict: the bill is the sum the owner made, and after it the run has
\* no owner
LEMMA VerdictInv ==
  ASSUME Ownership, NEW q \in Runs, NEW r \in Runs, NEW i \in Attempts,
         TaskStatus(r, i)
  PROVE  RunInv(q)'
  <1>0. TypeOK /\ RunInv(q) /\ RunInv(r)
    BY DEF Ownership
  <1> USE DEF TaskStatus, Goto, At, Write, HasRow, RowStatus, setup, heap,
          locals, calls, registry, dbAtt, dbKids
  <1>1. Verdict(r, i) \in Terminal /\ trainer[r][i] \in Endings
    BY <1>0 DEF RunInv, Structure, TrainerPhase, EndedPoints, Verdict, Endings,
       Terminal
  <1>2. Quiet(q) /\ RestCalm(q) /\ RollUpCalm(q) /\ AnchorCalm(q)
    BY <1>0, VerdictQuiet DEF RunInv, Structure
  <1>3. CASE q # r
    <2>1. BillCalm(q) /\ WholeCalm(q)
      BY <1>0, <1>3 DEF BillCalm, WholeCalm, StagesCalm, TypeOK, RowType
    <2> QED
      BY <1>2, <2>1, CalmInv DEF Calm
  <1>4. CASE q = r
    <2>1. Owner(r, i)
      BY DEF Owner, OwnerPoints
    <2>2. \A j \in Attempts : ~Owner(r, j)'
      <3>1. \A j \in Attempts : Owner(r, j)' => j = i
        BY <1>0, <1>2, <1>4, <2>1, QuietFacts DEF RunInv, Structure, OneOwner
      <3>2. task'[r][i] \notin OwnerPoints
        BY <1>0 DEF OwnerPoints, TypeOK, MemoryType
      <3>3. respawn'[r] # i /\ request'[r] \notin {"snapshot", "launch"}
        BY <1>0, ConstantsAssumption
           DEF RunInv, Structure, SpawnIsNew, Attempts
      <3> QED
        BY <3>1, <3>2, <3>3 DEF Owner
    <2>3. ASSUME status[r] # "deleted"
          PROVE  /\ cost'[r] = Existing(r)
                 /\ cost'[r] # {}
                 /\ \A j \in Attempts : att'[r][j] # "open"
                 /\ \A s \in Stages : stage'[r][s] # "pending"
      <3>1. IsCurrent(r, i)
        BY <1>0, <2>1, <2>3 DEF RunInv, Structure, OwnerIsCurrent
      <3>2. status[r] \in RowStatus
        BY <1>0, <2>3, <3>1 DEF TypeOK, RowType, RunInv, Structure, Unborn,
           IsCurrent
      <3>3. cost'[r] = tally[r][i]
        BY <1>0, <3>2 DEF TypeOK, RowType
      <3>4. tally[r][i] = Existing(r) /\ i \in Existing(r)
        BY <1>0, <2>3, <3>1 DEF RunInv, Outcome, RollUp, Existing, IsCurrent
      <3> QED
        BY <1>0, <2>3, <3>3, <3>4 DEF RunInv, Outcome, RollUp
    <2>4. Billed(r)'
      BY <1>2, <1>4, <2>2, <2>3, QuietFacts DEF Billed, Quiet
    <2>5. Whole(r)'
      BY <1>2, <1>4, <2>3 DEF Whole, Quiet
    <2> QED
      BY <1>0, <1>2, <1>4, <2>4, <2>5, QuietStructure, RestingKept,
         RollUpKept, AnchorKept DEF RunInv, Outcome
  <1> QED
    BY <1>3, <1>4

LEMMA CancelFallbackQuiet ==
  ASSUME TypeOK, NEW q \in Runs, NEW r \in Runs, CancelFallback(r)
  PROVE  Quiet(q) /\ RestCalm(q) /\ RollUpCalm(q) /\ WholeCalm(q)
         /\ AnchorCalm(q)
  BY DEF CancelFallback, setup, dbAtt, locals, registry, dbKids, Quiet,
     RestCalm, StagesCalm, RollUpCalm, WholeCalm, AnchorCalm, TypeOK, RowType, AttemptType, MemoryType

\* cancel_fallback bills a run that waits for a decision
LEMMA CancelFallbackInv ==
  ASSUME Ownership, NEW q \in Runs, NEW r \in Runs, CancelFallback(r)
  PROVE  RunInv(q)'
  <1>0. TypeOK /\ RunInv(q) /\ RunInv(r)
    BY DEF Ownership
  <1> USE DEF CancelFallback, setup, dbAtt, locals, registry, dbKids
  <1>1. Quiet(q) /\ RestCalm(q) /\ RollUpCalm(q) /\ WholeCalm(q)
        /\ AnchorCalm(q)
    BY <1>0, CancelFallbackQuiet
  <1>2. CASE q # r
    <2>1. BillCalm(q)
      BY <1>0, <1>2 DEF BillCalm, TypeOK, RowType
    <2> QED
      BY <1>1, <2>1, CalmInv DEF Calm
  <1>3. CASE q = r
    <2>1. cost'[r] = Existing(r)
      BY <1>0 DEF TypeOK, RowType
    <2>2. \A j \in Attempts : ~Owner(r, j) /\ att[r][j] # "open"
      BY <1>0 DEF RunInv, Outcome, Resting
    <2>3. Billed(r)'
      BY <1>1, <1>3, <2>1, <2>2, QuietFacts DEF Billed
    <2> QED
      BY <1>0, <1>1, <1>3, <2>3, QuietStructure, RestingKept, RollUpKept,
         WholeKept, AnchorKept DEF RunInv, Outcome
  <1> QED
    BY <1>2, <1>3

LEMMA SweepStatusQuiet ==
  ASSUME TypeOK, BootInv, NEW q \in Runs, SweepStatus
  PROVE  Quiet(q) /\ RestCalm(q) /\ RollUpCalm(q) /\ WholeCalm(q)
         /\ AnchorCalm(q)
  <1>1. cur \in Runs /\ status[cur] = "fallback_pending"
    BY DEF SweepStatus, BootInv, TypeOK, BootType
  <1> QED
    BY <1>1 DEF SweepStatus, Write, HasRow, RowStatus, setup, dbAtt, dbKids,
       memory, heap, locals, calls, registry, Quiet, RestCalm, StagesCalm,
       RollUpCalm, WholeCalm, AnchorCalm, TypeOK, RowType

\* and so does the sweep
LEMMA SweepStatusInv ==
  ASSUME Ownership, NEW q \in Runs, SweepStatus
  PROVE  RunInv(q)'
  <1>0. TypeOK /\ RunInv(q) /\ BootInv
    BY DEF Ownership
  <1>1. cur \in Runs /\ status[cur] = "fallback_pending"
        /\ bootTally = Existing(cur)
    BY <1>0 DEF SweepStatus, BootInv, TypeOK, BootType
  <1>2. RunInv(cur)
    BY <1>1 DEF Ownership
  <1> USE DEF SweepStatus, Write, HasRow, RowStatus, setup, dbAtt, dbKids,
          memory, heap, locals, calls, registry
  <1>3. Quiet(q) /\ RestCalm(q) /\ RollUpCalm(q) /\ WholeCalm(q)
        /\ AnchorCalm(q)
    BY <1>0, SweepStatusQuiet
  <1>4. CASE q # cur
    <2>1. BillCalm(q)
      BY <1>0, <1>4 DEF BillCalm, TypeOK, RowType
    <2> QED
      BY <1>3, <2>1, CalmInv DEF Calm
  <1>5. CASE q = cur
    <2>1. cost'[q] = Existing(q)
      BY <1>0, <1>1, <1>5 DEF TypeOK, RowType
    <2>2. \A j \in Attempts : ~Owner(q, j) /\ att[q][j] # "open"
      BY <1>1, <1>2, <1>5 DEF RunInv, Outcome, Resting
    <2>3. Billed(q)'
      BY <1>3, <2>1, <2>2, QuietFacts DEF Billed
    <2> QED
      BY <1>0, <1>3, <2>3, QuietStructure, RestingKept, RollUpKept, WholeKept,
         AnchorKept DEF RunInv, Outcome
  <1> QED
    BY <1>4, <1>5

-----------------------------------------------------------------------------
(* The actions that make something new, or take the run away *)

\* create_run: nothing was there before
LEMMA CreateInv ==
  ASSUME Ownership, NEW q \in Runs, NEW r \in Runs, Create(r)
  PROVE  RunInv(q)'
  <1>0. TypeOK /\ RunInv(q) /\ RunInv(r)
    BY DEF Ownership
  <1> USE DEF Create, locals, registry
  <1>1. CASE q # r
    <2>1. Quiet(q) /\ Calm(q)
      BY <1>0, <1>1 DEF Quiet, Calm, RestCalm, BillCalm, StagesCalm,
         RollUpCalm, WholeCalm, AnchorCalm, TypeOK, RowType, AttemptType,
         MemoryType
    <2> QED
      BY <2>1, CalmInv
  <1>2. CASE q = r
    <2>1. 0 \in Attempts
      BY ConstantsAssumption DEF Attempts
    <2>2. \A i \in Attempts : /\ att[r][i] = "none" /\ task[r][i] = "none"
                              /\ trainer[r][i] = "none"
      BY <1>0 DEF RunInv, Structure, Unborn
    <2>3. \A i \in Attempts : ~IsCurrent(r, i) /\ ~Owner(r, i)
      BY <1>0, <2>2 DEF RunInv, Structure, OwnerIsCurrent, IsCurrent
    <2>4. /\ respawn'[r] = None
          /\ \A i \in Attempts : Owner(r, i)' => i = 0
      BY <1>0, <2>2, <2>3 DEF Owner, OwnerPoints, TypeOK, MemoryType
    <2>5. cost'[r] = {}
      <3>1. Existing(r) = {}
        BY <2>2 DEF Existing
      <3> QED
        BY <1>0, <3>1 DEF RunInv, Outcome, Billed
    <2>6. started'[r] = None
      BY <1>0, <2>3 DEF RunInv, Outcome, Anchor, TypeOK, RowType
    <2>7. \A i \in Attempts : att'[r][i] = IF i = 0 THEN "open" ELSE "none"
      BY <1>0, <2>1, <2>2 DEF TypeOK, AttemptType
    <2>8. /\ status'[r] = "pending"
          /\ request'[r] = "snapshot"
          /\ attGpu'[r][0] = gpu'[r]
      BY <1>0, <2>1 DEF TypeOK, RowType, AttemptType, MemoryType
    <2>9. \A i \in Attempts : IsCurrent(r, i)' <=> i = 0
      BY <2>1, <2>7, ConstantsAssumption DEF IsCurrent, Attempts
    <2>10. OneOwner(r)' /\ OwnerIsCurrent(r)' /\ SpawnIsNew(r)'
           /\ OneSpawner(r)'
      BY <2>2, <2>4, <2>8, <2>9, ConstantsAssumption DEF OneOwner,
         OwnerIsCurrent, SpawnIsNew, OneSpawner, Attempts, None
    <2>11. Unborn(r)' /\ Closing(r)' /\ TrainerPhase(r)' /\ LiveIsCurrent(r)'
      BY <2>2, <2>7, <2>8, ConstantsAssumption DEF Unborn, Closing,
         TrainerPhase, LiveIsCurrent, EndedPoints, Attempts
    <2>12. Gpus(r)' /\ Registered(r)'
      BY <2>2, <2>8, <2>9 DEF Gpus, Registered
    <2>13. Outcome(r)'
      BY <2>2, <2>5, <2>6, <2>8
         DEF Outcome, Resting, Billed, RollUp, Whole, Anchor
    <2> QED
      BY <1>2, <2>10, <2>11, <2>12, <2>13 DEF RunInv, Structure
  <1> QED
    BY <1>1, <1>2

\* delete_run: only the tasks and trainers are left
LEMMA DeleteInv ==
  ASSUME Ownership, NEW q \in Runs, NEW r \in Runs, Delete(r)
  PROVE  RunInv(q)'
  <1>0. TypeOK /\ RunInv(q) /\ RunInv(r)
    BY DEF Ownership
  <1> USE DEF Delete, setup, memory, heap, locals, calls, registry
  <1>1. CASE q # r
    <2>1. Quiet(q) /\ Calm(q)
      BY <1>0, <1>1 DEF Quiet, Calm, RestCalm, BillCalm, StagesCalm,
         RollUpCalm, WholeCalm, AnchorCalm, TypeOK, RowType, AttemptType
    <2> QED
      BY <2>1, CalmInv
  <1>2. CASE q = r
    <2>1. /\ status'[r] = "deleted"
          /\ \A i \in Attempts : att'[r][i] = "none"
      BY <1>0 DEF TypeOK, RowType, AttemptType
    <2>2. \A i \in Attempts : Owner(r, i)' <=> Owner(r, i)
      BY DEF Owner
    <2>3. OneOwner(r)' /\ OwnerIsCurrent(r)' /\ SpawnIsNew(r)'
          /\ OneSpawner(r)'
      BY <1>0, <2>1, <2>2 DEF RunInv, Structure, OneOwner, OwnerIsCurrent,
         SpawnIsNew, OneSpawner
    <2>4. Unborn(r)' /\ Closing(r)' /\ TrainerPhase(r)' /\ LiveIsCurrent(r)'
      BY <1>0, <2>1 DEF RunInv, Structure, Unborn, Closing, TrainerPhase,
         LiveIsCurrent
    <2>5. Gpus(r)' /\ Registered(r)'
      BY <1>0, <2>1 DEF RunInv, Structure, Gpus, Registered
    <2>6. Outcome(r)'
      BY <2>1 DEF Outcome, Resting, Billed, RollUp, Whole, Anchor
    <2> QED
      BY <1>2, <2>3, <2>4, <2>5, <2>6 DEF RunInv, Structure
  <1> QED
    BY <1>1, <1>2

\* accept_fallback up to its commit, from the route or from an old task
LEMMA AcceptInv ==
  ASSUME Ownership, NEW q \in Runs, NEW r \in Runs, NEW n \in Attempts,
         NEW g \in GPUs, Accept(r, g, n),
         UNCHANGED <<trainer, locals, registry>>,
         \/ UNCHANGED task /\ request' = [request EXCEPT ![r] = "respawn"]
         \/ /\ UNCHANGED request
            /\ \E i \in Attempts : At(r, i, "accept") /\ Goto(r, i, "spawn")
  PROVE  RunInv(q)'
  <1>0. TypeOK /\ RunInv(q) /\ RunInv(r)
    BY DEF Ownership
  <1> USE DEF Accept, At, Goto, locals, registry
  <1>1. CASE q # r
    <2>1. Quiet(q) /\ Calm(q)
      BY <1>0, <1>1 DEF Quiet, Calm, RestCalm, BillCalm, StagesCalm,
         RollUpCalm, WholeCalm, AnchorCalm, TypeOK, RowType, AttemptType,
         MemoryType, dbKids
    <2> QED
      BY <2>1, CalmInv
  <1>2. CASE q = r
    <2>1. /\ cost[r] = {}
          /\ \A j \in Attempts : /\ ~Owner(r, j) /\ att[r][j] # "open"
                                 /\ trainer[r][j] # "live"
      BY <1>0 DEF RunInv, Outcome, Resting
    <2>2. \A j \in Attempts : n <= j => /\ att[r][j] = "none"
                                        /\ task[r][j] = "none"
      BY <1>0 DEF IsNext, RunInv, Structure, Unborn
    <2>3. respawn[r] = None /\ request[r] \notin {"snapshot", "launch"}
      <3>1. 0 \in Attempts /\ respawn[r] \in Attempts \cup {None}
        BY <1>0, ConstantsAssumption DEF TypeOK, MemoryType, Attempts
      <3> QED
        BY <2>1, <3>1 DEF Owner
    <2>4. /\ request[r] # "respawn"
          /\ \A j \in Attempts : task[r][j] # "spawn"
      BY <1>0, <2>3, ConstantsAssumption
         DEF RunInv, Structure, OneSpawner, Attempts, None
    <2>5. /\ status'[r] = "running" /\ started'[r] = None /\ cost'[r] = {}
          /\ respawn'[r] = n /\ gpu'[r] = g /\ attGpu'[r][n] = g
          /\ \A j \in Attempts : /\ j # n => attGpu'[r][j] = attGpu[r][j]
                                 /\ att'[r][j] = IF j = n THEN "open"
                                                 ELSE att[r][j]
      BY <1>0, <2>1 DEF TypeOK, RowType, AttemptType, MemoryType
    <2>6. /\ \A j \in Attempts :
                task'[r][j] = task[r][j]
                \/ (task[r][j] = "accept" /\ task'[r][j] = "spawn")
          /\ \/ /\ request'[r] = "respawn"
                /\ \A j \in Attempts : task'[r][j] # "spawn"
             \/ /\ request'[r] = request[r]
                /\ \A i, j \in Attempts :
                      task'[r][i] = "spawn" /\ task'[r][j] = "spawn" => i = j
      BY <1>0, <2>4 DEF TypeOK, MemoryType
    <2>7. \A j \in Attempts : IsCurrent(r, j)' <=> j = n
      BY <2>2, <2>5, ConstantsAssumption DEF IsCurrent, Attempts
    <2>8. \A j \in Attempts : Owner(r, j)' => j = n
      BY <2>1, <2>3, <2>5, <2>6 DEF Owner, OwnerPoints
    <2>9. OneOwner(r)' /\ OwnerIsCurrent(r)'
      BY <2>7, <2>8 DEF OneOwner, OwnerIsCurrent
    <2>10. SpawnIsNew(r)' /\ OneSpawner(r)'
      BY <2>2, <2>3, <2>4, <2>5, <2>6 DEF SpawnIsNew, OneSpawner
    <2>11. Unborn(r)'
      BY <1>0, <2>5, <2>6 DEF RunInv, Structure, Unborn
    <2>12. Closing(r)'
      <3>1. \A i \in Attempts : i < n => att[r][i] \in ExitReasons
        <4>1. CASE n = 0
          BY <4>1, ConstantsAssumption DEF Attempts
        <4>2. CASE n > 0
          <5>1. n - 1 \in Attempts /\ att[r][n - 1] # "none"
            BY <4>2, ConstantsAssumption DEF IsNext, Attempts
          <5>2. att[r][n - 1] \in ExitReasons
            BY <1>0, <2>1, <5>1 DEF TypeOK, AttemptType
          <5> QED
            BY <1>0, <5>1, <5>2, ConstantsAssumption
               DEF RunInv, Structure, Closing, Attempts
        <4> QED
          BY <4>1, <4>2, ConstantsAssumption DEF Attempts
      <3> QED
        BY <1>0, <2>2, <2>5, <3>1, ConstantsAssumption
           DEF RunInv, Structure, Closing, Attempts
    <2>13. TrainerPhase(r)' /\ LiveIsCurrent(r)'
      BY <1>0, <2>1, <2>6
         DEF RunInv, Structure, TrainerPhase, LiveIsCurrent, EndedPoints
    <2>14. Gpus(r)'
      BY <1>0, <2>2, <2>5, <2>6, <2>7, ConstantsAssumption
         DEF RunInv, Structure, Gpus, Attempts
    <2>15. Registered(r)'
      BY <1>0, <2>6 DEF RunInv, Structure, Registered
    <2>16. Outcome(r)'
      BY <2>1, <2>5, <2>6 DEF Outcome, Resting, Billed, RollUp, Whole, Anchor,
         Owner, OwnerPoints
    <2> QED
      BY <1>2, <2>9, <2>10, <2>11, <2>12, <2>13, <2>14, <2>15, <2>16
         DEF RunInv, Structure
  <1> QED
    BY <1>1, <1>2

\* the task of attempt n starts: it takes over from the request or task that
\* was about to spawn it
Spawned(r, n) ==
    /\ \/ n = 0 /\ request[r] = "launch"
       \/ respawn[r] = n
    /\ request'[r] \notin {"snapshot", "launch", "respawn"}
    /\ respawn'[r] = None
    /\ task'[r][n] = "start"
    /\ taskGpu'[r][n] = attGpu[r][n]
    /\ activeTask'[r] = n
    /\ \A j \in Attempts : j # n =>
          /\ taskGpu'[r][j] = taskGpu[r][j]
          /\ \/ task'[r][j] = task[r][j]
             \/ task[r][j] = "spawn" /\ task'[r][j] = "post"
          /\ task'[r][j] # "spawn"
    /\ UNCHANGED <<db, trainer, tally>>

LEMMA SpawnedInv ==
  ASSUME NEW r \in Runs, RunInv(r), NEW n \in Attempts, Spawned(r, n)
  PROVE  RunInv(r)'
  <1> USE DEF Spawned, db, dbRun, setup, dbAtt, dbKids
  <1>1. Owner(r, n)
    BY DEF Owner
  <1>2. \A j \in Attempts : n <= j => task[r][j] = "none"
    BY DEF RunInv, Structure, SpawnIsNew
  <1>3. trainer[r][n] = "none"
    BY <1>2, ConstantsAssumption DEF RunInv, Structure, TrainerPhase, Attempts
  <1>4. \A j \in Attempts : Owner(r, j)' => j = n
    BY <1>1, ConstantsAssumption
       DEF Owner, OwnerPoints, RunInv, Structure, OneOwner, Attempts, None
  <1>5. \A j \in Attempts : IsCurrent(r, j)' <=> IsCurrent(r, j)
    BY DEF IsCurrent
  <1>6. OneOwner(r)' /\ OwnerIsCurrent(r)'
    BY <1>1, <1>4, <1>5 DEF RunInv, Structure, OneOwner, OwnerIsCurrent
  <1>7. SpawnIsNew(r)' /\ OneSpawner(r)'
    BY ConstantsAssumption DEF SpawnIsNew, OneSpawner, Attempts, None
  <1>8. Unborn(r)'
    BY <1>1 DEF RunInv, Structure, Unborn, OwnerIsCurrent, IsCurrent
  <1>9. Closing(r)' /\ TrainerPhase(r)'
    BY <1>3 DEF RunInv, Structure, Closing, TrainerPhase, EndedPoints
  <1>10. LiveIsCurrent(r)'
    BY <1>5 DEF RunInv, Structure, LiveIsCurrent
  <1>11. Gpus(r)'
    BY <1>5 DEF RunInv, Structure, Gpus
  <1>12. Registered(r)'
    BY <1>2, ConstantsAssumption DEF Registered, Attempts
  <1>13. Resting(r)' /\ Billed(r)'
    BY <1>1 DEF RunInv, Outcome, Resting, Billed
  <1>14. RollUp(r)' /\ Whole(r)' /\ Anchor(r)'
    BY <1>5 DEF RunInv, Outcome, RollUp, Whole, Anchor, Existing, IsCurrent
  <1> QED
    BY <1>6, <1>7, <1>8, <1>9, <1>10, <1>11, <1>12, <1>13, <1>14
       DEF RunInv, Structure, Outcome

\* the three steps that spawn a task do that, and only to their own run
LEMMA SpawnTakesOver ==
  ASSUME Ownership, NEW r \in Runs,
         \/ Launch(r) \/ Respawn(r) \/ \E i \in Attempts : TaskSpawn(r, i)
  PROVE  \E n \in Attempts : Spawned(r, n)
  <1>0. TypeOK /\ SpawnIsNew(r) /\ OneSpawner(r)
    BY DEF Ownership, RunInv, Structure
  <1> USE DEF SpawnAccepted, Spawn
  <1>1. ASSUME Launch(r) PROVE Spawned(r, 0) /\ 0 \in Attempts
    <2>1. /\ 0 \in Attempts /\ respawn[r] = None
          /\ \A j \in Attempts : task[r][j] = "none"
      BY <1>0, <1>1, ConstantsAssumption DEF Launch, SpawnIsNew, Attempts
    <2> QED
      BY <1>0, <1>1, <2>1 DEF Launch, Spawned, TypeOK, MemoryType
  <1>2. ASSUME Respawn(r) PROVE Spawned(r, respawn[r])
    BY <1>0, <1>2 DEF Respawn, Spawned, OneSpawner, TypeOK, MemoryType
  <1>3. ASSUME NEW i \in Attempts, TaskSpawn(r, i)
        PROVE  Spawned(r, respawn[r])
    <2>1. /\ respawn[r] \in Attempts /\ task[r][i] = "spawn"
          /\ \A j \in Attempts : task[r][j] = "spawn" => j = i
          /\ request[r] \notin {"snapshot", "launch", "respawn"}
      BY <1>0, <1>3, ConstantsAssumption
         DEF TaskSpawn, At, OneSpawner, SpawnIsNew, Attempts, None
    <2>2. task[r][respawn[r]] = "none"
      BY <1>0, <2>1, ConstantsAssumption DEF SpawnIsNew, Attempts
    <2>3. \A j \in Attempts : task'[r][j] =
             IF j = respawn[r] THEN "start"
             ELSE IF j = i THEN "post" ELSE task[r][j]
      BY <1>0, <1>3, <2>1 DEF TaskSpawn, TypeOK, MemoryType
    <2> QED
      BY <1>0, <1>3, <2>1, <2>2, <2>3
         DEF TaskSpawn, Spawned, TypeOK, MemoryType
  <1>4. Respawn(r) \/ (\E i \in Attempts : TaskSpawn(r, i))
        => respawn[r] \in Attempts
    BY <1>0 DEF Respawn, TaskSpawn, At, OneSpawner
  <1> QED
    BY <1>1, <1>2, <1>3, <1>4

LEMMA SpawnQuiet ==
  ASSUME TypeOK, NEW q \in Runs, NEW r \in Runs, q # r,
         \/ Launch(r) \/ Respawn(r) \/ \E i \in Attempts : TaskSpawn(r, i)
  PROVE  Quiet(q) /\ Calm(q)
  BY DEF Launch, Respawn, TaskSpawn, SpawnAccepted, Spawn, Quiet, Calm,
     RestCalm, BillCalm, StagesCalm, RollUpCalm, WholeCalm, AnchorCalm, TypeOK,
     MemoryType, db, dbRun, setup, dbAtt, dbKids

LEMMA SpawnInv ==
  ASSUME Ownership, NEW q \in Runs, NEW r \in Runs,
         \/ Launch(r) \/ Respawn(r) \/ \E i \in Attempts : TaskSpawn(r, i)
  PROVE  RunInv(q)'
  <1>1. CASE q # r
    BY <1>1, SpawnQuiet, CalmInv DEF Ownership
  <1>2. CASE q = r
    BY <1>2, SpawnTakesOver, SpawnedInv DEF Ownership
  <1> QED
    BY <1>1, <1>2

-----------------------------------------------------------------------------
(* The backend: nothing of a run moves outside serving but its trainers *)

LEMMA BootServing ==
  ASSUME BootInv, up = "serving", UNCHANGED boot
  PROVE  BootInv'
  BY DEF BootInv, boot

\* requests are answered while the backend serves
LEMMA UserServing ==
  ASSUME BootInv, NEW r \in Runs, UserStep(r) \/ RequestStep(r)
  PROVE  up = "serving" /\ UNCHANGED boot
  BY DEF UserStep, RequestStep, Create, Cancel, Pause, Delete, AcceptFallback,
     CancelFallback, Resume, SnapshotWritten, SnapshotFails, Launch, Respawn,
     SkipAfterCancel, RequestFails, BootInv

\* and so do the tasks run
LEMMA TaskServing ==
  ASSUME BootInv, NEW r \in Runs, NEW i \in Attempts,
         EventStep(r, i) \/ TaskStep(r, i) \/ FaultStep(r, i)
  PROVE  up = "serving" /\ UNCHANGED boot
  <1>1. task[r][i] \notin {"none", "done", "lost"} /\ UNCHANGED boot
    BY DEF EventStep, TaskStep, FaultStep, TaskEnterStage, TaskLeaveStage,
       TaskProgress, TaskCheckpoint, TaskRecord, TaskStart, TaskPrepare,
       TaskDispatch, TaskRegister, TaskEntered, TaskSaved, TaskDrain,
       TaskClose, TaskCloseOom, TaskPropose, TaskAccept, TaskAcceptRefused,
       TaskSpawn, TaskSum, TaskSkip, TaskStatus, TaskPost, TaskFail, Evict,
       TaskRaise, TaskDie, At, Guarded
  <1> QED
    BY <1>1 DEF BootInv

LEMMA BootStep ==
  ASSUME Ownership, [Next]_vars
  PROVE  BootInv'
  <1>0. TypeOK /\ BootInv
    BY DEF Ownership
  <1>1. CASE UNCHANGED vars
    BY <1>0, <1>1 DEF BootInv, Existing, vars, db, dbRun, dbAtt, memory, heap,
       calls, boot
  <1>2. ASSUME NEW r \in Runs, UserStep(r) \/ RequestStep(r) PROVE BootInv'
    BY <1>0, <1>2, UserServing, BootServing
  <1>3. ASSUME NEW r \in Runs, NEW i \in Attempts,
               EventStep(r, i) \/ TaskStep(r, i) \/ FaultStep(r, i)
        PROVE  BootInv'
    BY <1>0, <1>3, TaskServing, BootServing
  <1>4. ASSUME NEW r \in Runs, NEW i \in Attempts, TrainerExit(r, i)
        PROVE  BootInv'
    BY <1>0, <1>4 DEF TrainerExit, BootInv, Existing, db, dbRun, dbAtt,
       memory, heap, calls, boot
  <1>5. CASE Crash
    BY <1>0, <1>5 DEF Crash, BootInv, TypeOK, MemoryType
  <1>6. CASE Restart \/ SweepBegin \/ Serve
    BY <1>0, <1>6 DEF Restart, SweepBegin, Serve, BootInv, db, dbRun, memory,
       heap, calls
  <1>7. ASSUME NEW r \in Runs,
               RecoverSkip(r) \/ RecoverPending(r) \/ RecoverRunning(r)
        PROVE  BootInv'
    BY <1>0, <1>7, ConstantsAssumption DEF RecoverSkip, RecoverPending,
       RecoverRunning, Recovering, BootInv, TypeOK, BootType, db, dbRun,
       memory, heap, calls
  <1>8. CASE RecoverSecond \/ SweepRaise
    BY <1>0, <1>8 DEF RecoverSecond, SweepRaise, BootInv, db, dbRun, memory,
       heap, calls
  <1>9. ASSUME NEW r \in Runs, SweepClose(r) PROVE BootInv'
    BY <1>0, <1>9, ConstantsAssumption DEF SweepClose, BootInv, TypeOK,
       BootType, dbRun, memory, heap, calls
  <1>10. CASE SweepSum \/ SweepSkip
    BY <1>0, <1>10 DEF SweepSum, SweepSkip, BootInv, Existing, db, dbRun,
       dbAtt, memory, heap, calls
  <1>11. CASE SweepStatus
    BY <1>0, <1>11 DEF SweepStatus, Write, BootInv, TypeOK, RowType, BootType,
       memory, heap, calls
  <1> QED
    BY <1>1, <1>2, <1>3, <1>4, <1>5, <1>6, <1>7, <1>8, <1>9, <1>10, <1>11
       DEF Next, StartupStep

-----------------------------------------------------------------------------
(* Ownership is inductive *)

LEMMA RunStep ==
  ASSUME Ownership, [Next]_vars, NEW q \in Runs
  PROVE  RunInv(q)'
  <1>1. CASE UNCHANGED vars
    <2>1. Quiet(q) /\ Calm(q)
      BY <1>1 DEF Quiet, Calm, RestCalm, BillCalm, StagesCalm, RollUpCalm,
         WholeCalm, AnchorCalm, vars, db, dbRun, setup, dbAtt, dbKids, memory,
         heap, locals, calls, registry
    <2> QED
      BY <2>1, CalmInv
  <1>2. ASSUME NEW r \in Runs, UserStep(r) PROVE RunInv(q)'
    <2>1. ASSUME AcceptFallback(r) PROVE RunInv(q)'
      BY <2>1, AcceptInv DEF AcceptFallback, locals, registry
    <2>2. ASSUME Cancel(r) \/ Pause(r) \/ \E c \in Runs : Resume(r, c)
          PROVE  RunInv(q)'
      BY <2>2, RequestCalm, CalmInv
    <2> QED
      BY <1>2, <2>1, <2>2, CreateInv, DeleteInv, CancelFallbackInv
         DEF UserStep
  <1>3. ASSUME NEW r \in Runs, RequestStep(r) PROVE RunInv(q)'
    <2>1. ASSUME SnapshotWritten(r) \/ SnapshotFails(r) \/ SkipAfterCancel(r)
                 \/ RequestFails(r)
          PROVE  RunInv(q)'
      BY <2>1, RequestCalm, CalmInv
    <2> QED
      BY <1>3, <2>1, SpawnInv DEF RequestStep
  <1>4. ASSUME NEW r \in Runs, NEW i \in Attempts,
               EventStep(r, i) \/ FaultStep(r, i) \/ TrainerExit(r, i)
        PROVE  RunInv(q)'
    BY <1>4, EventCalm, TaskCalm, CalmInv DEF FaultStep
  <1>5. ASSUME NEW r \in Runs, NEW i \in Attempts, TaskStep(r, i)
        PROVE  RunInv(q)'
    <2>1. ASSUME TaskAccept(r, i) PROVE RunInv(q)'
      <3>1. PICK n \in Attempts : Accept(r, FirstCandidate(r, i), n)
        BY <2>1 DEF TaskAccept
      <3>2. FirstCandidate(r, i) \in GPUs
        BY <3>1, ConstantsAssumption DEF Accept
      <3> QED
        BY <2>1, <3>1, <3>2, AcceptInv DEF TaskAccept, registry
    <2>2. ASSUME TaskStart(r, i) \/ TaskPrepare(r, i) \/ TaskDispatch(r, i)
                 \/ TaskRegister(r, i) \/ TaskSaved(r, i) \/ TaskDrain(r, i)
                 \/ TaskAcceptRefused(r, i) \/ TaskPost(r, i)
                 \/ TaskFail(r, i) \/ Evict(r, i)
          PROVE  RunInv(q)'
      BY <2>2, TaskCalm, CalmInv
    <2> QED
      BY <1>5, <2>1, <2>2, EnteredInv, RollUpInv, ProposeInv, VerdictInv,
         SpawnInv DEF TaskStep
  <1>6. CASE StartupStep \/ SweepRaise \/ Crash
    BY <1>6, RecoveryCalm, BootCalm, CalmInv, SweepStatusInv DEF StartupStep
  <1> QED
    BY <1>1, <1>2, <1>3, <1>4, <1>5, <1>6 DEF Next

(* At every moment a run has at most one owner, working on its newest      *)
(* attempt; a run that waits for a decision or has been billed has none.   *)
(* This is what makes the guard of accept_fallback, a check of the status  *)
(* alone, sufficient.                                                      *)
THEOREM OwnershipInvariant == Spec => []Ownership
  <1>1. Ownership /\ [Next]_vars => Ownership'
    BY TypeStep, RunStep, BootStep DEF Ownership
  <1> QED
    BY InitOwnership, <1>1, PTL DEF Spec

-----------------------------------------------------------------------------
(* What follows from it *)

(* Every variable keeps its type, for any number of runs, attempts, stages *)
(* and crashes.                                                            *)
THEOREM TypeCorrect == Spec => []TypeOK
  <1>1. Ownership => TypeOK
    BY DEF Ownership
  <1> QED
    BY <1>1, OwnershipInvariant, PTL

(* All attempts of a run but the last are closed.                          *)
THEOREM AttemptsAreOrdered == Spec => []OneOpenAttempt
  <1>1. Ownership => OneOpenAttempt
    BY DEF Ownership, RunInv, Structure, Closing, OneOpenAttempt
  <1> QED
    BY <1>1, OwnershipInvariant, PTL

(* No trainer lives and no attempt is charged while a run waits for a      *)
(* fallback decision.                                                      *)
THEOREM WaitingIsFree == Spec => []FallbackIsIdle
  <1>1. Ownership => FallbackIsIdle
    BY DEF Ownership, RunInv, Outcome, Resting, FallbackIsIdle
  <1> QED
    BY <1>1, OwnershipInvariant, PTL

(* A recorded cost covers every attempt, and all of them are closed.       *)
THEOREM BillsAreWhole == Spec => []CostIsWhole
  <1>1. Ownership => CostIsWhole
    BY DEF Ownership, RunInv, Outcome, Billed, CostIsWhole, HasRow, RowStatus
  <1> QED
    BY <1>1, OwnershipInvariant, PTL

(* A completed run has been billed and has no pending stage.               *)
THEOREM CompletionIsWhole == Spec => []CompletedIsWhole
  <1>1. Ownership => CompletedIsWhole
    BY DEF Ownership, RunInv, Outcome, Whole, CompletedIsWhole
  <1> QED
    BY <1>1, OwnershipInvariant, PTL

(* A live trainer, its attempt and the run row name the same GPU.          *)
THEOREM GpusAgree == Spec => []GpuInSync
  <1>1. Ownership => GpuInSync
    BY DEF Ownership, RunInv, Structure, Gpus, LiveIsCurrent, TrainerPhase,
       GpuInSync, HasRow, RowStatus
  <1> QED
    BY <1>1, OwnershipInvariant, PTL

(* started_at, once set, is the start of the current attempt.              *)
THEOREM AnchorsAreCurrent == Spec => []AnchorIsCurrent
  <1>1. Ownership => AnchorIsCurrent
    BY DEF Ownership, RunInv, Outcome, Anchor, AnchorIsCurrent, HasRow,
       RowStatus
  <1> QED
    BY <1>1, OwnershipInvariant, PTL

(* The newest unfinished task of a run is the registered one.              *)
THEOREM RegistryIsCurrent == Spec => []NewestTaskRegistered
  <1>1. Ownership => NewestTaskRegistered
    BY ConstantsAssumption DEF Ownership, RunInv, Structure, Registered,
       NewestTaskRegistered, Attempts
  <1> QED
    BY <1>1, OwnershipInvariant, PTL

-----------------------------------------------------------------------------
(* The accounts of a run *)

\* nobody starts to work, and the attempt somebody works on is left alone
WorkKept(r) ==
    \A i \in Attempts :
        Working(r, i)' => Working(r, i) /\ att'[r][i] = att[r][i]

\* a run is put up for a decision only when it has an attempt
TriedKept(r) ==
    status'[r] = "fallback_pending" =>
        status[r] = "fallback_pending" \/ Existing(r) # {}

\* who works on an attempt owns it
LEMMA WorkerOwns ==
  ASSUME NEW r \in Runs, NEW i \in Attempts, Working(r, i)
  PROVE  Owner(r, i)
  BY DEF Working, Owner, WorkPoints, OwnerPoints

LEMMA InitAccounts == Init => Accounting
  BY ConstantsAssumption DEF Init, Accounting, Accounts, OneWorker,
     OpenWhileWorking, Tried, Dropped, Working, WorkPoints, Attempts, None

LEMMA QuietAccounts ==
  ASSUME NEW r \in Runs, RunInv(r), Accounts(r), Quiet(r), WorkKept(r),
         TriedKept(r)
  PROVE  Accounts(r)'
  <1>1. OneWorker(r)'
    <2>1. \A i \in Attempts : trainer'[r][i] = "live"
                              => trainer[r][i] = "live" \/ Owner(r, i)
      BY DEF Quiet, Endings, Owner, OwnerPoints
    <2> QED
      BY <2>1, QuietFacts
         DEF Accounts, OneWorker, RunInv, Structure, OneOwner
  <1>2. OpenWhileWorking(r)'
    BY DEF Accounts, OpenWhileWorking, WorkKept, Quiet
  <1>3. Tried(r)' /\ Dropped(r)'
    BY QuietFacts DEF Accounts, Tried, Dropped, TriedKept, Quiet
  <1> QED
    BY <1>1, <1>2, <1>3 DEF Accounts

\* the actions that leave the attempts of every run alone and start no work
LEMMA RequestWork ==
  ASSUME Ownership, NEW q \in Runs, NEW r \in Runs,
         Cancel(r) \/ Pause(r) \/ SnapshotWritten(r) \/ SnapshotFails(r)
         \/ SkipAfterCancel(r) \/ RequestFails(r)
         \/ \E c \in Runs : Resume(r, c)
  PROVE  WorkKept(q) /\ att' = att /\ trainer' = trainer
  <1>0. TypeOK
    BY DEF Ownership
  <1> USE <1>0 DEF TypeOK, MemoryType, db, dbRun, dbAtt, memory, heap, calls,
        WorkKept, Working
  <1>1. CASE Cancel(r)
    BY <1>1 DEF Cancel
  <1>2. CASE Pause(r)
    BY <1>2 DEF Pause
  <1>3. CASE SnapshotWritten(r)
    BY <1>3 DEF SnapshotWritten
  <1>4. CASE SnapshotFails(r)
    BY <1>4 DEF SnapshotFails
  <1>5. CASE SkipAfterCancel(r)
    BY <1>5 DEF SkipAfterCancel
  <1>6. ASSUME NEW c \in Runs, Resume(r, c)
        PROVE  WorkKept(q) /\ att' = att /\ trainer' = trainer
    BY <1>6 DEF Resume
  <1>7. CASE RequestFails(r)
    BY <1>7, ConstantsAssumption DEF RequestFails, Attempts, None
  <1> QED
    BY <1>1, <1>2, <1>3, <1>4, <1>5, <1>6, <1>7

LEMMA EventWork ==
  ASSUME Ownership, NEW q \in Runs, NEW r \in Runs, NEW i \in Attempts,
         EventStep(r, i) \/ TaskEntered(r, i)
  PROVE  WorkKept(q) /\ att' = att /\ trainer' = trainer
  <1>0. TypeOK
    BY DEF Ownership
  <1> USE <1>0 DEF TypeOK, MemoryType, db, dbRun, dbAtt, memory, heap, calls,
        At, Goto, WorkKept, Working, WorkPoints
  <1>1. CASE TaskEnterStage(r, i)
    BY <1>1 DEF TaskEnterStage
  <1>2. CASE TaskLeaveStage(r, i)
    BY <1>2 DEF TaskLeaveStage
  <1>3. CASE TaskProgress(r, i)
    BY <1>3 DEF TaskProgress
  <1>4. CASE TaskCheckpoint(r, i)
    BY <1>4 DEF TaskCheckpoint
  <1>5. CASE TaskRecord(r, i)
    BY <1>5 DEF TaskRecord
  <1>6. CASE TaskEntered(r, i)
    BY <1>6 DEF TaskEntered
  <1> QED
    BY <1>1, <1>2, <1>3, <1>4, <1>5, <1>6 DEF EventStep

LEMMA TaskWork ==
  ASSUME Ownership, NEW q \in Runs, NEW r \in Runs, NEW i \in Attempts,
         TaskStart(r, i) \/ TaskPrepare(r, i) \/ TaskDispatch(r, i)
         \/ TaskRegister(r, i) \/ TaskSaved(r, i) \/ TaskDrain(r, i)
         \/ TaskPropose(r, i) \/ TaskAcceptRefused(r, i) \/ TaskSum(r, i)
         \/ TaskSkip(r, i) \/ TaskStatus(r, i) \/ TaskPost(r, i)
         \/ TaskRaise(r, i) \/ TaskFail(r, i) \/ TaskDie(r, i) \/ Evict(r, i)
         \/ TrainerExit(r, i)
  PROVE  /\ WorkKept(q) /\ att' = att
         /\ trainer' = trainer \/ TaskDispatch(r, i) \/ TrainerExit(r, i)
  <1>0. TypeOK
    BY DEF Ownership
  <1> USE <1>0 DEF TypeOK, MemoryType, db, dbRun, dbAtt, memory, heap, calls,
        At, Goto, WorkKept, Working, WorkPoints
  <1>1. CASE TaskStart(r, i)
    BY <1>1 DEF TaskStart
  <1>2. CASE TaskPrepare(r, i)
    BY <1>2 DEF TaskPrepare
  <1>3. CASE TaskDispatch(r, i)
    BY <1>3 DEF TaskDispatch
  <1>4. CASE TaskRegister(r, i)
    BY <1>4 DEF TaskRegister
  <1>5. CASE TaskSaved(r, i)
    BY <1>5 DEF TaskSaved
  <1>6. CASE TaskDrain(r, i)
    BY <1>6 DEF TaskDrain
  <1>7. CASE TaskPropose(r, i)
    BY <1>7 DEF TaskPropose
  <1>8. CASE TaskAcceptRefused(r, i)
    BY <1>8 DEF TaskAcceptRefused
  <1>9. CASE TaskSum(r, i)
    BY <1>9 DEF TaskSum
  <1>10. CASE TaskSkip(r, i)
    BY <1>10 DEF TaskSkip
  <1>11. CASE TaskStatus(r, i)
    BY <1>11 DEF TaskStatus
  <1>12. CASE TaskPost(r, i)
    BY <1>12 DEF TaskPost
  <1>13. CASE TaskRaise(r, i)
    BY <1>13, ConstantsAssumption DEF TaskRaise, Attempts, None
  <1>14. CASE TaskFail(r, i)
    BY <1>14 DEF TaskFail
  <1>15. CASE TaskDie(r, i)
    BY <1>15 DEF TaskDie
  <1>16. CASE Evict(r, i)
    BY <1>16 DEF Evict
  <1>17. CASE TrainerExit(r, i)
    BY <1>17 DEF TrainerExit
  <1> QED
    BY <1>1, <1>2, <1>3, <1>4, <1>5, <1>6, <1>7, <1>8, <1>9, <1>10, <1>11,
       <1>12, <1>13, <1>14, <1>15, <1>16, <1>17

\* the owner that closes an attempt has no more work to do
LEMMA CloseWork ==
  ASSUME Ownership, NEW q \in Runs, NEW r \in Runs, NEW i \in Attempts,
         TaskClose(r, i) \/ TaskCloseOom(r, i)
  PROVE  WorkKept(q) /\ trainer' = trainer
  <1>0. TypeOK /\ RunInv(r)
    BY DEF Ownership
  <1> USE <1>0 DEF TypeOK, AttemptType, MemoryType, heap, calls, At, Goto
  <1>1. UNCHANGED <<request, respawn, trainer>>
    BY DEF TaskClose, TaskCloseOom
  <1>2. CASE q # r
    BY <1>1, <1>2 DEF TaskClose, TaskCloseOom, CloseCurrent, CloseOom,
       WorkKept, Working
  <1>3. CASE q = r
    <2>1. Owner(r, i) /\ task[r][i] # "none"
      BY DEF TaskClose, TaskCloseOom, Owner, OwnerPoints
    <2>2. \A j \in Attempts : Owner(r, j) => j = i
      BY <2>1 DEF RunInv, Structure, OneOwner
    <2>3. task'[r][i] \notin WorkPoints
          /\ \A j \in Attempts : j # i => task'[r][j] = task[r][j]
      BY DEF TaskClose, TaskCloseOom, WorkPoints
    <2>4. respawn[r] # i /\ request[r] \notin {"snapshot", "launch"}
      BY <2>1, ConstantsAssumption DEF RunInv, Structure, SpawnIsNew, Attempts
    <2>5. \A j \in Attempts : ~Working(r, j)'
      BY <1>1, <2>2, <2>3, <2>4, WorkerOwns DEF Working
    <2> QED
      BY <1>1, <1>3, <2>5 DEF WorkKept
  <1> QED
    BY <1>1, <1>2, <1>3

\* recovery and sweep; the attempts of a run that waits are closed already
LEMMA RecoveryWork ==
  ASSUME Ownership, NEW q \in Runs, NEW r \in Runs,
         RecoverSkip(r) \/ RecoverPending(r) \/ RecoverRunning(r)
         \/ SweepClose(r) \/ CancelFallback(r)
  PROVE  WorkKept(q) /\ att' = att /\ trainer' = trainer
  <1>0. TypeOK /\ RunInv(r) /\ BootInv
    BY DEF Ownership
  <1> USE <1>0 DEF TypeOK, AttemptType, MemoryType, db, dbAtt, memory, heap,
        calls, WorkKept, Working
  <1>1. CASE RecoverSkip(r) \/ RecoverPending(r) \/ RecoverRunning(r)
    BY <1>1 DEF RecoverSkip, RecoverPending, RecoverRunning
  <1>2. CASE SweepClose(r) \/ CancelFallback(r)
    <2>1. status[r] = "fallback_pending"
      BY <1>2 DEF SweepClose, CancelFallback, BootInv
    <2>2. \A i \in Attempts : att[r][i] # "open"
      BY <2>1 DEF RunInv, Outcome, Resting
    <2>3. att' = att
      BY <1>2, <2>2 DEF SweepClose, CloseCurrent, CancelFallback
    <2> QED
      BY <1>2, <2>3 DEF SweepClose, CancelFallback
  <1> QED
    BY <1>1, <1>2

LEMMA BootWork ==
  ASSUME Ownership, NEW q \in Runs,
         Crash \/ Restart \/ RecoverSecond \/ SweepBegin \/ SweepSum
         \/ SweepSkip \/ SweepStatus \/ SweepRaise \/ Serve
  PROVE  WorkKept(q) /\ att' = att /\ trainer' = trainer
  <1>0. TypeOK
    BY DEF Ownership
  <1> USE <1>0 DEF TypeOK, MemoryType, db, dbAtt, memory, heap, calls,
        WorkKept, Working, WorkPoints
  <1>1. CASE Crash
    BY <1>1, ConstantsAssumption DEF Crash, Attempts, None
  <1>2. CASE Restart \/ RecoverSecond \/ SweepBegin \/ Serve
    BY <1>2 DEF Restart, RecoverSecond, SweepBegin, Serve
  <1>3. CASE SweepSum \/ SweepSkip \/ SweepStatus \/ SweepRaise
    BY <1>3 DEF SweepSum, SweepSkip, SweepStatus, SweepRaise
  <1> QED
    BY <1>1, <1>2, <1>3

\* the actions that make something new, or take the run away
LEMMA CreateAccounts ==
  ASSUME Ownership, NEW q \in Runs, Accounts(q), NEW r \in Runs, Create(r)
  PROVE  Accounts(q)'
  <1>0. TypeOK /\ RunInv(r)
    BY DEF Ownership
  <1> USE <1>0 DEF Create, TypeOK, RowType, AttemptType, MemoryType, locals,
        registry
  <1>1. \A i \in Attempts : /\ att[r][i] = "none" /\ task[r][i] = "none"
                            /\ trainer[r][i] = "none" /\ ~IsCurrent(r, i)
    BY DEF RunInv, Structure, Unborn, IsCurrent
  <1>2. \A i \in Attempts : ~Owner(r, i)
    BY <1>1 DEF RunInv, Structure, OwnerIsCurrent
  <1>3. CASE q # r
    BY <1>3 DEF Accounts, OneWorker, OpenWhileWorking, Tried, Dropped,
       Working, Owner, Existing
  <1>4. CASE q = r
    <2>1. OneWorker(r)'
      BY <1>1 DEF OneWorker
    <2>2. \A i \in Attempts : Working(r, i)' => i = 0
      BY <1>1, <1>2 DEF Working, WorkPoints, Owner
    <2>3. 0 \in Attempts => att'[r][0] = "open"
      OBVIOUS
    <2> QED
      BY <1>4, <2>1, <2>2, <2>3
         DEF Accounts, OpenWhileWorking, Tried, Dropped
  <1> QED
    BY <1>3, <1>4

LEMMA DeleteAccounts ==
  ASSUME Ownership, NEW q \in Runs, Accounts(q), NEW r \in Runs, Delete(r)
  PROVE  Accounts(q)'
  <1>0. TypeOK
    BY DEF Ownership
  <1> USE <1>0 DEF Delete, TypeOK, RowType, AttemptType, memory, heap, calls
  <1>1. OneWorker(q)'
    BY DEF Accounts, OneWorker, Owner
  <1>2. OpenWhileWorking(q)'
    BY DEF Accounts, OpenWhileWorking, Working
  <1>3. Tried(q)' /\ Dropped(q)'
    BY DEF Accounts, Tried, Dropped, Existing
  <1> QED
    BY <1>1, <1>2, <1>3 DEF Accounts

\* the accepted attempt is open, and the only one anybody works on
LEMMA AcceptAccounts ==
  ASSUME Ownership, NEW q \in Runs, Accounts(q), NEW r \in Runs,
         NEW n \in Attempts, NEW g \in GPUs, Accept(r, g, n),
         UNCHANGED trainer,
         \/ UNCHANGED task /\ request' = [request EXCEPT ![r] = "respawn"]
         \/ /\ UNCHANGED request
            /\ \E i \in Attempts : At(r, i, "accept") /\ Goto(r, i, "spawn")
  PROVE  Accounts(q)'
  <1>0. TypeOK /\ RunInv(r)
    BY DEF Ownership
  <1> USE <1>0 DEF Accept, At, Goto, TypeOK, RowType, AttemptType, MemoryType
  <1>1. CASE q # r
    BY <1>1 DEF Accounts, OneWorker, OpenWhileWorking, Tried, Dropped,
       Working, Owner, Existing
  <1>2. CASE q = r
    <2>1. \A j \in Attempts : trainer[r][j] # "live" /\ ~Owner(r, j)
      BY DEF RunInv, Outcome, Resting
    <2>2. \A j \in Attempts : task'[r][j] = task[r][j] \/ task'[r][j] = "spawn"
      OBVIOUS
    <2>3. request'[r] \in {request[r], "respawn"} /\ respawn'[r] = n
      OBVIOUS
    <2>4. \A j \in Attempts : Working(r, j)' => j = n
      BY <2>1, <2>2, <2>3 DEF Working, WorkPoints, Owner, OwnerPoints
    <2>5. att'[r][n] = "open" /\ status'[r] = "running"
      OBVIOUS
    <2> QED
      BY <1>2, <2>1, <2>4, <2>5
         DEF Accounts, OneWorker, OpenWhileWorking, Tried, Dropped
  <1> QED
    BY <1>1, <1>2

\* the new task takes over the work of whoever spawned it
LEMMA SpawnAccounts ==
  ASSUME Ownership, NEW q \in Runs, Accounts(q), NEW r \in Runs,
         \/ Launch(r) \/ Respawn(r) \/ \E i \in Attempts : TaskSpawn(r, i)
  PROVE  Accounts(q)'
  <1>0. TypeOK /\ RunInv(q) /\ RunInv(r)
    BY DEF Ownership
  <1>1. CASE q # r
    <2>1. WorkKept(q)
      BY <1>0, <1>1 DEF Launch, Respawn, TaskSpawn, SpawnAccepted, Spawn,
         WorkKept, Working, TypeOK, MemoryType, db, dbAtt
    <2>2. Quiet(q) /\ TriedKept(q)
      BY <1>0, <1>1, SpawnQuiet DEF Calm, RestCalm, TriedKept
    <2> QED
      BY <1>0, <2>1, <2>2, QuietAccounts
  <1>2. CASE q = r
    <2>1. PICK n \in Attempts : Spawned(r, n)
      BY SpawnTakesOver
    <2> USE <2>1 DEF Spawned, db, dbRun, dbAtt
    <2>2. Working(r, n) /\ Owner(r, n)
      BY DEF Working, Owner
    <2>3. \A j \in Attempts : Owner(r, j) => j = n
      BY <1>0, <2>2 DEF RunInv, Structure, OneOwner
    <2>4. \A j \in Attempts : Owner(r, j)' => j = n
      BY <2>3, ConstantsAssumption DEF Owner, OwnerPoints, Attempts, None
    <2>5. OneWorker(r)'
      BY <1>2, <2>2, <2>4 DEF Accounts, OneWorker
    <2>6. OpenWhileWorking(r)'
      <3>1. \A j \in Attempts : Working(r, j)' => Owner(r, j)'
        BY DEF Working, Owner, WorkPoints, OwnerPoints
      <3> QED
        BY <1>2, <2>2, <2>4, <3>1 DEF Accounts, OpenWhileWorking
    <2>7. Tried(r)' /\ Dropped(r)'
      BY <1>2 DEF Accounts, Tried, Dropped, Existing
    <2> QED
      BY <1>2, <2>5, <2>6, <2>7 DEF Accounts
  <1> QED
    BY <1>1, <1>2

\* whoever proposes a fallback works on an attempt that exists
LEMMA ProposeAccounts ==
  ASSUME Ownership, NEW q \in Runs, Accounts(q), NEW r \in Runs,
         NEW i \in Attempts, TaskPropose(r, i)
  PROVE  Accounts(q)'
  <1>0. TypeOK /\ RunInv(q) /\ RunInv(r) /\ Quiet(q) /\ WorkKept(q)
    BY ProposeQuiet, TaskWork DEF Ownership, RunInv, Structure
  <1>1. TriedKept(q)
    <2>1. CASE q # r
      BY <1>0, <2>1 DEF TaskPropose, Write, TriedKept, TypeOK, RowType
    <2>2. CASE q = r
      BY <1>0, <2>2 DEF TaskPropose, At, Write, HasRow, TriedKept, Existing,
         RunInv, Structure, OwnerIsCurrent, IsCurrent, Owner, OwnerPoints,
         RowStatus, TypeOK, RowType
    <2> QED
      BY <2>1, <2>2
  <1> QED
    BY <1>0, <1>1, QuietAccounts

LEMMA AccountStep ==
  ASSUME Ownership, Accounting, [Next]_vars, NEW q \in Runs
  PROVE  Accounts(q)'
  <1>0. TypeOK /\ BootInv /\ RunInv(q) /\ Accounts(q)
    BY DEF Ownership, Accounting
  <1>1. ASSUME Quiet(q), WorkKept(q), RestCalm(q) PROVE Accounts(q)'
    BY <1>0, <1>1, QuietAccounts DEF RestCalm, TriedKept
  <1>2. CASE UNCHANGED vars
    BY <1>0, <1>2 DEF Accounts, OneWorker, OpenWhileWorking, Tried, Dropped,
       Working, Owner, Existing, vars, db, dbRun, dbAtt, memory, heap, calls
  <1>3. ASSUME NEW r \in Runs, UserStep(r) PROVE Accounts(q)'
    <2>1. ASSUME AcceptFallback(r) PROVE Accounts(q)'
      BY <1>0, <2>1, AcceptAccounts DEF AcceptFallback
    <2>2. ASSUME Cancel(r) \/ Pause(r) \/ \E c \in Runs : Resume(r, c)
          PROVE  Accounts(q)'
      BY <1>1, <2>2, RequestCalm, RequestWork DEF Calm
    <2>3. ASSUME CancelFallback(r) PROVE Accounts(q)'
      BY <1>0, <1>1, <2>3, CancelFallbackQuiet, RecoveryWork
    <2> QED
      BY <1>0, <1>3, <2>1, <2>2, <2>3, CreateAccounts, DeleteAccounts
         DEF UserStep
  <1>4. ASSUME NEW r \in Runs, RequestStep(r) PROVE Accounts(q)'
    <2>1. ASSUME SnapshotWritten(r) \/ SnapshotFails(r) \/ SkipAfterCancel(r)
                 \/ RequestFails(r)
          PROVE  Accounts(q)'
      BY <1>1, <2>1, RequestCalm, RequestWork DEF Calm
    <2> QED
      BY <1>0, <1>4, <2>1, SpawnAccounts DEF RequestStep
  <1>5. ASSUME NEW r \in Runs, NEW i \in Attempts,
               EventStep(r, i) \/ FaultStep(r, i) \/ TrainerExit(r, i)
        PROVE  Accounts(q)'
    BY <1>1, <1>5, EventCalm, TaskCalm, EventWork, TaskWork
       DEF FaultStep, Calm
  <1>6. ASSUME NEW r \in Runs, NEW i \in Attempts, TaskStep(r, i)
        PROVE  Accounts(q)'
    <2>0. TrainerPhase(r)
      BY DEF Ownership, RunInv, Structure
    <2>1. ASSUME TaskAccept(r, i) PROVE Accounts(q)'
      <3>1. PICK n \in Attempts : Accept(r, FirstCandidate(r, i), n)
        BY <2>1 DEF TaskAccept
      <3>2. FirstCandidate(r, i) \in GPUs
        BY <3>1, ConstantsAssumption DEF Accept
      <3> QED
        BY <1>0, <2>1, <3>1, <3>2, AcceptAccounts DEF TaskAccept
    <2>2. ASSUME TaskStart(r, i) \/ TaskPrepare(r, i) \/ TaskDispatch(r, i)
                 \/ TaskRegister(r, i) \/ TaskSaved(r, i) \/ TaskDrain(r, i)
                 \/ TaskAcceptRefused(r, i) \/ TaskPost(r, i)
                 \/ TaskFail(r, i) \/ Evict(r, i)
          PROVE  Accounts(q)'
      BY <1>1, <2>2, TaskCalm, TaskWork DEF Calm
    <2>3. ASSUME TaskEntered(r, i) PROVE Accounts(q)'
      BY <1>0, <1>1, <2>3, EnteredQuiet, EventWork
    <2>4. ASSUME TaskClose(r, i) \/ TaskCloseOom(r, i) PROVE Accounts(q)'
      BY <1>0, <1>1, <2>0, <2>4, RollUpQuiet, CloseWork
    <2>5. ASSUME TaskSum(r, i) \/ TaskSkip(r, i) PROVE Accounts(q)'
      BY <1>0, <1>1, <2>0, <2>5, RollUpQuiet, TaskWork
    <2>6. ASSUME TaskStatus(r, i) PROVE Accounts(q)'
      BY <1>0, <1>1, <2>0, <2>6, VerdictQuiet, TaskWork
    <2> QED
      BY <1>0, <1>6, <2>1, <2>2, <2>3, <2>4, <2>5, <2>6, ProposeAccounts,
         SpawnAccounts DEF TaskStep
  <1>7. CASE StartupStep \/ SweepRaise \/ Crash
    <2>1. ASSUME SweepStatus PROVE Accounts(q)'
      BY <1>0, <1>1, <2>1, SweepStatusQuiet, BootWork
    <2> QED
      BY <1>1, <1>7, <2>1, RecoveryCalm, RecoveryWork, BootCalm, BootWork
         DEF StartupStep, Calm
  <1> QED
    BY <1>2, <1>3, <1>4, <1>5, <1>6, <1>7 DEF Next

(* An attempt is open while its owner works on it, and nobody but the      *)
(* owner has a live trainer, deleted runs included.                        *)
THEOREM AccountsAreKept == Spec => []Accounting
  <1>1. Ownership /\ Accounting /\ [Next]_vars => Accounting'
    BY AccountStep DEF Accounting
  <1> QED
    BY InitAccounts, OwnershipInvariant, <1>1, PTL DEF Spec

-----------------------------------------------------------------------------
(* What the ledger sees of a step *)

LEMMA InitRefines == Init => Ledger!Init
  BY DEF Init, Ledger!Init, workers, bills, gone

\* a quiet step deletes nothing and gives no attempt another GPU
LEMMA QuietSeen ==
  ASSUME TypeOK, TypeOK', \A q \in Runs : Quiet(q)
  PROVE  attGpu' = attGpu /\ gone' = gone
  BY DEF TypeOK, AttemptType, Quiet, gone

LEMMA WorkersSeen == trainer' = trainer => workers' = workers
  BY DEF workers

LEMMA BillsSeen ==
  ASSUME gone' = gone, \A q \in Runs : BillCalm(q)
  PROVE  bills' = bills
  BY DEF bills, BillCalm

LEMMA UnseenStep ==
  ASSUME TypeOK, TypeOK', \A q \in Runs : Quiet(q) /\ BillCalm(q),
         att' = att, trainer' = trainer
  PROVE  UNCHANGED Ledger!ledger
  BY QuietSeen, WorkersSeen, BillsSeen DEF Ledger!ledger

\* create_run opens attempt 0
LEMMA CreateRefines ==
  ASSUME Ownership, NEW r \in Runs, Create(r)
  PROVE  Ledger!Next
  <1>0. TypeOK /\ RunInv(r)
    BY DEF Ownership
  <1> USE <1>0 DEF Create, TypeOK, RowType, AttemptType
  <1>1. PICK g \in GPUs \cup {NoGpu} :
           attGpu' = [attGpu EXCEPT ![r][0] = g]
    <2>1. PICK c \in Configs : attGpu' = [attGpu EXCEPT ![r][0] = c[2]]
      OBVIOUS
    <2> QED
      BY <2>1, ConstantsAssumption
  <1>2. \A i \in Attempts : att[r][i] = "none"
    BY DEF RunInv, Structure, Unborn
  <1>3. gone' = gone /\ r \notin gone
    BY DEF gone
  <1>4. workers' = workers /\ bills' = bills
    BY <1>3 DEF workers, bills
  <1>5. Ledger!Open(r, g)
    BY <1>1, <1>2, <1>3, <1>4 DEF Ledger!Open
  <1> QED
    BY <1>5 DEF Ledger!Next

\* dispatch_training hires a worker for the open attempt
LEMMA DispatchRefines ==
  ASSUME Ownership, Accounting, TypeOK', NEW r \in Runs, NEW i \in Attempts,
         TaskDispatch(r, i)
  PROVE  Ledger!Next
  <1>0. TypeOK /\ RunInv(r) /\ Accounts(r)
    BY DEF Ownership, Accounting
  <1> USE <1>0 DEF TaskDispatch, At, TypeOK, AttemptType, db, dbRun, dbAtt
  <1>1. Owner(r, i) /\ Working(r, i)
    BY DEF Owner, Working, OwnerPoints, WorkPoints
  <1>2. \A j \in Attempts : trainer[r][j] # "live"
    BY <1>1 DEF RunInv, Structure, TrainerPhase, Accounts, OneWorker
  <1>3. r \in gone \/ att[r][i] = "open"
    BY <1>1 DEF Accounts, OpenWhileWorking, gone
  <1>4. workers' = [workers EXCEPT ![r] = {i}]
    <2>1. workers'[r] = {i}
      BY <1>2 DEF workers
    <2>2. \A q \in Runs : q # r => workers'[q] = workers[q]
      BY DEF workers
    <2> QED
      BY <2>1, <2>2 DEF workers
  <1>5. gone' = gone /\ bills' = bills
    BY DEF gone, bills
  <1>6. workers[r] = {}
    BY <1>2 DEF workers
  <1>7. Ledger!Hire(r, i)
    BY <1>3, <1>4, <1>5, <1>6 DEF Ledger!Hire
  <1> QED
    BY <1>7 DEF Ledger!Next

\* the end of a trainer, the only one of its run
LEMMA ExitRefines ==
  ASSUME Ownership, Accounting, NEW r \in Runs, NEW i \in Attempts,
         TrainerExit(r, i)
  PROVE  Ledger!Next
  <1>0. TypeOK /\ Accounts(r)
    BY DEF Ownership, Accounting
  <1> USE <1>0 DEF TrainerExit, TypeOK, AttemptType, db, dbRun, dbAtt
  <1>1. \A j \in Attempts : trainer[r][j] = "live" => j = i
    BY DEF Accounts, OneWorker
  <1>2. workers' = [workers EXCEPT ![r] = {}]
    <2>1. workers'[r] = {}
      BY <1>1 DEF workers, Endings
    <2>2. \A q \in Runs : q # r => workers'[q] = workers[q]
      BY DEF workers
    <2> QED
      BY <2>1, <2>2 DEF workers
  <1>3. gone' = gone /\ bills' = bills
    BY DEF gone, bills
  <1>4. workers[r] # {}
    BY DEF workers
  <1>5. Ledger!Quit(r)
    BY <1>2, <1>3, <1>4 DEF Ledger!Quit
  <1> QED
    BY <1>5 DEF Ledger!Next

\* the trainer of an owner that has seen the end of its output was the last
LEMMA NoWorkerLeft ==
  ASSUME NEW r \in Runs, RunInv(r), NEW i \in Attempts, Owner(r, i),
         status[r] # "deleted", task[r][i] \in EndedPoints
  PROVE  workers[r] = {}
  <1>1. \A j \in Attempts : IsCurrent(r, j) => j = i
    BY ConstantsAssumption
       DEF RunInv, Structure, OwnerIsCurrent, IsCurrent, Attempts
  <1>2. trainer[r][i] # "live"
    BY DEF RunInv, Structure, TrainerPhase, Endings
  <1>3. \A j \in Attempts : trainer[r][j] # "live"
    BY <1>1, <1>2 DEF RunInv, Structure, LiveIsCurrent
  <1> QED
    BY <1>3 DEF workers

\* only one attempt is the newest
LEMMA CurrentIsOne ==
  ASSUME NEW r \in Runs, NEW i \in Attempts, IsCurrent(r, i)
  PROVE  \A j \in Attempts : IsCurrent(r, j) <=> j = i
  <1>1. SUFFICES ASSUME NEW j \in Attempts, IsCurrent(r, j), j # i
                 PROVE  FALSE
    OBVIOUS
  <1>2. i \in Int /\ j \in Int
    BY ConstantsAssumption DEF Attempts
  <1>3. CASE j > i
    BY <1>1, <1>3 DEF IsCurrent
  <1>4. CASE i > j
    BY <1>1, <1>4 DEF IsCurrent
  <1> QED
    BY <1>1, <1>2, <1>3, <1>4

\* closing the attempt of a task; a deleted run has none
LEMMA CloseRefines ==
  ASSUME Ownership, Accounting, NEW r \in Runs, NEW i \in Attempts,
         TaskClose(r, i) \/ TaskCloseOom(r, i)
  PROVE  [Ledger!Next]_(Ledger!ledger)
  <1>0. TypeOK /\ RunInv(r) /\ Accounts(r)
    BY DEF Ownership, Accounting
  <1> USE <1>0 DEF At, TypeOK, AttemptType
  <1>1. /\ UNCHANGED <<dbRun, attGpu, trainer>>
        /\ \E why \in ExitReasons :
              att' = [att EXCEPT ![r] = [j \in Attempts |->
                         IF IsCurrent(r, j) /\ att[r][j] = "open"
                         THEN why ELSE att[r][j]]]
              \/ CloseOom(r)
    <2>1. CASE TaskClose(r, i)
      <3>1. Verdict(r, i) \in ExitReasons
        BY <2>1 DEF TaskClose, Verdict, RunInv, Structure, TrainerPhase,
           EndedPoints, Endings, ExitReasons
      <3> QED
        BY <2>1, <3>1 DEF TaskClose, CloseCurrent
    <2>2. CASE TaskCloseOom(r, i)
      BY <2>2 DEF TaskCloseOom, ExitReasons
    <2> QED
      BY <2>1, <2>2
  <1>2. UNCHANGED <<workers, gone, bills>>
    BY <1>1 DEF workers, gone, bills, dbRun
  <1>3. CASE status[r] = "deleted"
    <2>1. \A j \in Attempts : ~IsCurrent(r, j)
      BY <1>3 DEF Accounts, Dropped, Existing, IsCurrent
    <2>2. att' = att
      BY <1>1, <2>1 DEF CloseOom
    <2> QED
      BY <1>1, <1>2, <2>2 DEF Ledger!ledger
  <1>4. CASE status[r] # "deleted"
    <2>1. Owner(r, i) /\ Working(r, i) /\ task[r][i] \in EndedPoints
      BY DEF TaskClose, TaskCloseOom, Owner, Working, OwnerPoints, WorkPoints,
         EndedPoints
    <2>2. att[r][i] = "open" /\ IsCurrent(r, i)
      BY <1>4, <2>1 DEF Accounts, OpenWhileWorking, RunInv, Structure,
         OwnerIsCurrent
    <2>3. \A j \in Attempts : IsCurrent(r, j) <=> j = i
      BY <2>2, CurrentIsOne
    <2>4. \E why \in ExitReasons : att' = [att EXCEPT ![r][i] = why]
      BY <1>1, <2>2, <2>3 DEF CloseOom, ExitReasons
    <2>5. workers[r] = {}
      BY <1>4, <2>1, NoWorkerLeft
    <2>6. Ledger!Close(r, i)
      BY <1>1, <1>2, <2>2, <2>4, <2>5 DEF Ledger!Close
    <2> QED
      BY <2>6 DEF Ledger!Next
  <1> QED
    BY <1>3, <1>4

\* the index _next_attempt_index gives is that of no attempt, and follows the
\* newest one
LEMMA NextFollows ==
  ASSUME NEW r \in Runs, NEW n \in Attempts, n # 0, IsNext(r, n)
  PROVE  n - 1 \in Attempts /\ IsCurrent(r, n - 1) /\ att[r][n] = "none"
  <1>1. n \in Nat /\ n - 1 \in Nat /\ n > 0 /\ n - 1 \in Attempts
    BY ConstantsAssumption DEF Attempts
  <1>2. att[r][n] = "none" /\ att[r][n - 1] # "none"
    BY <1>1 DEF IsNext
  <1>3. ASSUME NEW j \in Attempts, j > n - 1
        PROVE  att[r][j] = "none"
    <2>1. j \in Int /\ j >= n
      BY <1>1, <1>3, ConstantsAssumption DEF Attempts
    <2> QED
      BY <2>1 DEF IsNext
  <1> QED
    BY <1>1, <1>2, <1>3 DEF IsCurrent

\* accept_fallback retries on another GPU than that of the attempt before
LEMMA AcceptRefines ==
  ASSUME Ownership, Accounting, NEW r \in Runs, NEW n \in Attempts,
         NEW g \in GPUs, Accept(r, g, n), UNCHANGED trainer
  PROVE  Ledger!Next
  <1>0. TypeOK /\ RunInv(r) /\ Accounts(r)
    BY DEF Ownership, Accounting
  <1> USE <1>0 DEF Accept, TypeOK, RowType, AttemptType
  <1>1. /\ cost[r] = {} /\ Existing(r) # {}
        /\ \A j \in Attempts : att[r][j] # "open" /\ trainer[r][j] # "live"
    BY DEF RunInv, Outcome, Resting, Accounts, Tried
  <1>2. n - 1 \in Attempts /\ IsCurrent(r, n - 1) /\ att[r][n] = "none"
    <2>1. n # 0
      BY <1>1, ConstantsAssumption DEF IsNext, Existing, Attempts
    <2> QED
      BY <2>1, NextFollows
  <1>3. att[r][n - 1] \in ExitReasons
    BY <1>1, <1>2 DEF IsCurrent
  <1>4. g # attGpu[r][n - 1]
    BY <1>2 DEF RunInv, Structure, Gpus
  <1>5. gone' = gone /\ bills' = bills /\ workers' = workers
    BY <1>1 DEF gone, bills, workers
  <1>6. workers[r] = {} /\ bills[r] = {}
    BY <1>1 DEF workers, bills
  <1>7. Ledger!Retry(r, n, g)
    BY <1>2, <1>3, <1>4, <1>5, <1>6 DEF Ledger!Retry, Ledger!Closed
  <1> QED
    BY <1>7 DEF Ledger!Next

\* a bill that covers the attempts of a run all of which are closed
LEMMA BillRefines ==
  ASSUME TypeOK, NEW r \in Runs, status[r] # "deleted", cost[r] = {},
         \A i \in Attempts : att[r][i] # "open" /\ trainer[r][i] # "live",
         cost' = [cost EXCEPT ![r] = Existing(r)],
         gone' = gone, UNCHANGED <<att, attGpu, trainer>>
  PROVE  Ledger!Next
  <1> USE DEF TypeOK, RowType, AttemptType
  <1>1. Existing(r) = {i \in Attempts : att[r][i] \in ExitReasons}
    BY DEF Existing, ExitReasons
  <1>2. r \notin gone /\ bills[r] = {} /\ workers[r] = {}
    BY DEF gone, bills, workers
  <1>3. bills' = [bills EXCEPT ![r] = Existing(r)]
    BY <1>2 DEF bills
  <1>4. workers' = workers
    BY DEF workers
  <1>5. Ledger!Bill(r)
    BY <1>1, <1>2, <1>3, <1>4 DEF Ledger!Bill, Ledger!Closed
  <1> QED
    BY <1>5 DEF Ledger!Next

\* the verdict of a task bills its run, unless the row is gone
LEMMA VerdictRefines ==
  ASSUME Ownership, TypeOK', NEW r \in Runs, NEW i \in Attempts,
         TaskStatus(r, i)
  PROVE  [Ledger!Next]_(Ledger!ledger)
  <1>0. TypeOK /\ RunInv(r) /\ \A q \in Runs : Quiet(q)
    BY VerdictQuiet DEF Ownership, RunInv, Structure
  <1>1. gone' = gone
    BY <1>0, QuietSeen
  <1> USE <1>0 DEF TaskStatus, At, HasRow, RowStatus, TypeOK, RowType, dbAtt
  <1>2. CASE status[r] = "deleted"
    <2>1. cost' = cost
      BY <1>2
    <2>2. workers' = workers /\ bills' = bills
      BY <1>1, <2>1 DEF workers, bills
    <2> QED
      BY <1>1, <2>2 DEF Ledger!ledger
  <1>3. CASE status[r] # "deleted"
    <2>1. Owner(r, i) /\ task[r][i] \in EndedPoints
      BY DEF Owner, OwnerPoints, EndedPoints
    <2>2. IsCurrent(r, i)
      BY <1>3, <2>1 DEF RunInv, Structure, OwnerIsCurrent
    <2>3. HasRow(r)
      BY <1>3, <2>2 DEF RunInv, Structure, Unborn, IsCurrent
    <2>4. /\ tally[r][i] = Existing(r) /\ cost[r] = {}
          /\ \A j \in Attempts : att[r][j] # "open"
      BY <1>3, <2>1 DEF RunInv, Outcome, RollUp, Billed
    <2>5. \A j \in Attempts : trainer[r][j] # "live"
      BY <1>3, <2>1, NoWorkerLeft DEF workers
    <2>6. cost' = [cost EXCEPT ![r] = Existing(r)]
      BY <2>3, <2>4
    <2>7. UNCHANGED <<att, attGpu, trainer>>
      OBVIOUS
    <2>8. Ledger!Next
      BY <1>1, <1>3, <2>4, <2>5, <2>6, <2>7, BillRefines
    <2> QED
      BY <2>8
  <1> QED
    BY <1>2, <1>3

\* giving up on a decision bills the run, by the user or by the sweep
LEMMA GiveUpRefines ==
  ASSUME Ownership, TypeOK', NEW r \in Runs,
         \/ CancelFallback(r)
         \/ SweepStatus /\ r = cur
  PROVE  Ledger!Next
  <1>0. TypeOK /\ BootInv /\ RunInv(r)
    BY DEF Ownership
  <1>1. \A q \in Runs : Quiet(q)
    BY <1>0, CancelFallbackQuiet, SweepStatusQuiet
  <1>2. gone' = gone /\ attGpu' = attGpu
    BY <1>0, <1>1, QuietSeen
  <1>3. status[r] = "fallback_pending"
    BY <1>0 DEF CancelFallback, SweepStatus, BootInv
  <1>4. /\ cost[r] = {}
        /\ \A i \in Attempts : att[r][i] # "open" /\ trainer[r][i] # "live"
    BY <1>0, <1>3 DEF RunInv, Outcome, Resting
  <1>5. att' = att /\ trainer' = trainer
    BY RecoveryWork, BootWork
  <1>6. cost' = [cost EXCEPT ![r] = Existing(r)]
    BY <1>0 DEF CancelFallback, SweepStatus, BootInv
  <1> QED
    BY <1>0, <1>2, <1>3, <1>4, <1>5, <1>6, BillRefines

\* delete_run drops the attempts and the bill
LEMMA DeleteRefines ==
  ASSUME Ownership, NEW r \in Runs, Delete(r)
  PROVE  Ledger!Next
  <1>0. TypeOK
    BY DEF Ownership
  <1> USE <1>0 DEF Delete, TypeOK, RowType, AttemptType
  <1>1. r \notin gone /\ gone' = gone \cup {r}
    BY DEF gone, Terminal
  <1>2. bills' = [bills EXCEPT ![r] = {}]
    <2>1. \A q \in Runs : bills'[q] = IF q = r THEN {} ELSE bills[q]
      BY <1>1 DEF bills
    <2> QED
      BY <2>1 DEF bills
  <1>3. workers' = workers
    BY DEF workers
  <1>4. Ledger!Drop(r)
    BY <1>1, <1>2, <1>3 DEF Ledger!Drop
  <1> QED
    BY <1>4 DEF Ledger!Next

-----------------------------------------------------------------------------
(* The refinement *)

LEMMA LedgerStep ==
  ASSUME Ownership, Accounting, [Next]_vars
  PROVE  [Ledger!Next]_(Ledger!ledger)
  <1>0. TypeOK /\ TypeOK' /\ BootInv /\ \A r \in Runs : TrainerPhase(r)
    BY TypeStep DEF Ownership, RunInv, Structure
  <1>1. ASSUME \A q \in Runs : Quiet(q) /\ BillCalm(q),
               att' = att, trainer' = trainer
        PROVE  [Ledger!Next]_(Ledger!ledger)
    BY <1>0, <1>1, UnseenStep
  <1>2. CASE UNCHANGED vars
    BY <1>2 DEF Ledger!ledger, workers, bills, gone, vars, db, dbRun, dbAtt
  <1>3. ASSUME NEW r \in Runs, UserStep(r) \/ RequestStep(r)
        PROVE  [Ledger!Next]_(Ledger!ledger)
    <2>1. ASSUME Cancel(r) \/ Pause(r) \/ (\E c \in Runs : Resume(r, c))
                 \/ SnapshotWritten(r) \/ SnapshotFails(r)
                 \/ SkipAfterCancel(r) \/ RequestFails(r)
          PROVE  [Ledger!Next]_(Ledger!ledger)
      BY <1>1, <2>1, RequestCalm, RequestWork DEF Calm
    <2>2. ASSUME AcceptFallback(r) PROVE [Ledger!Next]_(Ledger!ledger)
      BY <2>2, AcceptRefines DEF AcceptFallback
    <2>3. ASSUME Launch(r) \/ Respawn(r)
          PROVE  [Ledger!Next]_(Ledger!ledger)
      BY <2>3 DEF Launch, Respawn, Ledger!ledger, workers, bills, gone, db,
         dbRun, dbAtt
    <2> QED
      BY <1>0, <1>3, <2>1, <2>2, <2>3, CreateRefines, DeleteRefines,
         GiveUpRefines DEF UserStep, RequestStep
  <1>4. ASSUME NEW r \in Runs, NEW i \in Attempts,
               EventStep(r, i) \/ FaultStep(r, i) \/ TrainerExit(r, i)
        PROVE  [Ledger!Next]_(Ledger!ledger)
    <2>1. (\A q \in Runs : Quiet(q) /\ BillCalm(q)) /\ att' = att
      BY <1>4, EventCalm, TaskCalm, EventWork, TaskWork DEF FaultStep, Calm
    <2>2. trainer' = trainer \/ TaskDispatch(r, i) \/ TrainerExit(r, i)
      BY <1>4, EventWork, TaskWork DEF FaultStep
    <2> QED
      BY <1>0, <1>1, <2>1, <2>2, DispatchRefines, ExitRefines
  <1>5. ASSUME NEW r \in Runs, NEW i \in Attempts, TaskStep(r, i)
        PROVE  [Ledger!Next]_(Ledger!ledger)
    <2>1. ASSUME TaskStart(r, i) \/ TaskPrepare(r, i) \/ TaskDispatch(r, i)
                 \/ TaskRegister(r, i) \/ TaskSaved(r, i) \/ TaskDrain(r, i)
                 \/ TaskAcceptRefused(r, i) \/ TaskPost(r, i)
                 \/ TaskFail(r, i) \/ Evict(r, i)
          PROVE  [Ledger!Next]_(Ledger!ledger)
      <3>1. (\A q \in Runs : Quiet(q) /\ BillCalm(q)) /\ att' = att
        BY <2>1, TaskCalm, TaskWork DEF Calm
      <3>2. trainer' = trainer \/ TaskDispatch(r, i) \/ TrainerExit(r, i)
        BY <2>1, TaskWork
      <3> QED
        BY <1>0, <1>1, <3>1, <3>2, DispatchRefines, ExitRefines
    <2>2. ASSUME TaskEntered(r, i) PROVE [Ledger!Next]_(Ledger!ledger)
      BY <1>0, <1>1, <2>2, EnteredQuiet, EventWork
    <2>3. ASSUME TaskSum(r, i) \/ TaskSkip(r, i) \/ TaskPropose(r, i)
          PROVE  [Ledger!Next]_(Ledger!ledger)
      <3>1. (\A q \in Runs : Quiet(q) /\ BillCalm(q)) /\ att' = att
        BY <1>0, <2>3, RollUpQuiet, ProposeQuiet, TaskWork
      <3>2. trainer' = trainer \/ TaskDispatch(r, i) \/ TrainerExit(r, i)
        BY <2>3, TaskWork
      <3> QED
        BY <1>0, <1>1, <3>1, <3>2, DispatchRefines, ExitRefines
    <2>4. ASSUME TaskAccept(r, i) PROVE [Ledger!Next]_(Ledger!ledger)
      <3>1. PICK n \in Attempts : Accept(r, FirstCandidate(r, i), n)
        BY <2>4 DEF TaskAccept
      <3>2. FirstCandidate(r, i) \in GPUs
        BY <3>1, ConstantsAssumption DEF Accept
      <3> QED
        BY <2>4, <3>1, <3>2, AcceptRefines DEF TaskAccept
    <2>5. ASSUME TaskSpawn(r, i) PROVE [Ledger!Next]_(Ledger!ledger)
      BY <2>5 DEF TaskSpawn, Ledger!ledger, workers, bills, gone, db, dbRun,
         dbAtt
    <2> QED
      BY <1>0, <1>5, <2>1, <2>2, <2>3, <2>4, <2>5, CloseRefines,
         VerdictRefines DEF TaskStep
  <1>6. CASE StartupStep \/ SweepRaise \/ Crash
    <2>1. ASSUME SweepStatus PROVE [Ledger!Next]_(Ledger!ledger)
      <3>1. cur \in Runs
        BY <1>0, <2>1 DEF SweepStatus, BootInv, TypeOK, BootType
      <3> QED
        BY <1>0, <2>1, <3>1, GiveUpRefines
    <2>2. ASSUME NEW r \in Runs,
                 RecoverSkip(r) \/ RecoverPending(r) \/ RecoverRunning(r)
                 \/ SweepClose(r)
          PROVE  [Ledger!Next]_(Ledger!ledger)
      BY <1>1, <2>2, RecoveryCalm, RecoveryWork DEF Calm
    <2>3. ASSUME Crash \/ Restart \/ RecoverSecond \/ SweepBegin \/ SweepSum
                 \/ SweepSkip \/ SweepRaise \/ Serve
          PROVE  [Ledger!Next]_(Ledger!ledger)
      <3>1. \A q \in Runs : Quiet(q) /\ BillCalm(q)
        BY <2>3, BootCalm DEF Calm
      <3>2. att' = att /\ trainer' = trainer
        BY <2>3 DEF Crash, Restart, RecoverSecond, SweepBegin, SweepSum,
           SweepSkip, SweepRaise, Serve, db, dbAtt
      <3> QED
        BY <1>1, <3>1, <3>2
    <2> QED
      BY <1>6, <2>1, <2>2, <2>3 DEF StartupStep
  <1> QED
    BY <1>2, <1>3, <1>4, <1>5, <1>6 DEF Next

(* The lifecycle implements the ledger, for any number of runs, attempts   *)
(* and crashes: whatever interleaves, a trainer is started only for an     *)
(* open attempt and alone, an attempt is closed once and after its trainer *)
(* has ended, a retry takes another GPU than the attempt that failed, and  *)
(* a bill covers every attempt and is the last word.                       *)
THEOREM ImplementsLedger == Spec => KeepsLedger
  <1>1. Ownership /\ Accounting /\ [Next]_vars
        => [Ledger!Next]_(Ledger!ledger)
    BY LedgerStep
  <1> QED
    BY InitRefines, OwnershipInvariant, AccountsAreKept, <1>1, PTL
       DEF Spec, KeepsLedger, Ledger!Spec

-----------------------------------------------------------------------------
(* The habits of the system *)

\* The setup of a run stays as it was created; a task gets to accept and fail
\* only as Automatic allows; a pid is recorded for a local run; and who
\* writes the status of a completed run owns it, gives up on it or deletes it.
HabitsKept(r) ==
    /\ strategy'[r] = strategy[r] /\ env'[r] = env[r]
    /\ status'[r] = "none" => status[r] = "none"
    /\ pid'[r] => pid[r] \/ (status[r] # "none" /\ env[r] = "local")
    /\ \A i \in Attempts :
          /\ task'[r][i] = "accept" =>
                task[r][i] = "accept" \/ strategy[r] = "auto"
          /\ task'[r][i] = "fail" =>
                task[r][i] \in {"accept", "fail"} \/ Faults
    /\ status[r] = "completed" =>
          \/ status'[r] \in {"completed", "deleted"}
          \/ \E i \in Attempts : Owner(r, i) \/ task[r][i] = "fail"

\* a step that keeps the habits keeps what follows from them
LEMMA KeptHabits ==
  ASSUME TypeOK, NEW r \in Runs, Automatic(r), PidIsLocal(r), HabitsKept(r)
  PROVE  Automatic(r)' /\ PidIsLocal(r)'
  BY DEF Automatic, PidIsLocal, HabitsKept

LEMMA UserHabits ==
  ASSUME TypeOK, NEW q \in Runs, NEW r \in Runs,
         UserStep(r) \/ RequestStep(r), ~(Create(r) /\ q = r)
  PROVE  HabitsKept(q)
  <1> USE DEF TypeOK, RowType, MemoryType, db, dbRun, setup, memory, heap,
        HabitsKept
  <1>1. CASE Create(r)
    BY <1>1 DEF Create
  <1>2. CASE Cancel(r)
    BY <1>2 DEF Cancel
  <1>3. CASE Pause(r)
    BY <1>3 DEF Pause
  <1>4. CASE Delete(r)
    BY <1>4 DEF Delete
  <1>5. CASE AcceptFallback(r)
    BY <1>5 DEF AcceptFallback, Accept
  <1>6. CASE CancelFallback(r)
    BY <1>6 DEF CancelFallback
  <1>7. CASE SnapshotWritten(r)
    BY <1>7 DEF SnapshotWritten
  <1>8. CASE SnapshotFails(r)
    BY <1>8 DEF SnapshotFails
  <1>9. CASE SkipAfterCancel(r)
    BY <1>9 DEF SkipAfterCancel
  <1>10. CASE Launch(r)
    BY <1>10 DEF Launch, Spawn
  <1>11. CASE Respawn(r)
    BY <1>11 DEF Respawn, SpawnAccepted, Spawn
  <1>12. ASSUME NEW c \in Runs, Resume(r, c) PROVE HabitsKept(q)
    BY <1>12 DEF Resume
  <1>13. CASE RequestFails(r)
    BY <1>13 DEF RequestFails
  <1> QED
    BY <1>1, <1>2, <1>3, <1>4, <1>5, <1>6, <1>7, <1>8, <1>9, <1>10, <1>11,
       <1>12, <1>13
       DEF UserStep, RequestStep

LEMMA TaskHabits ==
  ASSUME TypeOK, NEW q \in Runs, NEW r \in Runs, NEW i \in Attempts,
         TrainerPhase(r),
         EventStep(r, i) \/ TaskStep(r, i) \/ FaultStep(r, i)
         \/ TrainerExit(r, i)
  PROVE  HabitsKept(q)
  <1> USE DEF TypeOK, RowType, MemoryType, db, dbRun, setup, memory, heap, At,
        Goto, Write, HasRow, RowStatus, Owner, OwnerPoints, HabitsKept
  <1>1. CASE TaskEnterStage(r, i)
    BY <1>1 DEF TaskEnterStage
  <1>2. CASE TaskLeaveStage(r, i)
    BY <1>2 DEF TaskLeaveStage
  <1>3. CASE TaskProgress(r, i)
    BY <1>3 DEF TaskProgress
  <1>4. CASE TaskCheckpoint(r, i)
    BY <1>4 DEF TaskCheckpoint
  <1>5. CASE TaskRecord(r, i)
    BY <1>5 DEF TaskRecord
  <1>6. CASE TaskStart(r, i)
    BY <1>6 DEF TaskStart
  <1>7. CASE TaskPrepare(r, i)
    BY <1>7 DEF TaskPrepare
  <1>8. CASE TaskDispatch(r, i)
    BY <1>8 DEF TaskDispatch
  <1>9. CASE TaskRegister(r, i)
    BY <1>9 DEF TaskRegister
  <1>10. CASE TaskEntered(r, i)
    BY <1>10 DEF TaskEntered
  <1>11. CASE TaskSaved(r, i)
    BY <1>11 DEF TaskSaved
  <1>12. CASE TaskDrain(r, i)
    BY <1>12 DEF TaskDrain
  <1>13. CASE TaskClose(r, i)
    BY <1>13 DEF TaskClose
  <1>14. CASE TaskCloseOom(r, i)
    BY <1>14 DEF TaskCloseOom
  <1>15. CASE TaskPropose(r, i)
    BY <1>15 DEF TaskPropose
  <1>16. CASE TaskAccept(r, i)
    BY <1>16 DEF TaskAccept, Accept
  <1>17. CASE TaskAcceptRefused(r, i)
    BY <1>17 DEF TaskAcceptRefused
  <1>18. CASE TaskSpawn(r, i)
    BY <1>18 DEF TaskSpawn, SpawnAccepted, Spawn
  <1>19. CASE TaskSum(r, i)
    BY <1>19 DEF TaskSum
  <1>20. CASE TaskSkip(r, i)
    BY <1>20 DEF TaskSkip
  <1>21. CASE TaskStatus(r, i)
    BY <1>21 DEF TaskStatus, Verdict, TrainerPhase, EndedPoints, Endings
  <1>22. CASE TaskPost(r, i)
    BY <1>22 DEF TaskPost
  <1>23. CASE TaskFail(r, i)
    BY <1>23 DEF TaskFail
  <1>24. CASE Evict(r, i)
    BY <1>24 DEF Evict
  <1>25. CASE TaskRaise(r, i)
    BY <1>25 DEF TaskRaise
  <1>26. CASE TaskDie(r, i)
    BY <1>26 DEF TaskDie
  <1>27. CASE TrainerExit(r, i)
    BY <1>27 DEF TrainerExit
  <1> QED
    BY <1>1, <1>2, <1>3, <1>4, <1>5, <1>6, <1>7, <1>8, <1>9, <1>10, <1>11,
       <1>12, <1>13, <1>14, <1>15, <1>16, <1>17, <1>18, <1>19, <1>20, <1>21,
       <1>22, <1>23, <1>24, <1>25, <1>26, <1>27
       DEF EventStep, TaskStep, FaultStep

LEMMA BootHabits ==
  ASSUME TypeOK, BootInv, NEW q \in Runs, Crash \/ StartupStep \/ SweepRaise
  PROVE  HabitsKept(q)
  <1> USE DEF TypeOK, RowType, MemoryType, db, dbRun, setup, memory, heap,
        HabitsKept
  <1>1. CASE Crash
    BY <1>1 DEF Crash
  <1>2. CASE Restart
    BY <1>2 DEF Restart
  <1>3. CASE RecoverSecond
    BY <1>3 DEF RecoverSecond
  <1>4. CASE SweepBegin
    BY <1>4 DEF SweepBegin
  <1>5. CASE SweepSum
    BY <1>5 DEF SweepSum
  <1>6. CASE SweepSkip
    BY <1>6 DEF SweepSkip
  <1>7. CASE SweepStatus
    BY <1>7 DEF SweepStatus, Write, BootInv, BootType
  <1>8. CASE SweepRaise
    BY <1>8 DEF SweepRaise
  <1>9. CASE Serve
    BY <1>9 DEF Serve
  <1>10. ASSUME NEW r \in Runs, RecoverSkip(r) PROVE HabitsKept(q)
    BY <1>10 DEF RecoverSkip
  <1>11. ASSUME NEW r \in Runs, RecoverPending(r) PROVE HabitsKept(q)
    BY <1>11 DEF RecoverPending, Recovering
  <1>12. ASSUME NEW r \in Runs, RecoverRunning(r) PROVE HabitsKept(q)
    BY <1>12 DEF RecoverRunning, Recovering
  <1>13. ASSUME NEW r \in Runs, SweepClose(r) PROVE HabitsKept(q)
    BY <1>13 DEF SweepClose
  <1> QED
    BY <1>1, <1>2, <1>3, <1>4, <1>5, <1>6, <1>7, <1>8, <1>9, <1>10, <1>11,
       <1>12, <1>13
       DEF StartupStep

LEMMA HabitsStep ==
  ASSUME Ownership, [Next]_vars, NEW q \in Runs, ~Create(q)
  PROVE  HabitsKept(q)
  <1>0. TypeOK /\ BootInv /\ \A r \in Runs : TrainerPhase(r)
    BY DEF Ownership, RunInv, Structure
  <1>1. CASE UNCHANGED vars
    BY <1>1 DEF HabitsKept, vars, db, dbRun, setup, memory
  <1> QED
    BY <1>0, <1>1, UserHabits, TaskHabits, BootHabits DEF Next

\* a run that is created has no task and no pid yet
LEMMA CreateHabits ==
  ASSUME Ownership, NEW r \in Runs, PidIsLocal(r), Create(r)
  PROVE  Automatic(r)' /\ PidIsLocal(r)'
  <1>0. TypeOK /\ RunInv(r)
    BY DEF Ownership
  <1>1. \A i \in Attempts : task[r][i] = "none"
    BY <1>0 DEF Create, RunInv, Structure, Unborn
  <1> QED
    BY <1>0, <1>1 DEF Create, Automatic, PidIsLocal, TypeOK, RowType,
       MemoryType

\* nothing but recovery and the end of a trainer happens while it runs
LEMMA RecoveredStep ==
  ASSUME Ownership, [Next]_vars, NEW q \in Runs, Recovered(q)
  PROVE  Recovered(q)'
  <1>0. TypeOK /\ BootInv
    BY DEF Ownership
  <1> USE <1>0, ConstantsAssumption DEF TypeOK, RowType, AttemptType, BootType,
        Recovered, Attempts, db, dbRun
  <1>1. CASE UNCHANGED vars
    BY <1>1 DEF vars, boot
  <1>2. ASSUME NEW r \in Runs, UserStep(r) \/ RequestStep(r)
        PROVE  Recovered(q)'
    BY <1>2, UserServing DEF boot
  <1>3. ASSUME NEW r \in Runs, NEW i \in Attempts,
               EventStep(r, i) \/ TaskStep(r, i) \/ FaultStep(r, i)
        PROVE  Recovered(q)'
    BY <1>3, TaskServing DEF boot
  <1>4. ASSUME NEW r \in Runs, NEW i \in Attempts, TrainerExit(r, i)
        PROVE  Recovered(q)'
    BY <1>4 DEF TrainerExit, Endings, boot
  <1>5. CASE Crash \/ Serve \/ SweepBegin
    BY <1>5 DEF Crash, Serve, SweepBegin
  <1>6. CASE Restart
    BY <1>6 DEF Restart
  <1>7. ASSUME NEW r \in Runs, RecoverSkip(r) PROVE Recovered(q)'
    BY <1>7 DEF RecoverSkip, Recovering
  <1>8. ASSUME NEW r \in Runs, RecoverPending(r) PROVE Recovered(q)'
    BY <1>8 DEF RecoverPending, Recovering
  <1>9. ASSUME NEW r \in Runs, RecoverRunning(r) PROVE Recovered(q)'
    BY <1>9 DEF RecoverRunning, Recovering
  <1>10. CASE RecoverSecond
    BY <1>10 DEF RecoverSecond
  <1>11. ASSUME up = "sweeping", up' = "sweeping" PROVE Recovered(q)'
    BY <1>11
  <1>12. CASE SweepSum \/ SweepSkip \/ SweepStatus \/ SweepRaise
              \/ \E r \in Runs : SweepClose(r)
    BY <1>11, <1>12 DEF SweepSum, SweepSkip, SweepStatus, SweepRaise,
       SweepClose, BootInv
  <1> QED
    BY <1>1, <1>2, <1>3, <1>4, <1>5, <1>6, <1>7, <1>8, <1>9, <1>10, <1>12
       DEF Next, StartupStep

LEMMA InitHabits == Init => Habits
  BY DEF Init, Habits, Automatic, PidIsLocal, Recovered

(* A task reaches its except clause by a fault or by a refused automatic   *)
(* fallback, a pid is that of a local run, and recovery leaves a running   *)
(* row alone only when it has found its trainer.                           *)
THEOREM HabitsAreKept == Spec => []Habits
  <1>1. Ownership /\ Habits /\ [Next]_vars => Habits'
    <2> SUFFICES ASSUME Ownership, Habits, [Next]_vars, NEW q \in Runs
                 PROVE  (Automatic(q) /\ PidIsLocal(q) /\ Recovered(q))'
      BY DEF Habits
    <2>1. Automatic(q) /\ PidIsLocal(q) /\ Recovered(q) /\ TypeOK
      BY DEF Habits, Ownership
    <2>2. Automatic(q)' /\ PidIsLocal(q)'
      BY <2>1, HabitsStep, CreateHabits, KeptHabits
    <2> QED
      BY <2>1, <2>2, RecoveredStep
  <1> QED
    BY InitHabits, OwnershipInvariant, <1>1, PTL DEF Spec

-----------------------------------------------------------------------------
(* What a step may never do *)

(* Without faults a completed run stays completed until it is deleted,     *)
(* automatic fallback aside.                                               *)
THEOREM CompletionIsFinal ==
  ASSUME Faults = FALSE
  PROVE  Spec => CompletedIsFinal
  <1>1. ASSUME Ownership, Habits, [Next]_vars, NEW r \in Runs,
               status[r] = "completed", strategy[r] # "auto"
        PROVE  status'[r] \in {"completed", "deleted"}
    <2>1. \A i \in Attempts : ~Owner(r, i)
      BY <1>1 DEF Ownership, RunInv, Outcome, Whole, Billed
    <2>2. \A i \in Attempts : task[r][i] # "fail"
      BY <1>1 DEF Habits, Automatic
    <2>3. ~Create(r)
      BY <1>1 DEF Create
    <2> QED
      BY <1>1, <2>1, <2>2, <2>3, HabitsStep DEF HabitsKept
  <1>2. Ownership /\ Habits /\ [Next]_vars
        => [\A r \in Runs :
               (status[r] = "completed" /\ strategy[r] # "auto")
               => status'[r] \in {"completed", "deleted"}]_vars
    BY <1>1
  <1> QED
    BY OwnershipInvariant, HabitsAreKept, <1>2, PTL DEF Spec, CompletedIsFinal

(* Recovery ends with no running row but those of local runs whose trainer *)
(* had started, whatever the crash left and in whatever order it looked.   *)
THEOREM RecoveryCoversAll == Spec => RecoveryIsThorough
  <1>1. ASSUME Ownership, Habits, [Next]_vars, up = "recovering",
               up' = "sweeping", NEW r \in Runs, status[r] = "running"
        PROVE  env[r] = "local" /\ pid[r] /\ trainer[r][0] # "none"
    <2>1. todo = {}
      <3>1. ~(\E q \in Runs : UserStep(q) \/ RequestStep(q))
            /\ ~(\E q \in Runs, i \in Attempts :
                    EventStep(q, i) \/ TaskStep(q, i) \/ FaultStep(q, i))
        BY <1>1, UserServing, TaskServing DEF Ownership
      <3> QED
        BY <1>1, <3>1 DEF Next, StartupStep, TrainerExit, Crash, Restart,
           RecoverSkip, RecoverPending, RecoverRunning, SweepClose,
           RecoverSecond, SweepBegin, SweepSum, SweepSkip, SweepStatus, Serve,
           SweepRaise, vars, boot
    <2> QED
      BY <1>1, <2>1 DEF Habits, PidIsLocal, Recovered
  <1>2. Ownership /\ Habits /\ [Next]_vars
        => [(up = "recovering" /\ up' = "sweeping") =>
               \A r \in Runs : status[r] = "running" =>
                  env[r] = "local" /\ pid[r] /\ trainer[r][0] # "none"]_vars
    BY <1>1
  <1> QED
    BY OwnershipInvariant, HabitsAreKept, <1>2, PTL
       DEF Spec, RecoveryIsThorough
=============================================================================
