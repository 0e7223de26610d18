--------------------------- MODULE ServiceProofs ----------------------------
(***************************************************************************)
(* What TLAPS proves of Service, for every set of tasks, sessions and       *)
(* databases and every batch of maintenance tasks.                          *)
(***************************************************************************)
EXTENDS Service, SequenceTheorems, TLAPS

------------------------------------------------------------------------------
(* Types *)

LEMMA InitType == Init => TypeOK
<1>. SUFFICES ASSUME Init PROVE TypeOK
  OBVIOUS
<1>1. <<>> \in Seq(Tasks) /\ Len(<<>>) = 0
  BY EmptySeq
<1>2. /\ Idle \in [op : ApiOps, todo : Seq(Tasks)]
      /\ "none" \in WorkerStates
      /\ "none" \in Messages
      /\ 0 \in 0..MaxFaults
  BY <1>1, TasksAssumption DEF Idle, ApiOps, WorkerStates, Messages
<1>3. /\ target \in [RecoveryTasks -> Dbs \cup {NoDb}]
      /\ db_disabled \in [Dbs -> BOOLEAN]
      /\ loaded \in [Dbs -> BOOLEAN]
      /\ intact \in [Dbs -> BOOLEAN]
  BY DEF Init
<1>4. worker = "none" /\ current = <<>> /\ Len(current) <= 1
  BY <1>1 DEF Init, DeployerInit
<1>. QED
  BY <1>1, <1>2, <1>3, <1>4 DEF Init, DeployerInit, TypeOK

\* Scheduling appends a task to two sequences of tasks.
LEMMA ScheduleType ==
  ASSUME TypeOK, ApiSchedule
  PROVE  TypeOK'
<1>1. Head(api.todo) \in Tasks /\ Tail(api.todo) \in Seq(Tasks)
  BY HeadTailProperties DEF TypeOK, ApiSchedule
<1>2. pending_tasks_' \in Seq(Tasks) /\ scheduled' \in Seq(Tasks)
  BY <1>1, AppendProperties DEF TypeOK, ApiSchedule, ScheduleTask
<1>3. api' \in [op : ApiOps, todo : Seq(Tasks)]
  BY <1>1 DEF TypeOK, ApiSchedule
<1>. QED
  BY <1>2, <1>3 DEF TypeOK, ApiSchedule, ScheduleTask, workVars, dbVars
  
LEMMA StartWorkType ==
  ASSUME TypeOK, ApiStartWork
  PROVE  TypeOK'
<1>1. Idle \in [op : ApiOps, todo : Seq(Tasks)]
  BY EmptySeq DEF Idle, ApiOps
<1>2. (api.op = "maintenance") \in BOOLEAN
  OBVIOUS
<1> DEFINE mode == api.op = "maintenance"
<1>3. CASE UNCHANGED deployerVars
  BY <1>1, <1>3 DEF TypeOK, ApiStartWork, dbVars, deployerVars, queueVars, workVars
<1>4. CASE maintenance_mode_' = mode /\ UNCHANGED <<queueVars, valid, workVars>>
  BY <1>1, <1>2, <1>4 DEF TypeOK, ApiStartWork, dbVars, queueVars, workVars
<1>5. CASE ~IsWorking /\ LaunchWork(mode)
  <2>1. current = <<>>
    BY <1>5 DEF IsWorking, TypeOK
  <2>2. "start" \in WorkerStates
    BY DEF WorkerStates
  <2>. QED
    BY <1>1, <1>2, <1>5, <2>1, <2>2 DEF TypeOK, ApiStartWork, dbVars, LaunchWork, queueVars
<1>. QED
  BY <1>3, <1>4, <1>5 DEF ApiStartWork, StartWork

\* The steps of the API thread that touch no queue.
LEMMA CallType ==
  ASSUME TypeOK,
         \/ StartService
         \/ Finalize
         \/ \E s \in Sessions : CreateSession(s) \/ DestroySession(s)
         \/ \E b \in Batches : BeginMaintenance(b) \/ BeginSync(b)
         \/ \E d \in Dbs : Load(d)
  PROVE  TypeOK'
<1>1. \A b \in Batches : b \in Seq(Tasks)
  BY TasksAssumption, SeqMonotonic
<1>2. \A t \in RecoveryTasks : <<t>> \in Seq(Tasks)
  BY TasksAssumption
<1>3. ASSUME NEW S, CloseUnused(S) PROVE loaded' \in [Dbs -> BOOLEAN]
  BY <1>3 DEF CloseUnused, TypeOK
<1>4. CASE StartService
  BY <1>4 DEF StartService, TypeOK, deployerVars, queueVars, workVars, dbVars
<1>5. CASE Finalize
  <2>1. current = <<>> /\ "none" \in WorkerStates
    BY <1>5 DEF Finalize, JoinWorkThread, IsWorking, TypeOK, WorkerStates
  <2>. QED
    BY <1>3, <1>5, <2>1 DEF Finalize, JoinWorkThread, TypeOK, queueVars
<1>6. ASSUME NEW s \in Sessions, CreateSession(s) PROVE TypeOK'
  BY <1>6 DEF CreateSession, TypeOK, deployerVars, queueVars, workVars, dbVars
<1>7. ASSUME NEW s \in Sessions, DestroySession(s) PROVE TypeOK'
  BY <1>3, <1>7 DEF DestroySession, TypeOK, deployerVars, queueVars, workVars
<1>8. ASSUME NEW b \in Batches, BeginMaintenance(b) PROVE TypeOK'
  BY <1>1, <1>8 DEF BeginMaintenance, TypeOK, deployerVars, queueVars, workVars, dbVars, ApiOps
<1>9. ASSUME NEW b \in Batches, BeginSync(b) PROVE TypeOK'
  BY <1>1, <1>3, <1>9 DEF BeginSync, TypeOK, deployerVars, queueVars, workVars, ApiOps
<1>10. ASSUME NEW d \in Dbs, Load(d) PROVE TypeOK'
  <2>1. loaded' \in [Dbs -> BOOLEAN]
    BY <1>10 DEF Load, OpenOrHandOver, Open, TypeOK
  <2>2. /\ api' \in [op : ApiOps, todo : Seq(Tasks)]
        /\ target' \in [RecoveryTasks -> Dbs \cup {NoDb}]
        /\ db_disabled' \in [Dbs -> BOOLEAN]
    <3>1. CASE UNCHANGED <<api, target, db_disabled>>
      BY <3>1 DEF TypeOK
    <3>2. ASSUME NEW t \in RecoveryTasks, HandOver(d, t)
          PROVE  /\ api' \in [op : ApiOps, todo : Seq(Tasks)]
                 /\ target' \in [RecoveryTasks -> Dbs \cup {NoDb}]
                 /\ db_disabled' \in [Dbs -> BOOLEAN]
      <4>1. api' \in [op : ApiOps, todo : Seq(Tasks)]
        BY <1>2, <3>2 DEF HandOver, ApiOps
      <4>2. target' \in [RecoveryTasks -> Dbs \cup {NoDb}]
        BY <3>2 DEF HandOver, TypeOK
      <4>3. db_disabled' \in [Dbs -> BOOLEAN]
        BY <3>2 DEF HandOver, TypeOK
      <4>. QED
        BY <4>1, <4>2, <4>3
    <3>. QED
      BY <1>10, <3>1, <3>2 DEF Load, OpenOrHandOver
  <2>. QED
    BY <1>10, <2>1, <2>2 DEF Load, TypeOK, deployerVars, queueVars, workVars
<1>. QED
  BY <1>4, <1>5, <1>6, <1>7, <1>8, <1>9, <1>10

------------------------------------------------------------------------------
(* Types: the steps of the work thread *)

\* What RunTask leaves behind, whoever calls it.
LEMMA RunTaskType ==
  ASSUME TypeOK, NEW success \in BOOLEAN, RunTask(success)
  PROVE  /\ pending_tasks_' \in Seq(Tasks) /\ scheduled' \in Seq(Tasks)
         /\ ran' \in Seq(Tasks) /\ current' \in Seq(Tasks)
         /\ worker' \in WorkerStates /\ message' \in Messages
         /\ maintenance_mode_' \in BOOLEAN /\ valid' \in BOOLEAN
         /\ failure' \in BOOLEAN /\ failed' \in SUBSET Tasks
         /\ valid' <=> worker' # "none"
         /\ worker' = "run" <=> current' # <<>>
         /\ Len(current') <= 1
<1>1. <<>> \in Seq(Tasks) /\ Len(<<>>) = 0
  BY EmptySeq
<1>2. ran \o current \in Seq(Tasks)
  BY ConcatProperties DEF TypeOK
<1>3. ToSet(current) \subseteq Tasks
  BY DEF TypeOK, ToSet
<1>4. "next" \in WorkerStates
  BY DEF WorkerStates
<1>. QED
  BY <1>1, <1>2, <1>3, <1>4 DEF RunTask, TypeOK, queueVars

LEMMA WorkerLoopType ==
  ASSUME TypeOK, Step
  PROVE  TypeOK'
<1>1. {"next", "run", "report", "check", "quit", "done"} \subseteq WorkerStates
  BY DEF WorkerStates
<1>2. {"start", "success", "failure"} \subseteq Messages
  BY DEF Messages
<1>3. UNCHANGED <<started_, sessions_, api, target, db_disabled, loaded, intact, repairing, faults>>
  BY DEF Step, apiVars, dbVars
<1>4. CASE RunStart
  BY <1>1, <1>2, <1>3, <1>4 DEF RunStart, TypeOK, queueVars
<1>5. CASE NextTask
  <2>1. CASE pending_tasks_ # <<>>
    <3>1. Head(pending_tasks_) \in Tasks /\ Tail(pending_tasks_) \in Seq(Tasks)
      BY <2>1, HeadTailProperties DEF TypeOK
    <3>2. /\ current' = <<Head(pending_tasks_)>>
          /\ pending_tasks_' = Tail(pending_tasks_)
          /\ worker = "next" /\ worker' = "run"
          /\ UNCHANGED <<scheduled, maintenance_mode_, valid, failure, message, ran, failed>>
      BY <1>5, <2>1 DEF NextTask
    <3>3. current' \in Seq(Tasks) /\ current' # <<>> /\ Len(current') <= 1
      BY <3>1, <3>2
    <3>. QED
      BY <1>1, <1>3, <3>1, <3>2, <3>3 DEF TypeOK
  <2>2. CASE pending_tasks_ = <<>>
    BY <1>1, <1>3, <1>5, <2>2 DEF NextTask, TypeOK
  <2>. QED
    BY <2>1, <2>2
<1>6. CASE RunReport
  BY <1>1, <1>2, <1>3, <1>6 DEF RunReport, TypeOK, queueVars
<1>7. CASE RunCheck
  BY <1>1, <1>3, <1>7 DEF RunCheck, TypeOK, queueVars
<1>8. CASE RunReturn
  BY <1>1, <1>3, <1>8 DEF RunReturn, TypeOK, queueVars
<1>. QED
  BY <1>4, <1>5, <1>6, <1>7, <1>8 DEF Step, WorkerLoop

\* A running recovery task has a database; that it is one of Dbs is not needed
\* for the types.
LEMMA TaskType ==
  ASSUME TypeOK, MaintenanceTaskRun \/ RecoveryCheckLoaded \/ RecoveryRepair
  PROVE  TypeOK'
<1>1. CASE MaintenanceTaskRun
  <2>1. PICK success \in BOOLEAN : RunTask(success)
    BY <1>1 DEF MaintenanceTaskRun
  <2>. QED
    BY <1>1, <2>1, RunTaskType DEF MaintenanceTaskRun, TypeOK, apiVars, dbVars
<1>2. ASSUME NEW success \in BOOLEAN, NEW db, FinishRecovery(success, db),
             loaded' \in [Dbs -> BOOLEAN], intact' \in [Dbs -> BOOLEAN]
      PROVE  TypeOK'
  <2>1. RunTask(success)
    BY <1>2 DEF FinishRecovery
  <2>2. db_disabled' \in [Dbs -> BOOLEAN]
    BY <1>2 DEF FinishRecovery, TypeOK
  <2>. QED
    BY <1>2, <2>1, <2>2, RunTaskType DEF FinishRecovery, TypeOK, apiVars
<1>3. CASE RecoveryCheckLoaded
  <2>1. CASE loaded[CurrentDb]
    BY <1>2, <1>3, <2>1 DEF RecoveryCheckLoaded, TypeOK
  <2>2. CASE ~loaded[CurrentDb]
    BY <1>3, <2>2 DEF RecoveryCheckLoaded, TypeOK, deployerVars, queueVars, workVars, apiVars
  <2>. QED
    BY <2>1, <2>2
<1>4. CASE RecoveryRepair
  <2>1. [intact EXCEPT ![CurrentDb] = TRUE] \in [Dbs -> BOOLEAN]
    BY DEF TypeOK
  <2>2. [loaded EXCEPT ![CurrentDb] = (sessions_ # {})] \in [Dbs -> BOOLEAN]
    BY DEF TypeOK
  <2>3. \A moved \in BOOLEAN : [intact EXCEPT ![CurrentDb] = @ \/ moved] \in [Dbs -> BOOLEAN]
    BY DEF TypeOK
  <2>. QED
    <3>1. loaded \in [Dbs -> BOOLEAN]
      BY DEF TypeOK
    <3>2. PICK success \in BOOLEAN :
            /\ FinishRecovery(success, CurrentDb)
            /\ loaded' = loaded \/ loaded' = [loaded EXCEPT ![CurrentDb] = (sessions_ # {})]
            /\ \/ intact' = [intact EXCEPT ![CurrentDb] = TRUE]
               \/ \E moved \in BOOLEAN : intact' = [intact EXCEPT ![CurrentDb] = @ \/ moved]
      BY <1>4 DEF RecoveryRepair
    <3>3. loaded' \in [Dbs -> BOOLEAN] /\ intact' \in [Dbs -> BOOLEAN]
      BY <2>1, <2>2, <2>3, <3>1, <3>2
    <3>. QED
      BY <1>2, <3>2, <3>3
<1>. QED
  BY <1>1, <1>3, <1>4

\* Every reachable state is well typed, and the work thread holds a task
\* exactly while it runs one.
THEOREM TypeCorrect == Spec => []TypeOK
<1>1. Init => TypeOK
  BY InitType
<1>2. TypeOK /\ [Next]_vars => TypeOK'
  <2>. SUFFICES ASSUME TypeOK, [Next]_vars PROVE TypeOK'
    OBVIOUS
  <2>1. CASE UNCHANGED vars
    BY <2>1 DEF TypeOK, vars, deployerVars, queueVars, workVars, apiVars, dbVars
  <2>2. ASSUME NEW d \in Dbs, Fault(d) PROVE TypeOK'
    BY <2>2, TasksAssumption DEF Fault, TypeOK, deployerVars, queueVars, workVars, apiVars
  <2>. QED
    BY <2>1, <2>2, CallType, ScheduleType, StartWorkType, WorkerLoopType, TaskType
       DEF Next, Calls, ApiProgress, WorkThread
<1>. QED
  BY <1>1, <1>2, PTL DEF Spec

------------------------------------------------------------------------------
(* The queue *)

LEMMA AppendToQueue ==
  \A r, c, p \in Seq(Tasks), t \in Tasks : Append((r \o c) \o p, t) = (r \o c) \o Append(p, t)
<1>. SUFFICES ASSUME NEW r \in Seq(Tasks), NEW c \in Seq(Tasks), NEW p \in Seq(Tasks), NEW t \in Tasks
              PROVE  Append((r \o c) \o p, t) = (r \o c) \o Append(p, t)
  OBVIOUS
<1>1. r \o c \in Seq(Tasks) /\ <<t>> \in Seq(Tasks)
  BY ConcatProperties
<1>2. Append((r \o c) \o p, t) = ((r \o c) \o p) \o <<t>>
  BY <1>1, AppendIsConcat, ConcatProperties
<1>3. ((r \o c) \o p) \o <<t>> = (r \o c) \o (p \o <<t>>)
  BY <1>1, ConcatAssociative
<1>4. Append(p, t) = p \o <<t>>
  BY AppendIsConcat
<1>. QED
  BY <1>2, <1>3, <1>4

LEMMA HeadMoves ==
  ASSUME NEW S, NEW r \in Seq(S), NEW p \in Seq(S), p # <<>>
  PROVE  r \o <<>> \o p = r \o <<Head(p)>> \o Tail(p)
<1>1. Head(p) \in S /\ Tail(p) \in Seq(S) /\ <<Head(p)>> \in Seq(S)
  BY HeadTailProperties
<1>2. Len(p) \in Nat /\ Len(p) >= 1 /\ p = SubSeq(p, 1, Len(p))
  BY EmptySeq, LenProperties, SubSeqFull
<1>3. Head(p) = p[1] /\ Tail(p) = SubSeq(p, 2, Len(p))
  BY TailIsSubSeq
<1>4. p = <<Head(p)>> \o Tail(p)
  BY <1>2, <1>3, SubSeqRecursiveFirst
<1>5. (r \o <<Head(p)>>) \o Tail(p) = r \o (<<Head(p)>> \o Tail(p))
  BY <1>1, ConcatAssociative
<1>. QED
  BY <1>4, <1>5, ConcatEmptySeq

\* No task is lost, repeated or overtaken.
THEOREM QueueInOrder == Spec => []RunInOrder
<1>1. Init => RunInOrder
  <2>1. <<>> \in Seq(Tasks)
    BY EmptySeq
  <2>. QED
    BY <2>1, ConcatEmptySeq DEF Init, DeployerInit, RunInOrder
<1>2. TypeOK /\ RunInOrder /\ [Next]_vars => RunInOrder'
  <2>. SUFFICES ASSUME TypeOK, RunInOrder, [Next]_vars PROVE RunInOrder'
    OBVIOUS
  <2>1. CASE UNCHANGED <<scheduled, ran, current, pending_tasks_>>
    BY <2>1 DEF RunInOrder
  <2>2. CASE ApiSchedule
    <3>1. Head(api.todo) \in Tasks
      BY <2>2, HeadTailProperties DEF ApiSchedule, TypeOK
    <3>2. /\ scheduled' = Append(scheduled, Head(api.todo))
          /\ pending_tasks_' = Append(pending_tasks_, Head(api.todo))
          /\ current' = current /\ ran' = ran
      BY <2>2 DEF ApiSchedule, ScheduleTask, workVars
    <3>3. ran \in Seq(Tasks) /\ current \in Seq(Tasks) /\ pending_tasks_ \in Seq(Tasks)
      BY DEF TypeOK
    <3>4. Append((ran \o current) \o pending_tasks_, Head(api.todo))
            = (ran \o current) \o Append(pending_tasks_, Head(api.todo))
      BY <3>1, <3>3, AppendToQueue, ZenonT(60)
    <3>. QED
      BY <3>2, <3>4 DEF RunInOrder
  <2>3. CASE Step
    <3>1. CASE NextTask /\ pending_tasks_ # <<>>
      <4>1. current = <<>>
        BY <3>1 DEF NextTask, TypeOK
      <4>2. ran \o <<>> \o pending_tasks_ = ran \o <<Head(pending_tasks_)>> \o Tail(pending_tasks_)
        BY <3>1, HeadMoves DEF TypeOK
      <4>. QED
        BY <3>1, <4>1, <4>2 DEF NextTask, RunInOrder
    <3>. QED
      BY <2>1, <2>3, <3>1
         DEF Step, WorkerLoop, RunStart, NextTask, RunReport, RunCheck, RunReturn, queueVars
  <2>4. ASSUME NEW success, RunTask(success) PROVE RunInOrder'
    <3>1. (ran \o current) \o <<>> = ran \o current
      BY ConcatProperties, ConcatEmptySeq DEF TypeOK
    <3>. QED
      BY <2>4, <3>1 DEF RunTask, RunInOrder, queueVars
  <2>5. CASE MaintenanceTaskRun \/ RecoveryCheckLoaded \/ RecoveryRepair
    <3>1. CASE UNCHANGED deployerVars
      BY <2>1, <3>1 DEF deployerVars, queueVars, workVars
    <3>. QED
      BY <2>4, <2>5, <3>1
         DEF MaintenanceTaskRun, RecoveryCheckLoaded, RecoveryRepair, FinishRecovery
  <2>6. CASE ApiStartWork
    BY <2>1, <2>6 DEF ApiStartWork, StartWork, LaunchWork, deployerVars, queueVars, workVars
  <2>7. CASE Calls \/ (\E d \in Dbs : Fault(d)) \/ UNCHANGED vars
    BY <2>1, <2>7
       DEF Calls, StartService, Finalize, JoinWorkThread, CreateSession, DestroySession,
           BeginMaintenance, BeginSync, Load, Fault, vars, deployerVars, queueVars, workVars
  <2>. QED
    BY <2>2, <2>3, <2>5, <2>6, <2>7 DEF Next, ApiProgress, WorkThread
<1>. QED
  BY <1>1, <1>2, TypeCorrect, PTL DEF Spec

------------------------------------------------------------------------------
(* The maintenance mode *)

\* The mode is constant while a work thread works.
THEOREM ModeStable == Spec => ModeIsStable
<1>1. [Next]_vars => (IsWorking /\ IsWorking' => maintenance_mode_' = maintenance_mode_)
  <2>. SUFFICES ASSUME [Next]_vars, IsWorking PROVE maintenance_mode_' = maintenance_mode_
    OBVIOUS
  <2>1. CASE ApiStartWork
    BY <2>1 DEF ApiStartWork, StartWork, deployerVars
  <2>2. CASE ApiSchedule
    BY <2>2 DEF ApiSchedule, ScheduleTask
  <2>3. CASE WorkThread
    BY <2>3 DEF WorkThread, Step, WorkerLoop, RunStart, NextTask, RunReport, RunCheck, RunReturn,
       MaintenanceTaskRun, RecoveryCheckLoaded, RecoveryRepair, FinishRecovery, RunTask, deployerVars
  <2>4. CASE Calls \/ (\E d \in Dbs : Fault(d)) \/ UNCHANGED vars
    BY <2>4
       DEF Calls, StartService, Finalize, JoinWorkThread, CreateSession, DestroySession,
           BeginMaintenance, BeginSync, Load, Fault, vars, deployerVars
  <2>. QED
    BY <2>1, <2>2, <2>3, <2>4 DEF Next, ApiProgress
<1>. QED
  BY <1>1, PTL DEF Spec, ModeIsStable

------------------------------------------------------------------------------
(* The report *)

\* ReportIsTrue is not inductive: the counter must agree with the tasks that
\* failed at every moment, and the message with the counter from the report on.
ReportInv ==
  /\ failure <=> failed # {}
  /\ worker \in {"check", "quit"} => (message = "failure" <=> failure)

LEMMA NotEmptyToSet ==
  ASSUME NEW S, NEW s \in Seq(S), s # <<>>
  PROVE  ToSet(s) # {}
<1>1. Len(s) \in Nat /\ Len(s) # 0
  BY EmptySeq, LenProperties
<1>2. 1 \in 1..Len(s)
  BY <1>1
<1>. QED
  BY <1>2 DEF ToSet

LEMMA ReportInvInductive ==
  ASSUME TypeOK, ReportInv, [Next]_vars
  PROVE  ReportInv'
<1>1. CASE UNCHANGED <<failure, failed, worker, message>>
  BY <1>1 DEF ReportInv
<1>2. CASE ApiStartWork
  <2>1. CASE LaunchWork(api.op = "maintenance")
    BY <2>1 DEF LaunchWork, ReportInv
  <2>. QED
    BY <1>1, <1>2, <2>1 DEF ApiStartWork, StartWork, deployerVars, workVars
<1>3. CASE Finalize
  BY <1>3 DEF Finalize, JoinWorkThread, ReportInv
<1>4. CASE Step
  <2>1. CASE RunReport
    BY <2>1 DEF RunReport, ReportInv
  <2>2. CASE RunStart
    BY <2>2 DEF RunStart, ReportInv
  <2>3. CASE NextTask
    BY <2>3 DEF NextTask, ReportInv
  <2>4. CASE RunCheck
    BY <2>4 DEF RunCheck, ReportInv
  <2>5. CASE RunReturn
    BY <2>5 DEF RunReturn, ReportInv
  <2>. QED
    BY <1>4, <2>1, <2>2, <2>3, <2>4, <2>5 DEF Step, WorkerLoop
<1>5. ASSUME NEW success \in BOOLEAN, RunTask(success) PROVE ReportInv'
  <2>1. current \in Seq(Tasks) /\ current # <<>>
    BY <1>5 DEF RunTask, TypeOK
  <2>2. ToSet(current) # {}
    BY <2>1, NotEmptyToSet
  <2>. QED
    BY <1>5, <2>2 DEF RunTask, ReportInv
<1>6. CASE MaintenanceTaskRun \/ RecoveryCheckLoaded \/ RecoveryRepair
  <2>1. CASE UNCHANGED deployerVars
    BY <1>1, <2>1 DEF deployerVars, workVars
  <2>. QED
    BY <1>5, <1>6, <2>1
       DEF MaintenanceTaskRun, RecoveryCheckLoaded, RecoveryRepair, FinishRecovery
<1>7. CASE ApiSchedule \/ (Calls /\ ~Finalize) \/ (\E d \in Dbs : Fault(d)) \/ UNCHANGED vars
  BY <1>1, <1>7
     DEF ApiSchedule, ScheduleTask, Calls, StartService, CreateSession, DestroySession,
         BeginMaintenance, BeginSync, Load, Fault, vars, deployerVars, workVars
<1>. QED
  BY <1>2, <1>3, <1>4, <1>6, <1>7 DEF Next, ApiProgress, WorkThread

\* The last "deploy" message speaks of every task of the run.
THEOREM ReportTrue == Spec => []ReportIsTrue
<1>1. Init => ReportInv
  BY DEF Init, DeployerInit, ReportInv
<1>2. TypeOK /\ ReportInv /\ [Next]_vars => ReportInv'
  BY ReportInvInductive
<1>3. ReportInv => ReportIsTrue
  BY DEF ReportInv, ReportIsTrue
<1>. QED
  BY <1>1, <1>2, <1>3, TypeCorrect, PTL DEF Spec

------------------------------------------------------------------------------
(* A database is repaired only while it is closed: RepairIsExclusive for     *)
(* every number of databases, tasks and failures.                           *)
(*                                                                          *)
(* The argument follows a recovery task from the API call that creates it,   *)
(* through the queue, to the work thread.  As long as it is on its way its    *)
(* database is disabled, and it is the only one on its way for it.           *)

------------------------------------------------------------------------------
(* The elements of a queue *)

LEMMA SetOfEmpty == ToSet(<<>>) = {}
BY DEF ToSet

LEMMA SetOfOne == \A t : ToSet(<<t>>) = {t}
BY DEF ToSet

LEMMA SetOfAppend ==
  ASSUME NEW s \in Seq(Tasks), NEW t \in Tasks
  PROVE  ToSet(Append(s, t)) = ToSet(s) \cup {t}
<1> DEFINE a == Append(s, t)
<1>1. /\ Len(s) \in Nat /\ Len(a) = Len(s) + 1
      /\ \A i \in 1..Len(s) : a[i] = s[i]
      /\ a[Len(s) + 1] = t
  BY AppendProperties
<1>2. DOMAIN s = 1..Len(s) /\ DOMAIN a = 1..(Len(s) + 1)
  BY <1>1, AppendProperties, LenProperties
<1>. HIDE DEF a
<1>3. ToSet(a) = {a[i] : i \in 1..(Len(s) + 1)} /\ ToSet(s) = {s[i] : i \in 1..Len(s)}
  BY <1>1, <1>2 DEF ToSet
<1>. QED
  BY <1>1, <1>3 DEF a

LEMMA HeadAndTail ==
  ASSUME NEW s \in Seq(Tasks), s # <<>>
  PROVE  /\ Head(s) \in ToSet(s)
         /\ ToSet(s) = {Head(s)} \cup ToSet(Tail(s))
         /\ IsInjective(s) => Head(s) \notin ToSet(Tail(s)) /\ IsInjective(Tail(s))
<1> DEFINE r == Tail(s)
<1>1. /\ Len(s) \in Nat /\ Len(s) >= 1
      /\ DOMAIN s = 1..Len(s)
  BY EmptySeq, LenProperties
<1>2. /\ r \in Seq(Tasks) /\ Len(r) = Len(s) - 1
      /\ \A i \in 1..(Len(s) - 1) : r[i] = s[i + 1]
      /\ DOMAIN r = 1..(Len(s) - 1)
      /\ Head(s) = s[1]
  BY <1>1, HeadTailProperties, LenProperties
<1>. HIDE DEF r
<1>3. ToSet(s) = {s[i] : i \in 1..Len(s)} /\ ToSet(r) = {r[i] : i \in 1..(Len(s) - 1)}
  BY <1>1, <1>2 DEF ToSet
<1>4. \A i \in 2..Len(s) : i - 1 \in 1..(Len(s) - 1) /\ s[i] = r[i - 1]
  BY <1>1, <1>2
<1>5. ToSet(s) = {Head(s)} \cup ToSet(r)
  BY <1>1, <1>2, <1>3, <1>4
<1>6. ASSUME IsInjective(s) PROVE Head(s) \notin ToSet(r) /\ IsInjective(r)
  <2>1. \A i, j \in 1..Len(s) : s[i] = s[j] => i = j
    BY <1>1, <1>6 DEF IsInjective
  <2>. QED
    BY <1>1, <1>2, <1>3, <2>1 DEF IsInjective
<1>. QED
  BY <1>5, <1>6 DEF r

LEMMA InjectiveAppend ==
  ASSUME NEW s \in Seq(Tasks), NEW t \in Tasks, IsInjective(s), t \notin ToSet(s)
  PROVE  IsInjective(Append(s, t))
<1> DEFINE a == Append(s, t)
<1>1. /\ Len(s) \in Nat /\ Len(a) = Len(s) + 1
      /\ \A i \in 1..Len(s) : a[i] = s[i]
      /\ a[Len(s) + 1] = t
  BY AppendProperties
<1>2. DOMAIN s = 1..Len(s) /\ DOMAIN a = 1..(Len(s) + 1)
  BY <1>1, AppendProperties, LenProperties
<1>3. \A i \in 1..Len(s) : a[i] # t
  BY <1>1, <1>2 DEF ToSet
<1>. HIDE DEF a
<1>4. \A i, j \in 1..Len(s) : a[i] = a[j] => i = j
  BY <1>1, <1>2 DEF IsInjective
<1>5. \A i \in 1..(Len(s) + 1) : i \in 1..Len(s) \/ i = Len(s) + 1
  BY <1>1
<1>6. IsInjective(a)
  BY <1>1, <1>2, <1>3, <1>4, <1>5 DEF IsInjective
<1>. QED
  BY <1>6 DEF a

------------------------------------------------------------------------------
(* The inductive invariant *)

\* The tasks on their way: running, queued, or about to be scheduled.
Outstanding == ToSet(current) \cup ToSet(pending_tasks_) \cup ToSet(api.todo)

Recoveries == Outstanding \cap RecoveryTasks

NoDuplicates ==
  /\ IsInjective(pending_tasks_)
  /\ ToSet(current) \cap ToSet(pending_tasks_) = {}
  /\ ToSet(current) \cup ToSet(pending_tasks_) \subseteq ToSet(scheduled)
  /\ ToSet(api.todo) \cap RecoveryTasks \cap ToSet(scheduled) = {}
  /\ ToSet(api.todo) \cap RecoveryTasks # {} => Tail(api.todo) = <<>>

Targeted ==
  /\ \A t \in Recoveries : target[t] \in Dbs /\ db_disabled[target[t]]
  /\ \A t, u \in Recoveries : target[t] = target[u] => t = u
  /\ \A t \in RecoveryTasks : target[t] = NoDb => t \notin ToSet(scheduled)

RepairInv == repairing => worker = "run" /\ Recovering /\ ~loaded[CurrentDb]

RecoveryInv == NoDuplicates /\ Targeted /\ RepairInv

\* A running recovery task is the whole of current.
LEMMA CurrentTask ==
  ASSUME TypeOK, Recovering
  PROVE  /\ Head(current) \in RecoveryTasks
         /\ ToSet(current) = {Head(current)}
         /\ current # <<>>
<1>1. current \in Seq(Tasks) /\ current # <<>> /\ Len(current) <= 1
  BY DEF TypeOK, Recovering
<1>2. Len(Tail(current)) = Len(current) - 1 /\ Tail(current) \in Seq(Tasks) /\ Len(current) \in Nat
  BY <1>1, HeadTailProperties, LenProperties
<1>3. Len(current) # 0
  BY <1>1, EmptySeq
<1>4. Len(Tail(current)) = 0
  BY <1>1, <1>2, <1>3
<1>5. Tail(current) = <<>>
  BY <1>2, <1>4, EmptySeq
<1>6. ToSet(current) = {Head(current)}
  BY <1>1, <1>5, HeadAndTail, SetOfEmpty
<1>. QED
  BY <1>1, <1>6 DEF Recovering

LEMMA CurrentRecovery ==
  ASSUME TypeOK, RecoveryInv, Recovering
  PROVE  CurrentDb \in Dbs /\ db_disabled[CurrentDb]
<1>1. Head(current) \in Recoveries
  BY CurrentTask DEF Recoveries, Outstanding
<1>. QED
  BY <1>1 DEF RecoveryInv, Targeted, CurrentDb

\* A step that moves no task, takes no database and opens none.
LEMMA Undisturbed ==
  ASSUME TypeOK, RecoveryInv,
         UNCHANGED <<pending_tasks_, current, scheduled, worker, repairing, target, db_disabled>>,
         api'.todo = api.todo,
         loaded' = loaded \/ (\A d \in Dbs : ~loaded'[d])
  PROVE  RecoveryInv'
<1>1. Outstanding' = Outstanding /\ Recoveries' = Recoveries
  BY DEF Outstanding, Recoveries
<1>2. NoDuplicates'
  BY DEF RecoveryInv, NoDuplicates
<1>3. Targeted'
  BY <1>1 DEF RecoveryInv, Targeted
<1>4. repairing => CurrentDb \in Dbs
  BY CurrentRecovery DEF RecoveryInv, RepairInv
<1>5. RepairInv'
  BY <1>4 DEF RecoveryInv, RepairInv, Recovering, CurrentDb
<1>. QED
  BY <1>2, <1>3, <1>5 DEF RecoveryInv

\* Maintenance calls announce tasks that are new and recover nothing.
LEMMA MaintenanceKeeps ==
  ASSUME TypeOK, RecoveryInv, NEW b \in Batches, BeginMaintenance(b) \/ BeginSync(b)
  PROVE  RecoveryInv'
<1>1. api.todo = <<>> /\ api'.todo = b
  BY DEF BeginMaintenance, BeginSync, Idle
<1>2. ToSet(b) \cap RecoveryTasks = {}
  BY TasksAssumption DEF ToSet
<1>3. UNCHANGED <<pending_tasks_, current, scheduled, worker, repairing, target, db_disabled>>
  BY DEF BeginMaintenance, BeginSync, deployerVars, queueVars, workVars, dbVars
<1>4. loaded' = loaded \/ (\A d \in Dbs : ~loaded'[d])
  BY DEF BeginMaintenance, BeginSync, CloseUnused, dbVars
<1>5. Recoveries' = Recoveries
  BY <1>1, <1>2, <1>3, SetOfEmpty DEF Recoveries, Outstanding
<1>6. NoDuplicates'
  BY <1>1, <1>2, <1>3 DEF RecoveryInv, NoDuplicates
<1>7. Targeted'
  BY <1>3, <1>5 DEF RecoveryInv, Targeted
<1>8. repairing => CurrentDb \in Dbs
  BY CurrentRecovery DEF RecoveryInv, RepairInv
<1>9. RepairInv'
  BY <1>3, <1>4, <1>8 DEF RecoveryInv, RepairInv, Recovering, CurrentDb
<1>. QED
  BY <1>6, <1>7, <1>9 DEF RecoveryInv

\* A session opens no database that is being repaired, and hands over none
\* that was handed over before.
LEMMA LoadKeeps ==
  ASSUME TypeOK, RecoveryInv, NEW d \in Dbs, Load(d)
  PROVE  RecoveryInv'
<1>1. UNCHANGED <<pending_tasks_, current, scheduled, worker, repairing>>
  BY DEF Load, deployerVars, queueVars, workVars
<1>2. /\ api.todo = <<>>
      /\ ~db_disabled[d]
      /\ \A e \in Dbs \ {d} : loaded'[e] = loaded[e]
  BY DEF Load, OpenOrHandOver, Open, TypeOK, Idle
<1>3. \A t \in Recoveries : target[t] \in Dbs /\ target[t] # d /\ db_disabled[target[t]]
  BY <1>2 DEF RecoveryInv, Targeted
<1>4. repairing => CurrentDb \in Dbs \ {d} /\ Head(current) \in Recoveries
  BY <1>2, CurrentRecovery, CurrentTask DEF RecoveryInv, RepairInv, Recoveries, Outstanding
<1>5. CASE UNCHANGED <<api, target, db_disabled>>
  <2>1. NoDuplicates' /\ Recoveries' = Recoveries
    BY <1>1, <1>5 DEF RecoveryInv, NoDuplicates, Recoveries, Outstanding
  <2>2. Targeted'
    BY <1>1, <1>5, <2>1 DEF RecoveryInv, Targeted
  <2>3. RepairInv'
    BY <1>1, <1>2, <1>4, <1>5 DEF RecoveryInv, RepairInv, Recovering, CurrentDb
  <2>. QED
    BY <2>1, <2>2, <2>3 DEF RecoveryInv
<1>6. ASSUME NEW t \in RecoveryTasks, HandOver(d, t) PROVE RecoveryInv'
  <2>1. /\ target[t] = NoDb
        /\ target' = [target EXCEPT ![t] = d]
        /\ db_disabled' = [db_disabled EXCEPT ![d] = TRUE]
        /\ api'.todo = <<t>>
    BY <1>6 DEF HandOver
  <2>2. t \notin Recoveries /\ t \notin ToSet(scheduled)
    BY <1>3, <2>1, TasksAssumption DEF RecoveryInv, Targeted
  <2>3. Recoveries' = Recoveries \cup {t}
    BY <1>1, <1>2, <2>1, SetOfEmpty, SetOfOne DEF Recoveries, Outstanding
  <2>4. /\ target'[t] = d
        /\ \A u \in RecoveryTasks \ {t} : target'[u] = target[u]
        /\ db_disabled'[d]
        /\ \A e \in Dbs \ {d} : db_disabled'[e] = db_disabled[e]
    BY <2>1 DEF TypeOK
  <2>5. Tail(<<t>>) = <<>>
    OBVIOUS
  <2>6. NoDuplicates'
    BY <1>1, <2>1, <2>2, <2>5, SetOfOne DEF RecoveryInv, NoDuplicates
  <2>7. Targeted'
    <3>1. Recoveries \subseteq RecoveryTasks
      BY DEF Recoveries
    <3>2. \A u \in Recoveries : target'[u] = target[u] /\ target'[u] \in Dbs \ {d} /\ db_disabled'[target'[u]]
      BY <1>3, <2>2, <2>4, <3>1
    <3>3. \A u \in Recoveries' : target'[u] \in Dbs /\ db_disabled'[target'[u]]
      BY <2>3, <2>4, <3>2
    <3>4. \A u, v \in Recoveries' : target'[u] = target'[v] => u = v
      BY <2>3, <2>4, <3>2 DEF RecoveryInv, Targeted
    <3>5. \A u \in RecoveryTasks : target'[u] = NoDb => u \notin ToSet(scheduled)'
      BY <1>1, <2>2, <2>4 DEF RecoveryInv, Targeted
    <3>. QED
      BY <3>3, <3>4, <3>5 DEF Targeted
  <2>8. RepairInv'
    <3>1. repairing => CurrentDb' = CurrentDb
      BY <1>1, <1>4, <2>2, <2>4 DEF CurrentDb, Recoveries
    <3>. QED
      BY <1>1, <1>2, <1>4, <3>1 DEF RecoveryInv, RepairInv, Recovering
  <2>. QED
    BY <2>6, <2>7, <2>8 DEF RecoveryInv
<1>. QED
  BY <1>5, <1>6 DEF Load, OpenOrHandOver

\* A task moves from the call to the end of the queue.
LEMMA ScheduleKeeps ==
  ASSUME TypeOK, RecoveryInv, ApiSchedule
  PROVE  RecoveryInv'
<1> DEFINE t == Head(api.todo)
<1>1. /\ api.todo \in Seq(Tasks) /\ api.todo # <<>>
      /\ pending_tasks_ \in Seq(Tasks) /\ scheduled \in Seq(Tasks)
      /\ t \notin ToSet(scheduled)
      /\ pending_tasks_' = Append(pending_tasks_, t)
      /\ scheduled' = Append(scheduled, t)
      /\ api'.todo = Tail(api.todo)
      /\ UNCHANGED <<current, worker, repairing, target, db_disabled, loaded>>
  BY DEF TypeOK, ApiSchedule, ScheduleTask, workVars, dbVars
<1>2. t \in Tasks /\ ToSet(api.todo) = {t} \cup ToSet(Tail(api.todo))
  BY <1>1, HeadAndTail, HeadTailProperties
<1>3. /\ ToSet(pending_tasks_') = ToSet(pending_tasks_) \cup {t}
      /\ ToSet(scheduled') = ToSet(scheduled) \cup {t}
  BY <1>1, <1>2, SetOfAppend
<1>. HIDE DEF t
<1>4. Recoveries' = Recoveries
  BY <1>1, <1>2, <1>3 DEF Recoveries, Outstanding
<1>5. NoDuplicates'
  <2>1. t \notin ToSet(pending_tasks_) /\ t \notin ToSet(current)
    BY <1>1 DEF RecoveryInv, NoDuplicates
  <2>2. IsInjective(pending_tasks_')
    BY <1>1, <1>2, <2>1, InjectiveAppend DEF RecoveryInv, NoDuplicates
  <2>3. ToSet(Tail(api.todo)) \cap RecoveryTasks = {}
    <3>1. CASE ToSet(api.todo) \cap RecoveryTasks = {}
      BY <1>2, <3>1
    <3>2. CASE Tail(api.todo) = <<>>
      BY <3>2, SetOfEmpty
    <3>. QED
      BY <3>1, <3>2 DEF RecoveryInv, NoDuplicates
  <2>. QED
    BY <1>1, <1>3, <2>1, <2>2, <2>3 DEF RecoveryInv, NoDuplicates
<1>6. Targeted'
  <2>1. t \in RecoveryTasks => target[t] # NoDb
    <3>1. t \in RecoveryTasks => t \in Recoveries
      BY <1>2 DEF Recoveries, Outstanding
    <3>. QED
      BY <3>1, TasksAssumption DEF RecoveryInv, Targeted
  <2>. QED
    BY <1>1, <1>3, <1>4, <2>1 DEF RecoveryInv, Targeted
<1>7. RepairInv'
  BY <1>1 DEF RecoveryInv, RepairInv, Recovering, CurrentDb
<1>. QED
  BY <1>5, <1>6, <1>7 DEF RecoveryInv

\* A task moves from the queue to the work thread.
LEMMA NextTaskKeeps ==
  ASSUME TypeOK, RecoveryInv, NextTask, UNCHANGED <<apiVars, dbVars>>
  PROVE  RecoveryInv'
<1>1. /\ UNCHANGED <<scheduled, api, repairing, target, db_disabled, loaded>>
      /\ current = <<>> /\ worker = "next"
      /\ pending_tasks_ \in Seq(Tasks)
  BY DEF NextTask, TypeOK, apiVars, dbVars
<1>2. ~repairing
  BY <1>1 DEF RecoveryInv, RepairInv
<1>3. CASE pending_tasks_ = <<>>
  BY <1>1, <1>2, <1>3
     DEF NextTask, RecoveryInv, NoDuplicates, Targeted, RepairInv, Recoveries, Outstanding
<1>4. CASE pending_tasks_ # <<>>
  <2> DEFINE t == Head(pending_tasks_)
  <2>1. /\ current' = <<t>> /\ pending_tasks_' = Tail(pending_tasks_)
        /\ ToSet(pending_tasks_) = {t} \cup ToSet(pending_tasks_')
        /\ t \notin ToSet(pending_tasks_')
        /\ IsInjective(pending_tasks_')
    <3>1. current' = <<t>> /\ pending_tasks_' = Tail(pending_tasks_)
      BY <1>4 DEF NextTask
    <3>2. IsInjective(pending_tasks_)
      BY DEF RecoveryInv, NoDuplicates
    <3>3. /\ ToSet(pending_tasks_) = {t} \cup ToSet(Tail(pending_tasks_))
          /\ t \notin ToSet(Tail(pending_tasks_))
          /\ IsInjective(Tail(pending_tasks_))
      BY <1>1, <1>4, <3>2, HeadAndTail
    <3>. QED
      BY <3>1, <3>3
  <2>. HIDE DEF t
  <2>2. ToSet(current') = {t} /\ ToSet(current) = {}
    BY <1>1, <2>1, SetOfOne, SetOfEmpty
  <2>3. Recoveries' = Recoveries
    BY <1>1, <2>1, <2>2 DEF Recoveries, Outstanding
  <2>4. NoDuplicates'
    BY <1>1, <2>1, <2>2 DEF RecoveryInv, NoDuplicates
  <2>5. Targeted'
    BY <1>1, <2>3 DEF RecoveryInv, Targeted
  <2>6. RepairInv'
    BY <1>1, <1>2 DEF RepairInv
  <2>. QED
    BY <2>4, <2>5, <2>6 DEF RecoveryInv
<1>. QED
  BY <1>3, <1>4

\* A task that is no recovery leaves.
LEMMA MaintenanceTaskKeeps ==
  ASSUME TypeOK, RecoveryInv, MaintenanceTaskRun
  PROVE  RecoveryInv'
<1>1. /\ UNCHANGED <<pending_tasks_, scheduled, api, repairing, target, db_disabled, loaded>>
      /\ current' = <<>> /\ ~Recovering
  BY DEF MaintenanceTaskRun, RunTask, queueVars, apiVars, dbVars
<1>2. ~repairing
  BY <1>1 DEF RecoveryInv, RepairInv
<1>3. Recoveries' \subseteq Recoveries
  BY <1>1, SetOfEmpty DEF Recoveries, Outstanding
<1>4. NoDuplicates'
  BY <1>1, SetOfEmpty DEF RecoveryInv, NoDuplicates
<1>5. Targeted'
  BY <1>1, <1>3 DEF RecoveryInv, Targeted
<1>. QED
  BY <1>1, <1>2, <1>4, <1>5 DEF RecoveryInv, RepairInv

\* A recovery task leaves, and no other is on its way for its database.
LEMMA FinishKeeps ==
  ASSUME TypeOK, RecoveryInv, Recovering, NEW success, FinishRecovery(success, CurrentDb)
  PROVE  RecoveryInv'
<1> DEFINE t == Head(current)
<1>1. /\ UNCHANGED <<pending_tasks_, scheduled, api, target>>
      /\ current' = <<>> /\ ~repairing'
      /\ db_disabled' = [db_disabled EXCEPT ![target[t]] = FALSE]
  BY DEF FinishRecovery, RunTask, queueVars, apiVars, CurrentDb
<1>2. t \in RecoveryTasks /\ ToSet(current) = {t} /\ t \in Recoveries
  BY CurrentTask DEF Recoveries, Outstanding
<1>. HIDE DEF t
<1>3. Recoveries' \subseteq Recoveries \ {t}
  BY <1>1, <1>2, SetOfEmpty DEF Recoveries, Outstanding, RecoveryInv, NoDuplicates
<1>4. \A u \in Recoveries' : target[u] \in Dbs /\ target[u] # target[t] /\ db_disabled[target[u]]
  BY <1>2, <1>3 DEF RecoveryInv, Targeted
<1>5. \A u \in Recoveries' : db_disabled'[target[u]]
  BY <1>1, <1>4 DEF TypeOK
<1>6. Targeted'
  BY <1>1, <1>3, <1>4, <1>5 DEF RecoveryInv, Targeted
<1>7. NoDuplicates'
  BY <1>1, SetOfEmpty DEF RecoveryInv, NoDuplicates
<1>. QED
  BY <1>1, <1>6, <1>7 DEF RecoveryInv, RepairInv

LEMMA RecoveryKeeps ==
  ASSUME TypeOK, RecoveryInv, RecoveryCheckLoaded \/ RecoveryRepair
  PROVE  RecoveryInv'
<1>1. Recovering
  BY DEF RecoveryCheckLoaded, RecoveryInv, RepairInv, RecoveryRepair
<1>2. CASE RecoveryCheckLoaded /\ ~loaded[CurrentDb]
  <2>1. UNCHANGED <<pending_tasks_, current, scheduled, worker, api, target, db_disabled, loaded>>
    BY <1>2 DEF RecoveryCheckLoaded, deployerVars, queueVars, workVars, apiVars
  <2>2. NoDuplicates' /\ Recoveries' = Recoveries
    BY <2>1 DEF RecoveryInv, NoDuplicates, Recoveries, Outstanding
  <2>3. Targeted'
    BY <2>1, <2>2 DEF RecoveryInv, Targeted
  <2>4. worker = "run"
    BY <1>2 DEF RecoveryCheckLoaded
  <2>5. RepairInv'
    BY <1>1, <1>2, <2>1, <2>4 DEF RepairInv, Recovering, CurrentDb
  <2>. QED
    BY <2>2, <2>3, <2>5 DEF RecoveryInv
<1>3. CASE \E success : FinishRecovery(success, CurrentDb)
  BY <1>1, <1>3, FinishKeeps
<1>. QED
  BY <1>2, <1>3 DEF RecoveryCheckLoaded, RecoveryRepair

LEMMA RecoveryInvInductive ==
  ASSUME TypeOK, RecoveryInv, [Next]_vars
  PROVE  RecoveryInv'
<1>1. CASE Calls
  <2>1. CASE StartService \/ \E s \in Sessions : CreateSession(s)
    BY <2>1, Undisturbed DEF StartService, CreateSession, deployerVars, queueVars, workVars, dbVars
  <2>2. ASSUME NEW s \in Sessions, DestroySession(s) PROVE RecoveryInv'
    <3>1. loaded' = loaded \/ (\A d \in Dbs : ~loaded'[d])
      BY <2>2 DEF DestroySession, CloseUnused
    <3>. QED
      BY <2>2, <3>1, Undisturbed DEF DestroySession, deployerVars, queueVars, workVars
  <2>3. CASE Finalize
    <3>1. ~repairing
      BY <2>3 DEF RecoveryInv, RepairInv, Finalize, JoinWorkThread, IsWorking, TypeOK
    <3>2. /\ UNCHANGED <<pending_tasks_, current, scheduled, api, repairing, target, db_disabled>>
      BY <2>3 DEF Finalize, JoinWorkThread, queueVars
    <3>3. NoDuplicates' /\ Recoveries' = Recoveries
      BY <3>2 DEF RecoveryInv, NoDuplicates, Recoveries, Outstanding
    <3>4. Targeted'
      BY <3>2, <3>3 DEF RecoveryInv, Targeted
    <3>. QED
      BY <3>1, <3>2, <3>3, <3>4 DEF RecoveryInv, RepairInv
  <2>. QED
    BY <1>1, <2>1, <2>2, <2>3, MaintenanceKeeps, LoadKeeps DEF Calls
<1>2. CASE ApiStartWork
  <2>1. /\ UNCHANGED <<pending_tasks_, current, scheduled, repairing, target, db_disabled, loaded>>
        /\ api.todo = <<>> /\ api'.todo = <<>>
    BY <1>2 DEF ApiStartWork, StartWork, LaunchWork, Idle, deployerVars, queueVars, workVars, dbVars
  <2>2. worker' = worker \/ ~IsWorking
    BY <1>2 DEF ApiStartWork, StartWork, deployerVars, workVars
  <2>3. NoDuplicates' /\ Recoveries' = Recoveries
    BY <2>1 DEF RecoveryInv, NoDuplicates, Recoveries, Outstanding
  <2>4. Targeted'
    BY <2>1, <2>3 DEF RecoveryInv, Targeted
  <2>5. RepairInv'
    BY <2>1, <2>2 DEF RecoveryInv, RepairInv, Recovering, CurrentDb, IsWorking, TypeOK
  <2>. QED
    BY <2>3, <2>4, <2>5 DEF RecoveryInv
<1>3. CASE Step
  <2>1. CASE NextTask
    BY <1>3, <2>1, NextTaskKeeps DEF Step
  <2>2. CASE RunStart \/ RunReport \/ RunCheck \/ RunReturn
    <3>1. /\ UNCHANGED <<pending_tasks_, current, scheduled, api, repairing, target, db_disabled, loaded>>
          /\ worker # "run"
      BY <1>3, <2>2 DEF Step, RunStart, RunReport, RunCheck, RunReturn, queueVars, apiVars, dbVars
    <3>2. NoDuplicates' /\ Recoveries' = Recoveries
      BY <3>1 DEF RecoveryInv, NoDuplicates, Recoveries, Outstanding
    <3>3. Targeted'
      BY <3>1, <3>2 DEF RecoveryInv, Targeted
    <3>. QED
      BY <3>1, <3>2, <3>3 DEF RecoveryInv, RepairInv
  <2>. QED
    BY <1>3, <2>1, <2>2 DEF Step, WorkerLoop
<1>4. CASE (\E d \in Dbs : Fault(d)) \/ UNCHANGED vars
  BY <1>4, Undisturbed DEF Fault, vars, deployerVars, queueVars, workVars, apiVars, dbVars
<1>. QED
  BY <1>1, <1>2, <1>3, <1>4, ScheduleKeeps, MaintenanceTaskKeeps, RecoveryKeeps
     DEF Next, ApiProgress, WorkThread

\* The files of a database are repaired, renamed or removed only while it is
\* closed and disabled, for every number of databases, tasks and failures.
THEOREM RepairExclusive == Spec => []RepairIsExclusive
<1>1. Init => RecoveryInv
  <2>. SUFFICES ASSUME Init PROVE RecoveryInv
    OBVIOUS
  <2>1. /\ current = <<>> /\ pending_tasks_ = <<>> /\ scheduled = <<>>
        /\ api.todo = <<>> /\ ~repairing
    BY DEF Init, DeployerInit, Idle
  <2>2. Recoveries = {}
    BY <2>1, SetOfEmpty DEF Recoveries, Outstanding
  <2>3. IsInjective(<<>>)
    BY DEF IsInjective
  <2>. QED
    BY <2>1, <2>2, <2>3, SetOfEmpty DEF RecoveryInv, NoDuplicates, Targeted, RepairInv
<1>2. TypeOK /\ RecoveryInv /\ [Next]_vars => RecoveryInv'
  BY RecoveryInvInductive
<1>3. TypeOK /\ RecoveryInv => RepairIsExclusive
  BY CurrentRecovery DEF RecoveryInv, RepairInv, RepairIsExclusive
<1>. QED
  BY <1>1, <1>2, <1>3, TypeCorrect, PTL DEF Spec
=============================================================================
