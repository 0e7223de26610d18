------------------------------ MODULE Service -------------------------------
(***************************************************************************)
(* librime's Service (rime/service.cc) over its Deployer: the sessions, the *)
(* API calls that schedule maintenance (rime_api_impl.h) and the user       *)
(* dictionaries, which hand a database that does not open to the work       *)
(* thread for recovery (dict/user_dictionary.cc, user_db_recovery_task.cc). *)
(***************************************************************************)
EXTENDS Deployer

CONSTANTS
  Sessions,        \* session ids; 0 is kInvalidSessionId
  Dbs,             \* the user databases of the loaded schema
  RecoveryTasks,   \* the task objects Load may create
  Batches,         \* sequences of maintenance tasks, one per API call
  NoDb,
  MaxFaults        \* bound: how often a database file may go bad

ASSUME TasksAssumption ==
  /\ RecoveryTasks \subseteq Tasks
  /\ \A b \in Batches : b \in Seq(Tasks \ RecoveryTasks)
  /\ NoDb \notin Dbs
  /\ MaxFaults \in Nat

VARIABLES
  started_,     \* Service::started_
  sessions_,    \* keys of Service::sessions_
  api,          \* the API call in progress
  target,       \* the database each recovery task was created for
  db_disabled,  \* Db::disabled_ of each database
  loaded,       \* Db::loaded_
  intact,       \* the files open without repair
  repairing,    \* the work thread is past the loaded() check of the task
  faults

apiVars == <<started_, sessions_, api>>
dbVars  == <<target, db_disabled, loaded, intact, repairing>>
vars    == <<deployerVars, apiVars, dbVars, faults>>

ApiOps == {"idle", "maintenance", "recovery"}

Idle == [op |-> "idle", todo |-> <<>>]

Init ==
  /\ DeployerInit
  /\ started_ = FALSE
  /\ sessions_ = {}
  /\ api = Idle
  /\ target = [t \in RecoveryTasks |-> NoDb]
  /\ db_disabled = [d \in Dbs |-> FALSE]
  /\ loaded = [d \in Dbs |-> FALSE]
  /\ intact = [d \in Dbs |-> TRUE]
  /\ repairing = FALSE
  /\ faults = 0

\* Service::disabled()
Disabled == ~started_ \/ IsMaintenanceMode

\* The databases are shared by the sessions: the last one to go closes them.
CloseUnused(sessions) ==
  loaded' = IF sessions = {} THEN [d \in Dbs |-> FALSE] ELSE loaded

------------------------------------------------------------------------------
(* API calls that finish in one step *)

StartService ==
  /\ api = Idle
  /\ started_' = TRUE
  /\ UNCHANGED <<deployerVars, sessions_, api, dbVars, faults>>

\* RimeFinalize: wait for the work thread, then drop every session.
Finalize ==
  /\ api = Idle
  /\ started_
  /\ JoinWorkThread
  /\ started_' = FALSE
  /\ sessions_' = {}
  /\ CloseUnused({})
  /\ UNCHANGED <<api, target, db_disabled, intact, repairing, faults>>

CreateSession(s) ==
  /\ api = Idle
  /\ ~Disabled
  /\ sessions_' = sessions_ \cup {s}
  /\ UNCHANGED <<deployerVars, started_, api, dbVars, faults>>

DestroySession(s) ==
  /\ api = Idle
  /\ s \in sessions_
  /\ sessions_' = sessions_ \ {s}
  /\ CloseUnused(sessions_ \ {s})
  /\ UNCHANGED <<deployerVars, started_, api, target, db_disabled, intact, repairing, faults>>

------------------------------------------------------------------------------
(* API calls that schedule work: the queue is visible to the work thread   *)
(* between their steps.                                                    *)

Unscheduled(batch) == ToSet(batch) \cap ToSet(scheduled) = {}

\* RimeStartMaintenance(full_check): three tasks, then StartMaintenance.
BeginMaintenance(batch) ==
  /\ api = Idle
  /\ Unscheduled(batch)
  /\ api' = [op |-> "maintenance", todo |-> batch]
  /\ UNCHANGED <<deployerVars, started_, sessions_, dbVars, faults>>

\* RimeSyncUserData: the sessions are dropped first.
BeginSync(batch) ==
  /\ api = Idle
  /\ Unscheduled(batch)
  /\ sessions_' = {}
  /\ CloseUnused({})
  /\ api' = [op |-> "maintenance", todo |-> batch]
  /\ UNCHANGED <<deployerVars, started_, target, db_disabled, intact, repairing, faults>>

\* An intact file may still be locked by another process.
Open(db, success) ==
  /\ success => intact[db]
  /\ loaded' = [loaded EXCEPT ![db] = success]

\* UserDictionary::Load returned false and handed the database over:
\* creating the task disables the database.
HandOver(db, t) ==
  /\ target[t] = NoDb
  /\ target' = [target EXCEPT ![t] = db]
  /\ db_disabled' = [db_disabled EXCEPT ![db] = TRUE]
  /\ api' = [op |-> "recovery", todo |-> <<t>>]

\* Opening fails: the database is handed over unless a thread is working.
OpenOrHandOver(db) ==
  \/ /\ Open(db, TRUE)
     /\ UNCHANGED <<api, target, db_disabled>>
  \/ /\ Open(db, FALSE)
     /\ IF ~IsWorking
        THEN \E t \in RecoveryTasks : HandOver(db, t)
        ELSE UNCHANGED <<api, target, db_disabled>>

\* Mutant: whether the database is disabled is not asked.
LoadDisabled(db) ==
  /\ api = Idle
  /\ sessions_ # {}
  /\ ~Disabled
  /\ ~loaded[db]
  /\ OpenOrHandOver(db)
  /\ UNCHANGED <<deployerVars, started_, sessions_, intact, repairing, faults>>

\* UserDictionary::Load, called when a session's engine is built.
Load(db) ==
  /\ api = Idle
  /\ sessions_ # {}
  /\ ~Disabled
  /\ ~db_disabled[db]
  /\ ~loaded[db]
  /\ OpenOrHandOver(db)
  /\ UNCHANGED <<deployerVars, started_, sessions_, intact, repairing, faults>>

ApiSchedule ==
  /\ api.todo # <<>>
  /\ ScheduleTask(Head(api.todo))
  /\ api' = [api EXCEPT !.todo = Tail(@)]
  /\ UNCHANGED <<started_, sessions_, dbVars, faults>>

ApiStartWork ==
  /\ api.op # "idle"
  /\ api.todo = <<>>
  /\ StartWork(api.op = "maintenance")
  /\ api' = Idle
  /\ UNCHANGED <<started_, sessions_, dbVars, faults>>

------------------------------------------------------------------------------
(* The work thread *)

Recovering == current # <<>> /\ ToSet(current) \subseteq RecoveryTasks

CurrentDb == target[Head(current)]

Step == WorkerLoop /\ UNCHANGED <<apiVars, dbVars, faults>>

MaintenanceTaskRun ==
  /\ worker = "run"
  /\ ~Recovering
  /\ \E success \in BOOLEAN : RunTask(success)
  /\ UNCHANGED <<apiVars, dbVars, faults>>

\* Mutant: the database is enabled only when the recovery has succeeded.
FinishRecoveryIfDone(success, db) ==
  /\ RunTask(success)
  /\ db_disabled' = [db_disabled EXCEPT ![db] = ~success]
  /\ repairing' = FALSE
  /\ UNCHANGED <<apiVars, target, faults>>

\* The end of UserDbRecoveryTask::Run, whatever the exit: BOOST_SCOPE_EXIT
\* enables the database.
FinishRecovery(success, db) ==
  /\ RunTask(success)
  /\ db_disabled' = [db_disabled EXCEPT ![db] = FALSE]
  /\ repairing' = FALSE
  /\ UNCHANGED <<apiVars, target, faults>>

RecoveryCheckLoaded ==
  /\ worker = "run"
  /\ Recovering
  /\ ~repairing
  /\ IF loaded[CurrentDb]
     THEN /\ FinishRecovery(FALSE, CurrentDb)
          /\ UNCHANGED <<loaded, intact>>
     ELSE /\ repairing' = TRUE
          /\ UNCHANGED <<deployerVars, apiVars, target, db_disabled, loaded, intact, faults>>

\* RepairDB succeeds, or the file is replaced by a new one that is opened
\* and refilled from the snapshot, or neither is possible; the bad file may
\* have been moved away before that.
RecoveryRepair ==
  /\ repairing
  /\ \/ /\ FinishRecovery(TRUE, CurrentDb)
        /\ intact' = [intact EXCEPT ![CurrentDb] = TRUE]
        /\ UNCHANGED loaded
     \/ /\ FinishRecovery(TRUE, CurrentDb)
        /\ intact' = [intact EXCEPT ![CurrentDb] = TRUE]
        /\ loaded' = [loaded EXCEPT ![CurrentDb] = (sessions_ # {})]
     \/ /\ FinishRecovery(FALSE, CurrentDb)
        /\ \E moved \in BOOLEAN : intact' = [intact EXCEPT ![CurrentDb] = @ \/ moved]
        /\ UNCHANGED loaded

\* The environment: the files of a database that is not open go bad.
Fault(db) ==
  /\ faults < MaxFaults
  /\ ~loaded[db]
  /\ intact[db]
  /\ intact' = [intact EXCEPT ![db] = FALSE]
  /\ faults' = faults + 1
  /\ UNCHANGED <<deployerVars, apiVars, target, db_disabled, loaded, repairing>>

------------------------------------------------------------------------------
Calls ==
  \/ StartService
  \/ Finalize
  \/ \E s \in Sessions : CreateSession(s) \/ DestroySession(s)
  \/ \E b \in Batches : BeginMaintenance(b) \/ BeginSync(b)
  \/ \E d \in Dbs : Load(d)

ApiProgress == ApiSchedule \/ ApiStartWork

WorkThread == Step \/ MaintenanceTaskRun \/ RecoveryCheckLoaded \/ RecoveryRepair

Next ==
  \/ Calls
  \/ ApiProgress
  \/ WorkThread
  \/ \E d \in Dbs : Fault(d)

\* A call that has begun goes on and the work thread is scheduled: it is a
\* thread of the process and a task terminates.  Nobody has to call again.
Fairness == WF_vars(ApiProgress) /\ WF_vars(WorkThread)

Spec == Init /\ [][Next]_vars

FairSpec == Spec /\ Fairness

------------------------------------------------------------------------------
(* Properties *)

TypeOK ==
  /\ pending_tasks_ \in Seq(Tasks)
  /\ maintenance_mode_ \in BOOLEAN
  /\ valid \in BOOLEAN
  /\ worker \in WorkerStates
  /\ current \in Seq(Tasks)
  /\ valid <=> worker # "none"
  /\ worker = "run" <=> current # <<>>
  /\ Len(current) <= 1
  /\ failure \in BOOLEAN
  /\ message \in Messages
  /\ scheduled \in Seq(Tasks)
  /\ ran \in Seq(Tasks)
  /\ failed \in SUBSET Tasks
  /\ started_ \in BOOLEAN
  /\ sessions_ \in SUBSET Sessions
  /\ api \in [op : ApiOps, todo : Seq(Tasks)]
  /\ target \in [RecoveryTasks -> Dbs \cup {NoDb}]
  /\ db_disabled \in [Dbs -> BOOLEAN]
  /\ loaded \in [Dbs -> BOOLEAN]
  /\ intact \in [Dbs -> BOOLEAN]
  /\ repairing \in BOOLEAN
  /\ faults \in 0..MaxFaults

\* The queue (deployer.cc:56-71, 84-95) loses, repeats and reorders nothing:
\* what was scheduled is what has run, then the running task, then the queue.
RunInOrder == scheduled = ran \o current \o pending_tasks_

\* The "deploy" message a work thread leaves behind (deployer.cc:98) speaks
\* of all its tasks, also of those before the last pass of the loop.
ReportIsTrue ==
  worker = "quit" => (message = "failure" <=> failed # {})

\* The mode cannot change under a working thread (deployer.cc:105-110): the
\* sessions stay locked out for all of a maintenance, and are not locked out
\* in the middle of a recovery.
ModeIsStable ==
  [][IsWorking /\ IsWorking' => maintenance_mode_' = maintenance_mode_]_vars

\* The files of a database are repaired, renamed or removed only while it is
\* closed (user_db_recovery_task.cc:32-45): a session cannot open it in
\* between, because it is disabled (user_dictionary.cc:169).
RepairIsExclusive ==
  repairing => ~loaded[CurrentDb] /\ db_disabled[CurrentDb]

\* A database that was disabled for recovery is enabled again: the recovery
\* task is never left in a queue that nobody serves (user_dictionary.cc:175).
DisabledDbComesBack ==
  \A d \in Dbs : db_disabled[d] ~> ~db_disabled[d]

\* deployer.cc:99-100, "new tasks could have been enqueued while we were
\* sending the message. before quitting, double check if there is nothing
\* left to do": when the thread has quit and no call is in progress, the
\* queue is empty.
NothingLeftToDo ==
  worker = "done" /\ api = Idle => pending_tasks_ = <<>>
=============================================================================
