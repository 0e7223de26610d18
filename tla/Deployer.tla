------------------------------ MODULE Deployer ------------------------------
(***************************************************************************)
(* The deployment work queue of librime (rime/deployer.cc): a queue of     *)
(* tasks under a mutex, and at most one work thread, started by the thread *)
(* that calls the API, that runs the tasks and then quits.                 *)
(*                                                                         *)
(* One API thread is modelled: the frontend serialises its calls           *)
(* (WeaselServerImpl.cpp, g_api_mutex).  StartWork is one step: either it  *)
(* sees a running work thread and returns, or no work thread runs and      *)
(* nothing can interleave with the rest of it.  The work thread takes a    *)
(* step for every mutex section, every task and every message it sends.    *)
(***************************************************************************)
EXTENDS Integers, FiniteSets, SequencesExt

CONSTANT Tasks   \* the task objects; every one is scheduled at most once

VARIABLES
  pending_tasks_,     \* the queue
  maintenance_mode_,  \* the flag StartWork sets
  valid,              \* work_.valid(): there is a future to wait for
  worker,             \* where the work thread is in Deployer::Run
  current,            \* the task being run: <<>> or <<t>>
  failure,            \* "failure > 0" in this Run
  message,            \* the last "deploy" message that was sent
  scheduled,          \* history: tasks in the order they were scheduled
  ran,                \* history: tasks in the order they finished
  failed              \* history: tasks that failed in the current Run

queueVars == <<pending_tasks_, scheduled>>
workVars  == <<worker, current, failure, message, ran, failed>>
deployerVars == <<queueVars, maintenance_mode_, valid, workVars>>

WorkerStates == {"none", "start", "next", "run", "report", "check", "quit", "done"}
Messages     == {"none", "start", "success", "failure"}

DeployerInit ==
  /\ pending_tasks_ = <<>>
  /\ maintenance_mode_ = FALSE
  /\ valid = FALSE
  /\ worker = "none"
  /\ current = <<>>
  /\ failure = FALSE
  /\ message = "none"
  /\ scheduled = <<>>
  /\ ran = <<>>
  /\ failed = {}

\* The future is not ready until the thread function has returned.
IsWorking == valid /\ worker # "done"

IsMaintenanceMode == maintenance_mode_ /\ IsWorking

------------------------------------------------------------------------------
(* The API thread *)

\* Mutant: the task overtakes those that wait.
ScheduleTaskFirst(t) ==
  /\ t \notin ToSet(scheduled)
  /\ pending_tasks_' = <<t>> \o pending_tasks_
  /\ scheduled' = Append(scheduled, t)
  /\ UNCHANGED <<maintenance_mode_, valid, workVars>>

ScheduleTask(t) ==
  /\ t \notin ToSet(scheduled)
  /\ pending_tasks_' = Append(pending_tasks_, t)
  /\ scheduled' = Append(scheduled, t)
  /\ UNCHANGED <<maintenance_mode_, valid, workVars>>

\* std::async: a new thread enters Run, replacing a finished one.
LaunchWork(maintenance_mode) ==
  /\ maintenance_mode_' = maintenance_mode
  /\ valid' = TRUE
  /\ worker' = "start"
  /\ failure' = FALSE
  /\ failed' = {}
  /\ UNCHANGED <<queueVars, current, message, ran>>

\* Mutant: the mode is set before it is known whether a thread is working.
StartWorkSetsMode(maintenance_mode) ==
  \/ /\ IsWorking
     /\ maintenance_mode_' = maintenance_mode
     /\ UNCHANGED <<queueVars, valid, workVars>>
  \/ /\ ~IsWorking
     /\ LaunchWork(maintenance_mode)

\* Refused while a thread is working; the mode is set even when there is
\* nothing to do and no thread is started.
StartWork(maintenance_mode) ==
  \/ /\ IsWorking
     /\ UNCHANGED deployerVars
  \/ /\ ~IsWorking
     /\ pending_tasks_ = <<>>
     /\ maintenance_mode_' = maintenance_mode
     /\ UNCHANGED <<queueVars, valid, workVars>>
  \/ /\ ~IsWorking
     /\ pending_tasks_ # <<>>
     /\ LaunchWork(maintenance_mode)

\* work_.get() blocks until the thread is done and gives up the future.
JoinWorkThread ==
  /\ ~IsWorking
  /\ valid' = FALSE
  /\ worker' = "none"
  /\ UNCHANGED <<queueVars, maintenance_mode_, current, failure, message, ran, failed>>

------------------------------------------------------------------------------
(* The work thread: Deployer::Run *)

RunStart ==
  /\ worker = "start"
  /\ message' = "start"
  /\ worker' = "next"
  /\ UNCHANGED <<queueVars, maintenance_mode_, valid, current, failure, ran, failed>>

\* Mutant: the queue is not looked at before a task is run.
NextTaskUnchecked ==
  /\ worker = "next"
  /\ worker' = "run"
  /\ IF pending_tasks_ # <<>>
     THEN /\ current' = <<Head(pending_tasks_)>>
          /\ pending_tasks_' = Tail(pending_tasks_)
     ELSE UNCHANGED <<current, pending_tasks_>>
  /\ UNCHANGED <<scheduled, maintenance_mode_, valid, failure, message, ran, failed>>

NextTask ==
  /\ worker = "next"
  /\ IF pending_tasks_ # <<>>
     THEN /\ current' = <<Head(pending_tasks_)>>
          /\ pending_tasks_' = Tail(pending_tasks_)
          /\ worker' = "run"
     ELSE /\ worker' = "report"
          /\ UNCHANGED <<current, pending_tasks_>>
  /\ UNCHANGED <<scheduled, maintenance_mode_, valid, failure, message, ran, failed>>

\* Mutant: only the last task decides what is reported.
RunTaskLastCounts(success) ==
  /\ worker = "run"
  /\ ran' = ran \o current
  /\ current' = <<>>
  /\ failure' = ~success
  /\ failed' = IF success THEN failed ELSE failed \cup ToSet(current)
  /\ worker' = "next"
  /\ UNCHANGED <<queueVars, maintenance_mode_, valid, message>>

\* A task returns true, returns false or throws; the last two both count as
\* a failure and do not stop the loop.
RunTask(success) ==
  /\ worker = "run"
  /\ ran' = ran \o current
  /\ current' = <<>>
  /\ failure' = (failure \/ ~success)
  /\ failed' = IF success THEN failed ELSE failed \cup ToSet(current)
  /\ worker' = "next"
  /\ UNCHANGED <<queueVars, maintenance_mode_, valid, message>>

RunReport ==
  /\ worker = "report"
  /\ message' = IF failure THEN "failure" ELSE "success"
  /\ worker' = "check"
  /\ UNCHANGED <<queueVars, maintenance_mode_, valid, current, failure, ran, failed>>

\* HasPendingTasks, the double check before quitting.
RunCheck ==
  /\ worker = "check"
  /\ worker' = IF pending_tasks_ # <<>> THEN "next" ELSE "quit"
  /\ UNCHANGED <<queueVars, maintenance_mode_, valid, current, failure, message, ran, failed>>

\* Run returns and the shared state becomes ready.
RunReturn ==
  /\ worker = "quit"
  /\ worker' = "done"
  /\ UNCHANGED <<queueVars, maintenance_mode_, valid, current, failure, message, ran, failed>>

\* Everything the work thread does, the task itself apart.
WorkerLoop == RunStart \/ NextTask \/ RunReport \/ RunCheck \/ RunReturn
=============================================================================
