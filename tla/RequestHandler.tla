--------------------------- MODULE RequestHandler ---------------------------
(***************************************************************************)
(* The request handler of the Weasel server (RimeWithWeasel.cpp): the IPC   *)
(* session ids it hands out, the rime sessions behind them and the flag      *)
(* that keeps it off rime while the deployer works.  Requests come one at a  *)
(* time (g_api_mutex).  The window thread finalizes without that mutex and   *)
(* other processes take no notice of it: a request that starts rime or makes *)
(* a session has steps of its own (job), and so has Finalize.                *)
(***************************************************************************)
EXTENDS Naturals, FiniteSets, FiniteSetsExt, Functions

CONSTANTS
  Clients,      \* text services, one per application
  Deployer,     \* the deployer process
  MaxSessions,  \* bound: sessions rime has at a time
  MaxIpcId,     \* bound: the last id handed out while rime is off
  Bases         \* m_pid of a server process, scaled; two may coincide

Peers == Clients \cup {Deployer}

Server == "server"                       \* as the holder of a handle

ASSUME HandlerAssumption ==
  /\ Deployer \notin Clients /\ Server \notin Peers
  /\ MaxSessions \in Nat /\ MaxIpcId \in Nat
  /\ Bases \subseteq Nat /\ Bases # {}

VARIABLES
  m_pid,
  m_disabled,
  m_session_status_map,   \* IPC session id -> rime session
  rime,                   \* rime's service is started
  sessions,               \* rime's sessions, with the client each was made for
  modified,               \* the user's configuration awaits deployment
  mutex,                  \* the processes with a handle on WeaselDeployerMutex
  job,                    \* the request that starts rime or makes a session
  mail,                   \* the pipe of each peer: nothing, a request or its answer
  current,                \* clients whose id was handed out since the map was last cleared
  stale_hit               \* an older id has met a live session

rimeVars    == <<rime, sessions, modified>>
handlerVars == <<m_pid, m_disabled, m_session_status_map, rimeVars, mutex, job, mail, current, stale_hit>>

\* Rime's session ids are addresses.
RimeIds   == 1 .. MaxSessions
NoSession == 0   \* kInvalidSessionId, also the session of a fresh map entry

NoJob  == [step |-> "none"]
Quiet  == [kind |-> "none"]

HandlerInit ==
  /\ m_pid \in Bases
  /\ m_disabled = TRUE
  /\ m_session_status_map = <<>>
  /\ rime = FALSE
  /\ sessions = <<>>
  /\ modified = FALSE
  /\ mutex = {}
  /\ job = NoJob
  /\ mail = [p \in Peers |-> Quiet]
  /\ current = {}
  /\ stale_hit = FALSE

------------------------------------------------------------------------------
(* The session map *)

\* the map f with one more entry, or another value in one
With(f, x, v) == [y \in DOMAIN f \cup {x} |-> IF y = x THEN v ELSE f[y]]

\* to_session_id: looking an unknown id up adds an entry without a session.
Touched(map, id) == IF id \in DOMAIN map THEN map ELSE With(map, id, NoSession)

SessionOf(id) ==
  IF id \in DOMAIN m_session_status_map THEN m_session_status_map[id] ELSE NoSession

\* find_session: a service that is not started has no sessions to show.
Alive(id) == rime /\ SessionOf(id) \in DOMAIN sessions

\* Mutant: ids are counted instead.
NewIpcIdCounted(map) == m_pid + Cardinality(DOMAIN map) + 1

\* _GenerateNewWeaselSessionId
NewIpcId(map) == IF DOMAIN map = {} THEN m_pid + 1 ELSE Max(DOMAIN map) + 1

\* A request of peer p names id.
Observe(p, id) == stale_hit' = (stale_hit \/ (p \notin current /\ Alive(id)))

\* The map is cleared: every id handed out so far is stale.
ClearMap(map) ==
  /\ m_session_status_map' = map
  /\ current' = {}

\* What a request for session id does to the map.
UseSession(p, id) ==
  /\ m_session_status_map' = Touched(m_session_status_map, id)
  /\ Observe(p, id)

------------------------------------------------------------------------------
(* Requests served in one step *)

Respond(p, value) == mail' = [mail EXCEPT ![p] = [kind |-> "answer", value |-> value]]

FindSession(p, id) ==
  /\ Respond(p, IF ~m_disabled /\ Alive(id) THEN id ELSE 0)
  /\ IF m_disabled
     THEN UNCHANGED <<m_session_status_map, stale_hit>>
     ELSE UseSession(p, id)
  /\ UNCHANGED <<m_pid, m_disabled, rimeVars, mutex, job, current>>

RemoveSession(p, id) ==
  /\ Respond(p, 0)
  /\ IF m_disabled
     THEN UNCHANGED <<m_session_status_map, sessions, stale_hit, current>>
     ELSE /\ sessions' = Restrict(sessions, DOMAIN sessions \ {SessionOf(id)})
          /\ m_session_status_map' = Restrict(m_session_status_map, DOMAIN m_session_status_map \ {id})
          /\ Observe(p, id)
          /\ current' = current \ {p}
  /\ UNCHANGED <<m_pid, m_disabled, rime, modified, mutex, job>>

\* Also CommitComposition, ClearComposition, SelectCandidateOnCurrentPage,
\* FocusIn and UpdateInputPosition: nothing while disabled.
ProcessKeyEvent(p, id) ==
  /\ Respond(p, IF ~m_disabled /\ Alive(id) THEN 1 ELSE 0)
  /\ IF m_disabled
     THEN UNCHANGED <<m_session_status_map, stale_hit>>
     ELSE UseSession(p, id)
  /\ UNCHANGED <<m_pid, m_disabled, rimeVars, mutex, job, current>>

\* ChangePage, HighlightCandidateOnCurrentPage: not guarded by m_disabled.
ChangePage(p, id) ==
  /\ Respond(p, IF Alive(id) THEN 1 ELSE 0)
  /\ UseSession(p, id)
  /\ UNCHANGED <<m_pid, m_disabled, rimeVars, mutex, job, current>>

\* Finalize in a request: what the window thread could do to the same three
\* in the meantime it does itself.
StopRime(map) ==
  /\ m_disabled' = TRUE
  /\ ClearMap(map)
  /\ rime' = FALSE
  /\ sessions' = <<>>
  /\ UNCHANGED <<m_pid, modified, mutex, job, stale_hit>>

\* Mutant: the flag alone is set, rime is not finalized.
StartMaintenanceLight(p) ==
  /\ m_disabled' = TRUE
  /\ ClearMap(With(<<>>, 0, NoSession))
  /\ Respond(p, 0)
  /\ UNCHANGED <<m_pid, rimeVars, mutex, job, stale_hit>>

\* _UpdateUI(0) leaves an entry for id 0.
StartMaintenance(p) ==
  /\ StopRime(With(<<>>, 0, NoSession))
  /\ Respond(p, 0)

\* The server is not disabled: the map is cleared, rime keeps its sessions.
EndMaintenance(p) ==
  /\ ClearMap(<<>>)
  /\ Respond(p, 0)
  /\ UNCHANGED <<m_pid, m_disabled, rimeVars, mutex, job, stale_hit>>

------------------------------------------------------------------------------
(* Finalize on the window thread, when the server quits or Windows ends the  *)
(* session.  It does not take g_api_mutex: a request may be under way, and    *)
(* others served between these three.                                         *)

SetDisabled ==
  /\ m_disabled' = TRUE
  /\ UNCHANGED <<m_pid, m_session_status_map, rimeVars, mutex, job, mail, current, stale_hit>>

ForgetSessions ==
  /\ ClearMap(<<>>)
  /\ UNCHANGED <<m_pid, m_disabled, rimeVars, mutex, job, mail, stale_hit>>

FinalizeRime ==
  /\ rime' = FALSE
  /\ sessions' = <<>>
  /\ UNCHANGED <<m_pid, m_disabled, m_session_status_map, modified, mutex, job, mail, current, stale_hit>>

------------------------------------------------------------------------------
(* Initialize, on behalf of the process that starts, of a client that asks   *)
(* for a session or of a deployer that has finished.                         *)

\* A disabled handler that is asked for a session resumes the service.
ResumesService(op) == m_disabled /\ op \in {"start", "end_maintenance"}

BeginJob(p) == job' = [step |-> "probe", peer |-> p, session |-> NoSession, id |-> 0]

\* create_session looks first whether the service is started, and makes no
\* session if not.
BeginSession(p, map) ==
  job' = [step |-> IF rime THEN "create" ELSE "store", peer |-> p,
          session |-> NoSession, id |-> NewIpcId(map)]

\* _IsDeployerRunning, CreateMutex: the deployer's own mutex is created or opened.
Probe ==
  /\ job.step = "probe"
  /\ job' = [job EXCEPT !.step = IF mutex = {} THEN "undetected" ELSE "detected"]
  /\ mutex' = mutex \cup {Server}
  /\ UNCHANGED <<m_pid, m_disabled, m_session_status_map, rimeVars, mail, current, stale_hit>>

\* _IsDeployerRunning, CloseHandle; m_disabled gets the result.
ProbeEnd ==
  /\ job.step \in {"undetected", "detected"}
  /\ mutex' = mutex \ {Server}
  /\ m_disabled' = (job.step = "detected")
  /\ job' = [job EXCEPT !.step = IF job.step = "detected" THEN "answer" ELSE "initialize"]
  /\ UNCHANGED <<m_pid, m_session_status_map, rimeVars, mail, current, stale_hit>>

\* A workspace that was modified is deployed here; the handler stays disabled
\* until the next Initialize.
InitializeRime ==
  /\ job.step = "initialize"
  /\ rime' = TRUE
  /\ m_disabled' = (m_disabled \/ modified)
  /\ modified' = FALSE
  /\ job' = [job EXCEPT !.step = "answer"]
  /\ UNCHANGED <<m_pid, m_session_status_map, sessions, mutex, mail, current, stale_hit>>

\* WeaselServerApp::Run after Initialize: the map has not been touched.
FinishStart ==
  /\ job.step = "answer" /\ job.peer = Server
  /\ job' = NoJob
  /\ UNCHANGED <<m_pid, m_disabled, m_session_status_map, rimeVars, mutex, mail, current, stale_hit>>

\* Mutant: the map is not cleared once rime is back.
FinishResumeKeeps ==
  /\ job.step = "answer" /\ job.peer # Server
  /\ IF job.peer # Deployer /\ ~m_disabled
     THEN BeginSession(job.peer, m_session_status_map) /\ UNCHANGED mail
     ELSE job' = NoJob /\ Respond(job.peer, 0)
  /\ UNCHANGED <<m_pid, m_disabled, m_session_status_map, rimeVars, mutex, current, stale_hit>>

\* EndMaintenance after Initialize; AddSession goes on if it may.
FinishResume ==
  /\ job.step = "answer" /\ job.peer # Server
  /\ ClearMap(<<>>)
  /\ IF job.peer # Deployer /\ ~m_disabled
     THEN BeginSession(job.peer, <<>>) /\ UNCHANGED mail
     ELSE job' = NoJob /\ Respond(job.peer, 0)
  /\ UNCHANGED <<m_pid, m_disabled, rimeVars, mutex, stale_hit>>

------------------------------------------------------------------------------
(* AddSession, once m_disabled has let it pass                                *)

AddSession(p) ==
  /\ rime \/ NewIpcId(m_session_status_map) <= MaxIpcId
  /\ BeginSession(p, m_session_status_map)
  /\ UNCHANGED <<m_pid, m_disabled, m_session_status_map, rimeVars, mutex, mail, current, stale_hit>>

\* It takes its time then, and inserts the session also into a service that has
\* been stopped meanwhile, unless it was before create_session looked.  An
\* address that became free is used again at once: the case in which an old
\* reference would do harm.
CreateSession ==
  /\ job.step = "create"
  /\ \/ \E s \in RimeIds \ DOMAIN sessions :
          /\ \A t \in RimeIds \ DOMAIN sessions : s <= t
          /\ sessions' = With(sessions, s, job.peer)
          /\ job' = [job EXCEPT !.step = "store", !.session = s, !.id = NewIpcId(m_session_status_map)]
     \/ /\ ~rime
        /\ job' = [job EXCEPT !.step = "store", !.id = NewIpcId(m_session_status_map)]
        /\ UNCHANGED sessions
  /\ UNCHANGED <<m_pid, m_disabled, m_session_status_map, rime, modified, mutex, mail, current, stale_hit>>

\* The new id was looked for in the map as it is, or as it was before the window
\* thread cleared it; the entry is made, and the id answered, also without a
\* session.
StoreSession ==
  /\ job.step = "store"
  /\ \E id \in {job.id, NewIpcId(m_session_status_map)} :
       /\ m_session_status_map' = With(m_session_status_map, id, job.session)
       /\ Respond(job.peer, id)
  /\ current' = current \cup {job.peer}
  /\ job' = NoJob
  /\ UNCHANGED <<m_pid, m_disabled, rimeVars, mutex, stale_hit>>

------------------------------------------------------------------------------
\* The process is gone: its handles are closed and another has another pid.
LoseProcess ==
  /\ m_pid' \in Bases
  /\ m_disabled' = TRUE
  /\ ClearMap(<<>>)
  /\ rime' = FALSE
  /\ sessions' = <<>>
  /\ mutex' = mutex \ {Server}
  /\ job' = NoJob
  /\ UNCHANGED <<modified, stale_hit>>
=============================================================================
