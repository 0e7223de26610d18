---------------------------- MODULE WeaselServer ----------------------------
(***************************************************************************)
(* The Weasel server with its peers: the text services of the applications  *)
(* (WeaselTSF.cpp over WeaselClientImpl.cpp), which send one request at a    *)
(* time over a pipe of their own (PipeChannel), and the deployer             *)
(* (Configurator.cpp), which takes the server off rime while it works.       *)
(* Any process may die at any time.                                          *)
(***************************************************************************)
EXTENDS RequestHandler

CONSTANTS
  MaxEvents   \* bound: disturbances (see Disturb)

ASSUME EventsAssumption == MaxEvents \in Nat

VARIABLES
  server,       \* the server process
  session_id,   \* ClientImpl::session_id
  pc,           \* where a text service is, in _EnsureServerConnected and after
  deployer,     \* where the deployer is
  told,         \* the server has carried out the StartMaintenance of the deployer at work
  events

clientVars   == <<session_id, pc>>
deployerVars == <<deployer, told>>
vars == <<handlerVars, server, clientVars, deployerVars, events>>

\* The window thread is in Finalize, or past it.
Closing == server \in {"closing", "forgetting", "finalized", "deaf"}

Listening == server = "running" \/ Closing

Init ==
  /\ HandlerInit
  /\ server = "down"
  /\ session_id = [c \in Clients |-> 0]
  /\ pc = [c \in Clients |-> "idle"]
  /\ deployer = "idle"
  /\ told = FALSE
  /\ events = 0

\* Whatever is not a key or its consequence is a disturbance: deployments,
\* edits, clicks, processes that end.
Disturb ==
  /\ events < MaxEvents
  /\ events' = events + 1

\* PipeChannel::Transact; without a server it fails at once and 0 is returned.
Send(p, op, id) ==
  mail' = [mail EXCEPT ![p] =
             IF Listening THEN [kind |-> "request", op |-> op, id |-> id]
                          ELSE [kind |-> "answer", value |-> 0]]

Answered(p) == mail[p].kind = "answer"
Received(p) == mail' = [mail EXCEPT ![p] = Quiet]

handlerButMail ==
  <<m_pid, m_disabled, m_session_status_map, rimeVars, mutex, job, current, stale_hit>>

------------------------------------------------------------------------------
(* The server process *)

\* At logon, by the user, or by a text service whose connection keeps failing.
StartServer ==
  /\ server = "down"
  /\ server' = "starting"
  /\ BeginJob(Server)
  /\ UNCHANGED <<m_pid, m_disabled, m_session_status_map, rimeVars, mutex, mail, current, stale_hit>>
  /\ UNCHANGED <<clientVars, deployerVars, events>>

JobStep ==
  /\ Probe \/ ProbeEnd \/ InitializeRime \/ CreateSession
  /\ UNCHANGED <<server, clientVars, deployerVars, events>>

\* The pipes are served once Initialize has returned.
Started ==
  /\ FinishStart
  /\ server' = "running"
  /\ UNCHANGED <<clientVars, deployerVars, events>>

Resumed ==
  /\ FinishResume \/ StoreSession
  /\ UNCHANGED <<server, clientVars, deployerVars, events>>

\* HandlePipeMessage, under g_api_mutex.
Dispatch(p, op, id) ==
  IF ResumesService(op)
  THEN /\ BeginJob(p)
       /\ UNCHANGED <<m_pid, m_disabled, m_session_status_map, rimeVars, mutex, mail, current, stale_hit>>
  ELSE \/ op = "echo" /\ FindSession(p, id)
       \/ op = "start" /\ AddSession(p)
       \/ op = "end" /\ RemoveSession(p, id)
       \/ op \in {"key", "focus"} /\ ProcessKeyEvent(p, id)
       \/ op = "page" /\ ChangePage(p, id)
       \/ op = "start_maintenance" /\ StartMaintenance(p)
       \/ op = "end_maintenance" /\ EndMaintenance(p)

Serve(p) ==
  /\ Listening
  /\ job = NoJob
  /\ mail[p].kind = "request"
  /\ IF server = "deaf"
     THEN /\ Respond(p, 0)
          /\ UNCHANGED <<handlerButMail, told>>
     ELSE /\ Dispatch(p, mail[p].op, mail[p].id)
          /\ told' = (told \/ mail[p].op = "start_maintenance")
  /\ UNCHANGED <<server, clientVars, deployer, events>>

\* Run returns or Windows ends the session.
Close ==
  /\ server = "running"
  /\ Disturb
  /\ SetDisabled
  /\ server' = "closing"
  /\ UNCHANGED <<clientVars, deployerVars>>

\* The rest of Finalize, while the pipe threads still serve.
FinalizeStep ==
  /\ \/ server = "closing" /\ ForgetSessions /\ server' = "forgetting"
     \/ server = "forgetting" /\ FinalizeRime /\ server' = "finalized"
  /\ UNCHANGED <<clientVars, deployerVars, events>>

\* OnEndSystemSession: the handler is then forgotten.
ForgetHandler ==
  /\ server = "finalized"
  /\ server' = "deaf"
  /\ UNCHANGED <<handlerVars, clientVars, deployerVars, events>>

\* The process ends; requests under way fail at their senders.
LoseServer ==
  /\ LoseProcess
  /\ server' = "down"
  /\ mail' = [p \in Peers |-> IF mail[p].kind = "request" THEN [kind |-> "answer", value |-> 0]
                              ELSE mail[p]]
  /\ UNCHANGED <<clientVars, deployerVars>>

Exit  == server \in {"finalized", "deaf"} /\ LoseServer /\ UNCHANGED events
Crash == server \in {"starting", "running", "closing", "forgetting"} /\ LoseServer /\ Disturb

------------------------------------------------------------------------------
(* The text service *)

Goto(c, l) == pc' = [pc EXCEPT ![c] = l]

\* Sends a request and waits at l for its answer.
Call(c, op, id, l) == Send(c, op, id) /\ Goto(c, l)

\* _ProcessKeyEvent: Echo needs an id, otherwise _Reconnect has none to end.
PressKey(c) ==
  /\ pc[c] = "idle"
  /\ IF session_id[c] # 0
     THEN Call(c, "echo", session_id[c], "echo")
     ELSE Call(c, "start", 0, "start")
  /\ UNCHANGED <<handlerButMail, session_id>>

SendKey(c) == Call(c, "key", session_id[c], "key")

\* Mutant: a failed Echo is not followed by _Reconnect.
EchoedOnly(c) ==
  /\ pc[c] = "echo"
  /\ IF mail[c].value = session_id[c]
     THEN SendKey(c)
     ELSE Received(c) /\ Goto(c, "idle")
  /\ UNCHANGED <<handlerButMail, session_id>>

\* Echo failed: _Reconnect ends the session it believes in and asks for another.
Echoed(c) ==
  /\ pc[c] = "echo"
  /\ IF mail[c].value = session_id[c]
     THEN SendKey(c)
     ELSE Call(c, "end", session_id[c], "end")
  /\ UNCHANGED <<handlerButMail, session_id>>

\* Mutant: EndSession does not forget the id.
EndedOnly(c) ==
  /\ pc[c] = "end"
  /\ Call(c, "start", 0, "start")
  /\ UNCHANGED <<handlerButMail, session_id>>

Ended(c) ==
  /\ pc[c] = "end"
  /\ session_id' = [session_id EXCEPT ![c] = 0]
  /\ Call(c, "start", 0, "start")
  /\ UNCHANGED handlerButMail

\* StartSession has its answer; _EnsureServerConnected ends with an Echo.
SessionStarted(c) ==
  /\ pc[c] = "start"
  /\ session_id' = [session_id EXCEPT ![c] = mail[c].value]
  /\ IF mail[c].value = 0
     THEN Received(c) /\ Goto(c, "idle")
     ELSE Call(c, "echo", mail[c].value, "check")
  /\ UNCHANGED handlerButMail

Checked(c) ==
  /\ pc[c] = "check"
  /\ IF mail[c].value = session_id[c]
     THEN SendKey(c)
     ELSE Received(c) /\ Goto(c, "idle")
  /\ UNCHANGED <<handlerButMail, session_id>>

\* Requests sent without an Echo: the mouse on the candidate window, the focus.
\* FocusIn and FocusOut are sent even with session id 0.
Click(c, op) ==
  /\ pc[c] = "idle"
  /\ op = "page" => session_id[c] # 0
  /\ Disturb
  /\ Call(c, op, session_id[c], "click")
  /\ UNCHANGED <<handlerButMail, session_id>>

\* The key or the click was answered.
Done(c) ==
  /\ pc[c] \in {"key", "click"}
  /\ Received(c) /\ Goto(c, "idle")
  /\ UNCHANGED <<handlerButMail, session_id>>

\* Deactivate: the session is ended for good.
Deactivate(c) ==
  /\ pc[c] = "idle"
  /\ Disturb
  /\ Call(c, "end", session_id[c], "quit")
  /\ UNCHANGED <<handlerButMail, session_id>>

Deactivated(c) ==
  /\ pc[c] = "quit"
  /\ session_id' = [session_id EXCEPT ![c] = 0]
  /\ Received(c) /\ Goto(c, "idle")
  /\ UNCHANGED handlerButMail

\* The application dies and is started again; what it had is left behind.
Killed(c) ==
  /\ pc[c] # "idle" \/ session_id[c] # 0
  /\ job # NoJob => job.peer # c
  /\ Disturb
  /\ session_id' = [session_id EXCEPT ![c] = 0]
  /\ Received(c) /\ Goto(c, "idle")
  /\ current' = current \ {c}
  /\ UNCHANGED <<m_pid, m_disabled, m_session_status_map, rimeVars, mutex, job, stale_hit>>

OnAnswer(c) ==
  /\ Answered(c)
  /\ Echoed(c) \/ Ended(c) \/ SessionStarted(c) \/ Checked(c) \/ Done(c)
     \/ Deactivated(c)

Client(c) ==
  /\ \/ (OnAnswer(c) \/ PressKey(c)) /\ UNCHANGED events
     \/ \E op \in {"page", "focus"} : Click(c, op)
     \/ Deactivate(c) \/ Killed(c)
  /\ UNCHANGED <<server, deployerVars>>

------------------------------------------------------------------------------
(* The deployer: UpdateWorkspace, DictManagement, SyncUserData.  Another      *)
(* mutex lets one deployer process run at a time (WeaselDeployer.cpp).        *)

EnterDeployer ==
  /\ deployer \in {"idle", "gave up"}
  /\ Disturb
  /\ IF mutex = {}
     THEN deployer' = "connect" /\ mutex' = {Deployer}
     ELSE deployer' = "gave up" /\ UNCHANGED mutex
  /\ told' = FALSE
  /\ UNCHANGED <<m_pid, m_disabled, m_session_status_map, rimeVars, job, mail, current, stale_hit>>

\* Client::Connect fails when no pipe is served: the work is done all the same.
ConnectDeployer ==
  /\ deployer = "connect"
  /\ IF Listening
     THEN Send(Deployer, "start_maintenance", 0) /\ deployer' = "starting"
     ELSE deployer' = "working" /\ UNCHANGED mail
  /\ UNCHANGED <<handlerButMail, told, events>>

MaintenanceStarted ==
  /\ deployer = "starting"
  /\ Answered(Deployer) /\ Received(Deployer)
  /\ deployer' = "working"
  /\ UNCHANGED <<handlerButMail, told, events>>

\* The mutex is released before the server is told to resume.  A failed
\* synchronisation returns without telling it.
Worked(success) ==
  /\ deployer = "working"
  /\ modified' = (modified /\ ~success)
  /\ mutex' = mutex \ {Deployer}
  /\ IF success /\ Listening
     THEN Send(Deployer, "end_maintenance", 0) /\ deployer' = "ending"
     ELSE deployer' = "idle" /\ UNCHANGED mail
  /\ told' = FALSE
  /\ UNCHANGED <<m_pid, m_disabled, m_session_status_map, rime, sessions, job, current, stale_hit, events>>

MaintenanceEnded ==
  /\ deployer = "ending"
  /\ Answered(Deployer) /\ Received(Deployer)
  /\ deployer' = "idle"
  /\ UNCHANGED <<handlerButMail, told, events>>

DeployerKilled ==
  /\ deployer \notin {"idle", "gave up"}
  /\ job # NoJob => job.peer # Deployer
  /\ Disturb
  /\ mutex' = mutex \ {Deployer}
  /\ Received(Deployer)
  /\ deployer' = "idle"
  /\ told' = FALSE
  /\ UNCHANGED <<m_pid, m_disabled, m_session_status_map, rimeVars, job, current, stale_hit>>

DeployerStep == ConnectDeployer \/ MaintenanceStarted \/ MaintenanceEnded
                \/ \E success \in BOOLEAN : Worked(success)

\* The user edits the configuration.
Edit ==
  /\ ~modified
  /\ Disturb
  /\ modified' = TRUE
  /\ UNCHANGED <<m_pid, m_disabled, m_session_status_map, rime, sessions, mutex, job, mail, current, stale_hit>>
  /\ UNCHANGED <<server, clientVars, deployerVars>>

------------------------------------------------------------------------------
ServerNext ==
  \/ StartServer \/ JobStep \/ Started \/ Resumed
  \/ \E p \in Peers : Serve(p)
  \/ Close \/ FinalizeStep \/ ForgetHandler \/ Exit \/ Crash

DeployerNext ==
  /\ EnterDeployer \/ DeployerStep \/ DeployerKilled
  /\ UNCHANGED <<server, clientVars>>

Next == ServerNext \/ (\E c \in Clients : Client(c)) \/ DeployerNext \/ Edit

Spec == Init /\ [][Next]_vars

\* Threads run, a mutex is got some time, the user goes on typing; a text
\* service launches the server when none is there.  Nothing makes anyone close,
\* die, edit or deploy.
Fairness ==
  /\ WF_vars(StartServer) /\ WF_vars(JobStep) /\ WF_vars(Started) /\ WF_vars(Resumed)
  /\ WF_vars(FinalizeStep) /\ WF_vars(Exit)
  /\ \A p \in Peers : SF_vars(Serve(p))
  /\ \A c \in Clients : WF_vars(Client(c) /\ OnAnswer(c)) /\ SF_vars(Client(c) /\ PressKey(c))
  /\ WF_vars(DeployerNext /\ DeployerStep)

FairSpec == Spec /\ Fairness

------------------------------------------------------------------------------
(* Properties *)

Requests ==
  [kind : {"request"}, id : Nat,
   op : {"echo", "start", "end", "key", "focus", "page", "start_maintenance", "end_maintenance"}]

Answers == [kind : {"answer"}, value : Nat]

Jobs == [step : {"probe", "detected", "undetected", "initialize", "answer", "create", "store"},
         peer : Peers \cup {Server}, session : RimeIds \cup {NoSession}, id : Nat]

IsMap(map) ==
  /\ DOMAIN map \subseteq Nat /\ IsFiniteSet(DOMAIN map)
  /\ \A id \in DOMAIN map : map[id] \in RimeIds \cup {NoSession}

IsSessions(made) ==
  DOMAIN made \subseteq RimeIds /\ \A s \in DOMAIN made : made[s] \in Clients

Types ==
  /\ m_pid \in Bases
  /\ m_disabled \in BOOLEAN /\ rime \in BOOLEAN /\ modified \in BOOLEAN
  /\ stale_hit \in BOOLEAN /\ told \in BOOLEAN
  /\ IsMap(m_session_status_map) /\ IsSessions(sessions)
  /\ mutex \subseteq {Server, Deployer}
  /\ job \in {NoJob} \cup Jobs
  /\ mail \in [Peers -> {Quiet} \cup Requests \cup Answers]
  /\ current \subseteq Clients
  /\ server \in {"down", "starting", "running", "closing", "forgetting", "finalized", "deaf"}
  /\ session_id \in [Clients -> Nat]
  /\ pc \in [Clients -> {"idle", "echo", "end", "start", "check", "key", "click", "quit"}]
  /\ deployer \in {"idle", "gave up", "connect", "starting", "working", "ending"}
  /\ events \in 0 .. MaxEvents

\* A text service waits exactly while its pipe is in use; it asks for a session
\* only when it has none, and what else it asks is about the session it has.
ClientWaits(c) ==
  /\ mail[c] = Quiet <=> pc[c] = "idle"
  /\ pc[c] = "start" => session_id[c] = 0
  /\ mail[c].kind = "request" => /\ mail[c].op = "start" <=> pc[c] = "start"
                                 /\ mail[c].id = session_id[c]
                                 /\ mail[c].op # "end_maintenance"

DeployerWaits ==
  mail[Deployer].kind = "request" =>
    \/ deployer = "starting" /\ mail[Deployer].op = "start_maintenance"
    \/ deployer = "ending" /\ mail[Deployer].op = "end_maintenance"

\* A job is for a request that is still waiting, the server's own start apart;
\* only who asked for a session is made one.
JobWaits ==
  job \in Jobs =>
    /\ \/ job.peer = Server
       \/ mail[job.peer].kind = "request" /\ mail[job.peer].op \in {"start", "end_maintenance"}
    /\ job.step \in {"create", "store"} => job.peer \in Clients

\* Every variable has its type, and a request the one who waits for its answer.
TypeOK ==
  /\ Types
  /\ \A c \in Clients : ClientWaits(c)
  /\ DeployerWaits /\ JobWaits

\* Until the window thread begins to finalize, no entry of m_session_status_map
\* dangles.  An AddSession under way then may leave one that does; but no session
\* that rime would find has two entries, whoever starts rime again.
MapIsSound ==
  \A id \in DOMAIN m_session_status_map :
    m_session_status_map[id] # NoSession =>
      /\ ~Closing => Alive(id)
      /\ Alive(id) => \A other \in DOMAIN m_session_status_map \ {id} :
           m_session_status_map[other] # m_session_status_map[id]

\* The deployer works on the user's files alone once the server has answered
\* its StartMaintenance, whatever dies, restarts or asks for a session then.
DeploysAlone == deployer = "working" /\ told => ~rime /\ sessions = <<>>

\* The client knows its id and is not about to give it up.
Settled(c) == pc[c] \notin {"start", "end", "quit"} /\ session_id[c] # 0

\* The id a client was given since the map was last cleared leads to the
\* session made for that client, as long as no older id met a live session.
\* It leads nowhere at worst, and that only once the window thread finalizes.
OwnSession ==
  ~stale_hit =>
    \A c \in current :
      Settled(c) => /\ ~Closing => Alive(session_id[c])
                    /\ Alive(session_id[c]) => sessions[SessionOf(session_id[c])] = c

\* Whatever happened to server and deployer, a text service gets its keys
\* processed again: nobody has to end the maintenance for it.
ServedAgain ==
  \A c \in Clients : []<>(pc[c] = "key" /\ mail[c] = [kind |-> "answer", value |-> 1])
=============================================================================
