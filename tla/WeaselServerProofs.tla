-------------------------- MODULE WeaselServerProofs --------------------------
(***************************************************************************)
(* The server's sessions are not mixed up and the deployer works alone:     *)
(* TLAPS proves TypeOK, MapIsSound, DeploysAlone and OwnSession for any      *)
(* number of text services, of rime sessions and of disturbances.            *)
(***************************************************************************)
EXTENDS WeaselServer, FiniteSetTheorems, WellFoundedInduction, TLAPS

------------------------------------------------------------------------------
(* Ids and maps *)

LEMMA LeastNumber ==
  ASSUME NEW S \in SUBSET Nat, S # {}
  PROVE  \E x \in S : \A y \in S : x <= y
<1> DEFINE Less == {ss \in Nat \X Nat : ss[1] < ss[2]}
<1>1. IsWellFoundedOn(Less, Nat)
  BY NatLessThanWellFounded DEF OpToRel
<1>. HIDE DEF Less
<1>2. PICK x \in S : \A y \in S : ~ (<<y, x>> \in Less)
  BY <1>1, WFMin
<1>3. \A y \in S : ~ (y < x)
  BY <1>2 DEF Less
<1>. QED
  BY <1>3

\* A finite set of ids has a largest one: a smallest set without one, less one
\* of its elements, would have one.
LEMMA LargestId ==
  ASSUME NEW S \in SUBSET Nat, IsFiniteSet(S), S # {}
  PROVE  Max(S) \in S /\ \A y \in S : y <= Max(S)
<1> DEFINE HasLargest(T) == \E x \in T : \A y \in T : y <= x
           Bad == {T \in SUBSET S : T # {} /\ ~HasLargest(T)}
           Sizes == {Cardinality(T) : T \in Bad}
<1>1. \A T \in SUBSET S : IsFiniteSet(T) /\ Cardinality(T) \in Nat
  BY FS_Subset, FS_CardinalityType
<1>2. Bad = {}
  <2>1. SUFFICES ASSUME Bad # {} PROVE FALSE
    OBVIOUS
  <2>2. Sizes \in SUBSET Nat /\ Sizes # {}
    BY <1>1, <2>1
  <2>3. PICK n \in Sizes : \A k \in Sizes : n <= k
    BY <2>2, LeastNumber
  <2>4. PICK T \in Bad : Cardinality(T) = n
    OBVIOUS
  <2>5. PICK x \in T : TRUE
    OBVIOUS
  <2>6. T \in SUBSET S /\ IsFiniteSet(T) /\ Cardinality(T \ {x}) = Cardinality(T) - 1 /\ n \in Nat
    BY <1>1, <2>2, <2>5, FS_RemoveElement
  <2>7. T \ {x} \notin Bad
    <3>1. SUFFICES ASSUME T \ {x} \in Bad PROVE FALSE
      OBVIOUS
    <3>2. Cardinality(T \ {x}) \in Sizes
      BY <3>1
    <3>3. n <= Cardinality(T \ {x})
      BY <2>3, <3>2, Zenon
    <3>. QED
      BY <2>4, <2>6, <3>3
  <2>8. ~HasLargest(T) /\ T # {} /\ T \ {x} \in SUBSET S
    BY <2>6
  <2>9. T \ {x} # {}
    <3>1. SUFFICES ASSUME T \ {x} = {} PROVE FALSE
      OBVIOUS
    <3>2. x \in Nat /\ \A y \in T : y = x
      BY <2>5, <2>6, <3>1
    <3>. QED
      BY <2>5, <2>8, <3>2
  <2>10. PICK z \in T \ {x} : \A y \in T \ {x} : y <= z
    BY <2>7, <2>8, <2>9
  <2>11. x \in Nat /\ z \in Nat /\ \A y \in T : y \in Nat
    BY <2>5, <2>6, <2>10
  <2>12. CASE x <= z
    BY <2>8, <2>10, <2>11, <2>12
  <2>13. CASE z <= x
    <3>1. \A y \in T : y <= x
      BY <2>10, <2>11, <2>13
    <3>. QED
      BY <2>5, <2>8, <3>1
  <2>. QED
    BY <2>11, <2>12, <2>13
<1>3. HasLargest(S)
  BY <1>2
<1>4. \E x \in S : \A y \in S : x >= y
  BY <1>3
<1>5. Max(S) \in S /\ \A y \in S : Max(S) >= y
  BY <1>4 DEF Max
<1>. QED
  BY <1>5

LEMMA NewIdIsNew ==
  ASSUME NEW map, IsMap(map), m_pid \in Nat
  PROVE  NewIpcId(map) \in Nat \ {0} /\ NewIpcId(map) \notin DOMAIN map
<1>1. CASE DOMAIN map = {}
  BY <1>1 DEF NewIpcId
<1>2. CASE DOMAIN map # {}
  <2> DEFINE D == DOMAIN map
  <2>1. D \in SUBSET Nat /\ IsFiniteSet(D) /\ D # {}
    BY <1>2 DEF IsMap
  <2>2. NewIpcId(map) = Max(D) + 1
    BY <1>2 DEF NewIpcId
  <2>. HIDE DEF D
  <2>3. Max(D) \in D /\ \A y \in D : y <= Max(D)
    BY <2>1, LargestId
  <2>4. Max(D) + 1 \notin D /\ Max(D) \in Nat
    <3> DEFINE k == Max(D)
    <3>1. k \in Nat /\ \A y \in D : y <= k
      BY <2>1, <2>3
    <3>. HIDE DEF k
    <3>2. k + 1 \notin D
      BY <3>1
    <3>. QED
      BY <3>1, <3>2 DEF k
  <2>. QED
    BY <2>2, <2>4 DEF D
<1>. QED
  BY <1>1, <1>2

LEMMA EmptyIsMap == DOMAIN <<>> = {} /\ IsMap(<<>>) /\ IsSessions(<<>>)
<1>1. DOMAIN <<>> = {}
  OBVIOUS
<1>. QED
  BY <1>1, FS_EmptySet DEF IsMap, IsSessions

LEMMA WithIsMap ==
  ASSUME NEW map, IsMap(map), NEW id \in Nat, NEW s \in RimeIds \cup {NoSession}
  PROVE  IsMap(With(map, id, s))
<1> DEFINE w == With(map, id, s)
<1>1. IsFiniteSet(DOMAIN map \cup {id})
  BY FS_AddElement DEF IsMap
<1>2. /\ DOMAIN w = DOMAIN map \cup {id}
      /\ \A y \in DOMAIN map \cup {id} : w[y] = IF y = id THEN s ELSE map[y]
  BY DEF With
<1>. HIDE DEF w
<1>3. IsMap(w)
  BY <1>1, <1>2 DEF IsMap
<1>. QED
  BY <1>3 DEF w

LEMMA WithIsSessions ==
  ASSUME NEW made, IsSessions(made), NEW s \in RimeIds, NEW c \in Clients
  PROVE  IsSessions(With(made, s, c))
<1> DEFINE w == With(made, s, c)
<1>1. /\ DOMAIN w = DOMAIN made \cup {s}
      /\ \A y \in DOMAIN made \cup {s} : w[y] = IF y = s THEN c ELSE made[y]
  BY DEF With
<1>. HIDE DEF w
<1>2. IsSessions(w)
  BY <1>1 DEF IsSessions
<1>. QED
  BY <1>2 DEF w

LEMMA TouchedIsMap ==
  ASSUME NEW map, IsMap(map), NEW id \in Nat
  PROVE  IsMap(Touched(map, id))
BY WithIsMap DEF Touched

LEMMA RestrictProperties ==
  ASSUME NEW f, NEW x
  PROVE  /\ DOMAIN Restrict(f, DOMAIN f \ {x}) = DOMAIN f \ {x}
         /\ \A y \in DOMAIN f \ {x} : Restrict(f, DOMAIN f \ {x})[y] = f[y]
BY DEF Restrict

LEMMA RestrictIsMap ==
  ASSUME NEW map, IsMap(map), NEW id
  PROVE  IsMap(Restrict(map, DOMAIN map \ {id}))
<1>1. IsFiniteSet(DOMAIN map \ {id})
  BY FS_Subset DEF IsMap
<1>. QED
  <2> DEFINE w == Restrict(map, DOMAIN map \ {id})
  <2>1. DOMAIN w = DOMAIN map \ {id} /\ \A y \in DOMAIN map \ {id} : w[y] = map[y]
    BY RestrictProperties
  <2>. HIDE DEF w
  <2>2. IsMap(w)
    BY <1>1, <2>1 DEF IsMap
  <2>. QED
    BY <2>2 DEF w

LEMMA RestrictIsSessions ==
  ASSUME NEW made, IsSessions(made), NEW s
  PROVE  IsSessions(Restrict(made, DOMAIN made \ {s}))
<1> DEFINE w == Restrict(made, DOMAIN made \ {s})
<1>1. DOMAIN w = DOMAIN made \ {s} /\ \A y \in DOMAIN made \ {s} : w[y] = made[y]
  BY RestrictProperties
<1>. HIDE DEF w
<1>2. IsSessions(w)
  BY <1>1 DEF IsSessions
<1>. QED
  BY <1>2 DEF w

------------------------------------------------------------------------------
(* Types *)

\* A job is NoJob or one of Jobs, and its step tells which.
LEMMA JobKinds ==
  ASSUME Types
  PROVE  /\ job = NoJob <=> job.step = "none"
         /\ job = NoJob <=> job \notin Jobs
         /\ job # NoJob => /\ job.step \in {"probe", "detected", "undetected", "initialize", "answer", "create", "store"}
                           /\ job.peer \in Peers \cup {Server} /\ job.session \in RimeIds \cup {NoSession}
                           /\ job.id \in Nat
<1>1. job \in {NoJob} \cup Jobs
  BY DEF Types
<1>2. CASE job = NoJob
  <2>1. job.step = "none" /\ job \notin Jobs
    BY <1>2 DEF NoJob, Jobs
  <2>. QED
    BY <1>2, <2>1
<1>3. CASE job \in Jobs
  <2>1. /\ job.step \in {"probe", "detected", "undetected", "initialize", "answer", "create", "store"}
        /\ job.peer \in Peers \cup {Server} /\ job.session \in RimeIds \cup {NoSession}
        /\ job.id \in Nat
    BY <1>3 DEF Jobs
  <2>2. job # NoJob
    BY <2>1 DEF NoJob
  <2>. QED
    BY <1>3, <2>1, <2>2
<1>. QED
  BY <1>1, <1>2, <1>3

LEMMA MailKinds ==
  ASSUME Types, NEW p \in Peers
  PROVE  /\ mail[p] \in {Quiet} \cup Requests \cup Answers
         /\ mail[p].kind \in {"none", "request", "answer"}
         /\ mail[p] = Quiet <=> mail[p].kind = "none"
         /\ mail[p].kind = "request" => mail[p].id \in Nat
         /\ mail[p].kind = "answer" => mail[p].value \in Nat
<1>1. mail[p] \in {Quiet} \cup Requests \cup Answers
  BY DEF Types
<1>2. CASE mail[p] = Quiet
  BY <1>2 DEF Quiet
<1>3. CASE mail[p] \in Requests
  <2>1. mail[p].kind = "request" /\ mail[p].id \in Nat
    BY <1>3 DEF Requests
  <2>. QED
    BY <1>1, <2>1 DEF Quiet
<1>4. CASE mail[p] \in Answers
  <2>1. mail[p].kind = "answer" /\ mail[p].value \in Nat
    BY <1>4 DEF Answers
  <2>. QED
    BY <1>1, <2>1 DEF Quiet
<1>. QED
  BY <1>1, <1>2, <1>3, <1>4

LEMMA Someone == Deployer \in Peers /\ Clients \subseteq Peers /\ Deployer \notin Clients
                 /\ Server \notin Peers
BY HandlerAssumption DEF Peers

LEMMA TypeInit == Init => TypeOK
<1>. SUFFICES ASSUME Init PROVE TypeOK
  OBVIOUS
<1>1. Types
  <2>1. IsMap(m_session_status_map) /\ IsSessions(sessions)
    BY EmptyIsMap DEF Init, HandlerInit
  <2>2. /\ mail \in [Peers -> {Quiet} \cup Requests \cup Answers]
        /\ session_id \in [Clients -> Nat]
        /\ pc \in [Clients -> {"idle", "echo", "end", "start", "check", "key", "click", "quit"}]
        /\ events \in 0..MaxEvents
    BY EventsAssumption DEF Init, HandlerInit
  <2>. QED
    BY <2>1, <2>2 DEF Init, HandlerInit, Types
<1>2. ASSUME NEW c \in Clients PROVE ClientWaits(c)
  BY Someone DEF Init, HandlerInit, ClientWaits, Quiet
<1>3. DeployerWaits /\ JobWaits
  BY Someone DEF Init, HandlerInit, DeployerWaits, JobWaits, Quiet, NoJob, Jobs
<1>. QED
  BY <1>1, <1>2, <1>3 DEF TypeOK

\* Who asked gets an answer; nothing else is about the pipes.
LEMMA AnswerWaits ==
  ASSUME TypeOK, NEW p \in Peers, mail[p].kind = "request", NEW v \in Nat,
         Respond(p, v), job' = NoJob, UNCHANGED <<clientVars, deployer>>
  PROVE  /\ mail' \in [Peers -> {Quiet} \cup Requests \cup Answers]
         /\ \A c \in Clients : ClientWaits(c)'
         /\ DeployerWaits' /\ JobWaits'
<1> DEFINE answer == [kind |-> "answer", value |-> v]
<1>1. mail' = [mail EXCEPT ![p] = answer] /\ mail \in [Peers -> {Quiet} \cup Requests \cup Answers]
  BY DEF Respond, TypeOK, Types
<1>2. answer \in Answers /\ answer.kind = "answer" /\ answer # Quiet /\ mail[p] # Quiet
  BY DEF Answers, Quiet
<1>. HIDE DEF answer
<1>3. mail' \in [Peers -> {Quiet} \cup Requests \cup Answers]
  BY <1>1, <1>2
<1>4. ASSUME NEW c \in Clients PROVE ClientWaits(c)'
  <2>1. ClientWaits(c) /\ c \in Peers
    BY Someone DEF TypeOK
  <2>2. CASE c = p
    BY <1>1, <1>2, <2>1, <2>2 DEF ClientWaits, clientVars
  <2>3. CASE c # p
    BY <1>1, <2>1, <2>3 DEF ClientWaits, clientVars
  <2>. QED
    BY <2>2, <2>3
<1>5. DeployerWaits'
  BY <1>1, <1>2, Someone DEF TypeOK, DeployerWaits
<1>6. JobWaits'
  BY DEF JobWaits, Jobs, NoJob
<1>. QED
  BY <1>3, <1>4, <1>5, <1>6

\* The part of Types that is about the handler, but for the pipes and the job.
HandlerTypes ==
  /\ m_pid \in Bases
  /\ m_disabled \in BOOLEAN /\ rime \in BOOLEAN /\ modified \in BOOLEAN
  /\ stale_hit \in BOOLEAN
  /\ IsMap(m_session_status_map) /\ IsSessions(sessions)
  /\ mutex \subseteq {Server, Deployer}
  /\ current \subseteq Clients

LEMMA TypesKept ==
  ASSUME Types, HandlerTypes', job' \in {NoJob} \cup Jobs,
         mail' \in [Peers -> {Quiet} \cup Requests \cup Answers],
         UNCHANGED <<server, clientVars, deployer, events>>, told' \in BOOLEAN
  PROVE  Types'
BY DEF Types, HandlerTypes, clientVars

LEMMA ClearedMap ==
  IsMap(With(<<>>, 0, NoSession)) /\ DOMAIN With(<<>>, 0, NoSession) = {0}
BY EmptyIsMap, WithIsMap DEF With

\* Every request that is served at once.
LEMMA TypeOfRequest ==
  ASSUME TypeOK, NEW p \in Peers, mail[p].kind = "request", job = NoJob,
         NEW id \in Nat, UNCHANGED <<server, clientVars, deployer, events>>, told' \in BOOLEAN,
         \/ FindSession(p, id)
         \/ RemoveSession(p, id)
         \/ ProcessKeyEvent(p, id)
         \/ ChangePage(p, id)
         \/ StartMaintenance(p)
         \/ EndMaintenance(p)
         \/ Respond(p, 0) /\ UNCHANGED handlerButMail
  PROVE  TypeOK'
<1>1. /\ Types /\ HandlerTypes
      /\ IsMap(m_session_status_map) /\ IsSessions(sessions)
  BY DEF TypeOK, Types, HandlerTypes
<1>2. ASSUME NEW v \in Nat, Respond(p, v), HandlerTypes', job' = job PROVE TypeOK'
  <2>1. job' = NoJob
    BY <1>2
  <2>2. /\ mail' \in [Peers -> {Quiet} \cup Requests \cup Answers]
        /\ \A c \in Clients : ClientWaits(c)'
        /\ DeployerWaits' /\ JobWaits'
    BY <1>2, <2>1, AnswerWaits
  <2>3. Types'
    BY <1>1, <1>2, <2>1, <2>2, TypesKept
  <2>. QED
    BY <2>2, <2>3 DEF TypeOK
<1>3. IsMap(Touched(m_session_status_map, id))
  BY <1>1, TouchedIsMap
<1>4. CASE FindSession(p, id)
  <2>1. HandlerTypes'
    BY <1>1, <1>3, <1>4 DEF FindSession, HandlerTypes, UseSession, Observe, rimeVars
  <2>2. \E v \in {0, id} : Respond(p, v)
    BY <1>4 DEF FindSession
  <2>. QED
    BY <1>2, <1>4, <2>1, <2>2 DEF FindSession
<1>5. CASE RemoveSession(p, id)
  <2>1. /\ IsSessions(Restrict(sessions, DOMAIN sessions \ {SessionOf(id)}))
        /\ IsMap(Restrict(m_session_status_map, DOMAIN m_session_status_map \ {id}))
    BY <1>1, RestrictIsMap, RestrictIsSessions
  <2>2. HandlerTypes'
    BY <1>1, <1>5, <2>1 DEF RemoveSession, HandlerTypes, Observe
  <2>. QED
    BY <1>2, <1>5, <2>2 DEF RemoveSession
<1>6. CASE ProcessKeyEvent(p, id)
  <2>1. HandlerTypes'
    BY <1>1, <1>3, <1>6 DEF ProcessKeyEvent, HandlerTypes, UseSession, Observe, rimeVars
  <2>2. \E v \in {0, 1} : Respond(p, v)
    BY <1>6 DEF ProcessKeyEvent
  <2>. QED
    BY <1>2, <1>6, <2>1, <2>2 DEF ProcessKeyEvent
<1>7. CASE ChangePage(p, id)
  <2>1. HandlerTypes'
    BY <1>1, <1>3, <1>7 DEF ChangePage, HandlerTypes, UseSession, Observe, rimeVars
  <2>2. \E v \in {0, 1} : Respond(p, v)
    BY <1>7 DEF ChangePage
  <2>. QED
    BY <1>2, <1>7, <2>1, <2>2 DEF ChangePage
<1>8. CASE StartMaintenance(p)
  <2>1. HandlerTypes'
    BY <1>1, <1>8, ClearedMap, EmptyIsMap DEF StartMaintenance, StopRime, ClearMap, HandlerTypes
  <2>. QED
    BY <1>2, <1>8, <2>1 DEF StartMaintenance, StopRime
<1>9. CASE EndMaintenance(p)
  <2>1. HandlerTypes'
    BY <1>1, <1>9, EmptyIsMap DEF EndMaintenance, ClearMap, HandlerTypes, rimeVars
  <2>. QED
    BY <1>2, <1>9, <2>1 DEF EndMaintenance
<1>10. CASE Respond(p, 0) /\ UNCHANGED handlerButMail
  <2>1. HandlerTypes'
    BY <1>1, <1>10 DEF handlerButMail, HandlerTypes, rimeVars
  <2>. QED
    BY <1>2, <1>10, <2>1 DEF handlerButMail
<1>. QED
  BY <1>4, <1>5, <1>6, <1>7, <1>8, <1>9, <1>10

\* A request starts a job, or is served at once: and then what each needs.
LEMMA ServedAtOnce ==
  ASSUME TypeOK, NEW p \in Peers, Serve(p)
  PROVE  /\ mail[p].kind = "request" /\ job = NoJob /\ mail[p].id \in Nat
         /\ UNCHANGED <<server, clientVars, deployer, events>> /\ told' \in BOOLEAN
         /\ \/ BeginJob(p) /\ mail[p].op \in {"start", "end_maintenance"} /\ m_disabled
               /\ UNCHANGED <<m_pid, m_disabled, m_session_status_map, rimeVars, mutex, mail, current, stale_hit>>
            \/ mail[p].op # "start" /\ FindSession(p, mail[p].id)
            \/ /\ p \in Clients /\ mail[p].op = "start" /\ ~m_disabled /\ AddSession(p)
            \/ mail[p].op = "end" /\ RemoveSession(p, mail[p].id)
            \/ mail[p].op # "start" /\ ProcessKeyEvent(p, mail[p].id)
            \/ mail[p].op # "start" /\ ChangePage(p, mail[p].id)
            \/ StartMaintenance(p)
            \/ EndMaintenance(p)
            \/ Respond(p, 0) /\ UNCHANGED handlerButMail
<1>1. mail[p].kind = "request" /\ job = NoJob /\ UNCHANGED <<server, clientVars, deployer, events>>
  BY DEF Serve
<1>2. mail[p].id \in Nat
  BY <1>1, MailKinds DEF TypeOK
<1>3. told' \in BOOLEAN
  BY DEF Serve, TypeOK, Types
<1>4. p = Deployer => mail[p].op # "start"
  BY <1>1 DEF TypeOK, DeployerWaits
<1>5. p \in Clients \/ p = Deployer
  BY DEF Peers
<1>6. CASE server = "deaf"
  BY <1>1, <1>2, <1>3, <1>6 DEF Serve
<1>7. CASE server # "deaf"
  <2>1. Dispatch(p, mail[p].op, mail[p].id)
    BY <1>7 DEF Serve
  <2>. QED
    BY <1>1, <1>2, <1>3, <1>4, <1>5, <2>1 DEF Dispatch, ResumesService
<1>. QED
  BY <1>6, <1>7

\* The pipes are left alone: only the job has to be looked at.
LEMMA NoMail ==
  ASSUME TypeOK, Types', UNCHANGED <<mail, clientVars, deployer>>,
         job' \in Jobs => \/ job'.peer = Server
                          \/ job \in Jobs /\ job'.peer = job.peer
                          \/ /\ mail[job'.peer].kind = "request"
                             /\ mail[job'.peer].op \in {"start", "end_maintenance"},
         job' \in Jobs /\ job'.step \in {"create", "store"} => job'.peer \in Clients
  PROVE  TypeOK'
<1>1. ASSUME NEW c \in Clients PROVE ClientWaits(c)'
  BY DEF TypeOK, ClientWaits, clientVars
<1>2. DeployerWaits'
  BY DEF TypeOK, DeployerWaits
<1>3. JobWaits'
  BY DEF TypeOK, JobWaits
<1>. QED
  BY <1>1, <1>2, <1>3 DEF TypeOK

LEMMA NewJob ==
  ASSUME NEW p \in Peers \cup {Server}, BeginJob(p)
  PROVE  job' \in Jobs /\ job'.peer = p /\ job'.step = "probe"
BY DEF BeginJob, Jobs

LEMMA NewSession ==
  ASSUME Types, NEW p \in Peers, NEW map, IsMap(map), BeginSession(p, map)
  PROVE  /\ job' \in Jobs /\ job'.peer = p /\ job'.session = NoSession
         /\ job'.step = IF rime THEN "create" ELSE "store"
         /\ job'.id = NewIpcId(map)
<1>1. m_pid \in Nat
  BY HandlerAssumption DEF Types
<1>2. NewIpcId(map) \in Nat
  BY <1>1, NewIdIsNew
<1>. QED
  BY <1>2 DEF BeginSession, Jobs

LEMMA NextStep ==
  ASSUME job \in Jobs, NEW l \in {"probe", "detected", "undetected", "initialize", "answer"}
  PROVE  /\ [job EXCEPT !.step = l] \in Jobs
         /\ [job EXCEPT !.step = l].peer = job.peer
         /\ [job EXCEPT !.step = l].step = l
BY DEF Jobs

\* What create_session gives a job.
LEMMA SessionMade ==
  ASSUME Types, CreateSession
  PROVE  /\ job \in Jobs /\ job.step = "create"
         /\ job' \in Jobs /\ job'.step = "store" /\ job'.peer = job.peer
         /\ job'.id = NewIpcId(m_session_status_map)
         /\ \/ \E s \in RimeIds \ DOMAIN sessions :
                 sessions' = With(sessions, s, job.peer) /\ job'.session = s
            \/ ~rime /\ sessions' = sessions /\ job'.session = job.session
<1>1. job \in Jobs /\ job.step = "create"
  BY JobKinds DEF CreateSession
<1>2. NewIpcId(m_session_status_map) \in Nat
  <2>1. m_pid \in Nat
    BY HandlerAssumption DEF Types
  <2>. QED
    BY <2>1, NewIdIsNew DEF Types
<1> DEFINE n == NewIpcId(m_session_status_map)
<1>3. ASSUME NEW s \in RimeIds \cup {NoSession}
      PROVE  LET j == [job EXCEPT !.step = "store", !.session = s, !.id = n]
             IN  j \in Jobs /\ j.step = "store" /\ j.peer = job.peer /\ j.id = n /\ j.session = s
  BY <1>1, <1>2 DEF Jobs
<1>4. LET j == [job EXCEPT !.step = "store", !.id = n]
      IN  j \in Jobs /\ j.step = "store" /\ j.peer = job.peer /\ j.id = n /\ j.session = job.session
  BY <1>1, <1>2 DEF Jobs
<1>. HIDE DEF n
<1>5. CASE \E s \in RimeIds \ DOMAIN sessions :
             /\ sessions' = With(sessions, s, job.peer)
             /\ job' = [job EXCEPT !.step = "store", !.session = s, !.id = n]
  <2>1. PICK s \in RimeIds \ DOMAIN sessions :
             /\ sessions' = With(sessions, s, job.peer)
             /\ job' = [job EXCEPT !.step = "store", !.session = s, !.id = n]
    BY <1>5
  <2>2. /\ job' \in Jobs /\ job'.step = "store" /\ job'.peer = job.peer /\ job'.id = n
        /\ job'.session = s
    BY <1>3, <2>1
  <2>. QED
    BY <1>1, <2>1, <2>2 DEF n
<1>6. CASE ~rime /\ sessions' = sessions /\ job' = [job EXCEPT !.step = "store", !.id = n]
  BY <1>1, <1>4, <1>6 DEF n
<1>. QED
  BY <1>5, <1>6 DEF CreateSession, n

\* The id a session is stored under is new.
LEMMA SessionStored ==
  ASSUME Types, StoreSession
  PROVE  /\ job \in Jobs /\ job.step = "store" /\ job' = NoJob
         /\ \E id \in {job.id, NewIpcId(m_session_status_map)} :
              /\ id \in Nat
              /\ m_session_status_map' = With(m_session_status_map, id, job.session)
              /\ Respond(job.peer, id)
         /\ NewIpcId(m_session_status_map) \in Nat \ {0}
         /\ NewIpcId(m_session_status_map) \notin DOMAIN m_session_status_map
<1>1. job \in Jobs /\ job.step = "store" /\ job.id \in Nat
  BY JobKinds DEF StoreSession
<1>2. m_pid \in Nat /\ IsMap(m_session_status_map)
  BY HandlerAssumption DEF Types
<1>3. /\ NewIpcId(m_session_status_map) \in Nat \ {0}
      /\ NewIpcId(m_session_status_map) \notin DOMAIN m_session_status_map
  BY <1>2, NewIdIsNew
<1>. QED
  BY <1>1, <1>3 DEF StoreSession

LEMMA TypeOfServe ==
  ASSUME TypeOK, NEW p \in Peers, Serve(p)
  PROVE  TypeOK'
<1>1. CASE BeginJob(p) /\ mail[p].op \in {"start", "end_maintenance"}
           /\ UNCHANGED <<m_pid, m_disabled, m_session_status_map, rimeVars, mutex, mail, current, stale_hit>>
  <2>1. job' \in Jobs /\ job'.peer = p /\ job'.step = "probe"
    BY <1>1, NewJob
  <2>2. HandlerTypes' /\ mail' = mail
    BY <1>1 DEF TypeOK, Types, HandlerTypes, rimeVars
  <2>3. Types'
    BY <2>1, <2>2, ServedAtOnce, TypesKept DEF TypeOK, Types
  <2>. QED
    BY <1>1, <2>1, <2>2, <2>3, ServedAtOnce, NoMail
<1>2. CASE p \in Clients /\ mail[p].op = "start" /\ AddSession(p)
  <2>1. job' \in Jobs /\ job'.peer = p
    BY <1>2, NewSession DEF AddSession, TypeOK, Types
  <2>2. HandlerTypes' /\ mail' = mail
    BY <1>2 DEF AddSession, TypeOK, Types, HandlerTypes, rimeVars
  <2>3. Types'
    BY <2>1, <2>2, ServedAtOnce, TypesKept DEF TypeOK, Types
  <2>. QED
    BY <1>2, <2>1, <2>2, <2>3, ServedAtOnce, NoMail
<1>. QED
  BY <1>1, <1>2, ServedAtOnce, TypeOfRequest

LEMMA TypeOfJob ==
  ASSUME TypeOK, JobStep \/ Started
  PROVE  TypeOK'
<1>1. Types /\ HandlerTypes /\ JobWaits
  BY DEF TypeOK, Types, HandlerTypes
<1>2. CASE (Probe \/ ProbeEnd \/ InitializeRime) /\ UNCHANGED <<server, clientVars, deployerVars, events>>
  <2>1. job \in Jobs
    BY <1>1, <1>2, JobKinds DEF Probe, ProbeEnd, InitializeRime
  <2>2. PICK l \in {"undetected", "detected", "initialize", "answer"} : job' = [job EXCEPT !.step = l]
    BY <1>2 DEF Probe, ProbeEnd, InitializeRime
  <2>3. job' \in Jobs /\ job'.peer = job.peer /\ job'.step \notin {"create", "store"}
    BY <2>1, <2>2, NextStep
  <2>4. HandlerTypes' /\ UNCHANGED mail
    BY <1>1, <1>2 DEF Probe, ProbeEnd, InitializeRime, HandlerTypes, rimeVars
  <2>5. UNCHANGED <<server, clientVars, deployer, events, told>>
    BY <1>2 DEF deployerVars
  <2>6. Types'
    BY <1>1, <2>3, <2>4, <2>5, TypesKept DEF Types
  <2>. QED
    BY <2>1, <2>3, <2>4, <2>5, <2>6, NoMail
<1>3. CASE Started
  <2>1. /\ job' = NoJob /\ UNCHANGED <<clientVars, deployerVars, events>> /\ server' = "running"
        /\ UNCHANGED <<m_pid, m_disabled, m_session_status_map, rimeVars, mutex, mail, current, stale_hit>>
    BY <1>3 DEF Started, FinishStart
  <2>2. Types'
    BY <1>1, <2>1 DEF Types, rimeVars, clientVars, deployerVars
  <2>3. job' \notin Jobs
    BY <2>1 DEF NoJob, Jobs
  <2>. QED
    BY <2>1, <2>2, <2>3, NoMail DEF deployerVars
<1>4. CASE CreateSession /\ UNCHANGED <<server, clientVars, deployerVars, events>>
  <2>1. /\ job \in Jobs /\ job.step = "create"
        /\ job' \in Jobs /\ job'.peer = job.peer
        /\ \/ \E s \in RimeIds \ DOMAIN sessions : sessions' = With(sessions, s, job.peer)
           \/ sessions' = sessions
    BY <1>1, <1>4, SessionMade
  <2>2. job.peer \in Clients /\ job'.peer \in Clients
    BY <1>1, <2>1 DEF JobWaits
  <2>3. IsSessions(sessions')
    <3>1. IsSessions(sessions)
      BY <1>1 DEF Types
    <3>2. ASSUME NEW s \in RimeIds \ DOMAIN sessions, sessions' = With(sessions, s, job.peer)
          PROVE  IsSessions(sessions')
      BY <2>2, <3>1, <3>2, WithIsSessions
    <3>. QED
      BY <2>1, <3>1, <3>2
  <2>4. HandlerTypes' /\ UNCHANGED mail
    BY <1>1, <1>4, <2>3 DEF CreateSession, HandlerTypes
  <2>5. UNCHANGED <<server, clientVars, deployer, events, told>>
    BY <1>4 DEF deployerVars
  <2>6. job \in Jobs /\ job' \in Jobs /\ job'.peer = job.peer
    BY <2>1
  <2>7. Types'
    BY <1>1, <2>4, <2>5, <2>6, TypesKept DEF Types
  <2>8. UNCHANGED <<mail, clientVars, deployer>>
    BY <2>4, <2>5
  <2>. QED
    BY <2>2, <2>6, <2>7, <2>8, NoMail
<1>. QED
  BY <1>2, <1>3, <1>4 DEF JobStep

LEMMA TypeOfResume ==
  ASSUME TypeOK, Resumed
  PROVE  TypeOK'
<1>1. Types /\ HandlerTypes /\ JobWaits /\ UNCHANGED <<server, clientVars, deployer, told, events>>
  BY DEF TypeOK, Types, HandlerTypes, Resumed, deployerVars
<1>2. job \in Jobs /\ job.peer \in Peers
  <2>1. CASE FinishResume
    BY <1>1, <2>1, JobKinds DEF FinishResume
  <2>2. CASE StoreSession
    BY <1>1, <2>2, SessionStored, Someone DEF JobWaits
  <2>. QED
    BY <2>1, <2>2 DEF Resumed
<1>3. mail[job.peer].kind = "request"
  BY <1>1, <1>2, Someone DEF JobWaits
<1>4. ASSUME NEW v \in Nat, Respond(job.peer, v), job' = NoJob, HandlerTypes' PROVE TypeOK'
  <2>1. /\ mail' \in [Peers -> {Quiet} \cup Requests \cup Answers]
        /\ \A c \in Clients : ClientWaits(c)'
        /\ DeployerWaits' /\ JobWaits'
    BY <1>1, <1>2, <1>3, <1>4, AnswerWaits
  <2>2. Types'
    BY <1>1, <1>4, <2>1, TypesKept DEF Types
  <2>. QED
    BY <2>1, <2>2 DEF TypeOK
<1>5. CASE FinishResume
  <2>1. ClearMap(<<>>) /\ HandlerTypes'
    BY <1>1, <1>5, EmptyIsMap DEF FinishResume, HandlerTypes, ClearMap, rimeVars
  <2>2. CASE job.peer # Deployer /\ ~m_disabled
    <3>1. job.peer \in Clients /\ BeginSession(job.peer, <<>>) /\ UNCHANGED mail
      BY <1>2, <1>5, <2>2 DEF FinishResume, Peers
    <3>2. job' \in Jobs /\ job'.peer = job.peer
      BY <1>1, <1>2, <3>1, NewSession, EmptyIsMap
    <3>3. Types'
      BY <1>1, <2>1, <3>1, <3>2, TypesKept DEF Types
    <3>. QED
      BY <1>1, <1>2, <3>1, <3>2, <3>3, NoMail
  <2>3. CASE ~(job.peer # Deployer /\ ~m_disabled)
    BY <1>4, <1>5, <2>1, <2>3 DEF FinishResume
  <2>. QED
    BY <2>2, <2>3
<1>6. CASE StoreSession
  <2>1. PICK id \in {job.id, NewIpcId(m_session_status_map)} :
          /\ id \in Nat
          /\ m_session_status_map' = With(m_session_status_map, id, job.session)
          /\ Respond(job.peer, id)
    BY <1>1, <1>6, SessionStored
  <2>2. job.step = "store" /\ job' = NoJob /\ job.session \in RimeIds \cup {NoSession}
    BY <1>1, <1>2, <1>6, SessionStored DEF Jobs
  <2>3. job.peer \in Clients
    BY <1>1, <1>2, <2>2 DEF JobWaits
  <2>4. IsMap(m_session_status_map')
    BY <1>1, <2>1, <2>2, WithIsMap DEF Types
  <2>5. HandlerTypes'
    BY <1>1, <1>6, <2>3, <2>4 DEF StoreSession, HandlerTypes, rimeVars
  <2>. QED
    BY <1>4, <2>1, <2>2, <2>5
<1>. QED
  BY <1>5, <1>6 DEF Resumed

LEMMA OneMore ==
  ASSUME Types, Disturb \/ UNCHANGED events
  PROVE  events' \in 0..MaxEvents
<1>1. MaxEvents \in Nat
  BY EventsAssumption DEF EventsAssumption
<1>2. events \in 0..MaxEvents
  BY DEF Types
<1>. QED
  BY <1>1, <1>2 DEF Disturb

LEMMA TypeOfServer ==
  ASSUME TypeOK, StartServer \/ Close \/ FinalizeStep \/ ForgetHandler \/ Edit
  PROVE  TypeOK'
<1>1. Types
  BY DEF TypeOK
<1>2. CASE StartServer
  <2>1. job' \in Jobs /\ job'.peer = Server /\ job'.step = "probe"
    BY <1>2, NewJob DEF StartServer
  <2>2. Types' /\ UNCHANGED <<mail, clientVars, deployer>>
    BY <1>1, <1>2, <2>1 DEF StartServer, Types, rimeVars, clientVars, deployerVars
  <2>3. \A c \in Clients : ClientWaits(c)'
    BY <2>2 DEF TypeOK, ClientWaits, clientVars
  <2>4. DeployerWaits' /\ JobWaits'
    BY <2>1, <2>2 DEF TypeOK, DeployerWaits, JobWaits
  <2>. QED
    BY <2>2, <2>3, <2>4 DEF TypeOK
<1>3. CASE Close
  <2>1. Types'
    <3>1. events' \in 0..MaxEvents
      BY <1>1, <1>3, OneMore DEF Close
    <3>. QED
      BY <1>1, <1>3, <3>1 DEF Close, SetDisabled, Types, clientVars, deployerVars, rimeVars
  <2>2. UNCHANGED <<job, mail, clientVars, deployer>>
    BY <1>3 DEF Close, SetDisabled, deployerVars
  <2>3. job' \in Jobs => job' = job /\ job \in Jobs
    BY <2>2
  <2>. QED
    BY <2>1, <2>2, <2>3, NoMail DEF TypeOK, JobWaits
<1>4. CASE FinalizeStep
  <2>1. Types'
    BY <1>1, <1>4, EmptyIsMap DEF FinalizeStep, ForgetSessions, FinalizeRime, ClearMap, Types, clientVars,
       deployerVars, rimeVars
  <2>2. UNCHANGED <<job, mail, clientVars, deployer>>
    BY <1>4 DEF FinalizeStep, ForgetSessions, FinalizeRime, deployerVars
  <2>. QED
    BY <2>1, <2>2, NoMail DEF TypeOK, JobWaits
<1>5. CASE ForgetHandler
  <2>1. /\ UNCHANGED <<m_pid, m_disabled, m_session_status_map, rime, sessions, modified, mutex, job, mail,
                     current, stale_hit, session_id, pc, deployer, told, events>>
        /\ UNCHANGED <<mail, clientVars, deployer>> /\ server' = "deaf"
    BY <1>5 DEF ForgetHandler, handlerVars, rimeVars, clientVars, deployerVars
  <2>2. Types'
    BY <1>1, <2>1 DEF Types
  <2>. QED
    BY <2>1, <2>2, NoMail DEF TypeOK, JobWaits
<1>6. CASE Edit
  <2>1. Types' /\ UNCHANGED <<job, mail, clientVars, deployer>>
    <3>1. events' \in 0..MaxEvents
      BY <1>1, <1>6, OneMore DEF Edit
    <3>. QED
      <4>1. modified' \in BOOLEAN
        BY <1>6 DEF Edit
      <4>2. UNCHANGED <<m_pid, m_disabled, m_session_status_map, rime, sessions, mutex, job, mail,
                        current, stale_hit, server, session_id, pc, deployer, told>>
        BY <1>6 DEF Edit, clientVars, deployerVars
      <4>3. Types'
        BY <1>1, <3>1, <4>1, <4>2, ZenonT(60) DEF Types
      <4>. QED
        BY <4>2, <4>3 DEF clientVars
  <2>. QED
    BY <2>1, NoMail DEF TypeOK, JobWaits
<1>. QED
  BY <1>2, <1>3, <1>4, <1>5, <1>6

\* Every request under way fails at its sender.
LEMMA TypeOfLoss ==
  ASSUME TypeOK, Exit \/ Crash
  PROVE  TypeOK'
<1> DEFINE failed == [kind |-> "answer", value |-> 0]
<1>1. Types
  BY DEF TypeOK
<1>2. LoseServer /\ (UNCHANGED events \/ Disturb)
  BY DEF Exit, Crash
<1>3. mail' = [p \in Peers |-> IF mail[p].kind = "request" THEN failed ELSE mail[p]]
  BY <1>2 DEF LoseServer
<1>4. failed \in Answers /\ failed.kind = "answer" /\ failed # Quiet
  BY DEF Answers, Quiet
<1>. HIDE DEF failed
<1>5. mail' \in [Peers -> {Quiet} \cup Requests \cup Answers]
  BY <1>1, <1>3, <1>4 DEF Types
<1>6. events' \in 0..MaxEvents
  BY <1>1, <1>2, OneMore
<1>7. /\ UNCHANGED <<clientVars, deployerVars, modified, stale_hit>>
      /\ m_pid' \in Bases /\ m_disabled' = TRUE /\ rime' = FALSE
      /\ m_session_status_map' = <<>> /\ sessions' = <<>> /\ current' = {}
      /\ mutex' = mutex \ {Server} /\ job' = NoJob /\ server' = "down"
  BY <1>2 DEF LoseServer, LoseProcess, ClearMap
<1>8. Types'
  BY <1>1, <1>5, <1>6, <1>7, EmptyIsMap DEF Types, clientVars, deployerVars
<1>9. ASSUME NEW c \in Clients PROVE ClientWaits(c)'
  <2>1. ClientWaits(c) /\ c \in Peers
    BY Someone DEF TypeOK
  <2>2. mail[c] = Quiet <=> mail[c].kind = "none"
    BY <1>1, <2>1, MailKinds
  <2>. QED
    BY <1>3, <1>4, <1>7, <2>1, <2>2 DEF ClientWaits, clientVars
<1>10. DeployerWaits'
  BY <1>3, <1>4, Someone DEF DeployerWaits, TypeOK
<1>11. JobWaits'
  BY <1>7 DEF JobWaits, NoJob, Jobs
<1>. QED
  BY <1>8, <1>9, <1>10, <1>11 DEF TypeOK

\* What Send puts into a pipe, with and without a server.
LEMMA Sent ==
  ASSUME Types, NEW p \in Peers, NEW id \in Nat,
         NEW op \in {"echo", "start", "end", "key", "focus", "page", "start_maintenance", "end_maintenance"},
         Send(p, op, id)
  PROVE  \E m \in Requests \cup Answers :
           /\ mail' = [mail EXCEPT ![p] = m] /\ m # Quiet
           /\ m.kind = "request" => m.op = op /\ m.id = id
           /\ m.kind = "answer" => m.value = 0
<1>1. CASE Listening
  <2> DEFINE m == [kind |-> "request", op |-> op, id |-> id]
  <2>1. m \in Requests /\ m.kind = "request" /\ m.op = op /\ m.id = id /\ m # Quiet
    BY DEF Requests, Quiet
  <2>2. mail' = [mail EXCEPT ![p] = m]
    BY <1>1 DEF Send
  <2>. HIDE DEF m
  <2>. QED
    BY <2>1, <2>2
<1>2. CASE ~Listening
  <2> DEFINE m == [kind |-> "answer", value |-> 0]
  <2>1. m \in Answers /\ m.kind = "answer" /\ m.value = 0 /\ m # Quiet
    BY DEF Answers, Quiet
  <2>2. mail' = [mail EXCEPT ![p] = m]
    BY <1>2 DEF Send
  <2>. HIDE DEF m
  <2>. QED
    BY <2>1, <2>2
<1>. QED
  BY <1>1, <1>2

\* A text service moves on: what it must see to.
LEMMA ClientMoves ==
  ASSUME TypeOK, NEW c \in Clients, NEW m \in {Quiet} \cup Requests \cup Answers, NEW id \in Nat,
         NEW l \in {"idle", "echo", "end", "start", "check", "key", "click", "quit"},
         mail' = [mail EXCEPT ![c] = m], pc' = [pc EXCEPT ![c] = l],
         session_id' = [session_id EXCEPT ![c] = id],
         m = Quiet <=> l = "idle", l = "start" => id = 0,
         m.kind = "request" => m.id = id /\ (m.op = "start" <=> l = "start") /\ m.op # "end_maintenance",
         job \in Jobs => job.peer # c,
         current' \subseteq Clients, events' \in 0..MaxEvents,
         UNCHANGED <<server, deployerVars, m_pid, m_disabled, m_session_status_map, rimeVars, mutex,
                     job, stale_hit>>
  PROVE  TypeOK'
<1>1. Types /\ c \in Peers
  BY Someone DEF TypeOK
<1>2. mail' \in [Peers -> {Quiet} \cup Requests \cup Answers]
  BY <1>1 DEF Types
<1>3. Types'
  <2>1. UNCHANGED <<server, deployer, told, m_pid, m_disabled, m_session_status_map, rime, sessions,
                    modified, mutex, job, stale_hit>>
    BY DEF deployerVars, rimeVars
  <2>2. session_id' \in [Clients -> Nat]
        /\ pc' \in [Clients -> {"idle", "echo", "end", "start", "check", "key", "click", "quit"}]
    BY <1>1 DEF Types
  <2>. QED
    BY <1>1, <1>2, <2>1, <2>2, ZenonT(60) DEF Types
<1>4. ASSUME NEW d \in Clients PROVE ClientWaits(d)'
  <2>1. ClientWaits(d) /\ d \in Peers
    BY Someone DEF TypeOK
  <2>2. CASE d = c
    <3>1. mail'[d] = m /\ pc'[d] = l /\ session_id'[d] = id
      BY <1>1, <2>2 DEF Types
    <3>. QED
      BY <3>1 DEF ClientWaits
  <2>3. CASE d # c
    <3>1. mail'[d] = mail[d] /\ pc'[d] = pc[d] /\ session_id'[d] = session_id[d]
      BY <1>1, <2>1, <2>3 DEF Types
    <3>. QED
      BY <2>1, <3>1 DEF ClientWaits
  <2>. QED
    BY <2>2, <2>3
<1>5. mail'[Deployer] = mail[Deployer]
  BY <1>1, Someone DEF Types
<1>6. DeployerWaits'
  BY <1>5 DEF DeployerWaits, TypeOK, deployerVars
<1>7. JobWaits'
  <2>1. SUFFICES ASSUME job \in Jobs, job.peer # Server PROVE mail'[job.peer] = mail[job.peer]
    BY DEF TypeOK, JobWaits
  <2>2. job.peer \in Peers
    BY <2>1 DEF Jobs
  <2>. QED
    BY <1>1, <2>1, <2>2 DEF Types
<1>. QED
  BY <1>3, <1>4, <1>6, <1>7 DEF TypeOK

\* The two ways to move on: with another request, and back to idle.
LEMMA ClientCalls ==
  ASSUME TypeOK, NEW c \in Clients, NEW id \in Nat,
         NEW op \in {"echo", "start", "end", "key", "focus", "page"},
         NEW l \in {"echo", "end", "start", "check", "key", "click", "quit"},
         Call(c, op, id, l), op = "start" <=> l = "start", l = "start" => id = 0,
         session_id' = [session_id EXCEPT ![c] = id],
         mail[c].kind # "request", UNCHANGED <<server, deployerVars, handlerButMail>>,
         Disturb \/ UNCHANGED events
  PROVE  TypeOK'
<1>1. Types /\ c \in Peers
  BY Someone DEF TypeOK
<1>2. PICK m \in Requests \cup Answers :
        /\ mail' = [mail EXCEPT ![c] = m] /\ m # Quiet
        /\ m.kind = "request" => m.op = op /\ m.id = id
  BY <1>1, Sent DEF Call
<1>3. job \in Jobs => job.peer # c
  BY <1>1, Someone DEF TypeOK, JobWaits
<1>4. events' \in 0..MaxEvents
  BY <1>1, OneMore
<1>5. current' \subseteq Clients
  BY <1>1 DEF Types, handlerButMail
<1>6. pc' = [pc EXCEPT ![c] = l]
  BY DEF Call, Goto
<1>. QED
  BY <1>2, <1>3, <1>4, <1>5, <1>6, ClientMoves DEF handlerButMail

LEMMA ClientIdles ==
  ASSUME TypeOK, NEW c \in Clients, NEW id \in Nat,
         Received(c), Goto(c, "idle"), session_id' = [session_id EXCEPT ![c] = id],
         job \in Jobs => job.peer # c, current' \subseteq current, Disturb \/ UNCHANGED events,
         UNCHANGED <<server, deployerVars, m_pid, m_disabled, m_session_status_map, rimeVars, mutex,
                     job, stale_hit>>
  PROVE  TypeOK'
<1>1. Types
  BY DEF TypeOK
<1>2. events' \in 0..MaxEvents /\ current' \subseteq Clients
  BY <1>1, OneMore DEF Types
<1>3. Quiet.kind # "request"
  BY DEF Quiet
<1>. QED
  BY <1>2, <1>3, ClientMoves DEF Received, Goto

LEMMA TypeOfClient ==
  ASSUME TypeOK, NEW c \in Clients, Client(c)
  PROVE  TypeOK'
<1>1. /\ Types /\ c \in Peers /\ session_id[c] \in Nat
      /\ session_id = [session_id EXCEPT ![c] = session_id[c]]
  BY Someone DEF TypeOK, Types
<1>2. ClientWaits(c) /\ UNCHANGED <<server, deployerVars>>
  BY DEF Client, TypeOK
<1>3. /\ mail[c].kind = "answer" => mail[c].value \in Nat
      /\ mail[c] = Quiet <=> mail[c].kind = "none"
  BY <1>1, MailKinds
<1>4. mail[c].kind # "request" => (job \in Jobs => job.peer # c)
  BY <1>1, Someone DEF TypeOK, JobWaits
<1>5. pc[c] = "idle" => mail[c].kind # "request"
  BY <1>2, <1>3 DEF ClientWaits
<1>6. CASE OnAnswer(c) /\ UNCHANGED events
  <2>1. mail[c].kind = "answer" /\ mail[c].kind # "request"
    BY <1>6 DEF OnAnswer, Answered
  <2>2. CASE Echoed(c)
    <3>1. UNCHANGED handlerButMail /\ session_id' = [session_id EXCEPT ![c] = session_id[c]]
      BY <1>1, <2>2 DEF Echoed
    <3>2. \/ Call(c, "key", session_id[c], "key")
          \/ Call(c, "end", session_id[c], "end")
      BY <2>2 DEF Echoed, SendKey
    <3>. QED
      BY <1>1, <1>2, <1>6, <2>1, <3>1, <3>2, ClientCalls
  <2>3. CASE Ended(c)
    BY <1>2, <1>6, <2>1, <2>3, ClientCalls DEF Ended
  <2>4. CASE SessionStarted(c)
    <3>1. UNCHANGED handlerButMail /\ session_id' = [session_id EXCEPT ![c] = mail[c].value]
      BY <2>4 DEF SessionStarted
    <3>2. CASE mail[c].value = 0
      BY <1>2, <1>3, <1>4, <1>6, <2>1, <2>4, <3>1, <3>2, ClientIdles DEF SessionStarted, handlerButMail
    <3>3. CASE mail[c].value # 0
      BY <1>2, <1>3, <1>6, <2>1, <2>4, <3>1, <3>3, ClientCalls DEF SessionStarted
    <3>. QED
      BY <3>2, <3>3
  <2>5. CASE Checked(c)
    <3>1. UNCHANGED handlerButMail /\ session_id' = [session_id EXCEPT ![c] = session_id[c]]
      BY <1>1, <2>5 DEF Checked
    <3>2. Call(c, "key", session_id[c], "key") \/ (Received(c) /\ Goto(c, "idle"))
      BY <2>5 DEF Checked, SendKey
    <3>3. CASE Call(c, "key", session_id[c], "key")
      BY <1>1, <1>2, <1>6, <2>1, <3>1, <3>3, ClientCalls
    <3>4. CASE Received(c) /\ Goto(c, "idle")
      BY <1>1, <1>2, <1>4, <1>6, <2>1, <3>1, <3>4, ClientIdles DEF handlerButMail
    <3>. QED
      BY <3>2, <3>3, <3>4
  <2>6. CASE Done(c)
    <3>1. UNCHANGED handlerButMail /\ session_id' = [session_id EXCEPT ![c] = session_id[c]]
      BY <1>1, <2>6 DEF Done
    <3>. QED
      BY <1>1, <1>2, <1>4, <1>6, <2>1, <2>6, <3>1, ClientIdles DEF Done, handlerButMail
  <2>7. CASE Deactivated(c)
    BY <1>2, <1>4, <1>6, <2>1, <2>7, ClientIdles DEF Deactivated, handlerButMail
  <2>. QED
    BY <1>6, <2>2, <2>3, <2>4, <2>5, <2>6, <2>7 DEF OnAnswer
<1>7. CASE PressKey(c) /\ UNCHANGED events
  <2>1. /\ UNCHANGED handlerButMail /\ session_id' = [session_id EXCEPT ![c] = session_id[c]]
        /\ mail[c].kind # "request"
    BY <1>1, <1>5, <1>7 DEF PressKey
  <2>2. \/ Call(c, "echo", session_id[c], "echo")
        \/ session_id[c] = 0 /\ Call(c, "start", 0, "start")
    BY <1>7 DEF PressKey
  <2>. QED
    BY <1>1, <1>2, <1>7, <2>1, <2>2, ClientCalls
<1>8. CASE \E op \in {"page", "focus"} : Click(c, op)
  <2>1. PICK op \in {"page", "focus"} : Click(c, op)
    BY <1>8
  <2>2. /\ UNCHANGED handlerButMail /\ session_id' = [session_id EXCEPT ![c] = session_id[c]]
        /\ mail[c].kind # "request" /\ Disturb /\ Call(c, op, session_id[c], "click")
    BY <1>1, <1>5, <2>1 DEF Click
  <2>. QED
    BY <1>1, <1>2, <2>2, ClientCalls
<1>9. CASE Deactivate(c)
  <2>1. /\ UNCHANGED handlerButMail /\ session_id' = [session_id EXCEPT ![c] = session_id[c]]
        /\ mail[c].kind # "request" /\ Disturb /\ Call(c, "end", session_id[c], "quit")
    BY <1>1, <1>5, <1>9 DEF Deactivate
  <2>. QED
    BY <1>1, <1>2, <2>1, ClientCalls
<1>10. CASE Killed(c)
  <2>1. job \in Jobs => job.peer # c
    BY <1>1, <1>10, JobKinds DEF Killed
  <2>. QED
    BY <1>2, <1>10, <2>1, ClientIdles DEF Killed
<1>. QED
  BY <1>6, <1>7, <1>8, <1>9, <1>10 DEF Client

\* The deployer moves on, over its pipe or without it.
LEMMA DeployerMoves ==
  ASSUME TypeOK, NEW m \in {Quiet} \cup Requests \cup Answers,
         mail' = [mail EXCEPT ![Deployer] = m],
         deployer' \in {"idle", "gave up", "connect", "starting", "working", "ending"},
         m.kind = "request" => \/ deployer' = "starting" /\ m.op = "start_maintenance"
                               \/ deployer' = "ending" /\ m.op = "end_maintenance",
         job \in Jobs => job.peer # Deployer,
         events' \in 0..MaxEvents, told' \in BOOLEAN, modified' \in BOOLEAN,
         mutex' \subseteq {Server, Deployer},
         UNCHANGED <<server, clientVars, m_pid, m_disabled, m_session_status_map, rime, sessions,
                     job, current, stale_hit>>
  PROVE  TypeOK'
<1>1. Types /\ Deployer \in Peers
  BY Someone DEF TypeOK
<1>2. mail' \in [Peers -> {Quiet} \cup Requests \cup Answers]
  BY <1>1 DEF Types
<1>3. Types'
  BY <1>1, <1>2 DEF Types, clientVars
<1>4. ASSUME NEW c \in Clients PROVE ClientWaits(c)'
  <2>1. mail'[c] = mail[c] /\ ClientWaits(c)
    BY <1>1, Someone DEF Types, TypeOK
  <2>. QED
    BY <2>1 DEF ClientWaits, clientVars
<1>5. DeployerWaits'
  <2>1. mail'[Deployer] = m
    BY <1>1 DEF Types
  <2>. QED
    BY <2>1 DEF DeployerWaits
<1>6. JobWaits'
  <2>1. SUFFICES ASSUME job \in Jobs, job.peer # Server PROVE mail'[job.peer] = mail[job.peer]
    BY DEF TypeOK, JobWaits
  <2>2. job.peer \in Peers
    BY <2>1 DEF Jobs
  <2>. QED
    BY <1>1, <2>1, <2>2 DEF Types
<1>. QED
  BY <1>3, <1>4, <1>5, <1>6 DEF TypeOK

LEMMA TypeOfDeployer ==
  ASSUME TypeOK, DeployerNext
  PROVE  TypeOK'
<1>1. /\ Types /\ Deployer \in Peers /\ mail[Deployer] \in {Quiet} \cup Requests \cup Answers
      /\ mail = [mail EXCEPT ![Deployer] = mail[Deployer]] /\ UNCHANGED <<server, clientVars>>
  BY Someone, MailKinds DEF TypeOK, Types, DeployerNext
<1>2. job \in Jobs /\ job.peer = Deployer => mail[Deployer].kind = "request"
  BY Someone DEF TypeOK, JobWaits
<1>3. Quiet.kind # "request" /\ Quiet \in {Quiet} \cup Requests \cup Answers
  BY DEF Quiet
<1>4. mail[Deployer].kind = "request" => deployer \in {"starting", "ending"}
  BY DEF TypeOK, DeployerWaits
<1>5. CASE EnterDeployer
  <2>1. events' \in 0..MaxEvents /\ mail[Deployer].kind # "request"
    BY <1>1, <1>4, <1>5, OneMore DEF EnterDeployer
  <2>2. mail' = [mail EXCEPT ![Deployer] = mail[Deployer]]
    BY <1>1, <1>5 DEF EnterDeployer
  <2>3. /\ mutex' \subseteq {Server, Deployer} /\ deployer' \in {"connect", "gave up"}
        /\ told' \in BOOLEAN /\ modified' \in BOOLEAN
        /\ UNCHANGED <<m_pid, m_disabled, m_session_status_map, rime, sessions, job, current, stale_hit>>
    BY <1>1, <1>5 DEF EnterDeployer, Types, rimeVars
  <2>. QED
    BY <1>1, <1>2, <2>1, <2>2, <2>3, DeployerMoves
<1>6. CASE ConnectDeployer
  <2>1. /\ events' \in 0..MaxEvents /\ mail[Deployer].kind # "request"
        /\ mutex' \subseteq {Server, Deployer} /\ told' \in BOOLEAN /\ modified' \in BOOLEAN
        /\ UNCHANGED <<m_pid, m_disabled, m_session_status_map, rime, sessions, job, current, stale_hit>>
    BY <1>1, <1>4, <1>6, OneMore DEF ConnectDeployer, handlerButMail, Types, rimeVars
  <2>2. CASE Listening
    <3>1. Send(Deployer, "start_maintenance", 0) /\ deployer' = "starting"
      BY <1>6, <2>2 DEF ConnectDeployer
    <3>2. PICK m \in Requests \cup Answers :
            mail' = [mail EXCEPT ![Deployer] = m] /\ (m.kind = "request" => m.op = "start_maintenance")
      BY <1>1, <3>1, Sent
    <3>. QED
      BY <1>1, <1>2, <2>1, <3>1, <3>2, DeployerMoves
  <2>3. CASE ~Listening
    <3>1. mail' = [mail EXCEPT ![Deployer] = mail[Deployer]] /\ deployer' = "working"
      BY <1>1, <1>6, <2>3 DEF ConnectDeployer
    <3>. QED
      BY <1>1, <1>2, <2>1, <3>1, DeployerMoves
  <2>. QED
    BY <2>2, <2>3
<1>7. CASE MaintenanceStarted \/ MaintenanceEnded
  <2>1. /\ mail' = [mail EXCEPT ![Deployer] = Quiet] /\ mail[Deployer].kind # "request"
        /\ deployer' \in {"working", "idle"}
    BY <1>7 DEF MaintenanceStarted, MaintenanceEnded, Answered, Received
  <2>2. /\ events' \in 0..MaxEvents
        /\ mutex' \subseteq {Server, Deployer} /\ told' \in BOOLEAN /\ modified' \in BOOLEAN
        /\ UNCHANGED <<m_pid, m_disabled, m_session_status_map, rime, sessions, job, current, stale_hit>>
    BY <1>1, <1>7, OneMore DEF MaintenanceStarted, MaintenanceEnded, handlerButMail, Types, rimeVars
  <2>. QED
    BY <1>1, <1>2, <1>3, <2>1, <2>2, DeployerMoves
<1>8. CASE \E success \in BOOLEAN : Worked(success)
  <2>1. PICK success \in BOOLEAN : Worked(success)
    BY <1>8
  <2>2. /\ events' \in 0..MaxEvents /\ mail[Deployer].kind # "request"
        /\ mutex' \subseteq {Server, Deployer} /\ told' \in BOOLEAN /\ modified' \in BOOLEAN
        /\ UNCHANGED <<m_pid, m_disabled, m_session_status_map, rime, sessions, job, current, stale_hit>>
    BY <1>1, <1>4, <2>1, OneMore DEF Worked, Types
  <2>3. CASE success /\ Listening
    <3>1. Send(Deployer, "end_maintenance", 0) /\ deployer' = "ending"
      BY <2>1, <2>3 DEF Worked
    <3>2. PICK m \in Requests \cup Answers :
            mail' = [mail EXCEPT ![Deployer] = m] /\ (m.kind = "request" => m.op = "end_maintenance")
      BY <1>1, <3>1, Sent
    <3>. QED
      BY <1>1, <1>2, <2>2, <3>1, <3>2, DeployerMoves
  <2>4. CASE ~(success /\ Listening)
    <3>1. mail' = [mail EXCEPT ![Deployer] = mail[Deployer]] /\ deployer' = "idle"
      BY <1>1, <2>1, <2>4 DEF Worked
    <3>. QED
      BY <1>1, <1>2, <2>2, <3>1, DeployerMoves
  <2>. QED
    BY <2>3, <2>4
<1>9. CASE DeployerKilled
  <2>1. /\ events' \in 0..MaxEvents /\ mail' = [mail EXCEPT ![Deployer] = Quiet] /\ deployer' = "idle"
        /\ mutex' \subseteq {Server, Deployer} /\ told' \in BOOLEAN /\ modified' \in BOOLEAN
        /\ UNCHANGED <<m_pid, m_disabled, m_session_status_map, rime, sessions, job, current, stale_hit>>
    BY <1>1, <1>9, OneMore DEF DeployerKilled, Received, Types, rimeVars
  <2>2. job \in Jobs => job.peer # Deployer
    BY <1>1, <1>9, JobKinds DEF DeployerKilled
  <2>. QED
    BY <1>1, <1>3, <2>1, <2>2, DeployerMoves
<1>. QED
  BY <1>5, <1>6, <1>7, <1>8, <1>9 DEF DeployerNext, DeployerStep

LEMMA TypeStep == TypeOK /\ [Next]_vars => TypeOK'
<1>. SUFFICES ASSUME TypeOK, [Next]_vars PROVE TypeOK'
  OBVIOUS
<1>1. CASE ServerNext \/ Edit
  BY <1>1, TypeOfServe, TypeOfJob, TypeOfResume, TypeOfServer, TypeOfLoss DEF ServerNext
<1>2. CASE \E c \in Clients : Client(c)
  BY <1>2, TypeOfClient
<1>3. CASE DeployerNext
  BY <1>3, TypeOfDeployer
<1>4. CASE UNCHANGED vars
  <2>1. /\ UNCHANGED <<handlerVars, clientVars, deployerVars>> /\ UNCHANGED server /\ UNCHANGED events
        /\ UNCHANGED <<mail, clientVars, deployer>> /\ UNCHANGED job
    BY <1>4 DEF vars, handlerVars, deployerVars
  <2>2. Types'
    <3>1. UNCHANGED <<m_pid, m_disabled, m_session_status_map, rime, sessions, modified, mutex, job, mail,
                      current, stale_hit, server, session_id, pc, deployer, told, events>>
      BY <2>1 DEF handlerVars, rimeVars, clientVars, deployerVars
    <3>. QED
      BY <3>1, ZenonT(60) DEF TypeOK, Types
  <2>3. job' \in Jobs => job \in Jobs /\ job'.peer = job.peer
    BY <2>1
  <2>. QED
    BY <2>1, <2>2, <2>3, NoMail DEF TypeOK, JobWaits
<1>. QED
  BY <1>1, <1>2, <1>3, <1>4 DEF Next

\* Every variable keeps its type, a text service waits exactly while its pipe is
\* in use, and a job is always somebody's who still waits: requests, deaths of
\* either side and restarts leave nobody with an answer to nothing.
THEOREM TypeCorrect == Spec => []TypeOK
BY TypeInit, TypeStep, PTL DEF Spec

------------------------------------------------------------------------------
(* The session map *)

\* A job starts rime; or it makes a session.
Resuming == job.step \in {"probe", "detected", "undetected", "initialize", "answer"}
Making   == job.step \in {"create", "store"}

\* Finalize has returned on the window thread.
Final == server \in {"finalized", "deaf"}

\* A request under way has reset the flag that Finalize set: rime is off and the
\* handler does not know, nor will it learn before the process ends.
Lost == Final /\ ~rime /\ ~m_disabled /\ ~Resuming

Empty == m_session_status_map = <<>> /\ current = {}

\* No entry has a session; each has one of its own; one that rime has; not s.
Blank(map)        == \A id \in DOMAIN map : map[id] = NoSession
Unique(map)       == \A id \in DOMAIN map : map[id] # NoSession =>
                       \A other \in DOMAIN map \ {id} : map[other] # map[id]
Linked(map, made) == \A id \in DOMAIN map : map[id] # NoSession => map[id] \in DOMAIN made
Apart(map, s)     == \A id \in DOMAIN map : map[id] # NoSession => map[id] # s

\* Only a process that starts has a job of its own, and only one whose pipes
\* are served has sessions.
JobPlace ==
  /\ job \in Jobs => server # "down" /\ (job.peer = Server <=> server = "starting")
  /\ ~Listening => Empty

\* A handler that is not disabled has rime, until it is finalized.
RimeIsOn ==
  /\ ~Final /\ ~m_disabled /\ (Resuming => job.step = "answer") => rime
  /\ Making /\ ~Final => rime
  /\ Making /\ ~Closing => ~m_disabled

\* Finalize has cleared the map under a request that makes a session.
Cleared == Making /\ m_disabled /\ server \in {"forgetting", "finalized", "deaf"} => Empty

\* A disabled handler knows no session.
Disabled == ~Closing /\ (m_disabled \/ Resuming) => Blank(m_session_status_map) /\ current = {}

\* Rime has every session of the map.
RimeKnows ==
  rime /\ ~Resuming =>
    /\ Linked(m_session_status_map, sessions)
    /\ job.step = "store" => job.session \in DOMAIN sessions

OneEntry ==
  ~Lost => /\ Unique(m_session_status_map)
           /\ job.step = "store" => Apart(m_session_status_map, job.session)

\* What is about to be stored, under which id.
Storing ==
  /\ job.step = "create" => job.session = NoSession
  /\ job.step = "store" =>
       /\ job.session \in DOMAIN sessions => sessions[job.session] = job.peer
       /\ job.id \notin DOMAIN m_session_status_map /\ job.id # 0

MapInv == JobPlace /\ RimeIsOn /\ Cleared /\ Disabled /\ RimeKnows /\ OneEntry /\ Storing

LEMMA NoSessionMade ==
  ASSUME NEW made, IsSessions(made)
  PROVE  NoSession \notin DOMAIN made
BY HandlerAssumption DEF IsSessions, RimeIds, NoSession

LEMMA ClearedIsSound ==
  ASSUME NEW map \in {<<>>, With(<<>>, 0, NoSession)}, NEW made, NEW s
  PROVE  Blank(map) /\ Unique(map) /\ Linked(map, made) /\ Apart(map, s)
<1>1. DOMAIN <<>> = {}
  BY EmptyIsMap
<1>2. /\ DOMAIN With(<<>>, 0, NoSession) = {0}
      /\ With(<<>>, 0, NoSession)[0] = NoSession
  BY <1>1 DEF With
<1>3. Blank(map)
  BY <1>1, <1>2 DEF Blank
<1>. QED
  BY <1>3 DEF Blank, Unique, Linked, Apart

LEMMA TouchedIsSound ==
  ASSUME NEW map, NEW made, NEW s, NEW id
  PROVE  /\ Blank(map) => Blank(Touched(map, id))
         /\ Unique(map) => Unique(Touched(map, id))
         /\ Linked(map, made) => Linked(Touched(map, id), made)
<1>1. CASE id \in DOMAIN map
  BY <1>1 DEF Touched
<1>2. CASE id \notin DOMAIN map
  <2> DEFINE w == With(map, id, NoSession)
  <2>1. /\ DOMAIN w = DOMAIN map \cup {id} /\ w[id] = NoSession
        /\ \A y \in DOMAIN map : w[y] = map[y]
    BY <1>2 DEF With
  <2>2. Touched(map, id) = w
    BY <1>2 DEF Touched
  <2>. HIDE DEF w
  <2>3. /\ Blank(map) => Blank(w)
        /\ Linked(map, made) => Linked(w, made)
    BY <2>1, <2>2 DEF Blank, Linked
  <2>4. Unique(map) => Unique(w)
    BY <2>1, <2>2 DEF Unique
  <2>. QED
    BY <2>2, <2>3, <2>4
<1>. QED
  BY <1>1, <1>2

LEMMA AddedIsSound ==
  ASSUME NEW map, NEW made, NEW id, id \notin DOMAIN map, NEW s, Apart(map, s)
  PROVE  /\ Unique(map) => Unique(With(map, id, s))
         /\ Linked(map, made) /\ (s # NoSession => s \in DOMAIN made) => Linked(With(map, id, s), made)
<1> DEFINE w == With(map, id, s)
<1>1. /\ DOMAIN w = DOMAIN map \cup {id} /\ w[id] = s
      /\ \A y \in DOMAIN map : w[y] = map[y]
  BY DEF With
<1>. HIDE DEF w
<1>2. Unique(map) => Unique(w)
  BY <1>1 DEF Unique, Apart
<1>3. Linked(map, made) /\ (s # NoSession => s \in DOMAIN made) => Linked(w, made)
  BY <1>1 DEF Linked
<1>. QED
  BY <1>2, <1>3 DEF w

LEMMA RemovedIsSound ==
  ASSUME NEW map, NEW made, NEW id, NEW s, s = IF id \in DOMAIN map THEN map[id] ELSE NoSession,
         NoSession \notin DOMAIN made
  PROVE  LET w == Restrict(map, DOMAIN map \ {id})
         IN  /\ Blank(map) => Blank(w)
             /\ Unique(map) => Unique(w)
             /\ Unique(map) /\ Linked(map, made) => Linked(w, Restrict(made, DOMAIN made \ {s}))
<1> DEFINE w == Restrict(map, DOMAIN map \ {id})
           m == Restrict(made, DOMAIN made \ {s})
<1>1. /\ DOMAIN w = DOMAIN map \ {id} /\ DOMAIN m = DOMAIN made \ {s}
      /\ \A y \in DOMAIN map \ {id} : w[y] = map[y]
  BY RestrictProperties
<1>. HIDE DEF w, m
<1>2. (Blank(map) => Blank(w)) /\ (Unique(map) => Unique(w))
  BY <1>1 DEF Blank, Unique
<1>3. Unique(map) /\ Linked(map, made) => Linked(w, m)
  BY <1>1 DEF Unique, Linked
<1>. QED
  BY <1>2, <1>3 DEF w, m

\* Steps that touch neither the map, nor rime's sessions, nor the job, nor the
\* server: the clients, the deployer, the user, and requests that change nothing.
LEMMA MapKept ==
  ASSUME TypeOK, MapInv, UNCHANGED <<m_session_status_map, sessions, rime, job, m_disabled, server>>,
         current' \subseteq current
  PROVE  MapInv'
<1>1. JobPlace'
  BY DEF MapInv, JobPlace, Listening, Closing, Empty
<1>2. RimeIsOn'
  BY DEF MapInv, RimeIsOn, Making, Resuming, Final, Closing
<1>3. Cleared' /\ Disabled'
  BY DEF MapInv, Cleared, Disabled, Making, Resuming, Closing, Empty
<1>4. RimeKnows' /\ OneEntry'
  BY DEF MapInv, RimeKnows, OneEntry, Lost, Final, Resuming
<1>5. Storing'
  BY DEF MapInv, Storing
<1>. QED
  BY <1>1, <1>2, <1>3, <1>4, <1>5 DEF MapInv

\* Requests that find no job, leave none and start or stop nothing.
LEMMA MapServed ==
  ASSUME TypeOK, MapInv, Listening, job = NoJob, UNCHANGED <<job, m_disabled, server, rime>>,
         Blank(m_session_status_map) => Blank(m_session_status_map'),
         Unique(m_session_status_map) => Unique(m_session_status_map'),
         Unique(m_session_status_map) /\ Linked(m_session_status_map, sessions)
            => Linked(m_session_status_map', sessions'),
         current' \subseteq current
  PROVE  MapInv'
<1>1. job.step = "none" /\ job'.step = "none" /\ job' \notin Jobs
  BY DEF NoJob, Jobs
<1>2. ~Resuming /\ ~Making /\ ~Resuming' /\ ~Making'
  BY <1>1 DEF Resuming, Making
<1>3. JobPlace' /\ Cleared' /\ Storing'
  BY <1>1, <1>2 DEF JobPlace, Listening, Closing, Cleared, Storing
<1>4. RimeIsOn'
  BY <1>2 DEF MapInv, RimeIsOn, Final, Closing
<1>5. Disabled'
  BY <1>2 DEF MapInv, Disabled, Closing
<1>6. RimeKnows'
  BY <1>1, <1>2 DEF MapInv, RimeKnows, OneEntry, Lost
<1>7. OneEntry'
  BY <1>1, <1>2 DEF MapInv, OneEntry, Lost, Final
<1>. QED
  BY <1>3, <1>4, <1>5, <1>6, <1>7 DEF MapInv

\* A request that AddSession or FinishResume lets pass is made a session.
LEMMA MapBegun ==
  ASSUME TypeOK, MapInv, NEW p \in Clients, BeginSession(p, m_session_status_map'), ~m_disabled,
         Listening, ~Making, Resuming => job.step = "answer",
         UNCHANGED <<m_disabled, server, rime, sessions>>,
         \/ ~Resuming /\ UNCHANGED m_session_status_map
         \/ m_session_status_map' = <<>>
  PROVE  MapInv'
<1>1. Types /\ IsMap(m_session_status_map') /\ m_pid \in Nat /\ p \in Peers /\ p # Server
  BY EmptyIsMap, HandlerAssumption, Someone DEF TypeOK, Types
<1>2. /\ job' \in Jobs /\ job'.peer = p /\ job'.session = NoSession
      /\ job'.step = IF rime THEN "create" ELSE "store"
      /\ job'.id = NewIpcId(m_session_status_map')
  BY <1>1, NewSession
<1>3. Making' /\ ~Resuming'
  BY <1>2 DEF Making, Resuming
<1>4. NewIpcId(m_session_status_map') \in Nat \ {0}
      /\ NewIpcId(m_session_status_map') \notin DOMAIN m_session_status_map'
  BY <1>1, NewIdIsNew
<1>5. JobPlace'
  BY <1>1, <1>2 DEF JobPlace, Listening, Closing
<1>6. ~Final => rime
  BY DEF MapInv, RimeIsOn
<1>7. RimeIsOn' /\ Cleared' /\ Disabled'
  BY <1>3, <1>6 DEF RimeIsOn, Final, Cleared, Disabled
<1>8. /\ ~Lost' => Unique(m_session_status_map')
      /\ rime => Linked(m_session_status_map', sessions)
  <2>1. CASE ~Resuming /\ UNCHANGED m_session_status_map
    BY <1>3, <2>1 DEF MapInv, OneEntry, RimeKnows, Lost, Final
  <2>2. CASE m_session_status_map' = <<>>
    BY <2>2, ClearedIsSound
  <2>. QED
    BY <2>1, <2>2
<1>9. RimeKnows'
  BY <1>2, <1>8 DEF RimeKnows
<1>10. OneEntry'
  <2>1. Apart(m_session_status_map', NoSession)
    BY DEF Apart
  <2>. QED
    BY <1>2, <1>8, <2>1 DEF OneEntry
<1>11. Storing'
  <2>1. NoSession \notin DOMAIN sessions'
    BY <1>1, NoSessionMade DEF Types
  <2>. QED
    BY <1>2, <1>4, <2>1 DEF Storing
<1>. QED
  BY <1>5, <1>7, <1>9, <1>10, <1>11 DEF MapInv

LEMMA MapOfServe ==
  ASSUME TypeOK, MapInv, NEW p \in Peers, Serve(p)
  PROVE  MapInv'
<1>1. /\ Types /\ Listening /\ job = NoJob /\ server' = server /\ IsSessions(sessions)
      /\ ~Resuming /\ ~Making
  BY ServedAtOnce DEF TypeOK, Types, Serve, NoJob, Resuming, Making
<1>2. NoSession \notin DOMAIN sessions
  BY <1>1, NoSessionMade
<1>3. CASE Respond(p, 0) /\ UNCHANGED handlerButMail
  BY <1>1, <1>3, MapKept DEF handlerButMail, rimeVars
<1>4. CASE BeginJob(p) /\ m_disabled
           /\ UNCHANGED <<m_pid, m_disabled, m_session_status_map, rimeVars, mutex, mail, current, stale_hit>>
  <2>1. job'.step = "probe" /\ job'.peer = p /\ p # Server
    BY <1>4, NewJob, Someone
  <2>2. /\ UNCHANGED <<m_disabled, m_session_status_map, rime, sessions, current>>
        /\ Resuming' /\ ~Making' /\ ~Lost'
    BY <1>4, <2>1 DEF Resuming, Making, Lost, rimeVars
  <2>3. JobPlace'
    BY <1>1, <2>1 DEF JobPlace, Listening, Closing
  <2>4. RimeIsOn' /\ Cleared' /\ RimeKnows' /\ Storing'
    BY <2>1, <2>2 DEF RimeIsOn, Cleared, RimeKnows, Storing
  <2>5. Disabled'
    BY <1>1, <1>4, <2>2 DEF MapInv, Disabled, Closing
  <2>6. OneEntry'
    BY <1>4, <2>1, <2>2 DEF MapInv, OneEntry, Lost
  <2>. QED
    BY <2>3, <2>4, <2>5, <2>6 DEF MapInv
<1>5. CASE FindSession(p, mail[p].id) \/ ProcessKeyEvent(p, mail[p].id) \/ ChangePage(p, mail[p].id)
  <2>1. /\ m_session_status_map' \in {m_session_status_map, Touched(m_session_status_map, mail[p].id)}
        /\ UNCHANGED <<job, m_disabled, rime, sessions, current>>
    BY <1>5 DEF FindSession, ProcessKeyEvent, ChangePage, UseSession, rimeVars
  <2>2. /\ Blank(m_session_status_map) => Blank(m_session_status_map')
        /\ Unique(m_session_status_map) => Unique(m_session_status_map')
        /\ Linked(m_session_status_map, sessions) => Linked(m_session_status_map', sessions')
    BY <2>1, TouchedIsSound
  <2>. QED
    BY <1>1, <2>1, <2>2, MapServed
<1>6. CASE p \in Clients /\ ~m_disabled /\ AddSession(p)
  BY <1>1, <1>6, MapBegun DEF AddSession, rimeVars
<1>7. CASE RemoveSession(p, mail[p].id)
  <2>1. CASE m_disabled
    BY <1>1, <1>7, <2>1, MapKept DEF RemoveSession
  <2>2. CASE ~m_disabled
    <3> DEFINE id == mail[p].id
    <3>1. /\ sessions' = Restrict(sessions, DOMAIN sessions \ {SessionOf(id)})
          /\ m_session_status_map' = Restrict(m_session_status_map, DOMAIN m_session_status_map \ {id})
          /\ UNCHANGED <<job, m_disabled, rime>> /\ current' \subseteq current
      BY <1>7, <2>2 DEF RemoveSession
    <3>2. /\ Blank(m_session_status_map) => Blank(m_session_status_map')
          /\ Unique(m_session_status_map) => Unique(m_session_status_map')
          /\ Unique(m_session_status_map) /\ Linked(m_session_status_map, sessions)
               => Linked(m_session_status_map', sessions')
      BY <1>2, <3>1, RemovedIsSound DEF SessionOf
    <3>. QED
      BY <1>1, <3>1, <3>2, MapServed
  <2>. QED
    BY <2>1, <2>2
<1>8. CASE StartMaintenance(p)
  <2>1. /\ m_session_status_map' = With(<<>>, 0, NoSession) /\ current' = {} /\ m_disabled' = TRUE
        /\ rime' = FALSE /\ job' = job /\ job'.step = "none"
    BY <1>1, <1>8 DEF StartMaintenance, StopRime, ClearMap, NoJob
  <2>2. /\ Blank(m_session_status_map') /\ Unique(m_session_status_map')
        /\ ~Making' /\ ~Resuming' /\ job' \notin Jobs
    BY <1>1, <2>1, ClearedIsSound DEF Making, Resuming, NoJob, Jobs
  <2>. QED
    BY <1>1, <2>1, <2>2 DEF MapInv, JobPlace, RimeIsOn, Cleared, Disabled, RimeKnows, OneEntry, Storing,
                            Listening, Closing
<1>9. CASE EndMaintenance(p)
  <2>1. m_session_status_map' = <<>> /\ current' = {} /\ UNCHANGED <<job, m_disabled, rime, sessions>>
    BY <1>9 DEF EndMaintenance, ClearMap, rimeVars
  <2>2. /\ Blank(m_session_status_map') /\ Unique(m_session_status_map')
        /\ Linked(m_session_status_map', sessions')
    BY <2>1, ClearedIsSound
  <2>. QED
    BY <1>1, <2>1, <2>2, MapServed
<1>. QED
  BY ServedAtOnce, <1>3, <1>4, <1>5, <1>6, <1>7, <1>8, <1>9

LEMMA MapOfJob ==
  ASSUME TypeOK, MapInv, JobStep \/ Started
  PROVE  MapInv'
<1>1. Types /\ IsSessions(sessions)
  BY DEF TypeOK, Types
<1>2. CASE (Probe \/ ProbeEnd \/ InitializeRime) /\ server' = server
  <2>1. job \in Jobs /\ Resuming
    BY <1>1, <1>2, JobKinds DEF Probe, ProbeEnd, InitializeRime, Resuming
  <2>2. PICK l \in {"undetected", "detected", "initialize", "answer"} :
          job' = [job EXCEPT !.step = l] /\ (l = "answer" => rime' \/ m_disabled')
    BY <1>2 DEF Probe, ProbeEnd, InitializeRime
  <2>3. job' \in Jobs /\ job'.peer = job.peer /\ job'.step = l
    BY <2>1, <2>2, NextStep
  <2>4. Resuming' /\ ~Making' /\ ~Lost /\ ~Lost' /\ job'.step \notin {"create", "store"}
    BY <2>1, <2>3 DEF Resuming, Making, Lost
  <2>5. UNCHANGED <<m_session_status_map, sessions, current>>
    BY <1>2 DEF Probe, ProbeEnd, InitializeRime, rimeVars
  <2>6. JobPlace'
    BY <1>2, <2>1, <2>3, <2>5 DEF MapInv, JobPlace, Listening, Closing, Empty
  <2>7. RimeIsOn'
    BY <2>2, <2>3, <2>4 DEF RimeIsOn
  <2>8. Disabled'
    BY <1>2, <2>1, <2>5 DEF MapInv, Disabled, Closing
  <2>9. OneEntry'
    BY <2>4, <2>5 DEF MapInv, OneEntry
  <2>10. Cleared' /\ RimeKnows' /\ Storing'
    BY <2>4 DEF Cleared, RimeKnows, Storing
  <2>. QED
    BY <2>6, <2>7, <2>8, <2>9, <2>10 DEF MapInv
<1>3. CASE CreateSession /\ server' = server
  <2>1. /\ job \in Jobs /\ job.step = "create"
        /\ job' \in Jobs /\ job'.step = "store" /\ job'.peer = job.peer
        /\ job'.id = NewIpcId(m_session_status_map)
    BY <1>1, <1>3, SessionMade
  <2>2. UNCHANGED <<m_session_status_map, current, m_disabled, rime>>
    BY <1>3 DEF CreateSession
  <2>3. Making /\ Making' /\ ~Resuming /\ ~Resuming'
    BY <2>1 DEF Making, Resuming
  <2>4. m_pid \in Nat /\ IsMap(m_session_status_map)
    BY <1>1, HandlerAssumption DEF Types
  <2>5. job.session = NoSession
    BY <2>1 DEF MapInv, Storing
  <2>6. job'.id \notin DOMAIN m_session_status_map' /\ job'.id # 0
    BY <2>1, <2>2, <2>4, NewIdIsNew
  <2>7. JobPlace'
    BY <1>3, <2>1, <2>2 DEF MapInv, JobPlace, Listening, Closing, Empty
  <2>8. RimeIsOn' /\ Cleared' /\ Disabled'
    BY <1>3, <2>2, <2>3 DEF MapInv, RimeIsOn, Cleared, Disabled, Final, Closing, Empty
  <2>9. CASE \E s \in RimeIds \ DOMAIN sessions :
               sessions' = With(sessions, s, job.peer) /\ job'.session = s
    <3>1. PICK s \in RimeIds \ DOMAIN sessions :
               sessions' = With(sessions, s, job.peer) /\ job'.session = s
      BY <2>9
    <3>2. /\ DOMAIN sessions' = DOMAIN sessions \cup {s} /\ sessions'[s] = job.peer
          /\ s # NoSession
      BY <3>1, HandlerAssumption DEF With, RimeIds, NoSession
    <3>3. RimeKnows'
      BY <2>2, <2>3, <3>1, <3>2 DEF MapInv, RimeKnows, Linked
    <3>4. ~Lost' => ~Lost
      BY <1>3, <2>2, <2>3 DEF Lost, Final
    <3>5. ~Lost => Apart(m_session_status_map, s)
      <4>1. rime => Apart(m_session_status_map, s)
        BY <2>3, <3>1 DEF MapInv, RimeKnows, Linked, Apart
      <4>2. ~rime /\ ~Lost => Empty
        BY <2>3 DEF MapInv, RimeIsOn, Cleared, Lost, Final
      <4>3. Empty => Apart(m_session_status_map, s)
        BY ClearedIsSound DEF Empty
      <4>. QED
        BY <4>1, <4>2, <4>3
    <3>6. OneEntry'
      BY <2>2, <3>1, <3>4, <3>5 DEF MapInv, OneEntry
    <3>7. Storing'
      BY <2>1, <2>6, <3>1, <3>2 DEF Storing
    <3>. QED
      BY <2>7, <2>8, <3>3, <3>6, <3>7 DEF MapInv
  <2>10. CASE ~rime /\ sessions' = sessions /\ job'.session = NoSession
    <3>1. NoSession \notin DOMAIN sessions /\ Apart(m_session_status_map, NoSession)
      BY <1>1, NoSessionMade DEF Apart
    <3>2. RimeKnows'
      BY <2>2, <2>10 DEF RimeKnows
    <3>3. OneEntry'
      BY <1>3, <2>2, <2>3, <2>10, <3>1 DEF MapInv, OneEntry, Lost, Final
    <3>4. Storing'
      BY <2>1, <2>6, <2>10, <3>1 DEF Storing
    <3>. QED
      BY <2>7, <2>8, <3>2, <3>3, <3>4 DEF MapInv
  <2>. QED
    BY <1>1, <1>3, <2>5, <2>9, <2>10, SessionMade
<1>4. CASE Started
  <2>1. /\ job.step = "answer" /\ job.peer = Server /\ job' = NoJob /\ server' = "running"
        /\ UNCHANGED <<m_disabled, m_session_status_map, rime, sessions, current>>
    BY <1>4 DEF Started, FinishStart, rimeVars
  <2>2. job \in Jobs /\ job' \notin Jobs /\ job'.step = "none"
    BY <1>1, <2>1, JobKinds DEF NoJob, Jobs
  <2>3. server = "starting" /\ Resuming
    BY <2>1, <2>2 DEF MapInv, JobPlace, Resuming
  <2>4. Blank(m_session_status_map') /\ current' = {} /\ ~Final /\ (~m_disabled => rime)
    BY <2>1, <2>3 DEF MapInv, Disabled, RimeIsOn, Closing, Final
  <2>5. /\ Unique(m_session_status_map') /\ Linked(m_session_status_map', sessions')
        /\ ~Making' /\ ~Resuming'
    BY <2>2, <2>4 DEF Blank, Unique, Linked, Making, Resuming
  <2>. QED
    BY <2>1, <2>2, <2>4, <2>5 DEF MapInv, JobPlace, RimeIsOn, Cleared, Disabled, RimeKnows, OneEntry,
                                  Storing, Listening
<1>. QED
  BY <1>2, <1>3, <1>4 DEF JobStep

LEMMA MapOfResume ==
  ASSUME TypeOK, MapInv, Resumed
  PROVE  MapInv'
<1>1. Types /\ JobWaits /\ server' = server
  BY DEF TypeOK, Types, Resumed
<1>2. job \in Jobs /\ job.peer # Server
  <2>1. CASE FinishResume
    BY <1>1, <2>1, JobKinds DEF FinishResume
  <2>2. CASE StoreSession
    BY <1>1, <2>2, SessionStored, Someone DEF JobWaits, Peers
  <2>. QED
    BY <2>1, <2>2 DEF Resumed
<1>3. Listening
  BY <1>1, <1>2 DEF MapInv, JobPlace, Types, Listening, Closing
<1>4. CASE FinishResume
  <2>1. /\ job.step = "answer" /\ m_session_status_map' = <<>> /\ current' = {}
        /\ UNCHANGED <<m_disabled, rime, sessions>>
    BY <1>4 DEF FinishResume, ClearMap, rimeVars
  <2>2. Resuming /\ ~Making
    BY <2>1 DEF Resuming, Making
  <2>3. CASE job.peer # Deployer /\ ~m_disabled
    <3>1. job.peer \in Clients /\ BeginSession(job.peer, m_session_status_map')
      BY <1>2, <1>4, <2>1, <2>3 DEF FinishResume, Jobs, Peers
    <3>. QED
      BY <1>1, <1>3, <2>1, <2>2, <2>3, <3>1, MapBegun
  <2>4. CASE ~(job.peer # Deployer /\ ~m_disabled)
    <3>1. job' = NoJob /\ job'.step = "none" /\ job' \notin Jobs
      BY <1>4, <2>4 DEF FinishResume, NoJob, Jobs
    <3>2. ~Making' /\ ~Resuming' /\ Blank(m_session_status_map') /\ Unique(m_session_status_map')
          /\ Linked(m_session_status_map', sessions')
      BY <2>1, <3>1, ClearedIsSound DEF Making, Resuming
    <3>3. JobPlace' /\ Cleared' /\ Disabled' /\ RimeKnows' /\ OneEntry' /\ Storing'
      BY <2>1, <3>1, <3>2 DEF JobPlace, Empty, Cleared, Disabled, RimeKnows, OneEntry, Storing
    <3>4. RimeIsOn'
      BY <1>1, <2>1, <2>2, <3>2 DEF MapInv, RimeIsOn, Final
    <3>. QED
      BY <3>3, <3>4 DEF MapInv
  <2>. QED
    BY <2>3, <2>4
<1>5. CASE StoreSession
  <2>1. /\ job.step = "store" /\ job' = NoJob /\ UNCHANGED <<m_disabled, rime, sessions>>
        /\ NewIpcId(m_session_status_map) \notin DOMAIN m_session_status_map
    BY <1>1, <1>5, SessionStored DEF StoreSession, rimeVars
  <2>2. PICK id \in {job.id, NewIpcId(m_session_status_map)} :
          m_session_status_map' = With(m_session_status_map, id, job.session)
    BY <1>1, <1>5, SessionStored
  <2>3. id \notin DOMAIN m_session_status_map
    BY <2>1, <2>2 DEF MapInv, Storing
  <2>4. Making /\ ~Resuming /\ ~Making' /\ ~Resuming' /\ job'.step = "none" /\ job' \notin Jobs
    BY <2>1 DEF Making, Resuming, NoJob, Jobs
  <2>5. Apart(m_session_status_map, job.session) =>
          /\ Unique(m_session_status_map) => Unique(m_session_status_map')
          /\ Linked(m_session_status_map, sessions) /\ job.session \in DOMAIN sessions
               => Linked(m_session_status_map', sessions)
    <3>1. SUFFICES ASSUME Apart(m_session_status_map, job.session)
          PROVE  /\ Unique(m_session_status_map) => Unique(m_session_status_map')
                 /\ Linked(m_session_status_map, sessions) /\ job.session \in DOMAIN sessions
                      => Linked(m_session_status_map', sessions)
      OBVIOUS
    <3>. DEFINE w == With(m_session_status_map, id, job.session)
    <3>2. /\ Unique(m_session_status_map) => Unique(w)
          /\ Linked(m_session_status_map, sessions) /\ job.session \in DOMAIN sessions
               => Linked(w, sessions)
      BY <2>3, <3>1, AddedIsSound
    <3>. HIDE DEF w
    <3>3. m_session_status_map' = w
      BY <2>2 DEF w
    <3>. QED
      BY <3>2, <3>3
  <2>6. OneEntry'
    BY <1>1, <2>1, <2>4, <2>5 DEF MapInv, OneEntry, Lost, Final
  <2>7. RimeKnows'
    BY <1>1, <2>1, <2>4, <2>5 DEF MapInv, RimeKnows, OneEntry, Lost
  <2>8. JobPlace' /\ Cleared' /\ Storing'
    BY <1>1, <1>3, <2>4 DEF JobPlace, Listening, Closing, Cleared, Storing
  <2>9. RimeIsOn' /\ Disabled'
    BY <1>1, <2>1, <2>4 DEF MapInv, RimeIsOn, Disabled, Final, Closing
  <2>. QED
    BY <2>6, <2>7, <2>8, <2>9 DEF MapInv
<1>. QED
  BY <1>4, <1>5 DEF Resumed

\* The window thread finalizes, with a request under way or without.
LEMMA MapOfClosing ==
  ASSUME TypeOK, MapInv, Close \/ FinalizeStep \/ ForgetHandler
  PROVE  MapInv'
<1>1. /\ server \in {"running", "closing", "forgetting", "finalized"}
      /\ server' \in {"closing", "forgetting", "finalized", "deaf"} /\ Listening /\ Listening' /\ Closing'
      /\ job' = job
  BY DEF Close, FinalizeStep, ForgetHandler, Listening, Closing, SetDisabled, ForgetSessions, FinalizeRime,
         handlerVars
<1>2. JobPlace' /\ Disabled'
  BY <1>1 DEF MapInv, JobPlace, Disabled
<1>3. (Resuming' <=> Resuming) /\ (Making' <=> Making)
  BY <1>1 DEF Resuming, Making
<1>4. CASE Close
  <2>1. /\ UNCHANGED <<m_session_status_map, rime, sessions, current>> /\ m_disabled' = TRUE
        /\ server = "running" /\ server' = "closing"
    BY <1>4 DEF Close, SetDisabled, rimeVars
  <2>2. RimeIsOn' /\ Cleared'
    BY <1>1, <1>3, <2>1 DEF MapInv, RimeIsOn, Cleared, Final
  <2>3. RimeKnows' /\ OneEntry' /\ Storing'
    BY <1>1, <1>3, <2>1 DEF MapInv, RimeKnows, OneEntry, Lost, Final, Storing
  <2>. QED
    BY <1>2, <2>2, <2>3 DEF MapInv
<1>5. CASE server = "closing" /\ ForgetSessions /\ server' = "forgetting"
  <2>1. /\ m_session_status_map' = <<>> /\ current' = {} /\ UNCHANGED <<rime, sessions, m_disabled>>
        /\ server = "closing" /\ server' = "forgetting"
    BY <1>5 DEF ForgetSessions, ClearMap, rimeVars
  <2>2. RimeIsOn' /\ Cleared'
    BY <1>1, <1>3, <2>1 DEF MapInv, RimeIsOn, Cleared, Final, Empty
  <2>3. RimeKnows' /\ OneEntry'
    BY <1>1, <1>3, <2>1, ClearedIsSound DEF MapInv, RimeKnows, OneEntry
  <2>4. Storing'
    BY <1>1, <2>1, EmptyIsMap DEF MapInv, Storing
  <2>. QED
    BY <1>2, <2>2, <2>3, <2>4 DEF MapInv
<1>6. CASE server = "forgetting" /\ FinalizeRime /\ server' = "finalized"
  <2>1. /\ UNCHANGED <<m_session_status_map, m_disabled, current>> /\ rime' = FALSE /\ sessions' = <<>>
        /\ server = "forgetting" /\ server' = "finalized"
    BY <1>6 DEF FinalizeRime
  <2>2. RimeIsOn' /\ Cleared'
    BY <1>1, <1>3, <2>1 DEF MapInv, RimeIsOn, Cleared, Final, Empty
  <2>3. RimeKnows' /\ OneEntry'
    BY <1>1, <1>3, <2>1 DEF MapInv, RimeKnows, OneEntry, Lost, Final
  <2>4. Storing'
    BY <1>1, <2>1, EmptyIsMap DEF MapInv, Storing
  <2>. QED
    BY <1>2, <2>2, <2>3, <2>4 DEF MapInv
<1>7. CASE ForgetHandler
  <2>1. /\ UNCHANGED <<m_session_status_map, rime, sessions, m_disabled, current>>
        /\ server = "finalized" /\ server' = "deaf"
    BY <1>7 DEF ForgetHandler, handlerVars, rimeVars
  <2>2. RimeIsOn' /\ Cleared'
    BY <1>1, <1>3, <2>1 DEF MapInv, RimeIsOn, Cleared, Final, Empty
  <2>3. RimeKnows' /\ OneEntry' /\ Storing'
    BY <1>1, <1>3, <2>1 DEF MapInv, RimeKnows, OneEntry, Lost, Final, Storing
  <2>. QED
    BY <1>2, <2>2, <2>3 DEF MapInv
<1>. QED
  BY <1>4, <1>5, <1>6, <1>7 DEF FinalizeStep

LEMMA NewProcess ==
  ASSUME m_session_status_map' = <<>>, current' = {}, rime' = FALSE, m_disabled' = TRUE,
         job' = NoJob \/ (job' \in Jobs /\ job'.step = "probe" /\ job'.peer = Server),
         IF job' = NoJob THEN server' = "down" ELSE server' = "starting"
  PROVE  MapInv'
<1>1. ~Making' /\ job'.step \notin {"create", "store"} /\ (job' = NoJob => job' \notin Jobs)
  BY DEF Making, NoJob, Jobs
<1>2. Blank(m_session_status_map') /\ Unique(m_session_status_map')
  BY ClearedIsSound
<1>. QED
  BY <1>1, <1>2 DEF MapInv, JobPlace, RimeIsOn, Cleared, Disabled, RimeKnows, OneEntry, Storing, Empty

LEMMA MapStep == TypeOK /\ MapInv /\ [Next]_vars => MapInv'
<1>. SUFFICES ASSUME TypeOK, MapInv, [Next]_vars PROVE MapInv'
  OBVIOUS
<1>1. CASE StartServer
  <2>1. Types /\ job'.step = "probe" /\ job' \in Jobs /\ job'.peer = Server
    BY <1>1, NewJob DEF StartServer, TypeOK
  <2>2. /\ server = "down" /\ server' = "starting"
        /\ UNCHANGED <<m_session_status_map, rime, sessions, current, m_disabled>>
    BY <1>1 DEF StartServer, rimeVars
  <2>3. Empty
    BY <2>2 DEF MapInv, JobPlace, Listening, Closing
  <2>4. Blank(m_session_status_map') /\ Unique(m_session_status_map')
    BY <2>2, <2>3, ClearedIsSound DEF Empty
  <2>5. Resuming' /\ ~Making'
    BY <2>1 DEF Resuming, Making
  <2>6. JobPlace' /\ RimeIsOn' /\ Cleared' /\ Disabled' /\ RimeKnows' /\ OneEntry' /\ Storing'
    BY <2>1, <2>2, <2>3, <2>4, <2>5
       DEF JobPlace, RimeIsOn, Cleared, Disabled, RimeKnows, OneEntry, Storing, Empty
  <2>. QED
    BY <2>6 DEF MapInv
<1>2. CASE Exit \/ Crash
  BY <1>2, NewProcess DEF Exit, Crash, LoseServer, LoseProcess, ClearMap
<1>3. CASE Edit
  BY <1>3, MapKept DEF Edit
<1>4. CASE \E c \in Clients : Client(c)
  <2>1. PICK c \in Clients : Client(c)
    BY <1>4
  <2>2. /\ UNCHANGED <<m_session_status_map, sessions, rime, job, m_disabled, server>>
        /\ current' \subseteq current
    BY <2>1 DEF Client, OnAnswer, Echoed, Ended, SessionStarted, Checked, Done, Deactivated, PressKey,
              Click, Deactivate, Killed, handlerButMail, rimeVars
  <2>. QED
    BY <2>2, MapKept
<1>5. CASE DeployerNext
  <2>1. UNCHANGED <<m_session_status_map, sessions, rime, job, m_disabled, server, current>>
    BY <1>5 DEF DeployerNext, EnterDeployer, DeployerStep, ConnectDeployer, MaintenanceStarted,
              MaintenanceEnded, Worked, DeployerKilled, handlerButMail, rimeVars
  <2>. QED
    BY <2>1, MapKept
<1>6. CASE UNCHANGED vars
  <2>1. UNCHANGED <<m_session_status_map, sessions, rime, job, m_disabled, server, current>>
    BY <1>6 DEF vars, handlerVars, rimeVars
  <2>. QED
    BY <2>1, MapKept
<1>. QED
  BY <1>1, <1>2, <1>3, <1>4, <1>5, <1>6, MapOfServe, MapOfJob, MapOfResume, MapOfClosing DEF Next, ServerNext

LEMMA MapInvSuffices == TypeOK /\ MapInv => MapIsSound
<1>. SUFFICES ASSUME TypeOK, MapInv, NEW id \in DOMAIN m_session_status_map,
                     m_session_status_map[id] # NoSession
              PROVE  /\ ~Closing => Alive(id)
                     /\ Alive(id) => \A other \in DOMAIN m_session_status_map \ {id} :
                          m_session_status_map[other] # m_session_status_map[id]
  BY DEF MapIsSound
<1>1. ~Closing => Alive(id)
  <2>1. SUFFICES ASSUME ~Closing PROVE Alive(id)
    OBVIOUS
  <2>2. ~m_disabled /\ ~Resuming /\ ~Final
    BY <2>1 DEF MapInv, Disabled, Blank, Closing, Final
  <2>3. rime /\ Linked(m_session_status_map, sessions)
    BY <2>2 DEF MapInv, RimeIsOn, RimeKnows
  <2>. QED
    BY <2>3 DEF Linked, Alive, SessionOf
<1>2. Alive(id) => Unique(m_session_status_map)
  BY DEF MapInv, OneEntry, Lost, Alive
<1>. QED
  BY <1>1, <1>2 DEF Unique

LEMMA MapInit == Init => MapInv
<1>. SUFFICES ASSUME Init PROVE MapInv
  OBVIOUS
<1>1. job \notin Jobs /\ ~Making /\ ~Resuming /\ job.step # "store" /\ job.step # "create"
  BY DEF Init, HandlerInit, NoJob, Jobs, Making, Resuming
<1>2. Blank(m_session_status_map) /\ Unique(m_session_status_map)
  BY ClearedIsSound DEF Init, HandlerInit
<1>. QED
  BY <1>1, <1>2 DEF Init, HandlerInit, MapInv, JobPlace, RimeIsOn, Cleared, Disabled, RimeKnows, OneEntry,
                    Storing, Empty

\* No entry of m_session_status_map dangles before the window thread finalizes,
\* whoever starts, ends or names a session and whenever the map is cleared.  An
\* AddSession under way in Finalize may leave one that does, but never a second
\* one for a session that rime would find.
THEOREM SessionMapIsSound == Spec => []MapIsSound
<1>1. TypeOK /\ MapInv /\ [Next]_vars => MapInv'
  BY MapStep
<1>. QED
  BY <1>1, MapInit, TypeCorrect, MapInvSuffices, PTL DEF Spec

------------------------------------------------------------------------------
(* The deployer *)

Deploying == deployer \in {"connect", "starting", "working"}

\* Rime is off, and no job is past the point where it would look for a deployer
\* or at m_disabled.
Off ==
  /\ ~rime /\ sessions = <<>> /\ m_disabled
  /\ job.step \notin {"undetected", "initialize", "create", "store"}

\* From the moment the server has carried out StartMaintenance until the
\* deployer gives its mutex back, whoever tries to start rime finds it there.
DeployInv ==
  /\ Deploying => Deployer \in mutex
  /\ told /\ Deploying => Off

\* A request leaves rime off, and only StartMaintenance makes told true.
LEMMA ServeOff ==
  ASSUME TypeOK, NEW p \in Peers, Serve(p)
  PROVE  /\ told' => told \/ StartMaintenance(p)
         /\ Off => Off'
         /\ StartMaintenance(p) => Off'
         /\ mutex' = mutex
<1>1. mail[p].kind = "request" /\ job = NoJob /\ mail[p].id \in Nat
  BY ServedAtOnce
<1>2. NoJob.step = "none"
  BY DEF NoJob
<1>0. StartMaintenance(p) => Off' /\ mutex' = mutex
  BY <1>1, <1>2 DEF StartMaintenance, StopRime, Off
<1>3. CASE server = "deaf"
  <2>1. UNCHANGED <<handlerButMail, told>>
    BY <1>3 DEF Serve
  <2>2. told' = told /\ mutex' = mutex /\ (Off => Off')
    BY <2>1 DEF handlerButMail, Off, rimeVars
  <2>. QED
    BY <1>0, <2>2
<1>4. CASE server # "deaf"
  <2>1. /\ Dispatch(p, mail[p].op, mail[p].id)
        /\ told' = (told \/ mail[p].op = "start_maintenance")
    BY <1>4 DEF Serve
  <2>2. mail[p].op = "start_maintenance" => StartMaintenance(p)
    BY <2>1 DEF Dispatch, ResumesService
  <2>4. (Off => Off') /\ mutex' = mutex
    <3>1. CASE ResumesService(mail[p].op)
      <4>1. BeginJob(p) /\ UNCHANGED <<m_disabled, rimeVars, mutex>>
        BY <2>1, <3>1 DEF Dispatch, rimeVars
      <4>2. job'.step = "probe"
        BY <4>1, NewJob
      <4>. QED
        BY <4>1, <4>2 DEF Off, rimeVars
    <3>2. CASE ~ResumesService(mail[p].op)
      <4>1. \/ FindSession(p, mail[p].id) \/ ProcessKeyEvent(p, mail[p].id) \/ ChangePage(p, mail[p].id)
            \/ AddSession(p) /\ ~m_disabled
            \/ RemoveSession(p, mail[p].id)
            \/ StartMaintenance(p) \/ EndMaintenance(p)
        BY <2>1, <3>2 DEF Dispatch, ResumesService
      <4>2. CASE FindSession(p, mail[p].id) \/ ProcessKeyEvent(p, mail[p].id) \/ ChangePage(p, mail[p].id)
        BY <4>2 DEF FindSession, ProcessKeyEvent, ChangePage, Off, rimeVars
      <4>3. CASE AddSession(p) /\ ~m_disabled
        BY <4>3 DEF AddSession, Off
      <4>4. CASE RemoveSession(p, mail[p].id)
        BY <4>4 DEF RemoveSession, Off
      <4>5. CASE EndMaintenance(p)
        BY <4>5 DEF EndMaintenance, Off, rimeVars
      <4>. QED
        BY <1>0, <4>1, <4>2, <4>3, <4>4, <4>5
    <3>. QED
      BY <3>1, <3>2
  <2>. QED
    BY <1>0, <2>1, <2>2, <2>4
<1>. QED
  BY <1>3, <1>4

LEMMA DeployStep == TypeOK /\ DeployInv /\ [Next]_vars => DeployInv'
<1>. SUFFICES ASSUME TypeOK, DeployInv, [Next]_vars PROVE DeployInv'
  OBVIOUS
<1>1. Types /\ Server # Deployer /\ NoJob.step = "none"
  BY Someone DEF TypeOK, NoJob
<1>2. CASE StartServer
  <2>1. job'.step = "probe"
    BY <1>2, NewJob DEF StartServer
  <2>. QED
    BY <1>2, <2>1 DEF StartServer, DeployInv, Deploying, Off, deployerVars, rimeVars
<1>3. CASE JobStep
  <2>1. UNCHANGED <<deployer, told>>
    BY <1>3 DEF JobStep, deployerVars
  <2>2. job \in Jobs
    BY <1>1, <1>3, JobKinds DEF JobStep, Probe, ProbeEnd, InitializeRime, CreateSession
  <2>3. CASE Probe
    <3>1. job'.step = IF mutex = {} THEN "undetected" ELSE "detected"
      BY <2>2, <2>3, NextStep DEF Probe
    <3>2. mutex' = mutex \cup {Server} /\ UNCHANGED <<rime, sessions, m_disabled>>
      BY <2>3 DEF Probe, rimeVars
    <3>3. Deploying => mutex # {}
      BY DEF DeployInv
    <3>. QED
      BY <2>1, <3>1, <3>2, <3>3 DEF DeployInv, Deploying, Off
  <2>4. CASE ProbeEnd
    <3>1. job'.step = IF job.step = "detected" THEN "answer" ELSE "initialize"
      BY <2>2, <2>4, NextStep DEF ProbeEnd
    <3>2. /\ mutex' = mutex \ {Server} /\ UNCHANGED <<rime, sessions>>
          /\ m_disabled' = (job.step = "detected") /\ job.step \in {"undetected", "detected"}
      BY <2>4 DEF ProbeEnd, rimeVars
    <3>. QED
      BY <1>1, <2>1, <3>1, <3>2 DEF DeployInv, Deploying, Off
  <2>5. CASE InitializeRime
    BY <2>1, <2>5 DEF InitializeRime, DeployInv, Deploying, Off
  <2>6. CASE CreateSession
    BY <2>1, <2>6 DEF CreateSession, DeployInv, Deploying, Off
  <2>. QED
    BY <1>3, <2>3, <2>4, <2>5, <2>6 DEF JobStep
<1>4. CASE Started
  BY <1>1, <1>4 DEF Started, FinishStart, DeployInv, Deploying, Off, deployerVars, rimeVars
<1>5. CASE Resumed
  <2>1. CASE FinishResume
    <3>1. m_disabled => job' = NoJob
      BY <2>1 DEF FinishResume
    <3>. QED
      BY <1>1, <1>5, <2>1, <3>1 DEF Resumed, FinishResume, DeployInv, Deploying, Off, deployerVars, rimeVars
  <2>2. CASE StoreSession
    BY <1>1, <1>5, <2>2 DEF Resumed, StoreSession, DeployInv, Deploying, Off, deployerVars, rimeVars
  <2>. QED
    BY <1>5, <2>1, <2>2 DEF Resumed
<1>6. CASE \E p \in Peers : Serve(p)
  <2>1. PICK p \in Peers : Serve(p)
    BY <1>6
  <2>2. deployer' = deployer
    BY <2>1, ServedAtOnce
  <2>3. (told' /\ Deploying => Off') /\ mutex' = mutex
    BY <2>1, ServeOff DEF DeployInv
  <2>. QED
    BY <2>2, <2>3 DEF DeployInv, Deploying
<1>7. CASE Close \/ FinalizeStep \/ Exit \/ Crash
  <2>1. UNCHANGED deployerVars /\ mutex' \in {mutex, mutex \ {Server}}
    BY <1>7 DEF Close, FinalizeStep, SetDisabled, ForgetSessions, FinalizeRime, Exit, Crash, LoseServer,
              LoseProcess
  <2>2. /\ m_disabled' \in {m_disabled, TRUE} /\ rime' \in {rime, FALSE}
        /\ sessions' \in {sessions, <<>>} /\ job' \in {job, NoJob}
    BY <1>7 DEF Close, FinalizeStep, SetDisabled, ForgetSessions, FinalizeRime, Exit, Crash, LoseServer,
              LoseProcess, rimeVars
  <2>3. job'.step \in {job.step, "none"}
    BY <1>1, <2>2
  <2>4. Off => Off'
    BY <2>2, <2>3 DEF Off
  <2>. QED
    BY <1>1, <2>1, <2>4 DEF DeployInv, Deploying, deployerVars
<1>8. CASE ForgetHandler
  BY <1>8 DEF ForgetHandler, handlerVars, DeployInv, Deploying, Off, deployerVars, rimeVars
<1>9. CASE Edit
  BY <1>9 DEF Edit, DeployInv, Deploying, Off, deployerVars
<1>10. CASE \E c \in Clients : Client(c)
  <2>1. PICK c \in Clients : Client(c)
    BY <1>10
  <2>2. UNCHANGED <<deployerVars, m_disabled, rimeVars, mutex, job>>
    BY <2>1 DEF Client, OnAnswer, Echoed, Ended, SessionStarted, Checked, Done, Deactivated, PressKey,
                Click, Deactivate, Killed, handlerButMail
  <2>. QED
    BY <2>2 DEF DeployInv, Deploying, Off, deployerVars, rimeVars
<1>11. CASE DeployerNext
  <2>1. CASE EnterDeployer
    BY <2>1 DEF EnterDeployer, DeployInv, Deploying
  <2>2. CASE ConnectDeployer \/ MaintenanceStarted
    <3>1. /\ UNCHANGED <<told, m_disabled, rimeVars, mutex, job>>
          /\ deployer \in {"connect", "starting"}
      BY <2>2 DEF ConnectDeployer, MaintenanceStarted, handlerButMail
    <3>. QED
      BY <3>1 DEF DeployInv, Deploying, Off, rimeVars
  <2>3. CASE MaintenanceEnded \/ DeployerKilled \/ \E success \in BOOLEAN : Worked(success)
    BY <2>3 DEF MaintenanceEnded, DeployerKilled, Worked, DeployInv, Deploying
  <2>. QED
    BY <1>11, <2>1, <2>2, <2>3 DEF DeployerNext, DeployerStep
<1>12. CASE UNCHANGED vars
  <2>1. UNCHANGED <<deployerVars, handlerVars>>
    BY <1>12 DEF vars
  <2>. QED
    BY <2>1 DEF handlerVars, DeployInv, Deploying, Off, deployerVars, rimeVars
<1>. QED
  BY <1>2, <1>3, <1>4, <1>5, <1>6, <1>7, <1>8, <1>9, <1>10, <1>11, <1>12 DEF Next, ServerNext

LEMMA DeployInvSuffices == DeployInv => DeploysAlone
BY DEF DeployInv, Deploying, Off, DeploysAlone

\* While a deployer whose StartMaintenance was carried out works on the user's
\* files, rime is off in every server there is, also in one started meanwhile.
THEOREM DeployerWorksAlone == Spec => []DeploysAlone
<1>1. Init => DeployInv
  BY DEF Init, HandlerInit, DeployInv, Deploying
<1>2. TypeOK /\ DeployInv /\ [Next]_vars => DeployInv'
  BY DeployStep
<1>. QED
  BY <1>1, <1>2, TypeCorrect, DeployInvSuffices, PTL DEF Spec

------------------------------------------------------------------------------
(* A client's own session *)

\* The session an id leads to was made for c, if rime has it; and it has, while
\* it runs.
Owned(id, c) ==
  /\ rime /\ ~Resuming => SessionOf(id) \in DOMAIN sessions
  /\ SessionOf(id) \in DOMAIN sessions => sessions[SessionOf(id)] = c

\* Also the id a client is about to receive, and the one it is about to end,
\* lead to its session; id 0 leads nowhere.
Holds(c) ==
  /\ session_id[c] # 0 => Owned(session_id[c], c)
  /\ pc[c] = "start" /\ mail[c].kind = "answer" /\ mail[c].value # 0 => Owned(mail[c].value, c)

OwnInv ==
  /\ SessionOf(0) = NoSession
  /\ ~stale_hit /\ ~Lost => \A c \in current : Holds(c)

LEMMA OwnCleared ==
  ASSUME m_session_status_map' \in {<<>>, With(<<>>, 0, NoSession)}, current' = {}
  PROVE  OwnInv'
<1>1. DOMAIN <<>> = {}
  BY EmptyIsMap
<1>2. DOMAIN With(<<>>, 0, NoSession) = {0} /\ With(<<>>, 0, NoSession)[0] = NoSession
  BY <1>1 DEF With
<1>3. SessionOf(0)' = NoSession
  BY <1>1, <1>2 DEF SessionOf
<1>. QED
  BY <1>3 DEF OwnInv

\* The ids lead where they led, and no client gets another id than the one it
\* had or was waiting for.
LEMMA OwnKept ==
  ASSUME OwnInv, \A x : SessionOf(x)' = SessionOf(x), current' \subseteq current,
         \A x, c : c \in current' /\ Owned(x, c) => Owned(x, c)',
         ~stale_hit' => ~stale_hit, ~Lost' => ~Lost,
         \A c \in current' :
           \/ session_id'[c] \in {0, session_id[c]}
           \/ pc[c] = "start" /\ mail[c].kind = "answer" /\ session_id'[c] = mail[c].value,
         \A c \in current' : pc'[c] = "start" /\ mail'[c].kind = "answer" =>
           \/ mail'[c].value = 0
           \/ pc[c] = "start" /\ mail[c].kind = "answer" /\ mail'[c].value = mail[c].value
  PROVE  OwnInv'
<1>1. SessionOf(0)' = NoSession
  BY DEF OwnInv
<1>2. ASSUME NEW c \in current', ~stale_hit', ~Lost' PROVE Holds(c)'
  <2>1. Holds(c)
    BY <1>2 DEF OwnInv
  <2>2. session_id'[c] # 0 => Owned(session_id'[c], c)
    BY <1>2, <2>1 DEF Holds
  <2>3. pc'[c] = "start" /\ mail'[c].kind = "answer" /\ mail'[c].value # 0 => Owned(mail'[c].value, c)
    BY <1>2, <2>1 DEF Holds
  <2>. QED
    BY <1>2, <2>2, <2>3 DEF Holds
<1>. QED
  BY <1>1, <1>2 DEF OwnInv

\* Rime keeps its sessions, and does not come back before a job is done.
LEMMA OwnedKept ==
  ASSUME \A x : SessionOf(x)' = SessionOf(x), UNCHANGED sessions,
         rime' /\ ~Resuming' => rime /\ ~Resuming
  PROVE  \A x, c : Owned(x, c) => Owned(x, c)'
BY DEF Owned

LEMMA LeadsWhereItLed ==
  ASSUME UNCHANGED m_session_status_map
  PROVE  \A x : SessionOf(x)' = SessionOf(x)
BY DEF SessionOf

\* While somebody's id counts, a request that makes a session has rime.
LEMMA RimeWhileMaking ==
  ASSUME MapInv, Making, ~Lost, current # {}
  PROVE  rime /\ ~Resuming
<1>1. ~Resuming
  BY DEF Making, Resuming
<1>2. CASE ~Final
  BY <1>1, <1>2 DEF MapInv, RimeIsOn
<1>3. CASE Final /\ m_disabled
  BY <1>3 DEF MapInv, Cleared, Final, Empty
<1>4. CASE Final /\ ~m_disabled
  BY <1>1, <1>4 DEF Lost
<1>. QED
  BY <1>1, <1>2, <1>3, <1>4

LEMMA TouchedLeads ==
  ASSUME NEW id, m_session_status_map' = Touched(m_session_status_map, id)
  PROVE  \A x : SessionOf(x)' = SessionOf(x)
<1>1. CASE id \in DOMAIN m_session_status_map
  BY <1>1 DEF Touched, SessionOf
<1>2. CASE id \notin DOMAIN m_session_status_map
  <2>1. /\ DOMAIN m_session_status_map' = DOMAIN m_session_status_map \cup {id}
        /\ \A y \in DOMAIN m_session_status_map : m_session_status_map'[y] = m_session_status_map[y]
        /\ m_session_status_map'[id] = NoSession
    BY <1>2 DEF Touched, With
  <2>. QED
    BY <1>2, <2>1 DEF SessionOf
<1>. QED
  BY <1>1, <1>2

LEMMA OwnedRemoved ==
  ASSUME NEW x, NEW c, Owned(x, c), rime, ~Resuming, NEW id, SessionOf(x) # SessionOf(id),
         m_session_status_map' = Restrict(m_session_status_map, DOMAIN m_session_status_map \ {id}),
         sessions' = Restrict(sessions, DOMAIN sessions \ {SessionOf(id)}),
         NoSession \notin DOMAIN sessions
  PROVE  Owned(x, c)'
<1>1. /\ x \in DOMAIN m_session_status_map /\ SessionOf(x) = m_session_status_map[x]
      /\ SessionOf(x) \in DOMAIN sessions /\ sessions[SessionOf(x)] = c
  BY DEF Owned, SessionOf
<1>2. x # id
  OBVIOUS
<1>3. x \in DOMAIN m_session_status_map' /\ m_session_status_map'[x] = m_session_status_map[x]
  BY <1>1, <1>2, RestrictProperties
<1>4. SessionOf(x) \in DOMAIN sessions' /\ sessions'[SessionOf(x)] = c
  BY <1>1, RestrictProperties
<1>. QED
  BY <1>1, <1>3, <1>4 DEF Owned, SessionOf

\* A client ends the session it has.  What it names is its own session, or
\* nobody's, unless an older id has met a live one.
LEMMA OwnRemoved ==
  ASSUME TypeOK, MapInv, OwnInv, NEW p \in Clients, mail[p].kind = "request", job = NoJob,
         RemoveSession(p, session_id[p]), UNCHANGED <<pc, session_id, server>>
  PROVE  OwnInv'
<1> DEFINE id == session_id[p]
<1>1. /\ p \in Peers /\ mail \in [Peers -> {Quiet} \cup Requests \cup Answers]
      /\ current \subseteq Clients /\ Clients \subseteq Peers /\ NoSession \notin DOMAIN sessions
  BY Someone, NoSessionMade DEF TypeOK, Types
<1>2. mail' = [mail EXCEPT ![p] = [kind |-> "answer", value |-> 0]]
  BY DEF RemoveSession, Respond
<1>3. mail'[p].value = 0 /\ \A c \in current : c # p => mail'[c] = mail[c]
  BY <1>1, <1>2
<1>4. ~Resuming /\ UNCHANGED <<job, rime, m_disabled>> /\ (Resuming' <=> Resuming) /\ (Lost' <=> Lost)
  BY DEF RemoveSession, Resuming, NoJob, Lost, Final
<1>5. CASE m_disabled
  <2>1. UNCHANGED <<m_session_status_map, sessions, stale_hit, current>>
    BY <1>5 DEF RemoveSession
  <2>2. \A x : SessionOf(x)' = SessionOf(x)
    BY <2>1, LeadsWhereItLed
  <2>3. \A x, c : Owned(x, c) => Owned(x, c)'
    BY <1>4, <2>1, <2>2, OwnedKept
  <2>. QED
    BY <1>3, <1>4, <2>1, <2>2, <2>3, OwnKept
<1>6. CASE ~m_disabled
  <2>1. /\ sessions' = Restrict(sessions, DOMAIN sessions \ {SessionOf(id)})
        /\ m_session_status_map' = Restrict(m_session_status_map, DOMAIN m_session_status_map \ {id})
        /\ stale_hit' = (stale_hit \/ (p \notin current /\ Alive(id)))
        /\ current' = current \ {p}
    BY <1>6 DEF RemoveSession, Observe
  <2>2. SessionOf(0)' = NoSession
    <3>1. 0 \in DOMAIN m_session_status_map' =>
            0 \in DOMAIN m_session_status_map /\ m_session_status_map'[0] = m_session_status_map[0]
      BY <2>1, RestrictProperties
    <3>. QED
      BY <3>1 DEF OwnInv, SessionOf
  <2>3. ASSUME NEW c \in current', ~stale_hit', ~Lost' PROVE Holds(c)'
    <3>1. c \in current /\ c # p /\ ~stale_hit /\ ~Lost /\ Holds(c) /\ mail'[c] = mail[c]
      BY <1>3, <1>4, <2>1, <2>3 DEF OwnInv
    <3>2. rime
      BY <1>4, <1>6, <3>1 DEF MapInv, RimeIsOn, Lost
    <3>3. ~Alive(id) \/ Owned(id, p)
      <4>1. CASE p \notin current
        BY <2>1, <2>3, <4>1
      <4>2. CASE p \in current /\ id # 0
        BY <3>1, <4>2 DEF OwnInv, Holds
      <4>3. CASE id = 0
        BY <1>1, <4>3 DEF OwnInv, Alive
      <4>. QED
        BY <4>1, <4>2, <4>3
    <3>4. ASSUME NEW x, Owned(x, c) PROVE Owned(x, c)'
      <4>1. SessionOf(x) # SessionOf(id)
        BY <1>4, <3>1, <3>2, <3>3, <3>4 DEF Owned, Alive
      <4>. QED
        BY <1>1, <1>4, <2>1, <3>2, <3>4, <4>1, OwnedRemoved
    <3>. QED
      BY <3>1, <3>4 DEF Holds
  <2>. QED
    BY <2>2, <2>3 DEF OwnInv
<1>. QED
  BY <1>5, <1>6

LEMMA OwnServed ==
  ASSUME TypeOK, MapInv, OwnInv, NEW p \in Peers, Serve(p)
  PROVE  OwnInv'
<1>1. /\ Types /\ mail[p].kind = "request" /\ UNCHANGED <<pc, session_id, server>>
      /\ current \subseteq Clients /\ Clients \subseteq Peers /\ job = NoJob
      /\ IsSessions(sessions) /\ mail \in [Peers -> {Quiet} \cup Requests \cup Answers]
  BY ServedAtOnce, Someone DEF TypeOK, Types, clientVars
<1>2. ~Resuming
  BY <1>1 DEF Resuming, NoJob
<1>3. ASSUME NEW v, Respond(p, v), p \in current => pc[p] # "start" \/ v = 0,
             \A x : SessionOf(x)' = SessionOf(x), UNCHANGED <<sessions, current, rime, m_disabled, job>>,
             ~stale_hit' => ~stale_hit
      PROVE  OwnInv'
  <2>1. mail' = [mail EXCEPT ![p] = [kind |-> "answer", value |-> v]]
    BY <1>3 DEF Respond
  <2>2. mail'[p].value = v /\ \A c \in current : c # p => mail'[c] = mail[c]
    BY <1>1, <2>1
  <2>3. \A c \in current' : pc'[c] = "start" /\ mail'[c].kind = "answer" =>
           \/ mail'[c].value = 0
           \/ pc[c] = "start" /\ mail[c].kind = "answer" /\ mail'[c].value = mail[c].value
    BY <1>1, <1>3, <2>2
  <2>4. \A x, c : Owned(x, c) => Owned(x, c)'
    BY <1>2, <1>3, OwnedKept
  <2>5. ~Lost' => ~Lost
    BY <1>1, <1>2, <1>3 DEF Lost, Final, Resuming
  <2>. QED
    BY <1>1, <1>3, <2>3, <2>4, <2>5, OwnKept
<1>4. CASE Respond(p, 0) /\ UNCHANGED handlerButMail
  BY <1>3, <1>4, LeadsWhereItLed DEF handlerButMail, rimeVars
<1>5. CASE \/ BeginJob(p) /\ m_disabled
              /\ UNCHANGED <<m_pid, m_disabled, m_session_status_map, rimeVars, mutex, mail, current, stale_hit>>
           \/ AddSession(p)
  <2>1. UNCHANGED <<m_session_status_map, sessions, rime, m_disabled, mail, current, stale_hit>>
    BY <1>5 DEF AddSession, rimeVars
  <2>2. ~Lost' => ~Lost
    BY <1>1, <1>2, <1>5, <2>1 DEF Lost, Final, AddSession, BeginSession, Resuming
  <2>3. \A x, c : Owned(x, c) => Owned(x, c)'
    BY <1>2, <2>1, LeadsWhereItLed, OwnedKept
  <2>. QED
    BY <1>1, <2>1, <2>2, <2>3, LeadsWhereItLed, OwnKept
<1>6. CASE /\ mail[p].op # "start"
           /\ FindSession(p, mail[p].id) \/ ProcessKeyEvent(p, mail[p].id) \/ ChangePage(p, mail[p].id)
  <2>1. \E v : Respond(p, v)
    BY <1>6 DEF FindSession, ProcessKeyEvent, ChangePage
  <2>2. /\ m_session_status_map' \in {m_session_status_map, Touched(m_session_status_map, mail[p].id)}
        /\ ~stale_hit' => ~stale_hit
        /\ UNCHANGED <<sessions, current, rime, m_disabled, job>>
    BY <1>6 DEF FindSession, ProcessKeyEvent, ChangePage, UseSession, Observe, rimeVars
  <2>3. \A x : SessionOf(x)' = SessionOf(x)
    BY <2>2, LeadsWhereItLed, TouchedLeads
  <2>4. p \in current => pc[p] # "start"
    BY <1>1, <1>6 DEF TypeOK, ClientWaits
  <2>. QED
    BY <1>3, <2>1, <2>2, <2>3, <2>4
<1>7. CASE mail[p].op = "end" /\ RemoveSession(p, mail[p].id)
  <2>1. p \in Clients
    BY <1>1, <1>7 DEF TypeOK, DeployerWaits, Peers
  <2>2. mail[p].id = session_id[p]
    BY <1>1, <2>1 DEF TypeOK, ClientWaits
  <2>. QED
    BY <1>1, <1>7, <2>1, <2>2, OwnRemoved
<1>8. CASE StartMaintenance(p) \/ EndMaintenance(p)
  BY <1>8, OwnCleared DEF StartMaintenance, StopRime, EndMaintenance, ClearMap
<1>. QED
  BY ServedAtOnce, <1>4, <1>5, <1>6, <1>7, <1>8

LEMMA OwnJob ==
  ASSUME TypeOK, MapInv, OwnInv, JobStep \/ Started
  PROVE  OwnInv'
<1>1. Types /\ UNCHANGED <<m_session_status_map, current, stale_hit, pc, session_id, mail>>
  BY DEF JobStep, Started, FinishStart, Probe, ProbeEnd, InitializeRime, CreateSession, clientVars, TypeOK
<1>2. \A x : SessionOf(x)' = SessionOf(x)
  BY <1>1, LeadsWhereItLed
<1>3. ASSUME \A x, c : c \in current /\ Owned(x, c) => Owned(x, c)', ~Lost' => ~Lost
      PROVE  OwnInv'
  BY <1>1, <1>2, <1>3, OwnKept
<1>4. CASE (Probe \/ ProbeEnd \/ InitializeRime) /\ server' = server
  <2>1. job \in Jobs /\ Resuming
    BY <1>1, <1>4, JobKinds DEF Probe, ProbeEnd, InitializeRime, Resuming
  <2>2. PICK l \in {"undetected", "detected", "initialize", "answer"} : job' = [job EXCEPT !.step = l]
    BY <1>4 DEF Probe, ProbeEnd, InitializeRime
  <2>3. Resuming'
    BY <2>1, <2>2, NextStep DEF Resuming
  <2>4. UNCHANGED sessions
    BY <1>4 DEF Probe, ProbeEnd, InitializeRime, rimeVars
  <2>5. \A x, c : Owned(x, c) => Owned(x, c)'
    BY <1>2, <2>3, <2>4, OwnedKept
  <2>. QED
    BY <1>3, <2>1, <2>5 DEF Lost
<1>5. CASE CreateSession /\ server' = server
  <2>1. /\ job.step = "create" /\ job'.step = "store" /\ UNCHANGED <<rime, m_disabled>>
        /\ \/ \E s \in RimeIds \ DOMAIN sessions : sessions' = With(sessions, s, job.peer)
           \/ sessions' = sessions
    BY <1>1, <1>5, SessionMade DEF CreateSession
  <2>2. Making /\ ~Resuming /\ ~Resuming'
    BY <2>1 DEF Making, Resuming
  <2>3. Lost' <=> Lost
    BY <1>5, <2>1, <2>2 DEF Lost, Final
  <2>4. CASE Lost
    BY <1>1, <1>2, <2>3, <2>4 DEF OwnInv
  <2>5. CASE ~Lost
    <3>1. \A s \in DOMAIN sessions : s \in DOMAIN sessions' /\ sessions'[s] = sessions[s]
      <4>1. ASSUME NEW r \in RimeIds \ DOMAIN sessions, sessions' = With(sessions, r, job.peer)
            PROVE  \A s \in DOMAIN sessions : s \in DOMAIN sessions' /\ sessions'[s] = sessions[s]
        BY <4>1 DEF With
      <4>. QED
        BY <2>1, <4>1
    <3>2. ASSUME NEW x, NEW c, c \in current, Owned(x, c) PROVE Owned(x, c)'
      <4>1. rime /\ ~Resuming
        BY <2>2, <2>5, <3>2, RimeWhileMaking
      <4>. QED
        BY <1>2, <3>1, <3>2, <4>1 DEF Owned
    <3>. QED
      BY <1>3, <2>3, <3>2
  <2>. QED
    BY <2>4, <2>5
<1>6. CASE Started
  <2>1. job.step = "answer" /\ job.peer = Server
    BY <1>6 DEF Started, FinishStart
  <2>2. job \in Jobs
    BY <1>1, <2>1, JobKinds
  <2>3. Resuming /\ ~Closing
    BY <2>1, <2>2 DEF MapInv, JobPlace, Resuming, Closing
  <2>4. current = {}
    BY <2>3 DEF MapInv, Disabled
  <2>. QED
    BY <1>1, <1>2, <2>4 DEF OwnInv
<1>. QED
  BY <1>4, <1>5, <1>6 DEF JobStep

\* A client gets a new session; it holds no id at that moment.
LEMMA OwnStored ==
  ASSUME TypeOK, MapInv, OwnInv, StoreSession, UNCHANGED <<clientVars, server>>
  PROVE  OwnInv'
<1>1. /\ Types /\ job \in Jobs /\ job.step = "store" /\ job' = NoJob /\ UNCHANGED <<pc, session_id>>
      /\ UNCHANGED <<rime, m_disabled, sessions, stale_hit>> /\ current' = current \cup {job.peer}
      /\ NewIpcId(m_session_status_map) # 0
      /\ NewIpcId(m_session_status_map) \notin DOMAIN m_session_status_map
  BY SessionStored DEF TypeOK, StoreSession, clientVars, rimeVars
<1>2. PICK id \in {job.id, NewIpcId(m_session_status_map)} :
        m_session_status_map' = With(m_session_status_map, id, job.session) /\ Respond(job.peer, id)
  BY <1>1, SessionStored
<1>3. id # 0 /\ id \notin DOMAIN m_session_status_map
  BY <1>1, <1>2 DEF MapInv, Storing
<1>4. PICK p \in Clients : p = job.peer
  BY <1>1 DEF TypeOK, JobWaits
<1>5. pc[p] = "start" /\ session_id[p] = 0
  <2>1. mail[p].kind = "request" /\ mail[p].op \in {"start", "end_maintenance"}
    BY <1>1, <1>4, Someone DEF TypeOK, JobWaits
  <2>. QED
    BY <2>1 DEF TypeOK, ClientWaits
<1>6. /\ p \in Peers /\ mail \in [Peers -> {Quiet} \cup Requests \cup Answers]
      /\ current \subseteq Clients /\ Clients \subseteq Peers
  BY <1>1, Someone DEF Types
<1>7. mail' = [mail EXCEPT ![p] = [kind |-> "answer", value |-> id]]
  BY <1>2, <1>4 DEF Respond
<1>8. Making /\ ~Resuming /\ ~Resuming' /\ (Lost' <=> Lost)
  BY <1>1 DEF Making, Resuming, NoJob, Lost, Final
<1>9. /\ SessionOf(id)' = job.session /\ SessionOf(id) = NoSession
      /\ \A x : x # id => SessionOf(x)' = SessionOf(x)
  <2>1. /\ DOMAIN m_session_status_map' = DOMAIN m_session_status_map \cup {id}
        /\ m_session_status_map'[id] = job.session
        /\ \A y \in DOMAIN m_session_status_map : m_session_status_map'[y] = m_session_status_map[y]
    BY <1>2, <1>3 DEF With
  <2>. QED
    BY <1>3, <2>1 DEF SessionOf
<1>10. SessionOf(0)' = NoSession
  BY <1>3, <1>9 DEF OwnInv
<1>11. Owned(id, p)'
  BY <1>1, <1>4, <1>8, <1>9 DEF MapInv, RimeKnows, Storing, Owned
<1>12. Holds(p)'
  <2>1. mail'[p].value = id
    BY <1>6, <1>7
  <2>. QED
    BY <1>1, <1>5, <1>11, <2>1 DEF Holds
<1>13. ASSUME NEW c \in current, c # p, ~stale_hit, ~Lost PROVE Holds(c)'
  <2>1. rime /\ Holds(c) /\ IsSessions(sessions)
    BY <1>1, <1>8, <1>13, RimeWhileMaking DEF OwnInv, Types
  <2>2. ASSUME NEW x, Owned(x, c) PROVE Owned(x, c)'
    <3>1. SessionOf(x) \in DOMAIN sessions
      BY <1>8, <2>1, <2>2 DEF Owned
    <3>2. x # id
      BY <1>9, <2>1, <3>1, NoSessionMade
    <3>. QED
      BY <1>1, <1>9, <2>2, <3>1, <3>2 DEF Owned
  <2>3. mail'[c] = mail[c]
    BY <1>6, <1>7, <1>13
  <2>. QED
    BY <1>1, <2>1, <2>2, <2>3 DEF Holds
<1>. QED
  BY <1>1, <1>4, <1>8, <1>10, <1>12, <1>13 DEF OwnInv

LEMMA OwnClient ==
  ASSUME TypeOK, OwnInv, NEW c \in Clients, Client(c)
  PROVE  OwnInv'
<1>1. /\ Types /\ c \in Peers /\ session_id \in [Clients -> Nat] /\ session_id[c] \in Nat
      /\ current \subseteq Clients /\ Clients \subseteq Peers
      /\ pc \in [Clients -> {"idle", "echo", "end", "start", "check", "key", "click", "quit"}]
      /\ mail \in [Peers -> {Quiet} \cup Requests \cup Answers]
  BY Someone DEF TypeOK, Types
<1>2. UNCHANGED <<m_session_status_map, sessions, stale_hit>> /\ current' \subseteq current
  BY DEF Client, OnAnswer, Echoed, Ended, SessionStarted, Checked, Done, Deactivated, PressKey,
         Click, Deactivate, Killed, handlerButMail, rimeVars
<1>3. \A x : SessionOf(x)' = SessionOf(x)
  BY <1>2 DEF SessionOf
<1>4. \/ session_id' = session_id
      \/ session_id' = [session_id EXCEPT ![c] = 0]
      \/ /\ pc[c] = "start" /\ mail[c].kind = "answer"
         /\ session_id' = [session_id EXCEPT ![c] = mail[c].value]
  BY DEF Client, OnAnswer, Answered, Echoed, Ended, SessionStarted, Checked, Done, Deactivated, PressKey,
         Click, Deactivate, Killed
<1>5. \A d \in current' :
        \/ session_id'[d] \in {0, session_id[d]}
        \/ pc[d] = "start" /\ mail[d].kind = "answer" /\ session_id'[d] = mail[d].value
  BY <1>1, <1>2, <1>4
<1>6. \/ Received(c) /\ Goto(c, "idle")
      \/ \E id \in Nat, op \in {"echo", "start", "end", "key", "focus", "page"},
            l \in {"echo", "end", "start", "check", "key", "click", "quit"} : Call(c, op, id, l)
  <2>1. mail[c].kind = "answer" => mail[c].value \in Nat
    BY <1>1, MailKinds
  <2>. QED
    BY <1>1, <2>1 DEF Client, OnAnswer, Answered, Echoed, Ended, SessionStarted, Checked, Done, Deactivated,
         PressKey, Click, Deactivate, Killed, SendKey
<1>7. \A d \in current' : d # c => pc'[d] = pc[d] /\ mail'[d] = mail[d]
  BY <1>1, <1>2, <1>6 DEF Call, Send, Received, Goto
<1>8. pc'[c] = "start" /\ mail'[c].kind = "answer" => mail'[c].value = 0
  <2>1. CASE Received(c) /\ Goto(c, "idle")
    BY <1>1, <2>1 DEF Goto
  <2>2. ASSUME NEW id \in Nat, NEW op \in {"echo", "start", "end", "key", "focus", "page"}, NEW l,
               Call(c, op, id, l)
        PROVE  mail'[c].kind = "answer" => mail'[c].value = 0
    <3>1. PICK m \in Requests \cup Answers :
            mail' = [mail EXCEPT ![c] = m] /\ (m.kind = "answer" => m.value = 0)
      BY <1>1, <2>2, Sent DEF Call
    <3>. QED
      BY <1>1, <3>1
  <2>. QED
    BY <1>6, <2>1, <2>2
<1>9. (\A x, d : Owned(x, d) => Owned(x, d)') /\ (Lost' <=> Lost)
  <2>1. UNCHANGED <<rime, m_disabled, job, server>>
    BY DEF Client, OnAnswer, Echoed, Ended, SessionStarted, Checked, Done, Deactivated, PressKey,
           Click, Deactivate, Killed, handlerButMail, rimeVars
  <2>2. (Resuming' <=> Resuming) /\ (Lost' <=> Lost)
    BY <2>1 DEF Resuming, Lost, Final
  <2>. QED
    BY <1>2, <1>3, <2>1, <2>2, OwnedKept
<1>. QED
  BY <1>2, <1>3, <1>5, <1>7, <1>8, <1>9, OwnKept

LEMMA OwnStep == TypeOK /\ MapInv /\ OwnInv /\ [Next]_vars => OwnInv'
<1>. SUFFICES ASSUME TypeOK, MapInv, OwnInv, [Next]_vars PROVE OwnInv'
  OBVIOUS
<1>1. Types /\ current \subseteq Clients /\ Clients \subseteq Peers /\ Deployer \notin Clients
  BY Someone DEF TypeOK, Types
<1>2. ASSUME UNCHANGED <<m_session_status_map, sessions, rime, m_disabled, current, stale_hit, clientVars>>,
             \A c \in Clients : mail'[c] = mail[c], Resuming' <=> Resuming, Final' <=> Final
      PROVE  OwnInv'
  <2>1. \A x : SessionOf(x)' = SessionOf(x)
    BY <1>2, LeadsWhereItLed
  <2>2. UNCHANGED <<pc, session_id>> /\ \A c \in current : mail'[c] = mail[c]
    BY <1>1, <1>2 DEF clientVars
  <2>3. (\A x, c : Owned(x, c) => Owned(x, c)') /\ (Lost' <=> Lost)
    BY <1>2, <2>1, OwnedKept DEF Lost
  <2>. QED
    BY <1>2, <2>1, <2>2, <2>3, OwnKept
<1>3. CASE StartServer
  <2>1. current = {} /\ UNCHANGED <<m_session_status_map, current>>
    BY <1>3 DEF StartServer, MapInv, JobPlace, Listening, Closing, Empty
  <2>. QED
    BY <2>1, LeadsWhereItLed DEF OwnInv
<1>4. CASE JobStep \/ Started
  BY <1>4, OwnJob
<1>5. CASE Resumed
  <2>1. CASE FinishResume
    BY <2>1, OwnCleared DEF FinishResume, ClearMap
  <2>2. CASE StoreSession
    BY <1>5, <2>2, OwnStored DEF Resumed
  <2>. QED
    BY <1>5, <2>1, <2>2 DEF Resumed
<1>6. CASE \E p \in Peers : Serve(p)
  BY <1>6, OwnServed
<1>7. CASE Close
  <2>1. UNCHANGED <<m_session_status_map, sessions, rime, current, stale_hit, pc, session_id, mail, job>>
    BY <1>7 DEF Close, SetDisabled, rimeVars, clientVars
  <2>2. \A x : SessionOf(x)' = SessionOf(x)
    BY <2>1, LeadsWhereItLed
  <2>3. \A x, c : Owned(x, c) => Owned(x, c)'
    BY <2>1, <2>2, OwnedKept DEF Resuming
  <2>4. ~Lost
    BY <1>7 DEF Close, Lost, Final
  <2>. QED
    BY <2>1, <2>2, <2>3, <2>4, OwnKept
<1>8. CASE FinalizeStep
  <2>1. CASE ForgetSessions
    BY <2>1, OwnCleared DEF ForgetSessions, ClearMap
  <2>2. CASE server = "forgetting" /\ FinalizeRime
    <3>1. UNCHANGED <<m_session_status_map, current, stale_hit, pc, session_id, mail>> /\ sessions' = <<>>
          /\ rime' = FALSE /\ ~Lost
      BY <1>8, <2>2 DEF FinalizeStep, FinalizeRime, clientVars, Lost, Final
    <3>2. \A x, c : Owned(x, c)'
      BY <3>1, EmptyIsMap DEF Owned
    <3>. QED
      BY <3>1, <3>2, LeadsWhereItLed, OwnKept
  <2>. QED
    BY <1>8, <2>1, <2>2 DEF FinalizeStep
<1>9. CASE ForgetHandler
  <2>1. UNCHANGED <<m_session_status_map, sessions, rime, m_disabled, current, stale_hit, clientVars, mail, job>>
    BY <1>9 DEF ForgetHandler, handlerVars, rimeVars
  <2>. QED
    BY <1>2, <1>9, <2>1 DEF ForgetHandler, Final, Resuming
<1>10. CASE Exit \/ Crash
  BY <1>10, OwnCleared DEF Exit, Crash, LoseServer, LoseProcess, ClearMap
<1>11. CASE \E c \in Clients : Client(c)
  BY <1>11, OwnClient
<1>12. CASE DeployerNext
  <2>1. /\ UNCHANGED <<m_session_status_map, sessions, rime, m_disabled, current, stale_hit, clientVars>>
        /\ UNCHANGED <<job, server>>
    BY <1>12 DEF DeployerNext, EnterDeployer, DeployerStep, ConnectDeployer, MaintenanceStarted,
              MaintenanceEnded, Worked, DeployerKilled, handlerButMail, rimeVars
  <2>2. mail' = mail \/ \E m : mail' = [mail EXCEPT ![Deployer] = m]
    BY <1>12 DEF DeployerNext, EnterDeployer, DeployerStep, ConnectDeployer, MaintenanceStarted,
              MaintenanceEnded, Worked, DeployerKilled, Send, Received
  <2>3. \A c \in Clients : mail'[c] = mail[c]
    BY <1>1, <2>2 DEF Types
  <2>. QED
    BY <1>2, <2>1, <2>3 DEF Final, Resuming
<1>13. CASE Edit
  <2>1. /\ UNCHANGED <<m_session_status_map, sessions, rime, m_disabled, current, stale_hit, clientVars>>
        /\ UNCHANGED <<job, server, mail>>
    BY <1>13 DEF Edit
  <2>. QED
    BY <1>2, <2>1 DEF Final, Resuming
<1>14. CASE UNCHANGED vars
  <2>1. /\ UNCHANGED <<m_session_status_map, sessions, rime, m_disabled, current, stale_hit, clientVars>>
        /\ UNCHANGED <<job, server, mail>>
    BY <1>14 DEF vars, handlerVars, rimeVars
  <2>. QED
    BY <1>2, <2>1 DEF Final, Resuming
<1>. QED
  BY <1>3, <1>4, <1>5, <1>6, <1>7, <1>8, <1>9, <1>10, <1>11, <1>12, <1>13, <1>14 DEF Next, ServerNext

LEMMA OwnInvSuffices == MapInv /\ OwnInv => OwnSession
<1>. SUFFICES ASSUME MapInv, OwnInv, ~stale_hit, NEW c \in current, Settled(c)
              PROVE  /\ ~Closing => Alive(session_id[c])
                     /\ Alive(session_id[c]) => sessions[SessionOf(session_id[c])] = c
  BY DEF OwnSession
<1>1. ~Lost => Owned(session_id[c], c)
  BY DEF OwnInv, Holds, Settled
<1>2. ~Closing => rime /\ ~Resuming /\ ~Lost
  BY DEF MapInv, Disabled, RimeIsOn, Closing, Final, Lost
<1>3. Alive(session_id[c]) => ~Lost
  BY DEF Alive, Lost
<1>. QED
  BY <1>1, <1>2, <1>3 DEF Owned, Alive

\* The id a client holds leads to the session made for that client, whatever
\* ends, restarts or is deployed around it, as long as no id from before the map
\* was last cleared has met a live session; to none at worst, and that only once
\* the window thread finalizes.
THEOREM OwnSessions == Spec => []OwnSession
<1>1. Init => OwnInv
  BY EmptyIsMap DEF Init, HandlerInit, OwnInv, SessionOf
<1>2. TypeOK /\ MapInv /\ [Next]_vars => MapInv'
  BY MapStep
<1>3. TypeOK /\ MapInv /\ OwnInv /\ [Next]_vars => OwnInv'
  BY OwnStep
<1>. QED
  BY <1>1, <1>2, <1>3, MapInit, TypeCorrect, OwnInvSuffices, PTL DEF Spec
=============================================================================
