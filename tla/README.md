# TLA+ verification of weasel-t9 (Weasel, librime and the T9 keypad schema)

The program is a Windows input method for typing Chinese on the numeric
keypad: the Weasel frontend (a text service in every application, a server
process, a deployer process), the input engine librime that the server runs,
and a schema `t9` that configures the engine for keys 2 to 9. The modules in
this directory model the parts of it whose correctness depends on order:
orders of threads, of calls and of keys. Paths below are relative to
`src/weasel/`.

Contents

1. [The system](#1-the-system)
2. [Plan](#2-plan)
3. [The deployment queue and the recovery of databases](#3-the-deployment-queue-and-the-recovery-of-databases)
4. [The composition](#4-the-composition)
5. [The server, its clients and the deployer](#5-the-server-its-clients-and-the-deployer)
6. [What is learned](#6-what-is-learned)
7. [The way of a key](#7-the-way-of-a-key)
8. [The text service](#8-the-text-service)
9. [The key settings](#9-the-key-settings)
10. [The syllable graph](#10-the-syllable-graph)
11. [Runs](#11-runs)
12. [Proofs](#12-proofs)
13. [Where code and comments disagree](#13-where-code-and-comments-disagree)
14. [What is not modelled](#14-what-is-not-modelled)

## 1. The system

    application ── TextService (WeaselTSF) ── client (WeaselIPC)
                                                 │ named pipe
                              server (WeaselIPCServer) under g_api_mutex
                                                 │
                            request handler (RimeWithWeasel.cpp) ── UI
                                                 │ rime_get_api()
         ┌───────────────────── librime ─────────┴───────────────────┐
         │ Service ── Session ── Engine ── Context ── Composition    │
         │    │                  processors, segmentors, translators │
         │ Deployer ── work thread ── deployment tasks               │
         │    └── recovery of user databases ── UserDictionary, Db   │
         └───────────────────────────────────────────────────────────┘
    deployer process (WeaselDeployer): the same librime, a mutex, and a pipe
    client that puts the server into maintenance; T9 key settings

### librime

**Deployment work queue** (`librime/src/rime/deployer.cc`). State: the queue of
tasks (under a mutex), the maintenance mode, the future of the work thread.
Operations: `ScheduleTask`, `StartWork`, `StartMaintenance`, `Run` on the work
thread, `JoinWorkThread`. Hard: tasks are added while the thread takes them, and
the thread decides to quit by looking at the queue once more. Correct when no
task is lost, repeated or overtaken, when the report counts every failure, and
when the mode does not change in the middle of a maintenance.

**Service and sessions** (`service.cc`, `rime_api_impl.h`). State: `started_`, the
map of sessions. Operations: start and finalize, create and destroy sessions,
schedule maintenance or synchronisation. A service in maintenance gives out no
session; a background recovery does not lock sessions out.

**Opening and recovery of user databases** (`dict/user_dictionary.cc`,
`dict/user_db_recovery_task.cc`, `dict/db.cc`). State: `loaded`, `disabled` and the file.
`Load` hands a database that does not open to a task on the work thread; in
between it is disabled. Correct when the files are repaired only while no
session has the database open, and when a disabled database comes back.

**Segmentation** (`segmentation.cc`, `gear/*_segmentor.cc`). State: a list of
segments, each with a range of the code, a status, the length it had when it was
made, its candidates and the highlighted one. Operations: `Reset` (keep what the
change of the input does not touch), `AddSegment`, `Forward`, `Trim`, `Close` and `Reopen` of
a segment. Hard: partial selections split segments, `Reopen` undoes it by
arithmetic on `length`, and all of it in any order.

**Context, Engine, key processors** (`context.cc`, `composition.cc`, `engine.cc`,
`gear/{speller,selector,punctuator,navigator,editor}.cc`). State: the code, the caret, the segments.
Operations: one handler per key. They interact by callbacks: a change of the
context notifies the engine, which segments and translates again, a selection
notifies it and may commit. Correct when the code is edited at the caret and
nowhere else, the segments tile it, what was selected stays selected, undo gives
back what was there, and what is committed is the code, once and in order.

**Key binder, ascii composer, recognizer, chord composer** (`gear/key_binder.cc`,
`gear/ascii_composer.cc`, ...). State: bindings by condition, the redirecting flag, the last
key, mode switches. Correct when redirection ends and a key is not reinterpreted
in another composition.

**Menu, translations, filters** (`menu.cc`, `translation.cc`, `gear/*_filter.cc`). State: lazily
merged streams and a cache. Correct when what is on a page never changes.

**Translators and learning** (`gear/script_translator.cc`, `gear/memory.cc`,
`dict/user_dictionary.cc`, `dict/user_db.cc`, `gear/poet.cc`). State: the user database, its
transaction, its tick. Hard: transactions that undo or crash cuts short, merging
of snapshots of several machines.

**Spelling algorithms** (`algo/{syllabifier,spelling,calculus,encoder}.cc`). Pure functions; `BuildSyllableGraph` keeps a queue and a graph
while it runs. Correct when the graph has every best way to cut the code and no dead end.

**Deployment tasks, config compiler, switches** (`lever/*.cc`, `config/*.cc`, `switcher.cc`,
`switches.cc`). Files, dependency resolution of includes and patches, options.

**Dictionary formats** (`dict/{table,prism,reverse_lookup_dictionary,mapped_file,...}`). Layout of data.

### Weasel

**Request handler** (`RimeWithWeasel/RimeWithWeasel.cpp`). State: a map from ids of clients to sessions of librime,
the disabled flag, the active session. Hard: ids that are given out again after
a maintenance, a disabled flag that is derived from the deployer's mutex.

**IPC** (`WeaselIPC/`, `WeaselIPCServer/`). State: one session id per client, one pipe
thread per client, one mutex for the API. Hard: a lost answer looks like a
refusal, a restarted server.

**Deployer front end** (`WeaselDeployer/`). State: its mutex; it asks the server to start and
end maintenance. Hard: error paths that do not end what was begun.

**T9 key settings** (`WeaselDeployer/T9KeySettingsDialog.*`). State: the key of each nine-key group in either
schema, which schemas have changes to save, which files hold work of the user, the group that waits for a key.
Operations: capture a key, restore, OK, Cancel. Hard: message boxes run a message loop inside a handler, while the
timer and sometimes the dialog go on. Correct when what is shown and not marked as changed is in the file and is
what the key does, and when nobody's work is overwritten unasked.

**Text service** (`WeaselTSF/`). State: the composition in the document; edit
sessions that the application grants late or refuses.

**Response messages, UI, setup, data** (`WeaselIPC/*Deserializer*`, `WeaselUI/`, `WeaselSetup/`,
`output/`). Formatting, drawing, installation, dictionaries.

`PROJECT.json` has the same list as "components", with what is modelled of each, and
under "hazards" the places in this code that are hard to test, each with the
properties that watch it.

## 2. Plan

Done so far, in this order:

| module | extends | what it is |
| --- | --- | --- |
| `Deployer` | | the queue and the work thread, actions over their own variables |
| `Service` | `Deployer` | composes it with sessions, API calls and databases; the specification |
| `MCService` | `Service` | instance for TLC |
| `ServiceProofs` | `Service` | types, order of the queue, stability of the mode, truth of the report, exclusiveness of a repair |
| `Segmentation` | | operators on segments, no state |
| `InputLine` | | abstract specification: the code as a line with a caret |
| `Context` | `Segmentation` | one action per key; instantiates `InputLine` |
| `MCContext` | `Context` | instance for TLC, with a small translator |
| `ContextProofs` | `Context` | types and all six properties, the refinement of `InputLine` among them |
| `RequestHandler` | | the request handler of the server, actions over its own variables |
| `WeaselServer` | `RequestHandler` | composes it with pipes, text services, the deployer and failures |
| `MCWeaselServer` | `WeaselServer` | instance for TLC |
| `WeaselServerProofs` | `WeaselServer` | types, the session map, the deployer alone, own sessions |
| `UserDict` | | user dictionaries of several machines, transactions, snapshots |
| `MCUserDict` | `UserDict` | instance for TLC |
| `UserDictProofs` | `UserDict` | types, every commit counts, nothing counts twice |
| `KeyChain` | | the processors as functions of engine and key; the keyboard |
| `MCKeyChain` | `KeyChain` | instance for TLC |
| `KeyChainProofs` | `KeyChain` | types and all five properties of keys |
| `TextService` | | key events, edit sessions and compositions in an application |
| `MCTextService` | `TextService` | instance for TLC |
| `TextServiceProofs` | `TextService` | types and all five properties |
| `T9KeySettings` | | the dialog of the key settings, its nested message boxes and its files |
| `MCT9KeySettings` | `T9KeySettings` | instance for TLC |
| `T9KeySettingsProofs` | `T9KeySettings` | types and all four properties |
| `Syllabifier` | | the syllable graph and its definition by paths |
| `MCSyllabifier` | `Syllabifier` | instance for TLC |
| `SyllabifierProofs` | `Syllabifier` | both properties |

Next, most important first:

1. `Menu`: lazy merging and caching against the abstract list, with proofs on the pattern of `SyllabifierProofs`.
2. `Calculus`, `ConfigCompiler`: pure algorithms, each against a reference definition.

## 3. The deployment queue and the recovery of databases

### `Deployer`

The state is that of class `Deployer`: `pending_tasks_`, `maintenance_mode_`, whether `work_` is
valid (`valid`), and the place of the work thread inside `Run` (`worker`, with `current`,
`failure` and the `message` it sent last). `scheduled`, `ran` and `failed` are history and
guard nothing but that each task object is scheduled once.

The work thread takes a step for every critical section, task and message of
`Run`: `RunStart` sends "start", `NextTask` takes a task under the mutex, `RunTask` runs it
(true, false and an exception, which counts as false), `RunReport` sends success
or failure, `RunCheck` is the double check before quitting and `RunReturn` makes the
future ready. The API thread has `ScheduleTask`, `StartWork` and `JoinWorkThread`. `StartWork` is a
single step although it takes the mutex twice: if a thread works it returns at
once, and if none does nobody else touches the queue.

One API thread is assumed: the server serialises the requests of all pipes with
`g_api_mutex` (`WeaselServerImpl.cpp:165-176`). The calls it makes without that mutex, the
tray menu and the end of the Windows session, are not in this module; `WeaselServer` has the
latter as `Close`.

### `Service`

Adds the sessions, the API call that is in progress (`api`: what it still has to
schedule, so that the work thread runs between two of its steps), and for each
user database whether it is `loaded`, `db_disabled`, and whether its file is `intact`.

* `StartService`, `Finalize`, `CreateSession`, `DestroySession` are one step each. `Finalize` waits for
  the work thread, as its guard.
* `BeginMaintenance`, `BeginSync`, `ApiSchedule` and `ApiStartWork` are `RimeStartMaintenance` and
  `RimeSyncUserData`: the tasks one by one, then `StartMaintenance`.
* `Load` is `UserDictionary::Load`. When the database does not open and no thread is
  working, a recovery task is created, which disables the database, and
  `ApiSchedule` and `ApiStartWork` carry it to the work thread.
* `RecoveryCheckLoaded` and `RecoveryRepair` are `UserDbRecoveryTask::Run` in two steps: the check that the
  database is closed, and what follows, with every outcome; each exit enables the
  database again.
* `Fault` is the environment: files of a closed database go bad.

Databases are shared by the sessions and closed with the last one.

### Properties

`RunInOrder` (what was scheduled is what has run, runs and waits, in this order),
`ReportIsTrue` (failures of earlier passes of the loop count), `ModeIsStable`
(`maintenance_mode_` cannot change under a working thread), `RepairIsExclusive` (a repair
runs on a closed and disabled database) and the liveness property
`DisabledDbComesBack`.

### Fairness

`FairSpec` has weak fairness of `ApiProgress` and of `WorkThread`, nothing else. Both are threads
of the process that never block on anything but each other, and the tasks
terminate (they read and write files; a task that hangs would hang the program as
well). There is no fairness of `Calls`: no user has to start another
maintenance, so a task that is left in the queue stays there. That
`DisabledDbComesBack` holds all the same is due to `Load`, which schedules a recovery only
when no thread is working, so that `StartWork` cannot be refused.

### Bounds

`MCService` has maintenance calls of two tasks and of one (the code schedules three
and, for synchronisation, three): two are needed for a failure before the
last task, a second call for scheduling into a running queue. Two recovery tasks
and one database let a database fail, be recovered, and fail again. Each task
object is scheduled once, as in the code, where each is newly made; so the
number of task objects bounds the length of a run. `MaxFaults` = 1 fault of the files in addition
to failures to open an intact file, which are unbounded.

## 4. The composition

### `Segmentation`

Operators for class `Segment` and `Segmentation`, the three segmentors of the t9 schema that cut
something (abc, punctuation, fallback), the loop `CalculateSegmentation` and `TranslateSegments` of the
engine. A string is a sequence of characters, a position counts from 0 as in the
code. A candidate is the position of its end, the only thing segmentation
asks of it; a menu is the sequence of these ends; what the translators offer for a
code is the constant `Translate`, of which `ContextAssumption` says that a candidate covers at least
a character and no more than the code. Texts are not modelled: a committed text is the list of
pieces of the code it stands for.

### `Context`

One variable, the record `ctx` of class `Context`: `input`, `caret_pos`, the composition `comp` and in
`out` what the last key committed: the pieces, the length of the code, and which of it candidates that are highlighted, but
not selected, do not reach (`Said`). Since a session handles a key at a time, a key
is a step; what it does is the composition of the operations of the code in the
order of the code, including the callbacks to the engine (`Compose`, `OnSelect`, `Commit`).
Operations that return a boolean return `[ok, c]`, so that `a || b` of the editor is
`OrElse`.

Typing (`SpellLetter`, `SpellDelimiter`, `Punctuate`, `AddDelimiter`, `DirectCommit`), selecting (`SelectCandidateAt`, next, previous,
pages, `Highlight` by mouse), moving (`LeftByChar`, `RightByChar`, `Home`, `End`, `JumpBySyllable`), editing (`Space`,
`BackSpace`, `BackSyllable`, `Return`, `ReturnRaw`, `ReturnScript`, `Delete`, `Escape`) and the calls of the frontend (`ApiCommit`, `ApiClear`,
`Refresh`) are the actions. A session begins with one of `Schemas`: its `Editor` is `express_editor`, which the t9 schema
uses, or `fluid_editor`, and its `PunctKind` says what a punctuation key does.

Where a syllable ends is up to the dictionary: `JumpBySyllable` and `BackSyllable` take any stop.

### Properties

* `Tiling`: the segments tile the code from its beginning; only the last is empty.
* `SelectionFits`: a selected segment ends with its candidate; no candidate on offer
  claims code outside its segment.
* `CommitFaithful`: what is committed uses no code twice or out of order and leaves out
  only what a highlighted, not selected candidate does not reach.
* `SelectionsKept`: a key that inserts or moves keeps every selection before the caret.
  Raw segments are excepted: the next raw character reopens the segment.
* `UndoRestores`: BackSpace after a selection gives back the state before, under the two
  conditions that section 13 explains.
* `LineSpec`: refinement. `InputLine` knows a line and a caret only; whatever the segments do,
  each key is one of its edits.

`Spec` has no fairness: nothing has to happen in a session unless the user presses a
key.

### Bounds

One letter, which is a syllable of its own only before a delimiter and otherwise needs another letter, gives codes
that have candidates for the whole, for several parts, or none. One delimiter and one
punctuation character reach the other two segmentors. Codes of up to 5 characters
(`MaxLen`; 3 with `fluid_editor`, where a session goes on after a selection) give up to four segments: a selected one, a reopened one, an open one and
what lies past the caret. `PageSize` is 2, below the number of candidates.

## 5. The server, its clients and the deployer

### `RequestHandler`

The state of class `RimeWithWeaselHandler`: `m_pid`, `m_disabled`, `m_session_status_map` (IPC session id
to session of rime), and of what it commands: whether rime is started, rime's `sessions` with
the client each was made for (rime itself does not know; the properties ask), whether the
user's configuration is `modified`, and who has a handle on `WeaselDeployerMutex`.

Requests come one at a time under `g_api_mutex`, so `FindSession`, `RemoveSession`, `ProcessKeyEvent`,
`ChangePage`, `StartMaintenance` and `EndMaintenance` are a step each; the requests with the same guard and the same
effect on this state (commit, clear, select, focus, input position) are `ProcessKeyEvent`. Two calls are
several steps, and `job` says how far they are. `Initialize` looks at a mutex of another process: `Probe` and `ProbeEnd` are
`CreateMutex` and `CloseHandle` of `_IsDeployerRunning`, `InitializeRime` starts rime, and `FinishStart` or `FinishResume` goes on
where it was called from. `AddSession` goes from the look whether the service is started (`BeginSession`) to the session of rime
(`CreateSession`) and the entry of the map (`StoreSession`).

`Finalize` on the window thread takes no mutex, so any of this may come between its steps `SetDisabled`, `ForgetSessions` and
`FinalizeRime`, and any of these into an `AddSession`. In a request, `Finalize` is one step (`StopRime`).

Looking up an unknown id adds an entry without session to the map, as `operator[]` does; this
is why the map is not empty after the handler answered an Echo, and decides which id is
given out next. Addresses of sessions that were freed are used again at once. `m_pid` is one of `Bases`:
two processes may have the same one: the scaling shifts the process id to the top of the word
and drops its magnitude.

`current` (clients whose id was handed out since the map was last cleared) and `stale_hit` (an older id
has met a live session) are history.

Ids are natural numbers: a new one is one more than the largest in the map. That the 32 bits of an id run over is left out.

### `WeaselServer`

* The server process: `StartServer`, `JobStep`, `Started`; `Serve` takes any request that waits in a pipe.
  `Close` is what `Run` does after the message loop and what `OnEndSystemSession` does: the window thread
  begins to finalize, without the mutex; `FinalizeStep` is the rest of it, and `Closing` all the time from then on.
  `ForgetHandler` is the null pointer after the latter, `Exit` and `Crash` end the process.
* The text services: a key is Echo, on failure EndSession, StartSession and Echo, then
  the key (`PressKey`, `Echoed`, `Ended`, `SessionStarted`, `Checked`, `SendKey`), with any step of anybody in between. `Click` stands for
  the requests that are sent without Echo. `Deactivate` ends the session, `Killed` does not.
* The deployer: `EnterDeployer` takes the mutex or gives up, `ConnectDeployer`, `MaintenanceStarted`, `Worked`, which
  releases the mutex before the server is told to resume and which tells it nothing when
  synchronising failed, `MaintenanceEnded`. `UpdateWorkspace`, `DictManagement` and `SyncUserData` have this shape in common.
* A request that is under way when the server ends is answered by 0, as `_SendMessage` does for
  every exception, and so is one without a server.

### Properties

* `TypeOK` ties the pipes to those who wait at them: a client or deployer that waits has a request or an answer in its pipe and
  nobody else has, and a job of the server is for a request that still waits.
* `MapIsSound`: until the window thread begins to finalize no entry of the map dangles. An `AddSession` under way then may
  leave one that does (section 13), but no two lead to a session that rime would find, whoever starts rime again.
* `DeploysAlone`: once the server has answered its StartMaintenance, the deployer works while rime is
  stopped, whatever restarts or asks for a session.
* `OwnSession`: the id a client was given since the map was last cleared leads to its own
  session, and nowhere at worst once the window thread finalizes. `stale_hit` leaves out the case of section 13: a client that slept
  through a maintenance can reach, and end, a session of another.
* `ServedAgain`: liveness. After everything that may happen a text service gets keys processed.
  Nobody has to end the maintenance: a start of a session resumes the service.

### Fairness

Weak fairness of the steps of the server process and of a deployer that has begun: threads
that run, and never wait for anything but each other. Strong fairness of `Serve`: a request gets the mutex some
time, although others get it in between. Strong fairness of `PressKey`: the user goes on typing.
`StartServer` is fair because text services launch the server when none answers (`WeaselTSF.cpp:242-270`).
Nothing makes anybody edit, deploy, click, close or die, and nothing makes a deployer
succeed.

### Bounds

Two text services are needed to confuse two sessions; the third party is the deployer.
`MaxEvents` = 2 disturbances of 8 kinds (`Close`, `Crash`, `Click`, `Deactivate`, `Killed`, `EnterDeployer`,
`DeployerKilled`, `Edit`): a deployment and a crash, a crash and an edit, two deployments,
a click during a deployment, and so on; typing is not bounded. `ServedAgain` is about one text service and
has 4 disturbances. `MaxSessions` = 7 is more than the bounds can reach. `MaxIpcId` = 4
bounds the ids of a service that was stopped under a request which then resets the flag: such a service goes on answering ids
without session, to text services that ask for one at every key. `Bases` is one base in the run of the invariants, the case in which every process
gives out the ids of the last one, and two in the run of `ServedAgain`. `MCSymmetry` permutes the text
services in the run without liveness.

## 6. What is learned

### `UserDict`

Every session has a `Memory` with a `UserDictionary`, but all sessions of a process share one `Db`, its
write batch and its flag `in_transaction_`. A commit goes into the batch, and the next commit,
any other key, or the end of any session writes it; BackSpace within three seconds throws it away. A deletion goes into the batch
too, and the composition that is refreshed after it makes the translator write it (`script_translator.cc:204`).
The variables are the database, the batch and the flag, per machine; the sessions; in
`recent` the sessions whose last transaction is at most three seconds old; and for the
synchronisation the snapshots in the shared directory and which of them are yet to be merged.

`OnCommit` (with `Memorize` and `UpdateEntry`), `OnDeleteEntry`, `OnBackSpace`, `OnOtherKey`, `Load`, `Destroy`, `SecondsPass` are the sessions; `ServerKilled` loses the batch.
`StartSync`, `Restore` for one snapshot in any order, `RestoreFails`, `Backup` and `DeployerKilled` are the deployer; each database is closed by then,
because the maintenance has destroyed the sessions. `Import` is the dictionary dialog. An entry is its
commit count, negative when marked as deleted. Its weight and time stamp, which rank candidates, are
left out: no property of counts depends on them.

### Properties

* `TypeOK` ties the transaction to the sessions: without one the batch is empty, with one a session is loaded, a machine that
  synchronises has no session, and only loaded sessions can take a commit back.
* `EveryCommitCounts`: a commit is counted until the session that made it takes it back, the user deletes the
  entry, or the server is killed before it was written, whatever other sessions and machines do, but for the two losses of section 13.
  `learned` follows what is to count, `kept` what it was before the transaction, and `dropped` the commits that the
  BackSpace of another session threw away; `CountedBy` says which phrases of a commit are counted at all.
* `NothingLearnedTwice`: merging, however often and interrupted, adds nothing: a machine's own snapshot
  and what it already had from others come back in every round.
* `SyncConverges`: under the premise that every machine is synchronised again and again, which only the
  user can bring about, all have the same counts in the end. The sign may differ: between 5 and -5
  the merge keeps what is there, on each machine its own.

`FairSpec` has weak fairness of `SyncStep` alone: a deployer that has begun goes on. The commits are bounded, so
"stops typing" needs no premise.

### Bounds

One machine with two sessions and one with one; a commit of a word and of a phrase that touches it as
its element; deletion and import of either. Three events (commits, deletions, imports of
count 2) and one fault (a kill or an unreadable snapshot) suffice for a commit of one session during
the transaction of another and for the BackSpace of either, for a deletion of what was committed or imported elsewhere, for
two machines that learn the same entry, and for a kill between any two of their steps. Imports of lines
marked as deleted are in the module but not in `MCCounts`.

## 7. The way of a key

### `KeyChain`

The t9 schema's processors in their order, as functions from the engine and a key event to
the engine and a result (`accepted`, `rejected`, `noop`); `Then` passes on what was left.
`Switcher`, `AsciiComposer`, `Recognizer`, `KeyBinder`, `Speller`, `Selector`,
`Punctuator`, `ExpressEditor`. The record `e` has the fields they keep between keys: `input` and `ascii_mode` of the context, `connection_`
and `toggle_with_caps_` of the ascii composer, which of Shift and Control it takes for pressed, `last_key_` of the key binder,
`active_` of the switcher. `PerformKeyBinding` sends the key of a binding through the chain without the key binder, as
`redirecting_` has it.

There is a key of each kind: the digit 2 of the main row (which has bindings for a menu, for composing
and for neither) and of the keypad, keypad minus, minus, period, a small letter, a capital letter
(which the recognizer takes), space, BackSpace, Return, Escape, Shift+2, Control+Shift+2, the hotkey
of the switcher, both Shift keys, Control and Caps Lock. The keyboard is modelled too: modifiers
go down, repeat and come up in any order, Caps Lock may change behind the program's back, half a
second may pass at any time. Composition is in `Context`; here the code is a sequence with the caret at its
end, `Translatable` says which codes have candidates, and a selection takes all of the code.

`before`, `tapped` and `by` are history. `TypeOK` says of `by` that a cause is recorded exactly while the mode is on, and that
the ascii composer listens only while there is a composition.

### Properties

All are about two or more keys with other keys between them; the comments in the module name
the code. `TemporaryMode` (Shift_L's mode ends with its composition), `ToggleIsATap`, `CapsLeavesShiftMode`, `PeriodOnlyAfterPeriod` (a period is put in before a
letter only if it was the last key), `KeypadSpells` (a keypad digit is never taken for a digit of the main
row, although it is sent as one).

`Spec` has no fairness, `MaxLen` is 3: two digits have candidates, a third has none, and a reinterpreted period
fits before a letter.

## 8. The text service

### `TextService`

An application calls the text service: key events, edit sessions it had been asked for, focus,
terminated compositions. Calls nest (an edit session requests others, which the application runs inside it, and ending
an empty composition calls `OnCompositionTerminated` back), so what one call changes is the record `s` and the steps
of the code are functions on it, composed in the order of the code: `Connected`, `Respond`, `Parsed`, `Committed`, `Composed`,
`ShowInlinePreedit`, `Extents`, `EndComposition`, `Terminated`. `DoEditSession` is the whole edit session. A function that asks the application something returns
the set of outcomes.

`s` has, of the server, the code `pre` and the text committed and not yet handed over (`unread`); of
the client, the `session` and the `buffer`; of the class, `_status.composing` and `_pComposition`; of the document, the
compositions that are `live`, each with its text, and the `text` that was committed. A response stays in the
buffer of the pipe; every request is written over its first bytes, after which it parses to nothing (`Spoil`). A change of the
conversion mode parses it again, without a request (`ChangeConversion`).

A composition has a number, which is given out again when nobody refers to it any more, as the address of one that was freed.

`Applications` are of different kinds; `Environment` says what one may do beside the usual: grant edit sessions later (`queue`), send key tests again,
disable the keyboard, close it, send keys that are not converted. The server is abstract here: a key has any effect on the
code, and may commit; the effects in detail are in `Context`, sessions that are lost in `WeaselServer`.

Assumed of the application: sessions requested inside a session run at once, deferred ones in order, a composition can always be
started, and the calls for one key event are not mixed with those for the next.

### Properties

* `CommitsArrive`: every committed text comes into the document once and in order. Not awaited: the text of a
  click whose simulated key goes to another window, what a lost server had not handed over, and anything once the keyboard
  has been off (section 13).
* `OneComposition`: between two calls the only composition in the document is the one `_pComposition` points to.
  `crowded` is excepted (section 13): while an update of the document waited, another session that changes it was requested.
* `ShowsCode`: there is a composition exactly if the server has code, and inline it shows the code. A click, a switch to ascii and a keyboard that is
  off leave the document behind until the next key that is sent.
* `SentOnce`: a key event reaches the server once.
* `NothingTwice`: with late sessions text may be lost (section 13), but never comes twice or out of order, unless `crowded`.

There is no fairness: whether the user types on is nobody's duty, and no property promises an end.

### Bounds

Three applications. `MCAtOnce` grants sessions at once, and its keyboard is off at times; `MCLate` grants them late, tests keys
again and terminates compositions for keys it does not know; `MCQueued` only grants them late, and lets more of them wait. Two codes tell a stale
display from a fresh one (one code where sessions are granted late, as `ShowsCode` is not about these). Three commits and two losses
of the server in the first, two and one in the second, two and none in the third. `MaxWaiting` = 2 defers an update and its position, or two others;
3 lets another session be requested while an update waits, which is `crowded`.

## 9. The key settings

### `T9KeySettings`

The variables are the members of class `T9KeySettingsDialog` for both schemas (`keys`, `manual_content`, `dirty`), the
`current` schema, the group in `capture`, the `file` of each schema, the `result` of the dialog and, in `prompts`, the
message boxes that are open. A message box runs a message loop inside the handler that opened it; `prompts` is the stack of
these handlers, with what each has in its local variables, and the box opened last is answered first: that of an inner loop
must end before the outer one returns. The boxes of `ConfirmByIds` have no owner, so the dialog takes clicks while they
are open; the box of `PollCapturedKey` belongs to the dialog and disables it. The timer goes on under either.

`OnInitDialog`, `OnSchemaSelChange`, `OnKeyBtn`, `PollCapturedKey`, `OnRestore`, `OnOk`, `OnCancel` are the handlers;
`Dismiss`, `AnswerNo`, `ConfirmRestore` and `ConfirmOverwrite` are what a handler does when its box returns. The loop of `OnOk`
over the schemas is a step for each schema, `SaveNext`, and `SavedAll` when it is through. `saving` says which schema it is at;
while it runs nothing else happens (`Idle`), since it gives up the thread only for a box. What it is to do after the box,
`ConfirmOverwrite` knows from the schema of the box. `SaveSchemaKeys` removes the file (`RemoveFile`) or writes it
(`WriteFile`), and either may fail, with what the code does then. A file is the list of its bindings, whether the marker is in it, and whether
there is anything else in it; `Files` are those the dialog may find, and the assumption on them says that one
with nothing but the dialog's own work binds no group twice. A dialog that has ended may be opened again, and reads what was written.

`Sends` is the other side: the key binder's bindings for a key, those of the schema (`SchemaBindings`) and behind them those of the
patch, which takes none away. Each has a condition (predicting, paging, has_menu, composing, always); they are tried in this order, and of
those under one condition the one that was read last comes first (`KeyBindings::Bind`, `Precedes`). The schema binds every default key once, under no
condition, and other keys, such as minus, comma and the digits of the main row, under any. `Holding` has the sets of conditions that may hold
at once.

`lost` is history: schemas where what is shown may not get into the file, because a file could not be removed, or a
key was changed while the bindings for the file were already collected (section 13) or the dialog had ended.

### Properties

* `ShownIsSaved`: a schema without changes to save shows what is in its file.
* `OkSavesAll`: after OK neither schema has changes left.
* `ShownKeyTypes`: a key shown for one group only sends that group's digit, whosever default key it is and whatever the schema does with it under
  no condition; while a condition holds under which the schema itself binds the key, that binding comes first (section 13).
* `HandWorkIsAsked`: a file the user wrote or added to goes only after a box about this file, or when all keys of the
  schema are the defaults, in which case `SaveSchemaKeys` removes it without asking (`T9KeySettingsDialog.cpp:266`).

### Bounds

Both schemas, two groups whose default keys change places in `t9_pos` as 1 and 7 do, and one key that is nobody's
default: a group may be given another's default, and back. That key is 1 of the main row, which the schema binds with a menu, while composing and under
no condition. `MCFiles` are no file, one of the user's, which binds this key while composing, and one of the dialog's with something added. `MaxPressed` = 3 captured keys are enough for a swap, which needs
the third key in between. `MaxPrompts` = 2 nests a box into another of any kind (no handler that might open a third begins); `MaxFaults` = 1 file that cannot be
written or removed. Clicks and openings of the dialog are not bounded.

## 10. The syllable graph

### `Syllabifier`

`BuildSyllableGraph` as four loops: `Visit` takes a vertex from the priority queue and goes on by what the prism matches there,
`Prune` takes a position, from the farthest backwards, removes its edges that lead nowhere or are too abbreviated, marks ambiguous joints
(`CheckOverlappedSpellings`) and removes the vertex if nothing is left or the way to it is too abbreviated, and `Complete` adds a completion
if the prism has one. An edge has one element for each type of spelling; the syllables that are spelled so are treated alike.
What the prism knows is in `Inputs`, as the spellings that match at each position; any such relation belongs to some prism, since nothing
makes the characters of a code alike.

### Properties

Both compare with a definition of the graph by its paths: `ReachedBy(type)` is what paths lead to whose types are no worse, `LeadingTo` what
leads to the goal, the farthest position.

* `GraphIsPaths`: the graph consists of the paths to the goal with types no worse than the best one needs (fuzzy spellings are tolerated in any case): none is missing,
  none is a dead end, and the goal has the type of the best one. The visit in order of positions makes the type of the first visit final; and
  removing vertices by their own type while going backwards leaves no edge without a way to it.
* `AmbiguousJoints`: a syllable is discouraged exactly if it is the X of a Z = YX. Z and Y may begin at a vertex that is removed (section 13).

### Bounds

Codes of 4 characters with spellings of 1 or 2, each normal, abbreviated, both or missing; codes of 3 with spellings of up to 3, fuzzy too, with a delimiter
in either place, strict or not. Four positions are needed for a joint behind a vertex that is stale. `CHECK_DEADLOCK` is
off, because the function returns.

## 11. Runs

| run | module, cfg | expected | distinct states | shows |
| --- | --- | --- | --- | --- |
| `service` | `MCService.cfg` | pass | 148,731 | the invariants, `ModeIsStable` and `DisabledDbComesBack` under `FairSpec` |
| `service_quit` | `MCServiceQuit.cfg` | violation | | the window of the double check |
| `keys` | `MCContext.cfg` | pass | 17,376 | every property of section 4: as in t9 with codes up to 5, and with `fluid_editor`, where confirmed segments stay, with codes up to 3 |
| `undo_after_edit` | `MCContextUndo.cfg` | violation | | see section 13 |
| `server` | `MCWeaselServer.cfg` | pass | 3,088,468 | the invariants of section 5 with two text services, symmetric |
| `server_liveness` | `MCWeaselServerLive.cfg` | pass | 382,200 | `ServedAgain` under `FairSpec`, one text service |
| `user_dict` | `MCUserDict.cfg` | pass | 797,666 | every property of section 6 |
| `key_chain` | `MCKeyChain.cfg` | pass | 661,052 | every property of section 7 |
| `text_service` | `MCTextService.cfg` | pass | 1,845,250 | every property of section 8, in three applications |
| `t9_keys` | `MCT9KeySettings.cfg` | pass | 1,978,973 | every property of section 9 |
| `syllables` | `MCSyllabifier.cfg` | pass | 573,251 | both properties of section 10 |
| `key_prompt` | `MCT9KeySettingsPrompt.cfg` | violation | | see section 13 |

`CHECK_DEADLOCK` stays on in all runs but `syllables`. Symmetry is used in `server` only, which checks no liveness. Every property of a passing run has a
mutant in `PROJECT.json`: a wrong version of an operation, beside the operation it
replaces and marked "Mutant" or "a defect" in its comment, under which the run reports the
property violated.

## 12. Proofs

`ServiceProofs` proves, for every set of tasks, sessions, databases and batches, with
`TasksAssumption` as the only assumption (recovery tasks are tasks, batches are sequences of
other tasks, `NoDb` is no database, `MaxFaults` is a number):

* `TypeCorrect`: `Spec => []TypeOK`. `TypeOK` says beside the types that the future is valid exactly
  when there is a thread and that the thread holds a task exactly while it runs one;
  without these two it is not inductive: a new thread could start with a
  task in its hands.
* `QueueInOrder`: `Spec => []RunInOrder`, inductive together with `TypeOK`. Each step moves one task over
  one of the two boundaries of `ran \o current \o pending_tasks_`, or appends a task on both
  sides; lemmas `HeadMoves` and `AppendToQueue` state it.
* `ModeStable`: `Spec => ModeIsStable`. Only `StartWork` writes the mode, and not while a thread is working; that
  the thread itself cannot do it needs only the actions.
* `ReportTrue`: `Spec => []ReportIsTrue`, from `ReportInv`: at every place of the thread `failure` says whether some
  task of this `Run` failed, and from the report on the message says what
  `failure` says, while the loop has not been entered again.
* `RepairExclusive`: `Spec => []RepairIsExclusive`. The invariant `RecoveryInv` follows a recovery task from the call that
  creates it, through the queue, to the thread (`Outstanding`). `NoDuplicates`: it is in one
  place once. `Targeted`: while it is outstanding its database is disabled, and no other
  outstanding recovery has the same database. `RepairInv`: while repairing, the database of
  the running task is closed. The middle part is what makes it inductive: when
  a recovery ends and enables its database, no other repair of it is under
  way; and `Load` cannot open it in between, because it is disabled. `RepairIsExclusive` alone says
  nothing of the tasks that wait.

`WeaselServerProofs`, for any sets of clients and process bases, from `HandlerAssumption` (the server is not one of its peers, the deployer not a client) and
`EventsAssumption`:

* `TypeCorrect`, with the ties of section 5. They are what a step at one end of a pipe needs to know of the other end: an
  answer goes to somebody who waits, also if the server dies or the client is killed while a job is under way.
* `SessionMapIsSound`: `MapInv` follows an `AddSession` and the window thread through their steps. `RimeIsOn`: a handler that is not disabled has rime,
  until it is finalized. `RimeKnows`: while rime is on it has every session of the map and the one that is about to be stored. `OneEntry`: two entries lead to
  different sessions, and that one is in none, unless rime was finalized under the request. `Storing`: the id under which it will be stored is not
  in the map, because it is one more than the largest element of a finite set. `Cleared` and `Disabled` say what a disabled handler has left when rime is
  started again. `MapIsSound` alone says nothing of a session between `CreateSession` and `StoreSession`.
* `DeployerWorksAlone`: `DeploysAlone` looks at the moment the deployer works. `DeployInv` covers the time before and after:
  from its `EnterDeployer` on it has the mutex, and once `told`, rime is off and no job is past the point where it looks at the
  mutex. So a server that starts or resumes meanwhile finds the mutex and stays disabled.
* `OwnSessions`: `OwnInv` follows an id from the map through the answer in the pipe to the client, and says that id 0 has no session;
  while `stale_hit` is false nobody else can end the session. That rime still has it comes from `MapInv`.

`UserDictProofs`, for any machines, entries and sessions, from `UserDictAssumption`:

* `TypeCorrect`, with the ties of section 6.
* `CommitsCount`: `EveryCommitCounts` is inductive together with `KeptInv`, the same for the database without the batch and
  what was learned before the transaction: this is what is left when the batch is dropped, by the session that filled it, by another or by a kill.
  It holds for commits of any shape, also such that touch an entry twice.
* `NothingCountedTwice`: the bound must hold of the database, of the snapshots in the shared directory and of what the
  batch will make of the database (`CountsInv`): each becomes one of the others.

`KeyChainProofs`, for codes of any length and any set of codes with candidates (not the empty one), from `KeyChainAssumption`. The chain of
processors is a function, so most of the work is lemmas on what each processor may change; with these the theorems go key by key.

* `TypeCorrect`; `TemporaryModeEnds`, `KeypadExtends` from the types.
* `ToggleNeedsTap` rests on `TapInv`, which ties `shift_key_pressed_` to the keys that are really down: what the composer takes for a tap is
  one, after any repetition of modifiers.
* `CapsLeavesShift` rests on `ModeInv`: a mode that Shift switched on is not marked as switched on by Caps Lock.
* `PeriodAfterPeriod` rests on `PeriodInv`: a `last_key_` that is older than the last key is in a state where it cannot be typed.

`ContextProofs`, for any schemas, translator, page size and codes of any length up to that of the schema, from `ContextAssumption`:

* `AlwaysGood`: `Good` is the inductive invariant. `CompOK`: the segments tile the code of the composition from its beginning, only the
  last of them is empty, and they stay within the code; a selected segment ends with its candidate, one that is neither void nor selected has
  all the code its candidates claim, and only a raw segment may have grown since it was translated (`Offers`); a raw segment begins with a character that
  only the fallback segmentor takes (`RawOK`), from which follows that no other segmentor finds code to extend it with. `Open`: the last segment is not selected, so that
  the segmentors may extend or replace it. `Offered`: a segment yet to be translated has no menu, and one that is not empty has been
  translated. `Lined`: the code of the composition is the beginning of the line, and with the caret at the end the segments cover all of the line.
  `OutOK`: what the last key committed was faithful. `Tiling` and `SelectionFits` alone are not inductive: a segment that is reopened gets back the length it was made with (`OriginalEnd`), and
  that its candidates fit this length must be known all the time.
* `TypeCorrect`, `AlwaysTiled`, `SelectionsFit` and `CommitsAreFaithful` follow from it.
* `IsInputLine`: the context implements `InputLine`; each key is one of its edits (`LineStep`), whatever the segments do meanwhile.
* `SelectionsStay`, an action property. Its lemmas say what a composition owes to the one before it: `Fixed` segments (none void, the last one
  selected, not raw) that end before the first difference of the code `Stay` through each step of `Compose`, and no other segment becomes selected
  (`Follows`, `ComposeFollows`). `Keeping` carries this from operation to operation, up to the position the caret has been at
  (`Kept`); raw segments are the exception because the fallback segmentor reopens them.
* `UndoIsExact` needs the outcome of a selection followed by BackSpace as an equality of contexts. `ComposeSame`: with the caret at the end and no
  segment empty, `Compose` changes nothing, which needs `Lined` and `Offered`. `ReopenRestores`: `Reopen` is the inverse of `Close` on a segment
  with its original end. `OnePast`: after the selection there is one more segment, empty and not selected. Either the candidate took all of the code
  (`UndoWhole`: the empty segment is trimmed and the one before it reopened), or the segmentors give it code (`UndoPart`: by `ComposeFollows` the selected segment
  is still the latest, and reopening it drops what follows).

There is a lemma for each operator of `Segmentation` and each operation of `Context` (`ForwardIs`, `AddSegmentIs`, `ResetInputIs`, `OnSelectIs`, ...),
and the theorems go key by key through these. Recursive functions (the rounds of the segmentors, their passes, the pieces of a commit) are
reasoned about by a least counterexample: `RoundsAre` and `PassesExist` say that the functions are what their definitions say, `RoundsKeep` that no round breaks the invariant.

`TextServiceProofs`, for any applications, from `TextServiceAssumption` (what an application may do beside the usual is one of five things; the empty code
is not a code):

* `TypeCorrect`: each function on the record `s` takes states to states, also where calls nest.
* `NoCompositionLeftBehind` rests on `OneInv`, about every moment and not only those when no session waits: a composition without `_pComposition`
  has an end that waits; an end that waits is for the composition `_pComposition` points to, or for none; behind an
  update nothing waits but its position.
* `KeySentOnce` rests on `SentInv`: as long as no test of the key is pending (`_fTestKeyDownPending`), nothing was sent for it yet.
* `EveryCommitArrives` and `CodeIsShown` rest on `AwayInv` (a session that is lost has nothing to hand over, a keyboard that is off has been noticed,
  an application that grants at once has nothing in the queue) and on `ArriveInv` and `ShownInv`, their own statements without the moment.
* `NoCommitTwice` rests on `OrderInv`: what was inserted, what the response that an update will read brings, and what the server has still to hand
  over are increasing, in this order.

`T9KeySettingsProofs`, for any schemas, groups, keys, bindings of the schemas and files, from `T9KeySettingsAssumption` (the default keys of a schema differ, the schema
binds each once, under no condition, groups are numbers, files as in section 9):

* `TypeCorrect`: among the types is what a box about overwriting has collected, and that the dialog's own files bind no group twice.
* `NothingUnsavedIsShown`: `ShownIsSaved` for every result of the dialog, together with: a file with work of the user
  is known as such in `manual_content`, or in `lost`. The second part is what `HandWorkSafe` needs. That a file gives back what was
  collected is a fact on data, proved from `EntriesIs` (one binding for each group that is not as in the schema) and `BoundIs`.
* `OkLeavesNothing`: `OkInv` says of the loop of `OnOk` that the schemas before the one it is at are clean, and of each box about overwriting
  that those before its schema are, although keys change while it waits: such a change is in `lost`.
* `ShownKeyDecides`: from the same invariant and `SendsItsGroup`: where the schema has no binding for the key under a condition that holds, all that
  apply are under no condition, and of these the one read last comes first (`LastDecides`). It is the file's, if the file has one; if not, the key is the default of its
  group, which the schema binds once. The files are those the dialog wrote: one binding for a group, under no condition.
* `HandWorkSafe`: an action property from the same invariant.

`SyllabifierProofs`, for codes of any length, any delimiters and whatever the prism matches, from `InputsAssumption` (spellings lie in the code, contain no delimiter and are
normal, fuzzy or abbreviated):

* `SyllabifierInvariant` is about the two loops. While the first runs, `SearchInv`: a position is taken from the queue after all before it,
  so its first visit is with its best type; and where an edge of a visited position leads is visited or waits, with no worse type than that of the path there. When the
  queue is empty, the vertices are therefore the positions reached, each with its best type. While the second runs, `PruneInv` and `EdgesInv`: past `i` the graph is what it is to
  be, at and before `i` it is untouched but for the vertices marked as joints.
* `GraphCorrect` and `JointsCorrect` follow from it at `i = -1`.

The reference definitions are recursive functions. `ReachedFixpoint` and `LeadingFixpoint` prove that they exist (the smallest closed set is one, Tarski's argument)
and are what they say, `ReachedLeast` that they hold only where a path leads.

`InOrder` (groups in increasing order), `Min` and `Max` (in several modules) are `CHOOSE`s; that there is something to choose takes induction over finite sets. The library's
induction theorems have an operator as parameter, so `LeastNumber` and `FiniteIsOrdered` take a least counterexample instead, from the well-foundedness of `<`
and of strict inclusion.

Only model-checked: the liveness properties `DisabledDbComesBack`, `ServedAgain` and `SyncConverges`, which are out of reach of the prover. Every
invariant and every action property of a passing run is a theorem.

## 13. Where code and comments disagree

* `NothingLeftToDo`. `deployer.cc:99-100` announces a double check for tasks "enqueued while we were sending the
  message". Between `HasPendingTasks` and the end of the thread there is still a window: a task
  scheduled in it is not seen by the thread, and `StartWork` is refused because the
  future is not ready yet. The task waits for the next call.
* `RecentOperationDecides`. `editor.cc:126-127` says BackSpace depends on the recent operation. The tag
  `selected_before_editing` outlives `Segment::Reopen`; when the segment is selected again, BackSpace right after it
  deletes a character.
* `NextKeyAfterPrompt`. `T9KeySettingsDialog.cpp:479` says that after the prompt that a key is taken the dialog goes on waiting
  for the next key. Nothing stops the timer before the box (line 466), so `PollCapturedKey` runs in the box's own message
  loop, sees the key that answers the box, Enter or the space bar, and binds it.

Others, without a run of their own; they are why some properties carry a condition:

* `segmentation.cc:32-34` reuses the candidates of a segment that is reopened. Reopened first with the caret
  elsewhere (`segmentation.cc:40` leaves `length`), then with the caret at `start + length`, the segment is open over code that its
  candidates were not made for. `UndoRestores` therefore wants a segment whose `OriginalEnd` is its end.
* `WeaselIPC.h:113` documents StartSession as beginning a session, one of its own for every text
  service, and Echo asks whether it is still there. `EndMaintenance` clears the map, after which
  `_GenerateNewWeaselSessionId` begins at `pid + 1` again (`RimeWithWeasel.cpp:29,486`): a client that was idle during
  the maintenance holds an id that has since been given to another, and its Echo succeeds. `stale_hit` in `OwnSession` is this case.
* `WeaselServerImpl.cpp:99-108` finalizes the handler without `g_api_mutex`, which every request holds. An `AddSession` that is
  under way (`RimeWithWeasel.cpp:173-190`) stores its session in a map that was cleared already, or a session that rime has dropped
  (lines 151-154), and answers its id: `~Closing` in `MapIsSound` and `OwnSession`. The process is about to end, and no request finds the session.
* `memory.cc:138` says BackSpace means to "forget about last commit". `user_dictionary.cc:486-493` asks when its own session has committed, and
  aborts the batch that all sessions share: BackSpace within three seconds of a commit, when another application has committed
  since, forgets the commit of the other and keeps its own. `dropped` in `EveryCommitCounts` is this case.
* `user_dictionary.cc:425` reads an entry from the database and not from the batch. When a commit touches one twice, as a
  phrase and as an element of a later phrase, the later update is made without the earlier one, which is lost: `CountedBy`.
* `key_binder.cc:228-233,271-287` tries a binding with a condition before one without. The dialog can give a group minus, equal, comma,
  period or a digit of the main row, but `t9.schema.yaml:144-167,180-183` binds these for a menu or while composing, and so they go on turning
  pages, selecting and sending their own digit then: `BoundMoreSpecific` in `ShownKeyTypes`.
* `KeyEventSink.cpp:82-83` says `_fTestKeyDownPending` omits repeated `OnTestKeyDown` calls. It is
  set only for keys the server took; any other key is sent again by every repetition. `SentOnce` is about applications
  without "retest" in `Environment`.
* `Compartment.cpp:248` clears the composition when the keyboard is closed. `_status.composing` stays set, and the next
  key, though not sent, runs an edit session that starts an empty composition; `behind` in `ShowsCode` allows it until the
  next key that is sent.
* `TextEditSink.cpp:31` stops the composition when the caret leaves it; for the same reason a key that is
  not converted starts it again. `ShowsCode` is about applications without "unknown" in `Environment`.
* `EditSession.cpp:7` gets the commit string "from server", but it is read from the buffer. A key that is not sent because the
  keyboard is disabled reads the last response again and inserts its text twice, unless a position was sent since: `been_off` in
  `CommitsArrive`. When the application grants the session late, a request before it overwrites the
  response and the text is lost: `CommitsArrive` is about applications without
  "defer", `NothingTwice` about all.
* `EditSession.cpp:7` again, where two updates wait (`crowded` in `NothingTwice`): both read the same response when they are granted, and
  the text is inserted twice. And `Composition.cpp:131`: a session that ends a composition, requested while an update waited, comes after the
  update has started another one; it ends the one it was made for and forgets the other, which stays in the document (`crowded` in `OneComposition`).
* `t9.schema.yaml:22` says keypad minus turns the page, and line 203 sends
  minus for it. While the key binder redirects it returns at once (`key_binder.cc:272`), so this minus is not bound
  to Page_Up in its turn; it reaches the editor, which commits the composition (`editor.cc:178-181`).
* `T9KeySettingsDialog.cpp:282` asks about overwriting in a box without owner. What is changed in the dialog while it is open is
  not among the bindings collected before, but line 312 takes it for saved: `lost` in `ShownIsSaved` and `OkSavesAll`.
* `T9KeySettingsDialog.cpp:445`: BackSpace gives a group its default key even if another group was given it; both show it, and the
  later group has it. `ShownKeyTypes` is about keys shown once.
* `syllabifier.cc:176` marks the joints of a vertex before line 180 decides to remove it. A vertex that only an abbreviation leads to is removed with its edges
  Z and Y, and X stays discouraged although nothing in the graph is ambiguous there: `AmbiguousJoints` takes Z and Y from `Leading`.

Smaller ones no run is needed for:

* `T9KeySettingsDialog.cpp:492` removes the file at once; with Cancel afterwards nothing is deployed (`Configurator.cpp:201`), and
  the old keys stay in force.
* While its menu is open the switcher takes every key (`switcher.cc:69`), also the release of Control: the next tap of Shift does not toggle the mode.
* `t9.schema.yaml:24` calls Escape "clear", while `CancelComposition` first only drops the last segment.
* `t9.schema.yaml:26` says that keypad Enter commits the raw code. With the caret inside the code, what is
  right of it is dropped (`composition.cc:116-118`).
* `t9.schema.yaml:159` says that the digits 6 to 9 of the main row are swallowed while composing; their
  bindings send the digit itself, which reaches the speller.

## 14. What is not modelled

Inside the modelled components:

* `Context`: the speller's automatic selection and clearing, digit separators, paired and
  alternating punctuation (no key of the t9 schema uses them), `CommitComment` and `ToggleSelection`,
  the matcher, affix and ascii segmentors (their tags never apply to keypad codes), preedit and
  prompt texts, properties and notifications.
* `Service`: the resource resolvers, `Deployer::RunTask` by name.
* `RequestHandler`, `WeaselServer`: `m_active_session` and the UI, options and the settings of a schema, the
  calls of the tray menu and of a change of the color theme on the window thread, data races on single fields (the detached `_Reconnect` thread of
  `WeaselTSF.cpp:268`) and on the nodes of the session map while `Finalize` clears it (a `Crash`), and a request of another kind that `Finalize`
  overtakes after it has looked at `m_disabled` (it adds an entry without session at most).
* `UserDict`: weights and ticks, export and upgrade of dictionaries.
* `KeyChain`: the caret and partial selections (these are in `Context`), `ascii_punct` and `full_shape`, the
  recognizer's patterns other than that for capital letters, the condition `paging`, the Caps Lock key that the
  text service simulates, the chord composer.
* `TextService`: that simulation, `Deactivate`, the thread that reconnects, the language bar and the candidate window,
  a refusal to start a composition (the committed text is lost then), the attributes and the caret of the inline code.
* `Syllabifier`: corrections, credibilities, `Transpose`, which lists the edges of each syllable.
* `T9KeySettings`: the period that the key binder reinterprets (in `KeyChain`), the schema the dialog opens with, names of keys, keys the timer does not take, a file that
  changes on disk while the dialog is open, a write that fails after the file was opened.

Planned components are in section 2: menus, the spelling
algebra, the config compiler. With dictionary formats, response messages, the user interface,
setup and tray, data and build tools there is nothing to check with these tools.

Most lines of the repository are vendored headers (`include/wtl`), user interface and
data code, so the share of the lines the modules stand for is small even where the logic
of the core is modelled whole.
