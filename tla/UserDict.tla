------------------------------ MODULE UserDict ------------------------------
(***************************************************************************)
(* What librime learns from its user: one user dictionary on every machine *)
(* of the user (gear/memory.cc, gear/script_translator.cc,                 *)
(* dict/user_dictionary.cc over dict/level_db.cc), and the synchronisation *)
(* of the machines through snapshots in a shared directory                 *)
(* (lever/user_dict_manager.cc, dict/user_db.cc).                          *)
(*                                                                         *)
(* Every input session of a machine has a Memory and a UserDictionary of   *)
(* its own, but they all share one Db, and with it one write batch and one *)
(* "in transaction" flag.  A commit is written to the batch, so that a     *)
(* BackSpace within three seconds may still forget it; reads see the       *)
(* database and never the batch.  Of an entry the model keeps its commit   *)
(* count (negative: deleted; 0: absent or never committed); the weight and *)
(* the time stamps, which only rank candidates, are left out.              *)
(***************************************************************************)
EXTENDS Integers, Sequences, FiniteSetsExt, SequencesExt

CONSTANTS
  Machines,    \* the user's installations that share a sync_dir
  Sessions,    \* Sessions[m]: the input sessions machine m may have
  Entries,     \* the dictionary entries the user may commit
  Elements,    \* Elements[e]: the elements Memorize touches along with e
  Counts,      \* the commit counts a text file may give for an entry
  Commits,     \* what a commit saves: sequences of entries, one per Save()
  MaxEvents,   \* bound: commits, deletions, imports
  MaxFaults    \* bound: processes killed and snapshots that cannot be read

ASSUME UserDictAssumption ==
  /\ Elements \in [Entries -> SUBSET Entries]
  /\ \A c \in Commits : c \in Seq(Entries)
  /\ Counts \subseteq Int \ {0}
  /\ MaxEvents \in Nat /\ MaxFaults \in Nat

VARIABLES
  db,              \* what LevelDB holds: machine -> entry -> commits
  batch,           \* the write batch: a function on the entries written
  in_transaction_, \* LevelDb::in_transaction_
  sessions,        \* the sessions whose UserDictionary is loaded
  recent,          \* sessions whose transaction_time_ is at most 3 s ago,
                   \* the oldest first
  syncing,         \* a deployer is inside UserDictManager::Synchronize
  left,            \* the snapshots it has yet to merge
  snapshot,        \* <machine>/<dict>.userdb.txt in sync_dir
  learned,         \* history: commits that are to count, per entry
  kept,            \* history: what learned was before the transaction
  dropped,         \* history: commits that another session's BackSpace lost
  total,           \* history: commits of an entry on any machine
  events, faults   \* what MaxEvents and MaxFaults bound, so far

learning == <<db, batch, in_transaction_>>
syncVars == <<syncing, left, snapshot>>
history  == <<learned, kept, dropped, total>>
vars == <<db, batch, in_transaction_, sessions, recent, syncing, left,
          snapshot, learned, kept, dropped, total, events, faults>>
counters == <<events, faults>>

Empty  == [e \in {} |-> 0]
Absent == [e \in Entries |-> 0]
Abs(n) == IF n < 0 THEN -n ELSE n

\* One more of the events and of the faults that TLC is to bound.
Event == events < MaxEvents /\ events' = events + 1 /\ UNCHANGED faults
Fault == faults < MaxFaults /\ faults' = faults + 1 /\ UNCHANGED events

-----------------------------------------------------------------------------
(* The database and its transactions.                                      *)

\* UserDictionary::UpdateEntry: the commit count it writes for an entry that
\* was found with c.
Updated(c, commits) ==
  CASE commits > 0 -> Abs(c) + commits       \* revives a deleted item
    [] commits = 0 -> c                      \* only its weight changes
    [] commits < 0 -> Min({-1, -c})          \* marks it as deleted

\* What the database holds when the batch has been written to it.
Flushed(m) == [e \in Entries |->
  IF in_transaction_[m] /\ e \in DOMAIN batch[m] THEN batch[m][e] ELSE db[m][e]]

\* CommitPendingTransaction
CommitPending(m) ==
  /\ db' = [db EXCEPT ![m] = Flushed(m)]
  /\ batch' = [batch EXCEPT ![m] = IF in_transaction_[m] THEN Empty ELSE @]
  /\ in_transaction_' = [in_transaction_ EXCEPT ![m] = FALSE]

\* a defect: the batch is begun anew before the last one was written
NewTransactionOnly(m, updates) ==
  /\ batch' = [batch EXCEPT ![m] = updates]
  /\ in_transaction_' = [in_transaction_ EXCEPT ![m] = TRUE]
  /\ UNCHANGED db

\* NewTransaction: the pending one is made permanent first.
\* updates: what is written into the new batch.
NewTransaction(m, updates) ==
  /\ db' = [db EXCEPT ![m] = Flushed(m)]
  /\ batch' = [batch EXCEPT ![m] = updates]
  /\ in_transaction_' = [in_transaction_ EXCEPT ![m] = TRUE]

\* What is pending is written, and an update with it: the database is d then.
WriteAll(m, d) ==
  /\ db' = [db EXCEPT ![m] = d]
  /\ batch' = [batch EXCEPT ![m] = Empty]
  /\ in_transaction_' = [in_transaction_ EXCEPT ![m] = FALSE]

\* the sessions q, each at most once, but for s
Without(q, s) ==
  IF s \in Range(q) THEN RemoveAt(q, CHOOSE i \in DOMAIN q : q[i] = s) ELSE q

\* UserDictionary::RevertRecentTransaction succeeds
Revertible(m, s) == in_transaction_[m] /\ s \in Range(recent[m])

\* a defect: ClearBatch() forgotten
AbortTransactionOnly(m) ==
  /\ in_transaction_' = [in_transaction_ EXCEPT ![m] = FALSE]
  /\ UNCHANGED <<db, batch>>

\* LevelDb::AbortTransaction
AbortTransaction(m) ==
  /\ batch' = [batch EXCEPT ![m] = Empty]
  /\ in_transaction_' = [in_transaction_ EXCEPT ![m] = FALSE]
  /\ UNCHANGED db

\* The last transaction is settled: what it taught counts from now on.
Settle(m) == kept' = [kept EXCEPT ![m] = learned[m]]
\* It is taken back, or lost with the server: what it taught need not count.
Unlearn(m) == learned' = [learned EXCEPT ![m] = kept[m]] /\ UNCHANGED <<kept, dropped>>
\* It is lost although nobody took it back: what it taught stays learned.
Drop(m) ==
  /\ dropped' = [dropped EXCEPT ![m] =
                   [e \in Entries |-> @[e] + learned[m][e] - kept[m][e]]]
  /\ Settle(m) /\ UNCHANGED learned

-----------------------------------------------------------------------------
(* The sessions of a machine.                                              *)

Init ==
  /\ db = [m \in Machines |-> Absent]
  /\ batch = [m \in Machines |-> Empty]
  /\ in_transaction_ = [m \in Machines |-> FALSE]
  /\ sessions = [m \in Machines |-> {}]
  /\ recent = [m \in Machines |-> <<>>]
  /\ syncing = [m \in Machines |-> FALSE]
  /\ left = [m \in Machines |-> {}]
  /\ snapshot = [m \in Machines |-> Absent]
  /\ learned = [m \in Machines |-> Absent]
  /\ kept = [m \in Machines |-> Absent]
  /\ dropped = [m \in Machines |-> Absent]
  /\ total = Absent
  /\ events = 0 /\ faults = 0

\* UserDictionary::Load, for a new session or a new schema of one.  The
\* service makes no session during a maintenance.
Load(m, s) ==
  /\ ~syncing[m] /\ s \notin sessions[m]
  /\ sessions' = [sessions EXCEPT ![m] = @ \cup {s}]
  /\ UNCHANGED <<learning, recent, syncVars, history, counters>>

\* ~UserDictionary: it commits the pending transaction, whoever began it.
Destroy(m, s) ==
  /\ s \in sessions[m]
  /\ sessions' = [sessions EXCEPT ![m] = @ \ {s}]
  /\ recent' = [recent EXCEPT ![m] = Without(@, s)]
  /\ CommitPending(m) /\ Settle(m)
  /\ UNCHANGED <<syncVars, learned, dropped, total, counters>>

\* A Save() of the commit counts e, and no later one touches it: UpdateEntry
\* reads the database and not the batch, so of several updates of an entry the
\* last one decides.
CountedBy(saved, e) == \E i \in DOMAIN saved :
  saved[i] = e /\ \A j \in DOMAIN saved : j > i => e \notin Elements[saved[j]]

\* ScriptTranslator::Memorize, one call per group: the elements of a phrase are
\* touched, then the phrase itself counts once more.  d is the database.
Memorize(d, saved) ==
  LET touched == Range(saved) \cup UNION {Elements[e] : e \in Range(saved)}
  IN  [e \in touched |-> Updated(d[e], IF CountedBy(saved, e) THEN 1 ELSE 0)]

\* Memory::OnCommit: a new transaction, and one Save() per group of phrases.
OnCommit(m, s, saved) ==
  LET Counted(f) == [e \in Entries |-> f[e] + IF CountedBy(saved, e) THEN 1 ELSE 0]
  IN
  /\ s \in sessions[m] /\ Event
  /\ NewTransaction(m, Memorize(Flushed(m), saved))
  /\ recent' = [recent EXCEPT ![m] = Append(Without(@, s), s)]
  /\ Settle(m) /\ learned' = [learned EXCEPT ![m] = Counted(@)]
  /\ total' = Counted(total)
  /\ UNCHANGED <<sessions, syncVars, dropped>>

\* Memory::OnDeleteEntry: Fetch reads the database, the update goes to the
\* batch when a transaction is open, and the refreshed composition makes the
\* translator commit it (ScriptTranslator::Query).  The entry counts as new
\* from here on.
OnDeleteEntry(m, s, e) ==
  LET since == [learned[m] EXCEPT ![e] = 1]
  IN
  /\ s \in sessions[m] /\ Event
  /\ WriteAll(m, [Flushed(m) EXCEPT ![e] = Updated(db[m][e], -1)])
  /\ learned' = [learned EXCEPT ![m] = since] /\ kept' = [kept EXCEPT ![m] = since]
  /\ dropped' = [dropped EXCEPT ![m][e] = 0]
  /\ UNCHANGED <<sessions, recent, syncVars, total>>

\* Memory::OnUnhandledKey, DiscardSession() returned true.  The session's own
\* commit is recent, but the batch is that of the last session that committed.
OnBackSpace(m, s) ==
  /\ s \in sessions[m] /\ Revertible(m, s)
  /\ AbortTransaction(m)
  /\ IF s = Last(recent[m]) THEN Unlearn(m) ELSE Drop(m)
  /\ UNCHANGED <<sessions, recent, syncVars, total, counters>>

\* Memory::OnUnhandledKey, any other key or nothing to discard, and a key that
\* is composed (ScriptTranslator::Query): the pending transaction is committed.
OnOtherKey(m, s) ==
  /\ s \in sessions[m] /\ in_transaction_[m]
  /\ CommitPending(m) /\ Settle(m)
  /\ UNCHANGED <<sessions, recent, syncVars, learned, dropped, total, counters>>

\* More than three seconds have passed since a session's last transaction.
SecondsPass(m) ==
  /\ recent[m] # <<>>
  /\ recent' = [recent EXCEPT ![m] = Tail(@)]
  /\ UNCHANGED <<learning, sessions, syncVars, history, counters>>

\* The server is killed: the batch was only in memory.
ServerKilled(m) ==
  /\ sessions[m] # {} /\ Fault
  /\ sessions' = [sessions EXCEPT ![m] = {}]
  /\ recent' = [recent EXCEPT ![m] = <<>>]
  /\ AbortTransaction(m) /\ Unlearn(m)
  /\ UNCHANGED <<syncVars, total>>

-----------------------------------------------------------------------------
(* Synchronisation, by the deployer while the server is in maintenance.    *)

\* The server closes its sessions, whose UserDictionary objects commit what
\* is pending; then UserDictManager::Synchronize starts.
StartSync(m) ==
  /\ ~syncing[m]
  /\ sessions' = [sessions EXCEPT ![m] = {}]
  /\ recent' = [recent EXCEPT ![m] = <<>>]
  /\ CommitPending(m) /\ Settle(m)
  /\ syncing' = [syncing EXCEPT ![m] = TRUE]
  /\ left' = [left EXCEPT ![m] = Machines]
  /\ UNCHANGED <<snapshot, learned, dropped, total, counters>>

\* defects: the counts of the machines are added; a deleted entry is kept
MergedValueSum(o, v) == IF o < 0 THEN o - Abs(v) ELSE o + Abs(v)
MergedValueDeleted(o, v) == IF o >= 0 /\ o < Abs(v) THEN v ELSE o

\* UserDbMerger::Put: our count o of an entry and the count v in a snapshot.
MergedValue(o, v) == IF Abs(o) < Abs(v) THEN v ELSE o

\* UserDictManager::Restore, one snapshot of those found in sync_dir (the
\* machine's own is among them); directories are visited in any order.
Restore(m, n) ==
  /\ syncing[m] /\ n \in left[m]
  /\ db' = [db EXCEPT ![m] = [e \in Entries |-> MergedValue(@[e], snapshot[n][e])]]
  /\ left' = [left EXCEPT ![m] = @ \ {n}]
  /\ UNCHANGED <<batch, in_transaction_, sessions, recent, syncing, snapshot,
                 history, counters>>

\* A snapshot that cannot be read: Synchronize goes on with the others.
RestoreFails(m, n) ==
  /\ syncing[m] /\ n \in left[m] /\ Fault
  /\ left' = [left EXCEPT ![m] = @ \ {n}]
  /\ UNCHANGED <<learning, sessions, recent, syncing, snapshot, history>>

\* UserDictManager::Backup, the last step of Synchronize
Backup(m) ==
  /\ syncing[m] /\ left[m] = {}
  /\ snapshot' = [snapshot EXCEPT ![m] = db[m]]
  /\ syncing' = [syncing EXCEPT ![m] = FALSE]
  /\ UNCHANGED <<learning, sessions, recent, left, history, counters>>

\* The deployer is killed; what it has merged is in the database.
DeployerKilled(m) ==
  /\ syncing[m] /\ Fault
  /\ syncing' = [syncing EXCEPT ![m] = FALSE]
  /\ left' = [left EXCEPT ![m] = {}]
  /\ UNCHANGED <<learning, sessions, recent, snapshot, history>>

\* UserDbImporter::Put: our count o and the count v of a line of the file.
ImportedValue(o, v) == IF v > 0 THEN Max({o, v}) ELSE Min({v, -Abs(o)})

\* UserDictManager::Import of one entry, by the deployer's dictionary dialog,
\* for which the server closes its sessions.  A deleted entry that a file
\* brings back counts as new.
Import(m, e, v) ==
  LET d == Flushed(m)
      revived == d[e] < 0 /\ v > 0
      since == IF revived THEN [learned[m] EXCEPT ![e] = 1] ELSE learned[m]
  IN
  /\ ~syncing[m] /\ Event
  /\ sessions' = [sessions EXCEPT ![m] = {}]
  /\ recent' = [recent EXCEPT ![m] = <<>>]
  /\ WriteAll(m, [d EXCEPT ![e] = ImportedValue(@, v)])
  /\ learned' = [learned EXCEPT ![m] = since] /\ kept' = [kept EXCEPT ![m] = since]
  /\ dropped' = [dropped EXCEPT ![m][e] = IF revived THEN 0 ELSE @]
  /\ total' = [total EXCEPT ![e] = @ + Abs(v)]
  /\ UNCHANGED syncVars

SyncStep(m) == (\E n \in Machines : Restore(m, n)) \/ Backup(m)

Next == \E m \in Machines :
  \/ \E s \in Sessions[m] :
       \/ Load(m, s)
       \/ Destroy(m, s)
       \/ \E saved \in Commits : OnCommit(m, s, saved)
       \/ \E e \in Entries : OnDeleteEntry(m, s, e)
       \/ OnBackSpace(m, s)
       \/ OnOtherKey(m, s)
  \/ SecondsPass(m)
  \/ ServerKilled(m)
  \/ \E e \in Entries, v \in Counts : Import(m, e, v)
  \/ StartSync(m)
  \/ SyncStep(m)
  \/ \E n \in Machines : RestoreFails(m, n)
  \/ DeployerKilled(m)

Spec == Init /\ [][Next]_vars

\* A deployer that has begun runs to its end unless it is killed.
FairSpec == Spec /\ \A m \in Machines : WF_vars(SyncStep(m))

-----------------------------------------------------------------------------
(* Properties.                                                             *)

AllSessions == UNION {Sessions[m] : m \in Machines}
IsBatch(b) == \E D \in SUBSET Entries : b \in [D -> Int]

Types ==
  /\ db \in [Machines -> [Entries -> Int]]
  /\ DOMAIN batch = Machines /\ \A m \in Machines : IsBatch(batch[m])
  /\ in_transaction_ \in [Machines -> BOOLEAN]
  /\ sessions \in [Machines -> SUBSET AllSessions]
  /\ recent \in [Machines -> Seq(AllSessions)]
  /\ syncing \in [Machines -> BOOLEAN]
  /\ left \in [Machines -> SUBSET Machines]
  /\ snapshot \in [Machines -> [Entries -> Int]]
  /\ learned \in [Machines -> [Entries -> Nat]]
  /\ kept \in [Machines -> [Entries -> Nat]]
  /\ dropped \in [Machines -> [Entries -> Int]]
  /\ total \in [Entries -> Nat]
  /\ events \in 0..MaxEvents /\ faults \in 0..MaxFaults

\* Nothing is in the batch when no transaction is open, an open transaction
\* has a session, and a machine that synchronises has none; a session that
\* may still take its commit back is loaded, and is listed once.
Ties(m) ==
  /\ ~in_transaction_[m] => batch[m] = Empty
  /\ in_transaction_[m] => sessions[m] # {}
  /\ syncing[m] => sessions[m] = {}
  /\ left[m] # {} => syncing[m]
  /\ sessions[m] \subseteq Sessions[m]
  /\ Range(recent[m]) \subseteq sessions[m] /\ IsInjective(recent[m])

TypeOK == Types /\ \A m \in Machines : Ties(m)

\* A commit is counted, in the database or in the batch that is to be
\* written to it, until the session that made it takes it back within three
\* seconds, the server is killed before it was written, or the entry is
\* deleted: whatever the sessions of the machine commit, close or type in
\* between and whatever snapshots and files are merged (NewTransaction and
\* ~UserDictionary commit what is pending; UpdateEntry reads only what was
\* committed).  Two losses of the code are set apart: learned leaves out an
\* entry that a later Save() of the same commit touches, and dropped counts the
\* commits in a batch that the BackSpace of another session aborted, one that
\* had committed within three seconds itself (RevertRecentTransaction asks
\* when its own session committed, and aborts the batch they all share).
EveryCommitCounts == \A m \in Machines, e \in Entries :
  Abs(Flushed(m)[e]) + dropped[m][e] >= learned[m][e]

\* However often the machines exchange their snapshots, each its own among
\* them, no commit is counted twice, nor a count that was imported; a deletion
\* counts for at most one.
NothingLearnedTwice == \A m \in Machines, e \in Entries :
  Abs(Flushed(m)[e]) <= total[e] + 1

\* If the user goes on synchronising every machine and stops typing, all
\* machines end up with the same commit counts, but for the deletion mark
\* (a tie between 5 and -5 leaves each machine with its own), even when
\* deployers were killed and snapshots could not be read.
SyncConverges ==
  (\A m \in Machines : []<>syncing[m]) =>
    <>[](\A m, n \in Machines, e \in Entries : Abs(db[m][e]) = Abs(db[n][e]))

-----------------------------------------------------------------------------
=============================================================================
