------------------------------ MODULE Snapshot ------------------------------
(***************************************************************************)
(* The rollback engine of one SecAFS volume: the undo triggers, and        *)
(* snapshot enable, disable, commit and restore                            *)
(* (sdk/rust/src/snapshot/), running beside the FUSE sessions that write   *)
(* the volume's rows.                                                      *)
(*                                                                         *)
(* A row of fs_dentry, fs_data, fs_symlink, fs_inode or kv_store is a      *)
(* member of Row, its contents a member of Value.  Every statement of a    *)
(* session runs in a READ COMMITTED transaction: it reads committed state, *)
(* its own writes stay in txn[s] until the COMMIT, and a row written by    *)
(* one open transaction is locked for the others.  The trigger of a        *)
(* statement reads fs_volume_state when the statement runs, so the tag of  *)
(* an undo row is the snapshot counter of that moment, not of the COMMIT.  *)
(*                                                                         *)
(* The volume itself is never destroyed here.                              *)
(***************************************************************************)
EXTENDS Integers, FiniteSets

CONSTANTS
  Row,          \* rows of the five journalled tables
  Root,         \* the fs_inode row of the volume's root_ino
  TableIx,      \* the table of a row, as its place in the order of the replay
  Val,          \* contents of a row
  Absent,       \* "no such row"
  Untouched,    \* "not written by this transaction"
  Session,      \* FUSE sessions, one thread and one operation at a time each
  NoSession,
  Request,      \* concurrent snapshot.commit requests
  Purger,       \* concurrent snapshot.disable requests
  Label,        \* labels of snapshots (chat message ids)
  MaxSnap,      \* bound: no snapshot beyond this id is committed
  MaxUndo       \* bound: no undo row beyond this undo_id is written

\* Replay order: fs_dentry, fs_data, fs_symlink, fs_inode, kv_store.
NTables == 5

Value == Val \cup {Absent}

ASSUME RowAssumption == Root \in Row /\ TableIx \in [Row -> 1..NTables]
ASSUME ValueAssumption == Absent \notin Val /\ Untouched \notin Value
ASSUME SessionAssumption == NoSession \notin Session
ASSUME BoundAssumption == MaxSnap \in Nat /\ MaxUndo \in Nat

VARIABLES
  rows,      \* committed contents of the journalled tables
  undo,      \* committed rows of the five undo tables
  nextUndo,  \* next value of the undo_id sequence
  vstate,    \* the fs_volume_state row
  snaps,     \* fs_snapshots
  txn,       \* the open transaction of each session
  mounted,   \* the session in the daemon's mount table
  live,      \* the sessions whose thread still serves the kernel
  commits,   \* snapshot.commit requests between their reads and their writes
  disabling, \* statements each snapshot.disable request has executed
  restore,   \* the restore transaction
  image,     \* history: committed rows when each snapshot was committed
  exact      \* history: snapshots that restore must bring back exactly

engine == <<rows, undo, nextUndo, vstate, snaps>>
history == <<image, exact>>
vars == <<engine, txn, mounted, live, commits, disabling, restore, history>>

SnapId == 1..MaxSnap

UndoRow == [id: 1..MaxUndo, snap: 1..(MaxSnap + 1), row: Row, before: Value]

Overlay == [Row -> Value \cup {Untouched}]

Clean == [r \in Row |-> Untouched]

Apply(over, base) == [r \in Row |-> IF over[r] = Untouched THEN base[r] ELSE over[r]]

Closed == [new |-> Clean, log |-> {}]

NoCommit == [on |-> FALSE]

NoRestore == [on |-> FALSE]

-----------------------------------------------------------------------------
Init ==
  /\ rows \in [Row -> Value]
  /\ rows[Root] # Absent
  /\ undo = {}
  /\ nextUndo = 1
  /\ vstate = [present |-> FALSE, enabled |-> FALSE, cur |-> 1]
  /\ snaps = {}
  /\ txn = [s \in Session |-> Closed]
  /\ mounted = NoSession
  /\ live = {}
  /\ commits = [c \in Request |-> NoCommit]
  /\ disabling = [d \in Purger |-> 0]
  /\ restore = NoRestore
  /\ image = [n \in SnapId |-> rows]
  /\ exact = {}

-----------------------------------------------------------------------------
\* A restore stays quiet as long as no session serves the volume and no disable
\* purges its undo rows while it runs (history of the restore transaction).
Disturbed == IF restore.on THEN [restore EXCEPT !.quiet = FALSE] ELSE restore

Mount(s) ==
  /\ mounted = NoSession
  /\ s \notin live
  /\ mounted' = s
  /\ live' = live \cup {s}
  /\ restore' = Disturbed
  /\ UNCHANGED <<engine, txn, commits, disabling, history>>

\* Dropping the handle of an idle mount unmounts it and its thread ends.
Unmount ==
  /\ mounted # NoSession
  /\ txn[mounted] = Closed
  /\ mounted' = NoSession
  /\ live' = live \ {mounted}
  /\ UNCHANGED <<engine, txn, commits, disabling, restore, history>>

\* A busy mount is only detached (or not even that): the mount table forgets it,
\* and its thread, which nothing joins, goes on serving the open handles.
UnmountBusy ==
  /\ mounted # NoSession
  /\ mounted' = NoSession
  /\ UNCHANGED <<engine, txn, live, commits, disabling, restore, history>>

\* The last open handle of a detached mount is closed.
SessionEnd(s) ==
  /\ s \in live
  /\ s # mounted
  /\ txn[s] = Closed
  /\ live' = live \ {s}
  /\ UNCHANGED <<engine, txn, mounted, commits, disabling, restore, history>>

-----------------------------------------------------------------------------
\* The undo trigger records only for a volume whose state row says enabled.
Journalled == vstate.present /\ vstate.enabled

LockedByOther(s, r) ==
  \/ \E o \in Session \ {s} : txn[o].new[r] # Untouched
  \/ restore.on /\ restore.over[r] # Untouched

Seen(s, r) == Apply(txn[s].new, rows)[r]

\* The before-image that fs_*_capture_undo inserts for a change of row r.
CaptureUndo(s, r) ==
  IF Journalled
  THEN {[id |-> nextUndo, snap |-> vstate.cur, row |-> r, before |-> Seen(s, r)]}
  ELSE {}

\* One INSERT, UPDATE or DELETE (v = Absent) of a session on row r, with its
\* AFTER ... FOR EACH ROW trigger.
Write(s, r, v) ==
  /\ s \in live
  /\ nextUndo <= MaxUndo
  /\ ~LockedByOther(s, r)
  /\ Seen(s, r) = Absent => v # Absent
  /\ r = Root => v # Absent
  /\ txn' = [txn EXCEPT ![s] = [new |-> [@.new EXCEPT ![r] = v],
                                log |-> @.log \cup CaptureUndo(s, r)]]
  /\ nextUndo' = IF Journalled THEN nextUndo + 1 ELSE nextUndo
  /\ UNCHANGED <<rows, undo, vstate, snaps, mounted, live, commits, disabling,
                 restore, history>>

CommitTxn(s) ==
  /\ txn[s] # Closed
  /\ rows' = Apply(txn[s].new, rows)
  /\ undo' = undo \cup txn[s].log
  /\ txn' = [txn EXCEPT ![s] = Closed]
  /\ UNCHANGED <<nextUndo, vstate, snaps, mounted, live, commits, disabling,
                 restore, history>>

RollbackTxn(s) ==
  /\ txn[s] # Closed
  /\ txn' = [txn EXCEPT ![s] = Closed]
  /\ UNCHANGED <<engine, mounted, live, commits, disabling, restore, history>>

-----------------------------------------------------------------------------
\* A restore that has removed the volume's root row has locked the rows of
\* fs_volumes, fs_volume_state and fs_snapshots (ON DELETE CASCADE).
StateLocked == restore.on /\ restore.cascaded

\* Mutant: the upsert resets the counter of an enabled volume.
EnableResets ==
  /\ ~StateLocked
  /\ vstate' = [present |-> TRUE, enabled |-> TRUE, cur |-> 1]
  /\ UNCHANGED <<rows, undo, nextUndo, snaps, txn, mounted, live, commits,
                 disabling, restore, history>>

Enable ==
  /\ ~StateLocked
  /\ vstate' = [present |-> TRUE, enabled |-> TRUE,
                cur |-> IF vstate.present THEN vstate.cur ELSE 1]
  /\ UNCHANGED <<rows, undo, nextUndo, snaps, txn, mounted, live, commits,
                 disabling, restore, history>>

\* The seven autocommitted statements of disable: one DELETE per undo table,
\* one on fs_snapshots, then the UPDATE of fs_volume_state.
DisableStep(d) ==
  LET done == disabling[d] IN
  /\ done >= NTables => ~StateLocked
  /\ disabling' = [disabling EXCEPT ![d] = IF done = NTables + 1 THEN 0 ELSE done + 1]
  /\ undo' = {u \in undo : TableIx[u.row] # done + 1}
  /\ snaps' = IF done = NTables THEN {} ELSE snaps
  /\ vstate' = IF done = NTables + 1
                 THEN [present |-> vstate.present, enabled |-> FALSE, cur |-> 1]
                 ELSE vstate
  /\ exact' = {}
  /\ restore' = Disturbed
  /\ UNCHANGED <<rows, nextUndo, txn, mounted, live, commits, image>>

\* commit_inner up to its first write: a volume that is not enabled, or a label
\* that already has a snapshot, ends the request here without a change.
CommitRead(c, l) ==
  /\ ~commits[c].on
  /\ Journalled
  /\ vstate.cur <= MaxSnap
  /\ \A s \in snaps : s.label # l
  /\ commits' = [commits EXCEPT ![c] = [on |-> TRUE, snap |-> vstate.cur, label |-> l]]
  /\ UNCHANGED <<engine, txn, mounted, live, disabling, restore, history>>

\* History: the moment a snapshot is committed is quiescent when no session is
\* inside a transaction, no restore runs, the counter is still the one read,
\* and no undo row of an earlier life of the counter is tagged later.
Quiescent(c) ==
  /\ \A s \in Session : txn[s] = Closed
  /\ ~restore.on
  /\ Journalled
  /\ vstate.cur = commits[c].snap
  /\ \A u \in undo : u.snap <= commits[c].snap

\* INSERT INTO fs_snapshots and UPDATE fs_volume_state, then COMMIT.
CommitInsert(c) ==
  LET n == commits[c].snap IN
  /\ commits[c].on
  /\ ~StateLocked
  /\ vstate.cur <= MaxSnap
  /\ \A s \in snaps : s.id # n /\ s.label # commits[c].label
  /\ snaps' = snaps \cup {[id |-> n, label |-> commits[c].label]}
  /\ vstate' = [vstate EXCEPT !.cur = @ + 1]
  /\ commits' = [commits EXCEPT ![c] = NoCommit]
  /\ image' = [image EXCEPT ![n] = rows]
  /\ exact' = IF Quiescent(c) THEN exact \cup {n} ELSE exact \ {n}
  /\ UNCHANGED <<rows, undo, nextUndo, txn, mounted, live, disabling, restore>>

\* The INSERT meets the primary key or the label index (or fails otherwise):
\* ROLLBACK.
CommitFail(c) ==
  /\ commits[c].on
  /\ commits' = [commits EXCEPT ![c] = NoCommit]
  /\ UNCHANGED <<engine, txn, mounted, live, disabling, restore, history>>

-----------------------------------------------------------------------------
\* SELECT ... FROM <table>_undo WHERE snap_id > target
UndoAfter(ix, t) == {u \in undo : TableIx[u.row] = ix /\ u.snap > t}

\* restore_to is called with the volume unmounted and a snapshot of the list.
RestoreBegin(t) ==
  /\ ~restore.on
  /\ mounted = NoSession
  /\ \E s \in snaps : s.id = t
  /\ restore' = [on |-> TRUE, target |-> t, table |-> 1, todo |-> UndoAfter(1, t),
                 over |-> Clean, cascaded |-> FALSE,
                 wasEnabled |-> vstate.enabled,
                 kept |-> {s \in snaps : s.id <= t},
                 quiet |-> live = {}]
  /\ UNCHANGED <<engine, txn, mounted, live, commits, disabling, history>>

\* Mutant: ORDER BY undo_id ASC.
ReplayOneOldest ==
  /\ restore.on
  /\ \E u \in restore.todo :
       /\ \A w \in restore.todo : w.id >= u.id
       /\ \A s \in Session : txn[s].new[u.row] = Untouched
       /\ restore' = [restore EXCEPT !.todo = @ \ {u},
                                     !.over = [@ EXCEPT ![u.row] = u.before],
                                     !.cascaded = @ \/ u.row = Root]
  /\ UNCHANGED <<engine, txn, mounted, live, commits, disabling, history>>

\* One iteration of replay_<table>: ORDER BY undo_id DESC; DELETE the row, and
\* INSERT its before-image unless the operation was an insert.  Deleting the
\* root row cascades to fs_volumes and from there to the rollback tables.
ReplayOne ==
  /\ restore.on
  /\ \E u \in restore.todo :
       /\ \A w \in restore.todo : w.id <= u.id
       /\ \A s \in Session : txn[s].new[u.row] = Untouched
       /\ restore' = [restore EXCEPT !.todo = @ \ {u},
                                     !.over = [@ EXCEPT ![u.row] = u.before],
                                     !.cascaded = @ \/ u.row = Root]
  /\ UNCHANGED <<engine, txn, mounted, live, commits, disabling, history>>

NextTable ==
  /\ restore.on
  /\ restore.todo = {}
  /\ restore.table < NTables
  /\ restore' = [restore EXCEPT !.table = @ + 1,
                                !.todo = UndoAfter(restore.table + 1, restore.target)]
  /\ UNCHANGED <<engine, txn, mounted, live, commits, disabling, history>>

\* fs_snapshots after the rows kept aside have been inserted again where missing.
SnapsRestored ==
  LET base == IF restore.cascaded THEN {} ELSE snaps
  IN  base \cup {k \in restore.kept : \A b \in base : b.id # k.id}

\* Mutant: the undo rows of the target's own interval are deleted too.
RestoreFinishEager ==
  /\ restore.on
  /\ restore.todo = {}
  /\ restore.table = NTables
  /\ \A a, b \in SnapsRestored : a.label = b.label => a = b
  /\ rows' = Apply(restore.over, rows)
  /\ snaps' = SnapsRestored
  /\ undo' = {u \in undo : u.snap < restore.target}
  /\ vstate' = [present |-> vstate.present,
                enabled |-> IF restore.cascaded THEN restore.wasEnabled ELSE vstate.enabled,
                cur |-> restore.target + 1]
  /\ restore' = NoRestore
  /\ exact' = IF restore.quiet THEN {n \in exact : n <= restore.target} ELSE {}
  /\ UNCHANGED <<nextUndo, txn, mounted, live, commits, disabling, image>>

\* The re-inserts, the DELETEs on the undo tables, the UPDATE of the counter
\* and the COMMIT.
RestoreFinish ==
  /\ restore.on
  /\ restore.todo = {}
  /\ restore.table = NTables
  /\ \A a, b \in SnapsRestored : a.label = b.label => a = b
  /\ rows' = Apply(restore.over, rows)
  /\ snaps' = SnapsRestored
  /\ undo' = {u \in undo : u.snap <= restore.target}
  /\ vstate' = [present |-> vstate.present,
                enabled |-> IF restore.cascaded THEN restore.wasEnabled ELSE vstate.enabled,
                cur |-> restore.target + 1]
  /\ restore' = NoRestore
  /\ exact' = IF restore.quiet THEN {n \in exact : n <= restore.target} ELSE {}
  /\ UNCHANGED <<nextUndo, txn, mounted, live, commits, disabling, image>>

\* A statement fails: ROLLBACK.
RestoreFail ==
  /\ restore.on
  /\ restore' = NoRestore
  /\ UNCHANGED <<engine, txn, mounted, live, commits, disabling, history>>

\* The daemon dies with every session, request and open transaction it holds.
DaemonCrash ==
  /\ txn' = [s \in Session |-> Closed]
  /\ mounted' = NoSession
  /\ live' = {}
  /\ commits' = [c \in Request |-> NoCommit]
  /\ disabling' = [d \in Purger |-> 0]
  /\ restore' = NoRestore
  /\ UNCHANGED <<engine, history>>

-----------------------------------------------------------------------------
SessionStep(s) ==
  \/ Mount(s)
  \/ SessionEnd(s)
  \/ \E r \in Row, v \in Value : Write(s, r, v)
  \/ CommitTxn(s)
  \/ RollbackTxn(s)

RequestStep(c) ==
  \/ \E l \in Label : CommitRead(c, l)
  \/ CommitInsert(c)
  \/ CommitFail(c)

RestoreStep ==
  \/ \E t \in SnapId : RestoreBegin(t)
  \/ ReplayOne
  \/ NextTable
  \/ RestoreFinish
  \/ RestoreFail

Next ==
  \/ \E s \in Session : SessionStep(s)
  \/ \E c \in Request : RequestStep(c)
  \/ RestoreStep
  \/ Unmount
  \/ UnmountBusy
  \/ Enable
  \/ \E d \in Purger : DisableStep(d)
  \/ DaemonCrash

Spec == Init /\ [][Next]_vars

-----------------------------------------------------------------------------
SnapRow == [id: SnapId, label: Label]

VolumeState == [present: BOOLEAN, enabled: BOOLEAN, cur: 1..(MaxSnap + 1)]

OpenCommit == [on: {TRUE}, snap: SnapId, label: Label]

OpenRestore ==
  [on: {TRUE}, target: SnapId, table: 1..NTables, todo: SUBSET UndoRow,
   over: Overlay, cascaded: BOOLEAN, wasEnabled: BOOLEAN,
   kept: SUBSET SnapRow, quiet: BOOLEAN]

\* Type invariant: the tables, the open transactions and the requests in flight
\* have the shapes the schema and the code give them.
TypeOK ==
  /\ rows \in [Row -> Value]
  /\ undo \subseteq UndoRow
  /\ nextUndo \in 1..(MaxUndo + 1)
  /\ vstate \in VolumeState
  /\ snaps \subseteq SnapRow
  /\ txn \in [Session -> [new: Overlay, log: SUBSET UndoRow]]
  /\ mounted \in Session \cup {NoSession}
  /\ live \subseteq Session
  /\ commits \in [Request -> OpenCommit \cup {NoCommit}]
  /\ disabling \in [Purger -> 0..(NTables + 1)]
  /\ restore \in OpenRestore \cup {NoRestore}
  /\ image \in [SnapId -> [Row -> Value]]
  /\ exact \subseteq SnapId

-----------------------------------------------------------------------------
\* Replaying the undo rows of U above snapshot n turns contents v of row r into
\* x: x is the before-image of the oldest of them, or v when there is none.
RevertsTo(U, n, r, v, x) ==
  LET above == {u \in U : u.row = r /\ u.snap > n}
  IN  IF above = {} THEN v = x
      ELSE \E u \in above : u.before = x /\ \A w \in above : u.id <= w.id

\* Every snapshot committed at a quiescent moment, and not given up since by a
\* disable or a disturbed restore, can be brought back from the undo log at any
\* time: for every row the oldest before-image tagged after it (or the row
\* itself) is what the row held when the snapshot was committed.
Recoverable ==
  \A n \in exact : \A r \in Row : RevertsTo(undo, n, r, rows[r], image[n][r])

\* restore_to, when it commits undisturbed, leaves exactly the rows that were
\* committed when its target was, whatever was written, snapshotted and restored
\* in between (the statement of the property test restore_recovers_baseline).
RestoreExact ==
  [][RestoreFinish /\ restore.quiet /\ restore.target \in exact
       => rows' = image[restore.target]]_vars

\* Snapshots that can be restored lie below the counter that tags new undo rows,
\* so no later write is mistaken for one the snapshot already contains.
CounterAhead == \A n \in exact : n < vstate.cur /\ Journalled
=============================================================================
