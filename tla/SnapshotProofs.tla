--------------------------- MODULE SnapshotProofs ---------------------------
(***************************************************************************)
(* Proofs about Snapshot, for every set of rows, sessions and requests:    *)
(* that its type invariant holds, that every quiescent snapshot stays      *)
(* recoverable, and that a quiet restore brings its target back exactly.   *)
(* First the inductive invariant and the statements of the sessions and    *)
(* the commits of snapshots, then the steps of a restore.                  *)
(***************************************************************************)
EXTENDS Snapshot, TLAPS

\* A row has at most one writer.
LocksExclusive ==
  \A s, o \in Session : \A r \in Row :
    txn[s].new[r] # Untouched /\ txn[o].new[r] # Untouched => s = o

\* The undo rows, committed or not.
Journal == {u \in UndoRow : u \in undo \/ \E s \in Session : u \in txn[s].log}

\* undo_ids come from one sequence.
IdsFresh ==
  \A u \in Journal : u.id < nextUndo /\ \A w \in Journal : u.id = w.id => u = w

\* An open transaction logs only rows it has locked, and belongs to a session
\* that is being served.
LogsLocked ==
  \A s \in Session :
    /\ txn[s] # Closed => s \in live
    /\ \A u \in txn[s].log : txn[s].new[u.row] # Untouched

\* After a quiescent snapshot n the tags of each row grow with its undo_ids.
TagsOrdered ==
  \A n \in exact : \A u \in Journal :
    u.snap > n =>
      /\ u.snap <= vstate.cur
      /\ \A w \in Journal :
           w.row = u.row /\ w.snap > n /\ u.id < w.id => u.snap <= w.snap

\* A row locked by an open transaction: all of the transaction's undo rows for it
\* are tagged after every exact snapshot and younger than the committed ones, and
\* the oldest of them holds the committed contents.
PendingOldest ==
  \A n \in exact : \A s \in Session : \A r \in Row :
    txn[s].new[r] # Untouched =>
      /\ \E u \in txn[s].log :
           /\ u.row = r
           /\ u.before = rows[r]
           /\ \A w \in txn[s].log : w.row = r => u.id <= w.id
      /\ \A u \in txn[s].log :
           u.row = r => u.snap > n /\ \A w \in undo : w.row = r => w.id < u.id

\* Row by row, what a restore has written over R and what it has still to replay
\* amount to a replay of the whole undo log U.
Replaying(res, U, R) ==
  /\ \A r \in Row : TableIx[r] > res.table => res.over[r] = Untouched
  /\ res.todo \subseteq {u \in U : TableIx[u.row] = res.table /\ u.snap > res.target}
  /\ \A r \in Row : \A x \in Value :
       RevertsTo(U, res.target, r, R[r], x) =>
         /\ TableIx[r] = res.table =>
              RevertsTo(res.todo, res.target, r, Apply(res.over, R)[r], x)
         /\ TableIx[r] < res.table => Apply(res.over, R)[r] = x

\* A quiet restore runs alone.
RestoreInv ==
  restore.on /\ restore.quiet =>
    /\ live = {}
    /\ exact # {} => restore.wasEnabled
    /\ Replaying(restore, undo, rows)

\* The inductive invariant behind Recoverable and RestoreExact.
IInv ==
  /\ TypeOK
  /\ CounterAhead
  /\ LocksExclusive
  /\ IdsFresh
  /\ LogsLocked
  /\ TagsOrdered
  /\ PendingOldest
  /\ RestoreInv
  /\ Recoverable

-----------------------------------------------------------------------------
USE RowAssumption, ValueAssumption, SessionAssumption, BoundAssumption DEF NTables

\* Overlaying one version of the rows with an overlay gives a version of the rows.
LEMMA ApplyType ==
  ASSUME NEW over \in Overlay, NEW base \in [Row -> Value]
  PROVE  Apply(over, base) \in [Row -> Value]
BY Zenon DEF Apply, Overlay

\* The fields of a restore transaction that is running.
LEMMA OpenRestoreFields ==
  ASSUME TypeOK, restore.on
  PROVE  /\ restore \in OpenRestore
         /\ restore.target \in SnapId
         /\ restore.table \in 1..NTables
         /\ restore.todo \subseteq UndoRow
         /\ restore.over \in Overlay
         /\ restore.wasEnabled \in BOOLEAN
         /\ restore.kept \subseteq SnapRow
<1>1. restore # NoRestore
  BY DEF NoRestore
<1>2. restore \in OpenRestore
  BY Zenon, <1>1 DEF TypeOK
<1> QED
  BY Zenon, <1>2 DEF OpenRestore

\* The fields of a commit request that is running.
LEMMA OpenCommitFields ==
  ASSUME TypeOK, NEW c \in Request, commits[c].on
  PROVE  commits[c].snap \in SnapId /\ commits[c].label \in Label
<1>1. commits[c] # NoCommit
  BY DEF NoCommit
<1>2. commits[c] \in OpenCommit
  BY Zenon, <1>1 DEF TypeOK
<1> QED
  BY Zenon, <1>2, ZenonT(60) DEF OpenCommit

\* Type correctness of every step.
LEMMA TypeStep == TypeOK /\ [Next]_vars => TypeOK'
<1> SUFFICES ASSUME TypeOK, [Next]_vars PROVE TypeOK'
  BY Zenon
<1> USE DEF TypeOK
<1>1. ASSUME NEW s \in Session, Mount(s) PROVE TypeOK'
  <2>1. restore' \in OpenRestore \cup {NoRestore}
    BY Zenon, <1>1 DEF Mount, Disturbed, OpenRestore, NoRestore
  <2> QED
    BY Zenon, <1>1, <2>1 DEF Mount, engine, history
<1>2. ASSUME NEW s \in Session, SessionEnd(s) PROVE TypeOK'
  BY Zenon, <1>2 DEF SessionEnd, engine, history
<1>3. ASSUME NEW s \in Session, NEW r \in Row, NEW v \in Value, Write(s, r, v)
      PROVE TypeOK'
  <2>1. Seen(s, r) \in Value
    BY ApplyType DEF Seen
  <2>2. CaptureUndo(s, r) \subseteq UndoRow
    BY <1>3, <2>1 DEF CaptureUndo, UndoRow, Write, VolumeState
  <2>3. txn' \in [Session -> [new: Overlay, log: SUBSET UndoRow]]
    <3>1. [txn[s].new EXCEPT ![r] = v] \in Overlay
      BY Zenon DEF Overlay
    <3>2. txn[s].log \cup CaptureUndo(s, r) \in SUBSET UndoRow
      BY Zenon, <2>2
    <3> QED
      BY Zenon, <1>3, <3>1, <3>2 DEF Write
  <2>4. nextUndo' \in 1..(MaxUndo + 1)
    BY <1>3 DEF Write
  <2> QED
    BY Zenon, <1>3, <2>3, <2>4 DEF Write, history
<1>4. ASSUME NEW s \in Session, CommitTxn(s) PROVE TypeOK'
  <2>1. rows' \in [Row -> Value]
    BY Zenon, <1>4, ApplyType DEF CommitTxn
  <2>2. undo' \subseteq UndoRow
    BY Zenon, <1>4 DEF CommitTxn
  <2>3. txn' \in [Session -> [new: Overlay, log: SUBSET UndoRow]]
    BY Zenon, <1>4 DEF CommitTxn, Closed, Clean, Overlay
  <2> QED
    BY Zenon, <1>4, <2>1, <2>2, <2>3 DEF CommitTxn, history
<1>5. ASSUME NEW s \in Session, RollbackTxn(s) PROVE TypeOK'
  BY Zenon, <1>5 DEF RollbackTxn, engine, history, Closed, Clean, Overlay
<1>6. ASSUME NEW c \in Request, NEW l \in Label, CommitRead(c, l) PROVE TypeOK'
  <2>1. vstate.cur \in SnapId
    BY <1>6 DEF CommitRead, SnapId, VolumeState
  <2>2. [on |-> TRUE, snap |-> vstate.cur, label |-> l] \in OpenCommit
    BY Zenon, <2>1 DEF OpenCommit
  <2>3. commits' \in [Request -> OpenCommit \cup {NoCommit}]
    BY Zenon, <1>6, <2>2 DEF CommitRead
  <2> QED
    BY Zenon, <1>6, <2>3 DEF CommitRead, engine, history
<1>7. ASSUME NEW c \in Request, CommitInsert(c) PROVE TypeOK'
  <2>1. commits[c].snap \in SnapId /\ commits[c].label \in Label
    BY Zenon, <1>7, OpenCommitFields DEF CommitInsert
  <2>2. snaps' \subseteq SnapRow
    BY <1>7, <2>1 DEF CommitInsert, SnapRow
  <2>3. vstate' \in VolumeState
    BY SMTT(60), <1>7 DEF CommitInsert, VolumeState
  <2>4. commits' \in [Request -> OpenCommit \cup {NoCommit}]
    BY Zenon, <1>7 DEF CommitInsert, OpenCommit
  <2>5. exact' \subseteq SnapId
    BY Zenon, <1>7, <2>1 DEF CommitInsert
  <2>6. image' \in [SnapId -> [Row -> Value]]
    BY Zenon, <1>7, <2>1 DEF CommitInsert
  <2> QED
    BY Zenon, <1>7, <2>2, <2>3, <2>4, <2>5, <2>6 DEF CommitInsert
<1>8. ASSUME NEW c \in Request, CommitFail(c) PROVE TypeOK'
  BY Zenon, <1>8 DEF CommitFail, engine, history, OpenCommit
<1>9. ASSUME NEW t \in SnapId, RestoreBegin(t) PROVE TypeOK'
  <2>1. restore' \in OpenRestore \cup {NoRestore}
    BY <1>9 DEF RestoreBegin, OpenRestore, UndoAfter, Clean, Overlay, VolumeState
  <2> QED
    BY Zenon, <1>9, <2>1 DEF RestoreBegin, engine, history
<1>10. ASSUME ReplayOne PROVE TypeOK'
  <2>1. PICK u \in restore.todo :
          restore' = [restore EXCEPT !.todo = @ \ {u},
                                     !.over = [@ EXCEPT ![u.row] = u.before],
                                     !.cascaded = @ \/ u.row = Root]
    BY Zenon, <1>10 DEF ReplayOne
  <2>2. /\ restore \in OpenRestore
        /\ restore.todo \subseteq UndoRow
        /\ restore.over \in Overlay
    BY Zenon, <1>10, OpenRestoreFields DEF ReplayOne
  <2>3. u \in UndoRow
    BY Zenon, <2>2
  <2>4. [restore.over EXCEPT ![u.row] = u.before] \in Overlay
    BY Zenon, <2>2, <2>3 DEF Overlay, UndoRow
  <2>5. restore' \in OpenRestore \cup {NoRestore}
    BY Zenon, <2>1, <2>2, <2>4 DEF OpenRestore
  <2> QED
    BY Zenon, <1>10, <2>5 DEF ReplayOne, engine, history
<1>11. ASSUME NextTable PROVE TypeOK'
  <2>0. restore \in OpenRestore /\ restore.table \in 1..NTables
    BY Zenon, <1>11, OpenRestoreFields DEF NextTable
  <2>1. restore' \in OpenRestore
    <3>1. UndoAfter(restore.table + 1, restore.target) \subseteq UndoRow
      BY Zenon DEF UndoAfter
    <3>2. restore.table + 1 \in 1..NTables
      BY <1>11, <2>0 DEF NextTable
    <3> QED
      BY Zenon, <1>11, <2>0, <3>1, <3>2 DEF NextTable, OpenRestore
  <2> QED
    BY Zenon, <1>11, <2>1 DEF NextTable, engine, history
<1>12. ASSUME RestoreFinish PROVE TypeOK'
  <2>1. /\ restore.target \in SnapId
        /\ restore.over \in Overlay
        /\ restore.wasEnabled \in BOOLEAN
        /\ restore.kept \subseteq SnapRow
    BY Zenon, <1>12, OpenRestoreFields DEF RestoreFinish
  <2>2. rows' \in [Row -> Value]
    BY Zenon, <1>12, <2>1, ApplyType DEF RestoreFinish
  <2>3. snaps' \subseteq SnapRow
    BY Zenon, <1>12, <2>1 DEF RestoreFinish, SnapsRestored
  <2>4. vstate' \in VolumeState
    BY SMTT(60), <1>12, <2>1 DEF RestoreFinish, VolumeState, SnapId
  <2>5. undo' \subseteq UndoRow /\ exact' \subseteq SnapId /\ restore' = NoRestore
    BY Zenon, <1>12 DEF RestoreFinish
  <2> QED
    BY Zenon, <1>12, <2>2, <2>3, <2>4, <2>5 DEF RestoreFinish
<1>13. ASSUME RestoreFail PROVE TypeOK'
  BY Zenon, <1>13 DEF RestoreFail, engine, history, OpenRestore
<1>14. ASSUME Unmount PROVE TypeOK'
  BY Zenon, <1>14 DEF Unmount, engine, history
<1>15. ASSUME UnmountBusy PROVE TypeOK'
  BY Zenon, <1>15 DEF UnmountBusy, engine, history
<1>16. ASSUME Enable PROVE TypeOK'
  BY <1>16 DEF Enable, history, VolumeState
<1>17. ASSUME NEW d \in Purger, DisableStep(d) PROVE TypeOK'
  <2>1. restore' \in OpenRestore \cup {NoRestore}
    BY Zenon, <1>17 DEF DisableStep, Disturbed, OpenRestore, NoRestore
  <2>2. vstate' \in VolumeState
    BY <1>17 DEF DisableStep, VolumeState
  <2>3. disabling' \in [Purger -> 0..6]
    BY <1>17 DEF DisableStep
  <2> QED
    BY <1>17, <2>1, <2>2, <2>3 DEF DisableStep
<1>18. ASSUME DaemonCrash PROVE TypeOK'
  BY <1>18 DEF DaemonCrash, engine, history, Closed, Clean, Overlay, OpenCommit, OpenRestore
<1>19. ASSUME UNCHANGED vars PROVE TypeOK'
  BY Zenon, <1>19 DEF vars, engine, history
<1> QED
  BY Zenon, <1>1, <1>2, <1>3, <1>4, <1>5, <1>6, <1>7, <1>8, <1>9, <1>10, <1>11, <1>12, <1>13,
     <1>14, <1>15, <1>16, <1>17, <1>18, <1>19
  DEF Next, SessionStep, RequestStep, RestoreStep

\* A new volume has tables of the right shapes.
LEMMA TypeInit == Init => TypeOK
BY DEF Init, TypeOK, Closed, Clean, Overlay, VolumeState

\* The tables and the requests in flight keep their shapes, whatever the number
\* of rows, sessions, requests and snapshots.
THEOREM TypeCorrect == Spec => []TypeOK
BY TypeInit, TypeStep, PTL DEF Spec

-----------------------------------------------------------------------------
\* Only the undo rows of r above n matter to what r reverts to.
LEMMA RevertsSame ==
  ASSUME NEW U, NEW V, NEW n, NEW r, NEW v, NEW x,
         \A u \in U : u.row = r /\ u.snap > n => u \in V,
         \A u \in V : u.row = r /\ u.snap > n => u \in U,
         RevertsTo(U, n, r, v, x)
  PROVE  RevertsTo(V, n, r, v, x)
BY Zenon DEF RevertsTo

\* An undo row of another row may be taken out of the log.
LEMMA RevertsWithout ==
  ASSUME NEW U, NEW n, NEW r, NEW v, NEW x, NEW w, w.row # r, RevertsTo(U, n, r, v, x)
  PROVE  RevertsTo(U \ {w}, n, r, v, x)
<1>1. \A y \in U : y.row = r /\ y.snap > n => y \in U \ {w}
  BY Zenon
<1>2. \A y \in U \ {w} : y.row = r /\ y.snap > n => y \in U
  BY Zenon
<1> QED
  BY Zenon, <1>1, <1>2, RevertsSame

\* The undo rows of a row are those of its table.
LEMMA RevertsInTable ==
  ASSUME NEW t, NEW r, NEW v, NEW x, NEW ix, TableIx[r] = ix, RevertsTo(undo, t, r, v, x)
  PROVE  RevertsTo(UndoAfter(ix, t), t, r, v, x)
<1>1. \A y \in undo : y.row = r /\ y.snap > t => y \in UndoAfter(ix, t)
  BY Zenon DEF UndoAfter
<1>2. \A y \in UndoAfter(ix, t) : y.row = r /\ y.snap > t => y \in undo
  BY Zenon DEF UndoAfter
<1> QED
  BY Zenon, <1>1, <1>2, RevertsSame

\* An overlay that leaves a row alone shows the row beneath it.
LEMMA ApplyAt ==
  ASSUME NEW over, NEW base, NEW r \in Row
  PROVE  Apply(over, base)[r] = IF over[r] = Untouched THEN base[r] ELSE over[r]
BY Zenon DEF Apply

\* The parts of the invariant that say nothing about the restore transaction or
\* the sessions being served survive a step that changes only those.
Core == CounterAhead /\ LocksExclusive /\ IdsFresh /\ TagsOrdered /\ PendingOldest /\ Recoverable

\* Core speaks of the rows, the undo log, the counter and the transactions only.
LEMMA CoreUnchanged ==
  ASSUME Core, UNCHANGED <<rows, undo, nextUndo, vstate, txn, exact, image>>
  PROVE  Core'
BY DEF Core, CounterAhead, Journalled, LocksExclusive, IdsFresh, Journal, TagsOrdered,
       PendingOldest, Recoverable, RevertsTo

\* While a restore is quiet every session's transaction is closed.
LEMMA QuietAlone ==
  ASSUME LogsLocked, RestoreInv, restore.on, restore.quiet, NEW s \in Session
  PROVE  txn[s] = Closed
BY Zenon DEF LogsLocked, RestoreInv

\* A volume without undo rows and snapshots satisfies the invariant.
LEMMA InvInit == Init => IInv
<1> SUFFICES ASSUME Init PROVE IInv
  BY Zenon
<1>1. TypeOK
  BY Zenon, TypeInit
<1>2. CounterAhead /\ TagsOrdered /\ PendingOldest /\ Recoverable
  BY Zenon DEF Init, CounterAhead, TagsOrdered, PendingOldest, Recoverable
<1>3. \A s \in Session : txn[s] = Closed /\ txn[s].log = {} /\ \A r \in Row : txn[s].new[r] = Untouched
  BY Zenon DEF Init, Closed, Clean
<1>4. LocksExclusive /\ IdsFresh /\ LogsLocked
  BY Zenon, <1>3 DEF Init, LocksExclusive, IdsFresh, Journal, LogsLocked
<1>5. RestoreInv
  BY Zenon DEF Init, NoRestore, RestoreInv
<1> QED
  BY Zenon, <1>1, <1>2, <1>4, <1>5 DEF IInv

-----------------------------------------------------------------------------
\* A statement of a session: its undo row is the youngest, its tag the greatest.
LEMMA WriteInv ==
  ASSUME IInv, NEW s \in Session, NEW r \in Row, NEW v \in Value, Write(s, r, v), TypeOK'
  PROVE  IInv'
<1> USE DEF IInv
<1>u. UNCHANGED <<rows, undo, vstate, live, restore, exact, image>>
  BY Zenon DEF Write, history
<1>v. v # Untouched
  BY Zenon
<1>1. /\ \A o \in Session : o # s => txn'[o] = txn[o]
      /\ txn'[s].log = txn[s].log \cup CaptureUndo(s, r)
      /\ txn'[s].new[r] = v
      /\ \A q \in Row : q # r => txn'[s].new[q] = txn[s].new[q]
  BY Zenon DEF Write, TypeOK, Overlay
<1>2. \A u \in CaptureUndo(s, r) :
        /\ Journalled
        /\ u.id = nextUndo /\ u.snap = vstate.cur /\ u.row = r /\ u.before = Seen(s, r)
        /\ nextUndo' = nextUndo + 1
        /\ \A w \in CaptureUndo(s, r) : w = u
  BY SMTT(60) DEF CaptureUndo, Write
<1>3. nextUndo' >= nextUndo /\ nextUndo \in Int /\ nextUndo' \in Int
  BY DEF Write, TypeOK
<1>4. \A u \in Journal' : u \in Journal \/ u \in CaptureUndo(s, r)
  BY Zenon, <1>1, <1>u DEF Journal
<1>5. CounterAhead' /\ Recoverable'
  BY SMTT(60), <1>u DEF CounterAhead, Journalled, Recoverable, RevertsTo
<1>6. LocksExclusive'
  BY <1>1, <1>v DEF LocksExclusive, Write, LockedByOther
<1>7. IdsFresh'
  <2>1. \A u \in Journal : u.id \in Int /\ u.id < nextUndo
    BY DEF IdsFresh, Journal, UndoRow
  <2> QED
    BY <1>2, <1>3, <1>4, <2>1 DEF IdsFresh
<1>8. LogsLocked'
  <2>1. s \in live'
    BY Zenon, <1>u DEF Write
  <2>2. \A u \in txn'[s].log : txn'[s].new[u.row] # Untouched
    <3>1. \A u \in txn[s].log : u.row \in Row
      BY SMTT(60) DEF TypeOK, UndoRow
    <3> QED
      BY <1>1, <1>2, <1>v, <3>1 DEF LogsLocked
  <2>3. \A o \in Session \ {s} :
          (txn'[o] # Closed => o \in live') /\ \A u \in txn'[o].log : txn'[o].new[u.row] # Untouched
    BY <1>1, <1>u DEF LogsLocked
  <2> QED
    BY Zenon, <2>1, <2>2, <2>3 DEF LogsLocked
<1>9. TagsOrdered'
  <2> SUFFICES ASSUME NEW n \in exact, NEW u \in Journal', u.snap > n
               PROVE  /\ u.snap <= vstate.cur
                      /\ \A w \in Journal' :
                           w.row = u.row /\ w.snap > n /\ u.id < w.id => u.snap <= w.snap
    BY Zenon, <1>u DEF TagsOrdered
  <2>0. vstate.cur \in Int /\ \A w \in Journal : w.id \in Int /\ w.id < nextUndo
    BY DEF TypeOK, VolumeState, IdsFresh, Journal, UndoRow
  <2>1. CASE u \in CaptureUndo(s, r)
    BY <1>2, <1>4, <2>0, <2>1, <1>3
  <2>2. CASE u \in Journal
    <3>1. u.snap <= vstate.cur
      BY Zenon, <2>2 DEF TagsOrdered
    <3>2. \A w \in Journal : w.row = u.row /\ w.snap > n /\ u.id < w.id => u.snap <= w.snap
      BY Zenon, <2>2 DEF TagsOrdered
    <3> QED
      BY Zenon, <1>2, <1>4, <3>1, <3>2
  <2> QED
    BY Zenon, <1>4, <2>1, <2>2
<1>10. PendingOldest'
  <2> SUFFICES ASSUME NEW n \in exact, NEW o \in Session, NEW q \in Row,
                      txn'[o].new[q] # Untouched
               PROVE  /\ \E u \in txn'[o].log :
                           /\ u.row = q
                           /\ u.before = rows[q]
                           /\ \A w \in txn'[o].log : w.row = q => u.id <= w.id
                      /\ \A u \in txn'[o].log :
                           u.row = q => u.snap > n /\ \A w \in undo : w.row = q => w.id < u.id
    BY SMTT(60), <1>u DEF PendingOldest
  <2>1. CASE o # s
    BY SMTT(60), <1>1, <2>1 DEF PendingOldest
  <2>2. CASE o = s /\ q # r
    BY SMTT(60), <1>1, <1>2, <2>2 DEF PendingOldest
  <2>3. CASE o = s /\ q = r
    <3>1. Journalled /\ n < vstate.cur
      BY Zenon DEF CounterAhead
    <3>2. PICK u0 \in CaptureUndo(s, r) : u0.id = nextUndo /\ u0.snap = vstate.cur /\ u0.row = r
                                          /\ u0.before = Seen(s, r)
      BY Zenon, <3>1, ZenonT(60) DEF CaptureUndo
    <3>3. \A w \in undo : w.id < nextUndo /\ w.id \in Int
      BY SMTT(60) DEF IdsFresh, Journal, TypeOK, UndoRow
    <3>4. \A w \in txn[s].log : w.id < nextUndo /\ w.id \in Int
      BY SMTT(60) DEF IdsFresh, Journal, TypeOK, UndoRow
    <3>5. CASE txn[s].new[r] = Untouched
      <4>1. \A w \in txn[s].log : w.row # r
        BY Zenon, <3>5 DEF LogsLocked
      <4>2. Seen(s, r) = rows[r]
        BY Zenon, <3>5, SMTT(60) DEF Seen, Apply
      <4> QED
        BY SMTT(60), <1>1, <1>2, <1>3, <2>3, <3>1, <3>2, <3>3, <4>1, <4>2
    <3>6. CASE txn[s].new[r] # Untouched
      <4>1. PICK u \in txn[s].log :
              /\ u.row = r
              /\ u.before = rows[r]
              /\ \A w \in txn[s].log : w.row = r => u.id <= w.id
        BY <3>6, SMTT(60) DEF PendingOldest
      <4>2. \A w \in txn'[s].log : w.row = r => u.id <= w.id
        BY <1>1, <1>2, <3>4, <4>1, <1>3, SMTT(60)
      <4>3. \A x \in txn'[s].log :
              x.row = r => x.snap > n /\ \A w \in undo : w.row = r => w.id < x.id
        BY <1>1, <1>2, <3>1, <3>3, <3>6, SMTT(60) DEF PendingOldest
      <4> QED
        BY Zenon, <1>1, <2>3, <4>1, <4>2, <4>3
    <3> QED
      BY Zenon, <3>5, <3>6
  <2> QED
    BY Zenon, <2>1, <2>2, <2>3, SMTT(60)
<1>11. RestoreInv'
  BY Zenon, <1>u DEF RestoreInv, Replaying, Write
<1> QED
  BY Zenon, <1>5, <1>6, <1>7, <1>8, <1>9, <1>10, <1>11

\* COMMIT of a session: the rows it wrote revert to what they held before it.
LEMMA CommitTxnInv ==
  ASSUME IInv, NEW s \in Session, CommitTxn(s), TypeOK'
  PROVE  IInv'
<1> USE DEF IInv
<1>u. UNCHANGED <<nextUndo, vstate, live, restore, exact, image>>
  BY Zenon DEF CommitTxn, history
<1>1. /\ \A o \in Session : o # s => txn'[o] = txn[o]
      /\ txn'[s] = Closed
      /\ undo' = undo \cup txn[s].log
      /\ \A r \in Row : rows'[r] = IF txn[s].new[r] = Untouched THEN rows[r] ELSE txn[s].new[r]
  BY Zenon DEF CommitTxn, TypeOK, Apply
<1>2. Closed.log = {} /\ \A r \in Row : Closed.new[r] = Untouched
  BY Zenon DEF Closed, Clean
<1>3. Journal' \subseteq Journal
  BY Zenon, <1>1, <1>2 DEF Journal
<1>4. CounterAhead'
  BY Zenon, <1>u DEF CounterAhead, Journalled
<1>5. LocksExclusive'
  BY <1>1, <1>2 DEF LocksExclusive
<1>6. IdsFresh' /\ TagsOrdered'
  BY Zenon, <1>3, <1>u, SMTT(60) DEF IdsFresh, TagsOrdered
<1>7. LogsLocked'
  BY <1>1, <1>2, <1>u, SMTT(60) DEF LogsLocked
<1>8. PendingOldest'
  <2> SUFFICES ASSUME NEW n \in exact, NEW o \in Session, NEW r \in Row,
                      txn'[o].new[r] # Untouched
               PROVE  /\ \E u \in txn'[o].log :
                           /\ u.row = r
                           /\ u.before = rows'[r]
                           /\ \A w \in txn'[o].log : w.row = r => u.id <= w.id
                      /\ \A u \in txn'[o].log :
                           u.row = r => u.snap > n /\ \A w \in undo' : w.row = r => w.id < u.id
    BY Zenon, <1>u, SMTT(60) DEF PendingOldest
  <2>1. o # s /\ txn'[o] = txn[o]
    BY Zenon, <1>1, <1>2
  <2>2. txn[s].new[r] = Untouched
    BY SMTT(60), <2>1 DEF LocksExclusive
  <2>3. rows'[r] = rows[r] /\ \A w \in txn[s].log : w.row # r
    BY Zenon, <1>1, <2>2, SMTT(60) DEF LogsLocked
  <2> QED
    BY <1>1, <2>1, <2>3, SMTT(60) DEF PendingOldest
<1>9. Recoverable'
  <2> SUFFICES ASSUME NEW n \in exact, NEW r \in Row
               PROVE  RevertsTo(undo', n, r, rows'[r], image[n][r])
    BY Zenon, <1>u DEF Recoverable
  <2>1. RevertsTo(undo, n, r, rows[r], image[n][r])
    BY Zenon DEF Recoverable
  <2>2. CASE txn[s].new[r] = Untouched
    <3>1. rows'[r] = rows[r] /\ \A w \in txn[s].log : w.row # r
      BY Zenon, <1>1, <2>2 DEF LogsLocked
    <3> QED
      BY Zenon, <1>1, <2>1, <3>1, RevertsSame
  <2>3. CASE txn[s].new[r] # Untouched
    <3>1. PICK u \in txn[s].log :
            /\ u.row = r
            /\ u.before = rows[r]
            /\ \A w \in txn[s].log : w.row = r => u.id <= w.id
      BY SMTT(60), <2>3 DEF PendingOldest
    <3>2. \A x \in txn[s].log :
            x.row = r => x.snap > n /\ \A w \in undo : w.row = r => w.id < x.id
      BY SMTT(60), <2>3 DEF PendingOldest
    <3>3. \A w \in undo \cup txn[s].log : w.id \in Int
      BY SMTT(60) DEF TypeOK, UndoRow
    <3>4. CASE \A w \in undo : ~(w.row = r /\ w.snap > n)
      <4>1. image[n][r] = rows[r]
        BY Zenon, <2>1, <3>4, SMTT(60) DEF RevertsTo
      <4>2. u \in undo' /\ u.row = r /\ u.snap > n /\ u.before = image[n][r]
        BY Zenon, <1>1, <3>1, <3>2, <4>1
      <4>3. \A w \in undo' : w.row = r /\ w.snap > n => u.id <= w.id
        BY Zenon, <1>1, <3>1, <3>4
      <4> QED
        BY Zenon, <4>2, <4>3 DEF RevertsTo
    <3>5. CASE \E w \in undo : w.row = r /\ w.snap > n
      <4>1. PICK y \in undo : /\ y.row = r /\ y.snap > n /\ y.before = image[n][r]
                              /\ \A w \in undo : w.row = r /\ w.snap > n => y.id <= w.id
        BY Zenon, <2>1, <3>5, SMTT(60) DEF RevertsTo
      <4>2. \A w \in undo' : w.row = r /\ w.snap > n => y.id <= w.id
        BY <1>1, <3>2, <3>3, <4>1, SMTT(60)
      <4> QED
        BY Zenon, <1>1, <4>1, <4>2 DEF RevertsTo
    <3> QED
      BY Zenon, <3>4, <3>5
  <2> QED
    BY Zenon, <2>2, <2>3
<1>10. RestoreInv'
  BY Zenon, <1>u, SMTT(60) DEF RestoreInv, Replaying, CommitTxn, LogsLocked
<1> QED
  BY Zenon, <1>4, <1>5, <1>6, <1>7, <1>8, <1>9, <1>10

\* Transactions that end without a COMMIT leave nothing behind.
LEMMA CloseInv ==
  ASSUME IInv, TypeOK', UNCHANGED <<rows, undo, nextUndo, vstate, exact, image>>,
         \A s \in Session : txn'[s] \in {txn[s], Closed},
         LogsLocked', RestoreInv'
  PROVE  IInv'
<1> USE DEF IInv
<1>1. Closed.log = {} /\ \A r \in Row : Closed.new[r] = Untouched
  BY Zenon DEF Closed, Clean
<1>2. Journal' \subseteq Journal
  BY Zenon, <1>1 DEF Journal
<1>3. CounterAhead' /\ Recoverable'
  BY SMTT(60) DEF CounterAhead, Journalled, Recoverable, RevertsTo
<1>4. LocksExclusive' /\ PendingOldest'
  BY <1>1, SMTT(60) DEF LocksExclusive, PendingOldest
<1>5. IdsFresh' /\ TagsOrdered'
  BY Zenon, <1>2 DEF IdsFresh, TagsOrdered
<1> QED
  BY Zenon, <1>3, <1>4, <1>5

\* A new snapshot: at a quiescent moment no undo row is tagged after it.
LEMMA CommitInsertInv ==
  ASSUME IInv, NEW c \in Request, CommitInsert(c), TypeOK'
  PROVE  IInv'
<1> USE DEF IInv
<1> DEFINE n == commits[c].snap
<1>u. UNCHANGED <<rows, undo, nextUndo, txn, live, restore>>
  BY Zenon DEF CommitInsert
<1>1. n \in SnapId /\ n \in Int /\ vstate.cur \in Int
  BY OpenCommitFields DEF CommitInsert, SnapId, TypeOK, VolumeState
<1>2. vstate'.cur = vstate.cur + 1 /\ vstate'.present = vstate.present /\ vstate'.enabled = vstate.enabled
  BY Zenon DEF CommitInsert, TypeOK, VolumeState
<1>3. exact' = IF Quiescent(c) THEN exact \cup {n} ELSE exact \ {n}
  BY Zenon DEF CommitInsert
<1>4. \A k \in SnapId : image'[k] = IF k = n THEN rows ELSE image[k]
  BY Zenon, <1>1 DEF CommitInsert, TypeOK
<1>5. exact \subseteq SnapId /\ \A k \in exact : k \in Int
  BY SMTT(60) DEF TypeOK, SnapId
<1>6. Quiescent(c) => /\ Journalled
                      /\ vstate.cur = n
                      /\ \A s \in Session : txn[s] = Closed
                      /\ \A u \in undo : ~(u.snap > n)
  BY <1>1 DEF Quiescent, TypeOK, UndoRow
<1>7. Closed.log = {} /\ \A r \in Row : Closed.new[r] = Untouched
  BY Zenon DEF Closed, Clean
<1>8. LocksExclusive' /\ IdsFresh' /\ LogsLocked'
  BY <1>u, SMTT(60) DEF LocksExclusive, IdsFresh, Journal, LogsLocked
<1>9. CounterAhead'
  BY SMTT(60), <1>1, <1>2, <1>3, <1>5, <1>6 DEF CounterAhead, Journalled
<1>10. TagsOrdered'
  <2>1. Journal' = Journal /\ \A u \in Journal : u.snap \in Int
    BY SMTT(60), <1>u DEF Journal, UndoRow
  <2>2. Quiescent(c) => \A u \in Journal : ~(u.snap > n)
    BY Zenon, <1>6, <1>7, SMTT(60) DEF Journal
  <2> QED
    BY SMTT(60), <1>1, <1>2, <1>3, <2>1, <2>2 DEF TagsOrdered
<1>11. PendingOldest'
  BY <1>3, <1>6, <1>7, <1>u, SMTT(60) DEF PendingOldest
<1>12. Recoverable'
  <2> SUFFICES ASSUME NEW k \in exact', NEW r \in Row
               PROVE  RevertsTo(undo, k, r, rows[r], image'[k][r])
    BY Zenon, <1>u, ZenonT(60) DEF Recoverable
  <2>1. CASE k = n
    <3>1. Quiescent(c)
      BY Zenon, <1>3, <2>1, SMTT(60)
    <3> QED
      BY Zenon, <1>1, <1>4, <1>6, <2>1, <3>1 DEF RevertsTo
  <2>2. CASE k # n
    BY Zenon, <1>3, <1>4, <1>5, <2>2 DEF Recoverable
  <2> QED
    BY Zenon, <2>1, <2>2, SMTT(60)
<1>13. RestoreInv'
  <2>1. restore.on => exact' \subseteq exact
    BY Zenon, <1>3 DEF Quiescent
  <2> QED
    BY Zenon, <1>u, <2>1 DEF RestoreInv
<1> QED
  BY Zenon, <1>8, <1>9, <1>10, <1>11, <1>12, <1>13

-----------------------------------------------------------------------------
\* The restore transaction starts with nothing written and its first table read.
LEMMA RestoreBeginInv ==
  ASSUME IInv, NEW t \in SnapId, RestoreBegin(t)
  PROVE  RestoreInv'
<1> USE DEF IInv
<1>u. UNCHANGED <<rows, undo, vstate, live, exact>>
  BY Zenon DEF RestoreBegin, engine, history
<1>1. /\ restore'.target = t /\ restore'.table = 1 /\ restore'.todo = UndoAfter(1, t)
      /\ restore'.over = Clean /\ restore'.wasEnabled = vstate.enabled
      /\ restore'.quiet = (live = {})
  BY Zenon DEF RestoreBegin
<1>2. exact # {} => vstate.enabled
  BY Zenon DEF CounterAhead, Journalled
<1>3. \A r \in Row : Clean[r] = Untouched /\ Apply(Clean, rows)[r] = rows[r]
  BY Zenon DEF Clean, Apply
<1>4. ASSUME NEW r \in Row, NEW x \in Value, TableIx[r] = 1, RevertsTo(undo, t, r, rows[r], x)
      PROVE  RevertsTo(UndoAfter(1, t), t, r, rows[r], x)
  BY Zenon, <1>4, RevertsSame DEF UndoAfter
<1>5. \A r \in Row : ~(TableIx[r] < 1)
  OBVIOUS
<1>6. /\ restore'.todo = {u \in undo' : TableIx[u.row] = 1 /\ u.snap > t}
      /\ \A r \in Row : ~(TableIx[r] > 1) \/ Clean[r] = Untouched
  BY Zenon, <1>1, <1>u, <1>3, SMTT(60) DEF UndoAfter
<1>7. \A r \in Row : \A x \in Value :
        RevertsTo(undo', t, r, rows'[r], x) =>
          /\ TableIx[r] = 1 => RevertsTo(restore'.todo, t, r, Apply(restore'.over, rows')[r], x)
          /\ TableIx[r] < 1 => Apply(restore'.over, rows')[r] = x
  BY Zenon, <1>u, <1>1, <1>3, <1>4, <1>5, SMTT(60)
<1>8. Replaying(restore', undo', rows')
  BY Zenon, <1>u, <1>1, <1>6, <1>7, SMTT(60) DEF Replaying
<1> QED
  BY Zenon, <1>u, <1>1, <1>2, <1>8 DEF RestoreInv

\* Replaying the youngest undo row left leaves the outcome of the replay as it was.
LEMMA ReplayOneInv ==
  ASSUME IInv, ReplayOne
  PROVE  RestoreInv'
<1> USE DEF IInv
<1> DEFINE t == restore.target
           k == restore.table
<1>u. UNCHANGED <<rows, undo, live, exact>>
  BY Zenon DEF ReplayOne, engine, history
<1>1. PICK u \in restore.todo :
        /\ \A w \in restore.todo : w.id <= u.id
        /\ restore' = [restore EXCEPT !.todo = @ \ {u},
                                      !.over = [@ EXCEPT ![u.row] = u.before],
                                      !.cascaded = @ \/ u.row = Root]
  BY Zenon DEF ReplayOne
<1>2. /\ restore \in OpenRestore /\ restore.todo \subseteq UndoRow
      /\ restore.over \in Overlay /\ t \in SnapId /\ k \in 1..NTables
  BY Zenon, OpenRestoreFields DEF ReplayOne
<1>3. u \in UndoRow /\ u.row \in Row /\ u.before \in Value
  BY Zenon, <1>2 DEF UndoRow
<1>4. /\ restore'.todo = restore.todo \ {u}
      /\ restore'.target = t /\ restore'.table = k
      /\ restore'.wasEnabled = restore.wasEnabled /\ restore'.quiet = restore.quiet
      /\ restore'.over = [restore.over EXCEPT ![u.row] = u.before]
  BY Zenon, <1>1, <1>2 DEF OpenRestore
<1>5. \A r \in Row : restore'.over[r] = IF r = u.row THEN u.before ELSE restore.over[r]
  BY Zenon, <1>2, <1>3, <1>4 DEF Overlay
<1> SUFFICES ASSUME restore.on, restore.quiet PROVE RestoreInv'
  BY Zenon, <1>4, ZenonT(60) DEF RestoreInv, Replaying, ReplayOne
<1>6. u.row \in Row /\ TableIx[u.row] = k /\ u.snap > t /\ u \in undo
  BY Zenon, <1>1, <1>3 DEF RestoreInv, Replaying, UndoAfter
<1>7. restore.todo \subseteq Journal
  BY Zenon, <1>2 DEF RestoreInv, Replaying, UndoAfter, Journal
<1>8. \A w \in restore.todo : w.id \in Int /\ (w.id = u.id => w = u)
  BY <1>2, <1>7 DEF UndoRow, IdsFresh
<1>9. ASSUME NEW r \in Row, NEW x \in Value, RevertsTo(undo, t, r, rows[r], x)
      PROVE  /\ TableIx[r] = k =>
                  RevertsTo(restore'.todo, t, r, Apply(restore'.over, rows)[r], x)
             /\ TableIx[r] < k => Apply(restore'.over, rows)[r] = x
  <2>1. CASE r # u.row
    <3>1. Apply(restore'.over, rows)[r] = Apply(restore.over, rows)[r]
      BY <1>5, <2>1, ApplyAt, SMTT(60)
    <3>2. TableIx[r] = k => RevertsTo(restore.todo, t, r, Apply(restore.over, rows)[r], x)
      BY Zenon, <1>9, SMTT(60) DEF RestoreInv, Replaying
    <3>3. TableIx[r] < k => Apply(restore.over, rows)[r] = x
      BY Zenon, <1>9, SMTT(60) DEF RestoreInv, Replaying
    <3>4. ASSUME TableIx[r] = k
          PROVE  RevertsTo(restore.todo \ {u}, t, r, Apply(restore.over, rows)[r], x)
      <4> HIDE DEF IInv, t, k
      <4> QED
        BY Zenon, <2>1, <3>2, <3>4, RevertsWithout, SMTT(60)
    <3> HIDE DEF IInv, t, k
    <3> QED
      BY Zenon, <1>4, <3>1, <3>3, <3>4
  <2>2. CASE r = u.row
    <3>1. Apply(restore'.over, rows)[r] = u.before
      BY <1>3, <1>5, <2>2, ApplyAt, SMTT(60)
    <3>2. RevertsTo(restore.todo, t, r, Apply(restore.over, rows)[r], x)
      BY Zenon, <1>6, <1>9, <2>2 DEF RestoreInv, Replaying
    <3>3. PICK y \in restore.todo : /\ y.row = r /\ y.snap > t /\ y.before = x
                                    /\ \A w \in restore.todo : w.row = r /\ w.snap > t => y.id <= w.id
      BY Zenon, <1>6, <2>2, <3>2, SMTT(60) DEF RevertsTo
    <3>4. CASE y = u
      <4>1. \A w \in restore.todo \ {u} : ~(w.row = r /\ w.snap > t)
        BY <1>1, <1>8, <3>3, <3>4, SMTT(60)
      <4> QED
        BY Zenon, <1>4, <1>6, <2>2, <3>1, <3>3, <3>4, <4>1 DEF RevertsTo
    <3>5. CASE y # u
      <4>1. RevertsTo(restore.todo \ {u}, t, r, u.before, x)
        BY Zenon, <3>3, <3>5, SMTT(60) DEF RevertsTo
      <4> QED
        BY <1>4, <1>6, <2>2, <3>1, <4>1, SMTT(60)
    <3> QED
      BY Zenon, <3>4, <3>5, SMTT(60)
  <2> QED
    BY Zenon, <2>1, <2>2, SMTT(60)
<1>10. \A r \in Row : TableIx[r] > k => restore'.over[r] = Untouched
  BY <1>5, <1>6, SMTT(60) DEF RestoreInv, Replaying
<1>11. restore'.todo \subseteq UndoAfter(k, t)' /\ live' = {} /\ (exact' # {} => restore'.wasEnabled)
  BY Zenon, <1>u, <1>4, SMTT(60) DEF RestoreInv, Replaying, UndoAfter
<1>12. Replaying(restore', undo', rows')
  BY Zenon, <1>u, <1>4, <1>9, <1>10, <1>11, ZenonT(60) DEF Replaying, UndoAfter
<1> QED
  BY Zenon, <1>11, <1>12 DEF RestoreInv

\* When a table is done its rows have reverted; the next one is still untouched.
LEMMA NextTableInv ==
  ASSUME IInv, NextTable
  PROVE  RestoreInv'
<1> USE DEF IInv
<1> DEFINE t == restore.target
           k == restore.table
<1>u. UNCHANGED <<rows, undo, live, exact>>
  BY Zenon DEF NextTable, engine, history
<1>1. restore \in OpenRestore /\ k \in 1..NTables /\ k < NTables
  BY Zenon, OpenRestoreFields DEF NextTable
<1>2. /\ restore'.todo = UndoAfter(k + 1, t)
      /\ restore'.target = t /\ restore'.table = k + 1
      /\ restore'.wasEnabled = restore.wasEnabled /\ restore'.quiet = restore.quiet
      /\ restore'.over = restore.over
  BY Zenon, <1>1 DEF NextTable, OpenRestore
<1> SUFFICES ASSUME restore.on, restore.quiet PROVE RestoreInv'
  BY Zenon, <1>2, SMTT(60) DEF RestoreInv, Replaying, NextTable
<1>3. ASSUME NEW r \in Row, NEW x \in Value, RevertsTo(undo, t, r, rows[r], x)
      PROVE  /\ TableIx[r] = k + 1 =>
                  RevertsTo(UndoAfter(k + 1, t), t, r, Apply(restore.over, rows)[r], x)
             /\ TableIx[r] < k + 1 => Apply(restore.over, rows)[r] = x
  <2>1. CASE TableIx[r] = k + 1
    <3>1. restore.over[r] = Untouched
      BY <1>1, <2>1, SMTT(60) DEF RestoreInv, Replaying
    <3>2. Apply(restore.over, rows)[r] = rows[r]
      BY Zenon, <3>1, ApplyAt
    <3>3. RevertsTo(UndoAfter(k + 1, t), t, r, rows[r], x)
      <4> HIDE DEF IInv, t, k
      <4> QED
        BY Zenon, <1>3, <2>1, RevertsInTable, SMTT(60)
    <3> QED
      BY <1>1, <2>1, <3>2, <3>3, SMTT(60)
  <2>2. CASE TableIx[r] = k
    <3>1. RevertsTo({}, t, r, Apply(restore.over, rows)[r], x)
      BY Zenon, <1>3, <2>2, SMTT(60) DEF RestoreInv, Replaying, NextTable
    <3> QED
      BY <1>1, <2>2, <3>1 DEF RevertsTo
  <2>3. CASE TableIx[r] < k
    BY <1>1, <1>3, <2>3, SMTT(60) DEF RestoreInv, Replaying
  <2> QED
    BY <1>1, <2>1, <2>2, <2>3, SMTT(60)
<1>4. \A r \in Row : TableIx[r] > k + 1 => restore.over[r] = Untouched
  BY <1>1, SMTT(60) DEF RestoreInv, Replaying
<1>5. /\ restore'.todo = {u \in undo' : TableIx[u.row] = k + 1 /\ u.snap > t}
      /\ live' = {}
      /\ exact' # {} => restore'.wasEnabled
  BY Zenon, <1>u, <1>2, SMTT(60) DEF RestoreInv, Replaying, UndoAfter
<1> HIDE DEF t, k
<1>6. \A r \in Row : \A x \in Value :
        RevertsTo(undo', t, r, rows'[r], x) =>
          /\ TableIx[r] = k + 1 => RevertsTo(restore'.todo, t, r, Apply(restore'.over, rows')[r], x)
          /\ TableIx[r] < k + 1 => Apply(restore'.over, rows')[r] = x
  BY <1>u, <1>2, <1>3
<1>7. \A r \in Row : TableIx[r] > k + 1 => restore'.over[r] = Untouched
  BY Zenon, <1>2, <1>4
<1>8. PICK m \in Int : m = k + 1
  BY <1>1, SMTT(60)
<1>9. Replaying(restore', undo', rows')
  BY Zenon, <1>2, <1>5, <1>6, <1>7, <1>8, SMTT(60) DEF Replaying
<1> QED
  BY Zenon, <1>5, <1>9 DEF RestoreInv

\* When a quiet restore commits, every row holds what the undo log reverts it to.
LEMMA QuietOutcome ==
  ASSUME IInv, RestoreFinish, restore.quiet,
         NEW r \in Row, NEW x \in Value, RevertsTo(undo, restore.target, r, rows[r], x)
  PROVE  rows'[r] = x
<1> USE DEF IInv
<1>1. rows'[r] = Apply(restore.over, rows)[r] /\ restore.on /\ restore.todo = {} /\ restore.table = NTables
  BY Zenon DEF RestoreFinish
<1>2. CASE TableIx[r] = NTables
  <2>1. RevertsTo({}, restore.target, r, Apply(restore.over, rows)[r], x)
    BY <1>1, <1>2, SMTT(60) DEF RestoreInv, Replaying
  <2> QED
    BY Zenon, <1>1, <2>1, SMTT(60) DEF RevertsTo
<1>3. CASE TableIx[r] < NTables
  BY Zenon, <1>1, <1>3 DEF RestoreInv, Replaying
<1> QED
  BY <1>2, <1>3, SMTT(60)

\* The commit of a restore: the log below the target still reverts every row to
\* each earlier exact snapshot.
LEMMA RestoreFinishInv ==
  ASSUME IInv, RestoreFinish, TypeOK'
  PROVE  IInv'
<1> USE DEF IInv
<1> DEFINE t == restore.target
<1>u. UNCHANGED <<nextUndo, txn, live, image>>
  BY Zenon DEF RestoreFinish
<1>1. /\ restore.on
      /\ undo' = {u \in undo : u.snap <= t}
      /\ exact' = IF restore.quiet THEN {n \in exact : n <= t} ELSE {}
      /\ vstate'.present = vstate.present
      /\ vstate'.enabled = IF restore.cascaded THEN restore.wasEnabled ELSE vstate.enabled
      /\ vstate'.cur = t + 1
  BY Zenon DEF RestoreFinish
<1>2. t \in Int /\ (\A n \in exact : n \in Int) /\ (\A u \in Journal : u.snap \in Int /\ u.id \in Int)
  <2>1. t \in Int
    BY <1>1, OpenRestoreFields DEF SnapId
  <2>2. \A n \in exact : n \in Int
    BY DEF SnapId, TypeOK
  <2>3. Journal \subseteq UndoRow
    BY Zenon DEF Journal, TypeOK
  <2>4. \A u \in UndoRow : u.snap \in Int /\ u.id \in Int
    BY SMTT(60) DEF UndoRow
  <2> QED
    BY Zenon, <2>1, <2>2, <2>3, <2>4
<1>3. Journal' \subseteq Journal
  BY Zenon, <1>1, <1>u, SMTT(60) DEF Journal
<1>4. LocksExclusive' /\ IdsFresh' /\ LogsLocked'
  BY <1>3, <1>u, SMTT(60) DEF LocksExclusive, IdsFresh, LogsLocked
<1>5. RestoreInv'
  BY Zenon DEF RestoreFinish, NoRestore, RestoreInv
<1>6. CASE ~restore.quiet
  <2>1. exact' = {}
    BY Zenon, <1>1, <1>6
  <2> QED
    BY Zenon, <1>4, <1>5, <2>1, SMTT(60) DEF CounterAhead, TagsOrdered, PendingOldest, Recoverable
<1>7. CASE restore.quiet
  <2>1. \A s \in Session : txn[s] = Closed
    BY Zenon, <1>1, <1>7, QuietAlone
  <2>2. Closed.log = {} /\ \A r \in Row : Closed.new[r] = Untouched
    BY Zenon DEF Closed, Clean
  <2>3. Journal' = undo' /\ undo = Journal
    <3>1. undo \subseteq UndoRow /\ undo' \subseteq UndoRow
      BY Zenon DEF TypeOK
    <3>2. \A s \in Session : txn[s].log = {} /\ txn'[s].log = {}
      BY Zenon, <1>u, <2>1, <2>2
    <3> HIDE DEF IInv
    <3> QED
      BY Zenon, <3>1, <3>2 DEF Journal
  <2>4. \A n \in exact' : n \in exact /\ n <= t
    BY Zenon, <1>1, <1>7, SMTT(60)
  <2>5. CounterAhead'
    BY <1>1, <1>2, <1>7, <2>4, SMTT(60) DEF CounterAhead, Journalled, RestoreInv
  <2>6. TagsOrdered'
    BY <1>1, <1>2, <1>3, <2>3, <2>4, SMTT(60) DEF TagsOrdered
  <2>7. PendingOldest'
    BY Zenon, <1>u, <2>1, <2>2, SMTT(60) DEF PendingOldest
  <2>8. ASSUME NEW n \in exact', NEW r \in Row
        PROVE  RevertsTo(undo', n, r, rows'[r], image[n][r])
    <3>1. /\ n \in exact /\ n \in Int /\ n <= t
          /\ image[n][r] \in Value /\ rows[r] \in Value
          /\ RevertsTo(undo, n, r, rows[r], image[n][r])
      BY <1>2, <2>4, <2>8, SMTT(60) DEF Recoverable, TypeOK
    <3>2. CASE \A u \in undo : ~(u.row = r /\ u.snap > n)
      <4>1. image[n][r] = rows[r]
        BY Zenon, <3>1, <3>2, SMTT(60) DEF RevertsTo
      <4>2. RevertsTo(undo, t, r, rows[r], rows[r])
        BY <1>2, <2>3, <3>1, <3>2, SMTT(60) DEF RevertsTo
      <4>3. rows'[r] = rows[r]
        BY Zenon, <1>7, <3>1, <4>2, QuietOutcome, SMTT(60)
      <4> QED
        BY Zenon, <1>1, <3>2, <4>1, <4>3 DEF RevertsTo
    <3>3. CASE \E u \in undo : u.row = r /\ u.snap > n
      <4>1. PICK u \in undo : /\ u.row = r /\ u.snap > n /\ u.before = image[n][r]
                              /\ \A w \in undo : w.row = r /\ w.snap > n => u.id <= w.id
        BY Zenon, <3>1, <3>3 DEF RevertsTo
      <4>2. CASE u.snap <= t
        <5>1. u \in undo' /\ undo' \subseteq undo
          BY Zenon, <1>1, <4>2
        <5> QED
          BY Zenon, <4>1, <5>1 DEF RevertsTo
      <4>3. CASE u.snap > t
        <5>1. \A w \in undo : w.row = r /\ w.snap > n => w.snap > t
          <6> SUFFICES ASSUME NEW w \in undo, w.row = r, w.snap > n PROVE w.snap > t
            BY Zenon
          <6>1. CASE w = u
            BY Zenon, <4>3, <6>1
          <6>2. CASE w # u
            <7>1. u.id < w.id
              BY <1>2, <2>3, <4>1, <6>2, SMTT(60) DEF IdsFresh
            <7>2. u.snap <= w.snap
              BY Zenon, <2>3, <3>1, <4>1, <7>1, SMTT(60) DEF TagsOrdered
            <7> QED
              BY <1>2, <2>3, <4>3, <7>2
          <6> QED
            BY Zenon, <6>1, <6>2
        <5>2. RevertsTo(undo, t, r, rows[r], u.before)
          <6>1. \A w \in undo : w.row = r /\ w.snap > t => w.snap > n
            BY <1>2, <2>3, <3>1, SMTT(60)
          <6> QED
            BY Zenon, <4>1, <4>3, <6>1, SMTT(60) DEF RevertsTo
        <5>3. rows'[r] = image[n][r]
          BY Zenon, <1>7, <3>1, <4>1, <5>2, QuietOutcome, SMTT(60)
        <5>4. \A w \in undo' : ~(w.row = r /\ w.snap > n)
          BY <1>1, <1>2, <2>3, <5>1, SMTT(60)
        <5> QED
          BY Zenon, <5>3, <5>4 DEF RevertsTo
      <4> QED
        BY <1>2, <2>3, <4>2, <4>3
    <3> QED
      BY Zenon, <3>2, <3>3, SMTT(60)
  <2>9. Recoverable'
    BY Zenon, <1>u, <2>8 DEF Recoverable
  <2> QED
    BY Zenon, <1>4, <1>5, <2>5, <2>6, <2>7, <2>9
<1> QED
  BY Zenon, <1>6, <1>7, SMTT(60)

\* The upsert of enable changes nothing on a volume with an exact snapshot.
LEMMA EnableInv ==
  ASSUME IInv, Enable, TypeOK'
  PROVE  IInv'
<1> USE DEF IInv
<1>u. UNCHANGED <<rows, undo, nextUndo, txn, live, restore, exact, image>>
  BY Zenon DEF Enable, history
<1>1. exact # {} => vstate'.cur = vstate.cur /\ vstate'.present /\ vstate'.enabled
  BY Zenon DEF CounterAhead, Journalled, Enable
<1>2. CounterAhead' /\ TagsOrdered'
  BY Zenon, <1>u, <1>1 DEF CounterAhead, Journalled, TagsOrdered, Journal
<1>3. LocksExclusive' /\ IdsFresh' /\ LogsLocked' /\ PendingOldest' /\ Recoverable'
  <2>1. LocksExclusive' /\ LogsLocked'
    BY <1>u, SMTT(60) DEF LocksExclusive, LogsLocked
  <2>2. IdsFresh'
    BY Zenon, <1>u, SMTT(60) DEF IdsFresh, Journal
  <2>3. PendingOldest'
    BY <1>u, SMTT(60) DEF PendingOldest
  <2>4. Recoverable'
    BY Zenon, <1>u DEF Recoverable
  <2> QED
    BY Zenon, <2>1, <2>2, <2>3, <2>4, SMTT(60)
<1>4. RestoreInv'
  BY Zenon, <1>u, SMTT(60) DEF RestoreInv
<1> QED
  BY Zenon, <1>2, <1>3, <1>4, SMTT(60)

\* disable gives every snapshot up before it deletes the first undo row.
LEMMA DisableInv ==
  ASSUME IInv, NEW d \in Purger, DisableStep(d), TypeOK'
  PROVE  IInv'
<1> USE DEF IInv
<1>u. UNCHANGED <<nextUndo, txn, live>> /\ exact' = {} /\ undo' \subseteq undo
  BY Zenon DEF DisableStep
<1>1. Journal' \subseteq Journal
  BY Zenon, <1>u, SMTT(60) DEF Journal
<1>2. LocksExclusive' /\ IdsFresh' /\ LogsLocked'
  BY <1>1, <1>u, SMTT(60) DEF LocksExclusive, IdsFresh, LogsLocked
<1>3. CounterAhead' /\ TagsOrdered' /\ PendingOldest' /\ Recoverable'
  BY Zenon, <1>u DEF CounterAhead, TagsOrdered, PendingOldest, Recoverable
<1>4. ~(restore'.on /\ restore'.quiet)
  BY DEF DisableStep, Disturbed, TypeOK, OpenRestore
<1> QED
  BY Zenon, <1>2, <1>3, <1>4, ZenonT(60) DEF RestoreInv, Replaying

\* A step that leaves the tables, the transactions and the history alone keeps
\* the invariant when it keeps the parts about sessions and the restore.
LEMMA NeutralInv ==
  ASSUME IInv, TypeOK', UNCHANGED <<engine, txn, history>>, LogsLocked', RestoreInv'
  PROVE  IInv'
<1>1. Core
  BY Zenon DEF IInv, Core
<1>2. Core'
  BY Zenon, <1>1, CoreUnchanged DEF engine, history
<1> QED
  BY Zenon, <1>2 DEF IInv, Core

\* A restore that has been disturbed promises nothing.
LEMMA DisturbedInv ==
  ASSUME TypeOK, restore' = Disturbed
  PROVE  ~(restore'.on /\ restore'.quiet)
BY DEF Disturbed, TypeOK, OpenRestore, NoRestore

\* Every step of the engine preserves the inductive invariant.
LEMMA InvStep == IInv /\ [Next]_vars => IInv'
<1> SUFFICES ASSUME IInv, [Next]_vars PROVE IInv'
  BY Zenon
<1>t. TypeOK /\ TypeOK'
  BY Zenon, TypeStep DEF IInv
<1>i. LogsLocked /\ RestoreInv
  BY Zenon DEF IInv
<1>1. ASSUME NEW s \in Session, Mount(s) PROVE IInv'
  <2>1. UNCHANGED <<engine, txn, history>> /\ live \subseteq live' /\ restore' = Disturbed
    BY Zenon, <1>1 DEF Mount
  <2>2. LogsLocked'
    BY Zenon, <1>i, <2>1 DEF LogsLocked
  <2>3. RestoreInv'
    BY Zenon, <1>t, <2>1, DisturbedInv DEF RestoreInv
  <2> QED
    BY Zenon, <1>t, <2>1, <2>2, <2>3, NeutralInv
<1>2. ASSUME NEW s \in Session, SessionEnd(s) PROVE IInv'
  <2>1. UNCHANGED <<engine, txn, history, restore>> /\ live' = live \ {s} /\ txn[s] = Closed
    BY Zenon, <1>2 DEF SessionEnd
  <2>2. LogsLocked'
    BY Zenon, <1>i, <2>1 DEF LogsLocked
  <2>3. RestoreInv'
    BY Zenon, <1>i, <2>1 DEF RestoreInv, engine, history
  <2> QED
    BY Zenon, <1>t, <2>1, <2>2, <2>3, NeutralInv
<1>3. ASSUME Unmount PROVE IInv'
  <2>1. UNCHANGED <<engine, txn, history, restore>> /\ live' = live \ {mounted} /\ txn[mounted] = Closed
    BY Zenon, <1>3 DEF Unmount
  <2>2. LogsLocked'
    BY Zenon, <1>i, <2>1 DEF LogsLocked
  <2>3. RestoreInv'
    BY Zenon, <1>i, <2>1 DEF RestoreInv, engine, history
  <2> QED
    BY Zenon, <1>t, <2>1, <2>2, <2>3, NeutralInv
<1>4. ASSUME UNCHANGED <<engine, txn, history, live, restore>> PROVE IInv'
  <2>1. LogsLocked'
    BY Zenon, <1>i, <1>4 DEF LogsLocked
  <2>2. RestoreInv'
    BY Zenon, <1>i, <1>4, SMTT(60) DEF RestoreInv, engine, history
  <2> QED
    BY Zenon, <1>t, <1>4, <2>1, <2>2, NeutralInv
<1>5. ASSUME NEW s \in Session, RollbackTxn(s) PROVE IInv'
  <2>1. /\ UNCHANGED <<rows, undo, nextUndo, vstate, exact, image, live, restore>>
        /\ \A o \in Session : txn'[o] \in {txn[o], Closed}
    BY Zenon, <1>5, <1>t DEF RollbackTxn, engine, history, TypeOK
  <2>c. Closed.log = {}
    BY Zenon DEF Closed
  <2>2. LogsLocked'
    BY Zenon, <1>i, <2>1, <2>c, SMTT(60) DEF LogsLocked
  <2>3. RestoreInv'
    BY Zenon, <1>i, <2>1, SMTT(60) DEF RestoreInv
  <2> QED
    BY Zenon, <1>t, <2>1, <2>2, <2>3, CloseInv, SMTT(60)
<1>6. ASSUME DaemonCrash PROVE IInv'
  <2>1. /\ UNCHANGED <<rows, undo, nextUndo, vstate, exact, image>>
        /\ \A o \in Session : txn'[o] = Closed
        /\ restore' = NoRestore
    BY Zenon, <1>6, SMTT(60) DEF DaemonCrash, engine, history
  <2>2. LogsLocked'
    BY SMTT(60), <2>1 DEF LogsLocked, Closed
  <2>3. RestoreInv'
    BY Zenon, <2>1 DEF RestoreInv, NoRestore
  <2> QED
    BY Zenon, <1>t, <2>1, <2>2, <2>3, CloseInv
<1>7. ASSUME UNCHANGED <<engine, txn, history, live>>, RestoreInv' PROVE IInv'
  <2>1. LogsLocked'
    BY Zenon, <1>i, <1>7 DEF LogsLocked
  <2> QED
    BY Zenon, <1>t, <1>7, <2>1, NeutralInv
<1>8. ASSUME RestoreFail PROVE IInv'
  BY Zenon, <1>7, <1>8 DEF RestoreFail, RestoreInv, NoRestore
<1>9. ASSUME RestoreStep PROVE IInv'
  <2>1. ASSUME NEW t \in SnapId, RestoreBegin(t) PROVE IInv'
    <3>1. RestoreInv'
      BY Zenon, <2>1, RestoreBeginInv, SMTT(60)
    <3>2. UNCHANGED <<engine, txn, history, live>>
      BY Zenon, <2>1 DEF RestoreBegin
    <3> QED
      BY Zenon, <1>7, <3>1, <3>2
  <2>2. ASSUME ReplayOne PROVE IInv'
    BY Zenon, <1>7, <2>2, ReplayOneInv DEF ReplayOne
  <2>3. ASSUME NextTable PROVE IInv'
    BY Zenon, <1>7, <2>3, NextTableInv DEF NextTable
  <2> QED
    BY Zenon, <1>t, <1>8, <1>9, <2>1, <2>2, <2>3, RestoreFinishInv, SMTT(60) DEF RestoreStep
<1>10. ASSUME NEW c \in Request, RequestStep(c) PROVE IInv'
  <2>1. ASSUME NEW l \in Label, CommitRead(c, l) PROVE IInv'
    BY Zenon, <1>4, <2>1 DEF CommitRead
  <2>2. ASSUME CommitFail(c) PROVE IInv'
    BY Zenon, <1>4, <2>2 DEF CommitFail
  <2> QED
    BY Zenon, <1>t, <1>10, <2>1, <2>2, CommitInsertInv, SMTT(60) DEF RequestStep
<1>11. ASSUME NEW s \in Session, SessionStep(s) PROVE IInv'
  BY Zenon, <1>t, <1>1, <1>2, <1>5, <1>11, WriteInv, CommitTxnInv DEF SessionStep
<1>12. ASSUME UnmountBusy PROVE IInv'
  BY Zenon, <1>4, <1>12 DEF UnmountBusy
<1>13. ASSUME UNCHANGED vars PROVE IInv'
  BY Zenon, <1>4, <1>13 DEF vars
<1> QED
  BY Zenon, <1>t, <1>3, <1>6, <1>9, <1>10, <1>11, <1>12, <1>13, EnableInv, DisableInv DEF Next

-----------------------------------------------------------------------------
\* The undo log of the triggers always suffices to bring back every snapshot that
\* was committed at a quiescent moment.
THEOREM UndoLogSuffices == Spec => []Recoverable
<1>1. IInv => Recoverable
  BY Zenon DEF IInv
<1> QED
  BY <1>1, InvInit, InvStep, PTL DEF Spec

\* The counter that tags undo rows stays ahead of every exact snapshot, through
\* enable, commit, restore and crashes.
THEOREM CounterStaysAhead == Spec => []CounterAhead
<1>1. IInv => CounterAhead
  BY Zenon DEF IInv
<1> QED
  BY <1>1, InvInit, InvStep, PTL DEF Spec

\* restore_to, when it commits undisturbed, leaves exactly the rows its target
\* was committed with.
THEOREM RestoreBringsBack == Spec => RestoreExact
<1>1. ASSUME IInv, [Next]_vars, RestoreFinish, restore.quiet, restore.target \in exact
      PROVE  rows' = image[restore.target]
  <2>1. TypeOK /\ TypeOK'
    BY Zenon, <1>1, TypeStep, SMTT(60) DEF IInv
  <2>2. ASSUME NEW r \in Row PROVE rows'[r] = image[restore.target][r]
    <3>1. RevertsTo(undo, restore.target, r, rows[r], image[restore.target][r])
      BY Zenon, <1>1, SMTT(60) DEF IInv, Recoverable
    <3>2. image[restore.target][r] \in Value
      BY <1>1, <2>1, SMTT(60) DEF TypeOK
    <3> QED
      BY Zenon, <1>1, <3>1, <3>2, QuietOutcome, SMTT(60)
  <2>3. rows' \in [Row -> Value] /\ image[restore.target] \in [Row -> Value]
    BY Zenon, <1>1, <2>1 DEF TypeOK
  <2> QED
    BY <2>2, <2>3
<1>2. IInv /\ [Next]_vars =>
        [RestoreFinish /\ restore.quiet /\ restore.target \in exact
           => rows' = image[restore.target]]_vars
  BY Zenon, <1>1
<1> QED
  BY <1>2, InvInit, InvStep, PTL DEF Spec, RestoreExact
=============================================================================
