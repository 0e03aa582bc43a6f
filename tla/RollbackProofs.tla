--------------------------- MODULE RollbackProofs ---------------------------
(***************************************************************************)
(* Proofs about Rollback, for any number of messages, crashes and failed   *)
(* calls: the files and the transcript agree whenever no rollback is under *)
(* way, and every snapshot stays a target that pairs the two.              *)
(***************************************************************************)
EXTENDS Rollback, TLAPS, WellFoundedInduction

\* Steps of a rollback before its files are restored, before its transcript is cut, and
\* after both.
ToRestore == {"unmount", "restore", "restored"}
ToCut == {"truncate"}
ToMark == {"trajectory", "truncated"}
ToMount == {"mount", "finish"}

Phases == ToRestore \cup ToCut \cup ToMark \cup ToMount

\* Steps at which a process of the client works with no rollback marked.
Unmarking == {"commit", "committed", "enable", "enabled", "disable", "disabled", "mark"}

\* The processes that serve the client or start the gateway; the scanner is not one.
Asked == {"client", "eager", "boot"}

Marker == [on: BOOLEAN, snap: Nat, msg: Nat, fs: BOOLEAN, jsonl: BOOLEAN]

Rb == [enabled: BOOLEAN, last: Nat, marker: Marker]

Volume == [mount: {"live", "dead", "none"}, files: Nat,
           undo: SUBSET [msg: Nat, tag: Nat, before: Nat, top: BOOLEAN],
           snaps: SUBSET [id: Nat, label: Nat], next: Nat, enabled: BOOLEAN]

DataOK ==
  /\ store \in [mounted: BOOLEAN, rb: Rb]
  /\ vol \in Volume
  /\ written \in Nat
  /\ DOMAIN chat \subseteq 1 .. written /\ \A m \in DOMAIN chat : chat[m] \in Nat
  /\ torn \in BOOLEAN

TasksOK == DOMAIN task = Proc /\ \A p \in Proc : task[p].rb \in Rb

\* The client, its eager snapshot and reconcile are never at work at the same time.
OneActive ==
  \A p, o \in Asked : ~At(p, "idle") /\ ~At(o, "idle") => p = o

\* The undo log is ordered: later changes have later tags, none beyond the counter.
LogOrdered ==
  /\ \A u \in vol.undo : u.tag <= vol.next /\ u.msg <= written
  /\ \A u, w \in vol.undo : /\ u.msg < w.msg => u.tag <= w.tag
                            /\ u.msg = w.msg => u = w

\* Snapshots have different ids, labels that were written, and exist only while enabled.
SnapsFine ==
  /\ vol.next > 0
  /\ \A s, t \in vol.snaps : s.id = t.id => s = t
  /\ \A s \in vol.snaps : s.id > 0 /\ s.label <= written
  /\ ~vol.enabled => vol.snaps = {}

\* What holds of volume and transcript whatever the rollback is at.
Core == LogOrdered /\ SnapsFine /\ TargetsInChat /\ SnapshotsPaired

\* A snapshot that a restore has left behind is labelled with a message that is, or is
\* going to be, cut.
LeftBehind ==
  LET k == store.rb.marker IN
  \A s \in vol.snaps \ Kept :
    ~InChat(s.label) \/ (k.on /\ ~k.jsonl /\ s.label > k.msg)

\* With no rollback marked, or its transcript cut, the files are the transcript's.
Together ==
  torn \/ (store.rb.marker.on /\ ~store.rb.marker.jsonl) \/ vol.files = Expected

\* A rollback can have this target.
Target(k) == [id |-> k.snap, label |-> k.msg] \in Kept /\ InChat(k.msg)

\* Counter and files are those of the target.
RestoredTo(k) == vol.next = k.snap + 1 /\ (torn \/ vol.files = chat[k.msg])

\* The target of a marked rollback stays; from the restore until the transcript is cut,
\* counter and files are the target's.
MarkerOK ==
  LET k == store.rb.marker IN
  /\ k.on /\ k.jsonl => k.fs
  /\ k.on => Target(k)
  /\ k.on /\ k.fs /\ ~k.jsonl => RestoredTo(k)

\* What a process knows of the rollback is what the store says, and the step it is at is
\* one that the marker allows.
ProcOK(p) ==
  LET c == task[p]
      k == store.rb.marker
  IN  /\ c.at \in Phases => /\ p # "eager" /\ c.rb = store.rb /\ k.on
                            /\ k.fs <=> (c.at \notin ToRestore)
                            /\ k.jsonl <=> (c.at \in ToMount)
      /\ c.at \in Unmarking => /\ p # "boot" /\ ~k.on
                               /\ c.at # "mark" => ~c.rb.marker.on
      /\ c.at = "commit" => DOMAIN chat # {}
      /\ c.at = "mark" => /\ p = "client" /\ c.rb.marker.on
                          /\ ~c.rb.marker.fs /\ ~c.rb.marker.jsonl
                          /\ Target(c.rb.marker)
      /\ c.at = "restored" => RestoredTo(k)
      /\ c.at \in ToMark => \A m \in DOMAIN chat : m <= k.msg

\* The inductive invariant behind AtRest, SnapshotsPaired and TargetsInChat.
RInv ==
  /\ DataOK /\ TasksOK /\ OneActive /\ Core
  /\ LeftBehind /\ Together /\ MarkerOK
  /\ \A p \in Asked : ProcOK(p)

-----------------------------------------------------------------------------
(* Least and greatest messages.                                            *)

\* A non-empty set of numbers has a least element.
LEMMA LeastExists ==
  ASSUME NEW S \in SUBSET Nat, S # {}
  PROVE  \E x \in S : \A y \in S : x <= y
<1>1. IsWellFoundedOn(OpToRel(<, Nat), Nat)
  BY Zenon, NatLessThanWellFounded
<1>2. PICK x \in S : \A y \in S : ~(<<y, x>> \in OpToRel(<, Nat))
  BY Zenon, <1>1, WFMin, Zenon
<1>3. ASSUME NEW y \in S, y < x PROVE FALSE
  <2>1. <<y, x>> \in Nat \X Nat /\ <<y, x>>[1] < <<y, x>>[2]
    BY Zenon, <1>3
  <2>2. <<y, x>> \in OpToRel(<, Nat)
    BY Zenon, <2>1, Zenon DEF OpToRel
  <2> QED BY Zenon, <1>2, <2>2, Zenon
<1> QED BY <1>3

\* A non-empty set of numbers with a bound has a greatest element.
LEMMA GreatestExists ==
  ASSUME NEW n \in Nat, NEW S \in SUBSET (1 .. n), S # {}
  PROVE  \E x \in S : \A y \in S : y <= x
<1> DEFINE B == {b \in Nat : \A y \in S : y <= b}
<1>1. n \in B /\ B \in SUBSET Nat
  OBVIOUS
<1>2. PICK b \in B : \A c \in B : b <= c
  BY Zenon, <1>1, LeastExists
<1>3. b \in S
  <2> SUFFICES ASSUME b \notin S PROVE FALSE
    BY Zenon
  <2>1. \A y \in S : y \in Int /\ y >= 1 /\ y < b
    BY <1>2
  <2>2. b >= 1
    <3>1. PICK y \in S : TRUE
      BY Zenon
    <3> QED BY <2>1, <3>1
  <2>3. b - 1 \in B
    BY <2>1, <2>2
  <2> QED BY <1>2, <2>2, <2>3
<1> QED BY Zenon, <1>2, <1>3

\* The oldest entry of a non-empty undo log.
LEMMA OldestIs ==
  ASSUME NEW U, U # {}, \A u \in U : u.msg \in Nat
  PROVE  Oldest(U) \in U /\ \A w \in U : Oldest(U).msg <= w.msg
<1> DEFINE S == {u.msg : u \in U}
<1>1. S \in SUBSET Nat /\ S # {}
  BY Zenon
<1>2. PICK x \in S : \A y \in S : x <= y
  BY Zenon, <1>1, LeastExists
<1>3. \E u \in U : \A w \in U : u.msg <= w.msg
  BY Zenon, <1>2
<1> QED BY Zenon, <1>3 DEF Oldest

\* It is the oldest entry, when no two have the same message.
LEMMA OldestUnique ==
  ASSUME NEW U, NEW u \in U, \A w \in U : w.msg \in Nat /\ u.msg <= w.msg,
         \A w \in U : w.msg = u.msg => w = u
  PROVE  Oldest(U) = u
<1>1. Oldest(U) \in U /\ \A w \in U : Oldest(U).msg <= w.msg
  BY Zenon, OldestIs
<1> QED BY <1>1

\* The last message of the transcript.
LEMMA LastIs ==
  ASSUME DataOK, DOMAIN chat # {}
  PROVE  LastMsg \in DOMAIN chat /\ \A x \in DOMAIN chat : x <= LastMsg
<1>1. \E m \in DOMAIN chat : \A x \in DOMAIN chat : x <= m
  BY Zenon, GreatestExists DEF DataOK
<1> QED BY Zenon, <1>1 DEF LastMsg

\* A message that none follows is the last.
LEMMA GreatestUnique ==
  ASSUME NEW D \in SUBSET Nat, NEW m \in D, \A x \in D : x <= m
  PROVE  (CHOOSE y \in D : \A x \in D : x <= y) = m
<1> DEFINE g == CHOOSE y \in D : \A x \in D : x <= y
<1>1. g \in D /\ \A x \in D : x <= g
  BY Zenon
<1> HIDE DEF g
<1>2. g = m
  BY <1>1
<1> QED BY Zenon, <1>2 DEF g

-----------------------------------------------------------------------------
(* What the methods of the daemon do to the volume.                        *)

\* A restore reverts the files and forgets what it has replayed.
LEMMA RestoredIs ==
  ASSUME DataOK, NEW t \in Nat
  PROVE  LET r == Restored(vol, t) IN
         /\ r.files = Reverted(vol, t)
         /\ r.undo = {u \in vol.undo : u.tag <= t}
         /\ r.snaps \subseteq vol.snaps
         /\ \A s \in vol.snaps : s.id <= t => s \in r.snaps
         /\ r.next = t + 1
         /\ r.enabled = vol.enabled /\ r.mount = vol.mount
<1>1. vol.undo \ UndoAfter(vol, t) = {u \in vol.undo : u.tag <= t}
  BY DEF DataOK, Volume, UndoAfter
<1> QED BY Zenon, <1>1 DEF DataOK, Volume, Restored

\* The files that any restore leaves are files.
LEMMA RevertedType ==
  ASSUME DataOK, NEW t \in Nat
  PROVE  Reverted(vol, t) \in Nat
<1>1. CASE UndoAfter(vol, t) = {}
  BY Zenon, <1>1 DEF Reverted, DataOK, Volume
<1>2. CASE UndoAfter(vol, t) # {}
  <2>1. \A u \in UndoAfter(vol, t) : u.msg \in Nat /\ u.before \in Nat
    BY Zenon DEF UndoAfter, DataOK, Volume
  <2>2. Oldest(UndoAfter(vol, t)) \in UndoAfter(vol, t)
    BY Zenon, <1>2, <2>1, OldestIs
  <2> QED BY Zenon, <1>2, <2>1, <2>2 DEF Reverted
<1> QED BY Zenon, <1>1, <1>2

\* A restore does not change what an earlier snapshot brings back.
LEMMA RestoreKeepsEarlier ==
  ASSUME DataOK, LogOrdered, NEW t \in Nat, NEW n \in Nat, n <= t
  PROVE  Reverted(Restored(vol, t), n) = Reverted(vol, n)
<1> DEFINE r == Restored(vol, t)
           U == UndoAfter(vol, n)
           V == UndoAfter(r, n)
<1>1. r.files = Reverted(vol, t) /\ r.undo = {u \in vol.undo : u.tag <= t}
  BY Zenon, RestoredIs
<1>2. \A u \in vol.undo : u.msg \in Nat /\ u.tag \in Nat
  BY Zenon DEF DataOK, Volume
<1> SUFFICES Reverted(r, n) = Reverted(vol, n)
  BY Zenon
<1> HIDE DEF r
<1>3. U = {u \in vol.undo : u.tag > n} /\ V = {u \in U : u.tag <= t}
  BY Zenon, <1>1 DEF UndoAfter
<1>4. CASE U = {}
  <2>1. V = {} /\ UndoAfter(vol, t) = {}
    BY <1>2, <1>3, <1>4 DEF UndoAfter
  <2> QED BY Zenon, <1>1, <1>4, <2>1 DEF Reverted
<1>5. CASE U # {}
  <2> DEFINE u == Oldest(U)
  <2>1. u \in U /\ \A w \in U : u.msg <= w.msg
    BY Zenon, <1>2, <1>3, <1>5, OldestIs
  <2>2. \A w \in U : w.msg = u.msg => w = u
    BY Zenon, <1>3, <2>1 DEF LogOrdered
  <2>3. CASE u.tag <= t
    <3>1. u \in V /\ \A w \in V : w.msg \in Nat /\ u.msg <= w.msg /\ (w.msg = u.msg => w = u)
      BY Zenon, <1>2, <1>3, <2>1, <2>2, <2>3
    <3> HIDE DEF V
    <3>2. Oldest(V) = u
      <4> HIDE DEF u
      <4> QED BY Zenon, <3>1, OldestUnique
    <3> QED BY Zenon, <1>5, <3>1, <3>2 DEF Reverted, V
  <2>4. CASE u.tag > t
    <3> HIDE DEF u
    <3>1. V = {}
      <4> SUFFICES ASSUME NEW w \in V PROVE FALSE
        BY Zenon
      <4>1. w \in U /\ w.tag <= t /\ w \in vol.undo /\ u \in vol.undo
        BY Zenon, <1>3, <2>1
      <4>2. u.msg < w.msg
        BY <1>2, <2>1, <2>2, <2>4, <4>1
      <4>3. u.tag <= w.tag
        BY Zenon, <4>1, <4>2 DEF LogOrdered
      <4> QED BY <1>2, <2>4, <4>1, <4>3
    <3>2. LET W == UndoAfter(vol, t) IN
            u \in W /\ \A w \in W : w.msg \in Nat /\ u.msg <= w.msg /\ (w.msg = u.msg => w = u)
      BY <1>2, <1>3, <2>1, <2>2, <2>4 DEF UndoAfter
    <3>3. Oldest(UndoAfter(vol, t)) = u
      BY Zenon, <3>2, OldestUnique
    <3>4. r.files = u.before
      BY Zenon, <1>1, <3>2, <3>3 DEF Reverted
    <3> QED BY Zenon, <1>5, <3>1, <3>4 DEF Reverted, u
  <2> QED BY <1>2, <1>3, <2>1, <2>3, <2>4
<1> QED BY Zenon, <1>4, <1>5

\* A turn does not change what a snapshot brings back: its undo entry is the newest.
LEMMA TurnKeepsSnapshots ==
  ASSUME DataOK, LogOrdered, vol.enabled, NEW n \in Nat, 0 < n, n < vol.next, NEW top \in BOOLEAN
  PROVE  Reverted(Written(vol, written + 1, top), n) = Reverted(vol, n)
<1> DEFINE m == written + 1
           v == Written(vol, m, top)
           e == [msg |-> m, tag |-> vol.next, before |-> vol.files, top |-> top]
<1> SUFFICES Reverted(v, n) = Reverted(vol, n)
  BY Zenon
<1>1. CASE vol.mount # "live"
  BY Zenon, <1>1 DEF Written
<1>2. CASE vol.mount = "live"
  <2>1. v.files = m /\ v.undo = vol.undo \cup {e}
    BY <1>2 DEF Written, DataOK, Volume
  <2>2. e.msg = m /\ e.tag > n /\ e.before = vol.files
    BY Zenon DEF DataOK, Volume
  <2> HIDE DEF v, e
  <2>3. UndoAfter(v, n) = UndoAfter(vol, n) \cup {e}
    BY Zenon, <2>1, <2>2 DEF UndoAfter
  <2>4. \A u \in vol.undo : u.msg \in Nat /\ u.msg < m
    BY DEF LogOrdered, DataOK, Volume
  <2>5. CASE UndoAfter(vol, n) = {}
    <3>1. e.msg \in Nat
      BY <2>2 DEF DataOK
    <3>2. Oldest({e}) = e
      BY <3>1, OldestIs
    <3> QED BY Zenon, <2>2, <2>3, <2>5, <3>2 DEF Reverted
  <2>6. CASE UndoAfter(vol, n) # {}
    <3> DEFINE U == UndoAfter(vol, n)
               u == Oldest(U)
    <3>1. U \subseteq vol.undo
      BY Zenon DEF UndoAfter
    <3>2. u \in U /\ \A w \in U : u.msg <= w.msg
      BY Zenon, <2>4, <2>6, <3>1, OldestIs
    <3> HIDE DEF u, U
    <3>3. \A w \in U \cup {e} : w.msg \in Nat /\ u.msg <= w.msg /\ (w.msg = u.msg => w = u)
      BY <2>2, <2>4, <3>1, <3>2 DEF LogOrdered, DataOK, Volume
    <3>4. Oldest(U \cup {e}) = u
      BY Zenon, <3>2, <3>3, OldestUnique
    <3> QED BY Zenon, <2>3, <2>6, <3>4 DEF Reverted, u, U
  <2> QED BY Zenon, <2>5, <2>6
<1> QED BY Zenon, <1>1, <1>2

-----------------------------------------------------------------------------
(* Steps that leave files, snapshots, marker and transcript alone.         *)

\* The step changes none of what pairs files and transcript: at most the mount, the
\* store's mountState, and rollback is switched on in the volume.
Same ==
  /\ store' \in [mounted: BOOLEAN, rb: Rb] /\ store'.rb = store.rb
  /\ vol' \in Volume
  /\ vol'.files = vol.files /\ vol'.undo = vol.undo
  /\ vol'.snaps = vol.snaps /\ vol'.next = vol.next
  /\ vol'.enabled = vol.enabled \/ vol'.enabled = TRUE
  /\ UNCHANGED <<chat, written, torn>>

\* All of the invariant but what it says of processes.
Data == DataOK /\ Core /\ LeftBehind /\ Together /\ MarkerOK

\* What a restore leaves, for any volume.
LEMMA RestoredFiles ==
  ASSUME NEW v \in Volume, NEW t
  PROVE  Restored(v, t).files = Reverted(v, t)
BY Zenon DEF Restored, Volume

\* A volume with other snapshots and another counter is a volume.
LEMMA SnapsType ==
  ASSUME NEW v \in Volume, NEW S \in SUBSET [id: Nat, label: Nat], NEW n \in Nat
  PROVE  [v EXCEPT !.snaps = S, !.next = n] \in Volume
BY Zenon DEF Volume

\* Such a step keeps the data in order.
LEMMA SameData ==
  ASSUME Data, Same
  PROVE  Data'
<1>1. DataOK'
  BY Zenon DEF Data, Same, DataOK
<1>2. Kept' = Kept
  BY Zenon DEF Same, Kept
<1>3. \A n : Reverted(vol', n) = Reverted(vol, n)
  BY Zenon DEF Same, Reverted, UndoAfter
<1>4. vol \in Volume /\ vol' \in Volume
  BY Zenon DEF Data, DataOK, Same
<1>5. \A s \in Kept : Restored(vol', s.id).files = Restored(vol, s.id).files
  BY <1>3, <1>4, RestoredFiles
<1>6. LogOrdered'
  BY Zenon DEF Data, Core, Same, LogOrdered
<1>7. SnapsFine'
  BY Zenon DEF Data, Core, Same, SnapsFine
<1>8. TargetsInChat' /\ SnapshotsPaired'
  BY Zenon, <1>2, <1>5 DEF Data, Core, Same, TargetsInChat, SnapshotsPaired, InChat
<1>9. LeftBehind' /\ Together'
  BY Zenon, <1>2 DEF Data, Same, LeftBehind, Together, InChat, Expected, LastMsg
<1>10. MarkerOK'
  BY Zenon, <1>2 DEF Data, Same, MarkerOK, Target, RestoredTo, InChat
<1> QED BY Zenon, <1>1, <1>6, <1>7, <1>8, <1>9, <1>10 DEF Data, Core

\* The copy of an idle process.
LEMMA OffType == Off \in Rb
BY Zenon DEF Off, Unmarked, Rb, Marker

\* Where a step takes its process.
LEMMA TakeIs ==
  ASSUME TasksOK, NEW p \in Proc, NEW s, NEW rb \in Rb, Take(p, s, rb)
  PROVE  /\ TasksOK'
         /\ task'[p].at = s
         /\ s \notin {"idle", "turn"} => task'[p].rb = rb
         /\ \A o \in Proc \ {p} : task'[o] = task[o]
<1>1. (IF s \in {"idle", "turn"} THEN Off ELSE rb) \in Rb
  BY Zenon, OffType
<1> QED BY Zenon, <1>1 DEF TasksOK, Take

\* A step of the client, its eager snapshot or reconcile, with the others idle, keeps the
\* invariant if it keeps the data and leaves its own process in order.
LEMMA AskedStep ==
  ASSUME TasksOK, NEW p \in Asked, NEW s, NEW rb \in Rb, Take(p, s, rb),
         \A o \in Asked \ {p} : At(o, "idle"), Data', ProcOK(p)'
  PROVE  RInv'
<1>1. /\ TasksOK' /\ task'[p].at = s
      /\ \A o \in Proc \ {p} : task'[o] = task[o]
  BY TakeIs DEF Asked, Proc
<1>2. \A o \in Asked \ {p} : task'[o].at = "idle"
  BY Zenon, <1>1 DEF At, Asked, Proc
<1>3. OneActive'
  BY Zenon, <1>2 DEF OneActive, At
<1>4. \A o \in Asked \ {p} : ProcOK(o)'
  BY Zenon, <1>2 DEF ProcOK, Phases, ToRestore, ToCut, ToMark, ToMount, Unmarking
<1> QED BY Zenon, <1>1, <1>3, <1>4 DEF RInv, Data

\* A step that no process of the client takes part in, and that changes no data, keeps it.
LEMMA AsideStep ==
  ASSUME RInv, Same, TasksOK', \A o \in Asked : task'[o] = task[o]
  PROVE  RInv'
<1>1. Data'
  BY Zenon, SameData DEF RInv, Data
<1>2. OneActive'
  BY Zenon DEF RInv, OneActive, At
<1>3. Kept' = Kept
  BY Zenon DEF Same, Kept
<1>4. ASSUME NEW o \in Asked PROVE ProcOK(o)'
  <2>1. ProcOK(o) /\ task'[o] = task[o]
    BY Zenon DEF RInv
  <2> QED BY Zenon, <1>3, <2>1 DEF ProcOK, Same, Target, RestoredTo, InChat
<1> QED BY Zenon, <1>1, <1>2, <1>4 DEF RInv, Data

\* The calls and patches that leave it alone.
LEMMA SameIf ==
  ASSUME DataOK,
         vol' \in {vol, Mounted(vol), Unmounted(vol), [vol EXCEPT !.mount = "dead"],
                   [vol EXCEPT !.enabled = TRUE]},
         store' \in {store, [store EXCEPT !.mounted = TRUE], [store EXCEPT !.mounted = FALSE]},
         UNCHANGED <<chat, written, torn>>
  PROVE  Same
<1>1. store' \in [mounted: BOOLEAN, rb: Rb] /\ store'.rb = store.rb
  BY Zenon DEF DataOK
<1>2. /\ vol' \in Volume
      /\ vol'.files = vol.files /\ vol'.undo = vol.undo
      /\ vol'.snaps = vol.snaps /\ vol'.next = vol.next
      /\ vol'.enabled = vol.enabled \/ vol'.enabled = TRUE
  BY ZenonT(60) DEF DataOK, Volume, Mounted, Unmounted
<1> QED BY Zenon, <1>1, <1>2 DEF Same

\* While one of the three is at work, the others are idle.
LEMMA OthersIdle ==
  ASSUME RInv, NEW p \in Asked, Free \/ ~At(p, "idle")
  PROVE  \A o \in Asked \ {p} : At(o, "idle")
BY Zenon DEF RInv, OneActive, Free, Asked

\* A step with no change of data, to a step that the invariant says nothing of.
LEMMA QuietStep ==
  ASSUME RInv, Same, NEW p \in Asked, NEW s, s \notin Phases \cup Unmarking,
         NEW rb \in Rb, Take(p, s, rb), Free \/ ~At(p, "idle")
  PROVE  RInv'
<1>1. \A o \in Asked \ {p} : At(o, "idle")
  BY Zenon, OthersIdle
<1>2. task'[p].at = s
  BY TakeIs DEF RInv, Asked, Proc
<1>3. ProcOK(p)'
  BY Zenon, <1>2 DEF ProcOK, Phases, ToRestore, ToMark, Unmarking
<1>4. TasksOK /\ Data'
  BY Zenon, SameData DEF RInv, Data
<1> QED BY Zenon, <1>1, <1>3, <1>4, AskedStep

\* A step with no change of data, to a step that the invariant says something of.
LEMMA MoveStep ==
  ASSUME RInv, Same, NEW p \in Asked, NEW s, NEW rb \in Rb, Take(p, s, rb),
         Free \/ ~At(p, "idle"), ProcOK(p)'
  PROVE  RInv'
<1>1. \A o \in Asked \ {p} : At(o, "idle")
  BY Zenon, OthersIdle
<1>2. TasksOK /\ Data'
  BY Zenon, SameData DEF RInv, Data
<1> QED BY Zenon, <1>1, <1>2, AskedStep

\* The steps after which a process has nothing to do with a rollback.
Apart == {"idle", "hook", "automount", "automounted", "turn", "list", "load"}

\* The same for a process that keeps its copy.
LEMMA QuietGo ==
  ASSUME RInv, Same, NEW p \in Asked, NEW s \in Apart, GoTo(p, s), Free \/ ~At(p, "idle")
  PROVE  RInv'
<1>1. task[p].rb \in Rb
  BY Zenon DEF RInv, TasksOK, Asked, Proc
<1>2. s \notin Phases \cup Unmarking
  BY Zenon DEF Apart, Phases, ToRestore, ToCut, ToMark, ToMount, Unmarking
<1>3. Take(p, s, task[p].rb)
  BY Zenon DEF GoTo
<1> QED BY Zenon, <1>1, <1>2, <1>3, QuietStep

\* Steps of a prompt that commit nothing.
LEMMA PromptStep ==
  ASSUME RInv, Prompt \/ AutoMount \/ AutoMounted \/ SnapshotNow \/ NoTurn
  PROVE  RInv'
<1>1. "client" \in Asked /\ "eager" \in Asked
  BY Zenon DEF Asked
<1>2. Same
  <2>1. DataOK
    BY Zenon DEF RInv
  <2> QED BY Zenon, <2>1, SameIf DEF Prompt, AutoMount, AutoMounted, SnapshotNow, NoTurn, Call
<1>3. CASE Prompt
  <2>1. GoTo("client", "hook") \/ GoTo("client", "automount")
    BY Zenon, <1>3 DEF Prompt
  <2>2. Free
    BY Zenon, <1>3 DEF Prompt
  <2> QED BY Zenon, <1>1, <1>2, <2>1, <2>2, QuietGo DEF Apart
<1>4. CASE AutoMount \/ AutoMounted \/ NoTurn
  <2>1. GoTo("client", "hook") \/ GoTo("client", "automounted") \/ GoTo("client", "idle")
    BY Zenon, <1>4 DEF AutoMount, AutoMounted, NoTurn, Call
  <2>2. ~At("client", "idle")
    BY Zenon, <1>4 DEF AutoMount, AutoMounted, NoTurn, At
  <2> QED BY Zenon, <1>1, <1>2, <2>1, <2>2, QuietGo DEF Apart
<1>5. CASE SnapshotNow
  <2>1. GoTo("eager", "hook") /\ Free
    BY Zenon, <1>5 DEF SnapshotNow
  <2> QED BY Zenon, <1>1, <1>2, <2>1, QuietGo DEF Apart
<1> QED BY Zenon, <1>3, <1>4, <1>5

\* The hook takes a snapshot only when no rollback is marked and there is a message.
LEMMA HookLoadStep ==
  ASSUME RInv, NEW p \in {"client", "eager"}, HookLoad(p)
  PROVE  RInv'
<1>1. p \in Asked /\ p # "boot" /\ p \in Proc
  BY Zenon DEF Asked, Proc
<1>2. DataOK /\ TasksOK /\ store.rb \in Rb
  BY Zenon DEF RInv, DataOK
<1>3. Same
  BY Zenon, <1>2, SameIf DEF HookLoad
<1>4. ~At(p, "idle")
  BY Zenon DEF HookLoad, At
<1>5. CASE store.rb.enabled /\ ~store.rb.marker.on /\ LastMsg \notin {0, store.rb.last}
  <2>1. Take(p, "commit", store.rb)
    BY Zenon, <1>5 DEF HookLoad
  <2>2. task'[p].at = "commit" /\ task'[p].rb = store.rb
    BY <1>1, <1>2, <2>1, TakeIs
  <2>3. DOMAIN chat' # {}
    BY Zenon, <1>5 DEF LastMsg, HookLoad
  <2>4. store' = store
    BY Zenon DEF HookLoad
  <2>5. ProcOK(p)'
    BY Zenon, <1>1, <1>5, <2>2, <2>3, <2>4 DEF ProcOK, Phases, ToRestore, ToCut, ToMark, ToMount
  <2> QED BY Zenon, <1>1, <1>2, <1>3, <1>4, <2>1, <2>5, MoveStep
<1>6. CASE ~(store.rb.enabled /\ ~store.rb.marker.on /\ LastMsg \notin {0, store.rb.last})
  <2>1. Take(p, Hooked(p), store.rb)
    BY Zenon, <1>6 DEF HookLoad
  <2>2. Hooked(p) \notin Phases \cup Unmarking
    BY Zenon DEF Hooked, Phases, ToRestore, ToCut, ToMark, ToMount, Unmarking
  <2> QED BY Zenon, <1>1, <1>2, <1>3, <1>4, <2>1, <2>2, QuietStep
<1> QED BY Zenon, <1>5, <1>6

-----------------------------------------------------------------------------
(* Snapshots are taken.                                                    *)

\* The commit of a new label keeps the data in order while no rollback is marked: the new
\* snapshot pairs the files with the last message, and no other has that label.
LEMMA CommitData ==
  ASSUME Data, ~store.rb.marker.on, DOMAIN chat # {}, Committable(vol, LastMsg),
         vol' = Committed(vol, LastMsg), UNCHANGED <<store, chat, written, torn>>
  PROVE  Data'
<1>1. LastMsg \in DOMAIN chat /\ \A x \in DOMAIN chat : x <= LastMsg
  BY Zenon, LastIs DEF Data
<1>2. DataOK /\ vol \in Volume /\ LastMsg \in Nat /\ LastMsg <= written /\ DOMAIN chat \subseteq Nat
  BY <1>1 DEF Data, DataOK
<1>3. CASE \E s \in vol.snaps : s.label = LastMsg
  <2>1. vol' = vol
    BY Zenon, <1>3 DEF Committed
  <2>2. Same
    BY Zenon, <1>2, <2>1, SameIf
  <2> QED BY Zenon, <2>2, SameData
<1>4. CASE ~\E s \in vol.snaps : s.label = LastMsg
  <2> DEFINE new == [id |-> vol.next, label |-> LastMsg]
  <2>1. /\ vol'.snaps = vol.snaps \cup {new} /\ vol'.next = vol.next + 1
        /\ vol'.files = vol.files /\ vol'.undo = vol.undo /\ vol'.enabled = vol.enabled
    BY Zenon, <1>2, <1>4 DEF Committed, NewSnap, Volume
  <2>2. /\ vol.next \in Nat /\ vol.next > 0 /\ vol.enabled = TRUE
        /\ \A s \in vol.snaps : s.id \in Nat /\ s.label \in Nat /\ s.id # vol.next
    BY Zenon, <1>2, <1>4 DEF Volume, Committable, Data, Core, SnapsFine
  <2>3. new \in [id: Nat, label: Nat] /\ new.id = vol.next /\ new.label = LastMsg
    BY Zenon, <1>2, <2>2
  <2>4. vol' \in Volume
    <3> DEFINE S == vol.snaps \cup {new}
    <3>1. vol' = [vol EXCEPT !.snaps = S, !.next = vol.next + 1]
      BY Zenon, <1>4 DEF Committed, NewSnap
    <3>2. S \in SUBSET [id: Nat, label: Nat]
      BY Zenon, <1>2, <2>3 DEF Volume
    <3> HIDE DEF S
    <3>3. vol.next + 1 \in Nat /\ vol \in Volume
      BY <1>2, <2>2
    <3>4. [vol EXCEPT !.snaps = S, !.next = vol.next + 1] \in Volume
      BY Zenon, <3>2, <3>3, SnapsType, Zenon
    <3> QED BY Zenon, <3>1, <3>4, Zenon
  <2> HIDE DEF new
  <2>5. DataOK'
    BY Zenon, <1>2, <2>4 DEF DataOK
  <2>6. Kept' = Kept \cup {new}
    BY <2>1, <2>2, <2>3 DEF Kept, Data, Core, SnapsFine
  <2>7. LogOrdered'
    BY <1>2, <2>1, <2>2 DEF Data, Core, LogOrdered, Volume
  <2>8. SnapsFine'
    BY <1>2, <2>1, <2>2, <2>3 DEF Data, Core, SnapsFine
  <2>9. TargetsInChat'
    <3>1. \A s \in Kept : s.id < new.id /\ s.label < new.label /\ InChat(s.label)
      BY <1>1, <1>2, <1>4, <2>2, <2>3 DEF Data, Core, TargetsInChat, Kept, InChat
    <3>2. \A s, t \in Kept : s.id < t.id => s.label < t.label
      BY Zenon DEF Data, Core, TargetsInChat
    <3>3. \A s \in Kept' : s.label \in DOMAIN chat'
      BY Zenon, <1>1, <2>3, <2>6, <3>1 DEF InChat
    <3>4. ASSUME NEW s \in Kept', NEW t \in Kept', s.id < t.id PROVE s.label < t.label
      <4>1. \A u \in Kept : u.id \in Nat
        BY Zenon, <2>2 DEF Kept
      <4> QED BY <2>2, <2>3, <2>6, <3>1, <3>2, <3>4, <4>1
    <3> QED BY Zenon, <3>3, <3>4 DEF TargetsInChat, InChat
  <2>10. \A n : Reverted(vol', n) = Reverted(vol, n)
    BY Zenon, <2>1 DEF Reverted, UndoAfter
  <2>11. SnapshotsPaired'
    <3>1. CASE torn
      BY Zenon, <3>1 DEF SnapshotsPaired
    <3>2. CASE ~torn
      <4>1. UndoAfter(vol, new.id) = {}
        BY <1>2, <2>2, <2>3 DEF UndoAfter, Data, Core, LogOrdered, Volume
      <4>2. Reverted(vol, new.id) = vol.files
        BY Zenon, <4>1 DEF Reverted
      <4>3. vol.files = chat[new.label]
        BY Zenon, <3>2, <2>3 DEF Data, Together, Expected
      <4>4. \A s \in Kept : Restored(vol, s.id).files = chat[s.label]
        BY Zenon, <3>2 DEF Data, Core, SnapshotsPaired, TargetsInChat
      <4>5. \A s \in Kept : Reverted(vol, s.id) = chat[s.label]
        BY Zenon, <1>2, <4>4, RestoredFiles
      <4>6. \A s \in Kept' : Reverted(vol', s.id) = chat'[s.label]
        BY Zenon, <2>6, <2>10, <4>2, <4>3, <4>5
      <4>7. \A s \in Kept' : Restored(vol', s.id).files = chat'[s.label]
        BY Zenon, <2>4, <4>6, RestoredFiles
      <4> QED BY Zenon, <4>7 DEF SnapshotsPaired
    <3> QED BY Zenon, <3>1, <3>2
  <2>12. LeftBehind'
    <3>1. \A s \in vol'.snaps \ Kept' : s \in vol.snaps \ Kept
      BY Zenon, <2>1, <2>6
    <3> QED BY Zenon, <3>1 DEF Data, LeftBehind, InChat
  <2>13. Together'
    BY Zenon, <2>1 DEF Data, Together, Expected, LastMsg
  <2>14. MarkerOK'
    BY Zenon DEF MarkerOK
  <2> QED BY Zenon, <2>5, <2>7, <2>8, <2>9, <2>11, <2>12, <2>13, <2>14 DEF Data, Core
<1> QED BY Zenon, <1>3, <1>4

\* A step that keeps the data in order and takes its process apart from any rollback.
LEMMA RestGo ==
  ASSUME RInv, Data', NEW p \in Asked, NEW s \in Apart, GoTo(p, s), ~At(p, "idle")
  PROVE  RInv'
<1>1. \A o \in Asked \ {p} : At(o, "idle")
  BY Zenon, OthersIdle
<1>2. TasksOK /\ task[p].rb \in Rb /\ Take(p, s, task[p].rb) /\ p \in Proc
  BY Zenon DEF RInv, TasksOK, Asked, Proc, GoTo
<1>3. task'[p].at = s
  BY Zenon, <1>2, TakeIs
<1>4. ProcOK(p)'
  BY Zenon, <1>3 DEF ProcOK, Apart, Phases, ToRestore, ToCut, ToMark, ToMount, Unmarking
<1> QED BY Zenon, <1>1, <1>2, <1>4, AskedStep

\* snapshot.commit, answered or not.
LEMMA HookCommitStep ==
  ASSUME RInv, NEW p \in {"client", "eager"}, HookCommit(p)
  PROVE  RInv'
<1>1. p \in Asked /\ p \in Proc /\ ~At(p, "idle") /\ p # "boot"
  BY Zenon DEF Asked, Proc, HookCommit, At
<1>2. DataOK /\ TasksOK /\ task[p].rb \in Rb /\ Data
  BY Zenon, <1>1 DEF RInv, Data, TasksOK
<1>3. ProcOK(p) /\ task[p].at = "commit"
  BY Zenon, <1>1 DEF RInv, HookCommit, At
<1>4. ~store.rb.marker.on /\ ~task[p].rb.marker.on /\ DOMAIN chat # {}
  BY Zenon, <1>3 DEF ProcOK, Unmarking
<1>5. Hooked(p) \in Apart
  BY Zenon DEF Hooked, Apart
<1>6. UNCHANGED <<store, chat, written, torn>>
  BY Zenon DEF HookCommit
<1>7. CASE vol' = vol /\ GoTo(p, Hooked(p))
  <2>1. Same
    BY Zenon, <1>2, <1>6, <1>7, SameIf
  <2> QED BY Zenon, <1>1, <1>5, <1>7, <2>1, QuietGo
<1>8. CASE Committable(vol, LastMsg) /\ vol' = Committed(vol, LastMsg)
  <2>1. Data'
    BY Zenon, <1>2, <1>4, <1>6, <1>8, CommitData
  <2>2. CASE GoTo(p, Hooked(p))
    BY Zenon, <1>1, <1>5, <2>1, <2>2, RestGo
  <2>3. CASE GoTo(p, "committed")
    <3>1. Take(p, "committed", task[p].rb)
      BY Zenon, <2>3 DEF GoTo
    <3>2. task'[p].at = "committed" /\ task'[p].rb = task[p].rb
      BY <1>1, <1>2, <3>1, TakeIs
    <3>3. ProcOK(p)'
      BY Zenon, <1>1, <1>4, <1>6, <3>2 DEF ProcOK, Phases, ToRestore, ToCut, ToMark, ToMount
    <3>4. \A o \in Asked \ {p} : At(o, "idle")
      BY Zenon, <1>1, OthersIdle
    <3> QED BY Zenon, <1>1, <1>2, <2>1, <3>1, <3>3, <3>4, AskedStep
  <2> QED BY Zenon, <1>8, <2>2, <2>3 DEF HookCommit, Call
<1> QED BY Zenon, <1>7, <1>8 DEF HookCommit, Call

\* A patch that leaves no rollback marked where none was.
LEMMA UnmarkedPatch ==
  ASSUME Data, ~store.rb.marker.on, store' \in [mounted: BOOLEAN, rb: Rb],
         ~store'.rb.marker.on, UNCHANGED <<vol, chat, written, torn>>
  PROVE  Data'
<1>1. DataOK'
  BY Zenon DEF Data, DataOK
<1>2. Kept' = Kept
  BY Zenon DEF Kept
<1>3. Core'
  BY Zenon, <1>2 DEF Data, Core, LogOrdered, SnapsFine, TargetsInChat, SnapshotsPaired, InChat
<1>4. LeftBehind' /\ Together' /\ MarkerOK'
  BY Zenon, <1>2 DEF Data, LeftBehind, Together, MarkerOK, InChat, Expected, LastMsg
<1> QED BY Zenon, <1>1, <1>3, <1>4 DEF Data

\* The hook writes down which message it snapshotted.
LEMMA HookPatchStep ==
  ASSUME RInv, NEW p \in {"client", "eager"}, HookPatch(p)
  PROVE  RInv'
<1>1. p \in Asked /\ p \in Proc /\ ~At(p, "idle")
  BY Zenon DEF Asked, Proc, HookPatch, At
<1>2. DataOK /\ task[p].rb \in Rb /\ Data
  BY Zenon, <1>1 DEF RInv, Data, TasksOK
<1>3. ProcOK(p) /\ task[p].at = "committed"
  BY Zenon, <1>1 DEF RInv, HookPatch, At
<1>4. ~store.rb.marker.on /\ ~task[p].rb.marker.on
  BY Zenon, <1>3 DEF ProcOK, Unmarking
<1>5. LastMsg \in Nat
  <2>1. CASE DOMAIN chat = {}
    BY Zenon, <2>1 DEF LastMsg
  <2>2. CASE DOMAIN chat # {}
    BY <1>2, <2>2, LastIs DEF DataOK
  <2> QED BY Zenon, <2>1, <2>2
<1>6. [task[p].rb EXCEPT !.last = LastMsg] \in Rb
  BY Zenon, <1>2, <1>5 DEF Rb
<1>7. store' \in [mounted: BOOLEAN, rb: Rb] /\ ~store'.rb.marker.on
  BY Zenon, <1>2, <1>4, <1>6 DEF HookPatch, Patch, DataOK, Rb
<1>8. Data'
  BY Zenon, <1>2, <1>4, <1>7, UnmarkedPatch DEF HookPatch
<1>9. GoTo(p, Hooked(p)) /\ Hooked(p) \in Apart
  BY Zenon DEF HookPatch, Hooked, Apart
<1> QED BY Zenon, <1>1, <1>8, <1>9, RestGo

-----------------------------------------------------------------------------
(* The switch.                                                             *)

\* setEnabled begins.
LEMMA SetEnabledStep ==
  ASSUME RInv, NEW on \in BOOLEAN, SetEnabled(on)
  PROVE  RInv'
<1>1. "client" \in Asked /\ "client" \in Proc
  BY Zenon DEF Asked, Proc
<1>2. DataOK /\ TasksOK /\ store.rb \in Rb
  BY Zenon DEF RInv, DataOK
<1>3. Same
  BY Zenon, <1>2, SameIf DEF SetEnabled
<1> DEFINE s == IF on THEN "enable" ELSE "disable"
<1>4. Free /\ ~store.rb.marker.on /\ Take("client", s, store.rb) /\ store' = store
  BY Zenon DEF SetEnabled
<1>5. s \in {"enable", "disable"}
  BY Zenon
<1> HIDE DEF s
<1>6. task'["client"].at = s /\ task'["client"].rb = store.rb
  BY <1>1, <1>2, <1>4, <1>5, TakeIs
<1>7. ProcOK("client")'
  BY Zenon, <1>4, <1>5, <1>6 DEF ProcOK, Phases, ToRestore, ToCut, ToMark, ToMount
<1> QED BY Zenon, <1>1, <1>2, <1>3, <1>4, <1>7, MoveStep

\* snapshot.enable, answered or not.
LEMMA EnableStep ==
  ASSUME RInv, EnableCall
  PROVE  RInv'
<1>1. "client" \in Asked /\ "client" \in Proc /\ ~At("client", "idle")
  BY Zenon DEF Asked, Proc, EnableCall, At
<1>2. DataOK /\ TasksOK /\ task["client"].rb \in Rb
  BY Zenon, <1>1 DEF RInv, TasksOK
<1>3. Same
  BY Zenon, <1>2, SameIf DEF EnableCall, Call
<1>4. ProcOK("client") /\ task["client"].at = "enable"
  BY Zenon, <1>1 DEF RInv, EnableCall, At
<1>5. ~store.rb.marker.on /\ ~task["client"].rb.marker.on
  BY Zenon, <1>4 DEF ProcOK, Unmarking
<1>6. CASE GoTo("client", "idle")
  BY Zenon, <1>1, <1>3, <1>6, QuietGo DEF Apart
<1>7. CASE GoTo("client", "enabled")
  <2>1. Take("client", "enabled", task["client"].rb)
    BY Zenon, <1>7 DEF GoTo
  <2>2. task'["client"].at = "enabled" /\ task'["client"].rb = task["client"].rb
    BY <1>1, <1>2, <2>1, TakeIs
  <2>3. ProcOK("client")'
    BY Zenon, <1>3, <1>5, <2>2 DEF ProcOK, Phases, ToRestore, ToCut, ToMark, ToMount, Same
  <2> QED BY Zenon, <1>1, <1>2, <1>3, <2>1, <2>3, MoveStep
<1> QED BY Zenon, <1>6, <1>7 DEF EnableCall, Call

\* snapshot.disable forgets snapshots and undo log, which nothing marked needs.
LEMMA DisabledData ==
  ASSUME Data, ~store.rb.marker.on, vol' = Disabled(vol), UNCHANGED <<store, chat, written, torn>>
  PROVE  Data'
<1>1. vol \in Volume
  BY Zenon DEF Data, DataOK
<1>2. /\ vol'.files = vol.files /\ vol'.undo = {} /\ vol'.snaps = {} /\ vol'.next = 1
      /\ vol' \in Volume
  BY Zenon, <1>1 DEF Disabled, Volume
<1>3. DataOK'
  BY Zenon, <1>2 DEF Data, DataOK
<1>4. Kept' = {}
  BY Zenon, <1>2 DEF Kept
<1>5. Core'
  BY <1>2, <1>4 DEF Core, LogOrdered, SnapsFine, TargetsInChat, SnapshotsPaired
<1>6. LeftBehind' /\ Together' /\ MarkerOK'
  BY Zenon, <1>2, <1>4 DEF Data, LeftBehind, Together, MarkerOK, Expected, LastMsg
<1> QED BY Zenon, <1>3, <1>5, <1>6 DEF Data

\* snapshot.disable, answered or not.
LEMMA DisableStep ==
  ASSUME RInv, DisableCall
  PROVE  RInv'
<1>1. "client" \in Asked /\ "client" \in Proc /\ ~At("client", "idle")
  BY Zenon DEF Asked, Proc, DisableCall, At
<1>2. DataOK /\ TasksOK /\ task["client"].rb \in Rb /\ Data
  BY Zenon, <1>1 DEF RInv, TasksOK, Data
<1>3. ProcOK("client") /\ task["client"].at = "disable"
  BY Zenon, <1>1 DEF RInv, DisableCall, At
<1>4. ~store.rb.marker.on /\ ~task["client"].rb.marker.on
  BY Zenon, <1>3 DEF ProcOK, Unmarking
<1>5. UNCHANGED <<store, chat, written, torn>>
  BY Zenon DEF DisableCall
<1>6. Data'
  <2>1. CASE vol' = vol
    <3>1. Same
      BY Zenon, <1>2, <1>5, <2>1, SameIf
    <3> QED BY Zenon, <1>2, <3>1, SameData
  <2>2. CASE vol' = Disabled(vol)
    BY Zenon, <1>2, <1>4, <1>5, <2>2, DisabledData
  <2> QED BY Zenon, <2>1, <2>2 DEF DisableCall, Call
<1>7. CASE GoTo("client", "idle")
  BY Zenon, <1>1, <1>6, <1>7, RestGo DEF Apart
<1>8. CASE GoTo("client", "disabled")
  <2>1. Take("client", "disabled", task["client"].rb)
    BY Zenon, <1>8 DEF GoTo
  <2>2. task'["client"].at = "disabled" /\ task'["client"].rb = task["client"].rb
    BY <1>1, <1>2, <2>1, TakeIs
  <2>3. ProcOK("client")'
    BY Zenon, <1>4, <1>5, <2>2 DEF ProcOK, Phases, ToRestore, ToCut, ToMark, ToMount
  <2>4. \A o \in Asked \ {"client"} : At(o, "idle")
    BY Zenon, <1>1, OthersIdle
  <2> QED BY Zenon, <1>1, <1>2, <1>6, <2>1, <2>3, <2>4, AskedStep
<1> QED BY Zenon, <1>7, <1>8 DEF DisableCall, Call

\* The patch at the end of setEnabled.
LEMMA SwitchPatchStep ==
  ASSUME RInv, SwitchPatch
  PROVE  RInv'
<1>1. "client" \in Asked /\ "client" \in Proc /\ ~At("client", "idle")
  BY Zenon DEF Asked, Proc, SwitchPatch, At
<1>2. DataOK /\ task["client"].rb \in Rb /\ Data
  BY Zenon, <1>1 DEF RInv, TasksOK, Data
<1>3. ProcOK("client") /\ task["client"].at \in {"enabled", "disabled"}
  BY Zenon, <1>1 DEF RInv, SwitchPatch, At
<1>4. ~store.rb.marker.on /\ ~task["client"].rb.marker.on
  BY Zenon, <1>3 DEF ProcOK, Unmarking
<1>5. store' \in [mounted: BOOLEAN, rb: Rb] /\ ~store'.rb.marker.on
  <2>1. CASE Patch([task["client"].rb EXCEPT !.enabled = TRUE])
    BY Zenon, <1>2, <1>4, <2>1 DEF Patch, DataOK, Rb
  <2>2. CASE Patch(Off)
    <3>1. ~Off.marker.on
      BY Zenon DEF Off, Unmarked
    <3> QED BY Zenon, <1>2, <2>2, <3>1, OffType DEF Patch, DataOK
  <2> QED BY Zenon, <2>1, <2>2 DEF SwitchPatch
<1>6. Data'
  BY Zenon, <1>2, <1>4, <1>5, UnmarkedPatch DEF SwitchPatch
<1>7. GoTo("client", "idle")
  BY Zenon DEF SwitchPatch
<1> QED BY Zenon, <1>1, <1>6, <1>7, RestGo DEF Apart

-----------------------------------------------------------------------------
(* The agent works.                                                        *)

\* A turn on a live mount writes the files of its message, and logs what was there.
LEMMA WrittenIs ==
  ASSUME DataOK, NEW top \in BOOLEAN
  PROVE  LET m == written + 1
             v == Written(vol, m, top)
             e == [msg |-> m, tag |-> vol.next, before |-> vol.files, top |-> top]
         IN  /\ v \in Volume
             /\ v.snaps = vol.snaps /\ v.next = vol.next /\ v.enabled = vol.enabled
             /\ vol.mount # "live" => v = vol
             /\ v.undo = vol.undo \/ v.undo = vol.undo \cup {e}
<1> DEFINE m == written + 1
           v == Written(vol, m, top)
           e == [msg |-> m, tag |-> vol.next, before |-> vol.files, top |-> top]
           U == vol.undo \cup {e}
<1>1. vol \in Volume /\ m \in Nat
  BY DEF DataOK
<1>2. e \in [msg: Nat, tag: Nat, before: Nat, top: BOOLEAN]
  BY Zenon, <1>1 DEF Volume
<1>3. U \in SUBSET [msg: Nat, tag: Nat, before: Nat, top: BOOLEAN]
  BY Zenon, <1>1, <1>2 DEF Volume
<1>4. v \in {vol, [vol EXCEPT !.files = m, !.undo = U], [vol EXCEPT !.files = m, !.undo = vol.undo]}
  BY Zenon DEF Written
<1>5. vol.mount # "live" => v = vol
  BY Zenon DEF Written
<1> SUFFICES /\ v \in Volume
             /\ v.snaps = vol.snaps /\ v.next = vol.next /\ v.enabled = vol.enabled
             /\ vol.mount # "live" => v = vol
             /\ v.undo = vol.undo \/ v.undo = U
  BY Zenon
<1> HIDE DEF m, v, U
<1> QED BY Zenon, <1>1, <1>3, <1>4, <1>5 DEF Volume

\* A turn keeps the data in order: the new message is the last and has the volume's files,
\* whatever state a rollback has been left in.
LEMMA TurnData ==
  ASSUME Data, NEW top \in BOOLEAN, Turn(top)
  PROVE  Data'
<1> DEFINE m == written + 1
           e == [msg |-> m, tag |-> vol.next, before |-> vol.files, top |-> top]
<1>1. DataOK /\ vol \in Volume /\ m \in Nat /\ written \in Nat /\ written < m
  BY DEF Data, DataOK
<1>2. /\ vol' = Written(vol, m, top) /\ written' = m /\ store' = store
      /\ chat' = [x \in DOMAIN chat \cup {m} |-> IF x = m THEN vol'.files ELSE chat[x]]
      /\ torn' = (torn \/ (vol.mount = "live" /\ store.rb.marker.fs /\ ~store.rb.marker.jsonl))
  BY Zenon DEF Turn
<1>3. /\ vol' \in Volume
      /\ vol'.snaps = vol.snaps /\ vol'.next = vol.next /\ vol'.enabled = vol.enabled
      /\ vol.mount # "live" => vol' = vol
      /\ vol'.undo = vol.undo \/ vol'.undo = vol.undo \cup {e}
  BY Zenon, <1>1, <1>2, WrittenIs
<1>4. /\ DOMAIN chat \subseteq 1 .. written /\ DOMAIN chat \subseteq Nat
      /\ \A x \in DOMAIN chat : x < m /\ chat[x] \in Nat
  BY <1>1 DEF DataOK
<1>5. /\ DOMAIN chat' = DOMAIN chat \cup {m} /\ chat'[m] = vol'.files
      /\ \A x \in DOMAIN chat : chat'[x] = chat[x]
  BY <1>2, <1>4
<1>6. DataOK'
  <2>1. vol'.files \in Nat /\ torn' \in BOOLEAN /\ store' \in [mounted: BOOLEAN, rb: Rb]
    <3>1. torn' \in BOOLEAN
      BY Zenon, <1>2
    <3> QED BY Zenon, <1>1, <1>2, <1>3, <3>1 DEF DataOK, Volume
  <2>2. DOMAIN chat' \subseteq 1 .. written' /\ \A x \in DOMAIN chat' : chat'[x] \in Nat
    BY <1>1, <1>2, <1>4, <1>5, <2>1
  <2> QED BY Zenon, <1>1, <1>2, <1>3, <2>1, <2>2 DEF DataOK
<1>7. Kept' = Kept
  BY Zenon, <1>3 DEF Kept
<1>8. e.msg = m /\ e.tag = vol.next
  BY Zenon
<1> HIDE DEF e
<1>9. LogOrdered'
  <2>1. \A u \in vol.undo : u.msg \in Nat /\ u.tag \in Nat /\ u.tag <= vol.next /\ u.msg < m
    BY <1>1 DEF Data, Core, LogOrdered, Volume
  <2>2. \A u, w \in vol.undo : /\ u.msg < w.msg => u.tag <= w.tag
                               /\ u.msg = w.msg => u = w
    BY Zenon DEF Data, Core, LogOrdered
  <2>3. vol.next \in Nat
    BY Zenon, <1>1 DEF Volume
  <2>4. \A u \in vol'.undo : u \in vol.undo \/ u = e
    BY Zenon, <1>3
  <2>5. \A u \in vol'.undo : u.tag <= vol'.next /\ u.msg <= written'
    BY <1>1, <1>2, <1>3, <1>8, <2>1, <2>3, <2>4
  <2>6. \A u, w \in vol'.undo : /\ u.msg < w.msg => u.tag <= w.tag
                                /\ u.msg = w.msg => u = w
    BY <1>1, <1>8, <2>1, <2>2, <2>3, <2>4
  <2> QED BY Zenon, <2>5, <2>6 DEF LogOrdered
<1>10. SnapsFine'
  BY <1>1, <1>2, <1>3 DEF Data, Core, SnapsFine, Volume
<1>11. TargetsInChat'
  BY Zenon, <1>5, <1>7 DEF Data, Core, TargetsInChat, InChat
<1>12. SnapshotsPaired'
  <2> SUFFICES ASSUME ~torn', NEW s \in Kept'
               PROVE  Restored(vol', s.id).files = chat'[s.label]
    BY Zenon DEF SnapshotsPaired
  <2>1. ~torn /\ s \in Kept /\ s.id \in Nat /\ s.id > 0 /\ s.id < vol.next /\ vol.enabled
    BY Zenon, <1>1, <1>2, <1>7 DEF Kept, Volume, Data, Core, SnapsFine
  <2>2. s.label \in DOMAIN chat
    BY Zenon, <2>1 DEF Data, Core, TargetsInChat, InChat
  <2>3. Restored(vol, s.id).files = chat[s.label]
    BY Zenon, <2>1, <2>2 DEF Data, Core, SnapshotsPaired, InChat
  <2>4. Reverted(vol', s.id) = Reverted(vol, s.id)
    BY Zenon, <1>1, <1>2, <2>1, TurnKeepsSnapshots DEF Data, Core
  <2> QED BY <1>1, <1>3, <1>5, <2>2, <2>3, <2>4, RestoredFiles
<1>13. LeftBehind'
  <2>1. \A s \in vol.snaps : s.label \in Nat /\ s.label # m
    BY <1>1 DEF Data, Core, SnapsFine, Volume
  <2> QED BY Zenon, <1>2, <1>3, <1>5, <1>7, <2>1 DEF Data, LeftBehind, InChat
<1>14. Together'
  <2>1. DOMAIN chat' \in SUBSET Nat /\ m \in DOMAIN chat' /\ \A x \in DOMAIN chat' : x <= m
    BY <1>1, <1>4, <1>5
  <2>2. (CHOOSE y \in DOMAIN chat' : \A x \in DOMAIN chat' : x <= y) = m
    BY Zenon, <2>1, GreatestUnique
  <2> QED BY Zenon, <1>5, <2>1, <2>2 DEF Together, Expected, LastMsg
<1>15. MarkerOK'
  BY Zenon, <1>2, <1>3, <1>5, <1>7 DEF Data, MarkerOK, Target, RestoredTo, InChat
<1> QED BY Zenon, <1>6, <1>9, <1>10, <1>11, <1>12, <1>13, <1>14, <1>15 DEF Data, Core

\* A turn.
LEMMA TurnStep ==
  ASSUME RInv, NEW top \in BOOLEAN, Turn(top)
  PROVE  RInv'
<1>1. "client" \in Asked /\ ~At("client", "idle") /\ GoTo("client", "idle")
  BY Zenon DEF Asked, Turn, At
<1>2. Data'
  BY Zenon, TurnData DEF RInv, Data
<1> QED BY Zenon, <1>1, <1>2, RestGo DEF Apart

-----------------------------------------------------------------------------
(* The phases of a rollback.                                               *)

\* The restore of the marked target keeps the data in order and reaches the target.
LEMMA RestoreData ==
  ASSUME Data, store.rb.marker.on, ~store.rb.marker.fs, ~store.rb.marker.jsonl,
         vol' = Restored(vol, store.rb.marker.snap), UNCHANGED <<store, chat, written, torn>>
  PROVE  Data' /\ RestoredTo(store.rb.marker)'
<1> DEFINE k == store.rb.marker
           t == k.snap
<1>1. DataOK /\ vol \in Volume /\ t \in Nat /\ k.msg \in Nat
  BY Zenon DEF Data, DataOK, Rb, Marker
<1>2. Target(k) /\ [id |-> t, label |-> k.msg] \in Kept /\ InChat(k.msg)
  BY Zenon DEF Data, MarkerOK, Target
<1>3. t < vol.next /\ t > 0 /\ [id |-> t, label |-> k.msg] \in vol.snaps
  BY Zenon, <1>2 DEF Kept, Data, Core, SnapsFine
<1>4. /\ vol'.files = Reverted(vol, t)
      /\ vol'.undo = {u \in vol.undo : u.tag <= t}
      /\ vol'.snaps \subseteq vol.snaps
      /\ \A s \in vol.snaps : s.id <= t => s \in vol'.snaps
      /\ vol'.next = t + 1
      /\ vol'.enabled = vol.enabled /\ vol'.mount = vol.mount
  BY Zenon, <1>1, RestoredIs
<1>5. \A s \in vol.snaps : s.id \in Nat /\ s.label \in Nat
  BY Zenon, <1>1 DEF Volume
<1>6. vol' \in Volume
  <2> DEFINE S == IF \E u \in UndoAfter(vol, t) : u.top THEN {s \in vol.snaps : s.id <= t} ELSE vol.snaps
             U == vol.undo \ UndoAfter(vol, t)
             f == Reverted(vol, t)
             n == t + 1
  <2>1. vol' = [vol EXCEPT !.files = f, !.undo = U, !.snaps = S, !.next = n]
    BY Zenon DEF Restored
  <2>2. S \in SUBSET [id: Nat, label: Nat] /\ U \in SUBSET [msg: Nat, tag: Nat, before: Nat, top: BOOLEAN]
    BY Zenon, <1>1 DEF Volume
  <2>3. f \in Nat /\ n \in Nat
    BY <1>1, RevertedType
  <2> HIDE DEF S, U, f, n
  <2> QED BY Zenon, <1>1, <2>1, <2>2, <2>3 DEF Volume
<1>7. DataOK'
  BY Zenon, <1>1, <1>6 DEF DataOK
<1>8. Kept' = {s \in Kept : s.id <= t}
  BY <1>1, <1>3, <1>4, <1>5, <1>6 DEF Kept, Volume
<1>9. LogOrdered'
  BY SMTT(60), <1>1, <1>4 DEF Data, Core, LogOrdered, Volume
<1>10. SnapsFine'
  BY <1>1, <1>4 DEF Data, Core, SnapsFine
<1>11. TargetsInChat'
  BY Zenon, <1>8 DEF Data, Core, TargetsInChat, InChat
<1>12. SnapshotsPaired'
  <2> SUFFICES ASSUME ~torn', NEW s \in Kept'
               PROVE  Restored(vol', s.id).files = chat'[s.label]
    BY Zenon DEF SnapshotsPaired
  <2>1. ~torn /\ s \in Kept /\ s.id \in Nat /\ s.id <= t
    BY Zenon, <1>5, <1>8 DEF Kept
  <2>2. Restored(vol, s.id).files = chat[s.label]
    BY Zenon, <2>1 DEF Data, Core, SnapshotsPaired, TargetsInChat
  <2>3. Reverted(vol', s.id) = Reverted(vol, s.id)
    BY Zenon, <1>1, <2>1, RestoreKeepsEarlier DEF Data, Core
  <2> QED BY <1>1, <1>6, <2>2, <2>3, RestoredFiles
<1>13. LeftBehind'
  <2> SUFFICES ASSUME NEW s \in vol'.snaps \ Kept', InChat(s.label)
               PROVE  s.label > k.msg
    BY Zenon DEF LeftBehind, InChat
  <2>1. s \in vol.snaps
    BY Zenon, <1>4
  <2>2. CASE s \in Kept
    <3>1. s.id > t
      BY SMTT(60), <1>1, <1>5, <1>8, <2>1, <2>2
    <3>2. [id |-> t, label |-> k.msg].label < s.label
      BY Zenon, <1>2, <2>2, <3>1 DEF Data, Core, TargetsInChat
    <3> QED BY Zenon, <1>1, <1>5, <2>1, <3>2
  <2>3. CASE s \notin Kept
    BY Zenon, <2>1, <2>3 DEF Data, LeftBehind
  <2> QED BY Zenon, <2>2, <2>3
<1>14. RestoredTo(k)'
  <2>1. torn \/ Restored(vol, t).files = chat[k.msg]
    BY Zenon, <1>2 DEF Data, Core, SnapshotsPaired
  <2> QED BY Zenon, <1>4, <2>1 DEF RestoredTo
<1>15. Together' /\ MarkerOK'
  BY SMTT(60), <1>1, <1>2, <1>8 DEF Together, MarkerOK, Target, InChat
<1> QED BY Zenon, <1>7, <1>9, <1>10, <1>11, <1>12, <1>13, <1>14, <1>15 DEF Data, Core

\* A process at a phase works on the store's own marker.
LEMMA AtPhase ==
  ASSUME RInv, NEW p \in {"client", "boot"}, task[p].at \in Phases
  PROVE  /\ p \in Asked /\ p \in Proc /\ ~At(p, "idle") /\ p # "eager"
         /\ DataOK /\ TasksOK /\ Data /\ store.rb \in Rb
         /\ task[p].rb = store.rb /\ store.rb.marker.on
         /\ (store.rb.marker.fs <=> (task[p].at \notin ToRestore))
         /\ (store.rb.marker.jsonl <=> (task[p].at \in ToMount))
         /\ task[p].at = "restored" => RestoredTo(store.rb.marker)
         /\ task[p].at \in ToMark => \A m \in DOMAIN chat : m <= store.rb.marker.msg
         /\ \A o \in Asked \ {p} : At(o, "idle")
<1>1. p \in Asked /\ p \in Proc /\ p # "eager"
  BY Zenon DEF Asked, Proc
<1>2. task[p].at # "idle"
  BY Zenon DEF Phases, ToRestore, ToCut, ToMark, ToMount
<1>3. ~At(p, "idle")
  BY Zenon, <1>2 DEF At
<1>4. \A o \in Asked \ {p} : At(o, "idle")
  BY Zenon, <1>1, <1>3, OthersIdle
<1>5. DataOK /\ TasksOK /\ Data /\ store.rb \in Rb
  BY Zenon DEF RInv, Data, DataOK
<1>6. ProcOK(p)
  BY Zenon, <1>1 DEF RInv
<1> QED BY Zenon, <1>1, <1>3, <1>4, <1>5, <1>6 DEF ProcOK

\* From one phase to the next with no patch in between.
LEMMA NextPhase ==
  ASSUME RInv, Same, NEW p \in {"client", "boot"}, task[p].at \in Phases, NEW s \in Phases,
         GoTo(p, s),
         (task[p].at \in ToRestore) <=> (s \in ToRestore), (task[p].at \in ToMount) <=> (s \in ToMount),
         s # "restored", s \in ToMark => task[p].at \in ToMark
  PROVE  RInv'
<1>1. /\ p \in Asked /\ p \in Proc /\ ~At(p, "idle") /\ p # "eager" /\ TasksOK /\ store.rb \in Rb
      /\ task[p].rb = store.rb /\ store.rb.marker.on
      /\ (store.rb.marker.fs <=> (s \notin ToRestore))
      /\ (store.rb.marker.jsonl <=> (s \in ToMount))
      /\ s \in ToMark => \A m \in DOMAIN chat : m <= store.rb.marker.msg
  BY Zenon, AtPhase
<1>2. Take(p, s, store.rb)
  BY Zenon, <1>1 DEF GoTo
<1>3. s \notin {"idle", "turn"} /\ s \notin Unmarking /\ s # "commit" /\ s # "mark"
  BY Zenon DEF Phases, ToRestore, ToCut, ToMark, ToMount, Unmarking
<1>4. task'[p].at = s /\ task'[p].rb = store.rb
  BY <1>1, <1>2, <1>3, TakeIs
<1>5. store'.rb = store.rb /\ chat' = chat
  BY Zenon DEF Same
<1>6. ProcOK(p)'
  BY Zenon, <1>1, <1>3, <1>4, <1>5 DEF ProcOK
<1> QED BY Zenon, <1>1, <1>2, <1>6, MoveStep

\* handleRestore begins: its target is a snapshot below the counter, or else its message
\* would not be in the transcript.
LEMMA RestoreStartStep ==
  ASSUME RInv, NEW t \in 1 .. MaxMsg, RestoreStart(t)
  PROVE  RInv'
<1>1. "client" \in Asked /\ "client" \in Proc
  BY Zenon DEF Asked, Proc
<1>2. DataOK /\ TasksOK /\ store.rb \in Rb /\ vol \in Volume /\ t \in Nat
  BY BoundsAssumption DEF RInv, DataOK
<1>3. Same
  BY Zenon, <1>2, SameIf DEF RestoreStart
<1> DEFINE s == CHOOSE x \in SnapOf(vol, t) : TRUE
           mk == [Unmarked EXCEPT !.on = TRUE, !.snap = t, !.msg = s.label]
           rb == [store.rb EXCEPT !.marker = mk]
<1>4. /\ Free /\ ~store.rb.marker.on /\ InChat(s.label) /\ Take("client", "mark", rb)
      /\ s \in SnapOf(vol, t) /\ store' = store
  BY Zenon DEF RestoreStart
<1>5. s \in vol.snaps /\ s.id = t /\ s = [id |-> t, label |-> s.label] /\ s.label \in Nat
  <2> HIDE DEF s
  <2> QED BY Zenon, <1>2, <1>4 DEF SnapOf, Volume
<1> HIDE DEF s
<1>6. mk \in Marker /\ mk.on /\ mk.snap = t /\ mk.msg = s.label /\ ~mk.fs /\ ~mk.jsonl
  BY Zenon, <1>2, <1>5 DEF Unmarked, Marker
<1> HIDE DEF mk
<1>7. rb \in Rb /\ rb.marker = mk
  BY Zenon, <1>2, <1>6 DEF Rb
<1> HIDE DEF rb
<1>8. s \in Kept
  BY Zenon, <1>4, <1>5 DEF RInv, LeftBehind
<1>9. Target(mk)
  BY Zenon, <1>4, <1>5, <1>6, <1>8 DEF Target
<1>10. task'["client"].at = "mark" /\ task'["client"].rb = rb
  BY <1>1, <1>2, <1>4, <1>7, TakeIs
<1>11. Target(task["client"].rb.marker)'
  BY Zenon, <1>7, <1>9, <1>10 DEF Target, Kept, InChat, RestoreStart
<1>12. ProcOK("client")'
  BY Zenon, <1>4, <1>6, <1>7, <1>10, <1>11 DEF ProcOK, Phases, ToRestore, ToCut, ToMark, ToMount
<1> QED BY Zenon, <1>1, <1>2, <1>3, <1>4, <1>7, <1>12, MoveStep

\* What a patch of the marker must satisfy to keep the data in order.
LEMMA MarkerPatch ==
  ASSUME Data, store' \in [mounted: BOOLEAN, rb: Rb], UNCHANGED <<vol, chat, written, torn>>,
         LeftBehind', Together', MarkerOK'
  PROVE  Data'
<1>1. DataOK'
  BY Zenon DEF Data, DataOK
<1>2. Kept' = Kept
  BY Zenon DEF Kept
<1>3. Core'
  BY Zenon, <1>2 DEF Data, Core, LogOrdered, SnapsFine, TargetsInChat, SnapshotsPaired, InChat
<1> QED BY Zenon, <1>1, <1>3 DEF Data

\* Phase 1: the rollback is marked.
LEMMA MarkStep ==
  ASSUME RInv, Mark
  PROVE  RInv'
<1>1. "client" \in Asked /\ "client" \in Proc /\ ~At("client", "idle")
  BY Zenon DEF Asked, Proc, Mark, At
<1>2. DataOK /\ Data /\ TasksOK /\ task["client"].rb \in Rb
  BY Zenon, <1>1 DEF RInv, Data, TasksOK
<1> DEFINE rb == task["client"].rb
<1>3. ProcOK("client") /\ task["client"].at = "mark"
  BY Zenon, <1>1 DEF RInv, Mark, At
<1>4. /\ ~store.rb.marker.on
      /\ rb.marker.on /\ ~rb.marker.fs /\ ~rb.marker.jsonl /\ Target(rb.marker)
  BY Zenon, <1>3 DEF ProcOK, Unmarking
<1>5. store' \in [mounted: BOOLEAN, rb: Rb] /\ store'.rb = rb
  BY Zenon, <1>2 DEF Mark, Patch, DataOK
<1>6. UNCHANGED <<vol, chat, written, torn>> /\ Take("client", "unmount", rb)
  BY Zenon DEF Mark, GoTo
<1> HIDE DEF rb
<1>7. Kept' = Kept
  BY Zenon, <1>6 DEF Kept
<1>8. LeftBehind'
  BY Zenon, <1>4, <1>6, <1>7 DEF Data, RInv, LeftBehind, InChat
<1>9. Together' /\ MarkerOK'
  BY Zenon, <1>4, <1>5, <1>6, <1>7 DEF Together, MarkerOK, Target, InChat
<1>10. Data'
  BY Zenon, <1>2, <1>5, <1>6, <1>8, <1>9, MarkerPatch
<1>11. task'["client"].at = "unmount" /\ task'["client"].rb = rb
  BY SMTT(60), <1>1, <1>2, <1>6, TakeIs DEF rb
<1>12. ProcOK("client")'
  BY Zenon, <1>4, <1>5, <1>11 DEF ProcOK, Phases, ToRestore, ToCut, ToMark, ToMount, Unmarking
<1>13. \A o \in Asked \ {"client"} : At(o, "idle")
  BY <1>1, OthersIdle
<1> QED BY Zenon, <1>1, <1>2, <1>6, <1>10, <1>12, <1>13, AskedStep DEF rb

\* Phase 2: unmount.
LEMMA UnmountStepStep ==
  ASSUME RInv, NEW p \in {"client", "boot"}, UnmountStep(p)
  PROVE  RInv'
<1>1. task[p].at = "unmount" /\ "unmount" \in Phases /\ "restore" \in Phases
  BY Zenon DEF UnmountStep, At, Phases, ToRestore
<1>2. DataOK /\ p \in Asked /\ ~At(p, "idle")
  BY Zenon, <1>1, AtPhase
<1>3. Same
  BY Zenon, <1>2, SameIf DEF UnmountStep, Call
<1>4. CASE GoTo(p, "restore")
  BY Zenon, <1>1, <1>3, <1>4, NextPhase DEF ToRestore, ToMark, ToMount
<1>5. CASE GoTo(p, "idle")
  BY Zenon, <1>2, <1>3, <1>5, QuietGo DEF Apart
<1> QED BY Zenon, <1>4, <1>5 DEF UnmountStep, Call

\* Phase 3: the files are restored, whether the answer arrives or not.
LEMMA RestoreStepStep ==
  ASSUME RInv, NEW p \in {"client", "boot"}, RestoreStep(p)
  PROVE  RInv'
<1>1. task[p].at = "restore" /\ "restore" \in Phases
  BY Zenon DEF RestoreStep, At, Phases, ToRestore
<1>2. /\ p \in Asked /\ p \in Proc /\ ~At(p, "idle") /\ p # "eager"
      /\ DataOK /\ TasksOK /\ Data /\ store.rb \in Rb
      /\ task[p].rb = store.rb /\ store.rb.marker.on
      /\ ~store.rb.marker.fs /\ ~store.rb.marker.jsonl
      /\ \A o \in Asked \ {p} : At(o, "idle")
  BY Zenon, <1>1, AtPhase DEF ToRestore, ToMount
<1>3. UNCHANGED <<store, chat, written, torn>>
  BY Zenon DEF RestoreStep
<1>4. CASE vol' = vol /\ GoTo(p, "idle")
  <2>1. Same
    BY Zenon, <1>2, <1>3, <1>4, SameIf
  <2> QED BY Zenon, <1>2, <1>4, <2>1, QuietGo DEF Apart
<1>5. CASE vol' = Restored(vol, Goal(p).snap)
  <2>1. vol' = Restored(vol, store.rb.marker.snap)
    BY Zenon, <1>2, <1>5 DEF Goal
  <2>2. Data' /\ RestoredTo(store.rb.marker)'
    BY Zenon, <1>2, <1>3, <2>1, RestoreData
  <2>3. CASE GoTo(p, "idle")
    BY Zenon, <1>2, <2>2, <2>3, RestGo DEF Apart
  <2>4. CASE GoTo(p, "restored")
    <3>1. Take(p, "restored", store.rb)
      BY Zenon, <1>2, <2>4 DEF GoTo
    <3>2. task'[p].at = "restored" /\ task'[p].rb = store.rb
      BY SMTT(60), <1>2, <3>1, TakeIs
    <3>3. ProcOK(p)'
      BY Zenon, <1>2, <1>3, <2>2, <3>2 DEF ProcOK, RestoredTo, Phases, ToRestore, ToMark, ToMount, Unmarking
    <3> QED BY Zenon, <1>2, <2>2, <3>1, <3>3, AskedStep
  <2> QED BY Zenon, <2>3, <2>4 DEF RestoreStep, Call
<1> QED BY Zenon, <1>4, <1>5 DEF RestoreStep, Call

\* A later phase is marked: the same rollback, with other flags.
LEMMA FlagPatch ==
  ASSUME NEW rb \in Rb, DataOK,
         \/ Patch([rb EXCEPT !.marker.fs = TRUE])
         \/ Patch([rb EXCEPT !.marker.jsonl = TRUE])
  PROVE  /\ store' \in [mounted: BOOLEAN, rb: Rb]
         /\ store'.rb.marker.on <=> rb.marker.on
         /\ store'.rb.marker.snap = rb.marker.snap /\ store'.rb.marker.msg = rb.marker.msg
<1>1. CASE Patch([rb EXCEPT !.marker.fs = TRUE])
  <2> DEFINE x == [rb EXCEPT !.marker.fs = TRUE]
  <2>1. /\ x \in Rb /\ (x.marker.on <=> rb.marker.on)
        /\ x.marker.snap = rb.marker.snap /\ x.marker.msg = rb.marker.msg
    BY Zenon DEF Rb, Marker
  <2>2. Patch(x)
    BY Zenon, <1>1
  <2> HIDE DEF x
  <2> QED BY Zenon, <2>1, <2>2 DEF Patch, DataOK
<1>2. CASE Patch([rb EXCEPT !.marker.jsonl = TRUE])
  <2> DEFINE x == [rb EXCEPT !.marker.jsonl = TRUE]
  <2>1. /\ x \in Rb /\ (x.marker.on <=> rb.marker.on)
        /\ x.marker.snap = rb.marker.snap /\ x.marker.msg = rb.marker.msg
    BY Zenon DEF Rb, Marker
  <2>2. Patch(x)
    BY Zenon, <1>2
  <2> HIDE DEF x
  <2> QED BY <2>1, <2>2 DEF Patch, DataOK
<1> QED BY Zenon, <1>1, <1>2

\* After the restore: its phase is marked.
LEMMA MarkRestoredStep ==
  ASSUME RInv, NEW p \in {"client", "boot"}, MarkRestored(p)
  PROVE  RInv'
<1>1. task[p].at = "restored" /\ "restored" \in Phases
  BY Zenon DEF MarkRestored, At, Phases, ToRestore
<1>2. /\ p \in Asked /\ p \in Proc /\ ~At(p, "idle") /\ p # "eager"
      /\ DataOK /\ TasksOK /\ Data /\ store.rb \in Rb
      /\ task[p].rb = store.rb /\ store.rb.marker.on
      /\ ~store.rb.marker.fs /\ ~store.rb.marker.jsonl
      /\ RestoredTo(store.rb.marker)
      /\ \A o \in Asked \ {p} : At(o, "idle")
  BY Zenon, <1>1, AtPhase DEF ToRestore, ToMount
<1> DEFINE rb == [store.rb EXCEPT !.marker.fs = TRUE]
<1>3. Patch(rb) /\ Take(p, "truncate", rb) /\ UNCHANGED <<vol, chat, written, torn>>
  BY Zenon, <1>2 DEF MarkRestored
<1>4. /\ store' \in [mounted: BOOLEAN, rb: Rb] /\ store'.rb.marker.on
      /\ store'.rb.marker.snap = store.rb.marker.snap /\ store'.rb.marker.msg = store.rb.marker.msg
  BY Zenon, <1>2, <1>3, FlagPatch
<1>5. rb \in Rb /\ rb.marker.fs /\ ~rb.marker.jsonl /\ store'.rb = rb
  BY Zenon, <1>2, <1>3 DEF Patch, Rb, Marker, DataOK
<1> HIDE DEF rb
<1>6. Kept' = Kept
  BY Zenon, <1>3 DEF Kept
<1>7. LeftBehind' /\ Together'
  BY Zenon, <1>2, <1>3, <1>4, <1>5, <1>6 DEF Data, LeftBehind, Together, InChat
<1>8. MarkerOK'
  BY Zenon, <1>2, <1>3, <1>4, <1>5, <1>6 DEF Data, MarkerOK, Target, RestoredTo, InChat
<1>9. Data'
  BY Zenon, <1>2, <1>3, <1>4, <1>7, <1>8, MarkerPatch
<1>10. task'[p].at = "truncate" /\ task'[p].rb = rb
  BY SMTT(60), <1>2, <1>3, <1>5, TakeIs
<1>11. ProcOK(p)'
  BY Zenon, <1>2, <1>4, <1>5, <1>10 DEF ProcOK, Phases, ToRestore, ToCut, ToMark, ToMount, Unmarking
<1> QED BY Zenon, <1>2, <1>3, <1>5, <1>9, <1>11, AskedStep

\* Cutting the transcript after the restored target keeps the data in order: what remains
\* below the counter is labelled with the messages that remain, and nothing else is.
LEMMA CutData ==
  ASSUME Data, store.rb.marker.on, store.rb.marker.fs, ~store.rb.marker.jsonl,
         chat' = Cut(store.rb.marker.msg), UNCHANGED <<store, vol, written, torn>>
  PROVE  Data'
<1> DEFINE k == store.rb.marker
<1>1. DataOK /\ vol \in Volume /\ k.snap \in Nat /\ k.msg \in Nat /\ DOMAIN chat \subseteq Nat
  BY SMTT(60) DEF Data, DataOK, Rb, Marker
<1>2. [id |-> k.snap, label |-> k.msg] \in Kept /\ k.msg \in DOMAIN chat
  BY Zenon DEF Data, MarkerOK, Target, InChat
<1>3. vol.next = k.snap + 1 /\ (torn \/ vol.files = chat[k.msg])
  BY Zenon DEF Data, MarkerOK, RestoredTo
<1>4. /\ DOMAIN chat' = {y \in DOMAIN chat : y <= k.msg}
      /\ \A x \in DOMAIN chat' : chat'[x] = chat[x]
  BY Zenon DEF Cut
<1>5. Kept' = Kept
  BY Zenon DEF Kept
<1>6. DataOK'
  BY Zenon, <1>1, <1>4 DEF DataOK
<1>7. \A s \in vol.snaps : s.id \in Nat /\ s.label \in Nat
  BY Zenon, <1>1 DEF Volume
<1>8. \A s \in Kept : s.label <= k.msg /\ s.label \in DOMAIN chat
  <2> SUFFICES ASSUME NEW s \in Kept PROVE s.label <= k.msg /\ s.label \in DOMAIN chat
    BY Zenon
  <2>1. s \in vol.snaps /\ s.id <= k.snap
    BY SMTT(60), <1>1, <1>3, <1>7 DEF Kept
  <2>2. CASE s.id = k.snap
    <3>1. s = [id |-> k.snap, label |-> k.msg]
      BY Zenon, <1>2, <2>1, <2>2 DEF Kept, Data, Core, SnapsFine
    <3> QED BY SMTT(60), <1>1, <1>2, <3>1
  <2>3. CASE s.id < k.snap
    BY SMTT(60), <1>1, <1>2, <1>7, <2>1, <2>3 DEF Data, Core, TargetsInChat, InChat
  <2> QED BY <1>1, <1>7, <2>1, <2>2, <2>3
<1>9. LogOrdered' /\ SnapsFine'
  BY Zenon DEF Data, Core, LogOrdered, SnapsFine
<1>10. TargetsInChat'
  BY Zenon, <1>4, <1>5, <1>8 DEF Data, Core, TargetsInChat, InChat
<1>11. SnapshotsPaired'
  BY Zenon, <1>4, <1>5, <1>8 DEF Data, Core, SnapshotsPaired, InChat
<1>12. LeftBehind'
  BY Zenon, <1>1, <1>4, <1>5, <1>7 DEF Data, LeftBehind, InChat
<1>13. Together' /\ MarkerOK'
  BY <1>1, <1>2, <1>3, <1>4, <1>5 DEF Together, MarkerOK, Target, RestoredTo, InChat
<1> QED BY Zenon, <1>6, <1>9, <1>10, <1>11, <1>12, <1>13 DEF Data, Core

\* Phase 4: the transcript is cut.
LEMMA TruncateStep ==
  ASSUME RInv, NEW p \in {"client", "boot"}, Truncate(p)
  PROVE  RInv'
<1>1. task[p].at = "truncate" /\ "truncate" \in Phases
  BY Zenon DEF Truncate, At, Phases, ToCut
<1>2. /\ p \in Asked /\ p \in Proc /\ ~At(p, "idle") /\ p # "eager"
      /\ DataOK /\ TasksOK /\ Data /\ store.rb \in Rb
      /\ task[p].rb = store.rb /\ store.rb.marker.on
      /\ store.rb.marker.fs /\ ~store.rb.marker.jsonl
      /\ \A o \in Asked \ {p} : At(o, "idle")
  BY Zenon, <1>1, AtPhase DEF ToRestore, ToMount
<1>3. UNCHANGED <<store, vol, written, torn>>
  BY Zenon DEF Truncate
<1>4. CASE GoTo(p, "idle") /\ UNCHANGED chat
  <2>1. Same
    BY Zenon, <1>2, <1>3, <1>4, SameIf
  <2> QED BY Zenon, <1>2, <1>4, <2>1, QuietGo DEF Apart
<1>5. CASE chat' = Cut(Goal(p).msg) /\ GoTo(p, "trajectory")
  <2>1. chat' = Cut(store.rb.marker.msg) /\ Take(p, "trajectory", store.rb)
    BY Zenon, <1>2, <1>5 DEF Goal, GoTo
  <2>2. Data'
    BY Zenon, <1>2, <1>3, <2>1, CutData
  <2>3. task'[p].at = "trajectory" /\ task'[p].rb = store.rb
    BY <1>2, <2>1, TakeIs
  <2>4. \A m \in DOMAIN chat' : m <= store.rb.marker.msg
    BY Zenon, <2>1 DEF Cut
  <2>5. ProcOK(p)'
    BY Zenon, <1>2, <1>3, <2>3, <2>4 DEF ProcOK, Phases, ToRestore, ToCut, ToMark, ToMount, Unmarking
  <2> QED BY Zenon, <1>2, <2>1, <2>2, <2>5, AskedStep
<1> QED BY Zenon, <1>4, <1>5 DEF Truncate

\* The trajectory file.
LEMMA TrajectoryStep ==
  ASSUME RInv, NEW p \in {"client", "boot"}, TruncateTrajectory(p)
  PROVE  RInv'
<1>1. task[p].at = "trajectory" /\ "trajectory" \in Phases /\ "truncated" \in Phases
  BY Zenon DEF TruncateTrajectory, At, Phases, ToMark
<1>2. DataOK /\ p \in Asked /\ ~At(p, "idle")
  BY Zenon, <1>1, AtPhase
<1>3. Same
  BY Zenon, <1>2, SameIf DEF TruncateTrajectory
<1>4. CASE GoTo(p, "truncated")
  BY Zenon, <1>1, <1>3, <1>4, NextPhase DEF ToRestore, ToMark, ToMount
<1>5. CASE GoTo(p, "idle")
  BY <1>2, <1>3, <1>5, QuietGo DEF Apart
<1> QED BY Zenon, <1>4, <1>5 DEF TruncateTrajectory

\* After the cut: its phase is marked, and files and transcript agree again.
LEMMA MarkTruncatedStep ==
  ASSUME RInv, NEW p \in {"client", "boot"}, MarkTruncated(p)
  PROVE  RInv'
<1>1. task[p].at = "truncated" /\ "truncated" \in Phases
  BY Zenon DEF MarkTruncated, At, Phases, ToMark
<1>2. /\ p \in Asked /\ p \in Proc /\ ~At(p, "idle") /\ p # "eager"
      /\ DataOK /\ TasksOK /\ Data /\ store.rb \in Rb
      /\ task[p].rb = store.rb /\ store.rb.marker.on
      /\ store.rb.marker.fs /\ ~store.rb.marker.jsonl
      /\ \A m \in DOMAIN chat : m <= store.rb.marker.msg
      /\ \A o \in Asked \ {p} : At(o, "idle")
  BY Zenon, <1>1, AtPhase DEF ToRestore, ToMount, ToMark
<1> DEFINE k == store.rb.marker
           rb == [store.rb EXCEPT !.marker.jsonl = TRUE]
<1>3. Patch(rb) /\ Take(p, "mount", rb) /\ UNCHANGED <<vol, chat, written, torn>>
  BY Zenon, <1>2 DEF MarkTruncated
<1>4. /\ store' \in [mounted: BOOLEAN, rb: Rb] /\ store'.rb.marker.on
      /\ store'.rb.marker.snap = k.snap /\ store'.rb.marker.msg = k.msg
  BY Zenon, <1>2, <1>3, FlagPatch
<1>5. rb \in Rb /\ rb.marker.fs /\ rb.marker.jsonl /\ store'.rb = rb
  BY Zenon, <1>2, <1>3 DEF Patch, Rb, Marker, DataOK
<1> HIDE DEF rb
<1>6. Kept' = Kept
  BY Zenon, <1>3 DEF Kept
<1>7. k.msg \in DOMAIN chat /\ DOMAIN chat \subseteq Nat /\ (torn \/ vol.files = chat[k.msg])
  BY SMTT(60), <1>2 DEF Data, MarkerOK, Target, RestoredTo, InChat, DataOK
<1>8. LeftBehind'
  <2>1. \A s \in vol.snaps : s.label \in Nat
    BY Zenon, <1>2 DEF DataOK, Volume
  <2> QED BY SMTT(60), <1>2, <1>3, <1>6, <1>7, <2>1 DEF Data, LeftBehind, InChat
<1>9. Together'
  <2>1. LastMsg = k.msg
    BY <1>2, <1>7, LastIs
  <2>2. LastMsg' = LastMsg
    BY SMTT(60), <1>3 DEF LastMsg
  <2> QED BY Zenon, <1>3, <1>7, <2>1, <2>2 DEF Together, Expected
<1>10. MarkerOK'
  BY Zenon, <1>2, <1>3, <1>4, <1>5, <1>6 DEF Data, MarkerOK, Target, InChat
<1>11. Data'
  BY Zenon, <1>2, <1>3, <1>4, <1>8, <1>9, <1>10, MarkerPatch
<1>12. task'[p].at = "mount" /\ task'[p].rb = rb
  BY SMTT(60), <1>2, <1>3, <1>5, TakeIs
<1>13. ProcOK(p)'
  BY Zenon, <1>2, <1>4, <1>5, <1>12 DEF ProcOK, Phases, ToRestore, ToCut, ToMark, ToMount, Unmarking
<1> QED BY Zenon, <1>2, <1>3, <1>5, <1>11, <1>13, AskedStep

\* Phase 5: mount.
LEMMA MountStepStep ==
  ASSUME RInv, NEW p \in {"client", "boot"}, MountStep(p)
  PROVE  RInv'
<1>1. task[p].at = "mount" /\ "mount" \in Phases /\ "finish" \in Phases
  BY Zenon DEF MountStep, At, Phases, ToMount
<1>2. DataOK /\ p \in Asked /\ ~At(p, "idle")
  BY Zenon, <1>1, AtPhase
<1>3. Same
  BY Zenon, <1>2, SameIf DEF MountStep, Call
<1>4. CASE GoTo(p, "finish")
  BY Zenon, <1>1, <1>3, <1>4, NextPhase DEF ToRestore, ToMark, ToMount
<1>5. CASE GoTo(p, "idle")
  BY <1>2, <1>3, <1>5, QuietGo DEF Apart
<1> QED BY Zenon, <1>4, <1>5 DEF MountStep, Call

\* Phase 6: the marker goes.
LEMMA FinishStep ==
  ASSUME RInv, NEW p \in {"client", "boot"}, Finish(p)
  PROVE  RInv'
<1>1. task[p].at = "finish" /\ "finish" \in Phases
  BY Zenon DEF Finish, At, Phases, ToMount
<1>2. /\ p \in Asked /\ ~At(p, "idle")
      /\ DataOK /\ Data /\ store.rb \in Rb /\ task[p].rb = store.rb
      /\ store.rb.marker.on /\ store.rb.marker.jsonl
  BY Zenon, <1>1, AtPhase DEF ToMount
<1>3. UNCHANGED <<vol, chat, written, torn>> /\ GoTo(p, "idle")
  BY Zenon DEF Finish
<1>4. store' \in [mounted: BOOLEAN, rb: Rb] /\ ~store'.rb.marker.on
  <2> DEFINE rb == [enabled |-> TRUE, last |-> Goal(p).msg, marker |-> Unmarked]
  <2>1. Goal(p).msg \in Nat
    BY Zenon, <1>2 DEF Goal, Rb, Marker
  <2>2. rb \in Rb /\ ~rb.marker.on
    BY Zenon, <2>1 DEF Rb, Marker, Unmarked
  <2>3. Patch(rb)
    BY Zenon DEF Finish
  <2> HIDE DEF rb
  <2> QED BY Zenon, <1>2, <2>2, <2>3 DEF Patch, DataOK
<1>5. Kept' = Kept
  BY Zenon, <1>3 DEF Kept
<1>6. LeftBehind'
  BY Zenon, <1>2, <1>3, <1>5 DEF Data, LeftBehind, InChat
<1>7. Together' /\ MarkerOK'
  BY Zenon, <1>2, <1>3, <1>4 DEF Data, Together, MarkerOK, Expected, LastMsg
<1>8. Data'
  BY Zenon, <1>2, <1>3, <1>4, <1>6, <1>7, MarkerPatch
<1> QED BY Zenon, <1>2, <1>3, <1>8, RestGo DEF Apart

-----------------------------------------------------------------------------
(* Crashes, reconcile, the scanner.                                        *)

\* The gateway dies.
LEMMA CrashStep ==
  ASSUME RInv, GatewayCrash
  PROVE  RInv'
<1>1. DataOK /\ Data
  BY Zenon DEF RInv, Data
<1>2. Same
  BY Zenon, <1>1, SameIf DEF GatewayCrash
<1>3. Data'
  BY Zenon, <1>1, <1>2, SameData
<1>4. /\ TasksOK' /\ task'["boot"].at = "list"
      /\ \A p \in Asked \ {"boot"} : task'[p].at = "idle"
  BY Zenon, OffType DEF GatewayCrash, Idle, TasksOK, Proc, Asked
<1>5. OneActive'
  BY Zenon, <1>4 DEF OneActive, At
<1>6. \A p \in Asked : task'[p].at \in Apart
  BY Zenon, <1>4 DEF Apart
<1>7. \A p \in Asked : ProcOK(p)'
  BY <1>6 DEF ProcOK, Apart, Phases, ToRestore, ToCut, ToMark, ToMount, Unmarking
<1> QED BY Zenon, <1>3, <1>4, <1>5, <1>7 DEF RInv, Data

\* Reconcile lists the mounts.
LEMMA BootListStep ==
  ASSUME RInv, BootList
  PROVE  RInv'
<1>1. DataOK /\ "boot" \in Asked /\ ~At("boot", "idle")
  BY Zenon DEF RInv, Asked, BootList, At
<1>2. Same
  BY Zenon, <1>1, SameIf DEF BootList, Call
<1>3. GoTo("boot", "load") \/ GoTo("boot", "idle")
  BY Zenon DEF BootList, Call
<1> QED BY Zenon, <1>1, <1>2, <1>3, QuietGo DEF Apart

\* Reconcile goes on with the phase that the marker says comes next.
LEMMA BootLoadStep ==
  ASSUME RInv, BootLoad
  PROVE  RInv'
<1>1. DataOK /\ TasksOK /\ store.rb \in Rb /\ "boot" \in Asked /\ "boot" \in Proc /\ ~At("boot", "idle")
  BY Zenon DEF RInv, DataOK, Asked, Proc, BootLoad, At
<1>2. Same
  BY Zenon, <1>1, SameIf DEF BootLoad
<1> DEFINE s == IF ~store.rb.marker.on THEN "idle"
                ELSE IF ~store.rb.marker.fs THEN "unmount"
                ELSE IF ~store.rb.marker.jsonl THEN "truncate" ELSE "mount"
<1>3. Take("boot", s, store.rb) /\ store' = store
  BY Zenon DEF BootLoad
<1>4. CASE ~store.rb.marker.on
  <2>1. s = "idle" /\ s \notin Phases \cup Unmarking
    BY Zenon, <1>4 DEF Phases, ToRestore, ToCut, ToMark, ToMount, Unmarking
  <2> HIDE DEF s
  <2> QED BY Zenon, <1>1, <1>2, <1>3, <2>1, QuietStep
<1>5. CASE store.rb.marker.on
  <2>1. /\ s \in {"unmount", "truncate", "mount"}
        /\ store.rb.marker.fs <=> (s \notin ToRestore)
        /\ store.rb.marker.jsonl <=> (s \in ToMount)
    BY Zenon, <1>5 DEF RInv, MarkerOK, ToRestore, ToMount
  <2> HIDE DEF s
  <2>2. task'["boot"].at = s /\ task'["boot"].rb = store.rb
    BY SMTT(60), <1>1, <1>3, <2>1, TakeIs
  <2>3. ProcOK("boot")'
    BY Zenon, <1>3, <1>5, <2>1, <2>2 DEF ProcOK, ToMark, Unmarking
  <2> QED BY Zenon, <1>1, <1>2, <1>3, <2>3, MoveStep
<1> QED BY Zenon, <1>4, <1>5

\* The scanner and the deaths of daemon and mount are aside.
LEMMA ScanStepStep ==
  ASSUME RInv, ScanStep \/ DaemonCrash \/ MountDies
  PROVE  RInv'
<1>1. DataOK /\ TasksOK /\ "scan" \in Proc /\ Asked = Proc \ {"scan"}
  BY Zenon DEF RInv, Proc, Asked
<1> USE DEF ScanStep, ScanLoad, ScanList, ScanProbe, ScanUnmount, ScanMount, IdleUnmountCall,
            IdlePatch, Duty2, Call
<1>2. Same
  BY Zenon, <1>1, SameIf DEF DaemonCrash, MountDies
<1>3. CASE DaemonCrash \/ MountDies
  BY Zenon, <1>1, <1>2, <1>3, AsideStep DEF DaemonCrash, MountDies, TasksOK
<1>4. CASE ScanStep
  <2>1. \E s : GoTo("scan", s)
    <3>1. CASE ScanLoad
      BY Zenon, <3>1
    <3>2. CASE ScanList
      BY Zenon, <3>2
    <3>3. CASE ScanProbe
      BY Zenon, <3>3
    <3>4. CASE ScanUnmount
      BY Zenon, <3>4
    <3>5. CASE ScanMount
      BY Zenon, <3>5
    <3>6. CASE IdleUnmountCall
      BY Zenon, <3>6
    <3>7. CASE IdlePatch
      BY Zenon, <3>7
    <3> QED BY Zenon, <1>4, <3>1, <3>2, <3>3, <3>4, <3>5, <3>6, <3>7
  <2>2. PICK s : GoTo("scan", s)
    BY Zenon, <2>1
  <2>3. Take("scan", s, task["scan"].rb) /\ task["scan"].rb \in Rb
    BY Zenon, <1>1, <2>2 DEF GoTo, TasksOK
  <2>4. TasksOK' /\ \A o \in Proc \ {"scan"} : task'[o] = task[o]
    BY Zenon, <1>1, <2>3, TakeIs
  <2> QED BY Zenon, <1>1, <1>2, <2>4, AsideStep
<1> QED BY Zenon, <1>3, <1>4

-----------------------------------------------------------------------------
(* The theorems.                                                           *)

\* The invariant holds at the start: no message, no snapshot, no rollback.
LEMMA RInvInit == Init => RInv
<1> SUFFICES ASSUME Init PROVE RInv
  BY Zenon
<1>1. vol \in Volume /\ store \in [mounted: BOOLEAN, rb: Rb] /\ ~store.rb.marker.on
  BY Zenon DEF Init, Volume, Off, Unmarked, Rb, Marker
<1>2. DataOK
  BY Zenon, <1>1 DEF Init, DataOK
<1>3. TasksOK /\ \A p \in Asked : task[p].at = "idle"
  BY Zenon, OffType DEF Init, Idle, TasksOK, Proc, Asked
<1>4. OneActive /\ \A p \in Asked : ProcOK(p)
  BY Zenon, <1>3 DEF OneActive, At, ProcOK, Phases, ToRestore, ToCut, ToMark, ToMount, Unmarking
<1>5. Core /\ LeftBehind
  BY DEF Init, Core, LogOrdered, SnapsFine, TargetsInChat, SnapshotsPaired, LeftBehind, Kept
<1>6. Together /\ MarkerOK
  BY Zenon, <1>1 DEF Init, Together, MarkerOK, Expected
<1> QED BY Zenon, <1>2, <1>3, <1>4, <1>5, <1>6 DEF RInv

\* Every step keeps it.
LEMMA RInvStep == RInv /\ [Next]_vars => RInv'
<1> SUFFICES ASSUME RInv, [Next]_vars PROVE RInv'
  BY Zenon
<1>1. CASE Prompt \/ AutoMount \/ AutoMounted \/ SnapshotNow \/ NoTurn
  BY Zenon, <1>1, PromptStep
<1>2. CASE \E p \in {"client", "eager"} : Hook(p)
  BY Zenon, <1>2, HookLoadStep, HookCommitStep, HookPatchStep DEF Hook
<1>3. CASE \E on \in BOOLEAN : SetEnabled(on)
  BY Zenon, <1>3, SetEnabledStep
<1>4. CASE EnableCall \/ DisableCall \/ SwitchPatch
  BY Zenon, <1>4, EnableStep, DisableStep, SwitchPatchStep
<1>5. CASE \E top \in BOOLEAN : Turn(top)
  BY <1>5, TurnStep
<1>6. CASE \E t \in 1 .. MaxMsg : RestoreStart(t)
  BY Zenon, <1>6, RestoreStartStep
<1>7. CASE Mark
  BY Zenon, <1>7, MarkStep
<1>8. CASE \E p \in {"client", "boot"} : Phase(p)
  BY Zenon, <1>8, UnmountStepStep, RestoreStepStep, MarkRestoredStep, TruncateStep, TrajectoryStep,
     MarkTruncatedStep, MountStepStep, FinishStep DEF Phase
<1>9. CASE BootList \/ BootLoad \/ GatewayCrash
  BY Zenon, <1>9, BootListStep, BootLoadStep, CrashStep
<1>10. CASE ScanStep \/ DaemonCrash \/ MountDies
  BY Zenon, <1>10, ScanStepStep
<1>11. CASE UNCHANGED vars
  <2>1. Same
    BY Zenon, <1>11, SameIf DEF vars, RInv
  <2> QED BY Zenon, <1>11, <2>1, AsideStep DEF vars, RInv, TasksOK
<1> QED BY Zenon, <1>1, <1>2, <1>3, <1>4, <1>5, <1>6, <1>7, <1>8, <1>9, <1>10, <1>11
        DEF Next, ClientStep, BootStep

\* Whenever no rollback is marked, running or being resumed, files and transcript agree,
\* whatever crashed and whatever call of the daemon failed in between (handleRestore and
\* reconcile).
THEOREM FilesMatchTranscript == Spec => []AtRest
<1>1. RInv => AtRest
  BY Zenon DEF RInv, Together, AtRest
<1> QED BY <1>1, RInvInit, RInvStep, PTL DEF Spec

\* Every snapshot brings back the files of the message it is labelled with, although it is
\* taken only at the start of the next turn (snapshotOnTurnEnd).
THEOREM SnapshotsStayPaired == Spec => []SnapshotsPaired
<1>1. RInv => SnapshotsPaired
  BY Zenon DEF RInv, Core
<1> QED BY <1>1, RInvInit, RInvStep, PTL DEF Spec

\* Every snapshot below the counter stays one that can be rolled back to, in the order of
\* the messages (handleRestore).
THEOREM TargetsStayInChat == Spec => []TargetsInChat
<1>1. RInv => TargetsInChat
  BY Zenon DEF RInv, Core
<1> QED BY <1>1, RInvInit, RInvStep, PTL DEF Spec
=============================================================================
