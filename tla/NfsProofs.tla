----------------------------- MODULE NfsProofs -----------------------------
(***************************************************************************)
(* Proofs about NfsServer, for any clients, records, filesystems and       *)
(* number of restarts.                                                     *)
(***************************************************************************)
EXTENDS NfsServer, FsProofs

(* Tasks                                                                   *)

TaskFields ==
  {"conn", "xid", "call", "pc", "attr", "attr2", "entry", "walked", "out", "seen", "ran", "aged"}

\* The fields that a handler may set
Own == {"pc", "attr", "attr2", "entry", "walked", "out"}

\* The shapes of the variables.  A task came in on a connection that was accepted.
TypeOK ==
  /\ gen \in Nat
  /\ conn \in [Conn -> {"new", "open", "closed"}]
  /\ \E S : tasks \in Seq(S)
  /\ \A t \in Task : /\ DOMAIN tasks[t] = TaskFields
                     /\ tasks[t].conn \in Conn /\ conn[tasks[t].conn] # "new"
                     /\ tasks[t].ran \in BOOLEAN /\ tasks[t].aged \in BOOLEAN

\* A step of task t: the others stay where they are, and no record becomes another.
Steps(t) ==
  /\ \E S : tasks' \in Seq(S)
  /\ Task' = Task
  /\ \A u \in Task : /\ DOMAIN tasks'[u] = TaskFields
                     /\ tasks'[u].conn = tasks[u].conn /\ tasks'[u].xid = tasks[u].xid
                     /\ tasks'[u].call = tasks[u].call
  /\ \A u \in Task \ {t} : /\ tasks'[u].pc = tasks[u].pc
                           /\ tasks'[u].ran = tasks[u].ran /\ tasks'[u].aged = tasks[u].aged
  /\ tasks'[t].pc # "new"

\* A step of its handler
Moves(t) ==
  /\ Steps(t)
  /\ tasks'[t].ran = tasks[t].ran /\ tasks'[t].aged = tasks[t].aged
  /\ UNCHANGED <<gen, conn, cur_fragment, transactions>>

\* The value of task t after its fields were set from r
Becomes(t, r) ==
  /\ \A x \in DOMAIN r : tasks'[t][x] = r[x]
  /\ \A x \in TaskFields \ DOMAIN r : tasks'[t][x] = tasks[t][x]

\* EXCEPT and a new function keep tasks a sequence.
LEMMA TasksSeq ==
  ASSUME \E S : tasks \in Seq(S), NEW T, DOMAIN T = Task, T = [t \in Task |-> T[t]]
  PROVE  \E S : T \in Seq(S)
<1>1. PICK S : tasks \in Seq(S)
  OBVIOUS
<1>2. PICK n \in Nat : Task = 1 .. n
  BY <1>1 DEF Task
<1> DEFINE R == {T[t] : t \in Task}
<1>3. T \in [1 .. n -> R]
  BY <1>2
<1> HIDE DEF R
<1>4. T \in Seq(R)
  BY <1>3
<1>q. QED BY <1>4

\* With sets the fields of r in the record of task t.
LEMMA WithBecomes ==
  ASSUME TypeOK, NEW t \in Task, NEW r, tasks'[t] = With(r, tasks[t]),
         DOMAIN r \subseteq TaskFields \ {"conn", "xid", "call"}
  PROVE  /\ Becomes(t, r) /\ DOMAIN tasks'[t] = TaskFields
         /\ tasks'[t].conn = tasks[t].conn /\ tasks'[t].xid = tasks[t].xid
         /\ tasks'[t].call = tasks[t].call
<1>1. DOMAIN tasks[t] = TaskFields
  BY DEF TypeOK
<1>2. Becomes(t, r) /\ DOMAIN tasks'[t] = TaskFields
  BY <1>1 DEF With, Becomes
<1>3. {"conn", "xid", "call"} \subseteq TaskFields \ DOMAIN r
  BY DEF TaskFields
<1>q. QED BY <1>2, <1>3 DEF Becomes

\* Fields of one task change.
LEMMA UpdateSteps ==
  ASSUME TypeOK, NEW t \in Task, NEW r, Update(t, r),
         DOMAIN r \subseteq TaskFields \ {"conn", "xid", "call"},
         IF "pc" \in DOMAIN r THEN r.pc # "new" ELSE tasks[t].pc # "new"
  PROVE  Steps(t) /\ Becomes(t, r)
<1>1. tasks' = [tasks EXCEPT ![t] = With(r, tasks[t])]
  BY DEF Update
<1>2. DOMAIN tasks' = Task /\ tasks' = [u \in Task |-> tasks'[u]]
  BY <1>1 DEF Task
<1>3. /\ \A u \in Task \ {t} : tasks'[u] = tasks[u]
      /\ tasks'[t] = With(r, tasks[t])
  BY <1>1 DEF Task
<1>4. \E S : tasks' \in Seq(S)
  BY <1>2, TasksSeq DEF TypeOK
<1>5. /\ Becomes(t, r) /\ DOMAIN tasks'[t] = TaskFields
      /\ tasks'[t].conn = tasks[t].conn /\ tasks'[t].xid = tasks[t].xid
      /\ tasks'[t].call = tasks[t].call
  BY Zenon, <1>3, WithBecomes
<1>6. tasks'[t].pc # "new"
  BY <1>5 DEF Becomes, TaskFields
<1>7. Task' = Task
  BY Zenon, <1>2 DEF Task
<1>q. QED BY Zenon, <1>3, <1>4, <1>5, <1>6, <1>7 DEF Steps, TypeOK

\* A step that leaves the filesystem alone
LEMMA GoesMoves ==
  ASSUME TypeOK, NEW t \in Task, NEW r, Goes(t, r), DOMAIN r \subseteq Own,
         IF "pc" \in DOMAIN r THEN r.pc # "new" ELSE tasks[t].pc # "new"
  PROVE  /\ Moves(t) /\ UNCHANGED <<fs, handles, written>>
<1>1. DOMAIN r \subseteq TaskFields \ {"conn", "xid", "call"}
      /\ {"ran", "aged"} \subseteq TaskFields \ DOMAIN r
  BY DEF Own, TaskFields
<1>2. Steps(t) /\ Becomes(t, r)
  BY Zenon, <1>1, UpdateSteps DEF Goes
<1>3. tasks'[t].ran = tasks[t].ran /\ tasks'[t].aged = tasks[t].aged
  BY <1>1, <1>2 DEF Becomes
<1>q. QED BY Zenon, <1>2, <1>3 DEF Moves, Goes

\* A step that calls the adapter
LEMMA ActsMoves ==
  ASSUME TypeOK, NEW t \in Task, NEW r, NEW s, Acts(t, r, s), DOMAIN s \subseteq Own,
         "pc" \in DOMAIN s, s.pc # "new"
  PROVE  Moves(t) /\ fs' = r.fs /\ tasks'[t].pc = s.pc
<1>1. /\ fs' = r.fs
      /\ tasks' = [u \in Task |-> IF u = t THEN With(s, tasks[t])
                                 ELSE [tasks[u] EXCEPT !.seen = @ \cup {r.fs}]]
      /\ UNCHANGED <<gen, conn, cur_fragment, transactions>>
  BY DEF Acts
<1>2. DOMAIN tasks' = Task /\ tasks' = [u \in Task |-> tasks'[u]]
  BY <1>1, Zenon
<1>3. \E S : tasks' \in Seq(S)
  BY <1>2, TasksSeq DEF TypeOK
<1>4. ASSUME NEW u \in Task, u # t
      PROVE  /\ DOMAIN tasks'[u] = TaskFields
             /\ tasks'[u].conn = tasks[u].conn /\ tasks'[u].xid = tasks[u].xid
             /\ tasks'[u].call = tasks[u].call /\ tasks'[u].pc = tasks[u].pc
             /\ tasks'[u].ran = tasks[u].ran /\ tasks'[u].aged = tasks[u].aged
  <2>1. tasks'[u] = [tasks[u] EXCEPT !.seen = @ \cup {r.fs}]
    BY <1>1, <1>4
  <2>2. DOMAIN tasks'[u] = TaskFields /\ \A x \in TaskFields \ {"seen"} : tasks'[u][x] = tasks[u][x]
    BY <2>1 DEF TypeOK
  <2>3. {"conn", "xid", "call", "pc", "ran", "aged"} \subseteq TaskFields \ {"seen"}
    BY DEF TaskFields
  <2>q. QED BY <2>2, <2>3
<1>5. /\ DOMAIN s \subseteq TaskFields \ {"conn", "xid", "call"}
      /\ {"ran", "aged"} \subseteq TaskFields \ DOMAIN s
  BY DEF Own, TaskFields
<1>6. tasks'[t] = With(s, tasks[t])
  BY <1>1
<1>7. /\ Becomes(t, s) /\ DOMAIN tasks'[t] = TaskFields
      /\ tasks'[t].conn = tasks[t].conn /\ tasks'[t].xid = tasks[t].xid
      /\ tasks'[t].call = tasks[t].call
  BY Zenon, <1>5, <1>6, WithBecomes
<1>8. tasks'[t].pc = s.pc /\ tasks'[t].ran = tasks[t].ran /\ tasks'[t].aged = tasks[t].aged
  BY <1>5, <1>7 DEF Becomes
<1>9. Task' = Task
  BY <1>2, Zenon DEF Task
<1>q. QED BY Zenon, <1>1, <1>3, <1>4, <1>7, <1>8, <1>9 DEF Moves, Steps

-----------------------------------------------------------------------------
(* The invariant                                                           *)

\* The key of a call that ran is remembered, until the call is old; or its connection is
\* closed and none of its records waits.
TrackedTask(t) ==
  \/ Key(t) \in DOMAIN transactions /\ transactions[Key(t)] # "Old"
  \/ /\ conn[tasks[t].conn] = "closed"
     /\ \A u \in Task : tasks[u].conn = tasks[t].conn => tasks[u].pc # "new"

Tracked == \A t \in Task : tasks[t].ran /\ ~tasks[t].aged => TrackedTask(t)

\* A handle of this generation names a number that was given, to the inode it is meant for.
HandleMeant(h) ==
  /\ h.gen \in Nat /\ h.gen <= gen
  /\ h.gen = gen => /\ h.id \in Nat /\ h.id < fs.next
                    /\ h.id \in DOMAIN fs.node => fs.node[h.id].born = h.born

HandlesOK == WellFormed(fs) /\ \A h \in handles : HandleMeant(h)

\* The set-id bits of file i are off, or a task is about to take them off.
Cleared(i) ==
  \/ i \notin DOMAIN fs.node
  \/ fs.node[i].perm \cap SetId = {}
  \/ \E t \in Task : At(t, "WRITE", "clear") /\ Args(t).fh.id = i

WrittenOK == \A i \in written : i \in Nat /\ i < fs.next /\ Cleared(i)

Inv == TypeOK /\ Tracked /\ AtMostOnce /\ HandlesOK /\ WrittenOK

\* A step of a task keeps the shapes.
LEMMA StepsType ==
  ASSUME TypeOK, NEW t \in Task, Steps(t), gen' = gen,
         conn' \in [Conn -> {"new", "open", "closed"}], \A c \in Conn : conn[c] # "new" => conn'[c] # "new",
         tasks'[t].ran \in BOOLEAN, tasks'[t].aged \in BOOLEAN
  PROVE  TypeOK'
<1>1. \A u \in Task : tasks'[u].ran \in BOOLEAN /\ tasks'[u].aged \in BOOLEAN
  BY Zenon DEF Steps, TypeOK
<1>2. \A u \in Task : /\ DOMAIN tasks'[u] = TaskFields
                      /\ tasks'[u].conn \in Conn /\ conn'[tasks'[u].conn] # "new"
  <2> SUFFICES ASSUME NEW u \in Task
               PROVE  /\ DOMAIN tasks'[u] = TaskFields
                      /\ tasks'[u].conn \in Conn /\ conn'[tasks'[u].conn] # "new"
    OBVIOUS
  <2>1. DOMAIN tasks'[u] = TaskFields /\ tasks'[u].conn = tasks[u].conn
    BY Zenon DEF Steps
  <2>q. QED BY Zenon, <2>1 DEF TypeOK
<1>3. gen' \in Nat /\ Task' = Task /\ \E S : tasks' \in Seq(S)
  BY Zenon DEF Steps, TypeOK
<1>q. QED BY Zenon, <1>1, <1>2, <1>3 DEF TypeOK

\* Where no call begins, at most one of a key has run.
LEMMA StepsOnce ==
  ASSUME AtMostOnce, NEW t \in Task, Steps(t), tasks'[t].ran = tasks[t].ran,
         tasks[t].aged => tasks'[t].aged
  PROVE  AtMostOnce'
<1>1. /\ Task' = Task
      /\ \A u \in Task : /\ Key(u)' = Key(u) /\ tasks'[u].ran = tasks[u].ran
                         /\ tasks[u].aged => tasks'[u].aged
  BY Zenon DEF Steps, Key
<1> SUFFICES ASSUME NEW u \in Task, NEW v \in Task, u < v, Key(u)' = Key(v)',
                    tasks'[u].ran, tasks'[v].ran
             PROVE  tasks'[u].aged \/ tasks'[v].aged
  BY Zenon, <1>1 DEF AtMostOnce
<1>2. Key(u) = Key(v) /\ tasks[u].ran /\ tasks[v].ran
  BY <1>1, SMTT(20)
<1>3. tasks[u].aged \/ tasks[v].aged
  BY <1>2 DEF AtMostOnce
<1>q. QED BY <1>1, <1>3

\* What is remembered stays so while its entry does, and closed connections stay closed.
LEMMA StepsTracked ==
  ASSUME NEW t \in Task, Steps(t), \A c \in Conn : conn[c] = "closed" => conn'[c] = "closed",
         NEW u \in Task, tasks[u].conn \in Conn, TrackedTask(u),
         Key(u) \in DOMAIN transactions /\ transactions[Key(u)] # "Old"
           => Key(u) \in DOMAIN transactions' /\ transactions'[Key(u)] # "Old"
  PROVE  TrackedTask(u)'
<1>1. Task' = Task /\ Key(u)' = Key(u) /\ tasks'[u].conn = tasks[u].conn
  BY Zenon DEF Steps, Key
<1>2. \A v \in Task : tasks'[v].conn = tasks[v].conn /\ (tasks'[v].pc = "new" => tasks[v].pc = "new")
  BY Zenon DEF Steps
<1>q. QED BY Zenon, <1>1, <1>2 DEF TrackedTask

\* A step of a handler keeps the shapes, the tracker and AtMostOnce.
LEMMA MovesKeeps ==
  ASSUME TypeOK, Tracked, AtMostOnce, NEW t \in Task, Moves(t)
  PROVE  TypeOK' /\ Tracked' /\ AtMostOnce'
<1>1. /\ Steps(t) /\ gen' = gen /\ conn' = conn /\ transactions' = transactions
      /\ tasks'[t].ran = tasks[t].ran /\ tasks'[t].aged = tasks[t].aged /\ Task' = Task
  BY Zenon DEF Moves, Steps
<1>2. TypeOK'
  BY Zenon, <1>1, StepsType DEF TypeOK
<1>3. \A u \in Task : /\ tasks'[u].ran = tasks[u].ran /\ tasks'[u].aged = tasks[u].aged
                      /\ tasks[u].conn \in Conn
  BY Zenon, <1>1 DEF Steps, TypeOK
<1>4. Tracked'
  BY Zenon, <1>1, <1>3, StepsTracked DEF Tracked
<1>q. QED BY Zenon, <1>1, <1>2, <1>4, StepsOnce

\* New handles name what is there.
NewHandles ==
  \A h \in handles' : h \notin handles =>
    h.gen = gen /\ h.id \in DOMAIN fs'.node /\ h.born = fs'.node[h.id].born

\* Handles stay right when numbers are not used again and new ones name what is there.
LEMMA FrameHandles ==
  ASSUME HandlesOK, gen \in Nat, gen' = gen, NEW X, NEW E, Frame(fs, fs', X, E),
         \A i : <<i, "born">> \notin X, NewHandles
  PROVE  HandlesOK'
<1>1. WellFormed(fs) /\ WellFormed(fs') /\ fs.next <= fs'.next
  BY DEF HandlesOK, Frame
<1>2. fs.next \in Nat /\ fs'.next \in Nat
  BY <1>1 DEF WellFormed
<1>3. ASSUME NEW h \in handles', h \in handles
      PROVE  HandleMeant(h)'
  <2>1. HandleMeant(h)
    BY <1>3 DEF HandlesOK
  <2>2. CASE h.gen = gen
    <3>1. h.id \in Nat /\ h.id < fs.next /\ h.id < fs'.next
      BY <1>1, <1>2, <2>1, <2>2 DEF HandleMeant
    <3>2. h.id \in DOMAIN fs'.node
            => h.id \in DOMAIN fs.node /\ fs'.node[h.id].born = fs.node[h.id].born
      BY <3>1 DEF Frame, Fields
    <3>q. QED BY <2>1, <2>2, <3>1, <3>2 DEF HandleMeant
  <2>q. QED BY <2>1, <2>2 DEF HandleMeant
<1>4. ASSUME NEW h \in handles', h \notin handles
      PROVE  HandleMeant(h)'
  <2>1. h.gen = gen /\ h.id \in DOMAIN fs'.node /\ h.born = fs'.node[h.id].born
    BY <1>4 DEF NewHandles
  <2>2. h.id \in Nat /\ h.id < fs'.next
    BY <1>1, <1>2, <2>1 DEF WellFormed
  <2>q. QED BY <2>1, <2>2 DEF HandleMeant
<1>q. QED BY <1>1, <1>3, <1>4 DEF HandlesOK

\* A file stays cleared in a step that leaves its mode alone and is not the second one of
\* a write to it.
LEMMA StepsCleared ==
  ASSUME NEW t \in Task, Steps(t), NEW i, Cleared(i), ~(At(t, "WRITE", "clear") /\ Args(t).fh.id = i),
         i \in DOMAIN fs'.node => i \in DOMAIN fs.node /\ fs'.node[i].perm = fs.node[i].perm
  PROVE  Cleared(i)'
<1>1. ASSUME NEW u \in Task, At(u, "WRITE", "clear"), Args(u).fh.id = i
      PROVE  u \in Task' /\ At(u, "WRITE", "clear")' /\ Args(u)'.fh.id = i
  <2>1. tasks'[u].pc = tasks[u].pc /\ tasks'[u].call = tasks[u].call /\ Task' = Task
    BY Zenon, <1>1 DEF Steps
  <2>q. QED BY <1>1, <2>1 DEF At, Args
<1>q. QED BY Zenon, <1>1 DEF Cleared

\* Numbers below the sequence stay below it, and a mode that is not in X stays.
LEMMA FrameBelow ==
  ASSUME WellFormed(fs), NEW X, NEW E, Frame(fs, fs', X, E), NEW i \in Nat, i < fs.next
  PROVE  /\ i < fs'.next
         /\ i \in DOMAIN fs'.node => i \in DOMAIN fs.node
         /\ i \in DOMAIN fs'.node /\ <<i, "perm">> \notin X => fs'.node[i].perm = fs.node[i].perm
<1>1. WellFormed(fs') /\ fs.next <= fs'.next
  BY DEF Frame
<1>2. i < fs'.next
  BY <1>1 DEF WellFormed
<1>3. "perm" \in Fields
  BY DEF Fields
<1>q. QED BY <1>2, <1>3, Zenon DEF Frame

\* A step that may change file i alone: it has no set-id bits then, or its writer is about
\* to clear them, or its mode stays.
LEMMA WrittenKeeps ==
  ASSUME WellFormed(fs), WrittenOK, NEW t \in Task, Steps(t), NEW i, NEW X, NEW E,
         Frame(fs, fs', X, E), \A j : j # i => <<j, "perm">> \notin X,
         At(t, "WRITE", "clear") => Args(t).fh.id = i,
         written' \subseteq written \cup {i}, i \in written' => i \in Nat /\ i < fs'.next /\ Cleared(i)'
  PROVE  WrittenOK'
<1>1. ASSUME NEW j \in written', j # i
      PROVE  j \in Nat /\ j < fs'.next /\ Cleared(j)'
  <2>1. j \in Nat /\ j < fs.next /\ Cleared(j)
    BY <1>1 DEF WrittenOK
  <2>2. /\ j < fs'.next
        /\ j \in DOMAIN fs'.node => j \in DOMAIN fs.node /\ fs'.node[j].perm = fs.node[j].perm
    BY Zenon, <1>1, <2>1, FrameBelow
  <2>q. QED BY Zenon, <1>1, <2>1, <2>2, StepsCleared
<1>q. QED BY Zenon, <1>1 DEF WrittenOK

\* ... or none
LEMMA WrittenStays ==
  ASSUME WellFormed(fs), WrittenOK, NEW t \in Task, Steps(t), NEW E, Frame(fs, fs', {}, E),
         ~At(t, "WRITE", "clear"), written' = written
  PROVE  WrittenOK'
<1>1. ASSUME NEW j \in written
      PROVE  j \in Nat /\ j < fs'.next /\ Cleared(j)'
  <2>1. j \in Nat /\ j < fs.next /\ Cleared(j)
    BY DEF WrittenOK
  <2>2. /\ j < fs'.next
        /\ j \in DOMAIN fs'.node => j \in DOMAIN fs.node /\ fs'.node[j].perm = fs.node[j].perm
    BY Zenon, <2>1, FrameBelow, <<j, "perm">> \notin {}
  <2>q. QED BY Zenon, <2>1, <2>2, StepsCleared
<1>q. QED BY Zenon, <1>1 DEF WrittenOK

-----------------------------------------------------------------------------
(* Steps of handlers                                                       *)

\* A step that keeps the invariant
Sound(t) ==
  /\ Moves(t)
  /\ \E X, E : Frame(fs, fs', X, E) /\ \A i : <<i, "born">> \notin X
  /\ NewHandles
  /\ WrittenOK'

\* A sound step keeps the invariant.
LEMMA SoundKeeps ==
  ASSUME Inv, NEW t \in Task, Sound(t)
  PROVE  Inv'
<1>1. TypeOK' /\ Tracked' /\ AtMostOnce'
  BY Zenon, MovesKeeps DEF Inv, Sound
<1>2. PICK X, E : Frame(fs, fs', X, E) /\ \A i : <<i, "born">> \notin X
  BY Zenon DEF Sound
<1>3. gen \in Nat /\ gen' = gen /\ HandlesOK /\ NewHandles
  BY Zenon DEF Inv, TypeOK, Sound, Moves
<1>4. HandlesOK'
  BY Zenon, <1>2, <1>3, FrameHandles
<1>q. QED BY <1>1, <1>4 DEF Inv, Sound

\* A step of a handler that only reads, ...
Reads(t) ==
  \E r : /\ Goes(t, r) /\ DOMAIN r \subseteq Own
         /\ IF "pc" \in DOMAIN r THEN r.pc # "new" ELSE tasks[t].pc # "new"

\* ... or that changes no file, but entries and what is given, and answers
Calls(t) ==
  \E r, E : /\ ActsAndAnswers(t, r) /\ Frame(fs, r.fs, {}, E)
            /\ NewHandles /\ written' = written

\* A step that reads, or calls the adapter without touching set-id bits, is sound.
LEMMA PlainSound ==
  ASSUME Inv, NEW t \in Task, ~At(t, "WRITE", "clear"), Reads(t) \/ Calls(t)
  PROVE  Sound(t)
<1>0. TypeOK /\ WellFormed(fs) /\ WrittenOK /\ \A i : <<i, "born">> \notin {}
  BY DEF Inv, HandlesOK
<1>1. CASE Reads(t)
  <2>1. Moves(t) /\ fs' = fs /\ handles' = handles /\ written' = written
    BY Zenon, <1>0, <1>1, GoesMoves DEF Reads
  <2>2. Frame(fs, fs', {}, {}) /\ NewHandles
    BY Zenon, <1>0, <2>1, FrameSame DEF NewHandles
  <2>3. WrittenOK'
    BY Zenon, <1>0, <2>1, <2>2, WrittenStays DEF Moves
  <2>q. QED BY <1>0, <2>1, <2>2, <2>3 DEF Sound
<1>2. CASE Calls(t)
  <2>1. PICK r, E : /\ ActsAndAnswers(t, r) /\ Frame(fs, r.fs, {}, E)
                    /\ NewHandles /\ written' = written
    BY Zenon, <1>2 DEF Calls
  <2> DEFINE s == [pc |-> "post", out |-> Append(tasks[t].out, r.st)]
  <2>2. DOMAIN s \subseteq Own /\ "pc" \in DOMAIN s /\ s.pc # "new"
    BY DEF Own
  <2>3. Acts(t, r, s)
    BY Zenon, <2>1 DEF ActsAndAnswers
  <2> HIDE DEF s
  <2>4. Moves(t) /\ fs' = r.fs
    BY Zenon, <1>0, <2>2, <2>3, ActsMoves
  <2>5. WrittenOK'
    BY Zenon, <1>0, <2>1, <2>4, WrittenStays DEF Moves
  <2>q. QED BY <1>0, <2>1, <2>4, <2>5 DEF Sound
<1>q. QED BY Zenon, <1>1, <1>2

\* Answers, and steps to another place
LEMMA GoesReads ==
  ASSUME NEW t \in Task
  PROVE  /\ \A st : Answer(t, st) => Reads(t)
         /\ \A v : Goes(t, [x \in {"pc", "attr"} |-> IF x = "pc" THEN "act" ELSE v]) => Reads(t)
         /\ \A v, n : n # "new" =>
              /\ Goes(t, [x \in {"pc", "attr"} |-> IF x = "pc" THEN n ELSE v]) => Reads(t)
              /\ Goes(t, [x \in {"pc", "attr2"} |-> IF x = "pc" THEN n ELSE v]) => Reads(t)
              /\ Goes(t, [pc |-> n]) => Reads(t)
              /\ Goes(t, [pc |-> n, entry |-> v]) => Reads(t)
         /\ \A o, v : Goes(t, [pc |-> "post", out |-> o, entry |-> v]) => Reads(t)
         /\ \A k, e : tasks[t].pc # "new" /\ Goes(t, [walked |-> k, entry |-> e]) => Reads(t)
BY DEF Reads, Answer, Own

\* A call of the adapter that leaves the filesystem alone
LEMMA LooksCalls ==
  ASSUME Inv, NEW t \in Task, NEW r, ActsAndAnswers(t, r), r.fs = fs, NewHandles, written' = written
  PROVE  Calls(t)
<1>1. Frame(fs, r.fs, {}, {})
  BY Zenon, FrameSame DEF Inv, HandlesOK
<1>q. QED BY Zenon, <1>1 DEF Calls

\* Handles of inodes that are there may be given out.
LEMMA GivenNew ==
  ASSUME NEW ids, handles' \subseteq handles \cup Given(ids)
  PROVE  NewHandles
BY DEF NewHandles, Given

\* So may the handle of what an operation returned.
LEMMA NamesNew ==
  ASSUME NEW r, Names(r)
  PROVE  NewHandles
BY GivenNew DEF Names

\* Handlers that only read
LEMMA ReadersSound ==
  ASSUME Inv, NEW t \in Task,
         \/ handle_unserved(t) \/ nfsproc3_null(t) \/ nfsproc3_getattr(t) \/ nfsproc3_read(t)
         \/ nfsproc3_fsinfo(t) \/ nfsproc3_pathconf(t) \/ nfsproc3_fsstat(t) \/ nfsproc3_access(t)
         \/ nfsproc3_readlink(t) \/ nfsproc3_readdir(t)
         \/ mountproc3_umnt(t) \/ mountproc3_export(t) \/ pmapproc_getport(t)
  PROVE  Sound(t)
<1>1. ~At(t, "WRITE", "clear")
  BY DEF handle_unserved, nfsproc3_null, nfsproc3_getattr, nfsproc3_read, nfsproc3_fsinfo,
     nfsproc3_pathconf, nfsproc3_fsstat, nfsproc3_access, nfsproc3_readlink, nfsproc3_readdir,
     mountproc3_umnt, mountproc3_export, pmapproc_getport, At
<1>2. Reads(t)
  BY Zenon, GoesReads DEF handle_unserved, nfsproc3_null, nfsproc3_getattr, nfsproc3_read,
     nfsproc3_fsinfo, nfsproc3_pathconf, nfsproc3_fsstat, nfsproc3_access, nfsproc3_readlink,
     nfsproc3_readdir, mountproc3_umnt, mountproc3_export, pmapproc_getport, Stat
<1>q. QED BY Zenon, <1>1, <1>2, PlainSound

\* Handlers that give out handles of what is there
LEMMA LookupSound ==
  ASSUME Inv, NEW t \in Task, nfsproc3_lookup(t)
  PROVE  Sound(t)
<1> DEFINE r == vfs_lookup(fs, Args(t).fh.id, Args(t).name)
<1>1. ~At(t, "WRITE", "clear")
  BY DEF nfsproc3_lookup, Makes, At
<1>2. r.fs = fs
  BY NfsIs DEF vfs_lookup, Res, lookup, Done, Fail
<1>3. Reads(t) \/ (ActsAndAnswers(t, r) /\ Names(r) /\ written' = written)
  BY Zenon, GoesReads DEF nfsproc3_lookup, Stat, Makes
<1> HIDE DEF r
<1>q. QED BY Zenon, <1>1, <1>2, <1>3, NamesNew, LooksCalls, PlainSound

\* READDIRPLUS gives out the handles of the entries it lists.
LEMMA ReaddirplusSound ==
  ASSUME Inv, NEW t \in Task, nfsproc3_readdirplus(t)
  PROVE  Sound(t)
<1>1. ~At(t, "WRITE", "clear")
  BY DEF nfsproc3_readdirplus, At
<1>2. \/ Reads(t)
      \/ \E e, ids, d : /\ ActsAndAnswers(t, Res(e, fs, d)) /\ written' = written
                        /\ handles' = IF e # "OK" THEN handles ELSE handles \cup Given(ids)
  BY Zenon, GoesReads DEF nfsproc3_readdirplus, Stat
<1>3. ASSUME NEW e, NEW ids, NEW d, ActsAndAnswers(t, Res(e, fs, d)), written' = written,
             handles' = IF e # "OK" THEN handles ELSE handles \cup Given(ids)
      PROVE  Calls(t)
  <2>1. Res(e, fs, d).fs = fs /\ handles' \subseteq handles \cup Given(ids)
    BY <1>3 DEF Res
  <2>q. QED BY Zenon, <1>3, <2>1, GivenNew, LooksCalls
<1>q. QED BY Zenon, <1>1, <1>2, <1>3, PlainSound

\* MNT gives out the handle of the directory it found.
LEMMA MntSound ==
  ASSUME Inv, NEW t \in Task, mountproc3_mnt(t)
  PROVE  Sound(t)
<1>1. ~At(t, "WRITE", "clear") /\ tasks[t].pc # "new"
  BY DEF mountproc3_mnt, At
<1>2. \/ Reads(t)
      \/ \E id : /\ ActsAndAnswers(t, Res("OK", fs, id))
                 /\ handles' = handles \cup Given({id}) /\ written' = written
  BY Zenon, <1>1, GoesReads DEF mountproc3_mnt, path_to_id
<1>3. ASSUME NEW id, ActsAndAnswers(t, Res("OK", fs, id)),
             handles' = handles \cup Given({id}), written' = written
      PROVE  Calls(t)
  <2>1. Res("OK", fs, id).fs = fs /\ handles' \subseteq handles \cup Given({id})
    BY <1>3 DEF Res
  <2>q. QED BY Zenon, <1>3, <2>1, GivenNew, LooksCalls
<1>q. QED BY Zenon, <1>1, <1>2, <1>3, PlainSound

\* Handlers that change entries
LEMMA EntersCalls ==
  ASSUME NEW t \in Task, NEW r, ActsAndAnswers(t, r), Names(r) \/ handles' = handles,
         written' = written, \E E : Frame(fs, r.fs, {}, E)
  PROVE  Calls(t)
<1>1. NewHandles
  BY Zenon, NamesNew DEF NewHandles
<1>q. QED BY Zenon, <1>1 DEF Calls

\* An operation that adds one entry is such a call of the adapter.
LEMMA MakesCalls ==
  ASSUME NEW t \in Task, NEW r, ActsAndAnswers(t, r), Names(r), written' = written,
         NEW p, NEW n, Added(fs, r, p, n)
  PROVE  Calls(t)
BY Zenon, EntersCalls DEF Added

\* CREATE, MKDIR, SYMLINK and MKNOD
LEMMA MakersSound ==
  ASSUME Inv, NEW t \in Task,
         nfsproc3_create(t) \/ nfsproc3_mkdir(t) \/ nfsproc3_symlink(t) \/ nfsproc3_mknod(t)
  PROVE  Sound(t)
<1>0. WellFormed(fs)
  BY DEF Inv, HandlesOK
<1>1. ~At(t, "WRITE", "clear")
  BY DEF nfsproc3_create, create_checks, nfsproc3_mkdir, nfsproc3_symlink, nfsproc3_mknod, StatDir,
     Makes, At
<1> SUFFICES Reads(t) \/ Calls(t)
  BY Zenon, <1>1, PlainSound
<1>2. \A proc : StatDir(t, proc) => Reads(t)
  BY Zenon, GoesReads DEF StatDir, Stat
<1>3. CASE nfsproc3_create(t)
  <2> DEFINE dir == Args(t).fh.id
             r == IF Args(t).how = "EXCLUSIVE"
                  THEN vfs_create_exclusive(fs, dir, Args(t).name, Auth(t))
                  ELSE vfs_create(fs, dir, Args(t).name, Args(t).sattr, Auth(t))
  <2>1. Added(fs, r, dir, Args(t).name)
    BY Zenon, <1>0, MakeAdds
  <2>2. create_checks(t) => Reads(t)
    BY Zenon, GoesReads DEF create_checks
  <2>3. Reads(t) \/ (ActsAndAnswers(t, r) /\ Names(r) /\ written' = written)
    BY Zenon, <1>2, <1>3, <2>2 DEF nfsproc3_create
  <2> HIDE DEF r
  <2>q. QED BY Zenon, <2>1, <2>3, MakesCalls
<1>4. CASE nfsproc3_mkdir(t)
  BY Zenon, <1>0, <1>2, <1>4, MakeAdds, MakesCalls DEF nfsproc3_mkdir, Makes
<1>5. CASE nfsproc3_symlink(t)
  BY Zenon, <1>0, <1>2, <1>5, MakeAdds, MakesCalls DEF nfsproc3_symlink, Makes
<1>6. CASE nfsproc3_mknod(t)
  BY Zenon, <1>0, <1>2, <1>6, GoesReads, MakeAdds, MakesCalls DEF nfsproc3_mknod, Makes
<1>q. QED BY Zenon, <1>3, <1>4, <1>5, <1>6

\* REMOVE, RENAME and LINK
LEMMA TakersSound ==
  ASSUME Inv, NEW t \in Task, nfsproc3_remove(t) \/ nfsproc3_rename(t) \/ nfsproc3_link(t)
  PROVE  Sound(t)
<1>0. WellFormed(fs)
  BY Zenon DEF Inv, HandlesOK
<1>1. ~At(t, "WRITE", "clear")
  BY DEF nfsproc3_remove, nfsproc3_rename, rename_from, rename_to, nfsproc3_link, At
<1> SUFFICES Reads(t) \/ Calls(t)
  BY Zenon, <1>1, PlainSound
<1>2. ASSUME NEW r, ActsAndAnswers(t, r), handles' = handles, written' = written, NEW E,
             Frame(fs, r.fs, {}, E)
      PROVE  Calls(t)
  BY Zenon, <1>2, EntersCalls
<1>3. CASE nfsproc3_remove(t)
  BY Zenon, <1>0, <1>2, <1>3, GoesReads, RemoveTakes DEF nfsproc3_remove, Stat, Peek
<1>4. CASE nfsproc3_rename(t)
  <2> DEFINE p == Args(t).fh.id
             n == Args(t).name
             q == Args(t).to.id
             m == Args(t).newname
             r == vfs_rename(fs, p, n, q, m)
  <2>0. r.fs = rename(fs, p, n, q, m).fs
    BY Zenon, NfsIs DEF vfs_rename
  <2> HIDE DEF r, p, n, q, m
  <2>1. Frame(fs, r.fs, {}, {<<p, n>>, <<q, m>>})
    BY Zenon, <1>0, <2>0, RenameFrame
  <2>2. rename_from(t) => Reads(t)
    BY Zenon, GoesReads DEF rename_from, Peek
  <2>3. rename_to(t) => Reads(t)
    BY Zenon, GoesReads DEF rename_to, Peek
  <2>4. Reads(t) \/ (ActsAndAnswers(t, r) /\ handles' = handles /\ written' = written)
    BY Zenon, <1>4, <2>2, <2>3, GoesReads DEF nfsproc3_rename, Stat, r, p, n, q, m
  <2>q. QED BY Zenon, <1>2, <2>1, <2>4
<1>5. CASE nfsproc3_link(t)
  BY Zenon, <1>0, <1>2, <1>5, GoesReads, MakeAdds DEF nfsproc3_link, Stat, Added
<1>q. QED BY Zenon, <1>3, <1>4, <1>5

-----------------------------------------------------------------------------
(* write and setattr                                                       *)

\* The first call of the adapter by write: r is what it returns, u where the task goes.
SetIdLeft(t, id, r) == Auth(t).uid # 0 /\ r.fs.node[id].perm \cap SetId # {}

WriteActs(t, id, r, u) ==
  /\ At(t, "WRITE", "act") /\ id = Args(t).fh.id
  /\ Wrote(fs, r, id) /\ Acts(t, r, u)
  /\ DOMAIN u \subseteq Own /\ "pc" \in DOMAIN u
  /\ u.pc = IF r.st = "OK" /\ SetIdLeft(t, id, r) THEN "clear" ELSE "post"
  /\ written' = IF r.st = "OK" /\ Auth(t).uid # 0 THEN written \cup {id} ELSE written
  /\ handles' = handles

\* The write itself: its file is cleared, or its task is about to clear it.
LEMMA WriteActSound ==
  ASSUME Inv, NEW t \in Task, NEW id, NEW r, NEW u, WriteActs(t, id, r, u)
  PROVE  Sound(t)
<1> DEFINE X == {<<id, "data">>}
<1>0. WellFormed(fs) /\ TypeOK /\ WrittenOK /\ id = Args(t).fh.id
  BY Zenon DEF Inv, HandlesOK, WriteActs
<1>1. ~At(t, "WRITE", "clear") /\ tasks[t].call.proc = "WRITE" /\ u.pc # "new"
  BY DEF At, WriteActs
<1>2. Moves(t) /\ fs' = r.fs /\ tasks'[t].pc = u.pc
  BY Zenon, <1>0, <1>1, ActsMoves DEF WriteActs
<1>3. /\ Steps(t) /\ Task' = Task /\ tasks'[t].call = tasks[t].call
  BY Zenon, <1>2 DEF Moves, Steps
<1>4. Frame(fs, fs', X, {}) /\ (r.st = "OK" => id \in DOMAIN fs.node)
  BY Zenon, <1>2 DEF Wrote, WriteActs
<1>5. /\ \A i : <<i, "perm">> \notin X
      /\ \A i : <<i, "born">> \notin X
  OBVIOUS
<1> HIDE DEF X
<1>6. ASSUME id \in written'
      PROVE  id \in Nat /\ id < fs'.next /\ Cleared(id)'
  <2>1. id \in Nat /\ id < fs.next
    <3>1. CASE id \in written
      BY Zenon, <1>0, <3>1 DEF WrittenOK
    <3>2. CASE id \in DOMAIN fs.node
      BY <1>0, <3>2 DEF WellFormed
    <3>q. QED BY Zenon, <1>4, <1>6, <3>1, <3>2 DEF WriteActs
  <2>2. /\ id < fs'.next
        /\ id \in DOMAIN fs'.node => id \in DOMAIN fs.node /\ fs'.node[id].perm = fs.node[id].perm
    BY Zenon, <1>0, <1>4, <1>5, <2>1, FrameBelow
  <2>3. CASE r.st = "OK" /\ SetIdLeft(t, id, r)
    <3>1. t \in Task' /\ tasks'[t].pc = "clear"
      BY Zenon, <1>2, <1>3, <2>3 DEF WriteActs
    <3>2. At(t, "WRITE", "clear")' /\ Args(t)'.fh.id = id
      BY Zenon, <1>0, <1>1, <1>3, <3>1 DEF At, Args
    <3>q. QED BY Zenon, <2>1, <2>2, <3>1, <3>2 DEF Cleared
  <2>4. CASE ~SetIdLeft(t, id, r) /\ Auth(t).uid # 0
    BY Zenon, <1>2, <2>1, <2>2, <2>4 DEF Cleared, SetIdLeft
  <2>5. CASE id \in written
    <3>1. Cleared(id)
      BY Zenon, <1>0, <2>5 DEF WrittenOK
    <3>q. QED BY Zenon, <1>1, <1>3, <2>1, <2>2, <3>1, StepsCleared
  <2>q. QED BY Zenon, <1>6, <2>3, <2>4, <2>5 DEF WriteActs
<1>7. WrittenOK'
  <2>1. written' \subseteq written \cup {id}
    BY Zenon DEF WriteActs
  <2>q. QED BY Zenon, <1>0, <1>1, <1>3, <1>4, <1>5, <1>6, <2>1, WrittenKeeps
<1>8. NewHandles
  BY Zenon DEF WriteActs, NewHandles
<1>q. QED BY Zenon, <1>2, <1>4, <1>5, <1>7, <1>8 DEF Sound

\* A step of task t that calls setattr with the attributes s of file id and answers
SetActs(t, id, s, r, u) ==
  /\ id = Args(t).fh.id /\ r = vfs_setattr(fs, id, s)
  /\ Acts(t, r, u) /\ DOMAIN u \subseteq Own /\ "pc" \in DOMAIN u /\ u.pc = "post"
  /\ written' \subseteq written /\ handles' = handles

\* It is sound when it leaves no set-id bits in a file that was written, or its mode alone.
LEMMA SetSound ==
  ASSUME Inv, NEW t \in Task, NEW id, NEW s, NEW r, NEW u, SetActs(t, id, s, r, u),
         id \in DOMAIN fs.node /\ r.st = "OK" /\ id \in written' =>
           (s.mode # {} /\ The(s.mode) \cap SetId = {}) \/ (s.mode = {} /\ ~At(t, "WRITE", "clear"))
  PROVE  Sound(t)
<1> DEFINE X == {<<id, x>> : x \in {"perm", "uid", "gid", "data"}}
<1>0. WellFormed(fs) /\ TypeOK /\ WrittenOK /\ id = Args(t).fh.id
  BY Zenon DEF Inv, HandlesOK, SetActs
<1>1. Moves(t) /\ fs' = r.fs
  <2>1. u.pc # "new"
    BY DEF SetActs
  <2>q. QED BY Zenon, <1>0, <2>1, ActsMoves DEF SetActs
<1>2. Steps(t)
  BY Zenon, <1>1 DEF Moves
<1>3. ASSUME id \in DOMAIN fs.node
      PROVE  Setattred(fs, r, id, s)
  BY Zenon, <1>0, <1>3, SetattrIs DEF SetActs
<1>4. Frame(fs, fs', X, {})
  <2>1. CASE id \in DOMAIN fs.node
    BY Zenon, <1>1, <1>3, <2>1 DEF Setattred
  <2>2. CASE id \notin DOMAIN fs.node
    <3>1. fs' = fs
      BY Zenon, <1>1, <2>2, SetattrGone DEF SetActs
    <3> HIDE DEF X
    <3>q. QED BY Zenon, <1>0, <3>1, FrameSame
  <2>q. QED BY Zenon, <2>1, <2>2
<1>5. /\ \A i : <<i, "born">> \notin X
      /\ \A j : j # id => <<j, "perm">> \notin X
  OBVIOUS
<1> HIDE DEF X
<1>6. ASSUME id \in written'
      PROVE  id \in Nat /\ id < fs'.next /\ Cleared(id)'
  <2>1. id \in Nat /\ id < fs.next /\ Cleared(id)
    BY Zenon, <1>0, <1>6 DEF WrittenOK, SetActs
  <2>2. id < fs'.next /\ (id \in DOMAIN fs'.node => id \in DOMAIN fs.node)
    BY Zenon, <1>0, <1>4, <2>1, FrameBelow
  <2>3. CASE id \notin DOMAIN fs.node
    BY Zenon, <2>1, <2>2, <2>3 DEF Cleared
  <2>4. CASE id \in DOMAIN fs.node
    <3>1. r.st = "OK" /\ fs'.node[id].perm = IF s.mode = {} THEN fs.node[id].perm ELSE The(s.mode)
      BY Zenon, <1>1, <1>3, <2>4 DEF Setattred
    <3>2. CASE s.mode # {} /\ The(s.mode) \cap SetId = {}
      BY Zenon, <2>1, <2>2, <3>1, <3>2 DEF Cleared
    <3>3. CASE s.mode = {} /\ ~At(t, "WRITE", "clear")
      BY Zenon, <1>2, <2>1, <2>2, <2>4, <3>1, <3>3, StepsCleared
    <3>q. QED BY Zenon, <1>6, <2>4, <3>1, <3>2, <3>3
  <2>q. QED BY Zenon, <2>3, <2>4
<1>7. WrittenOK'
  <2>1. written' \subseteq written \cup {id}
    BY Zenon DEF SetActs
  <2>q. QED BY Zenon, <1>0, <1>2, <1>4, <1>5, <1>6, <2>1, WrittenKeeps
<1>8. NewHandles
  BY Zenon DEF SetActs, NewHandles
<1>q. QED BY Zenon, <1>1, <1>4, <1>5, <1>7, <1>8 DEF Sound

\* The member of a set with one member
LEMMA TheOne ==
  ASSUME NEW x
  PROVE  The({x}) = x
BY DEF The

\* WRITE: its checks, the write, and the clearing of the set-id bits
LEMMA WriteSound ==
  ASSUME Inv, NEW t \in Task, nfsproc3_write(t)
  PROVE  Sound(t)
<1> DEFINE id == Args(t).fh.id
           r  == vfs_write(fs, id, Args(t).data)
           clears == r.st = "OK" /\ Auth(t).uid # 0 /\ fattr(r.fs, id).perm \cap SetId # {}
           m  == cleared_mode(tasks[t].attr)
           n  == [NoChange EXCEPT !.mode = {m}]
           s  == vfs_setattr(fs, id, n)
<1>0. WellFormed(fs)
  BY DEF Inv, HandlesOK
<1>1. CASE /\ At(t, "WRITE", "call")
           /\ IF Args(t).short THEN Answer(t, "GARBAGE_ARGS")
              ELSE Stat(t, Args(t).fh, LAMBDA a : can_write(Auth(t), a), "attr", "act")
  <2>1. ~At(t, "WRITE", "clear")
    BY <1>1 DEF At
  <2>2. Reads(t)
    BY Zenon, <1>1, GoesReads DEF Stat
  <2>q. QED BY Zenon, <2>1, <2>2, PlainSound
<1>2. CASE /\ At(t, "WRITE", "act")
           /\ IF clears THEN Acts(t, r, [pc |-> "clear", attr |-> fattr(r.fs, id)])
              ELSE ActsAndAnswers(t, r)
           /\ written' = IF r.st = "OK" /\ Auth(t).uid # 0 THEN written \cup {id} ELSE written
           /\ handles' = handles
  <2>1. Wrote(fs, r, id)
    BY <1>0, WriteIs
  <2> HIDE DEF r, id
  <2> DEFINE u == IF clears THEN [pc |-> "clear", attr |-> fattr(r.fs, id)]
                  ELSE [pc |-> "post", out |-> Append(tasks[t].out, r.st)]
  <2>2. Acts(t, r, u)
    BY <1>2 DEF ActsAndAnswers
  <2>3. /\ DOMAIN u \subseteq Own /\ "pc" \in DOMAIN u
        /\ u.pc = IF r.st = "OK" /\ SetIdLeft(t, id, r) THEN "clear" ELSE "post"
    BY DEF Own, SetIdLeft, fattr
  <2> HIDE DEF u
  <2>4. WriteActs(t, id, r, u)
    BY Zenon, <1>2, <2>1, <2>2, <2>3 DEF WriteActs, id
  <2>q. QED BY <2>4, WriteActSound
<1>3. CASE /\ At(t, "WRITE", "clear")
           /\ Acts(t, s, [pc |-> "post", out |-> Append(tasks[t].out, "OK")])
           /\ handles' = handles /\ written' = written
  <2> DEFINE u == [pc |-> "post", out |-> Append(tasks[t].out, "OK")]
  <2>1. DOMAIN u \subseteq Own /\ "pc" \in DOMAIN u /\ u.pc = "post"
    BY DEF Own
  <2> HIDE DEF u
  <2>2. SetActs(t, id, n, s, u)
    BY Zenon, <1>3, <2>1 DEF SetActs, u
  <2>3. n.mode # {} /\ The(n.mode) \cap SetId = {}
    <3>1. n.mode = {m} /\ m \cap SetId = {}
      BY DEF NoChange, cleared_mode
    <3>q. QED BY <3>1, TheOne
  <2> HIDE DEF n, s, id
  <2>q. QED BY Zenon, <2>2, <2>3, SetSound
<1>q. QED BY Zenon, <1>1, <1>2, <1>3 DEF nfsproc3_write

\* The mode that setattr sets has no set-id bits, unless they are asked for.
LEMMA ModeCleared ==
  ASSUME NEW auth, NEW attr, NEW s, setattr_mode(auth, attr, s) # {},
         s.mode = {} \/ The(s.mode) \cap SetId = {}
  PROVE  The(setattr_mode(auth, attr, s)) \cap SetId = {}
<1>1. CASE s.mode = {}
  <2>1. setattr_mode(auth, attr, s) = {attr.perm \ SetId}
    BY <1>1 DEF setattr_mode
  <2>q. QED BY <2>1, TheOne
<1>2. CASE s.mode # {} /\ auth.uid = 0
  BY <1>2 DEF setattr_mode
<1>3. CASE s.mode # {} /\ auth.uid # 0
  <2>1. \/ setattr_mode(auth, attr, s) = {The(s.mode)}
        \/ setattr_mode(auth, attr, s) = {The(s.mode) \ {"sgid"}}
    BY <1>3 DEF setattr_mode
  <2>2. The(s.mode) \cap SetId = {} /\ (The(s.mode) \ {"sgid"}) \cap SetId = {}
    BY <1>3
  <2>q. QED BY <2>1, <2>2, TheOne
<1>q. QED BY <1>1, <1>2, <1>3

\* SETATTR: its checks, and a mode without set-id bits unless they are asked for
LEMMA SetattrSound ==
  ASSUME Inv, NEW t \in Task, nfsproc3_setattr(t)
  PROVE  Sound(t)
<1> DEFINE id   == Args(t).fh.id
           s    == Args(t).sattr
           m    == setattr_mode(Auth(t), tasks[t].attr, s)
           z    == [mode |-> m, uid |-> s.uid, gid |-> s.gid, size |-> s.size, time |-> s.time]
           r    == vfs_setattr(fs, id, z)
           first == IF Args(t).guard = "mismatch" THEN <<"NOT_SYNC">> ELSE <<>>
<1>0. ~At(t, "WRITE", "clear")
  BY DEF nfsproc3_setattr, At
<1>1. CASE Reads(t)
  BY Zenon, <1>0, <1>1, PlainSound
<1>2. CASE /\ Acts(t, r, [pc |-> "post", out |-> first \o <<r.st>>])
           /\ written' = IF r.st = "OK" /\ s.mode # {} /\ The(s.mode) \cap SetId # {}
                         THEN written \ {id} ELSE written
           /\ handles' = handles
  <2> DEFINE u == [pc |-> "post", out |-> first \o <<r.st>>]
  <2>1. z.mode = m
    OBVIOUS
  <2> HIDE DEF z, first
  <2>2. DOMAIN u \subseteq Own /\ "pc" \in DOMAIN u /\ u.pc = "post"
    BY DEF Own
  <2> HIDE DEF u
  <2>3. SetActs(t, id, z, r, u)
    <3>1. written' \subseteq written
      BY Zenon, <1>2
    <3>q. QED BY Zenon, <1>2, <2>2, <3>1 DEF SetActs, u
  <2>4. ASSUME id \in written', r.st = "OK"
        PROVE  s.mode = {} \/ The(s.mode) \cap SetId = {}
    BY Zenon, <1>2, <2>4
  <2> HIDE DEF r, id, s
  <2>5. ASSUME id \in written', r.st = "OK", m # {}
        PROVE  The(m) \cap SetId = {}
    BY Zenon, <2>4, <2>5, ModeCleared
  <2> HIDE DEF m
  <2>q. QED BY Zenon, <1>0, <2>1, <2>3, <2>5, SetSound
<1>q. QED BY Zenon, <1>1, <1>2, GoesReads DEF nfsproc3_setattr, Stat

\* Every step of every handler
LEMMA HandlerSound ==
  ASSUME Inv, NEW t \in Task, Handler(t)
  PROVE  Sound(t)
BY Zenon, ReadersSound, LookupSound, ReaddirplusSound, MntSound, MakersSound, TakersSound, WriteSound,
   SetattrSound DEF Handler

-----------------------------------------------------------------------------
(* The other steps                                                         *)

\* A step of task t outside its handler: it begins, ends or becomes old.
Outside(t) ==
  /\ Steps(t) /\ tasks[t].pc \in {"new", "post", "done"}
  /\ UNCHANGED <<fs, gen, handles, written>>
  /\ conn' \in [Conn -> {"new", "open", "closed"}]
  /\ \A c \in Conn : /\ conn[c] # "new" => conn'[c] # "new"
                     /\ conn[c] = "closed" => conn'[c] = "closed"
  /\ tasks'[t].ran \in BOOLEAN /\ tasks'[t].aged \in BOOLEAN

\* A step outside a handler keeps all but what is said of the tracker.
LEMMA OutsideKeeps ==
  ASSUME Inv, NEW t \in Task, Outside(t)
  PROVE  TypeOK' /\ HandlesOK' /\ WrittenOK'
<1>1. /\ fs' = fs /\ gen' = gen /\ handles' = handles /\ written' = written /\ Steps(t)
      /\ TypeOK /\ WellFormed(fs) /\ WrittenOK
  BY Zenon DEF Outside, Inv, HandlesOK
<1>2. TypeOK'
  BY Zenon, <1>1, StepsType DEF Outside
<1>3. HandlesOK'
  BY Zenon, <1>1 DEF Inv, HandlesOK, HandleMeant
<1>4. ~At(t, "WRITE", "clear")
  BY DEF Outside, At
<1>5. Frame(fs, fs', {}, {})
  BY Zenon, <1>1, FrameSame
<1>6. WrittenOK'
  BY Zenon, <1>1, <1>4, <1>5, WrittenStays
<1>q. QED BY <1>2, <1>3, <1>6

\* A step outside a handler that begins no call, and drops no entry that matters
LEMMA EndsKeeps ==
  ASSUME Inv, NEW t \in Task, Outside(t), tasks'[t].ran = tasks[t].ran,
         tasks[t].aged => tasks'[t].aged,
         \A u \in Task : tasks'[u].ran /\ ~tasks'[u].aged /\ Key(u) \in DOMAIN transactions
                           /\ transactions[Key(u)] # "Old"
           => Key(u) \in DOMAIN transactions' /\ transactions'[Key(u)] # "Old"
  PROVE  Inv'
<1>1. TypeOK' /\ HandlesOK' /\ WrittenOK'
  BY Zenon, OutsideKeeps
<1>2. Steps(t) /\ AtMostOnce /\ Task' = Task /\ Tracked
  BY Zenon DEF Outside, Inv, Steps
<1>3. AtMostOnce'
  BY Zenon, <1>2, StepsOnce
<1>4. ASSUME NEW u \in Task, tasks'[u].ran, ~tasks'[u].aged
      PROVE  TrackedTask(u)'
  <2>1. tasks[u].ran /\ ~tasks[u].aged /\ tasks[u].conn \in Conn
    BY <1>2, <1>4 DEF Steps, Inv, TypeOK
  <2>2. TrackedTask(u)
    BY Zenon, <1>2, <2>1 DEF Tracked
  <2>q. QED BY Zenon, <1>2, <1>4, <2>1, <2>2, StepsTracked DEF Outside
<1>5. Tracked'
  BY Zenon, <1>2, <1>4 DEF Tracked
<1>q. QED BY <1>1, <1>3, <1>5 DEF Inv

\* Records that are refused before a handler is chosen
LEMMA MalformedKeeps ==
  ASSUME Inv, NEW t \in Task, handle_rpc_malformed(t) \/ handle_rpc_version(t)
  PROVE  Inv'
<1>0. TypeOK /\ tasks[t].pc = "new" /\ tasks[t].conn \in Conn
  BY DEF Inv, TypeOK, handle_rpc_malformed, handle_rpc_version, At
<1>1. \E r : /\ Update(t, r) /\ DOMAIN r \subseteq {"pc", "out"} /\ "pc" \in DOMAIN r /\ r.pc = "done"
  BY DEF handle_rpc_malformed, handle_rpc_version, Goes
<1>2. PICK r : /\ Update(t, r) /\ DOMAIN r \subseteq {"pc", "out"} /\ "pc" \in DOMAIN r /\ r.pc = "done"
  BY <1>1
<1>3. DOMAIN r \subseteq TaskFields \ {"conn", "xid", "call"} /\ r.pc # "new"
      /\ {"ran", "aged"} \subseteq TaskFields \ DOMAIN r
  BY <1>2 DEF TaskFields
<1>4. Steps(t) /\ Becomes(t, r)
  BY Zenon, <1>0, <1>2, <1>3, UpdateSteps
<1>5. tasks'[t].ran = tasks[t].ran /\ tasks'[t].aged = tasks[t].aged
  BY <1>3, <1>4 DEF Becomes
<1>6. /\ UNCHANGED <<fs, gen, handles, written, transactions>>
      /\ conn' = conn \/ conn' = [conn EXCEPT ![tasks[t].conn] = "closed"]
  BY Zenon DEF handle_rpc_malformed, handle_rpc_version, Goes
<1>7. /\ conn' \in [Conn -> {"new", "open", "closed"}]
      /\ \A c \in Conn : /\ conn[c] # "new" => conn'[c] # "new"
                         /\ conn[c] = "closed" => conn'[c] = "closed"
  BY <1>0, <1>6 DEF TypeOK
<1>8. Outside(t)
  BY Zenon, <1>0, <1>4, <1>5, <1>6, <1>7 DEF Outside, TypeOK
<1>q. QED BY <1>5, <1>6, <1>8, EndsKeeps

\* The end of a call, whose answer is sent or lost with its connection
LEMMA ReplyKeeps ==
  ASSUME Inv, NEW t \in Task, Reply(t)
  PROVE  Inv'
<1> DEFINE r == [pc |-> "done"]
<1>0. TypeOK /\ tasks[t].pc = "post" /\ tasks[t].conn \in Conn
  BY DEF Inv, TypeOK, Reply
<1>1. /\ DOMAIN r \subseteq TaskFields \ {"conn", "xid", "call"} /\ "pc" \in DOMAIN r /\ r.pc # "new"
      /\ {"ran", "aged"} \subseteq TaskFields \ DOMAIN r
  BY DEF TaskFields
<1>2. Update(t, r)
  BY DEF Reply
<1> HIDE DEF r
<1>3. Steps(t) /\ Becomes(t, r)
  BY Zenon, <1>0, <1>1, <1>2, UpdateSteps
<1>4. tasks'[t].ran = tasks[t].ran /\ tasks'[t].aged = tasks[t].aged
  BY <1>1, <1>3 DEF Becomes
<1>5. /\ UNCHANGED <<fs, gen, handles, written>>
      /\ conn' = conn \/ conn' = [conn EXCEPT ![tasks[t].conn] = "closed"]
  BY Zenon DEF Reply
<1>6. /\ conn' \in [Conn -> {"new", "open", "closed"}]
      /\ \A c \in Conn : /\ conn[c] # "new" => conn'[c] # "new"
                         /\ conn[c] = "closed" => conn'[c] = "closed"
  BY <1>0, <1>5 DEF TypeOK
<1>7. Outside(t)
  BY Zenon, <1>0, <1>3, <1>4, <1>5, <1>6 DEF Outside, TypeOK
<1>8. \A k \in DOMAIN transactions : transactions[k] # "Old" =>
        k \in DOMAIN transactions' /\ transactions'[k] # "Old"
  BY DEF Reply, mark_processed
<1>q. QED BY Zenon, <1>4, <1>7, <1>8, EndsKeeps

\* A call that grows old: no other call of its key that ran is not old.
LEMMA AgeKeeps ==
  ASSUME Inv, NEW t \in Task, Age(t)
  PROVE  Inv'
<1> DEFINE r == [aged |-> TRUE]
<1>0. TypeOK /\ tasks[t].pc = "done" /\ tasks[t].ran /\ ~tasks[t].aged /\ AtMostOnce
  BY DEF Inv, Age
<1>1. /\ DOMAIN r \subseteq TaskFields \ {"conn", "xid", "call"} /\ "pc" \notin DOMAIN r
      /\ "aged" \in DOMAIN r /\ r.aged = TRUE /\ "ran" \in TaskFields \ DOMAIN r
  BY DEF TaskFields
<1>2. Update(t, r) /\ tasks[t].pc # "new"
  BY <1>0 DEF Age
<1> HIDE DEF r
<1>3. Steps(t) /\ Becomes(t, r)
  BY Zenon, <1>0, <1>1, <1>2, UpdateSteps
<1>4. tasks'[t].ran = tasks[t].ran /\ tasks'[t].aged = TRUE
  BY <1>1, <1>3 DEF Becomes
<1>5. UNCHANGED <<fs, gen, handles, written, conn>>
  BY DEF Age
<1>6. Outside(t)
  BY <1>0, <1>3, <1>4, <1>5 DEF Outside, TypeOK
<1>7. ASSUME NEW u \in Task, tasks'[u].ran, ~tasks'[u].aged, Key(u) \in DOMAIN transactions,
             transactions[Key(u)] # "Old"
      PROVE  Key(u) \in DOMAIN transactions' /\ transactions'[Key(u)] # "Old"
  <2>1. u # t
    BY <1>4, <1>7
  <2>2. tasks[u].ran /\ ~tasks[u].aged
    BY <1>3, <1>7, <2>1 DEF Steps
  <2>3. t \in Nat /\ u \in Nat
    BY <1>0 DEF TypeOK, Task
  <2>4. Key(u) # Key(t)
    BY <1>0, <2>1, <2>2, <2>3 DEF AtMostOnce
  <2>q. QED BY Zenon, <1>7, <2>4 DEF Age
<1>q. QED BY <1>4, <1>6, <1>7, EndsKeeps

\* handle_rpc: a record is dropped, or its call begins.  No call of its key that ran is
\* still remembered then.
LEMMA RpcKeeps ==
  ASSUME Inv, NEW t \in Task, handle_rpc(t)
  PROVE  Inv'
<1> DEFINE kept == housekeeping(transactions)
<1>0. /\ TypeOK /\ tasks[t].pc = "new" /\ tasks[t].conn \in Conn /\ AtMostOnce /\ Tracked
      /\ UNCHANGED <<fs, gen, conn, handles, written>>
  BY DEF Inv, TypeOK, handle_rpc
<1>1. \A k \in DOMAIN transactions : transactions[k] # "Old" => k \in DOMAIN kept /\ kept[k] # "Old"
  BY DEF housekeeping
<1> HIDE DEF kept
<1>2. CASE Update(t, [pc |-> "done"]) /\ transactions' = kept
  <2> DEFINE r == [pc |-> "done"]
  <2>1. /\ DOMAIN r \subseteq TaskFields \ {"conn", "xid", "call"} /\ "pc" \in DOMAIN r /\ r.pc # "new"
        /\ {"ran", "aged"} \subseteq TaskFields \ DOMAIN r
    BY DEF TaskFields
  <2>2. Update(t, r)
    BY <1>2
  <2> HIDE DEF r
  <2>3. Steps(t) /\ Becomes(t, r)
    BY Zenon, <1>0, <2>1, <2>2, UpdateSteps
  <2>4. tasks'[t].ran = tasks[t].ran /\ tasks'[t].aged = tasks[t].aged
    BY <2>1, <2>3 DEF Becomes
  <2>5. Outside(t)
    BY <1>0, <2>3, <2>4 DEF Outside, TypeOK
  <2>q. QED BY Zenon, <1>1, <1>2, <2>4, <2>5, EndsKeeps
<1>3. CASE /\ Key(t) \notin DOMAIN kept
           /\ Update(t, [pc |-> "call", ran |-> TRUE])
           /\ transactions' = Insert(kept, Key(t), "InProgress")
  <2> DEFINE r == [pc |-> "call", ran |-> TRUE]
  <2>1. /\ DOMAIN r \subseteq TaskFields \ {"conn", "xid", "call"} /\ "pc" \in DOMAIN r /\ r.pc # "new"
        /\ "ran" \in DOMAIN r /\ r.ran = TRUE /\ "aged" \in TaskFields \ DOMAIN r
    BY DEF TaskFields
  <2>2. Update(t, r)
    BY <1>3
  <2> HIDE DEF r
  <2>3. Steps(t) /\ Becomes(t, r)
    BY Zenon, <1>0, <2>1, <2>2, UpdateSteps
  <2>4. tasks'[t].ran = TRUE /\ tasks'[t].aged = tasks[t].aged
    BY <2>1, <2>3 DEF Becomes
  <2>5. Outside(t)
    BY <1>0, <2>3, <2>4 DEF Outside, TypeOK
  <2>6. TypeOK' /\ HandlesOK' /\ WrittenOK'
    BY Zenon, <2>5, OutsideKeeps
  <2>7. /\ Task' = Task
        /\ \A u \in Task : Key(u)' = Key(u) /\ tasks[u].conn \in Conn
        /\ \A u \in Task \ {t} : tasks'[u].ran = tasks[u].ran /\ tasks'[u].aged = tasks[u].aged
    BY Zenon, <1>0, <2>3 DEF Steps, Key, TypeOK
  <2>8. ASSUME NEW u \in Task \ {t}, tasks[u].ran, ~tasks[u].aged
        PROVE  TrackedTask(u) /\ Key(u) # Key(t)
    <3>1. TrackedTask(u)
      BY Zenon, <1>0, <2>8 DEF Tracked
    <3>2. ASSUME Key(u) = Key(t)
          PROVE  FALSE
      <4>1. tasks[u].conn = tasks[t].conn
        BY <3>2 DEF Key
      <4>2. ~(\A v \in Task : tasks[v].conn = tasks[u].conn => tasks[v].pc # "new")
        BY <1>0, <4>1
      <4>q. QED BY Zenon, <1>1, <1>3, <3>1, <3>2, <4>2 DEF TrackedTask
    <3>q. QED BY Zenon, <3>1, <3>2
  <2>9. /\ Key(t) \in DOMAIN transactions' /\ transactions'[Key(t)] # "Old"
        /\ \A k \in DOMAIN kept : k \in DOMAIN transactions' /\ (kept[k] # "Old" => transactions'[k] # "Old")
    BY <1>3 DEF Insert
  <2>10. Tracked'
    <3> SUFFICES ASSUME NEW u \in Task, tasks'[u].ran, ~tasks'[u].aged
                 PROVE  TrackedTask(u)'
      BY Zenon, <2>7 DEF Tracked
    <3>1. CASE u = t
      BY Zenon, <2>7, <2>9, <3>1 DEF TrackedTask
    <3>2. CASE u # t
      <4>1. TrackedTask(u)
        BY <2>7, <2>8, <3>2
      <4>q. QED BY Zenon, <1>0, <1>1, <2>3, <2>7, <2>9, <4>1, StepsTracked
    <3>q. QED BY Zenon, <3>1, <3>2
  <2>11. AtMostOnce'
    <3> SUFFICES ASSUME NEW u \in Task, NEW v \in Task, u < v, Key(u)' = Key(v)',
                        tasks'[u].ran, tasks'[v].ran
                 PROVE  tasks'[u].aged \/ tasks'[v].aged
      BY Zenon, <2>7 DEF AtMostOnce
    <3>1. u # v /\ Key(u) = Key(v)
      <4>1. u \in Nat /\ v \in Nat
        BY <1>0 DEF TypeOK, Task
      <4>q. QED BY <2>7, <4>1
    <3>2. CASE u # t /\ v # t
      BY <1>0, <2>7, <3>1, <3>2 DEF AtMostOnce
    <3>3. CASE u = t
      BY <2>7, <2>8, <3>1, <3>3
    <3>4. CASE v = t
      BY <2>7, <2>8, <3>1, <3>4
    <3>q. QED BY Zenon, <3>2, <3>3, <3>4
  <2>q. QED BY <2>6, <2>10, <2>11 DEF Inv
<1>q. QED BY Zenon, <1>2, <1>3 DEF handle_rpc, kept

\* Connections are opened and closed, and fragments arrive.
LEMMA ConnKeeps ==
  ASSUME Inv, UNCHANGED <<fs, gen, transactions, tasks, handles, written>>,
         conn' \in [Conn -> {"new", "open", "closed"}],
         \A c \in Conn : /\ conn[c] # "new" => conn'[c] # "new"
                         /\ conn[c] = "closed" => conn'[c] = "closed"
  PROVE  Inv'
<1>1. TypeOK'
  BY Zenon DEF Inv, TypeOK, Task
<1>2. \A t \in Task : tasks[t].conn \in Conn
  BY Zenon DEF Inv, TypeOK
<1>3. Tracked'
  <2>1. \A t \in Task : TrackedTask(t) => TrackedTask(t)'
    BY Zenon, <1>2 DEF TrackedTask, Key, Task
  <2>q. QED BY Zenon, <2>1 DEF Inv, Tracked, Task
<1>4. AtMostOnce'
  BY DEF Inv, AtMostOnce, Key, Task
<1>5. HandlesOK'
  BY Zenon DEF Inv, HandlesOK, HandleMeant
<1>6. WrittenOK'
  BY Zenon DEF Inv, WrittenOK, Cleared, Task, At, Args
<1>q. QED BY <1>1, <1>3, <1>4, <1>5, <1>6 DEF Inv

\* A record arrives: its task has not run.
LEMMA ReadKeeps ==
  ASSUME Inv, NEW c \in Conn, NEW q, read(c, q)
  PROVE  Inv'
<1> DEFINE k == [conn |-> c, xid |-> q.xid, call |-> q.call, pc |-> "new", attr |-> NoAttr,
                 attr2 |-> NoAttr, entry |-> 0, walked |-> 0, out |-> <<>>, seen |-> {fs},
                 ran |-> FALSE, aged |-> FALSE]
           n == Len(tasks) + 1
<1>0. /\ TypeOK /\ UNCHANGED <<fs, gen, conn, transactions, handles, written>> /\ conn[c] = "open"
      /\ tasks' = Append(tasks, k)
  BY Zenon DEF Inv, read
<1>1. DOMAIN k = TaskFields /\ k.conn = c /\ k.pc = "new" /\ k.ran = FALSE /\ k.aged = FALSE
  BY DEF TaskFields
<1> HIDE DEF k
<1>2. PICK S : tasks \in Seq(S)
  BY Zenon, <1>0 DEF TypeOK
<1>3. /\ tasks' \in Seq(S \cup {k}) /\ Task' = Task \cup {n} /\ n \notin Task /\ tasks'[n] = k
      /\ \A t \in Task : tasks'[t] = tasks[t]
  BY <1>0, <1>2 DEF Task
<1> HIDE DEF n
<1>4. TypeOK'
  <2>1. \A t \in Task' : /\ DOMAIN tasks'[t] = TaskFields
                         /\ tasks'[t].conn \in Conn /\ conn'[tasks'[t].conn] # "new"
                         /\ tasks'[t].ran \in BOOLEAN /\ tasks'[t].aged \in BOOLEAN
    BY <1>0, <1>1, <1>3 DEF TypeOK
  <2>q. QED BY Zenon, <1>0, <1>3, <2>1 DEF TypeOK
<1>5. Tracked'
  <2> SUFFICES ASSUME NEW t \in Task', tasks'[t].ran, ~tasks'[t].aged
               PROVE  TrackedTask(t)'
    BY Zenon DEF Tracked
  <2>1. t \in Task /\ tasks'[t] = tasks[t]
    BY <1>1, <1>3
  <2>2. TrackedTask(t)
    BY <2>1 DEF Inv, Tracked
  <2>3. CASE Key(t) \in DOMAIN transactions /\ transactions[Key(t)] # "Old"
    BY Zenon, <1>0, <2>1, <2>3 DEF TrackedTask, Key
  <2>4. CASE /\ conn[tasks[t].conn] = "closed"
             /\ \A u \in Task : tasks[u].conn = tasks[t].conn => tasks[u].pc # "new"
    <3>1. conn'[tasks'[t].conn] = "closed"
      BY <1>0, <2>1, <2>4
    <3>2. ASSUME NEW u \in Task', tasks'[u].conn = tasks'[t].conn
          PROVE  tasks'[u].pc # "new"
      BY <1>0, <1>1, <1>3, <2>1, <2>4, <3>2
    <3>q. QED BY Zenon, <3>1, <3>2 DEF TrackedTask
  <2>q. QED BY Zenon, <2>2, <2>3, <2>4 DEF TrackedTask
<1>6. AtMostOnce'
  <2> SUFFICES ASSUME NEW t \in Task', NEW u \in Task', t < u, Key(t)' = Key(u)',
                      tasks'[t].ran, tasks'[u].ran
               PROVE  tasks'[t].aged \/ tasks'[u].aged
    BY Zenon DEF AtMostOnce
  <2>1. t \in Task /\ tasks'[t] = tasks[t] /\ u \in Task /\ tasks'[u] = tasks[u]
    BY <1>1, <1>3
  <2>q. QED BY <2>1 DEF Inv, AtMostOnce, Key
<1>7. HandlesOK'
  BY Zenon, <1>0 DEF Inv, HandlesOK, HandleMeant
<1>8. WrittenOK'
  <2>1. \A t \in Task : t \in Task' /\ tasks'[t] = tasks[t]
    BY Zenon, <1>3
  <2>2. \A i : Cleared(i) => Cleared(i)'
    BY Zenon, <1>0, <2>1 DEF Cleared, At, Args
  <2>q. QED BY Zenon, <1>0, <2>2 DEF Inv, WrittenOK
<1>q. QED BY <1>4, <1>5, <1>6, <1>7, <1>8 DEF Inv

\* A restart: every connection with a task is closed, none of its records waits, and the
\* handles given so far are of an older generation.
LEMMA RestartKeeps ==
  ASSUME Inv, Restart
  PROVE  Inv'
<1>0. /\ TypeOK /\ gen' = gen + 1 /\ written' = {} /\ handles' = handles /\ WellFormed(fs)
      /\ conn' = [c \in Conn |-> IF conn[c] = "new" THEN "new" ELSE "closed"]
      /\ tasks' = [t \in Task |-> IF InFlight(t) THEN [tasks[t] EXCEPT !.pc = "lost"] ELSE tasks[t]]
  BY Zenon DEF Inv, Restart, HandlesOK
<1>1. DOMAIN tasks' = Task /\ tasks' = [t \in Task |-> tasks'[t]]
  BY Zenon, <1>0
<1>2. Task' = Task /\ \E S : tasks' \in Seq(S)
  <2>1. Task' = Task
    BY Zenon, <1>1 DEF Task
  <2>q. QED BY <1>0, <1>1, <2>1, TasksSeq DEF TypeOK
<1>3. ASSUME NEW t \in Task
      PROVE  /\ DOMAIN tasks'[t] = TaskFields /\ tasks'[t].pc # "new"
             /\ tasks'[t].conn = tasks[t].conn /\ tasks'[t].xid = tasks[t].xid
             /\ tasks'[t].ran = tasks[t].ran /\ tasks'[t].aged = tasks[t].aged
  <2>1. DOMAIN tasks[t] = TaskFields /\ {"conn", "xid", "ran", "aged", "pc"} \subseteq TaskFields
    BY <1>0 DEF TypeOK, TaskFields
  <2>2. CASE InFlight(t)
    <3>1. tasks'[t] = [tasks[t] EXCEPT !.pc = "lost"]
      BY Zenon, <1>0, <2>2
    <3>q. QED BY <2>1, <3>1
  <2>3. CASE ~InFlight(t)
    <3>1. tasks'[t] = tasks[t]
      BY Zenon, <1>0, <2>3
    <3>q. QED BY <2>1, <2>3, <3>1 DEF InFlight
  <2>q. QED BY Zenon, <2>2, <2>3
<1>4. /\ conn' \in [Conn -> {"new", "open", "closed"}] /\ gen' \in Nat /\ gen \in Nat
      /\ \A c \in Conn : conn[c] # "new" => conn'[c] = "closed"
  BY <1>0 DEF TypeOK
<1>5. \A t \in Task : tasks[t].conn \in Conn /\ conn'[tasks[t].conn] = "closed"
  BY Zenon, <1>0, <1>4 DEF TypeOK
<1>6. TypeOK'
  <2>1. \A t \in Task : /\ DOMAIN tasks'[t] = TaskFields
                        /\ tasks'[t].conn \in Conn /\ conn'[tasks'[t].conn] # "new"
                        /\ tasks'[t].ran \in BOOLEAN /\ tasks'[t].aged \in BOOLEAN
    BY <1>0, <1>3, <1>5 DEF TypeOK
  <2>q. QED BY Zenon, <1>2, <1>4, <2>1 DEF TypeOK
<1>7. Tracked'
  BY Zenon, <1>2, <1>3, <1>5 DEF Tracked, TrackedTask
<1>8. AtMostOnce'
  BY <1>2, <1>3 DEF Inv, AtMostOnce, Key
<1>9. HandlesOK'
  <2>1. PICK max \in DOMAIN fs.node : IsLargest(max, DOMAIN fs.node) /\ fs' = reopen(fs, max, 0, 0)
    BY Zenon DEF Restart
  <2>2. WellFormed(fs')
    BY Zenon, <1>0, <2>1, ReopenFormed
  <2>3. \A h \in handles : h.gen \in Nat /\ h.gen <= gen
    BY Zenon DEF Inv, HandlesOK, HandleMeant
  <2>4. \A h \in handles : h.gen \in Nat /\ h.gen <= gen' /\ h.gen # gen'
    BY <1>0, <1>4, <2>3
  <2>q. QED BY Zenon, <1>0, <2>2, <2>4 DEF HandlesOK, HandleMeant
<1>10. WrittenOK'
  BY <1>0 DEF WrittenOK
<1>q. QED BY <1>6, <1>7, <1>8, <1>9, <1>10 DEF Inv

-----------------------------------------------------------------------------
(* The theorems                                                            *)

\* The invariant holds when the server starts: a database with its handles, and no call.
LEMMA InitInv ==
  ASSUME Init
  PROVE  Inv
<1>0. /\ gen = 1 /\ conn = [c \in Conn |-> "new"] /\ tasks = <<>> /\ written = {} /\ WellFormed(fs)
      /\ handles = {[gen |-> 1, id |-> i, born |-> fs.node[i].born] : i \in DOMAIN fs.node}
  BY Zenon, FsAssumption DEF Init
<1>1. Task = {} /\ tasks \in Seq({})
  BY <1>0 DEF Task
<1>2. TypeOK
  BY <1>0, <1>1 DEF TypeOK
<1>3. Tracked /\ AtMostOnce /\ WrittenOK
  BY <1>0, <1>1 DEF Tracked, AtMostOnce, WrittenOK
<1>4. ASSUME NEW i \in DOMAIN fs.node
      PROVE  i \in Nat /\ i < fs.next
  BY <1>0 DEF WellFormed
<1>5. HandlesOK
  BY <1>0, <1>4 DEF HandlesOK, HandleMeant
<1>q. QED BY <1>2, <1>3, <1>5 DEF Inv

\* Every step keeps the invariant.
LEMMA NextInv ==
  ASSUME Inv, [Next]_vars
  PROVE  Inv'
<1>0. conn \in [Conn -> {"new", "open", "closed"}]
  BY DEF Inv, TypeOK
<1>1. ASSUME NEW c \in Conn, handle_forever(c) \/ Hangup(c)
      PROVE  Inv'
  <2>1. /\ conn' \in [Conn -> {"new", "open", "closed"}]
        /\ \A d \in Conn : /\ conn[d] # "new" => conn'[d] # "new"
                           /\ conn[d] = "closed" => conn'[d] = "closed"
        /\ UNCHANGED <<fs, gen, transactions, tasks, handles, written>>
    BY <1>0, <1>1 DEF handle_forever, Hangup
  <2>q. QED BY Zenon, <2>1, ConnKeeps
<1>2. ASSUME NEW c, NEW q, read_fragment(c, q)
      PROVE  Inv'
  BY Zenon, <1>0, <1>2, ConnKeeps DEF read_fragment
<1>3. ASSUME NEW t \in Task, Runs(t) \/ Age(t)
      PROVE  Inv'
  BY Zenon, <1>3, MalformedKeeps, RpcKeeps, HandlerSound, SoundKeeps, ReplyKeeps, AgeKeeps DEF Runs
<1>4. CASE UNCHANGED vars
  BY Zenon, <1>0, <1>4, ConnKeeps DEF vars
<1>q. QED BY Zenon, <1>1, <1>2, <1>3, <1>4, ReadKeeps, RestartKeeps DEF Next

\* The server keeps its tracker in order, its handles exact, and the files that users
\* wrote free of set-id bits or about to be, in every state it can reach.
THEOREM Invariant == Spec => []Inv
<1>1. Init => Inv
  BY InitInv
<1>2. Inv /\ [Next]_vars => Inv'
  BY NextInv
<1>q. QED BY <1>1, <1>2, PTL DEF Spec

\* The server runs a call at most once per connection and xid until its retention period
\* has passed (tracker.rs), whatever is sent, in whatever order, however often it restarts.
THEOREM CallsRunOnce == Spec => []AtMostOnce
<1>1. Inv => AtMostOnce
  BY DEF Inv
<1>q. QED BY <1>1, Invariant, PTL

\* A handle the server accepts names the file it was given out for (vfs.rs fh_to_id).
THEOREM HandlesAreExact == Spec => []HandlesNeverAlias
<1>1. Inv => HandlesNeverAlias
  <2> SUFFICES ASSUME Inv, NEW h \in handles, fh_to_id(gen, id_to_fh(h.gen, h.id)).st = "OK",
                      Exists(fs, fh_to_id(gen, id_to_fh(h.gen, h.id)).id)
               PROVE  fs.node[fh_to_id(gen, id_to_fh(h.gen, h.id)).id].born = h.born
    BY Zenon DEF HandlesNeverAlias
  <2>1. HandleMeant(h) /\ gen \in Nat
    BY DEF Inv, HandlesOK, TypeOK
  <2>2. id_to_fh(h.gen, h.id).gen = h.gen /\ id_to_fh(h.gen, h.id).id = h.id
    BY DEF id_to_fh
  <2>3. h.gen = gen /\ fh_to_id(gen, id_to_fh(h.gen, h.id)).id = h.id
    BY <2>1, <2>2 DEF fh_to_id, Res, HandleMeant
  <2>q. QED BY <2>1, <2>3 DEF HandleMeant, Exists
<1>q. QED BY <1>1, Invariant, PTL

\* After a user's write a file has no set-id bits, or they are about to be taken off
\* (nfsproc3_write), whatever other calls come in between.
THEOREM WritesClearSetId == Spec => []SetIdCleared
<1>1. Inv => SetIdCleared
  BY Zenon DEF Inv, WrittenOK, SetIdCleared, Cleared, Exists
<1>q. QED BY <1>1, Invariant, PTL
=============================================================================
