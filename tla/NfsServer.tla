----------------------------- MODULE NfsServer -----------------------------
(***************************************************************************)
(* The NFS server: connections, the tracker that recognises                *)
(* retransmissions, and one task per call (cli/src/nfsserve).              *)
(*                                                                         *)
(* A handler awaits the filesystem several times: it reads attributes,     *)
(* checks the caller's permission against them, may look at the entry of a *)
(* sticky directory, acts, and reads the attributes again for the reply.   *)
(* Every await is a step of its task, and the steps of tasks interleave.   *)
(*                                                                         *)
(* The adapter always says it can write, so the branches for a read-only   *)
(* filesystem are left out.  Counts in READDIR and READDIRPLUS are taken   *)
(* to be at least the 128 bytes the code subtracts.  The last awaits, for  *)
(* the attributes after the call, change nothing and are part of the step  *)
(* that replies.                                                           *)
(***************************************************************************)
EXTENDS AgentNfs, FiniteSets

CONSTANTS
  Conn,       \* connections: the address and port of a client, never used again
  Workload,   \* sequences of records [xid, call] that clients send
  InitialFs,  \* filesystems to start from
  NameOrder,  \* all names, sorted
  MaxGen      \* bound: restarts of the server

ASSUME FsAssumption == \A f \in InitialFs : WellFormed(f)

VARIABLES
  fs,            \* the filesystem behind the adapter
  gen,           \* get_generation_number: the time the server started
  conn,          \* "new", "open" or "closed"
  cur_fragment,  \* SocketMessageHandler: the record that has begun to arrive
  transactions,  \* TransactionTracker, by <<xid, connection>>
  tasks,         \* a task for each record, in the order they arrived; seen is a history:
                 \* the filesystems there were since the record came
  handles,       \* history: handles given out, with the inode that was meant
  written        \* history: files a user wrote since their set-id bits were set

vars == <<fs, gen, conn, cur_fragment, transactions, tasks, handles, written>>

NoRecord == [xid |-> 0]

NoAttr == [kind |-> "none"]

Task == DOMAIN tasks

Auth(t) == tasks[t].call.auth

Args(t) == tasks[t].call

Key(t) == <<tasks[t].xid, tasks[t].conn>>

InFlight(t) == tasks[t].pc \notin {"done", "lost"}

At(t, proc, at) == tasks[t].call.proc = proc /\ tasks[t].pc = at

\* Record s with the fields of r in the place of its own
With(r, s) == [x \in DOMAIN r \cup DOMAIN s |-> IF x \in DOMAIN r THEN r[x] ELSE s[x]]

\* Fields of task t get new values.
Update(t, r) == tasks' = [tasks EXCEPT ![t] = With(r, @)]

\* The task goes on without touching the filesystem.
Goes(t, r) == Update(t, r) /\ UNCHANGED <<fs, gen, conn, cur_fragment, transactions, handles, written>>

\* A result is serialized and the handler returns.
Answer(t, st) == Goes(t, [pc |-> "post", out |-> Append(tasks[t].out, st)])

\* Handles of files, with the inodes they are meant for
Given(ids) ==
  {[gen |-> gen, id |-> i, born |-> fs'.node[i].born] : i \in ids \cap DOMAIN fs'.node}

\* The task calls the adapter; what other tasks read before may be stale now.
Acts(t, r, upd) ==
  /\ fs' = r.fs
  /\ tasks' = [u \in Task |->
       IF u = t THEN With(upd, tasks[t])
       ELSE [tasks[u] EXCEPT !.seen = @ \cup {r.fs}]]
  /\ UNCHANGED <<gen, conn, cur_fragment, transactions>>

\* ... and answers with the status of the call.
ActsAndAnswers(t, r) == Acts(t, r, [pc |-> "post", out |-> Append(tasks[t].out, r.st)])

\* A reply with a handle
Names(r) == handles' = IF r.st = "OK" THEN handles \cup Given({r.id}) ELSE handles

-----------------------------------------------------------------------------
(* Connections and records                                                 *)

Init ==
  /\ fs \in InitialFs
  /\ gen = 1
  /\ conn = [c \in Conn |-> "new"]
  /\ cur_fragment = [c \in Conn |-> NoRecord]
  /\ transactions = [k \in {} |-> "Completed"]
  /\ tasks = <<>>
  /\ handles = {[gen |-> 1, id |-> i, born |-> fs.node[i].born] : i \in DOMAIN fs.node}
  /\ written = {}

\* handle_forever: accept
handle_forever(c) ==
  /\ conn[c] = "new"
  /\ conn' = [conn EXCEPT ![c] = "open"]
  /\ UNCHANGED <<fs, gen, cur_fragment, transactions, tasks, handles, written>>

\* process_socket: the client closes the connection; its tasks go on.
Hangup(c) ==
  /\ conn[c] = "open"
  /\ conn' = [conn EXCEPT ![c] = "closed"]
  /\ UNCHANGED <<fs, gen, cur_fragment, transactions, tasks, handles, written>>

\* The records that may come next
Due ==
  {w[Len(tasks) + 1] : w \in {v \in Workload : /\ Len(v) > Len(tasks)
                                               /\ \A t \in Task : v[t] = [xid |-> tasks[t].xid, call |-> tasks[t].call]}}

\* Clients name handles they were given.
Sent(r) == \A h \in r.call.fhs : \E g \in handles : h = id_to_fh(g.gen, g.id)

\* read_fragment: not the last fragment of a record
read_fragment(c, r) ==
  /\ conn[c] = "open" /\ Sent(r)
  /\ cur_fragment[c] = NoRecord
  /\ cur_fragment' = [cur_fragment EXCEPT ![c] = r]
  /\ UNCHANGED <<fs, gen, conn, transactions, tasks, handles, written>>

\* SocketMessageHandler::read: the last fragment; a task is spawned for the record.
read(c, r) ==
  /\ conn[c] = "open" /\ Sent(r)
  /\ cur_fragment[c] \in {NoRecord, r}
  /\ cur_fragment' = [cur_fragment EXCEPT ![c] = NoRecord]
  /\ tasks' = Append(tasks,
       [conn |-> c, xid |-> r.xid, call |-> r.call, pc |-> "new", attr |-> NoAttr,
        attr2 |-> NoAttr, entry |-> 0, walked |-> 0, out |-> <<>>, seen |-> {fs}, ran |-> FALSE, aged |-> FALSE])
  /\ UNCHANGED <<fs, gen, conn, transactions, handles, written>>

-----------------------------------------------------------------------------
(* The tracker                                                             *)

\* housekeeping: entries completed more than the retention period ago are dropped.
housekeeping(tr) == [k \in {x \in DOMAIN tr : tr[x] # "Old"} |-> tr[k]]

\* 60 seconds pass after the call was completed.
Age(t) ==
  /\ tasks[t].pc = "done" /\ tasks[t].ran /\ ~tasks[t].aged
  /\ Update(t, [aged |-> TRUE])
  /\ transactions' = [k \in DOMAIN transactions |->
       IF k = Key(t) /\ transactions[k] = "Completed" THEN "Old" ELSE transactions[k]]
  /\ UNCHANGED <<fs, gen, conn, cur_fragment, handles, written>>

\* Mutant of mark_processed: the entry is taken out.
mark_processed_forget(t) ==
  transactions' = [k \in DOMAIN transactions \ {Key(t)} |-> transactions[k]]

mark_processed(t) ==
  transactions' = [k \in DOMAIN transactions |->
                     IF k = Key(t) THEN "Completed" ELSE transactions[k]]

\* handle_rpc of something that is not a call, or has unreadable credentials: the error
\* closes the connection.
handle_rpc_malformed(t) ==
  /\ At(t, "MALFORMED", "new")
  /\ Update(t, [pc |-> "done"])
  /\ conn' = [conn EXCEPT ![tasks[t].conn] = "closed"]
  /\ UNCHANGED <<fs, gen, cur_fragment, transactions, handles, written>>

\* handle_rpc of another RPC version: the reply does not go through the tracker.
handle_rpc_version(t) ==
  /\ At(t, "RPCVERS", "new")
  /\ Goes(t, [pc |-> "done", out |-> <<"RPC_MISMATCH">>])

\* handle_rpc: is_retransmission; the record is dropped without a reply, or the call
\* begins.
handle_rpc(t) ==
  /\ tasks[t].pc = "new"
  /\ tasks[t].call.proc \notin {"MALFORMED", "RPCVERS"}
  /\ LET kept == housekeeping(transactions) IN
     IF Key(t) \in DOMAIN kept
     THEN /\ Update(t, [pc |-> "done"])
          /\ transactions' = kept
     ELSE /\ Update(t, [pc |-> "call", ran |-> TRUE])
          /\ transactions' = Insert(kept, Key(t), "InProgress")
  /\ UNCHANGED <<fs, gen, conn, cur_fragment, handles, written>>

\* The end of handle_rpc and of the spawned task, and process_socket: the call is marked
\* and the reply is written, or the connection is closed for an error.
Reply(t) ==
  /\ tasks[t].pc = "post"
  /\ mark_processed(t)
  /\ Update(t, [pc |-> "done"])
  /\ conn' = IF tasks[t].out[Len(tasks[t].out)] = "ERROR"
             THEN [conn EXCEPT ![tasks[t].conn] = "closed"] ELSE conn
  /\ UNCHANGED <<fs, gen, cur_fragment, handles, written>>

\* Programs, versions and procedures that are not served, and arguments that cannot be
\* read: handle_rpc, handle_nfs, handle_portmap, handle_mount.
handle_unserved(t) ==
  \/ At(t, "PROGRAM", "call") /\ Answer(t, "PROG_UNAVAIL")
  \/ At(t, "VERSION", "call") /\ Answer(t, "PROG_MISMATCH")
  \/ At(t, "COMMIT", "call") /\ Answer(t, "PROC_UNAVAIL")
  \/ At(t, "GARBAGE", "call") /\ Answer(t, "ERROR")

-----------------------------------------------------------------------------
(* Steps the handlers share                                                *)

\* The handle is resolved, the attributes are read and the permission is checked
\* against them; then the handler goes on at `next`.
Stat(t, h, Allows(_), field, next) ==
  LET r == fh_to_id(gen, h) IN
  IF r.st # "OK" THEN Answer(t, r.st)
  ELSE IF vfs_getattr(fs, r.id).st # "OK" THEN Answer(t, vfs_getattr(fs, r.id).st)
  ELSE IF ~Allows(fattr(fs, r.id)) THEN Answer(t, "ACCES")
  ELSE Goes(t, [x \in {"pc", field} |-> IF x = "pc" THEN next ELSE fattr(fs, r.id)])

Anyone(attr) == TRUE

\* Entry of a sticky directory, first its id ...
Peek(t, dir, name, next) ==
  Goes(t, [pc |-> next, entry |-> vfs_lookup(fs, dir, name).id])

\* ... then its attributes.  Where there is no entry, the directory alone decides.
Peeked(t, dirAttr) ==
  IF Exists(fs, tasks[t].entry)
  THEN can_delete_entry(Auth(t), dirAttr, fattr(fs, tasks[t].entry))
  ELSE can_modify_directory(Auth(t), dirAttr)

\* create, mkdir, symlink, mknod and link: write and search permission on the directory
StatDir(t, proc) ==
  /\ At(t, proc, "call")
  /\ Stat(t, Args(t).fh, LAMBDA a : can_modify_directory(Auth(t), a), "attr", "act")

Makes(t, proc, r) ==
  At(t, proc, "act") /\ ActsAndAnswers(t, r) /\ Names(r) /\ UNCHANGED written

-----------------------------------------------------------------------------
(* Handlers that only read                                                 *)

nfsproc3_null(t) == At(t, "NULL", "call") /\ Answer(t, "OK")

nfsproc3_getattr(t) ==
  /\ At(t, "GETATTR", "call")
  /\ LET h == fh_to_id(gen, Args(t).fh) IN
     Answer(t, IF h.st # "OK" THEN h.st ELSE vfs_getattr(fs, h.id).st)

nfsproc3_lookup(t) ==
  \/ /\ At(t, "LOOKUP", "call")
     /\ Stat(t, Args(t).fh, LAMBDA a : can_execute(Auth(t), a), "attr", "act")
  \/ Makes(t, "LOOKUP", vfs_lookup(fs, Args(t).fh.id, Args(t).name))

nfsproc3_read(t) ==
  \/ /\ At(t, "READ", "call")
     /\ Stat(t, Args(t).fh, LAMBDA a : can_read(Auth(t), a), "attr", "act")
  \/ At(t, "READ", "act") /\ Answer(t, vfs_read(fs, Args(t).fh.id).st)

\* fsinfo, pathconf and fsstat answer even when the file is gone.
nfsproc3_fsinfo(t) == At(t, "FSINFO", "call") /\ Answer(t, fh_to_id(gen, Args(t).fh).st)

nfsproc3_pathconf(t) == At(t, "PATHCONF", "call") /\ Answer(t, fh_to_id(gen, Args(t).fh).st)

nfsproc3_fsstat(t) == At(t, "FSSTAT", "call") /\ Answer(t, fh_to_id(gen, Args(t).fh).st)

\* access: the answer is the set of granted bits.
nfsproc3_access(t) ==
  \/ At(t, "ACCESS", "call") /\ Stat(t, Args(t).fh, Anyone, "attr", "act")
  \/ /\ At(t, "ACCESS", "act")
     /\ Goes(t, [pc |-> "post", out |-> <<"OK">>, entry |->
                   compute_access(Auth(t), tasks[t].attr, Args(t).access)])

nfsproc3_readlink(t) ==
  \/ At(t, "READLINK", "call") /\ Stat(t, Args(t).fh, Anyone, "attr", "act")
  \/ At(t, "READLINK", "act") /\ Answer(t, vfs_readlink(fs, Args(t).fh.id).st)

\* A page of a listing: the entries readdir returns, at most max of them, and of those
\* the ones there is room for.  It is the end only if all of them were written.
Page(dir, cookie, max, room) ==
  LET r == vfs_readdir(fs, dir, cookie, max, NameOrder)
      n == IF Len(r.names) < room THEN Len(r.names) ELSE room
  IN  [names |-> SubSeq(r.names, 1, n), eof |-> r.end /\ n = Len(r.names)]

nfsproc3_readdirplus(t) ==
  LET d == Args(t).fh.id
      e == error_to_nfsstat(readdir_error(fs, d))
      p == Page(d, Args(t).cookie, Args(t).max, Args(t).max)
  IN
  \/ /\ At(t, "READDIRPLUS", "call")
     /\ Stat(t, Args(t).fh, LAMBDA a : can_read(Auth(t), a), "attr", "act")
  \/ /\ At(t, "READDIRPLUS", "act")
     /\ ActsAndAnswers(t, Res(e, fs, d))
     /\ handles' = IF e # "OK" THEN handles
                   ELSE handles \cup Given({fs.dent[<<d, n>>] : n \in {p.names[k] : k \in DOMAIN p.names}})
     /\ UNCHANGED written

\* readdir: readdir_simple always begins at the first entry, whatever the cookie.
nfsproc3_readdir(t) ==
  \/ /\ At(t, "READDIR", "call")
     /\ Stat(t, Args(t).fh, LAMBDA a : can_read(Auth(t), a), "attr", "act")
  \/ /\ At(t, "READDIR", "act")
     /\ Answer(t, error_to_nfsstat(readdir_error(fs, Args(t).fh.id)))

-----------------------------------------------------------------------------
(* Handlers that write                                                     *)

\* Mutant of cleared_mode: the set-user-id bit stays.
cleared_mode_sgid(attr) == attr.perm \ {"sgid"}

cleared_mode(attr) == attr.perm \ SetId

\* write: with set-id bits in the mode the write returned, a user's call clears them by
\* a second call of the adapter, whose errors are ignored.
nfsproc3_write(t) ==
  LET id == Args(t).fh.id
      r  == vfs_write(fs, id, Args(t).data)
      clears == r.st = "OK" /\ Auth(t).uid # 0 /\ fattr(r.fs, id).perm \cap SetId # {}
      s  == vfs_setattr(fs, id, [NoChange EXCEPT !.mode = {cleared_mode(tasks[t].attr)}])
  IN
  \/ /\ At(t, "WRITE", "call")
     /\ IF Args(t).short THEN Answer(t, "GARBAGE_ARGS")
        ELSE Stat(t, Args(t).fh, LAMBDA a : can_write(Auth(t), a), "attr", "act")
  \/ /\ At(t, "WRITE", "act")
     /\ IF clears THEN Acts(t, r, [pc |-> "clear", attr |-> fattr(r.fs, id)])
        ELSE ActsAndAnswers(t, r)
     /\ written' = IF r.st = "OK" /\ Auth(t).uid # 0 THEN written \cup {id} ELSE written
     /\ UNCHANGED handles
  \/ /\ At(t, "WRITE", "clear")
     /\ Acts(t, s, [pc |-> "post", out |-> Append(tasks[t].out, "OK")])
     /\ UNCHANGED <<handles, written>>

\* create, GUARDED: a lookup first
create_checks(t) ==
  /\ At(t, "CREATE", "act") /\ Args(t).how = "GUARDED"
  /\ IF vfs_lookup(fs, Args(t).fh.id, Args(t).name).st = "OK"
     THEN Answer(t, "EXIST") ELSE Goes(t, [pc |-> "create"])

nfsproc3_create(t) ==
  LET dir == Args(t).fh.id
      r == IF Args(t).how = "EXCLUSIVE"
           THEN vfs_create_exclusive(fs, dir, Args(t).name, Auth(t))
           ELSE vfs_create(fs, dir, Args(t).name, Args(t).sattr, Auth(t))
  IN
  \/ StatDir(t, "CREATE")
  \/ create_checks(t)
  \/ /\ tasks[t].call.proc = "CREATE"
     /\ tasks[t].pc = IF Args(t).how = "GUARDED" THEN "create" ELSE "act"
     /\ ActsAndAnswers(t, r) /\ Names(r) /\ UNCHANGED written

nfsproc3_mkdir(t) ==
  \/ StatDir(t, "MKDIR")
  \/ Makes(t, "MKDIR", vfs_mkdir(fs, Args(t).fh.id, Args(t).name, Args(t).sattr, Auth(t)))

nfsproc3_symlink(t) ==
  \/ StatDir(t, "SYMLINK")
  \/ Makes(t, "SYMLINK", vfs_symlink(fs, Args(t).fh.id, Args(t).name, Args(t).target, Auth(t)))

\* mknod: a regular file or a directory is refused before anything is looked at.
nfsproc3_mknod(t) ==
  \/ /\ At(t, "MKNOD", "call") /\ Args(t).kind \in {"reg", "dir", "lnk"}
     /\ Answer(t, "BADTYPE")
  \/ /\ Args(t).proc = "MKNOD" /\ Args(t).kind \notin {"reg", "dir", "lnk"}
     /\ StatDir(t, "MKNOD")
  \/ Makes(t, "MKNOD", vfs_mknod(fs, Args(t).fh.id, Args(t).name, Args(t).kind,
                                 Args(t).sattr, Auth(t)))

\* Why a setattr is refused, by the attributes that were read: the first check that
\* fails
setattr_refusal(auth, attr, s) ==
  IF s.size # {} /\ ~can_write(auth, attr) THEN "ACCES"
  ELSE IF s.mode # {} /\ ~is_owner(auth, attr) THEN "PERM"
  ELSE IF s.uid # {} /\ auth.uid # 0 /\ The(s.uid) # attr.uid THEN "PERM"
  ELSE IF s.gid # {} /\ auth.uid # 0 /\ ~is_owner(auth, attr) THEN "PERM"
  ELSE IF s.gid # {} /\ auth.uid # 0 /\ ~is_in_group(auth, The(s.gid)) THEN "PERM"
  ELSE IF "explicit" \in s.time /\ ~is_owner(auth, attr) THEN "PERM"
  ELSE "OK"

\* The mode a setattr sets: a user outside the group loses the set-group-id bit, and a
\* user's chown or chgrp takes the set-id bits off the mode that was read.
setattr_mode(auth, attr, s) ==
  LET gid == IF s.gid = {} THEN attr.gid ELSE The(s.gid) IN
  IF auth.uid = 0 THEN s.mode
  ELSE IF s.mode # {}
  THEN {IF is_in_group(auth, gid) THEN The(s.mode) ELSE The(s.mode) \ {"sgid"}}
  ELSE IF (s.uid # {} \/ s.gid # {}) /\ attr.perm \cap SetId # {}
  THEN {attr.perm \ SetId}
  ELSE {}

\* setattr: a guard that does not match puts a result in the reply but does not end the
\* handler, which goes on to set the attributes and to put a second one.
nfsproc3_setattr(t) ==
  LET id   == Args(t).fh.id
      s    == Args(t).sattr
      attr == tasks[t].attr
      no   == setattr_refusal(Auth(t), attr, s)
      r    == vfs_setattr(fs, id, [mode |-> setattr_mode(Auth(t), attr, s), uid |-> s.uid,
                                   gid |-> s.gid, size |-> s.size, time |-> s.time])
      first == IF Args(t).guard = "mismatch" THEN <<"NOT_SYNC">> ELSE <<>>
  IN
  \/ At(t, "SETATTR", "call") /\ Stat(t, Args(t).fh, Anyone, "attr", "act")
  \/ At(t, "SETATTR", "act") /\ no # "OK" /\ Answer(t, no)
  \/ /\ At(t, "SETATTR", "act") /\ no = "OK"
     /\ Acts(t, r, [pc |-> "post", out |-> first \o <<r.st>>])
     /\ written' = IF r.st = "OK" /\ s.mode # {} /\ The(s.mode) \cap SetId # {}
                   THEN written \ {id} ELSE written
     /\ UNCHANGED handles

\* remove, which also serves RMDIR
nfsproc3_remove(t) ==
  LET dir == Args(t).fh.id  n == Args(t).name  attr == tasks[t].attr IN
  \/ At(t, "REMOVE", "call") /\ Stat(t, Args(t).fh, Anyone, "attr", "check")
  \/ /\ At(t, "REMOVE", "check")
     /\ IF "sticky" \in attr.perm THEN Peek(t, dir, n, "peek")
        ELSE IF can_modify_directory(Auth(t), attr) THEN Goes(t, [pc |-> "act"])
        ELSE Answer(t, "ACCES")
  \/ /\ At(t, "REMOVE", "peek")
     /\ IF Peeked(t, attr) THEN Goes(t, [pc |-> "act"]) ELSE Answer(t, "ACCES")
  \/ /\ At(t, "REMOVE", "act")
     /\ ActsAndAnswers(t, vfs_remove(fs, dir, n))
     /\ UNCHANGED <<handles, written>>

\* rename, the permissions on the source: who moves a directory out of a sticky one
\* must own it.
MayMoveAway(t, attr) ==
  LET e == tasks[t].entry IN
  /\ Peeked(t, attr)
  /\ (IsDir(fs, e) /\ Args(t).fh.id # Args(t).to.id /\ Auth(t).uid # 0)
       => Auth(t).uid = fattr(fs, e).uid

rename_from(t) ==
  LET attr == tasks[t].attr IN
  \/ /\ At(t, "RENAME", "from")
     /\ IF "sticky" \in attr.perm THEN Peek(t, Args(t).fh.id, Args(t).name, "peek")
        ELSE IF can_modify_directory(Auth(t), attr) THEN Goes(t, [pc |-> "to"])
        ELSE Answer(t, "ACCES")
  \/ /\ At(t, "RENAME", "peek")
     /\ IF MayMoveAway(t, attr) THEN Goes(t, [pc |-> "to"]) ELSE Answer(t, "ACCES")

\* ... and on the target
rename_to(t) ==
  LET attr == tasks[t].attr2 IN
  \/ /\ At(t, "RENAME", "to")
     /\ IF "sticky" \in attr.perm THEN Peek(t, Args(t).to.id, Args(t).newname, "peek.to")
        ELSE IF can_modify_directory(Auth(t), attr) THEN Goes(t, [pc |-> "act"])
        ELSE Answer(t, "ACCES")
  \/ /\ At(t, "RENAME", "peek.to")
     /\ IF Peeked(t, attr) THEN Goes(t, [pc |-> "act"]) ELSE Answer(t, "ACCES")

\* Both handles are resolved before anything is read.
nfsproc3_rename(t) ==
  \/ /\ At(t, "RENAME", "call")
     /\ IF fh_to_id(gen, Args(t).fh).st = "OK" /\ fh_to_id(gen, Args(t).to).st # "OK"
        THEN Answer(t, fh_to_id(gen, Args(t).to).st)
        ELSE Stat(t, Args(t).fh, Anyone, "attr", "stat.to")
  \/ At(t, "RENAME", "stat.to") /\ Stat(t, Args(t).to, Anyone, "attr2", "from")
  \/ rename_from(t)
  \/ rename_to(t)
  \/ /\ At(t, "RENAME", "act")
     /\ ActsAndAnswers(t, vfs_rename(fs, Args(t).fh.id, Args(t).name, Args(t).to.id,
                                     Args(t).newname))
     /\ UNCHANGED <<handles, written>>

nfsproc3_link(t) ==
  \/ At(t, "LINK", "call") /\ Stat(t, Args(t).fh, Anyone, "attr", "stat.to")
  \/ /\ At(t, "LINK", "stat.to")
     /\ IF tasks[t].attr.kind = "dir" THEN Answer(t, "ISDIR")
        ELSE Stat(t, Args(t).to, LAMBDA a : can_modify_directory(Auth(t), a), "attr2", "act")
  \/ /\ At(t, "LINK", "act")
     /\ ActsAndAnswers(t, vfs_link(fs, Args(t).fh.id, Args(t).to.id, Args(t).newname))
     /\ UNCHANGED <<handles, written>>

-----------------------------------------------------------------------------
(* The mount and portmap programs                                          *)

\* path_to_id: one lookup after the other, from the root; the task keeps the id and how
\* far it is.
path_to_id(t) ==
  LET k == tasks[t].walked + 1
      r == vfs_lookup(fs, IF k = 1 THEN ROOT_INO ELSE tasks[t].entry, Args(t).path[k])
  IN  IF r.st = "OK" THEN Goes(t, [walked |-> k, entry |-> r.id])
      ELSE Answer(t, "MNT3ERR_NOENT")

\* mnt: a path outside the export, or that leads nowhere, is refused.
mountproc3_mnt(t) ==
  \/ At(t, "MNT", "call") /\ ~Args(t).exported /\ Answer(t, "MNT3ERR_NOENT")
  \/ At(t, "MNT", "call") /\ Args(t).exported /\ Goes(t, [pc |-> "walk"])
  \/ At(t, "MNT", "walk") /\ tasks[t].walked < Len(Args(t).path) /\ path_to_id(t)
  \/ /\ At(t, "MNT", "walk") /\ tasks[t].walked = Len(Args(t).path)
     /\ LET id == IF Args(t).path = <<>> THEN ROOT_INO ELSE tasks[t].entry IN
        /\ ActsAndAnswers(t, Res("OK", fs, id))
        /\ handles' = handles \cup Given({id})
     /\ UNCHANGED written

\* null, export, umnt and umnt_all change nothing here: no mount listener is set.
mountproc3_umnt(t) == At(t, "UMNT", "call") /\ Answer(t, "OK")

mountproc3_export(t) == At(t, "EXPORT", "call") /\ Answer(t, "OK")

pmapproc_getport(t) == At(t, "GETPORT", "call") /\ Answer(t, "OK")

-----------------------------------------------------------------------------
\* The server process ends, or crashes, and root starts a new one on the same database.
Restart ==
  /\ gen <= MaxGen
  /\ gen' = gen + 1
  /\ \E max \in DOMAIN fs.node : IsLargest(max, DOMAIN fs.node) /\ fs' = reopen(fs, max, 0, 0)
  /\ conn' = [c \in Conn |-> IF conn[c] = "new" THEN "new" ELSE "closed"]
  /\ cur_fragment' = [c \in Conn |-> NoRecord]
  /\ transactions' = [k \in {} |-> "Completed"]
  /\ tasks' = [t \in Task |-> IF InFlight(t) THEN [tasks[t] EXCEPT !.pc = "lost"] ELSE tasks[t]]
  /\ written' = {}
  /\ UNCHANGED handles

Handler(t) ==
  \/ handle_unserved(t)
  \/ nfsproc3_null(t) \/ nfsproc3_getattr(t) \/ nfsproc3_lookup(t) \/ nfsproc3_read(t)
  \/ nfsproc3_fsinfo(t) \/ nfsproc3_pathconf(t) \/ nfsproc3_fsstat(t) \/ nfsproc3_access(t)
  \/ nfsproc3_readlink(t) \/ nfsproc3_readdirplus(t) \/ nfsproc3_readdir(t)
  \/ nfsproc3_write(t) \/ nfsproc3_create(t) \/ nfsproc3_mkdir(t) \/ nfsproc3_symlink(t)
  \/ nfsproc3_mknod(t) \/ nfsproc3_setattr(t) \/ nfsproc3_remove(t) \/ nfsproc3_rename(t)
  \/ nfsproc3_link(t) \/ mountproc3_mnt(t) \/ mountproc3_umnt(t) \/ mountproc3_export(t)
  \/ pmapproc_getport(t)

Runs(t) ==
  \/ handle_rpc_malformed(t) \/ handle_rpc_version(t) \/ handle_rpc(t)
  \/ Handler(t)
  \/ Reply(t)

Next ==
  \/ \E c \in Conn : handle_forever(c) \/ Hangup(c)
  \/ \E r \in Due : \E c \in Conn : read_fragment(c, r) \/ read(c, r)
  \/ \E t \in Task : Runs(t) \/ Age(t)
  \/ Restart

Spec == Init /\ [][Next]_vars
-----------------------------------------------------------------------------
(* Properties                                                              *)

\* A record that is sent again on its connection is not executed again before the
\* retention period has passed (tracker.rs).
AtMostOnce ==
  \A t, u \in Task :
    (t < u /\ Key(t) = Key(u) /\ tasks[t].ran /\ tasks[u].ran) => tasks[t].aged \/ tasks[u].aged

\* A handle that the server accepts names the file it was given out for, even after a
\* restart has made inode numbers available again (vfs.rs, fh_to_id).
HandlesNeverAlias ==
  \A h \in handles :
    LET r == fh_to_id(gen, id_to_fh(h.gen, h.id))
    IN  r.st = "OK" /\ Exists(fs, r.id) => fs.node[r.id].born = h.born

\* After a user's write the file has no set-id bits, until its owner sets them again:
\* nfsproc3_write clears them by a second call, between which and the first other calls
\* may come.
SetIdCleared ==
  \A i \in written :
    \/ ~Exists(fs, i)
    \/ fs.node[i].perm \cap SetId = {}
    \/ \E t \in Task : At(t, "WRITE", "clear") /\ Args(t).fh.id = i

\* Pages of a directory, asked for one after the other from the last entry's cookie
Listing(dir, max, room) ==
  LET page[k \in 0 .. Cardinality(DOMAIN fs.dent)] ==
        IF k = 0 THEN Page(dir, 0, max, room)
        ELSE LET p == page[k - 1] IN
             IF p.eof THEN p
             ELSE LET q == Page(dir, fs.dent[<<dir, p.names[Len(p.names)]>>], max, room)
                  IN  [names |-> p.names \o q.names, eof |-> q.eof]
  IN  page[Cardinality(DOMAIN fs.dent)]

\* READDIRPLUS lists every entry once, in order, and ends, however few entries a page
\* has, in a directory with no two names of one file (nfs.rs readdir, whose cookie is
\* the file's id).
ListingExact ==
  \A d \in {i \in DOMAIN fs.node : fs.node[i].kind = "dir"} :
    LET kids == Children(fs, d)
    IN  (\A m, n \in kids : m # n => fs.dent[m] # fs.dent[n])
          => \A max, room \in 1 .. 2 :
               Listing(d, max, room) = [names |-> readdir_plus(fs, d, NameOrder), eof |-> TRUE]

\* POSIX: the first class the caller is in decides; root may write anything.
Grants(auth, o, bits) ==
  auth.uid = 0 \/ LET c == IF auth.uid = o.uid THEN 1 ELSE IF is_in_group(auth, o.gid) THEN 2 ELSE 3
                  IN  bits[c] \in o.perm

MayWrite(auth, o) == Grants(auth, o, <<"uw", "gw", "ow">>)

MaySearch(auth, o) == Grants(auth, o, <<"ux", "gx", "ox">>)

\* What the code lets a caller do and POSIX does not: a SETATTR that names the owner the
\* file has is not taken for a chown of somebody else's file, and clears the set-id bits,
\* whoever calls (nfsproc3_setattr, where a comment has only the owner do so).
IdleChown(call, a) == call.proc = "SETATTR" /\ call.sattr.uid = {a.uid}

\* A change of file o into n that POSIX lets the caller make when its attributes are a.
\* A user's write takes the set-id bits off.
LawfulNode(call, a, o, n) ==
  LET auth == call.auth IN
  /\ n.uid # o.uid => auth.uid = 0 \/ IdleChown(call, a)
  /\ n.gid # o.gid => auth.uid = 0 \/ (auth.uid = a.uid /\ is_in_group(auth, n.gid))
  /\ n.perm # o.perm =>
       \/ auth.uid \in {0, a.uid}
       \/ n.perm = a.perm \ SetId /\ (call.proc = "WRITE" \/ IdleChown(call, a))
  /\ "sgid" \in n.perm \ o.perm => auth.uid = 0 \/ \E g \in {a.gid, n.gid} : is_in_group(auth, g)
  /\ n.data # o.data => MayWrite(auth, a)

\* The caller may change entry e of directory d, in which the file was k when its owner was
\* looked at.  The sticky bit has its meaning for directories, and for names of entries.
LawfulEntry(auth, d, e, k) ==
  /\ MayWrite(auth, d) /\ MaySearch(auth, d)
  /\ ("sticky" \in d.perm /\ d.kind = "dir" /\ e[2] \notin {".", ".."})
       => auth.uid \in {0, d.uid, k.uid}

\* The files that had the name e in one of the filesystems S, as they were in one of them.
\* A name nobody had counts as the caller's.
EntryFiles(S, e, auth) ==
  {p[2].node[p[1].dent[e]] :
      p \in {q \in S \X S : e \in DOMAIN q[1].dent /\ Exists(q[2], q[1].dent[e])}}
  \cup {[uid |-> auth.uid] : f \in {g \in S : e \notin DOMAIN g.dent}}

\* What a call changes its caller was allowed to change at some moment of the call, whatever
\* other calls did in the meantime: the checks of the handlers add up to POSIX's, but for
\* IdleChown.  If nobody else changed the filesystem, that is when the change is made.
Lawful ==
  [][\A t \in Task :
       (tasks'[t].pc # tasks[t].pc /\ fs' # fs /\ gen' = gen) =>
         LET S == tasks[t].seen \cup {fs} IN
         /\ \A i \in DOMAIN fs.node \cap DOMAIN fs'.node :
              \E f \in {g \in S : Exists(g, i)} :
                LawfulNode(Args(t), f.node[i], fs.node[i], fs'.node[i])
         /\ \A e \in DOMAIN fs.dent \cup DOMAIN fs'.dent :
              lookup_child(fs, e[1], e[2]) # lookup_child(fs', e[1], e[2]) =>
                \E f \in {g \in S : Exists(g, e[1])}, k \in EntryFiles(S, e, Auth(t)) :
                  LawfulEntry(Auth(t), f.node[e[1]], e, k)]_vars
=============================================================================
