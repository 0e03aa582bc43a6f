-------------------------------- MODULE Fuse --------------------------------
(***************************************************************************)
(* The FUSE adapter of the filesystem (cli/src/fuse.rs) behind the         *)
(* dispatcher of its session (cli/src/fuser), and the kernel as far as the *)
(* adapter relies on it.                                                   *)
(*                                                                         *)
(* Every name and attribute the adapter replies carries a lifetime without *)
(* end (TTL), and the adapter never tells the kernel that one has changed: *)
(* what a process sees is what the kernel remembers of the replies.  The   *)
(* kernel's part (dcache, icache, files, dirty) is external and modelled   *)
(* as Linux does it: it forgets the attributes of a directory that it      *)
(* changed an entry of, counts down the links of what it unlinked, keeps   *)
(* the size of a file to itself when it buffers writes, and does not       *)
(* remember that a name does not exist.                                    *)
(*                                                                         *)
(* Handlers run one after the other, so each is one step.  A request that  *)
(* fails changes nothing, here or in the kernel, with two exceptions that  *)
(* are modelled: a setattr that stops half way and a write of data the     *)
(* kernel has already taken.                                               *)
(***************************************************************************)
EXTENDS Naturals, Sequences, FiniteSets, TLC

CONSTANTS Names,        \* all names, in the order of a listing
          Users,        \* the users that make requests
          Owner,        \* the one who made the database
          VolumeRoot,   \* the inode of a volume in the database
          Options,      \* mounts from the command line: who asks for one, and its options
          UserAllowOther, \* /etc/fuse.conf has user_allow_other
          MaxHandles,   \* bound on the handles of one mount
          MaxMounts,    \* bound on the mounts
          MaxChanges,   \* bound on the requests of one mount that change the database
          None

F == INSTANCE FsOps

VARIABLES
    fs,         \* the database, a value of FsOps
    session,    \* the mount: its options, its root and the session's flags; or None
    open_files, \* open_files[fh]: the inode of an open file
    next_fh,
    dcache,     \* dcache[<<p, n>>]: the inode the kernel has for a name
    icache,     \* icache[k]: the attributes the kernel has for an inode
    files,      \* files[fh]: the inode of a file the kernel has open
    dirty,      \* inodes with data the kernel has not written yet
    torn,       \* ghost: inodes with a change that failed half way
    makers,     \* ghost: the users who made something in this mount
    mounts,     \* how many mounts there were
    changed     \* how many requests of this mount changed the database

daemon == <<fs, session, open_files, next_fh>>
kernel == <<dcache, icache, files, dirty>>
ghost == <<torn, makers>>
counts == <<mounts, changed>>
vars == <<daemon, kernel, ghost, counts>>

Name == {Names[i] : i \in DOMAIN Names}

FUSE_ROOT_ID == 1

\* The contents of a file once written, and those of a symbolic link; 0 is empty.
Data == 1
Target == 2

-----------------------------------------------------------------------------
(* Numbers and attributes                                                  *)

kernel_to_db(k) == IF k = FUSE_ROOT_ID THEN session.root_ino ELSE k

\* Mutant of db_to_kernel: the root of the mount keeps its number in the database.
db_to_kernel_plain(i) == i

db_to_kernel(i) == IF i = session.root_ino THEN FUSE_ROOT_ID ELSE i

\* A file's size is told by its contents; times are left out.
fillattr(node) ==
  [kind |-> node.kind, perm |-> node.perm, uid |-> node.uid, gid |-> node.gid,
   nlink |-> node.nlink, size |-> IF node.kind = "dir" THEN 4096 ELSE node.data]

\* The reply about inode i: its number for the kernel and its attributes
fillattr_kernel(db, i) == [ino |-> db_to_kernel(i), attr |-> fillattr(db.node[i])]

-----------------------------------------------------------------------------
(* The session                                                             *)

\* An option and those it excludes
conflicts_with(option) ==
  CASE option = "allow_other" -> {"allow_root"}
    [] option = "allow_root" -> {"allow_other"}
    [] OTHER -> {}

check_option_conflicts(options) == UNION {conflicts_with(o) : o \in options} \cap options = {}

\* allow_root is the kernel's allow_other: the dispatcher refuses the others.
option_to_string(option) == IF option = "allow_root" THEN "allow_other" ELSE option

option_group(option) == IF option = "auto_unmount" THEN "Fusermount" ELSE "KernelOption"

Failed == [ok |-> FALSE, kernel |-> {}]

\* mount(2) is root's; anybody else is refused.
fuse_mount_sys(options, uid) ==
  IF uid # "root" THEN Failed
  ELSE [ok |-> TRUE, kernel |->
          {option_to_string(o) : o \in {x \in options : option_group(x) = "KernelOption"}}]

\* fusermount lets everybody mount, and in /etc/fuse.conf it is told who may let others in.
fuse_mount_fusermount(options, uid) ==
  LET given == {option_to_string(o) : o \in options}
  IN  IF "allow_other" \in given /\ uid # "root" /\ ~UserAllowOther THEN Failed
      ELSE [ok |-> TRUE, kernel |-> given \ {"auto_unmount"}]

fuse_mount_pure(options, uid) ==
  IF "auto_unmount" \in options THEN fuse_mount_fusermount(options, uid)
  ELSE LET r == fuse_mount_sys(options, uid)
       IN  IF r.ok THEN r ELSE fuse_mount_fusermount(options, uid)

\* auto_unmount needs one of the other two: the kernel is to let everybody in and the
\* dispatcher refuses all but the owner.
NewMount(options, uid) ==
  fuse_mount_pure(options \cup
    (IF options \cap {"auto_unmount", "allow_root", "allow_other"} = {"auto_unmount"}
     THEN {"allow_other"} ELSE {}), uid)

SessionACL(options) ==
  IF "allow_root" \in options THEN "RootAndOwner"
  ELSE IF "allow_other" \in options THEN "All"
  ELSE "Owner"

NewSession(options, root, uid) ==
  [options |-> options, kernel |-> NewMount(options, uid).kernel, root_ino |-> root,
   allowed |-> SessionACL(options), session_owner |-> uid, initialized |-> FALSE,
   requested |-> {}]

KernelAdmits(uid) == "allow_other" \in session.kernel \/ uid = session.session_owner

\* What the kernel may ask without a user
Anonymous ==
  {"Init", "Destroy", "Read", "ReadDir", "BatchForget", "Forget", "Write", "FSync",
   "FSyncDir", "Release", "ReleaseDir"}

\* Requests that the dispatcher does not know.  (The build is that of ABI 7.18.)
Unknown == {"Interrupt", "NotifyReply", "CuseInit", "ReadDirPlus", "Rename2"}

\* Requests about directories and attributes that the adapter leaves to the methods of
\* the trait, which answer ENOSYS
Unimplemented ==
  {"FSyncDir", "SetXAttr", "GetXAttr", "ListXAttr", "RemoveXAttr", "Access"}

\* and those about locks and devices
Uncontrolled == {"GetLk", "SetLk", "SetLkW", "BMap", "IoCtl", "Poll"}

dispatch_req(op, uid) ==
  LET s == session IN
  IF /\ \/ s.allowed = "RootAndOwner" /\ uid \notin {s.session_owner, "root"}
        \/ s.allowed = "Owner" /\ uid # s.session_owner
     /\ op \notin Anonymous
  THEN "EACCES"
  ELSE IF op = "Init" THEN "Ok"
  ELSE IF ~s.initialized THEN "EIO"
  ELSE IF op \in Unknown \cup Unimplemented \cup Uncontrolled THEN "ENOSYS"
  ELSE "Ok"

\* A user's request reaches its handler.
dispatch(op, uid) ==
  session # None /\ KernelAdmits(uid) /\ dispatch_req(op, uid) = "Ok"

Served(op) == \E uid \in Users : dispatch(op, uid)

\* What the adapter asks of the kernel, all of it or nothing
Wanted == {"ASYNC_READ", "WRITEBACK_CACHE", "PARALLEL_DIROPS", "CACHE_SYMLINKS", "NO_OPENDIR"}

add_capabilities(offered) == IF Wanted \subseteq offered THEN Wanted ELSE {}

\* Opening the database sets its sequence.
open_secafs(uid) ==
  \E max \in DOMAIN fs.node :
    F!IsLargest(max, DOMAIN fs.node) /\ fs' = F!reopen(fs, max, uid, fs.node[1].gid)

\* SecAFSFuse::new, behind a new session
Mounted(options, root, uid) ==
  /\ session = None /\ mounts < MaxMounts
  /\ check_option_conflicts(options)
  /\ NewMount(options, uid).ok
  /\ session' = NewSession(options, root, uid)
  /\ open_files' = <<>> /\ next_fh' = 1
  /\ icache' = (FUSE_ROOT_ID :> [kind |-> "dir", valid |-> FALSE])
  /\ mounts' = mounts + 1 /\ changed' = 0
  /\ UNCHANGED <<dcache, files, dirty, ghost>>

allow_other_supported(uid) == uid = "root" \/ UserAllowOther

mount(options, uid) ==
  /\ "allow_other" \in options => allow_other_supported(uid)
  /\ Mounted(options, F!ROOT_INO, uid)

\* The command line opens the database and mounts its root with the options it was given,
mount_fuse(args) == open_secafs(args.uid) /\ mount(args.options, args.uid)

\* and the daemon, which runs as root, a volume without options.
spawn_mount == open_secafs("root") /\ Mounted({}, VolumeRoot, "root")

\* The kernel's first request; older ones than 7.6 are refused.
init(version, offered) ==
  /\ session # None /\ ~session.initialized
  /\ version >= 6
  /\ session' = [session EXCEPT !.initialized = TRUE,
                                !.requested = add_capabilities(offered)]
  /\ UNCHANGED <<fs, open_files, next_fh, kernel, torn, makers, counts>>

\* The mount goes, or the adapter's process does: what the kernel remembered goes too.
SessionEnds ==
  /\ session # None
  /\ session' = None /\ open_files' = <<>> /\ next_fh' = 1
  /\ dcache' = <<>> /\ icache' = <<>> /\ files' = <<>> /\ dirty' = {}
  /\ torn' = {} /\ makers' = {} /\ changed' = 0
  /\ UNCHANGED <<fs, mounts>>

-----------------------------------------------------------------------------
(* The kernel's caches                                                     *)

Writeback == "WRITEBACK_CACHE" \in session.requested

Held(k) == k \in DOMAIN icache

Linked(k) == k = FUSE_ROOT_ID \/ \E e \in DOMAIN dcache : dcache[e] = k

Directory(k) == Held(k) /\ icache[k].kind = "dir"

\* The size of a file whose writes it buffers is the kernel's own.
Remembered(reply) ==
  LET k == reply.ino
      a == [ino |-> k, valid |-> TRUE, kind |-> reply.attr.kind, perm |-> reply.attr.perm,
            uid |-> reply.attr.uid, gid |-> reply.attr.gid, nlink |-> reply.attr.nlink,
            size |-> reply.attr.size]
  IN  IF Held(k) /\ a.kind = "reg" /\ Writeback THEN [a EXCEPT !.size = icache[k].size] ELSE a

Remember(cache, reply) == F!Insert(cache, reply.ino, Remembered(reply))

\* The attributes of the inodes in K are asked for again when they are needed; the size
\* of a file stays.
Invalid(cache, K) ==
  [k \in DOMAIN cache |->
     IF k \notin K THEN cache[k]
     ELSE IF "size" \in DOMAIN cache[k] /\ cache[k].kind = "reg"
     THEN [kind |-> "reg", valid |-> FALSE, size |-> cache[k].size]
     ELSE [kind |-> cache[k].kind, valid |-> FALSE]]

\* A file with one link less
Unlinked(cache, k) == IF cache[k].valid THEN [cache EXCEPT ![k].nlink = @ - 1] ELSE cache

\* The kernel keeps an inode while a name or a file of it is left.
Kept(cache, names, opened) ==
  LET used == {FUSE_ROOT_ID} \cup {names[e] : e \in DOMAIN names}
                \cup {opened[fh] : fh \in DOMAIN opened}
  IN  [k \in DOMAIN cache \cap used |-> cache[k]]

\* The directories above k, and k
Above(k) ==
  LET up[d \in Nat] ==
        IF d = 0 THEN {k}
        ELSE LET below == up[d - 1]
             IN  below \cup {e[1] : e \in {x \in DOMAIN dcache : dcache[x] \in below}}
  IN  up[Cardinality(DOMAIN icache)]

\* The reply to a request that made or found an entry.
NewEntry(p, n, db, i) ==
  LET reply == fillattr_kernel(db, i) IN
  /\ dcache' = F!Insert(dcache, <<p, n>>, reply.ino)
  /\ icache' = Remember(icache, reply)

MadeEntry(p, n, db, i) ==
  LET reply == fillattr_kernel(db, i) IN
  /\ dcache' = F!Insert(dcache, <<p, n>>, reply.ino)
  /\ icache' = Invalid(Remember(icache, reply), {p})

\* A name the kernel has, and one it would have to look up
Positive(p, n) == Directory(p) /\ <<p, n>> \in DOMAIN dcache
Negative(p, n) == Directory(p) /\ <<p, n>> \notin DOMAIN dcache

Change == changed < MaxChanges /\ changed' = changed + 1

-----------------------------------------------------------------------------
(* Names and attributes                                                    *)

lookup(p, n) ==
  /\ Served("Lookup") /\ Negative(p, n)
  /\ LET r == F!lookup(fs, kernel_to_db(p), n)
     IN  r.err = "Ok" /\ NewEntry(p, n, fs, r.ino)
  /\ UNCHANGED <<daemon, files, dirty, torn, makers, counts>>

getattr(k) ==
  /\ Served("GetAttr") /\ Held(k) /\ ~icache[k].valid
  /\ LET r == F!getattr(fs, kernel_to_db(k))
     IN  r.err = "Ok" /\ icache' = Remember(icache, fillattr_kernel(fs, r.ino))
  /\ UNCHANGED <<daemon, dcache, files, dirty, torn, makers, counts>>

\* The target, which the kernel may keep (CACHE_SYMLINKS)
readlink(k) ==
  LET r == F!readlink(fs, kernel_to_db(k))
  IN  IF r.err = "Ok" THEN fs.node[r.ino].data ELSE 0

\* What one setattr may ask to change: the kernel clears set-id bits with a change of the
\* owner or the size, so two changes can be in one request.
Changes == {{"mode"}, {"owner"}, {"mode", "owner"}, {"size"}, {"mode", "size"}, {"times"}}

\* The calls of setattr in order; the handle, if any, is looked up before the truncation.
Apply(db, i, change, perm, gid, file) ==
  CASE change = "mode" -> F!chmod(db, i, perm)
    [] change = "owner" -> F!chown(db, i, {}, {gid})
    [] change = "size" ->
         IF file # 0 THEN F!truncate(db, file)
         ELSE IF F!open(db, i).err # "Ok" THEN F!open(db, i) ELSE F!truncate(db, i)
    [] change = "times" -> F!utimens(db, i)
    [] change = "reply" -> F!getattr(db, i)

\* The database after the first j of the calls, or the error of one of them
Applied(i, calls, j, perm, gid, file) ==
  LET after[c \in 0 .. j] ==
        IF c = 0 THEN F!Done(fs, i)
        ELSE IF after[c - 1].err # "Ok" THEN after[c - 1]
        ELSE Apply(after[c - 1].fs, i, calls[c], perm, gid, file)
  IN  after[j]

\* All calls succeed and the reply has the new attributes; or the database fails at one
\* of them and those before it stay.
setattr(k, changes, perm, gid, fh) ==
  LET i == kernel_to_db(k)
      calls == SelectSeq(<<"mode", "owner", "size", "times">>, LAMBDA c : c \in changes)
                 \o <<"reply">>
      file == IF fh = 0 THEN 0 ELSE open_files[fh]
      all == Applied(i, calls, Len(calls), perm, gid, file)
  IN  /\ Change /\ Served("SetAttr") /\ Held(k) /\ icache[k].kind \in {"reg", "dir"} /\ Linked(k)
      /\ "size" \in changes => icache[k].kind = "reg"
      /\ fh # 0 => "size" \in changes /\ fh \in DOMAIN files /\ files[fh] = k
      /\ \/ /\ all.err = "Ok"
            /\ fs' = all.fs
            /\ icache' = LET cache == Remember(icache, fillattr_kernel(all.fs, i))
                         IN  IF "size" \in changes
                             THEN [cache EXCEPT ![k].size = all.fs.node[i].data]
                             ELSE cache
            /\ dirty' = IF "size" \in changes THEN dirty \ {k} ELSE dirty
            /\ UNCHANGED torn
         \/ \E j \in 1 .. Len(calls) - 1 :
              /\ fs' = Applied(i, calls, j, perm, gid, file).fs
              /\ torn' = torn \cup {k}
              /\ UNCHANGED <<icache, dirty>>
      /\ UNCHANGED <<session, open_files, next_fh, dcache, files, makers, mounts>>

\* The entries of a directory with the numbers the kernel knows; ".." is the root, the
\* kernel has its own way up.
readdir(k) ==
  LET p == kernel_to_db(k)
      names == F!readdir_plus(fs, p, Names)
      kind(i) == IF fs.node[i].kind \in {"dir", "lnk"} THEN fs.node[i].kind ELSE "reg"
      entry(n) == LET i == F!lookup_child(fs, p, n)
                  IN  [ino |-> db_to_kernel(i), kind |-> kind(i), name |-> n]
  IN  << [ino |-> k, kind |-> "dir", name |-> "."],
         [ino |-> FUSE_ROOT_ID, kind |-> "dir", name |-> ".."] >>
      \o [j \in DOMAIN names |-> entry(names[j])]

-----------------------------------------------------------------------------
(* Making and removing entries                                             *)

mknod(p, n, uid) ==
  /\ Change /\ dispatch("MkNod", uid) /\ Negative(p, n)
  /\ LET r == F!mknod(fs, kernel_to_db(p), n, "fifo", "rw", uid, 0)
     IN  r.err = "Ok" /\ fs' = r.fs /\ MadeEntry(p, n, r.fs, r.ino)
  /\ makers' = makers \cup {uid}
  /\ UNCHANGED <<session, open_files, next_fh, files, dirty, torn, mounts>>

mkdir(p, n, uid) ==
  /\ Change /\ dispatch("MkDir", uid) /\ Negative(p, n)
  /\ LET r == F!mkdir(fs, kernel_to_db(p), n, "rw", uid, 0)
     IN  r.err = "Ok" /\ fs' = r.fs /\ MadeEntry(p, n, r.fs, r.ino)
  /\ makers' = makers \cup {uid}
  /\ UNCHANGED <<session, open_files, next_fh, files, dirty, torn, mounts>>

symlink(p, n, uid) ==
  /\ Change /\ dispatch("SymLink", uid) /\ Negative(p, n)
  /\ LET r == F!symlink(fs, kernel_to_db(p), n, Target, uid, 0)
     IN  r.err = "Ok" /\ fs' = r.fs /\ MadeEntry(p, n, r.fs, r.ino)
  /\ makers' = makers \cup {uid}
  /\ UNCHANGED <<session, open_files, next_fh, files, dirty, torn, mounts>>

\* alloc_fh: handles are not used again while the adapter runs.
alloc_fh(i, k) ==
  /\ next_fh <= MaxHandles
  /\ open_files' = F!Insert(open_files, next_fh, i)
  /\ files' = F!Insert(files, next_fh, k)
  /\ next_fh' = next_fh + 1

create(p, n, uid) ==
  /\ Change /\ dispatch("Create", uid) /\ Negative(p, n)
  /\ LET r == F!create_file(fs, kernel_to_db(p), n, "rw", uid, 0)
     IN  /\ r.err = "Ok" /\ fs' = r.fs
         /\ alloc_fh(r.ino, db_to_kernel(r.ino))
         /\ MadeEntry(p, n, r.fs, r.ino)
  /\ makers' = makers \cup {uid}
  /\ UNCHANGED <<session, dirty, torn, mounts>>

link(k, q, m) ==
  /\ Change /\ Served("Link") /\ Held(k) /\ icache[k].kind # "dir" /\ Linked(k) /\ Negative(q, m)
  /\ LET r == F!link(fs, kernel_to_db(k), kernel_to_db(q), m)
     IN  r.err = "Ok" /\ fs' = r.fs /\ MadeEntry(q, m, r.fs, r.ino)
  /\ UNCHANGED <<session, open_files, next_fh, files, dirty, torn, makers, mounts>>

unlink(p, n) ==
  /\ Change /\ Served("Unlink") /\ Positive(p, n)
  /\ LET k == dcache[<<p, n>>]
         r == F!unlink(fs, kernel_to_db(p), n)
         names == F!Delete(dcache, <<p, n>>)
     IN  /\ icache[k].kind # "dir" /\ r.err = "Ok"
         /\ fs' = r.fs
         /\ dcache' = names
         /\ icache' = Kept(Invalid(Unlinked(icache, k), {p}), names, files)
         /\ torn' = torn \cap DOMAIN icache'
  /\ UNCHANGED <<session, open_files, next_fh, files, dirty, makers, mounts>>

rmdir(p, n) ==
  /\ Change /\ Served("RmDir") /\ Positive(p, n)
  /\ LET k == dcache[<<p, n>>]
         r == F!rmdir(fs, kernel_to_db(p), n)
         names == F!Delete(dcache, <<p, n>>)
     IN  /\ icache[k].kind = "dir" /\ r.err = "Ok"
         /\ fs' = r.fs
         /\ dcache' = names
         /\ icache' = Kept(Invalid(icache, {p}), names, files)
         /\ torn' = torn \cap DOMAIN icache'
  /\ UNCHANGED <<session, open_files, next_fh, files, dirty, makers, mounts>>

\* The kernel has just looked up both names; it refuses a directory below itself, and two
\* names of one inode need no request.
rename(p, n, q, m) ==
  LET i == dcache[<<p, n>>]
      over == <<q, m>> \in DOMAIN dcache
      j == dcache[<<q, m>>]
      r == F!rename(fs, kernel_to_db(p), n, kernel_to_db(q), m)
      names == F!Insert(F!Delete(dcache, <<p, n>>), <<q, m>>, i)
  IN  /\ Change /\ Served("Rename") /\ Positive(p, n) /\ Directory(q)
      /\ icache[i].kind = "dir" => i \notin Above(q)
      /\ over => /\ i # j
                 /\ icache[j].kind = "dir" <=> icache[i].kind = "dir"
                 /\ j \notin Above(p)
      /\ ~over => F!lookup(fs, kernel_to_db(q), m).err = "NotFound"
      /\ r.err = "Ok"
      /\ fs' = r.fs
      /\ dcache' = names
      /\ icache' = LET cache == IF over /\ icache[j].kind # "dir" THEN Unlinked(icache, j)
                                ELSE icache
                   IN  Kept(Invalid(cache, {p, q}), names, files)
      /\ torn' = torn \cap DOMAIN icache'
      /\ UNCHANGED <<session, open_files, next_fh, files, dirty, makers, mounts>>

-----------------------------------------------------------------------------
(* Open files                                                              *)

open(k) ==
  /\ Served("Open") /\ Held(k) /\ icache[k].kind = "reg" /\ Linked(k)
  /\ F!open(fs, kernel_to_db(k)).err = "Ok"
  /\ alloc_fh(kernel_to_db(k), k)
  /\ UNCHANGED <<fs, session, dcache, icache, dirty, torn, makers, counts>>

\* A process writes: with write-back the kernel only takes the data.
Buffered(k) ==
  /\ Served("Write") /\ Writeback
  /\ \E fh \in DOMAIN files : files[fh] = k
  /\ "size" \in DOMAIN icache[k]
  /\ dirty' = dirty \cup {k}
  /\ icache' = [icache EXCEPT ![k].size = Data]
  /\ UNCHANGED <<daemon, dcache, files, torn, makers, counts>>

read(fh) ==
  IF fh \notin DOMAIN open_files THEN "EBADF"
  ELSE IF F!Exists(fs, open_files[fh]) THEN fs.node[open_files[fh]].data ELSE "gone"

\* What the kernel took it writes later, and it can no longer take it back when that
\* fails; without write-back the process waits for the answer.
write(fh) ==
  LET k == files[fh] IN
  /\ Change /\ Served("Write") /\ fh \in DOMAIN files
  /\ fh \in DOMAIN open_files
  /\ \/ /\ Writeback /\ k \in dirty
        /\ dirty' = dirty \ {k}
        /\ \/ fs' = F!pwrite(fs, open_files[fh], Data).fs /\ UNCHANGED torn
           \/ torn' = torn \cup {k} /\ UNCHANGED fs
        /\ UNCHANGED icache
     \/ /\ ~Writeback
        /\ fs' = F!pwrite(fs, open_files[fh], Data).fs
        /\ icache' = Invalid([icache EXCEPT ![k].size = Data], {k})
        /\ UNCHANGED <<dirty, torn>>
  /\ UNCHANGED <<session, open_files, next_fh, dcache, files, makers, mounts>>

\* Nothing is left to write: the handle only has to be open.
flush(fh) == IF fh \in DOMAIN open_files THEN "Ok" ELSE "EBADF"

fsync(fh) == IF fh \in DOMAIN open_files THEN "Ok" ELSE "EBADF"

\* The last close; buffered data is written before.
release(fh) ==
  /\ Served("Release") /\ fh \in DOMAIN files
  /\ files[fh] \in dirty => \E g \in DOMAIN files \ {fh} : files[g] = files[fh]
  /\ open_files' = F!Delete(open_files, fh)
  /\ files' = F!Delete(files, fh)
  /\ icache' = Kept(icache, dcache, files')
  /\ torn' = torn \cap DOMAIN icache'
  /\ UNCHANGED <<fs, session, next_fh, dcache, dirty, makers, counts>>

-----------------------------------------------------------------------------
\* The kernel drops a name it can look up again, and with its last name the inode; the
\* adapter keeps nothing for it.
forget(p, n) ==
  /\ Served("Forget") /\ Positive(p, n)
  /\ \A e \in DOMAIN dcache : e[1] # dcache[<<p, n>>]
  /\ dcache' = F!Delete(dcache, <<p, n>>)
  /\ icache' = Kept(icache, dcache', files)
  /\ torn' = torn \cap DOMAIN icache'
  /\ UNCHANGED <<daemon, files, dirty, makers, counts>>

-----------------------------------------------------------------------------
\* A database with a volume in its root directory and a file in the volume.
Init ==
  LET row(i, kind, links) == [kind |-> kind, perm |-> "rw", uid |-> Owner, gid |-> 0,
                              nlink |-> links, data |-> 0, born |-> i]
  IN  fs = [node |-> (1 :> row(1, "dir", 2) @@ VolumeRoot :> row(2, "dir", 2)
                        @@ VolumeRoot + 1 :> row(3, "reg", 1)),
            dent |-> (<<1, Names[1]>> :> VolumeRoot
                        @@ <<VolumeRoot, Names[2]>> :> VolumeRoot + 1),
            next |-> VolumeRoot + 2, births |-> 0]
  /\ session = None /\ open_files = <<>> /\ next_fh = 1
  /\ dcache = <<>> /\ icache = <<>> /\ files = <<>> /\ dirty = {}
  /\ torn = {} /\ makers = {} /\ mounts = 0 /\ changed = 0

\* The arms of dispatch_req from Lookup to Link
NodeRequest ==
  \/ \E p \in DOMAIN icache, n \in Name :
       \/ lookup(p, n) \/ forget(p, n) \/ unlink(p, n) \/ rmdir(p, n)
       \/ \E uid \in Users : mknod(p, n, uid) \/ mkdir(p, n, uid) \/ symlink(p, n, uid)
       \/ \E q \in DOMAIN icache, m \in Name : rename(p, n, q, m)
       \/ \E k \in DOMAIN icache : link(k, p, n)
  \/ \E k \in DOMAIN icache :
       \/ getattr(k)
       \/ \E changes \in Changes, fh \in {0} \cup DOMAIN files :
            setattr(k, changes, "ro", 1, fh)

\* and from Open to Create
FileRequest ==
  \/ \E k \in DOMAIN icache : open(k) \/ Buffered(k)
  \/ \E fh \in DOMAIN files : write(fh) \/ release(fh)
  \/ \E p \in DOMAIN icache, n \in Name, uid \in Users : create(p, n, uid)

Next ==
  \/ \E args \in Options : mount_fuse(args)
  \/ spawn_mount
  \/ \E version \in {5, 31}, offered \in {{}, Wanted} : init(version, offered)
  \/ NodeRequest
  \/ FileRequest
  \/ SessionEnds

Spec == Init /\ [][Next]_vars

-----------------------------------------------------------------------------
(* Properties                                                              *)

\* The database's number for what the kernel calls k
InDatabase(k) == IF k = 1 THEN session.root_ino ELSE k

NamesAgree ==
  \A e \in DOMAIN dcache :
    LET row == <<InDatabase(e[1]), e[2]>>
        listing == readdir(e[1])
    IN  /\ row \in DOMAIN fs.dent /\ fs.dent[row] = InDatabase(dcache[e])
        /\ \E j \in DOMAIN listing : listing[j].name = e[2] /\ listing[j].ino = dcache[e]

AttributesAgree ==
  \A k \in DOMAIN icache : Linked(k) /\ k \notin torn =>
    LET a == icache[k]
        node == fs.node[InDatabase(k)]
    IN  /\ a.kind = node.kind
        /\ a.valid => /\ a.perm = node.perm /\ a.uid = node.uid /\ a.gid = node.gid
                      /\ a.nlink = node.nlink
        /\ a.valid /\ a.kind = "reg" /\ k \notin dirty => a.size = node.data
        /\ a.kind = "lnk" => readlink(k) = Target

HandlesAgree ==
  \A fh \in DOMAIN files :
    /\ flush(fh) = "Ok" /\ fsync(fh) = "Ok" /\ open_files[fh] = InDatabase(files[fh])
    /\ Linked(files[fh]) /\ files[fh] \notin torn \cup dirty =>
         read(fh) = icache[files[fh]].size

Admitted(options) ==
  IF "allow_other" \in options THEN Users
  ELSE {session.session_owner} \cup (IF "allow_root" \in options THEN {"root"} ELSE {})

\* What the kernel remembers for ever is right for ever: every name it has leads where
\* the database's entry leads, and a listing gives the same number; the attributes it
\* holds valid are the database's; every handle it has open is open in the adapter on
\* the same file (fuse.rs: "Cache entries never expire ...  This is safe because we are
\* the only writer").  Left out are inodes whose setattr stopped half way or whose
\* buffered write failed.  And only users whom the mount's options admit made anything.
KernelViewExact ==
  session # None =>
    /\ NamesAgree /\ AttributesAgree /\ HandlesAgree
    /\ makers \subseteq Admitted(session.options)
=============================================================================
