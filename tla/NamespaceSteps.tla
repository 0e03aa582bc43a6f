--------------------------- MODULE NamespaceSteps ---------------------------
(***************************************************************************)
(* The tree operations of SecAFS statement by statement.  mkdir, mknod,    *)
(* symlink, link, unlink and rmdir run each SQL statement in a transaction *)
(* of its own: other clients (a second mount of the same tree, tasks that  *)
(* share an SDK instance) run between any two of them, and a client that   *)
(* dies leaves the statements it ran.  create_file and rename are          *)
(* transactions after their first lookups.  The SELECTs with which an      *)
(* operation begins are one step.                                          *)
(*                                                                         *)
(* Nothing keeps an unlink, rmdir or rename from acting on a name or a     *)
(* directory that another client has changed since it was looked up.       *)
(* `raced' records that one of them overlapped another operation, and the  *)
(* properties are about what happens before: clients that add names side   *)
(* by side, clients that remove and move them one at a time, and deaths    *)
(* between any two statements of either.                                   *)
(*                                                                         *)
(* The dentry cache, handles and file data of Namespace stay out.          *)
(***************************************************************************)
EXTENDS Namespace

CONSTANTS
  Client,   \* who calls the operations
  MaxCrash  \* bound: clients that die in an operation

VARIABLES
  task,     \* the operation of a client and the statement it is at
  crashes,  \* how many have died
  raced,    \* history: a removal or a rename overlapped another client's operation
  skew      \* history: count of an inode too high or too low because clients died

deaths == <<crashes, skew>>

stepVars == <<vars, task, deaths, raced>>

aside == <<data, open, cache, resets, history>>

Idle == [at |-> "idle"]

New == {"create", "mknod", "symlink", "mkdir"}

Removal == {"unlink", "rmdir", "rename"}

StepInit ==
  /\ Init
  /\ task = [c \in Client |-> Idle]
  /\ crashes = 0
  /\ raced = FALSE
  /\ skew = [i \in Ino |-> 0]

At(c, s) == task[c].at = s

GoTo(c, s) == task' = [task EXCEPT ![c].at = s]

Done(c) == task' = [task EXCEPT ![c] = Idle]

\* A client begins operation t.
Begin(c, t) ==
  /\ At(c, "idle")
  /\ task' = [task EXCEPT ![c] = t]
  /\ raced' = (raced \/ \E d \in Client \ {c} :
                  ~At(d, "idle") /\ {t.op, task[d].op} \cap Removal # {})
  /\ UNCHANGED <<vars, deaths>>

-----------------------------------------------------------------------------
\* The parent has no entry of that name.
StartNew(c, op, p, n) ==
  /\ Parent(p) /\ <<p, n>> \notin DOMAIN dentry
  /\ Begin(c, [at |-> IF op = "create" THEN "create" ELSE "inode",
               op |-> op, p |-> p, n |-> n, ino |-> 0])

\* INSERT INTO fs_inode ... RETURNING ino; nlink is 0 by default.
InsertInode(c) ==
  LET i == lastIno + 1
      op == task[c].op
  IN  /\ At(c, "inode")
      /\ i <= MaxIno
      /\ mode' = Put(mode, i, CASE op = "mkdir" -> "dir"
                                [] op = "symlink" -> "symlink"
                                [] OTHER -> "file")
      /\ nlink' = Put(nlink, i, 0)
      /\ lastIno' = i
      /\ task' = [task EXCEPT ![c].at = IF op = "symlink" THEN "target" ELSE "entry",
                              ![c].ino = i]
      /\ UNCHANGED <<dentry, symlink, aside, deaths, raced>>

\* INSERT INTO fs_symlink
InsertTarget(c) ==
  /\ At(c, "target")
  /\ symlink' = symlink \cup {task[c].ino}
  /\ GoTo(c, "entry")
  /\ UNCHANGED <<mode, nlink, dentry, lastIno, aside, deaths, raced>>

\* Mutant: an entry of that name is replaced.
UpsertEntry(c) ==
  /\ At(c, "entry")
  /\ dentry' = Put(dentry, <<task[c].p, task[c].n>>, task[c].ino)
  /\ GoTo(c, "links")
  /\ UNCHANGED <<mode, nlink, symlink, lastIno, aside, deaths, raced>>

\* INSERT INTO fs_dentry; a second entry of that name is an error, and the inode that
\* was inserted for it stays.
InsertEntry(c) ==
  LET e == <<task[c].p, task[c].n>> IN
  /\ At(c, "entry")
  /\ IF e \in DOMAIN dentry
     THEN Done(c) /\ UNCHANGED dentry
     ELSE GoTo(c, "links") /\ dentry' = Put(dentry, e, task[c].ino)
  /\ UNCHANGED <<mode, nlink, symlink, lastIno, aside, deaths, raced>>

\* UPDATE fs_inode SET nlink = 2
CountDir(c) ==
  LET i == task[c].ino IN
  /\ At(c, "links") /\ task[c].op = "mkdir"
  /\ nlink' = [x \in DOMAIN nlink |-> IF x = i THEN 2 ELSE nlink[x]]
  /\ GoTo(c, "parent")
  /\ UNCHANGED <<mode, dentry, symlink, lastIno, aside, deaths, raced>>

\* Mutant: the count of a new inode is set, as for a directory.
SetLink(c) ==
  LET i == task[c].ino IN
  /\ At(c, "links") /\ task[c].op # "mkdir"
  /\ nlink' = [x \in DOMAIN nlink |-> IF x = i /\ task[c].op # "link" THEN 1
                                      ELSE IF x = i THEN nlink[x] + 1 ELSE nlink[x]]
  /\ Done(c)
  /\ UNCHANGED <<mode, dentry, symlink, lastIno, aside, deaths, raced>>

\* UPDATE fs_inode SET nlink = nlink + 1
CountLink(c) ==
  /\ At(c, "links") /\ task[c].op # "mkdir"
  /\ nlink' = AddLinks(nlink, task[c].ino, 1)
  /\ Done(c)
  /\ UNCHANGED <<mode, dentry, symlink, lastIno, aside, deaths, raced>>

\* The link that a new directory gives its parent.
CountParent(c) ==
  /\ At(c, "parent")
  /\ nlink' = AddLinks(nlink, task[c].p, 1)
  /\ Done(c)
  /\ UNCHANGED <<mode, dentry, symlink, lastIno, aside, deaths, raced>>

\* The transaction of create_file; a failed one has used up the inode number.
CreateTxn(c) ==
  LET i == lastIno + 1
      e == <<task[c].p, task[c].n>>
  IN  /\ At(c, "create")
      /\ i <= MaxIno
      /\ lastIno' = i
      /\ IF e \in DOMAIN dentry
         THEN UNCHANGED <<mode, nlink, dentry>>
         ELSE /\ mode' = Put(mode, i, "file")
              /\ nlink' = Put(nlink, i, 1)
              /\ dentry' = Put(dentry, e, i)
      /\ Done(c)
      /\ UNCHANGED <<symlink, aside, deaths, raced>>

\* link: the inode is there and no directory, the new name is free.
StartLink(c, i, q, r) ==
  /\ i \in DOMAIN mode /\ mode[i] # "dir" /\ Named(i)
  /\ Parent(q) /\ <<q, r>> \notin DOMAIN dentry
  /\ Begin(c, [at |-> "entry", op |-> "link", p |-> q, n |-> r, ino |-> i])

-----------------------------------------------------------------------------
StartRemoval(c, op, p, n) ==
  Begin(c, [at |-> "delete", op |-> op, p |-> p, n |-> n, ino |-> dentry[<<p, n>>]])

StartUnlink(c, p, n) ==
  /\ <<p, n>> \in DOMAIN dentry
  /\ ~IsDir(dentry[<<p, n>>])
  /\ StartRemoval(c, "unlink", p, n)

StartRmdir(c, p, n) ==
  /\ <<p, n>> \in DOMAIN dentry
  /\ IsDir(dentry[<<p, n>>]) /\ dentry[<<p, n>>] # Root
  /\ Entries(dentry[<<p, n>>]) = {}
  /\ StartRemoval(c, "rmdir", p, n)

\* DELETE FROM fs_dentry WHERE parent_ino = ? AND name = ?, whatever it names by now.
DeleteEntry(c) ==
  /\ At(c, "delete")
  /\ dentry' = Drop(dentry, <<task[c].p, task[c].n>>)
  /\ GoTo(c, "uncount")
  /\ UNCHANGED <<mode, nlink, symlink, lastIno, aside, deaths, raced>>

\* UPDATE fs_inode SET nlink = nlink - 1
Uncount(c) ==
  /\ At(c, "uncount")
  /\ nlink' = AddLinks(nlink, task[c].ino, -1)
  /\ GoTo(c, IF task[c].op = "rmdir" THEN "unparent" ELSE "check")
  /\ UNCHANGED <<mode, dentry, symlink, lastIno, aside, deaths, raced>>

UncountParent(c) ==
  /\ At(c, "unparent")
  /\ nlink' = AddLinks(nlink, task[c].p, -1)
  /\ GoTo(c, "check")
  /\ UNCHANGED <<mode, dentry, symlink, lastIno, aside, deaths, raced>>

\* Mutant: one link is taken for none, as if every inode were a directory.
CheckOneLink(c) ==
  LET i == task[c].ino IN
  /\ At(c, "check")
  /\ IF i \in DOMAIN nlink /\ nlink[i] > 1
     THEN Done(c)
     ELSE GoTo(c, IF task[c].op = "rmdir" THEN "rows" ELSE "untarget")
  /\ UNCHANGED <<vars, deaths, raced>>

\* if link_count == 0
CheckLinks(c) ==
  /\ At(c, "check")
  /\ IF NoLinks(task[c].ino, nlink)
     THEN GoTo(c, IF task[c].op = "rmdir" THEN "rows" ELSE "untarget")
     ELSE Done(c)
  /\ UNCHANGED <<vars, deaths, raced>>

\* DELETE FROM fs_symlink, after fs_data
DeleteTarget(c) ==
  /\ At(c, "untarget")
  /\ symlink' = symlink \ {task[c].ino}
  /\ GoTo(c, "rows")
  /\ UNCHANGED <<mode, nlink, dentry, lastIno, aside, deaths, raced>>

\* DELETE FROM fs_inode
DeleteInode(c) ==
  /\ At(c, "rows")
  /\ mode' = Drop(mode, task[c].ino)
  /\ nlink' = Drop(nlink, task[c].ino)
  /\ Done(c)
  /\ UNCHANGED <<dentry, symlink, lastIno, aside, deaths, raced>>

-----------------------------------------------------------------------------
\* rename looks the source up before its transaction; a directory never moves to itself
\* or below itself.
StartRename(c, p, n, q, r) ==
  LET s == dentry[<<p, n>>] IN
  /\ <<p, n>> \in DOMAIN dentry
  /\ s \in DOMAIN mode /\ s # Root
  /\ Parent(q)
  /\ IsDir(s) => MayMove(dentry, <<p, n>>, <<q, r>>)
  /\ Begin(c, [at |-> "rename", op |-> "rename", p |-> p, n |-> n, q |-> q, r |-> r,
               ino |-> s, dir |-> IsDir(s)])

\* What the destination names cannot be replaced: the transaction is rolled back.
Refused(c) ==
  LET t == task[c]
      d == dentry[<<t.q, t.r>>]
  IN  /\ <<t.q, t.r>> \in DOMAIN dentry
      /\ \/ d \notin DOMAIN mode
         \/ IsDir(d) # t.dir
         \/ IsDir(d) /\ Entries(d) # {}

RenameTxn(c) ==
  LET t == task[c]
      to == <<t.q, t.r>>
      links(base) == Reparented(base, t.dir, t.p, t.q)
  IN  /\ At(c, "rename")
      /\ \/ Refused(c) /\ UNCHANGED <<mode, nlink, dentry, symlink, data>>
         \/ /\ to \notin DOMAIN dentry
            /\ dentry' = Moved(dentry, <<t.p, t.n>>, to)
            /\ nlink' = links(nlink)
            /\ UNCHANGED <<mode, symlink, data>>
         \/ /\ to \in DOMAIN dentry /\ ~Refused(c)
            /\ dentry' = Moved(Drop(dentry, to), <<t.p, t.n>>, to)
            /\ Purge(dentry[to], links(AddLinks(nlink, dentry[to], -1)))
      /\ Done(c)
      /\ UNCHANGED <<lastIno, open, cache, resets, history, deaths, raced>>

-----------------------------------------------------------------------------
\* What a client that dies now leaves uncounted: a name that is in the table, or one that
\* is not any more.
Uncounted(t) ==
  CASE t.at = "links" /\ t.op # "mkdir" -> -1
    [] t.at = "uncount" /\ t.op # "rmdir" -> 1
    [] OTHER -> 0

\* A client dies, or loses its connection, between two statements.
Crash(c) ==
  /\ ~At(c, "idle")
  /\ crashes < MaxCrash
  /\ crashes' = crashes + 1
  /\ skew' = AddLinks(skew, task[c].ino, Uncounted(task[c]))
  /\ Done(c)
  /\ UNCHANGED <<vars, raced>>

StepNext == \E c \in Client :
  \/ \E p \in Ino, n \in Name :
       \/ \E op \in New : StartNew(c, op, p, n)
       \/ StartUnlink(c, p, n) \/ StartRmdir(c, p, n)
       \/ \E i \in Ino : StartLink(c, i, p, n)
       \/ \E q \in Ino, r \in Name : StartRename(c, p, n, q, r)
  \/ InsertInode(c) \/ InsertTarget(c) \/ InsertEntry(c) \/ CreateTxn(c)
  \/ CountDir(c) \/ CountLink(c) \/ CountParent(c)
  \/ DeleteEntry(c) \/ Uncount(c) \/ UncountParent(c) \/ CheckLinks(c)
  \/ DeleteTarget(c) \/ DeleteInode(c)
  \/ RenameTxn(c)
  \/ Crash(c)

StepSpec == StepInit /\ [][StepNext]_stepVars

-----------------------------------------------------------------------------
Quiet == \A c \in Client : At(c, "idle")

\* Whatever rows the death of a client leaks and whatever links it leaves uncounted, no
\* later operation leaves an entry without its directory, gives a directory a second name
\* or removes one that has entries; and none leaves an entry without its inode, but of
\* inodes that lost a count, when their client died between the entry and the count
\* (unlink, rmdir and rename trust the counts).
CrashSafe == ~raced =>
  /\ IsDir(Root) /\ DirsNamedOnce
  /\ \A e \in DOMAIN dentry :
       /\ IsDir(e[1])
       /\ dentry[e] \in DOMAIN mode \ {Root} \/ skew[dentry[e]] < 0

\* Once no operation is under way, the link count of a file or symlink is the number of
\* its names, less those that a client died before it counted and with those that one
\* died before it uncounted: no other count is lost or made twice, by clients that create
\* and link the same inode at the same time or by any that come later.
QuietLinks == ~raced /\ Quiet =>
  \A i \in DOMAIN mode : ~IsDir(i) => nlink[i] = Cardinality(NamesOf(i)) + skew[i]

\* Of several clients that insert the same name one goes on to count its link, and
\* the name is its inode's.
OneWinner == ~raced =>
  \A c \in Client : task[c].at \in {"links", "parent"} =>
    LET e == <<task[c].p, task[c].n>> IN e \in DOMAIN dentry /\ dentry[e] = task[c].ino
=============================================================================
