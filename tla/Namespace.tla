----------------------------- MODULE Namespace -----------------------------
(***************************************************************************)
(* The tree of a SecAFS filesystem: the tables fs_inode, fs_dentry,        *)
(* fs_symlink and fs_data, and the dentry cache of one SecAFS instance     *)
(* (sdk/rust/src/filesystem/secafs.rs).                                    *)
(*                                                                         *)
(* Every operation is one step, as when one mount serves its requests one  *)
(* after another; NamespaceSteps has the single SQL statements.  FUSE and  *)
(* NFS call the inode operations, behind the checks of the kernel.         *)
(* Programs that use the SDK also call those that take a path: it is       *)
(* resolved, through the cache first, and the statements are the same.     *)
(* Their callers are taken to use paths through directories only, which    *)
(* the code does not check.  An operation that returns an error changes    *)
(* nothing and is not a step.                                              *)
(*                                                                         *)
(* Neither rename checks that source and destination differ, except        *)
(* SecAFS::rename for a directory: a file renamed to its own name loses    *)
(* it, and the cache keeps the name (`ghosts').  A path operation on such  *)
(* a name then counts a link that no row stands for (`strayed').           *)
(***************************************************************************)
EXTENDS Integers, FiniteSets

CONSTANTS
  Name,      \* names of directory entries
  MaxIno,    \* bound: the last inode number given out
  MaxLinks,  \* bound: symlinks removed and renamed by path move counts within 0..this
  MaxReset   \* bound: how often the database is opened again

ASSUME BoundAssumption == {MaxIno, MaxLinks, MaxReset} \subseteq Nat

VARIABLES
  mode,     \* fs_inode.mode: the kind of an inode
  nlink,    \* fs_inode.nlink
  dentry,   \* fs_dentry: the inode of a <<parent_ino, name>>, which is UNIQUE
  symlink,  \* inodes that have a row in fs_symlink
  data,     \* inodes that have rows in fs_data
  open,     \* inodes of the open file handles
  cache,    \* DentryCache
  lastIno,  \* the sequence behind fs_inode.ino
  resets,   \* how often it was set back
  drift,    \* history: links of a directory that renames and path operations miscounted
  ghosts,   \* history: names that a rename cached without a row
  strayed,  \* history: a path operation found an entry in the cache that has no row
  late      \* history: numbers written through a handle while they were no file's

rows == <<mode, nlink, dentry, symlink, data>>

history == <<drift, ghosts, strayed, late>>

vars == <<rows, open, cache, lastIno, resets, history>>

Root == 1

Kind == {"dir", "file", "symlink"}

-----------------------------------------------------------------------------
(* Rows. *)

Put(f, k, v) == [x \in DOMAIN f \cup {k} |-> IF x = k THEN v ELSE f[x]]

Drop(f, k) == [x \in DOMAIN f \ {k} |-> f[x]]

\* UPDATE fs_inode SET nlink = nlink + n WHERE ino = i; no row, no effect.
AddLinks(links, i, n) ==
  [x \in DOMAIN links |-> IF x = i THEN links[x] + n ELSE links[x]]

IsDir(i) == i \in DOMAIN mode /\ mode[i] = "dir"

\* Names of an inode, entries of a directory, and those that are directories.
NamesOf(i) == {e \in DOMAIN dentry : dentry[e] = i}

Entries(d) == {e \in DOMAIN dentry : e[1] = d}

SubDirs(d) == {e \in Entries(d) : IsDir(dentry[e])}

Named(i) == i = Root \/ NamesOf(i) # {}

\* The inodes at and below an inode: the least set that holds it and all entries of
\* its members.
Below(top) ==
  {i \in DOMAIN mode :
     \A S \in SUBSET DOMAIN mode :
       (top \in S /\ \A e \in DOMAIN dentry : e[1] \in S => dentry[e] \in S) => i \in S}

\* What a caller names as the parent of an entry.
Parent(p) == IsDir(p) /\ Named(p)

\* The entries a path operation finds: resolve_path looks into the cache first.
Resolved ==
  [e \in DOMAIN dentry \cup DOMAIN cache |-> IF e \in DOMAIN cache THEN cache[e] ELSE dentry[e]]

\* An entry that was found and is not in the table.
Stray(found, e) == e \in DOMAIN found /\ ~(e \in DOMAIN dentry /\ dentry[e] = found[e])

\* The drift of the inodes that an operation leaves; a new one has none.
Kept(f) == [i \in DOMAIN mode' |-> IF i \in DOMAIN f THEN f[i] ELSE 0]

-----------------------------------------------------------------------------
\* initialize_schema inserts the root directory.
Init ==
  /\ mode = [i \in {Root} |-> "dir"]
  /\ nlink = [i \in {Root} |-> 2]
  /\ dentry = [e \in {} |-> Root]
  /\ symlink = {}
  /\ data = {}
  /\ open = {}
  /\ cache = [e \in {} |-> Root]
  /\ lastIno = Root
  /\ resets = 0
  /\ drift = [i \in {Root} |-> 0]
  /\ ghosts = {}
  /\ strayed = FALSE
  /\ late = {}

\* The rows of a new inode that is not a directory.
NewEntry(p, n, k) ==
  LET i == lastIno + 1 IN
  /\ Parent(p)
  /\ <<p, n>> \notin DOMAIN dentry
  /\ i <= MaxIno
  /\ mode' = Put(mode, i, k)
  /\ nlink' = Put(nlink, i, 1)
  /\ dentry' = Put(dentry, <<p, n>>, i)
  /\ cache' = Put(cache, <<p, n>>, i)
  /\ lastIno' = i
  /\ drift' = Kept(drift)
  /\ UNCHANGED <<ghosts, strayed, late>>

\* create_file returns an open handle.
CreateFile(p, n) ==
  /\ NewEntry(p, n, "file")
  /\ open' = open \cup {lastIno + 1}
  /\ UNCHANGED <<symlink, data, resets>>

Mknod(p, n) ==
  /\ NewEntry(p, n, "file")
  /\ UNCHANGED <<symlink, data, open, resets>>

Symlink(p, n) ==
  /\ NewEntry(p, n, "symlink")
  /\ symlink' = symlink \cup {lastIno + 1}
  /\ UNCHANGED <<data, open, resets>>

\* Mutant: the parent does not count the link.
MkdirUncounted(p, n) ==
  LET i == lastIno + 1 IN
  /\ Parent(p)
  /\ <<p, n>> \notin DOMAIN dentry
  /\ i <= MaxIno
  /\ mode' = Put(mode, i, "dir")
  /\ nlink' = Put(nlink, i, 2)
  /\ dentry' = Put(dentry, <<p, n>>, i)
  /\ cache' = Put(cache, <<p, n>>, i)
  /\ lastIno' = i
  /\ drift' = Kept(drift)
  /\ UNCHANGED <<symlink, data, open, resets, ghosts, strayed, late>>

\* A directory has a link from its parent and one from itself, and its parent one
\* more from it.
Mkdir(p, n) ==
  LET i == lastIno + 1 IN
  /\ Parent(p)
  /\ <<p, n>> \notin DOMAIN dentry
  /\ i <= MaxIno
  /\ mode' = Put(mode, i, "dir")
  /\ nlink' = AddLinks(Put(nlink, i, 2), p, 1)
  /\ dentry' = Put(dentry, <<p, n>>, i)
  /\ cache' = Put(cache, <<p, n>>, i)
  /\ lastIno' = i
  /\ drift' = Kept(drift)
  /\ UNCHANGED <<symlink, data, open, resets, ghosts, strayed, late>>

\* A hard link to something other than a directory.
Link(i, q, r) ==
  /\ i \in DOMAIN mode /\ mode[i] # "dir" /\ Named(i)
  /\ Parent(q)
  /\ <<q, r>> \notin DOMAIN dentry
  /\ dentry' = Put(dentry, <<q, r>>, i)
  /\ nlink' = AddLinks(nlink, i, 1)
  /\ cache' = Put(cache, <<q, r>>, i)
  /\ UNCHANGED <<mode, symlink, data, open, lastIno, resets, history>>

\* get_link_count, which is 0 for an inode that is gone.
NoLinks(i, links) == i \in DOMAIN links => links[i] = 0

\* DELETE FROM fs_inode when `links' leaves inode i none.
DropInode(i, links) ==
  /\ mode' = IF NoLinks(i, links) THEN Drop(mode, i) ELSE mode
  /\ nlink' = IF NoLinks(i, links) THEN Drop(links, i) ELSE links

\* Mutant: the chunks of an inode without links stay.
PurgeUnowned(i, links) ==
  /\ DropInode(i, links)
  /\ symlink' = IF NoLinks(i, links) THEN symlink \ {i} ELSE symlink
  /\ data' = data

\* All rows of inode i go with its last link.
Purge(i, links) ==
  /\ DropInode(i, links)
  /\ symlink' = IF NoLinks(i, links) THEN symlink \ {i} ELSE symlink
  /\ data' = IF NoLinks(i, links) THEN data \ {i} ELSE data

Unlink(p, n) ==
  LET i == dentry[<<p, n>>] IN
  /\ <<p, n>> \in DOMAIN dentry
  /\ ~IsDir(i)
  /\ dentry' = Drop(dentry, <<p, n>>)
  /\ cache' = Drop(cache, <<p, n>>)
  /\ Purge(i, AddLinks(nlink, i, -1))
  /\ drift' = Kept(drift)
  /\ UNCHANGED <<open, lastIno, resets, ghosts, strayed, late>>

\* The directory loses the link from its parent and keeps the one from itself: its row
\* goes only if the count was short.
Rmdir(p, n) ==
  LET i == dentry[<<p, n>>] IN
  /\ <<p, n>> \in DOMAIN dentry
  /\ IsDir(i) /\ i # Root
  /\ Entries(i) = {}
  /\ dentry' = Drop(dentry, <<p, n>>)
  /\ cache' = Drop(cache, <<p, n>>)
  /\ DropInode(i, AddLinks(AddLinks(nlink, i, -1), p, -1))
  /\ drift' = Kept(drift)
  /\ UNCHANGED <<symlink, data, open, lastIno, resets, ghosts, strayed, late>>

\* Whether an inode is seen as a directory.  The operations that take a path use
\* stat, which follows a symlink to whatever it leads to by now; a symlink that leads
\* nowhere is an error.
SeenDir(i) == IF mode[i] = "symlink" THEN BOOLEAN ELSE {IsDir(i)}

\* SecAFS::remove, of a file or an empty directory.
Remove(p, n) ==
  LET e == <<p, n>>
      i == Resolved[e]
  IN  /\ Parent(p)
      /\ e \in DOMAIN Resolved
      /\ i \in DOMAIN mode /\ i # Root
      /\ Entries(i) = {}
      /\ nlink[p] > 0
      /\ dentry' = Drop(dentry, e)
      /\ cache' = Drop(cache, e)
      /\ \E dir \in SeenDir(i) :
           LET links == AddLinks(nlink, i, -1) IN
           /\ Purge(i, IF dir THEN AddLinks(links, p, -1) ELSE links)
           /\ drift' = Kept(IF dir # IsDir(i) THEN AddLinks(drift, p, -1) ELSE drift)
      /\ strayed' = (strayed \/ Stray(Resolved, e))
      /\ UNCHANGED <<open, lastIno, resets, ghosts, late>>

\* The row of the source moves to the destination, if it is still there.
Moved(entries, from, to) ==
  IF from \in DOMAIN entries THEN Put(Drop(entries, from), to, entries[from]) ELSE entries

\* A directory takes the link it gives its parent along.
Reparented(links, dir, p, q) ==
  IF dir /\ p # q THEN AddLinks(AddLinks(links, p, -1), q, 1) ELSE links

\* Mutant: the cached destination stays.
RenamedStale(from, to, s) == Drop(cache, from)

\* The cache after a rename of inode s.
Renamed(from, to, s) == Put(Drop(cache, from), to, s)

\* rename to a name that is not found; `dir' says that the source is seen as a directory.
RenameFresh(found, from, to, dir) ==
  /\ to \notin DOMAIN found
  /\ dentry' = Moved(dentry, from, to)
  /\ nlink' = Reparented(nlink, dir, from[1], to[1])
  /\ UNCHANGED <<mode, symlink, data>>

\* Mutant: the inode that is replaced keeps its link.
RenameOverUncounted(found, from, to, dir) ==
  LET d == found[to] IN
  /\ to \in DOMAIN found
  /\ d \in DOMAIN mode
  /\ dir \in SeenDir(d)
  /\ dir => Entries(d) = {}
  /\ dentry' = Moved(Drop(dentry, to), from, to)
  /\ nlink' = Reparented(nlink, dir, from[1], to[1])
  /\ UNCHANGED <<mode, symlink, data>>

\* rename to a name in use: the inode it replaces loses one link, and its rows if
\* that was the last.  The source may be gone with the destination.
RenameOver(found, from, to, dir) ==
  LET d == found[to] IN
  /\ to \in DOMAIN found
  /\ d \in DOMAIN mode
  /\ dir \in SeenDir(d)
  /\ dir => Entries(d) = {}
  /\ dentry' = Moved(Drop(dentry, to), from, to)
  /\ Purge(d, Reparented(AddLinks(nlink, d, -1), dir, from[1], to[1]))

\* Links that a rename miscounts: it keeps the one that a directory it replaces gave the
\* parent, and moves one for a symlink that is seen as a directory.
Miscounted(found, from, to, dir) ==
  LET over == to \in DOMAIN found /\ IsDir(found[to])
      base == IF over THEN AddLinks(drift, to[1], 1) ELSE drift
  IN  Reparented(base, dir /\ ~IsDir(found[from]), from[1], to[1])

\* Mutant: a directory may move below itself.
MayMoveAnywhere(found, from, to) == from # to

\* A directory never moves to itself or below itself: SecAFS::rename compares the paths,
\* the kernel the directories.
MayMove(found, from, to) == from # to /\ to[1] \notin Below(found[from])

\* The inode operation looks source and destination up in the table, SecAFS::rename
\* resolves them.
Rename(p, n, q, r) == \E found \in {dentry, Resolved} :
  LET from == <<p, n>>
      to == <<q, r>>
      s == found[from]
  IN  /\ Parent(p) /\ Parent(q)
      /\ from \in DOMAIN found
      /\ s \in DOMAIN mode /\ s # Root
      /\ nlink[p] > 0 /\ nlink[q] < MaxLinks
      /\ \E dir \in SeenDir(s) :
           /\ dir => MayMove(found, from, to)
           /\ RenameFresh(found, from, to, dir) \/ RenameOver(found, from, to, dir)
           /\ drift' = Kept(Miscounted(found, from, to, dir))
      /\ cache' = Renamed(from, to, s)
      /\ ghosts' = IF from = to \/ Stray(found, from) THEN ghosts \cup {to} ELSE ghosts
      /\ strayed' = (strayed \/ Stray(found, from) \/ Stray(found, to))
      /\ UNCHANGED <<open, lastIno, resets, late>>

-----------------------------------------------------------------------------
\* lookup, and the resolution of a path, remember what they find.
Lookup(p, n) ==
  /\ <<p, n>> \in DOMAIN dentry
  /\ cache' = Put(cache, <<p, n>>, dentry[<<p, n>>])
  /\ UNCHANGED <<mode, nlink, dentry, symlink, data, open, lastIno, resets, history>>

\* The cache is full: the entry used longest ago goes.
Evict(e) ==
  /\ e \in DOMAIN cache
  /\ cache' = Drop(cache, e)
  /\ UNCHANGED <<mode, nlink, dentry, symlink, data, open, lastIno, resets, history>>

Open(i) ==
  /\ i \in DOMAIN mode /\ mode[i] = "file" /\ Named(i)
  /\ open' = open \cup {i}
  /\ UNCHANGED <<mode, nlink, dentry, symlink, data, cache, lastIno, resets, history>>

\* SecAFSFile::pwrite stores chunks under the inode number of the handle, whether the
\* inode is still there or not.
Write(i) ==
  /\ i \in open
  /\ data' = data \cup {i}
  /\ late' = IF i \in DOMAIN mode /\ mode[i] = "file" THEN late ELSE late \cup {i}
  /\ UNCHANGED <<mode, nlink, dentry, symlink, open, cache, lastIno, resets, drift, ghosts, strayed>>

\* initialize_schema moves the sequence back to the largest inode there is, when some
\* mount of the database opens it and when this instance starts again.
Reset ==
  /\ resets < MaxReset
  /\ resets' = resets + 1
  /\ lastIno' \in DOMAIN mode
  /\ \A i \in DOMAIN mode : i <= lastIno'
  /\ UNCHANGED <<rows, history>>

OtherMount == Reset /\ UNCHANGED <<open, cache>>

Restart ==
  /\ Reset
  /\ open' = {}
  /\ cache' = [e \in {} |-> Root]

\* A handle is dropped; SecAFS has nothing to do.
Close(i) ==
  /\ i \in open
  /\ open' = open \ {i}
  /\ UNCHANGED <<mode, nlink, dentry, symlink, data, cache, lastIno, resets, history>>

Ino == 1..MaxIno

Next ==
  \/ \E p \in Ino, n \in Name :
       \/ CreateFile(p, n) \/ Mknod(p, n) \/ Symlink(p, n) \/ Mkdir(p, n)
       \/ Unlink(p, n) \/ Rmdir(p, n) \/ Remove(p, n) \/ Lookup(p, n)
  \/ \E i, q \in Ino, r \in Name : Link(i, q, r)
  \/ \E p, q \in Ino, n, r \in Name : Rename(p, n, q, r)
  \/ \E i \in Ino : Open(i) \/ Write(i) \/ Close(i)
  \/ \E e \in DOMAIN cache : Evict(e)
  \/ OtherMount \/ Restart

Spec == Init /\ [][Next]_vars

-----------------------------------------------------------------------------
\* "Every dentry MUST reference a valid inode", "... a valid parent inode", and
\* "Root inode (ino=1) MUST always exist" (SPEC.md); a parent is a directory.
EntriesValid ==
  /\ IsDir(Root)
  /\ \A e \in DOMAIN dentry : IsDir(e[1]) /\ dentry[e] \in DOMAIN mode \ {Root}

\* The link count of a file or symlink is the number of its names, and it has one.
FileLinks ==
  \A i \in DOMAIN mode : ~IsDir(i) => nlink[i] = Cardinality(NamesOf(i)) /\ nlink[i] > 0

\* A directory has one name at most, and one that has none has no entries: a removed
\* directory never takes entries with it.
DirsNamedOnce ==
  \A d \in DOMAIN mode : IsDir(d) =>
    /\ \A e, f \in NamesOf(d) : e = f
    /\ d # Root /\ NamesOf(d) = {} => Entries(d) = {}

\* A directory has a link from itself, one from its parent while it has a name, one from
\* each subdirectory, and those that were miscounted.
DirLinks ==
  \A d \in DOMAIN mode : IsDir(d) =>
    nlink[d] = Cardinality(SubDirs(d)) + (IF Named(d) THEN 2 ELSE 1) + drift[d]

\* Until a path operation acts on an entry that only the cache has, the link count of a
\* file or symlink is the number of its names, and it has one: unlink, remove and rename
\* free exactly the inodes that lost their last name.
LinksCounted == ~strayed => FileLinks

\* Until then, the link count of a directory is exactly what its name, its subdirectories
\* and itself give it, but for one more for each directory that a rename replaced in it,
\* and one moved or taken for each symlink that a path operation took for a directory.
\* So a removed directory whose count did not drift is left with one link, and rmdir and
\* remove keep its row for good, although SPEC.md has an inode go with its last entry.
DirsLinked == ~strayed => DirLinks

\* Until then, the entries are a tree: they have an inode and a directory, a directory has
\* one name, a removed one takes no entries with it, and whatever has a name can be
\* reached from the root (no rename detaches a subtree).
Tree ==
  ~strayed => /\ EntriesValid /\ DirsNamedOnce
              /\ \A i \in DOMAIN mode : Named(i) => i \in Below(Root)

\* What the cache knows is what the table has, but for the names that a rename of a file
\* to itself, or of such a name, cached (SecAFS::rename).
CacheCoherent ==
  \A e \in DOMAIN cache : e \in ghosts \/ (e \in DOMAIN dentry /\ cache[e] = dentry[e])

\* The rows of fs_symlink are those of the symlinks there are, and chunks without an inode
\* were written through a handle after the file was deleted: no removal or rename leaves
\* rows behind that the next inode of that number would take over (initialize_schema gives
\* numbers out again, SecAFSFile::pwrite does not look for the inode).
RowsOwned ==
  /\ symlink = {i \in DOMAIN mode : mode[i] = "symlink"}
  /\ data \ DOMAIN mode \subseteq late
=============================================================================
