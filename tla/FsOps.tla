------------------------------- MODULE FsOps -------------------------------
(***************************************************************************)
(* The inode operations of SecAFS (impl FileSystem for SecAFS) as          *)
(* functions of a filesystem value, for the servers that call them one at  *)
(* a time: the NFS adapter, the FUSE adapter and the overlay.  Namespace   *)
(* has the same statements as actions, with the cache and open handles.    *)
(*                                                                         *)
(* A filesystem is [node, dent, next, births]: the rows of fs_inode, those *)
(* of fs_dentry, the sequence behind ino, and how many inodes were ever    *)
(* made.  A node has its kind, permission bits, owner, link count and      *)
(* contents; contents are one tag, 0 for the empty file (FileData has the  *)
(* chunks), or the target of a symlink.  Times are left out.  `born` tells *)
(* apart two inodes that were given the same number.                       *)
(*                                                                         *)
(* An operation returns [err, fs, ino]: its error or "Ok", the filesystem  *)
(* it leaves and the inode it is about.                                    *)
(***************************************************************************)
EXTENDS Naturals, Sequences, FiniteSets

ROOT_INO == 1

Done(fs, i) == [err |-> "Ok", fs |-> fs, ino |-> i]

Fail(fs, e) == [err |-> e, fs |-> fs, ino |-> 0]

Exists(fs, i) == i \in DOMAIN fs.node

IsDir(fs, i) == Exists(fs, i) /\ fs.node[i].kind = "dir"

\* INSERT and DELETE on a table with a key
Insert(f, k, v) == [x \in DOMAIN f \cup {k} |-> IF x = k THEN v ELSE f[x]]

Delete(f, k) == [x \in DOMAIN f \ {k} |-> f[x]]

\* UPDATE fs_inode SET nlink = nlink + n WHERE ino = i: no row, no effect.
AddLinks(fs, i, n) ==
  IF Exists(fs, i) THEN [fs EXCEPT !.node[i].nlink = @ + n] ELSE fs

DropLink(fs, i) ==
  IF Exists(fs, i) THEN [fs EXCEPT !.node[i].nlink = @ - 1] ELSE fs

\* The inode goes when no link is left.
Purge(fs, i) ==
  IF Exists(fs, i) /\ fs.node[i].nlink = 0 THEN [fs EXCEPT !.node = Delete(@, i)] ELSE fs

Children(fs, p) == {e \in DOMAIN fs.dent : e[1] = p}

\* What the schema and its first rows give, and every operation keeps: numbers below the
\* sequence, a root that is a directory and that no entry names.
WellFormed(fs) ==
  /\ DOMAIN fs = {"node", "dent", "next", "births"}
  /\ fs.next \in Nat /\ DOMAIN fs.node \subseteq 1 .. fs.next - 1
  /\ \A i \in DOMAIN fs.node :
       DOMAIN fs.node[i] = {"kind", "perm", "uid", "gid", "nlink", "data", "born"}
  /\ IsDir(fs, ROOT_INO)
  /\ \A e \in DOMAIN fs.dent : e = <<e[1], e[2]>> /\ fs.dent[e] \in Nat \ {0, ROOT_INO}

-----------------------------------------------------------------------------
\* lookup_child
lookup_child(fs, p, n) == IF <<p, n>> \in DOMAIN fs.dent THEN fs.dent[<<p, n>>] ELSE 0

\* Parent by fs_dentry, the root when there is no entry
ParentOf(fs, i) ==
  IF \E e \in DOMAIN fs.dent : fs.dent[e] = i
  THEN {e[1] : e \in {x \in DOMAIN fs.dent : fs.dent[x] = i}}
  ELSE {ROOT_INO}

\* lookup: the inode, or NotFound for its None.  A directory has one entry, so the
\* row that LIMIT 1 returns for ".." is determined.
lookup(fs, p, n) ==
  LET i == IF n # ".." THEN lookup_child(fs, p, n)
           ELSE IF p = ROOT_INO THEN ROOT_INO
           ELSE CHOOSE q \in ParentOf(fs, p) : TRUE
  IN  IF Exists(fs, i) THEN Done(fs, i) ELSE Fail(fs, "NotFound")

getattr(fs, i) == IF Exists(fs, i) THEN Done(fs, i) ELSE Fail(fs, "NotFound")

readlink(fs, i) ==
  IF ~Exists(fs, i) THEN Fail(fs, "NotFound")
  ELSE IF fs.node[i].kind # "lnk" THEN Fail(fs, "NotASymlink")
  ELSE Done(fs, i)

\* readdir and readdir_plus: the names in order; `order` lists all names, sorted.  The
\* join leaves out an entry whose inode is gone.
readdir_plus(fs, p, order) ==
  SelectSeq(order, LAMBDA n : Exists(fs, lookup_child(fs, p, n)))

readdir_error(fs, p) ==
  IF ~Exists(fs, p) THEN "NotFound" ELSE IF ~IsDir(fs, p) THEN "NotADirectory" ELSE "Ok"

-----------------------------------------------------------------------------
chmod(fs, i, perm) ==
  IF ~Exists(fs, i) THEN Fail(fs, "NotFound")
  ELSE Done([fs EXCEPT !.node[i].perm = perm], i)

The(S) == CHOOSE x \in S : TRUE

\* chown: an empty set for a value that is not given
chown(fs, i, uid, gid) ==
  IF uid = {} /\ gid = {} THEN Done(fs, i)
  ELSE IF ~Exists(fs, i) THEN Fail(fs, "NotFound")
  ELSE Done([fs EXCEPT !.node[i].uid = IF uid = {} THEN @ ELSE The(uid),
                       !.node[i].gid = IF gid = {} THEN @ ELSE The(gid)], i)

\* utimens: times are left out
utimens(fs, i) == getattr(fs, i)

\* open checks that the inode exists, whatever its kind.
open(fs, i) == getattr(fs, i)

\* pwrite and truncate of an open file: an UPDATE of the inode's row, if it still has one
SetData(fs, i, tag) == IF Exists(fs, i) THEN [fs EXCEPT !.node[i].data = tag] ELSE fs

pwrite(fs, i, tag) == Done(SetData(fs, i, tag), i)

truncate(fs, i) == Done(SetData(fs, i, 0), i)

-----------------------------------------------------------------------------
\* The rows of a new inode and its entry.  That the parent exists and is a directory is
\* for the caller to see to.
NewNode(fs, p, n, kind, perm, uid, gid, links, data) ==
  LET i == fs.next IN
  IF lookup_child(fs, p, n) # 0 THEN Fail(fs, "AlreadyExists")
  ELSE Done([node   |-> Insert(fs.node, i, [kind |-> kind, perm |-> perm, uid |-> uid,
                           gid |-> gid, nlink |-> links, data |-> data, born |-> fs.births]),
             dent   |-> Insert(fs.dent, <<p, n>>, i),
             next   |-> i + 1,
             births |-> fs.births + 1], i)

mkdir(fs, p, n, perm, uid, gid) ==
  LET r == NewNode(fs, p, n, "dir", perm, uid, gid, 2, 0)
  IN  IF r.err = "Ok" THEN [r EXCEPT !.fs = AddLinks(@, p, 1)] ELSE r

create_file(fs, p, n, perm, uid, gid) == NewNode(fs, p, n, "reg", perm, uid, gid, 1, 0)

mknod(fs, p, n, kind, perm, uid, gid) == NewNode(fs, p, n, kind, perm, uid, gid, 1, 0)

\* The permission bits of a symlink are all set.
AllBits == {"ur", "uw", "ux", "gr", "gw", "gx", "or", "ow", "ox"}

symlink(fs, p, n, target, uid, gid) ==
  NewNode(fs, p, n, "lnk", AllBits, uid, gid, 1, target)

unlink(fs, p, n) ==
  LET i == lookup_child(fs, p, n) IN
  IF i = 0 THEN Fail(fs, "NotFound")
  ELSE IF IsDir(fs, i) THEN Fail(fs, "IsADirectory")
  ELSE Done(Purge(DropLink([fs EXCEPT !.dent = Delete(@, <<p, n>>)], i), i), i)

\* rmdir leaves a directory that had its "." link counted with one link: the row stays
\* unless that count reaches zero.
rmdir(fs, p, n) ==
  LET i == lookup_child(fs, p, n) IN
  IF i = 0 THEN Fail(fs, "NotFound")
  ELSE IF i = ROOT_INO THEN Fail(fs, "RootOperation")
  ELSE IF ~Exists(fs, i) THEN Fail(fs, "NotFound")
  ELSE IF ~IsDir(fs, i) THEN Fail(fs, "NotADirectory")
  ELSE IF Children(fs, i) # {} THEN Fail(fs, "NotEmpty")
  ELSE Done(Purge(DropLink(DropLink([fs EXCEPT !.dent = Delete(@, <<p, n>>)], i), p), i), i)

link(fs, i, p, n) ==
  IF ~Exists(fs, i) THEN Fail(fs, "NotFound")
  ELSE IF IsDir(fs, i) THEN Fail(fs, "IsADirectory")
  ELSE IF lookup_child(fs, p, n) # 0 THEN Fail(fs, "AlreadyExists")
  ELSE Done(AddLinks([fs EXCEPT !.dent = Insert(@, <<p, n>>, i)], i, 1), i)

\* Why a rename of inode i over inode j is refused, "Ok" if it is not; j = 0: no entry
rename_error(fs, i, j) ==
  IF j = 0 THEN "Ok"
  ELSE IF ~Exists(fs, j) THEN "NotFound"
  ELSE IF IsDir(fs, j) /\ ~IsDir(fs, i) THEN "IsADirectory"
  ELSE IF ~IsDir(fs, j) /\ IsDir(fs, i) THEN "NotADirectory"
  ELSE IF IsDir(fs, j) /\ Children(fs, j) # {} THEN "NotEmpty"
  ELSE "Ok"

\* The destination entry goes, with its inode when that was the last link; then the
\* source entry, if it is still there, gets the new name.
rename(fs, p, n, q, m) ==
  LET i == lookup_child(fs, p, n)
      j == lookup_child(fs, q, m)
      cleared == IF j = 0 THEN fs
                 ELSE Purge(DropLink([fs EXCEPT !.dent = Delete(@, <<q, m>>)], j), j)
      moved == IF <<p, n>> \in DOMAIN cleared.dent
               THEN [cleared EXCEPT !.dent = Insert(Delete(@, <<p, n>>), <<q, m>>, i)]
               ELSE cleared
  IN  IF i = 0 THEN Fail(fs, "NotFound")
      ELSE IF i = ROOT_INO THEN Fail(fs, "RootOperation")
      ELSE IF ~Exists(fs, i) THEN Fail(fs, "NotFound")
      ELSE IF rename_error(fs, i, j) # "Ok" THEN Fail(fs, rename_error(fs, i, j))
      ELSE Done(IF IsDir(fs, i) /\ p # q THEN AddLinks(DropLink(moved, p), q, 1) ELSE moved, i)

\* initialize_schema, on opening the database: the root belongs to the user who opens
\* it, and the sequence is set to max, the largest ino.
IsLargest(i, S) == i \in S /\ \A j \in S : j <= i

reopen(fs, max, uid, gid) ==
  [fs EXCEPT !.next = max + 1, !.node[ROOT_INO].uid = uid, !.node[ROOT_INO].gid = gid]
=============================================================================
