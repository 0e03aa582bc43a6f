---------------------------- MODULE OverlayMount ----------------------------
(***************************************************************************)
(* An overlay that is mounted: the kernel keeps the number it was last     *)
(* given for a path, asks one thing at a time (the FUSE adapter serves     *)
(* requests one after another) and counts its lookups.  The process may be *)
(* stopped and started again, or die after any write to its database.      *)
(***************************************************************************)
EXTENDS Overlay

CONSTANTS Names,     \* names the kernel uses
          MaxDepth,  \* longest path it uses
          Warm,      \* paths it has looked up, parents first
          MaxOps     \* bound on the requests of a behaviour

VARIABLES o,       \* the overlay
          dcache,  \* the number the kernel has for a path
          refs,    \* the lookups the kernel has to give back for a number
          tree,    \* what the merged tree shows at every path
          last,    \* the last request, if it changed the tree or crashed, and its paths
          met,     \* "stale" and the limits that the requests so far have met
          reopened, \* the process was started again on its tables
          steps     \* operations so far

vars == <<o, dcache, refs, tree, last, met, reopened, steps>>

-----------------------------------------------------------------------------
(***************************************************************************)
(* The merged tree.  Sees(x, p) is what a path shows: its kind and data,   *)
(* or Nothing.                                                             *)
(***************************************************************************)
Nothing == [kind |-> "none", data |-> 0]

AtHost(p) ==
  FoldLeft(LAMBDA s, n : LET c == Fs!lookup_child(Host, s, n)
                         IN  IF c = Mountpoint THEN 0 ELSE c, Fs!ROOT_INO, p)

Sees(x, p) ==
  LET d == WalkDelta(x, p)
      Shown(node) == [kind |-> node.kind, data |-> node.data]
  IN  IF is_whiteout(x, p) THEN Nothing
      ELSE IF d # 0 THEN Shown(x.delta.node[d])
      ELSE IF /\ AtHost(p) # 0
              /\ \A q \in Prefixes(Front(p)) : WalkDelta(x, q) = 0 \/ Fs!IsDir(x.delta, WalkDelta(x, q))
        THEN Shown(Host.node[AtHost(p)])
      ELSE Nothing

Paths == UNION {[1 .. k -> Names] : k \in 1 .. MaxDepth}

Tree(x) == [p \in Paths |-> Sees(x, p)]

IsUnder(p, q) == q \in Prefixes(p)

SeenBelow(t, p) == {q \in Paths : q # p /\ IsUnder(q, p) /\ t[q] # Nothing}

(***************************************************************************)
(* What may be wrong with a request.  "stale": a number it uses does not   *)
(* stand for the file the path has now.  The others are limits of the      *)
(* overlay: requests with current numbers that it does not carry out as a  *)
(* plain tree would.  Number i is the kernel's for path p.                 *)
(***************************************************************************)
When(cond, name) == IF cond THEN {name} ELSE {}

\* A directory: its path is p and its inode that of p.
CurrentDir(x, i, p) ==
  LET info == x.inode_map[i]
  IN  /\ ~is_whiteout(x, p)
      /\ info.path = p
      /\ IF info.layer = "Delta" THEN info.under = WalkDelta(x, p)
         ELSE info.under \in DOMAIN x.h.src /\ x.h.src[info.under] = AtHost(p)

\* A file that is to be copied up or written
CurrentFile(x, i, p) ==
  LET info == x.inode_map[i]
  IN  /\ ~is_whiteout(x, p)
      /\ IF info.layer = "Delta" THEN info.under = WalkDelta(x, p)
         ELSE /\ info.path = p
              /\ \/ WalkDelta(x, p) # 0
                 \/ info.under \in DOMAIN x.h.src /\ x.h.src[info.under] = AtHost(p)

UsesFile(x, i, p) == When(~CurrentFile(x, i, p), "stale")

\* A name in a directory is looked up.  Limit "over a file": the base has another file
\* where the directory is, and its error is returned.
InDir(x, i, p) ==
  When(~CurrentDir(x, i, p), "stale")
  \cup When(AtHost(p) # 0 /\ ~Fs!IsDir(Host, AtHost(p)), "over a file")

\* A directory is listed or loses a name.  Limit "eclipsed": the delta has the directory
\* and the number is still that of the base's, as lookup answers for a directory that was
\* copied up; what is in the delta is then not listed, and not removed.
Empties(x, i, p) ==
  InDir(x, i, p) \cup When(x.inode_map[i].layer = "Base" /\ WalkDelta(x, p) # 0, "eclipsed")

-----------------------------------------------------------------------------
(***************************************************************************)
(* The kernel's requests.                                                  *)
(***************************************************************************)
Num(p) == dcache[p].ino

Dirs == {p \in DOMAIN dcache : dcache[p].kind = "dir" /\ Len(p) < MaxDepth}

RootOnly == Root :> [ino |-> ROOT_INO, kind |-> "dir"]

\* Number i is given to the kernel for path p.
Known(dc, p, i, kind) == Fs!Insert(dc, p, [ino |-> i, kind |-> kind])

Counted(rf, i) == Fs!Insert(rf, i, IF i \in DOMAIN rf THEN rf[i] + 1 ELSE 1)

\* Path p and what is below it are dropped.
Dropped(dc, p) == [q \in {x \in DOMAIN dc : ~IsUnder(x, p)} |-> dc[q]]

\* The kernel has looked for path p and found nothing.
Absent(p) == p \notin DOMAIN dcache /\ tree[p] = Nothing

\* What a request is remembered as: nothing but its success at changing the tree matters
Quiet == [op |-> "none", paths |-> <<>>, crash |-> FALSE]

Changes == {"mkdir", "create", "mknod", "symlink", "write", "unlink", "rmdir", "link", "rename"}

\* Request op on paths ps has result r and leaves the kernel with dc and rf, or the
\* process dies after one of its writes and is started again.  why: what may be wrong
\* with it
Request(op, ps, why, r, dc, rf) ==
  /\ steps < MaxOps
  /\ steps' = steps + 1
  /\ met' = met \cup why
  /\ \/ /\ o' = [r.o EXCEPT !.trail = {}]
        /\ dcache' = dc
        /\ refs' = rf
        /\ UNCHANGED reopened
        /\ last' = IF op \in Changes /\ r.err = "Ok"
                   THEN [op |-> op, paths |-> ps, crash |-> FALSE] ELSE Quiet
     \/ /\ \E d \in r.o.trail : o' = Boot(d)
        /\ dcache' = RootOnly
        /\ refs' = <<>>
        /\ reopened' = TRUE
        /\ last' = [op |-> "none", paths |-> ps, crash |-> TRUE]
  /\ tree' = Tree(o')

\* A request that returns a new entry
Entry(op, p, n, why, r, kind) ==
  LET path == Append(p, n)
  IN  IF r.err = "Ok"
      THEN Request(op, <<path>>, why, r, Known(Dropped(dcache, path), path, r.ino, kind),
                   Counted(refs, r.ino))
      ELSE Request(op, <<path>>, why, r, dcache, refs)

\* The kernel keeps what it was given for ever, and asks for what it does not have.
Lookup(p, n) ==
  LET With(r) == Entry("lookup", p, n, {}, r,
                       IF r.err = "Ok" THEN r.node.kind ELSE "none")
  IN  /\ Append(p, n) \notin DOMAIN dcache
      /\ With(lookup(o, Num(p), n))

\* READDIR (READDIRPLUS is not served).  The adapter asks for the entries with their
\* numbers, which the base counts; the kernel keeps none of them and gives none back.
Readdir(p) ==
  Request("readdir", <<p>>, {}, readdir_plus(o, Num(p)), dcache, refs)

\* Mode, owner and times, one call after the other
Setattr(p) ==
  LET Chown(c) == IF c.err # "Ok" THEN c ELSE chown(c.o, Num(p), {1}, {})
      Utimens(c) == IF c.err # "Ok" THEN c ELSE utimens(c.o, Num(p))
  IN  Request("open", <<p>>, UsesFile(o, Num(p), p), Utimens(Chown(chmod(o, Num(p), Mode))), dcache, refs)

Open(p) == Request("open", <<p>>, UsesFile(o, Num(p), p), open(o, Num(p)), dcache, refs)

Written == 3

\* open, then write
Write(p) ==
  LET Opened(c) == IF c.err = "Ok" THEN OnDelta(c.o, Fs!pwrite(c.o.delta, c.ino, Written), Num(p))
                   ELSE c
  IN  /\ dcache[p].kind = "reg"
      /\ Request("write", <<p>>, UsesFile(o, Num(p), p), Opened(open(o, Num(p))), dcache, refs)

Mkdir(p, n) ==
  Entry("mkdir", p, n, InDir(o, Num(p), p), mkdir(o, Num(p), n, 1, 1), "dir")

Create(p, n) ==
  /\ Absent(Append(p, n))
  /\ Entry("create", p, n, InDir(o, Num(p), p), create_file(o, Num(p), n, 1, 1), "reg")

Mknod(p, n) ==
  /\ Absent(Append(p, n))
  /\ Entry("mknod", p, n, InDir(o, Num(p), p), mknod(o, Num(p), n, 1, 1), "fifo")

Symlink(p, n) ==
  /\ Absent(Append(p, n))
  /\ Entry("symlink", p, n, InDir(o, Num(p), p), symlink(o, Num(p), n, Written, 1, 1), "lnk")

\* A request that removes a name
Gone(op, path, why, r) ==
  Request(op, <<path>>, why, r, IF r.err = "Ok" THEN Dropped(dcache, path) ELSE dcache, refs)

Unlink(p, n) ==
  LET path == Append(p, n)
  IN  /\ path \in DOMAIN dcache
      /\ Gone("unlink", path, Empties(o, Num(p), p), unlink(o, Num(p), n))

Rmdir(p, n) ==
  LET path == Append(p, n)
      Why(l) == Empties(o, Num(p), p) \cup IF l.err = "Ok" THEN Empties(l.o, l.ino, path) ELSE {}
  IN  /\ path \in DOMAIN dcache
      /\ Gone("rmdir", path, Why(lookup(o, Num(p), n)), rmdir(o, Num(p), n))

Link(f, p, n) ==
  LET path == Append(p, n)
      With(r) ==
        Request("link", <<f, path>>, UsesFile(o, Num(f), f) \cup InDir(o, Num(p), p), r,
          IF r.err = "Ok" THEN Known(dcache, path, r.ino, "reg") ELSE dcache,
          IF r.err = "Ok" THEN Counted(refs, r.ino) ELSE refs)
  IN  /\ dcache[f].kind = "reg"
      /\ Absent(path)
      /\ With(link(o, Num(f), Num(p), n))

\* The kernel moves its entries along with the name.
Moved(dc, from, to) ==
  LET rest == [x \in {y \in DOMAIN dc : ~IsUnder(y, from) /\ ~IsUnder(y, to)} |-> dc[x]]
  IN  [x \in {to \o SubSeq(y, Len(from) + 1, Len(y)) : y \in {z \in DOMAIN dc : IsUnder(z, from)}}
         |-> dc[from \o SubSeq(x, Len(to) + 1, Len(x))]] @@ rest

\* Limits of rename: the source directory is looked for in the delta before copy_up makes
\* it, and a missing one is skipped ("out of the base"); a directory of the base goes
\* without what is in it, which a whiteout then hides ("base directory"); a directory
\* that is replaced goes on showing what the base has ("onto a directory"), and old
\* whiteouts hide what a directory brings along ("whiteouts below").
Renames(p, n, q, m) ==
  LET old == Append(p, n)
      new == Append(q, m)
      dir == tree[old].kind = "dir"
  IN  InDir(o, Num(p), p) \cup InDir(o, Num(q), q)
      \cup When(WalkDelta(o, p) = 0, "out of the base")
      \cup When(dir /\ AtHost(old) # 0, "base directory")
      \cup When(tree[new].kind = "dir", "onto a directory")
      \cup When(dir /\ \E w \in o.whiteouts : w # new /\ IsUnder(w, new), "whiteouts below")

Rename(p, n, q, m) ==
  LET old == Append(p, n)
      new == Append(q, m)
      With(r) == Request("rename", <<old, new>>, Renames(p, n, q, m), r,
                   IF r.err = "Ok" THEN Moved(dcache, old, new) ELSE dcache, refs)
  IN  /\ old \in DOMAIN dcache
      /\ ~IsUnder(new, old) /\ ~IsUnder(old, new)
      /\ IF new \in DOMAIN dcache THEN (dcache[new].kind = "dir") = (dcache[old].kind = "dir")
         ELSE Absent(new)
      /\ With(rename(o, Num(p), n, Num(q), m))

\* The kernel gives back all it has counted for a number it has no more use for.
Forget(i) ==
  /\ \A p \in DOMAIN dcache : Num(p) = i => \A q \in DOMAIN dcache : q = p \/ ~IsUnder(q, p)
  /\ Request("forget", <<>>, {}, Ok(forget(o, i, refs[i]), 0),
       [p \in {q \in DOMAIN dcache : Num(q) # i} |-> dcache[p]], Fs!Delete(refs, i))

Restart ==
  /\ o' = Boot(Durable(o))
  /\ tree' = Tree(o')
  /\ dcache' = RootOnly
  /\ refs' = <<>>
  /\ reopened' = TRUE
  /\ last' = Quiet
  /\ UNCHANGED <<met, steps>>

\* The delta after initialize_schema
EmptyDelta ==
  [node   |-> 1 :> [kind |-> "dir", perm |-> {}, uid |-> 0, gid |-> 0, nlink |-> 2, data |-> 0,
                    born |-> 0],
   dent   |-> <<>>,
   next   |-> 2,
   births |-> 1]

\* The kernel has looked up path p.
Walked(a, p) ==
  LET With(r) == [o |-> r.o, dc |-> Known(a.dc, p, r.ino, r.node.kind), rf |-> Counted(a.rf, r.ino)]
  IN  With(lookup(a.o, a.dc[Front(p)].ino, Last(p)))

\* A new overlay, in which the paths of Warm have been looked up
Init ==
  LET new == Boot([delta |-> EmptyDelta, fs_whiteout |-> {}, fs_origin |-> <<>>])
      a == FoldLeft(Walked, [o |-> new, dc |-> RootOnly, rf |-> <<>>], Warm)
  IN  /\ o = a.o
      /\ tree = Tree(a.o)
      /\ dcache = a.dc
      /\ refs = a.rf
      /\ last = Quiet
      /\ met = {}
      /\ reopened = FALSE
      /\ steps = 0

Next ==
  \/ \E p \in Dirs, n \in Names :
       \/ Lookup(p, n)
       \/ Mkdir(p, n)
       \/ Create(p, n)
       \/ Mknod(p, n)
       \/ Symlink(p, n)
       \/ Unlink(p, n)
       \/ Rmdir(p, n)
       \/ \E q \in Dirs, m \in Names : Rename(p, n, q, m)
       \/ \E f \in DOMAIN dcache : Link(f, p, n)
  \/ \E p \in Dirs : Readdir(p)
  \/ \E p \in DOMAIN dcache \ {Root} : Setattr(p) \/ Open(p) \/ Write(p)
  \/ \E i \in DOMAIN refs : Forget(i)
  \/ Restart

Spec == Init /\ [][Next]_vars

\* The behaviours in which every number used was current and no limit was met
Fitting == met = {}

-----------------------------------------------------------------------------
\* Two names of one file of the delta
SameFile(x, p, q) == WalkDelta(x, p) # 0 /\ WalkDelta(x, p) = WalkDelta(x, q)

SameBut(S) ==
  \A p \in Paths : \/ tree'[p] = tree[p]
                   \/ \E q \in S : IsUnder(p, q) \/ SameFile(o', p, q)

\* A request that succeeds changes the tree as it would change a plain one: in particular,
\* looking, listing, opening, changing attributes, forgetting and starting again leave it
\* as it was, whatever they copy up.  So does a request that fails.
ActsOnTree ==
  [][met' = {} /\ ~last'.crash =>
       LET p == last'.paths[1]
           q == last'.paths[2]
       IN  CASE last'.op \in {"mkdir", "create", "mknod", "symlink"} ->
                  /\ tree[p] = Nothing
                  /\ tree'[p].kind = dcache'[p].kind
                  /\ SeenBelow(tree', p) = {}
                  /\ SameBut({p})
             [] last'.op = "write" ->
                  /\ tree'[p] = [kind |-> "reg", data |-> Written]
                  /\ SameBut({p})
                  /\ \A x \in Paths : SameFile(o', x, p) => tree'[x].data = Written
             [] last'.op \in {"unlink", "rmdir"} ->
                  /\ SeenBelow(tree, p) = {}
                  /\ tree'[p] = Nothing
                  /\ SeenBelow(tree', p) = {}
                  /\ SameBut({p})
             [] last'.op = "link" -> tree'[q] = tree[p] /\ SameBut({q})
             [] last'.op = "rename" ->
                  /\ tree'[p] = Nothing
                  /\ tree'[q] = tree[p]
                  /\ \A x \in SeenBelow(tree, p) : LET y == q \o SubSeq(x, Len(p) + 1, Len(x))
                                                IN  y \in Paths => tree'[y] = tree[x]
                  /\ SameBut({p, q})
             [] OTHER -> tree' = tree]_vars

\* A crash in the middle of a request touches no path but those of the request.
CrashKeepsOthers ==
  [][met' = {} /\ last'.crash => SameBut({last'.paths[k] : k \in DOMAIN last'.paths})]_vars

\* The name of the mountpoint in directory p, where a whiteout does not hide it
MountName(p) ==
  {n \in ToSet(Order) : Fs!lookup_child(Host, AtHost(p), n) = Mountpoint /\ ~is_whiteout(o, Append(p, n))}

\* A directory lists what the tree has there, with or without numbers, unless its number
\* is stale or eclipsed.  The listing without numbers also has the mountpoint, which lookup
\* and the other listing leave out (HostFS::readdir).
ListsTree ==
  met = {} => \A p \in Dirs : Empties(o, Num(p), p) = {} =>
    LET seen == {n \in Names : tree[Append(p, n)] # Nothing}
    IN  /\ readdir(o, Num(p)).names = seen \cup MountName(p)
        /\ DOMAIN readdir_plus(o, Num(p)).num = seen

\* The number of a delta inode leads back to it, and a file of the host has one number in
\* the base's cache.
NumbersAgree ==
  /\ \A k \in DOMAIN o.reverse_map : k[1] = "Delta" =>
       LET info == o.inode_map[o.reverse_map[k]] IN info.layer = "Delta" /\ info.under = k[2]
  /\ \A i \in DOMAIN o.h.src : /\ o.h.src[i] \in DOMAIN o.h.num
                               /\ o.h.num[o.h.src[i]] = i
                               /\ o.h.cnt[i] >= 1
  /\ DOMAIN o.h.num = Range(o.h.src)

\* The number the kernel has for a file is the one a lookup of its path gives, whatever was
\* copied up, linked or renamed since (fs_origin).  Not so for directories, which
\* promote_to_delta takes the number of the base's inode from, nor once the process was
\* started again: origins are rows that stay, and the base numbers in them do not.
StableNumbers ==
  (met = {} /\ ~reopened) => \A p \in DOMAIN dcache \ {Root} :
    (/\ dcache[p].kind # "dir"
     /\ Front(p) \in DOMAIN dcache
     /\ InDir(o, Num(Front(p)), Front(p)) = {})
      => LET r == lookup(o, Num(Front(p)), Last(p)) IN r.err = "Ok" /\ r.ino = Num(p)
=============================================================================
