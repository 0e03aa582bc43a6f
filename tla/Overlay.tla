------------------------------ MODULE Overlay ------------------------------
(***************************************************************************)
(* OverlayFS (overlayfs.rs): a copy-on-write view of a read-only base      *)
(* (HostFs) under a writable delta (FsOps), with whiteouts for what was    *)
(* deleted from the base.  Operations name files by overlay numbers.       *)
(*                                                                         *)
(* The overlay is one record o.  In memory: inode_map, reverse_map,        *)
(* path_map, next_ino, whiteouts, origin_map, and the cache h of the base. *)
(* In the database: the delta, fs_whiteout and fs_origin.  `trail` has the *)
(* database after each call of the running operation that wrote to it: a   *)
(* crash leaves one of these.  An operation of SecAFS is one such call;    *)
(* that it may be several statements is the subject of NamespaceSteps.     *)
(* A path is a sequence of names.                                          *)
(*                                                                         *)
(* An operation returns [err, o, ino].                                     *)
(***************************************************************************)
EXTENDS Naturals, Sequences, FiniteSets, FiniteSetsExt, SequencesExt, Functions

CONSTANTS Host, Mountpoint, Order,
          Mode   \* the permission bits in use: they are carried along, not compared

Fs == INSTANCE FsOps
Hf == INSTANCE HostFs

ROOT_INO == 1

Root == <<>>

Ok(x, i) == [err |-> "Ok", o |-> x, ino |-> i]

Err(x, e) == [err |-> e, o |-> x, ino |-> 0]

Durable(x) == [delta |-> x.delta, fs_whiteout |-> x.fs_whiteout, fs_origin |-> x.fs_origin]

\* The database was written.
Wrote(x) == [x EXCEPT !.trail = @ \cup {Durable(x)}]

\* The delta after operation r of FsOps, one durable state
Delta(x, r) == IF r.fs = x.delta THEN x ELSE Wrote([x EXCEPT !.delta = r.fs])

\* new, then load: the maps know the root only, the tables are read back.
Boot(d) ==
  [delta       |-> Fs!reopen(d.delta, CHOOSE i \in DOMAIN d.delta.node : Fs!IsLargest(i, DOMAIN d.delta.node), 0, 0),
   fs_whiteout |-> d.fs_whiteout,
   fs_origin   |-> d.fs_origin,
   h           |-> Hf!new,
   inode_map   |-> ROOT_INO :> [layer |-> "Delta", under |-> 1, path |-> Root],
   reverse_map |-> <<"Delta", 1>> :> ROOT_INO,
   path_map    |-> Root :> ROOT_INO,
   next_ino    |-> 2,
   whiteouts   |-> d.fs_whiteout,
   origin_map  |-> d.fs_origin,
   trail       |-> {}]

-----------------------------------------------------------------------------
is_whiteout(x, p) == Prefixes(p) \cap x.whiteouts # {}

\* Mutant of create_whiteout: it is kept in memory only.
create_whiteout_cached(x, p) == [x EXCEPT !.whiteouts = @ \cup {p}]

create_whiteout(x, p) ==
  Wrote([x EXCEPT !.fs_whiteout = @ \cup {p}, !.whiteouts = @ \cup {p}])

remove_whiteout(x, p) ==
  IF p \notin x.whiteouts THEN x
  ELSE Wrote([x EXCEPT !.fs_whiteout = @ \ {p}, !.whiteouts = @ \ {p}])

get_child_whiteouts(x, p) == {Last(w) : w \in {v \in x.whiteouts : Front(v) = p}}

\* get_or_create_overlay_ino: the number under which a layer's inode is known, else a
\* new one, now also that of the path
get_or_create_overlay_ino(x, layer, under, path) ==
  IF <<layer, under>> \in DOMAIN x.reverse_map THEN Ok(x, x.reverse_map[<<layer, under>>])
  ELSE Ok([x EXCEPT
             !.inode_map   = Fs!Insert(@, x.next_ino,
                               [layer |-> layer, under |-> under, path |-> path]),
             !.reverse_map = Fs!Insert(@, <<layer, under>>, x.next_ino),
             !.path_map    = Fs!Insert(@, path, x.next_ino),
             !.next_ino    = @ + 1], x.next_ino)

build_path(x, p, n) == Append(x.inode_map[p].path, n)

\* Mutant of add_origin_mapping: it is stored only.
add_origin_mapping_stored(x, d, b) == Wrote([x EXCEPT !.fs_origin = Fs!Insert(@, d, b)])

add_origin_mapping(x, d, b) ==
  Wrote([x EXCEPT !.fs_origin = Fs!Insert(@, d, b), !.origin_map = Fs!Insert(@, d, b)])

\* promote_to_delta: the number of a base directory that was made in the delta moves
\* there, and the base inode loses its number.
promote_to_delta(x, p, d) ==
  LET Promote(i, info) ==
        IF info.layer # "Base" THEN x
        ELSE [x EXCEPT !.inode_map[i]  = [info EXCEPT !.layer = "Delta", !.under = d],
                       !.reverse_map = Fs!Insert(Fs!Delete(@, <<"Base", info.under>>),
                                                 <<"Delta", d>>, i)]
  IN  IF p \notin DOMAIN x.path_map THEN x
      ELSE Promote(x.path_map[p], x.inode_map[x.path_map[p]])

-----------------------------------------------------------------------------
\* The inode of a path in the delta, 0 when a name is missing
WalkDelta(x, p) ==
  FoldLeft(LAMBDA i, n : IF i = 0 THEN 0 ELSE Fs!lookup(x.delta, i, n).ino, 1, p)

\* The walk of mkdir, create_file, link and rename: a missing name is skipped.
WalkDeltaSkipping(x, p) ==
  LET Step(i, r) == IF r.err = "Ok" THEN r.ino ELSE i
  IN  FoldLeft(LAMBDA i, n : Step(i, Fs!lookup(x.delta, i, n)), 1, p)

\* base.lookup
BaseLookup(x, p, n) ==
  LET Kept(r) == [err |-> r.err, o |-> [x EXCEPT !.h = r.h], ino |-> r.ino]
  IN  Kept(Hf!lookup(x.h, p, n))

\* The base inode of a path: "None" when a name is missing
WalkBase(x, p) ==
  FoldLeft(LAMBDA r, n : IF r.err = "Ok" THEN BaseLookup(r.o, r.ino, n) ELSE r, Ok(x, 1), p)

\* The base directory of a parent or of a directory to list
BaseOf(x, info) == IF info.layer = "Base" THEN Ok(x, info.under) ELSE WalkBase(x, info.path)

\* The delta directory of a parent, for an operation that has made it
DeltaParent(x, info) ==
  IF info.layer = "Delta" THEN info.under ELSE WalkDeltaSkipping(x, info.path)

\* One directory of ensure_parent_dirs: a = [err, o, d, b], d and b the delta and the
\* base inode reached
EnsureDir(a, path, uid, gid) ==
  LET n == Last(path)
      Make(s, owner) == Fs!mkdir(s.o.delta, a.d, n, Mode, owner.uid, owner.gid)
      Enter(y, made, s) ==
        IF s.err = "None" THEN [a EXCEPT !.o = y, !.d = made.ino]
        ELSE [a EXCEPT !.d = made.ino, !.b = s.ino,
                       !.o = promote_to_delta(add_origin_mapping(y, made.ino, s.ino), path, made.ino)]
      MakeAndEnter(s, made) == Enter(Delta(s.o, made), made, s)
      With(x, d, s) ==
        IF d.err = "Ok" /\ ~Fs!IsDir(x.delta, d.ino)
          THEN [a EXCEPT !.err = "NotADirectory", !.o = x]
        ELSE IF s.err \notin {"Ok", "None"} THEN [a EXCEPT !.err = s.err, !.o = s.o]
        ELSE IF d.err = "Ok"
          THEN [a EXCEPT !.o = s.o, !.d = d.ino, !.b = IF s.err = "Ok" THEN s.ino ELSE @]
        ELSE MakeAndEnter(s, Make(s, IF s.err = "Ok" THEN Host.node[s.o.h.src[s.ino]]
                                     ELSE [uid |-> uid, gid |-> gid]))
      Unhidden(x) == With(x, Fs!lookup(x.delta, a.d, n), BaseLookup(x, a.b, n))
  IN  Unhidden(remove_whiteout(a.o, path))

\* ensure_parent_dirs: the ancestors of a path, from the top
ensure_parent_dirs(x, path, uid, gid) ==
  FoldLeft(LAMBDA a, k : IF a.err = "Ok" THEN EnsureDir(a, SubSeq(path, 1, k), uid, gid) ELSE a,
           [err |-> "Ok", o |-> x, d |-> 1, b |-> 1], [k \in 1 .. Len(path) - 1 |-> k])

\* Mutant of CopyNode: the contents are not written.
CopyNodeEmpty(x, p, name, b) ==
  LET With(r) == IF r.err # "Ok" THEN Err(x, r.err) ELSE Ok(Delta(x, r), r.ino)
  IN  With(Fs!create_file(x.delta, p, name, b.perm, b.uid, b.gid))

\* What copy_up makes in delta directory p for host node b.  The contents of a file
\* are a second write.
CopyNode(x, p, name, b) ==
  LET Filled(y, i) == Ok(IF b.kind \in {"lnk", "dir"} THEN y ELSE Delta(y, Fs!pwrite(y.delta, i, b.data)), i)
      With(r) == IF r.err # "Ok" THEN Err(x, r.err) ELSE Filled(Delta(x, r), r.ino)
  IN  With(CASE b.kind = "lnk" -> Fs!symlink(x.delta, p, name, b.data, b.uid, b.gid)
             [] b.kind = "dir" -> Fs!mkdir(x.delta, p, name, b.perm, b.uid, b.gid)
             [] OTHER -> Fs!create_file(x.delta, p, name, b.perm, b.uid, b.gid))

\* copy_up: the delta inode of a path of the base, made if it is not there
copy_up(x, path, base_ino) ==
  LET Origin(c) == IF c.err # "Ok" THEN c ELSE Ok(add_origin_mapping(c.o, c.ino, base_ino), c.ino)
      Copy(y, p, b) == IF p = 0 THEN Err(y, "NotFound") ELSE Origin(CopyNode(y, p, Last(path), b))
      Parents(e, b) == IF e.err # "Ok" THEN Err(e.o, e.err) ELSE Copy(e.o, WalkDelta(e.o, Front(path)), b)
      Missing(b) == Parents(ensure_parent_dirs(x, path, b.uid, b.gid), b)
      With(up) ==
        IF up.err = "Ok" THEN Ok(x, up.ino)
        ELSE IF Hf!getattr(x.h, base_ino).err # "Ok" THEN Err(x, "NotFound")
        ELSE Missing(Host.node[x.h.src[base_ino]])
  IN  IF path = Root THEN Err(x, "RootOperation")
      ELSE With(Fs!lookup(x.delta, WalkDelta(x, Front(path)), Last(path)))

\* copy_up_and_update_mapping: number i now stands for the copy; the base inode keeps
\* its number.
copy_up_and_update_mapping(x, i) ==
  LET info == x.inode_map[i]
      Mapped(c) ==
        IF c.err # "Ok" THEN c
        ELSE Ok([c.o EXCEPT !.inode_map[i] = [info EXCEPT !.layer = "Delta", !.under = c.ino],
                            !.reverse_map = Fs!Insert(@, <<"Delta", c.ino>>, i)], c.ino)
  IN  Mapped(copy_up(x, info.path, info.under))

-----------------------------------------------------------------------------
\* lookup: a whiteout hides both layers, the delta hides the base.  A copy is known by
\* the number of its original.  The result has the node found as well.
lookup(x, p, n) ==
  LET info == x.inode_map[p]
      path == build_path(x, p, n)
      Found(r, node) == r @@ [node |-> node]
      InBase(s) ==
        IF s.err # "Ok" THEN s
        ELSE Found(get_or_create_overlay_ino(s.o, "Base", s.ino, path), Host.node[s.o.h.src[s.ino]])
      Beneath(b) == IF b.err # "Ok" THEN b ELSE InBase(BaseLookup(b.o, b.ino, n))
      ByOrigin(g, d) ==
        IF d \in DOMAIN x.origin_map
        THEN get_or_create_overlay_ino(g.o, "Base", x.origin_map[d], path) ELSE g
      With(d) ==
        IF d.err = "Ok"
        THEN Found(ByOrigin(get_or_create_overlay_ino(x, "Delta", d.ino, path), d.ino),
                   x.delta.node[d.ino])
        ELSE Beneath(BaseOf(x, info))
      Dir == IF info.layer = "Delta" THEN info.under ELSE WalkDelta(x, info.path)
  IN  IF is_whiteout(x, path) THEN Err(x, "None")
      ELSE With(Fs!lookup(x.delta, Dir, n))

getattr(x, i) ==
  LET info == x.inode_map[i]
      r == IF info.layer = "Delta" THEN Fs!getattr(x.delta, info.under).err
           ELSE Hf!getattr(x.h, info.under).err
  IN  IF r = "Ok" THEN Ok(x, i) ELSE Err(x, "None")

readlink(x, i) ==
  LET info == x.inode_map[i]
      r == IF info.layer = "Delta" THEN Fs!readlink(x.delta, info.under).err
           ELSE Hf!readlink(x.h, info.under).err
  IN  IF r = "Ok" THEN Ok(x, i) ELSE Err(x, r)

\* Mutant of readdir: a directory the delta has is listed from the delta alone.
readdir_upper(x, i) ==
  LET info == x.inode_map[i]
  IN  [err |-> "Ok", o |-> x,
       names |-> IF info.layer = "Delta" THEN ToSet(Fs!readdir_plus(x.delta, info.under, Order))
                 ELSE {n \in ToSet(Hf!readdir(x.h, info.under)) : ~is_whiteout(x, Append(info.path, n))}]

\* readdir: the delta's names if the number is one of the delta, and the base's that no
\* whiteout hides.  Returns [err, o, names].
readdir(x, i) ==
  LET info == x.inode_map[i]
      InDir == IF info.layer # "Delta" \/ Fs!readdir_error(x.delta, info.under) # "Ok" THEN {}
               ELSE ToSet(Fs!readdir_plus(x.delta, info.under, Order))
      Beneath(b, e) ==
        [err   |-> IF e = "None" THEN "Ok" ELSE e,
         o     |-> b.o,
         names |-> InDir \cup
           IF e # "Ok" THEN {}
           ELSE {n \in ToSet(Hf!readdir(b.o.h, b.ino)) :
                   ~is_whiteout(x, Append(info.path, n)) /\ n \notin get_child_whiteouts(x, info.path)}]
      With(b) == Beneath(b, IF b.err # "Ok" THEN b.err ELSE Hf!readdir_error(b.o.h, b.ino))
  IN  With(BaseOf(x, info))

\* readdir_plus: as readdir, with a number for every name.  Returns [err, o, num].
readdir_plus(x, i) ==
  LET info == x.inode_map[i]
      InDir == IF info.layer # "Delta" \/ Fs!readdir_error(x.delta, info.under) # "Ok" THEN <<>>
               ELSE Fs!readdir_plus(x.delta, info.under, Order)
      Numbered(num, n, r) == [o |-> r.o, num |-> Fs!Insert(num, n, r.ino)]
      Entry(a, n, layer, under) ==
        Numbered(a.num, n, get_or_create_overlay_ino(a.o, layer, under, Append(info.path, n)))
      FromDelta(a, n, d) ==
        IF d \in DOMAIN x.origin_map THEN Entry(a, n, "Base", x.origin_map[d])
        ELSE Entry(a, n, "Delta", d)
      FromBase(a, n, num) ==
        IF \/ n \notin DOMAIN num
           \/ is_whiteout(x, Append(info.path, n))
           \/ n \in get_child_whiteouts(x, info.path)
        THEN a
        ELSE Entry(a, n, "Base", num[n])
      Listed(r) == [err |-> "Ok", o |-> r.o, num |-> r.num]
      Both(y, num) ==
        Listed(FoldLeft(LAMBDA a, n : FromDelta(a, n, Fs!lookup_child(x.delta, info.under, n)),
                        FoldLeft(LAMBDA a, n : FromBase(a, n, num), [o |-> y, num |-> <<>>], Order),
                        InDir))
      Counted(y, r) == Both([y EXCEPT !.h = r.h], r.num)
      Beneath(b, e) ==
        IF e \notin {"Ok", "None"} THEN [err |-> e, o |-> b.o, num |-> <<>>]
        ELSE IF e = "None" THEN Both(b.o, <<>>)
        ELSE Counted(b.o, Hf!readdir_plus(b.o.h, b.ino))
      With(b) == Beneath(b, IF b.err # "Ok" THEN b.err ELSE Hf!readdir_error(b.o.h, b.ino))
  IN  With(BaseOf(x, info))

-----------------------------------------------------------------------------
\* The delta inode of a number, copied up if the base has it
InDelta(x, i) ==
  IF x.inode_map[i].layer = "Delta" THEN Ok(x, x.inode_map[i].under)
  ELSE copy_up_and_update_mapping(x, i)

\* Result r of FsOps on the delta of x, about number i
OnDelta(x, r, i) == IF r.err = "Ok" THEN Ok(Delta(x, r), i) ELSE Err(x, r.err)

chmod(x, i, perm) ==
  LET With(c) == IF c.err # "Ok" THEN c ELSE OnDelta(c.o, Fs!chmod(c.o.delta, c.ino, perm), i)
  IN  With(InDelta(x, i))

chown(x, i, uid, gid) ==
  LET With(c) == IF c.err # "Ok" THEN c ELSE OnDelta(c.o, Fs!chown(c.o.delta, c.ino, uid, gid), i)
  IN  With(InDelta(x, i))

utimens(x, i) ==
  LET With(c) == IF c.err # "Ok" THEN c ELSE OnDelta(c.o, Fs!utimens(c.o.delta, c.ino), i)
  IN  With(InDelta(x, i))

\* open copies up whatever the flags are; the handle is one of the delta, ino its inode.
open(x, i) ==
  LET With(c) == IF c.err # "Ok" \/ Fs!open(c.o.delta, c.ino).err = "Ok" THEN c
                 ELSE Err(c.o, "NotFound")
  IN  With(InDelta(x, i))

\* What mkdir, create_file, mknod and symlink do once the name may be used: Make is the
\* operation of the delta on the parent it is given.
Made(x, p, n, uid, gid, kind, data) ==
  LET path == build_path(x, p, n)
      Make(y, dir) ==
        CASE kind = "dir" -> Fs!mkdir(y.delta, dir, n, Mode, uid, gid)
          [] kind = "reg" -> Fs!create_file(y.delta, dir, n, Mode, uid, gid)
          [] kind = "lnk" -> Fs!symlink(y.delta, dir, n, data, uid, gid)
          [] OTHER -> Fs!mknod(y.delta, dir, n, kind, Mode, uid, gid)
      Numbered(y, r) ==
        IF r.err # "Ok" THEN Err(y, r.err)
        ELSE get_or_create_overlay_ino(Delta(y, r), "Delta", r.ino, path)
      With(e) ==
        IF e.err # "Ok" THEN Err(e.o, e.err)
        ELSE Numbered(e.o, Make(e.o, DeltaParent(e.o, x.inode_map[p])))
  IN  With(ensure_parent_dirs(remove_whiteout(x, path), path, uid, gid))

\* Only mkdir looks whether the name is there.
mkdir(x, p, n, uid, gid) ==
  LET With(l) == IF l.err = "Ok" THEN Err(l.o, "AlreadyExists")
                 ELSE IF l.err # "None" THEN l
                 ELSE Made(l.o, p, n, uid, gid, "dir", 0)
  IN  With(lookup(x, p, n))

create_file(x, p, n, uid, gid) == Made(x, p, n, uid, gid, "reg", 0)

mknod(x, p, n, uid, gid) == Made(x, p, n, uid, gid, "fifo", 0)

symlink(x, p, n, target, uid, gid) == Made(x, p, n, uid, gid, "lnk", target)

\* The end of unlink, rmdir and rename: a whiteout if the base has the name
HideBase(x, info, n) ==
  LET Hide(s) == IF s.err = "None" THEN Ok(s.o, 0)
                 ELSE IF s.err # "Ok" THEN s
                 ELSE Ok(create_whiteout(s.o, Append(info.path, n)), 0)
      With(b) == IF b.err = "None" THEN Ok(b.o, 0)
                 ELSE IF b.err # "Ok" THEN b
                 ELSE Hide(BaseLookup(b.o, b.ino, n))
  IN  With(BaseOf(x, info))

\* unlink: what the delta answers is ignored.
unlink(x, p, n) ==
  LET info == x.inode_map[p]
      Cleared(y) == IF info.layer # "Delta" THEN y ELSE Delta(y, Fs!unlink(y.delta, info.under, n))
      With(l) == IF l.err = "None" THEN Err(l.o, "NotFound")
                 ELSE IF l.err # "Ok" THEN l
                 ELSE IF l.node.kind = "dir" THEN Err(l.o, "IsADirectory")
                 ELSE HideBase(Cleared(l.o), info, n)
  IN  With(lookup(x, p, n))

rmdir(x, p, n) ==
  LET info == x.inode_map[p]
      Cleared(y) == IF info.layer # "Delta" THEN y ELSE Delta(y, Fs!rmdir(y.delta, info.under, n))
      Listed(r) == IF r.err # "Ok" THEN Err(r.o, r.err)
                   ELSE IF r.names # {} THEN Err(r.o, "NotEmpty")
                   ELSE HideBase(Cleared(r.o), info, n)
      With(l) == IF l.err = "None" THEN Err(l.o, "NotFound")
                 ELSE IF l.err # "Ok" THEN l
                 ELSE IF l.node.kind # "dir" THEN Err(l.o, "NotADirectory")
                 ELSE Listed(readdir(l.o, l.ino))
  IN  With(lookup(x, p, n))

\* link: a base file is copied up, its number keeps pointing to the base.
link(x, i, p, n) ==
  LET info == x.inode_map[i]
      path == build_path(x, p, n)
      Parents(e, d) ==
        IF e.err # "Ok" THEN Err(e.o, e.err)
        ELSE OnDelta(e.o, Fs!link(e.o.delta, d, DeltaParent(e.o, x.inode_map[p]), n), i)
      With(c) == IF c.err # "Ok" THEN c
                 ELSE Parents(ensure_parent_dirs(remove_whiteout(c.o, path), path, 0, 0), c.ino)
  IN  With(IF info.layer = "Delta" THEN Ok(x, info.under) ELSE copy_up(x, info.path, info.under))

\* rename: the delta's source directory is found before the source is copied up.
rename(x, p, n, q, m) ==
  LET new == build_path(x, q, m)
      Moved(y, r) == IF r.err # "Ok" THEN Err(y, r.err) ELSE HideBase(Delta(y, r), x.inode_map[p], n)
      Parents(e, from) ==
        IF e.err # "Ok" THEN Err(e.o, e.err)
        ELSE Moved(e.o, Fs!rename(e.o.delta, from, n, DeltaParent(e.o, x.inode_map[q]), m))
      Up(c, from) ==
        IF c.err # "Ok" THEN c
        ELSE Parents(ensure_parent_dirs(remove_whiteout(c.o, new), new, 0, 0), from)
      Source(y, src) ==
        Up(IF src.layer = "Delta" THEN Ok(y, 0) ELSE copy_up(y, build_path(x, p, n), src.under),
           DeltaParent(y, x.inode_map[p]))
      With(l) == IF l.err = "None" THEN Err(l.o, "NotFound")
                 ELSE IF l.err # "Ok" THEN l
                 ELSE Source(l.o, l.o.inode_map[l.ino])
  IN  With(lookup(x, p, n))

\* forget reaches the base's cache if the number is one of the base.
forget(x, i, n) ==
  IF x.inode_map[i].layer = "Delta" THEN x
  ELSE [x EXCEPT !.h = Hf!forget(@, x.inode_map[i].under, n)]
=============================================================================
