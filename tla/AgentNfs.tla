------------------------------ MODULE AgentNfs ------------------------------
(***************************************************************************)
(* The NFS adapter (cli/src/nfs.rs): the operations an NFS handler calls,  *)
(* as functions of the filesystem.  Each one holds the lock of the         *)
(* filesystem from its first access to its last, so nothing comes between  *)
(* its steps.  Also the file handles of cli/src/nfsserve/vfs.rs.           *)
(***************************************************************************)
EXTENDS NfsPermissions, FsOps

\* No operation of FsOps returns the last two: names are short, and the pool has a
\* connection.
error_to_nfsstat(e) ==
  CASE e = "Ok"            -> "OK"
    [] e = "NotFound"      -> "NOENT"
    [] e = "AlreadyExists" -> "EXIST"
    [] e = "NotEmpty"      -> "NOTEMPTY"
    [] e = "NotADirectory" -> "NOTDIR"
    [] e = "IsADirectory"  -> "ISDIR"
    [] e = "RootOperation" -> "ACCES"
    [] e = "NameTooLong"   -> "NAMETOOLONG"
    [] e = "PoolTimeout"   -> "JUKEBOX"
    [] OTHER               -> "IO"

\* The status, the filesystem and the file id an operation returns
Res(st, fs, id) == [st |-> st, fs |-> fs, id |-> id]

Nfs(r) == Res(error_to_nfsstat(r.err), r.fs, r.ino)

\* stats_to_fattr
fattr(fs, id) == fs.node[id]

\* A sattr3 has a set per field, empty for "do not change"; perm is a set of bit sets.
NoChange == [mode |-> {}, uid |-> {}, gid |-> {}, size |-> {}, time |-> {}]

-----------------------------------------------------------------------------
vfs_lookup(fs, dir, name) ==
  IF name = "." THEN Res("OK", fs, dir)
  ELSE IF name = ".." THEN Nfs(lookup(fs, dir, ".."))
  ELSE IF ~Exists(fs, dir) THEN Res("NOENT", fs, 0)
  ELSE IF ~IsDir(fs, dir) THEN Res("NOTDIR", fs, 0)
  ELSE Nfs(lookup(fs, dir, name))

vfs_getattr(fs, id) == Nfs(getattr(fs, id))

\* One attribute after the other: an error keeps what was changed before it.
vfs_setattr(fs, id, s) ==
  LET a == IF s.mode = {} THEN Done(fs, id) ELSE chmod(fs, id, The(s.mode))
      b == IF a.err # "Ok" THEN a ELSE chown(a.fs, id, s.uid, s.gid)
      c == IF b.err # "Ok" \/ s.size = {} THEN b
           ELSE IF open(b.fs, id).err # "Ok" THEN open(b.fs, id)
           ELSE truncate(b.fs, id)
      d == IF c.err # "Ok" \/ s.time = {} THEN c ELSE utimens(c.fs, id)
  IN  Nfs(IF d.err # "Ok" THEN d ELSE getattr(d.fs, id))

\* read: any failure to open is NOENT.
vfs_read(fs, id) == IF open(fs, id).err # "Ok" THEN Res("NOENT", fs, 0) ELSE Res("OK", fs, id)

vfs_write(fs, id, tag) ==
  Nfs(IF open(fs, id).err # "Ok" THEN open(fs, id) ELSE pwrite(fs, id, tag))

ModeOr(s, default) == IF s.mode = {} THEN default ELSE The(s.mode)

Mode644 == {"ur", "uw", "gr", "or"}

Mode755 == {"ur", "uw", "ux", "gr", "gx", "or", "ox"}

vfs_create(fs, dir, name, s, auth) ==
  Nfs(create_file(fs, dir, name, ModeOr(s, Mode644), auth.uid, auth.gid))

vfs_create_exclusive(fs, dir, name, auth) ==
  IF lookup(fs, dir, name).err = "Ok" THEN Res("EXIST", fs, 0)
  ELSE Nfs(create_file(fs, dir, name, Mode644, auth.uid, auth.gid))

vfs_mkdir(fs, dir, name, s, auth) ==
  Nfs(mkdir(fs, dir, name, ModeOr(s, Mode755), auth.uid, auth.gid))

vfs_mknod(fs, dir, name, kind, s, auth) ==
  IF kind \notin {"chr", "blk", "sock", "fifo"} THEN Res("BADTYPE", fs, 0)
  ELSE Nfs(mknod(fs, dir, name, kind, ModeOr(s, Mode644), auth.uid, auth.gid))

vfs_remove(fs, dir, name) ==
  LET r == lookup(fs, dir, name)
  IN  Nfs(IF r.err # "Ok" THEN r
          ELSE IF IsDir(fs, r.ino) THEN rmdir(fs, dir, name)
          ELSE unlink(fs, dir, name))

vfs_rename(fs, from, name, to, newname) == Nfs(rename(fs, from, name, to, newname))

vfs_link(fs, id, dir, name) == Nfs(link(fs, id, dir, name))

vfs_symlink(fs, dir, name, target, auth) ==
  Nfs(symlink(fs, dir, name, target, auth.uid, auth.gid))

vfs_readlink(fs, id) == Nfs(readlink(fs, id))

\* Mutant of vfs_readdir: the entry of the cookie is returned again.
vfs_readdir_from(fs, dir, start_after, max, order) ==
  LET names == readdir_plus(fs, dir, order)
      hits  == {k \in DOMAIN names : lookup_child(fs, dir, names[k]) = start_after}
      seen  == IF start_after = 0 THEN 0
               ELSE (CHOOSE k \in hits : \A j \in hits : k <= j) - 1
      last  == IF seen + max < Len(names) THEN seen + max ELSE Len(names)
  IN  [names |-> SubSeq(names, seen + 1, last), end |-> last = Len(names)]

\* readdir: entries up to and including the first one whose id is start_after are
\* skipped, all of them when there is none.
vfs_readdir(fs, dir, start_after, max, order) ==
  LET names == readdir_plus(fs, dir, order)
      hits  == {k \in DOMAIN names : lookup_child(fs, dir, names[k]) = start_after}
      seen  == IF start_after = 0 THEN 0 ELSE IF hits = {} THEN Len(names)
               ELSE CHOOSE k \in hits : \A j \in hits : k <= j
      last  == IF seen + max < Len(names) THEN seen + max ELSE Len(names)
  IN  [names |-> SubSeq(names, seen + 1, last), end |-> last = Len(names)]

-----------------------------------------------------------------------------
(* File handles: the generation of the server and a file id.               *)

id_to_fh(gen, id) == [gen |-> gen, id |-> id]

\* Mutant of fh_to_id: the generation is not looked at.
fh_to_id_any(gen, h) == Res("OK", <<>>, h.id)

fh_to_id(gen, h) ==
  IF h.gen < gen THEN Res("STALE", <<>>, 0)
  ELSE IF h.gen > gen THEN Res("BADHANDLE", <<>>, 0)
  ELSE Res("OK", <<>>, h.id)
=============================================================================
