------------------------------- MODULE MCNfs -------------------------------
(***************************************************************************)
(* The NFS server for TLC: two connections, two users and root, and trees  *)
(* with a sticky directory, a set-id file and a subdirectory.              *)
(***************************************************************************)
EXTENDS NfsServer, TLC

CONSTANTS c1, c2

root == [uid |-> 0, gid |-> 0, gids |-> {}]
u1   == [uid |-> 1, gid |-> 1, gids |-> {}]
u2   == [uid |-> 2, gid |-> 2, gids |-> {1}]

Open777 == {"ur", "uw", "ux", "gr", "gw", "gx", "or", "ow", "ox"}

Node(kind, perm, uid, gid, nlink, born) ==
  [kind |-> kind, perm |-> perm, uid |-> uid, gid |-> gid, nlink |-> nlink, data |-> 0,
   born |-> born]

\* A sticky root, a directory of user 1 that their group may write, and a file of user 1
\* with a set-id bit that their group may write and they may not
Tree ==
  [node   |-> 1 :> Node("dir", Open777 \cup {"sticky"}, 0, 0, 3, 0)
              @@ 2 :> Node("dir", Open777 \ {"ow"}, 1, 1, 2, 1)
              @@ 3 :> Node("reg", {"ur", "gr", "gw", "or", "suid"}, 1, 1, 1, 2),
   dent   |-> <<1, "d">> :> 2 @@ <<1, "a">> :> 3,
   next   |-> 4,
   births |-> 3]

InitialFsDef == {Tree}

NameOrderDef == <<"a", "b", "d">>

Fh(i, g) == [gen |-> g, id |-> i]

Base(proc, auth, fhs) == [proc |-> proc, auth |-> auth, fhs |-> fhs]

\* Calls on one handle
On(proc, auth, h) == [proc |-> proc, auth |-> auth, fhs |-> {h}, fh |-> h]

Plain ==
  {Base(p, root, {}) : p \in {"MALFORMED", "RPCVERS", "PROGRAM", "VERSION", "COMMIT", "GARBAGE",
                              "NULL", "UMNT", "EXPORT", "GETPORT"}}

Reads ==
  {On(p, u2, Fh(3, 1)) : p \in {"GETATTR", "READ", "FSINFO", "PATHCONF", "FSSTAT", "READLINK",
                                "READDIR"}}
  \cup {On("ACCESS", u2, Fh(2, 1)) @@ [access |-> {"READ", "MODIFY", "LOOKUP"}]}
  \cup {On("LOOKUP", u2, Fh(1, 1)) @@ [name |-> n] : n \in {"a", "b"}}
  \cup {On("READDIRPLUS", u2, Fh(1, 1)) @@ [cookie |-> c, max |-> 1] : c \in {0, 3}}
  \cup {Base("MNT", u2, {}) @@ [exported |-> TRUE, path |-> p] : p \in {<<>>, <<"d", "b">>}}
  \cup {Base("MNT", u2, {}) @@ [exported |-> FALSE, path |-> <<>>]}

Set(f, v) == [NoChange EXCEPT ![f] = {v}]

Sattrs ==
  {Set("mode", Mode644 \cup SetId), Set("uid", 1), Set("gid", 2), Set("gid", 1), Set("size", 0),
   Set("time", "explicit")}

Setattr(a, s, g) == On("SETATTR", a, Fh(3, 1)) @@ [sattr |-> s, guard |-> g]

Create(dir, h) == On("CREATE", u2, dir) @@ [name |-> "b", how |-> h, sattr |-> NoChange]

RemoveOf(a, i, n) == On("REMOVE", a, Fh(i, 1)) @@ [name |-> n]

Rename(a, i, n, j, m) ==
  [proc |-> "RENAME", auth |-> a, fhs |-> {Fh(i, 1), Fh(j, 1)}, fh |-> Fh(i, 1), name |-> n,
   to |-> Fh(j, 1), newname |-> m]

Link(i) ==
  [proc |-> "LINK", auth |-> u2, fhs |-> {Fh(i, 1), Fh(2, 1)}, fh |-> Fh(i, 1),
   to |-> Fh(2, 1), newname |-> "b"]

\* Calls that are made alone
Writes ==
  {On("WRITE", u1, Fh(i, 1)) @@ [data |-> 7, short |-> i = 2] : i \in {2, 3}}
  \cup {Setattr(a, s, "none") : a \in {u1, u2}, s \in Sattrs}
  \cup {Create(Fh(i, 1), "EXCLUSIVE") : i \in {1, 2}}
  \cup {On("SYMLINK", u2, Fh(1, 1)) @@ [name |-> "b", target |-> 9]}
  \cup {On("MKNOD", u2, Fh(1, 1)) @@ [name |-> "b", kind |-> k, sattr |-> NoChange] :
          k \in {"reg", "fifo"}}
  \cup {RemoveOf(u1, 1, n) : n \in {"b", "d"}}
  \cup {Rename(a, 1, n, j, m) : a \in {u1, u2}, n \in {"a", "d"}, j \in {1, 2}, m \in {"b", "d"}}
  \cup {Link(2)}

\* Calls that run beside one another
Core ==
  {On("WRITE", u2, Fh(3, 1)) @@ [data |-> 7, short |-> FALSE],
   Setattr(u1, Set("mode", Mode644 \cup SetId), "none"),
   Setattr(u1, Set("gid", 1), "none"), Setattr(u2, Set("uid", 1), "none"),
   Setattr(root, Set("uid", 2), "mismatch"),
   Create(Fh(2, 1), "UNCHECKED"), Create(Fh(2, 1), "GUARDED"),
   On("MKDIR", u2, Fh(2, 1)) @@ [name |-> "b", sattr |-> NoChange],
   RemoveOf(u1, 1, "a"), RemoveOf(u2, 1, "a"), RemoveOf(u2, 2, "b"),
   Rename(u1, 1, "a", 2, "b"), Rename(u2, 2, "b", 1, "a"),
   Link(3)}

\* Calls whose records are sent again
Again == {Base("NULL", root, {}), RemoveOf(u1, 1, "a"), Create(Fh(2, 1), "GUARDED")}

Rec(x, m) == [xid |-> x, call |-> m]

\* One call, two calls, a record that is sent twice, and a client that mounts again after
\* a restart
WorkloadDef ==
  {<<Rec(1, m)>> : m \in Plain \cup Reads \cup Writes}
  \cup {<<Rec(1, m), Rec(2, n)>> : m, n \in Core}
  \cup {<<Rec(1, m), Rec(1, m)>> : m \in Again}
  \cup {<<Rec(1, RemoveOf(u1, 1, "a")), Rec(1, Base("MNT", u2, {}) @@ [exported |-> TRUE, path |-> <<>>]),
         Rec(2, Create(Fh(1, 2), "UNCHECKED"))>>}

\* A connection is opened after the one before it was closed.  Only a call whose record
\* may be sent again ages, and is followed by a restart or the end of its connection.
\* One call comes in two fragments.
Bounded ==
  /\ conn[c2] # "new" => conn[c1] = "closed"
  /\ conn[c1] = "closed" => tasks # <<>>
  /\ \A c \in Conn : cur_fragment[c] # NoRecord => cur_fragment[c].call.proc = "NULL"
  /\ \A t \in Task : tasks[t].aged => tasks[t].call \in Again
  /\ Len(tasks) > 0 /\ (gen > 1 \/ conn[c1] = "closed") => tasks[1].call \in Again \cup Plain
  /\ Len(tasks) > 1 => tasks[2].pc # "lost"
=============================================================================
