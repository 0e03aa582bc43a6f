----------------------------- MODULE FsProofs ------------------------------
(***************************************************************************)
(* Lemmas about the operations of FsOps and the calls of the NFS adapter   *)
(* (AgentNfs): which fields of which nodes and which entries each of them  *)
(* changes, that it uses no number again, and that it leaves a well-formed *)
(* filesystem.                                                             *)
(***************************************************************************)
EXTENDS AgentNfs, TLAPS

\* The fields of a node that Frame speaks of: all but the link count
Fields == {"kind", "perm", "uid", "gid", "data", "born"}

\* From filesystem f to g, numbers are not used again, and only the fields X of nodes
\* and the entries E change.
Frame(f, g, X, E) ==
  /\ WellFormed(g)
  /\ f.next <= g.next
  /\ \A i \in DOMAIN g.node : i < f.next =>
       /\ i \in DOMAIN f.node
       /\ \A x \in Fields : <<i, x>> \notin X => g.node[i][x] = f.node[i][x]
  /\ \A p, n : <<p, n>> \notin E => lookup_child(g, p, n) = lookup_child(f, p, n)

\* Nothing changes.
LEMMA FrameSame ==
  ASSUME NEW f, WellFormed(f), NEW X, NEW E
  PROVE  Frame(f, f, X, E)
BY DEF Frame, WellFormed

\* Two steps make one.
LEMMA FrameTwo ==
  ASSUME NEW f, NEW g, NEW h, NEW X, NEW E, WellFormed(f), Frame(f, g, X, E), Frame(g, h, X, E)
  PROVE  Frame(f, h, X, E)
<1>1. f.next \in Nat /\ g.next \in Nat /\ h.next \in Nat
  BY Zenon DEF Frame, WellFormed
<1>2. \A i \in DOMAIN h.node : i \in Nat
  BY DEF Frame, WellFormed
<1>3. ASSUME NEW i \in DOMAIN h.node, i < f.next
      PROVE  /\ i \in DOMAIN f.node
             /\ \A x \in Fields : <<i, x>> \notin X => h.node[i][x] = f.node[i][x]
  <2>1. i < g.next
    BY <1>1, <1>2, <1>3 DEF Frame
  <2>2. i \in DOMAIN g.node
    BY Zenon, <2>1 DEF Frame
  <2>q. QED BY Zenon, <2>1, <2>2, <1>3 DEF Frame
<1>q. QED BY <1>1, <1>3 DEF Frame

\* More may change.
LEMMA FrameMore ==
  ASSUME NEW f, NEW g, NEW X, NEW E, NEW Y, NEW F, X \subseteq Y, E \subseteq F, Frame(f, g, X, E)
  PROVE  Frame(f, g, Y, F)
BY Zenon DEF Frame

\* What f to g changed, f to h changed, if g to h changed nothing.
LEMMA FrameThen ==
  ASSUME NEW f, NEW g, NEW h, NEW X, NEW E, WellFormed(f), Frame(f, g, X, E), Frame(g, h, {}, {})
  PROVE  Frame(f, h, X, E)
<1>1. Frame(g, h, X, E)
  BY FrameMore, {} \subseteq X, {} \subseteq E
<1>q. QED BY Zenon, <1>1, FrameTwo

\* A change of this kind leaves a well-formed filesystem.
LEMMA FrameFormed ==
  ASSUME NEW f, NEW g, NEW X, NEW E, Frame(f, g, X, E)
  PROVE  WellFormed(g)
BY Zenon DEF Frame

\* A filesystem that differs from f in its nodes only
LEMMA FrameNode ==
  ASSUME NEW f, WellFormed(f), NEW i \in DOMAIN f.node, NEW v, NEW x \in Fields \cup {"nlink"},
         x \notin {"kind", "born"}
  PROVE  Frame(f, [f EXCEPT !.node[i][x] = v], {<<i, x>>}, {})
BY DEF Frame, WellFormed, lookup_child, IsDir, Exists, Fields

\* UPDATEs of a link count
LEMMA FrameAddLinks ==
  ASSUME NEW f, WellFormed(f), NEW i, NEW n
  PROVE  Frame(f, AddLinks(f, i, n), {}, {})
BY FrameSame DEF Frame, WellFormed, lookup_child, IsDir, Exists, Fields, AddLinks

\* One link less changes no entry and none of the fields that are followed.
LEMMA FrameDropLink ==
  ASSUME NEW f, WellFormed(f), NEW i
  PROVE  Frame(f, DropLink(f, i), {}, {})
BY FrameSame DEF Frame, WellFormed, lookup_child, IsDir, Exists, Fields, DropLink

\* Nor does removing an inode without links, except that it is gone.
LEMMA FramePurge ==
  ASSUME NEW f, WellFormed(f), NEW i, i # ROOT_INO
  PROVE  Frame(f, Purge(f, i), {}, {})
BY Zenon, FrameSame DEF Frame, WellFormed, lookup_child, IsDir, Exists, Fields, Purge, Delete

\* Deleting an entry changes that entry.
LEMMA FrameDelete ==
  ASSUME NEW f, WellFormed(f), NEW p, NEW n
  PROVE  Frame(f, [f EXCEPT !.dent = Delete(@, <<p, n>>)], {}, {<<p, n>>})
BY Zenon, FrameSame DEF Frame, WellFormed, lookup_child, IsDir, Exists, Fields, Delete

\* Inserting an entry changes that entry.
LEMMA FrameInsert ==
  ASSUME NEW f, WellFormed(f), NEW p, NEW n, NEW i \in Nat \ {0, ROOT_INO}
  PROVE  Frame(f, [f EXCEPT !.dent = Insert(@, <<p, n>>, i)], {}, {<<p, n>>})
BY FrameSame DEF Frame, WellFormed, lookup_child, IsDir, Exists, Fields, Insert

\* An operation that returned r made at most the entry <<p, n>>, where there was none.
AddsEntry(f, r, p, n) ==
  /\ Frame(f, r.fs, {}, {<<p, n>>})
  /\ r.err # "Ok" => r.fs = f
  /\ r.err = "Ok" => lookup_child(f, p, n) = 0

\* INSERT of an inode and its entry
LEMMA FrameNewNode ==
  ASSUME NEW f, WellFormed(f), NEW p, NEW n, NEW kind, NEW perm, NEW uid, NEW gid, NEW links, NEW data
  PROVE  AddsEntry(f, NewNode(f, p, n, kind, perm, uid, gid, links, data), p, n)
<1> DEFINE r == NewNode(f, p, n, kind, perm, uid, gid, links, data)
           i == f.next
           row == [kind |-> kind, perm |-> perm, uid |-> uid, gid |-> gid, nlink |-> links,
                   data |-> data, born |-> f.births]
<1>1. CASE lookup_child(f, p, n) # 0
  BY Zenon, <1>1, FrameSame DEF NewNode, Fail, AddsEntry
<1>2. CASE lookup_child(f, p, n) = 0
  <2>1. /\ r.err = "Ok"
        /\ r.fs = [node |-> Insert(f.node, i, row), dent |-> Insert(f.dent, <<p, n>>, i),
                   next |-> i + 1, births |-> f.births + 1]
    BY Zenon, <1>2 DEF NewNode, Done
  <2> HIDE DEF r
  <2>2. i \in Nat /\ i # 0 /\ i # ROOT_INO /\ i \notin DOMAIN f.node
    BY DEF WellFormed, IsDir, Exists, ROOT_INO
  <2>3. /\ DOMAIN r.fs.node = DOMAIN f.node \cup {i}
        /\ r.fs.node[i] = row
        /\ \A j \in DOMAIN f.node : r.fs.node[j] = f.node[j]
        /\ r.fs.next = i + 1
    BY <2>1, <2>2 DEF Insert
  <2>4. /\ DOMAIN r.fs.dent = DOMAIN f.dent \cup {<<p, n>>}
        /\ r.fs.dent[<<p, n>>] = i
        /\ \A e \in DOMAIN f.dent : e # <<p, n>> => r.fs.dent[e] = f.dent[e]
    BY <2>1 DEF Insert
  <2>5. WellFormed(r.fs)
    <3>1. DOMAIN r.fs = {"node", "dent", "next", "births"}
      BY Zenon, <2>1
    <3>2. r.fs.next \in Nat /\ DOMAIN r.fs.node \subseteq 1 .. r.fs.next - 1
      BY <2>2, <2>3 DEF WellFormed
    <3>3. \A j \in DOMAIN r.fs.node :
            DOMAIN r.fs.node[j] = {"kind", "perm", "uid", "gid", "nlink", "data", "born"}
      BY <2>3 DEF WellFormed
    <3>4. IsDir(r.fs, ROOT_INO)
      BY Zenon, <2>3 DEF WellFormed, IsDir, Exists
    <3>5. \A e \in DOMAIN r.fs.dent :
            e = <<e[1], e[2]>> /\ r.fs.dent[e] \in Nat \ {0, ROOT_INO}
      BY <2>2, <2>4 DEF WellFormed
    <3>q. QED BY Zenon, <3>1, <3>2, <3>3, <3>4, <3>5 DEF WellFormed
  <2>6. f.next <= r.fs.next
    BY <2>2, <2>3
  <2>7. \A j \in DOMAIN r.fs.node : j < f.next =>
          j \in DOMAIN f.node /\ \A x \in Fields : r.fs.node[j][x] = f.node[j][x]
    BY <2>2, <2>3
  <2>8. \A q, m : <<q, m>> # <<p, n>> => lookup_child(r.fs, q, m) = lookup_child(f, q, m)
    BY Zenon, <2>4 DEF lookup_child
  <2>q. QED BY <1>2, <2>1, <2>5, <2>6, <2>7, <2>8 DEF Frame, r, AddsEntry
<1>q. QED BY Zenon, <1>1, <1>2

\* The calls of the adapter that make an inode
LEMMA MkdirAdds ==
  ASSUME NEW f, WellFormed(f), NEW p, NEW n, NEW perm, NEW uid, NEW gid
  PROVE  AddsEntry(f, mkdir(f, p, n, perm, uid, gid), p, n)
<1> DEFINE s == NewNode(f, p, n, "dir", perm, uid, gid, 2, 0)
<1>1. AddsEntry(f, s, p, n)
  BY Zenon, FrameNewNode, Zenon
<1>2. DOMAIN s = {"err", "fs", "ino"}
  BY Zenon DEF NewNode, Done, Fail
<1> HIDE DEF s
<1>3. mkdir(f, p, n, perm, uid, gid)
        = IF s.err = "Ok" THEN [s EXCEPT !.fs = AddLinks(@, p, 1)] ELSE s
  BY Zenon DEF mkdir, s
<1>4. Frame(f, AddLinks(s.fs, p, 1), {}, {<<p, n>>})
  BY Zenon, <1>1, FrameAddLinks, FrameThen, FrameFormed DEF AddsEntry
<1>q. QED BY Zenon, <1>1, <1>2, <1>3, <1>4 DEF AddsEntry

\* An entry goes, and with it one link of inode i, or two of a directory.
Unlinked(f, p, n, i) ==
  Purge(DropLink([f EXCEPT !.dent = Delete(@, <<p, n>>)], i), i)

\* What an unlink that succeeds does changes its entry.
LEMMA UnlinkedFrame ==
  ASSUME NEW f, WellFormed(f), NEW p, NEW n, NEW i, i # ROOT_INO
  PROVE  Frame(f, Unlinked(f, p, n, i), {}, {<<p, n>>})
<1> DEFINE a == [f EXCEPT !.dent = Delete(@, <<p, n>>)]
           b == DropLink(a, i)
           c == Purge(b, i)
<1>1. Frame(f, a, {}, {<<p, n>>})
  BY Zenon, FrameDelete
<1> HIDE DEF a
<1>2. Frame(f, b, {}, {<<p, n>>})
  BY Zenon, <1>1, FrameDropLink, FrameThen, FrameFormed
<1> HIDE DEF b
<1>3. Frame(f, c, {}, {<<p, n>>})
  BY Zenon, <1>2, FramePurge, FrameThen, FrameFormed
<1>q. QED BY Zenon, <1>3 DEF Unlinked, a, b, c

\* An operation that returned r took away at most the entry <<p, n>>, of an inode that
\* existed.
TakesEntry(f, r, p, n) ==
  /\ Frame(f, r.fs, {}, {<<p, n>>})
  /\ r.fs # f => Exists(f, lookup_child(f, p, n))

\* lookup_child returns 0 or the number of an inode other than the root.
LEMMA ChildIs ==
  ASSUME NEW f, WellFormed(f), NEW p, NEW n
  PROVE  lookup_child(f, p, n) \in Nat \ {ROOT_INO}
BY DEF lookup_child, WellFormed, ROOT_INO

\* unlink changes at most its entry.
LEMMA UnlinkFrame ==
  ASSUME NEW f, WellFormed(f), NEW p, NEW n
  PROVE  Frame(f, unlink(f, p, n).fs, {}, {<<p, n>>})
<1> DEFINE i == lookup_child(f, p, n)
<1>1. i # ROOT_INO
  BY Zenon, ChildIs
<1> HIDE DEF i
<1>2. unlink(f, p, n).fs \in {f, Unlinked(f, p, n, i)}
  BY Zenon DEF unlink, Done, Fail, Unlinked, i
<1>q. QED BY Zenon, <1>1, <1>2, UnlinkedFrame, FrameSame

\* rmdir takes at most its entry away.
LEMMA RmdirTakes ==
  ASSUME NEW f, WellFormed(f), NEW p, NEW n
  PROVE  TakesEntry(f, rmdir(f, p, n), p, n)
<1> DEFINE i == lookup_child(f, p, n)
           a == [f EXCEPT !.dent = Delete(@, <<p, n>>)]
           b == DropLink(a, i)
           c == DropLink(b, p)
           d == Purge(c, i)
<1>1. i # ROOT_INO
  BY ChildIs
<1>2. Frame(f, a, {}, {<<p, n>>})
  BY Zenon, FrameDelete
<1>3. rmdir(f, p, n).fs = f \/ (Exists(f, i) /\ rmdir(f, p, n).fs = d)
  BY Zenon DEF rmdir, Done, Fail
<1> HIDE DEF i, a
<1>4. Frame(f, b, {}, {<<p, n>>})
  BY Zenon, <1>2, FrameDropLink, FrameThen, FrameFormed
<1> HIDE DEF b
<1>5. Frame(f, c, {}, {<<p, n>>})
  BY Zenon, <1>4, FrameDropLink, FrameThen, FrameFormed
<1> HIDE DEF c
<1>6. Frame(f, d, {}, {<<p, n>>})
  BY Zenon, <1>1, <1>5, FramePurge, FrameThen, FrameFormed
<1>q. QED BY Zenon, <1>3, <1>6, FrameSame DEF TakesEntry, i

\* link makes at most its entry, where there was none.
LEMMA LinkAdds ==
  ASSUME NEW f, WellFormed(f), NEW i, NEW p, NEW n
  PROVE  AddsEntry(f, link(f, i, p, n), p, n)
<1> DEFINE a == [f EXCEPT !.dent = Insert(@, <<p, n>>, i)]
           r == link(f, i, p, n)
<1>1. \/ r.err # "Ok" /\ r.fs = f
      \/ /\ r.err = "Ok" /\ r.fs = AddLinks(a, i, 1)
         /\ Exists(f, i) /\ ~IsDir(f, i) /\ lookup_child(f, p, n) = 0
  BY Zenon DEF link, Done, Fail
<1> HIDE DEF r
<1>2. Exists(f, i) /\ ~IsDir(f, i) => i \in Nat \ {0, ROOT_INO}
  BY DEF WellFormed, Exists
<1>3. ASSUME i \in Nat \ {0, ROOT_INO}
      PROVE  Frame(f, AddLinks(a, i, 1), {}, {<<p, n>>})
  <2>1. Frame(f, a, {}, {<<p, n>>})
    BY Zenon, <1>3, FrameInsert
  <2> HIDE DEF a
  <2>q. QED BY Zenon, <2>1, FrameAddLinks, FrameThen, FrameFormed
<1>q. QED BY Zenon, <1>1, <1>2, <1>3, FrameSame DEF AddsEntry, r

\* rename: both entries change, and both inodes existed.
LEMMA RenameFrame ==
  ASSUME NEW f, WellFormed(f), NEW p, NEW n, NEW q, NEW m
  PROVE  LET g == rename(f, p, n, q, m).fs
             j == lookup_child(f, q, m)
         IN  /\ Frame(f, g, {}, {<<p, n>>, <<q, m>>})
             /\ g # f => /\ Exists(f, lookup_child(f, p, n))
                         /\ j = 0 \/ Exists(f, j)
<1> DEFINE E == {<<p, n>>, <<q, m>>}
           i == lookup_child(f, p, n)
           j == lookup_child(f, q, m)
           a == IF j = 0 THEN f ELSE Unlinked(f, q, m, j)
           b == [a EXCEPT !.dent = Delete(@, <<p, n>>)]
           c == [b EXCEPT !.dent = Insert(@, <<q, m>>, i)]
           d == IF <<p, n>> \in DOMAIN a.dent THEN c ELSE a
           e == DropLink(d, p)
           h == AddLinks(e, q, 1)
           g == rename(f, p, n, q, m).fs
<1>1. i \in Nat /\ i # ROOT_INO /\ j # ROOT_INO
  BY Zenon, ChildIs
<1>2. Frame(f, a, {}, E)
  <2>1. CASE j = 0
    BY Zenon, <2>1, FrameSame
  <2>2. CASE j # 0
    <3>1. Frame(f, a, {}, {<<q, m>>})
      BY Zenon, <2>2, <1>1, UnlinkedFrame
    <3> HIDE DEF a
    <3>q. QED BY <3>1, FrameMore
  <2>q. QED BY Zenon, <2>1, <2>2
<1>3. c = [a EXCEPT !.dent = Insert(Delete(@, <<p, n>>), <<q, m>>, i)]
  <2>1. DOMAIN a = {"node", "dent", "next", "births"}
    BY Zenon, <1>2 DEF Frame, WellFormed
  <2>q. QED BY Zenon, <2>1
<1>4. \/ g = f
      \/ /\ g \in {d, h} /\ i # 0
         /\ Exists(f, i) /\ (j = 0 \/ Exists(f, j))
  <2>1. rename_error(f, i, j) = "Ok" => j = 0 \/ Exists(f, j)
    BY Zenon DEF rename_error
  <2>q. QED BY Zenon, <1>3, <2>1 DEF rename, Done, Fail, Unlinked
<1> HIDE DEF a, i, j
<1>5. Frame(f, b, {}, E)
  <2>1. Frame(a, b, {}, {<<p, n>>})
    BY Zenon, <1>2, FrameDelete, FrameFormed
  <2>2. Frame(a, b, {}, E)
    BY <2>1, FrameMore
  <2>q. QED BY <1>2, <2>2, FrameTwo
<1> HIDE DEF b
<1>6. i # 0 => Frame(f, c, {}, E)
  <2> SUFFICES ASSUME i # 0 PROVE Frame(f, c, {}, E)
    BY Zenon
  <2>1. Frame(b, c, {}, {<<q, m>>})
    BY Zenon, <1>1, <1>5, FrameInsert, FrameFormed
  <2>2. Frame(b, c, {}, E)
    BY <2>1, FrameMore
  <2>q. QED BY <1>5, <2>2, FrameTwo
<1> HIDE DEF c, E
<1>7. i # 0 => Frame(f, d, {}, E)
  BY Zenon, <1>2, <1>6
<1> HIDE DEF d
<1>8. i # 0 => Frame(f, e, {}, E)
  BY Zenon, <1>7, FrameDropLink, FrameThen, FrameFormed
<1> HIDE DEF e
<1>9. i # 0 => Frame(f, h, {}, E)
  BY Zenon, <1>8, FrameAddLinks, FrameThen, FrameFormed
<1>q. QED BY Zenon, <1>4, <1>7, <1>9, FrameSame DEF i, j, E

-----------------------------------------------------------------------------
(* What the attribute calls change                                         *)

\* chmod and chown of an inode that exists, and what they return
Chmodded(f, r, i, perm) ==
  /\ r.err = "Ok" /\ i \in DOMAIN r.fs.node
  /\ Frame(f, r.fs, {<<i, "perm">>}, {})
  /\ r.fs.node[i].perm = perm

Chowned(f, r, i, uid, gid) ==
  /\ r.err = "Ok" /\ i \in DOMAIN r.fs.node
  /\ Frame(f, r.fs, {<<i, "uid">>, <<i, "gid">>}, {})
  /\ r.fs.node[i].uid = IF uid = {} THEN f.node[i].uid ELSE The(uid)
  /\ r.fs.node[i].gid = IF gid = {} THEN f.node[i].gid ELSE The(gid)

\* chmod sets the permissions of its inode and nothing else.
LEMMA ChmodIs ==
  ASSUME NEW f, WellFormed(f), NEW i \in DOMAIN f.node, NEW perm
  PROVE  Chmodded(f, chmod(f, i, perm), i, perm)
<1> DEFINE g == [f EXCEPT !.node[i].perm = perm]
<1>1. chmod(f, i, perm).err = "Ok" /\ chmod(f, i, perm).fs = g
  BY Zenon DEF chmod, Exists, Done
<1>2. Frame(f, g, {<<i, "perm">>}, {})
  BY Zenon, FrameNode DEF Fields
<1>3. i \in DOMAIN g.node /\ g.node[i].perm = perm
  BY Zenon DEF WellFormed
<1> HIDE DEF g
<1>q. QED BY Zenon, <1>1, <1>2, <1>3 DEF Chmodded

\* chown sets the owner and the group of its inode, where they are given, and nothing else.
LEMMA ChownIs ==
  ASSUME NEW f, WellFormed(f), NEW i \in DOMAIN f.node, NEW uid, NEW gid
  PROVE  Chowned(f, chown(f, i, uid, gid), i, uid, gid)
<1> DEFINE X == {<<i, "uid">>, <<i, "gid">>}
           u == IF uid = {} THEN f.node[i].uid ELSE The(uid)
           g == IF gid = {} THEN f.node[i].gid ELSE The(gid)
           a == [f EXCEPT !.node[i].uid = u]
           b == [a EXCEPT !.node[i].gid = g]
<1>1. CASE uid = {} /\ gid = {}
  <2>1. chown(f, i, uid, gid).err = "Ok" /\ chown(f, i, uid, gid).fs = f
    BY Zenon, <1>1 DEF chown, Done
  <2>q. QED BY Zenon, <1>1, <2>1, FrameSame DEF Chowned
<1>2. CASE ~(uid = {} /\ gid = {})
  <2>1. chown(f, i, uid, gid).err = "Ok" /\ chown(f, i, uid, gid).fs = b
    BY Zenon, <1>2 DEF chown, Exists, The, Done
  <2>2. Frame(f, a, X, {})
    <3>1. Frame(f, a, {<<i, "uid">>}, {})
      BY Zenon, FrameNode DEF Fields
    <3> HIDE DEF a
    <3>q. QED BY <3>1, FrameMore
  <2>3. i \in DOMAIN a.node /\ a.node[i].uid = u /\ a.node[i].gid = f.node[i].gid
    BY Zenon DEF WellFormed
  <2> HIDE DEF a, u, g
  <2>4. Frame(a, b, X, {})
    <3>1. Frame(a, b, {<<i, "gid">>}, {})
      BY Zenon, <2>2, <2>3, FrameNode, FrameFormed DEF Fields
    <3> HIDE DEF b
    <3>q. QED BY <3>1, FrameMore
  <2>5. Frame(f, b, X, {})
    BY <2>2, <2>4, FrameTwo
  <2>6. i \in DOMAIN b.node /\ b.node[i].uid = u /\ b.node[i].gid = g
    <3>1. /\ DOMAIN a = {"node", "dent", "next", "births"}
          /\ DOMAIN a.node[i] = {"kind", "perm", "uid", "gid", "nlink", "data", "born"}
      BY Zenon, <2>2, <2>3 DEF Frame, WellFormed
    <3>q. QED BY Zenon, <2>3, <3>1
  <2> HIDE DEF b
  <2>q. QED BY Zenon, <2>1, <2>5, <2>6 DEF u, g, Chowned
<1>q. QED BY Zenon, <1>1, <1>2

\* pwrite and truncate
LEMMA SetDataIs ==
  ASSUME NEW f, WellFormed(f), NEW i, NEW tag
  PROVE  /\ Frame(f, SetData(f, i, tag), {<<i, "data">>}, {})
         /\ DOMAIN SetData(f, i, tag).node = DOMAIN f.node
<1>1. CASE i \in DOMAIN f.node
  <2> DEFINE g == [f EXCEPT !.node[i].data = tag]
  <2>1. SetData(f, i, tag) = g
    BY Zenon, <1>1 DEF SetData, Exists
  <2>2. Frame(f, g, {<<i, "data">>}, {})
    BY Zenon, <1>1, FrameNode DEF Fields
  <2>3. DOMAIN g.node = DOMAIN f.node
    BY Zenon DEF WellFormed
  <2> HIDE DEF g
  <2>q. QED BY Zenon, <2>1, <2>2, <2>3
<1>2. CASE i \notin DOMAIN f.node
  BY Zenon, <1>2, FrameSame DEF SetData, Exists
<1>q. QED BY Zenon, <1>1, <1>2

\* Opening the database again leaves a well-formed filesystem, in which the nodes keep
\* their kinds and their births.
LEMMA ReopenFormed ==
  ASSUME NEW f, WellFormed(f), NEW max, IsLargest(max, DOMAIN f.node), NEW u, NEW g
  PROVE  /\ WellFormed(reopen(f, max, u, g))
         /\ DOMAIN reopen(f, max, u, g).node = DOMAIN f.node
         /\ \A i \in DOMAIN f.node : reopen(f, max, u, g).node[i].born = f.node[i].born
<1> DEFINE h == reopen(f, max, u, g)
<1>1. DOMAIN f.node \subseteq Nat \ {0} /\ ROOT_INO \in DOMAIN f.node
  BY DEF WellFormed, IsDir, Exists
<1>2. DOMAIN f.node \subseteq 1 .. max /\ max \in Nat
  BY <1>1 DEF IsLargest
<1>3. DOMAIN f = {"node", "dent", "next", "births"}
  BY DEF WellFormed
<1>4. /\ DOMAIN h = {"node", "dent", "next", "births"} /\ h.next = max + 1 /\ h.dent = f.dent
      /\ DOMAIN h.node = DOMAIN f.node
  BY <1>3 DEF reopen
<1>5. \A i \in DOMAIN f.node : /\ DOMAIN h.node[i] = DOMAIN f.node[i]
                               /\ h.node[i].kind = f.node[i].kind
                               /\ h.node[i].born = f.node[i].born
  BY <1>3 DEF WellFormed, reopen
<1> HIDE DEF h
<1>6. h.next \in Nat /\ DOMAIN h.node \subseteq 1 .. h.next - 1
  BY <1>2, <1>4
<1>q. QED BY <1>1, <1>4, <1>5, <1>6 DEF WellFormed, IsDir, Exists, h

-----------------------------------------------------------------------------
(* What the calls of the adapter change                                    *)

\* error_to_nfsstat keeps success apart from failure.
LEMMA NfsIs ==
  ASSUME NEW r
  PROVE  /\ Nfs(r).fs = r.fs /\ Nfs(r).id = r.ino
         /\ Nfs(r).st = "OK" <=> r.err = "Ok"
BY Zenon DEF Nfs, Res, error_to_nfsstat

\* remove of the adapter: lookup finds the inode of the entry.
LEMMA RemoveTakes ==
  ASSUME NEW f, WellFormed(f), NEW p, NEW n
  PROVE  LET g == vfs_remove(f, p, n).fs IN
         /\ Frame(f, g, {}, {<<p, n>>})
         /\ g # f /\ n # ".." => Exists(f, lookup_child(f, p, n))
<1> DEFINE l == lookup(f, p, n)
           g == vfs_remove(f, p, n).fs
<1>1. l.fs = f /\ (l.err = "Ok" /\ n # ".." => Exists(f, lookup_child(f, p, n)))
  BY Zenon DEF lookup, Done, Fail
<1> HIDE DEF l
<1>2. \/ g = f
      \/ l.err = "Ok" /\ g \in {rmdir(f, p, n).fs, unlink(f, p, n).fs}
  BY Zenon, <1>1 DEF vfs_remove, Nfs, Res, l
<1>q. QED BY Zenon, <1>1, <1>2, RmdirTakes, UnlinkFrame, FrameSame DEF TakesEntry

\* setattr of the adapter, of a file that exists
Setattred(f, r, i, s) ==
  LET n == r.fs.node[i]
      o == f.node[i]
  IN  /\ r.st = "OK" /\ i \in DOMAIN r.fs.node
      /\ Frame(f, r.fs, {<<i, x>> : x \in {"perm", "uid", "gid", "data"}}, {})
      /\ n.perm = IF s.mode = {} THEN o.perm ELSE The(s.mode)
      /\ n.uid = IF s.uid = {} THEN o.uid ELSE The(s.uid)
      /\ n.gid = IF s.gid = {} THEN o.gid ELSE The(s.gid)
      /\ s.size = {} => n.data = o.data

\* setattr of the adapter changes everything it is asked to in a file that exists.
LEMMA SetattrIs ==
  ASSUME NEW f, WellFormed(f), NEW i \in DOMAIN f.node, NEW s
  PROVE  Setattred(f, vfs_setattr(f, i, s), i, s)
<1> DEFINE X == {<<i, x>> : x \in {"perm", "uid", "gid", "data"}}
           o == f.node[i]
           a == IF s.mode = {} THEN Done(f, i) ELSE chmod(f, i, The(s.mode))
           b == IF a.err # "Ok" THEN a ELSE chown(a.fs, i, s.uid, s.gid)
           c == IF b.err # "Ok" \/ s.size = {} THEN b
                ELSE IF open(b.fs, i).err # "Ok" THEN open(b.fs, i)
                ELSE truncate(b.fs, i)
           d == IF c.err # "Ok" \/ s.time = {} THEN c ELSE utimens(c.fs, i)
           e == IF d.err # "Ok" THEN d ELSE getattr(d.fs, i)
<1>0. vfs_setattr(f, i, s) = Nfs(e)
  BY Zenon DEF vfs_setattr
<1>1. /\ a.err = "Ok" /\ i \in DOMAIN a.fs.node /\ Frame(f, a.fs, {<<i, "perm">>}, {})
      /\ a.fs.node[i].perm = IF s.mode = {} THEN o.perm ELSE The(s.mode)
  <2>1. CASE s.mode = {}
    BY Zenon, <2>1, FrameSame DEF Done
  <2>2. CASE s.mode # {}
    <3>1. Chmodded(f, a, i, The(s.mode))
      BY Zenon, <2>2, ChmodIs
    <3> HIDE DEF a
    <3>q. QED BY Zenon, <2>2, <3>1 DEF Chmodded
  <2>q. QED BY Zenon, <2>1, <2>2
<1>a. a.err = "Ok" => b = chown(a.fs, i, s.uid, s.gid)
  BY Zenon
<1> HIDE DEF a, b, o
<1>2. Chowned(a.fs, b, i, s.uid, s.gid)
  BY Zenon, <1>1, <1>a, ChownIs, FrameFormed
<1>3. /\ c.err = "Ok" /\ i \in DOMAIN c.fs.node /\ Frame(b.fs, c.fs, {<<i, "data">>}, {})
      /\ s.size = {} => c.fs = b.fs
  <2>1. WellFormed(b.fs)
    BY Zenon, <1>2, FrameFormed DEF Chowned
  <2>2. CASE s.size = {}
    BY Zenon, <1>2, <2>1, <2>2, FrameSame DEF Chowned
  <2>3. CASE s.size # {}
    <3>1. c.err = "Ok" /\ c.fs = SetData(b.fs, i, 0)
      BY Zenon, <1>2, <2>3 DEF open, getattr, Exists, truncate, Done, Chowned
    <3> HIDE DEF c
    <3>q. QED BY <1>2, <2>1, <2>3, <3>1, SetDataIs DEF Chowned
  <2>q. QED BY Zenon, <2>2, <2>3
<1> HIDE DEF c
<1>4. e.err = "Ok" /\ e.fs = c.fs
  BY Zenon, <1>3 DEF utimens, getattr, Exists, Done
<1> HIDE DEF e
<1>5. /\ vfs_setattr(f, i, s).st = "OK" /\ vfs_setattr(f, i, s).fs = c.fs
  BY Zenon, <1>0, <1>4, NfsIs
<1>6. Frame(f, c.fs, X, {})
  <2>1. /\ {<<i, "perm">>} \subseteq X /\ {<<i, "uid">>, <<i, "gid">>} \subseteq X
        /\ {<<i, "data">>} \subseteq X
    BY Zenon
  <2> HIDE DEF X
  <2>2. Frame(f, a.fs, X, {})
    BY <1>1, <2>1, FrameMore
  <2>3. Frame(a.fs, b.fs, X, {})
    BY <1>2, <2>1, FrameMore DEF Chowned
  <2>4. Frame(b.fs, c.fs, X, {})
    BY <1>3, <2>1, FrameMore
  <2>5. Frame(f, b.fs, X, {})
    BY Zenon, <2>2, <2>3, FrameTwo
  <2>q. QED BY Zenon, <2>4, <2>5, FrameTwo
<1>7. i \in Nat /\ i < f.next /\ i < a.fs.next /\ i < b.fs.next
  <2>1. WellFormed(f) /\ WellFormed(a.fs) /\ WellFormed(b.fs)
    BY Zenon, <1>1, <1>2, FrameFormed DEF Chowned
  <2>q. QED BY <1>1, <1>2, <2>1 DEF WellFormed, Chowned
<1>8. a.fs.node[i].uid = o.uid /\ a.fs.node[i].gid = o.gid /\ a.fs.node[i].data = o.data
  BY Zenon, <1>1, <1>7 DEF Frame, Fields, o
<1>9. b.fs.node[i].perm = a.fs.node[i].perm /\ b.fs.node[i].data = a.fs.node[i].data
  BY Zenon, <1>2, <1>7 DEF Frame, Fields, Chowned
<1>10. /\ c.fs.node[i].perm = b.fs.node[i].perm /\ c.fs.node[i].uid = b.fs.node[i].uid
       /\ c.fs.node[i].gid = b.fs.node[i].gid
  BY Zenon, <1>3, <1>7 DEF Frame, Fields
<1>q. QED BY <1>1, <1>2, <1>3, <1>5, <1>6, <1>8, <1>9, <1>10 DEF o, X, Setattred, Chowned

\* ... and nothing when there is none.
LEMMA SetattrGone ==
  ASSUME NEW f, NEW i, i \notin DOMAIN f.node, NEW s
  PROVE  vfs_setattr(f, i, s).fs = f
<1> DEFINE a == IF s.mode = {} THEN Done(f, i) ELSE chmod(f, i, The(s.mode))
           b == IF a.err # "Ok" THEN a ELSE chown(a.fs, i, s.uid, s.gid)
           c == IF b.err # "Ok" \/ s.size = {} THEN b
                ELSE IF open(b.fs, i).err # "Ok" THEN open(b.fs, i)
                ELSE truncate(b.fs, i)
           d == IF c.err # "Ok" \/ s.time = {} THEN c ELSE utimens(c.fs, i)
           e == IF d.err # "Ok" THEN d ELSE getattr(d.fs, i)
<1>0. vfs_setattr(f, i, s) = Nfs(e)
  BY Zenon DEF vfs_setattr
<1>1. a.fs = f
  BY Zenon DEF Done, Fail, chmod, Exists
<1> HIDE DEF a
<1>2. b.fs = f
  BY Zenon, <1>1 DEF Done, Fail, chown, Exists
<1> HIDE DEF b
<1>3. c.fs = f
  BY Zenon, <1>2 DEF Fail, open, getattr, Exists
<1> HIDE DEF c
<1>4. e.fs = f
  BY Zenon, <1>3 DEF Fail, utimens, getattr, Exists
<1> HIDE DEF e
<1>q. QED BY Zenon, <1>0, <1>4, NfsIs

\* write of the adapter changes the contents of a file that exists.
Wrote(f, r, i) ==
  /\ Frame(f, r.fs, {<<i, "data">>}, {})
  /\ r.st = "OK" <=> i \in DOMAIN f.node
  /\ r.st = "OK" => DOMAIN r.fs.node = DOMAIN f.node
  /\ r.st # "OK" => r.fs = f

\* The adapter's write changes the contents of its file and nothing else.
LEMMA WriteIs ==
  ASSUME NEW f, WellFormed(f), NEW i, NEW tag
  PROVE  Wrote(f, vfs_write(f, i, tag), i)
<1> DEFINE w == IF open(f, i).err # "Ok" THEN open(f, i) ELSE pwrite(f, i, tag)
<1>0. vfs_write(f, i, tag) = Nfs(w)
  BY Zenon DEF vfs_write
<1>1. CASE i \in DOMAIN f.node
  <2>1. w.err = "Ok" /\ w.fs = SetData(f, i, tag)
    BY Zenon, <1>1 DEF open, getattr, Exists, Done, pwrite
  <2> HIDE DEF w
  <2>2. vfs_write(f, i, tag).st = "OK" /\ vfs_write(f, i, tag).fs = SetData(f, i, tag)
    BY Zenon, <1>0, <2>1, NfsIs
  <2> DEFINE g == SetData(f, i, tag)
  <2>3. Frame(f, g, {<<i, "data">>}, {}) /\ DOMAIN g.node = DOMAIN f.node
    BY Zenon, SetDataIs
  <2> HIDE DEF g
  <2>q. QED BY <1>1, <2>2, <2>3 DEF Wrote, g
<1>2. CASE i \notin DOMAIN f.node
  <2>1. w.err # "Ok" /\ w.fs = f
    BY Zenon, <1>2 DEF open, getattr, Exists, Fail
  <2> HIDE DEF w
  <2>q. QED BY Zenon, <1>0, <1>2, <2>1, NfsIs, FrameSame DEF Wrote
<1>q. QED BY Zenon, <1>1, <1>2

\* A call of the adapter that makes an entry where there is none, if it makes one
Added(f, r, p, n) ==
  /\ Frame(f, r.fs, {}, {<<p, n>>})
  /\ r.fs # f => lookup_child(f, p, n) = 0

\* The adapter passes on what an operation added.
LEMMA AddedBy ==
  ASSUME NEW f, NEW r, NEW p, NEW n, AddsEntry(f, r, p, n)
  PROVE  Added(f, Nfs(r), p, n)
BY Zenon, NfsIs DEF AddsEntry, Added

\* A refusal adds nothing.
LEMMA AddedNone ==
  ASSUME NEW f, WellFormed(f), NEW st, NEW p, NEW n, NEW i
  PROVE  Added(f, Res(st, f, i), p, n)
BY FrameSame DEF Added, Res

\* Every operation of the adapter that makes an entry makes at most that one.
LEMMA MakeAdds ==
  ASSUME NEW f, WellFormed(f), NEW p, NEW n, NEW s, NEW auth, NEW x
  PROVE  /\ Added(f, vfs_create(f, p, n, s, auth), p, n)
         /\ Added(f, vfs_create_exclusive(f, p, n, auth), p, n)
         /\ Added(f, vfs_mkdir(f, p, n, s, auth), p, n)
         /\ Added(f, vfs_symlink(f, p, n, x, auth), p, n)
         /\ Added(f, vfs_mknod(f, p, n, x, s, auth), p, n)
         /\ Added(f, vfs_link(f, x, p, n), p, n)
<1>1. Added(f, vfs_create(f, p, n, s, auth), p, n)
  BY FrameNewNode, AddedBy, Zenon DEF vfs_create, create_file
<1>2. Added(f, vfs_create_exclusive(f, p, n, auth), p, n)
  BY FrameNewNode, AddedBy, AddedNone, Zenon DEF vfs_create_exclusive, create_file
<1>3. Added(f, vfs_mkdir(f, p, n, s, auth), p, n)
  BY MkdirAdds, AddedBy, Zenon DEF vfs_mkdir
<1>4. Added(f, vfs_symlink(f, p, n, x, auth), p, n)
  BY FrameNewNode, AddedBy, Zenon DEF vfs_symlink, symlink
<1>5. Added(f, vfs_mknod(f, p, n, x, s, auth), p, n)
  BY FrameNewNode, AddedBy, AddedNone, Zenon DEF vfs_mknod, mknod
<1>6. Added(f, vfs_link(f, x, p, n), p, n)
  BY LinkAdds, AddedBy, Zenon DEF vfs_link
<1>q. QED BY <1>1, <1>2, <1>3, <1>4, <1>5, <1>6

=============================================================================
