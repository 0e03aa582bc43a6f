-------------------------- MODULE NamespaceProofs --------------------------
(***************************************************************************)
(* Proofs about Namespace, for any names and any number of inodes, links   *)
(* and openings of the database: link counts, the tree, the dentry cache,  *)
(* and the rows of deleted inodes.                                         *)
(***************************************************************************)
EXTENDS Namespace, FiniteSetTheorems, TLAPS

NType ==
  /\ lastIno \in Nat
  /\ DOMAIN mode \subseteq 1 .. lastIno /\ \A i \in DOMAIN mode : mode[i] \in Kind
  /\ DOMAIN nlink = DOMAIN mode /\ \A i \in DOMAIN mode : nlink[i] \in Int
  /\ DOMAIN drift = DOMAIN mode /\ \A i \in DOMAIN mode : drift[i] \in Int
  /\ IsFiniteSet(DOMAIN dentry)

\* S holds whatever is entered in its members.
Closed(S) == S \subseteq DOMAIN mode /\ \A e \in DOMAIN dentry : e[1] \in S => dentry[e] \in S

\* Whatever has a name is in every closed set that holds the root.
Reached == \A S : Closed(S) /\ Root \in S => \A i \in DOMAIN mode : Named(i) => i \in S

\* The tables are in order.
Tables == NType /\ EntriesValid /\ DirsNamedOnce /\ FileLinks /\ DirLinks /\ Reached

\* The inductive invariant for FileLinks, DirLinks and Tree.
InOrder == strayed \in BOOLEAN /\ (~strayed => Tables)

-----------------------------------------------------------------------------
(* Operators.                                                              *)

\* A row is written.
LEMMA PutIs ==
  ASSUME NEW f, NEW k, NEW v
  PROVE  /\ DOMAIN Put(f, k, v) = DOMAIN f \cup {k}
         /\ Put(f, k, v)[k] = v
         /\ \A x \in DOMAIN f : x # k => Put(f, k, v)[x] = f[x]
BY Zenon DEF Put

\* A row is deleted.
LEMMA DropIs ==
  ASSUME NEW f, NEW k
  PROVE  /\ DOMAIN Drop(f, k) = DOMAIN f \ {k}
         /\ \A x \in DOMAIN f : x # k => Drop(f, k)[x] = f[x]
BY Zenon DEF Drop

\* A count is changed.
LEMMA AddLinksIs ==
  ASSUME NEW f, NEW i, NEW n
  PROVE  /\ DOMAIN AddLinks(f, i, n) = DOMAIN f
         /\ i \in DOMAIN f => AddLinks(f, i, n)[i] = f[i] + n
         /\ \A x \in DOMAIN f : x # i => AddLinks(f, i, n)[x] = f[x]
BY Zenon DEF AddLinks

\* The names of an inode and the subdirectories of a directory can be counted.
LEMMA CountsFinite ==
  ASSUME NType, NEW i
  PROVE  /\ IsFiniteSet(NamesOf(i)) /\ Cardinality(NamesOf(i)) \in Nat
         /\ IsFiniteSet(SubDirs(i)) /\ Cardinality(SubDirs(i)) \in Nat
<1>1. IsFiniteSet(DOMAIN dentry) /\ NamesOf(i) \subseteq DOMAIN dentry /\ SubDirs(i) \subseteq DOMAIN dentry
  BY Zenon DEF NType, NamesOf, SubDirs, Entries
<1>2. IsFiniteSet(NamesOf(i)) /\ IsFiniteSet(SubDirs(i))
  BY Zenon, <1>1, FS_Subset
<1> QED BY Zenon, <1>2, FS_CardinalityType

\* Reached in the words of Below.
LEMMA ReachedIs ==
  ASSUME NType
  PROVE  Reached <=> \A i \in DOMAIN mode : Named(i) => i \in Below(Root)
<1>1. \A S \in SUBSET DOMAIN mode :
        Closed(S) <=> \A e \in DOMAIN dentry : e[1] \in S => dentry[e] \in S
  BY Zenon DEF Closed
<1> QED BY Zenon, <1>1 DEF Reached, Below, Closed

-----------------------------------------------------------------------------
(* New inodes.                                                             *)

\* The rows of a new inode of kind k (create_file, mknod, symlink, mkdir).
Added(p, n, k) ==
  LET i == lastIno + 1 IN
  /\ Parent(p) /\ <<p, n>> \notin DOMAIN dentry
  /\ mode' = Put(mode, i, k)
  /\ nlink' = IF k = "dir" THEN AddLinks(Put(nlink, i, 2), p, 1) ELSE Put(nlink, i, 1)
  /\ dentry' = Put(dentry, <<p, n>>, i)
  /\ lastIno' = i
  /\ drift' = Kept(drift)

\* A new inode keeps the tables in order.
LEMMA AddedTables ==
  ASSUME Tables, NEW p, NEW n, NEW k \in Kind, Added(p, n, k)
  PROVE  Tables'
<1>i. PICK i : i = lastIno + 1
  BY Zenon
<1>e. PICK e0 : e0 = <<p, n>>
  BY Zenon
<1>1. /\ i \in Nat /\ i \notin DOMAIN mode /\ i # Root /\ i >= 1 /\ p # i /\ p \in DOMAIN mode
      /\ mode[p] = "dir" /\ Named(p) /\ e0 \notin DOMAIN dentry /\ lastIno \in Nat
  BY <1>i, <1>e DEF Tables, NType, Added, Parent, IsDir, EntriesValid, Root
<1>2. /\ DOMAIN mode' = DOMAIN mode \cup {i} /\ mode'[i] = k
      /\ \A x \in DOMAIN mode : mode'[x] = mode[x]
  BY Zenon, <1>1, <1>i, <1>e DEF Added, Put
<1>3. /\ DOMAIN dentry' = DOMAIN dentry \cup {e0} /\ dentry'[e0] = i
      /\ \A e \in DOMAIN dentry : dentry'[e] = dentry[e]
  BY Zenon, <1>1, <1>i, <1>e DEF Added, Put
<1>4. DOMAIN nlink = DOMAIN mode /\ \A x \in DOMAIN mode : nlink[x] \in Int
  BY Zenon DEF Tables, NType
<1>5. /\ DOMAIN nlink' = DOMAIN mode \cup {i}
      /\ nlink'[i] = (IF k = "dir" THEN 2 ELSE 1)
      /\ nlink'[p] = (IF k = "dir" THEN nlink[p] + 1 ELSE nlink[p])
      /\ \A x \in DOMAIN mode : x # p => nlink'[x] = nlink[x]
  BY Zenon, <1>1, <1>4, <1>i DEF Added, Put, AddLinks
<1>6. /\ lastIno' = i /\ DOMAIN drift = DOMAIN mode /\ \A x \in DOMAIN mode : drift[x] \in Int
      /\ DOMAIN drift' = DOMAIN mode \cup {i} /\ drift'[i] = 0
      /\ \A x \in DOMAIN mode : drift'[x] = drift[x]
  <2>1. DOMAIN drift = DOMAIN mode /\ \A x \in DOMAIN mode : drift[x] \in Int
    BY Zenon DEF Tables, NType
  <2>2. drift' = [x \in DOMAIN mode' |-> IF x \in DOMAIN drift THEN drift[x] ELSE 0]
    BY Zenon DEF Added, Kept
  <2> QED BY Zenon, <1>1, <1>2, <1>i, <2>1, <2>2 DEF Added
<1>7. e0[1] = p
  BY Zenon, <1>e
<1>8. \A e \in DOMAIN dentry : /\ e[1] \in DOMAIN mode /\ mode[e[1]] = "dir"
                               /\ dentry[e] \in DOMAIN mode /\ dentry[e] # Root
  BY Zenon DEF Tables, EntriesValid, IsDir
<1>9. /\ NamesOf(i)' = {e0}
      /\ \A x \in DOMAIN mode : NamesOf(x)' = NamesOf(x)
  BY <1>1, <1>3, <1>8 DEF NamesOf
<1>10. /\ Entries(i)' = {} /\ Entries(p)' = Entries(p) \cup {e0}
       /\ \A x \in DOMAIN mode : x # p => Entries(x)' = Entries(x)
  BY Zenon, <1>1, <1>3, <1>7, <1>8 DEF Entries
<1>11. /\ \A x \in DOMAIN mode : IsDir(x)' = IsDir(x)
       /\ IsDir(i)' = (k = "dir")
  BY Zenon, <1>1, <1>2 DEF IsDir
<1>12. \A x \in DOMAIN mode : Named(x)' = Named(x)
  BY Zenon, <1>9 DEF Named
<1>13. NType'
  <2>1. IsFiniteSet(DOMAIN dentry')
    BY <1>3, FS_AddElement DEF Tables, NType
  <2>2. DOMAIN mode' \subseteq 1 .. lastIno' /\ \A x \in DOMAIN mode' : mode'[x] \in Kind
    BY <1>1, <1>2, <1>6, <1>i DEF Tables, NType
  <2>3. \A x \in DOMAIN mode' : nlink'[x] \in Int /\ drift'[x] \in Int
    BY <1>1, <1>2, <1>4, <1>5, <1>6
  <2> QED BY Zenon, <1>1, <1>2, <1>5, <1>6, <2>1, <2>2, <2>3 DEF Tables, NType
<1>14. EntriesValid'
  BY <1>1, <1>2, <1>3, <1>7, <1>8, <1>11 DEF Tables, EntriesValid, IsDir
<1>15. DirsNamedOnce'
  <2>1. ASSUME NEW d \in DOMAIN mode, IsDir(d)
        PROVE  /\ \A e, f \in NamesOf(d)' : e = f
               /\ d # Root /\ NamesOf(d)' = {} => Entries(d)' = {}
    BY <1>1, <1>9, <1>10, <2>1 DEF Tables, DirsNamedOnce, Named
  <2>2. /\ \A e, f \in NamesOf(i)' : e = f
        /\ Entries(i)' = {}
    BY Zenon, <1>9, <1>10
  <2> QED BY Zenon, <1>2, <1>11, <2>1, <2>2 DEF DirsNamedOnce
<1>16. FileLinks'
  <2>1. ASSUME NEW x \in DOMAIN mode, ~IsDir(x)
        PROVE  nlink'[x] = Cardinality(NamesOf(x)') /\ nlink'[x] > 0
    <3>1. nlink'[x] = nlink[x]
      BY Zenon, <1>1, <1>5, <2>1 DEF IsDir
    <3>2. nlink[x] = Cardinality(NamesOf(x)) /\ nlink[x] > 0
      BY Zenon, <2>1 DEF Tables, FileLinks
    <3> QED BY Zenon, <1>9, <3>1, <3>2
  <2>2. ASSUME k # "dir"
        PROVE  nlink'[i] = Cardinality(NamesOf(i)') /\ nlink'[i] > 0
    <3>1. Cardinality({e0}) = 1
      BY Zenon, FS_Singleton, Zenon
    <3> QED BY <1>5, <1>9, <2>2, <3>1
  <2> QED BY Zenon, <1>2, <1>11, <2>1, <2>2 DEF FileLinks
<1>17. DirLinks'
  <2> SUFFICES ASSUME NEW d \in DOMAIN mode', IsDir(d)'
               PROVE  nlink'[d] = Cardinality(SubDirs(d)') + (IF Named(d)' THEN 2 ELSE 1) + drift'[d]
    BY Zenon DEF DirLinks
  <2>1. CASE d = i
    <3>1. SubDirs(d)' = {}
      BY Zenon, <1>10, <2>1 DEF SubDirs
    <3>2. Cardinality(SubDirs(d)') = 0
      BY Zenon, <3>1, FS_EmptySet
    <3>3. nlink'[d] = 2 /\ drift'[d] = 0 /\ Named(d)'
      BY Zenon, <1>5, <1>6, <1>9, <1>11, <2>1 DEF Named
    <3> QED BY <3>2, <3>3
  <2>2. CASE d # i
    <3>1. /\ d \in DOMAIN mode /\ IsDir(d) /\ Named(d)' = Named(d) /\ drift'[d] = drift[d]
          /\ drift[d] \in Int
          /\ nlink[d] = Cardinality(SubDirs(d)) + (IF Named(d) THEN 2 ELSE 1) + drift[d]
      BY Zenon, <1>2, <1>6, <1>11, <1>12, <2>2 DEF Tables, DirLinks
    <3>2. IsFiniteSet(SubDirs(d)) /\ Cardinality(SubDirs(d)) \in Nat
      BY Zenon, CountsFinite DEF Tables
    <3>3. CASE d # p
      <4>1. SubDirs(d)' = SubDirs(d)
        BY Zenon, <1>3, <1>8, <1>10, <1>11, <3>1, <3>3 DEF SubDirs, Entries
      <4> QED BY Zenon, <1>5, <3>1, <3>3, <4>1
    <3>4. CASE d = p /\ k # "dir"
      <4>1. \A e \in DOMAIN dentry' : IsDir(dentry[e])' <=> e # e0 /\ IsDir(dentry[e])
        BY Zenon, <1>1, <1>3, <1>8, <1>11, <3>4
      <4>2. SubDirs(d)' = SubDirs(d)
        BY Zenon, <1>1, <1>10, <3>1, <3>4, <4>1 DEF SubDirs, Entries
      <4> QED BY Zenon, <1>5, <3>1, <3>4, <4>2
    <3>5. CASE d = p /\ k = "dir"
      <4>0. \A e \in DOMAIN dentry' : IsDir(dentry[e])' <=> e = e0 \/ IsDir(dentry[e])
        BY Zenon, <1>1, <1>3, <1>8, <1>11, <3>5
      <4>1. SubDirs(d)' = SubDirs(d) \cup {e0} /\ e0 \notin SubDirs(d)
        BY Zenon, <1>1, <1>3, <1>10, <3>1, <3>5, <4>0 DEF SubDirs, Entries
      <4>2. Cardinality(SubDirs(d)') = Cardinality(SubDirs(d)) + 1
        BY Zenon, <3>2, <4>1, FS_AddElement
      <4> QED BY <1>4, <1>5, <3>1, <3>2, <3>5, <4>2
    <3> QED BY Zenon, <3>3, <3>4, <3>5
  <2> QED BY Zenon, <2>1, <2>2
<1>18. Reached'
  <2> SUFFICES ASSUME NEW S, Closed(S)', Root \in S, NEW x \in DOMAIN mode', Named(x)'
               PROVE  x \in S
    BY Zenon DEF Reached, Root
  <2> DEFINE T == S \cap DOMAIN mode
  <2>1. Closed(T) /\ Root \in T
    BY Zenon, <1>3, <1>8 DEF Closed, Tables, EntriesValid, IsDir
  <2>2. \A y \in DOMAIN mode : Named(y) => y \in S
    BY Zenon, <2>1 DEF Tables, Reached
  <2>3. i \in S
    BY Zenon, <1>1, <1>3, <1>7, <2>2 DEF Closed
  <2> QED BY Zenon, <1>2, <1>12, <2>2, <2>3
<1> QED BY Zenon, <1>13, <1>14, <1>15, <1>16, <1>17, <1>18 DEF Tables

-----------------------------------------------------------------------------
(* Another name.                                                           *)

\* What the tables say of entries, in the form the proofs use.
LEMMA EntriesAre ==
  ASSUME Tables
  PROVE  /\ Root \in DOMAIN mode /\ mode[Root] = "dir"
         /\ \A e \in DOMAIN dentry : /\ e[1] \in DOMAIN mode /\ mode[e[1]] = "dir"
                                     /\ dentry[e] \in DOMAIN mode /\ dentry[e] # Root
         /\ \A e \in DOMAIN dentry : Named(e[1])
<1>1. /\ Root \in DOMAIN mode /\ mode[Root] = "dir"
      /\ \A e \in DOMAIN dentry : /\ e[1] \in DOMAIN mode /\ mode[e[1]] = "dir"
                                  /\ dentry[e] \in DOMAIN mode /\ dentry[e] # Root
  BY Zenon DEF Tables, EntriesValid, IsDir
<1>2. ASSUME NEW e \in DOMAIN dentry PROVE Named(e[1])
  <2>1. e \in Entries(e[1]) /\ IsDir(e[1]) /\ e[1] \in DOMAIN mode
    BY Zenon, <1>1 DEF Entries, IsDir
  <2> QED BY Zenon, <2>1 DEF Tables, DirsNamedOnce, Named
<1> QED BY Zenon, <1>1, <1>2

\* A hard link keeps the tables in order.
LEMMA LinkTables ==
  ASSUME Tables, NEW i, NEW q, NEW r, Link(i, q, r)
  PROVE  Tables'
<1>e. PICK e0 : e0 = <<q, r>>
  BY Zenon
<1>1. /\ i \in DOMAIN mode /\ mode[i] # "dir" /\ Named(i) /\ i # Root /\ i # q
      /\ q \in DOMAIN mode /\ mode[q] = "dir" /\ e0 \notin DOMAIN dentry /\ e0[1] = q
  BY Zenon, <1>e, EntriesAre DEF Link, Parent, IsDir
<1>2. /\ mode' = mode /\ lastIno' = lastIno /\ drift' = drift
      /\ DOMAIN nlink = DOMAIN mode /\ \A x \in DOMAIN mode : nlink[x] \in Int
  BY Zenon DEF Link, Tables, NType, history
<1>3. /\ DOMAIN dentry' = DOMAIN dentry \cup {e0} /\ dentry'[e0] = i
      /\ \A e \in DOMAIN dentry : dentry'[e] = dentry[e]
  BY Zenon, <1>1, <1>e DEF Link, Put
<1>4. /\ DOMAIN nlink' = DOMAIN mode /\ nlink'[i] = nlink[i] + 1
      /\ \A x \in DOMAIN mode : x # i => nlink'[x] = nlink[x]
  BY Zenon, <1>1, <1>2 DEF Link, AddLinks
<1>5. /\ NamesOf(i)' = NamesOf(i) \cup {e0} /\ e0 \notin NamesOf(i)
      /\ \A x \in DOMAIN mode : x # i => NamesOf(x)' = NamesOf(x)
  BY Zenon, <1>1, <1>3 DEF NamesOf
<1>6. \A x \in DOMAIN mode : Named(x)' = Named(x)
  BY Zenon, <1>1, <1>5 DEF Named
<1>7. /\ Entries(q)' = Entries(q) \cup {e0}
      /\ \A x \in DOMAIN mode : x # q => Entries(x)' = Entries(x)
  BY Zenon, <1>1, <1>3 DEF Entries
<1>8. \A x : IsDir(x)' = IsDir(x)
  BY Zenon, <1>2 DEF IsDir
<1>9. NType'
  <2>1. IsFiniteSet(DOMAIN dentry')
    BY <1>3, FS_AddElement DEF Tables, NType
  <2> QED BY <1>1, <1>2, <1>4, <2>1 DEF Tables, NType
<1>10. EntriesValid'
  BY Zenon, <1>1, <1>2, <1>3, EntriesAre DEF EntriesValid, IsDir
<1>11. DirsNamedOnce'
  <2> SUFFICES ASSUME NEW d \in DOMAIN mode, IsDir(d)
               PROVE  /\ \A e, f \in NamesOf(d)' : e = f
                      /\ d # Root /\ NamesOf(d)' = {} => Entries(d)' = {}
    BY Zenon, <1>2, <1>8 DEF DirsNamedOnce
  <2>1. NamesOf(d)' = NamesOf(d)
    BY Zenon, <1>1, <1>5 DEF IsDir
  <2>2. d = q => Named(d)
    BY Zenon DEF Link, Parent
  <2> QED BY <1>7, <2>1, <2>2 DEF Tables, DirsNamedOnce, Named
<1>12. FileLinks'
  <2> SUFFICES ASSUME NEW x \in DOMAIN mode, ~IsDir(x)
               PROVE  nlink'[x] = Cardinality(NamesOf(x)') /\ nlink'[x] > 0
    BY Zenon, <1>2, <1>8 DEF FileLinks
  <2>1. nlink[x] = Cardinality(NamesOf(x)) /\ nlink[x] > 0 /\ nlink[x] \in Int
    BY Zenon, <1>2 DEF Tables, FileLinks
  <2>2. CASE x = i
    <3>1. IsFiniteSet(NamesOf(i))
      BY Zenon, CountsFinite DEF Tables
    <3>2. Cardinality(NamesOf(i)') = Cardinality(NamesOf(i)) + 1
      BY Zenon, <1>5, <3>1, FS_AddElement
    <3> QED BY <1>4, <2>1, <2>2, <3>2
  <2>3. CASE x # i
    BY Zenon, <1>4, <1>5, <2>1, <2>3
  <2> QED BY Zenon, <2>2, <2>3
<1>13. DirLinks'
  <2> SUFFICES ASSUME NEW d \in DOMAIN mode, IsDir(d)
               PROVE  nlink'[d] = Cardinality(SubDirs(d)') + (IF Named(d)' THEN 2 ELSE 1) + drift[d]
    BY Zenon, <1>2, <1>8 DEF DirLinks
  <2>1. \A e \in DOMAIN dentry' : IsDir(dentry[e])' <=> e # e0 /\ IsDir(dentry[e])
    BY Zenon, <1>1, <1>3, <1>8 DEF IsDir
  <2>2. SubDirs(d)' = SubDirs(d)
    BY Zenon, <1>1, <1>3, <2>1 DEF SubDirs, Entries
  <2>3. d # i
    BY Zenon, <1>1 DEF IsDir
  <2> QED BY Zenon, <1>4, <1>6, <2>2, <2>3 DEF Tables, DirLinks
<1>14. Reached'
  <2> SUFFICES ASSUME NEW S, Closed(S)', Root \in S, NEW x \in DOMAIN mode, Named(x)'
               PROVE  x \in S
    BY Zenon, <1>2 DEF Reached, Root
  <2>1. Closed(S)
    BY Zenon, <1>2, <1>3 DEF Closed
  <2> QED BY Zenon, <1>6, <2>1 DEF Tables, Reached
<1> QED BY Zenon, <1>9, <1>10, <1>11, <1>12, <1>13, <1>14 DEF Tables

-----------------------------------------------------------------------------
(* A name goes.                                                            *)

\* The entry <<p, n>> goes, of an inode without entries of its own that is seen as a
\* directory or not (unlink, rmdir and SecAFS::remove).
Removed(p, n, dir) ==
  LET i == dentry[<<p, n>>]
      links == AddLinks(nlink, i, -1)
  IN  /\ <<p, n>> \in DOMAIN dentry
      /\ Entries(i) = {}
      /\ mode[i] # "symlink" => dir = IsDir(i)
      /\ dentry' = Drop(dentry, <<p, n>>)
      /\ DropInode(i, IF dir THEN AddLinks(links, p, -1) ELSE links)
      /\ drift' = Kept(IF dir # IsDir(i) THEN AddLinks(drift, p, -1) ELSE drift)
      /\ lastIno' = lastIno

\* A removal keeps the tables in order: the inode's rows go only with its last name.
LEMMA RemovedTables ==
  ASSUME Tables, NEW p, NEW n, NEW dir \in BOOLEAN, Removed(p, n, dir)
  PROVE  Tables'
<1>e. PICK e0 : e0 = <<p, n>>
  BY Zenon
<1>i. PICK i : i = dentry[e0]
  BY Zenon
<1>1. /\ e0 \in DOMAIN dentry /\ e0[1] = p /\ Entries(i) = {} /\ i \in DOMAIN mode /\ i # Root
      /\ p \in DOMAIN mode /\ mode[p] = "dir" /\ p # i
  BY <1>e, <1>i, EntriesAre DEF Removed, Entries
<1>2. /\ lastIno' = lastIno
      /\ drift' = Kept(IF dir # IsDir(i) THEN AddLinks(drift, p, -1) ELSE drift)
      /\ DOMAIN drift = DOMAIN mode /\ \A x \in DOMAIN mode : drift[x] \in Int
      /\ mode[i] # "symlink" => dir = IsDir(i)
      /\ DOMAIN nlink = DOMAIN mode /\ \A x \in DOMAIN mode : nlink[x] \in Int
  BY Zenon, <1>e, <1>i DEF Removed, Tables, NType
<1>3. /\ DOMAIN dentry' = DOMAIN dentry \ {e0}
      /\ \A e \in DOMAIN dentry' : dentry'[e] = dentry[e]
  BY Zenon, <1>e DEF Removed, Drop
<1>4. /\ \A x \in DOMAIN mode : x \in DOMAIN mode' <=> ~(x = i /\ nlink[i] = 1)
      /\ \A x \in DOMAIN mode' : x \in DOMAIN mode /\ mode'[x] = mode[x]
      /\ DOMAIN nlink' = DOMAIN mode'
      /\ \A x \in DOMAIN mode' :
           nlink'[x] = IF x = i THEN nlink[x] - 1
                       ELSE IF x = p /\ dir THEN nlink[x] - 1 ELSE nlink[x]
  <2> DEFINE l1 == AddLinks(nlink, i, -1)
             l2 == IF dir THEN AddLinks(l1, p, -1) ELSE l1
  <2>1. /\ DOMAIN l2 = DOMAIN mode
        /\ \A x \in DOMAIN mode : l2[x] = IF x = i THEN nlink[x] - 1
                                          ELSE IF x = p /\ dir THEN nlink[x] - 1 ELSE nlink[x]
    BY <1>1, <1>2 DEF AddLinks
  <2>2. DropInode(i, l2)
    BY Zenon, <1>e, <1>i DEF Removed
  <2> HIDE DEF l2
  <2>3. l2[i] = 0 <=> nlink[i] = 1
    BY <1>1, <1>2, <2>1
  <2> QED BY <1>1, <1>2, <2>1, <2>2, <2>3 DEF DropInode, NoLinks, Drop
<1>d. /\ DOMAIN drift' = DOMAIN mode'
      /\ \A x \in DOMAIN mode' :
           drift'[x] = IF x = p /\ dir # IsDir(i) THEN drift[x] - 1 ELSE drift[x]
  BY <1>2, <1>4 DEF Kept, AddLinks
<1>5. /\ NamesOf(i)' = NamesOf(i) \ {e0} /\ e0 \in NamesOf(i)
      /\ \A x \in DOMAIN mode : x # i => NamesOf(x)' = NamesOf(x)
  BY Zenon, <1>1, <1>3, <1>i DEF NamesOf
<1>6. /\ Entries(p)' = Entries(p) \ {e0}
      /\ \A x : Entries(x)' \subseteq Entries(x)
      /\ \A x \in DOMAIN mode : x # p => Entries(x)' = Entries(x)
  BY Zenon, <1>1, <1>3 DEF Entries
<1>7. \A x \in DOMAIN mode' : IsDir(x)' = IsDir(x)
  BY Zenon, <1>4 DEF IsDir
<1>8. IsFiniteSet(NamesOf(i)) /\ Cardinality(NamesOf(i)) \in Nat
  BY Zenon, CountsFinite DEF Tables
<1>9. Cardinality(NamesOf(i)') = Cardinality(NamesOf(i)) - 1 /\ IsFiniteSet(NamesOf(i)')
  BY <1>5, <1>8, FS_RemoveElement
<1>10. IsDir(i) => NamesOf(i)' = {}
  BY <1>1, <1>5 DEF Tables, DirsNamedOnce
<1>11. ~IsDir(i) => nlink[i] = Cardinality(NamesOf(i))
  BY Zenon, <1>1 DEF Tables, FileLinks
<1>12. i \notin DOMAIN mode' => NamesOf(i)' = {}
  <2> SUFFICES ASSUME i \notin DOMAIN mode', ~IsDir(i) PROVE NamesOf(i)' = {}
    BY Zenon, <1>10
  <2>1. Cardinality(NamesOf(i)') = 0
    BY <1>1, <1>4, <1>9, <1>11
  <2> QED BY Zenon, <1>9, <2>1, FS_EmptySet
<1>13. NType'
  <2>1. IsFiniteSet(DOMAIN dentry')
    BY Zenon, <1>3, FS_RemoveElement DEF Tables, NType
  <2>2. \A x \in DOMAIN mode' : nlink'[x] \in Int /\ drift'[x] \in Int
    BY <1>2, <1>4, <1>d
  <2> QED BY Zenon, <1>2, <1>4, <1>d, <2>1, <2>2 DEF Tables, NType
<1>14. EntriesValid'
  <2>1. IsDir(Root)'
    BY Zenon, <1>1, <1>4, EntriesAre DEF IsDir, Root
  <2>2. ASSUME NEW e \in DOMAIN dentry'
        PROVE  IsDir(e[1])' /\ dentry'[e] \in DOMAIN mode' \ {Root}
    <3>1. /\ e \in DOMAIN dentry /\ dentry'[e] = dentry[e] /\ e[1] # i
          /\ e[1] \in DOMAIN mode /\ mode[e[1]] = "dir" /\ dentry[e] \in DOMAIN mode /\ dentry[e] # Root
      BY Zenon, <1>1, <1>3, EntriesAre DEF Entries
    <3>2. dentry[e] = i => i \in DOMAIN mode'
      BY Zenon, <1>12, <3>1 DEF NamesOf
    <3>3. e[1] \in DOMAIN mode' /\ dentry[e] \in DOMAIN mode'
      BY Zenon, <1>4, <3>1, <3>2
    <3> QED BY Zenon, <1>4, <3>1, <3>3 DEF IsDir
  <2> QED BY Zenon, <2>1, <2>2 DEF EntriesValid, Root
<1>15. DirsNamedOnce'
  <2> SUFFICES ASSUME NEW d \in DOMAIN mode', IsDir(d)
               PROVE  /\ \A e, f \in NamesOf(d)' : e = f
                      /\ d # Root /\ NamesOf(d)' = {} => Entries(d)' = {}
    BY Zenon, <1>7 DEF DirsNamedOnce, Root
  <2>1. d \in DOMAIN mode /\ NamesOf(d)' \subseteq NamesOf(d)
    BY Zenon, <1>4, <1>5
  <2>2. \A e, f \in NamesOf(d) : e = f
    BY Zenon, <2>1 DEF Tables, DirsNamedOnce
  <2>3. d # Root /\ NamesOf(d) = {} => Entries(d) = {}
    BY Zenon, <2>1 DEF Tables, DirsNamedOnce
  <2> QED BY Zenon, <1>1, <1>5, <1>6, <2>1, <2>2, <2>3
<1>16. FileLinks'
  <2> SUFFICES ASSUME NEW x \in DOMAIN mode', ~IsDir(x)
               PROVE  nlink'[x] = Cardinality(NamesOf(x)') /\ nlink'[x] > 0
    BY Zenon, <1>7 DEF FileLinks
  <2>1. x \in DOMAIN mode /\ x # p /\ nlink[x] = Cardinality(NamesOf(x)) /\ nlink[x] > 0 /\ nlink[x] \in Int
    BY Zenon, <1>1, <1>2, <1>4 DEF Tables, FileLinks, IsDir
  <2>2. CASE x = i
    BY SMTT(60), <1>4, <1>9, <2>1, <2>2
  <2>3. CASE x # i
    BY Zenon, <1>4, <1>5, <2>1, <2>3
  <2> QED BY Zenon, <2>2, <2>3
<1>17. DirLinks'
  <2> SUFFICES ASSUME NEW d \in DOMAIN mode', IsDir(d)
               PROVE  nlink'[d] = Cardinality(SubDirs(d)') + (IF Named(d)' THEN 2 ELSE 1) + drift'[d]
    BY Zenon, <1>7 DEF DirLinks
  <2>1. /\ d \in DOMAIN mode /\ nlink[d] \in Int /\ drift[d] \in Int
        /\ nlink[d] = Cardinality(SubDirs(d)) + (IF Named(d) THEN 2 ELSE 1) + drift[d]
    BY Zenon, <1>2, <1>4 DEF Tables, DirLinks
  <2>2. IsFiniteSet(SubDirs(d)) /\ Cardinality(SubDirs(d)) \in Nat
    BY Zenon, CountsFinite DEF Tables
  <2>3. \A e \in DOMAIN dentry' : IsDir(dentry[e])' <=> IsDir(dentry[e])
    BY Zenon, <1>3, <1>7, <1>14 DEF EntriesValid
  <2>4. CASE d = i
    <3>1. SubDirs(d) = {} /\ SubDirs(d)' = {}
      BY Zenon, <1>1, <1>6, <2>4 DEF SubDirs
    <3>2. Cardinality(SubDirs(d)) = 0 /\ Cardinality(SubDirs(d)') = 0
      BY Zenon, <3>1, FS_EmptySet
    <3>3. Named(d) /\ ~Named(d)'
      BY Zenon, <1>1, <1>5, <1>10, <2>4 DEF Named, Root
    <3>4. nlink'[d] = nlink[d] - 1 /\ drift'[d] = drift[d]
      BY Zenon, <1>1, <1>4, <1>d, <2>1, <2>4
    <3> QED BY ONLY <2>1, <3>2, <3>3, <3>4
  <2>5. CASE d # i
    <3>1. Named(d)' = Named(d)
      BY Zenon, <1>5, <2>1, <2>5 DEF Named
    <3>2. CASE d = p /\ IsDir(i)
      <4>1. SubDirs(d)' = SubDirs(d) \ {e0} /\ e0 \in SubDirs(d)
        BY Zenon, <1>1, <1>3, <1>6, <1>i, <2>3, <3>2 DEF SubDirs, Entries
      <4>2. Cardinality(SubDirs(d)') = Cardinality(SubDirs(d)) - 1
        BY Zenon, <2>2, <4>1, FS_RemoveElement
      <4>3. dir = IsDir(i)
        BY <1>2, <3>2 DEF IsDir
      <4> QED BY <1>4, <1>d, <2>1, <2>2, <2>5, <3>1, <3>2, <4>2, <4>3
    <3>3. CASE ~(d = p /\ IsDir(i))
      <4>1. SubDirs(d)' = SubDirs(d)
        BY Zenon, <1>1, <1>3, <1>i, <2>3, <3>3 DEF SubDirs, Entries
      <4>2. CASE d = p /\ dir
        <5>1. nlink'[d] = nlink[d] - 1 /\ drift'[d] = drift[d] - 1
          BY Zenon, <1>4, <1>d, <2>5, <3>3, <4>2
        <5>2. Cardinality(SubDirs(d)') = Cardinality(SubDirs(d))
          BY Zenon, <4>1
        <5> QED BY ONLY <2>1, <2>2, <3>1, <5>1, <5>2
      <4>3. CASE ~(d = p /\ dir)
        <5>1. d = p => dir = IsDir(i)
          BY Zenon, <3>3, <4>3 DEF IsDir
        <5>2. nlink'[d] = nlink[d] /\ drift'[d] = drift[d]
          BY Zenon, <1>4, <1>d, <2>5, <4>3, <5>1
        <5> QED BY Zenon, <2>1, <3>1, <4>1, <5>2
      <4> QED BY Zenon, <4>2, <4>3
    <3> QED BY Zenon, <3>2, <3>3
  <2> QED BY Zenon, <2>4, <2>5
<1>18. Reached'
  <2> SUFFICES ASSUME NEW S, Closed(S)', Root \in S, NEW x \in DOMAIN mode', Named(x)'
               PROVE  x \in S
    BY Zenon DEF Reached, Root
  <2> DEFINE T == S \cup {i}
  <2>1. Closed(T) /\ Root \in T
    BY Zenon, <1>1, <1>3, <1>4, <1>i DEF Closed, Entries
  <2>2. \A y \in DOMAIN mode : Named(y) => y \in T
    BY Zenon, <2>1 DEF Tables, Reached
  <2>3. x \in DOMAIN mode /\ Named(x)
    BY Zenon, <1>4, <1>5 DEF Named
  <2>4. CASE x = i
    <3>1. PICK f \in DOMAIN dentry' : dentry'[f] = i
      BY Zenon, <1>1, <2>4 DEF Named, NamesOf
    <3>2. f \in DOMAIN dentry /\ Named(f[1]) /\ f[1] \in DOMAIN mode /\ f[1] # i
      BY Zenon, <1>1, <1>3, EntriesAre DEF Entries
    <3>3. f[1] \in S
      BY Zenon, <2>2, <3>2
    <3> QED BY Zenon, <2>4, <3>1, <3>3 DEF Closed
  <2> QED BY Zenon, <2>2, <2>3, <2>4
<1> QED BY Zenon, <1>13, <1>14, <1>15, <1>16, <1>17, <1>18 DEF Tables

-----------------------------------------------------------------------------
(* A name moves.                                                           *)

\* The entry `from' becomes `to', in place of the inodes D (one or none); dir says that
\* the source is seen as a directory.
MovedOver(from, to, s, D, dir) ==
  LET p == from[1]
      q == to[1]
  IN  /\ from \in DOMAIN dentry /\ to # from /\ dentry[from] = s
      /\ Parent(q)
      /\ D = {x \in DOMAIN mode : to \in DOMAIN dentry /\ x = dentry[to]}
      /\ \A d \in D : Entries(d) = {}
      /\ IsDir(s) => dir /\ q \notin Below(s)
      /\ ~dir => \A d \in D : ~IsDir(d)
      /\ DOMAIN dentry' = (DOMAIN dentry \ {from}) \cup {to}
      /\ dentry'[to] = s
      /\ \A e \in DOMAIN dentry \ {from, to} : dentry'[e] = dentry[e]
      /\ \A x \in DOMAIN mode : x \in DOMAIN mode' <=> ~(x \in D /\ nlink[x] = 1)
      /\ \A x \in DOMAIN mode' : x \in DOMAIN mode /\ mode'[x] = mode[x]
      /\ DOMAIN nlink' = DOMAIN mode'
      /\ \A x \in DOMAIN mode' :
           nlink'[x] = IF x \in D THEN nlink[x] - 1
                       ELSE IF dir /\ p # q /\ x = p THEN nlink[x] - 1
                       ELSE IF dir /\ p # q /\ x = q THEN nlink[x] + 1 ELSE nlink[x]
      /\ DOMAIN drift' = DOMAIN mode'
      /\ \A x \in DOMAIN mode' :
           drift'[x] = drift[x] + (IF x = q /\ (\E d \in D : IsDir(d)) THEN 1 ELSE 0)
                                + (IF dir /\ ~IsDir(s) /\ p # q /\ x = p THEN -1 ELSE 0)
                                + (IF dir /\ ~IsDir(s) /\ p # q /\ x = q THEN 1 ELSE 0)
      /\ lastIno' = lastIno

\* What Below(top) is: closed, and within every closed set that holds top.
LEMMA BelowIs ==
  ASSUME Tables, NEW top \in DOMAIN mode
  PROVE  /\ Closed(Below(top)) /\ top \in Below(top)
         /\ \A S : Closed(S) /\ top \in S => Below(top) \subseteq S
<1>1. \A e \in DOMAIN dentry : dentry[e] \in DOMAIN mode
  BY Zenon, EntriesAre
<1>2. \A e \in DOMAIN dentry : e[1] \in Below(top) => dentry[e] \in Below(top)
  BY Zenon, <1>1 DEF Below
<1>3. top \in Below(top) /\ Below(top) \subseteq DOMAIN mode
  BY Zenon DEF Below
<1>4. ASSUME NEW S, Closed(S), top \in S PROVE Below(top) \subseteq S
  BY Zenon, <1>4 DEF Closed, Below
<1> QED BY Zenon, <1>2, <1>3, <1>4 DEF Closed

\* A move detaches nothing: the destination is not below the source, so the root still
\* leads to it, from there to the source, and from there to all below it.
LEMMA MovedReached ==
  ASSUME Tables, NEW from, NEW to, NEW s, NEW D, NEW dir \in BOOLEAN, MovedOver(from, to, s, D, dir)
  PROVE  Reached'
<1> DEFINE p == from[1]
           q == to[1]
           T == Below(s)
<1>1. /\ from \in DOMAIN dentry /\ to # from /\ dentry[from] = s /\ s \in DOMAIN mode
      /\ q \in DOMAIN mode /\ mode[q] = "dir" /\ Named(q)
      /\ D \subseteq DOMAIN mode /\ \A d \in D : Entries(d) = {}
      /\ to \in DOMAIN dentry => dentry[to] \in D
      /\ IsDir(s) => q \notin T
  BY SMTT(60), EntriesAre DEF MovedOver, Parent, IsDir
<1>2. /\ DOMAIN dentry' = (DOMAIN dentry \ {from}) \cup {to} /\ dentry'[to] = s
      /\ \A e \in DOMAIN dentry \ {from, to} : dentry'[e] = dentry[e]
      /\ DOMAIN mode' \subseteq DOMAIN mode
  BY Zenon DEF MovedOver
<1>3. /\ Closed(T) /\ s \in T /\ T \subseteq DOMAIN mode
      /\ \A S : Closed(S) /\ s \in S => T \subseteq S
  BY Zenon, <1>1, BelowIs DEF Closed
<1> HIDE DEF T
<1>4. q \notin T
  <2>1. CASE IsDir(s)
    BY Zenon, <1>1, <2>1
  <2>2. CASE ~IsDir(s)
    <3>1. \A e \in DOMAIN dentry : e[1] # s
      BY Zenon, <2>2, EntriesAre DEF IsDir
    <3>2. Closed({s})
      BY Zenon, <1>1, <3>1 DEF Closed
    <3>3. q # s
      BY Zenon, <1>1, <2>2 DEF IsDir
    <3> QED BY Zenon, <1>3, <3>2, <3>3
  <2> QED BY Zenon, <2>1, <2>2
<1> SUFFICES ASSUME NEW S, Closed(S)', Root \in S, NEW x \in DOMAIN mode', Named(x)'
             PROVE  x \in S
  BY Zenon DEF Reached, Root
<1>5. S \subseteq DOMAIN mode' /\ \A e \in DOMAIN dentry' : e[1] \in S => dentry'[e] \in S
  BY Zenon DEF Closed
<1>6. \A d \in D : \A e \in DOMAIN dentry : e[1] # d
  BY Zenon, <1>1 DEF Entries
<1>7. \A y \in DOMAIN mode : Named(y) => y \in S \cup T \cup D
  <2> DEFINE U == S \cup T \cup D
  <2>1. U \subseteq DOMAIN mode /\ Root \in U
    BY Zenon, <1>1, <1>2, <1>3, <1>5
  <2>2. ASSUME NEW e \in DOMAIN dentry, e[1] \in U PROVE dentry[e] \in U
    <3>1. CASE e[1] \in T
      BY Zenon, <1>3, <3>1 DEF Closed
    <3>2. CASE e[1] \in S /\ e \notin {from, to}
      BY Zenon, <1>2, <1>5, <3>2
    <3>3. CASE e = from
      BY Zenon, <1>1, <1>3, <3>3
    <3>4. CASE e = to
      BY Zenon, <1>1, <3>4
    <3> QED BY Zenon, <1>6, <2>2, <3>1, <3>2, <3>3, <3>4
  <2> HIDE DEF U
  <2>3. Closed(U)
    BY Zenon, <2>1, <2>2 DEF Closed
  <2>4. \A y \in DOMAIN mode : Named(y) => y \in U
    BY Zenon, <2>1, <2>3 DEF Tables, Reached
  <2> QED BY Zenon, <2>4 DEF U
<1>8. q \notin D
  <2>1. CASE to \in DOMAIN dentry
    BY Zenon, <1>6, <2>1
  <2>2. CASE to \notin DOMAIN dentry
    BY Zenon, <2>2 DEF MovedOver
  <2> QED BY Zenon, <2>1, <2>2
<1>9. q \in S /\ s \in S
  <2>1. q \in S
    BY Zenon, <1>1, <1>4, <1>7, <1>8
  <2> QED BY Zenon, <1>2, <1>5, <2>1
<1>10. T \subseteq S
  <2> DEFINE W == S \cap T
  <2>1. ASSUME NEW e \in DOMAIN dentry, e[1] \in W PROVE dentry[e] \in W
    <3>1. dentry[e] \in T
      BY Zenon, <1>3, <2>1 DEF Closed
    <3>2. e # to
      BY Zenon, <1>4, <2>1
    <3>3. dentry[e] \in S
      <4>1. CASE e = from
        BY Zenon, <1>1, <1>9, <4>1
      <4>2. CASE e # from
        BY Zenon, <1>2, <1>5, <2>1, <3>2, <4>2
      <4> QED BY Zenon, <4>1, <4>2
    <3> QED BY Zenon, <3>1, <3>3
  <2>2. s \in W /\ W \subseteq DOMAIN mode
    BY Zenon, <1>3, <1>9
  <2>3. Closed(W)
    <3> HIDE DEF W
    <3> QED BY Zenon, <2>1, <2>2 DEF Closed
  <2> QED BY Zenon, <1>3, <2>2, <2>3
<1>11. \A y \in DOMAIN mode : Named(y) => y \in S \cup D
  BY Zenon, <1>7, <1>10
<1>12. CASE x = Root \/ x = s
  BY Zenon, <1>9, <1>12
<1>13. CASE x # Root /\ x # s
  <2>1. PICK e \in DOMAIN dentry' : dentry'[e] = x
    BY Zenon, <1>13 DEF Named, NamesOf
  <2>2. e \in DOMAIN dentry /\ e # from /\ e # to /\ dentry[e] = x
    BY Zenon, <1>1, <1>2, <1>13, <2>1
  <2>3. Named(e[1]) /\ e[1] \in DOMAIN mode
    BY Zenon, <2>2, EntriesAre
  <2>4. e[1] \in S
    BY Zenon, <1>6, <1>11, <2>2, <2>3
  <2> QED BY Zenon, <1>5, <2>1, <2>4
<1> QED BY Zenon, <1>12, <1>13

\* A move keeps the tables in order: what it replaces loses one name and one link, its
\* own inode keeps as many as it had.
LEMMA MovedTables ==
  ASSUME Tables, NEW from, NEW to, NEW s, NEW D, NEW dir \in BOOLEAN, MovedOver(from, to, s, D, dir)
  PROVE  Tables'
<1>p. PICK p : p = from[1]
  BY Zenon
<1>q. PICK q : q = to[1]
  BY Zenon
<1>1. /\ from \in DOMAIN dentry /\ to # from /\ dentry[from] = s /\ s \in DOMAIN mode /\ s # Root
      /\ p \in DOMAIN mode /\ mode[p] = "dir" /\ q \in DOMAIN mode /\ mode[q] = "dir"
      /\ Named(p) /\ Named(q)
  BY SMTT(60), <1>p, <1>q, EntriesAre DEF MovedOver, Parent, IsDir
<1>2. /\ D \subseteq DOMAIN mode /\ \A d \in D : Entries(d) = {}
      /\ \A d \in D : to \in DOMAIN dentry /\ dentry[to] = d
      /\ to \in DOMAIN dentry => dentry[to] \in D
      /\ Root \notin D
  BY Zenon, EntriesAre DEF MovedOver
<1>3. /\ DOMAIN dentry' = (DOMAIN dentry \ {from}) \cup {to} /\ dentry'[to] = s
      /\ \A e \in DOMAIN dentry : e # from /\ e # to => dentry'[e] = dentry[e]
  BY Zenon DEF MovedOver
<1>4. /\ \A x \in DOMAIN mode : x \in DOMAIN mode' <=> ~(x \in D /\ nlink[x] = 1)
      /\ \A x \in DOMAIN mode' : x \in DOMAIN mode /\ mode'[x] = mode[x]
      /\ DOMAIN nlink' = DOMAIN mode'
      /\ \A x \in DOMAIN mode' :
           nlink'[x] = IF x \in D THEN nlink[x] - 1
                       ELSE IF dir /\ p # q /\ x = p THEN nlink[x] - 1
                       ELSE IF dir /\ p # q /\ x = q THEN nlink[x] + 1 ELSE nlink[x]
  BY Zenon, <1>p, <1>q DEF MovedOver
<1>5. /\ IsDir(s) => dir
      /\ ~dir => \A d \in D : ~IsDir(d)
      /\ lastIno' = lastIno
      /\ DOMAIN nlink = DOMAIN mode /\ \A x \in DOMAIN mode : nlink[x] \in Int
      /\ DOMAIN drift = DOMAIN mode /\ \A x \in DOMAIN mode : drift[x] \in Int
  BY Zenon DEF MovedOver, Tables, NType
<1>d. /\ DOMAIN drift' = DOMAIN mode'
      /\ \A x \in DOMAIN mode' :
           drift'[x] = drift[x] + (IF x = q /\ (\E d \in D : IsDir(d)) THEN 1 ELSE 0)
                                + (IF dir /\ ~IsDir(s) /\ p # q /\ x = p THEN -1 ELSE 0)
                                + (IF dir /\ ~IsDir(s) /\ p # q /\ x = q THEN 1 ELSE 0)
  BY Zenon, <1>p, <1>q DEF MovedOver
<1>6. p \notin D /\ q \notin D
  BY Zenon, <1>1, <1>2, <1>p, <1>q DEF Entries
<1>7. s \in D => ~IsDir(s)
  <2>1. s \in D => from \in NamesOf(s) /\ to \in NamesOf(s)
    BY Zenon, <1>1, <1>2 DEF NamesOf
  <2> QED BY Zenon, <1>1, <2>1 DEF Tables, DirsNamedOnce
<1>8. /\ \A x \in DOMAIN mode : x \notin D /\ x # s => NamesOf(x)' = NamesOf(x)
      /\ \A x \in D : x # s => NamesOf(x)' = NamesOf(x) \ {to}
      /\ \A x \in D : to \in NamesOf(x)
      /\ s \in D => NamesOf(s)' = NamesOf(s) \ {from}
      /\ s \notin D => NamesOf(s)' = (NamesOf(s) \ {from}) \cup {to} /\ to \notin NamesOf(s)
      /\ from \in NamesOf(s)
  BY Zenon, <1>1, <1>2, <1>3 DEF NamesOf
<1>9. \A x \in DOMAIN mode : IsFiniteSet(NamesOf(x)) /\ Cardinality(NamesOf(x)) \in Nat
  BY Zenon, CountsFinite DEF Tables
<1>10. \A x \in D : Cardinality(NamesOf(x)') = Cardinality(NamesOf(x)) - 1 /\ IsFiniteSet(NamesOf(x)')
  <2> SUFFICES ASSUME NEW x \in D
               PROVE  Cardinality(NamesOf(x)') = Cardinality(NamesOf(x)) - 1 /\ IsFiniteSet(NamesOf(x)')
    BY Zenon
  <2>1. x \in DOMAIN mode /\ IsFiniteSet(NamesOf(x))
    BY Zenon, <1>2, <1>9
  <2>2. CASE x = s
    BY <1>8, <2>1, <2>2, FS_RemoveElement
  <2>3. CASE x # s
    BY <1>8, <2>1, <2>3, FS_RemoveElement
  <2> QED BY Zenon, <2>2, <2>3
<1>11. s \notin D => Cardinality(NamesOf(s)') = Cardinality(NamesOf(s))
  <2> SUFFICES ASSUME s \notin D PROVE Cardinality(NamesOf(s)') = Cardinality(NamesOf(s))
    BY Zenon
  <2> DEFINE N == NamesOf(s) \ {from}
  <2>1. IsFiniteSet(N) /\ Cardinality(N) = Cardinality(NamesOf(s)) - 1
    BY Zenon, <1>1, <1>8, <1>9, FS_RemoveElement
  <2>2. NamesOf(s)' = N \cup {to} /\ to \notin N
    BY Zenon, <1>8
  <2> HIDE DEF N
  <2>3. Cardinality(NamesOf(s)') = Cardinality(N) + 1
    BY Zenon, <2>1, <2>2, FS_AddElement
  <2> QED BY <1>1, <1>9, <2>1, <2>3
<1>12. \A x \in D : IsDir(x) => NamesOf(x)' = {}
  BY <1>2, <1>7, <1>8 DEF Tables, DirsNamedOnce
<1>13. \A x \in DOMAIN mode : x \notin DOMAIN mode' => NamesOf(x)' = {}
  <2> SUFFICES ASSUME NEW x \in DOMAIN mode, x \notin DOMAIN mode', ~IsDir(x) PROVE NamesOf(x)' = {}
    BY Zenon, <1>4, <1>12
  <2>1. x \in D /\ nlink[x] = 1
    BY Zenon, <1>4
  <2>2. nlink[x] = Cardinality(NamesOf(x))
    BY Zenon DEF Tables, FileLinks
  <2>3. Cardinality(NamesOf(x)') = 0 /\ IsFiniteSet(NamesOf(x)')
    BY <1>10, <2>1, <2>2
  <2> QED BY Zenon, <2>3, FS_EmptySet
<1>14. \A x \in DOMAIN mode' : IsDir(x)' = IsDir(x)
  BY Zenon, <1>4 DEF IsDir
<1>15. p \in DOMAIN mode' /\ q \in DOMAIN mode' /\ Root \in DOMAIN mode' /\ s \in DOMAIN mode'
  <2>1. NamesOf(s)' # {}
    BY Zenon, <1>3 DEF NamesOf
  <2> QED BY Zenon, <1>1, <1>2, <1>4, <1>6, <1>13, <2>1, EntriesAre
<1>16. NType'
  <2>1. IsFiniteSet(DOMAIN dentry')
    <3>1. IsFiniteSet(DOMAIN dentry \ {from})
      BY Zenon, FS_RemoveElement DEF Tables, NType
    <3> QED BY <1>3, <3>1, FS_AddElement
  <2>2. \A x \in DOMAIN mode' : nlink'[x] \in Int
    BY <1>4, <1>5
  <2>3. \A x \in DOMAIN mode' : drift'[x] \in Int
    BY <1>4, <1>5, <1>d
  <2> QED BY Zenon, <1>4, <1>5, <1>d, <2>1, <2>2, <2>3 DEF Tables, NType
<1>17. EntriesValid'
  <2>1. IsDir(Root)'
    BY Zenon, <1>4, <1>15, EntriesAre DEF IsDir, Root
  <2>2. ASSUME NEW e \in DOMAIN dentry'
        PROVE  IsDir(e[1])' /\ dentry'[e] \in DOMAIN mode' \ {Root}
    <3>1. CASE e = to
      BY Zenon, <1>1, <1>3, <1>4, <1>15, <1>q, <3>1 DEF IsDir
    <3>2. CASE e # to
      <4>1. /\ e \in DOMAIN dentry /\ e # from /\ dentry'[e] = dentry[e]
            /\ e[1] \in DOMAIN mode /\ mode[e[1]] = "dir" /\ dentry[e] \in DOMAIN mode /\ dentry[e] # Root
        BY Zenon, <1>3, <2>2, <3>2, EntriesAre
      <4>2. dentry[e] \in DOMAIN mode'
        BY Zenon, <1>13, <2>2, <4>1 DEF NamesOf
      <4>3. e[1] \in DOMAIN mode'
        BY Zenon, <1>2, <1>4, <4>1 DEF Entries
      <4> QED BY Zenon, <1>4, <4>1, <4>2, <4>3 DEF IsDir
    <3> QED BY Zenon, <3>1, <3>2
  <2> QED BY Zenon, <2>1, <2>2 DEF EntriesValid, Root
<1>18. DirsNamedOnce'
  <2> SUFFICES ASSUME NEW d \in DOMAIN mode', IsDir(d)
               PROVE  /\ \A e, f \in NamesOf(d)' : e = f
                      /\ d # Root /\ NamesOf(d)' = {} => Entries(d)' = {}
    BY Zenon, <1>14 DEF DirsNamedOnce, Root
  <2>1. /\ d \in DOMAIN mode /\ \A e, f \in NamesOf(d) : e = f
        /\ d # Root /\ NamesOf(d) = {} => Entries(d) = {}
    BY Zenon, <1>4 DEF Tables, DirsNamedOnce
  <2>2. \A e, f \in NamesOf(d)' : e = f
    <3>1. CASE d \in D
      BY Zenon, <1>12, <3>1
    <3>2. CASE d \notin D
      BY <1>8, <2>1, <3>2
    <3> QED BY Zenon, <3>1, <3>2
  <2>3. ASSUME d # Root, NamesOf(d)' = {} PROVE Entries(d)' = {}
    <3>1. d # s
      BY Zenon, <1>3, <2>3 DEF NamesOf
    <3>2. Entries(d) = {} /\ d # q
      <4>1. CASE d \in D
        BY Zenon, <1>2, <1>6, <4>1
      <4>2. CASE d \notin D
        BY Zenon, <1>1, <1>8, <2>1, <2>3, <3>1, <4>2 DEF Named
      <4> QED BY Zenon, <4>1, <4>2
    <3> QED BY Zenon, <1>3, <1>q, <3>2 DEF Entries
  <2> QED BY Zenon, <2>2, <2>3
<1>19. FileLinks'
  <2> SUFFICES ASSUME NEW x \in DOMAIN mode', ~IsDir(x)
               PROVE  nlink'[x] = Cardinality(NamesOf(x)') /\ nlink'[x] > 0
    BY Zenon, <1>14 DEF FileLinks
  <2>1. /\ x \in DOMAIN mode /\ x # p /\ x # q
        /\ nlink[x] = Cardinality(NamesOf(x)) /\ nlink[x] > 0 /\ nlink[x] \in Int
    BY Zenon, <1>1, <1>4, <1>5 DEF Tables, FileLinks, IsDir
  <2>2. CASE x \in D
    <3>1. nlink'[x] = nlink[x] - 1 /\ nlink[x] # 1
      BY Zenon, <1>4, <2>1, <2>2
    <3>2. Cardinality(NamesOf(x)') = Cardinality(NamesOf(x)) - 1
      BY Zenon, <1>10, <2>2
    <3> QED BY ONLY <2>1, <3>1, <3>2
  <2>3. CASE x \notin D
    <3>1. Cardinality(NamesOf(x)') = Cardinality(NamesOf(x))
      BY Zenon, <1>8, <1>11, <2>1, <2>3
    <3> QED BY Zenon, <1>4, <2>1, <2>3, <3>1
  <2> QED BY Zenon, <2>2, <2>3
<1>20. DirLinks'
  <2> SUFFICES ASSUME NEW d \in DOMAIN mode', IsDir(d)
               PROVE  nlink'[d] = Cardinality(SubDirs(d)') + (IF Named(d)' THEN 2 ELSE 1) + drift'[d]
    BY Zenon, <1>14 DEF DirLinks
  <2>1. /\ d \in DOMAIN mode /\ nlink[d] \in Int /\ drift[d] \in Int
        /\ nlink[d] = Cardinality(SubDirs(d)) + (IF Named(d) THEN 2 ELSE 1) + drift[d]
    BY Zenon, <1>4, <1>5 DEF Tables, DirLinks
  <2>2. IsFiniteSet(SubDirs(d)) /\ Cardinality(SubDirs(d)) \in Nat
    BY Zenon, CountsFinite DEF Tables
  <2>3. /\ \A e \in DOMAIN dentry : e # from /\ e # to => (IsDir(dentry[e])' <=> IsDir(dentry[e]))
        /\ IsDir(dentry[to])' <=> IsDir(s)
    <3>1. \A e \in DOMAIN dentry : e # from /\ e # to => dentry[e] \in DOMAIN mode'
      BY Zenon, <1>3, <1>17 DEF EntriesValid
    <3> QED BY Zenon, <1>3, <1>14, <1>15, <3>1
  <2>4. CASE d \in D
    <3>1. SubDirs(d) = {} /\ SubDirs(d)' = {}
      BY Zenon, <1>2, <1>3, <1>6, <1>q, <2>4 DEF SubDirs, Entries
    <3>2. Cardinality(SubDirs(d)) = 0 /\ Cardinality(SubDirs(d)') = 0
      BY Zenon, <3>1, FS_EmptySet
    <3>3. Named(d) /\ ~Named(d)'
      BY Zenon, <1>2, <1>8, <1>12, <2>4 DEF Named, Root
    <3>4. nlink'[d] = nlink[d] - 1 /\ drift'[d] = drift[d]
      BY <1>4, <1>6, <1>d, <2>1, <2>4
    <3> QED BY ONLY <2>1, <3>2, <3>3, <3>4
  <2>5. CASE d \notin D
    <3>1. Named(d)' = Named(d)
      BY Zenon, <1>8, <2>1, <2>5 DEF Named
    <3> DEFINE R == \E x \in D : IsDir(x)
               M == SubDirs(d) \ {from}
               N == M \ {to}
    <3>2. /\ from \in SubDirs(d) <=> d = p /\ IsDir(s)
          /\ to \in M <=> d = q /\ R
          /\ to \notin N
      BY Zenon, <1>1, <1>2, <1>p, <1>q DEF SubDirs, Entries
    <3>3. SubDirs(d)' = IF d = q /\ IsDir(s) THEN N \cup {to} ELSE N
      <4>1. ASSUME NEW e PROVE e \in SubDirs(d)' <=> e \in N \/ (e = to /\ d = q /\ IsDir(s))
        BY Zenon, <1>1, <1>3, <1>p, <1>q, <2>3 DEF SubDirs, Entries
      <4> QED BY Zenon, <4>1
    <3>4. /\ IsFiniteSet(M) /\ Cardinality(M) \in Nat
          /\ Cardinality(M) = Cardinality(SubDirs(d)) - (IF from \in SubDirs(d) THEN 1 ELSE 0)
      BY <2>2, FS_RemoveElement, FS_CardinalityType
    <3>5. /\ IsFiniteSet(N) /\ Cardinality(N) \in Nat
          /\ Cardinality(N) = Cardinality(M) - (IF to \in M THEN 1 ELSE 0)
      <4> HIDE DEF M
      <4> QED BY <3>4, FS_RemoveElement, FS_CardinalityType
    <3>6. Cardinality(SubDirs(d)') = Cardinality(N) + (IF d = q /\ IsDir(s) THEN 1 ELSE 0)
      <4> HIDE DEF N
      <4>1. CASE d = q /\ IsDir(s)
        <5>1. Cardinality(N \cup {to}) = Cardinality(N) + 1
          BY Zenon, <3>2, <3>5, FS_AddElement
        <5> QED BY Zenon, <3>3, <4>1, <5>1
      <4>2. CASE ~(d = q /\ IsDir(s))
        BY <3>3, <3>5, <4>2
      <4> QED BY Zenon, <4>1, <4>2
    <3>7. /\ nlink'[d] = nlink[d] + (IF dir /\ p # q /\ d = p THEN -1 ELSE 0)
                                  + (IF dir /\ p # q /\ d = q THEN 1 ELSE 0)
      BY <1>4, <2>1, <2>5
    <3>8. drift'[d] = drift[d] + (IF d = q /\ R THEN 1 ELSE 0)
                               + (IF dir /\ ~IsDir(s) /\ p # q /\ d = p THEN -1 ELSE 0)
                               + (IF dir /\ ~IsDir(s) /\ p # q /\ d = q THEN 1 ELSE 0)
      BY Zenon, <1>d
    <3> HIDE DEF M, N, R
    <3> QED BY ONLY <1>5, <2>1, <2>2, <3>1, <3>2, <3>4, <3>5, <3>6, <3>7, <3>8
  <2> QED BY Zenon, <2>4, <2>5
<1>21. Reached'
  BY Zenon, MovedReached
<1> QED BY Zenon, <1>16, <1>17, <1>18, <1>19, <1>20, <1>21 DEF Tables

\* rename and SecAFS::rename are such moves, as long as what they find is in the table.  A
\* file renamed to its own name is removed.
LEMMA RenameTables ==
  ASSUME Tables, NEW p, NEW n, NEW q, NEW r, Rename(p, n, q, r), ~strayed'
  PROVE  Tables'
<1>f. PICK from : from = <<p, n>>
  BY Zenon
<1>t. PICK to : to = <<q, r>>
  BY Zenon
<1>0. PICK found \in {dentry, Resolved} :
        /\ Parent(p) /\ Parent(q) /\ from \in DOMAIN found
        /\ found[from] \in DOMAIN mode /\ found[from] # Root
        /\ \E dir \in SeenDir(found[from]) :
             /\ dir => MayMove(found, from, to)
             /\ RenameFresh(found, from, to, dir) \/ RenameOver(found, from, to, dir)
             /\ drift' = Kept(Miscounted(found, from, to, dir))
        /\ strayed' = (strayed \/ Stray(found, from) \/ Stray(found, to))
        /\ lastIno' = lastIno
  BY Zenon, <1>f, <1>t DEF Rename
<1>s. PICK s : s = found[from]
  BY Zenon
<1>1. /\ from \in DOMAIN dentry /\ s = dentry[from] /\ s \in DOMAIN mode
      /\ from[1] = p /\ to[1] = q /\ lastIno' = lastIno /\ Parent(p) /\ Parent(q)
      /\ to \in DOMAIN found <=> to \in DOMAIN dentry
      /\ to \in DOMAIN found => found[to] = dentry[to]
  BY Zenon, <1>0, <1>f, <1>t, <1>s DEF Stray, Resolved
<1>2. PICK dir \in SeenDir(s) :
        /\ dir => from # to /\ q \notin Below(s)
        /\ RenameFresh(found, from, to, dir) \/ RenameOver(found, from, to, dir)
        /\ drift' = Kept(Miscounted(found, from, to, dir))
  BY Zenon, <1>0, <1>1, <1>s DEF MayMove
<1>3. dir \in BOOLEAN /\ (IsDir(s) => dir)
  BY Zenon DEF SeenDir, IsDir
<1>4. /\ DOMAIN nlink = DOMAIN mode /\ \A x \in DOMAIN mode : nlink[x] \in Int
      /\ DOMAIN drift = DOMAIN mode /\ \A x \in DOMAIN mode : drift[x] \in Int
  BY Zenon DEF Tables, NType
<1>5. /\ p \in DOMAIN mode /\ mode[p] = "dir" /\ q \in DOMAIN mode /\ mode[q] = "dir"
      /\ \A e \in DOMAIN dentry : mode[e[1]] = "dir"
  BY Zenon, <1>1, EntriesAre DEF Parent, IsDir
<1>d. ASSUME NEW D, D = {x \in DOMAIN mode : to \in DOMAIN dentry /\ x = dentry[to]},
             DOMAIN mode' \subseteq DOMAIN mode
      PROVE  /\ DOMAIN drift' = DOMAIN mode'
             /\ \A x \in DOMAIN mode' :
                  drift'[x] = drift[x] + (IF x = q /\ (\E d \in D : IsDir(d)) THEN 1 ELSE 0)
                                       + (IF dir /\ ~IsDir(s) /\ p # q /\ x = p THEN -1 ELSE 0)
                                       + (IF dir /\ ~IsDir(s) /\ p # q /\ x = q THEN 1 ELSE 0)
  <2> DEFINE R == \E d \in D : IsDir(d)
             over == to \in DOMAIN found /\ IsDir(found[to])
             base == IF over THEN AddLinks(drift, q, 1) ELSE drift
             m == Miscounted(found, from, to, dir)
  <2>1. over <=> R
    BY Zenon, <1>1, <1>d DEF IsDir
  <2>2. m = Reparented(base, dir /\ ~IsDir(s), p, q)
    BY Zenon, <1>1, <1>s DEF Miscounted
  <2>3. DOMAIN base = DOMAIN mode /\ \A x \in DOMAIN mode : base[x] = drift[x] + (IF x = q /\ R THEN 1 ELSE 0)
    <3> HIDE DEF R
    <3>1. CASE R
      BY <1>4, <2>1, <3>1 DEF AddLinks
    <3>2. CASE ~R
      BY <1>4, <2>1, <3>2
    <3> QED BY Zenon, <3>1, <3>2
  <2> HIDE DEF base, R
  <2>4. /\ DOMAIN m = DOMAIN mode
        /\ \A x \in DOMAIN mode :
             m[x] = base[x] + (IF dir /\ ~IsDir(s) /\ p # q /\ x = p THEN -1 ELSE 0)
                            + (IF dir /\ ~IsDir(s) /\ p # q /\ x = q THEN 1 ELSE 0)
    <3> HIDE DEF m
    <3>0. \A x \in DOMAIN mode : base[x] \in Int
      BY <1>4, <2>3
    <3>1. CASE dir /\ ~IsDir(s) /\ p # q
      <4>1. m = AddLinks(AddLinks(base, p, -1), q, 1)
        BY Zenon, <2>2, <3>1 DEF Reparented
      <4> QED BY <2>3, <3>0, <3>1, <4>1 DEF AddLinks
    <3>2. CASE ~(dir /\ ~IsDir(s) /\ p # q)
      <4>1. m = base
        BY Zenon, <2>2, <3>2 DEF Reparented
      <4> QED BY <2>3, <3>0, <3>2, <4>1
    <3> QED BY Zenon, <3>1, <3>2
  <2>5. drift' = [x \in DOMAIN mode' |-> IF x \in DOMAIN m THEN m[x] ELSE 0]
    BY Zenon, <1>2 DEF Kept
  <2> HIDE DEF m
  <2>6. DOMAIN drift' = DOMAIN mode' /\ \A x \in DOMAIN mode' : drift'[x] = m[x] /\ x \in DOMAIN mode
    BY Zenon, <1>d, <2>4, <2>5
  <2> QED BY Zenon, <2>3, <2>4, <2>6 DEF R
<1>6. CASE from = to
  <2>1. ~dir /\ ~IsDir(s) /\ RenameOver(found, from, from, dir) /\ found[from] = s
    BY Zenon, <1>1, <1>2, <1>3, <1>6, <1>s DEF RenameFresh
  <2>2. /\ dentry' = Moved(Drop(dentry, from), from, from)
        /\ DropInode(s, Reparented(AddLinks(nlink, s, -1), dir, p, p))
    BY Zenon, <1>1, <1>6, <1>f, <2>1 DEF RenameOver, Purge
  <2>3. /\ dentry' = Drop(dentry, from)
        /\ DropInode(s, AddLinks(nlink, s, -1))
    BY Zenon, <2>1, <2>2 DEF Moved, Drop, Reparented
  <2>4. /\ Entries(s) = {}
        /\ Miscounted(found, from, to, dir) = drift
    BY Zenon, <1>1, <1>5, <1>6, <1>s, <2>1 DEF Entries, IsDir, Miscounted, Reparented
  <2>5. dir = FALSE /\ FALSE = IsDir(s)
    BY Zenon, <1>3, <2>1 DEF IsDir
  <2>6. Removed(p, n, FALSE)
    BY Zenon, <1>1, <1>2, <1>f, <2>3, <2>4, <2>5 DEF Removed
  <2> QED BY Zenon, <2>6, RemovedTables
<1>7. CASE from # to /\ RenameFresh(found, from, to, dir)
  <2>1. /\ to \notin DOMAIN dentry /\ dentry' = Moved(dentry, from, to)
        /\ nlink' = Reparented(nlink, dir, p, q) /\ mode' = mode
    BY Zenon, <1>1, <1>7 DEF RenameFresh
  <2>2. /\ DOMAIN dentry' = (DOMAIN dentry \ {from}) \cup {to} /\ dentry'[to] = s
        /\ \A e \in DOMAIN dentry \ {from, to} : dentry'[e] = dentry[e]
    BY Zenon, <1>1, <1>7, <2>1 DEF Moved, Put, Drop
  <2>3. /\ DOMAIN nlink' = DOMAIN mode'
        /\ \A x \in DOMAIN mode' :
             nlink'[x] = IF dir /\ p # q /\ x = p THEN nlink[x] - 1
                         ELSE IF dir /\ p # q /\ x = q THEN nlink[x] + 1 ELSE nlink[x]
    BY Zenon, <1>4, <2>1 DEF Reparented, AddLinks
  <2>d. PICK D : D = {}
    BY Zenon
  <2>4. D = {x \in DOMAIN mode : to \in DOMAIN dentry /\ x = dentry[to]}
    BY Zenon, <2>1, <2>d
  <2>e. /\ DOMAIN drift' = DOMAIN mode'
        /\ \A x \in DOMAIN mode' :
             drift'[x] = drift[x] + (IF x = q /\ (\E d \in D : IsDir(d)) THEN 1 ELSE 0)
                                  + (IF dir /\ ~IsDir(s) /\ p # q /\ x = p THEN -1 ELSE 0)
                                  + (IF dir /\ ~IsDir(s) /\ p # q /\ x = q THEN 1 ELSE 0)
    BY Zenon, <1>d, <2>1, <2>4
  <2>f. \A x : x \notin D
    BY Zenon, <2>d
  <2>5. MovedOver(from, to, s, D, dir)
    BY Zenon, <1>1, <1>2, <1>3, <1>7, <2>1, <2>2, <2>3, <2>e, <2>f, <2>4 DEF MovedOver
  <2> QED BY Zenon, <1>3, <2>5, MovedTables
<1>8. CASE from # to /\ RenameOver(found, from, to, dir)
  <2>d. PICK d : d = dentry[to]
    BY Zenon
  <2> DEFINE links == Reparented(AddLinks(nlink, d, -1), dir, p, q)
  <2>1. /\ to \in DOMAIN dentry /\ d \in DOMAIN mode /\ dir \in SeenDir(d)
        /\ dir => Entries(d) = {}
        /\ dentry' = Moved(Drop(dentry, to), from, to) /\ DropInode(d, links)
    BY Zenon, <1>1, <1>8, <2>d DEF RenameOver, Purge
  <2>2. /\ DOMAIN dentry' = (DOMAIN dentry \ {from}) \cup {to} /\ dentry'[to] = s
        /\ \A e \in DOMAIN dentry \ {from, to} : dentry'[e] = dentry[e]
    BY Zenon, <1>1, <1>8, <2>1 DEF Moved, Put, Drop
  <2>3. (~dir => ~IsDir(d)) /\ Entries(d) = {}
    <3>1. ~dir => ~IsDir(d)
      BY Zenon, <2>1 DEF SeenDir, IsDir
    <3>2. ~IsDir(d) => Entries(d) = {}
      BY Zenon, <1>5, <2>1 DEF IsDir, Entries
    <3> QED BY Zenon, <2>1, <3>1, <3>2
  <2>4. p # d /\ q # d
    BY Zenon, <1>1, <2>1, <2>3 DEF Entries
  <2>5. /\ DOMAIN links = DOMAIN mode
        /\ \A x \in DOMAIN mode :
             links[x] = IF x = d THEN nlink[x] - 1
                        ELSE IF dir /\ p # q /\ x = p THEN nlink[x] - 1
                        ELSE IF dir /\ p # q /\ x = q THEN nlink[x] + 1 ELSE nlink[x]
    BY Zenon, <1>4, <2>4 DEF Reparented, AddLinks
  <2> HIDE DEF links
  <2>6. links[d] = 0 <=> nlink[d] = 1
    <3>1. links[d] = nlink[d] - 1 /\ nlink[d] \in Int
      BY Zenon, <1>4, <2>1, <2>5
    <3> QED BY ONLY <3>1
  <2>7. /\ \A x \in DOMAIN mode : x \in DOMAIN mode' <=> ~(x = d /\ nlink[x] = 1)
        /\ \A x \in DOMAIN mode' : x \in DOMAIN mode /\ mode'[x] = mode[x]
        /\ DOMAIN nlink' = DOMAIN mode'
        /\ \A x \in DOMAIN mode' : nlink'[x] = links[x]
    BY SMTT(60), <2>1, <2>5, <2>6 DEF DropInode, NoLinks, Drop
  <2>e. PICK D : D = {d}
    BY Zenon
  <2>8. D = {x \in DOMAIN mode : to \in DOMAIN dentry /\ x = dentry[to]}
    BY Zenon, <2>1, <2>d, <2>e
  <2>9. MovedOver(from, to, s, D, dir)
    <3>1. DOMAIN mode' \subseteq DOMAIN mode
      BY Zenon, <2>7
    <3>2. \A x : x \in D <=> x = d
      BY Zenon, <2>e
    <3>3. /\ DOMAIN drift' = DOMAIN mode'
          /\ \A x \in DOMAIN mode' :
               drift'[x] = drift[x] + (IF x = q /\ (\E y \in D : IsDir(y)) THEN 1 ELSE 0)
                                    + (IF dir /\ ~IsDir(s) /\ p # q /\ x = p THEN -1 ELSE 0)
                                    + (IF dir /\ ~IsDir(s) /\ p # q /\ x = q THEN 1 ELSE 0)
      BY Zenon, <1>d, <2>8, <3>1
    <3>4. /\ \A x \in DOMAIN mode : x \in DOMAIN mode' <=> ~(x \in D /\ nlink[x] = 1)
          /\ \A x \in DOMAIN mode' :
               nlink'[x] = IF x \in D THEN nlink[x] - 1
                           ELSE IF dir /\ p # q /\ x = p THEN nlink[x] - 1
                           ELSE IF dir /\ p # q /\ x = q THEN nlink[x] + 1 ELSE nlink[x]
      BY Zenon, <2>5, <2>7, <3>1, <3>2
    <3>5. /\ \A x \in D : Entries(x) = {}
          /\ ~dir => \A x \in D : ~IsDir(x)
      BY Zenon, <2>3, <3>2
    <3> QED BY ZenonT(60), <1>1, <1>2, <1>3, <1>8, <2>2, <2>7, <2>8, <3>3, <3>4, <3>5 DEF MovedOver
  <2> QED BY Zenon, <1>3, <2>9, MovedTables
<1> QED BY Zenon, <1>2, <1>6, <1>7, <1>8

-----------------------------------------------------------------------------
(* All steps.                                                              *)

\* Steps that leave inodes and entries alone.
LEMMA UnchangedTables ==
  ASSUME Tables, UNCHANGED <<mode, nlink, dentry, drift>>,
         lastIno' \in Nat, DOMAIN mode \subseteq 1 .. lastIno'
  PROVE  Tables'
<1>1. NType'
  BY Zenon DEF Tables, NType
<1>2. EntriesValid' /\ DirsNamedOnce' /\ FileLinks'
  <2>1. ASSUME NEW d
        PROVE  NamesOf(d)' = NamesOf(d) /\ Entries(d)' = Entries(d) /\ (IsDir(d)' <=> IsDir(d))
    BY Zenon DEF Entries, NamesOf, IsDir
  <2>2. EntriesValid'
    BY Zenon, <2>1 DEF Tables, EntriesValid, Root
  <2>3. DirsNamedOnce'
    BY Zenon, <2>1 DEF Tables, DirsNamedOnce, Root
  <2>4. FileLinks'
    BY Zenon, <2>1 DEF Tables, FileLinks
  <2> QED BY Zenon, <2>2, <2>3, <2>4
<1>4. DirLinks'
  <2>1. ASSUME NEW d PROVE SubDirs(d)' = SubDirs(d) /\ (Named(d)' <=> Named(d)) /\ (IsDir(d)' <=> IsDir(d))
    BY Zenon DEF SubDirs, Entries, Named, NamesOf, IsDir, Root
  <2> QED BY Zenon, <2>1 DEF Tables, DirLinks
<1>3. Reached'
  BY Zenon DEF Tables, Reached, Closed, Named, NamesOf, Root
<1> QED BY Zenon, <1>1, <1>2, <1>3, <1>4 DEF Tables

\* The tables are in order at the start.
LEMMA TablesInit == Init => Tables
<1> SUFFICES ASSUME Init PROVE Tables
  BY Zenon
<1>1. DOMAIN mode = {Root} /\ mode[Root] = "dir" /\ DOMAIN nlink = {Root} /\ nlink[Root] = 2
  BY Zenon DEF Init
<1>2. DOMAIN dentry = {} /\ lastIno = 1 /\ DOMAIN drift = {Root} /\ drift[Root] = 0
  BY Zenon DEF Init, Root
<1>3. NType
  <2>1. IsFiniteSet(DOMAIN dentry)
    BY Zenon, <1>2, FS_EmptySet
  <2>3. DOMAIN mode \subseteq 1 .. lastIno /\ lastIno \in Nat
    BY <1>1, <1>2 DEF Root
  <2>4. \A i \in DOMAIN mode : mode[i] \in Kind /\ nlink[i] \in Int /\ drift[i] \in Int
    BY <1>1, <1>2 DEF Kind
  <2> QED BY Zenon, <1>1, <1>2, <2>1, <2>3, <2>4 DEF NType
<1>4. EntriesValid /\ DirsNamedOnce /\ FileLinks
  BY Zenon, <1>1, <1>2 DEF EntriesValid, DirsNamedOnce, FileLinks, IsDir, NamesOf, Entries
<1>5. DirLinks
  <2>1. SubDirs(Root) = {} /\ Named(Root)
    BY Zenon, <1>2 DEF SubDirs, Entries, Named
  <2>2. Cardinality(SubDirs(Root)) = 0
    BY Zenon, <2>1, FS_EmptySet
  <2>3. nlink[Root] = Cardinality(SubDirs(Root)) + (IF Named(Root) THEN 2 ELSE 1) + drift[Root]
    BY <1>1, <1>2, <2>1, <2>2
  <2> QED BY Zenon, <1>1, <2>3 DEF DirLinks
<1>6. Reached
  BY Zenon, <1>1 DEF Reached
<1> QED BY Zenon, <1>3, <1>4, <1>5, <1>6 DEF Tables

\* Every step keeps them in order, unless a path operation strays.
LEMMA TablesStep == Tables /\ [Next]_vars /\ ~strayed' => Tables'
<1> SUFFICES ASSUME Tables, [Next]_vars, ~strayed' PROVE Tables'
  BY Zenon
<1>1. ASSUME NEW p, NEW n, CreateFile(p, n) \/ Mknod(p, n) \/ Symlink(p, n) \/ Mkdir(p, n)
      PROVE  Tables'
  <2>1. \E k \in Kind : Added(p, n, k)
    BY Zenon, <1>1 DEF CreateFile, Mknod, Symlink, Mkdir, NewEntry, Added, Kind
  <2> QED BY Zenon, <2>1, AddedTables
<1>2. ASSUME NEW p, NEW n, Unlink(p, n) \/ Rmdir(p, n) \/ Remove(p, n)
      PROVE  Tables'
  <2>1. \E dir \in BOOLEAN : Removed(p, n, dir)
    <3>1. CASE Unlink(p, n)
      <4>1. Entries(dentry[<<p, n>>]) = {}
        BY Zenon, <3>1, EntriesAre DEF Unlink, Entries, IsDir
      <4>2. FALSE = IsDir(dentry[<<p, n>>])
        BY Zenon, <3>1 DEF Unlink, IsDir
      <4>3. Removed(p, n, FALSE)
        BY Zenon, <3>1, <4>1, <4>2 DEF Unlink, Removed, Purge
      <4> QED BY Zenon, <4>3
    <3>2. CASE Rmdir(p, n)
      <4>1. TRUE = IsDir(dentry[<<p, n>>])
        BY Zenon, <3>2 DEF Rmdir, IsDir
      <4>2. Removed(p, n, TRUE)
        BY Zenon, <3>2, <4>1 DEF Rmdir, Removed
      <4> QED BY Zenon, <4>2
    <3>3. CASE Remove(p, n)
      <4>i. PICK i : i = dentry[<<p, n>>]
        BY Zenon
      <4>1. /\ <<p, n>> \in DOMAIN dentry /\ Resolved[<<p, n>>] = i /\ Entries(i) = {}
            /\ dentry' = Drop(dentry, <<p, n>>) /\ lastIno' = lastIno
        BY Zenon, <3>3, <4>i DEF Remove, Stray
      <4> DEFINE links(dir) == IF dir THEN AddLinks(AddLinks(nlink, i, -1), p, -1) ELSE AddLinks(nlink, i, -1)
                 d(dir) == IF dir # IsDir(i) THEN AddLinks(drift, p, -1) ELSE drift
      <4>2. PICK dir \in SeenDir(i) :
              /\ mode' = IF NoLinks(i, links(dir)) THEN Drop(mode, i) ELSE mode
              /\ nlink' = IF NoLinks(i, links(dir)) THEN Drop(links(dir), i) ELSE links(dir)
              /\ drift' = [x \in DOMAIN mode' |-> IF x \in DOMAIN d(dir) THEN d(dir)[x] ELSE 0]
        BY Zenon, <3>3, <4>1 DEF Remove, Purge, DropInode, Kept
      <4>3. dir \in BOOLEAN /\ (mode[i] # "symlink" => dir = IsDir(i))
        BY Zenon DEF SeenDir, IsDir
      <4>4. Removed(p, n, dir)
        BY Zenon, <4>i, <4>1, <4>2, <4>3 DEF Removed, DropInode, Kept
      <4> QED BY Zenon, <4>3, <4>4
    <3> QED BY Zenon, <1>2, <3>1, <3>2, <3>3
  <2> QED BY Zenon, <2>1, RemovedTables
<1>3. ASSUME NEW i, NEW q, NEW r, Link(i, q, r) PROVE Tables'
  BY Zenon, <1>3, LinkTables
<1>4. ASSUME NEW p, NEW n, NEW q, NEW r, Rename(p, n, q, r) PROVE Tables'
  BY Zenon, <1>4, RenameTables
<1>5. CASE \/ \E p, n : Lookup(p, n)
           \/ \E i : Open(i) \/ Write(i) \/ Close(i)
           \/ \E e : Evict(e)
           \/ UNCHANGED vars
  <2>1. UNCHANGED <<mode, nlink, dentry, drift, lastIno>>
    BY Zenon, <1>5 DEF Lookup, Open, Write, Close, Evict, vars, rows, history
  <2> QED BY Zenon, <2>1, UnchangedTables DEF Tables, NType
<1>6. CASE OtherMount \/ Restart
  <2>1. /\ UNCHANGED <<mode, nlink, dentry, drift>>
        /\ lastIno' \in DOMAIN mode /\ \A i \in DOMAIN mode : i <= lastIno'
    BY Zenon, <1>6 DEF OtherMount, Restart, Reset, rows, history
  <2>2. lastIno' \in Nat /\ DOMAIN mode \subseteq 1 .. lastIno'
    BY <2>1 DEF Tables, NType
  <2> QED BY Zenon, <2>1, <2>2, UnchangedTables
<1> QED BY Zenon, <1>1, <1>2, <1>3, <1>4, <1>5, <1>6 DEF Next

\* No step takes back that an operation strayed, so the tables were in order before.
LEMMA InOrderStep == InOrder /\ [Next]_vars => InOrder'
<1> SUFFICES ASSUME InOrder, [Next]_vars PROVE InOrder'
  BY Zenon
<1>1. strayed' \in BOOLEAN /\ (strayed => strayed')
  <2>1. ASSUME NEW p, NEW n, \/ CreateFile(p, n) \/ Mknod(p, n) \/ Symlink(p, n) \/ Mkdir(p, n)
                             \/ Unlink(p, n) \/ Rmdir(p, n) \/ Lookup(p, n)
        PROVE  strayed' = strayed
    BY Zenon, <2>1 DEF CreateFile, Mknod, Symlink, Mkdir, NewEntry, Unlink, Rmdir, Lookup, history
  <2>2. ASSUME NEW p, NEW n, Remove(p, n) PROVE strayed' \in BOOLEAN /\ (strayed => strayed')
    BY Zenon, <2>2 DEF Remove
  <2>3. ASSUME NEW p, NEW n, NEW q, NEW r, Rename(p, n, q, r)
        PROVE  strayed' \in BOOLEAN /\ (strayed => strayed')
    BY Zenon, <2>3 DEF Rename
  <2>4. ASSUME NEW i, NEW q, NEW r, Link(i, q, r) PROVE strayed' = strayed
    BY Zenon, <2>4 DEF Link, history
  <2>5. ASSUME NEW i, Open(i) \/ Write(i) \/ Close(i) \/ Evict(i) PROVE strayed' = strayed
    BY Zenon, <2>5 DEF Open, Write, Close, Evict, history
  <2>6. CASE OtherMount \/ Restart \/ UNCHANGED vars
    BY Zenon, <2>6 DEF OtherMount, Restart, Reset, vars, history, InOrder
  <2> QED BY Zenon, <2>1, <2>2, <2>3, <2>4, <2>5, <2>6 DEF Next, InOrder
<1> QED BY Zenon, <1>1, TablesStep DEF InOrder

\* The cache agrees with the entries after every step: whoever changes an entry changes
\* what is cached for it, and a rename that caches a name without a row is remembered.
LEMMA CacheStep == CacheCoherent /\ [Next]_vars => CacheCoherent'
<1> SUFFICES ASSUME CacheCoherent, [Next]_vars PROVE CacheCoherent'
  OBVIOUS
<1> USE DEF CacheCoherent
<1>1. ASSUME NEW k, NEW v, k \notin DOMAIN dentry, dentry' = Put(dentry, k, v), cache' = Put(cache, k, v),
             ghosts' = ghosts
      PROVE  CacheCoherent'
  BY Zenon, <1>1 DEF Put
<1>2. ASSUME NEW k, dentry' = Drop(dentry, k), cache' = Drop(cache, k), ghosts' = ghosts
      PROVE  CacheCoherent'
  BY Zenon, <1>2 DEF Drop
<1>3. ASSUME NEW p, NEW n, NEW q, NEW r, Rename(p, n, q, r) PROVE CacheCoherent'
  <2>f. PICK from : from = <<p, n>>
    BY Zenon
  <2>t. PICK to : to = <<q, r>>
    BY Zenon
  <2>1. PICK found \in {dentry, Resolved} :
          /\ from \in DOMAIN found
          /\ cache' = Put(Drop(cache, from), to, found[from])
          /\ \/ dentry' = Moved(dentry, from, to) /\ to \notin DOMAIN found
             \/ dentry' = Moved(Drop(dentry, to), from, to)
          /\ ghosts' = IF from = to \/ Stray(found, from) THEN ghosts \cup {to} ELSE ghosts
    BY Zenon, <1>3, <2>f, <2>t DEF Rename, RenameFresh, RenameOver, Renamed
  <2>2. /\ DOMAIN cache' = (DOMAIN cache \ {from}) \cup {to} /\ cache'[to] = found[from]
        /\ \A e \in DOMAIN cache \ {from, to} : cache'[e] = cache[e]
    BY Zenon, <2>1 DEF Put, Drop
  <2>3. \A e \in DOMAIN dentry \ {from, to} : e \in DOMAIN dentry' /\ dentry'[e] = dentry[e]
    BY Zenon, <2>1 DEF Moved, Put, Drop
  <2>4. from # to /\ ~Stray(found, from) => to \in DOMAIN dentry' /\ dentry'[to] = found[from]
    BY Zenon, <2>1 DEF Moved, Put, Drop, Stray
  <2>5. \A e \in ghosts : e \in ghosts'
    BY Zenon, <2>1
  <2>6. ASSUME NEW e \in DOMAIN cache'
        PROVE  e \in ghosts' \/ (e \in DOMAIN dentry' /\ cache'[e] = dentry'[e])
    <3>1. CASE e = to
      BY Zenon, <2>1, <2>2, <2>4, <3>1
    <3>2. CASE e # to
      BY Zenon, <2>2, <2>3, <2>5, <2>6, <3>2
    <3> QED BY Zenon, <3>1, <3>2
  <2> QED BY Zenon, <2>6
<1>4. ASSUME NEW p, NEW n, CreateFile(p, n) \/ Mknod(p, n) \/ Symlink(p, n) \/ Mkdir(p, n)
      PROVE  CacheCoherent'
  BY Zenon, <1>1, <1>4 DEF CreateFile, Mknod, Symlink, Mkdir, NewEntry
<1>5. ASSUME NEW p, NEW n, Unlink(p, n) \/ Rmdir(p, n) \/ Remove(p, n)
      PROVE  CacheCoherent'
  BY Zenon, <1>2, <1>5 DEF Unlink, Rmdir, Remove
<1>6. ASSUME NEW i, NEW q, NEW r, Link(i, q, r) PROVE CacheCoherent'
  BY Zenon, <1>1, <1>6 DEF Link, history
<1>7. ASSUME NEW p, NEW n, Lookup(p, n) PROVE CacheCoherent'
  BY Zenon, <1>7 DEF Lookup, Put, history
<1>8. ASSUME NEW e, Evict(e) PROVE CacheCoherent'
  BY Zenon, <1>8 DEF Evict, Drop, history
<1>9. CASE (\E i : Open(i) \/ Write(i) \/ Close(i)) \/ OtherMount \/ Restart \/ UNCHANGED vars
  BY Zenon, <1>9 DEF Open, Write, Close, OtherMount, Restart, Reset, rows, history, vars
<1> QED BY Zenon, <1>3, <1>4, <1>5, <1>6, <1>7, <1>8, <1>9 DEF Next

-----------------------------------------------------------------------------
(* Rows of deleted inodes.                                                 *)

\* The inductive invariant for RowsOwned: numbers in use were given out, and chunks of
\* what is no file were written late.
Rows ==
  /\ lastIno \in Nat /\ DOMAIN mode \subseteq 1 .. lastIno
  /\ RowsOwned
  /\ \A i \in data \cap DOMAIN mode : mode[i] = "file" \/ i \in late

\* All rows of an inode go, or none (unlink, remove, rename).
LEMMA PurgeRows ==
  ASSUME Rows, NEW i, NEW links, Purge(i, links), UNCHANGED <<lastIno, late>>
  PROVE  Rows'
<1>1. CASE NoLinks(i, links)
  <2>1. mode' = Drop(mode, i) /\ symlink' = symlink \ {i} /\ data' = data \ {i}
    BY Zenon, <1>1 DEF Purge, DropInode
  <2>2. DOMAIN mode' = DOMAIN mode \ {i} /\ \A x \in DOMAIN mode' : mode'[x] = mode[x]
    BY Zenon, <2>1 DEF Drop
  <2>3. symlink' = {x \in DOMAIN mode' : mode'[x] = "symlink"}
    BY Zenon, <2>1, <2>2 DEF Rows, RowsOwned
  <2> QED BY Zenon, <2>1, <2>2, <2>3 DEF Rows, RowsOwned
<1>2. CASE ~NoLinks(i, links)
  <2>1. mode' = mode /\ symlink' = symlink /\ data' = data
    BY Zenon, <1>2 DEF Purge, DropInode
  <2> QED BY Zenon, <2>1 DEF Rows, RowsOwned
<1> QED BY Zenon, <1>1, <1>2

\* Every step leaves only rows that have an inode, or were written late.
LEMMA RowsStep == Rows /\ [Next]_vars => Rows'
<1> SUFFICES ASSUME Rows, [Next]_vars PROVE Rows'
  BY Zenon
<1>1. ASSUME NEW p, NEW n, CreateFile(p, n) \/ Mknod(p, n) \/ Symlink(p, n) \/ Mkdir(p, n)
      PROVE  Rows'
  <2>i. PICK i : i = lastIno + 1
    BY Zenon
  <2>1. PICK k \in Kind :
          /\ mode' = Put(mode, i, k) /\ lastIno' = i /\ late' = late /\ data' = data
          /\ symlink' = IF k = "symlink" THEN symlink \cup {i} ELSE symlink
    BY Zenon, <1>1, <2>i DEF CreateFile, Mknod, Symlink, Mkdir, NewEntry, Kind
  <2>2. i \notin DOMAIN mode /\ lastIno' \in Nat /\ DOMAIN mode \cup {i} \subseteq 1 .. lastIno'
    BY <2>1, <2>i DEF Rows
  <2>3. /\ DOMAIN mode' = DOMAIN mode \cup {i} /\ mode'[i] = k
        /\ \A x \in DOMAIN mode : mode'[x] = mode[x]
    BY Zenon, <2>1, <2>2 DEF Put
  <2>4. symlink' = {x \in DOMAIN mode' : mode'[x] = "symlink"}
    BY Zenon, <2>1, <2>2, <2>3 DEF Rows, RowsOwned
  <2> QED BY Zenon, <2>1, <2>2, <2>3, <2>4 DEF Rows, RowsOwned
<1>2. ASSUME NEW p, NEW n, Unlink(p, n) \/ Remove(p, n) PROVE Rows'
  BY Zenon, <1>2, PurgeRows DEF Unlink, Remove
<1>3. ASSUME NEW p, NEW n, Rmdir(p, n) PROVE Rows'
  <2>i. PICK i : i = dentry[<<p, n>>]
    BY Zenon
  <2>1. /\ i \in DOMAIN mode /\ mode[i] = "dir" /\ UNCHANGED <<symlink, data, lastIno, late>>
        /\ mode' = mode \/ mode' = Drop(mode, i)
    BY Zenon, <1>3, <2>i DEF Rmdir, IsDir, DropInode
  <2>2. CASE mode' = mode
    BY Zenon, <2>1, <2>2 DEF Rows, RowsOwned
  <2>3. CASE mode' = Drop(mode, i)
    <3>1. DOMAIN mode' = DOMAIN mode \ {i} /\ \A x \in DOMAIN mode' : mode'[x] = mode[x]
      BY Zenon, <2>3 DEF Drop
    <3>2. symlink' = {x \in DOMAIN mode' : mode'[x] = "symlink"}
      BY <2>1, <3>1 DEF Rows, RowsOwned
    <3>3. data' \ DOMAIN mode' \subseteq late'
      BY <2>1, <3>1 DEF Rows, RowsOwned
    <3> QED BY Zenon, <2>1, <3>1, <3>2, <3>3 DEF Rows, RowsOwned
  <2> QED BY Zenon, <2>1, <2>2, <2>3
<1>4. ASSUME NEW p, NEW n, NEW q, NEW r, Rename(p, n, q, r) PROVE Rows'
  <2>1. /\ UNCHANGED <<lastIno, late>>
        /\ UNCHANGED <<mode, symlink, data>> \/ \E i, links : Purge(i, links)
    BY Zenon, <1>4 DEF Rename, RenameFresh, RenameOver
  <2>2. CASE UNCHANGED <<mode, symlink, data>>
    BY Zenon, <2>1, <2>2 DEF Rows, RowsOwned
  <2> QED BY Zenon, <2>1, <2>2, PurgeRows
<1>5. ASSUME NEW i, Write(i) PROVE Rows'
  BY Zenon, <1>5 DEF Write, Rows, RowsOwned
<1>6. CASE \/ \E p, n : Lookup(p, n)
           \/ \E i, q, r : Link(i, q, r)
           \/ \E i : Open(i) \/ Close(i)
           \/ \E e : Evict(e)
           \/ UNCHANGED vars
  <2>1. UNCHANGED <<mode, symlink, data, lastIno, late>>
    BY Zenon, <1>6 DEF Lookup, Link, Open, Close, Evict, vars, rows, history
  <2> QED BY Zenon, <2>1 DEF Rows, RowsOwned
<1>7. CASE OtherMount \/ Restart
  <2>1. /\ UNCHANGED <<mode, symlink, data, late>>
        /\ lastIno' \in DOMAIN mode /\ \A i \in DOMAIN mode : i <= lastIno'
    BY Zenon, <1>7 DEF OtherMount, Restart, Reset, rows, history
  <2>2. lastIno' \in Nat /\ DOMAIN mode \subseteq 1 .. lastIno'
    BY <2>1 DEF Rows
  <2> QED BY Zenon, <2>1, <2>2 DEF Rows, RowsOwned
<1> QED BY Zenon, <1>1, <1>2, <1>3, <1>4, <1>5, <1>6, <1>7 DEF Next

-----------------------------------------------------------------------------
\* The link count of a file or symlink is the number of its names, self-renames included,
\* until a path operation acts on a name that only the cache has (unlink, remove, rename).
THEOREM LinksStayCounted == Spec => []LinksCounted
<1>1. Init => InOrder
  BY Zenon, TablesInit DEF Init, InOrder
<1>2. InOrder => LinksCounted
  BY Zenon DEF InOrder, Tables, LinksCounted
<1> QED BY <1>1, <1>2, InOrderStep, PTL DEF Spec

\* Until then, the link count of a directory is what its name, itself and its
\* subdirectories give it, and what was miscounted (mkdir, rmdir, remove, rename).
THEOREM DirsStayLinked == Spec => []DirsLinked
<1>1. Init => InOrder
  BY Zenon, TablesInit DEF Init, InOrder
<1>2. InOrder => DirsLinked
  BY Zenon DEF InOrder, Tables, DirsLinked
<1> QED BY <1>1, <1>2, InOrderStep, PTL DEF Spec

\* Until then, the entries stay a tree: no rename detaches a subtree, no removal takes
\* entries along or leaves one without its inode.
THEOREM StaysATree == Spec => []Tree
<1>1. Init => InOrder
  BY Zenon, TablesInit DEF Init, InOrder
<1>2. InOrder => Tree
  BY Zenon, ReachedIs DEF InOrder, Tables, Tree
<1> QED BY <1>1, <1>2, InOrderStep, PTL DEF Spec

\* What the cache knows is what the table has, but for the names that a rename to itself
\* left (DentryCache, SecAFS::rename).
THEOREM CacheStaysCoherent == Spec => []CacheCoherent
<1>1. Init => CacheCoherent
  BY Zenon DEF Init, CacheCoherent
<1> QED BY <1>1, CacheStep, PTL DEF Spec

\* No rows of a deleted inode stay, but for chunks that a handle writes afterwards
\* (unlink, remove, rename, SecAFSFile::pwrite).
THEOREM RowsStayOwned == Spec => []RowsOwned
<1>1. Init => Rows
  <2> SUFFICES ASSUME Init PROVE Rows
    BY Zenon
  <2>1. DOMAIN mode = {1} /\ mode[1] = "dir" /\ lastIno = 1 /\ data = {} /\ symlink = {}
    BY Zenon DEF Init, Root
  <2>2. DOMAIN mode \subseteq 1 .. lastIno /\ lastIno \in Nat
    BY <2>1
  <2>3. {i \in DOMAIN mode : mode[i] = "symlink"} = {}
    BY <2>1
  <2> QED BY Zenon, <2>1, <2>2, <2>3 DEF Rows, RowsOwned
<1>2. Rows => RowsOwned
  BY Zenon DEF Rows
<1> QED BY <1>1, <1>2, RowsStep, PTL DEF Spec
=============================================================================
