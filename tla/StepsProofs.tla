---------------------------- MODULE StepsProofs ----------------------------
(***************************************************************************)
(* Proofs about NamespaceSteps, for any names, any number of inodes, any   *)
(* number of clients and any number of deaths: before a removal or rename  *)
(* overlaps another operation, nothing but the counts that a client died   *)
(* over is ever wrong.                                                     *)
(***************************************************************************)
EXTENDS NamespaceSteps, FiniteSetTheorems, TLAPS

\* A client that is not idle has the fields of an operation.
Wide(t) == {"at", "op", "p", "n", "ino"} \subseteq DOMAIN t

Shape == DOMAIN task = Client /\ \A c \in Client : task[c].at # "idle" => Wide(task[c])

\* The entry an operation is about.
Entry(c) == <<task[c].p, task[c].n>>

-----------------------------------------------------------------------------
(* Tasks.                                                                  *)

\* An operation goes on to its next statement.
LEMMA GoToIs ==
  ASSUME DOMAIN task = Client, NEW c \in Client, Wide(task[c]), NEW s, GoTo(c, s)
  PROVE  /\ DOMAIN task' = Client /\ Wide(task'[c])
         /\ task'[c].at = s /\ task'[c].op = task[c].op /\ task'[c].p = task[c].p
         /\ task'[c].n = task[c].n /\ task'[c].ino = task[c].ino
         /\ \A d \in Client : d # c => task'[d] = task[d]
<1>1. task'[c] = [task[c] EXCEPT !.at = s]
  BY Zenon DEF GoTo
<1>2. DOMAIN task' = Client /\ \A d \in Client : d # c => task'[d] = task[d]
  BY Zenon DEF GoTo
<1> QED BY Zenon, <1>1, <1>2 DEF Wide

\* An operation ends.
LEMMA DoneIs ==
  ASSUME DOMAIN task = Client, NEW c \in Client, Done(c)
  PROVE  /\ DOMAIN task' = Client /\ task'[c].at = "idle"
         /\ \A d \in Client : d # c => task'[d] = task[d]
BY Zenon DEF Done, Idle

\* An operation begins.
LEMMA SetIs ==
  ASSUME DOMAIN task = Client, NEW c \in Client, NEW t, task' = [task EXCEPT ![c] = t]
  PROVE  /\ DOMAIN task' = Client /\ task'[c] = t
         /\ \A d \in Client : d # c => task'[d] = task[d]
BY Zenon

-----------------------------------------------------------------------------
(* The invariant.                                                          *)

\* The tables.  An entry may name an inode whose row is gone; CrashSafe says which.
Forest ==
  /\ IsDir(Root)
  /\ \A e \in DOMAIN dentry : IsDir(e[1]) /\ dentry[e] \in Ino /\ dentry[e] # Root
  /\ \A e, f \in DOMAIN dentry : IsDir(dentry[e]) /\ dentry[e] = dentry[f] => e = f
  /\ \A d \in DOMAIN mode : IsDir(d) /\ ~Named(d) => Entries(d) = {}

Numbers ==
  /\ lastIno \in Nat /\ DOMAIN mode \subseteq Ino \cup {Root}
  /\ \A i \in DOMAIN mode : i <= lastIno
  /\ \A e \in DOMAIN dentry : dentry[e] <= lastIno
  /\ DOMAIN nlink = DOMAIN mode /\ \A i \in DOMAIN mode : nlink[i] \in Int
  /\ IsFiniteSet(DOMAIN dentry)
  /\ skew \in [Ino -> Int]
  /\ \A i \in Ino : IsDir(i) \/ i > lastIno => skew[i] = 0

\* The statements of the operations that add names, and of those that remove them.
Adding == {"create", "inode", "target", "entry", "links", "parent"}

Removing == {"uncount", "unparent", "check", "untarget", "rows"}

\* What an operation knows at each statement.
Knows(c) ==
  LET t == task[c] IN
  /\ t.at \in {"idle", "delete", "rename"} \cup Adding \cup Removing
  /\ t.at \in Adding => Parent(t.p) /\ t.op \notin Removal
  /\ t.at \in {"target", "entry", "links"} =>
       t.ino \in DOMAIN mode /\ t.ino # Root /\ (t.op = "mkdir" <=> IsDir(t.ino))
  /\ t.at = "target" => t.op = "symlink"
  /\ t.at = "entry" /\ t.op = "mkdir" => NamesOf(t.ino) = {}
  /\ t.at \in {"links", "parent"} => Entry(c) \in DOMAIN dentry /\ dentry[Entry(c)] = t.ino
  /\ t.at = "delete" =>
       Entry(c) \in DOMAIN dentry /\ dentry[Entry(c)] = t.ino /\ Entries(t.ino) = {}
  /\ t.at \in {"delete"} \cup Removing =>
       /\ t.op \in {"unlink", "rmdir"} /\ (t.op = "rmdir" <=> IsDir(t.ino))
       /\ t.ino \in Ino /\ t.ino # Root /\ IsDir(t.p)
  /\ t.at \in Removing /\ t.op = "rmdir" => NamesOf(t.ino) = {} /\ Entries(t.ino) = {}
  /\ t.at \in {"untarget", "rows"} => NoLinks(t.ino, nlink)
  /\ t.at = "rename" =>
       /\ t.op = "rename" /\ Parent(t.q) /\ t.ino \in DOMAIN mode /\ (t.dir <=> IsDir(t.ino))
       /\ Entry(c) \in DOMAIN dentry /\ dentry[Entry(c)] = t.ino
       /\ t.dir => Entry(c) # <<t.q, t.r>>

\* An operation that removes or moves a name is the only one.
Alone == \A c, d \in Client :
  c # d /\ task[c].at # "idle" /\ task[d].at # "idle" => task[c].op \notin Removal

\* Two links that are yet to be counted are of different names, and two new directories
\* that are yet to be named have different numbers.
Apart == \A c, d \in Client : c # d =>
  /\ task[c].at = "links" /\ task[d].at = "links" => Entry(c) # Entry(d)
  /\ task[c].at = "entry" /\ task[d].at = "entry" /\ task[c].op = "mkdir" /\ task[d].op = "mkdir" =>
       task[c].ino # task[d].ino

\* The names of an inode whose links are counted.
Linked(i) == {e \in NamesOf(i) : \A c \in Client : task[c].at = "links" => Entry(c) # e}

\* The link of a name that is gone and still counted.
Late(i) ==
  IF \E c \in Client : task[c].at = "uncount" /\ task[c].op = "unlink" /\ task[c].ino = i THEN 1 ELSE 0

\* The links that an inode should be counted.
Balance(i) == Cardinality(Linked(i)) + Late(i) + skew[i]

\* Counts are right, and nothing that should be counted has lost its row.
Counted == \A i \in Ino : i # Root /\ ~IsDir(i) =>
  IF i \in DOMAIN mode THEN nlink[i] = Balance(i) ELSE Balance(i) <= 0

\* The inductive invariant before a race.
Sound == Shape /\ Forest /\ Numbers /\ (\A c \in Client : Knows(c)) /\ Alone /\ Apart /\ Counted

-----------------------------------------------------------------------------
(* Steps that leave the tables alone.                                      *)

\* What the tables say is the same when they are.
LEMMA SameTables ==
  ASSUME UNCHANGED <<mode, dentry>>
  PROVE  \A i : /\ NamesOf(i)' = NamesOf(i) /\ Entries(i)' = Entries(i) /\ (IsDir(i)' <=> IsDir(i))
                /\ (Named(i)' <=> Named(i)) /\ (Parent(i)' <=> Parent(i))
<1>1. \A i : NamesOf(i)' = NamesOf(i) /\ Entries(i)' = Entries(i) /\ (IsDir(i)' <=> IsDir(i))
  BY Zenon DEF NamesOf, Entries, IsDir
<1>2. \A i : Named(i)' <=> Named(i)
  BY Zenon, <1>1 DEF Named, Root
<1> QED BY Zenon, <1>1, <1>2 DEF Parent

\* So is the tree.
LEMMA SameForest ==
  ASSUME Forest, UNCHANGED <<mode, dentry>>
  PROVE  Forest'
<1>1. \A i : /\ Entries(i)' = Entries(i) /\ (IsDir(i)' <=> IsDir(i)) /\ (Named(i)' <=> Named(i))
  BY Zenon, SameTables
<1> QED BY Zenon, <1>1 DEF Forest, Root, Ino

\* And what an operation knows, when no count changes.
LEMMA SameKnows ==
  ASSUME UNCHANGED <<mode, dentry, nlink>>, NEW d, task'[d] = task[d], Knows(d)
  PROVE  Knows(d)'
<1>1. \A i : /\ NamesOf(i)' = NamesOf(i) /\ Entries(i)' = Entries(i) /\ (IsDir(i)' <=> IsDir(i))
             /\ (Parent(i)' <=> Parent(i))
  BY Zenon, SameTables
<1>2. Entry(d)' = Entry(d)
  BY Zenon DEF Entry
<1>3. \A i : NoLinks(i, nlink)' <=> NoLinks(i, nlink)
  BY Zenon DEF NoLinks
<1> QED BY ZenonT(60), <1>1, <1>2, <1>3 DEF Knows, Root, Ino, Adding, Removing, Removal

\* A balance changes with the names, with what client c has yet to count, and with skew.
LEMMA SameBalance ==
  ASSUME NEW c \in Client, \A d \in Client : d # c => task'[d] = task[d], NEW x, NamesOf(x)' = NamesOf(x),
         task[c].at = "links" => Entry(c) \notin NamesOf(x),
         task'[c].at = "links" => Entry(c)' \notin NamesOf(x),
         ~(task[c].at = "uncount" /\ task[c].op = "unlink" /\ task[c].ino = x),
         ~(task'[c].at = "uncount" /\ task'[c].op = "unlink" /\ task'[c].ino = x),
         skew'[x] = skew[x]
  PROVE  Balance(x)' = Balance(x)
<1>1. \A d \in Client : d # c => Entry(d)' = Entry(d) /\ task'[d].at = task[d].at
  BY Zenon DEF Entry
<1>2. Linked(x)' = Linked(x)
  BY Zenon, <1>1 DEF Linked
<1>3. Late(x)' = Late(x)
  BY Zenon DEF Late
<1> QED BY Zenon, <1>2, <1>3 DEF Balance

\* Counts stay right when no kind of an inode changes.
LEMMA SameCounted ==
  ASSUME Counted, mode' = mode,
         \A x \in Ino : x # Root /\ ~IsDir(x) =>
           Balance(x)' = Balance(x) /\ (x \in DOMAIN mode => nlink'[x] = nlink[x])
  PROVE  Counted'
<1>1. \A x : IsDir(x)' <=> IsDir(x)
  BY Zenon DEF IsDir
<1> QED BY Zenon, <1>1 DEF Counted, Root, Ino

\* The numbers stay in order when nothing is added.
LEMMA SameNumbers ==
  ASSUME Numbers, UNCHANGED <<mode, dentry, lastIno, skew>>, DOMAIN nlink' = DOMAIN nlink,
         \A i \in DOMAIN nlink : nlink'[i] \in Int
  PROVE  Numbers'
BY Zenon DEF Numbers, Ino, Root, IsDir

-----------------------------------------------------------------------------
(* The invariant after a step of client c.                                 *)

\* An idle client knows nothing.
LEMMA IdleKnows ==
  ASSUME NEW d, task[d].at = "idle"
  PROVE  Knows(d)
BY DEF Knows, Adding, Removing

\* While c removes or moves a name the others are idle.
LEMMA OthersIdle ==
  ASSUME Sound, NEW c \in Client, task[c].at # "idle", task[c].op \in Removal
  PROVE  \A d \in Client : d # c => task[d].at = "idle"
BY Zenon DEF Sound, Alone

\* A client that removes or moves a name.
LEMMA RemovalAfter ==
  ASSUME Sound, NEW c \in Client, task[c].at # "idle", task[c].op \in Removal,
         DOMAIN task' = Client, \A d \in Client : d # c => task'[d] = task[d],
         task'[c].at # "idle" => Wide(task'[c]), Knows(c)', Forest', Numbers', Counted'
  PROVE  Sound'
<1>1. \A d \in Client : d # c => task'[d].at = "idle"
  BY Zenon, OthersIdle
<1>2. Shape'
  BY Zenon, <1>1 DEF Shape
<1>3. \A d \in Client : Knows(d)'
  <2> SUFFICES ASSUME NEW d \in Client, d # c PROVE Knows(d)'
    BY Zenon
  <2>1. task'[d].at = "idle"
    BY Zenon, <1>1
  <2> QED BY <2>1 DEF Knows, Adding, Removing
<1>4. Alone' /\ Apart'
  BY Zenon, <1>1 DEF Alone, Apart
<1> QED BY Zenon, <1>2, <1>3, <1>4 DEF Sound

\* Rows are only added.
Grows ==
  /\ \A i \in DOMAIN mode : i \in DOMAIN mode' /\ mode'[i] = mode[i]
  /\ \A e \in DOMAIN dentry : e \in DOMAIN dentry' /\ dentry'[e] = dentry[e]

\* What others add does not disturb an operation that adds a name.
LEMMA AddersGoOn ==
  ASSUME Forest, Grows, NEW d, Knows(d), task[d].at \in {"idle"} \cup Adding, task'[d] = task[d],
         task[d].at = "entry" /\ task[d].op = "mkdir" => NamesOf(task[d].ino)' = NamesOf(task[d].ino)
  PROVE  Knows(d)'
<1>1. \A i \in DOMAIN mode : IsDir(i)' <=> IsDir(i)
  BY Zenon DEF Grows, IsDir
<1>2. ASSUME NEW i, Parent(i) PROVE Parent(i)'
  <2>1. IsDir(i)'
    BY Zenon, <1>2 DEF Grows, Parent, IsDir
  <2>2. Named(i)'
    BY Zenon, <1>2 DEF Grows, Parent, Named, NamesOf, Root
  <2> QED BY Zenon, <2>1, <2>2 DEF Parent
<1>3. Entry(d)' = Entry(d)
  BY Zenon DEF Entry
<1>4. task[d].at \notin {"delete", "rename"} \cup Removing /\ task[d].at \notin {"untarget", "rows"}
  BY Zenon DEF Adding, Removing
<1>5. task[d].at \in {"links", "parent"} => Entry(d) \in DOMAIN dentry' /\ dentry'[Entry(d)] = task[d].ino
  BY Zenon DEF Knows, Grows
<1>6. task[d].at \in {"target", "entry", "links"} =>
        /\ task[d].ino \in DOMAIN mode' /\ task[d].ino # Root /\ (task[d].op = "mkdir" <=> IsDir(task[d].ino)')
  BY Zenon, <1>1 DEF Knows, Grows
<1> QED BY ZenonT(60), <1>2, <1>3, <1>4, <1>5, <1>6 DEF Knows, Root, Adding, Removing, Removal

\* While a client adds a name the others do, or are idle.
LEMMA OthersAdd ==
  ASSUME Sound, NEW c \in Client, task[c].at \in Adding, NEW d \in Client
  PROVE  task[d].at \in {"idle"} \cup Adding
<1>1. task[c].at # "idle" /\ task[c].op \notin Removal
  BY Zenon DEF Sound, Knows, Adding
<1>2. d # c /\ task[d].at # "idle" => task[d].op \notin Removal
  BY Zenon, <1>1 DEF Sound, Alone
<1>3. task[d].at \in {"idle", "delete", "rename"} \cup Adding \cup Removing
  BY Zenon DEF Sound, Knows
<1>4. task[d].at \in {"delete", "rename"} \cup Removing => task[d].op \in Removal
  BY Zenon DEF Sound, Knows, Removal
<1>5. "idle" \notin Removing
  BY Zenon DEF Removing
<1> QED BY Zenon, <1>2, <1>3, <1>4, <1>5

\* A client that adds a name.
LEMMA AddAfter ==
  ASSUME Sound, NEW c \in Client, task[c].at \in Adding, Grows,
         DOMAIN task' = Client, \A d \in Client : d # c => task'[d] = task[d],
         task'[c].at # "idle" => Wide(task'[c]) /\ task'[c].op = task[c].op,
         Knows(c)', Forest', Numbers', Counted',
         task'[c].at = "links" => Entry(c)' \notin DOMAIN dentry,
         task'[c].at = "entry" /\ task'[c].op = "mkdir" => task'[c].ino \notin DOMAIN mode,
         \A d \in Client : d # c /\ task[d].at = "entry" /\ task[d].op = "mkdir" =>
           NamesOf(task[d].ino)' = NamesOf(task[d].ino)
  PROVE  Sound'
<1>1. /\ Shape /\ Forest /\ Alone /\ Apart
      /\ \A d \in Client : Knows(d)
  BY Zenon DEF Sound
<1>2. task[c].at # "idle" /\ task[c].op \notin Removal
  BY Zenon, <1>1 DEF Knows, Adding
<1>3. \A d \in Client : task[d].at \in {"idle"} \cup Adding
  BY Zenon, OthersAdd
<1>4. \A d \in Client : Knows(d)'
  BY Zenon, <1>1, <1>3, AddersGoOn
<1>5. Shape'
  BY Zenon, <1>1 DEF Shape
<1>6. Alone'
  BY Zenon, <1>1, <1>2, <1>3 DEF Alone
<1>7. Apart'
  <2>1. \A d \in Client : d # c => Entry(d)' = Entry(d)
    BY Zenon DEF Entry
  <2>2. \A d \in Client : task[d].at = "links" => Entry(d) \in DOMAIN dentry
    BY Zenon, <1>1 DEF Knows
  <2>3. \A d \in Client : task[d].at = "entry" => task[d].ino \in DOMAIN mode
    BY Zenon, <1>1 DEF Knows
  <2> SUFFICES ASSUME NEW a \in Client, NEW b \in Client, a # b
               PROVE  /\ task'[a].at = "links" /\ task'[b].at = "links" => Entry(a)' # Entry(b)'
                      /\ task'[a].at = "entry" /\ task'[b].at = "entry"
                           /\ task'[a].op = "mkdir" /\ task'[b].op = "mkdir" =>
                           task'[a].ino # task'[b].ino
    BY Zenon DEF Apart
  <2>4. CASE a # c /\ b # c
    <3>1. task'[a] = task[a] /\ task'[b] = task[b] /\ Entry(a)' = Entry(a) /\ Entry(b)' = Entry(b)
      BY Zenon, <2>1, <2>4
    <3>2. /\ task[a].at = "links" /\ task[b].at = "links" => Entry(a) # Entry(b)
          /\ task[a].at = "entry" /\ task[b].at = "entry" /\ task[a].op = "mkdir" /\ task[b].op = "mkdir" =>
               task[a].ino # task[b].ino
      BY Zenon, <1>1 DEF Apart
    <3> QED BY Zenon, <3>1, <3>2
  <2>5. CASE a = c
    BY Zenon, <2>1, <2>2, <2>3, <2>5
  <2>6. CASE b = c
    BY Zenon, <2>1, <2>2, <2>3, <2>6
  <2> QED BY Zenon, <2>4, <2>5, <2>6
<1> QED BY Zenon, <1>4, <1>5, <1>6, <1>7 DEF Sound

\* A client that ends its operation knows nothing.
LEMMA DoneKnows ==
  ASSUME NEW d, task'[d].at = "idle"
  PROVE  Knows(d)'
BY DEF Knows, Adding, Removing

-----------------------------------------------------------------------------
(* Operations begin.                                                       *)

\* An operation begins that does not race.
LEMMA BeginStep ==
  ASSUME Sound, NEW c \in Client, NEW t, Begin(c, t), ~raced', Wide(t), Knows(c)',
         t.at \notin {"idle", "links", "uncount"}, t.at = "entry" => t.op # "mkdir"
  PROVE  Sound'
<1>1. /\ Shape /\ Forest /\ Numbers /\ Alone /\ Apart /\ Counted
      /\ \A d \in Client : Knows(d)
  BY Zenon DEF Sound
<1>2. UNCHANGED <<mode, dentry, nlink, lastIno, skew>> /\ task[c].at = "idle"
  BY Zenon DEF Begin, vars, rows, deaths, At
<1>3. DOMAIN task' = Client /\ task'[c] = t /\ \A d \in Client : d # c => task'[d] = task[d]
  BY Zenon, <1>1, SetIs DEF Begin, Shape
<1>4. Forest' /\ Numbers'
  BY Zenon, <1>1, <1>2, SameForest, SameNumbers DEF Numbers
<1>5. \A d \in Client : Knows(d)'
  BY Zenon, <1>1, <1>2, <1>3, SameKnows
<1>6. Shape'
  BY Zenon, <1>1, <1>3 DEF Shape
<1>7. Alone'
  <2>1. \A d \in Client : d # c /\ task[d].at # "idle" => t.op \notin Removal /\ task[d].op \notin Removal
    BY Zenon DEF Begin, At
  <2> QED BY Zenon, <1>1, <1>3, <2>1 DEF Alone
<1>8. Apart'
  <2>1. \A d \in Client : d # c => Entry(d)' = Entry(d)
    BY Zenon, <1>3 DEF Entry
  <2> SUFFICES ASSUME NEW a \in Client, NEW b \in Client, a # b
               PROVE  /\ task'[a].at = "links" /\ task'[b].at = "links" => Entry(a)' # Entry(b)'
                      /\ task'[a].at = "entry" /\ task'[b].at = "entry"
                           /\ task'[a].op = "mkdir" /\ task'[b].op = "mkdir" =>
                           task'[a].ino # task'[b].ino
    BY Zenon DEF Apart
  <2>2. CASE a # c /\ b # c
    <3>1. task'[a] = task[a] /\ task'[b] = task[b] /\ Entry(a)' = Entry(a) /\ Entry(b)' = Entry(b)
      BY Zenon, <1>3, <2>1, <2>2
    <3>2. /\ task[a].at = "links" /\ task[b].at = "links" => Entry(a) # Entry(b)
          /\ task[a].at = "entry" /\ task[b].at = "entry" /\ task[a].op = "mkdir" /\ task[b].op = "mkdir" =>
               task[a].ino # task[b].ino
      BY Zenon, <1>1 DEF Apart
    <3> QED BY Zenon, <3>1, <3>2
  <2>3. CASE a = c \/ b = c
    BY Zenon, <1>3, <2>3
  <2> QED BY Zenon, <2>2, <2>3
<1>9. Counted'
  <2>1. ASSUME NEW x PROVE Balance(x)' = Balance(x)
    <3>1. NamesOf(x)' = NamesOf(x) /\ skew'[x] = skew[x]
      BY Zenon, <1>2, SameTables
    <3> QED BY Zenon, <1>2, <1>3, <3>1, SameBalance
  <2> QED BY Zenon, <1>1, <1>2, <2>1, SameCounted
<1> QED BY Zenon, <1>4, <1>5, <1>6, <1>7, <1>8, <1>9 DEF Sound

\* Operations that add names.
LEMMA StartAdd ==
  ASSUME Sound, ~raced', NEW c \in Client, NEW p, NEW n,
         (\E op \in New : StartNew(c, op, p, n)) \/ (\E i \in Ino : StartLink(c, i, p, n))
  PROVE  Sound'
<1>1. CASE \E op \in New : StartNew(c, op, p, n)
  <2>1. PICK op \in New : StartNew(c, op, p, n)
    BY Zenon, <1>1
  <2>t. PICK t : t = [at |-> IF op = "create" THEN "create" ELSE "inode",
                      op |-> op, p |-> p, n |-> n, ino |-> 0]
    BY Zenon
  <2>2. Begin(c, t) /\ Parent(p)
    BY Zenon, <2>1, <2>t DEF StartNew
  <2>3. Wide(t) /\ t.at \in {"create", "inode"} /\ t.p = p /\ t.op = op
    BY Zenon, <2>t DEF Wide
  <2>4. op \notin Removal
    BY Zenon DEF New, Removal
  <2>5. task'[c] = t /\ UNCHANGED <<mode, dentry>>
    BY Zenon, <2>2, SetIs DEF Begin, Sound, Shape, vars, rows
  <2>6. Parent(p)'
    BY Zenon, <2>2, <2>5, SameTables
  <2>7. Knows(c)'
    BY <2>3, <2>4, <2>5, <2>6 DEF Knows, Adding, Removing
  <2> QED BY <2>2, <2>3, <2>7, BeginStep
<1>2. CASE \E i \in Ino : StartLink(c, i, p, n)
  <2>1. PICK i \in Ino : StartLink(c, i, p, n)
    BY Zenon, <1>2
  <2>t. PICK t : t = [at |-> "entry", op |-> "link", p |-> p, n |-> n, ino |-> i]
    BY Zenon
  <2>2. Begin(c, t) /\ Parent(p) /\ i \in DOMAIN mode /\ ~IsDir(i)
    BY Zenon, <2>1, <2>t DEF StartLink, IsDir
  <2>3. Wide(t) /\ t.at = "entry" /\ t.p = p /\ t.op = "link" /\ t.ino = i
    BY Zenon, <2>t DEF Wide
  <2>4. i # Root
    BY Zenon, <2>2 DEF Sound, Forest
  <2>5. task'[c] = t /\ UNCHANGED <<mode, dentry>>
    BY Zenon, <2>2, SetIs DEF Begin, Sound, Shape, vars, rows
  <2>6. Parent(p)' /\ i \in DOMAIN mode' /\ ~IsDir(i)'
    BY Zenon, <2>2, <2>5, SameTables
  <2>7. Knows(c)'
    BY <2>3, <2>4, <2>5, <2>6 DEF Knows, Adding, Removing, Removal, Root
  <2> QED BY <2>2, <2>3, <2>7, BeginStep
<1> QED BY Zenon, <1>1, <1>2

\* Operations that remove names.
LEMMA StartRemove ==
  ASSUME Sound, ~raced', NEW c \in Client, NEW p, NEW n, StartUnlink(c, p, n) \/ StartRmdir(c, p, n)
  PROVE  Sound'
<1>i. PICK i : i = dentry[<<p, n>>]
  BY Zenon
<1>e. PICK e : e = <<p, n>>
  BY Zenon
<1>p. e[1] = p
  BY Zenon, <1>e
<1>1. PICK op \in {"unlink", "rmdir"} :
        /\ StartRemoval(c, op, p, n) /\ e \in DOMAIN dentry /\ (op = "rmdir" <=> IsDir(i))
        /\ IsDir(i) => Entries(i) = {}
  BY Zenon, <1>i, <1>e DEF StartUnlink, StartRmdir
<1>t. PICK t : t = [at |-> "delete", op |-> op, p |-> p, n |-> n, ino |-> i]
  BY Zenon
<1>2. Begin(c, t)
  BY Zenon, <1>1, <1>t, <1>i DEF StartRemoval
<1>3. Wide(t) /\ t.at = "delete" /\ t.p = p /\ t.n = n /\ t.op = op /\ t.ino = i
  BY Zenon, <1>t DEF Wide
<1>4. IsDir(p) /\ i \in Ino /\ i # Root /\ dentry[e] = i
  BY Zenon, <1>1, <1>e, <1>i, <1>p DEF Sound, Forest
<1>5. Entries(i) = {}
  BY Zenon, <1>1 DEF Sound, Forest, Entries
<1>6. task'[c] = t /\ UNCHANGED <<mode, dentry>>
  BY Zenon, <1>2, SetIs DEF Begin, Sound, Shape, vars, rows
<1>7. IsDir(p)' /\ (op = "rmdir" <=> IsDir(i)') /\ Entries(i)' = {} /\ e \in DOMAIN dentry' /\ dentry'[e] = i
  BY Zenon, <1>1, <1>4, <1>5, <1>6, SameTables
<1>8. Entry(c)' = e
  BY Zenon, <1>3, <1>6, <1>e DEF Entry
<1>9. Knows(c)'
  BY <1>1, <1>3, <1>4, <1>6, <1>7, <1>8 DEF Knows, Adding, Removing, Root, Ino
<1> QED BY <1>2, <1>3, <1>9, BeginStep

\* An operation that moves a name.
LEMMA StartMove ==
  ASSUME Sound, ~raced', NEW c \in Client, NEW p, NEW n, NEW q, NEW r, StartRename(c, p, n, q, r)
  PROVE  Sound'
<1>i. PICK i : i = dentry[<<p, n>>]
  BY Zenon
<1>e. PICK e : e = <<p, n>>
  BY Zenon
<1>p. e[1] = p
  BY Zenon, <1>e
<1>b. PICK b : b = IsDir(i)
  BY Zenon
<1>t. PICK t : t = [at |-> "rename", op |-> "rename", p |-> p, n |-> n, q |-> q, r |-> r,
                    ino |-> i, dir |-> b]
  BY Zenon
<1>1. Begin(c, t) /\ e \in DOMAIN dentry /\ dentry[e] = i /\ i \in DOMAIN mode /\ Parent(q)
      /\ (IsDir(i) => e # <<q, r>>)
  BY Zenon, <1>t, <1>i, <1>e, <1>b DEF StartRename, MayMove
<1>3. /\ Wide(t) /\ t.at = "rename" /\ t.p = p /\ t.n = n /\ t.op = "rename" /\ t.ino = i
      /\ t.q = q /\ t.r = r /\ t.dir = b
  BY Zenon, <1>t DEF Wide
<1>4. i \in Ino /\ i # Root /\ dentry[e] = i
  BY Zenon, <1>1, <1>e, <1>i, <1>p DEF Sound, Forest
<1>6. task'[c] = t /\ UNCHANGED <<mode, dentry>>
  BY Zenon, <1>1, SetIs DEF Begin, Sound, Shape, vars, rows
<1>7. Parent(q)' /\ (b <=> IsDir(i)') /\ e \in DOMAIN dentry' /\ dentry'[e] = i /\ i \in DOMAIN mode'
  BY Zenon, <1>1, <1>4, <1>6, <1>b, SameTables
<1>8. Entry(c)' = e
  BY Zenon, <1>3, <1>6, <1>e DEF Entry
<1>9. Knows(c)'
  BY Zenon, <1>1, <1>3, <1>4, <1>6, <1>7, <1>8, <1>b DEF Knows, Adding, Removing
<1> QED BY <1>1, <1>3, <1>9, BeginStep

-----------------------------------------------------------------------------
(* Names are added.                                                        *)

\* While names are added no count is late.
LEMMA NoneLate ==
  ASSUME Sound, NEW c \in Client, task[c].at \in Adding, \A d \in Client : d # c => task'[d] = task[d],
         task'[c].at # "uncount", NEW x
  PROVE  Late(x) = 0 /\ Late(x)' = 0
<1>1. \A d \in Client : task[d].at # "uncount"
  BY Zenon, OthersAdd DEF Adding
<1>2. \A d \in Client : task'[d].at # "uncount"
  BY Zenon, <1>1
<1> QED BY Zenon, <1>1, <1>2 DEF Late

\* A number that was never given out has no names, and nothing to count.
LEMMA NewBalance ==
  ASSUME Sound, NEW i \in Ino, i > lastIno, Late(i) = 0
  PROVE  NamesOf(i) = {} /\ Entries(i) = {} /\ Balance(i) = 0 /\ skew[i] = 0 /\ i \notin DOMAIN mode /\ i # Root
<1>1. Forest /\ Numbers
  BY Zenon DEF Sound
<1>2. i \notin DOMAIN mode /\ NamesOf(i) = {} /\ skew[i] = 0
  BY <1>1 DEF Numbers, NamesOf, Ino, Forest
<1>3. i # Root /\ Entries(i) = {}
  BY Zenon, <1>1, <1>2 DEF Forest, Entries, IsDir
<1>4. Linked(i) = {}
  BY Zenon, <1>2 DEF Linked
<1>5. Cardinality(Linked(i)) = 0
  BY Zenon, <1>4, FS_EmptySet
<1> QED BY <1>2, <1>3, <1>5 DEF Balance

\* What an operation that adds a name knows after a statement.
LEMMA KnowsAdding ==
  ASSUME NEW c, NEW p, p = task'[c].p, NEW i, i = task'[c].ino, NEW e, e = Entry(c)',
         Parent(p)', task'[c].op \notin Removal, task'[c].at \in {"target", "entry", "links", "parent"},
         task'[c].at # "parent" => i \in DOMAIN mode' /\ i # Root /\ (task'[c].op = "mkdir" <=> IsDir(i)'),
         task'[c].at = "target" => task'[c].op = "symlink",
         task'[c].at = "entry" /\ task'[c].op = "mkdir" => NamesOf(i)' = {},
         task'[c].at \in {"links", "parent"} => e \in DOMAIN dentry' /\ dentry'[e] = i
  PROVE  Knows(c)'
<1>1. /\ task'[c].at \in Adding /\ task'[c].at \notin Removing
      /\ task'[c].at \notin {"delete"} \cup Removing /\ task'[c].at \notin {"untarget", "rows"}
      /\ task'[c].at # "delete" /\ task'[c].at # "rename"
      /\ task'[c].at \in {"idle", "delete", "rename"} \cup Adding \cup Removing
      /\ task'[c].at \in {"target", "entry", "links"} => task'[c].at # "parent"
  BY DEF Adding, Removing
<1> QED BY Zenon, <1>1 DEF Knows, Root

\* INSERT INTO fs_inode
LEMMA InsertInodeStep ==
  ASSUME Sound, NEW c \in Client, InsertInode(c)
  PROVE  Sound'
<1>i. PICK i : i = lastIno + 1
  BY Zenon
<1>1. /\ DOMAIN task = Client /\ Forest /\ Numbers /\ Knows(c) /\ Counted
      /\ task[c].at # "idle" => Wide(task[c])
  BY Zenon DEF Sound, Shape
<1>2. task[c].at = "inode" /\ Wide(task[c]) /\ Parent(task[c].p) /\ task[c].op \notin Removal
  BY <1>1 DEF InsertInode, At, Knows, Adding
<1>3. task[c].at \in Adding
  BY Zenon, <1>2 DEF Adding
<1>4. PICK k : mode' = Put(mode, i, k) /\ (k = "dir" <=> task[c].op = "mkdir")
  <2> DEFINE k == CASE task[c].op = "mkdir" -> "dir"
                    [] task[c].op = "symlink" -> "symlink"
                    [] OTHER -> "file"
  <2>1. mode' = Put(mode, i, k)
    BY Zenon, <1>i DEF InsertInode
  <2>2. k = "dir" <=> task[c].op = "mkdir"
    BY Zenon
  <2> QED BY Zenon, <2>1, <2>2
<1>5. /\ nlink' = Put(nlink, i, 0) /\ lastIno' = i /\ dentry' = dentry /\ skew' = skew
      /\ i \in Ino /\ i > lastIno /\ i \in Nat /\ lastIno \in Nat
  BY <1>1, <1>i DEF InsertInode, Numbers, deaths, Ino
<1>6. /\ DOMAIN task' = Client /\ \A d \in Client : d # c => task'[d] = task[d]
      /\ task'[c] = [task[c] EXCEPT !.at = IF task[c].op = "symlink" THEN "target" ELSE "entry", !.ino = i]
  BY Zenon, <1>1, <1>i DEF InsertInode
<1>7. /\ task'[c].at \in {"target", "entry"} /\ task'[c].ino = i
      /\ task'[c].at = "target" => task[c].op = "symlink"
      /\ task'[c].op = task[c].op /\ task'[c].p = task[c].p /\ Wide(task'[c])
  BY Zenon, <1>2, <1>6 DEF Wide
<1>8. \A x : Late(x) = 0 /\ Late(x)' = 0
  BY Zenon, <1>3, <1>6, <1>7, NoneLate
<1>9. NamesOf(i) = {} /\ Entries(i) = {} /\ Balance(i) = 0 /\ skew[i] = 0 /\ i \notin DOMAIN mode /\ i # Root
  BY Zenon, <1>5, <1>8, NewBalance
<1>10. /\ DOMAIN mode' = DOMAIN mode \cup {i} /\ mode'[i] = k
       /\ \A x \in DOMAIN mode : mode'[x] = mode[x]
  BY Zenon, <1>4, <1>9 DEF Put
<1>11. DOMAIN nlink' = DOMAIN mode' /\ nlink'[i] = 0 /\ \A x \in DOMAIN mode : nlink'[x] = nlink[x]
  BY Zenon, <1>1, <1>5, <1>9, <1>10 DEF Put, Numbers
<1>12. \A x : /\ NamesOf(x)' = NamesOf(x) /\ Entries(x)' = Entries(x) /\ (Named(x)' <=> Named(x))
              /\ x # i => (IsDir(x)' <=> IsDir(x))
              /\ IsDir(x) => x # i
  BY Zenon, <1>5, <1>9, <1>10 DEF NamesOf, Entries, Named, IsDir, Root
<1>13. Grows
  BY Zenon, <1>5, <1>10 DEF Grows
<1>14. Forest'
  <2>1. IsDir(Root)' /\ \A e \in DOMAIN dentry' : IsDir(e[1])' /\ dentry'[e] \in Ino /\ dentry'[e] # Root
    BY Zenon, <1>1, <1>5, <1>12 DEF Forest
  <2>2. (\A e, f \in DOMAIN dentry : IsDir(dentry[e]) /\ dentry[e] = dentry[f] => e = f)'
    <3> SUFFICES ASSUME NEW e \in DOMAIN dentry, NEW f \in DOMAIN dentry, NEW x, x = dentry[e], dentry[f] = x, IsDir(x)'
                 PROVE  e = f
      BY Zenon, <1>5
    <3>1. x # i
      BY Zenon, <1>9 DEF NamesOf
    <3> QED BY Zenon, <1>1, <1>12, <3>1 DEF Forest
  <2>3. \A d \in DOMAIN mode' : IsDir(d)' /\ ~Named(d)' => Entries(d)' = {}
    BY Zenon, <1>1, <1>9, <1>10, <1>12 DEF Forest
  <2> QED BY Zenon, <2>1, <2>2, <2>3 DEF Forest, Root, Ino
<1>15. Numbers'
  <2>1. DOMAIN mode' \subseteq Ino \cup {Root} /\ \A x \in DOMAIN nlink' : nlink'[x] \in Int
    BY <1>1, <1>5, <1>10, <1>11 DEF Numbers
  <2>2. (\A x \in DOMAIN mode' : x <= lastIno') /\ \A e \in DOMAIN dentry' : dentry'[e] <= lastIno'
    BY <1>1, <1>5, <1>10 DEF Numbers, Ino, Root, Forest
  <2>3. \A x \in Ino : IsDir(x)' \/ x > lastIno' => skew'[x] = 0
    BY <1>1, <1>5, <1>9, <1>12 DEF Numbers, Ino
  <2> QED BY Zenon, <1>1, <1>5, <1>11, <2>1, <2>2, <2>3 DEF Numbers, Root, Ino
<1>16. Knows(c)'
  <2>p. PICK p : p = task[c].p
    BY Zenon
  <2>1. Parent(p)'
    BY Zenon, <1>2, <1>12, <2>p DEF Parent
  <2>2. i \in DOMAIN mode' /\ (task[c].op = "mkdir" <=> IsDir(i)') /\ NamesOf(i)' = {}
    BY Zenon, <1>4, <1>9, <1>10, <1>12 DEF IsDir
  <2>e. PICK e : e = Entry(c)'
    BY Zenon
  <2>3. p = task'[c].p /\ i = task'[c].ino /\ task'[c].op \notin Removal
    BY Zenon, <1>2, <1>7, <2>p
  <2>4. task'[c].at \in {"target", "entry", "links", "parent"} /\ task'[c].at \notin {"links", "parent"}
    BY <1>7
  <2>5. /\ task'[c].at # "parent" => i \in DOMAIN mode' /\ i # Root /\ (task'[c].op = "mkdir" <=> IsDir(i)')
        /\ task'[c].at = "target" => task'[c].op = "symlink"
        /\ task'[c].at = "entry" /\ task'[c].op = "mkdir" => NamesOf(i)' = {}
        /\ task'[c].at \in {"links", "parent"} => e \in DOMAIN dentry' /\ dentry'[e] = i
    <3>1. task'[c].op = task[c].op /\ (task'[c].at = "target" => task[c].op = "symlink")
      BY Zenon, <1>7
    <3>2. i # Root
      BY Zenon, <1>9
    <3> QED BY Zenon, <2>2, <2>4, <3>1, <3>2
  <2> QED BY Zenon, <2>1, <2>3, <2>4, <2>5, <2>e, KnowsAdding
<1>17. Counted'
  <2>1. \A x : Balance(x)' = Balance(x)
    <3> SUFFICES ASSUME NEW x PROVE Balance(x)' = Balance(x)
      BY Zenon
    <3>1. NamesOf(x)' = NamesOf(x) /\ skew'[x] = skew[x]
      BY Zenon, <1>5, <1>12
    <3> QED BY Zenon, <1>2, <1>6, <1>7, <3>1, SameBalance
  <2>2. \A x \in Ino : x # Root /\ ~IsDir(x)' =>
          IF x \in DOMAIN mode' THEN nlink'[x] = Balance(x)' ELSE Balance(x)' <= 0
    BY Zenon, <1>1, <1>9, <1>10, <1>11, <1>12, <2>1 DEF Counted
  <2> QED BY Zenon, <2>2 DEF Counted, Root, Ino
<1>18. \A d \in Client : d # c => NamesOf(task[d].ino)' = NamesOf(task[d].ino)
  BY Zenon, <1>5, <1>6 DEF NamesOf
<1> QED BY Zenon, <1>3, <1>6, <1>7, <1>9, <1>13, <1>14, <1>15, <1>16, <1>17, <1>18, AddAfter

\* Statements that only count.
LEMMA AddSame ==
  ASSUME Sound, NEW c \in Client, task[c].at \in Adding, UNCHANGED <<mode, dentry, lastIno, skew>>,
         DOMAIN nlink' = DOMAIN nlink, \A i \in DOMAIN nlink : nlink'[i] \in Int,
         DOMAIN task' = Client, \A d \in Client : d # c => task'[d] = task[d],
         task'[c].at # "idle" => Wide(task'[c]) /\ task'[c].op = task[c].op,
         Knows(c)', Counted', task'[c].at # "links", task'[c].at = "entry" => task'[c].op # "mkdir"
  PROVE  Sound'
<1>1. Forest' /\ Numbers'
  BY Zenon, SameForest, SameNumbers DEF Sound
<1>2. Grows
  BY Zenon DEF Grows
<1>3. \A d \in Client : d # c => NamesOf(task[d].ino)' = NamesOf(task[d].ino)
  BY Zenon DEF NamesOf
<1> QED BY Zenon, <1>1, <1>2, <1>3, AddAfter

\* The last statement of an operation.
LEMMA AddDone ==
  ASSUME Sound, NEW c \in Client, task[c].at \in Adding, UNCHANGED <<mode, dentry, lastIno, skew>>,
         DOMAIN nlink' = DOMAIN nlink, \A i \in DOMAIN nlink : nlink'[i] \in Int,
         Done(c), Counted'
  PROVE  Sound'
<1>1. DOMAIN task' = Client /\ task'[c].at = "idle" /\ \A d \in Client : d # c => task'[d] = task[d]
  BY Zenon, DoneIs DEF Sound, Shape
<1>2. Knows(c)'
  BY Zenon, <1>1, DoneKnows
<1> QED BY Zenon, <1>1, <1>2, AddSame

\* INSERT INTO fs_symlink
LEMMA InsertTargetStep ==
  ASSUME Sound, NEW c \in Client, InsertTarget(c)
  PROVE  Sound'
<1>1. /\ DOMAIN task = Client /\ Numbers /\ Knows(c) /\ Counted
      /\ task[c].at # "idle" => Wide(task[c])
  BY Zenon DEF Sound, Shape
<1>2. task[c].at = "target" /\ GoTo(c, "entry") /\ UNCHANGED <<mode, nlink, dentry, lastIno, skew>>
  BY Zenon DEF InsertTarget, At, deaths
<1>3. task[c].at \in Adding /\ Wide(task[c]) /\ task[c].op = "symlink"
  BY Zenon, <1>1, <1>2 DEF Knows, Adding
<1>p. PICK p, i : p = task[c].p /\ i = task[c].ino
  BY Zenon
<1>4. /\ DOMAIN task' = Client /\ Wide(task'[c])
      /\ task'[c].at = "entry" /\ task'[c].op = task[c].op /\ p = task'[c].p /\ i = task'[c].ino
      /\ \A d \in Client : d # c => task'[d] = task[d]
  BY Zenon, <1>1, <1>2, <1>3, <1>p, GoToIs
<1>5. Parent(p) /\ task[c].op \notin Removal /\ i \in DOMAIN mode /\ i # Root /\ ~IsDir(i)
  BY Zenon, <1>1, <1>2, <1>3, <1>p DEF Knows
<1>6. Parent(p)' /\ i \in DOMAIN mode' /\ ~IsDir(i)'
  BY Zenon, <1>2, <1>5, SameTables
<1>7. task'[c].op = "symlink" /\ task'[c].op # "mkdir" /\ task'[c].at # "links" /\ task'[c].at # "parent"
      /\ task'[c].at # "target"
  BY <1>3, <1>4
<1>8. Knows(c)'
  <2>e. PICK e : e = Entry(c)'
    BY Zenon
  <2>1. task'[c].at \in {"target", "entry", "links", "parent"} /\ task'[c].at \notin {"links", "parent"}
    BY <1>4
  <2> QED BY Zenon, <1>4, <1>5, <1>6, <1>7, <2>1, <2>e, KnowsAdding
<1>9. Counted'
  <2>1. ASSUME NEW x PROVE Balance(x)' = Balance(x)
    <3>1. NamesOf(x)' = NamesOf(x) /\ skew'[x] = skew[x]
      BY Zenon, <1>2, SameTables
    <3> QED BY <1>2, <1>4, <3>1, SameBalance
  <2> QED BY Zenon, <1>1, <1>2, <2>1, SameCounted
<1>10. DOMAIN nlink' = DOMAIN nlink /\ \A x \in DOMAIN nlink : nlink'[x] \in Int
  BY Zenon, <1>1, <1>2 DEF Numbers
<1> QED BY Zenon, <1>2, <1>3, <1>4, <1>7, <1>8, <1>9, <1>10, AddSame

\* UPDATE fs_inode SET nlink = 2
LEMMA CountDirStep ==
  ASSUME Sound, NEW c \in Client, CountDir(c)
  PROVE  Sound'
<1>1. /\ DOMAIN task = Client /\ Numbers /\ Knows(c) /\ Counted
      /\ task[c].at # "idle" => Wide(task[c])
  BY Zenon DEF Sound, Shape
<1>p. PICK p, i, e : p = task[c].p /\ i = task[c].ino /\ e = Entry(c)
  BY Zenon
<1>2. /\ task[c].at = "links" /\ GoTo(c, "parent") /\ UNCHANGED <<mode, dentry, lastIno, skew>>
      /\ task[c].op = "mkdir" /\ nlink' = [x \in DOMAIN nlink |-> IF x = i THEN 2 ELSE nlink[x]]
  BY Zenon, <1>p DEF CountDir, At, deaths
<1>3. task[c].at \in Adding /\ Wide(task[c])
  BY Zenon, <1>1, <1>2 DEF Adding
<1>4. /\ DOMAIN task' = Client /\ Wide(task'[c])
      /\ task'[c].at = "parent" /\ task'[c].op = task[c].op /\ p = task'[c].p /\ i = task'[c].ino
      /\ task'[c].n = task[c].n
      /\ \A d \in Client : d # c => task'[d] = task[d]
  BY Zenon, <1>1, <1>2, <1>3, <1>p, GoToIs
<1>5. /\ Parent(p) /\ task[c].op \notin Removal /\ i \in DOMAIN mode /\ i # Root /\ IsDir(i)
      /\ e \in DOMAIN dentry /\ dentry[e] = i
  BY Zenon, <1>1, <1>2, <1>3, <1>p DEF Knows
<1>6. Parent(p)' /\ e \in DOMAIN dentry' /\ dentry'[e] = i /\ e = Entry(c)'
  BY Zenon, <1>2, <1>4, <1>5, <1>p, SameTables DEF Entry
<1>7. task'[c].at # "links" /\ task'[c].at # "entry" /\ task'[c].at # "target" /\ task'[c].at # "uncount"
      /\ task'[c].at \in {"target", "entry", "links", "parent"}
  BY <1>4
<1>8. Knows(c)'
  BY Zenon, <1>4, <1>5, <1>6, <1>7, KnowsAdding
<1>9. DOMAIN nlink' = DOMAIN nlink /\ (\A x \in DOMAIN nlink : nlink'[x] \in Int)
      /\ \A x \in DOMAIN nlink : x # i => nlink'[x] = nlink[x]
  BY <1>1, <1>2 DEF Numbers
<1>10. Counted'
  <2>1. ASSUME NEW x, ~IsDir(x) PROVE Balance(x)' = Balance(x)
    <3>1. NamesOf(x)' = NamesOf(x) /\ skew'[x] = skew[x]
      BY Zenon, <1>2, SameTables
    <3>2. Entry(c) \notin NamesOf(x)
      BY Zenon, <1>5, <1>p, <2>1 DEF NamesOf
    <3>3. task[c].at # "uncount"
      BY <1>2
    <3> QED BY Zenon, <1>4, <1>7, <3>1, <3>2, <3>3, SameBalance
  <2>2. DOMAIN nlink = DOMAIN mode /\ mode' = mode
    BY Zenon, <1>1, <1>2 DEF Numbers
  <2> QED BY Zenon, <1>1, <1>5, <1>9, <2>1, <2>2, SameCounted
<1> QED BY Zenon, <1>2, <1>3, <1>4, <1>7, <1>8, <1>9, <1>10, AddSame

\* The parent of a new directory.
LEMMA CountParentStep ==
  ASSUME Sound, NEW c \in Client, CountParent(c)
  PROVE  Sound'
<1>1. DOMAIN task = Client /\ Numbers /\ Knows(c) /\ Counted
  BY Zenon DEF Sound, Shape
<1>p. PICK p : p = task[c].p
  BY Zenon
<1>2. /\ task[c].at = "parent" /\ Done(c) /\ UNCHANGED <<mode, dentry, lastIno, skew>>
      /\ nlink' = AddLinks(nlink, p, 1)
  BY Zenon, <1>p DEF CountParent, At, deaths
<1>3. task[c].at \in Adding /\ task[c].at # "links" /\ task[c].at # "uncount"
  BY <1>2 DEF Adding
<1>4. IsDir(p)
  BY Zenon, <1>1, <1>2, <1>3, <1>p DEF Knows, Parent
<1>5. DOMAIN nlink' = DOMAIN nlink /\ (\A x \in DOMAIN nlink : nlink'[x] \in Int)
      /\ \A x \in DOMAIN nlink : x # p => nlink'[x] = nlink[x]
  BY <1>1, <1>2 DEF Numbers, AddLinks
<1>6. Counted'
  <2>1. ASSUME NEW x PROVE Balance(x)' = Balance(x)
    <3>1. NamesOf(x)' = NamesOf(x) /\ skew'[x] = skew[x]
      BY Zenon, <1>2, SameTables
    <3>2. task'[c].at = "idle" /\ task'[c].at # "links" /\ task'[c].at # "uncount"
          /\ \A d \in Client : d # c => task'[d] = task[d]
      BY <1>1, <1>2, DoneIs
    <3> QED BY Zenon, <1>3, <3>1, <3>2, SameBalance
  <2>2. DOMAIN nlink = DOMAIN mode /\ mode' = mode
    BY Zenon, <1>1, <1>2 DEF Numbers
  <2> QED BY Zenon, <1>1, <1>4, <1>5, <2>1, <2>2, SameCounted
<1> QED BY Zenon, <1>2, <1>3, <1>5, <1>6, AddDone

\* Client c counts the link of its entry, or dies before it does: the balance of its
\* inode has one more link, before skew.
LEMMA LinkSettled ==
  ASSUME Sound, NEW c \in Client, task[c].at = "links", dentry' = dentry,
         task'[c].at = "idle", \A d \in Client : d # c => task'[d] = task[d],
         NEW i, i = task[c].ino
  PROVE  /\ Cardinality(Linked(i)') = Cardinality(Linked(i)) + 1 /\ Cardinality(Linked(i)) \in Nat
         /\ Late(i) = 0 /\ Late(i)' = 0
<1>e. PICK e : e = Entry(c)
  BY Zenon
<1>1. Knows(c) /\ Numbers /\ Apart
  BY Zenon DEF Sound
<1>2. e \in DOMAIN dentry /\ dentry[e] = i
  BY Zenon, <1>1, <1>e DEF Knows
<1>3. \A d \in Client : d # c => Entry(d)' = Entry(d) /\ task'[d].at = task[d].at
  BY Zenon DEF Entry
<1>4. \A d \in Client : d # c /\ task[d].at = "links" => Entry(d) # e
  BY Zenon, <1>1, <1>e DEF Apart
<1>5. NamesOf(i)' = NamesOf(i) /\ e \in NamesOf(i)
  BY Zenon, <1>2 DEF NamesOf
<1>6. task'[c].at # "links" /\ task[c].at \in Adding /\ task'[c].at # "uncount"
  BY DEF Adding
<1>7. e \notin Linked(i)
  BY Zenon, <1>e DEF Linked
<1>8. Linked(i)' = Linked(i) \cup {e}
  <2>1. \A f \in Linked(i)' : f \in Linked(i) \cup {e}
    BY Zenon, <1>3, <1>5, <1>e DEF Linked
  <2>2. \A f \in Linked(i) \cup {e} : f \in NamesOf(i)
    BY Zenon, <1>5 DEF Linked
  <2>3. \A f \in Linked(i) \cup {e}, d \in Client : task'[d].at = "links" => Entry(d)' # f
    BY Zenon, <1>3, <1>4, <1>6 DEF Linked
  <2> QED BY Zenon, <1>5, <2>1, <2>2, <2>3 DEF Linked
<1>9. IsFiniteSet(Linked(i))
  <2>1. Linked(i) \subseteq DOMAIN dentry /\ IsFiniteSet(DOMAIN dentry)
    BY Zenon, <1>1 DEF Linked, NamesOf, Numbers
  <2> QED BY Zenon, <2>1, FS_Subset
<1>10. Cardinality(Linked(i) \cup {e}) = Cardinality(Linked(i)) + 1 /\ Cardinality(Linked(i)) \in Nat
  BY Zenon, <1>7, <1>9, FS_AddElement, FS_CardinalityType
<1> QED BY Zenon, <1>6, <1>8, <1>10, NoneLate

\* UPDATE fs_inode SET nlink = nlink + 1
LEMMA CountLinkStep ==
  ASSUME Sound, NEW c \in Client, CountLink(c)
  PROVE  Sound'
<1>1. DOMAIN task = Client /\ Numbers /\ Knows(c) /\ Counted
  BY Zenon DEF Sound, Shape
<1>p. PICK i, e : i = task[c].ino /\ e = Entry(c)
  BY Zenon
<1>2. /\ task[c].at = "links" /\ Done(c) /\ UNCHANGED <<mode, dentry, lastIno, skew>>
      /\ task[c].op # "mkdir" /\ nlink' = AddLinks(nlink, i, 1)
  BY Zenon, <1>p DEF CountLink, At, deaths
<1>3. task[c].at \in Adding /\ task[c].at # "uncount"
  BY <1>2 DEF Adding
<1>4. i \in DOMAIN mode /\ i # Root /\ ~IsDir(i) /\ e \in DOMAIN dentry /\ dentry[e] = i
  BY Zenon, <1>1, <1>2, <1>p DEF Knows
<1>5. /\ task'[c].at = "idle" /\ task'[c].at # "links" /\ task'[c].at # "uncount"
      /\ \A d \in Client : d # c => task'[d] = task[d]
  BY <1>1, <1>2, DoneIs
<1>6. /\ DOMAIN nlink' = DOMAIN nlink /\ (\A x \in DOMAIN nlink : nlink'[x] \in Int)
      /\ nlink'[i] = nlink[i] + 1
      /\ \A x \in DOMAIN nlink : x # i => nlink'[x] = nlink[x]
  BY <1>1, <1>2, <1>4 DEF Numbers, AddLinks
<1>7. ASSUME NEW x, x # i PROVE Balance(x)' = Balance(x)
  <2>1. NamesOf(x)' = NamesOf(x) /\ skew'[x] = skew[x]
    BY Zenon, <1>2, SameTables
  <2>2. Entry(c) \notin NamesOf(x)
    BY Zenon, <1>4, <1>7, <1>p DEF NamesOf
  <2> QED BY Zenon, <1>3, <1>5, <2>1, <2>2, SameBalance
<1>8. Balance(i)' = Balance(i) + 1
  <2>1. /\ Cardinality(Linked(i)') = Cardinality(Linked(i)) + 1 /\ Cardinality(Linked(i)) \in Nat
        /\ Late(i) = 0 /\ Late(i)' = 0
    BY Zenon, <1>2, <1>5, <1>p, LinkSettled
  <2>2. i \in Ino /\ skew[i] \in Int /\ skew'[i] = skew[i]
    BY <1>1, <1>2, <1>4 DEF Numbers
  <2>3. Balance(i)' = Cardinality(Linked(i)') + Late(i)' + skew'[i]
    BY Zenon DEF Balance
  <2> QED BY <2>1, <2>2, <2>3 DEF Balance
<1>9. Counted'
  <2>1. \A x : IsDir(x)' <=> IsDir(x)
    BY Zenon, <1>2, SameTables
  <2>2. i \in Ino /\ nlink[i] = Balance(i) /\ DOMAIN mode = DOMAIN nlink /\ DOMAIN mode' = DOMAIN mode
    BY Zenon, <1>1, <1>2, <1>4 DEF Counted, Numbers
  <2>3. nlink'[i] = Balance(i)'
    BY Zenon, <1>6, <1>8, <2>2
  <2>4. \A x \in Ino : x # Root /\ ~IsDir(x)' =>
          IF x \in DOMAIN mode' THEN nlink'[x] = Balance(x)' ELSE Balance(x)' <= 0
    BY Zenon, <1>1, <1>4, <1>6, <1>7, <2>1, <2>2, <2>3 DEF Counted
  <2> QED BY Zenon, <2>4 DEF Counted, Root, Ino
<1> QED BY Zenon, <1>2, <1>3, <1>6, <1>9, AddDone

\* A name is added that is no directory's second.
LEMMA ForestAdd ==
  ASSUME Forest, NEW p, NEW e, NEW i, Parent(p), e[1] = p, e \notin DOMAIN dentry, i \in Ino, i # Root,
         IsDir(i) => NamesOf(i) = {}, mode' = mode, dentry' = Put(dentry, e, i)
  PROVE  Forest'
<1>1. /\ DOMAIN dentry' = DOMAIN dentry \cup {e} /\ dentry'[e] = i
      /\ \A f \in DOMAIN dentry : dentry'[f] = dentry[f]
  BY Zenon DEF Put
<1>2. \A d : /\ Named(d) => Named(d)'
             /\ Entries(d)' = IF d = p THEN Entries(d) \cup {e} ELSE Entries(d)
             /\ IsDir(d)' <=> IsDir(d)
  BY Zenon, <1>1 DEF Named, NamesOf, Entries, IsDir, Root
<1>3. IsDir(Root)' /\ \A f \in DOMAIN dentry' : IsDir(f[1])' /\ dentry'[f] \in Ino /\ dentry'[f] # Root
  <2>1. \A f \in DOMAIN dentry' : f = e \/ f \in DOMAIN dentry
    BY Zenon, <1>1
  <2>2. IsDir(p)' /\ IsDir(Root)'
    BY Zenon, <1>2 DEF Forest, Parent
  <2>3. \A f \in DOMAIN dentry : IsDir(f[1])' /\ dentry'[f] \in Ino /\ dentry'[f] # Root
    BY Zenon, <1>1, <1>2 DEF Forest
  <2> QED BY Zenon, <1>1, <2>1, <2>2, <2>3
<1>4. (\A f, g \in DOMAIN dentry : IsDir(dentry[f]) /\ dentry[f] = dentry[g] => f = g)'
  <2> SUFFICES ASSUME NEW f \in DOMAIN dentry', NEW g \in DOMAIN dentry', NEW x, x = dentry'[f], dentry'[g] = x,
                      IsDir(x)'
               PROVE  f = g
    BY Zenon
  <2>1. IsDir(x)
    BY Zenon, <1>2
  <2>2. CASE x = i
    <3>1. \A h \in DOMAIN dentry : dentry[h] # i
      BY Zenon, <2>1, <2>2 DEF NamesOf
    <3>2. f = e /\ g = e
      BY Zenon, <1>1, <2>2, <3>1
    <3> QED BY Zenon, <3>2
  <2>3. CASE x # i
    <3>1. f \in DOMAIN dentry /\ g \in DOMAIN dentry /\ dentry[f] = x /\ dentry[g] = x
      BY Zenon, <1>1, <2>3
    <3> QED BY Zenon, <2>1, <3>1 DEF Forest
  <2> QED BY Zenon, <2>2, <2>3
<1>5. \A d \in DOMAIN mode' : IsDir(d)' /\ ~Named(d)' => Entries(d)' = {}
  BY Zenon, <1>2 DEF Forest, Parent
<1> QED BY Zenon, <1>3, <1>4, <1>5 DEF Forest, Root, Ino

\* INSERT INTO fs_dentry
LEMMA InsertEntryStep ==
  ASSUME Sound, NEW c \in Client, InsertEntry(c)
  PROVE  Sound'
<1>1. /\ DOMAIN task = Client /\ Forest /\ Numbers /\ Knows(c) /\ Counted /\ Apart
      /\ task[c].at # "idle" => Wide(task[c])
  BY Zenon DEF Sound, Shape
<1>p. PICK p, i, e : p = task[c].p /\ i = task[c].ino /\ e = Entry(c)
  BY Zenon
<1>f. e[1] = p
  BY Zenon, <1>p DEF Entry
<1>2. /\ task[c].at = "entry" /\ UNCHANGED <<mode, nlink, lastIno, skew>>
      /\ \/ e \in DOMAIN dentry /\ Done(c) /\ UNCHANGED dentry
         \/ e \notin DOMAIN dentry /\ GoTo(c, "links") /\ dentry' = Put(dentry, e, i)
  BY Zenon, <1>p DEF InsertEntry, At, Entry, deaths
<1>3. task[c].at \in Adding /\ Wide(task[c]) /\ task[c].at # "links" /\ task[c].at # "uncount"
  BY <1>1, <1>2 DEF Adding
<1>4. DOMAIN nlink' = DOMAIN nlink /\ \A x \in DOMAIN nlink : nlink'[x] \in Int
  BY Zenon, <1>1, <1>2 DEF Numbers
<1>5. CASE Done(c) /\ UNCHANGED dentry
  <2>1. /\ task'[c].at = "idle" /\ task'[c].at # "links" /\ task'[c].at # "uncount"
        /\ \A d \in Client : d # c => task'[d] = task[d]
    BY <1>1, <1>5, DoneIs
  <2>2. ASSUME NEW x PROVE Balance(x)' = Balance(x)
    <3>1. NamesOf(x)' = NamesOf(x) /\ skew'[x] = skew[x]
      BY Zenon, <1>2, <1>5, SameTables
    <3> QED BY Zenon, <1>3, <2>1, <3>1, SameBalance
  <2>3. Counted'
    BY Zenon, <1>1, <1>2, <2>2, SameCounted
  <2> QED BY Zenon, <1>2, <1>3, <1>4, <1>5, <2>3, AddDone
<1>6. CASE e \notin DOMAIN dentry /\ GoTo(c, "links") /\ dentry' = Put(dentry, e, i)
  <2>1. /\ DOMAIN dentry' = DOMAIN dentry \cup {e} /\ dentry'[e] = i
        /\ \A f \in DOMAIN dentry : dentry'[f] = dentry[f]
    BY Zenon, <1>6 DEF Put
  <2>2. /\ Parent(p) /\ i \in DOMAIN mode /\ i # Root /\ (task[c].op = "mkdir" <=> IsDir(i))
        /\ task[c].op = "mkdir" => NamesOf(i) = {}
        /\ task[c].op \notin Removal
    BY Zenon, <1>1, <1>2, <1>3, <1>p DEF Knows
  <2>3. i \in Ino /\ i <= lastIno
    BY Zenon, <1>1, <2>2 DEF Numbers
  <2>4. Forest'
    BY Zenon, <1>1, <1>2, <1>6, <1>f, <2>2, <2>3, ForestAdd
  <2>5. /\ DOMAIN task' = Client /\ Wide(task'[c])
        /\ task'[c].at = "links" /\ task'[c].op = task[c].op /\ p = task'[c].p /\ i = task'[c].ino
        /\ task'[c].n = task[c].n
        /\ \A d \in Client : d # c => task'[d] = task[d]
    BY Zenon, <1>1, <1>3, <1>6, <1>p, GoToIs
  <2>6. e = Entry(c)'
    BY Zenon, <1>p, <2>5 DEF Entry
  <2>7. \A x : IsDir(x)' <=> IsDir(x)
    BY Zenon, <1>2 DEF IsDir
  <2>8. Parent(p)'
    BY Zenon, <2>1, <2>2, <2>7 DEF Parent, Named, NamesOf, Root
  <2>9. Knows(c)'
    <3>1. /\ task'[c].at \in {"target", "entry", "links", "parent"}
          /\ task'[c].at # "target" /\ task'[c].at # "entry" /\ task'[c].op \notin Removal
      BY <2>2, <2>5
    <3>2. i \in DOMAIN mode' /\ (task'[c].op = "mkdir" <=> IsDir(i)') /\ e \in DOMAIN dentry' /\ dentry'[e] = i
      BY Zenon, <1>2, <2>1, <2>2, <2>5, <2>7
    <3> QED BY Zenon, <2>2, <2>5, <2>6, <2>8, <3>1, <3>2, KnowsAdding
  <2>10. IsFiniteSet(DOMAIN dentry')
    BY <1>1, <2>1, FS_AddElement DEF Numbers
  <2>11. Numbers'
    BY Zenon, <1>1, <1>2, <2>1, <2>3, <2>7, <2>10 DEF Numbers, Ino, Root
  <2>12. Grows
    BY Zenon, <1>2, <2>1 DEF Grows
  <2>13. Counted'
    <3>1. ASSUME NEW x PROVE Balance(x)' = Balance(x)
      <4>1. \A d \in Client : d # c => Entry(d)' = Entry(d) /\ task'[d].at = task[d].at
        BY Zenon, <2>5 DEF Entry
      <4>2. NamesOf(x)' = IF x = i THEN NamesOf(x) \cup {e} ELSE NamesOf(x)
        BY Zenon, <1>6, <2>1 DEF NamesOf
      <4>3. e \notin NamesOf(x)
        BY Zenon, <1>6 DEF NamesOf
      <4>4. \A f \in NamesOf(x) : f \in Linked(x)' <=> f \in Linked(x)
        BY Zenon, <1>3, <2>5, <2>6, <4>1, <4>2, <4>3 DEF Linked
      <4>5. e \notin Linked(x)'
        BY Zenon, <2>5, <2>6 DEF Linked
      <4>6. Linked(x)' \subseteq NamesOf(x) \cup {e} /\ Linked(x) \subseteq NamesOf(x)
        BY Zenon, <4>2 DEF Linked
      <4>7. Linked(x)' = Linked(x)
        BY Zenon, <4>4, <4>5, <4>6
      <4>8. task'[c].at # "uncount"
        BY <2>5
      <4>9. Late(x)' = Late(x)
        BY Zenon, <1>3, <2>5, <4>8, NoneLate
      <4> QED BY Zenon, <1>2, <4>7, <4>9 DEF Balance
    <3> QED BY Zenon, <1>1, <1>2, <3>1, SameCounted
  <2>14. ASSUME NEW d \in Client, d # c, task[d].at = "entry", task[d].op = "mkdir"
         PROVE  NamesOf(task[d].ino)' = NamesOf(task[d].ino)
    <3>j. PICK j : j = task[d].ino
      BY Zenon
    <3>1. task'[d].ino = j
      BY Zenon, <2>5, <2>14, <3>j
    <3>2. IsDir(j)
      BY Zenon, <2>14, <3>j DEF Sound, Knows
    <3>3. j # i
      BY Zenon, <1>1, <1>2, <1>p, <2>2, <2>14, <3>2, <3>j DEF Apart
    <3>4. NamesOf(j)' = NamesOf(j)
      BY Zenon, <1>6, <2>1, <3>3 DEF NamesOf
    <3> QED BY Zenon, <3>1, <3>4, <3>j DEF NamesOf
  <2>15. task'[c].at # "entry" /\ Entry(c)' \notin DOMAIN dentry
    BY <1>6, <2>5, <2>6
  <2> QED BY Zenon, <1>3, <2>4, <2>5, <2>9, <2>11, <2>12, <2>13, <2>14, <2>15, AddAfter
<1> QED BY Zenon, <1>2, <1>5, <1>6

\* The transaction of create_file.
LEMMA CreateTxnStep ==
  ASSUME Sound, NEW c \in Client, CreateTxn(c)
  PROVE  Sound'
<1>1. /\ DOMAIN task = Client /\ Forest /\ Numbers /\ Knows(c) /\ Counted
      /\ task[c].at # "idle" => Wide(task[c])
  BY Zenon DEF Sound, Shape
<1>p. PICK p, i, e : p = task[c].p /\ i = lastIno + 1 /\ e = Entry(c)
  BY Zenon
<1>f. e[1] = p
  BY Zenon, <1>p DEF Entry
<1>2. /\ task[c].at = "create" /\ Done(c) /\ lastIno' = i /\ i <= MaxIno /\ skew' = skew
      /\ \/ UNCHANGED <<mode, nlink, dentry>>
         \/ /\ e \notin DOMAIN dentry /\ mode' = Put(mode, i, "file")
            /\ nlink' = Put(nlink, i, 1) /\ dentry' = Put(dentry, e, i)
  BY Zenon, <1>p DEF CreateTxn, At, Entry, deaths
<1>3. task[c].at \in Adding /\ task[c].at # "links" /\ task[c].at # "uncount"
  BY <1>2 DEF Adding
<1>4. /\ DOMAIN task' = Client /\ task'[c].at = "idle" /\ task'[c].at # "links" /\ task'[c].at # "uncount"
      /\ task'[c].at # "entry"
      /\ \A d \in Client : d # c => task'[d] = task[d]
  BY <1>1, <1>2, DoneIs
<1>5. Knows(c)'
  BY Zenon, <1>4, DoneKnows
<1>6. \A x : Late(x) = 0 /\ Late(x)' = 0
  BY Zenon, <1>3, <1>4, NoneLate
<1>7. i \in Ino /\ i > lastIno /\ lastIno \in Nat /\ i \in Nat
  BY <1>1, <1>2, <1>p DEF Numbers, Ino
<1>8. NamesOf(i) = {} /\ Entries(i) = {} /\ Balance(i) = 0 /\ skew[i] = 0 /\ i \notin DOMAIN mode /\ i # Root
  BY Zenon, <1>6, <1>7, NewBalance
<1>9. CASE UNCHANGED <<mode, nlink, dentry>>
  <2>1. Forest' /\ Grows
    BY Zenon, <1>1, <1>9, SameForest DEF Grows
  <2>2. Numbers'
    <3>1. /\ \A x \in DOMAIN mode : x <= i
          /\ \A f \in DOMAIN dentry : dentry[f] <= i
          /\ \A x \in Ino : IsDir(x) \/ x > i => skew[x] = 0
      BY <1>1, <1>7 DEF Numbers, Ino, Root, Forest
    <3>2. \A x : IsDir(x)' <=> IsDir(x)
      BY Zenon, <1>9, SameTables
    <3> QED BY Zenon, <1>1, <1>2, <1>7, <1>9, <3>1, <3>2 DEF Numbers, Root, Ino
  <2>3. Counted'
    <3>1. ASSUME NEW x PROVE Balance(x)' = Balance(x)
      <4>1. NamesOf(x)' = NamesOf(x) /\ skew'[x] = skew[x]
        BY Zenon, <1>2, <1>9, SameTables
      <4> QED BY Zenon, <1>3, <1>4, <4>1, SameBalance
    <3> QED BY Zenon, <1>1, <1>9, <3>1, SameCounted
  <2>4. \A d \in Client : d # c => NamesOf(task[d].ino)' = NamesOf(task[d].ino)
    BY Zenon, <1>4, <1>9 DEF NamesOf
  <2> QED BY Zenon, <1>3, <1>4, <1>5, <2>1, <2>2, <2>3, <2>4, AddAfter
<1>10. CASE /\ e \notin DOMAIN dentry /\ mode' = Put(mode, i, "file")
            /\ nlink' = Put(nlink, i, 1) /\ dentry' = Put(dentry, e, i)
  <2>1. /\ DOMAIN dentry' = DOMAIN dentry \cup {e} /\ dentry'[e] = i
        /\ \A f \in DOMAIN dentry : dentry'[f] = dentry[f]
    BY Zenon, <1>10 DEF Put
  <2>2. DOMAIN mode' = DOMAIN mode \cup {i} /\ mode'[i] = "file" /\ \A x \in DOMAIN mode : mode'[x] = mode[x]
    BY Zenon, <1>8, <1>10 DEF Put
  <2>3. DOMAIN nlink' = DOMAIN mode' /\ nlink'[i] = 1 /\ \A x \in DOMAIN mode : nlink'[x] = nlink[x]
    BY Zenon, <1>1, <1>8, <1>10, <2>2 DEF Put, Numbers
  <2>4. IsDir(p) /\ Named(p)
    BY Zenon, <1>1, <1>3, <1>p DEF Knows, Parent
  <2>5. \A x : IsDir(x)' <=> IsDir(x)
    <3>1. "file" # "dir"
      BY Zenon
    <3> QED BY Zenon, <1>8, <2>2, <3>1 DEF IsDir
  <2>6. \A x : /\ x # i => NamesOf(x)' = NamesOf(x)
               /\ Named(x) => Named(x)'
               /\ Entries(x)' = IF x = p THEN Entries(x) \cup {e} ELSE Entries(x)
    BY Zenon, <1>10, <1>f, <2>1 DEF NamesOf, Named, Entries, Root
  <2>7. NamesOf(i)' = {e}
    BY Zenon, <1>8, <2>1 DEF NamesOf
  <2>8. Forest'
    <3>1. \A f \in DOMAIN dentry' : f = e \/ f \in DOMAIN dentry
      BY Zenon, <2>1
    <3>2. \A f \in DOMAIN dentry : IsDir(f[1])' /\ dentry'[f] \in Ino /\ dentry'[f] # Root
      BY Zenon, <1>1, <2>1, <2>5 DEF Forest
    <3>3. IsDir(p)' /\ IsDir(Root)' /\ ~IsDir(i)'
      BY Zenon, <1>1, <1>8, <2>4, <2>5 DEF Forest, IsDir
    <3>4. \A f \in DOMAIN dentry' : IsDir(f[1])' /\ dentry'[f] \in Ino /\ dentry'[f] # Root
      BY Zenon, <1>7, <1>8, <1>f, <2>1, <3>1, <3>2, <3>3
    <3>5. (\A f, g \in DOMAIN dentry : IsDir(dentry[f]) /\ dentry[f] = dentry[g] => f = g)'
      <4> SUFFICES ASSUME NEW f \in DOMAIN dentry', NEW g \in DOMAIN dentry', NEW x, x = dentry'[f],
                          dentry'[g] = x, IsDir(x)'
                   PROVE  f = g
        BY Zenon
      <4>1. IsDir(x) /\ x # i
        BY Zenon, <2>5, <3>3
      <4>2. f # e /\ g # e
        BY Zenon, <2>1, <4>1
      <4>3. f \in DOMAIN dentry /\ g \in DOMAIN dentry /\ dentry[f] = x /\ dentry[g] = x
        BY Zenon, <2>1, <4>2
      <4> QED BY Zenon, <1>1, <4>1, <4>3 DEF Forest
    <3>6. \A d \in DOMAIN mode' : IsDir(d)' /\ ~Named(d)' => Entries(d)' = {}
      BY Zenon, <1>1, <1>8, <2>2, <2>4, <2>5, <2>6, <3>3 DEF Forest
    <3> QED BY Zenon, <3>3, <3>4, <3>5, <3>6 DEF Forest, Root, Ino
  <2>9. Grows
    BY Zenon, <2>1, <2>2 DEF Grows
  <2>10. IsFiniteSet(DOMAIN dentry')
    BY <1>1, <2>1, FS_AddElement DEF Numbers
  <2>11. Numbers'
    <3>0. /\ \A x \in DOMAIN mode : x <= i
          /\ \A f \in DOMAIN dentry : dentry[f] <= i
          /\ \A x \in Ino : IsDir(x) \/ x > i => skew[x] = 0
          /\ i <= i
      BY <1>1, <1>7 DEF Numbers, Ino, Root, Forest
    <3>1. /\ \A x \in DOMAIN mode' : x <= i
          /\ \A f \in DOMAIN dentry' : dentry'[f] <= i
          /\ \A x \in Ino : IsDir(x) \/ x > i => skew[x] = 0
      BY Zenon, <2>1, <2>2, <3>0
    <3>2. DOMAIN mode' \subseteq Ino \cup {Root} /\ \A x \in DOMAIN nlink' : nlink'[x] \in Int
      BY <1>1, <1>7, <2>2, <2>3 DEF Numbers
    <3> QED BY Zenon, <1>1, <1>2, <1>7, <2>3, <2>5, <2>10, <3>1, <3>2 DEF Numbers, Root, Ino
  <2>12. \A d \in Client : task'[d].at = "links" => Entry(d)' \in DOMAIN dentry
    <3> SUFFICES ASSUME NEW d \in Client, task'[d].at = "links" PROVE Entry(d)' \in DOMAIN dentry
      BY Zenon
    <3>1. task'[d] = task[d] /\ task[d].at = "links"
      BY Zenon, <1>4
    <3>2. Entry(d) \in DOMAIN dentry
      BY Zenon, <3>1 DEF Sound, Knows
    <3>3. Entry(d)' = Entry(d)
      BY Zenon, <3>1 DEF Entry
    <3> QED BY Zenon, <3>2, <3>3
  <2>13. Balance(i)' = 1
    <3>1. Linked(i)' = {e}
      BY Zenon, <1>10, <2>7, <2>12 DEF Linked
    <3>2. Cardinality(Linked(i)') = 1
      BY Zenon, <3>1, FS_Singleton
    <3>3. Balance(i)' = Cardinality(Linked(i)') + Late(i)' + skew'[i]
      BY Zenon DEF Balance
    <3>4. Late(i)' = 0 /\ skew'[i] = 0
      BY Zenon, <1>2, <1>6, <1>8
    <3> QED BY <3>2, <3>3, <3>4
  <2>14. ASSUME NEW x, x # i PROVE Balance(x)' = Balance(x)
    <3>1. NamesOf(x)' = NamesOf(x) /\ skew'[x] = skew[x]
      BY Zenon, <1>2, <2>6, <2>14
    <3> QED BY Zenon, <1>3, <1>4, <3>1, SameBalance
  <2>15. Counted'
    <3>1. \A x \in Ino : x # Root /\ ~IsDir(x)' =>
            IF x \in DOMAIN mode' THEN nlink'[x] = Balance(x)' ELSE Balance(x)' <= 0
      BY Zenon, <1>1, <2>2, <2>3, <2>5, <2>13, <2>14 DEF Counted
    <3> QED BY Zenon, <3>1 DEF Counted, Root, Ino
  <2>16. ASSUME NEW d \in Client, d # c, task[d].at = "entry", task[d].op = "mkdir"
         PROVE  NamesOf(task[d].ino)' = NamesOf(task[d].ino)
    <3>j. PICK j : j = task[d].ino
      BY Zenon
    <3>1. task'[d].ino = j
      BY Zenon, <1>4, <2>16, <3>j
    <3>2. IsDir(j)
      BY Zenon, <2>16, <3>j DEF Sound, Knows
    <3>3. j # i
      BY Zenon, <1>8, <3>2 DEF IsDir
    <3>4. NamesOf(j)' = NamesOf(j)
      BY Zenon, <2>6, <3>3
    <3> QED BY Zenon, <3>1, <3>4, <3>j DEF NamesOf
  <2> QED BY Zenon, <1>3, <1>4, <1>5, <2>8, <2>9, <2>11, <2>15, <2>16, AddAfter
<1> QED BY Zenon, <1>2, <1>9, <1>10

-----------------------------------------------------------------------------
(* Names are removed.                                                      *)

\* What an operation that removes a name knows after a statement.
LEMMA KnowsRemoving ==
  ASSUME NEW c, NEW p, p = task'[c].p, NEW i, i = task'[c].ino, IsDir(p)', i \in Ino, i # Root,
         task'[c].at \in Removing, task'[c].op \in {"unlink", "rmdir"}, task'[c].op = "rmdir" <=> IsDir(i)',
         task'[c].op = "rmdir" => NamesOf(i)' = {} /\ Entries(i)' = {},
         task'[c].at \in {"untarget", "rows"} => NoLinks(i, nlink')
  PROVE  Knows(c)'
<1>1. /\ task'[c].at \notin Adding /\ task'[c].at \notin {"target", "entry", "links"}
      /\ task'[c].at \notin {"links", "parent"} /\ task'[c].at \notin {"target", "entry", "delete", "rename"}
  BY DEF Adding, Removing
<1> QED BY Zenon, <1>1 DEF Knows, Root, Ino

\* The statements after the entry is gone and before the row goes.
LEMMA RemovalGoes ==
  ASSUME Sound, NEW c \in Client, task[c].at \in Removing, NEW s \in Removing, GoTo(c, s),
         UNCHANGED <<mode, dentry, lastIno, skew>>,
         DOMAIN nlink' = DOMAIN nlink, \A x \in DOMAIN nlink : nlink'[x] \in Int, Counted',
         s \in {"untarget", "rows"} => NoLinks(task[c].ino, nlink) /\ nlink' = nlink
  PROVE  Sound'
<1>p. PICK p, i : p = task[c].p /\ i = task[c].ino
  BY Zenon
<1>1. /\ DOMAIN task = Client /\ Forest /\ Numbers /\ Knows(c) /\ Counted
      /\ task[c].at # "idle" => Wide(task[c])
  BY Zenon DEF Sound, Shape
<1>2. task[c].at # "idle"
  BY DEF Removing
<1>3. /\ DOMAIN task' = Client /\ Wide(task'[c])
      /\ task'[c].at = s /\ task'[c].op = task[c].op /\ p = task'[c].p /\ i = task'[c].ino
      /\ \A d \in Client : d # c => task'[d] = task[d]
  BY Zenon, <1>1, <1>2, <1>p, GoToIs
<1>4. /\ task[c].op \in {"unlink", "rmdir"} /\ (task[c].op = "rmdir" <=> IsDir(i))
      /\ i \in Ino /\ i # Root /\ IsDir(p)
      /\ task[c].op = "rmdir" => NamesOf(i) = {} /\ Entries(i) = {}
  BY Zenon, <1>1, <1>p DEF Knows
<1>5. /\ task'[c].op = "rmdir" <=> IsDir(i)'
      /\ IsDir(p)'
      /\ task'[c].op = "rmdir" => NamesOf(i)' = {} /\ Entries(i)' = {}
  BY Zenon, <1>3, <1>4, SameTables
<1>6. s \in {"untarget", "rows"} => NoLinks(i, nlink')
  BY Zenon, <1>p
<1>7. Knows(c)'
  BY Zenon, <1>3, <1>4, <1>5, <1>6, KnowsRemoving
<1>8. Forest' /\ Numbers'
  BY Zenon, <1>1, SameForest, SameNumbers
<1>9. task[c].op \in Removal
  BY Zenon, <1>4 DEF Removal
<1> QED BY Zenon, <1>2, <1>3, <1>7, <1>8, <1>9, RemovalAfter

\* The end of such an operation.
LEMMA RemovalDone ==
  ASSUME Sound, NEW c \in Client, task[c].at # "idle", task[c].op \in Removal, Done(c),
         Forest', Numbers', Counted'
  PROVE  Sound'
<1>1. DOMAIN task' = Client /\ task'[c].at = "idle" /\ \A d \in Client : d # c => task'[d] = task[d]
  BY Zenon, DoneIs DEF Sound, Shape
<1>2. Knows(c)'
  BY Zenon, <1>1, DoneKnows
<1> QED BY Zenon, <1>1, <1>2, RemovalAfter

\* A name goes whose inode has no entries.
LEMMA ForestDrop ==
  ASSUME Forest, NEW e \in DOMAIN dentry, NEW i, i = dentry[e], Entries(i) = {},
         mode' = mode, dentry' = Drop(dentry, e)
  PROVE  Forest' /\ Entries(i)' = {} /\ NamesOf(i)' = NamesOf(i) \ {e} /\ e \in NamesOf(i)
         /\ \A x : x # i => NamesOf(x)' = NamesOf(x)
<1>1. DOMAIN dentry' = DOMAIN dentry \ {e} /\ \A f \in DOMAIN dentry' : dentry'[f] = dentry[f]
  BY Zenon DEF Drop
<1>2. \A d : /\ Entries(d)' \subseteq Entries(d) /\ (IsDir(d)' <=> IsDir(d))
             /\ d # i /\ Named(d) => Named(d)'
  BY Zenon, <1>1 DEF Named, NamesOf, Entries, IsDir, Root
<1>3. Entries(i)' = {}
  BY Zenon, <1>2
<1>4. IsDir(Root)' /\ \A f \in DOMAIN dentry' : IsDir(f[1])' /\ dentry'[f] \in Ino /\ dentry'[f] # Root
  BY Zenon, <1>1, <1>2 DEF Forest
<1>5. (\A f, g \in DOMAIN dentry : IsDir(dentry[f]) /\ dentry[f] = dentry[g] => f = g)'
  <2> SUFFICES ASSUME NEW f \in DOMAIN dentry', NEW g \in DOMAIN dentry', NEW x, x = dentry'[f], dentry'[g] = x,
                      IsDir(x)'
               PROVE  f = g
    BY Zenon
  <2>1. f \in DOMAIN dentry /\ g \in DOMAIN dentry /\ dentry[f] = x /\ dentry[g] = x /\ IsDir(x)
    BY Zenon, <1>1, <1>2
  <2> QED BY Zenon, <2>1 DEF Forest
<1>6. \A d \in DOMAIN mode' : IsDir(d)' /\ ~Named(d)' => Entries(d)' = {}
  BY Zenon, <1>2, <1>3 DEF Forest
<1>7. NamesOf(i)' = NamesOf(i) \ {e} /\ e \in NamesOf(i) /\ \A x : x # i => NamesOf(x)' = NamesOf(x)
  BY Zenon, <1>1 DEF NamesOf
<1> QED BY Zenon, <1>3, <1>4, <1>5, <1>6, <1>7 DEF Forest, Root, Ino

\* DELETE FROM fs_dentry
LEMMA DeleteEntryStep ==
  ASSUME Sound, NEW c \in Client, DeleteEntry(c)
  PROVE  Sound'
<1>p. PICK p, i, e : p = task[c].p /\ i = task[c].ino /\ e = Entry(c)
  BY Zenon
<1>1. /\ DOMAIN task = Client /\ Forest /\ Numbers /\ Knows(c) /\ Counted
      /\ task[c].at # "idle" => Wide(task[c])
  BY Zenon DEF Sound, Shape
<1>2. /\ task[c].at = "delete" /\ GoTo(c, "uncount") /\ UNCHANGED <<mode, nlink, lastIno, skew>>
      /\ dentry' = Drop(dentry, e)
  BY Zenon, <1>p DEF DeleteEntry, At, Entry, deaths
<1>3. task[c].at # "idle" /\ task[c].at # "links" /\ task[c].at # "uncount" /\ task[c].at \in {"delete"} \cup Removing
  BY <1>2
<1>4. /\ DOMAIN task' = Client /\ Wide(task'[c])
      /\ task'[c].at = "uncount" /\ task'[c].op = task[c].op /\ p = task'[c].p /\ i = task'[c].ino
      /\ \A d \in Client : d # c => task'[d] = task[d]
  BY Zenon, <1>1, <1>2, <1>3, <1>p, GoToIs
<1>5. /\ task[c].op \in {"unlink", "rmdir"} /\ (task[c].op = "rmdir" <=> IsDir(i))
      /\ i \in Ino /\ i # Root /\ IsDir(p)
      /\ e \in DOMAIN dentry /\ i = dentry[e] /\ Entries(i) = {}
  BY Zenon, <1>1, <1>2, <1>3, <1>p DEF Knows
<1>6. /\ Forest' /\ Entries(i)' = {} /\ NamesOf(i)' = NamesOf(i) \ {e} /\ e \in NamesOf(i)
      /\ \A x : x # i => NamesOf(x)' = NamesOf(x)
  BY Zenon, <1>1, <1>2, <1>5, ForestDrop
<1>7. \A x : IsDir(x)' <=> IsDir(x)
  BY Zenon, <1>2 DEF IsDir
<1>8. IsDir(i) => NamesOf(i)' = {}
  BY Zenon, <1>1, <1>5, <1>6 DEF Forest, NamesOf
<1>9. task[c].op \in Removal
  BY Zenon, <1>5 DEF Removal
<1>10. \A d \in Client : task[d].at # "links" /\ task[d].at # "uncount" /\ task'[d].at # "links"
                         /\ (d # c => task'[d].at # "uncount")
  BY <1>3, <1>4, <1>9, OthersIdle
<1>11. DOMAIN dentry' = DOMAIN dentry \ {e} /\ \A f \in DOMAIN dentry' : dentry'[f] = dentry[f]
  BY Zenon, <1>2 DEF Drop
<1>12. IsFiniteSet(DOMAIN dentry')
  BY <1>1, <1>11, FS_Subset DEF Numbers
<1>13. Numbers'
  BY Zenon, <1>1, <1>2, <1>7, <1>11, <1>12 DEF Numbers, Ino, Root
<1>14. Knows(c)'
  <2>1. task'[c].at \in Removing /\ task'[c].at \notin {"untarget", "rows"}
    BY <1>4 DEF Removing
  <2>2. IsDir(p)' /\ (task'[c].op = "rmdir" <=> IsDir(i)') /\ task'[c].op \in {"unlink", "rmdir"}
    BY Zenon, <1>4, <1>5, <1>7
  <2> QED BY Zenon, <1>4, <1>5, <1>6, <1>8, <2>1, <2>2, KnowsRemoving
<1>15. ASSUME NEW x, x # i PROVE Balance(x)' = Balance(x)
  <2>1. NamesOf(x)' = NamesOf(x) /\ skew'[x] = skew[x]
    BY Zenon, <1>2, <1>6, <1>15
  <2>2. task'[c].at # "links" /\ task'[c].ino # x
    BY Zenon, <1>4, <1>10, <1>15
  <2> QED BY Zenon, <1>3, <1>4, <2>1, <2>2, SameBalance
<1>16. ~IsDir(i) => Balance(i)' = Balance(i)
  <2> SUFFICES ASSUME ~IsDir(i) PROVE Balance(i)' = Balance(i)
    BY Zenon
  <2>1. Linked(i) = NamesOf(i) /\ Linked(i)' = NamesOf(i) \ {e}
    BY Zenon, <1>6, <1>10 DEF Linked
  <2>2. task[c].op = "unlink"
    BY Zenon, <1>5
  <2>3. Late(i) = 0
    BY Zenon, <1>10 DEF Late
  <2>4. Late(i)' = 1
    BY Zenon, <1>4, <2>2 DEF Late
  <2>5. NamesOf(i) \subseteq DOMAIN dentry /\ IsFiniteSet(DOMAIN dentry)
    BY Zenon, <1>1 DEF NamesOf, Numbers
  <2>6. IsFiniteSet(NamesOf(i))
    BY Zenon, <2>5, FS_Subset
  <2>7. Cardinality(NamesOf(i) \ {e}) = Cardinality(NamesOf(i)) - 1 /\ Cardinality(NamesOf(i)) \in Nat
    BY Zenon, <1>6, <2>6, FS_RemoveElement, FS_CardinalityType
  <2>8. skew[i] \in Int /\ skew'[i] = skew[i]
    BY <1>1, <1>2, <1>5 DEF Numbers
  <2>9. Balance(i)' = Cardinality(Linked(i)') + Late(i)' + skew'[i]
    BY Zenon DEF Balance
  <2>10. Balance(i) = Cardinality(NamesOf(i)) + 0 + skew[i]
    BY Zenon, <2>1, <2>3 DEF Balance
  <2>11. Balance(i)' = (Cardinality(NamesOf(i)) - 1) + 1 + skew[i]
    BY Zenon, <2>1, <2>4, <2>7, <2>8, <2>9
  <2> QED BY <2>7, <2>8, <2>10, <2>11
<1>17. Counted'
  BY Zenon, <1>1, <1>2, <1>15, <1>16, SameCounted
<1> QED BY Zenon, <1>3, <1>4, <1>6, <1>9, <1>13, <1>14, <1>17, RemovalAfter

\* Client c uncounts the link of an entry that is gone, or dies before it does: the
\* balance of its inode has one link less, before skew.
LEMMA LateSettled ==
  ASSUME Sound, NEW c \in Client, task[c].at = "uncount", task[c].op = "unlink", dentry' = dentry,
         task'[c].at \notin {"links", "uncount"}, \A d \in Client : d # c => task'[d] = task[d],
         NEW i, i = task[c].ino
  PROVE  /\ Linked(i)' = Linked(i) /\ Cardinality(Linked(i)) \in Nat
         /\ Late(i) = 1 /\ Late(i)' = 0
<1>1. task[c].at # "idle" /\ task[c].op \in Removal
  BY DEF Removal
<1>2. \A d \in Client : d # c => task[d].at = "idle"
  BY Zenon, <1>1, OthersIdle
<1>3. \A d \in Client : task[d].at # "links" /\ task'[d].at # "links" /\ task'[d].at # "uncount"
  BY <1>2
<1>4. Linked(i)' = Linked(i)
  BY Zenon, <1>3 DEF Linked, NamesOf
<1>5. Late(i) = 1
  BY Zenon DEF Late
<1>6. Late(i)' = 0
  BY Zenon, <1>3 DEF Late
<1>7. Linked(i) \subseteq DOMAIN dentry /\ IsFiniteSet(DOMAIN dentry)
  BY Zenon DEF Linked, NamesOf, Sound, Numbers
<1>8. IsFiniteSet(Linked(i))
  BY Zenon, <1>7, FS_Subset
<1> QED BY Zenon, <1>4, <1>5, <1>6, <1>8, FS_CardinalityType

\* UPDATE fs_inode SET nlink = nlink - 1
LEMMA UncountStep ==
  ASSUME Sound, NEW c \in Client, Uncount(c)
  PROVE  Sound'
<1>p. PICK i : i = task[c].ino
  BY Zenon
<1>s. PICK s : s = IF task[c].op = "rmdir" THEN "unparent" ELSE "check"
  BY Zenon
<1>1. /\ DOMAIN task = Client /\ Numbers /\ Knows(c) /\ Counted
      /\ task[c].at # "idle" => Wide(task[c])
  BY Zenon DEF Sound, Shape
<1>2. /\ task[c].at = "uncount" /\ GoTo(c, s) /\ UNCHANGED <<mode, dentry, lastIno, skew>>
      /\ nlink' = AddLinks(nlink, i, -1)
  BY Zenon, <1>p, <1>s DEF Uncount, At, deaths
<1>3. task[c].at # "idle" /\ task[c].at \in Removing /\ task[c].at # "links"
  BY <1>2 DEF Removing
<1>4. /\ s \in Removing /\ s \notin {"untarget", "rows"} /\ s \notin {"links", "uncount"}
  BY <1>s DEF Removing
<1>5. task'[c].at = s /\ \A d \in Client : d # c => task'[d] = task[d]
  BY Zenon, <1>1, <1>2, <1>3, GoToIs
<1>6. task[c].op \in {"unlink", "rmdir"} /\ (task[c].op = "rmdir" <=> IsDir(i)) /\ i \in Ino /\ i # Root
  BY Zenon, <1>1, <1>2, <1>3, <1>p DEF Knows
<1>7. /\ DOMAIN nlink' = DOMAIN nlink /\ (\A x \in DOMAIN nlink : nlink'[x] \in Int)
      /\ \A x \in DOMAIN nlink : x # i => nlink'[x] = nlink[x]
      /\ i \in DOMAIN nlink => nlink'[i] = nlink[i] + (-1)
  BY <1>1, <1>2 DEF Numbers, AddLinks
<1>8. ASSUME NEW x, x # i PROVE Balance(x)' = Balance(x)
  <2>1. NamesOf(x)' = NamesOf(x) /\ skew'[x] = skew[x]
    BY Zenon, <1>2, SameTables
  <2>2. task'[c].at # "links" /\ task'[c].at # "uncount" /\ task[c].ino # x
    BY <1>4, <1>5, <1>8, <1>p
  <2> QED BY Zenon, <1>3, <1>5, <2>1, <2>2, SameBalance
<1>9. DOMAIN nlink = DOMAIN mode /\ DOMAIN mode' = DOMAIN mode /\ \A x : IsDir(x)' <=> IsDir(x)
  BY Zenon, <1>1, <1>2, SameTables DEF Numbers
<1>10. ~IsDir(i) => IF i \in DOMAIN mode' THEN nlink'[i] = Balance(i)' ELSE Balance(i)' <= 0
  <2> SUFFICES ASSUME ~IsDir(i)
               PROVE  IF i \in DOMAIN mode' THEN nlink'[i] = Balance(i)' ELSE Balance(i)' <= 0
    BY Zenon
  <2>1. task[c].op = "unlink"
    BY Zenon, <1>6
  <2>2. /\ Linked(i)' = Linked(i) /\ Cardinality(Linked(i)) \in Nat
        /\ Late(i) = 1 /\ Late(i)' = 0
    BY Zenon, <1>2, <1>4, <1>5, <1>p, <2>1, LateSettled
  <2>3. skew[i] \in Int /\ skew'[i] = skew[i]
    BY <1>1, <1>2, <1>6 DEF Numbers
  <2>4. Balance(i)' = Cardinality(Linked(i)') + Late(i)' + skew'[i]
    BY Zenon DEF Balance
  <2>5. Balance(i)' = Balance(i) + (-1) /\ Balance(i) \in Int
    BY <2>2, <2>3, <2>4 DEF Balance
  <2>6. IF i \in DOMAIN mode THEN nlink[i] = Balance(i) ELSE Balance(i) <= 0
    BY Zenon, <1>1, <1>6 DEF Counted
  <2>7. CASE i \in DOMAIN mode
    BY Zenon, <1>7, <1>9, <2>5, <2>6, <2>7
  <2>8. CASE i \notin DOMAIN mode
    BY <1>9, <2>5, <2>6, <2>8
  <2> QED BY Zenon, <2>7, <2>8
<1>11. Counted'
  <2>1. \A x \in Ino : x # Root /\ ~IsDir(x)' =>
          IF x \in DOMAIN mode' THEN nlink'[x] = Balance(x)' ELSE Balance(x)' <= 0
    BY Zenon, <1>1, <1>7, <1>8, <1>9, <1>10 DEF Counted
  <2> QED BY Zenon, <2>1 DEF Counted, Root, Ino
<1> QED BY Zenon, <1>2, <1>3, <1>4, <1>7, <1>11, RemovalGoes

\* The parent of a directory that is removed.
LEMMA UncountParentStep ==
  ASSUME Sound, NEW c \in Client, UncountParent(c)
  PROVE  Sound'
<1>p. PICK p : p = task[c].p
  BY Zenon
<1>1. /\ DOMAIN task = Client /\ Numbers /\ Knows(c) /\ Counted
      /\ task[c].at # "idle" => Wide(task[c])
  BY Zenon DEF Sound, Shape
<1>2. /\ task[c].at = "unparent" /\ GoTo(c, "check") /\ UNCHANGED <<mode, dentry, lastIno, skew>>
      /\ nlink' = AddLinks(nlink, p, -1)
  BY Zenon, <1>p DEF UncountParent, At, deaths
<1>3. task[c].at # "idle" /\ task[c].at \in Removing /\ task[c].at # "links" /\ task[c].at # "uncount"
      /\ "check" \in Removing /\ "check" \notin {"untarget", "rows"}
  BY <1>2 DEF Removing
<1>5. /\ task'[c].at # "links" /\ task'[c].at # "uncount" /\ \A d \in Client : d # c => task'[d] = task[d]
  <2>1. task'[c].at = "check" /\ \A d \in Client : d # c => task'[d] = task[d]
    BY Zenon, <1>1, <1>2, <1>3, GoToIs
  <2> QED BY <2>1
<1>6. IsDir(p)
  BY Zenon, <1>1, <1>2, <1>3, <1>p DEF Knows
<1>7. /\ DOMAIN nlink' = DOMAIN nlink /\ (\A x \in DOMAIN nlink : nlink'[x] \in Int)
      /\ \A x \in DOMAIN nlink : x # p => nlink'[x] = nlink[x]
  BY <1>1, <1>2 DEF Numbers, AddLinks
<1>8. ASSUME NEW x PROVE Balance(x)' = Balance(x)
  <2>1. NamesOf(x)' = NamesOf(x) /\ skew'[x] = skew[x]
    BY Zenon, <1>2, SameTables
  <2> QED BY Zenon, <1>3, <1>5, <2>1, SameBalance
<1>9. DOMAIN nlink = DOMAIN mode /\ mode' = mode
  BY Zenon, <1>1, <1>2 DEF Numbers
<1>10. Counted'
  BY Zenon, <1>1, <1>6, <1>7, <1>8, <1>9, SameCounted
<1> QED BY Zenon, <1>2, <1>3, <1>7, <1>10, RemovalGoes

\* Statements that change no row of fs_inode and fs_dentry.
LEMMA CheckStep ==
  ASSUME Sound, NEW c \in Client, CheckLinks(c) \/ DeleteTarget(c)
  PROVE  Sound'
<1>1. /\ DOMAIN task = Client /\ Numbers /\ Knows(c) /\ Counted /\ Forest
      /\ task[c].at # "idle" => Wide(task[c])
  BY Zenon DEF Sound, Shape
<1>2. UNCHANGED <<mode, dentry, nlink, lastIno, skew>>
  BY Zenon DEF CheckLinks, DeleteTarget, deaths, vars, rows
<1>3. \/ task[c].at = "check" /\ Done(c)
      \/ /\ \E s \in {"untarget", "rows"} : GoTo(c, s)
         /\ task[c].at \in {"check", "untarget"}
         /\ NoLinks(task[c].ino, nlink)
  BY Zenon, <1>1 DEF CheckLinks, DeleteTarget, At, Knows
<1>4. task[c].at # "idle" /\ task[c].at \in Removing /\ task[c].at # "links" /\ task[c].at # "uncount"
  BY <1>3 DEF Removing
<1>5. /\ task'[c].at # "links" /\ task'[c].at # "uncount" /\ \A d \in Client : d # c => task'[d] = task[d]
  <2>1. task'[c].at \in {"idle", "untarget", "rows"} /\ \A d \in Client : d # c => task'[d] = task[d]
    BY Zenon, <1>1, <1>3, <1>4, GoToIs, DoneIs
  <2> QED BY <2>1
<1>6. ASSUME NEW x PROVE Balance(x)' = Balance(x)
  <2>1. NamesOf(x)' = NamesOf(x) /\ skew'[x] = skew[x]
    BY Zenon, <1>2, SameTables
  <2> QED BY Zenon, <1>4, <1>5, <2>1, SameBalance
<1>7. Counted' /\ Forest' /\ Numbers'
  BY Zenon, <1>1, <1>2, <1>6, SameCounted, SameForest, SameNumbers DEF Numbers
<1>8. task[c].op \in Removal
  BY Zenon, <1>1, <1>4 DEF Knows, Removal
<1>9. CASE Done(c)
  BY Zenon, <1>4, <1>7, <1>8, <1>9, RemovalDone
<1>10. CASE (\E s \in {"untarget", "rows"} : GoTo(c, s)) /\ NoLinks(task[c].ino, nlink)
  <2>1. PICK s \in {"untarget", "rows"} : GoTo(c, s)
    BY Zenon, <1>10
  <2>2. s \in Removing
    BY Zenon DEF Removing
  <2>3. DOMAIN nlink' = DOMAIN nlink /\ \A x \in DOMAIN nlink : nlink'[x] \in Int
    BY Zenon, <1>1, <1>2 DEF Numbers
  <2> QED BY Zenon, <1>2, <1>4, <1>7, <1>10, <2>1, <2>2, <2>3, RemovalGoes
<1> QED BY Zenon, <1>3, <1>9, <1>10

\* The row of an inode goes that is no directory with a name or entries.
LEMMA ForestPurge ==
  ASSUME Forest, NEW i, i # Root, IsDir(i) => NamesOf(i) = {} /\ Entries(i) = {},
         mode' = Drop(mode, i), dentry' = dentry
  PROVE  Forest'
<1>1. DOMAIN mode' = DOMAIN mode \ {i} /\ \A x \in DOMAIN mode' : mode'[x] = mode[x]
  BY Zenon DEF Drop
<1>2. \A d : /\ Entries(d)' = Entries(d) /\ (Named(d)' <=> Named(d))
             /\ d # i => (IsDir(d)' <=> IsDir(d))
             /\ IsDir(d)' => IsDir(d)
  BY Zenon, <1>1 DEF Named, NamesOf, Entries, IsDir, Root
<1>3. \A e \in DOMAIN dentry : e[1] # i
  BY Zenon DEF Entries, Forest
<1>4. IsDir(Root)' /\ \A f \in DOMAIN dentry' : IsDir(f[1])' /\ dentry'[f] \in Ino /\ dentry'[f] # Root
  BY Zenon, <1>2, <1>3 DEF Forest
<1>5. (\A f, g \in DOMAIN dentry : IsDir(dentry[f]) /\ dentry[f] = dentry[g] => f = g)'
  <2> SUFFICES ASSUME NEW f \in DOMAIN dentry, NEW g \in DOMAIN dentry, NEW x, x = dentry[f], dentry[g] = x,
                      IsDir(x)'
               PROVE  f = g
    BY Zenon
  <2> QED BY Zenon, <1>2 DEF Forest
<1>6. \A d \in DOMAIN mode' : IsDir(d)' /\ ~Named(d)' => Entries(d)' = {}
  BY Zenon, <1>1, <1>2 DEF Forest
<1> QED BY Zenon, <1>4, <1>5, <1>6 DEF Forest, Root, Ino

\* DELETE FROM fs_inode
LEMMA DeleteInodeStep ==
  ASSUME Sound, NEW c \in Client, DeleteInode(c)
  PROVE  Sound'
<1>p. PICK i : i = task[c].ino
  BY Zenon
<1>1. DOMAIN task = Client /\ Numbers /\ Knows(c) /\ Counted /\ Forest
  BY Zenon DEF Sound, Shape
<1>2. /\ task[c].at = "rows" /\ Done(c) /\ UNCHANGED <<dentry, lastIno, skew>>
      /\ mode' = Drop(mode, i) /\ nlink' = Drop(nlink, i)
  BY Zenon, <1>p DEF DeleteInode, At, deaths
<1>3. task[c].at # "idle" /\ task[c].at \in Removing /\ task[c].at # "links" /\ task[c].at # "uncount"
  BY <1>2 DEF Removing
<1>4. /\ i \in Ino /\ i # Root /\ NoLinks(i, nlink) /\ task[c].op \in {"unlink", "rmdir"}
      /\ IsDir(i) => NamesOf(i) = {} /\ Entries(i) = {}
  BY Zenon, <1>1, <1>2, <1>3, <1>p DEF Knows
<1>5. /\ DOMAIN task' = Client /\ task'[c].at # "links" /\ task'[c].at # "uncount"
      /\ \A d \in Client : d # c => task'[d] = task[d]
  <2>1. DOMAIN task' = Client /\ task'[c].at = "idle" /\ \A d \in Client : d # c => task'[d] = task[d]
    BY Zenon, <1>1, <1>2, DoneIs
  <2> QED BY <2>1
<1>6. Forest'
  BY Zenon, <1>1, <1>2, <1>4, ForestPurge
<1>7. /\ DOMAIN mode' = DOMAIN mode \ {i} /\ \A x \in DOMAIN mode' : mode'[x] = mode[x]
      /\ DOMAIN nlink' = DOMAIN mode' /\ \A x \in DOMAIN nlink' : nlink'[x] = nlink[x]
  BY Zenon, <1>1, <1>2 DEF Drop, Numbers
<1>8. \A x : (IsDir(x)' => IsDir(x)) /\ (x # i => (IsDir(x)' <=> IsDir(x)))
  BY Zenon, <1>7 DEF IsDir
<1>9. Numbers'
  BY Zenon, <1>1, <1>2, <1>7, <1>8 DEF Numbers, Ino, Root
<1>10. ASSUME NEW x PROVE Balance(x)' = Balance(x)
  <2>1. NamesOf(x)' = NamesOf(x) /\ skew'[x] = skew[x]
    BY Zenon, <1>2 DEF NamesOf
  <2> QED BY Zenon, <1>3, <1>5, <2>1, SameBalance
<1>11. task[c].op \in Removal
  BY Zenon, <1>4 DEF Removal
<1>12. Balance(i) <= 0
  <2>1. CASE IsDir(i)
    <3>1. Linked(i) = {}
      BY Zenon, <1>4, <2>1 DEF Linked
    <3>2. Cardinality(Linked(i)) = 0
      BY Zenon, <3>1, FS_EmptySet
    <3>3. \A d \in Client : task[d].at # "uncount"
      BY <1>3, <1>11, OthersIdle
    <3>4. Late(i) = 0
      BY Zenon, <3>3 DEF Late
    <3>5. skew[i] = 0
      BY Zenon, <1>1, <1>4, <2>1 DEF Numbers
    <3> QED BY <3>2, <3>4, <3>5 DEF Balance
  <2>2. CASE ~IsDir(i) /\ i \in DOMAIN mode
    <3>1. nlink[i] = 0 /\ nlink[i] = Balance(i)
      BY Zenon, <1>1, <1>4, <2>2 DEF NoLinks, Counted, Numbers
    <3> QED BY <3>1
  <2>3. CASE i \notin DOMAIN mode
    BY Zenon, <1>1, <1>4, <2>3 DEF Counted, IsDir
  <2> QED BY Zenon, <2>1, <2>2, <2>3
<1>13. Counted'
  <2>1. \A x \in Ino : x # Root /\ ~IsDir(x)' =>
          IF x \in DOMAIN mode' THEN nlink'[x] = Balance(x)' ELSE Balance(x)' <= 0
    BY Zenon, <1>1, <1>7, <1>8, <1>10, <1>12 DEF Counted
  <2> QED BY Zenon, <2>1 DEF Counted, Root, Ino
<1> QED BY Zenon, <1>2, <1>3, <1>6, <1>9, <1>11, <1>13, RemovalDone

\* The name of inode s moves from one entry to another (its row goes with the row it
\* replaces if they are the same), and the inode that is replaced may go.
MovedTo(from, to) ==
  /\ \A e \in DOMAIN dentry' : e # to => e \in DOMAIN dentry /\ e # from /\ dentry'[e] = dentry[e]
  /\ to \in DOMAIN dentry' => from # to /\ dentry'[to] = dentry[from]
  /\ \A e \in DOMAIN dentry : e # from /\ e # to => e \in DOMAIN dentry'
  /\ from # to => to \in DOMAIN dentry'

LEMMA ForestMove ==
  ASSUME Forest, NEW from \in DOMAIN dentry, NEW to, NEW s, s = dentry[from], Parent(to[1]),
         MovedTo(from, to), IsDir(s) => from # to,
         to \in DOMAIN dentry => Entries(dentry[to]) = {},
         \/ mode' = mode
         \/ to \in DOMAIN dentry /\ mode' = Drop(mode, dentry[to])
  PROVE  Forest'
<1>1. /\ DOMAIN mode' \subseteq DOMAIN mode /\ \A x \in DOMAIN mode' : mode'[x] = mode[x]
      /\ \A x \in DOMAIN mode : x \in DOMAIN mode' \/ (to \in DOMAIN dentry /\ x = dentry[to])
  BY Zenon DEF Drop
<1>2. \A e \in DOMAIN dentry : ~(to \in DOMAIN dentry /\ e[1] = dentry[to])
  BY Zenon DEF Entries
<1>3. /\ \A e \in DOMAIN dentry : IsDir(e[1]) /\ dentry[e] \in Ino /\ dentry[e] # Root
      /\ IsDir(Root) /\ IsDir(to[1])
  BY Zenon DEF Forest, Parent
<1>4. \A d : /\ IsDir(d)' => IsDir(d)
             /\ IsDir(d) => IsDir(d)' \/ (to \in DOMAIN dentry /\ d = dentry[to])
  BY Zenon, <1>1 DEF IsDir
<1>5. ~(to \in DOMAIN dentry /\ to[1] = dentry[to])
  BY Zenon, <1>2
<1>6. IsDir(Root)' /\ \A f \in DOMAIN dentry' : IsDir(f[1])' /\ dentry'[f] \in Ino /\ dentry'[f] # Root
  <2>1. IsDir(Root)'
    BY Zenon, <1>3, <1>4
  <2>2. ASSUME NEW f \in DOMAIN dentry' PROVE IsDir(f[1])' /\ dentry'[f] \in Ino /\ dentry'[f] # Root
    <3>1. CASE f = to
      BY Zenon, <1>3, <1>4, <1>5, <3>1 DEF MovedTo
    <3>2. CASE f # to
      BY Zenon, <1>2, <1>3, <1>4, <3>2 DEF MovedTo
    <3> QED BY Zenon, <3>1, <3>2
  <2> QED BY Zenon, <2>1, <2>2
<1>7. (\A f, g \in DOMAIN dentry : IsDir(dentry[f]) /\ dentry[f] = dentry[g] => f = g)'
  <2> SUFFICES ASSUME NEW f \in DOMAIN dentry', NEW g \in DOMAIN dentry', NEW x, x = dentry'[f],
                      dentry'[g] = x, IsDir(x)'
               PROVE  f = g
    BY Zenon
  <2>1. IsDir(x)
    BY Zenon, <1>4
  <2>2. \A e, h \in DOMAIN dentry : dentry[e] = x /\ dentry[h] = x => e = h
    BY Zenon, <2>1 DEF Forest
  <2>3. /\ f # to => f \in DOMAIN dentry /\ f # from /\ dentry[f] = x
        /\ g # to => g \in DOMAIN dentry /\ g # from /\ dentry[g] = x
        /\ f = to \/ g = to => dentry[from] = x
    BY Zenon DEF MovedTo
  <2> QED BY Zenon, <2>2, <2>3
<1>8. ASSUME NEW d \in DOMAIN mode', IsDir(d)', ~Named(d)' PROVE Entries(d)' = {}
  <2> SUFFICES ASSUME NEW f \in DOMAIN dentry', f[1] = d PROVE FALSE
    BY Zenon DEF Entries
  <2>1. ~(to \in DOMAIN dentry /\ d = dentry[to])
    <3>1. CASE f = to
      BY Zenon, <1>5, <3>1
    <3>2. CASE f # to
      BY Zenon, <1>2, <3>2 DEF MovedTo
    <3> QED BY Zenon, <3>1, <3>2
  <2>2. Named(d)
    <3>1. CASE f = to
      BY Zenon, <3>1 DEF Parent
    <3>2. CASE f # to
      <4>1. f \in DOMAIN dentry /\ f \in Entries(d)
        BY Zenon, <3>2 DEF MovedTo, Entries
      <4>2. d \in DOMAIN mode /\ IsDir(d)
        BY Zenon, <1>1, <1>4, <1>8
      <4> QED BY Zenon, <4>1, <4>2 DEF Forest
    <3> QED BY Zenon, <3>1, <3>2
  <2>3. d # Root /\ \A e \in DOMAIN dentry' : dentry'[e] # d
    BY Zenon, <1>8 DEF Named, NamesOf, Root
  <2>4. PICK g \in DOMAIN dentry : dentry[g] = d
    BY Zenon, <2>2, <2>3 DEF Named, NamesOf
  <2>5. g # to
    BY Zenon, <2>1, <2>4
  <2>6. CASE g = from
    BY Zenon, <1>4, <1>8, <2>3, <2>4, <2>6 DEF MovedTo
  <2>7. CASE g # from
    BY Zenon, <2>3, <2>4, <2>5, <2>7 DEF MovedTo
  <2> QED BY Zenon, <2>6, <2>7
<1> QED BY Zenon, <1>6, <1>7, <1>8 DEF Forest, Root, Ino

\* The inode that is replaced loses one name, and no other has more or fewer.
LEMMA NamesMoved ==
  ASSUME IsFiniteSet(DOMAIN dentry), NEW from \in DOMAIN dentry, NEW to, MovedTo(from, to), NEW x
  PROVE  /\ Cardinality(NamesOf(x)) \in Nat /\ IsFiniteSet(DOMAIN dentry')
         /\ Cardinality(NamesOf(x)') = IF to \in DOMAIN dentry /\ x = dentry[to]
                                       THEN Cardinality(NamesOf(x)) - 1
                                       ELSE Cardinality(NamesOf(x))
<1>1. IsFiniteSet(NamesOf(x))
  <2>1. NamesOf(x) \subseteq DOMAIN dentry
    BY Zenon DEF NamesOf
  <2> QED BY Zenon, <2>1, FS_Subset
<1>2. Cardinality(NamesOf(x)) \in Nat
  BY Zenon, <1>1, FS_CardinalityType
<1>3. IsFiniteSet(DOMAIN dentry')
  <2>1. DOMAIN dentry' \subseteq DOMAIN dentry \cup {to}
    BY Zenon DEF MovedTo
  <2>2. IsFiniteSet(DOMAIN dentry \cup {to})
    BY Zenon, FS_AddElement
  <2> QED BY Zenon, <2>1, <2>2, FS_Subset
<1>4. CASE to \in DOMAIN dentry /\ x = dentry[to]
  <2>1. PICK e : e = IF x = dentry[from] THEN from ELSE to
    BY Zenon
  <2>2. NamesOf(x)' = NamesOf(x) \ {e}
    <3>1. CASE x = dentry[from]
      BY Zenon, <1>4, <2>1, <3>1 DEF NamesOf, MovedTo
    <3>2. CASE x # dentry[from]
      BY Zenon, <1>4, <2>1, <3>2 DEF NamesOf, MovedTo
    <3> QED BY Zenon, <3>1, <3>2
  <2>3. e \in NamesOf(x)
    BY Zenon, <1>4, <2>1 DEF NamesOf
  <2>4. Cardinality(NamesOf(x) \ {e}) = Cardinality(NamesOf(x)) - 1
    BY Zenon, <1>1, <2>3, FS_RemoveElement
  <2> QED BY Zenon, <1>2, <1>3, <1>4, <2>2, <2>4
<1>5. CASE ~(to \in DOMAIN dentry /\ x = dentry[to])
  <2>1. CASE x = dentry[from]
    <3>1. from # to
      BY Zenon, <1>5, <2>1
    <3>2. NamesOf(x)' = (NamesOf(x) \ {from}) \cup {to}
      BY Zenon, <2>1, <3>1 DEF NamesOf, MovedTo
    <3>3. from \in NamesOf(x) /\ to \notin NamesOf(x) \ {from}
      BY Zenon, <1>5, <2>1 DEF NamesOf
    <3>4. Cardinality(NamesOf(x) \ {from}) = Cardinality(NamesOf(x)) - 1 /\ IsFiniteSet(NamesOf(x) \ {from})
      BY Zenon, <1>1, <3>3, FS_RemoveElement
    <3>5. Cardinality((NamesOf(x) \ {from}) \cup {to}) = Cardinality(NamesOf(x) \ {from}) + 1
      BY Zenon, <3>3, <3>4, FS_AddElement
    <3>6. Cardinality(NamesOf(x)') = Cardinality(NamesOf(x)) - 1 + 1
      BY Zenon, <3>2, <3>4, <3>5
    <3>7. Cardinality(NamesOf(x)') = Cardinality(NamesOf(x))
      BY <1>2, <3>6
    <3> QED BY Zenon, <1>2, <1>3, <1>5, <3>7
  <2>2. CASE x # dentry[from]
    <3>1. NamesOf(x)' = NamesOf(x)
      BY Zenon, <1>5, <2>2 DEF NamesOf, MovedTo
    <3> QED BY Zenon, <1>2, <1>3, <1>5, <3>1
  <2> QED BY Zenon, <2>1, <2>2
<1> QED BY Zenon, <1>4, <1>5

\* Moved is a move.
LEMMA MovedIs ==
  ASSUME NEW from \in DOMAIN dentry, NEW to,
         \/ to \notin DOMAIN dentry /\ dentry' = Moved(dentry, from, to)
         \/ dentry' = Moved(Drop(dentry, to), from, to)
  PROVE  MovedTo(from, to)
<1>1. CASE from # to
  <2>1. /\ DOMAIN dentry' = (DOMAIN dentry \ {from}) \cup {to} /\ dentry'[to] = dentry[from]
        /\ \A e \in DOMAIN dentry \ {from, to} : dentry'[e] = dentry[e]
    <3>1. CASE to \notin DOMAIN dentry /\ dentry' = Moved(dentry, from, to)
      BY <1>1, <3>1 DEF Moved, Put, Drop
    <3>2. CASE dentry' = Moved(Drop(dentry, to), from, to)
      BY <1>1, <3>2 DEF Moved, Put, Drop
    <3> QED BY Zenon, <3>1, <3>2
  <2> QED BY Zenon, <1>1, <2>1 DEF MovedTo
<1>2. CASE from = to
  <2>1. dentry' = Drop(dentry, to)
    BY Zenon, <1>2 DEF Moved, Drop
  <2> QED BY Zenon, <1>2, <2>1 DEF MovedTo, Drop
<1> QED BY Zenon, <1>1, <1>2

\* Reparenting a directory changes the counts of the two parents only.
LEMMA ReparentedIs ==
  ASSUME NEW links, NEW dir, NEW p, NEW q, \A x \in DOMAIN links : links[x] \in Int,
         NEW base, base = Reparented(links, dir, p, q)
  PROVE  /\ DOMAIN base = DOMAIN links
         /\ \A x \in DOMAIN links : base[x] \in Int /\ (x # p /\ x # q => base[x] = links[x])
<1>1. CASE dir /\ p # q
  <2>1. PICK less : less = AddLinks(links, p, -1)
    BY Zenon
  <2>2. DOMAIN less = DOMAIN links /\ \A x \in DOMAIN links : less[x] \in Int /\ (x # p => less[x] = links[x])
    BY <2>1 DEF AddLinks
  <2>3. base = AddLinks(less, q, 1)
    BY Zenon, <1>1, <2>1 DEF Reparented
  <2>4. DOMAIN base = DOMAIN less /\ \A x \in DOMAIN less : base[x] \in Int /\ (x # q => base[x] = less[x])
    BY <2>2, <2>3 DEF AddLinks
  <2> QED BY Zenon, <2>2, <2>4
<1>2. CASE ~(dir /\ p # q)
  <2>1. base = links
    BY Zenon, <1>2 DEF Reparented
  <2> QED BY Zenon, <2>1
<1> QED BY Zenon, <1>1, <1>2

\* The transaction of rename
LEMMA RenameTxnStep ==
  ASSUME Sound, NEW c \in Client, RenameTxn(c)
  PROVE  Sound'
<1>f. PICK from : from = Entry(c)
  BY Zenon
<1>t. PICK to : to = <<task[c].q, task[c].r>>
  BY Zenon
<1>d. PICK d : d = dentry[to]
  BY Zenon
<1>p. PICK p, q, dir : p = task[c].p /\ q = task[c].q /\ dir = task[c].dir
  BY Zenon
<1>1. DOMAIN task = Client /\ Numbers /\ Knows(c) /\ Counted /\ Forest
  BY Zenon DEF Sound, Shape
<1>2. task[c].at = "rename" /\ Done(c) /\ UNCHANGED <<lastIno, skew>>
  BY Zenon DEF RenameTxn, At, deaths
<1>3. task[c].at # "idle" /\ task[c].at # "links" /\ task[c].at # "uncount"
  BY <1>2
<1>4. /\ task[c].op \in Removal /\ Parent(q) /\ (dir <=> IsDir(dentry[from]))
      /\ from \in DOMAIN dentry /\ (dir => from # to)
  BY Zenon, <1>1, <1>2, <1>f, <1>t, <1>p DEF Knows, Removal
<1>5. /\ DOMAIN task' = Client /\ task'[c].at # "links" /\ task'[c].at # "uncount"
      /\ \A x \in Client : x # c => task'[x] = task[x]
  <2>1. DOMAIN task' = Client /\ task'[c].at = "idle" /\ \A x \in Client : x # c => task'[x] = task[x]
    BY Zenon, <1>1, <1>2, DoneIs
  <2> QED BY <2>1
<1>6. CASE UNCHANGED <<mode, nlink, dentry>>
  <2>1. ASSUME NEW x PROVE Balance(x)' = Balance(x)
    <3>1. NamesOf(x)' = NamesOf(x) /\ skew'[x] = skew[x]
      BY Zenon, <1>2, <1>6, SameTables
    <3> QED BY Zenon, <1>3, <1>5, <3>1, SameBalance
  <2>2. Counted' /\ Forest' /\ Numbers'
    BY Zenon, <1>1, <1>2, <1>6, <2>1, SameCounted, SameForest, SameNumbers DEF Numbers
  <2> QED BY Zenon, <1>2, <1>3, <1>4, <2>2, RemovalDone
<1>7. ASSUME NEW base, MovedTo(from, to), DOMAIN base = DOMAIN mode, \A x \in DOMAIN base : base[x] \in Int,
             \A x \in DOMAIN mode : ~IsDir(x) =>
               base[x] = IF to \in DOMAIN dentry /\ x = d THEN nlink[x] - 1 ELSE nlink[x],
             \/ mode' = mode /\ nlink' = base
             \/ NoLinks(d, base) /\ mode' = Drop(mode, d) /\ nlink' = Drop(base, d)
                /\ to \in DOMAIN dentry,
             to \in DOMAIN dentry => d \in DOMAIN mode /\ (IsDir(d) <=> dir) /\ (IsDir(d) => Entries(d) = {})
      PROVE  Sound'
  <2>1. Parent(to[1])
    <3>1. to[1] = q
      BY Zenon, <1>t, <1>p
    <3> QED BY Zenon, <1>4, <3>1
  <2>2. to \in DOMAIN dentry => Entries(d) = {}
    <3>1. ~IsDir(d) => Entries(d) = {}
      BY Zenon, <1>1 DEF Entries, Forest
    <3> QED BY Zenon, <1>7, <3>1
  <2>3. PICK s : s = dentry[from]
    BY Zenon
  <2>4. Forest'
    <3>1. IsDir(s) => from # to
      BY Zenon, <1>4, <2>3
    <3>2. to \in DOMAIN dentry => Entries(dentry[to]) = {}
      BY Zenon, <1>d, <2>2
    <3>3. mode' = mode \/ (to \in DOMAIN dentry /\ mode' = Drop(mode, dentry[to]))
      BY Zenon, <1>d, <1>7
    <3> QED BY Zenon, <1>1, <1>4, <1>7, <2>1, <2>3, <3>1, <3>2, <3>3, ForestMove
  <2>5. IsFiniteSet(DOMAIN dentry)
    BY Zenon, <1>1 DEF Numbers
  <2>6. \A x : /\ Cardinality(NamesOf(x)) \in Nat /\ IsFiniteSet(DOMAIN dentry')
               /\ to \in DOMAIN dentry /\ x = d => Cardinality(NamesOf(x)') = Cardinality(NamesOf(x)) - 1
               /\ ~(to \in DOMAIN dentry /\ x = d) => Cardinality(NamesOf(x)') = Cardinality(NamesOf(x))
    BY Zenon, <1>4, <1>7, <1>d, <2>5, NamesMoved
  <2>7. \A e \in Client : task[e].at \notin {"links", "uncount"} /\ task'[e].at \notin {"links", "uncount"}
    <3>1. \A e \in Client : e # c => task[e].at = "idle"
      BY Zenon, <1>3, <1>4, OthersIdle
    <3> QED BY <1>3, <1>5, <3>1
  <2>8. \A x : Balance(x) = Cardinality(NamesOf(x)) + 0 + skew[x] /\ Balance(x)' = Cardinality(NamesOf(x)') + 0 + skew[x]
    <3>1. \A x : Linked(x) = NamesOf(x) /\ Linked(x)' = NamesOf(x)' /\ Late(x) = 0 /\ Late(x)' = 0
      BY Zenon, <2>7 DEF Linked, Late
    <3> QED BY Zenon, <1>2, <3>1 DEF Balance
  <2>9. /\ DOMAIN mode' \subseteq DOMAIN mode /\ \A x \in DOMAIN mode' : mode'[x] = mode[x]
        /\ DOMAIN nlink' = DOMAIN mode' /\ \A x \in DOMAIN nlink' : nlink'[x] = base[x]
        /\ \A x \in DOMAIN mode : x \in DOMAIN mode' \/ (to \in DOMAIN dentry /\ x = d /\ base[x] = 0)
    BY Zenon, <1>7 DEF Drop, NoLinks
  <2>10. \A x : (IsDir(x)' => IsDir(x)) /\ (x \in DOMAIN mode' => (IsDir(x)' <=> IsDir(x)))
    BY Zenon, <2>9 DEF IsDir
  <2>11. Numbers'
    <3>1. \A e \in DOMAIN dentry' : \E f \in DOMAIN dentry : dentry'[e] = dentry[f]
      BY Zenon, <1>4, <1>7 DEF MovedTo
    <3>2. \A e \in DOMAIN dentry' : dentry'[e] <= lastIno
      BY Zenon, <1>1, <3>1 DEF Numbers
    <3>3. \A i \in DOMAIN mode' : nlink'[i] \in Int
      BY Zenon, <1>7, <2>9
    <3>4. /\ lastIno' \in Nat /\ DOMAIN mode' \subseteq Ino \cup {Root} /\ skew' \in [Ino -> Int]
          /\ \A i \in DOMAIN mode' : i <= lastIno'
          /\ \A e \in DOMAIN dentry' : dentry'[e] <= lastIno'
      BY Zenon, <1>1, <1>2, <2>9, <3>2 DEF Numbers
    <3>5. \A i \in Ino : IsDir(i)' \/ i > lastIno' => skew'[i] = 0
      BY Zenon, <1>1, <1>2, <2>10 DEF Numbers
    <3> QED BY Zenon, <2>6, <2>9, <3>3, <3>4, <3>5 DEF Numbers, Ino, Root
  <2>12. ASSUME NEW x \in Ino, x # Root, ~IsDir(x)'
         PROVE  IF x \in DOMAIN mode' THEN nlink'[x] = Balance(x)' ELSE Balance(x)' <= 0
    <3>1. skew[x] \in Int
      BY <1>1 DEF Numbers
    <3>2. PICK m, m1 : m = Cardinality(NamesOf(x)) /\ m1 = Cardinality(NamesOf(x)')
      BY Zenon
    <3>3. m \in Nat /\ m1 = IF to \in DOMAIN dentry /\ x = d THEN m - 1 ELSE m
      BY Zenon, <2>6, <3>2
    <3>4. Balance(x) = m + 0 + skew[x] /\ Balance(x)' = m1 + 0 + skew[x]
      BY Zenon, <2>8, <3>2
    <3>5. CASE IsDir(x)
      <4>1. to \in DOMAIN dentry /\ x = d /\ x \notin DOMAIN mode'
        BY Zenon, <2>9, <2>10, <2>12, <3>5 DEF IsDir
      <4>2. NamesOf(x) = {to}
        BY Zenon, <1>1, <1>d, <3>5, <4>1 DEF NamesOf, Forest
      <4>3. m = 1
        BY Zenon, <3>2, <4>2, FS_Singleton
      <4>4. skew[x] = 0
        BY Zenon, <1>1, <3>5 DEF Numbers
      <4>5. Balance(x)' <= 0
        BY <3>3, <3>4, <4>1, <4>3, <4>4
      <4> QED BY Zenon, <4>1, <4>5
    <3>6. CASE ~IsDir(x) /\ x \in DOMAIN mode
      <4>1. nlink[x] = Balance(x)
        BY Zenon, <1>1, <2>12, <3>6 DEF Counted
      <4>2. base[x] = IF to \in DOMAIN dentry /\ x = d THEN nlink[x] - 1 ELSE nlink[x]
        BY Zenon, <1>7, <3>6
      <4>3. base[x] = Balance(x)'
        BY <3>1, <3>3, <3>4, <4>1, <4>2
      <4>4. CASE x \in DOMAIN mode'
        BY Zenon, <2>9, <4>3, <4>4
      <4>5. CASE x \notin DOMAIN mode'
        <5>1. Balance(x)' = 0
          BY Zenon, <2>9, <3>6, <4>3, <4>5
        <5>2. Balance(x)' <= 0
          BY <5>1
        <5> QED BY Zenon, <4>5, <5>2
      <4> QED BY Zenon, <4>4, <4>5
    <3>7. CASE x \notin DOMAIN mode
      <4>1. Balance(x) <= 0 /\ x \notin DOMAIN mode'
        BY Zenon, <1>1, <2>9, <2>12, <3>7 DEF Counted, IsDir
      <4>2. Balance(x)' <= 0
        BY <3>1, <3>3, <3>4, <4>1
      <4> QED BY Zenon, <4>1, <4>2
    <3> QED BY Zenon, <3>5, <3>6, <3>7
  <2>13. Counted'
    BY Zenon, <2>12 DEF Counted, Root, Ino
  <2> QED BY Zenon, <1>2, <1>3, <1>4, <2>4, <2>11, <2>13, RemovalDone
<1>8. IsDir(p) /\ IsDir(q) /\ DOMAIN nlink = DOMAIN mode /\ (\A x \in DOMAIN nlink : nlink[x] \in Int)
  <2>1. from[1] = p
    BY Zenon, <1>f, <1>p DEF Entry
  <2> QED BY Zenon, <1>1, <1>4, <2>1 DEF Forest, Parent, Numbers
<1>10. CASE to \notin DOMAIN dentry /\ dentry' = Moved(dentry, from, to) /\ mode' = mode
            /\ nlink' = Reparented(nlink, dir, p, q)
  <2>1. PICK base : base = Reparented(nlink, dir, p, q)
    BY Zenon
  <2>0. \A x \in DOMAIN nlink : nlink[x] \in Int
    BY Zenon, <1>8
  <2>2. /\ DOMAIN base = DOMAIN nlink
        /\ \A x \in DOMAIN nlink : base[x] \in Int /\ (x # p /\ x # q => base[x] = nlink[x])
    BY ONLY SMTT(30), <2>0, <2>1, ReparentedIs
  <2>3. MovedTo(from, to)
    BY Zenon, <1>4, <1>10, MovedIs
  <2>4. \A x \in DOMAIN mode : ~IsDir(x) =>
          base[x] = IF to \in DOMAIN dentry /\ x = d THEN nlink[x] - 1 ELSE nlink[x]
    BY Zenon, <1>8, <1>10, <2>2
  <2> QED BY Zenon, <1>7, <1>8, <1>10, <2>1, <2>2, <2>3, <2>4
<1>11. CASE /\ to \in DOMAIN dentry /\ dentry' = Moved(Drop(dentry, to), from, to)
            /\ d \in DOMAIN mode /\ (IsDir(d) <=> dir) /\ (IsDir(d) => Entries(d) = {})
            /\ DropInode(d, Reparented(AddLinks(nlink, d, -1), dir, p, q))
  <2>1. PICK less : less = AddLinks(nlink, d, -1)
    BY Zenon
  <2>2. DOMAIN less = DOMAIN nlink /\ \A x \in DOMAIN less : less[x] \in Int /\ less[x] = IF x = d THEN nlink[x] - 1 ELSE nlink[x]
    BY <1>8, <2>1 DEF AddLinks
  <2>3. PICK base : base = Reparented(less, dir, p, q)
    BY Zenon
  <2>0. \A x \in DOMAIN less : less[x] \in Int
    BY Zenon, <2>2
  <2>4. /\ DOMAIN base = DOMAIN less
        /\ \A x \in DOMAIN less : base[x] \in Int /\ (x # p /\ x # q => base[x] = less[x])
    BY ONLY SMTT(30), <2>0, <2>3, ReparentedIs
  <2>5. MovedTo(from, to)
    BY Zenon, <1>4, <1>11, MovedIs
  <2>6. DropInode(d, base)
    BY Zenon, <1>11, <2>1, <2>3
  <2>7. \/ mode' = mode /\ nlink' = base
        \/ NoLinks(d, base) /\ mode' = Drop(mode, d) /\ nlink' = Drop(base, d) /\ to \in DOMAIN dentry
    BY Zenon, <1>11, <2>6 DEF DropInode
  <2>8. \A x \in DOMAIN mode : ~IsDir(x) =>
          base[x] = IF to \in DOMAIN dentry /\ x = d THEN nlink[x] - 1 ELSE nlink[x]
    BY Zenon, <1>8, <1>11, <2>2, <2>4
  <2>9. DOMAIN base = DOMAIN mode /\ \A x \in DOMAIN base : base[x] \in Int
    BY Zenon, <1>8, <2>2, <2>4
  <2> QED BY Zenon, <1>7, <1>11, <2>5, <2>7, <2>8, <2>9
<1>12. \/ UNCHANGED <<mode, nlink, dentry>>
       \/ /\ to \notin DOMAIN dentry /\ dentry' = Moved(dentry, from, to) /\ mode' = mode
          /\ nlink' = Reparented(nlink, dir, p, q)
       \/ /\ to \in DOMAIN dentry /\ dentry' = Moved(Drop(dentry, to), from, to) /\ ~Refused(c)
          /\ DropInode(d, Reparented(AddLinks(nlink, d, -1), dir, p, q))
  BY Zenon, <1>f, <1>t, <1>d, <1>p DEF RenameTxn, Purge, Entry
<1>13. to \in DOMAIN dentry /\ ~Refused(c) =>
         d \in DOMAIN mode /\ (IsDir(d) <=> dir) /\ (IsDir(d) => Entries(d) = {})
  <2>1. IsDir(d) \in BOOLEAN
    BY Zenon DEF IsDir
  <2>2. to \in DOMAIN dentry /\ ~Refused(c) => IsDir(d) = dir
    BY Zenon, <1>t, <1>d, <1>p DEF Refused
  <2> QED BY Zenon, <1>t, <1>d, <1>p, <2>1, <2>2 DEF Refused
<1> QED BY Zenon, <1>6, <1>10, <1>11, <1>12, <1>13

\* A client dies: what it leaves uncounted goes to skew.
LEMMA CrashStep ==
  ASSUME Sound, NEW c \in Client, Crash(c)
  PROVE  Sound'
<1>p. PICK i : i = task[c].ino
  BY Zenon
<1>u. PICK u : u = Uncounted(task[c])
  BY Zenon
<1>1. DOMAIN task = Client /\ Numbers /\ Knows(c) /\ Counted /\ Forest
  BY Zenon DEF Sound, Shape
<1>2. /\ task[c].at # "idle" /\ Done(c) /\ UNCHANGED <<mode, nlink, dentry, lastIno>>
      /\ skew' = AddLinks(skew, i, u)
  BY Zenon, <1>p, <1>u DEF Crash, At, vars, rows
<1>3. /\ DOMAIN task' = Client /\ task'[c].at = "idle" /\ \A d \in Client : d # c => task'[d] = task[d]
  BY Zenon, <1>1, <1>2, DoneIs
<1>4. task'[c].at \notin {"links", "uncount"}
  BY <1>3
<1>5. /\ task[c].at = "links" => i \in DOMAIN mode /\ i # Root /\ (task[c].op = "mkdir" <=> IsDir(i))
                                 /\ Entry(c) \in DOMAIN dentry /\ dentry[Entry(c)] = i
      /\ task[c].at = "uncount" => /\ i \in Ino /\ i # Root /\ task[c].op \in {"unlink", "rmdir"}
                                   /\ (task[c].op = "rmdir" <=> IsDir(i))
  <2>1. task[c].at = "uncount" => task[c].at \in Removing
    BY DEF Removing
  <2> QED BY Zenon, <1>1, <1>p, <2>1 DEF Knows
<1>6. /\ task[c].at = "links" /\ task[c].op # "mkdir" => u = -1
      /\ task[c].at = "uncount" /\ task[c].op = "unlink" => u = 1
      /\ \/ u = 0
         \/ task[c].at = "links" /\ task[c].op # "mkdir"
         \/ task[c].at = "uncount" /\ task[c].op = "unlink"
  BY <1>5, <1>u DEF Uncounted
<1>7. u \in Int /\ skew \in [Ino -> Int]
  BY <1>1, <1>6 DEF Numbers
<1>8. /\ skew' \in [Ino -> Int] /\ (\A x \in Ino : x # i => skew'[x] = skew[x])
      /\ i \in Ino => skew'[i] = skew[i] + u
  BY <1>2, <1>7 DEF AddLinks
<1>9. \A x \in Ino : u = 0 => skew'[x] = skew[x]
  BY <1>7, <1>8
<1>10. \A x : NamesOf(x)' = NamesOf(x) /\ (IsDir(x)' <=> IsDir(x))
  BY Zenon, <1>2, SameTables
<1>11. ASSUME NEW x \in Ino, x # Root, ~IsDir(x) PROVE Balance(x)' = Balance(x)
  <2>1. CASE task[c].at = "links" /\ task[c].op # "mkdir" /\ x = i
    <3>1. /\ Cardinality(Linked(x)') = Cardinality(Linked(x)) + 1 /\ Cardinality(Linked(x)) \in Nat
          /\ Late(x) = 0 /\ Late(x)' = 0
      BY Zenon, <1>2, <1>3, <1>p, <2>1, LinkSettled
    <3>2. skew[x] \in Int /\ skew'[x] = skew[x] + (-1)
      BY <1>6, <1>7, <1>8, <1>11, <2>1
    <3>3. Balance(x)' = Cardinality(Linked(x)') + Late(x)' + skew'[x]
      BY Zenon DEF Balance
    <3> QED BY <3>1, <3>2, <3>3 DEF Balance
  <2>2. CASE task[c].at = "uncount" /\ task[c].op = "unlink" /\ x = i
    <3>1. /\ Linked(x)' = Linked(x) /\ Cardinality(Linked(x)) \in Nat
          /\ Late(x) = 1 /\ Late(x)' = 0
      BY Zenon, <1>2, <1>3, <1>4, <1>p, <2>2, LateSettled
    <3>2. skew[x] \in Int /\ skew'[x] = skew[x] + 1
      BY <1>6, <1>7, <1>8, <1>11, <2>2
    <3>3. Balance(x)' = Cardinality(Linked(x)') + Late(x)' + skew'[x]
      BY Zenon DEF Balance
    <3> QED BY <3>1, <3>2, <3>3 DEF Balance
  <2>3. CASE /\ ~(task[c].at = "links" /\ task[c].op # "mkdir" /\ x = i)
             /\ ~(task[c].at = "uncount" /\ task[c].op = "unlink" /\ x = i)
    <3>1. skew'[x] = skew[x]
      BY Zenon, <1>6, <1>8, <1>9, <2>3
    <3>2. task[c].at = "links" => Entry(c) \notin NamesOf(x)
      BY Zenon, <1>5, <1>11, <2>3 DEF NamesOf
    <3>3. task'[c].at # "links" /\ task'[c].at # "uncount"
      BY <1>3
    <3>4. ~(task[c].at = "uncount" /\ task[c].op = "unlink" /\ task[c].ino = x)
      BY Zenon, <1>p, <2>3
    <3> QED BY Zenon, <1>3, <1>10, <3>1, <3>2, <3>3, <3>4, SameBalance
  <2> QED BY Zenon, <2>1, <2>2, <2>3
<1>12. Counted'
  BY Zenon, <1>1, <1>2, <1>11, SameCounted
<1>13. Forest'
  BY Zenon, <1>1, <1>2, SameForest
<1>14. Numbers'
  <2>1. ASSUME NEW x \in Ino, IsDir(x) \/ x > lastIno PROVE skew'[x] = 0
    <3>1. skew[x] = 0
      BY Zenon, <1>1, <2>1 DEF Numbers
    <3>2. CASE task[c].at = "links" /\ task[c].op # "mkdir" /\ x = i
      <4>1. ~(x > lastIno)
        BY <1>1, <1>5, <3>2 DEF Numbers, Ino
      <4> QED BY Zenon, <1>5, <2>1, <3>2, <4>1
    <3>3. CASE task[c].at = "uncount" /\ task[c].op = "unlink" /\ x = i
      <4>1. ~IsDir(x) /\ x # Root
        BY <1>5, <3>3
      <4>2. x \notin DOMAIN mode
        BY <1>1, <2>1, <4>1 DEF Numbers, Ino
      <4>3. Balance(x) <= 0
        BY Zenon, <1>1, <4>1, <4>2 DEF Counted
      <4>4. Late(x) = 1 /\ Cardinality(Linked(x)) \in Nat
        BY Zenon, <1>2, <1>3, <1>4, <1>p, <3>3, LateSettled
      <4> QED BY <3>1, <4>3, <4>4 DEF Balance
    <3>4. CASE /\ ~(task[c].at = "links" /\ task[c].op # "mkdir" /\ x = i)
               /\ ~(task[c].at = "uncount" /\ task[c].op = "unlink" /\ x = i)
      BY Zenon, <1>6, <1>8, <1>9, <3>1, <3>4
    <3> QED BY Zenon, <3>2, <3>3, <3>4
  <2>2. \A x \in Ino : IsDir(x)' \/ x > lastIno' => skew'[x] = 0
    BY Zenon, <1>2, <1>10, <2>1
  <2> QED BY Zenon, <1>1, <1>2, <1>8, <2>2 DEF Numbers, Ino, Root
<1>15. CASE task[c].op \in Removal
  BY Zenon, <1>2, <1>12, <1>13, <1>14, <1>15, RemovalDone
<1>16. CASE task[c].op \notin Removal
  <2>1. task[c].at \in Adding
    <3>1. task[c].at \in {"delete"} \cup Removing => task[c].op \in {"unlink", "rmdir"}
      BY Zenon, <1>1 DEF Knows
    <3>2. task[c].at = "rename" => task[c].op = "rename"
      BY Zenon, <1>1 DEF Knows
    <3>3. task[c].at \in {"idle", "delete", "rename"} \cup Adding \cup Removing
      BY Zenon, <1>1 DEF Knows
    <3> QED BY <1>2, <1>16, <3>1, <3>2, <3>3 DEF Removal
  <2>2. Grows
    BY Zenon, <1>2 DEF Grows
  <2>3. Knows(c)'
    BY Zenon, <1>3, DoneKnows
  <2>4. task'[c].at # "links" /\ task'[c].at # "entry"
    BY <1>3
  <2>5. \A d \in Client : d # c => NamesOf(task[d].ino)' = NamesOf(task[d].ino)
    BY Zenon, <1>2, <1>3 DEF NamesOf
  <2> QED BY Zenon, <1>3, <1>12, <1>13, <1>14, <2>1, <2>2, <2>3, <2>4, <2>5, AddAfter
<1> QED BY Zenon, <1>15, <1>16

-----------------------------------------------------------------------------
(* The theorems.                                                           *)

SoundUnlessRaced == ~raced => Sound

\* A new file system is sound.
LEMMA SoundInit ==
  ASSUME StepInit
  PROVE  SoundUnlessRaced
<1>1. /\ DOMAIN mode = {Root} /\ mode[Root] = "dir" /\ DOMAIN dentry = {} /\ lastIno = Root
      /\ DOMAIN nlink = {Root} /\ nlink[Root] \in Int /\ skew = [x \in Ino |-> 0]
      /\ DOMAIN task = Client /\ \A c \in Client : task[c].at = "idle"
  BY DEF StepInit, Init, Idle
<1>2. Forest
  BY Zenon, <1>1 DEF Forest, IsDir, Named
<1>3. IsFiniteSet(DOMAIN dentry)
  BY Zenon, <1>1, FS_EmptySet
<1>4. Numbers
  BY <1>1, <1>3 DEF Numbers, Root
<1>5. Shape /\ \A c \in Client : Knows(c)
  BY Zenon, <1>1, IdleKnows DEF Shape
<1>6. \A c \in Client : task[c].at \notin {"links", "uncount", "entry"}
  BY <1>1
<1>7. Alone /\ Apart
  BY Zenon, <1>1, <1>6 DEF Alone, Apart
<1>8. ASSUME NEW x \in Ino PROVE Balance(x) <= 0
  <2>1. Linked(x) = {} /\ Late(x) = 0
    BY Zenon, <1>1, <1>6 DEF Linked, NamesOf, Late
  <2>2. Cardinality(Linked(x)) = 0
    BY Zenon, <2>1, FS_EmptySet
  <2>3. skew[x] = 0
    BY <1>1
  <2> QED BY <2>1, <2>2, <2>3 DEF Balance
<1>9. Counted
  BY Zenon, <1>1, <1>8 DEF Counted
<1> QED BY Zenon, <1>2, <1>4, <1>5, <1>7, <1>9 DEF Sound, SoundUnlessRaced

\* A race is not forgotten.
LEMMA RacedStays ==
  ASSUME StepNext, ~raced'
  PROVE  ~raced
<1>1. \A c, t : Begin(c, t) => ~raced
  BY Zenon DEF Begin
<1>2. PICK c \in Client :
        \/ \E p \in Ino, n \in Name :
             \/ \E op \in New : StartNew(c, op, p, n)
             \/ StartUnlink(c, p, n) \/ StartRmdir(c, p, n)
             \/ \E i \in Ino : StartLink(c, i, p, n)
             \/ \E q \in Ino, r \in Name : StartRename(c, p, n, q, r)
        \/ InsertInode(c) \/ InsertTarget(c) \/ InsertEntry(c) \/ CreateTxn(c)
        \/ CountDir(c) \/ CountLink(c) \/ CountParent(c)
        \/ DeleteEntry(c) \/ Uncount(c) \/ UncountParent(c) \/ CheckLinks(c)
        \/ DeleteTarget(c) \/ DeleteInode(c)
        \/ RenameTxn(c)
        \/ Crash(c)
  BY Zenon DEF StepNext
<1>3. ASSUME NEW p, NEW n, NEW op, StartNew(c, op, p, n) PROVE ~raced
  BY Zenon, <1>1, <1>3 DEF StartNew
<1>4. ASSUME NEW p, NEW n, StartUnlink(c, p, n) \/ StartRmdir(c, p, n) PROVE ~raced
  BY Zenon, <1>1, <1>4 DEF StartUnlink, StartRmdir, StartRemoval
<1>5. ASSUME NEW p, NEW n, NEW i, StartLink(c, i, p, n) PROVE ~raced
  BY Zenon, <1>1, <1>5 DEF StartLink
<1>6. ASSUME NEW p, NEW n, NEW q, NEW r, StartRename(c, p, n, q, r) PROVE ~raced
  BY Zenon, <1>1, <1>6 DEF StartRename
<1>7. CASE InsertInode(c) \/ InsertTarget(c) \/ InsertEntry(c) \/ CreateTxn(c)
           \/ CountDir(c) \/ CountLink(c) \/ CountParent(c)
  <2>1. raced' = raced
    BY Zenon, <1>7 DEF InsertInode, InsertTarget, InsertEntry, CreateTxn, CountDir, CountLink, CountParent
  <2> QED BY Zenon, <2>1
<1>8. CASE DeleteEntry(c) \/ Uncount(c) \/ UncountParent(c) \/ CheckLinks(c)
           \/ DeleteTarget(c) \/ DeleteInode(c) \/ RenameTxn(c) \/ Crash(c)
  <2>1. raced' = raced
    BY Zenon, <1>8 DEF DeleteEntry, Uncount, UncountParent, CheckLinks, DeleteTarget, DeleteInode, RenameTxn, Crash
  <2> QED BY Zenon, <2>1
<1> QED BY Zenon, <1>2, <1>3, <1>4, <1>5, <1>6, <1>7, <1>8

\* Every step keeps the invariant until there is a race.
LEMMA SoundStep ==
  ASSUME SoundUnlessRaced, StepNext
  PROVE  SoundUnlessRaced'
<1> SUFFICES ASSUME ~raced' PROVE Sound'
  BY Zenon DEF SoundUnlessRaced
<1>1. Sound
  BY Zenon, RacedStays DEF SoundUnlessRaced
<1>2. PICK c \in Client :
        \/ \E p \in Ino, n \in Name :
             \/ \E op \in New : StartNew(c, op, p, n)
             \/ StartUnlink(c, p, n) \/ StartRmdir(c, p, n)
             \/ \E i \in Ino : StartLink(c, i, p, n)
             \/ \E q \in Ino, r \in Name : StartRename(c, p, n, q, r)
        \/ InsertInode(c) \/ InsertTarget(c) \/ InsertEntry(c) \/ CreateTxn(c)
        \/ CountDir(c) \/ CountLink(c) \/ CountParent(c)
        \/ DeleteEntry(c) \/ Uncount(c) \/ UncountParent(c) \/ CheckLinks(c)
        \/ DeleteTarget(c) \/ DeleteInode(c)
        \/ RenameTxn(c)
        \/ Crash(c)
  BY Zenon DEF StepNext
<1>3. ASSUME NEW p, NEW n,
             \/ \E op \in New : StartNew(c, op, p, n)
             \/ StartUnlink(c, p, n) \/ StartRmdir(c, p, n)
             \/ \E i \in Ino : StartLink(c, i, p, n)
             \/ \E q \in Ino, r \in Name : StartRename(c, p, n, q, r)
      PROVE  Sound'
  BY Zenon, <1>1, <1>3, StartAdd, StartRemove, StartMove
<1>4. CASE InsertInode(c) \/ InsertTarget(c) \/ InsertEntry(c) \/ CreateTxn(c)
           \/ CountDir(c) \/ CountLink(c) \/ CountParent(c)
  BY Zenon, <1>1, <1>4, InsertInodeStep, InsertTargetStep, InsertEntryStep, CreateTxnStep, CountDirStep,
     CountLinkStep, CountParentStep
<1>5. CASE DeleteEntry(c) \/ Uncount(c) \/ UncountParent(c) \/ CheckLinks(c)
           \/ DeleteTarget(c) \/ DeleteInode(c)
  BY Zenon, <1>1, <1>5, DeleteEntryStep, UncountStep, UncountParentStep, CheckStep, DeleteInodeStep
<1>6. CASE RenameTxn(c) \/ Crash(c)
  BY Zenon, <1>1, <1>6, RenameTxnStep, CrashStep
<1> QED BY Zenon, <1>2, <1>3, <1>4, <1>5, <1>6

\* So does a step of something else.
LEMMA SoundStutter ==
  ASSUME SoundUnlessRaced, UNCHANGED stepVars
  PROVE  SoundUnlessRaced'
<1> SUFFICES ASSUME ~raced' PROVE Sound'
  BY Zenon DEF SoundUnlessRaced
<1>1. UNCHANGED <<mode, nlink, dentry, lastIno, skew, task, raced>>
  BY Zenon DEF stepVars, vars, rows, deaths
<1>2. Sound
  BY Zenon, <1>1 DEF SoundUnlessRaced
<1>3. Forest' /\ Numbers'
  BY Zenon, <1>1, <1>2, SameForest, SameNumbers DEF Sound, Numbers
<1>4. \A c \in Client : Knows(c)'
  BY Zenon, <1>1, <1>2, SameKnows DEF Sound
<1>5. Shape' /\ Alone' /\ Apart'
  <2>1. Shape'
    BY Zenon, <1>1, <1>2 DEF Sound, Shape
  <2>2. Alone'
    BY Zenon, <1>1, <1>2 DEF Sound, Alone
  <2>3. Apart
    BY Zenon, <1>2 DEF Sound
  <2>4. Apart'
    BY SMTT(30), <1>1, <2>3 DEF Apart, Entry
  <2> QED BY Zenon, <2>1, <2>2, <2>4
<1>6. \A x : Balance(x)' = Balance(x)
  BY Zenon, <1>1 DEF Balance, Linked, Late, NamesOf, Entry
<1>7. Counted'
  BY Zenon, <1>1, <1>2, <1>6, SameCounted DEF Sound
<1> QED BY Zenon, <1>3, <1>4, <1>5, <1>7 DEF Sound

\* The invariant of all three theorems.
LEMMA AlwaysSound ==
  StepSpec => []SoundUnlessRaced
<1>1. StepInit => SoundUnlessRaced
  BY Zenon, SoundInit
<1>2. SoundUnlessRaced /\ [StepNext]_stepVars => SoundUnlessRaced'
  BY Zenon, SoundStep, SoundStutter
<1> QED BY <1>1, <1>2, PTL DEF StepSpec

\* Of any number of clients that insert the same name one goes on to count its link, and
\* the name is its inode's: the unique key of fs_dentry decides, and no removal or rename
\* that runs alone, and no death, takes the name from the winner.
THEOREM OneClientWins ==
  StepSpec => []OneWinner
<1>1. SoundUnlessRaced => OneWinner
  BY Zenon DEF SoundUnlessRaced, Sound, Knows, OneWinner, Entry
<1> QED BY <1>1, AlwaysSound, PTL

\* Once every operation has ended, the count of a file or symlink is the number of its
\* names but for what clients died before they counted or uncounted, however many clients
\* created and linked at the same time, removed and renamed after one another, or died.
THEOREM QuietLinksExact ==
  StepSpec => []QuietLinks
<1>1. SoundUnlessRaced => QuietLinks
  <2> SUFFICES ASSUME Sound, Quiet, NEW i \in DOMAIN mode, ~IsDir(i)
               PROVE  nlink[i] = Cardinality(NamesOf(i)) + skew[i]
    BY Zenon DEF SoundUnlessRaced, QuietLinks
  <2>1. \A c \in Client : task[c].at # "links" /\ task[c].at # "uncount"
    BY DEF Quiet, At
  <2>2. Linked(i) = NamesOf(i) /\ Late(i) = 0
    BY Zenon, <2>1 DEF Linked, Late
  <2>3. i \in Ino /\ i # Root
    BY Zenon DEF Sound, Numbers, Forest
  <2>4. nlink[i] = Balance(i)
    BY Zenon, <2>3 DEF Sound, Counted
  <2>5. IsFiniteSet(NamesOf(i))
    <3>1. NamesOf(i) \subseteq DOMAIN dentry /\ IsFiniteSet(DOMAIN dentry)
      BY Zenon DEF NamesOf, Sound, Numbers
    <3> QED BY Zenon, <3>1, FS_Subset
  <2>6. Cardinality(NamesOf(i)) \in Nat
    BY Zenon, <2>5, FS_CardinalityType
  <2>7. skew[i] \in Int
    BY <2>3 DEF Sound, Numbers
  <2>8. Balance(i) = Cardinality(NamesOf(i)) + 0 + skew[i]
    BY Zenon, <2>2 DEF Balance
  <2> QED BY <2>4, <2>6, <2>7, <2>8
<1> QED BY <1>1, AlwaysSound, PTL

\* Clients may die between any two statements of any operation, link included: later
\* operations of anyone leave no entry without its directory, no directory with two names
\* and none removed with entries, and an entry without its inode only for an inode that
\* lost a count when its client died.
THEOREM CrashesAreSafe ==
  StepSpec => []CrashSafe
<1>1. SoundUnlessRaced => CrashSafe
  <2> SUFFICES ASSUME Sound
               PROVE  /\ IsDir(Root) /\ DirsNamedOnce
                      /\ \A e \in DOMAIN dentry :
                           /\ IsDir(e[1])
                           /\ dentry[e] \in DOMAIN mode \ {Root} \/ skew[dentry[e]] < 0
    BY Zenon DEF SoundUnlessRaced, CrashSafe
  <2>1. IsDir(Root) /\ \A e \in DOMAIN dentry : IsDir(e[1])
    BY Zenon DEF Sound, Forest
  <2>2. DirsNamedOnce
    BY Zenon DEF Sound, Forest, DirsNamedOnce, NamesOf, Named
  <2>3. ASSUME NEW e \in DOMAIN dentry, dentry[e] \notin DOMAIN mode \ {Root}
        PROVE  skew[dentry[e]] < 0
    <3>1. PICK i : i = dentry[e]
      BY Zenon
    <3>2. i \in Ino /\ i # Root /\ i \notin DOMAIN mode
      BY Zenon, <2>3, <3>1 DEF Sound, Forest
    <3>3. Balance(i) <= 0
      BY Zenon, <3>2 DEF Sound, Counted, IsDir
    <3>4. \A c \in Client : task[c].at = "links" => Entry(c) # e
      BY Zenon, <3>1, <3>2 DEF Sound, Knows
    <3>5. e \in Linked(i)
      BY Zenon, <3>1, <3>4 DEF Linked, NamesOf
    <3>6. IsFiniteSet(Linked(i))
      <4>1. Linked(i) \subseteq DOMAIN dentry /\ IsFiniteSet(DOMAIN dentry)
        BY Zenon DEF Linked, NamesOf, Sound, Numbers
      <4> QED BY Zenon, <4>1, FS_Subset
    <3>7. Cardinality(Linked(i)) \in Nat /\ Cardinality(Linked(i)) # 0
      BY Zenon, <3>5, <3>6, FS_CardinalityType, FS_EmptySet
    <3>8. Late(i) = 0 \/ Late(i) = 1
      BY Zenon DEF Late
    <3>9. skew[i] \in Int
      BY <3>2 DEF Sound, Numbers
    <3>10. skew[i] < 0
      BY <3>3, <3>7, <3>8, <3>9 DEF Balance
    <3> QED BY Zenon, <3>1, <3>10
  <2> QED BY Zenon, <2>1, <2>2, <2>3
<1> QED BY <1>1, AlwaysSound, PTL
=============================================================================
