--------------------------- MODULE SandboxProofs ---------------------------
(***************************************************************************)
(* Proofs about the descriptor tables of Sandbox, for any number of tasks  *)
(* and descriptors: the heap of free numbers is exact, the tables          *)
(* implement PosixFds, and behind every number is a kernel descriptor of   *)
(* its own, which the calls in SandboxCalls reach.  First the methods of   *)
(* FdTable: each leaves a table whose heap is exact, and `allocate' and    *)
(* `allocate_min' hand out the least number that is free; then the         *)
(* handlers that call them.                                                *)
(***************************************************************************)
EXTENDS SandboxCalls, TLAPS, WellFoundedInduction

\* A table as the methods of FdTable leave it
TabOK(tab) ==
  /\ tab.entries = [v \in DOMAIN tab.entries |-> tab.entries[v]]
  /\ DOMAIN tab.entries \subseteq Vfd
  /\ tab.next_vfd \in FirstUser .. MaxFd
  /\ tab.free_fds \in [UserVfd -> Nat]
  /\ HeapExact(tab)

\* A non-empty set of numbers has a least element, and Least is that element.
LEMMA LeastIs ==
  ASSUME NEW S \in SUBSET Nat, S # {}
  PROVE  Least(S) \in S /\ \A y \in S : Least(S) <= y
<1>1. \E x \in S : \A y \in S : ~(<<y, x>> \in OpToRel(<, Nat))
  <2>1. IsWellFoundedOn(OpToRel(<, Nat), Nat)
    BY Zenon, NatLessThanWellFounded
  <2> QED BY Zenon, <2>1, WFMin, Zenon
<1>2. PICK x \in S : \A y \in S : ~(<<y, x>> \in OpToRel(<, Nat))
  BY Zenon, <1>1, Zenon
<1>3. \A y \in S : x <= y
  <2> SUFFICES ASSUME NEW y \in S, y < x PROVE FALSE
    OBVIOUS
  <2>1. <<y, x>> \in Nat \X Nat /\ <<y, x>>[1] < <<y, x>>[2]
    BY Zenon
  <2>2. <<y, x>> \in OpToRel(<, Nat)
    BY Zenon, <2>1, Zenon DEF OpToRel
  <2> QED BY Zenon, <1>2, <2>2, Zenon
<1> QED BY Zenon, <1>3 DEF Least

\* FdTable::new is such a table.
LEMMA NewTableOK == TabOK(NewTable)
BY FdAssumption DEF TabOK, NewTable, HeapExact, Vfd, UserVfd

\* The number `allocate` chooses is the least that is free: the heap comes first because
\* all its numbers are below next_vfd, and the search for a gap is never needed.
LEMMA PickIsLeast ==
  ASSUME NEW tab, TabOK(tab), ~Exhausted(tab)
  PROVE  /\ Pick(tab) \in UserVfd \ DOMAIN tab.entries
         /\ \A w \in UserVfd \ DOMAIN tab.entries : Pick(tab) <= w
         /\ InHeap(tab) # {} => Pick(tab) \in InHeap(tab)
         /\ InHeap(tab) = {} => tab.next_vfd < MaxFd /\ Pick(tab) = tab.next_vfd
<1> USE FdAssumption DEF TabOK
<1>1. CASE InHeap(tab) # {}
  <2>1. InHeap(tab) \in SUBSET Nat
    BY DEF InHeap, UserVfd
  <2>2. Pick(tab) = Least(InHeap(tab))
    BY Zenon, <1>1 DEF Pick
  <2>3. Pick(tab) \in InHeap(tab) /\ \A y \in InHeap(tab) : Pick(tab) <= y
    BY Zenon, <1>1, <2>1, <2>2, LeastIs
  <2>4. \A w \in UserVfd \ DOMAIN tab.entries : w < tab.next_vfd => w \in InHeap(tab)
    BY DEF HeapExact, InHeap
  <2>5. Pick(tab) < tab.next_vfd /\ Pick(tab) \in UserVfd \ DOMAIN tab.entries
    BY <2>3 DEF HeapExact, InHeap
  <2> QED BY <1>1, <2>3, <2>4, <2>5 DEF UserVfd
<1>2. CASE InHeap(tab) = {}
  <2>1. \A w \in UserVfd : w < tab.next_vfd => w \in DOMAIN tab.entries
    BY <1>2 DEF HeapExact, InHeap
  <2>2. tab.next_vfd < MaxFd
    <3> SUFFICES ASSUME ~(tab.next_vfd < MaxFd) PROVE FALSE
      BY Zenon
    <3>1. tab.next_vfd = MaxFd
      OBVIOUS
    <3> QED BY <1>2, <2>1, <3>1 DEF Exhausted, UserVfd
  <2>3. Pick(tab) = tab.next_vfd
    BY Zenon, <1>2, <2>2 DEF Pick
  <2> QED BY <1>2, <2>1, <2>2, <2>3 DEF HeapExact, UserVfd
<1> QED BY Zenon, <1>1, <1>2

\* `allocate` leaves a table with one more entry, at the number it chose.
LEMMA AllocateOK ==
  ASSUME NEW tab, TabOK(tab), ~Exhausted(tab), NEW e
  PROVE  /\ TabOK(Allocate(tab, e))
         /\ Allocate(tab, e).entries = Insert(tab.entries, Pick(tab), e)
<1> DEFINE v == Pick(tab)
           new == Allocate(tab, e)
<1>1. /\ v \in UserVfd \ DOMAIN tab.entries
      /\ InHeap(tab) # {} => v \in InHeap(tab)
      /\ InHeap(tab) = {} => tab.next_vfd < MaxFd /\ v = tab.next_vfd
  BY Zenon, PickIsLeast
<1>2. /\ new.entries = Insert(tab.entries, v, e)
      /\ new.next_vfd = IF InHeap(tab) = {} /\ tab.next_vfd < MaxFd THEN tab.next_vfd + 1
                        ELSE tab.next_vfd
      /\ new.free_fds = IF InHeap(tab) = {} THEN tab.free_fds
                        ELSE [tab.free_fds EXCEPT ![v] = @ - 1]
  BY Zenon DEF Allocate
<1> HIDE DEF v, new
<1>3. DOMAIN new.entries = DOMAIN tab.entries \cup {v}
  BY Zenon, <1>2 DEF Insert
<1>4. new.entries = [x \in DOMAIN new.entries |-> new.entries[x]]
  BY Zenon, <1>2 DEF Insert
<1>5. DOMAIN new.entries \subseteq Vfd
  BY <1>1, <1>3, FdAssumption DEF TabOK, UserVfd, Vfd
<1>6. ASSUME InHeap(tab) = {} PROVE TabOK(new)
  <2>1. new.next_vfd = tab.next_vfd + 1 /\ v = tab.next_vfd /\ new.free_fds = tab.free_fds
    BY Zenon, <1>1, <1>2, <1>6
  <2>2. new.next_vfd \in FirstUser .. MaxFd
    BY <1>1, <1>6, <2>1, FdAssumption DEF TabOK
  <2>3. \A x \in DOMAIN new.entries : x < new.next_vfd
    BY <1>3, <2>1, FdAssumption DEF TabOK, HeapExact, Vfd
  <2>4. \A x \in UserVfd : new.free_fds[x] =
          IF x < new.next_vfd /\ x \notin DOMAIN new.entries THEN 1 ELSE 0
    BY SMTT(60), <1>1, <1>3, <2>1, FdAssumption DEF TabOK, HeapExact, UserVfd
  <2> QED BY Zenon, <1>4, <1>5, <2>1, <2>2, <2>3, <2>4 DEF TabOK, HeapExact
<1>7. ASSUME InHeap(tab) # {} PROVE TabOK(new)
  <2>1. /\ new.next_vfd = tab.next_vfd
        /\ new.free_fds = [tab.free_fds EXCEPT ![v] = @ - 1]
        /\ v \in InHeap(tab)
    BY Zenon, <1>1, <1>2, <1>7
  <2>2. tab.free_fds[v] = 1 /\ v < tab.next_vfd
    BY <2>1 DEF TabOK, HeapExact, InHeap
  <2>3. \A x \in UserVfd : new.free_fds[x] = IF x = v THEN 0 ELSE tab.free_fds[x]
    BY <2>1, <2>2 DEF TabOK, InHeap
  <2>4. new.free_fds \in [UserVfd -> Nat]
    BY <2>1, <2>2 DEF TabOK, InHeap
  <2>5. HeapExact(new)
    BY Zenon, <1>3, <2>1, <2>2, <2>3 DEF TabOK, HeapExact
  <2> QED BY Zenon, <1>4, <1>5, <2>1, <2>4, <2>5 DEF TabOK
<1> QED BY Zenon, <1>2, <1>6, <1>7 DEF new, v

\* `allocate_at` and `allocate_min` leave a table with the entry at v; what is skipped on
\* the way to a new next_vfd goes to the heap.
LEMMA ClaimOK ==
  ASSUME NEW tab, TabOK(tab), NEW v \in Vfd, NEW e
  PROVE  /\ TabOK(Claim(tab, v, e))
         /\ Claim(tab, v, e).entries = Insert(tab.entries, v, e)
<1> DEFINE new == Claim(tab, v, e)
           skipped == {x \in UserVfd : tab.next_vfd <= x /\ x < v /\ x \notin DOMAIN tab.entries}
<1>1. /\ new.entries = Insert(tab.entries, v, e)
      /\ new.next_vfd = IF v >= tab.next_vfd THEN v + 1 ELSE tab.next_vfd
      /\ new.free_fds = [x \in UserVfd |->
                           IF x = v THEN 0
                           ELSE IF x \in skipped THEN tab.free_fds[x] + 1
                           ELSE tab.free_fds[x]]
  BY Zenon DEF Claim
<1> HIDE DEF new
<1>2. DOMAIN new.entries = DOMAIN tab.entries \cup {v}
  BY Zenon, <1>1 DEF Insert
<1>3. new.entries = [x \in DOMAIN new.entries |-> new.entries[x]]
  BY Zenon, <1>1 DEF Insert
<1>4. DOMAIN new.entries \subseteq Vfd
  BY Zenon, <1>2 DEF TabOK
<1>5. new.next_vfd \in FirstUser .. MaxFd
  BY <1>1, FdAssumption DEF TabOK, Vfd
<1>6. new.free_fds \in [UserVfd -> Nat]
  BY <1>1 DEF TabOK
<1>7. \A x \in DOMAIN new.entries : x < new.next_vfd
  BY <1>1, <1>2, FdAssumption DEF TabOK, HeapExact, Vfd
<1>8. \A x \in UserVfd : new.free_fds[x] =
        IF x < new.next_vfd /\ x \notin DOMAIN new.entries THEN 1 ELSE 0
  BY SMTT(60), <1>1, <1>2, FdAssumption DEF TabOK, HeapExact, Vfd, UserVfd
<1>9. TabOK(new)
  BY Zenon, <1>3, <1>4, <1>5, <1>6, <1>7, <1>8 DEF TabOK, HeapExact
<1> QED BY Zenon, <1>1, <1>9 DEF new

\* `deallocate` takes one entry away and puts its number on the heap.
LEMMA DeallocateOK ==
  ASSUME NEW tab, TabOK(tab), NEW v \in DOMAIN tab.entries
  PROVE  /\ TabOK(Deallocate(tab, v))
         /\ Deallocate(tab, v).entries = [x \in DOMAIN tab.entries \ {v} |-> tab.entries[x]]
<1> DEFINE new == Deallocate(tab, v)
<1>1. /\ new.entries = [x \in DOMAIN tab.entries \ {v} |-> tab.entries[x]]
      /\ new.next_vfd = tab.next_vfd
      /\ new.free_fds = IF v >= FirstUser THEN [tab.free_fds EXCEPT ![v] = @ + 1]
                        ELSE tab.free_fds
  BY Zenon DEF Deallocate
<1> HIDE DEF new
<1>2. v \in Vfd /\ v < tab.next_vfd
  BY Zenon DEF TabOK, HeapExact
<1>3. v >= FirstUser <=> v \in UserVfd
  BY <1>2, FdAssumption DEF UserVfd, Vfd
<1>4. \A x \in UserVfd : new.free_fds[x] = IF x = v THEN tab.free_fds[x] + 1 ELSE tab.free_fds[x]
  BY Zenon, <1>1, <1>3 DEF TabOK
<1>5. new.free_fds \in [UserVfd -> Nat]
  BY <1>1, <1>3 DEF TabOK
<1>6. HeapExact(new)
  BY <1>1, <1>2, <1>4, FdAssumption DEF TabOK, HeapExact
<1>7. TabOK(new)
  BY Zenon, <1>1, <1>5, <1>6 DEF TabOK
<1> QED BY Zenon, <1>1, <1>7 DEF new

-----------------------------------------------------------------------------
(* The tables of all tasks.  FD_TABLES may have no table for an id yet:    *)
(* then the one that get_fd_table would make stands for it.                *)

TablesOK ==
  /\ DOMAIN tables = Task
  /\ \A t \in Task : TabOK(tables[t])
  /\ arc \in [Task -> Task \cup {NoTask}]
  /\ pidOf \in [Task -> Task]
  /\ \A t \in Task : arc[t] = NoTask => tables[t] = NewTable
  /\ \A t \in Task : arc[t] # NoTask => arc[arc[t]] # NoTask

InDupSteps == {"dup", "dup.close", "dup.put"}

\* What a handler holds between two of its steps is fit for the step to come.
PcOK(c) ==
  /\ c.at = "fork.put" => c.child \in Task
  /\ c.at = "open.put" => Len(c.kfds) \in {1, 2}
  /\ c.at \in InDupSteps => /\ c.op \in {"dup", "fcntl", "dup2"}
                            /\ c.op # "dup" => c.new \in Vfd

PcsOK == DOMAIN pc = Task /\ \A t \in Task : PcOK(pc[t])

SInv == TablesOK /\ PcsOK

\* The table a handler works on is the one its Arc names.
LEMMA TableIs ==
  ASSUME TablesOK, NEW t \in Task
  PROVE  Arc(t) \in Task /\ Table(t) = tables[Arc(t)] /\ TabOK(Table(t))
BY TaskAssumption DEF TablesOK, Arc, Table

\* Storing a well-formed table keeps the tables well-formed.
LEMMA SetTableOK ==
  ASSUME TablesOK, NEW t \in Task, NEW tab, TabOK(tab), SetTable(t, tab), UNCHANGED pidOf
  PROVE  TablesOK'
<1> DEFINE a == Arc(t)
<1>1. a \in Task /\ pidOf[t] \in Task
  BY Zenon, TableIs DEF TablesOK
<1>2. /\ tables' = [tables EXCEPT ![a] = tab]
      /\ arc' = [arc EXCEPT ![pidOf[t]] = a]
  BY Zenon DEF SetTable
<1>3. arc[pidOf[t]] = NoTask => a = pidOf[t]
  BY Zenon DEF Arc
<1>4. arc[pidOf[t]] # NoTask => a = arc[pidOf[t]]
  BY Zenon DEF Arc
<1> HIDE DEF a
<1>5. DOMAIN tables' = Task /\ \A u \in Task : tables'[u] = IF u = a THEN tab ELSE tables[u]
  BY Zenon, <1>1, <1>2 DEF TablesOK
<1>6. \A u \in Task : TabOK(tables'[u])
  BY Zenon, <1>5 DEF TablesOK
<1>7. arc' \in [Task -> Task \cup {NoTask}]
  BY Zenon, <1>1, <1>2 DEF TablesOK
<1>8. ASSUME NEW u \in Task, arc'[u] = NoTask PROVE tables'[u] = NewTable
  <2>1. u # pidOf[t]
    BY Zenon, <1>1, <1>2, <1>8, TaskAssumption DEF TablesOK
  <2>2. arc[u] = NoTask
    BY Zenon, <1>2, <1>8, <2>1 DEF TablesOK
  <2>3. u # a
    BY Zenon, <1>1, <1>3, <1>4, <2>1, <2>2 DEF TablesOK
  <2> QED
    BY Zenon, <1>5, <2>2, <2>3 DEF TablesOK
<1>9. ASSUME NEW u \in Task, arc'[u] # NoTask PROVE arc'[arc'[u]] # NoTask
  BY Zenon, <1>1, <1>2, <1>3, <1>4, <1>9, TaskAssumption DEF TablesOK
<1> QED BY Zenon, <1>5, <1>6, <1>7, <1>8, <1>9 DEF TablesOK, TabOK

\* A handler that goes on with something fit keeps the handlers fit.
LEMMA GoToOK ==
  ASSUME PcsOK, NEW t \in Task, NEW c, PcOK(c), GoTo(t, c)
  PROVE  PcsOK' /\ Requests' = [Requests EXCEPT ![t] = Pending(c)]
BY Zenon DEF PcsOK, PcOK, GoTo, Requests

\* An idle task is fit and has no request.
LEMMA IdleOK == PcOK(Idle) /\ Pending(Idle) = Posix!NoReq
BY Zenon DEF PcOK, Idle, Pending, InDupSteps, Posix!NoReq

\* Storing a table changes what is open in that table alone.
LEMMA SetTableFds ==
  ASSUME TablesOK, NEW t \in Task, NEW tab, SetTable(t, tab)
  PROVE  /\ OpenFds' = [OpenFds EXCEPT ![Arc(t)] = tab.entries]
         /\ OpenFds[Arc(t)] = Table(t).entries
         /\ OpenFds'[Arc(t)] = tab.entries
<1>1. Arc(t) \in Task /\ Table(t) = tables[Arc(t)]
  BY Zenon, TableIs
<1>2. tables' = [tables EXCEPT ![Arc(t)] = tab]
  BY Zenon DEF SetTable
<1> QED BY Zenon, <1>1, <1>2 DEF OpenFds, TablesOK

\* The numbers a table hands out are the free ones of PosixFds.
LEMMA FreeIs ==
  ASSUME NEW f, DOMAIN f \subseteq Vfd
  PROVE  Posix!Free(f, FirstUser) = UserVfd \ DOMAIN f /\ Posix!Fd = Vfd
BY FdAssumption DEF Posix!Free, Posix!Fd, UserVfd, Vfd

\* `allocate` opens the least free descriptor.
LEMMA AllocateOpens ==
  ASSUME NEW tab, TabOK(tab), ~Exhausted(tab), NEW e
  PROVE  \E v \in Posix!Fd :
           /\ Posix!IsLeast(v, Posix!Free(tab.entries, FirstUser))
           /\ Posix!Opens(tab.entries, Allocate(tab, e).entries, {v})
           /\ DOMAIN Allocate(tab, e).entries = DOMAIN tab.entries \cup {v}
<1>1. Posix!Free(tab.entries, FirstUser) = UserVfd \ DOMAIN tab.entries /\ Posix!Fd = Vfd
  BY Zenon, FreeIs DEF TabOK
<1>2. /\ Pick(tab) \in UserVfd \ DOMAIN tab.entries
      /\ \A w \in UserVfd \ DOMAIN tab.entries : Pick(tab) <= w
  BY Zenon, PickIsLeast
<1>3. Pick(tab) \in Posix!Fd
  BY <1>1, <1>2, FdAssumption DEF UserVfd, Vfd
<1>4. Posix!IsLeast(Pick(tab), Posix!Free(tab.entries, FirstUser))
  BY Zenon, <1>1, <1>2 DEF Posix!IsLeast
<1>5. Allocate(tab, e).entries = Insert(tab.entries, Pick(tab), e)
  BY Zenon, AllocateOK
<1>6. /\ Posix!Opens(tab.entries, Allocate(tab, e).entries, {Pick(tab)})
      /\ DOMAIN Allocate(tab, e).entries = DOMAIN tab.entries \cup {Pick(tab)}
  BY Zenon, <1>5 DEF Posix!Opens, Insert
<1> QED BY Zenon, <1>3, <1>4, <1>6

\* An entry that is set at v opens v and leaves the others.
LEMMA InsertOpens ==
  ASSUME NEW f, NEW v, NEW e
  PROVE  Posix!Opens(f, Insert(f, v, e), {v}) /\ Insert(f, v, e)[v] = e
BY Zenon DEF Posix!Opens, Insert

\* `allocate_min` opens the least free descriptor from the bound on.
LEMMA AllocateMinOpens ==
  ASSUME NEW tab, TabOK(tab), NEW min \in Vfd, AtLeast(tab, min) # {}, NEW e
  PROVE  /\ TabOK(AllocateMin(tab, min, e))
         /\ \E v \in Posix!Fd :
              /\ Posix!IsLeast(v, Posix!Free(tab.entries, min))
              /\ Posix!Opens(tab.entries, AllocateMin(tab, min, e).entries, {v})
<1>1. AtLeast(tab, min) = Posix!Free(tab.entries, min) /\ Posix!Fd = Vfd
  BY Zenon DEF AtLeast, Posix!Free, Posix!Fd, Vfd
<1>2. AtLeast(tab, min) \in SUBSET Nat
  BY DEF AtLeast, Vfd
<1>3. /\ PickMin(tab, min) \in AtLeast(tab, min)
      /\ \A y \in AtLeast(tab, min) : PickMin(tab, min) <= y
  BY Zenon, <1>2, LeastIs DEF PickMin
<1>4. PickMin(tab, min) \in Vfd
  BY Zenon, <1>3 DEF AtLeast
<1>5. /\ TabOK(AllocateMin(tab, min, e))
      /\ AllocateMin(tab, min, e).entries = Insert(tab.entries, PickMin(tab, min), e)
  BY Zenon, <1>4, ClaimOK DEF AllocateMin
<1>6. Posix!IsLeast(PickMin(tab, min), Posix!Free(tab.entries, min))
  BY Zenon, <1>1, <1>3 DEF Posix!IsLeast
<1>7. Posix!Opens(tab.entries, AllocateMin(tab, min, e).entries, {PickMin(tab, min)})
  BY <1>5, InsertOpens
<1> QED BY Zenon, <1>1, <1>4, <1>5, <1>6, <1>7

-----------------------------------------------------------------------------
(* Every step keeps the invariant and is a step of PosixFds or none.       *)

PosixStep == Posix!Next \/ UNCHANGED <<OpenFds, Requests>>

\* A step that touches neither tables nor handlers
LEMMA QuietStep ==
  ASSUME SInv, UNCHANGED <<tables, arc, pidOf, pc>>
  PROVE  SInv' /\ PosixStep
BY Zenon DEF SInv, TablesOK, PcsOK, PcOK, TabOK, PosixStep, OpenFds, Requests

\* A handler asks the kernel for a descriptor, or goes on asking.
LEMMA AskStep ==
  ASSUME SInv, NEW t \in Task, NEW c, PcOK(c), GoTo(t, c), UNCHANGED <<tables, arc, pidOf>>,
         \/ Pending(pc[t]) = Posix!NoReq /\ Pending(c) \in Posix!Request
         \/ Pending(c) = Pending(pc[t])
         \/ Pending(c) = Posix!NoReq
  PROVE  SInv' /\ PosixStep
<1>1. PcsOK' /\ Requests' = [Requests EXCEPT ![t] = Pending(c)]
  BY Zenon, GoToOK DEF SInv
<1>2. TablesOK' /\ OpenFds' = OpenFds
  BY Zenon DEF SInv, TablesOK, TabOK, OpenFds
<1>3. Requests[t] = Pending(pc[t])
  BY Zenon DEF Requests
<1>4. CASE Pending(pc[t]) = Posix!NoReq /\ Pending(c) \in Posix!Request
  <2>1. Posix!Ask(t)
    BY Zenon, <1>1, <1>2, <1>3, <1>4 DEF Posix!Ask
  <2> QED BY Zenon, <1>1, <1>2, <2>1 DEF SInv, PosixStep, Posix!Next
<1>5. CASE Pending(c) = Pending(pc[t])
  <2>1. Requests' = Requests
    BY Zenon, <1>1, <1>3, <1>5 DEF Requests
  <2> QED BY Zenon, <1>1, <1>2, <2>1 DEF SInv, PosixStep
<1>6. CASE Pending(c) = Posix!NoReq
  <2>1. Posix!Drop(t)
    BY Zenon, <1>1, <1>2, <1>6 DEF Posix!Drop
  <2> QED BY Zenon, <1>1, <1>2, <2>1 DEF SInv, PosixStep, Posix!Next
<1> QED BY Zenon, <1>4, <1>5, <1>6

\* An idle task has no request.
LEMMA IdleRequest ==
  ASSUME NEW t \in Task, pc[t].at = "idle"
  PROVE  Pending(pc[t]) = Posix!NoReq
BY Zenon DEF Pending, Posix!NoReq

\* An entry without a kernel descriptor is made at once.
LEMMA AllocateNow ==
  ASSUME SInv, NEW t \in Task, NEW e, SetTable(t, Allocate(Table(t), e)),
         ~Exhausted(Table(t)), UNCHANGED <<pidOf, pc>>
  PROVE  SInv' /\ PosixStep
<1> DEFINE new == Allocate(Table(t), e)
<1>1. SetTable(t, new) /\ ~Exhausted(Table(t)) /\ UNCHANGED <<pidOf, pc>>
  BY Zenon
<1>2. TabOK(Table(t)) /\ Arc(t) \in Task
  BY Zenon, TableIs DEF SInv
<1>3. TabOK(new)
  BY Zenon, <1>1, <1>2, AllocateOK
<1>4. PICK v \in Posix!Fd : /\ Posix!IsLeast(v, Posix!Free(Table(t).entries, FirstUser))
                            /\ Posix!Opens(Table(t).entries, new.entries, {v})
  BY Zenon, <1>1, <1>2, AllocateOpens
<1> HIDE DEF new
<1>5. TablesOK'
  BY Zenon, <1>1, <1>3, SetTableOK DEF SInv
<1>6. PcsOK' /\ Requests' = Requests
  BY Zenon, <1>1 DEF SInv, PcsOK, PcOK, Requests
<1>7. /\ OpenFds' = [OpenFds EXCEPT ![Arc(t)] = new.entries]
      /\ OpenFds[Arc(t)] = Table(t).entries
      /\ OpenFds'[Arc(t)] = new.entries
  BY Zenon, <1>1, SetTableFds DEF SInv
<1>8. Posix!OpenNow(Arc(t))
  BY Zenon, <1>4, <1>6, <1>7 DEF Posix!OpenNow
<1> QED BY Zenon, <1>2, <1>5, <1>6, <1>8 DEF SInv, PosixStep, Posix!Next

\* openat of a virtual file opens at once.
LEMMA OpenVirtualStep ==
  ASSUME SInv, NEW t \in Task, NEW p, OpenVirtual(t, p)
  PROVE  SInv' /\ PosixStep
BY Zenon, AllocateNow DEF OpenVirtual, unmoved

\* What openat and socket hold is fit and a request for one descriptor.
LEMMA OpenAsks ==
  ASSUME NEW t \in Task, NEW k, NEW p
  PROVE  LET c == [at |-> "open.put", kfds |-> <<k>>, path |-> p]
         IN  PcOK(c) /\ Pending(c) \in Posix!Request
BY Zenon DEF PcOK, Pending, InDupSteps, Posix!Request

\* openat of a host file asks for a descriptor.
LEMMA OpenatStep ==
  ASSUME SInv, NEW t \in Task, NEW p, handle_openat(t, p)
  PROVE  SInv' /\ PosixStep
<1>1. PICK k : GoTo(t, [at |-> "open.put", kfds |-> <<k>>, path |-> p])
  BY Zenon DEF handle_openat
<1>2. pc[t].at = "idle" /\ UNCHANGED <<tables, arc, pidOf>>
  BY Zenon DEF handle_openat, Call, At, unmoved
<1> QED BY Zenon, <1>1, <1>2, OpenAsks, IdleRequest, AskStep

\* socket asks for a descriptor.
LEMMA SocketStep ==
  ASSUME SInv, NEW t \in Task, handle_socket(t)
  PROVE  SInv' /\ PosixStep
<1>1. PICK k : GoTo(t, [at |-> "open.put", kfds |-> <<k>>, path |-> NoPath])
  BY Zenon DEF handle_socket
<1>2. pc[t].at = "idle" /\ UNCHANGED <<tables, arc, pidOf>>
  BY Zenon DEF handle_socket, Call, At, unmoved
<1> QED BY Zenon, <1>1, <1>2, OpenAsks, IdleRequest, AskStep

\* pipe2 asks for two descriptors.
LEMMA PipeStep ==
  ASSUME SInv, NEW t \in Task, handle_pipe2(t)
  PROVE  SInv' /\ PosixStep
<1>1. PICK k1, k2 : GoTo(t, [at |-> "open.put", kfds |-> <<k1, k2>>, path |-> NoPath])
  BY Zenon DEF handle_pipe2
<1>2. pc[t].at = "idle" /\ UNCHANGED <<tables, arc, pidOf>>
  BY Zenon DEF handle_pipe2, Call, At, unmoved
<1> DEFINE c == [at |-> "open.put", kfds |-> <<k1, k2>>, path |-> NoPath]
<1>3. PcOK(c) /\ Pending(c) \in Posix!Request
  BY Zenon DEF PcOK, Pending, InDupSteps, Posix!Request
<1> QED BY Zenon, <1>1, <1>2, <1>3, IdleRequest, AskStep

\* A handler ends by storing what its request asked for.
LEMMA ServeStep ==
  ASSUME SInv, NEW t \in Task, NEW new, TabOK(new), SetTable(t, new), GoTo(t, Idle),
         UNCHANGED pidOf, Posix!Served(Pending(pc[t]), Table(t).entries, new.entries)
  PROVE  SInv' /\ PosixStep
<1>1. TablesOK'
  BY Zenon, SetTableOK DEF SInv
<1>2. PcsOK' /\ Requests' = [Requests EXCEPT ![t] = Posix!NoReq]
  BY Zenon, GoToOK, IdleOK DEF SInv
<1>3. /\ OpenFds' = [OpenFds EXCEPT ![Arc(t)] = new.entries]
      /\ OpenFds[Arc(t)] = Table(t).entries
      /\ OpenFds'[Arc(t)] = new.entries
  BY Zenon, SetTableFds DEF SInv
<1>4. Requests[t] = Pending(pc[t])
  BY Zenon DEF Requests
<1>5. Posix!Serve(t, Arc(t))
  BY Zenon, <1>2, <1>3, <1>4 DEF Posix!Serve
<1>6. Arc(t) \in Task
  BY Zenon, TableIs DEF SInv
<1> QED BY Zenon, <1>1, <1>2, <1>5, <1>6 DEF SInv, PosixStep, Posix!Next

\* openat, socket and pipe2 end with one or two descriptors, each the least free.
LEMMA OpenPutStep ==
  ASSUME SInv, NEW t \in Task, OpenPut(t)
  PROVE  SInv' /\ PosixStep
<1> DEFINE e(i) == Passthrough(pc[t].kfds[i], pc[t].path)
           tab == Table(t)
           one == Allocate(tab, e(1))
           two == Allocate(one, e(2))
<1>1. /\ pc[t].at = "open.put"
      /\ ~Exhausted(tab)
      /\ Len(pc[t].kfds) = 2 => ~Exhausted(one)
      /\ SetTable(t, IF Len(pc[t].kfds) = 1 THEN one ELSE two)
      /\ GoTo(t, Idle)
      /\ UNCHANGED pidOf
  BY Zenon DEF OpenPut, At, unmoved
<1>2. TabOK(tab)
  BY Zenon, TableIs DEF SInv
<1>3. TabOK(one)
  BY Zenon, <1>1, <1>2, AllocateOK
<1>4. Len(pc[t].kfds) \in {1, 2}
  BY Zenon, <1>1 DEF SInv, PcsOK, PcOK
<1>5. Pending(pc[t]) = <<"open", Len(pc[t].kfds)>>
  BY Zenon, <1>1 DEF Pending
<1>6. PICK v \in Posix!Fd : /\ Posix!IsLeast(v, Posix!Free(tab.entries, FirstUser))
                            /\ Posix!Opens(tab.entries, one.entries, {v})
                            /\ DOMAIN one.entries = DOMAIN tab.entries \cup {v}
  BY Zenon, <1>1, <1>2, AllocateOpens
<1>7. CASE Len(pc[t].kfds) = 1
  <2>1. Posix!Served(Pending(pc[t]), tab.entries, one.entries)
    BY Zenon, <1>5, <1>6, <1>7 DEF Posix!Served
  <2>2. SetTable(t, one)
    BY Zenon, <1>1, <1>7
  <2> QED BY Zenon, <1>1, <1>3, <2>1, <2>2, ServeStep
<1>8. CASE Len(pc[t].kfds) = 2
  <2>1. TabOK(two)
    BY Zenon, <1>1, <1>3, <1>8, AllocateOK
  <2>2. PICK w \in Posix!Fd : /\ Posix!IsLeast(w, Posix!Free(one.entries, FirstUser))
                              /\ Posix!Opens(one.entries, two.entries, {w})
                              /\ DOMAIN two.entries = DOMAIN one.entries \cup {w}
    BY Zenon, <1>1, <1>3, <1>8, AllocateOpens
  <2> HIDE DEF one, two, tab
  <2>3. Posix!Free(one.entries, FirstUser) = Posix!Free(tab.entries, FirstUser) \ {v}
    BY Zenon, <1>6 DEF Posix!Free
  <2>4. v \notin DOMAIN tab.entries /\ w \notin DOMAIN one.entries
    BY Zenon, <1>6, <2>2 DEF Posix!IsLeast, Posix!Free
  <2>5. Posix!Opens(tab.entries, two.entries, {v, w})
    BY Zenon, <1>6, <2>2, <2>4 DEF Posix!Opens
  <2>6. Posix!Served(Pending(pc[t]), tab.entries, two.entries)
    BY Zenon, <1>5, <1>6, <1>8, <2>2, <2>3, <2>5 DEF Posix!Served
  <2>7. SetTable(t, two)
    BY <1>1, <1>8
  <2> QED BY Zenon, <1>1, <2>1, <2>6, <2>7, ServeStep DEF tab
<1> QED BY Zenon, <1>4, <1>7, <1>8

\* close frees its argument.
LEMMA CloseStep ==
  ASSUME SInv, NEW t \in Task, NEW v, handle_close(t, v)
  PROVE  SInv' /\ PosixStep
<1> DEFINE tab == Table(t)
           new == Deallocate(tab, v)
           c == IF Translate(tab, v) = NoFd THEN Idle
                ELSE [at |-> "close", kfd |-> Translate(tab, v)]
<1>1. /\ pc[t].at = "idle" /\ v \in DOMAIN tab.entries /\ UNCHANGED pidOf
      /\ SetTable(t, new) /\ GoTo(t, c)
  BY Zenon DEF handle_close, Call, At, Has, unmoved
<1>2. TabOK(tab) /\ Arc(t) \in Task
  BY Zenon, TableIs DEF SInv
<1>3. TabOK(new) /\ new.entries = [x \in DOMAIN tab.entries \ {v} |-> tab.entries[x]]
  BY Zenon, <1>1, <1>2, DeallocateOK
<1>4. PcOK(c) /\ Pending(c) = Posix!NoReq
  <2>1. ASSUME NEW k PROVE LET d == [at |-> "close", kfd |-> k]
                           IN  PcOK(d) /\ Pending(d) = Posix!NoReq
    BY Zenon DEF PcOK, Pending, InDupSteps, Posix!NoReq
  <2> QED BY Zenon, <2>1, IdleOK
<1> HIDE DEF new, c, tab
<1>5. TablesOK'
  BY Zenon, <1>1, <1>3, SetTableOK DEF SInv
<1>6. PcsOK' /\ Requests' = [Requests EXCEPT ![t] = Posix!NoReq]
  BY Zenon, <1>1, <1>4, GoToOK DEF SInv
<1>7. Requests' = Requests
  BY Zenon, <1>1, <1>6, IdleRequest DEF Requests
<1>8. /\ OpenFds' = [OpenFds EXCEPT ![Arc(t)] = new.entries]
      /\ OpenFds[Arc(t)] = tab.entries
  BY Zenon, <1>1, SetTableFds DEF SInv, tab
<1>9. Posix!Close(Arc(t))
  BY SMTT(60), <1>1, <1>3, <1>7, <1>8 DEF Posix!Close
<1> QED BY Zenon, <1>2, <1>5, <1>6, <1>9 DEF SInv, PosixStep, Posix!Next

\* The kernel's close changes no table.
LEMMA CloseKernelStep ==
  ASSUME SInv, NEW t \in Task, CloseKernel(t)
  PROVE  SInv' /\ PosixStep
<1>1. GoTo(t, Idle) /\ UNCHANGED <<tables, arc, pidOf>>
  BY Zenon DEF CloseKernel, unmoved
<1> QED BY Zenon, <1>1, IdleOK, AskStep

\* What handle_dup, dup2, dup3 and fcntl hold is fit and a request.
LEMMA DupAsks ==
  ASSUME NEW at \in InDupSteps, NEW op \in {"dup", "fcntl", "dup2"}, NEW kfd, NEW path,
         NEW old, NEW new, op # "dup" => new \in Vfd, NEW shut
  PROVE  LET c == InDup(at, op, kfd, path, old, new, shut)
         IN  /\ PcOK(c) /\ Pending(c) \in Posix!Request
             /\ Pending(c) = IF op = "dup" THEN <<"open", 1>>
                             ELSE IF op = "fcntl" THEN <<"from", new>> ELSE <<"at", new>>
<1> DEFINE c == InDup(at, op, kfd, path, old, new, shut)
<1>1. c.at = at /\ c.op = op /\ c.new = new
  BY Zenon DEF InDup
<1> HIDE DEF c
<1>2. PcOK(c)
  BY Zenon, <1>1 DEF PcOK, InDupSteps
<1>3. Pending(c) = IF op = "dup" THEN <<"open", 1>>
                   ELSE IF op = "fcntl" THEN <<"from", new>> ELSE <<"at", new>>
  BY Zenon, <1>1 DEF Pending, InDupSteps
<1>4. Pending(c) \in Posix!Request
  BY <1>3 DEF Posix!Request, Posix!Fd, Vfd
<1> QED BY Zenon, <1>2, <1>3, <1>4 DEF c

\* dup asks for a descriptor; of a virtual file it has it at once.
LEMMA DupStep ==
  ASSUME SInv, NEW t \in Task, NEW old, handle_dup(t, old)
  PROVE  SInv' /\ PosixStep
<1> DEFINE e == Table(t).entries[old]
<1>1. pc[t].at = "idle" /\ UNCHANGED pidOf
  BY Zenon DEF handle_dup, Call, At, unmoved
<1>2. CASE e.kind = "virtual"
  BY Zenon, <1>1, <1>2, AllocateNow DEF handle_dup
<1>3. CASE e.kind # "virtual"
  <2> DEFINE c == InDup("dup", "dup", e.kernel_fd, e.path, old, NoFd, NoFd)
  <2>1. GoTo(t, c) /\ UNCHANGED <<tables, arc>>
    BY Zenon, <1>3 DEF handle_dup
  <2>2. PcOK(c) /\ Pending(c) \in Posix!Request
    BY Zenon, DupAsks DEF InDupSteps
  <2> HIDE DEF c
  <2> QED BY Zenon, <1>1, <2>1, <2>2, IdleRequest, AskStep
<1> QED BY Zenon, <1>2, <1>3

\* dup2 and dup3 ask for a number; of a virtual file they replace it at once.
LEMMA Dup2Step ==
  ASSUME SInv, NEW t \in Task, NEW old, NEW new \in Vfd, Dup2From(t, old, new)
  PROVE  SInv' /\ PosixStep
<1> DEFINE tab == Table(t)
           e == tab.entries[old]
           shut == Translate(tab, new)
<1>1. pc[t].at = "idle" /\ UNCHANGED pidOf /\ old \in DOMAIN tab.entries
  BY Zenon DEF Dup2From, Call, At, Has, unmoved
<1>2. CASE e.kind = "virtual" /\ shut = NoFd
  <2> DEFINE now == AllocateAt(tab, new, e)
  <2>1. SetTable(t, now) /\ UNCHANGED pc
    BY Zenon, <1>2 DEF Dup2From
  <2>2. TabOK(tab) /\ Arc(t) \in Task
    BY Zenon, TableIs DEF SInv
  <2>3. TabOK(now) /\ now.entries = Insert(tab.entries, new, e)
    BY Zenon, <2>2, ClaimOK DEF AllocateAt
  <2>4. Posix!Opens(tab.entries, now.entries, {new}) /\ now.entries[new] = e
    BY SMTT(60), <2>3, InsertOpens
  <2> HIDE DEF now, tab
  <2>5. TablesOK'
    BY Zenon, <1>1, <2>1, <2>3, SetTableOK DEF SInv
  <2>6. PcsOK' /\ Requests' = Requests
    BY Zenon, <2>1 DEF SInv, PcsOK, PcOK, Requests
  <2>7. /\ OpenFds' = [OpenFds EXCEPT ![Arc(t)] = now.entries]
        /\ OpenFds[Arc(t)] = tab.entries
        /\ OpenFds'[Arc(t)] = now.entries
    BY Zenon, <2>1, SetTableFds DEF SInv, tab
  <2>8. new \in Posix!Fd
    BY Zenon DEF Vfd, Posix!Fd
  <2>9. Posix!ReplaceNow(Arc(t))
    BY Zenon, <1>1, <2>4, <2>6, <2>7, <2>8 DEF Posix!ReplaceNow
  <2> QED BY Zenon, <2>2, <2>5, <2>6, <2>9 DEF SInv, PosixStep, Posix!Next
<1>3. CASE ~(e.kind = "virtual" /\ shut = NoFd)
  <2> DEFINE at == IF e.kind = "virtual" THEN "dup.close" ELSE "dup"
             c == InDup(at, "dup2", e.kernel_fd, e.path, old, new, shut)
  <2>1. GoTo(t, c) /\ UNCHANGED <<tables, arc>>
    BY Zenon, <1>3 DEF Dup2From
  <2>2. at \in InDupSteps
    BY Zenon DEF InDupSteps
  <2>3. PcOK(c) /\ Pending(c) \in Posix!Request
    BY Zenon, <2>2, DupAsks
  <2> HIDE DEF c
  <2> QED BY Zenon, <1>1, <2>1, <2>3, IdleRequest, AskStep
<1> QED BY Zenon, <1>2, <1>3

\* fcntl asks for a descriptor from a bound on.
LEMMA FcntlStep ==
  ASSUME SInv, NEW t \in Task, NEW old, NEW min \in Vfd, handle_fcntl(t, old, min)
  PROVE  SInv' /\ PosixStep
<1> DEFINE c == InDup("dup", "fcntl", Translate(Table(t), old), NoPath, old, min, NoFd)
<1>1. pc[t].at = "idle" /\ GoTo(t, c) /\ UNCHANGED <<tables, arc, pidOf>>
  BY Zenon DEF handle_fcntl, Call, At, unmoved
<1>2. PcOK(c) /\ Pending(c) \in Posix!Request
  BY Zenon, DupAsks DEF InDupSteps
<1> HIDE DEF c
<1> QED BY Zenon, <1>1, <1>2, IdleRequest, AskStep

\* A handler of the dup family that goes on keeps its request.
LEMMA OnwardsOK ==
  ASSUME SInv, NEW t \in Task, pc[t].at \in InDupSteps, NEW at \in InDupSteps, NEW kfd
  PROVE  /\ PcOK(Onwards(pc[t], at, kfd))
         /\ Pending(Onwards(pc[t], at, kfd)) = Pending(pc[t])
<1> DEFINE c == pc[t]
<1>1. c.op \in {"dup", "fcntl", "dup2"} /\ (c.op # "dup" => c.new \in Vfd)
  BY Zenon DEF SInv, PcsOK, PcOK
<1>2. Pending(c) = IF c.op = "dup" THEN <<"open", 1>>
                   ELSE IF c.op = "fcntl" THEN <<"from", c.new>> ELSE <<"at", c.new>>
  BY Zenon, <1>1 DEF Pending, InDupSteps
<1> HIDE DEF c
<1>3. /\ PcOK(Onwards(c, at, kfd))
      /\ Pending(Onwards(c, at, kfd)) =
           IF c.op = "dup" THEN <<"open", 1>>
           ELSE IF c.op = "fcntl" THEN <<"from", c.new>> ELSE <<"at", c.new>>
  BY <1>1, DupAsks DEF Onwards
<1> QED BY <1>2, <1>3 DEF c

\* The kernel's dup keeps the request, or ends it.
LEMMA DupKernelStep ==
  ASSUME SInv, NEW t \in Task, DupKernel(t)
  PROVE  SInv' /\ PosixStep
<1>1. pc[t].at \in InDupSteps /\ UNCHANGED <<tables, arc, pidOf>>
  BY Zenon DEF DupKernel, At, InDupSteps, unmoved
<1>2. \/ GoTo(t, Idle)
      \/ \E n : GoTo(t, Onwards(pc[t], IF pc[t].shut = NoFd THEN "dup.put" ELSE "dup.close", n))
  BY Zenon DEF DupKernel
<1>3. CASE GoTo(t, Idle)
  BY Zenon, <1>1, <1>3, IdleOK, AskStep
<1>4. ASSUME NEW n, NEW at \in InDupSteps, GoTo(t, Onwards(pc[t], at, n))
      PROVE  SInv' /\ PosixStep
  BY Zenon, <1>1, <1>4, OnwardsOK, AskStep
<1>5. (IF pc[t].shut = NoFd THEN "dup.put" ELSE "dup.close") \in InDupSteps
  BY Zenon DEF InDupSteps
<1> QED BY Zenon, <1>2, <1>3, <1>4, <1>5

\* The kernel's close of the replaced descriptor keeps the request, or ends it.
LEMMA DupCloseStep ==
  ASSUME SInv, NEW t \in Task, DupClose(t)
  PROVE  SInv' /\ PosixStep
<1>1. pc[t].at \in InDupSteps /\ UNCHANGED <<tables, arc, pidOf>> /\ "dup.put" \in InDupSteps
  BY Zenon DEF DupClose, At, InDupSteps, unmoved
<1>2. GoTo(t, Idle) \/ GoTo(t, Onwards(pc[t], "dup.put", pc[t].kfd))
  BY Zenon DEF DupClose
<1>3. CASE GoTo(t, Idle)
  BY Zenon, <1>1, <1>3, IdleOK, AskStep
<1>4. CASE GoTo(t, Onwards(pc[t], "dup.put", pc[t].kfd))
  BY Zenon, <1>1, <1>4, OnwardsOK, AskStep
<1> QED BY Zenon, <1>2, <1>3, <1>4

\* The least free descriptor from a bound on is what fcntl asks for.
LEMMA ServedFrom ==
  ASSUME NEW f, NEW g, NEW min,
         \E v \in Posix!Fd : Posix!IsLeast(v, Posix!Free(f, min)) /\ Posix!Opens(f, g, {v})
  PROVE  Posix!Served(<<"from", min>>, f, g)
BY Zenon DEF Posix!Served

\* The last step of the dup family serves the request.
LEMMA DupPutStep ==
  ASSUME SInv, NEW t \in Task, DupPut(t)
  PROVE  SInv' /\ PosixStep
<1> DEFINE c == pc[t]
           tab == Table(t)
<1>1. PICK e :
        /\ At(t, "dup.put")
        /\ CASE c.op = "dup"   -> ~Exhausted(tab) /\ SetTable(t, Allocate(tab, e))
             [] c.op = "fcntl" -> /\ AtLeast(tab, c.new) # {}
                                  /\ SetTable(t, AllocateMin(tab, c.new, e))
             [] OTHER          -> SetTable(t, AllocateAt(tab, c.new, e))
        /\ GoTo(t, Idle)
        /\ UNCHANGED pidOf
  BY Zenon DEF DupPut, unmoved
<1>2. c.op \in {"dup", "fcntl", "dup2"} /\ (c.op # "dup" => c.new \in Vfd)
  BY Zenon, <1>1 DEF SInv, PcsOK, PcOK, At, InDupSteps
<1>3. Pending(c) = IF c.op = "dup" THEN <<"open", 1>>
                   ELSE IF c.op = "fcntl" THEN <<"from", c.new>> ELSE <<"at", c.new>>
  BY Zenon, <1>1, <1>2 DEF Pending, At
<1>4. TabOK(tab)
  BY TableIs DEF SInv
<1>5. CASE c.op = "dup"
  <2>1. ~Exhausted(tab) /\ SetTable(t, Allocate(tab, e))
    BY Zenon, <1>1, <1>5
  <2>2. TabOK(Allocate(tab, e))
    BY Zenon, <1>4, <2>1, AllocateOK
  <2>3. Posix!Served(Pending(c), tab.entries, Allocate(tab, e).entries)
    BY Zenon, <1>3, <1>4, <1>5, <2>1, AllocateOpens DEF Posix!Served
  <2> QED BY Zenon, <1>1, <2>1, <2>2, <2>3, ServeStep
<1>6. CASE c.op = "fcntl"
  <2>1. AtLeast(tab, c.new) # {} /\ SetTable(t, AllocateMin(tab, c.new, e))
    BY Zenon, <1>1, <1>6
  <2>2. /\ TabOK(AllocateMin(tab, c.new, e))
        /\ \E v \in Posix!Fd :
             /\ Posix!IsLeast(v, Posix!Free(tab.entries, c.new))
             /\ Posix!Opens(tab.entries, AllocateMin(tab, c.new, e).entries, {v})
    BY Zenon, <1>2, <1>4, <1>6, <2>1, AllocateMinOpens
  <2>3. Posix!Served(Pending(c), tab.entries, AllocateMin(tab, c.new, e).entries)
    BY Zenon, <1>3, <1>6, <2>2, ServedFrom
  <2> QED BY Zenon, <1>1, <2>1, <2>2, <2>3, ServeStep
<1>7. CASE c.op = "dup2"
  <2>1. SetTable(t, AllocateAt(tab, c.new, e))
    BY Zenon, <1>1, <1>7
  <2>2. /\ TabOK(AllocateAt(tab, c.new, e))
        /\ AllocateAt(tab, c.new, e).entries = Insert(tab.entries, c.new, e)
    BY Zenon, <1>2, <1>4, <1>7, ClaimOK DEF AllocateAt
  <2>3. Posix!Opens(tab.entries, AllocateAt(tab, c.new, e).entries, {c.new})
    BY SMTT(60), <2>2, InsertOpens
  <2>4. Posix!Served(Pending(c), tab.entries, AllocateAt(tab, c.new, e).entries)
    BY <1>3, <1>7, <2>3 DEF Posix!Served
  <2> QED BY Zenon, <1>1, <2>1, <2>2, <2>4, ServeStep
<1> QED BY Zenon, <1>2, <1>5, <1>6, <1>7

\* fork, vfork, clone and clone3 leave the tables until the child has one.
LEMMA SpawnStep ==
  ASSUME SInv, NEW t \in Task, NEW c \in Task, NEW files, NEW thread, NEW share,
         Spawn(t, c, files, thread, share)
  PROVE  SInv' /\ PosixStep
<1> DEFINE new == [at |-> "fork.put", child |-> c, share |-> share]
<1>1. /\ pc[t].at = "idle" /\ GoTo(t, new) /\ UNCHANGED <<tables, arc>>
      /\ pidOf' = [pidOf EXCEPT ![c] = IF thread THEN pidOf[t] ELSE c]
  BY Zenon DEF Spawn, Call, At
<1>2. PcOK(new) /\ Pending(new) = Posix!NoReq
  BY Zenon DEF PcOK, Pending, InDupSteps, Posix!NoReq
<1> HIDE DEF new
<1>3. PcsOK' /\ Requests' = [Requests EXCEPT ![t] = Posix!NoReq]
  BY Zenon, <1>1, <1>2, GoToOK DEF SInv
<1>4. Requests' = Requests
  BY Zenon, <1>1, <1>3, IdleRequest DEF Requests
<1>5. pidOf' \in [Task -> Task]
  BY Zenon, <1>1 DEF SInv, TablesOK
<1>6. TablesOK' /\ OpenFds' = OpenFds
  BY <1>1, <1>5 DEF SInv, TablesOK, TabOK, OpenFds
<1> QED BY Zenon, <1>3, <1>4, <1>6 DEF SInv, PosixStep

\* The child's table is its parent's, shared or copied.
LEMMA SpawnPutStep ==
  ASSUME SInv, NEW t \in Task, SpawnPut(t)
  PROVE  SInv' /\ PosixStep
<1> DEFINE c == pc[t].child
           a == Arc(t)
           p == pidOf[t]
           share == pc[t].share
<1>1. /\ pc[t].at = "fork.put" /\ GoTo(t, Idle) /\ UNCHANGED pidOf
      /\ arc' = [arc EXCEPT ![p] = a, ![c] = IF share THEN a ELSE c]
      /\ tables' = IF share THEN [tables EXCEPT ![a] = Table(t)]
                   ELSE [tables EXCEPT ![a] = Table(t), ![c] = Table(t)]
  BY Zenon DEF SpawnPut, At, unmoved
<1>2. c \in Task
  BY Zenon, <1>1 DEF SInv, PcsOK, PcOK
<1>3. a \in Task /\ Table(t) = tables[a] /\ TabOK(Table(t)) /\ p \in Task
  BY Zenon, TableIs DEF SInv, TablesOK
<1>4. PcsOK' /\ Requests' = Requests
  <2>1. PcsOK' /\ Requests' = [Requests EXCEPT ![t] = Posix!NoReq]
    BY Zenon, <1>1, GoToOK, IdleOK DEF SInv
  <2>2. Pending(pc[t]) = Posix!NoReq
    BY Zenon, <1>1 DEF Pending, Posix!NoReq
  <2> QED BY Zenon, <2>1, <2>2 DEF Requests
<1>5. arc[p] # NoTask => a = arc[p]
  BY Zenon DEF Arc
<1>6. arc[p] = NoTask => a = p
  BY Zenon DEF Arc
<1> HIDE DEF a, p, c, share
<1>7. /\ DOMAIN tables' = Task
      /\ \A u \in Task : tables'[u] = IF u = c /\ ~share THEN tables[a] ELSE tables[u]
  BY Zenon, <1>1, <1>2, <1>3 DEF SInv, TablesOK
<1>8. arc' \in [Task -> Task \cup {NoTask}] /\ pidOf' \in [Task -> Task]
  BY Zenon, <1>1, <1>2, <1>3 DEF SInv, TablesOK
<1>9. \A u \in Task : TabOK(tables'[u])
  BY Zenon, <1>3, <1>7 DEF SInv, TablesOK
<1>10. /\ arc'[c] = IF share THEN a ELSE c
       /\ \A u \in Task \ {c} : arc'[u] = IF u = p THEN a ELSE arc[u]
  BY Zenon, <1>1, <1>2, <1>3 DEF SInv, TablesOK
<1>11. ASSUME NEW u \in Task, arc'[u] = NoTask PROVE tables'[u] = NewTable
  BY Zenon, <1>2, <1>3, <1>7, <1>10, <1>11, TaskAssumption DEF SInv, TablesOK
<1>12. \A u \in Task : arc[u] # NoTask => arc'[u] # NoTask
  BY Zenon, <1>2, <1>3, <1>10, TaskAssumption
<1>13. arc'[a] # NoTask /\ arc'[c] # NoTask
  BY SMTT(60), <1>2, <1>3, <1>5, <1>6, <1>10, <1>12, TaskAssumption DEF SInv, TablesOK
<1>14. ASSUME NEW u \in Task, arc'[u] # NoTask PROVE arc'[arc'[u]] # NoTask
  BY SMTT(60), <1>10, <1>12, <1>13, <1>14 DEF SInv, TablesOK
<1>15. TablesOK'
  BY Zenon, <1>7, <1>8, <1>9, <1>11, <1>14 DEF TablesOK, TabOK
<1>16. CASE share
  <2>1. OpenFds' = OpenFds
    BY Zenon, <1>7, <1>16 DEF OpenFds
  <2> QED BY Zenon, <1>4, <1>15, <2>1 DEF SInv, PosixStep
<1>17. CASE ~share
  <2>1. OpenFds' = [OpenFds EXCEPT ![c] = OpenFds[a]]
    BY Zenon, <1>2, <1>3, <1>7, <1>17 DEF OpenFds
  <2>2. Posix!Copy(a, c)
    BY Zenon, <1>4, <2>1 DEF Posix!Copy
  <2> QED BY Zenon, <1>2, <1>3, <1>4, <1>15, <2>2 DEF SInv, PosixStep, Posix!Next
<1> QED BY Zenon, <1>16, <1>17

-----------------------------------------------------------------------------
\* The first process starts with the standard descriptors.
LEMMA InitStep == Init => SInv /\ Posix!Init
<1> SUFFICES ASSUME Init PROVE SInv /\ Posix!Init
  BY Zenon
<1>1. TablesOK
  BY Zenon, NewTableOK DEF Init, TablesOK
<1>2. PcsOK
  BY Zenon, IdleOK DEF Init, PcsOK
<1>3. \A t \in Task : DOMAIN OpenFds[t] = 0 .. FirstUser - 1
  BY Zenon DEF Init, OpenFds, NewTable
<1>4. Requests = [t \in Task |-> Posix!NoReq]
  BY Zenon, IdleOK DEF Init, Requests
<1> QED BY Zenon, <1>1, <1>2, <1>3, <1>4 DEF SInv, Posix!Init

\* Every step keeps the invariant and is a step of PosixFds, or none.
LEMMA NextStep == SInv /\ [Next]_vars => SInv' /\ PosixStep
<1> SUFFICES ASSUME SInv, [Next]_vars PROVE SInv' /\ PosixStep
  BY Zenon
<1>1. CASE UNCHANGED vars
  BY Zenon, <1>1, QuietStep DEF vars
<1>2. ASSUME NEW t \in Task, NEW p \in Path, OpenVirtual(t, p) \/ handle_openat(t, p)
      PROVE  SInv' /\ PosixStep
  BY Zenon, <1>2, OpenVirtualStep, OpenatStep
<1>3. ASSUME NEW t \in Task, handle_socket(t) \/ handle_pipe2(t) \/ OpenPut(t)
      PROVE  SInv' /\ PosixStep
  BY Zenon, <1>3, SocketStep, PipeStep, OpenPutStep
<1>4. ASSUME NEW t \in Task, NEW v \in Vfd, handle_close(t, v) \/ handle_dup(t, v)
      PROVE  SInv' /\ PosixStep
  BY Zenon, <1>4, CloseStep, DupStep
<1>5. ASSUME NEW t \in Task, NEW v \in Vfd, NEW w \in Vfd,
             RawClose(t, v) \/ RawDup(t, v) \/ RawDup2(t, v, w) \/ RawDupFrom(t, v, w)
      PROVE  SInv' /\ PosixStep
  <2>1. Raw(t, v)
    BY Zenon, <1>5 DEF RawClose, RawDup, RawDup2, RawDupFrom
  <2> QED BY Zenon, <2>1, QuietStep DEF Raw, unmoved
<1>6. ASSUME NEW t \in Task, CloseKernel(t) PROVE SInv' /\ PosixStep
  BY Zenon, <1>6, CloseKernelStep
<1>7. ASSUME NEW t \in Task, NEW v \in Vfd, NEW w \in Vfd,
             handle_dup2(t, v, w) \/ handle_dup3(t, v, w) \/ handle_fcntl(t, v, w)
      PROVE  SInv' /\ PosixStep
  BY Zenon, <1>7, Dup2Step, FcntlStep DEF handle_dup2, handle_dup3
<1>8. ASSUME NEW t \in Task, DupKernel(t) \/ DupClose(t) \/ DupPut(t)
      PROVE  SInv' /\ PosixStep
  BY <1>8, DupKernelStep, DupCloseStep, DupPutStep
<1>9. ASSUME NEW t \in Task, NEW c \in Task, NEW x \in BOOLEAN, NEW y \in BOOLEAN,
             \/ handle_fork(t, c) \/ handle_vfork(t, c)
             \/ handle_clone(t, c, x, y) \/ handle_clone3(t, c, x, y)
      PROVE  SInv' /\ PosixStep
  BY Zenon, <1>9, SpawnStep DEF handle_fork, handle_vfork, handle_clone, handle_clone3
<1>10. ASSUME NEW t \in Task, SpawnPut(t) PROVE SInv' /\ PosixStep
  BY <1>10, SpawnPutStep
<1>11. ASSUME NEW t \in Task, NEW ks \in SUBSET Kfd, Exec(t, ks) PROVE SInv' /\ PosixStep
  BY Zenon, <1>11, QuietStep DEF Exec, unmoved
<1>12. ASSUME NEW t \in Task, Exit(t) PROVE SInv' /\ PosixStep
  BY Zenon, <1>12, QuietStep DEF Exit
<1>13. CASE Next
  BY <1>2, <1>3, <1>4, <1>5, <1>6, <1>7, <1>8, <1>9, <1>10, <1>11, <1>12, <1>13, Zenon DEF Next
<1> QED BY Zenon, <1>1, <1>13

\* The heap of every descriptor table holds exactly the closed numbers below next_vfd, for
\* any number of tasks and descriptors and any interleaving of the handlers.
THEOREM HeapsExact == Spec => []FreeExact
<1>1. SInv => FreeExact
  BY Zenon DEF SInv, TablesOK, TabOK, FreeExact
<1> QED BY <1>1, InitStep, NextStep, PTL DEF Spec

\* The descriptor tables of the sandbox implement the descriptors POSIX asks for, except that
\* the standard ones, once closed, are not handed out again: least free number from FirstUser
\* on, replacement at the number asked for, and nothing else touched.
THEOREM ImplementsPosix == Spec => ActsAsPosix
<1>1. SInv /\ [Next]_vars => [Posix!Next]_<<OpenFds, Requests>>
  BY Zenon, NextStep DEF PosixStep
<1> QED BY <1>1, InitStep, NextStep, PTL DEF Spec, ActsAsPosix, Posix!Spec

-----------------------------------------------------------------------------
(* The kernel descriptors behind the tables.  The tasks that use one table *)
(* are a group; what holds of a group is said of its entries, its kernel   *)
(* table and its handlers, and each handler changes it in one of six ways. *)

EntryOK(e) ==
  \/ e.kind = "virtual" /\ e.kernel_fd = NoFd
  \/ e.kind = "passthrough" /\ e.kernel_fd \in Nat

\* The kernel descriptors a handler holds, and the number whose descriptor it has closed.
Owns(c) == Holds(c) \ {NoFd}

Gone(c) == IF c.at = "dup.put" /\ c.shut # NoFd THEN {c.new} ELSE {}

\* The entries that have a kernel descriptor, but for the numbers in R
Backs(es, R) == {v \in DOMAIN es : es[v].kernel_fd # NoFd} \ R

\* Every kernel descriptor is behind one entry, on the entry's file, or is one of H.
Whole(es, K, R, H) ==
  /\ \A v \in DOMAIN es : EntryOK(es[v])
  /\ H \subseteq DOMAIN K
  /\ \A v \in Backs(es, R) : /\ es[v].kernel_fd \in DOMAIN K
                             /\ es[v].kernel_fd \notin H
                             /\ K[es[v].kernel_fd] = es[v].path
  /\ \A v, w \in Backs(es, R) : es[v].kernel_fd = es[w].kernel_fd => v = w
  /\ \A k \in DOMAIN K : k \in H \/ \E v \in Backs(es, R) : es[v].kernel_fd = k

\* An entry without a kernel descriptor takes a number that has none.
LEMMA WholeVirtual ==
  ASSUME NEW es, NEW K, NEW R, NEW H, Whole(es, K, R, H),
         NEW v, v \in Backs(es, {}) => v \in R,
         NEW e, e.kind = "virtual", e.kernel_fd = NoFd
  PROVE  Whole(Insert(es, v, e), K, R \ {v}, H)
<1> DEFINE es2 == Insert(es, v, e)
<1>1. /\ DOMAIN es2 = DOMAIN es \cup {v} /\ es2[v] = e
      /\ \A x \in DOMAIN es : x # v => es2[x] = es[x]
  BY Zenon DEF Insert
<1> HIDE DEF es2
<1>2. Backs(es2, R \ {v}) = Backs(es, R)
  BY <1>1 DEF Backs
<1>3. \A x \in Backs(es, R) : es2[x] = es[x]
  BY <1>1 DEF Backs
<1>4. \A x \in DOMAIN es2 : EntryOK(es2[x])
  BY <1>1 DEF Whole, EntryOK
<1> QED BY Zenon, <1>2, <1>3, <1>4 DEF Whole, es2

\* The kernel hands out a descriptor, and the handler holds it.
LEMMA WholeNew ==
  ASSUME NEW es, NEW K, NEW R, NEW H, Whole(es, K, R, H), NEW k, k \notin DOMAIN K, NEW f
  PROVE  Whole(es, Insert(K, k, f), R, H \cup {k})
BY ZenonT(40) DEF Whole, Insert

\* An entry takes over a descriptor that a handler holds.
LEMMA WholePut ==
  ASSUME NEW es, NEW K, NEW R, NEW H, Whole(es, K, R, H),
         NEW v, v \in Backs(es, {}) => v \in R,
         NEW k \in H, k \in Nat, NEW e, e = Passthrough(k, K[k])
  PROVE  Whole(Insert(es, v, e), K, R \ {v}, H \ {k})
<1> DEFINE es2 == Insert(es, v, e)
<1>1. /\ DOMAIN es2 = DOMAIN es \cup {v} /\ es2[v] = e
      /\ \A x \in DOMAIN es : x # v => es2[x] = es[x]
  BY Zenon DEF Insert
<1>2. e.kind = "passthrough" /\ e.kernel_fd = k /\ e.path = K[k] /\ k # NoFd
  BY DEF Passthrough, NoFd
<1> HIDE DEF es2
<1>3. /\ Backs(es2, R \ {v}) = Backs(es, R) \cup {v}
      /\ v \notin Backs(es, R)
  BY <1>1, <1>2 DEF Backs
<1>4. \A x \in Backs(es, R) : es2[x] = es[x]
  BY Zenon, <1>1, <1>3 DEF Backs
<1>5. \A x \in DOMAIN es2 : EntryOK(es2[x])
  BY Zenon, <1>1, <1>2 DEF Whole, EntryOK
<1>6. k \in DOMAIN K /\ \A x \in Backs(es, R) : es[x].kernel_fd # k
  BY DEF Whole
<1>7. \A x \in Backs(es, R) \cup {v} : /\ es2[x].kernel_fd \in DOMAIN K
                                       /\ es2[x].kernel_fd \notin H \ {k}
                                       /\ K[es2[x].kernel_fd] = es2[x].path
  BY Zenon, <1>1, <1>2, <1>4, <1>6 DEF Whole
<1>8. \A x, y \in Backs(es, R) \cup {v} : es2[x].kernel_fd = es2[y].kernel_fd => x = y
  BY <1>1, <1>2, <1>4, <1>6 DEF Whole
<1>9. \A x \in DOMAIN K :
        x \in H \ {k} \/ \E y \in Backs(es, R) \cup {v} : es2[y].kernel_fd = x
  BY <1>1, <1>2, <1>4 DEF Whole
<1> QED BY Zenon, <1>3, <1>5, <1>7, <1>8, <1>9 DEF Whole, es2

\* An entry goes, and its handler holds what was behind it.
LEMMA WholeTake ==
  ASSUME NEW es, NEW K, NEW R, NEW H, Whole(es, K, R, H), NEW v \in DOMAIN es \ R
  PROVE  Whole([x \in DOMAIN es \ {v} |-> es[x]], K, R, H \cup ({es[v].kernel_fd} \ {NoFd}))
<1> DEFINE es2 == [x \in DOMAIN es \ {v} |-> es[x]]
<1>1. DOMAIN es2 = DOMAIN es \ {v} /\ \A x \in DOMAIN es2 : es2[x] = es[x]
  BY Zenon
<1> HIDE DEF es2
<1>2. Backs(es2, R) = Backs(es, R) \ {v}
  BY Zenon, <1>1 DEF Backs
<1>3. es[v].kernel_fd # NoFd => v \in Backs(es, R)
  BY Zenon DEF Backs
<1>4. \A x \in Backs(es, R) \ {v} : x \in DOMAIN es2
  BY Zenon, <1>1 DEF Backs
<1>5. \A x \in DOMAIN es2 : EntryOK(es2[x])
  BY Zenon, <1>1 DEF Whole, EntryOK
<1> DEFINE H2 == H \cup ({es[v].kernel_fd} \ {NoFd})
<1>6. /\ H2 \subseteq DOMAIN K
      /\ \A x \in Backs(es, R) \ {v} : es[x].kernel_fd \notin H2
  BY <1>3 DEF Whole
<1>7. \A k \in DOMAIN K : k \in H2 \/ \E x \in Backs(es, R) \ {v} : es[x].kernel_fd = k
  <2> SUFFICES ASSUME NEW k \in DOMAIN K, k \notin H2
               PROVE  \E x \in Backs(es, R) \ {v} : es[x].kernel_fd = k
    BY Zenon
  <2>1. PICK x \in Backs(es, R) : es[x].kernel_fd = k
    BY Zenon DEF Whole
  <2>2. x # v
    BY Zenon, <2>1 DEF Backs
  <2> QED BY Zenon, <2>1, <2>2
<1> HIDE DEF H2
<1>8. Whole(es2, K, R, H2)
  BY Zenon, <1>1, <1>2, <1>4, <1>5, <1>6, <1>7 DEF Whole
<1> QED BY Zenon, <1>8 DEF es2, H2

\* The kernel closes what a handler holds.
LEMMA WholeDrop ==
  ASSUME NEW es, NEW K, NEW R, NEW H, Whole(es, K, R, H), NEW k \in H
  PROVE  Whole(es, [x \in DOMAIN K \ {k} |-> K[x]], R, H \ {k})
BY Zenon DEF Whole

\* The kernel closes what is behind an entry that is to be replaced.
LEMMA WholeShut ==
  ASSUME NEW es, NEW K, NEW R, NEW H, Whole(es, K, R, H), NEW v \in Backs(es, R)
  PROVE  Whole(es, [x \in DOMAIN K \ {es[v].kernel_fd} |-> K[x]], R \cup {v}, H)
<1>1. Backs(es, R \cup {v}) = Backs(es, R) \ {v}
  BY Zenon DEF Backs
<1> DEFINE s == es[v].kernel_fd
           K2 == [x \in DOMAIN K \ {s} |-> K[x]]
<1>2. DOMAIN K2 = DOMAIN K \ {s} /\ \A x \in DOMAIN K2 : K2[x] = K[x]
  BY Zenon
<1>3. s \notin H /\ \A x \in Backs(es, R) \ {v} : es[x].kernel_fd # s
  BY Zenon DEF Whole
<1> HIDE DEF K2
<1>4. \A k \in DOMAIN K2 : k \in H \/ \E x \in Backs(es, R) \ {v} : es[x].kernel_fd = k
  <2> SUFFICES ASSUME NEW k \in DOMAIN K2, k \notin H
               PROVE  \E x \in Backs(es, R) \ {v} : es[x].kernel_fd = k
    BY Zenon
  <2>1. k \in DOMAIN K /\ k # s
    BY Zenon, <1>2
  <2>2. PICK x \in Backs(es, R) : es[x].kernel_fd = k
    BY Zenon, <2>1 DEF Whole
  <2> QED BY Zenon, <2>1, <2>2
<1>5. \A x \in Backs(es, R) \ {v} : /\ es[x].kernel_fd \in DOMAIN K2
                                    /\ es[x].kernel_fd \notin H
                                    /\ K2[es[x].kernel_fd] = es[x].path
  BY Zenon, <1>2, <1>3 DEF Whole
<1>6. H \subseteq DOMAIN K2
  BY Zenon, <1>2, <1>3 DEF Whole
<1>7. Whole(es, K2, R \cup {v}, H)
  BY Zenon, <1>1, <1>4, <1>5, <1>6 DEF Whole
<1> QED BY Zenon, <1>7 DEF K2

-----------------------------------------------------------------------------
\* The kernel descriptor that a dup2 or dup3 has to close
ToShut(es, c) ==
  IF c.op = "dup2" /\ c.new \in DOMAIN es THEN es[c.new].kernel_fd ELSE NoFd

\* What a handler holds is what the entries and the kernel have.
HandlerOK(es, K, c) ==
  /\ c.at = "open.put" =>
       \/ \E k \in Nat : c.kfds = <<k>> /\ K[k] = c.path
       \/ \E k, l \in Nat : k # l /\ c.kfds = <<k, l>> /\ K[k] = c.path /\ K[l] = c.path
  /\ c.at = "close" => c.kfd # NoFd
  /\ c.at \in InDupSteps => c.shut = ToShut(es, c) /\ c.kfd \in Nat \cup {NoFd}
  /\ c.at = "dup" =>
       /\ c.kfd # NoFd /\ c.old \in DOMAIN es /\ es[c.old].kernel_fd = c.kfd
       /\ c.op # "fcntl" => es[c.old].path = c.path
  /\ c.at = "dup.close" =>
       c.op = "dup2" /\ c.shut # NoFd /\ (c.kfd # NoFd => K[c.kfd] = c.path)
  /\ c.at = "dup.put" =>
       /\ c.kfd = NoFd => c.op = "dup2"
       /\ c.kfd # NoFd /\ c.op # "fcntl" => K[c.kfd] = c.path
       /\ c.op = "fcntl" => c.old \in DOMAIN es /\ es[c.old].path = K[c.kfd]

\* A handler that holds nothing
Blank(c) == c.at \in {"idle", "fork.put"}

InWindow(c) == c.at \in InDupSteps \cup {"fork.put"}

\* The group of tasks S with the handlers p
GroupOK(es, K, S, p) ==
  /\ \A u \in S : HandlerOK(es, K, p[u])
  /\ \A u, w \in S : u # w => \A k \in Owns(p[u]) : k \notin Owns(p[w])
  /\ Whole(es, K, UNION {Gone(p[u]) : u \in S}, UNION {Owns(p[u]) : u \in S})

\* Such a handler owns nothing, and is in order.
LEMMA BlankIs ==
  ASSUME NEW c, Blank(c), NEW es, NEW K
  PROVE  HandlerOK(es, K, c) /\ Owns(c) = {} /\ Gone(c) = {}
BY Zenon DEF Blank, HandlerOK, Owns, Holds, Gone, InDupSteps

\* Blank handlers may come and go.
LEMMA GroupSame ==
  ASSUME NEW es, NEW K, NEW S, NEW p, GroupOK(es, K, S, p), NEW S2, NEW p2,
         \A u \in S2 : (u \in S /\ p2[u] = p[u]) \/ Blank(p2[u]),
         \A u \in S : (u \in S2 /\ p2[u] = p[u]) \/ Blank(p[u])
  PROVE  GroupOK(es, K, S2, p2)
<1>1. /\ \A u \in S2 : Blank(p2[u]) =>
           HandlerOK(es, K, p2[u]) /\ Owns(p2[u]) = {} /\ Gone(p2[u]) = {}
      /\ \A u \in S : Blank(p[u]) => Owns(p[u]) = {} /\ Gone(p[u]) = {}
  BY Zenon, BlankIs
<1>2. UNION {Gone(p2[u]) : u \in S2} = UNION {Gone(p[u]) : u \in S}
  BY ZenonT(40), <1>1
<1>3. UNION {Owns(p2[u]) : u \in S2} = UNION {Owns(p[u]) : u \in S}
  <2>1. \A u \in S2 : \A k : k \in Owns(p2[u]) => u \in S /\ k \in Owns(p[u])
    BY Zenon, <1>1
  <2>2. \A u \in S : \A k : k \in Owns(p[u]) => u \in S2 /\ k \in Owns(p2[u])
    BY Zenon, <1>1
  <2> QED BY Zenon, <2>1, <2>2
<1>4. \A u \in S2 : HandlerOK(es, K, p2[u])
  BY Zenon, <1>1 DEF GroupOK
<1>5. \A u, w \in S2 : u # w => \A k \in Owns(p2[u]) : k \notin Owns(p2[w])
  <2> SUFFICES ASSUME NEW u \in S2, NEW w \in S2, u # w, NEW k \in Owns(p2[u]), k \in Owns(p2[w])
               PROVE  FALSE
    BY Zenon
  <2>1. u \in S /\ w \in S /\ p2[u] = p[u] /\ p2[w] = p[w]
    BY Zenon, <1>1
  <2> QED BY Zenon, <2>1 DEF GroupOK
<1> QED BY Zenon, <1>2, <1>3, <1>4, <1>5 DEF GroupOK

\* What the others of a group hold
RestOf(S, p, t) == UNION {Owns(p[u]) : u \in S \ {t}}

\* What a step of t has to show: the entries, the kernel table and its handler fit together.
Fits(es, K, H, c) ==
  /\ HandlerOK(es, K, c)
  /\ \A k \in Owns(c) : k \notin H
  /\ Whole(es, K, Gone(c), H \cup Owns(c))

\* It does so over the kernel table K: what the others hold stays as it is.
FitsOver(K, es2, K2, H, c) == Fits(es2, K2, H, c) /\ \A x \in H : K2[x] = K[x]

\* The handlers outside their windows have replaced nothing, and need the kernel alone.
LEMMA OutsideWindow ==
  ASSUME NEW c, ~InWindow(c), NEW es, NEW K, HandlerOK(es, K, c), NEW es2, NEW K2,
         \A k \in Owns(c) : K2[k] = K[k]
  PROVE  Gone(c) = {} /\ HandlerOK(es2, K2, c)
<1>1. Gone(c) = {}
  BY Zenon DEF Gone, InWindow, InDupSteps
<1>2. c.at \notin InDupSteps /\ c.at # "dup" /\ c.at # "dup.close" /\ c.at # "dup.put"
  BY Zenon DEF InWindow, InDupSteps
<1>3. CASE c.at = "open.put"
  <2>1. Holds(c) = {c.kfds[i] : i \in DOMAIN c.kfds}
    BY Zenon, <1>3 DEF Holds
  <2>2. ASSUME NEW k \in Nat, c.kfds = <<k>> PROVE k \in Owns(c)
    BY <2>1, <2>2 DEF Owns, NoFd
  <2>3. ASSUME NEW k \in Nat, NEW l \in Nat, c.kfds = <<k, l>> PROVE k \in Owns(c) /\ l \in Owns(c)
    BY <2>1, <2>3 DEF Owns, NoFd
  <2> QED BY Zenon, <1>1, <1>2, <1>3, <2>2, <2>3 DEF HandlerOK
<1>4. CASE c.at # "open.put"
  BY Zenon, <1>1, <1>2, <1>4 DEF HandlerOK
<1> QED BY Zenon, <1>3, <1>4

\* A group whose other handlers are outside their windows, seen from t
LEMMA GroupSeen ==
  ASSUME NEW es, NEW K, NEW S, NEW p, GroupOK(es, K, S, p), NEW t \in S,
         \A u \in S \ {t} : ~InWindow(p[u])
  PROVE  Fits(es, K, RestOf(S, p, t), p[t])
<1>1. \A u \in S \ {t} : Gone(p[u]) = {}
  BY Zenon DEF Gone, InWindow, InDupSteps
<1>2. UNION {Gone(p[u]) : u \in S} = Gone(p[t])
  BY Zenon, <1>1
<1>3. UNION {Owns(p[u]) : u \in S} = RestOf(S, p, t) \cup Owns(p[t])
  BY Zenon DEF RestOf
<1>4. \A k \in Owns(p[t]) : k \notin RestOf(S, p, t)
  BY Zenon DEF RestOf, GroupOK
<1> QED BY Zenon, <1>2, <1>3, <1>4 DEF Fits, GroupOK

\* The group after a step of t
LEMMA GroupStep ==
  ASSUME NEW es, NEW K, NEW S, NEW p, GroupOK(es, K, S, p), NEW t \in S,
         \A u \in S \ {t} : ~InWindow(p[u]),
         NEW es2, NEW K2, NEW p2, \A u \in S \ {t} : p2[u] = p[u],
         Fits(es2, K2, RestOf(S, p, t), p2[t]),
         \A k \in RestOf(S, p, t) : K2[k] = K[k]
  PROVE  GroupOK(es2, K2, S, p2)
<1>1. \A u \in S \ {t} : Gone(p2[u]) = {} /\ HandlerOK(es2, K2, p2[u])
  <2> SUFFICES ASSUME NEW u \in S \ {t} PROVE Gone(p2[u]) = {} /\ HandlerOK(es2, K2, p2[u])
    BY Zenon
  <2>1. HandlerOK(es, K, p[u]) /\ ~InWindow(p[u]) /\ p2[u] = p[u]
    BY Zenon DEF GroupOK
  <2>2. \A k \in Owns(p[u]) : K2[k] = K[k]
    BY Zenon DEF RestOf
  <2> QED BY Zenon, <2>1, <2>2, OutsideWindow
<1>2. UNION {Gone(p2[u]) : u \in S} = Gone(p2[t])
  BY Zenon, <1>1
<1>3. RestOf(S, p, t) = RestOf(S, p2, t)
  BY Zenon DEF RestOf
<1>4. UNION {Owns(p2[u]) : u \in S} = RestOf(S, p, t) \cup Owns(p2[t])
  BY Zenon, <1>3 DEF RestOf
<1>5. \A u, w \in S : u # w => \A k \in Owns(p2[u]) : k \notin Owns(p2[w])
  <2> SUFFICES ASSUME NEW u \in S, NEW w \in S, u # w, NEW k \in Owns(p2[u]), k \in Owns(p2[w])
               PROVE  FALSE
    BY Zenon
  <2>1. CASE u = t
    <3>1. k \in RestOf(S, p, t)
      BY Zenon, <2>1 DEF RestOf
    <3> QED BY Zenon, <2>1, <3>1 DEF Fits
  <2>2. CASE w = t
    <3>1. k \in RestOf(S, p, t)
      BY Zenon, <2>2 DEF RestOf
    <3> QED BY Zenon, <2>2, <3>1 DEF Fits
  <2>3. CASE u # t /\ w # t
    BY Zenon, <2>3 DEF GroupOK
  <2> QED BY Zenon, <2>1, <2>2, <2>3
<1>6. \A u \in S : HandlerOK(es2, K2, p2[u])
  BY Zenon, <1>1 DEF Fits
<1> QED BY Zenon, <1>2, <1>4, <1>5, <1>6 DEF Fits, GroupOK

-----------------------------------------------------------------------------
(* The invariant.  An id without a table belongs to a task that is not     *)
(* born, or that waits for its table; a group has one table and one kernel *)
(* table; while a handler is in a window the others of its group stand.    *)

KernOK ==
  /\ kernOf \in [Task -> Task \cup {NoTask}]
  /\ DOMAIN kern = Task
  /\ \A t \in Task \ Live : pc[t].at = "idle"

Fresh(x) == x # First /\ arc[x] = NoTask

IdsOK ==
  \A x \in Task : Fresh(x) =>
    /\ \A u \in Live \ {x} : pidOf[u] # x /\ kernOf[u] # x
    /\ x \in Live => Newborn(x)

\* The child of a fork: in its parent's group, or with a copy of the kernel table, taken when
\* no other handler of the group held anything.
ChildOK(q) ==
  LET c == pc[q].child IN
  /\ c \in Live /\ c # q /\ Fresh(c) /\ pc[c].at = "idle" /\ ~Newborn(q)
  /\ \A r \in Live : pc[r].at = "fork.put" /\ pc[r].child = c => r = q
  /\ pidOf[c] \in {c, pidOf[q]}
  /\ \/ kernOf[c] = kernOf[q] /\ (pc[q].share \/ pidOf[c] = pidOf[q])
     \/ /\ kernOf[c] = c /\ pidOf[c] = c /\ ~pc[q].share
        /\ kern[c] = Kernel(q)
        /\ \A u \in Live : kernOf[u] = kernOf[q] => Blank(pc[u])

ChildrenOK == \A q \in Live : pc[q].at = "fork.put" => ChildOK(q)

SidesOK ==
  \A t, u \in Live : ~Newborn(t) =>
    /\ Arc(u) = Arc(t) => kernOf[u] = kernOf[t]
    /\ kernOf[u] = kernOf[t] /\ ~Newborn(u) => Arc(u) = Arc(t)

\* The group of t
Kin(t) == {u \in Live : kernOf[u] = kernOf[t]}

Alone(t) == InWindow(pc[t]) => \A u \in Kin(t) \ {t} : ~InWindow(pc[u])

InOrder(t) == GroupOK(Table(t).entries, Kernel(t), Kin(t), pc) /\ Alone(t)

GroupsOK == \A t \in Live : Newborn(t) \/ InOrder(t)

KState == IdsOK /\ ChildrenOK /\ SidesOK /\ GroupsOK

KInv == KernOK /\ (disturbed \/ KState)

\* A step of t that disturbs nothing: t has its table, the others of its group stand.
Undisturbing(t) == ~Newborn(t) /\ \A u \in Kin(t) \ {t} : ~InWindow(pc[u])

\* The group is the tasks that use the table.
LEMMA SharingIs ==
  ASSUME KState, NEW t \in Live, ~Newborn(t)
  PROVE  Sharing(t) = Kin(t)
BY Zenon DEF KState, SidesOK, Sharing, Kin

\* What is not counted as a disturbance
LEMMA CalmIs ==
  ASSUME KInv, NEW t \in Live, ~(disturbed \/ Disturbs(t))
  PROVE  KState /\ Undisturbing(t)
<1>1. KState
  BY Zenon DEF KInv
<1>2. ~Newborn(t)
  BY Zenon, <1>1 DEF KState, ChildrenOK, ChildOK, Newborn, Disturbs
<1>3. \A u \in Kin(t) \ {t} : u \in Sharing(t) /\ u \in Live
  BY Zenon DEF Kin, Sharing
<1>4. \A u \in Kin(t) \ {t} : ~InWindow(pc[u])
  BY Zenon, <1>3 DEF Disturbs, InWindow, InDupSteps
<1> QED BY Zenon, <1>1, <1>2, <1>4 DEF Undisturbing

\* A step of t within its handler: es2, K2 and c are its entries, kernel table and handler after.
Goes(t, c) == \A u \in Task : pc'[u] = IF u = t THEN c ELSE pc[u]

Stores(t, es2) ==
  /\ \A a \in Task : tables'[a].entries = IF a = Arc(t) THEN es2 ELSE tables[a].entries
  /\ \A x \in Task : arc'[x] = arc[x] \/ (x = pidOf[t] /\ arc'[x] = Arc(t))

Kerns(t, K2) ==
  DOMAIN kern' = Task /\ \A g \in Task : kern'[g] = IF g = kernOf[t] THEN K2 ELSE kern[g]

Within(t, es2, K2, c) ==
  /\ UNCHANGED <<kernOf, pidOf>>
  /\ pc[t].at # "fork.put" /\ c.at # "fork.put"
  /\ Goes(t, c) /\ Stores(t, es2) /\ Kerns(t, K2)

Rest(t) == RestOf(Kin(t), pc, t)

\* A step within a handler that leaves its group in order keeps the invariant.
LEMMA WithinKeeps ==
  ASSUME SInv, SInv', KernOK, KState, NEW t \in Live, Undisturbing(t),
         NEW es2, NEW K2, NEW c, Within(t, es2, K2, c),
         Fits(es2, K2, Rest(t), c), \A k \in Rest(t) : K2[k] = Kernel(t)[k]
  PROVE  KState'
<1>1. /\ Live' = Live /\ kernOf' = kernOf /\ pidOf' = pidOf
      /\ \A u \in Task : Kin(u)' = Kin(u)
      /\ Live \subseteq Task /\ \A u \in Live : kernOf[u] \in Task
  BY ZenonT(40) DEF Within, Goes, Stores, Kerns, Live, Kin, KernOK
<1>2. \A u \in Task : Arc(u)' = Arc(u) /\ Arc(u) \in Task /\ pidOf[u] \in Task
  <2> SUFFICES ASSUME NEW u \in Task PROVE Arc(u)' = Arc(u) /\ Arc(u) \in Task /\ pidOf[u] \in Task
    BY Zenon
  <2>1. Arc(u) \in Task /\ Arc(t) \in Task /\ pidOf[u] \in Task
    BY Zenon, <1>1, TableIs DEF SInv, TablesOK
  <2>2. arc'[pidOf[u]] = arc[pidOf[u]] \/ (pidOf[u] = pidOf[t] /\ arc'[pidOf[u]] = Arc(t))
    BY Zenon, <2>1 DEF Within, Goes, Stores, Kerns
  <2> QED BY Zenon, <1>1, <2>1, <2>2, TaskAssumption DEF Arc
<1>3. /\ \A u \in Task : pc'[u].at = "fork.put" <=> pc[u].at = "fork.put"
      /\ \A u \in Task : pc[u].at = "fork.put" => u # t
      /\ \A u \in Task : u # t => pc'[u] = pc[u]
      /\ pc'[t] = c
  BY Zenon, <1>1 DEF Within, Goes, Stores, Kerns
<1>4. \A u \in Live : Newborn(u)' <=> Newborn(u)
  BY Zenon, <1>1, <1>3 DEF Newborn
<1>5. \A x \in Task : Fresh(x)' => Fresh(x)
  BY Zenon, <1>1, <1>2, TaskAssumption DEF Fresh, Within, Stores
<1>6. IdsOK'
  BY Zenon, <1>1, <1>4, <1>5 DEF IdsOK, KState
<1>7. SidesOK'
  <2> SUFFICES ASSUME NEW w \in Live, NEW u \in Live, ~Newborn(w)
               PROVE  /\ Arc(u)' = Arc(w)' => kernOf[u] = kernOf[w]
                      /\ kernOf[u] = kernOf[w] /\ ~Newborn(u)' => Arc(u)' = Arc(w)'
    BY Zenon, <1>1, <1>4 DEF SidesOK
  <2>1. Arc(u)' = Arc(u) /\ Arc(w)' = Arc(w) /\ (Newborn(u)' <=> Newborn(u))
    BY Zenon, <1>1, <1>2, <1>4
  <2> QED BY Zenon, <2>1 DEF KState, SidesOK
<1>8. ASSUME NEW q \in Live, pc[q].at = "fork.put" PROVE ChildOK(q)'
  <2> DEFINE d == pc[q].child
  <2>1. q # t /\ pc'[q] = pc[q] /\ ChildOK(q) /\ q \in Task
    BY Zenon, <1>1, <1>3, <1>8 DEF KState, ChildrenOK
  <2>2. kernOf[q] # kernOf[t]
    BY Zenon, <1>8, <2>1 DEF Undisturbing, Kin, InWindow
  <2>3. d \in Live /\ d \in Task /\ d # t /\ pc'[d] = pc[d] /\ Fresh(d)
    BY Zenon, <1>1, <1>3, <1>8, <2>1 DEF ChildOK, Undisturbing, Newborn
  <2>4. d # pidOf[t] /\ d # kernOf[t]
    BY Zenon, <2>3 DEF KState, IdsOK
  <2>5. d # First /\ arc'[d] = NoTask
    BY Zenon, <2>3, <2>4 DEF Fresh, Within, Goes, Stores, Kerns
  <2>6. kern'[d] = kern[d] /\ Kernel(q)' = Kernel(q)
    BY Zenon, <1>1, <2>1, <2>2, <2>3, <2>4 DEF Within, Goes, Stores, Kerns, Kernel
  <2>7. \A u \in Live : kernOf[u] = kernOf[q] => pc'[u] = pc[u]
    BY Zenon, <1>1, <1>3, <2>2
  <2>8. \A r \in Live : pc'[r].at = "fork.put" => pc'[r] = pc[r]
    BY Zenon, <1>1, <1>3
  <2> QED BY Zenon, <1>1, <1>4, <2>1, <2>3, <2>5, <2>6, <2>7, <2>8 DEF ChildOK, Fresh
<1>9. ChildrenOK'
  BY Zenon, <1>1, <1>3, <1>8 DEF ChildrenOK
<1>10. \A u \in Task : /\ Table(u).entries = tables[Arc(u)].entries
                       /\ (Table(u).entries)' = tables'[Arc(u)].entries
  <2>1. \A u \in Task : Table(u) = tables[Arc(u)]
    BY Zenon, TableIs DEF SInv
  <2>2. \A u \in Task : Table(u)' = tables'[Arc(u)']
    BY Zenon, TaskAssumption DEF SInv, TablesOK, Arc, Table
  <2> QED BY Zenon, <1>2, <2>1, <2>2
<1>15. (Table(t).entries)' = es2 /\ Kernel(t)' = K2 /\ t \in Task /\ t \in Kin(t)
  BY Zenon, <1>1, <1>2, <1>10 DEF Within, Goes, Stores, Kerns, Kernel, Kin
<1>11. GroupOK(es2, K2, Kin(t), pc')
  <2>1. GroupOK(Table(t).entries, Kernel(t), Kin(t), pc)
    BY Zenon DEF Undisturbing, KState, GroupsOK, InOrder
  <2>2. \A u \in Kin(t) \ {t} : ~InWindow(pc[u]) /\ pc'[u] = pc[u]
    BY Zenon, <1>1, <1>3 DEF Undisturbing, Kin
  <2>3. Fits(es2, K2, RestOf(Kin(t), pc, t), pc'[t])
    BY Zenon, <1>3 DEF Rest
  <2>4. \A k \in RestOf(Kin(t), pc, t) : K2[k] = Kernel(t)[k]
    BY Zenon DEF Rest
  <2> DEFINE es == Table(t).entries
             K == Kernel(t)
             S == Kin(t)
  <2>5. /\ GroupOK(es, K, S, pc) /\ t \in S
        /\ \A u \in S \ {t} : ~InWindow(pc[u])
        /\ \A u \in S \ {t} : pc'[u] = pc[u]
        /\ Fits(es2, K2, RestOf(S, pc, t), pc'[t])
        /\ \A k \in RestOf(S, pc, t) : K2[k] = K[k]
    BY Zenon, <1>15, <2>1, <2>2, <2>3, <2>4
  <2> HIDE DEF es, K, S
  <2>6. GroupOK(es2, K2, S, pc')
    BY <2>5, GroupStep
  <2> QED BY Zenon, <2>6 DEF S
<1>12. ASSUME NEW u \in Live, ~Newborn(u), kernOf[u] = kernOf[t] PROVE InOrder(u)'
  <2>1. Arc(u) = Arc(t) /\ Kin(u) = Kin(t) /\ u \in Task
    BY Zenon, <1>1, <1>12 DEF KState, SidesOK, Undisturbing, Kin
  <2>2. (Table(u).entries)' = es2 /\ Kernel(u)' = K2
    BY Zenon, <1>1, <1>10, <1>12, <1>15, <2>1 DEF Kernel
  <2>3. Alone(u)'
    BY Zenon, <1>1, <1>3, <2>1 DEF Alone, Undisturbing, Kin
  <2> QED BY Zenon, <1>1, <1>11, <2>1, <2>2, <2>3 DEF InOrder
<1>13. ASSUME NEW u \in Live, ~Newborn(u), kernOf[u] # kernOf[t] PROVE InOrder(u)'
  <2>1. Arc(u) # Arc(t) /\ u \in Task
    BY Zenon, <1>1, <1>13 DEF KState, SidesOK
  <2>2. (Table(u).entries)' = Table(u).entries
    <3>1. tables'[Arc(u)].entries = tables[Arc(u)].entries
      BY Zenon, <1>2, <2>1 DEF Within, Goes, Stores, Kerns
    <3> QED BY Zenon, <1>10, <2>1, <3>1
  <2>3. Kernel(u)' = Kernel(u)
    BY Zenon, <1>1, <1>13 DEF Within, Goes, Stores, Kerns, Kernel
  <2>4. \A w \in Kin(u) : pc'[w] = pc[w]
    BY Zenon, <1>1, <1>3, <1>13 DEF Kin
  <2>5. InOrder(u)
    BY Zenon, <1>13 DEF KState, GroupsOK
  <2>6. GroupOK(Table(u).entries, Kernel(u), Kin(u), pc')
    BY Zenon, <2>4, <2>5, GroupSame DEF InOrder
  <2>7. Alone(u)'
    BY Zenon, <1>1, <2>1, <2>4, <2>5 DEF InOrder, Alone, Kin
  <2> QED BY Zenon, <1>1, <2>1, <2>2, <2>3, <2>6, <2>7 DEF InOrder
<1>14. GroupsOK'
  BY Zenon, <1>1, <1>4, <1>12, <1>13 DEF GroupsOK
<1> QED BY Zenon, <1>6, <1>7, <1>9, <1>14 DEF KState

-----------------------------------------------------------------------------
(* What each step makes of entries, kernel table and handler               *)

\* What a handler holds, by where it is
LEMMA OwnsIs ==
  ASSUME NEW c
  PROVE  /\ \A k \in Nat : c.at = "open.put" /\ c.kfds = <<k>> => Owns(c) = {k}
         /\ \A k, l \in Nat : c.at = "open.put" /\ c.kfds = <<k, l>> => Owns(c) = {k, l}
         /\ c.at \in {"close", "dup.close", "dup.put"} => Owns(c) = {c.kfd} \ {NoFd}
         /\ c.at = "dup" => Owns(c) = {}
         /\ c.at # "dup.put" => Gone(c) = {}
<1>1. c.at = "open.put" => Holds(c) = {c.kfds[i] : i \in DOMAIN c.kfds}
  BY Zenon DEF Holds
<1>2. \A k \in Nat : c.at = "open.put" /\ c.kfds = <<k>> => Owns(c) = {k}
  BY <1>1 DEF Owns, NoFd
<1>3. \A k, l \in Nat : c.at = "open.put" /\ c.kfds = <<k, l>> => Owns(c) = {k, l}
  BY <1>1 DEF Owns, NoFd
<1>4. c.at \in {"close", "dup.close", "dup.put"} => Owns(c) = {c.kfd} \ {NoFd}
  BY Zenon DEF Owns, Holds
<1>5. c.at = "dup" => Owns(c) = {}
  BY Zenon DEF Owns, Holds
<1> QED BY Zenon, <1>2, <1>3, <1>4, <1>5 DEF Gone

\* From blank to blank with a virtual entry
LEMMA FitsVirtual ==
  ASSUME NEW es, NEW K, NEW H, NEW c, Fits(es, K, H, c), Blank(c),
         NEW v, v \notin Backs(es, {}), NEW e, e.kind = "virtual", e.kernel_fd = NoFd
  PROVE  Fits(Insert(es, v, e), K, H, c)
<1>1. Whole(es, K, {}, H) /\ Owns(c) = {} /\ Gone(c) = {}
  BY Zenon, BlankIs DEF Fits
<1>2. Whole(Insert(es, v, e), K, {} \ {v}, H)
  BY Zenon, <1>1, WholeVirtual
<1>3. {} \ {v} = {} /\ H \cup {} = H
  BY Zenon
<1> QED BY Zenon, <1>1, <1>2, <1>3, BlankIs DEF Fits

\* openat and socket: a descriptor is handed out
LEMMA FitsOpen ==
  ASSUME NEW es, NEW K, NEW H, NEW c, Fits(es, K, H, c), Blank(c), NEW k \in Nat, k \notin DOMAIN K,
         NEW d, d.at = "open.put", d.kfds = <<k>>
  PROVE  FitsOver(K, es, Insert(K, k, d.path), H, d)
<1>1. Whole(es, K, {}, H) /\ H \subseteq DOMAIN K
  BY Zenon, BlankIs DEF Fits, Whole
<1>2. Owns(d) = {k} /\ Gone(d) = {}
  BY Zenon, OwnsIs
<1>3. Whole(es, Insert(K, k, d.path), {}, H \cup {k})
  BY Zenon, <1>1, WholeNew
<1>5. /\ Insert(K, k, d.path)[k] = d.path
      /\ \A x \in DOMAIN K : Insert(K, k, d.path)[x] = K[x]
  BY Zenon DEF Insert
<1>4. HandlerOK(es, Insert(K, k, d.path), d)
  BY Zenon, <1>5 DEF HandlerOK, InDupSteps
<1> QED BY Zenon, <1>1, <1>2, <1>3, <1>4, <1>5 DEF Fits, FitsOver

\* pipe2: two are
LEMMA FitsPipe ==
  ASSUME NEW es, NEW K, NEW H, NEW c, Fits(es, K, H, c), Blank(c),
         NEW k \in Nat, k \notin DOMAIN K, NEW l \in Nat, l \notin DOMAIN K, k # l,
         NEW d, d.at = "open.put", d.kfds = <<k, l>>
  PROVE  FitsOver(K, es, Insert(Insert(K, k, d.path), l, d.path), H, d)
<1>1. Whole(es, K, {}, H) /\ H \subseteq DOMAIN K
  BY Zenon, BlankIs DEF Fits, Whole
<1>2. Owns(d) = {k, l} /\ Gone(d) = {}
  BY Zenon, OwnsIs
<1> DEFINE K1 == Insert(K, k, d.path)
           K2 == Insert(K1, l, d.path)
<1>3. Whole(es, K1, {}, H \cup {k})
  BY Zenon, <1>1, WholeNew
<1>7. /\ K1[k] = d.path /\ DOMAIN K1 = DOMAIN K \cup {k}
      /\ \A x \in DOMAIN K : K1[x] = K[x]
  BY Zenon DEF Insert
<1> HIDE DEF K1
<1>8. l \notin DOMAIN K1
  BY Zenon, <1>7
<1>4. Whole(es, K2, {}, (H \cup {k}) \cup {l})
  BY Zenon, <1>3, <1>8, WholeNew
<1>9. K2[l] = d.path /\ \A x \in DOMAIN K1 : K2[x] = K1[x]
  BY Zenon, <1>8 DEF Insert
<1> HIDE DEF K2
<1>5. (H \cup {k}) \cup {l} = H \cup {k, l}
  BY Zenon
<1>6. HandlerOK(es, K2, d)
  BY Zenon, <1>7, <1>9 DEF HandlerOK, InDupSteps
<1>10. \A x \in H : K2[x] = K[x]
  BY Zenon, <1>1, <1>7, <1>9
<1>11. Fits(es, K2, H, d)
  BY Zenon, <1>2, <1>4, <1>5, <1>6, <1>1, <1>8, <1>7 DEF Fits
<1> QED BY Zenon, <1>10, <1>11 DEF K1, K2, FitsOver

\* The end of openat and socket: an entry for the descriptor
LEMMA FitsPut ==
  ASSUME NEW es, NEW K, NEW H, NEW c, Fits(es, K, H, c), c.at = "open.put",
         NEW k \in Nat, c.kfds = <<k>>, NEW v, v \notin DOMAIN es
  PROVE  Fits(Insert(es, v, Passthrough(k, c.path)), K, H, Idle)
<1>1. Owns(c) = {k} /\ Gone(c) = {}
  BY Zenon, OwnsIs
<1>2. K[k] = c.path
  BY DEF Fits, HandlerOK
<1>3. Whole(es, K, {}, H \cup {k}) /\ k \notin H
  BY Zenon, <1>1 DEF Fits
<1>4. Whole(Insert(es, v, Passthrough(k, c.path)), K, {} \ {v}, (H \cup {k}) \ {k})
  BY Zenon, <1>2, <1>3, WholePut DEF Backs
<1>5. {} \ {v} = {} /\ (H \cup {k}) \ {k} = H /\ H \cup {} = H
  BY Zenon, <1>3
<1>6. Blank(Idle)
  BY Zenon DEF Blank, Idle
<1> QED BY Zenon, <1>4, <1>5, <1>6, BlankIs DEF Fits

\* The end of pipe2: two entries
LEMMA FitsPutTwo ==
  ASSUME NEW es, NEW K, NEW H, NEW c, Fits(es, K, H, c), c.at = "open.put",
         NEW k \in Nat, NEW l \in Nat, c.kfds = <<k, l>>,
         NEW v, v \notin DOMAIN es, NEW w, w \notin DOMAIN es, v # w
  PROVE  Fits(Insert(Insert(es, v, Passthrough(k, c.path)), w, Passthrough(l, c.path)), K, H, Idle)
<1>1. Owns(c) = {k, l} /\ Gone(c) = {}
  BY Zenon, OwnsIs
<1>2. K[k] = c.path /\ K[l] = c.path /\ k # l
  BY DEF Fits, HandlerOK
<1>3. Whole(es, K, {}, H \cup {k, l}) /\ k \notin H /\ l \notin H
  BY Zenon, <1>1 DEF Fits
<1> DEFINE one == Insert(es, v, Passthrough(k, c.path))
<1>4. Whole(one, K, {} \ {v}, (H \cup {k, l}) \ {k})
  BY Zenon, <1>2, <1>3, WholePut DEF Backs
<1>5. {} \ {v} = {} /\ {} \ {w} = {} /\ (H \cup {k, l}) \ {k} = H \cup {l}
      /\ (H \cup {l}) \ {l} = H /\ H \cup {} = H
  BY Zenon, <1>2, <1>3
<1>6. w \notin DOMAIN one
  BY Zenon DEF Insert
<1> HIDE DEF one
<1>7. Whole(Insert(one, w, Passthrough(l, c.path)), K, {} \ {w}, (H \cup {l}) \ {l})
  BY Zenon, <1>2, <1>4, <1>5, <1>6, WholePut DEF Backs
<1>8. Blank(Idle)
  BY Zenon DEF Blank, Idle
<1> QED BY Zenon, <1>5, <1>7, <1>8, BlankIs DEF Fits, one

\* close takes an entry out
LEMMA FitsClose ==
  ASSUME NEW es, NEW K, NEW H, NEW c, Fits(es, K, H, c), Blank(c), NEW v \in DOMAIN es,
         NEW d, \/ Blank(d) /\ es[v].kernel_fd = NoFd
                \/ d.at = "close" /\ d.kfd = es[v].kernel_fd /\ d.kfd # NoFd
  PROVE  Fits([x \in DOMAIN es \ {v} |-> es[x]], K, H, d)
<1>1. Whole(es, K, {}, H) /\ v \in DOMAIN es \ {}
  BY Zenon, BlankIs DEF Fits
<1> DEFINE es2 == [x \in DOMAIN es \ {v} |-> es[x]]
<1>2. Whole(es2, K, {}, H \cup ({es[v].kernel_fd} \ {NoFd}))
  BY Zenon, <1>1, WholeTake
<1> HIDE DEF es2
<1>3. Owns(d) = {es[v].kernel_fd} \ {NoFd} /\ Gone(d) = {} /\ HandlerOK(es2, K, d)
  <2>1. CASE Blank(d) /\ es[v].kernel_fd = NoFd
    BY Zenon, <2>1, BlankIs
  <2>2. CASE d.at = "close" /\ d.kfd = es[v].kernel_fd /\ d.kfd # NoFd
    BY Zenon, <2>2, OwnsIs DEF HandlerOK, InDupSteps
  <2> QED BY Zenon, <2>1, <2>2
<1>4. \A k \in Owns(d) : k \notin H
  BY <1>1, <1>3 DEF Whole, Backs
<1> QED BY Zenon, <1>2, <1>3, <1>4 DEF Fits, es2

\* The kernel closes it.
LEMMA FitsCloseKernel ==
  ASSUME NEW es, NEW K, NEW H, NEW c, Fits(es, K, H, c), c.at = "close"
  PROVE  FitsOver(K, es, [x \in DOMAIN K \ {c.kfd} |-> K[x]], H, Idle)
<1>1. c.kfd # NoFd /\ Owns(c) = {c.kfd} \ {NoFd} /\ Gone(c) = {}
  BY Zenon, OwnsIs DEF Fits, HandlerOK
<1>2. Owns(c) = {c.kfd} /\ c.kfd \notin H /\ Whole(es, K, {}, H \cup {c.kfd})
  BY Zenon, <1>1 DEF Fits
<1>3. Whole(es, [x \in DOMAIN K \ {c.kfd} |-> K[x]], {}, (H \cup {c.kfd}) \ {c.kfd})
  BY Zenon, <1>2, WholeDrop
<1>4. (H \cup {c.kfd}) \ {c.kfd} = H /\ H \cup {} = H /\ H \subseteq DOMAIN K
  BY <1>2 DEF Whole
<1>5. Blank(Idle)
  BY Zenon DEF Blank, Idle
<1>6. Fits(es, [x \in DOMAIN K \ {c.kfd} |-> K[x]], H, Idle)
  BY Zenon, <1>3, <1>4, <1>5, BlankIs DEF Fits
<1> QED BY Zenon, <1>2, <1>4, <1>6 DEF FitsOver

\* dup, dup2, dup3 and fcntl begin: they have read the entry, and hold nothing yet.
LEMMA FitsDup ==
  ASSUME NEW es, NEW K, NEW H, NEW c, Fits(es, K, H, c), Blank(c),
         NEW d, d.shut = ToShut(es, d), d.old \in DOMAIN es, d.kfd = es[d.old].kernel_fd,
         \/ d.at = "dup" /\ d.kfd # NoFd /\ (d.op # "fcntl" => d.path = es[d.old].path)
         \/ d.at = "dup.close" /\ d.kfd = NoFd /\ d.op = "dup2" /\ d.shut # NoFd
  PROVE  Fits(es, K, H, d)
<1>1. Whole(es, K, {}, H) /\ H \cup {} = H
  BY Zenon, BlankIs DEF Fits
<1>2. d.kfd \in Nat \cup {NoFd}
  BY Zenon, <1>1 DEF Whole, EntryOK
<1>3. CASE d.at = "dup" /\ d.kfd # NoFd /\ (d.op # "fcntl" => d.path = es[d.old].path)
  <2>1. HandlerOK(es, K, d) /\ Owns(d) = {} /\ Gone(d) = {}
    BY Zenon, <1>2, <1>3, OwnsIs DEF HandlerOK
  <2> QED BY Zenon, <1>1, <2>1 DEF Fits
<1>4. CASE d.at = "dup.close" /\ d.kfd = NoFd /\ d.op = "dup2" /\ d.shut # NoFd
  <2>1. HandlerOK(es, K, d)
    BY Zenon, <1>2, <1>4 DEF HandlerOK
  <2>2. Owns(d) = {d.kfd} \ {NoFd} /\ Gone(d) = {}
    BY Zenon, <1>4, OwnsIs
  <2>3. Owns(d) = {}
    BY Zenon, <1>4, <2>2
  <2> QED BY Zenon, <1>1, <2>1, <2>2, <2>3 DEF Fits
<1> QED BY Zenon, <1>3, <1>4

\* The handler d comes after c, at a step and with a kernel descriptor of its own.
After(c, d, at, k) ==
  /\ d.op = c.op /\ d.path = c.path /\ d.old = c.old /\ d.new = c.new /\ d.shut = c.shut
  /\ d.kfd = k /\ d.at = at

\* The kernel's dup: the handler holds the copy, which is open on the file of the entry.
LEMMA FitsDupKernel ==
  ASSUME NEW es, NEW K, NEW H, NEW c, Fits(es, K, H, c), c.at = "dup",
         NEW n \in Nat, n \notin DOMAIN K, NEW d,
         After(c, d, IF c.shut = NoFd THEN "dup.put" ELSE "dup.close", n)
  PROVE  FitsOver(K, es, Insert(K, n, K[c.kfd]), H, d)
<1> DEFINE K2 == Insert(K, n, K[c.kfd])
<1> USE DEF After
<1>1. Owns(c) = {} /\ Gone(c) = {}
  BY Zenon, OwnsIs
<1>2. Whole(es, K, {}, H) /\ H \subseteq DOMAIN K
  <2>1. H \cup {} = H
    BY Zenon
  <2> QED BY Zenon, <1>1, <2>1 DEF Fits, Whole
<1>3. Whole(es, K2, {}, H \cup {n})
  BY Zenon, <1>2, WholeNew
<1>4. K2[n] = K[c.kfd] /\ \A x \in DOMAIN K : K2[x] = K[x]
  BY Zenon DEF Insert
<1> HIDE DEF K2
<1>5. /\ c.old \in DOMAIN es /\ es[c.old].kernel_fd = c.kfd /\ c.kfd # NoFd
      /\ c.op # "fcntl" => es[c.old].path = c.path
      /\ c.shut = ToShut(es, c)
  BY Zenon DEF Fits, HandlerOK, InDupSteps
<1>6. K[c.kfd] = es[c.old].path
  BY ZenonT(40), <1>2, <1>5 DEF Whole, Backs
<1>7. Owns(d) = {n} /\ Gone(d) = {}
  <2>1. Owns(d) = {n} \ {NoFd}
    BY Zenon, OwnsIs
  <2>2. n # NoFd
    BY DEF NoFd
  <2> QED BY Zenon, <2>1, <2>2 DEF Gone
<1>8. d.shut = ToShut(es, d) /\ (d.shut # NoFd => d.op = "dup2")
  BY Zenon, <1>5 DEF ToShut
<1>9. n # NoFd
  BY DEF NoFd
<1>10. HandlerOK(es, K2, d)
  BY Zenon, <1>4, <1>5, <1>6, <1>8, <1>9 DEF HandlerOK
<1>11. n \notin H
  BY Zenon, <1>2
<1> QED BY Zenon, <1>2, <1>3, <1>4, <1>7, <1>10, <1>11 DEF Fits, FitsOver, K2

\* The kernel closes what dup2 replaces: it was open, and behind the entry alone.
LEMMA FitsDupClose ==
  ASSUME NEW es, NEW K, NEW H, NEW c, Fits(es, K, H, c), c.at = "dup.close",
         NEW d, After(c, d, "dup.put", c.kfd)
  PROVE  /\ c.shut \in DOMAIN K
         /\ FitsOver(K, es, [x \in DOMAIN K \ {c.shut} |-> K[x]], H, d)
<1> DEFINE K2 == [x \in DOMAIN K \ {c.shut} |-> K[x]]
<1> USE DEF After
<1>1. /\ c.shut = ToShut(es, c) /\ c.op = "dup2" /\ c.shut # NoFd
      /\ c.kfd # NoFd => K[c.kfd] = c.path
      /\ c.kfd \in Nat \cup {NoFd}
  BY Zenon DEF Fits, HandlerOK, InDupSteps
<1>2. c.new \in Backs(es, {}) /\ es[c.new].kernel_fd = c.shut
  BY Zenon, <1>1 DEF ToShut, Backs
<1>3. Owns(c) = {c.kfd} \ {NoFd} /\ Gone(c) = {} /\ Owns(d) = {c.kfd} \ {NoFd}
  BY Zenon, OwnsIs
<1>4. Whole(es, K, {}, H \cup Owns(c))
  BY Zenon, <1>3 DEF Fits
<1>5. c.shut \in DOMAIN K /\ c.shut \notin H \cup Owns(c) /\ H \cup Owns(c) \subseteq DOMAIN K
  BY Zenon, <1>2, <1>4 DEF Whole
<1>6. Whole(es, K2, {} \cup {c.new}, H \cup Owns(c))
  BY Zenon, <1>2, <1>4, WholeShut
<1>7. \A x \in H \cup Owns(c) : K2[x] = K[x]
  BY Zenon, <1>5
<1> HIDE DEF K2
<1>8. Gone(d) = {} \cup {c.new} /\ Owns(d) = Owns(c)
  BY Zenon, <1>1, <1>3 DEF Gone
<1>9. d.shut = ToShut(es, d)
  BY Zenon, <1>1 DEF ToShut
<1>10. c.kfd # NoFd => K2[c.kfd] = c.path
  BY Zenon, <1>1, <1>3, <1>7
<1>11. HandlerOK(es, K2, d)
  BY Zenon, <1>1, <1>9, <1>10 DEF HandlerOK, InDupSteps
<1>12. Fits(es, K2, H, d)
  BY Zenon, <1>6, <1>8, <1>11 DEF Fits
<1> QED BY Zenon, <1>5, <1>7, <1>12 DEF K2, FitsOver

\* The end of the dup family: the new entry, at a free number or at the one dup2 replaces
LEMMA FitsDupPut ==
  ASSUME NEW es, NEW K, NEW H, NEW c, Fits(es, K, H, c), c.at = "dup.put",
         NEW v, (c.op # "dup2" /\ v \notin DOMAIN es) \/ (c.op = "dup2" /\ v = c.new),
         NEW e, e = (IF c.kfd = NoFd THEN Virtual(c.path)
                     ELSE IF c.op = "fcntl"
                     THEN Passthrough(c.kfd, IF c.old \in DOMAIN es THEN es[c.old].path ELSE NoPath)
                     ELSE Passthrough(c.kfd, c.path))
  PROVE  Fits(Insert(es, v, e), K, H, Idle)
<1>1. /\ c.shut = ToShut(es, c) /\ (c.kfd = NoFd => c.op = "dup2")
      /\ c.kfd # NoFd /\ c.op # "fcntl" => K[c.kfd] = c.path
      /\ c.op = "fcntl" => c.old \in DOMAIN es /\ es[c.old].path = K[c.kfd]
      /\ c.kfd \in Nat \cup {NoFd}
  BY Zenon DEF Fits, HandlerOK, InDupSteps
<1>2. Owns(c) = {c.kfd} \ {NoFd}
  BY Zenon, OwnsIs
<1>3. v \in Backs(es, {}) => v \in Gone(c)
  BY Zenon, <1>1 DEF Backs, Gone, ToShut
<1>4. c.op # "dup2" => c.shut = NoFd
  BY Zenon, <1>1 DEF ToShut
<1>5. Gone(c) \ {v} = {}
  BY Zenon, <1>4 DEF Gone
<1>6. Whole(es, K, Gone(c), H \cup Owns(c)) /\ \A k \in Owns(c) : k \notin H
  BY Zenon DEF Fits
<1>7. Blank(Idle) /\ H \cup {} = H
  BY Zenon DEF Blank, Idle
<1>8. CASE c.kfd = NoFd
  <2>1. e.kind = "virtual" /\ e.kernel_fd = NoFd
    BY Zenon, <1>8 DEF Virtual
  <2>2. H \cup Owns(c) = H
    BY Zenon, <1>2, <1>8
  <2>3. Whole(es, K, Gone(c), H)
    BY Zenon, <1>6, <2>2
  <2>4. Whole(Insert(es, v, e), K, Gone(c) \ {v}, H)
    BY Zenon, <1>3, <2>1, <2>3, WholeVirtual
  <2> QED BY Zenon, <1>5, <1>7, <2>4, BlankIs DEF Fits
<1>9. CASE c.kfd # NoFd
  <2>1. e = Passthrough(c.kfd, K[c.kfd])
    BY Zenon, <1>1, <1>9
  <2>2. Owns(c) = {c.kfd} /\ c.kfd \in Nat
    BY Zenon, <1>1, <1>2, <1>9
  <2>3. c.kfd \in H \cup Owns(c) /\ (H \cup Owns(c)) \ {c.kfd} = H
    BY Zenon, <1>6, <2>2
  <2>4. Whole(Insert(es, v, e), K, Gone(c) \ {v}, (H \cup Owns(c)) \ {c.kfd})
    BY Zenon, <1>3, <1>6, <2>1, <2>2, <2>3, WholePut
  <2> QED BY Zenon, <1>5, <1>7, <2>3, <2>4, BlankIs DEF Fits
<1> QED BY Zenon, <1>8, <1>9

-----------------------------------------------------------------------------
(* The actions                                                             *)

\* The assignments of the actions, field by field
LEMMA Assigned ==
  ASSUME SInv, KernOK, NEW t \in Live
  PROVE  /\ \A tab : SetTable(t, tab) => Stores(t, tab.entries)
         /\ UNCHANGED <<tables, arc>> => Stores(t, Table(t).entries)
         /\ \A K : kern' = [kern EXCEPT ![kernOf[t]] = K] => Kerns(t, K)
         /\ UNCHANGED kern => Kerns(t, Kernel(t))
         /\ \A c : GoTo(t, c) => Goes(t, c)
         /\ UNCHANGED pc => Goes(t, pc[t])
<1>1. t \in Task /\ kernOf[t] \in Task /\ DOMAIN pc = Task /\ DOMAIN kern = Task
  BY Zenon DEF KernOK, SInv, PcsOK, Live
<1>2. /\ Arc(t) \in Task /\ Table(t) = tables[Arc(t)] /\ pidOf[t] \in Task
      /\ DOMAIN tables = Task /\ DOMAIN arc = Task
  BY Zenon, <1>1, TableIs DEF SInv, TablesOK
<1>3. \A tab : SetTable(t, tab) => Stores(t, tab.entries)
  BY Zenon, <1>2 DEF SetTable, Stores
<1>4. UNCHANGED <<tables, arc>> => Stores(t, Table(t).entries)
  BY Zenon, <1>2 DEF Stores
<1>5. \A K : kern' = [kern EXCEPT ![kernOf[t]] = K] => Kerns(t, K)
  BY Zenon, <1>1 DEF Kerns
<1>6. UNCHANGED kern => Kerns(t, Kernel(t))
  BY Zenon, <1>1 DEF Kerns, Kernel
<1>7. \A c : GoTo(t, c) => Goes(t, c)
  BY Zenon, <1>1 DEF GoTo, Goes
<1>8. UNCHANGED pc => Goes(t, pc[t])
  BY Zenon DEF Goes
<1> QED BY Zenon, <1>3, <1>4, <1>5, <1>6, <1>7, <1>8

\* It is enough that the step keeps what t has in order.
LEMMA StepKeeps ==
  ASSUME SInv, SInv', KInv, NEW t \in Live, Calm(t),
         NEW es2, NEW K2, NEW c, Within(t, es2, K2, c),
         Fits(Table(t).entries, Kernel(t), Rest(t), pc[t]) =>
           FitsOver(Kernel(t), es2, K2, Rest(t), c)
  PROVE  KInv'
<1>1. KernOK'
  <2>1. kernOf' = kernOf /\ DOMAIN kern' = Task /\ Live' = Live
    BY Zenon DEF Within, Kerns, Live
  <2>2. \A u \in Task \ Live : pc'[u] = pc[u]
    BY Zenon DEF Within, Goes
  <2> QED BY Zenon, <2>1, <2>2 DEF KInv, KernOK
<1>2. ASSUME ~disturbed' PROVE KState'
  <2>1. ~(disturbed \/ Disturbs(t))
    BY Zenon, <1>2 DEF Calm
  <2>2. KState /\ Undisturbing(t)
    BY Zenon, <2>1, CalmIs
  <2>3. GroupOK(Table(t).entries, Kernel(t), Kin(t), pc) /\ t \in Kin(t)
    BY Zenon, <2>2 DEF KState, GroupsOK, InOrder, Undisturbing, Kin
  <2>4. Fits(Table(t).entries, Kernel(t), Rest(t), pc[t])
    BY Zenon, <2>2, <2>3, GroupSeen DEF Undisturbing, Rest
  <2> QED BY Zenon, <2>2, <2>4, WithinKeeps DEF KInv, FitsOver
<1> QED BY Zenon, <1>1, <1>2 DEF KInv

\* A system call begins in a task that holds nothing.
LEMMA CallIs ==
  ASSUME NEW t, Call(t)
  PROVE  t \in Live /\ Blank(pc[t]) /\ pc[t].at # "fork.put"
BY Zenon DEF Call, At, Blank

\* The least free number of the kernel
LEMMA FreeKfdIs ==
  ASSUME NEW F \in SUBSET Kfd, F # {}
  PROVE  Least(F) \in F /\ Least(F) \in Nat
<1>1. F \in SUBSET Nat
  BY DEF Kfd
<1> QED BY Zenon, <1>1, LeastIs

\* An entry for a virtual file at a number that has no kernel descriptor
LEMMA VirtualKeeps ==
  ASSUME SInv, SInv', KInv, NEW t \in Live, Blank(pc[t]), pc[t].at # "fork.put", Calm(t),
         UNCHANGED <<unmoved, kern, pc>>,
         NEW tab, SetTable(t, tab), NEW v, NEW e, tab.entries = Insert(Table(t).entries, v, e),
         v \notin Backs(Table(t).entries, {}), e.kind = "virtual",
         Whole(Table(t).entries, Kernel(t), {}, Rest(t)) => e.kernel_fd = NoFd
  PROVE  KInv'
<1>1. KernOK
  BY Zenon DEF KInv
<1>2. Within(t, tab.entries, Kernel(t), pc[t])
  BY Zenon, <1>1, Assigned DEF Within, unmoved
<1>3. ASSUME Fits(Table(t).entries, Kernel(t), Rest(t), pc[t])
      PROVE  FitsOver(Kernel(t), tab.entries, Kernel(t), Rest(t), pc[t])
  <2>1. Whole(Table(t).entries, Kernel(t), {}, Rest(t))
    <3>1. Rest(t) \cup {} = Rest(t)
      BY Zenon
    <3> QED BY Zenon, <1>3, <3>1, BlankIs DEF Fits
  <2>2. e.kernel_fd = NoFd
    BY Zenon, <2>1
  <2> QED BY Zenon, <1>3, <2>2, FitsVirtual DEF FitsOver
<1> QED BY Zenon, <1>2, <1>3, StepKeeps

\* openat of a virtual file
LEMMA OpenVirtualKeeps ==
  ASSUME SInv, SInv', KInv, NEW t \in Task, NEW p, OpenVirtual(t, p)
  PROVE  KInv'
<1> DEFINE tab == Allocate(Table(t), Virtual(p))
<1>1. /\ t \in Live /\ Blank(pc[t]) /\ pc[t].at # "fork.put" /\ Calm(t)
      /\ UNCHANGED <<unmoved, kern, pc>> /\ SetTable(t, tab) /\ ~Exhausted(Table(t))
  BY Zenon, CallIs DEF OpenVirtual
<1>2. TabOK(Table(t))
  BY Zenon, TableIs DEF SInv
<1>3. tab.entries = Insert(Table(t).entries, Pick(Table(t)), Virtual(p))
  BY Zenon, <1>1, <1>2, AllocateOK
<1>4. Pick(Table(t)) \notin Backs(Table(t).entries, {})
  BY Zenon, <1>1, <1>2, PickIsLeast DEF Backs
<1>5. Virtual(p).kind = "virtual" /\ Virtual(p).kernel_fd = NoFd
  BY Zenon DEF Virtual
<1> HIDE DEF tab
<1> QED BY Zenon, <1>1, <1>3, <1>4, <1>5, VirtualKeeps

\* openat of a host file and socket
LEMMA OpenKeeps ==
  ASSUME SInv, SInv', KInv, NEW t \in Live, Blank(pc[t]), pc[t].at # "fork.put", Calm(t),
         UNCHANGED <<unmoved, tables, arc>>, FreeKfd(t) # {}, NEW p,
         KernelPut(t, Least(FreeKfd(t)), p),
         GoTo(t, [at |-> "open.put", kfds |-> <<Least(FreeKfd(t))>>, path |-> p])
  PROVE  KInv'
<1> DEFINE k == Least(FreeKfd(t))
           c == [at |-> "open.put", kfds |-> <<k>>, path |-> p]
           K2 == Insert(Kernel(t), k, p)
<1>1. k \in FreeKfd(t) /\ k \in Nat
  BY Zenon, FreeKfdIs DEF FreeKfd
<1>2. kern' = [kern EXCEPT ![kernOf[t]] = K2] /\ GoTo(t, c)
  BY Zenon DEF KernelPut, Kernel
<1>3. c.at = "open.put" /\ c.kfds = <<k>> /\ c.path = p
  BY Zenon
<1> HIDE DEF c, k, K2
<1>4. Within(t, Table(t).entries, K2, c)
  BY Zenon, <1>2, <1>3, Assigned DEF Within, unmoved, KInv
<1>5. ASSUME Fits(Table(t).entries, Kernel(t), Rest(t), pc[t])
      PROVE  FitsOver(Kernel(t), Table(t).entries, K2, Rest(t), c)
  <2>1. k \in Nat /\ k \notin DOMAIN Kernel(t)
    BY Zenon, <1>1 DEF FreeKfd
  <2>2. K2 = Insert(Kernel(t), k, c.path)
    BY Zenon, <1>3 DEF K2
  <2> DEFINE K3 == Insert(Kernel(t), k, c.path)
  <2>3. FitsOver(Kernel(t), Table(t).entries, K3, Rest(t), c)
    BY Zenon, <1>3, <1>5, <2>1, FitsOpen
  <2> QED BY Zenon, <2>2, <2>3
<1> QED BY Zenon, <1>4, <1>5, StepKeeps

\* openat
LEMMA OpenatKeeps ==
  ASSUME SInv, SInv', KInv, NEW t \in Task, NEW p, handle_openat(t, p)
  PROVE  KInv'
BY Zenon, CallIs, OpenKeeps DEF handle_openat

\* socket
LEMMA SocketKeeps ==
  ASSUME SInv, SInv', KInv, NEW t \in Task, handle_socket(t)
  PROVE  KInv'
BY Zenon, CallIs, OpenKeeps DEF handle_socket

\* pipe2
LEMMA PipeKeeps ==
  ASSUME SInv, SInv', KInv, NEW t \in Task, handle_pipe2(t)
  PROVE  KInv'
<1> DEFINE k == Least(FreeKfd(t))
           l == Least(FreeKfd(t) \ {k})
           c == [at |-> "open.put", kfds |-> <<k, l>>, path |-> NoPath]
           K2 == Insert(Insert(Kernel(t), k, NoPath), l, NoPath)
<1>1. /\ t \in Live /\ Blank(pc[t]) /\ pc[t].at # "fork.put" /\ Calm(t)
      /\ UNCHANGED <<unmoved, tables, arc>> /\ \E x, y \in FreeKfd(t) : x # y
  BY Zenon, CallIs DEF handle_pipe2
<1>2. kern' = [kern EXCEPT ![kernOf[t]] = K2] /\ GoTo(t, c)
  BY Zenon DEF handle_pipe2, Kernel
<1>3. FreeKfd(t) # {} /\ FreeKfd(t) \ {k} # {}
  BY <1>1
<1>4. k \in FreeKfd(t) /\ k \in Nat
  BY Zenon, <1>3, FreeKfdIs DEF FreeKfd
<1>5. l \in FreeKfd(t) \ {k} /\ l \in Nat
  <2>1. FreeKfd(t) \ {k} \in SUBSET Kfd
    BY Zenon DEF FreeKfd
  <2> QED BY Zenon, <1>3, <2>1, FreeKfdIs
<1>6. c.at = "open.put" /\ c.kfds = <<k, l>> /\ c.path = NoPath
  BY Zenon
<1> HIDE DEF c, k, l, K2
<1>7. Within(t, Table(t).entries, K2, c)
  BY Zenon, <1>1, <1>2, <1>6, Assigned DEF Within, unmoved, KInv
<1>8. ASSUME Fits(Table(t).entries, Kernel(t), Rest(t), pc[t])
      PROVE  FitsOver(Kernel(t), Table(t).entries, K2, Rest(t), c)
  <2>1. k \notin DOMAIN Kernel(t) /\ l \notin DOMAIN Kernel(t) /\ k # l
    BY Zenon, <1>4, <1>5 DEF FreeKfd
  <2>2. K2 = Insert(Insert(Kernel(t), k, c.path), l, c.path)
    BY Zenon, <1>6 DEF K2
  <2> DEFINE K3 == Insert(Insert(Kernel(t), k, c.path), l, c.path)
  <2>3. FitsOver(Kernel(t), Table(t).entries, K3, Rest(t), c)
    BY Zenon, <1>1, <1>4, <1>5, <1>6, <1>8, <2>1, FitsPipe
  <2> QED BY Zenon, <2>2, <2>3
<1> QED BY Zenon, <1>1, <1>7, <1>8, StepKeeps

\* The end of openat, socket and pipe2
LEMMA OpenPutKeeps ==
  ASSUME SInv, SInv', KInv, NEW t \in Task, OpenPut(t)
  PROVE  KInv'
<1> DEFINE c == pc[t]
           es == Table(t).entries
           e(i) == Passthrough(c.kfds[i], c.path)
           one == Allocate(Table(t), e(1))
           two == Allocate(one, e(2))
           tab == IF Len(c.kfds) = 1 THEN one ELSE two
<1>1. /\ t \in Live /\ c.at = "open.put" /\ Calm(t) /\ UNCHANGED <<unmoved, kern>>
      /\ ~Exhausted(Table(t)) /\ (Len(c.kfds) = 2 => ~Exhausted(one))
      /\ SetTable(t, tab) /\ GoTo(t, Idle)
  BY Zenon DEF OpenPut, At
<1>2. TabOK(Table(t)) /\ KernOK
  BY Zenon, TableIs DEF SInv, KInv
<1>3. TabOK(one) /\ one.entries = Insert(es, Pick(Table(t)), e(1))
  BY Zenon, <1>1, <1>2, AllocateOK
<1>4. Pick(Table(t)) \notin DOMAIN es
  BY Zenon, <1>1, <1>2, PickIsLeast
<1>5. Idle.at # "fork.put" /\ c.at # "fork.put"
  BY Zenon, <1>1 DEF Idle
<1> HIDE DEF tab
<1>6. Within(t, tab.entries, Kernel(t), Idle)
  BY Zenon, <1>1, <1>2, <1>5, Assigned DEF Within, unmoved
<1>7. ASSUME Fits(es, Kernel(t), Rest(t), c)
      PROVE  FitsOver(Kernel(t), tab.entries, Kernel(t), Rest(t), Idle)
  <2>1. CASE \E k \in Nat : c.kfds = <<k>>
    <3>1. PICK k \in Nat : c.kfds = <<k>>
      BY Zenon, <2>1
    <3>2. Len(c.kfds) = 1 /\ c.kfds[1] = k
      BY <3>1
    <3>3. tab.entries = Insert(es, Pick(Table(t)), Passthrough(k, c.path))
      BY Zenon, <1>3, <3>2 DEF tab
    <3>4. Fits(Insert(es, Pick(Table(t)), Passthrough(k, c.path)), Kernel(t), Rest(t), Idle)
      BY Zenon, <1>1, <1>4, <1>7, <3>1, FitsPut
    <3> QED BY Zenon, <3>3, <3>4 DEF FitsOver
  <2>2. CASE \E k, l \in Nat : c.kfds = <<k, l>>
    <3>1. PICK k \in Nat, l \in Nat : c.kfds = <<k, l>>
      BY Zenon, <2>2
    <3>2. Len(c.kfds) = 2 /\ Len(c.kfds) # 1 /\ c.kfds[1] = k /\ c.kfds[2] = l
      BY <3>1
    <3>3. two.entries = Insert(one.entries, Pick(one), e(2)) /\ Pick(one) \notin DOMAIN one.entries
      BY Zenon, <1>1, <1>3, <3>2, AllocateOK, PickIsLeast
    <3>4. Pick(one) \notin DOMAIN es /\ Pick(one) # Pick(Table(t))
      BY Zenon, <1>3, <3>3 DEF Insert
    <3> DEFINE es2 == Insert(Insert(es, Pick(Table(t)), Passthrough(k, c.path)), Pick(one),
                             Passthrough(l, c.path))
    <3>5. tab.entries = es2
      BY Zenon, <1>3, <3>2, <3>3 DEF tab
    <3>6. Fits(es2, Kernel(t), Rest(t), Idle)
      BY Zenon, <1>1, <1>4, <1>7, <3>1, <3>4, FitsPutTwo
    <3> QED BY Zenon, <3>5, <3>6 DEF FitsOver
  <2> QED BY Zenon, <1>1, <1>7, <2>1, <2>2 DEF Fits, HandlerOK
<1> QED BY Zenon, <1>1, <1>6, <1>7, StepKeeps

\* close takes the entry out.
LEMMA CloseKeeps ==
  ASSUME SInv, SInv', KInv, NEW t \in Task, NEW v, handle_close(t, v)
  PROVE  KInv'
<1> DEFINE es == Table(t).entries
           tab == Deallocate(Table(t), v)
           c == IF es[v].kernel_fd = NoFd THEN Idle ELSE [at |-> "close", kfd |-> es[v].kernel_fd]
<1>1. /\ t \in Live /\ Blank(pc[t]) /\ pc[t].at # "fork.put" /\ Calm(t)
      /\ UNCHANGED <<unmoved, kern>> /\ v \in DOMAIN es /\ SetTable(t, tab)
  BY Zenon, CallIs DEF handle_close, Has
<1>2. GoTo(t, c)
  BY Zenon, <1>1 DEF handle_close, Translate, Has
<1>3. \/ Blank(c) /\ c.at # "fork.put" /\ es[v].kernel_fd = NoFd
      \/ c.at = "close" /\ c.kfd = es[v].kernel_fd /\ c.kfd # NoFd
  BY Zenon DEF Blank, Idle
<1>4. tab.entries = [x \in DOMAIN es \ {v} |-> es[x]]
  BY Zenon DEF Deallocate
<1>5. KernOK
  BY Zenon DEF KInv
<1> HIDE DEF tab, c
<1>6. Within(t, tab.entries, Kernel(t), c)
  BY Zenon, <1>1, <1>2, <1>3, <1>5, Assigned DEF Within, unmoved
<1>7. ASSUME Fits(es, Kernel(t), Rest(t), pc[t])
      PROVE  FitsOver(Kernel(t), tab.entries, Kernel(t), Rest(t), c)
  <2>1. Fits([x \in DOMAIN es \ {v} |-> es[x]], Kernel(t), Rest(t), c)
    BY Zenon, <1>1, <1>3, <1>7, FitsClose
  <2> QED BY Zenon, <1>4, <2>1 DEF FitsOver
<1> QED BY Zenon, <1>1, <1>6, <1>7, StepKeeps

\* The kernel's close
LEMMA CloseKernelKeeps ==
  ASSUME SInv, SInv', KInv, NEW t \in Task, CloseKernel(t)
  PROVE  KInv'
<1> DEFINE K == Kernel(t)
           K2 == [x \in DOMAIN K \ {pc[t].kfd} |-> K[x]]
<1>1. /\ t \in Live /\ pc[t].at = "close" /\ Calm(t) /\ UNCHANGED <<unmoved, tables, arc>>
      /\ kern' = [kern EXCEPT ![kernOf[t]] = K2] /\ GoTo(t, Idle)
  BY Zenon DEF CloseKernel, KernelDrop, At, Kernel
<1>2. Idle.at # "fork.put" /\ pc[t].at # "fork.put" /\ KernOK
  BY Zenon, <1>1 DEF Idle, KInv
<1>3. ASSUME Fits(Table(t).entries, K, Rest(t), pc[t])
      PROVE  FitsOver(K, Table(t).entries, K2, Rest(t), Idle)
  BY Zenon, <1>1, <1>3, FitsCloseKernel
<1> HIDE DEF K2
<1>4. Within(t, Table(t).entries, K2, Idle)
  BY Zenon, <1>1, <1>2, Assigned DEF Within, unmoved
<1> QED BY Zenon, <1>1, <1>3, <1>4, StepKeeps

\* A handler of the dup family begins.
LEMMA DupBegins ==
  ASSUME SInv, SInv', KInv, NEW t \in Live, Blank(pc[t]), pc[t].at # "fork.put", Calm(t),
         UNCHANGED <<unmoved, tables, arc, kern>>, NEW d, GoTo(t, d),
         d.shut = ToShut(Table(t).entries, d), d.old \in DOMAIN Table(t).entries,
         d.kfd = Table(t).entries[d.old].kernel_fd,
         Whole(Table(t).entries, Kernel(t), {}, Rest(t)) =>
           \/ /\ d.at = "dup" /\ d.kfd # NoFd
              /\ d.op # "fcntl" => d.path = Table(t).entries[d.old].path
           \/ d.at = "dup.close" /\ d.kfd = NoFd /\ d.op = "dup2" /\ d.shut # NoFd,
         d.at # "fork.put"
  PROVE  KInv'
<1>1. Within(t, Table(t).entries, Kernel(t), d)
  BY Zenon, Assigned DEF Within, unmoved, KInv
<1>2. ASSUME Fits(Table(t).entries, Kernel(t), Rest(t), pc[t])
      PROVE  FitsOver(Kernel(t), Table(t).entries, Kernel(t), Rest(t), d)
  <2>1. Whole(Table(t).entries, Kernel(t), {}, Rest(t))
    <3>1. Rest(t) \cup {} = Rest(t)
      BY Zenon
    <3> QED BY Zenon, <1>2, <3>1, BlankIs DEF Fits
  <2> QED BY Zenon, <1>2, <2>1, FitsDup DEF FitsOver
<1> QED BY Zenon, <1>1, <1>2, StepKeeps

\* An entry in order is virtual or has a kernel descriptor.
LEMMA KindIs ==
  ASSUME NEW es, NEW K, NEW R, NEW H, Whole(es, K, R, H), NEW v \in DOMAIN es
  PROVE  es[v].kind = "virtual" <=> es[v].kernel_fd = NoFd
<1>1. EntryOK(es[v])
  BY Zenon DEF Whole
<1> QED BY <1>1 DEF EntryOK, NoFd

\* dup
LEMMA DupKeeps ==
  ASSUME SInv, SInv', KInv, NEW t \in Task, NEW old, handle_dup(t, old)
  PROVE  KInv'
<1> DEFINE es == Table(t).entries
           e == es[old]
<1>1. /\ t \in Live /\ Blank(pc[t]) /\ pc[t].at # "fork.put" /\ Calm(t)
      /\ UNCHANGED <<unmoved, kern>> /\ old \in DOMAIN es
  BY Zenon, CallIs DEF handle_dup, Has
<1>2. Whole(es, Kernel(t), {}, Rest(t)) => (e.kind = "virtual" <=> e.kernel_fd = NoFd)
  BY Zenon, <1>1, KindIs
<1>3. CASE e.kind = "virtual"
  <2> DEFINE tab == Allocate(Table(t), e)
  <2>1. SetTable(t, tab) /\ UNCHANGED pc /\ ~Exhausted(Table(t))
    BY Zenon, <1>3 DEF handle_dup
  <2>2. TabOK(Table(t))
    BY Zenon, TableIs DEF SInv
  <2>3. tab.entries = Insert(es, Pick(Table(t)), e)
    BY Zenon, <2>1, <2>2, AllocateOK
  <2>4. Pick(Table(t)) \notin Backs(es, {})
    BY Zenon, <2>1, <2>2, PickIsLeast DEF Backs
  <2> HIDE DEF tab, e
  <2> QED BY Zenon, <1>1, <1>2, <1>3, <2>1, <2>3, <2>4, VirtualKeeps
<1>4. CASE e.kind # "virtual"
  <2> DEFINE d == InDup("dup", "dup", e.kernel_fd, e.path, old, NoFd, NoFd)
  <2>1. GoTo(t, d) /\ UNCHANGED <<tables, arc>>
    BY Zenon, <1>4 DEF handle_dup
  <2>2. d.at = "dup" /\ d.op = "dup" /\ d.kfd = e.kernel_fd /\ d.path = e.path /\ d.old = old /\ d.shut = NoFd
    BY Zenon DEF InDup
  <2> HIDE DEF d
  <2>3. d.shut = ToShut(es, d) /\ d.at # "fork.put"
    BY Zenon, <2>2 DEF ToShut
  <2> QED BY Zenon, <1>1, <1>2, <1>4, <2>1, <2>2, <2>3, DupBegins
<1> QED BY Zenon, <1>3, <1>4

\* dup2 and dup3
LEMMA Dup2Keeps ==
  ASSUME SInv, SInv', KInv, NEW t \in Task, NEW old, NEW new \in Vfd, Dup2From(t, old, new)
  PROVE  KInv'
<1> DEFINE es == Table(t).entries
           e == es[old]
           shut == Translate(Table(t), new)
<1>1. /\ t \in Live /\ Blank(pc[t]) /\ pc[t].at # "fork.put" /\ Calm(t)
      /\ UNCHANGED <<unmoved, kern>> /\ old \in DOMAIN es
  BY Zenon, CallIs DEF Dup2From, Has
<1>2. Whole(es, Kernel(t), {}, Rest(t)) => (e.kind = "virtual" <=> e.kernel_fd = NoFd)
  BY Zenon, <1>1, KindIs
<1>3. CASE e.kind = "virtual" /\ shut = NoFd
  <2> DEFINE tab == AllocateAt(Table(t), new, e)
  <2>1. SetTable(t, tab) /\ UNCHANGED pc
    BY Zenon, <1>3 DEF Dup2From
  <2>2. TabOK(Table(t))
    BY Zenon, TableIs DEF SInv
  <2>3. tab.entries = Insert(es, new, e)
    BY Zenon, <2>2, ClaimOK DEF AllocateAt
  <2>4. new \notin Backs(es, {})
    BY Zenon, <1>3 DEF Backs, Translate, Has
  <2> HIDE DEF tab, e
  <2> QED BY Zenon, <1>1, <1>2, <1>3, <2>1, <2>3, <2>4, VirtualKeeps
<1>4. CASE ~(e.kind = "virtual" /\ shut = NoFd)
  <2> DEFINE at == IF e.kind = "virtual" THEN "dup.close" ELSE "dup"
             d == InDup(at, "dup2", e.kernel_fd, e.path, old, new, shut)
  <2>1. GoTo(t, d) /\ UNCHANGED <<tables, arc>>
    BY Zenon, <1>4 DEF Dup2From
  <2>2. /\ d.at = at /\ d.op = "dup2" /\ d.kfd = e.kernel_fd /\ d.path = e.path
        /\ d.old = old /\ d.new = new /\ d.shut = shut
    BY Zenon DEF InDup
  <2> HIDE DEF d
  <2>3. d.shut = ToShut(es, d) /\ d.at # "fork.put"
    BY Zenon, <2>2 DEF ToShut, Translate, Has
  <2>4. Whole(es, Kernel(t), {}, Rest(t)) =>
          \/ d.at = "dup" /\ d.kfd # NoFd /\ (d.op # "fcntl" => d.path = es[d.old].path)
          \/ d.at = "dup.close" /\ d.kfd = NoFd /\ d.op = "dup2" /\ d.shut # NoFd
    BY Zenon, <1>2, <1>4, <2>2
  <2> QED BY Zenon, <1>1, <2>1, <2>2, <2>3, <2>4, DupBegins
<1> QED BY Zenon, <1>3, <1>4

\* fcntl
LEMMA FcntlKeeps ==
  ASSUME SInv, SInv', KInv, NEW t \in Task, NEW old, NEW min, handle_fcntl(t, old, min)
  PROVE  KInv'
<1> DEFINE d == InDup("dup", "fcntl", Translate(Table(t), old), NoPath, old, min, NoFd)
<1>1. /\ t \in Live /\ Blank(pc[t]) /\ pc[t].at # "fork.put" /\ Calm(t)
      /\ UNCHANGED <<unmoved, tables, arc, kern>> /\ GoTo(t, d)
      /\ Translate(Table(t), old) # NoFd
  BY Zenon, CallIs DEF handle_fcntl
<1>2. /\ d.at = "dup" /\ d.op = "fcntl" /\ d.kfd = Translate(Table(t), old)
      /\ d.old = old /\ d.shut = NoFd
  BY Zenon DEF InDup
<1> HIDE DEF d
<1>3. d.shut = ToShut(Table(t).entries, d) /\ d.at # "fork.put"
  BY Zenon, <1>2 DEF ToShut
<1>4. old \in DOMAIN Table(t).entries /\ Translate(Table(t), old) = Table(t).entries[old].kernel_fd
  BY Zenon, <1>1 DEF Translate, Has
<1> QED BY Zenon, <1>1, <1>2, <1>3, <1>4, DupBegins

\* The fields of what a handler of the dup family goes on with
LEMMA OnwardsIs ==
  ASSUME NEW c, NEW at, NEW k
  PROVE  After(c, Onwards(c, at, k), at, k)
BY Zenon DEF Onwards, InDup, After

\* A handler of the dup family that gives up holds nothing.
LEMMA GiveUpKeeps ==
  ASSUME SInv, SInv', KInv, NEW t \in Live, pc[t].at = "dup", Calm(t),
         UNCHANGED <<unmoved, tables, arc, kern>>, GoTo(t, Idle)
  PROVE  KInv'
<1>1. Idle.at # "fork.put" /\ pc[t].at # "fork.put" /\ KernOK /\ Blank(Idle)
  BY Zenon DEF Idle, KInv, Blank
<1>2. Within(t, Table(t).entries, Kernel(t), Idle)
  BY Zenon, <1>1, Assigned DEF Within, unmoved
<1>3. ASSUME Fits(Table(t).entries, Kernel(t), Rest(t), pc[t])
      PROVE  FitsOver(Kernel(t), Table(t).entries, Kernel(t), Rest(t), Idle)
  <2>1. Owns(pc[t]) = {} /\ Gone(pc[t]) = {}
    BY Zenon, OwnsIs
  <2>2. Owns(Idle) = {} /\ Gone(Idle) = {} /\ HandlerOK(Table(t).entries, Kernel(t), Idle)
    BY Zenon, <1>1, BlankIs
  <2> QED BY Zenon, <1>3, <2>1, <2>2 DEF Fits, FitsOver
<1> QED BY Zenon, <1>2, <1>3, StepKeeps

\* The kernel's dup
LEMMA DupKernelKeeps ==
  ASSUME SInv, SInv', KInv, NEW t \in Task, DupKernel(t)
  PROVE  KInv'
<1> DEFINE k == pc[t].kfd
           K == Kernel(t)
<1>1. t \in Live /\ pc[t].at = "dup" /\ Calm(t) /\ UNCHANGED <<unmoved, tables, arc>>
  BY Zenon DEF DupKernel, At
<1>2. CASE k \notin DOMAIN K \/ FreeKfd(t) = {}
  <2>1. GoTo(t, Idle) /\ UNCHANGED kern
    BY Zenon, <1>2 DEF DupKernel
  <2> QED BY Zenon, <1>1, <2>1, GiveUpKeeps
<1>3. CASE ~(k \notin DOMAIN K \/ FreeKfd(t) = {})
  <2> DEFINE n == Least(FreeKfd(t))
             at == IF pc[t].shut = NoFd THEN "dup.put" ELSE "dup.close"
             d == Onwards(pc[t], at, n)
             K2 == Insert(K, n, K[k])
  <2>1. kern' = [kern EXCEPT ![kernOf[t]] = K2] /\ GoTo(t, d)
    BY Zenon, <1>3 DEF DupKernel, KernelPut, Kernel
  <2>2. n \in FreeKfd(t) /\ n \in Nat
    BY Zenon, <1>3, FreeKfdIs DEF FreeKfd
  <2>3. n \notin DOMAIN K
    BY Zenon, <2>2 DEF FreeKfd
  <2>4. After(pc[t], d, at, n)
    BY Zenon, OnwardsIs
  <2>5. d.at # "fork.put" /\ pc[t].at # "fork.put" /\ KernOK
    BY Zenon, <1>1, <2>4 DEF KInv, After
  <2> HIDE DEF d, n
  <2>6. ASSUME Fits(Table(t).entries, K, Rest(t), pc[t])
        PROVE  FitsOver(K, Table(t).entries, K2, Rest(t), d)
    BY Zenon, <1>1, <2>2, <2>3, <2>4, <2>6, FitsDupKernel
  <2> HIDE DEF K2
  <2>7. Within(t, Table(t).entries, K2, d)
    BY Zenon, <1>1, <2>1, <2>5, Assigned DEF Within, unmoved
  <2> QED BY Zenon, <1>1, <2>6, <2>7, StepKeeps
<1> QED BY Zenon, <1>2, <1>3

\* The kernel's close of what dup2 replaces
LEMMA DupCloseKeeps ==
  ASSUME SInv, SInv', KInv, NEW t \in Task, DupClose(t)
  PROVE  KInv'
<1> DEFINE K == Kernel(t)
           s == pc[t].shut
           K2 == [x \in DOMAIN K \ {s} |-> K[x]]
           d == Onwards(pc[t], "dup.put", pc[t].kfd)
<1>1. t \in Live /\ pc[t].at = "dup.close" /\ Calm(t) /\ UNCHANGED <<unmoved, tables, arc>>
  BY Zenon DEF DupClose, At
<1>2. After(pc[t], d, "dup.put", pc[t].kfd)
  BY Zenon, OnwardsIs
<1>3. d.at # "fork.put" /\ Idle.at # "fork.put" /\ pc[t].at # "fork.put" /\ KernOK
  BY Zenon, <1>1, <1>2 DEF KInv, After, Idle
<1>4. CASE s \in DOMAIN K
  <2>1. kern' = [kern EXCEPT ![kernOf[t]] = K2] /\ GoTo(t, d)
    BY Zenon, <1>4 DEF DupClose, KernelDrop, Kernel
  <2> HIDE DEF d
  <2>2. ASSUME Fits(Table(t).entries, K, Rest(t), pc[t])
        PROVE  FitsOver(K, Table(t).entries, K2, Rest(t), d)
    BY Zenon, <1>1, <1>2, <2>2, FitsDupClose
  <2> HIDE DEF K2
  <2>3. Within(t, Table(t).entries, K2, d)
    BY Zenon, <1>1, <1>3, <2>1, Assigned DEF Within, unmoved
  <2> QED BY Zenon, <1>1, <2>2, <2>3, StepKeeps
<1>5. CASE s \notin DOMAIN K
  <2>1. UNCHANGED kern /\ GoTo(t, Idle)
    BY Zenon, <1>5 DEF DupClose
  <2>2. Within(t, Table(t).entries, K, Idle)
    BY Zenon, <1>1, <1>3, <2>1, Assigned DEF Within, unmoved
  <2>3. ASSUME Fits(Table(t).entries, K, Rest(t), pc[t]) PROVE FALSE
    BY Zenon, <1>1, <1>2, <1>5, <2>3, FitsDupClose
  <2> QED BY Zenon, <1>1, <2>2, <2>3, StepKeeps
<1> QED BY Zenon, <1>4, <1>5

\* The new entry of dup, dup2, dup3 and fcntl
LEMMA DupPutKeeps ==
  ASSUME SInv, SInv', KInv, NEW t \in Task, DupPut(t)
  PROVE  KInv'
<1> DEFINE c == pc[t]
           tab == Table(t)
           es == tab.entries
           e == IF c.kfd = NoFd THEN Virtual(c.path)
                ELSE IF c.op = "fcntl"
                THEN Passthrough(c.kfd, IF c.old \in DOMAIN es THEN es[c.old].path ELSE NoPath)
                ELSE Passthrough(c.kfd, c.path)
<1>1. /\ t \in Live /\ c.at = "dup.put" /\ Calm(t) /\ UNCHANGED <<unmoved, kern>>
      /\ GoTo(t, Idle)
  BY Zenon DEF DupPut, At
<1>2. TabOK(tab) /\ KernOK /\ Idle.at # "fork.put" /\ c.at # "fork.put"
  BY Zenon, <1>1, TableIs DEF SInv, KInv, Idle
<1>3. c.op \in {"dup", "fcntl", "dup2"} /\ (c.op # "dup" => c.new \in Vfd)
  BY Zenon, <1>1 DEF SInv, PcsOK, PcOK, InDupSteps
<1>4. /\ c.op = "dup" => ~Exhausted(tab) /\ SetTable(t, Allocate(tab, e))
      /\ c.op = "fcntl" => AtLeast(tab, c.new) # {} /\ SetTable(t, AllocateMin(tab, c.new, e))
      /\ c.op = "dup2" => SetTable(t, AllocateAt(tab, c.new, e))
  BY Zenon DEF DupPut, Has
<1> HIDE DEF e
<1>5. \E new, v : /\ SetTable(t, new) /\ new.entries = Insert(es, v, e)
                  /\ \/ c.op # "dup2" /\ v \notin DOMAIN es
                     \/ c.op = "dup2" /\ v = c.new
  <2>1. CASE c.op = "dup"
    <3>1. Allocate(tab, e).entries = Insert(es, Pick(tab), e) /\ Pick(tab) \notin DOMAIN es
      BY Zenon, <1>2, <1>4, <2>1, AllocateOK, PickIsLeast
    <3> QED BY Zenon, <1>4, <2>1, <3>1
  <2>2. CASE c.op = "fcntl"
    <3>1. AtLeast(tab, c.new) \in SUBSET Nat /\ AtLeast(tab, c.new) \subseteq Vfd
      BY DEF AtLeast, Vfd
    <3>2. PickMin(tab, c.new) \in AtLeast(tab, c.new)
      BY Zenon, <1>4, <2>2, <3>1, LeastIs DEF PickMin
    <3>3. AllocateMin(tab, c.new, e).entries = Insert(es, PickMin(tab, c.new), e)
      BY Zenon, <1>2, <3>1, <3>2, ClaimOK DEF AllocateMin
    <3>4. PickMin(tab, c.new) \notin DOMAIN es
      BY Zenon, <3>2 DEF AtLeast
    <3> QED BY Zenon, <1>4, <2>2, <3>3, <3>4
  <2>3. CASE c.op = "dup2"
    <3>1. AllocateAt(tab, c.new, e).entries = Insert(es, c.new, e)
      BY Zenon, <1>2, <1>3, <2>3, ClaimOK DEF AllocateAt
    <3> QED BY Zenon, <1>4, <2>3, <3>1
  <2> QED BY Zenon, <1>3, <2>1, <2>2, <2>3
<1>6. PICK new, v : /\ SetTable(t, new) /\ new.entries = Insert(es, v, e)
                    /\ \/ c.op # "dup2" /\ v \notin DOMAIN es
                       \/ c.op = "dup2" /\ v = c.new
  BY Zenon, <1>5
<1>7. Within(t, new.entries, Kernel(t), Idle)
  BY Zenon, <1>1, <1>2, <1>6, Assigned DEF Within, unmoved
<1>8. ASSUME Fits(es, Kernel(t), Rest(t), c)
      PROVE  FitsOver(Kernel(t), new.entries, Kernel(t), Rest(t), Idle)
  <2>1. Fits(Insert(es, v, e), Kernel(t), Rest(t), Idle)
    BY Zenon, <1>1, <1>6, <1>8, FitsDupPut DEF e
  <2> QED BY Zenon, <1>6, <2>1 DEF FitsOver
<1> QED BY Zenon, <1>1, <1>7, <1>8, StepKeeps

\* execve that closes nothing
LEMMA ExecKeeps ==
  ASSUME SInv, SInv', KInv, NEW t \in Task, NEW marked, Exec(t, marked)
  PROVE  KInv'
<1> DEFINE K == Kernel(t)
           K2 == [k \in DOMAIN K \ marked |-> K[k]]
<1>1. /\ t \in Live /\ Blank(pc[t]) /\ pc[t].at # "fork.put" /\ KernOK
      /\ UNCHANGED <<unmoved, tables, arc, pc>>
  BY Zenon, CallIs DEF Exec, KInv
<1>2. kern' = [kern EXCEPT ![kernOf[t]] = K2]
  BY Zenon DEF Exec, Kernel
<1>3. DOMAIN K2 = DOMAIN K \ marked /\ \A k \in DOMAIN K2 : K2[k] = K[k]
  BY Zenon
<1> HIDE DEF K2
<1>4. Within(t, Table(t).entries, K2, pc[t])
  BY Zenon, <1>1, <1>2, Assigned DEF Within, unmoved
<1>5. CASE marked = {}
  <2>1. Calm(t)
    BY <1>5 DEF Exec, Calm
  <2>2. ASSUME Fits(Table(t).entries, K, Rest(t), pc[t])
        PROVE  FitsOver(K, Table(t).entries, K2, Rest(t), pc[t])
    <3>1. Owns(pc[t]) = {} /\ Gone(pc[t]) = {} /\ HandlerOK(Table(t).entries, K2, pc[t])
      BY Zenon, <1>1, BlankIs
    <3>2. DOMAIN K2 = DOMAIN K
      BY Zenon, <1>3, <1>5
    <3>3. Whole(Table(t).entries, K, {}, Rest(t)) /\ Rest(t) \cup {} = Rest(t)
      BY Zenon, <2>2, <3>1 DEF Fits
    <3>4. Whole(Table(t).entries, K2, {}, Rest(t))
      BY Zenon, <1>3, <3>2, <3>3 DEF Whole
    <3>5. \A k \in Rest(t) : K2[k] = K[k]
      BY Zenon, <1>3, <3>2, <3>3 DEF Whole
    <3> QED BY Zenon, <3>1, <3>3, <3>4, <3>5 DEF Fits, FitsOver
  <2> QED BY Zenon, <1>1, <1>4, <2>1, <2>2, StepKeeps
<1>6. CASE marked # {}
  <2>1. disturbed'
    BY <1>6 DEF Exec
  <2>2. KernOK'
    BY Zenon, <1>1, <1>4 DEF Within, Kerns, KernOK, Live, unmoved
  <2> QED BY Zenon, <2>1, <2>2 DEF KInv
<1> QED BY Zenon, <1>5, <1>6

\* Exit: the task leaves its group.
LEMMA ExitKeeps ==
  ASSUME SInv, KInv, NEW t \in Task, Exit(t)
  PROVE  KInv'
<1>1. /\ t \in Live /\ Blank(pc[t]) /\ pc[t].at = "idle" /\ t # First /\ KernOK /\ Calm(t)
      /\ kernOf' = [kernOf EXCEPT ![t] = NoTask]
      /\ pidOf' = pidOf /\ tables' = tables /\ arc' = arc /\ pc' = pc
  BY Zenon, CallIs DEF Exit, KInv, Call, At
<1>2. kern' = IF \E u \in Live \ {t} : kernOf[u] = kernOf[t] THEN kern
              ELSE [kern EXCEPT ![kernOf[t]] = <<>>]
  BY Zenon DEF Exit
<1>3. /\ kernOf' \in [Task -> Task \cup {NoTask}] /\ kernOf'[t] = NoTask
      /\ \A u \in Task : u # t => kernOf'[u] = kernOf[u]
  BY Zenon, <1>1 DEF KernOK
<1>4. Live' = Live \ {t} /\ Live \subseteq Task /\ \A u \in Live : kernOf[u] \in Task
  <2>1. Live \subseteq Task /\ \A u \in Live : kernOf[u] \in Task
    BY Zenon, <1>1 DEF Live, KernOK
  <2>2. \A u \in Task : u \in Live' <=> u \in Live /\ u # t
    BY Zenon, <1>3 DEF Live
  <2>3. Live' \subseteq Task
    BY Zenon DEF Live
  <2> QED BY Zenon, <2>1, <2>2, <2>3
<1>5. /\ DOMAIN kern' = Task
      /\ \A u \in Live \ {t} : kern'[kernOf[u]] = kern[kernOf[u]]
      /\ \A g \in Task : g # kernOf[t] => kern'[g] = kern[g]
  BY Zenon, <1>1, <1>2, <1>4 DEF KernOK
<1>6. KernOK'
  BY Zenon, <1>1, <1>3, <1>4, <1>5 DEF KernOK
<1>7. ASSUME ~disturbed' PROVE KState'
  <2>1. KState /\ Undisturbing(t)
    BY Zenon, <1>1, <1>7, CalmIs DEF Calm
  <2>2. /\ \A u \in Task : Arc(u)' = Arc(u) /\ Table(u)' = Table(u)
        /\ \A u \in Live : Newborn(u)' <=> Newborn(u)
    BY Zenon, <1>1, <1>4 DEF Arc, Table, Newborn
  <2>3. \A u \in Live \ {t} : /\ Kernel(u)' = Kernel(u) /\ kernOf'[u] = kernOf[u]
                             /\ Kin(u)' = Kin(u) \ {t}
    BY Zenon, <1>3, <1>4, <1>5 DEF Kernel, Kin
  <2>4. IdsOK'
    <3>1. ~Fresh(t)
      BY Zenon, <1>1, <2>1 DEF KState, IdsOK, Undisturbing
    <3> QED BY Zenon, <1>1, <1>4, <2>1, <2>2, <2>3, <3>1 DEF KState, IdsOK, Fresh
  <2>5. ChildrenOK'
    <3> SUFFICES ASSUME NEW q \in Live \ {t}, pc[q].at = "fork.put" PROVE ChildOK(q)'
      BY Zenon, <1>1, <1>4 DEF ChildrenOK
    <3> DEFINE d == pc[q].child
    <3>1. ChildOK(q)
      BY Zenon, <2>1 DEF KState, ChildrenOK
    <3>2. d \in Live /\ Fresh(d) /\ d # t
      BY Zenon, <2>1, <3>1 DEF ChildOK, Undisturbing, Newborn
    <3>3. d # kernOf[t] /\ d \in Task
      BY Zenon, <1>1, <1>4, <2>1, <3>2 DEF KState, IdsOK
    <3>4. kern'[d] = kern[d]
      BY Zenon, <1>5, <3>3
    <3> QED BY Zenon, <1>1, <1>4, <2>2, <2>3, <3>1, <3>2, <3>4 DEF ChildOK, Fresh
  <2>6. SidesOK'
    <3> SUFFICES ASSUME NEW w \in Live \ {t}, NEW u \in Live \ {t}, ~Newborn(w)
                 PROVE  /\ Arc(u)' = Arc(w)' => kernOf'[u] = kernOf'[w]
                        /\ kernOf'[u] = kernOf'[w] /\ ~Newborn(u)' => Arc(u)' = Arc(w)'
      BY Zenon, <1>4, <2>2 DEF SidesOK
    <3> QED BY Zenon, <1>4, <2>1, <2>2, <2>3 DEF KState, SidesOK
  <2>7. GroupsOK'
    <3> SUFFICES ASSUME NEW u \in Live \ {t}, ~Newborn(u) PROVE InOrder(u)'
      BY Zenon, <1>4, <2>2 DEF GroupsOK
    <3>1. InOrder(u)
      BY Zenon, <2>1 DEF KState, GroupsOK
    <3>2. GroupOK(Table(u).entries, Kernel(u), Kin(u) \ {t}, pc')
      BY Zenon, <1>1, <3>1, GroupSame DEF InOrder
    <3>3. Alone(u)'
      BY Zenon, <1>1, <2>3, <3>1 DEF InOrder, Alone
    <3>4. (Table(u).entries)' = Table(u).entries
      BY Zenon, <1>4, <2>2
    <3> QED BY Zenon, <2>3, <3>2, <3>3, <3>4 DEF InOrder
  <2> QED BY Zenon, <2>4, <2>5, <2>6, <2>7 DEF KState
<1> QED BY Zenon, <1>6, <1>7 DEF KInv

\* The kernel's clone: the child is in the parent's group, or has a copy of the kernel table.
LEMMA SpawnKeeps ==
  ASSUME SInv, KInv, NEW t \in Task, NEW c \in Task, NEW files, NEW thread, NEW share,
         Spawn(t, c, files, thread, share),
         share => files, thread => files
  PROVE  KInv'
<1> DEFINE d == [at |-> "fork.put", child |-> c, share |-> share]
<1>1. /\ t \in Live /\ Blank(pc[t]) /\ pc[t].at = "idle" /\ KernOK
      /\ c \in Unborn /\ tables' = tables /\ arc' = arc
      /\ kernOf' = [kernOf EXCEPT ![c] = IF files THEN kernOf[t] ELSE c]
      /\ pidOf' = [pidOf EXCEPT ![c] = IF thread THEN pidOf[t] ELSE c]
      /\ GoTo(t, d)
  BY Zenon, CallIs DEF Spawn, KInv, Call, At
<1>2. kern' = IF files THEN kern ELSE [kern EXCEPT ![c] = Kernel(t)]
  BY Zenon DEF Spawn
<1>3. /\ c \notin Live /\ arc[c] = NoTask /\ c # First /\ c # t
      /\ \A u \in Task : pc[u].at = "fork.put" => pc[u].child # c
  BY Zenon, <1>1 DEF Unborn, Live
<1>4. Live \subseteq Task /\ \A u \in Live : kernOf[u] \in Task
  BY Zenon, <1>1 DEF Live, KernOK
<1>5. /\ kernOf' \in [Task -> Task \cup {NoTask}]
      /\ kernOf'[c] = IF files THEN kernOf[t] ELSE c
      /\ \A u \in Task : u # c => kernOf'[u] = kernOf[u]
  BY Zenon, <1>1, <1>4 DEF KernOK
<1>6. /\ pidOf'[c] = IF thread THEN pidOf[t] ELSE c
      /\ \A u \in Task : u # c => pidOf'[u] = pidOf[u]
  BY Zenon, <1>1 DEF SInv, TablesOK
<1>7. /\ d.at = "fork.put" /\ d.child = c /\ d.share = share
      /\ pc'[t] = d /\ \A u \in Task : u # t => pc'[u] = pc[u]
  BY Zenon, <1>1 DEF GoTo, SInv, PcsOK
<1> HIDE DEF d
<1>8. Live' = Live \cup {c}
  BY <1>1, <1>4, <1>5, TaskAssumption DEF Live
<1>9. /\ DOMAIN kern' = Task /\ \A g \in Task : g # c => kern'[g] = kern[g]
      /\ ~files => kern'[c] = Kernel(t)
  BY Zenon, <1>1, <1>2 DEF KernOK
<1>10. KernOK'
  <2>1. \A u \in Task \ Live' : u \in Task \ Live /\ pc'[u] = pc[u]
    BY Zenon, <1>1, <1>7, <1>8
  <2> QED BY Zenon, <1>1, <1>5, <1>9, <2>1 DEF KernOK
<1>11. ASSUME ~disturbed' PROVE KState'
  <2>1. ~(disturbed \/ Disturbs(t)) /\ (~files => ~Busy(t)) /\ (files => share \/ thread)
    BY Zenon, <1>11 DEF Spawn
  <2>2. KState /\ Undisturbing(t) /\ Fresh(c)
    BY Zenon, <1>1, <1>3, <2>1, CalmIs DEF Fresh
  <2>3. \A u \in Live : /\ Arc(u)' = Arc(u) /\ Table(u)' = Table(u)
                       /\ kernOf'[u] = kernOf[u] /\ pidOf'[u] = pidOf[u]
    <3>1. \A u \in Live : u # c /\ u \in Task /\ kernOf'[u] = kernOf[u] /\ pidOf'[u] = pidOf[u]
      BY Zenon, <1>3, <1>4, <1>5, <1>6
    <3>2. ASSUME NEW u \in Live PROVE Arc(u)' = Arc(u) /\ Table(u)' = Table(u)
      <4>1. pidOf'[u] = pidOf[u] /\ arc' = arc /\ tables' = tables
        BY Zenon, <1>1, <3>1
      <4> QED BY SMT, <4>1 DEF Arc, Table
    <3> QED BY Zenon, <3>1, <3>2
  <2>4. Arc(c)' = IF thread THEN Arc(t) ELSE c
    <3>1. arc'[c] = NoTask /\ arc' = arc
      BY Zenon, <1>1, <1>3
    <3> QED BY <1>6, <3>1 DEF Arc
  <2>5. /\ \A u \in Live : Newborn(u)' <=> Newborn(u)
        /\ Newborn(c)'
    <3>1. \A u \in Live, q \in Live : pc'[q].at = "fork.put" /\ pc'[q].child = u
                                      <=> pc[q].at = "fork.put" /\ pc[q].child = u
      BY Zenon, <1>1, <1>3, <1>4, <1>7
    <3>2. pc'[c].at # "fork.put"
      BY Zenon, <1>1, <1>3, <1>7 DEF KernOK
    <3>3. Newborn(c)'
      BY Zenon, <1>1, <1>7, <1>8 DEF Newborn
    <3>4. ASSUME NEW u \in Live PROVE Newborn(u)' <=> Newborn(u)
      BY Zenon, <1>8, <3>1, <3>2 DEF Newborn
    <3> QED BY Zenon, <3>3, <3>4
  <2>6. \A u \in Live : pidOf[u] # c /\ kernOf[u] # c /\ Arc(u) # c
    <3>1. \A u \in Live : pidOf[u] # c /\ kernOf[u] # c
      BY Zenon, <1>3, <2>2 DEF KState, IdsOK
    <3>2. \A u \in Live : pidOf[u] \in Task /\ (arc[pidOf[u]] # NoTask => arc[arc[pidOf[u]]] # NoTask)
      BY Zenon, <1>4 DEF SInv, TablesOK
    <3> QED BY Zenon, <1>3, <3>1, <3>2 DEF Arc
  <2>7. ~Fresh(t)
    BY Zenon, <1>1, <2>2 DEF KState, IdsOK, Undisturbing
  <2>8. IdsOK'
    <3> SUFFICES ASSUME NEW x \in Task, Fresh(x)
                 PROVE  /\ \A u \in Live' \ {x} : pidOf'[u] # x /\ kernOf'[u] # x
                        /\ x \in Live' => Newborn(x)'
      BY Zenon, <1>1 DEF IdsOK, Fresh
    <3>1. \A u \in Live \ {x} : pidOf'[u] # x /\ kernOf'[u] # x
      BY Zenon, <2>2, <2>3 DEF KState, IdsOK
    <3>2. x # c => pidOf'[c] # x /\ kernOf'[c] # x
      <4>1. t # x /\ pidOf[t] # x /\ kernOf[t] # x
        BY Zenon, <1>1, <2>2, <2>7 DEF KState, IdsOK
      <4> QED BY Zenon, <1>5, <1>6, <4>1
    <3>3. x \in Live' => Newborn(x)'
      BY Zenon, <1>8, <2>2, <2>5 DEF KState, IdsOK
    <3> QED BY Zenon, <1>8, <3>1, <3>2, <3>3
  <2>9. \A u \in Live : Kin(u)' = Kin(u) \cup (IF files /\ kernOf[u] = kernOf[t] THEN {c} ELSE {})
    BY <1>3, <1>5, <1>8, <2>3, <2>6 DEF Kin
  <2>10. ~files => \A u \in Kin(t) : Blank(pc[u])
    BY Zenon, <1>1, <2>1 DEF Busy, Sharing, Kin, Blank
  <2>11. ChildOK(t)'
    <3>1. c \in Live' /\ pc'[c].at = "idle" /\ Fresh(c)' /\ ~Newborn(t)'
      BY Zenon, <1>1, <1>3, <1>7, <1>8, <2>2, <2>5 DEF Undisturbing, Fresh, KernOK
    <3>2. \A r \in Live' : pc'[r].at = "fork.put" /\ pc'[r].child = c => r = t
      BY <1>3, <1>4, <1>7, <1>8
    <3>3. pidOf'[c] \in {c, pidOf'[t]} /\ kernOf'[t] = kernOf[t] /\ pidOf'[t] = pidOf[t]
      BY Zenon, <1>1, <1>6, <2>3
    <3>4. CASE files
      <4>1. kernOf'[c] = kernOf'[t] /\ (share \/ pidOf'[c] = pidOf'[t])
        BY Zenon, <1>5, <1>6, <2>1, <3>3, <3>4
      <4> QED BY Zenon, <1>3, <1>7, <3>1, <3>2, <3>3, <4>1 DEF ChildOK
    <3>5. CASE ~files
      <4>1. kernOf'[c] = c /\ pidOf'[c] = c /\ ~share
        BY Zenon, <1>5, <1>6, <3>5
      <4>2. kern'[c] = Kernel(t)'
        BY Zenon, <1>1, <1>4, <1>9, <2>6, <3>3, <3>5 DEF Kernel
      <4>3. ASSUME NEW u \in Live', kernOf'[u] = kernOf'[t] PROVE Blank(pc'[u])
        <5>1. u \in Kin(t)
          BY Zenon, <1>1, <1>8, <2>3, <2>6, <3>3, <4>1, <4>3 DEF Kin
        <5>2. Blank(pc[u])
          BY Zenon, <2>10, <3>5, <5>1
        <5> QED BY Zenon, <1>4, <1>7, <5>1, <5>2 DEF Blank, Kin
      <4> QED BY Zenon, <1>3, <1>7, <3>1, <3>2, <3>3, <4>1, <4>2, <4>3 DEF ChildOK
    <3> QED BY Zenon, <3>4, <3>5
  <2>12. ASSUME NEW q \in Live, pc[q].at = "fork.put" PROVE ChildOK(q)'
    <3> DEFINE x == pc[q].child
    <3>1. ChildOK(q) /\ q # t /\ q \in Task /\ pc'[q] = pc[q]
      BY Zenon, <1>1, <1>4, <1>7, <2>2, <2>12 DEF KState, ChildrenOK
    <3>2. kernOf[q] # kernOf[t]
      BY Zenon, <2>2, <2>12, <3>1 DEF Undisturbing, Kin, InWindow
    <3>3. x \in Live /\ x # c /\ x # t /\ Fresh(x) /\ pc'[x] = pc[x] /\ kern'[x] = kern[x]
      BY Zenon, <1>3, <1>4, <1>7, <1>9, <2>2, <2>12, <3>1 DEF ChildOK, Undisturbing, Newborn
    <3>4. Kernel(q)' = Kernel(q)
      BY Zenon, <1>4, <1>9, <2>3, <2>6 DEF Kernel
    <3>5. ASSUME NEW u \in Live', kernOf'[u] = kernOf'[q]
          PROVE  u \in Live /\ kernOf[u] = kernOf[q] /\ pc'[u] = pc[u]
      <4>1. u # c
        BY Zenon, <1>5, <2>3, <2>6, <3>2, <3>5
      <4>2. u \in Live /\ u # t
        BY Zenon, <1>8, <2>3, <3>2, <3>5, <4>1
      <4> QED BY Zenon, <1>4, <1>7, <2>3, <3>5, <4>1, <4>2
    <3>6. ASSUME NEW r \in Live', pc'[r].at = "fork.put", pc'[r].child = x
          PROVE  r \in Live /\ pc'[r] = pc[r]
      <4>1. r # t
        BY Zenon, <1>1, <1>3, <1>7, <3>3, <3>6
      <4>2. pc'[c].at # "fork.put"
        BY Zenon, <1>1, <1>3, <1>7 DEF KernOK
      <4>3. r # c
        BY Zenon, <3>6, <4>2
      <4> QED BY Zenon, <1>4, <1>7, <1>8, <4>1, <4>3
    <3>7. Fresh(x) /\ arc'[x] = arc[x] /\ ~Newborn(q)' /\ x \in Live'
      BY Zenon, <1>1, <1>8, <2>5, <3>1, <3>3 DEF ChildOK
    <3> QED BY ZenonT(40), <2>3, <3>1, <3>3, <3>4, <3>5, <3>6, <3>7 DEF ChildOK, Fresh
  <2>13. ChildrenOK'
    <3>1. ASSUME NEW q \in Live', pc'[q].at = "fork.put" PROVE q = t \/ (q \in Live /\ pc[q].at = "fork.put")
      BY Zenon, <1>1, <1>3, <1>4, <1>7, <1>8, <3>1 DEF KernOK
    <3> QED BY Zenon, <2>11, <2>12, <3>1 DEF ChildrenOK
  <2>14. SidesOK'
    <3> SUFFICES ASSUME NEW w \in Live, NEW u \in Live', ~Newborn(w)
                 PROVE  /\ Arc(u)' = Arc(w)' => kernOf'[u] = kernOf'[w]
                        /\ kernOf'[u] = kernOf'[w] /\ ~Newborn(u)' => Arc(u)' = Arc(w)'
      BY Zenon, <1>8, <2>5 DEF SidesOK
    <3>1. CASE u \in Live
      BY Zenon, <2>2, <2>3, <2>5, <3>1 DEF KState, SidesOK
    <3>2. CASE u = c
      <4>1. Arc(c)' = Arc(w) => thread /\ Arc(t) = Arc(w)
        BY Zenon, <2>4, <2>6
      <4>2. Arc(t) = Arc(w) => kernOf[t] = kernOf[w]
        BY Zenon, <1>1, <2>2 DEF KState, SidesOK
      <4> QED BY Zenon, <1>5, <2>3, <2>5, <3>2, <4>1, <4>2
    <3> QED BY Zenon, <1>8, <3>1, <3>2
  <2>15. GroupsOK'
    <3> SUFFICES ASSUME NEW u \in Live, ~Newborn(u) PROVE InOrder(u)'
      BY Zenon, <1>8, <2>5 DEF GroupsOK
    <3>1. InOrder(u)
      BY Zenon, <2>2 DEF KState, GroupsOK
    <3>2. Blank(pc'[t]) /\ Blank(pc'[c]) /\ Blank(pc[t])
      BY <1>1, <1>3, <1>7 DEF Blank, KernOK
    <3>3. \A w \in Kin(u) : w \in Live /\ (w = t \/ pc'[w] = pc[w])
      BY Zenon, <1>4, <1>7 DEF Kin
    <3>4. GroupOK(Table(u).entries, Kernel(u), Kin(u)', pc')
      <4>1. \A w \in Kin(u)' : (w \in Kin(u) /\ pc'[w] = pc[w]) \/ Blank(pc'[w])
        BY Zenon, <2>9, <3>2, <3>3
      <4>2. \A w \in Kin(u) : (w \in Kin(u)' /\ pc'[w] = pc[w]) \/ Blank(pc[w])
        BY Zenon, <2>9, <3>2, <3>3
      <4>3. GroupOK(Table(u).entries, Kernel(u), Kin(u), pc)
        BY Zenon, <3>1 DEF InOrder
      <4> QED BY Zenon, <4>1, <4>2, <4>3, GroupSame
    <3>5. Kernel(u)' = Kernel(u) /\ (Table(u).entries)' = Table(u).entries
      BY Zenon, <1>4, <1>9, <2>3, <2>6 DEF Kernel
    <3>6. Alone(u)'
      <4>1. ~InWindow(pc'[c])
        BY Zenon, <1>1, <1>3, <1>7 DEF InWindow, InDupSteps, KernOK
      <4>2. CASE kernOf[u] = kernOf[t]
        <5>1. \A w \in Kin(u) : w # t => ~InWindow(pc'[w])
          BY Zenon, <2>2, <3>3, <4>2 DEF Undisturbing, Kin
        <5>2. \A w \in Kin(u)' : w \in Kin(u) \/ w = c
          BY Zenon, <2>9
        <5>3. u \in Kin(u)
          BY Zenon DEF Kin
        <5>4. \A w \in Kin(u)' : w # t => ~InWindow(pc'[w])
          BY Zenon, <4>1, <5>1, <5>2
        <5>5. CASE u = t
          BY Zenon, <5>4, <5>5 DEF Alone
        <5>6. CASE u # t
          BY Zenon, <5>1, <5>3, <5>6 DEF Alone
        <5> QED BY Zenon, <5>5, <5>6
      <4>3. CASE kernOf[u] # kernOf[t]
        <5>1. \A w \in Kin(u) : pc'[w] = pc[w]
          BY Zenon, <3>3, <4>3 DEF Kin
        <5>2. Kin(u)' = Kin(u) /\ u \in Kin(u)
          BY Zenon, <2>9, <4>3 DEF Kin
        <5> QED BY Zenon, <3>1, <5>1, <5>2 DEF InOrder, Alone
      <4> QED BY Zenon, <4>2, <4>3
    <3> QED BY Zenon, <3>4, <3>5, <3>6 DEF InOrder
  <2> QED BY Zenon, <2>8, <2>13, <2>14, <2>15 DEF KState
<1> QED BY Zenon, <1>10, <1>11 DEF KInv

\* The table of the child: the parent's, or a copy of it.
LEMMA SpawnPutKeeps ==
  ASSUME SInv, SInv', KInv, NEW t \in Task, SpawnPut(t)
  PROVE  KInv'
<1>0. PICK c, sh, A, p : c = pc[t].child /\ sh = pc[t].share /\ A = Arc(t) /\ p = pidOf[t]
  BY Zenon
<1>1. /\ pc[t].at = "fork.put" /\ KernOK /\ Calm(t)
      /\ kern' = kern /\ kernOf' = kernOf /\ pidOf' = pidOf
      /\ GoTo(t, Idle)
      /\ arc' = [arc EXCEPT ![p] = A, ![c] = IF sh THEN A ELSE c]
      /\ tables' = IF sh THEN [tables EXCEPT ![A] = Table(t)]
                   ELSE [tables EXCEPT ![A] = Table(t), ![c] = Table(t)]
  BY Zenon, <1>0 DEF SpawnPut, At, KInv, unmoved
<1>2. Live' = Live /\ Live \subseteq Task /\ t \in Live
  BY Zenon, <1>1 DEF Live, KernOK
<1>3. /\ pc'[t].at = "idle" /\ \A u \in Task : u # t => pc'[u] = pc[u]
  BY Zenon, <1>1 DEF GoTo, SInv, PcsOK, Idle
<1>4. KernOK'
  BY Zenon, <1>1, <1>2, <1>3 DEF KernOK
<1>5. ASSUME ~disturbed' PROVE KState'
  <2>1. KState /\ Undisturbing(t) /\ ChildOK(t)
    BY Zenon, <1>1, <1>2, <1>5, CalmIs DEF Calm, KState, ChildrenOK
  <2>2. /\ c \in Live /\ c \in Task /\ c # t /\ Fresh(c) /\ pc[c].at = "idle" /\ ~Newborn(t)
        /\ \A r \in Live : pc[r].at = "fork.put" /\ pc[r].child = c => r = t
        /\ \A u \in Live \ {c} : pidOf[u] # c /\ kernOf[u] # c
    BY Zenon, <1>0, <1>2, <2>1 DEF ChildOK, KState, IdsOK
  <2>3. /\ p # c /\ p \in Task /\ A \in Task /\ ~Fresh(p)
        /\ \A u \in Live \ {c} : Arc(u) # c /\ Arc(u) \in Task
    <3>1. \A u \in Task : pidOf[u] \in Task /\ (arc[pidOf[u]] # NoTask => arc[arc[pidOf[u]]] # NoTask)
      BY Zenon DEF SInv, TablesOK
    <3>2. \A u \in Live \ {c} : Arc(u) # c /\ Arc(u) \in Task
      BY Zenon, <1>2, <2>2, <3>1, TableIs DEF Arc, Fresh, SInv
    <3>3. ~Fresh(p)
      <4>1. ~Fresh(t)
        BY Zenon, <1>2, <2>1 DEF KState, IdsOK, Undisturbing
      <4> QED BY Zenon, <1>0, <1>2, <2>1, <3>1, <4>1 DEF KState, IdsOK
    <3> QED BY Zenon, <1>0, <1>2, <2>2, <3>1, <3>2, <3>3
  <2>4. /\ arc'[p] = A /\ arc'[c] = IF sh THEN A ELSE c
        /\ \A x \in Task : x # p /\ x # c => arc'[x] = arc[x]
    BY Zenon, <1>1, <2>2, <2>3 DEF SInv, TablesOK
  <2>5. /\ tables'[A] = Table(t) /\ (~sh => tables'[c] = Table(t))
        /\ \A x \in Task : x # A /\ x # c => tables'[x] = tables[x]
    <3>1. A # c /\ DOMAIN tables = Task
      BY Zenon, <1>0, <1>2, <2>2, <2>3 DEF SInv, TablesOK
    <3> QED BY Zenon, <1>1, <2>2, <2>3, <3>1
  <2>6. ASSUME NEW u \in Live \ {c} PROVE Arc(u)' = Arc(u) /\ Table(u)' = Table(u)
    <3>1. pidOf'[u] = pidOf[u] /\ pidOf[u] # c /\ pidOf[u] \in Task /\ u \in Task /\ NoTask \notin Task
      BY Zenon, <1>1, <1>2, <2>2, TaskAssumption DEF SInv, TablesOK
    <3>4. Arc(u)' = Arc(u)
      <4>1. CASE pidOf[u] = p
        <5>1. arc'[pidOf'[u]] = A /\ A # NoTask /\ Arc(u) = A
          BY Zenon, <1>0, <2>3, <2>4, <3>1, <4>1 DEF Arc
        <5> QED BY Zenon, <5>1 DEF Arc
      <4>2. CASE pidOf[u] # p
        <5>1. arc'[pidOf'[u]] = arc[pidOf[u]]
          BY Zenon, <2>4, <3>1, <4>2
        <5> QED BY Zenon, <3>1, <5>1 DEF Arc
      <4> QED BY Zenon, <4>1, <4>2
    <3>5. Table(u) = tables[Arc(u)] /\ Table(t) = tables[A]
      BY Zenon, <3>1, TableIs, <1>0, TaskAssumption DEF SInv
    <3>6. (TablesOK => Table(u) = tables[Arc(u)])'
      BY Zenon, <3>1, TaskAssumption DEF TablesOK, Arc, Table
    <3>7. Table(u)' = tables'[Arc(u)]
      BY Zenon, <3>4, <3>6 DEF SInv
    <3> QED BY Zenon, <2>3, <2>5, <3>4, <3>5, <3>7
  <2>7. /\ Arc(c)' = IF sh \/ pidOf[c] = p THEN A ELSE c
        /\ Table(c)' = Table(t)
    <3>1. pidOf'[c] = pidOf[c] /\ pidOf[c] \in {c, p} /\ NoTask \notin Task
      BY Zenon, <1>0, <1>1, <2>1, TaskAssumption DEF ChildOK
    <3>2. Arc(c)' = IF sh \/ pidOf[c] = p THEN A ELSE c
      <4>1. arc'[pidOf'[c]] # NoTask
        BY Zenon, <2>2, <2>3, <2>4, <3>1
      <4>2. Arc(c)' = arc'[pidOf'[c]]
        BY Zenon, <4>1 DEF Arc
      <4>3. CASE pidOf[c] = p
        BY Zenon, <2>4, <3>1, <4>2, <4>3
      <4>4. CASE pidOf[c] = c /\ pidOf[c] # p
        BY Zenon, <2>4, <3>1, <4>2, <4>4
      <4> QED BY Zenon, <3>1, <4>3, <4>4
    <3>3. Table(c)' = tables'[Arc(c)']
      <4>1. arc'[pidOf'[c]] # NoTask
        BY Zenon, <2>2, <2>3, <2>4, <3>1
      <4> QED BY Zenon, <4>1 DEF Arc, Table
    <3> QED BY Zenon, <2>5, <3>2, <3>3
  <2>8. \A u \in Live : Newborn(u)' <=> Newborn(u) /\ u # c
    <3>1. \A q \in Live : pc'[q].at = "fork.put" <=> pc[q].at = "fork.put" /\ q # t
      BY Zenon, <1>2, <1>3
    <3>2. \A q \in Live : q # t => pc'[q] = pc[q]
      BY Zenon, <1>2, <1>3
    <3>3. ASSUME NEW u \in Live, Newborn(u)' PROVE Newborn(u) /\ u # c
      <4>1. PICK q \in Live : pc'[q].at = "fork.put" /\ pc'[q].child = u
        BY Zenon, <1>2, <3>3 DEF Newborn
      <4> QED BY Zenon, <2>2, <3>1, <3>2, <4>1 DEF Newborn
    <3>4. ASSUME NEW u \in Live, Newborn(u), u # c PROVE Newborn(u)'
      <4>1. PICK q \in Live : pc[q].at = "fork.put" /\ pc[q].child = u
        BY Zenon, <3>4 DEF Newborn
      <4>2. q # t
        BY Zenon, <1>0, <3>4, <4>1
      <4> QED BY Zenon, <1>2, <3>2, <4>1, <4>2 DEF Newborn
    <3> QED BY Zenon, <3>3, <3>4
  <2>9. IdsOK'
    <3> SUFFICES ASSUME NEW x \in Task, Fresh(x)'
                 PROVE  /\ \A u \in Live \ {x} : pidOf[u] # x /\ kernOf[u] # x
                        /\ x \in Live => Newborn(x)'
      BY Zenon, <1>1, <1>2 DEF IdsOK
    <3>1. x # c
      <4>1. arc'[c] # NoTask
        BY Zenon, <2>2, <2>3, <2>4, TaskAssumption
      <4> QED BY Zenon, <4>1 DEF Fresh
    <3>2. x # p
      BY Zenon, <2>3, <2>4, TaskAssumption DEF Fresh
    <3>3. Fresh(x)
      BY Zenon, <2>4, <3>1, <3>2 DEF Fresh
    <3> QED BY Zenon, <2>1, <2>8, <3>1, <3>3 DEF KState, IdsOK
  <2>10. ChildrenOK'
    <3> SUFFICES ASSUME NEW q \in Live, pc'[q].at = "fork.put" PROVE ChildOK(q)'
      BY Zenon, <1>2 DEF ChildrenOK
    <3>0. PICK x : x = pc[q].child
      BY Zenon
    <3>1. q # t /\ pc'[q] = pc[q] /\ pc[q].at = "fork.put"
      BY Zenon, <1>2, <1>3
    <3>2. ChildOK(q)
      BY Zenon, <2>1, <3>1 DEF KState, ChildrenOK
    <3>3. x \in Live /\ x # q /\ Fresh(x) /\ pc[x].at = "idle" /\ ~Newborn(q)
      BY Zenon, <3>0, <3>2 DEF ChildOK
    <3>4. x # c /\ x # t /\ x \in Task /\ x # p
      BY Zenon, <1>2, <2>2, <2>3, <3>0, <3>1, <3>3 DEF Newborn
    <3>5. pc'[x] = pc[x] /\ Fresh(x)' /\ ~Newborn(q)'
      BY Zenon, <1>3, <2>4, <2>8, <3>3, <3>4 DEF Fresh
    <3>6. \A r \in Live : pc'[r].at = "fork.put" /\ pc'[r].child = x => r = q
      BY Zenon, <1>2, <1>3, <3>0, <3>2 DEF ChildOK
    <3>7. \A u \in Live : Blank(pc[u]) => Blank(pc'[u])
      BY Zenon, <1>2, <1>3 DEF Blank
    <3>8. Kernel(q)' = Kernel(q)
      BY Zenon, <1>1 DEF Kernel
    <3> QED BY Zenon, <1>1, <1>2, <3>0, <3>1, <3>2, <3>3, <3>5, <3>6, <3>7, <3>8 DEF ChildOK
  <2>11. \/ Arc(c)' = Arc(t) /\ kernOf[c] = kernOf[t]
         \/ /\ Arc(c)' = c /\ kernOf[c] = c /\ kern[c] = Kernel(t)
            /\ \A u \in Live : kernOf[u] = kernOf[t] => Blank(pc[u])
    <3>1. \/ kernOf[c] = kernOf[t] /\ (sh \/ pidOf[c] = p)
          \/ /\ kernOf[c] = c /\ pidOf[c] = c /\ ~sh /\ kern[c] = Kernel(t)
             /\ \A u \in Live : kernOf[u] = kernOf[t] => Blank(pc[u])
      BY Zenon, <1>0, <2>1 DEF ChildOK
    <3> QED BY Zenon, <1>0, <2>3, <2>7, <3>1
  <2>12. SidesOK'
    <3>1. ASSUME NEW x \in Live \ {c}
          PROVE  /\ Arc(x)' = Arc(c)' => kernOf[x] = kernOf[c]
                 /\ kernOf[x] = kernOf[c] /\ ~Newborn(x) => Arc(x)' = Arc(c)'
      <4>1. /\ Arc(x) = Arc(t) => kernOf[x] = kernOf[t]
            /\ kernOf[x] = kernOf[t] /\ ~Newborn(x) => Arc(x) = Arc(t)
        BY Zenon, <1>2, <2>1, <2>2 DEF KState, SidesOK
      <4> QED BY Zenon, <2>2, <2>3, <2>6, <2>11, <4>1
    <3> SUFFICES ASSUME NEW w \in Live, NEW u \in Live, ~Newborn(w)'
                 PROVE  /\ Arc(u)' = Arc(w)' => kernOf[u] = kernOf[w]
                        /\ kernOf[u] = kernOf[w] /\ ~Newborn(u)' => Arc(u)' = Arc(w)'
      BY Zenon, <1>1, <1>2 DEF SidesOK
    <3>2. CASE w # c /\ u # c
      BY Zenon, <2>1, <2>6, <2>8, <3>2 DEF KState, SidesOK
    <3>3. CASE w = c /\ u # c
      <4>1. Arc(w)' = Arc(c)'
        BY Zenon, <3>3 DEF Arc
      <4> QED BY Zenon, <2>8, <3>1, <3>3, <4>1
    <3>4. CASE u = c /\ w # c
      <4>1. Arc(u)' = Arc(c)'
        BY Zenon, <3>4 DEF Arc
      <4> QED BY Zenon, <2>8, <3>1, <3>4, <4>1
    <3>5. CASE u = c /\ w = c
      BY Zenon, <3>5 DEF Arc
    <3> QED BY Zenon, <3>2, <3>3, <3>4, <3>5
  <2>13. /\ Blank(pc[t]) /\ Blank(pc'[t]) /\ Blank(pc'[c]) /\ ~InWindow(pc'[t]) /\ ~InWindow(pc'[c])
    <3>1. pc'[c].at = "idle"
      BY Zenon, <1>3, <2>2
    <3> QED BY Zenon, <1>1, <1>3, <3>1 DEF Blank, InWindow, InDupSteps
  <2>14. \A u \in Live : Kin(u)' = Kin(u) /\ Kernel(u)' = Kernel(u)
    BY Zenon, <1>1, <1>2 DEF Kin, Kernel
  <2>15. ASSUME NEW u \in Live, ~Newborn(u) PROVE GroupOK(Table(u).entries, Kernel(u), Kin(u), pc')
    <3>1. InOrder(u)
      BY Zenon, <2>1, <2>15 DEF KState, GroupsOK
    <3>2. \A w \in Kin(u) : w = t \/ pc'[w] = pc[w]
      BY Zenon, <1>2, <1>3 DEF Kin
    <3> QED BY Zenon, <2>13, <3>1, <3>2, GroupSame DEF InOrder
  <2>16. GroupsOK'
    <3> SUFFICES ASSUME NEW u \in Live, ~Newborn(u)' PROVE InOrder(u)'
      BY Zenon, <1>2 DEF GroupsOK
    <3>1. CASE u # c
      <4>1. ~Newborn(u) /\ InOrder(u) /\ (Table(u).entries)' = Table(u).entries
        BY Zenon, <2>1, <2>6, <2>8, <3>1 DEF KState, GroupsOK
      <4>2. Alone(u)'
        <5>1. \A w \in Live : InWindow(pc'[w]) => InWindow(pc[w])
          BY Zenon, <1>2, <1>3, <2>13
        <5> QED BY Zenon, <2>14, <4>1, <5>1 DEF InOrder, Alone, Kin
      <4> QED BY Zenon, <2>14, <2>15, <4>1, <4>2 DEF InOrder
    <3>2. CASE u = c
      <4>1. Alone(c)'
        BY Zenon, <2>13 DEF Alone
      <4>2. (Table(c).entries)' = Table(t).entries
        BY Zenon, <2>7
      <4>3. GroupOK(Table(t).entries, Kernel(t), Kin(t), pc')
        BY Zenon, <1>2, <2>2, <2>15
      <4>4. GroupOK(Table(t).entries, Kernel(c), Kin(c), pc')
        <5>1. CASE kernOf[c] = kernOf[t]
          <6>1. Kernel(c) = Kernel(t) /\ Kin(c) = Kin(t)
            BY Zenon, <5>1 DEF Kernel, Kin
          <6> QED BY Zenon, <4>3, <6>1
        <5>2. CASE /\ kernOf[c] = c /\ kern[c] = Kernel(t)
                   /\ \A w \in Live : kernOf[w] = kernOf[t] => Blank(pc[w])
          <6>1. Kernel(c) = Kernel(t) /\ \A w \in Kin(c) : w = c
            BY Zenon, <2>2, <5>2 DEF Kernel, Kin
          <6>2. \A w \in Kin(t) : Blank(pc'[w])
            BY Zenon, <1>2, <1>3, <2>13, <5>2 DEF Kin
          <6>3. GroupOK(Table(t).entries, Kernel(t), Kin(c), pc')
            BY Zenon, <2>13, <4>3, <6>1, <6>2, GroupSame
          <6> QED BY Zenon, <6>1, <6>3
        <5> QED BY Zenon, <2>11, <5>1, <5>2
      <4> QED BY Zenon, <2>2, <2>14, <3>2, <4>1, <4>2, <4>4 DEF InOrder
    <3> QED BY Zenon, <3>1, <3>2
  <2> QED BY Zenon, <2>9, <2>10, <2>12, <2>16 DEF KState
<1> QED BY Zenon, <1>4, <1>5 DEF KInv

\* A call that bypasses the table: from then on nothing is claimed.
LEMMA RawKeeps ==
  ASSUME KInv, NEW t \in Task, NEW v, NEW w,
         RawClose(t, v) \/ RawDup(t, v) \/ RawDup2(t, v, w) \/ RawDupFrom(t, v, w)
  PROVE  KInv'
<1>1. Raw(t, v) /\ \E k, f : KernelDrop(t, k) \/ KernelPut(t, k, f)
  BY Zenon DEF RawClose, RawDup, RawDup2, RawDupFrom
<1>2. KernOK /\ disturbed' /\ kernOf' = kernOf /\ pc' = pc
  BY Zenon, <1>1 DEF Raw, KInv, unmoved
<1>3. DOMAIN kern' = Task /\ Live' = Live
  BY Zenon, <1>1, <1>2 DEF KernOK, Live, KernelDrop, KernelPut
<1> QED BY Zenon, <1>2, <1>3 DEF KInv, KernOK

\* At first there is one task, with the standard streams.
LEMMA InitKInv == Init => KInv
<1> SUFFICES ASSUME Init PROVE KInv
  OBVIOUS
<1>1. /\ Live = {First} /\ kernOf \in [Task -> Task \cup {NoTask}] /\ DOMAIN kern = Task
      /\ \A t \in Task : pc[t].at = "idle" /\ arc[t] = NoTask /\ pidOf[t] = t
      /\ kernOf[First] = First /\ Kernel(First) = [k \in 0 .. FirstUser - 1 |-> NoPath]
  BY TaskAssumption DEF Init, Live, Idle, Kernel
<1>2. First \in Task /\ ~Newborn(First) /\ Kin(First) = {First} /\ Table(First) = NewTable
  BY <1>1, TaskAssumption DEF Newborn, Kin, Table
<1>3. KernOK /\ IdsOK /\ ChildrenOK
  BY Zenon, <1>1, <1>2 DEF KernOK, IdsOK, ChildrenOK, Fresh
<1>4. SidesOK
  BY Zenon, <1>1 DEF SidesOK
<1>5. Alone(First)
  BY Zenon, <1>2 DEF Alone
<1>6. GroupOK(NewTable.entries, Kernel(First), {First}, pc)
  <2>1. Blank(pc[First])
    BY Zenon, <1>1, <1>2 DEF Blank
  <2>2. HandlerOK(NewTable.entries, Kernel(First), pc[First]) /\ Owns(pc[First]) = {} /\ Gone(pc[First]) = {}
    BY Zenon, <2>1, BlankIs
  <2>3. UNION {Gone(pc[u]) : u \in {First}} = {} /\ UNION {Owns(pc[u]) : u \in {First}} = {}
    BY <2>2
  <2>4. Whole(NewTable.entries, Kernel(First), {}, {})
    BY <1>1, FdAssumption DEF Whole, EntryOK, Backs, NewTable, Passthrough, NoFd
  <2> QED BY Zenon, <2>2, <2>3, <2>4 DEF GroupOK
<1>7. GroupsOK
  BY Zenon, <1>1, <1>2, <1>5, <1>6 DEF GroupsOK, InOrder
<1> QED BY Zenon, <1>3, <1>4, <1>7 DEF KInv, KState

\* Every step keeps the groups in order, or counts as a disturbance.
LEMMA NextKeeps == SInv /\ KInv /\ [Next]_vars => KInv'
<1> SUFFICES ASSUME SInv, KInv, [Next]_vars, SInv' PROVE KInv'
  BY Zenon, NextStep
<1>1. CASE UNCHANGED vars
  <2>1. /\ kernOf' = kernOf /\ kern' = kern /\ pidOf' = pidOf /\ arc' = arc /\ tables' = tables
        /\ pc' = pc /\ disturbed' = disturbed
    BY Zenon, <1>1 DEF vars
  <2>2. /\ Live' = Live
        /\ \A u : Arc(u)' = Arc(u) /\ Table(u)' = Table(u) /\ Kernel(u)' = Kernel(u) /\ (Fresh(u)' <=> Fresh(u))
    BY Zenon, <2>1 DEF Live, Arc, Table, Kernel, Fresh
  <2>3. \A u : (Newborn(u)' <=> Newborn(u)) /\ Kin(u)' = Kin(u)
    BY Zenon, <2>1, <2>2 DEF Newborn, Kin
  <2>4. KernOK' /\ (IdsOK => IdsOK') /\ (SidesOK => SidesOK')
    BY Zenon, <2>1, <2>2, <2>3 DEF KInv, KernOK, IdsOK, SidesOK
  <2>5. \A u \in Live : InOrder(u) => InOrder(u)'
    BY Zenon, <2>1, <2>2, <2>3 DEF InOrder, Alone
  <2>6. GroupsOK => GroupsOK'
    BY Zenon, <2>2, <2>3, <2>5 DEF GroupsOK
  <2>7. ASSUME NEW q \in Live, ChildOK(q) PROVE ChildOK(q)'
    BY Zenon, <2>1, <2>2, <2>3, <2>7 DEF ChildOK, Fresh
  <2>8. ChildrenOK => ChildrenOK'
    BY Zenon, <2>1, <2>2, <2>7 DEF ChildrenOK
  <2> QED BY Zenon, <2>1, <2>4, <2>6, <2>8 DEF KInv, KState
<1>2. ASSUME NEW t \in Task, NEW p \in Path, OpenVirtual(t, p) \/ handle_openat(t, p) PROVE KInv'
  BY Zenon, <1>2, OpenVirtualKeeps, OpenatKeeps
<1>3. ASSUME NEW t \in Task, handle_socket(t) \/ handle_pipe2(t) \/ OpenPut(t) PROVE KInv'
  BY Zenon, <1>3, SocketKeeps, PipeKeeps, OpenPutKeeps
<1>4. ASSUME NEW t \in Task, NEW v \in Vfd,
             handle_close(t, v) \/ handle_dup(t, v) \/ RawClose(t, v) \/ RawDup(t, v)
      PROVE  KInv'
  BY Zenon, <1>4, CloseKeeps, DupKeeps, RawKeeps
<1>5. ASSUME NEW t \in Task, CloseKernel(t) \/ SpawnPut(t) \/ Exit(t) PROVE KInv'
  BY Zenon, <1>5, CloseKernelKeeps, SpawnPutKeeps, ExitKeeps
<1>6. ASSUME NEW t \in Task, NEW v \in Vfd, NEW w \in Vfd,
             \/ handle_dup2(t, v, w) \/ handle_dup3(t, v, w) \/ RawDup2(t, v, w)
             \/ handle_fcntl(t, v, w) \/ RawDupFrom(t, v, w)
      PROVE  KInv'
  BY Zenon, <1>6, Dup2Keeps, FcntlKeeps, RawKeeps DEF handle_dup2, handle_dup3
<1>7. ASSUME NEW t \in Task, DupKernel(t) \/ DupClose(t) \/ DupPut(t) PROVE KInv'
  BY Zenon, <1>7, DupKernelKeeps, DupCloseKeeps, DupPutKeeps
<1>8. ASSUME NEW t \in Task, NEW c \in Task, NEW x \in BOOLEAN, NEW y \in BOOLEAN,
             \/ handle_fork(t, c) \/ handle_vfork(t, c)
             \/ handle_clone(t, c, x, y) \/ handle_clone3(t, c, x, y)
      PROVE  KInv'
  <2>1. CASE handle_fork(t, c) \/ handle_vfork(t, c)
    BY Zenon, <2>1, SpawnKeeps DEF handle_fork, handle_vfork
  <2>2. CASE handle_clone(t, c, x, y)
    BY Zenon, <2>2, SpawnKeeps DEF handle_clone
  <2>3. CASE handle_clone3(t, c, x, y)
    BY Zenon, <2>3, SpawnKeeps DEF handle_clone3
  <2> QED BY Zenon, <1>8, <2>1, <2>2, <2>3
<1>9. ASSUME NEW t \in Task, NEW ks \in SUBSET Kfd, Exec(t, ks) PROVE KInv'
  BY Zenon, <1>9, ExecKeeps
<1>10. CASE Next
  BY <1>2, <1>3, <1>4, <1>5, <1>6, <1>7, <1>8, <1>9, <1>10, Zenon DEF Next
<1> QED BY Zenon, <1>1, <1>10

\* A group in order is backed.
LEMMA OrderIsBacked ==
  ASSUME KState, NEW t \in Live, ~Newborn(t)
  PROVE  Backed(t)
<1>1. InOrder(t) /\ Sharing(t) = Kin(t)
  BY Zenon, SharingIs DEF KState, GroupsOK
<1> DEFINE es == Table(t).entries
           R == UNION {Gone(pc[u]) : u \in Kin(t)}
           H == UNION {Owns(pc[u]) : u \in Kin(t)}
<1>2. Whole(es, Kernel(t), R, H)
  BY Zenon, <1>1 DEF InOrder, GroupOK
<1>3. Replacing(t) = R
  BY Zenon, <1>1 DEF Replacing, Gone
<1>4. H \subseteq UNION {Held(u) : u \in Sharing(t)}
  BY ZenonT(30), <1>1 DEF Owns, Held
<1>5. {v \in DOMAIN es : es[v].kernel_fd # NoFd} \ Replacing(t) = Backs(es, R)
  BY Zenon, <1>3 DEF Backs
<1> HIDE DEF es, R, H
<1> DEFINE pass == Backs(es, R)
<1>6. /\ \A v \in pass : /\ es[v].kernel_fd \in DOMAIN Kernel(t)
                         /\ Kernel(t)[es[v].kernel_fd] = es[v].path
      /\ \A v, w \in pass : es[v].kernel_fd = es[w].kernel_fd => v = w
      /\ DOMAIN Kernel(t) \subseteq {es[v].kernel_fd : v \in pass} \cup H
  BY Zenon, <1>2 DEF Whole
<1> HIDE DEF pass
<1>7. DOMAIN Kernel(t) \subseteq {es[v].kernel_fd : v \in pass} \cup UNION {Held(u) : u \in Sharing(t)}
  BY Zenon, <1>4, <1>6
<1> QED BY Zenon, <1>5, <1>6, <1>7 DEF Backed, pass, es

\* For any number of tasks and descriptors: behind every descriptor a guest has passed through
\* there is a kernel descriptor of its own, open on the file the entry names, and every kernel
\* descriptor is behind an entry or held by a handler, until one of the disturbances that
\* KernelBacked lists.
THEOREM DescriptorsStayBacked == Spec => []KernelBacked
<1>1. KInv => KernelBacked
  BY Zenon, OrderIsBacked DEF KInv, KernelBacked
<1>2. Init => SInv /\ KInv
  BY Zenon, InitStep, InitKInv
<1>3. SInv /\ KInv /\ [Next]_vars => (SInv /\ KInv)'
  BY Zenon, NextStep, NextKeeps
<1> QED BY <1>1, <1>2, <1>3, PTL DEF Spec

-----------------------------------------------------------------------------
(* Calls on a descriptor, in a state where every group is in order.        *)

\* A caller's entries: virtual ones without a kernel descriptor, the others with their own.
LEMMA CallerIs ==
  ASSUME KInv, ~disturbed, NEW t \in Callers, NEW v \in DOMAIN Table(t).entries
  PROVE  LET e == Table(t).entries[v] IN
         \/ e.kind = "virtual" /\ e.kernel_fd = NoFd
         \/ /\ e.kind = "passthrough" /\ e.kernel_fd \in Nat
            /\ e.kernel_fd \in DOMAIN Kernel(t) /\ Kernel(t)[e.kernel_fd] = e.path
<1>1. KState /\ t \in Live /\ ~Newborn(t) /\ Replacing(t) = {}
  BY Zenon DEF KInv, Callers
<1>2. Backed(t) /\ EntryOK(Table(t).entries[v])
  BY Zenon, <1>1, OrderIsBacked DEF KState, GroupsOK, InOrder, GroupOK, Whole
<1> DEFINE es == Table(t).entries
           pass == {x \in DOMAIN es : es[x].kernel_fd # NoFd} \ Replacing(t)
<1>3. \A x \in pass : /\ es[x].kernel_fd \in DOMAIN Kernel(t)
                      /\ Kernel(t)[es[x].kernel_fd] = es[x].path
  BY Zenon, <1>2 DEF Backed
<1>4. es[v].kernel_fd \in Nat => v \in pass
  BY <1>1 DEF NoFd
<1> HIDE DEF pass
<1> QED BY Zenon, <1>2, <1>3, <1>4 DEF EntryOK

\* Two entries of a caller never have one kernel descriptor.
LEMMA CallersApart ==
  ASSUME KInv, ~disturbed, NEW t \in Callers,
         NEW v \in DOMAIN Table(t).entries, NEW w \in DOMAIN Table(t).entries,
         Translate(Table(t), v) = Translate(Table(t), w), Translate(Table(t), v) # NoFd
  PROVE  v = w
<1>1. KState /\ t \in Live /\ ~Newborn(t) /\ Replacing(t) = {}
  BY Zenon DEF KInv, Callers
<1>2. Backed(t)
  BY Zenon, <1>1, OrderIsBacked
<1> DEFINE es == Table(t).entries
           pass == {x \in DOMAIN es : es[x].kernel_fd # NoFd} \ Replacing(t)
<1>3. \A x, y \in pass : es[x].kernel_fd = es[y].kernel_fd => x = y
  BY Zenon, <1>2 DEF Backed
<1>4. v \in pass /\ w \in pass /\ es[v].kernel_fd = es[w].kernel_fd
  BY Zenon, <1>1 DEF Translate, Has
<1> HIDE DEF pass
<1> QED BY Zenon, <1>3, <1>4

\* Every call that a handler translates reaches the file the guest opened under that number,
\* for any number of tasks and descriptors, until one of the disturbances that KernelBacked
\* lists.
THEOREM CallsReachOwnFile == Spec => []ReachesOwnFile
<1>1. ASSUME KInv PROVE ReachesOwnFile
  <2> SUFFICES ASSUME ~disturbed, NEW t \in Callers, NEW v \in Vfd, Has(Table(t), v)
               PROVE  LET e == Table(t).entries[v] IN
                      IF e.kind = "virtual"
                      THEN \A r \in OnEntry(t, v) : r = ToFileOps(e.path)
                      ELSE \A r \in OnEntry(t, v) \cup OnKernelFd(t, v) :
                             r.to = "kernel" /\ r.fd \in DOMAIN Kernel(t) /\ Kernel(t)[r.fd] = e.path
    BY Zenon DEF ReachesOwnFile
  <2> DEFINE e == Table(t).entries[v]
  <2>1. \/ e.kind = "virtual" /\ e.kernel_fd = NoFd
        \/ /\ e.kind = "passthrough" /\ e.kernel_fd \in Nat
           /\ e.kernel_fd \in DOMAIN Kernel(t) /\ Kernel(t)[e.kernel_fd] = e.path
    BY Zenon, <1>1, CallerIs DEF Has
  <2>2. /\ \A r \in OnEntry(t, v) : r = ByEntry(t, v)
        /\ \A r \in OnKernelFd(t, v) : r = ByTranslate(t, v)
    <3>1. ToKernel(handle_poll(t, <<v>>)[1]) = ByTranslate(t, v)
      BY DEF handle_poll, ByTranslate, ToKernel
    <3> QED
      BY Zenon, <3>1 DEF OnEntry, OnKernelFd, handle_read, handle_write, handle_getdents64,
         handle_fstat, handle_lseek, handle_ioctl, handle_fcntl_other, handle_pread64,
         handle_pwrite64, handle_mmap, handle_readv, handle_writev, handle_sendto,
         handle_connect, handle_getpeername
  <2>3. CASE e.kind = "virtual"
    <3>1. ByEntry(t, v) = ToFileOps(e.path)
      BY Zenon, <2>3 DEF ByEntry
    <3> QED BY Zenon, <2>2, <2>3, <3>1
  <2>4. CASE e.kind # "virtual"
    <3>1. ByEntry(t, v) = ToKernel(e.kernel_fd)
      BY Zenon, <2>4 DEF ByEntry
    <3>2. Translate(Table(t), v) = e.kernel_fd /\ e.kernel_fd # NoFd
      BY <2>1, <2>4 DEF Translate, NoFd
    <3>3. ByTranslate(t, v) = ToKernel(e.kernel_fd)
      BY Zenon, <3>2 DEF ByTranslate
    <3>4. ToKernel(e.kernel_fd).to = "kernel" /\ ToKernel(e.kernel_fd).fd = e.kernel_fd
      BY Zenon DEF ToKernel
    <3> HIDE DEF e
    <3>5. \A r \in OnEntry(t, v) \cup OnKernelFd(t, v) : r = ToKernel(e.kernel_fd)
      BY Zenon, <2>2, <3>1, <3>3
    <3>6. \A r \in OnEntry(t, v) \cup OnKernelFd(t, v) :
            r.to = "kernel" /\ r.fd \in DOMAIN Kernel(t) /\ Kernel(t)[r.fd] = e.path
      BY Zenon, <2>1, <2>4, <3>4, <3>5
    <3> QED BY Zenon, <2>4, <3>6 DEF e
  <2> QED BY Zenon, <2>3, <2>4
<1> QED BY <1>1, InitStep, InitKInv, NextStep, NextKeeps, PTL DEF Spec

\* What translate_to_kernel gives: the kernel descriptors of numbers that were asked about, below
\* the bound that goes with them.
GivenOK(view, asked, n, given) ==
  /\ given.nfds \in Nat
  /\ \A k \in given.set : k # NoFd /\ k < given.nfds /\ \E y \in asked : y < n /\ view[y] = k

\* It does so for any two numbers.
LEMMA GivenIs ==
  ASSUME NEW view, NEW a, NEW b, NEW n,
         view[a] \in Nat \/ view[a] = NoFd, view[b] \in Nat \/ view[b] = NoFd
  PROVE  GivenOK(view, {a, b}, n, translate_to_kernel(view, {a, b}, n))
<1> DEFINE ks == {view[y] : y \in {x \in {a, b} : x < n}} \ {NoFd}
<1>1. \A k \in ks : k \in Nat /\ k # NoFd /\ \E y \in {a, b} : y < n /\ view[y] = k
  BY Zenon
<1>2. \A k, l, m \in ks : k = l \/ l = m \/ k = m
  BY Zenon
<1> HIDE DEF ks
<1>3. ASSUME ks # {} PROVE Largest(ks) \in Nat /\ \A y \in ks : y <= Largest(ks)
  <2>1. \E m \in ks : \A y \in ks : y <= m
    BY <1>1, <1>2, <1>3
  <2>2. Largest(ks) \in ks /\ \A y \in ks : y <= Largest(ks)
    BY Zenon, <2>1 DEF Largest
  <2> QED BY Zenon, <1>1, <2>2
<1>4. /\ translate_to_kernel(view, {a, b}, n).set = ks
      /\ translate_to_kernel(view, {a, b}, n).nfds = (IF ks = {} THEN 0 ELSE Largest(ks)) + 1
  BY Zenon DEF translate_to_kernel, ks
<1> DEFINE given == translate_to_kernel(view, {a, b}, n)
<1> HIDE DEF given
<1>5. given.set = ks /\ given.nfds = (IF ks = {} THEN 0 ELSE Largest(ks)) + 1
  BY Zenon, <1>4 DEF given
<1>6. given.nfds \in Nat /\ \A k \in ks : k < given.nfds
  BY <1>1, <1>3, <1>5
<1> QED BY Zenon, <1>1, <1>5, <1>6 DEF given, GivenOK

\* select answers for exactly the descriptors asked about whose file is ready, whatever other
\* tasks do to a number while it waits, for any number of tasks and descriptors, until one of
\* the disturbances that KernelBacked lists.
THEOREM SelectAnswersExactly == Spec => []SelectExact
<1>1. ASSUME KInv, SInv PROVE SelectExact
  <2> SUFFICES ASSUME ~disturbed, NEW t \in Callers,
                      NEW v \in Vfd, NEW w \in Vfd, NEW k \in Kfd \cup {NoFd}
               PROVE  LET before == View(t)
                          after  == [before EXCEPT ![w] = k]
                          read   == translate_to_kernel(before, {v, w}, v + 1).set
                          write  == translate_to_kernel(before, {w}, v + 1).set
                      IN  \A ready \in [read : SUBSET read, write : SUBSET write] :
                            ready.read \cup ready.write # {} =>
                              LET told == handle_pselect6(before, after, Asked(v, w), v + 1, ready) IN
                              \A s \in {"read", "write"}, x \in Vfd :
                                after[x] = before[x] =>
                                  (x \in told[s] <=> x \in Asked(v, w)[s] /\ x <= v
                                                     /\ before[x] \in ready[s])
    BY Zenon DEF SelectExact
  <2> DEFINE before == View(t)
             after  == [before EXCEPT ![w] = k]
             gr     == translate_to_kernel(before, {v, w}, v + 1)
             gw     == translate_to_kernel(before, {w}, v + 1)
             asked  == Asked(v, w)
  <2>1. ASSUME NEW x \in Vfd
        PROVE  /\ before[x] = Translate(Table(t), x)
               /\ before[x] \in Nat \/ before[x] = NoFd
               /\ before[x] # NoFd => x \in DOMAIN Table(t).entries
    <3>1. before[x] = Translate(Table(t), x)
      BY Zenon DEF View
    <3>2. CASE Has(Table(t), x)
      BY Zenon, <1>1, <3>1, <3>2, CallerIs DEF Translate, Has
    <3>3. CASE ~Has(Table(t), x)
      BY Zenon, <3>1, <3>3 DEF Translate
    <3> QED BY Zenon, <3>1, <3>2, <3>3 DEF Has
  <2>2. \A x, y \in Vfd : before[x] = before[y] /\ before[x] # NoFd => x = y
    BY Zenon, <1>1, <2>1, CallersApart
  <2>3. GivenOK(before, {v, w}, v + 1, gr)
    <3>1. /\ before[v] \in Nat \/ before[v] = NoFd
          /\ before[w] \in Nat \/ before[w] = NoFd
      BY Zenon, <2>1
    <3> HIDE DEF before
    <3> QED BY Zenon, <3>1, GivenIs
  <2>4. GivenOK(before, {w}, v + 1, gw)
    <3>1. {w, w} = {w} /\ (before[w] \in Nat \/ before[w] = NoFd)
      BY Zenon, <2>1
    <3> HIDE DEF before
    <3>2. GivenOK(before, {w, w}, v + 1, translate_to_kernel(before, {w, w}, v + 1))
      BY Zenon, <3>1, GivenIs
    <3> QED BY Zenon, <3>1, <3>2
  <2>5. DOMAIN asked = {"read", "write"} /\ asked["read"] = {v, w} /\ asked["write"] = {w}
    BY DEF Asked
  <2> HIDE DEF before, asked
  <2> SUFFICES ASSUME NEW ready \in [read : SUBSET gr.set, write : SUBSET gw.set],
                      ready.read \cup ready.write # {},
                      NEW s \in {"read", "write"}, NEW x \in Vfd, after[x] = before[x]
               PROVE  x \in handle_pselect6(before, after, asked, v + 1, ready)[s]
                        <=> x \in asked[s] /\ x <= v /\ before[x] \in ready[s]
    BY Zenon DEF before, asked
  <2> DEFINE given == [r \in DOMAIN asked |-> translate_to_kernel(before, asked[r], v + 1)]
             knfds == Largest({given[r].nfds : r \in DOMAIN asked})
  <2>6. given["read"] = gr /\ given["write"] = gw
    BY Zenon, <2>5
  <2>7. knfds \in Nat /\ gr.nfds <= knfds /\ gw.nfds <= knfds
    <3> DEFINE ns == {given[r].nfds : r \in DOMAIN asked}
    <3>0. gr.nfds \in Nat /\ gw.nfds \in Nat
      BY Zenon, <2>3, <2>4 DEF GivenOK
    <3> HIDE DEF given, gr, gw
    <3>1. ns = {gr.nfds, gw.nfds}
      BY <2>5, <2>6
    <3> HIDE DEF ns
    <3>2. \E m \in ns : \A y \in ns : y <= m
      BY <3>0, <3>1
    <3>3. Largest(ns) \in ns /\ \A y \in ns : y <= Largest(ns)
      BY Zenon, <3>2 DEF Largest
    <3> QED BY Zenon, <3>0, <3>1, <3>3 DEF ns
  <2>8. handle_pselect6(before, after, asked, v + 1, ready)[s]
          = {y \in Vfd : y < v + 1 /\ after[y] \in ready[s] /\ after[y] < knfds}
    <3>1. ~(\A r \in DOMAIN asked : ready[r] = {})
      BY Zenon, <2>5
    <3>2. handle_pselect6(before, after, asked, v + 1, ready)
            = [r \in DOMAIN asked |-> translate_to_virtual(after, ready[r], knfds, v + 1)]
      BY Zenon, <3>1 DEF handle_pselect6
    <3> HIDE DEF knfds, after
    <3> QED BY Zenon, <2>5, <3>2 DEF translate_to_virtual
  <2> HIDE DEF knfds, given, after
  <2>9. v \in Int /\ x \in Int /\ (x < v + 1 <=> x <= v)
    BY DEF Vfd
  <2>10. ASSUME before[x] \in ready[s]
         PROVE  before[x] # NoFd /\ before[x] < knfds /\ \E y \in asked[s] : y \in Vfd /\ before[y] = before[x]
    <3>1. CASE s = "read"
      <4>1. before[x] \in gr.set
        BY Zenon, <2>10, <3>1
      <4>2. before[x] < gr.nfds /\ before[x] # NoFd /\ \E y \in asked[s] : y \in Vfd /\ before[y] = before[x]
        BY Zenon, <2>3, <2>5, <3>1, <4>1 DEF GivenOK
      <4>3. gr.nfds \in Nat
        BY Zenon, <2>3 DEF GivenOK
      <4> HIDE DEF gr, gw
      <4> QED BY <2>1, <2>7, <4>2, <4>3
    <3>2. CASE s = "write"
      <4>1. before[x] \in gw.set
        BY Zenon, <2>10, <3>2
      <4>2. before[x] < gw.nfds /\ before[x] # NoFd /\ \E y \in asked[s] : y \in Vfd /\ before[y] = before[x]
        BY Zenon, <2>4, <2>5, <3>2, <4>1 DEF GivenOK
      <4>3. gw.nfds \in Nat
        BY Zenon, <2>4 DEF GivenOK
      <4> HIDE DEF gr, gw
      <4> QED BY <2>1, <2>7, <4>2, <4>3
    <3> QED BY Zenon, <3>1, <3>2
  <2>11. before[x] \in ready[s] => x \in asked[s] /\ before[x] < knfds
    BY Zenon, <2>2, <2>10
  <2> QED BY Zenon, <2>8, <2>9, <2>11
<1> QED BY <1>1, InitStep, InitKInv, NextStep, NextKeeps, PTL DEF Spec
=============================================================================
