------------------------------ MODULE FdTable ------------------------------
(***************************************************************************)
(* The file descriptor table of the ptrace sandbox (vfs/fdtable.rs): what  *)
(* the mutex of FdTable protects, and its methods as operators on that     *)
(* value.  A descriptor of the guest is virtual; its entry says which      *)
(* kernel descriptor stands behind it, or that a FileOps object does.      *)
(*                                                                         *)
(* free_fds is a heap and may in principle hold a number twice: it is a    *)
(* bag, the number of copies of each descriptor.                           *)
(***************************************************************************)
EXTENDS Integers, FiniteSets

CONSTANTS
  FirstUser,  \* FIRST_USER_FD
  MaxFd       \* i32::MAX: descriptors are below it

ASSUME FdAssumption ==
  /\ FirstUser \in Nat /\ MaxFd \in Nat
  /\ FirstUser <= MaxFd

NoFd == -1

\* Option<PathBuf>::None: a socket, a pipe or a standard descriptor
NoPath == <<"-">>

Vfd == 0 .. MaxFd - 1

UserVfd == FirstUser .. MaxFd - 1

\* The least element of a non-empty set of numbers.
Least(S) == CHOOSE x \in S : \A y \in S : x <= y

\* FdEntry::Passthrough and FdEntry::Virtual.  The flags are kept and never looked at.
Passthrough(k, path) == [kind |-> "passthrough", kernel_fd |-> k, path |-> path]

Virtual(path) == [kind |-> "virtual", kernel_fd |-> NoFd, path |-> path]

\* FdTable::new
NewTable ==
  [entries  |-> [v \in 0 .. FirstUser - 1 |-> Passthrough(v, NoPath)],
   next_vfd |-> FirstUser,
   free_fds |-> [v \in UserVfd |-> 0]]

Insert(entries, v, e) ==
  [x \in DOMAIN entries \cup {v} |-> IF x = v THEN e ELSE entries[x]]

InHeap(t) == {v \in UserVfd : t.free_fds[v] > 0}

\* The number `allocate` chooses: the least of the heap, else next_vfd, else a gap.
Pick(t) ==
  IF InHeap(t) # {}
  THEN Least(InHeap(t))
  ELSE IF t.next_vfd < MaxFd
       THEN t.next_vfd
       ELSE Least(UserVfd \ DOMAIN t.entries)

\* "File descriptor table exhausted": the tracer panics.
Exhausted(t) ==
  InHeap(t) = {} /\ t.next_vfd = MaxFd /\ UserVfd \subseteq DOMAIN t.entries

\* FdTable::allocate, the table it leaves
Allocate(t, e) ==
  LET v == Pick(t) IN
  [entries  |-> Insert(t.entries, v, e),
   next_vfd |-> IF InHeap(t) = {} /\ t.next_vfd < MaxFd THEN t.next_vfd + 1
                ELSE t.next_vfd,
   free_fds |-> IF InHeap(t) = {} THEN t.free_fds
                ELSE [t.free_fds EXCEPT ![v] = @ - 1]]

\* v is taken out of the heap and its entry set; the numbers skipped between next_vfd
\* and v become free.
Claim(t, v, e) ==
  LET skipped == {x \in UserVfd : t.next_vfd <= x /\ x < v /\ x \notin DOMAIN t.entries}
  IN  [entries  |-> Insert(t.entries, v, e),
       next_vfd |-> IF v >= t.next_vfd THEN v + 1 ELSE t.next_vfd,
       free_fds |-> [x \in UserVfd |->
                       IF x = v THEN 0
                       ELSE IF x \in skipped THEN t.free_fds[x] + 1
                       ELSE t.free_fds[x]]]

AtLeast(t, min) == {v \in Vfd : v >= min /\ v \notin DOMAIN t.entries}

\* Mutant of PickMin: numbers that were closed are used only when no other is left.
PickMinNew(t, min) ==
  LET unused == {v \in AtLeast(t, min) : v >= t.next_vfd}
  IN  Least(IF unused = {} THEN AtLeast(t, min) ELSE unused)

\* FdTable::allocate_min: the number, and the table
PickMin(t, min) == Least(AtLeast(t, min))

AllocateMin(t, min, e) == Claim(t, PickMin(t, min), e)

\* FdTable::allocate_at
AllocateAt(t, v, e) == Claim(t, v, e)

\* FdTable::get: whether there is an entry
Has(t, v) == v \in DOMAIN t.entries

\* FdTable::translate
Translate(t, v) == IF Has(t, v) THEN t.entries[v].kernel_fd ELSE NoFd

\* Mutant of Deallocate: the number is not given back.
Forget(t, v) ==
  [t EXCEPT !.entries = [x \in DOMAIN t.entries \ {v} |-> t.entries[x]]]

\* FdTable::deallocate of a descriptor that has an entry
Deallocate(t, v) ==
  [entries  |-> [x \in DOMAIN t.entries \ {v} |-> t.entries[x]],
   next_vfd |-> t.next_vfd,
   free_fds |-> IF v >= FirstUser THEN [t.free_fds EXCEPT ![v] = @ + 1]
                ELSE t.free_fds]

-----------------------------------------------------------------------------
\* The numbers below next_vfd that have no entry are in the heap, once each, and no
\* other number is: so `allocate` reuses every closed descriptor, never hands out one
\* that is open, and finds the least.
HeapExact(t) ==
  /\ \A v \in UserVfd :
       t.free_fds[v] = IF v < t.next_vfd /\ v \notin DOMAIN t.entries THEN 1 ELSE 0
  /\ \A v \in DOMAIN t.entries : v < t.next_vfd
=============================================================================
