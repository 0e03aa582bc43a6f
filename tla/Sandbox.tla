------------------------------ MODULE Sandbox ------------------------------
(***************************************************************************)
(* The ptrace sandbox: every system call of a traced task goes through a   *)
(* handler that replaces virtual descriptors by kernel descriptors and     *)
(* guest paths by host paths, runs the call in the guest (inject) and      *)
(* updates the descriptor table.  Handlers of two tasks interleave at each *)
(* inject: what a handler read from the table before may be stale after.   *)
(*                                                                         *)
(* A task is a process or a thread.  FD_TABLES maps ids to tables; the     *)
(* handlers of a thread use the table of its process.  The kernel's own    *)
(* tables are external: they hand out the least number that is free.       *)
(***************************************************************************)
EXTENDS FdTable, Sequences

CONSTANTS
  Task,      \* thread and process ids
  First,     \* the first traced process
  MaxKfd,    \* the limit on open kernel descriptors (RLIMIT_NOFILE)
  MaxCalls,  \* bound: system calls of the guest that reach a handler
  Path,      \* the absolute guest paths that are used, as sequences of names
  Mount      \* the mounts that are configured, in any order: [root, host, virtual]

NoTask == "none"

ASSUME TaskAssumption == First \in Task /\ NoTask \notin Task

VARIABLES
  mounts,   \* MountTable: the mounts, deepest first
  tables,   \* the FdTable behind each Arc, named after the task it was made for
  arc,      \* FD_TABLES: the table under each id, or NoTask
  kern,     \* the kernel's descriptor tables, [kernel fd -> file]
  kernOf,   \* the kernel table of each live task, or NoTask
  pidOf,    \* the process of each live task
  pc,       \* the handler a task is in, between two injects
  calls,    \* how many system calls have been made
  disturbed \* a hazard listed at `Disturbs` has happened

vars == <<mounts, tables, arc, kern, kernOf, pidOf, pc, calls, disturbed>>

Kfd == 0 .. MaxKfd - 1

Idle == [at |-> "idle"]

-----------------------------------------------------------------------------
(* Mount table                                                             *)

\* MountTable::add_mount: push, then a stable sort, deepest first
AddMount(ms, m) ==
  LET deep    == SelectSeq(ms, LAMBDA x : Len(x.root) >= Len(m.root))
      shallow == SelectSeq(ms, LAMBDA x : Len(x.root) < Len(m.root))
  IN  deep \o <<m>> \o shallow

\* The table after the mounts of a sequence have been added one after the other
AddMounts(ms) ==
  LET added[n \in 0 .. Len(ms)] == IF n = 0 THEN <<>> ELSE AddMount(added[n - 1], ms[n])
  IN  added[Len(ms)]

\* The condition of BindVfs::translate_path.  The root "/" gives the prefix "//", so a
\* mount there covers "/" alone.
Covers(m, p) ==
  \/ p = m.root
  \/ /\ m.root # <<>>
     /\ Len(m.root) <= Len(p) /\ SubSeq(p, 1, Len(m.root)) = m.root

\* BindVfs::translate_path: the host path of a path it covers
HostPath(m, p) == m.host \o SubSeq(p, Len(m.root) + 1, Len(p))

\* MountTable::resolve: the first mount that translates the path, or 0
Resolve(p) ==
  LET hits == {i \in DOMAIN mounts : Covers(mounts[i], p)}
  IN  IF hits = {} THEN 0 ELSE Least(hits)

\* translate_path: the path the kernel is given
translate_path(p) == IF Resolve(p) = 0 THEN p ELSE HostPath(mounts[Resolve(p)], p)

IsVirtual(p) == Resolve(p) # 0 /\ mounts[Resolve(p)].virtual

-----------------------------------------------------------------------------
(* Tables and tasks                                                        *)

Live == {t \in Task : kernOf[t] # NoTask}

\* get_fd_table: the table of the process, a new one if there is none
Arc(t) == IF arc[pidOf[t]] = NoTask THEN pidOf[t] ELSE arc[pidOf[t]]

Table(t) == IF arc[pidOf[t]] = NoTask THEN NewTable ELSE tables[arc[pidOf[t]]]

\* The table and, when it is new, its place in FD_TABLES
SetTable(t, tab) ==
  /\ tables' = [tables EXCEPT ![Arc(t)] = tab]
  /\ arc' = [arc EXCEPT ![pidOf[t]] = Arc(t)]

Kernel(t) == kern[kernOf[t]]

FreeKfd(t) == Kfd \ DOMAIN Kernel(t)

\* The kernel's own table, external: the least free number, or EMFILE
KernelPut(t, k, file) == kern' = [kern EXCEPT ![kernOf[t]] = Insert(@, k, file)]

KernelDrop(t, k) ==
  kern' = [kern EXCEPT ![kernOf[t]] = [x \in DOMAIN @ \ {k} |-> @[x]]]

GoTo(t, at) == pc' = [pc EXCEPT ![t] = at]

At(t, at) == t \in Live /\ pc[t].at = at

\* A system call of t begins: handle_syscall_event
Call(t) == At(t, "idle") /\ calls < MaxCalls /\ calls' = calls + 1

\* Tasks that use the table of t
Sharing(t) == {u \in Live : Arc(u) = Arc(t) \/ kernOf[u] = kernOf[t]}

\* A step of t falls between two steps of a handler of another task that has read the
\* table (dup, dup2, dup3, fcntl) or has still to give t its own table (fork).
Disturbs(t) ==
  \E u \in Live \ {t} :
    \/ u \in Sharing(t) /\ pc[u].at \in {"dup", "dup.close", "dup.put"}
    \/ pc[u].at = "fork.put" /\ (pc[u].child = t \/ u \in Sharing(t))

Calm(t) == disturbed' = (disturbed \/ Disturbs(t))

\* Another task that uses the table of t is in a handler.  A fork now copies the kernel
\* descriptor which that handler has opened and not put in the table yet, or has taken out
\* of the table and not closed yet: the child keeps it, and has no number for it.
Busy(t) == \E u \in Sharing(t) \ {t} : pc[u].at # "idle"

unmoved == <<mounts, kernOf, pidOf>>

-----------------------------------------------------------------------------
(* Descriptors that come from the kernel                                   *)

\* handle_openat of a virtual mount: the VFS opens the file, no kernel descriptor
OpenVirtual(t, p) ==
  /\ Call(t)
  /\ IsVirtual(p)
  /\ ~Exhausted(Table(t))
  /\ SetTable(t, Allocate(Table(t), Virtual(p)))
  /\ Calm(t)
  /\ UNCHANGED <<unmoved, kern, pc>>

\* handle_openat of any other path, to the end of its inject; the host file is named
\* by the guest path, which the entry keeps
handle_openat(t, p) ==
  /\ Call(t)
  /\ ~IsVirtual(p)
  /\ FreeKfd(t) # {}
  /\ LET k == Least(FreeKfd(t)) IN
     /\ KernelPut(t, k, p)
     /\ GoTo(t, [at |-> "open.put", kfds |-> <<k>>, path |-> p])
  /\ Calm(t)
  /\ UNCHANGED <<unmoved, tables, arc>>

\* handle_socket, to the end of its inject; the entry has no path
handle_socket(t) ==
  /\ Call(t)
  /\ FreeKfd(t) # {}
  /\ LET k == Least(FreeKfd(t)) IN
     /\ KernelPut(t, k, NoPath)
     /\ GoTo(t, [at |-> "open.put", kfds |-> <<k>>, path |-> NoPath])
  /\ Calm(t)
  /\ UNCHANGED <<unmoved, tables, arc>>

\* handle_pipe2, to the end of its inject: both ends or neither
handle_pipe2(t) ==
  /\ Call(t)
  /\ \E x, y \in FreeKfd(t) : x # y
  /\ LET k1  == Least(FreeKfd(t))
         k2  == Least(FreeKfd(t) \ {k1})
     IN /\ kern' = [kern EXCEPT ![kernOf[t]] = Insert(Insert(@, k1, NoPath), k2, NoPath)]
        /\ GoTo(t, [at |-> "open.put", kfds |-> <<k1, k2>>, path |-> NoPath])
  /\ Calm(t)
  /\ UNCHANGED <<unmoved, tables, arc>>

\* The end of those handlers: one virtual descriptor for each kernel descriptor
OpenPut(t) ==
  LET Entry(i) == Passthrough(pc[t].kfds[i], pc[t].path)
      one      == Allocate(Table(t), Entry(1))
  IN  /\ At(t, "open.put")
      /\ ~Exhausted(Table(t))
      /\ Len(pc[t].kfds) = 2 => ~Exhausted(one)
      /\ SetTable(t, IF Len(pc[t].kfds) = 1 THEN one ELSE Allocate(one, Entry(2)))
      /\ GoTo(t, Idle)
      /\ Calm(t)
      /\ UNCHANGED <<unmoved, calls, kern>>

-----------------------------------------------------------------------------
(* close                                                                   *)

\* handle_close of a descriptor with an entry; the kernel's close is tail-injected
handle_close(t, v) ==
  /\ Call(t)
  /\ Has(Table(t), v)
  /\ SetTable(t, Deallocate(Table(t), v))
  /\ GoTo(t, IF Translate(Table(t), v) = NoFd THEN Idle
             ELSE [at |-> "close", kfd |-> Translate(Table(t), v)])
  /\ Calm(t)
  /\ UNCHANGED <<unmoved, kern>>

CloseKernel(t) ==
  /\ At(t, "close")
  /\ KernelDrop(t, pc[t].kfd)
  /\ GoTo(t, Idle)
  /\ Calm(t)
  /\ UNCHANGED <<unmoved, calls, tables, arc>>

\* A number that the guest has not open goes to the kernel as it is ("FD not in table, let
\* the original syscall through"), where it may be that of a descriptor behind another
\* entry: the call then changes the kernel's table behind the handlers' back.
Raw(t, v) ==
  /\ Call(t)
  /\ v \in DOMAIN Kernel(t)
  /\ disturbed' = TRUE
  /\ UNCHANGED <<unmoved, tables, arc, pc>>

RawClose(t, v) == Raw(t, v) /\ ~Has(Table(t), v) /\ KernelDrop(t, v)

-----------------------------------------------------------------------------
(* dup, dup2, dup3 and fcntl(F_DUPFD): the entry is read, the kernel       *)
(* descriptor duplicated, the one it replaces closed, the new entry made   *)

\* dup of a number without an entry: the copy has none either.
RawDup(t, v) ==
  /\ Raw(t, v)
  /\ ~Has(Table(t), v)
  /\ FreeKfd(t) # {}
  /\ KernelPut(t, Least(FreeKfd(t)), Kernel(t)[v])

\* dup2 and dup3: the kernel closes and replaces whatever it has under the new number.
RawDup2(t, v, w) ==
  /\ Raw(t, v)
  /\ ~Has(Table(t), v)
  /\ w \in Kfd \ {v}
  /\ KernelPut(t, w, Kernel(t)[v])

\* fcntl(F_DUPFD): a virtual file has no kernel descriptor, and its number goes to the
\* kernel too.
RawDupFrom(t, v, min) ==
  LET free == {k \in FreeKfd(t) : k >= min} IN
  /\ Raw(t, v)
  /\ Translate(Table(t), v) = NoFd
  /\ free # {}
  /\ KernelPut(t, Least(free), Kernel(t)[v])

\* What such a handler holds between two steps: the kernel descriptor it will put in the
\* table, the path, the guest's two numbers, the kernel descriptor it has to close.
InDup(at, op, kfd, path, old, new, shut) ==
  [at |-> at, op |-> op, kfd |-> kfd, path |-> path, old |-> old, new |-> new, shut |-> shut]

Onwards(c, at, kfd) == InDup(at, c.op, kfd, c.path, c.old, c.new, c.shut)

\* handle_dup: of a virtual file in one step, else to its inject
handle_dup(t, old) ==
  LET e == Table(t).entries[old] IN
  /\ Call(t)
  /\ Has(Table(t), old)
  /\ IF e.kind = "virtual"
     THEN /\ ~Exhausted(Table(t))
          /\ SetTable(t, Allocate(Table(t), e))
          /\ UNCHANGED pc
     ELSE /\ GoTo(t, InDup("dup", "dup", e.kernel_fd, e.path, old, NoFd, NoFd))
          /\ UNCHANGED <<tables, arc>>
  /\ Calm(t)
  /\ UNCHANGED <<unmoved, kern>>

\* handle_dup2 and handle_dup3, which differ in the flags alone, to their first inject.
\* The entry that is replaced is read here.
Dup2From(t, old, new) ==
  LET tab  == Table(t)
      e    == tab.entries[old]
      shut == Translate(tab, new)
  IN  /\ Call(t)
      /\ Has(tab, old)
      /\ IF e.kind = "virtual" /\ shut = NoFd
         THEN /\ SetTable(t, AllocateAt(tab, new, e))
              /\ UNCHANGED pc
         ELSE /\ GoTo(t, InDup(IF e.kind = "virtual" THEN "dup.close" ELSE "dup",
                               "dup2", e.kernel_fd, e.path, old, new, shut))
              /\ UNCHANGED <<tables, arc>>
      /\ Calm(t)
      /\ UNCHANGED <<unmoved, kern>>

handle_dup2(t, old, new) == Dup2From(t, old, new)

handle_dup3(t, old, new) == Dup2From(t, old, new)

\* handle_fcntl with F_DUPFD and F_DUPFD_CLOEXEC, to its inject
handle_fcntl(t, old, min) ==
  /\ Call(t)
  /\ Translate(Table(t), old) # NoFd
  /\ GoTo(t, InDup("dup", "fcntl", Translate(Table(t), old), NoPath, old, min, NoFd))
  /\ Calm(t)
  /\ UNCHANGED <<unmoved, tables, arc, kern>>

\* The inject of dup: the copy has the least free number, whatever number the guest
\* asked for.  A failure ends the handler.
DupKernel(t) ==
  LET k == pc[t].kfd IN
  /\ At(t, "dup")
  /\ IF k \notin DOMAIN Kernel(t) \/ FreeKfd(t) = {}
     THEN GoTo(t, Idle) /\ UNCHANGED kern
     ELSE LET n == Least(FreeKfd(t)) IN
          /\ KernelPut(t, n, Kernel(t)[k])
          /\ GoTo(t, Onwards(pc[t], IF pc[t].shut = NoFd THEN "dup.put" ELSE "dup.close", n))
  /\ Calm(t)
  /\ UNCHANGED <<unmoved, calls, tables, arc>>

\* Mutant of DupClose: what the new number stood for stays open in the kernel.
DupNoClose(t) ==
  /\ At(t, "dup.close")
  /\ GoTo(t, Onwards(pc[t], "dup.put", pc[t].kfd))
  /\ Calm(t)
  /\ UNCHANGED <<unmoved, calls, tables, arc, kern>>

\* The inject of close for the entry that dup2 and dup3 replace; EBADF ends the handler.
DupClose(t) ==
  /\ At(t, "dup.close")
  /\ IF pc[t].shut \in DOMAIN Kernel(t)
     THEN KernelDrop(t, pc[t].shut) /\ GoTo(t, Onwards(pc[t], "dup.put", pc[t].kfd))
     ELSE GoTo(t, Idle) /\ UNCHANGED kern
  /\ Calm(t)
  /\ UNCHANGED <<unmoved, calls, tables, arc>>

\* The new entry: allocate, allocate_min or allocate_at.  fcntl reads the path only now.
DupPut(t) ==
  LET c   == pc[t]
      tab == Table(t)
      e   == IF c.kfd = NoFd THEN Virtual(c.path)
             ELSE IF c.op = "fcntl"
             THEN Passthrough(c.kfd, IF Has(tab, c.old) THEN tab.entries[c.old].path ELSE NoPath)
             ELSE Passthrough(c.kfd, c.path)
  IN  /\ At(t, "dup.put")
      /\ CASE c.op = "dup"   -> ~Exhausted(tab) /\ SetTable(t, Allocate(tab, e))
           [] c.op = "fcntl" -> /\ AtLeast(tab, c.new) # {}
                                /\ SetTable(t, AllocateMin(tab, c.new, e))
           [] OTHER          -> SetTable(t, AllocateAt(tab, c.new, e))
      /\ GoTo(t, Idle)
      /\ Calm(t)
      /\ UNCHANGED <<unmoved, calls, kern>>

-----------------------------------------------------------------------------
(* Processes and threads                                                   *)

\* Ids are not used a second time.
Unborn ==
  {c \in Task : /\ kernOf[c] = NoTask /\ arc[c] = NoTask /\ c # First
                /\ \A u \in Task : pc[u].at = "fork.put" => pc[u].child # c}

\* The kernel's clone, external.  files: CLONE_FILES, the kernel table is shared;
\* thread: CLONE_THREAD, which needs files.  share: what the handler does when the
\* inject has returned.
Spawn(t, c, files, thread, share) ==
  /\ Call(t)
  /\ c \in Unborn
  /\ kernOf' = [kernOf EXCEPT ![c] = IF files THEN kernOf[t] ELSE c]
  /\ kern' = IF files THEN kern ELSE [kern EXCEPT ![c] = Kernel(t)]
  /\ pidOf' = [pidOf EXCEPT ![c] = IF thread THEN pidOf[t] ELSE c]
  /\ GoTo(t, [at |-> "fork.put", child |-> c, share |-> share])
  /\ disturbed' = (\/ disturbed \/ Disturbs(t)
                   \/ ~files /\ Busy(t)
                   \/ files /\ ~thread /\ ~share)
  /\ UNCHANGED <<mounts, tables, arc>>

handle_fork(t, c) == Spawn(t, c, FALSE, FALSE, FALSE)

handle_vfork(t, c) == Spawn(t, c, FALSE, FALSE, FALSE)

handle_clone(t, c, files, thread) == (thread => files) /\ Spawn(t, c, files, thread, files)

\* handle_clone3 does not look at CLONE_FILES and always copies: of a process that shares
\* its descriptors the kernel then has one table and the sandbox two.
handle_clone3(t, c, files, thread) == (thread => files) /\ Spawn(t, c, files, thread, FALSE)

\* insert_fd_table for the child, of the same table or of a deep clone, under its own id
SpawnPut(t) ==
  LET c == pc[t].child IN
  /\ At(t, "fork.put")
  /\ arc' = [arc EXCEPT ![pidOf[t]] = Arc(t), ![c] = IF pc[t].share THEN Arc(t) ELSE c]
  /\ tables' = IF pc[t].share THEN [tables EXCEPT ![Arc(t)] = Table(t)]
               ELSE [tables EXCEPT ![Arc(t)] = Table(t), ![c] = Table(t)]
  /\ GoTo(t, Idle)
  /\ Calm(t)
  /\ UNCHANGED <<unmoved, calls, kern>>

\* Execve is passed through: the kernel closes the descriptors marked close-on-exec (which
\* ones is left open), the table stays.
Exec(t, marked) ==
  /\ Call(t)
  /\ \A u \in Live \ {t} : kernOf[u] # kernOf[t]
  /\ marked \subseteq DOMAIN Kernel(t) \ 0 .. FirstUser - 1
  /\ kern' = [kern EXCEPT ![kernOf[t]] = [k \in DOMAIN @ \ marked |-> @[k]]]
  /\ disturbed' = (disturbed \/ Disturbs(t) \/ marked # {})
  /\ UNCHANGED <<unmoved, tables, arc, pc>>

\* Exit and exit_group are passed through: FD_TABLES keeps the table.
Exit(t) ==
  /\ Call(t)
  /\ t # First
  /\ kernOf' = [kernOf EXCEPT ![t] = NoTask]
  /\ kern' = IF \E u \in Live \ {t} : kernOf[u] = kernOf[t] THEN kern
             ELSE [kern EXCEPT ![kernOf[t]] = <<>>]
  /\ Calm(t)
  /\ UNCHANGED <<mounts, pidOf, tables, arc, pc>>

-----------------------------------------------------------------------------
Init ==
  /\ \E ms \in [1 .. Cardinality(Mount) -> Mount] :
       /\ \A m \in Mount : \E i \in DOMAIN ms : ms[i] = m
       /\ mounts = AddMounts(ms)
  /\ tables = [t \in Task |-> NewTable]
  /\ arc = [t \in Task |-> NoTask]
  /\ kern = [t \in Task |-> IF t = First
                THEN [k \in 0 .. FirstUser - 1 |-> NoPath]
                ELSE <<>>]
  /\ kernOf = [t \in Task |-> IF t = First THEN t ELSE NoTask]
  /\ pidOf = [t \in Task |-> t]
  /\ pc = [t \in Task |-> Idle]
  /\ calls = 0
  /\ disturbed = FALSE

Next ==
  \E t \in Task :
    \/ \E p \in Path : OpenVirtual(t, p) \/ handle_openat(t, p)
    \/ handle_socket(t) \/ handle_pipe2(t)
    \/ OpenPut(t)
    \/ \E v \in Vfd :
         \/ handle_close(t, v) \/ RawClose(t, v) \/ handle_dup(t, v) \/ RawDup(t, v)
    \/ CloseKernel(t)
    \/ \E v, w \in Vfd :
         \/ handle_dup2(t, v, w) \/ handle_dup3(t, v, w) \/ RawDup2(t, v, w)
         \/ handle_fcntl(t, v, w) \/ RawDupFrom(t, v, w)
    \/ DupKernel(t) \/ DupClose(t) \/ DupPut(t)
    \/ \E c \in Task : handle_fork(t, c) \/ handle_vfork(t, c)
    \/ \E c \in Task, x, y \in BOOLEAN : handle_clone(t, c, x, y) \/ handle_clone3(t, c, x, y)
    \/ SpawnPut(t)
    \/ \E ks \in SUBSET Kfd : Exec(t, ks)
    \/ Exit(t)

Spec == Init /\ [][Next]_vars

-----------------------------------------------------------------------------
\* The request a handler is serving
Pending(c) ==
  CASE c.at = "open.put" -> <<"open", Len(c.kfds)>>
    [] c.at \in {"dup", "dup.close", "dup.put"} ->
         (CASE c.op = "dup"   -> <<"open", 1>>
            [] c.op = "fcntl" -> <<"from", c.new>>
            [] OTHER          -> <<"at", c.new>>)
    [] OTHER -> <<"none", 0>>

\* The tables seen as the descriptors that are open in them, the handlers as requests
OpenFds == [t \in Task |-> tables[t].entries]

Requests == [t \in Task |-> Pending(pc[t])]

Posix ==
  INSTANCE PosixFds WITH Actor <- Task, Lowest <- FirstUser, fds <- OpenFds, req <- Requests

\* The tables behave as POSIX asks of descriptors from FirstUser on: a new one is the least
\* of those that are free (of all that are free from a bound on, for fcntl), dup2 replaces
\* exactly its target, close frees exactly its argument, fork copies, and the number of a
\* standard descriptor that was closed comes back through dup2 and fcntl only (allocate,
\* deallocate).  This holds whatever the interleaving of the handlers.
ActsAsPosix == Posix!Spec

PosixStrict ==
  INSTANCE PosixFds WITH Actor <- Task, Lowest <- 0, fds <- OpenFds, req <- Requests

\* "This uses the lowest available FD number, as required by POSIX" (FdTable::allocate):
\* numbers of standard descriptors that were closed are available too.
LowestAvailable == PosixStrict!Spec

\* Whatever the tasks do, and however their handlers interleave, the heap of every table
\* holds exactly the closed numbers below next_vfd.
FreeExact == \A t \in Task : HeapExact(tables[t])

\* Kernel descriptors that a handler holds and no entry names yet or any more.
Holds(c) ==
  CASE c.at = "open.put"                  -> {c.kfds[i] : i \in DOMAIN c.kfds}
    [] c.at = "close"                     -> {c.kfd}
    [] c.at \in {"dup.close", "dup.put"}  -> {c.kfd}
    [] OTHER                              -> {}

Held(t) == Holds(pc[t])

\* The numbers whose kernel descriptor a dup2 has closed and whose entry it still has to replace.
Replacing(t) ==
  {pc[u].new : u \in {w \in Sharing(t) : pc[w].at = "dup.put" /\ pc[w].shut # NoFd}}

\* A child whose parent has not yet inserted its table.
Newborn(t) == \E u \in Live : pc[u].at = "fork.put" /\ pc[u].child = t

Backed(t) ==
  LET es == Table(t).entries
      pass == {v \in DOMAIN es : es[v].kernel_fd # NoFd} \ Replacing(t)
  IN  /\ \A v \in pass : /\ es[v].kernel_fd \in DOMAIN Kernel(t)
                         /\ Kernel(t)[es[v].kernel_fd] = es[v].path
      /\ \A v, w \in pass : es[v].kernel_fd = es[w].kernel_fd => v = w
      /\ DOMAIN Kernel(t) \subseteq
           {es[v].kernel_fd : v \in pass} \cup UNION {Held(u) : u \in Sharing(t)}

\* Behind every descriptor of the guest is a kernel descriptor of its own that is open
\* on the file the entry names, and no kernel descriptor is lost: in every task, at
\* every inject, as long as no call on a number that is not open hit a kernel descriptor,
\* no exec closed one, no clone3 shared the kernel's table, no step fell into the window of
\* a dup or fork, and no fork into that of any handler.
KernelBacked ==
  disturbed \/ \A t \in Live : Newborn(t) \/ Backed(t)
=============================================================================
