---------------------------- MODULE SandboxCalls ----------------------------
(***************************************************************************)
(* What the sandbox turns the arguments of a system call into: the kernel  *)
(* descriptor for a virtual one, the host path for a guest path, the       *)
(* kernel's directory descriptor for the guest's.  These handlers leave    *)
(* the tables of Sandbox alone; they are operators of its state, and the   *)
(* properties compare them in every state that is reached.                 *)
(***************************************************************************)
EXTENDS Sandbox

CONSTANT Probe   \* guest paths that are passed to calls, as sequences of names

AtCwd == -100

\* Where a call goes: to the kernel with a descriptor, or to the FileOps of a path
ToKernel(k) == [to |-> "kernel", fd |-> k, path |-> NoPath]

ToFileOps(p) == [to |-> "fileops", fd |-> NoFd, path |-> p]

-----------------------------------------------------------------------------
(* Calls on a descriptor                                                   *)

\* Handlers that look at the entry; without one the number goes to the kernel as it is.
ByEntry(t, v) ==
  IF ~Has(Table(t), v) THEN ToKernel(v)
  ELSE IF Table(t).entries[v].kind = "virtual" THEN ToFileOps(Table(t).entries[v].path)
  ELSE ToKernel(Table(t).entries[v].kernel_fd)

handle_read(t, v) == ByEntry(t, v)

handle_write(t, v) == ByEntry(t, v)

handle_getdents64(t, v) == ByEntry(t, v)

handle_fstat(t, v) == ByEntry(t, v)

handle_lseek(t, v) == ByEntry(t, v)

\* Handlers that only translate: the number of a virtual file goes to the kernel too.
ByTranslate(t, v) ==
  ToKernel(IF Translate(Table(t), v) = NoFd THEN v ELSE Translate(Table(t), v))

\* Mutant of handle_ioctl: the number is not translated.
handle_ioctl_raw(t, v) == ToKernel(v)

handle_ioctl(t, v) == ByTranslate(t, v)

handle_fcntl_other(t, v) == ByTranslate(t, v)

handle_pread64(t, v) == ByTranslate(t, v)

handle_pwrite64(t, v) == ByTranslate(t, v)

handle_mmap(t, v) == ByTranslate(t, v)

handle_readv(t, v) == ByTranslate(t, v)

handle_writev(t, v) == ByTranslate(t, v)

handle_sendto(t, v) == ByTranslate(t, v)

handle_connect(t, v) == ByTranslate(t, v)

handle_getpeername(t, v) == ByTranslate(t, v)

\* The largest element of a non-empty set of numbers.
Largest(S) == CHOOSE x \in S : \A y \in S : y <= x

\* The kernel descriptor behind each number of t, as FdTable::translate gives it
View(t) == [v \in Vfd |-> Translate(Table(t), v)]

\* fdset::translate_to_kernel
translate_to_kernel(view, vset, nfds) ==
  LET ks == {view[v] : v \in {w \in vset : w < nfds}} \ {NoFd}
  IN  [set |-> ks, nfds |-> (IF ks = {} THEN 0 ELSE Largest(ks)) + 1]

\* Mutant of translate_to_virtual: kernel numbers are taken for virtual ones.
translate_none(view, kset, knfds, nfds) == {v \in kset : v < nfds}

\* fdset::translate_to_virtual.  What the guest asked about is not looked at.
translate_to_virtual(view, kset, knfds, nfds) ==
  {v \in Vfd : v < nfds /\ view[v] \in kset /\ view[v] < knfds}

\* handle_pselect6: the sets the guest is left with, of those it passed (`asked`, up to three
\* of them).  The table is read before the call blocks and again after it: `before` and
\* `after`.  `ready` is what the kernel finds ready; when that is nothing, or the call
\* fails, the guest's sets are not written.
handle_pselect6(before, after, asked, nfds, ready) ==
  LET given == [s \in DOMAIN asked |-> translate_to_kernel(before, asked[s], nfds)]
      knfds == Largest({given[s].nfds : s \in DOMAIN asked})
  IN  IF \A s \in DOMAIN asked : ready[s] = {} THEN asked
      ELSE [s \in DOMAIN asked |-> translate_to_virtual(after, ready[s], knfds, nfds)]

\* handle_poll: the descriptors the kernel polls, in the guest's order
handle_poll(t, vs) == [i \in DOMAIN vs |-> ByTranslate(t, vs[i]).fd]

-----------------------------------------------------------------------------
(* Calls on a path.  A path is [abs, names]; the kernel gets [dirfd, path].*)

Abs(ns) == [abs |-> TRUE, names |-> ns]

Rel(ns) == [abs |-> FALSE, names |-> ns]

Given(d, p) == [dirfd |-> d, path |-> p]

\* A relative path is under no mount.
Mounted(p) == p.abs /\ Resolve(p.names) # 0

HostOf(p) == IF Mounted(p) THEN Abs(translate_path(p.names)) ELSE p

\* Mutant of openat_args: the guest's directory descriptor is passed on.
openat_same(t, d, p) == Given(IF p.abs THEN AtCwd ELSE d, HostOf(p))

\* handle_openat: the directory is translated for a relative path only.  (A virtual
\* directory becomes a path, for its VFS.)
openat_args(t, d, p) ==
  Given(IF p.abs THEN AtCwd
        ELSE IF d = AtCwd \/ Translate(Table(t), d) = NoFd THEN d
        ELSE Translate(Table(t), d),
        HostOf(p))

\* handle_fstatat, the form of the call on ARM: only a virtual mount is looked up
handle_fstatat(t, d, p) ==
  Given(IF p.abs THEN AtCwd
        ELSE IF d = AtCwd \/ Translate(Table(t), d) = NoFd THEN d
        ELSE Translate(Table(t), d),
        p)

\* Handlers that take the path only
handle_access(p) == HostOf(p)

handle_rename(old, new) == <<HostOf(old), HostOf(new)>>

handle_unlink(p) == HostOf(p)

handle_rmdir(p) == HostOf(p)

handle_chdir(p) == HostOf(p)

handle_statfs(p) == HostOf(p)

handle_readlink(p) == HostOf(p)

handle_symlink(linkpath) == HostOf(linkpath)

handle_llistxattr(p) == HostOf(p)

handle_lgetxattr(p) == HostOf(p)

\* Handlers that act for the working directory only and pass on any other call
handle_unlinkat(d, p) == IF d = AtCwd THEN Given(d, HostOf(p)) ELSE Given(d, p)

handle_chmod(d, p) == IF d = AtCwd THEN Given(d, HostOf(p)) ELSE Given(d, p)

\* Handlers that translate the directory and the path, each if it can be
DirAndPath(t, d, p) ==
  Given(IF d = AtCwd \/ Translate(Table(t), d) = NoFd THEN d ELSE Translate(Table(t), d),
        HostOf(p))

handle_faccessat(t, d, p) == DirAndPath(t, d, p)

handle_faccessat2(t, d, p) == DirAndPath(t, d, p)

handle_fchownat(t, d, p) == DirAndPath(t, d, p)

\* Handlers that replace the call when the path is under a mount and otherwise pass it
\* on as it is, the directory included
IfMounted(t, d, p) == IF Mounted(p) THEN DirAndPath(t, d, p) ELSE Given(d, p)

handle_statx(t, d, p) == IfMounted(t, d, p)

handle_newfstatat(t, d, p) == IfMounted(t, d, p)

handle_readlinkat(t, d, p) == IfMounted(t, d, p)

handle_symlinkat(t, d, linkpath) == IfMounted(t, d, linkpath)

\* handle_linkat: one mounted path is enough to replace the call
handle_linkat(t, d1, p1, d2, p2) ==
  IF Mounted(p1) \/ Mounted(p2)
  THEN <<DirAndPath(t, d1, p1), DirAndPath(t, d2, p2)>>
  ELSE <<Given(d1, p1), Given(d2, p2)>>

-----------------------------------------------------------------------------
(* dispatch_syscall, by what a call takes                                  *)

OnEntry(t, v) ==
  {handle_read(t, v), handle_write(t, v), handle_getdents64(t, v), handle_fstat(t, v),
   handle_lseek(t, v)}

OnKernelFd(t, v) ==
  {handle_ioctl(t, v), handle_fcntl_other(t, v), handle_pread64(t, v), handle_pwrite64(t, v),
   handle_mmap(t, v), handle_readv(t, v), handle_writev(t, v), handle_sendto(t, v),
   handle_connect(t, v), handle_getpeername(t, v), ToKernel(handle_poll(t, <<v>>)[1])}

OnPath(t, p) ==
  {handle_access(p), handle_unlink(p), handle_rmdir(p), handle_chdir(p), handle_statfs(p),
   handle_readlink(p), handle_symlink(p), handle_llistxattr(p), handle_lgetxattr(p)}
    \cup {handle_rename(p, p)[i] : i \in 1 .. 2}

AtDir(t, d, p) ==
  {openat_args(t, d, p), handle_faccessat(t, d, p), handle_faccessat2(t, d, p),
   handle_fchownat(t, d, p)}

AtCalls(t, d, p) ==
  {handle_statx(t, d, p), handle_newfstatat(t, d, p), handle_readlinkat(t, d, p),
   handle_symlinkat(t, d, p), handle_unlinkat(d, p), handle_chmod(d, p)}
     \cup {handle_linkat(t, d, p, d, p)[i] : i \in 1 .. 2}

-----------------------------------------------------------------------------
\* The tasks that may make a call
Callers == {t \in Live : pc[t] = Idle /\ ~Newborn(t) /\ Replacing(t) = {}}

\* A call that a handler translates reaches the file the guest opened under that number:
\* read, write, getdents64, fstat and lseek of a virtual file its FileOps, and of any other
\* file these and the calls of OnKernelFd a kernel descriptor that is open on it.  (Nothing
\* is said of the calls that pass a number to the kernel as the guest gave it: those of
\* OnKernelFd on a virtual file, and the directory of statx, newfstatat, readlinkat,
\* symlinkat and linkat for a path that is under no mount.)
ReachesOwnFile ==
  disturbed \/
  \A t \in Callers, v \in Vfd :
    Has(Table(t), v) =>
      LET e == Table(t).entries[v] IN
      IF e.kind = "virtual"
      THEN \A r \in OnEntry(t, v) : r = ToFileOps(e.path)
      ELSE \A r \in OnEntry(t, v) \cup OnKernelFd(t, v) :
             r.to = "kernel" /\ r.fd \in DOMAIN Kernel(t) /\ Kernel(t)[r.fd] = e.path

\* What a task asks of select: number v, and another one in two sets
Asked(v, w) == [read |-> {v, w}, write |-> {w}]

\* select, when it finds something ready, reports of every number which no other task closed
\* or replaced while the call waited exactly whether the guest asked about it, in that set,
\* and its file is ready: two numbers never share a kernel descriptor, so none answers for
\* another, and the bound the kernel is given for all sets cuts none short.  (Meanwhile any
\* number w may come to stand for another kernel descriptor, or for none.)
SelectExact ==
  disturbed \/
  \A t \in {u \in Callers : calls < MaxCalls} :
    \A v, w \in Vfd, k \in Kfd \cup {NoFd} :
      LET before == View(t)
          after  == [before EXCEPT ![w] = k]
          read   == translate_to_kernel(before, {v, w}, v + 1).set
          write  == translate_to_kernel(before, {w}, v + 1).set
      IN  \A ready \in [read : SUBSET read, write : SUBSET write] :
            ready.read \cup ready.write # {} =>
              LET told == handle_pselect6(before, after, Asked(v, w), v + 1, ready) IN
              \A s \in {"read", "write"}, x \in Vfd :
                after[x] = before[x] =>
                  (x \in told[s] <=> x \in Asked(v, w)[s] /\ x <= v /\ before[x] \in ready[s])

\* One guest path is one host path, for whichever of the calls of OnPath, AtDir and AtCalls
\* it is passed to, and that path is given by the deepest mount that covers it.  (The mounts
\* are those the guest started with.  Two calls pass the guest's path to the kernel as it
\* is: execve, and handle_fstatat, the form of the call on ARM, which looks for virtual
\* mounts only.)
OneHostPath ==
  \A ns \in Probe :
    LET p == Abs(ns) IN
    /\ ~IsVirtual(ns) =>
         /\ \A r \in OnPath(First, p) : r = HostOf(p)
         /\ \A r \in AtDir(First, AtCwd, p) \cup AtCalls(First, AtCwd, p) :
              r = Given(AtCwd, HostOf(p))
    /\ \A i \in DOMAIN mounts :
         (/\ mounts[i].root # <<>> /\ Len(mounts[i].root) <= Len(ns)
          /\ \A k \in DOMAIN mounts[i].root : ns[k] = mounts[i].root[k]) =>
           Resolve(ns) # 0 /\ Len(mounts[Resolve(ns)].root) >= Len(mounts[i].root)

\* A guest's path leads where the guest means: an absolute one to its one host path, and
\* one relative to a directory the guest has open, in open, faccessat and fchownat, to
\* the kernel descriptor behind that directory.
PathsTranslated ==
  /\ calls = 0 => OneHostPath
  /\ \/ disturbed
     \/ \A t \in Callers, v \in Vfd :
          Translate(Table(t), v) # NoFd =>
            \A r \in AtDir(t, v, Rel(<<"a">>)) :
              r.dirfd \in DOMAIN Kernel(t) /\ Kernel(t)[r.dirfd] = Table(t).entries[v].path
=============================================================================
