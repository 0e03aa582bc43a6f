------------------------------ MODULE PosixFds ------------------------------
(***************************************************************************)
(* What a descriptor table promises, without how the free numbers are      *)
(* found: each table is a map from open descriptors to what they stand     *)
(* for, and a task has a request that a later step serves.                 *)
(*                                                                         *)
(* With Lowest = 0 this is POSIX: open, dup and pipe return the least      *)
(* number that is free.  A larger Lowest is weaker: the standard           *)
(* descriptors below it, once closed, are not handed out again.            *)
(***************************************************************************)
EXTENDS Integers

CONSTANTS
  Actor,      \* tasks, and the tables, which are named after them
  FirstUser,  \* descriptors below it are open from the start
  Lowest,     \* descriptors below it are handed out by number only
  MaxFd       \* descriptors are below it

VARIABLES
  fds,  \* the open descriptors of each table
  req   \* the request of each task: <<kind, number>>

Fd == 0 .. MaxFd - 1

NoReq == <<"none", 0>>

Request ==
  {NoReq, <<"open", 1>>, <<"open", 2>>} \cup ({"from", "at"} \X Fd)

\* The free descriptors from a bound on
Free(f, min) == {v \in Fd : v >= min /\ v \notin DOMAIN f}

IsLeast(v, S) == v \in S /\ \A w \in S : v <= w

\* g is f with the descriptors of S open, on anything, and no other one touched.
Opens(f, g, S) ==
  /\ DOMAIN g = DOMAIN f \cup S
  /\ \A w \in DOMAIN f \ S : g[w] = f[w]

\* What a request makes of a table
Served(r, f, g) ==
  \/ /\ r = <<"open", 1>>
     /\ \E v \in Fd : IsLeast(v, Free(f, Lowest)) /\ Opens(f, g, {v})
  \/ /\ r = <<"open", 2>>
     /\ \E v, w \in Fd : /\ IsLeast(v, Free(f, Lowest))
                         /\ IsLeast(w, Free(f, Lowest) \ {v})
                         /\ Opens(f, g, {v, w})
  \/ /\ r[1] = "from"
     /\ \E v \in Fd : IsLeast(v, Free(f, r[2])) /\ Opens(f, g, {v})
  \/ /\ r[1] = "at"
     /\ Opens(f, g, {r[2]})

-----------------------------------------------------------------------------
\* A task asks for a descriptor: open, socket, dup (one), pipe (two), fcntl from a bound,
\* dup2 at a number.
Ask(t) ==
  /\ req[t] = NoReq
  /\ \E r \in Request : req' = [req EXCEPT ![t] = r]
  /\ UNCHANGED fds

\* The request fails: the kernel has no descriptor left, or the file is gone.
Drop(t) ==
  /\ req' = [req EXCEPT ![t] = NoReq]
  /\ UNCHANGED fds

Serve(t, i) ==
  /\ Served(req[t], fds[i], fds'[i])
  /\ fds' = [fds EXCEPT ![i] = fds'[i]]
  /\ req' = [req EXCEPT ![t] = NoReq]

\* A file without a kernel descriptor is opened at once, at the least number ...
OpenNow(i) ==
  /\ \E v \in Fd : IsLeast(v, Free(fds[i], Lowest)) /\ Opens(fds[i], fds'[i], {v})
  /\ fds' = [fds EXCEPT ![i] = fds'[i]]
  /\ UNCHANGED req

\* ... and copied over another descriptor at once
ReplaceNow(i) ==
  /\ \E v \in Fd, old \in DOMAIN fds[i] :
       Opens(fds[i], fds'[i], {v}) /\ fds'[i][v] = fds[i][old]
  /\ fds' = [fds EXCEPT ![i] = fds'[i]]
  /\ UNCHANGED req

Close(i) ==
  /\ \E v \in DOMAIN fds[i] : fds' = [fds EXCEPT ![i] = [w \in DOMAIN @ \ {v} |-> @[w]]]
  /\ UNCHANGED req

\* fork: the child starts with the descriptors of its parent
Copy(i, j) ==
  /\ fds' = [fds EXCEPT ![j] = fds[i]]
  /\ UNCHANGED req

Init ==
  /\ \A i \in Actor : DOMAIN fds[i] = 0 .. FirstUser - 1
  /\ req = [t \in Actor |-> NoReq]

Next ==
  \/ \E t \in Actor : Ask(t) \/ Drop(t)
  \/ \E t, i \in Actor : Serve(t, i) \/ Copy(t, i)
  \/ \E i \in Actor : OpenNow(i) \/ ReplaceNow(i) \/ Close(i)

Spec == Init /\ [][Next]_<<fds, req>>
=============================================================================
