------------------------------- MODULE HostFs -------------------------------
(***************************************************************************)
(* HostFS (hostfs_linux.rs): a directory of the host as a filesystem.  It  *)
(* gives every host file it meets a number of its own and keeps an O_PATH  *)
(* descriptor of it until the kernel has forgotten the number.             *)
(*                                                                         *)
(* Host is the directory, a value of FsOps whose numbers stand for the     *)
(* host's (device, inode) pairs; it does not change.  The cache is         *)
(* [src, cnt, num, next]: the host file and the lookup count of every      *)
(* number (inodes), the number of every host file (src_to_ino) and the     *)
(* next number.  Only what the overlay calls is here: it reads its base    *)
(* and never writes to it, and nothing else uses HostFS.                   *)
(*                                                                         *)
(* A call returns [err, h, ino]: "Ok", "None" or the error, the cache it   *)
(* leaves, and the number it found.                                        *)
(***************************************************************************)
EXTENDS Naturals, Sequences, FiniteSets, SequencesExt

CONSTANTS Host,        \* the host's directory
          Mountpoint,  \* the host inode the overlay is mounted on, 0 if it is elsewhere
          Order        \* every name, sorted

Fs == INSTANCE FsOps

ROOT_INO == 1

Got(h, i) == [err |-> "Ok", h |-> h, ino |-> i]

Not(h, e) == [err |-> e, h |-> h, ino |-> 0]

\* new: the root has its number and a count of one.
new == [src  |-> ROOT_INO :> Fs!ROOT_INO,
        cnt  |-> ROOT_INO :> 1,
        num  |-> Fs!ROOT_INO :> ROOT_INO,
        next |-> 2]

\* get_or_create_inode: a known file is counted once more, another gets a number.
get_or_create_inode(h, s) ==
  IF s \in DOMAIN h.num /\ h.num[s] \in DOMAIN h.src
  THEN Got([h EXCEPT !.cnt[h.num[s]] = @ + 1], h.num[s])
  ELSE Got([src  |-> Fs!Insert(h.src, h.next, s),
            cnt  |-> Fs!Insert(h.cnt, h.next, 1),
            num  |-> Fs!Insert(h.num, s, h.next),
            next |-> h.next + 1], h.next)

get_inode_fd(h, i) == IF i \in DOMAIN h.src THEN h.src[i] ELSE 0

\* lookup: nothing is seen inside or at the mountpoint.
lookup(h, p, n) ==
  LET dir == get_inode_fd(h, p)
      s   == Fs!lookup_child(Host, dir, n)
  IN  IF dir = 0 THEN Not(h, "NotFound")
      ELSE IF dir = Mountpoint THEN Not(h, "None")
      ELSE IF ~Fs!IsDir(Host, dir) THEN Not(h, "NotADirectory")
      ELSE IF s \in {0, Mountpoint} THEN Not(h, "None")
      ELSE get_or_create_inode(h, s)

\* getattr and readlink; Host.node[h.src[ino]] is what they return.
getattr(h, i) == IF get_inode_fd(h, i) = 0 THEN Not(h, "None") ELSE Got(h, i)

readlink(h, i) ==
  IF get_inode_fd(h, i) = 0 THEN Not(h, "None")
  ELSE IF Host.node[h.src[i]].kind # "lnk" THEN Not(h, "NotASymlink")
  ELSE Got(h, i)

\* open_real_fd for a directory fails on anything else.
readdir_error(h, i) ==
  IF get_inode_fd(h, i) = 0 THEN "None"
  ELSE IF ~Fs!IsDir(Host, h.src[i]) THEN "NotADirectory" ELSE "Ok"

\* readdir: the names, that of the mountpoint included
readdir(h, i) == Fs!readdir_plus(Host, h.src[i], Order)

\* readdir_plus: every entry but the mountpoint's is given its number.  Returns the
\* cache and the number of each name.
readdir_plus(h, i) ==
  FoldLeft(LAMBDA acc, n :
             LET s == Fs!lookup_child(Host, h.src[i], n)
                 r == get_or_create_inode(acc.h, s)
             IN  IF s = Mountpoint THEN acc
                 ELSE [h |-> r.h, num |-> Fs!Insert(acc.num, n, r.ino)],
           [h |-> h, num |-> <<>>], readdir(h, i))

\* open for reading, and pread of the whole file
open(h, i) == IF get_inode_fd(h, i) = 0 THEN Not(h, "NotFound") ELSE Got(h, i)

pread(h, i) == Host.node[h.src[i]].data

\* Mutant of forget: a number with no lookup left stays.
forget_late(h, i, n) ==
  IF i = ROOT_INO \/ i \notin DOMAIN h.src THEN h
  ELSE IF h.cnt[i] < n
  THEN [h EXCEPT !.src = Fs!Delete(@, i), !.cnt = Fs!Delete(@, i), !.num = Fs!Delete(@, h.src[i])]
  ELSE [h EXCEPT !.cnt[i] = @ - n]

\* forget: the number and its descriptor go when no lookup is left.
forget(h, i, n) ==
  IF i = ROOT_INO \/ i \notin DOMAIN h.src THEN h
  ELSE IF h.cnt[i] <= n
  THEN [h EXCEPT !.src = Fs!Delete(@, i), !.cnt = Fs!Delete(@, i), !.num = Fs!Delete(@, h.src[i])]
  ELSE [h EXCEPT !.cnt[i] = @ - n]
=============================================================================
