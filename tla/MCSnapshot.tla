----------------------------- MODULE MCSnapshot -----------------------------
(* Model-checking instance of Snapshot: a dentry and the root inode row of    *)
(* one volume.                                                                *)
EXTENDS Snapshot, TLC

CONSTANTS dentry, root

MCRow == {dentry, root}
MCTableIx == [r \in Row |-> IF r = root THEN 4 ELSE 1]

\* A disable is followed to its end among the writes of sessions, not when a snapshot is
\* committed or restored at the same time.
PurgesApart ==
  \A d \in Purger : disabling[d] > 0 =>
    ~restore.on /\ \A c \in Request : ~commits[c].on

Sym == Permutations(Session) \cup Permutations(Request) \cup Permutations(Label)
=============================================================================
