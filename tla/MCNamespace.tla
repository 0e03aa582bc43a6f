----------------------------- MODULE MCNamespace -----------------------------
(***************************************************************************)
(* Namespace for TLC.                                                      *)
(***************************************************************************)
EXTENDS Namespace, TLC

\* Steps are followed up to the first path operation on a name that only the cache has,
\* with one such name, one open handle and links of directories miscounted by one at
\* most.
Explored ==
  /\ ~strayed
  /\ Cardinality(ghosts) <= 1
  /\ Cardinality(open) <= 1
  /\ \A d \in DOMAIN drift : drift[d] \in -1 .. 1

Symmetry == Permutations(Name)
=============================================================================
