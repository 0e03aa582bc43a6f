------------------------------ MODULE MCSteps ------------------------------
(***************************************************************************)
(* NamespaceSteps for TLC.  Names and clients are interchangeable.         *)
(***************************************************************************)
EXTENDS NamespaceSteps, TLC

\* Nothing is said of what follows a race: it is not explored.
Explored == ~raced

Symmetry == Permutations(Name) \cup Permutations(Client)
=============================================================================
