------------------------------- MODULE MCFuse -------------------------------
(***************************************************************************)
(* Two names, the owner, root and another user; mounts of the volume, and  *)
(* of the database's root with the options that make the dispatcher refuse *)
(* users, and with a pair of options that exclude each other.              *)
(***************************************************************************)
EXTENDS Fuse

MCNames == <<"a", "b">>

MCOptions ==
  [options : {{"auto_unmount"}, {"allow_root"}}, uid : {"owner"}]
    \cup [options : {{"allow_root", "allow_other"}}, uid : {"root"}]
=============================================================================
