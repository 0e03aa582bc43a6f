----------------------------- MODULE MCOverlay -----------------------------
(***************************************************************************)
(* The overlay for TLC: a host directory with a subdirectory that has a    *)
(* file, a file, and the directory the overlay is mounted on.              *)
(***************************************************************************)
EXTENDS OverlayMount

ModeDef == {}

HostNode(kind, data, nlink, born) ==
  [kind |-> kind, perm |-> ModeDef, uid |-> 1, gid |-> 1, nlink |-> nlink, data |-> data,
   born |-> born]

HostDef ==
  [node   |-> 1 :> HostNode("dir", 0, 4, 0) @@ 2 :> HostNode("dir", 0, 2, 1)
              @@ 3 :> HostNode("reg", 1, 1, 2) @@ 4 :> HostNode("reg", 2, 1, 3)
              @@ 5 :> HostNode("dir", 0, 2, 4),
   dent   |-> <<1, "a">> :> 2 @@ <<2, "a">> :> 3 @@ <<1, "b">> :> 4 @@ <<1, "m">> :> 5,
   next   |-> 6,
   births |-> 5]

OrderDef == <<"a", "b", "m">>

NamesDef == {"a", "b"}

WarmDef == <<<<"a">>, <<"b">>, <<"a", "a">>>>
=============================================================================
