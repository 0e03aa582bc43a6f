--------------------------- MODULE NfsPermissions ---------------------------
(***************************************************************************)
(* cli/src/nfsserve/permissions.rs: what the credentials of an NFS call,   *)
(* [uid, gid, gids], may do with a file of given attributes.  Permission   *)
(* bits are a set: "ur" is S_IRUSR, "suid" 0o4000, "sgid" 0o2000 and       *)
(* "sticky" S_ISVTX.                                                       *)
(***************************************************************************)
EXTENDS Naturals

SetId == {"suid", "sgid"}

is_in_group(auth, gid) == auth.gid = gid \/ gid \in auth.gids

\* The class of the caller picks the bits: owner before group before others.
ClassBit(auth, attr, r, g, o) ==
  IF auth.uid = attr.uid THEN r ELSE IF is_in_group(auth, attr.gid) THEN g ELSE o

\* Mutant of check_permission: any class that grants is enough.
check_permission_any(auth, attr, r, g, o) ==
  auth.uid = 0 \/ attr.perm \cap {r, g, o} # {}

check_permission(auth, attr, r, g, o) ==
  auth.uid = 0 \/ ClassBit(auth, attr, r, g, o) \in attr.perm

can_read(auth, attr) == check_permission(auth, attr, "ur", "gr", "or")

can_write(auth, attr) == check_permission(auth, attr, "uw", "gw", "ow")

can_execute(auth, attr) == check_permission(auth, attr, "ux", "gx", "ox")

can_modify_directory(auth, dir) == can_write(auth, dir) /\ can_execute(auth, dir)

can_delete_entry(auth, dir, entry) ==
  /\ can_modify_directory(auth, dir)
  /\ "sticky" \in dir.perm => auth.uid \in {0, dir.uid, entry.uid}

is_owner(auth, attr) == auth.uid \in {0, attr.uid}

\* compute_access: the requested bits of ACCESS that are granted
compute_access(auth, attr, requested) ==
  {b \in requested :
     \/ b = "READ" /\ can_read(auth, attr)
     \/ b = "LOOKUP" /\ attr.kind = "dir" /\ can_execute(auth, attr)
     \/ b \in {"MODIFY", "EXTEND"} /\ can_write(auth, attr)
     \/ b = "DELETE" /\ attr.kind = "dir" /\ can_write(auth, attr)
     \/ b = "EXECUTE" /\ attr.kind # "dir" /\ can_execute(auth, attr)}
=============================================================================
