---------------------------- MODULE Permissions ----------------------------
(***************************************************************************)
(* Roles and the permission flags each one carries.  A PermissionFlags     *)
(* record is the set of the flags that are set.                            *)
(***************************************************************************)

Roles == {"Viewer", "Builder", "TrustedBuilder", "Owner"}

builderFlags == {"canEdit", "canDelete", "canLock", "canRequestSave"}

permissionsForRole(r) ==
  CASE r = "Viewer" -> {}
    [] r = "Builder" -> builderFlags
    [] r = "TrustedBuilder" -> builderFlags \cup {"canSave"}
    [] r = "Owner" -> builderFlags \cup {"canSave", "canInvite"}
=============================================================================
