-------------------------- MODULE MCGroupMembership --------------------------
(***************************************************************************)
(* Instances of GroupMembership for TLC: an admin with two friends.        *)
(***************************************************************************)
EXTENDS GroupMembership

CONSTANTS A, B, C           \* users: A makes the group

MCFriends == <<B, C>>
=============================================================================
