---------------------------- MODULE MCInboxList ----------------------------
(***************************************************************************)
(* A phone that two accounts use, each with the same peers.                *)
(***************************************************************************)
EXTENDS InboxList, TLC

MCSymmetry == Permutations(Accounts) \union Permutations(Peers)
=============================================================================
