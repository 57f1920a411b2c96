--------------------------- MODULE MCVoiceMessages ---------------------------
(***************************************************************************)
(* A chat with two own voice messages and one of the peer's.               *)
(***************************************************************************)
EXTENDS VoiceMessages, TLC

MCSymmetry == Permutations(Own) \union Permutations(Clips \ Own)
==============================================================================
