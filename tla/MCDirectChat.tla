---------------------------- MODULE MCDirectChat ----------------------------
(***************************************************************************)
(* Instances of DirectChat for TLC.  In the safety runs a clock has run    *)
(* out one tick after its start (NudgeLimit = 0), in the live one it never *)
(* does; setList's reading of the clock may lag by one tick.               *)
(***************************************************************************)
EXTENDS DirectChat, TLC

CONSTANTS alice, bob

MCUsers == {alice, bob}
\* The two users play the same part; so do screens, calls and taps.
MCSymmetry == Permutations(Routes) \union Permutations(Calls)
                \union Permutations(MCUsers)
=============================================================================
