---------------------------- MODULE MCMoshNonces ----------------------------
(***************************************************************************)
(* MoshNonces with blocks of two numbers, so a run crosses several         *)
(* reservations, stops and restarts within a few packets.                  *)
(***************************************************************************)
EXTENDS MoshNonces
=============================================================================
