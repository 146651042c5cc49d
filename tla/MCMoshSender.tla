---------------------------- MODULE MCMoshSender ----------------------------
(***************************************************************************)
(* MoshSender with a queue of three sent states, blocks of two numbers and *)
(* one restart, so that a few inputs cross a cull, a new reservation and a *)
(* journal read back.                                                      *)
(***************************************************************************)
EXTENDS MoshSender
=============================================================================
