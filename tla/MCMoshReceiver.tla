--------------------------- MODULE MCMoshReceiver ---------------------------
(***************************************************************************)
(* MoshReceiver with a screen of a few lines, so that few states make      *)
(* screens that scroll and screens that are drawn anew, and few received   *)
(* states, so that the tree is cut while changes from an old state are on  *)
(* the way.                                                                *)
(***************************************************************************)
EXTENDS MoshReceiver
=============================================================================
