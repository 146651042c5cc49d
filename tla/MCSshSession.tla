---------------------------- MODULE MCSshSession ----------------------------
(***************************************************************************)
(* SshSession as it is: its constants are a choice of the options and two  *)
(* bounds.  MCSshSession.cfg has three things come from outside, in any    *)
(* order, and two mosh sessions; the other two show a violation each.      *)
(***************************************************************************)
EXTENDS SshSession
=============================================================================
