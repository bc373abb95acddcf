----------------------------- MODULE MCIdleStop -----------------------------
(***************************************************************************)
(* IdleStop with windows of a few polls.                                   *)
(***************************************************************************)
EXTENDS IdleStop, TLC

=============================================================================
