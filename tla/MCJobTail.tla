----------------------------- MODULE MCJobTail -----------------------------
(***************************************************************************)
(* JobTail with a log longer than one read returns.                        *)
(***************************************************************************)
EXTENDS JobTail, TLC

=============================================================================
