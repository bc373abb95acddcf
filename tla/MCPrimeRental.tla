--------------------------- MODULE MCPrimeRental ---------------------------
(***************************************************************************)
(* PrimeRental with two threads, a deployment and a stop or two of each,   *)
(* and two pods.                                                           *)
(***************************************************************************)
EXTENDS PrimeRental, TLC

=============================================================================
