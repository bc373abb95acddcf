---------------------------- MODULE MCLifecycle ----------------------------
(***************************************************************************)
(* Lifecycle over every ladder of up to MaxPlacements placements.          *)
(***************************************************************************)
EXTENDS Lifecycle

CONSTANT MaxPlacements

\* Only Prime looks at keep.
Offered == {p \in Placements : p.keep => p.provider = "prime"}

\* Every sequence of them, whatever the retries approved.
AllLadders == UNION {[1 .. n -> Offered] : n \in 1 .. MaxPlacements}

=============================================================================
