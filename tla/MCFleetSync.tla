---------------------------- MODULE MCFleetSync ----------------------------
(***************************************************************************)
(* FleetSync with two deployments of one provider or of one each, two      *)
(* threads of a session and a command line, of which at most Busy are      *)
(* under way at once.                                                      *)
(***************************************************************************)
EXTENDS FleetSync, Naturals, TLC

CONSTANTS a1, a2, p, q, Busy

OneProvider == [a \in Apps |-> p]

OneEach == a1 :> p @@ a2 :> q

FewBusy == Cardinality({t \in Threads : pc[t] # "idle"}) <= Busy

Alike == Permutations(Apps) \cup Permutations(Tui)

\* The deployments change places together with their providers.
AlikeInPairs == Permutations(Tui) \cup
    {a1 :> a2 @@ a2 :> a1 @@ p :> q @@ q :> p}

=============================================================================
