---------------------------- MODULE MCVastRental ----------------------------
(***************************************************************************)
(* VastRental with a deploying worker's thread w1 and a session's thread   *)
(* s1, in a process each or in one.                                        *)
(***************************************************************************)
EXTENDS VastRental, TLC

CONSTANTS w1, s1, worker, session

OneEach == w1 :> worker @@ s1 :> session

OneProcess == w1 :> worker @@ s1 :> worker

\* The locals of a call that has returned are dead, except for what the
\* properties ask of its verdict.
LiveLocals(t) ==
    CASE pc[t] # "idle" ->
            <<pc[t], nm[t], lab[t], known[t],
              IF pc[t] \in Destroying THEN mode[t] ELSE "stop",
              asked[t], seen[t], verdict[t]>>
      [] pc[t] = "idle" /\ verdict[t] = "confirmed" -> <<"confirmed", lab[t]>>
      [] pc[t] = "idle" /\ verdict[t] = "stopped" -> <<"stopped", seen[t]>>
      [] OTHER -> <<"idle">>

View == <<inst, rented, record, lock, active, cancelled, shutting,
          [t \in Threads |-> LiveLocals(t)]>>

Alike == Permutations(Labels)

=============================================================================
