---------------------------- MODULE MCPrimeDisks ----------------------------
(***************************************************************************)
(* PrimeDisks with two threads and two disks.                              *)
(***************************************************************************)
EXTENDS PrimeDisks, TLC

Alike == Permutations(Disks) \cup Permutations(Threads)

\* What a thread has of a change or a list that is over, and what is said of disks
\* that bill no more, no action and no property reads.
Live ==
    <<disk, attached, file, pc, cur, snap,
      [t \in Threads |->
          IF pc[t] \in Changing THEN <<verb[t], after[t]>> ELSE <<>>],
      [t \in Threads |->
          IF \/ pc[t] \in {"try", "list", "prune"}
             \/ pc[t] \in Changing /\ after[t] \in {"try", "prune"}
          THEN todo[t] ELSE {}],
      [S \in {1, 2, 3, 4} |->
          Billing \cap <<stranded, dropped, omitted, torn>>[S]]>>

=============================================================================
