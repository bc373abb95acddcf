--------------------------- MODULE MCDurableJobs ---------------------------
(***************************************************************************)
(* DurableJobs with two targets, a ladder that falls back from the first   *)
(* to the second, and a plain deployment of the second.                    *)
(***************************************************************************)
EXTENDS DurableJobs, TLC

CONSTANTS k1, k2

Fallback == <<k1, k2>>
TwoLadders == {Fallback, <<k2>>}
OneLadder == {Fallback}

\* A worker that is through keeps nothing the properties ask for, but its
\* outcome; a session's locals are dead outside the steps that use them.
LiveWorker(w) ==
    CASE wpc[w] \in {"off", "gone"} -> <<wpc[w]>>
      [] wpc[w] = "zombie" -> <<wpc[w]>>
      [] wpc[w] \in {"read", "probe", "claim", "enter"} -> <<wpc[w], wjob[w]>>
      [] wpc[w] \in {"check", "attempt", "deploy"} -> <<wpc[w], wjob[w], base[w], at[w]>>
      [] OTHER -> <<wpc[w], wjob[w], base[w], at[w], plan[w], clears[w]>>

LiveSession(s) ==
    CASE spc[s] = "idle" -> <<"idle">>
      [] spc[s] \in {"cancel", "spawn"} -> <<spc[s], sjob[s]>>
      [] spc[s] = "reconcile" -> <<spc[s], snap[s]>>
      [] spc[s] = "import" -> <<spc[s], todo[s]>>
      [] spc[s] \in {"adopt", "clear"} -> <<spc[s], sjob[s], todo[s]>>
      [] OTHER -> <<spc[s]>>

\* Nobody looks at the placements of a job that ended and that no worker or
\* session has in hand.
Closed(j) ==
    /\ status[j] \in Terminal
    /\ \A w \in Workers : wjob[w] = j => ~ InHand(w) /\ wpc[w] # "clear"
    /\ \A s \in Sessions : sjob[s] = j => spc[s] # "clear"

Row(j) ==
    IF Closed(j) THEN <<status[j], pid[j]>>
    ELSE <<status[j], pid[j], ladder[j], cfg[j], cancelReq[j]>>

View == <<[j \in Jobs |-> Row(j)], launched, journal,
          [w \in Workers |-> LiveWorker(w)], [s \in Sessions |-> LiveSession(s)]>>

Alike == Permutations(Jobs) \cup Permutations(Workers) \cup Permutations(Sessions)

=============================================================================
