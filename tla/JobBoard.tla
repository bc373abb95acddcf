------------------------------ MODULE JobBoard ------------------------------
(***************************************************************************)
(* What the table of jobs tells everybody who reads it, whichever workers  *)
(* and sessions write it (job_store.py, docstring of reconcile_workers():  *)
(* "A live pid is trusted -- only the worker may end its own job").        *)
(***************************************************************************)
CONSTANTS Jobs, Workers, NoWorker

VARIABLES
    state,     \* each job's status
    owner,     \* the worker that claimed it, or NoWorker
    asked,     \* the jobs somebody asked to cancel
    life       \* each worker's process: "unborn", "living" or "gone"

bvars == <<state, owner, asked, life>>

Outcomes == {"succeeded", "failed", "cancelled"}
Ended == Outcomes \cup {"interrupted"}

Init ==
    /\ state = [j \in Jobs |-> "none"]
    /\ owner = [j \in Jobs |-> NoWorker]
    /\ asked = {}
    /\ life = [w \in Workers |-> "unborn"]

OwnerLives(j) == owner[j] \in Workers /\ life[owner[j]] = "living"

\* Nobody cancels a job that nobody asked to cancel.
Becomes(j, s) ==
    /\ s = "cancelled" => j \in asked
    /\ state' = [state EXCEPT ![j] = s]

Post(j) ==
    /\ state[j] = "none"
    /\ Becomes(j, "pending")
    /\ UNCHANGED <<owner, asked, life>>

\* A job is claimed once, by a worker that has no other, and not after a request to
\* cancel it.
Claim(j, w) ==
    /\ state[j] = "pending" /\ j \notin asked
    /\ life[w] = "living" /\ \A i \in Jobs : owner[i] # w
    /\ Becomes(j, "running")
    /\ owner' = [owner EXCEPT ![j] = w]
    /\ UNCHANGED <<asked, life>>

\* A job that was never claimed is cancelled, or was taken from the journal.
Dismiss(j) ==
    /\ state[j] = "pending"
    /\ \E s \in {"cancelled", "interrupted"} : Becomes(j, s)
    /\ UNCHANGED <<owner, asked, life>>

\* The owner records the outcome, once.
Record(j) ==
    /\ state[j] = "running" /\ OwnerLives(j)
    /\ \E s \in Outcomes : Becomes(j, s)
    /\ UNCHANGED <<owner, asked, life>>

\* The job of a dead owner is called interrupted, or what a worker that took it over
\* makes of it; it does not run again.
Overrule(j) ==
    /\ state[j] \in {"running"} \cup Ended
    /\ owner[j] \in Workers /\ life[owner[j]] = "gone"
    /\ \E s \in Ended : Becomes(j, s)
    /\ UNCHANGED <<owner, asked, life>>

Ask(j) ==
    /\ state[j] # "none"
    /\ asked' = asked \cup {j}
    /\ UNCHANGED <<state, owner, life>>

Appear(w) ==
    /\ life[w] = "unborn"
    /\ life' = [life EXCEPT ![w] = "living"]
    /\ UNCHANGED <<state, owner, asked>>

Vanish(w) ==
    /\ life[w] = "living"
    /\ life' = [life EXCEPT ![w] = "gone"]
    /\ UNCHANGED <<state, owner, asked>>

Next ==
    \/ \E j \in Jobs : Post(j) \/ Dismiss(j) \/ Record(j) \/ Overrule(j) \/ Ask(j)
    \/ \E j \in Jobs, w \in Workers : Claim(j, w)
    \/ \E w \in Workers : Appear(w) \/ Vanish(w)

Spec == Init /\ [][Next]_bvars
=============================================================================
