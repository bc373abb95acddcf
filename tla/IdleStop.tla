------------------------------ MODULE IdleStop ------------------------------
(***************************************************************************)
(* Ending an idle rental: the script of core/idle_watchdog.py, which runs  *)
(* on the rented machine, and the process of core/local_watchdog.py, which *)
(* runs on the user's computer where the machine may not hold the account's*)
(* key.                                                                    *)
(*                                                                         *)
(* Both look at the counters of the runtime once per POLL and destroy the  *)
(* machine when nothing was served for the idle window.  Time is counted   *)
(* in polls.  What the watch believes, the age of last_active, is kept     *)
(* beside what is true, the time since anything was served: requests come  *)
(* at any time, looks at the counters fail, and a computer sleeps.         *)
(***************************************************************************)
EXTENDS Naturals

CONSTANTS
    Idle,       \* the idle window, idle_seconds, in polls
    Grace,      \* STARTUP_GRACE_SECONDS in polls
    Attempts    \* how often destroy() tries, 30 in the script

ASSUME WindowAssumption ==
    /\ Idle \in Nat \ {0}
    /\ Grace \in Nat
    /\ Attempts \in Nat \ {0}

VARIABLES
    guard,      \* where the watch runs
    machine,    \* whether the rental exists
    serving,    \* whether the model has come up
    inflight,   \* whether a request is being served
    moved,      \* whether the counters differ from last_counters
    quiet,      \* polls since anything was served
    pc,         \* where the watch is
    healthy,    \* whether the runtime has ever answered it
    age,        \* now - started, while it has not
    idle,       \* now - last_active
    tries,      \* failed attempts to destroy
    blind       \* whether its last look at the counters failed (history)

world == <<machine, serving, inflight, moved, quiet>>
vars  == <<guard, machine, serving, inflight, moved, quiet, pc, healthy, age,
           idle, tries, blind>>

TypeOK ==
    /\ guard \in {"machine", "computer"}
    /\ machine \in {"up", "gone"}
    /\ serving \in BOOLEAN
    /\ inflight \in BOOLEAN
    /\ moved \in BOOLEAN
    /\ quiet \in 0 .. Idle
    /\ pc \in {"poll", "sleep", "destroy", "again", "ended"}
    /\ healthy \in BOOLEAN
    /\ age \in 0 .. Grace
    /\ idle \in 0 .. Idle
    /\ tries \in 0 .. Attempts
    /\ blind \in BOOLEAN

\* The script starts with a Vast instance, or on a Prime pod that serves; the
\* process on the computer starts when the pod serves (_start_prime_idle_shutdown).
Init ==
    /\ guard \in {"machine", "computer"}
    /\ machine = "up"
    /\ serving \in BOOLEAN
    /\ guard = "computer" => serving
    /\ inflight = FALSE
    /\ moved = TRUE
    /\ quiet = 0
    /\ pc = "poll"
    /\ healthy = FALSE
    /\ age = 0
    /\ idle = 0
    /\ tries = 0
    /\ blind = FALSE

\* Time beyond a limit is not told apart.
Older(n, limit) == IF n < limit THEN n + 1 ELSE n

-----------------------------------------------------------------------------
(* The world.                                                              *)

ComeUp ==
    /\ machine = "up" /\ ~serving
    /\ serving' = TRUE
    /\ UNCHANGED <<guard, machine, inflight, moved, quiet, pc, healthy, age,
                   idle, tries, blind>>

\* A request begins to be served, or ends; either moves a counter.
Request ==
    /\ machine = "up" /\ serving
    /\ inflight' = ~inflight
    /\ moved' = TRUE
    /\ quiet' = 0
    /\ UNCHANGED <<guard, machine, serving, pc, healthy, age, idle, tries,
                   blind>>

\* A poll interval passes, and the watch wakes from its sleep.
Tick ==
    /\ pc \in {"sleep", "again"}
    /\ pc' = IF pc = "sleep" THEN "poll" ELSE "destroy"
    /\ quiet' = IF inflight THEN 0 ELSE Older(quiet, Idle)
    /\ idle' = Older(idle, Idle)
    /\ age' = IF healthy THEN age ELSE Older(age, Grace)
    /\ UNCHANGED <<guard, machine, serving, inflight, moved, healthy, tries,
                   blind>>

\* The computer sleeps past its time: the clock goes on and the watch does not.
Oversleep ==
    /\ guard = "computer" /\ pc = "sleep"
    /\ quiet' = IF inflight THEN 0 ELSE Older(quiet, Idle)
    /\ idle' = Older(idle, Idle)
    /\ UNCHANGED <<guard, machine, serving, inflight, moved, pc, healthy, age,
                   tries, blind>>

\* The user stops the rental, or the provider takes it away; the script dies with
\* its machine.
End ==
    /\ machine = "up"
    /\ machine' = "gone"
    /\ inflight' = FALSE
    /\ pc' = IF guard = "machine" THEN "ended" ELSE pc
    /\ UNCHANGED <<guard, serving, moved, quiet, healthy, age, idle, tries,
                   blind>>

-----------------------------------------------------------------------------
(* The watch.                                                              *)

\* The look itself: an answer starts the idle clock, and sets it back when the
\* counters moved or a request is in flight.
Answered ==
    /\ machine = "up" /\ serving
    /\ healthy' = TRUE
    /\ idle' = IF ~healthy \/ moved \/ inflight THEN 0 ELSE idle
    /\ moved' = FALSE
    /\ blind' = FALSE

Unanswered ==
    /\ blind' = TRUE
    /\ UNCHANGED <<healthy, idle, moved>>

\* The idle window is over, or a start took longer than its grace: only the script
\* ends a start that never served.
Expired ==
    \/ healthy' /\ idle' >= Idle
    \/ guard = "machine" /\ ~healthy' /\ age >= Grace

PodIsGone ==
    /\ guard = "computer" /\ machine = "gone"
    /\ pc' = "ended"
    /\ UNCHANGED <<healthy, idle, moved, blind>>

\* Slip: only the requests in flight count, and not what was served since the last
\* look.
PollGaugesOnly ==
    /\ pc = "poll"
    /\ \/ PodIsGone
       \/ /\ \/ /\ machine = "up" /\ serving
                /\ healthy' = TRUE
                /\ idle' = IF ~healthy \/ inflight THEN 0 ELSE idle
                /\ moved' = FALSE
                /\ blind' = FALSE
             \/ Unanswered
          /\ pc' = IF Expired THEN "destroy" ELSE "sleep"
    /\ UNCHANGED <<guard, machine, serving, inflight, quiet, age, tries>>

\* Slip: a rental that never served is never idle.
PollNoGrace ==
    /\ pc = "poll"
    /\ \/ PodIsGone
       \/ /\ Answered \/ Unanswered
          /\ pc' = IF healthy' /\ idle' >= Idle THEN "destroy" ELSE "sleep"
    /\ UNCHANGED <<guard, machine, serving, inflight, quiet, age, tries>>

\* One round of the loop.  On the computer the watch first asks whether the pod
\* exists, and ends on a definite no.
Poll ==
    /\ pc = "poll"
    /\ \/ PodIsGone
       \/ /\ Answered \/ Unanswered
          /\ pc' = IF Expired THEN "destroy" ELSE "sleep"
    /\ UNCHANGED <<guard, machine, serving, inflight, quiet, age, tries>>

\* The provider deletes the machine, or the request fails, with or without effect.
Destroyed ==
    /\ machine' = "gone"
    /\ inflight' = FALSE

\* Slip: a failed attempt is the last one.
DestroyHereOnce ==
    /\ guard = "machine" /\ pc = "destroy" /\ machine = "up"
    /\ \/ Destroyed /\ UNCHANGED tries
       \/ tries' = tries + 1 /\ UNCHANGED <<machine, inflight>>
    /\ pc' = "ended"
    /\ UNCHANGED <<guard, serving, moved, quiet, healthy, age, idle, blind>>

\* destroy() of the script: one attempt a minute, and then it gives up.
DestroyHere ==
    /\ guard = "machine" /\ pc = "destroy" /\ machine = "up"
    /\ \/ Destroyed /\ pc' = "ended" /\ UNCHANGED tries
       \/ /\ tries' = tries + 1
          /\ pc' = IF tries' < Attempts THEN "again" ELSE "ended"
          /\ UNCHANGED <<machine, inflight>>
    /\ UNCHANGED <<guard, serving, moved, quiet, healthy, age, idle, blind>>

\* stop() on the computer: stop_app() yields a failure instead of raising it, and
\* the watch is over either way.
StopThere ==
    /\ guard = "computer" /\ pc = "destroy"
    /\ Destroyed \/ UNCHANGED <<machine, inflight>>
    /\ pc' = "ended"
    /\ UNCHANGED <<guard, serving, moved, quiet, healthy, age, idle, tries,
                   blind>>

-----------------------------------------------------------------------------

Watch == Poll \/ DestroyHere \/ StopThere

Next == ComeUp \/ Request \/ Tick \/ Oversleep \/ End \/ Watch

Spec == Init /\ [][Next]_vars

\* The loop goes on; a computer does not sleep for good.
Fairness == WF_vars(Tick) /\ WF_vars(Watch)

FairSpec == Spec /\ Fairness

-----------------------------------------------------------------------------

\* The decision to destroy: nothing was served for the whole idle window, unless the
\* watch could not see the counters when it decided.
DecidedWhenIdle == [][
    pc = "poll" /\ pc' = "destroy" => quiet >= Idle \/ blind']_vars

\* A rental that serves nothing for good is ended, or the watch has said that it gave
\* up.  The watch on the computer must have seen the runtime once.
IdleRentalEnds ==
    \/ []<>(quiet = 0)
    \/ <>(machine = "gone" \/ pc = "ended")
    \/ guard = "computer" /\ []~healthy

\* The script leaves a machine that is up only after its last attempt.
GivesUpLast ==
    guard = "machine" /\ pc = "ended" /\ machine = "up" => tries = Attempts

\* A network blip does not leave a pod unwatched (violated: one failed stop ends the watch).
PodStaysWatched ==
    guard = "computer" /\ pc = "ended" => machine = "gone"

\* Serving a request keeps the machine alive (violated: attempts are repeated for half an
\* hour without another look at the counters).
BusyStaysUp == [][Watch /\ machine' # machine => ~inflight]_vars

-----------------------------------------------------------------------------
(* What the proofs need beside the properties.                             *)

\* The script that has not ended has attempts left.
TriesLeft == guard = "machine" /\ pc # "ended" => tries < Attempts

\* As far as the counters tell, the watch never thinks the machine idle for longer than
\* it has been quiet.
IdleIsQuiet == machine = "up" /\ ~moved /\ ~inflight => idle <= quiet

IInv ==
    /\ TypeOK
    /\ TriesLeft
    /\ IdleIsQuiet
    /\ GivesUpLast

=============================================================================
