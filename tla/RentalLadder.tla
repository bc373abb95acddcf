---------------------------- MODULE RentalLadder ----------------------------
(***************************************************************************)
(* What running a ladder of placements promises about the bill, however    *)
(* the providers' streams, the cleanups and the cancellation bring it      *)
(* about (deployment_lifecycle.py, the comment on next placements: "an     *)
(* uncertain allocation or unconfirmed cleanup means the next rental could *)
(* double-bill").                                                          *)
(***************************************************************************)
EXTENDS Naturals

VARIABLES
    rungs,    \* how many placements were approved
    rung,     \* the one being tried
    stage,    \* what became of each placement's rental
    called,   \* the rung on which the user called it off, 0 if he did not
    earlier,  \* an earlier deployment of the name is running
    verdict   \* what the run has said at its end

lvars == <<rungs, rung, stage, called, earlier, verdict>>

\* A rental is "lost" when the provider granted it and nobody heard.
Stages == {"open", "billing", "clear", "lost"}

Verdicts == {"none", "serving", "clean", "unsure"}

Init ==
    /\ rungs \in Nat \ {0}
    /\ rung = 1
    /\ stage = [i \in 1 .. rungs |-> "open"]
    /\ called = 0
    /\ earlier \in BOOLEAN
    /\ verdict = "none"

Becomes(s) == stage' = [stage EXCEPT ![rung] = s]

\* Nothing is rented on a rung above the one where the run was called off.
Wanted == called = 0 \/ rung <= called

\* The placement's rental comes into being, or is known not to.
Settle ==
    /\ stage[rung] = "open"
    /\ \/ Becomes("clear")
       \/ Wanted /\ (Becomes("billing") \/ Becomes("lost"))
    /\ UNCHANGED <<rungs, rung, called, earlier, verdict>>

Release ==
    /\ stage[rung] = "billing"
    /\ Becomes("clear")
    /\ UNCHANGED <<rungs, rung, called, earlier, verdict>>

\* A last look at the rental may release it.
Settled ==
    \/ UNCHANGED stage
    \/ stage[rung] \in {"open", "billing"} /\ Becomes("clear")

\* The next placement is tried only when this one's rental is over for certain, or
\* was granted unheard.
Climb ==
    /\ rung < rungs
    /\ Settled
    /\ stage'[rung] \in {"clear", "lost"}
    /\ rung' = rung + 1
    /\ UNCHANGED <<rungs, called, earlier, verdict>>

\* The run says what is left, and says it rightly.  An earlier deployment
\* is ended along with a run that was called off and rented nothing here.
Finish ==
    /\ Settled
    /\ verdict' \in Verdicts \ {"none"}
    /\ verdict' = "serving" => stage'[rung] = "billing"
    /\ verdict' = "clean" => stage'[rung] \in {"clear", "lost"}
    /\ earlier' # earlier =>
          /\ ~earlier'
          /\ called # 0 /\ stage[rung] = "clear" /\ verdict' = "clean"
    /\ UNCHANGED <<rungs, rung, called>>

CallOff ==
    /\ called = 0
    /\ called' = rung
    /\ UNCHANGED <<rungs, rung, stage, earlier, verdict>>

\* Once it has ended the run has no effect any more.
Next == verdict = "none" /\ (Settle \/ Release \/ Climb \/ Finish \/ CallOff)

Spec == Init /\ [][Next]_lvars
=============================================================================
