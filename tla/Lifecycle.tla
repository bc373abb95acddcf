------------------------------ MODULE Lifecycle ------------------------------
(***************************************************************************)
(* core/deployment_lifecycle.py: a ladder of approved placements is tried  *)
(* in turn until one serves or another attempt is forbidden.               *)
(*                                                                         *)
(* One thread consumes the event streams of deploy() and warmup().  It     *)
(* looks at the user's cancellation after each event, and after a failure  *)
(* it alone decides whether the next placement may be rented.  The         *)
(* providers (core/orchestrator.py, core/vast_deployment.py) create, roll  *)
(* back and stop rentals; requests and replies get lost.                   *)
(***************************************************************************)
EXTENDS Naturals, Sequences

CONSTANTS
    Ladders,    \* the ladders a user may approve
    NoOutcome

Providers == {"modal", "prime", "vast"}

\* retry: another placement is approved after this one; keep: the user asked
\* to keep a failed resource, which only Prime honours.
Placements == [provider : Providers, retry : BOOLEAN, keep : BOOLEAN]

Dispositions == {"succeeded", "failed", "cancelled", "retained"}
Cleanups == {"confirmed", "nothing_to_clean", "failed", "unknown", "retained"}

Outcomes == [disposition : Dispositions, cleanup : Cleanups]

ASSUME LaddersAssumption == \A l \in Ladders : l \in Seq(Placements) /\ l # <<>>

ASSUME OutcomeAssumption == NoOutcome \notin Outcomes

VARIABLES
    ladder,     \* the approved placements
    pc, at,     \* where run_lifecycle() is, in the attempt of placement at
    held,       \* the attempts whose rental the provider bills
    lost,       \* the attempts whose creation was granted unheard (history)
    prior,      \* an earlier deployment of this name is running on Vast
    ident,      \* resource_app_id of this attempt has been observed
    report,     \* what the last event of the deploy stream says
    cancelled,  \* the attempt in which the user cancelled, 0 if he did not
    outcome     \* the outcomes list

vars == <<ladder, pc, at, held, lost, prior, ident, report, cancelled, outcome>>

PCs == {"top", "request", "allocated", "ended", "warmup", "publish",
        "cancel", "final", "done", "raised"}

\* The stream succeeded, or failed with no, a confirmed or another rollback.
Reports == {"success", "none", "confirmed", "unconfirmed"}

Attempts == 1 .. Len(ladder)

TypeOK ==
    /\ ladder \in Ladders
    /\ pc \in PCs
    /\ at \in Attempts
    /\ held \in [Attempts -> BOOLEAN]
    /\ lost \in [Attempts -> BOOLEAN]
    /\ prior \in BOOLEAN
    /\ ident \in BOOLEAN
    /\ report \in Reports
    /\ cancelled \in 0 .. Len(ladder)
    /\ outcome \in [Attempts -> Outcomes \cup {NoOutcome}]

Init ==
    /\ ladder \in Ladders
    /\ pc = "top" /\ at = 1
    /\ held = [i \in Attempts |-> FALSE]
    /\ lost = [i \in Attempts |-> FALSE]
    /\ prior \in BOOLEAN
    /\ ident = FALSE
    /\ report = "none"
    /\ cancelled = 0
    /\ outcome = [i \in Attempts |-> NoOutcome]

Place == ladder[at]
Provider == Place.provider
IsCancelled == cancelled # 0

Hold(b) == held' = [held EXCEPT ![at] = b]

\* The request may or may not have had its effect.
MayRelease == Hold(FALSE) \/ UNCHANGED held

\* A stream that is closed gets GeneratorExit: Vast's finally clause tries to
\* destroy a rental that was not completed, Prime's except clause does not run.
CloseStream ==
    \/ Provider = "vast" /\ report # "success" /\ Hold(FALSE)
    \/ UNCHANGED held

\* A rental is refused by Vast's recovery record of the name.
NameTaken == Provider = "vast" /\ prior

-----------------------------------------------------------------------------
(* The user and the ladder                                                 *)

Cancel ==
    /\ cancelled = 0
    /\ pc \notin {"done", "raised"}
    /\ cancelled' = at
    /\ UNCHANGED <<ladder, pc, at, held, lost, prior, ident, report, outcome>>

\* Slip: the index is not advanced.
ConcludeInPlace(disposition, cleanup, retry) ==
    /\ outcome' = [outcome EXCEPT ![at] =
          [disposition |-> disposition, cleanup |-> cleanup]]
    /\ pc' = IF disposition = "failed" /\ Place.retry /\ retry THEN "top" ELSE "done"
    /\ at' = at

\* What run_lifecycle() does with the outcome of an attempt: only a failure
\* that allows it leads to the next placement.
Conclude(disposition, cleanup, retry) ==
    /\ outcome' = [outcome EXCEPT ![at] =
          [disposition |-> disposition, cleanup |-> cleanup]]
    /\ IF disposition = "failed" /\ Place.retry /\ retry /\ at < Len(ladder)
       THEN pc' = "top" /\ at' = at + 1
       ELSE pc' = "done" /\ at' = at

\* Slip: the cancellation is left to the events of the stream.
StartAttemptUnchecked ==
    /\ pc = "top"
    /\ pc' = "request"
    /\ ident' = FALSE
    /\ report' = "none"
    /\ UNCHANGED <<ladder, at, held, lost, prior, cancelled, outcome>>

\* The cancellation is looked at before a placement is started.  A new attempt
\* knows nothing of the resources of the one before.
StartAttempt ==
    /\ pc = "top"
    /\ \/ IsCancelled /\ Conclude("cancelled", "nothing_to_clean", FALSE)
       \/ ~IsCancelled /\ pc' = "request" /\ UNCHANGED <<at, outcome>>
    /\ ident' = FALSE
    /\ report' = "none"
    /\ UNCHANGED <<ladder, held, lost, prior, cancelled>>

-----------------------------------------------------------------------------
(* The deploy stream                                                       *)

\* Slip: something is yielded before the id of the rental.
YieldingEarly == pc \in {"request", "allocated"}

\* Prime and Vast yield nothing between the creation and its announcement.
Yielding == pc = "request" \/ (pc = "allocated" /\ (ident \/ Provider = "modal"))

\* An event on the way, of which only the cancellation check after it counts.
DeployEvent ==
    /\ Yielding
    /\ IsCancelled
    /\ pc' = "cancel"
    /\ CloseStream
    /\ UNCHANGED <<ladder, at, lost, prior, ident, report, cancelled, outcome>>

\* A preflight, an offer or the provider refuses: nothing was created.  Vast
\* reports a taken name as an unconfirmed rollback, and a refused creation as
\* a confirmed one.
DeployRefused ==
    /\ pc = "request"
    /\ \/ report' = "none"
       \/ NameTaken /\ report' = "unconfirmed"
       \/ Provider = "vast" /\ ~NameTaken /\ report' = "confirmed"
    /\ pc' = "ended"
    /\ UNCHANGED <<ladder, at, held, lost, prior, ident, cancelled, outcome>>

\* Slip: Vast rents under a name that an earlier deployment has.
DeployAllocateTaken ==
    /\ pc = "request"
    /\ Hold(TRUE)
    /\ pc' = "allocated"
    /\ UNCHANGED <<ladder, at, lost, prior, ident, report, cancelled, outcome>>

DeployAllocate ==
    /\ pc = "request"
    /\ ~NameTaken
    /\ Hold(TRUE)
    /\ pc' = "allocated"
    /\ UNCHANGED <<ladder, at, lost, prior, ident, report, cancelled, outcome>>

\* Prime granted POST /pods, and its reply timed out, broke off or carried no
\* id: _cleanup_failed_prime_pod() has no pod to delete and reports no rollback.
DeployLost ==
    /\ pc = "request"
    /\ Provider = "prime"
    /\ Hold(TRUE)
    /\ lost' = [lost EXCEPT ![at] = TRUE]
    /\ report' = "none"
    /\ pc' = "ended"
    /\ UNCHANGED <<ladder, at, prior, ident, cancelled, outcome>>

\* The id is announced by an event, and the cancellation looked at after it.
DeployAnnounce ==
    /\ pc = "allocated"
    /\ ~ident
    /\ ident' = TRUE
    /\ IF IsCancelled
       THEN pc' = "cancel" /\ CloseStream
       ELSE UNCHANGED <<pc, held>>
    /\ UNCHANGED <<ladder, at, lost, prior, report, cancelled, outcome>>

\* Slip: a rollback is reported as confirmed once it was requested.
DeployFailsUnanswered ==
    /\ pc = "allocated"
    /\ Provider = "prime" => ident
    /\ report' = "confirmed"
    /\ MayRelease
    /\ pc' = "ended"
    /\ UNCHANGED <<ladder, at, lost, prior, ident, cancelled, outcome>>

\* The stream fails after the allocation and rolls it back.  A failed `modal
\* deploy` leaves nothing that bills; Prime keeps a pod it was told to keep.
DeployFails ==
    /\ pc = "allocated"
    /\ Provider = "prime" => ident
    /\ \/ Provider = "modal" /\ report' = "none" /\ Hold(FALSE)
       \/ Provider = "prime" /\ Place.keep /\ report' = "unconfirmed" /\ UNCHANGED held
       \/ /\ Provider = "vast" \/ (Provider = "prime" /\ ~Place.keep)
          /\ \/ report' = "confirmed" /\ Hold(FALSE)
             \/ report' = "unconfirmed" /\ MayRelease
    /\ pc' = "ended"
    /\ UNCHANGED <<ladder, at, lost, prior, ident, cancelled, outcome>>

DeployCompletes ==
    /\ pc = "allocated"
    /\ Provider # "modal" => ident
    /\ report' = "success"
    /\ pc' = "ended"
    /\ UNCHANGED <<ladder, at, held, lost, prior, ident, cancelled, outcome>>

\* Slip: an unconfirmed rollback lets the ladder go on.
DeployEndedUncertain ==
    /\ pc = "ended"
    /\ ~IsCancelled
    /\ report \in {"confirmed", "unconfirmed"}
    /\ Conclude("failed", IF report = "confirmed" THEN report ELSE "failed", TRUE)
    /\ UNCHANGED <<ladder, held, lost, prior, ident, report, cancelled>>

\* The last event is consumed: a cancellation goes first, then the verdict on
\* a failure, which allows a retry when the rollback is confirmed, or when no
\* resource was ever seen and nothing was rolled back.
DeployEnded ==
    /\ pc = "ended"
    /\ \/ IsCancelled /\ pc' = "cancel" /\ UNCHANGED <<at, outcome>>
       \/ /\ ~IsCancelled
          /\ report = "success"
          /\ pc' \in {"warmup", "publish"}
          /\ UNCHANGED <<at, outcome>>
       \/ /\ ~IsCancelled
          /\ \/ report = "confirmed" /\ Conclude("failed", "confirmed", TRUE)
             \/ report = "unconfirmed" /\ Conclude("failed", "failed", FALSE)
             \/ report = "none" /\ ~ident /\ Conclude("failed", "nothing_to_clean", TRUE)
             \/ report = "none" /\ ident /\ Conclude("failed", "unknown", FALSE)
    /\ CloseStream
    /\ UNCHANGED <<ladder, lost, prior, ident, report, cancelled>>

-----------------------------------------------------------------------------
(* Certification and cleanup                                               *)

\* The warmup stream: every event is followed by a look at the cancellation,
\* but a stream may also break off, or never yield one.  The verdict is success
\* only for a stream with a successful completion and no failed one.
Warmup ==
    /\ pc = "warmup"
    /\ \/ IsCancelled /\ pc' = "cancel"
       \/ ~IsCancelled /\ pc' = "publish"
       \/ pc' = "final"
    /\ UNCHANGED <<ladder, at, held, lost, prior, ident, report, cancelled, outcome>>

\* Tool calls are verified and the endpoint is published; a cancellation from
\* here on comes too late.
Publish ==
    /\ pc = "publish"
    /\ Conclude("succeeded", "nothing_to_clean", FALSE)
    /\ UNCHANGED <<ladder, held, lost, prior, ident, report, cancelled>>

\* resolve_stop_target() with allocated=True: by id, or by name where the
\* provider can be addressed by name.
Stoppable == ident \/ Provider \in {"modal", "vast"}

\* stop_with_orchestrator(): a stop that returns has ended the rental.  On Vast
\* that is the one the recovery record of the name points to.
StopConfirmed == Hold(FALSE) /\ prior' = (prior /\ ~NameTaken)

StopFailed == MayRelease /\ UNCHANGED prior

CancelCleanup ==
    /\ pc = "cancel"
    /\ \/ Stoppable /\ StopConfirmed /\ Conclude("cancelled", "confirmed", FALSE)
       \/ Stoppable /\ StopFailed /\ Conclude("cancelled", "failed", FALSE)
       \/ /\ ~Stoppable
          /\ Conclude("cancelled", "unknown", FALSE)
          /\ UNCHANGED <<held, prior>>
    /\ UNCHANGED <<ladder, lost, ident, report, cancelled>>

\* The certification failed.  The endpoint is kept when the user asked for it,
\* or when the vision probe alone failed; otherwise it is stopped.
FinalizeFailed ==
    /\ pc = "final"
    /\ \/ Conclude("retained", "retained", FALSE) /\ UNCHANGED <<held, prior>>
       \/ /\ ~(Provider = "prime" /\ Place.keep)
          /\ \/ Stoppable /\ StopConfirmed /\ Conclude("failed", "confirmed", TRUE)
             \/ Stoppable /\ StopFailed /\ Conclude("failed", "failed", FALSE)
             \/ /\ ~Stoppable
                /\ Conclude("failed", "unknown", FALSE)
                /\ UNCHANGED <<held, prior>>
    /\ UNCHANGED <<ladder, lost, ident, report, cancelled>>

\* is_cancelled() reads the job's row: on an error of the database it raises
\* out of the loop, and the streams are closed on the way.
Raise ==
    /\ Yielding \/ pc \in {"top", "ended", "warmup"}
    /\ pc' = "raised"
    /\ CloseStream
    /\ UNCHANGED <<ladder, at, lost, prior, ident, report, cancelled, outcome>>

-----------------------------------------------------------------------------
Step ==
    \/ StartAttempt
    \/ DeployEvent \/ DeployRefused \/ DeployAllocate \/ DeployLost
    \/ DeployAnnounce \/ DeployFails \/ DeployCompletes \/ DeployEnded
    \/ Warmup \/ Publish \/ CancelCleanup \/ FinalizeFailed
    \/ Raise

\* The run is over: run_lifecycle() returned or raised.
Over == pc \in {"done", "raised"} /\ UNCHANGED vars

Next == Cancel \/ Step \/ Over

Spec == Init /\ [][Next]_vars

\* The thread runs on, and every provider loop has a deadline.
FairSpec == Spec /\ WF_vars(Step)

-----------------------------------------------------------------------------
(* Properties                                                              *)

\* deployment_lifecycle.py:220-223: no placement is rented while an earlier
\* one may bill.  Every failure, rollback, cleanup and cancellation keeps to
\* it; the exception is a Prime creation whose reply was lost.
OneRentalAtATime ==
    \A i, j \in Attempts : (i < j /\ held[i] /\ held[j]) => lost[i]

\* An outcome tells the truth about the bill: a confirmed cleanup, or nothing
\* to clean, means no rental; a success or a kept endpoint means there is one.
OutcomeIsTrue ==
    \A i \in Attempts :
        outcome[i] # NoOutcome =>
            LET o == outcome[i] IN
            IF o.disposition \in {"succeeded", "retained"} THEN held[i]
            ELSE o.cleanup \in {"confirmed", "nothing_to_clean"} => ~held[i] \/ lost[i]

\* What still bills once the run is over is the last attempt's, the result
\* does not call it clean, and a stop can name it.
LeftoverIsNamed ==
    \A i \in Attempts :
        (pc \in {"done", "raised"} /\ held[i] /\ ~lost[i]) =>
            /\ i = at
            /\ Stoppable
            /\ pc = "done" => outcome[i].disposition \in {"succeeded", "retained"}
                              \/ outcome[i].cleanup \in {"failed", "unknown"}

\* After a cancellation no further placement is started, whatever became of
\* the attempt it fell into.
CancelEndsLadder ==
    (IsCancelled /\ at > cancelled) => pc \in {"top", "done", "raised"}

\* The run climbs the ladder of RentalLadder.
Stage(i) ==
    CASE lost[i] -> "lost"
      [] held[i] /\ ~lost[i] -> "billing"
      [] ~held[i] /\ ~lost[i] ->
            IF i > at \/ (i = at /\ pc \in {"top", "request"}) THEN "open" ELSE "clear"

\* What the run has said of the bill when it returned; nothing, when it raised.
Said ==
    CASE pc = "raised" -> "unsure"
      [] pc = "done" ->
            IF outcome[at].disposition \in {"succeeded", "retained"} THEN "serving"
            ELSE IF outcome[at].cleanup \in {"confirmed", "nothing_to_clean"} THEN "clean"
            ELSE "unsure"
      [] pc \notin {"raised", "done"} -> "none"

Rungs == INSTANCE RentalLadder WITH
    rungs <- Len(ladder),
    rung <- at,
    stage <- [i \in Attempts |-> Stage(i)],
    called <- cancelled,
    earlier <- prior,
    verdict <- Said

\* However the streams, the cleanups and the cancellation interleave: a placement is
\* rented when the ones before it are over, never above the rung of a cancellation;
\* the last word on the bill is true and nothing happens after it; an earlier
\* deployment is ended only by a cancelled attempt that rented nothing.
LadderKept == Rungs!Spec

\* Every run comes to its end.
EveryRunEnds == <>(pc \in {"done", "raised"})

\* deployment_lifecycle.py:221-223 "an uncertain allocation or unconfirmed
\* cleanup means the next rental could double-bill": so it must not be made.
NeverDoubleBilled ==
    \A i, j \in Attempts : (i < j /\ held[i]) => ~held[j]

\* docs/vast.md:268 "Failed deployment and cancellation attempt to destroy
\* their own rental": the healthy one of an earlier deployment is left alone.
EarlierDeploymentStays == [][prior => prior']_vars

-----------------------------------------------------------------------------
(* The inductive invariant behind the properties.                          *)

\* Placements not reached yet are untouched.
LaterUntouched ==
    \A i \in Attempts :
        i > at => ~held[i] /\ ~lost[i] /\ outcome[i] = NoOutcome

\* Placements passed by are released.
EarlierReleased == \A i \in Attempts : (i < at /\ held[i]) => lost[i]

\* What each point of the attempt knows of its rental.
AttemptReady ==
    /\ pc \in {"top", "request"} => ~held[at] /\ ~lost[at]
    /\ pc \in {"allocated", "warmup", "publish", "final"} => held[at] /\ ~lost[at]
    /\ pc \in {"request", "allocated"} => report # "success"
    /\ pc = "ended" =>
         /\ report = "success" => held[at] /\ ~lost[at]
         /\ report = "confirmed" => ~held[at]
         /\ report = "none" => ~held[at] \/ lost[at]
    /\ pc = "done" <=> outcome[at] # NoOutcome

\* Off the creation itself, a rental that may stay can be named.
Nameable == (pc # "allocated" /\ held[at] /\ ~lost[at]) => Stoppable

IInv ==
    /\ TypeOK
    /\ LaterUntouched
    /\ EarlierReleased
    /\ AttemptReady
    /\ Nameable
    /\ OutcomeIsTrue
    /\ LeftoverIsNamed
    /\ CancelEndsLadder

\* What the steps to RentalLadder rest on, beside IInv: Vast rents only where no earlier
\* deployment has the name, only Prime loses a creation, and an attempt is cleaned up
\* as a cancelled one only if the user cancelled.
EarlierInv ==
    /\ (held[at] /\ Provider = "vast") => ~prior
    /\ lost[at] => Provider = "prime"
    /\ pc = "cancel" => IsCancelled

=============================================================================
