------------------------------ MODULE JobTail ------------------------------
(***************************************************************************)
(* Watching one durable job: the log its worker appends to, the monitors   *)
(* of the sessions that tail it (_tail_persistent_job() and                *)
(* reopen_persistent_deployment() in tui/app.py), `jobs follow` in         *)
(* cli/jobs.py, and the cancellations that reach it through                *)
(* core/job_store.py.                                                      *)
(*                                                                         *)
(* A watcher reads the log and the job's row in two steps, and the worker  *)
(* goes on between them.  The tail reads the row first, `jobs follow` the  *)
(* log.  One read returns at most Limit events.  A cancellation looks at   *)
(* the status and writes the row in two statements.                        *)
(***************************************************************************)
EXTENDS Naturals

CONSTANTS
    Tails,      \* sessions of the user interface, each with a tail
    Follows,    \* `jobs follow` commands
    Cli,        \* a `jobs cancel` command
    Events,     \* the longest log (bound)
    Limit,      \* most events of one get_events(), 5000
    Faults      \* most failures of the store (bound)

Watchers == Tails \cup Follows

Active == {"pending", "running"}

ASSUME WatchersAssumption ==
    /\ Tails \cap Follows = {}
    /\ Cli \notin Watchers
    /\ Events \in Nat
    /\ Limit \in Nat \ {0}
    /\ Faults \in Nat

VARIABLES
    log,        \* events in the job's log
    status,     \* of the job's row, which has a worker_pid unless it is "pending"
    outcome,    \* what the row says
    cancel,     \* the row's cancel_requested
    worker,     \* the worker process
    pc,         \* where each watcher is
    seen,       \* last_seen_seq, the events shown
    record,     \* the status a tail read last
    asked,      \* tails whose session's cancel_requested is set
    asking,     \* callers between the two statements of request_cancel()
    faults,     \* failures of the store so far
    capped,     \* watchers whose last read hit the limit (history)
    crossed     \* whether the job ended while someone was asking (history)

row  == <<status, outcome, cancel>>
view == <<pc, seen, record, capped>>
vars == <<log, status, outcome, cancel, worker, pc, seen, record, asked,
          asking, faults, capped, crossed>>

\* "done": it saw the end; "broken": it stopped on an error; "left": the user did.
Over == {"done", "broken", "left"}

TypeOK ==
    /\ log \in 0 .. Events
    /\ status \in Active \cup {"ended"}
    /\ outcome \in {"open", "cancelling", "final"}
    /\ cancel \in BOOLEAN
    /\ worker \in {"up", "dead"}
    /\ pc \in [Watchers -> {"off", "reopen", "restore", "reconcile", "row", "log",
                            "mirror"} \cup Over]
    /\ seen \in [Watchers -> 0 .. Events]
    /\ record \in [Watchers -> Active \cup {"ended"}]
    /\ asked \subseteq Tails
    /\ asking \subseteq Tails \cup {Cli}
    /\ faults \in 0 .. Faults
    /\ capped \subseteq Watchers
    /\ crossed \in BOOLEAN

Init ==
    /\ log = 0
    /\ status = "pending"
    /\ outcome = "open"
    /\ cancel = FALSE
    /\ worker = "up"
    /\ pc = [w \in Watchers |-> "off"]
    /\ seen = [w \in Watchers |-> 0]
    /\ record = [w \in Watchers |-> "pending"]
    /\ asked = {}
    /\ asking = {}
    /\ faults = 0
    /\ capped = {}
    /\ crossed = FALSE

Goto(w, s) == pc' = [pc EXCEPT ![w] = s]

\* The row is ended; finish_job() does it whatever it says.
FinishJob ==
    /\ status' = "ended"
    /\ outcome' = "final"
    /\ crossed' = (crossed \/ asking # {})
    /\ UNCHANGED cancel

-----------------------------------------------------------------------------
(* The worker.  It may die at any time, also before its claim.              *)

\* claim_job(): the job gets its worker_pid, unless it was cancelled meanwhile.
Claim ==
    /\ worker = "up" /\ status = "pending"
    /\ \/ /\ ~cancel
          /\ status' = "running"
          /\ UNCHANGED <<outcome, cancel, worker, crossed>>
       \/ /\ cancel
          /\ FinishJob
          /\ worker' = "dead"
    /\ UNCHANGED <<log, view, asked, asking, faults>>

AppendEvent ==
    /\ worker = "up" /\ status = "running"
    /\ log < Events
    /\ log' = log + 1
    /\ UNCHANGED <<row, worker, view, asked, asking, faults, crossed>>

\* The outcome is the last thing a worker writes.
Finish ==
    /\ worker = "up" /\ status = "running"
    /\ FinishJob
    /\ worker' = "dead"
    /\ UNCHANGED <<log, view, asked, asking, faults>>

Die ==
    /\ worker = "up"
    /\ worker' = "dead"
    /\ UNCHANGED <<log, row, view, asked, asking, faults, crossed>>

\* reconcile_workers(), for this job: one without a worker_pid it passes over.
Interrupt ==
    \/ status = "running" /\ worker = "dead" /\ FinishJob
    \/ ~(status = "running" /\ worker = "dead") /\ UNCHANGED <<row, crossed>>

\* A session starts, or someone lists the jobs.
ReconcileElsewhere ==
    /\ status = "running" /\ worker = "dead"
    /\ Interrupt
    /\ UNCHANGED <<log, worker, view, asked, asking, faults>>

-----------------------------------------------------------------------------
(* What the two kinds of watcher share.                                    *)

\* A JobStore lets one call of its session in at a time.
Free(w) == w \notin asking

\* get_events(after_seq=seen): the oldest unseen events, at most Limit of them.
Fetch(w) ==
    LET more == log - seen[w] IN
    /\ seen' = [seen EXCEPT ![w] = IF more > Limit THEN seen[w] + Limit ELSE log]
    /\ capped' = IF more > Limit THEN capped \cup {w} ELSE capped \ {w}

StoreFails ==
    /\ faults < Faults
    /\ faults' = faults + 1

\* `jobs follow` lets a failure of the store escape; a tail ends on one and leaves its
\* job unfinished in the session.
Break(w) ==
    /\ pc[w] \in IF w \in Tails THEN {"row", "log"} ELSE {"reconcile", "row", "log"}
    /\ Free(w)
    /\ StoreFails
    /\ Goto(w, "broken")
    /\ UNCHANGED <<log, row, worker, seen, record, capped, asked, asking,
                   crossed>>

\* The session quits, or the command is interrupted.
Leave(w) ==
    /\ pc[w] \notin Over \cup {"off"}
    /\ Goto(w, "left")
    /\ UNCHANGED <<log, row, worker, seen, record, capped, asked, asking,
                   faults, crossed>>

-----------------------------------------------------------------------------
(* jobs follow: reconcile, read the log, read the row, and again.          *)

Follow(f) ==
    /\ pc[f] = "off"
    /\ Goto(f, "reconcile")
    /\ UNCHANGED <<log, row, worker, seen, record, capped, asked, asking,
                   faults, crossed>>

\* Slip: the command only reads.
FollowOnlyReads(f) ==
    /\ pc[f] = "reconcile"
    /\ Goto(f, "log")
    /\ UNCHANGED <<log, row, worker, seen, record, capped, asked, asking,
                   faults, crossed>>

FollowReconciles(f) ==
    /\ pc[f] = "reconcile"
    /\ Interrupt
    /\ Goto(f, "log")
    /\ UNCHANGED <<log, worker, seen, record, capped, asked, asking, faults>>

FollowReadsLog(f) ==
    /\ pc[f] = "log"
    /\ Fetch(f)
    /\ Goto(f, "row")
    /\ UNCHANGED <<log, row, worker, record, asked, asking, faults, crossed>>

FollowReadsRow(f) ==
    /\ pc[f] = "row"
    /\ Goto(f, IF status = "ended" THEN "done" ELSE "reconcile")
    /\ record' = [record EXCEPT ![f] = status]
    /\ UNCHANGED <<log, row, worker, seen, capped, asked, asking, faults,
                   crossed>>

-----------------------------------------------------------------------------
(* A session's tail.                                                       *)

\* begin_deploy() starts the tail of its own job; a job of an earlier session is
\* reopened.
Open(t) ==
    /\ pc[t] = "off"
    /\ Goto(t, "row") \/ Goto(t, "reopen")
    /\ UNCHANGED <<log, row, worker, seen, record, capped, asked, asking,
                   faults, crossed>>

\* reopen_persistent_deployment(): the row, then the log; a log that cannot be read is
\* taken for an empty one.  A terminal job is not tailed.
ReopenReadsRow(t) ==
    /\ pc[t] = "reopen"
    /\ record' = [record EXCEPT ![t] = status]
    /\ Goto(t, "restore")
    /\ UNCHANGED <<log, row, worker, seen, capped, asked, asking, faults,
                   crossed>>

ReopenReadsLog(t) ==
    /\ pc[t] = "restore"
    /\ Goto(t, IF record[t] = "ended" THEN "done" ELSE "row")
    /\ \/ Fetch(t) /\ UNCHANGED faults
       \/ StoreFails /\ capped' = capped \cup {t} /\ UNCHANGED seen
    /\ UNCHANGED <<log, row, worker, record, asked, asking, crossed>>

\* Slip: the tail is done when the row says so, with the log it has read before.
TailReadsRowAndEnds(t) ==
    /\ pc[t] = "row" /\ Free(t)
    /\ record' = [record EXCEPT ![t] = status]
    /\ asked' = IF cancel THEN asked \cup {t} ELSE asked
    /\ Goto(t, IF status = "ended" THEN "done" ELSE "log")
    /\ UNCHANGED <<log, row, worker, seen, capped, asking, faults, crossed>>

\* The row is read first, so that the log read after it holds the last events of a
\* job that the row calls ended.  The row's cancel flag sets the session's.
TailReadsRow(t) ==
    /\ pc[t] = "row" /\ Free(t)
    /\ record' = [record EXCEPT ![t] = status]
    /\ asked' = IF cancel THEN asked \cup {t} ELSE asked
    /\ Goto(t, "log")
    /\ UNCHANGED <<log, row, worker, seen, capped, asking, faults, crossed>>

TailReadsLog(t) ==
    /\ pc[t] = "log" /\ Free(t)
    /\ Fetch(t)
    /\ Goto(t, IF record[t] = "ended" THEN "done" ELSE "mirror")
    /\ UNCHANGED <<log, row, worker, record, asked, asking, faults, crossed>>

\* Slip: a session's cancellation is left to cancel_deployment().
MirrorNothing(t) ==
    /\ pc[t] = "mirror" /\ Free(t)
    /\ Goto(t, "row")
    /\ UNCHANGED <<log, row, worker, seen, record, capped, asked, asking,
                   faults, crossed>>

\* A session's cancellation is asked for again in every round; a failure is ignored.
Mirror(t) ==
    /\ pc[t] = "mirror" /\ Free(t)
    /\ \/ /\ asking' = IF t \in asked /\ status \in Active
                         THEN asking \cup {t} ELSE asking
          /\ UNCHANGED faults
       \/ t \in asked /\ StoreFails /\ UNCHANGED asking
    /\ Goto(t, "row")
    /\ UNCHANGED <<log, row, worker, seen, record, capped, asked, crossed>>

-----------------------------------------------------------------------------
(* Cancellation.                                                           *)

\* Slip: a cancellation is stored whatever the status of the job.
CancelDeploymentBlind(t) ==
    /\ pc[t] \in {"row", "log", "mirror", "broken"} /\ Free(t)
    /\ asked' = asked \cup {t}
    /\ asking' = asking \cup {t}
    /\ UNCHANGED <<log, row, worker, view, faults, crossed>>

\* cancel_deployment() sets the session's flag, and asks the store at best effort.  A
\* session whose tail is done accepts no cancellation.
CancelDeployment(t) ==
    /\ pc[t] \in {"row", "log", "mirror", "broken"} /\ Free(t)
    /\ asked' = asked \cup {t}
    /\ \/ /\ asking' = IF status \in Active THEN asking \cup {t} ELSE asking
          /\ UNCHANGED faults
       \/ StoreFails /\ UNCHANGED asking
    /\ UNCHANGED <<log, row, worker, view, crossed>>

CancelJob ==
    /\ status \in Active /\ Free(Cli)
    /\ asking' = asking \cup {Cli}
    /\ UNCHANGED <<log, row, worker, view, asked, faults, crossed>>

\* The UPDATE of request_cancel() does not look at the status again.
Request(c) ==
    /\ c \in asking
    /\ asking' = asking \ {c}
    /\ cancel' = TRUE
    /\ outcome' = "cancelling"
    /\ UNCHANGED <<log, status, worker, view, asked, faults, crossed>>

-----------------------------------------------------------------------------

Watch(w) ==
    \/ /\ w \in Tails
       /\ \/ ReopenReadsRow(w) \/ ReopenReadsLog(w)
          \/ TailReadsRow(w) \/ TailReadsLog(w) \/ Mirror(w)
    \/ /\ w \in Follows
       /\ FollowReconciles(w) \/ FollowReadsLog(w) \/ FollowReadsRow(w)

Next ==
    \/ Claim \/ AppendEvent \/ Finish \/ Die \/ ReconcileElsewhere
    \/ \E t \in Tails : Open(t) \/ CancelDeployment(t)
    \/ \E f \in Follows : Follow(f)
    \/ \E w \in Watchers : Watch(w) \/ Break(w) \/ Leave(w)
    \/ CancelJob
    \/ \E c \in Tails \cup {Cli} : Request(c)

Spec == Init /\ [][Next]_vars

\* A loop goes on, and a statement of the store returns.
Fairness ==
    /\ \A w \in Watchers : WF_vars(Watch(w))
    /\ \A c \in Tails \cup {Cli} : WF_vars(Request(c))

FairSpec == Spec /\ Fairness

-----------------------------------------------------------------------------

\* A monitor that has seen its job's end has shown its whole log, unless its last read
\* met the limit of one read, or failed as the log of a finished job was restored.
TailShowsAll == \A t \in Tails :
    pc[t] = "done" => seen[t] = log \/ t \in capped

\* A `jobs follow` that has seen its job's end has shown its whole log (violated: what
\* is appended between its read of the log and the end is not shown, and neither is
\* what lies beyond the limit of that read).
FollowShowsAll == \A f \in Follows : pc[f] = "done" => seen[f] = log

\* What an ended job says is its outcome, and no "cancelling", unless it ended while a
\* cancellation was between its two statements.
OutcomeIsFinal == status = "ended" => outcome = "final" \/ crossed

\* A watcher comes to its end once the job has ended; `jobs follow` also finds out for
\* itself that the worker died, if the worker had claimed the job.
EveryWatchEnds ==
    /\ \A t \in Tails :
          status = "ended" /\ pc[t] # "off" ~> pc[t] \in Over
    /\ \A f \in Follows :
          worker = "dead" /\ status # "pending" /\ pc[f] # "off" ~> pc[f] \in Over

\* `jobs follow` comes to its end once the worker is dead (violated: a job whose worker
\* died before its claim has no worker_pid, is passed over, and stays pending).
FollowEnds == \A f \in Follows :
    worker = "dead" /\ pc[f] # "off" ~> pc[f] \in Over

\* A cancellation that a session accepted reaches the job, although the store may fail
\* when it is first asked: the tail asks again.
CancelReachesJob == \A t \in Tails :
    t \in asked ~> cancel \/ status = "ended" \/ pc[t] \in Over

-----------------------------------------------------------------------------
(* What the proofs need beside the properties.                             *)

\* What a watcher takes for ended has ended, and it has seen that before it is done.
EndIsSeen == \A w \in Watchers :
    /\ record[w] = "ended" => status = "ended"
    /\ pc[w] = "done" => record[w] = "ended"

\* Whoever is between the two statements of a cancellation found the job running.
AskedWhileRunning == status = "ended" /\ asking # {} => crossed

IInv ==
    /\ TypeOK
    /\ EndIsSeen
    /\ AskedWhileRunning
    /\ TailShowsAll
    /\ OutcomeIsFinal

=============================================================================
