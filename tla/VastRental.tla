----------------------------- MODULE VastRental -----------------------------
(***************************************************************************)
(* Renting, serving and destroying on Vast: core/vast_deployment.py with   *)
(* the recovery records of core/vast_state.py and the rental requests of   *)
(* core/vast_backend.py.                                                   *)
(*                                                                         *)
(* Several threads of several processes call deploy() and destroy().  They *)
(* share the record of each name on disk, the flock() of each name, and,   *)
(* within one process, the _CANCELLATIONS table.  The provider fulfils or  *)
(* rejects a request on its own time, replies get lost, instances vanish   *)
(* (the idle watchdog of core/idle_watchdog.py deletes its own host), and  *)
(* a process may die between any two steps.                                *)
(***************************************************************************)
EXTENDS FiniteSets

CONSTANTS
    Names,      \* deployment names
    Labels,     \* ownership labels "llp-vast-<uuid4>", one per attempt
    Threads,    \* callers of deploy() and destroy()
    Processes,  \* operating-system processes
    ProcessOf,  \* the process each thread runs in
    NoName, NoLabel, NoThread, NoRecord

ASSUME ProcessAssumption == ProcessOf \in [Threads -> Processes]

RecordStates == {"creating", "destroying", "running"}

Records == [label : Labels, known : BOOLEAN, state : RecordStates]

ASSUME NullAssumption ==
    /\ NoName \notin Names
    /\ NoLabel \notin Labels
    /\ NoThread \notin Threads
    /\ NoRecord \notin Records

VARIABLES
    inst,       \* what Vast holds under each label
    rented,     \* the name each label was drawn for, or NoName while unused
    record,     \* record.json of each name
    lock,       \* the holder of each name's flock
    active,     \* <<process, name>> pairs registered in _CANCELLATIONS
    cancelled,  \* the registered pairs whose event is set
    shutting,   \* processes in which request_shutdown() was called
    pc, nm,     \* where each thread is, and the name it works on
    lab, known, \* its in-memory record: the label, and whether instance_id is set
    mode,       \* on whose behalf _destroy() runs
    asked,      \* the instance destroy() was asked for, or NoLabel
    seen,       \* the rental destroy() was called about (history)
    verdict     \* how the thread's last call ended

remote == <<inst, rented>>
disk   == <<record, lock>>
table  == <<active, cancelled, shutting>>
local  == <<pc, nm, lab, known, mode, asked, seen, verdict>>
vars   == <<inst, rented, record, lock, active, cancelled, shutting,
            pc, nm, lab, known, mode, asked, seen, verdict>>

\* A label starts at "none".  The create request makes it "pending"; Vast
\* answers with a "live" instance or has "refused".  A deleted instance is "dying"
\* until Vast reports it absent: "gone".
InstanceStates == {"none", "pending", "refused", "live", "dying", "gone"}

\* The states in which a label costs money, or still may come to.
Billing == {"pending", "live", "dying"}

\* deploy() holds the name's lock from "check" on; so does _destroy().
Deploying == {"check", "rent", "send", "reply", "withdraw", "saveid", "wait",
              "serve", "finish", "report"}
Destroying == {"find", "delete", "poll", "remove"}
Locked == Deploying \cup Destroying \cup {"leave"}
PCs == Locked \cup {"idle", "dlock", "unregister", "peek", "match", "slock"}

Modes == {"rollback", "finally", "stop"}

Verdicts == {"none", "ok", "failed", "confirmed", "unconfirmed", "closed",
             "stopped", "raised", "crashed"}

TypeOK ==
    /\ inst \in [Labels -> InstanceStates]
    /\ rented \in [Labels -> Names \cup {NoName}]
    /\ record \in [Names -> Records \cup {NoRecord}]
    /\ lock \in [Names -> Threads \cup {NoThread}]
    /\ active \subseteq (Processes \X Names)
    /\ cancelled \subseteq active
    /\ shutting \subseteq Processes
    /\ pc \in [Threads -> PCs]
    /\ nm \in [Threads -> Names \cup {NoName}]
    /\ lab \in [Threads -> Labels \cup {NoLabel}]
    /\ known \in [Threads -> BOOLEAN]
    /\ mode \in [Threads -> Modes]
    /\ asked \in [Threads -> Labels \cup {NoLabel}]
    /\ seen \in [Threads -> Labels \cup {NoLabel}]
    /\ verdict \in [Threads -> Verdicts]

Init ==
    /\ inst = [l \in Labels |-> "none"]
    /\ rented = [l \in Labels |-> NoName]
    /\ record = [n \in Names |-> NoRecord]
    /\ lock = [n \in Names |-> NoThread]
    /\ active = {} /\ cancelled = {} /\ shutting = {}
    /\ pc = [t \in Threads |-> "idle"]
    /\ nm = [t \in Threads |-> NoName]
    /\ lab = [t \in Threads |-> NoLabel]
    /\ known = [t \in Threads |-> FALSE]
    /\ mode = [t \in Threads |-> "stop"]
    /\ asked = [t \in Threads |-> NoLabel]
    /\ seen = [t \in Threads |-> NoLabel]
    /\ verdict = [t \in Threads |-> "none"]

Goto(t, where) == pc' = [pc EXCEPT ![t] = where]
Verdict(t, v) == verdict' = [verdict EXCEPT ![t] = v]
Mode(t, m) == mode' = [mode EXCEPT ![t] = m]

Saved(t, s) == [label |-> lab[t], known |-> known[t], state |-> s]

\* cancellation.is_set() or is_shutting_down()
IsCancelled(t) ==
    \/ <<ProcessOf[t], nm[t]>> \in cancelled
    \/ ProcessOf[t] \in shutting

-----------------------------------------------------------------------------
(* The provider.                                                           *)

\* Vast acts on the request, perhaps long after its reply was given up on.
Fulfil(l) ==
    /\ inst[l] = "pending"
    /\ inst' = [inst EXCEPT ![l] = "live"]
    /\ UNCHANGED <<rented, disk, table, local>>

Refuse(l) ==
    /\ inst[l] = "pending"
    /\ inst' = [inst EXCEPT ![l] = "refused"]
    /\ UNCHANGED <<rented, disk, table, local>>

\* The deletion takes effect; or the idle watchdog, the host or the user's
\* console ended the instance without any launchpad process taking part.
Vanish(l) ==
    /\ inst[l] \in {"live", "dying"}
    /\ inst' = [inst EXCEPT ![l] = "gone"]
    /\ UNCHANGED <<rented, disk, table, local>>

-----------------------------------------------------------------------------
(* deploy()                                                                *)

\* One deployment per name and process: a second one is turned away with an
\* unconfirmed rollback, which forbids the next rental of the ladder.
Deploy(t, n) ==
    /\ pc[t] = "idle"
    /\ nm' = [nm EXCEPT ![t] = n]
    /\ lab' = [lab EXCEPT ![t] = NoLabel]
    /\ known' = [known EXCEPT ![t] = FALSE]
    /\ asked' = [asked EXCEPT ![t] = NoLabel]
    /\ seen' = [seen EXCEPT ![t] = NoLabel]
    /\ \/ /\ <<ProcessOf[t], n>> \in active
          /\ Verdict(t, "unconfirmed")
          /\ UNCHANGED <<pc, active>>
       \/ /\ <<ProcessOf[t], n>> \notin active
          /\ active' = active \cup {<<ProcessOf[t], n>>}
          /\ Goto(t, "dlock")
          /\ Verdict(t, "none")
    /\ UNCHANGED <<remote, disk, cancelled, shutting, mode>>

DeployLock(t) ==
    /\ pc[t] = "dlock"
    /\ lock[nm[t]] = NoThread
    /\ lock' = [lock EXCEPT ![nm[t]] = t]
    /\ Goto(t, "check")
    /\ UNCHANGED <<remote, record, table, nm, lab, known, mode, asked, seen,
                   verdict>>

\* Slip: the record of an earlier rental does not refuse the name.
DeployCheckBlind(t) ==
    /\ pc[t] = "check"
    /\ \/ Goto(t, "report") /\ Verdict(t, "failed")
       \/ Goto(t, "rent") /\ UNCHANGED verdict
    /\ UNCHANGED <<remote, disk, table, nm, lab, known, mode, asked, seen>>

\* Everything up to the rental: an existing record refuses the name; the
\* preflight, the offer, its price or the fit may refuse too.
DeployCheck(t) ==
    /\ pc[t] = "check"
    /\ \/ record[nm[t]] # NoRecord /\ Goto(t, "report") /\ Verdict(t, "unconfirmed")
       \/ Goto(t, "report") /\ Verdict(t, "failed")
       \/ record[nm[t]] = NoRecord /\ Goto(t, "rent") /\ UNCHANGED verdict
    /\ UNCHANGED <<remote, disk, table, nm, lab, known, mode, asked, seen>>

\* Slip: the intent is not saved before the billable request.
DeployIntendUnsaved(t) ==
    /\ pc[t] = "rent"
    /\ ~IsCancelled(t)
    /\ \E l \in Labels :
          /\ rented[l] = NoName
          /\ rented' = [rented EXCEPT ![l] = nm[t]]
          /\ lab' = [lab EXCEPT ![t] = l]
    /\ Goto(t, "send")
    /\ UNCHANGED <<inst, disk, table, nm, known, mode, asked, seen, verdict>>

\* The last look at the cancellation before money is spent, then the intent
\* is saved under a label of its own.  The bound on labels reads as a refusal.
DeployIntend(t) ==
    /\ pc[t] = "rent"
    /\ \/ /\ IsCancelled(t) \/ \A l \in Labels : rented[l] # NoName
          /\ Goto(t, "report")
          /\ Verdict(t, "failed")
          /\ UNCHANGED <<rented, record, lab>>
       \/ /\ ~IsCancelled(t)
          /\ \E l \in Labels :
                /\ rented[l] = NoName
                /\ rented' = [rented EXCEPT ![l] = nm[t]]
                /\ lab' = [lab EXCEPT ![t] = l]
                /\ record' = [record EXCEPT ![nm[t]] =
                      [label |-> l, known |-> FALSE, state |-> "creating"]]
          /\ Goto(t, "send")
          /\ UNCHANGED verdict
    /\ UNCHANGED <<inst, lock, table, nm, known, mode, asked, seen>>

DeploySend(t) ==
    /\ pc[t] = "send"
    /\ inst' = [inst EXCEPT ![lab[t]] = "pending"]
    /\ Goto(t, "reply")
    /\ UNCHANGED <<rented, disk, table, nm, lab, known, mode, asked, seen,
                   verdict>>

\* Slip: a creation that failed without an answer counts as refused.
DeployReplyLostIsRefused(t) ==
    /\ pc[t] = "reply"
    /\ \/ /\ inst[lab[t]] \in {"live", "gone"}
          /\ known' = [known EXCEPT ![t] = TRUE]
          /\ Goto(t, "saveid")
       \/ Goto(t, "withdraw") /\ UNCHANGED known
    /\ UNCHANGED <<remote, disk, table, nm, lab, mode, asked, seen, verdict>>

\* _create_was_refused(): a 4xx answer other than 429 says nothing was made.
\* A timeout, a 429 or a 5xx says nothing, and 401 or 403 loses its status code
\* in _request(): they are rolled back by looking for the label.
DeployReply(t) ==
    /\ pc[t] = "reply"
    /\ \/ /\ inst[lab[t]] \in {"live", "gone"}
          /\ known' = [known EXCEPT ![t] = TRUE]
          /\ Goto(t, "saveid")
          /\ UNCHANGED mode
       \/ inst[lab[t]] = "refused" /\ Goto(t, "withdraw") /\ UNCHANGED <<known, mode>>
       \/ Goto(t, "find") /\ Mode(t, "rollback") /\ UNCHANGED known
    /\ UNCHANGED <<remote, disk, table, nm, lab, asked, seen, verdict>>

\* Nothing exists under the label: drop the record without a search.
DeployWithdraw(t) ==
    /\ pc[t] = "withdraw"
    /\ record' = [record EXCEPT ![nm[t]] = NoRecord]
    /\ Verdict(t, "confirmed")
    /\ Goto(t, "report")
    /\ UNCHANGED <<remote, lock, table, nm, lab, known, mode, asked, seen>>

DeploySaveId(t) ==
    /\ pc[t] = "saveid"
    /\ record' = [record EXCEPT ![nm[t]] = Saved(t, "creating")]
    /\ Goto(t, "wait")
    /\ UNCHANGED <<remote, lock, table, nm, lab, known, mode, asked, seen,
                   verdict>>

\* An exception after the rental: the except clause destroys what it made.
RollBack(t) ==
    /\ Goto(t, "find")
    /\ Mode(t, "rollback")

\* Waiting for SSH, then for the model.  The loops end by success, by
\* cancellation, by a deadline or by an error of the host or of Vast.
DeployAdvance(t) ==
    /\ \/ pc[t] = "wait" /\ inst[lab[t]] = "live" /\ Goto(t, "serve") /\ UNCHANGED mode
       \/ pc[t] = "serve" /\ inst[lab[t]] = "live" /\ Goto(t, "finish") /\ UNCHANGED mode
       \/ pc[t] \in {"wait", "serve"} /\ RollBack(t)
    /\ UNCHANGED <<remote, disk, table, nm, lab, known, asked, seen, verdict>>

\* Slip: "running" is saved from a copy of the record made before the rental.
DeployFinishForgets(t) ==
    /\ pc[t] = "finish"
    /\ ~IsCancelled(t)
    /\ record' = [record EXCEPT ![nm[t]] = [Saved(t, "running") EXCEPT !.known = FALSE]]
    /\ Verdict(t, "ok")
    /\ Goto(t, "leave")
    /\ UNCHANGED <<remote, lock, table, nm, lab, known, mode, asked, seen>>

\* The endpoint streamed; the cancellation is looked at once more before the
\* record says "running".
DeployFinish(t) ==
    /\ pc[t] = "finish"
    /\ \/ IsCancelled(t) /\ RollBack(t) /\ UNCHANGED <<record, verdict>>
       \/ /\ ~IsCancelled(t)
          /\ record' = [record EXCEPT ![nm[t]] = Saved(t, "running")]
          /\ Verdict(t, "ok")
          /\ Goto(t, "leave")
          /\ UNCHANGED mode
    /\ UNCHANGED <<remote, lock, table, nm, lab, known, asked, seen>>

\* The failure is reported, and the finally clause tries once more, silently,
\* to destroy a rental the except clause could not.
DeployReport(t) ==
    /\ pc[t] = "report"
    /\ \/ /\ verdict[t] = "unconfirmed" /\ lab[t] # NoLabel
          /\ Goto(t, "find")
          /\ Mode(t, "finally")
       \/ /\ ~(verdict[t] = "unconfirmed" /\ lab[t] # NoLabel)
          /\ Goto(t, "leave")
          /\ UNCHANGED mode
    /\ UNCHANGED <<remote, disk, table, nm, lab, known, asked, seen, verdict>>

\* The consumer closes the generator at one of its yields (GeneratorExit is no
\* Exception): only the finally clause runs.
CloseStream(t) ==
    /\ pc[t] \in {"rent", "wait", "serve"}
    /\ Verdict(t, "closed")
    /\ IF lab[t] # NoLabel
       THEN Goto(t, "find") /\ Mode(t, "finally")
       ELSE Goto(t, "leave") /\ UNCHANGED mode
    /\ UNCHANGED <<remote, disk, table, nm, lab, known, asked, seen>>

\* Slip: a path out of the deployment leaves the flock held.
DeployUnlockLeaks(t) ==
    /\ pc[t] = "leave"
    /\ Goto(t, "unregister")
    /\ UNCHANGED <<remote, disk, table, nm, lab, known, mode, asked, seen, verdict>>

\* Leaving locked(), then leaving _CANCELLATIONS.
DeployUnlock(t) ==
    /\ pc[t] = "leave"
    /\ lock' = [lock EXCEPT ![nm[t]] = NoThread]
    /\ Goto(t, "unregister")
    /\ UNCHANGED <<remote, record, table, nm, lab, known, mode, asked, seen,
                   verdict>>

DeployUnregister(t) ==
    /\ pc[t] = "unregister"
    /\ active' = active \ {<<ProcessOf[t], nm[t]>>}
    /\ cancelled' = cancelled \ {<<ProcessOf[t], nm[t]>>}
    /\ Goto(t, "idle")
    /\ UNCHANGED <<remote, disk, shutting, nm, lab, known, mode, asked, seen,
                   verdict>>

-----------------------------------------------------------------------------
(* _destroy(), under the name's lock, on behalf of deploy() or destroy().  *)

\* It raised: the rollback is unconfirmed, the finally clause swallows it,
\* destroy() hands it on.
DestroyFailed(t) ==
    \/ /\ mode[t] = "rollback"
       /\ Verdict(t, "unconfirmed")
       /\ Goto(t, "report")
       /\ UNCHANGED lock
    \/ /\ mode[t] = "finally"
       /\ Goto(t, "leave")
       /\ UNCHANGED <<verdict, lock>>
    \/ /\ mode[t] = "stop"
       /\ Verdict(t, "raised")
       /\ Goto(t, "idle")
       /\ lock' = [lock EXCEPT ![nm[t]] = NoThread]

\* Slip: a search by label that finds nothing proves that nothing exists.
DestroyFindAbsentIsGone(t) ==
    /\ pc[t] = "find"
    /\ \/ /\ inst[lab[t]] \in {"live", "dying"}
          /\ known' = [known EXCEPT ![t] = TRUE]
          /\ record' = [record EXCEPT ![nm[t]] =
                [label |-> lab[t], known |-> TRUE, state |-> "destroying"]]
          /\ Goto(t, "delete")
       \/ /\ inst[lab[t]] \notin {"live", "dying"}
          /\ Goto(t, "remove")
          /\ UNCHANGED <<known, record>>
    /\ UNCHANGED <<remote, lock, table, nm, lab, mode, asked, seen, verdict>>

\* Slip: the id found by label is used, and not saved with the new state.
DestroyFindIdUnsaved(t) ==
    /\ pc[t] = "find"
    /\ inst[lab[t]] \in {"live", "dying"}
    /\ known' = [known EXCEPT ![t] = TRUE]
    /\ record' = [record EXCEPT ![nm[t]] = Saved(t, "destroying")]
    /\ Goto(t, "delete")
    /\ UNCHANGED <<remote, lock, table, nm, lab, mode, asked, seen, verdict>>

\* _instance(): by id when it is known, otherwise by label, which must match
\* exactly one instance.  The id found by label is saved.
DestroyFind(t) ==
    /\ pc[t] = "find"
    /\ \/ /\ inst[lab[t]] \in {"live", "dying"}
          /\ known' = [known EXCEPT ![t] = TRUE]
          /\ record' = [record EXCEPT ![nm[t]] =
                [label |-> lab[t], known |-> TRUE, state |-> "destroying"]]
          /\ Goto(t, "delete")
          /\ UNCHANGED <<lock, verdict>>
       \/ /\ known[t] /\ inst[lab[t]] = "gone"
          /\ Goto(t, "remove")
          /\ UNCHANGED <<known, record, lock, verdict>>
       \/ DestroyFailed(t) /\ UNCHANGED <<known, record>>
    /\ UNCHANGED <<remote, table, nm, lab, mode, asked, seen>>

\* The DELETE may be answered, or fail with or without having acted.
DestroyDelete(t) ==
    /\ pc[t] = "delete"
    /\ \/ inst' = [inst EXCEPT ![lab[t]] = IF @ = "live" THEN "dying" ELSE @]
       \/ UNCHANGED inst
    /\ \/ inst'[lab[t]] # "live" /\ Goto(t, "poll") /\ UNCHANGED <<lock, verdict>>
       \/ DestroyFailed(t)
    /\ UNCHANGED <<rented, record, table, nm, lab, known, mode, asked, seen>>

\* Slip: after the last look the deletion is taken for granted.
DestroyPollGivesUp(t) ==
    /\ pc[t] = "poll"
    /\ Goto(t, "remove")
    /\ UNCHANGED <<remote, disk, table, nm, lab, known, mode, asked, seen, verdict>>

\* Up to ten looks for the absence.
DestroyPoll(t) ==
    /\ pc[t] = "poll"
    /\ \/ inst[lab[t]] = "gone" /\ Goto(t, "remove") /\ UNCHANGED <<lock, verdict>>
       \/ DestroyFailed(t)
    /\ UNCHANGED <<remote, record, table, nm, lab, known, mode, asked, seen>>

DestroyRemove(t) ==
    /\ pc[t] = "remove"
    /\ record' = [record EXCEPT ![nm[t]] = NoRecord]
    /\ \/ /\ mode[t] = "rollback"
          /\ Verdict(t, "confirmed")
          /\ Goto(t, "report")
          /\ UNCHANGED lock
       \/ /\ mode[t] = "finally"
          /\ Goto(t, "leave")
          /\ UNCHANGED <<verdict, lock>>
       \/ /\ mode[t] = "stop"
          /\ Verdict(t, "stopped")
          /\ Goto(t, "idle")
          /\ lock' = [lock EXCEPT ![nm[t]] = NoThread]
    /\ UNCHANGED <<remote, table, nm, lab, known, mode, asked, seen>>

-----------------------------------------------------------------------------
(* destroy(name=, instance_id=)                                            *)

\* By name, by id, or by both.  An id is one a listing showed for that name.
\* A deployment of the name running in this process is asked to give up.
Destroy(t, n, l) ==
    /\ pc[t] = "idle"
    /\ <<n, l>> # <<NoName, NoLabel>>
    /\ l # NoLabel =>
         /\ inst[l] \in {"live", "dying", "gone"}
         /\ n \in {rented[l], NoName}
    /\ cancelled' = cancelled \cup (active \cap {<<ProcessOf[t], n>>})
    /\ Goto(t, IF n = NoName THEN "match" ELSE "peek")
    /\ nm' = [nm EXCEPT ![t] = n]
    /\ asked' = [asked EXCEPT ![t] = l]
    /\ seen' = [seen EXCEPT ![t] =
          IF l # NoLabel THEN l
          ELSE IF record[n] # NoRecord THEN record[n].label ELSE NoLabel]
    /\ lab' = [lab EXCEPT ![t] = NoLabel]
    /\ known' = [known EXCEPT ![t] = FALSE]
    /\ Mode(t, "stop")
    /\ Verdict(t, "none")
    /\ UNCHANGED <<remote, disk, active, shutting>>

\* The first turn under the lock: no record means nothing to do.
DestroyPeek(t) ==
    /\ pc[t] = "peek"
    /\ lock[nm[t]] = NoThread
    /\ IF record[nm[t]] = NoRecord
       THEN Goto(t, "idle") /\ Verdict(t, "stopped")
       ELSE Goto(t, "match") /\ UNCHANGED verdict
    /\ UNCHANGED <<remote, disk, table, nm, lab, known, mode, asked, seen>>

\* _record(): exactly one record matches the id (or, without one, the name).
\* It is read with no lock held.
Matches(t) ==
    {n \in Names :
        /\ record[n] # NoRecord
        /\ IF asked[t] # NoLabel
           THEN record[n].known /\ record[n].label = asked[t]
           ELSE n = nm[t]}

DestroyMatch(t) ==
    /\ pc[t] = "match"
    /\ \/ \E n \in Names :
             /\ Matches(t) = {n}
             /\ nm' = [nm EXCEPT ![t] = n]
             /\ Goto(t, "slock")
             /\ UNCHANGED verdict
       \/ /\ ~ \E n \in Names : Matches(t) = {n}
          /\ Goto(t, "idle")
          /\ Verdict(t, "raised")
          /\ UNCHANGED nm
    /\ UNCHANGED <<remote, disk, table, lab, known, mode, asked, seen>>

\* The second turn under the lock: the record is loaded again, by name.
DestroyLock(t) ==
    /\ pc[t] = "slock"
    /\ lock[nm[t]] = NoThread
    /\ IF record[nm[t]] = NoRecord
       THEN /\ Goto(t, "idle")
            /\ Verdict(t, "stopped")
            /\ UNCHANGED <<lock, lab, known>>
       ELSE /\ lock' = [lock EXCEPT ![nm[t]] = t]
            /\ lab' = [lab EXCEPT ![t] = record[nm[t]].label]
            /\ known' = [known EXCEPT ![t] = record[nm[t]].known]
            /\ Goto(t, "find")
            /\ UNCHANGED verdict
    /\ UNCHANGED <<remote, record, table, nm, mode, asked, seen>>

-----------------------------------------------------------------------------
(* Processes                                                               *)

BeginShutdown(p) ==
    /\ p \notin shutting
    /\ \E t \in Threads : ProcessOf[t] = p /\ pc[t] # "idle"
    /\ shutting' = shutting \cup {p}
    /\ UNCHANGED <<remote, disk, active, cancelled, local>>

\* The process dies where it stands: the kernel drops its locks, its memory
\* is lost, the records and whatever the provider holds stay.
Crash(p) ==
    /\ \E t \in Threads : ProcessOf[t] = p /\ pc[t] # "idle"
    /\ pc' = [t \in Threads |-> IF ProcessOf[t] = p THEN "idle" ELSE pc[t]]
    /\ verdict' = [t \in Threads |->
          IF ProcessOf[t] = p /\ pc[t] # "idle" THEN "crashed" ELSE verdict[t]]
    /\ lock' = [n \in Names |->
          IF \E t \in Threads : lock[n] = t /\ ProcessOf[t] = p
          THEN NoThread ELSE lock[n]]
    /\ active' = {a \in active : a[1] # p}
    /\ cancelled' = {a \in cancelled : a[1] # p}
    /\ shutting' = shutting \ {p}
    /\ UNCHANGED <<remote, record, nm, lab, known, mode, asked, seen>>

-----------------------------------------------------------------------------
Waiting(t) == DeployLock(t) \/ DestroyPeek(t) \/ DestroyLock(t)

Working(t) ==
    \/ DeployCheck(t) \/ DeployIntend(t) \/ DeploySend(t) \/ DeployReply(t)
    \/ DeployWithdraw(t) \/ DeploySaveId(t) \/ DeployAdvance(t)
    \/ DeployFinish(t) \/ DeployReport(t) \/ DeployUnlock(t)
    \/ DeployUnregister(t)
    \/ DestroyFind(t) \/ DestroyDelete(t) \/ DestroyPoll(t)
    \/ DestroyRemove(t) \/ DestroyMatch(t)

Calling(t) ==
    \/ \E n \in Names : Deploy(t, n)
    \/ \E n \in Names \cup {NoName}, l \in Labels \cup {NoLabel} : Destroy(t, n, l)

Provider(l) == Fulfil(l) \/ Refuse(l) \/ Vanish(l)

Next ==
    \/ \E l \in Labels : Provider(l)
    \/ \E t \in Threads : Calling(t) \/ Waiting(t) \/ Working(t) \/ CloseStream(t)
    \/ \E p \in Processes : BeginShutdown(p) \/ Crash(p)

Spec == Init /\ [][Next]_vars

\* A running thread is scheduled, every provider loop has a deadline, and the
\* kernel serves the waiters of a flock in turn.
FairSpec ==
    /\ Spec
    /\ \A t \in Threads : WF_vars(Working(t)) /\ SF_vars(Waiting(t))

-----------------------------------------------------------------------------
(* Properties                                                              *)

\* Whatever may be billing is named by a record on disk, which the next
\* session can list and destroy: across crashes, lost replies, late
\* fulfilment and concurrent deploys and stops of one name.
EveryRentalRecorded ==
    \A l \in Labels :
        inst[l] \in Billing => \E n \in Names :
                                  record[n] # NoRecord /\ record[n].label = l

\* A rollback reported as confirmed lets the ladder rent again: the rental it
\* speaks of is over for good, and nothing on disk still names it.
ConfirmedMeansOver ==
    \A t \in Threads :
        (verdict[t] = "confirmed" /\ lab[t] # NoLabel) =>
            /\ inst[lab[t]] \in {"refused", "gone"}
            /\ \A n \in Names : record[n] # NoRecord => record[n].label # lab[t]

\* A stop that returns normally ("nothing remains billable") has ended the
\* rental it was called about, whoever did the work in between.
StoppedMeansOver ==
    \A t \in Threads :
        (verdict[t] = "stopped" /\ seen[t] # NoLabel) => inst[seen[t]] \notin Billing

\* At most one rental of a name costs money at any time, although a name is
\* rented again and again, by different processes.
OneRentalPerName ==
    \A l, m \in Labels :
        (inst[l] \in Billing /\ inst[m] \in Billing /\ rented[l] = rented[m])
            => l = m

\* An endpoint announced as running stays reachable by stop: its record keeps
\* its id until the rental is over.
RunningKeepsItsId ==
    \A n \in Names :
        (record[n] # NoRecord /\ record[n].state # "creating") => record[n].known

\* A record's id, once on disk, is never lost nor swapped for another rental
\* before this one is over.
IdNeverLost ==
    [][\A n \in Names :
          (record[n] # NoRecord /\ record[n].known /\ record'[n] # record[n])
          => \/ record'[n] = NoRecord /\ inst[record[n].label] = "gone"
             \/ /\ record'[n] # NoRecord
                /\ record'[n].label = record[n].label
                /\ record'[n].known]_vars

\* The records refine the ledger of RentalLedger.
Stage(l) ==
    CASE inst[l] = "none" /\ rented[l] = NoName -> "free"
      [] inst[l] = "none" /\ rented[l] # NoName -> "intended"
      [] inst[l] \in Billing -> "billing"
      [] inst[l] \in {"refused", "gone"} -> "over"

Ledger == INSTANCE RentalLedger WITH
    ledger <- [n \in Names |->
                  IF record[n] = NoRecord THEN NoLabel ELSE record[n].label],
    stage <- [l \in Labels |-> Stage(l)]

LedgerKept == Ledger!LedgerSpec

\* Every call of deploy() and destroy() comes back: no path out of the loops
\* keeps the name's lock, so a stop is never stuck behind a dead deployment.
EveryCallReturns ==
    \A t \in Threads : pc[t] # "idle" ~> pc[t] = "idle"

\* docs/vast.md:268 "Failed deployment and cancellation attempt to destroy
\* their own rental": they call destroy() with the id of that rental.  A
\* destroy() given an id deletes that instance and no other.
StopKeepsToItsTarget ==
    [][\A t \in Threads, l \in Labels :
          (/\ pc[t] = "delete" /\ mode[t] = "stop" /\ asked[t] # NoLabel
           /\ lab[t] = l /\ inst[l] = "live" /\ inst'[l] = "dying")
          => l = asked[t]]_vars

\* What is kept instead: the record may have changed hands between the match by
\* id and the load by name, but a stop asked for one rental deletes another only
\* of the same name, and only once the one it was asked for is over.
StopKeepsToItsName ==
    [][\A t \in Threads, l, a \in Labels :
          (/\ pc[t] = "delete" /\ mode[t] = "stop" /\ asked[t] = a
           /\ lab[t] = l /\ inst[l] = "live" /\ inst'[l] = "dying")
          => \/ l = a
             \/ rented[l] = rented[a] /\ inst[a] \in {"refused", "gone"}]_vars

-----------------------------------------------------------------------------
(* The inductive invariant behind the properties.                          *)

Recorded(l, n) == record[n] # NoRecord /\ record[n].label = l

\* Nothing exists under a label nobody drew.
UnusedIsNone == \A l \in Labels : rented[l] = NoName => inst[l] = "none"

\* A record names a label drawn for its own name.
RecordOwnsLabel ==
    \A l \in Labels, n \in Names : Recorded(l, n) => rented[l] = n

\* A label that was drawn keeps its record until its rental is over.
KeptUntilOver ==
    \A l \in Labels :
        rented[l] # NoName => \/ Recorded(l, rented[l])
                             \/ inst[l] \in {"refused", "gone"}

\* The thread is past saving its intent and has not dropped the record yet.
Owns(t) ==
    \/ pc[t] \in {"send", "reply", "withdraw", "saveid", "wait", "serve", "finish"}
    \/ pc[t] \in Destroying
    \/ pc[t] = "report" /\ verdict[t] = "unconfirmed" /\ lab[t] # NoLabel

LockHeld(t) == pc[t] \in Locked => nm[t] \in Names /\ lock[nm[t]] = t

OwnerRecorded(t) == Owns(t) => lab[t] \in Labels /\ Recorded(lab[t], nm[t])

StepReady(t) ==
    /\ pc[t] \in {"dlock", "peek", "slock", "unregister"} => nm[t] \in Names
    /\ pc[t] \in {"dlock", "check", "rent"} => lab[t] = NoLabel
    /\ pc[t] \in {"dlock", "check", "rent", "peek", "match", "slock"}
          => verdict[t] = "none"
    /\ pc[t] = "rent" => record[nm[t]] = NoRecord
    /\ pc[t] = "send" => inst[lab[t]] = "none"
    /\ pc[t] = "withdraw" => inst[lab[t]] = "refused"
    /\ pc[t] = "remove" => inst[lab[t]] = "gone"

\* A confirmed rollback stays true.
ConfirmedReady(t) ==
    (verdict[t] = "confirmed" /\ lab[t] # NoLabel) =>
        /\ inst[lab[t]] \in {"refused", "gone"}
        /\ rented[lab[t]] # NoName
        /\ \A n \in Names : ~ Recorded(lab[t], n)

\* What a destroy() remembers of its target, until it has returned.
Stopping(t) == pc[t] \in {"peek", "slock"} \/ (pc[t] \in Destroying /\ mode[t] = "stop")

SeenReady(t) ==
    seen[t] # NoLabel =>
        /\ Stopping(t) => rented[seen[t]] = nm[t]
        /\ pc[t] \in {"peek", "match"} /\ asked[t] # NoLabel => asked[t] = seen[t]
        /\ pc[t] = "match" => /\ rented[seen[t]] \in Names
                              /\ asked[t] = NoLabel => rented[seen[t]] = nm[t]
        /\ verdict[t] = "stopped" => inst[seen[t]] \in {"refused", "gone"}

IInv ==
    /\ TypeOK
    /\ UnusedIsNone
    /\ RecordOwnsLabel
    /\ KeptUntilOver
    /\ \A t \in Threads :
          /\ LockHeld(t) /\ OwnerRecorded(t) /\ StepReady(t)
          /\ ConfirmedReady(t) /\ SeenReady(t)

\* A thread has the id of what it waits for; until it has, the record has none.
IdReady(t) ==
    /\ pc[t] \in {"saveid", "wait", "serve", "finish"} => known[t]
    /\ pc[t] \in {"send", "reply", "withdraw"} => ~ record[nm[t]].known

\* What the ids of the records rest on, beside IInv.
IdInv == RunningKeepsItsId /\ \A t \in Threads : IdReady(t)

\* A destroy() that was given an id is about that rental.
AskedIsSeen ==
    \A t \in Threads : asked[t] # NoLabel => seen[t] = asked[t]

=============================================================================
