---------------------------- MODULE DurableJobs ----------------------------
(***************************************************************************)
(* Deployment jobs that outlive the session that began them:               *)
(* core/job_store.py, core/job_runner.py and core/deploy_journal.py, with  *)
(* the callers of tui/app.py and cli/jobs.py.                              *)
(*                                                                         *)
(* A session records a job and spawns a detached worker for it; the worker *)
(* claims the job, walks its ladder of approved placements and records the *)
(* outcome.  Sessions come and go, several at a time; each reconciles the  *)
(* jobs whose worker died and adopts what the journal remembers.  Workers  *)
(* and sessions may be killed between any two transactions of the store.   *)
(***************************************************************************)
EXTENDS Naturals, Sequences, FiniteSets

CONSTANTS
    Jobs,       \* job ids
    Keys,       \* deployment targets: (provider, backend, app_name)
    Ladders,    \* the ladders users approve: non-empty sequences of keys
    Workers,    \* worker processes; a pid is never used twice
    Sessions,   \* TUI and CLI processes, restarted at will
    Fragile,    \* the sessions that may be killed
    NoWorker, NoJob

ASSUME LadderAssumption == Ladders \subseteq (Seq(Keys) \ {<<>>})
ASSUME SessionAssumption == Fragile \subseteq Sessions
ASSUME NullAssumption == NoWorker \notin Workers /\ NoJob \notin Jobs

VARIABLES
    status,     \* jobs.status, or "none" before the row exists
    ladder,     \* config and fallback_configs of the job as created
    cfg,        \* which placement of the ladder the stored config is
    pid,        \* jobs.worker_pid
    cancelReq,  \* jobs.cancel_requested
    launched,   \* jobs a worker process was started for
    journal,    \* in_flight_deployments.json
    wpc, wjob,  \* where each worker is, and its argument
    base, at,   \* the placement it started from, and the current one
    plan, clears, \* the outcome it will record, and whether it clears the journal
    spc, sjob,  \* where each session is, and the job it works on
    snap, todo  \* its snapshots of the active jobs and of the journal

store == <<status, ladder, cfg, pid, cancelReq>>
work  == <<wpc, wjob, base, at, plan, clears>>
sess  == <<spc, sjob, snap, todo>>
vars  == <<status, ladder, cfg, pid, cancelReq, launched, journal,
           wpc, wjob, base, at, plan, clears, spc, sjob, snap, todo>>

Active == {"pending", "running"}
Terminal == {"succeeded", "failed", "cancelled", "interrupted"}
WorkerPCs == {"off", "read", "probe", "claim", "enter", "check", "attempt",
              "deploy", "finish", "clear", "zombie", "gone"}
SessionPCs == {"idle", "reconcile", "import", "adopt", "clear", "create",
               "spawn", "cancel"}

TypeOK ==
    /\ status \in [Jobs -> {"none"} \cup Active \cup Terminal]
    /\ ladder \in [Jobs -> Seq(Keys)]
    /\ cfg \in [Jobs -> Nat]
    /\ \A j \in Jobs : status[j] # "none" => cfg[j] \in 1..Len(ladder[j])
    /\ pid \in [Jobs -> Workers \cup {NoWorker}]
    /\ cancelReq \in [Jobs -> BOOLEAN]
    /\ launched \subseteq {j \in Jobs : status[j] # "none"}
    /\ journal \subseteq Keys
    /\ wpc \in [Workers -> WorkerPCs]
    /\ wjob \in [Workers -> Jobs \cup {NoJob}]
    /\ \A w \in Workers : wpc[w] # "off" => wjob[w] \in launched
    /\ base \in [Workers -> Nat]
    /\ at \in [Workers -> Nat]
    /\ plan \in [Workers -> {"none"} \cup Terminal]
    /\ clears \in [Workers -> BOOLEAN]
    /\ spc \in [Sessions -> SessionPCs]
    /\ sjob \in [Sessions -> Jobs \cup {NoJob}]
    /\ snap \in [Sessions -> SUBSET Jobs]
    /\ todo \in [Sessions -> SUBSET Keys]

Init ==
    /\ status = [j \in Jobs |-> "none"]
    /\ ladder = [j \in Jobs |-> <<>>]
    /\ cfg = [j \in Jobs |-> 1]
    /\ pid = [j \in Jobs |-> NoWorker]
    /\ cancelReq = [j \in Jobs |-> FALSE]
    /\ launched = {} /\ journal = {}
    /\ wpc = [w \in Workers |-> "off"]
    /\ wjob = [w \in Workers |-> NoJob]
    /\ base = [w \in Workers |-> 1]
    /\ at = [w \in Workers |-> 1]
    /\ plan = [w \in Workers |-> "none"]
    /\ clears = [w \in Workers |-> FALSE]
    /\ spc = [s \in Sessions |-> "idle"]
    /\ sjob = [s \in Sessions |-> NoJob]
    /\ snap = [s \in Sessions |-> {}]
    /\ todo = [s \in Sessions |-> {}]

\* The row's provider, backend and app_name columns.
Target(j) == ladder[j][cfg[j]]

\* kill(pid, 0) succeeds: a worker that ended is a zombie, and counts as
\* alive, until the session that spawned it reaps it or ends.
PidAlive(p) == p \in Workers /\ wpc[p] \notin {"off", "gone"}

GoWorker(w, where) == wpc' = [wpc EXCEPT ![w] = where]
GoSession(s, where) == spc' = [spc EXCEPT ![s] = where]

-----------------------------------------------------------------------------
(* Transactions of the store that several callers share.                   *)

Occupied(k) == \E j \in Jobs : status[j] \in Active /\ Target(j) = k

\* Slip: only a running job counts as a duplicate.
CreateJobBesidePending(j, l) ==
    /\ status[j] = "none"
    /\ ~ \E i \in Jobs : status[i] = "running" /\ Target(i) = l[1]
    /\ status' = [status EXCEPT ![j] = "pending"]
    /\ ladder' = [ladder EXCEPT ![j] = l]
    /\ UNCHANGED <<cfg, pid, cancelReq>>

\* create_job(): one BEGIN IMMEDIATE transaction from the duplicate check to
\* the insert.
CreateJob(j, l) ==
    /\ status[j] = "none"
    /\ ~ Occupied(l[1])
    /\ status' = [status EXCEPT ![j] = "pending"]
    /\ ladder' = [ladder EXCEPT ![j] = l]
    /\ UNCHANGED <<cfg, pid, cancelReq>>

\* The insert fails: a duplicate, or the bound on jobs.
CreateFails(l) == Occupied(l[1]) \/ \A j \in Jobs : status[j] # "none"

\* finish_job() overwrites whatever status the row has.
FinishJob(j, s) ==
    /\ status' = [status EXCEPT ![j] = s]
    /\ UNCHANGED <<ladder, cfg, pid, cancelReq>>

\* The new process has run no line of main() yet.
StartWorker(w, j) ==
    /\ wpc[w] = "off"
    /\ GoWorker(w, "read")
    /\ wjob' = [wjob EXCEPT ![w] = j]
    /\ launched' = launched \cup {j}
    /\ UNCHANGED <<base, at, plan, clears>>

-----------------------------------------------------------------------------
(* The worker: main(), run_job() and _run_claimed_job().                   *)

\* Slip: a running job is taken over without a look at its worker.
WorkerReadTakesOver(w) ==
    /\ wpc[w] = "read"
    /\ GoWorker(w, CASE status[wjob[w]] = "pending" -> "claim"
                     [] status[wjob[w]] = "running" -> "enter"
                     [] OTHER -> "zombie")
    /\ UNCHANGED <<store, launched, journal, wjob, base, at, plan, clears, sess>>

\* A job that ended is left alone.
WorkerRead(w) ==
    /\ wpc[w] = "read"
    /\ GoWorker(w, CASE status[wjob[w]] = "pending" -> "claim"
                     [] status[wjob[w]] = "running" -> "probe"
                     [] OTHER -> "zombie")
    /\ UNCHANGED <<store, launched, journal, wjob, base, at, plan, clears, sess>>

\* So is one that a living worker owns.  If the worker that it had when its row was
\* read is dead now, it is taken over as it stands, without a claim.
WorkerProbe(w) ==
    /\ wpc[w] = "probe"
    /\ GoWorker(w, IF PidAlive(pid[wjob[w]]) THEN "zombie" ELSE "enter")
    /\ UNCHANGED <<store, launched, journal, wjob, base, at, plan, clears, sess>>

\* Slip: the claim does not ask again whether the job is still pending.
WorkerClaimBlind(w) ==
    /\ wpc[w] = "claim"
    /\ status' = [status EXCEPT ![wjob[w]] = "running"]
    /\ pid' = [pid EXCEPT ![wjob[w]] = w]
    /\ GoWorker(w, "enter")
    /\ UNCHANGED <<ladder, cfg, cancelReq, launched, journal, wjob, base, at,
                   plan, clears, sess>>

\* Slip: the claim does not look at the request to cancel.
WorkerClaimDeaf(w) ==
    LET j == wjob[w] IN
    /\ wpc[w] = "claim"
    /\ \/ status[j] # "pending" /\ GoWorker(w, "zombie") /\ UNCHANGED <<status, pid>>
       \/ /\ status[j] = "pending"
          /\ status' = [status EXCEPT ![j] = "running"]
          /\ pid' = [pid EXCEPT ![j] = w]
          /\ GoWorker(w, "enter")
    /\ UNCHANGED <<ladder, cfg, cancelReq, launched, journal, wjob, base, at,
                   plan, clears, sess>>

\* claim_job(), one transaction.
WorkerClaim(w) ==
    LET j == wjob[w] IN
    /\ wpc[w] = "claim"
    /\ \/ status[j] # "pending" /\ GoWorker(w, "zombie") /\ UNCHANGED <<status, pid>>
       \/ /\ status[j] = "pending" /\ cancelReq[j]
          /\ status' = [status EXCEPT ![j] = "cancelled"]
          /\ GoWorker(w, "zombie")
          /\ UNCHANGED pid
       \/ /\ status[j] = "pending" /\ ~ cancelReq[j]
          /\ status' = [status EXCEPT ![j] = "running"]
          /\ pid' = [pid EXCEPT ![j] = w]
          /\ GoWorker(w, "enter")
    /\ UNCHANGED <<ladder, cfg, cancelReq, launched, journal, wjob, base, at,
                   plan, clears, sess>>

\* The stored placement is snapshotted, and journalled under its own key.
WorkerEnter(w) ==
    LET j == wjob[w] IN
    /\ wpc[w] = "enter"
    /\ base' = [base EXCEPT ![w] = cfg[j]]
    /\ at' = [at EXCEPT ![w] = cfg[j]]
    /\ journal' = journal \cup {Target(j)}
    /\ GoWorker(w, "check")
    /\ UNCHANGED <<store, launched, wjob, plan, clears, sess>>

Settle(w, s, c) ==
    /\ plan' = [plan EXCEPT ![w] = s]
    /\ clears' = [clears EXCEPT ![w] = c]
    /\ GoWorker(w, "finish")

\* The cancellation is looked at before the lifecycle starts, and again by
\* run_lifecycle() before every attempt: then the current placement is the one that
\* was tried last, not the one that was to come.
WorkerCheck(w) ==
    /\ wpc[w] = "check"
    /\ IF cancelReq[wjob[w]]
       THEN /\ Settle(w, "cancelled", TRUE)
            /\ at' = [at EXCEPT ![w] = IF @ = base[w] THEN @ ELSE @ - 1]
       ELSE GoWorker(w, "attempt") /\ UNCHANGED <<at, plan, clears>>
    /\ UNCHANGED <<store, launched, journal, wjob, base, sess>>

\* on_attempt_start(): update_config() points the row at a fallback placement
\* and asks nobody whether another job has that target.
WorkerAttempt(w) ==
    /\ wpc[w] = "attempt"
    /\ cfg' = IF at[w] = base[w] THEN cfg ELSE [cfg EXCEPT ![wjob[w]] = at[w]]
    /\ GoWorker(w, "deploy")
    /\ UNCHANGED <<status, ladder, pid, cancelReq, launched, journal, wjob,
                   base, at, plan, clears, sess>>

\* A stored fallback placement has no fallbacks of its own.
LastOf(w) == IF base[w] = 1 THEN Len(ladder[wjob[w]]) ELSE base[w]

\* The attempt ended.  A retryable failure goes on to the next placement; the
\* other outcomes rewrite the config and are recorded next.
WorkerDeploy(w) ==
    LET j == wjob[w]
        current == [cfg EXCEPT ![j] = at[w]]
    IN
    /\ wpc[w] = "deploy"
    /\ \/ /\ at[w] < LastOf(w)
          /\ at' = [at EXCEPT ![w] = @ + 1]
          /\ GoWorker(w, "check")
          /\ UNCHANGED <<cfg, plan, clears>>
       \/ Settle(w, "succeeded", TRUE) /\ cfg' = current /\ UNCHANGED at
       \/ /\ \E c \in BOOLEAN : Settle(w, "failed", c)
          /\ cfg' \in {cfg, current}
          /\ UNCHANGED at
       \/ cancelReq[j] /\ Settle(w, "cancelled", TRUE) /\ UNCHANGED <<cfg, at>>
    /\ UNCHANGED <<status, ladder, pid, cancelReq, launched, journal, wjob,
                   base, sess>>

WorkerFinish(w) ==
    /\ wpc[w] = "finish"
    /\ FinishJob(wjob[w], plan[w])
    /\ GoWorker(w, IF clears[w] THEN "clear" ELSE "zombie")
    /\ UNCHANGED <<launched, journal, wjob, base, at, plan, clears, sess>>

\* _clear_journal(current): the entry of the current placement.
WorkerClear(w) ==
    /\ wpc[w] = "clear"
    /\ journal' = journal \ {ladder[wjob[w]][at[w]]}
    /\ GoWorker(w, "zombie")
    /\ UNCHANGED <<store, launched, wjob, base, at, plan, clears, sess>>

\* Killed, or a host reboot.
WorkerDies(w) ==
    /\ wpc[w] \notin {"off", "zombie", "gone"}
    /\ GoWorker(w, "zombie")
    /\ plan' = [plan EXCEPT ![w] = "none"]
    /\ UNCHANGED <<store, launched, journal, wjob, base, at, clears, sess>>

\* The parent starts another subprocess (Popen reaps old ones) or ends.
Reap(w) ==
    /\ wpc[w] = "zombie"
    /\ GoWorker(w, "gone")
    /\ UNCHANGED <<store, launched, journal, wjob, base, at, plan, clears, sess>>

-----------------------------------------------------------------------------
(* Sessions: the TUI's start and begin_deploy(), and the jobs commands.    *)

\* Slip: the jobs that run are not listed for reconciliation.
ListedPending == {j \in Jobs : status[j] = "pending" /\ pid[j] # NoWorker}

\* list_jobs(include_terminal=False) of reconcile_workers().  Only the jobs
\* that have a worker pid are of interest to it.
Listed == {j \in Jobs : status[j] \in Active /\ pid[j] # NoWorker}

\* jobs list, show or follow; the TUI comes up; begin_deploy(): all three
\* reconcile first.
SessionStart(s) ==
    /\ spc[s] = "idle"
    /\ snap' = [snap EXCEPT ![s] = Listed]
    /\ GoSession(s, "reconcile")
    /\ UNCHANGED <<store, launched, journal, work, sjob, todo>>

\* Slip: a worker that was not heard of lately is taken for dead.
SessionReconcileUnprobed(s) ==
    /\ spc[s] = "reconcile"
    /\ \E j \in snap[s] :
          /\ snap' = [snap EXCEPT ![s] = @ \ {j}]
          /\ FinishJob(j, "interrupted")
    /\ UNCHANGED <<launched, journal, work, spc, sjob, todo>>

\* One job of the snapshot: its worker's pid is probed now, whatever became of
\* the job since the snapshot was taken.
SessionReconcile(s) ==
    /\ spc[s] = "reconcile"
    /\ \E j \in snap[s] :
          /\ snap' = [snap EXCEPT ![s] = @ \ {j}]
          /\ IF PidAlive(pid[j])
             THEN UNCHANGED store
             ELSE FinishJob(j, "interrupted")
    /\ UNCHANGED <<launched, journal, work, spc, sjob, todo>>

\* The jobs commands are through; the others go on to import_journal_entries().
SessionLoad(s) ==
    /\ spc[s] = "reconcile" /\ snap[s] = {}
    /\ \/ GoSession(s, "idle") /\ UNCHANGED todo
       \/ GoSession(s, "import") /\ todo' = [todo EXCEPT ![s] = journal]
    /\ UNCHANGED <<store, launched, journal, work, sjob, snap>>

\* An entry becomes a job of its own unless its target has an active one.
SessionImport(s) ==
    /\ spc[s] = "import"
    /\ \E k \in todo[s] :
          \/ /\ \E j \in Jobs :
                   /\ CreateJob(j, <<k>>)
                   /\ sjob' = [sjob EXCEPT ![s] = j]
             /\ GoSession(s, "adopt")
             /\ UNCHANGED todo
          \/ /\ CreateFails(<<k>>)
             /\ todo' = [todo EXCEPT ![s] = @ \ {k}]
             /\ UNCHANGED <<store, sjob, spc>>
    /\ UNCHANGED <<launched, journal, work, snap>>

SessionAdopt(s) ==
    /\ spc[s] = "adopt"
    /\ FinishJob(sjob[s], "interrupted")
    /\ GoSession(s, "clear")
    /\ UNCHANGED <<launched, journal, work, sjob, snap, todo>>

SessionClear(s) ==
    LET k == ladder[sjob[s]][1] IN
    /\ spc[s] = "clear"
    /\ journal' = journal \ {k}
    /\ todo' = [todo EXCEPT ![s] = @ \ {k}]
    /\ GoSession(s, "import")
    /\ UNCHANGED <<store, launched, work, sjob, snap>>

\* The TUI has come up, or begin_deploy() goes on.
SessionImported(s) ==
    /\ spc[s] = "import" /\ todo[s] = {}
    /\ \E where \in {"idle", "create"} : GoSession(s, where)
    /\ UNCHANGED <<store, launched, journal, work, sjob, snap, todo>>

\* A refused duplicate reopens the monitor of the job that has the target.
SessionCreate(s, l) ==
    /\ spc[s] = "create"
    /\ \/ \E j \in Jobs :
             /\ CreateJob(j, l)
             /\ sjob' = [sjob EXCEPT ![s] = j]
             /\ GoSession(s, "spawn")
       \/ CreateFails(l) /\ GoSession(s, "idle") /\ UNCHANGED <<store, sjob>>
    /\ UNCHANGED <<launched, journal, work, snap, todo>>

\* spawn_job_worker(); when Popen raises the job row stays as it is.
SessionSpawn(s) ==
    /\ spc[s] = "spawn"
    /\ \/ \E w \in Workers : StartWorker(w, sjob[s])
       \/ UNCHANGED <<launched, work>>
    /\ GoSession(s, "idle")
    /\ UNCHANGED <<store, journal, sjob, snap, todo>>

\* python -m llm_launchpad.core.job_runner <job-id>, by hand.
Relaunch(w, j) ==
    /\ j \in launched
    /\ StartWorker(w, j)
    /\ UNCHANGED <<store, journal, sess>>

\* request_cancel() reads the status in one transaction ...
SessionCancel(s, j) ==
    /\ spc[s] = "idle"
    /\ status[j] \in Active
    /\ sjob' = [sjob EXCEPT ![s] = j]
    /\ GoSession(s, "cancel")
    /\ UNCHANGED <<store, launched, journal, work, snap, todo>>

\* Slip: the request for a cancellation ends the job itself.
SessionSetFlagEnds(s) ==
    /\ spc[s] = "cancel"
    /\ FinishJob(sjob[s], "cancelled")
    /\ GoSession(s, "idle")
    /\ UNCHANGED <<launched, journal, work, sjob, snap, todo>>

\* ... and sets the flag in another.
SessionSetFlag(s) ==
    /\ spc[s] = "cancel"
    /\ cancelReq' = [cancelReq EXCEPT ![sjob[s]] = TRUE]
    /\ GoSession(s, "idle")
    /\ UNCHANGED <<status, ladder, cfg, pid, launched, journal, work, sjob,
                   snap, todo>>

SessionDies(s) ==
    /\ s \in Fragile
    /\ spc[s] # "idle"
    /\ GoSession(s, "idle")
    /\ UNCHANGED <<store, launched, journal, work, sjob, snap, todo>>

-----------------------------------------------------------------------------
Working(w) ==
    \/ WorkerRead(w) \/ WorkerProbe(w) \/ WorkerClaim(w) \/ WorkerEnter(w)
    \/ WorkerCheck(w) \/ WorkerAttempt(w) \/ WorkerDeploy(w) \/ WorkerFinish(w)
    \/ WorkerClear(w)

Proceeding(s) ==
    \/ SessionReconcile(s) \/ SessionLoad(s) \/ SessionImport(s)
    \/ SessionAdopt(s) \/ SessionClear(s) \/ SessionImported(s)
    \/ \E l \in Ladders : SessionCreate(s, l)
    \/ SessionSpawn(s) \/ SessionSetFlag(s)

Next ==
    \/ \E w \in Workers : Working(w) \/ WorkerDies(w) \/ Reap(w)
    \/ \E w \in Workers, j \in Jobs : Relaunch(w, j)
    \/ \E s \in Sessions :
          SessionStart(s) \/ Proceeding(s) \/ SessionDies(s)
    \/ \E s \in Sessions, j \in Jobs : SessionCancel(s, j)

Spec == Init /\ [][Next]_vars

\* A worker is scheduled and its provider calls have deadlines; the session
\* that spawned it starts other processes or ends; and Launchpad is used
\* again: some session that is not killed reconciles over and over.
FairSpec ==
    /\ Spec
    /\ \A w \in Workers : WF_vars(Working(w)) /\ WF_vars(Reap(w))
    /\ \A s \in Sessions : WF_vars(Proceeding(s)) /\ SF_vars(SessionStart(s))

-----------------------------------------------------------------------------
(* Properties                                                              *)

\* The worker has the job in hand: it may allocate, and will record an outcome.
Runs(w, j) ==
    wjob[w] = j /\ wpc[w] \in {"enter", "check", "attempt", "deploy", "finish"}

\* run_job() "Another worker owns it; never run allocation twice": two workers
\* can have one job in hand only after the one that claimed it is dead.
OwnerExclusive ==
    \A j \in Jobs, v, w \in Workers :
        Runs(v, j) /\ Runs(w, j) /\ v # w => ~ PidAlive(pid[j])

\* A job that is shown as ended is not being deployed, unless by a process
\* that took it over from a dead worker.
EndedIsNotRunning ==
    \A j \in Jobs, w \in Workers :
        status[j] \in Terminal /\ Runs(w, j) => ~ PidAlive(pid[j])

\* Two active jobs have one target only when one of them fell back onto it, or
\* is a dead worker's: create_job() lets no other duplicate in.
DuplicateOnlyByFallback ==
    \A i, j \in Jobs :
        (/\ i # j /\ status[i] \in Active /\ status[j] \in Active
         /\ Target(i) = Target(j))
        => \E d \in {i, j} :
              cfg[d] > 1 \/ (pid[d] # NoWorker /\ ~ PidAlive(pid[d]))

\* "interrupted" is said of nobody's running job: its worker is dead, or it
\* never had one.
InterruptedIsDead ==
    \A j \in Jobs : status[j] = "interrupted" => ~ PidAlive(pid[j])

\* reconcile_workers() "only the worker may end its own job": while the worker
\* that claimed a job is alive, nobody else changes the job's status.
LiveOwnerDecides ==
    [][\A j \in Jobs :
          (status[j] = "running" /\ PidAlive(pid[j]) /\ status'[j] # "running")
          => wpc[pid[j]] = "finish" /\ wpc'[pid[j]] # "finish"]_vars

\* The rows are the board of JobBoard, on which a process that nobody reaped yet
\* counts as living.
Life(w) == CASE wpc[w] = "off" -> "unborn"
             [] wpc[w] = "gone" -> "gone"
             [] wpc[w] \notin {"off", "gone"} -> "living"

Board == INSTANCE JobBoard WITH
    state <- status,
    owner <- pid,
    asked <- {j \in Jobs : cancelReq[j]},
    life <- [w \in Workers |-> Life(w)]

\* Whatever workers, takeovers, reconciliations, imports and cancellations write: a job
\* is claimed once and never runs again after its end; its living owner alone ends it,
\* once; and it is called cancelled only after somebody asked for that.
BoardKept == Board!Spec

\* A claimed job comes to an end, by its worker or by reconciliation.
EveryClaimedJobEnds ==
    \A j \in Jobs : status[j] = "running" ~> status[j] # "running"

\* job_store.py:529 "A live pid is trusted -- only the worker may end its own
\* job": what a worker recorded as the outcome of its job stays recorded.
OutcomeStands ==
    [][\A j \in Jobs :
          status[j] \in {"succeeded", "failed", "cancelled"}
              => status'[j] = status[j]]_vars

\* deploy_journal.py:10 "cleared once the outcome is known.  An entry
\* surviving into the next session means the previous one did not finish": a
\* worker that recorded a success leaves no entry of its ladder behind.
SuccessClearsJournal ==
    \A w \in Workers :
        (wpc[w] \in {"zombie", "gone"} /\ plan[w] = "succeeded")
            => \A i \in base[w]..LastOf(w) :
                  \/ ladder[wjob[w]][i] \notin journal
                  \/ \E v \in Workers \ {w} : wpc[v] # "off"

\* app.py:932 "Reconcile dead workers first so a crashed job cannot block its
\* name forever": a job whose worker was started does not stay pending.
CrashFreesName ==
    \A j \in Jobs :
        (j \in launched /\ status[j] = "pending") ~> status[j] # "pending"

-----------------------------------------------------------------------------
(* The inductive invariant behind the safety properties.                   *)

InHand(w) == wpc[w] \in {"enter", "check", "attempt", "deploy", "finish"}

\* A job has a pid from its claim on, for good.
PidFollowsStatus ==
    \A j \in Jobs :
        /\ status[j] \in {"none", "pending"} => pid[j] = NoWorker
        /\ status[j] = "running" => pid[j] \in Workers
        /\ status[j] = "none" => cfg[j] = 1

PidIsItsWorker ==
    \A j \in Jobs :
        pid[j] \in Workers => /\ wpc[pid[j]] \notin {"off", "read", "probe", "claim"}
                              /\ wjob[pid[j]] = j

\* Who has a job in hand claimed it, and the job still says "running"; or took
\* it over from a dead worker.  Who probes a job's worker does so because it has one.
HolderOwns(w) ==
    LET j == wjob[w] IN
    /\ InHand(w) => /\ pid[j] \in Workers
                    /\ pid[j] = w => status[j] = "running"
                    /\ pid[j] # w => ~ PidAlive(pid[j])
    /\ wpc[w] = "probe" => pid[j] \in Workers

\* A worker walks its ladder upwards; the row follows its owner.
PlacementReady(w) ==
    LET j == wjob[w] IN
    /\ wpc[w] \in {"check", "attempt", "deploy", "finish", "clear"}
          => /\ 1 <= base[w] /\ base[w] <= at[w] /\ at[w] <= Len(ladder[j])
             /\ j \in Jobs
    /\ wpc[w] \in {"check", "attempt"} /\ at[w] = base[w] /\ pid[j] = w
          => cfg[j] = at[w]
    /\ wpc[w] = "deploy" /\ pid[j] = w => cfg[j] = at[w]
    /\ wpc[w] = "finish" => plan[w] \in {"succeeded", "failed", "cancelled"}

\* A job between its insert and what its session does next is nobody else's.
FreshKept(s) ==
    /\ spc[s] \in {"adopt", "spawn"} =>
          /\ sjob[s] \in Jobs
          /\ status[sjob[s]] = "pending"
          /\ sjob[s] \notin launched
    /\ spc[s] \in {"cancel", "clear"} => sjob[s] \in Jobs
    /\ \A j \in snap[s] : pid[j] # NoWorker

FreshApart ==
    \A r, s \in Sessions :
        (r # s /\ spc[r] \in {"adopt", "spawn"} /\ spc[s] \in {"adopt", "spawn"})
            => sjob[r] # sjob[s]

IInv ==
    /\ TypeOK
    /\ PidFollowsStatus
    /\ PidIsItsWorker
    /\ InterruptedIsDead
    /\ DuplicateOnlyByFallback
    /\ \A w \in Workers : HolderOwns(w) /\ PlacementReady(w)
    /\ \A s \in Sessions : FreshKept(s)
    /\ FreshApart

\* A worker that is about to call its job cancelled saw the request.
CancelWasAsked ==
    \A w \in Workers :
        (wpc[w] = "finish" /\ plan[w] = "cancelled") => cancelReq[wjob[w]]

\* A session asks to cancel a job that there is.
AsksForAJob ==
    \A s \in Sessions :
        spc[s] = "cancel" => sjob[s] \in Jobs /\ status[sjob[s]] # "none"

\* What the steps to JobBoard rest on, beside IInv.
AskInv == CancelWasAsked /\ AsksForAJob

=============================================================================
