# Verification of llm-launchpad

llm-launchpad rents GPU machines from Modal, Prime Intellect and Vast.ai, serves
a language model on them, and ends the rental when the user is done. What can
really go wrong costs money: a rental that bills while nothing on this side
remembers it, a second rental beside the first, a cleanup that is reported and
did not happen, a job that is shown as ended while it deploys. These happen when
replies get lost, processes die, users cancel and several processes work on one
name, which tests hardly reach. The modules here model that control;
TLC checks it on small instances and TLAPS proves the main results for all.

Paths below are relative to `src/llm_launchpad/`, unless they begin with `docs/`.

## Inventory

| Part | State it keeps | Operations | Hard behaviour | What makes it correct |
|---|---|---|---|---|
| Vast rentals: `core/vast_deployment.py`, `vast_state.py`, `vast_backend.py`, `shutdown.py` | `record.json` per name, `flock` per name, `_CANCELLATIONS` per process; at Vast: one instance per label | `deploy`, `destroy`, `connect`, `logs`, `list_deployments` | lost replies, late fulfilment, crash between save and request, stream closed at a `yield`, two processes on a name | what bills is on record; one rental per name; "confirmed" is true; every call returns |
| Durable jobs: `core/job_store.py`, `job_runner.py`, `deploy_journal.py`, `cli/jobs.py`, part of `tui/app.py` | SQLite tables `jobs`, `events`; `in_flight_deployments.json`; worker processes | `create_job`, `claim_job`, `update_config`, `finish_job`, `request_cancel`, `reconcile_workers`, `import_journal_entries`, `run_job` | sessions and workers interleave between transactions and die anywhere | one owner per job; only dead workers are interrupted; one active job per target; a claimed job ends |
| Deployment lifecycle: `core/deployment_lifecycle.py`, `provider_adapters.py`, `resource_targeting.py` | the ladder, the outcomes, the resource id seen so far | `run_lifecycle`, `_run_single_attempt`, `_cancel_cleanup`, `_finalize_failed` | cancellation between any two events, uncertain allocation, failed rollback | the next placement only when the last one is surely over; the outcome says what was left |
| Prime and Modal deployment: `core/orchestrator.py`, `prime_backend.py`, `backend.py` | pods, tunnels and apps at the provider; nothing on disk | `_deploy_prime`, `_cleanup_failed_prime_pod`, `delete_pod`, `stop_app` | creation without an idempotency key, two things to clean up, a stop that meets the deployment | what bills was announced; a stop called done ended the bill; no tunnel without a pod |
| Prime disks: `core/prime_disks.py` | `disks.json`; disks that bill until deleted | `resolve_prime_offer_and_disk`, `_create_cache_disk`, `list_retained_prime_disks`, `delete_retained_prime_disk` | a file changed without a lock and written in place, answers that are old when used, disks that fail and bill on | what bills is remembered, but for what a failure made it lose; what is forgotten is of no use |
| Idle watchdogs: `core/idle_watchdog.py`, `local_watchdog.py` | time of the last request seen | one look per poll, destroy | requests between looks, looks that fail, sleep, failing deletions | an idle rental ends; the decision was right |
| Job followers: `cli/jobs.py`, `tui/app.py`, `core/job_store.py` | number of the last event seen, the session's cancellation | tail, reopen, `jobs follow`, `jobs cancel` | log and row read at two times, a limited read, a store that fails | the whole log is shown; a watch ends; a cancellation arrives |
| Fleet and editor: discovery passes of `tui/app.py`, `core/orchestrator.py`, `core/opencode.py`, `cli/` | retained listings; the editor's configuration and Launchpad's registry of its entries | refresh, stop, publish, `opencode sync` | providers that fail or seem signed out, passes that overtake each other, two files | a running deployment stays listed and published; every entry is managed |
| Connection files: `core/connection_store.py` | JSON files | add, remove | two writers | no entry lost |
| Warmup and probes: `core/warmup.py` | none | HTTP probes | deadlines | three outcomes, one of them at the deadline |
| Availability, refresh: `core/quick_deploy_refresh.py`, `compute_availability.py` | caches | refresh, read | several refreshers | old results do not replace new ones |
| Storage, planners, models, preflight, Modal apps, benchmarks, user interfaces | little | queries and rendering | none | arithmetic, parsing, layout |

How they interact: a session (TUI or CLI) records a **job** and spawns a worker
process for it. The worker claims the job and calls `run_lifecycle()`, which
consumes the event stream of a **provider's deploy**, one placement after the
other. Cancellation goes the other way: a flag of the job in the store, which the
lifecycle reads between events. Sessions find dead workers by their pid, and tail
the **log** of a job for the user. A Prime deployment first chooses a **cache disk**, and
a rental that serves is given an **idle watchdog**. When a deployment has come up or was
stopped, the session asks the providers what runs and brings the **editor's configuration**
up to date. The `record.json` of a Vast name, `disks.json`, the journal, the store and the
two files of the editor are all that survive a crash.

## Modules

`VastRental.tla` models `deploy()` and `destroy()` of the Vast backend for
several threads of several processes. An action is what happens between two
points where another actor can get in: a request, a save, a `yield`, a lock.

| Model | Code |
|---|---|
| `inst[l]` | the rental with ownership label `l` at Vast: none, pending, refused, live, dying, gone |
| `record[n]`, `lock[n]` | `record.json` and the flock of name `n` (`vast_state.py`) |
| `active`, `cancelled`, `shutting` | `_CANCELLATIONS`, its events, and `request_shutdown()` |
| `Deploy`, `DeployLock`, `DeployCheck` | registration, `locked()`, and the refusal when the name has a record |
| `DeployIntend`, `DeploySend`, `DeployReply`, `DeploySaveId` | save of the intent, `PUT /asks/`, its reply or loss, save of the instance id |
| `DeployAdvance`, `DeployFinish`, `DeployReport` | events until the endpoint is ready, the state `running`, the last event |
| `DeployWithdraw`, `RollBack`, `CloseStream`, `DeployUnlock`, `DeployUnregister` | the error paths and the two `finally` blocks |
| `Destroy`, `DestroyPeek`, `DestroyMatch`, `DestroyLock` | `destroy()`, which looks the record up without the lock when an id is given |
| `DestroyFind`, `DestroyDelete`, `DestroyPoll`, `DestroyRemove`, `DestroyFailed` | `_destroy()`: find by id or label, `DELETE`, poll for absence, drop the record |
| `Fulfil`, `Refuse`, `Vanish`, `Crash`, `BeginShutdown` | the provider, the operating system, the signal handler |

Whether the call of `_destroy()` is a rollback, the `finally` of a closed stream
or a stop is `mode`. `seen` and `verdict` are history: the rental a stop was called
about and how the thread's last call ended.

`RentalLedger.tla` is the abstract promise of those 700 lines: a rental is intended
(on record), bills, finishes, and is forgotten, in that order. `VastRental` implements it
under the mapping `Stage`, which reads the stage of a label off the record and the
provider's state. `asked` is the rental whose id a stop was given.

Three more abstract modules say what the other components promise, each without a word of how:

| Abstract module | What it promises | Implemented by | Under the mapping |
|---|---|---|---|
| `JobBoard.tla` | a job is posted, claimed once by a living worker, ended once by its owner, overruled only when the owner is dead, cancelled only when somebody asked | `DurableJobs` (`BoardKept`) | the job's status, the worker behind its pid, the flag, and whether that process is alive |
| `RentalLadder.tla` | a placement is rented when the one before is over, the last word on the bill is true, nothing happens after it, an earlier deployment ends only with a cancelled attempt that rented nothing | `Lifecycle` (`LadderKept`) | `Stage` and `Said`: what `held` and `lost` say of a placement, and what the last outcome says of the bill |
| `Inventory.tla` | what bills is in somebody's hand, or written down, or lost by a failure at that point; what is written down is lost only with the writing itself; what is over stays over | `PrimeRental` and `PrimeDisks` (`StockKept` in each) | `Place`: of a pod by its thread and its announcement, of a disk by its thread and the file |

`Inventory` has two implementations because both components keep the same promise, the pods with nothing
on disk and the disks with a file that can be torn. `torn` is the set of things that damaged writing may
have taken out of the file; for pods it is empty.

`DurableJobs.tla` models the store, the worker (`run_job`) and the sessions. An
action is one transaction of the store or one change of the journal.

| Model | Code |
|---|---|
| `status`, `pid`, `cancelReq`, `ladder`, `cfg` | the columns of `jobs`; `cfg` is the placement `update_config()` stored last |
| `journal` | `in_flight_deployments.json`, one entry per target (provider, backend, app) |
| `StartWorker`, `WorkerRead`, `WorkerProbe`, `WorkerClaim`, `WorkerEnter` | `job_runner.py` up to the journal entry: the row, the pid of its worker, the claim |
| `WorkerCheck`, `WorkerAttempt`, `WorkerDeploy`, `WorkerFinish`, `WorkerClear` | the ladder with its cancellation checks, `update_config`, outcome, `finish_job`, journal |
| `WorkerDies`, `Reap` | death, and the zombie that still answers `kill(pid, 0)` |
| `SessionStart`, `SessionReconcile`, `SessionLoad`, `SessionImport`, `SessionAdopt`, `SessionClear`, `SessionImported` | `reconcile_workers()` one job at a time from its snapshot, and `import_journal_entries()` |
| `SessionCreate`, `SessionSpawn`, `Relaunch`, `SessionCancel`, `SessionSetFlag`, `SessionDies` | `begin_deploy()`, a worker started again, `request_cancel()` |

`Lifecycle.tla` models `run_lifecycle()` in one thread, the user's `Cancel` beside
it, and a provider that grants, loses, refuses and rolls back. `held` says which attempts the
provider bills. The three providers differ where the code does: Vast refuses a taken
name and is stopped by name, Prime announces an id before it can be stopped
and may keep a failed pod, Modal is stopped by name.

`PrimeRental.tla` models what the lifecycle sees of Prime from the inside: `_deploy_prime()`
and the Prime branch of `stop_app()`, in threads that nothing excludes from each other.

| Model | Code |
|---|---|
| `pod[p]`, `tunnel` | the pod at Prime; the pods whose label has a tunnel registered |
| `announced`, `done` | pods named by a `ResourceAllocatedEvent`; pods whose rollback or stop was reported as done |
| `mine`, `keep`, `broken` | `pod_id`, `keep_failed_resource`, and `tunnel_error` of `delete_pod()` |
| `Deploy`, `Create`, `Announce` | the request `POST /pods` with its reply or its loss, and the event that names the pod |
| `AwaitActive`, `Bootstrap`, `CreateTunnel`, `StartTunnel`, `AwaitServing`, `AwaitPublic`, `Finish` | the rest of the deployment, each of which may fail into the cleanup |
| `Cleanup`, `Stop`, `ListTunnels`, `DeleteTunnel`, `DeletePod` | `_cleanup_failed_prime_pod()`, a stop by id, and `delete_pod()` of both |
| `Provision`, `Vanish`, `CloseStream`, `Crash` | the provider and the watchdog on the pod, the consumer, the operating system |

`PrimeDisks.tla` models the cache disks. A change of `disks.json` is three actions, because
the code reads it, opens it for writing, which empties it, and writes it. A failed disk bills like a
ready one until it is deleted.

| Model | Code |
|---|---|
| `disk[d]`, `attached` | the disk at Prime, and whether a pod holds it |
| `file`, `snap`, `verb`, `after` | `disks.json`, what a thread read of it, and the change it makes |
| `Resolve`, `TryStored`, `TriedAll` | `resolve_prime_offer_and_disk()` over the remembered disks, newest first (in any order here), with `_try_offer_for_disk()`, which forgets a disk that is not found or has failed |
| `CreateDisk`, `AwaitReady`, `Pair`, `Discard`, `CreatePod` | `_create_cache_disk()` with `wait_for_prime_disk_ready()` and its release on failure, and the pod that attaches the disk |
| `ListRetained`, `ListDisks`, `Prune` | `list_retained_prime_disks()`, which forgets what the account does not list |
| `DeleteRetained` | `delete_retained_prime_disk()` |
| `Read`, `Truncate`, `Flush` | `remember_prime_disk()` and `forget_prime_disk()`: `load_stored_prime_disks()`, then `save_stored_prime_disks()` |
| `Provision`, `Detach`, `Crash` | Prime, which makes a disk ready or lets it fail, then or later; a pod that ends; the operating system |

What may take a disk out of Launchpad's sight is named disk by disk in history variables: `stranded` (a
release failed, a reply or a process was lost while only it had the disk), `dropped` (a remembered disk
had failed: the code forgets it and deletes nothing), `omitted` (a listing answered without rows) and
`torn` (overlapping or cut changes of the file do not agree about it). Writing a disk down again takes
it out of the first, and out of the last when nobody else writes.

`IdleStop.tla` models both watchdogs, as one loop in which `guard` says where it runs.
Time is counted in polls. `quiet` is what is true and `idle` what the watch believes: requests
begin and end between two looks, looks fail, and a computer sleeps.

| Model | Code |
|---|---|
| `healthy`, `age`, `idle`, `tries` | `healthy`, `now - started`, `now - last_active`, the attempts of `destroy()` |
| `moved`, `inflight` | the counters differ from `last_counters`; requests in flight |
| `Watch` | one round of `main()` or of `watch()`: the look, the decision, and an attempt to destroy |
| `ComeUp`, `Request`, `Tick`, `Oversleep`, `End` | the runtime, its users, the clock, a computer that sleeps, the user or the provider |

`JobTail.tla` models one job's log and row and those who watch them.

| Model | Code |
|---|---|
| `log`, `status`, `outcome`, `cancel` | the rows of `events` (their number), and the columns of `jobs` |
| `seen[w]`, `record[w]` | `last_seen_seq` and the record read last |
| `Claim`, `AppendEvent`, `Finish`, `Die`, `ReconcileElsewhere` | the worker, which may die before its claim, and another session that finds it dead; `Interrupt` is what `reconcile_workers()` does for this job, nothing while it has no `worker_pid` |
| `Open`, `TailReadsRow`, `TailReadsLog`, `Mirror` | `_tail_persistent_job()`: row, then log, then the session's cancellation asked for again |
| `ReopenReadsRow`, `ReopenReadsLog` | `reopen_persistent_deployment()` |
| `Follow`, `FollowReconciles`, `FollowReadsLog`, `FollowReadsRow` | `jobs follow`: reconcile, log, row |
| `CancelDeployment`, `CancelJob`, `Request` | `cancel_deployment()`, `jobs cancel`, and the two statements of `request_cancel()` |

`FleetSync.tla` models the passes that ask the providers and what is done with the answer.

| Model | Code |
|---|---|
| `up` | the deployments that run |
| `listed` | `_provider_listings`, which keeps a provider's rows when it does not answer |
| `config`, `registry` | the editor's configuration (Launchpad's own entries in it), and the registry of those entries |
| `rows`, `configured`, `scope` | the instances of a pass, the providers it found configured, and `prune_scope`: those that answered |
| `Refresh`, `Stop`, `Publish`, `SyncAll` | what begins a pass in a session or a command line |
| `List`, `Record` | `discover_fleet()` or `list_instances()`, then `_record_provider_listings()`, which drops the rows of a provider that was not found configured (`SignedOut`) |
| `Load`, `Write`, `Register` | `sync_opencode_config()`: both files are read and changed in memory under `_SYNC_LOCK`, then replaced one after the other |
| `CrashCli`, `CrashSession` | a process ends between any two of these |

Its history variables say which deployments a pass has shown (`known`) and a sync has
published (`published`), until an answer that is older than their start, a pass that finds their provider
not configured (for `known`), the end of their run, or the crash of the session takes them out; and
whether two processes wrote at once (`torn`).

`MC...` modules give the constants values, `...Proofs` modules hold the proofs.
Operators whose comment begins with "Slip" are variants of the definition after
them with one plausible mistake. No specification uses them; each property
is known to fail when its variant stands in for the definition.

## Runs

| Run | Question | Result |
|---|---|---|
| `vast_safety` | Is every rental recorded, alone under its name, truly over when called so, which one may a stop delete, and is the ledger implemented? | holds |
| `vast_calls` | In one process, where a stop cancels the deployment under way: does every `deploy()` and `destroy()` return? | holds |
| `jobs_safety` | Who owns a job, who may end it, which duplicates exist? | holds |
| `jobs_live` | Does a claimed job end although workers die, and is the board of jobs implemented? | holds |
| `jobs_overwrite` | Does a recorded outcome stand? | violated |
| `ladders` | When may the next placement be rented, does the outcome say what was left, does every run end, and is the ladder implemented? | holds |
| `ladders_lost` | Can two placements bill at once? | violated |
| `prime_pods` | Was every Prime pod that bills announced, is a stop that is called done true, which tunnels outlive their pod, does every call end, and is the inventory implemented? | holds |
| `prime_disks` | Is a disk that bills remembered, is only a useless one forgotten, and is the inventory implemented? | holds |
| `idle` | Does an idle rental end, is the decision right, and when does the watch give up? | holds |
| `followers` | Is the whole log shown, does the outcome stand, does every watch end and every cancellation arrive? | holds |
| `fleet` | Does a running deployment stay listed and published, and does Launchpad know its own entries? | holds |

The two violated properties are disagreements between the code and its comments;
`PROJECT.json` quotes them. In short:

- `jobs_overwrite`: `reconcile_workers()` works from a snapshot and ends the job
  without looking at its status again: "succeeded" becomes "interrupted".
- `ladders_lost`: a Prime creation whose reply is lost counts as "nothing to
  clean", and the next placement is rented beside it.

The passing properties are stated with exactly the exceptions the code has, and no wider ones:

- `StopKeepsToItsName` lets a stop by id delete another rental than the one it was asked for, if that
  one is over and the other has its name: the record may have changed hands in between.
- `RentalLadder` lets a run that was called off before it rented anything end an earlier deployment of
  the name, and `JobBoard` lets a worker that took a job over, or a reconciliation, change an outcome whose owner is dead.
- `OneRentalAtATime` excuses a lost Prime creation only, `DuplicateOnlyByFallback`
  a fallback or a dead worker only.
- `BillingIsKnown` excuses a reply or a process that is lost right at the creation (`unheard`);
  `NoTunnelOutlivesPod` a cleanup that failed, was cut short, or was overtaken by the registration
  (`loose`).
- `DiskIsAccounted` excuses a disk only for what happened to it: a release that failed or a crash that only
  it was lost in (`stranded`), a failure of the disk upon which the code forgets it undeleted (`dropped`), a
  listing without rows (`omitted`), or changes of `disks.json` that disagree about it (`torn`).
  `StockKept` lets a remembered disk be lost in the last way only, or by a thread that took it up to forget it.
- `ForgottenIsUseless` is about use, not cost: a failed disk is of none and bills on. It excuses what an
  answer without rows left out (`omitted`).
- `DecidedWhenIdle` excuses a watch that could not see the counters when it decided (`blind`).
- `IdleRentalEnds` excuses a watch that gave up, and, for the watch on the computer, a runtime that never
  served: the comment in `core/local_watchdog.py:60` leaves that case to a startup deadline on the pod, and
  the watch on the computer has none.
- `EveryWatchEnds` asks of `jobs follow` nothing for a job whose worker died before its claim: it has no
  `worker_pid`, is passed over by every reconciliation, and stays pending.
- `RunningStaysListed` excuses an answer from before the deployment came up, and a pass that finds its
  provider not configured, whether the user signed out or the key could not be read just then.
- `TailShowsAll` excuses a read that met the limit of 5000 events, or that failed while a finished
  job was restored (`capped`); `OutcomeIsFinal` a job that ended between the two statements of a
  cancellation (`crossed`).
- `RunningStaysPublished` and `EntryIsManaged` excuse what two processes that write at once, or one
  that is cut short between its two files, leave behind (`torn`).

### Counterexamples to run by hand

Ten more configurations state what one may expect of the code and it does not keep.
`tlc -config <configuration>.cfg <module>.tla` (the part of the name before `_`) shows each in less than a minute:

| Configuration | Property | What happens |
|---|---|---|
| `MCVastRental_target` | `StopKeepsToItsTarget` | `destroy(name, id)` compares the id without the lock, then loads the record by name under it, and deletes the name's next rental (`StopKeepsToItsName` is what holds of it) |
| `MCDurableJobs_journal` | `SuccessClearsJournal` | a job that fell back clears the journal entry of its last target only |
| `MCDurableJobs_blocked` | `CrashFreesName` | a worker that dies before its claim leaves a pending job that is never reconciled and keeps its target occupied |
| `MCLifecycle_prior` | `EarlierDeploymentStays` | a cancelled Vast attempt without an id stops by name, which may be an earlier rental (`LadderKept` says which attempts alone can do that) |
| `MCJobTail_follow` | `FollowShowsAll` | `jobs follow` reads the log before the row: events written in between, or beyond 5000, are not shown |
| `MCJobTail_unclaimed` | `FollowEnds` | a worker that dies before its claim leaves a row without `worker_pid`, which `reconcile_workers()` passes over: `jobs follow` loops for ever |
| `MCPrimeDisks_failed` | `ForgottenIsGone` | `forget_prime_disk()` says it drops a disk "that no longer exists remotely", and is called for a remembered disk that has failed, which exists and bills (`ForgottenIsUseless` is what holds of it) |
| `MCFleetSync_signedout` | `OnlyAnswersShorten` | `discover_fleet()` says that a provider which cannot be reached keeps its rows; one whose key, status or command is not to be had counts as signed out and loses them (`RunningStaysListed` is what holds of it) |
| `MCIdleStop_watched` | `PodStaysWatched` | `stop_app()` reports a failure instead of raising it, so the watch on the computer ends after one failed stop and the pod bills unwatched |
| `MCIdleStop_busy` | `BusyStaysUp` | the script repeats a failed deletion for half an hour without another look: a request that came meanwhile is cut off |

### Bounds

- `vast_safety`: one name, two labels, a worker thread and a session thread in
  two processes. Names share nothing but `shutting`, so a second name adds
  products of behaviours and no new ones; two labels are a rental and the one
  that follows or collides with it. Two threads suffice for every race on the lock,
  since it serialises the rest; a crashed process may call again, so the runs hold
  any number of calls as long as labels last. The view drops locals of threads that
  are idle, which no action and no property reads; labels are interchangeable and
  reduced by symmetry.
- `vast_calls` puts both threads into one process, where they share the
  cancellation table and die together, with one label, and uses no view and no symmetry, as liveness demands.
- `jobs_safety`: two jobs, two targets, a ladder that falls back from one to the other
  and a plain one, two workers, two sessions that may die. This is the least in which
  a fallback meets a job of its target, a job is taken over, and two sessions reconcile
  at once. `jobs_live` uses one job and two workers, one to take over from the other.
- `ladders`: every ladder of one to three placements over the three providers with
  and without approval of a retry, and Prime's choice to keep a failed
  resource. Three placements show an attempt that is first, middle and last.

- `prime_pods`: two pods and two threads (315 301 states). Two threads are a deployment and a stop of its pod, two
  stops, or two deployments; pods share nothing, so the second one only shows that
  a thread does not take one for the other. Threads call again as long as pods last.
- `prime_disks`: two disks and two threads, both symmetric (862 184 states). Two changes of the
  file overlap, a listing meets a creation, a pod holds a disk that somebody deletes, a remembered disk
  fails. The view drops the locals of threads that do not read them any more, and what the
  histories say of disks that do not bill.
- `idle`: windows of `Idle` = 3 and `Grace` = 5 polls and `Attempts` = 3 (2 859 states). Three polls
  let a request begin and end between two looks and still leave a look that sees
  nothing; what lies beyond a window is not told apart (`Older`), so time is finite
  without a bound on the run. The code's windows are minutes to hours with a poll of a minute or less.
- `followers`: one tail, one `jobs follow`, a log of three events read two at a time, one failure of the
  store (225 107 states). The log is longer than one read, which is the least where a
  limit shows. Watchers read only, so more of them add no behaviour; `Cli` is a cancellation from elsewhere.
- `fleet`: two deployments of one provider, two threads of a session and a command line, of which two
  are under way at once (1 519 470 states, under two minutes). Two passes overtake each other in
  one process or in two; one deployment is what a sync is for and the other what it must leave alone.
  That one provider fails, or is not configured, while another answers is checked by
  `MCFleetSync_each.cfg`, to be run by hand: the same with a provider for each deployment, which passes too
  (4 680 950 states, three minutes with four workers). The proofs need neither bound.

### Fairness

- `vast_calls`: weak fairness of each step of a thread that is inside a call, because the
  code's requests have timeouts and its waits have deadlines, and strong fairness of
  acquiring a lock that others release, because the kernel serves the waiters of a flock.
  Nothing is asked of the provider, and nothing makes a process call, crash or shut down.
- `jobs_live`: weak fairness of a worker's and a session's steps once begun,
  strong fairness of `SessionStart`: Launchpad is used again. Without that
  nobody looks for dead workers. `Reap` is weakly fair: the parent spawns again or ends.
- `ladders`: weak fairness of the lifecycle's thread. The streams it consumes have
  deadlines; `Cancel` is never forced.
- `prime_pods`: weak fairness of the steps of a call. Every request has a timeout and the polls for an
  active pod and a serving runtime have deadlines.
- `idle`: weak fairness of the clock and of the loop: it has no exit but those modelled, and a
  computer does not sleep for good. Requests stop only where the property supposes it.
- `followers`: weak fairness of each watcher's next read and of the statements of the store, because both loops
  sleep a fixed time and SQLite's calls return. Neither the worker nor its death is forced.
- `vast_safety`, `jobs_safety`, `prime_disks`, `fleet` check safety only and need none.

## Proofs

| Module | Theorems |
|---|---|
| `VastRentalProofs` | `TypeCorrect`, `RentalsRecorded`, `NoDoubleBilling`, `ConfirmedIsTrue`, `StoppedIsTrue`, `IdIsThere`, `IdStays`, `StopKeepsName`, `RefinesLedger`, `EveryCallRunsDown` |
| `DurableJobsProofs` | `TypeCorrect`, `NoSecondWorker`, `EndedIsOver`, `NoOtherDuplicate`, `InterruptedIsTrue`, `OnlyOwnerEnds`, `KeepsTheBoard` |
| `LifecycleProofs` | `TypeCorrect`, `OneAtATime`, `OutcomesAreTrue`, `LeftoversAreNamed`, `CancelIsFinal`, `ClimbsTheLadder`, `EveryRunRunsDown` |
| `PrimeRentalProofs` | `TypeCorrect`, `BillIsKnown`, `TunnelsEnd`, `DoneIsTrue`, `KeepsTheStock`, `EveryCallRunsDown` |
| `PrimeDisksProofs` | `TypeCorrect`, `DisksAccounted`, `ForgottenAreUseless`, `KeepsTheStock` |
| `IdleStopProofs` | `TypeCorrect`, `GivingUpIsLast`, `DecisionIsRight` |
| `JobTailProofs` | `TypeCorrect`, `WholeLogIsShown`, `OutcomeStands` |
| `FleetSyncProofs` | `TypeCorrect`, `ListedStays`, `PublishedStays`, `EntriesAreManaged` |

With them every invariant that a run checks, every action property and every refinement is proved for any
sets of names, labels, threads, processes, jobs, ladders, workers, sessions, pods, disks, providers,
deployments and watchers, and any windows, limits and lengths of a log. The assumptions are those the
modules declare: each thread runs in one process, each deployment is one provider's, a null value
is not a value, ladders are non-empty sequences, the idle window, the attempts and the limit of a read are
not zero. `NoSecondWorker` and its companions rest on pids that are never used twice,
which is how `Workers` is read. The type invariants are proved, so no run lists them.

Each module has one inductive invariant `IInv` at its end, because the
properties are not inductive:

- **VastRental.** That a rental is recorded says nothing of the thread that is about
  to drop the record. `IInv` adds who holds the lock of a name (`LockHeld`), that a record
  owns its label (`RecordOwnsLabel`), that the thread which owns a deployment has
  its label on record (`OwnerRecorded`), that a record goes only when its rental is over
  (`KeptUntilOver`), and what each step may rely on when it is reached
  (`StepReady`, `ConfirmedReady`, `SeenReady`). The ids are a second layer, `IdInv`, proved
  on top of it: a thread has the id of what it waits for, and the record has none until then
  (`IdReady`); that two threads never work on one name (`LockExcludes`) keeps it from the others.
- **DurableJobs.** `IInv` adds that a pid is the worker which claimed the job
  (`PidIsItsWorker`), that a claim and the status go together (`PidFollowsStatus`), what a
  worker with a job in hand may rely on (`HolderOwns`, `PlacementReady`), and
  that a job which a session created but has not spawned is nobody else's (`FreshKept`, `FreshApart`).
- **Lifecycle.** `IInv` adds that no later placement is touched (`LaterUntouched`),
  that earlier ones are released or were lost (`EarlierReleased`), and what each
  place of an attempt may rely on (`AttemptReady`, `Nameable`).
- **PrimeRental.** `IInv` adds that a thread has its pod from the creation on (`WorksOnPod`), which
  makes a crash there the only way to lose it, and that a thread about to delete a pod has dealt with
  its tunnel or left it loose (`TunnelDealtWith`): the tunnel is deleted first, so nothing
  in the state of the pod says that it was.
- **PrimeDisks.** `IInv` adds that whoever writes the file has read what is in it and what the others are
  about to write, but for what is disputed (`WritersAgree`); that a thread which creates, releases or
  writes down a disk has one (`WorksOnDisk`); that what is about to be forgotten is gone, failed or left out by an
  answer without rows, and stays so (`ForgetsExcused`, `DroppedFailed`, `PrunesGone`).
- **IdleStop.** `IInv` adds that the watch never thinks the machine idle for longer than it
  has been quiet, as far as the counters tell, and that the script which has not ended has attempts left.
- **JobTail.** `IInv` adds that what a watcher takes for ended has ended and that it is done only
  after it has seen that (`EndIsSeen`): the order of the two reads is what the proof uses.
- **FleetSync.** Nothing can be said of two files between their writes. `SyncIsAlone` says
  that while no two processes write at once a thread which writes is alone, that what it will
  write is in step and keeps what is published. That a provider's rows are its own
  (`RowsAreTheirs`) lets a pass keep the rows of one that failed.

Each proof has one lemma per action that the action keeps `IInv`, a lemma that puts
them together, and the theorems by temporal logic. TLC has checked each `IInv`, and each invariant of
the second layer below, on the instances of the runs.

### Refinements

Five theorems show that a component implements its abstract specification: initial states map to initial
states, and every action maps to a step or to a stutter. Each has a lemma per action, or per group of actions that
change the mapping in the same way. They rest on `IInv` and on what the mapping needs beside it:

| Theorem | What is needed beside `IInv` | Where it is used |
|---|---|---|
| `RefinesLedger` | nothing | |
| `ClimbsTheLadder` | `EarlierInv`: Vast rents only where no earlier deployment has the name, only Prime loses a creation, a cleanup as cancelled follows a cancellation | a stop by name ends the earlier deployment only when this run rented nothing |
| `KeepsTheBoard` | `AskInv`: a worker that goes to the end of a cancelled job was asked to, and requests concern posted jobs | nobody cancels a job that nobody asked to cancel |
| `KeepsTheStock` (pods) | `NothingUncreated`: what has not been created is in no one's hand and announced nowhere | a creation starts from an unused pod |
| `KeepsTheStock` (disks) | `NothingUncreated` | a creation starts from a disk that nobody has or remembers; that a file is written back with only what it had, but for what is disputed, is `WritersAgree` |

`StopKeepsName` has a second layer of its own, `AskedIsSeen`: what a stop was asked for is the rental it has found.

### Termination without fairness

Liveness is fairness and a measure that runs down. The prover handles no fairness and no `ENABLED`, but the
measure it can: `StepsLeft` counts how many steps a call may still take at most, and the theorems say
that every step of the call makes it less while steps of other threads, of the provider and of the
user do not make it more. So no run of the code retries, rolls back or polls without
end, whatever the others do, and what the fairness of a run adds is only that steps are taken.

- `EveryCallRunsDown` of `VastRentalProofs`: `deploy()` and `destroy()` take at most 20 steps. The measure looks at
  `mode`, since a rollback comes back to the report of the failure, which may try to destroy once
  more; `StopMode` is the invariant which tells that a stop does not.
- `EveryRunRunsDown` of `LifecycleProofs`: ten steps for each placement, which are not repeated.
- `EveryCallRunsDown` of `PrimeRentalProofs`: 13 steps, the cleanup included.

A poll that goes on until its deadline is one step in these models, as is a request until its timeout: the
measure is about the control around them.

### Only model-checked

- Liveness: `EveryCallReturns`, `EveryClaimedJobEnds`, `EveryRunEnds`, `EveryCallEnds`, `IdleRentalEnds`,
  `EveryWatchEnds`, `CancelReachesJob`. They need fairness and `ENABLED`; of three of them the measure is proved.
- The properties of the two violated runs and of the counterexamples, which are false.

## Abstractions

- Offers, prices, images, ssh and log text are left out. A request has the outcomes the code tells
  apart: heard and granted, heard and refused, unheard with either fate.
- A label is fresh (`uuid4`) for each attempt. Vast never has two rentals of one label.
- Job texts, heartbeats and `note_outcome()` are left out. `list_jobs()` and a change of the
  journal are one step each; hazards that this hides are listed in `PROJECT.json`.
- The check of duplicates that one session makes before `create_job()` is left out, which
  allows more behaviours. The thread that deploys when no worker can be spawned is not modelled.
- In `Lifecycle` Modal's failed deployment leaves nothing billing, and a
  provider ends no rental by itself; intents to smoke-test or preload only, and
  `do_deploy=False`, are left out. `attempt.retry_allowed` and the approval of the
  configuration are the one `retry` of a placement. Whether a failure is one of the
  probe alone is a free choice.
- In `PrimeRental` offers and ssh are left out; a request has the outcomes the code tells apart, and a
  tunnel is known by the label of its pod. Pod ids are drawn once.
- In `PrimeDisks` sizes, regions and prices are choices: a disk fits and pairs, or it does not.
  The order in which remembered disks are tried is free, which allows more behaviours.
- In `IdleStop` the counters are "moved" or not, and time is in polls: the look and its decision are one
  step, since the script does nothing else between them.
- In `JobTail` an event is its number. One job is enough: watchers of two share nothing but
  the store's lock, which each call takes and gives back.
- In `FleetSync` the entries of Modal deployments that are shown in a removable state (stopped, failed) are not
  pruned for that state (`core/opencode.py:637`): a deployment runs or it does not. An entry is the deployment it is for; its text, the default model and the
  entries that users made themselves are left out. The user's own edits between two syncs are not modelled. `List`
  answers for all its providers at once: what the code does with the answer happens after the last.

## Not modelled

- **Screens and commands** (`tui/screens`, most of `tui/app.py`, most of `cli/`): they collect a configuration,
  render, and call what is modelled. The sharing of one refresh among several screens (its
  inflight, waiting and receiver tables) runs on the event loop of one thread; it has control of its own and
  is left out for want of room beside the parts that cost money.
- **Connection files** (`connection_store.py`) and the change of the journal: each is read, changed and
  replaced under a lock of the process. `PrimeDisks` and `FleetSync` show what that leaves open for
  their files; what is lost here is a shortcut or the import of a job, and no rental.
- **Heartbeats** only inform a reader; no decision of the code rests on them (`reconcile_workers()`
  asks the pid).
- **Composition of `Lifecycle` and `DurableJobs`** for one job: the product is beyond what TLC
  finishes with the bounds that make either interesting. They meet in the outcome (`WorkerDeploy`,
  `WorkerFinish`) and in the flag of cancellation, which both model as the other offers it.
- **Planners, estimators, model metadata, availability and ranking**: floating-point arithmetic and parsing
  of remote data, with no state that a deployment depends on. A stale offer costs a refused request,
  which the rental modules allow at any time.
- **Modal applications, remote scripts, benchmarks, validation scripts**: programs that run in containers or
  once by hand. What they do to a deployment appears as a provider's answer.
- **Warmup and probes, preflight, storage**: queries. `Lifecycle` has the three outcomes of a warmup.

These are most of the repository's lines, so the modules stand for a small share of them: the share
that rents, remembers, stops and reports.

## Plan

1. Done: `VastRental`, `DurableJobs`, `Lifecycle`, `PrimeRental`, `PrimeDisks`, `IdleStop`, `JobTail`,
   `FleetSync`; their runs and proofs; the abstract `RentalLedger`, `JobBoard`, `RentalLadder` and `Inventory` with the
   proofs that they are implemented; the measures of `VastRental`, `Lifecycle` and `PrimeRental`.
2. `SharedRefresh`: one refresh of a listing among several screens, and a screen that leaves while it waits.
3. `WorkerRun`: composition of `DurableJobs` and `Lifecycle` for one job, with one placement: the
   resource id in the store, the journal after a failed cleanup, the session's fallback thread.
4. Measures for the loops that wait for somebody else: the attempts of the idle script, a worker on its ladder,
   a watcher once the job has ended.
5. Abstract promises of the followers and of the fleet, if they can be stated shorter than their invariants.
