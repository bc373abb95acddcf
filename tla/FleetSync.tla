------------------------------ MODULE FleetSync ------------------------------
(***************************************************************************)
(* What a session knows of the running deployments, and what it tells the  *)
(* user's editor: the discovery passes and the shared refresh of           *)
(* tui/app.py, and sync_opencode_config() of core/opencode.py, which       *)
(* keeps the editor's configuration and Launchpad's registry of its own    *)
(* entries in two files.                                                   *)
(*                                                                         *)
(* A pass asks the providers, and uses what they said later: deployments   *)
(* come and go between the two, several passes are under way, and some     *)
(* providers do not answer.  One session's syncs exclude each other; those *)
(* of the command line, a process of its own, exclude nobody.              *)
(***************************************************************************)
EXTENDS FiniteSets

CONSTANTS
    Apps,       \* deployments
    Providers,
    Of,         \* the provider of each deployment
    Tui,        \* threads of the session
    Cli,        \* command lines that stop or publish
    NoApp

ASSUME FleetAssumption ==
    /\ Of \in [Apps -> Providers]
    /\ NoApp \notin Apps
    /\ Tui \cap Cli = {}

VARIABLES
    up,         \* deployments that run
    listed,     \* each provider's rows in _provider_listings
    config,     \* deployments with an entry in the editor's configuration
    registry,   \* deployments in Launchpad's registry of those entries
    pc,         \* where each thread is
    job,        \* what it does: "refresh", "stop", "publish" or "sync"
    target,     \* the deployment it stopped or publishes
    rows,       \* the rows of its pass
    configured, \* the providers that its pass found configured
    scope,      \* the providers that answered it
    newConfig,  \* what its sync is about to write
    newRegistry,
    known,      \* running deployments that a pass has recorded, and that neither
                \* an older answer of their provider nor a pass that found it
                \* not configured took out (history)
    published,  \* running deployments that a sync has published, and that no
                \* sync with an older answer, or for the stop of their
                \* predecessor, took out (history)
    torn        \* whether syncs of two processes overlapped, or one was cut
                \* short between its two files (history)

files   == <<config, registry>>
pass    == <<job, target, rows, configured, scope>>
plan    == <<newConfig, newRegistry>>
history == <<known, published, torn>>
vars    == <<up, listed, config, registry, pc, job,
             target, rows, configured, scope, newConfig, newRegistry, known, published,
             torn>>

Threads == Tui \cup Cli

\* Threads of the same process as t.
Process(t) == IF t \in Tui THEN Tui ELSE {t}

Syncing == {"write", "register"}

TypeOK ==
    /\ up \subseteq Apps
    /\ listed \in [Providers -> SUBSET Apps]
    /\ config \subseteq Apps
    /\ registry \subseteq Apps
    /\ pc \in [Threads -> {"idle", "list", "record", "load"} \cup Syncing]
    /\ job \in [Threads -> {"refresh", "stop", "publish", "sync"}]
    /\ target \in [Threads -> Apps \cup {NoApp}]
    /\ rows \in [Threads -> SUBSET Apps]
    /\ configured \in [Threads -> SUBSET Providers]
    /\ scope \in [Threads -> SUBSET Providers]
    /\ newConfig \in [Threads -> SUBSET Apps]
    /\ newRegistry \in [Threads -> SUBSET Apps]
    /\ known \subseteq Apps
    /\ published \subseteq Apps
    /\ torn \in BOOLEAN

Init ==
    /\ up = {}
    /\ listed = [p \in Providers |-> {}]
    /\ config = {}
    /\ registry = {}
    /\ pc = [t \in Threads |-> "idle"]
    /\ job = [t \in Threads |-> "refresh"]
    /\ target = [t \in Threads |-> NoApp]
    /\ rows = [t \in Threads |-> {}]
    /\ configured = [t \in Threads |-> {}]
    /\ scope = [t \in Threads |-> {}]
    /\ newConfig = [t \in Threads |-> {}]
    /\ newRegistry = [t \in Threads |-> {}]
    /\ known = {}
    /\ published = {}
    /\ torn = FALSE

Goto(t, s) == pc' = [pc EXCEPT ![t] = s]

\* The rows of the deployments in S that provider p has.
At(S, p) == {a \in S : Of[a] = p}

\* The threads in T end, and their locals with them.
Return(T) ==
    LET Cleared(f, x) == [t \in Threads |-> IF t \in T THEN x ELSE f[t]] IN
    /\ pc' = Cleared(pc, "idle")
    /\ job' = Cleared(job, "refresh")
    /\ target' = Cleared(target, NoApp)
    /\ rows' = Cleared(rows, {})
    /\ configured' = Cleared(configured, {})
    /\ scope' = Cleared(scope, {})
    /\ newConfig' = Cleared(newConfig, {})
    /\ newRegistry' = Cleared(newRegistry, {})

-----------------------------------------------------------------------------
(* The deployments, and what is done about them.                           *)

\* A deployment comes up.
ComeUp(a) ==
    /\ a \notin up
    /\ up' = up \cup {a}
    /\ UNCHANGED <<listed, files, pc, pass, plan, history>>

\* The deployments in S run no more, and with them the histories of their runs.
End(S) ==
    /\ up' = up \ S
    /\ known' = known \ S
    /\ published' = published \ S

\* It ends outside of Launchpad.
Vanish(a) ==
    /\ a \in up
    /\ End({a})
    /\ UNCHANGED <<listed, files, pc, pass, plan, torn>>

\* A stop was confirmed: its entry is to be removed.
Stop(t) ==
    /\ pc[t] = "idle"
    /\ \E a \in up : End({a}) /\ target' = [target EXCEPT ![t] = a]
    /\ job' = [job EXCEPT ![t] = "stop"]
    /\ Goto(t, "list")
    /\ UNCHANGED <<listed, files, rows, configured, scope, plan, torn>>

\* A deployment has succeeded: its entry is to be written.
Publish(t) ==
    /\ pc[t] = "idle"
    /\ \E a \in up \ published : target' = [target EXCEPT ![t] = a]
    /\ job' = [job EXCEPT ![t] = "publish"]
    /\ Goto(t, "list")
    /\ UNCHANGED <<up, listed, files, rows, configured, scope, plan, history>>

\* A screen's refresh, or list_instances(): nothing is synced.
Refresh(t) ==
    /\ pc[t] = "idle"
    /\ Goto(t, "list")
    /\ UNCHANGED <<up, listed, files, pass, plan, history>>

\* `opencode sync`: the entries of all that runs.
SyncAll(t) ==
    /\ pc[t] = "idle"
    /\ job' = [job EXCEPT ![t] = "sync"]
    /\ Goto(t, "list")
    /\ UNCHANGED <<up, listed, files, target, rows, configured, scope, plan,
                   history>>

-----------------------------------------------------------------------------
(* A discovery pass.                                                       *)

\* Whom a pass asks if C are configured: discover_fleet() those, and `opencode sync`
\* too, the other commands only the provider of their deployment.
Asked(t, C) == IF t \in Tui \/ job[t] = "sync" THEN C ELSE {Of[target[t]]}

\* A provider whose key cannot be read, whose status of authentication is not to be had,
\* or whose command is missing counts as not configured.  Each provider that is asked
\* answers with what runs there, or fails.  `opencode sync` then takes what the
\* connection store remembers of a provider that failed.
List(t) ==
    /\ pc[t] = "list"
    /\ \E C \in SUBSET Providers : \E S \in SUBSET Asked(t, C) :
       \E R \in SUBSET {a \in Apps : job[t] = "sync" /\ Of[a] \in C \ S} :
          /\ configured' = [configured EXCEPT ![t] = IF t \in Tui THEN C ELSE {}]
          /\ scope' = [scope EXCEPT ![t] = S]
          /\ rows' = [rows EXCEPT ![t] = {a \in up : Of[a] \in S} \cup R]
    /\ Goto(t, IF t \in Tui THEN "record" ELSE "load")
    /\ UNCHANGED <<up, listed, files, job, target, plan, history>>

\* What its provider has answered without.
Missing(t) == {a \in Apps \ rows[t] : Of[a] \in scope[t]}

\* What is of a provider that is not this account's to report on.
SignedOut(t) == {a \in Apps : Of[a] \notin configured[t]}

\* The pass goes on with all the rows that there are now; a refresh ends.
Recorded(t) ==
    LET shown == UNION {listed'[p] : p \in Providers} IN
    /\ known' = (known \ (Missing(t) \cup SignedOut(t))) \cup (shown \cap up)
    /\ \/ job[t] = "refresh" /\ Return({t})
       \/ /\ job[t] # "refresh"
          /\ rows' = [rows EXCEPT ![t] = shown]
          /\ configured' = [configured EXCEPT ![t] = {}]
          /\ Goto(t, "load")
          /\ UNCHANGED <<job, target, scope, plan>>
    /\ UNCHANGED <<up, files, published, torn>>

\* Slip: a provider that failed is recorded like one that has nothing.
RecordFailedAsEmpty(t) ==
    /\ pc[t] = "record"
    /\ listed' = [p \in Providers |-> At(rows[t], p)]
    /\ Recorded(t)

\* _record_provider_listings(): a provider that is not configured loses its rows, and
\* one that failed keeps the rows it had.
Record(t) ==
    /\ pc[t] = "record"
    /\ listed' = [p \in Providers |->
                     IF p \notin configured[t] THEN {}
                     ELSE IF p \in scope[t] THEN At(rows[t], p) ELSE listed[p]]
    /\ Recorded(t)

-----------------------------------------------------------------------------
(* sync_opencode_config().                                                 *)

\* A publication writes its own entry, and a stop those of all its rows.
Targets(t) == IF job[t] = "publish" THEN {target[t]} ELSE rows[t]

Removed(t) == IF job[t] = "stop" THEN {target[t]} ELSE {}

\* A registered deployment is stale when its provider answered without it.
Stale(t) == Missing(t) \ Targets(t)

\* The entries that the sync takes out: registered ones, and no others.
Dropped(t) == (registry \cup Targets(t)) \cap (Removed(t) \cup Stale(t))

ConfigAfter(t) == (config \cup Targets(t)) \ Dropped(t)

RegistryAfter(t) == ((registry \cup Targets(t)) \ Dropped(t)) \cap ConfigAfter(t)

\* What changed is written; a configuration that changed has a registry that did.  The
\* locals of the pass are of no more use.
Planned(t, C, R) ==
    /\ torn' = (torn \/ \E u \in Threads \ Process(t) : pc[u] \in Syncing)
    /\ published' = IF torn' THEN {}
                    ELSE (published \ Dropped(t)) \cup (Targets(t) \cap C \cap up)
    /\ \/ C = config /\ R = registry /\ Return({t})
       \/ /\ C # config \/ R # registry
          /\ newConfig' = [newConfig EXCEPT ![t] = C]
          /\ newRegistry' = [newRegistry EXCEPT ![t] = R]
          /\ Goto(t, IF C # config THEN "write" ELSE "register")
          /\ job' = [job EXCEPT ![t] = "refresh"]
          /\ target' = [target EXCEPT ![t] = NoApp]
          /\ rows' = [rows EXCEPT ![t] = {}]
          /\ scope' = [scope EXCEPT ![t] = {}]
          /\ UNCHANGED configured
    /\ UNCHANGED <<up, listed, files, known>>

\* Slip: what no provider listed is stale.
LoadPrunesAll(t) ==
    /\ pc[t] = "load"
    /\ \A u \in Process(t) : pc[u] \notin Syncing
    /\ LET stay == Targets(t) \cup (rows[t] \ Removed(t))
       IN Planned(t, (config \cap stay) \cup Targets(t), stay)

\* Slip: syncs of one session do not wait for each other.
LoadUnlocked(t) ==
    /\ pc[t] = "load"
    /\ Planned(t, ConfigAfter(t), RegistryAfter(t))

\* Under _SYNC_LOCK both files are read, and the changes made in memory.
Load(t) ==
    /\ pc[t] = "load"
    /\ \A u \in Process(t) : pc[u] \notin Syncing
    /\ Planned(t, ConfigAfter(t), RegistryAfter(t))

\* Each file is replaced in one step, the configuration first.
Write(t) ==
    /\ pc[t] = "write"
    /\ config' = newConfig[t]
    /\ Goto(t, "register")
    /\ UNCHANGED <<up, listed, registry, pass, plan, history>>

Register(t) ==
    /\ pc[t] = "register"
    /\ registry' = newRegistry[t]
    /\ Return({t})
    /\ UNCHANGED <<up, listed, config, history>>

-----------------------------------------------------------------------------
(* Processes end anywhere.                                                 *)

Cut(T) ==
    /\ torn' = (torn \/ \E t \in T : pc[t] \in Syncing)
    /\ published' = IF torn' THEN {} ELSE published

CrashCli(t) ==
    /\ pc[t] # "idle"
    /\ Return({t})
    /\ Cut({t})
    /\ UNCHANGED <<up, listed, files, known>>

\* The next session starts with nothing but the files.
CrashSession ==
    /\ \E t \in Tui : pc[t] # "idle"
    /\ Return(Tui)
    /\ Cut(Tui)
    /\ listed' = [p \in Providers |-> {}]
    /\ known' = {}
    /\ UNCHANGED <<up, files>>

-----------------------------------------------------------------------------

Step(t) ==
    \/ List(t) \/ Record(t) \/ Load(t) \/ Write(t) \/ Register(t)

Next ==
    \/ \E a \in Apps : ComeUp(a) \/ Vanish(a)
    \/ \E t \in Threads : Stop(t) \/ Publish(t) \/ Step(t)
    \/ \E t \in Tui : Refresh(t)
    \/ \E t \in Cli : SyncAll(t) \/ CrashCli(t)
    \/ CrashSession

Spec == Init /\ [][Next]_vars

-----------------------------------------------------------------------------

\* A running deployment that a pass has shown stays listed, whoever fails to answer;
\* only an answer of its provider from before it came up takes it out, or a pass that
\* finds its provider not configured.
RunningStaysListed == \A a \in known : a \in listed[Of[a]]

\* What discover_fleet() says of itself, "A provider that cannot be reached keeps the
\* rows it last returned" (violated: the rows of a provider whose key could not be read
\* just then are dropped, like those of one that the user signed out of).
OnlyAnswersShorten == [][
    \A t \in Tui : Record(t) =>
        \A a \in up : a \in listed[Of[a]] => a \in listed'[Of[a]] \cup Missing(t)
    ]_listed

\* A running deployment that was published keeps its entry, whoever fails to answer and
\* whatever else is published or stopped; only an older answer, the late removal
\* of its predecessor, or the sync of another process takes it out.
RunningStaysPublished == \A a \in published :
    \/ a \in config
    \/ \E t \in Threads : pc[t] = "write" /\ a \in newConfig[t]

\* Every entry that Launchpad wrote is one it remembers as its own, and so can remove,
\* unless two processes wrote at once or one was cut short.
EntryIsManaged ==
    \A a \in config : a \in registry \/ torn \/
        \E t \in Threads : pc[t] = "register" /\ a \in newRegistry[t]

-----------------------------------------------------------------------------
(* What the proofs need beside the properties.                             *)

\* Who stops or publishes does so to a deployment, and a command is there for something.
TargetsAreApps == \A t \in Threads :
    /\ job[t] \in {"stop", "publish"} => target[t] \in Apps
    /\ t \in Cli /\ pc[t] = "list" => job[t] # "refresh"

\* A provider's rows are its own deployments.
RowsAreTheirs == \A p \in Providers : \A a \in listed[p] : Of[a] = p

\* While no two processes wrote at once, a sync is alone, what it writes is in step, and
\* keeps what is published.
SyncIsAlone == \A t \in Threads : pc[t] \in Syncing /\ ~torn =>
    /\ \A u \in Threads : pc[u] \in Syncing => u = t
    /\ newConfig[t] \subseteq newRegistry[t]
    /\ published \subseteq newConfig[t]
    /\ pc[t] = "register" => config = newConfig[t]

\* Once they did, nothing is said of what is published.
TornSaysNothing == torn => published = {}

IInv ==
    /\ TypeOK
    /\ TargetsAreApps
    /\ RowsAreTheirs
    /\ SyncIsAlone
    /\ TornSaysNothing
    /\ RunningStaysListed
    /\ RunningStaysPublished
    /\ EntryIsManaged

=============================================================================
