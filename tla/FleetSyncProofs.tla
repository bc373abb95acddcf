--------------------------- MODULE FleetSyncProofs ---------------------------
(***************************************************************************)
(* Proofs that FleetSync keeps what runs listed and published, and knows   *)
(* its own entries, for any deployments, providers and threads.  IInv is   *)
(* shown to be inductive, action by action.                                *)
(*                                                                         *)
(* Two files are written one after the other, so nothing can be said of    *)
(* them between: SyncIsAlone says what the thread that writes is about to  *)
(* establish, and that no other thread interferes.                         *)
(***************************************************************************)
EXTENDS FleetSync, TLAPS

USE FleetAssumption

\* In the initial state nothing runs and nothing was written.
LEMMA InvariantInit == Init => IInv
  BY DEF Init, IInv, TypeOK, TargetsAreApps, RowsAreTheirs, SyncIsAlone,
     TornSaysNothing,
     RunningStaysListed, RunningStaysPublished, EntryIsManaged, Threads, Syncing

\* A deployment that comes up is neither known nor published yet.
LEMMA ComeUpKeeps ==
    ASSUME IInv, NEW a \in Apps, ComeUp(a)
    PROVE  IInv'
<1> USE DEF IInv
<1>1. TypeOK'
  BY DEF TypeOK, Threads, Syncing, ComeUp, Goto, files, pass, plan, history
<1>2. TargetsAreApps'
  BY DEF TypeOK, TargetsAreApps, Threads, ComeUp, Goto, files, pass, plan,
     history
<1>3. RowsAreTheirs'
  BY DEF TypeOK, RowsAreTheirs, ComeUp, Goto, files, pass, plan, history
<1>4. SyncIsAlone'
  BY DEF TypeOK, SyncIsAlone, Threads, Syncing, ComeUp, Goto, files, pass,
     plan, history
<1>5. TornSaysNothing'
  BY DEF TypeOK, TornSaysNothing, ComeUp, Goto, files, pass, plan, history
<1>6. RunningStaysListed'
  BY DEF TypeOK, RunningStaysListed, ComeUp, Goto, files, pass, plan, history
<1>7. RunningStaysPublished'
  BY DEF TypeOK, RunningStaysPublished, Threads, ComeUp, Goto, files, pass,
     plan, history
<1>8. EntryIsManaged'
  BY DEF TypeOK, EntryIsManaged, Threads, ComeUp, Goto, files, pass, plan,
     history
<1> QED
  BY <1>1, <1>2, <1>3, <1>4, <1>5, <1>6, <1>7, <1>8

\* What runs no more is neither known nor published.
LEMMA VanishKeeps ==
    ASSUME IInv, NEW a \in Apps, Vanish(a)
    PROVE  IInv'
<1> USE DEF IInv
<1>1. TypeOK'
  BY DEF TypeOK, Threads, Syncing, Vanish, Goto, files, pass, plan, history,
     End
<1>2. TargetsAreApps'
  BY DEF TypeOK, TargetsAreApps, Threads, Vanish, Goto, files, pass, plan,
     history, End
<1>3. RowsAreTheirs'
  BY DEF TypeOK, RowsAreTheirs, Vanish, Goto, files, pass, plan, history, End
<1>4. SyncIsAlone'
  BY DEF TypeOK, SyncIsAlone, Threads, Syncing, Vanish, Goto, files, pass,
     plan, history, End
<1>5. TornSaysNothing'
  BY DEF TypeOK, TornSaysNothing, Vanish, Goto, files, pass, plan, history,
     End
<1>6. RunningStaysListed'
  BY DEF TypeOK, RunningStaysListed, Vanish, Goto, files, pass, plan, history,
     End
<1>7. RunningStaysPublished'
  BY DEF TypeOK, RunningStaysPublished, Threads, Vanish, Goto, files, pass,
     plan, history, End
<1>8. EntryIsManaged'
  BY DEF TypeOK, EntryIsManaged, Threads, Vanish, Goto, files, pass, plan,
     history, End
<1> QED
  BY <1>1, <1>2, <1>3, <1>4, <1>5, <1>6, <1>7, <1>8

\* What was stopped is neither known nor published.
LEMMA StopKeeps ==
    ASSUME IInv, NEW t \in Threads, Stop(t)
    PROVE  IInv'
<1> USE DEF IInv
<1>1. TypeOK'
  BY DEF TypeOK, Threads, Syncing, Stop, Goto, files, pass, plan, history, End
<1>2. TargetsAreApps'
  BY DEF TypeOK, TargetsAreApps, Threads, Stop, Goto, files, pass, plan,
     history, End
<1>3. RowsAreTheirs'
  BY DEF TypeOK, RowsAreTheirs, Stop, Goto, files, pass, plan, history, End
<1>4. SyncIsAlone'
  BY DEF TypeOK, SyncIsAlone, Threads, Syncing, Stop, Goto, files, pass, plan,
     history, End
<1>5. TornSaysNothing'
  BY DEF TypeOK, TornSaysNothing, Stop, Goto, files, pass, plan, history, End
<1>6. RunningStaysListed'
  BY DEF TypeOK, RunningStaysListed, Stop, Goto, files, pass, plan, history,
     End
<1>7. RunningStaysPublished'
  BY DEF TypeOK, RunningStaysPublished, Threads, Stop, Goto, files, pass,
     plan, history, End
<1>8. EntryIsManaged'
  BY DEF TypeOK, EntryIsManaged, Threads, Stop, Goto, files, pass, plan,
     history, End
<1> QED
  BY <1>1, <1>2, <1>3, <1>4, <1>5, <1>6, <1>7, <1>8

\* A thread begins to publish.
LEMMA PublishKeeps ==
    ASSUME IInv, NEW t \in Threads, Publish(t)
    PROVE  IInv'
<1> USE DEF IInv
<1>1. TypeOK'
  BY DEF TypeOK, Threads, Syncing, Publish, Goto, files, pass, plan, history
<1>2. TargetsAreApps'
  BY DEF TypeOK, TargetsAreApps, Threads, Publish, Goto, files, pass, plan,
     history
<1>3. RowsAreTheirs'
  BY DEF TypeOK, RowsAreTheirs, Publish, Goto, files, pass, plan, history
<1>4. SyncIsAlone'
  BY DEF TypeOK, SyncIsAlone, Threads, Syncing, Publish, Goto, files, pass,
     plan, history
<1>5. TornSaysNothing'
  BY DEF TypeOK, TornSaysNothing, Publish, Goto, files, pass, plan, history
<1>6. RunningStaysListed'
  BY DEF TypeOK, RunningStaysListed, Publish, Goto, files, pass, plan, history
<1>7. RunningStaysPublished'
  BY DEF TypeOK, RunningStaysPublished, Threads, Publish, Goto, files, pass,
     plan, history
<1>8. EntryIsManaged'
  BY DEF TypeOK, EntryIsManaged, Threads, Publish, Goto, files, pass, plan,
     history
<1> QED
  BY <1>1, <1>2, <1>3, <1>4, <1>5, <1>6, <1>7, <1>8

\* A thread begins to refresh.
LEMMA RefreshKeeps ==
    ASSUME IInv, NEW t \in Tui, Refresh(t)
    PROVE  IInv'
<1> USE DEF IInv
<1>1. TypeOK'
  BY DEF TypeOK, Threads, Syncing, Refresh, Goto, files, pass, plan, history
<1>2. TargetsAreApps'
  BY DEF TypeOK, TargetsAreApps, Threads, Refresh, Goto, files, pass, plan,
     history
<1>3. RowsAreTheirs'
  BY DEF TypeOK, RowsAreTheirs, Refresh, Goto, files, pass, plan, history
<1>4. SyncIsAlone'
  BY DEF TypeOK, SyncIsAlone, Threads, Syncing, Refresh, Goto, files, pass,
     plan, history
<1>5. TornSaysNothing'
  BY DEF TypeOK, TornSaysNothing, Refresh, Goto, files, pass, plan, history
<1>6. RunningStaysListed'
  BY DEF TypeOK, RunningStaysListed, Refresh, Goto, files, pass, plan, history
<1>7. RunningStaysPublished'
  BY DEF TypeOK, RunningStaysPublished, Threads, Refresh, Goto, files, pass,
     plan, history
<1>8. EntryIsManaged'
  BY DEF TypeOK, EntryIsManaged, Threads, Refresh, Goto, files, pass, plan,
     history
<1> QED
  BY <1>1, <1>2, <1>3, <1>4, <1>5, <1>6, <1>7, <1>8

\* A command begins to sync.
LEMMA SyncAllKeeps ==
    ASSUME IInv, NEW t \in Cli, SyncAll(t)
    PROVE  IInv'
<1> USE DEF IInv
<1>1. TypeOK'
  BY DEF TypeOK, Threads, Syncing, SyncAll, Goto, files, pass, plan, history
<1>2. TargetsAreApps'
  BY DEF TypeOK, TargetsAreApps, Threads, SyncAll, Goto, files, pass, plan,
     history
<1>3. RowsAreTheirs'
  BY DEF TypeOK, RowsAreTheirs, SyncAll, Goto, files, pass, plan, history
<1>4. SyncIsAlone'
  BY DEF TypeOK, SyncIsAlone, Threads, Syncing, SyncAll, Goto, files, pass,
     plan, history
<1>5. TornSaysNothing'
  BY DEF TypeOK, TornSaysNothing, SyncAll, Goto, files, pass, plan, history
<1>6. RunningStaysListed'
  BY DEF TypeOK, RunningStaysListed, SyncAll, Goto, files, pass, plan, history
<1>7. RunningStaysPublished'
  BY DEF TypeOK, RunningStaysPublished, Threads, SyncAll, Goto, files, pass,
     plan, history
<1>8. EntryIsManaged'
  BY DEF TypeOK, EntryIsManaged, Threads, SyncAll, Goto, files, pass, plan,
     history
<1> QED
  BY <1>1, <1>2, <1>3, <1>4, <1>5, <1>6, <1>7, <1>8

\* An answer that is on its way changes nothing yet.
LEMMA ListKeeps ==
    ASSUME IInv, NEW t \in Threads, List(t)
    PROVE  IInv'
<1> USE DEF IInv
<1>1. TypeOK'
  <2>1. PICK C \in SUBSET Providers : \E S \in SUBSET Asked(t, C) :
           \E R \in SUBSET {a \in Apps : job[t] = "sync" /\ Of[a] \in C \ S} :
             /\ configured' = [configured EXCEPT ![t] = IF t \in Tui THEN C ELSE {}]
             /\ scope' = [scope EXCEPT ![t] = S]
             /\ rows' = [rows EXCEPT ![t] = {a \in up : Of[a] \in S} \cup R]
    BY DEF List
  <2>2. Asked(t, C) \subseteq Providers
    BY DEF TargetsAreApps, Asked, List, TypeOK, Threads
  <2>3. PICK S \in SUBSET Providers, R \in SUBSET Apps :
             /\ scope' = [scope EXCEPT ![t] = S]
             /\ rows' = [rows EXCEPT ![t] = {a \in up : Of[a] \in S} \cup R]
    BY <2>1, <2>2
  <2>4. configured' \in [Threads -> SUBSET Providers]
    BY <2>1 DEF TypeOK
  <2> QED
    BY <2>3, <2>4 DEF TypeOK, Threads, Syncing, List, Goto, files, plan,
       history
<1>2. TargetsAreApps'
  BY DEF TypeOK, TargetsAreApps, Threads, List, Goto, files, pass, plan,
     history, Asked
<1>3. RowsAreTheirs'
  BY DEF TypeOK, RowsAreTheirs, List, Goto, files, pass, plan, history, Asked
<1>4. SyncIsAlone'
  BY DEF TypeOK, SyncIsAlone, Threads, Syncing, List, Goto, files, pass, plan,
     history, Asked
<1>5. TornSaysNothing'
  BY DEF TypeOK, TornSaysNothing, List, Goto, files, pass, plan, history,
     Asked
<1>6. RunningStaysListed'
  BY DEF TypeOK, RunningStaysListed, List, Goto, files, pass, plan, history,
     Asked
<1>7. RunningStaysPublished'
  BY DEF TypeOK, RunningStaysPublished, Threads, List, Goto, files, pass,
     plan, history, Asked
<1>8. EntryIsManaged'
  BY DEF TypeOK, EntryIsManaged, Threads, List, Goto, files, pass, plan,
     history, Asked
<1> QED
  BY <1>1, <1>2, <1>3, <1>4, <1>5, <1>6, <1>7, <1>8

\* What is known is in the rows that were kept or in those that came.
LEMMA RecordKeeps ==
    ASSUME IInv, NEW t \in Threads, Record(t)
    PROVE  IInv'
<1> USE DEF IInv
<1> DEFINE shown == UNION {listed'[p] : p \in Providers}
<1>1. /\ listed' = [p \in Providers |->
                       IF p \notin configured[t] THEN {}
                       ELSE IF p \in scope[t] THEN At(rows[t], p) ELSE listed[p]]
      /\ known' = (known \ (Missing(t) \cup SignedOut(t))) \cup (shown \cap up)
      /\ UNCHANGED <<up, config, registry, published, torn>>
  BY DEF Record, Recorded, files
<1>2. \A p \in Providers : \A a \in listed'[p] : a \in Apps /\ Of[a] = p
  BY <1>1 DEF TypeOK, RowsAreTheirs, At
<1>3. shown \subseteq Apps /\ listed' \in [Providers -> SUBSET Apps]
  BY <1>1, <1>2
<1>4. \/ Return({t})
      \/ /\ job[t] # "refresh"
         /\ rows' = [rows EXCEPT ![t] = shown]
         /\ configured' = [configured EXCEPT ![t] = {}]
         /\ pc' = [pc EXCEPT ![t] = "load"]
         /\ UNCHANGED <<job, target, scope, newConfig, newRegistry>>
  BY DEF Record, Recorded, Goto, plan
<1> HIDE DEF shown
<1>5. TypeOK'
  <2>1. CASE Return({t})
    BY <1>1, <1>3, <2>1 DEF TypeOK, Return, Syncing
  <2>2. CASE ~Return({t})
    BY <1>1, <1>3, <1>4, <2>2 DEF TypeOK, Syncing
  <2> QED
    BY <2>1, <2>2
<1>6. TargetsAreApps'
  BY <1>4 DEF TypeOK, TargetsAreApps, Return, Threads
<1>7. RowsAreTheirs'
  BY <1>2 DEF RowsAreTheirs
<1>8. /\ \A u \in Threads : pc'[u] \in Syncing => pc'[u] = pc[u]
      /\ \A u \in Threads : pc[u] \in Syncing =>
            /\ pc'[u] = pc[u]
            /\ newConfig'[u] = newConfig[u]
            /\ newRegistry'[u] = newRegistry[u]
  <2>1. pc[t] = "record"
    BY DEF Record
  <2>2. CASE Return({t})
    BY <2>1, <2>2 DEF TypeOK, Return, Syncing
  <2>3. CASE ~Return({t})
    BY <1>4, <2>1, <2>3 DEF TypeOK, Syncing
  <2> QED
    BY <2>2, <2>3
<1>9. SyncIsAlone'
  BY <1>1, <1>8 DEF SyncIsAlone
<1>10. TornSaysNothing'
  BY <1>1 DEF TornSaysNothing
<1>11. RunningStaysListed'
  <2> SUFFICES ASSUME NEW a \in known' PROVE a \in listed'[Of[a]]
    BY DEF RunningStaysListed
  <2>1. CASE a \in shown
    BY <1>2, <2>1 DEF shown
  <2>2. CASE a \notin shown
    <3>1. a \in known /\ a \notin Missing(t) /\ a \notin SignedOut(t)
      BY <1>1, <2>2
    <3>2. a \in Apps /\ Of[a] \in Providers
      BY <3>1 DEF TypeOK
    <3> QED
      BY <1>1, <3>1, <3>2 DEF Missing, SignedOut, At, RunningStaysListed
  <2> QED
    BY <2>1, <2>2
<1>12. RunningStaysPublished'
  BY <1>1, <1>8 DEF RunningStaysPublished, Syncing
<1>13. EntryIsManaged'
  BY <1>1, <1>8 DEF EntryIsManaged, Syncing
<1> QED
  BY <1>5, <1>6, <1>7, <1>9, <1>10, <1>11, <1>12, <1>13

\* A sync keeps what it plans in step: who writes alone finds the two files in step,
\* and plans to leave them so.
LEMMA LoadKeeps ==
    ASSUME IInv, NEW t \in Threads, Load(t)
    PROVE  IInv'
<1> USE DEF IInv
<1> DEFINE C == ConfigAfter(t)
           R == RegistryAfter(t)
           others == \E u \in Threads \ Process(t) : pc[u] \in Syncing
<1>1. /\ torn' = (torn \/ others)
      /\ published' = IF torn' THEN {}
                      ELSE (published \ Dropped(t)) \cup (Targets(t) \cap C \cap up)
      /\ UNCHANGED <<up, listed, known, config, registry>>
  BY DEF Load, Planned, files
<1>2. \/ C = config /\ R = registry /\ Return({t})
      \/ /\ newConfig' = [newConfig EXCEPT ![t] = C]
         /\ newRegistry' = [newRegistry EXCEPT ![t] = R]
         /\ pc' = [pc EXCEPT ![t] = IF C # config THEN "write" ELSE "register"]
         /\ job' = [job EXCEPT ![t] = "refresh"]
         /\ target' = [target EXCEPT ![t] = NoApp]
         /\ rows' = [rows EXCEPT ![t] = {}]
         /\ scope' = [scope EXCEPT ![t] = {}]
         /\ configured' = configured
  BY DEF Load, Planned, Goto
<1>3. Targets(t) \subseteq Apps /\ C \subseteq Apps /\ R \subseteq Apps
  BY DEF TargetsAreApps, TypeOK, Targets, ConfigAfter, RegistryAfter
<1>4. ~torn' => /\ ~torn
                /\ \A u \in Threads : pc[u] \notin Syncing
                /\ C \subseteq R
  <2>1. SUFFICES ASSUME ~torn' PROVE /\ ~torn
                                     /\ \A u \in Threads : pc[u] \notin Syncing
                                     /\ C \subseteq R
    OBVIOUS
  <2>2. ~torn /\ ~others
    BY <1>1, <2>1
  <2>3. \A u \in Threads : pc[u] \notin Syncing
    BY <2>2 DEF Load
  <2>4. config \subseteq registry
    BY <2>2, <2>3 DEF EntryIsManaged, Syncing, TypeOK
  <2> QED
    BY <2>2, <2>3, <2>4 DEF ConfigAfter, RegistryAfter
<1>5. ~torn' => published' \subseteq C
  <2>1. ~torn' => published \subseteq config
    BY <1>4 DEF RunningStaysPublished, Syncing
  <2>2. (config \ Dropped(t)) \subseteq C
    BY DEF ConfigAfter
  <2> QED
    BY <1>1, <2>1, <2>2
<1> HIDE DEF C, R
<1>6. torn' \in BOOLEAN /\ published' \subseteq Apps
  <2>1. torn' \in BOOLEAN
    BY <1>1
  <2>2. published \subseteq Apps /\ Targets(t) \subseteq Apps
    BY <1>3 DEF TypeOK
  <2> QED
    BY <1>1, <2>1, <2>2
<1>7. TypeOK'
  <2>1. CASE Return({t})
    BY <1>1, <1>6, <2>1 DEF TypeOK, Return, Syncing
  <2>2. CASE ~Return({t})
    BY <1>1, <1>2, <1>3, <1>6, <2>2 DEF TypeOK, Syncing
  <2> QED
    BY <2>1, <2>2
<1>8. TargetsAreApps' /\ RowsAreTheirs'
  BY <1>1, <1>2 DEF TypeOK, TargetsAreApps, RowsAreTheirs, Return, Threads
<1>9. SyncIsAlone'
  <2> SUFFICES ASSUME NEW v \in Threads, pc'[v] \in Syncing, ~torn'
               PROVE  /\ \A u \in Threads : pc'[u] \in Syncing => u = v
                      /\ newConfig'[v] \subseteq newRegistry'[v]
                      /\ published' \subseteq newConfig'[v]
                      /\ pc'[v] = "register" => config' = newConfig'[v]
    BY DEF SyncIsAlone
  <2>1. \A u \in Threads : pc[u] \notin Syncing
    BY <1>4
  <2>2. ~Return({t})
    BY <2>1 DEF Return, TypeOK, Syncing
  <2>3. \A u \in Threads : u # t => pc'[u] = pc[u]
    BY <1>2, <2>2 DEF TypeOK
  <2>4. v = t
    BY <2>1, <2>3
  <2>5. newConfig'[t] = C /\ newRegistry'[t] = R
    BY <1>2, <2>2 DEF TypeOK
  <2>6. pc'[t] = "register" => config = C
    BY <1>2, <2>2 DEF TypeOK
  <2> QED
    BY <1>1, <1>4, <1>5, <2>1, <2>3, <2>4, <2>5, <2>6
<1>10. TornSaysNothing'
  BY <1>1 DEF TornSaysNothing
<1>11. RunningStaysListed'
  BY <1>1 DEF RunningStaysListed
<1>12. RunningStaysPublished'
  <2> SUFFICES ASSUME NEW a \in published'
               PROVE  a \in config' \/ \E u \in Threads :
                          pc'[u] = "write" /\ a \in newConfig'[u]
    BY DEF RunningStaysPublished
  <2>1. a \in C
    BY <1>1, <1>5
  <2>2. CASE C = config
    BY <1>1, <2>1, <2>2
  <2>3. CASE C # config
    <3>1. pc'[t] = "write" /\ newConfig'[t] = C
      BY <1>2, <2>3 DEF TypeOK
    <3> QED
      BY <2>1, <3>1
  <2> QED
    BY <2>2, <2>3
<1>13. EntryIsManaged'
  <2> SUFFICES ASSUME NEW a \in config', ~torn'
               PROVE  a \in registry'
    BY DEF EntryIsManaged
  <2> QED
    BY <1>1, <1>4 DEF EntryIsManaged, Syncing
<1> QED
  BY <1>7, <1>8, <1>9, <1>10, <1>11, <1>12, <1>13

\* A thread that writes the first file leaves it as it planned both.
LEMMA WriteKeeps ==
    ASSUME IInv, NEW t \in Threads, Write(t)
    PROVE  IInv'
<1> USE DEF IInv
<1>1. TypeOK'
  BY DEF TypeOK, Threads, Syncing, Write, Goto, files, pass, plan, history
<1>2. TargetsAreApps'
  BY DEF TypeOK, TargetsAreApps, Threads, Write, Goto, files, pass, plan,
     history
<1>3. RowsAreTheirs'
  BY DEF TypeOK, RowsAreTheirs, Write, Goto, files, pass, plan, history
<1>4. SyncIsAlone'
  BY DEF TypeOK, SyncIsAlone, Threads, Syncing, Write, Goto, files, pass,
     plan, history
<1>5. TornSaysNothing'
  BY DEF TypeOK, TornSaysNothing, Write, Goto, files, pass, plan, history
<1>6. RunningStaysListed'
  BY DEF TypeOK, RunningStaysListed, Write, Goto, files, pass, plan, history
<1>7. RunningStaysPublished'
  <2>1. CASE torn
    BY <2>1 DEF TornSaysNothing, RunningStaysPublished, Write, history
  <2>2. CASE ~torn
    <3>1. published \subseteq newConfig[t]
      BY <2>2 DEF SyncIsAlone, Write, Syncing
    <3> QED
      BY <3>1 DEF RunningStaysPublished, Write, history
  <2> QED
    BY <2>1, <2>2
<1>8. EntryIsManaged'
  <2>1. CASE torn
    BY <2>1 DEF EntryIsManaged, Write, history
  <2>2. CASE ~torn
    <3>1. newConfig[t] \subseteq newRegistry[t]
      BY <2>2 DEF SyncIsAlone, Write, Syncing
    <3>2. pc'[t] = "register" /\ config' = newConfig[t] /\ newRegistry' = newRegistry
      BY DEF Write, Goto, plan, TypeOK
    <3> QED
      BY <3>1, <3>2 DEF EntryIsManaged
  <2> QED
    BY <2>1, <2>2
<1> QED
  BY <1>1, <1>2, <1>3, <1>4, <1>5, <1>6, <1>7, <1>8

\* A thread that writes the second file leaves the two in step.
LEMMA RegisterKeeps ==
    ASSUME IInv, NEW t \in Threads, Register(t)
    PROVE  IInv'
<1> USE DEF IInv
<1>1. TypeOK'
  BY DEF TypeOK, Threads, Syncing, Register, Return, history
<1>2. TargetsAreApps'
  BY DEF TypeOK, TargetsAreApps, Threads, Register, Return, history
<1>3. RowsAreTheirs'
  BY DEF TypeOK, RowsAreTheirs, Register, Return, history
<1>4. SyncIsAlone'
  BY DEF TypeOK, SyncIsAlone, Threads, Syncing, Register, Return, history
<1>5. TornSaysNothing'
  BY DEF TypeOK, TornSaysNothing, Register, Return, history
<1>6. RunningStaysListed'
  BY DEF TypeOK, RunningStaysListed, Register, Return, history
<1>7. RunningStaysPublished'
  BY DEF TypeOK, RunningStaysPublished, Threads, Register, Return, history
<1>8. EntryIsManaged'
  <2>1. CASE torn
    BY <2>1 DEF EntryIsManaged, Register, history
  <2>2. CASE ~torn
    <3>1. config \subseteq newRegistry[t]
      BY <2>2 DEF SyncIsAlone, Register, Syncing
    <3>2. config' = config /\ registry' = newRegistry[t]
      BY DEF Register
    <3> QED
      BY <3>1, <3>2 DEF EntryIsManaged
  <2> QED
    BY <2>1, <2>2
<1> QED
  BY <1>1, <1>2, <1>3, <1>4, <1>5, <1>6, <1>7, <1>8

\* A command that is cut short leaves the files as they are.
LEMMA CrashCliKeeps ==
    ASSUME IInv, NEW t \in Cli, CrashCli(t)
    PROVE  IInv'
<1> USE DEF IInv
<1>1. TypeOK'
  BY DEF TypeOK, Threads, Syncing, CrashCli, Goto, files, pass, plan, history,
     Return, Cut
<1>2. TargetsAreApps'
  BY DEF TypeOK, TargetsAreApps, Threads, CrashCli, Goto, files, pass, plan,
     history, Return, Cut
<1>3. RowsAreTheirs'
  BY DEF TypeOK, RowsAreTheirs, CrashCli, Goto, files, pass, plan, history,
     Return, Cut
<1>4. SyncIsAlone'
  BY DEF TypeOK, SyncIsAlone, Threads, Syncing, CrashCli, Goto, files, pass,
     plan, history, Return, Cut
<1>5. TornSaysNothing'
  BY DEF TypeOK, TornSaysNothing, CrashCli, Goto, files, pass, plan, history,
     Return, Cut
<1>6. RunningStaysListed'
  BY DEF TypeOK, RunningStaysListed, CrashCli, Goto, files, pass, plan,
     history, Return, Cut
<1>7. RunningStaysPublished'
  BY DEF TypeOK, RunningStaysPublished, Threads, CrashCli, Goto, files, pass,
     plan, history, Return, Cut
<1>8. EntryIsManaged'
  BY DEF TypeOK, EntryIsManaged, Threads, CrashCli, Goto, files, pass, plan,
     history, Return, Cut
<1> QED
  BY <1>1, <1>2, <1>3, <1>4, <1>5, <1>6, <1>7, <1>8

\* A session that is cut short loses what it knew, and leaves the files.
LEMMA CrashSessionKeeps ==
    ASSUME IInv, CrashSession
    PROVE  IInv'
<1> USE DEF IInv
<1>1. TypeOK'
  BY DEF TypeOK, Threads, Syncing, CrashSession, Goto, files, pass, plan,
     history, Return, Cut
<1>2. TargetsAreApps'
  BY DEF TypeOK, TargetsAreApps, Threads, CrashSession, Goto, files, pass,
     plan, history, Return, Cut
<1>3. RowsAreTheirs'
  BY DEF TypeOK, RowsAreTheirs, CrashSession, Goto, files, pass, plan,
     history, Return, Cut
<1>4. SyncIsAlone'
  BY DEF TypeOK, SyncIsAlone, Threads, Syncing, CrashSession, Goto, files,
     pass, plan, history, Return, Cut
<1>5. TornSaysNothing'
  BY DEF TypeOK, TornSaysNothing, CrashSession, Goto, files, pass, plan,
     history, Return, Cut
<1>6. RunningStaysListed'
  BY DEF TypeOK, RunningStaysListed, CrashSession, Goto, files, pass, plan,
     history, Return, Cut
<1>7. RunningStaysPublished'
  BY DEF TypeOK, RunningStaysPublished, Threads, CrashSession, Goto, files,
     pass, plan, history, Return, Cut
<1>8. EntryIsManaged'
  BY DEF TypeOK, EntryIsManaged, Threads, CrashSession, Goto, files, pass,
     plan, history, Return, Cut
<1> QED
  BY <1>1, <1>2, <1>3, <1>4, <1>5, <1>6, <1>7, <1>8

\* Every step keeps IInv.
LEMMA InvariantStep == IInv /\ [Next]_vars => IInv'
<1> SUFFICES ASSUME IInv, [Next]_vars PROVE IInv'
  OBVIOUS
<1>1. ASSUME NEW a \in Apps, ComeUp(a) PROVE IInv'
  BY <1>1, ComeUpKeeps
<1>2. ASSUME NEW a \in Apps, Vanish(a) PROVE IInv'
  BY <1>2, VanishKeeps
<1>3. ASSUME NEW t \in Threads, Stop(t) PROVE IInv'
  BY <1>3, StopKeeps
<1>4. ASSUME NEW t \in Threads, Publish(t) PROVE IInv'
  BY <1>4, PublishKeeps
<1>5. ASSUME NEW t \in Tui, Refresh(t) PROVE IInv'
  BY <1>5, RefreshKeeps
<1>6. ASSUME NEW t \in Cli, SyncAll(t) PROVE IInv'
  BY <1>6, SyncAllKeeps
<1>7. ASSUME NEW t \in Threads, List(t) PROVE IInv'
  BY <1>7, ListKeeps
<1>8. ASSUME NEW t \in Threads, Record(t) PROVE IInv'
  BY <1>8, RecordKeeps
<1>9. ASSUME NEW t \in Threads, Load(t) PROVE IInv'
  BY <1>9, LoadKeeps
<1>10. ASSUME NEW t \in Threads, Write(t) PROVE IInv'
  BY <1>10, WriteKeeps
<1>11. ASSUME NEW t \in Threads, Register(t) PROVE IInv'
  BY <1>11, RegisterKeeps
<1>12. ASSUME NEW t \in Cli, CrashCli(t) PROVE IInv'
  BY <1>12, CrashCliKeeps
<1>13. ASSUME CrashSession PROVE IInv'
  BY <1>13, CrashSessionKeeps
<1>14. CASE UNCHANGED vars
  BY <1>14 DEF IInv, TypeOK, TargetsAreApps, RowsAreTheirs, SyncIsAlone,
     TornSaysNothing, RunningStaysListed, RunningStaysPublished,
     EntryIsManaged, vars, files, pass, plan, history
<1> QED
  BY <1>1, <1>2, <1>3, <1>4, <1>5, <1>6, <1>7, <1>8, <1>9, <1>10, <1>11,
     <1>12, <1>13, <1>14 DEF Next, Step

\* IInv holds in every reachable state.
THEOREM Invariance == Spec => []IInv
<1>1. Init => IInv
  BY InvariantInit
<1>2. IInv /\ [Next]_vars => IInv'
  BY InvariantStep
<1> QED
  BY <1>1, <1>2, PTL DEF Spec

\* The variables keep their types.
THEOREM TypeCorrect == Spec => []TypeOK
<1>1. IInv => TypeOK
  BY DEF IInv
<1> QED
  BY <1>1, Invariance, PTL

\* app.py, _record_provider_listings(): a running deployment that a pass has shown stays
\* listed, whoever fails to answer, until its provider is found not configured.
THEOREM ListedStays == Spec => []RunningStaysListed
<1>1. IInv => RunningStaysListed
  BY DEF IInv
<1> QED
  BY <1>1, Invariance, PTL

\* opencode.py, sync_opencode_config(): a running deployment that was published keeps its
\* entry, while no two processes write at once.
THEOREM PublishedStays == Spec => []RunningStaysPublished
<1>1. IInv => RunningStaysPublished
  BY DEF IInv
<1> QED
  BY <1>1, Invariance, PTL

\* opencode.py, sync_opencode_config(): what Launchpad wrote it remembers as its own,
\* while no two processes write at once.
THEOREM EntriesAreManaged == Spec => []EntryIsManaged
<1>1. IInv => EntryIsManaged
  BY DEF IInv
<1> QED
  BY <1>1, Invariance, PTL

=============================================================================
