------------------------- MODULE DurableJobsProofs -------------------------
(***************************************************************************)
(* Proofs about DurableJobs, for any jobs, targets, ladders, workers and   *)
(* sessions: IInv is inductive, one lemma per action, and the safety       *)
(* properties follow from it.                                              *)
(***************************************************************************)
EXTENDS DurableJobs, TLAPS

\* What excuses a job of having the target of another.
Excused(j) == cfg[j] > 1 \/ (pid[j] # NoWorker /\ ~ PidAlive(pid[j]))

\* No duplicate appears where every active job was active before, and keeps its target
\* and its excuse or has one now.
LEMMA DuplicateKept ==
  ASSUME DuplicateOnlyByFallback,
         \A j \in Jobs : status'[j] \in Active =>
             /\ status[j] \in Active
             /\ \/ Excused(j)'
                \/ Target(j)' = Target(j) /\ ~ Excused(j)
  PROVE  DuplicateOnlyByFallback'
<1> SUFFICES ASSUME NEW i \in Jobs, NEW j \in Jobs, i # j,
                    status'[i] \in Active, status'[j] \in Active,
                    Target(i)' = Target(j)', ~ Excused(i)', ~ Excused(j)'
             PROVE  FALSE
  BY DEF DuplicateOnlyByFallback, Excused, Active
<1>1. /\ status[i] \in Active /\ status[j] \in Active
      /\ Target(i) = Target(j)
      /\ ~ Excused(i) /\ ~ Excused(j)
  OBVIOUS
<1> QED
  BY <1>1 DEF DuplicateOnlyByFallback, Excused

\* A worker looks at its job: WorkerRead preserves the invariant.
LEMMA WorkerReadStep ==
  ASSUME IInv, NEW w \in Workers, WorkerRead(w)
  PROVE  IInv'
<1> USE LadderAssumption, NullAssumption DEF IInv, WorkerRead, GoWorker, GoSession,
        Settle, FinishJob, StartWorker, CreateJob, store, work, sess
<1>1. TypeOK'
  BY DEF TypeOK, Active, Terminal, WorkerPCs, SessionPCs, FreshKept, PlacementReady,
         InHand, LastOf, Target, Listed
<1>2. PidFollowsStatus' /\ PidIsItsWorker' /\ InterruptedIsDead'
  BY DEF TypeOK, PidFollowsStatus, PidIsItsWorker, InterruptedIsDead, PidAlive,
         HolderOwns, InHand, PlacementReady, FreshKept, Terminal, Active
<1>3. DuplicateOnlyByFallback'
  <2>1. ASSUME NEW j \in Jobs
        PROVE  Excused(j)' <=> Excused(j)
    <3>1. pid[j] # w
      BY DEF PidIsItsWorker
    <3> QED
      BY <3>1 DEF TypeOK, Excused, PidAlive
  <2> QED
    BY <2>1, DuplicateKept DEF Target
<1>4. ASSUME NEW v \in Workers
      PROVE  HolderOwns(v)'
  BY <1>4 DEF TypeOK, HolderOwns, InHand, PidAlive, PidFollowsStatus,
     PidIsItsWorker, FreshKept, Terminal, Active
<1>5. ASSUME NEW v \in Workers
      PROVE  PlacementReady(v)'
  BY <1>5 DEF TypeOK, PlacementReady, HolderOwns, InHand, PidAlive, LastOf,
     PidFollowsStatus, PidIsItsWorker, Terminal
<1>6. ASSUME NEW r \in Sessions
      PROVE  FreshKept(r)'
  BY <1>6 DEF TypeOK, FreshKept, FreshApart, PidFollowsStatus, HolderOwns, InHand,
     Listed
<1>7. FreshApart'
  BY DEF TypeOK, FreshApart, FreshKept
<1> QED
  BY <1>1, <1>2, <1>3, <1>4, <1>5, <1>6, <1>7

\* A worker probes its job's worker: WorkerProbe preserves the invariant.
LEMMA WorkerProbeStep ==
  ASSUME IInv, NEW w \in Workers, WorkerProbe(w)
  PROVE  IInv'
<1> USE LadderAssumption, NullAssumption DEF IInv, WorkerProbe, GoWorker, GoSession,
        Settle, FinishJob, StartWorker, CreateJob, store, work, sess
<1>1. TypeOK'
  BY DEF TypeOK, Active, Terminal, WorkerPCs, SessionPCs, FreshKept, PlacementReady,
         InHand, LastOf, Target, Listed
<1>2. PidFollowsStatus' /\ PidIsItsWorker' /\ InterruptedIsDead'
  BY DEF TypeOK, PidFollowsStatus, PidIsItsWorker, InterruptedIsDead, PidAlive,
         HolderOwns, InHand, PlacementReady, FreshKept, Terminal, Active
<1>3. DuplicateOnlyByFallback'
  <2>1. ASSUME NEW j \in Jobs
        PROVE  Excused(j)' <=> Excused(j)
    <3>1. pid[j] # w
      BY DEF PidIsItsWorker
    <3> QED
      BY <3>1 DEF TypeOK, Excused, PidAlive
  <2> QED
    BY <2>1, DuplicateKept DEF Target
<1>4. ASSUME NEW v \in Workers
      PROVE  HolderOwns(v)'
  BY <1>4 DEF TypeOK, HolderOwns, InHand, PidAlive, PidFollowsStatus,
     PidIsItsWorker, FreshKept, Terminal, Active
<1>5. ASSUME NEW v \in Workers
      PROVE  PlacementReady(v)'
  BY <1>5 DEF TypeOK, PlacementReady, HolderOwns, InHand, PidAlive, LastOf,
     PidFollowsStatus, PidIsItsWorker, Terminal
<1>6. ASSUME NEW r \in Sessions
      PROVE  FreshKept(r)'
  BY <1>6 DEF TypeOK, FreshKept, FreshApart, PidFollowsStatus, HolderOwns, InHand,
     Listed
<1>7. FreshApart'
  BY DEF TypeOK, FreshApart, FreshKept
<1> QED
  BY <1>1, <1>2, <1>3, <1>4, <1>5, <1>6, <1>7

\* The claim takes a pending job, which nobody has in hand: WorkerClaim
\* preserves the invariant.
LEMMA WorkerClaimStep ==
  ASSUME IInv, NEW w \in Workers, WorkerClaim(w)
  PROVE  IInv'
<1> USE LadderAssumption, NullAssumption DEF IInv, WorkerClaim, GoWorker, GoSession,
        Settle, FinishJob, StartWorker, CreateJob, store, work, sess
<1>t. /\ status \in [Jobs -> {"none"} \cup Active \cup Terminal]
      /\ ladder \in [Jobs -> Seq(Keys)]
      /\ cfg \in [Jobs -> Nat]
      /\ \A j \in Jobs : status[j] # "none" => cfg[j] \in 1..Len(ladder[j])
      /\ pid \in [Jobs -> Workers \cup {NoWorker}]
      /\ cancelReq \in [Jobs -> BOOLEAN]
  BY DEF TypeOK
<1>u. /\ wpc \in [Workers -> WorkerPCs]
      /\ wjob \in [Workers -> Jobs \cup {NoJob}]
      /\ at \in [Workers -> Nat]
      /\ plan \in [Workers -> {"none"} \cup Terminal]
      /\ clears \in [Workers -> BOOLEAN]
      /\ launched \subseteq {j \in Jobs : status[j] # "none"}
      /\ \A v \in Workers : wpc[v] # "off" => wjob[v] \in launched
  BY DEF TypeOK
<1>1. TypeOK'
  <2>1. status' \in [Jobs -> {"none"} \cup Active \cup Terminal]
    BY <1>t DEF Active, Terminal
  <2>2. pid' \in [Jobs -> Workers \cup {NoWorker}]
    BY <1>t
  <2>3. wpc' \in [Workers -> WorkerPCs] /\ \A v \in Workers : wpc'[v] # "off" => wpc[v] # "off"
    BY <1>u DEF WorkerPCs
  <2>4. \A j \in Jobs : status'[j] # "none" <=> status[j] # "none"
    BY <1>t, <1>u
  <2> QED
    BY <2>1, <2>2, <2>3, <2>4 DEF TypeOK
<1>a. wjob[w] \in Jobs
  BY DEF TypeOK
<1>b. \A v \in Workers : v # w => wpc'[v] = wpc[v]
  BY DEF TypeOK
<1>2. PidFollowsStatus' /\ PidIsItsWorker' /\ InterruptedIsDead'
  <2>1. \A i \in Jobs : i # wjob[w] => status'[i] = status[i] /\ pid'[i] = pid[i]
    BY <1>t
  <2>2. \/ status'[wjob[w]] = status[wjob[w]] /\ pid'[wjob[w]] = pid[wjob[w]]
        \/ /\ status'[wjob[w]] = "cancelled" /\ pid'[wjob[w]] = pid[wjob[w]]
           /\ status[wjob[w]] = "pending"
        \/ status'[wjob[w]] = "running" /\ pid'[wjob[w]] = w /\ wpc'[w] = "enter"
    BY <1>t, <1>u, <1>a
  <2>3. wpc[w] = "claim" /\ wpc'[w] \in {"zombie", "enter"} /\ wjob' = wjob
    BY <1>u
  <2>4. PidFollowsStatus'
    BY <1>a, <2>1, <2>2 DEF PidFollowsStatus
  <2>5. PidIsItsWorker'
    BY <1>a, <1>b, <2>1, <2>2, <2>3 DEF PidIsItsWorker
  <2>6. InterruptedIsDead'
    BY <1>a, <1>b, <2>1, <2>2, <2>3 DEF InterruptedIsDead, PidAlive, PidIsItsWorker
  <2> QED
    BY <2>4, <2>5, <2>6
<1>3. DuplicateOnlyByFallback'
  <2>1. ASSUME NEW j \in Jobs, status'[j] \in Active
        PROVE  status[j] \in Active /\ (Excused(j) => Excused(j)')
    <3>1. status[j] \in Active
      BY <1>t, <1>a, <2>1 DEF Active
    <3>2. CASE pid'[j] = pid[j]
      <4>1. pid[j] # w
        BY DEF PidIsItsWorker
      <4> QED
        BY <1>b, <3>1, <3>2, <4>1 DEF Excused, PidAlive
    <3>3. CASE pid'[j] # pid[j]
      <4>1. j = wjob[w] /\ status[j] = "pending"
        BY <1>t, <1>a, <3>3
      <4> QED
        BY <3>1, <4>1 DEF Excused, PidFollowsStatus
    <3> QED
      BY <3>2, <3>3
  <2> QED
    BY <2>1, DuplicateKept DEF Target
<1>c. ASSUME NEW v \in Workers, InHand(v), status[wjob[w]] = "pending"
      PROVE  wjob[v] # wjob[w]
  BY <1>a, <1>c DEF HolderOwns, PidFollowsStatus
<1>4. ASSUME NEW v \in Workers
      PROVE  HolderOwns(v)'
  <2>1. CASE v = w
    BY <1>a, <2>1 DEF TypeOK, HolderOwns, InHand, PidAlive
  <2>2. CASE v # w
    <3>1. wpc'[v] = wpc[v] /\ wjob'[v] = wjob[v]
      BY <1>b, <2>2
    <3>2. ASSUME InHand(v)
          PROVE  /\ wjob[v] \in Jobs
                 /\ pid'[wjob[v]] = pid[wjob[v]]
                 /\ status'[wjob[v]] = status[wjob[v]]
      BY <1>a, <1>c, <3>2 DEF TypeOK, InHand
    <3>3. ASSUME NEW u \in Workers, ~ PidAlive(u)
          PROVE  ~ PidAlive(u)'
      BY <1>b, <3>3 DEF PidAlive
    <3>4. ASSUME wpc[v] = "probe"
          PROVE  pid'[wjob[v]] \in Workers
      <4>1. wjob[v] \in Jobs /\ pid[wjob[v]] \in Workers
        BY <1>u, <3>4 DEF HolderOwns
      <4>2. pid' = pid \/ pid' = [pid EXCEPT ![wjob[w]] = w]
        OBVIOUS
      <4> QED
        BY <1>t, <4>1, <4>2
    <3> QED
      BY <2>2, <3>1, <3>2, <3>3, <3>4 DEF HolderOwns, InHand
  <2> QED
    BY <2>1, <2>2
<1>5. ASSUME NEW v \in Workers
      PROVE  PlacementReady(v)'
  BY <1>5 DEF TypeOK, PlacementReady, HolderOwns, InHand, PidAlive, LastOf,
     PidFollowsStatus, PidIsItsWorker, Terminal
<1>6. ASSUME NEW r \in Sessions
      PROVE  FreshKept(r)'
  BY <1>6 DEF TypeOK, FreshKept, FreshApart, PidFollowsStatus, HolderOwns, InHand,
     Listed
<1>7. FreshApart'
  BY DEF TypeOK, FreshApart, FreshKept
<1> QED
  BY <1>1, <1>2, <1>3, <1>4, <1>5, <1>6, <1>7

\* The placement is snapshotted: WorkerEnter preserves the invariant.
LEMMA WorkerEnterStep ==
  ASSUME IInv, NEW w \in Workers, WorkerEnter(w)
  PROVE  IInv'
<1> USE LadderAssumption, NullAssumption DEF IInv, WorkerEnter, GoWorker, GoSession,
        Settle, FinishJob, StartWorker, CreateJob, store, work, sess
<1>1. TypeOK'
  BY DEF TypeOK, Active, Terminal, WorkerPCs, SessionPCs, FreshKept, PlacementReady,
         InHand, LastOf, Target, Listed
<1>2. PidFollowsStatus' /\ PidIsItsWorker' /\ InterruptedIsDead'
  BY DEF TypeOK, PidFollowsStatus, PidIsItsWorker, InterruptedIsDead, PidAlive,
         HolderOwns, InHand, PlacementReady, FreshKept, Terminal, Active
<1>3. DuplicateOnlyByFallback'
  BY DEF TypeOK, DuplicateOnlyByFallback, Target, PidAlive, Active, Terminal,
         PidFollowsStatus, PidIsItsWorker, HolderOwns, InHand, PlacementReady,
         FreshKept, Occupied
<1>4. ASSUME NEW v \in Workers
      PROVE  HolderOwns(v)'
  BY <1>4 DEF TypeOK, HolderOwns, InHand, PidAlive, PidFollowsStatus,
     PidIsItsWorker, FreshKept, Terminal, Active
<1>5. ASSUME NEW v \in Workers
      PROVE  PlacementReady(v)'
  BY <1>5 DEF TypeOK, PlacementReady, HolderOwns, InHand, PidAlive, LastOf,
     PidFollowsStatus, PidIsItsWorker, Terminal
<1>6. ASSUME NEW r \in Sessions
      PROVE  FreshKept(r)'
  BY <1>6 DEF TypeOK, FreshKept, FreshApart, PidFollowsStatus, HolderOwns, InHand,
     Listed
<1>7. FreshApart'
  BY DEF TypeOK, FreshApart, FreshKept
<1> QED
  BY <1>1, <1>2, <1>3, <1>4, <1>5, <1>6, <1>7

\* The look at the cancellation: WorkerCheck preserves the invariant.
LEMMA WorkerCheckStep ==
  ASSUME IInv, NEW w \in Workers, WorkerCheck(w)
  PROVE  IInv'
<1> USE LadderAssumption, NullAssumption DEF IInv, WorkerCheck, GoWorker, GoSession,
        Settle, FinishJob, StartWorker, CreateJob, store, work, sess
<1>1. TypeOK'
  <2>0. /\ wpc \in [Workers -> WorkerPCs] /\ wpc[w] = "check"
        /\ plan \in [Workers -> {"none"} \cup Terminal]
        /\ clears \in [Workers -> BOOLEAN]
    BY DEF TypeOK
  <2>a. /\ \E where \in {"finish", "attempt"} : wpc' = [wpc EXCEPT ![w] = where]
        /\ plan' = plan \/ plan' = [plan EXCEPT ![w] = "cancelled"]
        /\ clears' = clears \/ clears' = [clears EXCEPT ![w] = TRUE]
    OBVIOUS
  <2>1. wpc' \in [Workers -> WorkerPCs] /\ \A v \in Workers : wpc'[v] # "off" => wpc[v] # "off"
    <3> HIDE DEF IInv, WorkerCheck
    <3> QED
      BY <2>0, <2>a DEF WorkerPCs
  <2>2. plan' \in [Workers -> {"none"} \cup Terminal] /\ clears' \in [Workers -> BOOLEAN]
    <3> HIDE DEF IInv, WorkerCheck
    <3> QED
      BY <2>0, <2>a DEF Terminal
  <2>3. \/ at' = at
        \/ at' = [at EXCEPT ![w] = IF at[w] = base[w] THEN at[w] ELSE at[w] - 1]
    OBVIOUS
  <2>4. at' \in [Workers -> Nat]
    <3>1. base[w] \in Nat /\ at[w] \in Nat /\ at \in [Workers -> Nat]
      BY DEF TypeOK
    <3>2. 1 <= base[w] /\ base[w] <= at[w]
      BY <2>0 DEF PlacementReady
    <3> HIDE DEF IInv, WorkerCheck
    <3> QED
      BY <2>3, <3>1, <3>2
  <2> QED
    BY <2>1, <2>2, <2>4 DEF TypeOK
<1>2. PidFollowsStatus' /\ PidIsItsWorker' /\ InterruptedIsDead'
  BY DEF TypeOK, PidFollowsStatus, PidIsItsWorker, InterruptedIsDead, PidAlive,
         HolderOwns, InHand, PlacementReady, FreshKept, Terminal, Active
<1>3. DuplicateOnlyByFallback'
  <2>1. ASSUME NEW j \in Jobs
        PROVE  Excused(j)' <=> Excused(j)
    BY DEF TypeOK, Excused, PidAlive
  <2> QED
    BY <2>1, DuplicateKept DEF Target
<1>4. ASSUME NEW v \in Workers
      PROVE  HolderOwns(v)'
  <2>1. wpc[w] = "check" /\ UNCHANGED <<status, pid, wjob>>
    OBVIOUS
  <2>2. wpc' = [wpc EXCEPT ![w] = "finish"] \/ wpc' = [wpc EXCEPT ![w] = "attempt"]
    OBVIOUS
  <2>3. wpc \in [Workers -> WorkerPCs]
    BY DEF TypeOK
  <2>4. HolderOwns(v)
    OBVIOUS
  <2> HIDE DEF IInv, WorkerCheck
  <2>5. \A u \in Workers : PidAlive(u)' = PidAlive(u)
    BY <2>1, <2>2, <2>3 DEF PidAlive
  <2>6. /\ InHand(v)' => InHand(v)
        /\ wpc'[v] = "probe" => wpc[v] = "probe"
    BY <2>1, <2>2, <2>3 DEF InHand
  <2> QED
    BY <2>1, <2>4, <2>5, <2>6 DEF HolderOwns
<1>5. ASSUME NEW v \in Workers
      PROVE  PlacementReady(v)'
  BY <1>5 DEF TypeOK, PlacementReady, HolderOwns, InHand, PidAlive, LastOf,
     PidFollowsStatus, PidIsItsWorker, Terminal
<1>6. ASSUME NEW r \in Sessions
      PROVE  FreshKept(r)'
  BY <1>6 DEF TypeOK, FreshKept, FreshApart, PidFollowsStatus, HolderOwns, InHand,
     Listed
<1>7. FreshApart'
  BY DEF TypeOK, FreshApart, FreshKept
<1> QED
  BY <1>1, <1>2, <1>3, <1>4, <1>5, <1>6, <1>7

\* The row follows the ladder upwards only, or belongs to a dead worker:
\* WorkerAttempt preserves the invariant.
LEMMA WorkerAttemptStep ==
  ASSUME IInv, NEW w \in Workers, WorkerAttempt(w)
  PROVE  IInv'
<1> USE LadderAssumption, NullAssumption DEF IInv, WorkerAttempt, GoWorker, GoSession,
        Settle, FinishJob, StartWorker, CreateJob, store, work, sess
<1>1. TypeOK'
  BY DEF TypeOK, Active, Terminal, WorkerPCs, SessionPCs, FreshKept, PlacementReady,
         InHand, LastOf, Target, Listed
<1>2. PidFollowsStatus' /\ PidIsItsWorker' /\ InterruptedIsDead'
  BY DEF TypeOK, PidFollowsStatus, PidIsItsWorker, InterruptedIsDead, PidAlive,
         HolderOwns, InHand, PlacementReady, FreshKept, Terminal, Active
<1>3. DuplicateOnlyByFallback'
  <2>1. \A p \in Workers : PidAlive(p)' <=> PidAlive(p)
    BY DEF TypeOK, PidAlive
  <2>2. ASSUME NEW j \in Jobs
        PROVE  Excused(j)' \/ (Target(j)' = Target(j) /\ ~ Excused(j))
    <3>1. CASE cfg'[j] = cfg[j]
      BY <2>1, <3>1 DEF TypeOK, Excused, Target
    <3>2. CASE cfg'[j] # cfg[j]
      <4>1. j = wjob[w] /\ cfg'[j] = at[w] /\ at[w] # base[w]
        BY <3>2 DEF TypeOK
      <4>2. 1 <= base[w] /\ base[w] <= at[w] /\ base[w] \in Nat /\ at[w] \in Nat
        BY DEF TypeOK, PlacementReady
      <4> QED
        BY <4>1, <4>2 DEF Excused
    <3> QED
      BY <3>1, <3>2
  <2> QED
    BY <2>2, DuplicateKept
<1>4. ASSUME NEW v \in Workers
      PROVE  HolderOwns(v)'
  BY <1>4 DEF TypeOK, HolderOwns, InHand, PidAlive, PidFollowsStatus,
     PidIsItsWorker, FreshKept, Terminal, Active
<1>5. ASSUME NEW v \in Workers
      PROVE  PlacementReady(v)'
  BY <1>5 DEF TypeOK, PlacementReady, HolderOwns, InHand, PidAlive, LastOf,
     PidFollowsStatus, PidIsItsWorker, Terminal
<1>6. ASSUME NEW r \in Sessions
      PROVE  FreshKept(r)'
  BY <1>6 DEF TypeOK, FreshKept, FreshApart, PidFollowsStatus, HolderOwns, InHand,
     Listed
<1>7. FreshApart'
  BY DEF TypeOK, FreshApart, FreshKept
<1> QED
  BY <1>1, <1>2, <1>3, <1>4, <1>5, <1>6, <1>7

\* An attempt ends: WorkerDeploy preserves the invariant.
LEMMA WorkerDeployStep ==
  ASSUME IInv, NEW w \in Workers, WorkerDeploy(w)
  PROVE  IInv'
<1> USE LadderAssumption, NullAssumption DEF IInv, WorkerDeploy, GoWorker, GoSession,
        Settle, FinishJob, StartWorker, CreateJob, store, work, sess
<1>a. /\ wjob[w] \in Jobs /\ status[wjob[w]] # "none"
      /\ at[w] \in 1..Len(ladder[wjob[w]])
      /\ at[w] < LastOf(w) => at[w] + 1 \in 1..Len(ladder[wjob[w]])
  BY DEF TypeOK, PlacementReady, LastOf
<1>t. /\ status \in [Jobs -> {"none"} \cup Active \cup Terminal]
      /\ ladder \in [Jobs -> Seq(Keys)]
      /\ cfg \in [Jobs -> Nat]
      /\ \A j \in Jobs : status[j] # "none" => cfg[j] \in 1..Len(ladder[j])
      /\ pid \in [Jobs -> Workers \cup {NoWorker}]
      /\ cancelReq \in [Jobs -> BOOLEAN]
  BY DEF TypeOK
<1>u. /\ wpc \in [Workers -> WorkerPCs]
      /\ wjob \in [Workers -> Jobs \cup {NoJob}]
      /\ at \in [Workers -> Nat]
      /\ plan \in [Workers -> {"none"} \cup Terminal]
      /\ clears \in [Workers -> BOOLEAN]
      /\ launched \subseteq {j \in Jobs : status[j] # "none"}
      /\ \A v \in Workers : wpc[v] # "off" => wjob[v] \in launched
  BY DEF TypeOK
<1>1. TypeOK'
  <2>1. wpc' \in [Workers -> WorkerPCs] /\ \A v \in Workers : wpc'[v] # "off" => wpc[v] # "off"
    BY <1>u DEF WorkerPCs
  <2>2. plan' \in [Workers -> {"none"} \cup Terminal] /\ clears' \in [Workers -> BOOLEAN]
    BY <1>u DEF Terminal
  <2>3. at' \in [Workers -> Nat]
    BY <1>u
  <2>4. cfg' = cfg \/ cfg' = [cfg EXCEPT ![wjob[w]] = at[w]]
    OBVIOUS
  <2>5. /\ cfg' \in [Jobs -> Nat]
        /\ \A j \in Jobs : status[j] # "none" => cfg'[j] \in 1..Len(ladder[j])
    BY <1>a, <1>t, <1>u, <2>4
  <2> QED
    BY <2>1, <2>2, <2>3, <2>5 DEF TypeOK
<1>2. PidFollowsStatus' /\ PidIsItsWorker' /\ InterruptedIsDead'
  BY DEF TypeOK, PidFollowsStatus, PidIsItsWorker, InterruptedIsDead, PidAlive,
         HolderOwns, InHand, PlacementReady, FreshKept, Terminal, Active
<1>3. DuplicateOnlyByFallback'
  <2>1. cfg' = cfg \/ cfg' = [cfg EXCEPT ![wjob[w]] = at[w]]
    OBVIOUS
  <2>2. \A p \in Workers \cup {NoWorker} : PidAlive(p)' <=> PidAlive(p)
    BY DEF TypeOK, PidAlive
  <2>3. CASE pid[wjob[w]] = w
    <3>1. cfg' = cfg
      BY <1>a, <2>1, <2>3 DEF TypeOK, PlacementReady
    <3> QED
      BY <2>2, <3>1 DEF TypeOK, DuplicateOnlyByFallback, Target
  <2>4. CASE pid[wjob[w]] # w
    <3>1. pid[wjob[w]] # NoWorker /\ ~ PidAlive(pid[wjob[w]])
      BY <2>4 DEF HolderOwns, InHand
    <3>2. \A i \in Jobs : i # wjob[w] => cfg'[i] = cfg[i]
      BY <2>1 DEF TypeOK
    <3>3. \A i \in Jobs : pid[i] \in Workers \cup {NoWorker}
      BY DEF TypeOK
    <3> QED
      BY <2>2, <3>1, <3>2, <3>3 DEF DuplicateOnlyByFallback, Target
  <2> QED
    BY <2>3, <2>4
<1>4. ASSUME NEW v \in Workers
      PROVE  HolderOwns(v)'
  BY <1>4 DEF TypeOK, HolderOwns, InHand, PidAlive, PidFollowsStatus,
     PidIsItsWorker, FreshKept, Terminal, Active
<1>5. ASSUME NEW v \in Workers
      PROVE  PlacementReady(v)'
  <2>1. CASE v = w
    <3>1. \/ wpc'[w] = "check" /\ at[w] < LastOf(w) /\ at'[w] = at[w] + 1
          \/ /\ wpc'[w] = "finish" /\ at'[w] = at[w]
             /\ plan'[w] \in {"succeeded", "failed", "cancelled"}
      BY <1>u
    <3>2. /\ base[w] \in Nat /\ at[w] \in Nat /\ 1 <= base[w] /\ base[w] <= at[w]
          /\ base' = base /\ wjob' = wjob /\ ladder' = ladder
      BY DEF TypeOK, PlacementReady
    <3> QED
      BY <1>a, <2>1, <3>1, <3>2 DEF PlacementReady
  <2>2. CASE v # w
    <3>1. /\ wpc'[v] = wpc[v] /\ at'[v] = at[v] /\ plan'[v] = plan[v]
          /\ base' = base /\ wjob' = wjob /\ ladder' = ladder /\ pid' = pid
      BY <1>u, <2>2
    <3>2. \A j \in Jobs : j # wjob[w] => cfg'[j] = cfg[j]
      BY <1>t
    <3>3. ASSUME wpc[v] \in {"check", "attempt", "deploy"}, pid[wjob[v]] = v
          PROVE  wjob[v] # wjob[w]
      BY <2>2, <3>3 DEF HolderOwns, InHand, PidAlive
    <3> QED
      BY <3>1, <3>2, <3>3 DEF PlacementReady
  <2> QED
    BY <2>1, <2>2
<1>6. ASSUME NEW r \in Sessions
      PROVE  FreshKept(r)'
  BY <1>6 DEF TypeOK, FreshKept, FreshApart, PidFollowsStatus, HolderOwns, InHand,
     Listed
<1>7. FreshApart'
  BY DEF TypeOK, FreshApart, FreshKept
<1> QED
  BY <1>1, <1>2, <1>3, <1>4, <1>5, <1>6, <1>7

\* The owner is the only one to end a job whose worker lives: WorkerFinish
\* preserves the invariant.
LEMMA WorkerFinishStep ==
  ASSUME IInv, NEW w \in Workers, WorkerFinish(w)
  PROVE  IInv'
<1> USE LadderAssumption, NullAssumption DEF IInv, WorkerFinish, GoWorker, GoSession,
        Settle, FinishJob, StartWorker, CreateJob, store, work, sess
<1>1. TypeOK'
  BY DEF TypeOK, Active, Terminal, WorkerPCs, SessionPCs, FreshKept, PlacementReady,
         InHand, LastOf, Target, Listed
<1>a. wjob[w] \in Jobs /\ plan[w] \in Terminal
  BY DEF TypeOK, PlacementReady
<1>b. \A p \in Workers \cup {NoWorker} : PidAlive(p)' <=> PidAlive(p)
  BY DEF TypeOK, PidAlive
<1>2. PidFollowsStatus' /\ PidIsItsWorker' /\ InterruptedIsDead'
  <2>1. PidFollowsStatus'
    BY <1>a DEF TypeOK, PidFollowsStatus, Terminal, HolderOwns, InHand
  <2>2. PidIsItsWorker'
    BY DEF TypeOK, PidIsItsWorker
  <2>3. InterruptedIsDead'
    <3>1. plan[w] # "interrupted"
      BY DEF PlacementReady
    <3> QED
      BY <1>a, <1>b, <3>1 DEF TypeOK, InterruptedIsDead
  <2> QED
    BY <2>1, <2>2, <2>3
<1>3. DuplicateOnlyByFallback'
  <2>1. ASSUME NEW j \in Jobs
        PROVE  Excused(j)' <=> Excused(j)
    BY <1>b DEF TypeOK, Excused
  <2>2. \A j \in Jobs : status'[j] \in Active => status[j] \in Active
    BY <1>a DEF TypeOK, Active, Terminal
  <2> QED
    BY <2>1, <2>2, DuplicateKept DEF Target
<1>4. ASSUME NEW v \in Workers
      PROVE  HolderOwns(v)'
  BY <1>4 DEF TypeOK, HolderOwns, InHand, PidAlive, PidFollowsStatus,
     PidIsItsWorker, FreshKept, Terminal, Active
<1>5. ASSUME NEW v \in Workers
      PROVE  PlacementReady(v)'
  BY <1>5 DEF TypeOK, PlacementReady, HolderOwns, InHand, PidAlive, LastOf,
     PidFollowsStatus, PidIsItsWorker, Terminal
<1>6. ASSUME NEW r \in Sessions
      PROVE  FreshKept(r)'
  BY <1>6 DEF TypeOK, FreshKept, FreshApart, PidFollowsStatus, HolderOwns, InHand,
     Listed
<1>7. FreshApart'
  BY DEF TypeOK, FreshApart, FreshKept
<1> QED
  BY <1>1, <1>2, <1>3, <1>4, <1>5, <1>6, <1>7

\* The journal entry goes: WorkerClear preserves the invariant.
LEMMA WorkerClearStep ==
  ASSUME IInv, NEW w \in Workers, WorkerClear(w)
  PROVE  IInv'
<1> USE LadderAssumption, NullAssumption DEF IInv, WorkerClear, GoWorker, GoSession,
        Settle, FinishJob, StartWorker, CreateJob, store, work, sess
<1>1. TypeOK'
  BY DEF TypeOK, Active, Terminal, WorkerPCs, SessionPCs, FreshKept, PlacementReady,
         InHand, LastOf, Target, Listed
<1>2. PidFollowsStatus' /\ PidIsItsWorker' /\ InterruptedIsDead'
  BY DEF TypeOK, PidFollowsStatus, PidIsItsWorker, InterruptedIsDead, PidAlive,
         HolderOwns, InHand, PlacementReady, FreshKept, Terminal, Active
<1>3. DuplicateOnlyByFallback'
  BY DEF TypeOK, DuplicateOnlyByFallback, Target, PidAlive, Active, Terminal,
         PidFollowsStatus, PidIsItsWorker, HolderOwns, InHand, PlacementReady,
         FreshKept, Occupied
<1>4. ASSUME NEW v \in Workers
      PROVE  HolderOwns(v)'
  BY <1>4 DEF TypeOK, HolderOwns, InHand, PidAlive, PidFollowsStatus,
     PidIsItsWorker, FreshKept, Terminal, Active
<1>5. ASSUME NEW v \in Workers
      PROVE  PlacementReady(v)'
  BY <1>5 DEF TypeOK, PlacementReady, HolderOwns, InHand, PidAlive, LastOf,
     PidFollowsStatus, PidIsItsWorker, Terminal
<1>6. ASSUME NEW r \in Sessions
      PROVE  FreshKept(r)'
  BY <1>6 DEF TypeOK, FreshKept, FreshApart, PidFollowsStatus, HolderOwns, InHand,
     Listed
<1>7. FreshApart'
  BY DEF TypeOK, FreshApart, FreshKept
<1> QED
  BY <1>1, <1>2, <1>3, <1>4, <1>5, <1>6, <1>7

\* A worker is killed: WorkerDies preserves the invariant.
LEMMA WorkerDiesStep ==
  ASSUME IInv, NEW w \in Workers, WorkerDies(w)
  PROVE  IInv'
<1> USE LadderAssumption, NullAssumption DEF IInv, WorkerDies, GoWorker, GoSession,
        Settle, FinishJob, StartWorker, CreateJob, store, work, sess
<1>1. TypeOK'
  BY DEF TypeOK, Active, Terminal, WorkerPCs, SessionPCs, FreshKept, PlacementReady,
         InHand, LastOf, Target, Listed
<1>2. PidFollowsStatus' /\ PidIsItsWorker' /\ InterruptedIsDead'
  BY DEF TypeOK, PidFollowsStatus, PidIsItsWorker, InterruptedIsDead, PidAlive,
         HolderOwns, InHand, PlacementReady, FreshKept, Terminal, Active
<1>3. DuplicateOnlyByFallback'
  BY DEF TypeOK, DuplicateOnlyByFallback, Target, PidAlive, Active, Terminal,
         PidFollowsStatus, PidIsItsWorker, HolderOwns, InHand, PlacementReady,
         FreshKept, Occupied
<1>4. ASSUME NEW v \in Workers
      PROVE  HolderOwns(v)'
  BY <1>4 DEF TypeOK, HolderOwns, InHand, PidAlive, PidFollowsStatus,
     PidIsItsWorker, FreshKept, Terminal, Active
<1>5. ASSUME NEW v \in Workers
      PROVE  PlacementReady(v)'
  BY <1>5 DEF TypeOK, PlacementReady, HolderOwns, InHand, PidAlive, LastOf,
     PidFollowsStatus, PidIsItsWorker, Terminal
<1>6. ASSUME NEW r \in Sessions
      PROVE  FreshKept(r)'
  BY <1>6 DEF TypeOK, FreshKept, FreshApart, PidFollowsStatus, HolderOwns, InHand,
     Listed
<1>7. FreshApart'
  BY DEF TypeOK, FreshApart, FreshKept
<1> QED
  BY <1>1, <1>2, <1>3, <1>4, <1>5, <1>6, <1>7

\* A pid dies for good: Reap preserves the invariant.
LEMMA ReapStep ==
  ASSUME IInv, NEW w \in Workers, Reap(w)
  PROVE  IInv'
<1> USE LadderAssumption, NullAssumption DEF IInv, Reap, GoWorker, GoSession,
        Settle, FinishJob, StartWorker, CreateJob, store, work, sess
<1>1. TypeOK'
  BY DEF TypeOK, Active, Terminal, WorkerPCs, SessionPCs, FreshKept, PlacementReady,
         InHand, LastOf, Target, Listed
<1>2. PidFollowsStatus' /\ PidIsItsWorker' /\ InterruptedIsDead'
  BY DEF TypeOK, PidFollowsStatus, PidIsItsWorker, InterruptedIsDead, PidAlive,
         HolderOwns, InHand, PlacementReady, FreshKept, Terminal, Active
<1>3. DuplicateOnlyByFallback'
  BY DEF TypeOK, DuplicateOnlyByFallback, Target, PidAlive, Active, Terminal,
         PidFollowsStatus, PidIsItsWorker, HolderOwns, InHand, PlacementReady,
         FreshKept, Occupied
<1>4. ASSUME NEW v \in Workers
      PROVE  HolderOwns(v)'
  BY <1>4 DEF TypeOK, HolderOwns, InHand, PidAlive, PidFollowsStatus,
     PidIsItsWorker, FreshKept, Terminal, Active
<1>5. ASSUME NEW v \in Workers
      PROVE  PlacementReady(v)'
  BY <1>5 DEF TypeOK, PlacementReady, HolderOwns, InHand, PidAlive, LastOf,
     PidFollowsStatus, PidIsItsWorker, Terminal
<1>6. ASSUME NEW r \in Sessions
      PROVE  FreshKept(r)'
  BY <1>6 DEF TypeOK, FreshKept, FreshApart, PidFollowsStatus, HolderOwns, InHand,
     Listed
<1>7. FreshApart'
  BY DEF TypeOK, FreshApart, FreshKept
<1> QED
  BY <1>1, <1>2, <1>3, <1>4, <1>5, <1>6, <1>7

\* Another worker for a launched job: Relaunch preserves the invariant.
LEMMA RelaunchStep ==
  ASSUME IInv, NEW w \in Workers, NEW j \in Jobs, Relaunch(w, j)
  PROVE  IInv'
<1> USE LadderAssumption, NullAssumption DEF IInv, Relaunch, GoWorker, GoSession,
        Settle, FinishJob, StartWorker, CreateJob, store, work, sess
<1>1. TypeOK'
  BY DEF TypeOK, Active, Terminal, WorkerPCs, SessionPCs, FreshKept, PlacementReady,
         InHand, LastOf, Target, Listed
<1>2. PidFollowsStatus' /\ PidIsItsWorker' /\ InterruptedIsDead'
  BY DEF TypeOK, PidFollowsStatus, PidIsItsWorker, InterruptedIsDead, PidAlive,
         HolderOwns, InHand, PlacementReady, FreshKept, Terminal, Active
<1>3. DuplicateOnlyByFallback'
  BY DEF TypeOK, DuplicateOnlyByFallback, Target, PidAlive, Active, Terminal,
         PidFollowsStatus, PidIsItsWorker, HolderOwns, InHand, PlacementReady,
         FreshKept, Occupied
<1>4. ASSUME NEW v \in Workers
      PROVE  HolderOwns(v)'
  BY <1>4 DEF TypeOK, HolderOwns, InHand, PidAlive, PidFollowsStatus,
     PidIsItsWorker, FreshKept, Terminal, Active
<1>5. ASSUME NEW v \in Workers
      PROVE  PlacementReady(v)'
  BY <1>5 DEF TypeOK, PlacementReady, HolderOwns, InHand, PidAlive, LastOf,
     PidFollowsStatus, PidIsItsWorker, Terminal
<1>6. ASSUME NEW r \in Sessions
      PROVE  FreshKept(r)'
  BY <1>6 DEF TypeOK, FreshKept, FreshApart, PidFollowsStatus, HolderOwns, InHand,
     Listed
<1>7. FreshApart'
  BY DEF TypeOK, FreshApart, FreshKept
<1> QED
  BY <1>1, <1>2, <1>3, <1>4, <1>5, <1>6, <1>7

\* The snapshot holds jobs with a pid: SessionStart preserves the invariant.
LEMMA SessionStartStep ==
  ASSUME IInv, NEW s \in Sessions, SessionStart(s)
  PROVE  IInv'
<1> USE LadderAssumption, NullAssumption DEF IInv, SessionStart, GoWorker, GoSession,
        Settle, FinishJob, StartWorker, CreateJob, store, work, sess
<1>1. TypeOK'
  BY DEF TypeOK, Active, Terminal, WorkerPCs, SessionPCs, FreshKept, PlacementReady,
         InHand, LastOf, Target, Listed
<1>2. PidFollowsStatus' /\ PidIsItsWorker' /\ InterruptedIsDead'
  BY DEF TypeOK, PidFollowsStatus, PidIsItsWorker, InterruptedIsDead, PidAlive,
         HolderOwns, InHand, PlacementReady, FreshKept, Terminal, Active
<1>3. DuplicateOnlyByFallback'
  BY DEF TypeOK, DuplicateOnlyByFallback, Target, PidAlive, Active, Terminal,
         PidFollowsStatus, PidIsItsWorker, HolderOwns, InHand, PlacementReady,
         FreshKept, Occupied
<1>4. ASSUME NEW v \in Workers
      PROVE  HolderOwns(v)'
  BY <1>4 DEF TypeOK, HolderOwns, InHand, PidAlive, PidFollowsStatus,
     PidIsItsWorker, FreshKept, Terminal, Active
<1>5. ASSUME NEW v \in Workers
      PROVE  PlacementReady(v)'
  BY <1>5 DEF TypeOK, PlacementReady, HolderOwns, InHand, PidAlive, LastOf,
     PidFollowsStatus, PidIsItsWorker, Terminal
<1>6. ASSUME NEW r \in Sessions
      PROVE  FreshKept(r)'
  BY <1>6 DEF TypeOK, FreshKept, FreshApart, PidFollowsStatus, HolderOwns, InHand,
     Listed
<1>7. FreshApart'
  BY DEF TypeOK, FreshApart, FreshKept
<1> QED
  BY <1>1, <1>2, <1>3, <1>4, <1>5, <1>6, <1>7

\* Only a dead worker's job is interrupted: SessionReconcile preserves the
\* invariant.
LEMMA SessionReconcileStep ==
  ASSUME IInv, NEW s \in Sessions, SessionReconcile(s)
  PROVE  IInv'
<1> USE LadderAssumption, NullAssumption DEF IInv, SessionReconcile, GoWorker, GoSession,
        Settle, FinishJob, StartWorker, CreateJob, store, work, sess
<1>t. /\ status \in [Jobs -> {"none"} \cup Active \cup Terminal]
      /\ ladder \in [Jobs -> Seq(Keys)]
      /\ cfg \in [Jobs -> Nat]
      /\ \A j \in Jobs : status[j] # "none" => cfg[j] \in 1..Len(ladder[j])
      /\ pid \in [Jobs -> Workers \cup {NoWorker}]
      /\ cancelReq \in [Jobs -> BOOLEAN]
  BY DEF TypeOK
<1>u. /\ wpc \in [Workers -> WorkerPCs]
      /\ wjob \in [Workers -> Jobs \cup {NoJob}]
      /\ at \in [Workers -> Nat]
      /\ plan \in [Workers -> {"none"} \cup Terminal]
      /\ clears \in [Workers -> BOOLEAN]
      /\ launched \subseteq {j \in Jobs : status[j] # "none"}
      /\ \A v \in Workers : wpc[v] # "off" => wjob[v] \in launched
  BY DEF TypeOK
<1>1. TypeOK'
  <2>1. snap' \in [Sessions -> SUBSET Jobs]
    BY DEF TypeOK
  <2>2. PICK i \in snap[s] : status' \in {status, [status EXCEPT ![i] = "interrupted"]}
    OBVIOUS
  <2>3. /\ i \in Jobs /\ status[i] # "none"
    BY <2>2 DEF TypeOK, FreshKept, PidFollowsStatus
  <2>4. /\ status' \in [Jobs -> {"none"} \cup Active \cup Terminal]
        /\ \A j \in Jobs : status'[j] # "none" <=> status[j] # "none"
    BY <1>t, <2>2, <2>3 DEF Terminal
  <2>5. ladder' = ladder /\ cfg' = cfg /\ pid' = pid /\ cancelReq' = cancelReq
    OBVIOUS
  <2> QED
    BY <2>1, <2>4, <2>5 DEF TypeOK
<1>2. PidFollowsStatus' /\ PidIsItsWorker' /\ InterruptedIsDead'
  BY DEF TypeOK, PidFollowsStatus, PidIsItsWorker, InterruptedIsDead, PidAlive,
         HolderOwns, InHand, PlacementReady, FreshKept, Terminal, Active
<1>3. DuplicateOnlyByFallback'
  BY DEF TypeOK, DuplicateOnlyByFallback, Target, PidAlive, Active, Terminal,
         PidFollowsStatus, PidIsItsWorker, HolderOwns, InHand, PlacementReady,
         FreshKept, Occupied
<1>4. ASSUME NEW v \in Workers
      PROVE  HolderOwns(v)'
  BY <1>4 DEF TypeOK, HolderOwns, InHand, PidAlive, PidFollowsStatus,
     PidIsItsWorker, FreshKept, Terminal, Active
<1>5. ASSUME NEW v \in Workers
      PROVE  PlacementReady(v)'
  BY <1>5 DEF TypeOK, PlacementReady, HolderOwns, InHand, PidAlive, LastOf,
     PidFollowsStatus, PidIsItsWorker, Terminal
<1>6. ASSUME NEW r \in Sessions
      PROVE  FreshKept(r)'
  BY <1>6 DEF TypeOK, FreshKept, FreshApart, PidFollowsStatus, HolderOwns, InHand,
     Listed
<1>7. FreshApart'
  BY DEF TypeOK, FreshApart, FreshKept
<1> QED
  BY <1>1, <1>2, <1>3, <1>4, <1>5, <1>6, <1>7

\* The journal is read: SessionLoad preserves the invariant.
LEMMA SessionLoadStep ==
  ASSUME IInv, NEW s \in Sessions, SessionLoad(s)
  PROVE  IInv'
<1> USE LadderAssumption, NullAssumption DEF IInv, SessionLoad, GoWorker, GoSession,
        Settle, FinishJob, StartWorker, CreateJob, store, work, sess
<1>t. /\ status \in [Jobs -> {"none"} \cup Active \cup Terminal]
      /\ ladder \in [Jobs -> Seq(Keys)]
      /\ cfg \in [Jobs -> Nat]
      /\ \A j \in Jobs : status[j] # "none" => cfg[j] \in 1..Len(ladder[j])
      /\ pid \in [Jobs -> Workers \cup {NoWorker}]
      /\ cancelReq \in [Jobs -> BOOLEAN]
  BY DEF TypeOK
<1>u. /\ wpc \in [Workers -> WorkerPCs]
      /\ wjob \in [Workers -> Jobs \cup {NoJob}]
      /\ at \in [Workers -> Nat]
      /\ plan \in [Workers -> {"none"} \cup Terminal]
      /\ clears \in [Workers -> BOOLEAN]
      /\ launched \subseteq {j \in Jobs : status[j] # "none"}
      /\ \A v \in Workers : wpc[v] # "off" => wjob[v] \in launched
  BY DEF TypeOK
<1>1. TypeOK'
  <2>1. spc' \in [Sessions -> SessionPCs] /\ todo' \in [Sessions -> SUBSET Keys]
    BY DEF TypeOK, SessionPCs
  <2> QED
    BY <2>1 DEF TypeOK
<1>2. PidFollowsStatus' /\ PidIsItsWorker' /\ InterruptedIsDead'
  BY DEF TypeOK, PidFollowsStatus, PidIsItsWorker, InterruptedIsDead, PidAlive,
         HolderOwns, InHand, PlacementReady, FreshKept, Terminal, Active
<1>3. DuplicateOnlyByFallback'
  BY DEF TypeOK, DuplicateOnlyByFallback, Target, PidAlive, Active, Terminal,
         PidFollowsStatus, PidIsItsWorker, HolderOwns, InHand, PlacementReady,
         FreshKept, Occupied
<1>4. ASSUME NEW v \in Workers
      PROVE  HolderOwns(v)'
  BY <1>4 DEF TypeOK, HolderOwns, InHand, PidAlive, PidFollowsStatus,
     PidIsItsWorker, FreshKept, Terminal, Active
<1>5. ASSUME NEW v \in Workers
      PROVE  PlacementReady(v)'
  BY <1>5 DEF TypeOK, PlacementReady, HolderOwns, InHand, PidAlive, LastOf,
     PidFollowsStatus, PidIsItsWorker, Terminal
<1>6. ASSUME NEW r \in Sessions
      PROVE  FreshKept(r)'
  BY <1>6 DEF TypeOK, FreshKept, FreshApart, PidFollowsStatus, HolderOwns, InHand,
     Listed
<1>7. FreshApart'
  <2>1. ASSUME NEW r \in Sessions, spc'[r] \in {"adopt", "spawn"}
        PROVE  spc[r] \in {"adopt", "spawn"}
    BY <2>1 DEF TypeOK
  <2> QED
    BY <2>1 DEF FreshApart
<1> QED
  BY <1>1, <1>2, <1>3, <1>4, <1>5, <1>6, <1>7

\* A journal entry becomes a fresh job: SessionImport preserves the invariant.
LEMMA SessionImportStep ==
  ASSUME IInv, NEW s \in Sessions, SessionImport(s)
  PROVE  IInv'
<1> USE LadderAssumption, NullAssumption DEF IInv, SessionImport, GoWorker, GoSession,
        Settle, FinishJob, StartWorker, CreateJob, store, work, sess
<1>t. /\ status \in [Jobs -> {"none"} \cup Active \cup Terminal]
      /\ ladder \in [Jobs -> Seq(Keys)]
      /\ cfg \in [Jobs -> Nat]
      /\ \A j \in Jobs : status[j] # "none" => cfg[j] \in 1..Len(ladder[j])
      /\ pid \in [Jobs -> Workers \cup {NoWorker}]
      /\ cancelReq \in [Jobs -> BOOLEAN]
  BY DEF TypeOK
<1>u. /\ wpc \in [Workers -> WorkerPCs]
      /\ wjob \in [Workers -> Jobs \cup {NoJob}]
      /\ at \in [Workers -> Nat]
      /\ plan \in [Workers -> {"none"} \cup Terminal]
      /\ clears \in [Workers -> BOOLEAN]
      /\ launched \subseteq {j \in Jobs : status[j] # "none"}
      /\ \A v \in Workers : wpc[v] # "off" => wjob[v] \in launched
  BY DEF TypeOK
<1>1. TypeOK'
  <2>1. PICK k \in todo[s] :
            \/ /\ \E j \in Jobs : CreateJob(j, <<k>>) /\ sjob' = [sjob EXCEPT ![s] = j]
               /\ spc' = [spc EXCEPT ![s] = "adopt"]
               /\ UNCHANGED todo
            \/ /\ todo' = [todo EXCEPT ![s] = @ \ {k}]
               /\ UNCHANGED <<store, sjob, spc>>
    OBVIOUS
  <2>2. CASE UNCHANGED <<store, sjob, spc>> /\ todo' = [todo EXCEPT ![s] = @ \ {k}]
    BY <2>2 DEF TypeOK
  <2>3. ASSUME NEW j \in Jobs, CreateJob(j, <<k>>), sjob' = [sjob EXCEPT ![s] = j],
               spc' = [spc EXCEPT ![s] = "adopt"], UNCHANGED todo
        PROVE  TypeOK'
    <3>1. /\ status' \in [Jobs -> {"none"} \cup Active \cup Terminal]
          /\ \A i \in Jobs : status[i] # "none" => status'[i] # "none"
      BY <1>t, <2>3 DEF Active
    <3>2. <<k>> \in Seq(Keys) /\ Len(<<k>>) = 1
      BY DEF TypeOK
    <3>3. /\ ladder' \in [Jobs -> Seq(Keys)]
          /\ \A i \in Jobs : status'[i] # "none" => cfg[i] \in 1..Len(ladder'[i])
      BY <1>t, <2>3, <3>2 DEF PidFollowsStatus
    <3>4. spc' \in [Sessions -> SessionPCs] /\ sjob' \in [Sessions -> Jobs \cup {NoJob}]
      BY <2>3 DEF TypeOK, SessionPCs
    <3>5. cfg' = cfg /\ pid' = pid /\ cancelReq' = cancelReq
      BY <2>3
    <3> QED
      BY <2>3, <3>1, <3>3, <3>4, <3>5 DEF TypeOK
  <2> QED
    BY <2>1, <2>2, <2>3
<1>2. PidFollowsStatus' /\ PidIsItsWorker' /\ InterruptedIsDead'
  BY DEF TypeOK, PidFollowsStatus, PidIsItsWorker, InterruptedIsDead, PidAlive,
         HolderOwns, InHand, PlacementReady, FreshKept, Terminal, Active
<1>3. DuplicateOnlyByFallback'
  BY DEF TypeOK, DuplicateOnlyByFallback, Target, PidAlive, Active, Terminal,
         PidFollowsStatus, PidIsItsWorker, HolderOwns, InHand, PlacementReady,
         FreshKept, Occupied
<1>4. ASSUME NEW v \in Workers
      PROVE  HolderOwns(v)'
  BY <1>4 DEF TypeOK, HolderOwns, InHand, PidAlive, PidFollowsStatus,
     PidIsItsWorker, FreshKept, Terminal, Active
<1>5. ASSUME NEW v \in Workers
      PROVE  PlacementReady(v)'
  BY <1>5 DEF TypeOK, PlacementReady, HolderOwns, InHand, PidAlive, LastOf,
     PidFollowsStatus, PidIsItsWorker, Terminal
<1>6. ASSUME NEW r \in Sessions
      PROVE  FreshKept(r)'
  BY <1>6 DEF TypeOK, FreshKept, FreshApart, PidFollowsStatus, HolderOwns, InHand,
     Listed
<1>7. FreshApart'
  BY DEF TypeOK, FreshApart, FreshKept
<1> QED
  BY <1>1, <1>2, <1>3, <1>4, <1>5, <1>6, <1>7

\* The adopted job was never launched: SessionAdopt preserves the invariant.
LEMMA SessionAdoptStep ==
  ASSUME IInv, NEW s \in Sessions, SessionAdopt(s)
  PROVE  IInv'
<1> USE LadderAssumption, NullAssumption DEF IInv, SessionAdopt, GoWorker, GoSession,
        Settle, FinishJob, StartWorker, CreateJob, store, work, sess
<1>1. TypeOK'
  BY DEF TypeOK, Active, Terminal, WorkerPCs, SessionPCs, FreshKept, PlacementReady,
         InHand, LastOf, Target, Listed
<1>2. PidFollowsStatus' /\ PidIsItsWorker' /\ InterruptedIsDead'
  BY DEF TypeOK, PidFollowsStatus, PidIsItsWorker, InterruptedIsDead, PidAlive,
         HolderOwns, InHand, PlacementReady, FreshKept, Terminal, Active
<1>3. DuplicateOnlyByFallback'
  BY DEF TypeOK, DuplicateOnlyByFallback, Target, PidAlive, Active, Terminal,
         PidFollowsStatus, PidIsItsWorker, HolderOwns, InHand, PlacementReady,
         FreshKept, Occupied
<1>4. ASSUME NEW v \in Workers
      PROVE  HolderOwns(v)'
  BY <1>4 DEF TypeOK, HolderOwns, InHand, PidAlive, PidFollowsStatus,
     PidIsItsWorker, FreshKept, Terminal, Active
<1>5. ASSUME NEW v \in Workers
      PROVE  PlacementReady(v)'
  BY <1>5 DEF TypeOK, PlacementReady, HolderOwns, InHand, PidAlive, LastOf,
     PidFollowsStatus, PidIsItsWorker, Terminal
<1>6. ASSUME NEW r \in Sessions
      PROVE  FreshKept(r)'
  BY <1>6 DEF TypeOK, FreshKept, FreshApart, PidFollowsStatus, HolderOwns, InHand,
     Listed
<1>7. FreshApart'
  BY DEF TypeOK, FreshApart, FreshKept
<1> QED
  BY <1>1, <1>2, <1>3, <1>4, <1>5, <1>6, <1>7

\* The adopted entry goes: SessionClear preserves the invariant.
LEMMA SessionClearStep ==
  ASSUME IInv, NEW s \in Sessions, SessionClear(s)
  PROVE  IInv'
<1> USE LadderAssumption, NullAssumption DEF IInv, SessionClear, GoWorker, GoSession,
        Settle, FinishJob, StartWorker, CreateJob, store, work, sess
<1>1. TypeOK'
  BY DEF TypeOK, Active, Terminal, WorkerPCs, SessionPCs, FreshKept, PlacementReady,
         InHand, LastOf, Target, Listed
<1>2. PidFollowsStatus' /\ PidIsItsWorker' /\ InterruptedIsDead'
  BY DEF TypeOK, PidFollowsStatus, PidIsItsWorker, InterruptedIsDead, PidAlive,
         HolderOwns, InHand, PlacementReady, FreshKept, Terminal, Active
<1>3. DuplicateOnlyByFallback'
  BY DEF TypeOK, DuplicateOnlyByFallback, Target, PidAlive, Active, Terminal,
         PidFollowsStatus, PidIsItsWorker, HolderOwns, InHand, PlacementReady,
         FreshKept, Occupied
<1>4. ASSUME NEW v \in Workers
      PROVE  HolderOwns(v)'
  BY <1>4 DEF TypeOK, HolderOwns, InHand, PidAlive, PidFollowsStatus,
     PidIsItsWorker, FreshKept, Terminal, Active
<1>5. ASSUME NEW v \in Workers
      PROVE  PlacementReady(v)'
  BY <1>5 DEF TypeOK, PlacementReady, HolderOwns, InHand, PidAlive, LastOf,
     PidFollowsStatus, PidIsItsWorker, Terminal
<1>6. ASSUME NEW r \in Sessions
      PROVE  FreshKept(r)'
  BY <1>6 DEF TypeOK, FreshKept, FreshApart, PidFollowsStatus, HolderOwns, InHand,
     Listed
<1>7. FreshApart'
  BY DEF TypeOK, FreshApart, FreshKept
<1> QED
  BY <1>1, <1>2, <1>3, <1>4, <1>5, <1>6, <1>7

\* The import is over: SessionImported preserves the invariant.
LEMMA SessionImportedStep ==
  ASSUME IInv, NEW s \in Sessions, SessionImported(s)
  PROVE  IInv'
<1> USE LadderAssumption, NullAssumption DEF IInv, SessionImported, GoWorker, GoSession,
        Settle, FinishJob, StartWorker, CreateJob, store, work, sess
<1>1. TypeOK'
  BY DEF TypeOK, Active, Terminal, WorkerPCs, SessionPCs, FreshKept, PlacementReady,
         InHand, LastOf, Target, Listed
<1>2. PidFollowsStatus' /\ PidIsItsWorker' /\ InterruptedIsDead'
  BY DEF TypeOK, PidFollowsStatus, PidIsItsWorker, InterruptedIsDead, PidAlive,
         HolderOwns, InHand, PlacementReady, FreshKept, Terminal, Active
<1>3. DuplicateOnlyByFallback'
  BY DEF TypeOK, DuplicateOnlyByFallback, Target, PidAlive, Active, Terminal,
         PidFollowsStatus, PidIsItsWorker, HolderOwns, InHand, PlacementReady,
         FreshKept, Occupied
<1>4. ASSUME NEW v \in Workers
      PROVE  HolderOwns(v)'
  BY <1>4 DEF TypeOK, HolderOwns, InHand, PidAlive, PidFollowsStatus,
     PidIsItsWorker, FreshKept, Terminal, Active
<1>5. ASSUME NEW v \in Workers
      PROVE  PlacementReady(v)'
  BY <1>5 DEF TypeOK, PlacementReady, HolderOwns, InHand, PidAlive, LastOf,
     PidFollowsStatus, PidIsItsWorker, Terminal
<1>6. ASSUME NEW r \in Sessions
      PROVE  FreshKept(r)'
  BY <1>6 DEF TypeOK, FreshKept, FreshApart, PidFollowsStatus, HolderOwns, InHand,
     Listed
<1>7. FreshApart'
  BY DEF TypeOK, FreshApart, FreshKept
<1> QED
  BY <1>1, <1>2, <1>3, <1>4, <1>5, <1>6, <1>7

\* The duplicate check and the insert are one transaction: SessionCreate
\* preserves the invariant.
LEMMA SessionCreateStep ==
  ASSUME IInv, NEW s \in Sessions, NEW l \in Ladders, SessionCreate(s, l)
  PROVE  IInv'
<1> USE LadderAssumption, NullAssumption DEF IInv, SessionCreate, GoWorker, GoSession,
        Settle, FinishJob, StartWorker, CreateJob, store, work, sess
<1>t. /\ status \in [Jobs -> {"none"} \cup Active \cup Terminal]
      /\ ladder \in [Jobs -> Seq(Keys)]
      /\ cfg \in [Jobs -> Nat]
      /\ \A j \in Jobs : status[j] # "none" => cfg[j] \in 1..Len(ladder[j])
      /\ pid \in [Jobs -> Workers \cup {NoWorker}]
      /\ cancelReq \in [Jobs -> BOOLEAN]
  BY DEF TypeOK
<1>u. /\ wpc \in [Workers -> WorkerPCs]
      /\ wjob \in [Workers -> Jobs \cup {NoJob}]
      /\ at \in [Workers -> Nat]
      /\ plan \in [Workers -> {"none"} \cup Terminal]
      /\ clears \in [Workers -> BOOLEAN]
      /\ launched \subseteq {j \in Jobs : status[j] # "none"}
      /\ \A v \in Workers : wpc[v] # "off" => wjob[v] \in launched
  BY DEF TypeOK
<1>1. TypeOK'
  <2>1. CASE UNCHANGED <<store, sjob>> /\ spc' = [spc EXCEPT ![s] = "idle"]
    BY <2>1 DEF TypeOK, SessionPCs
  <2>2. ASSUME NEW j \in Jobs, CreateJob(j, l), sjob' = [sjob EXCEPT ![s] = j],
               spc' = [spc EXCEPT ![s] = "spawn"]
        PROVE  TypeOK'
    <3>1. /\ status' \in [Jobs -> {"none"} \cup Active \cup Terminal]
          /\ \A i \in Jobs : status[i] # "none" => status'[i] # "none"
      BY <1>t, <2>2 DEF Active
    <3>2. l \in Seq(Keys) /\ Len(l) >= 1
      OBVIOUS
    <3>3. /\ ladder' \in [Jobs -> Seq(Keys)]
          /\ \A i \in Jobs : status'[i] # "none" => cfg[i] \in 1..Len(ladder'[i])
      BY <1>t, <2>2, <3>2 DEF PidFollowsStatus
    <3>4. spc' \in [Sessions -> SessionPCs] /\ sjob' \in [Sessions -> Jobs \cup {NoJob}]
      BY <2>2 DEF TypeOK, SessionPCs
    <3>5. cfg' = cfg /\ pid' = pid /\ cancelReq' = cancelReq
      BY <2>2
    <3> QED
      BY <2>2, <3>1, <3>3, <3>4, <3>5 DEF TypeOK
  <2> QED
    BY <2>1, <2>2
<1>2. PidFollowsStatus' /\ PidIsItsWorker' /\ InterruptedIsDead'
  BY DEF TypeOK, PidFollowsStatus, PidIsItsWorker, InterruptedIsDead, PidAlive,
         HolderOwns, InHand, PlacementReady, FreshKept, Terminal, Active
<1>3. DuplicateOnlyByFallback'
  BY DEF TypeOK, DuplicateOnlyByFallback, Target, PidAlive, Active, Terminal,
         PidFollowsStatus, PidIsItsWorker, HolderOwns, InHand, PlacementReady,
         FreshKept, Occupied
<1>4. ASSUME NEW v \in Workers
      PROVE  HolderOwns(v)'
  BY <1>4 DEF TypeOK, HolderOwns, InHand, PidAlive, PidFollowsStatus,
     PidIsItsWorker, FreshKept, Terminal, Active
<1>5. ASSUME NEW v \in Workers
      PROVE  PlacementReady(v)'
  <2>1. CASE UNCHANGED <<status, ladder, cfg, pid>>
    BY <1>5, <2>1 DEF PlacementReady
  <2>2. ASSUME NEW j \in Jobs, CreateJob(j, l)
        PROVE  PlacementReady(v)'
    <3>1. wpc[v] # "off" => wjob[v] \in Jobs /\ wjob[v] # j
      BY <1>u, <1>5, <2>2
    <3>2. wpc[v] # "off" => ladder'[wjob[v]] = ladder[wjob[v]]
      BY <1>t, <2>2, <3>1
    <3>3. /\ cfg' = cfg /\ pid' = pid /\ wpc' = wpc /\ wjob' = wjob
          /\ base' = base /\ at' = at /\ plan' = plan
      BY <2>2
    <3> QED
      BY <1>5, <3>2, <3>3 DEF PlacementReady
  <2> QED
    BY <2>1, <2>2
<1>6. ASSUME NEW r \in Sessions
      PROVE  FreshKept(r)'
  BY <1>6 DEF TypeOK, FreshKept, FreshApart, PidFollowsStatus, HolderOwns, InHand,
     Listed
<1>7. FreshApart'
  <2>1. CASE UNCHANGED <<store, sjob>> /\ spc' = [spc EXCEPT ![s] = "idle"]
    BY <2>1 DEF TypeOK, FreshApart
  <2>2. ASSUME NEW j \in Jobs, CreateJob(j, l), sjob' = [sjob EXCEPT ![s] = j],
               spc' = [spc EXCEPT ![s] = "spawn"]
        PROVE  FreshApart'
    <3>1. \A r \in Sessions : spc[r] \in {"adopt", "spawn"} => sjob[r] # j
      BY <2>2 DEF FreshKept
    <3>2. \A r \in Sessions : r # s => spc'[r] = spc[r] /\ sjob'[r] = sjob[r]
      BY <2>2 DEF TypeOK
    <3>3. sjob'[s] = j
      BY <2>2 DEF TypeOK
    <3> QED
      BY <3>1, <3>2, <3>3 DEF FreshApart
  <2> QED
    BY <2>1, <2>2
<1> QED
  BY <1>1, <1>2, <1>3, <1>4, <1>5, <1>6, <1>7

\* A worker starts on a fresh job: SessionSpawn preserves the invariant.
LEMMA SessionSpawnStep ==
  ASSUME IInv, NEW s \in Sessions, SessionSpawn(s)
  PROVE  IInv'
<1> USE LadderAssumption, NullAssumption DEF IInv, SessionSpawn, GoWorker, GoSession,
        Settle, FinishJob, StartWorker, CreateJob, store, work, sess
<1>t. /\ status \in [Jobs -> {"none"} \cup Active \cup Terminal]
      /\ ladder \in [Jobs -> Seq(Keys)]
      /\ cfg \in [Jobs -> Nat]
      /\ \A j \in Jobs : status[j] # "none" => cfg[j] \in 1..Len(ladder[j])
      /\ pid \in [Jobs -> Workers \cup {NoWorker}]
      /\ cancelReq \in [Jobs -> BOOLEAN]
  BY DEF TypeOK
<1>u. /\ wpc \in [Workers -> WorkerPCs]
      /\ wjob \in [Workers -> Jobs \cup {NoJob}]
      /\ at \in [Workers -> Nat]
      /\ plan \in [Workers -> {"none"} \cup Terminal]
      /\ clears \in [Workers -> BOOLEAN]
      /\ launched \subseteq {j \in Jobs : status[j] # "none"}
      /\ \A v \in Workers : wpc[v] # "off" => wjob[v] \in launched
  BY DEF TypeOK
<1>1. TypeOK'
  <2>1. spc' \in [Sessions -> SessionPCs]
    BY DEF TypeOK, SessionPCs
  <2>2. CASE UNCHANGED <<launched, work>>
    BY <2>1, <2>2 DEF TypeOK
  <2>3. ASSUME NEW w \in Workers, StartWorker(w, sjob[s])
        PROVE  TypeOK'
    <3>1. sjob[s] \in Jobs /\ status[sjob[s]] # "none"
      BY DEF FreshKept
    <3>2. /\ wpc' \in [Workers -> WorkerPCs]
          /\ wjob' \in [Workers -> Jobs \cup {NoJob}]
      BY <1>u, <2>3, <3>1 DEF WorkerPCs
    <3>3. /\ launched' \subseteq {j \in Jobs : status[j] # "none"}
          /\ \A v \in Workers : wpc'[v] # "off" => wjob'[v] \in launched'
      BY <1>u, <2>3, <3>1
    <3>4. base' = base /\ at' = at /\ plan' = plan /\ clears' = clears
      BY <2>3
    <3> QED
      BY <2>1, <3>2, <3>3, <3>4 DEF TypeOK
  <2> QED
    BY <2>2, <2>3
<1>2. PidFollowsStatus' /\ PidIsItsWorker' /\ InterruptedIsDead'
  BY DEF TypeOK, PidFollowsStatus, PidIsItsWorker, InterruptedIsDead, PidAlive,
         HolderOwns, InHand, PlacementReady, FreshKept, Terminal, Active
<1>3. DuplicateOnlyByFallback'
  BY DEF TypeOK, DuplicateOnlyByFallback, Target, PidAlive, Active, Terminal,
         PidFollowsStatus, PidIsItsWorker, HolderOwns, InHand, PlacementReady,
         FreshKept, Occupied
<1>4. ASSUME NEW v \in Workers
      PROVE  HolderOwns(v)'
  <2>1. CASE UNCHANGED <<launched, work>>
    BY <1>4, <2>1 DEF HolderOwns, InHand, PidAlive
  <2>2. ASSUME NEW w \in Workers, StartWorker(w, sjob[s])
        PROVE  HolderOwns(v)'
    <3>1. /\ wpc[w] = "off" /\ wpc'[w] = "read"
          /\ \A u \in Workers : u # w => wpc'[u] = wpc[u] /\ wjob'[u] = wjob[u]
      BY <1>u, <2>2
    <3>2. ASSUME InHand(v)'
          PROVE  /\ InHand(v) /\ wjob'[v] = wjob[v] /\ wjob[v] \in Jobs
                 /\ pid[wjob[v]] # w
      BY <1>u, <1>4, <3>1, <3>2 DEF InHand, PidIsItsWorker
    <3> QED
      BY <1>4, <3>1, <3>2 DEF HolderOwns, PidAlive
  <2> QED
    BY <2>1, <2>2
<1>5. ASSUME NEW v \in Workers
      PROVE  PlacementReady(v)'
  BY <1>5 DEF TypeOK, PlacementReady, HolderOwns, InHand, PidAlive, LastOf,
     PidFollowsStatus, PidIsItsWorker, Terminal
<1>6. ASSUME NEW r \in Sessions
      PROVE  FreshKept(r)'
  BY <1>6 DEF TypeOK, FreshKept, FreshApart, PidFollowsStatus, HolderOwns, InHand,
     Listed
<1>7. FreshApart'
  BY DEF TypeOK, FreshApart, FreshKept
<1> QED
  BY <1>1, <1>2, <1>3, <1>4, <1>5, <1>6, <1>7

\* The status is read: SessionCancel preserves the invariant.
LEMMA SessionCancelStep ==
  ASSUME IInv, NEW s \in Sessions, NEW j \in Jobs, SessionCancel(s, j)
  PROVE  IInv'
<1> USE LadderAssumption, NullAssumption DEF IInv, SessionCancel, GoWorker, GoSession,
        Settle, FinishJob, StartWorker, CreateJob, store, work, sess
<1>1. TypeOK'
  BY DEF TypeOK, Active, Terminal, WorkerPCs, SessionPCs, FreshKept, PlacementReady,
         InHand, LastOf, Target, Listed
<1>2. PidFollowsStatus' /\ PidIsItsWorker' /\ InterruptedIsDead'
  BY DEF TypeOK, PidFollowsStatus, PidIsItsWorker, InterruptedIsDead, PidAlive,
         HolderOwns, InHand, PlacementReady, FreshKept, Terminal, Active
<1>3. DuplicateOnlyByFallback'
  BY DEF TypeOK, DuplicateOnlyByFallback, Target, PidAlive, Active, Terminal,
         PidFollowsStatus, PidIsItsWorker, HolderOwns, InHand, PlacementReady,
         FreshKept, Occupied
<1>4. ASSUME NEW v \in Workers
      PROVE  HolderOwns(v)'
  BY <1>4 DEF TypeOK, HolderOwns, InHand, PidAlive, PidFollowsStatus,
     PidIsItsWorker, FreshKept, Terminal, Active
<1>5. ASSUME NEW v \in Workers
      PROVE  PlacementReady(v)'
  BY <1>5 DEF TypeOK, PlacementReady, HolderOwns, InHand, PidAlive, LastOf,
     PidFollowsStatus, PidIsItsWorker, Terminal
<1>6. ASSUME NEW r \in Sessions
      PROVE  FreshKept(r)'
  BY <1>6 DEF TypeOK, FreshKept, FreshApart, PidFollowsStatus, HolderOwns, InHand,
     Listed
<1>7. FreshApart'
  BY DEF TypeOK, FreshApart, FreshKept
<1> QED
  BY <1>1, <1>2, <1>3, <1>4, <1>5, <1>6, <1>7

\* The flag is set: SessionSetFlag preserves the invariant.
LEMMA SessionSetFlagStep ==
  ASSUME IInv, NEW s \in Sessions, SessionSetFlag(s)
  PROVE  IInv'
<1> USE LadderAssumption, NullAssumption DEF IInv, SessionSetFlag, GoWorker, GoSession,
        Settle, FinishJob, StartWorker, CreateJob, store, work, sess
<1>1. TypeOK'
  BY DEF TypeOK, Active, Terminal, WorkerPCs, SessionPCs, FreshKept, PlacementReady,
         InHand, LastOf, Target, Listed
<1>2. PidFollowsStatus' /\ PidIsItsWorker' /\ InterruptedIsDead'
  BY DEF TypeOK, PidFollowsStatus, PidIsItsWorker, InterruptedIsDead, PidAlive,
         HolderOwns, InHand, PlacementReady, FreshKept, Terminal, Active
<1>3. DuplicateOnlyByFallback'
  BY DEF TypeOK, DuplicateOnlyByFallback, Target, PidAlive, Active, Terminal,
         PidFollowsStatus, PidIsItsWorker, HolderOwns, InHand, PlacementReady,
         FreshKept, Occupied
<1>4. ASSUME NEW v \in Workers
      PROVE  HolderOwns(v)'
  BY <1>4 DEF TypeOK, HolderOwns, InHand, PidAlive, PidFollowsStatus,
     PidIsItsWorker, FreshKept, Terminal, Active
<1>5. ASSUME NEW v \in Workers
      PROVE  PlacementReady(v)'
  BY <1>5 DEF TypeOK, PlacementReady, HolderOwns, InHand, PidAlive, LastOf,
     PidFollowsStatus, PidIsItsWorker, Terminal
<1>6. ASSUME NEW r \in Sessions
      PROVE  FreshKept(r)'
  BY <1>6 DEF TypeOK, FreshKept, FreshApart, PidFollowsStatus, HolderOwns, InHand,
     Listed
<1>7. FreshApart'
  BY DEF TypeOK, FreshApart, FreshKept
<1> QED
  BY <1>1, <1>2, <1>3, <1>4, <1>5, <1>6, <1>7

\* A session is killed: SessionDies preserves the invariant.
LEMMA SessionDiesStep ==
  ASSUME IInv, NEW s \in Sessions, SessionDies(s)
  PROVE  IInv'
<1> USE LadderAssumption, NullAssumption DEF IInv, SessionDies, GoWorker, GoSession,
        Settle, FinishJob, StartWorker, CreateJob, store, work, sess
<1>1. TypeOK'
  BY DEF TypeOK, Active, Terminal, WorkerPCs, SessionPCs, FreshKept, PlacementReady,
         InHand, LastOf, Target, Listed
<1>2. PidFollowsStatus' /\ PidIsItsWorker' /\ InterruptedIsDead'
  BY DEF TypeOK, PidFollowsStatus, PidIsItsWorker, InterruptedIsDead, PidAlive,
         HolderOwns, InHand, PlacementReady, FreshKept, Terminal, Active
<1>3. DuplicateOnlyByFallback'
  BY DEF TypeOK, DuplicateOnlyByFallback, Target, PidAlive, Active, Terminal,
         PidFollowsStatus, PidIsItsWorker, HolderOwns, InHand, PlacementReady,
         FreshKept, Occupied
<1>4. ASSUME NEW v \in Workers
      PROVE  HolderOwns(v)'
  BY <1>4 DEF TypeOK, HolderOwns, InHand, PidAlive, PidFollowsStatus,
     PidIsItsWorker, FreshKept, Terminal, Active
<1>5. ASSUME NEW v \in Workers
      PROVE  PlacementReady(v)'
  BY <1>5 DEF TypeOK, PlacementReady, HolderOwns, InHand, PidAlive, LastOf,
     PidFollowsStatus, PidIsItsWorker, Terminal
<1>6. ASSUME NEW r \in Sessions
      PROVE  FreshKept(r)'
  BY <1>6 DEF TypeOK, FreshKept, FreshApart, PidFollowsStatus, HolderOwns, InHand,
     Listed
<1>7. FreshApart'
  BY DEF TypeOK, FreshApart, FreshKept
<1> QED
  BY <1>1, <1>2, <1>3, <1>4, <1>5, <1>6, <1>7

\* The store and the journal are empty, nothing runs: Init establishes the
\* invariant.
LEMMA InvariantInit == Init => IInv
<1> SUFFICES ASSUME Init PROVE IInv
  OBVIOUS
<1> USE NullAssumption DEF Init
<1>1. TypeOK
  <2>1. <<>> \in Seq(Keys)
    OBVIOUS
  <2> QED
    BY <2>1 DEF TypeOK, WorkerPCs, SessionPCs
<1>2. /\ PidFollowsStatus /\ PidIsItsWorker /\ InterruptedIsDead
      /\ DuplicateOnlyByFallback /\ FreshApart
  BY DEF PidFollowsStatus, PidIsItsWorker, InterruptedIsDead,
     DuplicateOnlyByFallback, FreshApart, Active
<1>3. \A w \in Workers : HolderOwns(w) /\ PlacementReady(w)
  BY DEF HolderOwns, PlacementReady, InHand
<1>4. \A s \in Sessions : FreshKept(s)
  BY DEF FreshKept
<1> QED
  BY <1>1, <1>2, <1>3, <1>4 DEF IInv

\* Every step, the stuttering one included, preserves the invariant.
LEMMA InvariantStep == IInv /\ [Next]_vars => IInv'
<1> SUFFICES ASSUME IInv, [Next]_vars PROVE IInv'
  OBVIOUS
<1>1. CASE UNCHANGED vars
  BY <1>1 DEF vars, IInv, TypeOK, PidFollowsStatus, PidIsItsWorker,
     InterruptedIsDead, PidAlive, DuplicateOnlyByFallback, Target, HolderOwns,
     InHand, PlacementReady, FreshKept, FreshApart
<1>2. ASSUME NEW w \in Workers, Working(w) PROVE IInv'
  BY <1>2, WorkerReadStep, WorkerProbeStep, WorkerClaimStep, WorkerEnterStep,
     WorkerCheckStep, WorkerAttemptStep, WorkerDeployStep, WorkerFinishStep,
     WorkerClearStep DEF
     Working
<1>3. ASSUME NEW w \in Workers, WorkerDies(w) \/ Reap(w) PROVE IInv'
  BY <1>3, WorkerDiesStep, ReapStep
<1>4. ASSUME NEW w \in Workers, NEW j \in Jobs, Relaunch(w, j) PROVE IInv'
  BY <1>4, RelaunchStep
<1>5. ASSUME NEW s \in Sessions, Proceeding(s) PROVE IInv'
  <2>1. CASE \E l \in Ladders : SessionCreate(s, l)
    BY <2>1, SessionCreateStep
  <2>2. CASE ~ \E l \in Ladders : SessionCreate(s, l)
    BY <1>5, <2>2, SessionReconcileStep, SessionLoadStep, SessionImportStep,
       SessionAdoptStep, SessionClearStep, SessionImportedStep,
       SessionSpawnStep, SessionSetFlagStep DEF Proceeding
  <2> QED
    BY <2>1, <2>2
<1>6. ASSUME NEW s \in Sessions, SessionStart(s) \/ SessionDies(s) PROVE IInv'
  BY <1>6, SessionStartStep, SessionDiesStep
<1>7. ASSUME NEW s \in Sessions, NEW j \in Jobs, SessionCancel(s, j) PROVE IInv'
  BY <1>7, SessionCancelStep
<1> QED
  BY <1>1, <1>2, <1>3, <1>4, <1>5, <1>6, <1>7 DEF Next

\* IInv holds in every reachable state.
THEOREM Invariance == Spec => []IInv
<1>1. Init => IInv
  BY InvariantInit
<1>2. IInv /\ [Next]_vars => IInv'
  BY InvariantStep
<1> QED
  BY <1>1, <1>2, PTL DEF Spec

\* Every variable keeps its type.
THEOREM TypeCorrect == Spec => []TypeOK
<1>1. IInv => TypeOK
  BY DEF IInv
<1> QED
  BY <1>1, Invariance, PTL

\* Two workers with one job in hand: at least one is not its recorded owner,
\* and took the job over when that owner was dead, as it stays.
THEOREM NoSecondWorker == Spec => []OwnerExclusive
<1>1. IInv => OwnerExclusive
  <2> SUFFICES ASSUME IInv, NEW j \in Jobs, NEW v \in Workers, NEW w \in Workers,
                      Runs(v, j), Runs(w, j), v # w
               PROVE  ~ PidAlive(pid[j])
    BY DEF OwnerExclusive
  <2> QED
    BY DEF IInv, HolderOwns, InHand, Runs
<1> QED
  BY <1>1, Invariance, PTL

\* Whoever has a job in hand that ended is not its owner, so the owner is dead.
THEOREM EndedIsOver == Spec => []EndedIsNotRunning
<1>1. IInv => EndedIsNotRunning
  <2> SUFFICES ASSUME IInv, NEW j \in Jobs, NEW w \in Workers,
                      status[j] \in Terminal, Runs(w, j)
               PROVE  ~ PidAlive(pid[j])
    BY DEF EndedIsNotRunning
  <2> QED
    BY DEF IInv, HolderOwns, InHand, Runs, Terminal
<1> QED
  BY <1>1, Invariance, PTL

\* Duplicates of an active target come from fallbacks or from dead workers.
THEOREM NoOtherDuplicate == Spec => []DuplicateOnlyByFallback
<1>1. IInv => DuplicateOnlyByFallback
  BY DEF IInv
<1> QED
  BY <1>1, Invariance, PTL

\* No job with a living worker is called interrupted.
THEOREM InterruptedIsTrue == Spec => []InterruptedIsDead
<1>1. IInv => InterruptedIsDead
  BY DEF IInv
<1> QED
  BY <1>1, Invariance, PTL

\* The disjuncts of Next, by what each may do to the status of a running job
\* whose owner lives: only the owner's WorkerFinish ends it.
THEOREM OnlyOwnerEnds == Spec => LiveOwnerDecides
<1>1. ASSUME IInv, [Next]_vars, NEW j \in Jobs, status[j] = "running",
             PidAlive(pid[j]), status'[j] # "running"
      PROVE  wpc[pid[j]] = "finish" /\ wpc'[pid[j]] # "finish"
  <2> USE <1>1 DEF IInv, GoWorker, GoSession, Settle, FinishJob, CreateJob,
          StartWorker, store, work, sess
  <2>1. CASE UNCHANGED status
    BY <2>1
  <2>2. ASSUME NEW w \in Workers, WorkerClaim(w)
        PROVE  FALSE
    BY <2>2 DEF TypeOK, WorkerClaim
  <2>3. ASSUME NEW w \in Workers, WorkerFinish(w)
        PROVE  wpc[pid[j]] = "finish" /\ wpc'[pid[j]] # "finish"
    <3>1. wjob[w] = j
      BY <2>3 DEF TypeOK, WorkerFinish
    <3>2. pid[j] = w
      BY <2>3, <3>1 DEF HolderOwns, InHand, WorkerFinish
    <3> QED
      BY <2>3, <3>2 DEF TypeOK, WorkerFinish
  <2>4. ASSUME NEW s \in Sessions, SessionReconcile(s)
        PROVE  FALSE
    BY <2>4 DEF TypeOK, SessionReconcile
  <2>5. ASSUME NEW s \in Sessions, SessionAdopt(s)
        PROVE  FALSE
    BY <2>5 DEF TypeOK, FreshKept, SessionAdopt
  <2>6. ASSUME NEW i \in Jobs, NEW l, CreateJob(i, l)
        PROVE  FALSE
    BY <2>6 DEF TypeOK
  <2>7. CASE Next
    <3>1. ASSUME NEW w \in Workers, Working(w), status' # status
          PROVE  WorkerClaim(w) \/ WorkerFinish(w)
      BY <3>1 DEF Working, WorkerRead, WorkerProbe, WorkerEnter, WorkerCheck,
         WorkerAttempt,
         WorkerDeploy, WorkerClear
    <3>2. ASSUME NEW w \in Workers, WorkerDies(w) \/ Reap(w)
          PROVE  status' = status
      BY <3>2 DEF WorkerDies, Reap
    <3>3. ASSUME NEW w \in Workers, NEW i \in Jobs, Relaunch(w, i)
          PROVE  status' = status
      BY <3>3 DEF Relaunch
    <3>4. ASSUME NEW s \in Sessions, Proceeding(s), status' # status
          PROVE  \/ SessionReconcile(s) \/ SessionAdopt(s)
                 \/ \E i \in Jobs, l \in Ladders \cup {<<k>> : k \in Keys \cup todo[s]} :
                       CreateJob(i, l)
      <4>1. ~ (SessionLoad(s) \/ SessionClear(s) \/ SessionImported(s)
               \/ SessionSpawn(s) \/ SessionSetFlag(s))
        BY <3>4 DEF SessionLoad, SessionClear, SessionImported, SessionSpawn,
           SessionSetFlag
      <4>2. CASE SessionImport(s)
        BY <3>4, <4>2 DEF SessionImport
      <4>3. ASSUME NEW l \in Ladders, SessionCreate(s, l)
            PROVE  \E i \in Jobs : CreateJob(i, l)
        BY <3>4, <4>3 DEF SessionCreate
      <4> QED
        BY <3>4, <4>1, <4>2, <4>3 DEF Proceeding
    <3>5. ASSUME NEW s \in Sessions, SessionStart(s) \/ SessionDies(s)
          PROVE  status' = status
      BY <3>5 DEF SessionStart, SessionDies
    <3>6. ASSUME NEW s \in Sessions, NEW i \in Jobs, SessionCancel(s, i)
          PROVE  status' = status
      BY <3>6 DEF SessionCancel
    <3> QED
      BY <2>1, <2>2, <2>3, <2>4, <2>5, <2>6, <2>7, <3>1, <3>2, <3>3, <3>4, <3>5,
         <3>6 DEF Next
  <2> QED
    BY <2>1, <2>7 DEF vars
<1>2. IInv /\ [Next]_vars =>
        [\A j \in Jobs :
            (status[j] = "running" /\ PidAlive(pid[j]) /\ status'[j] # "running")
            => wpc[pid[j]] = "finish" /\ wpc'[pid[j]] # "finish"]_vars
  BY <1>1
<1> QED
  BY <1>2, Invariance, PTL DEF Spec, LiveOwnerDecides

-----------------------------------------------------------------------------
(* The refinement of JobBoard.                                             *)

\* A row stays once it is there, and so does a request to cancel.
LEMMA RowsStay ==
  ASSUME IInv, [Next]_vars, NEW j \in Jobs
  PROVE  /\ status[j] # "none" => status'[j] # "none"
         /\ cancelReq[j] => cancelReq'[j]
<1> USE DEF IInv, GoWorker, GoSession, FinishJob, CreateJob, StartWorker, store, work,
        sess
<1>1. CASE UNCHANGED <<status, cancelReq>>
  BY <1>1
<1>2. ASSUME NEW w \in Workers, WorkerClaim(w) \/ WorkerFinish(w)
      PROVE  /\ status[j] # "none" => status'[j] # "none"
             /\ cancelReq' = cancelReq
  <2>1. status \in [Jobs -> {"none"} \cup Active \cup Terminal]
    BY DEF TypeOK
  <2>2. CASE WorkerClaim(w)
    BY <2>1, <2>2 DEF WorkerClaim
  <2>3. CASE WorkerFinish(w)
    BY <2>1, <2>3 DEF WorkerFinish, PlacementReady
  <2> QED
    BY <1>2, <2>2, <2>3
<1>3. ASSUME NEW w \in Workers, Working(w)
      PROVE  WorkerClaim(w) \/ WorkerFinish(w) \/ UNCHANGED <<status, cancelReq>>
  BY <1>3 DEF Working, WorkerRead, WorkerProbe, WorkerEnter, WorkerCheck, WorkerAttempt,
     WorkerDeploy, WorkerClear
<1>4. ASSUME NEW w \in Workers, WorkerDies(w) \/ Reap(w)
      PROVE  UNCHANGED <<status, cancelReq>>
  BY <1>4 DEF WorkerDies, Reap
<1>5. ASSUME NEW w \in Workers, NEW i \in Jobs, Relaunch(w, i)
      PROVE  UNCHANGED <<status, cancelReq>>
  BY <1>5 DEF Relaunch
<1>6. ASSUME NEW s \in Sessions, Proceeding(s)
      PROVE  /\ status[j] # "none" => status'[j] # "none"
             /\ cancelReq[j] => cancelReq'[j]
  <2>1. CASE SessionReconcile(s)
    BY <2>1 DEF TypeOK, SessionReconcile
  <2>2. CASE SessionImport(s)
    BY <2>2 DEF TypeOK, SessionImport
  <2>3. CASE SessionAdopt(s)
    BY <2>3 DEF TypeOK, SessionAdopt
  <2>4. CASE \E l \in Ladders : SessionCreate(s, l)
    BY <2>4 DEF TypeOK, SessionCreate
  <2>5. CASE SessionSetFlag(s)
    BY <2>5 DEF TypeOK, SessionSetFlag
  <2>6. CASE SessionLoad(s) \/ SessionClear(s) \/ SessionImported(s) \/ SessionSpawn(s)
    BY <2>6 DEF SessionLoad, SessionClear, SessionImported, SessionSpawn
  <2> QED
    BY <1>6, <2>1, <2>2, <2>3, <2>4, <2>5, <2>6 DEF Proceeding
<1>7. ASSUME NEW s \in Sessions, SessionStart(s) \/ SessionDies(s)
      PROVE  UNCHANGED <<status, cancelReq>>
  BY <1>7 DEF SessionStart, SessionDies
<1>8. ASSUME NEW s \in Sessions, NEW i \in Jobs, SessionCancel(s, i)
      PROVE  UNCHANGED <<status, cancelReq>>
  BY <1>8 DEF SessionCancel
<1>9. CASE UNCHANGED vars
  BY <1>9 DEF vars
<1> QED
  BY <1>1, <1>2, <1>3, <1>4, <1>5, <1>6, <1>7, <1>8, <1>9 DEF Next

\* A worker settles on "cancelled" when it sees the request, and a session asks for a
\* job it sees.
LEMMA AskStep == IInv /\ AskInv /\ [Next]_vars => AskInv'
<1> SUFFICES ASSUME IInv, AskInv, [Next]_vars PROVE AskInv'
  OBVIOUS
<1>0. IInv' /\ TypeOK
  BY InvariantStep DEF IInv
<1>1. CancelWasAsked'
  <2> SUFFICES ASSUME NEW w \in Workers, wpc'[w] = "finish", plan'[w] = "cancelled"
               PROVE  cancelReq'[wjob'[w]]
    BY DEF CancelWasAsked
  <2>1. ASSUME wpc[w] = "finish", plan[w] = "cancelled", wjob'[w] = wjob[w]
        PROVE  cancelReq'[wjob'[w]]
    BY <2>1, RowsStay DEF AskInv, CancelWasAsked, IInv, PlacementReady
  <2>2. CASE UNCHANGED work
    BY <2>1, <2>2 DEF work
  <2>3. ASSUME NEW v \in Workers,
               \/ WorkerRead(v) \/ WorkerProbe(v) \/ WorkerClaim(v) \/ WorkerEnter(v)
               \/ WorkerAttempt(v)
               \/ WorkerFinish(v) \/ WorkerClear(v) \/ WorkerDies(v) \/ Reap(v)
        PROVE  wpc[w] = "finish" /\ plan[w] = "cancelled" /\ wjob'[w] = wjob[w]
    BY <1>0, <2>3 DEF TypeOK, GoWorker, WorkerRead, WorkerProbe, WorkerClaim, WorkerEnter,
       WorkerAttempt, WorkerFinish, WorkerClear, WorkerDies, Reap
  <2>4. ASSUME NEW v \in Workers, NEW j, StartWorker(v, j)
        PROVE  wpc[w] = "finish" /\ plan[w] = "cancelled" /\ wjob'[w] = wjob[w]
    BY <1>0, <2>4 DEF TypeOK, GoWorker, StartWorker
  <2>5. ASSUME NEW v \in Workers, WorkerCheck(v) \/ WorkerDeploy(v)
        PROVE  cancelReq'[wjob'[w]]
    <3>1. CASE v = w
      <4>1. wpc[w] # "finish" /\ wjob' = wjob /\ cancelReq' = cancelReq
        BY <2>5, <3>1 DEF WorkerCheck, WorkerDeploy, store
      <4>2. cancelReq[wjob[w]]
        <5>1. CASE WorkerCheck(w)
          BY <1>0, <5>1 DEF TypeOK, WorkerCheck, Settle, GoWorker
        <5>2. CASE WorkerDeploy(w)
          BY <1>0, <5>2 DEF TypeOK, WorkerDeploy, Settle, GoWorker
        <5> QED
          BY <2>5, <3>1, <5>1, <5>2
      <4> QED
        BY <4>1, <4>2
    <3>2. CASE v # w
      <4>1. wpc[w] = "finish" /\ plan[w] = "cancelled" /\ wjob'[w] = wjob[w]
        BY <1>0, <2>5, <3>2 DEF TypeOK, WorkerCheck, WorkerDeploy, Settle, GoWorker
      <4> QED
        BY <2>1, <4>1
    <3> QED
      BY <3>1, <3>2
  <2>6. ASSUME NEW s \in Sessions, Proceeding(s)
        PROVE  UNCHANGED work \/ \E v \in Workers : StartWorker(v, sjob[s])
    BY <2>6 DEF Proceeding, SessionReconcile, SessionLoad, SessionImport, SessionAdopt,
       SessionClear, SessionImported, SessionCreate, SessionSpawn, SessionSetFlag, work
  <2>7. ASSUME NEW s \in Sessions, SessionStart(s) \/ SessionDies(s)
        PROVE  UNCHANGED work
    BY <2>7 DEF SessionStart, SessionDies
  <2>8. ASSUME NEW s \in Sessions, NEW j \in Jobs, SessionCancel(s, j)
        PROVE  UNCHANGED work
    BY <2>8 DEF SessionCancel
  <2>9. CASE UNCHANGED vars
    BY <2>2, <2>9 DEF vars, work
  <2> QED
    BY <2>1, <2>2, <2>3, <2>4, <2>5, <2>6, <2>7, <2>8, <2>9 DEF Next, Working, Relaunch
<1>2. AsksForAJob'
  <2> SUFFICES ASSUME NEW s \in Sessions, spc'[s] = "cancel"
               PROVE  sjob'[s] \in Jobs /\ status'[sjob'[s]] # "none"
    BY DEF AsksForAJob
  <2>1. ASSUME spc[s] = "cancel", sjob'[s] = sjob[s]
        PROVE  sjob'[s] \in Jobs /\ status'[sjob'[s]] # "none"
    BY <2>1, RowsStay DEF AskInv, AsksForAJob
  <2>2. CASE UNCHANGED sess
    BY <2>1, <2>2 DEF sess
  <2>3. ASSUME NEW r \in Sessions, SessionStart(r) \/ Proceeding(r) \/ SessionDies(r)
        PROVE  spc[s] = "cancel" /\ sjob'[s] = sjob[s]
    BY <1>0, <2>3 DEF TypeOK, GoSession, SessionStart, SessionDies, Proceeding,
       SessionReconcile, SessionLoad, SessionImport, SessionAdopt, SessionClear,
       SessionImported, SessionCreate, SessionSpawn, SessionSetFlag
  <2>4. ASSUME NEW r \in Sessions, NEW j \in Jobs, SessionCancel(r, j)
        PROVE  sjob'[s] \in Jobs /\ status'[sjob'[s]] # "none"
    <3>1. CASE r = s
      BY <1>0, <2>4, <3>1 DEF TypeOK, GoSession, SessionCancel, Active, store
    <3>2. CASE r # s
      BY <1>0, <2>1, <2>4, <3>2 DEF TypeOK, GoSession, SessionCancel
    <3> QED
      BY <3>1, <3>2
  <2>5. ASSUME NEW w \in Workers, Working(w) \/ WorkerDies(w) \/ Reap(w)
        PROVE  UNCHANGED sess
    BY <2>5 DEF Working, WorkerRead, WorkerProbe, WorkerClaim, WorkerEnter, WorkerCheck,
       WorkerAttempt, WorkerDeploy, WorkerFinish, WorkerClear, WorkerDies, Reap
  <2>6. ASSUME NEW w \in Workers, NEW j \in Jobs, Relaunch(w, j)
        PROVE  UNCHANGED sess
    BY <2>6 DEF Relaunch
  <2>7. CASE UNCHANGED vars
    BY <2>2, <2>7 DEF vars, sess
  <2> QED
    BY <2>1, <2>2, <2>3, <2>4, <2>5, <2>6, <2>7 DEF Next
<1> QED
  BY <1>1, <1>2 DEF AskInv

\* Steps that move no row, and no process between its birth, its life and its end,
\* stutter.
LEMMA BoardStutter ==
  ASSUME UNCHANGED <<status, pid, cancelReq>>,
         \A w \in Workers : Life(w)' = Life(w)
  PROVE  UNCHANGED Board!bvars
  BY DEF Board!bvars

\* A change of one job's status, seen on the board.
LEMMA BoardSame ==
  ASSUME UNCHANGED <<pid, cancelReq, wpc>>
  PROVE  /\ {j \in Jobs : cancelReq[j]}' = {j \in Jobs : cancelReq[j]}
         /\ [w \in Workers |-> Life(w)]' = [w \in Workers |-> Life(w)]
  BY DEF Life

\* A step of the workers and the sessions is a step of the board or a stutter.
LEMMA BoardStep == IInv /\ AskInv /\ [Next]_vars => [Board!Next]_(Board!bvars)
<1> SUFFICES ASSUME IInv, AskInv, [Next]_vars PROVE [Board!Next]_(Board!bvars)
  OBVIOUS
<1>0. TypeOK
  BY DEF IInv
<1>1. CASE UNCHANGED <<status, pid, cancelReq, wpc>>
  BY <1>1, BoardStutter DEF Life
<1>2. ASSUME NEW w \in Workers, NEW where \in WorkerPCs \ {"off", "gone"},
             GoWorker(w, where), wpc[w] \notin {"off", "gone"}
      PROVE  \A v \in Workers : Life(v)' = Life(v)
  BY <1>0, <1>2 DEF TypeOK, GoWorker, Life
<1>3. ASSUME NEW w \in Workers,
             \/ WorkerRead(w) \/ WorkerProbe(w) \/ WorkerEnter(w) \/ WorkerCheck(w)
             \/ WorkerAttempt(w)
             \/ WorkerDeploy(w) \/ WorkerClear(w) \/ WorkerDies(w)
      PROVE  [Board!Next]_(Board!bvars)
  <2>1. UNCHANGED <<status, pid, cancelReq>> /\ wpc[w] \notin {"off", "gone"}
    BY <1>0, <1>3 DEF TypeOK, WorkerPCs, WorkerRead, WorkerProbe, WorkerEnter,
       WorkerCheck,
       WorkerAttempt, WorkerDeploy, WorkerClear, WorkerDies, store
  <2>2. \E where \in WorkerPCs \ {"off", "gone"} : GoWorker(w, where)
    BY <1>3 DEF WorkerPCs, WorkerRead, WorkerProbe, WorkerEnter, WorkerCheck,
       WorkerAttempt,
       WorkerDeploy, WorkerClear, WorkerDies, Settle
  <2> QED
    BY <1>2, <2>1, <2>2, BoardStutter
<1>4. ASSUME NEW w \in Workers, WorkerClaim(w)
      PROVE  [Board!Next]_(Board!bvars)
  <2>1. /\ wjob[w] \in Jobs /\ wpc[w] = "claim" /\ cancelReq' = cancelReq
        /\ \A i \in Jobs : pid[i] # w
    BY <1>0, <1>4 DEF WorkerClaim, TypeOK, IInv, PidIsItsWorker
  <2>2. PICK j \in Jobs : j = wjob[w]
    BY <2>1
  <2>3. \E where \in {"zombie", "enter"} : GoWorker(w, where)
    BY <1>4 DEF WorkerClaim
  <2>4. \A v \in Workers : Life(v)' = Life(v)
    BY <1>2, <2>1, <2>3 DEF WorkerPCs
  <2>5. Life(w) = "living"
    BY <2>1 DEF Life
  <2>6. [v \in Workers |-> Life(v)]' = [v \in Workers |-> Life(v)]
    BY <2>4
  <2>7. CASE UNCHANGED <<status, pid>>
    BY <2>1, <2>4, <2>7, BoardStutter
  <2>8. CASE /\ status[j] = "pending" /\ cancelReq[j] /\ UNCHANGED pid
             /\ status' = [status EXCEPT ![j] = "cancelled"]
    <3>1. Board!Dismiss(j)
      BY <2>1, <2>6, <2>8 DEF Board!Dismiss, Board!Becomes
    <3> QED
      BY <3>1 DEF Board!Next
  <2>9. CASE /\ status[j] = "pending" /\ ~cancelReq[j]
             /\ status' = [status EXCEPT ![j] = "running"]
             /\ pid' = [pid EXCEPT ![j] = w]
    <3>1. Board!Claim(j, w)
      BY <2>1, <2>5, <2>6, <2>9 DEF Board!Claim, Board!Becomes
    <3> QED
      BY <3>1 DEF Board!Next
  <2> QED
    BY <1>4, <2>2, <2>7, <2>8, <2>9 DEF WorkerClaim
<1>5. ASSUME NEW w \in Workers, WorkerFinish(w)
      PROVE  [Board!Next]_(Board!bvars)
  <2>1. /\ wjob[w] \in Jobs /\ wpc[w] = "finish"
        /\ plan[w] \in {"succeeded", "failed", "cancelled"}
        /\ plan[w] = "cancelled" => cancelReq[wjob[w]]
    BY <1>0, <1>5 DEF WorkerFinish, IInv, PlacementReady, AskInv, CancelWasAsked
  <2>2. PICK j \in Jobs : j = wjob[w]
    BY <2>1
  <2>3. status' = [status EXCEPT ![j] = plan[w]] /\ UNCHANGED <<pid, cancelReq>>
    BY <1>5, <2>2 DEF WorkerFinish, FinishJob
  <2>4. \E where \in {"zombie", "clear"} : GoWorker(w, where)
    BY <1>5 DEF WorkerFinish
  <2>5. [v \in Workers |-> Life(v)]' = [v \in Workers |-> Life(v)]
    BY <1>2, <2>1, <2>4 DEF WorkerPCs
  <2>6. /\ pid[j] \in Workers
        /\ pid[j] = w => status[j] = "running"
        /\ pid[j] # w => ~ PidAlive(pid[j])
    BY <2>1, <2>2 DEF IInv, HolderOwns, InHand
  <2>7. CASE pid[j] = w
    <3>1. Life(pid[j]) = "living"
      BY <2>1, <2>7 DEF Life
    <3>2. Board!Record(j)
      BY <2>1, <2>2, <2>3, <2>5, <2>6, <2>7, <3>1 DEF Board!Record, Board!Becomes,
         Board!OwnerLives, Board!Outcomes
    <3> QED
      BY <3>2 DEF Board!Next
  <2>8. CASE pid[j] # w
    <3>1. wpc[pid[j]] = "gone" /\ Life(pid[j]) = "gone"
      BY <2>6, <2>8 DEF PidAlive, Life, IInv, PidIsItsWorker
    <3>2. status[j] \in {"running"} \cup Board!Ended
      BY <1>0, <2>6, NullAssumption DEF IInv, PidFollowsStatus, TypeOK, Active,
         Terminal, Board!Ended, Board!Outcomes
    <3>3. plan[w] \in Board!Ended
      BY <2>1 DEF Board!Ended, Board!Outcomes
    <3>4. Board!Overrule(j)
      BY <2>1, <2>2, <2>3, <2>5, <2>6, <3>1, <3>2, <3>3 DEF Board!Overrule,
         Board!Becomes
    <3> QED
      BY <3>4 DEF Board!Next
  <2> QED
    BY <2>7, <2>8
<1>6. ASSUME NEW w \in Workers, Reap(w)
      PROVE  [Board!Next]_(Board!bvars)
  <2>1. UNCHANGED <<status, pid, cancelReq>> /\ Life(w) = "living"
    BY <1>6 DEF Reap, store, Life
  <2>2. [v \in Workers |-> Life(v)]' = [[v \in Workers |-> Life(v)] EXCEPT ![w] = "gone"]
    BY <1>0, <1>6 DEF TypeOK, Reap, GoWorker, Life
  <2>3. Board!Vanish(w)
    BY <2>1, <2>2 DEF Board!Vanish
  <2> QED
    BY <2>3 DEF Board!Next
<1>7. ASSUME NEW w \in Workers, NEW j, StartWorker(w, j), UNCHANGED store
      PROVE  [Board!Next]_(Board!bvars)
  <2>1. UNCHANGED <<status, pid, cancelReq>> /\ Life(w) = "unborn"
    BY <1>7 DEF StartWorker, store, Life
  <2>2. [v \in Workers |-> Life(v)]' = [[v \in Workers |-> Life(v)] EXCEPT ![w] = "living"]
    BY <1>0, <1>7 DEF TypeOK, StartWorker, GoWorker, Life
  <2>3. Board!Appear(w)
    BY <2>1, <2>2 DEF Board!Appear
  <2> QED
    BY <2>3 DEF Board!Next
<1>8. ASSUME NEW s \in Sessions, SessionReconcile(s)
      PROVE  [Board!Next]_(Board!bvars)
  <2>1. PICK j \in snap[s] : IF PidAlive(pid[j]) THEN UNCHANGED store
                             ELSE FinishJob(j, "interrupted")
    BY <1>8 DEF SessionReconcile
  <2>2. j \in Jobs /\ pid[j] \in Workers /\ wpc' = wpc
    BY <1>0, <1>8 DEF TypeOK, SessionReconcile, work, IInv, FreshKept
  <2>3. CASE UNCHANGED store
    BY <1>1, <2>2, <2>3 DEF store
  <2>4. CASE ~ PidAlive(pid[j]) /\ FinishJob(j, "interrupted")
    <3>1. Life(pid[j]) = "gone"
      BY <2>2, <2>4 DEF PidAlive, Life, IInv, PidIsItsWorker
    <3>2. status[j] \in {"running"} \cup Board!Ended
      BY <1>0, <2>2, NullAssumption DEF IInv, PidFollowsStatus, TypeOK, Active,
         Terminal, Board!Ended, Board!Outcomes
    <3>3. Board!Overrule(j)
      BY <2>2, <2>4, <3>1, <3>2, BoardSame DEF FinishJob, Board!Overrule,
         Board!Becomes, Board!Ended
    <3> QED
      BY <2>2, <3>3 DEF Board!Next
  <2> QED
    BY <2>1, <2>3, <2>4
<1>9. ASSUME NEW s \in Sessions, SessionAdopt(s)
      PROVE  [Board!Next]_(Board!bvars)
  <2>1. PICK j \in Jobs : j = sjob[s]
    BY <1>9 DEF SessionAdopt, IInv, FreshKept
  <2>2. status[j] = "pending" /\ FinishJob(j, "interrupted") /\ wpc' = wpc
    BY <1>9, <2>1 DEF SessionAdopt, IInv, FreshKept, work
  <2>3. Board!Dismiss(j)
    BY <2>2, BoardSame DEF FinishJob, Board!Dismiss, Board!Becomes
  <2> QED
    BY <2>3 DEF Board!Next
<1>10. ASSUME NEW j \in Jobs, NEW l, CreateJob(j, l), wpc' = wpc
       PROVE  [Board!Next]_(Board!bvars)
  <2>1. Board!Post(j)
    BY <1>10, BoardSame DEF CreateJob, Board!Post, Board!Becomes
  <2> QED
    BY <2>1 DEF Board!Next
<1>11. ASSUME NEW s \in Sessions, SessionSetFlag(s)
       PROVE  [Board!Next]_(Board!bvars)
  <2>1. PICK j \in Jobs : j = sjob[s] /\ status[j] # "none"
    BY <1>11 DEF SessionSetFlag, AskInv, AsksForAJob
  <2>2. /\ cancelReq' = [cancelReq EXCEPT ![j] = TRUE]
        /\ UNCHANGED <<status, pid, wpc>>
    BY <1>11, <2>1 DEF SessionSetFlag, work
  <2>3. {i \in Jobs : cancelReq[i]}' = {i \in Jobs : cancelReq[i]} \cup {j}
    BY <1>0, <2>2 DEF TypeOK
  <2>4. [w \in Workers |-> Life(w)]' = [w \in Workers |-> Life(w)]
    BY <2>2 DEF Life
  <2>5. Board!Ask(j)
    BY <2>1, <2>2, <2>3, <2>4 DEF Board!Ask
  <2> QED
    BY <2>5 DEF Board!Next
<1>12. ASSUME NEW s \in Sessions, Proceeding(s)
       PROVE  [Board!Next]_(Board!bvars)
  <2>1. CASE SessionLoad(s) \/ SessionClear(s) \/ SessionImported(s)
    BY <1>1, <2>1 DEF SessionLoad, SessionClear, SessionImported, store, work
  <2>2. CASE SessionImport(s) \/ \E l \in Ladders : SessionCreate(s, l)
    <3>1. \/ UNCHANGED store
          \/ \E j \in Jobs, l \in Ladders \cup {<<k>> : k \in todo[s]} : CreateJob(j, l)
      BY <2>2 DEF SessionImport, SessionCreate
    <3>2. wpc' = wpc
      BY <2>2 DEF SessionImport, SessionCreate, work
    <3> QED
      BY <1>1, <1>10, <3>1, <3>2 DEF store
  <2>3. CASE SessionSpawn(s)
    BY <1>1, <1>7, <2>3 DEF SessionSpawn, store, work
  <2> QED
    BY <1>8, <1>9, <1>11, <1>12, <2>1, <2>2, <2>3 DEF Proceeding
<1>13. ASSUME NEW s \in Sessions, SessionStart(s) \/ SessionDies(s)
       PROVE  UNCHANGED <<status, pid, cancelReq, wpc>>
  BY <1>13 DEF SessionStart, SessionDies, store, work
<1>14. ASSUME NEW s \in Sessions, NEW j \in Jobs, SessionCancel(s, j)
       PROVE  UNCHANGED <<status, pid, cancelReq, wpc>>
  BY <1>14 DEF SessionCancel, store, work
<1>15. ASSUME NEW w \in Workers, NEW j \in Jobs, Relaunch(w, j)
       PROVE  [Board!Next]_(Board!bvars)
  BY <1>7, <1>15 DEF Relaunch
<1>16. CASE UNCHANGED vars
  BY <1>1, <1>16 DEF vars
<1> QED
  BY <1>1, <1>3, <1>4, <1>5, <1>6, <1>12, <1>13, <1>14, <1>15, <1>16 DEF Next, Working

\* For any jobs, ladders, workers and sessions, what the table of jobs says changes only
\* as JobBoard allows.
THEOREM KeepsTheBoard == Spec => BoardKept
<1>1. Init => Board!Init /\ AskInv
  <2> SUFFICES ASSUME Init PROVE Board!Init /\ AskInv
    OBVIOUS
  <2>1. \A w \in Workers : Life(w) = "unborn"
    BY DEF Init, Life
  <2>2. {j \in Jobs : cancelReq[j]} = {}
    BY DEF Init
  <2>3. Board!Init
    BY <2>1, <2>2 DEF Init, Board!Init
  <2>4. AskInv
    BY DEF Init, AskInv, CancelWasAsked, AsksForAJob
  <2> QED
    BY <2>3, <2>4
<1>2. IInv /\ AskInv /\ [Next]_vars => [Board!Next]_(Board!bvars)
  BY BoardStep
<1> QED
  BY <1>1, <1>2, AskStep, Invariance, PTL DEF Spec, BoardKept, Board!Spec

=============================================================================
