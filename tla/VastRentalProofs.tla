-------------------------- MODULE VastRentalProofs --------------------------
(***************************************************************************)
(* Proofs about VastRental, for any names, labels, threads and processes.  *)
(*                                                                         *)
(* IInv is inductive: one lemma per action, then the invariance theorem    *)
(* and what follows from it, the refinement of RentalLedger included.      *)
(***************************************************************************)
EXTENDS Naturals, VastRental, TLAPS

\* What save() writes is a record, never the absence of one.
LEMMA SavedIsRecord ==
  ASSUME NEW l \in Labels, NEW k \in BOOLEAN, NEW s \in RecordStates
  PROVE  /\ [label |-> l, known |-> k, state |-> s] \in Records
         /\ [label |-> l, known |-> k, state |-> s] # NoRecord
  BY NullAssumption DEF Records

\* A deployment takes the lock of its name: DeployLock preserves the
\* invariant.
LEMMA DeployLockStep ==
  ASSUME IInv, NEW t \in Threads, DeployLock(t)
  PROVE  IInv'
<1> USE ProcessAssumption, NullAssumption DEF IInv, DeployLock, Goto, Verdict, Mode,
        Saved, RollBack, remote, disk, table, local
<1>1. TypeOK'
  BY DEF TypeOK, InstanceStates, RecordStates, Records, PCs, Locked, Deploying,
         Destroying, Modes, Verdicts, OwnerRecorded, Owns
<1>2. UnusedIsNone' /\ RecordOwnsLabel' /\ KeptUntilOver'
  BY DEF TypeOK, UnusedIsNone, RecordOwnsLabel, KeptUntilOver, Recorded,
         OwnerRecorded, Owns, StepReady, LockHeld, Locked, Deploying, Destroying
<1>3. ASSUME NEW u \in Threads
      PROVE  LockHeld(u)' /\ OwnerRecorded(u)' /\ StepReady(u)'
  BY <1>3 DEF TypeOK, UnusedIsNone, RecordOwnsLabel, KeptUntilOver, Recorded,
         OwnerRecorded, Owns, StepReady, LockHeld, Locked, Deploying, Destroying
<1>4. ASSUME NEW u \in Threads
      PROVE  ConfirmedReady(u)'
  BY <1>4 DEF TypeOK, UnusedIsNone, RecordOwnsLabel, KeptUntilOver, Recorded,
         OwnerRecorded, Owns, StepReady, LockHeld, ConfirmedReady, Locked, Deploying, Destroying
<1>5. ASSUME NEW u \in Threads
      PROVE  SeenReady(u)'
  BY <1>5 DEF TypeOK, UnusedIsNone, RecordOwnsLabel, KeptUntilOver, Recorded,
         OwnerRecorded, Owns, StepReady, LockHeld, SeenReady, Stopping, Locked, Deploying, Destroying
<1> QED
  BY <1>1, <1>2, <1>3, <1>4, <1>5

\* The checks before the rental: DeployCheck preserves the invariant.
LEMMA DeployCheckStep ==
  ASSUME IInv, NEW t \in Threads, DeployCheck(t)
  PROVE  IInv'
<1> USE ProcessAssumption, NullAssumption DEF IInv, DeployCheck, Goto, Verdict, Mode,
        Saved, RollBack, remote, disk, table, local
<1>1. TypeOK'
  BY DEF TypeOK, InstanceStates, RecordStates, Records, PCs, Locked, Deploying,
         Destroying, Modes, Verdicts, OwnerRecorded, Owns
<1>2. UnusedIsNone' /\ RecordOwnsLabel' /\ KeptUntilOver'
  BY DEF TypeOK, UnusedIsNone, RecordOwnsLabel, KeptUntilOver, Recorded,
         OwnerRecorded, Owns, StepReady, LockHeld, Locked, Deploying, Destroying
<1>3. ASSUME NEW u \in Threads
      PROVE  LockHeld(u)' /\ OwnerRecorded(u)' /\ StepReady(u)'
  BY <1>3 DEF TypeOK, UnusedIsNone, RecordOwnsLabel, KeptUntilOver, Recorded,
         OwnerRecorded, Owns, StepReady, LockHeld, Locked, Deploying, Destroying
<1>4. ASSUME NEW u \in Threads
      PROVE  ConfirmedReady(u)'
  BY <1>4 DEF TypeOK, UnusedIsNone, RecordOwnsLabel, KeptUntilOver, Recorded,
         OwnerRecorded, Owns, StepReady, LockHeld, ConfirmedReady, Locked, Deploying, Destroying
<1>5. ASSUME NEW u \in Threads
      PROVE  SeenReady(u)'
  BY <1>5 DEF TypeOK, UnusedIsNone, RecordOwnsLabel, KeptUntilOver, Recorded,
         OwnerRecorded, Owns, StepReady, LockHeld, SeenReady, Stopping, Locked, Deploying, Destroying
<1> QED
  BY <1>1, <1>2, <1>3, <1>4, <1>5

\* The intent is saved under a fresh label: no thread of another name knows
\* the label, and the lock keeps those of this name away: DeployIntend
\* preserves the invariant.
LEMMA DeployIntendStep ==
  ASSUME IInv, NEW t \in Threads, DeployIntend(t)
  PROVE  IInv'
<1> USE ProcessAssumption, NullAssumption DEF IInv, DeployIntend, Goto, Verdict, Mode,
        Saved, RollBack, remote, disk, table, local
<1>1. CASE UNCHANGED <<rented, record, lab>>
  <2>1. TypeOK'
    BY <1>1 DEF TypeOK, PCs, Locked, Deploying, Verdicts
  <2>2. UnusedIsNone' /\ RecordOwnsLabel' /\ KeptUntilOver'
    BY <1>1 DEF UnusedIsNone, RecordOwnsLabel, KeptUntilOver, Recorded
  <2>3. ASSUME NEW u \in Threads
        PROVE  /\ LockHeld(u)' /\ OwnerRecorded(u)' /\ StepReady(u)'
               /\ ConfirmedReady(u)' /\ SeenReady(u)'
    BY <1>1, <2>3 DEF TypeOK, LockHeld, OwnerRecorded, Owns, Recorded, StepReady,
       ConfirmedReady, SeenReady, Stopping, Locked, Deploying, Destroying
  <2> QED
    BY <2>1, <2>2, <2>3
<1>2. CASE ~ UNCHANGED <<rented, record, lab>>
  <2>1. PICK l \in Labels :
            /\ rented[l] = NoName
            /\ rented' = [rented EXCEPT ![l] = nm[t]]
            /\ lab' = [lab EXCEPT ![t] = l]
            /\ record' = [record EXCEPT ![nm[t]] =
                  [label |-> l, known |-> FALSE, state |-> "creating"]]
            /\ pc' = [pc EXCEPT ![t] = "send"]
            /\ verdict' = verdict
    BY <1>2
  <2>2. /\ nm[t] \in Names /\ record[nm[t]] = NoRecord /\ inst[l] = "none"
        /\ pc[t] = "rent" /\ lab[t] = NoLabel /\ verdict[t] = "none"
    BY <2>1 DEF TypeOK, LockHeld, StepReady, UnusedIsNone, Locked, Deploying
  <2>3. /\ record' \in [Names -> Records \cup {NoRecord}]
        /\ \A n \in Names :
              /\ record'[n] = NoRecord <=> (n # nm[t] /\ record[n] = NoRecord)
              /\ \A m \in Labels :
                    Recorded(m, n)' <=> IF n = nm[t] THEN m = l ELSE Recorded(m, n)
    <3>1. /\ [label |-> l, known |-> FALSE, state |-> "creating"] \in Records
          /\ [label |-> l, known |-> FALSE, state |-> "creating"] # NoRecord
      BY SavedIsRecord DEF RecordStates
    <3> QED
      BY <2>1, <2>2, <3>1 DEF TypeOK, Recorded
  <2>4. \A n \in Names : ~ Recorded(l, n)
    BY <2>1 DEF RecordOwnsLabel
  <2>5. TypeOK'
    BY <2>1, <2>2, <2>3 DEF TypeOK, PCs, Locked, Deploying
  <2>6. UnusedIsNone' /\ RecordOwnsLabel' /\ KeptUntilOver'
    <3>1. \A m \in Labels : rented'[m] = IF m = l THEN nm[t] ELSE rented[m]
      BY <2>1 DEF TypeOK
    <3>2. ~ \E m \in Labels : Recorded(m, nm[t])
      BY <2>2 DEF Recorded
    <3> QED
      BY <2>2, <2>3, <2>4, <3>1, <3>2 DEF TypeOK, UnusedIsNone, RecordOwnsLabel,
         KeptUntilOver
  <2>7. ASSUME NEW u \in Threads
        PROVE  LockHeld(u)' /\ OwnerRecorded(u)' /\ StepReady(u)'
    <3>1. CASE u = t
      BY <2>1, <2>2, <2>3, <3>1 DEF TypeOK, LockHeld, OwnerRecorded, StepReady,
         Locked, Deploying, Owns
    <3>2. CASE u # t
      <4>1. /\ pc'[u] = pc[u] /\ lab'[u] = lab[u]
            /\ nm'[u] = nm[u] /\ verdict'[u] = verdict[u]
        BY <2>1, <3>2 DEF TypeOK
      <4>2. LockHeld(t) /\ LockHeld(u) /\ OwnerRecorded(u) /\ StepReady(u)
        BY <2>7
      <4>3. ASSUME Owns(u) \/ pc[u] \in Locked
            PROVE  nm[u] # nm[t]
        BY <2>2, <3>2, <4>2, <4>3 DEF LockHeld, Locked, Deploying, Destroying, Owns
      <4>4. Owns(u) => nm[u] \in Names
        BY <4>2 DEF LockHeld, Owns, Locked, Deploying, Destroying
      <4>5. LockHeld(u)'
        BY <4>1, <4>2 DEF LockHeld
      <4>6. OwnerRecorded(u)'
        BY <2>3, <4>1, <4>2, <4>3, <4>4 DEF OwnerRecorded, Owns
      <4>7. pc[u] = "rent" => nm[u] \in Names /\ nm[u] # nm[t]
        BY <4>2, <4>3 DEF LockHeld, Locked, Deploying
      <4>8. StepReady(u)'
        BY <2>3, <4>1, <4>2, <4>7 DEF StepReady
      <4> QED
        BY <4>5, <4>6, <4>8
    <3> QED
      BY <3>1, <3>2
  <2>8. ASSUME NEW u \in Threads
        PROVE  ConfirmedReady(u)' /\ SeenReady(u)'
    <3>1. \A m \in Labels : rented[m] # NoName => rented'[m] = rented[m]
      BY <2>1 DEF TypeOK
    <3>2. CASE u = t
      <4>1. pc'[t] = "send" /\ verdict'[t] = "none"
        BY <2>1, <2>2 DEF TypeOK
      <4> QED
        BY <3>2, <4>1 DEF ConfirmedReady, SeenReady, Stopping, Destroying
    <3>3. CASE u # t
      <4>1. /\ pc'[u] = pc[u] /\ lab'[u] = lab[u] /\ nm'[u] = nm[u]
            /\ verdict'[u] = verdict[u] /\ seen'[u] = seen[u]
            /\ asked'[u] = asked[u] /\ mode'[u] = mode[u]
        BY <2>1, <3>3 DEF TypeOK
      <4>2. ConfirmedReady(u)'
        BY <2>1, <2>3, <3>1, <4>1 DEF TypeOK, ConfirmedReady
      <4>3. Stopping(u) => nm[u] \in Names
        BY <2>8 DEF Stopping, StepReady, LockHeld, Locked, Destroying
      <4>4. SeenReady(u)'
        BY <2>8, <3>1, <4>1, <4>3, NullAssumption DEF TypeOK, SeenReady, Stopping
      <4> QED
        BY <4>2, <4>4
    <3> QED
      BY <3>2, <3>3
  <2> QED
    BY <2>5, <2>6, <2>7, <2>8
<1> QED
  BY <1>1, <1>2

\* The billable request leaves, for a label already on disk: DeploySend
\* preserves the invariant.
LEMMA DeploySendStep ==
  ASSUME IInv, NEW t \in Threads, DeploySend(t)
  PROVE  IInv'
<1> USE ProcessAssumption, NullAssumption DEF IInv, DeploySend, Goto, Verdict, Mode,
        Saved, RollBack, remote, disk, table, local
<1>1. TypeOK'
  BY DEF TypeOK, InstanceStates, RecordStates, Records, PCs, Locked, Deploying,
         Destroying, Modes, Verdicts, OwnerRecorded, Owns
<1>2. UnusedIsNone' /\ RecordOwnsLabel' /\ KeptUntilOver'
  BY DEF TypeOK, UnusedIsNone, RecordOwnsLabel, KeptUntilOver, Recorded,
         OwnerRecorded, Owns, StepReady, LockHeld, Locked, Deploying, Destroying
<1>3. ASSUME NEW u \in Threads
      PROVE  LockHeld(u)' /\ OwnerRecorded(u)' /\ StepReady(u)'
  BY <1>3 DEF TypeOK, UnusedIsNone, RecordOwnsLabel, KeptUntilOver, Recorded,
         OwnerRecorded, Owns, StepReady, LockHeld, Locked, Deploying, Destroying
<1>4. ASSUME NEW u \in Threads
      PROVE  ConfirmedReady(u)'
  BY <1>4 DEF TypeOK, UnusedIsNone, RecordOwnsLabel, KeptUntilOver, Recorded,
         OwnerRecorded, Owns, StepReady, LockHeld, ConfirmedReady, Locked, Deploying, Destroying
<1>5. ASSUME NEW u \in Threads
      PROVE  SeenReady(u)'
  BY <1>5 DEF TypeOK, UnusedIsNone, RecordOwnsLabel, KeptUntilOver, Recorded,
         OwnerRecorded, Owns, StepReady, LockHeld, SeenReady, Stopping, Locked, Deploying, Destroying
<1> QED
  BY <1>1, <1>2, <1>3, <1>4, <1>5

\* Whatever the answer, or none: DeployReply preserves the invariant.
LEMMA DeployReplyStep ==
  ASSUME IInv, NEW t \in Threads, DeployReply(t)
  PROVE  IInv'
<1> USE ProcessAssumption, NullAssumption DEF IInv, DeployReply, Goto, Verdict, Mode,
        Saved, RollBack, remote, disk, table, local
<1>1. TypeOK'
  BY ZenonT(40) DEF TypeOK, InstanceStates, RecordStates, Records, PCs, Locked, Deploying,
         Destroying, Modes, Verdicts, OwnerRecorded, Owns
<1>2. UnusedIsNone' /\ RecordOwnsLabel' /\ KeptUntilOver'
  BY DEF TypeOK, UnusedIsNone, RecordOwnsLabel, KeptUntilOver, Recorded,
         OwnerRecorded, Owns, StepReady, LockHeld, Locked, Deploying, Destroying
<1>3. ASSUME NEW u \in Threads
      PROVE  LockHeld(u)' /\ OwnerRecorded(u)' /\ StepReady(u)'
  BY <1>3 DEF TypeOK, UnusedIsNone, RecordOwnsLabel, KeptUntilOver, Recorded,
         OwnerRecorded, Owns, StepReady, LockHeld, Locked, Deploying, Destroying
<1>4. ASSUME NEW u \in Threads
      PROVE  ConfirmedReady(u)'
  BY <1>4 DEF TypeOK, UnusedIsNone, RecordOwnsLabel, KeptUntilOver, Recorded,
         OwnerRecorded, Owns, StepReady, LockHeld, ConfirmedReady, Locked, Deploying, Destroying
<1>5. ASSUME NEW u \in Threads
      PROVE  SeenReady(u)'
  BY <1>5 DEF TypeOK, UnusedIsNone, RecordOwnsLabel, KeptUntilOver, Recorded,
         OwnerRecorded, Owns, StepReady, LockHeld, SeenReady, Stopping, Locked, Deploying, Destroying
<1> QED
  BY <1>1, <1>2, <1>3, <1>4, <1>5

\* The record of a refused request goes; the label is over: DeployWithdraw
\* preserves the invariant.
LEMMA DeployWithdrawStep ==
  ASSUME IInv, NEW t \in Threads, DeployWithdraw(t)
  PROVE  IInv'
<1> USE ProcessAssumption, NullAssumption DEF IInv, DeployWithdraw, Goto, Verdict, Mode,
        Saved, RollBack, remote, disk, table, local
<1>1. TypeOK'
  BY DEF TypeOK, InstanceStates, RecordStates, Records, PCs, Locked, Deploying,
         Destroying, Modes, Verdicts, OwnerRecorded, Owns
<1>2. UnusedIsNone' /\ RecordOwnsLabel' /\ KeptUntilOver'
  BY DEF TypeOK, UnusedIsNone, RecordOwnsLabel, KeptUntilOver, Recorded,
         OwnerRecorded, Owns, StepReady, LockHeld, Locked, Deploying, Destroying
<1>3. ASSUME NEW u \in Threads
      PROVE  LockHeld(u)' /\ OwnerRecorded(u)' /\ StepReady(u)'
  BY <1>3 DEF TypeOK, UnusedIsNone, RecordOwnsLabel, KeptUntilOver, Recorded,
         OwnerRecorded, Owns, StepReady, LockHeld, Locked, Deploying, Destroying
<1>4. ASSUME NEW u \in Threads
      PROVE  ConfirmedReady(u)'
  BY <1>4 DEF TypeOK, UnusedIsNone, RecordOwnsLabel, KeptUntilOver, Recorded,
         OwnerRecorded, Owns, StepReady, LockHeld, ConfirmedReady, Locked, Deploying, Destroying
<1>5. ASSUME NEW u \in Threads
      PROVE  SeenReady(u)'
  BY <1>5 DEF TypeOK, UnusedIsNone, RecordOwnsLabel, KeptUntilOver, Recorded,
         OwnerRecorded, Owns, StepReady, LockHeld, SeenReady, Stopping, Locked, Deploying, Destroying
<1> QED
  BY <1>1, <1>2, <1>3, <1>4, <1>5

\* Saving the id changes no label: DeploySaveId preserves the invariant.
LEMMA DeploySaveIdStep ==
  ASSUME IInv, NEW t \in Threads, DeploySaveId(t)
  PROVE  IInv'
<1> USE ProcessAssumption, NullAssumption DEF IInv, DeploySaveId, Goto, Verdict, Mode,
        Saved, RollBack, remote, disk, table, local
<1>0. /\ record' \in [Names -> Records \cup {NoRecord}]
      /\ \A n \in Names : /\ record'[n] = NoRecord <=> record[n] = NoRecord
                         /\ \A l \in Labels : Recorded(l, n)' <=> Recorded(l, n)
  <2>1. nm[t] \in Names /\ lab[t] \in Labels /\ Recorded(lab[t], nm[t])
    BY DEF TypeOK, RecordStates, Locked, Deploying, Destroying, LockHeld,
           OwnerRecorded, Owns, Recorded
  <2>2. CASE UNCHANGED record
    BY <2>2 DEF TypeOK, Recorded
  <2>3. CASE record' = [record EXCEPT ![nm[t]] = Saved(t, "creating")]
    <3>1. Saved(t, "creating") \in Records /\ Saved(t, "creating") # NoRecord /\ Saved(t, "creating").label = lab[t]
      BY <2>1, SavedIsRecord DEF TypeOK, RecordStates, Saved
    <3> QED
      BY <2>1, <2>3, <3>1 DEF TypeOK, Recorded
  <2> QED
    BY <2>2, <2>3
<1>1. TypeOK'
  BY <1>0 DEF TypeOK, InstanceStates, RecordStates, Records, PCs, Locked, Deploying,
         Destroying, Modes, Verdicts, OwnerRecorded, Owns
<1>2. UnusedIsNone' /\ RecordOwnsLabel' /\ KeptUntilOver'
  BY <1>0 DEF TypeOK, UnusedIsNone, RecordOwnsLabel, KeptUntilOver,
         OwnerRecorded, Owns, StepReady, LockHeld, Locked, Deploying, Destroying
<1>3. ASSUME NEW u \in Threads
      PROVE  LockHeld(u)' /\ OwnerRecorded(u)' /\ StepReady(u)'
  BY <1>0, <1>3 DEF TypeOK, UnusedIsNone, RecordOwnsLabel, KeptUntilOver,
         OwnerRecorded, Owns, StepReady, LockHeld, Locked, Deploying, Destroying
<1>4. ASSUME NEW u \in Threads
      PROVE  ConfirmedReady(u)'
  BY <1>0, <1>4 DEF TypeOK, UnusedIsNone, RecordOwnsLabel, KeptUntilOver,
         OwnerRecorded, Owns, StepReady, LockHeld, ConfirmedReady, Locked, Deploying, Destroying
<1>5. ASSUME NEW u \in Threads
      PROVE  SeenReady(u)'
  BY <1>0, <1>5 DEF TypeOK, UnusedIsNone, RecordOwnsLabel, KeptUntilOver,
         OwnerRecorded, Owns, StepReady, LockHeld, SeenReady, Stopping, Locked, Deploying, Destroying
<1> QED
  BY <1>1, <1>2, <1>3, <1>4, <1>5

\* The waiting loops go on or fall into the rollback: DeployAdvance preserves
\* the invariant.
LEMMA DeployAdvanceStep ==
  ASSUME IInv, NEW t \in Threads, DeployAdvance(t)
  PROVE  IInv'
<1> USE ProcessAssumption, NullAssumption DEF IInv, DeployAdvance, Goto, Verdict, Mode,
        Saved, RollBack, remote, disk, table, local
<1>1. TypeOK'
  BY DEF TypeOK, InstanceStates, RecordStates, Records, PCs, Locked, Deploying,
         Destroying, Modes, Verdicts, OwnerRecorded, Owns
<1>2. UnusedIsNone' /\ RecordOwnsLabel' /\ KeptUntilOver'
  BY DEF TypeOK, UnusedIsNone, RecordOwnsLabel, KeptUntilOver, Recorded,
         OwnerRecorded, Owns, StepReady, LockHeld, Locked, Deploying, Destroying
<1>3. ASSUME NEW u \in Threads
      PROVE  LockHeld(u)' /\ OwnerRecorded(u)' /\ StepReady(u)'
  BY <1>3 DEF TypeOK, UnusedIsNone, RecordOwnsLabel, KeptUntilOver, Recorded,
         OwnerRecorded, Owns, StepReady, LockHeld, Locked, Deploying, Destroying
<1>4. ASSUME NEW u \in Threads
      PROVE  ConfirmedReady(u)'
  BY <1>4 DEF TypeOK, UnusedIsNone, RecordOwnsLabel, KeptUntilOver, Recorded,
         OwnerRecorded, Owns, StepReady, LockHeld, ConfirmedReady, Locked, Deploying, Destroying
<1>5. ASSUME NEW u \in Threads
      PROVE  SeenReady(u)'
  BY <1>5 DEF TypeOK, UnusedIsNone, RecordOwnsLabel, KeptUntilOver, Recorded,
         OwnerRecorded, Owns, StepReady, LockHeld, SeenReady, Stopping, Locked, Deploying, Destroying
<1> QED
  BY <1>1, <1>2, <1>3, <1>4, <1>5

\* The record says "running" and keeps its label: DeployFinish preserves the
\* invariant.
LEMMA DeployFinishStep ==
  ASSUME IInv, NEW t \in Threads, DeployFinish(t)
  PROVE  IInv'
<1> USE ProcessAssumption, NullAssumption DEF IInv, DeployFinish, Goto, Verdict, Mode,
        Saved, RollBack, remote, disk, table, local
<1>0. /\ record' \in [Names -> Records \cup {NoRecord}]
      /\ \A n \in Names : /\ record'[n] = NoRecord <=> record[n] = NoRecord
                         /\ \A l \in Labels : Recorded(l, n)' <=> Recorded(l, n)
  <2>1. nm[t] \in Names /\ lab[t] \in Labels /\ Recorded(lab[t], nm[t])
    BY DEF TypeOK, RecordStates, Locked, Deploying, Destroying, LockHeld,
           OwnerRecorded, Owns, Recorded
  <2>2. CASE UNCHANGED record
    BY <2>2 DEF TypeOK, Recorded
  <2>3. CASE record' = [record EXCEPT ![nm[t]] = Saved(t, "running")]
    <3>1. Saved(t, "running") \in Records /\ Saved(t, "running") # NoRecord /\ Saved(t, "running").label = lab[t]
      BY <2>1, SavedIsRecord DEF TypeOK, RecordStates, Saved
    <3> QED
      BY <2>1, <2>3, <3>1 DEF TypeOK, Recorded
  <2> QED
    BY <2>2, <2>3
<1>1. TypeOK'
  BY <1>0, ZenonT(40) DEF TypeOK, InstanceStates, RecordStates, Records, PCs, Locked, Deploying,
         Destroying, Modes, Verdicts, OwnerRecorded, Owns
<1>2. UnusedIsNone' /\ RecordOwnsLabel' /\ KeptUntilOver'
  BY <1>0 DEF TypeOK, UnusedIsNone, RecordOwnsLabel, KeptUntilOver,
         OwnerRecorded, Owns, StepReady, LockHeld, Locked, Deploying, Destroying
<1>3. ASSUME NEW u \in Threads
      PROVE  LockHeld(u)' /\ OwnerRecorded(u)' /\ StepReady(u)'
  BY <1>0, <1>3 DEF TypeOK, UnusedIsNone, RecordOwnsLabel, KeptUntilOver,
         OwnerRecorded, Owns, StepReady, LockHeld, Locked, Deploying, Destroying
<1>4. ASSUME NEW u \in Threads
      PROVE  ConfirmedReady(u)'
  BY <1>0, <1>4 DEF TypeOK, UnusedIsNone, RecordOwnsLabel, KeptUntilOver,
         OwnerRecorded, Owns, StepReady, LockHeld, ConfirmedReady, Locked, Deploying, Destroying
<1>5. ASSUME NEW u \in Threads
      PROVE  SeenReady(u)'
  BY <1>0, <1>5 DEF TypeOK, UnusedIsNone, RecordOwnsLabel, KeptUntilOver,
         OwnerRecorded, Owns, StepReady, LockHeld, SeenReady, Stopping, Locked, Deploying, Destroying
<1> QED
  BY <1>1, <1>2, <1>3, <1>4, <1>5

\* The failure is reported: DeployReport preserves the invariant.
LEMMA DeployReportStep ==
  ASSUME IInv, NEW t \in Threads, DeployReport(t)
  PROVE  IInv'
<1> USE ProcessAssumption, NullAssumption DEF IInv, DeployReport, Goto, Verdict, Mode,
        Saved, RollBack, remote, disk, table, local
<1>1. TypeOK'
  BY DEF TypeOK, InstanceStates, RecordStates, Records, PCs, Locked, Deploying,
         Destroying, Modes, Verdicts, OwnerRecorded, Owns
<1>2. UnusedIsNone' /\ RecordOwnsLabel' /\ KeptUntilOver'
  BY DEF TypeOK, UnusedIsNone, RecordOwnsLabel, KeptUntilOver, Recorded,
         OwnerRecorded, Owns, StepReady, LockHeld, Locked, Deploying, Destroying
<1>3. ASSUME NEW u \in Threads
      PROVE  LockHeld(u)' /\ OwnerRecorded(u)' /\ StepReady(u)'
  BY <1>3 DEF TypeOK, UnusedIsNone, RecordOwnsLabel, KeptUntilOver, Recorded,
         OwnerRecorded, Owns, StepReady, LockHeld, Locked, Deploying, Destroying
<1>4. ASSUME NEW u \in Threads
      PROVE  ConfirmedReady(u)'
  BY <1>4 DEF TypeOK, UnusedIsNone, RecordOwnsLabel, KeptUntilOver, Recorded,
         OwnerRecorded, Owns, StepReady, LockHeld, ConfirmedReady, Locked, Deploying, Destroying
<1>5. ASSUME NEW u \in Threads
      PROVE  SeenReady(u)'
  BY <1>5 DEF TypeOK, UnusedIsNone, RecordOwnsLabel, KeptUntilOver, Recorded,
         OwnerRecorded, Owns, StepReady, LockHeld, SeenReady, Stopping, Locked, Deploying, Destroying
<1> QED
  BY <1>1, <1>2, <1>3, <1>4, <1>5

\* The lock is let go by its holder: DeployUnlock preserves the invariant.
LEMMA DeployUnlockStep ==
  ASSUME IInv, NEW t \in Threads, DeployUnlock(t)
  PROVE  IInv'
<1> USE ProcessAssumption, NullAssumption DEF IInv, DeployUnlock, Goto, Verdict, Mode,
        Saved, RollBack, remote, disk, table, local
<1>1. TypeOK'
  BY DEF TypeOK, InstanceStates, RecordStates, Records, PCs, Locked, Deploying,
         Destroying, Modes, Verdicts, OwnerRecorded, Owns
<1>2. UnusedIsNone' /\ RecordOwnsLabel' /\ KeptUntilOver'
  BY DEF TypeOK, UnusedIsNone, RecordOwnsLabel, KeptUntilOver, Recorded,
         OwnerRecorded, Owns, StepReady, LockHeld, Locked, Deploying, Destroying
<1>3. ASSUME NEW u \in Threads
      PROVE  LockHeld(u)' /\ OwnerRecorded(u)' /\ StepReady(u)'
  BY <1>3 DEF TypeOK, UnusedIsNone, RecordOwnsLabel, KeptUntilOver, Recorded,
         OwnerRecorded, Owns, StepReady, LockHeld, Locked, Deploying, Destroying
<1>4. ASSUME NEW u \in Threads
      PROVE  ConfirmedReady(u)'
  BY <1>4 DEF TypeOK, UnusedIsNone, RecordOwnsLabel, KeptUntilOver, Recorded,
         OwnerRecorded, Owns, StepReady, LockHeld, ConfirmedReady, Locked, Deploying, Destroying
<1>5. ASSUME NEW u \in Threads
      PROVE  SeenReady(u)'
  BY <1>5 DEF TypeOK, UnusedIsNone, RecordOwnsLabel, KeptUntilOver, Recorded,
         OwnerRecorded, Owns, StepReady, LockHeld, SeenReady, Stopping, Locked, Deploying, Destroying
<1> QED
  BY <1>1, <1>2, <1>3, <1>4, <1>5

\* The cancellation entry goes: DeployUnregister preserves the invariant.
LEMMA DeployUnregisterStep ==
  ASSUME IInv, NEW t \in Threads, DeployUnregister(t)
  PROVE  IInv'
<1> USE ProcessAssumption, NullAssumption DEF IInv, DeployUnregister, Goto, Verdict, Mode,
        Saved, RollBack, remote, disk, table, local
<1>1. TypeOK'
  BY DEF TypeOK, InstanceStates, RecordStates, Records, PCs, Locked, Deploying,
         Destroying, Modes, Verdicts, OwnerRecorded, Owns
<1>2. UnusedIsNone' /\ RecordOwnsLabel' /\ KeptUntilOver'
  BY DEF TypeOK, UnusedIsNone, RecordOwnsLabel, KeptUntilOver, Recorded,
         OwnerRecorded, Owns, StepReady, LockHeld, Locked, Deploying, Destroying
<1>3. ASSUME NEW u \in Threads
      PROVE  LockHeld(u)' /\ OwnerRecorded(u)' /\ StepReady(u)'
  BY <1>3 DEF TypeOK, UnusedIsNone, RecordOwnsLabel, KeptUntilOver, Recorded,
         OwnerRecorded, Owns, StepReady, LockHeld, Locked, Deploying, Destroying
<1>4. ASSUME NEW u \in Threads
      PROVE  ConfirmedReady(u)'
  BY <1>4 DEF TypeOK, UnusedIsNone, RecordOwnsLabel, KeptUntilOver, Recorded,
         OwnerRecorded, Owns, StepReady, LockHeld, ConfirmedReady, Locked, Deploying, Destroying
<1>5. ASSUME NEW u \in Threads
      PROVE  SeenReady(u)'
  BY <1>5 DEF TypeOK, UnusedIsNone, RecordOwnsLabel, KeptUntilOver, Recorded,
         OwnerRecorded, Owns, StepReady, LockHeld, SeenReady, Stopping, Locked, Deploying, Destroying
<1> QED
  BY <1>1, <1>2, <1>3, <1>4, <1>5

\* The consumer closes the stream: CloseStream preserves the invariant.
LEMMA CloseStreamStep ==
  ASSUME IInv, NEW t \in Threads, CloseStream(t)
  PROVE  IInv'
<1> USE ProcessAssumption, NullAssumption DEF IInv, CloseStream, Goto, Verdict, Mode,
        Saved, RollBack, remote, disk, table, local
<1>1. TypeOK'
  BY DEF TypeOK, InstanceStates, RecordStates, Records, PCs, Locked, Deploying,
         Destroying, Modes, Verdicts, OwnerRecorded, Owns
<1>2. UnusedIsNone' /\ RecordOwnsLabel' /\ KeptUntilOver'
  BY DEF TypeOK, UnusedIsNone, RecordOwnsLabel, KeptUntilOver, Recorded,
         OwnerRecorded, Owns, StepReady, LockHeld, Locked, Deploying, Destroying
<1>3. ASSUME NEW u \in Threads
      PROVE  LockHeld(u)' /\ OwnerRecorded(u)' /\ StepReady(u)'
  BY <1>3 DEF TypeOK, UnusedIsNone, RecordOwnsLabel, KeptUntilOver, Recorded,
         OwnerRecorded, Owns, StepReady, LockHeld, Locked, Deploying, Destroying
<1>4. ASSUME NEW u \in Threads
      PROVE  ConfirmedReady(u)'
  BY <1>4 DEF TypeOK, UnusedIsNone, RecordOwnsLabel, KeptUntilOver, Recorded,
         OwnerRecorded, Owns, StepReady, LockHeld, ConfirmedReady, Locked, Deploying, Destroying
<1>5. ASSUME NEW u \in Threads
      PROVE  SeenReady(u)'
  BY <1>5 DEF TypeOK, UnusedIsNone, RecordOwnsLabel, KeptUntilOver, Recorded,
         OwnerRecorded, Owns, StepReady, LockHeld, SeenReady, Stopping, Locked, Deploying, Destroying
<1> QED
  BY <1>1, <1>2, <1>3, <1>4, <1>5

\* _instance() keeps the label and may learn the id: DestroyFind preserves
\* the invariant.
LEMMA DestroyFindStep ==
  ASSUME IInv, NEW t \in Threads, DestroyFind(t)
  PROVE  IInv'
<1> USE ProcessAssumption, NullAssumption DEF IInv, DestroyFind, DestroyFailed, Goto, Verdict, Mode,
        Saved, RollBack, remote, disk, table, local
<1>0. /\ record' \in [Names -> Records \cup {NoRecord}]
      /\ \A n \in Names : /\ record'[n] = NoRecord <=> record[n] = NoRecord
                         /\ \A l \in Labels : Recorded(l, n)' <=> Recorded(l, n)
  <2>1. nm[t] \in Names /\ lab[t] \in Labels /\ Recorded(lab[t], nm[t])
    BY DEF TypeOK, RecordStates, Locked, Deploying, Destroying, LockHeld,
           OwnerRecorded, Owns, Recorded
  <2>2. CASE UNCHANGED record
    BY <2>2 DEF TypeOK, Recorded
  <2>3. CASE record' = [record EXCEPT ![nm[t]] = [label |-> lab[t], known |-> TRUE, state |-> "destroying"]]
    <3>1. [label |-> lab[t], known |-> TRUE, state |-> "destroying"] \in Records /\ [label |-> lab[t], known |-> TRUE, state |-> "destroying"] # NoRecord /\ [label |-> lab[t], known |-> TRUE, state |-> "destroying"].label = lab[t]
      BY <2>1, SavedIsRecord DEF TypeOK, RecordStates, Saved
    <3> QED
      BY <2>1, <2>3, <3>1 DEF TypeOK, Recorded
  <2> QED
    BY <2>2, <2>3
<1>1. TypeOK'
  BY <1>0, ZenonT(40) DEF TypeOK, InstanceStates, RecordStates, Records, PCs, Locked, Deploying,
         Destroying, Modes, Verdicts, OwnerRecorded, Owns
<1>2. UnusedIsNone' /\ RecordOwnsLabel' /\ KeptUntilOver'
  BY <1>0 DEF TypeOK, UnusedIsNone, RecordOwnsLabel, KeptUntilOver,
         OwnerRecorded, Owns, StepReady, LockHeld, Locked, Deploying, Destroying
<1>3. ASSUME NEW u \in Threads
      PROVE  LockHeld(u)' /\ OwnerRecorded(u)' /\ StepReady(u)'
  BY <1>0, <1>3 DEF TypeOK, UnusedIsNone, RecordOwnsLabel, KeptUntilOver,
         OwnerRecorded, Owns, StepReady, LockHeld, Locked, Deploying, Destroying
<1>4. ASSUME NEW u \in Threads
      PROVE  ConfirmedReady(u)'
  BY <1>0, <1>4 DEF TypeOK, UnusedIsNone, RecordOwnsLabel, KeptUntilOver,
         OwnerRecorded, Owns, StepReady, LockHeld, ConfirmedReady, Locked, Deploying, Destroying
<1>5. ASSUME NEW u \in Threads
      PROVE  SeenReady(u)'
  BY <1>0, <1>5 DEF TypeOK, UnusedIsNone, RecordOwnsLabel, KeptUntilOver,
         OwnerRecorded, Owns, StepReady, LockHeld, SeenReady, Stopping, Locked, Deploying, Destroying
<1> QED
  BY <1>1, <1>2, <1>3, <1>4, <1>5

\* A deletion turns a live instance into a dying one: DestroyDelete preserves
\* the invariant.
LEMMA DestroyDeleteStep ==
  ASSUME IInv, NEW t \in Threads, DestroyDelete(t)
  PROVE  IInv'
<1> USE ProcessAssumption, NullAssumption DEF IInv, DestroyDelete, DestroyFailed, Goto, Verdict, Mode,
        Saved, RollBack, remote, disk, table, local
<1>1. TypeOK'
  BY DEF TypeOK, InstanceStates, RecordStates, Records, PCs, Locked, Deploying,
         Destroying, Modes, Verdicts, OwnerRecorded, Owns
<1>2. UnusedIsNone' /\ RecordOwnsLabel' /\ KeptUntilOver'
  BY DEF TypeOK, UnusedIsNone, RecordOwnsLabel, KeptUntilOver, Recorded,
         OwnerRecorded, Owns, StepReady, LockHeld, Locked, Deploying, Destroying
<1>3. ASSUME NEW u \in Threads
      PROVE  LockHeld(u)' /\ OwnerRecorded(u)' /\ StepReady(u)'
  BY <1>3 DEF TypeOK, UnusedIsNone, RecordOwnsLabel, KeptUntilOver, Recorded,
         OwnerRecorded, Owns, StepReady, LockHeld, Locked, Deploying, Destroying
<1>4. ASSUME NEW u \in Threads
      PROVE  ConfirmedReady(u)'
  BY <1>4 DEF TypeOK, UnusedIsNone, RecordOwnsLabel, KeptUntilOver, Recorded,
         OwnerRecorded, Owns, StepReady, LockHeld, ConfirmedReady, Locked, Deploying, Destroying
<1>5. ASSUME NEW u \in Threads
      PROVE  SeenReady(u)'
  BY <1>5 DEF TypeOK, UnusedIsNone, RecordOwnsLabel, KeptUntilOver, Recorded,
         OwnerRecorded, Owns, StepReady, LockHeld, SeenReady, Stopping, Locked, Deploying, Destroying
<1> QED
  BY <1>1, <1>2, <1>3, <1>4, <1>5

\* The absence is awaited: DestroyPoll preserves the invariant.
LEMMA DestroyPollStep ==
  ASSUME IInv, NEW t \in Threads, DestroyPoll(t)
  PROVE  IInv'
<1> USE ProcessAssumption, NullAssumption DEF IInv, DestroyPoll, DestroyFailed, Goto, Verdict, Mode,
        Saved, RollBack, remote, disk, table, local
<1>1. TypeOK'
  BY DEF TypeOK, InstanceStates, RecordStates, Records, PCs, Locked, Deploying,
         Destroying, Modes, Verdicts, OwnerRecorded, Owns
<1>2. UnusedIsNone' /\ RecordOwnsLabel' /\ KeptUntilOver'
  BY DEF TypeOK, UnusedIsNone, RecordOwnsLabel, KeptUntilOver, Recorded,
         OwnerRecorded, Owns, StepReady, LockHeld, Locked, Deploying, Destroying
<1>3. ASSUME NEW u \in Threads
      PROVE  LockHeld(u)' /\ OwnerRecorded(u)' /\ StepReady(u)'
  BY <1>3 DEF TypeOK, UnusedIsNone, RecordOwnsLabel, KeptUntilOver, Recorded,
         OwnerRecorded, Owns, StepReady, LockHeld, Locked, Deploying, Destroying
<1>4. ASSUME NEW u \in Threads
      PROVE  ConfirmedReady(u)'
  BY <1>4 DEF TypeOK, UnusedIsNone, RecordOwnsLabel, KeptUntilOver, Recorded,
         OwnerRecorded, Owns, StepReady, LockHeld, ConfirmedReady, Locked, Deploying, Destroying
<1>5. ASSUME NEW u \in Threads
      PROVE  SeenReady(u)'
  BY <1>5 DEF TypeOK, UnusedIsNone, RecordOwnsLabel, KeptUntilOver, Recorded,
         OwnerRecorded, Owns, StepReady, LockHeld, SeenReady, Stopping, Locked, Deploying, Destroying
<1> QED
  BY <1>1, <1>2, <1>3, <1>4, <1>5

\* The record of an absent instance goes: DestroyRemove preserves the
\* invariant.
LEMMA DestroyRemoveStep ==
  ASSUME IInv, NEW t \in Threads, DestroyRemove(t)
  PROVE  IInv'
<1> USE ProcessAssumption, NullAssumption DEF IInv, DestroyRemove, Goto, Verdict, Mode,
        Saved, RollBack, remote, disk, table, local
<1>1. TypeOK'
  BY ZenonT(40) DEF TypeOK, InstanceStates, RecordStates, Records, PCs, Locked, Deploying,
         Destroying, Modes, Verdicts, OwnerRecorded, Owns
<1>2. UnusedIsNone' /\ RecordOwnsLabel' /\ KeptUntilOver'
  BY DEF TypeOK, UnusedIsNone, RecordOwnsLabel, KeptUntilOver, Recorded,
         OwnerRecorded, Owns, StepReady, LockHeld, Locked, Deploying, Destroying
<1>3. ASSUME NEW u \in Threads
      PROVE  LockHeld(u)' /\ OwnerRecorded(u)' /\ StepReady(u)'
  BY <1>3 DEF TypeOK, UnusedIsNone, RecordOwnsLabel, KeptUntilOver, Recorded,
         OwnerRecorded, Owns, StepReady, LockHeld, Locked, Deploying, Destroying
<1>4. ASSUME NEW u \in Threads
      PROVE  ConfirmedReady(u)'
  BY <1>4 DEF TypeOK, UnusedIsNone, RecordOwnsLabel, KeptUntilOver, Recorded,
         OwnerRecorded, Owns, StepReady, LockHeld, ConfirmedReady, Locked, Deploying, Destroying
<1>5. ASSUME NEW u \in Threads
      PROVE  SeenReady(u)'
  BY <1>5 DEF TypeOK, UnusedIsNone, RecordOwnsLabel, KeptUntilOver, Recorded,
         OwnerRecorded, Owns, StepReady, LockHeld, SeenReady, Stopping, Locked, Deploying, Destroying
<1> QED
  BY <1>1, <1>2, <1>3, <1>4, <1>5

\* The first turn under the lock in destroy(): DestroyPeek preserves the
\* invariant.
LEMMA DestroyPeekStep ==
  ASSUME IInv, NEW t \in Threads, DestroyPeek(t)
  PROVE  IInv'
<1> USE ProcessAssumption, NullAssumption DEF IInv, DestroyPeek, Goto, Verdict, Mode,
        Saved, RollBack, remote, disk, table, local
<1>1. TypeOK'
  BY DEF TypeOK, InstanceStates, RecordStates, Records, PCs, Locked, Deploying,
         Destroying, Modes, Verdicts, OwnerRecorded, Owns
<1>2. UnusedIsNone' /\ RecordOwnsLabel' /\ KeptUntilOver'
  BY DEF TypeOK, UnusedIsNone, RecordOwnsLabel, KeptUntilOver, Recorded,
         OwnerRecorded, Owns, StepReady, LockHeld, Locked, Deploying, Destroying
<1>3. ASSUME NEW u \in Threads
      PROVE  LockHeld(u)' /\ OwnerRecorded(u)' /\ StepReady(u)'
  BY <1>3 DEF TypeOK, UnusedIsNone, RecordOwnsLabel, KeptUntilOver, Recorded,
         OwnerRecorded, Owns, StepReady, LockHeld, Locked, Deploying, Destroying
<1>4. ASSUME NEW u \in Threads
      PROVE  ConfirmedReady(u)'
  BY <1>4 DEF TypeOK, UnusedIsNone, RecordOwnsLabel, KeptUntilOver, Recorded,
         OwnerRecorded, Owns, StepReady, LockHeld, ConfirmedReady, Locked, Deploying, Destroying
<1>5. ASSUME NEW u \in Threads
      PROVE  SeenReady(u)'
  <2>1. CASE u = t /\ record[nm[t]] = NoRecord /\ seen[t] # NoLabel
    <3>1. pc[t] = "peek" /\ nm[t] \in Names /\ seen[t] \in Labels
      BY <2>1 DEF StepReady, TypeOK
    <3>2. rented[seen[t]] = nm[t]
      BY <2>1, <3>1 DEF SeenReady, Stopping
    <3>3. inst[seen[t]] \in {"refused", "gone"}
      BY <2>1, <3>1, <3>2 DEF KeptUntilOver, Recorded
    <3> QED
      BY <2>1, <3>1, <3>3 DEF TypeOK, SeenReady, Stopping, Destroying
  <2>2. CASE u = t /\ record[nm[t]] # NoRecord
    BY <2>2 DEF TypeOK, SeenReady, Stopping, Destroying, StepReady
  <2>3. CASE u # t
    BY <2>3 DEF TypeOK, SeenReady, Stopping, Destroying
  <2> QED
    BY <2>1, <2>2, <2>3 DEF SeenReady
<1> QED
  BY <1>1, <1>2, <1>3, <1>4, <1>5

\* The unlocked match of destroy(): DestroyMatch preserves the invariant.
LEMMA DestroyMatchStep ==
  ASSUME IInv, NEW t \in Threads, DestroyMatch(t)
  PROVE  IInv'
<1> USE ProcessAssumption, NullAssumption DEF IInv, DestroyMatch, Matches, Goto, Verdict, Mode,
        Saved, RollBack, remote, disk, table, local
<1>1. TypeOK'
  BY DEF TypeOK, InstanceStates, RecordStates, Records, PCs, Locked, Deploying,
         Destroying, Modes, Verdicts, OwnerRecorded, Owns
<1>2. UnusedIsNone' /\ RecordOwnsLabel' /\ KeptUntilOver'
  BY DEF TypeOK, UnusedIsNone, RecordOwnsLabel, KeptUntilOver, Recorded,
         OwnerRecorded, Owns, StepReady, LockHeld, Locked, Deploying, Destroying
<1>3. ASSUME NEW u \in Threads
      PROVE  LockHeld(u)' /\ OwnerRecorded(u)' /\ StepReady(u)'
  BY <1>3 DEF TypeOK, UnusedIsNone, RecordOwnsLabel, KeptUntilOver, Recorded,
         OwnerRecorded, Owns, StepReady, LockHeld, Locked, Deploying, Destroying
<1>4. ASSUME NEW u \in Threads
      PROVE  ConfirmedReady(u)'
  BY <1>4 DEF TypeOK, UnusedIsNone, RecordOwnsLabel, KeptUntilOver, Recorded,
         OwnerRecorded, Owns, StepReady, LockHeld, ConfirmedReady, Locked, Deploying, Destroying
<1>5. ASSUME NEW u \in Threads
      PROVE  SeenReady(u)'
  BY <1>5 DEF TypeOK, UnusedIsNone, RecordOwnsLabel, KeptUntilOver, Recorded,
         OwnerRecorded, Owns, StepReady, LockHeld, SeenReady, Stopping, Locked, Deploying, Destroying
<1> QED
  BY <1>1, <1>2, <1>3, <1>4, <1>5

\* The second turn under the lock in destroy(): DestroyLock preserves the
\* invariant.
LEMMA DestroyLockStep ==
  ASSUME IInv, NEW t \in Threads, DestroyLock(t)
  PROVE  IInv'
<1> USE ProcessAssumption, NullAssumption DEF IInv, DestroyLock, Goto, Verdict, Mode,
        Saved, RollBack, remote, disk, table, local
<1>0. record[nm[t]] # NoRecord =>
        /\ record[nm[t]].label \in Labels /\ record[nm[t]].known \in BOOLEAN
        /\ Recorded(record[nm[t]].label, nm[t])
  BY DEF TypeOK, StepReady, Records, Recorded
<1>1. TypeOK'
  BY <1>0 DEF TypeOK, PCs, Locked, Destroying, Verdicts, StepReady
<1>2. UnusedIsNone' /\ RecordOwnsLabel' /\ KeptUntilOver'
  BY DEF TypeOK, UnusedIsNone, RecordOwnsLabel, KeptUntilOver, Recorded,
         OwnerRecorded, Owns, StepReady, LockHeld, Locked, Deploying, Destroying
<1>3. ASSUME NEW u \in Threads
      PROVE  LockHeld(u)' /\ OwnerRecorded(u)' /\ StepReady(u)'
  <2>1. CASE u = t
    BY <1>0, <2>1 DEF TypeOK, LockHeld, OwnerRecorded, Owns, StepReady, Recorded,
       Locked, Deploying, Destroying
  <2>2. CASE u # t
    BY <1>0, <2>2 DEF TypeOK, LockHeld, OwnerRecorded, Owns, StepReady, Recorded,
       Locked, Deploying, Destroying
  <2> QED
    BY <2>1, <2>2
<1>4. ASSUME NEW u \in Threads
      PROVE  ConfirmedReady(u)'
  BY <1>4 DEF TypeOK, UnusedIsNone, RecordOwnsLabel, KeptUntilOver, Recorded,
         OwnerRecorded, Owns, StepReady, LockHeld, ConfirmedReady, Locked, Deploying, Destroying
<1>5. ASSUME NEW u \in Threads
      PROVE  SeenReady(u)'
  BY <1>5 DEF TypeOK, UnusedIsNone, RecordOwnsLabel, KeptUntilOver, Recorded,
         OwnerRecorded, Owns, StepReady, LockHeld, SeenReady, Stopping, Locked, Deploying, Destroying
<1> QED
  BY <1>1, <1>2, <1>3, <1>4, <1>5

\* A call of deploy(): Deploy preserves the invariant.
LEMMA DeployStep ==
  ASSUME IInv, NEW t \in Threads, NEW n \in Names, Deploy(t, n)
  PROVE  IInv'
<1> USE ProcessAssumption, NullAssumption DEF IInv, Deploy, Goto, Verdict, Mode,
        Saved, RollBack, remote, disk, table, local
<1>1. TypeOK'
  <2>1. <<ProcessOf[t], n>> \in Processes \X Names
    OBVIOUS
  <2>2. active' \subseteq (Processes \X Names) /\ cancelled' \subseteq active'
    BY <2>1 DEF TypeOK
  <2> QED
    BY <2>2 DEF TypeOK, PCs, Verdicts
<1>2. UnusedIsNone' /\ RecordOwnsLabel' /\ KeptUntilOver'
  BY DEF TypeOK, UnusedIsNone, RecordOwnsLabel, KeptUntilOver, Recorded,
         OwnerRecorded, Owns, StepReady, LockHeld, Locked, Deploying, Destroying
<1>3. ASSUME NEW u \in Threads
      PROVE  LockHeld(u)' /\ OwnerRecorded(u)' /\ StepReady(u)'
  BY <1>3 DEF TypeOK, UnusedIsNone, RecordOwnsLabel, KeptUntilOver, Recorded,
         OwnerRecorded, Owns, StepReady, LockHeld, Locked, Deploying, Destroying
<1>4. ASSUME NEW u \in Threads
      PROVE  ConfirmedReady(u)'
  BY <1>4 DEF TypeOK, UnusedIsNone, RecordOwnsLabel, KeptUntilOver, Recorded,
         OwnerRecorded, Owns, StepReady, LockHeld, ConfirmedReady, Locked, Deploying, Destroying
<1>5. ASSUME NEW u \in Threads
      PROVE  SeenReady(u)'
  BY <1>5 DEF TypeOK, UnusedIsNone, RecordOwnsLabel, KeptUntilOver, Recorded,
         OwnerRecorded, Owns, StepReady, LockHeld, SeenReady, Stopping, Locked, Deploying, Destroying
<1> QED
  BY <1>1, <1>2, <1>3, <1>4, <1>5

\* A call of destroy(): Destroy preserves the invariant.
LEMMA DestroyStep ==
  ASSUME IInv, NEW t \in Threads, NEW n \in Names \cup {NoName}, NEW l \in Labels \cup {NoLabel}, Destroy(t, n, l)
  PROVE  IInv'
<1> USE ProcessAssumption, NullAssumption DEF IInv, Destroy, Goto, Verdict, Mode,
        Saved, RollBack, remote, disk, table, local
<1>1. TypeOK'
  BY DEF TypeOK, InstanceStates, RecordStates, Records, PCs, Locked, Deploying,
         Destroying, Modes, Verdicts, OwnerRecorded, Owns
<1>2. UnusedIsNone' /\ RecordOwnsLabel' /\ KeptUntilOver'
  BY DEF TypeOK, UnusedIsNone, RecordOwnsLabel, KeptUntilOver, Recorded,
         OwnerRecorded, Owns, StepReady, LockHeld, Locked, Deploying, Destroying
<1>3. ASSUME NEW u \in Threads
      PROVE  LockHeld(u)' /\ OwnerRecorded(u)' /\ StepReady(u)'
  BY <1>3 DEF TypeOK, UnusedIsNone, RecordOwnsLabel, KeptUntilOver, Recorded,
         OwnerRecorded, Owns, StepReady, LockHeld, Locked, Deploying, Destroying
<1>4. ASSUME NEW u \in Threads
      PROVE  ConfirmedReady(u)'
  BY <1>4 DEF TypeOK, UnusedIsNone, RecordOwnsLabel, KeptUntilOver, Recorded,
         OwnerRecorded, Owns, StepReady, LockHeld, ConfirmedReady, Locked, Deploying, Destroying
<1>5. ASSUME NEW u \in Threads
      PROVE  SeenReady(u)'
  <2>1. CASE u = t
    <3>1. /\ nm'[t] = n /\ asked'[t] = l /\ verdict'[t] = "none"
          /\ pc'[t] = IF n = NoName THEN "match" ELSE "peek"
          /\ rented' = rented
          /\ seen'[t] = IF l # NoLabel THEN l
                        ELSE IF record[n] # NoRecord THEN record[n].label ELSE NoLabel
      BY DEF TypeOK
    <3>2. CASE l # NoLabel
      <4>1. rented[l] \in Names /\ n \in {rented[l], NoName}
        BY <3>2 DEF TypeOK, UnusedIsNone
      <4> QED
        BY <2>1, <3>1, <3>2, <4>1 DEF SeenReady, Stopping, Destroying
    <3>3. CASE l = NoLabel
      <4>1. n \in Names /\ n # NoName
        BY <3>3
      <4>2. record[n] # NoRecord => /\ record[n].label \in Labels
                                    /\ rented[record[n].label] = n
        BY <4>1 DEF TypeOK, Records, RecordOwnsLabel, Recorded
      <4> QED
        BY <2>1, <3>1, <3>3, <4>1, <4>2 DEF SeenReady, Stopping, Destroying
    <3> QED
      BY <3>2, <3>3
  <2>2. CASE u # t
    BY <2>2 DEF TypeOK, SeenReady, Stopping, Destroying
  <2> QED
    BY <2>1, <2>2
<1> QED
  BY <1>1, <1>2, <1>3, <1>4, <1>5

\* A step of the provider: Provider preserves the invariant.
LEMMA ProviderStep ==
  ASSUME IInv, NEW l \in Labels, Provider(l)
  PROVE  IInv'
<1> USE ProcessAssumption, NullAssumption DEF IInv, Provider, Fulfil, Refuse, Vanish, Goto, Verdict, Mode,
        Saved, RollBack, remote, disk, table, local
<1>1. TypeOK'
  BY DEF TypeOK, InstanceStates, RecordStates, Records, PCs, Locked, Deploying,
         Destroying, Modes, Verdicts, OwnerRecorded, Owns
<1>2. UnusedIsNone' /\ RecordOwnsLabel' /\ KeptUntilOver'
  BY DEF TypeOK, UnusedIsNone, RecordOwnsLabel, KeptUntilOver, Recorded,
         OwnerRecorded, Owns, StepReady, LockHeld, Locked, Deploying, Destroying
<1>3. ASSUME NEW u \in Threads
      PROVE  LockHeld(u)' /\ OwnerRecorded(u)' /\ StepReady(u)'
  BY <1>3 DEF TypeOK, UnusedIsNone, RecordOwnsLabel, KeptUntilOver, Recorded,
         OwnerRecorded, Owns, StepReady, LockHeld, Locked, Deploying, Destroying
<1>4. ASSUME NEW u \in Threads
      PROVE  ConfirmedReady(u)'
  BY <1>4 DEF TypeOK, UnusedIsNone, RecordOwnsLabel, KeptUntilOver, Recorded,
         OwnerRecorded, Owns, StepReady, LockHeld, ConfirmedReady, Locked, Deploying, Destroying
<1>5. ASSUME NEW u \in Threads
      PROVE  SeenReady(u)'
  BY <1>5 DEF TypeOK, UnusedIsNone, RecordOwnsLabel, KeptUntilOver, Recorded,
         OwnerRecorded, Owns, StepReady, LockHeld, SeenReady, Stopping, Locked, Deploying, Destroying
<1> QED
  BY <1>1, <1>2, <1>3, <1>4, <1>5

\* A shutdown request: BeginShutdown preserves the invariant.
LEMMA BeginShutdownStep ==
  ASSUME IInv, NEW p \in Processes, BeginShutdown(p)
  PROVE  IInv'
<1> USE ProcessAssumption, NullAssumption DEF IInv, BeginShutdown, Goto, Verdict, Mode,
        Saved, RollBack, remote, disk, table, local
<1>1. TypeOK'
  BY DEF TypeOK, InstanceStates, RecordStates, Records, PCs, Locked, Deploying,
         Destroying, Modes, Verdicts, OwnerRecorded, Owns
<1>2. UnusedIsNone' /\ RecordOwnsLabel' /\ KeptUntilOver'
  BY DEF TypeOK, UnusedIsNone, RecordOwnsLabel, KeptUntilOver, Recorded,
         OwnerRecorded, Owns, StepReady, LockHeld, Locked, Deploying, Destroying
<1>3. ASSUME NEW u \in Threads
      PROVE  LockHeld(u)' /\ OwnerRecorded(u)' /\ StepReady(u)'
  BY <1>3 DEF TypeOK, UnusedIsNone, RecordOwnsLabel, KeptUntilOver, Recorded,
         OwnerRecorded, Owns, StepReady, LockHeld, Locked, Deploying, Destroying
<1>4. ASSUME NEW u \in Threads
      PROVE  ConfirmedReady(u)'
  BY <1>4 DEF TypeOK, UnusedIsNone, RecordOwnsLabel, KeptUntilOver, Recorded,
         OwnerRecorded, Owns, StepReady, LockHeld, ConfirmedReady, Locked, Deploying, Destroying
<1>5. ASSUME NEW u \in Threads
      PROVE  SeenReady(u)'
  BY <1>5 DEF TypeOK, UnusedIsNone, RecordOwnsLabel, KeptUntilOver, Recorded,
         OwnerRecorded, Owns, StepReady, LockHeld, SeenReady, Stopping, Locked, Deploying, Destroying
<1> QED
  BY <1>1, <1>2, <1>3, <1>4, <1>5

\* The death of a process: Crash preserves the invariant.
LEMMA CrashStep ==
  ASSUME IInv, NEW p \in Processes, Crash(p)
  PROVE  IInv'
<1> USE ProcessAssumption, NullAssumption DEF IInv, Crash, Goto, Verdict, Mode,
        Saved, RollBack, remote, disk, table, local
<1>1. TypeOK'
  BY DEF TypeOK, InstanceStates, RecordStates, Records, PCs, Locked, Deploying,
         Destroying, Modes, Verdicts, OwnerRecorded, Owns
<1>2. UnusedIsNone' /\ RecordOwnsLabel' /\ KeptUntilOver'
  BY DEF TypeOK, UnusedIsNone, RecordOwnsLabel, KeptUntilOver, Recorded,
         OwnerRecorded, Owns, StepReady, LockHeld, Locked, Deploying, Destroying
<1>3. ASSUME NEW u \in Threads
      PROVE  LockHeld(u)' /\ OwnerRecorded(u)' /\ StepReady(u)'
  BY <1>3 DEF TypeOK, UnusedIsNone, RecordOwnsLabel, KeptUntilOver, Recorded,
         OwnerRecorded, Owns, StepReady, LockHeld, Locked, Deploying, Destroying
<1>4. ASSUME NEW u \in Threads
      PROVE  ConfirmedReady(u)'
  BY <1>4 DEF TypeOK, UnusedIsNone, RecordOwnsLabel, KeptUntilOver, Recorded,
         OwnerRecorded, Owns, StepReady, LockHeld, ConfirmedReady, Locked, Deploying, Destroying
<1>5. ASSUME NEW u \in Threads
      PROVE  SeenReady(u)'
  BY <1>5 DEF TypeOK, UnusedIsNone, RecordOwnsLabel, KeptUntilOver, Recorded,
         OwnerRecorded, Owns, StepReady, LockHeld, SeenReady, Stopping, Locked, Deploying, Destroying
<1> QED
  BY <1>1, <1>2, <1>3, <1>4, <1>5

-----------------------------------------------------------------------------
\* The initial state satisfies the invariant.
LEMMA InvariantInit == Init => IInv
<1> SUFFICES ASSUME Init PROVE IInv
  OBVIOUS
<1> USE NullAssumption DEF Init
<1>1. TypeOK
  BY DEF TypeOK, InstanceStates, PCs, Modes, Verdicts
<1>2. UnusedIsNone /\ RecordOwnsLabel /\ KeptUntilOver
  BY DEF UnusedIsNone, RecordOwnsLabel, KeptUntilOver, Recorded
<1>3. ASSUME NEW t \in Threads
      PROVE  /\ LockHeld(t) /\ OwnerRecorded(t) /\ StepReady(t)
             /\ ConfirmedReady(t) /\ SeenReady(t)
  BY <1>3 DEF LockHeld, OwnerRecorded, Owns, StepReady, ConfirmedReady, SeenReady,
     Locked, Deploying, Destroying
<1> QED
  BY <1>1, <1>2, <1>3 DEF IInv

\* Every step of the system, and every stutter, preserves it.
LEMMA InvariantStep == IInv /\ [Next]_vars => IInv'
<1> SUFFICES ASSUME IInv, [Next]_vars PROVE IInv'
  OBVIOUS
<1>1. CASE UNCHANGED vars
  BY <1>1 DEF vars, IInv, TypeOK, UnusedIsNone, RecordOwnsLabel, KeptUntilOver,
     Recorded, LockHeld, OwnerRecorded, Owns, StepReady, ConfirmedReady, SeenReady,
     Stopping
<1>2. ASSUME NEW l \in Labels, Provider(l) PROVE IInv'
  BY <1>2, ProviderStep
<1>3. ASSUME NEW t \in Threads, Calling(t) PROVE IInv'
  BY <1>3, DeployStep, DestroyStep DEF Calling
<1>4. ASSUME NEW t \in Threads, Waiting(t) PROVE IInv'
  BY <1>4, DeployLockStep, DestroyPeekStep, DestroyLockStep DEF Waiting
<1>5. ASSUME NEW t \in Threads, Working(t) PROVE IInv'
  BY <1>5, DeployCheckStep, DeployIntendStep, DeploySendStep, DeployReplyStep,
     DeployWithdrawStep, DeploySaveIdStep, DeployAdvanceStep, DeployFinishStep,
     DeployReportStep, DeployUnlockStep, DeployUnregisterStep, DestroyFindStep,
     DestroyDeleteStep, DestroyPollStep, DestroyRemoveStep, DestroyMatchStep
     DEF Working
<1>6. ASSUME NEW t \in Threads, CloseStream(t) PROVE IInv'
  BY <1>6, CloseStreamStep
<1>7. ASSUME NEW p \in Processes, BeginShutdown(p) \/ Crash(p) PROVE IInv'
  BY <1>7, BeginShutdownStep, CrashStep
<1> QED
  BY <1>1, <1>2, <1>3, <1>4, <1>5, <1>6, <1>7 DEF Next

\* The invariant holds in every reachable state.
THEOREM Invariance == Spec => []IInv
<1>1. Init => IInv
  BY InvariantInit
<1>2. IInv /\ [Next]_vars => IInv'
  BY InvariantStep
<1> QED
  BY <1>1, <1>2, PTL DEF Spec

\* Type correctness.
THEOREM TypeCorrect == Spec => []TypeOK
<1>1. IInv => TypeOK
  BY DEF IInv
<1> QED
  BY <1>1, Invariance, PTL

\* No rental is ever orphaned: whatever may be billing is recorded on disk,
\* through crashes, lost replies and late fulfilment.
THEOREM RentalsRecorded == Spec => []EveryRentalRecorded
<1>1. IInv => EveryRentalRecorded
  BY DEF IInv, TypeOK, UnusedIsNone, KeptUntilOver, Recorded, EveryRentalRecorded,
     Billing
<1> QED
  BY <1>1, Invariance, PTL

\* A name never pays for two rentals at once.
THEOREM NoDoubleBilling == Spec => []OneRentalPerName
<1>1. IInv => OneRentalPerName
  BY DEF IInv, TypeOK, UnusedIsNone, KeptUntilOver, Recorded, OneRentalPerName,
     Billing
<1> QED
  BY <1>1, Invariance, PTL

\* The ladder may trust a confirmed rollback.
THEOREM ConfirmedIsTrue == Spec => []ConfirmedMeansOver
<1>1. IInv => ConfirmedMeansOver
  BY DEF IInv, ConfirmedReady, Recorded, ConfirmedMeansOver
<1> QED
  BY <1>1, Invariance, PTL

\* The user may trust a stop that returned.
THEOREM StoppedIsTrue == Spec => []StoppedMeansOver
<1>1. IInv => StoppedMeansOver
  BY DEF IInv, SeenReady, StoppedMeansOver, Billing
<1> QED
  BY <1>1, Invariance, PTL

-----------------------------------------------------------------------------
(* The ids of the records.                                                  *)

\* Two threads never deploy or destroy under one name at once.
LEMMA LockExcludes ==
  ASSUME IInv, NEW t \in Threads, NEW u \in Threads,
         pc[t] \in Locked, pc[u] \in Locked, nm[t] = nm[u]
  PROVE  t = u
  BY DEF IInv, LockHeld

\* Steps that write no record keep the ids, if the thread that moves is still ready.
LEMMA IdsKept ==
  ASSUME IInv, IdInv, UNCHANGED record, NEW t \in Threads,
         \A u \in Threads \ {t} : pc'[u] = pc[u] /\ nm'[u] = nm[u] /\ known'[u] = known[u],
         IdReady(t)'
  PROVE  IdInv'
  BY DEF IdInv, RunningKeepsItsId, IdReady

\* A record that its owner writes has its id, or is in creation; other threads work on
\* other names.
LEMMA OwnerWrites ==
  ASSUME IInv, IdInv, NEW t \in Threads, pc[t] \in Locked, NEW r,
         record' = [record EXCEPT ![nm[t]] = r],
         r = NoRecord \/ r.state = "creating" \/ r.known,
         \A u \in Threads \ {t} : pc'[u] = pc[u] /\ nm'[u] = nm[u] /\ known'[u] = known[u],
         IdReady(t)'
  PROVE  IdInv'
<1>1. nm[t] \in Names
  BY DEF IInv, LockHeld
<1>2. RunningKeepsItsId'
  <2> SUFFICES ASSUME NEW n \in Names, record'[n] # NoRecord,
                      record'[n].state # "creating"
               PROVE  record'[n].known
    BY DEF RunningKeepsItsId
  <2>1. CASE n = nm[t]
    BY <1>1, <2>1 DEF IInv, TypeOK
  <2>2. CASE n # nm[t]
    BY <1>1, <2>2 DEF IInv, TypeOK, IdInv, RunningKeepsItsId
  <2> QED
    BY <2>1, <2>2
<1>3. ASSUME NEW u \in Threads
      PROVE  IdReady(u)'
  <2>1. CASE u = t
    BY <2>1
  <2>2. CASE u # t /\ pc[u] \in {"send", "reply", "withdraw"}
    <3>1. nm[u] \in Names /\ nm[u] # nm[t]
      BY <2>2, LockExcludes DEF IInv, LockHeld, Locked, Deploying
    <3> QED
      BY <1>1, <2>2, <3>1 DEF IInv, TypeOK, IdInv, IdReady
  <2>3. CASE u # t /\ pc[u] \notin {"send", "reply", "withdraw"}
    BY <2>3 DEF IdInv, IdReady
  <2> QED
    BY <2>1, <2>2, <2>3
<1> QED
  BY <1>2, <1>3 DEF IdInv

\* Every step keeps the ids.
LEMMA IdStep == IInv /\ IdInv /\ [Next]_vars => IdInv'
<1> SUFFICES ASSUME IInv, IdInv, [Next]_vars PROVE IdInv'
  OBVIOUS
<1>1. CASE UNCHANGED vars
  BY <1>1 DEF vars, IdInv, RunningKeepsItsId, IdReady
<1>2. ASSUME NEW l \in Labels, Provider(l) PROVE IdInv'
  BY <1>2 DEF Provider, Fulfil, Refuse, Vanish, disk, local, IdInv,
     RunningKeepsItsId, IdReady
<1>3. ASSUME NEW p \in Processes, BeginShutdown(p) PROVE IdInv'
  BY <1>3 DEF BeginShutdown, disk, local, IdInv, RunningKeepsItsId, IdReady
<1>4. ASSUME NEW p \in Processes, Crash(p) PROVE IdInv'
  BY <1>4 DEF Crash, IdInv, RunningKeepsItsId, IdReady
<1>5. ASSUME NEW t \in Threads, NEW n \in Names, Deploy(t, n) PROVE IdInv'
  <2>1. pc'[t] \in {"idle", "dlock"}
    BY <1>5 DEF Deploy, Goto, IInv, TypeOK
  <2>2. IdReady(t)'
    BY <2>1 DEF IdReady
  <2>3. UNCHANGED record /\ \A u \in Threads \ {t} :
            pc'[u] = pc[u] /\ nm'[u] = nm[u] /\ known'[u] = known[u]
    BY <1>5 DEF Deploy, Goto, disk, IInv, TypeOK
  <2> QED
    BY <2>2, <2>3, IdsKept
<1>6. ASSUME NEW t \in Threads, NEW n \in Names \cup {NoName},
             NEW l \in Labels \cup {NoLabel}, Destroy(t, n, l)
      PROVE  IdInv'
  <2>1. pc'[t] \in {"match", "peek"}
    BY <1>6 DEF Destroy, Goto, IInv, TypeOK
  <2>2. IdReady(t)'
    BY <2>1 DEF IdReady
  <2>3. UNCHANGED record /\ \A u \in Threads \ {t} :
            pc'[u] = pc[u] /\ nm'[u] = nm[u] /\ known'[u] = known[u]
    BY <1>6 DEF Destroy, Goto, disk, IInv, TypeOK
  <2> QED
    BY <2>2, <2>3, IdsKept
<1>7. ASSUME NEW t \in Threads, DeployLock(t) PROVE IdInv'
  <2>1. IdReady(t)'
    BY <1>7 DEF DeployLock, Goto, disk, IdInv, IdReady, IInv, TypeOK
  <2>2. UNCHANGED record /\ \A u \in Threads \ {t} :
            pc'[u] = pc[u] /\ nm'[u] = nm[u] /\ known'[u] = known[u]
    BY <1>7 DEF DeployLock, Goto, disk, IInv, TypeOK
  <2> QED
    BY <2>1, <2>2, IdsKept
<1>8. ASSUME NEW t \in Threads, DeployCheck(t) PROVE IdInv'
  <2>1. IdReady(t)'
    BY <1>8 DEF DeployCheck, Goto, disk, IdInv, IdReady, IInv, TypeOK
  <2>2. UNCHANGED record /\ \A u \in Threads \ {t} :
            pc'[u] = pc[u] /\ nm'[u] = nm[u] /\ known'[u] = known[u]
    BY <1>8 DEF DeployCheck, Goto, disk, IInv, TypeOK
  <2> QED
    BY <2>1, <2>2, IdsKept
<1>9. ASSUME NEW t \in Threads, DeploySend(t) PROVE IdInv'
  <2>1. IdReady(t)'
    BY <1>9 DEF DeploySend, Goto, disk, IdInv, IdReady, IInv, TypeOK
  <2>2. UNCHANGED record /\ \A u \in Threads \ {t} :
            pc'[u] = pc[u] /\ nm'[u] = nm[u] /\ known'[u] = known[u]
    BY <1>9 DEF DeploySend, Goto, disk, IInv, TypeOK
  <2> QED
    BY <2>1, <2>2, IdsKept
<1>10. ASSUME NEW t \in Threads, DeployReply(t) PROVE IdInv'
  <2>1. IdReady(t)'
    BY <1>10 DEF DeployReply, Goto, disk, IdInv, IdReady, IInv, TypeOK
  <2>2. UNCHANGED record /\ \A u \in Threads \ {t} :
            pc'[u] = pc[u] /\ nm'[u] = nm[u] /\ known'[u] = known[u]
    BY <1>10 DEF DeployReply, Goto, disk, IInv, TypeOK
  <2> QED
    BY <2>1, <2>2, IdsKept
<1>11. ASSUME NEW t \in Threads, DeployAdvance(t) PROVE IdInv'
  <2>1. IdReady(t)'
    BY <1>11 DEF DeployAdvance, Goto, disk, IdInv, IdReady, IInv, TypeOK,
       RollBack, Mode
  <2>2. UNCHANGED record /\ \A u \in Threads \ {t} :
            pc'[u] = pc[u] /\ nm'[u] = nm[u] /\ known'[u] = known[u]
    BY <1>11 DEF DeployAdvance, Goto, disk, IInv, TypeOK, RollBack, Mode
  <2> QED
    BY <2>1, <2>2, IdsKept
<1>12. ASSUME NEW t \in Threads, DeployReport(t) PROVE IdInv'
  <2>1. IdReady(t)'
    BY <1>12 DEF DeployReport, Goto, disk, IdInv, IdReady, IInv, TypeOK
  <2>2. UNCHANGED record /\ \A u \in Threads \ {t} :
            pc'[u] = pc[u] /\ nm'[u] = nm[u] /\ known'[u] = known[u]
    BY <1>12 DEF DeployReport, Goto, disk, IInv, TypeOK
  <2> QED
    BY <2>1, <2>2, IdsKept
<1>13. ASSUME NEW t \in Threads, DeployUnlock(t) PROVE IdInv'
  <2>1. IdReady(t)'
    BY <1>13 DEF DeployUnlock, Goto, disk, IdInv, IdReady, IInv, TypeOK
  <2>2. UNCHANGED record /\ \A u \in Threads \ {t} :
            pc'[u] = pc[u] /\ nm'[u] = nm[u] /\ known'[u] = known[u]
    BY <1>13 DEF DeployUnlock, Goto, disk, IInv, TypeOK
  <2> QED
    BY <2>1, <2>2, IdsKept
<1>14. ASSUME NEW t \in Threads, DeployUnregister(t) PROVE IdInv'
  <2>1. IdReady(t)'
    BY <1>14 DEF DeployUnregister, Goto, disk, IdInv, IdReady, IInv, TypeOK
  <2>2. UNCHANGED record /\ \A u \in Threads \ {t} :
            pc'[u] = pc[u] /\ nm'[u] = nm[u] /\ known'[u] = known[u]
    BY <1>14 DEF DeployUnregister, Goto, disk, IInv, TypeOK
  <2> QED
    BY <2>1, <2>2, IdsKept
<1>15. ASSUME NEW t \in Threads, CloseStream(t) PROVE IdInv'
  <2>1. IdReady(t)'
    BY <1>15 DEF CloseStream, Goto, disk, IdInv, IdReady, IInv, TypeOK
  <2>2. UNCHANGED record /\ \A u \in Threads \ {t} :
            pc'[u] = pc[u] /\ nm'[u] = nm[u] /\ known'[u] = known[u]
    BY <1>15 DEF CloseStream, Goto, disk, IInv, TypeOK
  <2> QED
    BY <2>1, <2>2, IdsKept
<1>16. ASSUME NEW t \in Threads, DestroyDelete(t) PROVE IdInv'
  <2>1. IdReady(t)'
    BY <1>16 DEF DestroyDelete, Goto, disk, IdInv, IdReady, IInv, TypeOK,
       DestroyFailed
  <2>2. UNCHANGED record /\ \A u \in Threads \ {t} :
            pc'[u] = pc[u] /\ nm'[u] = nm[u] /\ known'[u] = known[u]
    BY <1>16 DEF DestroyDelete, Goto, disk, IInv, TypeOK, DestroyFailed
  <2> QED
    BY <2>1, <2>2, IdsKept
<1>17. ASSUME NEW t \in Threads, DestroyPoll(t) PROVE IdInv'
  <2>1. IdReady(t)'
    BY <1>17 DEF DestroyPoll, Goto, disk, IdInv, IdReady, IInv, TypeOK,
       DestroyFailed
  <2>2. UNCHANGED record /\ \A u \in Threads \ {t} :
            pc'[u] = pc[u] /\ nm'[u] = nm[u] /\ known'[u] = known[u]
    BY <1>17 DEF DestroyPoll, Goto, disk, IInv, TypeOK, DestroyFailed
  <2> QED
    BY <2>1, <2>2, IdsKept
<1>18. ASSUME NEW t \in Threads, DestroyPeek(t) PROVE IdInv'
  <2>1. IdReady(t)'
    BY <1>18 DEF DestroyPeek, Goto, disk, IdInv, IdReady, IInv, TypeOK
  <2>2. UNCHANGED record /\ \A u \in Threads \ {t} :
            pc'[u] = pc[u] /\ nm'[u] = nm[u] /\ known'[u] = known[u]
    BY <1>18 DEF DestroyPeek, Goto, disk, IInv, TypeOK
  <2> QED
    BY <2>1, <2>2, IdsKept
<1>19. ASSUME NEW t \in Threads, DestroyMatch(t) PROVE IdInv'
  <2>1. IdReady(t)'
    BY <1>19 DEF DestroyMatch, Goto, disk, IdInv, IdReady, IInv, TypeOK
  <2>2. UNCHANGED record /\ \A u \in Threads \ {t} :
            pc'[u] = pc[u] /\ nm'[u] = nm[u] /\ known'[u] = known[u]
    BY <1>19 DEF DestroyMatch, Goto, disk, IInv, TypeOK
  <2> QED
    BY <2>1, <2>2, IdsKept
<1>20. ASSUME NEW t \in Threads, DestroyLock(t) PROVE IdInv'
  <2>1. IdReady(t)'
    BY <1>20 DEF DestroyLock, Goto, disk, IdInv, IdReady, IInv, TypeOK
  <2>2. UNCHANGED record /\ \A u \in Threads \ {t} :
            pc'[u] = pc[u] /\ nm'[u] = nm[u] /\ known'[u] = known[u]
    BY <1>20 DEF DestroyLock, Goto, disk, IInv, TypeOK
  <2> QED
    BY <2>1, <2>2, IdsKept
<1>21. ASSUME NEW t \in Threads, DeployWithdraw(t) PROVE IdInv'
  <2> DEFINE r == NoRecord
  <2>1. record' = [record EXCEPT ![nm[t]] = r] /\ (r = NoRecord \/ r.state = "creating")
    BY <1>21 DEF DeployWithdraw, Saved
  <2>2. pc[t] \in Locked
    BY <1>21 DEF DeployWithdraw, Locked, Deploying, Destroying
  <2>3. IdReady(t)'
    BY <1>21 DEF DeployWithdraw, Goto, IdInv, IdReady, IInv, TypeOK
  <2>4. \A u \in Threads \ {t} :
            pc'[u] = pc[u] /\ nm'[u] = nm[u] /\ known'[u] = known[u]
    BY <1>21 DEF DeployWithdraw, Goto, IInv, TypeOK
  <2> HIDE DEF r
  <2> QED
    BY <2>1, <2>2, <2>3, <2>4, OwnerWrites
<1>22. ASSUME NEW t \in Threads, DeploySaveId(t) PROVE IdInv'
  <2> DEFINE r == Saved(t, "creating")
  <2>1. record' = [record EXCEPT ![nm[t]] = r] /\ (r = NoRecord \/ r.state = "creating")
    BY <1>22 DEF DeploySaveId, Saved
  <2>2. pc[t] \in Locked
    BY <1>22 DEF DeploySaveId, Locked, Deploying, Destroying
  <2>3. IdReady(t)'
    BY <1>22 DEF DeploySaveId, Goto, IdInv, IdReady, IInv, TypeOK
  <2>4. \A u \in Threads \ {t} :
            pc'[u] = pc[u] /\ nm'[u] = nm[u] /\ known'[u] = known[u]
    BY <1>22 DEF DeploySaveId, Goto, IInv, TypeOK
  <2> HIDE DEF r
  <2> QED
    BY <2>1, <2>2, <2>3, <2>4, OwnerWrites
<1>23. ASSUME NEW t \in Threads, DestroyRemove(t) PROVE IdInv'
  <2> DEFINE r == NoRecord
  <2>1. record' = [record EXCEPT ![nm[t]] = r] /\ (r = NoRecord \/ r.state = "creating")
    BY <1>23 DEF DestroyRemove, Saved
  <2>2. pc[t] \in Locked
    BY <1>23 DEF DestroyRemove, Locked, Deploying, Destroying
  <2>3. IdReady(t)'
    BY <1>23 DEF DestroyRemove, Goto, IdInv, IdReady, IInv, TypeOK
  <2>4. \A u \in Threads \ {t} :
            pc'[u] = pc[u] /\ nm'[u] = nm[u] /\ known'[u] = known[u]
    BY <1>23 DEF DestroyRemove, Goto, IInv, TypeOK
  <2> HIDE DEF r
  <2> QED
    BY <2>1, <2>2, <2>3, <2>4, OwnerWrites
<1>24. ASSUME NEW t \in Threads, DeployIntend(t) PROVE IdInv'
  <2>1. pc[t] \in Locked
    BY <1>24 DEF DeployIntend, Locked, Deploying, Destroying
  <2>2. \A u \in Threads \ {t} :
            pc'[u] = pc[u] /\ nm'[u] = nm[u] /\ known'[u] = known[u]
    BY <1>24 DEF DeployIntend, Goto, IInv, TypeOK
  <2>3. CASE pc' = [pc EXCEPT ![t] = "report"]
    <3>1. IdReady(t)'
      BY <1>24, <2>3 DEF DeployIntend, Goto, IdInv, IdReady, IInv, TypeOK
    <3>2. UNCHANGED record
      BY <1>24, <2>3 DEF DeployIntend, Goto, IInv, TypeOK
    <3> QED
      BY <2>2, <3>1, <3>2, IdsKept
  <2>5. CASE ~ pc' = [pc EXCEPT ![t] = "report"]
    <3>1. PICK l \in Labels :
              /\ record' = [record EXCEPT ![nm[t]] =
                    [label |-> l, known |-> FALSE, state |-> "creating"]]
              /\ pc' = [pc EXCEPT ![t] = "send"]
      BY <1>24, <2>5 DEF DeployIntend, Goto
    <3> DEFINE r == [label |-> l, known |-> FALSE, state |-> "creating"]
    <3>2. r.state = "creating" /\ ~ r.known
      OBVIOUS
    <3>3. record'[nm[t]] = r /\ nm'[t] = nm[t] /\ pc'[t] = "send"
      BY <1>24, <2>1, <3>1 DEF DeployIntend, LockHeld, IInv, TypeOK
    <3>4. IdReady(t)'
      BY <3>2, <3>3 DEF IdReady
    <3> HIDE DEF r
    <3> QED
      BY <2>1, <2>2, <3>1, <3>2, <3>4, OwnerWrites
  <2> QED
    BY <2>3, <2>5
<1>25. ASSUME NEW t \in Threads, DeployFinish(t) PROVE IdInv'
  <2>1. pc[t] \in Locked
    BY <1>25 DEF DeployFinish, Locked, Deploying, Destroying
  <2>2. \A u \in Threads \ {t} :
            pc'[u] = pc[u] /\ nm'[u] = nm[u] /\ known'[u] = known[u]
    BY <1>25 DEF DeployFinish, Goto, RollBack, IInv, TypeOK
  <2>3. CASE UNCHANGED <<record, verdict>>
    <3>1. IdReady(t)'
      BY <1>25, <2>3 DEF DeployFinish, Goto, RollBack, IdInv, IdReady, IInv,
         TypeOK
    <3>2. UNCHANGED record
      BY <1>25, <2>3 DEF DeployFinish, Goto, RollBack, IInv, TypeOK
    <3> QED
      BY <2>2, <3>1, <3>2, IdsKept
  <2>5. CASE ~ UNCHANGED <<record, verdict>>
    <3> DEFINE r == Saved(t, "running")
    <3>1. record' = [record EXCEPT ![nm[t]] = r] /\ pc' = [pc EXCEPT ![t] = "leave"]
      BY <1>25, <2>5 DEF DeployFinish, Goto
    <3>2. r.known
      BY <1>25 DEF DeployFinish, Saved, IdInv, IdReady
    <3>4. IdReady(t)'
      BY <3>1 DEF IdReady, IInv, TypeOK
    <3> HIDE DEF r
    <3> QED
      BY <2>1, <2>2, <3>1, <3>2, <3>4, OwnerWrites
  <2> QED
    BY <2>3, <2>5
<1>26. ASSUME NEW t \in Threads, DestroyFind(t) PROVE IdInv'
  <2>1. pc[t] \in Locked
    BY <1>26 DEF DestroyFind, Locked, Deploying, Destroying
  <2>2. \A u \in Threads \ {t} :
            pc'[u] = pc[u] /\ nm'[u] = nm[u] /\ known'[u] = known[u]
    BY <1>26 DEF DestroyFind, Goto, DestroyFailed, IInv, TypeOK
  <2>3. CASE UNCHANGED <<record, known>>
    <3>1. IdReady(t)'
      BY <1>26, <2>3 DEF DestroyFind, Goto, DestroyFailed, IdInv, IdReady,
         IInv, TypeOK
    <3>2. UNCHANGED record
      BY <1>26, <2>3 DEF DestroyFind, Goto, DestroyFailed, IInv, TypeOK
    <3> QED
      BY <2>2, <3>1, <3>2, IdsKept
  <2>5. CASE ~ UNCHANGED <<record, known>>
    <3> DEFINE r == [label |-> lab[t], known |-> TRUE, state |-> "destroying"]
    <3>1. record' = [record EXCEPT ![nm[t]] = r] /\ pc' = [pc EXCEPT ![t] = "delete"]
      BY <1>26, <2>5 DEF DestroyFind, Goto, DestroyFailed
    <3>2. r.known
      OBVIOUS
    <3>4. IdReady(t)'
      BY <3>1 DEF IdReady, IInv, TypeOK
    <3> HIDE DEF r
    <3> QED
      BY <2>1, <2>2, <3>1, <3>2, <3>4, OwnerWrites
  <2> QED
    BY <2>3, <2>5
<1> QED
  BY <1>1, <1>2, <1>3, <1>4, <1>5, <1>6, <1>7, <1>8, <1>9, <1>10, <1>11,
     <1>12, <1>13, <1>14, <1>15, <1>16, <1>17, <1>18, <1>19, <1>20, <1>21,
     <1>22, <1>23, <1>24, <1>25, <1>26 DEF Next, Calling, Waiting, Working

\* The ids are kept in every reachable state.
THEOREM IdsInvariance == Spec => []IdInv
<1>1. Init => IdInv
  BY DEF Init, IdInv, RunningKeepsItsId, IdReady
<1>2. IInv /\ IdInv /\ [Next]_vars => IdInv'
  BY IdStep
<1> QED
  BY <1>1, <1>2, Invariance, PTL DEF Spec

\* A record that says "running" or "destroying" has the id that a stop needs.
THEOREM IdIsThere == Spec => []RunningKeepsItsId
<1>1. IdInv => RunningKeepsItsId
  BY DEF IdInv
<1> QED
  BY <1>1, IdsInvariance, PTL

\* A record's id stays, step by step, until its rental is over.
LEMMA IdStaysStep ==
  ASSUME IInv, IdInv, [Next]_vars, NEW n \in Names,
         record[n] # NoRecord, record[n].known, record'[n] # record[n]
  PROVE  \/ record'[n] = NoRecord /\ inst[record[n].label] = "gone"
         \/ /\ record'[n] # NoRecord
            /\ record'[n].label = record[n].label
            /\ record'[n].known
<1> DEFINE Writes(t) == \/ DeployIntend(t) \/ DeployWithdraw(t) \/ DeploySaveId(t)
                        \/ DeployFinish(t) \/ DestroyFind(t) \/ DestroyRemove(t)
<1>1. PICK t \in Threads : Writes(t)
  <2>1. CASE UNCHANGED vars
    BY <2>1 DEF vars
  <2>2. ASSUME NEW l \in Labels, Provider(l) PROVE FALSE
    BY <2>2 DEF Provider, Fulfil, Refuse, Vanish, disk
  <2>3. ASSUME NEW t \in Threads, Calling(t) PROVE FALSE
    BY <2>3 DEF Calling, Deploy, Destroy, disk
  <2>4. ASSUME NEW t \in Threads, Waiting(t) PROVE FALSE
    BY <2>4 DEF Waiting, DeployLock, DestroyPeek, DestroyLock, disk
  <2>5. ASSUME NEW t \in Threads, CloseStream(t) PROVE FALSE
    BY <2>5 DEF CloseStream, disk
  <2>6. ASSUME NEW t \in Threads, Working(t) PROVE Writes(t)
    <3>1. ~ (DeployCheck(t) \/ DeploySend(t) \/ DeployReply(t) \/ DeployAdvance(t))
      BY DEF DeployCheck, DeploySend, DeployReply, DeployAdvance, disk
    <3>2. ~ (DeployReport(t) \/ DeployUnlock(t) \/ DeployUnregister(t))
      BY DEF DeployReport, DeployUnlock, DeployUnregister, disk
    <3>3. ~ (DestroyDelete(t) \/ DestroyPoll(t) \/ DestroyMatch(t))
      BY DEF DestroyDelete, DestroyPoll, DestroyMatch, disk
    <3> QED
      BY <2>6, <3>1, <3>2, <3>3 DEF Working
  <2>7. ASSUME NEW p \in Processes, BeginShutdown(p) \/ Crash(p) PROVE FALSE
    BY <2>7 DEF BeginShutdown, Crash, disk
  <2> HIDE DEF Writes
  <2> QED
    BY <2>1, <2>2, <2>3, <2>4, <2>5, <2>6, <2>7 DEF Next
<1>2. pc[t] \in Locked /\ nm[t] \in Names
  BY <1>1 DEF DeployIntend, DeployWithdraw, DeploySaveId, DeployFinish,
     DestroyFind,
     DestroyRemove, Locked, Deploying, Destroying, IInv, LockHeld
<1>3. n = nm[t]
  BY <1>1, <1>2 DEF DeployIntend, DeployWithdraw, DeploySaveId, DeployFinish,
     DestroyFind, DestroyRemove, IInv, TypeOK
<1>4. CASE DeployIntend(t)
  BY <1>3, <1>4 DEF DeployIntend, IInv, StepReady
<1>5. CASE DeployWithdraw(t)
  BY <1>3, <1>5 DEF DeployWithdraw, IdInv, IdReady
<1>6. CASE DeploySaveId(t) \/ DeployFinish(t) \/ DestroyFind(t)
  <2>1. lab[t] \in Labels /\ record[n].label = lab[t]
    BY <1>3, <1>6 DEF DeploySaveId, DeployFinish, DestroyFind, IInv,
       OwnerRecorded,
       Owns, Recorded, Destroying
  <2>2. PICK k \in BOOLEAN, st \in RecordStates :
            k /\ record'[n] = [label |-> lab[t], known |-> k, state |-> st]
    <3>1. CASE DeploySaveId(t)
      <4>1. known[t] /\ known[t] \in BOOLEAN
        BY <3>1 DEF DeploySaveId, IdInv, IdReady, IInv, TypeOK
      <4>2. record'[n] = [label |-> lab[t], known |-> known[t], state |-> "creating"]
        BY <1>2, <1>3, <3>1 DEF DeploySaveId, Saved, IInv, TypeOK
      <4> QED
        BY <4>1, <4>2 DEF RecordStates
    <3>2. CASE DeployFinish(t)
      <4>1. known[t] /\ known[t] \in BOOLEAN
        BY <3>2 DEF DeployFinish, IdInv, IdReady, IInv, TypeOK
      <4>2. record'[n] = [label |-> lab[t], known |-> known[t], state |-> "running"]
        BY <1>2, <1>3, <3>2 DEF DeployFinish, Saved, IInv, TypeOK
      <4> QED
        BY <4>1, <4>2 DEF RecordStates
    <3>3. CASE DestroyFind(t)
      <4>1. record'[n] = [label |-> lab[t], known |-> TRUE, state |-> "destroying"]
        BY <1>2, <1>3, <3>3 DEF DestroyFind, IInv, TypeOK
      <4> QED
        BY <4>1 DEF RecordStates
    <3> QED
      BY <1>6, <3>1, <3>2, <3>3
  <2>3. record'[n] # NoRecord
    BY <2>1, <2>2, SavedIsRecord
  <2> QED
    BY <2>1, <2>2, <2>3
<1>7. CASE DestroyRemove(t)
  <2>1. record[n].label = lab[t] /\ inst[lab[t]] = "gone"
    BY <1>3, <1>7 DEF DestroyRemove, IInv, OwnerRecorded, StepReady, Owns,
       Recorded,
       Destroying
  <2>2. record'[n] = NoRecord
    BY <1>2, <1>3, <1>7 DEF DestroyRemove, IInv, TypeOK
  <2> QED
    BY <2>1, <2>2
<1> QED
  BY <1>1, <1>4, <1>5, <1>6, <1>7

\* A record's id, once on disk, is neither lost nor swapped before its rental is over.
THEOREM IdStays == Spec => IdNeverLost
<1>1. IInv /\ IdInv /\ [Next]_vars =>
         [\A n \in Names :
             (record[n] # NoRecord /\ record[n].known /\ record'[n] # record[n])
             => \/ record'[n] = NoRecord /\ inst[record[n].label] = "gone"
                \/ /\ record'[n] # NoRecord
                   /\ record'[n].label = record[n].label
                   /\ record'[n].known]_vars
  BY IdStaysStep
<1> QED
  BY <1>1, Invariance, IdsInvariance, PTL DEF Spec, IdNeverLost

-----------------------------------------------------------------------------
(* A stop by id.                                                           *)

\* Only the entry of a call touches what a destroy() was asked for.
LEMMA AskedStep == TypeOK /\ AskedIsSeen /\ [Next]_vars => AskedIsSeen'
<1> SUFFICES ASSUME TypeOK, AskedIsSeen, [Next]_vars PROVE AskedIsSeen'
  OBVIOUS
<1>1. CASE UNCHANGED <<asked, seen>>
  BY <1>1 DEF AskedIsSeen
<1>2. ASSUME NEW t \in Threads, NEW n \in Names, Deploy(t, n)
      PROVE  AskedIsSeen'
  BY <1>2 DEF Deploy, AskedIsSeen, TypeOK
<1>3. ASSUME NEW t \in Threads, NEW n \in Names \cup {NoName},
             NEW l \in Labels \cup {NoLabel}, Destroy(t, n, l)
      PROVE  AskedIsSeen'
  BY <1>3 DEF Destroy, AskedIsSeen, TypeOK
<1>4. ASSUME NEW t \in Threads, Waiting(t) \/ CloseStream(t)
      PROVE  UNCHANGED <<asked, seen>>
  BY <1>4 DEF Waiting, DeployLock, DestroyPeek, DestroyLock, CloseStream
<1>5. ASSUME NEW t \in Threads, Working(t)
      PROVE  UNCHANGED <<asked, seen>>
  BY <1>5 DEF Working, DeployCheck, DeployIntend, DeploySend, DeployReply,
     DeployWithdraw, DeploySaveId, DeployAdvance, DeployFinish, DeployReport,
     DeployUnlock, DeployUnregister, DestroyFind, DestroyDelete, DestroyPoll,
     DestroyRemove, DestroyMatch
<1>6. ASSUME NEW l \in Labels, Provider(l)
      PROVE  UNCHANGED <<asked, seen>>
  BY <1>6 DEF Provider, Fulfil, Refuse, Vanish, local
<1>7. ASSUME NEW p \in Processes, BeginShutdown(p) \/ Crash(p)
      PROVE  UNCHANGED <<asked, seen>>
  BY <1>7 DEF BeginShutdown, Crash, local
<1>8. CASE UNCHANGED vars
  BY <1>1, <1>8 DEF vars
<1> QED
  BY <1>1, <1>2, <1>3, <1>4, <1>5, <1>6, <1>7, <1>8 DEF Next, Calling

\* The record that a stop works on names the rental it deletes; one it was asked for
\* instead has no record any more, so that it is over.
LEMMA StopStep ==
  IInv /\ AskedIsSeen =>
      \A t \in Threads, l, a \in Labels :
          (pc[t] = "delete" /\ mode[t] = "stop" /\ asked[t] = a /\ lab[t] = l)
          => \/ l = a
             \/ rented[l] = rented[a] /\ inst[a] \in {"refused", "gone"}
<1> SUFFICES ASSUME IInv, AskedIsSeen, NEW t \in Threads,
                    NEW l \in Labels, NEW a \in Labels,
                    pc[t] = "delete", mode[t] = "stop", asked[t] = a, lab[t] = l,
                    l # a
             PROVE  rented[l] = rented[a] /\ inst[a] \in {"refused", "gone"}
  OBVIOUS
<1>1. Recorded(l, nm[t]) /\ nm[t] \in Names
  BY DEF IInv, OwnerRecorded, LockHeld, Owns, Locked, Destroying
<1>2. seen[t] = a /\ a # NoLabel
  BY NullAssumption DEF AskedIsSeen
<1>3. rented[a] = nm[t]
  BY <1>2 DEF IInv, SeenReady, Stopping, Destroying
<1>4. rented[l] = nm[t]
  BY <1>1 DEF IInv, RecordOwnsLabel
<1>5. ~ Recorded(a, rented[a])
  BY <1>1, <1>3 DEF Recorded
<1>6. inst[a] \in {"refused", "gone"}
  BY <1>1, <1>3, <1>5, NullAssumption DEF IInv, KeptUntilOver
<1> QED
  BY <1>3, <1>4, <1>6

\* A destroy() given an id may delete a later rental of the same name, and never one
\* of another name, nor while the rental it was asked for may still bill.
THEOREM StopKeepsName == Spec => StopKeepsToItsName
<1>1. Init => AskedIsSeen
  BY DEF Init, AskedIsSeen
<1>2. IInv => TypeOK
  BY DEF IInv
<1>3. IInv /\ AskedIsSeen =>
        [\A t \in Threads, l, a \in Labels :
            (/\ pc[t] = "delete" /\ mode[t] = "stop" /\ asked[t] = a
             /\ lab[t] = l /\ inst[l] = "live" /\ inst'[l] = "dying")
            => \/ l = a
               \/ rented[l] = rented[a] /\ inst[a] \in {"refused", "gone"}]_vars
  BY StopStep
<1> QED
  BY <1>1, <1>2, <1>3, AskedStep, Invariance, PTL DEF Spec, StopKeepsToItsName

-----------------------------------------------------------------------------
(* The refinement of RentalLedger.                                         *)

LedgerOf(n) == IF record[n] = NoRecord THEN NoLabel ELSE record[n].label

\* Steps that write no record and move no label to another stage stutter.
LEMMA LedgerStutter ==
  ASSUME \A n \in Names : LedgerOf(n)' = LedgerOf(n),
         \A l \in Labels : Stage(l)' = Stage(l)
  PROVE  UNCHANGED Ledger!lvars
  BY DEF Ledger!lvars, LedgerOf

\* A record that keeps its label leaves the ledger as it was.
LEMMA LedgerSame ==
  ASSUME TypeOK, NEW n \in Names, NEW r, r # NoRecord, record[n] # NoRecord,
         r.label = record[n].label, record' = [record EXCEPT ![n] = r],
         UNCHANGED remote
  PROVE  UNCHANGED Ledger!lvars
<1>1. \A m \in Names : LedgerOf(m)' = LedgerOf(m)
  BY DEF TypeOK, LedgerOf
<1>2. \A l \in Labels : Stage(l)' = Stage(l)
  BY DEF Stage, remote
<1> QED
  BY <1>1, <1>2, LedgerStutter

\* A step of the whole system is a step of the ledger or a stutter.
LEMMA LedgerStep == IInv /\ [Next]_vars => [Ledger!LedgerNext]_(Ledger!lvars)
<1> SUFFICES ASSUME IInv, [Next]_vars
             PROVE  [Ledger!LedgerNext]_(Ledger!lvars)
  OBVIOUS
<1>0. TypeOK
  BY DEF IInv
<1>1. CASE UNCHANGED <<inst, rented, record>>
  <2>1. \A n \in Names : LedgerOf(n)' = LedgerOf(n)
    BY <1>1 DEF LedgerOf
  <2>2. \A l \in Labels : Stage(l)' = Stage(l)
    BY <1>1 DEF Stage
  <2> QED
    BY <2>1, <2>2, LedgerStutter
<1>2. ASSUME NEW l \in Labels, Fulfil(l)
      PROVE  [Ledger!LedgerNext]_(Ledger!lvars)
  <2>1. \A n \in Names : LedgerOf(n)' = LedgerOf(n)
    BY <1>2 DEF Fulfil, disk, LedgerOf
  <2>2. \A m \in Labels : Stage(m)' = Stage(m)
    BY <1>0, <1>2 DEF Fulfil, Stage, Billing, TypeOK
  <2> QED
    BY <2>1, <2>2, LedgerStutter
<1>3. ASSUME NEW l \in Labels, Refuse(l) \/ Vanish(l)
      PROVE  [Ledger!LedgerNext]_(Ledger!lvars)
  <2>1. record' = record /\ rented' = rented
    BY <1>3 DEF Refuse, Vanish, disk
  <2>2. Stage(l) = "billing" /\ Stage(l)' = "over"
    BY <1>0, <1>3 DEF Refuse, Vanish, Stage, Billing, TypeOK
  <2>3. \A m \in Labels : m # l => Stage(m)' = Stage(m)
    BY <1>0, <1>3 DEF Refuse, Vanish, Stage, TypeOK
  <2>4. Ledger!Finish(l)
    BY <2>1, <2>2, <2>3 DEF Ledger!Finish
  <2> QED
    BY <2>4 DEF Ledger!LedgerNext
<1>4. ASSUME NEW t \in Threads, DeployIntend(t), ~ UNCHANGED <<inst, rented, record>>
      PROVE  [Ledger!LedgerNext]_(Ledger!lvars)
  <2>1. PICK l \in Labels :
            /\ rented[l] = NoName
            /\ rented' = [rented EXCEPT ![l] = nm[t]]
            /\ record' = [record EXCEPT ![nm[t]] =
                  [label |-> l, known |-> FALSE, state |-> "creating"]]
            /\ inst' = inst
    BY <1>4 DEF DeployIntend
  <2>2. nm[t] \in Names /\ record[nm[t]] = NoRecord /\ inst[l] = "none"
    BY <1>4, <2>1 DEF DeployIntend, IInv, LockHeld, StepReady, UnusedIsNone, Locked,
       Deploying
  <2>3. [label |-> l, known |-> FALSE, state |-> "creating"] # NoRecord
    BY SavedIsRecord DEF RecordStates
  <2>4. /\ LedgerOf(nm[t]) = NoLabel
        /\ \A n \in Names : LedgerOf(n)' = IF n = nm[t] THEN l ELSE LedgerOf(n)
    BY <1>0, <2>1, <2>2, <2>3 DEF LedgerOf, TypeOK
  <2>5. /\ Stage(l) = "free"
        /\ \A m \in Labels : Stage(m)' = IF m = l THEN "intended" ELSE Stage(m)
    <3>1. \A m \in Labels : rented'[m] = IF m = l THEN nm[t] ELSE rented[m]
      BY <1>0, <2>1 DEF TypeOK
    <3>2. \A m \in Labels : inst[m] \in InstanceStates
      BY <1>0 DEF TypeOK
    <3>3. inst' = inst /\ rented[l] = NoName /\ nm[t] # NoName /\ inst[l] = "none"
      BY <2>1, <2>2, NullAssumption
    <3>4. Stage(l) = "free" /\ Stage(l)' = "intended"
      BY <3>1, <3>3 DEF Stage, Billing
    <3>5. ASSUME NEW m \in Labels, m # l
          PROVE  Stage(m)' = Stage(m)
      BY <3>1, <3>3, <3>5 DEF Stage
    <3> QED
      BY <3>4, <3>5
  <2>6. Ledger!Intend(nm[t], l)
    BY <2>2, <2>4, <2>5 DEF Ledger!Intend, LedgerOf
  <2> QED
    BY <2>2, <2>6 DEF Ledger!LedgerNext
<1>5. ASSUME NEW t \in Threads, DeploySend(t)
      PROVE  [Ledger!LedgerNext]_(Ledger!lvars)
  <2>1. /\ nm[t] \in Names /\ lab[t] \in Labels /\ Recorded(lab[t], nm[t])
        /\ inst[lab[t]] = "none"
    BY <1>5 DEF DeploySend, IInv, LockHeld, OwnerRecorded, StepReady, Owns, Locked,
       Deploying
  <2>2. rented[lab[t]] = nm[t] /\ nm[t] # NoName
    BY <2>1, NullAssumption DEF IInv, RecordOwnsLabel
  <2>3. record' = record /\ LedgerOf(nm[t]) = lab[t]
    BY <1>5, <2>1 DEF DeploySend, disk, LedgerOf, Recorded
  <2>4. /\ Stage(lab[t]) = "intended"
        /\ \A m \in Labels :
              Stage(m)' = IF m = lab[t] THEN "billing" ELSE Stage(m)
    <3>1. /\ rented' = rented
          /\ \A m \in Labels :
                /\ inst'[m] = IF m = lab[t] THEN "pending" ELSE inst[m]
                /\ inst[m] \in InstanceStates
      BY <1>0, <1>5, <2>1 DEF DeploySend, TypeOK
    <3> QED
      BY <2>1, <2>2, <3>1 DEF Stage, Billing, InstanceStates
  <2>5. Ledger!Bill(lab[t])
    BY <2>1, <2>3, <2>4 DEF Ledger!Bill, Ledger!Recorded, LedgerOf
  <2> QED
    BY <2>1, <2>5 DEF Ledger!LedgerNext
<1>6. ASSUME NEW t \in Threads, DeployWithdraw(t) \/ DestroyRemove(t)
      PROVE  [Ledger!LedgerNext]_(Ledger!lvars)
  <2>1. /\ nm[t] \in Names /\ lab[t] \in Labels /\ Recorded(lab[t], nm[t])
        /\ inst[lab[t]] \in {"refused", "gone"}
    BY <1>6 DEF DeployWithdraw, DestroyRemove, IInv, LockHeld, OwnerRecorded,
       StepReady, Owns, Locked, Deploying, Destroying
  <2>2. record' = [record EXCEPT ![nm[t]] = NoRecord] /\ UNCHANGED remote
    BY <1>6 DEF DeployWithdraw, DestroyRemove
  <2>3. PICK n \in Names : n = nm[t]
    BY <2>1
  <2>4. /\ LedgerOf(n) = lab[t]
        /\ \A m \in Names : LedgerOf(m)' = IF m = n THEN NoLabel ELSE LedgerOf(m)
    BY <1>0, <2>1, <2>2, <2>3 DEF LedgerOf, Recorded, TypeOK
  <2>5. Stage(lab[t]) = "over" /\ \A l \in Labels : Stage(l)' = Stage(l)
    BY <2>1, <2>2 DEF Stage, Billing, remote
  <2>6. Ledger!Forget(n)
    BY <2>1, <2>4, <2>5, NullAssumption DEF Ledger!Forget, LedgerOf
  <2> QED
    BY <2>6 DEF Ledger!LedgerNext
<1>7. ASSUME NEW t \in Threads, ~ UNCHANGED record,
             DeploySaveId(t) \/ DeployFinish(t) \/ DestroyFind(t)
      PROVE  [Ledger!LedgerNext]_(Ledger!lvars)
  <2>1. nm[t] \in Names /\ lab[t] \in Labels /\ Recorded(lab[t], nm[t])
    BY <1>7 DEF DeploySaveId, DeployFinish, DestroyFind, IInv, LockHeld,
       OwnerRecorded, Owns, Locked, Deploying, Destroying
  <2>2. PICK k \in BOOLEAN, s \in RecordStates :
            record' = [record EXCEPT ![nm[t]] =
                          [label |-> lab[t], known |-> k, state |-> s]]
    BY <1>0, <1>7 DEF DeploySaveId, DeployFinish, DestroyFind, DestroyFailed, Saved,
       RecordStates, TypeOK
  <2>3. /\ [label |-> lab[t], known |-> k, state |-> s] # NoRecord
        /\ [label |-> lab[t], known |-> k, state |-> s].label = record[nm[t]].label
        /\ record[nm[t]] # NoRecord
    BY <2>1, SavedIsRecord DEF Recorded
  <2>4. UNCHANGED remote
    BY <1>7 DEF DeploySaveId, DeployFinish, DestroyFind
  <2> QED
    BY <1>0, <2>1, <2>2, <2>3, <2>4, LedgerSame
<1>8. ASSUME NEW t \in Threads, DestroyDelete(t)
      PROVE  [Ledger!LedgerNext]_(Ledger!lvars)
  <2>1. \A n \in Names : LedgerOf(n)' = LedgerOf(n)
    BY <1>8 DEF DestroyDelete, LedgerOf
  <2>2. \A l \in Labels : Stage(l)' = Stage(l)
    BY <1>0, <1>8 DEF DestroyDelete, Stage, Billing, TypeOK
  <2> QED
    BY <2>1, <2>2, LedgerStutter
<1>9. ASSUME NEW t \in Threads, Calling(t) \/ Waiting(t) \/ CloseStream(t)
      PROVE  UNCHANGED <<inst, rented, record>>
  BY <1>9 DEF Calling, Deploy, Destroy, Waiting, DeployLock, DestroyPeek, DestroyLock,
     CloseStream, remote, disk
<1>10. ASSUME NEW t \in Threads,
              \/ DeployCheck(t) \/ DeployReply(t) \/ DeployAdvance(t)
              \/ DeployReport(t) \/ DeployUnlock(t) \/ DeployUnregister(t)
              \/ DestroyPoll(t) \/ DestroyMatch(t)
       PROVE  UNCHANGED <<inst, rented, record>>
  BY <1>10 DEF DeployCheck, DeployReply, DeployAdvance, DeployReport, DeployUnlock,
     DeployUnregister, DestroyPoll, DestroyMatch, remote, disk
<1>11. ASSUME NEW t \in Threads, Working(t)
       PROVE  [Ledger!LedgerNext]_(Ledger!lvars)
  <2>1. CASE DeployFinish(t) \/ DeploySaveId(t) \/ DestroyFind(t)
    <3>1. UNCHANGED remote
      BY <2>1 DEF DeployFinish, DeploySaveId, DestroyFind
    <3> QED
      BY <1>1, <1>7, <2>1, <3>1 DEF remote
  <2> QED
    BY <1>1, <1>4, <1>5, <1>6, <1>8, <1>10, <1>11, <2>1 DEF Working
<1>12. ASSUME NEW p \in Processes, BeginShutdown(p) \/ Crash(p)
       PROVE  UNCHANGED <<inst, rented, record>>
  BY <1>12 DEF BeginShutdown, Crash, remote, disk
<1>13. CASE UNCHANGED vars
  BY <1>1, <1>13 DEF vars
<1> QED
  BY <1>1, <1>2, <1>3, <1>9, <1>11, <1>12, <1>13 DEF Next, Provider

\* The recovery records keep the promise of RentalLedger: intent before money,
\* and no record dropped before its rental is over.
THEOREM RefinesLedger == Spec => LedgerKept
<1>1. Init => Ledger!LedgerInit
  <2> SUFFICES ASSUME Init PROVE Ledger!LedgerInit
    OBVIOUS
  <2>1. \A l \in Labels : Stage(l) = "free"
    BY DEF Init, Stage, Billing
  <2> QED
    BY <2>1 DEF Init, Ledger!LedgerInit
<1>2. IInv /\ [Next]_vars => [Ledger!LedgerNext]_(Ledger!lvars)
  BY LedgerStep
<1> QED
  BY <1>1, <1>2, Invariance, PTL DEF Spec, LedgerKept, Ledger!LedgerSpec

-----------------------------------------------------------------------------
(* The part of EveryCallReturns that needs no fairness.                    *)

\* How many steps a call may still take at most.  A rollback comes back to the report
\* of the failure, which may try once more; a stop, and that last try, do not.
StepsLeft(t) ==
    LET late == mode[t] # "rollback" IN
    CASE pc[t] = "idle" -> 0
      [] pc[t] = "unregister" -> 1
      [] pc[t] = "leave" -> 2
      [] pc[t] = "remove" -> IF late THEN 3 ELSE 8
      [] pc[t] = "poll" -> IF late THEN 4 ELSE 9
      [] pc[t] = "delete" -> IF late THEN 5 ELSE 10
      [] pc[t] = "find" -> IF late THEN 6 ELSE 11
      [] pc[t] \in {"report", "slock"} -> 7
      [] pc[t] \in {"withdraw", "match"} -> 8
      [] pc[t] = "peek" -> 9
      [] pc[t] = "finish" -> 12
      [] pc[t] = "serve" -> 13
      [] pc[t] = "wait" -> 14
      [] pc[t] = "saveid" -> 15
      [] pc[t] = "reply" -> 16
      [] pc[t] = "send" -> 17
      [] pc[t] = "rent" -> 18
      [] pc[t] = "check" -> 19
      [] pc[t] = "dlock" -> 20

\* A destroy() that has not found its rental yet is a stop, not a part of deploy().
StopMode == \A t \in Threads :
    pc[t] \in {"peek", "match", "slock"} => mode[t] = "stop"

Acts(t) == Working(t) \/ Waiting(t) \/ CloseStream(t)

\* Every step of a call brings its end nearer, and no step of anybody else moves it away.
CallsRunDown == [][\A t \in Threads :
    /\ Acts(t) => StepsLeft(t)' < StepsLeft(t)
    /\ pc[t] # "idle" => StepsLeft(t)' <= StepsLeft(t)]_vars

\* There are at most twenty.
LEMMA StepsLeftBounded ==
    ASSUME TypeOK, NEW t \in Threads
    PROVE  StepsLeft(t) \in 0 .. 20
BY DEF TypeOK, PCs, Locked, Deploying, Destroying, StepsLeft

\* A step of a thread runs its own call down.
LEMMA ActsDown ==
    ASSUME TypeOK, StopMode, NEW t \in Threads, Acts(t)
    PROVE  StepsLeft(t)' < StepsLeft(t)
<1> USE DEF TypeOK, Goto, Mode, StepsLeft
<1>1. CASE \/ DeployLock(t) \/ DeployCheck(t) \/ DeployIntend(t)
           \/ DeploySend(t) \/ DeployReply(t)
  BY <1>1 DEF DeployLock, DeployCheck, DeployIntend, DeploySend, DeployReply
<1>2. CASE \/ DeployWithdraw(t) \/ DeploySaveId(t) \/ DeployAdvance(t)
           \/ DeployFinish(t)
  BY <1>2 DEF DeployWithdraw, DeploySaveId, DeployAdvance, DeployFinish, RollBack
<1>3. CASE \/ DeployReport(t) \/ CloseStream(t) \/ DeployUnlock(t)
           \/ DeployUnregister(t)
  BY <1>3 DEF DeployReport, CloseStream, DeployUnlock, DeployUnregister
<1>4. CASE \/ DestroyFind(t) \/ DestroyDelete(t) \/ DestroyPoll(t)
           \/ DestroyRemove(t)
  BY <1>4 DEF DestroyFind, DestroyDelete, DestroyPoll, DestroyRemove,
     DestroyFailed, Modes
<1>5. CASE DestroyPeek(t) \/ DestroyMatch(t) \/ DestroyLock(t)
  BY <1>5 DEF DestroyPeek, DestroyMatch, DestroyLock, StopMode
<1> QED
  BY <1>1, <1>2, <1>3, <1>4, <1>5 DEF Acts, Working, Waiting

\* A step of a thread leaves the calls of the others where they are.
LEMMA ActsAlone ==
    ASSUME TypeOK, NEW t \in Threads, Acts(t) \/ Calling(t),
           NEW u \in Threads, u # t
    PROVE  pc'[u] = pc[u] /\ mode'[u] = mode[u]
<1> USE DEF TypeOK, Goto, Mode
<1>1. CASE \/ DeployLock(t) \/ DeployCheck(t) \/ DeployIntend(t)
           \/ DeploySend(t) \/ DeployReply(t)
  BY <1>1 DEF DeployLock, DeployCheck, DeployIntend, DeploySend, DeployReply
<1>2. CASE \/ DeployWithdraw(t) \/ DeploySaveId(t) \/ DeployAdvance(t)
           \/ DeployFinish(t)
  BY <1>2 DEF DeployWithdraw, DeploySaveId, DeployAdvance, DeployFinish, RollBack
<1>3. CASE \/ DeployReport(t) \/ CloseStream(t) \/ DeployUnlock(t)
           \/ DeployUnregister(t)
  BY <1>3 DEF DeployReport, CloseStream, DeployUnlock, DeployUnregister
<1>4. CASE \/ DestroyFind(t) \/ DestroyDelete(t) \/ DestroyPoll(t)
           \/ DestroyRemove(t)
  BY <1>4 DEF DestroyFind, DestroyDelete, DestroyPoll, DestroyRemove,
     DestroyFailed
<1>5. CASE DestroyPeek(t) \/ DestroyMatch(t) \/ DestroyLock(t)
  BY <1>5 DEF DestroyPeek, DestroyMatch, DestroyLock
<1>6. CASE Calling(t)
  BY <1>6 DEF Calling, Deploy, Destroy
<1> QED
  BY <1>1, <1>2, <1>3, <1>4, <1>5, <1>6 DEF Acts, Working, Waiting

\* A step of a thread, and a call, leads to a stop only in the mode of a stop.
LEMMA ActsStopMode ==
    ASSUME TypeOK, StopMode, NEW t \in Threads, Acts(t) \/ Calling(t)
    PROVE  pc'[t] \in {"peek", "match", "slock"} => mode'[t] = "stop"
<1> USE DEF TypeOK, StopMode, Goto, Mode
<1>1. CASE \/ DeployLock(t) \/ DeployCheck(t) \/ DeployIntend(t)
           \/ DeploySend(t) \/ DeployReply(t)
  BY <1>1 DEF DeployLock, DeployCheck, DeployIntend, DeploySend, DeployReply
<1>2. CASE \/ DeployWithdraw(t) \/ DeploySaveId(t) \/ DeployAdvance(t)
           \/ DeployFinish(t)
  BY <1>2 DEF DeployWithdraw, DeploySaveId, DeployAdvance, DeployFinish, RollBack
<1>3. CASE \/ DeployReport(t) \/ CloseStream(t) \/ DeployUnlock(t)
           \/ DeployUnregister(t)
  BY <1>3 DEF DeployReport, CloseStream, DeployUnlock, DeployUnregister
<1>4. CASE \/ DestroyFind(t) \/ DestroyDelete(t) \/ DestroyPoll(t)
           \/ DestroyRemove(t)
  BY <1>4 DEF DestroyFind, DestroyDelete, DestroyPoll, DestroyRemove,
     DestroyFailed
<1>5. CASE DestroyPeek(t) \/ DestroyMatch(t) \/ DestroyLock(t)
  BY <1>5 DEF DestroyPeek, DestroyMatch, DestroyLock, table, disk, remote
<1>6. CASE Calling(t)
  BY <1>6 DEF Calling, Deploy, Destroy
<1> QED
  BY <1>1, <1>2, <1>3, <1>4, <1>5, <1>6 DEF Acts, Working, Waiting

\* Whoever looks for the rental to stop is a stop.
LEMMA StopModeStep == TypeOK /\ StopMode /\ [Next]_vars => StopMode'
<1> SUFFICES ASSUME TypeOK, StopMode, [Next]_vars, NEW t \in Threads,
                    pc'[t] \in {"peek", "match", "slock"}
             PROVE  mode'[t] = "stop"
  BY DEF StopMode
<1>1. ASSUME NEW u \in Threads, Acts(u) \/ Calling(u) PROVE mode'[t] = "stop"
  BY <1>1, ActsAlone, ActsStopMode DEF StopMode
<1>2. ASSUME NEW l \in Labels, Provider(l) PROVE mode'[t] = "stop"
  BY <1>2 DEF StopMode, Provider, Fulfil, Refuse, Vanish, local
<1>3. ASSUME NEW p \in Processes, BeginShutdown(p) \/ Crash(p)
      PROVE  mode'[t] = "stop"
  BY <1>3 DEF StopMode, BeginShutdown, Crash, local
<1>4. CASE UNCHANGED vars
  BY <1>4 DEF StopMode, vars, local
<1> QED
  BY <1>1, <1>2, <1>3, <1>4 DEF Next, Acts

\* Every call of deploy() and destroy() runs down: no loop of the code leads back, a
\* deployment takes at most twenty steps of its own, and what others do adds none.
THEOREM EveryCallRunsDown == Spec => CallsRunDown
<1> DEFINE Down(t) ==
      /\ Acts(t) => StepsLeft(t)' < StepsLeft(t)
      /\ pc[t] # "idle" => StepsLeft(t)' <= StepsLeft(t)
<1>1. TypeOK /\ TypeOK' /\ StopMode /\ [Next]_vars => [\A t \in Threads : Down(t)]_vars
  <2> SUFFICES ASSUME TypeOK, TypeOK', StopMode, Next, NEW t \in Threads
               PROVE  Down(t)
    OBVIOUS
  <2>1. StepsLeft(t) \in 0 .. 20 /\ StepsLeft(t)' \in 0 .. 20
    BY StepsLeftBounded DEF TypeOK, PCs, Locked, Deploying, Destroying, StepsLeft
  <2>2. Acts(t) => StepsLeft(t)' < StepsLeft(t)
    BY ActsDown
  <2>3. pc'[t] = pc[t] /\ mode'[t] = mode[t] => StepsLeft(t)' = StepsLeft(t)
    BY DEF StepsLeft
  <2>4. ASSUME NEW u \in Threads, Acts(u) \/ Calling(u), u # t
        PROVE  StepsLeft(t)' <= StepsLeft(t)
    BY <2>1, <2>3, <2>4, ActsAlone
  <2>5. ASSUME Acts(t) PROVE StepsLeft(t)' <= StepsLeft(t)
    BY <2>1, <2>2, <2>5
  <2>6. Calling(t) => pc[t] = "idle"
    BY DEF Calling, Deploy, Destroy
  <2>7. ASSUME NEW l \in Labels, Provider(l)
        PROVE  pc'[t] = pc[t] /\ mode'[t] = mode[t]
    BY <2>7 DEF Provider, Fulfil, Refuse, Vanish, local
  <2>8. ASSUME NEW p \in Processes, BeginShutdown(p)
        PROVE  pc'[t] = pc[t] /\ mode'[t] = mode[t]
    BY <2>8 DEF BeginShutdown, local
  <2>9. ASSUME NEW p \in Processes, Crash(p)
        PROVE  pc'[t] \in {pc[t], "idle"} /\ mode'[t] = mode[t]
    BY <2>9 DEF Crash
  <2>10. pc'[t] = "idle" => StepsLeft(t)' = 0
    BY DEF StepsLeft
  <2> QED
    BY <2>1, <2>2, <2>3, <2>4, <2>5, <2>6, <2>7, <2>8, <2>9, <2>10
       DEF Next, Acts
<1>2. Init => StopMode
  BY DEF Init, StopMode
<1>3. TypeOK /\ StopMode /\ [Next]_vars => StopMode'
  BY StopModeStep
<1> QED
  BY <1>1, <1>2, <1>3, TypeCorrect, PTL DEF Spec, CallsRunDown

=============================================================================
