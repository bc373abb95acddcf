--------------------------- MODULE LifecycleProofs ---------------------------
(***************************************************************************)
(* Proofs that Lifecycle keeps its safety properties for every set of      *)
(* approved ladders.  IInv is shown to be inductive, action by action.     *)
(***************************************************************************)
EXTENDS Integers, Lifecycle, TLAPS

\* A ladder is a nonempty sequence of placements.
LEMMA LadderFacts ==
    ASSUME TypeOK
    PROVE  /\ Len(ladder) \in Nat
           /\ DOMAIN ladder = Attempts
           /\ Attempts \subseteq Nat \ {0}
           /\ \A i \in Attempts : ladder[i] \in Placements
BY LaddersAssumption DEF TypeOK, Attempts

\* An outcome is recorded for this attempt alone, and only a failure that
\* allows it moves on to the next placement.
LEMMA ConcludeFacts ==
    ASSUME TypeOK,
           NEW d \in Dispositions, NEW c \in Cleanups, NEW r \in BOOLEAN,
           Conclude(d, c, r)
    PROVE  /\ outcome' \in [Attempts -> Outcomes \cup {NoOutcome}]
           /\ outcome'[at] = [disposition |-> d, cleanup |-> c]
           /\ outcome'[at] # NoOutcome
           /\ \A i \in Attempts : i # at => outcome'[i] = outcome[i]
           /\ at' \in Attempts
           /\ pc' \in {"top", "done"}
           /\ pc' = "done" => at' = at
           /\ pc' = "top" => at' = at + 1 /\ d = "failed" /\ r
<1>1. [disposition |-> d, cleanup |-> c] \in Outcomes
  BY DEF Outcomes
<1>2. at \in Attempts /\ Len(ladder) \in Nat
  BY LadderFacts DEF TypeOK
<1>3. at < Len(ladder) => at + 1 \in Attempts
  BY <1>2 DEF Attempts
<1> QED
  BY <1>1, <1>2, <1>3, OutcomeAssumption DEF TypeOK, Conclude, Place

\* In an initial state nothing is rented and nothing concluded.
LEMMA InvariantInit == Init => IInv
<1> SUFFICES ASSUME Init PROVE IInv
  OBVIOUS
<1>1. Len(ladder) \in Nat \ {0}
  BY LaddersAssumption DEF Init
<1>2. TypeOK
  <2>1. ladder \in Ladders /\ pc \in PCs /\ prior \in BOOLEAN /\ ident \in BOOLEAN
    BY DEF Init, PCs
  <2>2. at \in Attempts /\ cancelled \in 0 .. Len(ladder) /\ report \in Reports
    BY <1>1 DEF Init, Attempts, Reports
  <2>3. /\ held \in [Attempts -> BOOLEAN] /\ lost \in [Attempts -> BOOLEAN]
        /\ outcome \in [Attempts -> Outcomes \cup {NoOutcome}]
    BY DEF Init
  <2> QED
    BY <2>1, <2>2, <2>3 DEF TypeOK
<1>3. /\ LaterUntouched /\ EarlierReleased /\ AttemptReady /\ Nameable
      /\ OutcomeIsTrue /\ LeftoverIsNamed /\ CancelEndsLadder
  BY <1>1 DEF Init, Attempts, LaterUntouched, EarlierReleased, AttemptReady,
     Nameable, OutcomeIsTrue, LeftoverIsNamed, CancelEndsLadder, IsCancelled
<1> QED
  BY <1>2, <1>3 DEF IInv

\* The end of an attempt keeps the invariant when its outcome is true of the
\* rental, it goes on only with the rental over, and what stays can be named.
LEMMA ConcludedKeeps ==
    ASSUME IInv, TypeOK',
           NEW d \in Dispositions, NEW c \in Cleanups, NEW r \in BOOLEAN,
           Conclude(d, c, r),
           UNCHANGED <<ladder, lost, cancelled>>,
           held' = held \/ held' = [held EXCEPT ![at] = FALSE],
           d \in {"succeeded", "retained"} => held'[at],
           (d \notin {"succeeded", "retained"} /\ c \in {"confirmed", "nothing_to_clean"})
              => ~held'[at] \/ lost[at],
           d \notin {"succeeded", "retained"} => c # "retained",
           (d = "failed" /\ r) => ~held'[at] \/ lost[at],
           (held'[at] /\ ~lost[at]) => (Stoppable /\ ident' = ident)
    PROVE  IInv'
<1>1. /\ Attempts' = Attempts /\ \A i \in Attempts : i \in Nat
      /\ at \in Attempts /\ at \in Nat /\ cancelled \in Nat
  BY LadderFacts DEF IInv, TypeOK, Attempts
<1>2. \A i \in Attempts : i # at => held'[i] = held[i]
  BY <1>1 DEF IInv, TypeOK
<1>3. /\ outcome'[at] = [disposition |-> d, cleanup |-> c]
      /\ outcome'[at] # NoOutcome
      /\ \A i \in Attempts : i # at => outcome'[i] = outcome[i]
      /\ at' \in Attempts /\ pc' \in {"top", "done"}
      /\ pc' = "done" => at' = at
      /\ pc' = "top" => at' = at + 1 /\ d = "failed" /\ r
  BY ConcludeFacts DEF IInv
<1>4. LaterUntouched'
  <2>1. \A i \in Attempts : i > at' => i > at
    BY <1>1, <1>3
  <2> QED
    BY <1>1, <1>2, <1>3, <2>1 DEF IInv, LaterUntouched
<1>5. EarlierReleased'
  <2>1. CASE pc' = "done"
    BY <1>1, <1>2, <1>3, <2>1 DEF IInv, EarlierReleased
  <2>2. CASE pc' = "top"
    <3>1. ASSUME NEW i \in Attempts, i < at' PROVE i < at \/ i = at
      <4>1. at' = at + 1 /\ i \in Nat /\ at \in Nat
        BY <1>1, <1>3, <2>2
      <4> QED
        BY <3>1, <4>1
    <3> QED
      BY <1>1, <1>2, <1>3, <2>2, <3>1 DEF IInv, EarlierReleased
  <2> QED
    BY <1>3, <2>1, <2>2
<1>6. AttemptReady'
  <2>1. CASE pc' = "done"
    BY <1>3, <2>1 DEF AttemptReady
  <2>2. CASE pc' = "top"
    <3>1. at' > at /\ at' # at
      BY <1>1, <1>3, <2>2
    <3> QED
      BY <1>1, <1>2, <1>3, <2>2, <3>1 DEF IInv, LaterUntouched, AttemptReady
  <2> QED
    BY <1>3, <2>1, <2>2
<1>7. Nameable'
  <2>1. CASE pc' = "done"
    BY <1>3, <2>1 DEF Nameable, Stoppable, Provider, Place
  <2>2. CASE pc' = "top"
    BY <1>3, <1>6, <2>2 DEF AttemptReady, Nameable
  <2> QED
    BY <1>3, <2>1, <2>2
<1>8. OutcomeIsTrue'
  <2> SUFFICES ASSUME NEW i \in Attempts, outcome'[i] # NoOutcome
               PROVE  IF outcome'[i].disposition \in {"succeeded", "retained"}
                      THEN held'[i]
                      ELSE outcome'[i].cleanup \in {"confirmed", "nothing_to_clean"}
                             => ~held'[i] \/ lost[i]
    BY <1>1 DEF OutcomeIsTrue
  <2>1. CASE i = at
    BY <1>3, <2>1
  <2>2. CASE i # at
    BY <1>2, <1>3, <2>2 DEF IInv, OutcomeIsTrue
  <2> QED
    BY <2>1, <2>2
<1>9. LeftoverIsNamed'
  <2> SUFFICES ASSUME NEW i \in Attempts, pc' = "done", held'[i], ~lost[i]
               PROVE  /\ i = at'
                      /\ Stoppable'
                      /\ \/ outcome'[i].disposition \in {"succeeded", "retained"}
                         \/ outcome'[i].cleanup \in {"failed", "unknown"}
    BY <1>1, <1>3 DEF LeftoverIsNamed
  <2>1. i = at
    BY <1>1, <1>2, <1>4, <1>5, <1>3 DEF LaterUntouched, EarlierReleased
  <2>2. at' = at /\ Stoppable'
    BY <1>3, <1>7, <2>1 DEF Nameable
  <2> QED
    BY <1>3, <2>1, <2>2 DEF Dispositions, Cleanups
<1>10. CancelEndsLadder'
  BY <1>3 DEF CancelEndsLadder
<1> QED
  BY <1>4, <1>5, <1>6, <1>7, <1>8, <1>9, <1>10 DEF IInv

\* A step within an attempt touches no other attempt: what is left to show is
\* what the new point of the attempt knows.
LEMMA AdvanceKeeps ==
    ASSUME IInv, TypeOK',
           UNCHANGED <<ladder, at, outcome>>,
           pc # "done", pc' # "done",
           \A i \in Attempts : i # at => held'[i] = held[i] /\ lost'[i] = lost[i],
           AttemptReady', Nameable', CancelEndsLadder'
    PROVE  IInv'
<1>1. /\ Attempts' = Attempts /\ \A i \in Attempts : i \in Nat
      /\ at \in Attempts /\ at \in Nat /\ outcome[at] = NoOutcome
  BY LadderFacts DEF IInv, TypeOK, Attempts, AttemptReady
<1>2. LaterUntouched'
  <2>1. \A i \in Attempts : i > at => i # at
    BY <1>1
  <2> QED
    BY <1>1, <2>1 DEF IInv, LaterUntouched
<1>3. EarlierReleased'
  <2> SUFFICES ASSUME NEW i \in Attempts, i < at, held'[i] PROVE lost'[i]
    BY <1>1 DEF EarlierReleased
  <2>1. i # at
    BY <1>1
  <2>2. held[i] /\ lost'[i] = lost[i]
    BY <2>1
  <2> QED
    BY <2>2 DEF IInv, EarlierReleased
<1>4. OutcomeIsTrue'
  BY <1>1 DEF IInv, OutcomeIsTrue
<1>5. LeftoverIsNamed'
  BY <1>1, <1>2, <1>3 DEF LaterUntouched, EarlierReleased, Nameable, LeftoverIsNamed
<1> QED
  BY <1>2, <1>3, <1>4, <1>5 DEF IInv

\* The user cancels: only the cancellation is recorded.
LEMMA CancelKeeps == ASSUME IInv, Cancel PROVE IInv'
<1> USE DEF IInv, Cancel
<1>1. TypeOK'
  BY LadderFacts DEF TypeOK, PCs, Reports, Attempts
<1>2. AttemptReady'
  BY LadderFacts DEF TypeOK, AttemptReady
<1>3. Nameable'
  BY LadderFacts DEF TypeOK, AttemptReady, Nameable, Stoppable,
     Provider, Place
<1>4. CancelEndsLadder'
  BY LadderFacts DEF TypeOK, CancelEndsLadder, IsCancelled, Attempts
<1>5. \A i \in Attempts : i # at => held'[i] = held[i] /\ lost'[i] = lost[i]
  BY DEF TypeOK
<1> QED
  BY <1>1, <1>2, <1>3, <1>4, <1>5, AdvanceKeeps

\* A cancelled ladder ends before the next placement; otherwise it is requested.
LEMMA StartAttemptKeeps == ASSUME IInv, StartAttempt PROVE IInv'
<1> USE DEF IInv, StartAttempt
<1>1. TypeOK'
  BY LadderFacts, ConcludeFacts DEF TypeOK, Dispositions, Cleanups, PCs, Reports, Attempts
<1>2. ~held[at] /\ ~lost[at]
  BY DEF AttemptReady
<1>3. CASE Conclude("cancelled", "nothing_to_clean", FALSE)
  BY <1>1, <1>2, <1>3, ConcludedKeeps DEF Dispositions, Cleanups
<1>4. CASE ~IsCancelled /\ pc' = "request" /\ UNCHANGED <<at, outcome>>
  <2>1. AttemptReady' /\ Nameable'
    BY <1>2, <1>4 DEF AttemptReady, Nameable
  <2>2. CancelEndsLadder'
    BY <1>4 DEF CancelEndsLadder, IsCancelled
  <2> QED
    BY <1>1, <1>4, <2>1, <2>2, AdvanceKeeps
<1> QED
  BY <1>3, <1>4

\* A cancellation met at an event: what Vast may release is released.
LEMMA DeployEventKeeps == ASSUME IInv, DeployEvent PROVE IInv'
<1> USE DEF IInv, DeployEvent
<1>1. TypeOK'
  BY LadderFacts DEF TypeOK, Yielding, CloseStream, Hold, IsCancelled,
     PCs, Reports, Attempts
<1>2. AttemptReady'
  BY LadderFacts DEF TypeOK, AttemptReady, Yielding, CloseStream, Hold,
     IsCancelled, Provider, Place
<1>3. Nameable'
  BY LadderFacts DEF TypeOK, AttemptReady, Nameable, Stoppable,
     Yielding, CloseStream, Hold, IsCancelled, Provider, Place
<1>4. CancelEndsLadder'
  BY LadderFacts DEF TypeOK, CancelEndsLadder, IsCancelled, Attempts,
     Yielding
<1>5. \A i \in Attempts : i # at => held'[i] = held[i] /\ lost'[i] = lost[i]
  BY DEF TypeOK, Yielding, CloseStream, Hold, IsCancelled
<1> QED
  BY <1>1, <1>2, <1>3, <1>4, <1>5, AdvanceKeeps DEF Yielding

\* Nothing was created, so no report is false.
LEMMA DeployRefusedKeeps == ASSUME IInv, DeployRefused PROVE IInv'
<1> USE DEF IInv, DeployRefused
<1>1. TypeOK'
  BY LadderFacts DEF TypeOK, NameTaken, PCs, Reports, Attempts
<1>2. AttemptReady'
  BY LadderFacts DEF TypeOK, AttemptReady, NameTaken, Provider, Place
<1>3. Nameable'
  BY LadderFacts DEF TypeOK, AttemptReady, Nameable, Stoppable,
     NameTaken, Provider, Place
<1>4. CancelEndsLadder'
  BY LadderFacts DEF TypeOK, CancelEndsLadder, IsCancelled, Attempts,
     NameTaken
<1>5. \A i \in Attempts : i # at => held'[i] = held[i] /\ lost'[i] = lost[i]
  BY DEF TypeOK, NameTaken
<1> QED
  BY <1>1, <1>2, <1>3, <1>4, <1>5, AdvanceKeeps

\* The rental begins to bill.
LEMMA DeployAllocateKeeps == ASSUME IInv, DeployAllocate PROVE IInv'
<1> USE DEF IInv, DeployAllocate
<1>1. TypeOK'
  BY LadderFacts DEF TypeOK, Hold, PCs, Reports, Attempts
<1>2. AttemptReady'
  BY LadderFacts DEF TypeOK, AttemptReady, Hold, Provider, Place
<1>3. Nameable'
  BY LadderFacts DEF TypeOK, AttemptReady, Nameable, Stoppable, Hold,
     Provider, Place
<1>4. CancelEndsLadder'
  BY LadderFacts DEF TypeOK, CancelEndsLadder, IsCancelled, Attempts
<1>5. \A i \in Attempts : i # at => held'[i] = held[i] /\ lost'[i] = lost[i]
  BY DEF TypeOK, Hold
<1> QED
  BY <1>1, <1>2, <1>3, <1>4, <1>5, AdvanceKeeps

\* The lost creation bills and is marked lost.
LEMMA DeployLostKeeps == ASSUME IInv, DeployLost PROVE IInv'
<1> USE DEF IInv, DeployLost
<1>1. TypeOK'
  BY LadderFacts DEF TypeOK, Hold, PCs, Reports, Attempts
<1>2. AttemptReady'
  BY LadderFacts DEF TypeOK, AttemptReady, Hold, Provider, Place
<1>3. Nameable'
  BY LadderFacts DEF TypeOK, AttemptReady, Nameable, Stoppable, Hold,
     Provider, Place
<1>4. CancelEndsLadder'
  BY LadderFacts DEF TypeOK, CancelEndsLadder, IsCancelled, Attempts
<1>5. \A i \in Attempts : i # at => held'[i] = held[i] /\ lost'[i] = lost[i]
  BY DEF TypeOK, Hold
<1> QED
  BY <1>1, <1>2, <1>3, <1>4, <1>5, AdvanceKeeps

\* Announced rentals can be named.
LEMMA DeployAnnounceKeeps == ASSUME IInv, DeployAnnounce PROVE IInv'
<1> USE DEF IInv, DeployAnnounce
<1>1. TypeOK'
  BY LadderFacts DEF TypeOK, CloseStream, Hold, IsCancelled, PCs,
     Reports, Attempts
<1>2. AttemptReady'
  BY LadderFacts DEF TypeOK, AttemptReady, CloseStream, Hold,
     IsCancelled, Provider, Place
<1>3. Nameable'
  BY LadderFacts DEF TypeOK, AttemptReady, Nameable, Stoppable,
     CloseStream, Hold, IsCancelled, Provider, Place
<1>4. CancelEndsLadder'
  BY LadderFacts DEF TypeOK, CancelEndsLadder, IsCancelled, Attempts
<1>5. \A i \in Attempts : i # at => held'[i] = held[i] /\ lost'[i] = lost[i]
  BY DEF TypeOK, CloseStream, Hold, IsCancelled
<1> QED
  BY <1>1, <1>2, <1>3, <1>4, <1>5, AdvanceKeeps

\* A rollback is reported as confirmed only when it released the rental.
LEMMA DeployFailsKeeps == ASSUME IInv, DeployFails PROVE IInv'
<1> USE DEF IInv, DeployFails
<1>1. TypeOK'
  BY LadderFacts DEF TypeOK, MayRelease, Hold, PCs, Reports, Attempts
<1>2. AttemptReady'
  BY LadderFacts DEF TypeOK, AttemptReady, MayRelease, Hold, Provider,
     Place
<1>3. Nameable'
  BY LadderFacts DEF TypeOK, AttemptReady, Nameable, Stoppable,
     MayRelease, Hold, Provider, Place
<1>4. CancelEndsLadder'
  BY LadderFacts DEF TypeOK, CancelEndsLadder, IsCancelled, Attempts
<1>5. \A i \in Attempts : i # at => held'[i] = held[i] /\ lost'[i] = lost[i]
  BY DEF TypeOK, MayRelease, Hold
<1> QED
  BY <1>1, <1>2, <1>3, <1>4, <1>5, AdvanceKeeps

\* A completed deployment bills and can be named.
LEMMA DeployCompletesKeeps == ASSUME IInv, DeployCompletes PROVE IInv'
<1> USE DEF IInv, DeployCompletes
<1>1. TypeOK'
  BY LadderFacts DEF TypeOK, PCs, Reports, Attempts
<1>2. AttemptReady'
  BY LadderFacts DEF TypeOK, AttemptReady, Provider, Place
<1>3. Nameable'
  BY LadderFacts DEF TypeOK, AttemptReady, Nameable, Stoppable,
     Provider, Place
<1>4. CancelEndsLadder'
  BY LadderFacts DEF TypeOK, CancelEndsLadder, IsCancelled, Attempts
<1>5. \A i \in Attempts : i # at => held'[i] = held[i] /\ lost'[i] = lost[i]
  BY DEF TypeOK
<1> QED
  BY <1>1, <1>2, <1>3, <1>4, <1>5, AdvanceKeeps

\* The verdict lets the ladder go on only with nothing left to bill.
LEMMA DeployEndedKeeps == ASSUME IInv, DeployEnded PROVE IInv'
<1> USE DEF IInv, DeployEnded
<1>1. TypeOK'
  BY LadderFacts, ConcludeFacts DEF TypeOK, Dispositions, Cleanups, PCs, Attempts,
     CloseStream, Hold
<1>2. at \in Attempts /\ DOMAIN held = Attempts
  BY DEF TypeOK
<1>3. /\ held' = held \/ held' = [held EXCEPT ![at] = FALSE]
      /\ report = "success" => held' = held
      /\ held'[at] => held[at]
      /\ \A i \in Attempts : i # at => held'[i] = held[i]
  BY <1>2 DEF CloseStream, Hold
<1>4. CASE pc' \in {"cancel", "warmup", "publish"} /\ UNCHANGED <<at, outcome>>
           /\ (pc' # "cancel" => report = "success" /\ ~IsCancelled)
  <2>1. AttemptReady' /\ Nameable'
    BY <1>3, <1>4 DEF AttemptReady, Nameable, Stoppable, Provider, Place
  <2>2. CancelEndsLadder'
    BY <1>4 DEF CancelEndsLadder, IsCancelled
  <2> QED
    BY <1>1, <1>3, <1>4, <2>1, <2>2, AdvanceKeeps
<1>5. CASE report = "confirmed" /\ Conclude("failed", "confirmed", TRUE)
  BY <1>1, <1>3, <1>5, ConcludedKeeps DEF AttemptReady, Dispositions, Cleanups
<1>6. (held'[at] /\ ~lost[at]) => (Stoppable /\ ident' = ident)
  BY <1>3 DEF Nameable
<1>7. CASE Conclude("failed", "failed", FALSE)
  BY <1>1, <1>3, <1>6, <1>7, ConcludedKeeps DEF Dispositions, Cleanups
<1>8. CASE report = "none" /\ Conclude("failed", "nothing_to_clean", TRUE)
  BY <1>1, <1>3, <1>6, <1>8, ConcludedKeeps DEF AttemptReady, Dispositions, Cleanups
<1>9. CASE Conclude("failed", "unknown", FALSE)
  BY <1>1, <1>3, <1>6, <1>9, ConcludedKeeps DEF Dispositions, Cleanups
<1> QED
  BY <1>4, <1>5, <1>7, <1>8, <1>9

\* The warmup does not touch the rental.
LEMMA WarmupKeeps == ASSUME IInv, Warmup PROVE IInv'
<1> USE DEF IInv, Warmup
<1>1. TypeOK'
  BY LadderFacts DEF TypeOK, IsCancelled, PCs, Reports, Attempts
<1>2. AttemptReady'
  BY LadderFacts DEF TypeOK, AttemptReady, IsCancelled
<1>3. Nameable'
  BY LadderFacts DEF TypeOK, AttemptReady, Nameable, Stoppable,
     IsCancelled, Provider, Place
<1>4. CancelEndsLadder'
  BY LadderFacts DEF TypeOK, CancelEndsLadder, IsCancelled, Attempts
<1>5. \A i \in Attempts : i # at => held'[i] = held[i] /\ lost'[i] = lost[i]
  BY DEF TypeOK, IsCancelled
<1> QED
  BY <1>1, <1>2, <1>3, <1>4, <1>5, AdvanceKeeps

\* A success ends the ladder with its rental held.
LEMMA PublishKeeps == ASSUME IInv, Publish PROVE IInv'
<1> USE DEF IInv, Publish
<1>1. TypeOK'
  BY LadderFacts, ConcludeFacts DEF TypeOK, Dispositions, Cleanups, PCs, Attempts
<1>2. held[at] /\ ~lost[at] /\ Stoppable
  BY DEF AttemptReady, Nameable
<1> QED
  BY <1>1, <1>2, ConcludedKeeps DEF Dispositions, Cleanups

\* A cancellation ends the ladder; it is called clean only when the rental is over.
LEMMA CancelCleanupKeeps == ASSUME IInv, CancelCleanup PROVE IInv'
<1> USE DEF IInv, CancelCleanup
<1>1. TypeOK'
  BY LadderFacts, ConcludeFacts DEF TypeOK, Dispositions, Cleanups, PCs, Attempts,
     StopConfirmed, StopFailed, MayRelease, Hold
<1>2. at \in Attempts /\ DOMAIN held = Attempts
  BY DEF TypeOK
<1>3. held' = held \/ held' = [held EXCEPT ![at] = FALSE]
  BY DEF StopConfirmed, StopFailed, MayRelease, Hold
<1>4. (held'[at] /\ ~lost[at]) => (Stoppable /\ ident' = ident)
  BY <1>2, <1>3 DEF Nameable
<1>5. CASE StopConfirmed /\ Conclude("cancelled", "confirmed", FALSE)
  <2>1. ~held'[at]
    BY <1>2, <1>5 DEF StopConfirmed, Hold
  <2> QED
    BY <1>1, <1>3, <1>4, <1>5, <2>1, ConcludedKeeps DEF Dispositions, Cleanups
<1>6. CASE Conclude("cancelled", "failed", FALSE)
  BY <1>1, <1>3, <1>4, <1>6, ConcludedKeeps DEF Dispositions, Cleanups
<1>7. CASE Conclude("cancelled", "unknown", FALSE)
  BY <1>1, <1>3, <1>4, <1>7, ConcludedKeeps DEF Dispositions, Cleanups
<1> QED
  BY <1>5, <1>6, <1>7

\* A failed certification goes on only after a confirmed stop.
LEMMA FinalizeFailedKeeps == ASSUME IInv, FinalizeFailed PROVE IInv'
<1> USE DEF IInv, FinalizeFailed
<1>1. TypeOK'
  BY LadderFacts, ConcludeFacts DEF TypeOK, Dispositions, Cleanups, PCs, Attempts,
     StopConfirmed, StopFailed, MayRelease, Hold
<1>2. at \in Attempts /\ DOMAIN held = Attempts
  BY DEF TypeOK
<1>3. held' = held \/ held' = [held EXCEPT ![at] = FALSE]
  BY DEF StopConfirmed, StopFailed, MayRelease, Hold
<1>4. (held'[at] /\ ~lost[at]) => (Stoppable /\ ident' = ident)
  BY <1>2, <1>3 DEF Nameable
<1>5. CASE Conclude("retained", "retained", FALSE) /\ UNCHANGED <<held, prior>>
  <2>1. held'[at]
    BY <1>5 DEF AttemptReady
  <2> QED
    BY <1>1, <1>4, <1>5, <2>1, ConcludedKeeps DEF Dispositions, Cleanups
<1>6. CASE StopConfirmed /\ Conclude("failed", "confirmed", TRUE)
  <2>1. ~held'[at]
    BY <1>2, <1>6 DEF StopConfirmed, Hold
  <2> QED
    BY <1>1, <1>3, <1>4, <1>6, <2>1, ConcludedKeeps DEF Dispositions, Cleanups
<1>7. CASE Conclude("failed", "failed", FALSE)
  BY <1>1, <1>3, <1>4, <1>7, ConcludedKeeps DEF Dispositions, Cleanups
<1>8. CASE Conclude("failed", "unknown", FALSE)
  BY <1>1, <1>3, <1>4, <1>8, ConcludedKeeps DEF Dispositions, Cleanups
<1> QED
  BY <1>5, <1>6, <1>7, <1>8

\* An exception leaves the outcomes as they are.
LEMMA RaiseKeeps == ASSUME IInv, Raise PROVE IInv'
<1> USE DEF IInv, Raise
<1>1. TypeOK'
  BY LadderFacts DEF TypeOK, Yielding, CloseStream, Hold, PCs, Reports,
     Attempts
<1>2. AttemptReady'
  BY LadderFacts DEF TypeOK, AttemptReady, Yielding, CloseStream, Hold,
     Provider, Place
<1>3. Nameable'
  BY LadderFacts DEF TypeOK, AttemptReady, Nameable, Stoppable,
     Yielding, CloseStream, Hold, Provider, Place
<1>4. CancelEndsLadder'
  BY LadderFacts DEF TypeOK, CancelEndsLadder, IsCancelled, Attempts,
     Yielding
<1>5. \A i \in Attempts : i # at => held'[i] = held[i] /\ lost'[i] = lost[i]
  BY DEF TypeOK, Yielding, CloseStream, Hold
<1> QED
  BY <1>1, <1>2, <1>3, <1>4, <1>5, AdvanceKeeps DEF Yielding

\* A stuttering step changes nothing the invariant reads.
LEMMA StutterKeeps == ASSUME IInv, UNCHANGED vars PROVE IInv'
BY DEF IInv, vars, TypeOK, Attempts, LaterUntouched, EarlierReleased,
   AttemptReady, Nameable, Stoppable, Provider, Place, OutcomeIsTrue,
   LeftoverIsNamed, CancelEndsLadder, IsCancelled

\* One step per action of the ladder, the streams, and the cleanup.
LEMMA InvariantStep == IInv /\ [Next]_vars => IInv'
<1> SUFFICES ASSUME IInv, [Next]_vars PROVE IInv'
  OBVIOUS
<1>1. CASE Cancel
  BY <1>1, CancelKeeps
<1>2. CASE StartAttempt
  BY <1>2, StartAttemptKeeps
<1>3. CASE DeployEvent
  BY <1>3, DeployEventKeeps
<1>4. CASE DeployRefused
  BY <1>4, DeployRefusedKeeps
<1>5. CASE DeployAllocate
  BY <1>5, DeployAllocateKeeps
<1>6. CASE DeployLost
  BY <1>6, DeployLostKeeps
<1>7. CASE DeployAnnounce
  BY <1>7, DeployAnnounceKeeps
<1>8. CASE DeployFails
  BY <1>8, DeployFailsKeeps
<1>9. CASE DeployCompletes
  BY <1>9, DeployCompletesKeeps
<1>10. CASE DeployEnded
  BY <1>10, DeployEndedKeeps
<1>11. CASE Warmup
  BY <1>11, WarmupKeeps
<1>12. CASE Publish
  BY <1>12, PublishKeeps
<1>13. CASE CancelCleanup
  BY <1>13, CancelCleanupKeeps
<1>14. CASE FinalizeFailed
  BY <1>14, FinalizeFailedKeeps
<1>15. CASE Raise
  BY <1>15, RaiseKeeps
<1>16. CASE UNCHANGED vars
  BY <1>16, StutterKeeps
<1> QED
  BY <1>1, <1>2, <1>3, <1>4, <1>5, <1>6, <1>7, <1>8, <1>9, <1>10, <1>11,
     <1>12, <1>13, <1>14, <1>15, <1>16 DEF Next, Step, Over

\* IInv holds in every reachable state.
THEOREM Invariance == Spec => []IInv
<1>1. Init => IInv
  BY InvariantInit
<1>2. IInv /\ [Next]_vars => IInv'
  BY InvariantStep
<1> QED
  BY <1>1, <1>2, PTL DEF Spec

\* The variables keep their types, whatever ladders are approved.
THEOREM TypeCorrect == Spec => []TypeOK
<1>1. IInv => TypeOK
  BY DEF IInv
<1> QED
  BY <1>1, Invariance, PTL

\* Every outcome of every ladder tells the truth about the bill.
THEOREM OutcomesAreTrue == Spec => []OutcomeIsTrue
<1>1. IInv => OutcomeIsTrue
  BY DEF IInv
<1> QED
  BY <1>1, Invariance, PTL

\* What a finished run leaves behind is the last attempt's, is owned up to,
\* and can be named to a stop.
THEOREM LeftoversAreNamed == Spec => []LeftoverIsNamed
<1>1. IInv => LeftoverIsNamed
  BY DEF IInv
<1> QED
  BY <1>1, Invariance, PTL

\* After a cancellation no further placement of any ladder is started.
THEOREM CancelIsFinal == Spec => []CancelEndsLadder
<1>1. IInv => CancelEndsLadder
  BY DEF IInv
<1> QED
  BY <1>1, Invariance, PTL

\* deployment_lifecycle.py:220-223: on ladders of any length, over any mix of
\* providers, no placement is rented while an earlier one may bill, but for a
\* Prime creation whose reply was lost.
THEOREM OneAtATime == Spec => []OneRentalAtATime
<1>1. ASSUME IInv PROVE OneRentalAtATime
  <2> SUFFICES ASSUME NEW i \in Attempts, NEW j \in Attempts,
                      i < j, held[i], held[j]
               PROVE  lost[i]
    BY DEF OneRentalAtATime
  <2>1. i \in Nat /\ j \in Nat /\ at \in Nat
    BY <1>1, LadderFacts DEF IInv, TypeOK
  <2>2. ~ (j > at)
    BY <1>1 DEF IInv, LaterUntouched
  <2>3. i < at
    BY <2>1, <2>2
  <2> QED
    BY <1>1, <2>3 DEF IInv, EarlierReleased
<1> QED
  BY <1>1, Invariance, PTL

-----------------------------------------------------------------------------
(* The refinement of RentalLadder.                                         *)

\* Vast rents only a free name, only Prime loses a creation, and only a cancelled
\* attempt is cleaned up as one.
LEMMA EarlierStep == IInv /\ EarlierInv /\ [Next]_vars => EarlierInv'
<1> SUFFICES ASSUME IInv, EarlierInv, [Next]_vars PROVE EarlierInv'
  OBVIOUS
<1>0. IInv'
  BY InvariantStep
<1>1. /\ at \in Attempts /\ DOMAIN held = Attempts /\ DOMAIN lost = Attempts
      /\ cancelled \in Nat
  BY LadderFacts DEF IInv, TypeOK
<1>2. ASSUME NEW d \in Dispositions, NEW c \in Cleanups, NEW r \in BOOLEAN,
             Conclude(d, c, r), UNCHANGED lost, ladder' = ladder,
             prior' => prior, held'[at] => held[at]
      PROVE  EarlierInv'
  <2>1. pc' \in {"top", "done"} /\ (pc' = "done" => at' = at)
    BY <1>2, ConcludeFacts DEF IInv
  <2>2. CASE pc' = "top"
    BY <1>0, <2>2 DEF IInv, AttemptReady, EarlierInv
  <2>3. CASE pc' = "done"
    BY <1>2, <2>1, <2>3 DEF EarlierInv, Provider, Place
  <2> QED
    BY <2>1, <2>2, <2>3
<1>3. ASSUME UNCHANGED <<ladder, at, lost, prior>>, held'[at] => held[at],
             pc' = "cancel" => IsCancelled'
      PROVE  EarlierInv'
  BY <1>3 DEF EarlierInv, Provider, Place
<1>4. CloseStream => (held'[at] => held[at])
  BY <1>1 DEF CloseStream, Hold
<1>5. CASE Cancel
  BY <1>0, <1>1, <1>3, <1>5 DEF Cancel, EarlierInv, IsCancelled, IInv, TypeOK
<1>6. CASE StartAttempt
  BY <1>2, <1>3, <1>6 DEF StartAttempt, Dispositions, Cleanups
<1>7. CASE DeployEvent \/ Raise
  BY <1>3, <1>4, <1>7 DEF DeployEvent, Raise, IsCancelled
<1>8. CASE DeployRefused \/ DeployCompletes
  BY <1>3, <1>8 DEF DeployRefused, DeployCompletes
<1>9. CASE DeployAllocate
  BY <1>9 DEF DeployAllocate, EarlierInv, NameTaken, Provider, Place
<1>10. CASE DeployLost
  BY <1>1, <1>10 DEF DeployLost, EarlierInv, Provider, Place
<1>11. CASE DeployAnnounce
  BY <1>3, <1>4, <1>11 DEF DeployAnnounce, IsCancelled
<1>12. CASE DeployFails
  BY <1>1, <1>3, <1>12 DEF DeployFails, MayRelease, Hold
<1>13. CASE DeployEnded
  BY <1>2, <1>3, <1>4, <1>13 DEF DeployEnded, Dispositions, Cleanups, IsCancelled
<1>14. CASE Warmup
  BY <1>3, <1>14 DEF Warmup, IsCancelled
<1>15. CASE Publish
  BY <1>2, <1>15 DEF Publish, Dispositions, Cleanups
<1>16. (StopConfirmed \/ StopFailed) => (prior' => prior) /\ (held'[at] => held[at])
  <2>1. (StopConfirmed \/ StopFailed) => (prior' => prior)
    BY ZenonT(30) DEF StopConfirmed, StopFailed
  <2>2. (StopConfirmed \/ StopFailed) => (held'[at] => held[at])
    BY <1>1 DEF StopConfirmed, StopFailed, MayRelease, Hold
  <2> QED
    BY <2>1, <2>2
<1>17. CASE CancelCleanup
  <2>1. StopConfirmed \/ StopFailed \/ UNCHANGED <<held, prior>>
    BY <1>17 DEF CancelCleanup
  <2>2. (prior' => prior) /\ (held'[at] => held[at])
    BY <1>16, <2>1
  <2>3. UNCHANGED <<lost, ladder>>
    BY <1>17 DEF CancelCleanup
  <2>4. \E d \in Dispositions, c \in Cleanups, r \in BOOLEAN : Conclude(d, c, r)
    BY <1>17 DEF CancelCleanup, Dispositions, Cleanups
  <2> QED
    BY <1>2, <2>2, <2>3, <2>4
<1>18. CASE FinalizeFailed
  <2>1. StopConfirmed \/ StopFailed \/ UNCHANGED <<held, prior>>
    BY <1>18 DEF FinalizeFailed
  <2>2. (prior' => prior) /\ (held'[at] => held[at])
    BY <1>16, <2>1
  <2>3. UNCHANGED <<lost, ladder>>
    BY <1>18 DEF FinalizeFailed
  <2>4. \E d \in Dispositions, c \in Cleanups, r \in BOOLEAN : Conclude(d, c, r)
    BY <1>18 DEF FinalizeFailed, Dispositions, Cleanups
  <2> QED
    BY <1>2, <2>2, <2>3, <2>4
<1>19. CASE UNCHANGED vars
  BY <1>3, <1>19 DEF vars, EarlierInv, IsCancelled
<1> QED
  BY <1>5, <1>6, <1>7, <1>8, <1>9, <1>10, <1>11, <1>12, <1>13, <1>14, <1>15, <1>17,
     <1>18, <1>19 DEF Next, Step, Over

\* What each point of the attempt means for its rental's stage.
LEMMA StageFacts ==
    ASSUME IInv
    PROVE  /\ Stage(at) = IF lost[at] THEN "lost" ELSE IF held[at] THEN "billing"
                          ELSE IF pc \in {"top", "request"} THEN "open" ELSE "clear"
           /\ pc \in {"top", "request"} => Stage(at) = "open"
           /\ pc \in {"allocated", "warmup", "publish", "final"} => Stage(at) = "billing"
<1>1. at \in Attempts /\ at \in Nat
  BY LadderFacts DEF IInv, TypeOK
<1>2. held[at] \in BOOLEAN /\ lost[at] \in BOOLEAN
  BY <1>1 DEF IInv, TypeOK
<1>3. ~ (at > at)
  BY <1>1
<1>4. Stage(at) = IF lost[at] THEN "lost" ELSE IF held[at] THEN "billing"
                  ELSE IF pc \in {"top", "request"} THEN "open" ELSE "clear"
  BY <1>2, <1>3 DEF Stage
<1> QED
  BY <1>4 DEF IInv, AttemptReady

\* A step within an attempt is a step of the ladder when it settles or releases this
\* attempt's rental, and none when it does neither.
LEMMA SameRung ==
    ASSUME IInv, TypeOK', UNCHANGED <<ladder, at, prior, cancelled>>,
           pc \notin {"done", "raised"}, pc' \notin {"done", "raised"},
           \A i \in Attempts : i # at => held'[i] = held[i] /\ lost'[i] = lost[i],
           \/ Stage(at)' = Stage(at)
           \/ Stage(at) \in {"open", "billing"} /\ Stage(at)' = "clear"
           \/ /\ Stage(at) = "open" /\ Stage(at)' \in {"billing", "lost"}
              /\ cancelled = 0 \/ at <= cancelled
    PROVE  [Rungs!Next]_(Rungs!lvars)
<1>1. Attempts' = Attempts /\ at \in Attempts /\ at \in Nat /\ Attempts \subseteq Nat
  BY LadderFacts DEF IInv, TypeOK, Attempts
<1>2. ASSUME NEW i \in Attempts, i # at PROVE Stage(i)' = Stage(i)
  BY <1>1, <1>2 DEF Stage
<1>3. Said = "none" /\ Said' = "none"
  BY DEF Said
<1>4. CASE Stage(at)' = Stage(at)
  <2>1. \A i \in Attempts : Stage(i)' = Stage(i)
    BY <1>2, <1>4
  <2> QED
    BY <1>1, <1>3, <2>1 DEF Rungs!lvars
<1>5. CASE Stage(at)' # Stage(at)
  <2>1. [i \in Attempts |-> Stage(i)]' =
           [[i \in Attempts |-> Stage(i)] EXCEPT ![at] = Stage(at)']
    BY <1>1, <1>2
  <2>2. [i \in Attempts |-> Stage(i)][at] = Stage(at)
    BY <1>1
  <2>3. Rungs!Settle \/ Rungs!Release
    BY <1>3, <1>5, <2>1, <2>2 DEF Rungs!Settle, Rungs!Release, Rungs!Becomes, Rungs!Wanted
  <2> QED
    BY <1>3, <2>3 DEF Rungs!Next
<1> QED
  BY <1>4, <1>5

\* The run stops here: what it says of this attempt's rental is so.
LEMMA LastRung ==
    ASSUME IInv, TypeOK', UNCHANGED <<ladder, at, cancelled, lost>>,
           pc \notin {"done", "raised"}, pc' \in {"done", "raised"},
           held' = held \/ held' = [held EXCEPT ![at] = FALSE],
           Said' = "serving" => Stage(at)' = "billing",
           Said' = "clean" => Stage(at)' \in {"clear", "lost"},
           prior' # prior =>
               ~prior' /\ IsCancelled /\ Stage(at) = "clear" /\ Said' = "clean"
    PROVE  [Rungs!Next]_(Rungs!lvars)
<1>1. Attempts' = Attempts /\ at \in Attempts /\ at \in Nat /\ Attempts \subseteq Nat
  BY LadderFacts DEF IInv, TypeOK, Attempts
<1>2. ASSUME NEW i \in Attempts, i # at PROVE Stage(i)' = Stage(i)
  <2>1. held'[i] = held[i] /\ lost'[i] = lost[i]
    BY <1>1, <1>2 DEF IInv, TypeOK
  <2> QED
    BY <1>1, <1>2, <2>1 DEF Stage
<1>3. Said = "none" /\ Said' \in {"serving", "clean", "unsure"}
  BY DEF Said
<1>4. \/ Stage(at)' = Stage(at)
      \/ Stage(at) \in {"open", "billing"} /\ Stage(at)' = "clear"
  <2>1. /\ held[at] \in BOOLEAN /\ lost[at] \in BOOLEAN /\ held'[at] \in BOOLEAN
        /\ held'[at] => held[at]
        /\ ~ (at > at)
    BY <1>1 DEF IInv, TypeOK
  <2> QED
    BY <2>1, StageFacts DEF Stage
<1>5. [i \in Attempts |-> Stage(i)]' =
         [[i \in Attempts |-> Stage(i)] EXCEPT ![at] = Stage(at)']
  BY <1>1, <1>2
<1>6. [i \in Attempts |-> Stage(i)][at] = Stage(at)
  BY <1>1
<1>7. Stage(at)' = Stage(at) =>
         [i \in Attempts |-> Stage(i)]' = [i \in Attempts |-> Stage(i)]
  BY <1>1, <1>2
<1>8. Rungs!Settled
  BY <1>4, <1>5, <1>6, <1>7 DEF Rungs!Settled, Rungs!Becomes
<1>9. [i \in Attempts |-> Stage(i)]'[at] = Stage(at)'
  BY <1>1, <1>5
<1>10. Rungs!Finish
  BY <1>1, <1>3, <1>6, <1>8, <1>9 DEF Rungs!Finish, Rungs!Verdicts, IsCancelled
<1> QED
  BY <1>3, <1>10 DEF Rungs!Next

\* The run goes on to the next placement, this one's rental being over or unheard of.
LEMMA NextRung ==
    ASSUME IInv, IInv', UNCHANGED <<ladder, cancelled, lost, prior>>,
           pc \notin {"done", "raised"}, pc' = "top", at' = at + 1,
           held' = held \/ held' = [held EXCEPT ![at] = FALSE]
    PROVE  [Rungs!Next]_(Rungs!lvars)
<1>1. /\ Attempts' = Attempts /\ at \in Attempts /\ at \in Nat /\ Attempts \subseteq Nat
      /\ at + 1 \in Attempts /\ at < Len(ladder) /\ Len(ladder) \in Nat
  BY LadderFacts DEF IInv, TypeOK, Attempts
<1>0. PICK a \in Attempts : a = at
  BY <1>1
<1>2. ASSUME NEW i \in Attempts, i # a PROVE Stage(i)' = Stage(i)
  <2>1. held'[i] = held[i] /\ lost'[i] = lost[i]
    BY <1>0, <1>1, <1>2 DEF IInv, TypeOK
  <2>2. i > a => ~held[i] /\ ~lost[i]
    BY <1>0 DEF IInv, LaterUntouched
  <2>3. i > at' \/ i = at' <=> i > a
    BY <1>0, <1>1, <1>2
  <2> QED
    BY <1>0, <1>1, <1>2, <2>1, <2>2, <2>3 DEF Stage
<1>3. Said = "none" /\ Said' = "none"
  BY DEF Said
<1>4. held'[a] => lost[a]
  BY <1>0, <1>1 DEF IInv, EarlierReleased
<1>5. held[a] \in BOOLEAN /\ lost[a] \in BOOLEAN /\ held'[a] \in BOOLEAN
  BY <1>0, <1>1 DEF IInv, TypeOK
<1>6. Stage(a)' = IF lost[a] THEN "lost" ELSE "clear"
  <2>1. ~ (a > at') /\ a # at'
    BY <1>0, <1>1
  <2> QED
    BY <1>0, <1>1, <1>4, <1>5, <2>1 DEF Stage
<1>7. Stage(a)' = Stage(a) \/ (Stage(a) \in {"open", "billing"} /\ Stage(a)' = "clear")
  BY <1>0, <1>5, <1>6, StageFacts
<1>8. [i \in Attempts |-> Stage(i)]' =
         [[i \in Attempts |-> Stage(i)] EXCEPT ![a] = Stage(a)']
  BY <1>0, <1>1, <1>2
<1>9. [i \in Attempts |-> Stage(i)][a] = Stage(a)
  BY <1>0, <1>1
<1>10. Stage(a)' = Stage(a) =>
         [i \in Attempts |-> Stage(i)]' = [i \in Attempts |-> Stage(i)]
  BY <1>0, <1>1, <1>2
<1>11. Rungs!Settled
  BY <1>0, <1>7, <1>8, <1>9, <1>10 DEF Rungs!Settled, Rungs!Becomes
<1>12. [i \in Attempts |-> Stage(i)]'[a] = Stage(a)'
  BY <1>0, <1>1, <1>8
<1>13. Rungs!Climb
  BY <1>0, <1>1, <1>3, <1>6, <1>11, <1>12 DEF Rungs!Climb
<1> QED
  BY <1>0, <1>3, <1>13 DEF Rungs!Next

\* What a conclusion is in the ladder: the last word on this rental, or the way up.
LEMMA ConcludeClimbs ==
    ASSUME IInv, IInv', pc \notin {"done", "raised"},
           UNCHANGED <<ladder, cancelled, lost>>,
           held' = held \/ held' = [held EXCEPT ![at] = FALSE],
           NEW d \in Dispositions, NEW c \in Cleanups, NEW r \in BOOLEAN,
           Conclude(d, c, r),
           d \in {"succeeded", "retained"} => ~lost[at],
           prior' # prior =>
               /\ ~prior' /\ IsCancelled /\ Stage(at) = "clear"
               /\ d = "cancelled" /\ c = "confirmed"
    PROVE  [Rungs!Next]_(Rungs!lvars)
<1>1. /\ outcome'[at] = [disposition |-> d, cleanup |-> c]
      /\ pc' \in {"top", "done"}
      /\ pc' = "done" => at' = at
      /\ pc' = "top" => at' = at + 1 /\ d = "failed"
  BY ConcludeFacts DEF IInv
<1>2. CASE pc' = "top"
  <2>1. prior' = prior
    BY <1>1, <1>2
  <2> QED
    BY <1>1, <1>2, <2>1, NextRung
<1>3. CASE pc' = "done"
  <2>1. at' = at /\ at \in Attempts /\ at \in Nat /\ Attempts' = Attempts
    BY <1>1, <1>3, LadderFacts DEF IInv, TypeOK, Attempts
  <2>2. held'[at] \in BOOLEAN /\ lost'[at] \in BOOLEAN /\ ~ (at > at)
    BY <2>1 DEF IInv, TypeOK
  <2>3. Stage(at)' = IF lost'[at] THEN "lost" ELSE IF held'[at] THEN "billing" ELSE "clear"
    BY <1>3, <2>1, <2>2 DEF Stage
  <2>4. outcome'[at] # NoOutcome
    BY <1>3, <2>1 DEF IInv, AttemptReady
  <2>5. Said' = IF d \in {"succeeded", "retained"} THEN "serving"
                ELSE IF c \in {"confirmed", "nothing_to_clean"} THEN "clean"
                ELSE "unsure"
    BY <1>1, <1>3, <2>1 DEF Said
  <2>6. /\ d \in {"succeeded", "retained"} => held'[at]
        /\ (d \notin {"succeeded", "retained"} /\ c \in {"confirmed", "nothing_to_clean"})
              => ~held'[at] \/ lost'[at]
    BY <1>1, <2>1, <2>4 DEF IInv, OutcomeIsTrue
  <2>7. d \in {"succeeded", "retained"} => ~lost'[at]
    BY <2>1
  <2>8. Said' = "serving" => Stage(at)' = "billing"
    BY <2>3, <2>5, <2>6, <2>7
  <2>9. Said' = "clean" => Stage(at)' \in {"clear", "lost"}
    BY <2>3, <2>5, <2>6
  <2>10. d = "cancelled" /\ c = "confirmed" => Said' = "clean"
    BY <2>5
  <2> QED
    BY <1>3, <2>1, <2>8, <2>9, <2>10, LastRung DEF IInv
<1> QED
  BY <1>1, <1>2, <1>3

\* A step of the run is a step of the ladder or a stutter.
LEMMA LadderStep == IInv /\ EarlierInv /\ [Next]_vars => [Rungs!Next]_(Rungs!lvars)
<1> SUFFICES ASSUME IInv, EarlierInv, [Next]_vars
             PROVE  [Rungs!Next]_(Rungs!lvars)
  OBVIOUS
<1>0. IInv' /\ TypeOK'
  BY InvariantStep DEF IInv
<1>1. /\ at \in Attempts /\ at \in Nat /\ DOMAIN held = Attempts /\ DOMAIN lost = Attempts
      /\ held[at] \in BOOLEAN /\ lost[at] \in BOOLEAN /\ cancelled \in Nat
  BY LadderFacts DEF IInv, TypeOK
<1>2. Stage(at) = IF lost[at] THEN "lost" ELSE IF held[at] THEN "billing"
                  ELSE IF pc \in {"top", "request"} THEN "open" ELSE "clear"
  BY StageFacts
<1>3. ASSUME UNCHANGED <<ladder, at>>
      PROVE  Stage(at)' = IF lost'[at] THEN "lost" ELSE IF held'[at] THEN "billing"
                          ELSE IF pc' \in {"top", "request"} THEN "open" ELSE "clear"
  <2>1. held'[at] \in BOOLEAN /\ lost'[at] \in BOOLEAN /\ ~ (at > at)
    BY <1>0, <1>1, <1>3 DEF TypeOK, Attempts
  <2> QED
    BY <1>1, <1>3, <2>1 DEF Stage
<1>4. pc \in {"request", "allocated"} =>
         ~lost[at] /\ (pc = "allocated" <=> held[at])
  BY <1>1 DEF IInv, AttemptReady
<1>5. CloseStream => \/ held' = held
                     \/ held' = [held EXCEPT ![at] = FALSE]
  BY DEF CloseStream, Hold
<1>6. ASSUME held' = held \/ held' = [held EXCEPT ![at] = FALSE], lost' = lost
      PROVE  /\ \A i \in Attempts : i # at => held'[i] = held[i] /\ lost'[i] = lost[i]
             /\ held'[at] \in {held[at], FALSE}
  BY <1>1, <1>6
<1>7. CASE Cancel
  <2>1. UNCHANGED <<ladder, at, prior>> /\ Said = "none" /\ Said' = "none"
    BY <1>7 DEF Cancel, Said
  <2>2. \A i \in Attempts : Stage(i)' = Stage(i)
    BY <1>7 DEF Cancel, Stage
  <2>3. Attempts' = Attempts
    BY <2>1 DEF Attempts
  <2>4. Rungs!CallOff
    BY <1>7, <2>1, <2>2, <2>3 DEF Cancel, Rungs!CallOff
  <2> QED
    BY <2>1, <2>4 DEF Rungs!Next
<1>8. CASE StartAttempt
  <2>1. CASE IsCancelled /\ Conclude("cancelled", "nothing_to_clean", FALSE)
    BY <1>0, <1>8, <2>1, ConcludeClimbs DEF StartAttempt, Dispositions, Cleanups
  <2>2. CASE pc' = "request" /\ UNCHANGED <<at, outcome>>
    <3>1. Stage(at)' = Stage(at)
      BY <1>2, <1>3, <1>8, <2>2 DEF StartAttempt
    <3> QED
      BY <1>0, <1>8, <2>2, <3>1, SameRung DEF StartAttempt
  <2> QED
    BY <1>8, <2>1, <2>2 DEF StartAttempt
<1>9. CASE DeployEvent
  <2>1. /\ pc \in {"request", "allocated"} /\ pc' = "cancel"
        /\ UNCHANGED <<ladder, at, lost, prior, cancelled>>
        /\ held' = held \/ held' = [held EXCEPT ![at] = FALSE]
    BY <1>5, <1>9 DEF DeployEvent, Yielding
  <2>2. \/ Stage(at)' = Stage(at)
        \/ Stage(at) \in {"open", "billing"} /\ Stage(at)' = "clear"
    BY <1>1, <1>2, <1>3, <1>4, <1>6, <2>1
  <2> QED
    BY <1>0, <1>6, <2>1, <2>2, SameRung
<1>10. CASE DeployRefused
  <2>1. Stage(at) = "open" /\ Stage(at)' = "clear"
    BY <1>2, <1>3, <1>4, <1>10 DEF DeployRefused
  <2> QED
    BY <1>0, <1>10, <2>1, SameRung DEF DeployRefused
<1>11. CASE DeployAllocate \/ DeployLost
  <2>1. cancelled = 0 \/ at <= cancelled
    <3>1. pc = "request"
      BY <1>11 DEF DeployAllocate, DeployLost
    <3>2. cancelled = 0 \/ ~ (at > cancelled)
      BY <3>1 DEF IInv, CancelEndsLadder, IsCancelled
    <3> QED
      BY <1>1, <3>2
  <2>2. held' = [held EXCEPT ![at] = TRUE]
    BY <1>11 DEF DeployAllocate, DeployLost, Hold
  <2>3. lost' = lost \/ lost' = [lost EXCEPT ![at] = TRUE]
    BY <1>11 DEF DeployAllocate, DeployLost
  <2>4. /\ held'[at] = TRUE
        /\ \A i \in Attempts : i # at => held'[i] = held[i] /\ lost'[i] = lost[i]
    BY <1>1, <2>2, <2>3
  <2>5. /\ pc = "request" /\ pc' \in {"allocated", "ended"}
        /\ UNCHANGED <<ladder, at, prior, cancelled>>
    BY <1>11 DEF DeployAllocate, DeployLost
  <2>6. Stage(at) = "open" /\ Stage(at)' \in {"billing", "lost"}
    BY <1>2, <1>3, <1>4, <2>4, <2>5
  <2> QED
    BY <1>0, <2>1, <2>4, <2>5, <2>6, SameRung
<1>12. CASE DeployAnnounce \/ DeployFails \/ DeployCompletes
  <2>1. /\ pc = "allocated" /\ pc' \in {"allocated", "cancel", "ended"}
        /\ UNCHANGED <<ladder, at, lost, prior, cancelled>>
        /\ held' = held \/ held' = [held EXCEPT ![at] = FALSE]
    BY <1>5, <1>12 DEF DeployAnnounce, DeployFails, DeployCompletes, MayRelease, Hold
  <2>2. \/ Stage(at)' = Stage(at)
        \/ Stage(at) \in {"open", "billing"} /\ Stage(at)' = "clear"
    BY <1>2, <1>3, <1>4, <1>6, <2>1
  <2> QED
    BY <1>0, <1>6, <2>1, <2>2, SameRung
<1>13. CASE DeployEnded
  <2>1. /\ pc = "ended" /\ UNCHANGED <<ladder, lost, prior, cancelled>>
        /\ held' = held \/ held' = [held EXCEPT ![at] = FALSE]
    BY <1>5, <1>13 DEF DeployEnded
  <2>2. CASE pc' \in {"cancel", "warmup", "publish"} /\ UNCHANGED <<at, outcome>>
    <3>1. \/ Stage(at)' = Stage(at)
          \/ Stage(at) \in {"open", "billing"} /\ Stage(at)' = "clear"
      BY <1>1, <1>2, <1>3, <1>6, <2>1, <2>2
    <3> QED
      BY <1>0, <1>6, <2>1, <2>2, <3>1, SameRung
  <2>3. CASE \E c \in {"confirmed", "failed", "nothing_to_clean", "unknown"},
                r \in BOOLEAN : Conclude("failed", c, r)
    BY <1>0, <2>1, <2>3, ConcludeClimbs DEF Dispositions, Cleanups
  <2> QED
    BY <1>13, <2>2, <2>3 DEF DeployEnded
<1>14. CASE Warmup
  <2>1. Stage(at)' = Stage(at)
    BY <1>2, <1>3, <1>14 DEF Warmup, IsCancelled
  <2> QED
    BY <1>0, <1>14, <2>1, SameRung DEF Warmup, IsCancelled
<1>15. CASE Publish
  BY <1>0, <1>15, ConcludeClimbs DEF Publish, Dispositions, Cleanups, IInv, AttemptReady
<1>16. ASSUME StopConfirmed \/ StopFailed \/ UNCHANGED <<held, prior>>
       PROVE  held' = held \/ held' = [held EXCEPT ![at] = FALSE]
  BY <1>16 DEF StopConfirmed, StopFailed, MayRelease, Hold
<1>17. ASSUME StopConfirmed, prior' # prior
       PROVE  ~prior' /\ NameTaken
  <2>1. prior' = (prior /\ ~NameTaken) /\ prior \in BOOLEAN
    BY <1>17 DEF StopConfirmed, IInv, TypeOK
  <2> QED
    BY <1>17, <2>1, ZenonT(30)
<1>18. CASE CancelCleanup
  <2>1. pc = "cancel" /\ UNCHANGED <<ladder, lost, cancelled>>
    BY <1>18 DEF CancelCleanup
  <2>2. StopConfirmed \/ StopFailed \/ UNCHANGED <<held, prior>>
    BY <1>18 DEF CancelCleanup
  <2>3. CASE StopConfirmed /\ Conclude("cancelled", "confirmed", FALSE)
    <3>1. ASSUME prior' # prior
          PROVE  ~prior' /\ IsCancelled /\ Stage(at) = "clear"
      <4>1. ~prior' /\ Provider = "vast" /\ prior
        BY <1>17, <2>3, <3>1 DEF NameTaken
      <4>2. ~held[at] /\ ~lost[at] /\ IsCancelled
        BY <2>1, <4>1 DEF EarlierInv
      <4> QED
        BY <1>2, <2>1, <4>1, <4>2
    <3> QED
      BY <1>0, <1>16, <2>1, <2>2, <2>3, <3>1, ConcludeClimbs DEF Dispositions, Cleanups
  <2>4. CASE prior' = prior /\ \E c \in {"failed", "unknown"} :
                                  Conclude("cancelled", c, FALSE)
    BY <1>0, <1>16, <2>1, <2>2, <2>4, ConcludeClimbs DEF Dispositions, Cleanups
  <2> QED
    BY <1>18, <2>3, <2>4 DEF CancelCleanup, StopFailed
<1>19. CASE FinalizeFailed
  <2>1. pc = "final" /\ UNCHANGED <<ladder, lost, cancelled>> /\ held[at] /\ ~lost[at]
    BY <1>19 DEF FinalizeFailed, IInv, AttemptReady
  <2>2. StopConfirmed \/ StopFailed \/ UNCHANGED <<held, prior>>
    BY <1>19 DEF FinalizeFailed
  <2>3. prior' = prior
    <3>1. ASSUME StopConfirmed, prior' # prior PROVE FALSE
      BY <1>17, <2>1, <3>1 DEF NameTaken, EarlierInv
    <3> QED
      BY <2>2, <3>1 DEF StopFailed
  <2>4. \E d \in {"retained", "failed"}, c \in Cleanups, r \in BOOLEAN : Conclude(d, c, r)
    BY <1>19 DEF FinalizeFailed, Cleanups
  <2> QED
    BY <1>0, <1>16, <2>1, <2>2, <2>3, <2>4, ConcludeClimbs DEF Dispositions
<1>20. CASE Raise
  <2>1. /\ pc \notin {"done", "raised"} /\ pc' = "raised"
        /\ UNCHANGED <<ladder, at, lost, prior, cancelled>>
        /\ held' = held \/ held' = [held EXCEPT ![at] = FALSE]
    BY <1>5, <1>20 DEF Raise, Yielding
  <2>2. Said' = "unsure"
    BY <2>1 DEF Said
  <2> QED
    BY <1>0, <2>1, <2>2, LastRung
<1>21. CASE UNCHANGED vars
  <2>1. Attempts' = Attempts /\ \A i \in Attempts : Stage(i)' = Stage(i)
    BY <1>21 DEF vars, Attempts, Stage
  <2>2. Said' = Said /\ UNCHANGED <<ladder, at, cancelled, prior>>
    BY <1>21 DEF vars, Said
  <2> QED
    BY <2>1, <2>2 DEF Rungs!lvars
<1> QED
  BY <1>7, <1>8, <1>9, <1>10, <1>11, <1>12, <1>13, <1>14, <1>15, <1>18, <1>19, <1>20,
     <1>21 DEF Next, Step, Over

\* On ladders of any length, over any mix of providers, the run is a climb of
\* RentalLadder: no rental over an earlier one, none above a cancellation, a last word
\* that is true and final, and an earlier deployment ended only by a cancelled attempt
\* that rented nothing itself.
THEOREM ClimbsTheLadder == Spec => LadderKept
<1>1. Init => Rungs!Init /\ EarlierInv
  <2> SUFFICES ASSUME Init PROVE Rungs!Init /\ EarlierInv
    OBVIOUS
  <2>1. Len(ladder) \in Nat \ {0} /\ at = 1 /\ 1 \in Attempts
    BY LaddersAssumption DEF Init, Attempts
  <2>2. \A i \in Attempts : Stage(i) = "open"
    <3> SUFFICES ASSUME NEW i \in Attempts PROVE Stage(i) = "open"
      OBVIOUS
    <3>1. i > at \/ i = at
      BY <2>1 DEF Attempts
    <3> QED
      BY <3>1 DEF Init, Stage
  <2>3. Said = "none" /\ cancelled = 0 /\ prior \in BOOLEAN
    BY DEF Init, Said
  <2>4. Rungs!Init
    BY <2>1, <2>2, <2>3 DEF Rungs!Init, Attempts
  <2> QED
    BY <2>1, <2>4 DEF Init, EarlierInv
<1>2. IInv /\ EarlierInv /\ [Next]_vars => [Rungs!Next]_(Rungs!lvars)
  BY LadderStep
<1> QED
  BY <1>1, <1>2, EarlierStep, Invariance, PTL DEF Spec, LadderKept, Rungs!Spec

-----------------------------------------------------------------------------
(* The part of EveryRunEnds that needs no fairness.                        *)

\* How many steps an attempt may still take at most.
AttemptLeft ==
    CASE pc \in {"done", "raised"} -> 0
      [] pc \in {"publish", "cancel", "final"} -> 4
      [] pc = "warmup" -> 5
      [] pc = "ended" -> 6
      [] pc = "allocated" -> IF ident THEN 7 ELSE 8
      [] pc = "request" -> 9
      [] pc = "top" -> 10

\* And the whole run.
StepsLeft == 10 * (Len(ladder) - at) + AttemptLeft

\* Every step of a run brings its end nearer; a cancellation does not move it away.
RunsDown == [][/\ Step => StepsLeft' < StepsLeft
               /\ StepsLeft' <= StepsLeft]_vars

\* The end of an attempt is nearer to the end of the run than any other point of it.
LEMMA ConcludeDown ==
    ASSUME TypeOK, ladder' = ladder, AttemptLeft >= 4,
           (pc' = "top" /\ at' = at + 1) \/ (pc' = "done" /\ at' = at)
    PROVE  StepsLeft' < StepsLeft
<1>1. Len(ladder) \in Nat /\ at \in 1 .. Len(ladder)
  BY LadderFacts DEF TypeOK, Attempts
<1>2. AttemptLeft \in 0 .. 10
  BY DEF TypeOK, PCs, AttemptLeft
<1>3. CASE pc' = "top" /\ at' = at + 1
  <2>1. AttemptLeft' = 10
    BY <1>3 DEF AttemptLeft
  <2> QED
    BY <1>1, <1>2, <1>3, <2>1 DEF StepsLeft
<1>4. CASE pc' = "done" /\ at' = at
  <2>1. AttemptLeft' = 0
    BY <1>4 DEF AttemptLeft
  <2> QED
    BY <1>1, <1>2, <1>4, <2>1 DEF StepsLeft
<1> QED
  BY <1>3, <1>4

\* Within an attempt, too, every step leads on.
LEMMA AttemptDown ==
    ASSUME TypeOK, UNCHANGED <<ladder, at>>, AttemptLeft \in 0 .. 10,
           AttemptLeft' \in 0 .. 10, AttemptLeft' < AttemptLeft
    PROVE  StepsLeft' < StepsLeft
<1>1. Len(ladder) \in Nat /\ at \in 1 .. Len(ladder)
  BY LadderFacts DEF TypeOK, Attempts
<1> QED
  BY <1>1 DEF StepsLeft

\* Every step of a run leads on.
LEMMA StepDown ==
    ASSUME TypeOK, TypeOK', Step
    PROVE  StepsLeft' < StepsLeft
<1>1. AttemptLeft \in 0 .. 10 /\ AttemptLeft' \in 0 .. 10
  BY DEF TypeOK, PCs, AttemptLeft
<1>2. CASE StartAttempt
  <2>1. AttemptLeft = 10
    BY <1>2 DEF StartAttempt, AttemptLeft
  <2>2. CASE Conclude("cancelled", "nothing_to_clean", FALSE)
    BY <1>2, <2>1, <2>2, ConcludeDown DEF StartAttempt, Conclude
  <2>3. CASE pc' = "request" /\ UNCHANGED at
    BY <1>1, <1>2, <2>1, <2>3, AttemptDown DEF StartAttempt, AttemptLeft
  <2> QED
    BY <1>2, <2>2, <2>3 DEF StartAttempt
<1>3. CASE DeployEvent \/ DeployRefused \/ DeployAllocate \/ DeployLost
  <2>1. AttemptLeft >= 7 /\ UNCHANGED <<ladder, at>>
    <3>1. pc \in {"request", "allocated"} /\ UNCHANGED <<ladder, at>>
      BY <1>3 DEF DeployEvent, Yielding, DeployRefused, DeployAllocate, DeployLost
    <3> QED
      BY <3>1 DEF AttemptLeft
  <2>2. CASE DeployAllocate
    <3>1. AttemptLeft = 9
      BY <2>2 DEF DeployAllocate, AttemptLeft
    <3>2. AttemptLeft' \in {7, 8}
      BY <2>2 DEF DeployAllocate, AttemptLeft
    <3> QED
      BY <1>1, <2>1, <3>1, <3>2, AttemptDown
  <2>3. CASE DeployEvent \/ DeployRefused \/ DeployLost
    <3>1. pc' \in {"cancel", "ended"}
      BY <2>3 DEF DeployEvent, DeployRefused, DeployLost
    <3>2. AttemptLeft' \in {4, 6}
      BY <3>1 DEF AttemptLeft
    <3> QED
      BY <1>1, <2>1, <3>2, AttemptDown
  <2> QED
    BY <1>3, <2>2, <2>3
<1>4. CASE DeployAnnounce
  <2>1. AttemptLeft = 8 /\ UNCHANGED <<ladder, at>>
    BY <1>4 DEF TypeOK, DeployAnnounce, AttemptLeft
  <2>2. pc' = "cancel" \/ (pc' = "allocated" /\ ident')
    BY <1>4 DEF DeployAnnounce
  <2>3. AttemptLeft' \in {4, 7}
    BY <2>2 DEF AttemptLeft
  <2> QED
    BY <1>1, <2>1, <2>3, AttemptDown
<1>5. CASE DeployFails \/ DeployCompletes
  <2>1. pc = "allocated" /\ pc' = "ended" /\ UNCHANGED <<ladder, at>>
    BY <1>5 DEF DeployFails, DeployCompletes
  <2>2. AttemptLeft \in {7, 8} /\ AttemptLeft' = 6
    BY <2>1 DEF AttemptLeft
  <2> QED
    BY <1>1, <2>1, <2>2, AttemptDown
<1>6. CASE Warmup
  <2>1. pc = "warmup" /\ pc' \in {"cancel", "publish", "final"} /\ UNCHANGED <<ladder, at>>
    BY <1>6 DEF Warmup
  <2>2. AttemptLeft = 5 /\ AttemptLeft' = 4
    BY <2>1 DEF AttemptLeft
  <2> QED
    BY <1>1, <2>1, <2>2, AttemptDown
<1>7. CASE Raise
  <2>1. /\ pc \in {"request", "allocated", "top", "ended", "warmup"}
        /\ pc' = "raised"
        /\ UNCHANGED <<ladder, at>>
    BY <1>7 DEF Raise, Yielding
  <2>2. AttemptLeft > 0 /\ AttemptLeft' = 0
    BY <2>1 DEF AttemptLeft
  <2> QED
    BY <1>1, <2>1, <2>2, AttemptDown
<1>8. CASE DeployEnded
  <2>1. AttemptLeft = 6 /\ ladder' = ladder
    BY <1>8 DEF DeployEnded, AttemptLeft
  <2>2. CASE pc' \in {"cancel", "warmup", "publish"} /\ UNCHANGED at
    <3>1. AttemptLeft' \in {4, 5}
      BY <2>2 DEF AttemptLeft
    <3> QED
      BY <1>1, <2>1, <2>2, <3>1, AttemptDown
  <2>3. ASSUME NEW c \in Cleanups, NEW r \in BOOLEAN, Conclude("failed", c, r)
        PROVE  StepsLeft' < StepsLeft
    BY <2>1, <2>3, ConcludeDown DEF Conclude
  <2> QED
    BY <1>8, <2>2, <2>3 DEF DeployEnded, Cleanups
<1>9. CASE Publish
  <2>1. AttemptLeft = 4
    BY <1>9 DEF Publish, AttemptLeft
  <2> QED
    BY <1>9, <2>1, ConcludeDown DEF Publish, Conclude
<1>10. CASE CancelCleanup \/ FinalizeFailed
  <2>1. AttemptLeft = 4 /\ ladder' = ladder
    BY <1>10 DEF CancelCleanup, FinalizeFailed, AttemptLeft
  <2>2. (pc' = "top" /\ at' = at + 1) \/ (pc' = "done" /\ at' = at)
    BY <1>10 DEF CancelCleanup, FinalizeFailed, Conclude
  <2> QED
    BY <2>1, <2>2, ConcludeDown
<1> QED
  BY <1>2, <1>3, <1>4, <1>5, <1>6, <1>7, <1>8, <1>9, <1>10 DEF Step

\* Every run runs down: over n placements it takes at most 10 n steps, whatever fails,
\* is rolled back or called off.
THEOREM EveryRunRunsDown == Spec => RunsDown
<1>1. TypeOK /\ TypeOK' /\ [Next]_vars
        => [(Step => StepsLeft' < StepsLeft) /\ StepsLeft' <= StepsLeft]_vars
  <2> SUFFICES ASSUME TypeOK, TypeOK', Next
               PROVE  (Step => StepsLeft' < StepsLeft) /\ StepsLeft' <= StepsLeft
    OBVIOUS
  <2>1. Step => StepsLeft' < StepsLeft
    BY StepDown
  <2>2. StepsLeft \in Int /\ StepsLeft' \in Int
    <3>1. AttemptLeft \in Int /\ AttemptLeft' \in Int
      BY DEF TypeOK, PCs, AttemptLeft
    <3>2. Len(ladder) \in Nat /\ at \in Nat
      BY LadderFacts DEF TypeOK, Attempts
    <3>3. Len(ladder') \in Nat /\ at' \in Nat
      BY LadderFacts DEF TypeOK, Attempts
    <3>4. Len(ladder) - at \in Int /\ Len(ladder') - at' \in Int
      BY <3>2, <3>3
    <3> QED
      BY <3>1, <3>4 DEF StepsLeft
  <2>3. ASSUME Cancel \/ Over
        PROVE  StepsLeft' = StepsLeft
    <3>1. UNCHANGED <<ladder, at, pc, ident>>
      BY <2>3 DEF Cancel, Over, vars
    <3>2. AttemptLeft' = AttemptLeft
      BY <3>1 DEF AttemptLeft
    <3> QED
      BY <3>1, <3>2 DEF StepsLeft
  <2> QED
    BY <2>1, <2>2, <2>3 DEF Next
<1> QED
  BY <1>1, TypeCorrect, PTL DEF Spec, RunsDown

=============================================================================
