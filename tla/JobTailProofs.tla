---------------------------- MODULE JobTailProofs ----------------------------
(***************************************************************************)
(* Proofs that JobTail shows the whole log and keeps the outcome, for any  *)
(* watchers, logs and limits.  IInv is shown to be inductive, action by    *)
(* action.                                                                 *)
(***************************************************************************)
EXTENDS JobTail, TLAPS

USE WatchersAssumption DEF Active

\* In the initial state nobody watches and nothing was logged.
LEMMA InvariantInit == Init => IInv
<1> SUFFICES ASSUME Init PROVE IInv
  OBVIOUS
<1>1. TypeOK
  <2>1. 0 \in 0 .. Events /\ 0 \in 0 .. Faults
    OBVIOUS
  <2> QED
    BY <2>1 DEF Init, TypeOK
<1>2. /\ EndIsSeen /\ AskedWhileRunning /\ TailShowsAll /\ OutcomeIsFinal
  BY DEF Init, EndIsSeen, AskedWhileRunning, TailShowsAll, OutcomeIsFinal,
     Watchers
<1> QED
  BY <1>1, <1>2 DEF IInv

\* The worker claims the job, or ends it as it was cancelled.
LEMMA ClaimKeeps ==
    ASSUME IInv, Claim
    PROVE  IInv'
<1> USE DEF IInv
<1>1. TypeOK'
  BY DEF TypeOK, Watchers, Over, Claim, Goto, row, view, FinishJob
<1>2. EndIsSeen'
  BY DEF TypeOK, EndIsSeen, Watchers, Claim, Goto, row, view, FinishJob
<1>3. AskedWhileRunning'
  BY DEF TypeOK, AskedWhileRunning, Claim, Goto, row, view, FinishJob
<1>4. TailShowsAll'
  BY DEF TypeOK, EndIsSeen, TailShowsAll, Watchers, Claim, Goto, row, view,
     FinishJob
<1>5. OutcomeIsFinal'
  BY DEF TypeOK, AskedWhileRunning, OutcomeIsFinal, Claim, Goto, row, view,
     FinishJob
<1> QED
  BY <1>1, <1>2, <1>3, <1>4, <1>5

\* The log grows only while the job runs.
LEMMA AppendEventKeeps ==
    ASSUME IInv, AppendEvent
    PROVE  IInv'
<1> USE DEF IInv
<1>1. TypeOK'
  BY DEF TypeOK, Watchers, Over, AppendEvent, Goto, row, view
<1>2. EndIsSeen'
  BY DEF TypeOK, EndIsSeen, Watchers, AppendEvent, Goto, row, view
<1>3. AskedWhileRunning'
  BY DEF TypeOK, AskedWhileRunning, AppendEvent, Goto, row, view
<1>4. TailShowsAll'
  BY DEF TypeOK, EndIsSeen, TailShowsAll, Watchers, AppendEvent, Goto, row,
     view
<1>5. OutcomeIsFinal'
  BY DEF TypeOK, AskedWhileRunning, OutcomeIsFinal, AppendEvent, Goto, row,
     view
<1> QED
  BY <1>1, <1>2, <1>3, <1>4, <1>5

\* The worker ends its job.
LEMMA FinishKeeps ==
    ASSUME IInv, Finish
    PROVE  IInv'
<1> USE DEF IInv
<1>1. TypeOK'
  BY DEF TypeOK, Watchers, Over, Finish, Goto, row, view, FinishJob
<1>2. EndIsSeen'
  BY DEF TypeOK, EndIsSeen, Watchers, Finish, Goto, row, view, FinishJob
<1>3. AskedWhileRunning'
  BY DEF TypeOK, AskedWhileRunning, Finish, Goto, row, view, FinishJob
<1>4. TailShowsAll'
  BY DEF TypeOK, EndIsSeen, TailShowsAll, Watchers, Finish, Goto, row, view,
     FinishJob
<1>5. OutcomeIsFinal'
  BY DEF TypeOK, AskedWhileRunning, OutcomeIsFinal, Finish, Goto, row, view,
     FinishJob
<1> QED
  BY <1>1, <1>2, <1>3, <1>4, <1>5

\* The worker dies.
LEMMA DieKeeps ==
    ASSUME IInv, Die
    PROVE  IInv'
<1> USE DEF IInv
<1>1. TypeOK'
  BY DEF TypeOK, Watchers, Over, Die, Goto, row, view
<1>2. EndIsSeen'
  BY DEF TypeOK, EndIsSeen, Watchers, Die, Goto, row, view
<1>3. AskedWhileRunning'
  BY DEF TypeOK, AskedWhileRunning, Die, Goto, row, view
<1>4. TailShowsAll'
  BY DEF TypeOK, EndIsSeen, TailShowsAll, Watchers, Die, Goto, row, view
<1>5. OutcomeIsFinal'
  BY DEF TypeOK, AskedWhileRunning, OutcomeIsFinal, Die, Goto, row, view
<1> QED
  BY <1>1, <1>2, <1>3, <1>4, <1>5

\* A dead worker's job is ended.
LEMMA ReconcileElsewhereKeeps ==
    ASSUME IInv, ReconcileElsewhere
    PROVE  IInv'
<1> USE DEF IInv
<1>1. TypeOK'
  BY DEF TypeOK, Watchers, Over, ReconcileElsewhere, Goto, row, view,
     Interrupt, FinishJob
<1>2. EndIsSeen'
  BY DEF TypeOK, EndIsSeen, Watchers, ReconcileElsewhere, Goto, row, view,
     Interrupt, FinishJob
<1>3. AskedWhileRunning'
  BY DEF TypeOK, AskedWhileRunning, ReconcileElsewhere, Goto, row, view,
     Interrupt, FinishJob
<1>4. TailShowsAll'
  BY DEF TypeOK, EndIsSeen, TailShowsAll, Watchers, ReconcileElsewhere, Goto,
     row, view, Interrupt, FinishJob
<1>5. OutcomeIsFinal'
  BY DEF TypeOK, AskedWhileRunning, OutcomeIsFinal, ReconcileElsewhere, Goto,
     row, view, Interrupt, FinishJob
<1> QED
  BY <1>1, <1>2, <1>3, <1>4, <1>5

\* A tail begins.
LEMMA OpenKeeps ==
    ASSUME IInv, NEW t \in Tails, Open(t)
    PROVE  IInv'
<1> USE DEF IInv
<1>1. TypeOK'
  BY DEF TypeOK, Watchers, Over, Open, Goto, row, view
<1>2. EndIsSeen'
  BY DEF TypeOK, EndIsSeen, Watchers, Open, Goto, row, view
<1>3. AskedWhileRunning'
  BY DEF TypeOK, AskedWhileRunning, Open, Goto, row, view
<1>4. TailShowsAll'
  BY DEF TypeOK, EndIsSeen, TailShowsAll, Watchers, Open, Goto, row, view
<1>5. OutcomeIsFinal'
  BY DEF TypeOK, AskedWhileRunning, OutcomeIsFinal, Open, Goto, row, view
<1> QED
  BY <1>1, <1>2, <1>3, <1>4, <1>5

\* A session asks only for a job that runs.
LEMMA CancelDeploymentKeeps ==
    ASSUME IInv, NEW t \in Tails, CancelDeployment(t)
    PROVE  IInv'
<1> USE DEF IInv
<1>1. TypeOK'
  BY DEF TypeOK, Watchers, Over, CancelDeployment, Goto, row, view,
     StoreFails, Free
<1>2. EndIsSeen'
  BY DEF TypeOK, EndIsSeen, Watchers, CancelDeployment, Goto, row, view,
     StoreFails, Free
<1>3. AskedWhileRunning'
  BY DEF TypeOK, AskedWhileRunning, CancelDeployment, Goto, row, view,
     StoreFails, Free
<1>4. TailShowsAll'
  BY DEF TypeOK, EndIsSeen, TailShowsAll, Watchers, CancelDeployment, Goto,
     row, view, StoreFails, Free
<1>5. OutcomeIsFinal'
  BY DEF TypeOK, AskedWhileRunning, OutcomeIsFinal, CancelDeployment, Goto,
     row, view, StoreFails, Free
<1> QED
  BY <1>1, <1>2, <1>3, <1>4, <1>5

\* A command begins.
LEMMA FollowKeeps ==
    ASSUME IInv, NEW f \in Follows, Follow(f)
    PROVE  IInv'
<1> USE DEF IInv
<1>1. TypeOK'
  BY DEF TypeOK, Watchers, Over, Follow, Goto, row, view
<1>2. EndIsSeen'
  BY DEF TypeOK, EndIsSeen, Watchers, Follow, Goto, row, view
<1>3. AskedWhileRunning'
  BY DEF TypeOK, AskedWhileRunning, Follow, Goto, row, view
<1>4. TailShowsAll'
  BY DEF TypeOK, EndIsSeen, TailShowsAll, Watchers, Follow, Goto, row, view
<1>5. OutcomeIsFinal'
  BY DEF TypeOK, AskedWhileRunning, OutcomeIsFinal, Follow, Goto, row, view
<1> QED
  BY <1>1, <1>2, <1>3, <1>4, <1>5

\* A monitor that is reopened reads the row.
LEMMA ReopenReadsRowKeeps ==
    ASSUME IInv, NEW t \in Tails, ReopenReadsRow(t)
    PROVE  IInv'
<1> USE DEF IInv
<1>1. TypeOK'
  BY DEF TypeOK, Watchers, Over, ReopenReadsRow, Goto, row, view
<1>2. EndIsSeen'
  BY DEF TypeOK, EndIsSeen, Watchers, ReopenReadsRow, Goto, row, view
<1>3. AskedWhileRunning'
  BY DEF TypeOK, AskedWhileRunning, ReopenReadsRow, Goto, row, view
<1>4. TailShowsAll'
  BY DEF TypeOK, EndIsSeen, TailShowsAll, Watchers, ReopenReadsRow, Goto, row,
     view
<1>5. OutcomeIsFinal'
  BY DEF TypeOK, AskedWhileRunning, OutcomeIsFinal, ReopenReadsRow, Goto, row,
     view
<1> QED
  BY <1>1, <1>2, <1>3, <1>4, <1>5

\* It is done with a log it has read, or could not.
LEMMA ReopenReadsLogKeeps ==
    ASSUME IInv, NEW t \in Tails, ReopenReadsLog(t)
    PROVE  IInv'
<1> USE DEF IInv
<1>1. TypeOK'
  BY DEF TypeOK, Watchers, Over, ReopenReadsLog, Goto, row, view, Fetch,
     StoreFails
<1>2. EndIsSeen'
  BY DEF TypeOK, EndIsSeen, Watchers, ReopenReadsLog, Goto, row, view, Fetch,
     StoreFails
<1>3. AskedWhileRunning'
  BY DEF TypeOK, AskedWhileRunning, ReopenReadsLog, Goto, row, view, Fetch,
     StoreFails
<1>4. TailShowsAll'
  BY DEF TypeOK, EndIsSeen, TailShowsAll, Watchers, ReopenReadsLog, Goto, row,
     view, Fetch, StoreFails
<1>5. OutcomeIsFinal'
  BY DEF TypeOK, AskedWhileRunning, OutcomeIsFinal, ReopenReadsLog, Goto, row,
     view, Fetch, StoreFails
<1> QED
  BY <1>1, <1>2, <1>3, <1>4, <1>5

\* A tail reads the row.
LEMMA TailReadsRowKeeps ==
    ASSUME IInv, NEW t \in Tails, TailReadsRow(t)
    PROVE  IInv'
<1> USE DEF IInv
<1>1. TypeOK'
  BY DEF TypeOK, Watchers, Over, TailReadsRow, Goto, row, view, Free
<1>2. EndIsSeen'
  BY DEF TypeOK, EndIsSeen, Watchers, TailReadsRow, Goto, row, view, Free
<1>3. AskedWhileRunning'
  BY DEF TypeOK, AskedWhileRunning, TailReadsRow, Goto, row, view, Free
<1>4. TailShowsAll'
  BY DEF TypeOK, EndIsSeen, TailShowsAll, Watchers, TailReadsRow, Goto, row,
     view, Free
<1>5. OutcomeIsFinal'
  BY DEF TypeOK, AskedWhileRunning, OutcomeIsFinal, TailReadsRow, Goto, row,
     view, Free
<1> QED
  BY <1>1, <1>2, <1>3, <1>4, <1>5

\* A tail is done with a log that it read after the end.
LEMMA TailReadsLogKeeps ==
    ASSUME IInv, NEW t \in Tails, TailReadsLog(t)
    PROVE  IInv'
<1> USE DEF IInv
<1>1. TypeOK'
  BY DEF TypeOK, Watchers, Over, TailReadsLog, Goto, row, view, Fetch, Free
<1>2. EndIsSeen'
  BY DEF TypeOK, EndIsSeen, Watchers, TailReadsLog, Goto, row, view, Fetch,
     Free
<1>3. AskedWhileRunning'
  BY DEF TypeOK, AskedWhileRunning, TailReadsLog, Goto, row, view, Fetch, Free
<1>4. TailShowsAll'
  BY DEF TypeOK, EndIsSeen, TailShowsAll, Watchers, TailReadsLog, Goto, row,
     view, Fetch, Free
<1>5. OutcomeIsFinal'
  BY DEF TypeOK, AskedWhileRunning, OutcomeIsFinal, TailReadsLog, Goto, row,
     view, Fetch, Free
<1> QED
  BY <1>1, <1>2, <1>3, <1>4, <1>5

\* A tail asks again only for a job that runs.
LEMMA MirrorKeeps ==
    ASSUME IInv, NEW t \in Tails, Mirror(t)
    PROVE  IInv'
<1> USE DEF IInv
<1>1. TypeOK'
  BY DEF TypeOK, Watchers, Over, Mirror, Goto, row, view, StoreFails, Free
<1>2. EndIsSeen'
  BY DEF TypeOK, EndIsSeen, Watchers, Mirror, Goto, row, view, StoreFails,
     Free
<1>3. AskedWhileRunning'
  BY DEF TypeOK, AskedWhileRunning, Mirror, Goto, row, view, StoreFails, Free
<1>4. TailShowsAll'
  BY DEF TypeOK, EndIsSeen, TailShowsAll, Watchers, Mirror, Goto, row, view,
     StoreFails, Free
<1>5. OutcomeIsFinal'
  BY DEF TypeOK, AskedWhileRunning, OutcomeIsFinal, Mirror, Goto, row, view,
     StoreFails, Free
<1> QED
  BY <1>1, <1>2, <1>3, <1>4, <1>5

\* A command ends the job of a dead worker.
LEMMA FollowReconcilesKeeps ==
    ASSUME IInv, NEW f \in Follows, FollowReconciles(f)
    PROVE  IInv'
<1> USE DEF IInv
<1>1. TypeOK'
  BY DEF TypeOK, Watchers, Over, FollowReconciles, Goto, row, view, Interrupt,
     FinishJob
<1>2. EndIsSeen'
  BY DEF TypeOK, EndIsSeen, Watchers, FollowReconciles, Goto, row, view,
     Interrupt, FinishJob
<1>3. AskedWhileRunning'
  BY DEF TypeOK, AskedWhileRunning, FollowReconciles, Goto, row, view,
     Interrupt, FinishJob
<1>4. TailShowsAll'
  BY DEF TypeOK, EndIsSeen, TailShowsAll, Watchers, FollowReconciles, Goto,
     row, view, Interrupt, FinishJob
<1>5. OutcomeIsFinal'
  BY DEF TypeOK, AskedWhileRunning, OutcomeIsFinal, FollowReconciles, Goto,
     row, view, Interrupt, FinishJob
<1> QED
  BY <1>1, <1>2, <1>3, <1>4, <1>5

\* A command reads the log.
LEMMA FollowReadsLogKeeps ==
    ASSUME IInv, NEW f \in Follows, FollowReadsLog(f)
    PROVE  IInv'
<1> USE DEF IInv
<1>1. TypeOK'
  BY DEF TypeOK, Watchers, Over, FollowReadsLog, Goto, row, view, Fetch
<1>2. EndIsSeen'
  BY DEF TypeOK, EndIsSeen, Watchers, FollowReadsLog, Goto, row, view, Fetch
<1>3. AskedWhileRunning'
  BY DEF TypeOK, AskedWhileRunning, FollowReadsLog, Goto, row, view, Fetch
<1>4. TailShowsAll'
  BY DEF TypeOK, EndIsSeen, TailShowsAll, Watchers, FollowReadsLog, Goto, row,
     view, Fetch
<1>5. OutcomeIsFinal'
  BY DEF TypeOK, AskedWhileRunning, OutcomeIsFinal, FollowReadsLog, Goto, row,
     view, Fetch
<1> QED
  BY <1>1, <1>2, <1>3, <1>4, <1>5

\* A command is done when the row says ended.
LEMMA FollowReadsRowKeeps ==
    ASSUME IInv, NEW f \in Follows, FollowReadsRow(f)
    PROVE  IInv'
<1> USE DEF IInv
<1>1. TypeOK'
  BY DEF TypeOK, Watchers, Over, FollowReadsRow, Goto, row, view
<1>2. EndIsSeen'
  BY DEF TypeOK, EndIsSeen, Watchers, FollowReadsRow, Goto, row, view
<1>3. AskedWhileRunning'
  BY DEF TypeOK, AskedWhileRunning, FollowReadsRow, Goto, row, view
<1>4. TailShowsAll'
  BY DEF TypeOK, EndIsSeen, TailShowsAll, Watchers, FollowReadsRow, Goto, row,
     view
<1>5. OutcomeIsFinal'
  BY DEF TypeOK, AskedWhileRunning, OutcomeIsFinal, FollowReadsRow, Goto, row,
     view
<1> QED
  BY <1>1, <1>2, <1>3, <1>4, <1>5

\* A watcher breaks off.
LEMMA BreakKeeps ==
    ASSUME IInv, NEW w \in Watchers, Break(w)
    PROVE  IInv'
<1> USE DEF IInv
<1>1. TypeOK'
  BY DEF TypeOK, Watchers, Over, Break, Goto, row, view, StoreFails, Free,
     Over
<1>2. EndIsSeen'
  BY DEF TypeOK, EndIsSeen, Watchers, Break, Goto, row, view, StoreFails,
     Free, Over
<1>3. AskedWhileRunning'
  BY DEF TypeOK, AskedWhileRunning, Break, Goto, row, view, StoreFails, Free,
     Over
<1>4. TailShowsAll'
  BY DEF TypeOK, EndIsSeen, TailShowsAll, Watchers, Break, Goto, row, view,
     StoreFails, Free, Over
<1>5. OutcomeIsFinal'
  BY DEF TypeOK, AskedWhileRunning, OutcomeIsFinal, Break, Goto, row, view,
     StoreFails, Free, Over
<1> QED
  BY <1>1, <1>2, <1>3, <1>4, <1>5

\* A watcher is left.
LEMMA LeaveKeeps ==
    ASSUME IInv, NEW w \in Watchers, Leave(w)
    PROVE  IInv'
<1> USE DEF IInv
<1>1. TypeOK'
  BY DEF TypeOK, Watchers, Over, Leave, Goto, row, view, Over
<1>2. EndIsSeen'
  BY DEF TypeOK, EndIsSeen, Watchers, Leave, Goto, row, view, Over
<1>3. AskedWhileRunning'
  BY DEF TypeOK, AskedWhileRunning, Leave, Goto, row, view, Over
<1>4. TailShowsAll'
  BY DEF TypeOK, EndIsSeen, TailShowsAll, Watchers, Leave, Goto, row, view,
     Over
<1>5. OutcomeIsFinal'
  BY DEF TypeOK, AskedWhileRunning, OutcomeIsFinal, Leave, Goto, row, view,
     Over
<1> QED
  BY <1>1, <1>2, <1>3, <1>4, <1>5

\* A command asks only for a job that runs.
LEMMA CancelJobKeeps ==
    ASSUME IInv, CancelJob
    PROVE  IInv'
<1> USE DEF IInv
<1>1. TypeOK'
  BY DEF TypeOK, Watchers, Over, CancelJob, Goto, row, view, Free
<1>2. EndIsSeen'
  BY DEF TypeOK, EndIsSeen, Watchers, CancelJob, Goto, row, view, Free
<1>3. AskedWhileRunning'
  BY DEF TypeOK, AskedWhileRunning, CancelJob, Goto, row, view, Free
<1>4. TailShowsAll'
  BY DEF TypeOK, EndIsSeen, TailShowsAll, Watchers, CancelJob, Goto, row,
     view, Free
<1>5. OutcomeIsFinal'
  BY DEF TypeOK, AskedWhileRunning, OutcomeIsFinal, CancelJob, Goto, row,
     view, Free
<1> QED
  BY <1>1, <1>2, <1>3, <1>4, <1>5

\* A cancellation that was asked for in time is written late only if the job ended meanwhile.
LEMMA RequestKeeps ==
    ASSUME IInv, NEW c \in Tails \cup {Cli}, Request(c)
    PROVE  IInv'
<1> USE DEF IInv
<1>1. TypeOK'
  BY DEF TypeOK, Watchers, Over, Request, Goto, row, view
<1>2. EndIsSeen'
  BY DEF TypeOK, EndIsSeen, Watchers, Request, Goto, row, view
<1>3. AskedWhileRunning'
  BY DEF TypeOK, AskedWhileRunning, Request, Goto, row, view
<1>4. TailShowsAll'
  BY DEF TypeOK, EndIsSeen, TailShowsAll, Watchers, Request, Goto, row, view
<1>5. OutcomeIsFinal'
  BY DEF TypeOK, AskedWhileRunning, OutcomeIsFinal, Request, Goto, row, view
<1> QED
  BY <1>1, <1>2, <1>3, <1>4, <1>5

\* Every step keeps IInv.
LEMMA InvariantStep == IInv /\ [Next]_vars => IInv'
<1> SUFFICES ASSUME IInv, [Next]_vars PROVE IInv'
  OBVIOUS
<1>1. ASSUME AppendEvent PROVE IInv'
  BY <1>1, AppendEventKeeps
<1>2. ASSUME Finish PROVE IInv'
  BY <1>2, FinishKeeps
<1>3. ASSUME Die PROVE IInv'
  BY <1>3, DieKeeps
<1>4. ASSUME ReconcileElsewhere PROVE IInv'
  BY <1>4, ReconcileElsewhereKeeps
<1>5. ASSUME NEW t \in Tails, Open(t) PROVE IInv'
  BY <1>5, OpenKeeps
<1>6. ASSUME NEW t \in Tails, CancelDeployment(t) PROVE IInv'
  BY <1>6, CancelDeploymentKeeps
<1>7. ASSUME NEW f \in Follows, Follow(f) PROVE IInv'
  BY <1>7, FollowKeeps
<1>8. ASSUME NEW t \in Tails, ReopenReadsRow(t) PROVE IInv'
  BY <1>8, ReopenReadsRowKeeps
<1>9. ASSUME NEW t \in Tails, ReopenReadsLog(t) PROVE IInv'
  BY <1>9, ReopenReadsLogKeeps
<1>10. ASSUME NEW t \in Tails, TailReadsRow(t) PROVE IInv'
  BY <1>10, TailReadsRowKeeps
<1>11. ASSUME NEW t \in Tails, TailReadsLog(t) PROVE IInv'
  BY <1>11, TailReadsLogKeeps
<1>12. ASSUME NEW t \in Tails, Mirror(t) PROVE IInv'
  BY <1>12, MirrorKeeps
<1>13. ASSUME NEW f \in Follows, FollowReconciles(f) PROVE IInv'
  BY <1>13, FollowReconcilesKeeps
<1>14. ASSUME NEW f \in Follows, FollowReadsLog(f) PROVE IInv'
  BY <1>14, FollowReadsLogKeeps
<1>15. ASSUME NEW f \in Follows, FollowReadsRow(f) PROVE IInv'
  BY <1>15, FollowReadsRowKeeps
<1>16. ASSUME NEW w \in Watchers, Break(w) PROVE IInv'
  BY <1>16, BreakKeeps
<1>17. ASSUME NEW w \in Watchers, Leave(w) PROVE IInv'
  BY <1>17, LeaveKeeps
<1>18. ASSUME CancelJob PROVE IInv'
  BY <1>18, CancelJobKeeps
<1>19. ASSUME NEW c \in Tails \cup {Cli}, Request(c) PROVE IInv'
  BY <1>19, RequestKeeps
<1>20. CASE UNCHANGED vars
  BY <1>20 DEF IInv, TypeOK, EndIsSeen, AskedWhileRunning, TailShowsAll,
     OutcomeIsFinal, vars, view, row
<1>21. ASSUME Claim PROVE IInv'
  BY <1>21, ClaimKeeps
<1> QED
  BY <1>1, <1>2, <1>3, <1>4, <1>5, <1>6, <1>7, <1>8, <1>9, <1>10, <1>11,
     <1>12, <1>13, <1>14, <1>15, <1>16, <1>17, <1>18, <1>19, <1>20, <1>21 DEF Next,
     Watch

\* IInv holds in every reachable state.
THEOREM Invariance == Spec => []IInv
<1>1. Init => IInv
  BY InvariantInit
<1>2. IInv /\ [Next]_vars => IInv'
  BY InvariantStep
<1> QED
  BY <1>1, <1>2, PTL DEF Spec

\* The variables keep their types.
THEOREM TypeCorrect == Spec => []TypeOK
<1>1. IInv => TypeOK
  BY DEF IInv
<1> QED
  BY <1>1, Invariance, PTL

\* app.py:1016-1018: a monitor that has seen its job's end has shown the whole log, but
\* for the limit of a read and a log that could not be restored.
THEOREM WholeLogIsShown == Spec => []TailShowsAll
<1>1. IInv => TailShowsAll
  BY DEF IInv
<1> QED
  BY <1>1, Invariance, PTL

\* What an ended job says is its outcome, unless it ended between the two statements of
\* a cancellation.
THEOREM OutcomeStands == Spec => []OutcomeIsFinal
<1>1. IInv => OutcomeIsFinal
  BY DEF IInv
<1> QED
  BY <1>1, Invariance, PTL

=============================================================================
