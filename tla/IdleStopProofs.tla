---------------------------- MODULE IdleStopProofs ----------------------------
(***************************************************************************)
(* Proofs that IdleStop decides rightly and gives up last, for windows,    *)
(* graces and numbers of attempts of any length.  IInv is shown to be      *)
(* inductive, action by action.                                            *)
(***************************************************************************)
EXTENDS IdleStop, TLAPS

USE WindowAssumption

\* The watch begins with all its attempts and has seen nothing.
LEMMA InvariantInit == Init => IInv
<1> SUFFICES ASSUME Init PROVE IInv
  OBVIOUS
<1>1. TypeOK
  <2>1. 0 \in 0 .. Idle /\ 0 \in 0 .. Grace /\ 0 \in 0 .. Attempts
    OBVIOUS
  <2> QED
    BY <2>1 DEF Init, TypeOK
<1>2. TriesLeft /\ IdleIsQuiet /\ GivesUpLast
  BY DEF Init, TriesLeft, IdleIsQuiet, GivesUpLast
<1> QED
  BY <1>1, <1>2 DEF IInv

\* The runtime comes up.
LEMMA ComeUpKeeps ==
    ASSUME IInv, ComeUp
    PROVE  IInv'
<1> USE DEF IInv
<1>1. TypeOK'
  BY DEF TypeOK, TriesLeft, ComeUp
<1>2. TriesLeft'
  BY DEF TypeOK, TriesLeft, ComeUp
<1>3. IdleIsQuiet'
  BY DEF TypeOK, IdleIsQuiet, ComeUp
<1>4. GivesUpLast'
  BY DEF TypeOK, TriesLeft, GivesUpLast, ComeUp
<1> QED
  BY <1>1, <1>2, <1>3, <1>4

\* A request sets the time back and moves a counter.
LEMMA RequestKeeps ==
    ASSUME IInv, Request
    PROVE  IInv'
<1> USE DEF IInv
<1>1. TypeOK'
  BY DEF TypeOK, TriesLeft, Request
<1>2. TriesLeft'
  BY DEF TypeOK, TriesLeft, Request
<1>3. IdleIsQuiet'
  BY DEF TypeOK, IdleIsQuiet, Request
<1>4. GivesUpLast'
  BY DEF TypeOK, TriesLeft, GivesUpLast, Request
<1> QED
  BY <1>1, <1>2, <1>3, <1>4

\* Time passes for both alike.
LEMMA TickKeeps ==
    ASSUME IInv, Tick
    PROVE  IInv'
<1> USE DEF IInv
<1>1. TypeOK'
  BY DEF TypeOK, TriesLeft, Tick, Older
<1>2. TriesLeft'
  BY DEF TypeOK, TriesLeft, Tick, Older
<1>3. IdleIsQuiet'
  BY DEF TypeOK, IdleIsQuiet, Tick, Older
<1>4. GivesUpLast'
  BY DEF TypeOK, TriesLeft, GivesUpLast, Tick, Older
<1> QED
  BY <1>1, <1>2, <1>3, <1>4

\* So it does while the computer sleeps.
LEMMA OversleepKeeps ==
    ASSUME IInv, Oversleep
    PROVE  IInv'
<1> USE DEF IInv
<1>1. TypeOK'
  BY DEF TypeOK, TriesLeft, Oversleep, Older
<1>2. TriesLeft'
  BY DEF TypeOK, TriesLeft, Oversleep, Older
<1>3. IdleIsQuiet'
  BY DEF TypeOK, IdleIsQuiet, Oversleep, Older
<1>4. GivesUpLast'
  BY DEF TypeOK, TriesLeft, GivesUpLast, Oversleep, Older
<1> QED
  BY <1>1, <1>2, <1>3, <1>4

\* A rental that ends takes its script with it.
LEMMA EndKeeps ==
    ASSUME IInv, End
    PROVE  IInv'
<1> USE DEF IInv
<1>1. TypeOK'
  BY DEF TypeOK, TriesLeft, End
<1>2. TriesLeft'
  BY DEF TypeOK, TriesLeft, End
<1>3. IdleIsQuiet'
  BY DEF TypeOK, IdleIsQuiet, End
<1>4. GivesUpLast'
  BY DEF TypeOK, TriesLeft, GivesUpLast, End
<1> QED
  BY <1>1, <1>2, <1>3, <1>4

\* A look at the counters finds them as they are, or fails.
LEMMA PollKeeps ==
    ASSUME IInv, Poll
    PROVE  IInv'
<1> USE DEF IInv
<1>1. TypeOK'
  <2>1. 0 \in 0 .. Idle
    OBVIOUS
  <2>2. pc' \in {"poll", "sleep", "destroy", "again", "ended"}
    BY DEF Poll, PodIsGone
  <2>3. /\ healthy' \in BOOLEAN /\ moved' \in BOOLEAN /\ blind' \in BOOLEAN
        /\ idle' \in 0 .. Idle
    <3>1. CASE Answered
      BY <2>1, <3>1 DEF TypeOK, Answered
    <3>2. CASE Unanswered \/ PodIsGone
      BY <3>2 DEF TypeOK, Unanswered, PodIsGone
    <3> QED
      BY <3>1, <3>2 DEF Poll
  <2>4. /\ guard' = guard /\ machine' = machine /\ serving' = serving
        /\ inflight' = inflight /\ quiet' = quiet /\ age' = age /\ tries' = tries
    BY DEF Poll
  <2> QED
    BY <2>2, <2>3, <2>4 DEF TypeOK
<1>2. TriesLeft'
  BY DEF TypeOK, TriesLeft, Poll, Answered, Unanswered, Expired, PodIsGone
<1>3. IdleIsQuiet'
  BY DEF TypeOK, IdleIsQuiet, Poll, Answered, Unanswered, Expired, PodIsGone
<1>4. GivesUpLast'
  BY DEF TypeOK, TriesLeft, GivesUpLast, Poll, Answered, Unanswered, Expired,
     PodIsGone
<1> QED
  BY <1>1, <1>2, <1>3, <1>4

\* An attempt succeeds, or is counted.
LEMMA DestroyHereKeeps ==
    ASSUME IInv, DestroyHere
    PROVE  IInv'
<1> USE DEF IInv
<1>1. TypeOK'
  <2>1. tries' \in 0 .. Attempts
    BY DEF TypeOK, TriesLeft, DestroyHere
  <2>2. machine' \in {"up", "gone"} /\ inflight' \in BOOLEAN
    BY DEF TypeOK, DestroyHere, Destroyed
  <2>3. pc' \in {"poll", "sleep", "destroy", "again", "ended"}
    BY DEF DestroyHere
  <2>4. /\ guard' = guard /\ serving' = serving /\ moved' = moved /\ quiet' = quiet
        /\ healthy' = healthy /\ age' = age /\ idle' = idle /\ blind' = blind
    BY DEF DestroyHere
  <2> QED
    BY <2>1, <2>2, <2>3, <2>4 DEF TypeOK
<1>2. TriesLeft'
  BY DEF TypeOK, TriesLeft, DestroyHere, Destroyed
<1>3. IdleIsQuiet'
  BY DEF TypeOK, IdleIsQuiet, DestroyHere, Destroyed
<1>4. GivesUpLast'
  BY DEF TypeOK, TriesLeft, GivesUpLast, DestroyHere, Destroyed
<1> QED
  BY <1>1, <1>2, <1>3, <1>4

\* The watch on the computer ends with its attempt.
LEMMA StopThereKeeps ==
    ASSUME IInv, StopThere
    PROVE  IInv'
<1> USE DEF IInv
<1>1. TypeOK'
  BY DEF TypeOK, TriesLeft, StopThere, Destroyed
<1>2. TriesLeft'
  BY DEF TypeOK, TriesLeft, StopThere, Destroyed
<1>3. IdleIsQuiet'
  BY DEF TypeOK, IdleIsQuiet, StopThere, Destroyed
<1>4. GivesUpLast'
  BY DEF TypeOK, TriesLeft, GivesUpLast, StopThere, Destroyed
<1> QED
  BY <1>1, <1>2, <1>3, <1>4

\* Every step keeps IInv.
LEMMA InvariantStep == IInv /\ [Next]_vars => IInv'
<1> SUFFICES ASSUME IInv, [Next]_vars PROVE IInv'
  OBVIOUS
<1>1. ASSUME ComeUp PROVE IInv'
  BY <1>1, ComeUpKeeps
<1>2. ASSUME Request PROVE IInv'
  BY <1>2, RequestKeeps
<1>3. ASSUME Tick PROVE IInv'
  BY <1>3, TickKeeps
<1>4. ASSUME Oversleep PROVE IInv'
  BY <1>4, OversleepKeeps
<1>5. ASSUME End PROVE IInv'
  BY <1>5, EndKeeps
<1>6. ASSUME Poll PROVE IInv'
  BY <1>6, PollKeeps
<1>7. ASSUME DestroyHere PROVE IInv'
  BY <1>7, DestroyHereKeeps
<1>8. ASSUME StopThere PROVE IInv'
  BY <1>8, StopThereKeeps
<1>9. CASE UNCHANGED vars
  BY <1>9 DEF IInv, TypeOK, TriesLeft, IdleIsQuiet, GivesUpLast, vars
<1> QED
  BY <1>1, <1>2, <1>3, <1>4, <1>5, <1>6, <1>7, <1>8, <1>9 DEF Next, Watch

\* IInv holds in every reachable state.
THEOREM Invariance == Spec => []IInv
<1>1. Init => IInv
  BY InvariantInit
<1>2. IInv /\ [Next]_vars => IInv'
  BY InvariantStep
<1> QED
  BY <1>1, <1>2, PTL DEF Spec

\* The variables keep their types.
THEOREM TypeCorrect == Spec => []TypeOK
<1>1. IInv => TypeOK
  BY DEF IInv
<1> QED
  BY <1>1, Invariance, PTL

\* The script leaves a machine that is up only after its last attempt.
THEOREM GivingUpIsLast == Spec => []GivesUpLast
<1>1. IInv => GivesUpLast
  BY DEF IInv
<1> QED
  BY <1>1, Invariance, PTL

\* A look that got an answer decides to destroy only after a whole idle window.
LEMMA PollDecides ==
    ASSUME IInv, Poll, pc' = "destroy"
    PROVE  quiet >= Idle \/ blind'
<1>1. quiet \in Nat /\ idle \in Nat
  BY DEF IInv, TypeOK
<1>2. CASE Answered
  <2>1. healthy' /\ machine = "up"
    BY <1>2 DEF Answered
  <2>2. idle' >= Idle
    BY <2>1, <1>2 DEF Poll, PodIsGone, Expired
  <2>3. ~moved /\ ~inflight /\ idle' = idle
    BY <2>2, <1>2 DEF Answered
  <2> QED
    BY <2>1, <2>2, <2>3, <1>1 DEF IInv, IdleIsQuiet
<1>3. CASE Unanswered
  BY <1>3 DEF Unanswered
<1> QED
  BY <1>2, <1>3 DEF Poll, PodIsGone

\* idle_watchdog.py:124-129, local_watchdog.py:94-97: a machine is destroyed only when it
\* served nothing for the whole idle window, or the watch could not see.
THEOREM DecisionIsRight == Spec => DecidedWhenIdle
<1>1. IInv /\ [Next]_vars =>
         [pc = "poll" /\ pc' = "destroy" => quiet >= Idle \/ blind']_vars
  <2> SUFFICES ASSUME IInv, Next, pc = "poll", pc' = "destroy"
               PROVE  quiet >= Idle \/ blind'
    OBVIOUS
  <2>1. Poll
    BY DEF Next, Watch, ComeUp, Request, Tick, Oversleep, End, DestroyHere,
       StopThere
  <2> QED
    BY <2>1, PollDecides
<1> QED
  BY <1>1, Invariance, PTL DEF Spec, DecidedWhenIdle

=============================================================================
