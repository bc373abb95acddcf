--------------------------- MODULE PrimeDisksProofs ---------------------------
(***************************************************************************)
(* Proofs that PrimeDisks keeps its safety properties for any disks and    *)
(* threads.  IInv is shown to be inductive, action by action.              *)
(***************************************************************************)
EXTENDS PrimeDisks, TLAPS

USE NoDiskAssumption

\* In the initial state there are no disks and no thread is at work.
LEMMA InvariantInit == Init => IInv
<1> SUFFICES ASSUME Init PROVE IInv
  OBVIOUS
<1>1. TypeOK
  BY DEF Init, TypeOK, DiskStates, PCs
<1>2. WorksOnDisk /\ WritersAgree
  BY DEF Init, WorksOnDisk, WritersAgree, Writers, Writing, Changing
<1>3. ForgetsExcused /\ DroppedFailed /\ PrunesGone
  BY DEF Init, ForgetsExcused, DroppedFailed, PrunesGone, Writing, Changing
<1>4. DiskIsAccounted
  BY DEF Init, DiskIsAccounted, Billing
<1> QED
  BY <1>1, <1>2, <1>3, <1>4 DEF IInv

\* A change begins with what the file says, unless another is under way.
LEMMA ReadKeeps ==
    ASSUME IInv, NEW t \in Threads, Read(t)
    PROVE  IInv'
<1> USE DEF IInv
<1>1. TypeOK'
  BY DEF TypeOK, DiskStates, PCs, WorksOnDisk, Writing, Changing, Written,
     Disputed, Writers, Read, Goto, Hold, Todo, provider, change, history
<1>2. WorksOnDisk'
  BY DEF TypeOK, WorksOnDisk, Writing, Changing, Read, Goto, Hold, Todo,
     provider, change, history
<1>3. WritersAgree'
  BY DEF TypeOK, WorksOnDisk, WritersAgree, Writers, Written, Disputed,
     Writing, Changing, Read, Goto, Hold, Todo, provider, change, history
<1>4. ForgetsExcused'
  BY DEF TypeOK, WorksOnDisk, ForgetsExcused, PrunesGone, Writing, Changing,
     Read, Goto, Hold, Todo, provider, change, history
<1>5. DroppedFailed'
  BY DEF TypeOK, WorksOnDisk, DroppedFailed, Read, Goto, Hold, Todo,
     provider, change, history
<1>6. PrunesGone'
  BY DEF TypeOK, WorksOnDisk, PrunesGone, Billing, DiskStates, Writing,
     Changing, Read, Goto, Hold, Todo, provider, change, history
<1>7. DiskIsAccounted'
  BY DEF TypeOK, WorksOnDisk, WritersAgree, ForgetsExcused, PrunesGone,
     DiskIsAccounted, Billing, Excused, InHand, Holds, Writers, Written,
     Writing, Changing, Read, Goto, Hold, Todo, provider, change, history
<1> QED
  BY <1>1, <1>2, <1>3, <1>4, <1>5, <1>6, <1>7

\* What the file said is in the hands of the thread that emptied it.
LEMMA TruncateKeeps ==
    ASSUME IInv, NEW t \in Threads, Truncate(t)
    PROVE  IInv'
<1> USE DEF IInv
<1>1. TypeOK'
  BY DEF TypeOK, DiskStates, PCs, WorksOnDisk, Writing, Changing, Truncate,
     Goto, Hold, Todo, provider, change, history
<1>2. WorksOnDisk'
  BY DEF TypeOK, WorksOnDisk, Writing, Changing, Truncate, Goto, Hold, Todo,
     provider, change, history
<1>3. WritersAgree'
  BY DEF TypeOK, WorksOnDisk, WritersAgree, Writers, Written, Writing,
     Changing, Truncate, Goto, Hold, Todo, provider, change, history
<1>4. ForgetsExcused'
  BY DEF TypeOK, WorksOnDisk, ForgetsExcused, PrunesGone, Writing, Changing,
     Truncate, Goto, Hold, Todo, provider, change, history
<1>5. DroppedFailed'
  BY DEF TypeOK, WorksOnDisk, DroppedFailed, Truncate, Goto, Hold, Todo,
     provider, change, history
<1>6. PrunesGone'
  BY DEF TypeOK, WorksOnDisk, PrunesGone, Billing, DiskStates, Writing,
     Changing, Truncate, Goto, Hold, Todo, provider, change, history
<1>7. DiskIsAccounted'
  BY DEF TypeOK, WorksOnDisk, WritersAgree, ForgetsExcused, PrunesGone,
     DiskIsAccounted, Billing, Excused, InHand, Holds, Writers, Written,
     Writing, Changing, Truncate, Goto, Hold, Todo, provider, change,
     history
<1> QED
  BY <1>1, <1>2, <1>3, <1>4, <1>5, <1>6, <1>7

\* The file says again what it said, with the change.
LEMMA FlushKeeps ==
    ASSUME IInv, NEW t \in Threads, Flush(t)
    PROVE  IInv'
<1> USE DEF IInv
<1>1. TypeOK'
  BY DEF TypeOK, DiskStates, PCs, WorksOnDisk, Writing, Changing, Written,
     Writers, Flush, Goto, Hold, Todo, provider, change, history
<1>2. WorksOnDisk'
  BY DEF TypeOK, WorksOnDisk, Writing, Changing, Flush, Goto, Hold, Todo,
     provider, change, history
<1>3. WritersAgree'
  BY DEF TypeOK, WorksOnDisk, WritersAgree, Writers, Written, Writing,
     Changing, Flush, Goto, Hold, Todo, provider, change, history
<1>4. ForgetsExcused'
  BY DEF TypeOK, WorksOnDisk, ForgetsExcused, PrunesGone, Writing, Changing,
     Flush, Goto, Hold, Todo, provider, change, history
<1>5. DroppedFailed'
  BY DEF TypeOK, WorksOnDisk, DroppedFailed, Flush, Goto, Hold, Todo,
     provider, change, history
<1>6. PrunesGone'
  BY DEF TypeOK, WorksOnDisk, PrunesGone, Billing, DiskStates, Writing,
     Changing, Flush, Goto, Hold, Todo, provider, change, history
<1>7. DiskIsAccounted'
  BY DEF TypeOK, WorksOnDisk, WritersAgree, ForgetsExcused, PrunesGone,
     DiskIsAccounted, Billing, Excused, InHand, Holds, Writers, Written,
     Writing, Changing, Flush, Goto, Hold, Todo, provider, change, history
<1> QED
  BY <1>1, <1>2, <1>3, <1>4, <1>5, <1>6, <1>7

\* Choosing a disk begins with what the file says.
LEMMA ResolveKeeps ==
    ASSUME IInv, NEW t \in Threads, Resolve(t)
    PROVE  IInv'
<1> USE DEF IInv
<1>1. TypeOK'
  BY DEF TypeOK, DiskStates, PCs, WorksOnDisk, Writing, Changing, Resolve,
     Goto, Hold, Todo, provider, change, history
<1>2. WorksOnDisk'
  BY DEF TypeOK, WorksOnDisk, Writing, Changing, Resolve, Goto, Hold, Todo,
     provider, change, history
<1>3. WritersAgree'
  BY DEF TypeOK, WorksOnDisk, WritersAgree, Writers, Written, Writing,
     Changing, Resolve, Goto, Hold, Todo, provider, change, history
<1>4. ForgetsExcused'
  BY DEF TypeOK, WorksOnDisk, ForgetsExcused, PrunesGone, Writing, Changing,
     Resolve, Goto, Hold, Todo, provider, change, history
<1>5. DroppedFailed'
  BY DEF TypeOK, WorksOnDisk, DroppedFailed, Resolve, Goto, Hold, Todo,
     provider, change, history
<1>6. PrunesGone'
  BY DEF TypeOK, WorksOnDisk, PrunesGone, Billing, DiskStates, Writing,
     Changing, Resolve, Goto, Hold, Todo, provider, change, history
<1>7. DiskIsAccounted'
  BY DEF TypeOK, WorksOnDisk, WritersAgree, ForgetsExcused, PrunesGone,
     DiskIsAccounted, Billing, Excused, InHand, Holds, Writers, Written,
     Writing, Changing, Resolve, Goto, Hold, Todo, provider, change, history
<1> QED
  BY <1>1, <1>2, <1>3, <1>4, <1>5, <1>6, <1>7

\* A disk is forgotten because it is gone, or given up because it failed.
LEMMA TryStoredKeeps ==
    ASSUME IInv, NEW t \in Threads, TryStored(t)
    PROVE  IInv'
<1> USE DEF IInv
<1>1. TypeOK'
  BY DEF TypeOK, DiskStates, PCs, WorksOnDisk, Writing, Changing, TryStored,
     Change, Goto, Hold, Todo, provider, change, history
<1>2. WorksOnDisk'
  BY DEF TypeOK, WorksOnDisk, Writing, Changing, TryStored, Change, Goto,
     Hold, Todo, provider, change, history
<1>3. WritersAgree'
  BY DEF TypeOK, WorksOnDisk, WritersAgree, Writers, Written, Writing,
     Changing, TryStored, Change, Goto, Hold, Todo, provider, change,
     history
<1>4. ForgetsExcused'
  BY DEF TypeOK, WorksOnDisk, ForgetsExcused, PrunesGone, Writing, Changing,
     TryStored, Change, Goto, Hold, Todo, provider, change, history
<1>5. DroppedFailed'
  BY DEF TypeOK, WorksOnDisk, DroppedFailed, TryStored, Change, Goto, Hold,
     Todo, provider, change, history
<1>6. PrunesGone'
  BY DEF TypeOK, WorksOnDisk, PrunesGone, Billing, DiskStates, Writing,
     Changing, TryStored, Change, Goto, Hold, Todo, provider, change,
     history
<1>7. DiskIsAccounted'
  BY DEF TypeOK, WorksOnDisk, WritersAgree, ForgetsExcused, PrunesGone,
     DiskIsAccounted, Billing, Excused, InHand, Holds, Writers, Written,
     Writing, Changing, TryStored, Change, Goto, Hold, Todo, provider,
     change, history
<1> QED
  BY <1>1, <1>2, <1>3, <1>4, <1>5, <1>6, <1>7

\* The thread moves on to create a disk.
LEMMA TriedAllKeeps ==
    ASSUME IInv, NEW t \in Threads, TriedAll(t)
    PROVE  IInv'
<1> USE DEF IInv
<1>1. TypeOK'
  BY DEF TypeOK, DiskStates, PCs, WorksOnDisk, Writing, Changing, TriedAll,
     Goto, Hold, Todo, provider, change, history
<1>2. WorksOnDisk'
  BY DEF TypeOK, WorksOnDisk, Writing, Changing, TriedAll, Goto, Hold, Todo,
     provider, change, history
<1>3. WritersAgree'
  BY DEF TypeOK, WorksOnDisk, WritersAgree, Writers, Written, Writing,
     Changing, TriedAll, Goto, Hold, Todo, provider, change, history
<1>4. ForgetsExcused'
  BY DEF TypeOK, WorksOnDisk, ForgetsExcused, PrunesGone, Writing, Changing,
     TriedAll, Goto, Hold, Todo, provider, change, history
<1>5. DroppedFailed'
  BY DEF TypeOK, WorksOnDisk, DroppedFailed, TriedAll, Goto, Hold, Todo,
     provider, change, history
<1>6. PrunesGone'
  BY DEF TypeOK, WorksOnDisk, PrunesGone, Billing, DiskStates, Writing,
     Changing, TriedAll, Goto, Hold, Todo, provider, change, history
<1>7. DiskIsAccounted'
  BY DEF TypeOK, WorksOnDisk, WritersAgree, ForgetsExcused, PrunesGone,
     DiskIsAccounted, Billing, Excused, InHand, Holds, Writers, Written,
     Writing, Changing, TriedAll, Goto, Hold, Todo, provider, change,
     history
<1> QED
  BY <1>1, <1>2, <1>3, <1>4, <1>5, <1>6, <1>7

\* A new disk is in hand, or was left behind.
LEMMA CreateDiskKeeps ==
    ASSUME IInv, NEW t \in Threads, CreateDisk(t)
    PROVE  IInv'
<1> USE DEF IInv
<1>1. TypeOK'
  BY DEF TypeOK, DiskStates, PCs, WorksOnDisk, Writing, Changing,
     CreateDisk, Goto, Hold, Todo, provider, change, history
<1>2. WorksOnDisk'
  BY DEF TypeOK, WorksOnDisk, Writing, Changing, CreateDisk, Goto, Hold,
     Todo, provider, change, history
<1>3. WritersAgree'
  BY DEF TypeOK, WorksOnDisk, WritersAgree, Writers, Written, Writing,
     Changing, CreateDisk, Goto, Hold, Todo, provider, change, history
<1>4. ForgetsExcused'
  BY DEF TypeOK, WorksOnDisk, ForgetsExcused, PrunesGone, Writing, Changing,
     CreateDisk, Goto, Hold, Todo, provider, change, history
<1>5. DroppedFailed'
  BY DEF TypeOK, WorksOnDisk, DroppedFailed, CreateDisk, Goto, Hold, Todo,
     provider, change, history
<1>6. PrunesGone'
  BY DEF TypeOK, WorksOnDisk, PrunesGone, Billing, DiskStates, Writing,
     Changing, CreateDisk, Goto, Hold, Todo, provider, change, history
<1>7. DiskIsAccounted'
  BY DEF TypeOK, WorksOnDisk, WritersAgree, ForgetsExcused, PrunesGone,
     DiskIsAccounted, Billing, Excused, InHand, Holds, Writers, Written,
     Writing, Changing, CreateDisk, Goto, Hold, Todo, provider, change,
     history
<1> QED
  BY <1>1, <1>2, <1>3, <1>4, <1>5, <1>6, <1>7

\* The new disk stays in hand.
LEMMA AwaitReadyKeeps ==
    ASSUME IInv, NEW t \in Threads, AwaitReady(t)
    PROVE  IInv'
<1> USE DEF IInv
<1>1. TypeOK'
  BY DEF TypeOK, DiskStates, PCs, WorksOnDisk, Writing, Changing,
     AwaitReady, Goto, Hold, Todo, provider, change, history
<1>2. WorksOnDisk'
  BY DEF TypeOK, WorksOnDisk, Writing, Changing, AwaitReady, Goto, Hold,
     Todo, provider, change, history
<1>3. WritersAgree'
  BY DEF TypeOK, WorksOnDisk, WritersAgree, Writers, Written, Writing,
     Changing, AwaitReady, Goto, Hold, Todo, provider, change, history
<1>4. ForgetsExcused'
  BY DEF TypeOK, WorksOnDisk, ForgetsExcused, PrunesGone, Writing, Changing,
     AwaitReady, Goto, Hold, Todo, provider, change, history
<1>5. DroppedFailed'
  BY DEF TypeOK, WorksOnDisk, DroppedFailed, AwaitReady, Goto, Hold, Todo,
     provider, change, history
<1>6. PrunesGone'
  BY DEF TypeOK, WorksOnDisk, PrunesGone, Billing, DiskStates, Writing,
     Changing, AwaitReady, Goto, Hold, Todo, provider, change, history
<1>7. DiskIsAccounted'
  BY DEF TypeOK, WorksOnDisk, WritersAgree, ForgetsExcused, PrunesGone,
     DiskIsAccounted, Billing, Excused, InHand, Holds, Writers, Written,
     Writing, Changing, AwaitReady, Goto, Hold, Todo, provider, change,
     history
<1> QED
  BY <1>1, <1>2, <1>3, <1>4, <1>5, <1>6, <1>7

\* The new disk is about to be remembered, or to be released.
LEMMA PairKeeps ==
    ASSUME IInv, NEW t \in Threads, Pair(t)
    PROVE  IInv'
<1> USE DEF IInv
<1>1. TypeOK'
  BY DEF TypeOK, DiskStates, PCs, WorksOnDisk, Writing, Changing, Pair,
     Change, Goto, Hold, Todo, provider, change, history
<1>2. WorksOnDisk'
  BY DEF TypeOK, WorksOnDisk, Writing, Changing, Pair, Change, Goto, Hold,
     Todo, provider, change, history
<1>3. WritersAgree'
  BY DEF TypeOK, WorksOnDisk, WritersAgree, Writers, Written, Writing,
     Changing, Pair, Change, Goto, Hold, Todo, provider, change, history
<1>4. ForgetsExcused'
  BY DEF TypeOK, WorksOnDisk, ForgetsExcused, PrunesGone, Writing, Changing,
     Pair, Change, Goto, Hold, Todo, provider, change, history
<1>5. DroppedFailed'
  BY DEF TypeOK, WorksOnDisk, DroppedFailed, Pair, Change, Goto, Hold, Todo,
     provider, change, history
<1>6. PrunesGone'
  BY DEF TypeOK, WorksOnDisk, PrunesGone, Billing, DiskStates, Writing,
     Changing, Pair, Change, Goto, Hold, Todo, provider, change, history
<1>7. DiskIsAccounted'
  BY DEF TypeOK, WorksOnDisk, WritersAgree, ForgetsExcused, PrunesGone,
     DiskIsAccounted, Billing, Excused, InHand, Holds, Writers, Written,
     Writing, Changing, Pair, Change, Goto, Hold, Todo, provider, change,
     history
<1> QED
  BY <1>1, <1>2, <1>3, <1>4, <1>5, <1>6, <1>7

\* The new disk is gone, or was left behind.
LEMMA DiscardKeeps ==
    ASSUME IInv, NEW t \in Threads, Discard(t)
    PROVE  IInv'
<1> USE DEF IInv
<1>1. TypeOK'
  BY DEF TypeOK, DiskStates, PCs, WorksOnDisk, Writing, Changing, Discard,
     Goto, Hold, Todo, provider, change, history
<1>2. WorksOnDisk'
  BY DEF TypeOK, WorksOnDisk, Writing, Changing, Discard, Goto, Hold, Todo,
     provider, change, history
<1>3. WritersAgree'
  BY DEF TypeOK, WorksOnDisk, WritersAgree, Writers, Written, Writing,
     Changing, Discard, Goto, Hold, Todo, provider, change, history
<1>4. ForgetsExcused'
  BY DEF TypeOK, WorksOnDisk, ForgetsExcused, PrunesGone, Writing, Changing,
     Discard, Goto, Hold, Todo, provider, change, history
<1>5. DroppedFailed'
  BY DEF TypeOK, WorksOnDisk, DroppedFailed, Discard, Goto, Hold, Todo,
     provider, change, history
<1>6. PrunesGone'
  BY DEF TypeOK, WorksOnDisk, PrunesGone, Billing, DiskStates, Writing,
     Changing, Discard, Goto, Hold, Todo, provider, change, history
<1>7. DiskIsAccounted'
  BY DEF TypeOK, WorksOnDisk, WritersAgree, ForgetsExcused, PrunesGone,
     DiskIsAccounted, Billing, Excused, InHand, Holds, Writers, Written,
     Writing, Changing, Discard, Goto, Hold, Todo, provider, change, history
<1> QED
  BY <1>1, <1>2, <1>3, <1>4, <1>5, <1>6, <1>7

\* A pod takes or leaves its disk.
LEMMA CreatePodKeeps ==
    ASSUME IInv, NEW t \in Threads, CreatePod(t)
    PROVE  IInv'
<1> USE DEF IInv
<1>1. TypeOK'
  BY DEF TypeOK, DiskStates, PCs, WorksOnDisk, Writing, Changing, CreatePod,
     Goto, Hold, Todo, provider, change, history
<1>2. WorksOnDisk'
  BY DEF TypeOK, WorksOnDisk, Writing, Changing, CreatePod, Goto, Hold,
     Todo, provider, change, history
<1>3. WritersAgree'
  BY DEF TypeOK, WorksOnDisk, WritersAgree, Writers, Written, Writing,
     Changing, CreatePod, Goto, Hold, Todo, provider, change, history
<1>4. ForgetsExcused'
  BY DEF TypeOK, WorksOnDisk, ForgetsExcused, PrunesGone, Writing, Changing,
     CreatePod, Goto, Hold, Todo, provider, change, history
<1>5. DroppedFailed'
  BY DEF TypeOK, WorksOnDisk, DroppedFailed, CreatePod, Goto, Hold, Todo,
     provider, change, history
<1>6. PrunesGone'
  BY DEF TypeOK, WorksOnDisk, PrunesGone, Billing, DiskStates, Writing,
     Changing, CreatePod, Goto, Hold, Todo, provider, change, history
<1>7. DiskIsAccounted'
  BY DEF TypeOK, WorksOnDisk, WritersAgree, ForgetsExcused, PrunesGone,
     DiskIsAccounted, Billing, Excused, InHand, Holds, Writers, Written,
     Writing, Changing, CreatePod, Goto, Hold, Todo, provider, change,
     history
<1> QED
  BY <1>1, <1>2, <1>3, <1>4, <1>5, <1>6, <1>7

\* A listing begins with what the file says.
LEMMA ListRetainedKeeps ==
    ASSUME IInv, NEW t \in Threads, ListRetained(t)
    PROVE  IInv'
<1> USE DEF IInv
<1>1. TypeOK'
  BY DEF TypeOK, DiskStates, PCs, WorksOnDisk, Writing, Changing,
     ListRetained, Goto, Hold, Todo, provider, change, history
<1>2. WorksOnDisk'
  BY DEF TypeOK, WorksOnDisk, Writing, Changing, ListRetained, Goto, Hold,
     Todo, provider, change, history
<1>3. WritersAgree'
  BY DEF TypeOK, WorksOnDisk, WritersAgree, Writers, Written, Writing,
     Changing, ListRetained, Goto, Hold, Todo, provider, change, history
<1>4. ForgetsExcused'
  BY DEF TypeOK, WorksOnDisk, ForgetsExcused, PrunesGone, Writing, Changing,
     ListRetained, Goto, Hold, Todo, provider, change, history
<1>5. DroppedFailed'
  BY DEF TypeOK, WorksOnDisk, DroppedFailed, ListRetained, Goto, Hold, Todo,
     provider, change, history
<1>6. PrunesGone'
  BY DEF TypeOK, WorksOnDisk, PrunesGone, Billing, DiskStates, Writing,
     Changing, ListRetained, Goto, Hold, Todo, provider, change, history
<1>7. DiskIsAccounted'
  BY DEF TypeOK, WorksOnDisk, WritersAgree, ForgetsExcused, PrunesGone,
     DiskIsAccounted, Billing, Excused, InHand, Holds, Writers, Written,
     Writing, Changing, ListRetained, Goto, Hold, Todo, provider, change,
     history
<1> QED
  BY <1>1, <1>2, <1>3, <1>4, <1>5, <1>6, <1>7

\* What the account no longer has is gone, but for an answer without rows.
LEMMA ListDisksKeeps ==
    ASSUME IInv, NEW t \in Threads, ListDisks(t)
    PROVE  IInv'
<1> USE DEF IInv
<1>1. TypeOK'
  BY DEF TypeOK, DiskStates, PCs, WorksOnDisk, Writing, Changing, ListDisks,
     Goto, Hold, Todo, provider, change, history
<1>2. WorksOnDisk'
  BY DEF TypeOK, WorksOnDisk, Writing, Changing, ListDisks, Goto, Hold,
     Todo, provider, change, history
<1>3. WritersAgree'
  BY DEF TypeOK, WorksOnDisk, WritersAgree, Writers, Written, Writing,
     Changing, ListDisks, Goto, Hold, Todo, provider, change, history
<1>4. ForgetsExcused'
  BY DEF TypeOK, WorksOnDisk, ForgetsExcused, PrunesGone, Writing, Changing,
     ListDisks, Goto, Hold, Todo, provider, change, history
<1>5. DroppedFailed'
  BY DEF TypeOK, WorksOnDisk, DroppedFailed, ListDisks, Goto, Hold, Todo,
     provider, change, history
<1>6. PrunesGone'
  BY DEF TypeOK, WorksOnDisk, PrunesGone, Billing, DiskStates, Writing,
     Changing, ListDisks, Goto, Hold, Todo, provider, change, history
<1>7. DiskIsAccounted'
  BY DEF TypeOK, WorksOnDisk, WritersAgree, ForgetsExcused, PrunesGone,
     DiskIsAccounted, Billing, Excused, InHand, Holds, Writers, Written,
     Writing, Changing, ListDisks, Goto, Hold, Todo, provider, change,
     history
<1> QED
  BY <1>1, <1>2, <1>3, <1>4, <1>5, <1>6, <1>7

\* Only what is gone, or left out by an answer without rows, is forgotten.
LEMMA PruneKeeps ==
    ASSUME IInv, NEW t \in Threads, Prune(t)
    PROVE  IInv'
<1> USE DEF IInv
<1>1. TypeOK'
  BY DEF TypeOK, DiskStates, PCs, WorksOnDisk, Writing, Changing, Prune,
     Change, Goto, Hold, Todo, provider, change, history
<1>2. WorksOnDisk'
  BY DEF TypeOK, WorksOnDisk, Writing, Changing, Prune, Change, Goto, Hold,
     Todo, provider, change, history
<1>3. WritersAgree'
  BY DEF TypeOK, WorksOnDisk, WritersAgree, Writers, Written, Writing,
     Changing, Prune, Change, Goto, Hold, Todo, provider, change, history
<1>4. ForgetsExcused'
  BY DEF TypeOK, WorksOnDisk, ForgetsExcused, PrunesGone, Writing, Changing,
     Prune, Change, Goto, Hold, Todo, provider, change, history
<1>5. DroppedFailed'
  BY DEF TypeOK, WorksOnDisk, DroppedFailed, Prune, Change, Goto, Hold,
     Todo, provider, change, history
<1>6. PrunesGone'
  BY DEF TypeOK, WorksOnDisk, PrunesGone, Billing, DiskStates, Writing,
     Changing, Prune, Change, Goto, Hold, Todo, provider, change, history
<1>7. DiskIsAccounted'
  BY DEF TypeOK, WorksOnDisk, WritersAgree, ForgetsExcused, PrunesGone,
     DiskIsAccounted, Billing, Excused, InHand, Holds, Writers, Written,
     Writing, Changing, Prune, Change, Goto, Hold, Todo, provider, change,
     history
<1> QED
  BY <1>1, <1>2, <1>3, <1>4, <1>5, <1>6, <1>7

\* A deleted disk is gone.
LEMMA DeleteRetainedKeeps ==
    ASSUME IInv, NEW t \in Threads, DeleteRetained(t)
    PROVE  IInv'
<1> USE DEF IInv
<1>1. TypeOK'
  BY DEF TypeOK, DiskStates, PCs, WorksOnDisk, Writing, Changing,
     DeleteRetained, Change, Goto, Hold, Todo, provider, change, history
<1>2. WorksOnDisk'
  BY DEF TypeOK, WorksOnDisk, Writing, Changing, DeleteRetained, Change,
     Goto, Hold, Todo, provider, change, history
<1>3. WritersAgree'
  BY DEF TypeOK, WorksOnDisk, WritersAgree, Writers, Written, Writing,
     Changing, DeleteRetained, Change, Goto, Hold, Todo, provider, change,
     history
<1>4. ForgetsExcused'
  BY DEF TypeOK, WorksOnDisk, ForgetsExcused, PrunesGone, Writing, Changing,
     DeleteRetained, Change, Goto, Hold, Todo, provider, change, history
<1>5. DroppedFailed'
  BY DEF TypeOK, WorksOnDisk, DroppedFailed, DeleteRetained, Change, Goto,
     Hold, Todo, provider, change, history
<1>6. PrunesGone'
  BY DEF TypeOK, WorksOnDisk, PrunesGone, Billing, DiskStates, Writing,
     Changing, DeleteRetained, Change, Goto, Hold, Todo, provider, change,
     history
<1>7. DiskIsAccounted'
  BY DEF TypeOK, WorksOnDisk, WritersAgree, ForgetsExcused, PrunesGone,
     DiskIsAccounted, Billing, Excused, InHand, Holds, Writers, Written,
     Writing, Changing, DeleteRetained, Change, Goto, Hold, Todo, provider,
     change, history
<1> QED
  BY <1>1, <1>2, <1>3, <1>4, <1>5, <1>6, <1>7

\* A disk that only the dead thread had is left behind.
LEMMA CrashKeeps ==
    ASSUME IInv, NEW t \in Threads, Crash(t)
    PROVE  IInv'
<1> USE DEF IInv
<1>1. TypeOK'
  BY DEF TypeOK, DiskStates, PCs, WorksOnDisk, Writing, Changing, Holds,
     Writers, Crash, Goto, Hold, Todo, provider, change, history
<1>2. WorksOnDisk'
  BY DEF TypeOK, WorksOnDisk, Writing, Changing, Crash, Goto, Hold, Todo,
     provider, change, history
<1>3. WritersAgree'
  BY DEF TypeOK, WorksOnDisk, WritersAgree, Writers, Written, Writing,
     Changing, Crash, Goto, Hold, Todo, provider, change, history
<1>4. ForgetsExcused'
  BY DEF TypeOK, WorksOnDisk, ForgetsExcused, PrunesGone, Writing, Changing,
     Crash, Goto, Hold, Todo, provider, change, history
<1>5. DroppedFailed'
  BY DEF TypeOK, WorksOnDisk, DroppedFailed, Crash, Goto, Hold, Todo,
     provider, change, history
<1>6. PrunesGone'
  BY DEF TypeOK, WorksOnDisk, PrunesGone, Billing, DiskStates, Writing,
     Changing, Crash, Goto, Hold, Todo, provider, change, history
<1>7. DiskIsAccounted'
  BY DEF TypeOK, WorksOnDisk, WritersAgree, ForgetsExcused, PrunesGone,
     DiskIsAccounted, Billing, Excused, InHand, Holds, Writers, Written,
     Writing, Changing, Crash, Goto, Hold, Todo, provider, change, history
<1> QED
  BY <1>1, <1>2, <1>3, <1>4, <1>5, <1>6, <1>7

\* A disk that becomes ready or fails was not gone.
LEMMA ProvisionKeeps ==
    ASSUME IInv, NEW d \in Disks, Provision(d)
    PROVE  IInv'
<1> USE DEF IInv
<1>1. TypeOK'
  BY DEF TypeOK, DiskStates, PCs, WorksOnDisk, Writing, Changing, Provision,
     Goto, Hold, Todo, provider, change, history
<1>2. WorksOnDisk'
  BY DEF TypeOK, WorksOnDisk, Writing, Changing, Provision, Goto, Hold,
     Todo, provider, change, history
<1>3. WritersAgree'
  BY DEF TypeOK, WorksOnDisk, WritersAgree, Writers, Written, Writing,
     Changing, Provision, Goto, Hold, Todo, provider, change, history
<1>4. ForgetsExcused'
  BY DEF TypeOK, WorksOnDisk, ForgetsExcused, PrunesGone, Writing, Changing,
     Provision, Goto, Hold, Todo, provider, change, history
<1>5. DroppedFailed'
  BY DEF TypeOK, WorksOnDisk, DroppedFailed, Provision, Goto, Hold, Todo,
     provider, change, history
<1>6. PrunesGone'
  BY DEF TypeOK, WorksOnDisk, PrunesGone, Billing, DiskStates, Writing,
     Changing, Provision, Goto, Hold, Todo, provider, change, history
<1>7. DiskIsAccounted'
  BY DEF TypeOK, WorksOnDisk, WritersAgree, ForgetsExcused, PrunesGone,
     DiskIsAccounted, Billing, Excused, InHand, Holds, Writers, Written,
     Writing, Changing, Provision, Goto, Hold, Todo, provider, change,
     history
<1> QED
  BY <1>1, <1>2, <1>3, <1>4, <1>5, <1>6, <1>7

\* A disk whose pod ends stays as it is.
LEMMA DetachKeeps ==
    ASSUME IInv, NEW d \in Disks, Detach(d)
    PROVE  IInv'
<1> USE DEF IInv
<1>1. TypeOK'
  BY DEF TypeOK, DiskStates, PCs, WorksOnDisk, Writing, Changing, Detach,
     Goto, Hold, Todo, provider, change, history
<1>2. WorksOnDisk'
  BY DEF TypeOK, WorksOnDisk, Writing, Changing, Detach, Goto, Hold, Todo,
     provider, change, history
<1>3. WritersAgree'
  BY DEF TypeOK, WorksOnDisk, WritersAgree, Writers, Written, Writing,
     Changing, Detach, Goto, Hold, Todo, provider, change, history
<1>4. ForgetsExcused'
  BY DEF TypeOK, WorksOnDisk, ForgetsExcused, PrunesGone, Writing, Changing,
     Detach, Goto, Hold, Todo, provider, change, history
<1>5. DroppedFailed'
  BY DEF TypeOK, WorksOnDisk, DroppedFailed, Detach, Goto, Hold, Todo,
     provider, change, history
<1>6. PrunesGone'
  BY DEF TypeOK, WorksOnDisk, PrunesGone, Billing, DiskStates, Writing,
     Changing, Detach, Goto, Hold, Todo, provider, change, history
<1>7. DiskIsAccounted'
  BY DEF TypeOK, WorksOnDisk, WritersAgree, ForgetsExcused, PrunesGone,
     DiskIsAccounted, Billing, Excused, InHand, Holds, Writers, Written,
     Writing, Changing, Detach, Goto, Hold, Todo, provider, change, history
<1> QED
  BY <1>1, <1>2, <1>3, <1>4, <1>5, <1>6, <1>7

\* Every step keeps IInv.
LEMMA InvariantStep == IInv /\ [Next]_vars => IInv'
<1> SUFFICES ASSUME IInv, [Next]_vars PROVE IInv'
  OBVIOUS
<1>1. ASSUME NEW t \in Threads, Read(t) PROVE IInv'
  BY <1>1, ReadKeeps
<1>2. ASSUME NEW t \in Threads, Truncate(t) PROVE IInv'
  BY <1>2, TruncateKeeps
<1>3. ASSUME NEW t \in Threads, Flush(t) PROVE IInv'
  BY <1>3, FlushKeeps
<1>4. ASSUME NEW t \in Threads, Resolve(t) PROVE IInv'
  BY <1>4, ResolveKeeps
<1>5. ASSUME NEW t \in Threads, TryStored(t) PROVE IInv'
  BY <1>5, TryStoredKeeps
<1>6. ASSUME NEW t \in Threads, TriedAll(t) PROVE IInv'
  BY <1>6, TriedAllKeeps
<1>7. ASSUME NEW t \in Threads, CreateDisk(t) PROVE IInv'
  BY <1>7, CreateDiskKeeps
<1>8. ASSUME NEW t \in Threads, AwaitReady(t) PROVE IInv'
  BY <1>8, AwaitReadyKeeps
<1>9. ASSUME NEW t \in Threads, Pair(t) PROVE IInv'
  BY <1>9, PairKeeps
<1>10. ASSUME NEW t \in Threads, Discard(t) PROVE IInv'
  BY <1>10, DiscardKeeps
<1>11. ASSUME NEW t \in Threads, CreatePod(t) PROVE IInv'
  BY <1>11, CreatePodKeeps
<1>12. ASSUME NEW t \in Threads, ListRetained(t) PROVE IInv'
  BY <1>12, ListRetainedKeeps
<1>13. ASSUME NEW t \in Threads, ListDisks(t) PROVE IInv'
  BY <1>13, ListDisksKeeps
<1>14. ASSUME NEW t \in Threads, Prune(t) PROVE IInv'
  BY <1>14, PruneKeeps
<1>15. ASSUME NEW t \in Threads, DeleteRetained(t) PROVE IInv'
  BY <1>15, DeleteRetainedKeeps
<1>16. ASSUME NEW t \in Threads, Crash(t) PROVE IInv'
  BY <1>16, CrashKeeps
<1>17. ASSUME NEW d \in Disks, Provision(d) PROVE IInv'
  BY <1>17, ProvisionKeeps
<1>18. ASSUME NEW d \in Disks, Detach(d) PROVE IInv'
  BY <1>18, DetachKeeps
<1>19. CASE UNCHANGED vars
  BY <1>19 DEF IInv, TypeOK, WorksOnDisk, WritersAgree, Writers, Written,
     ForgetsExcused, DroppedFailed, PrunesGone, DiskIsAccounted, Billing,
     Excused, InHand, Holds, vars
<1> QED
  BY <1>1, <1>2, <1>3, <1>4, <1>5, <1>6, <1>7, <1>8, <1>9, <1>10, <1>11,
     <1>12, <1>13, <1>14, <1>15, <1>16, <1>17, <1>18, <1>19 DEF Next, Step

\* IInv holds in every reachable state.
THEOREM Invariance == Spec => []IInv
<1>1. Init => IInv
  BY InvariantInit
<1>2. IInv /\ [Next]_vars => IInv'
  BY InvariantStep
<1> QED
  BY <1>1, <1>2, PTL DEF Spec

\* The variables keep their types.
THEOREM TypeCorrect == Spec => []TypeOK
<1>1. IInv => TypeOK
  BY DEF IInv
<1> QED
  BY <1>1, Invariance, PTL

\* Every disk that bills, a failed one too, is remembered or in some hands, but for the
\* exceptions of Excused, which end when the disk is written down again.
THEOREM DisksAccounted == Spec => []DiskIsAccounted
<1>1. IInv => DiskIsAccounted
  BY DEF IInv
<1> QED
  BY <1>1, Invariance, PTL

\* A disk is forgotten only when it is of no use any more, failed or gone, unless an
\* answer had no rows.
THEOREM ForgottenAreUseless == Spec => []ForgottenIsUseless
<1>1. IInv => ForgottenIsUseless
  BY DEF IInv, ForgetsExcused, DroppedFailed, ForgottenIsUseless
<1> QED
  BY <1>1, Invariance, PTL

-----------------------------------------------------------------------------
(* The refinement of Inventory.                                            *)

\* A disk is created once and ends once.
LEMMA DiskStep ==
    ASSUME IInv, NothingUncreated, [Next]_vars, NEW d \in Disks
    PROVE  /\ disk'[d] = "none" => disk[d] = "none"
           /\ disk[d] = "none" => disk'[d] # "gone"
           /\ disk[d] = "gone" => disk'[d] = "gone"
<1> DEFINE Goal ==
      /\ disk'[d] = "none" => disk[d] = "none"
      /\ disk[d] = "none" => disk'[d] # "gone"
      /\ disk[d] = "gone" => disk'[d] = "gone"
<1>1. ASSUME NEW t \in Threads, CreateDisk(t) PROVE Goal
  BY <1>1 DEF IInv, TypeOK, CreateDisk
<1>2. ASSUME NEW t \in Threads, Discard(t) PROVE Goal
  BY <1>2 DEF IInv, TypeOK, WorksOnDisk, NothingUncreated, Discard
<1>3. ASSUME NEW t \in Threads, DeleteRetained(t) PROVE Goal
  BY <1>3 DEF IInv, TypeOK, Billing, DeleteRetained
<1>4. ASSUME NEW q \in Disks, Provision(q) PROVE Goal
  BY <1>4 DEF IInv, TypeOK, Provision
<1>5. CASE UNCHANGED disk
  BY <1>5
<1>6. ASSUME NEW t \in Threads,
             \/ Resolve(t) \/ ListRetained(t) \/ Read(t) \/ Truncate(t)
             \/ Flush(t) \/ TryStored(t) \/ TriedAll(t)
      PROVE  UNCHANGED disk
  BY <1>6 DEF Resolve, ListRetained, Read, Truncate, Flush, TryStored,
     TriedAll, provider
<1>7. ASSUME NEW t \in Threads,
             \/ AwaitReady(t) \/ Pair(t) \/ CreatePod(t) \/ ListDisks(t)
             \/ Prune(t) \/ Crash(t)
      PROVE  UNCHANGED disk
  BY <1>7 DEF AwaitReady, Pair, CreatePod, ListDisks, Prune, Crash, provider
<1>8. ASSUME NEW q \in Disks, Detach(q) PROVE UNCHANGED disk
  BY <1>8 DEF Detach
<1>9. CASE UNCHANGED vars
  BY <1>5, <1>9 DEF vars
<1> QED
  BY <1>1, <1>2, <1>3, <1>4, <1>5, <1>6, <1>7, <1>8, <1>9 DEF Next, Step

\* The file changes only when a thread empties it or writes its list.
LEMMA FileStep ==
    ASSUME IInv, [Next]_vars
    PROVE  \/ UNCHANGED file
           \/ \E t \in Threads : Truncate(t) \/ Flush(t)
<1>1. ASSUME NEW t \in Threads,
             \/ Resolve(t) \/ ListRetained(t) \/ DeleteRetained(t) \/ Read(t)
             \/ TryStored(t) \/ TriedAll(t) \/ CreateDisk(t) \/ AwaitReady(t)
      PROVE  UNCHANGED file
  BY <1>1 DEF Resolve, ListRetained, DeleteRetained, Read, TryStored, TriedAll,
     CreateDisk, AwaitReady
<1>2. ASSUME NEW t \in Threads,
             \/ Pair(t) \/ Discard(t) \/ CreatePod(t) \/ ListDisks(t)
             \/ Prune(t) \/ Crash(t)
      PROVE  UNCHANGED file
  BY <1>2 DEF Pair, Discard, CreatePod, ListDisks, Prune, Crash
<1>3. ASSUME NEW d \in Disks, Provision(d) \/ Detach(d) PROVE UNCHANGED file
  BY <1>3 DEF Provision, Detach
<1> QED
  BY <1>1, <1>2, <1>3 DEF Next, Step, vars

\* The file gains only what was in hand, and what it loses is in hand then, or was, or
\* is in dispute.
LEMMA FileKept ==
    ASSUME IInv, [Next]_vars, NEW d \in Disks
    PROVE  /\ d \in file' => d \in file \/ InHand(d)
           /\ d \in file => d \in file' \/ InHand(d) \/ InHand(d)' \/ d \in torn'
<1>1. CASE UNCHANGED file
  BY <1>1
<1>2. ASSUME NEW t \in Threads, Truncate(t)
      PROVE  /\ d \notin file'
             /\ d \in file => InHand(d)' \/ d \in torn'
  <2>1. file \subseteq snap[t] \cup torn
    BY <1>2 DEF IInv, WritersAgree, Writers, Writing, Truncate
  <2>2. snap'[t] = snap[t] /\ pc'[t] = "flush" /\ torn' = torn
    BY <1>2 DEF IInv, TypeOK, Truncate, Goto, change, history
  <2> QED
    BY <1>2, <2>1, <2>2 DEF Truncate, InHand, Holds
<1>3. ASSUME NEW t \in Threads, Flush(t)
      PROVE  /\ d \in file' => InHand(d)
             /\ d \in file => d \in file' \/ InHand(d) \/ d \in torn'
  <2>1. file \subseteq snap[t] \cup torn
    BY <1>3 DEF IInv, WritersAgree, Writers, Writing, Flush
  <2>2. d \in file' => d \in snap[t] \/ cur[t] = d
    BY <1>3 DEF Flush, Written
  <2>3. d \in torn => d \in torn' \/ d \in file'
    BY <1>3 DEF Flush
  <2>4. d \in snap[t] \/ cur[t] = d => InHand(d)
    BY <1>3 DEF Flush, InHand, Holds, Writing, Changing
  <2> QED
    BY <2>1, <2>2, <2>3, <2>4
<1> QED
  BY <1>1, <1>2, <1>3, FileStep

\* A thread works on no disk but one of its snapshot or one that was created, and it
\* knows of no disks but those of the file.
LEMMA LocalStep ==
    ASSUME IInv, [Next]_vars, NEW u \in Threads
    PROVE  /\ \/ cur'[u] \in {cur[u], NoDisk} \cup todo[u]
              \/ disk'[cur'[u]] # "none"
           /\ todo'[u] \subseteq todo[u] \cup file
           /\ snap'[u] \subseteq snap[u] \cup file
<1> DEFINE Goal ==
      /\ \/ cur'[u] \in {cur[u], NoDisk} \cup todo[u]
         \/ disk'[cur'[u]] # "none"
      /\ todo'[u] \subseteq todo[u] \cup file
      /\ snap'[u] \subseteq snap[u] \cup file
<1> USE DEF IInv, TypeOK, Goto, Hold, Todo, provider, change, history
<1>1. ASSUME NEW t \in Threads, Read(t) \/ Truncate(t) PROVE Goal
  BY <1>1 DEF Read, Truncate
<1>2. ASSUME NEW t \in Threads, Flush(t) PROVE Goal
  BY <1>2 DEF Flush
<1>3. ASSUME NEW t \in Threads, Resolve(t) \/ ListRetained(t) PROVE Goal
  BY <1>3 DEF Resolve, ListRetained
<1>4. ASSUME NEW t \in Threads, TryStored(t) PROVE Goal
  BY <1>4 DEF TryStored, Change
<1>5. ASSUME NEW t \in Threads, TriedAll(t) \/ AwaitReady(t) PROVE Goal
  BY <1>5 DEF TriedAll, AwaitReady
<1>6. ASSUME NEW t \in Threads, CreateDisk(t) PROVE Goal
  BY <1>6 DEF CreateDisk
<1>7. ASSUME NEW t \in Threads, Pair(t) PROVE Goal
  BY <1>7 DEF Pair, Change
<1>8. ASSUME NEW t \in Threads, Discard(t) PROVE Goal
  BY <1>8 DEF Discard
<1>9. ASSUME NEW t \in Threads, CreatePod(t) PROVE Goal
  BY <1>9 DEF CreatePod
<1>10. ASSUME NEW t \in Threads, ListDisks(t) PROVE Goal
  BY <1>10 DEF ListDisks
<1>11. ASSUME NEW t \in Threads, Prune(t) PROVE Goal
  BY <1>11 DEF Prune, Change
<1>12. ASSUME NEW t \in Threads, DeleteRetained(t) PROVE Goal
  BY <1>12 DEF DeleteRetained, Change
<1>13. ASSUME NEW t \in Threads, Crash(t) PROVE Goal
  BY <1>13 DEF Crash
<1>14. ASSUME NEW d \in Disks, Provision(d) \/ Detach(d) PROVE Goal
  BY <1>14 DEF Provision, Detach
<1>15. CASE UNCHANGED vars
  BY <1>15 DEF vars
<1> QED
  BY <1>1, <1>2, <1>3, <1>4, <1>5, <1>6, <1>7, <1>8, <1>9, <1>10, <1>11,
     <1>12, <1>13, <1>14, <1>15 DEF Next, Step

\* Nobody has or remembers a disk that was never created.
LEMMA UncreatedStep ==
    ASSUME IInv, NothingUncreated, [Next]_vars
    PROVE  NothingUncreated'
<1> SUFFICES ASSUME NEW d \in Disks, disk'[d] = "none"
             PROVE  /\ d \notin file'
                    /\ \A t \in Threads :
                          cur'[t] # d /\ d \notin todo'[t] /\ d \notin snap'[t]
  BY DEF NothingUncreated
<1>1. disk[d] = "none"
  BY DiskStep
<1>2. /\ d \notin file
      /\ \A t \in Threads : cur[t] # d /\ d \notin todo[t] /\ d \notin snap[t]
  BY <1>1 DEF NothingUncreated
<1>3. d \notin file'
  BY <1>2, FileKept DEF InHand, Holds
<1>4. ASSUME NEW t \in Threads
      PROVE  cur'[t] # d /\ d \notin todo'[t] /\ d \notin snap'[t]
  <2>1. /\ \/ cur'[t] \in {cur[t], NoDisk} \cup todo[t]
           \/ disk'[cur'[t]] # "none"
        /\ todo'[t] \subseteq todo[t] \cup file
        /\ snap'[t] \subseteq snap[t] \cup file
    BY LocalStep
  <2> QED
    BY <1>2, <2>1
<1> QED
  BY <1>3, <1>4

\* Every step moves every disk as Inventory allows.
LEMMA StockStep ==
    ASSUME IInv, NothingUncreated, [Next]_vars
    PROVE  [Stock!Next]_(Stock!ivars)
<1> DEFINE place == [d \in Disks |-> Place(d)]
<1>1. IInv'
  BY InvariantStep
<1>2. place' = [d \in Disks |-> Place(d)']
  OBVIOUS
<1>3. ASSUME NEW d \in Disks
      PROVE  /\ Place(d)' \in Stock!Places
             /\ \/ Place(d)' = Place(d)
                \/ Place(d) = "unused" /\ Place(d)' \in {"held", "lost"}
                \/ Place(d) = "held" /\ Place(d)' \in {"known", "lost"}
                \/ Place(d) \in {"known", "lost"} /\ Place(d)' = "held"
                \/ d \in torn' /\ Place(d) = "known" /\ Place(d)' = "lost"
                \/ Place(d) \in {"held", "known", "lost"} /\ Place(d)' = "over"
  <2>1. /\ d \in file' => d \in file \/ InHand(d)
        /\ d \in file => d \in file' \/ InHand(d) \/ InHand(d)' \/ d \in torn'
    BY FileKept
  <2>2. disk[d] \in DiskStates /\ disk'[d] \in DiskStates
    BY <1>1 DEF IInv, TypeOK
  <2>3. disk[d] \in {"creating", "ready", "failed"}
          => Place(d) = IF InHand(d) THEN "held"
                        ELSE IF d \in file THEN "known" ELSE "lost"
    BY DEF IInv, DiskIsAccounted, Billing, Place
  <2>4. disk'[d] \in {"creating", "ready", "failed"}
          => Place(d)' = IF InHand(d)' THEN "held"
                         ELSE IF d \in file' THEN "known" ELSE "lost"
    BY <1>1 DEF IInv, DiskIsAccounted, Billing, Place
  <2>5. CASE disk[d] = "none"
    <3>1. d \notin file /\ ~InHand(d)
      BY <2>5 DEF NothingUncreated, InHand, Holds
    <3>2. d \notin file'
      BY <2>1, <3>1
    <3>3. disk'[d] # "gone"
      BY <2>5, DiskStep
    <3> QED
      BY <2>2, <2>4, <2>5, <3>2, <3>3 DEF Place, DiskStates, Stock!Places
  <2>6. CASE disk[d] = "gone"
    <3>1. disk'[d] = "gone"
      BY <2>6, DiskStep
    <3> QED
      BY <2>6, <3>1 DEF Place, Stock!Places
  <2>7. CASE disk[d] \in {"creating", "ready", "failed"}
    <3>1. disk'[d] # "none"
      BY <2>7, DiskStep
    <3>2. CASE disk'[d] = "gone"
      BY <2>3, <2>7, <3>2 DEF Place, Stock!Places
    <3>3. CASE disk'[d] \in {"creating", "ready", "failed"}
      BY <2>1, <2>3, <2>4, <2>7, <3>3 DEF Stock!Places
    <3> QED
      BY <2>2, <3>1, <3>2, <3>3 DEF DiskStates
  <2> QED
    BY <2>2, <2>5, <2>6, <2>7 DEF DiskStates
<1>4. place' \in [Disks -> Stock!Places]
  BY <1>2, <1>3
<1>5. ASSUME NEW d \in Disks
      PROVE  \/ place'[d] = place[d]
             \/ Stock!Create(d) \/ Stock!WriteDown(d) \/ Stock!Lose(d)
             \/ Stock!TakeUp(d) \/ Stock!Tear(d) \/ Stock!End(d)
  BY <1>2, <1>3 DEF Stock!Create, Stock!WriteDown, Stock!Lose, Stock!TakeUp,
     Stock!Tear, Stock!End, Stock!Moves
<1>6. torn' \subseteq Disks
  BY <1>1 DEF IInv, TypeOK
<1> QED
  BY <1>4, <1>5, <1>6 DEF Stock!Next

\* The disks of any deployments, listings and deletions are kept as Inventory says: until
\* it is deleted a disk is in hand, remembered or lost by a failure, and a remembered
\* one is lost only by a thread that took it up to forget it or when two changes of the
\* file disagree about it.
THEOREM KeepsTheStock == Spec => StockKept
<1>1. Init => Stock!Init
  BY DEF Init, Stock!Init, Place
<1>2. Init => NothingUncreated
  BY DEF Init, NothingUncreated
<1>3. IInv /\ NothingUncreated /\ [Next]_vars => NothingUncreated'
  BY UncreatedStep
<1>4. IInv /\ NothingUncreated /\ [Next]_vars => [Stock!Next]_(Stock!ivars)
  BY StockStep
<1> QED
  BY <1>1, <1>2, <1>3, <1>4, Invariance, PTL DEF Spec, StockKept, Stock!Spec

=============================================================================
