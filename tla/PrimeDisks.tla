----------------------------- MODULE PrimeDisks -----------------------------
(***************************************************************************)
(* The persistent cache disks of core/prime_disks.py: choosing or creating *)
(* one for a deployment, listing the retained ones, deleting one.          *)
(*                                                                         *)
(* A disk bills until it is deleted, with or without a pod, and also when  *)
(* it has failed.  Which disks are Launchpad's is remembered in disks.json.*)
(* That file is read, changed and written back with no lock, and written   *)
(* in place: it is empty from the moment it is opened until the text is    *)
(* flushed, and a reader takes an empty or torn file for no disks.         *)
(***************************************************************************)
EXTENDS FiniteSets

CONSTANTS
    Disks,      \* disks the provider may create
    Threads,    \* deployments, and the listing and deleting of disks
    NoDisk

ASSUME NoDiskAssumption == NoDisk \notin Disks

VARIABLES
    disk,       \* each disk at the provider
    attached,   \* the disks a pod holds
    file,       \* the disks disks.json names
    pc,         \* where each thread is
    cur,        \* the disk it works on
    todo,       \* the disks of its snapshot that it has not looked at
    snap,       \* what it read when it began to change the file
    verb,       \* the change it makes
    after,      \* where it goes on after the change
    stranded,   \* disks left behind by a failure (history)
    dropped,    \* disks that were to be forgotten because they failed (history)
    omitted,    \* disks that bill and were to be forgotten because an answer had
                \* no rows (history)
    torn        \* disks that changes of the file which overlapped, or were cut
                \* short, do not agree about (history)

provider == <<disk, attached>>
change   == <<snap, verb, after>>
history  == <<stranded, dropped, omitted, torn>>
vars     == <<disk, attached, file, pc, cur, todo, snap, verb, after,
              stranded, dropped, omitted, torn>>

DiskStates == {"none", "creating", "ready", "failed", "gone"}

\* A failed disk costs what a ready one does.
Billing == {d \in Disks : disk[d] \in {"creating", "ready", "failed"}}

Writing  == {"truncate", "flush"}
Changing == {"read"} \cup Writing

PCs == {"idle", "try", "create", "await", "pair", "discard", "pod",
        "list", "prune"} \cup Changing

TypeOK ==
    /\ disk \in [Disks -> DiskStates]
    /\ attached \subseteq Disks
    /\ file \subseteq Disks
    /\ pc \in [Threads -> PCs]
    /\ cur \in [Threads -> Disks \cup {NoDisk}]
    /\ todo \in [Threads -> SUBSET Disks]
    /\ snap \in [Threads -> SUBSET Disks]
    /\ verb \in [Threads -> {"remember", "forget"}]
    /\ after \in [Threads -> {"try", "pod", "prune", "idle"}]
    /\ \A S \in {stranded, dropped, omitted, torn} : S \subseteq Disks

Init ==
    /\ disk = [d \in Disks |-> "none"]
    /\ attached = {}
    /\ file = {}
    /\ pc = [t \in Threads |-> "idle"]
    /\ cur = [t \in Threads |-> NoDisk]
    /\ todo = [t \in Threads |-> {}]
    /\ snap = [t \in Threads |-> {}]
    /\ verb = [t \in Threads |-> "remember"]
    /\ after = [t \in Threads |-> "idle"]
    /\ stranded = {} /\ dropped = {} /\ omitted = {} /\ torn = {}

Goto(t, s) == pc' = [pc EXCEPT ![t] = s]
Hold(t, d) == cur' = [cur EXCEPT ![t] = d]
Todo(t, S) == todo' = [todo EXCEPT ![t] = S]

\* remember_prime_disk() or forget_prime_disk() of disk d is called.
Change(t, v, d, s) ==
    /\ Goto(t, "read")
    /\ Hold(t, d)
    /\ verb' = [verb EXCEPT ![t] = v]
    /\ after' = [after EXCEPT ![t] = s]
    /\ UNCHANGED snap

-----------------------------------------------------------------------------
(* A change of disks.json.                                                 *)

Writers == {t \in Threads : pc[t] \in Writing}

\* What t writes if S is what it has read.
Written(t, S) == IF verb[t] = "remember" THEN S \cup {cur[t]} ELSE S \ {cur[t]}

\* What one of two overlapping changes writes and the other has not read, when t reads
\* the file while u is writing it: it depends on who writes last.
Disputed(t, u) == (Written(u, snap[u]) \ file) \cup (Written(t, file) \ snap[u])

Read(t) ==
    /\ pc[t] = "read"
    /\ snap' = [snap EXCEPT ![t] = file]
    /\ Goto(t, "truncate")
    /\ torn' = torn \cup UNION {Disputed(t, u) : u \in Writers}
    /\ UNCHANGED <<provider, file, cur, todo, verb, after, stranded, dropped,
                   omitted>>

\* write_text() opens the file for writing, which empties it.
Truncate(t) ==
    /\ pc[t] = "truncate"
    /\ file' = {}
    /\ Goto(t, "flush")
    /\ UNCHANGED <<provider, cur, todo, change, history>>

\* What is written when nobody else is writing is in the file beyond dispute.
Flush(t) ==
    /\ pc[t] = "flush"
    /\ file' = Written(t, snap[t])
    /\ torn' = IF Writers = {t} THEN torn \ file' ELSE torn
    /\ stranded' = stranded \ file'
    /\ Goto(t, after[t])
    /\ Hold(t, IF after[t] = "pod" THEN cur[t] ELSE NoDisk)
    /\ snap' = [snap EXCEPT ![t] = {}]
    /\ UNCHANGED <<provider, todo, verb, after, dropped, omitted>>

-----------------------------------------------------------------------------
(* resolve_prime_offer_and_disk(): the remembered disks first, then a new  *)
(* one.                                                                    *)

\* An explicit disk, or none wanted, touches neither the file nor a disk.
Resolve(t) ==
    /\ pc[t] = "idle"
    /\ Todo(t, file)
    /\ Goto(t, "try")
    /\ UNCHANGED <<provider, file, cur, change, history>>

\* Slip: a disk that cannot be read is forgotten like one that is not found.
TryStoredForgetsUnread(t) ==
    /\ pc[t] = "try"
    /\ \E d \in todo[t] :
          /\ Todo(t, todo[t] \ {d})
          /\ \/ Change(t, "forget", d, "try")
             \/ disk[d] = "ready" /\ Change(t, "remember", d, "pod")
    /\ UNCHANGED <<provider, file, history>>

\* _try_offer_for_disk(): a disk that is not found is forgotten, and so is one that has
\* failed, which nobody deletes; one that fits, and pairs with an offer, is remembered
\* again as the newest; on any other answer, and on none, the next one is tried.
TryStored(t) ==
    /\ pc[t] = "try"
    /\ \E d \in todo[t] :
          /\ Todo(t, todo[t] \ {d})
          /\ \/ /\ disk[d] = "gone"
                /\ Change(t, "forget", d, "try")
                /\ UNCHANGED dropped
             \/ /\ disk[d] = "failed"
                /\ Change(t, "forget", d, "try")
                /\ dropped' = dropped \cup {d}
             \/ /\ disk[d] = "ready"
                /\ Change(t, "remember", d, "pod")
                /\ UNCHANGED dropped
             \/ UNCHANGED <<pc, cur, change, dropped>>
    /\ UNCHANGED <<provider, file, stranded, omitted, torn>>

TriedAll(t) ==
    /\ pc[t] = "try"
    /\ todo[t] = {}
    /\ Goto(t, "create")
    /\ UNCHANGED <<provider, file, cur, todo, change, history>>

\* _create_cache_disk(): refused, or no disk product here: the deployment goes on
\* without one; fulfilled; or fulfilled and the reply lost or without an id.
CreateDisk(t) ==
    /\ pc[t] = "create"
    /\ \/ /\ \E d \in Disks :
                /\ disk[d] = "none"
                /\ disk' = [disk EXCEPT ![d] = "creating"]
                /\ \/ Hold(t, d) /\ Goto(t, "await") /\ UNCHANGED stranded
                   \/ /\ stranded' = stranded \cup {d}
                      /\ Goto(t, "pod")
                      /\ UNCHANGED cur
       \/ Goto(t, "pod") /\ UNCHANGED <<disk, cur, stranded>>
    /\ UNCHANGED <<attached, file, todo, change, dropped, omitted, torn>>

\* wait_for_prime_disk_ready(): ready, or failed, unanswered or timed out.
AwaitReady(t) ==
    /\ pc[t] = "await"
    /\ \/ disk[cur[t]] = "ready" /\ Goto(t, "pair")
       \/ Goto(t, "discard")
    /\ UNCHANGED <<provider, file, cur, todo, change, history>>

\* Slip: the disk is attached, and its pod is expected to keep track of it.
PairUnremembered(t) ==
    /\ pc[t] = "pair"
    /\ Goto(t, "pod") \/ Goto(t, "discard")
    /\ UNCHANGED <<provider, file, cur, todo, change, history>>

\* An offer that can attach the new disk; only then is the disk remembered.
Pair(t) ==
    /\ pc[t] = "pair"
    /\ \/ Change(t, "remember", cur[t], "pod")
       \/ Goto(t, "discard") /\ UNCHANGED <<cur, change>>
    /\ UNCHANGED <<provider, file, todo, history>>

\* Slip: a disk that came to nothing is left where it is.
DiscardForgets(t) ==
    /\ pc[t] = "discard"
    /\ Hold(t, NoDisk)
    /\ Goto(t, "pod")
    /\ UNCHANGED <<provider, file, todo, change, history>>

\* The new disk is released at best effort, and the deployment goes on without it.
Discard(t) ==
    /\ pc[t] = "discard"
    /\ \/ disk' = [disk EXCEPT ![cur[t]] = "gone"] /\ UNCHANGED stranded
       \/ UNCHANGED disk /\ stranded' = stranded \cup {cur[t]}
    /\ Hold(t, NoDisk)
    /\ Goto(t, "pod")
    /\ UNCHANGED <<attached, file, todo, change, dropped, omitted, torn>>

\* create_pod() attaches the disk, or fails.
CreatePod(t) ==
    /\ pc[t] = "pod"
    /\ \/ /\ cur[t] \in Disks \ attached
          /\ disk[cur[t]] = "ready"
          /\ attached' = attached \cup {cur[t]}
       \/ UNCHANGED attached
    /\ Hold(t, NoDisk)
    /\ Todo(t, {})
    /\ Goto(t, "idle")
    /\ UNCHANGED <<disk, file, change, history>>

-----------------------------------------------------------------------------
(* list_retained_prime_disks() and delete_retained_prime_disk().           *)

ListRetained(t) ==
    /\ pc[t] = "idle"
    /\ Todo(t, file)
    /\ Goto(t, "list")
    /\ UNCHANGED <<provider, file, cur, change, history>>

\* The account's disks are read after the file, so that a disk remembered
\* meanwhile is not missed.  An answer without rows, whatever the reason, is an
\* empty account; on a failure nothing is forgotten.
ListDisks(t) ==
    /\ pc[t] = "list"
    /\ \/ /\ Todo(t, {d \in todo[t] : disk[d] = "gone"})
          /\ Goto(t, "prune")
          /\ UNCHANGED omitted
       \/ /\ omitted' = omitted \cup {d \in todo[t] : disk[d] # "gone"}
          /\ Goto(t, "prune")
          /\ UNCHANGED todo
       \/ Todo(t, {}) /\ Goto(t, "idle") /\ UNCHANGED omitted
    /\ UNCHANGED <<provider, file, cur, change, stranded, dropped, torn>>

Prune(t) ==
    /\ pc[t] = "prune"
    /\ \/ \E d \in todo[t] :
             Todo(t, todo[t] \ {d}) /\ Change(t, "forget", d, "prune")
       \/ /\ todo[t] = {}
          /\ Goto(t, "idle")
          /\ UNCHANGED <<cur, todo, change>>
    /\ UNCHANGED <<provider, file, history>>

\* Any disk of the account; refused while a pod holds it.  Without an answer the
\* disk may be gone, and stays remembered.
DeleteRetained(t) ==
    /\ pc[t] = "idle"
    /\ \E d \in Disks :
          /\ d \in Billing \ attached
          /\ disk' = [disk EXCEPT ![d] = "gone"]
          /\ Change(t, "forget", d, "idle") \/ UNCHANGED <<pc, cur, change>>
    /\ UNCHANGED <<attached, file, todo, history>>

-----------------------------------------------------------------------------
(* The provider and the operating system.                                  *)

\* A disk becomes ready, or fails, then or later.
Provision(d) ==
    /\ disk[d] \in {"creating", "ready"}
    /\ \E s \in {"ready", "failed"} : disk' = [disk EXCEPT ![d] = s]
    /\ UNCHANGED <<attached, file, pc, cur, todo, change, history>>

\* The pod that holds the disk ends; the disk stays.
Detach(d) ==
    /\ d \in attached
    /\ attached' = attached \ {d}
    /\ UNCHANGED <<disk, file, pc, cur, todo, change, history>>

\* Thread t will release disk d or write it down, or has it in the list that it is
\* about to write.
Holds(t, d) ==
    \/ cur[t] = d /\ pc[t] \in {"await", "pair", "discard"} \cup Changing
    \/ d \in snap[t] /\ pc[t] = "flush"

\* A process dies.  The disk that only it had, and that is not written down, is left
\* behind; a file that it had emptied stays empty.
Crash(t) ==
    /\ pc[t] # "idle"
    /\ stranded' = stranded \cup
          {d \in Disks \ file : /\ cur[t] = d
                                /\ Holds(t, d)
                                /\ \A u \in Threads \ {t} : ~Holds(u, d)}
    /\ torn' = IF pc[t] = "flush" THEN torn \cup snap[t] ELSE torn
    /\ Goto(t, "idle")
    /\ Hold(t, NoDisk)
    /\ Todo(t, {})
    /\ snap' = [snap EXCEPT ![t] = {}]
    /\ UNCHANGED <<provider, file, verb, after, dropped, omitted>>

-----------------------------------------------------------------------------

Step(t) ==
    \/ Read(t) \/ Truncate(t) \/ Flush(t)
    \/ TryStored(t) \/ TriedAll(t) \/ CreateDisk(t) \/ AwaitReady(t) \/ Pair(t)
    \/ Discard(t) \/ CreatePod(t)
    \/ ListDisks(t) \/ Prune(t)

Next ==
    \/ \E t \in Threads :
          Resolve(t) \/ ListRetained(t) \/ DeleteRetained(t) \/ Step(t) \/ Crash(t)
    \/ \E d \in Disks : Provision(d) \/ Detach(d)

Spec == Init /\ [][Next]_vars

-----------------------------------------------------------------------------

InHand(d) == \E t \in Threads : Holds(t, d)

\* Disks that Launchpad may lose sight of: a release failed, a process died, the
\* disk failed, an answer had no rows, or two changes of the file disagreed.
Excused == stranded \cup dropped \cup omitted \cup torn

\* A disk that Launchpad created and that bills is remembered, or some thread has it
\* in hand, but for the disks that are excused, and of these only until they are
\* written down again.
DiskIsAccounted == \A d \in Billing : d \in file \cup Excused \/ InHand(d)

\* The disks are the things of Inventory, disks.json is where they are written down.
Place(d) ==
    CASE disk[d] = "none" -> "unused"
      [] disk[d] = "gone" -> "over"
      [] OTHER -> IF InHand(d) THEN "held"
                  ELSE IF d \in file THEN "known"
                  ELSE IF d \in Excused THEN "lost" ELSE "astray"

Stock == INSTANCE Inventory WITH
    Things <- Disks,
    place <- [d \in Disks |-> Place(d)],
    torn <- torn

\* Whatever deployments, listings, deletions and crashes do to the file: from its
\* creation to its deletion a disk is in hand or remembered or lost by a failure; a
\* remembered one is lost only by a thread that took it up to forget it, because it
\* had failed or an answer had no rows, or when two changes of the file disagree about
\* it; and none is used again after its end.
StockKept == Stock!Spec

\* A disk is forgotten only when it is of no use any more, whatever else is done to it
\* and to the file before the file is changed: it has failed or is gone, unless an
\* answer had no rows.
ForgottenIsUseless == \A t \in Threads :
    pc[t] \in Changing /\ verb[t] = "forget"
        => disk[cur[t]] \in {"failed", "gone"} \/ cur[t] \in omitted

\* What forget_prime_disk() says of itself, "Drop a managed disk that no longer exists
\* remotely" (violated: a remembered disk that has failed is forgotten and bills on).
ForgottenIsGone == \A t \in Threads :
    pc[t] \in Changing /\ verb[t] = "forget" /\ omitted = {} => cur[t] \notin Billing

-----------------------------------------------------------------------------
(* What the proofs need beside the properties.                             *)

\* A thread that creates, releases, or writes down a disk has one.
WorksOnDisk == \A t \in Threads :
    pc[t] \in {"await", "pair", "discard"} \cup Changing => cur[t] \in Disks

\* A thread that writes the file has read what is in it, and what others will write,
\* but for what is disputed.
WritersAgree == \A t \in Writers :
    /\ file \subseteq snap[t] \cup torn
    /\ \A u \in Writers \ {t} : Written(u, snap[u]) \subseteq snap[t] \cup torn

\* What is forgotten stays gone or given up.
ForgetsExcused == \A t \in Threads :
    pc[t] \in Changing /\ verb[t] = "forget"
        => disk[cur[t]] = "gone" \/ cur[t] \in dropped \cup omitted

\* What was dropped has failed.
DroppedFailed == \A d \in dropped : disk[d] \in {"failed", "gone"}

\* What a listing is about to forget is gone, or the answer had no rows.
PrunesGone == \A t \in Threads :
    pc[t] = "prune" \/ (pc[t] \in Changing /\ after[t] = "prune")
        => \A d \in todo[t] : disk[d] = "gone" \/ d \in omitted

IInv ==
    /\ TypeOK
    /\ WorksOnDisk
    /\ WritersAgree
    /\ ForgetsExcused
    /\ DroppedFailed
    /\ PrunesGone
    /\ DiskIsAccounted

\* What the steps to Inventory rest on, beside IInv: nobody has or remembers a disk that
\* was never created.
NothingUncreated == \A d \in Disks :
    disk[d] = "none" =>
        /\ d \notin file
        /\ \A t \in Threads : cur[t] # d /\ d \notin todo[t] /\ d \notin snap[t]

=============================================================================
