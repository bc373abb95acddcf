---------------------------- MODULE PrimeRental ----------------------------
(***************************************************************************)
(* Renting and stopping Prime pods: _deploy_prime() and the Prime branch   *)
(* of stop_app() in core/orchestrator.py, with the requests of             *)
(* core/prime_backend.py.                                                  *)
(*                                                                         *)
(* A deployment owns two things at the provider, the pod that bills and    *)
(* the tunnel that publishes it.  No record is kept on disk: what the      *)
(* events announced is all that anyone remembers.  Nothing is locked, so a *)
(* stop by pod id meets the deployment of that pod at any point, replies   *)
(* get lost, streams are closed at a yield, and processes die.             *)
(***************************************************************************)
EXTENDS FiniteSets

CONSTANTS
    Pods,       \* pods the provider may create
    Threads,    \* callers of _deploy_prime() and stop_app()
    NoPod

ASSUME NoPodAssumption == NoPod \notin Pods

VARIABLES
    pod,        \* each pod at the provider
    tunnel,     \* pods for which a tunnel is registered under their label
    announced,  \* pods named by a ResourceAllocatedEvent
    pc,         \* where each thread is
    mine,       \* the pod it works on, the deployment's pod_id
    keep,       \* options.keep_failed_resource
    broken,     \* whether delete_pod() holds a tunnel_error
    done,       \* pods whose rollback or stop was reported as done
    unheard,    \* pods whose creation no reply told of (history)
    loose       \* pods whose tunnel a failed or overtaken cleanup left (history)

provider == <<pod, tunnel>>
history  == <<unheard, loose>>
told     == <<announced, done>>
local    == <<mine, keep, broken>>
vars     == <<pod, tunnel, announced, done, pc, mine, keep, broken, unheard,
              loose>>

PodStates == {"none", "provisioning", "active", "error", "gone"}

Billing == {"provisioning", "active", "error"}

\* The deployment's own part, in order; "fail" is the except clause.
Deploying == {"create", "announce", "wait", "boot", "tunnel", "connect",
              "serve", "public", "finish", "fail"}

\* delete_pod(): list the tunnels, delete the one found, delete the pod.
Deleting == {"list", "untunnel", "delete"}

PCs == {"idle"} \cup Deploying \cup Deleting

TypeOK ==
    /\ pod \in [Pods -> PodStates]
    /\ tunnel \subseteq Pods
    /\ announced \subseteq Pods
    /\ pc \in [Threads -> PCs]
    /\ mine \in [Threads -> Pods \cup {NoPod}]
    /\ keep \in [Threads -> BOOLEAN]
    /\ broken \in [Threads -> BOOLEAN]
    /\ done \subseteq Pods
    /\ unheard \subseteq Pods
    /\ loose \subseteq Pods

Init ==
    /\ pod = [p \in Pods |-> "none"]
    /\ tunnel = {}
    /\ announced = {}
    /\ pc = [t \in Threads |-> "idle"]
    /\ mine = [t \in Threads |-> NoPod]
    /\ keep = [t \in Threads |-> FALSE]
    /\ broken = [t \in Threads |-> FALSE]
    /\ done = {}
    /\ unheard = {}
    /\ loose = {}

Goto(t, s) == pc' = [pc EXCEPT ![t] = s]

\* The call ends, and its locals with it.
Return(t) ==
    /\ Goto(t, "idle")
    /\ mine' = [mine EXCEPT ![t] = NoPod]
    /\ keep' = [keep EXCEPT ![t] = FALSE]
    /\ broken' = [broken EXCEPT ![t] = FALSE]

\* Whether a request by pod id or over SSH can succeed.
Reachable(t) == pod[mine[t]] = "active"

-----------------------------------------------------------------------------
(* _deploy_prime() up to the announced pod.                                *)

\* The offer and the cache disk are resolved (PrimeDisks).  A deployment that is
\* turned down before its request has no effect here.
Deploy(t) ==
    /\ pc[t] = "idle"
    /\ \E k \in BOOLEAN : keep' = [keep EXCEPT ![t] = k]
    /\ Goto(t, "create")
    /\ UNCHANGED <<provider, told, mine, broken, history>>

\* POST /pods: refused, or fulfilled with a reply that names the pod, or fulfilled
\* with a reply that is lost, malformed, or without an id.
Create(t) ==
    /\ pc[t] = "create"
    /\ \/ /\ \E p \in Pods :
                /\ pod[p] = "none"
                /\ pod' = [pod EXCEPT ![p] = "provisioning"]
                /\ \/ /\ mine' = [mine EXCEPT ![t] = p]
                      /\ Goto(t, "announce")
                      /\ UNCHANGED unheard
                   \/ /\ unheard' = unheard \cup {p}
                      /\ Goto(t, "fail")
                      /\ UNCHANGED mine
       \/ Goto(t, "fail") /\ UNCHANGED <<pod, mine, unheard>>
    /\ UNCHANGED <<tunnel, told, keep, broken, loose>>

\* Slip: the pod is named once it is active, like an endpoint.
AnnounceLate(t) ==
    /\ pc[t] = "announce"
    /\ Goto(t, "wait")
    /\ UNCHANGED <<provider, told, local, history>>

Announce(t) ==
    /\ pc[t] = "announce"
    /\ announced' = announced \cup {mine[t]}
    /\ Goto(t, "wait")
    /\ UNCHANGED <<provider, done, local, history>>

-----------------------------------------------------------------------------
(* From the pod to the served endpoint.  Each of these requests, waits and *)
(* SSH commands may raise, the waits at their deadline or on the shutdown  *)
(* event: then the except clause runs.                                     *)

Advance(t, from, to) ==
    /\ pc[t] = from
    /\ \/ Reachable(t) /\ Goto(t, to)
       \/ Goto(t, "fail")

\* Slip: the pod is polled for as long as it takes.
AwaitActiveForever(t) ==
    /\ pc[t] = "wait"
    /\ \/ pod[mine[t]] = "active" /\ Goto(t, "boot")
       \/ pod[mine[t]] \in {"error", "gone"} /\ Goto(t, "fail")
    /\ UNCHANGED <<provider, told, local, history>>

\* _await_prime_pod_active(), then start_bootstrap_runtime() over SSH.
AwaitActive(t) ==
    /\ Advance(t, "wait", "boot")
    /\ UNCHANGED <<provider, told, local, history>>

\* The endpoint is the pod's own address where plain HTTP was allowed.
Bootstrap(t) ==
    /\ pc[t] = "boot"
    /\ \/ Reachable(t) /\ (Goto(t, "tunnel") \/ Goto(t, "serve"))
       \/ Goto(t, "fail")
    /\ UNCHANGED <<provider, told, local, history>>

\* Threads past the look at the tunnels of pod p, that will not look again.
Overtaken(p) == \E d \in Threads :
    mine[d] = p /\ pc[d] \in {"untunnel", "delete"}

\* POST /tunnel takes a label, not a pod: it succeeds for a pod that is gone.
CreateTunnel(t) ==
    /\ pc[t] = "tunnel"
    /\ \/ /\ tunnel' = tunnel \cup {mine[t]}
          /\ loose' = IF Overtaken(mine[t]) THEN loose \cup {mine[t]} ELSE loose
          /\ Goto(t, "connect") \/ Goto(t, "fail")
       \/ Goto(t, "fail") /\ UNCHANGED <<tunnel, loose>>
    /\ UNCHANGED <<pod, told, local, unheard>>

\* start_tunnel() copies the client to the pod and starts it.
StartTunnel(t) ==
    /\ Advance(t, "connect", "serve")
    /\ UNCHANGED <<provider, told, local, history>>

\* The runtime and the tunnel are polled until both are ready.
AwaitServing(t) ==
    /\ Advance(t, "serve", "public")
    /\ UNCHANGED <<provider, told, local, history>>

AwaitPublic(t) ==
    /\ Advance(t, "public", "finish")
    /\ UNCHANGED <<provider, told, local, history>>

\* Starting the idle shutdown never fails the deployment.
Finish(t) ==
    /\ pc[t] = "finish"
    /\ Return(t)
    /\ UNCHANGED <<provider, told, history>>

-----------------------------------------------------------------------------
(* The except clause, and the end of a stream that nobody reads.           *)

\* Whether a tunnel is left that no later step of thread t will delete: the pod
\* is gone and its registration is not.
Stray(t) == {p \in {mine[t]} : p \in tunnel /\ pod[p] = "gone"}

\* Slip: a failed deployment whose pod is gone has nothing left to clean.
CleanupOfLivePod(t) ==
    /\ pc[t] = "fail"
    /\ IF mine[t] = NoPod \/ keep[t] \/ pod[mine[t]] = "gone"
          THEN Return(t)
          ELSE Goto(t, "list") /\ UNCHANGED local
    /\ UNCHANGED <<provider, told, history>>

\* _cleanup_failed_prime_pod(): nothing to do without an id; keep the pod when
\* told to; otherwise delete_pod().
Cleanup(t) ==
    /\ pc[t] = "fail"
    /\ \/ /\ mine[t] = NoPod \/ keep[t]
          /\ Return(t)
          /\ loose' = loose \cup Stray(t)
       \/ /\ mine[t] # NoPod /\ ~keep[t]
          /\ Goto(t, "list")
          /\ UNCHANGED <<local, loose>>
    /\ UNCHANGED <<provider, told, unheard>>

\* Slip: something is yielded between the creation and the id.
CloseStreamBeforeId(t) ==
    /\ pc[t] \in {"create", "announce", "wait", "boot", "tunnel", "serve", "public",
                 "finish", "fail"}
    /\ Return(t)
    /\ loose' = loose \cup Stray(t)
    /\ UNCHANGED <<provider, told, unheard>>

\* GeneratorExit at a yield is no Exception: no cleanup runs, not even from
\* within the except clause.  The id was delivered by an earlier yield.
CloseStream(t) ==
    /\ pc[t] \in {"create", "wait", "boot", "tunnel", "serve", "public",
                 "finish", "fail"}
    /\ Return(t)
    /\ loose' = loose \cup Stray(t)
    /\ UNCHANGED <<provider, told, unheard>>

-----------------------------------------------------------------------------
(* stop_app() for Prime, and delete_pod().                                 *)

\* The id comes from an event, or from list_deployments().
Stop(t) ==
    /\ pc[t] = "idle"
    /\ \E p \in Pods :
          /\ pod[p] # "none"
          /\ mine' = [mine EXCEPT ![t] = p]
    /\ Goto(t, "list")
    /\ UNCHANGED <<provider, told, keep, broken, history>>

\* A failed tunnel cleanup is remembered, and the pod is deleted all the same.
TunnelError(t) ==
    /\ broken' = [broken EXCEPT ![t] = TRUE]
    /\ loose' = loose \cup {mine[t]}
    /\ Goto(t, "delete")

ListTunnels(t) ==
    /\ pc[t] = "list"
    /\ \/ /\ IF mine[t] \in tunnel THEN Goto(t, "untunnel") ELSE Goto(t, "delete")
          /\ UNCHANGED <<broken, loose>>
       \/ TunnelError(t)
    /\ UNCHANGED <<provider, told, mine, keep, unheard>>

\* A registration that is already removed counts as deleted (404).
DeleteTunnel(t) ==
    /\ pc[t] = "untunnel"
    /\ \/ /\ tunnel' = tunnel \ {mine[t]}
          /\ loose' = loose \ {mine[t]}
          /\ Goto(t, "delete")
          /\ UNCHANGED broken
       \/ TunnelError(t) /\ UNCHANGED tunnel
    /\ UNCHANGED <<pod, told, mine, keep, unheard>>

\* Slip: a DELETE that got no answer is taken for done.
DeletePodUnanswered(t) ==
    /\ pc[t] = "delete"
    /\ \/ pod' = [pod EXCEPT ![mine[t]] = "gone"]
       \/ UNCHANGED pod
    /\ done' = done \cup {mine[t]}
    /\ Return(t)
    /\ UNCHANGED <<tunnel, announced, history>>

\* DELETE /pods: done and answered, done and not answered, or refused, as it is for
\* a pod that is already gone.  Without an answer, and with a tunnel error, it is
\* reported as unconfirmed.
DeletePod(t) ==
    /\ pc[t] = "delete"
    /\ \/ /\ pod[mine[t]] \in Billing
          /\ pod' = [pod EXCEPT ![mine[t]] = "gone"]
          /\ \/ ~broken[t] /\ done' = done \cup {mine[t]}
             \/ UNCHANGED done
       \/ UNCHANGED <<pod, done>>
    /\ Return(t)
    /\ UNCHANGED <<tunnel, announced, history>>

-----------------------------------------------------------------------------
(* The provider, the idle watchdog and the operating system.               *)

\* A pod comes up or fails.
Provision(p) ==
    /\ pod[p] = "provisioning"
    /\ \E s \in {"active", "error"} : pod' = [pod EXCEPT ![p] = s]
    /\ UNCHANGED <<tunnel, told, pc, local, history>>

\* The pod ends by itself: the watchdog on it deletes its tunnel at best effort and
\* then the pod, and the provider may take the pod away.
Vanish(p) ==
    /\ pod[p] \in Billing
    /\ pod' = [pod EXCEPT ![p] = "gone"]
    /\ \/ tunnel' = tunnel \ {p} /\ UNCHANGED loose
       \/ UNCHANGED tunnel /\ loose' = loose \cup {p}
    /\ UNCHANGED <<told, pc, local, unheard>>

\* A process dies, or is killed, between any two steps.  A pod it had not named
\* yet is named by no one.
Crash(t) ==
    /\ pc[t] # "idle"
    /\ Return(t)
    /\ loose' = loose \cup Stray(t)
    /\ unheard' = IF pc[t] = "announce" THEN unheard \cup {mine[t]} ELSE unheard
    /\ UNCHANGED <<provider, told>>

-----------------------------------------------------------------------------

Step(t) ==
    \/ Create(t) \/ Announce(t) \/ AwaitActive(t) \/ Bootstrap(t)
    \/ CreateTunnel(t) \/ StartTunnel(t) \/ AwaitServing(t) \/ AwaitPublic(t)
    \/ Finish(t) \/ Cleanup(t)
    \/ ListTunnels(t) \/ DeleteTunnel(t) \/ DeletePod(t)

Next ==
    \/ \E t \in Threads :
          Deploy(t) \/ Stop(t) \/ Step(t) \/ CloseStream(t) \/ Crash(t)
    \/ \E p \in Pods : Provision(p) \/ Vanish(p)

Spec == Init /\ [][Next]_vars

\* Every request has a timeout and every wait a deadline.
Fairness == \A t \in Threads : WF_vars(Step(t))

FairSpec == Spec /\ Fairness

-----------------------------------------------------------------------------

\* A thread still has the cleanup of pod p before it.
InHand(p) == \E t \in Threads :
    mine[t] = p /\ pc[t] \in {"connect", "fail", "list", "untunnel"}

\* A pod that bills is known to the user: its id was announced, or is about to be,
\* unless the provider's reply or the deploying process was lost right there.
BillingIsKnown == \A p \in Pods :
    pod[p] \in Billing =>
        \/ p \in announced \cup unheard
        \/ \E t \in Threads : mine[t] = p /\ pc[t] = "announce"

\* A tunnel outlives its pod only while some thread still has its cleanup before it,
\* or where a step of a cleanup failed, was cut short, or was overtaken by
\* the registration.
NoTunnelOutlivesPod == \A p \in tunnel :
    pod[p] = "gone" => p \in loose \/ InHand(p)

\* A rollback or a stop that is called done has ended the bill.
DoneMeansGone == \A p \in done : pod[p] = "gone"

\* The thread that created pod p is about to name it.
OnTheWay(p) == \E t \in Threads : mine[t] = p /\ pc[t] = "announce"

\* The pods are the things of Inventory; what events announced stays announced.
Place(p) ==
    CASE pod[p] = "none" -> "unused"
      [] pod[p] = "gone" -> "over"
      [] OTHER -> IF p \in announced THEN "known"
                  ELSE IF OnTheWay(p) THEN "held"
                  ELSE IF p \in unheard THEN "lost" ELSE "astray"

Stock == INSTANCE Inventory WITH
    Things <- Pods,
    place <- [p \in Pods |-> Place(p)],
    torn <- {}

\* Whatever deployments, stops, crashes and lost replies do: a pod is in hand from the
\* moment it bills, announced next or lost right there, known for good once
\* announced, and never billed again once gone.
StockKept == Stock!Spec

\* Every deployment and every stop comes to an end.
EveryCallEnds == \A t \in Threads : []<>(pc[t] = "idle")

-----------------------------------------------------------------------------
(* What the proofs need beside the properties.                             *)

\* A thread has a pod from its creation on, unless that failed.
WorksOnPod == \A t \in Threads :
    /\ pc[t] \in {"idle", "create"} => mine[t] = NoPod
    /\ pc[t] \notin {"idle", "create", "fail"} => mine[t] \in Pods

\* A thread that is about to delete a pod has dealt with its tunnel, or it is loose.
TunnelDealtWith == \A t \in Threads :
    pc[t] = "delete" /\ mine[t] \in tunnel => mine[t] \in loose

IInv ==
    /\ TypeOK
    /\ WorksOnPod
    /\ TunnelDealtWith
    /\ BillingIsKnown
    /\ NoTunnelOutlivesPod
    /\ DoneMeansGone

\* What the steps to Inventory rest on, beside IInv: nobody has or announced a pod that
\* was never created.
NothingUncreated == \A p \in Pods :
    pod[p] = "none" => p \notin announced /\ \A t \in Threads : mine[t] # p

=============================================================================
