-------------------------- MODULE PrimeRentalProofs --------------------------
(***************************************************************************)
(* Proofs that PrimeRental keeps its safety properties for any pods and    *)
(* threads.  IInv is shown to be inductive, action by action.              *)
(***************************************************************************)
EXTENDS Naturals, PrimeRental, TLAPS

USE NoPodAssumption

\* In the initial state nothing is rented and no thread is at work.
LEMMA InvariantInit == Init => IInv
BY DEF Init, IInv, TypeOK, PodStates, PCs, WorksOnPod, TunnelDealtWith,
   BillingIsKnown, Billing, NoTunnelOutlivesPod, DoneMeansGone

\* A deployment that begins has no pod yet.
LEMMA DeployKeeps ==
    ASSUME IInv, NEW t \in Threads, Deploy(t)
    PROVE  IInv'
<1> USE DEF IInv
<1>1. TypeOK'
  BY DEF TypeOK, WorksOnPod, PodStates, Billing, PCs, Deploying, Deleting,
     Deploy, Goto, provider, history, told, local
<1>2. WorksOnPod'
  BY DEF TypeOK, WorksOnPod, Deploy, Goto, provider, history, told, local
<1>3. TunnelDealtWith'
  BY DEF TypeOK, WorksOnPod, TunnelDealtWith, Deploy, Goto, provider, history,
     told, local
<1>4. BillingIsKnown'
  BY DEF TypeOK, WorksOnPod, BillingIsKnown, Billing, Deploy, Goto, provider,
     history, told, local
<1>5. NoTunnelOutlivesPod'
  BY DEF TypeOK, WorksOnPod, TunnelDealtWith, NoTunnelOutlivesPod, InHand,
     Deploy, Goto, provider, history, told, local
<1>6. DoneMeansGone'
  BY DEF TypeOK, WorksOnPod, DoneMeansGone, Billing, Deploy, Goto, provider,
     history, told, local
<1> QED
  BY <1>1, <1>2, <1>3, <1>4, <1>5, <1>6

\* A pod that begins to bill is about to be announced, or no reply told of it.
LEMMA CreateKeeps ==
    ASSUME IInv, NEW t \in Threads, Create(t)
    PROVE  IInv'
<1> USE DEF IInv
<1>1. TypeOK'
  BY DEF TypeOK, WorksOnPod, PodStates, Billing, PCs, Deploying, Deleting,
     Create, Goto, provider, history, told, local
<1>2. WorksOnPod'
  BY DEF TypeOK, WorksOnPod, Create, Goto, provider, history, told, local
<1>3. TunnelDealtWith'
  BY DEF TypeOK, WorksOnPod, TunnelDealtWith, Create, Goto, provider, history,
     told, local
<1>4. BillingIsKnown'
  BY DEF TypeOK, WorksOnPod, BillingIsKnown, Billing, Create, Goto, provider,
     history, told, local
<1>5. NoTunnelOutlivesPod'
  BY DEF TypeOK, WorksOnPod, TunnelDealtWith, NoTunnelOutlivesPod, InHand,
     Create, Goto, provider, history, told, local
<1>6. DoneMeansGone'
  BY DEF TypeOK, WorksOnPod, DoneMeansGone, Billing, Create, Goto, provider,
     history, told, local
<1> QED
  BY <1>1, <1>2, <1>3, <1>4, <1>5, <1>6

\* The pod is announced.
LEMMA AnnounceKeeps ==
    ASSUME IInv, NEW t \in Threads, Announce(t)
    PROVE  IInv'
<1> USE DEF IInv
<1>1. TypeOK'
  BY DEF TypeOK, WorksOnPod, PodStates, Billing, PCs, Deploying, Deleting,
     Announce, Goto, provider, history, told, local
<1>2. WorksOnPod'
  BY DEF TypeOK, WorksOnPod, Announce, Goto, provider, history, told, local
<1>3. TunnelDealtWith'
  BY DEF TypeOK, WorksOnPod, TunnelDealtWith, Announce, Goto, provider,
     history, told, local
<1>4. BillingIsKnown'
  BY DEF TypeOK, WorksOnPod, BillingIsKnown, Billing, Announce, Goto,
     provider, history, told, local
<1>5. NoTunnelOutlivesPod'
  BY DEF TypeOK, WorksOnPod, TunnelDealtWith, NoTunnelOutlivesPod, InHand,
     Announce, Goto, provider, history, told, local
<1>6. DoneMeansGone'
  BY DEF TypeOK, WorksOnPod, DoneMeansGone, Billing, Announce, Goto, provider,
     history, told, local
<1> QED
  BY <1>1, <1>2, <1>3, <1>4, <1>5, <1>6

\* Waiting for the pod moves the thread alone.
LEMMA AwaitActiveKeeps ==
    ASSUME IInv, NEW t \in Threads, AwaitActive(t)
    PROVE  IInv'
<1> USE DEF IInv
<1>1. TypeOK'
  BY DEF TypeOK, WorksOnPod, PodStates, Billing, PCs, Deploying, Deleting,
     AwaitActive, Goto, provider, history, told, local, Advance, Reachable
<1>2. WorksOnPod'
  BY DEF TypeOK, WorksOnPod, AwaitActive, Goto, provider, history, told,
     local, Advance, Reachable
<1>3. TunnelDealtWith'
  BY DEF TypeOK, WorksOnPod, TunnelDealtWith, AwaitActive, Goto, provider,
     history, told, local, Advance, Reachable
<1>4. BillingIsKnown'
  BY DEF TypeOK, WorksOnPod, BillingIsKnown, Billing, AwaitActive, Goto,
     provider, history, told, local, Advance, Reachable
<1>5. NoTunnelOutlivesPod'
  BY DEF TypeOK, WorksOnPod, TunnelDealtWith, NoTunnelOutlivesPod, InHand,
     AwaitActive, Goto, provider, history, told, local, Advance, Reachable
<1>6. DoneMeansGone'
  BY DEF TypeOK, WorksOnPod, DoneMeansGone, Billing, AwaitActive, Goto,
     provider, history, told, local, Advance, Reachable
<1> QED
  BY <1>1, <1>2, <1>3, <1>4, <1>5, <1>6

\* So does the bootstrap of the runtime.
LEMMA BootstrapKeeps ==
    ASSUME IInv, NEW t \in Threads, Bootstrap(t)
    PROVE  IInv'
<1> USE DEF IInv
<1>1. TypeOK'
  BY DEF TypeOK, WorksOnPod, PodStates, Billing, PCs, Deploying, Deleting,
     Bootstrap, Goto, provider, history, told, local, Reachable
<1>2. WorksOnPod'
  BY DEF TypeOK, WorksOnPod, Bootstrap, Goto, provider, history, told, local,
     Reachable
<1>3. TunnelDealtWith'
  BY DEF TypeOK, WorksOnPod, TunnelDealtWith, Bootstrap, Goto, provider,
     history, told, local, Reachable
<1>4. BillingIsKnown'
  BY DEF TypeOK, WorksOnPod, BillingIsKnown, Billing, Bootstrap, Goto,
     provider, history, told, local, Reachable
<1>5. NoTunnelOutlivesPod'
  BY DEF TypeOK, WorksOnPod, TunnelDealtWith, NoTunnelOutlivesPod, InHand,
     Bootstrap, Goto, provider, history, told, local, Reachable
<1>6. DoneMeansGone'
  BY DEF TypeOK, WorksOnPod, DoneMeansGone, Billing, Bootstrap, Goto,
     provider, history, told, local, Reachable
<1> QED
  BY <1>1, <1>2, <1>3, <1>4, <1>5, <1>6

\* A tunnel of a pod that is gone is left to its thread, which goes on to clean up.
LEMMA CreateTunnelKeeps ==
    ASSUME IInv, NEW t \in Threads, CreateTunnel(t)
    PROVE  IInv'
<1> USE DEF IInv
<1>1. TypeOK'
  BY DEF TypeOK, WorksOnPod, PodStates, Billing, PCs, Deploying, Deleting,
     CreateTunnel, Goto, provider, history, told, local, Overtaken
<1>2. WorksOnPod'
  BY DEF TypeOK, WorksOnPod, CreateTunnel, Goto, provider, history, told,
     local, Overtaken
<1>3. TunnelDealtWith'
  BY DEF TypeOK, WorksOnPod, TunnelDealtWith, CreateTunnel, Goto, provider,
     history, told, local, Overtaken
<1>4. BillingIsKnown'
  BY DEF TypeOK, WorksOnPod, BillingIsKnown, Billing, CreateTunnel, Goto,
     provider, history, told, local, Overtaken
<1>5. NoTunnelOutlivesPod'
  BY DEF TypeOK, WorksOnPod, TunnelDealtWith, NoTunnelOutlivesPod, InHand,
     CreateTunnel, Goto, provider, history, told, local, Overtaken
<1>6. DoneMeansGone'
  BY DEF TypeOK, WorksOnPod, DoneMeansGone, Billing, CreateTunnel, Goto,
     provider, history, told, local, Overtaken
<1> QED
  BY <1>1, <1>2, <1>3, <1>4, <1>5, <1>6

\* A tunnel leaves the hands of its thread only for a pod that is active.
LEMMA StartTunnelKeeps ==
    ASSUME IInv, NEW t \in Threads, StartTunnel(t)
    PROVE  IInv'
<1> USE DEF IInv
<1>1. TypeOK'
  BY DEF TypeOK, WorksOnPod, PodStates, Billing, PCs, Deploying, Deleting,
     StartTunnel, Goto, provider, history, told, local, Advance, Reachable
<1>2. WorksOnPod'
  BY DEF TypeOK, WorksOnPod, StartTunnel, Goto, provider, history, told,
     local, Advance, Reachable
<1>3. TunnelDealtWith'
  BY DEF TypeOK, WorksOnPod, TunnelDealtWith, StartTunnel, Goto, provider,
     history, told, local, Advance, Reachable
<1>4. BillingIsKnown'
  BY DEF TypeOK, WorksOnPod, BillingIsKnown, Billing, StartTunnel, Goto,
     provider, history, told, local, Advance, Reachable
<1>5. NoTunnelOutlivesPod'
  BY DEF TypeOK, WorksOnPod, TunnelDealtWith, NoTunnelOutlivesPod, InHand,
     StartTunnel, Goto, provider, history, told, local, Advance, Reachable
<1>6. DoneMeansGone'
  BY DEF TypeOK, WorksOnPod, DoneMeansGone, Billing, StartTunnel, Goto,
     provider, history, told, local, Advance, Reachable
<1> QED
  BY <1>1, <1>2, <1>3, <1>4, <1>5, <1>6

\* Waiting for the runtime moves the thread alone.
LEMMA AwaitServingKeeps ==
    ASSUME IInv, NEW t \in Threads, AwaitServing(t)
    PROVE  IInv'
<1> USE DEF IInv
<1>1. TypeOK'
  BY DEF TypeOK, WorksOnPod, PodStates, Billing, PCs, Deploying, Deleting,
     AwaitServing, Goto, provider, history, told, local, Advance, Reachable
<1>2. WorksOnPod'
  BY DEF TypeOK, WorksOnPod, AwaitServing, Goto, provider, history, told,
     local, Advance, Reachable
<1>3. TunnelDealtWith'
  BY DEF TypeOK, WorksOnPod, TunnelDealtWith, AwaitServing, Goto, provider,
     history, told, local, Advance, Reachable
<1>4. BillingIsKnown'
  BY DEF TypeOK, WorksOnPod, BillingIsKnown, Billing, AwaitServing, Goto,
     provider, history, told, local, Advance, Reachable
<1>5. NoTunnelOutlivesPod'
  BY DEF TypeOK, WorksOnPod, TunnelDealtWith, NoTunnelOutlivesPod, InHand,
     AwaitServing, Goto, provider, history, told, local, Advance, Reachable
<1>6. DoneMeansGone'
  BY DEF TypeOK, WorksOnPod, DoneMeansGone, Billing, AwaitServing, Goto,
     provider, history, told, local, Advance, Reachable
<1> QED
  BY <1>1, <1>2, <1>3, <1>4, <1>5, <1>6

\* So does waiting for the public endpoint.
LEMMA AwaitPublicKeeps ==
    ASSUME IInv, NEW t \in Threads, AwaitPublic(t)
    PROVE  IInv'
<1> USE DEF IInv
<1>1. TypeOK'
  BY DEF TypeOK, WorksOnPod, PodStates, Billing, PCs, Deploying, Deleting,
     AwaitPublic, Goto, provider, history, told, local, Advance, Reachable
<1>2. WorksOnPod'
  BY DEF TypeOK, WorksOnPod, AwaitPublic, Goto, provider, history, told,
     local, Advance, Reachable
<1>3. TunnelDealtWith'
  BY DEF TypeOK, WorksOnPod, TunnelDealtWith, AwaitPublic, Goto, provider,
     history, told, local, Advance, Reachable
<1>4. BillingIsKnown'
  BY DEF TypeOK, WorksOnPod, BillingIsKnown, Billing, AwaitPublic, Goto,
     provider, history, told, local, Advance, Reachable
<1>5. NoTunnelOutlivesPod'
  BY DEF TypeOK, WorksOnPod, TunnelDealtWith, NoTunnelOutlivesPod, InHand,
     AwaitPublic, Goto, provider, history, told, local, Advance, Reachable
<1>6. DoneMeansGone'
  BY DEF TypeOK, WorksOnPod, DoneMeansGone, Billing, AwaitPublic, Goto,
     provider, history, told, local, Advance, Reachable
<1> QED
  BY <1>1, <1>2, <1>3, <1>4, <1>5, <1>6

\* A deployment that ends well lets go of its pod.
LEMMA FinishKeeps ==
    ASSUME IInv, NEW t \in Threads, Finish(t)
    PROVE  IInv'
<1> USE DEF IInv
<1>1. TypeOK'
  BY DEF TypeOK, WorksOnPod, PodStates, Billing, PCs, Deploying, Deleting,
     Finish, Goto, provider, history, told, local, Return
<1>2. WorksOnPod'
  BY DEF TypeOK, WorksOnPod, Finish, Goto, provider, history, told, local,
     Return
<1>3. TunnelDealtWith'
  BY DEF TypeOK, WorksOnPod, TunnelDealtWith, Finish, Goto, provider, history,
     told, local, Return
<1>4. BillingIsKnown'
  BY DEF TypeOK, WorksOnPod, BillingIsKnown, Billing, Finish, Goto, provider,
     history, told, local, Return
<1>5. NoTunnelOutlivesPod'
  BY DEF TypeOK, WorksOnPod, TunnelDealtWith, NoTunnelOutlivesPod, InHand,
     Finish, Goto, provider, history, told, local, Return
<1>6. DoneMeansGone'
  BY DEF TypeOK, WorksOnPod, DoneMeansGone, Billing, Finish, Goto, provider,
     history, told, local, Return
<1> QED
  BY <1>1, <1>2, <1>3, <1>4, <1>5, <1>6

\* A cleanup that is not to be done leaves a stray tunnel loose.
LEMMA CleanupKeeps ==
    ASSUME IInv, NEW t \in Threads, Cleanup(t)
    PROVE  IInv'
<1> USE DEF IInv
<1>1. TypeOK'
  BY DEF TypeOK, WorksOnPod, PodStates, Billing, PCs, Deploying, Deleting,
     Cleanup, Goto, provider, history, told, local, Return, Stray
<1>2. WorksOnPod'
  BY DEF TypeOK, WorksOnPod, Cleanup, Goto, provider, history, told, local,
     Return, Stray
<1>3. TunnelDealtWith'
  BY DEF TypeOK, WorksOnPod, TunnelDealtWith, Cleanup, Goto, provider,
     history, told, local, Return, Stray
<1>4. BillingIsKnown'
  BY DEF TypeOK, WorksOnPod, BillingIsKnown, Billing, Cleanup, Goto, provider,
     history, told, local, Return, Stray
<1>5. NoTunnelOutlivesPod'
  BY DEF TypeOK, WorksOnPod, TunnelDealtWith, NoTunnelOutlivesPod, InHand,
     Cleanup, Goto, provider, history, told, local, Return, Stray
<1>6. DoneMeansGone'
  BY DEF TypeOK, WorksOnPod, DoneMeansGone, Billing, Cleanup, Goto, provider,
     history, told, local, Return, Stray
<1> QED
  BY <1>1, <1>2, <1>3, <1>4, <1>5, <1>6

\* So does a closed stream.
LEMMA CloseStreamKeeps ==
    ASSUME IInv, NEW t \in Threads, CloseStream(t)
    PROVE  IInv'
<1> USE DEF IInv
<1>1. TypeOK'
  BY DEF TypeOK, WorksOnPod, PodStates, Billing, PCs, Deploying, Deleting,
     CloseStream, Goto, provider, history, told, local, Return, Stray
<1>2. WorksOnPod'
  BY DEF TypeOK, WorksOnPod, CloseStream, Goto, provider, history, told,
     local, Return, Stray
<1>3. TunnelDealtWith'
  BY DEF TypeOK, WorksOnPod, TunnelDealtWith, CloseStream, Goto, provider,
     history, told, local, Return, Stray
<1>4. BillingIsKnown'
  BY DEF TypeOK, WorksOnPod, BillingIsKnown, Billing, CloseStream, Goto,
     provider, history, told, local, Return, Stray
<1>5. NoTunnelOutlivesPod'
  BY DEF TypeOK, WorksOnPod, TunnelDealtWith, NoTunnelOutlivesPod, InHand,
     CloseStream, Goto, provider, history, told, local, Return, Stray
<1>6. DoneMeansGone'
  BY DEF TypeOK, WorksOnPod, DoneMeansGone, Billing, CloseStream, Goto,
     provider, history, told, local, Return, Stray
<1> QED
  BY <1>1, <1>2, <1>3, <1>4, <1>5, <1>6

\* A stop begins with a pod that exists.
LEMMA StopKeeps ==
    ASSUME IInv, NEW t \in Threads, Stop(t)
    PROVE  IInv'
<1> USE DEF IInv
<1>1. TypeOK'
  BY DEF TypeOK, WorksOnPod, PodStates, Billing, PCs, Deploying, Deleting,
     Stop, Goto, provider, history, told, local
<1>2. WorksOnPod'
  BY DEF TypeOK, WorksOnPod, Stop, Goto, provider, history, told, local
<1>3. TunnelDealtWith'
  BY DEF TypeOK, WorksOnPod, TunnelDealtWith, Stop, Goto, provider, history,
     told, local
<1>4. BillingIsKnown'
  BY DEF TypeOK, WorksOnPod, BillingIsKnown, Billing, Stop, Goto, provider,
     history, told, local
<1>5. NoTunnelOutlivesPod'
  BY DEF TypeOK, WorksOnPod, TunnelDealtWith, NoTunnelOutlivesPod, InHand,
     Stop, Goto, provider, history, told, local
<1>6. DoneMeansGone'
  BY DEF TypeOK, WorksOnPod, DoneMeansGone, Billing, Stop, Goto, provider,
     history, told, local
<1> QED
  BY <1>1, <1>2, <1>3, <1>4, <1>5, <1>6

\* A tunnel that is not seen is not there, or loose.
LEMMA ListTunnelsKeeps ==
    ASSUME IInv, NEW t \in Threads, ListTunnels(t)
    PROVE  IInv'
<1> USE DEF IInv
<1>1. TypeOK'
  BY DEF TypeOK, WorksOnPod, PodStates, Billing, PCs, Deploying, Deleting,
     ListTunnels, Goto, provider, history, told, local, TunnelError
<1>2. WorksOnPod'
  BY DEF TypeOK, WorksOnPod, ListTunnels, Goto, provider, history, told,
     local, TunnelError
<1>3. TunnelDealtWith'
  BY DEF TypeOK, WorksOnPod, TunnelDealtWith, ListTunnels, Goto, provider,
     history, told, local, TunnelError
<1>4. BillingIsKnown'
  BY DEF TypeOK, WorksOnPod, BillingIsKnown, Billing, ListTunnels, Goto,
     provider, history, told, local, TunnelError
<1>5. NoTunnelOutlivesPod'
  BY DEF TypeOK, WorksOnPod, TunnelDealtWith, NoTunnelOutlivesPod, InHand,
     ListTunnels, Goto, provider, history, told, local, TunnelError
<1>6. DoneMeansGone'
  BY DEF TypeOK, WorksOnPod, DoneMeansGone, Billing, ListTunnels, Goto,
     provider, history, told, local, TunnelError
<1> QED
  BY <1>1, <1>2, <1>3, <1>4, <1>5, <1>6

\* A tunnel is deleted, or loose.
LEMMA DeleteTunnelKeeps ==
    ASSUME IInv, NEW t \in Threads, DeleteTunnel(t)
    PROVE  IInv'
<1> USE DEF IInv
<1>1. TypeOK'
  BY DEF TypeOK, WorksOnPod, PodStates, Billing, PCs, Deploying, Deleting,
     DeleteTunnel, Goto, provider, history, told, local, TunnelError
<1>2. WorksOnPod'
  BY DEF TypeOK, WorksOnPod, DeleteTunnel, Goto, provider, history, told,
     local, TunnelError
<1>3. TunnelDealtWith'
  BY DEF TypeOK, WorksOnPod, TunnelDealtWith, DeleteTunnel, Goto, provider,
     history, told, local, TunnelError
<1>4. BillingIsKnown'
  BY DEF TypeOK, WorksOnPod, BillingIsKnown, Billing, DeleteTunnel, Goto,
     provider, history, told, local, TunnelError
<1>5. NoTunnelOutlivesPod'
  BY DEF TypeOK, WorksOnPod, TunnelDealtWith, NoTunnelOutlivesPod, InHand,
     DeleteTunnel, Goto, provider, history, told, local, TunnelError
<1>6. DoneMeansGone'
  BY DEF TypeOK, WorksOnPod, DoneMeansGone, Billing, DeleteTunnel, Goto,
     provider, history, told, local, TunnelError
<1> QED
  BY <1>1, <1>2, <1>3, <1>4, <1>5, <1>6

\* A pod ends whose tunnel was dealt with.
LEMMA DeletePodKeeps ==
    ASSUME IInv, NEW t \in Threads, DeletePod(t)
    PROVE  IInv'
<1> USE DEF IInv
<1>1. TypeOK'
  BY DEF TypeOK, WorksOnPod, PodStates, Billing, PCs, Deploying, Deleting,
     DeletePod, Goto, provider, history, told, local, Return
<1>2. WorksOnPod'
  BY DEF TypeOK, WorksOnPod, DeletePod, Goto, provider, history, told, local,
     Return
<1>3. TunnelDealtWith'
  BY DEF TypeOK, WorksOnPod, TunnelDealtWith, DeletePod, Goto, provider,
     history, told, local, Return
<1>4. BillingIsKnown'
  BY DEF TypeOK, WorksOnPod, BillingIsKnown, Billing, DeletePod, Goto,
     provider, history, told, local, Return
<1>5. NoTunnelOutlivesPod'
  BY DEF TypeOK, WorksOnPod, TunnelDealtWith, NoTunnelOutlivesPod, InHand,
     DeletePod, Goto, provider, history, told, local, Return
<1>6. DoneMeansGone'
  BY DEF TypeOK, WorksOnPod, DoneMeansGone, Billing, DeletePod, Goto,
     provider, history, told, local, Return
<1> QED
  BY <1>1, <1>2, <1>3, <1>4, <1>5, <1>6

\* A thread that dies leaves its tunnel loose and its pod, if it had not named it, unheard of.
LEMMA CrashKeeps ==
    ASSUME IInv, NEW t \in Threads, Crash(t)
    PROVE  IInv'
<1> USE DEF IInv
<1>1. TypeOK'
  BY DEF TypeOK, WorksOnPod, PodStates, Billing, PCs, Deploying, Deleting,
     Crash, Goto, provider, history, told, local, Return, Stray
<1>2. WorksOnPod'
  BY DEF TypeOK, WorksOnPod, Crash, Goto, provider, history, told, local,
     Return, Stray
<1>3. TunnelDealtWith'
  BY DEF TypeOK, WorksOnPod, TunnelDealtWith, Crash, Goto, provider, history,
     told, local, Return, Stray
<1>4. BillingIsKnown'
  BY DEF TypeOK, WorksOnPod, BillingIsKnown, Billing, Crash, Goto, provider,
     history, told, local, Return, Stray
<1>5. NoTunnelOutlivesPod'
  BY DEF TypeOK, WorksOnPod, TunnelDealtWith, NoTunnelOutlivesPod, InHand,
     Crash, Goto, provider, history, told, local, Return, Stray
<1>6. DoneMeansGone'
  BY DEF TypeOK, WorksOnPod, DoneMeansGone, Billing, Crash, Goto, provider,
     history, told, local, Return, Stray
<1> QED
  BY <1>1, <1>2, <1>3, <1>4, <1>5, <1>6

\* A pod that comes up or fails bills as before.
LEMMA ProvisionKeeps ==
    ASSUME IInv, NEW p \in Pods, Provision(p)
    PROVE  IInv'
<1> USE DEF IInv
<1>1. TypeOK'
  BY DEF TypeOK, WorksOnPod, PodStates, Billing, PCs, Deploying, Deleting,
     Provision, provider, history, told, local
<1>2. WorksOnPod'
  BY DEF TypeOK, WorksOnPod, Provision, provider, history, told, local
<1>3. TunnelDealtWith'
  BY DEF TypeOK, WorksOnPod, TunnelDealtWith, Provision, provider, history,
     told, local
<1>4. BillingIsKnown'
  BY DEF TypeOK, WorksOnPod, BillingIsKnown, Billing, Provision, provider,
     history, told, local
<1>5. NoTunnelOutlivesPod'
  BY DEF TypeOK, WorksOnPod, TunnelDealtWith, NoTunnelOutlivesPod, InHand,
     Provision, provider, history, told, local
<1>6. DoneMeansGone'
  BY DEF TypeOK, WorksOnPod, DoneMeansGone, Billing, Provision, provider,
     history, told, local
<1> QED
  BY <1>1, <1>2, <1>3, <1>4, <1>5, <1>6

\* A tunnel that a pod leaves behind is loose.
LEMMA VanishKeeps ==
    ASSUME IInv, NEW p \in Pods, Vanish(p)
    PROVE  IInv'
<1> USE DEF IInv
<1>1. TypeOK'
  BY DEF TypeOK, WorksOnPod, PodStates, Billing, PCs, Deploying, Deleting,
     Vanish, provider, history, told, local
<1>2. WorksOnPod'
  BY DEF TypeOK, WorksOnPod, Vanish, provider, history, told, local
<1>3. TunnelDealtWith'
  BY DEF TypeOK, WorksOnPod, TunnelDealtWith, Vanish, provider, history, told,
     local
<1>4. BillingIsKnown'
  BY DEF TypeOK, WorksOnPod, BillingIsKnown, Billing, Vanish, provider,
     history, told, local
<1>5. NoTunnelOutlivesPod'
  BY DEF TypeOK, WorksOnPod, TunnelDealtWith, NoTunnelOutlivesPod, InHand,
     Vanish, provider, history, told, local
<1>6. DoneMeansGone'
  BY DEF TypeOK, WorksOnPod, DoneMeansGone, Billing, Vanish, provider,
     history, told, local
<1> QED
  BY <1>1, <1>2, <1>3, <1>4, <1>5, <1>6

\* Every step keeps IInv.
LEMMA InvariantStep == IInv /\ [Next]_vars => IInv'
<1> SUFFICES ASSUME IInv, [Next]_vars PROVE IInv'
  OBVIOUS
<1>1. ASSUME NEW t \in Threads, Deploy(t) PROVE IInv'
  BY <1>1, DeployKeeps
<1>2. ASSUME NEW t \in Threads, Create(t) PROVE IInv'
  BY <1>2, CreateKeeps
<1>3. ASSUME NEW t \in Threads, Announce(t) PROVE IInv'
  BY <1>3, AnnounceKeeps
<1>4. ASSUME NEW t \in Threads, AwaitActive(t) PROVE IInv'
  BY <1>4, AwaitActiveKeeps
<1>5. ASSUME NEW t \in Threads, Bootstrap(t) PROVE IInv'
  BY <1>5, BootstrapKeeps
<1>6. ASSUME NEW t \in Threads, CreateTunnel(t) PROVE IInv'
  BY <1>6, CreateTunnelKeeps
<1>7. ASSUME NEW t \in Threads, StartTunnel(t) PROVE IInv'
  BY <1>7, StartTunnelKeeps
<1>8. ASSUME NEW t \in Threads, AwaitServing(t) PROVE IInv'
  BY <1>8, AwaitServingKeeps
<1>9. ASSUME NEW t \in Threads, AwaitPublic(t) PROVE IInv'
  BY <1>9, AwaitPublicKeeps
<1>10. ASSUME NEW t \in Threads, Finish(t) PROVE IInv'
  BY <1>10, FinishKeeps
<1>11. ASSUME NEW t \in Threads, Cleanup(t) PROVE IInv'
  BY <1>11, CleanupKeeps
<1>12. ASSUME NEW t \in Threads, CloseStream(t) PROVE IInv'
  BY <1>12, CloseStreamKeeps
<1>13. ASSUME NEW t \in Threads, Stop(t) PROVE IInv'
  BY <1>13, StopKeeps
<1>14. ASSUME NEW t \in Threads, ListTunnels(t) PROVE IInv'
  BY <1>14, ListTunnelsKeeps
<1>15. ASSUME NEW t \in Threads, DeleteTunnel(t) PROVE IInv'
  BY <1>15, DeleteTunnelKeeps
<1>16. ASSUME NEW t \in Threads, DeletePod(t) PROVE IInv'
  BY <1>16, DeletePodKeeps
<1>17. ASSUME NEW t \in Threads, Crash(t) PROVE IInv'
  BY <1>17, CrashKeeps
<1>18. ASSUME NEW p \in Pods, Provision(p) PROVE IInv'
  BY <1>18, ProvisionKeeps
<1>19. ASSUME NEW p \in Pods, Vanish(p) PROVE IInv'
  BY <1>19, VanishKeeps
<1>20. CASE UNCHANGED vars
  BY <1>20 DEF IInv, TypeOK, WorksOnPod, TunnelDealtWith, BillingIsKnown,
     NoTunnelOutlivesPod, InHand, DoneMeansGone, vars
<1> QED
  BY <1>1, <1>2, <1>3, <1>4, <1>5, <1>6, <1>7, <1>8, <1>9, <1>10, <1>11,
     <1>12, <1>13, <1>14, <1>15, <1>16, <1>17, <1>18, <1>19, <1>20 DEF Next,
     Step

\* IInv holds in every reachable state.
THEOREM Invariance == Spec => []IInv
<1>1. Init => IInv
  BY InvariantInit
<1>2. IInv /\ [Next]_vars => IInv'
  BY InvariantStep
<1> QED
  BY <1>1, <1>2, PTL DEF Spec

\* The variables keep their types.
THEOREM TypeCorrect == Spec => []TypeOK
<1>1. IInv => TypeOK
  BY DEF IInv
<1> QED
  BY <1>1, Invariance, PTL

\* Every pod that bills was announced to the user, or the provider's reply or the
\* deploying process was lost right at its creation.
THEOREM BillIsKnown == Spec => []BillingIsKnown
<1>1. IInv => BillingIsKnown
  BY DEF IInv
<1> QED
  BY <1>1, Invariance, PTL

\* A tunnel outlives its pod only in the hands of a thread that will clean it up, or
\* where a cleanup failed, was cut short, or was overtaken.
THEOREM TunnelsEnd == Spec => []NoTunnelOutlivesPod
<1>1. IInv => NoTunnelOutlivesPod
  BY DEF IInv
<1> QED
  BY <1>1, Invariance, PTL

\* A rollback or stop that is called done has ended the bill.
THEOREM DoneIsTrue == Spec => []DoneMeansGone
<1>1. IInv => DoneMeansGone
  BY DEF IInv
<1> QED
  BY <1>1, Invariance, PTL

-----------------------------------------------------------------------------
(* The refinement of Inventory.                                            *)

\* A pod is created once, and what is gone or announced stays so; it is announced by
\* the thread that has it on the way.
LEMMA PodStep ==
    ASSUME IInv, [Next]_vars, NEW p \in Pods
    PROVE  /\ pod'[p] = "none" => pod[p] = "none"
           /\ pod[p] = "gone" => pod'[p] = "gone"
           /\ pod[p] = "none" => pod'[p] # "gone"
           /\ p \in announced => p \in announced'
           /\ p \in announced' => p \in announced \/ OnTheWay(p)
<1> DEFINE Goal ==
      /\ pod'[p] = "none" => pod[p] = "none"
      /\ pod[p] = "gone" => pod'[p] = "gone"
      /\ pod[p] = "none" => pod'[p] # "gone"
      /\ p \in announced => p \in announced'
      /\ p \in announced' => p \in announced \/ OnTheWay(p)
<1>1. ASSUME NEW t \in Threads, Create(t) PROVE Goal
  BY <1>1 DEF IInv, TypeOK, Create, told
<1>2. ASSUME NEW t \in Threads, Announce(t) PROVE Goal
  BY <1>2 DEF OnTheWay, Announce, provider
<1>3. ASSUME NEW t \in Threads, DeletePod(t) PROVE Goal
  BY <1>3 DEF IInv, TypeOK, DeletePod, Billing
<1>4. ASSUME NEW q \in Pods, Provision(q) \/ Vanish(q) PROVE Goal
  BY <1>4 DEF IInv, TypeOK, Provision, Vanish, Billing, told
<1>5. CASE UNCHANGED <<pod, announced>>
  BY <1>5
<1>6. ASSUME NEW t \in Threads,
             \/ Deploy(t) \/ Stop(t) \/ AwaitActive(t) \/ Bootstrap(t)
             \/ CreateTunnel(t) \/ StartTunnel(t) \/ AwaitServing(t)
      PROVE  UNCHANGED <<pod, announced>>
  BY <1>6 DEF Deploy, Stop, AwaitActive, Bootstrap, CreateTunnel, StartTunnel,
     AwaitServing, provider, told
<1>7. ASSUME NEW t \in Threads,
             \/ AwaitPublic(t) \/ Finish(t) \/ Cleanup(t) \/ CloseStream(t)
             \/ ListTunnels(t) \/ DeleteTunnel(t) \/ Crash(t)
      PROVE  UNCHANGED <<pod, announced>>
  BY <1>7 DEF AwaitPublic, Finish, Cleanup, CloseStream, ListTunnels,
     DeleteTunnel, Crash, provider, told
<1>8. CASE UNCHANGED vars
  BY <1>5, <1>8 DEF vars
<1> QED
  BY <1>1, <1>2, <1>3, <1>4, <1>5, <1>6, <1>7, <1>8 DEF Next, Step

\* A thread takes up no pod but one that was created.
LEMMA MineStep ==
    ASSUME IInv, [Next]_vars, NEW u \in Threads
    PROVE  \/ mine'[u] = mine[u]
           \/ mine'[u] = NoPod
           \/ pod'[mine'[u]] # "none"
<1> DEFINE Goal ==
      \/ mine'[u] = mine[u] \/ mine'[u] = NoPod \/ pod'[mine'[u]] # "none"
<1>1. ASSUME NEW t \in Threads, Create(t) PROVE Goal
  BY <1>1 DEF IInv, TypeOK, Create
<1>2. ASSUME NEW t \in Threads, Stop(t) PROVE Goal
  BY <1>2 DEF IInv, TypeOK, Stop, provider
<1>3. ASSUME NEW t \in Threads, Return(t) PROVE Goal
  BY <1>3 DEF IInv, TypeOK, Return
<1>4. ASSUME NEW t \in Threads,
             Finish(t) \/ Cleanup(t) \/ CloseStream(t) \/ DeletePod(t) \/ Crash(t)
      PROVE  Return(t) \/ UNCHANGED mine
  BY <1>4 DEF Finish, Cleanup, CloseStream, DeletePod, Crash, local
<1>5. CASE UNCHANGED mine
  BY <1>5
<1>6. ASSUME NEW t \in Threads,
             \/ Deploy(t) \/ Announce(t) \/ AwaitActive(t) \/ Bootstrap(t)
             \/ CreateTunnel(t) \/ StartTunnel(t) \/ AwaitServing(t)
             \/ AwaitPublic(t) \/ ListTunnels(t) \/ DeleteTunnel(t)
      PROVE  UNCHANGED mine
  BY <1>6 DEF Deploy, Announce, AwaitActive, Bootstrap, CreateTunnel,
     StartTunnel, AwaitServing, AwaitPublic, ListTunnels, DeleteTunnel, local
<1>7. ASSUME NEW q \in Pods, Provision(q) \/ Vanish(q) PROVE UNCHANGED mine
  BY <1>7 DEF Provision, Vanish, local
<1>8. CASE UNCHANGED vars
  BY <1>5, <1>8 DEF vars
<1> QED
  BY <1>1, <1>2, <1>3, <1>4, <1>5, <1>6, <1>7, <1>8 DEF Next, Step

\* Nobody has or announced a pod that was never created.
LEMMA UncreatedStep ==
    ASSUME IInv, NothingUncreated, [Next]_vars
    PROVE  NothingUncreated'
<1> SUFFICES ASSUME NEW p \in Pods, pod'[p] = "none"
             PROVE  p \notin announced' /\ \A t \in Threads : mine'[t] # p
  BY DEF NothingUncreated
<1>1. pod[p] = "none"
  BY PodStep
<1>2. p \notin announced /\ \A t \in Threads : mine[t] # p
  BY <1>1 DEF NothingUncreated
<1>3. p \notin announced'
  BY <1>2, PodStep DEF OnTheWay
<1>4. \A t \in Threads : mine'[t] # p
  BY <1>2, MineStep
<1> QED
  BY <1>3, <1>4

\* A pod that bills is in one of three places.
LEMMA BillingPlace ==
    ASSUME TypeOK, BillingIsKnown, NEW p \in Pods
    PROVE  /\ pod[p] = "none" => Place(p) = "unused"
           /\ pod[p] = "gone" => Place(p) = "over"
           /\ pod[p] \notin {"none", "gone"} => Place(p) \in {"held", "known", "lost"}
           /\ pod[p] \notin {"none", "gone"} =>
                 (Place(p) = "known" <=> p \in announced)
<1>1. pod[p] \notin {"none", "gone"} => pod[p] \in Billing
  BY DEF TypeOK, PodStates, Billing
<1> QED
  BY <1>1 DEF BillingIsKnown, OnTheWay, Place

\* Every step moves every pod as Inventory allows.
LEMMA StockStep ==
    ASSUME IInv, NothingUncreated, [Next]_vars
    PROVE  [Stock!Next]_(Stock!ivars)
<1> DEFINE place == [p \in Pods |-> Place(p)]
<1>1. IInv'
  BY InvariantStep
<1>2. place' = [p \in Pods |-> Place(p)']
  OBVIOUS
<1>3. ASSUME NEW p \in Pods
      PROVE  /\ Place(p)' \in Stock!Places
             /\ \/ Place(p)' = Place(p)
                \/ Place(p) = "unused" /\ Place(p)' \in {"held", "lost"}
                \/ Place(p) = "held" /\ Place(p)' \in {"known", "lost"}
                \/ Place(p) = "lost" /\ Place(p)' = "held"
                \/ Place(p) \in {"held", "known", "lost"} /\ Place(p)' = "over"
  <2>1. TypeOK /\ BillingIsKnown /\ TypeOK' /\ BillingIsKnown'
    BY <1>1 DEF IInv
  <2>2. /\ pod[p] = "none" => Place(p) = "unused"
        /\ pod[p] = "gone" => Place(p) = "over"
        /\ pod[p] \notin {"none", "gone"} => Place(p) \in {"held", "known", "lost"}
        /\ pod[p] \notin {"none", "gone"} =>
              (Place(p) = "known" <=> p \in announced)
    BY <2>1, BillingPlace
  <2>3. /\ pod'[p] = "none" => Place(p)' = "unused"
        /\ pod'[p] = "gone" => Place(p)' = "over"
        /\ pod'[p] \notin {"none", "gone"} =>
              Place(p)' \in {"held", "known", "lost"}
        /\ pod'[p] \notin {"none", "gone"} =>
              (Place(p)' = "known" <=> p \in announced')
    <3>1. /\ pod'[p] \notin {"none", "gone"} => pod'[p] \in Billing
      BY <2>1 DEF TypeOK, PodStates, Billing
    <3> QED
      BY <2>1, <3>1 DEF BillingIsKnown, OnTheWay, Place
  <2>4. p \in announced' => p \in announced \/ OnTheWay(p)
    BY PodStep
  <2>5. pod[p] \notin {"none", "gone"} /\ OnTheWay(p) /\ p \notin announced
          => Place(p) = "held"
    BY DEF Place
  <2>6. CASE pod[p] = "none"
    <3>1. p \notin announced /\ ~OnTheWay(p)
      BY <2>6 DEF NothingUncreated, OnTheWay
    <3>2. p \notin announced'
      BY <2>4, <3>1
    <3>3. pod'[p] # "gone"
      BY <2>6, PodStep
    <3> QED
      BY <2>2, <2>3, <2>6, <3>2, <3>3 DEF Stock!Places
  <2>7. CASE pod[p] = "gone"
    BY <2>2, <2>3, <2>7, PodStep DEF Stock!Places
  <2>8. CASE pod[p] \notin {"none", "gone"}
    <3>1. pod'[p] # "none"
      BY <2>8, PodStep
    <3>2. p \in announced => p \in announced'
      BY PodStep
    <3> QED
      BY <2>2, <2>3, <2>4, <2>5, <2>8, <3>1, <3>2 DEF Stock!Places
  <2> QED
    BY <2>6, <2>7, <2>8
<1>4. place' \in [Pods -> Stock!Places]
  BY <1>2, <1>3
<1>5. ASSUME NEW p \in Pods
      PROVE  \/ place'[p] = place[p]
             \/ Stock!Create(p) \/ Stock!WriteDown(p) \/ Stock!Lose(p)
             \/ Stock!TakeUp(p) \/ Stock!Tear(p) \/ Stock!End(p)
  BY <1>2, <1>3 DEF Stock!Create, Stock!WriteDown, Stock!Lose, Stock!TakeUp,
     Stock!End, Stock!Moves
<1> QED
  BY <1>4, <1>5 DEF Stock!Next

\* The pods of any deployments and stops are kept as Inventory says: in hand from the
\* moment they bill, then announced or lost, and billed no more once gone.
THEOREM KeepsTheStock == Spec => StockKept
<1>1. Init => Stock!Init
  BY DEF Init, Stock!Init, Place
<1>2. Init => NothingUncreated
  BY DEF Init, NothingUncreated
<1>3. IInv /\ NothingUncreated /\ [Next]_vars => NothingUncreated'
  BY UncreatedStep
<1>4. IInv /\ NothingUncreated /\ [Next]_vars => [Stock!Next]_(Stock!ivars)
  BY StockStep
<1> QED
  BY <1>1, <1>2, <1>3, <1>4, Invariance, PTL DEF Spec, StockKept, Stock!Spec

-----------------------------------------------------------------------------
(* The part of EveryCallEnds that needs no fairness.                       *)

\* How many steps a deployment or a stop may still take at most.
StepsLeft(t) ==
    CASE pc[t] = "idle" -> 0
      [] pc[t] = "delete" -> 1
      [] pc[t] = "untunnel" -> 2
      [] pc[t] = "list" -> 3
      [] pc[t] = "fail" -> 4
      [] pc[t] = "finish" -> 5
      [] pc[t] = "public" -> 6
      [] pc[t] = "serve" -> 7
      [] pc[t] = "connect" -> 8
      [] pc[t] = "tunnel" -> 9
      [] pc[t] = "boot" -> 10
      [] pc[t] = "wait" -> 11
      [] pc[t] = "announce" -> 12
      [] pc[t] = "create" -> 13

\* Every step of a call brings its end nearer, and no step of anybody else moves it away.
CallsRunDown == [][\A t \in Threads :
    /\ Step(t) \/ CloseStream(t) => StepsLeft(t)' < StepsLeft(t)
    /\ pc[t] # "idle" => StepsLeft(t)' <= StepsLeft(t)]_vars

\* A step of a thread runs its own call down.
LEMMA StepDown ==
    ASSUME TypeOK, NEW t \in Threads, Step(t) \/ CloseStream(t)
    PROVE  StepsLeft(t)' < StepsLeft(t)
<1> USE DEF TypeOK, Goto, Return, StepsLeft
<1>1. CASE Create(t) \/ Announce(t) \/ AwaitActive(t) \/ Bootstrap(t)
  BY <1>1 DEF Create, Announce, AwaitActive, Bootstrap, Advance
<1>2. CASE \/ CreateTunnel(t) \/ StartTunnel(t) \/ AwaitServing(t)
           \/ AwaitPublic(t) \/ Finish(t)
  BY <1>2 DEF CreateTunnel, StartTunnel, AwaitServing, AwaitPublic, Finish, Advance
<1>3. CASE Cleanup(t) \/ CloseStream(t)
  BY <1>3 DEF Cleanup, CloseStream
<1>4. CASE ListTunnels(t) \/ DeleteTunnel(t) \/ DeletePod(t)
  BY <1>4 DEF ListTunnels, DeleteTunnel, DeletePod, TunnelError
<1> QED
  BY <1>1, <1>2, <1>3, <1>4 DEF Step

\* A step of a thread leaves the calls of the others where they are.
LEMMA StepAlone ==
    ASSUME TypeOK, NEW t \in Threads,
           Step(t) \/ CloseStream(t) \/ Deploy(t) \/ Stop(t) \/ Crash(t),
           NEW u \in Threads, u # t
    PROVE  pc'[u] = pc[u]
<1> USE DEF TypeOK, Goto, Return
<1>1. CASE Create(t) \/ Announce(t) \/ AwaitActive(t) \/ Bootstrap(t)
  BY <1>1 DEF Create, Announce, AwaitActive, Bootstrap, Advance
<1>2. CASE \/ CreateTunnel(t) \/ StartTunnel(t) \/ AwaitServing(t)
           \/ AwaitPublic(t) \/ Finish(t)
  BY <1>2 DEF CreateTunnel, StartTunnel, AwaitServing, AwaitPublic, Finish, Advance
<1>3. CASE Cleanup(t) \/ CloseStream(t)
  BY <1>3 DEF Cleanup, CloseStream
<1>4. CASE ListTunnels(t) \/ DeleteTunnel(t) \/ DeletePod(t)
  BY <1>4 DEF ListTunnels, DeleteTunnel, DeletePod, TunnelError
<1>5. CASE Deploy(t) \/ Stop(t) \/ Crash(t)
  BY <1>5 DEF Deploy, Stop, Crash
<1> QED
  BY <1>1, <1>2, <1>3, <1>4, <1>5 DEF Step

\* Every deployment and every stop runs down: a deployment takes at most thirteen
\* steps of its own, its rollback included, and what others do adds none.
THEOREM EveryCallRunsDown == Spec => CallsRunDown
<1> DEFINE Down(t) ==
      /\ Step(t) \/ CloseStream(t) => StepsLeft(t)' < StepsLeft(t)
      /\ pc[t] # "idle" => StepsLeft(t)' <= StepsLeft(t)
<1>1. TypeOK /\ TypeOK' /\ [Next]_vars => [\A t \in Threads : Down(t)]_vars
  <2> SUFFICES ASSUME TypeOK, TypeOK', Next, NEW t \in Threads
               PROVE  Down(t)
    OBVIOUS
  <2>1. StepsLeft(t) \in 0 .. 13 /\ StepsLeft(t)' \in 0 .. 13
    BY DEF TypeOK, PCs, Deploying, Deleting, StepsLeft
  <2>2. Step(t) \/ CloseStream(t) => StepsLeft(t)' < StepsLeft(t)
    BY StepDown
  <2>3. pc'[t] = pc[t] => StepsLeft(t)' = StepsLeft(t)
    BY DEF StepsLeft
  <2>4. ASSUME NEW u \in Threads, u # t,
               Step(u) \/ CloseStream(u) \/ Deploy(u) \/ Stop(u) \/ Crash(u)
        PROVE  pc'[t] = pc[t]
    BY <2>4, StepAlone
  <2>5. Deploy(t) \/ Stop(t) => pc[t] = "idle"
    BY DEF Deploy, Stop
  <2>6. Crash(t) => StepsLeft(t)' = 0
    BY DEF TypeOK, Crash, Return, Goto, StepsLeft
  <2>7. ASSUME NEW p \in Pods, Provision(p) \/ Vanish(p)
        PROVE  pc'[t] = pc[t]
    BY <2>7 DEF Provision, Vanish
  <2>8. \/ pc'[t] = pc[t] \/ Deploy(t) \/ Stop(t) \/ Crash(t)
        \/ Step(t) \/ CloseStream(t)
    BY <2>4, <2>7 DEF Next
  <2> QED
    BY <2>1, <2>2, <2>3, <2>5, <2>6, <2>8
<1> QED
  BY <1>1, TypeCorrect, PTL DEF Spec, CallsRunDown

=============================================================================
