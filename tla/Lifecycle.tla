------------------------------- MODULE Lifecycle -------------------------------
(* The components that start, connect and stop, side by side: the supervisor, *)
(* a worker's runtime, the handshake, the peer's stop() and the environments  *)
(* the workers run in.  They share no state and run in processes of their     *)
(* own; "part" is the one whose behaviour is explored, while the others stay  *)
(* as they begin.                                                             *)
EXTENDS Supervisor, Worker, Handshake, PeerStop, Environments

VARIABLE part

lifecycleVars == <<part, supVars, workerVars, handshakeVars, stopVars, envVars>>

LifecycleInit ==
    /\ part \in {"supervisor", "worker", "handshake", "stop", "environments"}
    /\ SupInit /\ WorkerInit /\ HandshakeInit /\ PeerStopInit /\ EnvInit

OthersStay ==
    /\ UNCHANGED part
    /\ IF part = "supervisor" THEN TRUE ELSE UNCHANGED supVars
    /\ IF part = "worker" THEN TRUE ELSE UNCHANGED workerVars
    /\ IF part = "handshake" THEN TRUE ELSE UNCHANGED handshakeVars
    /\ IF part = "stop" THEN TRUE ELSE UNCHANGED stopVars
    /\ IF part = "environments" THEN TRUE ELSE UNCHANGED envVars

SupervisorRuns  == part = "supervisor" /\ SupNext /\ OthersStay
WorkerRuns      == part = "worker" /\ WorkerNext /\ OthersStay
HandshakeRuns   == part = "handshake" /\ HandshakeNext /\ OthersStay
PeerStopRuns    == part = "stop" /\ PeerStopNext /\ OthersStay
EnvironmentsRun == part = "environments" /\ EnvNext /\ OthersStay

LifecycleNext ==
    SupervisorRuns \/ WorkerRuns \/ HandshakeRuns \/ PeerStopRuns \/ EnvironmentsRun

(* The event loops run what is ready: as long as a step that nobody outside   *)
(* has to bring about is possible, one is taken.                              *)
LifecycleStep ==
    /\ \/ part = "supervisor" /\ SupervisorStep
       \/ part = "handshake" /\ HandshakeStep
       \/ part = "stop" /\ PeerStopStep
    /\ OthersStay

LifecycleSpec ==
    /\ LifecycleInit /\ [][LifecycleNext]_lifecycleVars
    /\ WF_lifecycleVars(LifecycleStep)

(* Nobody is left behind: a lost worker has a task that cleans up, a running  *)
(* one will be stopped, initialize() is on its way to an end, and so is every *)
(* call of the peer's stop().                                                 *)
NobodyIsLeft == NoWorkerLeft /\ InitializeIsUnderWay /\ StopIsUnderWay

(* Every component keeps to its types. *)
LifecycleTypeOK ==
    SupTypeOK /\ WorkerTypeOK /\ HandshakeTypeOK /\ PeerStopTypeOK /\ EnvTypeOK
=============================================================================
