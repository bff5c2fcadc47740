------------------------------- MODULE Worker -------------------------------
(* GroupWorkerRuntime and PluginWorkerRuntime: a worker process starts its    *)
(* plugins one after the other, each with its instances and what their        *)
(* decorators register, tells the supervisor about those that started, and    *)
(* stops them.  A hook, a registration or its removal may raise, the core may *)
(* carry out what it cannot answer any more, the connection may break, and    *)
(* start() may be cancelled.                                                  *)
EXTENDS Naturals, Sequences, FiniteSets, SequencesExt

CONSTANT Parts  \* the instances of each plugin, one per component of its
                \* manifest: the kinds of decorators each has, one of a kind

Remote == {"http", "skill"}     \* registered with the core
InProcess == {"hook", "task"}   \* asyncio tasks of the worker
Kinds == Remote \cup InProcess

ASSUME WorkerAssumption == Parts \in Seq(Seq(SUBSET Kinds) \ {<<>>})

Stars == 1..Len(Parts)          \* plugins of the worker, in order
Instances == UNION {{p} \X (1..Len(Parts[p])) : p \in Stars}
Uses(i) == Parts[i[1]][i[2]]

(* run_lifecycle_with_decorators of an instance, and the teardown after it.   *)
StartStages == <<"validate", "on_start", "http", "hook", "skill", "task">>
StopStages == <<"on_stop", "hook", "task", "http", "skill">>

VARIABLES
    single,     \* a PluginWorkerRuntime, which has one plugin
    lifecycle,  \* where the runtime stands
    remaining,  \* plugins still to be started or stopped
    at, stage,  \* instance of Head(remaining), and the stage of it
    raising,    \* what leaves run_lifecycle_with_decorators after the teardown
    life,       \* of each plugin
    stops,      \* how often on_stop of an instance was run
    held,       \* DecoratorRuntimeState of an instance: what it has to take back
    core,       \* what is registered with the core for it, or may be running
    active,     \* _active_plugin_states
    dispatching, \* plugins the dispatchers know
    published,  \* plugins whose handlers initialize announced
    link,       \* the connection to the supervisor
    raised,     \* ghost: instances an Exception left when they were last stopped
    lost,       \* ghost: what an instance took back in vain, and forgot
    aborted     \* ghost: a CancelledError ended the loop of stop()

workerVars == <<single, lifecycle, remaining, at, stage, raising, life, stops, held, core,
                active, dispatching, published, link, raised, lost, aborted>>

WorkerTypeOK ==
    /\ single \in BOOLEAN /\ link \in BOOLEAN /\ aborted \in BOOLEAN
    /\ lifecycle \in {"new", "starting", "initializing", "undoing", "running",
                      "stopping", "stopped"}
    /\ remaining \in Seq(Stars) /\ IsInjective(remaining)
    /\ at \in Nat /\ stage \in 1..6 /\ raising \in {"none", "error", "cancelled"}
    /\ life \in [Stars -> {"unloaded", "loaded", "started", "failed"}]
    /\ stops \in [Instances -> 0..2]
    /\ held \in [Instances -> SUBSET Kinds] /\ core \in [Instances -> SUBSET Kinds]
    /\ lost \in [Instances -> SUBSET Remote] /\ raised \subseteq Instances
    /\ active \subseteq Stars /\ dispatching \subseteq Stars /\ published \subseteq Stars

(* The plugins in the order in which they were loaded.                        *)
InOrder(stars) ==
    CHOOSE s \in [1..Cardinality(stars) -> stars] :
        \A m, n \in DOMAIN s : m < n => s[m] < s[n]

(* _load_plugins: a plugin of a group that cannot be imported is skipped; the *)
(* worker of a single plugin is not there without it.                         *)
WorkerInit ==
    /\ single \in BOOLEAN
    /\ \E able \in SUBSET Stars :
        /\ single => able = {1}
        /\ life = [p \in Stars |-> IF p \in able THEN "loaded" ELSE "unloaded"]
        /\ active = able
    /\ dispatching = active
    /\ lifecycle = "new" /\ remaining = <<>> /\ at = 1 /\ stage = 1 /\ raising = "none"
    /\ stops = [i \in Instances |-> 0]
    /\ held = [i \in Instances |-> {}] /\ core = held /\ lost = held
    /\ published = {} /\ link = TRUE /\ raised = {} /\ aborted = FALSE

-----------------------------------------------------------------------------
GoOn(to, stars) ==
    lifecycle' = to /\ remaining' = stars /\ at' = 1 /\ stage' = 1 /\ raising' = "none"

Stopping == GoOn("stopping", Reverse(InOrder(active))) /\ raised' = {}

Instance == <<Head(remaining), at>>    \* the one at hand
LastInstance == at = Len(Parts[Head(remaining)])

(* peer.start(); when it fails the caller of start() goes on to stop().       *)
StartPeer ==
    /\ lifecycle = "new"
    /\ \/ GoOn("starting", InOrder(active)) /\ UNCHANGED <<link, raised>>
       \/ Stopping /\ link' = FALSE
    /\ UNCHANGED <<single, life, stops, held, core, active, dispatching, published, lost, aborted>>

StartingUp(kind) == lifecycle = "starting" /\ remaining # <<>> /\ kind = StartStages[stage]

(* The core registers what it was asked to; the worker still awaits it.       *)
CoreRegisters(kind) ==
    /\ StartingUp(kind) /\ link
    /\ kind \in Remote \cap Uses(Instance) /\ kind \notin core[Instance]
    /\ core' = [core EXCEPT ![Instance] = @ \cup {kind}]
    /\ UNCHANGED <<single, lifecycle, remaining, at, stage, raising, life, stops, held, active,
                   dispatching, published, link, raised, lost, aborted>>

(* The hook has returned, or what was registered is recorded; the plugin has  *)
(* started with the last stage of its last instance.                          *)
StageDone(kind) ==
    LET made == {kind} \cap Uses(Instance) IN
    /\ StartingUp(kind)
    /\ kind = "validate" \/ made \cap Remote # {} => link
    /\ made \cap Remote \subseteq core[Instance]
    /\ held' = [held EXCEPT ![Instance] = @ \cup made]
    /\ core' = [core EXCEPT ![Instance] = @ \cup made]
    /\ \/ /\ stage < Len(StartStages) /\ stage' = stage + 1
          /\ UNCHANGED <<lifecycle, remaining, at, raising, life>>
       \/ /\ stage = Len(StartStages) /\ ~LastInstance /\ at' = at + 1 /\ stage' = 1
          /\ UNCHANGED <<lifecycle, remaining, raising, life>>
       \/ /\ stage = Len(StartStages) /\ LastInstance
          /\ GoOn("starting", Tail(remaining))
          /\ life' = [life EXCEPT ![Head(remaining)] = "started"]
    /\ UNCHANGED <<single, stops, active, dispatching, published, link, raised, lost, aborted>>

(* The stages of a start that await something, and may raise.                 *)
Awaiting == StartStages[stage] \in {"validate", "on_start"} \cup (Remote \cap Uses(Instance))

(* It raises, perhaps when the core has done what it was asked to.  The rest  *)
(* of a group starts without the plugin; a single plugin's start ends.        *)
StageRaises(kind) ==
    /\ StartingUp(kind) /\ Awaiting
    /\ life' = [life EXCEPT ![Head(remaining)] = "failed"]
    /\ IF single THEN GoOn("undoing", <<>>) ELSE GoOn("starting", Tail(remaining))
    /\ UNCHANGED <<single, stops, held, core, active, dispatching, published, link, raised,
                   lost, aborted>>

HasStarted == {p \in Stars : life[p] = "started"}

(* The plugins that started are the active ones, and the dispatchers are      *)
(* built again for them; a group without one raises.                          *)
AllTried ==
    /\ lifecycle = "starting" /\ remaining = <<>>
    /\ active' = IF single THEN active ELSE HasStarted
    /\ dispatching' = active'
    /\ IF active' = {} THEN GoOn("undoing", <<>>) ELSE GoOn("initializing", <<>>)
    /\ UNCHANGED <<single, life, stops, held, core, published, link, raised, lost, aborted>>

(* peer.initialize() stops the peer before it raises, when it was refused.    *)
Initialize ==
    /\ lifecycle = "initializing"
    /\ \/ link /\ published' = active /\ GoOn("running", <<>>) /\ UNCHANGED link
       \/ /\ link' \in {link, FALSE} /\ UNCHANGED published
          /\ GoOn("undoing", Reverse(InOrder(HasStarted)))
    /\ UNCHANGED <<single, life, stops, held, core, active, dispatching, raised, lost, aborted>>

(* start() is cancelled where it awaits something (no except clause of it     *)
(* sees that), or the signal or the end of the connection that a running      *)
(* worker waits for.                                                          *)
Interrupt ==
    /\ \/ lifecycle \in {"initializing", "running"} /\ UNCHANGED life
       \/ /\ lifecycle = "starting" /\ remaining # <<>> /\ Awaiting
          /\ life' = [life EXCEPT ![Head(remaining)] = "failed"]
    /\ Stopping
    /\ UNCHANGED <<single, stops, held, core, active, dispatching, published, link, lost, aborted>>

LoseLink ==
    /\ link /\ lifecycle \in {"starting", "initializing", "undoing", "running", "stopping"}
    /\ link' = FALSE
    /\ UNCHANGED <<single, lifecycle, remaining, at, stage, raising, life, stops, held, core,
                   active, dispatching, published, raised, lost, aborted>>

-----------------------------------------------------------------------------
StoppingAt(kind) ==
    lifecycle \in {"undoing", "stopping"} /\ remaining # <<>> /\ kind = StopStages[stage]

(* on_stop of an instance.  The teardown follows whatever it does.            *)
OnStop ==
    /\ StoppingAt("on_stop")
    /\ stops' = [stops EXCEPT ![Instance] = @ + 1]
    /\ raising' \in {"none", "error", "cancelled"}
    /\ raised' = IF raising' = "error" THEN raised \cup {Instance} ELSE raised
    /\ stage' = stage + 1
    /\ UNCHANGED <<single, lifecycle, remaining, at, life, held, core, active, dispatching,
                   published, link, lost, aborted>>

\* Mutant: an Exception ends the loop over the plugins.
ExceptionEndsAll == GoOn(lifecycle, <<>>) /\ UNCHANGED aborted

(* An Exception leaves an instance: it is logged, and the next plugin is      *)
(* stopped.  The instances of this one that come after it are left alone.     *)
ExceptionLeaves == GoOn(lifecycle, Tail(remaining)) /\ UNCHANGED aborted

(* No except clause sees a CancelledError: start() raises it and stop() is    *)
(* called, or stop() ends with the peer's.                                    *)
CancelLeaves ==
    IF lifecycle = "undoing" THEN Stopping /\ UNCHANGED aborted
    ELSE GoOn("stopping", <<>>) /\ aborted' = TRUE /\ UNCHANGED raised

(* _teardown_decorator_resources is through with one kind: it is taken back,  *)
(* or cannot be (the failure is logged) and is forgotten.                     *)
TakeBack(kind) ==
    LET mine == {kind} \cap held[Instance] IN
    /\ StoppingAt(kind) /\ kind # "on_stop"
    /\ held' = [held EXCEPT ![Instance] = @ \ {kind}]
    /\ \/ /\ mine \cap Remote # {} => link
          /\ core' = [core EXCEPT ![Instance] = @ \ mine] /\ UNCHANGED lost
       \/ /\ mine \cap Remote # {} /\ UNCHANGED core
          /\ lost' = [lost EXCEPT ![Instance] = @ \cup mine]
    /\ \/ /\ stage < Len(StopStages) /\ stage' = stage + 1
          /\ UNCHANGED <<lifecycle, remaining, at, raising, raised, aborted>>
       \/ /\ stage = Len(StopStages) /\ raising = "none" /\ ~LastInstance
          /\ at' = at + 1 /\ stage' = 1
          /\ UNCHANGED <<lifecycle, remaining, raising, raised, aborted>>
       \/ /\ stage = Len(StopStages) /\ raising = "none" /\ LastInstance
          /\ GoOn(lifecycle, Tail(remaining)) /\ UNCHANGED <<raised, aborted>>
       \/ stage = Len(StopStages) /\ raising = "error" /\ ExceptionLeaves /\ UNCHANGED raised
       \/ stage = Len(StopStages) /\ raising = "cancelled" /\ CancelLeaves
    /\ UNCHANGED <<single, life, stops, active, dispatching, published, link>>

(* The removal of a kind is broken off, perhaps when it was done: a task of a *)
(* provider hook raises, or the await of the core's answer is cancelled.      *)
BreakOff(kind) ==
    /\ StoppingAt(kind) /\ kind \in held[Instance]
    /\ \/ UNCHANGED core
       \/ (kind \in Remote => link) /\ core' = [core EXCEPT ![Instance] = @ \ {kind}]
    /\ \/ kind = "hook" /\ ExceptionLeaves /\ raised' = raised \cup {Instance}
       \/ kind \in Remote /\ CancelLeaves
    /\ UNCHANGED <<single, life, stops, held, active, dispatching, published, link, lost>>

(* start() gives up: the peer is stopped, and run_plugin_worker calls stop(). *)
StartFailed ==
    /\ lifecycle = "undoing" /\ remaining = <<>>
    /\ Stopping /\ link' = FALSE
    /\ UNCHANGED <<single, life, stops, held, core, active, dispatching, published, lost, aborted>>

Stopped ==
    /\ lifecycle = "stopping" /\ remaining = <<>>
    /\ lifecycle' = "stopped" /\ link' = FALSE
    /\ UNCHANGED <<single, remaining, at, stage, raising, life, stops, held, core, active,
                   dispatching, published, raised, lost, aborted>>

WorkerNext ==
    \/ StartPeer \/ AllTried \/ Initialize \/ Interrupt \/ LoseLink
    \/ OnStop \/ StartFailed \/ Stopped
    \/ \E kind \in Kinds \cup {"validate", "on_start"} :
          CoreRegisters(kind) \/ StageDone(kind) \/ StageRaises(kind)
    \/ \E kind \in Kinds : TakeBack(kind) \/ BreakOff(kind)

WorkerSpec == WorkerInit /\ [][WorkerNext]_workerVars

-----------------------------------------------------------------------------
(* What initialize told the supervisor is what the dispatchers serve, and     *)
(* every plugin among them has been started.                                  *)
ServesWhatItPublished ==
    /\ lifecycle \in {"initializing", "running"} =>
           dispatching = active /\ \A p \in dispatching : life[p] = "started"
    /\ published \subseteq dispatching

(* stop() left the rest of the plugin alone when it was at an earlier         *)
(* instance.                                                                  *)
PassedOver(i) == aborted \/ \E j \in raised : j[1] = i[1] /\ j[2] < i[2]

(* With the core, though the worker neither has it to take back nor tried to. *)
Untold(i) == core[i] \ (held[i] \cup lost[i])

(* When the worker has stopped, every instance of a plugin that started was   *)
(* stopped and has given up what was recorded for it, unless an Exception     *)
(* left it or an instance of its plugin before it, or stop() was cancelled; a *)
(* plugin of a group that failed in its start is the exception, nobody takes  *)
(* back what it had registered.  What was never recorded is left only by a    *)
(* plugin that failed: the one registration that was under way.               *)
StoppedMeansReleased ==
    lifecycle = "stopped" => \A i \in Instances :
        /\ life[i[1]] = "started" => stops[i] > 0 \/ PassedOver(i)
        /\ held[i] # {} => i \in raised \/ PassedOver(i) \/ (life[i[1]] = "failed" /\ ~single)
        /\ Untold(i) # {} =>
              /\ life[i[1]] = "failed" /\ \E kind \in Remote : Untold(i) = {kind}
              /\ \A j \in Instances : j[1] = i[1] /\ Untold(j) # {} => j = i

(* What a worker announces it serves, and what it started it gives up.        *)
WorkerKeepsItsWord == ServesWhatItPublished /\ StoppedMeansReleased
=============================================================================
