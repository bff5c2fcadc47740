----------------------------- MODULE Supervisor -----------------------------
(* SupervisorRuntime from start() to stop(): the sessions of the workers are  *)
(* opened one after the other, what each worker loaded is published in the    *)
(* routing tables and the registry, the supervisor joins the core, and the    *)
(* sessions are stopped when the core hangs up.  A worker may be lost at any  *)
(* of these moments: the task that watches its connection then cleans up.     *)
(*                                                                            *)
(* A plugin stands for its handlers too: a handler id is prefixed with the    *)
(* plugin's name, so both are routed and removed together.                    *)
EXTENDS Naturals, Sequences, FiniteSets, SequencesExt, Functions

CONSTANTS
    Sessions,     \* planned_sessions: local workers, then the manifest's, in order
    RemoteOnes,   \* those of them that come from the workers manifest
    Declared,     \* Declared[w]: the names in worker_registry of w
    Exports,      \* Exports[p]: the capabilities plugin p provides
    PrefixOf,     \* PrefixOf[c]: the plugins c has the name prefix of
    BuiltIn,      \* capabilities the router registers for itself
    MayBeLost,    \* workers whose connection may break
    Nobody

Started == Range(Sessions)
Known   == UNION {Declared[w] : w \in Started}
Local   == UNION {Declared[w] : w \in Started \ RemoteOnes}
Offered == BuiltIn \cup UNION {Exports[p] : p \in Known}

(* Every session is planned once, and the planner puts a local plugin into    *)
(* one environment group, so into one session.                                *)
ASSUME SupervisorAssumption ==
    /\ Sessions \in Seq(Started) /\ IsInjective(Sessions)
    /\ \A v, w \in Started \ RemoteOnes : v # w => Declared[v] \cap Declared[w] = {}
    /\ RemoteOnes \subseteq Started
    /\ MayBeLost \subseteq Started
    /\ \A p \in Known : Exports[p] \subseteq DOMAIN PrefixOf
    /\ Nobody \notin Started \cup Known /\ Nobody \notin BOOLEAN /\ Nobody # "router"

VARIABLES
    main,         \* where start() or stop() stands
    turn,         \* position in Sessions of the session start() is at
    conn,         \* conn[w]: the connection of w's session
    watch,        \* sessions with a _connection_watch_task
    sessions,     \* keys of worker_sessions
    reported,     \* reported[w]: loaded_plugins as w's initialize told
    handlerTo,    \* handler_to_worker and _handler_sources, by plugin
    pluginTo,     \* plugin_to_worker_session
    capabilityTo, \* the router's registration of a capability, with
                  \* capability_to_worker and _capability_sources
    loaded,       \* loaded_plugins
    skipped,      \* keys of skipped_plugins
    served,       \* metadata["enabled"] of a plugin the router knows
    announced,    \* what the initialize frame to the core listed
    toStop        \* sessions stop() has still to stop

tables  == <<sessions, reported, handlerTo, pluginTo, capabilityTo, loaded>>
supVars == <<main, turn, conn, watch, tables, skipped, served, announced, toStop>>

NoRoute  == [worker |-> Nobody, plugin |-> Nobody]
ByRouter == [worker |-> "router", plugin |-> Nobody]

SupTypeOK ==
    /\ main \in {"idle", "opening", "discarding", "joining", "announcing",
                 "serving", "stopping", "stopped"}
    /\ turn \in 1..Len(Sessions) + 1
    /\ conn \in [Started -> {"none", "opening", "open", "lost", "stopped"}]
    /\ watch \subseteq Started /\ sessions \subseteq Started
    /\ toStop \subseteq Started
    /\ reported \in [Started -> SUBSET Known]
    /\ handlerTo \in [Known -> Started \cup {Nobody}]
    /\ pluginTo \in [Known -> Started \cup {Nobody}]
    /\ capabilityTo \in [Offered -> {NoRoute, ByRouter}
                                    \cup [worker : Started, plugin : Known]]
    /\ loaded \subseteq Known /\ skipped \subseteq Known
    /\ served \in [Known -> BOOLEAN \cup {Nobody}]
    /\ announced \subseteq Known \cup Offered

SupInit ==
    /\ main = "idle" /\ turn = 1
    /\ conn = [w \in Started |-> "none"]
    /\ watch = {} /\ sessions = {} /\ toStop = {}
    /\ reported = [w \in Started |-> {}]
    /\ handlerTo = [p \in Known |-> Nobody]
    /\ pluginTo = [p \in Known |-> Nobody]
    /\ capabilityTo = [c \in Offered |-> IF c \in BuiltIn THEN ByRouter ELSE NoRoute]
    /\ loaded = {} /\ skipped = {}
    /\ served = [p \in Known |-> Nobody]
    /\ announced = {}

-----------------------------------------------------------------------------
(* upsert_plugin for each of a set of plugins.                                *)
Upsert(plugins, on) ==
    [p \in Known |-> IF p \in plugins THEN p \in on ELSE served[p]]

(* start() up to its loop: the local plugins are published as not enabled.    *)
Discover ==
    /\ main = "idle"
    /\ main' = "opening"
    /\ served' = Upsert(Local, {})
    /\ UNCHANGED <<turn, conn, watch, tables, skipped, announced, toStop>>

Current == Sessions[turn]

(* WorkerSession.start up to its first await.                                 *)
OpenSession ==
    /\ main = "opening" /\ turn <= Len(Sessions)
    /\ conn[Current] = "none"
    /\ conn' = [conn EXCEPT ![Current] = "opening"]
    /\ UNCHANGED <<main, turn, watch, tables, skipped, served, announced, toStop>>

(* _record_session_start_failure: a remote worker names no plugins of its own. *)
RecordFailure ==
    /\ skipped' = skipped \cup
          (IF Current \in RemoteOnes THEN {} ELSE Declared[Current])
    /\ main' = "discarding"
    /\ UNCHANGED <<turn, conn, watch, tables, served, announced, toStop>>

(* The environment cannot be prepared, the process cannot be spawned, the     *)
(* handshake times out, is refused or is cut short, or what the worker tells  *)
(* does not pass _validate_initialized_state.                                 *)
SessionFails ==
    /\ main = "opening" /\ turn <= Len(Sessions)
    /\ conn[Current] \in {"none", "opening", "lost"}
    /\ RecordFailure

\* Mutant: a session whose start failed is not stopped.
DiscardRunning ==
    /\ main = "discarding"
    /\ turn' = turn + 1
    /\ main' = "opening"
    /\ UNCHANGED <<conn, watch, tables, skipped, served, announced, toStop>>

\* Mutant: the loop moves on twice.
DiscardTwice ==
    /\ main = "discarding"
    /\ conn' = [conn EXCEPT ![Current] = IF @ = "opening" THEN "stopped" ELSE @]
    /\ turn' = turn + 2
    /\ main' = "opening"
    /\ UNCHANGED <<watch, tables, skipped, served, announced, toStop>>

(* await session.stop(), then on to the next session.                         *)
Discard ==
    /\ main = "discarding"
    /\ conn' = [conn EXCEPT ![Current] = IF @ = "opening" THEN "stopped" ELSE @]
    /\ turn' = turn + 1
    /\ main' = "opening"
    /\ UNCHANGED <<watch, tables, skipped, served, announced, toStop>>

\* Mutant: remote workers are compared with local plugins only.
ConflictsLocal(w) == w \in RemoteOnes /\ Declared[w] \cap Local # {}

(* _validate_remote_session_plugins.                                          *)
Conflicts(w) ==
    /\ w \in RemoteOnes
    /\ Declared[w] \cap (Local \cup {p \in Known : pluginTo[p] # Nobody}) # {}

Provided(plugins) == UNION {Exports[p] : p \in plugins}
SourceOf(c, plugins) == CHOOSE p \in plugins : c \in Exports[p]

(* _register_plugin_capability accepts the capability.                        *)
Registrable(c, plugins) ==
    /\ SourceOf(c, plugins) \in PrefixOf[c]
    /\ capabilityTo[c] = NoRoute

(* _register_started_session: the capabilities are taken one by one, so when  *)
(* one is refused any of the others may have been registered before it; the   *)
(* exception leaves the loop of start(), which stops everything.              *)
RegisterStarted(w, plugins) ==
    /\ sessions' = sessions \cup {w}
    /\ reported' = [reported EXCEPT ![w] = plugins]
    /\ skipped' = skipped \cup (Declared[w] \ plugins)
    /\ served' = Upsert(Declared[w], plugins)
    /\ pluginTo' = [p \in Known |-> IF p \in plugins THEN w ELSE pluginTo[p]]
    /\ handlerTo' = [p \in Known |-> IF p \in plugins THEN w ELSE handlerTo[p]]
    /\ loaded' = loaded \cup plugins
    /\ LET offers  == Provided(plugins)
           refused == {c \in offers : ~Registrable(c, plugins)}
       IN \E taken \in SUBSET (offers \ refused) :
            /\ refused = {} => taken = offers
            /\ capabilityTo' = [c \in Offered |->
                  IF c \in taken
                  THEN [worker |-> w, plugin |-> SourceOf(c, plugins)]
                  ELSE capabilityTo[c]]
            /\ IF refused = {}
               THEN /\ watch' = watch \cup {w}
                    /\ turn' = turn + 1
                    /\ UNCHANGED <<main, toStop>>
               ELSE /\ main' = "stopping"
                    /\ toStop' = sessions'
                    /\ UNCHANGED <<watch, turn>>
    /\ conn' = [conn EXCEPT ![w] = IF @ = "lost" THEN @ ELSE "open"]
    /\ UNCHANGED announced

(* The handshake of the current session ends well; the worker tells which of  *)
(* its plugins it loaded, at least one (a worker without plugins stops).  The *)
(* connection may have broken since: start() looks at the handshake first.    *)
SessionInitialized ==
    /\ main = "opening" /\ turn <= Len(Sessions)
    /\ conn[Current] \in {"opening", "lost"}
    /\ \E plugins \in SUBSET Declared[Current] \ {{}} :
          IF Conflicts(Current)
          THEN RecordFailure
          ELSE RegisterStarted(Current, plugins)

(* _publish_loaded_plugin_registry, then peer.start().                        *)
PublishLoaded ==
    /\ main = "opening" /\ turn > Len(Sessions)
    /\ served' = Upsert(Local, loaded)
    /\ main' = "joining"
    /\ UNCHANGED <<turn, conn, watch, tables, skipped, announced, toStop>>

(* The arguments of peer.initialize(), evaluated once peer.start() returned.  *)
Announce ==
    /\ main = "joining"
    /\ announced' = (UNION {reported[w] : w \in sessions})
                    \cup {c \in Offered : capabilityTo[c] # NoRoute}
    /\ main' = "announcing"
    /\ UNCHANGED <<turn, conn, watch, tables, skipped, served, toStop>>

Joined ==
    /\ main = "announcing"
    /\ main' = "serving"
    /\ UNCHANGED <<turn, conn, watch, tables, skipped, served, announced, toStop>>

(* stop() begins with a copy of worker_sessions: the core refuses the         *)
(* handshake, or start() has returned and the core hangs up or a signal comes. *)
BeginStop ==
    /\ main \in {"joining", "announcing", "serving"}
    /\ main' = "stopping"
    /\ toStop' = sessions
    /\ UNCHANGED <<turn, conn, watch, tables, skipped, served, announced>>

StopSession(w) ==
    /\ main = "stopping" /\ w \in toStop
    /\ toStop' = toStop \ {w}
    /\ conn' = [conn EXCEPT ![w] = IF @ = "open" THEN "stopped" ELSE @]
    /\ UNCHANGED <<main, turn, watch, tables, skipped, served, announced>>

AllStopped ==
    /\ main = "stopping" /\ toStop = {}
    /\ main' = "stopped"
    /\ UNCHANGED <<turn, conn, watch, tables, skipped, served, announced, toStop>>

-----------------------------------------------------------------------------
(* The worker exits, or the connection to it breaks.                          *)
LoseWorker(w) ==
    /\ w \in MayBeLost /\ conn[w] \in {"opening", "open"}
    /\ conn' = [conn EXCEPT ![w] = "lost"]
    /\ UNCHANGED <<main, turn, watch, tables, skipped, served, announced, toStop>>

(* _handle_worker_closed for a session still in worker_sessions.              *)
ForgetSession(w) ==
    /\ sessions' = sessions \ {w}
    /\ handlerTo' = [p \in Known |-> IF p \in reported[w] THEN Nobody ELSE handlerTo[p]]
    /\ capabilityTo' = [c \in Offered |->
          IF /\ c \in Provided(reported[w])
             /\ capabilityTo[c].plugin = SourceOf(c, reported[w])
          THEN NoRoute
          ELSE capabilityTo[c]]
    /\ loaded' = loaded \ reported[w]
    /\ pluginTo' = [p \in Known |-> IF p \in reported[w] THEN Nobody ELSE pluginTo[p]]
    /\ served' = [p \in Known |->
          IF p \in reported[w] /\ served[p] # Nobody THEN FALSE ELSE served[p]]

\* Mutant: a death during the start of a later worker is only logged.
ClosedWhileOpening(w) ==
    /\ w \in watch /\ conn[w] \in {"lost", "stopped"}
    /\ watch' = watch \ {w}
    /\ IF w \in sessions /\ main # "opening"
       THEN ForgetSession(w)
       ELSE UNCHANGED <<sessions, handlerTo, capabilityTo, loaded, pluginTo, served>>
    /\ UNCHANGED <<main, turn, conn, reported, skipped, announced, toStop>>

(* _watch_connection after the transport closed, whoever closed it.           *)
WorkerClosed(w) ==
    /\ w \in watch /\ conn[w] \in {"lost", "stopped"}
    /\ watch' = watch \ {w}
    /\ IF w \in sessions
       THEN ForgetSession(w)
       ELSE UNCHANGED <<sessions, handlerTo, capabilityTo, loaded, pluginTo, served>>
    /\ UNCHANGED <<main, turn, conn, reported, skipped, announced, toStop>>

SupNext ==
    \/ Discover \/ OpenSession \/ SessionFails \/ SessionInitialized \/ Discard
    \/ PublishLoaded \/ Announce \/ Joined \/ BeginStop \/ AllStopped
    \/ \E w \in Started : StopSession(w) \/ LoseWorker(w) \/ WorkerClosed(w)

(* The loop runs what is ready: a session start ends (60 s timeout at worst), *)
(* stop() goes on, a watch task sees its connection closed.                   *)
SupervisorStep ==
    \/ Discover \/ OpenSession \/ SessionFails \/ Discard \/ PublishLoaded
    \/ Announce \/ AllStopped
    \/ \E w \in Started : StopSession(w) \/ WorkerClosed(w)

SupSpec     == SupInit /\ [][SupNext]_supVars
SupFairSpec == SupSpec /\ WF_supVars(SupervisorStep)

-----------------------------------------------------------------------------
(* The five tables _register_started_session fills and _handle_worker_closed  *)
(* empties agree at every await: what a session in worker_sessions reported   *)
(* is routed to it and to nobody else, and nothing is routed to a session     *)
(* that was forgotten, however deaths and later starts interleave.            *)
TablesMatch ==
    /\ \A p \in Known :
          /\ handlerTo[p] = pluginTo[p]
          /\ (p \in loaded) <=> pluginTo[p] # Nobody
          /\ pluginTo[p] # Nobody =>
                pluginTo[p] \in sessions /\ p \in reported[pluginTo[p]]
    /\ \A c \in Offered : capabilityTo[c] \notin {NoRoute, ByRouter} =>
          /\ capabilityTo[c].worker \in sessions
          /\ pluginTo[capabilityTo[c].plugin] = capabilityTo[c].worker
    /\ main \notin {"stopping", "stopped"} =>
          \A w \in sessions : \A p \in reported[w] :
             /\ pluginTo[p] = w
             /\ \A c \in Exports[p] : capabilityTo[c].worker = w

(* The registry says of a plugin that it is served exactly while a session   *)
(* serves it, although it is written from three places: the publication       *)
(* before the start, that of each worker, and the one after all starts, which *)
(* may come after a worker that had started has died.                         *)
EnabledIsServed ==
    \A p \in Known : (served[p] = TRUE) <=> pluginTo[p] # Nobody

(* Capabilities of the router itself are never replaced or removed by a       *)
(* worker's start, its death or a name it claims.                             *)
BuiltInStays == \A c \in BuiltIn : capabilityTo[c] = ByRouter

(* What the core is told can be called, and is answered by whoever told it.   *)
RoutesAgree == TablesMatch /\ EnabledIsServed /\ BuiltInStays

(* The safety part of the two properties below: a lost worker that is still   *)
(* in the tables has a task that will clean up, and every worker that runs    *)
(* when stop() begins, however far its start had come, is one it will stop.   *)
NoWorkerLeft ==
    /\ main \notin {"stopping", "stopped"} =>
          \A w \in sessions : conn[w] = "lost" => w \in watch
    /\ \A w \in Started : conn[w] \in {"opening", "open"} =>
          /\ main # "stopped"
          /\ main = "stopping" => w \in toStop

(* A worker lost while the supervisor runs is forgotten by all tables in the  *)
(* end, however early it was lost.                                            *)
LostIsForgotten ==
    <>[](main \in {"stopping", "stopped"} \/ \A w \in sessions : conn[w] # "lost")

(* Once the supervisor has begun to stop it stops, and no worker that was     *)
(* ever started is left running, not even one whose registration raised       *)
(* half-way or whose start failed.                                            *)
StopCompletes ==
    main = "stopping" ~>
        (main = "stopped" /\ \A w \in Started : conn[w] \notin {"opening", "open"})
=============================================================================
