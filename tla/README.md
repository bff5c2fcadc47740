# TLA+ verification of astrbot-sdk

astrbot-sdk runs the plugins of a chat bot in worker processes.  A supervisor
starts them, talks to each over a pair of pipes (or a websocket), and presents
them to the bot's core as one plugin host.  What can go wrong in such a program
is mostly concurrency: coroutines that interleave at every `await`, several
processes, a thread pool, and connections that break at any point.

Paths below are relative to `src/src/astrbot_sdk/`.

## 1. Inventory

```
 core <--Peer/Transport--> SupervisorRuntime <--Peer/Transport--> worker process
                             CapabilityRouter                       HandlerDispatcher
                             WorkerSession (one per worker)         CapabilityDispatcher
                             EnvironmentGroups                      SessionWaiterManager, limiter
```

| component | state it keeps | operations | how it interacts | hard behaviour | what makes it correct |
|---|---|---|---|---|---|
| Peer (`runtime/peer.py`) | `_pending_results`, `_pending_streams`, `_inbound_tasks`, `_unusable`, `_stopping`, `_closed`, `_stop_task` | invoke, invoke_stream, cancel, initialize, start, stop; handlers of result, event, invoke, cancel, initialize frames | one transport below, one remote peer, handlers above | every `await` interleaves; cancellation between two awaits; failure and stop race with calls | replies reach their own caller, failure releases every caller, a stream is delivered in order, cancelled work ends |
| Transport (`runtime/transport.py`) | process or socket, reader task, `_closed` | start, stop, send, read loops | carries frames for Peer | the worker's `send` hands every frame to a thread; a frame may be withdrawn, truncated or lost | what is read was sent; loss is noticed |
| WorkerSession, SupervisorRuntime (`runtime/supervisor.py`) | worker_sessions, handler_to_worker, capability_to_worker, active_requests, the published registry | start of all workers, relay of invokes and cancels in both directions, cleanup of a closed worker | one Peer to the core, one per worker; CapabilityRouter | a worker dies during start or during a call; ids of several connections meet in one table | no route to a dead worker, a cancel reaches the call it names, a reply its own caller |
| worker runtime (`runtime/worker.py`, `_internal/decorator_lifecycle.py`) | plugin states, dispatchers, background tasks | start, on_start/on_stop of every plugin, stop | Peer to the supervisor | one plugin of several fails; stop after a partial start | what was started is stopped, in reverse |
| HandlerDispatcher (`runtime/handler_dispatcher.py`), conversations (`conversation.py`) | `_active`, `_conversations` | dispatch, cancel, conversation reject/replace | SessionWaiterManager, limiter | two messages of a session at once | one live conversation per key |
| CapabilityDispatcher (`runtime/capability_dispatcher.py`) | `_active` | invoke, stream, cancel | Peer | cancel while a stream is iterated | cancelled work ends |
| SessionWaiterManager (`session_waiter.py`) | `_entries`, per-session locks, timers | register, dispatch, fail, unregister, keep | HandlerDispatcher | timeout against an answer; nested waiters; a waiter replaced while its callback runs | a message goes to the waiter that stands, every waiter ends |
| limiter (`runtime/limiter.py`) | sliding windows, cooldowns | check | HandlerDispatcher | boundary of the window | never more than `limit` in any window |
| CapabilityRouter (`runtime/capability_router.py`, `_capability_router_builtins/`) | registrations, in-memory services, event streams, watchers | register, unregister, execute | called by the supervisor for every upstream capability | reuse of ids, queues of watchers | one handler per name, events go to their own stream |
| EnvironmentGroups (`runtime/environment_groups.py`) | plan, lock files, state file, venvs | plan, prepare, rebuild or sync, cleanup | spawns `uv` | a crash between two file operations | an environment used matches its lock |
| MemoryBackend (`_memory_backend.py`) | sqlite tables, vector index, dirty flags | save, search, delete, reindex | worker threads | index built from a stale read | index agrees with the table |
| capability contract (`protocol/_builtin_schemas.py`, `clients/`) | a schema for every capability | every client method builds a payload, the router validates it and the answer, the client reads the answer | clients, schemas, validator and handlers are four files | what each capability carries is written down four times | what a client builds is taken, what a handler answers can be read |
| handshake (`initialize()` in `runtime/peer.py`) | negotiated version, `_remote_initialized` | initialize, reject, wait_until_remote_initialized | first frames of a Peer | one end may be unable to read the other | both ends agree on the version, nobody waits for ever |
| loader, cli, decorators, clients, message types, templates, testing | declarations, little state | discovery, argument parsing, formatting | | mostly sequential or pure I/O | |

## 2. Plan

In order of importance; `*` is written.

1. `*` **Peer**, `RpcContract`, `PeerContract`, `MCPeer`: a connection and its abstract contract; `PeerProofs`, `PeerReplyProofs`, `PeerStreamProofs`.
2. `*` **PeerStop**: `stop()` as several tasks call it, with the task `_fail_connection` schedules.
3. `*` **Relay**, `RelayContract`, `RelayProofs`, `MCRelay`: the supervisor between the core and several workers, where the request ids of several connections meet (`active_requests`), and the contract of a call (`RpcContract` again) it keeps as long as they do not.
4. `*` **SessionWaiter**, `MCSessionWaiter`: registration, dispatch, timeouts and replacement of waiters; **Dialogues** above it: conversations that reject or replace each other.
5. `*` **Limiter**. The proofs of 4, 5 and Conversations are in `ServicesProofs`.
6. `*` **Supervisor**: start-up of workers, registry, death of a worker.
7. `*` **Worker**: start and stop of the plugins of a worker process.
8. `*` **Handshake**: version and codec negotiation.
9. `*` **Environments**: planning and preparation with crashes and failing steps. The proofs of 6-9 are in `LifecycleProofs`.
10. `*` **Memory**, **Watch**, **MessageHistory**, **Conversations**, **KnowledgeBases**, **Providers**: the services that keep tables for plugins; `StoreProofs`. **Selection**, `SelectionProofs`: what a list comprehension keeps, used by several.
11. `*` **Schemas**, **CapabilitySchemas**, **Clients**, **Answers**, **Capabilities**: every capability call against its schema.
12. `*` **Lifecycle** (items 2, 6-9 side by side) and **Services** (Dialogues, Limiter and item 10 side by side).
13. Left: a second relay module for streams; the capability dispatcher on top of Peer.

`MCLifecycle` and `MCServices` (which adds item 11) instantiate the components that
need no instance of their own, see section 6.

## 3. Peer: one connection

`Peer.tla` holds two ends, the supervisor and a worker, and everything between
them.  A call is named by the end that made it and its request id.

State.  `pending`, `streams`, `inbound` are the keys of `_pending_results`,
`_pending_streams`, `_inbound_tasks`; `queue` the `asyncio.Queue` of a stream;
`cpc`, `reply` say where the caller's coroutine stands and what its future holds;
`tpc`, `token`, `mustCancel` where the inbound task stands, its `CancelToken`
and whether `task.cancel()` was called with the `CancelledError` not yet thrown;
`unusable` is `_unusable` and `phase` is `_stopping`/`_closed`.  `wire` holds the
frames written and not read, `writing` those a thread of `asyncio.to_thread`
still holds, `cancelling` the id whose `_cancel_handler` the reader awaits.

Actions.  Each is the code between two awaits of one coroutine: the caller
(`Invoke`, `SendDone`, `SendRaises`, `Return`, `Iterate`, `NextItem`,
`CloseEarly`, `Abandon`, `Cancel`), the reader (`Receive` and its handlers,
`Refuse` for a frame the size check or the codec rejects, `CancelTask` after
the cancel handler returns), the inbound task (`Start`, `HandlerReturns`,
`NextChunk`, `StreamEnds`, `TaskDone`, `TaskSendRaises`, `Interrupt`,
`Suppress`), and the connection (`Fail`, `Stop`, `StopDone`, `LoseLink`, `Eof`,
`WriteFrame`).  `_fail_connection` is the operator `FailConnection`, and the
tables it and `stop()` clear are cleared by `Release`.

Abstractions.  Payloads are left out, a delta is its index.  A frame that is
written is read whole or not at all: a truncated frame ends the reader like an
end of file.  `stop()` is one coroutine here (several are `PeerStop`'s subject),
`start()` is not called again on a stopped peer, and the handshake (`Handshake`)
has taken place.

### Runs

Except for peer_overlap, every configuration makes the worker write with
threads and the supervisor's cancel handler suspend (it forwards the cancel), as
in the code.  All say `CHECK_DEADLOCK FALSE`: two idle or closed peers have
nothing to do.

| run | instance | shows |
|---|---|---|
| peer_down | one call of the supervisor, unary or streaming, two deltas, one cancel, a refused delta, loss of the process | `TypeOK`, `FailureReleasesCallers`, `StreamInOrder`, `StreamsReclaimed` |
| peer_up | one call of the worker, which may stop, give up or cancel; the link may be lost, the handler may swallow a cancel, the invoke may be refused | `NoSilentEnd`, `ImplementsContract`: the pair implements `RpcContract` |
| peer_overlap | two overlapping calls of one end and one of the other under the same id, over transports that do not write with threads | `RepliesMatch` |
| peer_live | one call without deltas; the worker may stop, the process die, the consumer leave | the liveness properties `CallsEnd` and `AbandonedWorkEnds` |

Why these bounds are enough: a call is touched only by frames of its own id,
and calls of one end share nothing but the connection; one call is therefore
enough for everything about one call and its failures, two of one end for
answers that overtake each other, one each way for the overlapping id spaces.
Two deltas are the least that can arrive in the wrong order.  A second cancel
finds what the first left.

Fairness.  `LoopSpec` has weak fairness of each end's event loop, writer
threads and transport: a ready coroutine is run, a frame written, an end of
file noticed.  It assumes nothing of callers, owners, links or handlers.
`CallsEnd` needs more and says so: its premise `HandlersReturn` is that handlers
return and streams end, since `invoke` has no timeout of its own.
`AbandonedWorkEnds` is about handlers that do not.  No step of an end disables
another of the same end for good, so weak fairness of the disjunction serves all
of them.

### Proofs

From `PeerAssumption` alone (the types of the constants), for any number of
calls, deltas and cancels and any choice of who may stop, give up or lose the
link.  `PeerProofs.tla`:

* `TypeCorrect`: `Spec => []TypeOK`, one lemma per group of actions.
* `FailureReleases`: `Spec => []FailureReleasesCallers`.  The property is not
  inductive: that a failed connection leaves nobody blocked depends on who was
  in the tables when it failed.  The invariant `CallerInv` adds `Tracked` (a
  blocked caller is in the table its answer would be looked up in) and
  `Cleared` (a failed connection's tables are empty); the two together give the
  property, and each action is shown to keep them.  `ReleaseFrees` is the lemma
  about what `_fail_connection` and `stop()` do, `DoneFrees` the one about
  coroutines that end.

`PeerReplyProofs.tla`:

* `AnswersMatch` and `EntriesReclaimed` (`RepliesMatch`, `StreamsReclaimed`): an
  answer is looked up by an id alone, so the invariant `ReplyInv` follows the id
  through every place it passes.  `FrameOK` says what a frame on its way may be,
  given the call it names and the task that wrote it, `InvokeOnce` that a call's
  request is on its way or was read, never both, `TaskOK` and `CallOK` what the
  inbound task and the caller hold in each of their positions.
* `NobodyForgotten` (`NoSilentEnd`): while nothing is down, a call that nobody
  cancelled is answered or still on its way to be.  `Quiet` names, for every
  position of the caller, the frame, task or future that will bring the answer:
  `Unharmed` says that nothing has told the task to stop, `Answered` that a task
  past its handler has its answer on the way to a caller that still waits.  The
  hard part is that cancel frames of other calls do it no harm (`NoStrayCancel`).
* `PeersImplementContract`: `Spec => ImplementsContract`.  The mapping takes the
  callers' positions to the contract's `status`.  `StatusOf` of the initial state
  is the contract's; a step that leaves every caller where the contract cannot
  see it is a stutter (`Calm`); `Requests` and the steps that end a call are
  the contract's actions, whose guards (an executed handler is behind an answer)
  follow from `ReplyInv`.  A connection that is lost is the contract's
  `Disconnect`: what is active may then end without an answer.

`PeerStreamProofs.tla`: `DeltasInOrder` (`StreamInOrder`).  Deltas pass the
producer's counter, writer threads, the wire and the consumer's queue.  `Flow`
says that there are numbers `h <= w` such that what the consumer has seen ends at
`h`, the queue and the wire together carry the run from `h` to `w` in order
(`Run`, `Carries`) and the producer stands at `w`, with at most one delta still
in a thread: the producer waits for `send`, which is why threads cannot reorder a
stream.

Not proved, only model-checked: the liveness properties (out of the prover's
reach: fairness and ENABLED).

The module also states `CancelIsAnswered`, which does not hold: see section 9.

## 4. Relay: the supervisor between the core and its workers

`Relay.tla` abstracts each connection to what `Peer.tla` establishes about it
(frames of one direction in order, a failure resolves what is pending) and
models what meets above: requests of the core and of workers, each relayed to
the worker that serves it under the request id it came with.  A call is named
by who made it (`Core` or a worker) and its id; ids are counted per connection,
so calls of different origins share ids, as in the code.

State.  `caller`, `result`, `by`, `asked`: what the caller sees and did.
`relay`, `token`, `mustCancel`, `future`, `origin`: the supervisor's inbound task
of the call, its cancel token and the future it awaits from the worker.  `active` is
`active_requests`, `pending[w]` the `_pending_results` of the session's peer,
`cancelling` the call whose cancel the upstream reader is forwarding.  `link`,
`failed`, `gone` follow a worker's death: process gone, peer failed, session
cleaned up; `upFailed` is the failure of the connection to the core.  `inbound`,
`work`, `workCancel` are the worker's side, `up` and `down` the frames of each
connection.

Actions.  `Ask`, `AskCancel` (callers); `Receive` with `HandleInvoke`,
`HandleResult`, `HandleCancel`, `HandleUpstreamCancel` (the supervisor's
readers); `RelayStart`, `RelayReturns`, `RelayInterrupted` (the inbound task);
`ForwardDone` (the reader after the forwarded cancel); `Die`, `Eof`,
`FailSession`, `Forget` (a worker's death as the transport, the peer and the
session see it, in any order the tasks allow); `WorkerReceive`, `WorkerCancel`,
`Finish` (the worker); `CoreReceive`, `CoreHangsUp` (the core, external).

Abstractions.  Unary requests only, a handler's answer is `"ok"` or an error.
The start of workers and a restart of the core are not in it.

| run | instance | shows |
|---|---|---|
| relay_core | the core makes two requests of two workers, may cancel, one worker may die | `TypeOK`, `CallsKeptApart` (`OwnReply` and `CancelHitsItsCall`), `ActiveIsRelayed`, `NothingForgotten` (`NoCallForgotten` and `NoCancelForgotten`), `RelayImplementsContract` |
| relay_live | a handler of one worker calls the other worker, which may die; the core may cancel | the liveness properties `CallersEnd` and `CancelReaches` |
| relay_reply | the core and a worker ask one worker under the same id | `OwnReply` violated: a caller gets the other's answer (finding) |
| relay_crash | the core cancels a request of a worker that has just died | `CrashIsContained` violated: the connection to the core fails (finding) |

`RelayContract.tla` states what the core may rely on.  `RelayImplementsContract`:
seen from a caller, two connections and the relay between them are one
connection (`RpcContract`, the contract of `Peer` too).  `NoCallForgotten`: while the
core's connection stands, every call that waits has a frame, a task or a
failure yet to be noticed that will bring its answer.  `Attended` names where it may
be past the relay, so that the property fails as soon as one of the two tasks
that notice a dead worker releases a call too few.  `NoCancelForgotten`: work whose
caller sent a cancel is cancelled or has the cancel before it, at the supervisor or at
the worker.

`relay_core` (about 338,000 distinct states) shows that the relay is right as long as only the core asks;
`relay_reply` that it is not once the ids of two connections meet.  The same
collision sends the core's cancel to the wrong worker, since `active_requests`
is keyed by the id alone; `CancelReaches` leaves such calls out.  Two workers
and two ids are the least with which a route, an id or a death can concern the
wrong call; in `relay_live` one id of each origin is enough, since a handler's own
call already shares the id of the one it serves.

Fairness: every process runs what is ready, a cancelled handler ends, and a
supervisor whose core connection has failed stops its workers
(`run_supervisor` calls `runtime.stop()` in its `finally`).  That handlers
return is a premise of `CallersEnd` only.

### Proofs

`RelayProofs.tla` proves `RelayTyped`, `Spec => []TypeOK`, from
`RelayAssumption`.  `TypeOK` is not inductive: a future that is relayed on holds
an answer only if every answer frame does, and a frame may be on its way in any
of the queues.  The invariant `TypeInv` adds what the frames of each direction
may be (`FrameTypes`) and that an ended wait has its answer (`Answered`).

The same module proves what `relay_core` checks and `relay_reply`
refutes in general, under the named premise `OnlyCoreAsks` (no worker calls
another): `CoreCallsKeptApart`, a reply is that of the caller's own execution,
and a worker cancels only tasks whose caller asked for it.  The invariant `OwnInv` says that then every frame's id tells its call
(`FramesTell`), every call is the core's (`CoreCalls`) and every table keyed by an
id holds the call with that id (`Keyed`, `OwnOrigin`); each look-up by id then
finds what was meant.

`ActiveAlwaysRelayed` is `ActiveIsRelayed` under the same premise.  The property alone is not inductive: a second task for an id would
take the entry of the first, and a request without a serving worker would have
no table.  `ServedInv` adds `AskedOnce`: the invoke frames that wait at the
supervisor have distinct ids no task relays yet, and only what was asked is
relayed.  It holds because the upstream pipe is read in order, one frame at a
time.  `Served` is `ActiveIsRelayed` with the core's call in place of the set of
tasks under an id.

`CoreNeverForgotten` (`NoCallForgotten`) needs all of this and more, collected in
`WayInv`: an invoke frame is in one place at most (`SentOnce`), a cancel
is of a call that was made (`AskedInv`), a session whose peer has failed has no
future left pending (`EndsInv`), and "ok" is only on its way once the handler was
entered (`EnteredInv`).  One lemma per action shows which place of the call's way
it leaves and which it comes to; the hard ones are a request that reaches a
session just lost, and the two tasks (reader and watcher) that notice a
death in either order.  `RelayKeepsContract` (`RelayImplementsContract`) follows:
each step is the contract's action for the one call it moves, or a stutter.

`CancelNeverForgotten` (`NoCancelForgotten`) rests on `CancelInv`, which adds to
`WayInv`: `WhereInv`, what tables and frames say of a call is where it is (an answer is
about work that has ended, a worker knows its tasks by their ids); `TokenInv`, a task is
cancelled after its token; and `SureInv`.  This one says of each call that a cancel which
was asked for lies behind its request in the queue to the supervisor (`Behind`), or
that the supervisor is done with it (`Heard`): then the request will not be sent on, or
the cancel lies behind it in the queue to the worker, or the work is over or cancelled.
The step that matters is the supervisor's look at `active_requests`: it finds
nothing only for a task that has not started, whose token keeps it from being sent, or for a
worker that is gone.  `NothingForgottenEver` joins the two.

The liveness properties are not proved; these two theorems are the part of
`CallersEnd` and `CancelReaches` that is safety.

## 5. SessionWaiter: waiters of one session

`SessionWaiter.tla` models the `SessionWaiterManager` of a worker for one plugin
and one session: entries, locks and timers are kept per pair, so pairs do not
meet.  The tasks are calls of `register` (`Waiters`), of `dispatch`
(`FollowUps`) and of `fail` (`Failures`).

State.  `entry` is `_entries[session][plugin]`, `lock` the `_locks` entry; a lock
that was dropped from the table lives on while tasks queue for it, so `queue`
maps lock objects to their owner and those behind it.  `home` is the asyncio task
a waiter runs in, which makes the lock re-entrant for a waiter that a handler
awaits itself.  `future`, `armed`, `fired` are the controller and its timer,
`enabled` is `unregister_enabled`, `restorable` the `restorable_previous` of
`register`, `rightful` a history variable: the waiter registered last, and those
that a refused registration has brought back since.

Actions.  `register` is split at its awaits into `Register` (or `RegisterBelow`,
`RegisterWithin` when it is called below a handler), `Registered`, `Refused`,
`Removed`, `Return`, `Leave`, `Unregister`, `Unregistered`; `keep` and `_holding`
are `KeepAlive`, `Deadline`, `Expire`; `dispatch` is `Follow`, `Serve`, `Miss`,
`HandlerReturns`, with `Stop` and `KeepAlive` for what a handler does to its
controller; `fail` is `FailWaits`, `Fail`; `CancelWaiter` and `CancelLocking`
cancel tasks at their awaits.  What a task does under a lock that is free is one
action, since asyncio does not suspend there.

Abstractions.  Time is left out: a timer may run out at any moment.  The system
capabilities succeed or fail; what the core does with them is outside the
repository.  `Locks` bounds the lock objects; one more than tasks is enough,
since a lock that nobody queues for and that is not in the table can be reused.

| run | instance | shows |
|---|---|---|
| waiter | two waiters, two follow-ups, one failure, refusals and cancellations | `NobodyIsStuck` (no set of tasks waits for itself; `TypeOK` is a conjunct, with: the lock queues hold exactly the tasks that own or await one), `ServesRightful` (a message goes to a rightful waiter that has not ended), and `TasksEnd`, a liveness property |
| waiter_lost | two waiters, one follow-up | `WaiterIsReached` violated: the cleanup of one waiter removes the other's entry (finding) |

Two waiters are the least that can replace, nest in or clean up after each
other; two follow-ups the least that compete for a lock while one holds it.
Fairness: the peer answers, timers run out, handlers return and ready tasks run;
every such step brings a task nearer to its end, so weak fairness of their
disjunction is enough.  `TasksEnd` would fail with a lock that is not re-entrant.
`NobodyIsStuck` is its safety part.  A task that has begun can go on (`CanGoOn`) or
waits for another (`WaitsFor`): for the owner of its lock, or for a waiter that its
handler awaits.  In every set of such tasks one can go on or waits for a task outside,
so there is no deadlock, of all tasks or of some.

### Proofs

`ServicesProofs.tla` proves `WaitersTyped`, `RightfulIsServed` and
`WaitersNeverDeadlock`, from
`WaiterAssumption` (disjoint finite sets of tasks, more lock objects than tasks),
for any number of waiters, messages and failures.  `TypeOK` contains the relation
between locks and tasks, and is not inductive without the places in the queues:
`QueuesKept` says that a task is in at most one queue and at one place, that it
is in one exactly when it stands at an await under a lock (`Holding`), and that
the task whose handler runs is the head of its queue; `HomesBusy` that a waiter
registered in a handler belongs to one that was begun.  `TakenOut` collects what
the release of a lock and the cancellation of a task that waits for one do to
the queues.  Since each task is in one queue at most, the number of locks in use
is at most that of tasks, so that a free one can be found (`Register` is never
held up by the bound `Locks`).  `RightfulIsServed` is an action property: the
invariant gives that the entry a message is served from is a rightful waiter.

`WaitersNeverDeadlock` is about locks that are dropped from the table while tasks hold
and await them: the session then has several, and handlers of one await waiters
that need another.  The locks can be ranked by the order in which they came
(`Ordered`): the one in the table is the newest in use (`Newest`), since a lock that was
dropped does not come back while somebody holds it; and a waiter below a handler enters
the handler's own lock again at once, so that a lock it queues for is one that came
later (`Outward`).
`StuckInv` adds that a waiter below a handler ends before the handler does
(`HomesHandle`) and that one which waits for messages has a timer or is decided
(`TimersRun`).  In a set of tasks that can all not go on, the one at the newest lock
would have to wait for the owner of that lock, and the owner, handling a message, for
a waiter at a newer one.  The rank is an existential of the invariant and no state of the
model.  `TasksEnd` itself stays with TLC.

## 6. The components without an instance of their own

A component with few operations needs no run of its own.  `MCLifecycle` and
`MCServices` instantiate `Lifecycle` and `Services`, which EXTEND several components
each, whose variables and constants have different names.  (`MCServices` adds
`Capabilities` as one more part: its operators are RECURSIVE, so it stays out of the
module that is proved about.)  The components share no state, so exploring them together
would only multiply their states: the variable `part` is chosen in the initial
state, the actions of that component are enabled and the others stay at one
initial state.  The reachable states are those of each component alone, and a
property of one component is checked in all of its own.  A component with
fairness has it as weak fairness of one action of the union, `LifecycleStep`:
in a behaviour only the chosen component moves, so this is weak fairness of that
component's own step (`SupervisorStep`, `HandshakeStep` or `PeerStopStep`).  Both
configurations say `CHECK_DEADLOCK FALSE`: a stopped supervisor, or a component
at its bounds, has nothing to do.

| run | component | properties |
|---|---|---|
| lifecycle | all | `LifecycleTypeOK`: the type invariants of the five |
| lifecycle | Supervisor | `RoutesAgree`, `LostIsForgotten`, `StopCompletes` |
| lifecycle | Worker | `WorkerKeepsItsWord` (`ServesWhatItPublished` and `StoppedMeansReleased`) |
| lifecycle | Handshake | `BothAgree`, `InitializeEnds` |
| lifecycle | PeerStop | `FailedIsClosed` |
| lifecycle | Supervisor, Handshake, PeerStop | `NobodyIsLeft` (`NoWorkerLeft`, `InitializeIsUnderWay` and `StopIsUnderWay`) |
| lifecycle | Environments | `EnvironmentsFit` |
| services | all | `ServicesTypeOK`: the type invariants of the eight without Capabilities |
| services | Watch | `WatchKept` |
| services | Conversations | `SessionsApart` (`CurrentStands` and `OthersUntouched`) |
| services | MessageHistory | `EachOnce` |
| services | KnowledgeBases | `StatsAgree` |
| services | Providers | `ProvidersKnown` |
| services | Memory | `TablesAgree`, `FindsAll` |
| services | Dialogues | `OneDialogue` |
| services | Limiter | `LimitKept` |
| services | Capabilities | `CallsFit` |

`lifecycle` has about 249,000 distinct states, `services` about 489,000.

Proofs: `LifecycleTyped` and `ServicesTyped` state the types of all components at
once.  A step of the whole is a step of one component and leaves the variables of
the others alone (`EachTakesItsSteps`, `EachServiceSteps`), so that a behaviour of the
whole is one of each component (`EachByItself`, `EachServiceByItself`) and the theorems
of the following sections carry over.

### 6.1 Supervisor: start-up, registry and the death of a worker

`SupervisorRuntime` from `start()` to `stop()`.  `main` and `turn` say where the
coroutine stands, `conn` what became of each worker's connection and `watch`
which sessions have a `_watch_connection` task.  `sessions`, `reported`,
`handlerTo`, `pluginTo`, `capabilityTo`, `loaded`, `skipped` are the tables of the
same meaning in the code (handlers are prefixed with their plugin's name, so a
plugin stands for its handlers), `served` what the registry says, `announced`
what the core was told.  `RegisterStarted` is `_register_started_session` whole:
when one capability of a worker is refused, any of the others may have been
taken, and the exception stops the supervisor.  `WorkerClosed` may run between
any two awaits of `start()`.

`RoutesAgree` relates the five tables, the registry and the router at every
await, through deaths during the start and names claimed twice.  `LostIsForgotten`
and `StopCompletes` are liveness: a lost worker leaves all tables, and once
`stop()` has begun no worker is left running.  Fairness: the loop runs what is
ready, and a session that is being opened ends at the latest with its time limit
(`SessionFails`); that a worker answers, or that the core does, is not assumed.
`NoWorkerLeft` is their safety part: a lost worker that is in the tables has a task
that will clean up, a running one is among those that `stop()` will stop, and none
runs once `stop()` is done.

Instance: two local and two remote workers, the second of which claims a
built-in name while the remote two claim the same plugin; three of the four may
be lost.  One worker more meets no table entry that two cannot.

Proof (`LifecycleProofs`): `SupervisorTyped` and `RoutesAgreed`, from
`SupervisorAssumption` (sessions are opened once, local plugins are in one
session each).  `RoutesAgree` needs to know that the session to be opened is in
no table yet: the invariant adds `InTurn` (what `sessions` holds lies before
`turn`), `ServesItsOwn` (a session serves plugins it declared, and all it
reported) and `RoutedBySource` (a routed capability belongs to a plugin its worker
reported, the one with which it would be taken back).
`NoWorkerIsLeft` needs `Counted`: whoever is in the tables has its watching task, a
worker that is being opened is the one at `turn`, and one that runs is in the tables.

### 6.2 Worker: the plugins of a process

`PluginWorkerRuntime` (`single`) and `GroupWorkerRuntime`.  A plugin has one
instance for each component of its manifest; `Parts` gives the kinds of decorators
each has.  `at` and `stage` say which instance of `Head(remaining)` is started or
stopped, and how far it has come.

Start.  An instance goes through `StartStages`.  A registration is two steps:
`CoreRegisters` is what the core does, `StageDone` the record of it in
`DecoratorRuntimeState` (`held`) after the answer.  `StageRaises` may fall between the
two, or replace the first, and so may `Interrupt`, the cancellation of `start()` (for
which no except clause of it is made) or the end of a running worker.

Stop.  `OnStop` runs the hook and remembers what it raises, because the teardown
runs in a `finally`; `TakeBack` removes one kind of what is held, or fails to and
forgets it all the same (`lost`); `BreakOff` is a removal that raises itself: a
provider hook's task, or a cancelled await.  What then leaves the instance decides
what comes next: nothing, and the next instance of the plugin follows; an Exception
(`ExceptionLeaves`), and the rest of this plugin is left for the next plugin; a
CancelledError (`CancelLeaves`), which ends the loop.

`ServesWhatItPublished`: the dispatchers hold what initialize announced, and only
plugins that started, although they are built twice.  `StoppedMeansReleased` says
of every instance, when the worker has stopped: it was stopped if its plugin had
started, it holds nothing any more, and nothing is registered for it without a
record.  The exceptions are the code's and the property names each: an Exception of
the instance or of an earlier one of its plugin (`raised`, `PassedOver`), a cancelled
`stop()` (`aborted`), a removal that failed (`lost`), and a plugin that failed
in its start, which a group skips without a teardown, and which may leave one
registration (one kind of one of its instances) that is nowhere recorded.

Instance: one worker of a single plugin or of a group of two; the first plugin has
two instances, one with every kind of decorator, the other with one kind (`LifecycleParts`).
Two instances are the least of which one can be passed over, two plugins the least of
which one is still to be stopped after another raised.

Proof (`LifecycleProofs`): `WorkerTyped` and `WorkerKeepsWord` (`WorkerKeepsItsWord`),
for any number of plugins and instances.  `InOrderInv` relates the plugins still to be
started or stopped to the state of each; `StopsInv` counts `on_stop` (once when
`start()` gives up, once by `stop()`); `HandInv` says what is true of the instances
before, at and after the one at hand; `ReleaseInv` says that what the core still has
of an instance is recorded (`Recorded`) or left for one of the named reasons, and what is not
(`Unrecorded`) belongs to the one registration that was under way.  The lists of
plugins are orders of sets; what the code's slices and `reversed` do to them are
lemmas (`InOrderHolds`, `ReverseHolds`, `TailHolds`).

### 6.3 Handshake

The client's and the server's side of initialize over one connection.  `Select`
is `_select_negotiated_protocol_version`; `BothAgree` compares it with what was
meant, the best version both ends know within what was asked, and says that both
ends hold the same one.  `InitializeEnds` is liveness: `initialize()` has no time
limit, so it ends only because every way in which the server does not answer ends
the connection.  Instance: versions 1.0, 1.1, 2.0 and one that does not parse, in
any sets at both ends: two minors of one major and another major are what the
selection distinguishes.  The client may stay unasked; everything it then does
is fair.

Proof (`LifecycleProofs`): `HandshakeTyped`, `EndsAgree`, for any set of versions.
`Negotiated` follows the chosen version from the server's answer to the client.
`InitializeGoesOn` is `InitializeIsUnderWay`, the safety part of `InitializeEnds`: while
the client waits, its request or the answer is on its way or the connection is closed.
That the selection yields a best common version at all is `BestIsCommon`: a finite
order is not needed, only that no minor above the one asked is considered.

### 6.4 PeerStop

`stop()` called by up to three owners and by the task that `_schedule_stop` makes
when a connection fails.  `FailedIsClosed`: whoever calls it meanwhile, a
connection that failed is closed in the end and no `stop()` waits for ever, for
instance for a task that waits for it.  The transport is stopped in steps; three
owners are enough for one that stops, one that joins it and one that joins late.
`StopIsUnderWay` is its safety part: one task stops the transport, a connection that
failed has one that will, and nobody waits for a task that waits itself.

Proof (`LifecycleProofs`): `PeerStopTyped`, `StopGoesOn`, for any number of owners, from
`StopTaskInv`: which task `_stop_task` names in each phase and where that one stands.

### 6.5 Environments

`EnvironmentPlanner` and `GroupEnvironmentManager` over the files they leave: lock
file, environment and state file of every group.  A plugin's requirements are one
pinned package or none, which is what grouping and fingerprints compare; uv may
find any plugin with requirements unsolvable.  `Grouped` is the greedy loop of
`_build_candidate_groups`, one plugin a turn.  Every uv call may fail, and every
file operation or uv call be the last before the process is killed
(`PlanKilled`, `EnvKilled`): nothing, half (`Mixed`, `Broken`) or all of it was
done.  `torn` is a history variable: the groups uv has worked on since
their state file was written.

`EnvironmentsFit`: the plan gives every plugin one environment with its Python
and no two versions of a package, or refuses it; and a worker is started with
the packages of its lock file, or in a torn environment whose state file matches
again (section 9), never with those of earlier requirements that were installed
in good order.  Instance: three plugins of two Python versions, one of
which changes its requirements between up to three starts: the third start is the
one that meets what an interrupted second left over a complete first.

Proof (`LifecycleProofs`): `EnvironmentsTyped` and `EnvironmentsAlwaysFit`, from
`EnvAssumption`, for any plugins, packages and starts.  That the recursive function
`Grouped` is defined is shown by `Iterates`; `GroupedWell` is the loop invariant
(after each turn the plugins placed so far have one place each), `PlanIsSound`
what splitting unsolvable groups makes of it.  For the files, `RecordTells` (a
state file that can be read tells what is installed, unless the group is torn),
`JobKept` (a rebuilt group has no readable state file, one whose state is written
has just been installed) and `LocksStand` are the invariant.

### 6.6 Watch, MessageHistory, Conversations, KnowledgeBases, Providers

The services of the router.  Their handlers do not await, so a call is an action;
what can go wrong is in the sequence of calls.

All the safety properties of this section are proved.

* `Watch`: the key-value store, the queue of each `db.watch` and what its reader
  takes the store to hold.  `WatchKept`: a plugin that reads its events to the end
  knows the store, and a watch leaves no subscription behind except when it was
  cancelled before it began to iterate.  One connection, two watches, two keys
  and queues of three; a second connection is section 9's subject.
  Proved (`StoreProofs`): `OwnWatchFollows`, for any connections, that a watch which
  has its place in the table loses no change and a subscription that ended is
  gone, from `WatchInv` (each place is held by a live watch with that id, an ended
  one has an empty queue); `SoleWatchKept`, `WatchKept` itself, under the premise
  that there is one connection, without which it does not hold.
* `MessageHistory`: appends with idempotency keys, deletions by time, and a plugin
  that reads page by page.  `EachOnce`: it gets each record that stays exactly
  once, whatever is appended or deleted between two pages.  Four records and
  pages of one or two give up to four pages.  Proved (`EachMessageOnce`): ids rise
  with the places, what the reader has got descends and lies above its cursor
  (`CursorFits`), and what it is owed is below it or was got.
* `Conversations`: `CurrentStands` (a session with conversations has a current
  one, its own) and `OthersUntouched`.
  Both are proved for any sessions, personas and number of conversations
  (`ServicesProofs`: `SessionsKeptApart`) from the
  invariant `ConvInv`, which adds `FreshIsFree`: an id that has not been handed out
  belongs to no session.  That the conversations left after a deletion have a
  first comes from the library's theorems on finite sets and well-founded orders.
* `KnowledgeBases`: `StatsAgree` compares the counts a knowledge base shows with
  its documents after any sequence of uploads, deletions, refreshes and changes
  of the chunk size.  Sizes may be of either sign, as in the code: a negative size
  of an upload falls back to the base's, a base created with a negative one cuts
  every text into one chunk.  Proved: `CountsAlwaysAgree`, with the invariant that ids are given
  once, and `KbTyped`, that counts and chunk numbers are natural numbers at all.  The
  total of a set of documents is a fold, whose value is a recursive function over
  subsets: that there is one (`SumsExist`) is shown by a least number of
  elements for which there would be none, and `TotalIsNat` follows.
* `Providers`: what is loaded, configured and in use, of two kinds.
  `ProvidersKnown`: none in use is unknown, and a watcher that looks again at what
  it is told of knows what is loaded, except ids that an update renamed.
  Proved (`ProvidersAlwaysKnown`): the property is inductive with the types; the
  work is in what the code's list comprehensions leave of each list
  (`SelectionProofs`).

### 6.7 Memory

The tables of a plugin's memory, embeddings, dirty flags, and the vector index in
the process and in its file.  A search suspends while the provider computes
embeddings: saves, deletions and crashes happen meanwhile, and the file is
written before the transaction commits (`MemCrash` lies between).
`TablesAgree` relates records, full text and embeddings; `FindsAll` says of every search
that it finds every record that has a vector, by its present one.  Two records, two
saves, one search and one provider: a record that changes while the other stays
is all that a stale index can confuse; `raced` marks the embeddings excepted in
section 9.

Proof (`StoreProofs`): `MemoryTyped`, `TablesAlwaysAgree`, `SearchFindsAll`, for any
records, texts and providers.  `MemInv` adds that the index in the process is always
good (`LoadedMatches`), the file as long as nothing is dirty (`FileMatches`), and
that ids of embeddings were given out before (`IdsGiven`), so that an id in a stale
index is never that of another record.

### 6.8 Dialogues

Calls of conversation commands in one session.  `StartBusy`, `FailWaiter`,
`CancelOld`, `GraceEnds` are the awaits of `_start_conversation` with mode
"replace"; a conversation may swallow its cancellation (`Stubborn`).
`ask()` is two awaits, of the prompt (`AskUser`, which looks at the session's state, and
`PromptFails`) and of the answer (`WaitForUser`, which does not look again): a
conversation replaced while its prompt is sent still registers a waiter, which the
cancellation of its task then ends.
`OneDialogue`: two conversations can be used at once only after a call overwrote,
in the table, another than the one it had waited for; mode "reject" alone never
has two.  Instance: two calls that replace, one that rejects, one plain.
Proof (`ServicesProofs`, `OneDialogueHolds`): for any calls.  The invariant adds
`BegunByEnded` (only a call that is through has a conversation), `OldIsClosed`
(the one a call waits for can no longer be used) and `TableBegun`.

### 6.9 Limiter

`evaluate()` over the log of admitted calls; the deque is what `popped` leaves of
it.  `LimitKept`: no window, wherever it begins, admits more than the limit, and a
refusal has a full window before it.  Instance: limit 2, window 3, time up to 6,
two keys.  Proof (`ServicesProofs`, `LimiterTyped`, `LimiterExact`): for any limit, window
and keys, from the invariant that adds `GoneIsOld` (what left the deque is a window
old) and `WithinLimit` (what is in it keeps to the limit).

### 6.10 The capability contract

`CapabilitySchemas` holds the schemas as terms of `Schemas`, `Clients` what every
client method sends and needs, `Answers` what every handler returns.
`Capabilities` makes a call: the payload goes through the router's validator
(`Accepts` is `_validate_value`), the handler answers in one of its forms or raises,
the answer is validated and read.  `CallsFit`: a call fails only where the world
refuses it; the exceptions it names are disagreements (section 9).  A term is
tried with all fields, the required ones only, and every field in turn absent or
with each of its values; the validator looks at fields one by one, so
combinations add nothing.  These modules use RECURSIVE operators, hence no proofs.

## 7. Findings with a run

`relay_reply`, `relay_crash` and `waiter_lost` (sections 4 and 5) end with a
violation of what a document of the repository says; `PROJECT.json` quotes it.

## 8. What is proved, and what is only checked

| module | theorem | of the property | assumptions |
|---|---|---|---|
| PeerProofs | `TypeCorrect`, `FailureReleases` | `TypeOK`, `FailureReleasesCallers` | `PeerAssumption` |
| PeerReplyProofs | `AnswersMatch`, `EntriesReclaimed`, `NobodyForgotten` | `RepliesMatch`, `StreamsReclaimed`, `NoSilentEnd` | `PeerAssumption` |
| PeerReplyProofs | `PeersImplementContract` | `ImplementsContract` (refinement of `RpcContract`) | `PeerAssumption` |
| PeerStreamProofs | `DeltasInOrder` | `StreamInOrder` | `PeerAssumption` |
| RelayProofs | `RelayTyped` | `TypeOK` | `RelayAssumption` |
| RelayProofs | `CoreCallsKeptApart`, `ActiveAlwaysRelayed` | `CallsKeptApart`, `ActiveIsRelayed` | `RelayAssumption`, `OnlyCoreAsks` |
| RelayProofs | `CoreNeverForgotten`, `CancelNeverForgotten`, `NothingForgottenEver` | `NoCallForgotten`, `NoCancelForgotten`, `NothingForgotten` | `RelayAssumption`, `OnlyCoreAsks` |
| RelayProofs | `RelayKeepsContract` | `RelayImplementsContract` (refinement of `RpcContract`) | `RelayAssumption`, `OnlyCoreAsks` |
| LifecycleProofs | `SupervisorTyped`, `RoutesAgreed`, `NoWorkerIsLeft` | `SupTypeOK`, `RoutesAgree`, `NoWorkerLeft` | `SupervisorAssumption` |
| LifecycleProofs | `WorkerTyped`, `WorkerKeepsWord` | `WorkerTypeOK`, `WorkerKeepsItsWord` | `WorkerAssumption` |
| LifecycleProofs | `HandshakeTyped`, `EndsAgree`, `InitializeGoesOn` | `HandshakeTypeOK`, `BothAgree`, `InitializeIsUnderWay` | `HandshakeAssumption` |
| LifecycleProofs | `PeerStopTyped`, `StopGoesOn` | `PeerStopTypeOK`, `StopIsUnderWay` | `PeerStopAssumption` |
| LifecycleProofs | `EnvironmentsTyped`, `EnvironmentsAlwaysFit` | `EnvTypeOK`, `EnvironmentsFit` | `EnvAssumption` |
| LifecycleProofs | `LifecycleTyped`, `NobodyEverLeft` | `LifecycleTypeOK`, `NobodyIsLeft` | those of its components |
| ServicesProofs | `WaitersTyped`, `RightfulIsServed`, `WaitersNeverDeadlock` | `TypeOK`, `ServesRightful`, `NobodyIsStuck` of SessionWaiter | `WaiterAssumption` |
| ServicesProofs | `OneDialogueHolds` | `OneDialogue` | `DialoguesAssumption` |
| ServicesProofs | `SessionsKeptApart` | `SessionsApart` | `ConvAssumption` |
| ServicesProofs | `LimiterTyped`, `LimiterExact` | `LimiterTypeOK`, `LimitKept` | `LimiterAssumption` |
| StoreProofs | `MemoryTyped`, `TablesAlwaysAgree`, `SearchFindsAll` | `MemTypeOK`, `TablesAgree`, `FindsAll` | `MemoryAssumption` |
| StoreProofs | `OwnWatchFollows` | `OwnFollows`, `SubsReclaimed` | `WatchAssumption` |
| StoreProofs | `SoleWatchKept` | `WatchKept` | `WatchAssumption`, one connection |
| StoreProofs | `EachMessageOnce`, `HistoryTyped` | `EachOnce`, `HistTypeOK` | `HistoryAssumption` |
| StoreProofs | `CountsAlwaysAgree`, `KbTyped` | `StatsAgree`, `KbTypeOK` | `KbAssumption` |
| StoreProofs | `ProvidersAlwaysKnown` | `ProvidersKnown` | `ProvidersAssumption` |
| StoreProofs | `ServicesTyped` | `ServicesTypeOK` | those of its components |

Every safety property of a passing run, type invariants included, is proved
but one (`CallsFit`), for every value of
the constants that the assumptions allow.  Induction: the library's theorems
cannot be instantiated by the provers, so a property of numbers up to `n`
is shown with the set of those that have it (`UpTo`) and properties of finite sets by
a least counterexample in a well-founded order.  That way one can also show
that the recursive function of a fold exists, and what it is bounded by
(`TotalIsNat`); `Selection` avoids the need: it gives list comprehensions by
places (`Picked`) instead of by a fold.

Only model-checked:

* everything under fairness (`CallsEnd`, `AbandonedWorkEnds`, `CallersEnd`,
  `CancelReaches`, `TasksEnd`, `LostIsForgotten`, `StopCompletes`,
  `InitializeEnds`, `FailedIsClosed`), out of the prover's reach.  Of most the safety
  part is proved, which says that nobody waits for something nobody will do:
  `FailureReleasesCallers` and `NoSilentEnd` for `CallsEnd`, `NoCallForgotten` for
  `CallersEnd`, `NoCancelForgotten` for `CancelReaches`, `NobodyIsStuck` for `TasksEnd` and `NobodyIsLeft` for the four of
  `lifecycle`.  TLC adds that, under the fairness, it is done;
* `CallsFit`: the validator is recursive over schemas, and the prover has no SMT
  backend in a module that reaches a RECURSIVE operator (the types of
  `Capabilities` are a conjunct of it).

## 9. Disagreements without a run of their own

These definitions or exceptions state what a document, a comment or a name says
and the code does not keep.  They are in the modules; adding a definition's name to the
invariants of the configuration named shows the counterexample.

| definition | configuration | what happens |
|---|---|---|
| `CancelIsAnswered` (Peer) | PeerDown | a cancel that meets an error answer on its way leaves the caller waiting (`runtime/peer.py:796`, `docs/SeekIt/s5r协议.md:112`) |
| `ReturnsWhenStopped` (PeerStop) | Lifecycle | a `stop()` returns before the transport is stopped, when `_stop_task` names the scheduled task and that has returned (`runtime/peer.py:283`) |
| `OneHandler` (SessionWaiter) | Waiter | two messages run the handler of one waiter at once after a refused registration (`session_waiter.py:439`, `:524`) |
| `ReplacedByNewer` (SessionWaiter) | Waiter with `Waiters = {a, b, c}` | a nested registration that is refused puts the waiter below it back, over one registered since (`session_waiter.py:253`) |
| `ReplacedForGood` (Dialogues) | Services | two calls that replace at once leave two live conversations (`runtime/handler_dispatcher.py:599`, `docs/03_decorators.md:514`) |
| `EnvironmentIsReady` (Environments) | Lifecycle | a sync that failed half-way, then requirements changed back: the mixed environment is used (`runtime/environment_groups.py:571`) |
| `FollowsStore` (Watch) | Services with `Connections = {a, b}` | subscriptions are keyed by request ids, which two connections share (`runtime/_capability_router_builtins/capabilities/db.py`): one watch takes the other's place |
| `StoresNull` (Capabilities, exception) | Services | `db.set` of null is refused by the router although the client takes any JSON value (`clients/db.py:60`, `docs/api/clients.md:387`) |
| `SetToNull` (Capabilities, exception of `AnswersAreWellFormed`) | Services | `kb.update` stores a null for `kb_name` or `embedding_provider_id`, which client and update schema admit, and the record schema refuses: that call and every later `kb.get` and `kb.list` fail (`runtime/_capability_router_builtins/capabilities/kb.py:164`, `protocol/_builtin_schemas.py:963`) |
| other exceptions of `AnswersAreWellFormed`, `AnswersAreRead` | Services | refresh of the platform the router is built with; tools a worker published; provider types in capitals |
| `raced` (Memory, exception) | Services | the embedding of an old text is stored for a record saved again while it was computed |
| `PassedOver` (Worker, exception) | Lifecycle | an `on_stop`, or the removal of a provider hook, that raises ends the loop over the instances of its plugin: those that follow are neither stopped nor torn down, and stay registered (`runtime/worker.py:197`) |
| `Untold` (Worker, exception) | Lifecycle | a start that is cancelled or fails between a registration at the core and its record leaves it registered, with the connection up (`_internal/decorator_lifecycle.py:272`, `:444`) |
| `lost` (Worker, exception) | Lifecycle | a removal that fails is logged and forgotten (`_internal/decorator_lifecycle.py:474`) |
| `renamed` (Providers, exception) | Services | an update that gives a provider a new id tells its watchers only the new one |

Met while reading, and in the models as they are: a worker runs on_start before it
initializes its connection, where `docs/04_star_lifecycle.md:52` has it after; a
refused initialize stops the peer before the registrations are taken back, so
the core cannot be asked to remove them; `docs/api/star.md:722` says that an
exception of on_stop is only logged, and `stop()` raises it again; a supervisor does
not reconnect to a worker although its docstring says so (`runtime/supervisor.py:22`);
the cancellation that ends a hook ends the whole loop of `stop()` over the plugins
(`aborted` in Worker); a plugin of a group that failed to start is skipped without a
teardown; `docs/01_context_api.md:787` has the declared HTTP routes cleaned up when
the plugin is unloaded, and the supervisor removes them for the loaded plugins of a
lost worker only (`runtime/supervisor.py:1034`).

What the properties excuse.  Where the code may go wrong by design of its tables, a
property states what is kept for the rest, and so does not catch:

* `NoSilentEnd`: a call that was cancelled (its premise is `asked = 0`); that a cancel
  can lose its call is `CancelIsAnswered` above;
* `AbandonedWorkEnds`: it concludes from a closed end only, and says nothing of a lost
  connection that nobody stops;
* `CancelReaches`, and the runs in which only the core asks: calls of two origins that
  share an id.  What happens to those is the run `relay_reply`;
* `ServesRightful`: a waiter put back although it is not the latest, and one displaced
  without being told.  The run `waiter_lost` shows the entry that is removed for another;
* `OneDialogue`: a handler that swallows its cancellation runs on beside the next one
  once the grace is over (`GraceEnds`); only its session is closed;
* `FailedIsClosed`: a task that is cancelled while it stops the peer, or a
  `transport.stop()` that raises (`runtime/peer.py:311`): the model has neither, and the code
  would leave `_closed` unset.

## 10. What is not modelled

* Capability dispatcher (`runtime/capability_dispatcher.py`): it runs a plugin's
  capability in a task that Peer's inbound task awaits; start, cancellation and
  end of the latter are in `Peer`.
* Plugin loader, workers manifest: sequential, over the file system and importlib;
  what they yield is a constant of `Supervisor`, `Worker` and `Environments`.
* Decorators, command matching, filters, argument building, message components,
  message results, errors: declarations and pure functions over characters.
* Codecs and frame models: formatting and validation; a frame that cannot be read
  is an action of `Peer` and `Handshake`.
* The relay of streams through the supervisor, several plugins' waiters in one
  session, the small registries of the router (HTTP routes, skills, admins, session
  switches, event streams, dynamic command routes) beyond the form of their answers.
* mcp.* and internal.mcp.* schemas and the system.event.llm.* and
  system.event.result.* constants: nothing in the repository handles or calls them.
* Command line, templates, the mock core in `testing.py`, documentation tools.
