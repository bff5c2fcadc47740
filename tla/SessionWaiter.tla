---------------------------- MODULE SessionWaiter ----------------------------
(***************************************************************************)
(* SessionWaiterManager (session_waiter.py): the waiters that one plugin   *)
(* registers for one session, the follow-up messages dispatched to them,   *)
(* and the failures a conversation's replacement sends them.  Entries,     *)
(* locks and timers are kept per (plugin, session), so one key is modelled.*)
(*                                                                         *)
(* A waiter is a call of register(), a follow-up a call of dispatch(), a   *)
(* failure a call of fail().  Each action is the code between two awaits.  *)
(* What runs in one asyncio task shares its home: a waiter that a handler  *)
(* awaits directly lives in the task of the follow-up it serves.           *)
(***************************************************************************)
EXTENDS Naturals, Sequences, FiniteSets, SequencesExt, Selection

CONSTANTS
    Waiters,        \* calls of register()
    FollowUps,      \* calls of dispatch()
    Failures,       \* calls of fail()
    Locks,          \* identities of lock objects
    None,
    MayRefuse,      \* whether system.session_waiter.register may fail
    MayCancel       \* whether the tasks that wait may be cancelled

Tasks == Waiters \cup FollowUps \cup Failures

ASSUME WaiterAssumption ==
    /\ Waiters \cap FollowUps = {} /\ Waiters \cap Failures = {} /\ FollowUps \cap Failures = {}
    /\ IsFiniteSet(Tasks) /\ IsFiniteSet(Locks)
    /\ Cardinality(Locks) > Cardinality(Tasks)
    /\ None \notin Tasks /\ None \notin Locks
    /\ MayRefuse \in BOOLEAN /\ MayCancel \in BOOLEAN

VARIABLES
    entry,          \* _entries[session][plugin]
    lock,           \* _locks[(session, plugin)]
    queue,          \* of each lock object: its owner, then those that wait for it
    pc,             \* where each task's coroutine stands
    home,           \* of a waiter: the task it runs in
    future,         \* of a waiter: controller.future, pending or done
    armed,          \* of a waiter: the _holding of its current_event waits
    fired,          \* of a waiter: a _holding has timed out and not run yet
    enabled,        \* of a waiter: unregister_enabled
    restorable,     \* of a waiter: restorable_previous
    serving,        \* of a follow-up: the waiter whose handler it has entered
    rightful        \* history: the waiter registered last, and those that a refused
                    \* registration has brought back since

vars == <<entry, lock, queue, pc, home, future, armed, fired, enabled, restorable, serving, rightful>>

WaiterPC   == {"idle", "registering", "removing", "waiting", "leaving", "unregistering", "done"}
FollowUpPC == {"idle", "locking", "handling", "done"}
FailurePC  == {"idle", "locking", "done"}

Init ==
    /\ entry = None /\ lock = None /\ rightful = {}
    /\ queue = [l \in Locks |-> <<>>]
    /\ pc = [t \in Tasks |-> "idle"]
    /\ home = [w \in Waiters |-> None]
    /\ future = [w \in Waiters |-> "pending"]
    /\ armed = [w \in Waiters |-> FALSE] /\ fired = [w \in Waiters |-> FALSE]
    /\ enabled = [w \in Waiters |-> TRUE]
    /\ restorable = [w \in Waiters |-> None]
    /\ serving = [d \in FollowUps |-> None]

-----------------------------------------------------------------------------
(* _TaskReentrantLock, and the table of locks.                              *)

WithoutTask(tasks, t) == Picked(tasks, {n \in DOMAIN tasks : tasks[n] # t})

Home(t) == IF t \in Waiters THEN home[t] ELSE t

\* Mutant: the lock is a plain asyncio.Lock.
OwnsNever(t, l) == FALSE

Owns(t, l) == queue[l] # <<>> /\ Home(Head(queue[l])) = Home(t)

\* The task owns a lock or waits for one.
Queued(t) == \E l \in Locks : t \in ToSet(queue[l])

\* The task is the first of the queue: it owns the lock, or its turn has come.
Granted(t, l) == queue[l] # <<>> /\ Head(queue[l]) = t

\* _lock_for: the lock of the key, a new one if the table has none.
LockFor == IF lock # None THEN lock ELSE CHOOSE l \in Locks : queue[l] = <<>>

\* acquire() does not suspend.
Free(t) == queue[LockFor] = <<>> \/ Owns(t, LockFor)

Enqueue(t) ==
    /\ lock' = LockFor
    /\ queue' = [queue EXCEPT ![LockFor] = Append(@, t)]

\* The task's next step runs under lock l, which it gets at once or whose
\* turn has come; it gives l back before it suspends.
UnderLock(t, l) ==
    \/ ~Queued(t) /\ Free(t) /\ l = LockFor /\ UNCHANGED queue
    \/ Granted(t, l) /\ queue' = [queue EXCEPT ![l] = Tail(@)]

\* The table as the task finds it under its lock, looked up on the way to it,
\* and after the lock of a removed entry was dropped.
Table(t) == IF Queued(t) THEN lock ELSE LockFor
Drop(t, l) == IF Table(t) = l THEN None ELSE Table(t)

-----------------------------------------------------------------------------
(* SessionController.                                                       *)

\* stop(), _finish_entry or a cancellation of the future; whatever timers run
\* on will find it done.
Finish(w) ==
    /\ future' = [future EXCEPT ![w] = "done"]
    /\ armed' = [armed EXCEPT ![w] = FALSE]
    /\ fired' = [fired EXCEPT ![w] = FALSE]

-----------------------------------------------------------------------------
(* register(): up to the first await.                                       *)

\* A waiter registered below a handler inherits its _ACTIVE_WAITER_KEY: the
\* one it replaces stands back instead of being ended.
Replace(w, nested) ==
    LET previous == entry IN
    /\ entry' = w /\ rightful' = {w}
    /\ lock' = LockFor
    /\ pc' = [pc EXCEPT ![w] = "registering"]
    /\ enabled' = IF previous = None THEN enabled ELSE [enabled EXCEPT ![previous] = FALSE]
    /\ restorable' = IF nested THEN [restorable EXCEPT ![w] = previous] ELSE restorable
    /\ IF previous # None /\ ~nested THEN Finish(previous) ELSE UNCHANGED <<future, armed, fired>>
    /\ UNCHANGED <<queue, serving>>

\* A handler that awaits a waiter of its own does nothing else.
Awaiting(d) == \E w \in Waiters : home[w] = d /\ pc[w] # "done"

Register(w) ==
    /\ pc[w] = "idle"
    /\ home' = [home EXCEPT ![w] = w]
    /\ Replace(w, FALSE)

\* From a task that a handler has started.
RegisterBelow(w) ==
    /\ pc[w] = "idle"
    /\ \E d \in FollowUps : serving[d] # None
    /\ home' = [home EXCEPT ![w] = w]
    /\ Replace(w, TRUE)

\* Awaited by the handler itself.
RegisterWithin(w, d) ==
    /\ pc[w] = "idle" /\ pc[d] = "handling" /\ ~Awaiting(d)
    /\ home' = [home EXCEPT ![w] = d]
    /\ Replace(w, TRUE)

(* system.session_waiter.register has answered: keep() starts the timer.    *)
Registered(w) ==
    /\ pc[w] = "registering"
    /\ pc' = [pc EXCEPT ![w] = "waiting"]
    /\ armed' = [armed EXCEPT ![w] = future[w] = "pending"]
    /\ UNCHANGED <<entry, lock, queue, home, future, fired, enabled, restorable, serving, rightful>>

(* The call was refused: _remove_entry, and the waiter below comes back.    *)
Refused(w) ==
    /\ pc[w] = "registering" /\ MayRefuse /\ ~Free(w)
    /\ pc' = [pc EXCEPT ![w] = "removing"]
    /\ enabled' = [enabled EXCEPT ![w] = FALSE]
    /\ Enqueue(w)
    /\ UNCHANGED <<entry, home, future, armed, fired, restorable, serving, rightful>>

Removed(w) == \E l \in Locks :
    /\ \/ pc[w] = "registering" /\ MayRefuse
       \/ pc[w] = "removing"
    /\ UnderLock(w, l)
    /\ pc' = [pc EXCEPT ![w] = "done"]
    /\ LET below == restorable[w]
           table == IF entry = w THEN Drop(w, l) ELSE Table(w) IN
       /\ enabled' = [t \in Waiters |-> IF t = w THEN FALSE ELSE t = below \/ enabled[t]]
       /\ entry' = IF below # None THEN below ELSE IF entry = w THEN None ELSE entry
       /\ rightful' = (rightful \ {w}) \cup ({below} \ {None})
       /\ lock' = IF below # None /\ table = None
                  THEN CHOOSE k \in Locks : queue'[k] = <<>> ELSE table
    /\ UNCHANGED <<home, future, armed, fired, restorable, serving>>

-----------------------------------------------------------------------------
(* The timer, and the rest of register() once its future is done.           *)

\* wait_for gives up; the _holding task runs later, whatever keep() did since,
\* but before another timer runs out.
Deadline(w) ==
    /\ armed[w] /\ ~fired[w]
    /\ armed' = [armed EXCEPT ![w] = FALSE]
    /\ fired' = [fired EXCEPT ![w] = TRUE]
    /\ UNCHANGED <<entry, lock, queue, pc, home, future, enabled, restorable, serving, rightful>>

Expire(w) ==
    /\ fired[w]
    /\ Finish(w)
    /\ UNCHANGED <<entry, lock, queue, pc, home, enabled, restorable, serving, rightful>>

Return(w) ==
    /\ pc[w] = "waiting" /\ future[w] = "done" /\ ~enabled[w]
    /\ pc' = [pc EXCEPT ![w] = "done"]
    /\ UNCHANGED <<entry, lock, queue, home, future, armed, fired, enabled, restorable, serving, rightful>>

(* unregister(): whatever entry the key has by then is popped.              *)
Leave(w) ==
    /\ pc[w] = "waiting" /\ future[w] = "done" /\ enabled[w] /\ ~Free(w)
    /\ pc' = [pc EXCEPT ![w] = "leaving"]
    /\ Enqueue(w)
    /\ UNCHANGED <<entry, home, future, armed, fired, enabled, restorable, serving, rightful>>

Unregister(w) == \E l \in Locks :
    /\ \/ pc[w] = "waiting" /\ future[w] = "done" /\ enabled[w]
       \/ pc[w] = "leaving"
    /\ UnderLock(w, l)
    /\ entry' = None
    /\ lock' = IF entry = None THEN Table(w) ELSE Drop(w, l)
    /\ pc' = [pc EXCEPT ![w] = IF entry = None THEN "done" ELSE "unregistering"]
    /\ UNCHANGED <<home, future, armed, fired, enabled, restorable, serving, rightful>>

Unregistered(w) ==
    /\ pc[w] = "unregistering"
    /\ pc' = [pc EXCEPT ![w] = "done"]
    /\ UNCHANGED <<entry, lock, queue, home, future, armed, fired, enabled, restorable, serving, rightful>>

(* The waiter's task is cancelled: while register() awaits its capability   *)
(* nothing is undone, since only an Exception is caught there.              *)
CancelWaiter(w) ==
    /\ MayCancel
    /\ IF pc[w] = "waiting"
       THEN future[w] = "pending" /\ Finish(w) /\ UNCHANGED <<pc, queue>>
       ELSE /\ pc[w] \in {"registering", "removing", "leaving", "unregistering"}
            /\ pc' = [pc EXCEPT ![w] = "done"]
            /\ queue' = [l \in Locks |-> WithoutTask(queue[l], w)]
            /\ UNCHANGED <<future, armed, fired>>
    /\ UNCHANGED <<entry, lock, home, enabled, restorable, serving, rightful>>

-----------------------------------------------------------------------------
(* dispatch(): a follow-up message of the session.                          *)

Follow(d) ==
    /\ pc[d] = "idle" /\ entry # None /\ ~Free(d)
    /\ pc' = [pc EXCEPT ![d] = "locking"]
    /\ Enqueue(d)
    /\ UNCHANGED <<entry, home, future, armed, fired, enabled, restorable, serving, rightful>>

\* The entry, read again under the lock.
Standing == entry # None /\ future[entry] = "pending"

\* Mutant: the entry is not read again once the lock is had.
ServeUnchecked(d) ==
    /\ \/ pc[d] = "idle" /\ entry # None /\ Free(d) /\ Enqueue(d)
       \/ pc[d] = "locking" /\ (\E l \in Locks : Granted(d, l)) /\ UNCHANGED <<lock, queue>>
    /\ entry # None
    /\ pc' = [pc EXCEPT ![d] = "handling"]
    /\ serving' = [serving EXCEPT ![d] = entry]
    /\ UNCHANGED <<entry, home, future, armed, fired, enabled, restorable, rightful>>

Serve(d) ==
    /\ \/ pc[d] = "idle" /\ entry # None /\ Free(d) /\ Enqueue(d)
       \/ pc[d] = "locking" /\ (\E l \in Locks : Granted(d, l)) /\ UNCHANGED <<lock, queue>>
    /\ Standing
    /\ pc' = [pc EXCEPT ![d] = "handling"]
    /\ serving' = [serving EXCEPT ![d] = entry]
    /\ UNCHANGED <<entry, home, future, armed, fired, enabled, restorable, rightful>>

Miss(d) == \E l \in Locks :
    /\ \/ pc[d] = "idle" /\ entry # None
       \/ pc[d] = "locking"
    /\ ~Standing
    /\ UnderLock(d, l)
    /\ lock' = Table(d)
    /\ pc' = [pc EXCEPT ![d] = "done"]
    /\ UNCHANGED <<entry, home, future, armed, fired, enabled, restorable, serving, rightful>>

\* The handler calls controller.stop() and controller.keep().
Handling(d) == pc[d] = "handling" /\ ~Awaiting(d)

Stop(d) ==
    /\ Handling(d) /\ future[serving[d]] = "pending"
    /\ Finish(serving[d])
    /\ UNCHANGED <<entry, lock, queue, pc, home, enabled, restorable, serving, rightful>>

KeepAlive(d) ==
    /\ Handling(d) /\ future[serving[d]] = "pending" /\ ~armed[serving[d]]
    /\ armed' = [armed EXCEPT ![serving[d]] = TRUE]
    /\ UNCHANGED <<entry, lock, queue, pc, home, future, fired, enabled, restorable, serving, rightful>>

\* The handler returns, raises or is cancelled.
HandlerReturns(d) ==
    /\ Handling(d)
    /\ pc' = [pc EXCEPT ![d] = "done"]
    /\ queue' = [l \in Locks |-> IF Granted(d, l) THEN Tail(queue[l]) ELSE queue[l]]
    /\ UNCHANGED <<entry, lock, home, future, armed, fired, enabled, restorable, serving, rightful>>

\* Mutant: a cancelled task stays in the lock's queue.
CancelLockingStays(t) ==
    /\ MayCancel /\ t \notin Waiters /\ pc[t] = "locking"
    /\ pc' = [pc EXCEPT ![t] = "done"]
    /\ UNCHANGED <<entry, lock, queue, home, future, armed, fired, enabled, restorable, serving, rightful>>

CancelLocking(t) ==
    /\ MayCancel /\ t \notin Waiters /\ pc[t] = "locking"
    /\ pc' = [pc EXCEPT ![t] = "done"]
    /\ queue' = [l \in Locks |-> WithoutTask(queue[l], t)]
    /\ UNCHANGED <<entry, lock, home, future, armed, fired, enabled, restorable, serving, rightful>>

-----------------------------------------------------------------------------
(* fail(): ends the waiter that stands, by _finish_entry.                   *)

FailWaits(f) ==
    /\ pc[f] = "idle" /\ entry # None /\ ~Free(f)
    /\ pc' = [pc EXCEPT ![f] = "locking"]
    /\ Enqueue(f)
    /\ UNCHANGED <<entry, home, future, armed, fired, enabled, restorable, serving, rightful>>

Fail(f) == \E l \in Locks :
    /\ \/ pc[f] = "idle" /\ entry # None
       \/ pc[f] = "locking"
    /\ UnderLock(f, l)
    /\ lock' = Table(f)
    /\ pc' = [pc EXCEPT ![f] = "done"]
    /\ IF Standing THEN Finish(entry) ELSE UNCHANGED <<future, armed, fired>>
    /\ UNCHANGED <<entry, home, enabled, restorable, serving, rightful>>

-----------------------------------------------------------------------------

WaiterStep(w) == \/ Registered(w) \/ Refused(w) \/ Removed(w) \/ Deadline(w) \/ Expire(w)
                 \/ Return(w) \/ Leave(w) \/ Unregister(w) \/ Unregistered(w)
FollowUpStep(d) == Serve(d) \/ Miss(d) \/ HandlerReturns(d)

Next ==
    \/ \E w \in Waiters : \/ Register(w) \/ RegisterBelow(w) \/ WaiterStep(w) \/ CancelWaiter(w)
                          \/ \E d \in FollowUps : RegisterWithin(w, d)
    \/ \E d \in FollowUps : Follow(d) \/ FollowUpStep(d) \/ Stop(d) \/ KeepAlive(d)
    \/ \E f \in Failures : FailWaits(f) \/ Fail(f)
    \/ \E t \in Tasks : CancelLocking(t)

Spec == Init /\ [][Next]_vars

(* The peer answers, timers run out, handlers return and ready tasks run.   *)
(* Each of these steps brings a task nearer to its end and none can be      *)
(* repeated for ever, so weak fairness of all together is enough.           *)
LoopStep == \/ \E w \in Waiters : WaiterStep(w)
            \/ \E d \in FollowUps : pc[d] # "idle" /\ FollowUpStep(d)
            \/ \E f \in Failures : pc[f] # "idle" /\ Fail(f)

FairSpec == Spec /\ WF_vars(LoopStep)

-----------------------------------------------------------------------------
(* Properties.                                                              *)

(* The tables are well typed, and the tasks in the locks' queues are those  *)
(* that hold or await one.                                                  *)
TypeOK ==
    /\ entry \in Waiters \cup {None} /\ rightful \subseteq Waiters
    /\ lock \in Locks \cup {None}
    /\ queue \in [Locks -> Seq(Tasks)]
    /\ pc \in [Tasks -> WaiterPC \cup FollowUpPC \cup FailurePC]
    /\ \A t \in Tasks : Queued(t) <=> pc[t] \in {"removing", "leaving", "locking", "handling"}
    /\ home \in [Waiters -> Waiters \cup FollowUps \cup {None}]
    /\ future \in [Waiters -> {"pending", "done"}]
    /\ armed \in [Waiters -> BOOLEAN] /\ fired \in [Waiters -> BOOLEAN]
    /\ enabled \in [Waiters -> BOOLEAN]
    /\ restorable \in [Waiters -> Waiters \cup {None}]
    /\ serving \in [FollowUps -> Waiters \cup {None}]

\* The task has begun and its next step is up to the loop, its peer, its timer
\* or its handler.
CanGoOn(t) ==
    \/ pc[t] \in {"registering", "unregistering"}
    \/ pc[t] = "waiting" /\ (future[t] = "done" \/ armed[t] \/ fired[t])
    \/ pc[t] \in {"removing", "leaving", "locking"} /\ \E l \in Locks : Granted(t, l)
    \/ pc[t] = "handling" /\ ~Awaiting(t)

\* It waits for the owner of a lock, or for a waiter its handler awaits.
WaitsFor(t, u) ==
    \/ \E l \in Locks : t \in ToSet(queue[l]) /\ u = Head(queue[l]) /\ u # t
    \/ pc[t] = "handling" /\ u \in Waiters /\ home[u] = t /\ pc[u] # "done"

(* Locks that are dropped from the table while tasks hold and await them, and *)
(* handlers that await waiters which need a lock, never make a ring: of the   *)
(* tasks of any set that have begun and not ended, one can go on or waits for *)
(* a task outside the set.  (So with all of them, one can go on.)             *)
NobodyIsStuck ==
    /\ TypeOK
    /\ \A stuck \in SUBSET {t \in Tasks : pc[t] \notin {"idle", "done"}} :
          stuck # {} => \E t \in stuck : CanGoOn(t) \/ \E u \in Tasks \ stuck : WaitsFor(t, u)

(* A message goes to the waiter registered last, never to one it replaced   *)
(* or one that has ended, whatever happened while it waited for the lock.   *)
(* (A registration that is refused brings back the waiter below it, also    *)
(* when a newer one has been registered since.)                             *)
ServesRightful == [][\A d \in FollowUps : serving'[d] # serving[d] =>
                       serving'[d] \in rightful /\ future[serving'[d]] = "pending"]_vars

(* "session waiter replaced by a newer waiter" (register): an entry only    *)
(* makes way for the waiter registered last.                                *)
ReplacedByNewer == [][entry' \notin {entry, None} => rightful' = {entry'}]_vars

(* "Keep follow-up handler execution serialized per waiter" (dispatch): two *)
(* messages never run the handler of one waiter at once.                    *)
OneHandler == \A d, e \in FollowUps :
    pc[d] = "handling" /\ pc[e] = "handling" /\ serving[d] = serving[e] => d = e

(* The lock keeps concurrent operations from corrupting the state: a waiter *)
(* that waits and that nothing has replaced is the one messages go to.      *)
WaiterIsReached == \A w \in Waiters :
    pc[w] = "waiting" /\ future[w] = "pending" /\ rightful = {w} => entry = w

(* Every waiter, follow-up and failure comes to an end: no task waits for   *)
(* ever for a lock whose owner waits for it.  (A task begins once.)         *)
TasksEnd == <>[](\A t \in Tasks : pc[t] \in {"idle", "done"})
=============================================================================
