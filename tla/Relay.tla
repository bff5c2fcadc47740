------------------------------- MODULE Relay -------------------------------
(***************************************************************************)
(* The supervisor between the core and its workers (runtime/supervisor.py):*)
(* requests of the core for a plugin's handler or capability, and requests *)
(* of one worker for the capability of another, are relayed under the      *)
(* request id they came with.  Each connection is a Peer; what Peer.tla    *)
(* says of one connection is kept here only as far as the ids of several   *)
(* connections meet: _pending_results of a session's peer, _inbound_tasks  *)
(* of a worker's peer and active_requests of the supervisor.               *)
(*                                                                         *)
(* A call is named by who made it and its request id; the receiver of a    *)
(* frame looks at the id alone, the field call only records the truth.     *)
(***************************************************************************)
EXTENDS Integers, Sequences, SequencesExt

CONSTANTS
    Core,       \* the process upstream of the supervisor
    Workers,    \* the worker processes, one session each
    MaxId,      \* bound on the requests of one process
    Asks,       \* [Origins -> SUBSET Workers]: whom the plugins of each may call
    MayCancel,  \* the processes that may cancel a request
    MayDie,     \* the workers that may die
    None        \* no call, no worker

Origins == {Core} \cup Workers
Ids     == 1 .. MaxId
Calls   == Origins \X Ids
Answers == {"ok", "error", "cancelled"}

ASSUME RelayAssumption ==
    /\ MaxId \in Nat
    /\ Core \notin Workers
    /\ None \notin Origins /\ None \notin Calls
    /\ Asks \in [Origins -> SUBSET Workers]
    /\ MayCancel \subseteq Origins /\ MayDie \subseteq Workers

VARIABLES
    \* --- the callers
    counter,    \* [Origins -> 0 .. MaxId]
    target,     \* the worker that serves a call
    caller,     \* "idle", "waiting" or "done"
    result,     \* what the caller got, "lost" when its connection failed
    by,         \* the call whose execution gave that answer
    asked,      \* a CancelMessage was sent for the call
    \* --- the supervisor
    relay,      \* the inbound task that relays a call
    token,      \* its CancelToken was cancelled
    mustCancel, \* task.cancel() was called, CancelledError not yet thrown
    future,     \* the future it awaits from the worker's session
    origin,     \* the call whose execution resolved that future
    active,     \* active_requests
    pending,    \* _pending_results of each session's peer
    cancelling, \* the core's call whose cancel the upstream reader forwards
    link,       \* a worker's pipes: "up", "lost", or "eof" once noticed
    failed,     \* the session's peer ran _fail_connection
    gone,       \* _handle_worker_closed ran for the session
    upFailed,   \* the supervisor's own peer ran _fail_connection
    \* --- the workers
    inbound,    \* _inbound_tasks of each worker's peer
    work,       \* the task that executes a call
    workCancel, \* a cancel reached that task
    \* --- frames on the way
    up,         \* from each origin to the supervisor
    down        \* from the supervisor to each origin

callerVars == <<counter, target, caller, result, by, asked>>
relayVars  == <<relay, token, mustCancel, future, origin>>
superVars  == <<active, pending, cancelling, link, failed, gone, upFailed>>
workVars   == <<inbound, work, workCancel>>
vars       == <<callerVars, relayVars, superVars, workVars, up, down>>

Frame == [kind : {"invoke", "cancel"} \cup Answers, id : Ids, call : Calls]
Msg(k, i, c) == [kind |-> k, id |-> i, call |-> c]

Each(S, x) == [s \in S |-> x]

Init ==
    /\ counter = Each(Origins, 0)         /\ target = Each(Calls, None)
    /\ caller = Each(Calls, "idle")       /\ result = Each(Calls, "none")
    /\ by = Each(Calls, None)             /\ asked = Each(Calls, FALSE)
    /\ relay = Each(Calls, "none")        /\ token = Each(Calls, FALSE)
    /\ mustCancel = Each(Calls, FALSE)    /\ future = Each(Calls, "none")
    /\ origin = Each(Calls, None)         /\ active = Each(Ids, None)
    /\ pending = Each(Workers, Each(Ids, None))
    /\ cancelling = None                  /\ link = Each(Workers, "up")
    /\ failed = Each(Workers, FALSE)      /\ gone = Each(Workers, FALSE)
    /\ upFailed = FALSE
    /\ inbound = Each(Workers, Each(Ids, None))
    /\ work = Each(Calls, "none")         /\ workCancel = Each(Calls, FALSE)
    /\ up = Each(Origins, <<>>)           /\ down = Each(Origins, <<>>)

\* A process that can send, and a connection the supervisor still reads.
Alive(o)   == IF o = Core THEN ~upFailed ELSE link[o] = "up"
Reading(o) == IF o = Core THEN ~upFailed /\ cancelling = None
                          ELSE link[o] # "eof" /\ ~failed[o]

(* A worker writes to its stdout in threads, so its frames may overtake     *)
(* each other: the reader takes any of them.  Pipes into a process are      *)
(* written in order.                                                        *)
Readable(o) == IF o = Core THEN {1} \cap DOMAIN up[o] ELSE DOMAIN up[o]

-----------------------------------------------------------------------------
(* The callers: the peer of the core or of a worker.                        *)

Ask(o, w) == LET c == <<o, counter[o] + 1>> IN
    /\ counter[o] < MaxId /\ w \in Asks[o] /\ Alive(o)
    /\ counter' = [counter EXCEPT ![o] = @ + 1]
    /\ target' = [target EXCEPT ![c] = w]
    /\ caller' = [caller EXCEPT ![c] = "waiting"]
    /\ up' = [up EXCEPT ![o] = Append(@, Msg("invoke", c[2], c))]
    /\ UNCHANGED <<result, by, asked, relayVars, superVars, workVars, down>>

AskCancel(c) ==
    /\ c[1] \in MayCancel /\ caller[c] = "waiting" /\ ~asked[c] /\ Alive(c[1])
    /\ asked' = [asked EXCEPT ![c] = TRUE]
    /\ up' = [up EXCEPT ![c[1]] = Append(@, Msg("cancel", c[2], c))]
    /\ UNCHANGED <<counter, target, caller, result, by, relayVars, superVars, workVars, down>>

\* Mutant: an answer is handed on whether or not anybody waits for it.
DeliverAlways(o, f) == LET c == <<o, f.id>> IN
    /\ caller' = [caller EXCEPT ![c] = "done"]
    /\ result' = [result EXCEPT ![c] = f.kind]
    /\ by' = [by EXCEPT ![c] = f.call]
    /\ UNCHANGED <<counter, target, asked>>

\* The result of one of o's own calls: the id tells which.
Deliver(o, f) == LET c == <<o, f.id>> IN
    IF caller[c] # "waiting" THEN UNCHANGED callerVars
    ELSE /\ caller' = [caller EXCEPT ![c] = "done"]
         /\ result' = [result EXCEPT ![c] = f.kind]
         /\ by' = [by EXCEPT ![c] = f.call]
         /\ UNCHANGED <<counter, target, asked>>

CoreReceive == \E k \in DOMAIN down[Core] :
    /\ Deliver(Core, down[Core][k])
    /\ down' = [down EXCEPT ![Core] = RemoveAt(@, k)]
    /\ UNCHANGED <<relayVars, superVars, workVars, up>>

\* The connection of a process has ended: none of its callers waits on.
Hangup(o) ==
    /\ caller' = [c \in Calls |-> IF c[1] = o /\ caller[c] = "waiting" THEN "done" ELSE caller[c]]
    /\ result' = [c \in Calls |-> IF c[1] = o /\ caller[c] = "waiting" THEN "lost" ELSE result[c]]
    /\ UNCHANGED <<counter, target, by, asked>>

CoreHangsUp ==
    /\ upFailed /\ \E i \in Ids : caller[<<Core, i>>] = "waiting"
    /\ Hangup(Core)
    /\ UNCHANGED <<relayVars, superVars, workVars, up, down>>

-----------------------------------------------------------------------------
(* The supervisor's inbound tasks, which relay.                             *)

\* _handle_invoke answers with the result or the error of the relayed call.
Reply(c, k, source) ==
    /\ relay' = [relay EXCEPT ![c] = "ended"]
    /\ down' = IF Alive(c[1])
               THEN [down EXCEPT ![c[1]] = Append(@, Msg(k, c[2], source))] ELSE down

\* Peer.invoke to a session that is alive, or whose death is not noticed yet.
SendOn(c) == LET i == c[2]  w == target[c] IN
    /\ active' = [active EXCEPT ![i] = w]
    /\ pending' = [pending EXCEPT ![w][i] = c]
    /\ future' = [future EXCEPT ![c] = "pending"]
    /\ relay' = [relay EXCEPT ![c] = "waiting"]
    /\ down' = IF link[w] # "up" THEN down
               ELSE [down EXCEPT ![w] = Append(@, Msg("invoke", i, c))]

(* _route_handler_invoke and the capability callers: no await between the   *)
(* lookup of the session and the write, whose failure takes both entries    *)
(* back; a session no table knows any more is an error.                     *)
RelayStart(c) == LET i == c[2]  w == target[c] IN
    /\ relay[c] = "created"
    /\ IF token[c]
       THEN Reply(c, "cancelled", c) /\ UNCHANGED <<active, pending, future>>
       ELSE \/ gone[w] /\ Reply(c, "error", c) /\ UNCHANGED <<active, pending, future>>
            \/ /\ ~gone[w] /\ failed[w]              \* _ensure_usable
               /\ Reply(c, "error", c)
               /\ active' = [active EXCEPT ![i] = None]
               /\ UNCHANGED <<pending, future>>
            \/ /\ ~gone[w] /\ ~failed[w] /\ link[w] # "up"   \* send raises
               /\ Reply(c, "error", c)
               /\ active' = [active EXCEPT ![i] = None]
               /\ pending' = [pending EXCEPT ![w][i] = None]
               /\ UNCHANGED future
            \/ ~gone[w] /\ ~failed[w] /\ SendOn(c)
    /\ UNCHANGED <<callerVars, token, mustCancel, origin, cancelling, link, failed, gone, upFailed>>
    /\ UNCHANGED <<workVars, up>>

\* Mutant: a lost connection is passed on like an answer.
RelayReturnsRaw(c) ==
    /\ relay[c] = "waiting" /\ ~mustCancel[c] /\ future[c] # "pending"
    /\ active' = [active EXCEPT ![c[2]] = None]
    /\ Reply(c, future[c], origin[c])
    /\ UNCHANGED <<callerVars, token, mustCancel, future, origin>>
    /\ UNCHANGED <<pending, cancelling, link, failed, gone, upFailed, workVars, up>>

RelayReturns(c) ==
    /\ relay[c] = "waiting" /\ ~mustCancel[c] /\ future[c] # "pending"
    /\ active' = [active EXCEPT ![c[2]] = None]
    /\ IF future[c] = "lost" THEN Reply(c, "error", c) ELSE Reply(c, future[c], origin[c])
    /\ UNCHANGED <<callerVars, token, mustCancel, future, origin>>
    /\ UNCHANGED <<pending, cancelling, link, failed, gone, upFailed, workVars, up>>

\* Mutant: the finally clause does not take the request out of active_requests.
RelayInterruptedKept(c) ==
    /\ relay[c] = "waiting" /\ mustCancel[c]
    /\ mustCancel' = [mustCancel EXCEPT ![c] = FALSE]
    /\ future' = [future EXCEPT ![c] = IF @ = "pending" THEN "dropped" ELSE @]
    /\ Reply(c, "cancelled", c)
    /\ UNCHANGED <<callerVars, token, origin, active, pending, cancelling, link, failed, gone, upFailed>>
    /\ UNCHANGED <<workVars, up>>

RelayInterrupted(c) ==
    /\ relay[c] = "waiting" /\ mustCancel[c]
    /\ mustCancel' = [mustCancel EXCEPT ![c] = FALSE]
    /\ future' = [future EXCEPT ![c] = IF @ = "pending" THEN "dropped" ELSE @]
    /\ active' = [active EXCEPT ![c[2]] = None]
    /\ Reply(c, "cancelled", c)
    /\ UNCHANGED <<callerVars, token, origin, pending, cancelling, link, failed, gone, upFailed>>
    /\ UNCHANGED <<workVars, up>>

-----------------------------------------------------------------------------
(* The supervisor's readers: one per connection.                            *)

HandleInvoke(o, f) ==
    /\ relay' = [relay EXCEPT ![<<o, f.id>>] = "created"]
    /\ UNCHANGED <<callerVars, token, mustCancel, future, origin, superVars, workVars, down>>

\* A result that a worker sent: the future is looked up in its session's peer.
HandleResult(w, f) == LET c == pending[w][f.id] IN
    /\ pending' = [pending EXCEPT ![w][f.id] = None]
    /\ IF c # None /\ future[c] = "pending"
       THEN /\ future' = [future EXCEPT ![c] = f.kind]
            /\ origin' = [origin EXCEPT ![c] = f.call]
       ELSE UNCHANGED <<future, origin>>
    /\ UNCHANGED <<callerVars, relay, token, mustCancel, active, cancelling, link, failed, gone, upFailed>>
    /\ UNCHANGED <<workVars, down>>

\* The tail of _handle_cancel: a task that has started is cancelled.
CancelStarted(c) ==
    mustCancel' = IF relay[c] = "waiting" THEN [mustCancel EXCEPT ![c] = TRUE] ELSE mustCancel

\* _fail_connection: the inbound tasks of the connection are cancelled; one
\* that has not run yet never will.
CancelRelays(o) ==
    LET served == {c \in Calls : c[1] = o /\ relay[c] \in {"created", "waiting"}} IN
    /\ token' = [c \in Calls |-> token[c] \/ c \in served]
    /\ mustCancel' = [c \in Calls |-> mustCancel[c] \/ (c \in served /\ relay[c] = "waiting")]
    /\ relay' = [c \in Calls |-> IF c \in served /\ relay[c] = "created" THEN "ended" ELSE relay[c]]

\* Mutant: the cancel stays in the supervisor.
CancelHere(c) ==
    /\ token' = [token EXCEPT ![c] = TRUE] /\ CancelStarted(c)
    /\ UNCHANGED <<relay, cancelling, upFailed, down>>

(* _handle_cancel of the supervisor's own peer: _handle_upstream_cancel     *)
(* looks the session up and sends it a CancelMessage.  The reader then      *)
(* awaits the pipe (ForwardDone), or the send raises, and an exception in a *)
(* reader fails its connection.                                             *)
HandleUpstreamCancel(c) == LET w == active[c[2]] IN
    \/ /\ w = None
       /\ token' = [token EXCEPT ![c] = TRUE] /\ CancelStarted(c)
       /\ UNCHANGED <<relay, cancelling, upFailed, down>>
    \/ /\ w # None
       /\ token' = [token EXCEPT ![c] = TRUE]
       /\ cancelling' = c
       /\ down' = IF link[w] # "up" THEN down
                  ELSE [down EXCEPT ![w] = Append(@, Msg("cancel", c[2], c))]
       /\ UNCHANGED <<relay, mustCancel, upFailed>>
    \/ /\ w # None /\ link[w] # "up"
       /\ CancelRelays(Core)
       /\ upFailed' = TRUE
       /\ UNCHANGED <<cancelling, down>>

\* A worker's session has no cancel handler: only the local task is cancelled.
HandleCancel(o, f) == LET c == <<o, f.id>> IN
    /\ IF relay[c] \notin {"created", "waiting"}
       THEN UNCHANGED <<relay, token, mustCancel, cancelling, upFailed, down>>
       ELSE IF o = Core THEN HandleUpstreamCancel(c)
       ELSE /\ token' = [token EXCEPT ![c] = TRUE] /\ CancelStarted(c)
            /\ UNCHANGED <<relay, cancelling, upFailed, down>>
    /\ UNCHANGED <<callerVars, future, origin, active, pending, link, failed, gone, workVars>>

Receive(o) == \E k \in Readable(o) : LET f == up[o][k] IN
    /\ Reading(o)
    /\ up' = [up EXCEPT ![o] = RemoveAt(@, k)]
    /\ \/ f.kind = "invoke" /\ HandleInvoke(o, f)
       \/ f.kind = "cancel" /\ HandleCancel(o, f)
       \/ f.kind \in Answers /\ HandleResult(o, f)

ForwardDone ==
    /\ cancelling # None /\ ~upFailed
    /\ CancelStarted(cancelling)
    /\ cancelling' = None
    /\ UNCHANGED <<callerVars, relay, token, future, origin, active, pending, link, failed, gone, upFailed>>
    /\ UNCHANGED <<workVars, up, down>>

-----------------------------------------------------------------------------
(* The death of a worker.  Two watchers wait for the end of its pipe: its   *)
(* peer's (_watch_transport_closed) and its session's (_watch_connection).  *)

Die(w) ==
    /\ link[w] = "up" /\ (w \in MayDie \/ upFailed)   \* or SupervisorRuntime.stop
    /\ link' = [link EXCEPT ![w] = "lost"]
    /\ work' = [c \in Calls |-> IF work[c] = "running" /\ target[c] = w THEN "killed" ELSE work[c]]
    /\ down' = [down EXCEPT ![w] = <<>>]
    /\ Hangup(w)
    /\ UNCHANGED <<relayVars, active, pending, cancelling, failed, gone, upFailed>>
    /\ UNCHANGED <<inbound, workCancel, up>>

Eof(w) ==
    /\ link[w] = "lost"
    /\ link' = [link EXCEPT ![w] = "eof"]
    /\ up' = [up EXCEPT ![w] = <<>>]
    /\ UNCHANGED <<callerVars, relayVars, active, pending, cancelling, failed, gone, upFailed>>
    /\ UNCHANGED <<workVars, down>>

\* Mutant: the calls in flight are not failed.
FailSessionSilently(w) ==
    /\ link[w] = "eof" /\ ~failed[w]
    /\ failed' = [failed EXCEPT ![w] = TRUE]
    /\ CancelRelays(w)
    /\ UNCHANGED <<callerVars, future, pending, origin, active, cancelling, link, gone, upFailed>>
    /\ UNCHANGED <<workVars, up, down>>

FailSession(w) ==
    /\ link[w] = "eof" /\ ~failed[w]
    /\ failed' = [failed EXCEPT ![w] = TRUE]
    /\ future' = [c \in Calls |-> IF pending[w][c[2]] = c /\ future[c] = "pending"
                                  THEN "lost" ELSE future[c]]
    /\ pending' = [pending EXCEPT ![w] = [i \in Ids |-> None]]
    /\ CancelRelays(w)
    /\ UNCHANGED <<callerVars, origin, active, cancelling, link, gone, upFailed, workVars, up, down>>

\* _handle_worker_closed.
Forget(w) ==
    /\ link[w] = "eof" /\ ~gone[w]
    /\ gone' = [gone EXCEPT ![w] = TRUE]
    /\ active' = [i \in Ids |-> IF active[i] = w THEN None ELSE active[i]]
    /\ UNCHANGED <<callerVars, relayVars, pending, cancelling, link, failed, upFailed>>
    /\ UNCHANGED <<workVars, up, down>>

-----------------------------------------------------------------------------
(* The worker: the peer's reader and the tasks that execute calls.          *)

WorkerCancel(w, i) == LET c == inbound[w][i] IN
    workCancel' = IF c = None THEN workCancel ELSE [workCancel EXCEPT ![c] = TRUE]

WorkerReceive(w) ==
    /\ link[w] = "up" /\ down[w] # <<>>
    /\ LET f == Head(down[w]) IN
       \/ /\ f.kind = "invoke"
          /\ inbound' = [inbound EXCEPT ![w][f.id] = f.call]
          /\ work' = [work EXCEPT ![f.call] = "running"]
          /\ UNCHANGED <<workCancel, callerVars>>
       \/ /\ f.kind = "cancel"
          /\ WorkerCancel(w, f.id)
          /\ UNCHANGED <<inbound, work, callerVars>>
       \/ f.kind \in Answers /\ Deliver(w, f) /\ UNCHANGED workVars
    /\ down' = [down EXCEPT ![w] = Tail(@)]
    /\ UNCHANGED <<relayVars, superVars, up>>

\* Mutant: the id is read when the handler has returned, from what is current.
FinishCurrent(c) == LET w == target[c] IN \E i \in Ids :
    /\ work[c] = "running" /\ inbound[w][i] # None
    /\ work' = [work EXCEPT ![c] = "ended"]
    /\ inbound' = [inbound EXCEPT ![w][i] = None]
    /\ up' = [up EXCEPT ![w] = Append(@, Msg(IF workCancel[c] THEN "cancelled" ELSE "ok", i, c))]
    /\ UNCHANGED <<callerVars, relayVars, superVars, workCancel, down>>

\* "ok" is any answer of the handler.  The done-callback forgets the id,
\* whichever task it stands for by now.
Finish(c) == LET w == target[c] IN
    /\ work[c] = "running"
    /\ work' = [work EXCEPT ![c] = "ended"]
    /\ inbound' = [inbound EXCEPT ![w][c[2]] = None]
    /\ up' = [up EXCEPT ![w] = Append(@, Msg(IF workCancel[c] THEN "cancelled" ELSE "ok", c[2], c))]
    /\ UNCHANGED <<callerVars, relayVars, superVars, workCancel, down>>

-----------------------------------------------------------------------------
Session(w)  == Eof(w) \/ FailSession(w) \/ Forget(w)
Supervisor  == \/ \E o \in Origins : Receive(o)
               \/ \E c \in Calls : RelayStart(c) \/ RelayReturns(c) \/ RelayInterrupted(c)
               \/ ForwardDone
               \/ \E w \in Workers : Session(w)
WorkerLoop(w) == WorkerReceive(w) \/ \E c \in Calls : target[c] = w /\ workCancel[c] /\ Finish(c)
CoreLoop      == CoreReceive \/ CoreHangsUp

Next == \/ \E o \in Origins, w \in Workers : Ask(o, w)
        \/ \E c \in Calls : AskCancel(c) \/ Finish(c)
        \/ Supervisor \/ CoreLoop
        \/ \E w \in Workers : WorkerReceive(w) \/ Die(w)

Spec == Init /\ [][Next]_vars

(* Each process runs what is ready, a cancelled handler ends, and a          *)
(* supervisor whose upstream connection has failed stops its workers.        *)
LoopSpec == /\ Spec /\ WF_vars(Supervisor) /\ WF_vars(CoreLoop)
            /\ \A w \in Workers : WF_vars(WorkerLoop(w)) /\ WF_vars(upFailed /\ Die(w))

(* Every handler returns.                                                    *)
HandlersReturn == \A w \in Workers :
    WF_vars(WorkerReceive(w) \/ \E c \in Calls : target[c] = w /\ Finish(c))

-----------------------------------------------------------------------------
(* Properties.                                                              *)

(* The tables of the supervisor and its workers are well typed. *)
TypeOK ==
    /\ counter \in [Origins -> 0 .. MaxId]
    /\ target \in [Calls -> Workers \cup {None}]
    /\ caller \in [Calls -> {"idle", "waiting", "done"}]
    /\ result \in [Calls -> Answers \cup {"none", "lost"}]
    /\ by \in [Calls -> Calls \cup {None}] /\ asked \in [Calls -> BOOLEAN]
    /\ relay \in [Calls -> {"none", "created", "waiting", "ended"}]
    /\ token \in [Calls -> BOOLEAN] /\ mustCancel \in [Calls -> BOOLEAN]
    /\ future \in [Calls -> Answers \cup {"none", "pending", "lost", "dropped"}]
    /\ origin \in [Calls -> Calls \cup {None}]
    /\ active \in [Ids -> Workers \cup {None}]
    /\ pending \in [Workers -> [Ids -> Calls \cup {None}]]
    /\ cancelling \in Calls \cup {None}
    /\ link \in [Workers -> {"up", "lost", "eof"}]
    /\ failed \in [Workers -> BOOLEAN] /\ gone \in [Workers -> BOOLEAN]
    /\ upFailed \in BOOLEAN
    /\ inbound \in [Workers -> [Ids -> Calls \cup {None}]]
    /\ work \in [Calls -> {"none", "running", "ended", "killed"}]
    /\ workCancel \in [Calls -> BOOLEAN]
    /\ up \in [Origins -> Seq(Frame)] /\ down \in [Origins -> Seq(Frame)]

(* A caller that gets a result gets the result of its own call, across two  *)
(* connections and through the deaths of workers.                           *)
OwnReply == \A c \in Calls : by[c] \in {None, c}

(* A worker cancels a task only if the caller of that very task asked.      *)
CancelHitsItsCall == \A c \in Calls : workCancel[c] => asked[c]

(* Calls that pass the same connections are never taken for one another,     *)
(* neither in what is answered nor in what is cancelled.                     *)
CallsKeptApart == OwnReply /\ CancelHitsItsCall

(* active_requests holds a request exactly as long as it is relayed to a    *)
(* session that stands, and then names that session, so that a cancel       *)
(* always finds the worker; and while the future is pending the session's   *)
(* peer will find it.                                                       *)
ActiveIsRelayed ==
    \A i \in Ids : LET serving == {c \in Calls : c[2] = i /\ relay[c] = "waiting"} IN
        /\ active[i] # None => \E c \in serving : target[c] = active[i]
        /\ \A c \in serving :
             /\ ~gone[target[c]] => active[i] = target[c]
             /\ future[c] = "pending" => pending[target[c]][i] = c

(* The death of a worker concerns the calls it serves: the supervisor's own *)
(* connection, and with it every other worker, goes on.                     *)
CrashIsContained == ~upFailed

(* Every caller gets an answer or learns that there will be none.           *)
CallersEnd == HandlersReturn => \A c \in Calls : caller[c] = "waiting" ~> caller[c] = "done"

(* Another request uses, or has used, the id of call c.                     *)
Shared(c) == \E d \in Calls : d # c /\ d[2] = c[2] /\ caller[d] # "idle"

(* A cancel that the core sends ends the task that executes its call,       *)
(* although that runs in another process and would not end by itself.  Calls*)
(* that share their id with another connection's are left out: their table  *)
(* entries overwrite each other (OwnReply, in the run where two ask one).   *)
CancelReaches == \A c \in Calls :
    c[1] = Core /\ asked[c] /\ work[c] = "running" ~> work[c] # "running" \/ Shared(c)
=============================================================================
