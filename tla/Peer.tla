-------------------------------- MODULE Peer --------------------------------
(***************************************************************************)
(* Two protocol endpoints (runtime/peer.py) over one transport             *)
(* (runtime/transport.py): unary and streaming calls in both directions,   *)
(* cancellation, loss of the connection, _fail_connection and stop.        *)
(*                                                                         *)
(* A call is named by the end that made it and by its request id, the      *)
(* value of that end's _counter.  asyncio runs one coroutine at a time and *)
(* switches only at an await, so each action is the code between two       *)
(* awaits of one coroutine: a caller, the iterator of a stream, the        *)
(* transport's reader, an inbound task, the watch task or stop().          *)
(***************************************************************************)
EXTENDS Integers, Sequences, FiniteSets

CONSTANTS
    Limit,          \* [Peers -> Nat]: bound on the calls each end makes
    Chunks,         \* bound on the deltas of one stream
    MaxCancels,     \* bound on the cancel() calls for one request id
    ThreadWriters,  \* the ends whose send() hands each frame to a thread
    Oversize,       \* kinds of frame that may exceed MAX_INBOUND_MESSAGE_BYTES
    SlowCancel,     \* the ends whose _cancel_handler suspends (it forwards the cancel)
    MayAbandon,     \* whether callers may give up before the answer
    MaySuppress,    \* whether a handler may swallow its CancelledError
    MayStop,        \* the ends whose owner may call stop()
    MayLose         \* whether the process or the socket may die

Peers == {"supervisor", "worker"}
Other(p) == IF p = "supervisor" THEN "worker" ELSE "supervisor"

Ids == 1 .. IF Limit["supervisor"] > Limit["worker"]
            THEN Limit["supervisor"] ELSE Limit["worker"]

ResultKinds == {"ok", "error", "cancelled"}
EventKinds  == {"started", "delta", "completed", "failed"}
Kinds       == {"invoke", "invoke_stream", "cancel"} \cup ResultKinds \cup EventKinds
Endings     == {"completed", "failed", "lost", "protocol"}
Replies     == ResultKinds \cup Endings
                 \cup {"none", "pending", "raised", "dropped", "closed"}

ASSUME PeerAssumption ==
    /\ Limit \in [Peers -> Nat]
    /\ Chunks \in Nat
    /\ MaxCancels \in Nat
    /\ ThreadWriters \subseteq Peers
    /\ Oversize \subseteq Kinds
    /\ MayStop \subseteq Peers
    /\ SlowCancel \subseteq Peers
    /\ MayAbandon \in BOOLEAN
    /\ MaySuppress \in BOOLEAN
    /\ MayLose \in BOOLEAN

VARIABLES
    \* --- the calls an end makes
    counter,    \* _counter, the last request id handed out
    mode,       \* "unary" or "stream", chosen by the caller
    cpc,        \* where the coroutine that made the call stands
    reply,      \* the call's future, or how its stream ended
    pending,    \* keys of _pending_results
    streams,    \* keys of _pending_streams
    queue,      \* the asyncio.Queue of a stream
    got,        \* the deltas its consumer has received
    asked,      \* how many CancelMessages were sent for the call
    late,       \* whether the call was made after stop() had begun
    \* --- the calls an end serves, by the id the other end gave them
    inbound,    \* keys of _inbound_tasks
    tpc,        \* where the inbound task stands
    token,      \* its CancelToken
    mustCancel, \* task.cancel() was called, CancelledError not yet thrown
    sent,       \* how many deltas it has sent
    answers,    \* the final messages it has tried to send
    ran,        \* how often the invoke handler has been entered
    \* --- the connection
    wire,       \* frames an end has written and the other has not read
    writing,    \* frames an end's writer threads still hold
    cancelling, \* the id whose _cancel_handler the reader awaits, or 0
    down,       \* the pipe or the socket is gone
    eof,        \* the end's transport has set its _closed event
    unusable,   \* _unusable
    phase       \* "open", "stopping" (_stopping) or "closed" (_closed)

callVars == <<counter, mode, cpc, reply, pending, streams, queue, got, asked, late>>
taskVars == <<inbound, tpc, token, mustCancel, sent, answers, ran>>
netVars  == <<wire, writing, cancelling, down, eof>>
connVars == <<unusable, phase>>
vars     == <<callVars, taskVars, netVars, connVars>>

Frame     == [kind : Kinds, id : Ids, n : 0 .. Chunks]
Item      == [kind : EventKinds \cup Endings, id : Ids, n : 0 .. Chunks]
Msg(k, i) == [kind |-> k, id |-> i, n |-> 0]

Per(x) == [p \in Peers |-> [i \in Ids |-> x]]
All(x) == [p \in Peers |-> x]

Init ==
    /\ counter = All(0)         /\ mode = Per("unary")   /\ cpc = Per("idle")
    /\ reply = Per("none")      /\ pending = All({})     /\ streams = All({})
    /\ queue = Per(<<>>)        /\ got = Per(<<>>)       /\ asked = Per(0)
    /\ late = Per(FALSE)        /\ inbound = All({})     /\ tpc = Per("none")
    /\ token = Per(FALSE)       /\ mustCancel = Per(FALSE)
    /\ sent = Per(0)            /\ answers = Per({})     /\ ran = Per(0)
    /\ wire = All(<<>>)         /\ writing = All({})     /\ cancelling = All(0)
    /\ down = FALSE             /\ eof = All(FALSE)
    /\ unusable = All(FALSE)    /\ phase = All("open")

-----------------------------------------------------------------------------
(* Sending.  A pipe or a websocket takes the frame at once; a worker that   *)
(* writes to its stdout does it in a thread, so frames of two coroutines    *)
(* may be written in either order.  On a dead transport a frame is lost;    *)
(* its sender may later see the exception (SendRaises, TaskSendRaises).     *)

Post(p, f) ==
    IF down THEN UNCHANGED <<wire, writing>>
    ELSE IF p \in ThreadWriters
         THEN writing' = [writing EXCEPT ![p] = @ \cup {f}] /\ UNCHANGED wire
         ELSE wire' = [wire EXCEPT ![p] = Append(@, f)] /\ UNCHANGED writing

WriteFrame(p) == \E f \in writing[p] :
    /\ writing' = [writing EXCEPT ![p] = @ \ {f}]
    /\ wire' = IF down THEN wire ELSE [wire EXCEPT ![p] = Append(@, f)]
    /\ UNCHANGED <<callVars, taskVars, connVars, cancelling, down, eof>>

\* The await of send() is over once no thread holds the frame any more.
Written(p, i, kinds) == \A f \in writing[p] : f.id # i \/ f.kind \notin kinds

\* The kinds of frame an inbound task may be awaiting the send of.
Awaited(p, i) == CASE tpc[p][i] = "streaming" -> {"started", "delta"}
                   [] tpc[p][i] = "replying"  -> {"ok", "completed"}
                   [] tpc[p][i] = "failing"   -> {"error", "cancelled", "failed"}
                   [] OTHER                   -> {}

-----------------------------------------------------------------------------
(* The caller: invoke, invoke_stream and the iterator it returns, cancel.   *)

Invoke(p, m) == LET i == counter[p] + 1 IN
    /\ ~unusable[p]                                     \* _ensure_usable
    /\ counter[p] < Limit[p]
    /\ counter' = [counter EXCEPT ![p] = i]             \* _next_id
    /\ mode' = [mode EXCEPT ![p][i] = m]
    /\ cpc' = [cpc EXCEPT ![p][i] = "sending"]
    /\ reply' = [reply EXCEPT ![p][i] = "pending"]
    /\ late' = [late EXCEPT ![p][i] = phase[p] # "open"]
    /\ IF m = "unary"
       THEN pending' = [pending EXCEPT ![p] = @ \cup {i}] /\ UNCHANGED streams
       ELSE streams' = [streams EXCEPT ![p] = @ \cup {i}] /\ UNCHANGED pending
    /\ Post(p, Msg(IF m = "unary" THEN "invoke" ELSE "invoke_stream", i))
    /\ UNCHANGED <<queue, got, asked, taskVars, connVars, cancelling, down, eof>>

SendDone(p, i) ==
    /\ cpc[p][i] = "sending"
    /\ Written(p, i, {"invoke", "invoke_stream"})
    /\ cpc' = [cpc EXCEPT ![p][i] = IF mode[p][i] = "unary" THEN "waiting" ELSE "open"]
    /\ UNCHANGED <<counter, mode, reply, pending, streams, queue, got, asked, late>>
    /\ UNCHANGED <<taskVars, netVars, connVars>>

\* transport.send raised: the entry is taken back and the exception goes on.
SendRaises(p, i) ==
    /\ cpc[p][i] = "sending" /\ down
    /\ cpc' = [cpc EXCEPT ![p][i] = "done"]
    /\ reply' = [reply EXCEPT ![p][i] = "raised"]
    /\ pending' = [pending EXCEPT ![p] = @ \ {i}]
    /\ streams' = [streams EXCEPT ![p] = @ \ {i}]
    /\ UNCHANGED <<counter, mode, queue, got, asked, late, taskVars, netVars, connVars>>

\* `result = await future' returns or raises.
Return(p, i) ==
    /\ cpc[p][i] = "waiting" /\ reply[p][i] # "pending"
    /\ cpc' = [cpc EXCEPT ![p][i] = "done"]
    /\ UNCHANGED <<counter, mode, reply, pending, streams, queue, got, asked, late>>
    /\ UNCHANGED <<taskVars, netVars, connVars>>

(* The caller's own task is cancelled in `await _send' or `await future',   *)
(* or the stream's iterator is thrown away before its first item: nothing   *)
(* in the code takes the entry back, and no CancelMessage is sent.          *)
Abandon(p, i) ==
    /\ cpc[p][i] \in {"sending", "waiting", "open"}
    /\ MayAbandon
    /\ cpc' = [cpc EXCEPT ![p][i] = "done"]
    /\ reply' = [reply EXCEPT ![p][i] = IF @ = "pending" THEN "dropped" ELSE @]
    /\ UNCHANGED <<counter, mode, pending, streams, queue, got, asked, late>>
    /\ UNCHANGED <<taskVars, netVars, connVars>>

Iterate(p, i) ==
    /\ cpc[p][i] = "open"
    /\ cpc' = [cpc EXCEPT ![p][i] = "iterating"]
    /\ UNCHANGED <<counter, mode, reply, pending, streams, queue, got, asked, late>>
    /\ UNCHANGED <<taskVars, netVars, connVars>>

\* Mutant: the finally clause forgets to take the stream out of the table.
FinishKeepsEntry(p, i, how) ==
    /\ cpc' = [cpc EXCEPT ![p][i] = "done"]
    /\ reply' = [reply EXCEPT ![p][i] = how]
    /\ IF how \in {"completed", "failed"} THEN UNCHANGED <<asked, wire, writing>>
       ELSE Post(p, Msg("cancel", i)) /\ asked' = [asked EXCEPT ![p][i] = @ + 1]
    /\ UNCHANGED streams

\* The iterator's finally clause; it cancels unless a final event was read.
Finish(p, i, how) ==
    /\ cpc' = [cpc EXCEPT ![p][i] = "done"]
    /\ reply' = [reply EXCEPT ![p][i] = how]
    /\ streams' = [streams EXCEPT ![p] = @ \ {i}]
    /\ IF how \in {"completed", "failed"} THEN UNCHANGED <<asked, wire, writing>>
       ELSE Post(p, Msg("cancel", i)) /\ asked' = [asked EXCEPT ![p][i] = @ + 1]

\* Mutant: a delta falls through to the code that ends the stream.
NextItemEndsAtDelta(p, i) ==
    /\ cpc[p][i] = "iterating" /\ queue[p][i] # <<>>
    /\ LET item == Head(queue[p][i]) IN
       IF item.kind # "started"
       THEN Finish(p, i, item.kind) /\ UNCHANGED got
       ELSE UNCHANGED <<cpc, reply, streams, got, asked, wire, writing>>
    /\ queue' = [queue EXCEPT ![p][i] = Tail(@)]
    /\ UNCHANGED <<counter, mode, pending, late, taskVars, connVars, cancelling, down, eof>>

NextItem(p, i) ==
    /\ cpc[p][i] = "iterating" /\ queue[p][i] # <<>>
    /\ LET item == Head(queue[p][i]) IN
       IF item.kind \in Endings
       THEN Finish(p, i, item.kind) /\ UNCHANGED got
       ELSE /\ got' = IF item.kind # "delta" THEN got
                      ELSE [got EXCEPT ![p][i] = Append(@, item.n)]
            /\ UNCHANGED <<cpc, reply, streams, asked, wire, writing>>
    /\ queue' = [queue EXCEPT ![p][i] = Tail(@)]
    /\ UNCHANGED <<counter, mode, pending, late, taskVars, connVars, cancelling, down, eof>>

\* aclose(), or the consumer's task is cancelled inside the iterator.
CloseEarly(p, i) ==
    /\ cpc[p][i] = "iterating" /\ MayAbandon
    /\ Finish(p, i, "closed")
    /\ UNCHANGED <<counter, mode, pending, queue, got, late, taskVars, connVars>>
    /\ UNCHANGED <<cancelling, down, eof>>

\* cancel() called by another coroutine while the call is in flight.
Cancel(p, i) ==
    /\ cpc[p][i] \in {"sending", "waiting", "open", "iterating"}
    /\ cpc[p][i] = "sending" => p \notin ThreadWriters
    /\ asked[p][i] < MaxCancels
    /\ asked' = [asked EXCEPT ![p][i] = @ + 1]
    /\ Post(p, Msg("cancel", i))
    /\ UNCHANGED <<counter, mode, cpc, reply, pending, streams, queue, got, late>>
    /\ UNCHANGED <<taskVars, connVars, cancelling, down, eof>>

-----------------------------------------------------------------------------
(* Failing and stopping.                                                    *)

Live == {"created", "running", "streaming", "replying", "failing"}

\* Mutant: the tables are cleared, but the streams are not woken.
ReleaseAsleep(p) ==
    /\ reply' = [reply EXCEPT ![p] = [i \in Ids |->
                   IF i \in pending[p] /\ @[i] = "pending" THEN "lost" ELSE @[i]]]
    /\ pending' = [pending EXCEPT ![p] = {}] /\ streams' = [streams EXCEPT ![p] = {}]
    /\ token' = [token EXCEPT ![p] = [i \in Ids |-> @[i] \/ i \in inbound[p]]]
    /\ mustCancel' = [mustCancel EXCEPT ![p] = [i \in Ids |->
                        @[i] \/ (i \in inbound[p] /\ tpc[p][i] \in Live)]]
    /\ inbound' = [inbound EXCEPT ![p] = {}]
    /\ UNCHANGED <<queue, counter, mode, cpc, got, asked, late, tpc, sent, answers, ran>>

\* What _fail_connection and stop share: fail the futures, wake the streams,
\* cancel the inbound tasks, and clear the three tables.
Release(p) ==
    /\ reply' = [reply EXCEPT ![p] = [i \in Ids |->
                   IF i \in pending[p] /\ @[i] = "pending" THEN "lost" ELSE @[i]]]
    /\ pending' = [pending EXCEPT ![p] = {}]
    /\ queue' = [queue EXCEPT ![p] = [i \in Ids |->
                   IF i \in streams[p] THEN Append(@[i], Msg("lost", i)) ELSE @[i]]]
    /\ streams' = [streams EXCEPT ![p] = {}]
    /\ token' = [token EXCEPT ![p] = [i \in Ids |-> @[i] \/ i \in inbound[p]]]
    /\ mustCancel' = [mustCancel EXCEPT ![p] = [i \in Ids |->
                        @[i] \/ (i \in inbound[p] /\ tpc[p][i] \in Live)]]
    /\ inbound' = [inbound EXCEPT ![p] = {}]
    /\ UNCHANGED <<counter, mode, cpc, got, asked, late, tpc, sent, answers, ran>>

\* _fail_connection: idempotent on _unusable; the stop() it schedules is the
\* Stop action, which an unusable end is bound to take.
FailConnection(p) ==
    IF unusable[p] THEN UNCHANGED <<callVars, taskVars, unusable>>
    ELSE Release(p) /\ unusable' = [unusable EXCEPT ![p] = TRUE]

\* _watch_transport_closed, and the done-callback of a crashed inbound task.
Fail(p) ==
    /\ ~unusable[p]
    /\ \/ eof[p] /\ phase[p] = "open"
       \/ \E i \in Ids : tpc[p][i] = "crashed"
    /\ FailConnection(p)
    /\ UNCHANGED <<netVars, phase>>

\* stop() up to `await transport.stop()', which cancels the reader.
Stop(p) ==
    /\ phase[p] = "open"
    /\ unusable[p] \/ p \in MayStop
    /\ phase' = [phase EXCEPT ![p] = "stopping"]
    /\ Release(p)
    /\ cancelling' = [cancelling EXCEPT ![p] = 0]
    /\ UNCHANGED <<unusable, wire, writing, down, eof>>

StopDone(p) ==
    /\ phase[p] = "stopping"
    /\ phase' = [phase EXCEPT ![p] = "closed"]
    /\ down' = TRUE
    /\ eof' = [eof EXCEPT ![p] = TRUE]
    /\ UNCHANGED <<callVars, taskVars, wire, writing, cancelling, unusable>>

LoseLink ==
    /\ MayLose /\ ~down
    /\ down' = TRUE
    /\ UNCHANGED <<callVars, taskVars, connVars, wire, writing, cancelling, eof>>

\* The reader meets the end of the stream; what it had not read is lost.
Eof(p) ==
    /\ down /\ ~eof[p]
    /\ eof' = [eof EXCEPT ![p] = TRUE]
    /\ wire' = [wire EXCEPT ![Other(p)] = <<>>]
    /\ UNCHANGED <<callVars, taskVars, connVars, writing, cancelling, down>>

-----------------------------------------------------------------------------
(* The reader: _handle_raw_message, one frame at a time.                    *)

\* Mutant: the guard `if future.done()' is missing.
HandleResultAgain(p, f) ==
    /\ IF f.id \in pending[p]
       THEN /\ pending' = [pending EXCEPT ![p] = @ \ {f.id}]
            /\ reply' = [reply EXCEPT ![p][f.id] = f.kind]
            /\ UNCHANGED queue
       ELSE /\ queue' = IF f.id \notin streams[p] THEN queue
                        ELSE [queue EXCEPT ![p][f.id] = Append(@, Msg("protocol", f.id))]
            /\ UNCHANGED <<pending, reply>>
    /\ UNCHANGED <<counter, mode, cpc, streams, got, asked, late, taskVars, cancelling>>

HandleResult(p, f) ==
    /\ IF f.id \in pending[p]
       THEN /\ pending' = [pending EXCEPT ![p] = @ \ {f.id}]
            /\ reply' = [reply EXCEPT ![p][f.id] = IF @ = "pending" THEN f.kind ELSE @]
            /\ UNCHANGED queue
       ELSE /\ queue' = IF f.id \notin streams[p] THEN queue
                        ELSE [queue EXCEPT ![p][f.id] = Append(@, Msg("protocol", f.id))]
            /\ UNCHANGED <<pending, reply>>
    /\ UNCHANGED <<counter, mode, cpc, streams, got, asked, late, taskVars, cancelling>>

HandleEvent(p, f) ==
    /\ IF f.id \in streams[p]
       THEN queue' = [queue EXCEPT ![p][f.id] = Append(@, f)] /\ UNCHANGED reply
       ELSE /\ reply' = IF f.id \in pending[p] /\ reply[p][f.id] = "pending"
                        THEN [reply EXCEPT ![p][f.id] = "protocol"] ELSE reply
            /\ UNCHANGED queue
    /\ UNCHANGED <<counter, mode, cpc, pending, streams, got, asked, late, taskVars, cancelling>>

HandleInvoke(p, f) ==
    /\ inbound' = [inbound EXCEPT ![p] = @ \cup {f.id}]
    /\ tpc' = [tpc EXCEPT ![p][f.id] = "created"]
    /\ token' = [token EXCEPT ![p][f.id] = FALSE]
    /\ mustCancel' = [mustCancel EXCEPT ![p][f.id] = FALSE]
    /\ UNCHANGED <<sent, answers, ran, callVars, cancelling>>

\* Mutant: the token is set, the task is left running.
CancelTokenOnly(p, i) == UNCHANGED mustCancel

\* The tail of _handle_cancel: only a task that has started is cancelled.
CancelStarted(p, i) ==
    mustCancel' = IF tpc[p][i] \in Live \ {"created"}
                  THEN [mustCancel EXCEPT ![p][i] = TRUE] ELSE mustCancel

HandleCancel(p, f) ==
    /\ IF f.id \in inbound[p]
       THEN /\ token' = [token EXCEPT ![p][f.id] = TRUE]
            /\ IF p \in SlowCancel         \* the reader awaits _cancel_handler
               THEN cancelling' = [cancelling EXCEPT ![p] = f.id] /\ UNCHANGED mustCancel
               ELSE CancelStarted(p, f.id) /\ UNCHANGED cancelling
       ELSE UNCHANGED <<token, mustCancel, cancelling>>
    /\ UNCHANGED <<inbound, tpc, sent, answers, ran, callVars>>

CancelTask(p) ==
    /\ cancelling[p] # 0
    /\ CancelStarted(p, cancelling[p])
    /\ cancelling' = [cancelling EXCEPT ![p] = 0]
    /\ UNCHANGED <<inbound, tpc, token, sent, answers, ran>>
    /\ UNCHANGED <<callVars, connVars, wire, writing, down, eof>>

Reading(p) == /\ phase[p] = "open" /\ ~eof[p] /\ cancelling[p] = 0
              /\ wire[Other(p)] # <<>>

Receive(p) ==
    /\ Reading(p)
    /\ LET f == Head(wire[Other(p)]) IN
       \/ f.kind \in ResultKinds /\ HandleResult(p, f)
       \/ f.kind \in EventKinds /\ HandleEvent(p, f)
       \/ f.kind \in {"invoke", "invoke_stream"} /\ HandleInvoke(p, f)
       \/ f.kind = "cancel" /\ HandleCancel(p, f)
    /\ wire' = [wire EXCEPT ![Other(p)] = Tail(@)]
    /\ UNCHANGED <<writing, down, eof, connVars>>

\* A frame the size check or the codec refuses fails the whole connection.
Refuse(p) ==
    /\ Reading(p)
    /\ Head(wire[Other(p)]).kind \in Oversize
    /\ FailConnection(p)
    /\ wire' = [wire EXCEPT ![Other(p)] = Tail(@)]
    /\ UNCHANGED <<writing, cancelling, down, eof, phase>>

-----------------------------------------------------------------------------
(* The inbound task: _handle_invoke.                                        *)

\* Where an answer puts the task: in the try block, or in an except clause.
Answer(p, i, kind) ==
    /\ tpc' = [tpc EXCEPT ![p][i] =
                 IF kind = "started" THEN "streaming"
                 ELSE IF kind \in {"ok", "completed"} THEN "replying" ELSE "failing"]
    /\ answers' = IF kind = "started" THEN answers
                  ELSE [answers EXCEPT ![p][i] = @ \cup {kind}]

\* Mutant: the mode is looked up in this end's own table, whose ids overlap
\* with the other's.
ErrorKindOwn(p, i, kind) == IF mode[p][i] = "stream" THEN "failed" ELSE kind

\* _send_error_result: a failed event on a stream, else an error result.
ErrorKind(p, i, kind) == IF mode[Other(p)][i] = "stream" THEN "failed" ELSE kind

Start(p, i) ==
    /\ tpc[p][i] = "created"
    /\ IF mustCancel[p][i]             \* cancelled before it ever ran
       THEN /\ tpc' = [tpc EXCEPT ![p][i] = "ended"]
            /\ inbound' = [inbound EXCEPT ![p] = @ \ {i}]
            /\ mustCancel' = [mustCancel EXCEPT ![p][i] = FALSE]
            /\ UNCHANGED <<answers, ran, wire, writing>>
       ELSE /\ IF token[p][i]          \* token.raise_if_cancelled()
               THEN LET k == ErrorKind(p, i, "cancelled") IN
                    Answer(p, i, k) /\ Post(p, Msg(k, i)) /\ UNCHANGED ran
               ELSE /\ tpc' = [tpc EXCEPT ![p][i] = "running"]
                    /\ ran' = [ran EXCEPT ![p][i] = @ + 1]
                    /\ UNCHANGED <<answers, wire, writing>>
            /\ UNCHANGED <<inbound, mustCancel>>
    /\ UNCHANGED <<token, sent, callVars, connVars, cancelling, down, eof>>

\* Mutant: a handler's exception is swallowed.
HandlerSwallows(p, i) == \E raises \in BOOLEAN :
    LET k == IF mode[Other(p)][i] = "stream" THEN "started" ELSE "ok" IN
    /\ tpc[p][i] = "running" /\ ~mustCancel[p][i]
    /\ IF raises THEN /\ tpc' = [tpc EXCEPT ![p][i] = "ended"]
                      /\ UNCHANGED <<answers, wire, writing>>
                 ELSE Answer(p, i, k) /\ Post(p, Msg(k, i))
    /\ UNCHANGED <<inbound, token, mustCancel, sent, ran, callVars, cancelling, down, eof, connVars>>

HandlerReturns(p, i) == \E raises \in BOOLEAN :
    LET k == IF raises THEN ErrorKind(p, i, "error")
             ELSE IF mode[Other(p)][i] = "stream" THEN "started" ELSE "ok" IN
    /\ tpc[p][i] = "running" /\ ~mustCancel[p][i]
    /\ Answer(p, i, k)
    /\ Post(p, Msg(k, i))
    /\ UNCHANGED <<inbound, token, mustCancel, sent, ran, callVars, connVars, cancelling, down, eof>>

\* Mutant: the event is sent without awaiting the one before it.
NextChunkUnawaited(p, i) ==
    /\ tpc[p][i] = "streaming" /\ ~mustCancel[p][i]
    /\ sent[p][i] < Chunks
    /\ sent' = [sent EXCEPT ![p][i] = @ + 1]
    /\ Post(p, [kind |-> "delta", id |-> i, n |-> sent[p][i] + 1])
    /\ UNCHANGED <<inbound, tpc, token, mustCancel, answers, ran, callVars, connVars>>
    /\ UNCHANGED <<cancelling, down, eof>>

NextChunk(p, i) ==
    /\ tpc[p][i] = "streaming" /\ ~mustCancel[p][i]
    /\ Written(p, i, Awaited(p, i))
    /\ sent[p][i] < Chunks
    /\ sent' = [sent EXCEPT ![p][i] = @ + 1]
    /\ Post(p, [kind |-> "delta", id |-> i, n |-> sent[p][i] + 1])
    /\ UNCHANGED <<inbound, tpc, token, mustCancel, answers, ran, callVars, connVars>>
    /\ UNCHANGED <<cancelling, down, eof>>

StreamEnds(p, i) == \E k \in {"completed", "failed"} :
    /\ tpc[p][i] = "streaming" /\ ~mustCancel[p][i]
    /\ Written(p, i, Awaited(p, i))
    /\ Answer(p, i, k)
    /\ Post(p, Msg(k, i))
    /\ UNCHANGED <<inbound, token, mustCancel, sent, ran, callVars, connVars, cancelling, down, eof>>

\* The last send returns; the done-callback forgets the task.
TaskDone(p, i) ==
    /\ tpc[p][i] \in {"replying", "failing"} /\ ~mustCancel[p][i]
    /\ Written(p, i, Awaited(p, i))
    /\ tpc' = [tpc EXCEPT ![p][i] = "ended"]
    /\ inbound' = [inbound EXCEPT ![p] = @ \ {i}]
    /\ UNCHANGED <<token, mustCancel, sent, answers, ran, callVars, netVars, connVars>>

\* send() raised: the error is reported, and if that raises too it escapes.
TaskSendRaises(p, i) ==
    /\ down /\ tpc[p][i] \in {"streaming", "replying", "failing"}
    /\ tpc' = [tpc EXCEPT ![p][i] = IF @ = "failing" THEN "crashed" ELSE "failing"]
    /\ inbound' = IF tpc[p][i] = "failing" THEN [inbound EXCEPT ![p] = @ \ {i}] ELSE inbound
    /\ UNCHANGED <<token, mustCancel, sent, answers, ran, callVars, netVars, connVars>>

(* CancelledError is thrown at the await the task is suspended in.  In the  *)
(* try block it is answered by _send_cancelled_termination; in an except    *)
(* clause it escapes, and the task ends cancelled, which its done-callback  *)
(* ignores.  A frame whose thread has not started is withdrawn.             *)
Interrupt(p, i) == \E w \in SUBSET {f \in writing[p] : f.id = i /\ f.kind \in Awaited(p, i)} :
    LET k == ErrorKind(p, i, "cancelled")
        left == writing[p] \ w IN
    /\ mustCancel[p][i] /\ tpc[p][i] \in Live \ {"created"}
    /\ mustCancel' = [mustCancel EXCEPT ![p][i] = FALSE]
    /\ IF tpc[p][i] = "failing"
       THEN /\ tpc' = [tpc EXCEPT ![p][i] = "ended"]
            /\ inbound' = [inbound EXCEPT ![p] = @ \ {i}]
            /\ writing' = [writing EXCEPT ![p] = left]
            /\ UNCHANGED <<answers, wire>>
       ELSE /\ Answer(p, i, k)
            /\ writing' = [writing EXCEPT ![p] =
                 IF down \/ p \notin ThreadWriters THEN left ELSE left \cup {Msg(k, i)}]
            /\ wire' = IF down \/ p \in ThreadWriters THEN wire
                       ELSE [wire EXCEPT ![p] = Append(@, Msg(k, i))]
            /\ UNCHANGED inbound
    /\ UNCHANGED <<token, sent, ran, callVars, connVars, cancelling, down, eof>>

\* A handler, or its generator, catches the CancelledError and carries on.
Suppress(p, i) ==
    /\ MaySuppress
    /\ mustCancel[p][i] /\ tpc[p][i] \in {"running", "streaming"}
    /\ mustCancel' = [mustCancel EXCEPT ![p][i] = FALSE]
    /\ UNCHANGED <<inbound, tpc, token, sent, answers, ran, callVars, netVars, connVars>>

-----------------------------------------------------------------------------
CallerStep(p, i) == \/ SendDone(p, i) \/ SendRaises(p, i) \/ Return(p, i)
                    \/ Iterate(p, i) \/ NextItem(p, i)
WorkStep(p, i)   == HandlerReturns(p, i) \/ StreamEnds(p, i)
TaskStep(p, i)   == \/ Start(p, i) \/ TaskDone(p, i) \/ TaskSendRaises(p, i)
                    \/ Interrupt(p, i)
PeerStep(p)      == \/ WriteFrame(p) \/ Receive(p) \/ CancelTask(p) \/ Fail(p)
                    \/ StopDone(p) \/ Eof(p)

Next ==
    \/ \E p \in Peers :
         \/ \E m \in {"unary", "stream"} : Invoke(p, m)
         \/ PeerStep(p) \/ Stop(p) \/ Refuse(p)
         \/ \E i \in Ids : \/ CallerStep(p, i) \/ WorkStep(p, i) \/ TaskStep(p, i)
                           \/ NextChunk(p, i) \/ Suppress(p, i)
                           \/ Abandon(p, i) \/ CloseEarly(p, i) \/ Cancel(p, i)
    \/ LoseLink

Spec == Init /\ [][Next]_vars

(* What the event loop of an end, its writer threads and its transport do   *)
(* without being asked: run a ready coroutine, write a frame, notice the    *)
(* end of the connection.  Nothing obliges a caller to call, cancel or give *)
(* up, a link to break, or an owner to stop.                                *)
LoopStep(p) == \/ PeerStep(p)
               \/ unusable[p] /\ Stop(p)
               \/ \E i \in Ids : CallerStep(p, i) \/ TaskStep(p, i)

(* No step undoes another, so weak fairness of each end as a whole is       *)
(* enough.  In LoopSpec a handler may run for ever unless it is cancelled.  *)
LoopSpec == Spec /\ \A p \in Peers : WF_vars(LoopStep(p))

(* Every handler returns and every stream ends.                             *)
HandlersReturn == \A p \in Peers :
    WF_vars(LoopStep(p) \/ \E i \in Ids : WorkStep(p, i))

-----------------------------------------------------------------------------
(* Properties.                                                              *)

CallTypeOK ==
    /\ counter \in [Peers -> Nat]
    /\ mode \in [Peers -> [Ids -> {"unary", "stream"}]]
    /\ cpc \in [Peers -> [Ids -> {"idle", "sending", "waiting", "open", "iterating", "done"}]]
    /\ reply \in [Peers -> [Ids -> Replies]]
    /\ pending \in [Peers -> SUBSET Ids] /\ streams \in [Peers -> SUBSET Ids]
    /\ queue \in [Peers -> [Ids -> Seq(Item)]]
    /\ got \in [Peers -> [Ids -> Seq(0 .. Chunks)]]
    /\ asked \in [Peers -> [Ids -> Nat]] /\ late \in [Peers -> [Ids -> BOOLEAN]]

TaskTypeOK ==
    /\ inbound \in [Peers -> SUBSET Ids]
    /\ tpc \in [Peers -> [Ids -> {"none", "ended", "crashed"} \cup Live]]
    /\ token \in [Peers -> [Ids -> BOOLEAN]] /\ mustCancel \in [Peers -> [Ids -> BOOLEAN]]
    /\ sent \in [Peers -> [Ids -> 0 .. Chunks]]
    /\ answers \in [Peers -> [Ids -> SUBSET (ResultKinds \cup EventKinds)]]
    /\ ran \in [Peers -> [Ids -> Nat]]

NetTypeOK ==
    /\ wire \in [Peers -> Seq(Frame)] /\ writing \in [Peers -> SUBSET Frame]
    /\ cancelling \in [Peers -> {0} \cup Ids]
    /\ down \in BOOLEAN /\ eof \in [Peers -> BOOLEAN] /\ unusable \in [Peers -> BOOLEAN]
    /\ phase \in [Peers -> {"open", "stopping", "closed"}]

(* Every table, queue and frame of a connection has its type. *)
TypeOK == CallTypeOK /\ TaskTypeOK /\ NetTypeOK

HasEnding(q) == \E k \in DOMAIN q : q[k].kind \in Endings

Blocked(p, i) == \/ cpc[p][i] \in {"sending", "waiting"} /\ mode[p][i] = "unary"
                      /\ reply[p][i] = "pending"
                 \/ cpc[p][i] \in {"sending", "open", "iterating"}
                      /\ mode[p][i] = "stream" /\ ~HasEnding(queue[p][i])

(* A connection that has failed leaves nobody waiting: every unary caller's *)
(* future is resolved and every stream's queue holds something that ends    *)
(* its iterator, whatever was in flight when _fail_connection ran.          *)
FailureReleasesCallers ==
    \A p \in Peers : unusable[p] => \A i \in Ids : ~Blocked(p, i)

(* Replies are matched by request id across two id spaces that overlap: a   *)
(* call only ever returns an answer its own inbound task gave, never one of *)
(* the wrong mode, and a successful one only after the handler was entered  *)
(* exactly once.                                                            *)
RepliesMatch ==
    \A p \in Peers, i \in Ids :
        /\ reply[p][i] # "protocol"
        /\ reply[p][i] \in ResultKinds \cup {"completed", "failed"}
             => reply[p][i] \in answers[Other(p)][i]
        /\ reply[p][i] \in {"ok", "completed"} => ran[Other(p)][i] = 1

(* The deltas a consumer sees are those the producer sent, in order and     *)
(* without a gap, and a stream that completed has delivered all of them,    *)
(* also when frames leave through a thread pool and a cancel overtakes one. *)
StreamInOrder ==
    \A p \in Peers, i \in Ids :
        /\ \A k \in 1 .. Len(got[p][i]) : got[p][i][k] = k
        /\ reply[p][i] = "completed" => Len(got[p][i]) = sent[Other(p)][i]

Answering(f, i) == f.id = i /\ f.kind \in ResultKinds \cup {"completed", "failed"}

SilentEnd(p, i) ==
    /\ Blocked(p, i) /\ tpc[Other(p)][i] = "ended"
    /\ ~down /\ \A q \in Peers : phase[q] = "open" /\ ~unusable[q]
    /\ ~\E f \in writing[Other(p)] : Answering(f, i)
    /\ ~\E k \in DOMAIN wire[Other(p)] : Answering(wire[Other(p)][k], i)

(* On a live connection an inbound task that nobody cancelled never ends    *)
(* with its caller still waiting and no answer on the way.                  *)
NoSilentEnd == \A p \in Peers, i \in Ids : asked[p][i] = 0 => ~SilentEnd(p, i)

(* The same for cancelled calls: the protocol document has a CancelMessage  *)
(* answered by a cancelled result.                                          *)
CancelIsAnswered == \A p \in Peers, i \in Ids : ~SilentEnd(p, i)

(* A stream whose consumer has gone keeps its entry in _pending_streams     *)
(* only if its iterator was never started; and a consumer that left before  *)
(* the end has asked the other side to stop.                                *)
StreamsReclaimed ==
    \A p \in Peers, i \in Ids : cpc[p][i] = "done" /\ mode[p][i] = "stream" =>
        /\ i \in streams[p] => reply[p][i] = "dropped"
        /\ reply[p][i] \in {"closed", "lost", "protocol"} => asked[p][i] > 0

(* When handlers return, every call comes to an end, whether the link lives,*)
(* breaks, or either side fails or stops; calls apart that somebody has      *)
(* cancelled, and calls made once their own side had begun to stop.         *)
CallsEnd == HandlersReturn =>
    \A p \in Peers, i \in Ids :
        cpc[p][i] \in {"sending", "waiting", "iterating"}
            ~> \/ cpc[p][i] = "done" \/ asked[p][i] > 0 \/ late[p][i]

(* A handler that would run for ever is ended by a consumer that leaves the *)
(* stream early, and by the end of stop() on its side, whoever called it.   *)
AbandonedWorkEnds ==
    \A p \in Peers, i \in Ids :
        /\ reply[p][i] = "closed" ~> tpc[Other(p)][i] \notin Live
        /\ phase[p] = "closed" ~> tpc[p][i] \notin Live
=============================================================================
