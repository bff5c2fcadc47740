------------------------------ MODULE PeerStop ------------------------------
(* Peer.stop(), which is called by the tasks that own the peer and by the     *)
(* task that _schedule_stop() creates when the connection fails, while the    *)
(* transport is stopped in several steps.                                     *)

CONSTANTS
    Owners,     \* tasks that call stop()
    Scheduled,  \* the task that _schedule_stop() creates
    NoTask

StopTasks == Owners \cup {Scheduled}

ASSUME PeerStopAssumption == Scheduled \notin Owners /\ NoTask \notin StopTasks

VARIABLES
    calls,      \* where each task stands
    waitsFor,   \* the task a stop() awaits with shield()
    stopping,   \* _stopping
    stopTask,   \* _stop_task
    unusable,   \* _unusable
    peerClosed, \* _closed of the peer
    cable,      \* the transport: "up", "ended" (its reader saw the end) or "stopped"
    early       \* an owner's stop() returned before the transport was stopped

stopVars == <<calls, waitsFor, stopping, stopTask, unusable, peerClosed, cable, early>>

(* none: a task that is not there yet; over: one that has ended.              *)
Places == {"none", "ready", "stopping", "waiting", "over"}

PeerStopTypeOK ==
    /\ calls \in [StopTasks -> Places] /\ waitsFor \in [StopTasks -> StopTasks \cup {NoTask}]
    /\ stopping \in BOOLEAN /\ unusable \in BOOLEAN /\ peerClosed \in BOOLEAN
    /\ stopTask \in StopTasks \cup {NoTask}
    /\ cable \in {"up", "ended", "stopped"} /\ early \in BOOLEAN

PeerStopInit ==
    /\ calls = [t \in StopTasks |-> IF t = Scheduled THEN "none" ELSE "ready"]
    /\ waitsFor = [t \in StopTasks |-> NoTask]
    /\ stopping = FALSE /\ stopTask = NoTask
    /\ unusable = FALSE /\ peerClosed = FALSE
    /\ cable = "up" /\ early = FALSE

-----------------------------------------------------------------------------
Returns(t) ==
    /\ calls' = [calls EXCEPT ![t] = "over"]
    /\ waitsFor' = [waitsFor EXCEPT ![t] = NoTask]
    /\ early' = (early \/ (t \in Owners /\ cable # "stopped"))

\* Mutant: the task in _stop_task is awaited, whichever it is.
RejoinsAny(t) ==
    IF stopTask # NoTask /\ calls[stopTask] # "over"
    THEN /\ calls' = [calls EXCEPT ![t] = "waiting"]
         /\ waitsFor' = [waitsFor EXCEPT ![t] = stopTask] /\ UNCHANGED early
    ELSE Returns(t)

(* A stop() that finds another one at work waits for the task in _stop_task,  *)
(* unless that is its own.                                                    *)
Rejoins(t) ==
    IF stopTask \notin {NoTask, t} /\ calls[stopTask] # "over"
    THEN /\ calls' = [calls EXCEPT ![t] = "waiting"]
         /\ waitsFor' = [waitsFor EXCEPT ![t] = stopTask] /\ UNCHANGED early
    ELSE Returns(t)

(* The start of stop(), up to where it awaits the transport's.                *)
CallStop(t) ==
    /\ calls[t] = "ready"
    /\ IF peerClosed THEN Returns(t) /\ UNCHANGED <<stopping, stopTask>>
       ELSE IF stopping THEN Rejoins(t) /\ UNCHANGED <<stopping, stopTask>>
       ELSE /\ calls' = [calls EXCEPT ![t] = "stopping"] /\ stopping' = TRUE
            /\ stopTask' = IF stopTask = NoTask THEN t ELSE stopTask
            /\ UNCHANGED <<waitsFor, early>>
    /\ UNCHANGED <<unusable, peerClosed, cable>>

(* The reader task is cancelled and awaited, a process terminated.            *)
CableStops(t) ==
    /\ calls[t] = "stopping" /\ cable # "stopped"
    /\ cable' = "stopped"
    /\ UNCHANGED <<calls, waitsFor, stopping, stopTask, unusable, peerClosed, early>>

StopEnds(t) ==
    /\ calls[t] = "stopping" /\ cable = "stopped"
    /\ peerClosed' = TRUE
    /\ stopTask' = IF stopTask = t THEN NoTask ELSE stopTask
    /\ Returns(t)
    /\ UNCHANGED <<stopping, unusable, cable>>

(* The task a stop() waits for is over.                                       *)
WaitEnds(t) ==
    /\ calls[t] = "waiting" /\ calls[waitsFor[t]] = "over"
    /\ Returns(t)
    /\ UNCHANGED <<stopping, stopTask, unusable, peerClosed, cable>>

-----------------------------------------------------------------------------
(* _schedule_stop                                                             *)
ScheduleStop ==
    IF peerClosed \/ (stopTask # NoTask /\ calls[stopTask] # "over")
    THEN UNCHANGED <<calls, stopTask>>
    ELSE calls' = [calls EXCEPT ![Scheduled] = "ready"] /\ stopTask' = Scheduled

\* Mutant: the connection is marked and nobody stops it.
FailsOnly ==
    /\ unusable' = TRUE
    /\ UNCHANGED <<calls, waitsFor, stopping, stopTask, peerClosed, early>>

(* _fail_connection; what it does to the calls is in module Peer.             *)
Fails ==
    /\ unusable' = TRUE /\ ScheduleStop
    /\ UNCHANGED <<waitsFor, stopping, peerClosed, early>>

(* A frame that cannot be handled, or an answer that cannot be sent.          *)
FrameFails == ~unusable /\ cable = "up" /\ Fails /\ UNCHANGED cable

(* The other end is gone.                                                     *)
CableEnds ==
    /\ cable = "up" /\ cable' = "ended"
    /\ UNCHANGED <<calls, waitsFor, stopping, stopTask, unusable, peerClosed, early>>

(* _watch_transport_closed: unless stop() has been called, the connection is  *)
(* failed.                                                                    *)
EndWatched ==
    /\ cable = "ended" /\ ~unusable /\ ~peerClosed /\ ~stopping
    /\ Fails /\ UNCHANGED cable

PeerStopNext ==
    \/ FrameFails \/ CableEnds \/ EndWatched
    \/ \E t \in StopTasks : CallStop(t) \/ CableStops(t) \/ StopEnds(t) \/ WaitEnds(t)

(* The event loop runs every task that can go on; an owner need not call.     *)
PeerStopStep ==
    \/ EndWatched \/ CallStop(Scheduled)
    \/ \E t \in StopTasks : CableStops(t) \/ StopEnds(t) \/ WaitEnds(t)
PeerStopSpec == PeerStopInit /\ [][PeerStopNext]_stopVars
PeerStopFairSpec == PeerStopSpec /\ WF_stopVars(PeerStopStep)

-----------------------------------------------------------------------------
(* A connection that failed or ended is closed in the end, whoever calls      *)
(* stop() meanwhile, and no stop() waits for ever.                            *)
FailedIsClosed ==
    <>[](/\ unusable \/ cable = "ended" => peerClosed
         /\ \A t \in StopTasks : calls[t] # "waiting")

(* The tables are cleared and the transport is stopped by one task only; from *)
(* the failure of a connection or the first stop() on there is one that is    *)
(* still to do so, or it is done; and whoever waits for another task waits    *)
(* for one that goes on by itself, so that no two wait for each other and     *)
(* none for itself.                                                           *)
StopIsUnderWay ==
    /\ \A t, u \in StopTasks : calls[t] = "stopping" /\ calls[u] = "stopping" => t = u
    /\ stopping => peerClosed \/ \E t \in StopTasks : calls[t] = "stopping"
    /\ unusable => stopping \/ calls[Scheduled] = "ready"
    /\ \A t \in StopTasks : calls[t] = "waiting" =>
          \/ waitsFor[t] = Scheduled /\ calls[Scheduled] = "ready"
          \/ waitsFor[t] \in StopTasks /\ calls[waitsFor[t]] \in {"stopping", "over"}

(* "Prevent concurrent re-entry: if stop() is running in another coroutine,   *)
(* wait for it": a stop() that returned has found the transport stopped.  Not  *)
(* so when _stop_task names the scheduled task and that has returned already. *)
ReturnsWhenStopped == ~early
=============================================================================
