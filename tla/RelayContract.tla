---------------------------- MODULE RelayContract ----------------------------
(* A call that the supervisor relays keeps the contract of a direct one, as   *)
(* long as the ids of several callers do not meet in one worker.              *)
EXTENDS Relay

\* The status, executions and result of each call, as its caller sees them.
Contract == INSTANCE RpcContract WITH
    Results   <- Answers \cup {"lost"},
    Successes <- {"ok"},
    status    <- [c \in Calls |-> CASE caller[c] = "idle"    -> "idle"
                                    [] caller[c] = "waiting" -> "active"
                                    [] OTHER                 -> "settled"],
    runs      <- [c \in Calls |-> IF work[c] = "none" THEN 0 ELSE 1]

(* Two connections and the relay between them keep the contract of one: a     *)
(* handler is entered at most once and only for a call that was made, "ok"    *)
(* means that it was entered, and a call ends once and for good, through      *)
(* cancels, frames that overtake each other and the deaths of workers.        *)
RelayImplementsContract == Contract!ContractSpec

Tells(frames, i, kinds) ==
    \E n \in DOMAIN frames : frames[n].id = i /\ frames[n].kind \in kinds

(* The worker that serves call i of the core has the request, works on it or  *)
(* has answered it, or its end is yet to be noticed.                          *)
Attended(i) == LET c == <<Core, i>>  w == target[c] IN
    \/ link[w] = "up" /\ (Tells(down[w], i, {"invoke"}) \/ work[c] = "running")
    \/ ~failed[w] /\ (link[w] # "up" \/ Tells(up[w], i, Answers))

(* While the supervisor's connection to the core stands, a call of the core   *)
(* that waits is on its way to an answer: no cancel, no death of a worker and *)
(* no order in which the watchers of its pipe run leaves it behind.           *)
NoCallForgotten ==
    upFailed \/ \A i \in Ids : LET c == <<Core, i>> IN
        caller[c] = "waiting" =>
            \/ Tells(up[Core], i, {"invoke"}) \/ Tells(down[Core], i, Answers)
            \/ relay[c] = "created"
            \/ relay[c] = "waiting" /\ (mustCancel[c] \/ future[c] # "pending" \/ Attended(i))

(* A cancel that the core sent for a call that is being executed has reached  *)
(* the worker's task or is on its way to it: the supervisor that reads it     *)
(* always knows the worker, and it never overtakes the request.               *)
NoCancelForgotten ==
    upFailed \/ \A i \in Ids : LET c == <<Core, i>> IN
        asked[c] /\ work[c] = "running" =>
            \/ workCancel[c]
            \/ Tells(up[Core], i, {"cancel"}) \/ Tells(down[target[c]], i, {"cancel"})

NothingForgotten == NoCallForgotten /\ NoCancelForgotten
=============================================================================
