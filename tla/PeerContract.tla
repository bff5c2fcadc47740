---------------------------- MODULE PeerContract ----------------------------
(* A pair of peers implements RpcContract. *)
EXTENDS Peer

\* The status, executions and result of each call, as its caller sees them.
Contract == INSTANCE RpcContract WITH
    Calls     <- Peers \X Ids,
    Results   <- Replies,
    Successes <- {"ok", "completed"},
    status    <- [c \in Peers \X Ids |->
                    CASE cpc[c[1]][c[2]] = "idle" -> "idle"
                      [] cpc[c[1]][c[2]] = "done" -> "settled"
                      [] OTHER                    -> "active"],
    runs      <- [c \in Peers \X Ids |-> ran[Other(c[1])][c[2]]],
    result    <- [c \in Peers \X Ids |->
                    IF cpc[c[1]][c[2]] = "done" THEN reply[c[1]][c[2]] ELSE "none"]

(* Two peers keep the contract: each handler entered at most once and only  *)
(* for a call that was made, and each call ended once and for good, through *)
(* duplicate answers, late events, cancels, failures and stops.             *)
ImplementsContract == Contract!ContractSpec
=============================================================================
