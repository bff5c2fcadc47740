----------------------------- MODULE RpcContract -----------------------------
(***************************************************************************)
(* What one end of a connection may rely on when it makes a call, whatever *)
(* the messages, tasks and cancellations behind it: the handler is entered *)
(* at most once and only for a call that was made, a successful result     *)
(* means that it was entered, and a call that has ended has ended once,    *)
(* with a result that no late message changes.                             *)
(***************************************************************************)
EXTENDS Naturals

CONSTANTS
    Calls,      \* the calls that may be made
    Results,    \* how a call may end
    Successes   \* the results that say the handler ran

VARIABLES status, runs, result

contractVars == <<status, runs, result>>

ContractInit ==
    /\ status = [c \in Calls |-> "idle"]
    /\ runs = [c \in Calls |-> 0]
    /\ result = [c \in Calls |-> "none"]

Request(c) ==
    /\ status[c] = "idle"
    /\ status' = [status EXCEPT ![c] = "active"]
    /\ UNCHANGED <<runs, result>>

Execute(c) ==
    /\ status[c] # "idle" /\ runs[c] = 0
    /\ runs' = [runs EXCEPT ![c] = 1]
    /\ UNCHANGED <<status, result>>

Settle(c, r) ==
    /\ status[c] = "active"
    /\ r \in Successes => runs[c] = 1
    /\ status' = [status EXCEPT ![c] = "settled"]
    /\ result' = [result EXCEPT ![c] = r]
    /\ UNCHANGED runs

Active == {c \in Calls : status[c] = "active"}

\* A connection that ends takes calls with it that waited on it.
Disconnect(lost, r) ==
    /\ lost # {} /\ lost \subseteq Active
    /\ status' = [c \in Calls |-> IF c \in lost THEN "settled" ELSE status[c]]
    /\ result' = [c \in Calls |-> IF c \in lost THEN r ELSE result[c]]
    /\ UNCHANGED runs

ContractNext ==
    \/ \E c \in Calls : Request(c) \/ Execute(c) \/ \E r \in Results : Settle(c, r)
    \/ \E lost \in SUBSET Active, r \in Results \ Successes : Disconnect(lost, r)

ContractSpec == ContractInit /\ [][ContractNext]_contractVars
=============================================================================
