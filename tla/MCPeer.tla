------------------------------- MODULE MCPeer -------------------------------
(* Small instances of Peer: who calls, and how often. *)
EXTENDS PeerContract

Calling(supervisor, worker) ==
    [p \in Peers |-> IF p = "supervisor" THEN supervisor ELSE worker]

OneDown   == Calling(1, 0)
OneUp     == Calling(0, 1)
TwoAndOne == Calling(2, 1)
=============================================================================
