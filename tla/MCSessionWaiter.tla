--------------------------- MODULE MCSessionWaiter ---------------------------
(* Small instances of SessionWaiter. *)
EXTENDS SessionWaiter, TLC

CONSTANTS a, b, c, m, n, f, l1, l2, l3, l4, l5, l6
=============================================================================
