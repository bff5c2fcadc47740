------------------------------ MODULE MCRelay ------------------------------
(* Small instances of Relay: who asks whom. *)
EXTENDS RelayContract, TLC

CONSTANTS a, b

Two == {a, b}
AsksOf(core, ofA, ofB) == [o \in {Core, a, b} |->
    IF o = Core THEN core ELSE IF o = a THEN ofA ELSE ofB]

CoreAsksBoth == AsksOf({a, b}, {}, {})
Chain        == AsksOf({a}, {b}, {})
BothAskB     == AsksOf({b}, {b}, {})
CoreAsksA    == AsksOf({a}, {}, {})
=============================================================================
