-------------------------------- MODULE Limiter --------------------------------
(* LimiterEngine: the sliding windows of rate limits and cooldowns.  The      *)
(* deque of a key is what is left of the log of its admitted calls when those *)
(* that popleft() has taken are left out.                                     *)
EXTENDS Integers, Sequences

CONSTANTS
    LimitKeys,    \* keys _make_key gives for scopes, users, sessions and groups
    RateLimit,    \* limit; 1 for a cooldown
    Window,       \* window, in ticks of the clock
    MaxNow,       \* bound on the monotonic clock
    MaxAdmitted   \* bound on the calls admitted for a key

ASSUME LimiterAssumption ==
    RateLimit \in Nat \ {0} /\ Window \in Nat \ {0} /\ MaxNow \in Nat /\ MaxAdmitted \in Nat

VARIABLES
    now,        \* what the clock shows
    admitted,   \* when each admitted call of a key was evaluated
    popped,     \* how many of them have left the deque
    decided     \* the last LimiterDecision of a key at this very moment

limiterVars == <<now, admitted, popped, decided>>

LimiterTypeOK ==
    /\ now \in 0..MaxNow
    /\ admitted \in [LimitKeys -> Seq(0..MaxNow)]
    /\ popped \in [LimitKeys -> Nat]
    /\ \A k \in LimitKeys : popped[k] <= Len(admitted[k])
    /\ decided \in [LimitKeys -> {"none", "allowed", "refused"}]

LimiterInit ==
    /\ now = 0
    /\ admitted = [k \in LimitKeys |-> <<>>]
    /\ popped = [k \in LimitKeys |-> 0]
    /\ decided = [k \in LimitKeys |-> "none"]

-----------------------------------------------------------------------------
Bucket(k) == popped[k] + 1 .. Len(admitted[k])

\* Mutant: a call exactly one window old stays in the deque.
ExpiredLate(k, i) == admitted[k][i] < now - Window

Expired(k, i) == admitted[k][i] <= now - Window

(* popleft() while the oldest in the deque has expired: n is how many are     *)
(* gone in the end.                                                           *)
Popped(k, n) ==
    /\ n \in popped[k] .. Len(admitted[k])
    /\ \A i \in popped[k] + 1 .. n : Expired(k, i)
    /\ n < Len(admitted[k]) => ~Expired(k, n + 1)

(* evaluate(): both ways the expired calls leave the deque.                   *)
Evaluate(k) ==
    \E n \in popped[k] .. Len(admitted[k]) :
        /\ Popped(k, n)
        /\ popped' = [popped EXCEPT ![k] = n]
        /\ \/ /\ Len(admitted[k]) - n < RateLimit
              /\ Len(admitted[k]) < MaxAdmitted
              /\ admitted' = [admitted EXCEPT ![k] = Append(@, now)]
              /\ decided' = [decided EXCEPT ![k] = "allowed"]
           \/ /\ Len(admitted[k]) - n >= RateLimit
              /\ decided' = [decided EXCEPT ![k] = "refused"]
              /\ UNCHANGED admitted
        /\ UNCHANGED now

Tick ==
    /\ \E t \in now + 1 .. MaxNow : now' = t
    /\ decided' = [k \in LimitKeys |-> "none"]
    /\ UNCHANGED <<admitted, popped>>

LimiterNext == Tick \/ \E k \in LimitKeys : Evaluate(k)

LimiterSpec == LimiterInit /\ [][LimiterNext]_limiterVars

-----------------------------------------------------------------------------
(* No window, wherever it is put, holds more than RateLimit admitted calls of *)
(* a key: of any RateLimit + 1 in a row the last comes a whole window after   *)
(* the first.                                                                 *)
RateKept ==
    \A k \in LimitKeys : \A i \in 1..Len(admitted[k]) :
        i + RateLimit <= Len(admitted[k]) =>
            admitted[k][i + RateLimit] - admitted[k][i] >= Window

(* A call is refused only when RateLimit calls were admitted within the last  *)
(* window: the limiter never holds back more than it has to.                  *)
RefusedWithReason ==
    \A k \in LimitKeys : decided[k] = "refused" =>
        \E i \in 1..Len(admitted[k]) :
            i + RateLimit = Len(admitted[k]) + 1 /\ now - admitted[k][i] < Window

(* The limiter admits what its window allows, no more and no less.            *)
LimitKept == RateKept /\ RefusedWithReason
=============================================================================
