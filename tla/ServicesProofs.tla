---------------------------- MODULE ServicesProofs ----------------------------
(* What is proved of the components that share no state with the connection:  *)
(* the rate limiter, the conversations of a session, the conversation store,  *)
(* the waiters of a session, for every value of their constants and any       *)
(* sequence of calls.                                                         *)
EXTENDS Limiter, Dialogues, Conversations, SessionWaiter, SelectionProofs,
        WellFoundedInduction

-----------------------------------------------------------------------------
(* Limiter, for every limit, window and number of keys: its types, and that   *)
(* it admits exactly what its window allows.                                  *)

(* What has left the deque of a key is a window old, and what is in it is     *)
(* within the limit.                                                          *)
GoneIsOld == \A k \in LimitKeys : \A i \in 1..popped[k] : admitted[k][i] <= now - Window
WithinLimit == \A k \in LimitKeys : Len(admitted[k]) - popped[k] <= RateLimit

LimiterInv ==
    /\ LimiterTypeOK
    /\ GoneIsOld
    /\ WithinLimit
    /\ RateKept
    /\ RefusedWithReason

(* A limit and a window are at least one.                                     *)
LEMMA LimitAtLeastOne ==
    RateLimit \in Nat /\ RateLimit >= 1 /\ Window \in Nat /\ Window >= 1 /\ MaxNow \in Nat
BY LimiterAssumption

(* Nothing is admitted, popped or refused at first.                           *)
LEMMA InitEstablishes == LimiterInit => LimiterInv
<1> SUFFICES ASSUME LimiterInit PROVE LimiterInv
    OBVIOUS
<1>1. \A k \in LimitKeys : Len(admitted[k]) = 0
    BY DEF LimiterInit
<1>2. LimiterTypeOK
    BY <1>1, LimitAtLeastOne DEF LimiterTypeOK, LimiterInit
<1>3. GoneIsOld /\ WithinLimit
    BY <1>1, LimitAtLeastOne DEF GoneIsOld, WithinLimit, LimiterInit
<1>4. RateKept /\ RefusedWithReason
    BY <1>1 DEF RateKept, RefusedWithReason, LimiterInit
<1> QED
    BY <1>2, <1>3, <1>4 DEF LimiterInv

(* Time makes what has left the deque older still.                            *)
LEMMA TickPreserves == LimiterInv /\ Tick => LimiterInv'
<1> SUFFICES ASSUME LimiterInv, Tick PROVE LimiterInv'
    OBVIOUS
<1> USE DEF LimiterInv
<1>1. now' \in 0..MaxNow /\ now < now' /\ now \in 0..MaxNow
    BY DEF Tick, LimiterTypeOK
<1>2. LimiterTypeOK'
    BY <1>1 DEF LimiterTypeOK, Tick
<1>3. GoneIsOld'
    BY <1>1, LimitAtLeastOne DEF GoneIsOld, LimiterTypeOK, Tick
<1>4. WithinLimit' /\ RateKept'
    BY DEF WithinLimit, RateKept, Tick
<1>5. RefusedWithReason'
    BY DEF RefusedWithReason, Tick
<1> QED
    BY <1>2, <1>3, <1>4, <1>5

(* A call leaves the log of other keys alone.  The calls it pops are a window *)
(* old; when it is admitted, the call RateLimit places before it is one of    *)
(* those, and when it is refused, nothing could be popped.                    *)
LEMMA EvaluatePreserves ==
    ASSUME NEW k \in LimitKeys, LimiterInv, Evaluate(k)
    PROVE  LimiterInv'
<1> USE DEF LimiterInv
<1> DEFINE L == Len(admitted[k])
<1>0. /\ now \in 0..MaxNow /\ now' = now
      /\ admitted[k] \in Seq(0..MaxNow) /\ L \in Nat
      /\ popped[k] \in Nat /\ popped[k] <= L
    BY DEF LimiterTypeOK, Evaluate
<1>1. PICK n \in popped[k] .. L :
        /\ Popped(k, n)
        /\ popped' = [popped EXCEPT ![k] = n]
        /\ \/ /\ L - n < RateLimit
              /\ admitted' = [admitted EXCEPT ![k] = Append(@, now)]
              /\ decided' = [decided EXCEPT ![k] = "allowed"]
           \/ /\ L - n >= RateLimit
              /\ decided' = [decided EXCEPT ![k] = "refused"]
              /\ UNCHANGED admitted
    BY DEF Evaluate
<1>2. \A i \in 1..n : admitted[k][i] <= now - Window
    BY <1>0, <1>1 DEF GoneIsOld, Popped, Expired
<1>7. popped'[k] = n
    BY <1>1 DEF LimiterTypeOK
<1>3. n \in Nat /\ n <= L
    BY <1>0, <1>1
<1>4. \A h \in LimitKeys \ {k} :
        admitted'[h] = admitted[h] /\ popped'[h] = popped[h] /\ decided'[h] = decided[h]
    BY <1>1 DEF LimiterTypeOK
<1>5. CASE /\ L - n < RateLimit
           /\ admitted' = [admitted EXCEPT ![k] = Append(@, now)]
           /\ decided' = [decided EXCEPT ![k] = "allowed"]
    <2>1. /\ admitted'[k] = Append(admitted[k], now) /\ Len(admitted'[k]) = L + 1
          /\ \A i \in 1..L : admitted'[k][i] = admitted[k][i]
          /\ admitted'[k][L + 1] = now
        BY <1>0, <1>5 DEF LimiterTypeOK
    <2>2. admitted'[k] \in Seq(0..MaxNow)
        BY <1>0, <2>1
    <2>3. LimiterTypeOK'
        BY <1>0, <1>1, <1>3, <1>5, <2>1, <2>2 DEF LimiterTypeOK
    <2>4. GoneIsOld'
        <3> SUFFICES ASSUME NEW h \in LimitKeys, NEW i \in 1..popped'[h]
                     PROVE admitted'[h][i] <= now' - Window
            BY DEF GoneIsOld
        <3>1. CASE h = k
            <4>1. i \in 1..n /\ i \in 1..L
                BY <1>3, <1>7, <3>1
            <4> QED
                BY <1>0, <1>2, <2>1, <3>1, <4>1
        <3>2. CASE h # k
            BY <1>0, <1>4, <3>2 DEF GoneIsOld
        <3> QED BY <3>1, <3>2
    <2>5. WithinLimit'
        <3> SUFFICES ASSUME NEW h \in LimitKeys
                     PROVE Len(admitted'[h]) - popped'[h] <= RateLimit
            BY DEF WithinLimit
        <3>1. CASE h = k
            BY <1>3, <1>5, <1>7, <2>1, <3>1, LimitAtLeastOne
        <3>2. CASE h # k
            BY <1>4, <3>2 DEF WithinLimit
        <3> QED BY <3>1, <3>2
    <2>6. RateKept'
        <3> SUFFICES ASSUME NEW h \in LimitKeys, NEW i \in 1..Len(admitted'[h]),
                            i + RateLimit <= Len(admitted'[h])
                     PROVE admitted'[h][i + RateLimit] - admitted'[h][i] >= Window
            BY DEF RateKept
        <3>1. CASE h # k
            BY <1>4, <3>1 DEF RateKept
        <3>2. CASE h = k /\ i + RateLimit <= L
            <4>1. i \in 1..L /\ i + RateLimit \in 1..L
                BY <1>3, <2>1, <3>2, LimitAtLeastOne
            <4> QED
                BY <2>1, <3>2, <4>1 DEF RateKept
        <3>3. CASE h = k /\ i + RateLimit = L + 1
            <4>1. i \in 1..n /\ i \in 1..L
                BY <1>3, <1>5, <2>1, <3>3, LimitAtLeastOne
            <4>2. admitted[k][i] \in Int /\ now \in Int
                BY <1>0, <4>1, LimitAtLeastOne
            <4>3. admitted'[h][i + RateLimit] = now /\ admitted'[h][i] = admitted[k][i]
                BY <2>1, <3>3, <4>1
            <4> QED
                BY <1>2, <4>1, <4>2, <4>3, LimitAtLeastOne
        <3>4. CASE h = k
            <4>1. i \in Nat /\ i + RateLimit <= L + 1
                BY <2>1, <3>4
            <4>2. i + RateLimit <= L \/ i + RateLimit = L + 1
                BY <1>3, <4>1, LimitAtLeastOne
            <4> QED
                BY <3>2, <3>3, <3>4, <4>2
        <3> QED
            BY <3>1, <3>4
    <2>7. RefusedWithReason'
        <3> SUFFICES ASSUME NEW h \in LimitKeys, decided'[h] = "refused"
                     PROVE \E i \in 1..Len(admitted'[h]) :
                             /\ i + RateLimit = Len(admitted'[h]) + 1
                             /\ now' - admitted'[h][i] < Window
            BY DEF RefusedWithReason
        <3>1. h # k
            BY <1>5 DEF LimiterTypeOK
        <3> QED
            BY <1>0, <1>4, <3>1 DEF RefusedWithReason
    <2> QED
        BY <2>3, <2>4, <2>5, <2>6, <2>7
<1>6. CASE /\ L - n >= RateLimit
           /\ decided' = [decided EXCEPT ![k] = "refused"]
           /\ UNCHANGED admitted
    <2>1. LimiterTypeOK'
        BY <1>0, <1>1, <1>3, <1>6 DEF LimiterTypeOK
    <2>2. GoneIsOld'
        <3> SUFFICES ASSUME NEW h \in LimitKeys, NEW i \in 1..popped'[h]
                     PROVE admitted'[h][i] <= now' - Window
            BY DEF GoneIsOld
        <3>1. CASE h = k
            BY <1>0, <1>2, <1>6, <1>7, <3>1
        <3>2. CASE h # k
            BY <1>0, <1>4, <3>2 DEF GoneIsOld
        <3> QED BY <3>1, <3>2
    <2>3. n = popped[k] /\ L - n = RateLimit
        <3>1. L - popped[k] <= RateLimit
            BY DEF WithinLimit
        <3>2. popped[k] \in Nat /\ popped[k] <= n
            BY <1>0, <1>1
        <3>3. RateLimit \in Nat /\ L \in Nat /\ L - n >= RateLimit
            BY <1>0, <1>6, LimitAtLeastOne
        <3> HIDE DEF L
        <3> QED
            BY <1>3, <3>1, <3>2, <3>3
    <2>4. WithinLimit' /\ RateKept'
        BY <1>4, <1>6, <1>7, <2>3 DEF WithinLimit, RateKept
    <2>5. n + 1 \in 1..L /\ n + 1 + RateLimit = L + 1 /\ ~Expired(k, n + 1)
        <3>1. n + 1 \in 1..L /\ n < L /\ n + 1 + RateLimit = L + 1
            <4>1. n = popped[k] /\ n + RateLimit = L
                BY <1>0, <1>3, <2>3, LimitAtLeastOne
            <4> QED
                BY <1>3, <4>1, LimitAtLeastOne
        <3>2. Popped(k, n)
            BY <1>1
        <3> QED
            BY <3>1, <3>2 DEF Popped
    <2>6. now - admitted[k][n + 1] < Window
        <3>1. admitted[k][n + 1] \in Int
            BY <1>0, <2>5, LimitAtLeastOne
        <3> QED
            BY <1>0, <2>5, <3>1, LimitAtLeastOne DEF Expired
    <2>7. RefusedWithReason'
        BY <1>0, <1>4, <1>6, <2>5, <2>6 DEF RefusedWithReason
    <2> QED
        BY <2>1, <2>2, <2>4, <2>7
<1> QED
    BY <1>1, <1>5, <1>6

LEMMA NextPreserves == LimiterInv /\ [LimiterNext]_limiterVars => LimiterInv'
<1> SUFFICES ASSUME LimiterInv, [LimiterNext]_limiterVars PROVE LimiterInv'
    OBVIOUS
<1>1. CASE Tick
    BY <1>1, TickPreserves
<1>2. ASSUME NEW k \in LimitKeys, Evaluate(k) PROVE LimiterInv'
    BY <1>2, EvaluatePreserves
<1>3. CASE UNCHANGED limiterVars
    BY <1>3 DEF limiterVars, LimiterInv, LimiterTypeOK, GoneIsOld, WithinLimit,
                RateKept, RefusedWithReason
<1> QED
    BY <1>1, <1>2, <1>3 DEF LimiterNext

LEMMA InvariantHolds == LimiterSpec => []LimiterInv
<1> QED
    BY InitEstablishes, NextPreserves, PTL DEF LimiterSpec

(* evaluate() keeps the types of the windows whatever is called when.         *)
THEOREM LimiterTyped == LimiterSpec => []LimiterTypeOK
<1>1. LimiterInv => LimiterTypeOK
    BY DEF LimiterInv
<1> QED
    BY <1>1, InvariantHolds, PTL

(* No window of any length holds more admitted calls of a key than its limit, *)
(* and a call is refused only when the window before it is full.              *)
THEOREM LimiterExact == LimiterSpec => []LimitKept
<1>1. LimiterInv => LimitKept
    BY DEF LimiterInv, LimitKept
<1> QED
    BY <1>1, InvariantHolds, PTL

-----------------------------------------------------------------------------
(* The waiters of a session.                                                  *)

(* The queues q of the locks when the tasks stand at p: a task that owns or   *)
(* awaits a lock is in one queue, once; one that runs a handler is its head.  *)
Holding == {"removing", "leaving", "locking", "handling"}
Positions == WaiterPC \cup FollowUpPC \cup FailurePC

Once(s) == \A i, j \in DOMAIN s : s[i] = s[j] => i = j
Among(t, s) == \E i \in DOMAIN s : s[i] = t
Heads(t, s) == s # <<>> /\ s[1] = t

QueuesApart(q) ==
    \A l, k \in Locks : \A t \in Tasks : Among(t, q[l]) /\ Among(t, q[k]) => l = k

QueuesKept(q, p) ==
    /\ q \in [Locks -> Seq(Tasks)] /\ p \in [Tasks -> Positions]
    /\ \A l \in Locks : Once(q[l])
    /\ QueuesApart(q)
    /\ \A t \in Tasks : (\E l \in Locks : Among(t, q[l])) <=> p[t] \in Holding
    /\ \A t \in Tasks : p[t] = "handling" => \E l \in Locks : Heads(t, q[l])

(* There are more locks than tasks, so one is always free.                    *)
LEMMA SomeLockIsFree ==
    ASSUME NEW q, NEW p, QueuesKept(q, p)
    PROVE  \E l \in Locks : q[l] = <<>>
<1> SUFFICES ASSUME \A l \in Locks : q[l] # <<>> PROVE FALSE
    OBVIOUS
<1>1. \A l \in Locks : q[l] \in Seq(Tasks) /\ 1 \in DOMAIN q[l] /\ q[l][1] \in Tasks
    <2> SUFFICES ASSUME NEW l \in Locks
                 PROVE  q[l] \in Seq(Tasks) /\ 1 \in DOMAIN q[l] /\ q[l][1] \in Tasks
        OBVIOUS
    <2>1. q[l] \in Seq(Tasks) /\ q[l] # <<>>
        BY DEF QueuesKept
    <2> QED
        BY <2>1
<1>2. PICK first \in [Locks -> Tasks] : \A l \in Locks : first[l] = q[l][1]
    <2>1. [l \in Locks |-> q[l][1]] \in [Locks -> Tasks]
        BY <1>1
    <2> QED
        BY <2>1
<1>3. IsFiniteSet(Tasks) /\ IsFiniteSet(Locks) /\ Cardinality(Tasks) < Cardinality(Locks)
    <2>1. /\ IsFiniteSet(Tasks) /\ IsFiniteSet(Locks)
          /\ Cardinality(Locks) > Cardinality(Tasks)
        BY WaiterAssumption
    <2>2. Cardinality(Tasks) \in Nat /\ Cardinality(Locks) \in Nat
        BY <2>1, FS_CardinalityType
    <2> QED
        BY <2>1, <2>2
<1>4. PICK l, k \in Locks : l # k /\ first[l] = first[k]
    BY <1>2, <1>3, FS_PigeonHole
<1>5. Among(first[l], q[l]) /\ Among(first[l], q[k]) /\ first[l] \in Tasks
    BY <1>1, <1>2, <1>4 DEF Among
<1> QED
    BY <1>4, <1>5 DEF QueuesKept, QueuesApart

LEMMA AppendedAmong ==
    ASSUME NEW s \in Seq(Tasks), NEW t \in Tasks
    PROVE  /\ Append(s, t) \in Seq(Tasks)
           /\ \A u : Among(u, Append(s, t)) <=> Among(u, s) \/ u = t
           /\ Once(s) /\ ~Among(t, s) => Once(Append(s, t))
           /\ \A u : Heads(u, s) => Heads(u, Append(s, t))
           /\ s = <<>> => Heads(t, Append(s, t))
<1>1. PICK len \in Nat : len = Len(s) /\ DOMAIN s = 1..len
    OBVIOUS
<1>2. PICK longer \in Seq(Tasks) : longer = Append(s, t)
    <2>1. Append(s, t) \in Seq(Tasks)
        OBVIOUS
    <2> QED
        BY <2>1
<1>3. /\ DOMAIN longer = 1..len + 1 /\ longer[len + 1] = t
      /\ \A n \in 1..len : longer[n] = s[n]
    BY <1>1, <1>2
<1>4. \A n \in 1..len + 1 : n \in 1..len \/ n = len + 1
    OBVIOUS
<1>5. len + 1 \in 1..len + 1 /\ \A n \in 1..len : n \in 1..len + 1
    OBVIOUS
<1>6. \A u : Among(u, longer) <=> Among(u, s) \/ u = t
    BY <1>1, <1>3, <1>4, <1>5 DEF Among
<1>7. Once(s) /\ ~Among(t, s) => Once(longer)
    BY <1>1, <1>3, <1>4 DEF Once, Among
<1>8. s # <<>> => longer[1] = s[1] /\ longer # <<>>
    <2>1. s # <<>> => 1 \in 1..len
        BY <1>1
    <2>2. longer # <<>>
        BY <1>3, <1>5
    <2> QED
        BY <1>3, <2>1, <2>2
<1>9. s = <<>> => longer[1] = t /\ longer # <<>>
    BY <1>1, <1>2
<1> QED
    BY <1>2, <1>6, <1>7, <1>8, <1>9 DEF Heads

LEMMA TailAmong ==
    ASSUME NEW s \in Seq(Tasks), s # <<>>, Once(s)
    PROVE  /\ Tail(s) \in Seq(Tasks) /\ Once(Tail(s))
           /\ \A u : Among(u, Tail(s)) <=> Among(u, s) /\ u # Head(s)
           /\ Head(s) \in Tasks /\ Head(s) = s[1] /\ Among(Head(s), s)
<1>1. PICK len \in Nat : len = Len(s) /\ DOMAIN s = 1..len
    OBVIOUS
<1>2. len # 0 /\ Head(s) = s[1] /\ Head(s) \in Tasks /\ 1 \in 1..len
    BY <1>1
<1>3. PICK rest \in Seq(Tasks) : rest = Tail(s)
    <2>1. Tail(s) \in Seq(Tasks)
        OBVIOUS
    <2> QED
        BY <2>1
<1>4. DOMAIN rest = 1..len - 1 /\ \A n \in 1..len - 1 : rest[n] = s[n + 1]
    BY <1>1, <1>2, <1>3
<1>5. \A n \in 1..len - 1 : n + 1 \in 1..len /\ n + 1 # 1
    OBVIOUS
<1>6. \A n \in 1..len : n = 1 \/ (n - 1 \in 1..len - 1 /\ n - 1 + 1 = n)
    OBVIOUS
<1>7. Once(rest)
    <2> SUFFICES ASSUME NEW i \in 1..len - 1, NEW j \in 1..len - 1, rest[i] = rest[j] PROVE i = j
        BY <1>4 DEF Once
    <2>1. i + 1 = j + 1
        BY <1>1, <1>4, <1>5 DEF Once
    <2> QED
        BY <2>1
<1>8. ASSUME NEW u, Among(u, rest) PROVE Among(u, s) /\ u # s[1]
    <2>1. PICK n \in 1..len - 1 : rest[n] = u
        BY <1>4, <1>8 DEF Among
    <2>2. s[n + 1] = u /\ n + 1 \in 1..len /\ n + 1 # 1
        BY <1>4, <1>5, <2>1
    <2> QED
        BY <1>1, <1>2, <2>2 DEF Among, Once
<1>9. ASSUME NEW u, Among(u, s), u # s[1] PROVE Among(u, rest)
    <2>1. PICK n \in 1..len : s[n] = u
        BY <1>1, <1>9 DEF Among
    <2>2. n - 1 \in 1..len - 1 /\ rest[n - 1] = u
        BY <1>4, <1>6, <1>9, <2>1
    <2> QED
        BY <1>4, <2>2 DEF Among
<1> QED
    BY <1>1, <1>2, <1>3, <1>7, <1>8, <1>9 DEF Among

LEMMA WithoutAmong ==
    ASSUME NEW s \in Seq(Tasks), NEW t \in Tasks, Once(s)
    PROVE  /\ WithoutTask(s, t) \in Seq(Tasks) /\ Once(WithoutTask(s, t))
           /\ \A u : Among(u, WithoutTask(s, t)) <=> Among(u, s) /\ u # t
           /\ \A u : Heads(u, s) /\ u # t => Heads(u, WithoutTask(s, t))
<1>1. PICK len \in Nat : len = Len(s) /\ DOMAIN s = 1..len
    OBVIOUS
<1>2. PICK places \in SUBSET (1..len) : places = {n \in 1..len : s[n] # t}
    OBVIOUS
<1>3. PICK left \in Seq(Tasks) : left = Picked(s, places) /\ left = WithoutTask(s, t)
    <2>1. WithoutTask(s, t) = Picked(s, places)
        BY <1>1, <1>2 DEF WithoutTask
    <2>2. Picked(s, places) \in Seq(Tasks)
        BY <1>1, PickedHolds
    <2> QED
        BY <2>1, <2>2
<1>4. /\ \A n \in DOMAIN left : Nth(places, n) \in places /\ left[n] = s[Nth(places, n)]
      /\ \A i \in places : \E n \in DOMAIN left : Nth(places, n) = i
      /\ \A m, n \in DOMAIN left : m < n => Nth(places, m) < Nth(places, n)
    <2>1. places \in SUBSET DOMAIN s
        BY <1>1
    <2>2. \A n \in DOMAIN Picked(s, places) :
             Nth(places, n) \in places /\ Picked(s, places)[n] = s[Nth(places, n)]
        BY <2>1, PickedHolds
    <2>3. \A i \in places : \E n \in DOMAIN Picked(s, places) : Nth(places, n) = i
        BY <2>1, PickedHolds
    <2>4. \A m, n \in DOMAIN Picked(s, places) : m < n => Nth(places, m) < Nth(places, n)
        BY <2>1, PickedHolds
    <2> QED
        BY <1>3, <2>2, <2>3, <2>4
<1>5. PICK len2 \in Nat : len2 = Len(left) /\ DOMAIN left = 1..len2
    OBVIOUS
<1>6. \A m, n \in 1..len2 : Nth(places, m) = Nth(places, n) => m = n
    <2> SUFFICES ASSUME NEW m \in 1..len2, NEW n \in 1..len2, m # n
                 PROVE  Nth(places, m) # Nth(places, n)
        OBVIOUS
    <2>1. m < n \/ n < m
        OBVIOUS
    <2>2. Nth(places, m) \in 1..len /\ Nth(places, n) \in 1..len
        BY <1>4, <1>5
    <2>3. Nth(places, m) < Nth(places, n) \/ Nth(places, n) < Nth(places, m)
        BY <1>4, <1>5, <2>1
    <2> QED
        BY <2>2, <2>3
<1>7. Once(left)
    BY <1>1, <1>4, <1>5, <1>6 DEF Once
<1>8. \A u : Among(u, left) <=> Among(u, s) /\ u # t
    <2>1. ASSUME NEW u, Among(u, left) PROVE Among(u, s) /\ u # t
        <3>1. PICK n \in DOMAIN left : left[n] = u
            BY <2>1 DEF Among
        <3>2. Nth(places, n) \in places /\ u = s[Nth(places, n)]
            BY <1>4, <3>1
        <3> QED
            BY <1>1, <1>2, <3>2 DEF Among
    <2>2. ASSUME NEW u, Among(u, s), u # t PROVE Among(u, left)
        <3>1. PICK i \in places : s[i] = u
            BY <1>1, <1>2, <2>2 DEF Among
        <3>2. PICK n \in DOMAIN left : Nth(places, n) = i
            BY <1>4
        <3> QED
            BY <1>4, <3>1, <3>2 DEF Among
    <2> QED
        BY <2>1, <2>2
<1>9. ASSUME NEW u, Heads(u, s), u # t PROVE Heads(u, left)
    <2>1. 1 \in 1..len /\ 1 \in places
        BY <1>1, <1>2, <1>9 DEF Heads
    <2>2. PICK n \in 1..len2 : Nth(places, n) = 1
        BY <1>4, <1>5, <2>1
    <2>3. n = 1
        <3> SUFFICES ASSUME n # 1 PROVE FALSE
            OBVIOUS
        <3>1. 1 \in 1..len2 /\ 1 < n
            OBVIOUS
        <3>2. Nth(places, 1) < Nth(places, n) /\ Nth(places, 1) \in places
            BY <1>4, <1>5, <3>1
        <3>3. Nth(places, 1) < 1 /\ Nth(places, 1) \in 1..len
            BY <2>2, <3>2
        <3> QED
            BY <3>3
    <2>4. left[1] = u /\ left # <<>>
        BY <1>4, <1>5, <1>9, <2>2, <2>3 DEF Heads
    <2> QED
        BY <2>4 DEF Heads
<1> QED
    BY <1>3, <1>7, <1>8, <1>9

(* A task joins a queue; one that goes on to its handler finds it empty.      *)
LEMMA JoinsQueue ==
    ASSUME NEW q, NEW p, QueuesKept(q, p), NEW t \in Tasks, p[t] \notin Holding,
           NEW l \in Locks, NEW to \in Positions, to \in Holding, to = "handling" => q[l] = <<>>,
           NEW q2, q2 = [q EXCEPT ![l] = Append(@, t)], NEW p2, p2 = [p EXCEPT ![t] = to]
    PROVE  QueuesKept(q2, p2)
<1>1. \A k \in Locks : q[k] \in Seq(Tasks) /\ Once(q[k]) /\ ~Among(t, q[k])
    BY DEF QueuesKept
<1>2. q2[l] = Append(q[l], t) /\ \A k \in Locks \ {l} : q2[k] = q[k]
    BY DEF QueuesKept
<1>3. \A k \in Locks : q2[k] \in Seq(Tasks) /\ Once(q2[k])
    BY <1>1, <1>2, AppendedAmong
<1>4. q2 \in [Locks -> Seq(Tasks)] /\ p2 \in [Tasks -> Positions]
    <2>1. q2 = [k \in Locks |-> q2[k]]
        BY DEF QueuesKept
    <2> QED
        BY <1>3, <2>1 DEF QueuesKept
<1>5. \A k \in Locks, u \in Tasks : Among(u, q2[k]) <=> Among(u, q[k]) \/ (k = l /\ u = t)
    BY <1>1, <1>2, AppendedAmong
<1>6. QueuesApart(q2)
    BY <1>1, <1>5 DEF QueuesKept, QueuesApart
<1>7. p2[t] = to /\ \A u \in Tasks \ {t} : p2[u] = p[u]
    BY DEF QueuesKept
<1>8. \A u \in Tasks : (\E k \in Locks : Among(u, q2[k])) <=> p2[u] \in Holding
    <2> SUFFICES ASSUME NEW u \in Tasks
                 PROVE  (\E k \in Locks : Among(u, q2[k])) <=> p2[u] \in Holding
        OBVIOUS
    <2>1. CASE u = t
        BY <1>5, <1>7, <2>1
    <2>2. CASE u # t
        BY <1>5, <1>7, <2>2 DEF QueuesKept
    <2> QED
        BY <2>1, <2>2
<1>9. ASSUME NEW u \in Tasks, p2[u] = "handling" PROVE \E k \in Locks : Heads(u, q2[k])
    <2>1. CASE u = t
        BY <1>1, <1>2, <1>7, <1>9, <2>1, AppendedAmong
    <2>2. CASE u # t
        <3>1. PICK k \in Locks : Heads(u, q[k])
            BY <1>7, <1>9, <2>2 DEF QueuesKept
        <3> QED
            BY <1>1, <1>2, <3>1, AppendedAmong
    <2> QED
        BY <2>1, <2>2
<1> QED
    BY <1>3, <1>4, <1>6, <1>8, <1>9 DEF QueuesKept

(* A task is taken out of the queues, from the head of one or wherever it is. *)
TakenOut(q, q2, t) ==
    /\ q2 = [l \in Locks |-> q2[l]]
    /\ \A l \in Locks : /\ q2[l] \in Seq(Tasks) /\ Once(q2[l])
                        /\ \A u \in Tasks : Among(u, q2[l]) <=> Among(u, q[l]) /\ u # t
                        /\ \A u \in Tasks : Heads(u, q[l]) /\ u # t => Heads(u, q2[l])

LEMMA LeavesQueues ==
    ASSUME NEW q, NEW p, QueuesKept(q, p), NEW t \in Tasks,
           NEW to \in Positions, to \notin Holding,
           NEW q2, TakenOut(q, q2, t), NEW p2, p2 = [p EXCEPT ![t] = to]
    PROVE  QueuesKept(q2, p2)
<1>0. /\ q2 = [l \in Locks |-> q2[l]]
      /\ \A l \in Locks : /\ q2[l] \in Seq(Tasks) /\ Once(q2[l])
                          /\ \A u \in Tasks : Among(u, q2[l]) <=> Among(u, q[l]) /\ u # t
                          /\ \A u \in Tasks : Heads(u, q[l]) /\ u # t => Heads(u, q2[l])
    BY DEF TakenOut
<1>1. q2 \in [Locks -> Seq(Tasks)] /\ p2 \in [Tasks -> Positions]
    BY <1>0 DEF QueuesKept
<1>2. QueuesApart(q2)
    BY <1>0 DEF QueuesKept, QueuesApart
<1>3. p2[t] = to /\ \A u \in Tasks \ {t} : p2[u] = p[u]
    BY DEF QueuesKept
<1>4. ASSUME NEW u \in Tasks
      PROVE  (\E k \in Locks : Among(u, q2[k])) <=> p2[u] \in Holding
    <2>1. CASE u = t
        BY <1>0, <1>3, <2>1
    <2>2. CASE u # t
        BY <1>0, <1>3, <2>2 DEF QueuesKept
    <2> QED
        BY <2>1, <2>2
<1>5. ASSUME NEW u \in Tasks, p2[u] = "handling" PROVE \E k \in Locks : Heads(u, q2[k])
    <2>1. u # t
        BY <1>3, <1>5 DEF Holding
    <2>2. PICK k \in Locks : Heads(u, q[k])
        BY <1>3, <1>5, <2>1 DEF QueuesKept
    <2> QED
        BY <1>0, <2>1, <2>2
<1> QED
    BY <1>0, <1>1, <1>2, <1>4, <1>5 DEF QueuesKept

LEMMA GivesBack ==
    ASSUME NEW q, NEW p, QueuesKept(q, p), NEW t \in Tasks,
           NEW l \in Locks, q[l] # <<>>, Head(q[l]) = t,
           NEW to \in Positions, to \notin Holding,
           NEW q2, q2 = [q EXCEPT ![l] = Tail(@)], NEW p2, p2 = [p EXCEPT ![t] = to]
    PROVE  QueuesKept(q2, p2)
<1>1. \A k \in Locks : q[k] \in Seq(Tasks) /\ Once(q[k])
    BY DEF QueuesKept
<1>2. /\ Tail(q[l]) \in Seq(Tasks) /\ Once(Tail(q[l]))
      /\ \A u : Among(u, Tail(q[l])) <=> Among(u, q[l]) /\ u # t
      /\ q[l][1] = t /\ Among(t, q[l])
    BY <1>1, TailAmong
<1>3. q2[l] = Tail(q[l]) /\ \A k \in Locks \ {l} : q2[k] = q[k] /\ ~Among(t, q[k])
    BY <1>2 DEF QueuesKept, QueuesApart
<1>4. ASSUME NEW k \in Locks
      PROVE  /\ q2[k] \in Seq(Tasks) /\ Once(q2[k])
             /\ \A u \in Tasks : Among(u, q2[k]) <=> Among(u, q[k]) /\ u # t
             /\ \A u \in Tasks : Heads(u, q[k]) /\ u # t => Heads(u, q2[k])
    <2>1. CASE k = l
        BY <1>2, <1>3, <2>1 DEF Heads
    <2>2. CASE k # l
        BY <1>1, <1>3, <2>2
    <2> QED
        BY <2>1, <2>2
<1>5. q2 = [k \in Locks |-> q2[k]]
    BY DEF QueuesKept
<1>6. TakenOut(q, q2, t)
    BY <1>4, <1>5 DEF TakenOut
<1> QED
    BY <1>6, LeavesQueues

LEMMA IsTakenOut ==
    ASSUME NEW q, NEW p, QueuesKept(q, p), NEW t \in Tasks,
           NEW to \in Positions, to \notin Holding,
           NEW q2, q2 = [l \in Locks |-> WithoutTask(q[l], t)], NEW p2, p2 = [p EXCEPT ![t] = to]
    PROVE  QueuesKept(q2, p2)
<1>1. ASSUME NEW l \in Locks
      PROVE  /\ q2[l] \in Seq(Tasks) /\ Once(q2[l])
             /\ \A u \in Tasks : Among(u, q2[l]) <=> Among(u, q[l]) /\ u # t
             /\ \A u \in Tasks : Heads(u, q[l]) /\ u # t => Heads(u, q2[l])
    <2>1. q[l] \in Seq(Tasks) /\ Once(q[l]) /\ q2[l] = WithoutTask(q[l], t)
        BY DEF QueuesKept
    <2> QED
        BY <2>1, WithoutAmong
<1>2. q2 = [l \in Locks |-> q2[l]]
    OBVIOUS
<1>3. TakenOut(q, q2, t)
    BY <1>1, <1>2 DEF TakenOut
<1> QED
    BY <1>3, LeavesQueues

(* A task moves on where it is; what runs a handler has got its turn.         *)
LEMMA MovesOn ==
    ASSUME NEW q, NEW p, QueuesKept(q, p), NEW t \in Tasks,
           NEW to \in Positions, to \in Holding <=> p[t] \in Holding,
           to = "handling" => \E l \in Locks : Heads(t, q[l]),
           NEW p2, p2 = [p EXCEPT ![t] = to]
    PROVE  QueuesKept(q, p2)
<1>1. p2[t] = to /\ (\A u \in Tasks \ {t} : p2[u] = p[u]) /\ p2 \in [Tasks -> Positions]
    BY DEF QueuesKept
<1>2. \A u \in Tasks : (\E k \in Locks : Among(u, q[k])) <=> p2[u] \in Holding
    BY <1>1 DEF QueuesKept
<1>3. \A u \in Tasks : p2[u] = "handling" => \E l \in Locks : Heads(u, q[l])
    BY <1>1 DEF QueuesKept
<1> QED
    BY <1>1, <1>2, <1>3 DEF QueuesKept

-----------------------------------------------------------------------------
(* A waiter lives in a task of its own or in that of a message whose handler  *)
(* has begun, and the entry is a rightful one.                                *)
WaiterTypes ==
    /\ entry \in Waiters \cup {None} /\ rightful \subseteq Waiters
    /\ entry # None => entry \in rightful
    /\ lock \in Locks \cup {None}
    /\ home \in [Waiters -> Waiters \cup FollowUps \cup {None}]
    /\ future \in [Waiters -> {"pending", "done"}]
    /\ armed \in [Waiters -> BOOLEAN] /\ fired \in [Waiters -> BOOLEAN]
    /\ enabled \in [Waiters -> BOOLEAN]
    /\ restorable \in [Waiters -> Waiters \cup {None}]
    /\ serving \in [FollowUps -> Waiters \cup {None}]

HomesBusy == \A w \in Waiters : home[w] \in FollowUps => pc[home[w]] # "idle"

WaiterInv == WaiterTypes /\ QueuesKept(queue, pc) /\ HomesBusy

LEMMA TasksApart ==
    /\ Waiters \subseteq Tasks /\ FollowUps \subseteq Tasks /\ Failures \subseteq Tasks
    /\ \A w \in Waiters : w \notin FollowUps
    /\ None \notin Waiters /\ None \notin FollowUps /\ None \notin Locks
BY WaiterAssumption DEF Tasks

LEMMA WaiterInitEstablishes == Init => WaiterInv
<1> SUFFICES ASSUME Init PROVE WaiterInv
    OBVIOUS
<1>1. WaiterTypes
    BY DEF Init, WaiterTypes
<1>0. HomesBusy
    BY TasksApart DEF Init, HomesBusy
<1>2. \A l \in Locks : queue[l] = <<>> /\ DOMAIN queue[l] = {}
    BY DEF Init
<1>3. queue \in [Locks -> Seq(Tasks)]
    <2>1. <<>> \in Seq(Tasks)
        OBVIOUS
    <2> QED
        BY <2>1 DEF Init
<1>4. pc \in [Tasks -> Positions] /\ \A t \in Tasks : pc[t] \notin Holding /\ pc[t] # "handling"
    BY DEF Init, Positions, WaiterPC, Holding
<1>5. QueuesKept(queue, pc)
    BY <1>2, <1>3, <1>4 DEF QueuesKept, QueuesApart, Once, Among
<1> QED
    BY <1>0, <1>1, <1>5 DEF WaiterInv

(* The lock of the key is a lock, and one that is not in the table is free.   *)
LEMMA LockForHolds ==
    ASSUME WaiterInv
    PROVE  LockFor \in Locks /\ (lock = None => queue[LockFor] = <<>>)
<1>1. \E l \in Locks : queue[l] = <<>>
    BY SomeLockIsFree DEF WaiterInv
<1>2. lock \in Locks \cup {None}
    BY DEF WaiterInv, WaiterTypes
<1> QED
    BY <1>1, <1>2 DEF LockFor

LEMMA QueuedHolds ==
    ASSUME WaiterInv, NEW t \in Tasks
    PROVE  Queued(t) <=> pc[t] \in Holding
BY DEF WaiterInv, QueuesKept, Queued, Among, ToSet

LEMMA EnqueueKeeps ==
    ASSUME WaiterInv, NEW t \in Tasks, pc[t] \notin Holding, Enqueue(t),
           NEW to \in Positions, to \in Holding, to = "handling" => queue[LockFor] = <<>>,
           pc' = [pc EXCEPT ![t] = to]
    PROVE  QueuesKept(queue', pc') /\ lock' \in Locks
<1>1. PICK l \in Locks : l = LockFor
    BY LockForHolds
<1>2. queue' = [queue EXCEPT ![l] = Append(@, t)] /\ lock' = l
    BY <1>1 DEF Enqueue
<1> QED
    BY <1>1, <1>2, JoinsQueue DEF WaiterInv

LEMMA UnderLockKeeps ==
    ASSUME WaiterInv, NEW t \in Tasks, NEW l \in Locks, UnderLock(t, l),
           NEW to \in Positions, to \notin Holding, pc' = [pc EXCEPT ![t] = to]
    PROVE  QueuesKept(queue', pc')
<1>1. CASE ~Queued(t) /\ UNCHANGED queue
    <2>1. pc[t] \notin Holding /\ to # "handling"
        BY <1>1, QueuedHolds DEF Holding
    <2> QED
        BY <1>1, <2>1, MovesOn DEF WaiterInv
<1>2. CASE Granted(t, l) /\ queue' = [queue EXCEPT ![l] = Tail(@)]
    BY <1>2, GivesBack DEF Granted, WaiterInv
<1> QED
    BY <1>1, <1>2 DEF UnderLock

LEMMA TableTyped ==
    ASSUME WaiterInv, NEW t \in Tasks, NEW l
    PROVE  Table(t) \in Locks \cup {None} /\ Drop(t, l) \in Locks \cup {None}
BY LockForHolds DEF Table, Drop, WaiterInv, WaiterTypes

LEMMA BusyStill ==
    ASSUME WaiterInv, UNCHANGED home, NEW t \in Tasks, NEW to \in Positions, to # "idle",
           pc' = [pc EXCEPT ![t] = to]
    PROVE  HomesBusy'
<1>1. \A u \in Tasks : pc'[u] = IF u = t THEN to ELSE pc[u]
    BY DEF WaiterInv, QueuesKept
<1> QED
    BY <1>1, TasksApart DEF WaiterInv, HomesBusy

LEMMA FinishTyped ==
    ASSUME WaiterTypes, NEW w, Finish(w)
    PROVE  /\ future' \in [Waiters -> {"pending", "done"}]
           /\ armed' \in [Waiters -> BOOLEAN] /\ fired' \in [Waiters -> BOOLEAN]
BY DEF WaiterTypes, Finish

LEMMA RegistersKeep ==
    ASSUME WaiterInv, NEW w \in Waiters, NEW nested \in BOOLEAN, Replace(w, nested), pc[w] = "idle",
           NEW h \in Waiters \cup FollowUps, home' = [home EXCEPT ![w] = h],
           h = w \/ (h \in FollowUps /\ pc[h] = "handling")
    PROVE  WaiterInv'
<1>1. pc' = [pc EXCEPT ![w] = "registering"] /\ UNCHANGED <<queue, serving>>
      /\ entry' = w /\ rightful' = {w} /\ lock' = LockFor
    BY DEF Replace
<1>2. QueuesKept(queue', pc')
    <2>1. "registering" \in Positions /\ "registering" \notin Holding /\ pc[w] \notin Holding
        BY DEF Positions, WaiterPC, Holding
    <2> QED
        BY <1>1, <2>1, MovesOn, TasksApart DEF WaiterInv
<1>3. HomesBusy'
    <2>1. \A u \in Tasks : pc'[u] = IF u = w THEN "registering" ELSE pc[u]
        BY <1>1 DEF WaiterInv, QueuesKept
    <2>2. \A v \in Waiters : home'[v] = IF v = w THEN h ELSE home[v]
        BY DEF WaiterInv, WaiterTypes
    <2> QED
        BY <2>1, <2>2, TasksApart DEF WaiterInv, HomesBusy
<1>4. /\ future' \in [Waiters -> {"pending", "done"}]
      /\ armed' \in [Waiters -> BOOLEAN] /\ fired' \in [Waiters -> BOOLEAN]
    BY FinishTyped DEF Replace, WaiterInv, WaiterTypes
<1>5. /\ enabled' \in [Waiters -> BOOLEAN]
      /\ restorable' \in [Waiters -> Waiters \cup {None}]
    BY DEF Replace, WaiterInv, WaiterTypes
<1>6. WaiterTypes'
    BY <1>1, <1>4, <1>5, LockForHolds DEF WaiterInv, WaiterTypes
<1> QED
    BY <1>2, <1>3, <1>6 DEF WaiterInv

LEMMA RegisterKeeps ==
    ASSUME WaiterInv, NEW w \in Waiters,
           Register(w) \/ RegisterBelow(w) \/ \E d \in FollowUps : RegisterWithin(w, d)
    PROVE  WaiterInv'
<1>1. CASE Register(w)
    BY <1>1, RegistersKeep DEF Register
<1>2. CASE RegisterBelow(w)
    BY <1>2, RegistersKeep DEF RegisterBelow
<1>3. ASSUME NEW d \in FollowUps, RegisterWithin(w, d) PROVE WaiterInv'
    BY <1>3, RegistersKeep DEF RegisterWithin
<1> QED
    BY <1>1, <1>2, <1>3

(* Steps that touch no queue.                                                 *)
LEMMA PlainStepsKeep ==
    ASSUME WaiterInv, NEW w \in Waiters,
           Registered(w) \/ Return(w) \/ Unregistered(w) \/ Deadline(w) \/ Expire(w)
    PROVE  WaiterInv'
<1>1. CASE Deadline(w) \/ Expire(w)
    BY <1>1 DEF Deadline, Expire, Finish, WaiterInv, WaiterTypes, HomesBusy
<1>2. CASE Registered(w) \/ Return(w) \/ Unregistered(w)
    <2>1. WaiterTypes'
        BY <1>2 DEF Registered, Return, Unregistered, WaiterInv, WaiterTypes
    <2>2. UNCHANGED <<queue, home>> /\ pc[w] \notin Holding
          /\ \E to \in {"waiting", "done"} : pc' = [pc EXCEPT ![w] = to]
        BY <1>2 DEF Registered, Return, Unregistered, Holding
    <2>3. PICK to \in {"waiting", "done"} : pc' = [pc EXCEPT ![w] = to]
        BY <2>2
    <2>4. to \in Positions /\ to \notin Holding /\ to # "idle" /\ to # "handling" /\ w \in Tasks
        BY TasksApart DEF Positions, WaiterPC, Holding
    <2>5. QueuesKept(queue', pc')
        BY <2>2, <2>3, <2>4, MovesOn DEF WaiterInv
    <2>6. HomesBusy'
        BY <2>2, <2>3, <2>4, BusyStill
    <2> QED
        BY <2>1, <2>5, <2>6 DEF WaiterInv
<1> QED
    BY <1>1, <1>2

(* Tasks that begin to wait for the lock.                                     *)
LEMMA WaitsKeep ==
    ASSUME WaiterInv,
           \/ \E w \in Waiters : Refused(w) \/ Leave(w)
           \/ \E d \in FollowUps : Follow(d)
           \/ \E f \in Failures : FailWaits(f)
    PROVE  WaiterInv'
<1>1. PICK t \in Tasks, to \in {"removing", "leaving", "locking"} :
        Enqueue(t) /\ pc[t] \notin Holding /\ pc' = [pc EXCEPT ![t] = to]
    BY TasksApart DEF Refused, Leave, Follow, FailWaits, Holding
<1>2. /\ UNCHANGED <<entry, home, future, armed, fired, restorable, serving, rightful>>
      /\ enabled' \in [Waiters -> BOOLEAN]
    BY DEF Refused, Leave, Follow, FailWaits, WaiterInv, WaiterTypes
<1>3. to \in Positions /\ to \in Holding /\ to # "idle" /\ to # "handling"
    BY DEF Positions, WaiterPC, FollowUpPC, Holding
<1>4. QueuesKept(queue', pc') /\ lock' \in Locks
    BY <1>1, <1>3, EnqueueKeeps
<1>5. HomesBusy'
    BY <1>1, <1>2, <1>3, BusyStill
<1>6. WaiterTypes'
    BY <1>2, <1>4 DEF WaiterInv, WaiterTypes
<1> QED
    BY <1>4, <1>5, <1>6 DEF WaiterInv

(* Steps of a task under the lock, which is through afterwards or tells the   *)
(* core that its waiter is gone.                                              *)
LEMMA RemovedKeeps ==
    ASSUME WaiterInv, NEW w \in Waiters, Removed(w)
    PROVE  WaiterInv'
<1>1. PICK l \in Locks : UnderLock(w, l)
                         /\ lock' \in {Table(w), Drop(w, l), CHOOSE k \in Locks : queue'[k] = <<>>}
    BY DEF Removed
<1>2. /\ pc' = [pc EXCEPT ![w] = "done"]
      /\ UNCHANGED <<home, future, armed, fired, restorable, serving>>
      /\ enabled' = [t \in Waiters |-> IF t = w THEN FALSE ELSE t = restorable[w] \/ enabled[t]]
      /\ entry' = IF restorable[w] # None THEN restorable[w] ELSE IF entry = w THEN None ELSE entry
      /\ rightful' = (rightful \ {w}) \cup ({restorable[w]} \ {None})
    BY DEF Removed
<1>3. "done" \in Positions /\ "done" \notin Holding /\ "done" # "idle" /\ w \in Tasks
    BY TasksApart DEF Positions, WaiterPC, Holding
<1>4. QueuesKept(queue', pc')
    BY <1>1, <1>2, <1>3, UnderLockKeeps
<1>5. HomesBusy'
    BY <1>2, <1>3, BusyStill
<1>6. lock' \in Locks \cup {None}
    <2>1. (CHOOSE k \in Locks : queue'[k] = <<>>) \in Locks
        BY <1>4, SomeLockIsFree
    <2> QED
        BY <1>1, <1>3, <2>1, TableTyped
<1>7. restorable[w] \in Waiters \cup {None}
    BY DEF WaiterInv, WaiterTypes
<1>8. /\ entry' \in Waiters \cup {None} /\ rightful' \subseteq Waiters
      /\ entry' # None => entry' \in rightful'
    BY <1>2, <1>7 DEF WaiterInv, WaiterTypes
<1>9. enabled' \in [Waiters -> BOOLEAN]
    <2>1. \A t \in Waiters : enabled[t] \in BOOLEAN
        BY DEF WaiterInv, WaiterTypes
    <2> QED
        BY <1>2, <2>1
<1>10. WaiterTypes'
    BY <1>2, <1>6, <1>8, <1>9 DEF WaiterInv, WaiterTypes
<1> QED
    BY <1>4, <1>5, <1>10 DEF WaiterInv

LEMMA LockedStepsKeep ==
    ASSUME WaiterInv,
           \/ \E w \in Waiters : Unregister(w)
           \/ \E d \in FollowUps : Miss(d)
           \/ \E f \in Failures : Fail(f)
    PROVE  WaiterInv'
<1>1. PICK t \in Tasks, l \in Locks, to \in {"done", "unregistering"} :
        /\ UnderLock(t, l) /\ pc' = [pc EXCEPT ![t] = to]
        /\ lock' \in {Table(t), Drop(t, l)}
    BY TasksApart DEF Unregister, Miss, Fail
<1>2. /\ UNCHANGED <<home, enabled, restorable, serving, rightful>> /\ entry' \in {None, entry}
      /\ UNCHANGED <<future, armed, fired>> \/ Finish(entry)
    BY DEF Unregister, Miss, Fail
<1>3. to \in Positions /\ to \notin Holding /\ to # "idle"
    BY DEF Positions, WaiterPC, Holding
<1>4. QueuesKept(queue', pc')
    BY <1>1, <1>3, UnderLockKeeps
<1>5. HomesBusy'
    BY <1>1, <1>2, <1>3, BusyStill
<1>6. lock' \in Locks \cup {None}
    BY <1>1, TableTyped
<1>7. /\ future' \in [Waiters -> {"pending", "done"}]
      /\ armed' \in [Waiters -> BOOLEAN] /\ fired' \in [Waiters -> BOOLEAN]
    BY <1>2, FinishTyped DEF WaiterInv, WaiterTypes
<1>8. WaiterTypes'
    BY <1>2, <1>6, <1>7 DEF WaiterInv, WaiterTypes
<1> QED
    BY <1>4, <1>5, <1>8 DEF WaiterInv

(* A cancelled task is taken out of whatever queue it is in.                  *)
LEMMA CancelsKeep ==
    ASSUME WaiterInv,
           \/ \E w \in Waiters : CancelWaiter(w)
           \/ \E t \in Tasks : CancelLocking(t)
    PROVE  WaiterInv'
<1>1. CASE \E w \in Waiters : Finish(w)
              /\ UNCHANGED <<pc, queue, entry, lock, home, enabled, restorable, serving, rightful>>
    BY <1>1, FinishTyped DEF WaiterInv, WaiterTypes, HomesBusy
<1>2. ASSUME NEW t \in Tasks,
             pc' = [pc EXCEPT ![t] = "done"], queue' = [l \in Locks |-> WithoutTask(queue[l], t)],
             UNCHANGED <<entry, lock, home, future, armed, fired, enabled, restorable, serving,
                         rightful>>
      PROVE  WaiterInv'
    <2>1. "done" \in Positions /\ "done" \notin Holding /\ "done" # "idle"
        BY DEF Positions, WaiterPC, Holding
    <2>2. QueuesKept(queue', pc')
        BY <1>2, <2>1, IsTakenOut DEF WaiterInv
    <2>3. HomesBusy'
        BY <1>2, <2>1, BusyStill
    <2>4. WaiterTypes'
        BY <1>2 DEF WaiterInv, WaiterTypes
    <2> QED
        BY <2>2, <2>3, <2>4 DEF WaiterInv
<1>3. ASSUME NEW w \in Waiters, CancelWaiter(w) PROVE WaiterInv'
    BY <1>1, <1>2, <1>3, TasksApart DEF CancelWaiter
<1>4. ASSUME NEW t \in Tasks, CancelLocking(t) PROVE WaiterInv'
    BY <1>2, <1>4 DEF CancelLocking
<1> QED
    BY <1>3, <1>4

(* A message whose task has not begun owns no lock, and none is held for it:  *)
(* it goes on to the handler at once only when nobody has the lock.           *)
LEMMA IdleIsNoOwner ==
    ASSUME WaiterInv, NEW d \in FollowUps, pc[d] = "idle", NEW l \in Locks
    PROVE  ~Owns(d, l)
<1> SUFFICES ASSUME Owns(d, l) PROVE FALSE
    OBVIOUS
<1>1. PICK t \in Tasks : t = Head(queue[l]) /\ Home(t) = Home(d) /\ Among(t, queue[l])
    <2>1. queue[l] \in Seq(Tasks) /\ queue[l] # <<>> /\ Once(queue[l])
        BY DEF Owns, WaiterInv, QueuesKept
    <2> QED
        BY <2>1, TailAmong DEF Owns
<1>2. t # d
    BY <1>1 DEF WaiterInv, QueuesKept, Holding
<1>3. Home(d) = d
    BY TasksApart DEF Home
<1>4. t \in Waiters /\ home[t] = d
    BY <1>1, <1>2, <1>3 DEF Home
<1> QED
    BY <1>4 DEF WaiterInv, HomesBusy

LEMMA ServeKeeps ==
    ASSUME WaiterInv, NEW d \in FollowUps, Serve(d)
    PROVE  WaiterInv'
<1>1. /\ pc' = [pc EXCEPT ![d] = "handling"] /\ serving' = [serving EXCEPT ![d] = entry]
      /\ UNCHANGED <<entry, home, future, armed, fired, enabled, restorable, rightful>>
    BY DEF Serve
<1>2. "handling" \in Positions /\ "handling" \in Holding /\ "handling" # "idle" /\ d \in Tasks
    BY TasksApart DEF Positions, FollowUpPC, Holding
<1>3. QueuesKept(queue', pc') /\ lock' \in Locks \cup {None}
    <2>1. CASE pc[d] = "idle" /\ Free(d) /\ Enqueue(d)
        <3>1. queue[LockFor] = <<>>
            BY <2>1, LockForHolds, IdleIsNoOwner DEF Free
        <3>2. pc[d] \notin Holding
            BY <2>1 DEF Holding
        <3> QED
            BY <1>1, <1>2, <2>1, <3>1, <3>2, EnqueueKeeps
    <2>2. CASE pc[d] = "locking" /\ (\E l \in Locks : Granted(d, l)) /\ UNCHANGED <<lock, queue>>
        <3>1. pc[d] \in Holding
            BY <2>2 DEF Holding
        <3>2. PICK l \in Locks : queue[l] # <<>> /\ Head(queue[l]) = d
            BY <2>2 DEF Granted
        <3>3. Heads(d, queue[l])
            BY <3>2, TailAmong DEF Heads, WaiterInv, QueuesKept
        <3> QED
            BY <1>1, <1>2, <2>2, <3>1, <3>3, MovesOn DEF WaiterInv, WaiterTypes
    <2> QED
        BY <2>1, <2>2 DEF Serve
<1>4. HomesBusy'
    BY <1>1, <1>2, BusyStill
<1>5. WaiterTypes'
    BY <1>1, <1>3 DEF WaiterInv, WaiterTypes
<1> QED
    BY <1>3, <1>4, <1>5 DEF WaiterInv

LEMMA HandlersKeep ==
    ASSUME WaiterInv, NEW d \in FollowUps, Stop(d) \/ KeepAlive(d) \/ HandlerReturns(d)
    PROVE  WaiterInv'
<1>1. CASE Stop(d)
    BY <1>1, FinishTyped DEF Stop, WaiterInv, WaiterTypes, HomesBusy
<1>2. CASE KeepAlive(d)
    BY <1>2 DEF KeepAlive, WaiterInv, WaiterTypes, HomesBusy
<1>3. CASE HandlerReturns(d)
    <2>1. /\ pc[d] = "handling" /\ pc' = [pc EXCEPT ![d] = "done"]
          /\ queue' = [l \in Locks |-> IF Granted(d, l) THEN Tail(queue[l]) ELSE queue[l]]
          /\ UNCHANGED <<entry, lock, home, future, armed, fired, enabled, restorable, serving,
                         rightful>>
        BY <1>3 DEF HandlerReturns, Handling
    <2>2. "done" \in Positions /\ "done" \notin Holding /\ "done" # "idle" /\ d \in Tasks
        BY TasksApart DEF Positions, WaiterPC, Holding
    <2>3. \A l \in Locks : /\ queue[l] \in Seq(Tasks) /\ Once(queue[l])
                           /\ Granted(d, l) <=> Heads(d, queue[l])
        BY TailAmong DEF Granted, Heads, WaiterInv, QueuesKept
    <2>4. PICK l \in Locks : Heads(d, queue[l])
        BY <2>1, <2>2 DEF WaiterInv, QueuesKept
    <2>5. \A k \in Locks : Heads(d, queue[k]) => Among(d, queue[k])
        BY <2>3, TailAmong DEF Heads
    <2>6. \A k \in Locks : Granted(d, k) <=> k = l
        BY <2>2, <2>3, <2>4, <2>5 DEF WaiterInv, QueuesKept, QueuesApart
    <2>7. queue' = [queue EXCEPT ![l] = Tail(@)]
        BY <2>1, <2>6 DEF WaiterInv, QueuesKept
    <2>8. queue[l] # <<>> /\ Head(queue[l]) = d
        BY <2>6 DEF Granted
    <2>9. QueuesKept(queue', pc')
        <3>1. QueuesKept(queue, pc) /\ pc' = [pc EXCEPT ![d] = "done"]
            BY <2>1 DEF WaiterInv
        <3> QED
            BY <2>2, <2>7, <2>8, <3>1, GivesBack
    <2>10. HomesBusy'
        BY <2>1, <2>2, BusyStill
    <2>11. WaiterTypes'
        BY <2>1 DEF WaiterInv, WaiterTypes
    <2> QED
        BY <2>9, <2>10, <2>11 DEF WaiterInv
<1> QED
    BY <1>1, <1>2, <1>3

LEMMA WaiterNextKeeps == WaiterInv /\ [Next]_vars => WaiterInv'
<1> SUFFICES ASSUME WaiterInv, [Next]_vars PROVE WaiterInv'
    OBVIOUS
<1>1. CASE UNCHANGED vars
    BY <1>1 DEF vars, WaiterInv, WaiterTypes, HomesBusy
<1>2. ASSUME NEW w \in Waiters,
             \/ Register(w) \/ RegisterBelow(w) \/ WaiterStep(w) \/ CancelWaiter(w)
             \/ \E d \in FollowUps : RegisterWithin(w, d)
      PROVE  WaiterInv'
    BY <1>2, RegisterKeeps, PlainStepsKeep, WaitsKeep, RemovedKeeps, LockedStepsKeep, CancelsKeep
       DEF WaiterStep
<1>3. ASSUME NEW d \in FollowUps, Follow(d) \/ FollowUpStep(d) \/ Stop(d) \/ KeepAlive(d)
      PROVE  WaiterInv'
    BY <1>3, WaitsKeep, ServeKeeps, LockedStepsKeep, HandlersKeep DEF FollowUpStep
<1>4. ASSUME NEW f \in Failures, FailWaits(f) \/ Fail(f) PROVE WaiterInv'
    BY <1>4, WaitsKeep, LockedStepsKeep
<1>5. ASSUME NEW t \in Tasks, CancelLocking(t) PROVE WaiterInv'
    BY <1>5, CancelsKeep
<1> QED
    BY <1>1, <1>2, <1>3, <1>4, <1>5 DEF Next

LEMMA WaiterInvHolds == Spec => []WaiterInv
BY WaiterInitEstablishes, WaiterNextKeeps, PTL DEF Spec

(* The tables of a session's waiters are well typed, and a task is in a queue *)
(* of a lock exactly while it holds or awaits one: also when it is cancelled  *)
(* there, and when the lock it waits for has been dropped from the table.     *)
THEOREM WaitersTyped == Spec => []TypeOK
<1>1. WaiterInv => TypeOK
    <2> SUFFICES ASSUME WaiterInv PROVE TypeOK
        OBVIOUS
    <2>1. \A t \in Tasks : Queued(t) <=> pc[t] \in {"removing", "leaving", "locking", "handling"}
        BY QueuedHolds DEF Holding
    <2> QED
        BY <2>1 DEF WaiterInv, WaiterTypes, QueuesKept, Positions, TypeOK
<1> QED
    BY <1>1, WaiterInvHolds, PTL

(* A message that has waited for the lock goes to a waiter that still stands  *)
(* and that nothing has replaced, however many waiters, messages and failures *)
(* meet, are refused or are cancelled.                                        *)
THEOREM RightfulIsServed == Spec => ServesRightful
<1>1. ASSUME WaiterInv, [Next]_vars
      PROVE  [\A d \in FollowUps : serving'[d] # serving[d] =>
                  serving'[d] \in rightful /\ future[serving'[d]] = "pending"]_vars
    <2>1. CASE UNCHANGED serving
        BY <2>1
    <2>2. ASSUME NEW e \in FollowUps, Serve(e)
          PROVE  \A d \in FollowUps : serving'[d] # serving[d] =>
                     serving'[d] \in rightful /\ future[serving'[d]] = "pending"
        BY <1>1, <2>2 DEF Serve, Standing, WaiterInv, WaiterTypes
    <2>3. UNCHANGED serving \/ \E e \in FollowUps : Serve(e)
        BY <1>1 DEF Next, WaiterStep, FollowUpStep, vars, Register, RegisterBelow, RegisterWithin,
           Replace, Registered, Refused, Removed, Deadline, Expire, Return, Leave, Unregister,
           Unregistered, CancelWaiter, Follow, Miss, Stop, KeepAlive, HandlerReturns,
           CancelLocking, FailWaits, Fail
    <2> QED
        BY <2>1, <2>2, <2>3
<1> QED
    BY <1>1, WaiterInvHolds, PTL DEF Spec, ServesRightful

-----------------------------------------------------------------------------
(* Nobody waits in a ring.  The locks of the key come one after the other: a  *)
(* lock that is dropped from the table never returns while a task holds or    *)
(* awaits it.  A waiter that lives in a handler's task awaits another lock    *)
(* than the handler holds, since it could re-enter that one: a newer lock.    *)
(* The order in which they came is a rank r of the locks.                     *)
Newest(r, k, q) == k # None => \A l \in Locks : l # k /\ q[l] # <<>> => r[l] < r[k]

Outward(r, q, h) ==
    \A w \in Waiters : h[w] \in FollowUps =>
        \A l, m \in Locks : Among(h[w], q[l]) /\ Among(w, q[m]) => r[l] < r[m]

Ordered(k, q, h) ==
    \E n \in Nat : \E r \in [Locks -> 0..n] : Newest(r, k, q) /\ Outward(r, q, h)

(* A waiter in a handler's task keeps the handler where it awaits it, and one *)
(* that waits for messages has a timer, or its end is decided.                *)
HomesHandle ==
    /\ \A t \in Tasks : pc[t] = "handling" => t \in FollowUps
    /\ \A w \in Waiters :
          /\ pc[w] = "idle" => home[w] = None
          /\ home[w] \in FollowUps /\ pc[w] # "done" => pc[home[w]] = "handling"

TimersRun ==
    \A t \in Tasks : pc[t] = "waiting" =>
        t \in Waiters /\ (future[t] = "done" \/ armed[t] \/ fired[t])

StuckInv == WaiterInv /\ Ordered(lock, queue, home) /\ HomesHandle /\ TimersRun

(* The queues get shorter, the table keeps its lock or loses it, or gets one  *)
(* nobody holds: the newest.                                                  *)
LEMMA Reorders ==
    ASSUME NEW k, NEW q, NEW h, Ordered(k, q, h), NEW q2, NEW k2,
           \A l \in Locks : q2[l] # <<>> => q[l] # <<>>,
           \A l \in Locks, t \in Tasks : Among(t, q2[l]) => Among(t, q[l]),
           k2 = None \/ k2 = k \/ (k2 \in Locks /\ q2[k2] = <<>>)
    PROVE  Ordered(k2, q2, h)
<1>1. PICK n \in Nat : \E r \in [Locks -> 0..n] : Newest(r, k, q) /\ Outward(r, q, h)
    BY DEF Ordered
<1>2. PICK r \in [Locks -> 0..n] : Newest(r, k, q) /\ Outward(r, q, h)
    BY <1>1
<1>3. Outward(r, q2, h)
    BY <1>2, TasksApart DEF Outward
<1>4. CASE k2 = None \/ k2 = k
    <2>1. Newest(r, k2, q2)
        BY <1>2, <1>4 DEF Newest
    <2> QED
        BY <1>3, <2>1 DEF Ordered
<1>5. CASE k2 \in Locks /\ q2[k2] = <<>>
    <2> DEFINE s == [r EXCEPT ![k2] = n + 1]
    <2>1. n + 1 \in Nat /\ s \in [Locks -> 0..n + 1]
        BY <1>5
    <2>2. s[k2] = n + 1 /\ \A l \in Locks \ {k2} : s[l] = r[l] /\ r[l] \in 0..n
        BY <1>5
    <2>3. \A t : ~Among(t, q2[k2])
        BY <1>5 DEF Among
    <2> HIDE DEF s
    <2>4. Newest(s, k2, q2)
        BY <2>2 DEF Newest
    <2>5. Outward(s, q2, h)
        BY <1>3, <2>2, <2>3 DEF Outward
    <2> QED
        BY <2>1, <2>4, <2>5 DEF Ordered
<1> QED
    BY <1>4, <1>5

(* A task joins the queue of the table's lock: nobody lives in it yet, and if *)
(* it lives in a handler's task, that one holds another lock.                 *)
LEMMA JoinsInOrder ==
    ASSUME NEW q \in [Locks -> Seq(Tasks)], NEW h, NEW l \in Locks, Ordered(l, q, h),
           NEW t \in Tasks, NEW q2, q2 = [q EXCEPT ![l] = Append(@, t)],
           \A w \in Waiters : h[w] # t \/ h[w] \notin FollowUps,
           t \in Waiters /\ h[t] \in FollowUps => ~Among(h[t], q[l])
    PROVE  Ordered(l, q2, h)
<1>1. PICK n \in Nat : \E r \in [Locks -> 0..n] : Newest(r, l, q) /\ Outward(r, q, h)
    BY DEF Ordered
<1>2. PICK r \in [Locks -> 0..n] : Newest(r, l, q) /\ Outward(r, q, h)
    BY <1>1
<1>3. /\ \A k \in Locks \ {l} : q2[k] = q[k]
      /\ \A k \in Locks : \A u : Among(u, q2[k]) <=> Among(u, q[k]) \/ (k = l /\ u = t)
    <2>1. q2[l] = Append(q[l], t) /\ \A k \in Locks \ {l} : q2[k] = q[k]
        OBVIOUS
    <2>2. \A u : Among(u, q2[l]) <=> Among(u, q[l]) \/ u = t
        BY <2>1, AppendedAmong
    <2> QED
        BY <2>1, <2>2
<1>4. Newest(r, l, q2)
    BY <1>2, <1>3 DEF Newest
<1>5. ASSUME NEW w \in Waiters, h[w] \in FollowUps, NEW a \in Locks, NEW m \in Locks,
             Among(h[w], q2[a]), Among(w, q2[m])
      PROVE  r[a] < r[m]
    <2>1. Among(h[w], q[a])
        BY <1>3, <1>5
    <2>2. CASE Among(w, q[m])
        BY <1>2, <1>5, <2>1, <2>2 DEF Outward
    <2>3. CASE m = l /\ w = t
        <3>1. a # l
            BY <1>5, <2>1, <2>3
        <3>2. q[a] # <<>>
            BY <2>1 DEF Among
        <3>3. l # None
            BY TasksApart
        <3> QED
            BY <1>2, <2>3, <3>1, <3>2, <3>3 DEF Newest
    <2> QED
        BY <1>3, <1>5, <2>2, <2>3
<1> QED
    BY <1>1, <1>4, <1>5 DEF Ordered, Outward

LEMMA StuckInit == Init => StuckInv
<1> SUFFICES ASSUME Init PROVE StuckInv
    OBVIOUS
<1>1. WaiterInv
    BY WaiterInitEstablishes
<1>2. HomesHandle /\ TimersRun
    BY TasksApart DEF Init, HomesHandle, TimersRun
<1>3. Ordered(lock, queue, home)
    <2>1. [l \in Locks |-> 0] \in [Locks -> 0..0]
        OBVIOUS
    <2>2. Newest([l \in Locks |-> 0], lock, queue) /\ Outward([l \in Locks |-> 0], queue, home)
        BY TasksApart DEF Init, Newest, Outward
    <2> QED
        BY <2>1, <2>2 DEF Ordered
<1> QED
    BY <1>1, <1>2, <1>3 DEF StuckInv

(* A task goes on that has begun: if it runs a handler it still does, or      *)
(* awaits no waiter there.                                                    *)
LEMMA HomesStay ==
    ASSUME StuckInv, UNCHANGED home, NEW t \in Tasks, NEW to, to # "idle",
           pc' = [pc EXCEPT ![t] = to],
           t \in Waiters => pc[t] \notin {"idle", "done"},
           t \in FollowUps /\ pc[t] = "handling" => to = "handling" \/ ~Awaiting(t),
           to = "handling" => t \in FollowUps
    PROVE  HomesHandle'
<1>1. \A u \in Tasks : pc'[u] = IF u = t THEN to ELSE pc[u]
    BY DEF StuckInv, WaiterInv, QueuesKept
<1> QED
    BY <1>1, TasksApart DEF StuckInv, HomesHandle, Awaiting

(* Timers: a step that touches none, and one that ends a waiter.              *)
LEMMA TimersStay ==
    ASSUME StuckInv,
           UNCHANGED <<future, armed, fired>> \/ \E w : Finish(w),
           \A u \in Tasks : pc'[u] = "waiting" => pc[u] = "waiting"
    PROVE  TimersRun'
<1>1. CASE UNCHANGED <<future, armed, fired>>
    BY <1>1 DEF StuckInv, TimersRun
<1>2. ASSUME NEW w, Finish(w) PROVE TimersRun'
    BY <1>2 DEF Finish, StuckInv, TimersRun, WaiterInv, WaiterTypes
<1> QED
    BY <1>1, <1>2

(* The table is looked up: its lock stays, or is a new one.                   *)
LEMMA TableMoves ==
    ASSUME WaiterInv, Ordered(lock, queue, home)
    PROVE  /\ lock = LockFor \/ (LockFor \in Locks /\ queue[LockFor] = <<>>)
           /\ Ordered(LockFor, queue, home)
<1>1. lock = LockFor \/ (LockFor \in Locks /\ queue[LockFor] = <<>>)
    BY LockForHolds DEF LockFor
<1>2. PICK k : k = LockFor
    OBVIOUS
<1>3. k = lock \/ (k \in Locks /\ queue[k] = <<>>)
    BY <1>1, <1>2
<1>4. Ordered(k, queue, home)
    BY <1>3, Reorders
<1> QED
    BY <1>1, <1>2, <1>4

LEMMA RegisterUnstuck ==
    ASSUME StuckInv, NEW w \in Waiters,
           Register(w) \/ RegisterBelow(w) \/ \E d \in FollowUps : RegisterWithin(w, d)
    PROVE  StuckInv'
<1>1. WaiterInv'
    BY RegisterKeeps DEF StuckInv
<1>2. PICK h \in Waiters \cup FollowUps, nested \in BOOLEAN :
          /\ pc[w] = "idle" /\ Replace(w, nested) /\ home' = [home EXCEPT ![w] = h]
          /\ h = w \/ (h \in FollowUps /\ pc[h] = "handling")
    <2>1. CASE Register(w)
        BY <2>1 DEF Register
    <2>2. CASE RegisterBelow(w)
        BY <2>2 DEF RegisterBelow
    <2>3. ASSUME NEW d \in FollowUps, RegisterWithin(w, d)
          PROVE  /\ pc[w] = "idle" /\ Replace(w, TRUE) /\ home' = [home EXCEPT ![w] = d]
                 /\ pc[d] = "handling"
        BY <2>3 DEF RegisterWithin
    <2> QED
        BY <2>1, <2>2, <2>3
<1>3. /\ pc' = [pc EXCEPT ![w] = "registering"] /\ lock' = LockFor /\ UNCHANGED queue
      /\ UNCHANGED <<future, armed, fired>> \/ Finish(entry)
    BY <1>2 DEF Replace
<1>4. /\ \A u \in Tasks : pc'[u] = IF u = w THEN "registering" ELSE pc[u]
      /\ \A v \in Waiters : home'[v] = IF v = w THEN h ELSE home[v]
    BY <1>2, <1>3 DEF StuckInv, WaiterInv, WaiterTypes, QueuesKept
<1>5. HomesHandle'
    BY <1>2, <1>4, TasksApart DEF StuckInv, HomesHandle
<1>6. TimersRun'
    BY <1>3, <1>4, TimersStay, TasksApart
<1>7. Ordered(lock', queue, home)
    BY <1>3, TableMoves DEF StuckInv
<1>8. \A l \in Locks : ~Among(w, queue[l])
    BY <1>2, TasksApart DEF StuckInv, WaiterInv, QueuesKept, Holding
<1>9. Ordered(lock', queue', home')
    BY <1>3, <1>4, <1>7, <1>8 DEF Ordered, Outward
<1> QED
    BY <1>1, <1>5, <1>6, <1>9 DEF StuckInv

LEMMA PlainUnstuck ==
    ASSUME StuckInv, NEW w \in Waiters,
           Registered(w) \/ Return(w) \/ Unregistered(w) \/ Deadline(w) \/ Expire(w)
    PROVE  StuckInv'
<1>1. WaiterInv'
    BY PlainStepsKeep DEF StuckInv
<1>2. UNCHANGED <<lock, queue, home>>
    BY DEF Registered, Return, Unregistered, Deadline, Expire
<1>3. HomesHandle'
    <2>1. CASE UNCHANGED pc
        BY <1>2, <2>1 DEF StuckInv, HomesHandle
    <2>2. CASE Registered(w) \/ Return(w) \/ Unregistered(w)
        <3>1. PICK to \in {"waiting", "done"} : pc' = [pc EXCEPT ![w] = to]
            BY <2>2 DEF Registered, Return, Unregistered
        <3>2. pc[w] \notin {"idle", "done"} /\ w \in Tasks /\ w \notin FollowUps
            BY <2>2, TasksApart DEF Registered, Return, Unregistered
        <3> QED
            BY <1>2, <3>1, <3>2, HomesStay
    <2> QED
        BY <2>1, <2>2 DEF Deadline, Expire
<1>4. TimersRun'
    <2>0. /\ pc \in [Tasks -> Positions] /\ w \in Tasks
          /\ future \in [Waiters -> {"pending", "done"}]
          /\ armed \in [Waiters -> BOOLEAN] /\ fired \in [Waiters -> BOOLEAN]
        BY TasksApart DEF StuckInv, WaiterInv, WaiterTypes, QueuesKept
    <2>1. CASE Registered(w)
        <3>1. /\ pc' = [pc EXCEPT ![w] = "waiting"] /\ UNCHANGED <<future, fired>>
              /\ armed' = [armed EXCEPT ![w] = future[w] = "pending"]
            BY <2>1 DEF Registered
        <3>2. /\ \A v \in Tasks \ {w} : pc'[v] = pc[v]
              /\ \A v \in Waiters \ {w} : armed'[v] = armed[v]
            BY <2>0, <3>1, TasksApart
        <3>3. armed'[w] \/ future'[w] = "done"
            BY <2>0, <3>1
        <3> QED
            BY <3>1, <3>2, <3>3 DEF StuckInv, TimersRun
    <2>2. CASE Return(w) \/ Unregistered(w)
        <3>1. pc' = [pc EXCEPT ![w] = "done"] /\ UNCHANGED <<future, armed, fired>>
            BY <2>2 DEF Return, Unregistered
        <3>2. \A v \in Tasks : pc'[v] = "waiting" => pc[v] = "waiting"
            BY <2>0, <3>1, TasksApart
        <3> QED
            BY <3>1, <3>2, TimersStay
    <2>3. CASE Deadline(w)
        <3>1. /\ UNCHANGED <<pc, future>>
              /\ armed' = [armed EXCEPT ![w] = FALSE] /\ fired' = [fired EXCEPT ![w] = TRUE]
            BY <2>3 DEF Deadline
        <3>2. fired'[w] /\ \A v \in Waiters \ {w} : armed'[v] = armed[v] /\ fired'[v] = fired[v]
            BY <2>0, <3>1
        <3> QED
            BY <3>1, <3>2 DEF StuckInv, TimersRun
    <2>4. CASE Expire(w)
        BY <2>4, TimersStay DEF Expire
    <2> QED
        BY <2>1, <2>2, <2>3, <2>4
<1> QED
    BY <1>1, <1>2, <1>3, <1>4 DEF StuckInv

(* A task that joins the queue.                                               *)
LEMMA EnqueueOrdered ==
    ASSUME StuckInv, NEW t \in Tasks, Enqueue(t), UNCHANGED home,
           t \in FollowUps => pc[t] = "idle",
           t \in Waiters => pc[t] # "done" /\ ~Free(t)
    PROVE  Ordered(lock', queue', home')
<1>1. PICK l \in Locks : l = LockFor
    BY LockForHolds DEF StuckInv
<1>2. queue' = [queue EXCEPT ![l] = Append(@, t)] /\ lock' = l
    BY <1>1 DEF Enqueue
<1>3. Ordered(l, queue, home)
    BY <1>1, TableMoves DEF StuckInv
<1>4. queue \in [Locks -> Seq(Tasks)] /\ \A k \in Locks : Once(queue[k])
    BY DEF StuckInv, WaiterInv, QueuesKept
<1>5. \A w \in Waiters : home[w] # t \/ home[w] \notin FollowUps
    BY DEF StuckInv, WaiterInv, HomesBusy
<1>6. ASSUME t \in Waiters, NEW d \in FollowUps, d = home[t], Among(d, queue[l]),
             pc[d] = "handling"
      PROVE  FALSE
    <2>1. PICK k \in Locks : Heads(d, queue[k])
        BY <1>6, TasksApart DEF StuckInv, WaiterInv, QueuesKept
    <2>2. Among(d, queue[k])
        BY <1>4, <2>1, TailAmong DEF Heads
    <2>3. k = l
        BY <1>6, <2>2, TasksApart DEF StuckInv, WaiterInv, QueuesKept, QueuesApart
    <2>4. queue[l] # <<>> /\ Head(queue[l]) = d
        BY <1>4, <2>1, <2>3, TailAmong DEF Heads
    <2>5. Owns(t, l)
        BY <1>6, <2>4, TasksApart DEF Owns, Home
    <2> QED
        BY <1>1, <1>6, <2>5 DEF Free
<1>7. t \in Waiters /\ home[t] \in FollowUps => ~Among(home[t], queue[l])
    BY <1>6 DEF StuckInv, HomesHandle
<1> QED
    BY <1>2, <1>3, <1>4, <1>5, <1>7, JoinsInOrder

(* Under the lock: the queue moves on or stays, the lock may be dropped.      *)
LEMMA UnderLockOrdered ==
    ASSUME StuckInv, NEW t \in Tasks, NEW l \in Locks, UnderLock(t, l), UNCHANGED home,
           \/ lock' \in {Table(t), Drop(t, l)}
           \/ lock' \in Locks /\ queue'[lock'] = <<>>
    PROVE  Ordered(lock', queue', home')
<1>1. queue \in [Locks -> Seq(Tasks)] /\ \A k \in Locks : Once(queue[k])
    BY DEF StuckInv, WaiterInv, QueuesKept
<1>2. queue' = queue \/ (queue[l] # <<>> /\ queue' = [queue EXCEPT ![l] = Tail(@)])
    BY DEF UnderLock, Granted
<1>3. /\ \A k \in Locks : queue'[k] # <<>> => queue[k] # <<>>
      /\ \A k \in Locks, u \in Tasks : Among(u, queue'[k]) => Among(u, queue[k])
    <2>1. CASE queue' = queue
        BY <2>1
    <2>2. CASE queue[l] # <<>> /\ queue' = [queue EXCEPT ![l] = Tail(@)]
        <3>1. queue'[l] = Tail(queue[l]) /\ \A k \in Locks \ {l} : queue'[k] = queue[k]
            BY <1>1, <2>2
        <3>2. \A u : Among(u, Tail(queue[l])) => Among(u, queue[l])
            BY <1>1, <2>2, TailAmong
        <3> QED
            BY <2>2, <3>1, <3>2
    <2> QED
        BY <1>2, <2>1, <2>2
<1>4. lock' = None \/ lock' = lock \/ (lock' \in Locks /\ queue'[lock'] = <<>>)
    <2>1. LockFor = lock \/ (LockFor \in Locks /\ queue'[LockFor] = <<>>)
        BY <1>3, TableMoves DEF StuckInv
    <2> QED
        BY <2>1 DEF Table, Drop
<1> QED
    BY <1>3, <1>4, Reorders DEF StuckInv

LEMMA WaitsUnstuck ==
    ASSUME StuckInv,
           \/ \E w \in Waiters : Refused(w) \/ Leave(w)
           \/ \E d \in FollowUps : Follow(d)
           \/ \E f \in Failures : FailWaits(f)
    PROVE  StuckInv'
<1>1. WaiterInv'
    BY WaitsKeep DEF StuckInv
<1>2. PICK t \in Tasks, to \in {"removing", "leaving", "locking"} :
        /\ Enqueue(t) /\ pc' = [pc EXCEPT ![t] = to]
        /\ t \in FollowUps => pc[t] = "idle"
        /\ t \in Waiters => pc[t] \notin {"idle", "done"} /\ ~Free(t)
    <2>1. ASSUME NEW w \in Waiters, Refused(w) \/ Leave(w)
          PROVE  \E to \in {"removing", "leaving"} :
                    /\ Enqueue(w) /\ pc' = [pc EXCEPT ![w] = to]
                    /\ pc[w] \notin {"idle", "done"} /\ ~Free(w)
        BY <2>1 DEF Refused, Leave
    <2>2. ASSUME NEW d \in FollowUps \cup Failures, Follow(d) \/ FailWaits(d)
          PROVE  Enqueue(d) /\ pc' = [pc EXCEPT ![d] = "locking"] /\ pc[d] = "idle"
        BY <2>2 DEF Follow, FailWaits
    <2>3. \A w \in Waiters : w \in Tasks /\ w \notin FollowUps
        BY TasksApart
    <2>4. \A d \in FollowUps \cup Failures : d \in Tasks /\ d \notin Waiters
        BY WaiterAssumption, TasksApart
    <2> QED
        BY <2>1, <2>2, <2>3, <2>4
<1>3. UNCHANGED <<home, future, armed, fired>>
    BY DEF Refused, Leave, Follow, FailWaits
<1>4. Ordered(lock', queue', home')
    BY <1>2, <1>3, EnqueueOrdered
<1>5. HomesHandle'
    BY <1>2, <1>3, HomesStay
<1>6. TimersRun'
    <2>1. \A u \in Tasks : pc'[u] = "waiting" => pc[u] = "waiting"
        BY <1>2, TasksApart DEF StuckInv, WaiterInv, QueuesKept
    <2> QED
        BY <1>3, <2>1, TimersStay
<1> QED
    BY <1>1, <1>4, <1>5, <1>6 DEF StuckInv

LEMMA LockedUnstuck ==
    ASSUME StuckInv,
           \/ \E w \in Waiters : Removed(w) \/ Unregister(w)
           \/ \E d \in FollowUps : Miss(d)
           \/ \E f \in Failures : Fail(f)
    PROVE  StuckInv'
<1>1. WaiterInv'
    BY RemovedKeeps, LockedStepsKeep DEF StuckInv
<1>2. PICK t \in Tasks, l \in Locks, to \in {"done", "unregistering"} :
        /\ UnderLock(t, l) /\ pc' = [pc EXCEPT ![t] = to]
        /\ lock' \in {Table(t), Drop(t, l), CHOOSE k \in Locks : queue'[k] = <<>>}
        /\ t \in Waiters => pc[t] \notin {"idle", "done"}
        /\ pc[t] # "handling"
    <2>1. ASSUME NEW w \in Waiters, Removed(w)
          PROVE  \E l \in Locks :
                    /\ UnderLock(w, l) /\ pc' = [pc EXCEPT ![w] = "done"]
                    /\ lock' \in {Table(w), Drop(w, l), CHOOSE k \in Locks : queue'[k] = <<>>}
                    /\ pc[w] \notin {"idle", "done", "handling"}
        BY <2>1 DEF Removed
    <2>2. ASSUME NEW w \in Waiters, Unregister(w)
          PROVE  \E l \in Locks, to \in {"done", "unregistering"} :
                    /\ UnderLock(w, l) /\ pc' = [pc EXCEPT ![w] = to]
                    /\ lock' \in {Table(w), Drop(w, l)}
                    /\ pc[w] \notin {"idle", "done", "handling"}
        BY <2>2 DEF Unregister
    <2>3. ASSUME NEW d \in FollowUps \cup Failures, Miss(d) \/ Fail(d)
          PROVE  \E l \in Locks :
                    /\ UnderLock(d, l) /\ pc' = [pc EXCEPT ![d] = "done"] /\ lock' = Table(d)
                    /\ pc[d] # "handling"
        BY <2>3 DEF Miss, Fail
    <2>4. \A w \in Waiters : w \in Tasks
        BY TasksApart
    <2>5. \A d \in FollowUps \cup Failures : d \in Tasks /\ d \notin Waiters
        BY WaiterAssumption, TasksApart
    <2> QED
        BY <2>1, <2>2, <2>3, <2>4, <2>5
<1>3. UNCHANGED home /\ (UNCHANGED <<future, armed, fired>> \/ \E w : Finish(w))
    BY DEF Removed, Unregister, Miss, Fail
<1>4. Ordered(lock', queue', home')
    <2>1. QueuesKept(queue', pc')
        BY <1>1 DEF WaiterInv
    <2>2. PICK k : k = CHOOSE m \in Locks : queue'[m] = <<>>
        OBVIOUS
    <2>3. k \in Locks /\ queue'[k] = <<>>
        BY <2>1, <2>2, SomeLockIsFree
    <2>4. lock' \in {Table(t), Drop(t, l)} \/ (lock' \in Locks /\ queue'[lock'] = <<>>)
        BY <1>2, <2>2, <2>3
    <2> QED
        BY <1>2, <1>3, <2>4, UnderLockOrdered
<1>5. HomesHandle'
    BY <1>2, <1>3, HomesStay
<1>6. TimersRun'
    <2>1. \A u \in Tasks : pc'[u] = "waiting" => pc[u] = "waiting"
        BY <1>2, TasksApart DEF StuckInv, WaiterInv, QueuesKept
    <2> QED
        BY <1>3, <2>1, TimersStay
<1> QED
    BY <1>1, <1>4, <1>5, <1>6 DEF StuckInv

LEMMA CancelUnstuck ==
    ASSUME StuckInv,
           \/ \E w \in Waiters : CancelWaiter(w)
           \/ \E t \in Tasks : CancelLocking(t)
    PROVE  StuckInv'
<1>1. WaiterInv'
    BY CancelsKeep DEF StuckInv
<1>2. UNCHANGED <<lock, home>>
    BY DEF CancelWaiter, CancelLocking
<1>3. CASE UNCHANGED <<pc, queue>> /\ \E w : Finish(w)
    <2>1. Ordered(lock', queue', home')
        BY <1>2, <1>3 DEF StuckInv
    <2>2. HomesHandle'
        BY <1>2, <1>3 DEF StuckInv, HomesHandle
    <2>3. TimersRun'
        BY <1>3, TimersStay
    <2> QED
        BY <1>1, <2>1, <2>2, <2>3 DEF StuckInv
<1>4. ASSUME NEW t \in Tasks, pc' = [pc EXCEPT ![t] = "done"],
             queue' = [l \in Locks |-> WithoutTask(queue[l], t)],
             UNCHANGED <<future, armed, fired>>,
             t \in Waiters => pc[t] \notin {"idle", "done"}, pc[t] # "handling"
      PROVE  StuckInv'
    <2>1. HomesHandle'
        BY <1>2, <1>4, HomesStay
    <2>2. TimersRun'
        <3>1. \A u \in Tasks : pc'[u] = "waiting" => pc[u] = "waiting"
            BY <1>4, TasksApart DEF StuckInv, WaiterInv, QueuesKept
        <3> QED
            BY <1>4, <3>1, TimersStay
    <2>3. ASSUME NEW l \in Locks
          PROVE  \A u \in Tasks : Among(u, queue'[l]) => Among(u, queue[l])
        <3>1. queue[l] \in Seq(Tasks) /\ Once(queue[l]) /\ queue'[l] = WithoutTask(queue[l], t)
            BY <1>4 DEF StuckInv, WaiterInv, QueuesKept
        <3> QED
            BY <3>1, WithoutAmong
    <2>4. ASSUME NEW l \in Locks, queue'[l] # <<>> PROVE queue[l] # <<>>
        <3>1. queue'[l] \in Seq(Tasks)
            BY <1>1 DEF WaiterInv, QueuesKept
        <3>2. queue'[l][1] \in Tasks /\ 1 \in DOMAIN queue'[l]
            BY <2>4, <3>1
        <3>3. Among(queue'[l][1], queue[l])
            BY <2>3, <3>2 DEF Among
        <3> QED
            BY <3>3 DEF Among
    <2>5. Ordered(lock', queue', home')
        BY <1>2, <2>3, <2>4, Reorders DEF StuckInv
    <2> QED
        BY <1>1, <2>1, <2>2, <2>5 DEF StuckInv
<1>5. ASSUME NEW w \in Waiters, CancelWaiter(w) PROVE StuckInv'
    BY <1>3, <1>4, <1>5, TasksApart DEF CancelWaiter
<1>6. ASSUME NEW t \in Tasks, CancelLocking(t) PROVE StuckInv'
    BY <1>4, <1>6 DEF CancelLocking
<1> QED
    BY <1>5, <1>6

(* A set of numbers has a least one.                                          *)
LEMMA LeastNumber ==
    ASSUME NEW S \in SUBSET Nat, S # {}
    PROVE  \E n \in S : \A m \in S : n <= m
<1>1. IsWellFoundedOn(OpToRel(<, Nat), Nat)
    BY NatLessThanWellFounded
<1>2. PICK n \in S : \A m \in Nat : <<m, n>> \in OpToRel(<, Nat) => m \notin S
    BY <1>1, WFMin
<1>3. ASSUME NEW m \in S, m < n PROVE FALSE
    <2>1. <<m, n>> \in OpToRel(<, Nat)
        BY <1>3 DEF OpToRel
    <2> QED
        BY <1>2, <2>1
<1>4. n \in Nat /\ \A m \in S : m \in Nat
    OBVIOUS
<1> QED
    BY <1>3, <1>4

LEMMA HandlersUnstuck ==
    ASSUME StuckInv, NEW d \in FollowUps,
           Serve(d) \/ Stop(d) \/ KeepAlive(d) \/ HandlerReturns(d)
    PROVE  StuckInv'
<1>1. WaiterInv'
    BY ServeKeeps, HandlersKeep DEF StuckInv
<1>0. d \in Tasks /\ d \notin Waiters
    BY TasksApart
<1>2. CASE Serve(d)
    <2>1. /\ pc' = [pc EXCEPT ![d] = "handling"] /\ UNCHANGED <<home, future, armed, fired>>
          /\ \/ pc[d] = "idle" /\ Enqueue(d)
             \/ pc[d] = "locking" /\ UNCHANGED <<lock, queue>>
        BY <1>2 DEF Serve
    <2>2. Ordered(lock', queue', home')
        BY <1>0, <2>1, EnqueueOrdered DEF StuckInv
    <2>3. HomesHandle'
        BY <1>0, <2>1, HomesStay
    <2>4. TimersRun'
        <3>1. \A u \in Tasks : pc'[u] = "waiting" => pc[u] = "waiting"
            BY <2>1, TasksApart DEF StuckInv, WaiterInv, QueuesKept
        <3> QED
            BY <2>1, <3>1, TimersStay
    <2> QED
        BY <1>1, <2>2, <2>3, <2>4 DEF StuckInv
<1>3. CASE Stop(d) \/ KeepAlive(d)
    <2>1. UNCHANGED <<lock, queue, home, pc>>
        BY <1>3 DEF Stop, KeepAlive
    <2>2. TimersRun'
        <3>1. CASE Stop(d)
            BY <2>1, <3>1, TimersStay DEF Stop
        <3>2. CASE KeepAlive(d)
            BY <2>1, <3>2 DEF KeepAlive, StuckInv, TimersRun, WaiterInv, WaiterTypes
        <3> QED
            BY <1>3, <3>1, <3>2
    <2> QED
        BY <1>1, <2>1, <2>2 DEF StuckInv, HomesHandle
<1>4. CASE HandlerReturns(d)
    <2>1. /\ pc' = [pc EXCEPT ![d] = "done"] /\ pc[d] = "handling" /\ ~Awaiting(d)
          /\ queue' = [l \in Locks |-> IF Granted(d, l) THEN Tail(queue[l]) ELSE queue[l]]
          /\ UNCHANGED <<lock, home, future, armed, fired>>
        BY <1>4 DEF HandlerReturns, Handling
    <2>2. HomesHandle'
        BY <1>0, <2>1, HomesStay
    <2>3. TimersRun'
        <3>1. \A u \in Tasks : pc'[u] = "waiting" => pc[u] = "waiting"
            BY <2>1, TasksApart DEF StuckInv, WaiterInv, QueuesKept
        <3> QED
            BY <2>1, <3>1, TimersStay
    <2>4. ASSUME NEW l \in Locks
          PROVE  /\ queue'[l] # <<>> => queue[l] # <<>>
                 /\ \A u \in Tasks : Among(u, queue'[l]) => Among(u, queue[l])
        <3>1. queue[l] \in Seq(Tasks) /\ Once(queue[l])
            BY DEF StuckInv, WaiterInv, QueuesKept
        <3>2. CASE queue'[l] = queue[l]
            BY <3>2
        <3>3. CASE queue'[l] = Tail(queue[l]) /\ queue[l] # <<>>
            BY <3>1, <3>3, TailAmong
        <3> QED
            BY <2>1, <3>2, <3>3 DEF Granted
    <2>5. Ordered(lock', queue', home')
        BY <2>1, <2>4, Reorders DEF StuckInv
    <2> QED
        BY <1>1, <2>2, <2>3, <2>5 DEF StuckInv
<1> QED
    BY <1>2, <1>3, <1>4

LEMMA StuckNext == StuckInv /\ [Next]_vars => StuckInv'
<1> SUFFICES ASSUME StuckInv, [Next]_vars PROVE StuckInv'
    OBVIOUS
<1>1. CASE UNCHANGED vars
    <2>1. WaiterInv'
        BY <1>1, WaiterNextKeeps DEF StuckInv
    <2> QED
        BY <1>1, <2>1 DEF vars, StuckInv, HomesHandle, TimersRun
<1>2. ASSUME NEW w \in Waiters,
             \/ Register(w) \/ RegisterBelow(w) \/ WaiterStep(w) \/ CancelWaiter(w)
             \/ \E d \in FollowUps : RegisterWithin(w, d)
      PROVE  StuckInv'
    BY <1>2, RegisterUnstuck, PlainUnstuck, WaitsUnstuck, LockedUnstuck, CancelUnstuck
       DEF WaiterStep
<1>3. ASSUME NEW d \in FollowUps, Follow(d) \/ FollowUpStep(d) \/ Stop(d) \/ KeepAlive(d)
      PROVE  StuckInv'
    BY <1>3, WaitsUnstuck, LockedUnstuck, HandlersUnstuck DEF FollowUpStep
<1>4. ASSUME NEW f \in Failures, FailWaits(f) \/ Fail(f) PROVE StuckInv'
    BY <1>4, WaitsUnstuck, LockedUnstuck
<1>5. ASSUME NEW t \in Tasks, CancelLocking(t) PROVE StuckInv'
    BY <1>5, CancelUnstuck
<1> QED
    BY <1>1, <1>2, <1>3, <1>4, <1>5 DEF Next

LEMMA StuckInvHolds == Spec => []StuckInv
BY StuckInit, StuckNext, PTL DEF Spec

(* Of the locks that owners in a set of tasks hold, there is a newest one.    *)
LEMMA NewestOf ==
    ASSUME NEW n \in Nat, NEW r \in [Locks -> 0..n], NEW held \in SUBSET Locks, held # {}
    PROVE  \E l \in held : \A k \in held : r[k] <= r[l]
<1> DEFINE ages == {n - r[l] : l \in held}
<1>1. \A l \in held : r[l] \in 0..n /\ n - r[l] \in Nat
    OBVIOUS
<1>2. ages \in SUBSET Nat /\ ages # {}
    BY <1>1
<1>3. PICK age \in ages : \A a \in ages : age <= a
    BY <1>2, LeastNumber
<1>4. PICK l \in held : age = n - r[l]
    OBVIOUS
<1>5. \A k \in held : n - r[l] <= n - r[k]
    BY <1>3, <1>4
<1> QED
    BY <1>1, <1>5

(* Who cannot go on waits for the owner of a lock, or owns one and awaits a   *)
(* waiter in its handler.                                                     *)
LEMMA StuckBehind ==
    ASSUME StuckInv, NEW t \in Tasks, pc[t] \notin {"idle", "done"}, ~CanGoOn(t)
    PROVE  \E l \in Locks :
              /\ Among(t, queue[l]) /\ queue[l] # <<>> /\ Head(queue[l]) \in Tasks
              /\ pc[Head(queue[l])] \in Holding
              /\ IF pc[t] = "handling" THEN Head(queue[l]) = t /\ Awaiting(t)
                                       ELSE Head(queue[l]) # t /\ WaitsFor(t, Head(queue[l]))
<1>1. /\ pc[t] \in Positions
      /\ \A l \in Locks : queue[l] \in Seq(Tasks) /\ Once(queue[l])
      /\ \A u \in Tasks : (\E l \in Locks : Among(u, queue[l])) <=> pc[u] \in Holding
    BY DEF StuckInv, WaiterInv, QueuesKept
<1>2. ASSUME NEW l \in Locks, Among(t, queue[l])
      PROVE  /\ queue[l] # <<>> /\ Head(queue[l]) \in Tasks
             /\ pc[Head(queue[l])] \in Holding
    <2>1. queue[l] # <<>>
        BY <1>2 DEF Among
    <2>2. Head(queue[l]) \in Tasks /\ Among(Head(queue[l]), queue[l])
        BY <1>1, <2>1, TailAmong
    <2> QED
        BY <1>1, <2>1, <2>2
<1>3. pc[t] \in Holding
    <2>1. CASE pc[t] = "waiting"
        BY <2>1 DEF CanGoOn, StuckInv, TimersRun
    <2>2. CASE pc[t] # "waiting"
        BY <1>1, <2>2 DEF CanGoOn, Positions, WaiterPC, FollowUpPC, FailurePC, Holding
    <2> QED
        BY <2>1, <2>2
<1>4. CASE pc[t] = "handling"
    <2>1. PICK l \in Locks : Heads(t, queue[l])
        BY <1>4 DEF StuckInv, WaiterInv, QueuesKept
    <2>2. queue[l] # <<>> /\ Head(queue[l]) = t /\ Among(t, queue[l])
        BY <1>1, <2>1, TailAmong DEF Heads
    <2>3. Awaiting(t)
        BY <1>4 DEF CanGoOn
    <2> QED
        BY <1>2, <1>4, <2>2, <2>3
<1>5. CASE pc[t] # "handling"
    <2>1. PICK l \in Locks : Among(t, queue[l])
        BY <1>1, <1>3
    <2>2. queue[l] # <<>> /\ Head(queue[l]) # t
        BY <1>2, <1>3, <1>5, <2>1 DEF CanGoOn, Granted, Holding
    <2>3. t \in ToSet(queue[l])
        BY <2>1 DEF Among, ToSet
    <2>4. WaitsFor(t, Head(queue[l]))
        BY <2>2, <2>3 DEF WaitsFor
    <2> QED
        BY <1>2, <1>5, <2>1, <2>2, <2>4
<1> QED
    BY <1>4, <1>5

(* The waiters of a session never deadlock, however many there are, however   *)
(* they nest, and whatever locks were dropped meanwhile: among the owners in  *)
(* a set of stuck tasks, the one with the newest lock would have to await one *)
(* that waits for a newer lock still.                                         *)
THEOREM WaitersNeverDeadlock == Spec => []NobodyIsStuck
<1>1. ASSUME StuckInv, NEW stuck \in SUBSET {t \in Tasks : pc[t] \notin {"idle", "done"}},
             stuck # {},
             \A t \in stuck : ~CanGoOn(t) /\ \A u \in Tasks \ stuck : ~WaitsFor(t, u)
      PROVE  FALSE
    <2> DEFINE held == {l \in Locks : /\ queue[l] # <<>> /\ Head(queue[l]) \in stuck
                                      /\ pc[Head(queue[l])] = "handling"}
    <2>1. \A t \in stuck : t \in Tasks /\ pc[t] \notin {"idle", "done"}
        OBVIOUS
    <2>2. ASSUME NEW t \in stuck
          PROVE  \E l \in held : Among(t, queue[l]) /\ (pc[t] # "handling" => Head(queue[l]) # t)
        <3>1. PICK l \in Locks :
                  /\ Among(t, queue[l]) /\ queue[l] # <<>> /\ Head(queue[l]) \in Tasks
                  /\ pc[Head(queue[l])] \in Holding
                  /\ IF pc[t] = "handling" THEN Head(queue[l]) = t /\ Awaiting(t)
                                           ELSE Head(queue[l]) # t /\ WaitsFor(t, Head(queue[l]))
            BY <1>1, <2>1, StuckBehind
        <3>2. Head(queue[l]) \in stuck
            BY <1>1, <3>1
        <3>3. pc[Head(queue[l])] = "handling"
            BY <1>1, <3>1, <3>2 DEF CanGoOn, Granted, Holding
        <3> QED
            BY <3>1, <3>2, <3>3
    <2>3. held # {}
        BY <1>1, <2>2
    <2>4. PICK n \in Nat : \E r \in [Locks -> 0..n] :
              Newest(r, lock, queue) /\ Outward(r, queue, home)
        BY <1>1 DEF StuckInv, Ordered
    <2>5. PICK r \in [Locks -> 0..n] : Outward(r, queue, home)
        BY <2>4
    <2>6. PICK l \in held : \A k \in held : r[k] <= r[l]
        <3>1. held \in SUBSET Locks
            OBVIOUS
        <3> HIDE DEF held
        <3> QED
            BY <2>3, <3>1, NewestOf
    <2>7. PICK h \in stuck : h = Head(queue[l]) /\ pc[h] = "handling"
        OBVIOUS
    <2>8. PICK w \in Waiters : home[w] = h /\ pc[w] # "done"
        BY <1>1, <2>7 DEF CanGoOn, Awaiting
    <2>9. h \in FollowUps /\ pc[w] # "idle"
        BY <1>1, <2>1, <2>7, <2>8, TasksApart DEF StuckInv, HomesHandle
    <2>10. w \in stuck
        <3>1. WaitsFor(h, w)
            BY <2>7, <2>8 DEF WaitsFor
        <3> QED
            BY <1>1, <2>8, <2>9, <3>1, TasksApart
    <2>11. PICK m \in held : Among(w, queue[m])
        BY <2>2, <2>10
    <2>12. Among(h, queue[l])
        <3>1. queue[l] \in Seq(Tasks) /\ Once(queue[l]) /\ queue[l] # <<>>
            BY <1>1 DEF StuckInv, WaiterInv, QueuesKept
        <3> QED
            BY <2>7, <3>1, TailAmong
    <2>13. r[l] < r[m] /\ r[m] <= r[l] /\ r[l] \in 0..n /\ r[m] \in 0..n
        BY <2>5, <2>6, <2>8, <2>9, <2>11, <2>12 DEF Outward
    <2> QED
        BY <2>13
<1>2. TypeOK /\ StuckInv => NobodyIsStuck
    BY <1>1 DEF NobodyIsStuck
<1> QED
    BY <1>2, WaitersTyped, StuckInvHolds, PTL

-----------------------------------------------------------------------------
(* Conversations, for any sessions, personas and number of conversations.     *)

(* The store hands out each id once, so what has not been created yet belongs *)
(* to no session: without it conversation.new could move another session's.   *)
FreshIsFree == \A c \in ConvIds : c > created => sessionOf[c] = NoSession

ConvInv == ConvTypeOK /\ CurrentStands /\ FreshIsFree

USE ConvAssumption DEF ConvIds, NoConv

LEMMA ConvInitEstablishes == ConvInit => ConvInv
    BY DEF ConvInit, ConvInv, ConvTypeOK, CurrentStands, FreshIsFree, ConvsOf

(* What is left of a session that loses a conversation has a first one.       *)
LEMMA FirstIsLeft ==
    ASSUME NEW s \in ConvSessions, NEW left \in SUBSET ConvIds
    PROVE  /\ left = {} => ConvFirst(s, left) = NoConv
           /\ left # {} => ConvFirst(s, left) \in left
<1>1. ASSUME left # {} PROVE \E c \in left : \A d \in left : c <= d
    <2> DEFINE upTo == {1..c : c \in left}
    <2>1. IsFiniteSet(ConvIds)
        BY FS_Interval
    <2>2. IsWellFoundedOn(StrictSubsetOrdering(ConvIds), SUBSET ConvIds)
        BY <2>1, FS_StrictSubsetOrderingWellFounded, FS_FiniteSubsetsOfFinite
    <2>3. upTo \subseteq SUBSET ConvIds /\ upTo # {}
        <3>1. \A c \in left : 1..c \subseteq ConvIds
            OBVIOUS
        <3>2. PICK c \in left : TRUE
            BY <1>1
        <3>3. 1..c \in upTo
            BY <3>2
        <3> QED
            BY <3>1, <3>3
    <2>4. PICK least \in upTo :
              \A ids \in upTo : ~(<<ids, least>> \in StrictSubsetOrdering(ConvIds))
        BY <2>2, <2>3, WFMin
    <2>5. PICK c \in left : least = 1..c
        OBVIOUS
    <2>6. ASSUME NEW d \in left, d < c PROVE FALSE
        <3>1. 1..d \subseteq 1..c /\ c \in 1..c /\ c \notin 1..d
            BY <2>6
        <3>2. <<1..d, 1..c>> \in StrictSubsetOrdering(ConvIds)
            BY <3>1 DEF StrictSubsetOrdering
        <3> QED
            BY <2>4, <2>5, <3>2
    <2> QED
        BY <2>6
<1> QED
    BY <1>1 DEF ConvFirst

(* A new conversation is the current one of its session, and no other session *)
(* gains or loses any.                                                        *)
LEMMA CreatePreserves ==
    ASSUME ConvInv, NEW s \in ConvSessions, NEW p \in Personas \cup {NoPersona},
           ConvCreate(s, p)
    PROVE  ConvInv'
<1> DEFINE n == created + 1
<1>1. /\ n \in ConvIds
      /\ sessionOf' = [sessionOf EXCEPT ![n] = s]
      /\ personaOf' = [personaOf EXCEPT ![n] = p]
      /\ current' = [current EXCEPT ![s] = n]
      /\ created' = n /\ personas' = personas
    BY DEF ConvCreate, ConvInv, ConvTypeOK
<1>2. ConvTypeOK'
    BY <1>1 DEF ConvInv, ConvTypeOK
<1>3. FreshIsFree'
    BY <1>1 DEF ConvInv, ConvTypeOK, FreshIsFree
<1>4. CurrentStands'
    <2> SUFFICES ASSUME NEW t \in ConvSessions
                 PROVE  (IF ConvsOf(t) = {} THEN current[t] = NoConv
                         ELSE current[t] \in ConvsOf(t))'
        BY DEF CurrentStands
    <2>1. CASE t = s
        BY <1>1, <2>1 DEF ConvInv, ConvTypeOK, ConvsOf
    <2>2. CASE t # s
        <3>1. sessionOf[n] = NoSession
            BY <1>1 DEF ConvInv, FreshIsFree, ConvTypeOK
        <3>2. ConvsOf(t)' = ConvsOf(t)
            BY <1>1, <2>2, <3>1 DEF ConvInv, ConvTypeOK, ConvsOf
        <3>3. current'[t] = current[t]
            BY <1>1, <2>2 DEF ConvInv, ConvTypeOK
        <3> QED
            BY <3>2, <3>3 DEF ConvInv, CurrentStands
    <2> QED
        BY <2>1, <2>2
<1> QED
    BY <1>2, <1>3, <1>4 DEF ConvInv

(* The first conversation that is left takes the place of a deleted one.      *)
LEMMA DeletePreserves ==
    ASSUME ConvInv, NEW s \in ConvSessions, ConvDelete(s)
    PROVE  ConvInv'
<1>1. PICK c \in ConvNamed(s) :
          /\ sessionOf' = [sessionOf EXCEPT ![c] = NoSession]
          /\ personaOf' = [personaOf EXCEPT ![c] = NoPersona]
          /\ current' = IF current[s] = c
                        THEN [current EXCEPT ![s] = ConvFirst(s, ConvsOf(s) \ {c})]
                        ELSE current
          /\ UNCHANGED <<created, personas>>
    BY DEF ConvDelete
<1>2. c \in ConvIds /\ sessionOf[c] = s
    BY DEF ConvNamed, ConvsOf
<1> DEFINE left == ConvsOf(s) \ {c}
<1>3. left \in SUBSET ConvIds
    BY DEF ConvsOf
<1>4. /\ left = {} => ConvFirst(s, left) = NoConv
      /\ left # {} => ConvFirst(s, left) \in left
    BY <1>3, FirstIsLeft
<1>5. \A t \in ConvSessions : ConvsOf(t)' = IF t = s THEN left ELSE ConvsOf(t)
    BY <1>1, <1>2 DEF ConvInv, ConvTypeOK, ConvsOf
<1> HIDE DEF left
<1>6. ConvFirst(s, left) \in ConvIds \cup {NoConv}
    BY <1>3, <1>4
<1>7. current' = IF current[s] = c THEN [current EXCEPT ![s] = ConvFirst(s, left)]
                 ELSE current
    BY <1>1 DEF left
<1>8. ConvTypeOK'
    BY <1>1, <1>2, <1>6, <1>7 DEF ConvInv, ConvTypeOK
<1>9. FreshIsFree'
    BY <1>1, <1>2 DEF ConvInv, ConvTypeOK, FreshIsFree
<1>10. CurrentStands'
    <2> SUFFICES ASSUME NEW t \in ConvSessions
                 PROVE  (IF ConvsOf(t) = {} THEN current[t] = NoConv
                         ELSE current[t] \in ConvsOf(t))'
        BY DEF CurrentStands
    <2>1. IF ConvsOf(t) = {} THEN current[t] = NoConv ELSE current[t] \in ConvsOf(t)
        BY DEF ConvInv, CurrentStands
    <2>2. CASE t # s
        BY <1>5, <1>7, <2>1, <2>2 DEF ConvInv, ConvTypeOK
    <2>3. CASE t = s /\ current[s] = c
        BY <1>4, <1>5, <1>7, <2>3 DEF ConvInv, ConvTypeOK
    <2>4. CASE t = s /\ current[s] # c
        <3>1. c \in ConvsOf(s)
            BY <1>2 DEF ConvsOf
        <3> QED
            BY <1>5, <1>7, <2>1, <2>4, <3>1 DEF left
    <2> QED
        BY <2>2, <2>3, <2>4
<1> QED
    BY <1>8, <1>9, <1>10 DEF ConvInv

(* A call for a session that has conversations of its own names one of them,  *)
(* and no call changes what another session sees.                             *)
LEMMA CreateStaysOut ==
    ASSUME ConvInv, NEW s \in ConvSessions, NEW p \in Personas \cup {NoPersona},
           ConvCreate(s, p), NEW t \in ConvSessions \ {s}
    PROVE  SessionView(t)' = SessionView(t)
<1> DEFINE n == created + 1
<1>1. /\ n \in ConvIds
      /\ sessionOf' = [sessionOf EXCEPT ![n] = s]
      /\ personaOf' = [personaOf EXCEPT ![n] = p]
      /\ current'[t] = current[t]
    BY DEF ConvCreate, ConvInv, ConvTypeOK
<1>2. sessionOf[n] = NoSession
    BY <1>1 DEF ConvInv, FreshIsFree, ConvTypeOK
<1>3. ConvsOf(t)' = ConvsOf(t) /\ n \notin ConvsOf(t)
    BY <1>1, <1>2 DEF ConvInv, ConvTypeOK, ConvsOf
<1>4. \A c \in ConvsOf(t) : personaOf'[c] = personaOf[c]
    BY <1>1, <1>3 DEF ConvInv, ConvTypeOK, ConvsOf
<1> QED
    BY <1>1, <1>3, <1>4 DEF SessionView

LEMMA NamedStaysOut ==
    ASSUME ConvInv, NEW s \in ConvSessions,
           ConvSwitch(s) \/ ConvDelete(s) \/ ConvUpdate(s),
           NEW t \in ConvSessions \ {s}
    PROVE  SessionView(t)' = SessionView(t)
<1>1. \E c \in ConvsOf(s) :
         /\ \A d \in ConvIds \ {c} : sessionOf'[d] = sessionOf[d] /\ personaOf'[d] = personaOf[d]
         /\ sessionOf'[c] \in {s, NoSession}
    BY DEF ConvSwitch, ConvDelete, ConvUpdate, ConvNamed, ConvsOf, ConvInv, ConvTypeOK
<1>2. current'[t] = current[t]
    BY DEF ConvSwitch, ConvDelete, ConvUpdate, ConvInv, ConvTypeOK
<1>3. ConvsOf(t)' = ConvsOf(t) /\ \A c \in ConvsOf(t) : personaOf'[c] = personaOf[c]
    BY <1>1 DEF ConvsOf
<1> QED
    BY <1>2, <1>3 DEF SessionView

LEMMA ConvNextPreserves == ConvInv /\ [ConvNext]_convVars => ConvInv'
<1> SUFFICES ASSUME ConvInv, [ConvNext]_convVars PROVE ConvInv'
    OBVIOUS
<1>1. ASSUME NEW s \in ConvSessions, ConvNew(s) \/ ConvGetCurrent(s) \/ ConvGetUnknown(s)
      PROVE  ConvInv'
    BY <1>1, CreatePreserves DEF ConvNew, ConvGetCurrent, ConvGetUnknown
<1>2. ASSUME NEW s \in ConvSessions, ConvSwitch(s) PROVE ConvInv'
    BY <1>2 DEF ConvSwitch, ConvInv, ConvTypeOK, CurrentStands, FreshIsFree, ConvsOf
<1>3. ASSUME NEW s \in ConvSessions, ConvDelete(s) PROVE ConvInv'
    BY <1>3, DeletePreserves
<1>4. ASSUME NEW s \in ConvSessions, ConvUpdate(s) PROVE ConvInv'
    BY <1>4 DEF ConvUpdate, ConvNamed, ConvInv, ConvTypeOK, CurrentStands, FreshIsFree,
                ConvsOf
<1>5. CASE PersonaCreate \/ PersonaDelete
    BY <1>5 DEF PersonaCreate, PersonaDelete, ConvInv, ConvTypeOK, CurrentStands,
                FreshIsFree, ConvsOf
<1>6. CASE UNCHANGED convVars
    BY <1>6 DEF convVars, ConvInv, ConvTypeOK, CurrentStands, FreshIsFree, ConvsOf
<1> QED
    BY <1>1, <1>2, <1>3, <1>4, <1>5, <1>6 DEF ConvNext, ConvCall

LEMMA ConvInvHolds == ConvSpec => []ConvInv
<1> QED
    BY ConvInitEstablishes, ConvNextPreserves, PTL DEF ConvSpec

(* However conversations are created, switched and deleted, a session that    *)
(* has any has a current one, and it is its own.                              *)
(* And no call for one session changes what another can ask for.              *)
THEOREM SessionsKeptApart == ConvSpec => SessionsApart
<1> DEFINE Apart ==
        /\ \A s \in ConvSessions : ConvCall(s) =>
              \A t \in ConvSessions \ {s} : SessionView(t)' = SessionView(t)
        /\ PersonaCreate \/ PersonaDelete =>
              \A t \in ConvSessions : SessionView(t)' = SessionView(t)
<1>1. ConvInv /\ [ConvNext]_convVars => [Apart]_convVars
    <2> SUFFICES ASSUME ConvInv PROVE Apart
        OBVIOUS
    <2>1. ASSUME NEW s \in ConvSessions, ConvCall(s), NEW t \in ConvSessions \ {s}
          PROVE  SessionView(t)' = SessionView(t)
        <3>1. CASE ConvNew(s) \/ ConvGetCurrent(s) \/ ConvGetUnknown(s)
            BY <3>1, CreateStaysOut DEF ConvNew, ConvGetCurrent, ConvGetUnknown
        <3> QED
            BY <2>1, <3>1, NamedStaysOut DEF ConvCall
    <2>2. ASSUME PersonaCreate \/ PersonaDelete, NEW t \in ConvSessions
          PROVE  SessionView(t)' = SessionView(t)
        BY <2>2 DEF PersonaCreate, PersonaDelete, SessionView, ConvsOf
    <2> QED
        BY <2>1, <2>2
<1>2. ConvInv => CurrentStands
    BY DEF ConvInv
<1> QED
    BY <1>1, <1>2, ConvInvHolds, PTL DEF ConvSpec, OthersUntouched, SessionsApart

-----------------------------------------------------------------------------
(* Dialogues, for any calls, whatever they replace or reject and however many *)
(* of them.                                                                   *)

Waits == {"failing", "yielded", "grace"}   \* a call that replaces, before it begins

(* Only a call that is through has a conversation, ...                        *)
BegunByEnded == \A c \in Calls : dialogue[c] # "none" => call[c] = "done"

(* ... the one a call waits for can no longer be used, ...                    *)
OldIsClosed ==
    \A c \in Calls : call[c] \in Waits =>
        c \in Replacing /\ old[c] \in Calls /\ usable[old[c]] # "ACTIVE"

(* ... and the table holds conversations that have begun.                     *)
TableBegun == table # NoDialogue => dialogue[table] # "none"

DialogueInv ==
    DialogueTypeOK /\ OneDialogue /\ BegunByEnded /\ OldIsClosed /\ TableBegun

USE DialoguesAssumption DEF CallStates, TaskStates, Endings, Waits

LEMMA DialogueInitEstablishes == DialogueInit => DialogueInv
    BY DEF DialogueInit, DialogueInv, DialogueTypeOK, OneDialogue, BegunByEnded,
           OldIsClosed, TableBegun, InUse, Under

(* What a step keeps that begins no conversation: it may end one or make it   *)
(* unusable.                                                                  *)
OnlyEnds ==
    /\ DialogueTypeOK'
    /\ table' = table /\ orphans' = orphans
    /\ \A c \in Calls :
          /\ Under(c)' => Under(c)
          /\ (dialogue'[c] = "none") <=> (dialogue[c] = "none")
          /\ dialogue'[c] = "gone" => dialogue[c] = "gone"
          /\ usable'[c] = "ACTIVE" => usable[c] = "ACTIVE"
          /\ call[c] = "done" => call'[c] = "done" /\ old'[c] = old[c]

LEMMA OnlyEndsKeeps ==
    ASSUME DialogueInv, OnlyEnds
    PROVE  OneDialogue' /\ BegunByEnded' /\ TableBegun'
<1> USE DEF DialogueInv, OnlyEnds
<1>1. BegunByEnded' /\ TableBegun'
    BY DEF BegunByEnded, TableBegun, DialogueTypeOK
<1>2. ASSUME NEW c \in Calls, InUse(c)' PROVE (table = c \/ c \in orphans)'
    BY <1>2 DEF InUse, OneDialogue
<1>3. ASSUME NEW c \in orphans'
      PROVE  \E d \in Replacing \ {c} :
                dialogue'[d] # "none" /\ old'[d] \notin {c, NoDialogue}
    <2>1. PICK d \in Replacing \ {c} :
              dialogue[d] # "none" /\ old[d] \notin {c, NoDialogue}
        BY <1>3 DEF OneDialogue
    <2>2. dialogue'[d] # "none" /\ old'[d] = old[d]
        BY <2>1 DEF BegunByEnded
    <2> QED
        BY <2>1, <2>2
<1>4. (table # NoDialogue => dialogue[table] # "gone")'
    BY DEF OneDialogue, DialogueTypeOK
<1> QED
    BY <1>1, <1>2, <1>3, <1>4 DEF OneDialogue

(* The steps of a call that change no conversation.                           *)
LEMMA CallStepKeeps ==
    ASSUME DialogueInv, NEW c \in Calls,
           \/ InvokeHandler(c) \/ CancelCall(c) \/ RunHandler(c) \/ HandlerEnds(c)
           \/ CallCancelled(c)
    PROVE  DialogueInv'
<1>1. UNCHANGED <<old, taskVars>>
    BY DEF InvokeHandler, CancelCall, RunHandler, HandlerEnds, CallCancelled
<1>2. DialogueTypeOK'
    BY <1>1 DEF InvokeHandler, CancelCall, RunHandler, HandlerEnds, CallCancelled, GoTo,
                DialogueInv, DialogueTypeOK, taskVars
<1>3. \A d \in Calls : /\ call[d] = "done" => call'[d] = "done"
                       /\ call'[d] \in Waits => call[d] \in Waits
    BY DEF InvokeHandler, CancelCall, RunHandler, HandlerEnds, CallCancelled, GoTo,
           DialogueInv, DialogueTypeOK
<1>4. OnlyEnds
    BY <1>1, <1>2, <1>3 DEF OnlyEnds, taskVars, Under
<1>5. OldIsClosed'
    BY <1>1, <1>3 DEF OldIsClosed, taskVars, DialogueInv
<1> QED
    BY <1>2, <1>4, <1>5, OnlyEndsKeeps DEF DialogueInv

(* A call that finds a conversation under way: from here on the old one is    *)
(* closed.                                                                    *)
LEMMA StartBusyKeeps ==
    ASSUME DialogueInv, NEW c \in Calls, StartBusy(c)
    PROVE  DialogueInv'
<1>1. /\ call[c] = "new" /\ table \in Calls
      /\ UNCHANGED <<callCancel, dialogue, taskCancel, table, orphans>>
      /\ \A d \in Calls \ {c} : call'[d] = call[d] /\ old'[d] = old[d]
      /\ \A d \in Calls : usable'[d] = "ACTIVE" => usable[d] = "ACTIVE"
    BY DEF StartBusy, GoTo, Busy, Closed, DialogueInv, DialogueTypeOK
<1>2. DialogueTypeOK'
    BY <1>1 DEF StartBusy, GoTo, Closed, DialogueInv, DialogueTypeOK
<1>3. OnlyEnds
    BY <1>1, <1>2 DEF OnlyEnds, Under
<1>4. call'[c] \in Waits =>
          c \in Replacing /\ old'[c] = table /\ usable'[table] = "REPLACED"
    BY <1>1 DEF StartBusy, GoTo, Closed, DialogueInv, DialogueTypeOK
<1>5. OldIsClosed'
    BY <1>1, <1>4 DEF OldIsClosed, DialogueInv
<1> QED
    BY <1>2, <1>3, <1>5, OnlyEndsKeeps DEF DialogueInv

LEMMA ReplacingStepKeeps ==
    ASSUME DialogueInv, NEW c \in Calls, FailWaiter(c) \/ CancelOld(c)
    PROVE  DialogueInv'
<1>1. /\ call[c] \in Waits /\ call'[c] \in Waits
      /\ \A d \in Calls \ {c} : call'[d] = call[d]
      /\ UNCHANGED <<callCancel, old, usable, table, orphans>>
    BY DEF FailWaiter, CancelOld, GoTo, DialogueInv, DialogueTypeOK
<1>2. DialogueTypeOK'
    <2>1. old[c] \in Calls
        BY <1>1 DEF DialogueInv, OldIsClosed
    <2>2. CASE FailWaiter(c)
        BY <2>2 DEF FailWaiter, GoTo, Unasked, DialogueInv, DialogueTypeOK
    <2>3. CASE CancelOld(c)
        BY <2>1, <2>3 DEF CancelOld, GoTo, DialogueInv, DialogueTypeOK
    <2> QED
        BY <2>2, <2>3
<1>3. OnlyEnds
    BY <1>1, <1>2 DEF OnlyEnds, FailWaiter, CancelOld, Unasked, Under
<1>4. OldIsClosed'
    BY <1>1 DEF OldIsClosed, DialogueInv
<1> QED
    BY <1>2, <1>3, <1>4, OnlyEndsKeeps DEF DialogueInv

(* The steps of the task of a conversation, but for its callback.             *)
LEMMA TaskStepKeeps ==
    ASSUME DialogueInv, NEW c \in Calls,
           \/ TaskBegins(c) \/ AskUser(c) \/ PromptFails(c) \/ WaitForUser(c)
           \/ Answered(c) \/ EndSession(c) \/ TaskEnds(c) \/ TaskCancelled(c)
    PROVE  DialogueInv'
<1>1. UNCHANGED <<call, callCancel, old, orphans, table>>
    BY DEF TaskBegins, AskUser, PromptFails, WaitForUser, Answered, EndSession,
           TaskEnds, TaskCancelled, callVars
<1>2. \A d \in Calls : usable'[d] = "ACTIVE" => usable[d] = "ACTIVE"
    BY DEF TaskBegins, AskUser, PromptFails, WaitForUser, Answered, EndSession,
           TaskEnds, TaskCancelled, Closed,
           DialogueInv, DialogueTypeOK
<1>3. /\ dialogue' \in [Calls -> TaskStates]
      /\ \A d \in Calls : /\ Under(d)' => Under(d)
                          /\ (dialogue'[d] = "none") <=> (dialogue[d] = "none")
                          /\ dialogue'[d] = "gone" => dialogue[d] = "gone"
    BY DEF TaskBegins, AskUser, PromptFails, WaitForUser, Answered, EndSession,
           TaskEnds, TaskCancelled, Step,
           Unasked, Under, DialogueInv, DialogueTypeOK
<1>4. taskCancel' \subseteq Calls /\ usable' \in [Calls -> {"ACTIVE", "REPLACED"} \cup Endings]
    BY DEF TaskBegins, AskUser, PromptFails, WaitForUser, Answered, EndSession,
           TaskEnds, TaskCancelled, Closed,
           DialogueInv, DialogueTypeOK
<1>5. DialogueTypeOK'
    BY <1>1, <1>3, <1>4 DEF DialogueInv, DialogueTypeOK
<1>6. OnlyEnds
    BY <1>1, <1>2, <1>3, <1>5 DEF OnlyEnds
<1>7. OldIsClosed'
    BY <1>1, <1>2 DEF OldIsClosed, DialogueInv
<1> QED
    BY <1>5, <1>6, <1>7, OnlyEndsKeeps DEF DialogueInv

(* The callback forgets the conversation the table holds, and no other.       *)
LEMMA DoneCallbackKeeps ==
    ASSUME DialogueInv, NEW c \in Calls, DoneCallback(c)
    PROVE  DialogueInv'
<1>1. /\ dialogue[c] = "done" /\ dialogue' = [dialogue EXCEPT ![c] = "gone"]
      /\ table' = IF table = c THEN NoDialogue ELSE table
      /\ UNCHANGED <<call, callCancel, old, orphans, taskCancel, usable>>
    BY DEF DoneCallback, Step, callVars
<1>2. DialogueTypeOK' /\ BegunByEnded' /\ OldIsClosed' /\ TableBegun'
    BY <1>1 DEF DialogueInv, DialogueTypeOK, BegunByEnded, OldIsClosed, TableBegun
<1>3. \A d \in Calls : InUse(d)' => (table = d \/ d \in orphans)'
    BY <1>1 DEF DialogueInv, DialogueTypeOK, OneDialogue, InUse, Under
<1>4. \A d \in Calls : (dialogue'[d] = "none") <=> (dialogue[d] = "none")
    BY <1>1 DEF DialogueInv, DialogueTypeOK
<1>5. \A d \in orphans' : \E e \in Replacing \ {d} :
          dialogue'[e] # "none" /\ old'[e] \notin {d, NoDialogue}
    BY <1>1, <1>4 DEF DialogueInv, OneDialogue
<1>6. table' # NoDialogue => dialogue'[table'] # "gone"
    BY <1>1 DEF DialogueInv, DialogueTypeOK, OneDialogue
<1> QED
    BY <1>2, <1>3, <1>5, <1>6 DEF DialogueInv, OneDialogue

(* A new conversation enters the table.  The one that was there is an orphan  *)
(* unless it had ended or is the one that was replaced.                       *)
LEMMA BeginDialogueKeeps ==
    ASSUME DialogueInv, NEW c \in Calls, NEW in \in Calls \cup {NoDialogue},
           Begin(c, in), dialogue[c] = "none",
           in # table => table # NoDialogue /\ in = NoDialogue /\ usable[table] # "ACTIVE",
           in # NoDialogue /\ Under(in) => c \in Replacing /\ old[c] \in Calls \ {in}
    PROVE  DialogueInv'
<1>1. /\ call' = [call EXCEPT ![c] = "done"]
      /\ dialogue' = [dialogue EXCEPT ![c] = "new"]
      /\ table' = c
      /\ orphans' = IF in # NoDialogue /\ Under(in) THEN orphans \cup {in} ELSE orphans
      /\ UNCHANGED <<callCancel, old, taskCancel, usable>>
    BY DEF Begin, GoTo
<1>2. DialogueTypeOK' /\ BegunByEnded' /\ OldIsClosed' /\ TableBegun'
    BY <1>1 DEF DialogueInv, DialogueTypeOK, BegunByEnded, OldIsClosed, TableBegun
<1>3. ASSUME NEW d \in Calls, InUse(d)' PROVE (table = d \/ d \in orphans)'
    <2>1. CASE d # c
        <3>1. InUse(d)
            BY <1>1, <1>3, <2>1 DEF DialogueInv, DialogueTypeOK, InUse, Under
        <3>2. table = d \/ d \in orphans
            BY <3>1 DEF DialogueInv, OneDialogue
        <3> QED
            BY <1>1, <3>1, <3>2 DEF InUse
    <2> QED
        BY <1>1, <2>1
<1>4. ASSUME NEW d \in orphans'
      PROVE  \E e \in Replacing \ {d} :
                dialogue'[e] # "none" /\ old'[e] \notin {d, NoDialogue}
    <2>1. CASE d \in orphans
        <3>1. PICK e \in Replacing \ {d} :
                  dialogue[e] # "none" /\ old[e] \notin {d, NoDialogue}
            BY <2>1 DEF DialogueInv, OneDialogue
        <3>2. dialogue'[e] # "none" /\ old'[e] = old[e]
            BY <1>1, <3>1 DEF DialogueInv, DialogueTypeOK
        <3> QED
            BY <3>1, <3>2
    <2>2. CASE d \notin orphans
        <3>1. d = in /\ in # NoDialogue /\ Under(in)
            BY <1>1, <1>4, <2>2
        <3>2. c # in
            BY <3>1 DEF Under
        <3>3. dialogue'[c] # "none" /\ old'[c] \notin {d, NoDialogue}
            BY <1>1, <3>1 DEF DialogueInv, DialogueTypeOK
        <3> QED
            BY <3>1, <3>2, <3>3
    <2> QED
        BY <2>1, <2>2
<1>5. table' # NoDialogue => dialogue'[table'] # "gone"
    BY <1>1 DEF DialogueInv, DialogueTypeOK
<1> QED
    BY <1>2, <1>3, <1>4, <1>5 DEF DialogueInv, OneDialogue

LEMMA StartFreeKeeps ==
    ASSUME DialogueInv, NEW c \in Calls, StartFree(c)
    PROVE  DialogueInv'
<1>1. Begin(c, table) /\ ~Busy /\ call[c] = "new"
    BY DEF StartFree
<1>2. dialogue[c] = "none" /\ table \in Calls \cup {NoDialogue}
    BY <1>1 DEF DialogueInv, DialogueTypeOK, BegunByEnded
<1> QED
    BY <1>1, <1>2, BeginDialogueKeeps DEF Busy

LEMMA GraceEndsKeeps ==
    ASSUME DialogueInv, NEW c \in Calls, GraceEnds(c)
    PROVE  DialogueInv'
<1> DEFINE in == IF table = old[c] THEN NoDialogue ELSE table
<1>1. Begin(c, in) /\ call[c] = "grace"
    BY DEF GraceEnds
<1>2. dialogue[c] = "none" /\ in \in Calls \cup {NoDialogue}
    BY <1>1 DEF DialogueInv, DialogueTypeOK, BegunByEnded
<1>3. c \in Replacing /\ old[c] \in Calls /\ usable[old[c]] # "ACTIVE"
    BY <1>1 DEF DialogueInv, OldIsClosed
<1>4. /\ in # table => table # NoDialogue /\ in = NoDialogue /\ usable[table] # "ACTIVE"
      /\ in # NoDialogue /\ Under(in) => c \in Replacing /\ old[c] \in Calls \ {in}
    BY <1>3
<1> HIDE DEF in
<1> QED
    BY <1>1, <1>2, <1>4, BeginDialogueKeeps

LEMMA DialogueNextKeeps == DialogueInv /\ [DialogueNext]_dialogueVars => DialogueInv'
<1> SUFFICES ASSUME DialogueInv, [DialogueNext]_dialogueVars PROVE DialogueInv'
    OBVIOUS
<1>1. CASE DialogueNext
    BY <1>1, CallStepKeeps, StartBusyKeeps, ReplacingStepKeeps, TaskStepKeeps,
       DoneCallbackKeeps, StartFreeKeeps, GraceEndsKeeps DEF DialogueNext
<1>2. CASE UNCHANGED dialogueVars
    BY <1>2 DEF dialogueVars, DialogueInv, DialogueTypeOK, OneDialogue, BegunByEnded,
                OldIsClosed, TableBegun, InUse, Under
<1> QED
    BY <1>1, <1>2

LEMMA DialogueInvHolds == DialogueSpec => []DialogueInv
    BY DialogueInitEstablishes, DialogueNextKeeps, PTL DEF DialogueSpec

(* In whatever order calls start, replace, cancel and end conversations: two  *)
(* of a session can be used at once only after one call overwrote, in the     *)
(* table, another than the one it had waited for.                             *)
THEOREM OneDialogueHolds == DialogueSpec => []OneDialogue
<1>1. DialogueInv => OneDialogue
    BY DEF DialogueInv
<1> QED
    BY <1>1, DialogueInvHolds, PTL
=============================================================================
