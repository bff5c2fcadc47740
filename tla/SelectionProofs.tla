--------------------------- MODULE SelectionProofs ---------------------------
(* Facts about sequences that the proofs of several components use: what      *)
(* Selection picks, and the members of a sequence that grows or shrinks.      *)
EXTENDS Selection, SequencesExt, FiniteSetTheorems, FunctionTheorems, TLAPS

(* Sequences.  The members of a finite set of numbers, by their rank.         *)
LEMMA Ranked ==
    ASSUME NEW S \in SUBSET Nat, IsFiniteSet(S)
    PROVE  /\ Cardinality(S) \in Nat
           /\ \A n \in 1..Cardinality(S) : /\ Nth(S, n) \in S
                                           /\ Cardinality({j \in S : j <= Nth(S, n)}) = n
           /\ \A i \in S : \E n \in 1..Cardinality(S) : Nth(S, n) = i
           /\ \A m, n \in 1..Cardinality(S) : m < n => Nth(S, m) < Nth(S, n)
<1> DEFINE c == Cardinality(S)
           upTo(i) == {j \in S : j <= i}
<1>1. c \in Nat
    BY FS_CardinalityType
<1>2. \A i \in S : /\ IsFiniteSet(upTo(i)) /\ i \in upTo(i)
                   /\ Cardinality(upTo(i)) \in 1..c
    <2> SUFFICES ASSUME NEW i \in S
                 PROVE  IsFiniteSet(upTo(i)) /\ i \in upTo(i) /\ Cardinality(upTo(i)) \in 1..c
        OBVIOUS
    <2>1. upTo(i) \in SUBSET S /\ i \in upTo(i)
        OBVIOUS
    <2>2. IsFiniteSet(upTo(i)) /\ Cardinality(upTo(i)) <= c
        BY <2>1, FS_Subset
    <2>3. Cardinality(upTo(i)) \in Nat /\ Cardinality(upTo(i)) # 0
        BY <2>1, <2>2, FS_CardinalityType, FS_EmptySet
    <2> QED
        BY <1>1, <2>1, <2>2, <2>3
<1>3. ASSUME NEW i \in S, NEW j \in S, i < j
      PROVE  Cardinality(upTo(i)) # Cardinality(upTo(j))
    <2>0. i \in Nat /\ j \in Nat /\ ~(j <= i) /\ j <= j /\ \A k \in Nat : k <= i => k <= j
        BY <1>3
    <2>1. upTo(i) \in SUBSET upTo(j) /\ j \notin upTo(i) /\ j \in upTo(j)
        BY <2>0
    <2> QED
        BY <1>2, <2>1, FS_Subset
<1>4. PICK rank \in [S -> 1..c] : \A i \in S : rank[i] = Cardinality(upTo(i))
    <2>1. [i \in S |-> Cardinality(upTo(i))] \in [S -> 1..c]
        BY <1>2
    <2> QED
        BY <2>1
<1>5. \A i, j \in S : rank[i] = rank[j] => i = j
    <2> SUFFICES ASSUME NEW i \in S, NEW j \in S, i # j PROVE rank[i] # rank[j]
        OBVIOUS
    <2>1. i < j \/ j < i
        OBVIOUS
    <2> QED
        BY <1>3, <1>4, <2>1
<1>6. rank \in Injection(S, 1..c)
    BY <1>4, <1>5 DEF Injection, IsInjective
<1>7. IsFiniteSet(1..c) /\ Cardinality(1..c) = c
    BY <1>1, FS_Interval
<1>8. rank \in Surjection(S, 1..c)
    BY <1>6, <1>7, FS_Injection
<1>9. \A n \in 1..c : Nth(S, n) \in S /\ rank[Nth(S, n)] = n
    <2> SUFFICES ASSUME NEW n \in 1..c PROVE Nth(S, n) \in S /\ rank[Nth(S, n)] = n
        OBVIOUS
    <2>1. \E i \in S : rank[i] = n
        BY <1>8 DEF Surjection
    <2>2. \E i \in S : Cardinality(upTo(i)) = n
        BY <2>1, <1>4
    <2> QED
        BY <2>2, <1>4 DEF Nth
<1>10. \A i \in S : Nth(S, rank[i]) = i
    <2> SUFFICES ASSUME NEW i \in S PROVE Nth(S, rank[i]) = i
        OBVIOUS
    <2>1. PICK n \in 1..c : n = rank[i]
        BY <1>4
    <2>2. Nth(S, n) \in S /\ rank[Nth(S, n)] = rank[i]
        BY <1>9, <2>1
    <2> QED
        BY <1>5, <2>1, <2>2
<1>11. ASSUME NEW m \in 1..c, NEW n \in 1..c, m < n
       PROVE  Nth(S, m) < Nth(S, n)
    <2> SUFFICES ASSUME ~(Nth(S, m) < Nth(S, n)) PROVE FALSE
        OBVIOUS
    <2>0. Nth(S, m) \in S /\ Nth(S, n) \in S
        BY <1>9
    <2>1. PICK i \in S, j \in S : i = Nth(S, m) /\ j = Nth(S, n) /\ j <= i
        <3>1. PICK i \in S : i = Nth(S, m)
            BY <2>0
        <3>2. PICK j \in S : j = Nth(S, n)
            BY <2>0
        <3>3. i \in Nat /\ j \in Nat /\ ~(i < j)
            BY <3>1, <3>2
        <3> QED
            BY <3>1, <3>2, <3>3
    <2>2. upTo(j) \in SUBSET upTo(i)
        <3>1. \A k \in Nat : k <= j => k <= i
            BY <2>1
        <3> QED
            BY <3>1
    <2>3. Cardinality(upTo(j)) <= Cardinality(upTo(i))
        BY <1>2, <2>2, FS_Subset
    <2> QED
        BY <1>4, <1>9, <1>11, <2>1, <2>3
<1> QED
    BY <1>1, <1>4, <1>9, <1>10, <1>11

LEMMA PickedHolds ==
    ASSUME NEW T, NEW items \in Seq(T), NEW places \in SUBSET DOMAIN items
    PROVE  /\ Picked(items, places) \in Seq(T)
           /\ Len(Picked(items, places)) = Cardinality(places)
           /\ Cardinality(places) \in 0..Len(items)
           /\ \A n \in DOMAIN Picked(items, places) :
                 Nth(places, n) \in places /\ Picked(items, places)[n] = items[Nth(places, n)]
           /\ \A i \in places : \E n \in DOMAIN Picked(items, places) : Nth(places, n) = i
           /\ \A m, n \in DOMAIN Picked(items, places) : m < n => Nth(places, m) < Nth(places, n)
<1>1. PICK len \in Nat : len = Len(items) /\ DOMAIN items = 1..len
    OBVIOUS
<1>2. IsFiniteSet(1..len) /\ Cardinality(1..len) = len
    BY FS_Interval
<1>3. places \in SUBSET Nat /\ IsFiniteSet(places) /\ Cardinality(places) <= len
    BY <1>1, <1>2, FS_Subset
<1>4. PICK c \in Nat : c = Cardinality(places)
    BY <1>3, Ranked
<1>5. \A n \in 1..c : Nth(places, n) \in places
    BY <1>3, <1>4, Ranked
<1>6. \A n \in 1..c : items[Nth(places, n)] \in T
    BY <1>1, <1>5
<1>7. /\ Picked(items, places) \in [1..c -> T]
      /\ \A n \in 1..c : Picked(items, places)[n] = items[Nth(places, n)]
    BY <1>4, <1>6 DEF Picked
<1>8. Picked(items, places) \in Seq(T) /\ Len(Picked(items, places)) = c
      /\ DOMAIN Picked(items, places) = 1..c
    BY <1>7
<1>9. c \in 0..Len(items)
    BY <1>1, <1>3, <1>4
<1>10. /\ \A i \in places : \E n \in 1..c : Nth(places, n) = i
       /\ \A m, n \in 1..c : m < n => Nth(places, m) < Nth(places, n)
    BY <1>3, <1>4, Ranked
<1> QED
    BY <1>4, <1>5, <1>7, <1>8, <1>9, <1>10

(* The items of a sequence that grows, and of what is left of one.            *)
LEMMA RangesHold ==
    ASSUME NEW T, NEW s \in Seq(T)
    PROVE  /\ \A x \in T : Range(Append(s, x)) = Range(s) \cup {x}
           /\ \A t \in Seq(T) : Range(s \o t) = Range(s) \cup Range(t)
           /\ s # <<>> => Head(s) \in T /\ Range(s) = {Head(s)} \cup Range(Tail(s))
           /\ \A x : Range(<<x>>) = {x}
<1>1. PICK len \in Nat : len = Len(s) /\ DOMAIN s = 1..len
    OBVIOUS
<1>2. ASSUME NEW x \in T PROVE Range(Append(s, x)) = Range(s) \cup {x}
    <2>1. DOMAIN Append(s, x) = 1..len + 1 /\ Append(s, x)[len + 1] = x
        BY <1>1
    <2>2. \A n \in 1..len : n \in 1..len + 1 /\ Append(s, x)[n] = s[n]
        BY <1>1
    <2>3. \A n \in 1..len + 1 : n \in 1..len \/ n = len + 1
        OBVIOUS
    <2>4. len + 1 \in 1..len + 1
        OBVIOUS
    <2> QED
        BY <1>1, <2>1, <2>2, <2>3, <2>4 DEF Range
<1>3. ASSUME NEW t \in Seq(T) PROVE Range(s \o t) = Range(s) \cup Range(t)
    <2>1. PICK more \in Nat : more = Len(t) /\ DOMAIN t = 1..more
        OBVIOUS
    <2>2. DOMAIN (s \o t) = 1..len + more
        BY <1>1, <2>1
    <2>3. \A n \in 1..len : n \in 1..len + more /\ (s \o t)[n] = s[n]
        BY <1>1, <2>1
    <2>4. \A n \in 1..more : len + n \in 1..len + more /\ (s \o t)[len + n] = t[n]
        BY <1>1, <2>1
    <2>5. \A n \in 1..len + more : n \in 1..len \/ \E m \in 1..more : n = len + m
        <3> SUFFICES ASSUME NEW n \in 1..len + more, n \notin 1..len
                     PROVE  \E m \in 1..more : n = len + m
            OBVIOUS
        <3>1. n - len \in 1..more /\ n = len + (n - len)
            OBVIOUS
        <3> QED
            BY <3>1
    <2>6. Range(s \o t) \subseteq Range(s) \cup Range(t)
        <3> SUFFICES ASSUME NEW n \in 1..len + more PROVE (s \o t)[n] \in Range(s) \cup Range(t)
            BY <2>2 DEF Range
        <3>1. CASE n \in 1..len
            BY <1>1, <2>3, <3>1 DEF Range
        <3>2. ASSUME NEW m \in 1..more, n = len + m PROVE (s \o t)[n] \in Range(t)
            BY <2>1, <2>4, <3>2 DEF Range
        <3> QED
            BY <2>5, <3>1, <3>2
    <2>7. \A n \in 1..len : s[n] \in Range(s \o t)
        BY <2>2, <2>3 DEF Range
    <2>8. \A n \in 1..more : t[n] \in Range(s \o t)
        <3> SUFFICES ASSUME NEW n \in 1..more PROVE t[n] \in Range(s \o t)
            OBVIOUS
        <3>1. PICK m \in 1..len + more : m = len + n /\ (s \o t)[m] = t[n]
            BY <2>4
        <3> QED
            BY <2>2, <3>1 DEF Range
    <2>9. Range(s) \cup Range(t) \subseteq Range(s \o t)
        BY <1>1, <2>1, <2>7, <2>8 DEF Range
    <2> QED
        BY <2>6, <2>9
<1>4. ASSUME s # <<>> PROVE Head(s) \in T /\ Range(s) = {Head(s)} \cup Range(Tail(s))
    <2>1. len # 0 /\ Head(s) = s[1] /\ Head(s) \in T
        BY <1>1, <1>4
    <2>2. DOMAIN Tail(s) = 1..len - 1 /\ \A n \in 1..len - 1 : Tail(s)[n] = s[n + 1]
        BY <1>1, <1>4, <2>1
    <2>3. \A n \in 1..len - 1 : n + 1 \in 1..len
        OBVIOUS
    <2>4. \A n \in 1..len : n = 1 \/ \E m \in 1..len - 1 : n = m + 1
        <3> SUFFICES ASSUME NEW n \in 1..len, n # 1 PROVE \E m \in 1..len - 1 : n = m + 1
            OBVIOUS
        <3>1. n - 1 \in 1..len - 1 /\ n = (n - 1) + 1
            OBVIOUS
        <3> QED
            BY <3>1
    <2>5. 1 \in 1..len
        BY <2>1
    <2>6. Range(s) \subseteq {Head(s)} \cup Range(Tail(s))
        <3> SUFFICES ASSUME NEW n \in 1..len PROVE s[n] \in {Head(s)} \cup Range(Tail(s))
            BY <1>1 DEF Range
        <3> QED
            BY <2>1, <2>2, <2>4 DEF Range
    <2>7. {Head(s)} \cup Range(Tail(s)) \subseteq Range(s)
        BY <1>1, <2>1, <2>2, <2>3, <2>5 DEF Range
    <2> QED
        BY <2>1, <2>6, <2>7
<1>5. \A x : Range(<<x>>) = {x}
    BY DEF Range
<1> QED
    BY <1>2, <1>3, <1>4, <1>5

(* A set that is numbered has each of its members under one number.           *)
LEMMA Numbering ==
    ASSUME NEW S, IsFiniteSet(S)
    PROVE  /\ SetToSeq(S) \in Seq(S) /\ Len(SetToSeq(S)) = Cardinality(S)
           /\ Len(SetToSeq(S)) \in Nat
           /\ DOMAIN SetToSeq(S) = 1..Len(SetToSeq(S))
           /\ \A x \in S : \E n \in DOMAIN SetToSeq(S) : SetToSeq(S)[n] = x
<1> DEFINE s == SetToSeq(S)
           k == Cardinality(S)
<1>1. k \in Nat /\ ExistsBijection(1..k, S)
    BY FS_CardinalityType
<1>2. PICK f \in Bijection(1..k, S) : TRUE
    BY <1>1 DEF ExistsBijection
<1>3. f \in [1..k -> S] /\ \A m, n \in 1..k : f[m] = f[n] => m = n
    BY <1>2 DEF Bijection, Injection, IsInjective
<1>4. IsInjective(f)
    BY <1>3 DEF IsInjective
<1>5. s \in [1..k -> S] /\ IsInjective(s)
    BY <1>3, <1>4 DEF SetToSeq
<1>6. s \in Injection(1..k, S)
    BY <1>5 DEF Injection, IsInjective
<1>7. Cardinality(1..k) = k /\ IsFiniteSet(1..k)
    BY <1>1, FS_Interval
<1>8. s \in Surjection(1..k, S)
    BY <1>6, <1>7, FS_Injection
<1>9. s \in Seq(S) /\ Len(s) = k
    BY <1>1, <1>5
<1> QED
    BY <1>1, <1>5, <1>8, <1>9 DEF Surjection

(* Lengths add up.                                                            *)
LEMMA Joined ==
    ASSUME NEW T, NEW s \in Seq(T), NEW t \in Seq(T)
    PROVE  Len(s \o t) = Len(s) + Len(t)
OBVIOUS
=============================================================================
