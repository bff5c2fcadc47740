--------------------------- MODULE PeerStreamProofs ---------------------------
(***************************************************************************)
(* The deltas of a stream, from the producer's counter through the writer  *)
(* threads, the wire and the consumer's queue, to what the consumer has    *)
(* seen: each place holds a run of consecutive numbers that begins where   *)
(* the place nearer to the consumer ends.                                  *)
(***************************************************************************)
EXTENDS PeerReplyProofs

IsDelta(f, i) == f.kind = "delta" /\ f.id = i
IsEnd(f, i)   == f.kind = "completed" /\ f.id = i
Ends(s, i)    == \E k \in DOMAIN s : IsEnd(s[k], i)

\* The deltas of call i in s are a + 1 .. b, in this order, and nothing
\* follows the event that completes the stream.
Run(s, i, a, b) ==
    /\ a <= b
    /\ \A k \in DOMAIN s : IsDelta(s[k], i) => a < s[k].n /\ s[k].n <= b
    /\ \A j, k \in DOMAIN s : IsDelta(s[j], i) /\ IsDelta(s[k], i) /\ j < k => s[j].n < s[k].n
    /\ \A m \in a + 1 .. b : \E k \in DOMAIN s : IsDelta(s[k], i) /\ s[k].n = m
    /\ \A j, k \in DOMAIN s : IsEnd(s[j], i) /\ IsDelta(s[k], i) => k < j

\* What the producer's end holds of its stream i: the wire s carries deltas
\* h + 1 .. w of the n it has sent, and a thread of ws may hold the last.
Carries(s, ws, n, live, i, h, w) ==
    /\ Run(s, i, h, w) /\ w <= n
    /\ Ends(s, i) => w = n
    /\ \A f \in ws : /\ IsDelta(f, i) => f.n = w + 1 /\ n = w + 1
                     /\ IsEnd(f, i) => w = n
    /\ live => w = n \/ \E f \in ws : IsDelta(f, i)

\* What the consumer's end holds: it has seen g, and s continues it up to h.
Holds(s, g, n, how, i, h) ==
    /\ \A k \in 1 .. Len(g) : g[k] = k
    /\ Run(s, i, Len(g), h)
    /\ Ends(s, i) => h = n
    /\ how = "completed" => Len(g) = n
    /\ \A k \in DOMAIN s : s[k].id = i

Streaming(p, i) == ~down /\ tpc[p][i] = "streaming"

StreamOK(p, i, h, w) ==
    /\ Holds(queue[p][i], got[p][i], sent[Other(p)][i], reply[p][i], i, h)
    /\ i \in streams[p] /\ ~eof[p] =>
         Carries(wire[Other(p)], writing[Other(p)], sent[Other(p)][i],
                 Streaming(Other(p), i), i, h, w)

\* The producer's task counts while it streams, and has then not completed.
Counting(p, i) ==
    /\ tpc[p][i] \in {"none", "created", "running"} => sent[p][i] = 0
    /\ tpc[p][i] \in {"running", "streaming"} => "completed" \notin answers[p][i]

Flow(p, i) == /\ \E h, w \in 0 .. Chunks : StreamOK(p, i, h, w)
              /\ Counting(p, i)
              /\ cpc[p][i] = "idle" => got[p][i] = <<>>

StreamInv == \A p \in Peers, i \in Ids : Flow(p, i)

-----------------------------------------------------------------------------
(* Runs of deltas. *)

Counted(T) == \A x \in T : x.n \in Nat

LEMMA CountedFact == Counted(Frame) /\ Counted(Item) /\ 0 .. Chunks \subseteq Nat
  BY PeerAssumption DEF Counted, Frame, Item, PeerAssumption

LEMMA AppendAt ==
  ASSUME NEW T, NEW s \in Seq(T), NEW f \in T
  PROVE  /\ Append(s, f) \in Seq(T) /\ Len(s) \in Nat
         /\ DOMAIN s = 1 .. Len(s) /\ DOMAIN Append(s, f) = 1 .. Len(s) + 1
         /\ \A k \in 1 .. Len(s) : Append(s, f)[k] = s[k]
         /\ Append(s, f)[Len(s) + 1] = f
  OBVIOUS

LEMMA TailAt ==
  ASSUME NEW T, NEW s \in Seq(T), s # <<>>
  PROVE  /\ Tail(s) \in Seq(T) /\ Len(s) \in Nat /\ Len(s) > 0
         /\ DOMAIN s = 1 .. Len(s) /\ DOMAIN Tail(s) = 1 .. Len(s) - 1
         /\ \A k \in 1 .. Len(s) - 1 : Tail(s)[k] = s[k + 1]
         /\ Head(s) = s[1] /\ Head(s) \in T
         /\ \A k \in 1 .. Len(s) : k # 1 => k - 1 \in 1 .. Len(s) - 1 /\ Tail(s)[k - 1] = s[k]
  <1>1. /\ Len(s) \in Nat /\ Len(s) > 0 /\ DOMAIN s = 1 .. Len(s) /\ Head(s) = s[1]
        /\ Tail(s) \in Seq(T) /\ Len(Tail(s)) = Len(s) - 1 /\ Head(s) \in T
    OBVIOUS
  <1>2. DOMAIN Tail(s) = 1 .. Len(s) - 1 BY <1>1
  <1>3. \A k \in 1 .. Len(s) - 1 : Tail(s)[k] = s[k + 1] OBVIOUS
  <1>4. \A k \in 1 .. Len(s) : k # 1 => k - 1 \in 1 .. Len(s) - 1 /\ Tail(s)[k - 1] = s[k]
    <2>1. PICK z : z = Len(s) - 1 OBVIOUS
    <2>2. ASSUME NEW k \in 1 .. Len(s), k # 1 PROVE k - 1 \in 1 .. z /\ Tail(s)[k - 1] = s[k]
      <3>1. k - 1 \in 1 .. z /\ (k - 1) + 1 = k BY <1>1, <2>1, <2>2
      <3> QED BY <1>3, <2>1, <3>1
    <2> QED BY <2>1, <2>2
  <1> QED BY <1>1, <1>2, <1>3, <1>4

LEMMA RunNone ==
  ASSUME NEW s, NEW i, NEW a \in Nat, \A k \in DOMAIN s : ~IsDelta(s[k], i)
  PROVE  /\ Run(s, i, a, a)
         /\ \A b \in Nat : Run(s, i, a, b) => b = a
  BY DEF Run

LEMMA RunAppend ==
  ASSUME NEW T, Counted(T), NEW s \in Seq(T), NEW f \in T, NEW i, NEW a \in Nat, NEW b \in Nat,
         Run(s, i, a, b)
  PROVE  /\ ~IsDelta(f, i) => Run(Append(s, f), i, a, b)
         /\ IsDelta(f, i) /\ f.n = b + 1 /\ ~Ends(s, i) => Run(Append(s, f), i, a, b + 1)
         /\ Ends(Append(s, f), i) <=> Ends(s, i) \/ IsEnd(f, i)
  <1> DEFINE t == Append(s, f)
             z == Len(s) + 1
  <1>1. /\ Len(s) \in Nat /\ DOMAIN s = 1 .. Len(s) /\ DOMAIN t = 1 .. z
        /\ t[z] = f /\ \A k \in 1 .. Len(s) : t[k] = s[k]
    BY AppendAt
  <1>2. \A k \in 1 .. z : k = z \/ k \in 1 .. Len(s) BY <1>1
  <1>3. z \in Nat /\ \A k \in 1 .. Len(s) : k < z /\ k \in 1 .. z /\ k \in Nat BY <1>1
  <1>4. \A k \in 1 .. Len(s) : s[k].n \in Nat
    <2>1. \A k \in 1 .. Len(s) : s[k] \in T OBVIOUS
    <2> QED BY <2>1 DEF Counted
  <1> HIDE DEF t, z
  <1>5. Ends(t, i) <=> Ends(s, i) \/ IsEnd(f, i)
    <2>1. ASSUME Ends(t, i) PROVE Ends(s, i) \/ IsEnd(f, i)
      BY <1>1, <1>2, <2>1 DEF Ends
    <2>2. ASSUME Ends(s, i) PROVE Ends(t, i) BY <1>1, <1>3, <2>2 DEF Ends
    <2>3. z \in 1 .. z BY <1>1, <1>3 DEF z
    <2>4. ASSUME IsEnd(f, i) PROVE Ends(t, i) BY <1>1, <2>3, <2>4 DEF Ends
    <2> QED BY <2>1, <2>2, <2>4
  <1>6. ASSUME ~IsDelta(f, i) PROVE Run(t, i, a, b)
    <2>1. \A k \in 1 .. z : IsDelta(t[k], i) => k \in 1 .. Len(s) /\ t[k] = s[k]
      BY <1>1, <1>2, <1>6
    <2>2. \A j \in 1 .. z, k \in 1 .. z : IsEnd(t[j], i) /\ IsDelta(t[k], i) => k < j
      BY <1>1, <1>2, <1>3, <2>1 DEF Run
    <2>3. \A k \in 1 .. Len(s) : k \in 1 .. z /\ t[k] = s[k] BY <1>1, <1>3
    <2> QED BY <1>1, <2>1, <2>2, <2>3 DEF Run
  <1>7. ASSUME IsDelta(f, i), f.n = b + 1, ~Ends(s, i) PROVE Run(t, i, a, b + 1)
    <2>1. \A k \in 1 .. z : IsDelta(t[k], i) => a < t[k].n /\ t[k].n <= b + 1
      BY <1>1, <1>2, <1>4, <1>7 DEF Run
    <2>2. \A j, k \in 1 .. z : IsDelta(t[j], i) /\ IsDelta(t[k], i) /\ j < k => t[j].n < t[k].n
      <3> SUFFICES ASSUME NEW j \in 1 .. z, NEW k \in 1 .. z, IsDelta(t[j], i), IsDelta(t[k], i),
                          j < k
                   PROVE  t[j].n < t[k].n
        OBVIOUS
      <3>1. j \in 1 .. Len(s) BY <1>1, <1>2, <1>3
      <3>2. CASE k = z BY <1>1, <1>4, <1>7, <3>1, <3>2 DEF Run
      <3>3. CASE k \in 1 .. Len(s) BY <1>1, <3>1, <3>3 DEF Run
      <3> QED BY <1>2, <3>2, <3>3
    <2>3. \A m \in a + 1 .. b + 1 : \E k \in 1 .. z : IsDelta(t[k], i) /\ t[k].n = m
      <3> SUFFICES ASSUME NEW m \in a + 1 .. b + 1
                   PROVE  \E k \in 1 .. z : IsDelta(t[k], i) /\ t[k].n = m
        OBVIOUS
      <3>1. CASE m = b + 1
        <4>1. z \in 1 .. z BY <1>1, <1>3 DEF z
        <4> QED BY <1>1, <1>7, <3>1, <4>1
      <3>2. CASE m \in a + 1 .. b BY <1>1, <1>3, <3>2 DEF Run
      <3> QED BY <3>1, <3>2
    <2>4. \A j \in 1 .. z : ~IsEnd(t[j], i)
      <3>1. ~IsEnd(f, i) BY <1>7 DEF IsEnd, IsDelta
      <3>2. ~Ends(t, i) BY <1>5, <1>7, <3>1
      <3> QED BY <1>1, <3>2 DEF Ends
    <2>5. a <= b + 1 BY DEF Run
    <2> QED BY <1>1, <2>1, <2>2, <2>3, <2>4, <2>5 DEF Run
  <1> QED BY <1>5, <1>6, <1>7 DEF t

LEMMA RunTail ==
  ASSUME NEW T, Counted(T), NEW s \in Seq(T), s # <<>>, NEW i, NEW a \in Nat, NEW b \in Nat,
         Run(s, i, a, b)
  PROVE  /\ ~IsDelta(Head(s), i) => Run(Tail(s), i, a, b)
         /\ IsDelta(Head(s), i) => Head(s).n = a + 1 /\ a < b /\ Run(Tail(s), i, a + 1, b)
         /\ IsEnd(Head(s), i) => a = b
         /\ IsEnd(Head(s), i) => Ends(s, i)
         /\ Ends(Tail(s), i) => Ends(s, i)
  <1> DEFINE t == Tail(s)
             z == Len(s) - 1
  <1>1. /\ Len(s) \in Nat /\ Len(s) > 0 /\ DOMAIN s = 1 .. Len(s) /\ DOMAIN t = 1 .. z
        /\ Head(s) = s[1]
    BY TailAt
  <1>2. \A k \in 1 .. z : k + 1 \in DOMAIN s /\ t[k] = s[k + 1] /\ k + 1 # 1 /\ k \in Nat
    BY <1>1, TailAt
  <1>3. \A k \in DOMAIN s : k # 1 => k - 1 \in 1 .. z /\ t[k - 1] = s[k]
    BY <1>1, TailAt
  <1>4. \A k \in DOMAIN s : s[k].n \in Nat /\ k \in Nat /\ k >= 1
    <2>1. \A k \in DOMAIN s : s[k] \in T OBVIOUS
    <2> QED BY <1>1, <2>1 DEF Counted
  <1>5. 1 \in DOMAIN s BY <1>1
  <1> HIDE DEF t, z
  <1>6. /\ IsEnd(Head(s), i) => a = b
        /\ IsEnd(Head(s), i) => Ends(s, i)
        /\ Ends(t, i) => Ends(s, i)
    <2>1. ASSUME IsEnd(Head(s), i) PROVE a = b
      <3>1. \A k \in DOMAIN s : ~IsDelta(s[k], i) BY <1>1, <1>4, <1>5, <2>1 DEF Run
      <3> QED BY <3>1, RunNone
    <2>2. IsEnd(Head(s), i) => Ends(s, i) BY <1>1, <1>5 DEF Ends
    <2>3. Ends(t, i) => Ends(s, i) BY <1>1, <1>2 DEF Ends
    <2> QED BY <2>1, <2>2, <2>3
  <1>7. \A j, k \in 1 .. z : IsEnd(t[j], i) /\ IsDelta(t[k], i) => k < j
    <2> SUFFICES ASSUME NEW j \in 1 .. z, NEW k \in 1 .. z, IsEnd(t[j], i), IsDelta(t[k], i)
                 PROVE  k < j
      OBVIOUS
    <2>1. /\ j + 1 \in DOMAIN s /\ t[j] = s[j + 1] /\ j \in Nat
          /\ k + 1 \in DOMAIN s /\ t[k] = s[k + 1] /\ k \in Nat
      BY <1>2
    <2>2. k + 1 < j + 1 BY <2>1 DEF Run
    <2> QED BY <2>1, <2>2
  <1>8. \A j, k \in 1 .. z : IsDelta(t[j], i) /\ IsDelta(t[k], i) /\ j < k => t[j].n < t[k].n
    <2> SUFFICES ASSUME NEW j \in 1 .. z, NEW k \in 1 .. z, IsDelta(t[j], i), IsDelta(t[k], i),
                        j < k
                 PROVE  t[j].n < t[k].n
      OBVIOUS
    <2>1. /\ j + 1 \in DOMAIN s /\ t[j] = s[j + 1] /\ j \in Nat
          /\ k + 1 \in DOMAIN s /\ t[k] = s[k + 1] /\ k \in Nat
      BY <1>2
    <2>2. j + 1 < k + 1 BY <2>1
    <2> QED BY <2>1, <2>2 DEF Run
  <1>9. ASSUME ~IsDelta(Head(s), i) PROVE Run(t, i, a, b)
    <2>1. \A k \in 1 .. z : IsDelta(t[k], i) => a < t[k].n /\ t[k].n <= b BY <1>2 DEF Run
    <2>2. \A k \in DOMAIN s : IsDelta(s[k], i) => k - 1 \in 1 .. z /\ t[k - 1] = s[k]
      BY <1>1, <1>3, <1>9
    <2>3. \A m \in a + 1 .. b : \E k \in 1 .. z : IsDelta(t[k], i) /\ t[k].n = m
      <3> SUFFICES ASSUME NEW m \in a + 1 .. b
                   PROVE  \E k \in 1 .. z : IsDelta(t[k], i) /\ t[k].n = m
        OBVIOUS
      <3>1. PICK k \in DOMAIN s : IsDelta(s[k], i) /\ s[k].n = m BY DEF Run
      <3> QED BY <2>2, <3>1
    <2> QED BY <1>1, <1>7, <1>8, <2>1, <2>3 DEF Run
  <1>10. ASSUME IsDelta(Head(s), i)
         PROVE  Head(s).n = a + 1 /\ a < b /\ Run(t, i, a + 1, b)
    <2>1. a < s[1].n /\ s[1].n <= b /\ IsDelta(s[1], i) BY <1>1, <1>5, <1>10 DEF Run
    <2>2. a < b /\ a + 1 \in a + 1 .. b BY <1>4, <1>5, <2>1
    <2>3. PICK k \in DOMAIN s : IsDelta(s[k], i) /\ s[k].n = a + 1 BY <2>2 DEF Run
    <2>4. k = 1
      <3>1. SUFFICES ASSUME k # 1 PROVE FALSE OBVIOUS
      <3>2. 1 < k BY <1>4, <3>1
      <3>3. s[1].n < s[k].n BY <1>5, <2>1, <2>3, <3>2 DEF Run
      <3> QED BY <1>4, <1>5, <2>1, <2>3, <3>3
    <2>5. s[1].n = a + 1 BY <2>3, <2>4
    <2>6. \A j \in 1 .. z : IsDelta(t[j], i) => a + 1 < t[j].n /\ t[j].n <= b
      <3> SUFFICES ASSUME NEW j \in 1 .. z, IsDelta(t[j], i)
                   PROVE  a + 1 < t[j].n /\ t[j].n <= b
        OBVIOUS
      <3>1. j + 1 \in DOMAIN s /\ t[j] = s[j + 1] /\ 1 < j + 1 BY <1>2, <1>4
      <3> QED BY <1>4, <1>5, <2>1, <2>5, <3>1 DEF Run
    <2>7. \A m \in a + 2 .. b : \E j \in 1 .. z : IsDelta(t[j], i) /\ t[j].n = m
      <3> SUFFICES ASSUME NEW m \in a + 2 .. b
                   PROVE  \E j \in 1 .. z : IsDelta(t[j], i) /\ t[j].n = m
        OBVIOUS
      <3>1. m \in a + 1 .. b /\ m # a + 1 OBVIOUS
      <3>2. PICK j \in DOMAIN s : IsDelta(s[j], i) /\ s[j].n = m BY <3>1 DEF Run
      <3>3. j # 1 BY <2>5, <3>1, <3>2
      <3> QED BY <1>3, <3>2, <3>3
    <2>8. a + 1 + 1 = a + 2 OBVIOUS
    <2> QED BY <1>1, <1>7, <1>8, <2>2, <2>5, <2>6, <2>7, <2>8 DEF Run
  <1> QED BY <1>6, <1>9, <1>10 DEF t

-----------------------------------------------------------------------------
(* What a step does to the two ends of a stream. *)

\* A frame that is no delta and does not complete the stream is passed.
LEMMA CarriesOther ==
  ASSUME NEW s \in Seq(Frame), NEW ws \in SUBSET Frame, NEW f \in Frame, NEW n \in Nat,
         NEW live \in BOOLEAN, NEW live2 \in BOOLEAN, NEW i, NEW h \in Nat, NEW w \in Nat,
         Carries(s, ws, n, live, i, h, w), ~IsDelta(f, i), ~IsEnd(f, i),
         live2 => live \/ w = n
  PROVE  /\ Carries(s, ws, n, live2, i, h, w)
         /\ Carries(Append(s, f), ws, n, live2, i, h, w)
         /\ Carries(s, ws \cup {f}, n, live2, i, h, w)
  <1>1. Run(Append(s, f), i, h, w) /\ (Ends(Append(s, f), i) <=> Ends(s, i))
    BY CountedFact, RunAppend DEF Carries
  <1> QED BY <1>1 DEF Carries

\* The next delta, sent when no thread holds the one before it.
LEMMA CarriesDelta ==
  ASSUME NEW s \in Seq(Frame), NEW ws \in SUBSET Frame, NEW f \in Frame, NEW n \in Nat,
         NEW m \in Nat, m = n + 1, NEW i, NEW h \in Nat, NEW w \in Nat,
         Carries(s, ws, n, TRUE, i, h, w), IsDelta(f, i), f.n = m,
         ~Ends(s, i), \A g \in ws : ~IsDelta(g, i) /\ ~IsEnd(g, i)
  PROVE  /\ Carries(Append(s, f), ws, m, TRUE, i, h, m)
         /\ Carries(s, ws \cup {f}, m, TRUE, i, h, w)
  <1>1. Run(s, i, h, w) /\ w = n /\ ~IsEnd(f, i) BY DEF Carries, IsDelta, IsEnd
  <1>2. Run(Append(s, f), i, h, m) /\ ~Ends(Append(s, f), i)
    BY <1>1, CountedFact, RunAppend
  <1>3. Carries(Append(s, f), ws, m, TRUE, i, h, m) BY <1>1, <1>2 DEF Carries
  <1>4. Carries(s, ws \cup {f}, m, TRUE, i, h, w) BY <1>1 DEF Carries
  <1> QED BY <1>3, <1>4

\* A delta sent on a dead link.
LEMMA CarriesLost ==
  ASSUME NEW s, NEW ws, NEW n \in Nat, NEW m \in Nat, m = n + 1, NEW i, NEW h, NEW w \in Nat,
         NEW live, Carries(s, ws, n, live, i, h, w),
         ~Ends(s, i), \A g \in ws : ~IsDelta(g, i) /\ ~IsEnd(g, i)
  PROVE  Carries(s, ws, m, FALSE, i, h, w)
  BY DEF Carries

\* The event that completes the stream, sent likewise.
LEMMA CarriesEnd ==
  ASSUME NEW s \in Seq(Frame), NEW ws \in SUBSET Frame, NEW f \in Frame, NEW n \in Nat,
         NEW i, NEW h \in Nat, NEW w \in Nat,
         Carries(s, ws, n, TRUE, i, h, w), IsEnd(f, i), \A g \in ws : ~IsDelta(g, i)
  PROVE  /\ Carries(Append(s, f), ws, n, FALSE, i, h, w)
         /\ Carries(s, ws \cup {f}, n, FALSE, i, h, w)
  <1>1. w = n /\ Run(s, i, h, w) /\ ~IsDelta(f, i) BY DEF Carries, IsDelta, IsEnd
  <1>2. Run(Append(s, f), i, h, w) BY <1>1, CountedFact, RunAppend
  <1>3. Carries(Append(s, f), ws, n, FALSE, i, h, w) BY <1>1, <1>2 DEF Carries
  <1>4. Carries(s, ws \cup {f}, n, FALSE, i, h, w) BY <1>1 DEF Carries
  <1> QED BY <1>3, <1>4

\* A frame leaves its thread: onto the wire, or into nothing.
LEMMA CarriesWrite ==
  ASSUME NEW s \in Seq(Frame), NEW ws \in SUBSET Frame, NEW f \in ws, NEW n \in 0 .. Chunks,
         NEW live \in BOOLEAN, NEW i, NEW h \in Nat, NEW w \in 0 .. Chunks,
         Carries(s, ws, n, live, i, h, w)
  PROVE  \E x \in 0 .. Chunks : Carries(Append(s, f), ws \ {f}, n, live, i, h, x)
  <1>0. n \in Nat /\ w \in Nat /\ f \in Frame BY CountedFact
  <1>1. Run(s, i, h, w) BY DEF Carries
  <1>2. CASE IsDelta(f, i)
    <2>1. f.n = w + 1 /\ n = w + 1 BY <1>2 DEF Carries
    <2>2. ~Ends(s, i) BY <1>0, <2>1 DEF Carries
    <2>3. ~IsEnd(f, i) BY <1>2 DEF IsDelta, IsEnd
    <2>4. Run(Append(s, f), i, h, w + 1) /\ ~Ends(Append(s, f), i)
      BY <1>0, <1>1, <1>2, <2>1, <2>2, <2>3, CountedFact, RunAppend
    <2>5. \A g \in ws : IsDelta(g, i) => g = f
      <3> SUFFICES ASSUME NEW g \in ws, IsDelta(g, i) PROVE g = f OBVIOUS
      <3>1. g \in Frame /\ g.n = f.n /\ g.kind = f.kind /\ g.id = f.id
        BY <1>2, <2>1 DEF Carries, IsDelta
      <3> QED BY <1>0, <3>1 DEF Frame
    <2>6. \A g \in ws : ~IsEnd(g, i) BY <1>0, <2>1 DEF Carries
    <2>7. Carries(Append(s, f), ws \ {f}, n, live, i, h, w + 1)
      BY <1>0, <2>1, <2>4, <2>5, <2>6 DEF Carries
    <2> QED BY <2>1, <2>7
  <1>3. CASE ~IsDelta(f, i)
    <2>1. Run(Append(s, f), i, h, w) BY <1>0, <1>1, <1>3, CountedFact, RunAppend
    <2>2. Ends(Append(s, f), i) <=> Ends(s, i) \/ IsEnd(f, i)
      BY <1>0, <1>1, <1>3, CountedFact, RunAppend
    <2>3. Carries(Append(s, f), ws \ {f}, n, live, i, h, w) BY <1>3, <2>1, <2>2 DEF Carries
    <2> QED BY <2>3
  <1> QED BY <1>2, <1>3

LEMMA CarriesFewer ==
  ASSUME NEW s, NEW ws, NEW vs \in SUBSET ws, NEW n, NEW live, NEW i, NEW h, NEW w,
         Carries(s, ws, n, live, i, h, w)
  PROVE  Carries(s, vs, n, FALSE, i, h, w)
  BY DEF Carries

LEMMA CarriesRead ==
  ASSUME NEW s \in Seq(Frame), s # <<>>, NEW ws \in SUBSET Frame, NEW n \in Nat,
         NEW live \in BOOLEAN, NEW i, NEW h \in Nat, NEW w \in Nat,
         Carries(s, ws, n, live, i, h, w)
  PROVE  /\ ~IsDelta(Head(s), i) => Carries(Tail(s), ws, n, live, i, h, w)
         /\ IsDelta(Head(s), i) => /\ Head(s).n = h + 1 /\ h < w /\ w <= n
                                   /\ Carries(Tail(s), ws, n, live, i, h + 1, w)
         /\ IsEnd(Head(s), i) => h = n
  <1>1. Run(s, i, h, w) /\ w <= n BY DEF Carries
  <1>2. /\ ~IsDelta(Head(s), i) => Run(Tail(s), i, h, w)
        /\ IsDelta(Head(s), i) => Head(s).n = h + 1 /\ h < w /\ Run(Tail(s), i, h + 1, w)
        /\ IsEnd(Head(s), i) => h = w /\ Ends(s, i)
        /\ Ends(Tail(s), i) => Ends(s, i)
    BY <1>1, CountedFact, RunTail
  <1> QED BY <1>1, <1>2 DEF Carries

\* Something that is no delta, and does not complete the stream, is queued.
LEMMA HoldsOther ==
  ASSUME NEW s \in Seq(Item), NEW x \in Item, NEW g \in Seq(Nat), NEW n \in Nat,
         NEW how, NEW how2, NEW i, NEW h \in Nat, Holds(s, g, n, how, i, h),
         ~IsDelta(x, i), ~IsEnd(x, i), x.id = i, how2 = "completed" => how = "completed"
  PROVE  Holds(s, g, n, how2, i, h) /\ Holds(Append(s, x), g, n, how2, i, h)
  <1>1. Run(s, i, Len(g), h) /\ Len(g) \in Nat BY DEF Holds
  <1>2. Run(Append(s, x), i, Len(g), h) /\ (Ends(Append(s, x), i) <=> Ends(s, i))
    BY <1>1, CountedFact, RunAppend
  <1>3. \A k \in DOMAIN Append(s, x) : Append(s, x)[k].id = i
    <2>1. \A k \in 1 .. Len(s) + 1 : k = Len(s) + 1 \/ k \in 1 .. Len(s) OBVIOUS
    <2> QED BY <2>1, AppendAt DEF Holds
  <1> QED BY <1>2, <1>3 DEF Holds

LEMMA HoldsEvent ==
  ASSUME NEW s \in Seq(Item), NEW x \in Item, NEW g \in Seq(Nat), NEW n \in Nat,
         NEW how, NEW i, NEW h \in Nat, Holds(s, g, n, how, i, h), x.id = i
  PROVE  /\ IsDelta(x, i) /\ x.n = h + 1 /\ h < n => Holds(Append(s, x), g, n, how, i, h + 1)
         /\ IsEnd(x, i) /\ h = n => Holds(Append(s, x), g, n, how, i, h)
  <1>1. Run(s, i, Len(g), h) /\ Len(g) \in Nat BY DEF Holds
  <1>2. \A k \in DOMAIN Append(s, x) : Append(s, x)[k].id = i
    <2>1. \A k \in 1 .. Len(s) + 1 : k = Len(s) + 1 \/ k \in 1 .. Len(s) OBVIOUS
    <2> QED BY <2>1, AppendAt DEF Holds
  <1>3. ASSUME IsDelta(x, i), x.n = h + 1, h < n
        PROVE  Holds(Append(s, x), g, n, how, i, h + 1)
    <2>1. ~Ends(s, i) BY <1>3 DEF Holds
    <2>2. ~IsEnd(x, i) BY <1>3 DEF IsDelta, IsEnd
    <2>3. Run(Append(s, x), i, Len(g), h + 1) /\ ~Ends(Append(s, x), i)
      BY <1>1, <1>3, <2>1, <2>2, CountedFact, RunAppend
    <2> QED BY <1>2, <2>3 DEF Holds
  <1>4. ASSUME IsEnd(x, i), h = n PROVE Holds(Append(s, x), g, n, how, i, h)
    <2>1. ~IsDelta(x, i) BY <1>4 DEF IsDelta, IsEnd
    <2>2. Run(Append(s, x), i, Len(g), h) BY <1>1, <2>1, CountedFact, RunAppend
    <2> QED BY <1>2, <1>4, <2>2 DEF Holds
  <1> QED BY <1>3, <1>4

\* The consumer takes the next item.
LEMMA HoldsTake ==
  ASSUME NEW s \in Seq(Item), s # <<>>, NEW g \in Seq(Nat), NEW n \in Nat,
         NEW how, NEW how2, NEW i, NEW h \in Nat, Holds(s, g, n, how, i, h),
         how2 = "completed" => how = "completed" \/ Head(s).kind = "completed"
  PROVE  /\ Head(s).kind # "delta" => Holds(Tail(s), g, n, how2, i, h)
         /\ Head(s).kind = "delta" /\ how # "completed"
              => Holds(Tail(s), Append(g, Head(s).n), n, how, i, h)
  <1>1. Run(s, i, Len(g), h) /\ Len(g) \in Nat BY DEF Holds
  <1>2. Head(s).id = i /\ Head(s).n \in Nat
    <2>1. Head(s) = s[1] /\ 1 \in DOMAIN s /\ Head(s) \in Item OBVIOUS
    <2> QED BY <2>1, CountedFact DEF Holds, Counted
  <1>3. \A k \in DOMAIN Tail(s) : Tail(s)[k].id = i
    <2>1. \A k \in DOMAIN Tail(s) : k + 1 \in DOMAIN s /\ Tail(s)[k] = s[k + 1] BY TailAt
    <2> QED BY <2>1 DEF Holds
  <1>4. /\ ~IsDelta(Head(s), i) => Run(Tail(s), i, Len(g), h)
        /\ IsDelta(Head(s), i) =>
             Head(s).n = Len(g) + 1 /\ Len(g) < h /\ Run(Tail(s), i, Len(g) + 1, h)
        /\ IsEnd(Head(s), i) => Len(g) = h /\ Ends(s, i)
        /\ Ends(Tail(s), i) => Ends(s, i)
    BY <1>1, CountedFact, RunTail
  <1>5. ASSUME Head(s).kind # "delta" PROVE Holds(Tail(s), g, n, how2, i, h)
    <2>1. ~IsDelta(Head(s), i) BY <1>5 DEF IsDelta
    <2>2. how2 = "completed" => Len(g) = n
      BY <1>2, <1>4 DEF Holds, IsEnd
    <2> QED BY <1>3, <1>4, <2>1, <2>2 DEF Holds
  <1>6. ASSUME Head(s).kind = "delta", how # "completed"
        PROVE  Holds(Tail(s), Append(g, Head(s).n), n, how, i, h)
    <2>1. IsDelta(Head(s), i) BY <1>2, <1>6 DEF IsDelta
    <2>2. PICK g2 : g2 = Append(g, Head(s).n) OBVIOUS
    <2>3. Len(g2) = Len(g) + 1 BY <1>2, <2>2
    <2>4. \A k \in 1 .. Len(g2) : g2[k] = k
      <3>1. \A k \in 1 .. Len(g) : g2[k] = g[k] BY <1>2, <2>2, AppendAt
      <3>2. g2[Len(g) + 1] = Len(g) + 1 BY <1>2, <1>4, <2>1, <2>2, AppendAt
      <3>3. \A k \in 1 .. Len(g2) : k = Len(g) + 1 \/ k \in 1 .. Len(g) BY <1>1, <2>3
      <3> QED BY <3>1, <3>2, <3>3 DEF Holds
    <2>5. Holds(Tail(s), g2, n, how, i, h)
      BY <1>3, <1>4, <1>6, <2>1, <2>3, <2>4 DEF Holds
    <2> QED BY <2>2, <2>5
  <1> QED BY <1>5, <1>6

LEMMA HoldsGrow ==
  ASSUME NEW s, NEW g, NEW n \in Nat, NEW how, NEW i, NEW h, Holds(s, g, n, how, i, h),
         ~Ends(s, i), how # "completed"
  PROVE  Holds(s, g, n + 1, how, i, h)
  BY DEF Holds

-----------------------------------------------------------------------------
(* The steps. *)

StreamBase == ReplyInv /\ CallerInv /\ StreamInv

LEMMA FlowTypes ==
  ASSUME TypeOK, NEW p \in Peers, NEW i \in Ids
  PROVE  /\ queue[p][i] \in Seq(Item) /\ got[p][i] \in Seq(Nat)
         /\ got[p][i] \in Seq(0 .. Chunks) /\ sent[p][i] \in 0 .. Chunks
         /\ sent[p][i] \in Nat /\ wire[p] \in Seq(Frame) /\ writing[p] \in SUBSET Frame
         /\ Streaming(p, i) \in BOOLEAN
  <1>1. /\ queue \in [Peers -> [Ids -> Seq(Item)]] /\ sent \in [Peers -> [Ids -> 0 .. Chunks]]
        /\ wire \in [Peers -> Seq(Frame)] /\ writing \in [Peers -> SUBSET Frame]
        /\ got \in [Peers -> [Ids -> Seq(0 .. Chunks)]]
    BY DEF TypeOK, CallTypeOK, TaskTypeOK, NetTypeOK
  <1>2. got[p][i] \in Seq(0 .. Chunks) BY <1>1
  <1>3. got[p][i] \in Seq(Nat) BY <1>2, CountedFact, SeqMonotonic
  <1>4. sent[p][i] \in Nat BY <1>1, CountedFact
  <1>5. Streaming(p, i) \in BOOLEAN BY DEF Streaming
  <1> QED BY <1>1, <1>2, <1>3, <1>4, <1>5

\* What end q has in flight for its stream j still carries on from deltas 1 .. h.
WireKeeps(q, j) == \A h, w \in 0 .. Chunks :
    Carries(wire[q], writing[q], sent[q][j], Streaming(q, j), j, h, w)
    => \E x \in 0 .. Chunks :
         Carries(wire'[q], writing'[q], sent'[q][j], Streaming(q, j)', j, h, x)

\* A task begins to stream, if it does, before it has sent a delta.
Begins(q, j) == Streaming(q, j)' => Streaming(q, j) \/ sent[q][j] = 0

LEMMA WireSame ==
  ASSUME TypeOK, NEW q \in Peers, NEW j \in Ids, Begins(q, j), sent'[q][j] = sent[q][j],
         wire'[q] = wire[q], writing'[q] \subseteq writing[q],
         Streaming(q, j)' => writing'[q] = writing[q]
  PROVE  WireKeeps(q, j)
  <1> SUFFICES ASSUME NEW h \in 0 .. Chunks, NEW w \in 0 .. Chunks,
                      Carries(wire[q], writing[q], sent[q][j], Streaming(q, j), j, h, w)
               PROVE  Carries(wire[q], writing'[q], sent[q][j], Streaming(q, j)', j, h, w)
    BY DEF WireKeeps
  <1>1. sent[q][j] \in Nat /\ w \in Nat BY FlowTypes, CountedFact
  <1>2. sent[q][j] = 0 => w = sent[q][j] BY <1>1 DEF Carries
  <1> QED BY <1>2 DEF Carries, Begins

LEMMA WirePost ==
  ASSUME TypeOK, NEW q \in Peers, NEW j \in Ids, NEW f \in Frame, Begins(q, j),
         sent'[q][j] = sent[q][j], down' = down, ~IsDelta(f, j), ~IsEnd(f, j),
         NEW e \in Peers, Post(e, f)
  PROVE  WireKeeps(q, j)
  <1> SUFFICES ASSUME NEW h \in 0 .. Chunks, NEW w \in 0 .. Chunks,
                      Carries(wire[q], writing[q], sent[q][j], Streaming(q, j), j, h, w)
               PROVE  Carries(wire'[q], writing'[q], sent[q][j], Streaming(q, j)', j, h, w)
    BY DEF WireKeeps
  <1>1. /\ sent[q][j] \in Nat /\ w \in Nat /\ h \in Nat /\ wire[q] \in Seq(Frame)
        /\ writing[q] \in SUBSET Frame /\ Streaming(q, j) \in BOOLEAN
        /\ wire \in [Peers -> Seq(Frame)] /\ writing \in [Peers -> SUBSET Frame]
    BY FlowTypes, CountedFact DEF TypeOK, NetTypeOK
  <1>2. sent[q][j] = 0 => w = sent[q][j] BY <1>1 DEF Carries
  <1>3. PICK live \in BOOLEAN : live = Streaming(q, j)' BY DEF Streaming
  <1>4. live => Streaming(q, j) \/ w = sent[q][j] BY <1>2, <1>3 DEF Begins
  <1>5. /\ Carries(wire[q], writing[q], sent[q][j], live, j, h, w)
        /\ Carries(Append(wire[q], f), writing[q], sent[q][j], live, j, h, w)
        /\ Carries(wire[q], writing[q] \cup {f}, sent[q][j], live, j, h, w)
    BY <1>1, <1>4, CarriesOther
  <1>6. \/ wire'[q] = wire[q] /\ writing'[q] = writing[q]
        \/ wire'[q] = Append(wire[q], f) /\ writing'[q] = writing[q]
        \/ wire'[q] = wire[q] /\ writing'[q] = writing[q] \cup {f}
    BY <1>1 DEF Post
  <1> QED BY <1>3, <1>5, <1>6

LEMMA WireWrite ==
  ASSUME TypeOK, NEW q \in Peers, NEW j \in Ids, NEW p \in Peers, WriteFrame(p)
  PROVE  WireKeeps(q, j)
  <1> SUFFICES ASSUME NEW h \in 0 .. Chunks, NEW w \in 0 .. Chunks,
                      Carries(wire[q], writing[q], sent[q][j], Streaming(q, j), j, h, w)
               PROVE  \E x \in 0 .. Chunks :
                        Carries(wire'[q], writing'[q], sent'[q][j], Streaming(q, j)', j, h, x)
    BY DEF WireKeeps
  <1>1. /\ sent[q][j] \in 0 .. Chunks /\ h \in Nat /\ wire[q] \in Seq(Frame)
        /\ writing[q] \in SUBSET Frame /\ Streaming(q, j) \in BOOLEAN
        /\ wire \in [Peers -> Seq(Frame)] /\ writing \in [Peers -> SUBSET Frame]
    BY FlowTypes, CountedFact DEF TypeOK, NetTypeOK
  <1>2. sent' = sent /\ (Streaming(q, j)' <=> Streaming(q, j)) /\ down' = down
    BY DEF WriteFrame, taskVars, Streaming
  <1>3. PICK f \in writing[p] :
          /\ writing' = [writing EXCEPT ![p] = @ \ {f}]
          /\ wire' = IF down THEN wire ELSE [wire EXCEPT ![p] = Append(@, f)]
    BY DEF WriteFrame
  <1>4. CASE q # p
    <2>1. wire'[q] = wire[q] /\ writing'[q] = writing[q] BY <1>1, <1>3, <1>4
    <2> QED BY <1>2, <2>1 DEF Carries
  <1>5. CASE q = p /\ down
    <2>1. wire'[q] = wire[q] /\ writing'[q] = writing[q] \ {f} BY <1>1, <1>3, <1>5
    <2>2. Streaming(q, j)' = FALSE BY <1>2, <1>5 DEF Streaming
    <2>3. PICK ws, vs : ws = writing[q] /\ vs = writing'[q] OBVIOUS
    <2>4. vs \in SUBSET ws BY <2>1, <2>3
    <2>5. Carries(wire[q], ws, sent[q][j], Streaming(q, j), j, h, w) BY <2>3
    <2>6. Carries(wire[q], vs, sent[q][j], FALSE, j, h, w) BY <2>4, <2>5, CarriesFewer
    <2>7. sent'[q][j] = sent[q][j] BY <1>2
    <2> QED BY <2>1, <2>2, <2>3, <2>6, <2>7
  <1>6. CASE q = p /\ ~down
    <2>1. wire'[q] = Append(wire[q], f) /\ writing'[q] = writing[q] \ {f} /\ f \in writing[q]
      BY <1>1, <1>3, <1>6
    <2>2. PICK s \in Seq(Frame), ws \in SUBSET Frame, n \in 0 .. Chunks, live \in BOOLEAN :
            s = wire[q] /\ ws = writing[q] /\ n = sent[q][j] /\ live = Streaming(q, j)
      BY <1>1
    <2>3. Carries(s, ws, n, live, j, h, w) /\ f \in ws BY <2>1, <2>2
    <2>4. PICK x \in 0 .. Chunks : Carries(Append(s, f), ws \ {f}, n, live, j, h, x)
      BY <1>1, <2>3, CarriesWrite
    <2>5. live = Streaming(q, j)' /\ n = sent'[q][j] BY <1>2, <2>2 DEF Streaming
    <2> QED BY <2>1, <2>2, <2>4, <2>5
  <1> QED BY <1>4, <1>5, <1>6

LEMMA LostFact ==
  \A i \in Ids : /\ Msg("lost", i) \in Item /\ Msg("lost", i).id = i
                 /\ Msg("lost", i).kind \notin {"delta", "completed"}
  <1>1. \A i \in Ids : Msg("lost", i) \in Item BY ItemFact DEF Endings
  <1>2. \A i : Msg("lost", i).id = i /\ Msg("lost", i).kind = "lost" BY DEF Msg
  <1> QED BY <1>1, <1>2

\* A stream whose consumer and whose wire are left alone.
LEMMA FlowKeeps ==
  ASSUME StreamBase, NEW p \in Peers, NEW i \in Ids,
         got'[p][i] = got[p][i],
         \/ queue'[p][i] = queue[p][i]
         \/ \E x \in Item : /\ x.id = i /\ x.kind \notin {"delta", "completed"}
                            /\ queue'[p][i] = Append(queue[p][i], x),
         reply'[p][i] = "completed" => reply[p][i] = "completed",
         sent'[Other(p)][i] = sent[Other(p)][i],
         i \in streams'[p] /\ ~eof'[p] =>
           i \in streams[p] /\ ~eof[p] /\ WireKeeps(Other(p), i),
         Counting(p, i)', cpc'[p][i] = "idle" => cpc[p][i] = "idle"
  PROVE  Flow(p, i)'
  <1>1. PICK q \in Peers : q = Other(p) BY PeersFact
  <1>2. PICK h, w \in 0 .. Chunks : StreamOK(p, i, h, w) BY DEF StreamBase, StreamInv, Flow
  <1>3. TypeOK BY DEF StreamBase, ReplyInv
  <1>4. /\ queue[p][i] \in Seq(Item) /\ got[p][i] \in Seq(Nat) /\ sent[q][i] \in Nat /\ h \in Nat
    BY <1>3, FlowTypes, CountedFact
  <1>5. Holds(queue'[p][i], got'[p][i], sent'[q][i], reply'[p][i], i, h)
    <2>1. Holds(queue[p][i], got[p][i], sent[q][i], reply[p][i], i, h)
      BY <1>1, <1>2 DEF StreamOK
    <2>2. PICK x \in Item : /\ x.id = i /\ x.kind \notin {"delta", "completed"}
                            /\ \/ queue'[p][i] = queue[p][i]
                               \/ queue'[p][i] = Append(queue[p][i], x)
      <3>1. /\ Msg("lost", i) \in Item /\ Msg("lost", i).id = i
            /\ Msg("lost", i).kind \notin {"delta", "completed"}
        BY LostFact
      <3>2. CASE queue'[p][i] = queue[p][i] BY <3>1, <3>2
      <3>3. CASE \E x \in Item : /\ x.id = i /\ x.kind \notin {"delta", "completed"}
                                 /\ queue'[p][i] = Append(queue[p][i], x)
        BY <3>3
      <3> QED BY <3>2, <3>3
    <2>3. ~IsDelta(x, i) /\ ~IsEnd(x, i) BY <2>2 DEF IsDelta, IsEnd
    <2>4. PICK s \in Seq(Item), g \in Seq(Nat), n \in Nat :
            s = queue[p][i] /\ g = got[p][i] /\ n = sent[q][i]
      BY <1>4
    <2>5. PICK how, how2 : how = reply[p][i] /\ how2 = reply'[p][i] OBVIOUS
    <2>6. Holds(s, g, n, how, i, h) /\ (how2 = "completed" => how = "completed")
      BY <2>1, <2>4, <2>5
    <2>7. Holds(s, g, n, how2, i, h) /\ Holds(Append(s, x), g, n, how2, i, h)
      BY <1>4, <2>2, <2>3, <2>6, HoldsOther
    <2>8. got'[p][i] = g /\ sent'[q][i] = n /\ (queue'[p][i] = s \/ queue'[p][i] = Append(s, x))
      BY <1>1, <2>2, <2>4
    <2> QED BY <2>5, <2>7, <2>8
  <1>6. i \in streams'[p] /\ ~eof'[p] => \E x \in 0 .. Chunks :
          Carries(wire'[q], writing'[q], sent'[q][i], Streaming(q, i)', i, h, x)
    <2> SUFFICES ASSUME i \in streams'[p], ~eof'[p]
                 PROVE  \E x \in 0 .. Chunks :
                          Carries(wire'[q], writing'[q], sent'[q][i], Streaming(q, i)', i, h, x)
      OBVIOUS
    <2>1. Carries(wire[q], writing[q], sent[q][i], Streaming(q, i), i, h, w)
      BY <1>1, <1>2 DEF StreamOK
    <2>2. WireKeeps(q, i) BY <1>1
    <2> QED BY <2>1, <2>2 DEF WireKeeps
  <1>7. PICK x \in 0 .. Chunks : i \in streams'[p] /\ ~eof'[p] =>
          Carries(wire'[q], writing'[q], sent'[q][i], Streaming(q, i)', i, h, x)
    BY <1>6
  <1>8. StreamOK(p, i, h, x)' BY <1>1, <1>5, <1>7 DEF StreamOK
  <1>9. cpc'[p][i] = "idle" => got'[p][i] = <<>> BY DEF StreamBase, StreamInv, Flow
  <1> QED BY <1>8, <1>9 DEF Flow

LEMMA WireAll ==
  ASSUME TypeOK, UNCHANGED <<sent, tpc, down>>,
         \/ UNCHANGED <<wire, writing>>
         \/ \E e \in Peers, f \in Frame :
              f.kind \notin {"delta", "completed"} /\ Post(e, f)
  PROVE  \A q \in Peers, j \in Ids : WireKeeps(q, j)
  <1> SUFFICES ASSUME NEW q \in Peers, NEW j \in Ids PROVE WireKeeps(q, j) OBVIOUS
  <1>1. Begins(q, j) /\ sent'[q][j] = sent[q][j] BY DEF Begins, Streaming
  <1>2. CASE UNCHANGED <<wire, writing>> BY <1>1, <1>2, WireSame
  <1>3. ASSUME NEW e \in Peers, NEW f \in Frame,
               f.kind \notin {"delta", "completed"}, Post(e, f)
        PROVE  WireKeeps(q, j)
    <2>1. ~IsDelta(f, j) /\ ~IsEnd(f, j) BY <1>3 DEF IsDelta, IsEnd
    <2> QED BY <1>1, <1>3, <2>1, WirePost
  <1> QED BY <1>2, <1>3

LEMMA CountingKept ==
  ASSUME StreamInv, NEW p \in Peers, NEW i \in Ids,
         tpc'[p][i] = tpc[p][i] /\ sent'[p][i] = sent[p][i] /\ answers'[p][i] = answers[p][i]
  PROVE  Counting(p, i)'
  BY DEF StreamInv, Flow, Counting

\* A step of the caller of one call.
LEMMA CallerFlow ==
  ASSUME StreamBase, NEW p \in Peers, NEW i \in Ids,
         UNCHANGED <<sent, tpc, answers, down, eof>>,
         \A q \in Peers, j \in Ids : WireKeeps(q, j),
         \A q \in Peers, j \in Ids : q # p \/ j # i =>
            /\ got'[q][j] = got[q][j] /\ queue'[q][j] = queue[q][j]
            /\ reply'[q][j] = reply[q][j] /\ cpc'[q][j] = cpc[q][j]
            /\ j \in streams'[q] => j \in streams[q],
         Flow(p, i)'
  PROVE  StreamInv'
  <1> SUFFICES ASSUME NEW q \in Peers, NEW j \in Ids PROVE Flow(q, j)' BY DEF StreamInv
  <1>1. CASE q = p /\ j = i BY <1>1
  <1>2. CASE q # p \/ j # i
    <2>1. Counting(q, j)' BY CountingKept DEF StreamBase
    <2>2. /\ got'[q][j] = got[q][j] /\ queue'[q][j] = queue[q][j]
          /\ reply'[q][j] = reply[q][j] /\ cpc'[q][j] = cpc[q][j]
          /\ j \in streams'[q] => j \in streams[q]
      BY <1>2
    <2>3. Other(q) \in Peers BY PeersFact
    <2> QED BY <2>1, <2>2, <2>3, FlowKeeps
  <1> QED BY <1>1, <1>2

LEMMA CallerStream ==
  ASSUME StreamBase, NEW p \in Peers, NEW i \in Ids,
         \/ SendDone(p, i) \/ SendRaises(p, i) \/ Return(p, i) \/ Abandon(p, i)
         \/ Iterate(p, i) \/ Cancel(p, i) \/ CloseEarly(p, i)
  PROVE  StreamInv'
  <1>a. TypeOK BY DEF StreamBase, ReplyInv
  <1>b. /\ cpc \in [Peers -> [Ids -> {"idle", "sending", "waiting", "open", "iterating", "done"}]]
        /\ reply \in [Peers -> [Ids -> Replies]] /\ streams \in [Peers -> SUBSET Ids]
    BY <1>a DEF TypeOK, CallTypeOK
  <1>1. UNCHANGED <<sent, tpc, answers, down, eof, got, queue>>
    BY DEF SendDone, SendRaises, Return, Abandon, Iterate, Cancel, CloseEarly, taskVars, netVars
  <1>2. \/ UNCHANGED <<wire, writing>>
        \/ \E e \in Peers, f \in Frame : f.kind \notin {"delta", "completed"} /\ Post(e, f)
    <2>1. Msg("cancel", i) \in Frame /\ Msg("cancel", i).kind \notin {"delta", "completed"}
      BY FrameFact DEF Kinds, Msg
    <2>2. CASE Cancel(p, i) BY <2>1, <2>2 DEF Cancel
    <2>3. CASE CloseEarly(p, i) BY <2>1, <2>3 DEF CloseEarly, Finish
    <2>4. CASE ~Cancel(p, i) /\ ~CloseEarly(p, i)
      BY <2>4 DEF SendDone, SendRaises, Return, Abandon, Iterate, netVars
    <2> QED BY <2>2, <2>3, <2>4
  <1>3. \A q \in Peers, j \in Ids : WireKeeps(q, j) BY <1>a, <1>1, <1>2, WireAll
  <1>4. /\ \A q \in Peers, j \in Ids : q # p \/ j # i =>
             reply'[q][j] = reply[q][j] /\ cpc'[q][j] = cpc[q][j]
        /\ reply'[p][i] = "completed" => reply[p][i] = "completed"
        /\ cpc'[p][i] = "idle" => cpc[p][i] = "idle"
    <2>1. CASE SendDone(p, i)
      <3>1. PICK c : c = IF mode[p][i] = "unary" THEN "waiting" ELSE "open" OBVIOUS
      <3>2. c # "idle" /\ cpc' = [cpc EXCEPT ![p][i] = c] /\ reply' = reply
        BY <2>1, <3>1 DEF SendDone
      <3> QED BY <1>b, <3>2
    <2>2. CASE SendRaises(p, i) BY <1>b, <2>2 DEF SendRaises
    <2>3. CASE Return(p, i) BY <1>b, <2>3 DEF Return
    <2>4. CASE Abandon(p, i)
      <3>1. PICK r : r = IF reply[p][i] = "pending" THEN "dropped" ELSE reply[p][i] OBVIOUS
      <3>2. cpc' = [cpc EXCEPT ![p][i] = "done"] /\ reply' = [reply EXCEPT ![p][i] = r]
        BY <2>4, <3>1 DEF Abandon
      <3> QED BY <1>b, <3>1, <3>2
    <2>5. CASE Iterate(p, i) BY <1>b, <2>5 DEF Iterate
    <2>6. CASE CloseEarly(p, i) BY <1>b, <2>6 DEF CloseEarly, Finish
    <2>7. CASE Cancel(p, i) BY <2>7 DEF Cancel
    <2> QED BY <2>1, <2>2, <2>3, <2>4, <2>5, <2>6, <2>7
  <1>5. \A q \in Peers, j \in Ids : j \in streams'[q] => j \in streams[q]
    <2>1. streams' = streams \/ streams' = [streams EXCEPT ![p] = @ \ {i}]
      BY DEF SendDone, SendRaises, Return, Abandon, Iterate, Cancel, CloseEarly, Finish
    <2> QED BY <1>b, <2>1
  <1>7. Flow(p, i)'
    <2>1. Counting(p, i)' BY <1>1, CountingKept DEF StreamBase
    <2> QED BY <1>1, <1>3, <1>4, <1>5, <2>1, PeersFact, FlowKeeps
  <1> QED BY <1>1, <1>3, <1>4, <1>5, <1>7, CallerFlow

LEMMA NextItemStream ==
  ASSUME StreamBase, NEW p \in Peers, NEW i \in Ids, NextItem(p, i)
  PROVE  StreamInv'
  <1>a. TypeOK BY DEF StreamBase, ReplyInv
  <1>b. /\ cpc \in [Peers -> [Ids -> {"idle", "sending", "waiting", "open", "iterating", "done"}]]
        /\ reply \in [Peers -> [Ids -> Replies]] /\ streams \in [Peers -> SUBSET Ids]
        /\ got \in [Peers -> [Ids -> Seq(0 .. Chunks)]] /\ queue \in [Peers -> [Ids -> Seq(Item)]]
    BY <1>a DEF TypeOK, CallTypeOK
  <1>c. PICK q \in Peers : q = Other(p) BY PeersFact
  <1>1. UNCHANGED <<sent, tpc, answers, down, eof>> /\ cpc[p][i] = "iterating"
    BY DEF NextItem, taskVars
  <1>2. PICK s \in Seq(Item), x \in Item : s = queue[p][i] /\ s # <<>> /\ x = Head(s)
    <2>1. queue[p][i] \in Seq(Item) /\ queue[p][i] # <<>> BY <1>b DEF NextItem
    <2>2. Head(queue[p][i]) \in Item BY <2>1
    <2> QED BY <2>1, <2>2
  <1>3. queue' = [queue EXCEPT ![p][i] = Tail(s)] BY <1>b, <1>2 DEF NextItem
  <1>4. IF x.kind \in Endings THEN Finish(p, i, x.kind) /\ UNCHANGED got
        ELSE /\ got' = IF x.kind # "delta" THEN got ELSE [got EXCEPT ![p][i] = Append(@, x.n)]
             /\ UNCHANGED <<cpc, reply, streams, asked, wire, writing>>
    BY <1>2 DEF NextItem
  <1>5. \A r \in Peers, j \in Ids : WireKeeps(r, j)
    <2>1. Msg("cancel", i) \in Frame /\ Msg("cancel", i).kind \notin {"delta", "completed"}
      BY FrameFact DEF Kinds, Msg
    <2>2. \/ UNCHANGED <<wire, writing>>
          \/ \E e \in Peers, f \in Frame : f.kind \notin {"delta", "completed"} /\ Post(e, f)
      BY <1>4, <2>1 DEF Finish
    <2> QED BY <1>a, <1>1, <2>2, WireAll
  <1>6. PICK g : g = Append(got[p][i], x.n) OBVIOUS
  <1>7. PICK k : k = x.kind OBVIOUS
  <1>8. \/ /\ k \in Endings /\ cpc' = [cpc EXCEPT ![p][i] = "done"] /\ got' = got
           /\ reply' = [reply EXCEPT ![p][i] = k] /\ streams' = [streams EXCEPT ![p] = @ \ {i}]
        \/ /\ k \notin Endings /\ UNCHANGED <<cpc, reply, streams>>
           /\ got' = IF k # "delta" THEN got ELSE [got EXCEPT ![p][i] = g]
    BY <1>4, <1>6, <1>7 DEF Finish
  <1>9. \A r \in Peers, j \in Ids : r # p \/ j # i =>
            /\ got'[r][j] = got[r][j] /\ queue'[r][j] = queue[r][j]
            /\ reply'[r][j] = reply[r][j] /\ cpc'[r][j] = cpc[r][j]
            /\ j \in streams'[r] => j \in streams[r]
    <2>1. \A r \in Peers, j \in Ids : r # p \/ j # i => queue'[r][j] = queue[r][j] BY <1>b, <1>3
    <2>2. \A r \in Peers, j \in Ids : r # p \/ j # i => got'[r][j] = got[r][j] BY <1>b, <1>8
    <2>3. \A r \in Peers, j \in Ids : r # p \/ j # i =>
            reply'[r][j] = reply[r][j] /\ cpc'[r][j] = cpc[r][j]
      BY <1>b, <1>8
    <2>4. \A r \in Peers, j \in Ids : j \in streams'[r] => j \in streams[r]
      <3>1. streams' = streams \/ streams' = [streams EXCEPT ![p] = @ \ {i}] BY <1>8
      <3> QED BY <1>b, <3>1
    <2> QED BY <2>1, <2>2, <2>3, <2>4
  <1>10. PICK h, w \in 0 .. Chunks : StreamOK(p, i, h, w) BY DEF StreamBase, StreamInv, Flow
  <1>11. Holds(queue'[p][i], got'[p][i], sent'[q][i], reply'[p][i], i, h)
    <2>1. Holds(s, got[p][i], sent[q][i], reply[p][i], i, h) BY <1>c, <1>2, <1>10 DEF StreamOK
    <2>2. got[p][i] \in Seq(Nat) /\ sent[q][i] \in Nat /\ h \in Nat
      BY <1>a, FlowTypes, CountedFact
    <2>3. queue'[p][i] = Tail(s) /\ sent'[q][i] = sent[q][i] BY <1>b, <1>1, <1>3
    <2>4. CASE k # "delta"
      <3>1. PICK how : how = reply'[p][i] OBVIOUS
      <3>2. how = "completed" => reply[p][i] = "completed" \/ Head(s).kind = "completed"
        <4>1. reply' = reply \/ reply' = [reply EXCEPT ![p][i] = k] BY <1>8
        <4>2. reply'[p][i] = reply[p][i] \/ reply'[p][i] = k BY <1>b, <4>1
        <4> QED BY <1>2, <1>7, <3>1, <4>2
      <3>3. got'[p][i] = got[p][i] BY <1>8, <2>4
      <3>4. Holds(Tail(s), got[p][i], sent[q][i], how, i, h)
        BY <1>2, <1>7, <2>1, <2>2, <2>4, <3>2, HoldsTake
      <3> QED BY <2>3, <3>1, <3>3, <3>4
    <2>5. CASE k = "delta"
      <3>1. got'[p][i] = g /\ reply' = reply BY <1>b, <1>8, <2>5 DEF Endings
      <3>2. reply[p][i] # "completed"
        <4>1. CallOK(p, i) BY DEF StreamBase, ReplyInv, CallsOK
        <4> QED BY <1>b, <1>1, <4>1 DEF CallOK
      <3>3. Holds(Tail(s), g, sent[q][i], reply[p][i], i, h)
        BY <1>2, <1>6, <1>7, <2>1, <2>2, <2>5, <3>2, HoldsTake
      <3> QED BY <2>3, <3>1, <3>3
    <2> QED BY <2>4, <2>5
  <1>12. PICK y \in 0 .. Chunks : i \in streams'[p] /\ ~eof'[p] =>
           Carries(wire'[q], writing'[q], sent'[q][i], Streaming(q, i)', i, h, y)
    <2>1. CASE i \in streams[p] /\ ~eof[p]
      <3>1. Carries(wire[q], writing[q], sent[q][i], Streaming(q, i), i, h, w)
        BY <1>c, <1>10, <2>1 DEF StreamOK
      <3> QED BY <1>5, <3>1 DEF WireKeeps
    <2>2. CASE ~(i \in streams[p] /\ ~eof[p])
      <3>1. ~(i \in streams'[p] /\ ~eof'[p]) BY <1>b, <1>1, <1>8, <2>2
      <3> QED BY <3>1
    <2> QED BY <2>1, <2>2
  <1>13. StreamOK(p, i, h, y)' BY <1>c, <1>11, <1>12 DEF StreamOK
  <1>14. Counting(p, i)' BY <1>1, CountingKept DEF StreamBase
  <1>15. cpc'[p][i] # "idle" BY <1>b, <1>1, <1>8
  <1>16. Flow(p, i)' BY <1>13, <1>14, <1>15 DEF Flow
  <1> QED BY <1>1, <1>5, <1>9, <1>16, CallerFlow

\* A call is made: nothing of its stream is on the way yet.
LEMMA InvokeStream ==
  ASSUME StreamBase, NEW p \in Peers, NEW m \in {"unary", "stream"}, Invoke(p, m)
  PROVE  StreamInv'
  <1>a. TypeOK BY DEF StreamBase, ReplyInv
  <1>b. /\ cpc \in [Peers -> [Ids -> {"idle", "sending", "waiting", "open", "iterating", "done"}]]
        /\ reply \in [Peers -> [Ids -> Replies]] /\ streams \in [Peers -> SUBSET Ids]
        /\ counter \in [Peers -> Nat]
        /\ wire \in [Peers -> Seq(Frame)] /\ writing \in [Peers -> SUBSET Frame]
    BY <1>a DEF TypeOK, CallTypeOK, NetTypeOK
  <1>c. PICK q \in Peers : q = Other(p) /\ Other(q) = p /\ q # p BY DEF Peers, Other
  <1>d. PICK i \in Ids : i = counter[p] + 1
    <2>1. counter[p] + 1 \in Ids
      BY <1>b, PeerAssumption DEF Invoke, Ids, Peers, PeerAssumption
    <2> QED BY <2>1
  <1>e. PICK f \in Frame : /\ f = Msg(IF m = "unary" THEN "invoke" ELSE "invoke_stream", i)
                           /\ f.kind \notin {"delta", "completed"}
    <2>1. \A k \in {"invoke", "invoke_stream"} : Msg(k, i) \in Frame /\ Msg(k, i).kind = k
      BY FrameFact DEF Kinds, Msg
    <2> QED BY <2>1
  <1>1. /\ UNCHANGED <<sent, tpc, answers, down, eof, got, queue>> /\ Post(p, f)
        /\ cpc' = [cpc EXCEPT ![p][i] = "sending"] /\ reply' = [reply EXCEPT ![p][i] = "pending"]
        /\ streams' = streams \/ streams' = [streams EXCEPT ![p] = @ \cup {i}]
    BY <1>d, <1>e DEF Invoke, taskVars
  <1>2. \A r \in Peers, j \in Ids : WireKeeps(r, j) BY <1>a, <1>1, <1>e, WireAll
  <1>3. \A r \in Peers, j \in Ids : r # p \/ j # i =>
            /\ reply'[r][j] = reply[r][j] /\ cpc'[r][j] = cpc[r][j]
            /\ j \in streams'[r] => j \in streams[r]
    BY <1>b, <1>1
  <1>4. cpc[p][i] = "idle" /\ queue[p][i] = <<>> /\ tpc[q][i] = "none" /\ sent[q][i] = 0
        /\ got[p][i] = <<>>
    <2>1. CallOK(p, i) /\ TaskOK(q, i) BY DEF StreamBase, ReplyInv, CallsOK, TasksOK
    <2>2. cpc[p][i] = "idle" BY <1>b, <1>d, <2>1 DEF CallOK
    <2>3. tpc[q][i] = "none" BY <1>c, <2>1, <2>2 DEF TaskOK
    <2>4. Counting(q, i) /\ got[p][i] = <<>> BY <2>2 DEF StreamBase, StreamInv, Flow
    <2> QED BY <2>1, <2>2, <2>3, <2>4 DEF CallOK, Counting
  <1>5. \A g \in InFlight(q) : ~IsDelta(g, i) /\ ~IsEnd(g, i)
    <2> SUFFICES ASSUME NEW g \in InFlight(q), g.id = i, g.kind \in {"delta", "completed"}
                 PROVE  FALSE
      BY DEF IsDelta, IsEnd
    <2>1. FrameOK(q, g) BY DEF StreamBase, ReplyInv, FramesOK
    <2> QED BY <1>4, <2>1 DEF FrameOK, EventKinds
  <1>6. Carries(wire[q], writing[q], 0, FALSE, i, 0, 0)
    <2>1. /\ \A k \in DOMAIN wire[q] : ~IsDelta(wire[q][k], i) /\ ~IsEnd(wire[q][k], i)
          /\ \A g \in writing[q] : ~IsDelta(g, i) /\ ~IsEnd(g, i)
      BY <1>5 DEF InFlight
    <2>2. Run(wire[q], i, 0, 0) BY <2>1, RunNone
    <2> QED BY <2>1, <2>2 DEF Carries, Ends
  <1>7. Holds(<<>>, <<>>, 0, "pending", i, 0)
    <2>1. DOMAIN <<>> = {} /\ Len(<<>>) = 0 OBVIOUS
    <2>2. Run(<<>>, i, 0, 0) BY <2>1, RunNone
    <2> QED BY <2>1, <2>2 DEF Holds, Ends
  <1>8. StreamOK(p, i, 0, 0)'
    <2>1. /\ queue'[p][i] = <<>> /\ got'[p][i] = <<>> /\ sent'[q][i] = 0
          /\ reply'[p][i] = "pending"
      BY <1>b, <1>1, <1>4
    <2>2. wire'[q] = wire[q] /\ writing'[q] = writing[q] BY <1>b, <1>c, <1>1 DEF Post
    <2>3. ~Streaming(q, i)' BY <1>1, <1>4 DEF Streaming
    <2>4. Carries(wire'[q], writing'[q], sent'[q][i], Streaming(q, i)', i, 0, 0)
      BY <1>6, <2>1, <2>2, <2>3 DEF Carries
    <2> QED BY <1>c, <1>7, <2>1, <2>4 DEF StreamOK
  <1>9. Flow(p, i)'
    <2>1. Counting(p, i)' BY <1>1, CountingKept DEF StreamBase
    <2>2. cpc'[p][i] # "idle" /\ 0 \in 0 .. Chunks
      BY <1>b, <1>1, PeerAssumption DEF PeerAssumption
    <2> QED BY <1>8, <2>1, <2>2 DEF Flow
  <1> QED BY <1>1, <1>2, <1>3, <1>9, CallerFlow

\* A step that leaves calls and producers alone.
LEMMA QuietStream ==
  ASSUME StreamBase, UNCHANGED <<got, queue, reply, streams, cpc, sent, tpc, answers>>,
         \A p \in Peers, i \in Ids : i \in streams[p] /\ ~eof'[p] =>
            ~eof[p] /\ WireKeeps(Other(p), i)
  PROVE  StreamInv'
  <1> SUFFICES ASSUME NEW p \in Peers, NEW i \in Ids PROVE Flow(p, i)' BY DEF StreamInv
  <1>1. Counting(p, i)' BY CountingKept DEF StreamBase
  <1> QED BY <1>1, PeersFact, FlowKeeps

\* Failing and stopping: the streams are woken and leave the table.
LEMMA ReleaseStream ==
  ASSUME StreamBase, NEW p \in Peers, Release(p), UNCHANGED <<writing, down, eof>>,
         wire'[p] = wire[p]
  PROVE  StreamInv'
  <1>a. TypeOK BY DEF StreamBase, ReplyInv
  <1>b. /\ reply \in [Peers -> [Ids -> Replies]] /\ streams \in [Peers -> SUBSET Ids]
        /\ queue \in [Peers -> [Ids -> Seq(Item)]]
    BY <1>a DEF TypeOK, CallTypeOK
  <1>1. UNCHANGED <<cpc, got, sent, tpc, answers>> BY DEF Release
  <1> SUFFICES ASSUME NEW r \in Peers, NEW j \in Ids PROVE Flow(r, j)' BY DEF StreamInv
  <1>2. Counting(r, j)' BY <1>1, CountingKept DEF StreamBase
  <1>3. CASE r = p
    <2>1. /\ reply'[r][j] = "completed" => reply[r][j] = "completed"
          /\ streams'[r] = {}
      BY <1>b, <1>3 DEF Release
    <2>2. \/ queue'[r][j] = queue[r][j]
          \/ queue'[r][j] = Append(queue[r][j], Msg("lost", j))
      BY <1>b, <1>3 DEF Release
    <2>3. /\ Msg("lost", j) \in Item /\ Msg("lost", j).id = j
          /\ Msg("lost", j).kind \notin {"delta", "completed"}
      BY LostFact
    <2>4. j \notin streams'[r] BY <2>1
    <2>5. \/ queue'[r][j] = queue[r][j]
          \/ \E x \in Item : /\ x.id = j /\ x.kind \notin {"delta", "completed"}
                             /\ queue'[r][j] = Append(queue[r][j], x)
      BY <2>2, <2>3
    <2> QED BY <1>1, <1>2, <2>1, <2>4, <2>5, FlowKeeps
  <1>4. CASE r # p
    <2>1. reply'[r] = reply[r] /\ queue'[r] = queue[r] /\ streams'[r] = streams[r]
      BY <1>b, <1>4 DEF Release
    <2>2. Other(r) = p BY <1>4 DEF Peers, Other
    <2>3. Begins(p, j) BY <1>1 DEF Begins, Streaming
    <2>4. WireKeeps(p, j) BY <1>a, <1>1, <2>3, WireSame
    <2> QED BY <1>1, <1>2, <2>1, <2>2, <2>4, FlowKeeps
  <1> QED BY <1>3, <1>4

LEMMA ConnectionStream ==
  ASSUME StreamBase, NEW p \in Peers,
         \/ Fail(p) \/ Stop(p) \/ Refuse(p) \/ StopDone(p) \/ LoseLink \/ Eof(p)
         \/ WriteFrame(p) \/ CancelTask(p)
  PROVE  StreamInv'
  <1>a. TypeOK BY DEF StreamBase, ReplyInv
  <1>b. wire \in [Peers -> Seq(Frame)] /\ eof \in [Peers -> BOOLEAN]
    BY <1>a DEF TypeOK, NetTypeOK
  <1>c. PICK q \in Peers : q = Other(p) /\ q # p /\ \A r \in Peers : r # p => Other(r) = p
    BY DEF Peers, Other
  <1>1. CASE Stop(p) BY <1>1, ReleaseStream DEF Stop
  <1>2. CASE Fail(p) BY <1>2, ReleaseStream DEF Fail, FailConnection, netVars
  <1>3. ASSUME UNCHANGED <<callVars, taskVars>>
        PROVE  UNCHANGED <<got, queue, reply, streams, cpc, sent, tpc, answers>>
    BY <1>3 DEF callVars, taskVars
  <1>4. ASSUME UNCHANGED <<callVars, taskVars, writing>>, (down' = down) \/ (down' = TRUE),
               NEW r \in Peers, wire'[r] = wire[r]
        PROVE  \A j \in Ids : WireKeeps(r, j)
    <2> SUFFICES ASSUME NEW j \in Ids PROVE WireKeeps(r, j) OBVIOUS
    <2>1. Begins(r, j) /\ sent' = sent BY <1>4 DEF Begins, Streaming, taskVars
    <2> QED BY <1>a, <1>4, <2>1, WireSame
  <1>5. CASE Refuse(p)
    <2>1. wire'[p] = wire[p] /\ UNCHANGED <<writing, down, eof>> BY <1>b, <1>c, <1>5 DEF Refuse
    <2>2. CASE ~unusable[p]
      <3>1. Release(p) BY <1>5, <2>2 DEF Refuse, FailConnection
      <3> QED BY <2>1, <3>1, ReleaseStream
    <2>3. CASE unusable[p]
      <3>1. UNCHANGED <<callVars, taskVars>> BY <1>5, <2>3 DEF Refuse, FailConnection
      <3>2. streams[p] = {} BY <2>3 DEF StreamBase, CallerInv, Cleared
      <3>3. \A j \in Ids : WireKeeps(p, j) BY <1>4, <2>1, <3>1
      <3>4. \A r \in Peers, j \in Ids : j \in streams[r] => WireKeeps(Other(r), j)
        BY <1>c, <3>2, <3>3
      <3> QED BY <1>3, <2>1, <3>1, <3>4, QuietStream
    <2> QED BY <2>2, <2>3
  <1>6. CASE StopDone(p) \/ LoseLink
    <2>1. /\ UNCHANGED <<callVars, taskVars, writing, wire>>
          /\ (down' = down) \/ (down' = TRUE)
          /\ \A r \in Peers : ~eof'[r] => ~eof[r]
      BY <1>b, <1>6 DEF StopDone, LoseLink
    <2>2. \A r \in Peers, j \in Ids : WireKeeps(Other(r), j) BY <1>4, <2>1, PeersFact
    <2> QED BY <1>3, <2>1, <2>2, QuietStream
  <1>7. CASE Eof(p)
    <2>1. UNCHANGED <<callVars, taskVars, writing, down>> /\ eof'[p]
          /\ wire'[p] = wire[p] /\ \A r \in Peers : ~eof'[r] => ~eof[r]
      BY <1>b, <1>c, <1>7 DEF Eof
    <2>2. \A j \in Ids : WireKeeps(p, j) BY <1>4, <2>1
    <2>3. \A r \in Peers, j \in Ids : ~eof'[r] => WireKeeps(Other(r), j) BY <1>c, <2>1, <2>2
    <2> QED BY <1>3, <2>1, <2>3, QuietStream
  <1>8. CASE WriteFrame(p)
    <2>1. UNCHANGED <<callVars, taskVars, eof>> BY <1>8 DEF WriteFrame
    <2>2. \A r \in Peers, j \in Ids : WireKeeps(Other(r), j) BY <1>a, <1>8, WireWrite, PeersFact
    <2> QED BY <1>3, <2>1, <2>2, QuietStream
  <1>9. CASE CancelTask(p)
    <2>1. /\ UNCHANGED <<callVars, wire, writing, down, eof>> /\ UNCHANGED <<sent, tpc, answers>>
      BY <1>9 DEF CancelTask
    <2>2. UNCHANGED <<got, queue, reply, streams, cpc>> BY <2>1 DEF callVars
    <2>3. \A r \in Peers, j \in Ids : WireKeeps(Other(r), j)
      BY <1>a, <2>1, WireAll, PeersFact
    <2> QED BY <2>1, <2>2, <2>3, QuietStream
  <1> QED BY <1>1, <1>2, <1>5, <1>6, <1>7, <1>8, <1>9

LEMMA WireRead ==
  ASSUME TypeOK, NEW q \in Peers, NEW j \in Ids, wire[q] # <<>>, wire'[q] = Tail(wire[q]),
         writing' = writing, sent' = sent, down' = down, tpc'[q][j] = tpc[q][j],
         ~IsDelta(Head(wire[q]), j)
  PROVE  WireKeeps(q, j)
  <1> SUFFICES ASSUME NEW h \in 0 .. Chunks, NEW w \in 0 .. Chunks,
                      Carries(wire[q], writing[q], sent[q][j], Streaming(q, j), j, h, w)
               PROVE  Carries(wire'[q], writing'[q], sent'[q][j], Streaming(q, j)', j, h, w)
    BY DEF WireKeeps
  <1>1. /\ sent[q][j] \in Nat /\ w \in Nat /\ h \in Nat /\ wire[q] \in Seq(Frame)
        /\ writing[q] \in SUBSET Frame /\ Streaming(q, j) \in BOOLEAN
    BY FlowTypes, CountedFact
  <1>2. PICK s \in Seq(Frame), ws \in SUBSET Frame, n \in Nat, live \in BOOLEAN :
          s = wire[q] /\ ws = writing[q] /\ n = sent[q][j] /\ live = Streaming(q, j)
    BY <1>1
  <1>3. Carries(s, ws, n, live, j, h, w) /\ s # <<>> /\ ~IsDelta(Head(s), j) BY <1>2
  <1>4. Carries(Tail(s), ws, n, live, j, h, w) BY <1>1, <1>3, CarriesRead
  <1>5. live = Streaming(q, j)' BY <1>2 DEF Streaming
  <1> QED BY <1>2, <1>4, <1>5

LEMMA ReceiveStream ==
  ASSUME StreamBase, NEW p \in Peers, Receive(p)
  PROVE  StreamInv'
  <1>a. TypeOK BY DEF StreamBase, ReplyInv
  <1>b. /\ reply \in [Peers -> [Ids -> Replies]] /\ queue \in [Peers -> [Ids -> Seq(Item)]]
        /\ tpc \in [Peers -> [Ids -> {"none", "ended", "crashed"} \cup Live]]
        /\ wire \in [Peers -> Seq(Frame)]
    BY <1>a DEF TypeOK, CallTypeOK, TaskTypeOK, NetTypeOK
  <1>c. PICK q \in Peers : q = Other(p) /\ Other(q) = p /\ q # p
                           /\ \A r \in Peers : r = p \/ r = q
    BY DEF Peers, Other
  <1>d. PICK f \in Frame, i \in Ids : /\ f = Head(wire[q]) /\ i = f.id /\ FrameOK(q, f)
                                      /\ wire[q] # <<>> /\ ~eof[p]
    <2>1. PICK f : f = Head(wire[q]) OBVIOUS
    <2>2. wire[q] # <<>> /\ ~eof[p] BY <1>c DEF Receive, Reading
    <2>3. f \in Frame BY <1>b, <2>1, <2>2
    <2>4. f \in InFlight(q)
      <3>1. Head(wire[q]) = wire[q][1] /\ 1 \in DOMAIN wire[q] BY <1>b, <2>2
      <3> QED BY <2>1, <3>1 DEF InFlight
    <2>5. f.id \in Ids /\ FrameOK(q, f) BY <2>3, <2>4 DEF Frame, StreamBase, ReplyInv, FramesOK
    <2> QED BY <2>1, <2>2, <2>3, <2>5
  <1>1. \/ f.kind \in ResultKinds /\ HandleResult(p, f)
        \/ f.kind \in EventKinds /\ HandleEvent(p, f)
        \/ f.kind \in {"invoke", "invoke_stream"} /\ HandleInvoke(p, f)
        \/ f.kind = "cancel" /\ HandleCancel(p, f)
    BY <1>c, <1>d DEF Receive
  <1>2. /\ wire'[q] = Tail(wire[q]) /\ wire'[p] = wire[p] /\ UNCHANGED <<writing, down, eof>>
    BY <1>b, <1>c DEF Receive
  <1>3. UNCHANGED <<cpc, got, sent, answers, streams>>
    BY <1>1 DEF HandleResult, HandleEvent, HandleInvoke, HandleCancel, callVars, taskVars
  <1>4. \/ tpc' = tpc
        \/ tpc' = [tpc EXCEPT ![p][i] = "created"] /\ tpc[p][i] = "none"
    <2>1. CASE f.kind \in {"invoke", "invoke_stream"} /\ HandleInvoke(p, f)
      BY <1>c, <1>d, <2>1 DEF HandleInvoke, FrameOK, IsInvoke
    <2> QED BY <1>1, <2>1 DEF HandleResult, HandleEvent, HandleCancel, taskVars
  <1>5. \/ UNCHANGED <<reply, queue>>
        \/ /\ \E r \in ResultKinds \cup {"protocol"} : reply' = [reply EXCEPT ![p][i] = r]
           /\ queue' = queue
        \/ /\ f.kind \in ResultKinds /\ reply' = reply
           /\ queue' = [queue EXCEPT ![p][i] = Append(@, Msg("protocol", i))]
        \/ /\ f.kind \in EventKinds /\ reply' = reply /\ i \in streams[p]
           /\ queue' = [queue EXCEPT ![p][i] = Append(@, f)]
    <2>1. CASE f.kind \in ResultKinds /\ HandleResult(p, f)
      <3>1. CASE i \in pending[p]
        <4>1. PICK r : r = IF reply[p][i] = "pending" THEN f.kind ELSE reply[p][i] OBVIOUS
        <4>2. reply' = [reply EXCEPT ![p][i] = r] /\ queue' = queue
          BY <1>d, <2>1, <3>1, <4>1 DEF HandleResult
        <4>3. CASE reply[p][i] = "pending" BY <2>1, <4>1, <4>2, <4>3
        <4>4. CASE reply[p][i] # "pending"
          <5>1. reply' = reply BY <1>b, <4>1, <4>2, <4>4
          <5> QED BY <4>2, <5>1
        <4> QED BY <4>3, <4>4
      <3>2. CASE i \notin pending[p] BY <1>d, <2>1, <3>2 DEF HandleResult
      <3> QED BY <3>1, <3>2
    <2>2. CASE f.kind \in EventKinds /\ HandleEvent(p, f)
      <3>1. CASE i \in streams[p] BY <1>d, <2>2, <3>1 DEF HandleEvent
      <3>2. CASE i \notin streams[p] BY <1>d, <2>2, <3>2 DEF HandleEvent
      <3> QED BY <3>1, <3>2
    <2> QED BY <1>1, <2>1, <2>2 DEF HandleInvoke, HandleCancel, callVars
  <1>6. \A r \in Peers, j \in Ids : Counting(r, j)'
    <2> SUFFICES ASSUME NEW r \in Peers, NEW j \in Ids PROVE Counting(r, j)' OBVIOUS
    <2>1. Counting(r, j) BY DEF StreamBase, StreamInv, Flow
    <2>2. \/ tpc'[r][j] = tpc[r][j]
          \/ tpc[r][j] = "none" /\ tpc'[r][j] = "created"
      <3>1. CASE tpc' = tpc BY <3>1
      <3>2. CASE tpc' = [tpc EXCEPT ![p][i] = "created"] /\ tpc[p][i] = "none"
        <4>1. CASE r = p /\ j = i BY <1>b, <3>2, <4>1
        <4>2. CASE r # p \/ j # i BY <1>b, <3>2, <4>2
        <4> QED BY <4>1, <4>2
      <3> QED BY <1>4, <3>1, <3>2
    <2> QED BY <1>3, <2>1, <2>2 DEF Counting
  <1>7. \A j \in Ids : Flow(q, j)'
    <2> SUFFICES ASSUME NEW j \in Ids PROVE Flow(q, j)' OBVIOUS
    <2>1. reply'[q][j] = reply[q][j] /\ queue'[q][j] = queue[q][j] BY <1>b, <1>c, <1>5
    <2>2. Begins(p, j)
      <3>1. tpc'[p][j] = tpc[p][j] \/ tpc'[p][j] = "created" BY <1>b, <1>4
      <3> QED BY <1>2, <3>1 DEF Begins, Streaming
    <2>3. WireKeeps(p, j) BY <1>a, <1>2, <1>3, <2>2, WireSame
    <2> QED BY <1>2, <1>3, <1>6, <2>1, <2>3, <1>c, FlowKeeps
  <1>8. ASSUME NEW j \in Ids, j # i \/ f.kind \notin {"delta", "completed"}
        PROVE  Flow(p, j)'
    <2>1. WireKeeps(q, j)
      <3>1. ~IsDelta(Head(wire[q]), j) BY <1>8, <1>d DEF IsDelta
      <3>2. tpc'[q][j] = tpc[q][j] BY <1>b, <1>c, <1>4
      <3> QED BY <1>a, <1>d, <1>2, <1>3, <3>1, <3>2, WireRead
    <2>2. reply'[p][j] = "completed" => reply[p][j] = "completed"
      <3>1. \/ reply' = reply
            \/ \E r \in ResultKinds \cup {"protocol"} : reply' = [reply EXCEPT ![p][i] = r]
        BY <1>5
      <3>2. "completed" \notin ResultKinds \cup {"protocol"} BY DEF ResultKinds
      <3> QED BY <1>b, <3>1, <3>2
    <2>3. \/ queue'[p][j] = queue[p][j]
          \/ \E x \in Item : /\ x.id = j /\ x.kind \notin {"delta", "completed"}
                             /\ queue'[p][j] = Append(queue[p][j], x)
      <3>1. CASE j # i BY <1>b, <1>5, <3>1
      <3>2. CASE j = i
        <4>1. \/ queue'[p][i] = queue[p][i]
              \/ queue'[p][i] = Append(queue[p][i], Msg("protocol", i))
              \/ f.kind \in EventKinds /\ queue'[p][i] = Append(queue[p][i], f)
          BY <1>b, <1>5
        <4>2. /\ Msg("protocol", i) \in Item
              /\ Msg("protocol", i).id = i /\ Msg("protocol", i).kind = "protocol"
          <5>1. Msg("protocol", i) \in Item BY ItemFact DEF Endings
          <5> QED BY <5>1 DEF Msg
        <4>3. f.kind \in EventKinds => f \in Item BY <1>d DEF Frame, Item
        <4>4. CASE f.kind \in EventKinds /\ queue'[p][i] = Append(queue[p][i], f)
          BY <1>8, <1>d, <3>2, <4>3, <4>4
        <4> QED BY <3>2, <4>1, <4>2, <4>4
      <3> QED BY <3>1, <3>2
    <2> QED BY <1>c, <1>2, <1>3, <1>6, <2>1, <2>2, <2>3, FlowKeeps
  <1>9. ASSUME f.kind \in {"delta", "completed"}
        PROVE  Flow(p, i)'
    <2>1. f.kind \in EventKinds /\ f.kind \notin ResultKinds /\ f \in Item
      BY <1>9, <1>d DEF EventKinds, ResultKinds, Frame, Item
    <2>2. HandleEvent(p, f) BY <1>1, <1>9, <2>1
    <2>3. CASE i \notin streams[p]
      <3>1. queue' = queue /\ (reply' = reply \/ reply' = [reply EXCEPT ![p][i] = "protocol"])
        BY <1>d, <2>2, <2>3 DEF HandleEvent
      <3>2. /\ queue'[p][i] = queue[p][i]
            /\ reply'[p][i] = "completed" => reply[p][i] = "completed"
        BY <1>b, <3>1
      <3> QED BY <1>c, <1>3, <1>6, <2>3, <3>2, FlowKeeps
    <2>4. CASE i \in streams[p]
      <3>1. queue' = [queue EXCEPT ![p][i] = Append(@, f)] /\ reply' = reply
        BY <1>d, <2>2, <2>4 DEF HandleEvent
      <3>2. PICK h, w \in 0 .. Chunks : StreamOK(p, i, h, w) BY DEF StreamBase, StreamInv, Flow
      <3>3. PICK s \in Seq(Frame), ws \in SUBSET Frame, n \in Nat, live \in BOOLEAN :
              s = wire[q] /\ ws = writing[q] /\ n = sent[q][i] /\ live = Streaming(q, i)
        BY <1>a, FlowTypes
      <3>4. PICK u \in Seq(Item), g \in Seq(Nat), how \in Replies :
              u = queue[p][i] /\ g = got[p][i] /\ how = reply[p][i]
        BY <1>a, <1>b, FlowTypes
      <3>5. Carries(s, ws, n, live, i, h, w) /\ Holds(u, g, n, how, i, h)
        BY <1>c, <1>d, <2>4, <3>2, <3>3, <3>4 DEF StreamOK
      <3>6. /\ queue'[p][i] = Append(u, f) /\ got'[p][i] = g /\ reply'[p][i] = how
            /\ wire'[q] = Tail(s) /\ writing'[q] = ws /\ sent'[q][i] = n
            /\ (Streaming(q, i)' <=> live) /\ f = Head(s) /\ s # <<>>
        <4>1. tpc'[q][i] = tpc[q][i] BY <1>b, <1>c, <1>4
        <4>2. live = Streaming(q, i)' BY <1>2, <3>3, <4>1 DEF Streaming
        <4> QED BY <1>b, <1>d, <1>2, <1>3, <3>1, <3>3, <3>4, <4>2
      <3>7. h \in Nat /\ w \in Nat BY CountedFact
      <3>8. CASE f.kind = "delta"
        <4>1. IsDelta(Head(s), i) /\ IsDelta(f, i) BY <1>d, <3>6, <3>8 DEF IsDelta
        <4>2. f.n = h + 1 /\ h < w /\ w <= n /\ Carries(Tail(s), ws, n, live, i, h + 1, w)
          BY <3>5, <3>6, <3>7, <4>1, CarriesRead
        <4>3. h < n BY <3>7, <4>2
        <4>4. Holds(Append(u, f), g, n, how, i, h + 1)
          BY <1>d, <2>1, <3>5, <3>7, <4>1, <4>2, <4>3, HoldsEvent
        <4>5. PICK y \in 0 .. Chunks : y = h + 1
          BY <4>2, PeerAssumption DEF PeerAssumption
        <4>6. Holds(Append(u, f), g, n, how, i, y) /\ Carries(Tail(s), ws, n, live, i, y, w)
          BY <4>2, <4>4, <4>5
        <4>7. StreamOK(p, i, y, w)' BY <1>c, <3>6, <4>6 DEF StreamOK, Carries
        <4> QED BY <1>3, <1>6, <4>7 DEF Flow, StreamBase, StreamInv
      <3>9. CASE f.kind = "completed"
        <4>1. IsEnd(Head(s), i) /\ IsEnd(f, i) /\ ~IsDelta(Head(s), i)
          BY <1>d, <3>6, <3>9 DEF IsDelta, IsEnd
        <4>2. h = n /\ Carries(Tail(s), ws, n, live, i, h, w)
          BY <3>5, <3>6, <3>7, <4>1, CarriesRead
        <4>3. Holds(Append(u, f), g, n, how, i, h)
          BY <1>d, <2>1, <3>5, <3>7, <4>1, <4>2, HoldsEvent
        <4>4. StreamOK(p, i, h, w)' BY <1>c, <3>6, <4>2, <4>3 DEF StreamOK, Carries
        <4> QED BY <1>3, <1>6, <4>4 DEF Flow, StreamBase, StreamInv
      <3> QED BY <1>9, <3>8, <3>9
    <2> QED BY <2>3, <2>4
  <1>10. \A j \in Ids : Flow(p, j)' BY <1>8, <1>9
  <1> QED BY <1>c, <1>7, <1>10 DEF StreamInv

\* A step of the task that serves one call.
LEMMA TaskFlow ==
  ASSUME StreamBase, NEW p \in Peers, NEW i \in Ids, UNCHANGED <<callVars, down, eof>>,
         \A r \in Peers, j \in Ids : r # p \/ j # i =>
            /\ tpc'[r][j] = tpc[r][j] /\ sent'[r][j] = sent[r][j]
            /\ answers'[r][j] = answers[r][j],
         \A r \in Peers : r # p => wire'[r] = wire[r] /\ writing'[r] = writing[r],
         \A j \in Ids : j # i => WireKeeps(p, j),
         Counting(p, i)',
         (sent'[p][i] = sent[p][i] /\ WireKeeps(p, i)) \/ Flow(Other(p), i)'
  PROVE  StreamInv'
  <1>a. TypeOK BY DEF StreamBase, ReplyInv
  <1>c. PICK q \in Peers : q = Other(p) /\ Other(q) = p /\ q # p
                           /\ \A r \in Peers : r = p \/ r = q
    BY DEF Peers, Other
  <1>1. UNCHANGED <<got, queue, reply, streams, cpc>> BY DEF callVars
  <1>2. \A r \in Peers, j \in Ids : Counting(r, j)'
    <2> SUFFICES ASSUME NEW r \in Peers, NEW j \in Ids PROVE Counting(r, j)' OBVIOUS
    <2>1. CASE r = p /\ j = i BY <2>1
    <2>2. CASE r # p \/ j # i BY <2>2, CountingKept DEF StreamBase
    <2> QED BY <2>1, <2>2
  <1>3. \A j \in Ids : Flow(p, j)'
    <2> SUFFICES ASSUME NEW j \in Ids PROVE Flow(p, j)' OBVIOUS
    <2>1. sent'[q][j] = sent[q][j] /\ tpc'[q][j] = tpc[q][j] /\ wire'[q] = wire[q]
          /\ writing'[q] = writing[q]
      BY <1>c
    <2>2. Begins(q, j) BY <2>1 DEF Begins, Streaming
    <2>3. WireKeeps(q, j) BY <1>a, <2>1, <2>2, WireSame
    <2> QED BY <1>c, <1>1, <1>2, <2>1, <2>3, FlowKeeps
  <1>4. ASSUME NEW j \in Ids, sent'[p][j] = sent[p][j], WireKeeps(p, j) PROVE Flow(q, j)'
    BY <1>c, <1>1, <1>2, <1>4, FlowKeeps
  <1>5. \A j \in Ids : Flow(q, j)'
    <2> SUFFICES ASSUME NEW j \in Ids PROVE Flow(q, j)' OBVIOUS
    <2>1. CASE j # i BY <1>4, <2>1
    <2>2. CASE j = i BY <1>c, <1>4, <2>2
    <2> QED BY <2>1, <2>2
  <1> QED BY <1>c, <1>3, <1>5 DEF StreamInv

\* Frames withdrawn from a thread are those of a task that streams no more.
LEMMA WireInterrupt ==
  ASSUME TypeOK, NEW q \in Peers, NEW j \in Ids, NEW f \in Frame, NEW vs \in SUBSET writing[q],
         sent'[q][j] = sent[q][j], ~IsDelta(f, j), ~IsEnd(f, j),
         Streaming(q, j)' =>
           Streaming(q, j) /\ \A g \in writing[q] : IsDelta(g, j) => g \in vs,
         \/ wire'[q] = wire[q] /\ writing'[q] = vs
         \/ wire'[q] = wire[q] /\ writing'[q] = vs \cup {f}
         \/ wire'[q] = Append(wire[q], f) /\ writing'[q] = vs
  PROVE  WireKeeps(q, j)
  <1> SUFFICES ASSUME NEW h \in 0 .. Chunks, NEW w \in 0 .. Chunks,
                      Carries(wire[q], writing[q], sent[q][j], Streaming(q, j), j, h, w)
               PROVE  Carries(wire'[q], writing'[q], sent'[q][j], Streaming(q, j)', j, h, w)
    BY DEF WireKeeps
  <1>1. /\ sent[q][j] \in Nat /\ w \in Nat /\ h \in Nat /\ wire[q] \in Seq(Frame)
        /\ writing[q] \in SUBSET Frame
    BY FlowTypes, CountedFact
  <1>2. PICK live \in BOOLEAN : live = Streaming(q, j)' BY DEF Streaming
  <1>3. Carries(wire[q], vs, sent[q][j], live, j, h, w)
    <2>1. CASE live BY <1>2, <2>1 DEF Carries
    <2>2. CASE ~live BY <2>2 DEF Carries
    <2> QED BY <2>1, <2>2
  <1>4. PICK s \in Seq(Frame), n \in Nat, ws \in SUBSET Frame :
          s = wire[q] /\ n = sent[q][j] /\ ws = vs
    BY <1>1
  <1>5. Carries(s, ws, n, live, j, h, w) BY <1>3, <1>4
  <1>6. /\ Carries(Append(s, f), ws, n, live, j, h, w)
        /\ Carries(s, ws \cup {f}, n, live, j, h, w)
    BY <1>1, <1>5, CarriesOther
  <1> QED BY <1>2, <1>4, <1>5, <1>6

\* Steps that send an answer, or nothing.
LEMMA TaskQuiet ==
  ASSUME StreamBase, NEW p \in Peers, NEW i \in Ids, UNCHANGED <<callVars, down, eof, sent>>,
         NEW t, tpc' = [tpc EXCEPT ![p][i] = t], t = "streaming" => tpc[p][i] = "running",
         NEW a, answers' = [answers EXCEPT ![p][i] = a],
         t \in {"none", "created", "running"} => sent[p][i] = 0,
         t \in {"running", "streaming"} => "completed" \notin a,
         NEW k \in Kinds, k \notin {"delta", "completed"},
         UNCHANGED <<wire, writing>> \/ Post(p, Msg(k, i))
  PROVE  StreamInv'
  <1>a. TypeOK BY DEF StreamBase, ReplyInv
  <1>b. /\ tpc \in [Peers -> [Ids -> {"none", "ended", "crashed"} \cup Live]]
        /\ answers \in [Peers -> [Ids -> SUBSET (ResultKinds \cup EventKinds)]]
        /\ wire \in [Peers -> Seq(Frame)] /\ writing \in [Peers -> SUBSET Frame]
    BY <1>a DEF TypeOK, TaskTypeOK, NetTypeOK
  <1>1. /\ tpc'[p][i] = t /\ answers'[p][i] = a
        /\ \A r \in Peers, j \in Ids : r # p \/ j # i =>
             tpc'[r][j] = tpc[r][j] /\ answers'[r][j] = answers[r][j]
    BY <1>b
  <1>2. \A r \in Peers : r # p => wire'[r] = wire[r] /\ writing'[r] = writing[r]
    BY <1>b DEF Post
  <1>3. \A j \in Ids : Begins(p, j)
    <2> SUFFICES ASSUME NEW j \in Ids, Streaming(p, j)'
                 PROVE  Streaming(p, j) \/ sent[p][j] = 0
      BY DEF Begins
    <2>1. CASE j = i
      <3>1. t = "streaming" BY <1>1, <2>1 DEF Streaming
      <3>2. tpc[p][i] = "running" /\ Counting(p, i) BY <3>1 DEF StreamBase, StreamInv, Flow
      <3> QED BY <2>1, <3>2 DEF Counting
    <2>2. CASE j # i BY <1>1, <2>2 DEF Streaming
    <2> QED BY <2>1, <2>2
  <1>4. \A j \in Ids : WireKeeps(p, j)
    <2> SUFFICES ASSUME NEW j \in Ids PROVE WireKeeps(p, j) OBVIOUS
    <2>1. Begins(p, j) /\ sent'[p][j] = sent[p][j] BY <1>3
    <2>2. CASE UNCHANGED <<wire, writing>> BY <1>a, <2>1, <2>2, WireSame
    <2>3. CASE Post(p, Msg(k, i))
      <3>1. PICK f \in Frame : f = Msg(k, i) /\ f.kind = k BY FrameFact DEF Msg
      <3>2. ~IsDelta(f, j) /\ ~IsEnd(f, j) BY <3>1 DEF IsDelta, IsEnd
      <3>3. Post(p, f) BY <2>3, <3>1
      <3> QED BY <1>a, <2>1, <3>2, <3>3, WirePost
    <2> QED BY <2>2, <2>3
  <1>5. Counting(p, i)' BY <1>1 DEF Counting
  <1> QED BY <1>1, <1>2, <1>4, <1>5, TaskFlow

\* "Answer" puts the task where its kind says, and notes all but "started".
LEMMA AnswerAt ==
  ASSUME TypeOK, NEW p \in Peers, NEW i \in Ids, NEW k \in Kinds, Answer(p, i, k)
  PROVE  \E t, a : /\ tpc' = [tpc EXCEPT ![p][i] = t] /\ answers' = [answers EXCEPT ![p][i] = a]
                   /\ t = IF k = "started" THEN "streaming"
                          ELSE IF k \in {"ok", "completed"} THEN "replying" ELSE "failing"
                   /\ k = "started" => a = answers[p][i]
  <1>1. answers \in [Peers -> [Ids -> SUBSET (ResultKinds \cup EventKinds)]]
    BY DEF TypeOK, TaskTypeOK
  <1>2. PICK t : t = IF k = "started" THEN "streaming"
                     ELSE IF k \in {"ok", "completed"} THEN "replying" ELSE "failing"
    OBVIOUS
  <1>3. tpc' = [tpc EXCEPT ![p][i] = t] BY <1>2 DEF Answer
  <1>4. PICK a : a = IF k = "started" THEN answers[p][i] ELSE answers[p][i] \cup {k} OBVIOUS
  <1>5. answers' = [answers EXCEPT ![p][i] = a] BY <1>1, <1>4 DEF Answer
  <1> QED BY <1>2, <1>3, <1>4, <1>5

LEMMA ErrorKindAt ==
  \A p, i : \A k \in {"error", "cancelled"} :
    ErrorKind(p, i, k) \in {"failed", k} /\ ErrorKind(p, i, k) \in Kinds
  BY DEF ErrorKind, Kinds, ResultKinds, EventKinds

LEMMA StartStream ==
  ASSUME StreamBase, NEW p \in Peers, NEW i \in Ids, Start(p, i)
  PROVE  StreamInv'
  <1>a. TypeOK BY DEF StreamBase, ReplyInv
  <1>b. answers \in [Peers -> [Ids -> SUBSET (ResultKinds \cup EventKinds)]]
    BY <1>a DEF TypeOK, TaskTypeOK
  <1>1. UNCHANGED <<callVars, down, eof, sent>> /\ tpc[p][i] = "created" BY DEF Start
  <1>2. sent[p][i] = 0 BY <1>1 DEF StreamBase, StreamInv, Flow, Counting
  <1>3. answers[p][i] = {}
    <2>1. TaskOK(p, i) BY DEF StreamBase, ReplyInv, TasksOK
    <2> QED BY <1>1, <2>1 DEF TaskOK
  <1>4. answers = [answers EXCEPT ![p][i] = {}] BY <1>b, <1>3
  <1>5. PICK c, none, e, r :
          /\ c \in Kinds /\ c = "cancel" /\ none = {} /\ e = "ended" /\ r = "running"
          /\ answers = [answers EXCEPT ![p][i] = none]
    BY <1>4 DEF Kinds
  <1>6. CASE mustCancel[p][i]
    <2>1. /\ tpc' = [tpc EXCEPT ![p][i] = e] /\ UNCHANGED <<wire, writing>>
          /\ answers' = [answers EXCEPT ![p][i] = none]
      BY <1>5, <1>6 DEF Start
    <2>2. e # "streaming" /\ e \notin {"none", "created", "running"} BY <1>5
    <2>3. c \in Kinds /\ c \notin {"delta", "completed"} BY <1>5
    <2> QED BY <1>1, <1>2, <2>1, <2>2, <2>3, TaskQuiet
  <1>7. CASE ~mustCancel[p][i] /\ token[p][i]
    <2>1. PICK k \in Kinds : k = ErrorKind(p, i, "cancelled") /\ k \in {"failed", "cancelled"}
      BY ErrorKindAt
    <2>2. Answer(p, i, k) /\ Post(p, Msg(k, i)) BY <1>7, <2>1 DEF Start
    <2>3. PICK t, a : /\ tpc' = [tpc EXCEPT ![p][i] = t]
                      /\ answers' = [answers EXCEPT ![p][i] = a] /\ t = "failing"
      BY <1>a, <2>1, <2>2, AnswerAt
    <2>4. k \notin {"delta", "completed"} BY <2>1
    <2>5. t # "streaming" /\ t \notin {"none", "created", "running"} BY <2>3
    <2> QED BY <1>1, <2>2, <2>3, <2>4, <2>5, TaskQuiet
  <1>8. CASE ~mustCancel[p][i] /\ ~token[p][i]
    <2>1. /\ tpc' = [tpc EXCEPT ![p][i] = r] /\ UNCHANGED <<wire, writing>>
          /\ answers' = [answers EXCEPT ![p][i] = none]
      BY <1>5, <1>8 DEF Start
    <2>2. r # "streaming" /\ "completed" \notin none BY <1>5
    <2>3. c \in Kinds /\ c \notin {"delta", "completed"} BY <1>5
    <2> QED BY <1>1, <1>2, <2>1, <2>2, <2>3, TaskQuiet
  <1> QED BY <1>6, <1>7, <1>8

LEMMA ReturnStream ==
  ASSUME StreamBase, NEW p \in Peers, NEW i \in Ids, HandlerReturns(p, i)
  PROVE  StreamInv'
  <1>a. TypeOK BY DEF StreamBase, ReplyInv
  <1>1. UNCHANGED <<callVars, down, eof, sent>> /\ tpc[p][i] = "running" BY DEF HandlerReturns
  <1>2. sent[p][i] = 0 /\ "completed" \notin answers[p][i]
    BY <1>1 DEF StreamBase, StreamInv, Flow, Counting
  <1>3. PICK k \in Kinds : /\ k \in {"failed", "error", "started", "ok"}
                           /\ Answer(p, i, k) /\ Post(p, Msg(k, i))
    BY ErrorKindAt DEF HandlerReturns, Kinds, ResultKinds, EventKinds
  <1>4. PICK t, a : /\ tpc' = [tpc EXCEPT ![p][i] = t]
                    /\ answers' = [answers EXCEPT ![p][i] = a]
                    /\ t \in {"streaming", "replying", "failing"}
                    /\ t = "streaming" => a = answers[p][i]
    <2>1. PICK t, a :
            /\ tpc' = [tpc EXCEPT ![p][i] = t] /\ answers' = [answers EXCEPT ![p][i] = a]
            /\ t = IF k = "started" THEN "streaming"
                   ELSE IF k \in {"ok", "completed"} THEN "replying" ELSE "failing"
            /\ k = "started" => a = answers[p][i]
      BY <1>a, <1>3, AnswerAt
    <2>2. t \in {"streaming", "replying", "failing"} /\ (t = "streaming" => a = answers[p][i])
      BY <2>1
    <2> QED BY <2>1, <2>2
  <1> QED BY <1>1, <1>2, <1>3, <1>4, TaskQuiet

LEMMA RestStream ==
  ASSUME StreamBase, NEW p \in Peers, NEW i \in Ids,
         TaskDone(p, i) \/ TaskSendRaises(p, i) \/ Suppress(p, i)
  PROVE  StreamInv'
  <1>a. TypeOK BY DEF StreamBase, ReplyInv
  <1>b. /\ answers \in [Peers -> [Ids -> SUBSET (ResultKinds \cup EventKinds)]]
        /\ tpc \in [Peers -> [Ids -> {"none", "ended", "crashed"} \cup Live]]
    BY <1>a DEF TypeOK, TaskTypeOK
  <1>1. UNCHANGED <<callVars, down, eof, sent, answers, wire, writing>>
    BY DEF TaskDone, TaskSendRaises, Suppress, netVars
  <1>2. "cancel" \in Kinds BY DEF Kinds
  <1>3. CASE Suppress(p, i)
    <2>1. UNCHANGED <<got, queue, reply, streams, cpc, tpc>> BY <1>1, <1>3 DEF Suppress, callVars
    <2>2. \A r \in Peers, j \in Ids : WireKeeps(Other(r), j) BY <1>a, <1>1, <2>1, WireAll, PeersFact
    <2> QED BY <1>1, <2>1, <2>2, QuietStream
  <1>4. CASE TaskDone(p, i) \/ TaskSendRaises(p, i)
    <2>1. PICK t : /\ tpc' = [tpc EXCEPT ![p][i] = t] /\ t \in {"ended", "crashed", "failing"}
      <3>1. CASE TaskDone(p, i)
        <4>1. PICK t : t = "ended" OBVIOUS
        <4> QED BY <3>1, <4>1 DEF TaskDone
      <3>2. CASE TaskSendRaises(p, i)
        <4>1. PICK t : t = IF tpc[p][i] = "failing" THEN "crashed" ELSE "failing" OBVIOUS
        <4>2. tpc' = [tpc EXCEPT ![p][i] = t] BY <1>b, <3>2, <4>1 DEF TaskSendRaises
        <4> QED BY <4>1, <4>2
      <3> QED BY <1>4, <3>1, <3>2
    <2>2. PICK a : a = answers[p][i] OBVIOUS
    <2>3. answers' = [answers EXCEPT ![p][i] = a] BY <1>b, <1>1, <2>2
    <2> QED BY <1>1, <1>2, <2>1, <2>3, TaskQuiet
  <1> QED BY <1>3, <1>4

LEMMA InterruptStream ==
  ASSUME StreamBase, NEW p \in Peers, NEW i \in Ids, Interrupt(p, i)
  PROVE  StreamInv'
  <1>a. TypeOK BY DEF StreamBase, ReplyInv
  <1>b. /\ answers \in [Peers -> [Ids -> SUBSET (ResultKinds \cup EventKinds)]]
        /\ tpc \in [Peers -> [Ids -> {"none", "ended", "crashed"} \cup Live]]
        /\ wire \in [Peers -> Seq(Frame)] /\ writing \in [Peers -> SUBSET Frame]
    BY <1>a DEF TypeOK, TaskTypeOK, NetTypeOK
  <1>1. UNCHANGED <<callVars, down, eof, sent>> BY DEF Interrupt
  <1>2. PICK k \in Kinds : k = ErrorKind(p, i, "cancelled") /\ k \in {"failed", "cancelled"}
    BY ErrorKindAt
  <1>3. PICK f \in Frame : f = Msg(k, i) /\ f.kind = k BY FrameFact DEF Msg
  <1>4. PICK w \in SUBSET {g \in writing[p] : g.id = i /\ g.kind \in Awaited(p, i)} :
          IF tpc[p][i] = "failing"
          THEN /\ tpc' = [tpc EXCEPT ![p][i] = "ended"]
               /\ writing' = [writing EXCEPT ![p] = writing[p] \ w]
               /\ UNCHANGED <<answers, wire>>
          ELSE /\ Answer(p, i, k)
               /\ writing' = [writing EXCEPT ![p] =
                    IF down \/ p \notin ThreadWriters
                    THEN writing[p] \ w ELSE (writing[p] \ w) \cup {f}]
               /\ wire' = IF down \/ p \in ThreadWriters THEN wire
                          ELSE [wire EXCEPT ![p] = Append(@, f)]
    BY <1>2, <1>3 DEF Interrupt
  <1>5. PICK vs \in SUBSET writing[p] :
          vs = writing[p] \ w /\ \A g \in writing[p] : g.id # i => g \in vs
    <2>1. writing[p] \ w \in SUBSET writing[p] OBVIOUS
    <2>2. \A g \in writing[p] : g.id # i => g \in writing[p] \ w OBVIOUS
    <2> QED BY <2>1, <2>2
  <1>6. /\ \/ wire'[p] = wire[p] /\ writing'[p] = vs
           \/ wire'[p] = wire[p] /\ writing'[p] = vs \cup {f}
           \/ wire'[p] = Append(wire[p], f) /\ writing'[p] = vs
        /\ \A r \in Peers : r # p => wire'[r] = wire[r] /\ writing'[r] = writing[r]
    <2>1. CASE tpc[p][i] = "failing" BY <1>b, <1>4, <1>5, <2>1
    <2>2. CASE tpc[p][i] # "failing" BY <1>b, <1>4, <1>5, <2>2
    <2> QED BY <2>1, <2>2
  <1>7. /\ tpc'[p][i] \in {"ended", "failing"}
        /\ \A r \in Peers, j \in Ids : r # p \/ j # i =>
             tpc'[r][j] = tpc[r][j] /\ answers'[r][j] = answers[r][j]
    <2>1. CASE tpc[p][i] = "failing" BY <1>b, <1>4, <2>1
    <2>2. CASE tpc[p][i] # "failing"
      <3>1. PICK t, a : /\ tpc' = [tpc EXCEPT ![p][i] = t]
                        /\ answers' = [answers EXCEPT ![p][i] = a] /\ t = "failing"
        BY <1>a, <1>2, <1>4, <2>2, AnswerAt
      <3> QED BY <1>b, <3>1
    <2> QED BY <2>1, <2>2
  <1>8. \A j \in Ids : WireKeeps(p, j)
    <2> SUFFICES ASSUME NEW j \in Ids PROVE WireKeeps(p, j) OBVIOUS
    <2>1. ~IsDelta(f, j) /\ ~IsEnd(f, j) BY <1>2, <1>3 DEF IsDelta, IsEnd
    <2>2. ASSUME Streaming(p, j)'
          PROVE  Streaming(p, j) /\ \A g \in writing[p] : IsDelta(g, j) => g \in vs
      <3>1. j # i BY <1>7, <2>2 DEF Streaming
      <3>2. Streaming(p, j) BY <1>1, <1>7, <2>2, <3>1 DEF Streaming
      <3> QED BY <1>5, <3>1, <3>2 DEF IsDelta
    <2>3. sent'[p][j] = sent[p][j] BY <1>1
    <2> QED BY <1>a, <1>6, <2>1, <2>2, <2>3, WireInterrupt
  <1>9. Counting(p, i)' BY <1>7 DEF Counting
  <1> QED BY <1>1, <1>6, <1>7, <1>8, <1>9, TaskFlow

\* A stream that ends: its last event is sent when all deltas are on the wire.
LEMMA EndStream ==
  ASSUME StreamBase, NEW p \in Peers, NEW i \in Ids, StreamEnds(p, i)
  PROVE  StreamInv'
  <1>a. TypeOK BY DEF StreamBase, ReplyInv
  <1>b. /\ tpc \in [Peers -> [Ids -> {"none", "ended", "crashed"} \cup Live]]
        /\ answers \in [Peers -> [Ids -> SUBSET (ResultKinds \cup EventKinds)]]
        /\ wire \in [Peers -> Seq(Frame)] /\ writing \in [Peers -> SUBSET Frame]
    BY <1>a DEF TypeOK, TaskTypeOK, NetTypeOK
  <1>1. UNCHANGED <<callVars, down, eof, sent>> /\ tpc[p][i] = "streaming" BY DEF StreamEnds
  <1>2. \A g \in writing[p] : ~IsDelta(g, i)
    BY <1>1 DEF StreamEnds, Written, Awaited, IsDelta
  <1>3. PICK k \in Kinds : k \in {"completed", "failed"} /\ Answer(p, i, k) /\ Post(p, Msg(k, i))
    BY DEF StreamEnds, Kinds, EventKinds
  <1>4. PICK t, a : /\ tpc' = [tpc EXCEPT ![p][i] = t]
                    /\ answers' = [answers EXCEPT ![p][i] = a] /\ t \in {"replying", "failing"}
    <2>1. PICK t, a :
            /\ tpc' = [tpc EXCEPT ![p][i] = t] /\ answers' = [answers EXCEPT ![p][i] = a]
            /\ t = IF k = "started" THEN "streaming"
                   ELSE IF k \in {"ok", "completed"} THEN "replying" ELSE "failing"
      BY <1>a, <1>3, AnswerAt
    <2>2. t \in {"replying", "failing"} BY <1>3, <2>1
    <2> QED BY <2>1, <2>2
  <1>5. CASE k = "failed" BY <1>1, <1>3, <1>4, <1>5, TaskQuiet
  <1>6. CASE k = "completed"
    <2>1. PICK f \in Frame : f = Msg(k, i) /\ f.kind = k /\ f.id = i BY FrameFact DEF Msg
    <2>2. Post(p, f) BY <1>3, <2>1
    <2>3. /\ tpc'[p][i] = t
          /\ \A r \in Peers, j \in Ids : r # p \/ j # i =>
               tpc'[r][j] = tpc[r][j] /\ answers'[r][j] = answers[r][j]
      BY <1>b, <1>4
    <2>4. \A r \in Peers : r # p => wire'[r] = wire[r] /\ writing'[r] = writing[r]
      BY <1>b, <2>2 DEF Post
    <2>5. ASSUME NEW j \in Ids, j # i PROVE WireKeeps(p, j)
      <3>1. ~IsDelta(f, j) /\ ~IsEnd(f, j) BY <2>1, <2>5 DEF IsDelta, IsEnd
      <3>2. Begins(p, j) /\ sent'[p][j] = sent[p][j]
        BY <1>1, <2>3, <2>5 DEF Begins, Streaming
      <3> QED BY <1>1, <1>a, <2>2, <3>1, <3>2, WirePost
    <2>6. ~(Streaming(p, i)') BY <1>4, <2>3 DEF Streaming
    <2>7. WireKeeps(p, i)
      <3>1. CASE down
        <4>1. UNCHANGED <<wire, writing>> BY <2>2, <3>1 DEF Post
        <4>2. Begins(p, i) BY <2>6 DEF Begins
        <4> QED BY <1>1, <1>a, <2>6, <4>1, <4>2, WireSame
      <3>2. CASE ~down
        <4> SUFFICES ASSUME NEW h \in 0 .. Chunks, NEW w \in 0 .. Chunks,
                            Carries(wire[p], writing[p], sent[p][i], Streaming(p, i), i, h, w)
                     PROVE  Carries(wire'[p], writing'[p], sent'[p][i], Streaming(p, i)', i, h, w)
          BY DEF WireKeeps
        <4>1. PICK s \in Seq(Frame), ws \in SUBSET Frame, n \in Nat :
                s = wire[p] /\ ws = writing[p] /\ n = sent[p][i]
          BY <1>a, FlowTypes
        <4>2. Streaming(p, i) = TRUE BY <1>1, <3>2 DEF Streaming
        <4>3. Carries(s, ws, n, TRUE, i, h, w) BY <4>1, <4>2
        <4>4. /\ Carries(Append(s, f), ws, n, FALSE, i, h, w)
              /\ Carries(s, ws \cup {f}, n, FALSE, i, h, w)
          <5>1. IsEnd(f, i) /\ \A g \in ws : ~IsDelta(g, i) BY <1>2, <1>6, <2>1, <4>1 DEF IsEnd
          <5>2. h \in Nat /\ w \in Nat BY CountedFact
          <5> QED BY <4>3, <5>1, <5>2, CarriesEnd
        <4>5. \/ wire'[p] = Append(s, f) /\ writing'[p] = ws
              \/ wire'[p] = s /\ writing'[p] = ws \cup {f}
          BY <1>b, <2>2, <3>2, <4>1 DEF Post
        <4>6. sent'[p][i] = n /\ Streaming(p, i)' = FALSE BY <1>1, <2>6, <4>1 DEF Streaming
        <4> QED BY <4>4, <4>5, <4>6
      <3> QED BY <3>1, <3>2
    <2>8. Counting(p, i)' BY <1>4, <2>3 DEF Counting
    <2> QED BY <1>1, <2>3, <2>4, <2>5, <2>7, <2>8, TaskFlow
  <1> QED BY <1>3, <1>5, <1>6

\* A stream that has not completed has sent no completing event yet.
LEMMA NotEnded ==
  ASSUME ReplyInv, NEW p \in Peers, NEW i \in Ids, "completed" \notin answers[p][i]
  PROVE  /\ ~Ends(wire[p], i) /\ \A g \in writing[p] : ~IsEnd(g, i)
         /\ ~Ends(queue[Other(p)][i], i) /\ reply[Other(p)][i] # "completed"
  <1>1. PICK q \in Peers : q = Other(p) /\ Other(q) = p BY DEF Peers, Other
  <1>2. "completed" \in FinalKinds BY DEF FinalKinds
  <1>3. \A g \in InFlight(p) : ~IsEnd(g, i)
    <2>1. \A g \in InFlight(p) : FrameOK(p, g) BY DEF ReplyInv, FramesOK
    <2> QED BY <1>2, <2>1 DEF FrameOK, IsEnd
  <1>4. CallOK(q, i) BY DEF ReplyInv, CallsOK
  <1>5. ~Ends(queue[q][i], i) /\ reply[q][i] # "completed"
    BY <1>1, <1>2, <1>4 DEF CallOK, Ends, IsEnd
  <1> QED BY <1>1, <1>3, <1>5 DEF InFlight, Ends

LEMMA ChunkStream ==
  ASSUME StreamBase, NEW p \in Peers, NEW i \in Ids, NextChunk(p, i)
  PROVE  StreamInv'
  <1>a. TypeOK /\ ReplyInv BY DEF StreamBase, ReplyInv
  <1>b. /\ sent \in [Peers -> [Ids -> 0 .. Chunks]]
        /\ wire \in [Peers -> Seq(Frame)] /\ writing \in [Peers -> SUBSET Frame]
    BY <1>a DEF TypeOK, TaskTypeOK, NetTypeOK
  <1>c. PICK q \in Peers : q = Other(p) /\ Other(q) = p /\ q # p BY DEF Peers, Other
  <1>1. /\ UNCHANGED <<callVars, down, eof, tpc, answers>> /\ tpc[p][i] = "streaming"
        /\ UNCHANGED <<got, queue, reply, streams, cpc>>
    BY DEF NextChunk, callVars
  <1>2. \A g \in writing[p] : ~IsDelta(g, i)
    BY <1>1 DEF NextChunk, Written, Awaited, IsDelta
  <1>3. PICK n \in Nat : n = sent[p][i] BY <1>a, FlowTypes
  <1>4. n + 1 \in 0 .. Chunks BY <1>b, <1>3, PeerAssumption DEF NextChunk, PeerAssumption
  <1>5. PICK m \in 0 .. Chunks : m = n + 1 BY <1>4
  <1>6. sent' = [sent EXCEPT ![p][i] = m] BY <1>b, <1>3, <1>5 DEF NextChunk
  <1>7. PICK f \in Frame : /\ f = [kind |-> "delta", id |-> i, n |-> m]
                           /\ f.kind = "delta" /\ f.id = i /\ f.n = n + 1
    <2>1. [kind |-> "delta", id |-> i, n |-> m] \in Frame BY DEF Frame, Kinds, EventKinds
    <2> QED BY <1>5, <2>1
  <1>8. Post(p, f) BY <1>3, <1>5, <1>7 DEF NextChunk
  <1>9. /\ sent'[p][i] = m
        /\ \A r \in Peers, j \in Ids : r # p \/ j # i => sent'[r][j] = sent[r][j]
    BY <1>b, <1>6
  <1>10. \A r \in Peers : r # p => wire'[r] = wire[r] /\ writing'[r] = writing[r]
    BY <1>b, <1>8 DEF Post
  <1>11. ASSUME NEW j \in Ids, j # i PROVE WireKeeps(p, j)
    <2>1. ~IsDelta(f, j) /\ ~IsEnd(f, j) BY <1>7, <1>11 DEF IsDelta, IsEnd
    <2>2. Begins(p, j) BY <1>1 DEF Begins, Streaming
    <2>3. sent'[p][j] = sent[p][j] /\ down' = down BY <1>1, <1>9, <1>11
    <2> QED BY <1>8, <1>a, <2>1, <2>2, <2>3, WirePost
  <1>12. Counting(p, i) /\ "completed" \notin answers[p][i]
    BY <1>1 DEF StreamBase, StreamInv, Flow, Counting
  <1>13. Counting(p, i)' BY <1>1, <1>12 DEF Counting
  <1>14. /\ ~Ends(wire[p], i) /\ \A g \in writing[p] : ~IsEnd(g, i)
         /\ ~Ends(queue[q][i], i) /\ reply[q][i] # "completed"
    BY <1>12, <1>a, <1>c, NotEnded
  <1>15. PICK h, w \in 0 .. Chunks : StreamOK(q, i, h, w)
    BY DEF StreamBase, StreamInv, Flow
  <1>16. Holds(queue[q][i], got[q][i], n + 1, reply[q][i], i, h)
    <2>1. Holds(queue[q][i], got[q][i], n, reply[q][i], i, h)
      BY <1>3, <1>15, <1>c DEF StreamOK
    <2> QED BY <1>14, <2>1, HoldsGrow
  <1>17. PICK y \in 0 .. Chunks : i \in streams[q] /\ ~eof[q] =>
           Carries(wire'[p], writing'[p], m, Streaming(p, i)', i, h, y)
    <2>1. SUFFICES ASSUME i \in streams[q], ~eof[q]
                   PROVE  \E y \in 0 .. Chunks :
                            Carries(wire'[p], writing'[p], m, Streaming(p, i)', i, h, y)
      BY <1>15
    <2>2. PICK s \in Seq(Frame), ws \in SUBSET Frame, live \in BOOLEAN :
            s = wire[p] /\ ws = writing[p] /\ live = Streaming(p, i)
      BY <1>a, FlowTypes
    <2>3. Carries(s, ws, n, live, i, h, w) BY <1>3, <1>15, <1>c, <2>1, <2>2 DEF StreamOK
    <2>4. h \in Nat /\ w \in Nat BY CountedFact
    <2>5. IsDelta(f, i) /\ f.n = m /\ m = n + 1 /\ m \in Nat BY <1>5, <1>7 DEF IsDelta
    <2>6. live = Streaming(p, i)' BY <1>1, <2>2 DEF Streaming
    <2>7. CASE ~live
      <3>1. down BY <1>1, <2>2, <2>7 DEF Streaming
      <3>2. wire'[p] = s /\ writing'[p] = ws BY <1>8, <2>2, <3>1 DEF Post
      <3>3. ~Ends(s, i) /\ \A g \in ws : ~IsDelta(g, i) /\ ~IsEnd(g, i) BY <1>2, <1>14, <2>2
      <3>4. Carries(s, ws, m, FALSE, i, h, w) BY <2>3, <2>4, <2>5, <3>3, CarriesLost
      <3>5. Streaming(p, i)' = FALSE BY <2>6, <2>7
      <3> QED BY <3>2, <3>4, <3>5
    <2>8. CASE live
      <3>1. ~down BY <2>2, <2>8 DEF Streaming
      <3>2. \/ wire'[p] = Append(s, f) /\ writing'[p] = ws
            \/ wire'[p] = s /\ writing'[p] = ws \cup {f}
        BY <1>b, <1>8, <2>2, <3>1 DEF Post
      <3>3. ~Ends(s, i) /\ \A g \in ws : ~IsDelta(g, i) /\ ~IsEnd(g, i) BY <1>2, <1>14, <2>2
      <3>4. Carries(s, ws, n, TRUE, i, h, w) BY <2>3, <2>8
      <3>5. /\ Carries(Append(s, f), ws, m, TRUE, i, h, m)
            /\ Carries(s, ws \cup {f}, m, TRUE, i, h, w)
        BY <2>4, <2>5, <3>3, <3>4, CarriesDelta
      <3>6. Streaming(p, i)' = TRUE BY <2>6, <2>8
      <3> QED BY <3>2, <3>5, <3>6
    <2> QED BY <2>7, <2>8
  <1>18. StreamOK(q, i, h, y)' BY <1>1, <1>5, <1>9, <1>16, <1>17, <1>c DEF StreamOK
  <1>19. Counting(q, i)'
    <2>1. tpc'[q][i] = tpc[q][i] /\ sent'[q][i] = sent[q][i] /\ answers'[q][i] = answers[q][i]
      BY <1>1, <1>9, <1>c
    <2> QED BY <2>1, CountingKept DEF StreamBase
  <1>20. cpc'[q][i] = "idle" => got'[q][i] = <<>> BY <1>1 DEF StreamBase, StreamInv, Flow
  <1>21. Flow(q, i)' BY <1>18, <1>19, <1>20 DEF Flow
  <1>22. /\ \A r \in Peers, j \in Ids : r # p \/ j # i =>
              /\ tpc'[r][j] = tpc[r][j] /\ sent'[r][j] = sent[r][j]
              /\ answers'[r][j] = answers[r][j]
         /\ UNCHANGED <<callVars, down, eof>>
    BY <1>1, <1>9
  <1> QED BY <1>10, <1>11, <1>13, <1>21, <1>22, <1>c, TaskFlow

-----------------------------------------------------------------------------
(* The deltas arrive in order. *)

LEMMA StreamInit == Init => StreamInv
  <1> SUFFICES ASSUME Init, NEW p \in Peers, NEW i \in Ids PROVE Flow(p, i) BY DEF StreamInv
  <1>1. PICK q \in Peers : q = Other(p) BY PeersFact
  <1>2. /\ queue[p][i] = <<>> /\ got[p][i] = <<>> /\ reply[p][i] = "none" /\ streams[p] = {}
        /\ sent[p][i] = 0 /\ sent[q][i] = 0 /\ tpc[p][i] = "none"
    BY DEF Init, Per, All
  <1>3. 0 \in 0 .. Chunks BY PeerAssumption DEF PeerAssumption
  <1>4. Holds(<<>>, <<>>, 0, "none", i, 0)
    <2>1. PICK s, g : s = <<>> /\ g = <<>> /\ DOMAIN s = {} /\ Len(g) = 0 OBVIOUS
    <2>2. Run(s, i, 0, 0) BY <2>1, RunNone
    <2> QED BY <2>1, <2>2 DEF Holds, Ends
  <1>5. StreamOK(p, i, 0, 0) BY <1>1, <1>2, <1>4 DEF StreamOK
  <1>6. Counting(p, i) BY <1>2 DEF Counting
  <1> QED BY <1>2, <1>3, <1>5, <1>6 DEF Flow

LEMMA StreamNext == StreamBase /\ [Next]_vars => StreamInv'
  <1> SUFFICES ASSUME StreamBase, [Next]_vars PROVE StreamInv' OBVIOUS
  <1>1. CASE UNCHANGED vars
    <2>1. TypeOK BY DEF StreamBase, ReplyInv
    <2>2. UNCHANGED <<got, queue, reply, streams, cpc, tpc, sent, answers, down, eof, wire, writing>>
      BY <1>1 DEF vars, callVars, taskVars, netVars
    <2>3. \A r \in Peers, j \in Ids : WireKeeps(Other(r), j) BY <2>1, <2>2, WireAll, PeersFact
    <2> QED BY <2>2, <2>3, QuietStream
  <1>2. CASE LoseLink
    <2>1. PICK p \in Peers : TRUE BY DEF Peers
    <2> QED BY <1>2, <2>1, ConnectionStream
  <1>3. ASSUME NEW p \in Peers,
               \/ \E m \in {"unary", "stream"} : Invoke(p, m)
               \/ PeerStep(p) \/ Stop(p) \/ Refuse(p)
        PROVE  StreamInv'
    <2>1. CASE \E m \in {"unary", "stream"} : Invoke(p, m) BY <2>1, InvokeStream
    <2>2. CASE Receive(p) BY <2>2, ReceiveStream
    <2>3. CASE \/ Fail(p) \/ Stop(p) \/ Refuse(p) \/ StopDone(p) \/ Eof(p)
               \/ WriteFrame(p) \/ CancelTask(p)
      BY <2>3, ConnectionStream
    <2> QED BY <1>3, <2>1, <2>2, <2>3 DEF PeerStep
  <1>4. ASSUME NEW p \in Peers, NEW i \in Ids,
               \/ CallerStep(p, i) \/ WorkStep(p, i) \/ TaskStep(p, i)
               \/ NextChunk(p, i) \/ Suppress(p, i)
               \/ Abandon(p, i) \/ CloseEarly(p, i) \/ Cancel(p, i)
        PROVE  StreamInv'
    <2>1. CASE CallerStep(p, i) \/ Abandon(p, i) \/ CloseEarly(p, i) \/ Cancel(p, i)
      BY <2>1, CallerStream, NextItemStream DEF CallerStep
    <2>2. CASE Start(p, i) \/ Interrupt(p, i) BY <2>2, StartStream, InterruptStream
    <2>3. CASE TaskDone(p, i) \/ TaskSendRaises(p, i) \/ Suppress(p, i) BY <2>3, RestStream
    <2>4. CASE WorkStep(p, i) \/ NextChunk(p, i)
      BY <2>4, ReturnStream, EndStream, ChunkStream DEF WorkStep
    <2> QED BY <1>4, <2>1, <2>2, <2>3, <2>4 DEF TaskStep
  <1> QED BY <1>1, <1>2, <1>3, <1>4 DEF Next

LEMMA StreamCorrect == Spec => []StreamBase
  <1>1. Init => StreamBase BY InitType, FailureInit, ReplyInit, StreamInit DEF StreamBase, CallerInv
  <1>2. StreamBase /\ [Next]_vars => StreamBase'
    BY ReplyNext, CallerInvNext, StreamNext DEF StreamBase
  <1> QED BY <1>1, <1>2, PTL DEF Spec

(* The deltas a consumer sees are those the producer sent, in order and     *)
(* without a gap, and a completed stream has delivered all of them, for     *)
(* every number of streams and deltas, with or without writer threads, and  *)
(* whatever is cancelled, closed early, lost or stopped meanwhile.          *)
THEOREM DeltasInOrder == Spec => []StreamInOrder
  <1>1. ASSUME StreamBase PROVE StreamInOrder
    <2> SUFFICES ASSUME NEW p \in Peers, NEW i \in Ids
                 PROVE  /\ \A k \in 1 .. Len(got[p][i]) : got[p][i][k] = k
                        /\ reply[p][i] = "completed" => Len(got[p][i]) = sent[Other(p)][i]
      BY DEF StreamInOrder
    <2>1. PICK h, w \in 0 .. Chunks : StreamOK(p, i, h, w)
      BY <1>1 DEF StreamBase, StreamInv, Flow
    <2> QED BY <2>1 DEF StreamOK, Holds
  <1> QED BY <1>1, StreamCorrect, PTL
=============================================================================
