--------------------------- MODULE PeerReplyProofs ---------------------------
(***************************************************************************)
(* What a caller may rely on, for every number of calls in flight: each    *)
(* answer is one its own inbound task gave, a handler is entered at most   *)
(* once, and two peers implement RpcContract.                              *)
(***************************************************************************)
EXTENDS PeerProofs, PeerContract

IsInvoke(f) == f.kind \in {"invoke", "invoke_stream"}
FinalKinds  == ResultKinds \cup {"completed", "failed"}

\* The frames an end has sent and the other has not read.
InFlight(p) == writing[p] \cup {wire[p][k] : k \in DOMAIN wire[p]}

(* A frame agrees with the call it belongs to: a request with a call that   *)
(* was made and whose task does not exist yet, an answer with the mode of   *)
(* the call and with a task that has begun and has given it.                *)
FrameOK(p, f) ==
    /\ f.kind = "invoke" => mode[p][f.id] = "unary"
    /\ f.kind = "invoke_stream" => mode[p][f.id] = "stream"
    /\ IsInvoke(f) => f.n = 0 /\ cpc[p][f.id] # "idle" /\ tpc[Other(p)][f.id] = "none"
    /\ f.kind \in ResultKinds => mode[Other(p)][f.id] = "unary"
    /\ f.kind \in EventKinds => mode[Other(p)][f.id] = "stream"
    /\ f.kind \in ResultKinds \cup EventKinds => tpc[p][f.id] \notin {"none", "created"}
    /\ f.kind \in FinalKinds => f.kind \in answers[p][f.id]

FramesOK == \A p \in Peers : \A f \in InFlight(p) : FrameOK(p, f)

\* The request of a call is in flight at most once.
InvokeOnce == \A p \in Peers :
    /\ \A j, k \in DOMAIN wire[p] :
          IsInvoke(wire[p][j]) /\ IsInvoke(wire[p][k]) /\ wire[p][j].id = wire[p][k].id => j = k
    /\ \A f \in writing[p], k \in DOMAIN wire[p] :
          IsInvoke(f) /\ IsInvoke(wire[p][k]) => f.id # wire[p][k].id

\* An inbound task serves a call that was made, and enters its handler once.
TaskOK(p, i) ==
    /\ tpc[p][i] # "none" => cpc[Other(p)][i] # "idle"
    /\ ran[p][i] \in {0, 1}
    /\ tpc[p][i] \in {"none", "created"} => ran[p][i] = 0 /\ answers[p][i] = {}
    /\ tpc[p][i] \in {"running", "streaming", "replying"} => ran[p][i] = 1
    /\ tpc[p][i] = "streaming" => mode[Other(p)][i] = "stream"
    /\ "ok" \in answers[p][i] \/ "completed" \in answers[p][i] => ran[p][i] = 1

TasksOK == \A p \in Peers, i \in Ids : TaskOK(p, i)

(* A call is in the table of its mode only, holds answers its own task      *)
(* gave, and its stream keeps the entry it has until its iterator ends.     *)
CallOK(p, i) ==
    /\ cpc[p][i] = "idle" <=> counter[p] < i
    /\ cpc[p][i] = "idle" => reply[p][i] = "none" /\ queue[p][i] = <<>>
    /\ cpc[p][i] = "waiting" => mode[p][i] = "unary"
    /\ cpc[p][i] \in {"open", "iterating"} => mode[p][i] = "stream"
    /\ cpc[p][i] = "done" => reply[p][i] # "pending"
    /\ i \in pending[p] => mode[p][i] = "unary" /\ cpc[p][i] # "idle"
    /\ i \in streams[p] => mode[p][i] = "stream" /\ cpc[p][i] # "idle"
    /\ mode[p][i] = "stream" /\ cpc[p][i] \notin {"idle", "done"} => reply[p][i] = "pending"
    /\ reply[p][i] # "protocol"
    /\ reply[p][i] \in FinalKinds => reply[p][i] \in answers[Other(p)][i]
    /\ \A k \in DOMAIN queue[p][i] :
          /\ queue[p][i][k].kind # "protocol"
          /\ queue[p][i][k].kind \in FinalKinds
               => queue[p][i][k].kind \in answers[Other(p)][i]

CallsOK == \A p \in Peers, i \in Ids : CallOK(p, i)

\* A consumer that has gone: its entry and the cancel it owes.
Reclaimed(p, i) == cpc[p][i] = "done" /\ mode[p][i] = "stream" =>
    /\ i \in streams[p] => reply[p][i] = "dropped"
    /\ reply[p][i] \in {"closed", "lost", "protocol"} => asked[p][i] > 0

ReplyInv == /\ TypeOK /\ FramesOK /\ InvokeOnce /\ TasksOK /\ CallsOK
            /\ \A p \in Peers, i \in Ids : Reclaimed(p, i)

-----------------------------------------------------------------------------
(* Frames in flight. *)

LEMMA KindsFact ==
  /\ ResultKinds \cap EventKinds = {} /\ FinalKinds \subseteq ResultKinds \cup EventKinds
  /\ \A f : IsInvoke(f) => f.kind \notin ResultKinds \cup EventKinds /\ f.kind \notin FinalKinds
  /\ "cancel" \notin ResultKinds \cup EventKinds \cup {"invoke", "invoke_stream"}
  BY DEF ResultKinds, EventKinds, FinalKinds, IsInvoke

LEMMA FlightType ==
  ASSUME TypeOK, NEW p \in Peers
  PROVE  InFlight(p) \subseteq Frame
  <1>1. wire[p] \in Seq(Frame) /\ writing[p] \subseteq Frame BY DEF TypeOK, NetTypeOK
  <1>2. \A k \in DOMAIN wire[p] : wire[p][k] \in Frame BY <1>1
  <1> QED BY <1>1, <1>2 DEF InFlight

LEMMA AppendFlight ==
  ASSUME NEW s \in Seq(Frame), NEW f \in Frame
  PROVE  /\ DOMAIN Append(s, f) = DOMAIN s \cup {Len(s) + 1}
         /\ \A k \in DOMAIN s : Append(s, f)[k] = s[k] /\ k # Len(s) + 1
         /\ Append(s, f)[Len(s) + 1] = f
  OBVIOUS

\* A send adds its frame to those in flight, unless the transport is dead.
LEMMA PostFlight ==
  ASSUME TypeOK, NEW p \in Peers, NEW f \in Frame, Post(p, f)
  PROVE  /\ InFlight(p)' = IF down THEN InFlight(p) ELSE InFlight(p) \cup {f}
         /\ \A q \in Peers : q # p => InFlight(q)' = InFlight(q)
  <1>0. wire \in [Peers -> Seq(Frame)] /\ writing \in [Peers -> SUBSET Frame]
    BY DEF TypeOK, NetTypeOK
  <1>1. CASE down BY <1>1 DEF Post, InFlight
  <1>2. CASE ~down /\ p \in ThreadWriters
    <2>1. writing' = [writing EXCEPT ![p] = writing[p] \cup {f}] /\ wire' = wire
      BY <1>2 DEF Post
    <2>2. writing'[p] = writing[p] \cup {f} /\ \A q \in Peers : q # p => writing'[q] = writing[q]
      BY <1>0, <2>1
    <2> QED BY <1>2, <2>1, <2>2 DEF InFlight
  <1>3. CASE ~down /\ p \notin ThreadWriters
    <2>1. wire' = [wire EXCEPT ![p] = Append(wire[p], f)] /\ writing' = writing
      BY <1>3 DEF Post
    <2>2. wire'[p] = Append(wire[p], f) /\ \A q \in Peers : q # p => wire'[q] = wire[q]
      BY <1>0, <2>1
    <2>3. {Append(wire[p], f)[k] : k \in DOMAIN Append(wire[p], f)}
            = {wire[p][k] : k \in DOMAIN wire[p]} \cup {f}
      BY <1>0, AppendFlight
    <2> QED BY <1>3, <2>1, <2>2, <2>3 DEF InFlight
  <1> QED BY <1>1, <1>2, <1>3

LEMMA PostOnce ==
  ASSUME TypeOK, InvokeOnce, NEW p \in Peers, NEW f \in Frame, Post(p, f),
         IsInvoke(f) => \A g \in InFlight(p) : IsInvoke(g) => g.id # f.id
  PROVE  InvokeOnce'
  <1>0. wire \in [Peers -> Seq(Frame)] /\ writing \in [Peers -> SUBSET Frame]
    BY DEF TypeOK, NetTypeOK
  <1>1. CASE down BY <1>1 DEF Post, InvokeOnce
  <1>2. CASE ~down /\ p \in ThreadWriters
    <2>1. writing' = [writing EXCEPT ![p] = writing[p] \cup {f}] /\ wire' = wire
      BY <1>2 DEF Post
    <2>2. writing'[p] = writing[p] \cup {f} /\ \A q \in Peers : q # p => writing'[q] = writing[q]
      BY <1>0, <2>1
    <2>3. \A k \in DOMAIN wire[p] : wire[p][k] \in InFlight(p) BY DEF InFlight
    <2> QED BY <2>1, <2>2, <2>3 DEF InvokeOnce
  <1>3. CASE ~down /\ p \notin ThreadWriters
    <2>1. wire' = [wire EXCEPT ![p] = Append(wire[p], f)] /\ writing' = writing
      BY <1>3 DEF Post
    <2>2. wire'[p] = Append(wire[p], f) /\ \A q \in Peers : q # p => wire'[q] = wire[q]
      BY <1>0, <2>1
    <2>3. /\ \A k \in DOMAIN wire[p] : wire[p][k] \in InFlight(p)
          /\ writing[p] \subseteq InFlight(p)
      BY DEF InFlight
    <2>4. /\ DOMAIN Append(wire[p], f) = DOMAIN wire[p] \cup {Len(wire[p]) + 1}
          /\ \A k \in DOMAIN wire[p] : Append(wire[p], f)[k] = wire[p][k]
          /\ Append(wire[p], f)[Len(wire[p]) + 1] = f
      BY <1>0, AppendFlight
    <2> HIDE DEF TypeOK
    <2> QED BY <2>1, <2>2, <2>3, <2>4 DEF InvokeOnce
  <1> QED BY <1>1, <1>2, <1>3

\* What a reader takes leaves the wire, and a request leaves it for good.
LEMMA ReadFlight ==
  ASSUME TypeOK, InvokeOnce, NEW q \in Peers, wire[q] # <<>>,
         wire' = [wire EXCEPT ![q] = Tail(@)], UNCHANGED writing
  PROVE  /\ Head(wire[q]) \in InFlight(q)
         /\ \A r \in Peers : InFlight(r)' \subseteq InFlight(r)
         /\ \A r \in Peers : r # q => InFlight(r)' = InFlight(r)
         /\ InFlight(q) \subseteq InFlight(q)' \cup {Head(wire[q])}
         /\ InvokeOnce'
         /\ IsInvoke(Head(wire[q])) =>
              \A g \in InFlight(q)' : IsInvoke(g) => g.id # Head(wire[q]).id
  <1> DEFINE s == wire[q]
  <1>0. s \in Seq(Frame) /\ s # <<>> BY DEF TypeOK, NetTypeOK
  <1>1. /\ Head(s) = s[1] /\ 1 \in DOMAIN s
        /\ \A k \in DOMAIN Tail(s) : k + 1 \in DOMAIN s /\ Tail(s)[k] = s[k + 1] /\ k \in Nat /\ k # 0
        /\ \A k \in DOMAIN s : k # 1 => k - 1 \in DOMAIN Tail(s) /\ Tail(s)[k - 1] = s[k]
    BY <1>0
  <1>2. wire'[q] = Tail(s) /\ \A r \in Peers : r # q => wire'[r] = wire[r]
    BY DEF TypeOK, NetTypeOK
  <1> HIDE DEF s
  <1>3. /\ \A k \in DOMAIN s : s[k] \in InFlight(q)
        /\ InFlight(q) = writing[q] \cup {s[k] : k \in DOMAIN s}
        /\ InFlight(q)' = writing[q] \cup {Tail(s)[k] : k \in DOMAIN Tail(s)}
    BY <1>2 DEF InFlight, s
  <1>4. Head(s) \in InFlight(q) BY <1>1, <1>3
  <1>5. InFlight(q)' \subseteq InFlight(q) BY <1>1, <1>3
  <1>6. \A r \in Peers : r # q => InFlight(r)' = InFlight(r) BY <1>2 DEF InFlight
  <1>7. ASSUME NEW g \in InFlight(q), g # Head(s) PROVE g \in InFlight(q)'
    <2>1. CASE g \in writing[q] BY <1>3, <2>1
    <2>2. CASE \E k \in DOMAIN s : g = s[k]
      <3>1. PICK k \in DOMAIN s : g = s[k] BY <2>2
      <3>2. k - 1 \in DOMAIN Tail(s) /\ g = Tail(s)[k - 1] BY <1>1, <1>7, <3>1
      <3> QED BY <1>3, <3>2
    <2> QED BY <1>3, <2>1, <2>2
  <1>8. /\ \A j, k \in DOMAIN s : IsInvoke(s[j]) /\ IsInvoke(s[k]) /\ s[j].id = s[k].id => j = k
        /\ \A f \in writing[q], k \in DOMAIN s : IsInvoke(f) /\ IsInvoke(s[k]) => f.id # s[k].id
    BY DEF InvokeOnce, s
  <1>9. InvokeOnce'
    <2>1. ASSUME NEW j \in DOMAIN Tail(s), NEW k \in DOMAIN Tail(s),
                 IsInvoke(Tail(s)[j]), IsInvoke(Tail(s)[k]), Tail(s)[j].id = Tail(s)[k].id
          PROVE  j = k
      <3>1. j + 1 \in DOMAIN s /\ Tail(s)[j] = s[j + 1] /\ j \in Nat BY <1>1
      <3>2. k + 1 \in DOMAIN s /\ Tail(s)[k] = s[k + 1] /\ k \in Nat BY <1>1
      <3>3. j + 1 = k + 1 BY <1>8, <2>1, <3>1, <3>2
      <3> QED BY <3>1, <3>2, <3>3
    <2>2. \A f \in writing[q], k \in DOMAIN Tail(s) :
             IsInvoke(f) /\ IsInvoke(Tail(s)[k]) => f.id # Tail(s)[k].id
      BY <1>1, <1>8
    <2>3. writing' = writing OBVIOUS
    <2>4. ASSUME NEW r \in Peers
          PROVE  /\ \A j, k \in DOMAIN wire'[r] : IsInvoke(wire'[r][j]) /\ IsInvoke(wire'[r][k])
                       /\ wire'[r][j].id = wire'[r][k].id => j = k
                 /\ \A f \in writing[r], k \in DOMAIN wire'[r] :
                       IsInvoke(f) /\ IsInvoke(wire'[r][k]) => f.id # wire'[r][k].id
      <3>1. CASE r = q
        <4>1. wire'[r] = Tail(s) BY <1>2, <3>1
        <4>2. \A j, k \in DOMAIN wire'[r] : IsInvoke(wire'[r][j]) /\ IsInvoke(wire'[r][k])
                /\ wire'[r][j].id = wire'[r][k].id => j = k
          BY <2>1, <4>1
        <4>3. ASSUME NEW f \in writing[r], NEW k \in DOMAIN wire'[r],
                     IsInvoke(f), IsInvoke(wire'[r][k])
              PROVE  f.id # wire'[r][k].id
          <5>1. k \in DOMAIN Tail(s) /\ wire'[r][k] = Tail(s)[k] BY <4>1
          <5>2. f \in writing[q] BY <3>1
          <5>3. IsInvoke(Tail(s)[k]) BY <4>3, <5>1
          <5> QED BY <2>2, <4>3, <5>1, <5>2, <5>3
        <4> QED BY <4>2, <4>3
      <3>2. CASE r # q
        <4>1. wire'[r] = wire[r] BY <1>2, <3>2
        <4>2. /\ \A j, k \in DOMAIN wire[r] : IsInvoke(wire[r][j]) /\ IsInvoke(wire[r][k])
                    /\ wire[r][j].id = wire[r][k].id => j = k
              /\ \A f \in writing[r], k \in DOMAIN wire[r] :
                    IsInvoke(f) /\ IsInvoke(wire[r][k]) => f.id # wire[r][k].id
          BY DEF InvokeOnce
        <4> QED BY <4>1, <4>2
      <3> QED BY <3>1, <3>2
    <2> QED BY <2>3, <2>4 DEF InvokeOnce
  <1>10. ASSUME IsInvoke(Head(s)), NEW g \in InFlight(q)', IsInvoke(g)
         PROVE  g.id # Head(s).id
    <2>1. CASE g \in writing[q] BY <1>1, <1>8, <1>10, <2>1
    <2>2. CASE \E k \in DOMAIN Tail(s) : g = Tail(s)[k]
      <3>1. PICK k \in DOMAIN Tail(s) : g = Tail(s)[k] BY <2>2
      <3>2. k + 1 \in DOMAIN s /\ g = s[k + 1] /\ k + 1 # 1 BY <1>1, <3>1
      <3> QED BY <1>1, <1>8, <1>10, <3>2
    <2> QED BY <1>3, <2>1, <2>2
  <1> QED BY <1>4, <1>5, <1>6, <1>7, <1>9, <1>10 DEF s

\* A writer thread moves a frame, or loses it on a dead transport.
LEMMA WriteFlight ==
  ASSUME TypeOK, InvokeOnce, FramesOK, NEW p \in Peers, WriteFrame(p)
  PROVE  /\ \A q \in Peers : InFlight(q)' \subseteq InFlight(q)
         /\ ~down => \A q \in Peers : InFlight(q)' = InFlight(q)
         /\ InvokeOnce'
  <1>0. wire \in [Peers -> Seq(Frame)] /\ writing \in [Peers -> SUBSET Frame]
    BY DEF TypeOK, NetTypeOK
  <1>1. PICK f \in writing[p] :
          /\ writing' = [writing EXCEPT ![p] = @ \ {f}]
          /\ wire' = IF down THEN wire ELSE [wire EXCEPT ![p] = Append(@, f)]
    BY DEF WriteFrame
  <1>2. f \in Frame BY <1>0
  <1>3. /\ writing'[p] = writing[p] \ {f} /\ \A q \in Peers : q # p => writing'[q] = writing[q]
        /\ \A q \in Peers : q # p => wire'[q] = wire[q]
    BY <1>0, <1>1
  <1>4. ASSUME NEW g \in writing[p], IsInvoke(f), IsInvoke(g), g.id = f.id
        PROVE  g = f
    <2>1. FrameOK(p, f) /\ FrameOK(p, g) BY DEF FramesOK, InFlight
    <2>2. f.kind = g.kind /\ f.n = g.n BY <1>4, <2>1 DEF FrameOK, IsInvoke
    <2> QED BY <1>0, <1>2, <1>4, <2>2 DEF Frame
  <1>5. CASE down
    <2>1. wire' = wire BY <1>1, <1>5
    <2> QED BY <1>3, <1>5, <2>1 DEF InFlight, InvokeOnce
  <1>6. CASE ~down
    <2>1. wire'[p] = Append(wire[p], f) BY <1>0, <1>1, <1>6
    <2>2. /\ DOMAIN Append(wire[p], f) = DOMAIN wire[p] \cup {Len(wire[p]) + 1}
          /\ \A k \in DOMAIN wire[p] : Append(wire[p], f)[k] = wire[p][k]
          /\ Append(wire[p], f)[Len(wire[p]) + 1] = f
      BY <1>0, <1>2, AppendFlight
    <2>3. InFlight(p)' = InFlight(p)
      <3>1. {Append(wire[p], f)[k] : k \in DOMAIN Append(wire[p], f)}
              = {wire[p][k] : k \in DOMAIN wire[p]} \cup {f}
        BY <2>2
      <3> QED BY <1>3, <2>1, <3>1 DEF InFlight
    <2>4. \A q \in Peers : q # p => InFlight(q)' = InFlight(q) BY <1>3 DEF InFlight
    <2>5. InvokeOnce'
      <3>1. \A j, k \in DOMAIN wire'[p] : IsInvoke(wire'[p][j]) /\ IsInvoke(wire'[p][k])
              /\ wire'[p][j].id = wire'[p][k].id => j = k
        BY <2>1, <2>2 DEF InvokeOnce
      <3>2. \A g \in writing'[p], k \in DOMAIN wire'[p] :
              IsInvoke(g) /\ IsInvoke(wire'[p][k]) => g.id # wire'[p][k].id
        BY <1>3, <1>4, <2>1, <2>2 DEF InvokeOnce
      <3> QED BY <1>3, <3>1, <3>2 DEF InvokeOnce
    <2> QED BY <2>3, <2>4, <2>5
  <1> QED BY <1>5, <1>6

-----------------------------------------------------------------------------
(* What a step leaves alone. *)

\* Calls that were made keep their mode, answers and begun tasks stay.
Steady == \A p \in Peers, i \in Ids :
    /\ cpc[p][i] # "idle" => mode'[p][i] = mode[p][i] /\ cpc'[p][i] # "idle"
    /\ answers[p][i] \subseteq answers'[p][i]
    /\ tpc[p][i] \notin {"none", "created"} => tpc'[p][i] \notin {"none", "created"}

LEMMA OldFrame ==
  ASSUME ReplyInv, Steady, NEW p \in Peers, NEW f \in InFlight(p),
         IsInvoke(f) => tpc'[Other(p)][f.id] = "none"
  PROVE  FrameOK(p, f)'
  <1> DEFINE q == Other(p)
             i == f.id
  <1>1. FrameOK(p, f) /\ q \in Peers /\ Other(q) = p /\ f \in Frame /\ i \in Ids
    BY FlightType, PeersFact DEF ReplyInv, FramesOK, Frame, Peers, Other
  <1>2. TaskOK(p, i) BY <1>1 DEF ReplyInv, TasksOK
  <1>3. /\ cpc[p][i] # "idle" => mode'[p][i] = mode[p][i] /\ cpc'[p][i] # "idle"
        /\ cpc[q][i] # "idle" => mode'[q][i] = mode[q][i] /\ cpc'[q][i] # "idle"
        /\ answers[p][i] \subseteq answers'[p][i]
        /\ tpc[p][i] \notin {"none", "created"} => tpc'[p][i] \notin {"none", "created"}
    BY <1>1 DEF Steady
  <1>4. f.kind \in ResultKinds \cup EventKinds => cpc[q][i] # "idle"
    BY <1>1, <1>2 DEF FrameOK, TaskOK
  <1> QED BY <1>1, <1>3, <1>4 DEF FrameOK, IsInvoke

LEMMA CallKept ==
  ASSUME NEW p \in Peers, NEW i \in Ids, CallOK(p, i), Reclaimed(p, i),
         /\ counter'[p] = counter[p] /\ mode'[p][i] = mode[p][i] /\ cpc'[p][i] = cpc[p][i]
         /\ reply'[p][i] = reply[p][i] /\ queue'[p][i] = queue[p][i]
         /\ asked'[p][i] = asked[p][i],
         i \in pending'[p] => i \in pending[p], i \in streams'[p] => i \in streams[p],
         answers[Other(p)][i] \subseteq answers'[Other(p)][i]
  PROVE  CallOK(p, i)' /\ Reclaimed(p, i)'
  <1>1. CallOK(p, i)' BY DEF CallOK
  <1>2. Reclaimed(p, i)' BY DEF Reclaimed
  <1> QED BY <1>1, <1>2

LEMMA TaskKept ==
  ASSUME NEW p \in Peers, NEW i \in Ids, TaskOK(p, i), Steady,
         tpc'[p][i] = tpc[p][i] /\ answers'[p][i] = answers[p][i] /\ ran'[p][i] = ran[p][i]
  PROVE  TaskOK(p, i)'
  <1>1. cpc[Other(p)][i] # "idle" =>
          mode'[Other(p)][i] = mode[Other(p)][i] /\ cpc'[Other(p)][i] # "idle"
    BY PeersFact DEF Steady
  <1> QED BY <1>1 DEF TaskOK

\* p sends nothing but frames of F, and the other end sends nothing.
Sends(p, F) == \A q \in Peers :
    InFlight(q)' \subseteq InFlight(q) \cup (IF q = p THEN F ELSE {})

LEMMA PostSends ==
  ASSUME TypeOK, NEW p \in Peers, NEW f \in Frame, Post(p, f)
  PROVE  Sends(p, {f})
  BY PostFlight DEF Sends

\* A step of a caller: the tasks stay as they are.
LEMMA CallSide ==
  ASSUME ReplyInv, UNCHANGED <<tpc, answers, ran>>, NEW p \in Peers, NEW F, Sends(p, F),
         \A q \in Peers, i \in Ids :
            cpc[q][i] # "idle" => mode'[q][i] = mode[q][i] /\ cpc'[q][i] # "idle",
         \A f \in F : FrameOK(p, f)'
  PROVE  FramesOK' /\ TasksOK'
  <1>1. Steady BY DEF Steady
  <1>2. TasksOK' BY <1>1, TaskKept DEF ReplyInv, TasksOK
  <1>3. ASSUME NEW q \in Peers, NEW f \in InFlight(q)' PROVE FrameOK(q, f)'
    <2>1. CASE f \in InFlight(q)
      <3>1. FrameOK(q, f) BY <2>1 DEF ReplyInv, FramesOK
      <3>2. IsInvoke(f) => tpc'[Other(q)][f.id] = "none" BY <3>1 DEF FrameOK
      <3> QED BY <1>1, <2>1, <3>2, OldFrame
    <2>2. CASE f \notin InFlight(q)
      <3>1. q = p /\ f \in F BY <1>3, <2>2 DEF Sends
      <3> QED BY <3>1
    <2> QED BY <2>1, <2>2
  <1> QED BY <1>2, <1>3 DEF FramesOK

\* A step of an inbound task: the calls stay as they are, and so do the other tasks.
LEMMA TaskSide ==
  ASSUME ReplyInv, UNCHANGED callVars, NEW p \in Peers, NEW i \in Ids, NEW F, Sends(p, F),
         \A f \in F : FrameOK(p, f)',
         \A q \in Peers, j \in Ids : q # p \/ j # i =>
            tpc'[q][j] = tpc[q][j] /\ answers'[q][j] = answers[q][j] /\ ran'[q][j] = ran[q][j],
         answers[p][i] \subseteq answers'[p][i], tpc[p][i] # "none",
         tpc[p][i] \notin {"none", "created"} => tpc'[p][i] \notin {"none", "created"},
         TaskOK(p, i)'
  PROVE  FramesOK' /\ TasksOK' /\ CallsOK' /\ \A q \in Peers, j \in Ids : Reclaimed(q, j)'
  <1>0. UNCHANGED <<counter, mode, cpc, reply, pending, streams, queue, asked>> BY DEF callVars
  <1>1. ASSUME NEW q \in Peers, NEW j \in Ids
        PROVE  /\ answers[q][j] \subseteq answers'[q][j]
               /\ tpc[q][j] \notin {"none", "created"} => tpc'[q][j] \notin {"none", "created"}
    <2>1. CASE q = p /\ j = i BY <2>1
    <2>2. CASE q # p \/ j # i BY <2>2
    <2> QED BY <2>1, <2>2
  <1>2. Steady BY <1>0, <1>1 DEF Steady
  <1>3. TasksOK'
    <2>1. ASSUME NEW q \in Peers, NEW j \in Ids PROVE TaskOK(q, j)'
      <3>1. CASE q = p /\ j = i BY <3>1
      <3>2. CASE q # p \/ j # i BY <1>2, <3>2, TaskKept DEF ReplyInv, TasksOK
      <3> QED BY <3>1, <3>2
    <2> QED BY <2>1 DEF TasksOK
  <1>4. CallsOK' /\ \A q \in Peers, j \in Ids : Reclaimed(q, j)'
    BY <1>0, <1>1, CallKept, PeersFact DEF ReplyInv, CallsOK
  <1>5. ASSUME NEW q \in Peers, NEW f \in InFlight(q)' PROVE FrameOK(q, f)'
    <2>1. CASE f \in InFlight(q)
      <3>1. FrameOK(q, f) /\ f.id \in Ids
        BY <2>1, FlightType DEF ReplyInv, FramesOK, Frame
      <3>2. ASSUME IsInvoke(f) PROVE tpc'[Other(q)][f.id] = "none"
        <4>1. tpc[Other(q)][f.id] = "none" BY <3>1, <3>2 DEF FrameOK
        <4>2. Other(q) # p \/ f.id # i BY <4>1
        <4> QED BY <3>1, <4>1, <4>2, PeersFact
      <3> QED BY <1>2, <2>1, <3>2, OldFrame
    <2>2. CASE f \notin InFlight(q)
      <3>1. q = p /\ f \in F BY <1>5, <2>2 DEF Sends
      <3> QED BY <3>1
    <2> QED BY <2>1, <2>2
  <1> QED BY <1>3, <1>4, <1>5 DEF FramesOK

-----------------------------------------------------------------------------
(* The caller's steps. *)

CallsInv == CallsOK /\ \A p \in Peers, i \in Ids : Reclaimed(p, i)

\* A step of one caller leaves the other calls alone.
LEMMA OneCall ==
  ASSUME ReplyInv, NEW p \in Peers, NEW i \in Ids, UNCHANGED <<counter, answers>>,
         \A q \in Peers, j \in Ids : q # p \/ j # i =>
            /\ mode'[q][j] = mode[q][j] /\ cpc'[q][j] = cpc[q][j]
            /\ reply'[q][j] = reply[q][j] /\ queue'[q][j] = queue[q][j]
            /\ asked'[q][j] = asked[q][j]
            /\ j \in pending'[q] => j \in pending[q]
            /\ j \in streams'[q] => j \in streams[q],
         CallOK(p, i)', Reclaimed(p, i)'
  PROVE  CallsInv'
  <1>1. ASSUME NEW q \in Peers, NEW j \in Ids PROVE CallOK(q, j)' /\ Reclaimed(q, j)'
    <2>1. CASE q = p /\ j = i BY <2>1
    <2>2. CASE q # p \/ j # i
      <3>1. CallOK(q, j) /\ Reclaimed(q, j) BY DEF ReplyInv, CallsOK
      <3>2. counter'[q] = counter[q] /\ answers'[Other(q)][j] = answers[Other(q)][j] OBVIOUS
      <3> QED BY <2>2, <3>1, <3>2, CallKept
    <2> QED BY <2>1, <2>2
  <1> QED BY <1>1 DEF CallsInv, CallsOK

LEMMA NoSends ==
  ASSUME UNCHANGED <<wire, writing>>, NEW p \in Peers, InvokeOnce
  PROVE  Sends(p, {}) /\ InvokeOnce' /\ \A q \in Peers : InFlight(q)' = InFlight(q)
  BY DEF Sends, InFlight, InvokeOnce

ReplyInvOf == FramesOK /\ InvokeOnce /\ TasksOK /\ CallsInv

LEMMA CallerReply ==
  ASSUME ReplyInv, NEW p \in Peers, NEW i \in Ids,
         \/ SendDone(p, i) \/ SendRaises(p, i) \/ Return(p, i)
         \/ Abandon(p, i) \/ Iterate(p, i)
  PROVE  ReplyInvOf'
  <1>a. TypeOK /\ InvokeOnce /\ CallOK(p, i) /\ Reclaimed(p, i) /\ ReplyInv
    BY DEF ReplyInv, CallsOK
  <1>b. /\ cpc \in [Peers -> [Ids -> {"idle", "sending", "waiting", "open", "iterating", "done"}]]
        /\ reply \in [Peers -> [Ids -> Replies]] /\ mode \in [Peers -> [Ids -> {"unary", "stream"}]]
        /\ pending \in [Peers -> SUBSET Ids] /\ streams \in [Peers -> SUBSET Ids]
    BY <1>a DEF TypeOK, CallTypeOK
  <1>c. /\ UNCHANGED <<tpc, answers, ran>> /\ UNCHANGED <<wire, writing>>
        /\ UNCHANGED <<counter, mode, queue, asked>>
    BY DEF SendDone, SendRaises, Return, Abandon, Iterate, taskVars, netVars
  <1>1. cpc[p][i] # "idle" /\ cpc'[p][i] # "idle" /\
        \A q \in Peers, j \in Ids : q # p \/ j # i =>
            /\ cpc'[q][j] = cpc[q][j] /\ reply'[q][j] = reply[q][j]
            /\ (j \in pending'[q] => j \in pending[q]) /\ (j \in streams'[q] => j \in streams[q])
    <2>1. CASE SendDone(p, i) BY <1>b, <2>1 DEF SendDone
    <2>2. CASE SendRaises(p, i) BY <1>b, <2>2 DEF SendRaises
    <2>3. CASE Return(p, i) BY <1>b, <2>3 DEF Return
    <2>4. CASE Abandon(p, i) BY <1>b, <2>4 DEF Abandon
    <2>5. CASE Iterate(p, i) BY <1>b, <2>5 DEF Iterate
    <2> QED BY <2>1, <2>2, <2>3, <2>4, <2>5
  <1>2. CallOK(p, i)' /\ Reclaimed(p, i)'
    <2>1. CASE SendDone(p, i)
      <3>1. /\ cpc[p][i] = "sending" /\ UNCHANGED <<reply, pending, streams>>
            /\ cpc'[p][i] = IF mode[p][i] = "unary" THEN "waiting" ELSE "open"
        BY <1>b, <2>1 DEF SendDone
      <3> QED BY <1>a, <1>b, <1>c, <3>1 DEF CallOK, Reclaimed
    <2>2. CASE SendRaises(p, i)
      <3>1. /\ cpc[p][i] = "sending" /\ cpc'[p][i] = "done" /\ reply'[p][i] = "raised"
            /\ i \notin pending'[p] /\ i \notin streams'[p]
        BY <1>b, <2>2 DEF SendRaises
      <3> QED BY <1>a, <1>b, <1>c, <3>1 DEF CallOK, Reclaimed, FinalKinds, ResultKinds
    <2>3. CASE Return(p, i)
      <3>1. /\ cpc[p][i] = "waiting" /\ cpc'[p][i] = "done" /\ reply[p][i] # "pending"
            /\ UNCHANGED <<reply, pending, streams>>
        BY <1>b, <2>3 DEF Return
      <3> QED BY <1>a, <1>b, <1>c, <3>1 DEF CallOK, Reclaimed
    <2>4. CASE Abandon(p, i)
      <3>1. /\ cpc[p][i] \in {"sending", "waiting", "open"} /\ cpc'[p][i] = "done"
            /\ reply'[p][i] = IF reply[p][i] = "pending" THEN "dropped" ELSE reply[p][i]
            /\ UNCHANGED <<pending, streams>>
        BY <1>b, <2>4 DEF Abandon
      <3> QED BY <1>a, <1>b, <1>c, <3>1 DEF CallOK, Reclaimed, FinalKinds, ResultKinds
    <2>5. CASE Iterate(p, i)
      <3>1. /\ cpc[p][i] = "open" /\ cpc'[p][i] = "iterating"
            /\ UNCHANGED <<reply, pending, streams>>
        BY <1>b, <2>5 DEF Iterate
      <3> QED BY <1>a, <1>b, <1>c, <3>1 DEF CallOK, Reclaimed
    <2> QED BY <2>1, <2>2, <2>3, <2>4, <2>5
  <1>3. CallsInv' BY <1>a, <1>c, <1>1, <1>2, OneCall
  <1>4. Sends(p, {}) /\ InvokeOnce' BY <1>a, <1>c, NoSends
  <1>5. \A q \in Peers, j \in Ids :
            cpc[q][j] # "idle" => mode'[q][j] = mode[q][j] /\ cpc'[q][j] # "idle"
    <2>1. ASSUME NEW q \in Peers, NEW j \in Ids, cpc[q][j] # "idle" PROVE cpc'[q][j] # "idle"
      <3>1. CASE q = p /\ j = i BY <1>1, <3>1
      <3>2. CASE q # p \/ j # i BY <1>1, <2>1, <3>2
      <3> QED BY <3>1, <3>2
    <2> QED BY <1>c, <2>1
  <1>6. FramesOK' /\ TasksOK' BY <1>a, <1>c, <1>4, <1>5, CallSide
  <1> QED BY <1>3, <1>4, <1>6 DEF ReplyInvOf

\* The frames a caller sends for a call it has made.
LEMMA CancelFrame ==
  ASSUME NEW p \in Peers, NEW i \in Ids
  PROVE  FrameOK(p, Msg("cancel", i))' /\ ~IsInvoke(Msg("cancel", i)) /\ Msg("cancel", i) \in Frame
  <1>1. Msg("cancel", i) \in Frame BY FrameFact DEF Kinds
  <1> QED BY <1>1 DEF FrameOK, Msg, IsInvoke, ResultKinds, EventKinds, FinalKinds

LEMMA CallModes ==
  ASSUME TypeOK, NEW p \in Peers, NEW i \in Ids, UNCHANGED mode,
         UNCHANGED cpc \/ cpc' = [cpc EXCEPT ![p][i] = "done"]
  PROVE  \A q \in Peers, j \in Ids :
            cpc[q][j] # "idle" => mode'[q][j] = mode[q][j] /\ cpc'[q][j] # "idle"
  <1>1. CASE UNCHANGED cpc BY <1>1
  <1>2. CASE cpc' = [cpc EXCEPT ![p][i] = "done"]
    BY <1>2 DEF TypeOK, CallTypeOK
  <1> QED BY <1>1, <1>2

\* A send of at most a cancel, by a step that touches no task.
LEMMA CancelSends ==
  ASSUME ReplyInv, NEW p \in Peers, NEW i \in Ids, UNCHANGED <<tpc, answers, ran, mode>>,
         UNCHANGED cpc \/ cpc' = [cpc EXCEPT ![p][i] = "done"],
         UNCHANGED <<wire, writing>> \/ Post(p, Msg("cancel", i))
  PROVE  FramesOK' /\ TasksOK' /\ InvokeOnce'
  <1>a. TypeOK /\ InvokeOnce /\ ReplyInv BY DEF ReplyInv
  <1>1. \A q \in Peers, j \in Ids :
            cpc[q][j] # "idle" => mode'[q][j] = mode[q][j] /\ cpc'[q][j] # "idle"
    BY <1>a, CallModes
  <1>2. CASE UNCHANGED <<wire, writing>>
    <2>1. Sends(p, {}) /\ InvokeOnce' BY <1>a, <1>2, NoSends
    <2> QED BY <1>1, <2>1, CallSide
  <1>3. CASE Post(p, Msg("cancel", i))
    <2>1. FrameOK(p, Msg("cancel", i))' /\ ~IsInvoke(Msg("cancel", i)) /\ Msg("cancel", i) \in Frame
      BY CancelFrame
    <2>2. Sends(p, {Msg("cancel", i)}) /\ InvokeOnce'
      BY <1>a, <1>3, <2>1, PostSends, PostOnce
    <2>3. \A f \in {Msg("cancel", i)} : FrameOK(p, f)' BY <2>1
    <2> QED BY <1>1, <2>2, <2>3, CallSide
  <1> QED BY <1>2, <1>3

\* What a stream's queue holds, and what is left of it, are items of one kind.
GoodItem(p, i, item) ==
    /\ item.kind # "protocol"
    /\ item.kind \in FinalKinds => item.kind \in answers[Other(p)][i]

LEMMA TailItems ==
  ASSUME NEW q \in Seq(Item), q # <<>>
  PROVE  /\ \A k \in DOMAIN Tail(q) : k + 1 \in DOMAIN q /\ Tail(q)[k] = q[k + 1]
         /\ Head(q) = q[1] /\ 1 \in DOMAIN q
  OBVIOUS

LEMMA QueueItems ==
  ASSUME TypeOK, NEW p \in Peers, NEW i \in Ids, CallOK(p, i), queue[p][i] # <<>>
  PROVE  /\ GoodItem(p, i, Head(queue[p][i]))
         /\ \A k \in DOMAIN Tail(queue[p][i]) : GoodItem(p, i, Tail(queue[p][i])[k])
  <1>1. queue[p][i] \in Seq(Item) BY DEF TypeOK, CallTypeOK
  <1>2. \A k \in DOMAIN queue[p][i] : GoodItem(p, i, queue[p][i][k]) BY DEF CallOK, GoodItem
  <1>3. ASSUME NEW k \in DOMAIN Tail(queue[p][i]) PROVE GoodItem(p, i, Tail(queue[p][i])[k])
    <2>1. k + 1 \in DOMAIN queue[p][i] /\ Tail(queue[p][i])[k] = queue[p][i][k + 1]
      BY <1>1, TailItems
    <2>2. GoodItem(p, i, queue[p][i][k + 1]) BY <1>2, <2>1
    <2> QED BY <2>1, <2>2
  <1>4. GoodItem(p, i, Head(queue[p][i]))
    <2>1. 1 \in DOMAIN queue[p][i] /\ Head(queue[p][i]) = queue[p][i][1] BY <1>1, TailItems
    <2>2. GoodItem(p, i, queue[p][i][1]) BY <1>2, <2>1
    <2> QED BY <2>1, <2>2
  <1> QED BY <1>3, <1>4

LEMMA FinishReply ==
  ASSUME ReplyInv, NEW p \in Peers, NEW i \in Ids, NEW how, Finish(p, i, how),
         cpc[p][i] = "iterating", how \in {"completed", "failed", "lost", "closed"},
         how \in FinalKinds => how \in answers[Other(p)][i],
         UNCHANGED <<counter, mode, pending, tpc, answers, ran>>,
         \/ queue' = queue
         \/ queue[p][i] # <<>> /\ queue' = [queue EXCEPT ![p][i] = Tail(@)]
  PROVE  ReplyInvOf'
  <1>a. TypeOK /\ InvokeOnce /\ CallOK(p, i) /\ Reclaimed(p, i) /\ ReplyInv
    BY DEF ReplyInv, CallsOK
  <1>b. /\ cpc \in [Peers -> [Ids -> {"idle", "sending", "waiting", "open", "iterating", "done"}]]
        /\ reply \in [Peers -> [Ids -> Replies]] /\ queue \in [Peers -> [Ids -> Seq(Item)]]
        /\ streams \in [Peers -> SUBSET Ids] /\ asked \in [Peers -> [Ids -> Nat]]
    BY <1>a DEF TypeOK, CallTypeOK
  <1>1. /\ cpc' = [cpc EXCEPT ![p][i] = "done"] /\ reply' = [reply EXCEPT ![p][i] = how]
        /\ streams' = [streams EXCEPT ![p] = @ \ {i}]
        /\ \/ how \in {"completed", "failed"} /\ UNCHANGED <<asked, wire, writing>>
           \/ Post(p, Msg("cancel", i)) /\ asked' = [asked EXCEPT ![p][i] = @ + 1]
    BY DEF Finish
  <1>2. /\ cpc'[p][i] = "done" /\ reply'[p][i] = how /\ i \notin streams'[p]
        /\ how \in {"completed", "failed"} \/ asked'[p][i] > 0
    BY <1>b, <1>1
  <1>3. \A q \in Peers, j \in Ids : q # p \/ j # i =>
            /\ cpc'[q][j] = cpc[q][j] /\ reply'[q][j] = reply[q][j]
            /\ queue'[q][j] = queue[q][j] /\ asked'[q][j] = asked[q][j]
            /\ j \in streams'[q] => j \in streams[q]
    BY <1>b, <1>1
  <1>4. \A k \in DOMAIN queue'[p][i] : GoodItem(p, i, queue'[p][i][k])
    <2>1. CASE queue' = queue BY <1>a, <2>1 DEF CallOK, GoodItem
    <2>2. CASE queue[p][i] # <<>> /\ queue' = [queue EXCEPT ![p][i] = Tail(@)]
      <3>1. queue'[p][i] = Tail(queue[p][i]) BY <1>b, <2>2
      <3> QED BY <1>a, <2>2, <3>1, QueueItems
    <2> QED BY <2>1, <2>2
  <1>5. i \notin pending'[p] \/ mode[p][i] = "unary" BY <1>a DEF CallOK
  <1>6. mode[p][i] = "stream" /\ ~(counter[p] < i) BY <1>a DEF CallOK
  <1>7. CallOK(p, i)' BY <1>2, <1>4, <1>5, <1>6 DEF CallOK, GoodItem
  <1>8. Reclaimed(p, i)' BY <1>2 DEF Reclaimed
  <1>9. CallsInv' BY <1>3, <1>7, <1>8, OneCall
  <1>10. FramesOK' /\ TasksOK' /\ InvokeOnce' BY <1>1, CancelSends
  <1> QED BY <1>9, <1>10 DEF ReplyInvOf

LEMMA ConsumerReply ==
  ASSUME ReplyInv, NEW p \in Peers, NEW i \in Ids,
         NextItem(p, i) \/ CloseEarly(p, i) \/ Cancel(p, i)
  PROVE  ReplyInvOf'
  <1>a. TypeOK /\ InvokeOnce /\ CallOK(p, i) /\ Reclaimed(p, i) /\ ReplyInv
    BY DEF ReplyInv, CallsOK
  <1>b. queue \in [Peers -> [Ids -> Seq(Item)]] /\ asked \in [Peers -> [Ids -> Nat]]
    BY <1>a DEF TypeOK, CallTypeOK
  <1>1. CASE NextItem(p, i)
    <2> DEFINE item == Head(queue[p][i])
    <2>1. /\ cpc[p][i] = "iterating" /\ queue[p][i] # <<>>
          /\ queue' = [queue EXCEPT ![p][i] = Tail(@)]
          /\ UNCHANGED <<counter, mode, pending, tpc, answers, ran>>
      BY <1>1 DEF NextItem, taskVars
    <2>2. GoodItem(p, i, item) BY <1>a, <2>1, QueueItems
    <2>3. CASE item.kind \in Endings
      <3>1. Finish(p, i, item.kind) BY <1>1, <2>3 DEF NextItem
      <3>2. item.kind \in {"completed", "failed", "lost", "closed"}
        BY <2>2, <2>3 DEF GoodItem, Endings
      <3>3. item.kind \in FinalKinds => item.kind \in answers[Other(p)][i]
        BY <2>2 DEF GoodItem
      <3> QED BY <1>a, <2>1, <3>1, <3>2, <3>3, FinishReply
    <2>4. CASE item.kind \notin Endings
      <3>1. UNCHANGED <<cpc, reply, streams, asked, wire, writing>> BY <1>1, <2>4 DEF NextItem
      <3>2. queue'[p][i] = Tail(queue[p][i])
            /\ \A q \in Peers, j \in Ids : q # p \/ j # i => queue'[q][j] = queue[q][j]
        BY <1>b, <2>1
      <3>3. \A k \in DOMAIN queue'[p][i] : GoodItem(p, i, queue'[p][i][k])
        BY <1>a, <2>1, <3>2, QueueItems
      <3>4. CallOK(p, i)' BY <1>a, <2>1, <3>1, <3>3 DEF CallOK, GoodItem
      <3>5. Reclaimed(p, i)' BY <1>a, <2>1, <3>1 DEF Reclaimed
      <3>6. CallsInv' BY <2>1, <3>1, <3>2, <3>4, <3>5, OneCall
      <3>7. FramesOK' /\ TasksOK' /\ InvokeOnce' BY <2>1, <3>1, CancelSends
      <3> QED BY <3>6, <3>7 DEF ReplyInvOf
    <2> QED BY <2>3, <2>4
  <1>2. CASE CloseEarly(p, i)
    <2>1. /\ cpc[p][i] = "iterating" /\ Finish(p, i, "closed") /\ queue' = queue
          /\ UNCHANGED <<counter, mode, pending, tpc, answers, ran>>
      BY <1>2 DEF CloseEarly, taskVars
    <2>2. "closed" \notin FinalKinds BY DEF FinalKinds, ResultKinds
    <2> QED BY <1>a, <2>1, <2>2, FinishReply
  <1>3. CASE Cancel(p, i)
    <2>1. /\ asked' = [asked EXCEPT ![p][i] = @ + 1] /\ Post(p, Msg("cancel", i))
          /\ UNCHANGED <<counter, mode, cpc, reply, pending, streams, queue, tpc, answers, ran>>
      BY <1>3 DEF Cancel, taskVars
    <2>2. asked'[p][i] > 0 /\ \A q \in Peers, j \in Ids : q # p \/ j # i => asked'[q][j] = asked[q][j]
      BY <1>b, <2>1
    <2>3. CallOK(p, i)' BY <1>a, <2>1 DEF CallOK
    <2>4. Reclaimed(p, i)' BY <1>a, <2>1, <2>2 DEF Reclaimed
    <2>5. CallsInv' BY <2>1, <2>2, <2>3, <2>4, OneCall
    <2>6. FramesOK' /\ TasksOK' /\ InvokeOnce' BY <2>1, CancelSends
    <2> QED BY <2>5, <2>6 DEF ReplyInvOf
  <1> QED BY <1>1, <1>2, <1>3

LEMMA InvokeReply ==
  ASSUME ReplyInv, NEW p \in Peers, NEW m \in {"unary", "stream"}, Invoke(p, m)
  PROVE  ReplyInvOf'
  <1>a. TypeOK /\ InvokeOnce /\ ReplyInv BY DEF ReplyInv
  <1>b. /\ cpc \in [Peers -> [Ids -> {"idle", "sending", "waiting", "open", "iterating", "done"}]]
        /\ reply \in [Peers -> [Ids -> Replies]] /\ mode \in [Peers -> [Ids -> {"unary", "stream"}]]
        /\ pending \in [Peers -> SUBSET Ids] /\ streams \in [Peers -> SUBSET Ids]
        /\ counter \in [Peers -> Nat]
    BY <1>a DEF TypeOK, CallTypeOK
  <1>2. PICK i \in Ids : i = counter[p] + 1
    <2>1. counter[p] + 1 \in Ids
      BY <1>b, PeerAssumption DEF Invoke, Ids, Peers, PeerAssumption
    <2> QED BY <2>1
  <1> DEFINE f == Msg(IF m = "unary" THEN "invoke" ELSE "invoke_stream", i)
  <1>1. /\ counter[p] < Limit[p] /\ counter' = [counter EXCEPT ![p] = i]
        /\ mode' = [mode EXCEPT ![p][i] = m] /\ cpc' = [cpc EXCEPT ![p][i] = "sending"]
        /\ reply' = [reply EXCEPT ![p][i] = "pending"]
        /\ IF m = "unary"
           THEN pending' = [pending EXCEPT ![p] = @ \cup {i}] /\ UNCHANGED streams
           ELSE streams' = [streams EXCEPT ![p] = @ \cup {i}] /\ UNCHANGED pending
        /\ Post(p, f) /\ UNCHANGED <<queue, asked, tpc, answers, ran>>
    BY <1>2 DEF Invoke, taskVars
  <1>3. CallOK(p, i) /\ cpc[p][i] = "idle"
    <2>1. CallOK(p, i) BY <1>2 DEF ReplyInv, CallsOK
    <2>2. counter[p] < i BY <1>b, <1>2
    <2> QED BY <2>1, <2>2 DEF CallOK
  <1>4. tpc[Other(p)][i] = "none"
    <2>1. TaskOK(Other(p), i) BY <1>2, PeersFact DEF ReplyInv, TasksOK
    <2>2. Other(Other(p)) = p BY DEF Peers, Other
    <2> QED BY <1>3, <2>1, <2>2 DEF TaskOK
  <1>5. /\ mode'[p][i] = m /\ cpc'[p][i] = "sending" /\ reply'[p][i] = "pending" /\ counter'[p] = i
        /\ i \in pending'[p] => m = "unary" \/ i \in pending[p]
        /\ i \in streams'[p] => m = "stream" \/ i \in streams[p]
    BY <1>b, <1>1, <1>2
  <1>6. ASSUME NEW q \in Peers, NEW j \in Ids, q # p \/ j # i
        PROVE  /\ mode'[q][j] = mode[q][j] /\ cpc'[q][j] = cpc[q][j] /\ reply'[q][j] = reply[q][j]
               /\ j \in pending'[q] => j \in pending[q]
               /\ j \in streams'[q] => j \in streams[q]
    BY <1>b, <1>1, <1>2, <1>6
  <1>7. f \in Frame BY <1>2, FrameFact DEF Kinds
  <1>8. FrameOK(p, f)'
    BY <1>1, <1>4, <1>5 DEF FrameOK, Msg, IsInvoke, ResultKinds, EventKinds, FinalKinds
  <1>9. IsInvoke(f) => \A g \in InFlight(p) : IsInvoke(g) => g.id # f.id
    <2>1. ASSUME NEW g \in InFlight(p), IsInvoke(g) PROVE g.id # i
      <3>1. FrameOK(p, g) BY DEF ReplyInv, FramesOK
      <3> QED BY <1>3, <2>1, <3>1 DEF FrameOK
    <2> QED BY <2>1 DEF Msg
  <1>10. InvokeOnce' BY <1>a, <1>1, <1>7, <1>9, PostOnce
  <1>11. Sends(p, {f}) BY <1>a, <1>1, <1>7, PostSends
  <1>12. \A q \in Peers, j \in Ids :
            cpc[q][j] # "idle" => mode'[q][j] = mode[q][j] /\ cpc'[q][j] # "idle"
    <2>1. ASSUME NEW q \in Peers, NEW j \in Ids, cpc[q][j] # "idle"
          PROVE  mode'[q][j] = mode[q][j] /\ cpc'[q][j] # "idle"
      <3>1. q # p \/ j # i BY <1>3, <2>1
      <3> QED BY <1>6, <2>1, <3>1
    <2> QED BY <2>1
  <1>13. FramesOK' /\ TasksOK'
    <2>1. \A g \in {f} : FrameOK(p, g)' BY <1>8
    <2> QED BY <1>1, <1>11, <1>12, <2>1, CallSide
  <1>14. CallOK(p, i)' /\ Reclaimed(p, i)'
    <2>1. queue[p][i] = <<>> BY <1>3 DEF CallOK
    <2>2. i \notin pending[p] /\ i \notin streams[p] BY <1>3 DEF CallOK
    <2>3. i \in Nat BY <1>2, IdsFact
    <2> QED BY <1>1, <1>5, <2>1, <2>2, <2>3 DEF CallOK, Reclaimed, FinalKinds, ResultKinds
  <1>15. CallsInv'
    <2>1. ASSUME NEW q \in Peers, NEW j \in Ids, q # p \/ j # i
          PROVE  CallOK(q, j)' /\ Reclaimed(q, j)'
      <3>1. CallOK(q, j) /\ Reclaimed(q, j) BY DEF ReplyInv, CallsOK
      <3>2. CASE q # p
        <4>1. counter'[q] = counter[q] BY <1>b, <1>1, <3>2
        <4> QED BY <1>1, <1>6, <2>1, <3>1, <4>1, CallKept
      <3>3. CASE q = p
        <4>1. (counter'[p] < j) = (counter[p] < j)
          BY <1>b, <1>2, <1>5, <2>1, <3>3, IdsFact
        <4> QED BY <1>1, <1>6, <2>1, <3>1, <3>3, <4>1 DEF CallOK, Reclaimed
      <3> QED BY <3>2, <3>3
    <2>2. ASSUME NEW q \in Peers, NEW j \in Ids PROVE CallOK(q, j)' /\ Reclaimed(q, j)'
      <3>1. CASE q = p /\ j = i BY <1>14, <3>1
      <3>2. CASE q # p \/ j # i BY <2>1, <3>2
      <3> QED BY <3>1, <3>2
    <2> QED BY <2>2 DEF CallsInv, CallsOK
  <1> QED BY <1>10, <1>13, <1>15 DEF ReplyInvOf

-----------------------------------------------------------------------------
(* The connection's steps and the reader's. *)

\* A step that touches neither call nor task, and sends nothing.
LEMMA Shrinks ==
  ASSUME ReplyInv, UNCHANGED <<tpc, answers, ran, mode, cpc>>,
         \A q \in Peers : InFlight(q)' \subseteq InFlight(q)
  PROVE  FramesOK' /\ TasksOK'
  <1>1. PICK p \in Peers : TRUE BY DEF Peers
  <1>2. Sends(p, {}) BY DEF Sends
  <1> QED BY <1>1, <1>2, CallSide

LEMMA CallsStay ==
  ASSUME ReplyInv, UNCHANGED <<callVars, answers>>
  PROVE  CallsInv'
  <1>1. UNCHANGED <<counter, mode, cpc, reply, pending, streams, queue, asked>> BY DEF callVars
  <1>2. ASSUME NEW p \in Peers, NEW i \in Ids PROVE CallOK(p, i)' /\ Reclaimed(p, i)'
    <2>1. CallOK(p, i) /\ Reclaimed(p, i) BY DEF ReplyInv, CallsOK
    <2> QED BY <1>1, <2>1, CallKept
  <1> QED BY <1>2 DEF CallsInv, CallsOK

LEMMA ReleaseReply ==
  ASSUME ReplyInv, NEW p \in Peers, Release(p)
  PROVE  CallsInv' /\ UNCHANGED <<tpc, answers, ran, mode, cpc>>
  <1>a. TypeOK /\ CallsOK BY DEF ReplyInv
  <1>b. /\ reply \in [Peers -> [Ids -> Replies]] /\ queue \in [Peers -> [Ids -> Seq(Item)]]
        /\ pending \in [Peers -> SUBSET Ids] /\ streams \in [Peers -> SUBSET Ids]
    BY <1>a DEF TypeOK, CallTypeOK
  <1>1. UNCHANGED <<counter, mode, cpc, asked, tpc, answers, ran>> BY DEF Release
  <1>2. ASSUME NEW q \in Peers, NEW j \in Ids, q # p
        PROVE  CallOK(q, j)' /\ Reclaimed(q, j)'
    <2>1. /\ reply'[q] = reply[q] /\ queue'[q] = queue[q]
          /\ pending'[q] = pending[q] /\ streams'[q] = streams[q]
      BY <1>b, <1>2 DEF Release
    <2>2. CallOK(q, j) /\ Reclaimed(q, j) BY DEF ReplyInv, CallsOK
    <2> QED BY <1>1, <2>1, <2>2, CallKept
  <1>3. ASSUME NEW j \in Ids PROVE CallOK(p, j)' /\ Reclaimed(p, j)'
    <2>1. /\ reply'[p][j] = IF j \in pending[p] /\ reply[p][j] = "pending" THEN "lost" ELSE reply[p][j]
          /\ queue'[p][j] = IF j \in streams[p] THEN Append(queue[p][j], Msg("lost", j)) ELSE queue[p][j]
          /\ pending'[p] = {} /\ streams'[p] = {}
      BY <1>b DEF Release
    <2>2. CallOK(p, j) /\ Reclaimed(p, j) BY DEF ReplyInv, CallsOK
    <2>3. queue[p][j] \in Seq(Item) /\ Msg("lost", j) \in Item
      BY <1>b, ItemFact DEF Endings
    <2>4. \A k \in DOMAIN queue'[p][j] : GoodItem(p, j, queue'[p][j][k])
      <3>1. \A k \in DOMAIN queue[p][j] : GoodItem(p, j, queue[p][j][k])
        BY <2>2 DEF CallOK, GoodItem
      <3>2. GoodItem(p, j, Msg("lost", j)) BY DEF GoodItem, Msg, FinalKinds, ResultKinds
      <3>3. ASSUME NEW k \in DOMAIN Append(queue[p][j], Msg("lost", j))
            PROVE  GoodItem(p, j, Append(queue[p][j], Msg("lost", j))[k])
        <4>1. \/ k \in DOMAIN queue[p][j] /\ Append(queue[p][j], Msg("lost", j))[k] = queue[p][j][k]
              \/ Append(queue[p][j], Msg("lost", j))[k] = Msg("lost", j)
          BY <2>3
        <4> QED BY <3>1, <3>2, <4>1
      <3> QED BY <2>1, <3>1, <3>3
    <2>5. CallOK(p, j)'
      <3>1. \A k \in DOMAIN queue'[p][j] :
              /\ queue'[p][j][k].kind # "protocol"
              /\ queue'[p][j][k].kind \in FinalKinds
                   => queue'[p][j][k].kind \in answers[Other(p)][j]
        BY <2>4 DEF GoodItem
      <3>2. cpc[p][j] = "idle" => queue'[p][j] = <<>> /\ reply'[p][j] = "none"
        BY <2>1, <2>2 DEF CallOK
      <3>3. j \in pending[p] => mode[p][j] = "unary" BY <2>2 DEF CallOK
      <3> QED BY <1>1, <2>1, <2>2, <3>1, <3>2, <3>3 DEF CallOK, FinalKinds, ResultKinds
    <2>6. Reclaimed(p, j)'
      <3>1. j \in pending[p] => mode[p][j] = "unary" BY <2>2 DEF CallOK
      <3> QED BY <1>1, <2>1, <2>2, <3>1 DEF Reclaimed
    <2> QED BY <2>5, <2>6
  <1>4. \A q \in Peers, j \in Ids : CallOK(q, j)' /\ Reclaimed(q, j)' BY <1>2, <1>3
  <1> QED BY <1>1, <1>4 DEF CallsInv, CallsOK

LEMMA FailReply ==
  ASSUME ReplyInv, NEW p \in Peers, FailConnection(p)
  PROVE  CallsInv' /\ UNCHANGED <<tpc, answers, ran, mode, cpc>>
  <1>1. CASE unusable[p]
    <2>1. UNCHANGED <<callVars, taskVars>> BY <1>1 DEF FailConnection
    <2>2. UNCHANGED <<callVars, answers>> /\ UNCHANGED <<tpc, answers, ran, mode, cpc>>
      BY <2>1 DEF callVars, taskVars
    <2> QED BY <2>2, CallsStay
  <1>2. CASE ~unusable[p]
    BY <1>2, ReleaseReply DEF FailConnection
  <1> QED BY <1>1, <1>2

LEMMA ConnectionReply ==
  ASSUME ReplyInv, NEW p \in Peers,
         \/ Fail(p) \/ Stop(p) \/ Refuse(p) \/ StopDone(p) \/ LoseLink \/ Eof(p)
         \/ WriteFrame(p) \/ CancelTask(p)
  PROVE  ReplyInvOf'
  <1>a. TypeOK /\ InvokeOnce /\ FramesOK /\ ReplyInv BY DEF ReplyInv
  <1>1. CASE Fail(p) \/ Stop(p)
    <2>1. UNCHANGED <<wire, writing>> BY <1>1 DEF Fail, Stop, netVars
    <2>2. CallsInv' /\ UNCHANGED <<tpc, answers, ran, mode, cpc>>
      BY <1>1, ReleaseReply, FailReply DEF Fail, Stop
    <2>3. InvokeOnce' /\ \A q \in Peers : InFlight(q)' = InFlight(q) BY <1>a, <2>1, NoSends
    <2>4. FramesOK' /\ TasksOK' BY <2>2, <2>3, Shrinks
    <2> QED BY <2>2, <2>3, <2>4 DEF ReplyInvOf
  <1>2. CASE Refuse(p)
    <2>1. /\ FailConnection(p) /\ wire[Other(p)] # <<>>
          /\ wire' = [wire EXCEPT ![Other(p)] = Tail(@)] /\ UNCHANGED writing
      BY <1>2 DEF Refuse, Reading
    <2>2. CallsInv' /\ UNCHANGED <<tpc, answers, ran, mode, cpc>> BY <2>1, FailReply
    <2>3. InvokeOnce' /\ \A q \in Peers : InFlight(q)' \subseteq InFlight(q)
      BY <1>a, <2>1, PeersFact, ReadFlight
    <2>4. FramesOK' /\ TasksOK' BY <2>2, <2>3, Shrinks
    <2> QED BY <2>2, <2>3, <2>4 DEF ReplyInvOf
  <1>3. CASE StopDone(p) \/ LoseLink \/ CancelTask(p)
    <2>1. UNCHANGED <<wire, writing>> /\ UNCHANGED callVars /\ UNCHANGED <<tpc, answers, ran>>
      BY <1>3 DEF StopDone, LoseLink, CancelTask, taskVars
    <2>2. UNCHANGED <<tpc, answers, ran, mode, cpc>> BY <2>1 DEF callVars
    <2>3. CallsInv' BY <2>1, CallsStay
    <2>4. InvokeOnce' /\ \A q \in Peers : InFlight(q)' = InFlight(q) BY <1>a, <2>1, NoSends
    <2>5. FramesOK' /\ TasksOK' BY <2>2, <2>4, Shrinks
    <2> QED BY <2>3, <2>4, <2>5 DEF ReplyInvOf
  <1>4. CASE Eof(p)
    <2>1. /\ wire' = [wire EXCEPT ![Other(p)] = <<>>] /\ UNCHANGED writing
          /\ UNCHANGED callVars /\ UNCHANGED <<tpc, answers, ran>>
      BY <1>4 DEF Eof, taskVars
    <2>2. wire'[Other(p)] = <<>> /\ \A q \in Peers : q # Other(p) => wire'[q] = wire[q]
      BY <1>a, <2>1, PeersFact DEF TypeOK, NetTypeOK
    <2>3. \A q \in Peers : wire'[q] = <<>> \/ wire'[q] = wire[q] BY <2>2
    <2>4. \A q \in Peers : InFlight(q)' \subseteq InFlight(q)
      BY <2>1, <2>3 DEF InFlight
    <2>5. InvokeOnce' BY <1>a, <2>1, <2>3 DEF InvokeOnce
    <2>6. UNCHANGED <<tpc, answers, ran, mode, cpc>> BY <2>1 DEF callVars
    <2>7. CallsInv' BY <2>1, CallsStay
    <2>8. FramesOK' /\ TasksOK' BY <2>4, <2>6, Shrinks
    <2> QED BY <2>5, <2>7, <2>8 DEF ReplyInvOf
  <1>5. CASE WriteFrame(p)
    <2>1. UNCHANGED callVars /\ UNCHANGED <<tpc, answers, ran>>
      BY <1>5 DEF WriteFrame, taskVars
    <2>2. UNCHANGED <<tpc, answers, ran, mode, cpc>> BY <2>1 DEF callVars
    <2>3. InvokeOnce' /\ \A q \in Peers : InFlight(q)' \subseteq InFlight(q)
      BY <1>a, <1>5, WriteFlight
    <2>4. CallsInv' BY <2>1, CallsStay
    <2>5. FramesOK' /\ TasksOK' BY <2>2, <2>3, Shrinks
    <2> QED BY <2>3, <2>4, <2>5 DEF ReplyInvOf
  <1> QED BY <1>1, <1>2, <1>3, <1>4, <1>5

\* A frame that ends up in no table changes no call.
LEMMA ResultReply ==
  ASSUME ReplyInv, NEW p \in Peers, NEW f \in InFlight(Other(p)),
         \/ f.kind \in ResultKinds /\ HandleResult(p, f)
         \/ f.kind \in EventKinds /\ HandleEvent(p, f)
  PROVE  CallsInv'
  <1> DEFINE i == f.id
  <1>a. TypeOK /\ FrameOK(Other(p), f) /\ Other(p) \in Peers /\ Other(Other(p)) = p
    BY PeersFact DEF ReplyInv, FramesOK, Peers, Other
  <1>0. f \in Frame /\ i \in Ids BY <1>a, FlightType DEF Frame
  <1>b. /\ reply \in [Peers -> [Ids -> Replies]] /\ queue \in [Peers -> [Ids -> Seq(Item)]]
        /\ pending \in [Peers -> SUBSET Ids]
    BY <1>a DEF TypeOK, CallTypeOK
  <1>c. CallOK(p, i) /\ Reclaimed(p, i) BY <1>0 DEF ReplyInv, CallsOK
  <1>d. UNCHANGED <<counter, mode, cpc, streams, asked, answers>>
    BY DEF HandleResult, HandleEvent, taskVars
  <1> HIDE DEF i
  <1>1. CASE UNCHANGED <<pending, reply, queue>>
    <2>1. \A q \in Peers, j \in Ids : CallOK(q, j)' /\ Reclaimed(q, j)'
      BY <1>1, <1>d, CallKept DEF ReplyInv, CallsOK
    <2> QED BY <2>1 DEF CallsInv, CallsOK
  <1>2. CASE /\ f.kind \in ResultKinds /\ i \in pending[p] /\ UNCHANGED queue
             /\ pending' = [pending EXCEPT ![p] = @ \ {i}]
             /\ reply' = [reply EXCEPT ![p][i] = IF @ = "pending" THEN f.kind ELSE @]
    <2>1. /\ i \notin pending'[p]
          /\ reply'[p][i] = IF reply[p][i] = "pending" THEN f.kind ELSE reply[p][i]
          /\ \A q \in Peers, j \in Ids : q # p \/ j # i =>
                reply'[q][j] = reply[q][j] /\ (j \in pending'[q] => j \in pending[q])
      BY <1>0, <1>b, <1>2
    <2>2. f.kind \in answers[Other(p)][i] /\ mode[p][i] = "unary"
      BY <1>a, <1>2 DEF FrameOK, FinalKinds, i
    <2>3. f.kind # "protocol" /\ f.kind # "pending" BY <1>2 DEF ResultKinds
    <2>4. cpc[p][i] # "idle" BY <1>2, <1>c DEF CallOK
    <2>5. CallOK(p, i)' BY <1>2, <1>c, <1>d, <2>1, <2>2, <2>3, <2>4 DEF CallOK
    <2>6. Reclaimed(p, i)' BY <1>c, <1>d, <2>2 DEF Reclaimed
    <2> QED BY <1>0, <1>2, <1>d, <2>1, <2>5, <2>6, OneCall
  <1>3. CASE /\ f.kind \in EventKinds /\ i \in streams[p] /\ UNCHANGED <<pending, reply>>
             /\ queue' = [queue EXCEPT ![p][i] = Append(@, f)]
    <2>1. /\ queue'[p][i] = Append(queue[p][i], f)
          /\ \A q \in Peers, j \in Ids : q # p \/ j # i => queue'[q][j] = queue[q][j]
      BY <1>0, <1>b, <1>3
    <2>2. GoodItem(p, i, f)
      BY <1>a, <1>3 DEF GoodItem, FrameOK, i, EventKinds
    <2>3. f \in Item BY <1>0, <1>3 DEF Frame, Item
    <2>4. ASSUME NEW k \in DOMAIN queue'[p][i] PROVE GoodItem(p, i, queue'[p][i][k])
      <3>1. \/ k \in DOMAIN queue[p][i] /\ queue'[p][i][k] = queue[p][i][k]
            \/ queue'[p][i][k] = f
        BY <1>0, <1>b, <2>1, <2>3
      <3>2. k \in DOMAIN queue[p][i] => GoodItem(p, i, queue[p][i][k])
        BY <1>c DEF CallOK, GoodItem
      <3> QED BY <2>2, <3>1, <3>2
    <2>5. cpc[p][i] # "idle" BY <1>3, <1>c DEF CallOK
    <2>6. CallOK(p, i)' BY <1>3, <1>c, <1>d, <2>4, <2>5 DEF CallOK, GoodItem
    <2>7. Reclaimed(p, i)' BY <1>3, <1>c, <1>d DEF Reclaimed
    <2> QED BY <1>0, <1>3, <1>d, <2>1, <2>6, <2>7, OneCall
  <1>4. CASE f.kind \in ResultKinds /\ HandleResult(p, f)
    <2>1. CASE i \in pending[p] BY <1>2, <1>4, <2>1 DEF HandleResult, i
    <2>2. CASE i \notin pending[p]
      <3>1. i \notin streams[p] BY <1>a, <1>4, <1>c DEF FrameOK, CallOK, i
      <3> QED BY <1>1, <1>4, <2>2, <3>1 DEF HandleResult, i
    <2> QED BY <2>1, <2>2
  <1>5. CASE f.kind \in EventKinds /\ HandleEvent(p, f)
    <2>1. CASE i \in streams[p] BY <1>3, <1>5, <2>1 DEF HandleEvent, i
    <2>2. CASE i \notin streams[p]
      <3>1. i \notin pending[p] BY <1>a, <1>5, <1>c DEF FrameOK, CallOK, i
      <3> QED BY <1>1, <1>5, <2>2, <3>1 DEF HandleEvent, i
    <2> QED BY <2>1, <2>2
  <1> QED BY <1>4, <1>5

LEMMA ReceiveReply ==
  ASSUME ReplyInv, NEW p \in Peers, Receive(p)
  PROVE  ReplyInvOf'
  <1> DEFINE q == Other(p)
             f == Head(wire[q])
  <1>a. TypeOK /\ InvokeOnce /\ FramesOK /\ ReplyInv /\ q \in Peers /\ q # p /\ Other(q) = p
    BY PeersFact DEF ReplyInv, Peers, Other
  <1>0. /\ wire[q] # <<>> /\ wire' = [wire EXCEPT ![q] = Tail(@)] /\ UNCHANGED writing
    BY DEF Receive, Reading
  <1>1. /\ f \in InFlight(q) /\ InvokeOnce'
        /\ \A r \in Peers : InFlight(r)' \subseteq InFlight(r)
        /\ IsInvoke(f) => \A g \in InFlight(q)' : IsInvoke(g) => g.id # f.id
    BY <1>a, <1>0, ReadFlight
  <1>2. FrameOK(q, f) /\ f \in Frame /\ f.id \in Ids
    BY <1>a, <1>1, FlightType DEF FramesOK, Frame
  <1>3. CASE \/ f.kind \in ResultKinds /\ HandleResult(p, f)
             \/ f.kind \in EventKinds /\ HandleEvent(p, f)
    <2>1. CallsInv' BY <1>1, <1>3, ResultReply
    <2>2. UNCHANGED <<tpc, answers, ran, mode, cpc>>
      BY <1>3 DEF HandleResult, HandleEvent, taskVars
    <2>3. FramesOK' /\ TasksOK' BY <1>1, <2>2, Shrinks
    <2> QED BY <1>1, <2>1, <2>3 DEF ReplyInvOf
  <1>4. CASE f.kind = "cancel" /\ HandleCancel(p, f)
    <2>1. UNCHANGED callVars /\ UNCHANGED <<tpc, answers, ran>> BY <1>4 DEF HandleCancel
    <2>2. UNCHANGED <<tpc, answers, ran, mode, cpc>> BY <2>1 DEF callVars
    <2>3. CallsInv' BY <2>1, CallsStay
    <2>4. FramesOK' /\ TasksOK' BY <1>1, <2>2, Shrinks
    <2> QED BY <1>1, <2>3, <2>4 DEF ReplyInvOf
  <1>5. CASE IsInvoke(f) /\ HandleInvoke(p, f)
    <2>1. /\ tpc' = [tpc EXCEPT ![p][f.id] = "created"] /\ UNCHANGED callVars
          /\ UNCHANGED <<answers, ran>>
      BY <1>5 DEF HandleInvoke
    <2>2. UNCHANGED <<mode, cpc>> BY <2>1 DEF callVars
    <2>3. tpc[p][f.id] = "none" /\ cpc[q][f.id] # "idle" BY <1>a, <1>2, <1>5 DEF FrameOK
    <2>4. /\ tpc'[p][f.id] = "created"
          /\ \A r \in Peers, j \in Ids : r # p \/ j # f.id => tpc'[r][j] = tpc[r][j]
      BY <1>a, <1>2, <2>1 DEF TypeOK, TaskTypeOK
    <2>5. Steady
      <3>1. ASSUME NEW r \in Peers, NEW j \in Ids, tpc[r][j] \notin {"none", "created"}
            PROVE  tpc'[r][j] \notin {"none", "created"}
        <4>1. r # p \/ j # f.id BY <2>3, <3>1
        <4> QED BY <2>4, <3>1, <4>1
      <3> QED BY <2>1, <2>2, <3>1 DEF Steady
    <2>6. CallsInv' BY <2>1, CallsStay
    <2>7. ASSUME NEW r \in Peers, NEW j \in Ids PROVE TaskOK(r, j)'
      <3>1. TaskOK(r, j) BY DEF ReplyInv, TasksOK
      <3>2. CASE r = p /\ j = f.id
        <4>1. tpc[r][j] = "none" /\ cpc[Other(r)][j] # "idle" /\ tpc'[r][j] = "created"
          BY <2>3, <2>4, <3>2
        <4>2. UNCHANGED <<mode, cpc, answers, ran>> BY <2>1, <2>2
        <4> QED BY <3>1, <4>1, <4>2 DEF TaskOK
      <3>3. CASE r # p \/ j # f.id
        <4>1. tpc'[r][j] = tpc[r][j] BY <2>4, <3>3
        <4> QED BY <2>1, <2>5, <3>1, <4>1, TaskKept
      <3> QED BY <3>2, <3>3
    <2>8. ASSUME NEW r \in Peers, NEW g \in InFlight(r)' PROVE FrameOK(r, g)'
      <3>1. g \in InFlight(r) BY <1>1
      <3>2. FrameOK(r, g) /\ g.id \in Ids BY <1>a, <3>1, FlightType DEF FramesOK, Frame
      <3>3. ASSUME IsInvoke(g) PROVE tpc'[Other(r)][g.id] = "none"
        <4>1. tpc[Other(r)][g.id] = "none" /\ Other(r) \in Peers
          BY <3>2, <3>3, PeersFact DEF FrameOK
        <4>2. Other(r) # p \/ g.id # f.id
          <5>1. CASE r = q BY <1>1, <1>5, <2>8, <3>3, <5>1
          <5>2. CASE r # q BY <5>2 DEF Peers, Other
          <5> QED BY <5>1, <5>2
        <4> QED BY <2>4, <3>2, <4>1, <4>2
      <3> QED BY <2>5, <3>1, <3>3, OldFrame
    <2> QED BY <1>1, <2>6, <2>7, <2>8 DEF ReplyInvOf, TasksOK, FramesOK
  <1>6. f.kind \in {"invoke", "invoke_stream"} => IsInvoke(f) BY DEF IsInvoke
  <1> QED BY <1>3, <1>4, <1>5, <1>6 DEF Receive

-----------------------------------------------------------------------------
(* The inbound task's steps. *)

\* An answer of the mode of its call, given by a task that has entered its
\* handler if it says so.
LEMMA AnswerReply ==
  ASSUME ReplyInv, NEW p \in Peers, NEW i \in Ids, NEW k \in FinalKinds \cup {"started"},
         Answer(p, i, k), UNCHANGED ran, UNCHANGED callVars, tpc[p][i] # "none",
         k \in ResultKinds => mode[Other(p)][i] = "unary",
         k \in EventKinds => mode[Other(p)][i] = "stream",
         k \in {"started", "ok", "completed"} => ran[p][i] = 1,
         Sends(p, {Msg(k, i)})
  PROVE  FramesOK' /\ TasksOK' /\ CallsInv'
  <1>a. TypeOK /\ TaskOK(p, i) BY DEF ReplyInv, TasksOK
  <1>b. UNCHANGED <<mode, cpc>> BY DEF callVars
  <1>1. /\ tpc'[p][i] = IF k = "started" THEN "streaming"
                        ELSE IF k \in {"ok", "completed"} THEN "replying" ELSE "failing"
        /\ answers'[p][i] = IF k = "started" THEN answers[p][i] ELSE answers[p][i] \cup {k}
        /\ \A q \in Peers, j \in Ids : q # p \/ j # i =>
              tpc'[q][j] = tpc[q][j] /\ answers'[q][j] = answers[q][j] /\ ran'[q][j] = ran[q][j]
    BY <1>a DEF Answer, TypeOK, TaskTypeOK
  <1>2. TaskOK(p, i)'
    BY <1>a, <1>b, <1>1 DEF TaskOK, EventKinds
  <1>3. \A f \in {Msg(k, i)} : FrameOK(p, f)'
    <2>1. FrameOK(p, Msg(k, i))'
      BY <1>b, <1>1, PeersFact
      DEF FrameOK, Msg, IsInvoke, FinalKinds, ResultKinds, EventKinds
    <2> QED BY <2>1
  <1>4. /\ answers[p][i] \subseteq answers'[p][i]
        /\ tpc[p][i] \notin {"none", "created"} => tpc'[p][i] \notin {"none", "created"}
    BY <1>1
  <1> QED BY <1>1, <1>2, <1>3, <1>4, TaskSide DEF CallsInv

\* A step of the task that sends nothing.
LEMMA SilentReply ==
  ASSUME ReplyInv, NEW p \in Peers, NEW i \in Ids, UNCHANGED callVars, UNCHANGED answers,
         Sends(p, {}), InvokeOnce', tpc[p][i] # "none", TaskOK(p, i)',
         tpc[p][i] \notin {"none", "created"} => tpc'[p][i] \notin {"none", "created"},
         \A q \in Peers, j \in Ids : q # p \/ j # i =>
            tpc'[q][j] = tpc[q][j] /\ ran'[q][j] = ran[q][j]
  PROVE  ReplyInvOf'
  <1>1. \A f \in {} : FrameOK(p, f)' OBVIOUS
  <1>2. answers[p][i] \subseteq answers'[p][i]
        /\ \A q \in Peers, j \in Ids : answers'[q][j] = answers[q][j] OBVIOUS
  <1>3. \A q \in Peers, j \in Ids : q # p \/ j # i =>
            tpc'[q][j] = tpc[q][j] /\ answers'[q][j] = answers[q][j] /\ ran'[q][j] = ran[q][j]
    BY <1>2
  <1>4. FramesOK' /\ TasksOK' /\ CallsOK' /\ \A q \in Peers, j \in Ids : Reclaimed(q, j)'
    BY <1>1, <1>2, <1>3, TaskSide
  <1> QED BY <1>4 DEF ReplyInvOf, CallsInv

LEMMA ErrorKindFact ==
  ASSUME TypeOK, NEW p \in Peers, NEW i \in Ids, NEW k \in {"error", "cancelled"}
  PROVE  /\ ErrorKind(p, i, k) \in FinalKinds /\ ErrorKind(p, i, k) \notin {"ok", "completed", "started"}
         /\ ErrorKind(p, i, k) \in ResultKinds => mode[Other(p)][i] = "unary"
         /\ ErrorKind(p, i, k) \in EventKinds => mode[Other(p)][i] = "stream"
  <1>1. mode[Other(p)][i] \in {"unary", "stream"} BY PeersFact DEF TypeOK, CallTypeOK
  <1> QED BY <1>1 DEF ErrorKind, FinalKinds, ResultKinds, EventKinds

LEMMA AnswerFrame ==
  ASSUME NEW i \in Ids, NEW k \in FinalKinds \cup {"started"}
  PROVE  Msg(k, i) \in Frame /\ ~IsInvoke(Msg(k, i))
  <1>1. Msg(k, i) \in Frame
    BY FrameFact DEF Kinds, FinalKinds, EventKinds
  <1> QED BY <1>1 DEF Msg, IsInvoke, FinalKinds, ResultKinds

\* An answer that is posted.
LEMMA PostedReply ==
  ASSUME ReplyInv, NEW p \in Peers, NEW i \in Ids, NEW k \in FinalKinds \cup {"started"},
         Answer(p, i, k), Post(p, Msg(k, i)), UNCHANGED ran, UNCHANGED callVars,
         tpc[p][i] # "none",
         k \in ResultKinds => mode[Other(p)][i] = "unary",
         k \in EventKinds => mode[Other(p)][i] = "stream",
         k \in {"started", "ok", "completed"} => ran[p][i] = 1
  PROVE  ReplyInvOf'
  <1>a. TypeOK /\ InvokeOnce BY DEF ReplyInv
  <1>1. Msg(k, i) \in Frame /\ ~IsInvoke(Msg(k, i)) BY AnswerFrame
  <1>2. Sends(p, {Msg(k, i)}) /\ InvokeOnce' BY <1>a, <1>1, PostSends, PostOnce
  <1>3. FramesOK' /\ TasksOK' /\ CallsInv' BY <1>2, AnswerReply
  <1> QED BY <1>2, <1>3 DEF ReplyInvOf

\* The cancelled answer replaces what the threads still hold of the task's frames.
LEMMA InterruptFlight ==
  ASSUME TypeOK, InvokeOnce, NEW p \in Peers, NEW w, NEW f \in Frame, ~IsInvoke(f),
         writing' = [writing EXCEPT ![p] =
            IF down \/ p \notin ThreadWriters THEN writing[p] \ w ELSE (writing[p] \ w) \cup {f}],
         wire' = IF down \/ p \in ThreadWriters THEN wire ELSE [wire EXCEPT ![p] = Append(@, f)]
  PROVE  Sends(p, {f}) /\ InvokeOnce'
  <1>0. wire \in [Peers -> Seq(Frame)] /\ writing \in [Peers -> SUBSET Frame]
    BY DEF TypeOK, NetTypeOK
  <1>1. /\ writing'[p] \subseteq writing[p] \cup {f}
        /\ \A q \in Peers : q # p => writing'[q] = writing[q] /\ wire'[q] = wire[q]
    BY <1>0
  <1>2. /\ DOMAIN Append(wire[p], f) = DOMAIN wire[p] \cup {Len(wire[p]) + 1}
        /\ \A k \in DOMAIN wire[p] : Append(wire[p], f)[k] = wire[p][k]
        /\ Append(wire[p], f)[Len(wire[p]) + 1] = f
    BY <1>0, AppendFlight
  <1>3. wire'[p] = wire[p] \/ wire'[p] = Append(wire[p], f) BY <1>0
  <1>4. \A k \in DOMAIN wire'[p] :
          \/ k \in DOMAIN wire[p] /\ wire'[p][k] = wire[p][k]
          \/ wire'[p][k] = f
    BY <1>2, <1>3
  <1>5. Sends(p, {f})
    <2>1. InFlight(p)' \subseteq InFlight(p) \cup {f} BY <1>1, <1>4 DEF InFlight
    <2>2. \A q \in Peers : q # p => InFlight(q)' = InFlight(q) BY <1>1 DEF InFlight
    <2> QED BY <2>1, <2>2 DEF Sends
  <1>6. InvokeOnce'
    <2>1. ASSUME NEW j \in DOMAIN wire'[p], NEW k \in DOMAIN wire'[p],
                 IsInvoke(wire'[p][j]), IsInvoke(wire'[p][k]), wire'[p][j].id = wire'[p][k].id
          PROVE  j = k
      <3>1. /\ j \in DOMAIN wire[p] /\ wire'[p][j] = wire[p][j]
            /\ k \in DOMAIN wire[p] /\ wire'[p][k] = wire[p][k]
        BY <1>4, <2>1
      <3> QED BY <2>1, <3>1 DEF InvokeOnce
    <2>2. ASSUME NEW g \in writing'[p], NEW k \in DOMAIN wire'[p], IsInvoke(g), IsInvoke(wire'[p][k])
          PROVE  g.id # wire'[p][k].id
      <3>1. /\ k \in DOMAIN wire[p] /\ wire'[p][k] = wire[p][k] BY <1>4, <2>2
      <3>2. g \in writing[p] BY <1>1, <2>2
      <3> QED BY <2>2, <3>1, <3>2 DEF InvokeOnce
    <2> QED BY <1>1, <2>1, <2>2 DEF InvokeOnce
  <1> QED BY <1>5, <1>6

LEMMA InterruptReply ==
  ASSUME ReplyInv, NEW p \in Peers, NEW i \in Ids, Interrupt(p, i)
  PROVE  ReplyInvOf'
  <1>a. TypeOK /\ InvokeOnce /\ TaskOK(p, i) BY DEF ReplyInv, TasksOK
  <1>b. PICK k : k = ErrorKind(p, i, "cancelled") OBVIOUS
  <1>1. PICK w \in SUBSET writing[p] :
          IF tpc[p][i] = "failing"
          THEN /\ tpc' = [tpc EXCEPT ![p][i] = "ended"]
               /\ writing' = [writing EXCEPT ![p] = writing[p] \ w]
               /\ UNCHANGED <<answers, wire>>
          ELSE /\ Answer(p, i, k)
               /\ writing' = [writing EXCEPT ![p] =
                    IF down \/ p \notin ThreadWriters THEN writing[p] \ w
                    ELSE (writing[p] \ w) \cup {Msg(k, i)}]
               /\ wire' = IF down \/ p \in ThreadWriters THEN wire
                          ELSE [wire EXCEPT ![p] = Append(@, Msg(k, i))]
    BY <1>b DEF Interrupt
  <1>2. UNCHANGED callVars /\ UNCHANGED ran /\ tpc[p][i] \in Live \ {"created"} BY DEF Interrupt
  <1>3. tpc[p][i] # "none" BY <1>2 DEF Live
  <1>4. CASE tpc[p][i] = "failing"
    <2>1. /\ tpc'[p][i] = "ended"
          /\ \A q \in Peers, j \in Ids : q # p \/ j # i =>
                tpc'[q][j] = tpc[q][j] /\ ran'[q][j] = ran[q][j]
      BY <1>a, <1>1, <1>2, <1>4 DEF TypeOK, TaskTypeOK
    <2>2. /\ wire' = wire
          /\ \A q \in Peers : writing'[q] \subseteq writing[q]
      BY <1>a, <1>1, <1>4 DEF TypeOK, NetTypeOK
    <2>3. Sends(p, {}) /\ InvokeOnce' BY <1>a, <2>2 DEF Sends, InFlight, InvokeOnce
    <2>4. UNCHANGED answers /\ UNCHANGED <<mode, cpc>> BY <1>1, <1>2, <1>4 DEF callVars
    <2>5. TaskOK(p, i)' BY <1>a, <1>2, <1>4, <2>1, <2>4 DEF TaskOK
    <2> QED BY <1>2, <1>3, <2>1, <2>3, <2>4, <2>5, SilentReply
  <1>5. CASE tpc[p][i] # "failing"
    <2>1. /\ k \in FinalKinds /\ k \notin {"ok", "completed", "started"}
          /\ k \in ResultKinds => mode[Other(p)][i] = "unary"
          /\ k \in EventKinds => mode[Other(p)][i] = "stream"
      BY <1>a, <1>b, ErrorKindFact
    <2>2. Msg(k, i) \in Frame /\ ~IsInvoke(Msg(k, i)) BY <2>1, AnswerFrame
    <2>3. Sends(p, {Msg(k, i)}) /\ InvokeOnce'
      BY <1>a, <1>1, <1>5, <2>2, InterruptFlight
    <2>4. FramesOK' /\ TasksOK' /\ CallsInv'
      BY <1>1, <1>2, <1>3, <1>5, <2>1, <2>3, AnswerReply
    <2> QED BY <2>3, <2>4 DEF ReplyInvOf
  <1> QED BY <1>4, <1>5

LEMMA StartReply ==
  ASSUME ReplyInv, NEW p \in Peers, NEW i \in Ids, Start(p, i)
  PROVE  ReplyInvOf'
  <1>a. TypeOK /\ InvokeOnce /\ TaskOK(p, i) BY DEF ReplyInv, TasksOK
  <1>b. UNCHANGED callVars /\ tpc[p][i] = "created" BY DEF Start
  <1>c. UNCHANGED <<mode, cpc>> BY <1>b DEF callVars
  <1>1. CASE mustCancel[p][i]
    <2>1. tpc' = [tpc EXCEPT ![p][i] = "ended"] /\ UNCHANGED <<answers, ran, wire, writing>>
      BY <1>1 DEF Start
    <2>2. /\ tpc'[p][i] = "ended"
          /\ \A q \in Peers, j \in Ids : q # p \/ j # i =>
                tpc'[q][j] = tpc[q][j] /\ ran'[q][j] = ran[q][j]
      BY <1>a, <2>1 DEF TypeOK, TaskTypeOK
    <2>3. Sends(p, {}) /\ InvokeOnce' BY <1>a, <2>1, NoSends
    <2>4. TaskOK(p, i)' BY <1>a, <1>b, <1>c, <2>1, <2>2 DEF TaskOK
    <2> QED BY <1>b, <2>1, <2>2, <2>3, <2>4, SilentReply
  <1>2. CASE ~mustCancel[p][i] /\ token[p][i]
    <2>1. PICK k : k = ErrorKind(p, i, "cancelled") OBVIOUS
    <2>2. Answer(p, i, k) /\ Post(p, Msg(k, i)) /\ UNCHANGED ran BY <1>2, <2>1 DEF Start
    <2>3. /\ k \in FinalKinds /\ k \notin {"ok", "completed", "started"}
          /\ k \in ResultKinds => mode[Other(p)][i] = "unary"
          /\ k \in EventKinds => mode[Other(p)][i] = "stream"
      BY <1>a, <2>1, ErrorKindFact
    <2> QED BY <1>b, <2>2, <2>3, PostedReply
  <1>3. CASE ~mustCancel[p][i] /\ ~token[p][i]
    <2>1. /\ tpc' = [tpc EXCEPT ![p][i] = "running"] /\ ran' = [ran EXCEPT ![p][i] = @ + 1]
          /\ UNCHANGED <<answers, wire, writing>>
      BY <1>3 DEF Start
    <2>2. /\ tpc'[p][i] = "running" /\ ran'[p][i] = ran[p][i] + 1
          /\ \A q \in Peers, j \in Ids : q # p \/ j # i =>
                tpc'[q][j] = tpc[q][j] /\ ran'[q][j] = ran[q][j]
      BY <1>a, <2>1 DEF TypeOK, TaskTypeOK
    <2>3. Sends(p, {}) /\ InvokeOnce' BY <1>a, <2>1, NoSends
    <2>4. TaskOK(p, i)' BY <1>a, <1>b, <1>c, <2>1, <2>2 DEF TaskOK
    <2> QED BY <1>b, <2>1, <2>2, <2>3, <2>4, SilentReply
  <1> QED BY <1>1, <1>2, <1>3

LEMMA WorkReply ==
  ASSUME ReplyInv, NEW p \in Peers, NEW i \in Ids, HandlerReturns(p, i) \/ StreamEnds(p, i)
  PROVE  ReplyInvOf'
  <1>a. TypeOK /\ TaskOK(p, i) BY DEF ReplyInv, TasksOK
  <1>0. mode[Other(p)][i] \in {"unary", "stream"} BY <1>a, PeersFact DEF TypeOK, CallTypeOK
  <1>1. UNCHANGED callVars /\ UNCHANGED ran /\ tpc[p][i] \in {"running", "streaming"}
    BY DEF HandlerReturns, StreamEnds
  <1>2. CASE HandlerReturns(p, i)
    <2>1. PICK raises \in BOOLEAN :
            LET k == IF raises THEN ErrorKind(p, i, "error")
                     ELSE IF mode[Other(p)][i] = "stream" THEN "started" ELSE "ok" IN
            Answer(p, i, k) /\ Post(p, Msg(k, i))
      BY <1>2 DEF HandlerReturns
    <2>2. PICK k : k = IF raises THEN ErrorKind(p, i, "error")
                       ELSE IF mode[Other(p)][i] = "stream" THEN "started" ELSE "ok"
      OBVIOUS
    <2>3. Answer(p, i, k) /\ Post(p, Msg(k, i)) BY <2>1, <2>2
    <2>4. /\ k \in FinalKinds \cup {"started"}
          /\ k \in ResultKinds => mode[Other(p)][i] = "unary"
          /\ k \in EventKinds => mode[Other(p)][i] = "stream"
      <3>1. CASE raises BY <1>a, <2>2, <3>1, ErrorKindFact
      <3>2. CASE ~raises
        BY <1>0, <2>2, <3>2 DEF FinalKinds, ResultKinds, EventKinds
      <3> QED BY <3>1, <3>2
    <2>5. ran[p][i] = 1 BY <1>a, <1>1 DEF TaskOK
    <2> QED BY <1>1, <2>3, <2>4, <2>5, PostedReply
  <1>3. CASE StreamEnds(p, i)
    <2>1. PICK k \in {"completed", "failed"} : Answer(p, i, k) /\ Post(p, Msg(k, i))
      BY <1>3 DEF StreamEnds
    <2>2. tpc[p][i] = "streaming" BY <1>3 DEF StreamEnds
    <2>3. mode[Other(p)][i] = "stream" /\ ran[p][i] = 1 BY <1>a, <2>2 DEF TaskOK
    <2>4. k \in FinalKinds \cup {"started"} /\ k \notin ResultKinds BY DEF FinalKinds, ResultKinds
    <2> QED BY <1>1, <2>1, <2>3, <2>4, PostedReply
  <1> QED BY <1>2, <1>3

LEMMA TaskReply ==
  ASSUME ReplyInv, NEW p \in Peers, NEW i \in Ids,
         TaskDone(p, i) \/ TaskSendRaises(p, i) \/ Suppress(p, i)
  PROVE  ReplyInvOf'
  <1>a. TypeOK /\ InvokeOnce /\ TaskOK(p, i) BY DEF ReplyInv, TasksOK
  <1>1. /\ UNCHANGED callVars /\ UNCHANGED <<answers, ran, wire, writing>>
        /\ tpc[p][i] \notin {"none", "created"}
        /\ \/ UNCHANGED tpc
           \/ \E s \in {"ended", "crashed", "failing"} : tpc' = [tpc EXCEPT ![p][i] = s]
    BY DEF TaskDone, TaskSendRaises, Suppress, netVars
  <1>2. UNCHANGED <<mode, cpc>> BY <1>1 DEF callVars
  <1>3. /\ tpc'[p][i] = tpc[p][i] \/ tpc'[p][i] \in {"ended", "crashed", "failing"}
        /\ \A q \in Peers, j \in Ids : q # p \/ j # i =>
              tpc'[q][j] = tpc[q][j] /\ ran'[q][j] = ran[q][j]
    BY <1>a, <1>1 DEF TypeOK, TaskTypeOK
  <1>4. TaskOK(p, i)' BY <1>a, <1>1, <1>2, <1>3 DEF TaskOK
  <1>5. Sends(p, {}) /\ InvokeOnce' BY <1>a, <1>1, NoSends
  <1> QED BY <1>1, <1>3, <1>4, <1>5, SilentReply

LEMMA ChunkReply ==
  ASSUME ReplyInv, NEW p \in Peers, NEW i \in Ids, NextChunk(p, i)
  PROVE  ReplyInvOf'
  <1>a. TypeOK /\ InvokeOnce /\ TaskOK(p, i) BY DEF ReplyInv, TasksOK
  <1>b. PICK f : f = [kind |-> "delta", id |-> i, n |-> sent[p][i] + 1] OBVIOUS
  <1>1. /\ UNCHANGED callVars /\ UNCHANGED <<tpc, answers, ran>> /\ Post(p, f)
        /\ tpc[p][i] = "streaming" /\ sent[p][i] < Chunks
    BY <1>b DEF NextChunk
  <1>2. UNCHANGED <<mode, cpc>> BY <1>1 DEF callVars
  <1>3. sent[p][i] + 1 \in 0 .. Chunks
    BY <1>a, <1>1, PeerAssumption DEF TypeOK, TaskTypeOK, PeerAssumption
  <1>4. f \in Frame BY <1>b, <1>3 DEF Frame, Kinds, EventKinds
  <1>5. ~IsInvoke(f) BY <1>b DEF IsInvoke
  <1>6. Sends(p, {f}) /\ InvokeOnce' BY <1>a, <1>1, <1>4, <1>5, PostSends, PostOnce
  <1>7. FrameOK(p, f)'
    BY <1>a, <1>b, <1>1, <1>2 DEF FrameOK, TaskOK, IsInvoke, ResultKinds, EventKinds, FinalKinds
  <1>8. TaskOK(p, i)' BY <1>a, <1>1, <1>2 DEF TaskOK
  <1>9. FramesOK' /\ TasksOK' /\ CallsOK' /\ \A q \in Peers, j \in Ids : Reclaimed(q, j)'
    <2>1. \A g \in {f} : FrameOK(p, g)' BY <1>7
    <2>2. \A q \in Peers, j \in Ids :
            tpc'[q][j] = tpc[q][j] /\ answers'[q][j] = answers[q][j] /\ ran'[q][j] = ran[q][j]
      BY <1>1
    <2> QED BY <1>1, <1>6, <1>8, <2>1, <2>2, TaskSide
  <1> QED BY <1>6, <1>9 DEF ReplyInvOf, CallsInv

-----------------------------------------------------------------------------
(* Replies match. *)

LEMMA ReplyInit == Init => ReplyInv
  <1> SUFFICES ASSUME Init PROVE ReplyInv OBVIOUS
  <1>1. TypeOK BY InitType
  <1>2. \A p \in Peers : InFlight(p) = {} BY DEF Init, InFlight, All
  <1>3. FramesOK BY <1>2 DEF FramesOK
  <1>4. InvokeOnce BY DEF Init, InvokeOnce, All
  <1>5. TasksOK BY PeersFact DEF Init, TasksOK, TaskOK, Per
  <1>6. CallsOK
    BY PeersFact, IdsFact DEF Init, CallsOK, CallOK, Per, All, FinalKinds, ResultKinds
  <1>7. \A p \in Peers, i \in Ids : Reclaimed(p, i) BY DEF Init, Reclaimed, Per
  <1> QED BY <1>1, <1>3, <1>4, <1>5, <1>6, <1>7 DEF ReplyInv

LEMMA ReplyNext == ReplyInv /\ [Next]_vars => ReplyInv'
  <1> SUFFICES ASSUME ReplyInv, [Next]_vars PROVE ReplyInv' OBVIOUS
  <1>0. TypeOK' BY NextType DEF ReplyInv
  <1>1. CASE UNCHANGED vars
    <2>1. /\ UNCHANGED <<wire, writing, callVars, answers>>
          /\ UNCHANGED <<tpc, answers, ran, mode, cpc>>
      BY <1>1 DEF vars, callVars, taskVars, netVars
    <2>2. PICK p \in Peers : TRUE BY DEF Peers
    <2>3. InvokeOnce' /\ \A q \in Peers : InFlight(q)' = InFlight(q)
      BY <2>1, NoSends DEF ReplyInv
    <2>4. FramesOK' /\ TasksOK' BY <2>1, <2>3, Shrinks
    <2>5. CallsInv' BY <2>1, CallsStay
    <2> QED BY <1>0, <2>3, <2>4, <2>5 DEF ReplyInv, CallsInv
  <1>2. CASE Next
    <2> SUFFICES ReplyInvOf' BY <1>0 DEF ReplyInv, ReplyInvOf, CallsInv
    <2>1. CASE LoseLink
      <3>1. PICK p \in Peers : TRUE BY DEF Peers
      <3> QED BY <2>1, <3>1, ConnectionReply
    <2>2. ASSUME NEW p \in Peers,
                 \/ \E m \in {"unary", "stream"} : Invoke(p, m)
                 \/ PeerStep(p) \/ Stop(p) \/ Refuse(p)
          PROVE  ReplyInvOf'
      <3>1. CASE \E m \in {"unary", "stream"} : Invoke(p, m) BY <3>1, InvokeReply
      <3>2. CASE Receive(p) BY <3>2, ReceiveReply
      <3>3. CASE \/ Fail(p) \/ Stop(p) \/ Refuse(p) \/ StopDone(p) \/ Eof(p)
                 \/ WriteFrame(p) \/ CancelTask(p)
        BY <3>3, ConnectionReply
      <3> QED BY <2>2, <3>1, <3>2, <3>3 DEF PeerStep
    <2>3. ASSUME NEW p \in Peers, NEW i \in Ids,
                 \/ CallerStep(p, i) \/ WorkStep(p, i) \/ TaskStep(p, i)
                 \/ NextChunk(p, i) \/ Suppress(p, i)
                 \/ Abandon(p, i) \/ CloseEarly(p, i) \/ Cancel(p, i)
          PROVE  ReplyInvOf'
      <3>1. CASE CallerStep(p, i) \/ Abandon(p, i) \/ CloseEarly(p, i) \/ Cancel(p, i)
        BY <3>1, CallerReply, ConsumerReply DEF CallerStep
      <3>2. CASE Start(p, i) \/ Interrupt(p, i) BY <3>2, StartReply, InterruptReply
      <3>3. CASE TaskDone(p, i) \/ TaskSendRaises(p, i) \/ Suppress(p, i) BY <3>3, TaskReply
      <3>4. CASE WorkStep(p, i) \/ NextChunk(p, i) BY <3>4, WorkReply, ChunkReply DEF WorkStep
      <3> QED BY <2>3, <3>1, <3>2, <3>3, <3>4 DEF TaskStep
    <2> QED BY <1>2, <2>1, <2>2, <2>3 DEF Next
  <1> QED BY <1>1, <1>2

LEMMA ReplyCorrect == Spec => []ReplyInv
  BY ReplyInit, ReplyNext, PTL DEF Spec

LEMMA SuccessRan ==
  ASSUME ReplyInv, NEW p \in Peers, NEW i \in Ids
  PROVE  /\ reply[p][i] # "protocol"
         /\ reply[p][i] \in FinalKinds => reply[p][i] \in answers[Other(p)][i]
         /\ reply[p][i] \in {"ok", "completed"} => ran[Other(p)][i] = 1
  <1>1. CallOK(p, i) /\ TaskOK(Other(p), i) BY PeersFact DEF ReplyInv, CallsOK, TasksOK
  <1> QED BY <1>1 DEF CallOK, TaskOK, FinalKinds, ResultKinds

(* Replies are matched by request id across two overlapping id spaces, for  *)
(* every number of calls and every interleaving of their frames: an answer  *)
(* is one the call's own inbound task gave, and a successful one follows    *)
(* exactly one entry of the handler.                                        *)
THEOREM AnswersMatch == Spec => []RepliesMatch
  <1>1. ReplyInv => RepliesMatch
    BY SuccessRan DEF RepliesMatch, FinalKinds
  <1> QED BY <1>1, ReplyCorrect, PTL

(* A stream whose consumer has gone keeps its entry only if its iterator    *)
(* was never started, and a consumer that left early has asked the other    *)
(* side to stop.                                                            *)
THEOREM EntriesReclaimed == Spec => []StreamsReclaimed
  <1>1. ReplyInv => StreamsReclaimed
    BY DEF ReplyInv, Reclaimed, StreamsReclaimed
  <1> QED BY <1>1, ReplyCorrect, PTL

-----------------------------------------------------------------------------
(* On a live connection nobody ends silently. *)

Up == ~down /\ \A p \in Peers : phase[p] = "open" /\ ~unusable[p]

Cancels(f, i) == f.kind = "cancel" /\ f.id = i

\* Past the try block the task has answered, and the answer has not been read
\* while its caller waits.
Answered(p, i) ==
    tpc[Other(p)][i] \in {"replying", "failing", "ended"} /\ Blocked(p, i)
      => \E f \in InFlight(Other(p)) : Answering(f, i)

(* Nothing has told the task of a call nobody cancelled to stop.            *)
Unharmed(p, i) == LET q == Other(p) IN
    /\ ~mustCancel[q][i] /\ ~token[q][i] /\ cancelling[q] # i
    /\ tpc[q][i] # "crashed"
    /\ \A f \in InFlight(p) : ~Cancels(f, i)

Quiet(p, i) == asked[p][i] = 0 => Unharmed(p, i) /\ Answered(p, i)
AllQuiet    == \A p \in Peers, i \in Ids : Quiet(p, i)
QuietInv    == Up => AllQuiet
QuietBase   == ReplyInv /\ CallerInv /\ QuietInv

\* A failed or stopping end, or a dead link, stays so.
LEMMA UpBack == [Next]_vars /\ TypeOK /\ Up' => Up
  <1> SUFFICES ASSUME [Next]_vars, TypeOK, Up' PROVE Up OBVIOUS
  <1>a. /\ phase \in [Peers -> {"open", "stopping", "closed"}]
        /\ unusable \in [Peers -> BOOLEAN] /\ down \in BOOLEAN
    BY DEF TypeOK, NetTypeOK
  <1>b. \A p \in Peers : phase'[p] = "open" /\ ~unusable'[p] BY DEF Up
  <1>c. ~(down') BY DEF Up
  <1>1. CASE UNCHANGED <<down, phase, unusable>> BY <1>1, <1>b, <1>c DEF Up
  <1>2. CASE LoseLink BY <1>2, <1>c DEF LoseLink
  <1>3. ASSUME NEW p \in Peers, Fail(p) \/ Refuse(p) PROVE Up
    <2>1. UNCHANGED <<down, phase>> /\ FailConnection(p) BY <1>3 DEF Fail, Refuse, netVars
    <2>2. CASE unusable[p]
      <3>1. UNCHANGED unusable BY <2>1, <2>2 DEF FailConnection
      <3> QED BY <1>1, <2>1, <3>1
    <2>3. CASE ~unusable[p]
      <3>1. unusable' = [unusable EXCEPT ![p] = TRUE] BY <2>1, <2>3 DEF FailConnection
      <3> QED BY <1>a, <1>b, <3>1
    <2> QED BY <2>2, <2>3
  <1>4. ASSUME NEW p \in Peers, Stop(p) \/ StopDone(p) PROVE Up
    BY <1>a, <1>b, <1>c, <1>4 DEF Stop, StopDone
  <1>5. ASSUME NEW p \in Peers,
               \/ \E m \in {"unary", "stream"} : Invoke(p, m)
               \/ WriteFrame(p) \/ Receive(p) \/ CancelTask(p) \/ Eof(p)
        PROVE  Up
    BY <1>1, <1>5 DEF Invoke, WriteFrame, Receive, CancelTask, Eof, connVars
  <1>6. ASSUME NEW p \in Peers, NEW i \in Ids,
               \/ CallerStep(p, i) \/ Abandon(p, i) \/ CloseEarly(p, i) \/ Cancel(p, i)
        PROVE  Up
    BY <1>1, <1>6 DEF CallerStep, SendDone, SendRaises, Return, Iterate, NextItem, Abandon,
                      CloseEarly, Cancel, connVars, netVars
  <1>7. ASSUME NEW p \in Peers, NEW i \in Ids,
               \/ WorkStep(p, i) \/ TaskStep(p, i) \/ NextChunk(p, i) \/ Suppress(p, i)
        PROVE  Up
    BY <1>1, <1>7 DEF WorkStep, TaskStep, HandlerReturns, StreamEnds, Start, TaskDone,
                      TaskSendRaises, Interrupt, NextChunk, Suppress, connVars, netVars
  <1>8. CASE UNCHANGED vars BY <1>1, <1>8 DEF vars, netVars, connVars
  <1> QED BY <1>2, <1>3, <1>4, <1>5, <1>6, <1>7, <1>8 DEF Next, PeerStep

\* A step that sends no cancel except for a call it has counted.
NoStrayCancel == \A p \in Peers : \A f \in InFlight(p)' :
    f \in InFlight(p) \/ f.kind # "cancel" \/ asked'[p][f.id] # 0

\* A call whose task, and whose answer in flight, a step leaves alone.
LEMMA QuietKept ==
  ASSUME NEW p \in Peers, NEW i \in Ids, Quiet(p, i), NoStrayCancel,
         asked'[p][i] = 0 => asked[p][i] = 0,
         tpc'[Other(p)][i] = tpc[Other(p)][i],
         mustCancel'[Other(p)][i] => mustCancel[Other(p)][i],
         token'[Other(p)][i] => token[Other(p)][i],
         cancelling'[Other(p)] = i => cancelling[Other(p)] = i,
         tpc[Other(p)][i] \in {"replying", "failing", "ended"} /\ Blocked(p, i)' =>
            /\ Blocked(p, i)
            /\ \A f \in InFlight(Other(p)) : Answering(f, i) => f \in InFlight(Other(p))'
  PROVE  Quiet(p, i)'
  <1> SUFFICES ASSUME asked'[p][i] = 0 PROVE Unharmed(p, i)' /\ Answered(p, i)' BY DEF Quiet
  <1>1. Unharmed(p, i) /\ Answered(p, i) BY DEF Quiet
  <1>2. \A f \in InFlight(p)' : ~Cancels(f, i)
    BY <1>1 DEF NoStrayCancel, Unharmed, Cancels
  <1>3. Unharmed(p, i)' BY <1>1, <1>2 DEF Unharmed, Cancels
  <1>4. ASSUME tpc'[Other(p)][i] \in {"replying", "failing", "ended"}, Blocked(p, i)'
        PROVE  \E f \in InFlight(Other(p))' : Answering(f, i)
    BY <1>1, <1>4 DEF Answered
  <1>5. Answered(p, i)' BY <1>4 DEF Answered, Answering
  <1> QED BY <1>3, <1>5

\* A step of a caller.
LEMMA CallerQuiet ==
  ASSUME AllQuiet, UNCHANGED <<tpc, mustCancel, token, cancelling>>, NoStrayCancel,
         \A p \in Peers, i \in Ids : asked'[p][i] = 0 => asked[p][i] = 0,
         \A p \in Peers : InFlight(p) \subseteq InFlight(p)',
         \A p \in Peers, i \in Ids :
            tpc[Other(p)][i] \in {"replying", "failing", "ended"} /\ Blocked(p, i)'
              => Blocked(p, i)
  PROVE  AllQuiet'
  <1> SUFFICES ASSUME NEW p \in Peers, NEW i \in Ids PROVE Quiet(p, i)' BY DEF AllQuiet
  <1>1. Quiet(p, i) /\ InFlight(Other(p)) \subseteq InFlight(Other(p))'
    BY PeersFact DEF AllQuiet
  <1> QED BY <1>1, QuietKept

\* A step of the task that serves one call.
LEMMA TaskQuiets ==
  ASSUME AllQuiet, UNCHANGED <<callVars, cancelling>>, NEW p \in Peers, NEW i \in Ids,
         \A r \in Peers, j \in Ids : r # p \/ j # i =>
            /\ tpc'[r][j] = tpc[r][j]
            /\ mustCancel'[r][j] = mustCancel[r][j] /\ token'[r][j] = token[r][j],
         NoStrayCancel,
         \A r \in Peers : \A f \in InFlight(r) : r # p \/ f.id # i => f \in InFlight(r)',
         Quiet(Other(p), i)'
  PROVE  AllQuiet'
  <1> SUFFICES ASSUME NEW r \in Peers, NEW j \in Ids PROVE Quiet(r, j)' BY DEF AllQuiet
  <1>a. PICK q \in Peers : q = Other(r) /\ Other(q) = r BY DEF Peers, Other
  <1>1. CASE q = p /\ j = i BY <1>1, <1>a
  <1>2. CASE q # p \/ j # i
    <2>1. Quiet(r, j) /\ asked' = asked BY DEF AllQuiet, callVars
    <2>2. Blocked(r, j)' => Blocked(r, j) BY DEF Blocked, HasEnding, callVars
    <2>3. \A f \in InFlight(q) : Answering(f, j) => f \in InFlight(q)'
      BY <1>2 DEF Answering
    <2>4. /\ tpc'[q][j] = tpc[q][j]
          /\ mustCancel'[q][j] = mustCancel[q][j] /\ token'[q][j] = token[q][j]
          /\ cancelling'[q] = cancelling[q]
      BY <1>2
    <2> QED BY <1>a, <2>1, <2>2, <2>3, <2>4, QuietKept
  <1> QED BY <1>1, <1>2

\* What a send, or its absence, does to the frames in flight.
LEMMA SendKeeps ==
  ASSUME TypeOK, UNCHANGED <<wire, writing>> \/
           \E p \in Peers, f \in Frame : /\ Post(p, f)
                                         /\ f.kind = "cancel" => asked'[p][f.id] # 0
  PROVE  NoStrayCancel /\ \A p \in Peers : InFlight(p) \subseteq InFlight(p)'
  <1>1. CASE UNCHANGED <<wire, writing>> BY <1>1 DEF NoStrayCancel, InFlight
  <1>2. ASSUME NEW p \in Peers, NEW f \in Frame, Post(p, f),
               f.kind = "cancel" => asked'[p][f.id] # 0
        PROVE  NoStrayCancel /\ \A q \in Peers : InFlight(q) \subseteq InFlight(q)'
    <2>1. /\ InFlight(p)' = IF down THEN InFlight(p) ELSE InFlight(p) \cup {f}
          /\ \A q \in Peers : q # p => InFlight(q)' = InFlight(q)
      BY <1>2, PostFlight
    <2>2. \A q \in Peers : InFlight(q) \subseteq InFlight(q)' BY <2>1
    <2>3. ASSUME NEW q \in Peers, NEW g \in InFlight(q)'
          PROVE  g \in InFlight(q) \/ g.kind # "cancel" \/ asked'[q][g.id] # 0
      <3>1. g \in InFlight(q) \/ (q = p /\ g = f) BY <2>1, <2>3
      <3> QED BY <1>2, <3>1
    <2> QED BY <2>2, <2>3 DEF NoStrayCancel
  <1> QED BY <1>1, <1>2

LEMMA CancelMsg == \A i \in Ids : Msg("cancel", i) \in Frame /\ Msg("cancel", i).id = i
  <1>1. \A i \in Ids : Msg("cancel", i) \in Frame BY FrameFact DEF Kinds
  <1> QED BY <1>1 DEF Msg

\* A cancel is counted.
LEMMA AskedGrows ==
  ASSUME TypeOK, NEW p \in Peers, NEW i \in Ids, asked' = [asked EXCEPT ![p][i] = @ + 1]
  PROVE  asked'[p][i] # 0 /\ \A r \in Peers, j \in Ids : asked'[r][j] = 0 => asked[r][j] = 0
  <1>1. asked \in [Peers -> [Ids -> Nat]] BY DEF TypeOK, CallTypeOK
  <1>2. PICK c : c = asked[p][i] + 1 OBVIOUS
  <1>3. c # 0 BY <1>1, <1>2
  <1>4. asked' = [asked EXCEPT ![p][i] = c] BY <1>1, <1>2
  <1>5. asked'[p][i] = c /\ \A r \in Peers, j \in Ids : r # p \/ j # i => asked'[r][j] = asked[r][j]
    BY <1>1, <1>4
  <1>6. \A r \in Peers, j \in Ids : asked'[r][j] = 0 => asked[r][j] = 0
    <2> SUFFICES ASSUME NEW r \in Peers, NEW j \in Ids, asked'[r][j] = 0 PROVE asked[r][j] = 0
      OBVIOUS
    <2>1. r # p \/ j # i BY <1>3, <1>5
    <2> QED BY <1>5, <2>1
  <1> QED BY <1>3, <1>5, <1>6

LEMMA FinishQuiet ==
  ASSUME ReplyInv, AllQuiet, NEW p \in Peers, NEW i \in Ids, NEW how, Finish(p, i, how),
         UNCHANGED taskVars, cancelling' = cancelling, UNCHANGED mode,
         \A r \in Peers, j \in Ids : r # p \/ j # i => queue'[r][j] = queue[r][j]
  PROVE  AllQuiet'
  <1>a. TypeOK BY DEF ReplyInv
  <1>b. /\ cpc \in [Peers -> [Ids -> {"idle", "sending", "waiting", "open", "iterating", "done"}]]
        /\ reply \in [Peers -> [Ids -> Replies]] /\ asked \in [Peers -> [Ids -> Nat]]
    BY <1>a DEF TypeOK, CallTypeOK
  <1>1. UNCHANGED <<tpc, mustCancel, token, cancelling>> BY DEF taskVars
  <1>2. /\ cpc' = [cpc EXCEPT ![p][i] = "done"] /\ reply' = [reply EXCEPT ![p][i] = how]
        /\ \/ UNCHANGED <<asked, wire, writing>>
           \/ Post(p, Msg("cancel", i)) /\ asked' = [asked EXCEPT ![p][i] = @ + 1]
    BY DEF Finish
  <1>3. \A r \in Peers, j \in Ids : Blocked(r, j)' => Blocked(r, j)
    <2> SUFFICES ASSUME NEW r \in Peers, NEW j \in Ids, Blocked(r, j)' PROVE Blocked(r, j)
      OBVIOUS
    <2>1. cpc'[p][i] = "done" BY <1>b, <1>2
    <2>2. r # p \/ j # i BY <2>1 DEF Blocked
    <2>3. cpc'[r][j] = cpc[r][j] /\ reply'[r][j] = reply[r][j] BY <1>b, <1>2, <2>2
    <2> QED BY <2>2, <2>3 DEF Blocked, HasEnding
  <1>4. PICK f \in Frame : f = Msg("cancel", i) /\ f.id = i BY CancelMsg
  <1>5. \A r \in Peers, j \in Ids : asked'[r][j] = 0 => asked[r][j] = 0
    BY <1>2, <1>a, AskedGrows
  <1>6. CASE UNCHANGED <<asked, wire, writing>>
    <2>1. NoStrayCancel /\ \A r \in Peers : InFlight(r) \subseteq InFlight(r)'
      BY <1>6, <1>a, SendKeeps
    <2> QED BY <1>1, <1>3, <1>5, <2>1, CallerQuiet
  <1>7. CASE Post(p, Msg("cancel", i)) /\ asked' = [asked EXCEPT ![p][i] = @ + 1]
    <2>1. asked'[p][f.id] # 0 BY <1>4, <1>7, <1>a, AskedGrows
    <2>2. Post(p, f) BY <1>4, <1>7
    <2>3. NoStrayCancel /\ \A r \in Peers : InFlight(r) \subseteq InFlight(r)'
      BY <1>a, <2>1, <2>2, SendKeeps
    <2> QED BY <1>1, <1>3, <1>5, <2>3, CallerQuiet
  <1> QED BY <1>2, <1>6, <1>7

LEMMA NextItemQuiet ==
  ASSUME ReplyInv, AllQuiet, NEW p \in Peers, NEW i \in Ids, NextItem(p, i)
  PROVE  AllQuiet'
  <1>a. TypeOK /\ ReplyInv BY DEF ReplyInv
  <1>b. queue \in [Peers -> [Ids -> Seq(Item)]] BY <1>a DEF TypeOK, CallTypeOK
  <1>1. /\ UNCHANGED <<mode, tpc, mustCancel, token, cancelling>> /\ UNCHANGED taskVars
        /\ queue[p][i] # <<>> /\ queue[p][i] \in Seq(Item)
    BY <1>b DEF NextItem, taskVars
  <1>2. queue' = [queue EXCEPT ![p][i] = Tail(queue[p][i])] BY <1>b DEF NextItem
  <1>3. /\ queue'[p][i] = Tail(queue[p][i])
        /\ \A r \in Peers, j \in Ids : r # p \/ j # i => queue'[r][j] = queue[r][j]
    BY <1>b, <1>2
  <1>4. PICK x : x = Head(queue[p][i]) OBVIOUS
  <1>5. CASE x.kind \in Endings
    <2>1. Finish(p, i, x.kind) BY <1>4, <1>5 DEF NextItem
    <2>2. PICK k : k = x.kind OBVIOUS
    <2> QED BY <1>1, <1>3, <1>a, <2>1, <2>2, FinishQuiet
  <1>6. CASE x.kind \notin Endings
    <2>1. UNCHANGED <<cpc, reply, asked, wire, writing>> BY <1>4, <1>6 DEF NextItem
    <2>2. ASSUME NEW r \in Peers, NEW j \in Ids, Blocked(r, j)' PROVE Blocked(r, j)
      <3>1. HasEnding(queue[r][j]) => HasEnding(queue'[r][j])
        <4>1. CASE r = p /\ j = i BY <1>1, <1>3, <1>4, <1>6, <4>1, TailEnding
        <4>2. CASE r # p \/ j # i BY <1>3, <4>2
        <4> QED BY <4>1, <4>2
      <3> QED BY <1>1, <2>1, <2>2, <3>1 DEF Blocked, HasEnding
    <2>3. NoStrayCancel /\ \A r \in Peers : InFlight(r) \subseteq InFlight(r)'
      BY <1>a, <2>1, SendKeeps
    <2> QED BY <1>1, <2>1, <2>2, <2>3, CallerQuiet
  <1> QED BY <1>5, <1>6

LEMMA CallersQuiet ==
  ASSUME ReplyInv, AllQuiet, NEW p \in Peers, NEW i \in Ids,
         \/ CallerStep(p, i) \/ Abandon(p, i) \/ CloseEarly(p, i) \/ Cancel(p, i)
  PROVE  AllQuiet'
  <1>a. TypeOK /\ ReplyInv BY DEF ReplyInv
  <1>b. /\ cpc \in [Peers -> [Ids -> {"idle", "sending", "waiting", "open", "iterating", "done"}]]
        /\ reply \in [Peers -> [Ids -> Replies]] /\ asked \in [Peers -> [Ids -> Nat]]
    BY <1>a DEF TypeOK, CallTypeOK
  <1>1. CASE NextItem(p, i) BY <1>1, NextItemQuiet
  <1>2. CASE CloseEarly(p, i)
    <2>1. PICK how : how = "closed" OBVIOUS
    <2>2. Finish(p, i, how) /\ UNCHANGED <<taskVars, cancelling, mode, queue>>
      BY <1>2, <2>1 DEF CloseEarly
    <2> QED BY <1>a, <2>2, FinishQuiet
  <1>3. CASE Cancel(p, i)
    <2>1. /\ UNCHANGED <<tpc, mustCancel, token, cancelling>>
          /\ UNCHANGED <<cpc, reply, mode, queue>>
          /\ asked' = [asked EXCEPT ![p][i] = @ + 1] /\ Post(p, Msg("cancel", i))
      BY <1>3 DEF Cancel, taskVars
    <2>2. PICK f \in Frame : f = Msg("cancel", i) /\ f.id = i BY CancelMsg
    <2>3. asked'[p][f.id] # 0 /\ Post(p, f) BY <1>a, <2>1, <2>2, AskedGrows
    <2>4. NoStrayCancel /\ \A r \in Peers : InFlight(r) \subseteq InFlight(r)'
      BY <1>a, <2>3, SendKeeps
    <2>5. \A r \in Peers, j \in Ids : asked'[r][j] = 0 => asked[r][j] = 0
      BY <1>a, <2>1, AskedGrows
    <2>6. \A r \in Peers, j \in Ids : Blocked(r, j)' => Blocked(r, j)
      BY <2>1 DEF Blocked, HasEnding
    <2> QED BY <2>1, <2>4, <2>5, <2>6, CallerQuiet
  <1>4. CASE SendDone(p, i) \/ SendRaises(p, i) \/ Return(p, i) \/ Iterate(p, i) \/ Abandon(p, i)
    <2>1. /\ UNCHANGED <<tpc, mustCancel, token, cancelling>>
          /\ UNCHANGED <<asked, mode, queue, wire, writing>>
      BY <1>4 DEF SendDone, SendRaises, Return, Iterate, Abandon, taskVars, netVars
    <2>2. ASSUME NEW r \in Peers, NEW j \in Ids, Blocked(r, j)' PROVE Blocked(r, j)
      <3>1. CASE r = p /\ j = i
        <4>1. CASE SendRaises(p, i) \/ Return(p, i) \/ Abandon(p, i)
          <5>1. cpc'[p][i] = "done" BY <1>b, <4>1 DEF SendRaises, Return, Abandon
          <5> QED BY <2>2, <3>1, <5>1 DEF Blocked
        <4>2. CASE SendDone(p, i)
          <5>1. PICK c : c = IF mode[p][i] = "unary" THEN "waiting" ELSE "open" OBVIOUS
          <5>2. cpc[p][i] = "sending" /\ cpc'[p][i] = c /\ reply' = reply
            BY <1>b, <4>2, <5>1 DEF SendDone
          <5> QED BY <2>1, <2>2, <3>1, <5>1, <5>2 DEF Blocked, HasEnding
        <4>3. CASE Iterate(p, i)
          <5>1. cpc[p][i] = "open" /\ cpc'[p][i] = "iterating" /\ reply' = reply
            BY <1>b, <4>3 DEF Iterate
          <5> QED BY <2>1, <2>2, <3>1, <5>1 DEF Blocked, HasEnding
        <4> QED BY <1>4, <4>1, <4>2, <4>3
      <3>2. CASE r # p \/ j # i
        <4>1. cpc'[r][j] = cpc[r][j] /\ reply'[r][j] = reply[r][j]
          <5>1. CASE SendDone(p, i) \/ Iterate(p, i) \/ Return(p, i)
            BY <1>b, <3>2, <5>1 DEF SendDone, Iterate, Return
          <5>2. CASE SendRaises(p, i) \/ Abandon(p, i)
            BY <1>b, <3>2, <5>2 DEF SendRaises, Abandon
          <5> QED BY <1>4, <5>1, <5>2
        <4> QED BY <2>1, <2>2, <4>1 DEF Blocked, HasEnding
      <3> QED BY <3>1, <3>2
    <2>3. NoStrayCancel /\ \A r \in Peers : InFlight(r) \subseteq InFlight(r)'
      BY <1>a, <2>1, SendKeeps
    <2> QED BY <2>1, <2>2, <2>3, CallerQuiet
  <1> QED BY <1>1, <1>2, <1>3, <1>4 DEF CallerStep

\* A new call has no task yet.
LEMMA InvokeQuiet ==
  ASSUME ReplyInv, AllQuiet, NEW p \in Peers, NEW m \in {"unary", "stream"}, Invoke(p, m)
  PROVE  AllQuiet'
  <1>a. TypeOK BY DEF ReplyInv
  <1>b. /\ cpc \in [Peers -> [Ids -> {"idle", "sending", "waiting", "open", "iterating", "done"}]]
        /\ reply \in [Peers -> [Ids -> Replies]] /\ mode \in [Peers -> [Ids -> {"unary", "stream"}]]
        /\ counter \in [Peers -> Nat]
    BY <1>a DEF TypeOK, CallTypeOK
  <1>c. PICK q \in Peers : q = Other(p) /\ Other(q) = p BY DEF Peers, Other
  <1>1. PICK i \in Ids : i = counter[p] + 1
    <2>1. counter[p] + 1 \in Ids
      BY <1>b, PeerAssumption DEF Invoke, Ids, Peers, PeerAssumption
    <2> QED BY <2>1
  <1>2. PICK f \in Frame : /\ f = Msg(IF m = "unary" THEN "invoke" ELSE "invoke_stream", i)
                           /\ f.kind # "cancel"
    <2>1. \A k \in {"invoke", "invoke_stream"} : Msg(k, i) \in Frame /\ Msg(k, i).kind = k
      BY FrameFact DEF Kinds, Msg
    <2> QED BY <2>1
  <1>3. /\ UNCHANGED <<tpc, mustCancel, token, cancelling, queue, asked>> /\ Post(p, f)
        /\ cpc' = [cpc EXCEPT ![p][i] = "sending"] /\ reply' = [reply EXCEPT ![p][i] = "pending"]
        /\ mode' = [mode EXCEPT ![p][i] = m]
    BY <1>1, <1>2 DEF Invoke, taskVars
  <1>4. NoStrayCancel /\ \A r \in Peers : InFlight(r) \subseteq InFlight(r)'
    BY <1>2, <1>3, <1>a, SendKeeps
  <1>5. tpc[q][i] = "none"
    <2>1. CallOK(p, i) /\ TaskOK(q, i) BY DEF ReplyInv, CallsOK, TasksOK
    <2>2. cpc[p][i] = "idle" BY <1>1, <1>b, <2>1 DEF CallOK
    <2> QED BY <1>c, <2>1, <2>2 DEF TaskOK
  <1>6. ASSUME NEW r \in Peers, NEW j \in Ids, Blocked(r, j)',
               tpc[Other(r)][j] \in {"replying", "failing", "ended"}
        PROVE  Blocked(r, j)
    <2>1. r # p \/ j # i BY <1>5, <1>6, <1>c
    <2>2. cpc'[r][j] = cpc[r][j] /\ reply'[r][j] = reply[r][j] /\ mode'[r][j] = mode[r][j]
      BY <1>3, <1>b, <2>1
    <2> QED BY <1>3, <1>6, <2>2 DEF Blocked, HasEnding
  <1> QED BY <1>3, <1>4, <1>6, CallerQuiet

\* Steps that bring the connection down, or need it down.
LEMMA NotUp ==
  ASSUME TypeOK, Up,
         LoseLink \/ \E p \in Peers : Fail(p) \/ Refuse(p) \/ Stop(p) \/ StopDone(p) \/ Eof(p)
  PROVE  ~(Up')
  <1>a. phase \in [Peers -> {"open", "stopping", "closed"}] /\ unusable \in [Peers -> BOOLEAN]
    BY DEF TypeOK, NetTypeOK
  <1>b. ~down /\ \A p \in Peers : phase[p] = "open" /\ ~unusable[p] BY DEF Up
  <1>1. CASE LoseLink BY <1>1 DEF LoseLink, Up
  <1>2. ASSUME NEW p \in Peers, Fail(p) \/ Refuse(p) PROVE ~(Up')
    <2>1. unusable' = [unusable EXCEPT ![p] = TRUE]
      BY <1>2, <1>b DEF Fail, Refuse, FailConnection
    <2>2. unusable'[p] BY <1>a, <2>1
    <2> QED BY <2>2 DEF Up
  <1>3. ASSUME NEW p \in Peers, Stop(p) \/ StopDone(p) \/ Eof(p) PROVE ~(Up')
    <2>1. CASE Stop(p)
      <3>1. phase'[p] = "stopping" BY <1>a, <2>1 DEF Stop
      <3> QED BY <3>1 DEF Up
    <2>2. CASE StopDone(p) BY <1>b, <2>2 DEF StopDone
    <2>3. CASE Eof(p) BY <1>b, <2>3 DEF Eof
    <2> QED BY <1>3, <2>1, <2>2, <2>3
  <1> QED BY <1>1, <1>2, <1>3

LEMMA WriteQuiet ==
  ASSUME ReplyInv, AllQuiet, Up, NEW p \in Peers, WriteFrame(p)
  PROVE  AllQuiet'
  <1>1. UNCHANGED <<tpc, mustCancel, token, cancelling, asked, mode, cpc, reply, queue>>
    BY DEF WriteFrame, callVars, taskVars
  <1>2. \A r \in Peers : InFlight(r)' = InFlight(r) BY WriteFlight DEF ReplyInv, Up
  <1>3. NoStrayCancel BY <1>2 DEF NoStrayCancel
  <1>4. \A r \in Peers, j \in Ids : Blocked(r, j)' => Blocked(r, j)
    BY <1>1 DEF Blocked, HasEnding
  <1> QED BY <1>1, <1>2, <1>3, <1>4, CallerQuiet

\* The reader goes on to cancel a task: its call is one somebody cancelled.
LEMMA CancelQuiet ==
  ASSUME ReplyInv, AllQuiet, NEW p \in Peers, CancelTask(p)
  PROVE  AllQuiet'
  <1>a. /\ cancelling \in [Peers -> {0} \cup Ids]
        /\ mustCancel \in [Peers -> [Ids -> BOOLEAN]]
    BY DEF ReplyInv, TypeOK, NetTypeOK, TaskTypeOK
  <1>1. /\ UNCHANGED <<tpc, token, asked, mode, cpc, reply, queue, wire, writing>>
        /\ cancelling[p] # 0 /\ cancelling' = [cancelling EXCEPT ![p] = 0]
    BY DEF CancelTask, callVars
  <1>2. PICK c \in Ids : c = cancelling[p] BY <1>1, <1>a
  <1>3. mustCancel' = mustCancel \/ mustCancel' = [mustCancel EXCEPT ![p][c] = TRUE]
    BY <1>2 DEF CancelTask, CancelStarted
  <1>4. NoStrayCancel /\ \A r \in Peers : InFlight(r)' = InFlight(r)
    BY <1>1 DEF NoStrayCancel, InFlight
  <1> SUFFICES ASSUME NEW r \in Peers, NEW j \in Ids PROVE Quiet(r, j)' BY DEF AllQuiet
  <1>5. PICK q \in Peers : q = Other(r) /\ Other(q) = r BY DEF Peers, Other
  <1>6. Quiet(r, j) BY DEF AllQuiet
  <1>7. CASE q = p /\ j = c
    <2>1. asked[r][j] # 0 BY <1>2, <1>5, <1>6, <1>7 DEF Quiet, Unharmed
    <2> QED BY <1>1, <2>1 DEF Quiet
  <1>8. CASE q # p \/ j # c
    <2>1. mustCancel'[q][j] = mustCancel[q][j] BY <1>3, <1>8, <1>a
    <2>2. cancelling'[q] = j => cancelling[q] = j BY <1>1, <1>a, IdsFact
    <2>3. Blocked(r, j)' => Blocked(r, j) BY <1>1 DEF Blocked, HasEnding
    <2>4. /\ tpc'[q][j] = tpc[q][j] /\ token'[q][j] = token[q][j] /\ asked'[r][j] = asked[r][j]
          /\ InFlight(q)' = InFlight(q)
      BY <1>1, <1>4
    <2> QED BY <1>4, <1>5, <1>6, <2>1, <2>2, <2>3, <2>4, QuietKept
  <1> QED BY <1>7, <1>8

\* What the reader does with a result or an event: the caller whose answer it
\* was no longer waits.
LEMMA AnswerRead ==
  ASSUME ReplyInv, CallerInv, NEW p \in Peers, NEW f \in Frame, FrameOK(Other(p), f),
         \/ f.kind \in ResultKinds /\ HandleResult(p, f)
         \/ f.kind \in EventKinds /\ HandleEvent(p, f)
  PROVE  \A r \in Peers, j \in Ids : Blocked(r, j)' =>
            Blocked(r, j) /\ (r # p \/ ~Answering(f, j))
  <1>a. TypeOK /\ Tracked BY DEF CallerInv
  <1>b. /\ reply \in [Peers -> [Ids -> Replies]] /\ queue \in [Peers -> [Ids -> Seq(Item)]]
        /\ mode \in [Peers -> [Ids -> {"unary", "stream"}]]
    BY <1>a DEF TypeOK, CallTypeOK
  <1>c. PICK i \in Ids : i = f.id BY DEF Frame
  <1>d. Other(Other(p)) = p /\ Other(p) \in Peers BY DEF Peers, Other
  <1>e. CallOK(p, i) /\ (Blocked(p, i) => i \in IF mode[p][i] = "unary" THEN pending[p] ELSE streams[p])
    BY <1>a DEF ReplyInv, CallsOK, Tracked
  <1>f. UNCHANGED <<mode, cpc>> BY DEF HandleResult, HandleEvent
  <1>1. CASE f.kind \in ResultKinds /\ HandleResult(p, f)
    <2>1. mode[p][i] = "unary" BY <1>1, <1>c, <1>d DEF FrameOK
    <2>2. CASE i \in pending[p]
      <3>1. PICK v : v = IF reply[p][i] = "pending" THEN f.kind ELSE reply[p][i] OBVIOUS
      <3>2. v # "pending" BY <1>1, <3>1 DEF ResultKinds
      <3>3. reply' = [reply EXCEPT ![p][i] = v] /\ queue' = queue
        BY <1>1, <1>b, <1>c, <2>2, <3>1 DEF HandleResult
      <3>4. ~(Blocked(p, i)')
        <4>1. reply'[p][i] = v /\ mode'[p][i] = "unary" BY <1>b, <1>f, <2>1, <3>3
        <4> QED BY <3>2, <4>1 DEF Blocked
      <3>5. \A r \in Peers, j \in Ids : r # p \/ j # i => reply'[r][j] = reply[r][j]
        BY <1>b, <3>3
      <3>6. \A r \in Peers, j \in Ids : r # p \/ j # i => (Blocked(r, j)' => Blocked(r, j))
        BY <1>f, <3>3, <3>5 DEF Blocked, HasEnding
      <3> QED BY <1>c, <3>4, <3>6 DEF Answering
    <2>3. CASE i \notin pending[p]
      <3>1. PICK u : u = Append(queue[p][i], Msg("protocol", i)) OBVIOUS
      <3>2. reply' = reply /\ (queue' = queue \/ queue' = [queue EXCEPT ![p][i] = u])
        BY <1>1, <1>b, <1>c, <2>3, <3>1 DEF HandleResult
      <3>3. ~Blocked(p, i) BY <1>e, <2>1, <2>3
      <3>4. ~(Blocked(p, i)') BY <1>f, <2>1, <3>2, <3>3 DEF Blocked
      <3>5. \A r \in Peers, j \in Ids : r # p \/ j # i => queue'[r][j] = queue[r][j]
        BY <1>b, <3>2
      <3>6. \A r \in Peers, j \in Ids : r # p \/ j # i => (Blocked(r, j)' => Blocked(r, j))
        BY <1>f, <3>2, <3>5 DEF Blocked, HasEnding
      <3> QED BY <1>c, <3>4, <3>6 DEF Answering
    <2> QED BY <2>2, <2>3
  <1>2. CASE f.kind \in EventKinds /\ HandleEvent(p, f)
    <2>1. mode[p][i] = "stream" BY <1>2, <1>c, <1>d DEF FrameOK
    <2>2. CASE i \in streams[p]
      <3>1. PICK u : u = Append(queue[p][i], f) OBVIOUS
      <3>2. reply' = reply /\ queue' = [queue EXCEPT ![p][i] = u]
        BY <1>2, <1>b, <1>c, <2>2, <3>1 DEF HandleEvent
      <3>3. queue'[p][i] = u /\ \A r \in Peers, j \in Ids : r # p \/ j # i =>
                                   queue'[r][j] = queue[r][j]
        BY <1>b, <3>2
      <3>4. /\ HasEnding(queue[p][i]) => HasEnding(u)
            /\ f.kind \in Endings => HasEnding(u)
        <4>1. f \in Item /\ queue[p][i] \in Seq(Item) BY <1>2, <1>b DEF Frame, Item
        <4> QED BY <3>1, <4>1, AppendEnding
      <3>5. \A r \in Peers, j \in Ids : r # p \/ j # i => (Blocked(r, j)' => Blocked(r, j))
        BY <1>f, <3>2, <3>3 DEF Blocked, HasEnding
      <3>6. Blocked(p, i)' => Blocked(p, i) /\ ~HasEnding(u)
        BY <1>f, <2>1, <3>3, <3>4 DEF Blocked, HasEnding
      <3>7. Answering(f, i) => f.kind \in Endings
        BY <1>2 DEF Answering, EventKinds, Endings, ResultKinds
      <3>8. Blocked(p, i)' => Blocked(p, i) /\ ~Answering(f, i) BY <3>4, <3>6, <3>7
      <3> QED BY <1>c, <3>5, <3>8 DEF Answering
    <2>3. CASE i \notin streams[p]
      <3>1. queue' = queue /\ (reply' = reply \/ reply' = [reply EXCEPT ![p][i] = "protocol"])
        BY <1>2, <1>b, <1>c, <2>3 DEF HandleEvent
      <3>2. ~Blocked(p, i) BY <1>e, <2>1, <2>3
      <3>3. ~(Blocked(p, i)') BY <1>f, <2>1, <3>1, <3>2 DEF Blocked, HasEnding
      <3>4. \A r \in Peers, j \in Ids : r # p \/ j # i => reply'[r][j] = reply[r][j]
        BY <1>b, <3>1
      <3>5. \A r \in Peers, j \in Ids : r # p \/ j # i => (Blocked(r, j)' => Blocked(r, j))
        BY <1>f, <3>1, <3>4 DEF Blocked, HasEnding
      <3> QED BY <1>c, <3>3, <3>5 DEF Answering
    <2> QED BY <2>2, <2>3
  <1> QED BY <1>1, <1>2

LEMMA ReceiveQuiet ==
  ASSUME ReplyInv, CallerInv, AllQuiet, NEW p \in Peers, Receive(p)
  PROVE  AllQuiet'
  <1>a. TypeOK /\ InvokeOnce BY DEF ReplyInv
  <1>b. /\ tpc \in [Peers -> [Ids -> {"none", "ended", "crashed"} \cup Live]]
        /\ token \in [Peers -> [Ids -> BOOLEAN]] /\ mustCancel \in [Peers -> [Ids -> BOOLEAN]]
        /\ cancelling \in [Peers -> {0} \cup Ids]
    BY <1>a DEF TypeOK, TaskTypeOK, NetTypeOK
  <1>c. PICK q \in Peers : q = Other(p) /\ Other(q) = p /\ q # p
                           /\ \A r \in Peers : r = p \/ r = q
    BY DEF Peers, Other
  <1>d. wire[q] # <<>> /\ wire' = [wire EXCEPT ![q] = Tail(@)] /\ UNCHANGED writing
    BY <1>c DEF Receive, Reading
  <1>e. PICK f : f = Head(wire[q]) OBVIOUS
  <1>1. /\ f \in InFlight(q) /\ \A r \in Peers : InFlight(r)' \subseteq InFlight(r)
        /\ InFlight(p)' = InFlight(p) /\ InFlight(q) \subseteq InFlight(q)' \cup {f}
    BY <1>a, <1>c, <1>d, <1>e, ReadFlight
  <1>2. f \in Frame /\ f.id \in Ids /\ FrameOK(q, f)
    BY <1>1, <1>a, FlightType DEF Frame, ReplyInv, FramesOK
  <1>3. PICK i \in Ids : i = f.id BY <1>2
  <1>4. \/ f.kind \in ResultKinds /\ HandleResult(p, f)
        \/ f.kind \in EventKinds /\ HandleEvent(p, f)
        \/ f.kind \in {"invoke", "invoke_stream"} /\ HandleInvoke(p, f)
        \/ f.kind = "cancel" /\ HandleCancel(p, f)
    BY <1>c, <1>e DEF Receive
  <1>5. NoStrayCancel BY <1>1 DEF NoStrayCancel
  <1>6. CASE \/ f.kind \in ResultKinds /\ HandleResult(p, f)
             \/ f.kind \in EventKinds /\ HandleEvent(p, f)
    <2> SUFFICES ASSUME NEW r \in Peers, NEW j \in Ids PROVE Quiet(r, j)' BY DEF AllQuiet
    <2>1. UNCHANGED <<asked, tpc, mustCancel, token, cancelling>>
      BY <1>6 DEF HandleResult, HandleEvent, taskVars
    <2>2. Blocked(r, j)' => Blocked(r, j) /\ (r # p \/ ~Answering(f, j))
      BY <1>2, <1>6, <1>c, AnswerRead
    <2>3. ASSUME Blocked(r, j)', NEW g \in InFlight(Other(r)), Answering(g, j)
          PROVE  g \in InFlight(Other(r))'
      <3>1. CASE r = p
        <4>1. g # f BY <2>2, <2>3, <3>1
        <4> QED BY <1>1, <1>c, <2>3, <3>1, <4>1
      <3>2. CASE r = q BY <1>1, <1>c, <2>3, <3>2
      <3> QED BY <1>c, <3>1, <3>2
    <2>4. Quiet(r, j) BY DEF AllQuiet
    <2> QED BY <1>5, <2>1, <2>2, <2>3, <2>4, QuietKept
  <1>7. CASE f.kind \in {"invoke", "invoke_stream"} /\ HandleInvoke(p, f)
    <2>1. /\ UNCHANGED <<asked, cancelling, mode, cpc, reply, queue>>
          /\ tpc' = [tpc EXCEPT ![p][i] = "created"]
          /\ token' = [token EXCEPT ![p][i] = FALSE]
          /\ mustCancel' = [mustCancel EXCEPT ![p][i] = FALSE]
      BY <1>3, <1>7 DEF HandleInvoke, callVars
    <2>2. /\ tpc'[p][i] = "created" /\ ~token'[p][i] /\ ~mustCancel'[p][i]
          /\ \A r \in Peers, j \in Ids : r # p \/ j # i =>
               /\ tpc'[r][j] = tpc[r][j] /\ token'[r][j] = token[r][j]
               /\ mustCancel'[r][j] = mustCancel[r][j]
      BY <1>b, <2>1
    <2>3. \A j : ~Answering(f, j) BY <1>7 DEF Answering, ResultKinds
    <2> SUFFICES ASSUME NEW r \in Peers, NEW j \in Ids PROVE Quiet(r, j)' BY DEF AllQuiet
    <2>4. Quiet(r, j) BY DEF AllQuiet
    <2>5. CASE r = q /\ j = i
      <3>1. asked'[r][j] = 0 => Unharmed(r, j)
        BY <2>1, <2>4 DEF Quiet
      <3>2. ASSUME asked'[r][j] = 0 PROVE Unharmed(r, j)'
        BY <1>1, <1>c, <2>1, <2>2, <2>5, <3>1, <3>2 DEF Unharmed, Cancels
      <3>3. Answered(r, j)' BY <1>c, <2>2, <2>5 DEF Answered
      <3> QED BY <3>2, <3>3 DEF Quiet
    <2>6. CASE r # q \/ j # i
      <3>1. Other(r) # p \/ j # i BY <1>c, <2>6
      <3>2. \A g \in InFlight(Other(r)) : Answering(g, j) => g \in InFlight(Other(r))'
        <4>1. CASE r = p BY <1>1, <1>c, <2>3, <4>1
        <4>2. CASE r = q BY <1>1, <1>c, <4>2
        <4> QED BY <1>c, <4>1, <4>2
      <3>3. Blocked(r, j)' => Blocked(r, j) BY <2>1 DEF Blocked, HasEnding
      <3>4. /\ tpc'[Other(r)][j] = tpc[Other(r)][j] /\ token'[Other(r)][j] = token[Other(r)][j]
            /\ mustCancel'[Other(r)][j] = mustCancel[Other(r)][j]
        BY <2>2, <3>1, PeersFact
      <3> QED BY <1>5, <2>1, <2>4, <3>2, <3>3, <3>4, QuietKept
    <2> QED BY <2>5, <2>6
  <1>8. CASE f.kind = "cancel" /\ HandleCancel(p, f)
    <2>1. /\ UNCHANGED <<asked, tpc, mode, cpc, reply, queue>>
          /\ token' = token \/ token' = [token EXCEPT ![p][i] = TRUE]
          /\ mustCancel' = mustCancel \/ mustCancel' = [mustCancel EXCEPT ![p][i] = TRUE]
          /\ cancelling' = cancelling \/ cancelling' = [cancelling EXCEPT ![p] = i]
      BY <1>3, <1>8 DEF HandleCancel, CancelStarted, callVars
    <2>2. \A r \in Peers, j \in Ids : r # p \/ j # i =>
            /\ token'[r][j] = token[r][j] /\ mustCancel'[r][j] = mustCancel[r][j]
            /\ cancelling'[r] = j => cancelling[r] = j
      BY <1>b, <2>1
    <2>3. \A j : ~Answering(f, j) BY <1>8 DEF Answering, ResultKinds
    <2> SUFFICES ASSUME NEW r \in Peers, NEW j \in Ids PROVE Quiet(r, j)' BY DEF AllQuiet
    <2>4. Quiet(r, j) BY DEF AllQuiet
    <2>5. CASE r = q /\ j = i
      <3>1. asked[r][j] # 0
        <4>1. Cancels(f, j) BY <1>3, <1>8, <2>5 DEF Cancels
        <4> QED BY <1>1, <2>4, <2>5, <4>1 DEF Quiet, Unharmed
      <3> QED BY <2>1, <3>1 DEF Quiet
    <2>6. CASE r # q \/ j # i
      <3>1. Other(r) # p \/ j # i BY <1>c, <2>6
      <3>2. \A g \in InFlight(Other(r)) : Answering(g, j) => g \in InFlight(Other(r))'
        <4>1. CASE r = p BY <1>1, <1>c, <2>3, <4>1
        <4>2. CASE r = q BY <1>1, <1>c, <4>2
        <4> QED BY <1>c, <4>1, <4>2
      <3>3. Blocked(r, j)' => Blocked(r, j) BY <2>1 DEF Blocked, HasEnding
      <3>4. /\ token'[Other(r)][j] = token[Other(r)][j]
            /\ mustCancel'[Other(r)][j] = mustCancel[Other(r)][j]
            /\ cancelling'[Other(r)] = j => cancelling[Other(r)] = j
        BY <2>2, <3>1, PeersFact
      <3> QED BY <1>5, <2>1, <2>4, <3>2, <3>3, <3>4, QuietKept
    <2> QED BY <2>5, <2>6
  <1> QED BY <1>4, <1>6, <1>7, <1>8

\* A task answers: the answer is in flight, on a link that is up.
LEMMA AnswerQuiet ==
  ASSUME TypeOK, Up, AllQuiet, NEW p \in Peers, NEW i \in Ids,
         NEW k \in FinalKinds \cup {"started"}, Answer(p, i, k), Post(p, Msg(k, i)),
         UNCHANGED <<callVars, cancelling, mustCancel, token>>
  PROVE  AllQuiet'
  <1>b. tpc \in [Peers -> [Ids -> {"none", "ended", "crashed"} \cup Live]]
    BY DEF TypeOK, TaskTypeOK
  <1>c. PICK q \in Peers : q = Other(p) /\ Other(q) = p /\ q # p BY DEF Peers, Other
  <1>1. PICK f \in Frame : f = Msg(k, i) /\ f.kind = k /\ f.id = i
    BY AnswerFrame DEF Msg
  <1>2. Post(p, f) /\ ~down BY <1>1 DEF Up
  <1>3. f.kind # "cancel" BY <1>1 DEF FinalKinds, ResultKinds
  <1>4. NoStrayCancel /\ \A r \in Peers : InFlight(r) \subseteq InFlight(r)'
    BY <1>2, <1>3, SendKeeps
  <1>5. f \in InFlight(p)' BY <1>2, PostFlight
  <1>6. PICK t : t = IF k = "started" THEN "streaming"
                     ELSE IF k \in {"ok", "completed"} THEN "replying" ELSE "failing"
    OBVIOUS
  <1>7. tpc' = [tpc EXCEPT ![p][i] = t] BY <1>6 DEF Answer
  <1>8. tpc'[p][i] = t /\ \A r \in Peers, j \in Ids : r # p \/ j # i => tpc'[r][j] = tpc[r][j]
    BY <1>7, <1>b
  <1>9. Quiet(q, i)'
    <2> SUFFICES ASSUME asked'[q][i] = 0 PROVE Unharmed(q, i)' /\ Answered(q, i)' BY DEF Quiet
    <2>1. asked[q][i] = 0 /\ Quiet(q, i) BY DEF AllQuiet, callVars
    <2>2. Unharmed(q, i) BY <2>1 DEF Quiet
    <2>3. \A g \in InFlight(q)' : ~Cancels(g, i)
      <3>1. \A g \in InFlight(q)' : g \in InFlight(q) \/ g.kind # "cancel" \/ asked'[q][g.id] # 0
        BY <1>4 DEF NoStrayCancel
      <3> QED BY <2>2, <3>1 DEF Unharmed, Cancels
    <2>4. t # "crashed" BY <1>6
    <2>5. Unharmed(q, i)' BY <1>8, <1>c, <2>2, <2>3, <2>4 DEF Unharmed, Cancels
    <2>6. k # "started" => Answering(f, i) BY <1>1 DEF Answering, FinalKinds
    <2>7. Answered(q, i)'
      <3>1. CASE k = "started"
        <4>1. t = "streaming" BY <1>6, <3>1
        <4> QED BY <1>8, <1>c, <4>1 DEF Answered
      <3>2. CASE k # "started"
        <4>1. Answering(f, i) BY <2>6, <3>2
        <4> QED BY <1>5, <1>c, <4>1 DEF Answered, Answering
      <3> QED BY <3>1, <3>2
    <2> QED BY <2>5, <2>7
  <1> QED BY <1>4, <1>8, <1>9, <1>c, TaskQuiets

\* Only a task somebody told to stop is interrupted, and only its own frames go.
LEMMA InterruptQuiet ==
  ASSUME TypeOK, AllQuiet, NEW p \in Peers, NEW i \in Ids, Interrupt(p, i)
  PROVE  AllQuiet'
  <1>b. /\ tpc \in [Peers -> [Ids -> {"none", "ended", "crashed"} \cup Live]]
        /\ mustCancel \in [Peers -> [Ids -> BOOLEAN]]
        /\ wire \in [Peers -> Seq(Frame)] /\ writing \in [Peers -> SUBSET Frame]
    BY DEF TypeOK, TaskTypeOK, NetTypeOK
  <1>c. PICK q \in Peers : q = Other(p) /\ Other(q) = p /\ q # p BY DEF Peers, Other
  <1>1. /\ UNCHANGED <<callVars, cancelling, token, down>> /\ mustCancel[p][i]
        /\ mustCancel' = [mustCancel EXCEPT ![p][i] = FALSE]
    BY DEF Interrupt
  <1>2. PICK k \in FinalKinds : k = ErrorKind(p, i, "cancelled") BY ErrorKindFact
  <1>3. PICK f \in Frame : f = Msg(k, i) /\ f.kind = k /\ f.kind # "cancel"
    <2>1. PICK f \in Frame : f = Msg(k, i) BY AnswerFrame
    <2>2. f.kind = k /\ k # "cancel" BY <2>1 DEF Msg, FinalKinds, ResultKinds
    <2> QED BY <2>1, <2>2
  <1>4. PICK w \in SUBSET {g \in writing[p] : g.id = i /\ g.kind \in Awaited(p, i)} :
          IF tpc[p][i] = "failing"
          THEN /\ tpc' = [tpc EXCEPT ![p][i] = "ended"]
               /\ writing' = [writing EXCEPT ![p] = writing[p] \ w]
               /\ UNCHANGED wire
          ELSE /\ Answer(p, i, k)
               /\ writing' = [writing EXCEPT ![p] =
                    IF down \/ p \notin ThreadWriters
                    THEN writing[p] \ w ELSE (writing[p] \ w) \cup {f}]
               /\ wire' = IF down \/ p \in ThreadWriters THEN wire
                          ELSE [wire EXCEPT ![p] = Append(@, f)]
    BY <1>2, <1>3 DEF Interrupt
  <1>5. /\ \A r \in Peers, j \in Ids : r # p \/ j # i =>
             tpc'[r][j] = tpc[r][j] /\ mustCancel'[r][j] = mustCancel[r][j]
    <2>1. \A r \in Peers, j \in Ids : r # p \/ j # i => tpc'[r][j] = tpc[r][j]
      <3>1. CASE tpc[p][i] = "failing" BY <1>4, <1>b, <3>1
      <3>2. CASE tpc[p][i] # "failing"
        <4>1. PICK t : tpc' = [tpc EXCEPT ![p][i] = t] BY <1>4, <3>2 DEF Answer
        <4> QED BY <1>b, <4>1
      <3> QED BY <3>1, <3>2
    <2> QED BY <1>1, <1>b, <2>1
  <1>6. /\ writing'[p] \subseteq writing[p] \cup {f}
        /\ \A g \in writing[p] : g.id # i => g \in writing'[p]
        /\ wire'[p] = wire[p] \/ wire'[p] = Append(wire[p], f)
        /\ \A r \in Peers : r # p => writing'[r] = writing[r] /\ wire'[r] = wire[r]
    <2>1. CASE tpc[p][i] = "failing" BY <1>4, <1>b, <2>1
    <2>2. CASE tpc[p][i] # "failing" BY <1>4, <1>b, <2>2
    <2> QED BY <2>1, <2>2
  <1>7. /\ \A m \in DOMAIN wire'[p] :
             \/ m \in DOMAIN wire[p] /\ wire'[p][m] = wire[p][m]
             \/ wire'[p][m] = f
        /\ \A m \in DOMAIN wire[p] : m \in DOMAIN wire'[p] /\ wire'[p][m] = wire[p][m]
    <2>1. wire[p] \in Seq(Frame) BY <1>b
    <2>2. /\ DOMAIN Append(wire[p], f) = DOMAIN wire[p] \cup {Len(wire[p]) + 1}
          /\ \A m \in DOMAIN wire[p] : Append(wire[p], f)[m] = wire[p][m]
          /\ Append(wire[p], f)[Len(wire[p]) + 1] = f
      BY <2>1, AppendFlight
    <2> QED BY <1>6, <2>2
  <1>8. /\ InFlight(p)' \subseteq InFlight(p) \cup {f}
        /\ \A r \in Peers : r # p => InFlight(r)' = InFlight(r)
    BY <1>6, <1>7 DEF InFlight
  <1>9. \A g \in InFlight(p) : g.id # i => g \in InFlight(p)' BY <1>6, <1>7 DEF InFlight
  <1>10. NoStrayCancel
    <2> SUFFICES ASSUME NEW r \in Peers, NEW g \in InFlight(r)', g \notin InFlight(r)
                 PROVE  g.kind # "cancel"
      BY DEF NoStrayCancel
    <2>1. g = f BY <1>8
    <2> QED BY <1>3, <2>1
  <1>11. asked[q][i] # 0
    <2>1. Quiet(q, i) BY DEF AllQuiet
    <2> QED BY <1>1, <1>c, <2>1 DEF Quiet, Unharmed
  <1>12. Quiet(Other(p), i)'
    <2>1. Quiet(q, i)' BY <1>1, <1>11 DEF Quiet, callVars
    <2> QED BY <1>c, <2>1
  <1>13. \A r \in Peers, j \in Ids : r # p \/ j # i =>
            /\ tpc'[r][j] = tpc[r][j]
            /\ mustCancel'[r][j] = mustCancel[r][j] /\ token'[r][j] = token[r][j]
    BY <1>1, <1>5
  <1>14. \A r \in Peers : \A g \in InFlight(r) : r # p \/ g.id # i => g \in InFlight(r)'
    BY <1>8, <1>9
  <1>15. UNCHANGED <<callVars, cancelling>> BY <1>1
  <1> QED BY <1>10, <1>12, <1>13, <1>14, <1>15, TaskQuiets

LEMMA StepQuiet ==
  ASSUME ReplyInv, Up, AllQuiet, NEW p \in Peers, NEW i \in Ids,
         \/ WorkStep(p, i) \/ TaskStep(p, i) \/ NextChunk(p, i) \/ Suppress(p, i)
  PROVE  AllQuiet'
  <1>a. TypeOK BY DEF ReplyInv
  <1>b. /\ tpc \in [Peers -> [Ids -> {"none", "ended", "crashed"} \cup Live]]
        /\ mustCancel \in [Peers -> [Ids -> BOOLEAN]]
    BY <1>a DEF TypeOK, TaskTypeOK
  <1>c. PICK q \in Peers : q = Other(p) /\ Other(q) = p /\ q # p BY DEF Peers, Other
  <1>d. Quiet(q, i) /\ ~down BY DEF AllQuiet, Up
  <1>e. ASSUME UNCHANGED <<callVars, cancelling, wire, writing, token>>, NEW t, NEW m,
               tpc' = [tpc EXCEPT ![p][i] = t], mustCancel' = [mustCancel EXCEPT ![p][i] = m],
               asked[q][i] = 0 =>
                 ~m /\ t # "crashed" /\ (t \in {"replying", "failing", "ended"} =>
                                           tpc[p][i] \in {"replying", "failing", "ended"})
        PROVE  AllQuiet'
    <2>1. /\ tpc'[p][i] = t /\ mustCancel'[p][i] = m
          /\ \A r \in Peers, j \in Ids : r # p \/ j # i =>
               tpc'[r][j] = tpc[r][j] /\ mustCancel'[r][j] = mustCancel[r][j]
      BY <1>b, <1>e
    <2>2. NoStrayCancel /\ \A r \in Peers : InFlight(r)' = InFlight(r)
      BY <1>e DEF NoStrayCancel, InFlight
    <2>3. Quiet(q, i)'
      <3> SUFFICES ASSUME asked'[q][i] = 0 PROVE Unharmed(q, i)' /\ Answered(q, i)' BY DEF Quiet
      <3>1. asked[q][i] = 0 BY <1>e DEF callVars
      <3>2. Unharmed(q, i) /\ Answered(q, i) BY <1>d, <3>1 DEF Quiet
      <3>3. Unharmed(q, i)' BY <1>c, <1>e, <2>1, <2>2, <3>1, <3>2 DEF Unharmed, Cancels
      <3>4. Blocked(q, i)' => Blocked(q, i) BY <1>e DEF Blocked, HasEnding, callVars
      <3>5. ASSUME tpc'[p][i] \in {"replying", "failing", "ended"}, Blocked(q, i)'
            PROVE  \E f \in InFlight(p)' : Answering(f, i)
        BY <1>c, <1>e, <2>1, <2>2, <3>1, <3>2, <3>4, <3>5 DEF Answered
      <3>6. Answered(q, i)' BY <1>c, <3>5 DEF Answered, Answering
      <3> QED BY <3>3, <3>6
    <2>4. \A r \in Peers, j \in Ids : r # p \/ j # i => token'[r][j] = token[r][j] BY <1>e
    <2> QED BY <1>c, <1>e, <2>1, <2>2, <2>3, <2>4, TaskQuiets
  <1>1. CASE Start(p, i)
    <2>1. /\ UNCHANGED <<callVars, cancelling, token>> BY <1>1 DEF Start
    <2>2. CASE mustCancel[p][i]
      <3>1. PICK t, m : t = "ended" /\ m = FALSE OBVIOUS
      <3>2. /\ UNCHANGED <<wire, writing>> /\ tpc' = [tpc EXCEPT ![p][i] = t]
            /\ mustCancel' = [mustCancel EXCEPT ![p][i] = m]
        BY <1>1, <2>2, <3>1 DEF Start
      <3>3. asked[q][i] # 0 BY <1>c, <1>d, <2>2 DEF Quiet, Unharmed
      <3> QED BY <1>e, <2>1, <3>2, <3>3
    <2>3. CASE ~mustCancel[p][i] /\ token[p][i]
      <3>1. PICK k \in FinalKinds : k = ErrorKind(p, i, "cancelled") BY <1>a, ErrorKindFact
      <3>2. Answer(p, i, k) /\ Post(p, Msg(k, i)) /\ UNCHANGED mustCancel
        BY <1>1, <2>3, <3>1 DEF Start
      <3> QED BY <1>a, <2>1, <3>2, AnswerQuiet
    <2>4. CASE ~mustCancel[p][i] /\ ~token[p][i]
      <3>1. PICK t, m : t = "running" /\ m = FALSE OBVIOUS
      <3>2. UNCHANGED <<wire, writing, mustCancel>> /\ tpc' = [tpc EXCEPT ![p][i] = t]
        BY <1>1, <2>4, <3>1 DEF Start
      <3>3. mustCancel' = [mustCancel EXCEPT ![p][i] = m] 
        <4>1. mustCancel[p][i] = FALSE /\ mustCancel' = mustCancel BY <1>b, <2>4, <3>2
        <4> QED BY <1>b, <3>1, <4>1
      <3>4. ~m /\ t # "crashed" /\ t \notin {"replying", "failing", "ended"} BY <3>1
      <3> QED BY <1>e, <2>1, <3>2, <3>3, <3>4
    <2> QED BY <2>2, <2>3, <2>4
  <1>2. CASE HandlerReturns(p, i)
    <2>1. UNCHANGED <<callVars, cancelling, mustCancel, token>> BY <1>2 DEF HandlerReturns
    <2>2. PICK k \in FinalKinds \cup {"started"} : Answer(p, i, k) /\ Post(p, Msg(k, i))
      <3>1. ErrorKind(p, i, "error") \in FinalKinds /\ "ok" \in FinalKinds
        BY <1>a, ErrorKindFact DEF FinalKinds, ResultKinds
      <3> QED BY <1>2, <3>1 DEF HandlerReturns
    <2> QED BY <1>a, <2>1, <2>2, AnswerQuiet
  <1>3. CASE StreamEnds(p, i)
    <2>1. UNCHANGED <<callVars, cancelling, mustCancel, token>> BY <1>3 DEF StreamEnds
    <2>2. PICK k \in FinalKinds \cup {"started"} : Answer(p, i, k) /\ Post(p, Msg(k, i))
      BY <1>3 DEF StreamEnds, FinalKinds
    <2> QED BY <1>a, <2>1, <2>2, AnswerQuiet
  <1>4. CASE NextChunk(p, i)
    <2>1. UNCHANGED <<callVars, cancelling, mustCancel, token, tpc>> BY <1>4 DEF NextChunk
    <2>2. PICK f \in Frame : Post(p, f) /\ f.kind # "cancel"
      <3>1. PICK n \in 0 .. Chunks : n = sent[p][i] + 1
        BY <1>4, <1>a, PeerAssumption DEF NextChunk, PeerAssumption, TypeOK, TaskTypeOK
      <3>2. [kind |-> "delta", id |-> i, n |-> n] \in Frame BY DEF Frame, Kinds, EventKinds
      <3> QED BY <1>4, <3>1, <3>2 DEF NextChunk
    <2>3. NoStrayCancel /\ \A r \in Peers : InFlight(r) \subseteq InFlight(r)'
      BY <1>a, <2>2, SendKeeps
    <2>4. /\ \A r \in Peers, j \in Ids : asked'[r][j] = 0 => asked[r][j] = 0
          /\ \A r \in Peers, j \in Ids : Blocked(r, j)' => Blocked(r, j)
      BY <2>1 DEF callVars, Blocked, HasEnding
    <2> QED BY <2>1, <2>3, <2>4, CallerQuiet
  <1>5. CASE TaskDone(p, i)
    <2>1. UNCHANGED <<callVars, cancelling, wire, writing, token, mustCancel>>
          /\ tpc[p][i] \in {"replying", "failing"} /\ ~mustCancel[p][i]
      BY <1>5 DEF TaskDone, netVars
    <2>2. PICK t, m : t = "ended" /\ m = FALSE OBVIOUS
    <2>3. tpc' = [tpc EXCEPT ![p][i] = t] BY <1>5, <2>2 DEF TaskDone
    <2>4. mustCancel' = [mustCancel EXCEPT ![p][i] = m] 
      <3>1. mustCancel[p][i] = FALSE /\ mustCancel' = mustCancel BY <1>b, <2>1
      <3> QED BY <1>b, <2>2, <3>1
    <2> QED BY <1>e, <2>1, <2>2, <2>3, <2>4
  <1>6. CASE TaskSendRaises(p, i) BY <1>d, <1>6 DEF TaskSendRaises
  <1>7. CASE Interrupt(p, i) BY <1>7, <1>a, InterruptQuiet
  <1>8. CASE Suppress(p, i)
    <2>1. /\ UNCHANGED <<callVars, cancelling, wire, writing, token, tpc>>
          /\ tpc[p][i] \in {"running", "streaming"}
      BY <1>8 DEF Suppress, netVars
    <2>2. PICK t, m : t = tpc[p][i] /\ m = FALSE OBVIOUS
    <2>3. tpc' = [tpc EXCEPT ![p][i] = t] BY <1>b, <2>1, <2>2
    <2>4. mustCancel' = [mustCancel EXCEPT ![p][i] = m] BY <1>8, <2>2 DEF Suppress
    <2>5. t # "crashed" /\ t \notin {"replying", "failing", "ended"} BY <2>1, <2>2
    <2> QED BY <1>e, <2>1, <2>2, <2>3, <2>4, <2>5
  <1> QED BY <1>1, <1>2, <1>3, <1>4, <1>5, <1>6, <1>7, <1>8 DEF WorkStep, TaskStep

LEMMA QuietInit == Init => QuietInv
  <1> SUFFICES ASSUME Init, NEW p \in Peers, NEW i \in Ids PROVE Quiet(p, i)
    BY DEF QuietInv, AllQuiet
  <1>1. PICK q \in Peers : q = Other(p) BY PeersFact
  <1>2. /\ tpc[q][i] = "none" /\ ~mustCancel[q][i] /\ ~token[q][i] /\ cancelling[q] = 0
        /\ InFlight(p) = {}
    BY DEF Init, Per, All, InFlight
  <1>3. cancelling[q] # i BY <1>2, IdsFact
  <1>4. Unharmed(p, i) BY <1>1, <1>2, <1>3 DEF Unharmed
  <1>5. Answered(p, i) BY <1>1, <1>2 DEF Answered
  <1> QED BY <1>4, <1>5 DEF Quiet

LEMMA QuietNext == QuietBase /\ [Next]_vars => QuietInv'
  <1> SUFFICES ASSUME QuietBase, [Next]_vars, Up' PROVE AllQuiet' BY DEF QuietInv
  <1>a. TypeOK /\ ReplyInv /\ CallerInv BY DEF QuietBase, ReplyInv
  <1>b. Up BY <1>a, UpBack
  <1>c. AllQuiet BY <1>b DEF QuietBase, QuietInv
  <1>1. CASE UNCHANGED vars
    <2>1. /\ UNCHANGED <<tpc, mustCancel, token, cancelling, asked, wire, writing>>
          /\ UNCHANGED <<mode, cpc, reply, queue>>
      BY <1>1 DEF vars, callVars, taskVars, netVars
    <2>2. NoStrayCancel /\ \A p \in Peers : InFlight(p) \subseteq InFlight(p)'
      BY <1>a, <2>1, SendKeeps
    <2>3. \A p \in Peers, i \in Ids : Blocked(p, i)' => Blocked(p, i)
      BY <2>1 DEF Blocked, HasEnding
    <2> QED BY <1>c, <2>1, <2>2, <2>3, CallerQuiet
  <1>2. CASE LoseLink BY <1>2, <1>a, <1>b, NotUp
  <1>3. ASSUME NEW p \in Peers,
               \/ \E m \in {"unary", "stream"} : Invoke(p, m)
               \/ PeerStep(p) \/ Stop(p) \/ Refuse(p)
        PROVE  AllQuiet'
    <2>1. CASE \E m \in {"unary", "stream"} : Invoke(p, m) BY <1>a, <1>c, <2>1, InvokeQuiet
    <2>2. CASE Receive(p) BY <1>a, <1>c, <2>2, ReceiveQuiet
    <2>3. CASE WriteFrame(p) BY <1>a, <1>b, <1>c, <2>3, WriteQuiet
    <2>4. CASE CancelTask(p) BY <1>a, <1>c, <2>4, CancelQuiet
    <2>5. CASE Fail(p) \/ Refuse(p) \/ Stop(p) \/ StopDone(p) \/ Eof(p)
      BY <1>a, <1>b, <2>5, NotUp
    <2> QED BY <1>3, <2>1, <2>2, <2>3, <2>4, <2>5 DEF PeerStep
  <1>4. ASSUME NEW p \in Peers, NEW i \in Ids,
               \/ CallerStep(p, i) \/ Abandon(p, i) \/ CloseEarly(p, i) \/ Cancel(p, i)
        PROVE  AllQuiet'
    BY <1>4, <1>a, <1>c, CallersQuiet
  <1>5. ASSUME NEW p \in Peers, NEW i \in Ids,
               \/ WorkStep(p, i) \/ TaskStep(p, i) \/ NextChunk(p, i) \/ Suppress(p, i)
        PROVE  AllQuiet'
    BY <1>5, <1>a, <1>b, <1>c, StepQuiet
  <1> QED BY <1>1, <1>2, <1>3, <1>4, <1>5 DEF Next

(* On a live connection an inbound task that nobody cancelled never ends    *)
(* with its caller still waiting and no answer on the way, for every number *)
(* of calls and every interleaving: the answer is sent in the step in which *)
(* the task leaves its try block, and it stays in flight until the reader   *)
(* hands it to the caller it was matched with.                              *)
THEOREM NobodyForgotten == Spec => []NoSilentEnd
  <1>1. Init => QuietBase
    BY ReplyInit, InitType, FailureInit, QuietInit DEF QuietBase, CallerInv
  <1>2. QuietBase /\ [Next]_vars => QuietBase'
    BY ReplyNext, CallerInvNext, QuietNext DEF QuietBase
  <1>3. ASSUME QuietBase PROVE NoSilentEnd
    <2> SUFFICES ASSUME NEW p \in Peers, NEW i \in Ids, asked[p][i] = 0, SilentEnd(p, i)
                 PROVE  FALSE
      BY DEF NoSilentEnd
    <2>1. Up BY DEF SilentEnd, Up
    <2>2. Answered(p, i) BY <1>3, <2>1 DEF QuietBase, QuietInv, AllQuiet, Quiet
    <2>3. \A f \in InFlight(Other(p)) : ~Answering(f, i) BY DEF SilentEnd, InFlight
    <2> QED BY <2>2, <2>3 DEF Answered, SilentEnd
  <1> QED BY <1>1, <1>2, <1>3, PTL DEF Spec

-----------------------------------------------------------------------------
(* Two peers implement RpcContract: every step requests one call, enters   *)
(* one handler, settles one call, or changes nothing a caller may see.      *)

\* A call as its caller sees it is left alone.
Calm(p, i) ==
    /\ cpc'[p][i] = "idle" <=> cpc[p][i] = "idle"
    /\ cpc'[p][i] = "done" <=> cpc[p][i] = "done"
    /\ cpc[p][i] = "done" => reply'[p][i] = reply[p][i]

CalmBut(p, i) == \A q \in Peers, j \in Ids : q # p \/ j # i => Calm(q, j)

Requests(p, i) == /\ CalmBut(p, i) /\ UNCHANGED ran
                  /\ cpc[p][i] = "idle" /\ cpc'[p][i] \notin {"idle", "done"}
Settles(p, i)  == /\ CalmBut(p, i) /\ UNCHANGED ran
                  /\ cpc[p][i] \notin {"idle", "done"} /\ cpc'[p][i] = "done"
Enters(p, i)   == /\ UNCHANGED <<cpc, reply>> /\ cpc[p][i] # "idle"
                  /\ ran[Other(p)][i] = 0 /\ ran' = [ran EXCEPT ![Other(p)][i] = 1]
Unseen         == UNCHANGED ran /\ \A p \in Peers, i \in Ids : Calm(p, i)

LEMMA CallerSeen ==
  ASSUME ReplyInv, NEW p \in Peers, NEW i \in Ids,
         \/ CallerStep(p, i) \/ Abandon(p, i) \/ CloseEarly(p, i) \/ Cancel(p, i)
  PROVE  Settles(p, i) \/ Unseen
  <1>a. /\ cpc \in [Peers -> [Ids -> {"idle", "sending", "waiting", "open", "iterating", "done"}]]
        /\ reply \in [Peers -> [Ids -> Replies]]
    BY DEF ReplyInv, TypeOK, CallTypeOK
  <1>b. UNCHANGED ran
    BY DEF CallerStep, SendDone, SendRaises, Return, Iterate, NextItem, Abandon, CloseEarly,
           Cancel, taskVars
  <1>1. ASSUME cpc[p][i] \notin {"idle", "done"}, cpc' = [cpc EXCEPT ![p][i] = "done"],
               NEW r, (reply' = [reply EXCEPT ![p][i] = r]) \/ (reply' = reply)
        PROVE  Settles(p, i)
    <2>1. CalmBut(p, i) BY <1>a, <1>1 DEF CalmBut, Calm
    <2> QED BY <1>a, <1>b, <1>1, <2>1 DEF Settles
  <1>2. ASSUME cpc[p][i] \notin {"idle", "done"}, NEW c, c \notin {"idle", "done"},
               (cpc' = cpc) \/ (cpc' = [cpc EXCEPT ![p][i] = c]), reply' = reply
        PROVE  Unseen
    BY <1>a, <1>b, <1>2 DEF Unseen, Calm
  <1>3. CASE SendDone(p, i)
    <2>1. PICK c : c = IF mode[p][i] = "unary" THEN "waiting" ELSE "open" OBVIOUS
    <2>2. c \notin {"idle", "done"} BY <2>1
    <2>3. cpc[p][i] = "sending" /\ cpc' = [cpc EXCEPT ![p][i] = c] /\ reply' = reply
      BY <1>3, <2>1 DEF SendDone
    <2> QED BY <1>2, <2>2, <2>3
  <1>4. CASE SendRaises(p, i) BY <1>1, <1>4 DEF SendRaises
  <1>5. CASE Return(p, i) BY <1>1, <1>5 DEF Return
  <1>6. CASE Abandon(p, i)
    <2>1. PICK r : r = IF reply[p][i] = "pending" THEN "dropped" ELSE reply[p][i] OBVIOUS
    <2>2. cpc[p][i] \in {"sending", "waiting", "open"} /\ cpc' = [cpc EXCEPT ![p][i] = "done"]
          /\ reply' = [reply EXCEPT ![p][i] = r]
      BY <1>6, <2>1 DEF Abandon
    <2> QED BY <1>1, <2>2
  <1>7. CASE Iterate(p, i)
    <2>1. PICK c : c = "iterating" OBVIOUS
    <2>2. /\ cpc[p][i] \notin {"idle", "done"} /\ c \notin {"idle", "done"}
          /\ cpc' = [cpc EXCEPT ![p][i] = c] /\ reply' = reply
      BY <1>7, <2>1 DEF Iterate
    <2> QED BY <1>2, <2>2
  <1>8. CASE Cancel(p, i)
    <2>1. cpc[p][i] \notin {"idle", "done"} /\ cpc' = cpc /\ reply' = reply BY <1>8 DEF Cancel
    <2>2. PICK c : c = "open" OBVIOUS
    <2> QED BY <1>2, <2>1, <2>2
  <1>9. CASE CloseEarly(p, i) BY <1>1, <1>9 DEF CloseEarly, Finish
  <1>10. CASE NextItem(p, i)
    <2>1. PICK x : x = Head(queue[p][i]) OBVIOUS
    <2>2. CASE x.kind \in Endings
      <3>1. Finish(p, i, x.kind) /\ cpc[p][i] = "iterating" BY <1>10, <2>1, <2>2 DEF NextItem
      <3>2. PICK r : r = x.kind OBVIOUS
      <3>3. cpc' = [cpc EXCEPT ![p][i] = "done"] /\ reply' = [reply EXCEPT ![p][i] = r]
        BY <3>1, <3>2 DEF Finish
      <3> QED BY <1>1, <3>1, <3>3
    <2>3. CASE x.kind \notin Endings
      <3>1. cpc' = cpc /\ reply' = reply /\ cpc[p][i] = "iterating"
        BY <1>10, <2>1, <2>3 DEF NextItem
      <3>2. PICK c : c = "open" OBVIOUS
      <3> QED BY <1>2, <3>1, <3>2
    <2> QED BY <2>2, <2>3
  <1> QED BY <1>3, <1>4, <1>5, <1>6, <1>7, <1>8, <1>9, <1>10 DEF CallerStep

LEMMA InvokeSeen ==
  ASSUME ReplyInv, NEW p \in Peers, NEW m \in {"unary", "stream"}, Invoke(p, m)
  PROVE  \E i \in Ids : Requests(p, i)
  <1>a. /\ cpc \in [Peers -> [Ids -> {"idle", "sending", "waiting", "open", "iterating", "done"}]]
        /\ reply \in [Peers -> [Ids -> Replies]] /\ counter \in [Peers -> Nat]
    BY DEF ReplyInv, TypeOK, CallTypeOK
  <1>1. PICK i \in Ids : i = counter[p] + 1
    <2>1. counter[p] + 1 \in Ids
      BY <1>a, PeerAssumption DEF Invoke, Ids, Peers, PeerAssumption
    <2> QED BY <2>1
  <1>2. cpc[p][i] = "idle"
    <2>1. CallOK(p, i) BY DEF ReplyInv, CallsOK
    <2> QED BY <1>a, <1>1, <2>1 DEF CallOK
  <1>3. /\ cpc' = [cpc EXCEPT ![p][i] = "sending"] /\ reply' = [reply EXCEPT ![p][i] = "pending"]
        /\ UNCHANGED ran
    BY <1>1 DEF Invoke, taskVars
  <1>4. CalmBut(p, i) BY <1>a, <1>3 DEF CalmBut, Calm
  <1> QED BY <1>a, <1>2, <1>3, <1>4 DEF Requests

LEMMA ConnectionSeen ==
  ASSUME ReplyInv, NEW p \in Peers, PeerStep(p) \/ Stop(p) \/ Refuse(p) \/ LoseLink
  PROVE  Unseen
  <1>a. reply \in [Peers -> [Ids -> Replies]] BY DEF ReplyInv, TypeOK, CallTypeOK
  <1>1. ASSUME UNCHANGED <<cpc, ran>>,
               \A q \in Peers, j \in Ids : reply[q][j] # "pending" => reply'[q][j] = reply[q][j]
        PROVE  Unseen
    <2>1. \A q \in Peers, j \in Ids : cpc[q][j] = "done" => reply[q][j] # "pending"
      BY DEF ReplyInv, CallsOK, CallOK
    <2> QED BY <1>1, <2>1 DEF Unseen, Calm
  <1>2. CASE UNCHANGED <<callVars, ran>>
    <2>1. UNCHANGED <<cpc, ran, reply>> BY <1>2 DEF callVars
    <2> QED BY <1>1, <2>1
  <1>3. ASSUME Release(p) PROVE Unseen
    <2>1. UNCHANGED <<cpc, ran>> BY <1>3 DEF Release
    <2>2. \A q \in Peers, j \in Ids : reply[q][j] # "pending" => reply'[q][j] = reply[q][j]
      BY <1>a, <1>3 DEF Release
    <2> QED BY <1>1, <2>1, <2>2
  <1>4. ASSUME FailConnection(p) PROVE Unseen
    BY <1>2, <1>3, <1>4 DEF FailConnection, taskVars
  <1>5. CASE Fail(p) \/ Stop(p) \/ Refuse(p) BY <1>3, <1>4, <1>5 DEF Fail, Stop, Refuse
  <1>6. CASE WriteFrame(p) \/ CancelTask(p) \/ StopDone(p) \/ Eof(p) \/ LoseLink
    BY <1>2, <1>6 DEF WriteFrame, CancelTask, StopDone, Eof, LoseLink, taskVars
  <1>7. CASE Receive(p)
    <2>1. PICK f : f = Head(wire[Other(p)]) OBVIOUS
    <2>2. FrameOK(Other(p), f) /\ f \in Frame /\ f.id \in Ids
      <3>1. f \in InFlight(Other(p)) /\ Other(p) \in Peers
        BY <1>7, <2>1, PeersFact, ReadFlight DEF Receive, Reading, ReplyInv
      <3> QED BY <3>1, FlightType DEF ReplyInv, FramesOK, Frame
    <2>3. CASE HandleInvoke(p, f) \/ HandleCancel(p, f)
      BY <1>2, <2>3 DEF HandleInvoke, HandleCancel
    <2>4. CASE f.kind \in ResultKinds /\ HandleResult(p, f)
      <3>1. UNCHANGED <<cpc, ran>> BY <2>4 DEF HandleResult, taskVars
      <3>2. \A q \in Peers, j \in Ids : reply[q][j] # "pending" => reply'[q][j] = reply[q][j]
        BY <1>a, <2>2, <2>4 DEF HandleResult
      <3> QED BY <1>1, <3>1, <3>2
    <2>5. CASE f.kind \in EventKinds /\ HandleEvent(p, f)
      <3>1. UNCHANGED <<cpc, ran>> BY <2>5 DEF HandleEvent, taskVars
      <3>2. \A q \in Peers, j \in Ids : reply[q][j] # "pending" => reply'[q][j] = reply[q][j]
        BY <1>a, <2>2, <2>5 DEF HandleEvent
      <3> QED BY <1>1, <3>1, <3>2
    <2> QED BY <1>7, <2>1, <2>3, <2>4, <2>5 DEF Receive
  <1> QED BY <1>5, <1>6, <1>7 DEF PeerStep

LEMMA TaskSeen ==
  ASSUME ReplyInv, NEW p \in Peers, NEW i \in Ids,
         \/ WorkStep(p, i) \/ TaskStep(p, i) \/ NextChunk(p, i) \/ Suppress(p, i)
  PROVE  Enters(Other(p), i) \/ Unseen
  <1>1. UNCHANGED <<cpc, reply>>
    BY DEF WorkStep, TaskStep, NextChunk, Suppress, HandlerReturns, StreamEnds, Start, TaskDone,
           TaskSendRaises, Interrupt, callVars
  <1>2. ASSUME UNCHANGED ran PROVE Unseen BY <1>1, <1>2 DEF Unseen, Calm
  <1>3. CASE Start(p, i) /\ ~UNCHANGED ran
    <2>1. ran' = [ran EXCEPT ![p][i] = @ + 1] /\ tpc[p][i] = "created" BY <1>3 DEF Start
    <2>2. TaskOK(p, i) /\ Other(Other(p)) = p BY DEF ReplyInv, TasksOK, Peers, Other
    <2>3. ran[p][i] = 0 /\ cpc[Other(p)][i] # "idle" BY <2>1, <2>2 DEF TaskOK
    <2>4. ran' = [ran EXCEPT ![p][i] = 1]
      BY <2>1, <2>3 DEF ReplyInv, TypeOK, TaskTypeOK
    <2> QED BY <1>1, <2>2, <2>3, <2>4 DEF Enters
  <1>4. CASE ~Start(p, i)
    <2>1. UNCHANGED ran
      BY <1>4 DEF WorkStep, TaskStep, NextChunk, Suppress, HandlerReturns, StreamEnds, TaskDone,
             TaskSendRaises, Interrupt
    <2> QED BY <1>2, <2>1
  <1> QED BY <1>2, <1>3, <1>4

LEMMA NextSeen ==
  ASSUME ReplyInv, [Next]_vars
  PROVE  \/ Unseen
         \/ \E p \in Peers, i \in Ids : Requests(p, i) \/ Settles(p, i) \/ Enters(p, i)
  <1>1. CASE UNCHANGED vars
    BY <1>1 DEF vars, callVars, taskVars, Unseen, Calm
  <1>2. CASE LoseLink
    <2>1. PICK p \in Peers : TRUE BY DEF Peers
    <2> QED BY <1>2, <2>1, ConnectionSeen
  <1>3. ASSUME NEW p \in Peers,
               \/ \E m \in {"unary", "stream"} : Invoke(p, m)
               \/ PeerStep(p) \/ Stop(p) \/ Refuse(p)
        PROVE  Unseen \/ \E i \in Ids : Requests(p, i)
    BY <1>3, InvokeSeen, ConnectionSeen
  <1>4. ASSUME NEW p \in Peers, NEW i \in Ids,
               \/ CallerStep(p, i) \/ WorkStep(p, i) \/ TaskStep(p, i)
               \/ NextChunk(p, i) \/ Suppress(p, i)
               \/ Abandon(p, i) \/ CloseEarly(p, i) \/ Cancel(p, i)
        PROVE  Unseen \/ Settles(p, i) \/ Enters(Other(p), i)
    BY <1>4, CallerSeen, TaskSeen
  <1> QED BY <1>1, <1>2, <1>3, <1>4, PeersFact DEF Next

\* The contract's variables, call by call.
StatusOf(p, i) == CASE cpc[p][i] = "idle" -> "idle"
                    [] cpc[p][i] = "done" -> "settled"
                    [] OTHER              -> "active"
ResultOf(p, i) == IF cpc[p][i] = "done" THEN reply[p][i] ELSE "none"

Status == [c \in Peers \X Ids |-> StatusOf(c[1], c[2])]
Runs   == [c \in Peers \X Ids |-> ran[Other(c[1])][c[2]]]
Result == [c \in Peers \X Ids |-> ResultOf(c[1], c[2])]

LEMMA CalmMaps ==
  ASSUME NEW p \in Peers, NEW i \in Ids, Calm(p, i)
  PROVE  StatusOf(p, i)' = StatusOf(p, i) /\ ResultOf(p, i)' = ResultOf(p, i)
  BY DEF Calm, StatusOf, ResultOf

LEMMA UnseenMaps ==
  ASSUME Unseen
  PROVE  Status' = Status /\ Runs' = Runs /\ Result' = Result
  <1>1. \A c \in Peers \X Ids : /\ StatusOf(c[1], c[2])' = StatusOf(c[1], c[2])
                                /\ ResultOf(c[1], c[2])' = ResultOf(c[1], c[2])
    BY CalmMaps DEF Unseen
  <1>2. Status' = Status BY <1>1 DEF Status
  <1>3. Result' = Result BY <1>1 DEF Result
  <1>4. Runs' = Runs BY DEF Runs, Unseen
  <1> QED BY <1>2, <1>3, <1>4

LEMMA CalmButMaps ==
  ASSUME NEW p \in Peers, NEW i \in Ids, CalmBut(p, i), NEW s, NEW r,
         StatusOf(p, i)' = s, ResultOf(p, i)' = r
  PROVE  /\ Status' = [Status EXCEPT ![<<p, i>>] = s]
         /\ Result' = [Result EXCEPT ![<<p, i>>] = r]
  <1>1. \A c \in Peers \X Ids : c # <<p, i>> =>
          /\ StatusOf(c[1], c[2])' = StatusOf(c[1], c[2])
          /\ ResultOf(c[1], c[2])' = ResultOf(c[1], c[2])
    <2> SUFFICES ASSUME NEW q \in Peers, NEW j \in Ids, <<q, j>> # <<p, i>>
                 PROVE  StatusOf(q, j)' = StatusOf(q, j) /\ ResultOf(q, j)' = ResultOf(q, j)
      OBVIOUS
    <2> QED BY CalmMaps DEF CalmBut
  <1>2. \A c \in Peers \X Ids : c # <<p, i>> => Status'[c] = Status[c] /\ Result'[c] = Result[c]
    BY <1>1 DEF Status, Result
  <1>3. Status'[<<p, i>>] = s /\ Result'[<<p, i>>] = r BY DEF Status, Result
  <1>4. /\ DOMAIN Status' = Peers \X Ids /\ Status' = [c \in Peers \X Ids |-> Status'[c]]
        /\ DOMAIN Result' = Peers \X Ids /\ Result' = [c \in Peers \X Ids |-> Result'[c]]
        /\ DOMAIN Status = Peers \X Ids /\ DOMAIN Result = Peers \X Ids
    BY DEF Status, Result
  <1>5. Status' = [Status EXCEPT ![<<p, i>>] = s] BY <1>2, <1>3, <1>4
  <1>6. Result' = [Result EXCEPT ![<<p, i>>] = r] BY <1>2, <1>3, <1>4
  <1> QED BY <1>5, <1>6

LEMMA SuccessSeen ==
  ASSUME ReplyInv'
  PROVE  \A p \in Peers, i \in Ids :
           reply'[p][i] \in {"ok", "completed"} => ran'[Other(p)][i] = 1
  <1>1. TasksOK' /\ CallsOK' BY DEF ReplyInv
  <1> QED BY <1>1, PeersFact DEF TasksOK, CallsOK, TaskOK, CallOK, FinalKinds, ResultKinds

LEMMA ContractStep ==
  ASSUME ReplyInv, ReplyInv', [Next]_vars
  PROVE  [Contract!ContractNext]_(Contract!contractVars)
  <1>1. CASE Unseen
    <2>1. Status' = Status /\ Runs' = Runs /\ Result' = Result BY <1>1, UnseenMaps
    <2> QED BY <2>1 DEF Contract!contractVars, Status, Runs, Result, StatusOf, ResultOf
  <1>2. ASSUME NEW p \in Peers, NEW i \in Ids, Requests(p, i)
        PROVE  Contract!Request(<<p, i>>)
    <2>1. /\ StatusOf(p, i) = "idle" /\ StatusOf(p, i)' = "active"
          /\ ResultOf(p, i) = "none" /\ ResultOf(p, i)' = "none"
      BY <1>2 DEF Requests, StatusOf, ResultOf
    <2>2. /\ Status' = [Status EXCEPT ![<<p, i>>] = "active"]
          /\ Result' = [Result EXCEPT ![<<p, i>>] = "none"]
      BY <1>2, <2>1, CalmButMaps DEF Requests
    <2>3. Status[<<p, i>>] = "idle" /\ Result[<<p, i>>] = "none" /\ Runs' = Runs
      BY <1>2, <2>1 DEF Status, Result, Runs, Requests
    <2>4. Result' = Result BY <2>2, <2>3 DEF Result
    <2> QED BY <2>2, <2>3, <2>4 DEF Contract!Request, Status, Runs, Result, StatusOf, ResultOf
  <1>3. ASSUME NEW p \in Peers, NEW i \in Ids, Settles(p, i)
        PROVE  \E r \in Replies : Contract!Settle(<<p, i>>, r)
    <2>1. PICK r \in Replies : r = reply'[p][i] BY DEF ReplyInv, TypeOK, CallTypeOK
    <2>2. /\ StatusOf(p, i) = "active" /\ StatusOf(p, i)' = "settled"
          /\ ResultOf(p, i)' = r
      BY <1>3, <2>1 DEF Settles, StatusOf, ResultOf
    <2>3. /\ Status' = [Status EXCEPT ![<<p, i>>] = "settled"]
          /\ Result' = [Result EXCEPT ![<<p, i>>] = r]
      BY <1>3, <2>2, CalmButMaps DEF Settles
    <2>4. Status[<<p, i>>] = "active" /\ Runs' = Runs BY <1>3, <2>2 DEF Status, Runs, Settles
    <2>5. r \in {"ok", "completed"} => ran'[Other(p)][i] = 1
      BY <2>1, SuccessSeen
    <2>6. r \in {"ok", "completed"} => Runs[<<p, i>>] = 1
      BY <1>3, <2>5 DEF Runs, Settles
    <2>7. Contract!Settle(<<p, i>>, r)
      BY <2>3, <2>4, <2>6 DEF Contract!Settle, Status, Runs, Result, StatusOf, ResultOf
    <2> QED BY <2>7
  <1>4. ASSUME NEW p \in Peers, NEW i \in Ids, Enters(p, i)
        PROVE  Contract!Execute(<<p, i>>)
    <2>1. Status' = Status /\ Result' = Result
      BY <1>4 DEF Enters, Status, Result, StatusOf, ResultOf
    <2>2. Status[<<p, i>>] # "idle" /\ Runs[<<p, i>>] = 0
      BY <1>4 DEF Enters, Status, StatusOf, Runs
    <2>3. ran \in [Peers -> [Ids -> Nat]] BY DEF ReplyInv, TypeOK, TaskTypeOK
    <2>4. \A q \in Peers, j \in Ids : <<q, j>> # <<p, i>> => ran'[Other(q)][j] = ran[Other(q)][j]
      BY <1>4, <2>3 DEF Enters, Other, Peers
    <2>5. ran'[Other(p)][i] = 1 BY <1>4, <2>3, PeersFact DEF Enters
    <2>6. \A c \in Peers \X Ids : c # <<p, i>> => Runs'[c] = Runs[c]
      <3> SUFFICES ASSUME NEW q \in Peers, NEW j \in Ids, <<q, j>> # <<p, i>>
                   PROVE  Runs'[<<q, j>>] = Runs[<<q, j>>]
        OBVIOUS
      <3> QED BY <2>4 DEF Runs
    <2>7. /\ DOMAIN Runs' = Peers \X Ids /\ Runs' = [c \in Peers \X Ids |-> Runs'[c]]
          /\ DOMAIN Runs = Peers \X Ids /\ Runs'[<<p, i>>] = 1
      BY <2>5 DEF Runs
    <2>8. Runs' = [Runs EXCEPT ![<<p, i>>] = 1] BY <2>6, <2>7
    <2> QED BY <2>1, <2>2, <2>8 DEF Contract!Execute, Status, Runs, Result, StatusOf, ResultOf
  <1> QED BY <1>1, <1>2, <1>3, <1>4, NextSeen DEF Contract!ContractNext

(* Two peers implement the contract of RpcContract, for every bound on      *)
(* calls and chunks: handlers are entered at most once and only for calls   *)
(* made, and a call that has ended stays ended with the same result.        *)
THEOREM PeersImplementContract == Spec => ImplementsContract
  <1>1. Init => Contract!ContractInit
    BY PeersFact DEF Init, Per, Contract!ContractInit
  <1>2. ReplyInv /\ ReplyInv' /\ [Next]_vars => [Contract!ContractNext]_(Contract!contractVars)
    BY ContractStep
  <1> QED BY <1>1, <1>2, ReplyCorrect, PTL DEF Spec, ImplementsContract, Contract!ContractSpec
=============================================================================
