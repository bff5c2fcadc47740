----------------------------- MODULE PeerProofs -----------------------------
(***************************************************************************)
(* What holds of a connection for every bound on the calls, the chunks and *)
(* the cancels, and every kind of transport.                               *)
(***************************************************************************)
EXTENDS Peer, SequenceTheorems, TLAPS

LEMMA PeersFact == \A p \in Peers : Other(p) \in Peers /\ Other(p) # p
  BY DEF Peers, Other

LEMMA IdsFact == Ids \subseteq Nat /\ Ids \subseteq Nat \ {0}
  <1>1. Limit["supervisor"] \in Nat /\ Limit["worker"] \in Nat
    BY PeerAssumption DEF PeerAssumption, Peers
  <1> QED BY <1>1 DEF Ids

LEMMA FrameFact == \A i \in Ids, k \in Kinds : Msg(k, i) \in Frame
  BY PeerAssumption DEF Frame, Msg, PeerAssumption

LEMMA ItemFact == \A i \in Ids, k \in EventKinds \cup Endings : Msg(k, i) \in Item
  BY PeerAssumption DEF Item, Msg, PeerAssumption

\* Sending keeps the types of the two places a frame can be in.
LEMMA PostType ==
  ASSUME NetTypeOK, NEW p \in Peers, NEW f \in Frame, Post(p, f)
  PROVE  wire' \in [Peers -> Seq(Frame)] /\ writing' \in [Peers -> SUBSET Frame]
  <1>1. wire \in [Peers -> Seq(Frame)] /\ writing \in [Peers -> SUBSET Frame]
    BY DEF NetTypeOK
  <1>2. Append(wire[p], f) \in Seq(Frame) BY <1>1, AppendProperties
  <1>3. writing[p] \cup {f} \in SUBSET Frame BY <1>1
  <1> QED BY <1>1, <1>2, <1>3 DEF Post

THEOREM InitType == Init => TypeOK
  <1> SUFFICES ASSUME Init PROVE TypeOK OBVIOUS
  <1>1. Limit["supervisor"] \in Nat /\ Limit["worker"] \in Nat /\ Chunks \in Nat
    BY PeerAssumption DEF PeerAssumption, Peers
  <1>2. CallTypeOK BY EmptySeq DEF Init, CallTypeOK, Per, All, Replies, Ids
  <1>3. TaskTypeOK BY <1>1 DEF Init, TaskTypeOK, Per, All
  <1>4. NetTypeOK BY EmptySeq DEF Init, NetTypeOK, Per, All
  <1> QED BY <1>2, <1>3, <1>4 DEF TypeOK

\* Taking an id out of, or putting one into, a table keeps its type.
LEMMA TableFact ==
  ASSUME NEW t \in [Peers -> SUBSET Ids], NEW p \in Peers, NEW i \in Ids
  PROVE  /\ [t EXCEPT ![p] = @ \ {i}] \in [Peers -> SUBSET Ids]
         /\ [t EXCEPT ![p] = @ \cup {i}] \in [Peers -> SUBSET Ids]
  <1>1. t[p] \ {i} \in SUBSET Ids /\ t[p] \cup {i} \in SUBSET Ids OBVIOUS
  <1> QED BY <1>1

\* Changing one call's entry keeps the type of a table over the calls.
LEMMA CellFact ==
  ASSUME NEW S, NEW t \in [Peers -> [Ids -> S]], NEW p \in Peers, NEW i \in Ids, NEW x \in S
  PROVE  [t EXCEPT ![p][i] = x] \in [Peers -> [Ids -> S]]
  OBVIOUS

LEMMA Same ==
  ASSUME TypeOK
  PROVE  /\ UNCHANGED callVars => CallTypeOK'
         /\ UNCHANGED taskVars => TaskTypeOK'
         /\ UNCHANGED <<netVars, connVars>> => NetTypeOK'
  <1>1. UNCHANGED callVars => CallTypeOK' BY DEF TypeOK, CallTypeOK, callVars
  <1>2. UNCHANGED taskVars => TaskTypeOK' BY DEF TypeOK, TaskTypeOK, taskVars, Live
  <1>3. UNCHANGED <<netVars, connVars>> => NetTypeOK'
    BY DEF TypeOK, NetTypeOK, netVars, connVars
  <1> QED BY <1>1, <1>2, <1>3

\* A send changes only the two places a frame can be in.
LEMMA PostKeepsNet ==
  ASSUME TypeOK, NEW p \in Peers, NEW f \in Frame, Post(p, f),
         UNCHANGED <<connVars, cancelling, down, eof>>
  PROVE  NetTypeOK'
  <1>1. wire' \in [Peers -> Seq(Frame)] /\ writing' \in [Peers -> SUBSET Frame]
    BY PostType DEF TypeOK
  <1> QED BY <1>1 DEF TypeOK, NetTypeOK, connVars

LEMMA ReleaseType ==
  ASSUME TypeOK, NEW p \in Peers, Release(p)
  PROVE  CallTypeOK' /\ TaskTypeOK'
  <1>1. \A i \in Ids : queue[p][i] \in Seq(Item) /\ Append(queue[p][i], Msg("lost", i)) \in Seq(Item)
    BY ItemFact, AppendProperties DEF TypeOK, CallTypeOK, Endings
  <1>2. queue' \in [Peers -> [Ids -> Seq(Item)]]
    BY <1>1 DEF TypeOK, CallTypeOK, Release
  <1>3. reply' \in [Peers -> [Ids -> Replies]]
    BY DEF TypeOK, CallTypeOK, Release, Replies, Endings
  <1>4. CallTypeOK'
    BY <1>2, <1>3 DEF TypeOK, CallTypeOK, Release
  <1>5. TaskTypeOK'
    BY DEF TypeOK, TaskTypeOK, Release
  <1> QED BY <1>4, <1>5

LEMMA FailType ==
  ASSUME TypeOK, NEW p \in Peers, FailConnection(p)
  PROVE  CallTypeOK' /\ TaskTypeOK' /\ unusable' \in [Peers -> BOOLEAN]
  <1>1. CASE unusable[p]
    BY <1>1, Same DEF FailConnection, TypeOK, NetTypeOK
  <1>2. CASE ~unusable[p]
    BY <1>2, ReleaseType DEF FailConnection, TypeOK, NetTypeOK
  <1> QED BY <1>1, <1>2

-----------------------------------------------------------------------------
(* Type correctness, one lemma per group of actions. *)

LEMMA InvokeType ==
  ASSUME TypeOK, NEW p \in Peers, NEW m \in {"unary", "stream"}, Invoke(p, m)
  PROVE  TypeOK'
  <1> DEFINE i == counter[p] + 1
             k == IF m = "unary" THEN "invoke" ELSE "invoke_stream"
  <1>1. counter[p] \in Nat /\ counter[p] < Limit[p] BY DEF Invoke, TypeOK, CallTypeOK
  <1>2. i \in Ids BY <1>1, PeerAssumption DEF Ids, Peers, PeerAssumption
  <1>3. CallTypeOK'
    <2> USE <1>1, <1>2 DEF TypeOK, CallTypeOK
    <2>1. counter' \in [Peers -> Nat] BY DEF Invoke
    <2>2. /\ mode' \in [Peers -> [Ids -> {"unary", "stream"}]]
          /\ cpc' \in [Peers -> [Ids -> {"idle", "sending", "waiting", "open", "iterating", "done"}]]
      BY DEF Invoke
    <2>3. reply' \in [Peers -> [Ids -> Replies]] BY DEF Invoke, Replies
    <2>4. pending' \in [Peers -> SUBSET Ids] /\ streams' \in [Peers -> SUBSET Ids]
      <3>1. pending[p] \cup {i} \in SUBSET Ids /\ streams[p] \cup {i} \in SUBSET Ids
        OBVIOUS
      <3> QED BY <3>1 DEF Invoke
    <2>5. late' \in [Peers -> [Ids -> BOOLEAN]] BY DEF Invoke
    <2>6. UNCHANGED <<queue, got, asked>> BY DEF Invoke
    <2> QED BY <2>1, <2>2, <2>3, <2>4, <2>5, <2>6
  <1>4. Msg(k, i) \in Frame BY <1>2, FrameFact DEF Kinds
  <1>5. Post(p, Msg(k, i)) /\ UNCHANGED <<taskVars, connVars, cancelling, down, eof>>
    BY DEF Invoke
  <1>6. NetTypeOK' BY <1>4, <1>5, PostKeepsNet
  <1> QED BY <1>3, <1>5, <1>6, Same DEF TypeOK

LEMMA CallerType ==
  ASSUME TypeOK, NEW p \in Peers, NEW i \in Ids,
         \/ SendDone(p, i) \/ SendRaises(p, i) \/ Return(p, i)
         \/ Abandon(p, i) \/ Iterate(p, i)
  PROVE  TypeOK'
  <1>1. UNCHANGED <<taskVars, netVars, connVars>>
    BY DEF SendDone, SendRaises, Return, Abandon, Iterate
  <1>2. SendDone(p, i) => CallTypeOK' BY DEF SendDone, TypeOK, CallTypeOK
  <1>3. SendRaises(p, i) => CallTypeOK' BY DEF SendRaises, TypeOK, CallTypeOK, Replies
  <1>4. Return(p, i) => CallTypeOK' BY DEF Return, TypeOK, CallTypeOK
  <1>5. Abandon(p, i) => CallTypeOK' BY DEF Abandon, TypeOK, CallTypeOK, Replies
  <1>6. Iterate(p, i) => CallTypeOK' BY DEF Iterate, TypeOK, CallTypeOK
  <1> QED BY <1>1, <1>2, <1>3, <1>4, <1>5, <1>6, Same DEF TypeOK

LEMMA FinishType ==
  ASSUME TypeOK, NEW p \in Peers, NEW i \in Ids, NEW how \in Endings \cup {"closed"},
         Finish(p, i, how)
  PROVE  /\ cpc' \in [Peers -> [Ids -> {"idle", "sending", "waiting", "open", "iterating", "done"}]]
         /\ reply' \in [Peers -> [Ids -> Replies]]
         /\ streams' \in [Peers -> SUBSET Ids]
         /\ asked' \in [Peers -> [Ids -> Nat]]
         /\ wire' \in [Peers -> Seq(Frame)] /\ writing' \in [Peers -> SUBSET Frame]
  <1>1. cpc' \in [Peers -> [Ids -> {"idle", "sending", "waiting", "open", "iterating", "done"}]]
    BY DEF Finish, TypeOK, CallTypeOK
  <1>2. reply' \in [Peers -> [Ids -> Replies]]
    BY DEF Finish, TypeOK, CallTypeOK, Replies
  <1>3. streams' \in [Peers -> SUBSET Ids]
    BY DEF Finish, TypeOK, CallTypeOK
  <1>4. CASE how \in {"completed", "failed"}
    BY <1>1, <1>2, <1>3, <1>4 DEF Finish, TypeOK, CallTypeOK, NetTypeOK
  <1>5. CASE how \notin {"completed", "failed"}
    <2>1. asked' = [asked EXCEPT ![p][i] = @ + 1] /\ Post(p, Msg("cancel", i))
      BY <1>5 DEF Finish
    <2>2. asked' \in [Peers -> [Ids -> Nat]] BY <2>1 DEF TypeOK, CallTypeOK
    <2>3. Msg("cancel", i) \in Frame BY FrameFact DEF Kinds
    <2> QED BY <1>1, <1>2, <1>3, <2>1, <2>2, <2>3, PostType DEF TypeOK
  <1> QED BY <1>4, <1>5

LEMMA NextItemType ==
  ASSUME TypeOK, NEW p \in Peers, NEW i \in Ids, NextItem(p, i)
  PROVE  TypeOK'
  <1> DEFINE item == Head(queue[p][i])
  <1>1. queue[p][i] \in Seq(Item) /\ queue[p][i] # <<>>
    BY DEF NextItem, TypeOK, CallTypeOK
  <1>2. item \in Item /\ Tail(queue[p][i]) \in Seq(Item)
    BY <1>1, HeadTailProperties
  <1>3. queue' \in [Peers -> [Ids -> Seq(Item)]]
    BY <1>2 DEF NextItem, TypeOK, CallTypeOK
  <1>4. /\ UNCHANGED <<counter, mode, pending, late>>
        /\ UNCHANGED taskVars
        /\ UNCHANGED <<connVars, cancelling, down, eof>>
    BY DEF NextItem
  <1>5. CASE item.kind \in Endings
    <2>1. Finish(p, i, item.kind) /\ UNCHANGED got BY <1>5 DEF NextItem
    <2>2. CallTypeOK'
      BY <1>3, <1>4, <1>5, <2>1, FinishType DEF TypeOK, CallTypeOK
    <2>3. NetTypeOK'
      BY <1>4, <1>5, <2>1, FinishType DEF TypeOK, NetTypeOK, connVars
    <2> QED BY <2>2, <2>3, <1>4, Same DEF TypeOK
  <1>6. CASE item.kind \notin Endings
    <2>1. /\ got' = IF item.kind # "delta" THEN got
                      ELSE [got EXCEPT ![p][i] = Append(@, item.n)]
          /\ UNCHANGED <<cpc, reply, streams, asked, wire, writing>>
      BY <1>6 DEF NextItem
    <2>2. got[p][i] \in Seq(0 .. Chunks) /\ item.n \in 0 .. Chunks
      BY <1>2 DEF TypeOK, CallTypeOK, Item
    <2>3. Append(got[p][i], item.n) \in Seq(0 .. Chunks) BY <2>2, AppendProperties
    <2>4. got' \in [Peers -> [Ids -> Seq(0 .. Chunks)]]
      BY <2>1, <2>3 DEF TypeOK, CallTypeOK
    <2>5. CallTypeOK' BY <1>3, <1>4, <2>1, <2>4 DEF TypeOK, CallTypeOK
    <2>6. UNCHANGED <<netVars, connVars>> BY <1>4, <2>1 DEF netVars
    <2> QED BY <1>4, <2>5, <2>6, Same DEF TypeOK
  <1> QED BY <1>5, <1>6

LEMMA ConsumerType ==
  ASSUME TypeOK, NEW p \in Peers, NEW i \in Ids, CloseEarly(p, i) \/ Cancel(p, i)
  PROVE  TypeOK'
  <1>1. UNCHANGED taskVars /\ UNCHANGED <<connVars, cancelling, down, eof>>
    BY DEF CloseEarly, Cancel
  <1>2. CASE CloseEarly(p, i)
    <2>1. Finish(p, i, "closed") /\ UNCHANGED <<counter, mode, pending, queue, got, late>>
      BY <1>2 DEF CloseEarly
    <2>2. CallTypeOK' BY <2>1, FinishType DEF TypeOK, CallTypeOK
    <2>3. NetTypeOK' BY <1>1, <2>1, FinishType DEF TypeOK, NetTypeOK, connVars
    <2> QED BY <1>1, <2>2, <2>3, Same DEF TypeOK
  <1>3. CASE Cancel(p, i)
    <2>1. Post(p, Msg("cancel", i)) BY <1>3 DEF Cancel
    <2>2. Msg("cancel", i) \in Frame BY FrameFact DEF Kinds
    <2>3. NetTypeOK' BY <1>1, <2>1, <2>2, PostKeepsNet
    <2>4. CallTypeOK' BY <1>3 DEF Cancel, TypeOK, CallTypeOK
    <2> QED BY <1>1, <2>3, <2>4, Same DEF TypeOK
  <1> QED BY <1>2, <1>3

LEMMA ConnectionType ==
  ASSUME TypeOK, NEW p \in Peers,
         \/ Fail(p) \/ Stop(p) \/ StopDone(p) \/ LoseLink \/ Eof(p) \/ WriteFrame(p)
  PROVE  TypeOK'
  <1>1. CASE Fail(p)
    <2>1. FailConnection(p) /\ UNCHANGED <<netVars, phase>> BY <1>1 DEF Fail
    <2>2. NetTypeOK' BY <2>1, FailType DEF TypeOK, NetTypeOK, netVars
    <2> QED BY <2>1, <2>2, FailType DEF TypeOK
  <1>2. CASE Stop(p)
    <2>1. Release(p) BY <1>2 DEF Stop
    <2>2. NetTypeOK' BY <1>2 DEF Stop, TypeOK, NetTypeOK
    <2> QED BY <2>1, <2>2, ReleaseType DEF TypeOK
  <1>3. CASE StopDone(p)
    <2>1. NetTypeOK' BY <1>3 DEF StopDone, TypeOK, NetTypeOK
    <2> QED BY <1>3, <2>1, Same DEF StopDone, TypeOK
  <1>4. CASE LoseLink
    <2>1. NetTypeOK' BY <1>4 DEF LoseLink, TypeOK, NetTypeOK, connVars
    <2> QED BY <1>4, <2>1, Same DEF LoseLink, TypeOK
  <1>5. CASE Eof(p)
    <2>1. NetTypeOK' BY <1>5, PeersFact, EmptySeq DEF Eof, TypeOK, NetTypeOK, connVars
    <2> QED BY <1>5, <2>1, Same DEF Eof, TypeOK
  <1>6. CASE WriteFrame(p)
    <2>1. PICK f \in writing[p] :
            /\ writing' = [writing EXCEPT ![p] = @ \ {f}]
            /\ wire' = IF down THEN wire ELSE [wire EXCEPT ![p] = Append(@, f)]
      BY <1>6 DEF WriteFrame
    <2>2. f \in Frame /\ wire[p] \in Seq(Frame) BY DEF TypeOK, NetTypeOK
    <2>3. Append(wire[p], f) \in Seq(Frame) BY <2>2, AppendProperties
    <2>4. NetTypeOK' BY <1>6, <2>1, <2>3 DEF WriteFrame, TypeOK, NetTypeOK, connVars
    <2> QED BY <1>6, <2>4, Same DEF WriteFrame, TypeOK
  <1> QED BY <1>1, <1>2, <1>3, <1>4, <1>5, <1>6

\* The frame a reader takes, and the wire without it.
LEMMA ReadFact ==
  ASSUME TypeOK, NEW p \in Peers, Reading(p)
  PROVE  /\ Head(wire[Other(p)]) \in Frame
         /\ [wire EXCEPT ![Other(p)] = Tail(@)] \in [Peers -> Seq(Frame)]
  <1>1. Other(p) \in Peers BY PeersFact
  <1>2. wire \in [Peers -> Seq(Frame)] /\ wire[Other(p)] # <<>>
    BY DEF Reading, TypeOK, NetTypeOK
  <1>3. wire[Other(p)] \in Seq(Frame) BY <1>1, <1>2
  <1>4. Head(wire[Other(p)]) \in Frame /\ Tail(wire[Other(p)]) \in Seq(Frame)
    BY <1>2, <1>3, HeadTailProperties
  <1> QED BY <1>1, <1>2, <1>4

LEMMA HandleType ==
  ASSUME TypeOK, NEW p \in Peers, NEW f \in Frame,
         \/ f.kind \in ResultKinds /\ HandleResult(p, f)
         \/ f.kind \in EventKinds /\ HandleEvent(p, f)
         \/ HandleInvoke(p, f)
         \/ HandleCancel(p, f)
  PROVE  CallTypeOK' /\ TaskTypeOK' /\ cancelling' \in [Peers -> {0} \cup Ids]
  <1>0. f.id \in Ids /\ queue[p][f.id] \in Seq(Item)
    BY DEF Frame, TypeOK, CallTypeOK
  <1>1. CASE f.kind \in ResultKinds /\ HandleResult(p, f)
    <2>1. Msg("protocol", f.id) \in Item BY <1>0, ItemFact DEF Endings
    <2>2. Append(queue[p][f.id], Msg("protocol", f.id)) \in Seq(Item)
      BY <1>0, <2>1, AppendProperties
    <2>3. ASSUME f.id \in pending[p] PROVE CallTypeOK'
      <3>1. /\ pending' = [pending EXCEPT ![p] = @ \ {f.id}]
            /\ reply' = [reply EXCEPT ![p][f.id] = IF @ = "pending" THEN f.kind ELSE @]
            /\ UNCHANGED <<counter, mode, cpc, streams, queue, got, asked, late>>
        BY <1>1, <2>3 DEF HandleResult
      <3>2. reply' \in [Peers -> [Ids -> Replies]]
        <4>1. reply[p][f.id] \in Replies /\ f.kind \in Replies
          BY <1>0, <1>1 DEF TypeOK, CallTypeOK, Replies
        <4> QED BY <1>0, <3>1, <4>1, CellFact DEF TypeOK, CallTypeOK
      <3>3. pending' \in [Peers -> SUBSET Ids]
        BY <1>0, <3>1, TableFact DEF TypeOK, CallTypeOK
      <3> QED BY <3>1, <3>2, <3>3 DEF TypeOK, CallTypeOK
    <2>4. ASSUME f.id \notin pending[p] PROVE CallTypeOK'
      <3>1. /\ queue' = queue \/ queue' = [queue EXCEPT ![p][f.id] = Append(@, Msg("protocol", f.id))]
            /\ UNCHANGED <<counter, mode, cpc, reply, pending, streams, got, asked, late>>
        BY <1>1, <2>4 DEF HandleResult
      <3>2. queue' \in [Peers -> [Ids -> Seq(Item)]]
        <4>1. queue \in [Peers -> [Ids -> Seq(Item)]] BY DEF TypeOK, CallTypeOK
        <4>2. [queue EXCEPT ![p][f.id] = Append(@, Msg("protocol", f.id))]
                \in [Peers -> [Ids -> Seq(Item)]]
          BY <1>0, <2>2, <4>1
        <4> QED BY <3>1, <4>1, <4>2
      <3> QED BY <3>1, <3>2 DEF TypeOK, CallTypeOK
    <2>5. CallTypeOK' BY <2>3, <2>4
    <2>6. UNCHANGED taskVars /\ UNCHANGED cancelling BY <1>1 DEF HandleResult
    <2> QED BY <2>5, <2>6, Same DEF TypeOK, NetTypeOK
  <1>2. CASE f.kind \in EventKinds /\ HandleEvent(p, f)
    <2>1. f \in Item BY <1>2 DEF Frame, Item
    <2>2. Append(queue[p][f.id], f) \in Seq(Item) BY <1>0, <2>1, AppendProperties
    <2>3. /\ \/ queue' = [queue EXCEPT ![p][f.id] = Append(@, f)] /\ UNCHANGED reply
             \/ queue' = queue /\ (reply' = reply \/ reply' = [reply EXCEPT ![p][f.id] = "protocol"])
          /\ UNCHANGED <<counter, mode, cpc, pending, streams, got, asked, late>>
      BY <1>2 DEF HandleEvent
    <2>4. /\ queue' \in [Peers -> [Ids -> Seq(Item)]]
          /\ reply' \in [Peers -> [Ids -> Replies]]
      <3>1. "protocol" \in Replies BY DEF Replies, Endings
      <3>2. queue \in [Peers -> [Ids -> Seq(Item)]] /\ reply \in [Peers -> [Ids -> Replies]]
        BY DEF TypeOK, CallTypeOK
      <3>3. [queue EXCEPT ![p][f.id] = Append(@, f)] \in [Peers -> [Ids -> Seq(Item)]]
        BY <1>0, <2>2, <3>2
      <3>4. [reply EXCEPT ![p][f.id] = "protocol"] \in [Peers -> [Ids -> Replies]]
        BY <1>0, <3>1, <3>2
      <3> QED BY <2>3, <3>2, <3>3, <3>4
    <2>5. CallTypeOK' BY <2>3, <2>4 DEF TypeOK, CallTypeOK
    <2>6. UNCHANGED taskVars /\ UNCHANGED cancelling BY <1>2 DEF HandleEvent
    <2> QED BY <2>5, <2>6, Same DEF TypeOK, NetTypeOK
  <1>3. CASE HandleInvoke(p, f)
    <2>1. inbound' \in [Peers -> SUBSET Ids]
      BY <1>0, <1>3, TableFact DEF HandleInvoke, TypeOK, TaskTypeOK
    <2>2. tpc' \in [Peers -> [Ids -> {"none", "ended", "crashed"} \cup Live]]
      BY <1>0, <1>3 DEF HandleInvoke, TypeOK, TaskTypeOK, Live
    <2>3. TaskTypeOK' BY <1>0, <1>3, <2>1, <2>2 DEF HandleInvoke, TypeOK, TaskTypeOK
    <2> QED BY <1>3, <2>3, Same DEF HandleInvoke, TypeOK, NetTypeOK
  <1>4. CASE HandleCancel(p, f)
    <2>1. TaskTypeOK'
      <3>1. /\ token' = token \/ token' = [token EXCEPT ![p][f.id] = TRUE]
            /\ mustCancel' = mustCancel \/ mustCancel' = [mustCancel EXCEPT ![p][f.id] = TRUE]
            /\ UNCHANGED <<inbound, tpc, sent, answers, ran>>
        BY <1>4 DEF HandleCancel, CancelStarted
      <3>2. token' \in [Peers -> [Ids -> BOOLEAN]] /\ mustCancel' \in [Peers -> [Ids -> BOOLEAN]]
        <4>1. token \in [Peers -> [Ids -> BOOLEAN]] /\ mustCancel \in [Peers -> [Ids -> BOOLEAN]]
          BY DEF TypeOK, TaskTypeOK
        <4>2. \A t \in [Peers -> [Ids -> BOOLEAN]] :
                 [t EXCEPT ![p][f.id] = TRUE] \in [Peers -> [Ids -> BOOLEAN]]
          BY <1>0, CellFact
        <4> QED BY <3>1, <4>1, <4>2
      <3> QED BY <3>1, <3>2 DEF TypeOK, TaskTypeOK
    <2>2. cancelling' \in [Peers -> {0} \cup Ids]
      BY <1>0, <1>4 DEF HandleCancel, TypeOK, NetTypeOK
    <2> QED BY <1>4, <2>1, <2>2, Same DEF HandleCancel, TypeOK
  <1> QED BY <1>1, <1>2, <1>3, <1>4

LEMMA ReaderType ==
  ASSUME TypeOK, NEW p \in Peers, Receive(p) \/ Refuse(p) \/ CancelTask(p)
  PROVE  TypeOK'
  <1>1. CASE Receive(p)
    <2>1. /\ Reading(p)
          /\ wire' = [wire EXCEPT ![Other(p)] = Tail(@)]
          /\ UNCHANGED <<writing, down, eof, connVars>>
      BY <1>1 DEF Receive
    <2>2. Head(wire[Other(p)]) \in Frame /\ wire' \in [Peers -> Seq(Frame)]
      BY <2>1, ReadFact
    <2>3. CallTypeOK' /\ TaskTypeOK' /\ cancelling' \in [Peers -> {0} \cup Ids]
      BY <1>1, <2>2, HandleType DEF Receive
    <2>4. NetTypeOK' BY <2>1, <2>2, <2>3 DEF TypeOK, NetTypeOK, connVars
    <2> QED BY <2>3, <2>4 DEF TypeOK
  <1>2. CASE Refuse(p)
    <2>1. /\ Reading(p) /\ FailConnection(p)
          /\ wire' = [wire EXCEPT ![Other(p)] = Tail(@)]
          /\ UNCHANGED <<writing, cancelling, down, eof, phase>>
      BY <1>2 DEF Refuse
    <2>2. NetTypeOK' BY <2>1, ReadFact, FailType DEF TypeOK, NetTypeOK
    <2> QED BY <2>1, <2>2, FailType DEF TypeOK
  <1>3. CASE CancelTask(p)
    <2>1. cancelling[p] \in Ids BY <1>3 DEF CancelTask, TypeOK, NetTypeOK
    <2>2. TaskTypeOK' BY <1>3, <2>1 DEF CancelTask, CancelStarted, TypeOK, TaskTypeOK
    <2>3. NetTypeOK' BY <1>3 DEF CancelTask, TypeOK, NetTypeOK, connVars
    <2> QED BY <1>3, <2>2, <2>3, Same DEF CancelTask, TypeOK
  <1> QED BY <1>1, <1>2, <1>3

\* Answers are frames, and leave the task in one of its places.
LEMMA AnswerType ==
  ASSUME TypeOK, NEW p \in Peers, NEW i \in Ids,
         NEW k \in ResultKinds \cup {"started", "completed", "failed"}, Answer(p, i, k)
  PROVE  /\ tpc' \in [Peers -> [Ids -> {"none", "ended", "crashed"} \cup Live]]
         /\ answers' \in [Peers -> [Ids -> SUBSET (ResultKinds \cup EventKinds)]]
         /\ Msg(k, i) \in Frame
  <1>1. tpc' \in [Peers -> [Ids -> {"none", "ended", "crashed"} \cup Live]]
    BY DEF Answer, TypeOK, TaskTypeOK, Live
  <1>2. answers[p][i] \cup {k} \in SUBSET (ResultKinds \cup EventKinds)
    BY DEF TypeOK, TaskTypeOK, EventKinds
  <1>3. answers' \in [Peers -> [Ids -> SUBSET (ResultKinds \cup EventKinds)]]
    BY <1>2 DEF Answer, TypeOK, TaskTypeOK
  <1>4. Msg(k, i) \in Frame BY FrameFact DEF Kinds, EventKinds
  <1> QED BY <1>1, <1>3, <1>4

LEMMA HandlerType ==
  ASSUME TypeOK, NEW p \in Peers, NEW i \in Ids, HandlerReturns(p, i) \/ StreamEnds(p, i)
  PROVE  TypeOK'
  <1>1. PICK k \in ResultKinds \cup {"started", "completed", "failed"} :
          Answer(p, i, k) /\ Post(p, Msg(k, i))
    BY DEF HandlerReturns, StreamEnds, ErrorKind, ResultKinds
  <1>2. /\ UNCHANGED <<inbound, token, mustCancel, sent, ran>> /\ UNCHANGED callVars
        /\ UNCHANGED <<connVars, cancelling, down, eof>>
    BY DEF HandlerReturns, StreamEnds
  <1>3. TaskTypeOK' BY <1>1, <1>2, AnswerType DEF TypeOK, TaskTypeOK
  <1>4. NetTypeOK' BY <1>1, <1>2, AnswerType, PostKeepsNet
  <1> QED BY <1>2, <1>3, <1>4, Same DEF TypeOK

LEMMA EndType ==
  ASSUME TypeOK, NEW p \in Peers, NEW i \in Ids,
         tpc' = [tpc EXCEPT ![p][i] = "ended"],
         inbound' = [inbound EXCEPT ![p] = @ \ {i}],
         mustCancel' = [mustCancel EXCEPT ![p][i] = FALSE],
         UNCHANGED <<token, sent, answers, ran>>
  PROVE  TaskTypeOK'
  <1>1. tpc' \in [Peers -> [Ids -> {"none", "ended", "crashed"} \cup Live]]
    BY DEF TypeOK, TaskTypeOK
  <1>2. mustCancel' \in [Peers -> [Ids -> BOOLEAN]]
    BY CellFact DEF TypeOK, TaskTypeOK
  <1>3. inbound' \in [Peers -> SUBSET Ids]
    BY TableFact DEF TypeOK, TaskTypeOK
  <1> QED BY <1>1, <1>2, <1>3 DEF TypeOK, TaskTypeOK

LEMMA StartType ==
  ASSUME TypeOK, NEW p \in Peers, NEW i \in Ids, Start(p, i)
  PROVE  TypeOK'
  <1>0. /\ UNCHANGED <<token, sent>> /\ UNCHANGED callVars
        /\ UNCHANGED <<connVars, cancelling, down, eof>>
    BY DEF Start
  <1>1. CASE mustCancel[p][i]
    <2>1. /\ tpc' = [tpc EXCEPT ![p][i] = "ended"]
          /\ inbound' = [inbound EXCEPT ![p] = @ \ {i}]
          /\ mustCancel' = [mustCancel EXCEPT ![p][i] = FALSE]
          /\ UNCHANGED <<token, sent, answers, ran>>
      BY <1>1 DEF Start
    <2>3. TaskTypeOK' BY <2>1, EndType
    <2>2. UNCHANGED <<netVars, connVars>> BY <1>0, <1>1 DEF Start, netVars
    <2> QED BY <1>0, <2>2, <2>3, Same DEF TypeOK
  <1>2. CASE ~mustCancel[p][i] /\ token[p][i]
    <2> DEFINE k == ErrorKind(p, i, "cancelled")
    <2>1. k \in {"cancelled", "failed"} BY DEF ErrorKind
    <2>2. Answer(p, i, k) /\ Post(p, Msg(k, i)) /\ UNCHANGED <<ran, inbound, mustCancel>>
      BY <1>2 DEF Start
    <2>3. TaskTypeOK' BY <1>0, <2>1, <2>2, AnswerType DEF TypeOK, TaskTypeOK, ResultKinds
    <2>4. Msg(k, i) \in Frame BY <2>1, FrameFact DEF Kinds, ResultKinds, EventKinds
    <2>5. NetTypeOK' BY <1>0, <2>2, <2>4, PostKeepsNet
    <2> QED BY <1>0, <2>3, <2>5, Same DEF TypeOK
  <1>3. CASE ~mustCancel[p][i] /\ ~token[p][i]
    <2>1. /\ tpc' = [tpc EXCEPT ![p][i] = "running"]
          /\ ran' = [ran EXCEPT ![p][i] = @ + 1]
          /\ UNCHANGED <<inbound, token, mustCancel, sent, answers>>
          /\ UNCHANGED <<netVars, connVars>>
      BY <1>3 DEF Start, netVars
    <2>2. tpc' \in [Peers -> [Ids -> {"none", "ended", "crashed"} \cup Live]]
      BY <2>1 DEF TypeOK, TaskTypeOK, Live
    <2>3. ran' \in [Peers -> [Ids -> Nat]] BY <2>1 DEF TypeOK, TaskTypeOK
    <2>4. TaskTypeOK' BY <2>1, <2>2, <2>3 DEF TypeOK, TaskTypeOK
    <2> QED BY <1>0, <2>1, <2>4, Same DEF TypeOK
  <1> QED BY <1>1, <1>2, <1>3

LEMMA TaskType ==
  ASSUME TypeOK, NEW p \in Peers, NEW i \in Ids,
         \/ TaskDone(p, i) \/ TaskSendRaises(p, i) \/ Suppress(p, i)
  PROVE  TypeOK'
  <1>1. UNCHANGED callVars /\ UNCHANGED <<netVars, connVars>>
    BY DEF TaskDone, TaskSendRaises, Suppress
  <1>2. TaskDone(p, i) => TaskTypeOK' BY DEF TaskDone, TypeOK, TaskTypeOK
  <1>3. TaskSendRaises(p, i) => TaskTypeOK' BY DEF TaskSendRaises, TypeOK, TaskTypeOK, Live
  <1>4. Suppress(p, i) => TaskTypeOK' BY DEF Suppress, TypeOK, TaskTypeOK
  <1> QED BY <1>1, <1>2, <1>3, <1>4, Same DEF TypeOK

LEMMA ChunkType ==
  ASSUME TypeOK, NEW p \in Peers, NEW i \in Ids, NextChunk(p, i)
  PROVE  TypeOK'
  <1> DEFINE f == [kind |-> "delta", id |-> i, n |-> sent[p][i] + 1]
  <1>1. sent[p][i] + 1 \in 0 .. Chunks
    BY PeerAssumption DEF NextChunk, TypeOK, TaskTypeOK, PeerAssumption
  <1>2. f \in Frame BY <1>1 DEF Frame, Kinds, EventKinds
  <1>3. /\ Post(p, f) /\ UNCHANGED <<inbound, tpc, token, mustCancel, answers, ran>>
        /\ UNCHANGED callVars /\ UNCHANGED <<connVars, cancelling, down, eof>>
        /\ sent' = [sent EXCEPT ![p][i] = @ + 1]
    BY DEF NextChunk
  <1>4. TaskTypeOK' BY <1>1, <1>3 DEF TypeOK, TaskTypeOK
  <1>5. NetTypeOK' BY <1>2, <1>3, PostKeepsNet
  <1> QED BY <1>3, <1>4, <1>5, Same DEF TypeOK

LEMMA InterruptType ==
  ASSUME TypeOK, NEW p \in Peers, NEW i \in Ids, Interrupt(p, i)
  PROVE  TypeOK'
  <1> DEFINE k == ErrorKind(p, i, "cancelled")
  <1>1. k \in {"cancelled", "failed"} BY DEF ErrorKind
  <1>2. Msg(k, i) \in Frame BY <1>1, FrameFact DEF Kinds, ResultKinds, EventKinds
  <1>3. /\ UNCHANGED <<token, sent, ran>> /\ UNCHANGED callVars
        /\ UNCHANGED <<connVars, cancelling, down, eof>>
        /\ mustCancel' = [mustCancel EXCEPT ![p][i] = FALSE]
    BY DEF Interrupt
  <1>4. wire \in [Peers -> Seq(Frame)] /\ writing \in [Peers -> SUBSET Frame]
    BY DEF TypeOK, NetTypeOK
  <1>5. PICK w \in SUBSET writing[p] :
          IF tpc[p][i] = "failing"
          THEN /\ tpc' = [tpc EXCEPT ![p][i] = "ended"]
               /\ inbound' = [inbound EXCEPT ![p] = @ \ {i}]
               /\ writing' = [writing EXCEPT ![p] = writing[p] \ w]
               /\ UNCHANGED <<answers, wire>>
          ELSE /\ Answer(p, i, k)
               /\ writing' = [writing EXCEPT ![p] =
                    IF down \/ p \notin ThreadWriters THEN writing[p] \ w
                    ELSE (writing[p] \ w) \cup {Msg(k, i)}]
               /\ wire' = IF down \/ p \in ThreadWriters THEN wire
                          ELSE [wire EXCEPT ![p] = Append(@, Msg(k, i))]
               /\ UNCHANGED inbound
    BY DEF Interrupt
  <1>6. CASE tpc[p][i] = "failing"
    <2>1. TaskTypeOK' BY <1>3, <1>5, <1>6, EndType
    <2>2. writing' \in [Peers -> SUBSET Frame] BY <1>4, <1>5, <1>6
    <2>3. NetTypeOK' BY <1>3, <1>5, <1>6, <2>2 DEF TypeOK, NetTypeOK, connVars
    <2> QED BY <1>3, <2>1, <2>3, Same DEF TypeOK
  <1>7. CASE tpc[p][i] # "failing"
    <2>1. TaskTypeOK'
      BY <1>1, <1>3, <1>5, <1>7, AnswerType DEF TypeOK, TaskTypeOK, ResultKinds
    <2>2. (writing[p] \ w) \cup {Msg(k, i)} \in SUBSET Frame /\ writing[p] \ w \in SUBSET Frame
      BY <1>2, <1>4
    <2>3. writing' \in [Peers -> SUBSET Frame] BY <1>4, <1>5, <1>7, <2>2
    <2>4. Append(wire[p], Msg(k, i)) \in Seq(Frame) BY <1>2, <1>4, AppendProperties
    <2>5. wire' \in [Peers -> Seq(Frame)] BY <1>4, <1>5, <1>7, <2>4
    <2>6. NetTypeOK' BY <1>3, <2>3, <2>5 DEF TypeOK, NetTypeOK, connVars
    <2> QED BY <1>3, <2>1, <2>6, Same DEF TypeOK
  <1> QED BY <1>6, <1>7

LEMMA NextType == TypeOK /\ [Next]_vars => TypeOK'
  <1> SUFFICES ASSUME TypeOK, [Next]_vars PROVE TypeOK' OBVIOUS
  <1>1. CASE UNCHANGED vars BY <1>1, Same DEF vars, TypeOK
  <1>2. CASE LoseLink
    BY <1>2, ConnectionType DEF Peers
  <1>3. CASE \E p \in Peers :
               \/ \E m \in {"unary", "stream"} : Invoke(p, m)
               \/ PeerStep(p) \/ Stop(p) \/ Refuse(p)
    BY <1>3, InvokeType, ConnectionType, ReaderType DEF PeerStep
  <1>4. CASE \E p \in Peers, i \in Ids :
               \/ CallerStep(p, i) \/ WorkStep(p, i) \/ TaskStep(p, i)
               \/ NextChunk(p, i) \/ Suppress(p, i)
               \/ Abandon(p, i) \/ CloseEarly(p, i) \/ Cancel(p, i)
    BY <1>4, CallerType, NextItemType, ConsumerType, HandlerType, StartType, TaskType,
       InterruptType, ChunkType DEF CallerStep, WorkStep, TaskStep
  <1> QED BY <1>1, <1>2, <1>3, <1>4 DEF Next

(* Every table, queue and frame has its type in every reachable state, for  *)
(* every number of calls, chunks and cancels.                               *)
THEOREM TypeCorrect == Spec => []TypeOK
  BY InitType, NextType, PTL DEF Spec

-----------------------------------------------------------------------------
(* The failure of a connection releases every caller.  The invariant that   *)
(* carries it: a caller that is blocked is known to the table _fail_connection *)
(* walks, and on an unusable connection these tables are empty.  The second *)
(* part holds because a call is registered in the same step as the check of *)
(* _unusable, with no await between them.                                   *)

Tracked == \A p \in Peers, i \in Ids :
    Blocked(p, i) => i \in (IF mode[p][i] = "unary" THEN pending[p] ELSE streams[p])

Cleared == \A p \in Peers : unusable[p] => pending[p] = {} /\ streams[p] = {}

CallerInv == TypeOK /\ Tracked /\ Cleared

LEMMA AppendEnding ==
  ASSUME NEW q \in Seq(Item), NEW x \in Item
  PROVE  /\ HasEnding(q) => HasEnding(Append(q, x))
         /\ x.kind \in Endings => HasEnding(Append(q, x))
  <1>1. /\ Len(Append(q, x)) = Len(q) + 1 /\ DOMAIN Append(q, x) = 1 .. Len(q) + 1
        /\ \A k \in 1 .. Len(q) : Append(q, x)[k] = q[k]
        /\ Append(q, x)[Len(q) + 1] = x
        /\ DOMAIN q = 1 .. Len(q) /\ Len(q) \in Nat
    OBVIOUS
  <1> QED BY <1>1 DEF HasEnding

LEMMA TailEnding ==
  ASSUME NEW q \in Seq(Item), q # <<>>, Head(q).kind \notin Endings, HasEnding(q)
  PROVE  HasEnding(Tail(q))
  <1>1. PICK k \in 1 .. Len(q) : q[k].kind \in Endings BY DEF HasEnding
  <1>2. k # 1 BY <1>1
  <1>3. k - 1 \in DOMAIN Tail(q) /\ Tail(q)[k - 1] = q[k] BY <1>1, <1>2
  <1> QED BY <1>1, <1>3 DEF HasEnding

\* Steps that leave the callers and the tables alone.
LEMMA Untouched ==
  ASSUME Tracked, Cleared, UNCHANGED <<mode, cpc, reply, pending, streams, queue, unusable>>
  PROVE  Tracked' /\ Cleared'
  BY DEF Tracked, Cleared, Blocked, HasEnding

LEMMA ReleaseFrees ==
  ASSUME CallerInv, NEW p \in Peers, Release(p)
  PROVE  /\ Tracked'
         /\ pending' = [pending EXCEPT ![p] = {}] /\ streams' = [streams EXCEPT ![p] = {}]
  <1>1. /\ pending' = [pending EXCEPT ![p] = {}] /\ streams' = [streams EXCEPT ![p] = {}]
        /\ UNCHANGED <<mode, cpc>>
    BY DEF Release
  <1>2. ASSUME NEW q \in Peers, NEW j \in Ids, Blocked(q, j)', q # p
        PROVE  j \in (IF mode'[q][j] = "unary" THEN pending'[q] ELSE streams'[q])
    <2>1. /\ reply'[q] = reply[q] /\ queue'[q] = queue[q]
          /\ pending'[q] = pending[q] /\ streams'[q] = streams[q]
      BY <1>2 DEF Release, CallerInv, TypeOK, CallTypeOK
    <2>2. Blocked(q, j) BY <1>1, <1>2, <2>1 DEF Blocked, HasEnding
    <2> QED BY <1>1, <2>1, <2>2 DEF CallerInv, Tracked
  <1>3. ASSUME NEW j \in Ids PROVE ~Blocked(p, j)'
    <2>1. reply'[p][j] = IF j \in pending[p] /\ reply[p][j] = "pending" THEN "lost" ELSE reply[p][j]
      BY DEF Release, CallerInv, TypeOK, CallTypeOK
    <2>2. queue'[p][j] = IF j \in streams[p] THEN Append(queue[p][j], Msg("lost", j)) ELSE queue[p][j]
      BY DEF Release, CallerInv, TypeOK, CallTypeOK
    <2>3. queue[p][j] \in Seq(Item) /\ Msg("lost", j) \in Item
      BY ItemFact DEF CallerInv, TypeOK, CallTypeOK, Endings
    <2>4. j \in streams[p] => HasEnding(queue'[p][j])
      BY <2>2, <2>3, AppendEnding DEF Msg, Endings
    <2>5. Blocked(p, j) => j \in (IF mode[p][j] = "unary" THEN pending[p] ELSE streams[p])
      BY DEF CallerInv, Tracked
    <2> QED BY <1>1, <2>1, <2>2, <2>4, <2>5 DEF Blocked, HasEnding
  <1>4. Tracked' BY <1>2, <1>3 DEF Tracked
  <1> QED BY <1>1, <1>4

\* Call i of p ends, and the step leaves the other calls alone except that it
\* may take entries of call i out of the tables.
Leaves(p, i) ==
    /\ cpc' = [cpc EXCEPT ![p][i] = "done"]
    /\ \A q \in Peers, j \in Ids : q # p \/ j # i =>
          /\ reply'[q][j] = reply[q][j] /\ queue'[q][j] = queue[q][j]
          /\ (j \in pending'[q] <=> j \in pending[q])
          /\ (j \in streams'[q] <=> j \in streams[q])
    /\ \A q \in Peers : pending'[q] \subseteq pending[q] /\ streams'[q] \subseteq streams[q]
    /\ UNCHANGED <<mode, unusable>>

\* Such a call is not blocked, and nothing else changes for the others.
LEMMA DoneFrees ==
  ASSUME CallerInv, NEW p \in Peers, NEW i \in Ids, Leaves(p, i)
  PROVE  Tracked' /\ Cleared'
  <1>1. ASSUME NEW q \in Peers, NEW j \in Ids, Blocked(q, j)'
        PROVE  j \in (IF mode'[q][j] = "unary" THEN pending'[q] ELSE streams'[q])
    <2>1. cpc'[p][i] = "done" BY DEF Leaves, CallerInv, TypeOK, CallTypeOK
    <2>2. q # p \/ j # i BY <1>1, <2>1 DEF Blocked
    <2>3. cpc'[q][j] = cpc[q][j] BY <2>2 DEF Leaves, CallerInv, TypeOK, CallTypeOK
    <2>4. Blocked(q, j) BY <1>1, <2>2, <2>3 DEF Leaves, Blocked, HasEnding
    <2> QED BY <2>2, <2>4 DEF Leaves, CallerInv, Tracked
  <1>2. Cleared' BY DEF Leaves, CallerInv, Cleared
  <1> QED BY <1>1, <1>2 DEF Tracked

LEMMA FailureInit == Init => Tracked /\ Cleared
  BY DEF Init, Tracked, Cleared, Blocked, Per, All

LEMMA InvokeInv ==
  ASSUME CallerInv, NEW p \in Peers, NEW m \in {"unary", "stream"}, Invoke(p, m)
  PROVE  Tracked' /\ Cleared'
  <1> DEFINE i == counter[p] + 1
  <1>1. /\ ~unusable[p] /\ UNCHANGED <<queue, unusable>>
        /\ mode' = [mode EXCEPT ![p][i] = m]
        /\ cpc' = [cpc EXCEPT ![p][i] = "sending"]
        /\ reply' = [reply EXCEPT ![p][i] = "pending"]
        /\ IF m = "unary"
           THEN pending' = [pending EXCEPT ![p] = @ \cup {i}] /\ UNCHANGED streams
           ELSE streams' = [streams EXCEPT ![p] = @ \cup {i}] /\ UNCHANGED pending
    BY DEF Invoke, connVars
  <1>2. ASSUME NEW q \in Peers, NEW j \in Ids, Blocked(q, j)'
        PROVE  j \in (IF mode'[q][j] = "unary" THEN pending'[q] ELSE streams'[q])
    <2>1. CASE q = p /\ j = i
      BY <1>1, <2>1 DEF CallerInv, TypeOK, CallTypeOK
    <2>2. CASE q # p \/ j # i
      <3>1. /\ mode'[q][j] = mode[q][j] /\ cpc'[q][j] = cpc[q][j]
            /\ reply'[q][j] = reply[q][j] /\ queue'[q][j] = queue[q][j]
        BY <1>1, <2>2 DEF CallerInv, TypeOK, CallTypeOK
      <3>2. pending[q] \subseteq pending'[q] /\ streams[q] \subseteq streams'[q]
        <4>1. CASE m = "unary"
          <5>1. pending' = [pending EXCEPT ![p] = @ \cup {i}] /\ streams' = streams
            BY <1>1, <4>1
          <5> QED BY <5>1 DEF CallerInv, TypeOK, CallTypeOK
        <4>2. CASE m # "unary"
          <5>1. streams' = [streams EXCEPT ![p] = @ \cup {i}] /\ pending' = pending
            BY <1>1, <4>2
          <5> QED BY <5>1 DEF CallerInv, TypeOK, CallTypeOK
        <4> QED BY <4>1, <4>2
      <3>3. Blocked(q, j) BY <1>2, <3>1 DEF Blocked, HasEnding
      <3> QED BY <3>1, <3>2, <3>3 DEF CallerInv, Tracked
    <2> QED BY <2>1, <2>2
  <1>3. Cleared' BY <1>1 DEF CallerInv, Cleared, TypeOK, CallTypeOK
  <1> QED BY <1>2, <1>3 DEF Tracked

LEMMA CallerInvStep ==
  ASSUME CallerInv, NEW p \in Peers, NEW i \in Ids,
         \/ SendDone(p, i) \/ SendRaises(p, i) \/ Return(p, i)
         \/ Abandon(p, i) \/ Iterate(p, i)
  PROVE  Tracked' /\ Cleared'
  <1>0. CallerInv OBVIOUS
  <1>a. TypeOK /\ Tracked /\ Cleared BY DEF CallerInv
  <1> USE DEF TypeOK, CallTypeOK
  <1>1. CASE SendDone(p, i) \/ Iterate(p, i)
    <2>1. /\ UNCHANGED <<mode, reply, pending, streams, queue, unusable>>
          /\ \/ /\ cpc[p][i] = "sending"
                /\ cpc' = [cpc EXCEPT ![p][i] = IF mode[p][i] = "unary" THEN "waiting" ELSE "open"]
             \/ /\ cpc[p][i] = "open"
                /\ cpc' = [cpc EXCEPT ![p][i] = "iterating"]
      BY <1>a, <1>1 DEF SendDone, Iterate, connVars
    <2>2. ASSUME NEW q \in Peers, NEW j \in Ids, Blocked(q, j)' PROVE Blocked(q, j)
      <3>1. CASE q = p /\ j = i BY <1>a, <2>1, <2>2, <3>1 DEF Blocked, HasEnding
      <3>2. CASE q # p \/ j # i
        <4>1. cpc'[q][j] = cpc[q][j] BY <1>a, <2>1, <3>2
        <4> QED BY <1>a, <2>1, <2>2, <4>1 DEF Blocked, HasEnding
      <3> QED BY <1>a, <3>1, <3>2
    <2> QED BY <1>a, <2>1, <2>2 DEF Tracked, Cleared
  <1>2. CASE SendRaises(p, i)
    <2>1. /\ cpc' = [cpc EXCEPT ![p][i] = "done"] /\ UNCHANGED <<mode, queue, unusable>>
          /\ reply' = [reply EXCEPT ![p][i] = "raised"]
          /\ pending' = [pending EXCEPT ![p] = @ \ {i}]
          /\ streams' = [streams EXCEPT ![p] = @ \ {i}]
      BY <1>a, <1>2 DEF SendRaises, connVars
    <2>2. ASSUME NEW q \in Peers, NEW j \in Ids, q # p \/ j # i
          PROVE  /\ reply'[q][j] = reply[q][j] /\ queue'[q][j] = queue[q][j]
                 /\ (j \in pending'[q] <=> j \in pending[q])
                 /\ (j \in streams'[q] <=> j \in streams[q])
      BY <1>a, <2>1, <2>2
    <2>3. \A q \in Peers : pending'[q] \subseteq pending[q] /\ streams'[q] \subseteq streams[q]
      BY <1>a, <2>1
    <2>4. UNCHANGED <<mode, unusable>> BY <1>a, <2>1
    <2>5. cpc' = [cpc EXCEPT ![p][i] = "done"] BY <2>1
    <2>6. Leaves(p, i) BY <2>2, <2>3, <2>4, <2>5 DEF Leaves
    <2> QED BY <1>0, <2>6, DoneFrees
  <1>3. CASE Return(p, i) \/ Abandon(p, i)
    <2>1. /\ cpc' = [cpc EXCEPT ![p][i] = "done"]
          /\ UNCHANGED <<mode, queue, unusable, pending, streams>>
          /\ \/ reply' = reply
             \/ reply' = [reply EXCEPT ![p][i] = IF @ = "pending" THEN "dropped" ELSE @]
      BY <1>a, <1>3 DEF Return, Abandon, connVars
    <2>2. ASSUME NEW q \in Peers, NEW j \in Ids, q # p \/ j # i
          PROVE  /\ reply'[q][j] = reply[q][j] /\ queue'[q][j] = queue[q][j]
                 /\ (j \in pending'[q] <=> j \in pending[q])
                 /\ (j \in streams'[q] <=> j \in streams[q])
      BY <1>a, <2>1, <2>2
    <2>3. \A q \in Peers : pending'[q] \subseteq pending[q] /\ streams'[q] \subseteq streams[q]
      BY <1>a, <2>1
    <2>4. UNCHANGED <<mode, unusable>> BY <1>a, <2>1
    <2>5. cpc' = [cpc EXCEPT ![p][i] = "done"] BY <2>1
    <2>6. Leaves(p, i) BY <2>2, <2>3, <2>4, <2>5 DEF Leaves
    <2> QED BY <1>0, <2>6, DoneFrees
  <1> QED BY <1>1, <1>2, <1>3

LEMMA ConsumerInvStep ==
  ASSUME CallerInv, NEW p \in Peers, NEW i \in Ids,
         NextItem(p, i) \/ CloseEarly(p, i) \/ Cancel(p, i)
  PROVE  Tracked' /\ Cleared'
  <1>0. CallerInv OBVIOUS
  <1>a. TypeOK /\ Tracked /\ Cleared BY DEF CallerInv
  <1> USE DEF TypeOK, CallTypeOK
  <1>1. ASSUME NEW how, Finish(p, i, how), UNCHANGED <<mode, pending, unusable>>,
               queue' = queue \/ queue' = [queue EXCEPT ![p][i] = Tail(@)]
        PROVE  Tracked' /\ Cleared'
    <2>1. /\ cpc' = [cpc EXCEPT ![p][i] = "done"]
          /\ reply' = [reply EXCEPT ![p][i] = how]
          /\ streams' = [streams EXCEPT ![p] = @ \ {i}]
      BY <1>a, <1>1 DEF Finish
    <2>2. ASSUME NEW q \in Peers, NEW j \in Ids, q # p \/ j # i
          PROVE  /\ reply'[q][j] = reply[q][j] /\ queue'[q][j] = queue[q][j]
                 /\ (j \in pending'[q] <=> j \in pending[q])
                 /\ (j \in streams'[q] <=> j \in streams[q])
      BY <1>a, <1>1, <2>1, <2>2
    <2>3. \A q \in Peers : pending'[q] \subseteq pending[q] /\ streams'[q] \subseteq streams[q]
      BY <1>a, <1>1, <2>1
    <2>4. UNCHANGED <<mode, unusable>> BY <1>1
    <2>5. cpc' = [cpc EXCEPT ![p][i] = "done"] BY <2>1
    <2>6. Leaves(p, i) BY <2>2, <2>3, <2>4, <2>5 DEF Leaves
    <2> QED BY <1>0, <2>6, DoneFrees
  <1>2. CASE NextItem(p, i)
    <2> DEFINE item == Head(queue[p][i])
    <2>1. /\ queue' = [queue EXCEPT ![p][i] = Tail(@)] /\ queue[p][i] # <<>>
          /\ UNCHANGED <<mode, pending, unusable>>
      BY <1>a, <1>2 DEF NextItem, connVars
    <2>2. CASE item.kind \in Endings
      BY <1>a, <1>1, <1>2, <2>1, <2>2 DEF NextItem
    <2>3. CASE item.kind \notin Endings
      <3>1. UNCHANGED <<cpc, reply, streams>> BY <1>a, <1>2, <2>3 DEF NextItem
      <3>2. HasEnding(queue[p][i]) => HasEnding(Tail(queue[p][i]))
        BY <1>a, <2>1, <2>3, TailEnding
      <3>3. ASSUME NEW q \in Peers, NEW j \in Ids, Blocked(q, j)' PROVE Blocked(q, j)
        <4>1. HasEnding(queue[q][j]) => HasEnding(queue'[q][j])
          <5>1. CASE q = p /\ j = i BY <1>a, <2>1, <3>2, <5>1
          <5>2. CASE q # p \/ j # i
            <6>1. queue'[q][j] = queue[q][j] BY <1>a, <2>1, <5>2
            <6> QED BY <1>a, <6>1
          <5> QED BY <1>a, <5>1, <5>2
        <4> QED BY <1>a, <2>1, <3>1, <3>3, <4>1 DEF Blocked, HasEnding
      <3> QED BY <1>a, <2>1, <3>1, <3>3 DEF Tracked, Cleared
    <2> QED BY <1>a, <2>2, <2>3
  <1>3. CASE CloseEarly(p, i)
    BY <1>a, <1>1, <1>3 DEF CloseEarly, connVars
  <1>4. CASE Cancel(p, i)
    BY <1>a, <1>4, Untouched DEF Cancel, connVars
  <1> QED BY <1>a, <1>2, <1>3, <1>4

LEMMA FailInv ==
  ASSUME CallerInv, NEW p \in Peers, FailConnection(p)
  PROVE  Tracked' /\ Cleared'
  <1>1. CASE unusable[p]
    BY <1>1, Untouched DEF FailConnection, CallerInv, callVars
  <1>2. CASE ~unusable[p]
    <2>1. Release(p) /\ unusable' = [unusable EXCEPT ![p] = TRUE]
      BY <1>2 DEF FailConnection
    <2>2. Cleared'
      BY <2>1, ReleaseFrees DEF CallerInv, Cleared, TypeOK, CallTypeOK, NetTypeOK
    <2> QED BY <2>1, <2>2, ReleaseFrees
  <1> QED BY <1>1, <1>2

LEMMA ResultInv ==
  ASSUME CallerInv, NEW p \in Peers, NEW f \in Frame, UNCHANGED unusable,
         \/ f.kind \in ResultKinds /\ HandleResult(p, f)
         \/ f.kind \in EventKinds /\ HandleEvent(p, f)
  PROVE  Tracked' /\ Cleared'
  <1> USE DEF CallerInv, TypeOK, CallTypeOK
  <1>0. f.id \in Ids BY DEF Frame
  <1>1. UNCHANGED <<mode, cpc, streams>> BY DEF HandleResult, HandleEvent
  <1>2. ASSUME f.kind \in ResultKinds, HandleResult(p, f), f.id \in pending[p]
        PROVE  Tracked' /\ Cleared'
    <2>1. /\ pending' = [pending EXCEPT ![p] = @ \ {f.id}] /\ UNCHANGED queue
          /\ reply' = [reply EXCEPT ![p][f.id] = IF @ = "pending" THEN f.kind ELSE @]
      BY <1>2 DEF HandleResult
    <2>2. ASSUME NEW q \in Peers, NEW j \in Ids, Blocked(q, j)'
          PROVE  j \in (IF mode'[q][j] = "unary" THEN pending'[q] ELSE streams'[q])
      <3>1. CASE q = p /\ j = f.id
        <4>1. reply'[p][f.id] # "pending" BY <1>0, <1>2, <2>1 DEF ResultKinds
        <4>2. mode[q][j] # "unary" /\ ~HasEnding(queue[q][j])
          BY <1>1, <2>1, <2>2, <3>1, <4>1 DEF Blocked, HasEnding
        <4>3. Blocked(q, j) BY <1>1, <2>1, <2>2, <4>2 DEF Blocked, HasEnding
        <4> QED BY <1>1, <4>2, <4>3 DEF Tracked
      <3>2. CASE q # p \/ j # f.id
        <4>1. reply'[q][j] = reply[q][j] /\ (j \in pending[q] => j \in pending'[q])
          BY <1>0, <2>1, <3>2
        <4>2. Blocked(q, j) BY <1>1, <2>1, <2>2, <4>1 DEF Blocked, HasEnding
        <4> QED BY <1>1, <4>1, <4>2 DEF Tracked
      <3> QED BY <3>1, <3>2
    <2>3. Cleared' BY <1>1, <2>1 DEF Cleared
    <2> QED BY <2>2, <2>3 DEF Tracked
  <1>3. ASSUME NEW x \in Item, UNCHANGED <<pending, reply>>,
               queue' = queue \/ queue' = [queue EXCEPT ![p][f.id] = Append(@, x)]
        PROVE  Tracked' /\ Cleared'
    <2>1. ASSUME NEW q \in Peers, NEW j \in Ids PROVE HasEnding(queue[q][j]) => HasEnding(queue'[q][j])
      <3>1. CASE queue' = queue BY <3>1
      <3>2. CASE queue'[q][j] = queue[q][j] BY <3>2
      <3>3. CASE q = p /\ j = f.id /\ queue' = [queue EXCEPT ![p][f.id] = Append(@, x)]
        <4>1. queue'[q][j] = Append(queue[q][j], x) /\ queue[q][j] \in Seq(Item)
          BY <1>0, <3>3
        <4> QED BY <4>1, AppendEnding
      <3>4. \/ queue' = queue \/ queue'[q][j] = queue[q][j]
            \/ q = p /\ j = f.id /\ queue' = [queue EXCEPT ![p][f.id] = Append(@, x)]
        <4>1. CASE queue' = [queue EXCEPT ![p][f.id] = Append(@, x)] /\ ~(q = p /\ j = f.id)
          <5>1. queue'[q][j] = queue[q][j] BY <1>0, <4>1
          <5> QED BY <5>1
        <4> QED BY <1>3, <4>1
      <3> QED BY <3>1, <3>2, <3>3, <3>4
    <2>2. ASSUME NEW q \in Peers, NEW j \in Ids, Blocked(q, j)' PROVE Blocked(q, j)
      <3>1. HasEnding(queue[q][j]) => HasEnding(queue'[q][j]) BY <2>1
      <3> QED BY <1>1, <1>3, <2>2, <3>1 DEF Blocked, HasEnding
    <2> QED BY <1>1, <1>3, <2>2 DEF Tracked, Cleared
  <1>4. CASE f.kind \in ResultKinds /\ HandleResult(p, f)
    <2>1. CASE f.id \in pending[p] BY <1>2, <1>4, <2>1
    <2>2. CASE f.id \notin pending[p]
      <3>1. Msg("protocol", f.id) \in Item BY <1>0, ItemFact DEF Endings
      <3> QED BY <1>3, <1>4, <2>2, <3>1 DEF HandleResult
    <2> QED BY <2>1, <2>2
  <1>5. CASE f.kind \in EventKinds /\ HandleEvent(p, f)
    <2>1. f \in Item BY <1>5 DEF Frame, Item
    <2>2. CASE f.id \in streams[p]
      BY <1>3, <1>5, <2>1, <2>2 DEF HandleEvent
    <2>3. CASE f.id \notin streams[p] /\ reply' = reply
      BY <1>3, <1>5, <2>1, <2>3 DEF HandleEvent
    <2>4. CASE f.id \notin streams[p] /\ reply' = [reply EXCEPT ![p][f.id] = "protocol"]
      <3>1. UNCHANGED <<pending, queue>> BY <1>5, <2>4 DEF HandleEvent
      <3>2. ASSUME NEW q \in Peers, NEW j \in Ids, Blocked(q, j)' PROVE Blocked(q, j)
        <4>1. CASE q = p /\ j = f.id
          BY <1>0, <1>1, <2>4, <3>1, <3>2, <4>1 DEF Blocked, HasEnding
        <4>2. CASE q # p \/ j # f.id
          <5>1. reply'[q][j] = reply[q][j] BY <1>0, <2>4, <4>2
          <5> QED BY <1>1, <3>1, <3>2, <5>1 DEF Blocked, HasEnding
        <4> QED BY <4>1, <4>2
      <3> QED BY <1>1, <3>1, <3>2 DEF Tracked, Cleared
    <2> QED BY <1>5, <2>2, <2>3, <2>4 DEF HandleEvent
  <1> QED BY <1>4, <1>5

LEMMA CallerInvNext == CallerInv /\ [Next]_vars => CallerInv'
  <1> SUFFICES ASSUME CallerInv, [Next]_vars PROVE Tracked' /\ Cleared'
    BY NextType DEF CallerInv
  <1>1. CASE UNCHANGED vars
    BY <1>1, Untouched DEF CallerInv, vars, callVars, connVars
  <1>2. CASE LoseLink
    BY <1>2, Untouched DEF CallerInv, LoseLink, callVars, connVars
  <1>3. ASSUME NEW p \in Peers, NEW m \in {"unary", "stream"}, Invoke(p, m)
        PROVE  Tracked' /\ Cleared'
    BY <1>3, InvokeInv
  <1>4. ASSUME NEW p \in Peers, PeerStep(p) \/ Stop(p) \/ Refuse(p)
        PROVE  Tracked' /\ Cleared'
    <2>1. CASE WriteFrame(p) \/ CancelTask(p) \/ StopDone(p) \/ Eof(p)
      BY <2>1, Untouched
      DEF CallerInv, WriteFrame, CancelTask, StopDone, Eof, callVars, connVars
    <2>2. CASE Fail(p) BY <2>2, FailInv DEF Fail
    <2>3. CASE Refuse(p) BY <2>3, FailInv DEF Refuse
    <2>4. CASE Stop(p)
      <3>1. Release(p) /\ UNCHANGED unusable BY <2>4 DEF Stop
      <3> QED BY <3>1, ReleaseFrees DEF CallerInv, Cleared, TypeOK, CallTypeOK
    <2>5. CASE Receive(p)
      <3> DEFINE f == Head(wire[Other(p)])
      <3>1. f \in Frame BY <2>5, ReadFact DEF Receive, CallerInv
      <3>2. UNCHANGED unusable BY <2>5 DEF Receive, connVars
      <3>3. CASE HandleInvoke(p, f) \/ HandleCancel(p, f)
        BY <3>2, <3>3, Untouched DEF CallerInv, HandleInvoke, HandleCancel, callVars
      <3>4. CASE \/ f.kind \in ResultKinds /\ HandleResult(p, f)
                 \/ f.kind \in EventKinds /\ HandleEvent(p, f)
        BY <3>1, <3>2, <3>4, ResultInv
      <3> QED BY <2>5, <3>3, <3>4 DEF Receive
    <2> QED BY <1>4, <2>1, <2>2, <2>3, <2>4, <2>5 DEF PeerStep
  <1>5. ASSUME NEW p \in Peers, NEW i \in Ids,
               \/ CallerStep(p, i) \/ Abandon(p, i) \/ CloseEarly(p, i) \/ Cancel(p, i)
        PROVE  Tracked' /\ Cleared'
    BY <1>5, CallerInvStep, ConsumerInvStep DEF CallerStep
  <1>6. ASSUME NEW p \in Peers, NEW i \in Ids,
               \/ WorkStep(p, i) \/ TaskStep(p, i) \/ NextChunk(p, i) \/ Suppress(p, i)
        PROVE  Tracked' /\ Cleared'
    <2>1. UNCHANGED callVars /\ UNCHANGED connVars
      BY <1>6 DEF WorkStep, TaskStep, NextChunk, Suppress, HandlerReturns, StreamEnds,
                  Start, TaskDone, TaskSendRaises, Interrupt
    <2> QED BY <2>1, Untouched DEF CallerInv, callVars, connVars
  <1> QED BY <1>1, <1>2, <1>3, <1>4, <1>5, <1>6 DEF Next

(* A failed connection leaves no caller waiting, for every number of calls  *)
(* in flight and every interleaving of their frames.                        *)
THEOREM FailureReleases == Spec => []FailureReleasesCallers
  <1>1. Init => CallerInv BY InitType, FailureInit DEF CallerInv
  <1>2. CallerInv => FailureReleasesCallers
    BY DEF CallerInv, Tracked, Cleared, FailureReleasesCallers
  <1> QED BY <1>1, <1>2, CallerInvNext, PTL DEF Spec
=============================================================================
