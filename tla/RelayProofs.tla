----------------------------- MODULE RelayProofs -----------------------------
(* Proofs about Relay, for any number of workers and requests, whoever may    *)
(* cancel and whichever workers may die.                                      *)
EXTENDS RelayContract, TLAPS

CallerTypes ==
    /\ counter \in [Origins -> 0 .. MaxId]
    /\ target \in [Calls -> Workers \cup {None}]
    /\ caller \in [Calls -> {"idle", "waiting", "done"}]
    /\ result \in [Calls -> Answers \cup {"none", "lost"}]
    /\ by \in [Calls -> Calls \cup {None}] /\ asked \in [Calls -> BOOLEAN]

RelayTypes ==
    /\ relay \in [Calls -> {"none", "created", "waiting", "ended"}]
    /\ token \in [Calls -> BOOLEAN] /\ mustCancel \in [Calls -> BOOLEAN]
    /\ future \in [Calls -> Answers \cup {"none", "pending", "lost", "dropped"}]
    /\ origin \in [Calls -> Calls \cup {None}]

SuperTypes ==
    /\ active \in [Ids -> Workers \cup {None}]
    /\ pending \in [Workers -> [Ids -> Calls \cup {None}]]
    /\ cancelling \in Calls \cup {None}
    /\ link \in [Workers -> {"up", "lost", "eof"}]
    /\ failed \in [Workers -> BOOLEAN] /\ gone \in [Workers -> BOOLEAN]
    /\ upFailed \in BOOLEAN

WorkTypes ==
    /\ inbound \in [Workers -> [Ids -> Calls \cup {None}]]
    /\ work \in [Calls -> {"none", "running", "ended", "killed"}]
    /\ workCancel \in [Calls -> BOOLEAN]

(* The core serves no one: only answers go to it and none comes from it.      *)
CallFrame   == {f \in Frame : f.kind \in {"invoke", "cancel"}}
AnswerFrame == {f \in Frame : f.kind \in Answers}
UpTypes     == up \in [Origins -> Seq(Frame)] /\ up[Core] \in Seq(CallFrame)
DownTypes   == down \in [Origins -> Seq(Frame)] /\ down[Core] \in Seq(AnswerFrame)
FrameTypes  == UpTypes /\ DownTypes

(* A relaying task that has an answer knows whose it is, and one that awaits  *)
(* has a future: without it a reply could carry no answer.                    *)
Answered ==
    \A c \in Calls :
        /\ relay[c] = "waiting" => future[c] \notin {"none", "dropped"}
        /\ future[c] \in Answers => origin[c] \in Calls

TypeInv ==
    CallerTypes /\ RelayTypes /\ SuperTypes /\ WorkTypes /\ FrameTypes /\ Answered

USE RelayAssumption DEF Origins, Ids, Calls, Answers, FrameTypes

LEMMA TypeInvTyped == TypeInv => TypeOK
    BY DEF TypeInv, TypeOK, CallerTypes, RelayTypes, SuperTypes, WorkTypes, UpTypes, DownTypes

LEMMA InitTyped == Init => TypeInv
<1> SUFFICES ASSUME Init PROVE TypeInv
    OBVIOUS
<1>1. CallerTypes
    BY DEF Init, CallerTypes, Each
<1>2. RelayTypes /\ Answered
    BY DEF Init, RelayTypes, Answered, Each
<1>3. SuperTypes
    BY DEF Init, SuperTypes, Each
<1>4. WorkTypes
    BY DEF Init, WorkTypes, Each
<1>5. FrameTypes
    BY DEF Init, UpTypes, DownTypes, Each
<1> QED
    BY <1>1, <1>2, <1>3, <1>4, <1>5 DEF TypeInv

-----------------------------------------------------------------------------
(* Frames.                                                                    *)

LEMMA SeqKept ==
    ASSUME NEW S, NEW s \in Seq(S)
    PROVE  /\ \A k \in DOMAIN s : s[k] \in S /\ RemoveAt(s, k) \in Seq(S)
           /\ \A x \in S : Append(s, x) \in Seq(S)
           /\ s # <<>> => Head(s) \in S /\ Tail(s) \in Seq(S)
<1>1. ASSUME NEW k \in DOMAIN s PROVE s[k] \in S /\ RemoveAt(s, k) \in Seq(S)
    <2>1. k \in 1..Len(s)
        OBVIOUS
    <2>2. SubSeq(s, 1, k - 1) \in Seq(S) /\ SubSeq(s, k + 1, Len(s)) \in Seq(S)
        BY <2>1
    <2> QED
        BY <2>1, <2>2 DEF RemoveAt
<1> QED
    BY <1>1

LEMMA SeqWider ==
    ASSUME NEW S, NEW T, S \subseteq T, NEW s \in Seq(S)
    PROVE  s \in Seq(T)
    OBVIOUS

LEMMA MsgTyped ==
    ASSUME NEW k \in {"invoke", "cancel"} \cup Answers, NEW i \in Ids, NEW c \in Calls
    PROVE  Msg(k, i, c) \in Frame
    BY DEF Msg, Frame

LEMMA CallParts ==
    ASSUME NEW c \in Calls
    PROVE  c[1] \in Origins /\ c[2] \in Ids /\ c = <<c[1], c[2]>>
    OBVIOUS

(* A frame more, or one less, on one of the links.                            *)
LEMMA LinksKept ==
    ASSUME NEW links \in [Origins -> Seq(Frame)], NEW o \in Origins
    PROVE  /\ \A f \in Frame : [links EXCEPT ![o] = Append(@, f)] \in [Origins -> Seq(Frame)]
           /\ \A k \in DOMAIN links[o] :
                 /\ links[o][k] \in Frame
                 /\ [links EXCEPT ![o] = RemoveAt(@, k)] \in [Origins -> Seq(Frame)]
           /\ links[o] # <<>> =>
                 /\ Head(links[o]) \in Frame
                 /\ [links EXCEPT ![o] = Tail(@)] \in [Origins -> Seq(Frame)]
    BY SeqKept

LEMMA AnswersKept ==
    ASSUME FrameTypes, NEW k \in Answers, NEW i \in Ids, NEW c \in Calls, NEW o \in Origins,
           down' = [down EXCEPT ![o] = Append(@, Msg(k, i, c))]
    PROVE  DownTypes'
<1>1. Msg(k, i, c) \in Frame /\ Msg(k, i, c) \in AnswerFrame
    BY MsgTyped DEF AnswerFrame, Msg
<1>2. down' \in [Origins -> Seq(Frame)]
    BY <1>1, LinksKept DEF DownTypes
<1>3. down'[Core] \in Seq(AnswerFrame)
    BY <1>1, SeqKept DEF DownTypes
<1> QED
    BY <1>2, <1>3 DEF DownTypes

LEMMA ReplyTyped ==
    ASSUME FrameTypes, NEW c \in Calls, NEW k \in Answers, NEW source \in Calls,
           Reply(c, k, source), up' = up
    PROVE  FrameTypes' /\ relay' = [relay EXCEPT ![c] = "ended"]
<1>1. c[1] \in Origins /\ c[2] \in Ids
    BY CallParts
<1>2. CASE Alive(c[1])
    BY <1>1, <1>2, AnswersKept DEF Reply, UpTypes, DownTypes
<1>3. CASE ~Alive(c[1])
    BY <1>3 DEF Reply, UpTypes, DownTypes
<1> QED
    BY <1>2, <1>3 DEF Reply

(* A frame to a worker, or to none, is not one to the core.                   *)
LEMMA ToWorkerTyped ==
    ASSUME FrameTypes, NEW w \in Workers \cup {None}, NEW f \in Frame,
           down' \in {down, [down EXCEPT ![w] = Append(@, f)]},
           UpTypes'
    PROVE  FrameTypes'
<1>1. CASE w = None
    BY <1>1 DEF UpTypes, DownTypes
<1>2. CASE w \in Workers
    <2>1. [down EXCEPT ![w] = Append(@, f)] \in [Origins -> Seq(Frame)]
        BY <1>2, LinksKept DEF UpTypes, DownTypes
    <2>2. down' \in [Origins -> Seq(Frame)] /\ down'[Core] = down[Core]
        BY <1>2, <2>1 DEF UpTypes, DownTypes
    <2> QED
        BY <2>2 DEF UpTypes, DownTypes
<1> QED
    BY <1>1, <1>2

-----------------------------------------------------------------------------
(* The callers and the core.                                                  *)

LEMMA CallSentTyped ==
    ASSUME UpTypes, NEW o \in Origins, NEW f \in CallFrame,
           up' = [up EXCEPT ![o] = Append(@, f)]
    PROVE  UpTypes'
<1>1. f \in Frame
    BY DEF CallFrame
<1>2. up' \in [Origins -> Seq(Frame)]
    BY <1>1, LinksKept DEF UpTypes
<1>3. up'[Core] \in Seq(CallFrame)
    BY SeqKept DEF UpTypes
<1> QED
    BY <1>2, <1>3 DEF UpTypes

LEMMA AskTyped ==
    ASSUME TypeInv, NEW o \in Origins, NEW w \in Workers, Ask(o, w)
    PROVE  TypeInv'
<1> DEFINE c == <<o, counter[o] + 1>>
<1>1. c \in Calls /\ counter[o] + 1 \in 0 .. MaxId
    BY DEF Ask, TypeInv, CallerTypes
<1>2. Msg("invoke", c[2], c) \in CallFrame
    BY <1>1, MsgTyped DEF CallFrame, Msg
<1>3. CallerTypes'
    BY <1>1 DEF Ask, TypeInv, CallerTypes
<1>4. UpTypes' /\ DownTypes'
    BY <1>2, CallSentTyped DEF Ask, TypeInv, DownTypes
<1>5. RelayTypes' /\ SuperTypes' /\ WorkTypes' /\ Answered'
    BY DEF Ask, TypeInv, RelayTypes, SuperTypes, WorkTypes, Answered, relayVars, superVars,
           workVars
<1> QED
    BY <1>3, <1>4, <1>5 DEF TypeInv

LEMMA AskCancelTyped ==
    ASSUME TypeInv, NEW c \in Calls, AskCancel(c)
    PROVE  TypeInv'
<1>1. Msg("cancel", c[2], c) \in CallFrame /\ c[1] \in Origins
    BY MsgTyped, CallParts DEF CallFrame, Msg
<1>2. CallerTypes'
    BY DEF AskCancel, TypeInv, CallerTypes
<1>3. UpTypes' /\ DownTypes'
    BY <1>1, CallSentTyped DEF AskCancel, TypeInv, DownTypes
<1>4. RelayTypes' /\ SuperTypes' /\ WorkTypes' /\ Answered'
    BY DEF AskCancel, TypeInv, RelayTypes, SuperTypes, WorkTypes, Answered, relayVars,
           superVars, workVars
<1> QED
    BY <1>2, <1>3, <1>4 DEF TypeInv

LEMMA DeliverTyped ==
    ASSUME CallerTypes, NEW o \in Origins, NEW f \in Frame, f.kind \in Answers, Deliver(o, f)
    PROVE  CallerTypes'
    BY DEF Deliver, CallerTypes, callerVars, Frame

LEMMA HangupTyped ==
    ASSUME CallerTypes, NEW o \in Origins, Hangup(o)
    PROVE  CallerTypes'
    BY DEF Hangup, CallerTypes

LEMMA CoreReceiveTyped == ASSUME TypeInv, CoreReceive PROVE TypeInv'
<1>1. PICK k \in DOMAIN down[Core] :
          Deliver(Core, down[Core][k]) /\ down' = [down EXCEPT ![Core] = RemoveAt(@, k)]
    BY DEF CoreReceive
<1>2. /\ down[Core][k] \in AnswerFrame /\ RemoveAt(down[Core], k) \in Seq(AnswerFrame)
      /\ down' \in [Origins -> Seq(Frame)]
    BY <1>1, SeqKept, LinksKept DEF TypeInv, DownTypes
<1>3. CallerTypes'
    BY <1>1, <1>2, DeliverTyped DEF TypeInv, AnswerFrame
<1>4. FrameTypes'
    BY <1>1, <1>2 DEF CoreReceive, TypeInv, UpTypes, DownTypes
<1>5. RelayTypes' /\ SuperTypes' /\ WorkTypes' /\ Answered'
    BY DEF CoreReceive, TypeInv, RelayTypes, SuperTypes, WorkTypes, Answered, relayVars,
           superVars, workVars
<1> QED
    BY <1>3, <1>4, <1>5 DEF TypeInv

LEMMA CoreHangsUpTyped == ASSUME TypeInv, CoreHangsUp PROVE TypeInv'
<1>1. CallerTypes'
    BY HangupTyped DEF CoreHangsUp, TypeInv
<1>2. RelayTypes' /\ SuperTypes' /\ WorkTypes' /\ Answered' /\ FrameTypes'
    BY DEF CoreHangsUp, TypeInv, RelayTypes, SuperTypes, WorkTypes, Answered, UpTypes, DownTypes,
           relayVars, superVars, workVars
<1> QED
    BY <1>1, <1>2 DEF TypeInv

-----------------------------------------------------------------------------
(* The relaying tasks.                                                        *)

LEMMA RelayStartTyped ==
    ASSUME TypeInv, NEW c \in Calls, RelayStart(c)
    PROVE  TypeInv'
<1>1. /\ c[1] \in Origins /\ c[2] \in Ids /\ target[c] \in Workers \cup {None}
      /\ UNCHANGED <<callerVars, token, mustCancel, origin, cancelling, link, failed, gone>>
      /\ UNCHANGED <<upFailed, workVars, up>>
    BY CallParts DEF RelayStart, TypeInv, CallerTypes
<1>2. CallerTypes' /\ WorkTypes'
    BY <1>1 DEF TypeInv, CallerTypes, WorkTypes, callerVars, workVars
<1>3. ASSUME NEW k \in Answers, Reply(c, k, c), UNCHANGED future,
             active' \in {active, [active EXCEPT ![c[2]] = None]},
             pending' \in {pending, [pending EXCEPT ![target[c]][c[2]] = None]}
      PROVE  TypeInv'
    <2>1. FrameTypes' /\ relay' = [relay EXCEPT ![c] = "ended"]
        BY <1>1, <1>3, ReplyTyped DEF TypeInv
    <2>2. RelayTypes' /\ Answered'
        BY <1>1, <1>3, <2>1 DEF TypeInv, RelayTypes, Answered
    <2>3. active' \in [Ids -> Workers \cup {None}]
        BY <1>1, <1>3 DEF TypeInv, SuperTypes
    <2>4. [pending EXCEPT ![target[c]][c[2]] = None]
              \in [Workers -> [Ids -> Calls \cup {None}]]
        <3>1. CASE target[c] \in Workers
            BY <1>1, <3>1 DEF TypeInv, SuperTypes
        <3>2. CASE target[c] = None
            BY <3>2 DEF TypeInv, SuperTypes
        <3> QED
            BY <1>1, <3>1, <3>2
    <2>5. pending' \in [Workers -> [Ids -> Calls \cup {None}]]
        BY <1>3, <2>4 DEF TypeInv, SuperTypes
    <2>6. SuperTypes'
        BY <1>1, <2>3, <2>5 DEF TypeInv, SuperTypes
    <2> QED
        BY <1>2, <2>1, <2>2, <2>6 DEF TypeInv
<1>4. CASE SendOn(c)
    <2>1. Msg("invoke", c[2], c) \in Frame
        BY <1>1, MsgTyped
    <2>2. FrameTypes'
        BY <1>1, <1>4, <2>1, ToWorkerTyped DEF SendOn, TypeInv, UpTypes, DownTypes
    <2>3. RelayTypes' /\ Answered'
        BY <1>1, <1>4 DEF SendOn, TypeInv, RelayTypes, Answered
    <2>4. SuperTypes'
        BY <1>1, <1>4 DEF SendOn, TypeInv, SuperTypes
    <2> QED
        BY <1>2, <2>2, <2>3, <2>4 DEF TypeInv
<1> QED
    BY <1>3, <1>4 DEF RelayStart

LEMMA RelayReturnsTyped ==
    ASSUME TypeInv, NEW c \in Calls, RelayReturns(c)
    PROVE  TypeInv'
<1>1. c[2] \in Ids /\ future[c] \in Answers \cup {"lost"}
    BY CallParts DEF RelayReturns, TypeInv, RelayTypes, Answered
<1>2. FrameTypes' /\ relay' = [relay EXCEPT ![c] = "ended"]
    <2>1. CASE future[c] = "lost"
        BY <2>1, ReplyTyped DEF RelayReturns, TypeInv
    <2>2. CASE future[c] \in Answers
        <3>1. origin[c] \in Calls
            BY <2>2 DEF TypeInv, Answered
        <3> QED
            BY <2>2, <3>1, ReplyTyped DEF RelayReturns, TypeInv
    <2> QED
        BY <1>1, <2>1, <2>2
<1>3. RelayTypes' /\ Answered'
    BY <1>2 DEF RelayReturns, TypeInv, RelayTypes, Answered
<1>4. SuperTypes'
    BY <1>1 DEF RelayReturns, TypeInv, SuperTypes
<1>5. CallerTypes' /\ WorkTypes'
    BY DEF RelayReturns, TypeInv, CallerTypes, WorkTypes, callerVars, workVars
<1> QED
    BY <1>2, <1>3, <1>4, <1>5 DEF TypeInv

LEMMA RelayInterruptedTyped ==
    ASSUME TypeInv, NEW c \in Calls, RelayInterrupted(c)
    PROVE  TypeInv'
<1>1. FrameTypes' /\ relay' = [relay EXCEPT ![c] = "ended"]
    BY ReplyTyped DEF RelayInterrupted, TypeInv
<1>2. RelayTypes' /\ Answered'
    BY <1>1 DEF RelayInterrupted, TypeInv, RelayTypes, Answered
<1>3. SuperTypes'
    BY CallParts DEF RelayInterrupted, TypeInv, SuperTypes
<1>4. CallerTypes' /\ WorkTypes'
    BY DEF RelayInterrupted, TypeInv, CallerTypes, WorkTypes, callerVars, workVars
<1> QED
    BY <1>1, <1>2, <1>3, <1>4 DEF TypeInv

-----------------------------------------------------------------------------
(* The readers of the supervisor.                                             *)

(* What a reader leaves once it has taken frame k from the link of o.         *)
LEMMA TakenTyped ==
    ASSUME UpTypes, NEW o \in Origins, NEW k \in DOMAIN up[o],
           up' = [up EXCEPT ![o] = RemoveAt(@, k)]
    PROVE  /\ up[o][k] \in Frame /\ UpTypes'
           /\ o = Core => up[o][k].kind \notin Answers
<1>1. up[o][k] \in Frame /\ up' \in [Origins -> Seq(Frame)]
    BY LinksKept DEF UpTypes
<1>2. ASSUME o = Core PROVE up[o][k] \in CallFrame /\ RemoveAt(up[o], k) \in Seq(CallFrame)
    BY <1>2, SeqKept DEF UpTypes
<1>3. up'[Core] \in Seq(CallFrame)
    BY <1>2 DEF UpTypes
<1> QED
    BY <1>1, <1>2, <1>3 DEF UpTypes, CallFrame

LEMMA HandleInvokeTyped ==
    ASSUME TypeInv, NEW o \in Origins, NEW f \in Frame, HandleInvoke(o, f),
           UpTypes'
    PROVE  TypeInv'
<1>1. <<o, f.id>> \in Calls
    BY DEF Frame
<1>2. RelayTypes' /\ Answered'
    BY <1>1 DEF HandleInvoke, TypeInv, RelayTypes, Answered
<1>3. CallerTypes' /\ SuperTypes' /\ WorkTypes' /\ FrameTypes'
    BY DEF HandleInvoke, TypeInv, CallerTypes, SuperTypes, WorkTypes, UpTypes, DownTypes,
           callerVars, superVars, workVars
<1> QED
    BY <1>2, <1>3 DEF TypeInv

LEMMA HandleResultTyped ==
    ASSUME TypeInv, NEW w \in Workers, NEW f \in Frame, f.kind \in Answers,
           HandleResult(w, f), UpTypes'
    PROVE  TypeInv'
<1>1. f.id \in Ids /\ f.call \in Calls
    BY DEF Frame
<1>2. pending[w][f.id] \in Calls \cup {None}
    BY <1>1 DEF TypeInv, SuperTypes
<1>3. RelayTypes' /\ Answered'
    <2> DEFINE c == pending[w][f.id]
    <2>1. CASE UNCHANGED <<future, origin>>
        BY <2>1 DEF HandleResult, TypeInv, RelayTypes, Answered
    <2>2. CASE /\ c # None /\ future[c] = "pending"
               /\ future' = [future EXCEPT ![c] = f.kind]
               /\ origin' = [origin EXCEPT ![c] = f.call]
        <3>1. c \in Calls
            BY <1>2, <2>2
        <3> HIDE DEF c
        <3>2. RelayTypes'
            BY <1>1, <2>2, <3>1 DEF HandleResult, TypeInv, RelayTypes
        <3>3. Answered'
            BY <1>1, <2>2, <3>1 DEF HandleResult, TypeInv, RelayTypes, Answered
        <3> QED
            BY <3>2, <3>3
    <2> QED
        BY <2>1, <2>2 DEF HandleResult
<1>4. SuperTypes'
    BY <1>1 DEF HandleResult, TypeInv, SuperTypes
<1>5. CallerTypes' /\ WorkTypes' /\ FrameTypes'
    BY DEF HandleResult, TypeInv, CallerTypes, WorkTypes, UpTypes, DownTypes, callerVars, workVars
<1> QED
    BY <1>3, <1>4, <1>5 DEF TypeInv

(* Cancelling tasks ends none that awaits an answer.                          *)
LEMMA CancelRelaysTyped ==
    ASSUME RelayTypes, Answered, NEW o \in Origins, CancelRelays(o),
           UNCHANGED <<future, origin>>
    PROVE  RelayTypes' /\ Answered'
    BY DEF CancelRelays, RelayTypes, Answered

LEMMA HandleCancelTyped ==
    ASSUME TypeInv, NEW o \in Origins, NEW f \in Frame, HandleCancel(o, f),
           UpTypes'
    PROVE  TypeInv'
<1> DEFINE c == <<o, f.id>>
<1>1. c \in Calls /\ f.id \in Ids
    BY DEF Frame
<1>2. CallerTypes' /\ WorkTypes'
    BY DEF HandleCancel, TypeInv, CallerTypes, WorkTypes, callerVars, workVars
<1>3. CASE UNCHANGED <<relay, token, mustCancel, cancelling, upFailed, down>>
    <2>1. RelayTypes' /\ Answered' /\ SuperTypes' /\ FrameTypes'
        BY <1>3 DEF HandleCancel, TypeInv, RelayTypes, Answered, SuperTypes, UpTypes, DownTypes
    <2> QED
        BY <1>2, <2>1 DEF TypeInv
<1>4. CASE /\ token' = [token EXCEPT ![c] = TRUE] /\ CancelStarted(c)
           /\ UNCHANGED <<relay, cancelling, upFailed, down>>
    <2>1. RelayTypes' /\ Answered'
        BY <1>1, <1>4 DEF HandleCancel, CancelStarted, TypeInv, RelayTypes, Answered
    <2>2. SuperTypes' /\ FrameTypes'
        BY <1>4 DEF HandleCancel, TypeInv, SuperTypes, UpTypes, DownTypes
    <2> QED
        BY <1>2, <2>1, <2>2 DEF TypeInv
<1>5. CASE o = Core /\ HandleUpstreamCancel(c)
    <2> DEFINE w == active[c[2]]
    <2>1. w \in Workers \cup {None} /\ Msg("cancel", c[2], c) \in Frame
        BY <1>1, MsgTyped DEF TypeInv, SuperTypes
    <2>2. CASE /\ token' = [token EXCEPT ![c] = TRUE]
               /\ cancelling' = c
               /\ down' = IF link[w] # "up" THEN down
                          ELSE [down EXCEPT ![w] = Append(@, Msg("cancel", c[2], c))]
               /\ UNCHANGED <<relay, mustCancel, upFailed>>
        <3>1. down' \in {down, [down EXCEPT ![w] = Append(@, Msg("cancel", c[2], c))]}
            BY <2>2
        <3>2. FrameTypes'
            BY <2>1, <3>1, ToWorkerTyped DEF TypeInv
        <3>3. RelayTypes' /\ Answered'
            BY <1>1, <2>2 DEF HandleCancel, TypeInv, RelayTypes, Answered
        <3>4. SuperTypes'
            BY <1>1, <2>2 DEF HandleCancel, TypeInv, SuperTypes
        <3> QED
            BY <1>2, <3>2, <3>3, <3>4 DEF TypeInv
    <2>3. CASE CancelRelays(Core) /\ upFailed' = TRUE /\ UNCHANGED <<cancelling, down>>
        <3>1. RelayTypes' /\ Answered'
            BY <2>3, CancelRelaysTyped DEF HandleCancel, TypeInv
        <3>2. SuperTypes' /\ FrameTypes'
            BY <2>3 DEF HandleCancel, TypeInv, SuperTypes, UpTypes, DownTypes
        <3> QED
            BY <1>2, <3>1, <3>2 DEF TypeInv
    <2> QED
        BY <1>4, <1>5, <2>2, <2>3 DEF HandleUpstreamCancel
<1> QED
    BY <1>3, <1>4, <1>5 DEF HandleCancel

LEMMA ReceiveTyped ==
    ASSUME TypeInv, NEW o \in Origins, Receive(o)
    PROVE  TypeInv'
<1>1. PICK k \in DOMAIN up[o] :
          /\ up' = [up EXCEPT ![o] = RemoveAt(@, k)]
          /\ \/ up[o][k].kind = "invoke" /\ HandleInvoke(o, up[o][k])
             \/ up[o][k].kind = "cancel" /\ HandleCancel(o, up[o][k])
             \/ up[o][k].kind \in Answers /\ HandleResult(o, up[o][k])
    BY DEF Receive, Readable
<1>2. up[o][k] \in Frame /\ UpTypes' /\ (o = Core => up[o][k].kind \notin Answers)
    BY <1>1, TakenTyped DEF TypeInv
<1> QED
    BY <1>1, <1>2, HandleInvokeTyped, HandleCancelTyped, HandleResultTyped

LEMMA ForwardDoneTyped == ASSUME TypeInv, ForwardDone PROVE TypeInv'
<1>1. cancelling \in Calls
    BY DEF ForwardDone, TypeInv, SuperTypes
<1>2. RelayTypes' /\ Answered'
    BY <1>1 DEF ForwardDone, CancelStarted, TypeInv, RelayTypes, Answered
<1>3. CallerTypes' /\ SuperTypes' /\ WorkTypes' /\ FrameTypes'
    BY DEF ForwardDone, TypeInv, CallerTypes, SuperTypes, WorkTypes, UpTypes, DownTypes, callerVars,
           workVars
<1> QED
    BY <1>2, <1>3 DEF TypeInv

-----------------------------------------------------------------------------
(* The deaths of workers.                                                     *)

LEMMA DieTyped == ASSUME TypeInv, NEW w \in Workers, Die(w) PROVE TypeInv'
<1>1. CallerTypes'
    BY HangupTyped DEF Die, TypeInv
<1>2. WorkTypes' /\ SuperTypes'
    BY DEF Die, TypeInv, WorkTypes, SuperTypes
<1>3. FrameTypes'
    BY DEF Die, TypeInv, UpTypes, DownTypes
<1>4. RelayTypes' /\ Answered'
    BY DEF Die, TypeInv, RelayTypes, Answered, relayVars
<1> QED
    BY <1>1, <1>2, <1>3, <1>4 DEF TypeInv

LEMMA EofTyped == ASSUME TypeInv, NEW w \in Workers, Eof(w) PROVE TypeInv'
    BY DEF Eof, TypeInv, CallerTypes, RelayTypes, SuperTypes, WorkTypes, UpTypes, DownTypes,
           Answered, callerVars, relayVars, workVars

LEMMA FailSessionTyped ==
    ASSUME TypeInv, NEW w \in Workers, FailSession(w) PROVE TypeInv'
<1>1. /\ future' \in [Calls -> Answers \cup {"none", "pending", "lost", "dropped"}]
      /\ \A c \in Calls : future'[c] = future[c] \/ future'[c] = "lost"
    BY DEF FailSession, TypeInv, RelayTypes
<1>2. RelayTypes'
    BY <1>1 DEF FailSession, CancelRelays, TypeInv, RelayTypes
<1>3. \A c \in Calls : relay'[c] = "waiting" => relay[c] = "waiting"
    BY DEF FailSession, CancelRelays
<1>4. Answered'
    BY <1>1, <1>3 DEF FailSession, TypeInv, Answered
<1>5. SuperTypes'
    BY DEF FailSession, TypeInv, SuperTypes
<1>6. CallerTypes' /\ WorkTypes' /\ FrameTypes'
    BY DEF FailSession, TypeInv, CallerTypes, WorkTypes, UpTypes, DownTypes, callerVars, workVars
<1> QED
    BY <1>2, <1>4, <1>5, <1>6 DEF TypeInv

LEMMA ForgetTyped == ASSUME TypeInv, NEW w \in Workers, Forget(w) PROVE TypeInv'
<1>1. SuperTypes'
    BY DEF Forget, TypeInv, SuperTypes
<1>2. CallerTypes' /\ RelayTypes' /\ WorkTypes' /\ FrameTypes' /\ Answered'
    BY DEF Forget, TypeInv, CallerTypes, RelayTypes, WorkTypes, UpTypes, DownTypes, Answered,
           callerVars, relayVars, workVars
<1> QED
    BY <1>1, <1>2 DEF TypeInv

-----------------------------------------------------------------------------
(* The workers.                                                               *)

LEMMA WorkerReceiveTyped ==
    ASSUME TypeInv, NEW w \in Workers, WorkerReceive(w) PROVE TypeInv'
<1> DEFINE f == Head(down[w])
<1>1. f \in Frame /\ [down EXCEPT ![w] = Tail(@)] \in [Origins -> Seq(Frame)]
    BY LinksKept DEF WorkerReceive, TypeInv, UpTypes, DownTypes
<1>2. f.id \in Ids /\ f.call \in Calls
    BY <1>1 DEF Frame
<1>3. FrameTypes'
    BY <1>1 DEF WorkerReceive, TypeInv, UpTypes, DownTypes
<1>4. RelayTypes' /\ SuperTypes' /\ Answered'
    BY DEF WorkerReceive, TypeInv, RelayTypes, SuperTypes, Answered, relayVars, superVars
<1>5. WorkTypes'
    <2>1. inbound[w][f.id] \in Calls \cup {None}
        BY <1>2 DEF TypeInv, WorkTypes
    <2> HIDE DEF f
    <2>2. \/ /\ inbound' = [inbound EXCEPT ![w][f.id] = f.call]
             /\ work' = [work EXCEPT ![f.call] = "running"]
             /\ UNCHANGED workCancel
          \/ WorkerCancel(w, f.id) /\ UNCHANGED <<inbound, work>>
          \/ UNCHANGED workVars
        BY DEF WorkerReceive, f
    <2>3. workCancel' \in [Calls -> BOOLEAN]
        BY <1>2, <2>1, <2>2 DEF WorkerCancel, TypeInv, WorkTypes, workVars
    <2>4. CASE /\ inbound' = [inbound EXCEPT ![w][f.id] = f.call]
               /\ work' = [work EXCEPT ![f.call] = "running"]
        BY <1>2, <2>3, <2>4 DEF TypeInv, WorkTypes
    <2>5. CASE UNCHANGED <<inbound, work>>
        BY <2>3, <2>5 DEF TypeInv, WorkTypes
    <2> QED
        BY <2>2, <2>4, <2>5 DEF workVars
<1>6. CallerTypes'
    <2> HIDE DEF f
    <2>1. UNCHANGED callerVars \/ (f.kind \in Answers /\ Deliver(w, f))
        BY DEF WorkerReceive, f
    <2> QED
        BY <1>1, <2>1, DeliverTyped DEF TypeInv, CallerTypes, callerVars
<1> QED
    BY <1>3, <1>4, <1>5, <1>6 DEF TypeInv

LEMMA FinishTyped == ASSUME TypeInv, NEW c \in Calls, Finish(c) PROVE TypeInv'
<1> DEFINE f == Msg(IF workCancel[c] THEN "cancelled" ELSE "ok", c[2], c)
           w == target[c]
<1>1. f \in Frame /\ c[2] \in Ids /\ w \in Workers \cup {None}
    BY MsgTyped, CallParts DEF TypeInv, CallerTypes
<1> HIDE DEF f, w
<1>2. /\ work' = [work EXCEPT ![c] = "ended"]
      /\ inbound' = [inbound EXCEPT ![w][c[2]] = None]
      /\ up' = [up EXCEPT ![w] = Append(@, f)]
      /\ UNCHANGED <<callerVars, relayVars, superVars, workCancel, down>>
    BY DEF Finish, f, w
<1>3. WorkTypes'
    <2>1. CASE w = None
        BY <1>2, <2>1 DEF TypeInv, WorkTypes
    <2>2. CASE w \in Workers
        BY <1>1, <1>2, <2>2 DEF TypeInv, WorkTypes
    <2> QED
        BY <1>1, <2>1, <2>2
<1>4. FrameTypes'
    <2>1. CASE w = None
        BY <1>2, <2>1 DEF TypeInv, UpTypes, DownTypes
    <2>2. CASE w \in Workers
        BY <1>1, <1>2, <2>2, LinksKept DEF TypeInv, UpTypes, DownTypes
    <2> QED
        BY <1>1, <2>1, <2>2
<1>5. CallerTypes' /\ RelayTypes' /\ SuperTypes' /\ Answered'
    BY <1>2 DEF TypeInv, CallerTypes, RelayTypes, SuperTypes, Answered, callerVars,
               relayVars, superVars
<1> QED
    BY <1>3, <1>4, <1>5 DEF TypeInv

LEMMA NextTyped == TypeInv /\ [Next]_vars => TypeInv'
<1> SUFFICES ASSUME TypeInv, [Next]_vars PROVE TypeInv'
    OBVIOUS
<1>1. CASE \E o \in Origins, w \in Workers : Ask(o, w)
    BY <1>1, AskTyped
<1>2. CASE \E c \in Calls : AskCancel(c) \/ Finish(c)
    BY <1>2, AskCancelTyped, FinishTyped
<1>3. CASE Supervisor
    BY <1>3, ReceiveTyped, RelayStartTyped, RelayReturnsTyped, RelayInterruptedTyped,
       ForwardDoneTyped, EofTyped, FailSessionTyped, ForgetTyped DEF Supervisor, Session
<1>4. CASE CoreLoop
    BY <1>4, CoreReceiveTyped, CoreHangsUpTyped DEF CoreLoop
<1>5. CASE \E w \in Workers : WorkerReceive(w) \/ Die(w)
    BY <1>5, WorkerReceiveTyped, DieTyped
<1>6. CASE UNCHANGED vars
    BY <1>6 DEF vars, callerVars, relayVars, superVars, workVars, TypeInv, CallerTypes,
                RelayTypes, SuperTypes, WorkTypes, UpTypes, DownTypes, Answered
<1> QED
    BY <1>1, <1>2, <1>3, <1>4, <1>5, <1>6 DEF Next

(* Through deaths and cancels the tables of the core, the supervisor and the  *)
(* workers keep their types: every future that is relayed holds an answer of  *)
(* a call, and the core is sent answers only.                                 *)
THEOREM RelayTyped == Spec => []TypeOK
<1>1. Spec => []TypeInv
    BY InitTyped, NextTyped, PTL DEF Spec
<1> QED
    BY <1>1, TypeInvTyped, PTL

-----------------------------------------------------------------------------
(* When only the core makes calls, request ids of several connections never   *)
(* meet, and what the supervisor looks up by id is what was meant.  (Two      *)
(* processes that ask one worker are the counterexample of OwnReply.)         *)

OnlyCoreAsks == \A w \in Workers : Asks[w] = {}

(* Frames whose id tells the call, and cancels that somebody asked for.       *)
OwnCalls ==
    {f \in CallFrame : /\ f.call = <<Core, f.id>>
                       /\ f.kind = "cancel" => asked[f.call]}
OwnAnswers == {f \in AnswerFrame : f.call = <<Core, f.id>>}

UpOf(o)   == IF o = Core THEN OwnCalls ELSE OwnAnswers
DownOf(o) == IF o = Core THEN OwnAnswers ELSE OwnCalls

FramesTell == \A o \in Origins : up[o] \in Seq(UpOf(o)) /\ down[o] \in Seq(DownOf(o))

CoreCalls ==
    \A c \in Calls : c[1] # Core =>
        caller[c] = "idle" /\ relay[c] \notin {"created", "waiting"} /\ work[c] # "running"

(* What a table holds under an id is the core's call of that id.              *)
Keyed ==
    \A w \in Workers, i \in Ids :
        pending[w][i] \in {None, <<Core, i>>} /\ inbound[w][i] \in {None, <<Core, i>>}

OwnOrigin == \A c \in Calls : origin[c] \in {None, c}

TableInv == CoreCalls /\ Keyed /\ OwnOrigin /\ OwnReply /\ CancelHitsItsCall
OwnInv   == FramesTell /\ TableInv

HIDE DEF FrameTypes

LEMMA OwnInit == Init => OwnInv
<1> SUFFICES ASSUME Init PROVE OwnInv
    OBVIOUS
<1>1. FramesTell
    BY DEF Init, FramesTell, Each
<1>2. CoreCalls
    BY DEF Init, CoreCalls, Each
<1>3. Keyed /\ OwnOrigin
    BY DEF Init, Keyed, OwnOrigin, Each
<1>4. OwnReply /\ CancelHitsItsCall
    BY DEF Init, OwnReply, CancelHitsItsCall, Each
<1> QED
    BY <1>1, <1>2, <1>3, <1>4 DEF OwnInv, TableInv

-----------------------------------------------------------------------------
(* Frames.  A cancel that was asked for stays asked for.                      *)

LEMMA FramesKept ==
    ASSUME FramesTell, \A c \in Calls : asked[c] => asked'[c],
           \A o \in Origins : /\ up'[o] = up[o] \/ up'[o] \in Seq(UpOf(o)')
                              /\ down'[o] = down[o] \/ down'[o] \in Seq(DownOf(o)')
    PROVE  FramesTell'
<1>1. OwnCalls \subseteq OwnCalls' /\ OwnAnswers = OwnAnswers'
    BY DEF OwnCalls, OwnAnswers, CallFrame, Frame
<1>2. \A o \in Origins : UpOf(o) \subseteq UpOf(o)' /\ DownOf(o) \subseteq DownOf(o)'
    BY <1>1 DEF UpOf, DownOf
<1>3. ASSUME NEW o \in Origins
      PROVE  up'[o] \in Seq(UpOf(o)') /\ down'[o] \in Seq(DownOf(o)')
    <2>1. up[o] \in Seq(UpOf(o)) /\ down[o] \in Seq(DownOf(o))
        BY DEF FramesTell
    <2>2. up[o] \in Seq(UpOf(o)') /\ down[o] \in Seq(DownOf(o)')
        BY <1>2, <2>1, SeqWider
    <2> QED
        BY <2>2
<1> QED
    BY <1>3 DEF FramesTell

LEMMA EmptyFits == \A S : <<>> \in Seq(S)
    OBVIOUS

LEMMA OwnMsg ==
    ASSUME NEW c \in Calls, c[1] = Core
    PROVE  /\ c = <<Core, c[2]>> /\ c[2] \in Ids
           /\ Msg("invoke", c[2], c) \in OwnCalls /\ Msg("invoke", c[2], c) \in OwnCalls'
           /\ asked[c] => Msg("cancel", c[2], c) \in OwnCalls
           /\ asked'[c] => Msg("cancel", c[2], c) \in OwnCalls'
           /\ \A k \in Answers : Msg(k, c[2], c) \in OwnAnswers
<1>1. c = <<Core, c[2]>> /\ c[2] \in Ids
    OBVIOUS
<1>2. \A k \in {"invoke", "cancel"} \cup Answers : Msg(k, c[2], c) \in Frame
    BY <1>1, MsgTyped
<1> QED
    BY <1>1, <1>2 DEF Msg, OwnCalls, OwnAnswers, CallFrame, AnswerFrame

(* An answer of a call of the core goes to the core.                          *)
LEMMA OwnReplied ==
    ASSUME TypeInv, FramesTell, NEW c \in Calls, c[1] = Core, NEW k \in Answers,
           Reply(c, k, c), UNCHANGED <<up, asked>>
    PROVE  FramesTell'
<1>1. Msg(k, c[2], c) \in OwnAnswers
    BY OwnMsg
<1>2. down[Core] \in Seq(OwnAnswers) /\ OwnAnswers' = OwnAnswers
    BY DEF FramesTell, DownOf, OwnAnswers
<1>3. Append(down[Core], Msg(k, c[2], c)) \in Seq(OwnAnswers')
    BY <1>1, <1>2, SeqKept
<1>4. \A o \in Origins : down'[o] = down[o] \/ down'[o] \in Seq(DownOf(o)')
    BY <1>3 DEF Reply, DownOf, TypeInv, FrameTypes, DownTypes
<1> QED
    BY <1>4, FramesKept

-----------------------------------------------------------------------------
(* The callers and the core.                                                  *)

LEMMA AskOwn ==
    ASSUME OnlyCoreAsks, TypeInv, OwnInv, NEW o \in Origins, NEW w \in Workers, Ask(o, w)
    PROVE  OwnInv'
<1> DEFINE c == <<o, counter[o] + 1>>
<1>1. o = Core /\ c \in Calls /\ c[1] = Core
    BY DEF Ask, OnlyCoreAsks, TypeInv, CallerTypes
<1>2. Msg("invoke", c[2], c) \in OwnCalls'
    BY <1>1, OwnMsg
<1>3. /\ up' = [up EXCEPT ![o] = Append(@, Msg("invoke", c[2], c))]
      /\ caller' = [caller EXCEPT ![c] = "waiting"]
      /\ UNCHANGED <<by, asked, relayVars, superVars, workVars, down>>
    BY DEF Ask
<1> HIDE DEF c
<1>4. OwnCalls' = OwnCalls
    BY <1>3 DEF OwnCalls
<1>5. Append(up[Core], Msg("invoke", c[2], c)) \in Seq(OwnCalls')
    BY <1>2, <1>4, SeqKept DEF OwnInv, FramesTell, UpOf
<1>6. FramesTell'
    BY <1>1, <1>3, <1>5, FramesKept DEF UpOf, TypeInv, FrameTypes, UpTypes, OwnInv
<1>7. CoreCalls'
    BY <1>1, <1>3 DEF OwnInv, TableInv, CoreCalls, TypeInv, CallerTypes, relayVars, workVars
<1>8. Keyed' /\ OwnOrigin' /\ OwnReply' /\ CancelHitsItsCall'
    BY <1>3 DEF OwnInv, TableInv, Keyed, OwnOrigin, OwnReply, CancelHitsItsCall, relayVars,
                superVars, workVars
<1> QED
    BY <1>6, <1>7, <1>8 DEF OwnInv, TableInv

LEMMA AskCancelOwn ==
    ASSUME TypeInv, OwnInv, NEW c \in Calls, AskCancel(c)
    PROVE  OwnInv'
<1>1. c[1] = Core
    BY DEF AskCancel, OwnInv, TableInv, CoreCalls
<1>2. /\ asked' = [asked EXCEPT ![c] = TRUE]
      /\ up' = [up EXCEPT ![Core] = Append(@, Msg("cancel", c[2], c))]
      /\ UNCHANGED <<caller, by, relayVars, superVars, workVars, down>>
    BY <1>1 DEF AskCancel
<1>3. /\ Msg("cancel", c[2], c) \in OwnCalls'
      /\ \A d \in Calls : asked[d] => asked'[d]
    BY <1>1, <1>2, OwnMsg DEF TypeInv, CallerTypes
<1>4. up[Core] \in Seq(OwnCalls')
    <2>1. OwnCalls \subseteq OwnCalls'
        BY <1>3 DEF OwnCalls, CallFrame, Frame
    <2> QED
        BY <2>1, SeqWider DEF OwnInv, FramesTell, UpOf
<1>5. Append(up[Core], Msg("cancel", c[2], c)) \in Seq(OwnCalls')
    BY <1>3, <1>4, SeqKept
<1>6. FramesTell'
    BY <1>2, <1>3, <1>5, FramesKept DEF UpOf, TypeInv, FrameTypes, UpTypes, OwnInv
<1>7. CoreCalls' /\ Keyed' /\ OwnOrigin' /\ OwnReply'
    BY <1>2 DEF OwnInv, TableInv, CoreCalls, Keyed, OwnOrigin, OwnReply, relayVars,
                superVars, workVars
<1>8. CancelHitsItsCall'
    BY <1>2, <1>3 DEF OwnInv, TableInv, CancelHitsItsCall, workVars
<1> QED
    BY <1>6, <1>7, <1>8 DEF OwnInv, TableInv

LEMMA CoreReceiveOwn == ASSUME TypeInv, OwnInv, CoreReceive PROVE OwnInv'
<1>1. PICK k \in DOMAIN down[Core] :
          Deliver(Core, down[Core][k]) /\ down' = [down EXCEPT ![Core] = RemoveAt(@, k)]
    BY DEF CoreReceive
<1> DEFINE f == down[Core][k]
<1>2. f \in OwnAnswers /\ RemoveAt(down[Core], k) \in Seq(OwnAnswers)
    BY SeqKept DEF OwnInv, FramesTell, DownOf
<1>3. f.id \in Ids /\ f.call = <<Core, f.id>>
    BY <1>2 DEF OwnAnswers, AnswerFrame, Frame
<1>4. asked' = asked /\ UNCHANGED <<relayVars, superVars, workVars, up>>
    BY <1>1 DEF CoreReceive, Deliver, callerVars
<1>5. FramesTell'
    <2>1. OwnAnswers' = OwnAnswers
        BY DEF OwnAnswers
    <2>2. \A o \in Origins : down'[o] = down[o] \/ down'[o] \in Seq(DownOf(o)')
        BY <1>1, <1>2, <2>1 DEF DownOf, TypeInv, FrameTypes, DownTypes
    <2> QED
        BY <1>4, <2>2, FramesKept DEF OwnInv
<1> HIDE DEF f
<1>6. Deliver(Core, f)
    BY <1>1 DEF f
<1>7. OwnReply' /\ CoreCalls'
    <2>1. CASE UNCHANGED callerVars
        BY <1>4, <2>1 DEF OwnInv, TableInv, OwnReply, CoreCalls, callerVars, relayVars, workVars
    <2>2. CASE /\ caller' = [caller EXCEPT ![<<Core, f.id>>] = "done"]
               /\ by' = [by EXCEPT ![<<Core, f.id>>] = f.call]
        BY <1>3, <1>4, <2>2 DEF OwnInv, TableInv, OwnReply, CoreCalls, TypeInv, CallerTypes,
                                relayVars, workVars
    <2> QED
        BY <1>6, <2>1, <2>2 DEF Deliver
<1>8. Keyed' /\ OwnOrigin' /\ CancelHitsItsCall'
    BY <1>4 DEF OwnInv, TableInv, Keyed, OwnOrigin, CancelHitsItsCall, relayVars, superVars,
                workVars
<1> QED
    BY <1>5, <1>7, <1>8 DEF OwnInv, TableInv

(* A connection that ends wakes only callers that wait.                       *)
LEMMA HangupOwn ==
    ASSUME OwnInv, NEW o \in Origins, Hangup(o)
    PROVE  /\ asked' = asked /\ OwnReply'
           /\ \A c \in Calls : caller[c] = "idle" => caller'[c] = "idle"
    BY DEF Hangup, OwnInv, TableInv, OwnReply

LEMMA CoreHangsUpOwn == ASSUME TypeInv, OwnInv, CoreHangsUp PROVE OwnInv'
<1>1. /\ asked' = asked /\ OwnReply'
      /\ \A c \in Calls : caller[c] = "idle" => caller'[c] = "idle"
      /\ UNCHANGED <<relayVars, superVars, workVars, up, down>>
    BY HangupOwn DEF CoreHangsUp
<1>2. FramesTell'
    BY <1>1, FramesKept DEF OwnInv
<1>3. CoreCalls' /\ Keyed' /\ OwnOrigin' /\ CancelHitsItsCall'
    BY <1>1 DEF OwnInv, TableInv, CoreCalls, Keyed, OwnOrigin, CancelHitsItsCall, relayVars,
                superVars, workVars
<1> QED
    BY <1>1, <1>2, <1>3 DEF OwnInv, TableInv

-----------------------------------------------------------------------------
(* The relaying tasks: that of a call of the core replies with the answer of  *)
(* that call.                                                                 *)

LEMMA RelayStartOwn ==
    ASSUME TypeInv, OwnInv, NEW c \in Calls, RelayStart(c)
    PROVE  OwnInv'
<1>1. /\ c[1] = Core /\ c = <<Core, c[2]>> /\ c[2] \in Ids
      /\ target[c] \in Workers \cup {None}
      /\ UNCHANGED <<callerVars, origin, workVars, up>>
    BY OwnMsg DEF RelayStart, OwnInv, TableInv, CoreCalls, TypeInv, CallerTypes
<1>2. asked' = asked /\ OwnReply' /\ CancelHitsItsCall'
    BY <1>1 DEF OwnInv, TableInv, OwnReply, CancelHitsItsCall, callerVars, workVars
<1>3. OwnOrigin'
    BY <1>1 DEF OwnInv, TableInv, OwnOrigin
<1>4. ASSUME relay' \in {[relay EXCEPT ![c] = "ended"], [relay EXCEPT ![c] = "waiting"]}
      PROVE  CoreCalls'
    BY <1>1, <1>4 DEF OwnInv, TableInv, CoreCalls, TypeInv, RelayTypes, callerVars, workVars
<1>5. ASSUME NEW x \in {c, None}, pending' \in {pending, [pending EXCEPT ![target[c]][c[2]] = x]}
      PROVE  Keyed'
    <2>1. CASE pending' = pending
        BY <1>1, <2>1 DEF OwnInv, TableInv, Keyed, workVars
    <2>2. CASE pending' = [pending EXCEPT ![target[c]][c[2]] = x] /\ target[c] \in Workers
        BY <1>1, <2>2 DEF OwnInv, TableInv, Keyed, TypeInv, SuperTypes, workVars
    <2>3. CASE pending' = [pending EXCEPT ![target[c]][c[2]] = x] /\ target[c] = None
        BY <1>1, <2>3 DEF OwnInv, TableInv, Keyed, TypeInv, SuperTypes, workVars
    <2> QED
        BY <1>1, <1>5, <2>1, <2>2, <2>3
<1>6. ASSUME NEW k \in Answers, Reply(c, k, c),
             pending' \in {pending, [pending EXCEPT ![target[c]][c[2]] = None]}
      PROVE  OwnInv'
    <2>1. FramesTell'
        BY <1>1, <1>2, <1>6, OwnReplied DEF OwnInv
    <2>2. relay' = [relay EXCEPT ![c] = "ended"]
        BY <1>6 DEF Reply
    <2> QED
        BY <1>2, <1>3, <1>4, <1>5, <1>6, <2>1, <2>2 DEF OwnInv, TableInv
<1>7. CASE SendOn(c)
    <2> DEFINE w == target[c]
               f == Msg("invoke", c[2], c)
    <2>1. /\ relay' = [relay EXCEPT ![c] = "waiting"]
          /\ pending' = [pending EXCEPT ![w][c[2]] = c]
          /\ down' \in {down, [down EXCEPT ![w] = Append(@, f)]}
        BY <1>7 DEF SendOn
    <2>2. f \in OwnCalls /\ OwnCalls' = OwnCalls
        BY <1>1, <1>2, OwnMsg DEF OwnCalls
    <2>3. \A o \in Workers : Append(down[o], f) \in Seq(OwnCalls')
        <3>1. \A o \in Workers : down[o] \in Seq(OwnCalls)
            BY DEF OwnInv, FramesTell, DownOf
        <3> HIDE DEF f
        <3> QED
            BY <2>2, <3>1, SeqKept
    <2> HIDE DEF f, w
    <2>4. w \in Workers \cup {None}
        BY <1>1 DEF w
    <2>5. \A o \in Origins : down'[o] = down[o] \/ (o = w /\ down'[o] = Append(down[o], f))
        BY <2>1 DEF TypeInv, FrameTypes, DownTypes
    <2>6. \A o \in Origins : down'[o] = down[o] \/ down'[o] \in Seq(DownOf(o)')
        BY <2>3, <2>4, <2>5 DEF DownOf
    <2>7. FramesTell'
        BY <1>1, <1>2, <2>6, FramesKept DEF OwnInv
    <2>8. CoreCalls' /\ Keyed'
        BY <1>4, <1>5, <2>1 DEF w
    <2> QED
        BY <1>2, <1>3, <2>7, <2>8 DEF OwnInv, TableInv
<1> QED
    BY <1>6, <1>7 DEF RelayStart

(* A relay that ends, whatever its task made of the future.                   *)
LEMMA RelayEndsOwn ==
    ASSUME TypeInv, OwnInv, NEW c \in Calls, relay[c] = "waiting", NEW k \in Answers,
           Reply(c, k, c), UNCHANGED <<callerVars, origin, pending, workVars, up>>
    PROVE  OwnInv'
<1>1. c[1] = Core
    BY DEF OwnInv, TableInv, CoreCalls
<1>2. FramesTell'
    BY <1>1, OwnReplied DEF OwnInv, callerVars
<1>3. relay' = [relay EXCEPT ![c] = "ended"]
    BY DEF Reply
<1>4. CoreCalls'
    BY <1>3 DEF OwnInv, TableInv, CoreCalls, TypeInv, RelayTypes, callerVars, workVars
<1>5. Keyed' /\ OwnOrigin' /\ OwnReply' /\ CancelHitsItsCall'
    BY DEF OwnInv, TableInv, Keyed, OwnOrigin, OwnReply, CancelHitsItsCall, callerVars,
           workVars
<1> QED
    BY <1>2, <1>4, <1>5 DEF OwnInv, TableInv

LEMMA RelayReturnsOwn ==
    ASSUME TypeInv, OwnInv, NEW c \in Calls, RelayReturns(c)
    PROVE  OwnInv'
<1>1. future[c] \in Answers \cup {"lost"}
    BY DEF RelayReturns, TypeInv, RelayTypes, Answered
<1>2. CASE future[c] = "lost"
    BY <1>2, RelayEndsOwn DEF RelayReturns
<1>3. CASE future[c] \in Answers
    <2>1. origin[c] = c
        BY <1>3 DEF TypeInv, Answered, OwnInv, TableInv, OwnOrigin
    <2> QED
        BY <1>3, <2>1, RelayEndsOwn DEF RelayReturns
<1> QED
    BY <1>1, <1>2, <1>3

LEMMA RelayInterruptedOwn ==
    ASSUME TypeInv, OwnInv, NEW c \in Calls, RelayInterrupted(c)
    PROVE  OwnInv'
    BY RelayEndsOwn DEF RelayInterrupted

-----------------------------------------------------------------------------
(* The readers of the supervisor.                                             *)

LEMMA TakenOwn ==
    ASSUME TypeInv, FramesTell, NEW o \in Origins, NEW k \in DOMAIN up[o],
           up' = [up EXCEPT ![o] = RemoveAt(@, k)], asked' = asked
    PROVE  /\ up[o][k] \in UpOf(o)
           /\ \A p \in Origins : up'[p] = up[p] \/ up'[p] \in Seq(UpOf(p)')
<1>1. up[o][k] \in UpOf(o) /\ RemoveAt(up[o], k) \in Seq(UpOf(o))
    BY SeqKept DEF FramesTell
<1>2. UpOf(o)' = UpOf(o)
    BY DEF UpOf, OwnCalls, OwnAnswers
<1> QED
    BY <1>1, <1>2 DEF TypeInv, FrameTypes, UpTypes

LEMMA HandleInvokeOwn ==
    ASSUME TypeInv, TableInv, NEW f \in OwnCalls, HandleInvoke(Core, f)
    PROVE  TableInv'
<1>1. f.id \in Ids
    BY DEF OwnCalls, CallFrame, Frame
<1>2. /\ relay' = [relay EXCEPT ![<<Core, f.id>>] = "created"]
      /\ UNCHANGED <<callerVars, origin, superVars, workVars>>
    BY DEF HandleInvoke
<1>3. CoreCalls'
    BY <1>1, <1>2 DEF TableInv, CoreCalls, TypeInv, RelayTypes, callerVars, workVars
<1>4. Keyed' /\ OwnOrigin' /\ OwnReply' /\ CancelHitsItsCall'
    BY <1>2 DEF TableInv, Keyed, OwnOrigin, OwnReply, CancelHitsItsCall, callerVars,
                superVars, workVars
<1> QED
    BY <1>3, <1>4 DEF TableInv

(* The future that a result is looked up for by its id is that of its call.   *)
LEMMA HandleResultOwn ==
    ASSUME TypeInv, TableInv, NEW w \in Workers, NEW f \in OwnAnswers, HandleResult(w, f)
    PROVE  TableInv'
<1>1. f.id \in Ids /\ f.call = <<Core, f.id>> /\ f.call \in Calls
    BY DEF OwnAnswers, AnswerFrame, Frame
<1>2. pending[w][f.id] \in {None, f.call}
    BY <1>1 DEF TableInv, Keyed
<1>3. /\ pending' = [pending EXCEPT ![w][f.id] = None]
      /\ UNCHANGED <<callerVars, relay, workVars>>
      /\ origin' \in {origin, [origin EXCEPT ![f.call] = f.call]}
    BY <1>2 DEF HandleResult
<1>4. Keyed'
    BY <1>1, <1>3 DEF TableInv, Keyed, TypeInv, SuperTypes, workVars
<1>5. OwnOrigin'
    BY <1>1, <1>3 DEF TableInv, OwnOrigin, TypeInv, RelayTypes
<1>6. CoreCalls' /\ OwnReply' /\ CancelHitsItsCall'
    BY <1>3 DEF TableInv, CoreCalls, OwnReply, CancelHitsItsCall, callerVars, workVars
<1> QED
    BY <1>4, <1>5, <1>6 DEF TableInv

LEMMA ReceiveWorkerOwn ==
    ASSUME TypeInv, OwnInv, NEW w \in Workers, Receive(w)
    PROVE  OwnInv'
<1>1. PICK k \in DOMAIN up[w] :
          /\ up' = [up EXCEPT ![w] = RemoveAt(@, k)]
          /\ \/ up[w][k].kind = "invoke" /\ HandleInvoke(w, up[w][k])
             \/ up[w][k].kind = "cancel" /\ HandleCancel(w, up[w][k])
             \/ up[w][k].kind \in Answers /\ HandleResult(w, up[w][k])
    BY DEF Receive, Readable
<1>2. asked' = asked
    BY <1>1 DEF HandleInvoke, HandleCancel, HandleResult, callerVars
<1>3. /\ up[w][k] \in OwnAnswers
      /\ \A p \in Origins : up'[p] = up[p] \/ up'[p] \in Seq(UpOf(p)')
    BY <1>1, <1>2, TakenOwn DEF UpOf, OwnInv
<1>4. HandleResult(w, up[w][k])
    BY <1>1, <1>3 DEF OwnAnswers, AnswerFrame
<1>5. TableInv'
    BY <1>3, <1>4, HandleResultOwn DEF OwnInv
<1>6. down' = down
    BY <1>4 DEF HandleResult
<1>7. FramesTell'
    BY <1>2, <1>3, <1>6, FramesKept DEF OwnInv
<1> QED
    BY <1>5, <1>7 DEF OwnInv

(* Cancelling tasks makes no task of a worker's calls.                        *)
LEMMA CancelRelaysOwn ==
    ASSUME TypeInv, NEW o \in Origins, CancelRelays(o)
    PROVE  \A c \in Calls : relay'[c] \in {"created", "waiting"} =>
               relay[c] \in {"created", "waiting"}
    BY DEF CancelRelays

LEMMA HandleCancelOwn ==
    ASSUME TypeInv, OwnInv, NEW f \in OwnCalls, f.kind = "cancel", HandleCancel(Core, f)
    PROVE  /\ TableInv'
           /\ \A o \in Origins : down'[o] = down[o] \/ down'[o] \in Seq(DownOf(o)')
<1> DEFINE c == <<Core, f.id>>
<1>1. f.id \in Ids /\ f.call = c /\ c \in Calls /\ asked[c]
    BY DEF OwnCalls, CallFrame, Frame
<1>2. UNCHANGED <<callerVars, origin, pending, workVars>>
    BY DEF HandleCancel
<1>3. \A d \in Calls : relay'[d] \in {"created", "waiting"} =>
          relay[d] \in {"created", "waiting"}
    BY CancelRelaysOwn DEF HandleCancel, HandleUpstreamCancel
<1>4. TableInv'
    <2>1. CoreCalls'
        BY <1>2, <1>3 DEF OwnInv, TableInv, CoreCalls, callerVars, workVars
    <2>2. Keyed' /\ OwnOrigin' /\ OwnReply' /\ CancelHitsItsCall'
        BY <1>2 DEF OwnInv, TableInv, Keyed, OwnOrigin, OwnReply, CancelHitsItsCall,
                    callerVars, workVars
    <2> QED
        BY <2>1, <2>2 DEF TableInv
<1> DEFINE w == active[c[2]]
           g == Msg("cancel", c[2], c)
<1>5. g \in OwnCalls /\ OwnCalls' = OwnCalls
    BY <1>1, <1>2, OwnMsg DEF OwnCalls, callerVars
<1>6. down' = down \/ (w # None /\ down' = [down EXCEPT ![w] = Append(@, g)])
    BY DEF HandleCancel, HandleUpstreamCancel
<1>7. w \in Workers \cup {None}
    BY <1>1 DEF TypeInv, SuperTypes
<1> HIDE DEF w, g
<1>8. \A o \in Workers : Append(down[o], g) \in Seq(OwnCalls')
    <2>1. \A o \in Workers : down[o] \in Seq(OwnCalls)
        BY DEF OwnInv, FramesTell, DownOf
    <2> QED
        BY <1>5, <2>1, SeqKept
<1>9. \A o \in Origins : down'[o] = down[o] \/ down'[o] \in Seq(DownOf(o)')
    BY <1>6, <1>7, <1>8 DEF DownOf, TypeInv, FrameTypes, DownTypes
<1> QED
    BY <1>4, <1>9

LEMMA ReceiveCoreOwn == ASSUME TypeInv, OwnInv, Receive(Core) PROVE OwnInv'
<1>1. PICK k \in DOMAIN up[Core] :
          /\ up' = [up EXCEPT ![Core] = RemoveAt(@, k)]
          /\ \/ up[Core][k].kind = "invoke" /\ HandleInvoke(Core, up[Core][k])
             \/ up[Core][k].kind = "cancel" /\ HandleCancel(Core, up[Core][k])
             \/ up[Core][k].kind \in Answers /\ HandleResult(Core, up[Core][k])
    BY DEF Receive, Readable
<1>2. asked' = asked
    BY <1>1 DEF HandleInvoke, HandleCancel, HandleResult, callerVars
<1>3. /\ up[Core][k] \in OwnCalls
      /\ \A p \in Origins : up'[p] = up[p] \/ up'[p] \in Seq(UpOf(p)')
    BY <1>1, <1>2, TakenOwn DEF UpOf, OwnInv
<1>4. CASE HandleInvoke(Core, up[Core][k])
    <2>1. TableInv'
        BY <1>3, <1>4, HandleInvokeOwn DEF OwnInv
    <2>2. FramesTell'
        BY <1>2, <1>3, <1>4, FramesKept DEF HandleInvoke, OwnInv
    <2> QED
        BY <2>1, <2>2 DEF OwnInv
<1>5. CASE up[Core][k].kind = "cancel" /\ HandleCancel(Core, up[Core][k])
    <2>1. /\ TableInv'
          /\ \A o \in Origins : down'[o] = down[o] \/ down'[o] \in Seq(DownOf(o)')
        BY <1>3, <1>5, HandleCancelOwn
    <2>2. FramesTell'
        BY <1>2, <1>3, <2>1, FramesKept DEF OwnInv
    <2> QED
        BY <2>1, <2>2 DEF OwnInv
<1> QED
    BY <1>1, <1>3, <1>4, <1>5 DEF OwnCalls, CallFrame

LEMMA ForwardDoneOwn == ASSUME TypeInv, OwnInv, ForwardDone PROVE OwnInv'
<1>1. UNCHANGED <<callerVars, relay, origin, pending, workVars, up, down>>
    BY DEF ForwardDone
<1>2. FramesTell'
    BY <1>1, FramesKept DEF OwnInv, callerVars
<1> QED
    BY <1>1, <1>2 DEF OwnInv, TableInv, CoreCalls, Keyed, OwnOrigin, OwnReply,
                      CancelHitsItsCall, callerVars, workVars

-----------------------------------------------------------------------------
(* The deaths of workers.                                                     *)

LEMMA DieOwn == ASSUME TypeInv, OwnInv, NEW w \in Workers, Die(w) PROVE OwnInv'
<1>1. /\ asked' = asked /\ OwnReply'
      /\ \A c \in Calls : caller[c] = "idle" => caller'[c] = "idle"
    BY HangupOwn DEF Die
<1>2. /\ UNCHANGED <<relayVars, pending, inbound, workCancel, up>>
      /\ down' = [down EXCEPT ![w] = <<>>]
      /\ \A c \in Calls : work'[c] = "running" => work[c] = "running"
    BY DEF Die
<1>3. \A o \in Origins : down'[o] = down[o] \/ down'[o] \in Seq(DownOf(o)')
    BY <1>2 DEF TypeInv, FrameTypes, DownTypes
<1>4. FramesTell'
    BY <1>1, <1>2, <1>3, FramesKept DEF OwnInv
<1>5. CoreCalls' /\ Keyed' /\ OwnOrigin' /\ CancelHitsItsCall'
    BY <1>1, <1>2 DEF OwnInv, TableInv, CoreCalls, Keyed, OwnOrigin, CancelHitsItsCall,
                      relayVars
<1> QED
    BY <1>1, <1>4, <1>5 DEF OwnInv, TableInv

(* The end of a pipe, the failure of a session and its removal forget what    *)
(* they hold and make nothing.                                                *)
LEMMA SessionOwn == ASSUME TypeInv, OwnInv, NEW w \in Workers, Session(w) PROVE OwnInv'
<1>1. /\ UNCHANGED <<callerVars, origin, workVars, down>>
      /\ up' \in {up, [up EXCEPT ![w] = <<>>]}
    BY DEF Session, Eof, FailSession, Forget, relayVars
<1>2. \A c \in Calls : relay'[c] \in {"created", "waiting"} =>
          relay[c] \in {"created", "waiting"}
    BY CancelRelaysOwn DEF Session, Eof, FailSession, Forget, relayVars
<1>3. pending' \in {pending, [pending EXCEPT ![w] = [i \in Ids |-> None]]}
    BY DEF Session, Eof, FailSession, Forget
<1>4. \A o \in Origins : up'[o] = up[o] \/ up'[o] \in Seq(UpOf(o)')
    <2>1. \A o \in Origins : up'[o] = up[o] \/ up'[o] = <<>>
        BY <1>1 DEF TypeInv, FrameTypes, UpTypes
    <2>2. \A o \in Origins : <<>> \in Seq(UpOf(o)')
        BY EmptyFits
    <2> QED
        BY <2>1, <2>2
<1>5. FramesTell'
    BY <1>1, <1>4, FramesKept DEF OwnInv, callerVars
<1>6. Keyed'
    <2>1. \A v \in Workers, i \in Ids : pending'[v][i] \in {pending[v][i], None}
        <3>1. CASE pending' = pending
            BY <3>1
        <3>2. CASE pending' = [pending EXCEPT ![w] = [i \in Ids |-> None]]
            BY <3>2 DEF TypeInv, SuperTypes
        <3> QED
            BY <1>3, <3>1, <3>2
    <2> QED
        BY <1>1, <2>1 DEF OwnInv, TableInv, Keyed, workVars
<1>7. CoreCalls' /\ OwnOrigin' /\ OwnReply' /\ CancelHitsItsCall'
    BY <1>1, <1>2 DEF OwnInv, TableInv, CoreCalls, OwnOrigin, OwnReply, CancelHitsItsCall,
                      callerVars, workVars
<1> QED
    BY <1>5, <1>6, <1>7 DEF OwnInv, TableInv

-----------------------------------------------------------------------------
(* The workers: a cancel finds, by its id, the task of the call it is for.    *)

LEMMA WorkerReceiveOwn ==
    ASSUME TypeInv, OwnInv, NEW w \in Workers, WorkerReceive(w)
    PROVE  OwnInv'
<1> DEFINE f == Head(down[w])
<1>1. f \in OwnCalls /\ Tail(down[w]) \in Seq(OwnCalls)
    BY SeqKept DEF WorkerReceive, OwnInv, FramesTell, DownOf
<1>2. /\ f.id \in Ids /\ f.call = <<Core, f.id>> /\ f.call \in Calls
      /\ f.kind \notin Answers /\ (f.kind = "cancel" => asked[f.call])
    BY <1>1 DEF OwnCalls, CallFrame, Frame
<1>3. inbound[w][f.id] \in {None, f.call}
    BY <1>2 DEF OwnInv, TableInv, Keyed
<1> HIDE DEF f
<1>4. /\ UNCHANGED <<callerVars, relayVars, superVars, up>>
      /\ down' = [down EXCEPT ![w] = Tail(@)]
      /\ \/ /\ inbound' = [inbound EXCEPT ![w][f.id] = f.call]
            /\ work' = [work EXCEPT ![f.call] = "running"]
            /\ UNCHANGED workCancel
         \/ f.kind = "cancel" /\ WorkerCancel(w, f.id) /\ UNCHANGED <<inbound, work>>
    BY <1>2 DEF WorkerReceive, f
<1>5. FramesTell'
    <2>1. OwnCalls' = OwnCalls /\ asked' = asked
        BY <1>4 DEF OwnCalls, callerVars
    <2>2. \A o \in Origins : down'[o] = down[o] \/ down'[o] \in Seq(DownOf(o)')
        BY <1>1, <1>4, <2>1 DEF DownOf, TypeInv, FrameTypes, DownTypes
    <2> QED
        BY <1>4, <2>1, <2>2, FramesKept DEF OwnInv
<1>6. Keyed'
    <2>1. \A v \in Workers, i \in Ids : inbound'[v][i] \in {inbound[v][i], <<Core, i>>}
        <3>1. CASE inbound' = [inbound EXCEPT ![w][f.id] = f.call]
            BY <1>2, <3>1 DEF TypeInv, WorkTypes
        <3> QED
            BY <1>4, <3>1
    <2> QED
        BY <1>4, <2>1 DEF OwnInv, TableInv, Keyed, superVars
<1>7. CoreCalls'
    BY <1>2, <1>4 DEF OwnInv, TableInv, CoreCalls, TypeInv, WorkTypes, callerVars, relayVars
<1>8. CancelHitsItsCall'
    <2>1. CASE UNCHANGED workCancel
        BY <1>4, <2>1 DEF OwnInv, TableInv, CancelHitsItsCall, callerVars
    <2>2. CASE f.kind = "cancel" /\ WorkerCancel(w, f.id)
        <3>1. workCancel' \in {workCancel, [workCancel EXCEPT ![f.call] = TRUE]}
            BY <1>3, <2>2 DEF WorkerCancel
        <3>2. asked[f.call]
            BY <1>2, <2>2
        <3>3. \A c \in Calls : workCancel'[c] => workCancel[c] \/ c = f.call
            BY <1>2, <3>1 DEF TypeInv, WorkTypes
        <3> QED
            BY <1>4, <3>2, <3>3 DEF OwnInv, TableInv, CancelHitsItsCall, callerVars
    <2> QED
        BY <1>4, <2>1, <2>2
<1>9. OwnOrigin' /\ OwnReply'
    BY <1>4 DEF OwnInv, TableInv, OwnOrigin, OwnReply, callerVars, relayVars
<1> QED
    BY <1>5, <1>6, <1>7, <1>8, <1>9 DEF OwnInv, TableInv

LEMMA FinishOwn == ASSUME TypeInv, OwnInv, NEW c \in Calls, Finish(c) PROVE OwnInv'
<1> DEFINE f == Msg(IF workCancel[c] THEN "cancelled" ELSE "ok", c[2], c)
           w == target[c]
<1>1. c[1] = Core
    BY DEF Finish, OwnInv, TableInv, CoreCalls
<1>2. f \in OwnAnswers /\ c[2] \in Ids
    BY <1>1, OwnMsg
<1>3. w \in Workers \cup {None}
    BY DEF TypeInv, CallerTypes
<1> HIDE DEF f, w
<1>4. /\ work' = [work EXCEPT ![c] = "ended"]
      /\ inbound' = [inbound EXCEPT ![w][c[2]] = None]
      /\ up' = [up EXCEPT ![w] = Append(@, f)]
      /\ UNCHANGED <<callerVars, relayVars, superVars, workCancel, down>>
    BY DEF Finish, f, w
<1>5. FramesTell'
    <2>1. OwnAnswers' = OwnAnswers
        BY DEF OwnAnswers
    <2>2. \A o \in Workers : Append(up[o], f) \in Seq(OwnAnswers')
        <3>1. \A o \in Workers : up[o] \in Seq(OwnAnswers)
            BY DEF OwnInv, FramesTell, UpOf
        <3> QED
            BY <1>2, <2>1, <3>1, SeqKept
    <2>3. \A o \in Origins : up'[o] = up[o] \/ (o = w /\ up'[o] = Append(up[o], f))
        BY <1>4 DEF TypeInv, FrameTypes, UpTypes
    <2>4. \A o \in Origins : up'[o] = up[o] \/ up'[o] \in Seq(UpOf(o)')
        BY <1>3, <2>2, <2>3 DEF UpOf
    <2> QED
        BY <1>4, <2>4, FramesKept DEF OwnInv, callerVars
<1>6. Keyed'
    <2>1. \A v \in Workers, i \in Ids : inbound'[v][i] \in {inbound[v][i], None}
        <3>1. CASE w = None
            BY <1>4, <3>1 DEF TypeInv, WorkTypes
        <3>2. CASE w \in Workers
            BY <1>2, <1>4, <3>2 DEF TypeInv, WorkTypes
        <3> QED
            BY <1>3, <3>1, <3>2
    <2> QED
        BY <1>4, <2>1 DEF OwnInv, TableInv, Keyed, superVars
<1>7. CoreCalls' /\ OwnOrigin' /\ OwnReply' /\ CancelHitsItsCall'
    BY <1>4 DEF OwnInv, TableInv, CoreCalls, OwnOrigin, OwnReply, CancelHitsItsCall,
                TypeInv, WorkTypes, callerVars, relayVars
<1> QED
    BY <1>5, <1>6, <1>7 DEF OwnInv, TableInv

LEMMA OwnNext ==
    ASSUME OnlyCoreAsks
    PROVE  TypeInv /\ OwnInv /\ [Next]_vars => OwnInv'
<1> SUFFICES ASSUME TypeInv, OwnInv, [Next]_vars PROVE OwnInv'
    OBVIOUS
<1>1. CASE \E o \in Origins, w \in Workers : Ask(o, w)
    BY <1>1, AskOwn
<1>2. CASE \E c \in Calls : AskCancel(c) \/ Finish(c)
    BY <1>2, AskCancelOwn, FinishOwn
<1>3. CASE Supervisor
    <2>1. ASSUME NEW o \in Origins, Receive(o) PROVE OwnInv'
        BY <2>1, ReceiveCoreOwn, ReceiveWorkerOwn
    <2> QED
        BY <1>3, <2>1, RelayStartOwn, RelayReturnsOwn, RelayInterruptedOwn, ForwardDoneOwn,
           SessionOwn DEF Supervisor
<1>4. CASE CoreLoop
    BY <1>4, CoreReceiveOwn, CoreHangsUpOwn DEF CoreLoop
<1>5. CASE \E w \in Workers : WorkerReceive(w) \/ Die(w)
    BY <1>5, WorkerReceiveOwn, DieOwn
<1>6. CASE UNCHANGED vars
    <2>1. FramesTell'
        BY <1>6, FramesKept DEF vars, callerVars, OwnInv
    <2>2. TableInv'
        BY <1>6 DEF vars, callerVars, relayVars, superVars, workVars, OwnInv, TableInv,
                    CoreCalls, Keyed, OwnOrigin, OwnReply, CancelHitsItsCall
    <2> QED
        BY <2>1, <2>2 DEF OwnInv
<1> QED
    BY <1>1, <1>2, <1>3, <1>4, <1>5, <1>6 DEF Next

LEMMA OwnHolds == ASSUME OnlyCoreAsks PROVE Spec => []OwnInv
<1>1. Spec => []TypeInv
    BY InitTyped, NextTyped, PTL DEF Spec
<1>2. TypeInv /\ OwnInv /\ [Next]_vars => OwnInv'
    BY OwnNext
<1> QED
    BY <1>1, <1>2, OwnInit, PTL DEF Spec

(* As long as only the core makes calls, what it gets for a call is the       *)
(* answer of that call's own execution, through cancels, deaths of workers    *)
(* and frames that overtake each other; and a worker cancels only what the    *)
(* core asked to be cancelled.                                                *)
THEOREM CoreCallsKeptApart == ASSUME OnlyCoreAsks PROVE Spec => []CallsKeptApart
<1>1. OwnInv => CallsKeptApart
    BY DEF OwnInv, TableInv, CallsKeptApart
<1> QED
    BY <1>1, OwnHolds, PTL

-----------------------------------------------------------------------------
(* active_requests of the supervisor, when only the core makes calls: an      *)
(* entry stands exactly while its request is relayed.                         *)

Mine(i) == <<Core, i>>
Invokes == {n \in DOMAIN up[Core] : up[Core][n].kind = "invoke"}

(* The core asks once under an id, and the request is relayed once: without   *)
(* it a second task of that id would take the entry of the first.             *)
AskedOnce ==
    /\ \A n \in Invokes : LET i == up[Core][n].id IN
          i <= counter[Core] /\ relay[Mine(i)] = "none"
    /\ \A m, n \in Invokes : up[Core][m].id = up[Core][n].id => m = n
    /\ \A i \in Ids : IF i <= counter[Core] THEN target[Mine(i)] \in Workers
                      ELSE relay[Mine(i)] = "none"

(* ActiveIsRelayed as the core's calls keep it.                               *)
Served ==
    \A i \in Ids :
        /\ active[i] # None => relay[Mine(i)] = "waiting" /\ target[Mine(i)] = active[i]
        /\ relay[Mine(i)] = "waiting" =>
              /\ ~gone[target[Mine(i)]] => active[i] = target[Mine(i)]
              /\ future[Mine(i)] = "pending" => pending[target[Mine(i)]][i] = Mine(i)

ServedInv == TypeInv /\ OwnInv /\ AskedOnce /\ Served

USE DEF Mine

LEMMA MineAre ==
    /\ \A i \in Ids : Mine(i) \in Calls /\ Mine(i)[1] = Core /\ Mine(i)[2] = i
    /\ \A c \in Calls : c[1] = Core => c[2] \in Ids /\ c = Mine(c[2])
    /\ \A i, j \in Ids : Mine(i) = Mine(j) => i = j
    BY DEF Mine

LEMMA ServedImplies == ServedInv => ActiveIsRelayed
<1> SUFFICES ASSUME ServedInv, NEW i \in Ids
             PROVE LET serving == {c \in Calls : c[2] = i /\ relay[c] = "waiting"} IN
                   /\ active[i] # None => \E c \in serving : target[c] = active[i]
                   /\ \A c \in serving :
                        /\ ~gone[target[c]] => active[i] = target[c]
                        /\ future[c] = "pending" => pending[target[c]][i] = c
    BY DEF ActiveIsRelayed
<1> DEFINE serving == {c \in Calls : c[2] = i /\ relay[c] = "waiting"}
<1>1. \A c \in serving : c = Mine(i)
    BY MineAre DEF ServedInv, OwnInv, TableInv, CoreCalls
<1>2. relay[Mine(i)] = "waiting" => Mine(i) \in serving
    BY MineAre
<1> QED
    BY <1>1, <1>2 DEF ServedInv, Served

LEMMA ServedInit == Init => AskedOnce /\ Served
<1> SUFFICES ASSUME Init PROVE AskedOnce /\ Served
    OBVIOUS
<1>1. /\ up[Core] = <<>> /\ counter[Core] = 0
      /\ \A i \in Ids : relay[Mine(i)] = "none" /\ active[i] = None
    BY MineAre DEF Init, Each
<1> QED
    BY <1>1 DEF AskedOnce, Served, Invokes

-----------------------------------------------------------------------------
(* Steps that ask nothing and relay nothing.                                  *)

LEMMA CoreFrames ==
    ASSUME UpTypes
    PROVE  /\ up[Core] \in Seq(CallFrame) /\ up[Core] \in Seq(Frame)
           /\ \A n \in DOMAIN up[Core] : n \in Nat \ {0} /\ up[Core][n].id \in Ids
<1>1. up[Core] \in Seq(CallFrame) /\ up[Core] \in Seq(Frame)
    BY DEF UpTypes
<1>2. \A n \in DOMAIN up[Core] : n \in Nat \ {0} /\ up[Core][n] \in Frame
    BY <1>1
<1> QED
    BY <1>1, <1>2 DEF Frame

LEMMA AskedKept ==
    ASSUME AskedOnce, UpTypes, up'[Core] = up[Core], UNCHANGED <<counter, target>>,
           \A i \in Ids : relay'[Mine(i)] = relay[Mine(i)] \/ relay[Mine(i)] # "none"
    PROVE  AskedOnce'
<1>1. Invokes' = Invokes /\ \A n \in Invokes : up[Core][n].id \in Ids
    BY CoreFrames DEF Invokes
<1>2. \A i \in Ids : relay[Mine(i)] = "none" => relay'[Mine(i)] = "none"
    OBVIOUS
<1> QED
    BY <1>1, <1>2 DEF AskedOnce

LEMMA ServedKept ==
    ASSUME Served, UNCHANGED <<target, active, gone, pending, future>>,
           \A i \in Ids : relay'[Mine(i)] = "waiting" <=> relay[Mine(i)] = "waiting"
    PROVE  Served'
    BY DEF Served

LEMMA BothKept ==
    ASSUME TypeInv, AskedOnce, Served, up'[Core] = up[Core],
           UNCHANGED <<counter, target, relay, active, gone, pending, future>>
    PROVE  AskedOnce' /\ Served'
<1>1. AskedOnce'
    BY AskedKept DEF TypeInv, FrameTypes
<1>2. Served'
    BY ServedKept
<1> QED
    BY <1>1, <1>2

-----------------------------------------------------------------------------
(* What the core sends, and what the supervisor takes of it: the oldest.      *)

LEMMA AskedMore ==
    ASSUME AskedOnce, UpTypes, NEW f \in CallFrame, up'[Core] = Append(up[Core], f),
           f.kind # "invoke", UNCHANGED <<counter, target, relay>>
    PROVE  AskedOnce'
<1>1. Invokes' = Invokes /\ \A n \in Invokes : up'[Core][n] = up[Core][n]
    BY CoreFrames DEF Invokes
<1>2. \A n \in Invokes' : LET i == up'[Core][n].id IN
          i <= counter'[Core] /\ relay'[Mine(i)] = "none"
    BY <1>1 DEF AskedOnce
<1>3. ASSUME NEW m \in Invokes, NEW n \in Invokes, up'[Core][m].id = up'[Core][n].id
      PROVE  m = n
    <2>1. up[Core][m].id = up[Core][n].id
        BY <1>1, <1>3
    <2> QED
        BY <2>1 DEF AskedOnce
<1> QED
    BY <1>1, <1>2, <1>3 DEF AskedOnce

LEMMA HeadRemoved ==
    ASSUME NEW S, NEW s \in Seq(S), s # <<>>
    PROVE  /\ RemoveAt(s, 1) = Tail(s)
           /\ \A n \in DOMAIN Tail(s) :
                 n \in Nat \ {0} /\ n + 1 \in DOMAIN s /\ Tail(s)[n] = s[n + 1]
<1>1. SubSeq(s, 1, 0) = <<>> /\ SubSeq(s, 2, Len(s)) = Tail(s)
    OBVIOUS
<1> QED
    BY <1>1 DEF RemoveAt

LEMMA AskedTaken ==
    ASSUME AskedOnce, UpTypes, 1 \in DOMAIN up[Core], up'[Core] = RemoveAt(up[Core], 1),
           UNCHANGED <<counter, target>>, counter[Core] \in Nat,
           \A i \in Ids : \/ relay'[Mine(i)] = relay[Mine(i)] \/ relay[Mine(i)] # "none"
                          \/ up[Core][1].kind = "invoke" /\ up[Core][1].id = i
    PROVE  AskedOnce'
<1>1. /\ up'[Core] = Tail(up[Core])
      /\ \A n \in DOMAIN up'[Core] : /\ n \in Nat \ {0} /\ n + 1 \in DOMAIN up[Core]
                                     /\ up'[Core][n] = up[Core][n + 1]
    BY HeadRemoved DEF UpTypes
<1>2. \A n \in Invokes' : /\ n \in Nat \ {0} /\ n + 1 \in Invokes
                          /\ up'[Core][n] = up[Core][n + 1]
    BY <1>1 DEF Invokes
<1>3. \A n \in Invokes : up[Core][n].id \in Ids
    BY CoreFrames DEF Invokes
<1>4. ASSUME NEW n \in Invokes'
      PROVE  LET i == up'[Core][n].id IN i <= counter'[Core] /\ relay'[Mine(i)] = "none"
    <2> DEFINE i == up[Core][n + 1].id
    <2>1. n + 1 \in Invokes /\ n + 1 # 1 /\ up'[Core][n].id = i
        BY <1>2
    <2>2. i \in Ids /\ i <= counter[Core] /\ relay[Mine(i)] = "none"
        BY <1>3, <2>1 DEF AskedOnce
    <2>3. ~(up[Core][1].kind = "invoke" /\ up[Core][1].id = i)
        BY <2>1 DEF AskedOnce, Invokes
    <2> QED
        BY <2>1, <2>2, <2>3
<1>5. ASSUME NEW m \in Invokes', NEW n \in Invokes', up'[Core][m].id = up'[Core][n].id
      PROVE  m = n
    <2>1. m + 1 = n + 1
        BY <1>2, <1>5 DEF AskedOnce
    <2> QED
        BY <1>2, <2>1
<1>6. ASSUME NEW i \in Ids
      PROVE  IF i <= counter'[Core] THEN target'[Mine(i)] \in Workers
             ELSE relay'[Mine(i)] = "none"
    <2>1. ASSUME ~(i <= counter[Core])
          PROVE  relay'[Mine(i)] = "none"
        <3>1. relay[Mine(i)] = "none"
            BY <2>1 DEF AskedOnce
        <3>2. ~(up[Core][1].kind = "invoke" /\ up[Core][1].id = i)
            BY <2>1 DEF AskedOnce, Invokes
        <3> QED
            BY <3>1, <3>2
    <2>2. i <= counter[Core] => target[Mine(i)] \in Workers
        BY DEF AskedOnce
    <2> QED
        BY <2>1, <2>2
<1> QED
    BY <1>4, <1>5, <1>6 DEF AskedOnce

-----------------------------------------------------------------------------
(* The callers.                                                               *)

LEMMA AskServed ==
    ASSUME OnlyCoreAsks, ServedInv, NEW o \in Origins, NEW w \in Workers, Ask(o, w)
    PROVE  AskedOnce' /\ Served'
<1> DEFINE n == counter[Core] + 1
           f == Msg("invoke", n, Mine(n))
<1>1. o = Core /\ n \in Ids /\ counter[Core] \in Nat
    BY DEF Ask, OnlyCoreAsks, ServedInv, TypeInv, CallerTypes
<1>2. /\ counter' = [counter EXCEPT ![Core] = n]
      /\ target' = [target EXCEPT ![Mine(n)] = w]
      /\ up' = [up EXCEPT ![Core] = Append(@, f)]
      /\ UNCHANGED <<relay, active, gone, pending, future>>
    BY <1>1 DEF Ask, relayVars, superVars
<1>3. f.kind = "invoke" /\ f.id = n
    BY DEF Msg
<1> HIDE DEF f
<1>4. counter'[Core] = n /\ \A i \in Ids : target'[Mine(i)] = IF i = n THEN w ELSE target[Mine(i)]
    BY <1>1, <1>2 DEF ServedInv, TypeInv, CallerTypes
<1>5. relay[Mine(n)] = "none"
    BY <1>1 DEF ServedInv, AskedOnce
<1>6. Served'
    BY <1>1, <1>2, <1>4, <1>5 DEF ServedInv, Served
<1>7. up'[Core] = Append(up[Core], f) /\ up[Core] \in Seq(Frame)
    BY <1>2 DEF ServedInv, TypeInv, FrameTypes, UpTypes
<1> DEFINE last == Len(up[Core]) + 1
<1>8. /\ Invokes' = Invokes \cup {last} /\ last \notin Invokes /\ up'[Core][last] = f
      /\ \A m \in Invokes : up'[Core][m] = up[Core][m] /\ up[Core][m].id \in Ids
    <2>1. /\ DOMAIN up'[Core] = DOMAIN up[Core] \cup {last} /\ last \notin DOMAIN up[Core]
          /\ up'[Core][last] = f /\ \A m \in DOMAIN up[Core] : up'[Core][m] = up[Core][m]
        BY <1>7
    <2>2. \A m \in DOMAIN up[Core] : up[Core][m].id \in Ids
        BY CoreFrames DEF ServedInv, TypeInv, FrameTypes
    <2> QED
        BY <1>3, <2>1, <2>2 DEF Invokes
<1> HIDE DEF last
<1>9. \A m \in Invokes : up[Core][m].id # n
    <2>1. \A m \in Invokes : up[Core][m].id \in Ids /\ up[Core][m].id <= counter[Core]
        BY <1>8 DEF ServedInv, AskedOnce
    <2> QED
        BY <1>1, <2>1
<1>10. \A m \in Invokes' : LET i == up'[Core][m].id IN
           i <= counter'[Core] /\ relay'[Mine(i)] = "none"
    <2>1. \A m \in Invokes : LET i == up[Core][m].id IN
              i \in Ids /\ i <= counter[Core] /\ relay[Mine(i)] = "none"
        BY <1>8 DEF ServedInv, AskedOnce
    <2>2. n \in Nat /\ counter[Core] <= n /\ relay' = relay
        BY <1>1, <1>2
    <2>3. ASSUME NEW m \in Invokes
          PROVE  up'[Core][m].id <= counter'[Core] /\ relay'[Mine(up'[Core][m].id)] = "none"
        BY <1>1, <1>4, <1>8, <2>1, <2>2
    <2>4. up'[Core][last].id = n
        BY <1>3, <1>8
    <2> QED
        BY <1>4, <1>5, <1>8, <2>2, <2>3, <2>4
<1>11. \A l, m \in Invokes' : up'[Core][l].id = up'[Core][m].id => l = m
    BY <1>3, <1>8, <1>9 DEF ServedInv, AskedOnce
<1>12. \A i \in Ids : IF i <= counter'[Core] THEN target'[Mine(i)] \in Workers
                      ELSE relay'[Mine(i)] = "none"
    <2>1. \A i \in Ids : IF i <= counter[Core] THEN target[Mine(i)] \in Workers
                         ELSE relay[Mine(i)] = "none"
        BY DEF ServedInv, AskedOnce
    <2> QED
        BY <1>1, <1>2, <1>4, <2>1
<1> QED
    BY <1>6, <1>10, <1>11, <1>12 DEF AskedOnce

LEMMA AskCancelServed ==
    ASSUME ServedInv, NEW c \in Calls, AskCancel(c)
    PROVE  AskedOnce' /\ Served'
<1> DEFINE f == Msg("cancel", c[2], c)
<1>1. c[1] = Core
    BY DEF AskCancel, ServedInv, OwnInv, TableInv, CoreCalls
<1>2. f \in CallFrame /\ f.kind # "invoke"
    BY MsgTyped, CallParts DEF CallFrame, Msg
<1> HIDE DEF f
<1>3. /\ up' = [up EXCEPT ![Core] = Append(@, f)]
      /\ UNCHANGED <<counter, target, relay, active, gone, pending, future>>
    BY <1>1 DEF AskCancel, relayVars, superVars, f
<1>4. up'[Core] = Append(up[Core], f)
    BY <1>3 DEF ServedInv, TypeInv, FrameTypes, UpTypes
<1> QED
    BY <1>2, <1>3, <1>4, AskedMore, ServedKept DEF ServedInv, TypeInv, FrameTypes

(* What happens at the core, in a worker and on its pipes leaves the tables   *)
(* of the supervisor alone.                                                   *)
LEMMA ElsewhereServed ==
    ASSUME ServedInv,
           \/ CoreReceive \/ CoreHangsUp \/ ForwardDone
           \/ \E w \in Workers : WorkerReceive(w) \/ Die(w) \/ Eof(w)
           \/ \E c \in Calls : Finish(c)
           \/ UNCHANGED vars
    PROVE  AskedOnce' /\ Served'
<1>1. \A o \in Origins, f \in Frame : Deliver(o, f) => UNCHANGED <<counter, target>>
    BY DEF Deliver, callerVars
<1>2. CASE CoreReceive
    BY <1>2, BothKept DEF CoreReceive, Deliver, callerVars, relayVars, superVars, ServedInv
<1>3. CASE CoreHangsUp \/ ForwardDone \/ UNCHANGED vars
    BY <1>3, BothKept DEF CoreHangsUp, Hangup, ForwardDone, vars, callerVars, relayVars,
                          superVars, ServedInv
<1>4. ASSUME NEW w \in Workers, WorkerReceive(w) PROVE AskedOnce' /\ Served'
    BY <1>4, BothKept DEF WorkerReceive, Deliver, callerVars, relayVars, superVars, ServedInv
<1>5. ASSUME NEW w \in Workers, Die(w) \/ Eof(w) PROVE AskedOnce' /\ Served'
    <2>1. up'[Core] = up[Core]
        BY <1>5 DEF Die, Eof, ServedInv, TypeInv, FrameTypes, UpTypes
    <2> QED
        BY <1>5, <2>1, BothKept DEF Die, Eof, Hangup, callerVars, relayVars, ServedInv
<1>6. ASSUME NEW c \in Calls, Finish(c) PROVE AskedOnce' /\ Served'
    <2>1. target[c] # Core
        BY DEF ServedInv, TypeInv, CallerTypes
    <2>2. up'[Core] = up[Core]
        BY <1>6, <2>1 DEF Finish, ServedInv, TypeInv, FrameTypes, UpTypes
    <2> QED
        BY <1>6, <2>2, BothKept DEF Finish, callerVars, relayVars, superVars, ServedInv
<1> QED
    BY <1>2, <1>3, <1>4, <1>5, <1>6

-----------------------------------------------------------------------------
(* The tasks that relay.                                                      *)

LEMMA RelayEndsServed ==
    ASSUME ServedInv, NEW i \in Ids, relay[Mine(i)] # "none",
           relay' = [relay EXCEPT ![Mine(i)] = "ended"],
           active' = [active EXCEPT ![i] = None],
           UNCHANGED <<counter, target, gone, up>>,
           \A j \in Ids \ {i} : /\ future'[Mine(j)] = future[Mine(j)]
                                /\ \A w \in Workers : pending'[w][j] = pending[w][j]
    PROVE  AskedOnce' /\ Served'
<1>1. /\ relay'[Mine(i)] = "ended" /\ active'[i] = None
      /\ \A j \in Ids \ {i} : relay'[Mine(j)] = relay[Mine(j)] /\ active'[j] = active[j]
    BY DEF ServedInv, TypeInv, RelayTypes, SuperTypes
<1>2. AskedOnce'
    BY <1>1, AskedKept DEF ServedInv, TypeInv, FrameTypes
<1>3. \A j \in Ids : relay[Mine(j)] = "waiting" => target[Mine(j)] \in Workers
    BY DEF ServedInv, AskedOnce
<1>4. Served'
    <2>1. ASSUME NEW j \in Ids
          PROVE  /\ active'[j] # None => relay'[Mine(j)] = "waiting" /\ target[Mine(j)] = active'[j]
                 /\ relay'[Mine(j)] = "waiting" =>
                       /\ ~gone[target[Mine(j)]] => active'[j] = target[Mine(j)]
                       /\ future'[Mine(j)] = "pending" => pending'[target[Mine(j)]][j] = Mine(j)
        <3>1. CASE j = i
            BY <1>1, <3>1
        <3>2. CASE j # i
            BY <1>1, <1>3, <3>2 DEF ServedInv, Served
        <3> QED
            BY <3>1, <3>2
    <2> QED
        BY <2>1 DEF Served
<1> QED
    BY <1>2, <1>4

LEMMA RelayStartServed ==
    ASSUME ServedInv, NEW c \in Calls, RelayStart(c)
    PROVE  AskedOnce' /\ Served'
<1> DEFINE i == c[2]
           w == target[c]
<1>1. i \in Ids /\ c = Mine(i) /\ relay[c] = "created"
    BY MineAre DEF RelayStart, ServedInv, OwnInv, TableInv, CoreCalls
<1>2. w \in Workers /\ active[i] = None
    BY <1>1 DEF ServedInv, AskedOnce, Served
<1>3. UNCHANGED <<counter, target, gone, up>>
    BY DEF RelayStart, callerVars
<1>4. \/ /\ relay' = [relay EXCEPT ![c] = "ended"]
         /\ active' \in {active, [active EXCEPT ![i] = None]}
         /\ pending' \in {pending, [pending EXCEPT ![w][i] = None]}
         /\ future' = future
      \/ SendOn(c)
    BY DEF RelayStart, Reply
<1>5. CASE SendOn(c)
    <2>1. /\ relay' = [relay EXCEPT ![c] = "waiting"] /\ active' = [active EXCEPT ![i] = w]
          /\ pending' = [pending EXCEPT ![w][i] = c] /\ future' = [future EXCEPT ![c] = "pending"]
        BY <1>5 DEF SendOn
    <2> HIDE DEF i, w
    <2>2. /\ relay'[c] = "waiting" /\ active'[i] = w /\ pending'[w][i] = c
          /\ \A j \in Ids \ {i} :
                /\ relay'[Mine(j)] = relay[Mine(j)] /\ active'[j] = active[j]
                /\ future'[Mine(j)] = future[Mine(j)]
                /\ \A v \in Workers : pending'[v][j] = pending[v][j]
        BY <1>1, <1>2, <2>1, MineAre DEF ServedInv, TypeInv, RelayTypes, SuperTypes
    <2>3. AskedOnce'
        BY <1>1, <1>3, <2>2, AskedKept DEF ServedInv, TypeInv, FrameTypes
    <2>4. \A j \in Ids : relay[Mine(j)] = "waiting" => target[Mine(j)] \in Workers
        BY DEF ServedInv, AskedOnce
    <2>5. ASSUME NEW j \in Ids
          PROVE  /\ active'[j] # None => relay'[Mine(j)] = "waiting" /\ target[Mine(j)] = active'[j]
                 /\ relay'[Mine(j)] = "waiting" =>
                       /\ ~gone[target[Mine(j)]] => active'[j] = target[Mine(j)]
                       /\ future'[Mine(j)] = "pending" => pending'[target[Mine(j)]][j] = Mine(j)
        <3>1. CASE j = i
            <4>1. Mine(j) = c /\ target[Mine(j)] = w
                BY <1>1, <3>1 DEF w
            <4> QED
                BY <2>2, <3>1, <4>1
        <3>2. CASE j # i
            <4>1. /\ relay'[Mine(j)] = relay[Mine(j)] /\ active'[j] = active[j]
                  /\ future'[Mine(j)] = future[Mine(j)]
                  /\ \A v \in Workers : pending'[v][j] = pending[v][j]
                BY <2>2, <3>2
            <4> QED
                BY <2>4, <4>1 DEF ServedInv, Served
        <3> QED
            BY <3>1, <3>2
    <2> QED
        BY <1>3, <2>3, <2>5 DEF Served
<1>6. CASE /\ relay' = [relay EXCEPT ![c] = "ended"]
           /\ active' \in {active, [active EXCEPT ![i] = None]}
           /\ pending' \in {pending, [pending EXCEPT ![w][i] = None]}
           /\ future' = future
    <2>1. active' = [active EXCEPT ![i] = None]
        BY <1>1, <1>2, <1>6 DEF ServedInv, TypeInv, SuperTypes
    <2>2. \A j \in Ids \ {i}, v \in Workers : pending'[v][j] = pending[v][j]
        <3>1. pending \in [Workers -> [Ids -> Calls \cup {None}]]
            BY DEF ServedInv, TypeInv, SuperTypes
        <3> QED
            BY <1>6, <3>1
    <2> QED
        BY <1>1, <1>3, <1>6, <2>1, <2>2, RelayEndsServed
<1> QED
    BY <1>4, <1>5, <1>6

LEMMA RelayReturnsServed ==
    ASSUME ServedInv, NEW c \in Calls, RelayReturns(c) \/ RelayInterrupted(c)
    PROVE  AskedOnce' /\ Served'
<1>1. c[2] \in Ids /\ c = Mine(c[2]) /\ relay[c] = "waiting"
    BY MineAre DEF RelayReturns, RelayInterrupted, ServedInv, OwnInv, TableInv, CoreCalls
<1>2. /\ relay' = [relay EXCEPT ![c] = "ended"] /\ active' = [active EXCEPT ![c[2]] = None]
      /\ UNCHANGED <<counter, target, gone, up, pending>>
    BY DEF RelayReturns, RelayInterrupted, Reply, callerVars
<1>3. \A j \in Ids \ {c[2]} : future'[Mine(j)] = future[Mine(j)]
    BY <1>1 DEF RelayReturns, RelayInterrupted, ServedInv, TypeInv, RelayTypes
<1> QED
    BY <1>1, <1>2, <1>3, RelayEndsServed

-----------------------------------------------------------------------------
(* The readers of the supervisor.                                             *)

(* Cancelling the tasks of a connection ends none that awaits an answer.      *)
LEMMA CancelRelaysServed ==
    ASSUME TypeInv, NEW o \in Origins, CancelRelays(o)
    PROVE  \A c \in Calls : /\ relay'[c] = "waiting" <=> relay[c] = "waiting"
                            /\ relay'[c] = relay[c] \/ relay[c] # "none"
    BY DEF CancelRelays

LEMMA ReceiveCoreServed ==
    ASSUME ServedInv, Receive(Core)
    PROVE  AskedOnce' /\ Served'
<1> DEFINE f == up[Core][1]
<1>1. /\ 1 \in DOMAIN up[Core]
      /\ up' = [up EXCEPT ![Core] = RemoveAt(@, 1)]
      /\ \/ f.kind = "invoke" /\ HandleInvoke(Core, f)
         \/ f.kind = "cancel" /\ HandleCancel(Core, f)
         \/ f.kind \in Answers /\ HandleResult(Core, f)
    BY DEF Receive, Readable
<1>2. f \in CallFrame /\ f.id \in Ids
    BY <1>1, CoreFrames, SeqKept DEF ServedInv, TypeInv, FrameTypes
<1>3. up'[Core] = RemoveAt(up[Core], 1)
    BY <1>1 DEF ServedInv, TypeInv, FrameTypes, UpTypes
<1>4. AskedOnce /\ UpTypes /\ counter[Core] \in Nat
    BY DEF ServedInv, TypeInv, FrameTypes, CallerTypes
<1> HIDE DEF f
<1>5. CASE f.kind = "invoke" /\ HandleInvoke(Core, f)
    <2>1. /\ relay' = [relay EXCEPT ![Mine(f.id)] = "created"]
          /\ UNCHANGED <<counter, target, active, gone, pending, future>>
        BY <1>5 DEF HandleInvoke, callerVars, superVars
    <2>2. relay[Mine(f.id)] = "none"
        BY <1>1, <1>4, <1>5 DEF AskedOnce, Invokes, f
    <2>3. \A i \in Ids : relay'[Mine(i)] = IF i = f.id THEN "created" ELSE relay[Mine(i)]
        BY <1>2, <2>1 DEF ServedInv, TypeInv, RelayTypes
    <2>4. AskedOnce'
        BY <1>1, <1>3, <1>4, <1>5, <2>1, <2>3, AskedTaken DEF f
    <2>5. Served'
        BY <2>1, <2>2, <2>3, ServedKept DEF ServedInv
    <2> QED
        BY <2>4, <2>5
<1>6. CASE f.kind = "cancel" /\ HandleCancel(Core, f)
    <2>1. UNCHANGED <<counter, target, active, gone, pending, future>>
        BY <1>6 DEF HandleCancel, callerVars
    <2>2. relay' = relay \/ CancelRelays(Core)
        BY <1>6 DEF HandleCancel, HandleUpstreamCancel
    <2>3. \A i \in Ids : /\ relay'[Mine(i)] = "waiting" <=> relay[Mine(i)] = "waiting"
                         /\ relay'[Mine(i)] = relay[Mine(i)] \/ relay[Mine(i)] # "none"
        BY <2>2, MineAre, CancelRelaysServed DEF ServedInv
    <2>4. AskedOnce'
        BY <1>1, <1>3, <1>4, <2>1, <2>3, AskedTaken
    <2>5. Served'
        BY <2>1, <2>3, ServedKept DEF ServedInv
    <2> QED
        BY <2>4, <2>5
<1> QED
    BY <1>1, <1>2, <1>5, <1>6 DEF CallFrame

(* A result takes the entry of its id and resolves the future in one step.    *)
LEMMA ReceiveWorkerServed ==
    ASSUME ServedInv, NEW w \in Workers, Receive(w)
    PROVE  AskedOnce' /\ Served'
<1>1. PICK k \in DOMAIN up[w] :
          /\ up' = [up EXCEPT ![w] = RemoveAt(@, k)]
          /\ \/ up[w][k].kind = "invoke" /\ HandleInvoke(w, up[w][k])
             \/ up[w][k].kind = "cancel" /\ HandleCancel(w, up[w][k])
             \/ up[w][k].kind \in Answers /\ HandleResult(w, up[w][k])
    BY DEF Receive, Readable
<1> DEFINE f == up[w][k]
           i == f.id
<1>2. f \in OwnAnswers
    BY SeqKept DEF ServedInv, OwnInv, FramesTell, UpOf
<1>3. i \in Ids /\ f.kind \in Answers
    BY <1>2 DEF OwnAnswers, AnswerFrame, Frame
<1>4. HandleResult(w, f)
    BY <1>1, <1>3
<1>5. up'[Core] = up[Core]
    BY <1>1 DEF ServedInv, TypeInv, FrameTypes, UpTypes
<1> HIDE DEF f
<1>6. UNCHANGED <<counter, target, relay, active, gone>>
    BY <1>4 DEF HandleResult, callerVars
<1>7. AskedOnce'
    BY <1>5, <1>6, AskedKept DEF ServedInv, TypeInv, FrameTypes
<1>8. pending[w][i] \in {None, Mine(i)} /\ Mine(i) # None
    BY <1>3, MineAre DEF ServedInv, OwnInv, TableInv, Keyed
<1>9. /\ pending' = [pending EXCEPT ![w][i] = None]
      /\ IF pending[w][i] = Mine(i) /\ future[Mine(i)] = "pending"
         THEN future' = [future EXCEPT ![Mine(i)] = f.kind] ELSE future' = future
    BY <1>4, <1>8 DEF HandleResult
<1> DEFINE found == pending[w][i] = Mine(i) /\ future[Mine(i)] = "pending"
<1> HIDE DEF i
<1>10. \A j \in Ids : future'[Mine(j)] = IF j = i /\ found THEN f.kind ELSE future[Mine(j)]
    <2>1. CASE found /\ future' = [future EXCEPT ![Mine(i)] = f.kind]
        BY <1>3, <2>1 DEF ServedInv, TypeInv, RelayTypes
    <2>2. CASE ~found /\ future' = future
        BY <2>2
    <2> QED
        BY <1>9, <2>1, <2>2
<1>11. ASSUME NEW j \in Ids, relay[Mine(j)] = "waiting", future'[Mine(j)] = "pending"
       PROVE  pending'[target[Mine(j)]][j] = Mine(j)
    <2>1. target[Mine(j)] \in Workers
        BY <1>11 DEF ServedInv, AskedOnce
    <2>2. future[Mine(j)] = "pending"
        BY <1>3, <1>10, <1>11
    <2>3. pending[target[Mine(j)]][j] = Mine(j)
        BY <1>11, <2>2 DEF ServedInv, Served
    <2>4. ~(target[Mine(j)] = w /\ j = i)
        BY <1>3, <1>10, <1>11, <2>2, <2>3
    <2> QED
        BY <1>3, <1>9, <2>1, <2>3, <2>4 DEF ServedInv, TypeInv, SuperTypes
<1>12. Served'
    BY <1>6, <1>11 DEF ServedInv, Served
<1> QED
    BY <1>7, <1>12

-----------------------------------------------------------------------------
(* The end of a session: the calls in flight are failed with the table that   *)
(* names them.                                                                *)

LEMMA FailSessionServed ==
    ASSUME ServedInv, NEW w \in Workers, FailSession(w)
    PROVE  AskedOnce' /\ Served'
<1>1. /\ future' = [c \in Calls |-> IF pending[w][c[2]] = c /\ future[c] = "pending"
                                    THEN "lost" ELSE future[c]]
      /\ pending' = [pending EXCEPT ![w] = [i \in Ids |-> None]]
      /\ CancelRelays(w)
      /\ UNCHANGED <<counter, target, active, gone, up>>
    BY DEF FailSession, callerVars
<1>2. \A c \in Calls : /\ relay'[c] = "waiting" <=> relay[c] = "waiting"
                       /\ relay'[c] = relay[c] \/ relay[c] # "none"
    BY <1>1, CancelRelaysServed DEF ServedInv
<1>3. AskedOnce'
    BY <1>1, <1>2, MineAre, AskedKept DEF ServedInv, TypeInv, FrameTypes
<1>4. ASSUME NEW j \in Ids, relay[Mine(j)] = "waiting", future'[Mine(j)] = "pending"
      PROVE  pending'[target[Mine(j)]][j] = Mine(j)
    <2>1. target[Mine(j)] \in Workers
        BY <1>4 DEF ServedInv, AskedOnce
    <2>2. future[Mine(j)] = "pending" /\ pending[w][j] # Mine(j)
        BY <1>1, <1>4, MineAre
    <2>3. pending[target[Mine(j)]][j] = Mine(j)
        BY <1>4, <2>2 DEF ServedInv, Served
    <2> QED
        BY <1>1, <2>1, <2>2, <2>3 DEF ServedInv, TypeInv, SuperTypes
<1>5. Served'
    BY <1>1, <1>2, <1>4, MineAre DEF ServedInv, Served
<1> QED
    BY <1>3, <1>5

LEMMA ForgetServed ==
    ASSUME ServedInv, NEW w \in Workers, Forget(w)
    PROVE  AskedOnce' /\ Served'
<1>1. /\ gone' = [gone EXCEPT ![w] = TRUE]
      /\ active' = [i \in Ids |-> IF active[i] = w THEN None ELSE active[i]]
      /\ UNCHANGED <<counter, target, relay, pending, future, up>>
    BY DEF Forget, callerVars, relayVars
<1>2. AskedOnce'
    BY <1>1, AskedKept DEF ServedInv, TypeInv, FrameTypes
<1>3. \A i \in Ids : relay[Mine(i)] = "waiting" => target[Mine(i)] \in Workers
    BY DEF ServedInv, AskedOnce
<1>4. \A v \in Workers : gone'[v] = (gone[v] \/ v = w)
    BY <1>1 DEF ServedInv, TypeInv, SuperTypes
<1>5. Served'
    BY <1>1, <1>3, <1>4 DEF ServedInv, Served
<1> QED
    BY <1>2, <1>5

-----------------------------------------------------------------------------
LEMMA ServedNext ==
    ASSUME OnlyCoreAsks
    PROVE  ServedInv /\ [Next]_vars => AskedOnce' /\ Served'
<1> SUFFICES ASSUME ServedInv, [Next]_vars PROVE AskedOnce' /\ Served'
    OBVIOUS
<1>1. CASE \E o \in Origins, w \in Workers : Ask(o, w)
    BY <1>1, AskServed
<1>2. CASE \E c \in Calls : AskCancel(c) \/ Finish(c)
    BY <1>2, AskCancelServed, ElsewhereServed
<1>3. CASE Supervisor
    <2>1. ASSUME NEW o \in Origins, Receive(o) PROVE AskedOnce' /\ Served'
        BY <2>1, ReceiveCoreServed, ReceiveWorkerServed
    <2>2. ASSUME NEW w \in Workers, Session(w) PROVE AskedOnce' /\ Served'
        BY <2>2, ElsewhereServed, FailSessionServed, ForgetServed DEF Session
    <2> QED
        BY <1>3, <2>1, <2>2, RelayStartServed, RelayReturnsServed, ElsewhereServed DEF Supervisor
<1>4. CASE CoreLoop \/ UNCHANGED vars
    BY <1>4, ElsewhereServed DEF CoreLoop
<1>5. CASE \E w \in Workers : WorkerReceive(w) \/ Die(w)
    BY <1>5, ElsewhereServed
<1> QED
    BY <1>1, <1>2, <1>3, <1>4, <1>5 DEF Next

(* As long as only the core makes calls, active_requests holds a request      *)
(* exactly as long as it is relayed to a session that stands: a cancel of the *)
(* core always finds the worker that serves the call, and the worker's answer *)
(* the future that awaits it, whatever dies meanwhile.                        *)
THEOREM ActiveAlwaysRelayed == ASSUME OnlyCoreAsks PROVE Spec => []ActiveIsRelayed
<1>1. Init => ServedInv
    BY InitTyped, OwnInit, ServedInit DEF ServedInv
<1>2. ServedInv /\ [Next]_vars => ServedInv'
    BY NextTyped, OwnNext, ServedNext DEF ServedInv
<1>3. ServedInv => ActiveIsRelayed
    BY ServedImplies
<1> QED
    BY <1>1, <1>2, <1>3, PTL DEF Spec

-----------------------------------------------------------------------------
(* The way of a call, when only the core makes calls: which frames, tasks and *)
(* tables stand for it, so that it is executed once and never forgotten.      *)

Invoked(w, i) == Tells(down[w], i, {"invoke"})

(* No two requests of one id are in a queue.                                  *)
Single(frames) ==
    \A m, n \in DOMAIN frames :
        frames[m].kind = "invoke" /\ frames[n].kind = "invoke" /\ frames[m].id = frames[n].id
            => m = n

(* A request goes to one worker, once, before any work on it.                 *)
SentOnce ==
    /\ \A w \in Workers : Single(down[w])
    /\ \A w \in Workers, i \in Ids : Invoked(w, i) =>
          target[Mine(i)] = w /\ work[Mine(i)] = "none" /\ relay[Mine(i)] \notin {"none", "created"}
    /\ \A i \in Ids : relay[Mine(i)] \in {"none", "created"} => work[Mine(i)] = "none"
    /\ \A c \in Calls : c[1] # Core => work[c] = "none"

(* What the core waits for it asked for.                                      *)
AskedInv == \A i \in Ids : caller[Mine(i)] # "idle" <=> i <= counter[Core]

(* A failed session is one that has ended, and a worker that runs is there.   *)
EndsInv ==
    /\ \A w \in Workers : failed[w] => link[w] = "eof" /\ \A i \in Ids : pending[w][i] = None
    /\ \A c \in Calls : work[c] = "running" => target[c] \in Workers /\ link[target[c]] = "up"

(* "ok" is said of calls whose handler was entered.                           *)
OkOf(i) ==
    \/ future[Mine(i)] = "ok" \/ result[Mine(i)] = "ok" \/ Tells(down[Core], i, {"ok"})
    \/ \E w \in Workers : Tells(up[w], i, {"ok"})
EnteredInv == \A i \in Ids : OkOf(i) => work[Mine(i)] # "none"

WayInv == ServedInv /\ SentOnce /\ AskedInv /\ EndsInv /\ EnteredInv /\ NoCallForgotten

LEMMA TellsSame ==
    ASSUME NEW s \in Seq(Frame), NEW i, NEW K, NEW f \in Frame
    PROVE  Tells(Append(s, f), i, K) <=> Tells(s, i, K) \/ (f.id = i /\ f.kind \in K)
<1>1. /\ DOMAIN Append(s, f) = DOMAIN s \cup {Len(s) + 1}
      /\ Append(s, f)[Len(s) + 1] = f /\ \A n \in DOMAIN s : Append(s, f)[n] = s[n]
    OBVIOUS
<1> QED
    BY <1>1 DEF Tells

LEMMA Together ==
    ASSUME NEW S, NEW s \in Seq(S), NEW t \in Seq(S)
    PROVE  s \o t \in Seq(S) /\ Len(s \o t) = Len(s) + Len(t)
    OBVIOUS

(* What is left of a queue of which one frame is taken.                       *)
LEMMA RemovedIs ==
    ASSUME NEW S, NEW s \in Seq(S), NEW k \in DOMAIN s
    PROVE  /\ DOMAIN RemoveAt(s, k) = 1..Len(s) - 1
           /\ \A n \in 1..Len(s) - 1 : RemoveAt(s, k)[n] = IF n < k THEN s[n] ELSE s[n + 1]
<1> DEFINE front == SubSeq(s, 1, k - 1)
           rest  == SubSeq(s, k + 1, Len(s))
<1>1. k \in 1..Len(s) /\ DOMAIN s = 1..Len(s) /\ Len(s) \in Nat
    OBVIOUS
<1>2. front \in Seq(S) /\ Len(front) = k - 1 /\ \A n \in 1..k - 1 : front[n] = s[n]
    BY <1>1
<1>3. rest \in Seq(S) /\ Len(rest) = Len(s) - k
    BY <1>1
<1>4. ASSUME NEW n \in 1..Len(s) - k PROVE rest[n] = s[n + k]
    <2>1. rest[n] = s[(k + 1) + n - 1] /\ (k + 1) + n - 1 = n + k
        BY <1>1
    <2> QED
        BY <2>1
<1>5. RemoveAt(s, k) = front \o rest
    BY DEF RemoveAt
<1> HIDE DEF front, rest
<1>6. Len(front \o rest) = Len(s) - 1 /\ front \o rest \in Seq(S)
    <2>1. Len(front \o rest) = Len(front) + Len(rest) /\ front \o rest \in Seq(S)
        BY <1>2, <1>3, Together
    <2> QED
        BY <1>1, <1>2, <1>3, <2>1
<1>7. ASSUME NEW n \in 1..Len(s) - 1
      PROVE  (front \o rest)[n] = IF n < k THEN s[n] ELSE s[n + 1]
    <2>1. CASE n < k
        BY <1>1, <1>2, <1>3, <2>1
    <2>2. CASE ~(n < k)
        <3>1. n - (k - 1) \in 1..Len(s) - k /\ (n - (k - 1)) + k = n + 1
            BY <1>1, <2>2
        <3>2. (front \o rest)[n] = rest[n - (k - 1)]
            BY <1>1, <1>2, <1>3, <2>2
        <3> QED
            BY <1>4, <2>2, <3>1, <3>2
    <2> QED
        BY <2>1, <2>2
<1> QED
    BY <1>5, <1>6, <1>7

LEMMA TellsTaken ==
    ASSUME NEW s \in Seq(Frame), NEW k \in DOMAIN s, NEW i, NEW K
    PROVE  /\ Tells(RemoveAt(s, k), i, K) => Tells(s, i, K)
           /\ Tells(s, i, K) => Tells(RemoveAt(s, k), i, K) \/ (s[k].id = i /\ s[k].kind \in K)
<1>1. k \in 1..Len(s) /\ DOMAIN s = 1..Len(s) /\ Len(s) \in Nat
    OBVIOUS
<1>2. /\ DOMAIN RemoveAt(s, k) = 1..Len(s) - 1
      /\ \A n \in 1..Len(s) - 1 : RemoveAt(s, k)[n] = IF n < k THEN s[n] ELSE s[n + 1]
    BY RemovedIs
<1>3. ASSUME NEW n \in 1..Len(s) - 1 PROVE \E m \in DOMAIN s : RemoveAt(s, k)[n] = s[m]
    <2>1. n \in DOMAIN s /\ n + 1 \in DOMAIN s
        BY <1>1
    <2> QED
        BY <1>2, <2>1
<1>4. ASSUME NEW m \in DOMAIN s, m # k
      PROVE  \E n \in 1..Len(s) - 1 : RemoveAt(s, k)[n] = s[m]
    <2>1. CASE m < k
        <3>1. m \in 1..Len(s) - 1
            BY <1>1, <2>1
        <3> QED
            BY <1>2, <2>1, <3>1
    <2>2. CASE m > k
        <3>1. m - 1 \in 1..Len(s) - 1 /\ ~(m - 1 < k) /\ (m - 1) + 1 = m
            BY <1>1, <2>2
        <3> QED
            BY <1>2, <3>1
    <2> QED
        BY <1>1, <1>4, <2>1, <2>2
<1>5. ASSUME Tells(RemoveAt(s, k), i, K) PROVE Tells(s, i, K)
    <2>1. PICK n \in 1..Len(s) - 1 : RemoveAt(s, k)[n].id = i /\ RemoveAt(s, k)[n].kind \in K
        BY <1>2, <1>5 DEF Tells
    <2> QED
        BY <1>3, <2>1 DEF Tells
<1>6. ASSUME Tells(s, i, K)
      PROVE  Tells(RemoveAt(s, k), i, K) \/ (s[k].id = i /\ s[k].kind \in K)
    <2>1. PICK m \in DOMAIN s : s[m].id = i /\ s[m].kind \in K
        BY <1>6 DEF Tells
    <2> QED
        BY <1>2, <1>4, <2>1 DEF Tells
<1> QED
    BY <1>5, <1>6

LEMMA TellsHead ==
    ASSUME NEW s \in Seq(Frame), s # <<>>
    PROVE  /\ \A i, K : Tells(s, i, K) <=>
                  Tells(Tail(s), i, K) \/ (Head(s).id = i /\ Head(s).kind \in K)
           /\ Single(s) =>
                /\ Single(Tail(s))
                /\ Head(s).kind = "invoke" => ~Tells(Tail(s), Head(s).id, {"invoke"})
<1>1. /\ DOMAIN s = 1..Len(s) /\ Len(s) \in Nat /\ 1 \in DOMAIN s /\ Head(s) = s[1]
      /\ DOMAIN Tail(s) = 1..Len(s) - 1
      /\ \A n \in DOMAIN Tail(s) : Tail(s)[n] = s[n + 1] /\ n + 1 \in DOMAIN s /\ n \in Nat /\ n # 0
    OBVIOUS
<1>2. \A n \in DOMAIN s : n = 1 \/ (n - 1 \in DOMAIN Tail(s) /\ Tail(s)[n - 1] = s[n])
    <2> SUFFICES ASSUME NEW n \in DOMAIN s, n # 1
                 PROVE  n - 1 \in DOMAIN Tail(s) /\ Tail(s)[n - 1] = s[n]
        OBVIOUS
    <2>1. n - 1 \in DOMAIN Tail(s) /\ (n - 1) + 1 = n
        BY <1>1
    <2> QED
        BY <1>1, <2>1
<1>3. ASSUME NEW i, NEW K
      PROVE  Tells(s, i, K) <=> Tells(Tail(s), i, K) \/ (Head(s).id = i /\ Head(s).kind \in K)
    BY <1>1, <1>2 DEF Tells
<1>4. ASSUME Single(s) PROVE Single(Tail(s))
    <2> SUFFICES ASSUME NEW m \in DOMAIN Tail(s), NEW n \in DOMAIN Tail(s),
                        Tail(s)[m].kind = "invoke", Tail(s)[n].kind = "invoke",
                        Tail(s)[m].id = Tail(s)[n].id
                 PROVE  m = n
        BY DEF Single
    <2>1. m + 1 = n + 1
        BY <1>1, <1>4 DEF Single
    <2> QED
        BY <1>1, <2>1
<1>5. ASSUME Single(s), Head(s).kind = "invoke", Tells(Tail(s), Head(s).id, {"invoke"})
      PROVE  FALSE
    <2>1. PICK n \in DOMAIN Tail(s) : Tail(s)[n].id = Head(s).id /\ Tail(s)[n].kind = "invoke"
        BY <1>5 DEF Tells
    <2>2. n + 1 = 1
        BY <1>1, <1>5, <2>1 DEF Single
    <2> QED
        BY <1>1, <2>2
<1> QED
    BY <1>3, <1>4, <1>5

LEMMA SingleMore ==
    ASSUME NEW s \in Seq(Frame), NEW f \in Frame, Single(s),
           f.kind # "invoke" \/ ~Tells(s, f.id, {"invoke"})
    PROVE  Single(Append(s, f))
<1>1. /\ DOMAIN Append(s, f) = DOMAIN s \cup {Len(s) + 1}
      /\ Append(s, f)[Len(s) + 1] = f /\ \A n \in DOMAIN s : Append(s, f)[n] = s[n]
    OBVIOUS
<1> QED
    BY <1>1 DEF Single, Tells

LEMMA NothingTold == Single(<<>>) /\ \A i, K : ~Tells(<<>>, i, K)
    BY DEF Single, Tells

-----------------------------------------------------------------------------
WayNext == SentOnce' /\ AskedInv' /\ EndsInv' /\ EnteredInv' /\ NoCallForgotten'

LEMMA WayTypes ==
    ASSUME WayInv
    PROVE  /\ up \in [Origins -> Seq(Frame)] /\ down \in [Origins -> Seq(Frame)]
           /\ CallerTypes /\ RelayTypes /\ SuperTypes /\ WorkTypes
           /\ Core \in Origins /\ \A w \in Workers : w \in Origins /\ w # Core
           /\ \A i \in Ids : Mine(i) \in Calls
    BY DEF WayInv, ServedInv, TypeInv, FrameTypes, UpTypes, DownTypes

(* Where nothing moves between calls, frames to the workers and their work.   *)
LEMMA SentKept ==
    ASSUME WayInv, UNCHANGED target, \A w \in Workers : down'[w] = down[w],
           \A c \in Calls : work'[c] = "none" <=> work[c] = "none",
           \A i \in Ids : relay'[Mine(i)] \in {"none", "created"}
                          <=> relay[Mine(i)] \in {"none", "created"}
    PROVE  SentOnce'
    BY MineAre DEF WayInv, SentOnce, Invoked

LEMMA AskedStays ==
    ASSUME WayInv, UNCHANGED counter,
           \A i \in Ids : caller'[Mine(i)] = "idle" <=> caller[Mine(i)] = "idle"
    PROVE  AskedInv'
    BY DEF WayInv, AskedInv

LEMMA EndsKept ==
    ASSUME WayInv, UNCHANGED <<target, failed, link, work, pending>>
    PROVE  EndsInv'
    BY DEF WayInv, EndsInv

LEMMA EnteredKept ==
    ASSUME WayInv, \A i \in Ids : work[Mine(i)] # "none" => work'[Mine(i)] # "none",
           \A i \in Ids : OkOf(i)' => OkOf(i) \/ work'[Mine(i)] # "none"
    PROVE  EnteredInv'
    BY DEF WayInv, EnteredInv

(* The call with the next id of the core.                                     *)
LEMMA AskWay ==
    ASSUME OnlyCoreAsks, WayInv, NEW o \in Origins, NEW w \in Workers, Ask(o, w)
    PROVE  WayNext
<1> DEFINE n == counter[Core] + 1
           f == Msg("invoke", n, Mine(n))
<1>1. o = Core /\ n \in Ids /\ counter[Core] \in Nat
    BY WayTypes DEF Ask, OnlyCoreAsks, CallerTypes
<1>2. /\ counter' = [counter EXCEPT ![Core] = n]
      /\ target' = [target EXCEPT ![Mine(n)] = w]
      /\ caller' = [caller EXCEPT ![Mine(n)] = "waiting"]
      /\ up' = [up EXCEPT ![Core] = Append(@, f)]
      /\ UNCHANGED <<result, down>>
      /\ UNCHANGED relayVars /\ UNCHANGED superVars /\ UNCHANGED workVars
    BY <1>1 DEF Ask
<1>3. UNCHANGED <<relay, future, mustCancel, failed, link, pending, upFailed, work>>
    BY <1>2 DEF relayVars, superVars, workVars
<1>4. f \in Frame /\ f.kind = "invoke" /\ f.id = n
    BY <1>1, MsgTyped, MineAre DEF Msg
<1> HIDE DEF f
<1>5. /\ counter'[Core] = n /\ up'[Core] = Append(up[Core], f) /\ up[Core] \in Seq(Frame)
      /\ \A v \in Workers : up'[v] = up[v]
      /\ \A c \in Calls : c # Mine(n) => target'[c] = target[c] /\ caller'[c] = caller[c]
      /\ caller'[Mine(n)] = "waiting"
    BY <1>1, <1>2, WayTypes DEF CallerTypes
<1>6. relay[Mine(n)] = "none" /\ work[Mine(n)] = "none" /\ \A v \in Workers : ~Invoked(v, n)
    BY <1>1 DEF WayInv, ServedInv, AskedOnce, SentOnce
<1> HIDE DEF n
<1>7. \A i \in Ids : i # n => target'[Mine(i)] = target[Mine(i)] /\ caller'[Mine(i)] = caller[Mine(i)]
    BY <1>1, <1>5, MineAre
<1>8. SentOnce'
    <2>1. \A v \in Workers, i \in Ids : Invoked(v, i)' => i # n /\ Invoked(v, i)
        BY <1>2, <1>6 DEF Invoked
    <2> QED
        BY <1>2, <1>3, <1>7, <2>1 DEF WayInv, SentOnce
<1>9. AskedInv'
    <2>1. \A i \in Ids : i <= n <=> (i = n \/ i <= counter[Core])
        BY <1>1 DEF n
    <2> QED
        BY <1>1, <1>5, <1>7, <2>1 DEF WayInv, AskedInv
<1>10. EndsInv'
    BY <1>3, <1>5, <1>6 DEF WayInv, EndsInv
<1>11. EnteredInv'
    BY <1>2, <1>3, <1>5, EnteredKept DEF OkOf
<1>12. NoCallForgotten'
    <2> SUFFICES ASSUME ~upFailed, NEW i \in Ids, caller'[Mine(i)] = "waiting"
                 PROVE  \/ Tells(up'[Core], i, {"invoke"}) \/ Tells(down'[Core], i, Answers)
                        \/ relay'[Mine(i)] = "created"
                        \/ /\ relay'[Mine(i)] = "waiting"
                           /\ mustCancel'[Mine(i)] \/ future'[Mine(i)] # "pending" \/ Attended(i)'
        BY <1>3 DEF NoCallForgotten
    <2>1. CASE i = n
        BY <1>4, <1>5, <2>1, TellsSame
    <2>2. CASE i # n
        <3>1. Tells(up[Core], i, {"invoke"}) => Tells(up'[Core], i, {"invoke"})
            BY <1>4, <1>5, TellsSame
        <3>3. relay[Mine(i)] = "waiting" => target[Mine(i)] \in Workers
            BY DEF WayInv, ServedInv, AskedOnce
        <3>4. relay[Mine(i)] = "waiting" => (Attended(i)' <=> Attended(i))
            BY <1>2, <1>3, <1>5, <1>7, <2>2, <3>3 DEF Attended
        <3> QED
            BY <1>2, <1>3, <1>7, <2>2, <3>1, <3>4 DEF WayInv, NoCallForgotten
    <2> QED
        BY <2>1, <2>2
<1> QED
    BY <1>8, <1>9, <1>10, <1>11, <1>12 DEF WayNext

LEMMA AskCancelWay ==
    ASSUME WayInv, NEW c \in Calls, AskCancel(c)
    PROVE  WayNext
<1> DEFINE f == Msg("cancel", c[2], c)
<1>1. c[1] = Core
    BY DEF AskCancel, WayInv, ServedInv, OwnInv, TableInv, CoreCalls
<1>2. f \in Frame /\ f.kind = "cancel"
    BY MsgTyped, CallParts DEF Msg
<1> HIDE DEF f
<1>3. /\ up' = [up EXCEPT ![Core] = Append(@, f)]
      /\ UNCHANGED <<counter, target, caller, result, down, relay, future, mustCancel, failed,
                     link, pending, upFailed, work>>
    BY <1>1 DEF AskCancel, relayVars, superVars, workVars, f
<1>4. /\ up'[Core] = Append(up[Core], f) /\ up[Core] \in Seq(Frame)
      /\ \A v \in Workers : up'[v] = up[v]
    BY <1>3, WayTypes
<1>5. SentOnce' /\ AskedInv' /\ EndsInv'
    BY <1>3, SentKept, AskedStays, EndsKept
<1>6. EnteredInv'
    BY <1>3, <1>4, EnteredKept DEF OkOf
<1>7. NoCallForgotten'
    <2>1. \A i : Tells(up'[Core], i, {"invoke"}) <=> Tells(up[Core], i, {"invoke"})
        BY <1>2, <1>4, TellsSame
    <2>2. \A i \in Ids : relay[Mine(i)] = "waiting" => (Attended(i)' <=> Attended(i))
        BY <1>3, <1>4 DEF Attended, WayInv, ServedInv, AskedOnce
    <2> QED
        BY <1>3, <2>1, <2>2 DEF WayInv, NoCallForgotten
<1> QED
    BY <1>5, <1>6, <1>7 DEF WayNext

LEMMA CoreReceiveWay == ASSUME WayInv, CoreReceive PROVE WayNext
<1>1. PICK k \in DOMAIN down[Core] :
          /\ Deliver(Core, down[Core][k])
          /\ down' = [down EXCEPT ![Core] = RemoveAt(@, k)]
          /\ UNCHANGED relayVars /\ UNCHANGED superVars /\ UNCHANGED workVars /\ up' = up
    BY DEF CoreReceive
<1> DEFINE f == down[Core][k]
<1>2. f \in Frame /\ f.kind \in Answers /\ f.id \in Ids
    <2>1. down[Core] \in Seq(AnswerFrame)
        BY DEF WayInv, ServedInv, TypeInv, FrameTypes, DownTypes
    <2> QED
        BY <2>1 DEF AnswerFrame, Frame
<1>3. UNCHANGED <<relay, future, mustCancel, failed, link, pending, upFailed, work>>
    BY <1>1 DEF relayVars, superVars, workVars
<1> DEFINE c == Mine(f.id)
<1>4. \/ UNCHANGED <<counter, target, caller, result>> /\ caller[c] # "waiting"
      \/ /\ caller[c] = "waiting" /\ caller' = [caller EXCEPT ![c] = "done"]
         /\ result' = [result EXCEPT ![c] = f.kind] /\ UNCHANGED <<counter, target>>
    BY <1>1 DEF Deliver, callerVars
<1> HIDE DEF f
<1>5. /\ \A i \in Ids : caller'[Mine(i)] = IF i = f.id /\ caller[c] = "waiting" THEN "done"
                                           ELSE caller[Mine(i)]
      /\ \A i \in Ids : result'[Mine(i)] = IF i = f.id /\ caller[c] = "waiting" THEN f.kind
                                           ELSE result[Mine(i)]
    BY <1>2, <1>4, MineAre, WayTypes DEF CallerTypes
<1>6. /\ down'[Core] = RemoveAt(down[Core], k) /\ down[Core] \in Seq(Frame)
      /\ \A w \in Workers : down'[w] = down[w]
    BY <1>1, WayTypes
<1>7. SentOnce' /\ EndsInv'
    BY <1>3, <1>4, <1>6, SentKept, EndsKept
<1>8. AskedInv'
    BY <1>4, <1>5, AskedStays
<1>9. EnteredInv'
    <2>1. ASSUME NEW i \in Ids, OkOf(i)' PROVE OkOf(i)
        <3>1. Tells(down'[Core], i, {"ok"}) => Tells(down[Core], i, {"ok"})
            BY <1>6, TellsTaken
        <3>2. result'[Mine(i)] = "ok" => result[Mine(i)] = "ok" \/ Tells(down[Core], i, {"ok"})
            BY <1>5 DEF Tells, f
        <3> QED
            BY <1>1, <1>3, <2>1, <3>1, <3>2 DEF OkOf
    <2> QED
        BY <1>3, <2>1, EnteredKept
<1>10. NoCallForgotten'
    <2>1. ASSUME NEW i \in Ids, caller'[Mine(i)] = "waiting"
          PROVE  /\ caller[Mine(i)] = "waiting"
                 /\ Tells(down[Core], i, Answers) => Tells(down'[Core], i, Answers)
        <3>1. i # f.id
            BY <1>5, <2>1
        <3> QED
            BY <1>5, <1>6, <2>1, <3>1, TellsTaken DEF f
    <2>2. \A i \in Ids : relay[Mine(i)] = "waiting" => (Attended(i)' <=> Attended(i))
        BY <1>1, <1>3, <1>4, <1>6 DEF Attended, WayInv, ServedInv, AskedOnce
    <2> QED
        BY <1>1, <1>3, <2>1, <2>2 DEF WayInv, NoCallForgotten
<1> QED
    BY <1>7, <1>8, <1>9, <1>10 DEF WayNext

LEMMA CoreHangsUpWay == ASSUME WayInv, CoreHangsUp PROVE WayNext
<1>1. /\ Hangup(Core) /\ upFailed /\ up' = up /\ down' = down
      /\ UNCHANGED <<relay, future, mustCancel, failed, link, pending, upFailed, work>>
    BY DEF CoreHangsUp, relayVars, superVars, workVars
<1>2. /\ UNCHANGED <<counter, target>>
      /\ \A i \in Ids : /\ caller'[Mine(i)] = "idle" <=> caller[Mine(i)] = "idle"
                        /\ result'[Mine(i)] \in {result[Mine(i)], "lost"}
    BY <1>1 DEF Hangup
<1>3. SentOnce' /\ AskedInv' /\ EndsInv'
    BY <1>1, <1>2, SentKept, AskedStays, EndsKept
<1>4. EnteredInv'
    BY <1>1, <1>2, EnteredKept DEF OkOf
<1>5. NoCallForgotten'
    BY <1>1 DEF NoCallForgotten
<1> QED
    BY <1>3, <1>4, <1>5 DEF WayNext

(* An answer that goes to the core, if it is there.                           *)
LEMMA RepliedWay ==
    ASSUME WayInv, NEW i \in Ids, NEW k \in Answers, NEW source \in Calls, Reply(Mine(i), k, source)
    PROVE  /\ \A w \in Workers : down'[w] = down[w]
           /\ \A j \in Ids : /\ Tells(down[Core], j, Answers) => Tells(down'[Core], j, Answers)
                             /\ Tells(down'[Core], j, {"ok"}) =>
                                    Tells(down[Core], j, {"ok"}) \/ (j = i /\ k = "ok")
           /\ ~upFailed => Tells(down'[Core], i, Answers)
           /\ relay' = [relay EXCEPT ![Mine(i)] = "ended"]
<1> DEFINE f == Msg(k, i, source)
<1>1. f \in Frame /\ f.kind = k /\ f.id = i
    BY MsgTyped DEF Msg
<1>2. Mine(i)[1] = Core /\ Mine(i)[2] = i
    BY MineAre
<1>3. IF ~upFailed THEN down' = [down EXCEPT ![Core] = Append(@, f)] ELSE down' = down
    BY <1>2 DEF Reply, Alive
<1> HIDE DEF f
<1>4. CASE ~upFailed
    <2>1. down'[Core] = Append(down[Core], f) /\ down[Core] \in Seq(Frame)
        BY <1>3, <1>4, WayTypes
    <2> QED
        BY <1>1, <1>3, <1>4, <2>1, TellsSame, WayTypes DEF Reply
<1>5. CASE upFailed
    BY <1>3, <1>5 DEF Reply
<1> QED
    BY <1>4, <1>5

(* The end of a relaying task, with an answer that is "ok" only if the        *)
(* handler was entered.                                                       *)
LEMMA RelayEndsWay ==
    ASSUME WayInv, NEW i \in Ids, NEW k \in Answers, NEW source \in Calls, Reply(Mine(i), k, source),
           relay[Mine(i)] # "none", k = "ok" => work[Mine(i)] # "none",
           UNCHANGED <<counter, target, caller, result, failed, link, upFailed, work, up>>,
           \A j \in Ids \ {i} : /\ future'[Mine(j)] = future[Mine(j)]
                                /\ mustCancel'[Mine(j)] = mustCancel[Mine(j)],
           future'[Mine(i)] = "ok" => future[Mine(i)] = "ok",
           \A w \in Workers, j \in Ids : pending[w][j] = None => pending'[w][j] = None
    PROVE  WayNext
<1>1. /\ \A w \in Workers : down'[w] = down[w]
      /\ \A j \in Ids : /\ Tells(down[Core], j, Answers) => Tells(down'[Core], j, Answers)
                        /\ Tells(down'[Core], j, {"ok"}) =>
                               Tells(down[Core], j, {"ok"}) \/ (j = i /\ k = "ok")
      /\ ~upFailed => Tells(down'[Core], i, Answers)
    BY RepliedWay
<1>2. /\ relay'[Mine(i)] = "ended"
      /\ \A j \in Ids \ {i} : relay'[Mine(j)] = relay[Mine(j)]
    <2>1. relay' = [relay EXCEPT ![Mine(i)] = "ended"]
        BY RepliedWay
    <2>2. \A j \in Ids \ {i} : Mine(j) # Mine(i)
        BY MineAre
    <2> QED
        BY <2>1, <2>2, WayTypes DEF RelayTypes
<1>3. SentOnce'
    BY <1>1, <1>2, MineAre DEF WayInv, SentOnce, Invoked
<1>4. AskedInv'
    BY AskedStays
<1>5. EndsInv'
    BY DEF WayInv, EndsInv
<1>6. EnteredInv'
    <2>1. ASSUME NEW j \in Ids, OkOf(j)' PROVE OkOf(j) \/ work[Mine(j)] # "none"
        BY <1>1, <2>1 DEF OkOf
    <2> QED
        BY <2>1, EnteredKept
<1>7. NoCallForgotten'
    <2>1. \A j \in Ids : relay[Mine(j)] = "waiting" => (Attended(j)' <=> Attended(j))
        BY <1>1 DEF Attended, WayInv, ServedInv, AskedOnce
    <2> QED
        BY <1>1, <1>2, <2>1 DEF WayInv, NoCallForgotten
<1> QED
    BY <1>3, <1>4, <1>5, <1>6, <1>7 DEF WayNext

LEMMA RelayReturnsWay ==
    ASSUME WayInv, NEW c \in Calls, RelayReturns(c) \/ RelayInterrupted(c)
    PROVE  WayNext
<1> DEFINE i == c[2]
<1>1. i \in Ids /\ c = Mine(i) /\ relay[c] = "waiting"
    BY MineAre DEF RelayReturns, RelayInterrupted, WayInv, ServedInv, OwnInv, TableInv, CoreCalls
<1> HIDE DEF i
<1>2. CASE RelayReturns(c)
    <2>1. /\ future[c] # "pending" /\ UNCHANGED <<counter, target, caller, result, failed, link,
                     upFailed, work, up, future, mustCancel, pending>>
          /\ IF future[c] = "lost" THEN Reply(c, "error", c) ELSE Reply(c, future[c], origin[c])
        BY <1>2 DEF RelayReturns, callerVars, workVars
    <2>2. /\ future[c] \in Answers \cup {"lost"} /\ (future[c] \in Answers => origin[c] \in Calls)
        BY <1>1, <2>1, WayTypes DEF WayInv, ServedInv, TypeInv, Answered, RelayTypes
    <2>3. future[c] = "ok" => work[c] # "none"
        BY <1>1 DEF WayInv, EnteredInv, OkOf
    <2>4. CASE future[c] = "lost"
        BY <1>1, <2>1, <2>4, RelayEndsWay
    <2>5. CASE future[c] \in Answers
        BY <1>1, <2>1, <2>2, <2>3, <2>5, RelayEndsWay
    <2> QED
        BY <2>2, <2>4, <2>5
<1>3. CASE RelayInterrupted(c)
    <2>1. /\ UNCHANGED <<counter, target, caller, result, failed, link,
                     upFailed, work, up, pending>>
          /\ mustCancel' = [mustCancel EXCEPT ![c] = FALSE]
          /\ future' = [future EXCEPT ![c] = IF @ = "pending" THEN "dropped" ELSE @]
          /\ Reply(c, "cancelled", c)
        BY <1>3 DEF RelayInterrupted, callerVars, workVars
    <2>2. /\ \A j \in Ids \ {i} : /\ future'[Mine(j)] = future[Mine(j)]
                                  /\ mustCancel'[Mine(j)] = mustCancel[Mine(j)]
          /\ future'[c] = "ok" => future[c] = "ok"
        BY <1>1, <2>1, MineAre, WayTypes DEF RelayTypes
    <2> QED
        BY <1>1, <2>1, <2>2, RelayEndsWay
<1> QED
    BY <1>2, <1>3

LEMMA RelayStartWay ==
    ASSUME WayInv, NEW c \in Calls, RelayStart(c)
    PROVE  WayNext
<1> DEFINE i == c[2]
<1>1. i \in Ids /\ c = Mine(i) /\ relay[c] = "created"
    BY MineAre DEF RelayStart, WayInv, ServedInv, OwnInv, TableInv, CoreCalls
<1>2. PICK w \in Workers : w = target[c]
    BY <1>1 DEF WayInv, ServedInv, AskedOnce
<1>3. UNCHANGED <<counter, target, caller, result, failed, link, upFailed, work, up, mustCancel>>
    BY DEF RelayStart, callerVars, workVars
<1>4. \/ /\ Reply(c, "cancelled", c) \/ Reply(c, "error", c)
         /\ pending' \in {pending, [pending EXCEPT ![w][i] = None]} /\ future' = future
      \/ ~failed[w] /\ SendOn(c)
    BY <1>2 DEF RelayStart
<1>5. CASE /\ Reply(c, "cancelled", c) \/ Reply(c, "error", c)
           /\ pending' \in {pending, [pending EXCEPT ![w][i] = None]} /\ future' = future
    <2>1. \A v \in Workers, j \in Ids : pending[v][j] = None => pending'[v][j] = None
        <3>1. pending \in [Workers -> [Ids -> Calls \cup {None}]]
            BY WayTypes DEF SuperTypes
        <3> QED
            BY <1>5, <3>1
    <2> QED
        BY <1>1, <1>3, <1>5, <2>1, RelayEndsWay
<1>6. CASE ~failed[w] /\ SendOn(c)
    <2> DEFINE f == Msg("invoke", i, c)
    <2>1. f \in Frame /\ f.kind = "invoke" /\ f.id = i
        BY <1>1, MsgTyped DEF Msg
    <2>2. /\ relay' = [relay EXCEPT ![c] = "waiting"] /\ future' = [future EXCEPT ![c] = "pending"]
          /\ pending' = [pending EXCEPT ![w][i] = c]
          /\ IF link[w] # "up" THEN down' = down ELSE down' = [down EXCEPT ![w] = Append(@, f)]
        BY <1>2, <1>6 DEF SendOn
    <2> HIDE DEF i, f
    <2>3. /\ relay'[Mine(i)] = "waiting" /\ future'[Mine(i)] = "pending"
          /\ \A j \in Ids \ {i} : /\ relay'[Mine(j)] = relay[Mine(j)]
                                  /\ future'[Mine(j)] = future[Mine(j)]
          /\ \A v \in Workers \ {w} : pending'[v] = pending[v] /\ down'[v] = down[v]
          /\ down'[Core] = down[Core]
          /\ link[w] = "up" => down'[w] = Append(down[w], f)
          /\ link[w] # "up" => down'[w] = down[w]
        <3>1. /\ relay'[Mine(i)] = "waiting" /\ future'[Mine(i)] = "pending"
              /\ \A j \in Ids \ {i} : /\ relay'[Mine(j)] = relay[Mine(j)]
                                      /\ future'[Mine(j)] = future[Mine(j)]
            BY <1>1, <2>2, MineAre, WayTypes DEF RelayTypes
        <3>2. \A v \in Workers \ {w} : pending'[v] = pending[v] /\ down'[v] = down[v]
            BY <2>2, WayTypes DEF SuperTypes
        <3>3. /\ down'[Core] = down[Core]
              /\ link[w] = "up" => down'[w] = Append(down[w], f)
              /\ link[w] # "up" => down'[w] = down[w]
            BY <2>2, WayTypes
        <3> QED
            BY <3>1, <3>2, <3>3
    <2>4. /\ \A v \in Workers : Single(down[v]) /\ down[v] \in Seq(Frame)
          /\ ~Invoked(w, i) /\ work[Mine(i)] = "none" /\ target[Mine(i)] = w
        BY <1>1, <1>2, WayTypes DEF WayInv, SentOnce
    <2>11. Single(down[w]) /\ down[w] \in Seq(Frame) /\ ~Tells(down[w], f.id, {"invoke"})
        BY <1>2, <2>1, <2>4 DEF Invoked
    <2>5. /\ Single(down'[w])
          /\ link[w] = "up" => Invoked(w, i)'
          /\ \A j \in Ids : Invoked(w, j)' <=> Invoked(w, j) \/ (j = i /\ link[w] = "up")
        <3>1. CASE link[w] = "up"
            <4>1. Single(down'[w])
                <5>1. Single(Append(down[w], f))
                    BY <2>1, <2>11, SingleMore
                <5> QED
                    BY <2>3, <3>1, <5>1
            <4>2. ASSUME NEW j \in Ids PROVE Tells(down'[w], j, {"invoke"}) <=>
                                                Tells(down[w], j, {"invoke"}) \/ j = i
                <5>1. Tells(Append(down[w], f), j, {"invoke"}) <=>
                          Tells(down[w], j, {"invoke"}) \/ (f.id = j /\ f.kind \in {"invoke"})
                    BY <2>1, <2>11, TellsSame
                <5> QED
                    BY <2>1, <2>3, <3>1, <5>1
            <4> QED
                BY <1>1, <3>1, <4>1, <4>2 DEF Invoked
        <3>2. CASE link[w] # "up"
            BY <1>2, <2>3, <2>4, <3>2 DEF Invoked
        <3> QED
            BY <3>1, <3>2
    <2>6. SentOnce'
        <3>1. \A v \in Workers : Single(down'[v])
            BY <2>3, <2>4, <2>5
        <3>2. ASSUME NEW v \in Workers, NEW j \in Ids, Invoked(v, j)'
              PROVE  target[Mine(j)] = v /\ work[Mine(j)] = "none" /\ relay'[Mine(j)] \notin {"none", "created"}
            <4>1. Invoked(v, j) \/ (v = w /\ j = i)
                BY <2>3, <2>5, <3>2 DEF Invoked
            <4>2. CASE j = i
                BY <2>3, <2>4, <4>1, <4>2 DEF WayInv, SentOnce
            <4>3. CASE j # i
                BY <2>3, <4>1, <4>3 DEF WayInv, SentOnce
            <4> QED
                BY <4>2, <4>3
        <3>3. \A j \in Ids : relay'[Mine(j)] \in {"none", "created"} => work[Mine(j)] = "none"
            BY <2>3 DEF WayInv, SentOnce
        <3> QED
            BY <1>3, <3>1, <3>2, <3>3 DEF WayInv, SentOnce
    <2>7. AskedInv'
        BY <1>3, AskedStays
    <2>8. EndsInv'
        <3>1. \A v \in Workers : failed'[v] => v # w /\ pending'[v] = pending[v]
            BY <1>3, <1>6, <2>3
        <3> QED
            BY <1>3, <3>1 DEF WayInv, EndsInv
    <2>9. EnteredInv'
        <3>1. ASSUME NEW j \in Ids, OkOf(j)' PROVE OkOf(j)
            BY <1>3, <2>3, <3>1 DEF OkOf
        <3> QED
            BY <1>3, <3>1, EnteredKept
    <2>10. NoCallForgotten'
        <3>1. Attended(i)'
            BY <1>1, <1>2, <1>3, <1>6, <2>4, <2>5 DEF Attended, Invoked
        <3>2. \A j \in Ids \ {i} : relay[Mine(j)] = "waiting" => (Attended(j) => Attended(j)')
            <4>1. ASSUME NEW j \in Ids \ {i}, relay[Mine(j)] = "waiting", Attended(j)
                  PROVE  Attended(j)'
                <5>1. target[Mine(j)] \in Workers
                    BY <4>1 DEF WayInv, ServedInv, AskedOnce
                <5>2. Invoked(target[Mine(j)], j) => Invoked(target[Mine(j)], j)'
                    BY <1>3, <2>3, <2>5, <5>1 DEF Invoked
                <5> QED
                    BY <1>3, <4>1, <5>1, <5>2 DEF Attended, Invoked
            <4> QED
                BY <4>1
        <3> QED
            BY <1>3, <2>3, <3>1, <3>2 DEF WayInv, NoCallForgotten
    <2> QED
        BY <2>6, <2>7, <2>8, <2>9, <2>10 DEF WayNext
<1> QED
    BY <1>4, <1>5, <1>6

LEMMA ReceiveCoreWay == ASSUME WayInv, Receive(Core) PROVE WayNext
<1> DEFINE f == up[Core][1]
<1>1. /\ 1 \in DOMAIN up[Core] /\ ~upFailed
      /\ up' = [up EXCEPT ![Core] = RemoveAt(@, 1)]
      /\ \/ f.kind = "invoke" /\ HandleInvoke(Core, f)
         \/ f.kind = "cancel" /\ HandleCancel(Core, f)
         \/ f.kind \in Answers /\ HandleResult(Core, f)
    BY DEF Receive, Readable, Reading
<1>2. f \in CallFrame /\ f.id \in Ids
    BY <1>1, CoreFrames, SeqKept DEF WayInv, ServedInv, TypeInv, FrameTypes
<1>3. /\ up'[Core] = RemoveAt(up[Core], 1) /\ up[Core] \in Seq(Frame)
      /\ \A w \in Workers : up'[w] = up[w]
    BY <1>1, WayTypes
<1>4. \A j \in Ids : Tells(up[Core], j, {"invoke"}) =>
          Tells(up'[Core], j, {"invoke"}) \/ (f.id = j /\ f.kind = "invoke")
    BY <1>1, <1>3, TellsTaken
<1>5. CASE f.kind = "invoke" /\ HandleInvoke(Core, f)
    <2>1. relay[Mine(f.id)] = "none"
        BY <1>1, <1>5 DEF AskedOnce, Invokes, WayInv, ServedInv
    <2> HIDE DEF f
    <2>2. /\ relay' = [relay EXCEPT ![Mine(f.id)] = "created"]
          /\ UNCHANGED <<counter, target, caller, result, down, future, mustCancel, failed,
                         link, pending, upFailed, work>>
        BY <1>5 DEF HandleInvoke, callerVars, superVars, workVars
    <2>3. \A j \in Ids : relay'[Mine(j)] = IF j = f.id THEN "created" ELSE relay[Mine(j)]
        BY <1>2, <2>2, WayTypes DEF RelayTypes
    <2>4. SentOnce' /\ AskedInv' /\ EndsInv'
        BY <2>1, <2>2, <2>3, SentKept, AskedStays, EndsKept
    <2>5. EnteredInv'
        BY <1>3, <2>2, EnteredKept DEF OkOf
    <2>6. NoCallForgotten'
        <3>1. \A j \in Ids : relay[Mine(j)] = "waiting" => (Attended(j)' <=> Attended(j))
            BY <1>3, <2>2 DEF Attended, WayInv, ServedInv, AskedOnce
        <3> QED
            BY <1>4, <2>1, <2>2, <2>3, <3>1 DEF WayInv, NoCallForgotten
    <2> QED
        BY <2>4, <2>5, <2>6 DEF WayNext
<1>6. CASE f.kind = "cancel" /\ HandleCancel(Core, f)
    <2> DEFINE c == Mine(f.id)
    <2>1. UNCHANGED <<counter, target, caller, result, future, failed, link, pending, work>>
        BY <1>6 DEF HandleCancel, callerVars, workVars
    <2>2. \/ UNCHANGED <<relay, upFailed>> /\ \A d \in Calls : mustCancel[d] => mustCancel'[d]
          \/ CancelRelays(Core) /\ upFailed'
        <3>1. HandleUpstreamCancel(c) \/ UNCHANGED <<relay, mustCancel, upFailed>>
            BY <1>6 DEF HandleCancel
        <3>2. CancelStarted(c) => \A d \in Calls : mustCancel[d] => mustCancel'[d]
            BY WayTypes DEF CancelStarted, RelayTypes
        <3> QED
            BY <3>1, <3>2 DEF HandleUpstreamCancel
    <2>3. \A j \in Ids : /\ relay'[Mine(j)] \in {"none", "created"} => relay'[Mine(j)] = relay[Mine(j)]
                         /\ relay[Mine(j)] = "waiting" => relay'[Mine(j)] = "waiting"
                         /\ relay[Mine(j)] \notin {"none", "created"}
                                => relay'[Mine(j)] \notin {"none", "created"}
        BY <2>2, MineAre, WayTypes DEF CancelRelays, RelayTypes
    <2>4. \/ down' = down
          \/ \E w \in Workers : down' = [down EXCEPT ![w] = Append(@, Msg("cancel", f.id, c))]
        <3>1. active[f.id] \in Workers \cup {None}
            BY <1>2, WayTypes DEF SuperTypes
        <3> QED
            BY <1>6, <3>1 DEF HandleCancel, HandleUpstreamCancel
    <2>5. Msg("cancel", f.id, c) \in Frame /\ Msg("cancel", f.id, c).kind = "cancel"
        BY <1>2, MsgTyped, MineAre DEF Msg
    <2> HIDE DEF f, c
    <2>6. /\ down'[Core] = down[Core]
          /\ \A w \in Workers : Single(down'[w]) /\ \A j \in Ids : Invoked(w, j)' <=> Invoked(w, j)
        <3>1. \A w \in Workers : down[w] \in Seq(Frame) /\ Single(down[w])
            BY WayTypes DEF WayInv, SentOnce
        <3>2. CASE down' = down
            BY <3>1, <3>2 DEF Invoked
        <3>3. ASSUME NEW v \in Workers, down' = [down EXCEPT ![v] = Append(@, Msg("cancel", f.id, c))]
              PROVE  /\ down'[Core] = down[Core]
                     /\ \A w \in Workers : /\ Single(down'[w])
                                           /\ \A j \in Ids : Invoked(w, j)' <=> Invoked(w, j)
            <4>1. /\ down'[v] = Append(down[v], Msg("cancel", f.id, c)) /\ down'[Core] = down[Core]
                  /\ \A w \in Workers \ {v} : down'[w] = down[w]
                BY <3>3, WayTypes
            <4>2. Single(down'[v])
                BY <2>5, <3>1, <4>1, SingleMore
            <4>3. \A j \in Ids : Tells(down'[v], j, {"invoke"}) <=> Tells(down[v], j, {"invoke"})
                BY <2>5, <3>1, <4>1, TellsSame
            <4> QED
                BY <3>1, <4>1, <4>2, <4>3 DEF Invoked
        <3> QED
            BY <2>4, <3>2, <3>3
    <2>7. SentOnce'
        BY <2>1, <2>3, <2>6 DEF WayInv, SentOnce
    <2>8. AskedInv' /\ EndsInv'
        BY <2>1, AskedStays, EndsKept
    <2>9. EnteredInv'
        BY <1>3, <2>1, <2>6, EnteredKept DEF OkOf
    <2>10. NoCallForgotten'
        <3>1. CASE upFailed'
            BY <3>1 DEF NoCallForgotten
        <3>2. CASE UNCHANGED <<relay, upFailed>> /\ \A d \in Calls : mustCancel[d] => mustCancel'[d]
            <4>1. \A j \in Ids : relay[Mine(j)] = "waiting" => (Attended(j)' <=> Attended(j))
                BY <1>3, <2>1, <2>6 DEF Attended, Invoked, WayInv, ServedInv, AskedOnce
            <4> QED
                BY <1>4, <1>6, <2>1, <2>6, <3>2, <4>1, MineAre DEF WayInv, NoCallForgotten
        <3> QED
            BY <2>2, <3>1, <3>2
    <2> QED
        BY <2>7, <2>8, <2>9, <2>10 DEF WayNext
<1> QED
    BY <1>1, <1>2, <1>5, <1>6 DEF CallFrame

(* The answer of a worker: the future that awaits it is in the table.         *)
LEMMA ReceiveWorkerWay ==
    ASSUME WayInv, NEW w \in Workers, Receive(w)
    PROVE  WayNext
<1>1. PICK k \in DOMAIN up[w] :
          /\ ~failed[w] /\ up' = [up EXCEPT ![w] = RemoveAt(@, k)]
          /\ \/ up[w][k].kind = "invoke" /\ HandleInvoke(w, up[w][k])
             \/ up[w][k].kind = "cancel" /\ HandleCancel(w, up[w][k])
             \/ up[w][k].kind \in Answers /\ HandleResult(w, up[w][k])
    BY WayTypes DEF Receive, Readable, Reading
<1> DEFINE f == up[w][k]
           i == f.id
<1>2. f \in OwnAnswers
    BY SeqKept DEF WayInv, ServedInv, OwnInv, FramesTell, UpOf
<1>3. i \in Ids /\ f.kind \in Answers
    BY <1>2 DEF OwnAnswers, AnswerFrame, Frame
<1>4. HandleResult(w, f)
    BY <1>1, <1>3
<1>5. /\ up'[Core] = up[Core] /\ up'[w] = RemoveAt(up[w], k) /\ up[w] \in Seq(Frame)
      /\ \A v \in Workers \ {w} : up'[v] = up[v]
    BY <1>1, WayTypes
<1>6. \A j \in Ids : \A K :
          /\ Tells(up'[w], j, K) => Tells(up[w], j, K)
          /\ Tells(up[w], j, K) => Tells(up'[w], j, K) \/ (i = j /\ f.kind \in K)
    BY <1>5, TellsTaken
<1>7. Tells(up[w], i, {f.kind})
    BY DEF Tells
<1> HIDE DEF f
<1>8. UNCHANGED <<counter, target, caller, result, relay, mustCancel, failed, link, upFailed,
                  work, down>>
    BY <1>4 DEF HandleResult, callerVars, workVars
<1>9. pending[w][i] \in {None, Mine(i)} /\ Mine(i) # None
    BY <1>3, MineAre DEF WayInv, ServedInv, OwnInv, TableInv, Keyed
<1>10. /\ pending' = [pending EXCEPT ![w][i] = None]
       /\ IF pending[w][i] = Mine(i) /\ future[Mine(i)] = "pending"
          THEN future' = [future EXCEPT ![Mine(i)] = f.kind] ELSE future' = future
    BY <1>4, <1>9 DEF HandleResult
<1> DEFINE found == pending[w][i] = Mine(i) /\ future[Mine(i)] = "pending"
<1> HIDE DEF i
<1>11. \A j \in Ids : future'[Mine(j)] = IF j = i /\ found THEN f.kind ELSE future[Mine(j)]
    <2>1. CASE found /\ future' = [future EXCEPT ![Mine(i)] = f.kind]
        BY <1>3, <2>1, WayTypes DEF RelayTypes
    <2>2. CASE ~found /\ future' = future
        BY <2>2
    <2> QED
        BY <1>10, <2>1, <2>2
<1>12. SentOnce' /\ AskedInv'
    BY <1>8, SentKept, AskedStays
<1>13. EndsInv'
    <2>1. \A v \in Workers, j \in Ids : pending[v][j] = None => pending'[v][j] = None
        <3>1. pending \in [Workers -> [Ids -> Calls \cup {None}]]
            BY WayTypes DEF SuperTypes
        <3> QED
            BY <1>10, <3>1
    <2> QED
        BY <1>8, <2>1 DEF WayInv, EndsInv
<1>14. EnteredInv'
    <2>1. ASSUME NEW j \in Ids, OkOf(j)' PROVE OkOf(j)
        <3>1. future'[Mine(j)] = "ok" => future[Mine(j)] = "ok" \/ Tells(up[w], j, {"ok"})
            BY <1>7, <1>11
        <3>2. ASSUME NEW v \in Workers, Tells(up'[v], j, {"ok"}) PROVE Tells(up[v], j, {"ok"})
            BY <1>5, <1>6, <3>2
        <3> QED
            BY <1>8, <2>1, <3>1, <3>2 DEF OkOf
    <2> QED
        BY <1>8, <2>1, EnteredKept
<1>15. NoCallForgotten'
    <2>1. ASSUME NEW j \in Ids, relay[Mine(j)] = "waiting", future[Mine(j)] = "pending", Attended(j)
          PROVE  Attended(j)' \/ future'[Mine(j)] # "pending"
        <3>1. target[Mine(j)] \in Workers /\ pending[target[Mine(j)]][j] = Mine(j)
            BY <2>1 DEF WayInv, ServedInv, AskedOnce, Served
        <3>2. CASE j = i /\ target[Mine(j)] = w
            <4>1. found /\ future'[Mine(j)] = f.kind
                BY <1>11, <2>1, <3>1, <3>2
            <4> QED
                BY <1>3, <4>1
        <3>3. CASE ~(j = i /\ target[Mine(j)] = w)
            <4>1. Tells(up[target[Mine(j)]], j, Answers) => Tells(up'[target[Mine(j)]], j, Answers)
                BY <1>5, <1>6, <3>1, <3>3
            <4> QED
                BY <1>8, <2>1, <4>1 DEF Attended
        <3> QED
            BY <3>2, <3>3
    <2>2. \A j \in Ids : future[Mine(j)] # "pending" => future'[Mine(j)] # "pending"
        BY <1>3, <1>11
    <2> QED
        BY <1>5, <1>8, <2>1, <2>2 DEF WayInv, NoCallForgotten
<1> QED
    BY <1>12, <1>13, <1>14, <1>15 DEF WayNext

LEMMA ForwardDoneWay == ASSUME WayInv, ForwardDone PROVE WayNext
<1>1. /\ UNCHANGED <<counter, target, caller, result, relay, future, failed, link, pending, upFailed,
                     work, up, down>>
      /\ CancelStarted(cancelling)
    BY DEF ForwardDone, callerVars, workVars
<1>2. \A d \in Calls : mustCancel[d] => mustCancel'[d]
    BY <1>1, WayTypes DEF CancelStarted, RelayTypes
<1>3. SentOnce' /\ AskedInv' /\ EndsInv'
    BY <1>1, SentKept, AskedStays, EndsKept
<1>4. EnteredInv'
    BY <1>1, EnteredKept DEF OkOf
<1>5. NoCallForgotten'
    <2>1. \A j \in Ids : Attended(j)' <=> Attended(j)
        BY <1>1 DEF Attended
    <2> QED
        BY <1>1, <1>2, <2>1, MineAre DEF WayInv, NoCallForgotten
<1> QED
    BY <1>3, <1>4, <1>5 DEF WayNext

-----------------------------------------------------------------------------
(* The deaths of workers.  One that dies is one whose session has not failed  *)
(* yet: whoever waits for it will be told.                                    *)

LEMMA DieWay == ASSUME WayInv, NEW w \in Workers, Die(w) PROVE WayNext
<1>1. /\ link[w] = "up" /\ link' = [link EXCEPT ![w] = "lost"]
      /\ work' = [c \in Calls |-> IF work[c] = "running" /\ target[c] = w THEN "killed" ELSE work[c]]
      /\ down' = [down EXCEPT ![w] = <<>>] /\ Hangup(w)
      /\ UNCHANGED <<relay, future, mustCancel, pending, failed, upFailed, up>>
    BY DEF Die, relayVars
<1>2. ~failed[w]
    BY <1>1 DEF WayInv, EndsInv
<1>3. /\ \A i \in Ids : caller'[Mine(i)] = caller[Mine(i)] /\ result'[Mine(i)] = result[Mine(i)]
      /\ UNCHANGED <<counter, target>>
    BY <1>1, MineAre, WayTypes DEF Hangup
<1>4. /\ down'[Core] = down[Core] /\ down'[w] = <<>> /\ link'[w] = "lost"
      /\ \A v \in Workers \ {w} : down'[v] = down[v] /\ link'[v] = link[v]
      /\ \A c \in Calls : /\ work'[c] = "none" <=> work[c] = "none"
                          /\ work'[c] = "running" => work[c] = "running" /\ target[c] # w
                          /\ work[c] = "running" /\ target[c] # w => work'[c] = "running"
    BY <1>1, WayTypes DEF SuperTypes
<1>5. SentOnce'
    <2>1. \A v \in Workers, i \in Ids : Invoked(v, i)' => v # w /\ Invoked(v, i)
        BY <1>4, NothingTold DEF Invoked
    <2>2. \A v \in Workers : Single(down'[v])
        BY <1>4, NothingTold DEF WayInv, SentOnce
    <2> QED
        BY <1>1, <1>3, <1>4, <2>1, <2>2, MineAre DEF WayInv, SentOnce
<1>6. AskedInv'
    BY <1>3, AskedStays
<1>7. EndsInv'
    BY <1>1, <1>2, <1>3, <1>4 DEF WayInv, EndsInv
<1>8. EnteredInv'
    <2>1. ASSUME NEW i \in Ids, OkOf(i)' PROVE OkOf(i)
        BY <1>1, <1>3, <1>4, <2>1 DEF OkOf
    <2> QED
        BY <1>4, <2>1, MineAre, EnteredKept
<1>9. NoCallForgotten'
    <2>1. ASSUME NEW j \in Ids, relay[Mine(j)] = "waiting", Attended(j)
          PROVE  Attended(j)'
        <3>1. target[Mine(j)] \in Workers
            BY <2>1 DEF WayInv, ServedInv, AskedOnce
        <3> QED
            BY <1>1, <1>2, <1>3, <1>4, <2>1, <3>1, MineAre DEF Attended
    <2> QED
        BY <1>1, <1>3, <1>4, <2>1 DEF WayInv, NoCallForgotten
<1> QED
    BY <1>5, <1>6, <1>7, <1>8, <1>9 DEF WayNext

LEMMA EofWay == ASSUME WayInv, NEW w \in Workers, Eof(w) PROVE WayNext
<1>1. /\ link[w] = "lost" /\ link' = [link EXCEPT ![w] = "eof"] /\ up' = [up EXCEPT ![w] = <<>>]
      /\ UNCHANGED <<counter, target, caller, result, relay, future, mustCancel, pending, failed,
                     upFailed, work, down>>
    BY DEF Eof, callerVars, relayVars, workVars
<1>2. ~failed[w]
    BY <1>1 DEF WayInv, EndsInv
<1>3. /\ up'[Core] = up[Core] /\ up'[w] = <<>> /\ link'[w] = "eof"
      /\ \A v \in Workers \ {w} : up'[v] = up[v] /\ link'[v] = link[v]
    BY <1>1, WayTypes DEF SuperTypes
<1>4. SentOnce' /\ AskedInv'
    BY <1>1, SentKept, AskedStays
<1>5. EndsInv'
    BY <1>1, <1>2, <1>3 DEF WayInv, EndsInv
<1>6. EnteredInv'
    <2>1. ASSUME NEW i \in Ids, OkOf(i)' PROVE OkOf(i)
        BY <1>1, <1>3, <2>1, NothingTold DEF OkOf
    <2> QED
        BY <1>1, <2>1, EnteredKept
<1>7. NoCallForgotten'
    <2>1. ASSUME NEW j \in Ids, relay[Mine(j)] = "waiting", Attended(j)
          PROVE  Attended(j)'
        <3>1. target[Mine(j)] \in Workers
            BY <2>1 DEF WayInv, ServedInv, AskedOnce
        <3> QED
            BY <1>1, <1>2, <1>3, <2>1, <3>1 DEF Attended
    <2> QED
        BY <1>1, <1>3, <2>1 DEF WayInv, NoCallForgotten
<1> QED
    BY <1>4, <1>5, <1>6, <1>7 DEF WayNext

LEMMA FailSessionWay == ASSUME WayInv, NEW w \in Workers, FailSession(w) PROVE WayNext
<1>1. /\ link[w] = "eof" /\ failed' = [failed EXCEPT ![w] = TRUE]
      /\ future' = [c \in Calls |-> IF pending[w][c[2]] = c /\ future[c] = "pending"
                                    THEN "lost" ELSE future[c]]
      /\ pending' = [pending EXCEPT ![w] = [i \in Ids |-> None]]
      /\ CancelRelays(w)
      /\ UNCHANGED <<counter, target, caller, result, link, upFailed, work, up, down>>
    BY DEF FailSession, callerVars, workVars
<1>2. \A i \in Ids : /\ relay'[Mine(i)] = relay[Mine(i)]
                     /\ mustCancel[Mine(i)] => mustCancel'[Mine(i)]
    BY <1>1, MineAre, WayTypes DEF CancelRelays
<1>3. \A i \in Ids : /\ future'[Mine(i)] \in {future[Mine(i)], "lost"}
                     /\ future'[Mine(i)] = "pending" => pending[w][i] # Mine(i) /\ future[Mine(i)] = "pending"
    BY <1>1, MineAre
<1>4. \A v \in Workers : /\ failed'[v] <=> failed[v] \/ v = w
                         /\ \A i \in Ids : pending'[v][i] = IF v = w THEN None ELSE pending[v][i]
    BY <1>1, WayTypes DEF SuperTypes
<1>5. SentOnce' /\ AskedInv'
    BY <1>1, <1>2, SentKept, AskedStays
<1>6. EndsInv'
    BY <1>1, <1>4 DEF WayInv, EndsInv
<1>7. EnteredInv'
    <2>1. ASSUME NEW i \in Ids, OkOf(i)' PROVE OkOf(i)
        BY <1>1, <1>3, <2>1 DEF OkOf
    <2> QED
        BY <1>1, <2>1, EnteredKept
<1>8. NoCallForgotten'
    <2>1. ASSUME NEW j \in Ids, relay[Mine(j)] = "waiting", Attended(j), future'[Mine(j)] = "pending"
          PROVE  Attended(j)'
        <3>1. target[Mine(j)] \in Workers /\ pending[target[Mine(j)]][j] = Mine(j)
            BY <1>3, <2>1 DEF WayInv, ServedInv, AskedOnce, Served
        <3>2. target[Mine(j)] # w
            BY <1>3, <2>1, <3>1
        <3> QED
            BY <1>1, <1>4, <2>1, <3>1, <3>2 DEF Attended
    <2>2. \A j \in Ids : future[Mine(j)] # "pending" => future'[Mine(j)] # "pending"
        BY <1>3
    <2> QED
        BY <1>1, <1>2, <2>1, <2>2 DEF WayInv, NoCallForgotten
<1> QED
    BY <1>5, <1>6, <1>7, <1>8 DEF WayNext

LEMMA ForgetWay == ASSUME WayInv, NEW w \in Workers, Forget(w) PROVE WayNext
<1>1. UNCHANGED <<counter, target, caller, result, relay, future, mustCancel, pending, failed, link,
                  upFailed, work, up, down>>
    BY DEF Forget, callerVars, relayVars, workVars
<1>2. SentOnce' /\ AskedInv' /\ EndsInv'
    BY <1>1, SentKept, AskedStays, EndsKept
<1>3. EnteredInv'
    BY <1>1, EnteredKept DEF OkOf
<1>4. NoCallForgotten'
    <2>1. \A j \in Ids : Attended(j)' <=> Attended(j)
        BY <1>1 DEF Attended
    <2> QED
        BY <1>1, <2>1 DEF WayInv, NoCallForgotten
<1> QED
    BY <1>2, <1>3, <1>4 DEF WayNext

-----------------------------------------------------------------------------
(* The workers.                                                               *)

LEMMA WorkerReceiveWay ==
    ASSUME WayInv, NEW w \in Workers, WorkerReceive(w)
    PROVE  WayNext
<1> DEFINE f == Head(down[w])
           i == f.id
<1>1. /\ link[w] = "up" /\ down[w] # <<>> /\ down[w] \in Seq(Frame)
      /\ down' = [down EXCEPT ![w] = Tail(@)] /\ up' = up
      /\ UNCHANGED <<relay, future, mustCancel, failed, link, pending, upFailed>>
    BY WayTypes DEF WorkerReceive, relayVars, superVars
<1>2. f \in OwnCalls
    BY <1>1, SeqKept DEF WayInv, ServedInv, OwnInv, FramesTell, DownOf
<1>3. f.kind \in {"invoke", "cancel"} /\ i \in Ids /\ f.call = Mine(i)
    BY <1>2 DEF OwnCalls, CallFrame, Frame
<1>4. /\ UNCHANGED <<counter, target, caller, result>>
      /\ \/ f.kind = "invoke" /\ work' = [work EXCEPT ![Mine(i)] = "running"]
         \/ f.kind = "cancel" /\ work' = work
    BY <1>3 DEF WorkerReceive, callerVars
<1>5. Tells(down[w], i, {f.kind})
    BY <1>1, TellsHead
<1>6. /\ \A j : Tells(down[w], j, {"invoke"}) <=>
                   Tells(Tail(down[w]), j, {"invoke"}) \/ (i = j /\ f.kind \in {"invoke"})
      /\ Single(down[w]) =>
            /\ Single(Tail(down[w]))
            /\ f.kind = "invoke" => ~Tells(Tail(down[w]), i, {"invoke"})
    BY <1>1, TellsHead
<1> HIDE DEF f
<1>7. /\ down'[Core] = down[Core] /\ down'[w] = Tail(down[w])
      /\ \A v \in Workers \ {w} : down'[v] = down[v]
    BY <1>1, WayTypes
<1>8. /\ \A v \in Workers : Single(down'[v])
      /\ \A v \in Workers, j \in Ids :
            Invoked(v, j)' <=> Invoked(v, j) /\ ~(v = w /\ j = i /\ f.kind = "invoke")
    BY <1>6, <1>7 DEF Invoked, WayInv, SentOnce
<1> HIDE DEF i
<1>9. \A j \in Ids : work'[Mine(j)] = IF j = i /\ f.kind = "invoke" THEN "running"
                                      ELSE work[Mine(j)]
    BY <1>3, <1>4, MineAre, WayTypes DEF WorkTypes
<1>10. f.kind = "invoke" => /\ Invoked(w, i) /\ target[Mine(i)] = w
                            /\ relay[Mine(i)] \notin {"none", "created"}
    BY <1>3, <1>5 DEF Invoked, WayInv, SentOnce
<1>11. SentOnce'
    <2>1. ASSUME NEW v \in Workers, NEW j \in Ids, Invoked(v, j)'
          PROVE  target[Mine(j)] = v /\ work'[Mine(j)] = "none" /\ relay[Mine(j)] \notin {"none", "created"}
        <3>1. target[Mine(j)] = v /\ work[Mine(j)] = "none" /\ relay[Mine(j)] \notin {"none", "created"}
            BY <1>8, <2>1 DEF WayInv, SentOnce
        <3>2. ~(j = i /\ f.kind = "invoke")
            BY <1>8, <1>10, <2>1, <3>1
        <3> QED
            BY <1>9, <3>1, <3>2
    <2>2. ASSUME NEW c \in Calls, c[1] # Core PROVE work'[c] = "none"
        <3>1. work[c] = "none" /\ c # Mine(i)
            BY <1>3, <2>2, MineAre DEF WayInv, SentOnce
        <3> QED
            BY <1>4, <3>1, WayTypes DEF WorkTypes
    <2>3. \A j \in Ids : relay[Mine(j)] \in {"none", "created"} => work'[Mine(j)] = "none"
        BY <1>9, <1>10 DEF WayInv, SentOnce
    <2> QED
        BY <1>1, <1>4, <1>8, <2>1, <2>2, <2>3 DEF SentOnce
<1>12. AskedInv'
    BY <1>4, AskedStays
<1>13. EndsInv'
    <2>1. ASSUME NEW c \in Calls, work'[c] = "running"
          PROVE  target[c] \in Workers /\ link[target[c]] = "up"
        <3>1. CASE work[c] = "running"
            BY <3>1 DEF WayInv, EndsInv
        <3>2. CASE work[c] # "running"
            <4>1. c = Mine(i) /\ f.kind = "invoke"
                BY <1>4, <2>1, <3>2, WayTypes DEF WorkTypes
            <4> QED
                BY <1>1, <1>10, <4>1
        <3> QED
            BY <3>1, <3>2
    <2> QED
        BY <1>1, <1>4, <2>1 DEF WayInv, EndsInv
<1>14. EnteredInv'
    <2>1. ASSUME NEW j \in Ids, OkOf(j)' PROVE OkOf(j)
        BY <1>1, <1>4, <1>7, <2>1 DEF OkOf
    <2> QED
        BY <1>9, <2>1, EnteredKept
<1>15. NoCallForgotten'
    <2>1. ASSUME NEW j \in Ids, relay[Mine(j)] = "waiting", Attended(j) PROVE Attended(j)'
        <3>1. target[Mine(j)] \in Workers
            BY <2>1 DEF WayInv, ServedInv, AskedOnce
        <3>2. CASE j = i /\ f.kind = "invoke"
            BY <1>1, <1>4, <1>9, <1>10, <3>2 DEF Attended
        <3>3. CASE ~(j = i /\ f.kind = "invoke")
            <4>1. Invoked(target[Mine(j)], j) => Invoked(target[Mine(j)], j)'
                BY <1>4, <1>8, <3>1, <3>3 DEF Invoked
            <4>2. work'[Mine(j)] = work[Mine(j)]
                BY <1>9, <3>3
            <4> QED
                BY <1>1, <1>4, <2>1, <4>1, <4>2 DEF Attended, Invoked
        <3> QED
            BY <3>2, <3>3
    <2> QED
        BY <1>1, <1>4, <1>7, <2>1 DEF WayInv, NoCallForgotten
<1> QED
    BY <1>11, <1>12, <1>13, <1>14, <1>15 DEF WayNext

LEMMA FinishWay == ASSUME WayInv, NEW c \in Calls, Finish(c) PROVE WayNext
<1>1. /\ work[c] = "running" /\ work' = [work EXCEPT ![c] = "ended"]
      /\ UNCHANGED <<counter, target, caller, result, relay, future, mustCancel, failed, link,
                     pending, upFailed, down>>
    BY DEF Finish, callerVars, relayVars, superVars
<1>2. c[1] = Core
    BY <1>1 DEF WayInv, SentOnce
<1>3. PICK i \in Ids : c = Mine(i) /\ c[2] = i
    BY <1>2, MineAre
<1>4. PICK w \in Workers : w = target[c] /\ link[w] = "up" /\ ~failed[w]
    BY <1>1 DEF WayInv, EndsInv
<1>5. PICK k \in Answers : k = IF workCancel[c] THEN "cancelled" ELSE "ok"
    OBVIOUS
<1> DEFINE f == Msg(k, i, c)
<1>6. f \in Frame /\ f.kind = k /\ f.id = i
    BY MsgTyped DEF Msg
<1>7. up' = [up EXCEPT ![w] = Append(@, f)]
    BY <1>3, <1>4, <1>5 DEF Finish
<1> HIDE DEF f
<1>8. /\ up'[Core] = up[Core] /\ \A v \in Workers \ {w} : up'[v] = up[v]
      /\ up'[w] = Append(up[w], f) /\ up[w] \in Seq(Frame)
    BY <1>7, WayTypes
<1>9. \A j \in Ids : \A K : Tells(up'[w], j, K) <=> Tells(up[w], j, K) \/ (i = j /\ k \in K)
    BY <1>6, <1>8, TellsSame
<1>10. work'[c] = "ended" /\ \A d \in Calls \ {c} : work'[d] = work[d]
    BY <1>1, WayTypes DEF WorkTypes
<1>11. SentOnce'
    BY <1>1, <1>10, SentKept
<1>12. AskedInv'
    BY <1>1, AskedStays
<1>13. EndsInv'
    BY <1>1, <1>10 DEF WayInv, EndsInv
<1>14. EnteredInv'
    <2>1. ASSUME NEW j \in Ids, OkOf(j)' PROVE OkOf(j) \/ j = i
        BY <1>1, <1>8, <1>9, <2>1 DEF OkOf
    <2> QED
        BY <1>1, <1>3, <1>10, <2>1, MineAre, EnteredKept
<1>15. NoCallForgotten'
    <2>1. ASSUME NEW j \in Ids, relay[Mine(j)] = "waiting", Attended(j) PROVE Attended(j)'
        <3>1. target[Mine(j)] \in Workers
            BY <2>1 DEF WayInv, ServedInv, AskedOnce
        <3>2. CASE j = i
            <4>1. Tells(up'[w], i, Answers)
                BY <1>9
            <4> QED
                BY <1>1, <1>3, <1>4, <3>2, <4>1 DEF Attended
        <3>3. CASE j # i
            <4>1. work'[Mine(j)] = work[Mine(j)]
                BY <1>3, <1>10, <3>3, MineAre
            <4>2. Tells(up[target[Mine(j)]], j, Answers) => Tells(up'[target[Mine(j)]], j, Answers)
                BY <1>8, <1>9, <3>1
            <4> QED
                BY <1>1, <2>1, <4>1, <4>2 DEF Attended
        <3> QED
            BY <3>2, <3>3
    <2> QED
        BY <1>1, <1>8, <2>1 DEF WayInv, NoCallForgotten
<1> QED
    BY <1>11, <1>12, <1>13, <1>14, <1>15 DEF WayNext

LEMMA WayInit == Init => SentOnce /\ AskedInv /\ EndsInv /\ EnteredInv /\ NoCallForgotten
<1> SUFFICES ASSUME Init PROVE SentOnce /\ AskedInv /\ EndsInv /\ EnteredInv /\ NoCallForgotten
    OBVIOUS
<1>1. /\ \A w \in Workers : down[w] = <<>> /\ up[w] = <<>> /\ ~failed[w]
      /\ down[Core] = <<>> /\ counter[Core] = 0
      /\ \A i \in Ids : /\ caller[Mine(i)] = "idle" /\ relay[Mine(i)] = "none"
                        /\ future[Mine(i)] = "none" /\ result[Mine(i)] = "none"
      /\ \A c \in Calls : work[c] = "none"
    BY MineAre DEF Init, Each
<1>2. SentOnce
    BY <1>1, NothingTold, MineAre DEF SentOnce, Invoked
<1>3. AskedInv
    BY <1>1 DEF AskedInv
<1>4. EndsInv
    BY <1>1 DEF EndsInv
<1>5. EnteredInv
    BY <1>1, NothingTold DEF EnteredInv, OkOf
<1>6. NoCallForgotten
    BY <1>1 DEF NoCallForgotten
<1> QED
    BY <1>2, <1>3, <1>4, <1>5, <1>6

LEMMA WayStands == ASSUME WayInv, UNCHANGED vars PROVE WayNext
<1>1. UNCHANGED <<counter, target, caller, result, relay, future, mustCancel, pending, failed, link,
                  upFailed, work, up, down>>
    BY DEF vars, callerVars, relayVars, superVars, workVars
<1>2. SentOnce' /\ AskedInv' /\ EndsInv'
    BY <1>1, SentKept, AskedStays, EndsKept
<1>3. EnteredInv'
    BY <1>1, EnteredKept DEF OkOf
<1>4. NoCallForgotten'
    BY <1>1 DEF WayInv, NoCallForgotten, Attended
<1> QED
    BY <1>2, <1>3, <1>4 DEF WayNext

LEMMA WayHolds == ASSUME OnlyCoreAsks PROVE WayInv /\ [Next]_vars => WayInv'
<1> SUFFICES ASSUME WayInv, [Next]_vars PROVE WayInv'
    OBVIOUS
<1>1. ServedInv'
    BY NextTyped, OwnNext, ServedNext DEF WayInv, ServedInv
<1>2. WayNext
    <2>1. CASE \E o \in Origins, w \in Workers : Ask(o, w)
        BY <2>1, AskWay
    <2>2. CASE \E c \in Calls : AskCancel(c) \/ Finish(c)
        BY <2>2, AskCancelWay, FinishWay
    <2>3. CASE Supervisor
        <3>1. ASSUME NEW o \in Origins, Receive(o) PROVE WayNext
            BY <3>1, ReceiveCoreWay, ReceiveWorkerWay
        <3>2. ASSUME NEW w \in Workers, Session(w) PROVE WayNext
            BY <3>2, EofWay, FailSessionWay, ForgetWay DEF Session
        <3> QED
            BY <2>3, <3>1, <3>2, RelayStartWay, RelayReturnsWay, ForwardDoneWay DEF Supervisor
    <2>4. CASE CoreLoop
        BY <2>4, CoreReceiveWay, CoreHangsUpWay DEF CoreLoop
    <2>5. CASE \E w \in Workers : WorkerReceive(w) \/ Die(w)
        BY <2>5, WorkerReceiveWay, DieWay
    <2>6. CASE UNCHANGED vars
        BY <2>6, WayStands
    <2> QED
        BY <2>1, <2>2, <2>3, <2>4, <2>5, <2>6 DEF Next
<1> QED
    BY <1>1, <1>2 DEF WayInv, WayNext

LEMMA WayAlways == ASSUME OnlyCoreAsks PROVE Spec => []WayInv
<1>1. Init => WayInv
    BY InitTyped, OwnInit, ServedInit, WayInit DEF WayInv, ServedInv
<1>2. WayInv /\ [Next]_vars => WayInv'
    BY WayHolds
<1> QED
    BY <1>1, <1>2, PTL DEF Spec

(* As long as only the core makes calls, one of them that waits is on its way *)
(* to an answer until the core's own connection fails: its request, its       *)
(* relaying task, the worker's frame or task or the notice of the worker's    *)
(* death stands for it after every step, whatever dies or is cancelled.       *)
THEOREM CoreNeverForgotten == ASSUME OnlyCoreAsks PROVE Spec => []NoCallForgotten
<1>1. WayInv => NoCallForgotten
    BY DEF WayInv
<1> QED
    BY <1>1, WayAlways, PTL

-----------------------------------------------------------------------------
(* The way of a cancel, when only the core makes calls.  First where the      *)
(* tables say a call is: the session whose peer awaits its result serves it,  *)
(* an answer is about work that has ended, and the worker knows what it works *)
(* on by its id.                                                              *)
WhereInv ==
    /\ \A w \in Workers, i \in Ids :
          /\ pending[w][i] # None => target[Mine(i)] = w /\ relay[Mine(i)] # "none"
          /\ Tells(up[w], i, Answers) => work[Mine(i)] = "ended"
    /\ \A i \in Ids :
          /\ work[Mine(i)] = "running" => inbound[target[Mine(i)]][i] = Mine(i)
          /\ relay[Mine(i)] = "waiting" =>
                /\ future[Mine(i)] \in Answers => work[Mine(i)] = "ended"
                /\ future[Mine(i)] = "lost" => failed[target[Mine(i)]]
    /\ \A w \in Workers : gone[w] => link[w] # "up"

LEMMA WhereInit == Init => WhereInv
<1> SUFFICES ASSUME Init PROVE WhereInv
    OBVIOUS
<1>1. /\ \A w \in Workers : up[w] = <<>> /\ ~gone[w] /\ \A i \in Ids : pending[w][i] = None
      /\ \A i \in Ids : relay[Mine(i)] = "none" /\ work[Mine(i)] = "none"
    BY MineAre DEF Init, Each
<1> QED
    BY <1>1, NothingTold DEF WhereInv

(* Steps that start no relay and no work.                                     *)
LEMMA WhereKept ==
    ASSUME WayInv, WhereInv, UNCHANGED inbound,
           \A i \in Ids :
               /\ relay[Mine(i)] # "none" =>
                     relay'[Mine(i)] # "none" /\ target'[Mine(i)] = target[Mine(i)]
               /\ relay'[Mine(i)] = "waiting" =>
                     relay[Mine(i)] = "waiting" /\ future'[Mine(i)] = future[Mine(i)]
               /\ work'[Mine(i)] = "running" => work[Mine(i)] = "running"
               /\ work[Mine(i)] = "ended" => work'[Mine(i)] = "ended",
           \A w \in Workers, i \in Ids :
               /\ pending'[w][i] # None => pending[w][i] # None
               /\ Tells(up'[w], i, Answers) => Tells(up[w], i, Answers),
           \A w \in Workers :
               /\ failed[w] => failed'[w]
               /\ gone'[w] => link'[w] # "up"
    PROVE  WhereInv'
<1>1. \A w \in Workers, i \in Ids :
          /\ pending'[w][i] # None => target'[Mine(i)] = w /\ relay'[Mine(i)] # "none"
          /\ Tells(up'[w], i, Answers) => work'[Mine(i)] = "ended"
    BY DEF WhereInv
<1>2. ASSUME NEW i \in Ids, work'[Mine(i)] = "running"
      PROVE  inbound'[target'[Mine(i)]][i] = Mine(i)
    <2>1. relay[Mine(i)] # "none"
        BY <1>2 DEF WayInv, SentOnce
    <2>2. target'[Mine(i)] = target[Mine(i)] /\ work[Mine(i)] = "running"
        BY <1>2, <2>1
    <2> QED
        BY <2>2 DEF WhereInv
<1>3. ASSUME NEW i \in Ids, relay'[Mine(i)] = "waiting"
      PROVE  /\ future'[Mine(i)] \in Answers => work'[Mine(i)] = "ended"
             /\ future'[Mine(i)] = "lost" => failed'[target'[Mine(i)]]
    <2>1. /\ relay[Mine(i)] = "waiting" /\ future'[Mine(i)] = future[Mine(i)]
          /\ target'[Mine(i)] = target[Mine(i)] /\ target[Mine(i)] \in Workers
          /\ work[Mine(i)] = "ended" => work'[Mine(i)] = "ended"
        BY <1>3 DEF WayInv, ServedInv, AskedOnce
    <2>2. /\ future[Mine(i)] \in Answers => work[Mine(i)] = "ended"
          /\ future[Mine(i)] = "lost" => failed[target[Mine(i)]]
        BY <2>1 DEF WhereInv
    <2> QED
        BY <2>1, <2>2
<1> QED
    BY <1>1, <1>2, <1>3 DEF WhereInv

LEMMA AskWhere ==
    ASSUME OnlyCoreAsks, WayInv, WhereInv, NEW o \in Origins, NEW w \in Workers, Ask(o, w)
    PROVE  WhereInv'
<1> DEFINE n == counter[Core] + 1
<1>6. o = Core /\ n \in Ids /\ counter[Core] \in Nat
    BY WayTypes DEF Ask, OnlyCoreAsks, CallerTypes
<1>1. /\ n \in Ids /\ target' = [target EXCEPT ![Mine(n)] = w]
      /\ up' = [up EXCEPT ![Core] = Append(@, Msg("invoke", n, Mine(n)))]
      /\ UNCHANGED relayVars /\ UNCHANGED superVars /\ UNCHANGED workVars
    BY <1>6 DEF Ask
<1>5. UNCHANGED <<inbound, relay, future, work, pending, failed, gone, link>>
    BY <1>1 DEF relayVars, superVars, workVars
<1>2. relay[Mine(n)] = "none"
    BY <1>6 DEF WayInv, ServedInv, AskedOnce
<1> HIDE DEF n
<1>3. \A i \in Ids : relay[Mine(i)] # "none" => target'[Mine(i)] = target[Mine(i)]
    BY <1>1, <1>2, MineAre, WayTypes DEF CallerTypes
<1>4. \A v \in Workers : up'[v] = up[v]
    BY <1>1, WayTypes
<1> QED
    BY <1>3, <1>4, <1>5, WhereKept DEF WhereInv

LEMMA CoreWhere ==
    ASSUME WayInv, WhereInv, CoreReceive \/ CoreHangsUp \/ \E c \in Calls : AskCancel(c)
    PROVE  WhereInv'
<1>1. UNCHANGED <<target, inbound, relay, future, work, pending, failed, gone, link>>
    BY DEF CoreReceive, CoreHangsUp, AskCancel, Deliver, Hangup, callerVars, relayVars, superVars,
       workVars
<1>2. \A v \in Workers : up'[v] = up[v]
    BY WayTypes DEF CoreReceive, CoreHangsUp, AskCancel, WayInv, ServedInv, OwnInv, TableInv, CoreCalls
<1> QED
    BY <1>1, <1>2, WhereKept DEF WhereInv

LEMMA RelayEndsWhere ==
    ASSUME WayInv, WhereInv, NEW c \in Calls, RelayReturns(c) \/ RelayInterrupted(c)
    PROVE  WhereInv'
<1>1. /\ UNCHANGED <<target, inbound, work, pending, failed, gone, link, up>>
      /\ relay' = [relay EXCEPT ![c] = "ended"]
      /\ future' = [future EXCEPT ![c] = IF @ = "pending" THEN "dropped" ELSE @] \/ future' = future
    BY DEF RelayReturns, RelayInterrupted, Reply, callerVars, workVars
<1>2. relay'[c] = "ended" /\ \A d \in Calls \ {c} : relay'[d] = relay[d] /\ future'[d] = future[d]
    BY <1>1, WayTypes DEF RelayTypes
<1> QED
    BY <1>1, <1>2, MineAre, WhereKept DEF WhereInv

LEMMA RelayStartWhere ==
    ASSUME WayInv, WhereInv, NEW c \in Calls, RelayStart(c)
    PROVE  WhereInv'
<1>1. PICK i \in Ids : c = Mine(i) /\ c[2] = i /\ relay[c] = "created"
    BY MineAre DEF RelayStart, WayInv, ServedInv, OwnInv, TableInv, CoreCalls
<1>2. PICK w \in Workers : w = target[c]
    BY <1>1 DEF WayInv, ServedInv, AskedOnce
<1>3. /\ UNCHANGED <<target, inbound, work, failed, gone, link, up>>
      /\ \/ /\ relay' = [relay EXCEPT ![c] = "ended"] /\ future' = future
            /\ pending' \in {pending, [pending EXCEPT ![w][i] = None]}
         \/ /\ relay' = [relay EXCEPT ![c] = "waiting"]
            /\ future' = [future EXCEPT ![c] = "pending"]
            /\ pending' = [pending EXCEPT ![w][i] = c]
    BY <1>1, <1>2 DEF RelayStart, Reply, SendOn, callerVars, workVars
<1>4. /\ relay'[Mine(i)] \in {"ended", "waiting"}
      /\ relay'[Mine(i)] = "waiting" => future'[Mine(i)] = "pending"
      /\ \A j \in Ids \ {i} : relay'[Mine(j)] = relay[Mine(j)] /\ future'[Mine(j)] = future[Mine(j)]
    BY <1>1, <1>3, MineAre, WayTypes DEF RelayTypes
<1>5. ASSUME NEW v \in Workers, NEW j \in Ids, pending'[v][j] # None
      PROVE  pending[v][j] # None \/ (v = w /\ j = i)
    <2>1. pending \in [Workers -> [Ids -> Calls \cup {None}]]
        BY WayTypes DEF SuperTypes
    <2> QED
        BY <1>3, <1>5, <2>1
<1>6. \A v \in Workers, j \in Ids : pending'[v][j] # None =>
          target'[Mine(j)] = v /\ relay'[Mine(j)] # "none"
    BY <1>1, <1>2, <1>3, <1>4, <1>5 DEF WhereInv
<1>7. ASSUME NEW j \in Ids, relay'[Mine(j)] = "waiting"
      PROVE  /\ future'[Mine(j)] \in Answers => work[Mine(j)] = "ended"
             /\ future'[Mine(j)] = "lost" => failed[target[Mine(j)]]
    <2>1. CASE j = i
        BY <1>4, <1>7, <2>1
    <2>2. CASE j # i
        BY <1>4, <1>7, <2>2 DEF WhereInv
    <2> QED
        BY <2>1, <2>2
<1>8. /\ \A v \in Workers, j \in Ids : Tells(up'[v], j, Answers) => work'[Mine(j)] = "ended"
      /\ \A j \in Ids : work'[Mine(j)] = "running" => inbound'[target'[Mine(j)]][j] = Mine(j)
      /\ \A v \in Workers : gone'[v] => link'[v] # "up"
    BY <1>3 DEF WhereInv
<1>9. UNCHANGED <<target, work, failed>>
    BY <1>3
<1> QED
    BY <1>6, <1>7, <1>8, <1>9 DEF WhereInv

LEMMA ReceiveCoreWhere == ASSUME WayInv, WhereInv, Receive(Core) PROVE WhereInv'
<1> DEFINE f == up[Core][1]
<1>1. /\ 1 \in DOMAIN up[Core]
      /\ up' = [up EXCEPT ![Core] = RemoveAt(@, 1)]
      /\ \/ f.kind = "invoke" /\ HandleInvoke(Core, f)
         \/ f.kind = "cancel" /\ HandleCancel(Core, f)
         \/ f.kind \in Answers /\ HandleResult(Core, f)
    BY DEF Receive, Readable, Reading
<1>2. f \in CallFrame
    BY <1>1, CoreFrames, SeqKept DEF WayInv, ServedInv, TypeInv, FrameTypes
<1>3. f.id \in Ids /\ f.kind \in {"invoke", "cancel"}
    BY <1>2 DEF CallFrame, Frame
<1>4. \A w \in Workers : up'[w] = up[w]
    BY <1>1, WayTypes
<1>5. UNCHANGED <<target, inbound, work, future, pending, failed, gone, link>>
    BY <1>1, <1>3 DEF HandleInvoke, HandleCancel, callerVars, superVars, workVars
<1> HIDE DEF f
<1>6. CASE HandleInvoke(Core, f)
    <2>1. relay' = [relay EXCEPT ![Mine(f.id)] = "created"]
        BY <1>6 DEF HandleInvoke
    <2>2. \A j \in Ids : relay'[Mine(j)] = IF j = f.id THEN "created" ELSE relay[Mine(j)]
        BY <1>3, <2>1, MineAre, WayTypes DEF RelayTypes
    <2> QED
        BY <1>4, <1>5, <2>2, WhereKept DEF WhereInv
<1>7. CASE HandleCancel(Core, f)
    <2>1. relay' = relay \/ CancelRelays(Core)
        BY <1>7 DEF HandleCancel, HandleUpstreamCancel
    <2>2. \A j \in Ids : \/ relay'[Mine(j)] = relay[Mine(j)]
                         \/ relay[Mine(j)] = "created" /\ relay'[Mine(j)] = "ended"
        BY <2>1, MineAre, WayTypes DEF CancelRelays
    <2> QED
        BY <1>4, <1>5, <2>2, WhereKept DEF WhereInv
<1> QED
    BY <1>1, <1>3, <1>6, <1>7

LEMMA ReceiveWorkerWhere ==
    ASSUME WayInv, WhereInv, NEW w \in Workers, Receive(w)
    PROVE  WhereInv'
<1>1. PICK k \in DOMAIN up[w] :
          /\ up' = [up EXCEPT ![w] = RemoveAt(@, k)]
          /\ \/ up[w][k].kind = "invoke" /\ HandleInvoke(w, up[w][k])
             \/ up[w][k].kind = "cancel" /\ HandleCancel(w, up[w][k])
             \/ up[w][k].kind \in Answers /\ HandleResult(w, up[w][k])
    BY WayTypes DEF Receive, Readable, Reading
<1> DEFINE f == up[w][k]
           i == f.id
<1>2. f \in OwnAnswers
    BY SeqKept DEF WayInv, ServedInv, OwnInv, FramesTell, UpOf
<1>3. i \in Ids /\ f.kind \in Answers
    BY <1>2 DEF OwnAnswers, AnswerFrame, Frame
<1>4. HandleResult(w, f)
    BY <1>1, <1>3
<1>5. Tells(up[w], i, Answers)
    BY <1>3 DEF Tells
<1>6. \A v \in Workers, j \in Ids : Tells(up'[v], j, Answers) => Tells(up[v], j, Answers)
    <2>1. /\ up'[w] = RemoveAt(up[w], k) /\ up[w] \in Seq(Frame)
          /\ \A v \in Workers \ {w} : up'[v] = up[v]
        BY <1>1, WayTypes
    <2>2. \A j \in Ids : Tells(RemoveAt(up[w], k), j, Answers) => Tells(up[w], j, Answers)
        BY <2>1, TellsTaken
    <2> QED
        BY <2>1, <2>2
<1> HIDE DEF f
<1>7. UNCHANGED <<target, relay, inbound, work, failed, gone, link>>
    BY <1>4 DEF HandleResult, callerVars, workVars
<1>8. pending[w][i] \in {None, Mine(i)} /\ Mine(i) # None
    BY <1>3, MineAre DEF WayInv, ServedInv, OwnInv, TableInv, Keyed
<1>9. /\ pending' = [pending EXCEPT ![w][i] = None]
      /\ future' = [future EXCEPT ![Mine(i)] = f.kind] \/ future' = future
    BY <1>4, <1>8 DEF HandleResult
<1> HIDE DEF i
<1>10. \A j \in Ids : future'[Mine(j)] = future[Mine(j)] \/ (j = i /\ future'[Mine(j)] = f.kind)
    BY <1>3, <1>9, MineAre, WayTypes DEF RelayTypes
<1>11. \A v \in Workers, j \in Ids : pending'[v][j] # None => pending[v][j] # None
    <2>1. pending \in [Workers -> [Ids -> Calls \cup {None}]]
        BY WayTypes DEF SuperTypes
    <2> QED
        BY <1>9, <2>1
<1>12. ASSUME NEW j \in Ids, relay'[Mine(j)] = "waiting"
       PROVE  /\ future'[Mine(j)] \in Answers => work[Mine(j)] = "ended"
              /\ future'[Mine(j)] = "lost" => failed[target[Mine(j)]]
    <2>1. CASE future'[Mine(j)] = future[Mine(j)]
        BY <1>7, <1>12, <2>1 DEF WhereInv
    <2>2. CASE j = i /\ future'[Mine(j)] = f.kind
        BY <1>3, <1>5, <2>2 DEF WhereInv
    <2> QED
        BY <1>10, <2>1, <2>2
<1>13. /\ \A v \in Workers, j \in Ids : Tells(up'[v], j, Answers) => work'[Mine(j)] = "ended"
       /\ \A j \in Ids : work'[Mine(j)] = "running" => inbound'[target'[Mine(j)]][j] = Mine(j)
       /\ \A v \in Workers : gone'[v] => link'[v] # "up"
    BY <1>6, <1>7 DEF WhereInv
<1>14. \A v \in Workers, j \in Ids : pending'[v][j] # None =>
           target'[Mine(j)] = v /\ relay'[Mine(j)] # "none"
    BY <1>7, <1>11 DEF WhereInv
<1>15. \A v \in Workers, j \in Ids :
          /\ pending'[v][j] # None => target'[Mine(j)] = v /\ relay'[Mine(j)] # "none"
          /\ Tells(up'[v], j, Answers) => work'[Mine(j)] = "ended"
    BY <1>13, <1>14
<1>16. \A j \in Ids : relay'[Mine(j)] = "waiting" =>
          /\ future'[Mine(j)] \in Answers => work'[Mine(j)] = "ended"
          /\ future'[Mine(j)] = "lost" => failed'[target'[Mine(j)]]
    BY ONLY <1>7, <1>12
<1>17. \A j \in Ids :
          /\ work'[Mine(j)] = "running" => inbound'[target'[Mine(j)]][j] = Mine(j)
          /\ relay'[Mine(j)] = "waiting" =>
                /\ future'[Mine(j)] \in Answers => work'[Mine(j)] = "ended"
                /\ future'[Mine(j)] = "lost" => failed'[target'[Mine(j)]]
    BY ONLY <1>13, <1>16
<1>18. \A v \in Workers : gone'[v] => link'[v] # "up"
    BY <1>13
<1> QED
    BY ONLY <1>15, <1>17, <1>18 DEF WhereInv

LEMMA ForwardDoneWhere == ASSUME WayInv, WhereInv, ForwardDone PROVE WhereInv'
<1>1. UNCHANGED <<target, inbound, relay, future, work, pending, failed, gone, link, up>>
    BY DEF ForwardDone, callerVars, workVars
<1> QED
    BY <1>1, WhereKept DEF WhereInv

LEMMA DieWhere == ASSUME WayInv, WhereInv, NEW w \in Workers, Die(w) PROVE WhereInv'
<1>1. /\ link' = [link EXCEPT ![w] = "lost"]
      /\ work' = [c \in Calls |-> IF work[c] = "running" /\ target[c] = w THEN "killed" ELSE work[c]]
      /\ UNCHANGED <<target, inbound, relay, future, pending, failed, gone, up>>
    BY DEF Die, Hangup, relayVars
<1>2. \A v \in Workers : gone[v] => link'[v] # "up"
    BY <1>1, WayTypes DEF WhereInv, SuperTypes
<1>3. \A i \in Ids : /\ work'[Mine(i)] = "running" => work[Mine(i)] = "running"
                     /\ work[Mine(i)] = "ended" => work'[Mine(i)] = "ended"
    BY <1>1, MineAre
<1> QED
    BY <1>1, <1>2, <1>3, WhereKept

LEMMA SessionWhere == ASSUME WayInv, WhereInv, NEW w \in Workers, Session(w) PROVE WhereInv'
<1>1. CASE Eof(w)
    <2>1. /\ link' = [link EXCEPT ![w] = "eof"] /\ up' = [up EXCEPT ![w] = <<>>]
          /\ UNCHANGED <<target, inbound, relay, future, work, pending, failed, gone>>
        BY <1>1 DEF Eof, callerVars, relayVars, workVars
    <2>2. /\ \A v \in Workers : gone[v] => link'[v] # "up"
          /\ \A v \in Workers : up'[v] \in {up[v], <<>>}
        BY <2>1, WayTypes DEF WhereInv, SuperTypes
    <2>3. \A v \in Workers, i \in Ids : Tells(up'[v], i, Answers) => Tells(up[v], i, Answers)
        BY <2>2, NothingTold
    <2> QED
        BY <2>1, <2>2, <2>3, WhereKept
<1>2. CASE Forget(w)
    <2>1. /\ link[w] = "eof" /\ gone' = [gone EXCEPT ![w] = TRUE]
          /\ UNCHANGED <<target, inbound, relay, future, work, pending, failed, link, up>>
        BY <1>2 DEF Forget, callerVars, relayVars, workVars
    <2>2. \A v \in Workers : gone'[v] => link'[v] # "up"
        BY <2>1, WayTypes DEF WhereInv, SuperTypes
    <2> QED
        BY <2>1, <2>2, WhereKept
<1>3. CASE FailSession(w)
    <2>1. /\ failed' = [failed EXCEPT ![w] = TRUE]
          /\ future' = [c \in Calls |-> IF pending[w][c[2]] = c /\ future[c] = "pending"
                                        THEN "lost" ELSE future[c]]
          /\ pending' = [pending EXCEPT ![w] = [i \in Ids |-> None]]
          /\ CancelRelays(w)
          /\ UNCHANGED <<target, inbound, work, gone, link, up>>
        BY <1>3 DEF FailSession, callerVars, workVars
    <2>2. \A i \in Ids : relay'[Mine(i)] = relay[Mine(i)]
        BY <2>1, MineAre, WayTypes DEF CancelRelays
    <2>3. \A v \in Workers : failed'[v] <=> failed[v] \/ v = w
        BY <2>1, WayTypes DEF SuperTypes
    <2>4. \A v \in Workers, i \in Ids : pending'[v][i] # None => pending[v][i] # None
        BY <2>1, WayTypes DEF SuperTypes
    <2>5. \A i \in Ids : \/ future'[Mine(i)] = future[Mine(i)]
                         \/ future'[Mine(i)] = "lost" /\ pending[w][i] = Mine(i)
        BY <2>1, MineAre
    <2>6. ASSUME NEW i \in Ids, relay'[Mine(i)] = "waiting"
          PROVE  /\ future'[Mine(i)] \in Answers => work[Mine(i)] = "ended"
                 /\ future'[Mine(i)] = "lost" => failed'[target[Mine(i)]]
        <3>1. relay[Mine(i)] = "waiting" /\ target[Mine(i)] \in Workers /\ Mine(i) # None
            BY <2>2, <2>6, MineAre DEF WayInv, ServedInv, AskedOnce
        <3>2. CASE future'[Mine(i)] = future[Mine(i)]
            BY <2>3, <3>1, <3>2 DEF WhereInv
        <3>3. CASE future'[Mine(i)] = "lost" /\ pending[w][i] = Mine(i)
            BY <2>3, <3>1, <3>3 DEF WhereInv
        <3> QED
            BY <2>5, <3>2, <3>3
    <2>7. /\ \A v \in Workers, j \in Ids : Tells(up'[v], j, Answers) => work'[Mine(j)] = "ended"
          /\ \A j \in Ids : work'[Mine(j)] = "running" => inbound'[target'[Mine(j)]][j] = Mine(j)
          /\ \A v \in Workers : gone'[v] => link'[v] # "up"
        BY <2>1 DEF WhereInv
    <2>8. \A v \in Workers, j \in Ids : pending'[v][j] # None =>
              target'[Mine(j)] = v /\ relay'[Mine(j)] # "none"
        BY <2>1, <2>2, <2>4 DEF WhereInv
    <2>9. \A i \in Ids : relay'[Mine(i)] = "waiting" =>
              /\ future'[Mine(i)] \in Answers => work'[Mine(i)] = "ended"
              /\ future'[Mine(i)] = "lost" => failed'[target'[Mine(i)]]
        BY <2>1, <2>6
    <2>10. \A v \in Workers, i \in Ids :
               /\ pending'[v][i] # None => target'[Mine(i)] = v /\ relay'[Mine(i)] # "none"
               /\ Tells(up'[v], i, Answers) => work'[Mine(i)] = "ended"
        BY <2>7, <2>8
    <2> QED
        BY <2>7, <2>9, <2>10, Zenon DEF WhereInv
<1> QED
    BY <1>1, <1>2, <1>3 DEF Session

LEMMA WorkerReceiveWhere ==
    ASSUME WayInv, WhereInv, NEW w \in Workers, WorkerReceive(w)
    PROVE  WhereInv'
<1> DEFINE f == Head(down[w])
           i == f.id
<1>1. /\ down[w] # <<>> /\ down[w] \in Seq(Frame) /\ up' = up
      /\ UNCHANGED <<relay, future, failed, link, pending, gone>>
    BY WayTypes DEF WorkerReceive, relayVars, superVars
<1>2. f \in OwnCalls
    BY <1>1, SeqKept DEF WayInv, ServedInv, OwnInv, FramesTell, DownOf
<1>3. f.kind \in {"invoke", "cancel"} /\ i \in Ids /\ f.call = Mine(i)
    BY <1>2 DEF OwnCalls, CallFrame, Frame
<1>4. CASE f.kind = "cancel"
    <2>1. UNCHANGED <<target, inbound, work>>
        BY <1>4 DEF WorkerReceive, callerVars
    <2> QED
        BY <1>1, <2>1, WhereKept DEF WhereInv
<1>5. CASE f.kind = "invoke"
    <2>1. /\ UNCHANGED target /\ work' = [work EXCEPT ![Mine(i)] = "running"]
          /\ inbound' = [inbound EXCEPT ![w][i] = Mine(i)]
        BY <1>3, <1>5 DEF WorkerReceive, callerVars
    <2>2. Tells(down[w], i, {"invoke"})
        BY <1>1, <1>5, TellsHead
    <2>3. target[Mine(i)] = w /\ work[Mine(i)] = "none"
        BY <1>3, <2>2 DEF WayInv, SentOnce, Invoked
    <2> HIDE DEF i
    <2>4. /\ \A j \in Ids \ {i} : work'[Mine(j)] = work[Mine(j)]
          /\ \A j \in Ids \ {i}, v \in Workers : inbound'[v][j] = inbound[v][j]
          /\ inbound'[w][i] = Mine(i)
        BY <1>3, <2>1, MineAre, WayTypes DEF WorkTypes
    <2>5. \A j \in Ids : work[Mine(j)] = "ended" => work'[Mine(j)] = "ended"
        BY <2>3, <2>4
    <2>6. ASSUME NEW j \in Ids, work'[Mine(j)] = "running"
          PROVE  inbound'[target'[Mine(j)]][j] = Mine(j)
        <3>1. CASE j = i
            BY <2>1, <2>3, <2>4, <3>1
        <3>2. CASE j # i
            <4>1. work[Mine(j)] = "running"
                BY <2>4, <2>6, <3>2
            <4>2. target[Mine(j)] \in Workers
                BY <4>1, MineAre DEF WayInv, EndsInv
            <4>3. inbound'[target[Mine(j)]][j] = inbound[target[Mine(j)]][j]
                BY <2>4, <3>2, <4>2
            <4> QED
                BY <2>1, <4>1, <4>3 DEF WhereInv
        <3> QED
            BY <3>1, <3>2
    <2>7. UNCHANGED <<target, up, pending, relay, future, failed, gone, link>>
        BY <1>1, <2>1
    <2> QED
        BY <2>5, <2>6, <2>7 DEF WhereInv
<1> QED
    BY <1>3, <1>4, <1>5

LEMMA FinishWhere == ASSUME WayInv, WhereInv, NEW c \in Calls, Finish(c) PROVE WhereInv'
<1>1. /\ work[c] = "running" /\ work' = [work EXCEPT ![c] = "ended"]
      /\ UNCHANGED <<target, relay, future, failed, link, pending, gone>>
    BY DEF Finish, callerVars, relayVars, superVars
<1>2. PICK i \in Ids : c = Mine(i) /\ c[2] = i
    BY <1>1, MineAre DEF WayInv, SentOnce
<1>3. PICK w \in Workers : w = target[c]
    BY <1>1 DEF WayInv, EndsInv
<1>4. PICK k \in Answers : k = IF workCancel[c] THEN "cancelled" ELSE "ok"
    OBVIOUS
<1> DEFINE f == Msg(k, i, c)
<1>5. f \in Frame /\ f.id = i
    BY MsgTyped DEF Msg
<1>6. up' = [up EXCEPT ![w] = Append(@, f)] /\ inbound' = [inbound EXCEPT ![w][i] = None]
    BY <1>2, <1>3, <1>4 DEF Finish
<1> HIDE DEF f
<1>7. \A v \in Workers, j \in Ids : Tells(up'[v], j, Answers) => Tells(up[v], j, Answers) \/ j = i
    <2>1. /\ up'[w] = Append(up[w], f) /\ up[w] \in Seq(Frame)
          /\ \A v \in Workers \ {w} : up'[v] = up[v]
        BY <1>6, WayTypes
    <2>2. \A j \in Ids : Tells(Append(up[w], f), j, Answers) => Tells(up[w], j, Answers) \/ j = i
        BY <1>5, <2>1, TellsSame
    <2> QED
        BY <2>1, <2>2
<1>8. /\ work'[Mine(i)] = "ended" /\ \A j \in Ids \ {i} : work'[Mine(j)] = work[Mine(j)]
      /\ \A j \in Ids \ {i}, v \in Workers : inbound'[v][j] = inbound[v][j]
    BY <1>1, <1>2, <1>6, MineAre, WayTypes DEF WorkTypes
<1>9. ASSUME NEW j \in Ids, work'[Mine(j)] = "running"
      PROVE  inbound'[target'[Mine(j)]][j] = Mine(j)
    <2>1. j # i /\ work[Mine(j)] = "running"
        BY <1>8, <1>9
    <2>2. target[Mine(j)] \in Workers
        BY <2>1, MineAre DEF WayInv, EndsInv
    <2> QED
        BY <1>1, <1>8, <2>1, <2>2 DEF WhereInv
<1>10. \A j \in Ids : work[Mine(j)] = "ended" => work'[Mine(j)] = "ended"
    BY <1>8
<1>11. \A v \in Workers, j \in Ids : Tells(up'[v], j, Answers) => work'[Mine(j)] = "ended"
    BY <1>7, <1>8, <1>10 DEF WhereInv
<1>12. UNCHANGED <<target, pending, relay, future, failed, gone, link>>
    BY <1>1
<1> QED
    BY <1>9, <1>10, <1>11, <1>12 DEF WhereInv

LEMMA WhereNext ==
    ASSUME OnlyCoreAsks, WayInv, WhereInv, [Next]_vars
    PROVE  WhereInv'
<1>1. CASE \E o \in Origins, w \in Workers : Ask(o, w)
    BY <1>1, AskWhere
<1>2. CASE \E c \in Calls : AskCancel(c) \/ Finish(c)
    BY <1>2, CoreWhere, FinishWhere
<1>3. CASE Supervisor
    <2>1. ASSUME NEW o \in Origins, Receive(o) PROVE WhereInv'
        BY <2>1, ReceiveCoreWhere, ReceiveWorkerWhere
    <2> QED
        BY <1>3, <2>1, SessionWhere, RelayStartWhere, RelayEndsWhere, ForwardDoneWhere
           DEF Supervisor
<1>4. CASE CoreLoop
    BY <1>4, CoreWhere DEF CoreLoop
<1>5. CASE \E w \in Workers : WorkerReceive(w) \/ Die(w)
    BY <1>5, WorkerReceiveWhere, DieWhere
<1>6. CASE UNCHANGED vars
    <2>1. UNCHANGED <<target, inbound, relay, future, work, pending, failed, gone, link, up>>
        BY <1>6 DEF vars, callerVars, relayVars, superVars, workVars
    <2> QED
        BY <2>1, WhereKept DEF WhereInv
<1> QED
    BY <1>1, <1>2, <1>3, <1>4, <1>5, <1>6 DEF Next

-----------------------------------------------------------------------------
(* A cancel in a queue, behind the request if that is still there.            *)
Behind(frames, i) ==
    \E n \in DOMAIN frames :
        /\ frames[n].id = i /\ frames[n].kind = "cancel"
        /\ \A m \in DOMAIN frames : frames[m].id = i /\ frames[m].kind = "invoke" => m < n

LEMMA BehindMore ==
    ASSUME NEW s \in Seq(Frame), NEW f \in Frame, NEW i
    PROVE  /\ Behind(s, i) /\ ~(f.id = i /\ f.kind = "invoke") => Behind(Append(s, f), i)
           /\ f.id = i /\ f.kind = "cancel" => Behind(Append(s, f), i)
<1>1. /\ DOMAIN Append(s, f) = DOMAIN s \cup {Len(s) + 1}
      /\ Append(s, f)[Len(s) + 1] = f /\ \A n \in DOMAIN s : Append(s, f)[n] = s[n]
      /\ \A n \in DOMAIN s : n < Len(s) + 1
    OBVIOUS
<1> QED
    BY <1>1 DEF Behind

LEMMA BehindTail ==
    ASSUME NEW s \in Seq(Frame), s # <<>>, NEW i, Behind(s, i)
    PROVE  \/ Behind(Tail(s), i)
           \/ Head(s).id = i /\ Head(s).kind = "cancel" /\ ~Tells(s, i, {"invoke"})
<1>1. /\ DOMAIN s = 1..Len(s) /\ Len(s) \in Nat /\ 1 \in DOMAIN s /\ Head(s) = s[1]
      /\ DOMAIN Tail(s) = 1..Len(s) - 1
      /\ \A n \in DOMAIN Tail(s) : Tail(s)[n] = s[n + 1] /\ n + 1 \in DOMAIN s
    OBVIOUS
<1>2. PICK n \in DOMAIN s :
          /\ s[n].id = i /\ s[n].kind = "cancel"
          /\ \A m \in DOMAIN s : s[m].id = i /\ s[m].kind = "invoke" => m < n
    BY DEF Behind
<1>3. CASE n = 1
    BY <1>1, <1>2, <1>3 DEF Tells
<1>4. CASE n # 1
    <2>1. n - 1 \in DOMAIN Tail(s) /\ (n - 1) + 1 = n
        BY <1>1, <1>4
    <2>2. Tail(s)[n - 1] = s[n]
        BY <1>1, <2>1
    <2>3. ASSUME NEW m \in DOMAIN Tail(s), Tail(s)[m].id = i, Tail(s)[m].kind = "invoke"
          PROVE  m < n - 1
        <3>1. m + 1 < n
            BY <1>1, <1>2, <2>3
        <3> QED
            BY <1>1, <3>1
    <2> QED
        BY <1>2, <2>1, <2>2, <2>3 DEF Behind
<1> QED
    BY <1>3, <1>4

LEMMA BehindIsTold == \A s, i : Behind(s, i) => Tells(s, i, {"cancel"})
    BY DEF Behind, Tells

-----------------------------------------------------------------------------
(* The supervisor is done with the cancel of call i: the request will not be  *)
(* sent, or the cancel comes after it, or the work is over.                   *)
Heard(i) == LET c == Mine(i)  w == target[c] IN
    /\ ~Tells(up[Core], i, {"invoke"})
    /\ relay[c] = "created" => token[c]
    /\ w \in Workers /\ link[w] = "up" =>
          /\ Tells(down[w], i, {"invoke"}) => Behind(down[w], i)
          /\ work[c] = "running" => workCancel[c] \/ Behind(down[w], i)

(* A cancel that was asked for waits behind its request or was taken; a task  *)
(* whose token is cancelled, or that has ended, leaves no work uncancelled.   *)
Sure(i) ==
    /\ asked[Mine(i)] => Behind(up[Core], i) \/ Heard(i)
    /\ token[Mine(i)] \/ relay[Mine(i)] = "ended" => Heard(i)

SureInv == upFailed \/ \A i \in Ids : Sure(i)

(* Cancels follow requests, and a task is cancelled after its token.          *)
TokenInv ==
    /\ \A i \in Ids :
          /\ asked[Mine(i)] => caller[Mine(i)] # "idle"
          /\ token[Mine(i)] => relay[Mine(i)] # "none"
          /\ mustCancel[Mine(i)] => token[Mine(i)]
    /\ cancelling # None => cancelling[1] = Core /\ token[cancelling]

CancelInv == WayInv /\ WhereInv /\ TokenInv /\ SureInv

LEMMA CancelInit == Init => TokenInv /\ SureInv
<1> SUFFICES ASSUME Init PROVE TokenInv /\ SureInv
    OBVIOUS
<1>1. /\ cancelling = None
      /\ \A i \in Ids : /\ ~asked[Mine(i)] /\ ~token[Mine(i)] /\ ~mustCancel[Mine(i)]
                        /\ relay[Mine(i)] = "none"
    BY MineAre DEF Init, Each
<1> QED
    BY <1>1 DEF TokenInv, SureInv, Sure

(* No call is left: what NoCancelForgotten says.                              *)
LEMMA SureMeans == CancelInv => NoCancelForgotten
<1> SUFFICES ASSUME CancelInv, ~upFailed, NEW i \in Ids, asked[Mine(i)], work[Mine(i)] = "running"
             PROVE  \/ workCancel[Mine(i)] \/ Tells(up[Core], i, {"cancel"})
                    \/ Tells(down[target[Mine(i)]], i, {"cancel"})
    BY DEF NoCancelForgotten
<1>1. target[Mine(i)] \in Workers /\ link[target[Mine(i)]] = "up"
    BY MineAre DEF CancelInv, WayInv, EndsInv
<1> QED
    BY <1>1, BehindIsTold DEF CancelInv, SureInv, Sure, Heard

(* Steps that leave what was heard as it is.                                  *)
LEMMA HeardKept ==
    ASSUME NEW i \in Ids, Heard(i), target'[Mine(i)] = target[Mine(i)],
           Tells(up'[Core], i, {"invoke"}) => Tells(up[Core], i, {"invoke"}),
           relay'[Mine(i)] = "created" => relay[Mine(i)] = "created",
           token[Mine(i)] => token'[Mine(i)],
           work'[Mine(i)] = "running" => work[Mine(i)] = "running",
           workCancel[Mine(i)] => workCancel'[Mine(i)],
           \A w \in Workers : link'[w] = "up" =>
               /\ link[w] = "up"
               /\ Tells(down'[w], i, {"invoke"}) => Tells(down[w], i, {"invoke"})
               /\ Behind(down[w], i) => Behind(down'[w], i)
    PROVE  Heard(i)'
    BY DEF Heard

LEMMA SureKept ==
    ASSUME NEW i \in Ids, Sure(i), Heard(i) => Heard(i)',
           asked'[Mine(i)] => asked[Mine(i)] \/ Behind(up'[Core], i),
           Behind(up[Core], i) => Behind(up'[Core], i),
           token'[Mine(i)] => token[Mine(i)],
           relay'[Mine(i)] = "ended" => relay[Mine(i)] = "ended" \/ Heard(i)'
    PROVE  Sure(i)'
    BY DEF Sure

LEMMA HeardIsSure == ASSUME NEW i \in Ids, Heard(i)' PROVE Sure(i)'
    BY DEF Sure

(* Steps that ask, cancel and relay nothing.                                  *)
LEMMA TokenKept ==
    ASSUME TokenInv, UNCHANGED <<token, asked, cancelling>>,
           \A i \in Ids : /\ caller[Mine(i)] # "idle" => caller'[Mine(i)] # "idle"
                          /\ relay[Mine(i)] # "none" => relay'[Mine(i)] # "none"
                          /\ mustCancel'[Mine(i)] => mustCancel[Mine(i)]
    PROVE  TokenInv'
    BY DEF TokenInv

LEMMA StaySure ==
    ASSUME SureInv, UNCHANGED <<upFailed, target, relay, token, asked>>, up'[Core] = up[Core],
           \A i \in Ids : /\ work'[Mine(i)] = "running" => work[Mine(i)] = "running"
                          /\ workCancel[Mine(i)] => workCancel'[Mine(i)],
           \A w \in Workers : link'[w] = "up" => link[w] = "up" /\ down'[w] = down[w]
    PROVE  SureInv'
<1> SUFFICES ASSUME ~upFailed, NEW i \in Ids PROVE Sure(i)'
    BY DEF SureInv
<1>1. Heard(i) => Heard(i)'
    BY HeardKept
<1> QED
    BY <1>1, SureKept DEF SureInv

LEMMA AskSure ==
    ASSUME OnlyCoreAsks, CancelInv, NEW o \in Origins, NEW w \in Workers, Ask(o, w)
    PROVE  TokenInv' /\ SureInv'
<1> DEFINE n == counter[Core] + 1
           f == Msg("invoke", n, Mine(n))
<1>1. o = Core /\ n \in Ids /\ counter[Core] \in Nat
    BY WayTypes DEF Ask, OnlyCoreAsks, CallerTypes, CancelInv
<1>2. /\ target' = [target EXCEPT ![Mine(n)] = w]
      /\ caller' = [caller EXCEPT ![Mine(n)] = "waiting"]
      /\ up' = [up EXCEPT ![Core] = Append(@, f)]
      /\ UNCHANGED <<asked, down>>
      /\ UNCHANGED relayVars /\ UNCHANGED superVars /\ UNCHANGED workVars
    BY <1>1 DEF Ask
<1>3. UNCHANGED <<relay, token, mustCancel, cancelling, link, upFailed, work, workCancel>>
    BY <1>2 DEF relayVars, superVars, workVars
<1>4. f \in Frame /\ f.kind = "invoke" /\ f.id = n
    BY <1>1, MsgTyped, MineAre DEF Msg
<1>5. relay[Mine(n)] = "none" /\ caller[Mine(n)] = "idle"
    BY <1>1, WayTypes DEF CancelInv, WayInv, ServedInv, AskedOnce, AskedInv, CallerTypes
<1> HIDE DEF f, n
<1>6. /\ up'[Core] = Append(up[Core], f) /\ up[Core] \in Seq(Frame)
      /\ \A i \in Ids \ {n} : target'[Mine(i)] = target[Mine(i)]
      /\ \A i \in Ids : caller[Mine(i)] # "idle" => caller'[Mine(i)] # "idle"
    BY <1>1, <1>2, MineAre, WayTypes DEF CallerTypes, CancelInv
<1>7. TokenInv'
    BY <1>2, <1>3, <1>6, TokenKept DEF CancelInv
<1>8. SureInv'
    <2> SUFFICES ASSUME ~upFailed, NEW i \in Ids PROVE Sure(i)'
        BY <1>3 DEF SureInv
    <2>1. CASE i = n
        BY <1>2, <1>3, <1>5, <2>1 DEF Sure, CancelInv, TokenInv
    <2>2. CASE i # n
        <3>1. /\ Tells(up'[Core], i, {"invoke"}) => Tells(up[Core], i, {"invoke"})
              /\ Behind(up[Core], i) => Behind(up'[Core], i)
            BY <1>4, <1>6, <2>2, TellsSame, BehindMore
        <3>2. Heard(i) => Heard(i)'
            BY <1>2, <1>3, <1>6, <2>2, <3>1, HeardKept
        <3> QED
            BY <1>2, <1>3, <3>1, <3>2, SureKept DEF CancelInv, SureInv
    <2> QED
        BY <2>1, <2>2
<1> QED
    BY <1>7, <1>8

LEMMA AskCancelSure ==
    ASSUME CancelInv, NEW c \in Calls, AskCancel(c)
    PROVE  TokenInv' /\ SureInv'
<1>1. PICK k \in Ids : c = Mine(k) /\ c[1] = Core /\ c[2] = k
    BY MineAre DEF AskCancel, CancelInv, WayInv, ServedInv, OwnInv, TableInv, CoreCalls
<1> DEFINE f == Msg("cancel", k, c)
<1>2. f \in Frame /\ f.kind = "cancel" /\ f.id = k
    BY <1>1, MsgTyped, MineAre DEF Msg
<1>3. /\ up' = [up EXCEPT ![Core] = Append(@, f)] /\ asked' = [asked EXCEPT ![c] = TRUE]
      /\ caller[c] = "waiting"
      /\ UNCHANGED <<target, caller, relay, token, mustCancel, cancelling, link, upFailed, work,
                     workCancel, down>>
    BY <1>1 DEF AskCancel, relayVars, superVars, workVars
<1> HIDE DEF f
<1>4. /\ up'[Core] = Append(up[Core], f) /\ up[Core] \in Seq(Frame)
      /\ \A i \in Ids \ {k} : asked'[Mine(i)] = asked[Mine(i)]
    BY <1>1, <1>3, MineAre, WayTypes DEF CallerTypes, CancelInv
<1>5. TokenInv'
    BY <1>1, <1>3, <1>4 DEF CancelInv, TokenInv
<1>6. SureInv'
    <2> SUFFICES ASSUME ~upFailed, NEW i \in Ids PROVE Sure(i)'
        BY <1>3 DEF SureInv
    <2>1. /\ Tells(up'[Core], i, {"invoke"}) => Tells(up[Core], i, {"invoke"})
          /\ Behind(up[Core], i) => Behind(up'[Core], i)
          /\ i = k => Behind(up'[Core], i)
        BY <1>2, <1>4, TellsSame, BehindMore
    <2>2. Heard(i) => Heard(i)'
        BY <1>3, <2>1, HeardKept
    <2> QED
        BY <1>3, <1>4, <2>1, <2>2, SureKept DEF CancelInv, SureInv
<1> QED
    BY <1>5, <1>6

LEMMA CoreReceiveSure == ASSUME CancelInv, CoreReceive PROVE TokenInv' /\ SureInv'
<1>1. PICK k \in DOMAIN down[Core] :
          /\ Deliver(Core, down[Core][k])
          /\ down' = [down EXCEPT ![Core] = RemoveAt(@, k)]
          /\ UNCHANGED relayVars /\ UNCHANGED superVars /\ UNCHANGED workVars /\ up' = up
    BY DEF CoreReceive
<1>2. /\ UNCHANGED <<target, asked>>
      /\ \A i \in Ids : caller[Mine(i)] # "idle" => caller'[Mine(i)] # "idle"
    BY <1>1, WayTypes DEF Deliver, callerVars, CallerTypes, CancelInv
<1>3. UNCHANGED <<relay, token, mustCancel, cancelling, link, upFailed, work, workCancel, up>>
    BY <1>1 DEF relayVars, superVars, workVars
<1>4. \A w \in Workers : down'[w] = down[w]
    BY <1>1, WayTypes DEF CancelInv
<1> QED
    BY <1>2, <1>3, <1>4, TokenKept, StaySure DEF CancelInv

LEMMA CoreHangsUpSure == ASSUME CancelInv, CoreHangsUp PROVE TokenInv' /\ SureInv'
<1>1. /\ Hangup(Core) /\ upFailed
      /\ UNCHANGED <<relay, token, mustCancel, cancelling, upFailed>>
    BY DEF CoreHangsUp, relayVars, superVars
<1>2. UNCHANGED asked /\ \A i \in Ids : caller[Mine(i)] # "idle" => caller'[Mine(i)] # "idle"
    BY <1>1, MineAre DEF Hangup
<1> QED
    BY <1>1, <1>2, TokenKept DEF CancelInv, SureInv

(* What the supervisor's tasks leave when they end, or send on.               *)
LEMMA EndedIsHeard ==
    ASSUME CancelInv, NEW i \in Ids, relay[Mine(i)] # "none",
           work[Mine(i)] \notin {"none", "running"}
           \/ relay[Mine(i)] = "created" \/ link[target[Mine(i)]] # "up",
           UNCHANGED <<target, up, link, work>>, \A w \in Workers : down'[w] = down[w],
           relay'[Mine(i)] = "ended"
    PROVE  Heard(i)'
<1>1. ~Tells(up[Core], i, {"invoke"})
    BY DEF Tells, CancelInv, WayInv, ServedInv, AskedOnce, Invokes
<1>2. work[Mine(i)] # "none" \/ relay[Mine(i)] = "created" =>
          \A w \in Workers : ~Tells(down[w], i, {"invoke"})
    BY DEF CancelInv, WayInv, SentOnce, Invoked
<1>3. relay[Mine(i)] = "created" => work[Mine(i)] = "none"
    BY DEF CancelInv, WayInv, SentOnce
<1> QED
    BY <1>1, <1>2, <1>3 DEF Heard

LEMMA RelayEndsSure ==
    ASSUME CancelInv, NEW c \in Calls, RelayReturns(c) \/ RelayInterrupted(c)
    PROVE  TokenInv' /\ SureInv'
<1>1. PICK i \in Ids : c = Mine(i) /\ c[1] = Core /\ relay[c] = "waiting"
    BY MineAre DEF RelayReturns, RelayInterrupted, CancelInv, WayInv, ServedInv, OwnInv, TableInv,
                   CoreCalls
<1>2. /\ UNCHANGED <<target, caller, asked, token, cancelling, link, upFailed, work, workCancel, up>>
      /\ relay' = [relay EXCEPT ![c] = "ended"]
      /\ mustCancel' = [mustCancel EXCEPT ![c] = FALSE] \/ mustCancel' = mustCancel
    BY DEF RelayReturns, RelayInterrupted, Reply, callerVars, workVars
<1>3. \A w \in Workers : down'[w] = down[w]
    BY <1>1, WayTypes DEF RelayReturns, RelayInterrupted, Reply, CancelInv
<1>4. /\ relay'[c] = "ended" /\ \A j \in Ids \ {i} : relay'[Mine(j)] = relay[Mine(j)]
      /\ \A j \in Ids : mustCancel'[Mine(j)] => mustCancel[Mine(j)]
    BY <1>1, <1>2, MineAre, WayTypes DEF RelayTypes, CancelInv
<1>5. TokenInv'
    BY <1>1, <1>2, <1>4, TokenKept DEF CancelInv
<1>6. ASSUME ~upFailed PROVE Heard(i)'
    <2>1. CASE RelayReturns(c)
        <3>1. future[c] \in Answers \cup {"lost"} /\ target[c] \in Workers
            BY <1>1, <2>1, WayTypes DEF RelayReturns, CancelInv, WayInv, ServedInv, TypeInv, Answered,
                                        RelayTypes, AskedOnce
        <3>2. work[c] = "ended" \/ failed[target[c]]
            BY <1>1, <3>1 DEF CancelInv, WhereInv
        <3>3. work[c] = "ended" \/ link[target[c]] # "up"
            BY <3>1, <3>2 DEF CancelInv, WayInv, EndsInv
        <3> QED
            BY <1>1, <1>2, <1>3, <1>4, <3>3, EndedIsHeard
    <2>2. CASE RelayInterrupted(c)
        <3>1. token[c]
            BY <1>1, <2>2 DEF RelayInterrupted, CancelInv, TokenInv
        <3>2. Heard(i)
            BY <1>1, <1>6, <3>1 DEF CancelInv, SureInv, Sure
        <3> QED
            BY <1>1, <1>2, <1>3, <1>4, <3>2, HeardKept
    <2> QED
        BY <2>1, <2>2
<1>7. SureInv'
    <2> SUFFICES ASSUME ~upFailed, NEW j \in Ids PROVE Sure(j)'
        BY <1>2 DEF SureInv
    <2>1. CASE j = i
        BY <1>6, <2>1, HeardIsSure
    <2>2. CASE j # i
        <3>1. Heard(j) => Heard(j)'
            BY <1>2, <1>3, <1>4, <2>2, HeardKept
        <3> QED
            BY <1>2, <1>4, <2>2, <3>1, SureKept DEF CancelInv, SureInv
    <2> QED
        BY <2>1, <2>2
<1> QED
    BY <1>5, <1>7

LEMMA RelayStartSure ==
    ASSUME CancelInv, NEW c \in Calls, RelayStart(c)
    PROVE  TokenInv' /\ SureInv'
<1>1. PICK i \in Ids : c = Mine(i) /\ c[1] = Core /\ c[2] = i /\ relay[c] = "created"
    BY MineAre DEF RelayStart, CancelInv, WayInv, ServedInv, OwnInv, TableInv, CoreCalls
<1>2. PICK w \in Workers : w = target[c]
    BY <1>1 DEF CancelInv, WayInv, ServedInv, AskedOnce
<1>3. UNCHANGED <<target, caller, asked, token, mustCancel, cancelling, link, upFailed, work,
                  workCancel, up>>
    BY DEF RelayStart, callerVars, workVars
<1>4. \/ Reply(c, "cancelled", c) \/ Reply(c, "error", c)
      \/ ~token[c] /\ SendOn(c)
    BY <1>2 DEF RelayStart
<1>5. /\ relay'[c] \in {"ended", "waiting"}
      /\ \A j \in Ids \ {i} : relay'[Mine(j)] = relay[Mine(j)]
    BY <1>1, <1>4, MineAre, WayTypes DEF Reply, SendOn, RelayTypes, CancelInv
<1>6. TokenInv'
    BY <1>1, <1>3, <1>5, TokenKept DEF CancelInv
<1>7. CASE Reply(c, "cancelled", c) \/ Reply(c, "error", c)
    <2>1. \A v \in Workers : down'[v] = down[v]
        BY <1>1, <1>7, WayTypes DEF Reply, CancelInv
    <2>2. relay'[c] = "ended"
        BY <1>1, <1>7, WayTypes DEF Reply, RelayTypes, CancelInv
    <2>3. Heard(i)'
        BY <1>1, <1>3, <2>1, <2>2, EndedIsHeard
    <2>4. ASSUME ~upFailed, NEW j \in Ids \ {i} PROVE Sure(j)'
        <3>1. Heard(j) => Heard(j)'
            BY <1>3, <1>5, <2>1, HeardKept
        <3> QED
            BY <1>3, <1>5, <2>4, <3>1, SureKept DEF CancelInv, SureInv
    <2> QED
        BY <1>3, <1>6, <2>3, <2>4, HeardIsSure DEF SureInv
<1>8. CASE ~token[c] /\ SendOn(c)
    <2> DEFINE f == Msg("invoke", i, c)
    <2>1. f \in Frame /\ f.kind = "invoke" /\ f.id = i
        BY <1>1, MsgTyped DEF Msg
    <2>2. /\ relay' = [relay EXCEPT ![c] = "waiting"]
          /\ down' = down \/ down' = [down EXCEPT ![w] = Append(@, f)]
        BY <1>1, <1>2, <1>8 DEF SendOn
    <2> HIDE DEF f
    <2>3. /\ relay'[c] = "waiting" /\ down[w] \in Seq(Frame)
          /\ \A v \in Workers : down'[v] = down[v] \/ (v = w /\ down'[w] = Append(down[w], f))
        BY <1>1, <2>2, MineAre, WayTypes DEF RelayTypes, CancelInv
    <2>4. ASSUME ~upFailed, NEW j \in Ids PROVE Sure(j)'
        <3>1. CASE j = i
            BY <1>1, <1>3, <1>8, <2>3, <2>4, <3>1 DEF CancelInv, SureInv, Sure, Heard
        <3>2. CASE j # i
            <4>1. /\ Tells(Append(down[w], f), j, {"invoke"}) => Tells(down[w], j, {"invoke"})
                  /\ Behind(down[w], j) => Behind(Append(down[w], f), j)
                BY <2>1, <2>3, <3>2, TellsSame, BehindMore
            <4>2. \A v \in Workers :
                      /\ Tells(down'[v], j, {"invoke"}) => Tells(down[v], j, {"invoke"})
                      /\ Behind(down[v], j) => Behind(down'[v], j)
                BY <2>3, <4>1
            <4>3. Heard(j) => Heard(j)'
                BY <1>3, <1>5, <3>2, <4>2, HeardKept
            <4> QED
                BY <1>3, <1>5, <2>4, <3>2, <4>3, SureKept DEF CancelInv, SureInv
        <3> QED
            BY <3>1, <3>2
    <2> QED
        BY <1>3, <1>6, <2>4 DEF SureInv
<1> QED
    BY <1>4, <1>7, <1>8

(* The core's connection has failed: nothing more is claimed of its cancels.  *)
LEMMA FailedSure ==
    ASSUME CancelInv, CancelRelays(Core), upFailed', UNCHANGED <<caller, asked, cancelling>>
    PROVE  TokenInv' /\ SureInv'
<1>1. \A c \in Calls :
          /\ token'[c] <=> token[c] \/ (c[1] = Core /\ relay[c] \in {"created", "waiting"})
          /\ mustCancel'[c] => mustCancel[c] \/ token'[c]
          /\ relay[c] # "none" => relay'[c] # "none"
    BY DEF CancelRelays
<1>2. cancelling # None => cancelling \in Calls
    BY WayTypes DEF SuperTypes, CancelInv
<1>3. \A i \in Ids : /\ asked'[Mine(i)] => caller'[Mine(i)] # "idle"
                     /\ token'[Mine(i)] => relay'[Mine(i)] # "none"
                     /\ mustCancel'[Mine(i)] => token'[Mine(i)]
    BY <1>1, MineAre DEF CancelInv, TokenInv
<1>4. cancelling' # None => cancelling'[1] = Core /\ token'[cancelling']
    BY <1>1, <1>2 DEF CancelInv, TokenInv
<1> QED
    BY <1>3, <1>4 DEF TokenInv, SureInv

LEMMA ReceiveInvokeSure ==
    ASSUME CancelInv, NEW f \in Frame, up[Core] # <<>>, f = Head(up[Core]), f.kind = "invoke",
           up' = [up EXCEPT ![Core] = Tail(@)], HandleInvoke(Core, f)
    PROVE  TokenInv' /\ SureInv'
<1> DEFINE k == f.id
<1>1. k \in Ids /\ up[Core] \in Seq(Frame) /\ up'[Core] = Tail(up[Core])
    BY WayTypes DEF CancelInv, Frame
<1>2. Tells(up[Core], k, {"invoke"})
    BY <1>1, TellsHead
<1>3. relay[Mine(k)] = "none"
    BY <1>2 DEF Tells, CancelInv, WayInv, ServedInv, AskedOnce, Invokes
<1>4. /\ relay' = [relay EXCEPT ![Mine(k)] = "created"]
      /\ UNCHANGED <<target, caller, asked, token, mustCancel, cancelling, link, upFailed, work,
                     workCancel, down>>
    BY DEF HandleInvoke, callerVars, superVars, workVars
<1>5. /\ relay'[Mine(k)] = "created" /\ \A j \in Ids \ {k} : relay'[Mine(j)] = relay[Mine(j)]
    BY <1>1, <1>4, MineAre, WayTypes DEF RelayTypes, CancelInv
<1> HIDE DEF k
<1>6. TokenInv'
    BY <1>4, <1>5, TokenKept DEF CancelInv
<1>7. ASSUME ~upFailed, NEW j \in Ids PROVE Sure(j)'
    <2>1. /\ Tells(up'[Core], j, {"invoke"}) => Tells(up[Core], j, {"invoke"})
          /\ Behind(up[Core], j) => Behind(up'[Core], j)
        BY <1>1, TellsHead, BehindTail
    <2>2. CASE j = k
        BY <1>2, <1>3, <1>4, <1>5, <1>7, <2>1, <2>2
           DEF CancelInv, SureInv, TokenInv, Sure, Heard
    <2>3. CASE j # k
        <3>1. Heard(j) => Heard(j)'
            BY <1>4, <1>5, <2>1, <2>3, HeardKept
        <3> QED
            BY <1>4, <1>5, <1>7, <2>1, <2>3, <3>1, SureKept DEF CancelInv, SureInv
    <2> QED
        BY <2>2, <2>3
<1> QED
    BY <1>4, <1>6, <1>7 DEF SureInv

(* The request came before its cancel and is taken: the supervisor's task has *)
(* not started, or active_requests still knows the worker that stands.        *)
LEMMA CancelIsHeard ==
    ASSUME CancelInv, ~upFailed, NEW k \in Ids, ~Tells(up[Core], k, {"invoke"}),
           ~Tells(up'[Core], k, {"invoke"}),
           UNCHANGED <<target, relay, link, work, workCancel>>,
           relay[Mine(k)] \in {"created", "waiting"} => token'[Mine(k)],
           relay[Mine(k)] \notin {"created", "waiting"} => UNCHANGED <<down, token>>,
           relay[Mine(k)] = "created" => UNCHANGED down,
           relay[Mine(k)] = "waiting" =>
               LET w == active[k] IN
               \/ w = None
               \/ link[w] # "up"
               \/ down' = [down EXCEPT ![w] = Append(@, Msg("cancel", k, Mine(k)))]
    PROVE  Heard(k)'
<1>1. CASE relay[Mine(k)] = "ended"
    <2>1. Heard(k)
        BY <1>1 DEF CancelInv, SureInv, Sure
    <2> QED
        BY <1>1, <2>1, HeardKept
<1>2. CASE relay[Mine(k)] \in {"none", "created"}
    <2>1. work[Mine(k)] = "none" /\ \A w \in Workers : ~Tells(down[w], k, {"invoke"})
        BY <1>2 DEF CancelInv, WayInv, SentOnce, Invoked
    <2>2. UNCHANGED down
        BY <1>2
    <2> QED
        BY <1>2, <2>1, <2>2 DEF Heard
<1>3. CASE relay[Mine(k)] = "waiting"
    <2>1. target[Mine(k)] \in Workers
        BY <1>3 DEF CancelInv, WayInv, ServedInv, AskedOnce
    <2>2. CASE link[target[Mine(k)]] # "up"
        BY <1>3, <2>2 DEF Heard
    <2>3. CASE link[target[Mine(k)]] = "up"
        <3> DEFINE w == target[Mine(k)]
                   f == Msg("cancel", k, Mine(k))
        <3>6. ~gone[w]
            BY <2>1, <2>3 DEF CancelInv, WhereInv
        <3>1. active[k] = w /\ w # None
            BY <1>3, <2>1, <3>6 DEF CancelInv, WayInv, ServedInv, Served
        <3>2. down' = [down EXCEPT ![w] = Append(@, f)]
            BY <1>3, <2>3, <3>1
        <3>3. f \in Frame /\ f.kind = "cancel" /\ f.id = k
            BY MsgTyped, MineAre DEF Msg
        <3> HIDE DEF f
        <3>4. down'[w] = Append(down[w], f) /\ down[w] \in Seq(Frame)
            BY <2>1, <3>2, WayTypes DEF CancelInv
        <3>5. Behind(down'[w], k)
            BY <3>3, <3>4, BehindMore
        <3> QED
            BY <1>3, <3>5 DEF Heard
    <2> QED
        BY <2>2, <2>3
<1>4. relay[Mine(k)] \in {"none", "created", "waiting", "ended"}
    BY WayTypes DEF RelayTypes, CancelInv
<1> QED
    BY <1>1, <1>2, <1>3, <1>4

LEMMA ReceiveCancelSure ==
    ASSUME CancelInv, ~upFailed, NEW f \in Frame, up[Core] # <<>>, f = Head(up[Core]), f.kind = "cancel",
           up' = [up EXCEPT ![Core] = Tail(@)], HandleCancel(Core, f)
    PROVE  TokenInv' /\ SureInv'
<1> DEFINE k == f.id
           c == Mine(k)
           w == active[k]
<1>1. k \in Ids /\ up[Core] \in Seq(Frame) /\ up'[Core] = Tail(up[Core]) /\ c \in Calls /\ c[1] = Core
    BY WayTypes, MineAre DEF CancelInv, Frame
<1>2. UNCHANGED <<target, caller, asked, link, work, workCancel>>
    BY DEF HandleCancel, callerVars, workVars
<1>3. \/ /\ relay[c] \notin {"created", "waiting"}
         /\ UNCHANGED <<relay, token, mustCancel, cancelling, upFailed, down>>
      \/ relay[c] \in {"created", "waiting"} /\ HandleUpstreamCancel(c)
    BY DEF HandleCancel
<1>4. CASE upFailed'
    BY <1>2, <1>3, <1>4, FailedSure DEF HandleUpstreamCancel
<1>5. CASE ~upFailed'
    <2>1. /\ UNCHANGED relay
          /\ relay[c] \notin {"created", "waiting"} => UNCHANGED <<token, mustCancel, cancelling, down>>
          /\ relay[c] \in {"created", "waiting"} =>
                /\ token' = [token EXCEPT ![c] = TRUE]
                /\ \/ w = None /\ UNCHANGED <<cancelling, down>> /\ CancelStarted(c)
                   \/ /\ w # None /\ cancelling' = c /\ UNCHANGED mustCancel
                      /\ down' = IF link[w] # "up" THEN down
                                 ELSE [down EXCEPT ![w] = Append(@, Msg("cancel", k, c))]
        BY <1>3, <1>5 DEF HandleUpstreamCancel
    <2>2. /\ \A d \in Calls : token'[d] <=> token[d] \/ (d = c /\ relay[c] \in {"created", "waiting"})
          /\ \A d \in Calls : mustCancel'[d] => mustCancel[d] \/ (d = c /\ token'[c])
        <3>1. token \in [Calls -> BOOLEAN] /\ mustCancel \in [Calls -> BOOLEAN]
            BY WayTypes DEF RelayTypes, CancelInv
        <3>2. \A d \in Calls : token'[d] <=> token[d] \/ (d = c /\ relay[c] \in {"created", "waiting"})
            BY <1>1, <2>1, <3>1
        <3>3. \/ mustCancel' = mustCancel
              \/ relay[c] = "waiting" /\ mustCancel' = [mustCancel EXCEPT ![c] = TRUE]
            BY <2>1 DEF CancelStarted
        <3>4. \A d \in Calls : mustCancel'[d] => mustCancel[d] \/ (d = c /\ relay[c] = "waiting")
            BY <1>1, <3>1, <3>3
        <3> QED
            BY <1>1, <3>2, <3>4
    <2>3. cancelling' \in {cancelling, c} /\ (cancelling' = c /\ cancelling' # cancelling => token'[c])
        BY <1>1, <2>1, <2>2
    <2>4. relay[c] = "created" => w = None
        BY <1>1 DEF CancelInv, WayInv, ServedInv, Served
    <2>5. w # None => w \in Workers
        BY <1>1, WayTypes DEF CancelInv, SuperTypes
    <2> HIDE DEF k, w
    <2>6. TokenInv'
        <3>1. \A i \in Ids : /\ asked'[Mine(i)] => caller'[Mine(i)] # "idle"
                             /\ token'[Mine(i)] => relay'[Mine(i)] # "none"
                             /\ mustCancel'[Mine(i)] => token'[Mine(i)]
            BY <1>2, <2>1, <2>2, MineAre DEF CancelInv, TokenInv
        <3>2. cancelling # None => cancelling \in Calls
            BY WayTypes DEF SuperTypes, CancelInv
        <3>3. cancelling' # None => cancelling'[1] = Core /\ token'[cancelling']
            BY <1>1, <2>2, <2>3, <3>2 DEF CancelInv, TokenInv
        <3> QED
            BY <3>1, <3>3 DEF TokenInv
    <2>7. \A j \in Ids : Tells(up'[Core], j, {"invoke"}) => Tells(up[Core], j, {"invoke"})
        BY <1>1, TellsHead
    <2>8. ASSUME NEW j \in Ids, j # k PROVE Sure(j)'
        <3>1. Behind(up[Core], j) => Behind(up'[Core], j)
            BY <1>1, <2>8, BehindTail DEF k
        <3>2. \A v \in Workers :
                  /\ Tells(down'[v], j, {"invoke"}) => Tells(down[v], j, {"invoke"})
                  /\ Behind(down[v], j) => Behind(down'[v], j)
            <4> DEFINE g == Msg("cancel", k, c)
            <4>1. g \in Frame /\ g.kind = "cancel"
                BY <1>1, MsgTyped DEF Msg
            <4>2. down' = down \/ (w \in Workers /\ down' = [down EXCEPT ![w] = Append(@, g)])
                BY <2>1, <2>5
            <4> HIDE DEF g
            <4>3. ASSUME NEW v \in Workers
                  PROVE  /\ Tells(down'[v], j, {"invoke"}) => Tells(down[v], j, {"invoke"})
                         /\ Behind(down[v], j) => Behind(down'[v], j)
                <5>1. down[v] \in Seq(Frame) /\ (down'[v] = down[v] \/ down'[v] = Append(down[v], g))
                    BY <4>2, WayTypes DEF CancelInv
                <5>2. /\ Tells(Append(down[v], g), j, {"invoke"}) => Tells(down[v], j, {"invoke"})
                      /\ Behind(down[v], j) => Behind(Append(down[v], g), j)
                    BY <4>1, <5>1, TellsSame, BehindMore
                <5> QED
                    BY <5>1, <5>2
            <4> QED
                BY <4>3
        <3>3. token'[Mine(j)] <=> token[Mine(j)]
            BY <2>2, <2>8, MineAre
        <3>4. Heard(j) => Heard(j)'
            BY <1>2, <2>1, <2>7, <3>2, <3>3, HeardKept
        <3>5. Sure(j)
            BY DEF CancelInv, SureInv
        <3> QED
            BY <1>2, <2>1, <3>1, <3>3, <3>4, <3>5, SureKept
    <2>9. Sure(k)'
        <3>1. CASE Tells(up[Core], k, {"invoke"})
            <4>1. relay[c] = "none"
                BY <1>1, <3>1 DEF Tells, CancelInv, WayInv, ServedInv, AskedOnce, Invokes
            <4>2. ~Heard(k) /\ ~token[c] /\ Sure(k)
                BY <1>1, <3>1, <4>1 DEF Heard, CancelInv, TokenInv, SureInv
            <4>3. Behind(up[Core], k) => Behind(up'[Core], k)
                BY <1>1, <3>1, BehindTail
            <4> QED
                BY <1>2, <2>1, <4>1, <4>2, <4>3 DEF Sure
        <3>2. CASE ~Tells(up[Core], k, {"invoke"})
            <4>1. ~Tells(up'[Core], k, {"invoke"})
                BY <1>1, <2>7, <3>2
            <4>2. relay[c] \in {"created", "waiting"} => token'[c]
                BY <1>1, <2>2
            <4>3. relay[c] = "created" => UNCHANGED down
                BY <2>1, <2>4
            <4>4. relay[c] = "waiting" =>
                     \/ w = None \/ link[w] # "up"
                     \/ down' = [down EXCEPT ![w] = Append(@, Msg("cancel", k, c))]
                BY <2>1
            <4>5. Heard(k)'
                BY <1>1, <1>2, <2>1, <3>2, <4>1, <4>2, <4>3, <4>4, CancelIsHeard DEF w
            <4> QED
                BY <1>1, <4>5, HeardIsSure
        <3> QED
            BY <3>1, <3>2
    <2> QED
        BY <1>1, <2>6, <2>8, <2>9 DEF SureInv
<1> QED
    BY <1>4, <1>5

LEMMA ReceiveCoreSure == ASSUME CancelInv, Receive(Core) PROVE TokenInv' /\ SureInv'
<1> DEFINE f == up[Core][1]
<1>1. /\ 1 \in DOMAIN up[Core] /\ ~upFailed
      /\ up' = [up EXCEPT ![Core] = RemoveAt(@, 1)]
      /\ \/ f.kind = "invoke" /\ HandleInvoke(Core, f)
         \/ f.kind = "cancel" /\ HandleCancel(Core, f)
         \/ f.kind \in Answers /\ HandleResult(Core, f)
    BY DEF Receive, Readable, Reading
<1>2. f \in CallFrame
    BY <1>1, CoreFrames, SeqKept DEF CancelInv, WayInv, ServedInv, TypeInv, FrameTypes
<1>3. f \in Frame /\ f.kind \in {"invoke", "cancel"}
    BY <1>2 DEF CallFrame
<1>4. up[Core] # <<>> /\ f = Head(up[Core]) /\ RemoveAt(up[Core], 1) = Tail(up[Core])
    <2>1. up[Core] \in Seq(Frame) /\ up[Core] # <<>>
        BY <1>1, WayTypes DEF CancelInv
    <2>2. RemoveAt(up[Core], 1) = Tail(up[Core])
        BY <2>1, HeadRemoved
    <2> QED
        BY <2>1, <2>2
<1>5. up' = [up EXCEPT ![Core] = Tail(@)]
    BY <1>1, <1>4
<1> HIDE DEF f
<1> QED
    BY <1>1, <1>3, <1>4, <1>5, ReceiveInvokeSure, ReceiveCancelSure

LEMMA ReceiveWorkerSure ==
    ASSUME CancelInv, NEW w \in Workers, Receive(w)
    PROVE  TokenInv' /\ SureInv'
<1>1. PICK k \in DOMAIN up[w] :
          /\ up' = [up EXCEPT ![w] = RemoveAt(@, k)]
          /\ \/ up[w][k].kind = "invoke" /\ HandleInvoke(w, up[w][k])
             \/ up[w][k].kind = "cancel" /\ HandleCancel(w, up[w][k])
             \/ up[w][k].kind \in Answers /\ HandleResult(w, up[w][k])
    BY WayTypes DEF Receive, Readable, Reading, CancelInv
<1> DEFINE f == up[w][k]
<1>2. f \in OwnAnswers
    BY SeqKept DEF CancelInv, WayInv, ServedInv, OwnInv, FramesTell, UpOf
<1>3. HandleResult(w, f)
    BY <1>1, <1>2 DEF OwnAnswers, AnswerFrame
<1>4. UNCHANGED <<target, caller, asked, relay, token, mustCancel, cancelling, link, upFailed, work,
                  workCancel, down>>
    BY <1>3 DEF HandleResult, callerVars, workVars
<1>5. up'[Core] = up[Core]
    BY <1>1, WayTypes DEF CancelInv
<1> QED
    BY <1>4, <1>5, TokenKept, StaySure DEF CancelInv

LEMMA ForwardDoneSure == ASSUME CancelInv, ForwardDone PROVE TokenInv' /\ SureInv'
<1>1. /\ UNCHANGED <<target, caller, asked, relay, token, link, upFailed, work, workCancel, up, down>>
      /\ cancelling # None /\ cancelling' = None /\ CancelStarted(cancelling)
    BY DEF ForwardDone, callerVars, workVars
<1>2. \A d \in Calls : mustCancel'[d] => mustCancel[d] \/ d = cancelling
    BY <1>1, WayTypes DEF CancelStarted, RelayTypes, CancelInv
<1>3. TokenInv'
    BY <1>1, <1>2, MineAre DEF CancelInv, TokenInv
<1>4. SureInv'
    BY <1>1, StaySure DEF CancelInv
<1> QED
    BY <1>3, <1>4

LEMMA DieSure == ASSUME CancelInv, NEW w \in Workers, Die(w) PROVE TokenInv' /\ SureInv'
<1>1. /\ link' = [link EXCEPT ![w] = "lost"]
      /\ work' = [c \in Calls |-> IF work[c] = "running" /\ target[c] = w THEN "killed" ELSE work[c]]
      /\ down' = [down EXCEPT ![w] = <<>>] /\ Hangup(w)
      /\ UNCHANGED <<relay, token, mustCancel, cancelling, upFailed, workCancel, up>>
    BY DEF Die, relayVars
<1>2. UNCHANGED <<target, asked>> /\ \A i \in Ids : caller'[Mine(i)] = caller[Mine(i)]
    BY <1>1, MineAre, WayTypes DEF Hangup, CancelInv
<1>3. \A i \in Ids : work'[Mine(i)] = "running" => work[Mine(i)] = "running"
    BY <1>1, MineAre
<1>4. \A v \in Workers : link'[v] = "up" => link[v] = "up" /\ down'[v] = down[v]
    BY <1>1, WayTypes DEF SuperTypes, CancelInv
<1> QED
    BY <1>1, <1>2, <1>3, <1>4, TokenKept, StaySure DEF CancelInv

LEMMA SessionSure ==
    ASSUME CancelInv, NEW w \in Workers, Session(w)
    PROVE  TokenInv' /\ SureInv'
<1>1. CASE Eof(w)
    <2>1. /\ link' = [link EXCEPT ![w] = "eof"] /\ up' = [up EXCEPT ![w] = <<>>]
          /\ UNCHANGED <<target, caller, asked, relay, token, mustCancel, cancelling, upFailed, work,
                         workCancel, down>>
        BY <1>1 DEF Eof, callerVars, relayVars, workVars
    <2>2. up'[Core] = up[Core] /\ \A v \in Workers : link'[v] = "up" => link[v] = "up"
        BY <2>1, WayTypes DEF SuperTypes, CancelInv
    <2> QED
        BY <2>1, <2>2, TokenKept, StaySure DEF CancelInv
<1>2. CASE Forget(w)
    <2>1. UNCHANGED <<target, caller, asked, relay, token, mustCancel, cancelling, link, upFailed, work,
                      workCancel, up, down>>
        BY <1>2 DEF Forget, callerVars, relayVars, workVars
    <2> QED
        BY <2>1, TokenKept, StaySure DEF CancelInv
<1>3. CASE FailSession(w)
    <2>1. /\ CancelRelays(w)
          /\ UNCHANGED <<target, caller, asked, cancelling, link, upFailed, work, workCancel, up, down>>
        BY <1>3 DEF FailSession, callerVars, workVars
    <2>2. \A i \in Ids : /\ relay'[Mine(i)] = relay[Mine(i)]
                         /\ token'[Mine(i)] <=> token[Mine(i)]
                         /\ mustCancel'[Mine(i)] => mustCancel[Mine(i)]
        BY <2>1, MineAre, WayTypes DEF CancelRelays, RelayTypes, CancelInv
    <2>3. cancelling # None => cancelling \in Calls /\ token'[cancelling]
        BY <2>1, WayTypes DEF CancelRelays, SuperTypes, CancelInv, TokenInv
    <2>4. TokenInv'
        BY <2>1, <2>2, <2>3 DEF CancelInv, TokenInv
    <2>5. SureInv'
        <3> SUFFICES ASSUME ~upFailed, NEW i \in Ids PROVE Sure(i)'
            BY <2>1 DEF SureInv
        <3>1. Heard(i) => Heard(i)'
            BY <2>1, <2>2, HeardKept
        <3> QED
            BY <2>1, <2>2, <3>1, SureKept DEF CancelInv, SureInv
    <2> QED
        BY <2>4, <2>5
<1> QED
    BY <1>1, <1>2, <1>3 DEF Session

(* The worker reads the request before its cancel, and then knows the task.   *)
LEMMA WorkerReceiveSure ==
    ASSUME CancelInv, NEW w \in Workers, WorkerReceive(w)
    PROVE  TokenInv' /\ SureInv'
<1> DEFINE f == Head(down[w])
           k == f.id
<1>1. /\ link[w] = "up" /\ down[w] # <<>> /\ down[w] \in Seq(Frame)
      /\ down' = [down EXCEPT ![w] = Tail(@)]
      /\ UNCHANGED <<relay, token, mustCancel, cancelling, link, upFailed, up>>
    BY WayTypes DEF WorkerReceive, relayVars, superVars, CancelInv
<1>2. f \in OwnCalls
    BY <1>1, SeqKept DEF CancelInv, WayInv, ServedInv, OwnInv, FramesTell, DownOf
<1>3. f.kind \in {"invoke", "cancel"} /\ k \in Ids /\ f.call = Mine(k)
    BY <1>2 DEF OwnCalls, CallFrame, Frame
<1>4. /\ UNCHANGED <<target, caller, asked>>
      /\ \/ f.kind = "invoke" /\ work' = [work EXCEPT ![Mine(k)] = "running"] /\ UNCHANGED workCancel
         \/ f.kind = "cancel" /\ work' = work /\ WorkerCancel(w, k)
    BY <1>3 DEF WorkerReceive, callerVars
<1>5. Tells(down[w], k, {f.kind}) /\ \A i : Tells(Tail(down[w]), i, {"invoke"}) => Tells(down[w], i, {"invoke"})
    BY <1>1, TellsHead
<1>6. down'[w] = Tail(down[w]) /\ \A v \in Workers \ {w} : down'[v] = down[v]
    BY <1>1, WayTypes DEF CancelInv
<1>7. \A i \in Ids : Behind(down[w], i) =>
          \/ Behind(down'[w], i)
          \/ k = i /\ f.kind = "cancel" /\ ~Tells(down[w], i, {"invoke"})
    BY <1>1, <1>6, BehindTail
<1> HIDE DEF f, k
<1>8. \A d \in Calls : /\ workCancel[d] => workCancel'[d]
                       /\ f.kind = "cancel" /\ inbound[w][k] = d => workCancel'[d]
    BY <1>3, <1>4, WayTypes, MineAre DEF WorkerCancel, WorkTypes, CancelInv
<1>9. \A i \in Ids : work'[Mine(i)] = "running" =>
          work[Mine(i)] = "running" \/ (i = k /\ f.kind = "invoke")
    BY <1>3, <1>4, MineAre, WayTypes DEF WorkTypes, CancelInv
<1>10. TokenInv'
    BY <1>1, <1>4, TokenKept DEF CancelInv
<1>11. ASSUME NEW i \in Ids, Heard(i) PROVE Heard(i)'
    <2>1. CASE target[Mine(i)] # w
        <3>1. f.kind = "invoke" => target[Mine(k)] = w
            BY <1>3, <1>5 DEF CancelInv, WayInv, SentOnce, Invoked
        <3>2. work'[Mine(i)] = "running" => work[Mine(i)] = "running"
            BY <1>9, <2>1, <3>1
        <3> QED
            BY <1>1, <1>4, <1>6, <1>8, <1>11, <2>1, <3>2, MineAre DEF Heard
    <2>2. CASE target[Mine(i)] = w
        <3>1. /\ Tells(down[w], i, {"invoke"}) => Behind(down[w], i)
              /\ work[Mine(i)] = "running" => workCancel[Mine(i)] \/ Behind(down[w], i)
            BY <1>1, <1>11, <2>2 DEF Heard
        <3>2. Tells(down'[w], i, {"invoke"}) => Behind(down'[w], i)
            BY <1>5, <1>6, <1>7, <3>1
        <3>3. ASSUME work'[Mine(i)] = "running" PROVE workCancel'[Mine(i)] \/ Behind(down'[w], i)
            <4>1. CASE i = k /\ f.kind = "invoke"
                BY <1>5, <1>7, <3>1, <4>1
            <4>2. CASE work[Mine(i)] = "running"
                <5>1. inbound[w][i] = Mine(i)
                    BY <2>2, <4>2 DEF CancelInv, WhereInv
                <5> QED
                    BY <1>7, <1>8, <3>1, <4>2, <5>1, MineAre
            <4> QED
                BY <1>9, <3>3, <4>1, <4>2
        <3> QED
            BY <1>1, <1>4, <1>11, <2>2, <3>2, <3>3 DEF Heard
    <2> QED
        BY <2>1, <2>2
<1>12. SureInv'
    <2> SUFFICES ASSUME ~upFailed, NEW i \in Ids PROVE Sure(i)'
        BY <1>1 DEF SureInv
    <2> QED
        BY <1>1, <1>4, <1>11, SureKept DEF CancelInv, SureInv
<1> QED
    BY <1>10, <1>12

LEMMA FinishSure == ASSUME CancelInv, NEW c \in Calls, Finish(c) PROVE TokenInv' /\ SureInv'
<1>1. /\ work[c] = "running" /\ work' = [work EXCEPT ![c] = "ended"]
      /\ UNCHANGED <<target, caller, asked, relay, token, mustCancel, cancelling, link, upFailed,
                     workCancel, down>>
    BY DEF Finish, callerVars, relayVars, superVars
<1>2. \A i \in Ids : work'[Mine(i)] = "running" => work[Mine(i)] = "running"
    BY <1>1, MineAre, WayTypes DEF WorkTypes, CancelInv
<1>3. target[c] \in Workers
    BY <1>1 DEF CancelInv, WayInv, EndsInv
<1>4. up'[Core] = up[Core]
    BY <1>3, WayTypes DEF Finish, CancelInv
<1> QED
    BY <1>1, <1>2, <1>4, TokenKept, StaySure DEF CancelInv

LEMMA CancelNext ==
    ASSUME OnlyCoreAsks, CancelInv, [Next]_vars
    PROVE  CancelInv'
<1>1. WayInv' /\ WhereInv'
    BY WayHolds, WhereNext DEF CancelInv
<1>2. TokenInv' /\ SureInv'
    <2>1. CASE \E o \in Origins, w \in Workers : Ask(o, w)
        BY <2>1, AskSure
    <2>2. CASE \E c \in Calls : AskCancel(c) \/ Finish(c)
        BY <2>2, AskCancelSure, FinishSure
    <2>3. CASE Supervisor
        <3>1. ASSUME NEW o \in Origins, Receive(o) PROVE TokenInv' /\ SureInv'
            BY <3>1, ReceiveCoreSure, ReceiveWorkerSure
        <3> QED
            BY <2>3, <3>1, SessionSure, RelayStartSure, RelayEndsSure, ForwardDoneSure
               DEF Supervisor
    <2>4. CASE CoreLoop
        BY <2>4, CoreReceiveSure, CoreHangsUpSure DEF CoreLoop
    <2>5. CASE \E w \in Workers : WorkerReceive(w) \/ Die(w)
        BY <2>5, WorkerReceiveSure, DieSure
    <2>6. CASE UNCHANGED vars
        <3>1. UNCHANGED <<target, caller, asked, relay, token, mustCancel, cancelling, link, upFailed,
                          work, workCancel, up, down>>
            BY <2>6 DEF vars, callerVars, relayVars, superVars, workVars
        <3> QED
            BY <3>1, TokenKept, StaySure DEF CancelInv
    <2> QED
        BY <2>1, <2>2, <2>3, <2>4, <2>5, <2>6 DEF Next
<1> QED
    BY <1>1, <1>2 DEF CancelInv

(* As long as only the core makes calls, a cancel that it sends is never left *)
(* behind by a reply that overtakes it, by the death of another worker, by    *)
(* the order of the supervisor's tables or by a request that has not arrived: *)
(* while the core's connection stands, work whose caller asked for its end is *)
(* cancelled or has the cancel before it.                                     *)
THEOREM CancelNeverForgotten == ASSUME OnlyCoreAsks PROVE Spec => []NoCancelForgotten
<1>1. Init => CancelInv
    BY InitTyped, OwnInit, ServedInit, WayInit, WhereInit, CancelInit
       DEF CancelInv, WayInv, ServedInv
<1>2. CancelInv /\ [Next]_vars => CancelInv'
    BY CancelNext
<1> QED
    BY <1>1, <1>2, SureMeans, PTL DEF Spec

(* Calls of the core and their cancels, whatever is lost or comes late.       *)
THEOREM NothingForgottenEver == ASSUME OnlyCoreAsks PROVE Spec => []NothingForgotten
<1>1. NoCallForgotten /\ NoCancelForgotten => NothingForgotten
    BY DEF NothingForgotten
<1> QED
    BY <1>1, CoreNeverForgotten, CancelNeverForgotten, PTL

-----------------------------------------------------------------------------
(* The relay implements RpcContract: every step of the core, the supervisor   *)
(* and the workers requests one call, enters one handler, settles one call,   *)
(* ends those that wait on a lost connection, or changes nothing a caller may *)
(* see.                                                                       *)

StatusOf(c) == CASE caller[c] = "idle"    -> "idle"
                 [] caller[c] = "waiting" -> "active"
                 [] OTHER                 -> "settled"
Status == [c \in Calls |-> StatusOf(c)]
Runs   == [c \in Calls |-> IF work[c] = "none" THEN 0 ELSE 1]

\* Nothing changes but where frames and tables are.
Unseen == UNCHANGED <<caller, result>> /\ \A c \in Calls : work'[c] = "none" <=> work[c] = "none"

Requests(i) ==
    /\ caller[Mine(i)] = "idle" /\ caller' = [caller EXCEPT ![Mine(i)] = "waiting"]
    /\ UNCHANGED <<result, work>>
Enters(i) ==
    /\ caller[Mine(i)] # "idle" /\ work[Mine(i)] = "none"
    /\ work' = [work EXCEPT ![Mine(i)] = "running"] /\ UNCHANGED <<caller, result>>
Settles(i, k) ==
    /\ caller[Mine(i)] = "waiting" /\ (k = "ok" => work[Mine(i)] # "none")
    /\ caller' = [caller EXCEPT ![Mine(i)] = "done"]
    /\ result' = [result EXCEPT ![Mine(i)] = k] /\ UNCHANGED work
Loses == Hangup(Core) /\ UNCHANGED work /\ \E c \in Calls : c[1] = Core /\ caller[c] = "waiting"

LEMMA AskSeen ==
    ASSUME OnlyCoreAsks, WayInv, NEW o \in Origins, NEW w \in Workers, Ask(o, w)
    PROVE  \E i \in Ids : Requests(i)
<1> DEFINE n == counter[Core] + 1
<1>1. o = Core /\ n \in Ids /\ ~(n <= counter[Core])
    BY WayTypes DEF Ask, OnlyCoreAsks, CallerTypes
<1>2. caller[Mine(n)] = "idle"
    BY <1>1 DEF WayInv, AskedInv
<1>3. Requests(n)
    BY <1>1, <1>2 DEF Ask, Requests, workVars
<1> QED
    BY <1>1, <1>3

LEMMA CoreReceiveSeen ==
    ASSUME WayInv, CoreReceive
    PROVE  Unseen \/ \E i \in Ids, k \in Answers : Settles(i, k)
<1>1. PICK k \in DOMAIN down[Core] : Deliver(Core, down[Core][k]) /\ UNCHANGED workVars
    BY DEF CoreReceive
<1> DEFINE f == down[Core][k]
<1>2. f.kind \in Answers /\ f.id \in Ids
    <2>1. down[Core] \in Seq(AnswerFrame)
        BY DEF WayInv, ServedInv, TypeInv, FrameTypes, DownTypes
    <2> QED
        BY <2>1 DEF AnswerFrame, Frame
<1>3. f.kind = "ok" => work[Mine(f.id)] # "none"
    BY <1>2 DEF WayInv, EnteredInv, OkOf, Tells
<1>4. CASE caller[Mine(f.id)] = "waiting"
    <2>1. Settles(f.id, f.kind)
        BY <1>1, <1>3, <1>4 DEF Deliver, Settles, workVars
    <2> QED
        BY <1>2, <2>1
<1>5. CASE caller[Mine(f.id)] # "waiting"
    BY <1>1, <1>5 DEF Deliver, Unseen, callerVars, workVars
<1> QED
    BY <1>4, <1>5

LEMMA WorkerReceiveSeen ==
    ASSUME WayInv, NEW w \in Workers, WorkerReceive(w)
    PROVE  Unseen \/ \E i \in Ids : Enters(i)
<1> DEFINE f == Head(down[w])
<1>1. down[w] # <<>> /\ down[w] \in Seq(Frame)
    BY WayTypes DEF WorkerReceive
<1>2. f \in OwnCalls
    BY <1>1, SeqKept DEF WayInv, ServedInv, OwnInv, FramesTell, DownOf
<1>3. PICK i \in Ids : f.id = i
    BY <1>2 DEF OwnCalls, CallFrame, Frame
<1>4. f.kind \in {"invoke", "cancel"} /\ f.call = Mine(i)
    BY <1>2, <1>3 DEF OwnCalls, CallFrame
<1>5. CASE f.kind = "invoke"
    <2>1. Invoked(w, i)
        BY <1>1, <1>3, <1>5, TellsHead DEF Invoked
    <2>2. work[Mine(i)] = "none" /\ relay[Mine(i)] # "none"
        BY <2>1 DEF WayInv, SentOnce
    <2>3. caller[Mine(i)] # "idle"
        BY <2>2 DEF WayInv, AskedInv, ServedInv, AskedOnce
    <2>4. work' = [work EXCEPT ![Mine(i)] = "running"] /\ UNCHANGED callerVars
        BY <1>4, <1>5 DEF WorkerReceive
    <2> QED
        BY <2>2, <2>3, <2>4 DEF Enters, callerVars
<1>6. CASE f.kind = "cancel"
    BY <1>6 DEF WorkerReceive, Unseen, callerVars
<1> QED
    BY <1>4, <1>5, <1>6

LEMMA DieSeen == ASSUME WayInv, NEW w \in Workers, Die(w) PROVE Unseen
<1>1. \A c \in Calls : c[1] # Core => caller[c] = "idle"
    BY DEF WayInv, ServedInv, OwnInv, TableInv, CoreCalls
<1>2. \A c \in Calls : ~(c[1] = w /\ caller[c] = "waiting")
    BY <1>1
<1>3. caller' = [c \in Calls |-> caller[c]] /\ result' = [c \in Calls |-> result[c]]
    BY <1>2 DEF Die, Hangup
<1>4. UNCHANGED <<caller, result>>
    BY <1>3, WayTypes DEF CallerTypes
<1> QED
    BY <1>4 DEF Unseen, Die

LEMMA FinishSeen == ASSUME WayInv, NEW c \in Calls, Finish(c) PROVE Unseen
<1>1. work[c] = "running" /\ work' = [work EXCEPT ![c] = "ended"] /\ UNCHANGED <<caller, result>>
    BY DEF Finish, callerVars
<1> QED
    BY <1>1, WayTypes DEF Unseen, WorkTypes

LEMMA SupervisorSeen == ASSUME Supervisor \/ UNCHANGED vars PROVE Unseen
<1>1. ASSUME UNCHANGED <<callerVars, work>> PROVE Unseen
    BY <1>1 DEF Unseen, callerVars
<1>2. ASSUME NEW o \in Origins, Receive(o) PROVE UNCHANGED <<callerVars, work>>
    BY <1>2 DEF Receive, HandleInvoke, HandleCancel, HandleResult, workVars
<1>3. ASSUME NEW c \in Calls, RelayStart(c) \/ RelayReturns(c) \/ RelayInterrupted(c)
      PROVE  UNCHANGED <<callerVars, work>>
    BY <1>3 DEF RelayStart, RelayReturns, RelayInterrupted, workVars
<1>4. CASE ForwardDone
    BY <1>1, <1>4 DEF ForwardDone, workVars
<1>5. ASSUME NEW w \in Workers, Session(w) PROVE UNCHANGED <<callerVars, work>>
    BY <1>5 DEF Session, Eof, FailSession, Forget, workVars
<1>6. CASE UNCHANGED vars
    BY <1>1, <1>6 DEF vars, workVars
<1> QED
    BY <1>1, <1>2, <1>3, <1>4, <1>5, <1>6 DEF Supervisor

LEMMA NextSeen ==
    ASSUME OnlyCoreAsks, WayInv, [Next]_vars
    PROVE  \/ Unseen \/ Loses
           \/ \E i \in Ids : Requests(i) \/ Enters(i) \/ \E k \in Answers : Settles(i, k)
<1>1. CASE \E o \in Origins, w \in Workers : Ask(o, w)
    BY <1>1, AskSeen
<1>2. CASE \E c \in Calls : AskCancel(c) \/ Finish(c)
    BY <1>2, FinishSeen DEF AskCancel, Unseen, workVars
<1>3. CASE Supervisor \/ UNCHANGED vars
    BY <1>3, SupervisorSeen
<1>4. CASE CoreHangsUp
    BY <1>4, MineAre DEF CoreHangsUp, Loses, workVars
<1>5. CASE CoreReceive
    BY <1>5, CoreReceiveSeen
<1>6. CASE \E w \in Workers : WorkerReceive(w) \/ Die(w)
    BY <1>6, WorkerReceiveSeen, DieSeen
<1> QED
    BY <1>1, <1>2, <1>3, <1>4, <1>5, <1>6 DEF Next, CoreLoop

LEMMA RelayContractStep ==
    ASSUME OnlyCoreAsks, WayInv, [Next]_vars
    PROVE  [Contract!ContractNext]_(Contract!contractVars)
<1>1. CASE Unseen
    <2>1. Status' = Status /\ Runs' = Runs /\ result' = result
        BY <1>1 DEF Unseen, Status, StatusOf, Runs
    <2> QED
        BY <2>1 DEF Contract!contractVars, Status, StatusOf, Runs
<1>2. ASSUME NEW i \in Ids, Requests(i) PROVE Contract!Request(Mine(i))
    <2>1. Status[Mine(i)] = "idle" /\ Runs' = Runs /\ result' = result
        BY <1>2, MineAre DEF Requests, Status, StatusOf, Runs
    <2>2. Status' = [Status EXCEPT ![Mine(i)] = "active"]
        BY <1>2, MineAre, WayTypes DEF Requests, Status, StatusOf, CallerTypes
    <2> QED
        BY <2>1, <2>2 DEF Contract!Request, Status, StatusOf, Runs
<1>3. ASSUME NEW i \in Ids, Enters(i) PROVE Contract!Execute(Mine(i))
    <2>1. Status[Mine(i)] # "idle" /\ Runs[Mine(i)] = 0 /\ Status' = Status /\ result' = result
        BY <1>3, MineAre DEF Enters, Status, StatusOf, Runs
    <2>2. Runs' = [Runs EXCEPT ![Mine(i)] = 1]
        BY <1>3, MineAre, WayTypes DEF Enters, Runs, WorkTypes
    <2> QED
        BY <2>1, <2>2 DEF Contract!Execute, Status, StatusOf, Runs
<1>4. ASSUME NEW i \in Ids, NEW k \in Answers, Settles(i, k) PROVE Contract!Settle(Mine(i), k)
    <2>1. /\ Status[Mine(i)] = "active" /\ Runs' = Runs
          /\ k \in {"ok"} => Runs[Mine(i)] = 1
        BY <1>4, MineAre DEF Settles, Status, StatusOf, Runs
    <2>2. Status' = [Status EXCEPT ![Mine(i)] = "settled"]
        BY <1>4, MineAre, WayTypes DEF Settles, Status, StatusOf, CallerTypes
    <2>3. result' = [result EXCEPT ![Mine(i)] = k]
        BY <1>4 DEF Settles
    <2> QED
        BY <2>1, <2>2, <2>3 DEF Contract!Settle, Status, StatusOf, Runs
<1>5. CASE Loses
    <2> DEFINE lost == {c \in Calls : c[1] = Core /\ caller[c] = "waiting"}
    <2>1. lost \subseteq Contract!Active /\ lost # {}
        BY <1>5 DEF Loses, Status, StatusOf, Contract!Active
    <2>2. Status' = [c \in Calls |-> IF c \in lost THEN "settled" ELSE Status[c]]
        BY <1>5 DEF Loses, Hangup, Status, StatusOf
    <2>3. result' = [c \in Calls |-> IF c \in lost THEN "lost" ELSE result[c]] /\ Runs' = Runs
        BY <1>5 DEF Loses, Hangup, Runs
    <2>4. Contract!Disconnect(lost, "lost")
        BY <2>1, <2>2, <2>3 DEF Contract!Disconnect, Status, StatusOf, Runs
    <2>5. "lost" \in (Answers \cup {"lost"}) \ {"ok"}
        OBVIOUS
    <2> QED
        BY <2>1, <2>4, <2>5 DEF Contract!ContractNext
<1>6. ASSUME NEW i \in Ids, Requests(i) \/ Enters(i) \/ \E k \in Answers : Settles(i, k)
      PROVE  Contract!ContractNext
    <2>1. CASE Requests(i) \/ Enters(i)
        BY <1>2, <1>3, <2>1, MineAre DEF Contract!ContractNext
    <2>2. ASSUME NEW k \in Answers, Settles(i, k) PROVE Contract!ContractNext
        <3>1. Contract!Settle(Mine(i), k) /\ Mine(i) \in Calls /\ k \in Answers \cup {"lost"}
            BY <1>4, <2>2, MineAre
        <3> QED
            BY <3>1 DEF Contract!ContractNext
    <2> QED
        BY <1>6, <2>1, <2>2
<1> QED
    BY <1>1, <1>5, <1>6, NextSeen

(* As long as only the core makes calls, two connections and the supervisor   *)
(* between them keep the contract of one: the handler of a call is entered at *)
(* most once and only if the call was made, "ok" means that it was entered,   *)
(* and a call ends once, with a result that nothing that is still under way   *)
(* changes.                                                                   *)
THEOREM RelayKeepsContract == ASSUME OnlyCoreAsks PROVE Spec => RelayImplementsContract
<1>1. Init => Contract!ContractInit
    BY DEF Init, Each, Contract!ContractInit
<1>2. WayInv /\ [Next]_vars => [Contract!ContractNext]_(Contract!contractVars)
    BY RelayContractStep
<1> QED
    BY <1>1, <1>2, WayAlways, PTL DEF Spec, RelayImplementsContract, Contract!ContractSpec
=============================================================================
