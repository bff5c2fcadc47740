---------------------------- MODULE LifecycleProofs ----------------------------
(* What is proved of a worker's way from start to stop: of the handshake, for *)
(* any set of versions, of its runtime, for any number of plugins, and of the *)
(* supervisor that starts it, for any number of workers and capabilities,     *)
(* whichever of them are lost; and of the environments the workers run in,    *)
(* whatever uv cannot solve and whenever it is killed.                        *)
EXTENDS Lifecycle, FiniteSetTheorems, WellFoundedInduction, TLAPS

-----------------------------------------------------------------------------
(* Handshake. *)

(* A set of numbers that are bounded has a greatest one.                      *)
LEMMA Greatest ==
    ASSUME NEW m \in Nat, NEW S \in SUBSET (0..m), S # {}
    PROVE  \E c \in S : \A d \in S : d <= c
<1> DEFINE from == {c..m : c \in S}
<1>1. IsFiniteSet(0..m)
    BY FS_Interval
<1>2. IsWellFoundedOn(StrictSubsetOrdering(0..m), SUBSET (0..m))
    BY <1>1, FS_StrictSubsetOrderingWellFounded, FS_FiniteSubsetsOfFinite
<1>3. from \subseteq SUBSET (0..m) /\ from # {}
    <2>1. \A c \in S : c..m \subseteq 0..m
        OBVIOUS
    <2>2. PICK c \in S : TRUE
        OBVIOUS
    <2>3. c..m \in from
        BY <2>2
    <2> QED
        BY <2>1, <2>3
<1>4. PICK least \in from :
          \A ids \in from : ~(<<ids, least>> \in StrictSubsetOrdering(0..m))
    BY <1>2, <1>3, WFMin
<1>5. PICK c \in S : least = c..m
    OBVIOUS
<1>6. ASSUME NEW d \in S, c < d PROVE FALSE
    <2>1. d..m \subseteq c..m /\ c \in c..m /\ c \notin d..m
        BY <1>6
    <2>2. c..m \in SUBSET (0..m) /\ d..m \in SUBSET (0..m) /\ d..m # c..m
        BY <2>1
    <2>3. <<d..m, c..m>> \in StrictSubsetOrdering(0..m)
        BY <2>1, <2>2 DEF StrictSubsetOrdering
    <2> QED
        BY <1>4, <1>5, <2>3
<1> QED
    BY <1>6

(* Of the versions both ends know within what was asked there is a best one,  *)
(* however many there are: none is above the one that was asked.              *)
LEMMA BestIsCommon ==
    ASSUME NEW requested \in AllVersions, NEW remote \in SUBSET AllVersions,
           NEW local \in SUBSET AllVersions,
           CommonVersions(requested, remote, local) # {}
    PROVE  \E v \in CommonVersions(requested, remote, local) :
               \A w \in CommonVersions(requested, remote, local) : ~Above(w, v)
<1>1. PICK C \in SUBSET Versions : C = CommonVersions(requested, remote, local)
    BY DEF CommonVersions, AllVersions
<1>2. /\ requested \in Versions /\ requested[1] \in Nat /\ requested[2] \in Nat
      /\ \A v \in C : /\ v[1] = requested[1] /\ v[2] \in Nat
                      /\ ~Above(v, requested)
    <2>1. requested \in Versions
        BY DEF CommonVersions, AllVersions
    <2>2. \A v \in C : v[1] = requested[1] /\ ~Above(v, requested)
        BY <1>1 DEF CommonVersions
    <2>3. \A v \in Versions : v[1] \in Nat /\ v[2] \in Nat
        BY HandshakeAssumption
    <2> QED
        BY <2>1, <2>2, <2>3
<1>3. PICK m \in Nat : m = requested[2]
    BY <1>2
<1>4. PICK S \in SUBSET (0..m) : S = {v[2] : v \in C}
    <2>1. \A v \in C : v[2] \in 0..m
        <3> SUFFICES ASSUME NEW v \in C PROVE v[2] \in 0..m
            OBVIOUS
        <3>1. v[1] = requested[1] /\ v[2] \in Nat /\ ~Above(v, requested)
            BY <1>2
        <3>2. ~(v[2] > m)
            BY <1>3, <3>1 DEF Above
        <3> QED
            BY <3>1, <3>2
    <2> QED
        BY <2>1
<1>5. S # {}
    BY <1>1, <1>4
<1>6. PICK top \in S : \A d \in S : d <= top
    BY <1>5, Greatest
<1>7. PICK v \in C : v[2] = top
    BY <1>4, <1>6
<1>8. ASSUME NEW w \in C PROVE ~Above(w, v)
    <2>1. w[2] \in S /\ w[2] <= v[2]
        BY <1>4, <1>6, <1>7
    <2> QED
        BY <1>2, <2>1 DEF Above
<1> QED
    BY <1>1, <1>8

(* What _select_negotiated_protocol_version returns.                          *)
LEMMA Selected ==
    ASSUME NEW requested \in AllVersions, NEW remote \in SUBSET AllVersions,
           NEW local \in SUBSET AllVersions, NEW v, requested \in remote,
           v = Select(requested, remote, local), v # NoVersion
    PROVE  /\ v \in remote \cap local
           /\ v # requested =>
                 /\ requested \notin local /\ ~Above(v, requested)
                 /\ \A w \in (remote \cap local) \cap Versions :
                       w[1] = requested[1] /\ Above(w, v) => Above(w, requested)
<1>1. CASE requested \in local
    BY <1>1 DEF Select
<1>2. CASE requested \notin local
    <2>1. PICK C : C = CommonVersions(requested, remote, local)
        OBVIOUS
    <2>2. /\ C # {} /\ v = CHOOSE u \in C : \A w \in C : ~Above(w, u)
        BY <1>2, <2>1 DEF Select
    <2>3. v \in C /\ \A w \in C : ~Above(w, v)
        BY <2>1, <2>2, BestIsCommon
    <2>4. v \in remote \cap local /\ ~Above(v, requested) /\ requested # OddVersion
        BY <2>1, <2>3 DEF CommonVersions
    <2>5. ASSUME NEW w \in (remote \cap local) \cap Versions,
                 w[1] = requested[1], Above(w, v)
          PROVE  Above(w, requested)
        <3>1. w \notin C
            BY <2>3, <2>5
        <3> QED
            BY <2>1, <2>4, <2>5, <3>1, HandshakeAssumption DEF CommonVersions
    <2> QED
        BY <1>2, <2>4, <2>5
<1> QED
    BY <1>1, <1>2

(* What the server selected stands from then on, and nothing else is on its   *)
(* way to the client.                                                         *)
Negotiated ==
    /\ asked \in knows["client"]
    /\ agreed["server"] \in {NoVersion, Select(asked, knows["client"], knows["server"])}
    /\ server \in {"handling", "initialized"} => agreed["server"] # NoVersion
    /\ server = "new" => agreed["server"] = NoVersion
    /\ owner = "ready" => server = "initialized"
    /\ reply \in {NoVersion, Rejected, agreed["server"]}
    /\ reply \notin {NoVersion, Rejected} => server = "initialized"
    /\ agreed["client"] \in {NoVersion, agreed["server"]}
    /\ client = "initialized" => server = "initialized" /\ agreed["client"] = agreed["server"]

HandshakeInv == HandshakeTypeOK /\ Negotiated

LEMMA HandshakeInitEstablishes == HandshakeInit => HandshakeInv
    BY DEF HandshakeInit, HandshakeInv, HandshakeTypeOK, Negotiated, Ends, AllVersions

LEMMA SelectKnown ==
    ASSUME HandshakeInv
    PROVE  Select(asked, knows["client"], knows["server"]) \in AllVersions \cup {NoVersion}
<1>1. PICK v : v = Select(asked, knows["client"], knows["server"])
    OBVIOUS
<1>2. /\ asked \in AllVersions /\ asked \in knows["client"]
      /\ knows["client"] \in SUBSET AllVersions /\ knows["server"] \in SUBSET AllVersions
    BY DEF HandshakeInv, HandshakeTypeOK, Negotiated, Ends
<1> QED
    BY <1>1, <1>2, Selected

(* The steps that send or read a frame.                                       *)
LEMMA ServerReadsAgrees == HandshakeInv /\ ServerReads => HandshakeInv'
<1> SUFFICES ASSUME HandshakeInv, ServerReads PROVE HandshakeInv'
    OBVIOUS
<1>1. PICK v \in AllVersions \cup {NoVersion} :
          v = Select(asked, knows["client"], knows["server"])
    BY SelectKnown
<1>2. /\ server = "new" /\ request' = FALSE /\ UNCHANGED <<setup, client, owner>>
      /\ agreed["server"] = NoVersion /\ agreed["client"] = NoVersion
      /\ reply \in {NoVersion, Rejected} /\ client # "initialized" /\ owner # "ready"
    BY DEF ServerReads, HandshakeInv, Negotiated
<1>3. \/ /\ server' = "unusable" /\ open' = FALSE
         /\ reply' \in {reply, NoVersion, Rejected} /\ agreed' = agreed
      \/ /\ server' = "handling" /\ agreed' = [agreed EXCEPT !["server"] = v] /\ v # NoVersion
         /\ reply' = reply /\ open' = open
    BY <1>1 DEF ServerReads, ServerFails, Replied
<1>4. HandshakeTypeOK'
    BY <1>2, <1>3 DEF HandshakeInv, HandshakeTypeOK, Ends, setup
<1>5. Negotiated'
    <2>1. CASE server' = "unusable" /\ agreed' = agreed /\ reply' \in {reply, NoVersion, Rejected}
        BY <1>2, <2>1 DEF HandshakeInv, Negotiated, setup
    <2>2. CASE /\ server' = "handling" /\ agreed' = [agreed EXCEPT !["server"] = v]
               /\ v # NoVersion /\ reply' = reply
        <3>1. agreed'["server"] = v /\ agreed'["client"] = NoVersion
            BY <1>2, <2>2 DEF HandshakeInv, HandshakeTypeOK, Ends
        <3> QED
            BY <1>1, <1>2, <2>2, <3>1 DEF HandshakeInv, Negotiated, setup
    <2> QED
        BY <1>3, <2>1, <2>2
<1> QED
    BY <1>4, <1>5 DEF HandshakeInv

LEMMA HandlerAnswersAgrees == HandshakeInv /\ HandlerAnswers => HandshakeInv'
<1> SUFFICES ASSUME HandshakeInv, HandlerAnswers PROVE HandshakeInv'
    OBVIOUS
<1>1. /\ server = "handling" /\ UNCHANGED <<setup, client, agreed, owner, request>>
      /\ agreed["server"] \in AllVersions \cup {NoVersion}
    BY DEF HandlerAnswers, HandshakeInv, HandshakeTypeOK, Ends
<1>2. \/ server' = "initialized" /\ reply' \in {agreed["server"], NoVersion} /\ open' = open
      \/ server' = "unusable" /\ reply' \in {reply, NoVersion, Rejected} /\ open' = FALSE
    BY DEF HandlerAnswers, ServerFails, Replied
<1>3. HandshakeTypeOK'
    BY <1>1, <1>2 DEF HandshakeInv, HandshakeTypeOK, setup
<1>4. Negotiated'
    BY <1>1, <1>2 DEF HandshakeInv, Negotiated, setup
<1> QED
    BY <1>3, <1>4 DEF HandshakeInv

LEMMA ClientReadsAgrees == HandshakeInv /\ ClientReads => HandshakeInv'
<1> SUFFICES ASSUME HandshakeInv, ClientReads PROVE HandshakeInv'
    OBVIOUS
<1>1. /\ reply # NoVersion /\ reply' = NoVersion /\ UNCHANGED <<setup, server, owner, request>>
      /\ Rejected \notin knows["client"]
    BY HandshakeAssumption DEF ClientReads, HandshakeInv, HandshakeTypeOK, Ends
<1>2. \/ /\ client' = "initialized" /\ agreed' = [agreed EXCEPT !["client"] = reply]
         /\ reply = agreed["server"] /\ server = "initialized" /\ open' = open
      \/ client' = "refused" /\ agreed' = agreed /\ open' = FALSE
    BY <1>1 DEF ClientReads, HandshakeInv, Negotiated
<1>3. HandshakeTypeOK'
    <2>1. reply \in AllVersions \cup {Rejected, NoVersion} /\ agreed["server"] \in AllVersions \cup {NoVersion}
        BY DEF HandshakeInv, HandshakeTypeOK, Ends
    <2> QED
        BY <1>1, <1>2, <2>1 DEF HandshakeInv, HandshakeTypeOK, setup
<1>4. Negotiated'
    <2>1. CASE /\ client' = "initialized" /\ agreed' = [agreed EXCEPT !["client"] = reply]
               /\ reply = agreed["server"] /\ server = "initialized"
        <3>1. agreed'["client"] = agreed["server"] /\ agreed'["server"] = agreed["server"]
            BY <2>1 DEF HandshakeInv, HandshakeTypeOK, Ends
        <3> QED
            BY <1>1, <2>1, <3>1 DEF HandshakeInv, Negotiated, setup
    <2>2. CASE client' = "refused" /\ agreed' = agreed
        BY <1>1, <2>2 DEF HandshakeInv, Negotiated, setup
    <2> QED
        BY <1>2, <2>1, <2>2
<1> QED
    BY <1>3, <1>4 DEF HandshakeInv

LEMMA HandshakeNextAgrees == HandshakeInv /\ [HandshakeNext]_handshakeVars => HandshakeInv'
<1> SUFFICES ASSUME HandshakeInv, [HandshakeNext]_handshakeVars PROVE HandshakeInv'
    OBVIOUS
<1>1. CASE ClientAsks
    BY <1>1 DEF ClientAsks, HandshakeInv, HandshakeTypeOK, Negotiated, setup
<1>2. CASE ClientCutOff
    BY <1>2 DEF ClientCutOff, HandshakeInv, HandshakeTypeOK, Negotiated, setup
<1>3. CASE ConnectionLost
    <2>1. /\ request' \in {request, FALSE} /\ reply' \in {reply, NoVersion} /\ open' = FALSE
          /\ UNCHANGED <<setup, client, server, agreed, owner>>
        BY <1>3 DEF ConnectionLost
    <2>2. HandshakeTypeOK'
        BY <2>1 DEF HandshakeInv, HandshakeTypeOK, setup
    <2>3. Negotiated'
        BY <2>1 DEF HandshakeInv, Negotiated, setup
    <2> QED
        BY <2>2, <2>3 DEF HandshakeInv
<1>4. CASE OwnerWakes
    <2>1. /\ owner' \in {"ready", "closed", "timeout"} /\ open' \in {open, FALSE}
          /\ owner' = "ready" => server = "initialized"
          /\ UNCHANGED <<setup, client, server, agreed, request, reply>>
        BY <1>4 DEF OwnerWakes
    <2>2. HandshakeTypeOK'
        BY <2>1 DEF HandshakeInv, HandshakeTypeOK, setup
    <2>3. Negotiated'
        BY <2>1 DEF HandshakeInv, Negotiated, setup
    <2> QED
        BY <2>2, <2>3 DEF HandshakeInv
<1>5. CASE UNCHANGED handshakeVars
    BY <1>5 DEF handshakeVars, HandshakeInv, HandshakeTypeOK, Negotiated
<1> QED
    BY <1>1, <1>2, <1>3, <1>4, <1>5, ServerReadsAgrees, HandlerAnswersAgrees,
       ClientReadsAgrees DEF HandshakeNext

LEMMA HandshakeInvHolds == HandshakeSpec => []HandshakeInv
    BY HandshakeInitEstablishes, HandshakeNextAgrees, PTL DEF HandshakeSpec

(* The types of the exchange, for any set of versions: a peer agrees to a     *)
(* version somebody can name or to none.                                      *)
THEOREM HandshakeTyped == HandshakeSpec => []HandshakeTypeOK
    BY HandshakeInvHolds, PTL DEF HandshakeInv

(* Whatever versions the two ends know, however many, and whenever the        *)
(* connection breaks: an owner or a client that goes on agreed to the same,   *)
(* best version both know, which the client reads off the one answer that     *)
(* _handle_initialize gives.                                                  *)
THEOREM EndsAgree == HandshakeSpec => []BothAgree
<1>1. ASSUME HandshakeInv PROVE BothAgree
    <2>1. /\ owner = "ready" => agreed["server"] # NoVersion
          /\ client = "initialized" => agreed["client"] = agreed["server"]
        BY <1>1 DEF HandshakeInv, Negotiated
    <2>2. ASSUME NEW e \in Ends, NEW v, v = agreed[e], v # NoVersion
          PROVE  /\ v \in knows["client"] \cap knows["server"]
                 /\ v # asked =>
                       /\ asked \notin knows["server"] /\ ~Above(v, asked)
                       /\ \A w \in (knows["client"] \cap knows["server"]) \cap Versions :
                             w[1] = asked[1] /\ Above(w, v) => Above(w, asked)
        <3>1. v = Select(asked, knows["client"], knows["server"])
            BY <1>1, <2>2 DEF HandshakeInv, Negotiated, Ends
        <3>2. /\ asked \in AllVersions /\ asked \in knows["client"]
              /\ knows["client"] \in SUBSET AllVersions
              /\ knows["server"] \in SUBSET AllVersions
            BY <1>1 DEF HandshakeInv, HandshakeTypeOK, Negotiated, Ends
        <3> QED
            BY <2>2, <3>1, <3>2, Selected
    <2> QED
        BY <2>1, <2>2 DEF BothAgree
<1> QED
    BY <1>1, HandshakeInvHolds, PTL

(* Its request is made once, and read before it is answered.                  *)
Requested == client = "new" => server = "new" /\ ~request
HandshakeGoesOn == Requested /\ InitializeIsUnderWay

LEMMA GoesOnNext ==
    HandshakeInv /\ HandshakeGoesOn /\ [HandshakeNext]_handshakeVars => HandshakeGoesOn'
<1> SUFFICES ASSUME HandshakeInv, HandshakeGoesOn, [HandshakeNext]_handshakeVars
             PROVE  HandshakeGoesOn'
    OBVIOUS
<1> USE DEF HandshakeGoesOn, Requested, InitializeIsUnderWay
<1>1. CASE ClientAsks
    BY <1>1 DEF ClientAsks
<1>2. CASE ServerReads
    BY <1>2 DEF ServerReads, ServerFails
<1>3. CASE HandlerAnswers
    <2>1. agreed["server"] # NoVersion
        BY <1>3 DEF HandlerAnswers, HandshakeInv, Negotiated
    <2> QED
        BY <1>3, <2>1 DEF HandlerAnswers, ServerFails, Replied
<1>4. CASE ClientReads \/ ClientCutOff
    BY <1>4 DEF ClientReads, ClientCutOff
<1>6. CASE ConnectionLost
    <2>1. /\ UNCHANGED <<client, server>> /\ open' = FALSE
          /\ request' = request \/ request' = FALSE
        BY <1>6, Zenon DEF ConnectionLost
    <2> QED
        BY <2>1
<1>7. CASE OwnerWakes
    <2>1. UNCHANGED <<client, server, request, reply>> /\ (open' = open \/ ~open')
        BY <1>7, Zenon DEF OwnerWakes
    <2> QED
        BY <2>1
<1>5. CASE UNCHANGED handshakeVars
    BY <1>5 DEF handshakeVars
<1> QED
    BY <1>1, <1>2, <1>3, <1>4, <1>5, <1>6, <1>7 DEF HandshakeNext

(* initialize() has no time limit of its own: whatever the server does with   *)
(* the request, something is left that ends the wait.                         *)
THEOREM InitializeGoesOn == HandshakeSpec => []InitializeIsUnderWay
<1>1. HandshakeInit => HandshakeGoesOn
    BY DEF HandshakeInit, HandshakeGoesOn, Requested, InitializeIsUnderWay
<1>2. HandshakeSpec => []HandshakeGoesOn
    BY <1>1, GoesOnNext, HandshakeInvHolds, PTL DEF HandshakeSpec
<1>3. HandshakeGoesOn => InitializeIsUnderWay
    BY DEF HandshakeGoesOn
<1> QED
    BY <1>2, <1>3, PTL

-----------------------------------------------------------------------------
(* Worker: sequences of plugins. *)

(* Induction over the numbers, told with a set.                               *)
LEMMA UpTo ==
    ASSUME NEW S, 0 \in S, \A n \in Nat : n \in S => n + 1 \in S, NEW m \in Nat
    PROVE  m \in S
<1> SUFFICES ASSUME m \notin S PROVE FALSE
    OBVIOUS
<1>1. PICK G \in SUBSET (0..m) : G = {n \in 0..m : n \in S}
    OBVIOUS
<1> DEFINE K == {k \in 0..m : k \notin S}
           back == {m - k : k \in K}
<1>2. back \in SUBSET (0..m) /\ back # {}
    <2>1. m \in K
        OBVIOUS
    <2>2. m - m \in back
        BY <2>1
    <2>3. \A k \in K : m - k \in 0..m
        OBVIOUS
    <2> QED
        BY <2>2, <2>3
<1>3. PICK c \in back : \A d \in back : d <= c
    BY <1>2, Greatest
<1>4. PICK k \in K : c = m - k
    BY <1>3
<1>5. k # 0 /\ k - 1 \in Nat /\ k - 1 \in 0..m
    BY <1>4
<1>6. CASE k - 1 \in S
    <2>1. k - 1 + 1 \in S
        BY <1>5, <1>6
    <2>2. k - 1 + 1 = k
        BY <1>5
    <2> QED
        BY <2>1, <2>2, <1>4
<1>7. CASE k - 1 \notin S
    <2>1. m - (k - 1) \in back
        BY <1>5, <1>7
    <2>2. m - (k - 1) <= m - k
        BY <1>3, <1>4, <2>1
    <2> QED
        BY <1>5, <2>2
<1> QED
    BY <1>6, <1>7

IsOrdered(s) == \A m, n \in DOMAIN s : m < n => s[m] < s[n]

(* Every set of plugins has its order.                                        *)
LEMMA HasOrder ==
    ASSUME NEW stars \in SUBSET Stars
    PROVE  \E s \in [1..Cardinality(stars) -> stars] : IsOrdered(s)
<1> DEFINE Fine(S) == \E s \in [1..Cardinality(S) -> S] : IsOrdered(s)
           Done == {n \in Nat : \A S \in SUBSET (1..n) : Fine(S)}
<1>1. 0 \in Done
    <2>1. ASSUME NEW S \in SUBSET (1..0) PROVE Fine(S)
        <3>1. S = {} /\ Cardinality(S) = 0
            <4>1. S = {}
                OBVIOUS
            <4> QED
                BY <4>1, FS_EmptySet
        <3>2. PICK s : s = [k \in 1..0 |-> k]
            OBVIOUS
        <3>3. s \in [1..0 -> S] /\ DOMAIN s = {}
            BY <3>2
        <3> QED
            BY <3>1, <3>3 DEF IsOrdered
    <2> QED
        BY <2>1
<1>2. ASSUME NEW n \in Nat, n \in Done PROVE n + 1 \in Done
    <2>0. PICK m \in Nat : m = n + 1
        OBVIOUS
    <2>1. ASSUME NEW S \in SUBSET (1..m) PROVE Fine(S)
        <3>1. CASE m \notin S
            <4>1. S \in SUBSET (1..n)
                BY <2>0, <3>1
            <4> QED
                BY <1>2, <4>1
        <3>2. CASE m \in S
            <4>1. PICK R : R = S \ {m}
                OBVIOUS
            <4>2. R \in SUBSET (1..n) /\ R \in SUBSET S
                BY <2>0, <4>1
            <4>3. Cardinality(R) \in Nat /\ Cardinality(S) = Cardinality(R) + 1
                <5>1. IsFiniteSet(1..n)
                    BY FS_Interval
                <5>2. IsFiniteSet(R)
                    BY <4>2, <5>1, FS_Subset
                <5>3. S = R \cup {m} /\ m \notin R
                    BY <3>2, <4>1
                <5> QED
                    BY <5>2, <5>3, FS_AddElement, FS_CardinalityType
            <4>4. PICK c \in Nat, d \in Nat :
                      c = Cardinality(R) /\ d = Cardinality(S) /\ d = c + 1
                BY <4>3
            <4>5. PICK s \in [1..c -> R] : IsOrdered(s)
                BY <1>2, <4>2, <4>4
            <4>6. PICK t : t = [k \in 1..d |-> IF k = d THEN m ELSE s[k]]
                OBVIOUS
            <4>7. \A k \in 1..d : k # d => k \in 1..c
                BY <4>4
            <4>8. t \in [1..d -> S]
                BY <3>2, <4>2, <4>5, <4>6, <4>7
            <4>9. IsOrdered(t)
                <5> SUFFICES ASSUME NEW j \in 1..d, NEW k \in 1..d, j < k
                             PROVE  t[j] < t[k]
                    BY <4>6 DEF IsOrdered
                <5>0. j \in 1..c /\ j # d
                    BY <4>4
                <5>1. j \in 1..c /\ t[j] = s[j] /\ s[j] \in 1..n
                    <6>1. s[j] \in R /\ s[j] \in 1..n
                        BY <4>2, <5>0
                    <6> QED
                        BY <4>6, <5>0, <6>1
                <5>2. CASE k = d
                    BY <2>0, <4>6, <5>1, <5>2
                <5>3. CASE k # d
                    <6>1. k \in 1..c /\ t[k] = s[k]
                        BY <4>6, <4>7, <5>3
                    <6>2. \A a, b \in 1..c : a < b => s[a] < s[b]
                        BY <4>5 DEF IsOrdered
                    <6>3. s[j] < s[k]
                        BY <5>1, <6>1, <6>2
                    <6> QED
                        BY <5>1, <6>1, <6>3
                <5> QED
                    BY <5>2, <5>3
            <4> QED
                BY <4>4, <4>8, <4>9
        <3> QED
            BY <3>1, <3>2
    <2> HIDE DEF Fine
    <2> QED
        BY <2>0, <2>1
<1> HIDE DEF Done
<1>3. Len(Parts) \in Done
    BY <1>1, <1>2, UpTo, WorkerAssumption
<1> QED
    BY <1>3 DEF Done, Stars

(* What a sequence holds.                                                     *)
Held(s) == {s[n] : n \in DOMAIN s}

LEMMA InOrderHolds ==
    ASSUME NEW stars \in SUBSET Stars
    PROVE  /\ InOrder(stars) \in Seq(Stars) /\ IsInjective(InOrder(stars))
           /\ Held(InOrder(stars)) = stars
<1>0. IsFiniteSet(stars)
    <2>1. IsFiniteSet(1..Len(Parts))
        BY FS_Interval, WorkerAssumption
    <2> QED
        BY <2>1, FS_Subset DEF Stars
<1>1. PICK c \in Nat : c = Cardinality(stars)
    BY <1>0, FS_CardinalityType
<1>2. PICK s \in [1..c -> stars] : s = InOrder(stars) /\ IsOrdered(s)
    BY <1>1, HasOrder DEF InOrder, IsOrdered
<1>3. s \in Seq(Stars) /\ DOMAIN s = 1..c
    BY <1>2
<1>4. IsInjective(s)
    <2> SUFFICES ASSUME NEW m \in 1..c, NEW n \in 1..c, s[m] = s[n], m # n PROVE FALSE
        BY <1>3 DEF IsInjective
    <2>1. s[m] \in 1..Len(Parts)
        <3>1. s[m] \in stars
            BY <1>2
        <3> QED
            BY <3>1 DEF Stars
    <2>2. m < n => s[m] < s[n]
        BY <1>2 DEF IsOrdered
    <2>3. n < m => s[n] < s[m]
        BY <1>2 DEF IsOrdered
    <2> QED
        BY <2>1, <2>2, <2>3, WorkerAssumption
<1>5. stars \subseteq Held(s)
    <2>2. s \in Injection(1..c, stars)
        BY <1>2, <1>3, <1>4 DEF Injection
    <2>3. IsFiniteSet(1..c) /\ Cardinality(1..c) = c
        BY FS_Interval
    <2>4. s \in Surjection(1..c, stars)
        BY <1>0, <1>1, <2>2, <2>3, FS_Injection
    <2> QED
        BY <1>3, <2>4 DEF Surjection, Held
<1> QED
    BY <1>2, <1>3, <1>4, <1>5 DEF Held

LEMMA ReverseHolds ==
    ASSUME NEW s \in Seq(Stars), IsInjective(s)
    PROVE  /\ Reverse(s) \in Seq(Stars) /\ IsInjective(Reverse(s))
           /\ Held(Reverse(s)) = Held(s)
<1>1. PICK m \in Nat : m = Len(s) /\ DOMAIN s = 1..m /\ \A n \in 1..m : s[n] \in Stars
    OBVIOUS
<1>2. PICK t : t = Reverse(s)
    OBVIOUS
<1>3. t = [n \in 1..m |-> s[(m - n) + 1]]
    BY <1>1, <1>2 DEF Reverse
<1>4. \A n \in 1..m : (m - n) + 1 \in 1..m /\ t[n] = s[(m - n) + 1]
    BY <1>3
<1>5. t \in Seq(Stars) /\ DOMAIN t = 1..m
    <2>1. t \in [1..m -> Stars]
        BY <1>1, <1>3, <1>4
    <2> QED
        BY <2>1
<1>6. IsInjective(t)
    <2> SUFFICES ASSUME NEW a \in 1..m, NEW b \in 1..m, t[a] = t[b] PROVE a = b
        BY <1>5 DEF IsInjective
    <2>1. PICK j, k : j = (m - a) + 1 /\ k = (m - b) + 1
        OBVIOUS
    <2>2. j \in DOMAIN s /\ k \in DOMAIN s /\ s[j] = s[k]
        BY <1>1, <1>4, <2>1
    <2>3. j = k
        BY <2>2 DEF IsInjective
    <2> QED
        BY <2>1, <2>3
<1>7. Held(t) = Held(s)
    <2>1. ASSUME NEW n \in 1..m PROVE s[n] \in Held(t) /\ t[n] \in Held(s)
        <3>1. PICK k \in 1..m : k = (m - n) + 1 /\ n = (m - k) + 1
            BY <1>4
        <3>2. t[k] = s[n] /\ t[n] = s[k]
            BY <1>4, <3>1
        <3> QED
            BY <1>1, <1>5, <3>2 DEF Held
    <2> QED
        BY <1>1, <1>5, <2>1 DEF Held
<1> QED
    BY <1>2, <1>5, <1>6, <1>7

LEMMA TailHolds ==
    ASSUME NEW s \in Seq(Stars), IsInjective(s), s # <<>>
    PROVE  /\ Tail(s) \in Seq(Stars) /\ IsInjective(Tail(s)) /\ Head(s) \in Held(s)
           /\ Held(Tail(s)) = Held(s) \ {Head(s)}
<1>1. /\ Head(s) = s[1] /\ 1 \in DOMAIN s /\ Tail(s) \in Seq(Stars)
      /\ \A k \in DOMAIN Tail(s) : k \in Nat /\ k # 0 /\ k + 1 \in DOMAIN s /\ Tail(s)[k] = s[k + 1]
      /\ \A k \in DOMAIN s : k # 1 => k - 1 \in DOMAIN Tail(s) /\ Tail(s)[k - 1] = s[k]
    OBVIOUS
<1>2. IsInjective(Tail(s))
    <2> SUFFICES ASSUME NEW a \in DOMAIN Tail(s), NEW b \in DOMAIN Tail(s), Tail(s)[a] = Tail(s)[b]
                 PROVE  a = b
        BY DEF IsInjective
    <2>1. PICK j, k : j = a + 1 /\ k = b + 1
        OBVIOUS
    <2>2. j \in DOMAIN s /\ k \in DOMAIN s /\ s[j] = s[k]
        BY <1>1, <2>1
    <2>3. j = k
        BY <2>2 DEF IsInjective
    <2> QED
        BY <1>1, <2>1, <2>3
<1>3. Held(Tail(s)) \subseteq Held(s) \ {Head(s)}
    <2> SUFFICES ASSUME NEW k \in DOMAIN Tail(s) PROVE Tail(s)[k] \in Held(s) \ {Head(s)}
        BY DEF Held
    <2>1. PICK j : j = k + 1 /\ j \in DOMAIN s /\ j # 1 /\ Tail(s)[k] = s[j]
        BY <1>1
    <2>2. s[j] # s[1]
        BY <1>1, <2>1 DEF IsInjective
    <2> QED
        BY <1>1, <2>1, <2>2 DEF Held
<1>4. Held(s) \ {Head(s)} \subseteq Held(Tail(s))
    <2> SUFFICES ASSUME NEW k \in DOMAIN s, s[k] # Head(s) PROVE s[k] \in Held(Tail(s))
        BY DEF Held
    <2>1. PICK j : j = k - 1 /\ j \in DOMAIN Tail(s) /\ Tail(s)[j] = s[k]
        BY <1>1
    <2> QED
        BY <2>1 DEF Held
<1> QED
    BY <1>1, <1>2, <1>3, <1>4 DEF Held

(* The sequence in which active plugins are started or stopped.               *)
LEMMA StoppingOrder ==
    ASSUME NEW stars \in SUBSET Stars
    PROVE  /\ Reverse(InOrder(stars)) \in Seq(Stars)
           /\ IsInjective(Reverse(InOrder(stars)))
           /\ Held(Reverse(InOrder(stars))) = stars
    BY InOrderHolds, ReverseHolds

LEMMA NoneLeft == <<>> \in Seq(Stars) /\ IsInjective(<<>>) /\ Held(<<>>) = {}
    BY DEF IsInjective, Held

-----------------------------------------------------------------------------
(* Worker, for any number of plugins with any instances, and whichever of     *)
(* them fail. *)

LEMMA PartsAre ==
    /\ Len(Parts) \in Nat
    /\ \A p \in Stars : Len(Parts[p]) \in Nat /\ Len(Parts[p]) > 0
    /\ \A p \in Stars : \A n \in 1..Len(Parts[p]) : <<p, n>> \in Instances
    /\ \A i \in Instances : /\ i[1] \in Stars /\ i[2] \in 1..Len(Parts[i[1]])
                            /\ i = <<i[1], i[2]>> /\ Uses(i) \subseteq Kinds
<1>1. Len(Parts) \in Nat /\ \A p \in Stars : Parts[p] \in Seq(SUBSET Kinds) /\ Parts[p] # <<>>
    BY WorkerAssumption DEF Stars
<1>2. \A p \in Stars : Len(Parts[p]) \in Nat /\ Len(Parts[p]) > 0
    BY <1>1
<1>3. \A p \in Stars : \A n \in 1..Len(Parts[p]) : <<p, n>> \in Instances
    BY DEF Instances
<1>4. ASSUME NEW i \in Instances
      PROVE  /\ i[1] \in Stars /\ i[2] \in 1..Len(Parts[i[1]]) /\ i = <<i[1], i[2]>>
             /\ Uses(i) \subseteq Kinds
    <2>1. PICK p \in Stars : i \in {p} \X (1..Len(Parts[p]))
        BY DEF Instances
    <2>2. i[1] = p /\ i[2] \in 1..Len(Parts[p]) /\ i = <<i[1], i[2]>>
        BY <2>1
    <2>3. Parts[p][i[2]] \in SUBSET Kinds
        BY <1>1, <2>1, <2>2
    <2> QED
        BY <2>2, <2>3 DEF Uses
<1> QED
    BY <1>1, <1>2, <1>3, <1>4

LEMMA StagesAre ==
    /\ Len(StartStages) = 6 /\ Len(StopStages) = 5
    /\ StopStages[1] = "on_stop" /\ StopStages[2] = "hook" /\ StopStages[3] = "task"
    /\ StopStages[4] = "http" /\ StopStages[5] = "skill"
    /\ Kinds = {"http", "skill", "hook", "task"}
    BY DEF StartStages, StopStages, Kinds, Remote, InProcess

Left == Held(remaining)

(* Instances the loop that stops has reached.                                 *)
Visited(i) ==
    \/ i[1] \notin Left
    \/ i[1] = Head(remaining) /\ (i[2] < at \/ (i[2] = at /\ stage > 1))

(* Stopped, with nothing recorded, or left alone for a reason that shows.     *)
GivenUp(i) == PassedOver(i) \/ (stops[i] > 0 /\ (held[i] = {} \/ i \in raised))

(* Who is still to be started or stopped, and who is served.                  *)
InOrderInv ==
    /\ single => active = {1} /\ \A p \in Stars : life[p] # "unloaded" => p = 1
    /\ Left \subseteq active /\ HasStarted \subseteq active
    /\ lifecycle \in {"new", "starting", "initializing"} => published = {}
    /\ lifecycle \in {"new", "starting", "initializing", "running"} => dispatching = active
    /\ published \subseteq dispatching
    /\ lifecycle = "new" => \A p \in active : life[p] = "loaded"
    /\ lifecycle = "starting" => \A p \in active :
          IF p \in Left THEN life[p] = "loaded"
          ELSE life[p] = "started" \/ (life[p] = "failed" /\ ~single)
    /\ lifecycle \in {"initializing", "running"} => \A p \in active : life[p] = "started"
    /\ lifecycle \in {"new", "initializing", "running", "stopped"} => remaining = <<>>

(* on_stop is run once when start() gives up and once by stop().              *)
StopsInv ==
    /\ lifecycle \notin {"undoing", "stopping", "stopped"} => \A i \in Instances : stops[i] = 0
    /\ lifecycle = "undoing" => \A i \in Instances : stops[i] <= IF Visited(i) THEN 1 ELSE 0
    /\ lifecycle = "stopping" => \A i \in Instances : ~Visited(i) => stops[i] <= 1
    /\ lifecycle \in {"stopping", "stopped"} =>
          \A i \in Instances : i[1] \in active \ Left => GivenUp(i)

(* The plugin at hand: what is done of it when its instances are stopped.     *)
HandInv == remaining # <<>> =>
    /\ Instance \in Instances
    /\ lifecycle \in {"undoing", "stopping"} =>
          /\ stage \in 1..5
          /\ \A i \in Instances : i[1] = Head(remaining) /\ i[2] < at =>
                stops[i] > 0 /\ held[i] = {}
          /\ stage > 1 => stops[Instance] > 0
          /\ \A n \in 1..stage - 1 : StopStages[n] \notin held[Instance]
          /\ raising = "error" => Instance \in raised

(* What is recorded for a plugin and what is not, by how its start went.      *)
Recorded(i) ==
    /\ core[i] \subseteq Uses(i) /\ core[i] \cap InProcess \subseteq held[i]
    /\ held[i] # {} =>
          \/ life[i[1]] \in {"started", "failed"}
          \/ lifecycle = "starting" /\ remaining # <<>> /\ i[1] = Head(remaining)

Unrecorded(i) == Untold(i) # {} =>
    /\ \E kind \in Remote : /\ Untold(i) = {kind}
                            /\ life[i[1]] = "failed" \/ (StartingUp(kind) /\ i = Instance)
    /\ \A j \in Instances : j[1] = i[1] /\ Untold(j) # {} => j = i

ReleaseInv == \A i \in Instances : Recorded(i) /\ Unrecorded(i)

WorkerInv == WorkerTypeOK /\ InOrderInv /\ StopsInv /\ HandInv /\ ReleaseInv

LEMMA WorkerInitEstablishes == WorkerInit => WorkerInv
<1> SUFFICES ASSUME WorkerInit PROVE WorkerInv
    OBVIOUS
<1>1. Left = {}
    BY NoneLeft DEF WorkerInit, Left
<1>2. WorkerTypeOK
    <2>1. PICK able \in SUBSET Stars :
              /\ life = [p \in Stars |-> IF p \in able THEN "loaded" ELSE "unloaded"]
              /\ active = able /\ dispatching = able
        BY DEF WorkerInit
    <2>2. life \in [Stars -> {"unloaded", "loaded", "started", "failed"}]
        BY <2>1
    <2>3. /\ stops \in [Instances -> 0..2]
          /\ held \in [Instances -> SUBSET Kinds] /\ core \in [Instances -> SUBSET Kinds]
          /\ lost \in [Instances -> SUBSET Remote]
        BY DEF WorkerInit
    <2>4. /\ single \in BOOLEAN /\ link = TRUE /\ aborted = FALSE /\ lifecycle = "new"
          /\ remaining = <<>> /\ at = 1 /\ stage = 1 /\ raising = "none" /\ raised = {}
          /\ published = {}
        BY DEF WorkerInit
    <2>5. at \in Nat /\ stage \in 1..6 /\ remaining \in Seq(Stars) /\ IsInjective(remaining)
        BY <2>4, NoneLeft
    <2> QED
        BY <2>1, <2>2, <2>3, <2>4, <2>5 DEF WorkerTypeOK
<1>3. InOrderInv
    BY <1>1 DEF WorkerInit, InOrderInv, HasStarted
<1>4. StopsInv /\ HandInv
    BY DEF WorkerInit, StopsInv, HandInv
<1>5. ReleaseInv
    BY DEF WorkerInit, ReleaseInv, Recorded, Unrecorded, Untold
<1> QED
    BY <1>2, <1>3, <1>4, <1>5 DEF WorkerInv

(* The plugin and the instance at hand.                                       *)
LEMMA HandIsThere ==
    ASSUME WorkerInv, remaining # <<>>
    PROVE  /\ Head(remaining) \in Left /\ Head(remaining) \in active /\ active \subseteq Stars
           /\ Tail(remaining) \in Seq(Stars) /\ IsInjective(Tail(remaining))
           /\ Held(Tail(remaining)) = Left \ {Head(remaining)}
           /\ Instance \in Instances /\ Instance[1] = Head(remaining) /\ Instance[2] = at
           /\ at \in 1..Len(Parts[Head(remaining)])
<1>1. /\ Head(remaining) \in Left /\ Head(remaining) \in active /\ active \subseteq Stars
      /\ Tail(remaining) \in Seq(Stars) /\ IsInjective(Tail(remaining))
      /\ Held(Tail(remaining)) = Left \ {Head(remaining)}
    BY TailHolds DEF WorkerInv, WorkerTypeOK, InOrderInv, Left
<1>2. Instance \in Instances /\ Instance[1] = Head(remaining) /\ Instance[2] = at
    BY DEF WorkerInv, HandInv, Instance
<1> QED
    BY <1>1, <1>2, PartsAre

LEMMA NoHand == ASSUME WorkerInv, remaining = <<>> PROVE Left = {}
    BY NoneLeft DEF Left

(* A plugin begins with the first stage of its first instance.                *)
LEMMA FreshHand ==
    ASSUME at' = 1, stage' = 1, raising' = "none", remaining' \in Seq(Stars)
    PROVE  HandInv'
<1>0. \A i \in Instances : ~(i[2] < 1)
    BY PartsAre
<1> SUFFICES ASSUME remaining' # <<>> PROVE Instance' \in Instances
    BY <1>0 DEF HandInv
<1>1. Head(remaining') \in Stars
    OBVIOUS
<1>2. 1 \in 1..Len(Parts[Head(remaining')])
    BY <1>1, PartsAre
<1> QED
    BY <1>1, <1>2, PartsAre DEF Instance

(* A step that records nothing and makes nothing leaves what is recorded in   *)
(* order.                                                                     *)
LEMMA NothingMade ==
    ASSUME WorkerInv,
           \A i \in Instances : /\ core'[i] \subseteq core[i] /\ held'[i] \subseteq held[i]
                                /\ core'[i] \cap InProcess \subseteq held'[i]
                                /\ Untold(i)' \subseteq Untold(i),
           \A p \in Stars : /\ life[p] \in {"started", "failed"} => life'[p] \in {"started", "failed"}
                            /\ life[p] = "failed" => life'[p] = "failed",
           lifecycle = "starting" /\ remaining # <<>> =>
              \/ life'[Head(remaining)] = "failed"
              \/ UNCHANGED <<lifecycle, remaining, at, stage>>
    PROVE  ReleaseInv'
<1> SUFFICES ASSUME NEW i \in Instances PROVE Recorded(i)' /\ Unrecorded(i)'
    BY DEF ReleaseInv
<1>1. Recorded(i) /\ Unrecorded(i) /\ i[1] \in Stars
    BY PartsAre DEF WorkerInv, ReleaseInv
<1>2. Recorded(i)'
    BY <1>1 DEF Recorded
<1>3. ASSUME Untold(i)' # {} PROVE Unrecorded(i)'
    <2>1. PICK kind \in Remote :
              /\ Untold(i) = {kind} /\ Untold(i)' = {kind}
              /\ life[i[1]] = "failed" \/ (StartingUp(kind) /\ i = Instance)
        BY <1>1, <1>3 DEF Unrecorded
    <2>2. life'[i[1]] = "failed" \/ (StartingUp(kind)' /\ i = Instance')
        <3>1. CASE life[i[1]] = "failed"
            BY <1>1, <3>1
        <3>2. CASE StartingUp(kind) /\ i = Instance
            <4>1. i[1] = Head(remaining)
                BY <3>2 DEF Instance
            <4> QED
                BY <3>2, <4>1 DEF StartingUp, Instance
        <3> QED
            BY <2>1, <3>1, <3>2
    <2>3. ASSUME NEW j \in Instances, j[1] = i[1], Untold(j)' # {} PROVE j = i
        <3>1. Untold(j) # {}
            BY <2>3
        <3> QED
            BY <1>1, <2>1, <2>3, <3>1 DEF Unrecorded
    <2> QED
        BY <2>1, <2>2, <2>3 DEF Unrecorded
<1> QED
    BY <1>2, <1>3 DEF Unrecorded

(* stop() begins.                                                             *)
LEMMA BeginsToStop ==
    ASSUME WorkerInv, Stopping, lifecycle \notin {"stopping", "stopped"},
           UNCHANGED <<single, stops, active, dispatching, published>>,
           \A p \in Stars : /\ life'[p] = "started" => life[p] = "started"
                            /\ life'[p] # "unloaded" => life[p] # "unloaded"
    PROVE  /\ lifecycle' = "stopping" /\ at' = 1 /\ stage' = 1 /\ raising' = "none"
           /\ remaining' \in Seq(Stars) /\ IsInjective(remaining') /\ raised' = {}
           /\ InOrderInv' /\ StopsInv' /\ HandInv'
<1>1. /\ lifecycle' = "stopping" /\ at' = 1 /\ stage' = 1 /\ raising' = "none"
      /\ remaining' = Reverse(InOrder(active)) /\ raised' = {} /\ active \subseteq Stars
    BY DEF Stopping, GoOn, WorkerInv, WorkerTypeOK
<1>2. remaining' \in Seq(Stars) /\ IsInjective(remaining') /\ Left' = active
    BY <1>1, StoppingOrder DEF Left
<1>3. HandInv'
    BY <1>1, <1>2, FreshHand
<1>4. InOrderInv'
    <2>1. HasStarted' \subseteq HasStarted
        BY DEF HasStarted
    <2> QED
        BY <1>1, <1>2, <2>1 DEF WorkerInv, InOrderInv
<1>5. StopsInv'
    <2>1. \A i \in Instances : stops[i] <= 1
        BY DEF WorkerInv, WorkerTypeOK, StopsInv
    <2> QED
        BY <1>1, <1>2, <2>1 DEF StopsInv
<1> QED
    BY <1>1, <1>2, <1>3, <1>4, <1>5

LEMMA StartPeerKeeps == WorkerInv /\ StartPeer => WorkerInv'
<1> SUFFICES ASSUME WorkerInv, StartPeer PROVE WorkerInv'
    OBVIOUS
<1>0. /\ lifecycle = "new" /\ link' \in BOOLEAN
      /\ UNCHANGED <<single, life, stops, held, core, active, dispatching, published, lost, aborted>>
    BY DEF StartPeer, WorkerInv, WorkerTypeOK
<1>1. ReleaseInv'
    BY <1>0, NothingMade DEF WorkerInv, ReleaseInv, Recorded, Untold
<1>2. CASE Stopping
    <2>1. /\ lifecycle' = "stopping" /\ at' = 1 /\ stage' = 1 /\ raising' = "none"
          /\ remaining' \in Seq(Stars) /\ IsInjective(remaining') /\ raised' = {}
          /\ InOrderInv' /\ StopsInv' /\ HandInv'
        BY <1>0, <1>2, BeginsToStop
    <2>2. WorkerTypeOK'
        BY <1>0, <2>1 DEF WorkerInv, WorkerTypeOK
    <2> QED
        BY <1>1, <2>1, <2>2 DEF WorkerInv
<1>3. CASE GoOn("starting", InOrder(active)) /\ UNCHANGED raised
    <2>1. /\ lifecycle' = "starting" /\ at' = 1 /\ stage' = 1 /\ raising' = "none"
          /\ remaining' = InOrder(active) /\ active \subseteq Stars
        BY <1>3 DEF GoOn, WorkerInv, WorkerTypeOK
    <2>2. remaining' \in Seq(Stars) /\ IsInjective(remaining') /\ Left' = active
        BY <2>1, InOrderHolds DEF Left
    <2>3. WorkerTypeOK'
        BY <1>0, <1>3, <2>1, <2>2 DEF WorkerInv, WorkerTypeOK
    <2>4. InOrderInv'
        BY <1>0, <2>1, <2>2 DEF WorkerInv, InOrderInv, HasStarted
    <2>5. StopsInv' /\ HandInv'
        BY <1>0, <2>1, <2>2, FreshHand DEF WorkerInv, StopsInv
    <2> QED
        BY <1>1, <2>3, <2>4, <2>5 DEF WorkerInv
<1> QED
    BY <1>2, <1>3 DEF StartPeer

LEMMA CoreRegistersKeeps == ASSUME WorkerInv, NEW kind, CoreRegisters(kind) PROVE WorkerInv'
<1>1. /\ lifecycle = "starting" /\ remaining # <<>> /\ StartingUp(kind) /\ kind \in Remote
      /\ UNCHANGED <<single, lifecycle, remaining, at, stage, raising, life, stops, held, active,
                     dispatching, published, link, raised, lost, aborted>>
    BY DEF CoreRegisters, StartingUp
<1>2. PICK h \in Instances : h = Instance /\ h[1] = Head(remaining) /\ h[1] \in active /\ h[1] \in Left
    BY <1>1, HandIsThere
<1>3. /\ core' = [core EXCEPT ![h] = @ \cup {kind}] /\ kind \in Uses(h) /\ kind \notin core[h]
      /\ life[h[1]] = "loaded" /\ kind \in Kinds
    BY <1>1, <1>2 DEF CoreRegisters, WorkerInv, InOrderInv, Kinds
<1>4. /\ core' \in [Instances -> SUBSET Kinds] /\ core'[h] = core[h] \cup {kind}
      /\ \A i \in Instances \ {h} : core'[i] = core[i]
    BY <1>3 DEF WorkerInv, WorkerTypeOK
<1>5. WorkerTypeOK'
    BY <1>1, <1>4 DEF WorkerInv, WorkerTypeOK
<1>6. InOrderInv' /\ StopsInv' /\ HandInv'
    BY <1>1 DEF WorkerInv, InOrderInv, StopsInv, HandInv, Left, HasStarted, Visited, GivenUp,
                PassedOver, Instance
<1>7. \A i \in Instances : i[1] = h[1] => Untold(i) = {}
    <2> SUFFICES ASSUME NEW i \in Instances, i[1] = h[1], Untold(i) # {} PROVE FALSE
        OBVIOUS
    <2>1. PICK k \in Remote : Untold(i) = {k} /\ StartingUp(k) /\ i = Instance
        BY <1>3 DEF WorkerInv, ReleaseInv, Unrecorded
    <2>2. k = kind
        BY <1>1, <2>1 DEF StartingUp
    <2> QED
        BY <1>2, <1>3, <2>1, <2>2 DEF Untold
<1>8. ReleaseInv'
    <2> SUFFICES ASSUME NEW i \in Instances PROVE Recorded(i)' /\ Unrecorded(i)'
        BY DEF ReleaseInv
    <2>0. Recorded(i) /\ Unrecorded(i)
        BY DEF WorkerInv, ReleaseInv
    <2>1. Recorded(i)'
        <3>1. core'[i] \subseteq Uses(i) /\ core'[i] \cap InProcess \subseteq held[i]
            BY <1>1, <1>3, <1>4, <2>0 DEF Recorded, Remote, InProcess
        <3> QED
            BY <1>1, <2>0, <3>1 DEF Recorded, Uses
    <2>2. \A j \in Instances : j # h => Untold(j)' = Untold(j)
        BY <1>1, <1>4 DEF Untold
    <2>3. CASE i = h
        <3>1. Untold(h)' \subseteq {kind}
            BY <1>1, <1>4, <1>7 DEF Untold
        <3>2. StartingUp(kind)' /\ h = Instance'
            BY <1>1, <1>2 DEF StartingUp, Instance
        <3>3. \A j \in Instances : j[1] = h[1] /\ Untold(j)' # {} => j = h
            BY <1>7, <2>2
        <3> QED
            BY <1>1, <2>1, <2>3, <3>1, <3>2, <3>3 DEF Unrecorded
    <2>4. CASE i # h
        <3>1. Untold(i)' # {} => i[1] # h[1]
            BY <1>7, <2>2, <2>4
        <3>2. ASSUME NEW k PROVE StartingUp(k)' <=> StartingUp(k)
            BY <1>1 DEF StartingUp
        <3>3. Unrecorded(i)'
            <4> SUFFICES ASSUME Untold(i)' # {} PROVE Unrecorded(i)'
                BY DEF Unrecorded
            <4>1. /\ \E k \in Remote : /\ Untold(i)' = {k}
                                       /\ life[i[1]] = "failed" \/ (StartingUp(k) /\ i = Instance)
                  /\ \A j \in Instances : j[1] = i[1] /\ Untold(j) # {} => j = i
                BY <2>0, <2>2, <2>4 DEF Unrecorded
            <4>2. \A j \in Instances : j[1] = i[1] => j # h /\ Untold(j)' = Untold(j)
                BY <2>2, <3>1
            <4>3. Instance' = Instance /\ life' = life
                BY <1>1 DEF Instance
            <4> QED
                BY <3>2, <4>1, <4>2, <4>3 DEF Unrecorded
        <3> QED
            BY <2>1, <3>3
    <2> QED
        BY <2>3, <2>4
<1> QED
    BY <1>5, <1>6, <1>8 DEF WorkerInv

LEMMA StageDoneKeeps == ASSUME WorkerInv, NEW kind, StageDone(kind) PROVE WorkerInv'
<1>1. /\ lifecycle = "starting" /\ remaining # <<>> /\ kind = StartStages[stage]
      /\ lifecycle' = "starting"
      /\ UNCHANGED <<single, raising, stops, active, dispatching, published, link, raised,
                     lost, aborted>> \/ raising' = "none"
      /\ UNCHANGED <<single, stops, active, dispatching, published, link, raised, lost, aborted>>
    BY DEF StageDone, StartingUp, GoOn
<1>2. PICK h \in Instances : h = Instance /\ h[1] = Head(remaining) /\ h[2] = at /\ h[1] \in active
                             /\ h[1] \in Left
    BY <1>1, HandIsThere
<1>3. PICK made : made = {kind} \cap Uses(h)
    OBVIOUS
<1>4. /\ held' = [held EXCEPT ![h] = @ \cup made] /\ core' = [core EXCEPT ![h] = @ \cup made]
      /\ made \cap Remote \subseteq core[h] /\ made \subseteq Kinds /\ made \subseteq Uses(h)
      /\ life[h[1]] = "loaded"
    BY <1>1, <1>2, <1>3, PartsAre DEF StageDone, WorkerInv, InOrderInv
<1>5. /\ held' \in [Instances -> SUBSET Kinds] /\ core' \in [Instances -> SUBSET Kinds]
      /\ held'[h] = held[h] \cup made /\ core'[h] = core[h] \cup made
      /\ \A i \in Instances \ {h} : core'[i] = core[i] /\ held'[i] = held[i]
    BY <1>4 DEF WorkerInv, WorkerTypeOK
<1>6. \/ /\ stage < 6 /\ stage' = stage + 1 /\ UNCHANGED <<remaining, at, raising, life>>
      \/ /\ stage' = 1 /\ at < Len(Parts[h[1]]) /\ at' = at + 1
         /\ UNCHANGED <<remaining, raising, life>>
      \/ /\ stage' = 1 /\ at' = 1 /\ raising' = "none" /\ remaining' = Tail(remaining)
         /\ life' = [life EXCEPT ![h[1]] = "started"]
    <2>1. ~LastInstance => at < Len(Parts[h[1]])
        BY <1>1, <1>2, HandIsThere DEF LastInstance
    <2> QED
        BY <1>2, <2>1, StagesAre DEF StageDone, GoOn
<1>7. /\ remaining' \in Seq(Stars) /\ IsInjective(remaining') /\ at' \in Nat /\ stage' \in 1..6
      /\ raising' \in {"none", "error", "cancelled"}
      /\ life' \in [Stars -> {"unloaded", "loaded", "started", "failed"}]
      /\ \/ UNCHANGED <<remaining, life>> /\ Left' = Left
         \/ /\ remaining' = Tail(remaining) /\ Left' = Left \ {h[1]} /\ life'[h[1]] = "started"
            /\ \A p \in Stars \ {h[1]} : life'[p] = life[p]
      /\ remaining' # <<>> => Instance' \in Instances
    <2>1. h[1] \in Stars /\ at \in 1..Len(Parts[h[1]])
        BY <1>1, <1>2, HandIsThere, PartsAre
    <2>2. CASE UNCHANGED <<remaining, life>>
        <3>1. at' \in 1..Len(Parts[h[1]]) /\ stage' \in 1..6
              /\ raising' \in {"none", "error", "cancelled"}
            BY <1>1, <1>6, <2>1, <2>2, PartsAre DEF WorkerInv, WorkerTypeOK
        <3>2. Instance' \in Instances
            BY <1>2, <2>1, <2>2, <3>1, PartsAre DEF Instance
        <3> QED
            BY <2>2, <3>1, <3>2 DEF Left, WorkerInv, WorkerTypeOK
    <2>3. CASE /\ stage' = 1 /\ at' = 1 /\ raising' = "none" /\ remaining' = Tail(remaining)
               /\ life' = [life EXCEPT ![h[1]] = "started"]
        <3>1. remaining' \in Seq(Stars) /\ IsInjective(remaining') /\ Left' = Left \ {h[1]}
            BY <1>1, <1>2, <2>3, HandIsThere DEF Left
        <3>2. remaining' # <<>> => Instance' \in Instances
            BY <2>3, <3>1, FreshHand DEF HandInv
        <3>3. /\ life' \in [Stars -> {"unloaded", "loaded", "started", "failed"}]
              /\ life'[h[1]] = "started" /\ \A p \in Stars \ {h[1]} : life'[p] = life[p]
            BY <2>1, <2>3 DEF WorkerInv, WorkerTypeOK
        <3> QED
            BY <2>3, <3>1, <3>2, <3>3
    <2> QED
        BY <1>6, <2>2, <2>3
<1>8. WorkerTypeOK'
    BY <1>1, <1>5, <1>7 DEF WorkerInv, WorkerTypeOK
<1>9. InOrderInv'
    <2>1. HasStarted' \subseteq HasStarted \cup {h[1]}
        BY <1>7 DEF HasStarted
    <2>2. \A p \in Stars : life'[p] # "unloaded" => life[p] # "unloaded"
        BY <1>4, <1>7
    <2>3. \A p \in active : IF p \in Left' THEN life'[p] = "loaded"
                            ELSE life'[p] = "started" \/ (life'[p] = "failed" /\ ~single)
        BY <1>1, <1>7 DEF WorkerInv, WorkerTypeOK, InOrderInv
    <2> QED
        BY <1>1, <1>2, <1>7, <2>1, <2>2, <2>3 DEF WorkerInv, InOrderInv
<1>10. StopsInv' /\ HandInv'
    BY <1>1, <1>7 DEF WorkerInv, StopsInv, HandInv
<1>11. ReleaseInv'
    <2> SUFFICES ASSUME NEW i \in Instances PROVE Recorded(i)' /\ Unrecorded(i)'
        BY DEF ReleaseInv
    <2>1. Recorded(i) /\ Unrecorded(i) /\ i[1] \in Stars
        BY PartsAre DEF WorkerInv, ReleaseInv
    <2>2. Recorded(i)'
        <3>1. core'[i] \subseteq Uses(i) /\ core'[i] \cap InProcess \subseteq held'[i]
            BY <1>4, <1>5, <2>1 DEF Recorded
        <3>2. held'[i] # {} => \/ life'[i[1]] \in {"started", "failed"}
                               \/ remaining' # <<>> /\ i[1] = Head(remaining')
            BY <1>1, <1>2, <1>5, <1>7, <2>1 DEF Recorded
        <3> QED
            BY <1>1, <3>1, <3>2 DEF Recorded, Uses
    <2>3. \A j \in Instances : j # h => Untold(j)' = Untold(j)
        BY <1>1, <1>5 DEF Untold
    <2>4. \A j \in Instances : j[1] = h[1] => Untold(j)' = {}
        <3> SUFFICES ASSUME NEW j \in Instances, j[1] = h[1], Untold(j)' # {} PROVE FALSE
            OBVIOUS
        <3>1. Untold(j)' \subseteq Untold(j)
            BY <1>1, <1>5, <2>3 DEF Untold
        <3>2. PICK k \in Remote : Untold(j) = {k} /\ StartingUp(k) /\ j = h
            BY <1>2, <1>4, <3>1 DEF WorkerInv, ReleaseInv, Unrecorded
        <3>3. k = kind /\ k \in core[h]
            BY <1>1, <3>2 DEF StartingUp, Untold
        <3>4. k \in Uses(h)
            BY <3>3 DEF WorkerInv, ReleaseInv, Recorded
        <3>5. k \in held'[h]
            BY <1>3, <1>5, <3>3, <3>4
        <3> QED
            BY <3>1, <3>2, <3>5 DEF Untold
    <2>5. ASSUME Untold(i)' # {} PROVE Unrecorded(i)'
        <3>1. i[1] # h[1] /\ i # h
            BY <2>4, <2>5
        <3>2. life'[i[1]] = life[i[1]]
            BY <1>7, <2>1, <3>1
        <3>3. PICK k \in Remote : Untold(i) = {k} /\ life[i[1]] = "failed"
            BY <1>2, <2>1, <2>3, <2>5, <3>1 DEF Unrecorded
        <3>4. \A j \in Instances : j[1] = i[1] /\ Untold(j)' # {} => j = i
            BY <2>1, <2>3, <2>5, <3>1 DEF Unrecorded
        <3> QED
            BY <2>3, <3>1, <3>2, <3>3, <3>4 DEF Unrecorded
    <2> QED
        BY <2>2, <2>5 DEF Unrecorded
<1> QED
    BY <1>8, <1>9, <1>10, <1>11 DEF WorkerInv

LEMMA StageRaisesKeeps == ASSUME WorkerInv, NEW kind, StageRaises(kind) PROVE WorkerInv'
<1>1. /\ lifecycle = "starting" /\ remaining # <<>>
      /\ UNCHANGED <<single, stops, held, core, active, dispatching, published, link, raised,
                     lost, aborted>>
      /\ at' = 1 /\ stage' = 1 /\ raising' = "none"
    BY DEF StageRaises, StartingUp, GoOn
<1>2. PICK p \in Stars : p = Head(remaining) /\ p \in active /\ p \in Left /\ life[p] = "loaded"
    BY <1>1, HandIsThere DEF WorkerInv, InOrderInv
<1>3. /\ life' \in [Stars -> {"unloaded", "loaded", "started", "failed"}]
      /\ life'[p] = "failed" /\ \A q \in Stars \ {p} : life'[q] = life[q]
      /\ HasStarted' \subseteq HasStarted
    BY <1>2 DEF StageRaises, WorkerInv, WorkerTypeOK, HasStarted
<1>4. \/ single /\ lifecycle' = "undoing" /\ remaining' = <<>> /\ Left' = {}
      \/ ~single /\ lifecycle' = "starting" /\ remaining' = Tail(remaining) /\ Left' = Left \ {p}
    BY <1>1, <1>2, HandIsThere, NoneLeft DEF StageRaises, GoOn, Left
<1>5. remaining' \in Seq(Stars) /\ IsInjective(remaining')
    BY <1>1, <1>4, HandIsThere, NoneLeft
<1>6. WorkerTypeOK'
    BY <1>1, <1>3, <1>4, <1>5 DEF WorkerInv, WorkerTypeOK
<1>7. InOrderInv'
    BY <1>1, <1>2, <1>3, <1>4 DEF WorkerInv, WorkerTypeOK, InOrderInv
<1>8. StopsInv' /\ HandInv'
    BY <1>1, <1>4, <1>5, FreshHand DEF WorkerInv, StopsInv
<1>9. ReleaseInv'
    BY <1>1, <1>2, <1>3, NothingMade DEF WorkerInv, ReleaseInv, Recorded, Untold
<1> QED
    BY <1>6, <1>7, <1>8, <1>9 DEF WorkerInv

LEMMA AllTriedKeeps == WorkerInv /\ AllTried => WorkerInv'
<1> SUFFICES ASSUME WorkerInv, AllTried PROVE WorkerInv'
    OBVIOUS
<1>1. /\ lifecycle = "starting" /\ remaining = <<>> /\ remaining' = <<>>
      /\ at' = 1 /\ stage' = 1 /\ raising' = "none"
      /\ active' = (IF single THEN active ELSE HasStarted) /\ dispatching' = active'
      /\ lifecycle' \in {"undoing", "initializing"} /\ (active' = {} => lifecycle' = "undoing")
      /\ UNCHANGED <<single, life, stops, held, core, published, link, raised, lost, aborted>>
    BY DEF AllTried, GoOn
<1>2. Left = {} /\ Left' = {} /\ <<>> \in Seq(Stars)
    BY <1>1, NoneLeft DEF Left
<1>3. WorkerTypeOK'
    <2>1. active' \subseteq Stars
        BY <1>1 DEF WorkerInv, WorkerTypeOK, HasStarted
    <2> QED
        BY <1>1, <2>1 DEF WorkerInv, WorkerTypeOK
<1>4. InOrderInv'
    BY <1>1, <1>2 DEF WorkerInv, InOrderInv, HasStarted
<1>5. StopsInv' /\ HandInv'
    BY <1>1, <1>2, FreshHand DEF WorkerInv, StopsInv
<1>6. ReleaseInv'
    BY <1>1, NothingMade DEF WorkerInv, ReleaseInv, Recorded, Untold
<1> QED
    BY <1>3, <1>4, <1>5, <1>6 DEF WorkerInv

LEMMA InitializeKeeps == WorkerInv /\ Initialize => WorkerInv'
<1> SUFFICES ASSUME WorkerInv, Initialize PROVE WorkerInv'
    OBVIOUS
<1>0. /\ lifecycle = "initializing" /\ at' = 1 /\ stage' = 1 /\ raising' = "none"
      /\ UNCHANGED <<single, life, stops, held, core, active, dispatching, raised, lost, aborted>>
      /\ dispatching = active /\ published = {} /\ active \subseteq Stars
      /\ HasStarted \subseteq Stars /\ HasStarted \subseteq active
    BY DEF Initialize, GoOn, WorkerInv, WorkerTypeOK, InOrderInv, HasStarted
<1>1. \/ /\ lifecycle' = "running" /\ remaining' = <<>> /\ link' = link /\ published' = active
      \/ /\ lifecycle' = "undoing" /\ remaining' = Reverse(InOrder(HasStarted))
         /\ link' \in {link, FALSE} /\ published' = published
    BY DEF Initialize, GoOn
<1>2. /\ remaining' \in Seq(Stars) /\ IsInjective(remaining')
      /\ lifecycle' = "running" => remaining' = <<>> /\ Left' = {}
      /\ lifecycle' = "undoing" => Left' = HasStarted
    BY <1>0, <1>1, NoneLeft, StoppingOrder DEF Left
<1>3. WorkerTypeOK'
    <2>1. link' \in BOOLEAN
        BY <1>1 DEF WorkerInv, WorkerTypeOK
    <2>2. published' \subseteq Stars /\ lifecycle' \in {"running", "undoing"}
        BY <1>0, <1>1
    <2> QED
        BY <1>0, <1>2, <2>1, <2>2 DEF WorkerInv, WorkerTypeOK
<1>4. InOrderInv'
    <2>1. HasStarted' = HasStarted
        BY <1>0 DEF HasStarted
    <2>2. /\ single => active = {1} /\ \A p \in Stars : life[p] # "unloaded" => p = 1
          /\ \A p \in active : life[p] = "started"
        BY <1>0 DEF WorkerInv, InOrderInv
    <2> QED
        BY <1>0, <1>1, <1>2, <2>1, <2>2 DEF InOrderInv
<1>5. StopsInv' /\ HandInv'
    <2>1. \A i \in Instances : stops'[i] = 0
        BY <1>0 DEF WorkerInv, StopsInv
    <2>2. lifecycle' \in {"running", "undoing"}
        BY <1>1
    <2> QED
        BY <1>0, <1>2, <2>1, <2>2, FreshHand DEF StopsInv
<1>6. ReleaseInv'
    BY <1>0, NothingMade DEF WorkerInv, ReleaseInv, Recorded, Untold
<1> QED
    BY <1>3, <1>4, <1>5, <1>6 DEF WorkerInv

LEMMA InterruptKeeps == WorkerInv /\ Interrupt => WorkerInv'
<1> SUFFICES ASSUME WorkerInv, Interrupt PROVE WorkerInv'
    OBVIOUS
<1>0. /\ lifecycle \in {"starting", "initializing", "running"} /\ Stopping
      /\ UNCHANGED <<single, stops, held, core, active, dispatching, published, link, lost, aborted>>
    BY DEF Interrupt
<1>1. /\ life' \in [Stars -> {"unloaded", "loaded", "started", "failed"}]
      /\ \A p \in Stars :
            /\ life'[p] \in {life[p], "failed"}
            /\ lifecycle = "starting" /\ remaining # <<>> /\ p = Head(remaining) => life'[p] = "failed"
            /\ life[p] = "unloaded" => life'[p] = "unloaded"
    <2>1. CASE lifecycle # "starting" /\ UNCHANGED life
        BY <2>1 DEF WorkerInv, WorkerTypeOK
    <2>2. CASE lifecycle = "starting" /\ remaining # <<>> /\ life' = [life EXCEPT ![Head(remaining)] = "failed"]
        <3>1. PICK h \in Stars : h = Head(remaining) /\ life[h] = "loaded"
            BY <2>2, HandIsThere DEF WorkerInv, InOrderInv
        <3> QED
            BY <2>2, <3>1 DEF WorkerInv, WorkerTypeOK
    <2> QED
        BY <2>1, <2>2 DEF Interrupt
<1>2. /\ lifecycle' = "stopping" /\ at' = 1 /\ stage' = 1 /\ raising' = "none"
      /\ remaining' \in Seq(Stars) /\ IsInjective(remaining') /\ raised' = {}
      /\ InOrderInv' /\ StopsInv' /\ HandInv'
    BY <1>0, <1>1, BeginsToStop
<1>3. WorkerTypeOK'
    BY <1>0, <1>1, <1>2 DEF WorkerInv, WorkerTypeOK
<1>4. ReleaseInv'
    <2>1. lifecycle = "starting" /\ remaining # <<>> => life'[Head(remaining)] = "failed"
        <3>1. remaining # <<>> => Head(remaining) \in Stars
            BY HandIsThere
        <3> QED
            BY <1>1, <3>1
    <2> QED
        BY <1>0, <1>1, <2>1, NothingMade DEF WorkerInv, ReleaseInv, Recorded, Untold
<1> QED
    BY <1>2, <1>3, <1>4 DEF WorkerInv

LEMMA LoseLinkKeeps == WorkerInv /\ LoseLink => WorkerInv'
<1> SUFFICES ASSUME WorkerInv, LoseLink PROVE WorkerInv'
    OBVIOUS
<1>1. /\ link' = FALSE
      /\ UNCHANGED <<single, lifecycle, remaining, at, stage, raising, life, stops, held, core,
                     active, dispatching, published, raised, lost, aborted>>
    BY DEF LoseLink
<1>2. WorkerTypeOK'
    BY <1>1 DEF WorkerInv, WorkerTypeOK
<1>3. InOrderInv' /\ StopsInv' /\ HandInv'
    BY <1>1 DEF WorkerInv, InOrderInv, StopsInv, HandInv, Left, HasStarted, Visited, GivenUp,
                PassedOver, Instance
<1>4. ReleaseInv'
    BY <1>1, NothingMade DEF WorkerInv, ReleaseInv, Recorded, Untold
<1> QED
    BY <1>2, <1>3, <1>4 DEF WorkerInv

LEMMA OnStopKeeps == WorkerInv /\ OnStop => WorkerInv'
<1> SUFFICES ASSUME WorkerInv, OnStop PROVE WorkerInv'
    OBVIOUS
<1>1. /\ lifecycle \in {"undoing", "stopping"} /\ remaining # <<>> /\ StopStages[stage] = "on_stop"
      /\ raising' \in {"none", "error", "cancelled"} /\ stage' = stage + 1
      /\ UNCHANGED <<single, lifecycle, remaining, at, life, held, core, active, dispatching,
                     published, link, lost, aborted>>
    BY DEF OnStop, StoppingAt
<1>2. PICK h \in Instances : h = Instance /\ h[1] = Head(remaining) /\ h[2] = at
                             /\ h[1] \in active /\ h[1] \in Left
    BY <1>1, HandIsThere
<1>3. stage = 1
    <2>1. stage \in 1..5
        BY <1>1 DEF WorkerInv, HandInv
    <2> QED
        BY <1>1, <2>1, StagesAre
<1>4. raised \subseteq raised' /\ raised' \subseteq Instances /\ (raising' = "error" => h \in raised')
    BY <1>2 DEF OnStop, WorkerInv, WorkerTypeOK
<1>5. /\ ~Visited(h) /\ Visited(h)' /\ \A i \in Instances \ {h} : Visited(i)' <=> Visited(i)
    <2>1. /\ Left' = Left /\ Head(remaining') = Head(remaining) /\ at' = at /\ stage' = 2
          /\ at \in Nat
        BY <1>1, <1>3 DEF Left, WorkerInv, WorkerTypeOK
    <2>2. ASSUME NEW i \in Instances, i # h PROVE Visited(i)' <=> Visited(i)
        <3>1. ~(i[1] = Head(remaining) /\ i[2] = at)
            BY <1>2, <2>2, PartsAre
        <3> QED
            BY <1>3, <2>1, <3>1 DEF Visited
    <2> QED
        BY <1>2, <1>3, <2>1, <2>2 DEF Visited
<1>6. stops[h] \in 0..1 /\ (lifecycle = "undoing" => stops[h] = 0)
    BY <1>1, <1>5 DEF WorkerInv, WorkerTypeOK, StopsInv
<1>7. /\ stops' \in [Instances -> 0..2] /\ stops'[h] = stops[h] + 1
      /\ \A i \in Instances \ {h} : stops'[i] = stops[i]
    BY <1>2, <1>6 DEF OnStop, WorkerInv, WorkerTypeOK
<1>8. WorkerTypeOK'
    BY <1>1, <1>3, <1>4, <1>7 DEF WorkerInv, WorkerTypeOK
<1>9. InOrderInv'
    BY <1>1 DEF WorkerInv, InOrderInv, HasStarted, Left
<1>10. StopsInv'
    <2>1. ASSUME lifecycle = "undoing", NEW i \in Instances
          PROVE  stops'[i] <= IF Visited(i)' THEN 1 ELSE 0
        BY <1>5, <1>6, <1>7, <2>1 DEF WorkerInv, StopsInv
    <2>2. ASSUME lifecycle = "stopping", NEW i \in Instances, ~Visited(i)' PROVE stops'[i] <= 1
        BY <1>5, <1>7, <2>2 DEF WorkerInv, StopsInv
    <2>3. ASSUME lifecycle = "stopping", NEW i \in Instances, i[1] \in active \ Left
          PROVE  GivenUp(i)'
        <3>1. GivenUp(i) /\ i # h
            BY <1>2, <2>3 DEF WorkerInv, StopsInv
        <3> QED
            BY <1>1, <1>4, <1>7, <3>1 DEF GivenUp, PassedOver
    <2>4. Left' = Left
        BY <1>1 DEF Left
    <2> QED
        BY <1>1, <2>1, <2>2, <2>3, <2>4 DEF StopsInv
<1>11. HandInv'
    <2>1. Instance' = h /\ stage' = 2
        BY <1>1, <1>2, <1>3 DEF Instance
    <2>2. ASSUME NEW i \in Instances, i[1] = Head(remaining), i[2] < at
          PROVE  stops'[i] > 0 /\ held'[i] = {}
        <3>1. i # h /\ stops[i] > 0 /\ held[i] = {}
            BY <1>1, <1>2, <2>2, PartsAre DEF WorkerInv, HandInv
        <3> QED
            BY <1>1, <1>7, <3>1
    <2>3. \A n \in 1..stage' - 1 : StopStages[n] \notin held'[h]
        <3>1. "on_stop" \notin held[h]
            BY StagesAre DEF WorkerInv, WorkerTypeOK
        <3>2. \A n \in 1..stage' - 1 : n = 1
            BY <2>1
        <3> QED
            BY <1>1, <3>1, <3>2, StagesAre
    <2>4. stops'[h] > 0
        BY <1>6, <1>7
    <2> QED
        BY <1>1, <1>4, <2>1, <2>2, <2>3, <2>4 DEF HandInv
<1>12. ReleaseInv'
    BY <1>1, NothingMade DEF WorkerInv, ReleaseInv, Recorded, Untold
<1> QED
    BY <1>8, <1>9, <1>10, <1>11, <1>12 DEF WorkerInv

(* The loop goes on to the next plugin when the one at hand is given up.      *)
LEMMA NextPluginKeeps ==
    ASSUME WorkerInv, lifecycle \in {"undoing", "stopping"}, remaining # <<>>, stage > 1,
           GoOn(lifecycle, Tail(remaining)),
           UNCHANGED <<single, life, stops, active, dispatching, published, aborted>>,
           raised \subseteq raised', \A i \in Instances : held'[i] \subseteq held[i],
           \A i \in Instances : i[1] = Head(remaining) => GivenUp(i)'
    PROVE  InOrderInv' /\ StopsInv' /\ HandInv' /\ remaining' \in Seq(Stars) /\ IsInjective(remaining')
<1>1. /\ lifecycle' = lifecycle /\ remaining' = Tail(remaining)
      /\ at' = 1 /\ stage' = 1 /\ raising' = "none"
    BY DEF GoOn
<1>2. PICK p \in Stars : p = Head(remaining) /\ p \in active /\ p \in Left
    BY HandIsThere
<1>3. remaining' \in Seq(Stars) /\ IsInjective(remaining') /\ Left' = Left \ {p}
    BY <1>1, <1>2, HandIsThere DEF Left
<1>4. HandInv'
    BY <1>1, <1>3, FreshHand
<1>5. InOrderInv'
    BY <1>1, <1>3 DEF WorkerInv, InOrderInv, HasStarted
<1>6. ASSUME NEW i \in Instances PROVE Visited(i) => Visited(i)'
    <2>1. i[1] # p /\ i[1] \in Left => ~Visited(i)
        BY <1>2 DEF Visited
    <2>2. i[1] = p \/ i[1] \notin Left => Visited(i)'
        BY <1>3 DEF Visited
    <2> QED
        BY <2>1, <2>2
<1>7. StopsInv'
    <2>1. ASSUME lifecycle = "undoing", NEW i \in Instances
          PROVE  stops'[i] <= IF Visited(i)' THEN 1 ELSE 0
        <3>1. stops[i] <= (IF Visited(i) THEN 1 ELSE 0) /\ stops[i] \in 0..2
            BY <2>1 DEF WorkerInv, WorkerTypeOK, StopsInv
        <3> QED
            BY <1>6, <3>1
    <2>2. ASSUME lifecycle = "stopping", NEW i \in Instances, ~Visited(i)' PROVE stops'[i] <= 1
        BY <1>6, <2>2 DEF WorkerInv, StopsInv
    <2>3. ASSUME lifecycle = "stopping", NEW i \in Instances, i[1] \in active \ Left'
          PROVE  GivenUp(i)'
        <3>1. CASE i[1] = p
            BY <1>2, <3>1
        <3>2. CASE i[1] # p
            <4>1. GivenUp(i)
                BY <1>3, <2>3, <3>2 DEF WorkerInv, StopsInv
            <4>2. held[i] = {} => held'[i] = {}
                OBVIOUS
            <4> QED
                BY <4>1, <4>2 DEF GivenUp, PassedOver
        <3> QED
            BY <3>1, <3>2
    <2> QED
        BY <1>1, <2>1, <2>2, <2>3 DEF StopsInv
<1> QED
    BY <1>3, <1>4, <1>5, <1>7

(* An Exception leaves the instance at hand: it is among those it left, and   *)
(* those of its plugin that come after it are passed over.                    *)
LEMMA ExceptionGivesUp ==
    ASSUME WorkerInv, lifecycle \in {"undoing", "stopping"}, remaining # <<>>, stage > 1,
           UNCHANGED <<stops, aborted>>, raised \subseteq raised', Instance \in raised',
           \A i \in Instances : held'[i] \subseteq held[i],
           NEW i \in Instances, i[1] = Head(remaining)
    PROVE  GivenUp(i)'
<1>1. PICK h \in Instances : h = Instance /\ h[1] = Head(remaining) /\ h[2] = at
    BY HandIsThere
<1>2. i[2] \in Nat /\ at \in Nat
    BY PartsAre, <1>1
<1>3. CASE i[2] < at
    BY <1>3 DEF WorkerInv, HandInv, GivenUp
<1>4. CASE i[2] = at
    <2>1. i = h
        BY <1>1, <1>4, PartsAre
    <2> QED
        BY <1>1, <2>1 DEF WorkerInv, HandInv, GivenUp
<1>5. CASE at < i[2]
    BY <1>1, <1>5 DEF GivenUp, PassedOver
<1> QED
    BY <1>2, <1>3, <1>4, <1>5

(* A CancelledError leaves it: start() has given up giving up, or stop() ends. *)
LEMMA CancelKeeps ==
    ASSUME WorkerInv, lifecycle \in {"undoing", "stopping"}, CancelLeaves,
           UNCHANGED <<single, life, stops, active, dispatching, published>>
    PROVE  /\ InOrderInv' /\ StopsInv' /\ HandInv'
           /\ lifecycle' = "stopping" /\ remaining' \in Seq(Stars) /\ IsInjective(remaining')
           /\ at' = 1 /\ stage' = 1 /\ raising' = "none"
           /\ raised' \in {raised, {}} /\ aborted' \in BOOLEAN
<1>1. CASE lifecycle = "undoing"
    <2>1. Stopping /\ aborted' = aborted
        BY <1>1 DEF CancelLeaves
    <2> QED
        BY <1>1, <2>1, BeginsToStop DEF WorkerInv, WorkerTypeOK
<1>2. CASE lifecycle = "stopping"
    <2>1. /\ lifecycle' = "stopping" /\ remaining' = <<>> /\ at' = 1 /\ stage' = 1
          /\ raising' = "none" /\ aborted' = TRUE /\ raised' = raised
        BY <1>2 DEF CancelLeaves, GoOn
    <2>2. remaining' \in Seq(Stars) /\ IsInjective(remaining') /\ Left' = {}
        BY <2>1, NoneLeft DEF Left
    <2>3. HandInv'
        BY <2>1, <2>2, FreshHand
    <2>4. InOrderInv'
        BY <1>2, <2>1, <2>2 DEF WorkerInv, InOrderInv, HasStarted
    <2>5. StopsInv'
        BY <2>1, <2>2 DEF StopsInv, Visited, GivenUp, PassedOver
    <2> QED
        BY <2>1, <2>2, <2>3, <2>4, <2>5
<1> QED
    BY <1>1, <1>2

LEMMA TakeBackKeeps == ASSUME WorkerInv, NEW kind \in Kinds, TakeBack(kind) PROVE WorkerInv'
<1>1. /\ lifecycle \in {"undoing", "stopping"} /\ remaining # <<>> /\ kind = StopStages[stage]
      /\ kind # "on_stop"
      /\ UNCHANGED <<single, life, stops, active, dispatching, published, link>>
    BY DEF TakeBack, StoppingAt
<1>2. PICK h \in Instances : h = Instance /\ h[1] = Head(remaining) /\ h[2] = at
                             /\ h[1] \in active /\ h[1] \in Left
    BY <1>1, HandIsThere
<1>3. /\ stage \in 2..5 /\ at \in 1..Len(Parts[h[1]]) /\ stops[h] > 0
      /\ \A n \in 1..stage - 1 : StopStages[n] \notin held[h]
      /\ \A i \in Instances : i[1] = h[1] /\ i[2] < at => stops[i] > 0 /\ held[i] = {}
      /\ raising = "error" => h \in raised
    <2>1. /\ stage \in 1..5 /\ (stage > 1 => stops[h] > 0)
          /\ \A n \in 1..stage - 1 : StopStages[n] \notin held[h]
          /\ \A i \in Instances : i[1] = h[1] /\ i[2] < at => stops[i] > 0 /\ held[i] = {}
          /\ raising = "error" => h \in raised
        BY <1>1, <1>2 DEF WorkerInv, HandInv
    <2>2. stage # 1
        BY <1>1, StagesAre
    <2> QED
        BY <1>2, <2>1, <2>2, PartsAre
<1>4. /\ held' \in [Instances -> SUBSET Kinds] /\ held'[h] = held[h] \ {kind}
      /\ \A i \in Instances \ {h} : held'[i] = held[i]
    BY <1>2 DEF TakeBack, WorkerInv, WorkerTypeOK
<1>5. /\ core' \in [Instances -> SUBSET Kinds] /\ lost' \in [Instances -> SUBSET Remote]
      /\ \A i \in Instances \ {h} : core'[i] = core[i] /\ lost'[i] = lost[i]
      /\ \/ core'[h] = core[h] \ ({kind} \cap held[h]) /\ lost'[h] = lost[h]
         \/ /\ kind \in Remote \cap held[h] /\ core'[h] = core[h]
            /\ lost'[h] = lost[h] \cup {kind}
    <2> DEFINE mine == {kind} \cap held[h]
    <2>1. CASE core' = [core EXCEPT ![h] = @ \ mine] /\ UNCHANGED lost
        BY <2>1 DEF WorkerInv, WorkerTypeOK
    <2>2. CASE mine \cap Remote # {} /\ UNCHANGED core /\ lost' = [lost EXCEPT ![h] = @ \cup mine]
        <3>1. mine = {kind} /\ kind \in Remote \cap held[h]
            BY <2>2
        <3> QED
            BY <2>2, <3>1 DEF WorkerInv, WorkerTypeOK
    <2> QED
        BY <1>2, <2>1, <2>2 DEF TakeBack
<1>6. ReleaseInv'
    <2>1. ASSUME NEW i \in Instances
          PROVE  /\ core'[i] \subseteq core[i] /\ held'[i] \subseteq held[i]
                 /\ core'[i] \cap InProcess \subseteq held'[i]
                 /\ Untold(i)' \subseteq Untold(i)
        <3>1. core[i] \cap InProcess \subseteq held[i] /\ Remote \cap InProcess = {}
            BY DEF WorkerInv, ReleaseInv, Recorded, Remote, InProcess
        <3> QED
            BY <1>4, <1>5, <3>1 DEF Untold
    <2> QED
        BY <1>1, <2>1, NothingMade
<1>7. \A i \in Instances : held'[i] \subseteq held[i]
    BY <1>4
<1>8. CASE /\ stage < 5 /\ stage' = stage + 1
           /\ UNCHANGED <<lifecycle, remaining, at, raising, raised, aborted>>
    <2>1. WorkerTypeOK'
        BY <1>1, <1>3, <1>4, <1>5, <1>8 DEF WorkerInv, WorkerTypeOK
    <2>2. InOrderInv'
        BY <1>1, <1>8 DEF WorkerInv, InOrderInv, HasStarted, Left
    <2>3. StopsInv'
        <3>1. Left' = Left /\ \A i \in Instances : Visited(i)' <=> Visited(i)
            BY <1>3, <1>8 DEF Left, Visited
        <3>2. \A i \in Instances : GivenUp(i) => GivenUp(i)'
            BY <1>1, <1>7, <1>8 DEF GivenUp, PassedOver
        <3> QED
            BY <1>1, <1>8, <3>1, <3>2 DEF WorkerInv, StopsInv
    <2>4. HandInv'
        <3>1. Instance' = h /\ stage' \in 1..5
            BY <1>2, <1>3, <1>8 DEF Instance
        <3>2. ASSUME NEW n \in 1..stage' - 1 PROVE StopStages[n] \notin held'[h]
            <4>1. n \in 1..stage - 1 \/ n = stage
                BY <1>3, <1>8
            <4> QED
                BY <1>1, <1>3, <1>4, <4>1
        <3>3. \A i \in Instances : i[1] = h[1] /\ i[2] < at => stops'[i] > 0 /\ held'[i] = {}
            BY <1>1, <1>3, <1>7
        <3> QED
            BY <1>1, <1>2, <1>3, <1>8, <3>1, <3>2, <3>3 DEF HandInv
    <2> QED
        BY <1>6, <2>1, <2>2, <2>3, <2>4 DEF WorkerInv
<1>9. ASSUME stage = 5 PROVE held'[h] = {}
    <2>1. /\ "hook" \notin held[h] /\ "task" \notin held[h] /\ "http" \notin held[h]
          /\ kind = "skill"
        BY <1>1, <1>3, <1>9, StagesAre
    <2>2. held[h] \subseteq {"http", "skill", "hook", "task"}
        BY StagesAre DEF WorkerInv, WorkerTypeOK
    <2> QED
        BY <1>4, <2>1, <2>2
<1>10. CASE /\ stage = 5 /\ ~LastInstance /\ at' = at + 1 /\ stage' = 1
            /\ UNCHANGED <<lifecycle, remaining, raising, raised, aborted>> /\ raising = "none"
    <2>0. at' \in 1..Len(Parts[h[1]]) /\ at \in Nat /\ h[1] \in Stars
        BY <1>2, <1>3, <1>10, PartsAre DEF LastInstance
    <2>1. WorkerTypeOK'
        BY <1>1, <1>4, <1>5, <1>10, <2>0 DEF WorkerInv, WorkerTypeOK
    <2>2. InOrderInv'
        BY <1>1, <1>10 DEF WorkerInv, InOrderInv, HasStarted, Left
    <2>3. StopsInv'
        <3>1. Left' = Left
            BY <1>10 DEF Left
        <3>2. ASSUME NEW i \in Instances PROVE Visited(i)' <=> Visited(i)
            BY <1>10, <2>0, <3>1, PartsAre DEF Visited
        <3>3. \A i \in Instances : GivenUp(i) => GivenUp(i)'
            BY <1>1, <1>7, <1>10 DEF GivenUp, PassedOver
        <3> QED
            BY <1>1, <1>10, <3>1, <3>2, <3>3 DEF WorkerInv, StopsInv
    <2>4. HandInv'
        <3>1. Instance' \in Instances
            BY <1>2, <1>10, <2>0, PartsAre DEF Instance
        <3>2. ASSUME NEW i \in Instances, i[1] = h[1], i[2] < at' PROVE stops'[i] > 0 /\ held'[i] = {}
            <4>1. i[2] < at \/ i[2] = at
                BY <1>10, <2>0, <3>2, PartsAre
            <4>2. CASE i[2] < at
                BY <1>1, <1>3, <1>7, <3>2, <4>2
            <4>3. CASE i[2] = at
                <5>1. i = h
                    BY <1>2, <3>2, <4>3, PartsAre
                <5> QED
                    BY <1>1, <1>3, <1>9, <1>10, <5>1
            <4> QED
                BY <4>1, <4>2, <4>3
        <3> QED
            BY <1>2, <1>10, <3>1, <3>2 DEF HandInv
    <2> QED
        BY <1>6, <2>1, <2>2, <2>3, <2>4 DEF WorkerInv
<1>11. CASE /\ stage = 5 /\ GoOn(lifecycle, Tail(remaining)) /\ UNCHANGED <<raised, aborted>>
            /\ raising = "error" \/ LastInstance
    <2>1. ASSUME NEW i \in Instances, i[1] = Head(remaining) PROVE GivenUp(i)'
        <3>1. CASE raising = "error"
            BY <1>1, <1>2, <1>3, <1>7, <1>11, <2>1, <3>1, ExceptionGivesUp
        <3>2. CASE LastInstance
            <4>1. i[2] < at \/ i = h
                BY <1>2, <1>3, <2>1, <3>2, PartsAre DEF LastInstance
            <4>2. stops[i] > 0 /\ held'[i] = {}
                BY <1>2, <1>3, <1>7, <1>9, <1>11, <2>1, <4>1
            <4> QED
                BY <1>1, <4>2 DEF GivenUp
        <3> QED
            BY <1>11, <3>1, <3>2
    <2>2. InOrderInv' /\ StopsInv' /\ HandInv' /\ remaining' \in Seq(Stars) /\ IsInjective(remaining')
        BY <1>1, <1>3, <1>7, <1>11, <2>1, NextPluginKeeps
    <2>3. WorkerTypeOK'
        BY <1>1, <1>4, <1>5, <1>11, <2>2 DEF GoOn, WorkerInv, WorkerTypeOK
    <2> QED
        BY <1>6, <2>2, <2>3 DEF WorkerInv
<1>12. CASE CancelLeaves
    <2>1. /\ InOrderInv' /\ StopsInv' /\ HandInv'
          /\ lifecycle' = "stopping" /\ remaining' \in Seq(Stars) /\ IsInjective(remaining')
          /\ at' = 1 /\ stage' = 1 /\ raising' = "none"
          /\ raised' \in {raised, {}} /\ aborted' \in BOOLEAN
        BY <1>1, <1>12, CancelKeeps
    <2>2. WorkerTypeOK'
        BY <1>1, <1>4, <1>5, <2>1 DEF WorkerInv, WorkerTypeOK
    <2> QED
        BY <1>6, <2>1, <2>2 DEF WorkerInv
<1> QED
    BY <1>8, <1>10, <1>11, <1>12, StagesAre DEF TakeBack, ExceptionLeaves

LEMMA BreakOffKeeps == ASSUME WorkerInv, NEW kind \in Kinds, BreakOff(kind) PROVE WorkerInv'
<1>1. /\ lifecycle \in {"undoing", "stopping"} /\ remaining # <<>> /\ kind = StopStages[stage]
      /\ UNCHANGED <<single, life, stops, held, active, dispatching, published, link, lost>>
    BY DEF BreakOff, StoppingAt
<1>2. PICK h \in Instances : h = Instance /\ h[1] = Head(remaining) /\ kind \in held[h]
    BY <1>1, HandIsThere DEF BreakOff
<1>3. stage > 1
    <2>1. stage \in 1..5
        BY <1>1 DEF WorkerInv, HandInv
    <2>2. stage # 1
        BY <1>1, StagesAre
    <2> QED
        BY <2>1, <2>2
<1>4. /\ core' \in [Instances -> SUBSET Kinds] /\ core'[h] \in {core[h], core[h] \ {kind}}
      /\ \A i \in Instances \ {h} : core'[i] = core[i]
    BY <1>2 DEF BreakOff, WorkerInv, WorkerTypeOK
<1>5. ReleaseInv'
    <2>1. ASSUME NEW i \in Instances
          PROVE  /\ core'[i] \subseteq core[i] /\ held'[i] \subseteq held[i]
                 /\ core'[i] \cap InProcess \subseteq held'[i]
                 /\ Untold(i)' \subseteq Untold(i)
        <3>1. core[i] \cap InProcess \subseteq held[i]
            BY DEF WorkerInv, ReleaseInv, Recorded
        <3> QED
            BY <1>1, <1>4, <3>1 DEF Untold
    <2> QED
        BY <1>1, <2>1, NothingMade
<1>6. CASE ExceptionLeaves /\ raised' = raised \cup {h}
    <2>1. GoOn(lifecycle, Tail(remaining)) /\ UNCHANGED aborted
        BY <1>6 DEF ExceptionLeaves
    <2>2. \A i \in Instances : i[1] = Head(remaining) => GivenUp(i)'
        BY <1>1, <1>2, <1>3, <1>6, <2>1, ExceptionGivesUp
    <2>3. InOrderInv' /\ StopsInv' /\ HandInv' /\ remaining' \in Seq(Stars) /\ IsInjective(remaining')
        BY <1>1, <1>3, <1>6, <2>1, <2>2, NextPluginKeeps
    <2>4. WorkerTypeOK'
        BY <1>1, <1>2, <1>4, <1>6, <2>1, <2>3 DEF GoOn, WorkerInv, WorkerTypeOK
    <2> QED
        BY <1>5, <2>3, <2>4 DEF WorkerInv
<1>7. CASE CancelLeaves
    <2>1. /\ InOrderInv' /\ StopsInv' /\ HandInv'
          /\ lifecycle' = "stopping" /\ remaining' \in Seq(Stars) /\ IsInjective(remaining')
          /\ at' = 1 /\ stage' = 1 /\ raising' = "none"
          /\ raised' \in {raised, {}} /\ aborted' \in BOOLEAN
        BY <1>1, <1>7, CancelKeeps
    <2>2. WorkerTypeOK'
        BY <1>1, <1>4, <2>1 DEF WorkerInv, WorkerTypeOK
    <2> QED
        BY <1>5, <2>1, <2>2 DEF WorkerInv
<1> QED
    BY <1>2, <1>6, <1>7 DEF BreakOff

LEMMA StartFailedKeeps == WorkerInv /\ StartFailed => WorkerInv'
<1> SUFFICES ASSUME WorkerInv, StartFailed PROVE WorkerInv'
    OBVIOUS
<1>0. /\ lifecycle = "undoing" /\ Stopping /\ link' = FALSE
      /\ UNCHANGED <<single, life, stops, held, core, active, dispatching, published, lost, aborted>>
    BY DEF StartFailed
<1>1. /\ lifecycle' = "stopping" /\ at' = 1 /\ stage' = 1 /\ raising' = "none"
      /\ remaining' \in Seq(Stars) /\ IsInjective(remaining') /\ raised' = {}
      /\ InOrderInv' /\ StopsInv' /\ HandInv'
    BY <1>0, BeginsToStop
<1>2. WorkerTypeOK'
    <2>1. link' \in BOOLEAN /\ raised' \subseteq Instances /\ raising' \in {"none", "error", "cancelled"}
        BY <1>0, <1>1
    <2>2. at' \in Nat /\ stage' \in 1..6
        BY <1>1
    <2> QED
        BY <1>0, <1>1, <2>1, <2>2 DEF WorkerInv, WorkerTypeOK
<1>3. ReleaseInv'
    BY <1>0, NothingMade DEF WorkerInv, ReleaseInv, Recorded, Untold
<1> QED
    BY <1>1, <1>2, <1>3 DEF WorkerInv

LEMMA StoppedKeeps == WorkerInv /\ Stopped => WorkerInv'
<1> SUFFICES ASSUME WorkerInv, Stopped PROVE WorkerInv'
    OBVIOUS
<1>1. /\ lifecycle = "stopping" /\ remaining = <<>> /\ lifecycle' = "stopped" /\ link' = FALSE
      /\ UNCHANGED <<single, remaining, at, stage, raising, life, stops, held, core, active,
                     dispatching, published, raised, lost, aborted>>
      /\ Left = {} /\ Left' = {}
    BY NoneLeft DEF Stopped, Left
<1>2. WorkerTypeOK'
    BY <1>1 DEF WorkerInv, WorkerTypeOK
<1>3. InOrderInv'
    BY <1>1 DEF WorkerInv, InOrderInv, HasStarted
<1>4. StopsInv' /\ HandInv'
    BY <1>1 DEF WorkerInv, StopsInv, HandInv, GivenUp, PassedOver
<1>5. ReleaseInv'
    BY <1>1, NothingMade DEF WorkerInv, ReleaseInv, Recorded, Untold
<1> QED
    BY <1>2, <1>3, <1>4, <1>5 DEF WorkerInv

LEMMA WorkerNextKeeps == WorkerInv /\ [WorkerNext]_workerVars => WorkerInv'
<1> SUFFICES ASSUME WorkerInv, [WorkerNext]_workerVars PROVE WorkerInv'
    OBVIOUS
<1>1. CASE UNCHANGED workerVars
    <2>0. WorkerTypeOK' /\ InOrderInv'
        BY <1>1 DEF workerVars, WorkerInv, WorkerTypeOK, InOrderInv, Left, HasStarted
    <2>1. StopsInv' /\ HandInv'
        BY <1>1 DEF workerVars, WorkerInv, StopsInv, HandInv, Left, Visited, GivenUp,
                    PassedOver, Instance
    <2>2. ReleaseInv'
        BY <1>1, NothingMade DEF workerVars, WorkerInv, ReleaseInv, Recorded, Untold
    <2> QED
        BY <2>0, <2>1, <2>2 DEF WorkerInv
<1>2. ASSUME NEW kind, CoreRegisters(kind) \/ StageDone(kind) \/ StageRaises(kind) PROVE WorkerInv'
    BY <1>2, CoreRegistersKeeps, StageDoneKeeps, StageRaisesKeeps
<1>3. ASSUME NEW kind \in Kinds, TakeBack(kind) \/ BreakOff(kind) PROVE WorkerInv'
    BY <1>3, TakeBackKeeps, BreakOffKeeps
<1> QED
    BY <1>1, <1>2, <1>3, StartPeerKeeps, AllTriedKeeps, InitializeKeeps, InterruptKeeps,
       LoseLinkKeeps, OnStopKeeps, StartFailedKeeps, StoppedKeeps DEF WorkerNext

LEMMA WorkerInvHolds == WorkerSpec => []WorkerInv
    BY WorkerInitEstablishes, WorkerNextKeeps, PTL DEF WorkerSpec

(* The types of the worker's runtime, for any number of plugins; in           *)
(* particular on_stop of an instance is never run more than twice.            *)
THEOREM WorkerTyped == WorkerSpec => []WorkerTypeOK
    BY WorkerInvHolds, PTL DEF WorkerInv

(* Of any number of plugins, whichever hooks raise and whenever the worker is *)
(* interrupted: what initialize published is what the dispatchers serve, and  *)
(* every plugin they serve was started.                                       *)
LEMMA PublishedIsServed == WorkerInv => ServesWhatItPublished
    BY DEF WorkerInv, InOrderInv, ServesWhatItPublished

(* When the worker has stopped, each instance of a plugin that started was    *)
(* stopped and has given up what was recorded, or was passed over for a       *)
(* reason that shows; and what was registered and never recorded is the one   *)
(* registration of a plugin that failed.                                      *)
LEMMA StoppedIsReleased == WorkerInv => StoppedMeansReleased
<1>1. ASSUME WorkerInv, lifecycle = "stopped", NEW i \in Instances
      PROVE  /\ life[i[1]] = "started" => stops[i] > 0 \/ PassedOver(i)
             /\ held[i] # {} => i \in raised \/ PassedOver(i) \/ (life[i[1]] = "failed" /\ ~single)
             /\ Untold(i) # {} =>
                   /\ life[i[1]] = "failed" /\ \E kind \in Remote : Untold(i) = {kind}
                   /\ \A j \in Instances : j[1] = i[1] /\ Untold(j) # {} => j = i
    <2>1. Left = {} /\ i[1] \in Stars
        BY <1>1, NoHand, PartsAre DEF WorkerInv, InOrderInv
    <2>2. i[1] \in active => GivenUp(i)
        BY <1>1, <2>1 DEF WorkerInv, StopsInv
    <2>3. life[i[1]] = "started" => i[1] \in active
        BY <1>1, <2>1 DEF WorkerInv, InOrderInv, HasStarted
    <2>4. ASSUME held[i] # {}, i[1] \notin active PROVE life[i[1]] = "failed" /\ ~single
        <3>1. life[i[1]] \in {"started", "failed"}
            BY <1>1, <2>4 DEF WorkerInv, ReleaseInv, Recorded
        <3> QED
            BY <1>1, <2>1, <2>3, <2>4, <3>1 DEF WorkerInv, InOrderInv
    <2>5. Unrecorded(i)
        BY <1>1 DEF WorkerInv, ReleaseInv
    <2>6. \A kind : ~StartingUp(kind)
        BY <1>1 DEF StartingUp
    <2> QED
        BY <2>2, <2>3, <2>4, <2>5, <2>6 DEF GivenUp, Unrecorded
<1> QED
    BY <1>1 DEF StoppedMeansReleased

(* However many plugins and instances there are, whichever hooks,             *)
(* registrations and removals raise, and whenever the worker is interrupted   *)
(* or the connection breaks: it serves what it announced, and when it has     *)
(* stopped it has given up what it started.                                   *)
THEOREM WorkerKeepsWord == WorkerSpec => []WorkerKeepsItsWord
<1>1. WorkerInv => WorkerKeepsItsWord
    BY PublishedIsServed, StoppedIsReleased DEF WorkerKeepsItsWord
<1> QED
    BY <1>1, WorkerInvHolds, PTL
-----------------------------------------------------------------------------
(* Supervisor: the types, and that the routing tables, the registry and the  *)
(* sessions agree at every await.                                             *)

(* start() opens each session once: what worker_sessions holds lies before    *)
(* the session it is at.                                                      *)
InTurn ==
    /\ main = "idle" => turn = 1
    /\ main = "discarding" => turn \in 1..Len(Sessions)
    /\ main \in {"idle", "opening", "discarding"} =>
          \A w \in sessions : \E n \in 1..turn - 1 : Sessions[n] = w

(* A session serves plugins of its own only, and every one that it reported;  *)
(* a remote worker has none of the names of the local plugins.                *)
ServesItsOwn ==
    \A w \in sessions :
        /\ reported[w] \subseteq Declared[w]
        /\ w \in RemoteOnes => Declared[w] \cap Local = {}
        /\ \A p \in reported[w] : pluginTo[p] = w

(* _capability_sources names the plugin for which the capability would be     *)
(* taken back.                                                                *)
Routed(c) == capabilityTo[c] \notin {NoRoute, ByRouter}
RoutedBySource ==
    \A c \in Offered : Routed(c) =>
        /\ c \in Provided(reported[capabilityTo[c].worker])
        /\ capabilityTo[c].plugin = SourceOf(c, reported[capabilityTo[c].worker])

SupInv ==
    /\ SupTypeOK
    /\ TablesMatch /\ EnabledIsServed /\ BuiltInStays
    /\ InTurn /\ ServesItsOwn /\ RoutedBySource

-----------------------------------------------------------------------------
(* Sessions, names and routes as the code tells them apart.                   *)
LEMMA SessionsAre ==
    /\ Len(Sessions) \in Nat
    /\ \A n \in 1..Len(Sessions) : Sessions[n] \in Started
    /\ \A m, n \in 1..Len(Sessions) : Sessions[m] = Sessions[n] => m = n
BY SupervisorAssumption DEF IsInjective, Started, Range

LEMMA NamesDiffer ==
    /\ Nobody \notin Started /\ Nobody \notin Known /\ Nobody \notin BOOLEAN
    /\ NoRoute # ByRouter
    /\ NoRoute.plugin = Nobody /\ ByRouter.plugin = Nobody
    /\ \A w \in Started, p \in Known :
          /\ [worker |-> w, plugin |-> p] \notin {NoRoute, ByRouter}
          /\ [worker |-> w, plugin |-> p].worker = w
          /\ [worker |-> w, plugin |-> p].plugin = p
<1>1. /\ Nobody \notin Started /\ Nobody \notin Known /\ Nobody \notin BOOLEAN
      /\ Nobody # "router"
    BY SupervisorAssumption
<1>2. NoRoute.plugin = Nobody /\ ByRouter.plugin = Nobody
      /\ NoRoute.worker = Nobody /\ ByRouter.worker = "router"
    BY DEF NoRoute, ByRouter
<1>3. NoRoute # ByRouter
    BY <1>1, <1>2
<1>4. ASSUME NEW w \in Started, NEW p \in Known
      PROVE  [worker |-> w, plugin |-> p] \notin {NoRoute, ByRouter}
    <2>1. [worker |-> w, plugin |-> p].plugin = p
        OBVIOUS
    <2> QED
        BY <1>1, <1>2, <2>1
<1> QED
    BY <1>1, <1>2, <1>3, <1>4

(* A capability that plugins provide has one of them as its source.           *)
LEMMA SourceProvides ==
    ASSUME NEW plugins, NEW c \in Provided(plugins)
    PROVE  SourceOf(c, plugins) \in plugins /\ c \in Exports[SourceOf(c, plugins)]
<1>1. PICK p \in plugins : c \in Exports[p]
    BY DEF Provided
<1> QED
    BY <1>1 DEF SourceOf

LEMMA KnownAre ==
    /\ \A w \in Started : Declared[w] \subseteq Known
    /\ \A w \in Started \ RemoteOnes : Declared[w] \subseteq Local
    /\ \A p \in Known : Exports[p] \subseteq Offered
BY DEF Known, Local, Offered

-----------------------------------------------------------------------------
LEMMA InitEstablishes == SupInit => SupInv
<1> SUFFICES ASSUME SupInit PROVE SupInv
    OBVIOUS
<1>1. SupTypeOK
    BY SessionsAre DEF SupInit, SupTypeOK
<1>2. \A c \in Offered : capabilityTo[c] \in {NoRoute, ByRouter}
    BY DEF SupInit
<1>3. TablesMatch
    BY <1>2 DEF SupInit, TablesMatch
<1>4. EnabledIsServed
    BY NamesDiffer DEF SupInit, EnabledIsServed
<1>5. BuiltInStays
    BY DEF SupInit, BuiltInStays, Offered
<1>6. InTurn /\ ServesItsOwn
    BY DEF SupInit, InTurn, ServesItsOwn
<1>7. RoutedBySource
    BY <1>2 DEF RoutedBySource, Routed
<1> QED
    BY <1>1, <1>3, <1>4, <1>5, <1>6, <1>7 DEF SupInv

(* Steps that leave the tables and the registry alone: start() and stop() go  *)
(* on, a connection changes.                                                  *)
LEMMA TablesStayed ==
    ASSUME SupInv, UNCHANGED <<tables, served>>,
           main \in {"stopping", "stopped"} => main' \in {"stopping", "stopped"},
           InTurn', SupTypeOK'
    PROVE  SupInv'
<1> USE DEF SupInv, tables
<1>1. TablesMatch'
    BY DEF TablesMatch
<1>2. EnabledIsServed' /\ BuiltInStays' /\ ServesItsOwn' /\ RoutedBySource'
    BY DEF EnabledIsServed, BuiltInStays, ServesItsOwn, RoutedBySource, Routed
<1> QED
    BY <1>1, <1>2

(* The steps between two writes of the tables, one by one.                    *)
LEMMA OtherSteps ==
    ASSUME SupInv,
           \/ OpenSession \/ SessionFails \/ Discard \/ Announce \/ Joined
           \/ BeginStop \/ AllStopped
           \/ \E w \in Started : StopSession(w) \/ LoseWorker(w)
    PROVE  SupInv'
<1> USE DEF SupInv
<1> DEFINE Stays == /\ UNCHANGED <<tables, served>>
                    /\ main \in {"stopping", "stopped"} => main' \in {"stopping", "stopped"}
                    /\ InTurn' /\ SupTypeOK'
<1>0. SupTypeOK /\ InTurn
    OBVIOUS
<1> HIDE DEF SupInv
<1>1. CASE OpenSession
    <2>1. SupTypeOK' /\ InTurn'
        BY <1>0, <1>1, SessionsAre DEF OpenSession, SupTypeOK, InTurn, tables
    <2> QED
        BY <1>1, <2>1, TablesStayed DEF OpenSession
<1>2. CASE SessionFails
    <2>1. Current \in Started /\ turn \in 1..Len(Sessions)
        BY <1>0, <1>2, SessionsAre DEF SessionFails, SupTypeOK, Current
    <2>2. SupTypeOK' /\ InTurn'
        BY <1>0, <1>2, <2>1, KnownAre DEF SessionFails, RecordFailure, SupTypeOK, InTurn, tables
    <2> QED
        BY <1>2, <2>2, TablesStayed DEF SessionFails, RecordFailure
<1>3. CASE Discard
    <2>1. turn \in 1..Len(Sessions) /\ turn' = turn + 1 /\ turn' \in 1..Len(Sessions) + 1
        BY <1>0, <1>3, SessionsAre DEF Discard, InTurn
    <2>2. InTurn'
        BY <1>0, <1>3, <2>1 DEF Discard, InTurn, tables
    <2>3. SupTypeOK'
        BY <1>0, <1>3, <2>1 DEF Discard, SupTypeOK, tables
    <2> QED
        BY <1>3, <2>2, <2>3, TablesStayed DEF Discard
<1>4. CASE Announce
    <2> DEFINE plugins == UNION {reported[w] : w \in sessions}
               offered == {c \in Offered : capabilityTo[c] # NoRoute}
    <2>1. plugins \subseteq Known
        <3>1. \A w \in sessions : reported[w] \subseteq Known
            BY <1>0 DEF SupTypeOK
        <3> QED
            BY <3>1
    <2>2. announced' \subseteq Known \cup Offered
        <3>1. announced' = plugins \cup offered
            BY <1>4 DEF Announce
        <3>2. offered \subseteq Offered
            OBVIOUS
        <3> HIDE DEF plugins, offered
        <3> QED
            BY <2>1, <3>1, <3>2
    <2>3. SupTypeOK'
        BY <1>0, <1>4, <2>2 DEF Announce, SupTypeOK, tables
    <2>4. InTurn'
        BY <1>0, <1>4 DEF Announce, InTurn, tables
    <2> QED
        BY <1>4, <2>3, <2>4, TablesStayed DEF Announce
<1>5. CASE Joined \/ BeginStop \/ AllStopped
    <2>1. SupTypeOK' /\ InTurn'
        BY <1>0, <1>5 DEF Joined, BeginStop, AllStopped, SupTypeOK, InTurn, tables
    <2> QED
        BY <1>5, <2>1, TablesStayed DEF Joined, BeginStop, AllStopped
<1>6. ASSUME NEW w \in Started, StopSession(w) \/ LoseWorker(w)
      PROVE  SupInv'
    <2>1. SupTypeOK' /\ InTurn'
        BY <1>0, <1>6 DEF StopSession, LoseWorker, SupTypeOK, InTurn, tables
    <2> QED
        BY <1>6, <2>1, TablesStayed DEF StopSession, LoseWorker
<1> QED
    BY <1>1, <1>2, <1>3, <1>4, <1>5, <1>6

(* The registry before the first session and after the last one.              *)
LEMMA RegistryPublished ==
    ASSUME SupInv, Discover \/ PublishLoaded
    PROVE  SupInv'
<1> USE DEF SupInv
<1>1. UNCHANGED tables
    BY DEF Discover, PublishLoaded
<1>2. InTurn'
    BY <1>1 DEF Discover, PublishLoaded, InTurn, tables
<1>3. served' \in [Known -> BOOLEAN \cup {Nobody}]
    <2>1. ASSUME NEW plugins, NEW on
          PROVE  Upsert(plugins, on) \in [Known -> BOOLEAN \cup {Nobody}]
        <3>1. \A p \in Known : served[p] \in BOOLEAN \cup {Nobody} /\ (p \in on) \in BOOLEAN
            BY DEF SupTypeOK
        <3> QED
            BY <3>1 DEF Upsert
    <2> QED
        BY <2>1 DEF Discover, PublishLoaded
<1>4. SupTypeOK'
    BY <1>1, <1>3 DEF Discover, PublishLoaded, SupTypeOK, tables
<1>5. TablesMatch'
    BY <1>1 DEF TablesMatch, Discover, PublishLoaded, tables
<1>6. EnabledIsServed'
    <2>1. CASE Discover
        <3>1. \A p \in Known : pluginTo[p] = Nobody
            BY <2>1 DEF Discover, InTurn, TablesMatch
        <3> QED
            BY <1>1, <2>1, <3>1 DEF Discover, Upsert, EnabledIsServed, tables
    <2>2. CASE PublishLoaded
        <3>1. \A p \in Known : served'[p] = (IF p \in Local THEN p \in loaded ELSE served[p])
            BY <2>2 DEF PublishLoaded, Upsert
        <3> QED
            BY <1>1, <3>1 DEF EnabledIsServed, TablesMatch, tables
    <2> QED
        BY <2>1, <2>2
<1>7. BuiltInStays' /\ ServesItsOwn' /\ RoutedBySource'
    BY <1>1 DEF BuiltInStays, ServesItsOwn, RoutedBySource, Routed, tables
<1> QED
    BY <1>2, <1>4, <1>5, <1>6, <1>7

-----------------------------------------------------------------------------
(* A session that is registered is new to the tables, and so are its plugins: *)
(* for a remote worker because their names were compared, for a local one     *)
(* because no other session has them.                                         *)
LEMMA NewToTheTables ==
    ASSUME SupInv, main = "opening", turn <= Len(Sessions), ~Conflicts(Current)
    PROVE  /\ Current \in Started /\ Current \notin sessions
           /\ \A p \in Declared[Current] : p \in Known /\ pluginTo[p] = Nobody
           /\ Current \in RemoteOnes => Declared[Current] \cap Local = {}
<1> USE DEF SupInv
<1>1. turn \in 1..Len(Sessions)
    BY SessionsAre DEF SupTypeOK
<1>2. Current \in Started
    BY <1>1, SessionsAre DEF Current
<1>3. Current \notin sessions
    <2>1. \A w \in sessions : \E n \in 1..turn - 1 : Sessions[n] = w
        BY DEF InTurn
    <2> QED
        BY <1>1, <2>1, SessionsAre DEF Current
<1>4. Current \in RemoteOnes => Declared[Current] \cap Local = {}
    BY DEF Conflicts
<1>5. ASSUME NEW p \in Declared[Current]
      PROVE  p \in Known /\ pluginTo[p] = Nobody
    <2>1. p \in Known
        BY <1>2, KnownAre
    <2>2. CASE Current \in RemoteOnes
        BY <2>1, <2>2 DEF Conflicts
    <2>3. ASSUME Current \notin RemoteOnes, pluginTo[p] # Nobody PROVE FALSE
        <3> DEFINE v == pluginTo[p]
        <3>1. v \in sessions /\ p \in reported[v]
            BY <2>1, <2>3 DEF TablesMatch
        <3>2. p \in Declared[v] /\ v \in Started /\ v # Current
            BY <1>3, <3>1 DEF ServesItsOwn, SupTypeOK
        <3>3. p \in Local
            BY <1>2, <2>3, KnownAre
        <3>4. v \notin RemoteOnes
            BY <3>1, <3>2, <3>3 DEF ServesItsOwn
        <3> QED
            BY <1>2, <2>3, <3>2, <3>4, SupervisorAssumption
    <2> QED
        BY <2>1, <2>2, <2>3
<1> QED
    BY <1>2, <1>3, <1>4, <1>5

LEMMA RegisterPreserves ==
    ASSUME SupInv, main = "opening", turn <= Len(Sessions), ~Conflicts(Current),
           NEW plugins \in SUBSET Declared[Current],
           RegisterStarted(Current, plugins)
    PROVE  SupInv'
<1> USE DEF SupInv
<1> DEFINE w == Current
           offers == Provided(plugins)
           refused == {c \in offers : ~Registrable(c, plugins)}
<1>1. /\ w \in Started /\ w \notin sessions
      /\ \A p \in Declared[w] : p \in Known /\ pluginTo[p] = Nobody
      /\ w \in RemoteOnes => Declared[w] \cap Local = {}
    BY NewToTheTables
<1>2. turn \in 1..Len(Sessions)
    BY SessionsAre DEF SupTypeOK
<1>3. plugins \subseteq Known /\ offers \subseteq Offered
    BY <1>1, KnownAre DEF Provided
<1>4. /\ sessions' = sessions \cup {w}
      /\ reported' = [reported EXCEPT ![w] = plugins]
      /\ skipped' = skipped \cup (Declared[w] \ plugins)
      /\ served' = Upsert(Declared[w], plugins)
      /\ pluginTo' = [p \in Known |-> IF p \in plugins THEN w ELSE pluginTo[p]]
      /\ handlerTo' = [p \in Known |-> IF p \in plugins THEN w ELSE handlerTo[p]]
      /\ loaded' = loaded \cup plugins
      /\ conn' = [conn EXCEPT ![w] = IF @ = "lost" THEN @ ELSE "open"]
      /\ UNCHANGED announced
    BY DEF RegisterStarted
<1>5. PICK taken \in SUBSET (offers \ refused) :
        /\ refused = {} => taken = offers
        /\ capabilityTo' = [c \in Offered |->
              IF c \in taken THEN [worker |-> w, plugin |-> SourceOf(c, plugins)]
              ELSE capabilityTo[c]]
        /\ IF refused = {}
           THEN watch' = watch \cup {w} /\ turn' = turn + 1 /\ UNCHANGED <<main, toStop>>
           ELSE main' = "stopping" /\ toStop' = sessions' /\ UNCHANGED <<watch, turn>>
    BY DEF RegisterStarted
<1>6. /\ reported'[w] = plugins
      /\ \A v \in sessions : v # w /\ v \in Started /\ reported'[v] = reported[v]
    BY <1>1, <1>4 DEF SupTypeOK
<1>7. \A c \in taken : /\ c \in Offered /\ capabilityTo[c] = NoRoute
                       /\ SourceOf(c, plugins) \in plugins
                       /\ capabilityTo'[c].worker = w
                       /\ capabilityTo'[c].plugin = SourceOf(c, plugins)
    <2> SUFFICES ASSUME NEW c \in taken
                 PROVE  /\ c \in Offered /\ capabilityTo[c] = NoRoute
                        /\ SourceOf(c, plugins) \in plugins
                        /\ capabilityTo'[c].worker = w
                        /\ capabilityTo'[c].plugin = SourceOf(c, plugins)
        OBVIOUS
    <2>1. c \in offers /\ Registrable(c, plugins)
        BY <1>5
    <2>2. c \in Offered /\ capabilityTo[c] = NoRoute
        BY <1>3, <2>1 DEF Registrable
    <2>3. SourceOf(c, plugins) \in plugins
        BY <2>1, SourceProvides
    <2>4. capabilityTo'[c] = [worker |-> w, plugin |-> SourceOf(c, plugins)]
        BY <1>5, <2>2
    <2> QED
        BY <2>2, <2>3, <2>4
<1>8. \A c \in Offered \ taken : capabilityTo'[c] = capabilityTo[c]
    BY <1>5
<1>9. SupTypeOK'
    <2>1. /\ main' \in {"opening", "stopping"} /\ turn' \in 1..Len(Sessions) + 1
          /\ watch' \subseteq Started /\ toStop' \subseteq Started
          /\ sessions' \subseteq Started
        BY <1>1, <1>2, <1>4, <1>5 DEF SupTypeOK
    <2>2. /\ reported' \in [Started -> SUBSET Known]
          /\ conn' \in [Started -> {"none", "opening", "open", "lost", "stopped"}]
          /\ loaded' \subseteq Known /\ skipped' \subseteq Known
        BY <1>1, <1>3, <1>4, KnownAre DEF SupTypeOK
    <2>3. /\ handlerTo' \in [Known -> Started \cup {Nobody}]
          /\ pluginTo' \in [Known -> Started \cup {Nobody}]
        BY <1>1, <1>4 DEF SupTypeOK
    <2>4. served' \in [Known -> BOOLEAN \cup {Nobody}]
        <3>1. \A p \in Known : served[p] \in BOOLEAN \cup {Nobody} /\ (p \in plugins) \in BOOLEAN
            BY DEF SupTypeOK
        <3> QED
            BY <1>4, <3>1 DEF Upsert
    <2>5. capabilityTo' \in [Offered -> {NoRoute, ByRouter} \cup [worker : Started, plugin : Known]]
        <3>1. ASSUME NEW c \in taken
              PROVE  [worker |-> w, plugin |-> SourceOf(c, plugins)]
                        \in [worker : Started, plugin : Known]
            BY <1>1, <1>3, <1>7
        <3> QED
            BY <1>5, <3>1 DEF SupTypeOK
    <2> QED
        BY <1>4, <2>1, <2>2, <2>3, <2>4, <2>5 DEF SupTypeOK
<1>10. InTurn'
    <2>1. CASE refused = {}
        <3>1. main' = "opening" /\ turn' = turn + 1 /\ Sessions[turn] = w
            BY <1>5, <2>1 DEF Current
        <3>2. \A v \in sessions : \E n \in 1..turn - 1 : Sessions[n] = v
            BY DEF InTurn
        <3>3. \A v \in sessions' : \E n \in 1..turn' - 1 : Sessions[n] = v
            BY <1>2, <1>4, <3>1, <3>2
        <3> QED
            BY <3>1, <3>3 DEF InTurn
    <2>2. CASE refused # {}
        BY <1>5, <2>2 DEF InTurn
    <2> QED
        BY <2>1, <2>2
<1>11. ServesItsOwn'
    <2> SUFFICES ASSUME NEW v \in sessions'
                 PROVE  /\ reported'[v] \subseteq Declared[v]
                        /\ v \in RemoteOnes => Declared[v] \cap Local = {}
                        /\ \A p \in reported'[v] : pluginTo'[p] = v
        BY DEF ServesItsOwn
    <2>1. CASE v = w
        BY <1>1, <1>3, <1>4, <1>6, <2>1
    <2>2. CASE v \in sessions
        <3>1. \A p \in reported[v] : p \in Known /\ pluginTo[p] = v /\ v # Nobody
            BY <1>6, <2>2, NamesDiffer DEF ServesItsOwn, SupTypeOK
        <3>2. \A p \in reported[v] : p \notin plugins
            BY <1>1, <3>1
        <3> QED
            BY <1>4, <1>6, <2>2, <3>1, <3>2 DEF ServesItsOwn
    <2> QED
        BY <1>4, <2>1, <2>2
<1>12. RoutedBySource'
    <2> SUFFICES ASSUME NEW c \in Offered, Routed(c)'
                 PROVE  /\ c \in Provided(reported'[capabilityTo'[c].worker])
                        /\ capabilityTo'[c].plugin = SourceOf(c, reported'[capabilityTo'[c].worker])
        BY DEF RoutedBySource
    <2>1. CASE c \in taken
        BY <1>5, <1>6, <1>7, <2>1
    <2>2. CASE c \notin taken
        <3>1. capabilityTo'[c] = capabilityTo[c] /\ Routed(c)
            BY <1>8, <2>2 DEF Routed
        <3>2. capabilityTo[c].worker \in sessions
            BY <3>1 DEF TablesMatch, Routed
        <3> QED
            BY <1>6, <3>1, <3>2 DEF RoutedBySource
    <2> QED
        BY <2>1, <2>2
<1>13. EnabledIsServed'
    <2> SUFFICES ASSUME NEW p \in Known
                 PROVE  (served'[p] = TRUE) <=> pluginTo'[p] # Nobody
        BY DEF EnabledIsServed
    <2>1. served'[p] = (IF p \in Declared[w] THEN p \in plugins ELSE served[p])
        BY <1>4 DEF Upsert
    <2>2. pluginTo'[p] = IF p \in plugins THEN w ELSE pluginTo[p]
        BY <1>4
    <2>3. (served[p] = TRUE) <=> pluginTo[p] # Nobody
        BY DEF EnabledIsServed
    <2>4. CASE p \in plugins
        <3>1. served'[p] = TRUE
            BY <2>1, <2>4
        <3> QED
            BY <1>1, <2>2, <2>4, <3>1, NamesDiffer
    <2>5. CASE p \in Declared[w] \ plugins
        <3>1. p \in Declared[w] /\ p \notin plugins
            BY <2>5
        <3>2. served'[p] = (p \in plugins)
            BY <2>1, <3>1
        <3>3. served'[p] # TRUE
            BY <3>1, <3>2, Zenon
        <3>4. pluginTo'[p] = Nobody
            BY <1>1, <2>2, <2>5
        <3> QED
            BY <3>3, <3>4
    <2>6. CASE p \notin Declared[w]
        BY <2>1, <2>2, <2>3, <2>6
    <2> QED
        BY <2>4, <2>5, <2>6
<1>14. BuiltInStays'
    <2>1. \A c \in BuiltIn : c \in Offered /\ c \notin taken
        BY <1>7, NamesDiffer DEF BuiltInStays, Offered
    <2> QED
        BY <1>8, <2>1 DEF BuiltInStays
<1>15. TablesMatch'
    <2>1. ASSUME NEW p \in Known
          PROVE  /\ handlerTo'[p] = pluginTo'[p]
                 /\ (p \in loaded') <=> pluginTo'[p] # Nobody
                 /\ pluginTo'[p] # Nobody =>
                       pluginTo'[p] \in sessions' /\ p \in reported'[pluginTo'[p]]
        BY <1>1, <1>4, <1>6, NamesDiffer DEF TablesMatch
    <2>2. ASSUME NEW c \in Offered, capabilityTo'[c] \notin {NoRoute, ByRouter}
          PROVE  /\ capabilityTo'[c].worker \in sessions'
                 /\ pluginTo'[capabilityTo'[c].plugin] = capabilityTo'[c].worker
        <3>1. CASE c \in taken
            BY <1>3, <1>4, <1>7, <3>1
        <3>2. CASE c \notin taken
            <4> DEFINE p == capabilityTo[c].plugin
            <4>1. /\ capabilityTo'[c] = capabilityTo[c]
                  /\ capabilityTo[c].worker \in sessions
                  /\ pluginTo[p] = capabilityTo[c].worker
                BY <1>8, <2>2, <3>2 DEF TablesMatch
            <4>2. p \in Known
                BY <2>2, <4>1 DEF SupTypeOK
            <4>3. p \notin plugins
                BY <1>1, <1>6, <4>1, NamesDiffer
            <4> QED
                BY <1>4, <4>1, <4>2, <4>3
        <3> QED
            BY <3>1, <3>2
    <2>3. ASSUME main' \notin {"stopping", "stopped"}, NEW v \in sessions',
                 NEW p \in reported'[v]
          PROVE  pluginTo'[p] = v /\ \A c \in Exports[p] : capabilityTo'[c].worker = v
        <3>1. refused = {} /\ taken = offers
            BY <1>5, <2>3
        <3>2. CASE v = w
            BY <1>3, <1>4, <1>6, <1>7, <2>3, <3>1, <3>2 DEF Provided
        <3>3. CASE v \in sessions
            <4>1. /\ p \in reported[v] /\ pluginTo[p] = v /\ p \in Known
                  /\ \A c \in Exports[p] : c \in Offered /\ capabilityTo[c].worker = v
                BY <1>6, <2>3, <3>3, KnownAre DEF TablesMatch, SupTypeOK
            <4>2. pluginTo'[p] = v
                BY <1>11, <2>3 DEF ServesItsOwn
            <4>3. \A c \in Exports[p] : c \notin taken
                BY <1>6, <1>7, <3>3, <4>1, NamesDiffer DEF NoRoute
            <4> QED
                BY <1>8, <4>1, <4>2, <4>3
        <3> QED
            BY <1>4, <3>2, <3>3
    <2> QED
        BY <2>1, <2>2, <2>3 DEF TablesMatch
<1> QED
    BY <1>9, <1>10, <1>11, <1>12, <1>13, <1>14, <1>15

-----------------------------------------------------------------------------
(* What is routed to a session that is forgotten is found by its plugins, and *)
(* nothing else is.                                                           *)
LEMMA ForgetPreserves ==
    ASSUME SupInv, NEW w \in Started, WorkerClosed(w)
    PROVE  SupInv'
<1> USE DEF SupInv
<1>1. /\ watch' = watch \ {w}
      /\ UNCHANGED <<main, turn, conn, reported, skipped, announced, toStop>>
    BY DEF WorkerClosed
<1>2. CASE w \notin sessions
    <2>1. UNCHANGED <<tables, served>>
        BY <1>2 DEF WorkerClosed, tables
    <2>2. SupTypeOK' /\ InTurn'
        BY <1>1, <2>1 DEF SupTypeOK, InTurn, tables
    <2> QED
        BY <1>1, <2>1, <2>2, TablesStayed
<1>3. CASE w \in sessions
    <2> DEFINE mine(c) == /\ c \in Provided(reported[w])
                          /\ capabilityTo[c].plugin = SourceOf(c, reported[w])
    <2>1. /\ sessions' = sessions \ {w}
          /\ handlerTo' = [p \in Known |-> IF p \in reported[w] THEN Nobody ELSE handlerTo[p]]
          /\ pluginTo' = [p \in Known |-> IF p \in reported[w] THEN Nobody ELSE pluginTo[p]]
          /\ capabilityTo' = [c \in Offered |-> IF mine(c) THEN NoRoute ELSE capabilityTo[c]]
          /\ loaded' = loaded \ reported[w]
          /\ served' = [p \in Known |->
                IF p \in reported[w] /\ served[p] # Nobody THEN FALSE ELSE served[p]]
        BY <1>3 DEF WorkerClosed, ForgetSession
    <2>2. \A p \in Known : p \in reported[w] <=> pluginTo[p] = w
        BY <1>3, NamesDiffer DEF ServesItsOwn, TablesMatch
    <2>3. ASSUME NEW c \in Offered, Routed(c)
          PROVE  /\ capabilityTo[c].plugin \in Known
                 /\ capabilityTo[c].worker \in sessions
                 /\ pluginTo[capabilityTo[c].plugin] = capabilityTo[c].worker
                 /\ mine(c) <=> capabilityTo[c].worker = w
        <3>1. /\ capabilityTo[c].plugin \in Known
              /\ capabilityTo[c].worker \in sessions
              /\ pluginTo[capabilityTo[c].plugin] = capabilityTo[c].worker
            BY <2>3 DEF Routed, SupTypeOK, TablesMatch
        <3>2. mine(c) => capabilityTo[c].plugin \in reported[w]
            BY SourceProvides
        <3>3. capabilityTo[c].worker = w => mine(c)
            BY <2>3 DEF RoutedBySource
        <3> QED
            BY <2>2, <3>1, <3>2, <3>3
    <2>4. ASSUME NEW c \in Offered, mine(c) PROVE Routed(c)
        <3>1. capabilityTo[c].plugin \in reported[w] /\ reported[w] \subseteq Known
            BY <2>4, SourceProvides DEF SupTypeOK
        <3> QED
            BY <3>1, NamesDiffer DEF Routed
    <2>5. \A c \in Offered : IF mine(c) THEN capabilityTo'[c] = NoRoute
                                        ELSE capabilityTo'[c] = capabilityTo[c]
        BY <2>1
    <2> HIDE DEF mine
    <2>6. SupTypeOK'
        <3>1. capabilityTo' \in [Offered -> {NoRoute, ByRouter} \cup [worker : Started, plugin : Known]]
            BY <2>1 DEF SupTypeOK
        <3>2. served' \in [Known -> BOOLEAN \cup {Nobody}]
            BY <2>1 DEF SupTypeOK
        <3>3. /\ handlerTo' \in [Known -> Started \cup {Nobody}]
              /\ pluginTo' \in [Known -> Started \cup {Nobody}]
            BY <2>1 DEF SupTypeOK
        <3> QED
            BY <1>1, <2>1, <3>1, <3>2, <3>3 DEF SupTypeOK
    <2>7. InTurn'
        BY <1>1, <2>1 DEF InTurn
    <2>8. ServesItsOwn'
        <3> SUFFICES ASSUME NEW v \in sessions'
                     PROVE  /\ reported'[v] \subseteq Declared[v]
                            /\ v \in RemoteOnes => Declared[v] \cap Local = {}
                            /\ \A p \in reported'[v] : pluginTo'[p] = v
            BY DEF ServesItsOwn
        <3>1. /\ v \in sessions /\ v # w /\ reported'[v] = reported[v]
              /\ \A p \in reported[v] : p \in Known /\ pluginTo[p] = v
            BY <1>1, <2>1 DEF ServesItsOwn, SupTypeOK
        <3>2. \A p \in reported[v] : p \notin reported[w]
            BY <2>2, <3>1
        <3> QED
            BY <2>1, <3>1, <3>2 DEF ServesItsOwn
    <2>9. RoutedBySource'
        <3> SUFFICES ASSUME NEW c \in Offered, Routed(c)'
                     PROVE  /\ c \in Provided(reported'[capabilityTo'[c].worker])
                            /\ capabilityTo'[c].plugin
                                  = SourceOf(c, reported'[capabilityTo'[c].worker])
            BY DEF RoutedBySource
        <3>1. capabilityTo'[c] = capabilityTo[c] /\ Routed(c)
            BY <2>5 DEF Routed
        <3> QED
            BY <1>1, <3>1 DEF RoutedBySource
    <2>10. EnabledIsServed'
        <3> SUFFICES ASSUME NEW p \in Known
                     PROVE  (served'[p] = TRUE) <=> pluginTo'[p] # Nobody
            BY DEF EnabledIsServed
        <3>1. (served[p] = TRUE) <=> pluginTo[p] # Nobody
            BY DEF EnabledIsServed
        <3>2. CASE p \in reported[w]
            <4>1. pluginTo'[p] = Nobody
                BY <2>1, <3>2
            <4>2. served'[p] = IF served[p] # Nobody THEN FALSE ELSE Nobody
                BY <2>1, <3>2
            <4> QED
                BY <4>1, <4>2, NamesDiffer
        <3>3. CASE p \notin reported[w]
            BY <2>1, <3>1, <3>3
        <3> QED
            BY <3>2, <3>3
    <2>11. BuiltInStays'
        <3> SUFFICES ASSUME NEW c \in BuiltIn PROVE capabilityTo'[c] = ByRouter
            BY DEF BuiltInStays
        <3>1. c \in Offered /\ capabilityTo[c] = ByRouter
            BY DEF BuiltInStays, Offered
        <3>2. ~mine(c)
            BY <2>4, <3>1 DEF Routed
        <3> QED
            BY <2>5, <3>1, <3>2
    <2>12. TablesMatch'
        <3>1. ASSUME NEW p \in Known
              PROVE  /\ handlerTo'[p] = pluginTo'[p]
                     /\ (p \in loaded') <=> pluginTo'[p] # Nobody
                     /\ pluginTo'[p] # Nobody =>
                           pluginTo'[p] \in sessions' /\ p \in reported'[pluginTo'[p]]
            BY <1>1, <2>1, <2>2 DEF TablesMatch
        <3>2. ASSUME NEW c \in Offered, capabilityTo'[c] \notin {NoRoute, ByRouter}
              PROVE  /\ capabilityTo'[c].worker \in sessions'
                     /\ pluginTo'[capabilityTo'[c].plugin] = capabilityTo'[c].worker
            <4>1. capabilityTo'[c] = capabilityTo[c] /\ Routed(c) /\ ~mine(c)
                BY <2>5, <3>2 DEF Routed
            <4>2. /\ capabilityTo[c].plugin \in Known
                  /\ capabilityTo[c].worker \in sessions
                  /\ pluginTo[capabilityTo[c].plugin] = capabilityTo[c].worker
                  /\ capabilityTo[c].worker # w
                BY <2>3, <4>1
            <4>3. capabilityTo[c].plugin \notin reported[w]
                BY <2>2, <4>2
            <4> QED
                BY <2>1, <4>1, <4>2, <4>3
        <3>3. ASSUME main' \notin {"stopping", "stopped"}, NEW v \in sessions',
                     NEW p \in reported'[v]
              PROVE  pluginTo'[p] = v /\ \A c \in Exports[p] : capabilityTo'[c].worker = v
            <4>1. /\ v \in sessions /\ v # w /\ p \in reported[v] /\ p \in Known
                  /\ \A c \in Exports[p] : c \in Offered /\ capabilityTo[c].worker = v
                BY <1>1, <2>1, <3>3, KnownAre DEF TablesMatch, SupTypeOK
            <4>2. \A c \in Exports[p] : ~mine(c)
                BY <2>3, <2>4, <4>1
            <4> QED
                BY <1>1, <2>5, <2>8, <3>3, <4>1, <4>2 DEF ServesItsOwn
        <3> QED
            BY <3>1, <3>2, <3>3 DEF TablesMatch
    <2> QED
        BY <2>6, <2>7, <2>8, <2>9, <2>10, <2>11, <2>12
<1> QED
    BY <1>2, <1>3

-----------------------------------------------------------------------------
LEMMA NextPreserves == SupInv /\ [SupNext]_supVars => SupInv'
<1> SUFFICES ASSUME SupInv, [SupNext]_supVars PROVE SupInv'
    OBVIOUS
<1>1. CASE Discover \/ PublishLoaded
    BY <1>1, RegistryPublished
<1>2. CASE \/ OpenSession \/ SessionFails \/ Discard \/ Announce \/ Joined
           \/ BeginStop \/ AllStopped
           \/ \E w \in Started : StopSession(w) \/ LoseWorker(w)
    BY <1>2, OtherSteps
<1>3. CASE SessionInitialized
    <2>1. PICK plugins \in SUBSET Declared[Current] \ {{}} :
             IF Conflicts(Current) THEN RecordFailure
                                   ELSE RegisterStarted(Current, plugins)
        BY <1>3 DEF SessionInitialized
    <2>2. CASE Conflicts(Current)
        <3>1. SessionFails
            BY <1>3, <2>1, <2>2 DEF SessionInitialized, SessionFails
        <3> QED
            BY <3>1, OtherSteps
    <2>3. CASE ~Conflicts(Current)
        BY <1>3, <2>1, <2>3, RegisterPreserves DEF SessionInitialized
    <2> QED
        BY <2>2, <2>3
<1>4. ASSUME NEW w \in Started, WorkerClosed(w) PROVE SupInv'
    BY <1>4, ForgetPreserves
<1>5. CASE UNCHANGED supVars
    <2>1. UNCHANGED <<tables, served>> /\ SupTypeOK' /\ InTurn' /\ main' = main
        BY <1>5 DEF supVars, tables, SupInv, SupTypeOK, InTurn
    <2> QED
        BY <2>1, TablesStayed
<1> QED
    BY <1>1, <1>2, <1>3, <1>4, <1>5 DEF SupNext

LEMMA InvariantHolds == SupSpec => []SupInv
<1> QED
    BY InitEstablishes, NextPreserves, PTL DEF SupSpec

(* start(), stop() and the tasks that watch the workers keep the types of     *)
(* everything they share.                                                     *)
THEOREM SupervisorTyped == SupSpec => []SupTypeOK
<1>1. SupInv => SupTypeOK
    BY DEF SupInv
<1> QED
    BY <1>1, InvariantHolds, PTL

(* Whoever dies when, and whatever names the workers claim: what the tables   *)
(* route is routed to the session that reported it, the registry calls        *)
(* exactly that enabled, and the router's own capabilities stay its own.      *)
THEOREM RoutesAgreed == SupSpec => []RoutesAgree
<1>1. SupInv => RoutesAgree
    BY DEF SupInv, RoutesAgree
<1> QED
    BY <1>1, InvariantHolds, PTL

(* Who runs is known: a worker that is opened is the one start() is at, one   *)
(* that runs is in the tables, and what is in the tables is watched.          *)
Counted ==
    /\ main \notin {"stopping", "stopped"} => sessions \subseteq watch
    /\ \A w \in Started :
          /\ conn[w] = "opening" =>
                main \in {"opening", "discarding"} /\ turn <= Len(Sessions) /\ w = Current
          /\ conn[w] = "open" =>
                w \in sessions /\ main # "stopped" /\ (main = "stopping" => w \in toStop)

LEMMA CountedInit == SupInit => Counted
    BY DEF SupInit, Counted

(* A session starts, fails or is discarded.                                   *)
LEMMA StartsCounted ==
    ASSUME SupInv, Counted, OpenSession \/ SessionFails \/ Discard
    PROVE  Counted'
<1>1. conn \in [Started -> {"none", "opening", "open", "lost", "stopped"}]
    BY DEF SupInv, SupTypeOK
<1>2. CASE OpenSession
    <2>1. main = "opening" /\ turn <= Len(Sessions) /\ conn' = [conn EXCEPT ![Current] = "opening"]
          /\ UNCHANGED <<main, turn, watch, sessions, toStop>>
        BY <1>2 DEF OpenSession, tables
    <2> QED
        BY <1>1, <2>1 DEF Counted, Current
<1>3. CASE SessionFails
    <2>1. main = "opening" /\ main' = "discarding" /\ UNCHANGED <<turn, conn, watch, sessions, toStop>>
        BY <1>3 DEF SessionFails, RecordFailure, tables
    <2> QED
        BY <2>1 DEF Counted, Current
<1>4. CASE Discard
    <2>1. /\ main = "discarding" /\ main' = "opening" /\ UNCHANGED <<watch, sessions, toStop>>
          /\ conn' = [conn EXCEPT ![Current] = IF @ = "opening" THEN "stopped" ELSE @]
        BY <1>4 DEF Discard, tables
    <2>2. \A w \in Started : conn'[w] # "opening" /\ (conn'[w] = "open" => conn[w] = "open")
        BY <1>1, <2>1 DEF Counted
    <2> QED
        BY <2>1, <2>2 DEF Counted
<1> QED
    BY <1>2, <1>3, <1>4

(* What the session has loaded is taken up, or the exception of a name it may *)
(* not claim ends start(): either way the worker is in the tables by then.    *)
LEMMA RegisteredCounted ==
    ASSUME SupInv, Counted, SessionInitialized
    PROVE  Counted'
<1>1. /\ conn \in [Started -> {"none", "opening", "open", "lost", "stopped"}]
      /\ main = "opening" /\ turn <= Len(Sessions) /\ turn \in Nat
    BY SessionsAre DEF SessionInitialized, SupInv, SupTypeOK
<1>2. PICK plugins \in SUBSET Declared[Current] \ {{}} :
          IF Conflicts(Current) THEN RecordFailure ELSE RegisterStarted(Current, plugins)
    BY DEF SessionInitialized
<1>3. CASE Conflicts(Current)
    <2>1. SessionFails
        BY <1>2, <1>3 DEF SessionInitialized, SessionFails
    <2> QED
        BY <2>1, StartsCounted
<1>4. CASE ~Conflicts(Current)
    <2>1. /\ sessions' = sessions \cup {Current}
          /\ conn' = [conn EXCEPT ![Current] = IF @ = "lost" THEN @ ELSE "open"]
          /\ \/ watch' = watch \cup {Current} /\ UNCHANGED <<main, toStop>>
             \/ main' = "stopping" /\ toStop' = sessions' /\ UNCHANGED <<watch, turn>>
        BY <1>2, <1>4 DEF RegisterStarted
    <2>2. \A w \in Started : /\ conn'[w] # "opening"
                             /\ conn'[w] = "open" => w \in sessions'
        BY <1>1, <2>1 DEF Counted
    <2>3. CASE watch' = watch \cup {Current} /\ UNCHANGED <<main, toStop>>
        BY <1>1, <2>1, <2>2, <2>3 DEF Counted
    <2>4. CASE main' = "stopping" /\ toStop' = sessions'
        BY <2>2, <2>4 DEF Counted
    <2> QED
        BY <2>1, <2>3, <2>4
<1> QED
    BY <1>3, <1>4

(* start() joins the core, stop() goes through its copy of the sessions.      *)
LEMMA StopsCounted ==
    ASSUME SupInv, Counted,
           \/ Discover \/ PublishLoaded \/ Announce \/ Joined \/ BeginStop \/ AllStopped
           \/ \E w \in Started : StopSession(w)
    PROVE  Counted'
<1>1. /\ conn \in [Started -> {"none", "opening", "open", "lost", "stopped"}]
      /\ turn \in Nat /\ Len(Sessions) \in Nat
    BY SessionsAre DEF SupInv, SupTypeOK
<1>2. CASE Discover \/ PublishLoaded \/ Announce \/ Joined
    <2>1. /\ UNCHANGED <<turn, conn, watch, sessions, toStop>>
          /\ main \notin {"stopping", "stopped"} /\ main' \notin {"stopping", "stopped"}
          /\ main \in {"opening", "discarding"} => turn > Len(Sessions)
        BY <1>2 DEF Discover, PublishLoaded, Announce, Joined, tables
    <2> QED
        BY <1>1, <2>1 DEF Counted, Current
<1>3. CASE BeginStop
    <2>1. /\ main \in {"joining", "announcing", "serving"} /\ main' = "stopping"
          /\ toStop' = sessions /\ UNCHANGED <<turn, conn, watch, sessions>>
        BY <1>3 DEF BeginStop, tables
    <2> QED
        BY <2>1 DEF Counted
<1>4. CASE AllStopped
    <2>1. /\ main = "stopping" /\ toStop = {} /\ main' = "stopped"
          /\ UNCHANGED <<turn, conn, watch, sessions, toStop>>
        BY <1>4 DEF AllStopped, tables
    <2> QED
        BY <2>1 DEF Counted
<1>5. ASSUME NEW w \in Started, StopSession(w) PROVE Counted'
    <2>1. /\ main = "stopping" /\ toStop' = toStop \ {w} /\ UNCHANGED <<main, turn, watch, sessions>>
          /\ conn' = [conn EXCEPT ![w] = IF @ = "open" THEN "stopped" ELSE @]
        BY <1>5 DEF StopSession, tables
    <2>2. \A v \in Started : /\ conn'[v] = "open" => conn[v] = "open" /\ v # w
                             /\ conn'[v] = "opening" => conn[v] = "opening"
        BY <1>1, <2>1
    <2> QED
        BY <2>1, <2>2 DEF Counted
<1> QED
    BY <1>2, <1>3, <1>4, <1>5

LEMMA DeathsCounted ==
    ASSUME SupInv, Counted, NEW w \in Started, LoseWorker(w) \/ WorkerClosed(w)
    PROVE  Counted'
<1>1. conn \in [Started -> {"none", "opening", "open", "lost", "stopped"}]
    BY DEF SupInv, SupTypeOK
<1>2. CASE LoseWorker(w)
    <2>1. conn' = [conn EXCEPT ![w] = "lost"] /\ UNCHANGED <<main, turn, watch, sessions, toStop>>
        BY <1>2 DEF LoseWorker, tables
    <2>2. \A v \in Started : conn'[v] \in {"open", "opening"} => conn'[v] = conn[v]
        BY <1>1, <2>1
    <2> QED
        BY <2>1, <2>2 DEF Counted, Current
<1>3. CASE WorkerClosed(w)
    <2>1. /\ conn[w] \in {"lost", "stopped"} /\ watch' = watch \ {w}
          /\ UNCHANGED <<main, turn, conn, toStop>>
          /\ sessions' = sessions \ {w}
        BY <1>3 DEF WorkerClosed, ForgetSession
    <2> QED
        BY <2>1 DEF Counted, Current
<1> QED
    BY <1>2, <1>3

LEMMA CountedNext == SupInv /\ Counted /\ [SupNext]_supVars => Counted'
<1> SUFFICES ASSUME SupInv, Counted, [SupNext]_supVars PROVE Counted'
    OBVIOUS
<1>1. CASE UNCHANGED supVars
    BY <1>1 DEF supVars, tables, Counted, Current
<1> QED
    BY <1>1, StartsCounted, RegisteredCounted, StopsCounted, DeathsCounted DEF SupNext

(* However early a worker is lost there is a task that will clean up after    *)
(* it, and stop() misses no worker: not one whose registration raised, nor    *)
(* one that was never published.  For any number of workers and deaths.       *)
THEOREM NoWorkerIsLeft == SupSpec => []NoWorkerLeft
<1>1. Counted => NoWorkerLeft
    BY DEF Counted, NoWorkerLeft
<1>2. SupSpec => []Counted
    BY CountedInit, CountedNext, InvariantHolds, PTL DEF SupSpec
<1> QED
    BY <1>1, <1>2, PTL

-----------------------------------------------------------------------------
(* Environments: sets and functions of numbers. *)

(* A set of numbers that are bounded has a least one.                         *)
LEMMA Lowest ==
    ASSUME NEW m \in Nat, NEW S \in SUBSET (0..m), S # {}
    PROVE  /\ Min(S) \in S
           /\ \A d \in S : Min(S) <= d
<1>1. PICK back \in SUBSET (0..m) : back = {m - c : c \in S}
    <2>1. {m - c : c \in S} \in SUBSET (0..m)
        OBVIOUS
    <2> QED
        BY <2>1
<1>2. back # {}
    BY <1>1
<1>3. PICK b \in back : \A d \in back : d <= b
    BY <1>2, Greatest
<1>4. PICK c \in S : b = m - c
    BY <1>1
<1>5. ASSUME NEW d \in S PROVE c <= d
    <2>1. m - d \in back
        BY <1>1
    <2>2. m - d <= m - c
        BY <1>3, <1>4, <2>1
    <2> QED
        BY <2>2
<1> QED
    BY <1>5 DEF Min

Rule(last, T, s0, F) == last \in Nat /\ s0 \in T /\ F \in [1..last -> [T -> T]]

(* What a rule gives from turn to turn is a function.                         *)
LEMMA Iterates ==
    ASSUME NEW last, NEW T, NEW s0, NEW F, Rule(last, T, s0, F)
    PROVE  \E f \in [0..last -> T] :
               f[0] = s0 /\ \A n \in 1..last : f[n] = F[n][f[n - 1]]
<1> DEFINE Does(f, n) == f \in [0..n -> T] /\ f[0] = s0 /\ \A k \in 1..n : f[k] = F[k][f[k - 1]]
           S == {n \in Nat : n <= last => \E f : Does(f, n)}
<1>0. last \in Nat /\ s0 \in T /\ F \in [1..last -> [T -> T]]
    BY DEF Rule
<1>1. 0 \in S
    <2>0. s0 \in T
        BY <1>0
    <2>1. Does([k \in 0..0 |-> s0], 0)
        BY <2>0
    <2> QED
        BY <2>1
<1>2. ASSUME NEW n \in Nat, n \in S, n + 1 <= last PROVE n + 1 \in S
    <2>1. n <= last
        BY <1>0, <1>2
    <2>2. PICK f : Does(f, n)
        BY <1>2, <2>1
    <2>3. PICK v \in T : v = F[n + 1][f[n]]
        <3>1. f[n] \in T /\ n + 1 \in 1..last
            BY <1>0, <1>2, <2>2
        <3>2. F[n + 1][f[n]] \in T
            BY <1>0, <3>1
        <3> QED
            BY <3>2
    <2> DEFINE g == [k \in 0..n + 1 |-> IF k = n + 1 THEN v ELSE f[k]]
    <2>4. g \in [0..n + 1 -> T]
        BY <2>2
    <2>5. g[0] = s0
        BY <2>2
    <2>6. ASSUME NEW k \in 1..n + 1 PROVE g[k] = F[k][g[k - 1]]
        <3>1. CASE k = n + 1
            <4>1. g[k] = v /\ k - 1 = n /\ g[n] = f[n]
                BY <3>1
            <4> QED
                BY <2>3, <3>1, <4>1
        <3>2. CASE k # n + 1
            <4>1. k \in 1..n /\ k - 1 \in 0..n /\ k - 1 # n + 1
                BY <3>2
            <4>2. g[k] = f[k] /\ g[k - 1] = f[k - 1]
                BY <3>2, <4>1
            <4> QED
                BY <2>2, <4>1, <4>2
        <3> QED
            BY <3>1, <3>2
    <2>7. Does(g, n + 1)
        BY <2>4, <2>5, <2>6
    <2> HIDE DEF Does
    <2>8. \E h : Does(h, n + 1)
        BY <2>7
    <2> QED
        BY <2>8
<1>3. \A n \in Nat : n \in S => n + 1 \in S
    <2> SUFFICES ASSUME NEW n \in Nat, n \in S PROVE n + 1 \in S
        OBVIOUS
    <2>1. CASE n + 1 <= last
        BY <1>2, <2>1
    <2>2. CASE ~(n + 1 <= last)
        BY <2>2
    <2> QED
        BY <2>1, <2>2
<1>4. last \in S
    <2> HIDE DEF S
    <2> QED
        BY <1>0, <1>1, <1>3, UpTo
<1> QED
    BY <1>4

-----------------------------------------------------------------------------
(* Environments: the plan. *)

(* Groups in which the plugins of D, and no other, have each one place, next  *)
(* to plugins that want the same Python.                                      *)
GroupsOf(groups, D) ==
    /\ groups \in Seq(Groups)
    /\ \A m, n \in DOMAIN groups : m # n => groups[m] \cap groups[n] = {}
    /\ \A n \in DOMAIN groups : \A p, q \in groups[n] : PythonOf[p] = PythonOf[q]
    /\ \A p \in PluginNos : p \in D <=> \E n \in DOMAIN groups : p \in groups[n]

(* _build_candidate_groups puts a plugin somewhere, and only there.           *)
LEMMA PlacedIsGroup ==
    ASSUME NEW groups \in Seq(Groups), NEW p \in PluginNos
    PROVE  /\ Placed(groups, p) \in Seq(Groups)
           /\ \A D \in SUBSET PluginNos :
                  GroupsOf(groups, D) /\ p \notin D => GroupsOf(Placed(groups, p), D \cup {p})
<1>1. PICK len \in Nat : len = Len(groups) /\ DOMAIN groups = 1..len
    OBVIOUS
<1>2. PICK fits \in SUBSET (1..len) :
          fits = {n \in DOMAIN groups :
                    /\ \A q \in groups[n] : PythonOf[q] = PythonOf[p]
                    /\ Compatible(groups[n] \cup {p})}
    <2> DEFINE these == {n \in DOMAIN groups :
                    /\ \A q \in groups[n] : PythonOf[q] = PythonOf[p]
                    /\ Compatible(groups[n] \cup {p})}
    <2>1. these \in SUBSET (1..len)
        BY <1>1
    <2> QED
        BY <2>1
<1>3. Placed(groups, p) = IF fits = {} THEN Append(groups, {p})
                          ELSE [groups EXCEPT ![Min(fits)] = @ \cup {p}]
    BY <1>2 DEF Placed
<1>4. {p} \in Groups
    <2>1. {p} # {} /\ {p} \in SUBSET PluginNos
        OBVIOUS
    <2> QED
        BY <2>1 DEF Groups
<1>5. CASE fits = {}
    <2>1. PICK now : now = Placed(groups, p)
        OBVIOUS
    <2>2. /\ now = Append(groups, {p}) /\ now \in Seq(Groups)
          /\ DOMAIN now = 1..len + 1 /\ now[len + 1] = {p}
          /\ \A n \in 1..len : now[n] = groups[n]
        BY <1>1, <1>3, <1>4, <1>5, <2>1
    <2>3. ASSUME NEW D \in SUBSET PluginNos, GroupsOf(groups, D), p \notin D
          PROVE  GroupsOf(now, D \cup {p})
        <3>1. \A n \in 1..len : p \notin groups[n]
            BY <1>1, <2>3 DEF GroupsOf
        <3>2. \A n \in 1..len + 1 : n \in 1..len \/ n = len + 1
            OBVIOUS
        <3>3. \A n \in 1..len : n \in 1..len + 1
            OBVIOUS
        <3>3a. len + 1 \in 1..len + 1
            OBVIOUS
        <3>4. \A m, n \in 1..len + 1 : m # n => now[m] \cap now[n] = {}
            <4> SUFFICES ASSUME NEW m \in 1..len + 1, NEW n \in 1..len + 1, m # n
                         PROVE  now[m] \cap now[n] = {}
                OBVIOUS
            <4>1. CASE m \in 1..len /\ n \in 1..len
                BY <1>1, <2>2, <2>3, <4>1 DEF GroupsOf
            <4>2. CASE m \in 1..len /\ n = len + 1
                BY <2>2, <3>1, <4>2
            <4>3. CASE n \in 1..len /\ m = len + 1
                BY <2>2, <3>1, <4>3
            <4> QED
                BY <3>2, <4>1, <4>2, <4>3
        <3>5. \A n \in 1..len + 1 : \A q, r \in now[n] : PythonOf[q] = PythonOf[r]
            BY <1>1, <2>2, <2>3, <3>2 DEF GroupsOf
        <3>6. \A q \in PluginNos : q \in D \cup {p} <=> \E n \in 1..len + 1 : q \in now[n]
            <4> SUFFICES ASSUME NEW q \in PluginNos
                         PROVE  q \in D \cup {p} <=> \E n \in 1..len + 1 : q \in now[n]
                OBVIOUS
            <4>1. q \in D <=> \E n \in 1..len : q \in groups[n]
                BY <1>1, <2>3 DEF GroupsOf
            <4> QED
                BY <2>2, <3>2, <3>3, <3>3a, <4>1
        <3> QED
            BY <2>2, <3>4, <3>5, <3>6 DEF GroupsOf
    <2> QED
        BY <2>1, <2>2, <2>3
<1>6. CASE fits # {}
    <2>1. PICK k \in fits : k = Min(fits)
        <3>1. fits \in SUBSET (0..len)
            BY <1>2
        <3>2. Min(fits) \in fits
            BY <1>6, <3>1, Lowest
        <3> QED
            BY <3>2
    <2>2. PICK now : now = Placed(groups, p)
        OBVIOUS
    <2>3. k \in 1..len /\ groups[k] \in Groups /\ groups[k] \cup {p} \in Groups
        <3>1. k \in 1..len /\ groups[k] \in Groups
            BY <1>1, <2>1
        <3>2. groups[k] \cup {p} # {} /\ groups[k] \cup {p} \in SUBSET PluginNos
            BY <3>1 DEF Groups
        <3> QED
            BY <3>1, <3>2 DEF Groups
    <2>4. /\ now \in Seq(Groups)
          /\ DOMAIN now = 1..len /\ now[k] = groups[k] \cup {p}
          /\ \A n \in 1..len : n # k => now[n] = groups[n]
        BY <1>1, <1>3, <1>6, <2>1, <2>2, <2>3
    <2>5. ASSUME NEW D \in SUBSET PluginNos, GroupsOf(groups, D), p \notin D
          PROVE  GroupsOf(now, D \cup {p})
        <3>1. \A n \in 1..len : p \notin groups[n]
            BY <1>1, <2>5 DEF GroupsOf
        <3>2. \A m, n \in 1..len : m # n => groups[m] \cap groups[n] = {}
            BY <1>1, <2>5 DEF GroupsOf
        <3>4. \A m, n \in 1..len : m # n => now[m] \cap now[n] = {}
            BY <2>4, <3>1, <3>2
        <3>5. \A n \in 1..len : \A q, r \in now[n] : PythonOf[q] = PythonOf[r]
            <4>1. \A q \in groups[k] : PythonOf[q] = PythonOf[p]
                BY <1>2, <2>1
            <4>2. \A n \in 1..len : \A q, r \in groups[n] : PythonOf[q] = PythonOf[r]
                BY <1>1, <2>5 DEF GroupsOf
            <4> QED
                BY <2>4, <4>1, <4>2
        <3>6. \A q \in PluginNos : q \in D \cup {p} <=> \E n \in 1..len : q \in now[n]
            <4> SUFFICES ASSUME NEW q \in PluginNos
                         PROVE  q \in D \cup {p} <=> \E n \in 1..len : q \in now[n]
                OBVIOUS
            <4>1. q \in D <=> \E n \in 1..len : q \in groups[n]
                BY <1>1, <2>5 DEF GroupsOf
            <4> QED
                BY <2>3, <2>4, <4>1
        <3> QED
            BY <2>4, <3>4, <3>5, <3>6 DEF GroupsOf
    <2> QED
        BY <2>2, <2>4, <2>5
<1> QED
    BY <1>5, <1>6

TurnIs(t) == {p \in PluginNos : TurnOf(p) = t}
PlacedBy(t) == {p \in PluginNos : TurnOf(p) <= t}

(* Every plugin has a turn, and no turn is that of two.                       *)
LEMMA TurnsDiffer ==
    /\ 2 * NumPlugins \in Nat
    /\ \A p \in PluginNos : TurnOf(p) \in 1..2 * NumPlugins
    /\ \A p, q \in PluginNos : TurnOf(p) = TurnOf(q) => p = q
    BY EnvAssumption DEF TurnOf, PluginNos

(* What is grouped after one more turn.                                       *)
TurnTaken(t, groups) ==
    IF TurnIs(t) = {} THEN groups ELSE Placed(groups, CHOOSE p \in TurnIs(t) : TRUE)

LEMMA GroupedIs ==
    /\ DOMAIN Grouped = 0..2 * NumPlugins
    /\ Grouped[0] = <<>>
    /\ \A t \in 1..2 * NumPlugins : Grouped[t] = TurnTaken(t, Grouped[t - 1])
    /\ \A t \in 0..2 * NumPlugins : Grouped[t] \in Seq(Groups)
<1>1. PICK last \in Nat : last = 2 * NumPlugins
    BY TurnsDiffer
<1> DEFINE Turn == [t \in 1..last |-> [groups \in Seq(Groups) |-> TurnTaken(t, groups)]]
<1>2. <<>> \in Seq(Groups)
    OBVIOUS
<1>3. \A t \in 1..last : \A groups \in Seq(Groups) : TurnTaken(t, groups) \in Seq(Groups)
    <2> SUFFICES ASSUME NEW t \in 1..last, NEW groups \in Seq(Groups)
                 PROVE  TurnTaken(t, groups) \in Seq(Groups)
        OBVIOUS
    <2>1. CASE TurnIs(t) = {}
        BY <2>1 DEF TurnTaken
    <2>2. CASE TurnIs(t) # {}
        <3>1. (CHOOSE p \in TurnIs(t) : TRUE) \in PluginNos
            BY <2>2 DEF TurnIs
        <3>2. Placed(groups, CHOOSE p \in TurnIs(t) : TRUE) \in Seq(Groups)
            BY <3>1, PlacedIsGroup
        <3> QED
            BY <2>2, <3>2 DEF TurnTaken
    <2> QED
        BY <2>1, <2>2
<1>4. Turn \in [1..last -> [Seq(Groups) -> Seq(Groups)]]
    BY <1>3
<1>5. PICK f \in [0..last -> Seq(Groups)] :
          f[0] = <<>> /\ \A t \in 1..last : f[t] = Turn[t][f[t - 1]]
    <2>1. PICK end, all, first, rule :
              end = last /\ all = Seq(Groups) /\ first = <<>> /\ rule = Turn
        OBVIOUS
    <2>2. Rule(end, all, first, rule)
        BY <1>2, <1>4, <2>1 DEF Rule
    <2> HIDE DEF Turn
    <2>3. \E f \in [0..end -> all] :
              f[0] = first /\ \A n \in 1..end : f[n] = rule[n][f[n - 1]]
        BY <2>2, Iterates
    <2> QED
        BY <2>1, <2>3
<1>6. \A t \in 1..last : f[t] = TurnTaken(t, f[t - 1])
    <2> SUFFICES ASSUME NEW t \in 1..last PROVE f[t] = TurnTaken(t, f[t - 1])
        OBVIOUS
    <2>1. f[t - 1] \in Seq(Groups)
        BY <1>5
    <2> QED
        BY <1>5, <2>1
<1> DEFINE Turns(g) == [t \in 0..2 * NumPlugins |->
                         IF t = 0 THEN <<>> ELSE TurnTaken(t, g[t - 1])]
<1>7. f = Turns(f)
    BY <1>1, <1>5, <1>6
<1>8. Grouped = CHOOSE g : g = Turns(g)
    BY DEF Grouped, TurnTaken, TurnIs
<1>9. Grouped = Turns(Grouped)
    BY <1>7, <1>8
<1>10. /\ DOMAIN Grouped = 0..last /\ Grouped[0] = <<>>
       /\ \A t \in 1..last : Grouped[t] = TurnTaken(t, Grouped[t - 1])
    <2>1. 0 \in 0..last /\ \A t \in 1..last : t \in 0..last /\ t # 0
        OBVIOUS
    <2> QED
        BY <1>1, <1>9, <2>1
<1> DEFINE S == {n \in Nat : n <= last => Grouped[n] \in Seq(Groups)}
<1>11. 0 \in S
    BY <1>2, <1>10
<1>12. \A n \in Nat : n \in S => n + 1 \in S
    <2> SUFFICES ASSUME NEW n \in Nat, n \in S, n + 1 <= last
                 PROVE  Grouped[n + 1] \in Seq(Groups)
        OBVIOUS
    <2>1. n + 1 \in 1..last /\ n + 1 - 1 = n /\ Grouped[n] \in Seq(Groups)
        OBVIOUS
    <2> QED
        BY <1>3, <1>10, <2>1
<1>13. \A n \in Nat : n \in S
    <2> HIDE DEF S
    <2> QED
        BY <1>11, <1>12, UpTo
<1>14. \A t \in 0..last : Grouped[t] \in Seq(Groups)
    BY <1>13
<1> QED
    BY <1>1, <1>10, <1>14

(* After each turn the plugins whose turn it was, and no others, have a place. *)
LEMMA GroupedWell ==
    \A t \in 0..2 * NumPlugins : GroupsOf(Grouped[t], PlacedBy(t))
<1>1. PICK last \in Nat : last = 2 * NumPlugins
    BY TurnsDiffer
<1> DEFINE S == {n \in Nat : n <= last => GroupsOf(Grouped[n], PlacedBy(n))}
<1>2. 0 \in S
    <2>1. Grouped[0] = <<>> /\ DOMAIN <<>> = 1..0 /\ <<>> \in Seq(Groups)
        BY GroupedIs
    <2>2. PlacedBy(0) = {}
        BY TurnsDiffer DEF PlacedBy
    <2>3. GroupsOf(<<>>, {})
        BY <2>1 DEF GroupsOf
    <2> QED
        BY <2>1, <2>2, <2>3
<1>3. ASSUME NEW n \in Nat, n \in S, n + 1 <= last PROVE GroupsOf(Grouped[n + 1], PlacedBy(n + 1))
    <2>1. /\ n \in 0..last /\ n + 1 \in 1..last /\ n + 1 - 1 = n
          /\ GroupsOf(Grouped[n], PlacedBy(n))
        BY <1>3
    <2>2. Grouped[n] \in Seq(Groups) /\ Grouped[n + 1] = TurnTaken(n + 1, Grouped[n])
        BY <1>1, <2>1, GroupedIs
    <2>3. CASE TurnIs(n + 1) = {}
        <3>1. PlacedBy(n + 1) = PlacedBy(n)
            BY <2>1, <2>3, TurnsDiffer DEF PlacedBy, TurnIs
        <3> QED
            BY <2>1, <2>2, <2>3, <3>1 DEF TurnTaken
    <2>4. CASE TurnIs(n + 1) # {}
        <3>1. PICK p \in TurnIs(n + 1) : p = CHOOSE q \in TurnIs(n + 1) : TRUE
            BY <2>4
        <3>2. p \in PluginNos /\ TurnOf(p) = n + 1 /\ p \notin PlacedBy(n)
            BY <3>1, <2>1 DEF TurnIs, PlacedBy
        <3>3. PlacedBy(n + 1) = PlacedBy(n) \cup {p}
            BY <2>1, <3>2, TurnsDiffer DEF PlacedBy
        <3>4. PlacedBy(n) \in SUBSET PluginNos
            BY DEF PlacedBy
        <3>5. GroupsOf(Placed(Grouped[n], p), PlacedBy(n) \cup {p})
            BY <2>1, <2>2, <3>2, <3>4, PlacedIsGroup
        <3>6. Grouped[n + 1] = Placed(Grouped[n], p)
            BY <2>2, <2>4, <3>1 DEF TurnTaken
        <3> QED
            BY <3>3, <3>5, <3>6
    <2> QED
        BY <2>3, <2>4
<1>4. \A n \in Nat : n \in S => n + 1 \in S
    BY <1>3
<1>5. \A n \in Nat : n \in S
    <2> HIDE DEF S
    <2> QED
        BY <1>2, <1>4, UpTo
<1> QED
    BY <1>1, <1>5

(* The candidates share the plugins out among themselves, whatever their      *)
(* requirements.                                                              *)
LEMMA CandidatesShare ==
    /\ Candidates \in SUBSET Groups
    /\ \A g, h \in Candidates : g # h => g \cap h = {}
    /\ \A g \in Candidates : \A p, q \in g : PythonOf[p] = PythonOf[q]
    /\ \A p \in PluginNos : \E g \in Candidates : p \in g
<1>1. PICK groups \in Seq(Groups) : groups = Grouped[2 * NumPlugins]
    <2>1. 2 * NumPlugins \in 0..2 * NumPlugins
        BY TurnsDiffer
    <2>2. Grouped[2 * NumPlugins] \in Seq(Groups)
        BY <2>1, GroupedIs
    <2> QED
        BY <2>2
<1>2. GroupsOf(groups, PlacedBy(2 * NumPlugins))
    BY <1>1, TurnsDiffer, GroupedWell
<1>3. PlacedBy(2 * NumPlugins) = PluginNos
    BY TurnsDiffer DEF PlacedBy
<1>4. Candidates = {groups[n] : n \in DOMAIN groups}
    BY <1>1 DEF Candidates, Range
<1>5. \A n \in DOMAIN groups : groups[n] \in Groups
    OBVIOUS
<1> QED
    BY <1>2, <1>3, <1>4, <1>5 DEF GroupsOf

(* Whatever uv cannot solve, every plugin is planned once or refused, next to *)
(* plugins that want the same Python and no other version of a package.       *)
LEMMA PlanIsSound ==
    ASSUME NEW unsolvable
    PROVE  LET M == Materialized(unsolvable) IN
           /\ M \in SUBSET Groups /\ Refused(unsolvable) \in SUBSET PluginNos
           /\ \A p \in PluginNos : p \in Refused(unsolvable) \/ \E g \in M : p \in g
           /\ \A g, h \in M : g # h => g \cap h = {}
           /\ \A g \in M : /\ \A p, q \in g : PythonOf[p] = PythonOf[q]
                           /\ Cardinality(PinsOf(g)) <= 1
<1> DEFINE M == Materialized(unsolvable)
           whole == {g \in Candidates : Solves(g, unsolvable)}
           alone == {q \in Alone(unsolvable) : Solves({q}, unsolvable)}
<1>1. PICK C \in SUBSET Groups : C = Candidates
    BY CandidatesShare
<1>2. /\ \A g, h \in C : g # h => g \cap h = {}
      /\ \A g \in C : \A p, q \in g : PythonOf[p] = PythonOf[q]
      /\ \A p \in PluginNos : \E g \in C : p \in g
    BY <1>1, CandidatesShare
<1>3. \A q : q \in Alone(unsolvable) <=> \E g \in C : q \in g /\ ~Solves(g, unsolvable)
    BY <1>1 DEF Alone
<1>4. \A g \in C : g \in SUBSET PluginNos /\ g # {}
    BY <1>1 DEF Groups
<1>5. Alone(unsolvable) \in SUBSET PluginNos
    BY <1>3, <1>4
<1>6. M = whole \cup {{p} : p \in alone}
    BY DEF Materialized
<1>7. \A g : g \in M <=> (g \in C /\ Solves(g, unsolvable)) \/ \E p \in alone : g = {p}
    BY <1>1, <1>6
<1>8. \A p \in alone : {p} \in Groups
    <2>1. \A p \in alone : {p} \in SUBSET PluginNos /\ {p} # {}
        BY <1>5
    <2> QED
        BY <2>1 DEF Groups
<1>8a. \A p \in alone : p \in Alone(unsolvable) /\ Solves({p}, unsolvable)
    OBVIOUS
<1>8b. \A p \in Alone(unsolvable) : p \notin alone => p \in Refused(unsolvable)
    BY DEF Refused
<1>8c. Refused(unsolvable) \in SUBSET PluginNos
    BY <1>5 DEF Refused
<1> HIDE DEF M, alone
<1>9. M \in SUBSET Groups /\ Refused(unsolvable) \in SUBSET PluginNos
    <2>1. M \subseteq Groups
        BY <1>1, <1>7, <1>8
    <2> QED
        BY <1>8c, <2>1
<1>10. ASSUME NEW p \in PluginNos PROVE p \in Refused(unsolvable) \/ \E g \in M : p \in g
    <2>1. PICK g \in C : p \in g
        BY <1>2
    <2>2. CASE Solves(g, unsolvable)
        BY <1>7, <2>1, <2>2
    <2>3. CASE ~Solves(g, unsolvable)
        <3>1. p \in Alone(unsolvable)
            BY <1>3, <2>1, <2>3
        <3>2. CASE p \in alone
            <4>1. {p} \in M
                BY <1>7, <3>2
            <4> QED
                BY <4>1
        <3>3. CASE p \notin alone
            BY <1>8b, <3>1, <3>3
        <3> QED
            BY <3>2, <3>3
    <2> QED
        BY <2>2, <2>3
<1>11. ASSUME NEW g \in M, NEW h \in M, g # h, NEW p \in g, p \in h PROVE FALSE
    <2>1. CASE Solves(g, unsolvable) /\ g \in C /\ Solves(h, unsolvable) /\ h \in C
        BY <1>2, <1>11, <2>1
    <2>2. ASSUME NEW x \in C, Solves(x, unsolvable), p \in x, p \in alone PROVE FALSE
        <3>1. PICK y \in C : p \in y /\ ~Solves(y, unsolvable)
            BY <1>3, <1>8a, <2>2
        <3>2. y # x
            BY <2>2, <3>1
        <3> QED
            BY <1>2, <2>2, <3>1, <3>2
    <2>3. ASSUME NEW x \in C, NEW q \in alone, Solves(x, unsolvable), p \in x, p = q PROVE FALSE
        BY <1>8a, <2>2, <2>3
    <2>4. \/ g \in C /\ Solves(g, unsolvable)
          \/ \E q \in alone : g = {q}
        BY <1>7
    <2>5. \/ h \in C /\ Solves(h, unsolvable)
          \/ \E q \in alone : h = {q}
        BY <1>7
    <2>6. \/ g \in C /\ Solves(g, unsolvable)
          \/ g = {p} /\ p \in alone
        BY <2>4
    <2>7. \/ h \in C /\ Solves(h, unsolvable)
          \/ h = {p} /\ p \in alone
        BY <2>5, <1>11
    <2> QED
        BY <1>11, <2>1, <2>3, <2>6, <2>7
<1>12. ASSUME NEW g \in M
       PROVE  (\A p, q \in g : PythonOf[p] = PythonOf[q]) /\ Solves(g, unsolvable)
    <2>1. CASE g \in C /\ Solves(g, unsolvable)
        BY <1>2, <2>1
    <2>2. CASE \E q \in alone : g = {q}
        <3>1. PICK q \in alone : g = {q}
            BY <2>2
        <3>2. Solves(g, unsolvable)
            BY <1>8a, <3>1
        <3>3. \A a, b \in g : PythonOf[a] = PythonOf[b]
            BY <3>1
        <3> QED
            BY <3>2, <3>3
    <2> QED
        BY <1>7, <2>1, <2>2
<1>13. \A g \in M : Cardinality(PinsOf(g)) <= 1
    BY <1>12 DEF Solves
<1>14. \A g, h \in M : g # h => g \cap h = {}
    BY <1>11
<1> QED
    BY <1>9, <1>10, <1>12, <1>13, <1>14 DEF M

-----------------------------------------------------------------------------
(* Environments: what the files and the plan keep. *)

(* Every group has its three files, whatever they hold.                       *)
FilesAre ==
    /\ lockFile = [g \in Groups |-> lockFile[g]] /\ venv = [g \in Groups |-> venv[g]]
    /\ stateFile = [g \in Groups |-> stateFile[g]]

(* A state file that can be read tells what is installed, unless uv has been  *)
(* at work since.                                                             *)
RecordTells ==
    \A g \in Groups : stateFile[g] \in Specs(g) =>
        /\ venv[g] \in Specs(g) \cup {Mixed}
        /\ g \notin torn => venv[g] = stateFile[g]

(* One group at a time is prepared, and it is neither ready nor to be done:   *)
(* one that gets a new environment has no state file that can be read, one    *)
(* whose state is written has just been installed.                            *)
JobKept ==
    \/ job = NoJob
    \/ /\ phase = "preparing"
       /\ \E g \in plan, next \in {"venv", "sync", "state"} :
             /\ job = [group |-> g, next |-> next] /\ g \notin todo /\ g \notin ready
             /\ next = "venv" => stateFile[g] \in {NoFile, Broken}
             /\ next = "state" => venv[g] = LockOf(g)

OffIsIdle ==
    phase = "off" => plan = {} /\ leftOut = {} /\ todo = {} /\ job = NoJob /\ ready = {}

(* Requirements change only while the supervisor is off, so that the lock     *)
(* files of a plan stay the requirements.                                     *)
LocksStand == \A g \in plan : lockFile[g] = LockOf(g)

EnvInv ==
    /\ EnvTypeOK /\ FilesAre /\ RecordTells /\ JobKept /\ OffIsIdle /\ LocksStand
    /\ PlanSound /\ NeverOutdated

FilesTyped ==
    \A g \in Groups : /\ lockFile[g] \in Specs(g) \cup {NoFile}
                      /\ venv[g] \in Specs(g) \cup {NoFile, Mixed, <<>>}
                      /\ stateFile[g] \in Specs(g) \cup {NoFile, Broken}
                      /\ venv[g] = NoFile => stateFile[g] = NoFile

PlanTyped ==
    /\ starts \in 0..MaxStarts /\ phase \in {"off", "preparing", "running"}
    /\ plan \subseteq Groups /\ todo \subseteq plan /\ ready \subseteq plan \ todo
    /\ leftOut \subseteq PluginNos
    /\ job.group \in plan \cup {{}} /\ job.next \in {"none", "venv", "sync", "state"}
    /\ torn \subseteq Groups

LEMMA TypesAre == EnvTypeOK <=> pinned \in Specs(PluginNos) /\ FilesTyped /\ PlanTyped
    BY DEF EnvTypeOK, FilesTyped, PlanTyped

LEMMA LockIsSpec ==
    ASSUME pinned \in Specs(PluginNos), NEW g \in Groups
    PROVE  LockOf(g) \in Specs(g) /\ LockOf(g) \notin {NoFile, Broken, Mixed}
<1>1. g \subseteq PluginNos
    BY DEF Groups
<1>2. LockOf(g) \in Specs(g)
    BY <1>1 DEF LockOf, Specs
<1>3. {NoFile, Broken, Mixed} \cap Specs(g) = {}
    BY EnvAssumption
<1> QED
    BY <1>2, <1>3

LEMMA MarksDiffer ==
    ASSUME NEW g \in Groups
    PROVE  /\ NoFile \notin Specs(g) /\ Broken \notin Specs(g) /\ Mixed \notin Specs(g)
           /\ NoFile # Broken /\ NoFile # Mixed /\ Broken # Mixed
<1>1. {NoFile, Broken, Mixed} \cap Specs(g) = {}
    BY EnvAssumption
<1> QED
    BY <1>1, EnvAssumption

(* The environment and the state file of one group are changed.               *)
FilesBecome(g, v, s) ==
    /\ lockFile' = lockFile
    /\ venv' = [h \in Groups |-> IF h = g THEN v ELSE venv[h]]
    /\ stateFile' = [h \in Groups |-> IF h = g THEN s ELSE stateFile[h]]

MayBecome(g, v, s) ==
    /\ v \in Specs(g) \cup {NoFile, Mixed, <<>>} /\ s \in Specs(g) \cup {NoFile, Broken}
    /\ v = NoFile => s = NoFile
    /\ s \in Specs(g) => /\ v \in Specs(g) \cup {Mixed}
                         /\ g \notin torn' => v = s
    /\ \A h \in Groups : h # g /\ h \in torn => h \in torn'

LEMMA FilesChange ==
    ASSUME EnvInv, NEW g \in Groups, NEW v, NEW s, FilesBecome(g, v, s), MayBecome(g, v, s)
    PROVE  /\ FilesAre' /\ FilesTyped' /\ RecordTells'
           /\ venv'[g] = v /\ stateFile'[g] = s
           /\ \A h \in Groups : h # g => venv'[h] = venv[h] /\ stateFile'[h] = stateFile[h]
<1>1. FilesAre /\ FilesTyped /\ RecordTells
    BY TypesAre DEF EnvInv
<1>2. /\ lockFile' = lockFile /\ venv'[g] = v /\ stateFile'[g] = s
      /\ \A h \in Groups : h # g => venv'[h] = venv[h] /\ stateFile'[h] = stateFile[h]
    BY DEF FilesBecome
<1>3. FilesAre'
    BY <1>1 DEF FilesBecome, FilesAre
<1>4. FilesTyped'
    <2> SUFFICES ASSUME NEW h \in Groups
                 PROVE  /\ lockFile'[h] \in Specs(h) \cup {NoFile}
                        /\ venv'[h] \in Specs(h) \cup {NoFile, Mixed, <<>>}
                        /\ stateFile'[h] \in Specs(h) \cup {NoFile, Broken}
                        /\ venv'[h] = NoFile => stateFile'[h] = NoFile
        BY DEF FilesTyped
    <2>1. CASE h = g
        BY <1>1, <1>2, <2>1 DEF FilesTyped, MayBecome
    <2>2. CASE h # g
        BY <1>1, <1>2, <2>2 DEF FilesTyped
    <2> QED
        BY <2>1, <2>2
<1>5. RecordTells'
    <2> SUFFICES ASSUME NEW h \in Groups, stateFile'[h] \in Specs(h)
                 PROVE  /\ venv'[h] \in Specs(h) \cup {Mixed}
                        /\ h \notin torn' => venv'[h] = stateFile'[h]
        BY DEF RecordTells
    <2>1. CASE h = g
        BY <1>2, <2>1 DEF MayBecome
    <2>2. CASE h # g
        BY <1>1, <1>2, <2>2 DEF RecordTells, MayBecome
    <2> QED
        BY <2>1, <2>2
<1> QED
    BY <1>2, <1>3, <1>4, <1>5

(* The plan does not change while it is carried out.                          *)
LEMMA PlanStays ==
    ASSUME EnvInv, UNCHANGED <<pinned, lockFile, plan, leftOut>>,
           phase # "off" \/ UNCHANGED phase
    PROVE  /\ PlanSound' /\ LocksStand' /\ pinned' \in Specs(PluginNos)
           /\ \A g : LockOf(g)' = LockOf(g)
<1>1. \A g : LockOf(g)' = LockOf(g) /\ PinsOf(g)' = PinsOf(g)
    BY DEF LockOf, PinsOf
<1>2. LocksStand /\ PlanSound
    BY DEF EnvInv
<1>3. LocksStand'
    BY <1>1, <1>2 DEF LocksStand
<1>4. PlanSound'
    BY <1>1, <1>2 DEF PlanSound
<1> QED
    BY <1>1, <1>3, <1>4, TypesAre DEF EnvInv

(* Nothing is left of a plan when the supervisor is off.                      *)
LEMMA OffKeeps ==
    ASSUME EnvInv, Off, FilesAre', FilesTyped', RecordTells', torn' \subseteq Groups,
           pinned' \in Specs(PluginNos), starts' \in 0..MaxStarts
    PROVE  EnvInv'
<1>1. /\ phase' = "off" /\ plan' = {} /\ leftOut' = {} /\ todo' = {}
      /\ job' = NoJob /\ ready' = {}
    BY DEF Off
<1>2. NoJob.group = {} /\ NoJob.next = "none"
    BY DEF NoJob
<1>3. PlanTyped'
    BY <1>1, <1>2 DEF PlanTyped
<1>4. EnvTypeOK'
    BY <1>3 DEF EnvTypeOK, FilesTyped, PlanTyped
<1>5. JobKept' /\ OffIsIdle'
    BY <1>1 DEF JobKept, OffIsIdle, NoJob
<1>6. LocksStand' /\ PlanSound' /\ NeverOutdated'
    BY <1>1 DEF LocksStand, PlanSound, NeverOutdated
<1> QED
    BY <1>4, <1>5, <1>6 DEF EnvInv

LEMMA EnvInitEstablishes == EnvInit => EnvInv
<1> SUFFICES ASSUME EnvInit PROVE EnvInv
    OBVIOUS
<1>1. /\ lockFile = [g \in Groups |-> NoFile] /\ venv = [g \in Groups |-> NoFile]
      /\ stateFile = [g \in Groups |-> NoFile]
      /\ starts = 0 /\ phase = "off" /\ plan = {} /\ leftOut = {} /\ todo = {}
      /\ job = NoJob /\ ready = {} /\ torn = {}
    BY DEF EnvInit
<1>2. pinned \in Specs(PluginNos)
    BY EnvAssumption DEF EnvInit
<1>3. \A g \in Groups : lockFile[g] = NoFile /\ venv[g] = NoFile /\ stateFile[g] = NoFile
    BY <1>1
<1>4. FilesAre
    BY <1>1, <1>3 DEF FilesAre
<1>5. FilesTyped /\ RecordTells
    BY <1>3, MarksDiffer DEF FilesTyped, RecordTells
<1>6. PlanTyped
    BY <1>1, EnvAssumption DEF PlanTyped, NoJob
<1>7. JobKept /\ OffIsIdle
    BY <1>1 DEF JobKept, OffIsIdle
<1>8. LocksStand /\ PlanSound /\ NeverOutdated
    BY <1>1 DEF LocksStand, PlanSound, NeverOutdated
<1> QED
    BY <1>2, <1>4, <1>5, <1>6, <1>7, <1>8, TypesAre DEF EnvInv

(* One group's environment was worked on.                                     *)
Worked(g, v, s) ==
    /\ phase = "preparing" /\ g \notin ready
    /\ UNCHANGED <<pinned, starts, phase, plan, leftOut, todo>>
    /\ torn' \subseteq Groups /\ \A h \in Groups : h # g => (h \in torn <=> h \in torn')
    /\ ready' \subseteq plan \ todo
    /\ \A h \in ready' : h \in ready \/ (h = g /\ v = LockOf(g))
    /\ JobKept' /\ job'.group \in plan \cup {{}}
    /\ job'.next \in {"none", "venv", "sync", "state"}

LEMMA GroupWorked ==
    ASSUME EnvInv, NEW g \in plan, NEW v, NEW s,
           FilesBecome(g, v, s), MayBecome(g, v, s), Worked(g, v, s)
    PROVE  EnvInv'
<1>0. /\ phase = "preparing" /\ g \notin ready
      /\ UNCHANGED <<pinned, starts, phase, plan, leftOut, todo>>
      /\ torn' \subseteq Groups /\ \A h \in Groups : h # g => (h \in torn <=> h \in torn')
      /\ ready' \subseteq plan \ todo
      /\ \A h \in ready' : h \in ready \/ (h = g /\ v = LockOf(g))
      /\ JobKept' /\ job'.group \in plan \cup {{}}
      /\ job'.next \in {"none", "venv", "sync", "state"}
    BY DEF Worked
<1>1. plan \subseteq Groups /\ g \in Groups
    BY DEF EnvInv, EnvTypeOK
<1>2. /\ FilesAre' /\ FilesTyped' /\ RecordTells'
      /\ venv'[g] = v /\ stateFile'[g] = s
      /\ \A h \in Groups : h # g => venv'[h] = venv[h] /\ stateFile'[h] = stateFile[h]
    BY <1>1, FilesChange
<1>3. lockFile' = lockFile
    BY DEF FilesBecome
<1>4. /\ PlanSound' /\ LocksStand' /\ pinned' \in Specs(PluginNos)
      /\ \A h : LockOf(h)' = LockOf(h)
    BY <1>0, <1>3, PlanStays
<1>5. PlanTyped'
    BY <1>0, <1>1, TypesAre DEF EnvInv, PlanTyped
<1>6. EnvTypeOK'
    BY <1>2, <1>4, <1>5 DEF EnvTypeOK, FilesTyped, PlanTyped
<1>7. NeverOutdated'
    <2> SUFFICES ASSUME NEW h \in ready'
                 PROVE  \/ venv'[h] = LockOf(h)'
                        \/ h \in torn' /\ venv'[h] \in Specs(h) \cup {Mixed}
        BY DEF NeverOutdated
    <2>0. h \in Groups
        BY <1>0, <1>1
    <2>1. CASE h = g
        BY <1>0, <1>2, <1>4, <2>1
    <2>2. CASE h # g
        <3>1. h \in ready /\ venv'[h] = venv[h] /\ (h \in torn => h \in torn')
            BY <1>0, <1>2, <2>0, <2>2
        <3>2. venv[h] = LockOf(h) \/ (h \in torn /\ venv[h] \in Specs(h) \cup {Mixed})
            BY <3>1 DEF EnvInv, NeverOutdated
        <3> QED
            BY <1>4, <3>1, <3>2
    <2> QED
        BY <2>1, <2>2
<1>8. OffIsIdle'
    BY <1>0 DEF OffIsIdle
<1> QED
    BY <1>0, <1>2, <1>4, <1>6, <1>7, <1>8 DEF EnvInv

(* What a job is about.                                                       *)
LEMMA JobIs ==
    ASSUME EnvInv, NEW g, NEW step, job = [group |-> g, next |-> step],
           step \in {"venv", "sync", "state"}
    PROVE  /\ phase = "preparing" /\ g \in plan /\ g \in Groups /\ g \notin todo /\ g \notin ready
           /\ step = "venv" => stateFile[g] \in {NoFile, Broken}
           /\ step = "state" => venv[g] = LockOf(g)
           /\ lockFile[g] = LockOf(g) /\ LockOf(g) \in Specs(g)
<1>1. job # NoJob
    BY DEF NoJob
<1>2. PICK h \in plan, next \in {"venv", "sync", "state"} :
          /\ job = [group |-> h, next |-> next] /\ h \notin todo /\ h \notin ready
          /\ next = "venv" => stateFile[h] \in {NoFile, Broken}
          /\ next = "state" => venv[h] = LockOf(h)
    BY <1>1 DEF EnvInv, JobKept
<1>3. h = g /\ next = step
    BY <1>2
<1>4. phase = "preparing"
    BY <1>1 DEF EnvInv, JobKept
<1>5. g \in Groups /\ pinned \in Specs(PluginNos)
    BY <1>2, <1>3 DEF EnvInv, EnvTypeOK
<1> QED
    BY <1>2, <1>3, <1>4, <1>5, LockIsSpec DEF EnvInv, LocksStand

(* A file that is written is that file, and no other.                         *)
LEMMA FileWritten ==
    ASSUME NEW f, f = [h \in Groups |-> f[h]], NEW g \in Groups, NEW v
    PROVE  /\ [f EXCEPT ![g] = v] = [h \in Groups |-> IF h = g THEN v ELSE f[h]]
           /\ v = f[g] => f = [h \in Groups |-> IF h = g THEN v ELSE f[h]]
    OBVIOUS

LEMMA OldFiles ==
    ASSUME EnvInv, NEW g \in Groups
    PROVE  /\ lockFile[g] \in Specs(g) \cup {NoFile}
           /\ venv[g] \in Specs(g) \cup {NoFile, Mixed, <<>>}
           /\ stateFile[g] \in Specs(g) \cup {NoFile, Broken}
           /\ venv[g] = NoFile => stateFile[g] = NoFile
           /\ stateFile[g] \in Specs(g) => /\ venv[g] \in Specs(g) \cup {Mixed}
                                           /\ g \notin torn => venv[g] = stateFile[g]
           /\ venv = [h \in Groups |-> venv[h]] /\ stateFile = [h \in Groups |-> stateFile[h]]
           /\ torn \subseteq Groups
    BY DEF EnvInv, EnvTypeOK, FilesAre, RecordTells

LEMMA CreateVenvKeeps == ASSUME EnvInv, NEW g \in Groups, CreateVenv(g) PROVE EnvInv'
<1>1. job = [group |-> g, next |-> "venv"]
    BY DEF CreateVenv, Working
<1>2. /\ phase = "preparing" /\ g \in plan /\ g \notin todo /\ g \notin ready
    BY <1>1, JobIs
<1>3. /\ stateFile' = [stateFile EXCEPT ![g] = NoFile] /\ torn' = torn \ {g}
      /\ UNCHANGED <<pinned, lockFile, starts, phase, plan, leftOut, todo>>
    BY DEF CreateVenv, idleVars
<1>4. /\ UNCHANGED ready
      /\ \/ venv' = [venv EXCEPT ![g] = <<>>] /\ job' = [group |-> g, next |-> "sync"]
         \/ venv' = [venv EXCEPT ![g] = NoFile] /\ job' = NoJob
    BY <1>1 DEF CreateVenv, Failed
<1>5. ready \subseteq plan \ todo
    BY DEF EnvInv, EnvTypeOK
<1>6. PICK v \in {<<>>, NoFile} : venv' = [venv EXCEPT ![g] = v]
    BY <1>4
<1>7. FilesBecome(g, v, NoFile)
    BY <1>3, <1>6, OldFiles, FileWritten DEF FilesBecome
<1>8. MayBecome(g, v, NoFile)
    BY <1>3, MarksDiffer DEF MayBecome
<1>9. JobKept' /\ job'.group \in plan \cup {{}} /\ job'.next \in {"none", "venv", "sync", "state"}
    BY <1>2, <1>3, <1>4 DEF JobKept, NoJob
<1>10. torn' \subseteq Groups
    BY <1>3, OldFiles
<1>11. Worked(g, v, NoFile)
    BY <1>2, <1>3, <1>4, <1>5, <1>9, <1>10 DEF Worked
<1> QED
    BY <1>2, <1>7, <1>8, <1>11, GroupWorked

LEMMA SyncLockfileKeeps == ASSUME EnvInv, NEW g \in Groups, SyncLockfile(g) PROVE EnvInv'
<1>1. job = [group |-> g, next |-> "sync"]
    BY DEF SyncLockfile, Working
<1>2. /\ phase = "preparing" /\ g \in plan /\ g \notin todo /\ g \notin ready
      /\ lockFile[g] = LockOf(g) /\ LockOf(g) \in Specs(g)
    BY <1>1, JobIs
<1>3. /\ torn' = torn \cup {g}
      /\ UNCHANGED <<pinned, lockFile, starts, phase, plan, leftOut, todo, stateFile, ready>>
    BY DEF SyncLockfile, idleVars, Failed
<1>4. PICK v \in {venv[g], Mixed, LockOf(g)} :
          /\ venv' = [venv EXCEPT ![g] = v]
          /\ \/ job' = NoJob
             \/ v = LockOf(g) /\ job' = [group |-> g, next |-> "state"]
    BY <1>1, <1>2 DEF SyncLockfile, Failed, Partial
<1>5. ready \subseteq plan \ todo
    BY DEF EnvInv, EnvTypeOK
<1>6. FilesBecome(g, v, stateFile[g])
    BY <1>3, <1>4, OldFiles, FileWritten DEF FilesBecome
<1>7. MayBecome(g, v, stateFile[g])
    BY <1>2, <1>3, OldFiles, MarksDiffer DEF MayBecome
<1>8. JobKept' /\ job'.group \in plan \cup {{}} /\ job'.next \in {"none", "venv", "sync", "state"}
    <2>1. CASE job' = NoJob
        BY <2>1 DEF JobKept, NoJob
    <2>2. CASE v = LockOf(g) /\ job' = [group |-> g, next |-> "state"]
        <3>1. LockOf(g)' = LockOf(g) /\ venv'[g] = LockOf(g)
            BY <1>3, <1>4, <2>2, OldFiles DEF LockOf
        <3> QED
            BY <1>2, <1>3, <2>2, <3>1 DEF JobKept
    <2> QED
        BY <1>4, <2>1, <2>2
<1>9. torn' \subseteq Groups
    BY <1>3, OldFiles
<1>10. Worked(g, v, stateFile[g])
    BY <1>2, <1>3, <1>5, <1>8, <1>9 DEF Worked
<1> QED
    BY <1>2, <1>6, <1>7, <1>10, GroupWorked

LEMMA WriteStateKeeps == ASSUME EnvInv, NEW g \in Groups, WriteState(g) PROVE EnvInv'
<1>1. job = [group |-> g, next |-> "state"]
    BY DEF WriteState, Working
<1>2. /\ phase = "preparing" /\ g \in plan /\ g \notin todo /\ g \notin ready
      /\ venv[g] = LockOf(g) /\ LockOf(g) \in Specs(g)
    BY <1>1, JobIs
<1>3. /\ torn' = torn \ {g} /\ stateFile' = [stateFile EXCEPT ![g] = LockOf(g)]
      /\ UNCHANGED <<pinned, lockFile, starts, phase, plan, leftOut, todo, venv>>
      /\ ready' = ready \cup {g} /\ job' = NoJob
    BY DEF WriteState, idleVars, Returned
<1>4. ready \subseteq plan \ todo
    BY DEF EnvInv, EnvTypeOK
<1>5. FilesBecome(g, LockOf(g), LockOf(g))
    BY <1>2, <1>3, OldFiles, FileWritten DEF FilesBecome
<1>6. MayBecome(g, LockOf(g), LockOf(g))
    BY <1>2, <1>3, MarksDiffer DEF MayBecome
<1>7. JobKept' /\ job'.group \in plan \cup {{}} /\ job'.next \in {"none", "venv", "sync", "state"}
    BY <1>3 DEF JobKept, NoJob
<1>8. torn' \subseteq Groups
    BY <1>3, OldFiles
<1>9. Worked(g, LockOf(g), LockOf(g))
    BY <1>2, <1>3, <1>4, <1>7, <1>8 DEF Worked
<1> QED
    BY <1>2, <1>5, <1>6, <1>9, GroupWorked

LEMMA PrepareKeeps == ASSUME EnvInv, NEW g \in Groups, Prepare(g) PROVE EnvInv'
<1>1. /\ phase = "preparing" /\ job = NoJob /\ g \in todo /\ todo' = todo \ {g}
      /\ UNCHANGED <<pinned, lockFile, venv, stateFile, starts, phase, plan, leftOut, torn>>
    BY DEF Prepare, diskVars
<1>2. /\ todo \subseteq plan /\ ready \subseteq plan \ todo /\ plan \subseteq Groups
      /\ pinned \in Specs(PluginNos)
    BY DEF EnvInv, EnvTypeOK
<1>3. \/ ready' = ready /\ job' = [group |-> g, next |-> "venv"] /\ (Damaged(g) \/ HalfRemoved(g))
      \/ ready' = ready /\ job' = [group |-> g, next |-> "sync"]
      \/ ready' = ready \cup {g} /\ job' = NoJob /\ Matches(g)
    BY DEF Prepare, Returned
<1>4. FilesAre' /\ FilesTyped' /\ RecordTells'
    BY <1>1, TypesAre DEF EnvInv, FilesAre, FilesTyped, RecordTells
<1>5. /\ PlanSound' /\ LocksStand' /\ pinned' \in Specs(PluginNos)
      /\ \A h : LockOf(h)' = LockOf(h)
    BY <1>1, PlanStays
<1>6. ready' \subseteq plan \ todo'
    BY <1>1, <1>2, <1>3
<1>7. job'.group \in plan \cup {{}} /\ job'.next \in {"none", "venv", "sync", "state"}
    BY <1>1, <1>2, <1>3 DEF NoJob
<1>8. PlanTyped'
    BY <1>1, <1>2, <1>6, <1>7, TypesAre DEF EnvInv, PlanTyped
<1>9. EnvTypeOK'
    BY <1>4, <1>5, <1>8 DEF EnvTypeOK, FilesTyped, PlanTyped
<1>10. JobKept'
    <2>1. CASE job' = [group |-> g, next |-> "venv"] /\ (Damaged(g) \/ HalfRemoved(g)) /\ ready' = ready
        <3>1. stateFile[g] \in {NoFile, Broken}
            BY <2>1, OldFiles DEF Damaged, HalfRemoved
        <3> QED
            BY <1>1, <1>2, <2>1, <3>1 DEF JobKept
    <2>2. CASE job' = [group |-> g, next |-> "sync"] /\ ready' = ready
        BY <1>1, <1>2, <2>2 DEF JobKept
    <2>3. CASE job' = NoJob
        BY <2>3 DEF JobKept
    <2> QED
        BY <1>3, <2>1, <2>2, <2>3
<1>11. OffIsIdle'
    BY <1>1 DEF OffIsIdle
<1>12. NeverOutdated'
    <2> SUFFICES ASSUME NEW h \in ready'
                 PROVE  \/ venv'[h] = LockOf(h)'
                        \/ h \in torn' /\ venv'[h] \in Specs(h) \cup {Mixed}
        BY DEF NeverOutdated
    <2>1. CASE h \in ready
        BY <1>1, <1>5, <2>1 DEF EnvInv, NeverOutdated
    <2>2. CASE h = g /\ Matches(g)
        <3>1. stateFile[g] = LockOf(g) /\ LockOf(g) \in Specs(g)
            BY <1>2, <2>2, LockIsSpec DEF Matches
        <3> QED
            BY <1>1, <1>5, <2>2, <3>1, OldFiles
    <2> QED
        BY <1>3, <2>1, <2>2
<1> QED
    BY <1>4, <1>5, <1>9, <1>10, <1>11, <1>12 DEF EnvInv

LEMMA EnvKilledKeeps == ASSUME EnvInv, EnvKilled PROVE EnvInv'
<1>1. PICK g, step : /\ job = [group |-> g, next |-> step] /\ step \in {"venv", "sync", "state"}
                     /\ g = job.group /\ step = job.next
    <2>1. job # NoJob
        BY DEF EnvKilled
    <2> QED
        BY <2>1 DEF EnvInv, JobKept
<1>2. /\ g \in Groups /\ lockFile[g] = LockOf(g) /\ LockOf(g) \in Specs(g)
      /\ step = "venv" => stateFile[g] \in {NoFile, Broken}
      /\ step = "state" => venv[g] = LockOf(g)
    BY <1>1, JobIs
<1>3. Off /\ UNCHANGED <<pinned, lockFile, starts>>
    BY DEF EnvKilled
<1>4. pinned' \in Specs(PluginNos) /\ starts' \in 0..MaxStarts
    BY <1>3 DEF EnvInv, EnvTypeOK
<1>5. ASSUME NEW v, NEW s, FilesBecome(g, v, s), MayBecome(g, v, s), torn' \subseteq Groups
      PROVE  EnvInv'
    <2>1. FilesAre' /\ FilesTyped' /\ RecordTells'
        BY <1>2, <1>5, FilesChange
    <2> QED
        BY <1>3, <1>4, <1>5, <2>1, OffKeeps
<1>6. CASE step = "venv"
    <2>1. UNCHANGED torn
        BY <1>1, <1>6 DEF EnvKilled
    <2>2. PICK v \in {NoFile, <<>>, venv[g], Mixed} :
              /\ venv' = [venv EXCEPT ![g] = v]
              /\ \/ stateFile' = [stateFile EXCEPT ![g] = NoFile]
                 \/ v \in {venv[g], Mixed} \ {NoFile} /\ stateFile' = stateFile
        BY <1>1, <1>6 DEF EnvKilled
    <2>3. CASE stateFile' = [stateFile EXCEPT ![g] = NoFile]
        <3>1. FilesBecome(g, v, NoFile)
            BY <1>2, <1>3, <2>2, <2>3, OldFiles, FileWritten DEF FilesBecome
        <3>2. MayBecome(g, v, NoFile)
            BY <1>2, <2>1, <2>2, OldFiles, MarksDiffer DEF MayBecome
        <3> QED
            BY <1>2, <1>5, <2>1, <3>1, <3>2, OldFiles
    <2>4. CASE v \in {venv[g], Mixed} \ {NoFile} /\ stateFile' = stateFile
        <3>1. FilesBecome(g, v, stateFile[g])
            BY <1>2, <1>3, <2>2, <2>4, OldFiles, FileWritten DEF FilesBecome
        <3>2. MayBecome(g, v, stateFile[g])
            BY <1>2, <1>6, <2>1, <2>4, OldFiles, MarksDiffer DEF MayBecome
        <3> QED
            BY <1>2, <1>5, <2>1, <3>1, <3>2, OldFiles
    <2> QED
        BY <2>2, <2>3, <2>4
<1>7. CASE step = "sync"
    <2>1. torn' = torn \cup {g} /\ stateFile' = stateFile
        BY <1>1, <1>7 DEF EnvKilled
    <2>2. PICK v \in {venv[g], Mixed, LockOf(g)} : venv' = [venv EXCEPT ![g] = v]
        BY <1>1, <1>2, <1>7 DEF EnvKilled, Partial
    <2>3. FilesBecome(g, v, stateFile[g])
        BY <1>2, <1>3, <2>1, <2>2, OldFiles, FileWritten DEF FilesBecome
    <2>4. MayBecome(g, v, stateFile[g])
        BY <1>2, <2>1, <2>2, OldFiles, MarksDiffer DEF MayBecome
    <2>5. torn' \subseteq Groups
        BY <1>2, <2>1, OldFiles
    <2> QED
        BY <1>5, <2>3, <2>4, <2>5
<1>8. CASE step = "state"
    <2>1. PICK s \in {stateFile[g], Broken, LockOf(g)} :
              /\ \/ stateFile' = stateFile /\ s = stateFile[g]
                 \/ stateFile' = [stateFile EXCEPT ![g] = s]
              /\ torn' = torn \/ (s = LockOf(g) /\ torn' = torn \ {g})
        BY <1>1, <1>8 DEF EnvKilled
    <2>2. venv' = venv /\ venv[g] = LockOf(g)
        BY <1>1, <1>2, <1>8 DEF EnvKilled
    <2>3. FilesBecome(g, venv[g], s)
        BY <1>2, <1>3, <2>1, <2>2, OldFiles, FileWritten DEF FilesBecome
    <2>4. MayBecome(g, venv[g], s)
        BY <1>2, <2>1, <2>2, OldFiles, MarksDiffer DEF MayBecome
    <2>5. torn' \subseteq Groups
        BY <1>2, <2>1, OldFiles
    <2> QED
        BY <1>5, <2>3, <2>4, <2>5
<1> QED
    BY <1>1, <1>6, <1>7, <1>8

LEMMA EnvStopKeeps == ASSUME EnvInv, EnvStop PROVE EnvInv'
<1>1. Off /\ UNCHANGED <<pinned, lockFile, venv, stateFile, starts, torn>>
    BY DEF EnvStop, diskVars
<1>2. /\ FilesAre' /\ FilesTyped' /\ RecordTells' /\ torn' \subseteq Groups
      /\ pinned' \in Specs(PluginNos) /\ starts' \in 0..MaxStarts
    BY <1>1, TypesAre DEF EnvInv, FilesAre, FilesTyped, RecordTells, PlanTyped
<1> QED
    BY <1>1, <1>2, OffKeeps

LEMMA AllPreparedKeeps == ASSUME EnvInv, AllPrepared PROVE EnvInv'
<1>1. /\ phase = "preparing" /\ job = NoJob /\ phase' = "running"
      /\ UNCHANGED <<pinned, lockFile, venv, stateFile, starts, plan, leftOut, todo, job, ready, torn>>
    BY DEF AllPrepared, diskVars
<1>2. /\ PlanSound' /\ LocksStand' /\ \A g : LockOf(g)' = LockOf(g)
    BY <1>1, PlanStays
<1>3. FilesAre' /\ RecordTells' /\ JobKept' /\ OffIsIdle'
    BY <1>1 DEF EnvInv, FilesAre, RecordTells, JobKept, OffIsIdle
<1>4. EnvTypeOK'
    BY <1>1 DEF EnvInv, EnvTypeOK
<1>5. NeverOutdated'
    BY <1>1, <1>2 DEF EnvInv, NeverOutdated
<1> QED
    BY <1>2, <1>3, <1>4, <1>5 DEF EnvInv

LEMMA EditKeeps == ASSUME EnvInv, NEW p \in PluginNos, EditRequirements(p) PROVE EnvInv'
<1>1. /\ phase = "off"
      /\ UNCHANGED <<lockFile, venv, stateFile, starts, phase, plan, leftOut, todo, job, ready, torn>>
    BY DEF EditRequirements, diskVars
<1>2. pinned' \in Specs(PluginNos)
    <2>1. PICK pin \in Pins \cup {NoPin} : pinned' = [pinned EXCEPT ![p] = pin]
        BY DEF EditRequirements
    <2>2. pinned \in Specs(PluginNos)
        BY DEF EnvInv, EnvTypeOK
    <2> QED
        BY <2>1, <2>2 DEF Specs
<1>3. plan = {} /\ leftOut = {} /\ todo = {} /\ job = NoJob /\ ready = {}
    BY <1>1 DEF EnvInv, OffIsIdle
<1>4. EnvTypeOK'
    BY <1>1, <1>2 DEF EnvInv, EnvTypeOK
<1>5. FilesAre' /\ RecordTells' /\ JobKept' /\ OffIsIdle'
    BY <1>1, <1>3 DEF EnvInv, FilesAre, RecordTells, JobKept, OffIsIdle
<1>6. LocksStand' /\ PlanSound' /\ NeverOutdated'
    BY <1>1, <1>3 DEF LocksStand, PlanSound, NeverOutdated
<1> QED
    BY <1>4, <1>5, <1>6 DEF EnvInv

(* The supervisor writes lock files and removes what it finds unused.         *)
LEMMA CleanedUp ==
    ASSUME EnvInv, NEW kept,
           \/ UNCHANGED <<venv, stateFile>>
           \/ venv' = RemovedBut(venv, kept) /\ stateFile' = RemovedBut(stateFile, kept),
           UNCHANGED torn, lockFile' = [g \in Groups |-> lockFile'[g]],
           \A g \in Groups : lockFile'[g] \in Specs(g) \cup {NoFile}
    PROVE  FilesAre' /\ FilesTyped' /\ RecordTells'
<1>1. FilesAre /\ FilesTyped /\ RecordTells
    BY TypesAre DEF EnvInv
<1>2. /\ venv' = [g \in Groups |-> venv'[g]] /\ stateFile' = [g \in Groups |-> stateFile'[g]]
      /\ \A g \in Groups : \/ venv'[g] = venv[g] /\ stateFile'[g] = stateFile[g]
                           \/ venv'[g] = NoFile /\ stateFile'[g] = NoFile
    <2>1. CASE UNCHANGED <<venv, stateFile>>
        BY <1>1, <2>1 DEF FilesAre
    <2>2. CASE venv' = RemovedBut(venv, kept) /\ stateFile' = RemovedBut(stateFile, kept)
        BY <2>2 DEF RemovedBut
    <2> QED
        BY <2>1, <2>2
<1>3. FilesAre'
    BY <1>2 DEF FilesAre
<1>4. FilesTyped'
    BY <1>1, <1>2 DEF FilesTyped
<1>5. RecordTells'
    BY <1>1, <1>2, MarksDiffer DEF RecordTells
<1> QED
    BY <1>3, <1>4, <1>5

LEMMA WrittenIs ==
    ASSUME EnvInv, NEW groups
    PROVE  /\ Written(groups) = [g \in Groups |-> Written(groups)[g]]
           /\ \A g \in Groups : /\ Written(groups)[g] \in Specs(g) \cup {NoFile}
                                /\ g \in groups => Written(groups)[g] = LockOf(g)
<1>1. /\ pinned \in Specs(PluginNos)
      /\ \A g \in Groups : lockFile[g] \in Specs(g) \cup {NoFile}
    BY DEF EnvInv, EnvTypeOK
<1>2. \A g \in Groups : LockOf(g) \in Specs(g)
    BY <1>1, LockIsSpec
<1> QED
    BY <1>1, <1>2 DEF Written

LEMMA RemovedIs ==
    ASSUME NEW files, NEW groups
    PROVE  /\ RemovedBut(files, groups) = [g \in Groups |-> RemovedBut(files, groups)[g]]
           /\ \A g \in Groups : RemovedBut(files, groups)[g] = IF g \in groups THEN files[g] ELSE NoFile
    BY DEF RemovedBut

LEMMA PlanGroupsKeeps == ASSUME EnvInv, PlanGroups PROVE EnvInv'
<1>1. PICK unsolvable \in SUBSET PluginNos :
        /\ PlanStarts(unsolvable)
        /\ plan' = Materialized(unsolvable)
        /\ leftOut' = Refused(unsolvable)
        /\ lockFile' = RemovedBut(Written(plan'), plan')
        /\ venv' = RemovedBut(venv, plan') /\ stateFile' = RemovedBut(stateFile, plan')
        /\ todo' = plan' /\ phase' = "preparing"
        /\ UNCHANGED <<pinned, job, ready, torn>>
    BY DEF PlanGroups
<1>2. PICK M : M = Materialized(unsolvable)
    OBVIOUS
<1>3. /\ M \in SUBSET Groups /\ leftOut' \in SUBSET PluginNos
      /\ \A p \in PluginNos : p \in leftOut' \/ \E g \in M : p \in g
      /\ \A g, h \in M : g # h => g \cap h = {}
      /\ \A g \in M : /\ \A p, q \in g : PythonOf[p] = PythonOf[q]
                      /\ Cardinality(PinsOf(g)) <= 1
    BY <1>1, <1>2, PlanIsSound
<1>4. /\ phase = "off" /\ job = NoJob /\ ready = {} /\ starts' \in 0..MaxStarts
      /\ pinned \in Specs(PluginNos) /\ torn \subseteq Groups
    <2>1. /\ phase = "off" /\ starts \in 0..MaxStarts /\ starts < MaxStarts /\ starts' = starts + 1
          /\ pinned \in Specs(PluginNos) /\ torn \subseteq Groups
        BY <1>1 DEF PlanStarts, EnvInv, EnvTypeOK
    <2>2. starts' \in 0..MaxStarts
        BY <2>1, EnvAssumption
    <2> QED
        BY <2>1, <2>2 DEF EnvInv, OffIsIdle
<1>5. /\ lockFile' = [g \in Groups |-> lockFile'[g]]
      /\ \A g \in Groups : lockFile'[g] \in Specs(g) \cup {NoFile}
      /\ \A g \in M : lockFile'[g] = LockOf(g)
    <2>1. lockFile' = RemovedBut(Written(M), M)
        BY <1>1, <1>2
    <2> QED
        BY <1>3, <2>1, WrittenIs, RemovedIs
<1>6. FilesAre' /\ FilesTyped' /\ RecordTells'
    BY <1>1, <1>5, CleanedUp
<1>7. \A g : LockOf(g)' = LockOf(g) /\ PinsOf(g)' = PinsOf(g)
    BY <1>1 DEF LockOf, PinsOf
<1>8. PlanTyped'
    BY <1>1, <1>2, <1>3, <1>4 DEF PlanTyped, NoJob
<1>9. EnvTypeOK'
    BY <1>1, <1>4, <1>6, <1>8 DEF EnvTypeOK, FilesTyped, PlanTyped
<1>10. JobKept' /\ OffIsIdle' /\ NeverOutdated'
    BY <1>1, <1>4 DEF JobKept, OffIsIdle, NeverOutdated, NoJob
<1>11. LocksStand'
    BY <1>1, <1>2, <1>5, <1>7 DEF LocksStand
<1>12. PlanSound'
    BY <1>1, <1>2, <1>3, <1>7 DEF PlanSound
<1> QED
    BY <1>6, <1>9, <1>10, <1>11, <1>12 DEF EnvInv

LEMMA PlanKilledKeeps == ASSUME EnvInv, PlanKilled PROVE EnvInv'
<1>1. PICK unsolvable \in SUBSET PluginNos :
        /\ PlanStarts(unsolvable)
        /\ LET groups == Materialized(unsolvable) IN
           \/ /\ \E some \in SUBSET groups : lockFile' = Written(some)
              /\ UNCHANGED <<venv, stateFile>>
           \/ \E kept \in SUBSET {g \in Groups \ groups : venv[g] # NoFile} :
                 /\ lockFile' = RemovedBut(Written(groups), groups)
                 /\ venv' = RemovedBut(venv, groups \cup kept)
                 /\ stateFile' = RemovedBut(stateFile, groups \cup kept)
        /\ UNCHANGED <<pinned, phase, plan, leftOut, todo, job, ready, torn>>
    BY DEF PlanKilled
<1>2. /\ phase = "off" /\ starts' \in 0..MaxStarts
      /\ pinned \in Specs(PluginNos) /\ torn \subseteq Groups
    <2>1. /\ phase = "off" /\ starts \in 0..MaxStarts /\ starts < MaxStarts /\ starts' = starts + 1
          /\ pinned \in Specs(PluginNos) /\ torn \subseteq Groups
        BY <1>1 DEF PlanStarts, EnvInv, EnvTypeOK
    <2>2. starts' \in 0..MaxStarts
        BY <2>1, EnvAssumption
    <2> QED
        BY <2>1, <2>2
<1>3. PICK kept :
          /\ lockFile' = [g \in Groups |-> lockFile'[g]]
          /\ \A g \in Groups : lockFile'[g] \in Specs(g) \cup {NoFile}
          /\ \/ UNCHANGED <<venv, stateFile>>
             \/ venv' = RemovedBut(venv, kept) /\ stateFile' = RemovedBut(stateFile, kept)
    <2>1. CASE \E some : lockFile' = Written(some) /\ UNCHANGED <<venv, stateFile>>
        BY <2>1, WrittenIs
    <2>2. CASE \E groups, all : /\ lockFile' = RemovedBut(Written(groups), groups)
                                /\ venv' = RemovedBut(venv, all)
                                /\ stateFile' = RemovedBut(stateFile, all)
        BY <2>2, WrittenIs, RemovedIs
    <2> QED
        BY <1>1, <2>1, <2>2
<1>4. FilesAre' /\ FilesTyped' /\ RecordTells'
    BY <1>1, <1>3, CleanedUp
<1>5. Off
    BY <1>1, <1>2 DEF Off, EnvInv, OffIsIdle
<1> QED
    BY <1>1, <1>2, <1>4, <1>5, OffKeeps

LEMMA EnvNextKeeps == EnvInv /\ [EnvNext]_envVars => EnvInv'
<1> SUFFICES ASSUME EnvInv, [EnvNext]_envVars PROVE EnvInv'
    OBVIOUS
<1>1. CASE UNCHANGED envVars
    <2>1. UNCHANGED <<pinned, lockFile, venv, stateFile, starts, phase, plan, leftOut, todo, job,
                      ready, torn>>
        BY <1>1 DEF envVars, diskVars
    <2>2. PlanSound' /\ LocksStand' /\ \A g : LockOf(g)' = LockOf(g)
        BY <2>1, PlanStays
    <2>3. FilesAre' /\ RecordTells' /\ JobKept' /\ OffIsIdle' /\ EnvTypeOK'
        BY <2>1, <2>2 DEF EnvInv, FilesAre, RecordTells, JobKept, OffIsIdle, EnvTypeOK
    <2>4. NeverOutdated'
        BY <2>1, <2>2 DEF EnvInv, NeverOutdated
    <2> QED
        BY <2>2, <2>3, <2>4 DEF EnvInv
<1>2. CASE EnvNext
    BY <1>2, PlanGroupsKeeps, PlanKilledKeeps, AllPreparedKeeps, EnvStopKeeps, EnvKilledKeeps,
       PrepareKeeps, CreateVenvKeeps, SyncLockfileKeeps, WriteStateKeeps, EditKeeps DEF EnvNext
<1> QED
    BY <1>1, <1>2

LEMMA EnvInvHolds == EnvSpec => []EnvInv
    BY EnvInitEstablishes, EnvNextKeeps, PTL DEF EnvSpec

(* The files and the plan keep to their types, for any number of plugins,     *)
(* packages and starts, whatever uv cannot solve and whenever it is killed.   *)
THEOREM EnvironmentsTyped == EnvSpec => []EnvTypeOK
<1>1. EnvInv => EnvTypeOK
    BY DEF EnvInv
<1> QED
    BY <1>1, EnvInvHolds, PTL

(* The greedy grouping gives every plugin one environment with its Python and *)
(* no two versions of a package, or refuses it; and the interpreter that      *)
(* prepare() returns has what the plan says, unless uv was interrupted in it  *)
(* or failed and the state file of before was found to match again.           *)
THEOREM EnvironmentsAlwaysFit == EnvSpec => []EnvironmentsFit
<1>1. EnvInv => EnvironmentsFit
    BY DEF EnvInv, EnvironmentsFit
<1> QED
    BY <1>1, EnvInvHolds, PTL

-----------------------------------------------------------------------------
(* The peer's stop(), for any number of tasks that call it.                   *)

(* Which task _stop_task may name: the one that stops, or the scheduled one,  *)
(* which is there only once the connection has failed and never waits.        *)
StopTaskInv ==
    /\ peerClosed => stopping
    /\ \A t \in StopTasks : calls[t] = "stopping" => stopping /\ ~peerClosed /\ stopTask \in {t, Scheduled}
    /\ stopTask \in Owners => calls[stopTask] = "stopping"
    /\ stopTask = Scheduled => calls[Scheduled] \in {"ready", "stopping", "over"}
    /\ calls[Scheduled] = "ready" => stopTask = Scheduled
    /\ calls[Scheduled] # "waiting"
    /\ calls[Scheduled] # "none" => unusable

PeerStopInv == PeerStopTypeOK /\ StopTaskInv /\ StopIsUnderWay

LEMMA PeerStopBegins == PeerStopInit => PeerStopInv
    BY PeerStopAssumption
    DEF PeerStopInit, PeerStopInv, PeerStopTypeOK, StopTaskInv, StopIsUnderWay, StopTasks, Places

LEMMA ReturnsKept ==
    ASSUME PeerStopTypeOK, NEW t \in StopTasks, Returns(t)
    PROVE  /\ calls' \in [StopTasks -> Places] /\ waitsFor' \in [StopTasks -> StopTasks \cup {NoTask}]
           /\ early' \in BOOLEAN
           /\ calls'[t] = "over"
           /\ \A u \in StopTasks \ {t} : calls'[u] = calls[u] /\ waitsFor'[u] = waitsFor[u]
    BY DEF Returns, PeerStopTypeOK, Places

(* One that returns was not the one that stops, nor one that will.            *)
LEMMA ReturnKeepsStop ==
    ASSUME PeerStopInv, NEW t \in StopTasks, Returns(t), calls[t] # "none",
           calls[t] # "stopping", t = Scheduled => stopping,
           UNCHANGED <<stopping, stopTask, unusable, peerClosed, cable>>
    PROVE  PeerStopInv'
<1>1. /\ calls' \in [StopTasks -> Places] /\ waitsFor' \in [StopTasks -> StopTasks \cup {NoTask}]
      /\ early' \in BOOLEAN /\ calls'[t] = "over"
      /\ \A u \in StopTasks \ {t} : calls'[u] = calls[u] /\ waitsFor'[u] = waitsFor[u]
    BY ReturnsKept DEF PeerStopInv
<1>2. PeerStopTypeOK'
    BY <1>1 DEF PeerStopInv, PeerStopTypeOK
<1>3. Scheduled \in StopTasks /\ \A u \in Owners : u \in StopTasks /\ u # Scheduled
    BY PeerStopAssumption DEF StopTasks
<1>4. StopTaskInv'
    BY <1>1, <1>3 DEF PeerStopInv, StopTaskInv
<1>5. StopIsUnderWay'
    BY <1>1, <1>3 DEF PeerStopInv, StopIsUnderWay
<1> QED
    BY <1>2, <1>4, <1>5 DEF PeerStopInv

LEMMA CallStopKeeps == ASSUME PeerStopInv, NEW t \in StopTasks, CallStop(t) PROVE PeerStopInv'
<1>1. Scheduled \in StopTasks /\ NoTask \notin StopTasks /\ \A u \in Owners : u \in StopTasks /\ u # Scheduled
    BY PeerStopAssumption DEF StopTasks
<1>2. calls[t] = "ready" /\ UNCHANGED <<unusable, peerClosed, cable>>
    BY DEF CallStop
<1>3. CASE stopping /\ Returns(t) /\ UNCHANGED <<stopping, stopTask>>
    BY <1>2, <1>3, ReturnKeepsStop
<1>4. CASE stopping /\ ~Returns(t) /\ Rejoins(t) /\ UNCHANGED <<stopping, stopTask>>
    <2>1. /\ stopTask \notin {NoTask, t} /\ calls[stopTask] # "over"
          /\ calls' = [calls EXCEPT ![t] = "waiting"] /\ waitsFor' = [waitsFor EXCEPT ![t] = stopTask]
          /\ UNCHANGED early
        BY <1>4 DEF Rejoins
    <2>2. t # Scheduled /\ stopTask \in StopTasks
        BY <1>2, <2>1 DEF PeerStopInv, StopTaskInv, PeerStopTypeOK
    <2>3. /\ calls'[t] = "waiting" /\ waitsFor'[t] = stopTask
          /\ \A u \in StopTasks \ {t} : calls'[u] = calls[u] /\ waitsFor'[u] = waitsFor[u]
        BY <2>1 DEF PeerStopInv, PeerStopTypeOK
    <2>4. PeerStopTypeOK'
        BY <1>2, <1>4, <2>1 DEF PeerStopInv, PeerStopTypeOK, Places
    <2>5. StopTaskInv'
        BY <1>1, <1>2, <1>4, <2>1, <2>2, <2>3 DEF PeerStopInv, StopTaskInv
    <2>6. (stopTask = Scheduled /\ calls[Scheduled] = "ready") \/ calls[stopTask] = "stopping"
        BY <2>1, <2>2 DEF PeerStopInv, StopTaskInv, StopTasks
    <2>7. StopIsUnderWay'
        BY <1>1, <1>2, <1>4, <2>1, <2>2, <2>3, <2>6 DEF PeerStopInv, StopIsUnderWay
    <2> QED
        BY <2>4, <2>5, <2>7 DEF PeerStopInv
<1>5. CASE /\ ~peerClosed /\ ~stopping /\ calls' = [calls EXCEPT ![t] = "stopping"] /\ stopping' = TRUE
           /\ stopTask' = IF stopTask = NoTask THEN t ELSE stopTask
           /\ UNCHANGED <<waitsFor, early>>
    <2>1. calls'[t] = "stopping" /\ \A u \in StopTasks \ {t} : calls'[u] = calls[u]
        BY <1>5 DEF PeerStopInv, PeerStopTypeOK
    <2>2. \A u \in StopTasks : calls[u] # "stopping"
        BY <1>5 DEF PeerStopInv, StopTaskInv
    <2>3. stopTask \in {NoTask, Scheduled} /\ stopTask' \in {t, Scheduled}
        BY <1>5, <2>2 DEF PeerStopInv, StopTaskInv, PeerStopTypeOK, StopTasks
    <2>4. PeerStopTypeOK'
        BY <1>1, <1>2, <1>5, <2>3 DEF PeerStopInv, PeerStopTypeOK, Places
    <2>5. StopTaskInv'
        BY <1>1, <1>2, <1>5, <2>1, <2>2, <2>3 DEF PeerStopInv, StopTaskInv
    <2>6. StopIsUnderWay'
        BY <1>1, <1>2, <1>5, <2>1, <2>2 DEF PeerStopInv, StopIsUnderWay
    <2> QED
        BY <2>4, <2>5, <2>6 DEF PeerStopInv
<1>6. peerClosed => stopping
    BY DEF PeerStopInv, StopTaskInv
<1> QED
    BY <1>3, <1>4, <1>5, <1>6 DEF CallStop, Rejoins

LEMMA StopEndsKeeps == ASSUME PeerStopInv, NEW t \in StopTasks, StopEnds(t) PROVE PeerStopInv'
<1>1. Scheduled \in StopTasks /\ NoTask \notin StopTasks /\ \A u \in Owners : u \in StopTasks /\ u # Scheduled
    BY PeerStopAssumption DEF StopTasks
<1>2. /\ calls[t] = "stopping" /\ peerClosed' = TRUE /\ Returns(t) /\ UNCHANGED <<stopping, unusable, cable>>
      /\ stopTask' = IF stopTask = t THEN NoTask ELSE stopTask
    BY DEF StopEnds
<1>3. /\ calls' \in [StopTasks -> Places] /\ waitsFor' \in [StopTasks -> StopTasks \cup {NoTask}]
      /\ early' \in BOOLEAN /\ calls'[t] = "over"
      /\ \A u \in StopTasks \ {t} : calls'[u] = calls[u] /\ waitsFor'[u] = waitsFor[u]
    BY <1>2, ReturnsKept DEF PeerStopInv
<1>4. \A u \in StopTasks \ {t} : calls[u] # "stopping"
    BY <1>2 DEF PeerStopInv, StopIsUnderWay
<1>5. stopping /\ stopTask \in {t, Scheduled}
    BY <1>2 DEF PeerStopInv, StopTaskInv
<1>6. PeerStopTypeOK'
    BY <1>2, <1>3 DEF PeerStopInv, PeerStopTypeOK
<1>7. StopTaskInv'
    BY <1>1, <1>2, <1>3, <1>4, <1>5 DEF PeerStopInv, StopTaskInv
<1>8. StopIsUnderWay'
    BY <1>1, <1>2, <1>3, <1>4, <1>5 DEF PeerStopInv, StopIsUnderWay
<1> QED
    BY <1>6, <1>7, <1>8 DEF PeerStopInv

LEMMA WaitEndsKeeps == ASSUME PeerStopInv, NEW t \in StopTasks, WaitEnds(t) PROVE PeerStopInv'
<1>1. /\ calls[t] = "waiting" /\ Returns(t)
      /\ UNCHANGED <<stopping, stopTask, unusable, peerClosed, cable>>
    BY DEF WaitEnds
<1>2. t # Scheduled
    BY <1>1 DEF PeerStopInv, StopTaskInv
<1> QED
    BY <1>1, <1>2, ReturnKeepsStop

LEMMA FailsKeeps ==
    ASSUME PeerStopInv, Fails, ~unusable, UNCHANGED cable
    PROVE  PeerStopInv'
<1>1. Scheduled \in StopTasks /\ NoTask \notin StopTasks /\ \A u \in Owners : u \in StopTasks /\ u # Scheduled
    BY PeerStopAssumption DEF StopTasks
<1>2. unusable' = TRUE /\ ScheduleStop /\ UNCHANGED <<waitsFor, stopping, peerClosed, early>>
    BY DEF Fails
<1>3. calls[Scheduled] = "none" /\ stopTask # Scheduled
    BY DEF PeerStopInv, StopTaskInv
<1>4. stopTask # NoTask => calls[stopTask] = "stopping" /\ stopping
    BY <1>3 DEF PeerStopInv, StopTaskInv, PeerStopTypeOK, StopTasks
<1>5. CASE peerClosed \/ stopTask # NoTask
    <2>1. UNCHANGED <<calls, stopTask>> /\ stopping
        BY <1>2, <1>4, <1>5 DEF ScheduleStop, PeerStopInv, StopTaskInv
    <2> QED
        BY <1>2, <1>3, <2>1 DEF PeerStopInv, PeerStopTypeOK, StopTaskInv, StopIsUnderWay
<1>6. CASE ~peerClosed /\ stopTask = NoTask
    <2>1. calls' = [calls EXCEPT ![Scheduled] = "ready"] /\ stopTask' = Scheduled
        BY <1>2, <1>6 DEF ScheduleStop
    <2>2. calls'[Scheduled] = "ready" /\ \A u \in StopTasks \ {Scheduled} : calls'[u] = calls[u]
        BY <1>1, <2>1 DEF PeerStopInv, PeerStopTypeOK
    <2>3. PeerStopTypeOK'
        BY <1>1, <1>2, <2>1 DEF PeerStopInv, PeerStopTypeOK, Places
    <2>4. StopTaskInv'
        BY <1>1, <1>2, <1>6, <2>1, <2>2 DEF PeerStopInv, StopTaskInv
    <2>5. StopIsUnderWay'
        BY <1>1, <1>2, <1>3, <1>6, <2>2 DEF PeerStopInv, StopIsUnderWay
    <2> QED
        BY <2>3, <2>4, <2>5 DEF PeerStopInv
<1> QED
    BY <1>5, <1>6

LEMMA PeerStopKept == PeerStopInv /\ [PeerStopNext]_stopVars => PeerStopInv'
<1> SUFFICES ASSUME PeerStopInv, [PeerStopNext]_stopVars PROVE PeerStopInv'
    OBVIOUS
<1>1. ASSUME UNCHANGED <<calls, waitsFor, stopping, stopTask, unusable, peerClosed, early>>,
             cable' \in {"up", "ended", "stopped"}
      PROVE  PeerStopInv'
    BY <1>1 DEF PeerStopInv, PeerStopTypeOK, StopTaskInv, StopIsUnderWay
<1>2. CASE FrameFails \/ EndWatched
    BY <1>2, FailsKeeps DEF FrameFails, EndWatched
<1>3. CASE CableEnds
    BY <1>1, <1>3 DEF CableEnds
<1>4. ASSUME NEW t \in StopTasks, CallStop(t) \/ StopEnds(t) \/ WaitEnds(t) PROVE PeerStopInv'
    BY <1>4, CallStopKeeps, StopEndsKeeps, WaitEndsKeeps
<1>5. ASSUME NEW t \in StopTasks, CableStops(t) PROVE PeerStopInv'
    BY <1>1, <1>5 DEF CableStops
<1>6. CASE UNCHANGED stopVars
    <2>1. UNCHANGED <<calls, waitsFor, stopping, stopTask, unusable, peerClosed, early>> /\ cable' = cable
        BY <1>6 DEF stopVars
    <2>2. cable \in {"up", "ended", "stopped"}
        BY DEF PeerStopInv, PeerStopTypeOK
    <2> QED
        BY <1>1, <2>1, <2>2
<1> QED
    BY <1>2, <1>3, <1>4, <1>5, <1>6 DEF PeerStopNext

LEMMA PeerStopHolds == PeerStopSpec => []PeerStopInv
    BY PeerStopBegins, PeerStopKept, PTL DEF PeerStopSpec

(* The peer's stop() keeps its variables to their types.                      *)
THEOREM PeerStopTyped == PeerStopSpec => []PeerStopTypeOK
<1>1. PeerStopInv => PeerStopTypeOK
    BY DEF PeerStopInv
<1> QED
    BY <1>1, PeerStopHolds, PTL

(* However many tasks call stop() and whenever the connection fails: one of   *)
(* them stops the transport, a failed connection has one that will, and every *)
(* task that waits does so for one that goes on by itself.                    *)
THEOREM StopGoesOn == PeerStopSpec => []StopIsUnderWay
<1>1. PeerStopInv => StopIsUnderWay
    BY DEF PeerStopInv
<1> QED
    BY <1>1, PeerStopHolds, PTL

-----------------------------------------------------------------------------
(* The components side by side. *)

(* Whatever step is taken, it is one of each component or leaves it as it is. *)
LEMMA EachTakesItsSteps ==
    ASSUME [LifecycleNext]_lifecycleVars
    PROVE  /\ [SupNext]_supVars /\ [WorkerNext]_workerVars /\ [HandshakeNext]_handshakeVars
           /\ [PeerStopNext]_stopVars /\ [EnvNext]_envVars
<1>1. ASSUME OthersStay
      PROVE  /\ part = "supervisor" \/ UNCHANGED supVars
             /\ part = "worker" \/ UNCHANGED workerVars
             /\ part = "handshake" \/ UNCHANGED handshakeVars
             /\ part = "stop" \/ UNCHANGED stopVars
             /\ part = "environments" \/ UNCHANGED envVars
    BY <1>1, Zenon DEF OthersStay
<1>2. CASE SupervisorRuns
    BY <1>1, <1>2 DEF SupervisorRuns
<1>3. CASE WorkerRuns
    BY <1>1, <1>3 DEF WorkerRuns
<1>4. CASE HandshakeRuns
    BY <1>1, <1>4 DEF HandshakeRuns
<1>5. CASE PeerStopRuns
    BY <1>1, <1>5 DEF PeerStopRuns
<1>6. CASE EnvironmentsRun
    BY <1>1, <1>6 DEF EnvironmentsRun
<1>7. CASE UNCHANGED lifecycleVars
    BY <1>7, Zenon DEF lifecycleVars
<1> QED
    BY <1>2, <1>3, <1>4, <1>5, <1>6, <1>7 DEF LifecycleNext

(* What holds of a component by itself holds of it among the others.          *)
LEMMA EachByItself ==
    LifecycleSpec => SupSpec /\ WorkerSpec /\ HandshakeSpec /\ PeerStopSpec /\ EnvSpec
<1>1. LifecycleInit => SupInit /\ WorkerInit /\ HandshakeInit /\ PeerStopInit /\ EnvInit
    BY DEF LifecycleInit
<1>2. [LifecycleNext]_lifecycleVars =>
          /\ [SupNext]_supVars /\ [WorkerNext]_workerVars /\ [HandshakeNext]_handshakeVars
          /\ [PeerStopNext]_stopVars /\ [EnvNext]_envVars
    BY EachTakesItsSteps
<1> QED
    BY <1>1, <1>2, PTL
    DEF LifecycleSpec, SupSpec, WorkerSpec, HandshakeSpec, PeerStopSpec, EnvSpec

(* The supervisor, the workers, the handshakes, the stops of the peers and    *)
(* the environments keep to their types, for all values of the constants of   *)
(* each.                                                                      *)
THEOREM LifecycleTyped == LifecycleSpec => []LifecycleTypeOK
<1>1. SupTypeOK /\ WorkerTypeOK /\ HandshakeTypeOK /\ PeerStopTypeOK /\ EnvTypeOK
         => LifecycleTypeOK
    BY DEF LifecycleTypeOK
<1> QED
    BY <1>1, EachByItself, SupervisorTyped, WorkerTyped, HandshakeTyped, PeerStopTyped,
       EnvironmentsTyped, PTL

(* Whoever is lost, refused or cut off in whatever order: for every worker,   *)
(* every initialize() and every stop() something is left that will end it.    *)
THEOREM NobodyEverLeft == LifecycleSpec => []NobodyIsLeft
<1>1. NoWorkerLeft /\ InitializeIsUnderWay /\ StopIsUnderWay => NobodyIsLeft
    BY DEF NobodyIsLeft
<1> QED
    BY <1>1, EachByItself, NoWorkerIsLeft, InitializeGoesOn, StopGoesOn, PTL
================================================================================
