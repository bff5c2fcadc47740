------------------------------ MODULE Handshake ------------------------------
(* The initialize exchange of two peers: the client asks for a protocol       *)
(* version and names those it knows, the server selects one or rejects, and   *)
(* the server's owner waits in wait_until_remote_initialized().  Either end   *)
(* may be unable to read the other, and the connection may break.             *)
EXTENDS Naturals, FiniteSets

CONSTANTS
    Versions,    \* <<major, minor>> of the versions that parse as numbers
    OddVersion,  \* one that does not
    NoVersion, Rejected

AllVersions == Versions \cup {OddVersion}

ASSUME HandshakeAssumption ==
    /\ Versions \subseteq Nat \X Nat
    /\ OddVersion \notin Versions /\ {NoVersion, Rejected} \cap AllVersions = {}

VARIABLES
    asked,      \* protocol_version of the client
    knows,      \* supported_protocol_versions of each end
    sameCodec,  \* both ends use the same wire codec
    accepts,    \* the server has an initialize handler
    client,     \* where initialize() stands
    server,     \* where _handle_initialize stands
    agreed,     \* negotiated_protocol_version of each end
    owner,      \* where wait_until_remote_initialized() stands
    request,    \* the initialize frame is on its way
    reply,      \* the result on its way: a version, Rejected or NoVersion
    open        \* the transport

handshakeVars == <<asked, knows, sameCodec, accepts, client, server, agreed,
                   owner, request, reply, open>>

Ends == {"client", "server"}

HandshakeTypeOK ==
    /\ asked \in AllVersions /\ knows \in [Ends -> SUBSET AllVersions]
    /\ sameCodec \in BOOLEAN /\ accepts \in BOOLEAN
    /\ client \in {"new", "waiting", "initialized", "refused", "failed"}
    /\ server \in {"new", "handling", "initialized", "unusable"}
    /\ owner \in {"waiting", "ready", "closed", "timeout"}
    /\ agreed \in [Ends -> AllVersions \cup {NoVersion}]
    /\ request \in BOOLEAN /\ open \in BOOLEAN
    /\ reply \in AllVersions \cup {Rejected, NoVersion}

(* _dedupe_protocol_versions: an end knows the version it prefers.            *)
HandshakeInit ==
    /\ asked \in AllVersions
    /\ knows \in [Ends -> (SUBSET AllVersions) \ {{}}] /\ asked \in knows["client"]
    /\ sameCodec \in BOOLEAN /\ accepts \in BOOLEAN
    /\ client = "new" /\ server = "new" /\ owner = "waiting"
    /\ agreed = [e \in Ends |-> NoVersion]
    /\ request = FALSE /\ reply = NoVersion /\ open = TRUE

-----------------------------------------------------------------------------
Above(v, w) == v[1] > w[1] \/ (v[1] = w[1] /\ v[2] > w[2])

(* Those both know, of the asked one's major version and not above it.        *)
CommonVersions(requested, remote, local) ==
    IF requested = OddVersion THEN {}
    ELSE {v \in (remote \cap local) \ {OddVersion} :
             v[1] = requested[1] /\ ~Above(v, requested)}

\* Mutant: a version of the same major number that only the server knows is
\* selected too.
SelectOwn(requested, remote, local) ==
    LET candidates == CommonVersions(requested, local, local) IN
    IF requested \in local THEN requested
    ELSE IF candidates = {} THEN NoVersion
    ELSE CHOOSE v \in candidates : \A w \in candidates : ~Above(w, v)

(* _select_negotiated_protocol_version                                        *)
Select(requested, remote, local) ==
    LET candidates == CommonVersions(requested, remote, local) IN
    IF requested \in local THEN requested
    ELSE IF candidates = {} THEN NoVersion
    ELSE CHOOSE v \in candidates : \A w \in candidates : ~Above(w, v)

-----------------------------------------------------------------------------
setup == <<asked, knows, sameCodec, accepts>>

(* initialize() sends its frame and waits, without a time limit.              *)
ClientAsks ==
    /\ client = "new"
    /\ IF open THEN client' = "waiting" /\ request' = TRUE
       ELSE client' = "failed" /\ UNCHANGED request
    /\ UNCHANGED <<setup, server, agreed, owner, reply, open>>

Replied(what) == reply' = IF open THEN what ELSE NoVersion

\* Mutant: the connection is marked unusable and left open.
ServerFailsQuietly == server' = "unusable" /\ UNCHANGED open

(* _fail_connection and _reject_initialize stop the peer.                     *)
ServerFails == server' = "unusable" /\ open' = FALSE

(* The frame arrives: the codec may not read it, which fails the connection   *)
(* without an answer; a peer that takes no initialize, or knows no common     *)
(* version, answers and stops.                                                *)
ServerReads ==
    LET version == Select(asked, knows["client"], knows["server"]) IN
    /\ request /\ server = "new" /\ request' = FALSE
    /\ CASE ~sameCodec -> ServerFails /\ UNCHANGED <<reply, agreed>>
         [] sameCodec /\ ~(accepts /\ version # NoVersion) ->
              ServerFails /\ Replied(Rejected) /\ UNCHANGED agreed
         [] OTHER -> /\ server' = "handling" /\ agreed' = [agreed EXCEPT !["server"] = version]
                     /\ UNCHANGED <<reply, open>>
    /\ UNCHANGED <<setup, client, owner>>

(* _initialize_handler returns and the result is sent, or it raises, or its   *)
(* answer is no good and the peer rejects after all.                          *)
HandlerAnswers ==
    /\ server = "handling"
    /\ \/ open /\ server' = "initialized" /\ Replied(agreed["server"]) /\ UNCHANGED open
       \/ ServerFails /\ UNCHANGED reply
       \/ ServerFails /\ Replied(Rejected)
    /\ UNCHANGED <<setup, client, agreed, owner, request>>

(* The future of initialize() is done: it refuses an error and a version it   *)
(* does not know, and stops the peer.                                         *)
ClientReads ==
    /\ client = "waiting" /\ reply # NoVersion
    /\ IF reply \in knows["client"]
       THEN /\ client' = "initialized" /\ agreed' = [agreed EXCEPT !["client"] = reply]
            /\ UNCHANGED open
       ELSE client' = "refused" /\ open' = FALSE /\ UNCHANGED agreed
    /\ reply' = NoVersion
    /\ UNCHANGED <<setup, server, owner, request>>

(* The end of the connection fails what waits.                                *)
ClientCutOff ==
    /\ client = "waiting" /\ ~open /\ reply = NoVersion
    /\ client' = "failed"
    /\ UNCHANGED <<setup, server, agreed, owner, request, reply, open>>

ConnectionLost ==
    /\ open /\ open' = FALSE
    /\ request' \in {request, FALSE} /\ reply' \in {reply, NoVersion}
    /\ UNCHANGED <<setup, client, server, agreed, owner>>

(* wait_until_remote_initialized(): the owner gives up at the time limit.     *)
OwnerWakes ==
    /\ owner = "waiting"
    /\ \/ server = "initialized" /\ owner' = "ready" /\ UNCHANGED open
       \/ (~open \/ server = "unusable") /\ server # "initialized"
          /\ owner' = "closed" /\ UNCHANGED open
       \/ server # "initialized" /\ owner' = "timeout" /\ open' = FALSE
    /\ UNCHANGED <<setup, client, server, agreed, request, reply>>

HandshakeNext ==
    \/ ClientAsks \/ ServerReads \/ HandlerAnswers \/ ClientReads
    \/ ClientCutOff \/ ConnectionLost \/ OwnerWakes

HandshakeStep ==
    ServerReads \/ HandlerAnswers \/ ClientReads \/ ClientCutOff \/ OwnerWakes
HandshakeSpec == HandshakeInit /\ [][HandshakeNext]_handshakeVars
HandshakeFairSpec == HandshakeSpec /\ WF_handshakeVars(HandshakeStep)

-----------------------------------------------------------------------------
(* An owner that goes on has a peer that agreed to the best version both ends *)
(* know within what was asked, and so has a client that goes on: the same.    *)
BothAgree ==
    /\ owner = "ready" => agreed["server"] # NoVersion
    /\ client = "initialized" => agreed["client"] = agreed["server"]
    /\ \A e \in Ends : agreed[e] # NoVersion =>
        /\ agreed[e] \in knows["client"] \cap knows["server"]
        /\ agreed[e] # asked =>
              /\ asked \notin knows["server"] /\ ~Above(agreed[e], asked)
              /\ \A v \in (knows["client"] \cap knows["server"]) \cap Versions :
                     (v[1] = asked[1] /\ Above(v, agreed[e])) => Above(v, asked)

(* The safety part of InitializeEnds: while initialize() waits, its request   *)
(* is on its way, handled or answered, or the connection is closed.           *)
InitializeIsUnderWay ==
    client = "waiting" =>
        (request /\ server = "new") \/ server = "handling" \/ reply # NoVersion \/ ~open

(* initialize() has no time limit: it ends because every way in which the     *)
(* server does not answer ends the connection.                                *)
InitializeEnds == client = "waiting" ~> client # "waiting"
=============================================================================
