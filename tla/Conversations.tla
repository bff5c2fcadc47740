----------------------------- MODULE Conversations -----------------------------
(* conversation.* and persona.*: the conversations of every session, the      *)
(* current one of each, and the personas they name.  Every handler runs       *)
(* without awaiting, so calls of several plugins take turns.                  *)
EXTENDS Naturals, FiniteSets

CONSTANTS
    ConvSessions,
    Personas,
    NoSession, NoPersona,
    MaxConv        \* bound on the conversations ever created

ConvIds == 1..MaxConv   \* a new uuid each; the store keeps them in this order
NoConv  == 0

ASSUME ConvAssumption ==
    /\ MaxConv \in Nat
    /\ NoSession \notin ConvSessions
    /\ NoPersona \notin Personas

VARIABLES
    sessionOf,     \* _conversation_store: the session of each conversation
    personaOf,     \* its persona_id
    current,       \* _session_current_conversation_ids
    created,       \* number of conversations created
    personas       \* keys of _persona_store

convVars == <<sessionOf, personaOf, current, created, personas>>

ConvTypeOK ==
    /\ sessionOf \in [ConvIds -> ConvSessions \cup {NoSession}]
    /\ personaOf \in [ConvIds -> Personas \cup {NoPersona}]
    /\ current \in [ConvSessions -> ConvIds \cup {NoConv}]
    /\ created \in 0..MaxConv
    /\ personas \subseteq Personas

ConvInit ==
    /\ sessionOf = [c \in ConvIds |-> NoSession]
    /\ personaOf = [c \in ConvIds |-> NoPersona]
    /\ current = [s \in ConvSessions |-> NoConv]
    /\ created = 0
    /\ personas = {}

-----------------------------------------------------------------------------
ConvsOf(s) == {c \in ConvIds : sessionOf[c] = s}

(* conversation.new: the new one becomes current.                             *)
ConvCreate(s, p) ==
    /\ created < MaxConv
    /\ created' = created + 1
    /\ sessionOf' = [sessionOf EXCEPT ![created + 1] = s]
    /\ personaOf' = [personaOf EXCEPT ![created + 1] = p]
    /\ current' = [current EXCEPT ![s] = created + 1]
    /\ UNCHANGED personas

ConvNew(s) == \E p \in Personas \cup {NoPersona} : ConvCreate(s, p)

(* conversation.get_current, and conversation.get of an id nobody has, with   *)
(* create_if_not_exists.                                                      *)
ConvGetCurrent(s) == current[s] = NoConv /\ ConvCreate(s, NoPersona)
ConvGetUnknown(s) == ConvCreate(s, NoPersona)

(* conversation.switch refuses a conversation of another session.             *)
ConvSwitch(s) ==
    \E c \in ConvsOf(s) :
        /\ current' = [current EXCEPT ![s] = c]
        /\ UNCHANGED <<sessionOf, personaOf, created, personas>>

\* Mutant: an id that is given is not compared with the session.
ConvNamedAny(s) == {c \in ConvIds : sessionOf[c] # NoSession}

(* The conversation that delete, update and unset_persona may act on when     *)
(* called for session s: one it names, or the current one.                    *)
ConvNamed(s) == ConvsOf(s)

(* The first conversation of the session that the store holds.                *)
ConvFirst(s, left) ==
    IF left = {} THEN NoConv ELSE CHOOSE c \in left : \A d \in left : c <= d

ConvDelete(s) ==
    \E c \in ConvNamed(s) :
        /\ sessionOf' = [sessionOf EXCEPT ![c] = NoSession]
        /\ personaOf' = [personaOf EXCEPT ![c] = NoPersona]
        /\ current' = IF current[s] = c
                      THEN [current EXCEPT ![s] = ConvFirst(s, ConvsOf(s) \ {c})]
                      ELSE current
        /\ UNCHANGED <<created, personas>>

(* conversation.update and conversation.unset_persona.                        *)
ConvUpdate(s) ==
    \E c \in ConvNamed(s), p \in Personas \cup {NoPersona} :
        /\ personaOf' = [personaOf EXCEPT ![c] = p]
        /\ UNCHANGED <<sessionOf, current, created, personas>>

(* persona.create refuses a name in use, persona.delete one that is not.      *)
PersonaCreate ==
    \E p \in Personas \ personas :
        /\ personas' = personas \cup {p}
        /\ UNCHANGED <<sessionOf, personaOf, current, created>>

PersonaDelete ==
    \E p \in personas :
        /\ personas' = personas \ {p}
        /\ UNCHANGED <<sessionOf, personaOf, current, created>>

(* A call that names session s.                                               *)
ConvCall(s) ==
    \/ ConvNew(s) \/ ConvGetCurrent(s) \/ ConvGetUnknown(s)
    \/ ConvSwitch(s) \/ ConvDelete(s) \/ ConvUpdate(s)

ConvNext == (\E s \in ConvSessions : ConvCall(s)) \/ PersonaCreate \/ PersonaDelete

ConvSpec == ConvInit /\ [][ConvNext]_convVars

-----------------------------------------------------------------------------
(* A session has a current conversation as long as it has any, and it is one  *)
(* of its own that still exists: no sequence of new, switch and delete leaves *)
(* the pointer dangling, at another session's conversation, or lost.          *)
CurrentStands ==
    \A s \in ConvSessions :
        IF ConvsOf(s) = {} THEN current[s] = NoConv ELSE current[s] \in ConvsOf(s)

(* Everything a plugin can ask for in one session.                            *)
SessionView(s) ==
    <<current[s], ConvsOf(s), [c \in ConvsOf(s) |-> personaOf[c]]>>

(* Whatever conversation a call for a session names, other sessions see what  *)
(* they saw, and a persona that comes or goes changes no conversation.        *)
OthersUntouched ==
    [][/\ \A s \in ConvSessions : ConvCall(s) =>
              \A t \in ConvSessions \ {s} : SessionView(t)' = SessionView(t)
       /\ PersonaCreate \/ PersonaDelete =>
              \A t \in ConvSessions : SessionView(t)' = SessionView(t)]_convVars

(* A session has its own conversations, with one of them current, and no      *)
(* other session has a part in them.                                          *)
SessionsApart == []CurrentStands /\ OthersUntouched
=============================================================================
