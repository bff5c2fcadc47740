------------------------------- MODULE Services -------------------------------
(* What the host keeps for its plugins, side by side: the watched keys of the *)
(* store, conversations, message history, knowledge bases and providers of    *)
(* the capability router, the memory of a plugin, the conversations of its    *)
(* handlers and their limits.  They share no state; "part" is the one whose   *)
(* behaviour is explored, while the others stay as they begin.                *)
EXTENDS Watch, Conversations, MessageHistory, KnowledgeBases, Providers, Memory,
        Dialogues, Limiter

VARIABLE part

servicesVars ==
    <<part, watchVars, convVars, histVars, kbVars, provVars, memoryVars,
      dialogueVars, limiterVars>>

(* "capabilities": the calls themselves, of module Capabilities.              *)
Parts == {"watch", "conversations", "history", "knowledge", "providers", "memory",
          "dialogues", "limiter", "capabilities"}

ServicesInit ==
    /\ part \in Parts
    /\ WatchInit /\ ConvInit /\ HistInit /\ KbInit /\ ProvInit /\ MemInit
    /\ DialogueInit /\ LimiterInit

OthersStay ==
    /\ UNCHANGED part
    /\ IF part = "watch" THEN TRUE ELSE UNCHANGED watchVars
    /\ IF part = "conversations" THEN TRUE ELSE UNCHANGED convVars
    /\ IF part = "history" THEN TRUE ELSE UNCHANGED histVars
    /\ IF part = "knowledge" THEN TRUE ELSE UNCHANGED kbVars
    /\ IF part = "providers" THEN TRUE ELSE UNCHANGED provVars
    /\ IF part = "memory" THEN TRUE ELSE UNCHANGED memoryVars
    /\ IF part = "dialogues" THEN TRUE ELSE UNCHANGED dialogueVars
    /\ IF part = "limiter" THEN TRUE ELSE UNCHANGED limiterVars

WatchRuns        == part = "watch" /\ WatchNext /\ OthersStay
ConversationsRun == part = "conversations" /\ ConvNext /\ OthersStay
HistoryRuns      == part = "history" /\ HistNext /\ OthersStay
KnowledgeRuns    == part = "knowledge" /\ KbNext /\ OthersStay
ProvidersRun     == part = "providers" /\ ProvNext /\ OthersStay
MemoryRuns       == part = "memory" /\ MemNext /\ OthersStay
DialoguesRun     == part = "dialogues" /\ DialogueNext /\ OthersStay
LimiterRuns      == part = "limiter" /\ LimiterNext /\ OthersStay

ServicesNext ==
    \/ WatchRuns \/ ConversationsRun \/ HistoryRuns \/ KnowledgeRuns
    \/ ProvidersRun \/ MemoryRuns \/ DialoguesRun \/ LimiterRuns

ServicesSpec == ServicesInit /\ [][ServicesNext]_servicesVars

(* Every component keeps to its types. *)
ServicesTypeOK ==
    /\ WatchTypeOK /\ ConvTypeOK /\ HistTypeOK /\ KbTypeOK /\ ProvTypeOK /\ MemTypeOK
    /\ DialogueTypeOK /\ LimiterTypeOK
=============================================================================
