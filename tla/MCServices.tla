------------------------------ MODULE MCServices ------------------------------
(***************************************************************************)
(* Small instances of what the host keeps for its plugins, and the         *)
(* capabilities as they are called, which are a part of their own.  Where  *)
(* an embedder is there or a reader stands differs from the start on only  *)
(* in the component that is explored.                                      *)
(***************************************************************************)
EXTENDS Services, Capabilities, TLC

CONSTANT s1

ServicesKindOrder == <<"chat", "tts">>
ServicesFirstLoaded ==
    [k \in Range(ServicesKindOrder) |-> IF k = "chat" THEN "x" ELSE "y"]
ServicesChunkSizes == {-1, 2}

MCServicesInit ==
    /\ ServicesInit /\ CapabilitiesInit
    /\ part # "memory" => faiss = TRUE
    /\ part # "history" =>
          reader = [at |-> "idle", of |-> CHOOSE s \in HistSessions : TRUE,
                    cursor |-> 0, got |-> <<>>]

HostServes      == ServicesNext /\ UNCHANGED capabilityVars
CapabilitiesRun == part = "capabilities" /\ CapabilitiesNext /\ UNCHANGED servicesVars

MCServicesSpec ==
    /\ MCServicesInit
    /\ [][HostServes \/ CapabilitiesRun]_<<servicesVars, capabilityVars>>
=============================================================================
