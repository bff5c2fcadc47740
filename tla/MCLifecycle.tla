----------------------------- MODULE MCLifecycle -----------------------------
(***************************************************************************)
(* Small instances of the components that start, connect and stop.  What   *)
(* may differ from the start on, such as the kind of a worker or what the  *)
(* ends of a connection know, does so where it matters only: in the        *)
(* component that is explored.                                             *)
(***************************************************************************)
EXTENDS Lifecycle, TLC

CONSTANTS w1, w2, r, s, p, q, x, cp, cx, builtin, o1, o2, o3, p1, p2

LifecycleSessions == <<w1, w2, r, s>>
LifecycleDeclared == (w1 :> {p}) @@ (w2 :> {q}) @@ (r :> {x}) @@ (s :> {x})
LifecycleExports  == (p :> {cp}) @@ (q :> {builtin}) @@ (x :> {cx})
LifecyclePrefix   == (cp :> {p}) @@ (builtin :> {q}) @@ (cx :> {x})
LifecycleParts    == << <<{"http", "hook", "skill", "task"}, {"http"}>>, <<{"skill"}>> >>
LifecycleVersions == {<<1, 0>>, <<1, 1>>, <<2, 0>>}
LifecyclePythonOf == <<"3.12", "3.12", "3.13">>
LifecyclePins     == {<<p1, p2, NoPin>>, <<p1, NoPin, p1>>}

MCLifecycleInit ==
    /\ LifecycleInit
    /\ part # "worker" => single = TRUE
    /\ part # "handshake" =>
          /\ asked = OddVersion /\ knows = [e \in Ends |-> {OddVersion}]
          /\ sameCodec = TRUE /\ accepts = TRUE
    /\ part # "environments" => pinned = <<p1, p2, NoPin>>

\* LifecycleSpec, from these initial states.
MCLifecycleSpec ==
    /\ MCLifecycleInit /\ [][LifecycleNext]_lifecycleVars
    /\ WF_lifecycleVars(LifecycleStep)
=============================================================================
