----------------------------- MODULE Environments -----------------------------
(* EnvironmentPlanner and GroupEnvironmentManager: which plugins share a      *)
(* Python environment, and the files of every group as the supervisor is      *)
(* started again and again while requirements change, uv fails and the        *)
(* process is killed.                                                         *)
EXTENDS Integers, Sequences, FiniteSets, FiniteSetsExt, SequencesExt

CONSTANTS
    NumPlugins,     \* plugins are numbered in the order of their names
    PythonOf,       \* runtime.python of each plugin
    Pins,           \* versions of one package that a plugin may pin
    FirstPins,      \* the requirements the supervisor first meets, by plugin
    NoPin,          \* a plugin without requirements
    NoFile, Broken, \* a file that is not there, or that cannot be read
    Mixed,          \* what an interrupted installation leaves
    Edited,         \* plugins whose requirements change (a bound)
    MaxStarts       \* bound on the starts of the supervisor

PluginNos == 1..NumPlugins
Groups    == (SUBSET PluginNos) \ {{}}
Specs(g) == [g -> Pins \cup {NoPin}]   \* of a lock file, and so a fingerprint

ASSUME EnvAssumption ==
    /\ NumPlugins \in Nat /\ MaxStarts \in Nat
    /\ FirstPins \subseteq Specs(PluginNos)
    /\ NoFile # Broken /\ NoFile # Mixed /\ Broken # Mixed
    /\ \A g \in Groups : {NoFile, Broken, Mixed} \cap Specs(g) = {}

VARIABLES
    pinned,    \* requirements.txt of each plugin
    lockFile,  \* locks/<group>.txt
    venv,      \* packages installed in envs/<group>, NoFile if it is not there
    stateFile, \* .group-venv-state.json of a group: the fingerprint
    starts,
    phase,     \* of the supervisor: "off", "preparing" or "running"
    plan,      \* groups of the plan
    leftOut,   \* skipped_plugins of the plan
    todo,      \* groups whose worker is still to be started
    job,       \* the group being prepared and what comes next
    ready,     \* groups whose interpreter was returned
    torn       \* groups into which uv has installed, or tried to, since their
               \* state file was written (no variable of the code)

diskVars == <<lockFile, venv, stateFile>>
envVars  == <<pinned, diskVars, starts, phase, plan, leftOut, todo, job, ready,
             torn>>

NoJob == [group |-> {}, next |-> "none"]

EnvTypeOK ==
    /\ pinned \in Specs(PluginNos)
    /\ \A g \in Groups : /\ lockFile[g] \in Specs(g) \cup {NoFile}
                         /\ venv[g] \in Specs(g) \cup {NoFile, Mixed, <<>>}
                         /\ stateFile[g] \in Specs(g) \cup {NoFile, Broken}
                         /\ venv[g] = NoFile => stateFile[g] = NoFile
    /\ starts \in 0..MaxStarts /\ phase \in {"off", "preparing", "running"}
    /\ plan \subseteq Groups /\ todo \subseteq plan /\ ready \subseteq plan \ todo
    /\ leftOut \subseteq PluginNos
    /\ job.group \in plan \cup {{}} /\ job.next \in {"none", "venv", "sync", "state"}
    /\ torn \subseteq Groups

EnvInit ==
    /\ pinned \in FirstPins
    /\ lockFile = [g \in Groups |-> NoFile] /\ venv = lockFile /\ stateFile = lockFile
    /\ starts = 0 /\ phase = "off"
    /\ plan = {} /\ leftOut = {} /\ todo = {} /\ job = NoJob /\ ready = {}
    /\ torn = {}

-----------------------------------------------------------------------------
(* _sort_plugins: more requirements first, then by name.                      *)
TurnOf(p) == IF pinned[p] = NoPin THEN NumPlugins + p ELSE p

PinsOf(g) == {pinned[p] : p \in g} \ {NoPin}

(* uv pip compile.                                                            *)
Solves(g, unsolvable) == Cardinality(PinsOf(g)) <= 1 /\ g \cap unsolvable = {}

(* _is_compatible: pins of one package that agree need no solver, and one     *)
(* that is asked finds that other pins conflict.                              *)
Compatible(g) == Cardinality(PinsOf(g)) <= 1

(* _build_candidate_groups: the first group of its Python version that fits.  *)
Placed(groups, p) ==
    LET fits == {n \in DOMAIN groups :
                    /\ \A q \in groups[n] : PythonOf[q] = PythonOf[p]
                    /\ Compatible(groups[n] \cup {p})}
    IN IF fits = {} THEN Append(groups, {p})
       ELSE [groups EXCEPT ![Min(fits)] = @ \cup {p}]

Grouped[turn \in 0..2 * NumPlugins] ==
    IF turn = 0 THEN <<>>
    ELSE LET its == {p \in PluginNos : TurnOf(p) = turn} IN
         IF its = {} THEN Grouped[turn - 1]
         ELSE Placed(Grouped[turn - 1], CHOOSE p \in its : TRUE)

Candidates == Range(Grouped[2 * NumPlugins])

(* _materialize_candidate_group: a group without a lock file is split.        *)
Alone(unsolvable) ==
    UNION {g \in Candidates : ~Solves(g, unsolvable)}
Materialized(unsolvable) ==
    {g \in Candidates : Solves(g, unsolvable)} \cup
    {{p} : p \in {q \in Alone(unsolvable) : Solves({q}, unsolvable)}}
Refused(unsolvable) == {q \in Alone(unsolvable) : ~Solves({q}, unsolvable)}

LockOf(g) == [p \in g |-> pinned[p]]
Written(groups) == [g \in Groups |-> IF g \in groups THEN LockOf(g) ELSE lockFile[g]]
RemovedBut(files, groups) == [g \in Groups |-> IF g \in groups THEN files[g] ELSE NoFile]

PlanStarts(unsolvable) ==
    /\ phase = "off" /\ starts < MaxStarts
    /\ unsolvable \subseteq {p \in PluginNos : pinned[p] # NoPin}
    /\ starts' = starts + 1

(* plan(): every lock file is written, then what no group uses is removed.    *)
PlanGroups ==
    \E unsolvable \in SUBSET PluginNos :
        /\ PlanStarts(unsolvable)
        /\ plan' = Materialized(unsolvable)
        /\ leftOut' = Refused(unsolvable)
        /\ lockFile' = RemovedBut(Written(plan'), plan')
        /\ venv' = RemovedBut(venv, plan') /\ stateFile' = RemovedBut(stateFile, plan')
        /\ todo' = plan' /\ phase' = "preparing"
        /\ UNCHANGED <<pinned, job, ready, torn>>

(* The supervisor is killed while it plans.                                   *)
PlanKilled ==
    \E unsolvable \in SUBSET PluginNos :
        /\ PlanStarts(unsolvable)
        /\ LET groups == Materialized(unsolvable) IN
           \/ /\ \E some \in SUBSET groups : lockFile' = Written(some)
              /\ UNCHANGED <<venv, stateFile>>
           \/ \E kept \in SUBSET {g \in Groups \ groups : venv[g] # NoFile} :
                 /\ lockFile' = RemovedBut(Written(groups), groups)
                 /\ venv' = RemovedBut(venv, groups \cup kept)
                 /\ stateFile' = RemovedBut(stateFile, groups \cup kept)
        /\ UNCHANGED <<pinned, phase, plan, leftOut, todo, job, ready, torn>>

-----------------------------------------------------------------------------
Returned(g) == ready' = ready \cup {g} /\ job' = NoJob
Failed      == job' = NoJob /\ UNCHANGED ready

\* Mutant: an environment that was prepared once is used again as it is.
MatchesAlways(g) == stateFile[g] # NoFile

(* _state_matches_group.                                                      *)
Matches(g) == stateFile[g] = LockOf(g)

(* The interpreter is gone or the state file cannot be read; when a removal   *)
(* was interrupted, the interpreter may be gone.                              *)
Damaged(g)     == venv[g] = NoFile \/ stateFile[g] = Broken
HalfRemoved(g) == venv[g] = Mixed /\ stateFile[g] = NoFile

(* prepare(): groups follow one another in the order of hashes; what has to   *)
(* be done for this one.                                                      *)
Prepare(g) ==
    /\ phase = "preparing" /\ job = NoJob /\ g \in todo
    /\ todo' = todo \ {g}
    /\ \/ /\ Damaged(g) \/ HalfRemoved(g)
          /\ job' = [group |-> g, next |-> "venv"] /\ UNCHANGED ready
       \/ /\ ~Damaged(g) /\ ~Matches(g)
          /\ job' = [group |-> g, next |-> "sync"] /\ UNCHANGED ready
       \/ ~Damaged(g) /\ Matches(g) /\ Returned(g)
    /\ UNCHANGED <<pinned, diskVars, starts, phase, plan, leftOut, torn>>

Working(g, step) == job = [group |-> g, next |-> step]
idleVars == <<pinned, lockFile, starts, phase, plan, leftOut, todo>>

(* _rebuild: the old environment is removed and an empty one made, if uv can. *)
CreateVenv(g) ==
    /\ Working(g, "venv")
    /\ stateFile' = [stateFile EXCEPT ![g] = NoFile] /\ torn' = torn \ {g}
    /\ \/ /\ venv' = [venv EXCEPT ![g] = <<>>]
          /\ job' = [job EXCEPT !.next = "sync"] /\ UNCHANGED ready
       \/ venv' = [venv EXCEPT ![g] = NoFile] /\ Failed
    /\ UNCHANGED idleVars

Partial(g) == {venv[g], Mixed, lockFile[g]}

(* uv pip sync, which may fail before, while or after it installs.            *)
SyncLockfile(g) ==
    /\ Working(g, "sync")
    /\ \/ /\ venv' = [venv EXCEPT ![g] = lockFile[g]]
          /\ job' = [job EXCEPT !.next = "state"] /\ UNCHANGED ready
       \/ \E left \in Partial(g) : venv' = [venv EXCEPT ![g] = left] /\ Failed
    /\ torn' = torn \cup {g}
    /\ UNCHANGED <<idleVars, stateFile>>

WriteState(g) ==
    /\ Working(g, "state")
    /\ stateFile' = [stateFile EXCEPT ![g] = LockOf(g)] /\ torn' = torn \ {g}
    /\ Returned(g)
    /\ UNCHANGED <<idleVars, venv>>

AllPrepared ==
    /\ phase = "preparing" /\ job = NoJob /\ todo = {}
    /\ phase' = "running"
    /\ UNCHANGED <<pinned, diskVars, starts, plan, leftOut, todo, job, ready, torn>>

Off == /\ phase' = "off" /\ plan' = {} /\ leftOut' = {} /\ todo' = {}
       /\ job' = NoJob /\ ready' = {}

(* The supervisor stops or is killed, perhaps in the middle of a file.        *)
EnvStop ==
    /\ phase # "off" /\ job = NoJob
    /\ Off /\ UNCHANGED <<pinned, diskVars, starts, torn>>

EnvKilled ==
    LET g == job.group IN
    /\ job # NoJob
    /\ \/ /\ job.next = "venv" /\ UNCHANGED torn
          /\ \E left \in {NoFile, <<>>, venv[g], Mixed} :
                /\ venv' = [venv EXCEPT ![g] = left]
                /\ \/ stateFile' = [stateFile EXCEPT ![g] = NoFile]
                   \/ left \in {venv[g], Mixed} \ {NoFile} /\ UNCHANGED stateFile
       \/ /\ job.next = "sync" /\ torn' = torn \cup {g} /\ UNCHANGED stateFile
          /\ \E left \in Partial(g) : venv' = [venv EXCEPT ![g] = left]
       \/ /\ job.next = "state" /\ UNCHANGED venv
          /\ \/ /\ stateFile' \in {stateFile, [stateFile EXCEPT ![g] = Broken]}
                /\ UNCHANGED torn
             \/ /\ stateFile' = [stateFile EXCEPT ![g] = LockOf(g)]
                /\ torn' = torn \ {g}
    /\ Off /\ UNCHANGED <<pinned, lockFile, starts>>

(* A plugin is given other requirements while the supervisor is off.          *)
EditRequirements(p) ==
    /\ p \in Edited /\ phase = "off" /\ starts \in 1..MaxStarts - 1
    /\ \E pin \in Pins \cup {NoPin} : pinned' = [pinned EXCEPT ![p] = pin]
    /\ UNCHANGED <<diskVars, starts, phase, plan, leftOut, todo, job, ready, torn>>

EnvNext ==
    \/ PlanGroups \/ PlanKilled \/ AllPrepared \/ EnvStop \/ EnvKilled
    \/ \E g \in Groups : Prepare(g) \/ CreateVenv(g) \/ SyncLockfile(g) \/ WriteState(g)
    \/ \E p \in PluginNos : EditRequirements(p)

EnvSpec == EnvInit /\ [][EnvNext]_envVars

-----------------------------------------------------------------------------
(* Every plugin has one environment or is left out; plugins that share one    *)
(* want the same Python and no two versions of a package.                     *)
PlanSound ==
    phase # "off" =>
        /\ \A p \in PluginNos : p \in leftOut \/ \E g \in plan : p \in g
        /\ \A g, h \in plan : g # h => g \cap h = {}
        /\ \A g \in plan : /\ \A p, q \in g : PythonOf[p] = PythonOf[q]
                           /\ Cardinality(PinsOf(g)) <= 1

(* A worker is started in an environment that holds what its lock file says,  *)
(* unless uv was interrupted in it or failed and no state file was written    *)
(* since; even then it is one that uv has installed into.                     *)
NeverOutdated ==
    \A g \in ready : \/ venv[g] = LockOf(g)
                     \/ g \in torn /\ venv[g] \in Specs(g) \cup {Mixed}

(* What the plan promises a plugin is what it finds when its worker starts.   *)
EnvironmentsFit == PlanSound /\ NeverOutdated

(* The interpreter that prepare() returns can be used to start the worker:    *)
(* what is installed is what the lock file says.  It is not after a sync that *)
(* failed half-way when the requirements have changed back since.             *)
EnvironmentIsReady == \A g \in ready : venv[g] = LockOf(g)
=============================================================================
