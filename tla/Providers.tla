------------------------------- MODULE Providers -------------------------------
(* provider.manager.*: what is loaded of every kind, the stored               *)
(* configurations, the provider in use of every kind, and a plugin that       *)
(* watches the changes.  The callers are reserved plugins; no handler awaits. *)
EXTENDS Naturals, Sequences, FiniteSets, SequencesExt, Selection

CONSTANTS
    KindOrder,      \* chat, tts ...: one for each provider_type, in the order
                    \* of the catalog's keys
    ProviderIds,
    Sources,        \* provider_source_id, with one that stands for none
    NoSource, NoProvider,
    FirstLoaded,    \* FirstLoaded[k]: the mock provider the router starts with
    MaxLoaded,      \* bound on the providers loaded of a kind
    MaxUntold       \* bound on the events waiting when more are put

Kinds == Range(KindOrder)

ASSUME ProvidersAssumption ==
    /\ Kinds # {} /\ IsFiniteSet(ProviderIds) /\ NoSource \in Sources
    /\ FirstLoaded \in [Kinds -> ProviderIds]
    /\ MaxLoaded \in Nat /\ MaxLoaded >= 1 /\ MaxUntold \in Nat

VARIABLES
    catalog,    \* _provider_catalog
    configs,    \* _provider_configs
    using,      \* _active_provider_ids
    told,       \* the queue of the watcher in _provider_change_subscriptions
    mirror,     \* the ids the watcher takes to be loaded
    renamed     \* ids an update has given up for another

provVars == <<catalog, configs, using, told, mirror, renamed>>

Config == [kind : Kinds, enable : BOOLEAN, source : Sources]

ProvTypeOK ==
    /\ catalog \in [Kinds -> Seq(ProviderIds)] /\ \A k \in Kinds : Len(catalog[k]) <= MaxLoaded
    /\ DOMAIN configs \subseteq ProviderIds
    /\ \A p \in DOMAIN configs : configs[p] \in Config
    /\ using \in [Kinds -> ProviderIds \cup {NoProvider}]
    /\ told \in Seq(ProviderIds) /\ Len(told) < MaxUntold + Cardinality(ProviderIds)
    /\ mirror \subseteq ProviderIds /\ renamed \subseteq ProviderIds

LoadedAs(k, p)  == p \in Range(catalog[k])
Loaded(cat)     == UNION {Range(cat[k]) : k \in Kinds}

ProvInit ==
    /\ catalog = [k \in Kinds |-> <<FirstLoaded[k]>>]
    /\ configs = [p \in Range(FirstLoaded) |->
                     [kind |-> CHOOSE k \in Kinds : FirstLoaded[k] = p,
                      enable |-> TRUE, source |-> NoSource]]
    /\ using = FirstLoaded
    /\ told = <<>> /\ renamed = {}
    /\ mirror = Range(FirstLoaded)

-----------------------------------------------------------------------------
(* _emit_provider_change.                                                     *)
TellWatcher(ids) ==
    /\ Len(told) < MaxUntold
    /\ told' = told \o ids

Unloaded(items, gone)  == Picked(items, {n \in DOMAIN items : items[n] \notin gone})
Reloaded(items, p)     == Append(Unloaded(items, {p}), p)
FirstOf(items)         == IF items = <<>> THEN NoProvider ELSE items[1]
Dropped(f, gone)       == [p \in DOMAIN f \ gone |-> f[p]]
Stored(f, p, c)        == [q \in DOMAIN f \cup {p} |-> IF q = p THEN c ELSE f[q]]

(* _managed_provider_record_by_id: the kind it is first loaded as or else is  *)
(* stored with.                                                              *)
Managed(p) == p \in Loaded(catalog) \cup DOMAIN configs
KindOf(p) ==
    IF p \in Loaded(catalog)
    THEN KindOrder[CHOOSE n \in DOMAIN KindOrder :
             /\ LoadedAs(KindOrder[n], p)
             /\ \A m \in 1..n - 1 : ~LoadedAs(KindOrder[m], p)]
    ELSE configs[p].kind

ProvSet ==
    \E k \in Kinds, p \in ProviderIds :
        /\ LoadedAs(k, p)
        /\ using' = [using EXCEPT ![k] = p]
        /\ TellWatcher(<<p>>)
        /\ UNCHANGED <<catalog, configs, mirror, renamed>>

(* A configuration that is not enabled loads nothing and is not kept.         *)
ProvLoad ==
    \E k \in Kinds, p \in ProviderIds :
        /\ catalog' = [catalog EXCEPT ![k] = Reloaded(@, p)]
        /\ Len(catalog'[k]) <= MaxLoaded
        /\ TellWatcher(<<p>>)
        /\ UNCHANGED <<configs, using, mirror, renamed>>

\* Mutant: the watchers are not told.
ProvTerminateSilently ==
    \E p \in ProviderIds : Managed(p) /\ LET k == KindOf(p) IN
        /\ catalog' = [catalog EXCEPT ![k] = Unloaded(@, {p})]
        /\ using' = IF using[k] = p THEN [using EXCEPT ![k] = FirstOf(catalog'[k])]
                    ELSE using
        /\ UNCHANGED <<configs, told, mirror, renamed>>

(* The configuration stays; the first that is still loaded is used instead.   *)
ProvTerminate ==
    \E p \in ProviderIds : Managed(p) /\ LET k == KindOf(p) IN
        /\ catalog' = [catalog EXCEPT ![k] = Unloaded(@, {p})]
        /\ using' = IF using[k] = p THEN [using EXCEPT ![k] = FirstOf(catalog'[k])]
                    ELSE using
        /\ TellWatcher(<<p>>)
        /\ UNCHANGED <<configs, mirror, renamed>>

(* One that is created as not enabled stays loaded if it was.                 *)
ProvCreate ==
    \E p \in ProviderIds, c \in Config :
        /\ configs' = Stored(configs, p, c)
        /\ catalog' = IF c.enable THEN [catalog EXCEPT ![c.kind] = Reloaded(@, p)] ELSE catalog
        /\ Len(catalog'[c.kind]) <= MaxLoaded
        /\ TellWatcher(<<p>>)
        /\ UNCHANGED <<using, mirror, renamed>>

(* The origin is unloaded whatever its kind; the target is loaded once more   *)
(* if it already was.  What was not given is taken from the old configuration *)
(* or, for a provider without one, from what is loaded.                       *)
ProvUpdate ==
    \E origin, target \in ProviderIds, c \in Config :
        /\ Managed(origin)
        /\ configs' = Stored(Dropped(configs, {origin}), target, c)
        /\ catalog' = [k \in Kinds |->
              LET left == Unloaded(catalog[k], {origin})
              IN IF c.enable /\ k = c.kind THEN Append(left, target) ELSE left]
        /\ \A k \in Kinds : Len(catalog'[k]) <= MaxLoaded
        /\ using' = [k \in Kinds |->
              IF using[k] # origin THEN using[k]
              ELSE IF k = c.kind THEN target ELSE NoProvider]
        /\ TellWatcher(<<target>>)
        /\ renamed' = renamed \cup ({origin} \ {target})
        /\ UNCHANGED mirror

ProvRemove(gone) ==
    /\ configs' = Dropped(configs, gone)
    /\ catalog' = [k \in Kinds |-> Unloaded(catalog[k], gone)]
    /\ using' = [k \in Kinds |->
                    IF using[k] \in gone THEN FirstOf(catalog'[k]) ELSE using[k]]
    /\ UNCHANGED <<mirror, renamed>>

(* provider.manager.delete, by id or by source.                               *)
ProvDelete ==
    \/ \E p \in ProviderIds : Managed(p) /\ ProvRemove({p}) /\ TellWatcher(<<p>>)
    \/ \E s \in Sources \ {NoSource} :
          LET gone == {p \in DOMAIN configs : configs[p].source = s} IN
          ProvRemove(gone) /\ TellWatcher(SetToSeq(gone))

(* The watcher reads an event and asks for the provider it names.             *)
ProvTold ==
    /\ told # <<>>
    /\ told' = Tail(told)
    /\ mirror' = IF Head(told) \in Loaded(catalog) THEN mirror \cup {Head(told)}
                 ELSE mirror \ {Head(told)}
    /\ renamed' = renamed \ {Head(told)}
    /\ UNCHANGED <<catalog, configs, using>>

ProvNext ==
    \/ ProvSet \/ ProvLoad \/ ProvTerminate \/ ProvCreate \/ ProvUpdate
    \/ ProvDelete \/ ProvTold

ProvSpec == ProvInit /\ [][ProvNext]_provVars

-----------------------------------------------------------------------------
(* The provider in use is one that is loaded or has a configuration: none     *)
(* that was terminated or deleted for good stays in use, whatever was loaded, *)
(* renamed, disabled or loaded under two kinds before.                        *)
UsingKnown ==
    \A k \in Kinds : using[k] # NoProvider =>
        using[k] \in DOMAIN configs \/ LoadedAs(k, using[k])

(* A plugin that looks again at every provider it is told of knows which are  *)
(* loaded once it has read the events.  (An update that gives a provider a    *)
(* new id tells only the new one: the old id is excepted.)                    *)
WatcherKnows ==
    \A p \in ProviderIds \ (renamed \cup Range(told)) :
        p \in mirror <=> p \in Loaded(catalog)

(* Neither the host nor a watcher goes on with a provider that is gone.       *)
ProvidersKnown == UsingKnown /\ WatcherKnows
=============================================================================
