-------------------------------- MODULE Watch --------------------------------
(* The key-value store of the router (db_store) and the plugins that watch it. *)
(* Every connection runs one plugin, whose keys are its own; a watch is a     *)
(* streaming request of a connection, known to the router by its request id.  *)
EXTENDS Naturals, Sequences, FiniteSets, Selection

CONSTANTS
    Connections,  \* workers, each with a plugin and a count of request ids
    DbKeys,
    DbValues,
    KeyGroups,    \* the sets of keys a prefix can stand for
    MaxId,        \* bound on the request ids of a connection
    MaxUnread,    \* bound on the events a watcher has not read
    NoValue, NoCall

RequestIds == 1..MaxId
Watchers   == Connections \X RequestIds
Contents   == [DbKeys -> DbValues \cup {NoValue}]
Changes    == [key : DbKeys, value : DbValues \cup {NoValue}]

ASSUME WatchAssumption ==
    /\ MaxId \in Nat /\ MaxUnread \in Nat
    /\ KeyGroups \subseteq SUBSET DbKeys /\ NoCall \notin Watchers

VARIABLES
    db,        \* db_store, by plugin and key without the plugin's prefix
    wpc,       \* where the inbound task of a watch stands
    watched,   \* keys the prefix of the watch matches
    dbSubs,    \* _db_watch_subscriptions, by request id
    events,    \* the asyncio.Queue of the watch
    seen       \* what the plugin takes the store to hold

watchVars == <<db, wpc, watched, dbSubs, events, seen>>

WatchTypeOK ==
    /\ db \in [Connections -> Contents]
    /\ wpc \in [Watchers -> {"none", "opening", "iterating", "ended", "dropped"}]
    /\ watched \in [Watchers -> SUBSET DbKeys]
    /\ dbSubs \in [RequestIds -> Watchers \cup {NoCall}]
    /\ events \in [Watchers -> Seq(Changes)]
    /\ \A c \in Watchers : Len(events[c]) <= MaxUnread
    /\ seen \in [Watchers -> Contents]

WatchInit ==
    /\ db = [p \in Connections |-> [k \in DbKeys |-> NoValue]]
    /\ wpc = [c \in Watchers |-> "none"]
    /\ watched = [c \in Watchers |-> {}]
    /\ dbSubs = [i \in RequestIds |-> NoCall]
    /\ events = [c \in Watchers |-> <<>>]
    /\ seen = [c \in Watchers |-> [k \in DbKeys |-> NoValue]]

-----------------------------------------------------------------------------
Live(c) == wpc[c] \in {"opening", "iterating"}

\* Mutant: the change is told to every watcher of the plugin but the first.
TellsAll(p, k) ==
    {c \in Watchers : /\ \E i \in RequestIds \ {1} : dbSubs[i] = c
                      /\ c[1] = p /\ k \in watched[c]}

(* The subscriptions _emit_db_change puts a change of plugin p's key k to.    *)
Tells(p, k) ==
    {c \in Watchers : /\ \E i \in RequestIds : dbSubs[i] = c
                      /\ c[1] = p /\ k \in watched[c]}

(* What a queue nobody will read holds is left out.                           *)
Emit(p, changes) ==
    events' = [c \in Watchers |->
        IF Live(c)
        THEN events[c] \o Picked(changes, {n \in DOMAIN changes : c \in Tells(p, changes[n].key)})
        ELSE events[c]]

(* The last write of a key stands.                                            *)
Apply(contents, changes) ==
    [k \in DbKeys |->
        LET writes == {n \in DOMAIN changes : changes[n].key = k}
        IN IF writes = {} THEN contents[k]
           ELSE changes[CHOOSE n \in writes : \A m \in writes : m <= n].value]

Roomy(n) == \A c \in Watchers : Live(c) => Len(events[c]) + n <= MaxUnread

Write(p, changes) ==
    /\ Roomy(Len(changes))
    /\ db' = [db EXCEPT ![p] = Apply(@, changes)]
    /\ Emit(p, changes)
    /\ UNCHANGED <<wpc, watched, dbSubs, seen>>

DbSet(p) ==
    \E k \in DbKeys, v \in DbValues : Write(p, <<[key |-> k, value |-> v]>>)

(* A key that is not there is deleted and told all the same.                  *)
DbDelete(p) ==
    \E k \in DbKeys : Write(p, <<[key |-> k, value |-> NoValue]>>)

(* The items before one that is no object are written, so a refused list acts *)
(* like a shorter one: lists of one item are DbSet.                           *)
DbSetMany(p) ==
    \E k1, k2 \in DbKeys, v1, v2 \in DbValues :
        Write(p, <<[key |-> k1, value |-> v1], [key |-> k2, value |-> v2]>>)

(* A request for db.watch: ids of a connection grow, other requests use some. *)
OpenWatch(p) ==
    \E i \in RequestIds, keys \in KeyGroups :
        LET c == <<p, i>> IN
        /\ \A j \in i..MaxId : wpc[<<p, j>>] = "none"
        /\ wpc' = [wpc EXCEPT ![c] = "opening"]
        /\ watched' = [watched EXCEPT ![c] = keys]
        /\ dbSubs' = [dbSubs EXCEPT ![i] = c]
        /\ seen' = [seen EXCEPT ![c] = db[p]]
        /\ UNCHANGED <<db, events>>

(* The task has told the caller that the stream began and iterates.           *)
BeginIteration(c) ==
    /\ wpc[c] = "opening"
    /\ wpc' = [wpc EXCEPT ![c] = "iterating"]
    /\ UNCHANGED <<db, watched, dbSubs, events, seen>>

NextChange(c) ==
    /\ wpc[c] = "iterating" /\ events[c] # <<>>
    /\ seen' = [seen EXCEPT ![c] = Apply(@, <<Head(events[c])>>)]
    /\ events' = [events EXCEPT ![c] = Tail(@)]
    /\ UNCHANGED <<db, wpc, watched, dbSubs>>

(* The plugin reads the store itself, whatever events are under way.          *)
DbGetMany(c) ==
    /\ Live(c)
    /\ seen' = [seen EXCEPT ![c] = db[c[1]]]
    /\ UNCHANGED <<db, wpc, watched, dbSubs, events>>

(* The task is cancelled or its answer cannot be sent.  The finally clause of *)
(* an iterator that was never started does not run.                           *)
EndWatch(c) ==
    /\ Live(c)
    /\ wpc' = [wpc EXCEPT ![c] = IF @ = "opening" THEN "dropped" ELSE "ended"]
    /\ dbSubs' = IF wpc[c] = "iterating" THEN [dbSubs EXCEPT ![c[2]] = NoCall] ELSE dbSubs
    /\ events' = [events EXCEPT ![c] = <<>>]
    /\ UNCHANGED <<db, watched, seen>>

WatchNext ==
    \/ \E p \in Connections : DbSet(p) \/ DbDelete(p) \/ DbSetMany(p) \/ OpenWatch(p)
    \/ \E c \in Watchers :
          BeginIteration(c) \/ NextChange(c) \/ DbGetMany(c) \/ EndWatch(c)

WatchSpec == WatchInit /\ [][WatchNext]_watchVars

-----------------------------------------------------------------------------
(* A plugin that reads the events of its watch to the end knows the store:    *)
(* no change is lost, told twice or out of turn, also when it reads the store *)
(* directly while events are under way or other watches of it come and go.    *)
FollowsStore ==
    \A c \in Watchers : Live(c) =>
        LET known == Apply(seen[c], events[c])
        IN \A k \in watched[c] : known[k] = db[c[1]][k]

(* A subscription goes when the iteration of its watch ends; only a watch     *)
(* that was cancelled before it began to iterate leaves one behind.           *)
SubsReclaimed ==
    \A i \in RequestIds : dbSubs[i] # NoCall => wpc[dbSubs[i]] # "ended"

(* A watch is told everything while it lives and is forgotten afterwards.     *)
WatchKept == FollowsStore /\ SubsReclaimed
=============================================================================
