---------------------------- MODULE MessageHistory ----------------------------
(* message_history.*: the records of every session in the order they were     *)
(* appended, and a plugin that reads one session page by page while others    *)
(* append and delete.  Every handler runs without awaiting.                   *)
EXTENDS Naturals, Sequences, FiniteSets, SequencesExt, Selection

CONSTANTS
    HistSessions,
    HistKeys,     \* idempotency keys
    NoKey,        \* None or the empty string
    MaxRecord,    \* bound on the ids of records
    MaxTime,      \* the wall clock shows 1..MaxTime; it may be set back
    MaxLimit      \* bound on the limit of a page

ASSUME HistoryAssumption == MaxRecord \in Nat /\ MaxTime \in Nat /\ MaxLimit \in Nat

Times     == 1..MaxTime
RecordIds == 1..MaxRecord
Record    == [id : RecordIds, at : Times, key : HistKeys \cup {NoKey}]

VARIABLES
    history,      \* _message_history_store
    histNext,     \* _message_history_next_id, of all sessions together
    reader,       \* the plugin that pages: which session, its next_cursor (0
                  \* before the first page and after the last), the ids it got
    owed          \* records of that session when the reading began

histVars == <<history, histNext, reader, owed>>

HistIds(s) == {history[s][n].id : n \in DOMAIN history[s]}

HistTypeOK ==
    /\ history \in [HistSessions -> Seq(Record)]
    /\ \A s \in HistSessions : Len(history[s]) = Cardinality(HistIds(s))
    /\ histNext \in 1..MaxRecord + 1
    /\ reader \in [at : {"idle", "paging", "done"}, of : HistSessions,
                   cursor : {0} \cup RecordIds, got : Seq(RecordIds)]
    /\ owed \subseteq RecordIds

HistInit ==
    /\ history = [s \in HistSessions |-> <<>>]
    /\ histNext = 1
    /\ \E s \in HistSessions :
          reader = [at |-> "idle", of |-> s, cursor |-> 0, got |-> <<>>]
    /\ owed = {}

-----------------------------------------------------------------------------
\* Mutant: the record is looked up in another session's list.
KnownKeyNowhere(s, key) == \E t \in HistSessions \ {s} : \E n \in DOMAIN history[t] :
                              history[t][n].key = key /\ key # NoKey

(* The record of this session that was appended under the same key.           *)
KnownKey(s, key) == \E n \in DOMAIN history[s] : history[s][n].key = key /\ key # NoKey

(* message_history.append: a known key returns its record and appends none.   *)
HistAppend(s) ==
    \E key \in HistKeys \cup {NoKey}, now \in Times :
        /\ histNext <= MaxRecord
        /\ IF KnownKey(s, key) THEN UNCHANGED <<history, histNext>>
           ELSE /\ history' = [history EXCEPT ![s] =
                                   Append(@, [id |-> histNext, at |-> now, key |-> key])]
                /\ histNext' = histNext + 1
        /\ UNCHANGED <<reader, owed>>

Retain(s, times) ==
    /\ history' = [history EXCEPT ![s] = Picked(@, {n \in DOMAIN @ : @[n].at \in times})]
    /\ UNCHANGED <<histNext, reader, owed>>

HistDeleteBefore(s) == \E t \in Times : Retain(s, t..MaxTime)
HistDeleteAfter(s)  == \E t \in Times : Retain(s, 1..t)
HistDeleteAll(s)    == Retain(s, {})

(* The records a page is taken from, newest first.                            *)
Older(s, cursor) ==
    LET newest == Reverse(history[s])
    IN Picked(newest, {n \in DOMAIN newest : cursor = 0 \/ newest[n].id < cursor})

(* message_history.list: a page and next_cursor, 0 when nothing is left.      *)
HistPage(s, cursor, limit) ==
    LET left == Older(s, cursor) IN
    [ids |-> [n \in 1..(IF Len(left) <= limit THEN Len(left) ELSE limit) |-> left[n].id],
     next |-> IF Len(left) > limit THEN left[limit].id ELSE 0]

(* The plugin asks for the next page, with any limit.                         *)
HistRead ==
    /\ reader.at # "done"
    /\ \E limit \in 1..MaxLimit :
          LET page == HistPage(reader.of, reader.cursor, limit) IN
          reader' = [reader EXCEPT !.at = IF page.next = 0 THEN "done" ELSE "paging",
                                   !.cursor = page.next, !.got = @ \o page.ids]
    /\ owed' = IF reader.at = "idle" THEN HistIds(reader.of) ELSE owed
    /\ UNCHANGED <<history, histNext>>

HistNext ==
    \/ HistRead
    \/ \E s \in HistSessions :
          HistAppend(s) \/ HistDeleteBefore(s) \/ HistDeleteAfter(s) \/ HistDeleteAll(s)

HistSpec == HistInit /\ [][HistNext]_histVars

-----------------------------------------------------------------------------
(* A plugin that pages through a session with the cursors it is given gets    *)
(* every record that was there when it began and was not deleted, each once   *)
(* and newest first, whatever is appended, deleted or timed backwards while   *)
(* it reads.                                                                  *)
PagesComplete ==
    /\ \A m, n \in DOMAIN reader.got : m < n => reader.got[m] > reader.got[n]
    /\ reader.at = "paging" =>
          \A i \in owed \cap HistIds(reader.of) : i >= reader.cursor => i \in Range(reader.got)
    /\ reader.at = "done" => owed \cap HistIds(reader.of) \subseteq Range(reader.got)

(* A message appended again under its idempotency key, as a plugin does that  *)
(* did not see the answer, is in the session's history once.                  *)
AppendedOnce ==
    \A s \in HistSessions : \A m, n \in DOMAIN history[s] :
        history[s][m].key = history[s][n].key /\ history[s][m].key # NoKey => m = n

(* Every message is stored once and read once.                                *)
EachOnce == PagesComplete /\ AppendedOnce
=============================================================================
