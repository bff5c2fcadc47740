-------------------------------- MODULE Memory --------------------------------
(* PluginMemoryBackend: the tables of a plugin's memory, the vector index     *)
(* built from them, in the process and in a file, and the searches that fill  *)
(* in embeddings.  Every step between two awaits holds the lock and is one    *)
(* transaction.  A text is the number of the save that stored it.             *)
EXTENDS Naturals, FiniteSets, SequencesExt

CONSTANTS
    MemRecords,     \* namespace and key
    Scopes,         \* sets of records a namespace stands for
    Embedders,      \* embedding providers
    MemSearches,
    MaxSaves,       \* bound on saves
    MaxRowId        \* bound on the ids of embeddings

ASSUME MemoryAssumption ==
    /\ IsFiniteSet(MemRecords) /\ Scopes # {} /\ Scopes \subseteq SUBSET MemRecords
    /\ Embedders # {}
    /\ MaxSaves \in Nat /\ MaxRowId \in Nat

RecordTexts  == 1..MaxSaves
NoText == 0
NoRow  == [id |-> 0, of |-> NoText]
Row    == [id : 0..MaxRowId, of : {NoText} \cup RecordTexts]
Index  == [has : {"absent", "exact", "index"}, rows : SUBSET Row]
Absent == [has |-> "absent", rows |-> {}]
Search == [at : {"idle", "purged", "embedding", "embedded", "indexed", "answered"},
           scope : Scopes, by : Embedders, missing : [MemRecords -> {NoText} \cup RecordTexts],
           found : SUBSET (MemRecords \X RecordTexts)]

VARIABLES
    stored,     \* memory_records: the text of each record, NoText if there is none
    ttl,        \* its expires_at: "none", "ahead" or "over"
    fts,        \* memory_records_fts
    embeddings, \* memory_embeddings: id and embedded text, NoText if the vector is empty
    saves, rowIds,
    vectorState,   \* dirty in memory_vector_state: "none", "clean" or "dirty"
    loaded,     \* _vector_indexes; "exact" is None, a search reads the table
    indexFile,  \* the .faiss file
    faiss,      \* _faiss_available()
    search,     \* where each search stands and what it has read
    raced       \* embeddings stored for a text that had changed meanwhile

tables     == <<stored, ttl, fts, embeddings, saves, rowIds, vectorState>>
memoryVars == <<tables, loaded, indexFile, faiss, search, raced>>

MemTypeOK ==
    /\ stored \in [MemRecords -> {NoText} \cup RecordTexts]
    /\ ttl \in [MemRecords -> {"none", "ahead", "over"}]
    /\ fts \in [MemRecords -> {NoText} \cup RecordTexts]
    /\ embeddings \in [Embedders -> [MemRecords -> Row]]
    /\ \A p \in Embedders : \A r, q \in MemRecords :
          embeddings[p][r].id = embeddings[p][q].id /\ r # q => embeddings[p][r] = NoRow
    /\ saves \in 0..MaxSaves /\ rowIds \in 0..MaxRowId
    /\ vectorState \in [Embedders -> {"none", "clean", "dirty"}]
    /\ loaded \in [Embedders -> Index] /\ indexFile \in [Embedders -> Index]
    /\ faiss \in BOOLEAN
    /\ search \in [MemSearches -> Search]
    /\ raced \subseteq Embedders \X MemRecords

Idle == [at |-> "idle", scope |-> CHOOSE c \in Scopes : TRUE, by |-> CHOOSE p \in Embedders : TRUE,
         missing |-> [r \in MemRecords |-> NoText], found |-> {}]

MemInit ==
    /\ stored = [r \in MemRecords |-> NoText] /\ ttl = [r \in MemRecords |-> "none"]
    /\ fts = stored
    /\ embeddings = [p \in Embedders |-> [r \in MemRecords |-> NoRow]]
    /\ saves = 0 /\ rowIds = 0
    /\ vectorState = [p \in Embedders |-> "none"]
    /\ loaded = [p \in Embedders |-> Absent] /\ indexFile = loaded
    /\ faiss \in BOOLEAN
    /\ search = [s \in MemSearches |-> Idle]
    /\ raced = {}

-----------------------------------------------------------------------------
Outdated    == {r \in MemRecords : ttl[r] = "over"}
Embedded(p) == {r \in MemRecords : embeddings[p][r] # NoRow}
Touched(gone) == {p \in Embedders : Embedded(p) \cap gone # {}}

(* _mark_vector_dirty_locked: the index in the process goes at once.          *)
Forget(ps) == loaded' = [p \in Embedders |-> IF p \in ps THEN Absent ELSE loaded[p]]
Dirtied(ps) ==
    /\ vectorState' = [p \in Embedders |-> IF p \in ps THEN "dirty" ELSE vectorState[p]]
    /\ Forget(ps)

\* Mutant: only the embeddings of records that are gone already are deleted.
UnembedLate(gone) ==
    /\ embeddings' = [p \in Embedders |-> [r \in MemRecords |->
           IF r \in gone /\ stored[r] = NoText THEN NoRow ELSE embeddings[p][r]]]
    /\ raced' = {e \in raced : e[2] \notin gone}
    /\ Dirtied(Touched(gone))

(* The embeddings of records that change or go are deleted.                   *)
Unembed(gone) ==
    /\ embeddings' = [p \in Embedders |-> [r \in MemRecords |->
           IF r \in gone THEN NoRow ELSE embeddings[p][r]]]
    /\ raced' = {e \in raced : e[2] \notin gone}
    /\ Dirtied(Touched(gone))

(* save, save_with_ttl; a lifetime of no seconds is over at once.             *)
MemSave(r) ==
    \E life \in {"none", "ahead", "over"} :
        /\ saves < MaxSaves
        /\ saves' = saves + 1
        /\ stored' = [q \in MemRecords |->
               IF q = r THEN saves' ELSE IF q \in Outdated THEN NoText ELSE stored[q]]
        /\ ttl' = [q \in MemRecords |->
               IF q = r THEN life ELSE IF q \in Outdated THEN "none" ELSE ttl[q]]
        /\ fts' = [q \in MemRecords |->
               IF q = r THEN saves' ELSE IF q \in Outdated THEN NoText ELSE fts[q]]
        /\ Unembed({r} \cup Outdated)
        /\ UNCHANGED <<rowIds, indexFile, faiss, search>>

Erase(gone) ==
    /\ stored' = [r \in MemRecords |-> IF r \in gone THEN NoText ELSE stored[r]]
    /\ ttl' = [r \in MemRecords |-> IF r \in gone THEN "none" ELSE ttl[r]]
    /\ fts' = [r \in MemRecords |-> IF r \in gone THEN NoText ELSE fts[r]]
    /\ Unembed(gone)
    /\ UNCHANGED <<saves, rowIds, indexFile, faiss>>

(* delete and delete_many take keys, whether or not they have a record.       *)
MemDelete(keys) == Erase(keys \cup Outdated) /\ UNCHANGED search

MemClear(scope) ==
    Erase({r \in scope : stored[r] # NoText} \cup Outdated) /\ UNCHANGED search

(* get, list_keys, exists, get_many, count and stats purge what has expired   *)
(* but close without a commit: only the index in the process is gone.         *)
MemRead ==
    /\ Forget(Touched(Outdated))
    /\ UNCHANGED <<tables, indexFile, faiss, search, raced>>

TimePasses(r) ==
    /\ ttl[r] = "ahead"
    /\ ttl' = [ttl EXCEPT ![r] = "over"]
    /\ UNCHANGED <<stored, fts, embeddings, saves, rowIds, vectorState,
                   loaded, indexFile, faiss, search, raced>>

-----------------------------------------------------------------------------
Searching(s, at) == search' = [search EXCEPT ![s].at = at]

SearchPurge(s) ==
    \E scope \in Scopes, p \in Embedders :
        /\ search[s].at = "idle"
        /\ search' = [search EXCEPT ![s] = [Idle EXCEPT !.at = "purged", !.scope = scope, !.by = p]]
        /\ Erase(Outdated)

(* Records without an embedding are read and the provider is asked for them.  *)
SearchMissing(s) ==
    LET p == search[s].by
        missing == [r \in MemRecords |->
            IF r \in search[s].scope \ Embedded(p) THEN stored[r] ELSE NoText]
    IN /\ search[s].at = "purged"
       /\ search' = [search EXCEPT ![s].missing = missing, ![s].at =
              IF \E r \in MemRecords : missing[r] # NoText THEN "embedding" ELSE "embedded"]
       /\ UNCHANGED <<tables, loaded, indexFile, faiss, raced>>

Place(r, items) == CHOOSE n \in DOMAIN items : items[n] = r

(* The rows of p once those of new have got one and those of short an empty   *)
(* vector.                                                                    *)
Upserted(p, missing, new, short) ==
    [r \in MemRecords |->
        IF missing[r] = NoText THEN embeddings[p][r]
        ELSE [id |-> IF r \in Embedded(p) THEN embeddings[p][r].id ELSE rowIds + Place(r, new),
              of |-> IF r \in short THEN NoText ELSE missing[r]]]

(* The provider may answer with fewer vectors than it was asked for.          *)
SearchUpsert(s) ==
    LET p   == search[s].by
        got == {r \in MemRecords : search[s].missing[r] # NoText}
        new == SetToSeq(got \ Embedded(p))
    IN \E short \in SUBSET got :
        /\ search[s].at = "embedding"
        /\ rowIds + Len(new) <= MaxRowId
        /\ rowIds' = rowIds + Len(new)
        /\ embeddings' = [embeddings EXCEPT ![p] = Upserted(p, search[s].missing, new, short)]
        /\ raced' = (raced \ ({p} \X got))
                        \cup {e \in {p} \X got : stored[e[2]] # search[s].missing[e[2]]}
        /\ Dirtied({p})
        /\ search' = [search EXCEPT ![s].at = "embedded", ![s].missing = Idle.missing]
        /\ UNCHANGED <<stored, ttl, fts, saves, indexFile, faiss>>

Vectors(p) == {embeddings[p][r] : r \in {q \in MemRecords : embeddings[p][q].of # NoText}}

\* Mutant: the file is read although the embeddings have changed since.
UpToDateFile(p) == faiss /\ indexFile[p].has = "index"

(* A file of an index that nothing has made dirty is read as it is.           *)
UpToDate(p) == vectorState[p] = "clean" /\ faiss /\ indexFile[p].has = "index"

(* _ensure_vector_index_sync: the file is written before the commit, between  *)
(* which the process may be killed.                                           *)
BuildIndex(p) ==
    LET index == [has |-> "index", rows |-> Vectors(p)] IN
    IF faiss /\ Vectors(p) # {}
    THEN loaded' = [loaded EXCEPT ![p] = index] /\ indexFile' = [indexFile EXCEPT ![p] = index]
    ELSE loaded' = [loaded EXCEPT ![p] = [Absent EXCEPT !.has = "exact"]] /\ UNCHANGED indexFile

SearchIndex(s) ==
    LET p == search[s].by IN
    /\ search[s].at = "embedded"
    /\ Searching(s, "indexed")
    /\ \/ /\ vectorState[p] = "clean" /\ loaded[p] # Absent
          /\ UNCHANGED <<vectorState, loaded, indexFile>>
       \/ /\ UpToDate(p) /\ loaded[p] = Absent
          /\ loaded' = [loaded EXCEPT ![p] = indexFile[p]]
          /\ UNCHANGED <<vectorState, indexFile>>
       \/ /\ ~UpToDate(p) /\ ~(vectorState[p] = "clean" /\ loaded[p] # Absent)
          /\ vectorState' = [vectorState EXCEPT ![p] = "clean"]
          /\ BuildIndex(p)
    /\ UNCHANGED <<stored, ttl, fts, embeddings, saves, rowIds, faiss, raced>>

(* Embeddings of records the scope has: those the index names by their ids,   *)
(* with its vectors, or else those of the table.                              *)
InScope(p, scope) == {r \in scope \cap Embedded(p) : stored[r] # NoText}
Matching(p, scope) ==
    IF loaded[p].has = "index"
    THEN UNION {{<<r, row.of>> : row \in {w \in loaded[p].rows : w.id = embeddings[p][r].id}} :
                    r \in InScope(p, scope)}
    ELSE {<<r, embeddings[p][r].of>> :
              r \in {q \in InScope(p, scope) : embeddings[p][q].of # NoText}}

(* _vector_candidates_sync, after the query itself has been embedded.         *)
SearchCandidates(s) ==
    /\ search[s].at = "indexed"
    /\ search' = [search EXCEPT ![s].at = "answered",
                     ![s].found = Matching(search[s].by, search[s].scope)]
    /\ UNCHANGED <<tables, loaded, indexFile, faiss, raced>>

(* The search has answered; or the provider or the caller ends it.            *)
SearchEnds(s) ==
    /\ search[s].at # "idle"
    /\ search' = [search EXCEPT ![s] = Idle]
    /\ UNCHANGED <<tables, loaded, indexFile, faiss, raced>>

(* The process is killed, perhaps between the file and the commit.            *)
MemCrash ==
    /\ loaded' = [p \in Embedders |-> Absent]
    /\ search' = [s \in MemSearches |-> Idle]
    /\ \/ UNCHANGED indexFile
       \/ \E s \in MemSearches : LET p == search[s].by IN
             /\ search[s].at = "embedded" /\ ~UpToDate(p)
             /\ faiss /\ Vectors(p) # {}
             /\ indexFile' = [indexFile EXCEPT ![p] = [has |-> "index", rows |-> Vectors(p)]]
    /\ UNCHANGED <<tables, faiss, raced>>

MemNext ==
    \/ \E r \in MemRecords : MemSave(r) \/ TimePasses(r)
    \/ \E keys \in SUBSET MemRecords : MemDelete(keys)
    \/ \E scope \in Scopes : MemClear(scope)
    \/ MemRead \/ MemCrash
    \/ \E s \in MemSearches :
          SearchPurge(s) \/ SearchMissing(s) \/ SearchUpsert(s) \/ SearchIndex(s)
          \/ SearchCandidates(s) \/ SearchEnds(s)

MemSpec == MemInit /\ [][MemNext]_memoryVars

-----------------------------------------------------------------------------
(* What the full-text table and the embeddings say of a record is of the text *)
(* it has now, and of a record that is gone there is nothing: save for an     *)
(* embedding whose record was saved or deleted while it was being computed.   *)
TablesAgree ==
    /\ fts = stored
    /\ \A p \in Embedders : \A r \in Embedded(p) :
          <<p, r>> \notin raced =>
              stored[r] # NoText /\ embeddings[p][r].of \in {NoText, stored[r]}

(* A vector search finds every record of its scope that has a vector, by the  *)
(* vector it has now and by no other, whatever was deleted, rolled back,      *)
(* killed or rebuilt since the index was built or written to the file.  (When *)
(* the last vectors are overwritten with empty ones the old file stays and    *)
(* may still find their records: those are left out.)                         *)
HasVector(p, r) == embeddings[p][r].of # NoText

FindsAll ==
    [][\A s \in MemSearches : SearchCandidates(s) =>
          LET p == search[s].by IN
          {hit \in search'[s].found : HasVector(p, hit[1])} =
              {<<r, embeddings[p][r].of>> :
                  r \in {q \in search[s].scope : stored[q] # NoText /\ HasVector(p, q)}}
      ]_memoryVars
=============================================================================
