----------------------------- MODULE StoreProofs -----------------------------
(* What is proved of the stores that keep related tables: the memory of a     *)
(* plugin, for any finite set of records and any number of embedding          *)
(* providers, searches and saves; knowledge bases, for any number of them and *)
(* of documents; providers and their watchers, message histories and the      *)
(* watched keys of the store; and of all that the host keeps, side by side.   *)
EXTENDS Services, ServicesProofs

-----------------------------------------------------------------------------
(* Memory.  An index is good for the embeddings of p if it has the vector of  *)
(* every record that has one, and no other under its id.                      *)
Matches(p, rows) ==
    \A r \in MemRecords : HasVector(p, r) =>
        /\ embeddings[p][r] \in rows
        /\ \A w \in rows : w.id = embeddings[p][r].id => w = embeddings[p][r]

(* The index in the process is always good; the file is good when it would be *)
(* read, that is as long as nothing has made the embeddings dirty.            *)
LoadedMatches ==
    \A p \in Embedders : loaded[p].has = "index" => Matches(p, loaded[p].rows)
FileMatches ==
    \A p \in Embedders : UpToDate(p) => Matches(p, indexFile[p].rows)

(* Indexes hold no empty vectors.                                             *)
RowsFilled ==
    \A p \in Embedders : \A w \in loaded[p].rows \cup indexFile[p].rows : w.of # NoText

(* The ids of embeddings were given out before.                               *)
IdsGiven ==
    \A p \in Embedders : \A r \in Embedded(p) : embeddings[p][r].id \in 1..rowIds

MemInv ==
    /\ MemTypeOK
    /\ TablesAgree
    /\ LoadedMatches
    /\ FileMatches
    /\ RowsFilled
    /\ IdsGiven

(* A text is a number and no row has the id of another one.                   *)
LEMMA MemFacts ==
    /\ MaxSaves \in Nat /\ MaxRowId \in Nat /\ NoText = 0 /\ RecordTexts = 1..MaxSaves
    /\ NoRow \in Row /\ NoRow.id = 0 /\ NoRow.of = NoText
    /\ Absent \in Index /\ Absent.has = "absent" /\ Absent.rows = {}
    /\ Idle \in Search
<1>1. (CHOOSE c \in Scopes : TRUE) \in Scopes /\ (CHOOSE p \in Embedders : TRUE) \in Embedders
    BY MemoryAssumption
<1>2. MaxSaves \in Nat /\ MaxRowId \in Nat /\ NoText = 0 /\ RecordTexts = 1..MaxSaves
    BY MemoryAssumption DEF NoText, RecordTexts
<1>3. NoRow \in Row /\ NoRow.id = 0 /\ NoRow.of = NoText
    BY <1>2 DEF NoRow, Row
<1>4. Absent \in Index /\ Absent.has = "absent" /\ Absent.rows = {}
    BY DEF Absent, Index
<1> QED
    BY <1>1, <1>2, <1>3, <1>4 DEF Idle, Search

LEMMA MemInitEstablishes == MemInit => MemInv
<1> SUFFICES ASSUME MemInit PROVE MemInv
    OBVIOUS
<1>1. MemTypeOK
    BY MemFacts DEF MemTypeOK, MemInit
<1>2. \A p \in Embedders : Embedded(p) = {}
    BY DEF Embedded, MemInit
<1>3. TablesAgree /\ IdsGiven
    BY <1>2 DEF TablesAgree, IdsGiven, MemInit
<1>4. \A p \in Embedders : loaded[p] = Absent /\ indexFile[p] = Absent
    BY DEF MemInit
<1>5. LoadedMatches /\ FileMatches /\ RowsFilled
    BY <1>4, MemFacts DEF LoadedMatches, FileMatches, RowsFilled, UpToDate
<1> QED
    BY <1>1, <1>3, <1>5 DEF MemInv

(* An index stays good while the embeddings do not change.                    *)
LEMMA MatchesStill ==
    ASSUME MemInv, NEW p \in Embedders, \A r \in MemRecords : embeddings'[p][r] = embeddings[p][r],
           loaded'[p] = loaded[p], indexFile'[p] = indexFile[p], faiss' = faiss,
           vectorState'[p] = vectorState[p]
    PROVE  /\ loaded'[p].has = "index" => Matches(p, loaded[p].rows)'
           /\ UpToDate(p)' => Matches(p, indexFile[p].rows)'
<1>1. loaded[p].has = "index" => Matches(p, loaded[p].rows)
    BY DEF MemInv, LoadedMatches
<1>2. UpToDate(p) => Matches(p, indexFile[p].rows)
    BY DEF MemInv, FileMatches
<1>3. UpToDate(p)' <=> UpToDate(p)
    BY DEF UpToDate
<1> QED
    BY <1>1, <1>2, <1>3 DEF Matches, HasVector

(* Whoever changes records deletes their embeddings in the same transaction,  *)
(* and the index of every provider that had some.                             *)
LEMMA UnembedKeeps ==
    ASSUME MemInv, NEW gone \in SUBSET MemRecords, Unembed(gone),
           fts' = stored', stored' \in [MemRecords -> {NoText} \cup RecordTexts],
           \A r \in MemRecords \ gone : stored'[r] = stored[r],
           ttl' \in [MemRecords -> {"none", "ahead", "over"}],
           saves' \in 0..MaxSaves,
           rowIds' = rowIds, indexFile' = indexFile, faiss' = faiss,
           search' \in [MemSearches -> Search]
    PROVE  MemInv'
<1> DEFINE ps == Touched(gone)
<1>1. MemTypeOK /\ TablesAgree /\ RowsFilled /\ IdsGiven
    BY DEF MemInv
<1>2. /\ embeddings' = [p \in Embedders |-> [r \in MemRecords |->
             IF r \in gone THEN NoRow ELSE embeddings[p][r]]]
      /\ raced' = {e \in raced : e[2] \notin gone}
      /\ vectorState' = [p \in Embedders |-> IF p \in ps THEN "dirty" ELSE vectorState[p]]
      /\ loaded' = [p \in Embedders |-> IF p \in ps THEN Absent ELSE loaded[p]]
    BY DEF Unembed, Dirtied, Forget
<1>3. /\ embeddings' \in [Embedders -> [MemRecords -> Row]]
      /\ \A p \in Embedders : \A r \in MemRecords :
            embeddings'[p][r] = IF r \in gone THEN NoRow ELSE embeddings[p][r]
    <2>1. embeddings \in [Embedders -> [MemRecords -> Row]]
        BY <1>1 DEF MemTypeOK
    <2> QED
        BY <1>2, <2>1, MemFacts
<1>4. \A p \in Embedders : \A r, q \in MemRecords :
          embeddings'[p][r].id = embeddings'[p][q].id /\ r # q => embeddings'[p][r] = NoRow
    <2> SUFFICES ASSUME NEW p \in Embedders, NEW r \in MemRecords, NEW q \in MemRecords,
                        embeddings'[p][r].id = embeddings'[p][q].id, r # q
                 PROVE  embeddings'[p][r] = NoRow
        OBVIOUS
    <2>1. CASE r \in gone
        BY <2>1, <1>3
    <2>2. CASE r \notin gone /\ q \notin gone
        BY <2>2, <1>1, <1>3 DEF MemTypeOK
    <2>3. CASE r \notin gone /\ q \in gone
        <3>1. embeddings'[p][r] = embeddings[p][r] /\ embeddings[p][r].id = 0
            BY <2>3, <1>3, MemFacts
        <3>2. embeddings[p][r] # NoRow => embeddings[p][r].id \in 1..rowIds
            BY <1>1 DEF IdsGiven, Embedded
        <3>3. rowIds \in Nat
            BY <1>1, MemFacts DEF MemTypeOK
        <3> QED
            BY <3>1, <3>2, <3>3
    <2> QED
        BY <2>1, <2>2, <2>3
<1>5. loaded' \in [Embedders -> Index] /\ vectorState' \in [Embedders -> {"none", "clean", "dirty"}]
    BY <1>1, <1>2, MemFacts DEF MemTypeOK
<1>6. MemTypeOK'
    BY <1>1, <1>2, <1>3, <1>4, <1>5 DEF MemTypeOK
<1>7. TablesAgree'
    <2> SUFFICES ASSUME NEW p \in Embedders, NEW r \in Embedded(p)', <<p, r>> \notin raced'
                 PROVE  stored'[r] # NoText /\ embeddings'[p][r].of \in {NoText, stored'[r]}
        BY DEF TablesAgree
    <2>1. r \in MemRecords /\ r \notin gone /\ embeddings'[p][r] = embeddings[p][r]
        BY <1>3 DEF Embedded
    <2>2. r \in Embedded(p) /\ <<p, r>> \notin raced
        BY <2>1, <1>2 DEF Embedded
    <2> QED
        BY <2>1, <2>2, <1>1 DEF TablesAgree
<1>8. \A p \in Embedders \ ps : /\ \A r \in MemRecords : embeddings'[p][r] = embeddings[p][r]
                               /\ loaded'[p] = loaded[p] /\ vectorState'[p] = vectorState[p]
    BY <1>2, <1>3 DEF Touched, Embedded
<1>9. \A p \in ps : p \in Embedders => loaded'[p] = Absent /\ vectorState'[p] = "dirty"
    BY <1>2
<1>10. LoadedMatches' /\ FileMatches'
    <2> SUFFICES ASSUME NEW p \in Embedders
                 PROVE  /\ loaded'[p].has = "index" => Matches(p, loaded[p].rows)'
                        /\ UpToDate(p)' => Matches(p, indexFile[p].rows)'
        BY DEF LoadedMatches, FileMatches
    <2>1. CASE p \in ps
        BY <2>1, <1>9, MemFacts DEF UpToDate
    <2>2. CASE p \notin ps
        BY <2>2, <1>8, MatchesStill
    <2> QED
        BY <2>1, <2>2
<1>11. RowsFilled'
    BY <1>1, <1>2, MemFacts DEF RowsFilled
<1>12. IdsGiven'
    <2> SUFFICES ASSUME NEW p \in Embedders, NEW r \in Embedded(p)'
                 PROVE  embeddings'[p][r].id \in 1..rowIds'
        BY DEF IdsGiven
    <2>1. r \in MemRecords /\ embeddings'[p][r] = embeddings[p][r] /\ r \in Embedded(p)
        BY <1>3 DEF Embedded
    <2> QED
        BY <2>1, <1>1 DEF IdsGiven
<1> QED
    BY <1>6, <1>7, <1>10, <1>11, <1>12 DEF MemInv

LEMMA SaveKeeps ==
    ASSUME MemInv, NEW r \in MemRecords, MemSave(r)
    PROVE  MemInv'
<1>1. MemTypeOK /\ fts = stored
    BY DEF MemInv, TablesAgree
<1>2. PICK life \in {"none", "ahead", "over"} :
        /\ saves < MaxSaves
        /\ saves' = saves + 1
        /\ stored' = [q \in MemRecords |->
               IF q = r THEN saves' ELSE IF q \in Outdated THEN NoText ELSE stored[q]]
        /\ ttl' = [q \in MemRecords |->
               IF q = r THEN life ELSE IF q \in Outdated THEN "none" ELSE ttl[q]]
        /\ fts' = [q \in MemRecords |->
               IF q = r THEN saves' ELSE IF q \in Outdated THEN NoText ELSE fts[q]]
        /\ Unembed({r} \cup Outdated)
        /\ UNCHANGED <<rowIds, indexFile, faiss, search>>
    BY DEF MemSave
<1>3. saves' \in 0..MaxSaves /\ saves' \in RecordTexts
    BY <1>1, <1>2, MemFacts DEF MemTypeOK
<1>4. fts' = stored'
    BY <1>1, <1>2
<1>5. stored' \in [MemRecords -> {NoText} \cup RecordTexts]
    BY <1>1, <1>2, <1>3 DEF MemTypeOK
<1>6. ttl' \in [MemRecords -> {"none", "ahead", "over"}]
    BY <1>1, <1>2 DEF MemTypeOK
<1>7. {r} \cup Outdated \in SUBSET MemRecords
    BY DEF Outdated
<1>8. \A q \in MemRecords \ ({r} \cup Outdated) : stored'[q] = stored[q]
    BY <1>2
<1> QED
    BY <1>1, <1>2, <1>3, <1>4, <1>5, <1>6, <1>7, <1>8, UnembedKeeps DEF MemTypeOK

LEMMA EraseKeeps ==
    ASSUME MemInv, NEW gone \in SUBSET MemRecords, Erase(gone),
           search' \in [MemSearches -> Search]
    PROVE  MemInv'
<1>1. MemTypeOK /\ fts = stored
    BY DEF MemInv, TablesAgree
<1>2. /\ stored' = [r \in MemRecords |-> IF r \in gone THEN NoText ELSE stored[r]]
      /\ ttl' = [r \in MemRecords |-> IF r \in gone THEN "none" ELSE ttl[r]]
      /\ fts' = [r \in MemRecords |-> IF r \in gone THEN NoText ELSE fts[r]]
      /\ Unembed(gone)
      /\ UNCHANGED <<saves, rowIds, indexFile, faiss>>
    BY DEF Erase
<1>3. fts' = stored' /\ \A r \in MemRecords \ gone : stored'[r] = stored[r]
    BY <1>1, <1>2
<1>4. stored' \in [MemRecords -> {NoText} \cup RecordTexts]
    BY <1>1, <1>2 DEF MemTypeOK
<1>5. ttl' \in [MemRecords -> {"none", "ahead", "over"}]
    BY <1>1, <1>2 DEF MemTypeOK
<1> QED
    BY <1>1, <1>2, <1>3, <1>4, <1>5, UnembedKeeps DEF MemTypeOK
(* A read takes the index away at most.                                       *)
LEMMA ReadKeeps == MemInv /\ MemRead => MemInv'
<1> SUFFICES ASSUME MemInv, MemRead PROVE MemInv'
    OBVIOUS
<1>1. MemTypeOK /\ TablesAgree /\ LoadedMatches /\ FileMatches /\ RowsFilled /\ IdsGiven
    BY DEF MemInv
<1>2. /\ stored' = stored /\ ttl' = ttl /\ fts' = fts /\ embeddings' = embeddings
      /\ saves' = saves /\ rowIds' = rowIds /\ vectorState' = vectorState
      /\ indexFile' = indexFile /\ faiss' = faiss /\ search' = search /\ raced' = raced
    BY DEF MemRead, tables
<1>3. loaded' \in [Embedders -> Index] /\ \A p \in Embedders : loaded'[p] \in {Absent, loaded[p]}
    BY <1>1, MemFacts DEF MemRead, Forget, MemTypeOK
<1>4. MemTypeOK'
    BY <1>1, <1>2, <1>3 DEF MemTypeOK
<1>5. TablesAgree' /\ IdsGiven'
    BY <1>1, <1>2 DEF TablesAgree, IdsGiven, Embedded
<1>6. LoadedMatches'
    BY <1>1, <1>2, <1>3, MemFacts DEF LoadedMatches, Matches, HasVector
<1>7. FileMatches'
    BY <1>1, <1>2 DEF FileMatches, UpToDate, Matches, HasVector
<1>8. RowsFilled'
    BY <1>1, <1>2, <1>3, MemFacts DEF RowsFilled
<1> QED
    BY <1>4, <1>5, <1>6, <1>7, <1>8 DEF MemInv

(* The tables and indexes stay: time passes, or a search goes on by itself.   *)
LEMMA AsideKeeps ==
    ASSUME MemInv, ttl' \in [MemRecords -> {"none", "ahead", "over"}], search' \in [MemSearches -> Search],
           UNCHANGED <<stored, fts, embeddings, saves, rowIds, vectorState,
                       loaded, indexFile, faiss, raced>>
    PROVE  MemInv'
<1>1. MemTypeOK /\ TablesAgree /\ LoadedMatches /\ FileMatches /\ RowsFilled /\ IdsGiven
    BY DEF MemInv
<1>2. MemTypeOK'
    BY <1>1 DEF MemTypeOK
<1>3. TablesAgree' /\ IdsGiven'
    BY <1>1 DEF TablesAgree, IdsGiven, Embedded
<1>4. LoadedMatches' /\ FileMatches' /\ RowsFilled'
    BY <1>1 DEF LoadedMatches, FileMatches, RowsFilled, UpToDate, Matches, HasVector
<1> QED
    BY <1>2, <1>3, <1>4 DEF MemInv

LEMMA TimeKeeps ==
    ASSUME MemInv, NEW r \in MemRecords, TimePasses(r)
    PROVE  MemInv'
<1>1. ttl' \in [MemRecords -> {"none", "ahead", "over"}] /\ search' \in [MemSearches -> Search]
    BY DEF MemInv, MemTypeOK, TimePasses
<1> QED
    BY <1>1, AsideKeeps DEF TimePasses

LEMMA MissingKeeps ==
    ASSUME MemInv, NEW s \in MemSearches, SearchMissing(s)
    PROVE  MemInv'
<1>1. MemTypeOK
    BY DEF MemInv
<1>2. PICK missing : missing = [r \in MemRecords |->
            IF r \in search[s].scope \ Embedded(search[s].by) THEN stored[r] ELSE NoText]
    OBVIOUS
<1>3. missing \in [MemRecords -> {NoText} \cup RecordTexts]
    BY <1>1, <1>2 DEF MemTypeOK
<1>4. PICK at \in {"embedding", "embedded"} :
          search' = [search EXCEPT ![s].missing = missing, ![s].at = at]
    BY <1>2 DEF SearchMissing
<1>5. search' \in [MemSearches -> Search]
    <2>1. search[s] \in Search
        BY <1>1 DEF MemTypeOK
    <2>2. PICK new : new = [search[s] EXCEPT !.missing = missing, !.at = at]
        OBVIOUS
    <2>3. new \in Search
        BY <1>3, <2>1, <2>2 DEF Search
    <2>4. search' = [search EXCEPT ![s] = new]
        BY <1>4, <2>1, <2>2 DEF Search
    <2> QED
        BY <1>1, <2>3, <2>4 DEF MemTypeOK
<1>6. ttl' \in [MemRecords -> {"none", "ahead", "over"}]
    BY <1>1 DEF MemTypeOK, SearchMissing, tables
<1> QED
    BY <1>5, <1>6, AsideKeeps DEF SearchMissing, tables

LEMMA EndsKeeps ==
    ASSUME MemInv, NEW s \in MemSearches, SearchEnds(s)
    PROVE  MemInv'
<1>1. MemTypeOK
    BY DEF MemInv
<1>2. search' \in [MemSearches -> Search]
    BY <1>1, MemFacts DEF MemTypeOK, SearchEnds
<1>3. ttl' \in [MemRecords -> {"none", "ahead", "over"}]
    BY <1>1 DEF MemTypeOK, SearchEnds, tables
<1> QED
    BY <1>2, <1>3, AsideKeeps DEF SearchEnds, tables

(* An answer is of records of the plugin, with texts it had.                  *)
LEMMA MatchingTyped ==
    ASSUME MemInv, NEW p \in Embedders, NEW scope \in Scopes
    PROVE  Matching(p, scope) \subseteq MemRecords \X RecordTexts
<1>1. MemTypeOK /\ RowsFilled
    BY DEF MemInv
<1>2. \A w \in Row : w.of # NoText => w.of \in RecordTexts
    BY DEF Row
<1>3. \A r \in InScope(p, scope) : r \in MemRecords /\ embeddings[p][r] \in Row
    BY <1>1 DEF InScope, Embedded, MemTypeOK
<1>4. \A w \in loaded[p].rows : w \in Row /\ w.of # NoText
    BY <1>1 DEF MemTypeOK, Index, RowsFilled
<1> QED
    BY <1>2, <1>3, <1>4 DEF Matching

LEMMA CandidatesKeeps ==
    ASSUME MemInv, NEW s \in MemSearches, SearchCandidates(s)
    PROVE  MemInv'
<1>1. MemTypeOK
    BY DEF MemInv
<1>2. search[s] \in Search
    BY <1>1 DEF MemTypeOK
<1>3. PICK found \in SUBSET (MemRecords \X RecordTexts) :
          found = Matching(search[s].by, search[s].scope)
    BY <1>2, MatchingTyped DEF Search
<1>4. search' = [search EXCEPT ![s].at = "answered", ![s].found = found]
    BY <1>3 DEF SearchCandidates
<1>5. search' \in [MemSearches -> Search]
    <2>1. PICK new : new = [search[s] EXCEPT !.at = "answered", !.found = found]
        OBVIOUS
    <2>2. new \in Search
        BY <1>2, <2>1 DEF Search
    <2>3. search' = [search EXCEPT ![s] = new]
        BY <1>2, <1>4, <2>1 DEF Search
    <2> QED
        BY <1>1, <2>2, <2>3 DEF MemTypeOK
<1>6. ttl' \in [MemRecords -> {"none", "ahead", "over"}]
    BY <1>1 DEF MemTypeOK, SearchCandidates, tables
<1> QED
    BY <1>5, <1>6, AsideKeeps DEF SearchCandidates, tables
(* The embeddings stay, and an index that changes is good.                    *)
LEMMA IndexesKeep ==
    ASSUME MemInv, UNCHANGED <<stored, ttl, fts, embeddings, saves, rowIds, faiss, raced>>,
           search' \in [MemSearches -> Search],
           vectorState' \in [Embedders -> {"none", "clean", "dirty"}],
           loaded' \in [Embedders -> Index], indexFile' \in [Embedders -> Index],
           RowsFilled',
           \A p \in Embedders : \/ loaded'[p].has # "index"
                               \/ loaded'[p] = loaded[p]
                               \/ Matches(p, loaded'[p].rows),
           \A p \in Embedders : \/ ~UpToDate(p)'
                               \/ (UpToDate(p) /\ indexFile'[p] = indexFile[p])
                               \/ Matches(p, indexFile'[p].rows)
    PROVE  MemInv'
<1>1. MemTypeOK /\ TablesAgree /\ LoadedMatches /\ FileMatches /\ IdsGiven
    BY DEF MemInv
<1>2. MemTypeOK'
    BY <1>1 DEF MemTypeOK
<1>3. TablesAgree' /\ IdsGiven'
    BY <1>1 DEF TablesAgree, IdsGiven, Embedded
<1>4. LoadedMatches'
    <2> SUFFICES ASSUME NEW p \in Embedders, loaded'[p].has = "index"
                 PROVE  Matches(p, loaded[p].rows)'
        BY DEF LoadedMatches
    <2>1. Matches(p, loaded'[p].rows)
        BY <1>1 DEF LoadedMatches
    <2> QED
        BY <2>1 DEF Matches, HasVector
<1>5. FileMatches'
    <2> SUFFICES ASSUME NEW p \in Embedders, UpToDate(p)'
                 PROVE  Matches(p, indexFile[p].rows)'
        BY DEF FileMatches
    <2>1. Matches(p, indexFile'[p].rows)
        BY <1>1 DEF FileMatches
    <2> QED
        BY <2>1 DEF Matches, HasVector
<1> QED
    BY <1>2, <1>3, <1>4, <1>5 DEF MemInv

(* An index that is built has every vector of the table, under its own id.    *)
LEMMA VectorsMatch ==
    ASSUME MemInv, NEW p \in Embedders
    PROVE  /\ Matches(p, Vectors(p))
           /\ Vectors(p) \subseteq Row
           /\ \A w \in Vectors(p) : w.of # NoText
           /\ Vectors(p) = {} => \A rows : Matches(p, rows)
<1>1. MemTypeOK
    BY DEF MemInv
<1>2. \A r \in MemRecords : embeddings[p][r] \in Row
    BY <1>1 DEF MemTypeOK
<1>3. Vectors(p) \subseteq Row /\ \A w \in Vectors(p) : w.of # NoText
    BY <1>2 DEF Vectors
<1>4. \A r \in MemRecords : HasVector(p, r) => embeddings[p][r] \in Vectors(p)
    BY DEF HasVector, Vectors
<1>5. ASSUME NEW r \in MemRecords, HasVector(p, r), NEW w \in Vectors(p),
             w.id = embeddings[p][r].id
      PROVE  w = embeddings[p][r]
    <2>1. PICK q \in MemRecords : w = embeddings[p][q] /\ HasVector(p, q)
        BY <1>5 DEF Vectors, HasVector
    <2>2. embeddings[p][r] # NoRow
        BY <1>5, MemFacts DEF HasVector
    <2> QED
        BY <1>1, <1>5, <2>1, <2>2 DEF MemTypeOK
<1>6. Matches(p, Vectors(p))
    BY <1>4, <1>5 DEF Matches
<1>7. Vectors(p) = {} => \A rows : Matches(p, rows)
    BY <1>4 DEF Matches
<1> QED
    BY <1>3, <1>6, <1>7

LEMMA IndexKeeps ==
    ASSUME MemInv, NEW s \in MemSearches, SearchIndex(s)
    PROVE  MemInv'
<1>1. MemTypeOK /\ RowsFilled /\ FileMatches
    BY DEF MemInv
<1>2. PICK p \in Embedders : p = search[s].by
    BY <1>1 DEF MemTypeOK, Search
<1>3. search' \in [MemSearches -> Search]
    <2>1. search[s] \in Search /\ search' = [search EXCEPT ![s].at = "indexed"]
        BY <1>1 DEF MemTypeOK, SearchIndex, Searching
    <2>2. PICK new : new = [search[s] EXCEPT !.at = "indexed"]
        OBVIOUS
    <2>3. new \in Search
        BY <2>1, <2>2 DEF Search
    <2>4. search' = [search EXCEPT ![s] = new]
        BY <2>1, <2>2 DEF Search
    <2> QED
        BY <1>1, <2>3, <2>4 DEF MemTypeOK
<1>4. UNCHANGED <<stored, ttl, fts, embeddings, saves, rowIds, faiss, raced>>
    BY DEF SearchIndex
<1>5. CASE UNCHANGED <<vectorState, loaded, indexFile>>
    BY <1>1, <1>3, <1>4, <1>5, AsideKeeps DEF MemTypeOK
<1>6. CASE /\ UpToDate(p) /\ loaded[p] = Absent
           /\ loaded' = [loaded EXCEPT ![p] = indexFile[p]]
           /\ UNCHANGED <<vectorState, indexFile>>
    <2>1. /\ loaded' \in [Embedders -> Index] /\ indexFile' \in [Embedders -> Index]
          /\ vectorState' \in [Embedders -> {"none", "clean", "dirty"}]
        BY <1>1, <1>6 DEF MemTypeOK
    <2>2. \A q \in Embedders : loaded'[q] = IF q = p THEN indexFile[p] ELSE loaded[q]
        BY <1>1, <1>6 DEF MemTypeOK
    <2>3. RowsFilled'
        BY <1>1, <1>6, <2>2 DEF RowsFilled
    <2>4. Matches(p, indexFile[p].rows)
        BY <1>1, <1>6 DEF FileMatches
    <2>5. \A q \in Embedders : UpToDate(q)' <=> UpToDate(q)
        BY <1>4, <1>6 DEF UpToDate
    <2> QED
        BY <1>3, <1>4, <1>6, <2>1, <2>2, <2>3, <2>4, <2>5, IndexesKeep
<1>7. CASE vectorState' = [vectorState EXCEPT ![p] = "clean"] /\ BuildIndex(p)
    <2>1. vectorState' \in [Embedders -> {"none", "clean", "dirty"}]
        BY <1>1, <1>7 DEF MemTypeOK
    <2>2. PICK index : index = [has |-> "index", rows |-> Vectors(p)]
        OBVIOUS
    <2>3. index \in Index /\ Matches(p, index.rows) /\ \A w \in index.rows : w.of # NoText
        BY <2>2, VectorsMatch DEF Index
    <2>4. PICK exact : exact = [Absent EXCEPT !.has = "exact"]
        OBVIOUS
    <2>5. exact \in Index /\ exact.has # "index" /\ exact.rows = {}
        BY <2>4 DEF Absent, Index
    <2>6. \A q \in Embedders : q # p => (UpToDate(q)' => UpToDate(q) \/ indexFile'[q] # indexFile[q])
        BY <1>1, <1>4, <1>7 DEF UpToDate, MemTypeOK
    <2>7. CASE /\ loaded' = [loaded EXCEPT ![p] = index]
               /\ indexFile' = [indexFile EXCEPT ![p] = index]
        <3>1. loaded' \in [Embedders -> Index] /\ indexFile' \in [Embedders -> Index]
            BY <1>1, <2>3, <2>7 DEF MemTypeOK
        <3>2. \A q \in Embedders : /\ loaded'[q] = IF q = p THEN index ELSE loaded[q]
                                  /\ indexFile'[q] = IF q = p THEN index ELSE indexFile[q]
            BY <1>1, <2>7 DEF MemTypeOK
        <3>3. RowsFilled'
            BY <1>1, <2>3, <3>2 DEF RowsFilled
        <3> QED
            BY <1>3, <1>4, <2>1, <2>3, <2>6, <3>1, <3>2, <3>3, IndexesKeep
    <2>8. CASE /\ Vectors(p) = {} \/ ~faiss
               /\ loaded' = [loaded EXCEPT ![p] = exact] /\ UNCHANGED indexFile
        <3>1. loaded' \in [Embedders -> Index] /\ indexFile' \in [Embedders -> Index]
            BY <1>1, <2>5, <2>8 DEF MemTypeOK
        <3>2. \A q \in Embedders : loaded'[q] = IF q = p THEN exact ELSE loaded[q]
            BY <1>1, <2>8 DEF MemTypeOK
        <3>3. RowsFilled'
            BY <1>1, <2>5, <2>8, <3>2 DEF RowsFilled
        <3>4. ~UpToDate(p)' \/ Matches(p, indexFile'[p].rows)
            BY <1>4, <2>8, VectorsMatch DEF UpToDate
        <3> QED
            BY <1>3, <1>4, <2>1, <2>5, <2>6, <2>8, <3>1, <3>2, <3>3, <3>4, IndexesKeep
    <2> QED
        BY <1>7, <2>2, <2>4, <2>7, <2>8 DEF BuildIndex
<1> QED
    BY <1>2, <1>5, <1>6, <1>7 DEF SearchIndex

(* The file that a killed process leaves behind is good, whether or not it is *)
(* ever read.                                                                 *)
LEMMA CrashKeeps == MemInv /\ MemCrash => MemInv'
<1> SUFFICES ASSUME MemInv, MemCrash PROVE MemInv'
    OBVIOUS
<1>1. MemTypeOK /\ RowsFilled
    BY DEF MemInv
<1>2. /\ UNCHANGED <<stored, ttl, fts, embeddings, saves, rowIds, faiss, raced>>
      /\ vectorState' = vectorState
    BY DEF MemCrash, tables
<1>3. loaded' = [p \in Embedders |-> Absent] /\ search' = [s \in MemSearches |-> Idle]
    BY DEF MemCrash
<1>4. /\ loaded' \in [Embedders -> Index] /\ search' \in [MemSearches -> Search]
      /\ vectorState' \in [Embedders -> {"none", "clean", "dirty"}]
      /\ \A p \in Embedders : loaded'[p].has # "index" /\ loaded'[p].rows = {}
    BY <1>1, <1>2, <1>3, MemFacts DEF MemTypeOK
<1>5. ASSUME NEW p \in Embedders,
             indexFile' = [indexFile EXCEPT ![p] = [has |-> "index", rows |-> Vectors(p)]]
      PROVE  MemInv'
    <2>1. PICK index : index = [has |-> "index", rows |-> Vectors(p)]
        OBVIOUS
    <2>2. index \in Index /\ Matches(p, index.rows) /\ \A w \in index.rows : w.of # NoText
        BY <2>1, VectorsMatch DEF Index
    <2>3. /\ indexFile' \in [Embedders -> Index]
          /\ \A q \in Embedders : indexFile'[q] = IF q = p THEN index ELSE indexFile[q]
        BY <1>1, <1>5, <2>1, <2>2 DEF MemTypeOK
    <2>4. RowsFilled'
        BY <1>1, <1>4, <2>2, <2>3 DEF RowsFilled
    <2>5. \A q \in Embedders : q # p => (UpToDate(q)' => UpToDate(q))
        BY <1>2, <2>3 DEF UpToDate
    <2> QED
        BY <1>2, <1>4, <2>2, <2>3, <2>4, <2>5, IndexesKeep
<1>6. CASE UNCHANGED indexFile
    <2>1. RowsFilled' /\ indexFile' \in [Embedders -> Index]
        BY <1>1, <1>4, <1>6 DEF RowsFilled, MemTypeOK
    <2>2. \A q \in Embedders : UpToDate(q)' => UpToDate(q)
        BY <1>2, <1>6 DEF UpToDate
    <2> QED
        BY <1>2, <1>4, <1>6, <2>1, <2>2, IndexesKeep
<1>7. \A s \in MemSearches : search[s].by \in Embedders
    BY <1>1 DEF MemTypeOK, Search
<1> QED
    BY <1>5, <1>6, <1>7 DEF MemCrash
(* Records that have no row of the provider get ids nobody had; an embedding  *)
(* of a text that has changed meanwhile is remembered as such.                *)
LEMMA UpsertKeeps ==
    ASSUME MemInv, NEW s \in MemSearches, SearchUpsert(s)
    PROVE  MemInv'
<1>1. MemTypeOK /\ TablesAgree /\ RowsFilled /\ IdsGiven
    BY DEF MemInv
<1>2. PICK p \in Embedders : p = search[s].by
    BY <1>1 DEF MemTypeOK, Search
<1>3. PICK got \in SUBSET MemRecords : got = {r \in MemRecords : search[s].missing[r] # NoText}
    OBVIOUS
<1>4. PICK had \in SUBSET MemRecords : had = Embedded(p)
    BY DEF Embedded
<1>5. PICK new : new = SetToSeq(got \ had)
    OBVIOUS
<1>6. /\ Len(new) \in Nat /\ DOMAIN new = 1..Len(new)
      /\ \A r \in got \ had : \E n \in DOMAIN new : new[n] = r
    <2>1. IsFiniteSet(got \ had)
        BY MemoryAssumption, FS_Subset
    <2> QED
        BY <1>5, <2>1, Numbering
<1>7. PICK number \in [got \ had -> 1..Len(new)] :
          \A r \in got \ had : /\ number[r] = Place(r, new)
                             /\ new[number[r]] = r
    <2>1. \A r \in got \ had : Place(r, new) \in 1..Len(new) /\ new[Place(r, new)] = r
        BY <1>6 DEF Place
    <2>2. [r \in got \ had |-> Place(r, new)] \in [got \ had -> 1..Len(new)]
        BY <2>1
    <2> QED
        BY <2>1, <2>2
<1>0. /\ rowIds \in Nat
      /\ \A r \in MemRecords : embeddings[p][r] \in Row /\ embeddings[p][r].id \in Nat
    BY <1>1, MemFacts DEF MemTypeOK, Row
<1>8. PICK given \in [got -> Nat] :
          \A r \in got : given[r] = IF r \in had THEN embeddings[p][r].id ELSE rowIds + number[r]
    <2>1. \A r \in got : (IF r \in had THEN embeddings[p][r].id ELSE rowIds + number[r]) \in Nat
        <3>1. \A r \in got \ had : number[r] \in Nat
            BY <1>6, <1>7
        <3>2. \A r \in got \ had : rowIds + number[r] \in Nat
            BY <1>0, <3>1
        <3> QED
            BY <1>0, <3>2
    <2>2. [r \in got |-> IF r \in had THEN embeddings[p][r].id ELSE rowIds + number[r]] \in [got -> Nat]
        BY <2>1
    <2> QED
        BY <2>2
<1>9. PICK short \in SUBSET got :
        /\ rowIds + Len(new) <= MaxRowId
        /\ rowIds' = rowIds + Len(new)
        /\ embeddings' = [embeddings EXCEPT ![p] = Upserted(p, search[s].missing, new, short)]
        /\ raced' = (raced \ ({p} \X got))
                        \cup {e \in {p} \X got : stored[e[2]] # search[s].missing[e[2]]}
        /\ Dirtied({p})
        /\ search' = [search EXCEPT ![s].at = "embedded", ![s].missing = Idle.missing]
        /\ UNCHANGED <<stored, ttl, fts, saves, indexFile, faiss>>
    BY <1>2, <1>3, <1>4, <1>5 DEF SearchUpsert
<1>10. /\ rowIds \in Nat /\ rowIds' \in 0..MaxRowId /\ rowIds' = rowIds + Len(new)
    BY <1>0, <1>6, <1>9, MemFacts
<1>11. /\ \A r \in had : embeddings[p][r].id \in 1..rowIds
       /\ \A r \in MemRecords \ had : embeddings[p][r] = NoRow
    BY <1>1, <1>4 DEF IdsGiven, Embedded
<1>12. \A r \in got : given[r] \in 1..rowIds'
    <2> SUFFICES ASSUME NEW r \in got PROVE given[r] \in 1..rowIds'
        OBVIOUS
    <2>1. CASE r \in had
        <3>1. given[r] \in 1..rowIds
            <4>1. given[r] = embeddings[p][r].id
                BY <2>1, <1>8
            <4> QED
                BY <2>1, <4>1, <1>3, <1>11
        <3> QED
            BY <3>1, <1>0, <1>6, <1>10
    <2>2. CASE r \notin had
        <3>1. given[r] = rowIds + number[r] /\ number[r] \in 1..Len(new)
            BY <2>2, <1>7, <1>8
        <3> QED
            BY <3>1, <1>0, <1>6, <1>10
    <2> QED
        BY <2>1, <2>2
<1>13. \A r \in got : search[s].missing[r] \in RecordTexts
    BY <1>1, <1>3 DEF MemTypeOK, Search
<1>14. PICK put \in [got -> Row] :
           put = [r \in got |-> [id |-> given[r], of |-> IF r \in short THEN NoText ELSE search[s].missing[r]]]
    <2>1. \A r \in got : given[r] \in 0..MaxRowId
        BY <1>10, <1>12, MemFacts
    <2>2. \A r \in got : (IF r \in short THEN NoText ELSE search[s].missing[r]) \in {NoText} \cup RecordTexts
        BY <1>13
    <2> QED
        BY <2>1, <2>2 DEF Row
<1>15. \A r \in got : put[r].id = given[r] /\ put[r].of \in {NoText, search[s].missing[r]}
    BY <1>14
<1>16. /\ embeddings' \in [Embedders -> [MemRecords -> Row]]
       /\ \A q \in Embedders : \A r \in MemRecords :
             embeddings'[q][r] = IF q = p /\ r \in got THEN put[r] ELSE embeddings[q][r]
    <2>1. PICK row : row = Upserted(p, search[s].missing, new, short)
        OBVIOUS
    <2>2. embeddings' = [embeddings EXCEPT ![p] = row]
        BY <1>9, <2>1
    <2>3. \A r \in MemRecords : row[r] = IF r \notin got THEN embeddings[p][r]
              ELSE [id |-> IF r \in had THEN embeddings[p][r].id ELSE rowIds + Place(r, new),
                    of |-> IF r \in short THEN NoText ELSE search[s].missing[r]]
        BY <2>1, <1>3, <1>4 DEF Upserted
    <2>4. \A r \in MemRecords : row[r] = IF r \in got THEN put[r] ELSE embeddings[p][r]
        <3>1. \A r \in got : put[r] = [id |-> given[r],
                   of |-> IF r \in short THEN NoText ELSE search[s].missing[r]]
            BY <1>14
        <3>2. \A r \in got : given[r] = IF r \in had THEN embeddings[p][r].id ELSE rowIds + Place(r, new)
            BY <1>7, <1>8
        <3> QED
            BY <2>3, <3>1, <3>2
    <2>5. row \in [MemRecords -> Row]
        <3>1. \A r \in MemRecords : row[r] \in Row
            BY <1>0, <1>14, <2>4
        <3> QED
            BY <2>1, <3>1 DEF Upserted
    <2> QED
        BY <1>1, <2>2, <2>4, <2>5 DEF MemTypeOK
<1>17. \A q \in Embedders : \A r, t \in MemRecords :
           embeddings'[q][r].id = embeddings'[q][t].id /\ r # t => embeddings'[q][r] = NoRow
    <2> SUFFICES ASSUME NEW q \in Embedders, NEW r \in MemRecords, NEW t \in MemRecords, r # t,
                        embeddings'[q][r].id = embeddings'[q][t].id
                 PROVE  embeddings'[q][r] = NoRow
        OBVIOUS
    <2>5. \A x \in got, y \in MemRecords : x \notin had /\ y \in had => given[x] # embeddings[p][y].id
        <3> SUFFICES ASSUME NEW x \in got \ had, NEW y \in had PROVE given[x] # embeddings[p][y].id
            OBVIOUS
        <3>1. embeddings[p][y].id \in 1..rowIds
            BY <1>4, <1>11
        <3>2. given[x] = rowIds + number[x] /\ number[x] \in 1..Len(new)
            BY <1>7, <1>8
        <3> QED
            BY <3>1, <3>2, <1>0, <1>6
    <2>6. \A x \in got \cap had : given[x] = embeddings[p][x].id
        BY <1>8
    <2>0. \A x, y \in MemRecords : embeddings[q][x].id = embeddings[q][y].id /\ x # y
                                       => embeddings[q][x] = NoRow
        BY <1>1 DEF MemTypeOK
    <2>1. CASE q # p \/ (r \notin got /\ t \notin got)
        BY <2>0, <2>1, <1>16
    <2>2. CASE q = p /\ r \in got /\ t \in got
        <3>1. given[r] = given[t]
            BY <2>2, <1>15, <1>16
        <3>2. CASE r \in had /\ t \in had
            BY <2>0, <2>2, <2>6, <3>1, <3>2, <1>4 DEF Embedded
        <3>3. CASE r \in had /\ t \notin had
            BY <2>2, <2>5, <2>6, <3>1, <3>3
        <3>4. CASE r \notin had /\ t \in had
            BY <2>2, <2>5, <2>6, <3>1, <3>4
        <3>5. CASE r \notin had /\ t \notin had
            <4>1. /\ given[r] = rowIds + number[r] /\ number[r] \in 1..Len(new)
                  /\ given[t] = rowIds + number[t] /\ number[t] \in 1..Len(new)
                BY <2>2, <3>5, <1>7, <1>8
            <4>2. PICK m \in 1..Len(new) : m = number[r]
                BY <4>1
            <4>3. PICK n \in 1..Len(new) : n = number[t]
                BY <4>1
            <4>4. rowIds + m = rowIds + n
                BY <3>1, <4>1, <4>2, <4>3
            <4>5. m = n
                BY <4>4, <1>0, <1>6
            <4>6. number[r] = number[t] /\ r \in got \ had /\ t \in got \ had
                BY <2>2, <3>5, <4>2, <4>3, <4>5
            <4> QED
                BY <4>6, <1>7
        <3> QED
            BY <3>2, <3>3, <3>4, <3>5
    <2>3. CASE q = p /\ r \in got /\ t \notin got
        <3>1. given[r] = embeddings[p][t].id
            BY <2>3, <1>15, <1>16
        <3>2. CASE t \notin had
            BY <2>3, <3>1, <3>2, <1>10, <1>11, <1>12, MemFacts
        <3>3. CASE t \in had /\ r \in had
            BY <2>0, <2>3, <2>6, <3>1, <3>3, <1>4 DEF Embedded
        <3>4. CASE t \in had /\ r \notin had
            BY <2>3, <2>5, <3>1, <3>4
        <3> QED
            BY <3>2, <3>3, <3>4
    <2>4. CASE q = p /\ r \notin got /\ t \in got
        <3>1. given[t] = embeddings[p][r].id
            BY <2>4, <1>15, <1>16
        <3>2. CASE r \notin had
            BY <2>4, <3>2, <1>11, <1>16
        <3>3. CASE t \in had /\ r \in had
            BY <2>0, <2>4, <2>6, <3>1, <3>3, <1>4 DEF Embedded
        <3>4. CASE r \in had /\ t \notin had
            BY <2>4, <2>5, <3>1, <3>4
        <3> QED
            BY <3>2, <3>3, <3>4
    <2> QED
        BY <2>1, <2>2, <2>3, <2>4
<1>18. /\ vectorState' = [q \in Embedders |-> IF q \in {p} THEN "dirty" ELSE vectorState[q]]
       /\ loaded' = [q \in Embedders |-> IF q \in {p} THEN Absent ELSE loaded[q]]
    BY <1>9 DEF Dirtied, Forget
<1>19. search' \in [MemSearches -> Search]
    <2>1. search[s] \in Search
        BY <1>1 DEF MemTypeOK
    <2>2. PICK with : with = [search[s] EXCEPT !.at = "embedded", !.missing = Idle.missing]
        OBVIOUS
    <2>3. with \in Search
        <3>1. Idle.missing \in [MemRecords -> {NoText} \cup RecordTexts]
            BY MemFacts DEF Search
        <3> QED
            BY <2>1, <2>2, <3>1 DEF Search
    <2>4. search' = [search EXCEPT ![s] = with]
        BY <1>9, <2>1, <2>2 DEF Search
    <2> QED
        BY <1>1, <2>3, <2>4 DEF MemTypeOK
<1>20. MemTypeOK'
    <2>1. /\ loaded' \in [Embedders -> Index]
          /\ vectorState' \in [Embedders -> {"none", "clean", "dirty"}]
        BY <1>1, <1>18, MemFacts DEF MemTypeOK
    <2>2. raced' \subseteq Embedders \X MemRecords
        BY <1>1, <1>9 DEF MemTypeOK
    <2> QED
        BY <1>1, <1>9, <1>10, <1>16, <1>17, <1>19, <2>1, <2>2 DEF MemTypeOK
<1>21. TablesAgree'
    <2> SUFFICES ASSUME NEW q \in Embedders, NEW r \in Embedded(q)', <<q, r>> \notin raced'
                 PROVE  stored'[r] # NoText /\ embeddings'[q][r].of \in {NoText, stored'[r]}
        BY <1>1, <1>9 DEF TablesAgree
    <2>0. r \in MemRecords /\ embeddings'[q][r] # NoRow
        BY DEF Embedded
    <2>1. CASE q = p /\ r \in got
        <3>1. <<q, r>> \in {p} \X got
            BY <2>1
        <3>2. stored[r] = search[s].missing[r]
            BY <3>1, <1>9
        <3> QED
            BY <2>1, <3>2, <1>3, <1>9, <1>15, <1>16
    <2>2. CASE ~(q = p /\ r \in got)
        <3>1. <<q, r>> \notin raced
            BY <2>2, <1>9
        <3>2. embeddings'[q][r] = embeddings[q][r] /\ r \in Embedded(q)
            BY <2>0, <2>2, <1>16 DEF Embedded
        <3> QED
            BY <3>1, <3>2, <1>1, <1>9 DEF TablesAgree
    <2> QED
        BY <2>1, <2>2
<1>22. LoadedMatches' /\ FileMatches'
    <2> SUFFICES ASSUME NEW q \in Embedders
                 PROVE  /\ loaded'[q].has = "index" => Matches(q, loaded[q].rows)'
                        /\ UpToDate(q)' => Matches(q, indexFile[q].rows)'
        BY DEF LoadedMatches, FileMatches
    <2>1. CASE q = p
        BY <2>1, <1>18, MemFacts DEF UpToDate
    <2>2. CASE q # p
        BY <2>2, <1>9, <1>16, <1>18, MatchesStill
    <2> QED
        BY <2>1, <2>2
<1>23. RowsFilled'
    BY <1>1, <1>9, <1>18, MemFacts DEF RowsFilled
<1>24. IdsGiven'
    <2> SUFFICES ASSUME NEW q \in Embedders, NEW r \in Embedded(q)'
                 PROVE  embeddings'[q][r].id \in 1..rowIds'
        BY DEF IdsGiven
    <2>0. r \in MemRecords /\ embeddings'[q][r] # NoRow
        BY DEF Embedded
    <2>1. CASE q = p /\ r \in got
        BY <2>1, <1>12, <1>15, <1>16
    <2>2. CASE ~(q = p /\ r \in got)
        <3>1. embeddings'[q][r] = embeddings[q][r] /\ r \in Embedded(q)
            BY <2>0, <2>2, <1>16 DEF Embedded
        <3>2. embeddings[q][r].id \in 1..rowIds
            BY <3>1, <1>1 DEF IdsGiven
        <3> QED
            BY <3>1, <3>2, <1>6, <1>10
    <2> QED
        BY <2>1, <2>2
<1> QED
    BY <1>20, <1>21, <1>22, <1>23, <1>24 DEF MemInv
LEMMA MemNextKeeps == MemInv /\ [MemNext]_memoryVars => MemInv'
<1> SUFFICES ASSUME MemInv, [MemNext]_memoryVars PROVE MemInv'
    OBVIOUS
<1>1. Outdated \subseteq MemRecords /\ search \in [MemSearches -> Search]
    BY DEF Outdated, MemInv, MemTypeOK
<1>2. ASSUME NEW keys \in SUBSET MemRecords, MemDelete(keys) PROVE MemInv'
    BY <1>1, <1>2, EraseKeeps DEF MemDelete
<1>3. ASSUME NEW scope \in Scopes, MemClear(scope) PROVE MemInv'
    <2>1. {r \in scope : stored[r] # NoText} \cup Outdated \in SUBSET MemRecords
        BY <1>1, MemoryAssumption
    <2> QED
        BY <1>1, <1>3, <2>1, EraseKeeps DEF MemClear
<1>4. ASSUME NEW s \in MemSearches, SearchPurge(s) PROVE MemInv'
    <2>1. PICK scope \in Scopes, p \in Embedders :
            /\ search' = [search EXCEPT ![s] = [Idle EXCEPT !.at = "purged", !.scope = scope, !.by = p]]
            /\ Erase(Outdated)
        BY <1>4 DEF SearchPurge
    <2>2. [Idle EXCEPT !.at = "purged", !.scope = scope, !.by = p] \in Search
        BY MemFacts DEF Search
    <2>3. search' \in [MemSearches -> Search]
        BY <1>1, <2>1, <2>2
    <2> QED
        BY <1>1, <2>1, <2>3, EraseKeeps
<1>5. CASE UNCHANGED memoryVars
    <2>1. ttl' \in [MemRecords -> {"none", "ahead", "over"}] /\ search' \in [MemSearches -> Search]
        BY <1>5 DEF MemInv, MemTypeOK, memoryVars, tables
    <2> QED
        BY <1>5, <2>1, AsideKeeps DEF memoryVars, tables
<1> QED
    BY <1>2, <1>3, <1>4, <1>5, SaveKeeps, TimeKeeps, ReadKeeps, CrashKeeps, MissingKeeps, UpsertKeeps,
       IndexKeeps, CandidatesKeeps, EndsKeeps DEF MemNext

LEMMA MemInvHolds == MemSpec => []MemInv
    BY MemInitEstablishes, MemNextKeeps, PTL DEF MemSpec

(* The types of the memory: no two rows of a provider have one id, for any    *)
(* searches that fill in embeddings side by side.                             *)
THEOREM MemoryTyped == MemSpec => []MemTypeOK
    BY MemInvHolds, PTL DEF MemInv

(* Whatever is saved, deleted, purged or timed out while searches compute     *)
(* embeddings: the full-text table and the embeddings are of the records'     *)
(* present texts, save for those whose record changed under the computation.  *)
THEOREM TablesAlwaysAgree == MemSpec => []TablesAgree
    BY MemInvHolds, PTL DEF MemInv

(* A vector search finds each record of its scope that has a vector, by its   *)
(* present vector and no other, for any number of records, providers and      *)
(* searches and wherever the process was killed: the index in the process and *)
(* the file it is read from match the embeddings while nothing is dirty.      *)
THEOREM SearchFindsAll == MemSpec => FindsAll
<1>1. ASSUME MemInv, NEW s \in MemSearches, SearchCandidates(s), NEW p, p = search[s].by
      PROVE  {hit \in search'[s].found : HasVector(p, hit[1])} =
                {<<r, embeddings[p][r].of>> :
                    r \in {q \in search[s].scope : stored[q] # NoText /\ HasVector(p, q)}}
    <2>1. MemTypeOK /\ LoadedMatches
        BY <1>1 DEF MemInv
    <2>2. search[s] \in Search /\ p \in Embedders
        BY <1>1, <2>1 DEF MemTypeOK, Search
    <2>3. PICK scope \in Scopes : scope = search[s].scope
        BY <2>2 DEF Search
    <2>4. scope \subseteq MemRecords
        BY MemoryAssumption
    <2>5. search'[s].found = Matching(p, scope)
        BY <1>1, <2>1, <2>2, <2>3 DEF SearchCandidates, MemTypeOK, Search
    <2>6. \A r \in MemRecords : HasVector(p, r) => r \in Embedded(p)
        BY MemFacts DEF HasVector, Embedded
    <2>7. InScope(p, scope) \subseteq MemRecords
          /\ \A r \in scope : stored[r] # NoText /\ HasVector(p, r) <=> r \in InScope(p, scope) /\ HasVector(p, r)
        BY <2>4, <2>6 DEF InScope
    <2>8. CASE loaded[p].has # "index"
        <3>1. Matching(p, scope) = {<<r, embeddings[p][r].of>> :
                  r \in {q \in InScope(p, scope) : HasVector(p, q)}}
            BY <2>8 DEF Matching, HasVector
        <3> QED
            BY <2>3, <2>5, <2>7, <3>1 DEF InScope
    <2>9. CASE loaded[p].has = "index"
        <3>1. Matches(p, loaded[p].rows)
            BY <2>1, <2>2, <2>9 DEF LoadedMatches
        <3>2. Matching(p, scope) =
                  UNION {{<<r, row.of>> : row \in {w \in loaded[p].rows : w.id = embeddings[p][r].id}} :
                             r \in InScope(p, scope)}
            BY <2>9 DEF Matching
        <3>3. ASSUME NEW r \in InScope(p, scope), HasVector(p, r)
              PROVE  {<<r, row.of>> : row \in {w \in loaded[p].rows : w.id = embeddings[p][r].id}} =
                         {<<r, embeddings[p][r].of>>}
            BY <2>7, <3>1, <3>3 DEF Matches
        <3>4. ASSUME NEW hit \in Matching(p, scope)
              PROVE  \E r \in InScope(p, scope) : hit[1] = r /\ hit \in
                         {<<r, row.of>> : row \in {w \in loaded[p].rows : w.id = embeddings[p][r].id}}
            BY <3>2
        <3>5. ASSUME NEW hit \in Matching(p, scope), HasVector(p, hit[1])
              PROVE  hit[1] \in InScope(p, scope) /\ hit = <<hit[1], embeddings[p][hit[1]].of>>
            BY <3>3, <3>4, <3>5
        <3>6. ASSUME NEW r \in InScope(p, scope), HasVector(p, r)
              PROVE  <<r, embeddings[p][r].of>> \in Matching(p, scope)
            <4>1. <<r, embeddings[p][r].of>> \in
                      {<<r, row.of>> : row \in {w \in loaded[p].rows : w.id = embeddings[p][r].id}}
                BY <3>3, <3>6
            <4>2. PICK hits : hits =
                      {<<r, row.of>> : row \in {w \in loaded[p].rows : w.id = embeddings[p][r].id}}
                OBVIOUS
            <4>3. hits \in {{<<q, row.of>> : row \in {w \in loaded[p].rows : w.id = embeddings[p][q].id}} :
                                q \in InScope(p, scope)}
                BY <3>6, <4>2
            <4> QED
                BY <3>2, <4>1, <4>2, <4>3
        <3> QED
            BY <2>3, <2>5, <2>7, <3>5, <3>6 DEF InScope
    <2> QED
        BY <2>8, <2>9
<1>2. MemInv /\ [MemNext]_memoryVars =>
        [\A s \in MemSearches : SearchCandidates(s) =>
          LET p == search[s].by IN
          {hit \in search'[s].found : HasVector(p, hit[1])} =
              {<<r, embeddings[p][r].of>> :
                  r \in {q \in search[s].scope : stored[q] # NoText /\ HasVector(p, q)}}]_memoryVars
    BY <1>1
<1> QED
    BY <1>2, MemInvHolds, PTL DEF MemSpec, FindsAll
-----------------------------------------------------------------------------
(* Knowledge bases.  An id is given out once, so that a new knowledge base    *)
(* has no documents and a new document replaces none.                         *)
KbInv ==
    /\ madeKbs \in Nat /\ DOMAIN kbs \subseteq 1..madeKbs
    /\ madeDocs \in Nat /\ DOMAIN documents \subseteq 1..madeDocs
    /\ \A k \in DOMAIN kbs :
          kbs[k] = [size |-> kbs[k].size, docs |-> kbs[k].docs, chunks |-> kbs[k].chunks]
    /\ \A d \in DOMAIN documents :
          documents[d] = [kb |-> documents[d].kb, chunks |-> documents[d].chunks]
    /\ StatsAgree

(* The sum of no counts.                                                      *)
LEMMA NothingTotal ==
    ASSUME NEW counts, DOMAIN counts = {}
    PROVE  Total(counts) = 0
BY DEF Total, MapThenSumSet, MapThenFoldSet

(* The counts of a knowledge base depend on its own documents only.           *)
LEMMA SameChunks ==
    ASSUME NEW docs, NEW changed, NEW k, DocsOf(changed, k) = DocsOf(docs, k),
           \A d \in DocsOf(docs, k) : changed[d].chunks = docs[d].chunks
    PROVE  ChunksOf(changed, k) = ChunksOf(docs, k)
BY DEF ChunksOf

LEMMA KbInitEstablishes == KbInit => KbInv
<1> SUFFICES ASSUME KbInit PROVE KbInv
    OBVIOUS
<1>1. DOMAIN kbs = {} /\ DOMAIN documents = {} /\ DOMAIN contents = {}
    BY DEF KbInit
<1> QED
    BY <1>1 DEF KbInit, KbInv, StatsAgree

(* _refresh_mock_kb_stats mends the counts of the knowledge base whose        *)
(* documents have changed.                                                    *)
LEMMA RefreshMends ==
    ASSUME KbInv, NEW k, NEW docs, documents' = docs, kbs' = Refreshed(k, docs),
           \A j \in DOMAIN kbs : j # k => /\ DocsOf(docs, j) = DocsOf(documents, j)
                                        /\ \A d \in DocsOf(docs, j) : docs[d].chunks = documents[d].chunks,
           DOMAIN docs \subseteq 1..madeDocs', madeDocs' \in Nat, madeKbs' = madeKbs,
           \A d \in DOMAIN docs : /\ docs[d] = [kb |-> docs[d].kb, chunks |-> docs[d].chunks]
                                /\ docs[d].kb \in DOMAIN kbs,
           DOMAIN contents' = DOMAIN docs
    PROVE  KbInv'
<1> USE DEF KbInv
<1>1. DOMAIN kbs' = DOMAIN kbs
    BY DEF Refreshed
<1>2. ASSUME NEW j \in DOMAIN kbs, j # k
      PROVE  /\ kbs'[j] = kbs[j]
             /\ kbs[j].docs = Cardinality(DocsOf(docs, j))
             /\ kbs[j].chunks = Total(ChunksOf(docs, j))
    <2>1. kbs'[j] = kbs[j]
        BY <1>2 DEF Refreshed
    <2>2. DocsOf(docs, j) = DocsOf(documents, j) /\ ChunksOf(docs, j) = ChunksOf(documents, j)
        BY <1>2, SameChunks
    <2>3. kbs[j].docs = Cardinality(DocsOf(documents, j)) /\ kbs[j].chunks = Total(ChunksOf(documents, j))
        BY DEF StatsAgree
    <2> QED
        BY <2>1, <2>2, <2>3
<1>3. k \in DOMAIN kbs => /\ kbs'[k].docs = Cardinality(DocsOf(docs, k))
                          /\ kbs'[k].chunks = Total(ChunksOf(docs, k))
                          /\ kbs'[k] = [size |-> kbs'[k].size, docs |-> kbs'[k].docs, chunks |-> kbs'[k].chunks]
    <2> SUFFICES ASSUME k \in DOMAIN kbs
                 PROVE  /\ kbs'[k].docs = Cardinality(DocsOf(docs, k))
                        /\ kbs'[k].chunks = Total(ChunksOf(docs, k))
                        /\ kbs'[k] = [size |-> kbs'[k].size, docs |-> kbs'[k].docs, chunks |-> kbs'[k].chunks]
        OBVIOUS
    <2>1. PICK n : n = Cardinality(DocsOf(docs, k))
        OBVIOUS
    <2>2. PICK t : t = Total(ChunksOf(docs, k))
        OBVIOUS
    <2>3. kbs' = [kbs EXCEPT ![k].docs = n, ![k].chunks = t]
        BY <2>1, <2>2 DEF Refreshed
    <2>4. kbs[k] = [size |-> kbs[k].size, docs |-> kbs[k].docs, chunks |-> kbs[k].chunks]
        OBVIOUS
    <2>5. kbs'[k] = [size |-> kbs[k].size, docs |-> n, chunks |-> t]
        BY <2>3, <2>4
    <2> QED
        BY <2>1, <2>2, <2>5
<1>4. StatsAgree'
    BY <1>1, <1>2, <1>3 DEF StatsAgree
<1> QED
    BY <1>1, <1>2, <1>3, <1>4
(* No document belongs to a knowledge base that was not there, so the counts  *)
(* of a new one are right at zero.                                            *)
LEMMA KbCreateKeeps == KbInv /\ KbCreate => KbInv'
<1> SUFFICES ASSUME KbInv, KbCreate PROVE KbInv'
    OBVIOUS
<1> USE DEF KbInv
<1>1. PICK size, new :
        /\ new = madeKbs + 1 /\ madeKbs' = new
        /\ kbs' = Put(kbs, new, [size |-> size, docs |-> 0, chunks |-> 0])
        /\ UNCHANGED <<documents, contents, madeDocs>>
    BY DEF KbCreate
<1>2. new \in Nat /\ new \notin DOMAIN kbs /\ DOMAIN kbs \cup {new} \subseteq 1..new
    BY <1>1
<1>3. DOMAIN kbs' = DOMAIN kbs \cup {new} /\ \A k \in DOMAIN kbs : kbs'[k] = kbs[k]
    BY <1>1, <1>2 DEF Put
<1>4. kbs'[new] = [size |-> size, docs |-> 0, chunks |-> 0]
    BY <1>1 DEF Put
<1>5. DocsOf(documents, new) = {}
    BY <1>2 DEF DocsOf, StatsAgree
<1>6. Cardinality(DocsOf(documents, new)) = 0 /\ Total(ChunksOf(documents, new)) = 0
    <2>1. DOMAIN ChunksOf(documents, new) = {}
        BY <1>5 DEF ChunksOf
    <2> QED
        BY <1>5, <2>1, FS_EmptySet, NothingTotal
<1>7. StatsAgree'
    <2> SUFFICES ASSUME NEW k \in DOMAIN kbs'
                 PROVE  /\ kbs'[k].docs = Cardinality(DocsOf(documents, k))
                        /\ kbs'[k].chunks = Total(ChunksOf(documents, k))
        BY <1>1, <1>3 DEF StatsAgree
    <2>1. CASE k = new
        BY <2>1, <1>4, <1>6
    <2>2. CASE k # new
        BY <2>2, <1>3 DEF StatsAgree
    <2> QED
        BY <2>1, <2>2
<1>8. \A k \in DOMAIN kbs' :
          kbs'[k] = [size |-> kbs'[k].size, docs |-> kbs'[k].docs, chunks |-> kbs'[k].chunks]
    BY <1>3, <1>4
<1> QED
    BY <1>1, <1>2, <1>3, <1>7, <1>8

LEMMA KbUpdateKeeps == KbInv /\ KbUpdate => KbInv'
<1> SUFFICES ASSUME KbInv, KbUpdate PROVE KbInv'
    OBVIOUS
<1> USE DEF KbInv
<1>1. PICK k \in DOMAIN kbs, size \in Sizes :
        /\ kbs' = [kbs EXCEPT ![k].size = size]
        /\ UNCHANGED <<docTables, documents, contents, madeKbs, madeDocs>>
    BY DEF KbUpdate
<1>2. DOMAIN kbs' = DOMAIN kbs /\ \A j \in DOMAIN kbs : j # k => kbs'[j] = kbs[j]
    BY <1>1
<1>3. kbs'[k] = [size |-> size, docs |-> kbs[k].docs, chunks |-> kbs[k].chunks]
    <2>1. kbs[k] = [size |-> kbs[k].size, docs |-> kbs[k].docs, chunks |-> kbs[k].chunks]
        OBVIOUS
    <2> QED
        BY <1>1, <2>1
<1>4. \A j \in DOMAIN kbs : kbs'[j].docs = kbs[j].docs /\ kbs'[j].chunks = kbs[j].chunks
    BY <1>2, <1>3
<1>5. StatsAgree'
    BY <1>1, <1>2, <1>4 DEF StatsAgree
<1> QED
    BY <1>1, <1>2, <1>3, <1>5

(* A knowledge base takes its documents and their texts with it.              *)
LEMMA KbDeletionKeeps == KbInv /\ KbDelete => KbInv'
<1> SUFFICES ASSUME KbInv, KbDelete PROVE KbInv'
    OBVIOUS
<1> USE DEF KbInv
<1>1. PICK k \in KbIds :
        /\ kbs' = Without(kbs, {k})
        /\ documents' = Without(documents, DocsOf(documents, k))
        /\ contents' = Without(contents, DocsOf(documents, k))
        /\ UNCHANGED <<madeKbs, madeDocs>>
    BY DEF KbDelete
<1>2. DOMAIN kbs' = DOMAIN kbs \ {k} /\ \A j \in DOMAIN kbs' : kbs'[j] = kbs[j]
    BY <1>1 DEF Without
<1>3. PICK docs : docs = Without(documents, DocsOf(documents, k))
    OBVIOUS
<1>4. /\ DOMAIN docs = DOMAIN documents \ DocsOf(documents, k)
      /\ \A d \in DOMAIN docs : docs[d] = documents[d] /\ docs[d].kb # k
    BY <1>3 DEF Without, DocsOf
<1>5. ASSUME NEW j \in DOMAIN kbs'
      PROVE  DocsOf(docs, j) = DocsOf(documents, j) /\ ChunksOf(docs, j) = ChunksOf(documents, j)
    <2>1. DocsOf(docs, j) = DocsOf(documents, j)
        BY <1>2, <1>4 DEF DocsOf
    <2>2. \A d \in DocsOf(documents, j) : docs[d].chunks = documents[d].chunks
        BY <1>4, <2>1 DEF DocsOf
    <2> QED
        BY <2>1, <2>2, SameChunks
<1>6. StatsAgree'
    <2>1. \A j \in DOMAIN kbs' : /\ kbs'[j].docs = Cardinality(DocsOf(docs, j))
                                /\ kbs'[j].chunks = Total(ChunksOf(docs, j))
        BY <1>2, <1>5 DEF StatsAgree
    <2>2. \A d \in DOMAIN docs : docs[d].kb \in DOMAIN kbs'
        BY <1>2, <1>4 DEF StatsAgree
    <2>3. DOMAIN contents' = DOMAIN docs
        BY <1>1, <1>4 DEF StatsAgree, Without
    <2> QED
        BY <1>1, <1>3, <2>1, <2>2, <2>3 DEF StatsAgree
<1> QED
    BY <1>1, <1>2, <1>3, <1>4, <1>6

LEMMA UploadKeeps == KbInv /\ DocUpload => KbInv'
<1> SUFFICES ASSUME KbInv, DocUpload PROVE KbInv'
    OBVIOUS
<1> USE DEF KbInv
<1>1. PICK k \in DOMAIN kbs, length \in TextLengths, own \in ChunkSizes \cup {0} :
        /\ madeDocs' = madeDocs + 1
        /\ LET size == IF own = 0 THEN kbs[k].size ELSE own IN
           documents' = Put(documents, madeDocs', [kb |-> k, chunks |-> Chunks(length, size)])
        /\ contents' = Put(contents, madeDocs', length)
        /\ kbs' = Refreshed(k, documents')
        /\ UNCHANGED madeKbs
    BY DEF DocUpload, Sizes
<1>2. PICK new, row, docs :
        /\ new = madeDocs + 1 /\ row = [kb |-> k, chunks |-> row.chunks]
        /\ docs = Put(documents, new, row) /\ documents' = docs /\ madeDocs' = new
    <2>1. PICK size : documents' = Put(documents, madeDocs', [kb |-> k, chunks |-> Chunks(length, size)])
        BY <1>1
    <2>2. PICK chunks : chunks = Chunks(length, size)
        OBVIOUS
    <2> QED
        BY <1>1, <2>1, <2>2
<1>3. new \in Nat /\ new \notin DOMAIN documents /\ DOMAIN documents \cup {new} \subseteq 1..new
    BY <1>2
<1>4. /\ DOMAIN docs = DOMAIN documents \cup {new} /\ docs[new] = row
      /\ \A d \in DOMAIN documents : docs[d] = documents[d]
    BY <1>2, <1>3 DEF Put
<1>5. \A j \in DOMAIN kbs : j # k => DocsOf(docs, j) = DocsOf(documents, j)
    BY <1>2, <1>4 DEF DocsOf
<1>6. \A j \in DOMAIN kbs : j # k =>
          \A d \in DocsOf(docs, j) : docs[d].chunks = documents[d].chunks
    BY <1>4, <1>5 DEF DocsOf
<1>7. \A d \in DOMAIN docs : /\ docs[d] = [kb |-> docs[d].kb, chunks |-> docs[d].chunks]
                            /\ docs[d].kb \in DOMAIN kbs
    BY <1>2, <1>4 DEF StatsAgree
<1>8. DOMAIN contents' = DOMAIN docs
    BY <1>1, <1>2, <1>4 DEF StatsAgree, Put
<1> QED
    BY <1>1, <1>2, <1>3, <1>4, <1>5, <1>6, <1>7, <1>8, RefreshMends

LEMMA DocDeleteKeeps == KbInv /\ DocDelete => KbInv'
<1> SUFFICES ASSUME KbInv, DocDelete PROVE KbInv'
    OBVIOUS
<1>0. /\ madeKbs \in Nat /\ madeDocs \in Nat /\ DOMAIN documents \subseteq 1..madeDocs /\ StatsAgree
      /\ \A d \in DOMAIN documents :
            documents[d] = [kb |-> documents[d].kb, chunks |-> documents[d].chunks]
    BY DEF KbInv
<1>1. PICK k \in KbIds : \E d \in DocsOf(documents, k) :
        /\ documents' = Without(documents, {d})
        /\ contents' = Without(contents, {d})
        /\ kbs' = Refreshed(k, documents')
        /\ UNCHANGED <<madeKbs, madeDocs>>
    BY DEF DocDelete
<1>2. PICK d, docs :
        /\ d \in DocsOf(documents, k)
        /\ docs = Without(documents, {d}) /\ documents' = docs
        /\ contents' = Without(contents, {d})
    BY <1>1
<1>3. /\ DOMAIN docs = DOMAIN documents \ {d} /\ documents[d].kb = k
      /\ \A e \in DOMAIN docs : docs[e] = documents[e]
    BY <1>2 DEF Without, DocsOf
<1>4. \A j \in DOMAIN kbs : j # k => DocsOf(docs, j) = DocsOf(documents, j)
    BY <1>3 DEF DocsOf
<1>5. \A j \in DOMAIN kbs : j # k =>
          \A e \in DocsOf(docs, j) : docs[e].chunks = documents[e].chunks
    BY <1>3, <1>4 DEF DocsOf
<1>6. \A e \in DOMAIN docs : /\ docs[e] = [kb |-> docs[e].kb, chunks |-> docs[e].chunks]
                            /\ docs[e].kb \in DOMAIN kbs
    BY <1>0, <1>3 DEF StatsAgree
<1>7. DOMAIN contents' = DOMAIN docs /\ DOMAIN docs \subseteq 1..madeDocs
    BY <1>0, <1>2, <1>3 DEF StatsAgree, Without
<1>8. kbs' = Refreshed(k, docs) /\ madeKbs' = madeKbs /\ madeDocs' = madeDocs
    BY <1>1, <1>2
<1>9. /\ documents' = docs /\ kbs' = Refreshed(k, docs)
      /\ madeDocs' \in Nat /\ madeKbs' = madeKbs /\ DOMAIN docs \subseteq 1..madeDocs'
    BY <1>0, <1>2, <1>7, <1>8
<1>10. \A j \in DOMAIN kbs : j # k => /\ DocsOf(docs, j) = DocsOf(documents, j)
                                    /\ \A e \in DocsOf(docs, j) : docs[e].chunks = documents[e].chunks
    BY <1>4, <1>5
<1> QED
    BY <1>6, <1>7, <1>9, <1>10, RefreshMends

LEMMA DocRefreshKeeps == KbInv /\ DocRefresh => KbInv'
<1> SUFFICES ASSUME KbInv, DocRefresh PROVE KbInv'
    OBVIOUS
<1>0. /\ madeKbs \in Nat /\ madeDocs \in Nat /\ DOMAIN documents \subseteq 1..madeDocs /\ StatsAgree
      /\ \A d \in DOMAIN documents :
            documents[d] = [kb |-> documents[d].kb, chunks |-> documents[d].chunks]
    BY DEF KbInv
<1>1. PICK k, d, chunks, docs :
        /\ k \in KbIds /\ d \in DocsOf(documents, k)
        /\ docs = [documents EXCEPT ![d].chunks = chunks] /\ documents' = docs
        /\ kbs' = Refreshed(k, docs)
        /\ UNCHANGED <<contents, madeKbs, madeDocs>>
    <2>1. PICK k \in KbIds : \E d \in DocsOf(documents, k) :
        /\ LET length == IF d \in DOMAIN contents THEN contents[d] ELSE 0
               size   == IF k \in DOMAIN kbs THEN kbs[k].size ELSE 0
           IN documents' = [documents EXCEPT ![d].chunks = Chunks(length, size)]
        /\ kbs' = Refreshed(k, documents')
        /\ UNCHANGED <<contents, madeKbs, madeDocs>>
        BY DEF DocRefresh
    <2>2. PICK d \in DocsOf(documents, k) : documents' = [documents EXCEPT ![d].chunks =
                  Chunks(IF d \in DOMAIN contents THEN contents[d] ELSE 0,
                         IF k \in DOMAIN kbs THEN kbs[k].size ELSE 0)]
        BY <2>1
    <2>3. PICK chunks : chunks = Chunks(IF d \in DOMAIN contents THEN contents[d] ELSE 0,
                                        IF k \in DOMAIN kbs THEN kbs[k].size ELSE 0)
        OBVIOUS
    <2>4. PICK docs : docs = [documents EXCEPT ![d].chunks = chunks]
        OBVIOUS
    <2>5. documents' = docs
        BY <2>2, <2>3, <2>4
    <2>6. kbs' = Refreshed(k, docs) /\ UNCHANGED <<contents, madeKbs, madeDocs>>
        BY <2>1, <2>5
    <2> QED
        BY <2>4, <2>5, <2>6
<1>2. d \in DOMAIN documents /\ documents[d].kb = k
    BY <1>1 DEF DocsOf
<1>3. /\ DOMAIN docs = DOMAIN documents /\ docs[d] = [kb |-> k, chunks |-> chunks]
      /\ \A e \in DOMAIN docs : e # d => docs[e] = documents[e]
    <2>1. documents[d] = [kb |-> documents[d].kb, chunks |-> documents[d].chunks]
        BY <1>0, <1>2
    <2> QED
        BY <1>1, <1>2, <2>1
<1>4. \A j \in DOMAIN kbs : j # k => DocsOf(docs, j) = DocsOf(documents, j)
    BY <1>2, <1>3 DEF DocsOf
<1>5. \A j \in DOMAIN kbs : j # k =>
          \A e \in DocsOf(docs, j) : docs[e].chunks = documents[e].chunks
    BY <1>3, <1>4 DEF DocsOf
<1>6. \A e \in DOMAIN docs : /\ docs[e] = [kb |-> docs[e].kb, chunks |-> docs[e].chunks]
                            /\ docs[e].kb \in DOMAIN kbs
    BY <1>0, <1>2, <1>3 DEF StatsAgree
<1>7. DOMAIN contents' = DOMAIN docs
    BY <1>0, <1>1, <1>3 DEF StatsAgree
<1>8. madeKbs' = madeKbs /\ madeDocs' = madeDocs /\ DOMAIN docs \subseteq 1..madeDocs'
    BY <1>0, <1>1, <1>3
<1>9. /\ documents' = docs /\ kbs' = Refreshed(k, docs)
      /\ madeDocs' \in Nat /\ madeKbs' = madeKbs /\ DOMAIN docs \subseteq 1..madeDocs'
    BY <1>0, <1>1, <1>8
<1>10. \A j \in DOMAIN kbs : j # k => /\ DocsOf(docs, j) = DocsOf(documents, j)
                                    /\ \A e \in DocsOf(docs, j) : docs[e].chunks = documents[e].chunks
    BY <1>4, <1>5
<1> QED
    BY <1>6, <1>7, <1>9, <1>10, RefreshMends

LEMMA KbInvHolds == KbSpec => []KbInv
<1>1. KbInv /\ DocLook => KbInv'
    BY DEF DocLook, KbInv, StatsAgree
<1>2. KbInv /\ UNCHANGED kbVars => KbInv'
    BY DEF kbVars, KbInv, StatsAgree
<1>3. KbInv /\ [KbNext]_kbVars => KbInv'
    BY <1>1, <1>2, KbCreateKeeps, KbUpdateKeeps, KbDeletionKeeps, UploadKeeps, DocDeleteKeeps,
       DocRefreshKeeps DEF KbNext
<1> QED
    BY <1>3, KbInitEstablishes, PTL DEF KbSpec

(* The counts a knowledge base shows are those of the documents it has, for   *)
(* any number of knowledge bases and documents, whatever was uploaded, cut    *)
(* anew or deleted before; and no document or text outlives its owner.        *)
THEOREM CountsAlwaysAgree == KbSpec => []StatsAgree
    BY KbInvHolds, PTL DEF KbInv

(* The sum of a finite number of counts is one.  The fold is a function that  *)
(* is defined by its own values: there is one, because there is one for the   *)
(* sets of up to n elements, whatever n.                                      *)
Picks(s) == CHOOSE x \in s : TRUE
Sums(counts, f) ==
    [s \in SUBSET DOMAIN counts |-> IF s = {} THEN 0 ELSE counts[Picks(s)] + f[s \ {Picks(s)}]]

LEMMA TotalIsSum ==
    ASSUME NEW counts
    PROVE  Total(counts) = (CHOOSE f : f = Sums(counts, f))[DOMAIN counts]
BY Zenon DEF Total, MapThenSumSet, MapThenFoldSet, Sums, Picks

LEMMA SumsExist ==
    ASSUME NEW counts, IsFiniteSet(DOMAIN counts)
    PROVE  \E f : f = Sums(counts, f)
<1> DEFINE S == DOMAIN counts
           Upto(n, f) == \A s \in SUBSET S : Cardinality(s) <= n => f[s] = Sums(counts, f)[s]
           Bad == {n \in Nat : ~ \E f : Upto(n, f)}
<1>1. \A s \in SUBSET S : IsFiniteSet(s) /\ Cardinality(s) \in Nat /\ (Cardinality(s) = 0 <=> s = {})
    BY FS_Subset, FS_CardinalityType, FS_EmptySet
<1>2. ASSUME NEW s \in SUBSET S, s # {}
      PROVE  Picks(s) \in s /\ s \ {Picks(s)} \in SUBSET S /\ Cardinality(s \ {Picks(s)}) = Cardinality(s) - 1
    <2>1. Picks(s) \in s
        BY <1>2 DEF Picks
    <2> QED
        BY <1>1, <2>1, FS_RemoveElement
<1>3. ASSUME NEW n \in Nat, NEW f, n > 0 => Upto(n - 1, f) PROVE Upto(n, Sums(counts, f))
    <2> DEFINE g == Sums(counts, f)
    <2> SUFFICES ASSUME NEW s \in SUBSET S, Cardinality(s) <= n PROVE g[s] = Sums(counts, g)[s]
        OBVIOUS
    <2>1. CASE s = {}
        BY <2>1 DEF Sums
    <2>2. CASE s # {}
        <3> DEFINE r == s \ {Picks(s)}
        <3>1. r \in SUBSET S /\ Cardinality(r) <= n - 1 /\ n > 0
            BY <1>1, <1>2, <2>2
        <3>2. f[r] = g[r]
            BY <1>3, <3>1
        <3>3. g[s] = counts[Picks(s)] + f[r] /\ Sums(counts, g)[s] = counts[Picks(s)] + g[r]
            BY <2>2 DEF Sums
        <3> QED
            BY <3>2, <3>3
    <2> QED
        BY <2>1, <2>2
<1>4. Bad = {}
    <2> SUFFICES ASSUME Bad # {} PROVE FALSE
        OBVIOUS
    <2>1. PICK n \in Bad : \A m \in Bad : n <= m
        BY LeastNumber
    <2>2. n \in Nat /\ ~ \E f : Upto(n, f)
        OBVIOUS
    <2>3. \E f : n > 0 => Upto(n - 1, f)
        <3>1. CASE n = 0
            BY <3>1
        <3>2. CASE n > 0
            <4>1. n - 1 \in Nat /\ n - 1 \notin Bad
                BY <2>1, <2>2, <3>2
            <4> QED
                BY <4>1
        <3> QED
            BY <2>2, <3>1, <3>2
    <2> HIDE DEF Upto
    <2> QED
        BY <1>3, <2>2, <2>3
<1>5. PICK f : Upto(Cardinality(S), f)
    BY <1>1, <1>4
<1>6. \A s \in SUBSET S : Cardinality(s) <= Cardinality(S)
    BY FS_Subset
<1>7. \A s \in SUBSET S : f[s] = Sums(counts, f)[s]
    BY <1>5, <1>6
<1> DEFINE g == [s \in SUBSET S |-> f[s]]
<1>8. g = Sums(counts, g)
    <2>1. \A s \in SUBSET S : Sums(counts, g)[s] = Sums(counts, f)[s]
        BY <1>2 DEF Sums
    <2>2. Sums(counts, g) = [s \in SUBSET S |-> Sums(counts, g)[s]]
        BY DEF Sums
    <2> QED
        BY <1>7, <2>1, <2>2
<1> QED
    BY <1>8

LEMMA TotalIsNat ==
    ASSUME NEW counts, IsFiniteSet(DOMAIN counts), \A d \in DOMAIN counts : counts[d] \in Nat
    PROVE  Total(counts) \in Nat
<1> DEFINE S == DOMAIN counts
           f == CHOOSE g : g = Sums(counts, g)
           Bad == {n \in Nat : \E s \in SUBSET S : Cardinality(s) = n /\ f[s] \notin Nat}
<1>1. f = Sums(counts, f)
    BY SumsExist
<1>2. Total(counts) = f[S]
    BY TotalIsSum
<1> HIDE DEF f
<1>3. \A s \in SUBSET S : IsFiniteSet(s) /\ Cardinality(s) \in Nat
    BY FS_Subset, FS_CardinalityType
<1>4. Bad = {}
    <2> SUFFICES ASSUME Bad # {} PROVE FALSE
        OBVIOUS
    <2>1. PICK n \in Bad : \A m \in Bad : n <= m
        BY LeastNumber
    <2>2. PICK s \in SUBSET S : Cardinality(s) = n /\ f[s] \notin Nat
        OBVIOUS
    <2>3. f[s] = IF s = {} THEN 0 ELSE counts[Picks(s)] + f[s \ {Picks(s)}]
        BY <1>1 DEF Sums
    <2>4. s # {}
        BY <2>2, <2>3
    <2>5. Picks(s) \in s
        BY <2>4 DEF Picks
    <2>6. s \ {Picks(s)} \in SUBSET S /\ Cardinality(s \ {Picks(s)}) = n - 1 /\ n - 1 \in Nat
        <3>1. IsFiniteSet(s) /\ Cardinality(s \ {Picks(s)}) = Cardinality(s) - 1
            BY <1>3, <2>5, FS_RemoveElement
        <3>2. s \ {Picks(s)} \in SUBSET S
            OBVIOUS
        <3>3. Cardinality(s \ {Picks(s)}) \in Nat
            BY <1>3, <3>2
        <3> QED
            BY <2>2, <3>1, <3>2, <3>3
    <2>7. f[s \ {Picks(s)}] \in Nat
        BY <2>1, <2>6
    <2> QED
        BY <2>2, <2>3, <2>4, <2>5, <2>7
<1> QED
    BY <1>2, <1>3, <1>4

(* What a knowledge base is typed by, besides its counts.                     *)
KbRest ==
    /\ docTables \subseteq KbIds /\ madeKbs \in 0..MaxKb /\ madeDocs \in 0..MaxDoc
    /\ \A k \in DOMAIN kbs : kbs[k].size \in Sizes
    /\ \A d \in DOMAIN documents : documents[d].kb \in docTables /\ documents[d].chunks \in Nat
    /\ \A d \in DOMAIN contents : contents[d] \in TextLengths

(* A text has chunks, whatever the size it is cut by.                         *)
LEMMA ChunksIsNat ==
    ASSUME NEW length \in Nat, NEW size \in Int
    PROVE  Chunks(length, size) \in Nat
<1> DEFINE chars == IF length = 0 THEN 1 ELSE length
           by    == IF size = 0 THEN DefaultSize ELSE size
<1>1. chars \in Nat /\ by \in Int /\ by # 0
    BY KbAssumption
<1>2. by > 0 => (chars + by - 1) \in Nat
    BY <1>1
<1>3. ASSUME NEW a \in Nat, NEW b \in Int, b > 0 PROVE a \div b \in Nat
    BY <1>3
<1>4. by > 0 => ((chars + by - 1) \div by) \in Nat
    BY <1>1, <1>2, <1>3
<1>5. Chunks(length, size) = IF by < 0 THEN 1 ELSE (chars + by - 1) \div by
    BY DEF Chunks
<1> HIDE DEF chars, by
<1> QED
    BY <1>1, <1>4, <1>5

(* Counting the documents anew changes no size.                               *)
LEMMA RefreshKeepsSizes ==
    ASSUME KbInv, KbRest, NEW k, NEW docs, kbs' = Refreshed(k, docs)
    PROVE  \A j \in DOMAIN kbs' : kbs'[j].size \in Sizes
<1>1. \A j \in DOMAIN kbs : kbs[j] = [size |-> kbs[j].size, docs |-> kbs[j].docs, chunks |-> kbs[j].chunks]
    BY DEF KbInv
<1>2. PICK n, t : n = Cardinality(DocsOf(docs, k)) /\ t = Total(ChunksOf(docs, k))
    OBVIOUS
<1>3. kbs' = IF k \notin DOMAIN kbs THEN kbs ELSE [kbs EXCEPT ![k].docs = n, ![k].chunks = t]
    BY <1>2 DEF Refreshed
<1>4. \A j \in DOMAIN kbs : kbs'[j].size = kbs[j].size
    BY <1>1, <1>3
<1>5. DOMAIN kbs' = DOMAIN kbs
    BY <1>3
<1> QED
    BY <1>4, <1>5 DEF KbRest

LEMMA KbRestKept == KbInv /\ KbRest /\ [KbNext]_kbVars => KbRest'
<1> SUFFICES ASSUME KbInv, KbRest, [KbNext]_kbVars PROVE KbRest'
    OBVIOUS
<1>0. /\ Sizes \subseteq Int /\ TextLengths \subseteq Nat /\ 0 \in Sizes
      /\ DOMAIN documents = DOMAIN contents
      /\ \A d \in DOMAIN documents :
            documents[d] = [kb |-> documents[d].kb, chunks |-> documents[d].chunks]
    BY KbAssumption DEF Sizes, KbInv, StatsAgree
<1>1. CASE KbCreate
    <2>1. PICK size, new :
            /\ size \in Sizes
            /\ madeKbs < MaxKb /\ new = madeKbs + 1 /\ madeKbs' = new
            /\ kbs' = Put(kbs, new, [size |-> size, docs |-> 0, chunks |-> 0])
            /\ docTables' = docTables \cup {new}
            /\ UNCHANGED <<documents, contents, madeDocs>>
        BY <1>1 DEF KbCreate
    <2>2. new \in KbIds /\ madeKbs' \in 0..MaxKb
        BY <2>1, KbAssumption DEF KbRest, KbIds
    <2>3. \A k \in DOMAIN kbs' : kbs'[k].size \in Sizes
        BY <2>1 DEF KbRest, Put
    <2> QED
        BY <2>1, <2>2, <2>3 DEF KbRest
<1>2. CASE KbUpdate
    <2>1. PICK k \in DOMAIN kbs, size \in Sizes :
            /\ kbs' = [kbs EXCEPT ![k].size = size]
            /\ UNCHANGED <<docTables, documents, contents, madeKbs, madeDocs>>
        BY <1>2 DEF KbUpdate
    <2>2. kbs[k] = [size |-> kbs[k].size, docs |-> kbs[k].docs, chunks |-> kbs[k].chunks]
        BY DEF KbInv
    <2>3. /\ DOMAIN kbs' = DOMAIN kbs /\ kbs'[k].size = size
          /\ \A j \in DOMAIN kbs : j # k => kbs'[j] = kbs[j]
        BY <2>1, <2>2
    <2> QED
        BY <2>1, <2>3 DEF KbRest
<1>3. CASE KbDelete
    <2>1. PICK k \in KbIds :
            /\ kbs' = Without(kbs, {k}) /\ docTables' = docTables \ {k}
            /\ documents' = Without(documents, DocsOf(documents, k))
            /\ contents' = Without(contents, DocsOf(documents, k))
            /\ UNCHANGED <<madeKbs, madeDocs>>
        BY <1>3 DEF KbDelete
    <2>2. \A d \in DOMAIN documents' :
              d \in DOMAIN documents /\ documents'[d] = documents[d] /\ documents[d].kb # k
        BY <2>1 DEF Without, DocsOf
    <2>3. /\ \A j \in DOMAIN kbs' : j \in DOMAIN kbs /\ kbs'[j] = kbs[j]
          /\ \A d \in DOMAIN contents' : d \in DOMAIN contents /\ contents'[d] = contents[d]
        BY <2>1 DEF Without
    <2> QED
        BY <2>1, <2>2, <2>3 DEF KbRest
<1>4. CASE DocUpload
    <2>1. PICK k \in DOMAIN kbs, length \in TextLengths, own \in Sizes :
            /\ madeDocs < MaxDoc /\ madeDocs' = madeDocs + 1
            /\ LET size == IF own <= 0 THEN kbs[k].size ELSE own IN
               documents' = Put(documents, madeDocs', [kb |-> k, chunks |-> Chunks(length, size)])
            /\ contents' = Put(contents, madeDocs', length)
            /\ kbs' = Refreshed(k, documents')
            /\ docTables' = docTables \cup {k}
            /\ UNCHANGED madeKbs
        BY <1>4 DEF DocUpload
    <2>2. PICK n : n = Chunks(length, IF own <= 0 THEN kbs[k].size ELSE own)
        OBVIOUS
    <2>3. n \in Nat
        BY <1>0, <2>1, <2>2, ChunksIsNat DEF KbRest
    <2>4. documents' = Put(documents, madeDocs', [kb |-> k, chunks |-> n])
        BY <2>1, <2>2
    <2>5. k \in KbIds
        BY KbAssumption DEF KbInv, KbRest, KbIds
    <2>6. \A d \in DOMAIN documents' : documents'[d].kb \in docTables' /\ documents'[d].chunks \in Nat
        BY <2>1, <2>3, <2>4 DEF KbRest, Put
    <2>7. \A d \in DOMAIN contents' : contents'[d] \in TextLengths
        BY <2>1 DEF KbRest, Put
    <2>8. \A j \in DOMAIN kbs' : kbs'[j].size \in Sizes
        BY <2>1, RefreshKeepsSizes
    <2>9. madeDocs' \in 0..MaxDoc
        BY <2>1, KbAssumption DEF KbRest
    <2> QED
        BY <2>1, <2>5, <2>6, <2>7, <2>8, <2>9 DEF KbRest
<1>5. CASE DocLook
    BY <1>5 DEF DocLook, KbRest
<1>6. CASE DocDelete
    <2>1. PICK k \in KbIds : \E d \in DocsOf(documents, k) :
            /\ documents' = Without(documents, {d})
            /\ contents' = Without(contents, {d})
            /\ kbs' = Refreshed(k, documents')
            /\ UNCHANGED <<docTables, madeKbs, madeDocs>>
        BY <1>6 DEF DocDelete
    <2>2. PICK d : documents' = Without(documents, {d}) /\ contents' = Without(contents, {d})
        BY <2>1
    <2>3. /\ \A e \in DOMAIN documents' : e \in DOMAIN documents /\ documents'[e] = documents[e]
          /\ \A e \in DOMAIN contents' : e \in DOMAIN contents /\ contents'[e] = contents[e]
        BY <2>2 DEF Without
    <2>4. \A j \in DOMAIN kbs' : kbs'[j].size \in Sizes
        BY <2>1, RefreshKeepsSizes
    <2> QED
        BY <2>1, <2>3, <2>4 DEF KbRest
<1>7. CASE DocRefresh
    <2>1. PICK k \in KbIds : \E d \in DocsOf(documents, k) :
            /\ LET length == IF d \in DOMAIN contents THEN contents[d] ELSE 0
                   size   == IF k \in DOMAIN kbs THEN kbs[k].size ELSE 0
               IN documents' = [documents EXCEPT ![d].chunks = Chunks(length, size)]
            /\ kbs' = Refreshed(k, documents')
            /\ UNCHANGED <<docTables, contents, madeKbs, madeDocs>>
        BY <1>7 DEF DocRefresh
    <2>2. PICK d \in DocsOf(documents, k) : documents' = [documents EXCEPT ![d].chunks =
                  Chunks(IF d \in DOMAIN contents THEN contents[d] ELSE 0,
                         IF k \in DOMAIN kbs THEN kbs[k].size ELSE 0)]
        BY <2>1
    <2>3. PICK n : n = Chunks(IF d \in DOMAIN contents THEN contents[d] ELSE 0,
                              IF k \in DOMAIN kbs THEN kbs[k].size ELSE 0)
        OBVIOUS
    <2>4. n \in Nat
        BY <1>0, <2>3, ChunksIsNat DEF KbRest
    <2>5. documents' = [documents EXCEPT ![d].chunks = n]
        BY <2>2, <2>3
    <2>6. d \in DOMAIN documents
              /\ documents[d] = [kb |-> documents[d].kb, chunks |-> documents[d].chunks]
        BY <1>0 DEF DocsOf
    <2>7. /\ DOMAIN documents' = DOMAIN documents
          /\ \A e \in DOMAIN documents : documents'[e].kb = documents[e].kb
          /\ documents'[d].chunks = n
          /\ \A e \in DOMAIN documents : e # d => documents'[e] = documents[e]
        BY <2>5, <2>6
    <2>8. \A j \in DOMAIN kbs' : kbs'[j].size \in Sizes
        BY <2>1, RefreshKeepsSizes
    <2> QED
        BY <2>1, <2>4, <2>7, <2>8 DEF KbRest
<1>8. CASE UNCHANGED kbVars
    BY <1>8 DEF kbVars, KbRest
<1> QED
    BY <1>1, <1>2, <1>3, <1>4, <1>5, <1>6, <1>7, <1>8 DEF KbNext

LEMMA KbRestHolds == KbSpec => []KbRest
<1>1. KbInit => KbRest
    BY KbAssumption DEF KbInit, KbRest
<1> QED
    BY <1>1, KbRestKept, KbInvHolds, PTL DEF KbSpec

(* The counts of knowledge bases and of chunks are numbers, and there are no  *)
(* more documents than were ever made.                                        *)
THEOREM KbTyped == KbSpec => []KbTypeOK
<1>1. ASSUME KbInv, KbRest, NEW k \in DOMAIN kbs
      PROVE  kbs[k].docs \in 0..MaxDoc /\ kbs[k].chunks \in Nat
    <2>1. DocsOf(documents, k) \in SUBSET (1..MaxDoc)
        BY <1>1, KbAssumption DEF KbInv, KbRest, DocsOf
    <2>2. IsFiniteSet(1..MaxDoc) /\ Cardinality(1..MaxDoc) = MaxDoc
        BY KbAssumption, FS_Interval
    <2>3. /\ IsFiniteSet(DocsOf(documents, k)) /\ Cardinality(DocsOf(documents, k)) \in Nat
          /\ Cardinality(DocsOf(documents, k)) <= MaxDoc
        BY <2>1, <2>2, FS_Subset, FS_CardinalityType
    <2>4. /\ DOMAIN ChunksOf(documents, k) = DocsOf(documents, k)
          /\ \A d \in DocsOf(documents, k) : ChunksOf(documents, k)[d] \in Nat
        BY <1>1 DEF ChunksOf, DocsOf, KbRest
    <2>5. Total(ChunksOf(documents, k)) \in Nat
        BY <2>3, <2>4, TotalIsNat
    <2>6. /\ kbs[k].docs = Cardinality(DocsOf(documents, k))
          /\ kbs[k].chunks = Total(ChunksOf(documents, k))
        BY <1>1 DEF KbInv, StatsAgree
    <2> QED
        BY <2>3, <2>5, <2>6, KbAssumption
<1>2. KbInv /\ KbRest => KbTypeOK
    BY <1>1 DEF KbInv, KbRest, KbTypeOK
<1> QED
    BY <1>2, KbInvHolds, KbRestHolds, PTL

-----------------------------------------------------------------------------
(* Providers. *)
ProvInv == ProvTypeOK /\ UsingKnown /\ WatcherKnows

(* What stays of a list are the providers that are not unloaded.              *)
LEMMA UnloadedHolds ==
    ASSUME NEW items \in Seq(ProviderIds), NEW gone
    PROVE  /\ Unloaded(items, gone) \in Seq(ProviderIds)
           /\ Len(Unloaded(items, gone)) <= Len(items)
           /\ Range(Unloaded(items, gone)) = Range(items) \ gone
<1>1. PICK places \in SUBSET DOMAIN items :
          places = {n \in DOMAIN items : items[n] \notin gone}
    OBVIOUS
<1>0. PICK left : left = Picked(items, places)
    OBVIOUS
<1>2. /\ left \in Seq(ProviderIds) /\ Len(left) = Cardinality(places)
      /\ Cardinality(places) \in 0..Len(items)
      /\ \A n \in DOMAIN left : Nth(places, n) \in places /\ left[n] = items[Nth(places, n)]
      /\ \A i \in places : \E n \in DOMAIN left : Nth(places, n) = i
    BY <1>0, PickedHolds
<1>3. \A x \in Range(left) : x \in Range(items) /\ x \notin gone
    BY <1>1, <1>2 DEF Range
<1>4. \A i \in places : items[i] \in Range(left)
    <2> SUFFICES ASSUME NEW i \in places PROVE items[i] \in Range(left)
        OBVIOUS
    <2>1. PICK n \in DOMAIN left : Nth(places, n) = i
        BY <1>2
    <2>2. left[n] = items[i]
        BY <1>2, <2>1
    <2> QED
        BY <2>2 DEF Range
<1>5. Range(left) = Range(items) \ gone
    BY <1>1, <1>3, <1>4 DEF Range
<1>6. Unloaded(items, gone) = left
    BY <1>0, <1>1 DEF Unloaded
<1> QED
    BY <1>2, <1>5, <1>6

LEMMA ReloadedHolds ==
    ASSUME NEW items \in Seq(ProviderIds), NEW p \in ProviderIds
    PROVE  /\ Reloaded(items, p) \in Seq(ProviderIds)
           /\ Range(Reloaded(items, p)) = Range(items) \cup {p}
<1>1. PICK left \in Seq(ProviderIds) : left = Unloaded(items, {p}) /\ Range(left) = Range(items) \ {p}
    BY UnloadedHolds
<1>2. Append(left, p) \in Seq(ProviderIds) /\ Range(Append(left, p)) = Range(left) \cup {p}
    BY RangesHold
<1> QED
    BY <1>1, <1>2 DEF Reloaded

LEMMA FirstHolds ==
    ASSUME NEW items \in Seq(ProviderIds)
    PROVE  \/ FirstOf(items) = NoProvider
           \/ FirstOf(items) \in ProviderIds /\ FirstOf(items) \in Range(items)
<1>1. CASE items = <<>>
    BY <1>1 DEF FirstOf
<1>2. CASE items # <<>>
    <2>1. 1 \in DOMAIN items /\ items[1] \in ProviderIds
        BY <1>2
    <2> QED
        BY <1>2, <2>1 DEF FirstOf, Range
<1> QED
    BY <1>1, <1>2
LEMMA LoadedIs ==
    ASSUME NEW cat, NEW p
    PROVE  p \in Loaded(cat) <=> \E k \in Kinds : p \in Range(cat[k])
BY DEF Loaded

LEMMA ProvFacts == Cardinality(ProviderIds) \in Nat /\ Cardinality(ProviderIds) >= 1
<1>1. PICK k \in Kinds : TRUE
    BY ProvidersAssumption
<1>2. ProviderIds # {} /\ IsFiniteSet(ProviderIds)
    BY <1>1, ProvidersAssumption
<1>3. Cardinality(ProviderIds) \in Nat /\ Cardinality(ProviderIds) # 0
    BY <1>2, FS_CardinalityType, FS_EmptySet
<1> QED
    BY <1>3

LEMMA ProvInitEstablishes == ProvInit => ProvInv
<1> SUFFICES ASSUME ProvInit PROVE ProvInv
    OBVIOUS
<1>1. \A k \in Kinds : FirstLoaded[k] \in ProviderIds
    BY ProvidersAssumption
<1>2. \A k \in Kinds : /\ catalog[k] \in Seq(ProviderIds) /\ Len(catalog[k]) = 1
                      /\ Range(catalog[k]) = {FirstLoaded[k]}
    BY <1>1 DEF ProvInit, Range
<1>3. catalog \in [Kinds -> Seq(ProviderIds)]
    BY <1>1 DEF ProvInit
<1>4. \A p \in Range(FirstLoaded) : p \in ProviderIds /\ \E k \in Kinds : FirstLoaded[k] = p
    BY ProvidersAssumption DEF Range
<1>5. /\ DOMAIN configs = Range(FirstLoaded) /\ DOMAIN configs \subseteq ProviderIds
      /\ \A p \in DOMAIN configs : configs[p] \in Config
    <2>1. DOMAIN configs = Range(FirstLoaded) /\ DOMAIN configs \subseteq ProviderIds
        BY <1>4 DEF ProvInit
    <2>2. ASSUME NEW p \in Range(FirstLoaded) PROVE configs[p] \in Config
        <3>1. PICK kind \in Kinds : kind = CHOOSE k \in Kinds : FirstLoaded[k] = p
            BY <1>4
        <3>2. configs[p] = [kind |-> kind, enable |-> TRUE, source |-> NoSource]
            BY <3>1 DEF ProvInit
        <3> QED
            BY <3>2, ProvidersAssumption DEF Config
    <2> QED
        BY <2>1, <2>2
<1>6. /\ using \in [Kinds -> ProviderIds \cup {NoProvider}]
      /\ told \in Seq(ProviderIds) /\ Len(told) = 0
      /\ mirror \subseteq ProviderIds /\ renamed \subseteq ProviderIds
    BY <1>4, ProvidersAssumption DEF ProvInit
<1>7. Len(told) < MaxUntold + Cardinality(ProviderIds)
    BY <1>6, ProvFacts, ProvidersAssumption
<1>8. ProvTypeOK
    BY <1>2, <1>3, <1>5, <1>6, <1>7, ProvidersAssumption DEF ProvTypeOK
<1>9. UsingKnown
    BY <1>5, ProvidersAssumption DEF UsingKnown, ProvInit, Range
<1>10. \A p : p \in Loaded(catalog) <=> p \in Range(FirstLoaded)
    <2>1. ASSUME NEW p PROVE p \in Loaded(catalog) <=> \E k \in Kinds : p = FirstLoaded[k]
        <3>1. p \in Loaded(catalog) <=> \E k \in Kinds : p \in Range(catalog[k])
            BY LoadedIs
        <3>2. \A k \in Kinds : p \in Range(catalog[k]) <=> p = FirstLoaded[k]
            BY <1>2
        <3> QED
            BY <3>1, <3>2
    <2>2. ASSUME NEW p PROVE p \in Range(FirstLoaded) <=> \E k \in Kinds : p = FirstLoaded[k]
        BY ProvidersAssumption DEF Range
    <2> QED
        BY <2>1, <2>2
<1>11. WatcherKnows
    BY <1>10 DEF WatcherKnows, ProvInit
<1> QED
    BY <1>8, <1>9, <1>11 DEF ProvInv

(* A change that is told: the queue keeps its bound, and the watcher is right *)
(* about every provider whose event is not waiting.                           *)
LEMMA ToldKeeps ==
    ASSUME ProvInv, NEW ids \in Seq(ProviderIds), Len(ids) <= Cardinality(ProviderIds),
           TellWatcher(ids), mirror' = mirror, renamed \subseteq renamed',
           \A p : p \notin Range(ids) /\ p \notin renamed' =>
                    (p \in Loaded(catalog)' <=> p \in Loaded(catalog))
    PROVE  /\ told' \in Seq(ProviderIds) /\ Len(told') < MaxUntold + Cardinality(ProviderIds)
           /\ WatcherKnows'
<1>1. told \in Seq(ProviderIds) /\ WatcherKnows
    BY DEF ProvInv, ProvTypeOK
<1>2. Len(told) < MaxUntold /\ told' = told \o ids
    BY DEF TellWatcher
<1>3. told' \in Seq(ProviderIds) /\ Len(told') = Len(told) + Len(ids)
    BY <1>1, <1>2
<1>4. PICK m \in Nat, n \in Nat, c \in Nat, u \in Nat :
          m = Len(told) /\ n = Len(ids) /\ c = Cardinality(ProviderIds) /\ u = MaxUntold
    BY <1>1, ProvFacts, ProvidersAssumption
<1>5. Len(told') < MaxUntold + Cardinality(ProviderIds)
    BY <1>2, <1>3, <1>4
<1>6. Range(told') = Range(told) \cup Range(ids)
    BY <1>1, <1>2, RangesHold
<1>7. WatcherKnows'
    <2> SUFFICES ASSUME NEW p \in ProviderIds, p \notin renamed', p \notin Range(told')
                 PROVE  p \in mirror' <=> p \in Loaded(catalog)'
        BY DEF WatcherKnows
    <2>1. p \notin renamed /\ p \notin Range(told) /\ p \notin Range(ids)
        BY <1>6
    <2> QED
        BY <1>1, <2>1 DEF WatcherKnows
<1> QED
    BY <1>3, <1>5, <1>7

(* The event of one provider.                                                 *)
LEMMA OneTold ==
    ASSUME NEW p \in ProviderIds
    PROVE  /\ <<p>> \in Seq(ProviderIds) /\ Len(<<p>>) <= Cardinality(ProviderIds)
           /\ Range(<<p>>) = {p}
BY ProvFacts DEF Range

LEMMA ProvSetKeeps == ProvInv /\ ProvSet => ProvInv'
<1> SUFFICES ASSUME ProvInv, ProvSet PROVE ProvInv'
    OBVIOUS
<1>1. ProvTypeOK /\ UsingKnown
    BY DEF ProvInv
<1>2. PICK k \in Kinds, p \in ProviderIds :
        /\ LoadedAs(k, p) /\ using' = [using EXCEPT ![k] = p] /\ TellWatcher(<<p>>)
        /\ UNCHANGED <<catalog, configs, mirror, renamed>>
    BY DEF ProvSet
<1>3. Loaded(catalog)' = Loaded(catalog)
    BY <1>2
<1>4. /\ told' \in Seq(ProviderIds) /\ Len(told') < MaxUntold + Cardinality(ProviderIds)
      /\ WatcherKnows'
    BY <1>2, <1>3, OneTold, ToldKeeps
<1>5. ProvTypeOK'
    BY <1>1, <1>2, <1>4 DEF ProvTypeOK
<1>6. UsingKnown'
    BY <1>1, <1>2 DEF UsingKnown, LoadedAs, ProvTypeOK
<1> QED
    BY <1>4, <1>5, <1>6 DEF ProvInv

(* A list of one kind that has got one provider more.                         *)
LEMMA ProvLoadKeeps == ProvInv /\ ProvLoad => ProvInv'
<1> SUFFICES ASSUME ProvInv, ProvLoad PROVE ProvInv'
    OBVIOUS
<1>1. ProvTypeOK /\ UsingKnown
    BY DEF ProvInv
<1>2. PICK k \in Kinds, p \in ProviderIds :
        /\ catalog' = [catalog EXCEPT ![k] = Reloaded(catalog[k], p)]
        /\ Len(catalog'[k]) <= MaxLoaded /\ TellWatcher(<<p>>)
        /\ UNCHANGED <<configs, using, mirror, renamed>>
    BY DEF ProvLoad
<1>3. PICK items : items = Reloaded(catalog[k], p)
    OBVIOUS
<1>4. items \in Seq(ProviderIds) /\ Range(items) = Range(catalog[k]) \cup {p}
    BY <1>1, <1>3, ReloadedHolds DEF ProvTypeOK
<1>5. /\ catalog' \in [Kinds -> Seq(ProviderIds)] /\ catalog'[k] = items
      /\ \A j \in Kinds : j # k => catalog'[j] = catalog[j]
    BY <1>1, <1>2, <1>3, <1>4 DEF ProvTypeOK
<1>6. \A q : q # p => (q \in Loaded(catalog)' <=> q \in Loaded(catalog))
    BY <1>4, <1>5, LoadedIs DEF Loaded
<1>7. /\ told' \in Seq(ProviderIds) /\ Len(told') < MaxUntold + Cardinality(ProviderIds)
      /\ WatcherKnows'
    BY <1>2, <1>6, OneTold, ToldKeeps
<1>8. ProvTypeOK'
    BY <1>1, <1>2, <1>5, <1>7 DEF ProvTypeOK
<1>9. UsingKnown'
    BY <1>1, <1>2, <1>4, <1>5 DEF UsingKnown, LoadedAs
<1> QED
    BY <1>7, <1>8, <1>9 DEF ProvInv

(* A list of one kind that has lost one provider: the first of what is left   *)
(* is used instead of it.                                                     *)
LEMMA ProvTerminateKeeps == ProvInv /\ ProvTerminate => ProvInv'
<1> SUFFICES ASSUME ProvInv, ProvTerminate PROVE ProvInv'
    OBVIOUS
<1>1. ProvTypeOK /\ UsingKnown
    BY DEF ProvInv
<1>2. PICK p \in ProviderIds :
        /\ catalog' = [catalog EXCEPT ![KindOf(p)] = Unloaded(catalog[KindOf(p)], {p})]
        /\ using' = IF using[KindOf(p)] = p
                    THEN [using EXCEPT ![KindOf(p)] = FirstOf(catalog'[KindOf(p)])] ELSE using
        /\ TellWatcher(<<p>>) /\ UNCHANGED <<configs, mirror, renamed>>
    BY DEF ProvTerminate
<1>3. PICK k : k = KindOf(p)
    OBVIOUS
<1>4. PICK items : items = Unloaded(catalog[k], {p})
    OBVIOUS
<1>5. /\ catalog' = [catalog EXCEPT ![k] = items]
      /\ using' = IF using[k] = p THEN [using EXCEPT ![k] = FirstOf(catalog'[k])] ELSE using
    BY <1>2, <1>3, <1>4
<1>6. k \in Kinds => /\ items \in Seq(ProviderIds) /\ Len(items) <= Len(catalog[k])
                     /\ Range(items) = Range(catalog[k]) \ {p}
    BY <1>1, <1>4, UnloadedHolds DEF ProvTypeOK
<1>7. /\ catalog' \in [Kinds -> Seq(ProviderIds)]
      /\ k \in Kinds => catalog'[k] = items
      /\ \A j \in Kinds : j # k => catalog'[j] = catalog[j]
    BY <1>1, <1>5, <1>6 DEF ProvTypeOK
<1>8. \A j \in Kinds : Len(catalog'[j]) <= MaxLoaded
    <2> SUFFICES ASSUME NEW j \in Kinds PROVE Len(catalog'[j]) <= MaxLoaded
        OBVIOUS
    <2>1. catalog[j] \in Seq(ProviderIds) /\ Len(catalog[j]) \in Nat /\ Len(catalog[j]) <= MaxLoaded
        BY <1>1 DEF ProvTypeOK
    <2>2. Len(catalog'[j]) \in Nat /\ Len(catalog'[j]) <= Len(catalog[j])
        BY <1>6, <1>7, <2>1
    <2>3. PICK n \in Nat : n = MaxLoaded
        BY ProvidersAssumption
    <2> QED
        BY <2>1, <2>2, <2>3
<1>9. \A q : q # p => (q \in Loaded(catalog)' <=> q \in Loaded(catalog))
    BY <1>6, <1>7, LoadedIs DEF Loaded
<1>10. /\ told' \in Seq(ProviderIds) /\ Len(told') < MaxUntold + Cardinality(ProviderIds)
       /\ WatcherKnows'
    BY <1>2, <1>9, OneTold, ToldKeeps
<1>11. ASSUME NEW j \in Kinds
       PROVE  /\ using'[j] \in ProviderIds \cup {NoProvider}
              /\ using'[j] # NoProvider =>
                    using'[j] \in DOMAIN configs \/ using'[j] \in Range(catalog'[j])
    <2>1. /\ using \in [Kinds -> ProviderIds \cup {NoProvider}]
          /\ using[j] # NoProvider => using[j] \in DOMAIN configs \/ using[j] \in Range(catalog[j])
        BY <1>1 DEF ProvTypeOK, UsingKnown, LoadedAs
    <2>2. CASE j # k
        BY <1>5, <1>7, <2>1, <2>2
    <2>3. CASE j = k /\ using[k] # p
        BY <1>5, <1>6, <1>7, <2>1, <2>3
    <2>4. CASE j = k /\ using[k] = p
        BY <1>5, <1>6, <1>7, <2>1, <2>4, FirstHolds
    <2> QED
        BY <2>2, <2>3, <2>4
<1>12. using' \in [Kinds -> ProviderIds \cup {NoProvider}]
    BY <1>1, <1>5, <1>11 DEF ProvTypeOK
<1>13. ProvTypeOK'
    BY <1>1, <1>2, <1>7, <1>8, <1>10, <1>12 DEF ProvTypeOK
<1>14. UsingKnown'
    BY <1>2, <1>11 DEF UsingKnown, LoadedAs
<1> QED
    BY <1>10, <1>13, <1>14 DEF ProvInv

(* A configuration that is stored or dropped changes no other.                *)
LEMMA ConfigsHold ==
    ASSUME NEW f, DOMAIN f \subseteq ProviderIds, \A q \in DOMAIN f : f[q] \in Config,
           NEW gone, NEW p \in ProviderIds, NEW c \in Config
    PROVE  /\ DOMAIN Dropped(f, gone) = DOMAIN f \ gone
           /\ \A q \in DOMAIN Dropped(f, gone) : Dropped(f, gone)[q] \in Config
           /\ DOMAIN Stored(f, p, c) = DOMAIN f \cup {p}
           /\ \A q \in DOMAIN Stored(f, p, c) : Stored(f, p, c)[q] \in Config
BY DEF Dropped, Stored

(* What is stored is known, whether or not it is loaded as well.              *)
LEMMA ProvCreateKeeps == ProvInv /\ ProvCreate => ProvInv'
<1> SUFFICES ASSUME ProvInv, ProvCreate PROVE ProvInv'
    OBVIOUS
<1>1. ProvTypeOK /\ UsingKnown
    BY DEF ProvInv
<1>2. PICK p \in ProviderIds, c \in Config :
        /\ configs' = Stored(configs, p, c)
        /\ catalog' = IF c.enable THEN [catalog EXCEPT ![c.kind] = Reloaded(catalog[c.kind], p)]
                      ELSE catalog
        /\ Len(catalog'[c.kind]) <= MaxLoaded /\ TellWatcher(<<p>>)
        /\ UNCHANGED <<using, mirror, renamed>>
    BY DEF ProvCreate
<1>3. PICK k \in Kinds : k = c.kind
    BY DEF Config
<1>4. PICK items : items = Reloaded(catalog[k], p)
    OBVIOUS
<1>5. items \in Seq(ProviderIds) /\ Range(items) = Range(catalog[k]) \cup {p}
    BY <1>1, <1>4, ReloadedHolds DEF ProvTypeOK
<1>6. /\ catalog' \in [Kinds -> Seq(ProviderIds)]
      /\ catalog'[k] = items \/ catalog'[k] = catalog[k]
      /\ \A j \in Kinds : j # k => catalog'[j] = catalog[j]
      /\ Len(catalog'[k]) <= MaxLoaded
    <2>1. Len(catalog'[k]) <= MaxLoaded
        BY <1>2, <1>3
    <2>2. CASE c.enable
        <3>1. catalog' = [catalog EXCEPT ![k] = items]
            BY <1>2, <1>3, <1>4, <2>2
        <3> QED
            BY <1>1, <1>5, <2>1, <3>1 DEF ProvTypeOK
    <2>3. CASE ~c.enable
        <3>1. catalog' = catalog
            BY <1>2, <2>3
        <3> QED
            BY <1>1, <2>1, <3>1 DEF ProvTypeOK
    <2> QED
        BY <2>2, <2>3
<1>7. \A q : q # p => (q \in Loaded(catalog)' <=> q \in Loaded(catalog))
    BY <1>5, <1>6, LoadedIs DEF Loaded
<1>8. /\ told' \in Seq(ProviderIds) /\ Len(told') < MaxUntold + Cardinality(ProviderIds)
      /\ WatcherKnows'
    BY <1>2, <1>7, OneTold, ToldKeeps
<1>9. /\ DOMAIN configs' = DOMAIN configs \cup {p}
      /\ \A q \in DOMAIN configs' : configs'[q] \in Config
    BY <1>1, <1>2, ConfigsHold DEF ProvTypeOK
<1>10. ProvTypeOK'
    BY <1>1, <1>2, <1>6, <1>8, <1>9 DEF ProvTypeOK
<1>11. UsingKnown'
    BY <1>1, <1>2, <1>5, <1>6, <1>9 DEF UsingKnown, LoadedAs
<1> QED
    BY <1>8, <1>10, <1>11 DEF ProvInv

(* The origin is loaded as nothing and in use for nothing; the target, which  *)
(* may take its place, is stored.                                             *)
LEMMA ProvUpdateKeeps == ProvInv /\ ProvUpdate => ProvInv'
<1> SUFFICES ASSUME ProvInv, ProvUpdate PROVE ProvInv'
    OBVIOUS
<1>1. ProvTypeOK /\ UsingKnown
    BY DEF ProvInv
<1>2. PICK origin \in ProviderIds, target \in ProviderIds, c \in Config :
        /\ configs' = Stored(Dropped(configs, {origin}), target, c)
        /\ catalog' = [k \in Kinds |->
              IF c.enable /\ k = c.kind THEN Append(Unloaded(catalog[k], {origin}), target)
              ELSE Unloaded(catalog[k], {origin})]
        /\ \A k \in Kinds : Len(catalog'[k]) <= MaxLoaded
        /\ using' = [k \in Kinds |->
              IF using[k] # origin THEN using[k]
              ELSE IF k = c.kind THEN target ELSE NoProvider]
        /\ TellWatcher(<<target>>)
        /\ renamed' = renamed \cup ({origin} \ {target})
        /\ UNCHANGED mirror
    BY DEF ProvUpdate
<1>3. ASSUME NEW k \in Kinds
      PROVE  /\ catalog'[k] \in Seq(ProviderIds)
             /\ \/ Range(catalog'[k]) = Range(catalog[k]) \ {origin}
                \/ Range(catalog'[k]) = (Range(catalog[k]) \ {origin}) \cup {target}
    <2>1. PICK left \in Seq(ProviderIds) :
              left = Unloaded(catalog[k], {origin}) /\ Range(left) = Range(catalog[k]) \ {origin}
        BY <1>1, UnloadedHolds DEF ProvTypeOK
    <2>2. Append(left, target) \in Seq(ProviderIds) /\ Range(Append(left, target)) = Range(left) \cup {target}
        BY RangesHold
    <2>3. catalog'[k] = left \/ catalog'[k] = Append(left, target)
        BY <1>2, <2>1
    <2> QED
        BY <2>1, <2>2, <2>3
<1>4. catalog' \in [Kinds -> Seq(ProviderIds)]
    BY <1>2, <1>3
<1>5. \A q : q # target /\ q \notin renamed' => (q \in Loaded(catalog)' <=> q \in Loaded(catalog))
    <2> SUFFICES ASSUME NEW q, q # target, q \notin renamed'
                 PROVE  q \in Loaded(catalog)' <=> q \in Loaded(catalog)
        OBVIOUS
    <2>1. q # origin
        BY <1>2
    <2>2. \A k \in Kinds : q \in Range(catalog'[k]) <=> q \in Range(catalog[k])
        BY <1>3, <2>1
    <2> QED
        BY <2>2, LoadedIs DEF Loaded
<1>6. /\ told' \in Seq(ProviderIds) /\ Len(told') < MaxUntold + Cardinality(ProviderIds)
      /\ WatcherKnows'
    <2>1. \A q : q \notin Range(<<target>>) /\ q \notin renamed' =>
                     (q \in Loaded(catalog)' <=> q \in Loaded(catalog))
        BY <1>5, OneTold
    <2> QED
        BY <1>2, <2>1, OneTold, ToldKeeps
<1>7. /\ DOMAIN configs' = (DOMAIN configs \ {origin}) \cup {target}
      /\ \A q \in DOMAIN configs' : configs'[q] \in Config
    <2>1. PICK f : f = Dropped(configs, {origin})
        OBVIOUS
    <2>2. DOMAIN f = DOMAIN configs \ {origin} /\ \A q \in DOMAIN f : f[q] \in Config
        BY <1>1, <2>1, ConfigsHold DEF ProvTypeOK
    <2>3. DOMAIN f \subseteq ProviderIds
        BY <1>1, <2>2 DEF ProvTypeOK
    <2>4. configs' = Stored(f, target, c)
        BY <1>2, <2>1
    <2>5. /\ DOMAIN Stored(f, target, c) = DOMAIN f \cup {target}
          /\ \A q \in DOMAIN Stored(f, target, c) : Stored(f, target, c)[q] \in Config
        BY <2>2, <2>3, ConfigsHold
    <2> QED
        BY <2>2, <2>4, <2>5
<1>8. ASSUME NEW k \in Kinds
      PROVE  /\ using'[k] \in ProviderIds \cup {NoProvider}
             /\ using'[k] # NoProvider =>
                   using'[k] \in DOMAIN configs' \/ using'[k] \in Range(catalog'[k])
    <2>1. /\ using[k] \in ProviderIds \cup {NoProvider}
          /\ using[k] # NoProvider => using[k] \in DOMAIN configs \/ using[k] \in Range(catalog[k])
        BY <1>1 DEF ProvTypeOK, UsingKnown, LoadedAs
    <2>2. CASE using[k] # origin
        <3>1. using'[k] = using[k]
            BY <1>2, <2>2
        <3> QED
            BY <1>3, <1>7, <2>1, <2>2, <3>1
    <2>3. CASE using[k] = origin
        <3>1. using'[k] = target \/ using'[k] = NoProvider
            BY <1>2, <2>3
        <3> QED
            BY <1>7, <3>1
    <2> QED
        BY <2>2, <2>3
<1>9. using' \in [Kinds -> ProviderIds \cup {NoProvider}]
    BY <1>2, <1>8
<1>10. ProvTypeOK'
    BY <1>1, <1>2, <1>4, <1>6, <1>7, <1>9 DEF ProvTypeOK
<1>11. UsingKnown'
    BY <1>8 DEF UsingKnown, LoadedAs
<1> QED
    BY <1>6, <1>10, <1>11 DEF ProvInv

(* Providers that are removed for good are in use for nothing, and the        *)
(* watcher is told of each.                                                   *)
LEMMA ProvRemoveKeeps ==
    ASSUME ProvInv, NEW gone, NEW ids \in Seq(ProviderIds), ProvRemove(gone), TellWatcher(ids),
           Len(ids) <= Cardinality(ProviderIds), gone \subseteq Range(ids)
    PROVE  ProvInv'
<1>1. ProvTypeOK /\ UsingKnown
    BY DEF ProvInv
<1>2. /\ configs' = Dropped(configs, gone)
      /\ catalog' = [k \in Kinds |-> Unloaded(catalog[k], gone)]
      /\ using' = [k \in Kinds |-> IF using[k] \in gone THEN FirstOf(catalog'[k]) ELSE using[k]]
      /\ UNCHANGED <<mirror, renamed>>
    BY DEF ProvRemove
<1>3. ASSUME NEW k \in Kinds
      PROVE  /\ catalog'[k] \in Seq(ProviderIds) /\ Len(catalog'[k]) <= MaxLoaded
             /\ Range(catalog'[k]) = Range(catalog[k]) \ gone
    <2>1. catalog[k] \in Seq(ProviderIds) /\ Len(catalog[k]) \in Nat /\ Len(catalog[k]) <= MaxLoaded
        BY <1>1 DEF ProvTypeOK
    <2>2. /\ catalog'[k] \in Seq(ProviderIds) /\ Len(catalog'[k]) <= Len(catalog[k])
          /\ Range(catalog'[k]) = Range(catalog[k]) \ gone
        BY <1>2, <2>1, UnloadedHolds
    <2>3. PICK n \in Nat : n = MaxLoaded
        BY ProvidersAssumption
    <2>4. Len(catalog'[k]) \in Nat
        BY <2>2
    <2> QED
        BY <2>1, <2>2, <2>3, <2>4
<1>4. catalog' \in [Kinds -> Seq(ProviderIds)]
    BY <1>2, <1>3
<1>5. \A q : q \notin Range(ids) => (q \in Loaded(catalog)' <=> q \in Loaded(catalog))
    BY <1>3, LoadedIs DEF Loaded
<1>6. /\ told' \in Seq(ProviderIds) /\ Len(told') < MaxUntold + Cardinality(ProviderIds)
      /\ WatcherKnows'
    BY <1>2, <1>5, ToldKeeps
<1>7. /\ DOMAIN configs' = DOMAIN configs \ gone
      /\ \A q \in DOMAIN configs' : configs'[q] \in Config
    BY <1>1, <1>2 DEF ProvTypeOK, Dropped
<1>8. ASSUME NEW k \in Kinds
      PROVE  /\ using'[k] \in ProviderIds \cup {NoProvider}
             /\ using'[k] # NoProvider =>
                   using'[k] \in DOMAIN configs' \/ using'[k] \in Range(catalog'[k])
    <2>1. /\ using[k] \in ProviderIds \cup {NoProvider}
          /\ using[k] # NoProvider => using[k] \in DOMAIN configs \/ using[k] \in Range(catalog[k])
        BY <1>1 DEF ProvTypeOK, UsingKnown, LoadedAs
    <2>2. CASE using[k] \notin gone
        <3>1. using'[k] = using[k]
            BY <1>2, <2>2
        <3> QED
            BY <1>3, <1>7, <2>1, <2>2, <3>1
    <2>3. CASE using[k] \in gone
        <3>1. using'[k] = FirstOf(catalog'[k])
            BY <1>2, <2>3
        <3> QED
            BY <1>3, <3>1, FirstHolds
    <2> QED
        BY <2>2, <2>3
<1>9. using' \in [Kinds -> ProviderIds \cup {NoProvider}]
    BY <1>2, <1>8
<1>10. ProvTypeOK'
    BY <1>1, <1>2, <1>3, <1>4, <1>6, <1>7, <1>9 DEF ProvTypeOK
<1>11. UsingKnown'
    BY <1>8 DEF UsingKnown, LoadedAs
<1> QED
    BY <1>6, <1>10, <1>11 DEF ProvInv

LEMMA ProvDeleteKeeps == ProvInv /\ ProvDelete => ProvInv'
<1>1. ASSUME ProvInv, NEW p \in ProviderIds, ProvRemove({p}), TellWatcher(<<p>>) PROVE ProvInv'
    BY <1>1, OneTold, ProvRemoveKeeps
<1>2. ASSUME ProvInv, NEW gone \in SUBSET DOMAIN configs,
             ProvRemove(gone), TellWatcher(SetToSeq(gone))
      PROVE  ProvInv'
    <2>1. gone \subseteq ProviderIds /\ IsFiniteSet(gone)
          /\ Cardinality(gone) <= Cardinality(ProviderIds)
        BY <1>2, ProvidersAssumption, FS_Subset DEF ProvInv, ProvTypeOK
    <2>2. PICK ids : ids = SetToSeq(gone)
        OBVIOUS
    <2>3. ids \in Seq(gone) /\ Len(ids) = Cardinality(gone) /\ gone \subseteq Range(ids)
        BY <2>1, <2>2, Numbering DEF Range
    <2>4. ids \in Seq(ProviderIds)
        BY <2>1, <2>3
    <2> QED
        BY <1>2, <2>1, <2>2, <2>3, <2>4, ProvRemoveKeeps
<1> SUFFICES ASSUME ProvInv, ProvDelete PROVE ProvInv'
    OBVIOUS
<1>3. CASE \E p \in ProviderIds : Managed(p) /\ ProvRemove({p}) /\ TellWatcher(<<p>>)
    BY <1>1, <1>3
<1>4. CASE \E s \in Sources \ {NoSource} :
              LET gone == {p \in DOMAIN configs : configs[p].source = s} IN
              ProvRemove(gone) /\ TellWatcher(SetToSeq(gone))
    BY <1>2, <1>4
<1> QED
    BY <1>3, <1>4 DEF ProvDelete

(* The watcher sees whether the provider it has read of is loaded now.        *)
LEMMA ProvToldKeeps == ProvInv /\ ProvTold => ProvInv'
<1> SUFFICES ASSUME ProvInv, ProvTold PROVE ProvInv'
    OBVIOUS
<1>1. ProvTypeOK /\ UsingKnown /\ WatcherKnows
    BY DEF ProvInv
<1>2. /\ told # <<>> /\ told' = Tail(told)
      /\ mirror' = IF Head(told) \in Loaded(catalog) THEN mirror \cup {Head(told)}
                   ELSE mirror \ {Head(told)}
      /\ renamed' = renamed \ {Head(told)}
      /\ UNCHANGED <<catalog, configs, using>>
    BY DEF ProvTold
<1>3. told \in Seq(ProviderIds) /\ Len(told) < MaxUntold + Cardinality(ProviderIds)
    BY <1>1 DEF ProvTypeOK
<1>4. Head(told) \in ProviderIds /\ Range(told) = {Head(told)} \cup Range(told')
    BY <1>2, <1>3, RangesHold
<1>5. told' \in Seq(ProviderIds) /\ Len(told') = Len(told) - 1 /\ Len(told) \in Nat
    BY <1>2, <1>3
<1>6. PICK c \in Nat, u \in Nat : c = Cardinality(ProviderIds) /\ u = MaxUntold
    BY ProvFacts, ProvidersAssumption
<1>7. Len(told') < MaxUntold + Cardinality(ProviderIds)
    BY <1>3, <1>5, <1>6
<1>8. mirror' \subseteq ProviderIds /\ renamed' \subseteq ProviderIds
    BY <1>1, <1>2, <1>4 DEF ProvTypeOK
<1>9. ProvTypeOK'
    BY <1>1, <1>2, <1>5, <1>7, <1>8 DEF ProvTypeOK
<1>10. UsingKnown'
    BY <1>1, <1>2 DEF UsingKnown, LoadedAs
<1>11. Loaded(catalog)' = Loaded(catalog)
    BY <1>2
<1>12. WatcherKnows'
    <2> SUFFICES ASSUME NEW p \in ProviderIds, p \notin renamed', p \notin Range(told')
                 PROVE  p \in mirror' <=> p \in Loaded(catalog)
        BY <1>11 DEF WatcherKnows
    <2>1. CASE p = Head(told)
        BY <1>2, <2>1
    <2>2. CASE p # Head(told)
        BY <1>1, <1>2, <1>4, <2>2 DEF WatcherKnows
    <2> QED
        BY <2>1, <2>2
<1> QED
    BY <1>9, <1>10, <1>12 DEF ProvInv

LEMMA ProvInvHolds == ProvSpec => []ProvInv
<1>1. ProvInv /\ UNCHANGED provVars => ProvInv'
    BY DEF provVars, ProvInv, ProvTypeOK, UsingKnown, WatcherKnows, LoadedAs, Loaded
<1>2. ProvInv /\ [ProvNext]_provVars => ProvInv'
    BY <1>1, ProvSetKeeps, ProvLoadKeeps, ProvTerminateKeeps, ProvCreateKeeps, ProvUpdateKeeps,
       ProvDeleteKeeps, ProvToldKeeps DEF ProvNext
<1> QED
    BY <1>2, ProvInitEstablishes, PTL DEF ProvSpec

(* The provider in use is always one that is loaded or stored, and a watcher  *)
(* that reads its events knows which are loaded, for any kinds, providers and *)
(* sources and any order of loads, updates, terminations and deletions.       *)
THEOREM ProvidersAlwaysKnown == ProvSpec => []ProvidersKnown
<1>1. ProvInv => ProvidersKnown
    BY DEF ProvInv, ProvidersKnown
<1> QED
    BY <1>1, ProvInvHolds, PTL
-----------------------------------------------------------------------------
(* Message history.  The ids of a session rise with their place, and every id *)
(* that was owed or given out is older than the next: what is appended while  *)
(* a plugin reads is newer than its cursor and than all it is owed.           *)
Rising(h)    == \A m, n \in DOMAIN h : m < n => h[m].id < h[n].id
OnceKeyed(h) == \A m, n \in DOMAIN h : h[m].key = h[n].key /\ h[m].key # NoKey => m = n

HistReader == [at : {"idle", "paging", "done"}, of : HistSessions,
               cursor : {0} \cup RecordIds, got : Seq(RecordIds)]

Descends(got) == \A m, n \in DOMAIN got : m < n => got[m] > got[n]

CursorFits ==
    /\ reader.at = "idle" => reader.cursor = 0 /\ reader.got = <<>>
    /\ reader.at = "paging" =>
          reader.cursor # 0 /\ \A n \in DOMAIN reader.got : reader.got[n] >= reader.cursor

HistInv ==
    /\ history \in [HistSessions -> Seq(Record)] /\ histNext \in 1..MaxRecord + 1
    /\ reader \in HistReader /\ owed \subseteq RecordIds
    /\ \A s \in HistSessions : Rising(history[s]) /\ OnceKeyed(history[s])
    /\ \A s \in HistSessions : \A n \in DOMAIN history[s] : history[s][n].id < histNext
    /\ \A i \in owed : i < histNext
    /\ CursorFits /\ PagesComplete

LEMMA HistInitEstablishes == HistInit => HistInv
<1> SUFFICES ASSUME HistInit PROVE HistInv
    OBVIOUS
<1>1. /\ history \in [HistSessions -> Seq(Record)]
      /\ \A s \in HistSessions : DOMAIN history[s] = {}
    BY DEF HistInit
<1>2. histNext \in 1..MaxRecord + 1
    BY HistoryAssumption DEF HistInit
<1>3. PICK s \in HistSessions : reader = [at |-> "idle", of |-> s, cursor |-> 0, got |-> <<>>]
    BY DEF HistInit
<1>4. reader \in HistReader /\ reader.got = <<>> /\ reader.at = "idle" /\ DOMAIN reader.got = {}
    BY <1>3 DEF HistReader
<1>5. CursorFits /\ PagesComplete
    BY <1>3, <1>4 DEF CursorFits, PagesComplete
<1>6. owed = {}
    BY DEF HistInit
<1> QED
    BY <1>1, <1>2, <1>4, <1>5, <1>6 DEF HistInv, Rising, OnceKeyed

(* What stays of a history is in the order it was.                            *)
LEMMA RetainedHolds ==
    ASSUME NEW h \in Seq(Record), Rising(h), OnceKeyed(h), NEW places \in SUBSET DOMAIN h
    PROVE  /\ Picked(h, places) \in Seq(Record)
           /\ Rising(Picked(h, places)) /\ OnceKeyed(Picked(h, places))
           /\ \A n \in DOMAIN Picked(h, places) : \E i \in DOMAIN h : Picked(h, places)[n] = h[i]
<1>1. PICK left : left = Picked(h, places)
    OBVIOUS
<1>2. PICK at : at = [n \in DOMAIN left |-> Nth(places, n)]
    OBVIOUS
<1>3. /\ left \in Seq(Record)
      /\ \A n \in DOMAIN left : at[n] \in DOMAIN h /\ left[n] = h[at[n]]
      /\ \A m, n \in DOMAIN left : m < n => at[m] < at[n]
    BY <1>1, <1>2, PickedHolds
<1>4. \A n \in DOMAIN left : n \in Nat
    BY <1>3
<1>5. \A n \in DOMAIN left : at[n] \in Nat
    BY <1>3
<1>6. \A m, n \in DOMAIN left : at[m] = at[n] => m = n
    BY <1>3, <1>4, <1>5
<1>7. Rising(left)
    BY <1>3 DEF Rising
<1>8. OnceKeyed(left)
    BY <1>3, <1>6 DEF OnceKeyed
<1> QED
    BY <1>1, <1>3, <1>7, <1>8

LEMMA RetainKeeps == ASSUME HistInv, NEW s \in HistSessions, NEW times, Retain(s, times) PROVE HistInv'
<1> USE DEF HistInv
<1>1. PICK places \in SUBSET DOMAIN history[s] :
          places = {n \in DOMAIN history[s] : history[s][n].at \in times}
    OBVIOUS
<1>2. PICK left : left = Picked(history[s], places)
    OBVIOUS
<1>3. /\ left \in Seq(Record) /\ Rising(left) /\ OnceKeyed(left)
      /\ \A n \in DOMAIN left : \E i \in DOMAIN history[s] : left[n] = history[s][i]
    <2>1. history[s] \in Seq(Record) /\ Rising(history[s]) /\ OnceKeyed(history[s])
        OBVIOUS
    <2> QED
        BY <1>2, <2>1, RetainedHolds
<1>4. history' = [history EXCEPT ![s] = left] /\ UNCHANGED <<histNext, reader, owed>>
    BY <1>1, <1>2 DEF Retain
<1>5. /\ history' \in [HistSessions -> Seq(Record)] /\ history'[s] = left
      /\ \A t \in HistSessions : t # s => history'[t] = history[t]
    BY <1>3, <1>4
<1>6. \A t \in HistSessions : Rising(history'[t]) /\ OnceKeyed(history'[t])
    BY <1>3, <1>5
<1>7. \A t \in HistSessions : \A n \in DOMAIN history'[t] : \E i \in DOMAIN history[t] :
          history'[t][n] = history[t][i]
    <2>1. ASSUME NEW t \in HistSessions, t # s, NEW n \in DOMAIN history'[t]
          PROVE  \E i \in DOMAIN history[t] : history'[t][n] = history[t][i]
        BY <1>5, <2>1
    <2>2. \A n \in DOMAIN history'[s] : \E i \in DOMAIN history[s] : history'[s][n] = history[s][i]
        BY <1>3, <1>5
    <2> QED
        BY <2>1, <2>2
<1>8. \A t \in HistSessions : \A n \in DOMAIN history'[t] : history'[t][n].id < histNext'
    BY <1>4, <1>7
<1>9. reader.of \in HistSessions
    BY DEF HistReader
<1>10. HistIds(reader.of)' \subseteq HistIds(reader.of)
    BY <1>4, <1>7, <1>9 DEF HistIds
<1>11. PagesComplete'
    BY <1>4, <1>10 DEF PagesComplete
<1>12. CursorFits'
    BY <1>4 DEF CursorFits
<1>13. reader' = reader /\ owed' = owed /\ histNext' = histNext
    BY <1>4
<1> QED
    BY <1>5, <1>6, <1>8, <1>11, <1>12, <1>13

(* A record that is appended is newer than all that was there.                *)
LEMMA HistAppendKeeps == ASSUME HistInv, NEW s \in HistSessions, HistAppend(s) PROVE HistInv'
<1> USE DEF HistInv
<1>1. PICK key \in HistKeys \cup {NoKey}, moment \in Times :
        /\ histNext <= MaxRecord
        /\ IF KnownKey(s, key) THEN UNCHANGED <<history, histNext>>
           ELSE /\ history' = [history EXCEPT ![s] =
                                   Append(history[s], [id |-> histNext, at |-> moment, key |-> key])]
                /\ histNext' = histNext + 1
        /\ UNCHANGED <<reader, owed>>
    BY DEF HistAppend
<1>2. CASE KnownKey(s, key)
    BY <1>1, <1>2 DEF PagesComplete, CursorFits, HistIds
<1>3. CASE ~KnownKey(s, key)
    <2>1. PICK h, new : h = history[s] /\ new = [id |-> histNext, at |-> moment, key |-> key]
        OBVIOUS
    <2>2. PICK len \in Nat : len = Len(h) /\ DOMAIN h = 1..len /\ h \in Seq(Record)
        BY <2>1
    <2>3. histNext \in Nat /\ histNext \in RecordIds /\ histNext + 1 \in 1..MaxRecord + 1
        BY <1>1, HistoryAssumption DEF RecordIds
    <2>4. new \in Record /\ new.id = histNext /\ new.key = key
        BY <2>1, <2>3 DEF Record
    <2>5. PICK more : more = Append(h, new)
        OBVIOUS
    <2>6. /\ more \in Seq(Record) /\ DOMAIN more = 1..len + 1 /\ more[len + 1] = new
          /\ \A n \in 1..len : more[n] = h[n]
        BY <2>2, <2>4, <2>5
    <2>7. \A n \in 1..len + 1 : n \in 1..len \/ n = len + 1
        OBVIOUS
    <2>8. \A n \in 1..len : h[n].id < histNext /\ h[n].id \in Nat
        <3>1. \A n \in 1..len : h[n] \in Record
            BY <2>2
        <3> QED
            BY <2>1, <2>2, <3>1 DEF Record, RecordIds
    <2>9. Rising(more)
        <3> SUFFICES ASSUME NEW m \in 1..len + 1, NEW n \in 1..len + 1, m < n
                     PROVE  more[m].id < more[n].id
            BY <2>6 DEF Rising
        <3>1. m \in 1..len
            OBVIOUS
        <3>2. CASE n = len + 1
            BY <2>4, <2>6, <2>8, <3>1, <3>2
        <3>3. CASE n \in 1..len
            <4>1. Rising(h)
                BY <2>1
            <4> QED
                BY <2>2, <2>6, <3>1, <3>3, <4>1 DEF Rising
        <3> QED
            BY <2>7, <3>2, <3>3
    <2>10. OnceKeyed(more)
        <3>1. OnceKeyed(h) /\ \A n \in 1..len : h[n].key = key => key = NoKey
            BY <1>3, <2>1, <2>2 DEF KnownKey
        <3> SUFFICES ASSUME NEW m \in 1..len + 1, NEW n \in 1..len + 1,
                            more[m].key = more[n].key, more[m].key # NoKey
                     PROVE  m = n
            BY <2>6 DEF OnceKeyed
        <3>2. CASE m \in 1..len /\ n \in 1..len
            BY <2>2, <2>6, <3>1, <3>2 DEF OnceKeyed
        <3>3. CASE m \in 1..len /\ n = len + 1
            BY <2>4, <2>6, <3>1, <3>3
        <3>4. CASE m = len + 1 /\ n \in 1..len
            BY <2>4, <2>6, <3>1, <3>4
        <3> QED
            BY <2>7, <3>2, <3>3, <3>4
    <2>11. /\ history' = [history EXCEPT ![s] = more] /\ histNext' = histNext + 1
           /\ reader' = reader /\ owed' = owed
        BY <1>1, <1>3, <2>1, <2>5
    <2>12. /\ history' \in [HistSessions -> Seq(Record)] /\ history'[s] = more
           /\ \A t \in HistSessions : t # s => history'[t] = history[t]
        BY <2>6, <2>11
    <2>13. \A t \in HistSessions : Rising(history'[t]) /\ OnceKeyed(history'[t])
        BY <2>9, <2>10, <2>12
    <2>14. ASSUME NEW t \in HistSessions, NEW n \in DOMAIN history'[t]
           PROVE  history'[t][n].id < histNext'
        <3>1. CASE t # s
            <4>1. history[t] \in Seq(Record) /\ history'[t] = history[t] /\ n \in DOMAIN history[t]
                BY <2>12, <2>14, <3>1
            <4>2. history[t][n] \in Record
                BY <4>1
            <4>3. history[t][n].id \in Nat /\ history[t][n].id < histNext
                BY <4>1, <4>2 DEF Record, RecordIds
            <4> QED
                BY <2>3, <2>11, <4>1, <4>3
        <3>2. CASE t = s
            BY <2>3, <2>4, <2>6, <2>7, <2>8, <2>11, <2>12, <2>14, <3>2
        <3> QED
            BY <3>1, <3>2
    <2>15. \A i \in owed' : i < histNext'
        BY <2>3, <2>11 DEF RecordIds
    <2>16. reader.of \in HistSessions
        BY DEF HistReader
    <2>17. HistIds(reader.of)' \subseteq HistIds(reader.of) \cup {histNext}
        <3> SUFFICES ASSUME NEW n \in DOMAIN history'[reader.of]
                     PROVE  history'[reader.of][n].id \in HistIds(reader.of) \cup {histNext}
            BY <2>11 DEF HistIds
        <3>1. CASE reader.of # s
            BY <2>12, <2>16, <3>1 DEF HistIds
        <3>2. CASE reader.of = s
            BY <2>1, <2>2, <2>4, <2>6, <2>7, <2>12, <3>2 DEF HistIds
        <3> QED
            BY <3>1, <3>2
    <2>18. owed' \cap HistIds(reader.of)' \subseteq owed \cap HistIds(reader.of)
        BY <2>3, <2>11, <2>17
    <2>19. PagesComplete'
        BY <2>11, <2>18 DEF PagesComplete
    <2>20. CursorFits'
        BY <2>11 DEF CursorFits
    <2>21. histNext' \in 1..MaxRecord + 1
        BY <2>3, <2>11
    <2> QED
        BY <2>11, <2>12, <2>13, <2>14, <2>15, <2>19, <2>20, <2>21
<1> QED
    BY <1>2, <1>3

(* A page is taken from the records older than the cursor, newest first.      *)
LEMMA OlderHolds ==
    ASSUME NEW s, NEW cursor \in Nat, history[s] \in Seq(Record), Rising(history[s])
    PROVE  /\ Older(s, cursor) \in Seq(Record)
           /\ \A m, n \in DOMAIN Older(s, cursor) :
                 m < n => Older(s, cursor)[m].id > Older(s, cursor)[n].id
           /\ \A n \in DOMAIN Older(s, cursor) :
                 /\ \E i \in DOMAIN history[s] : Older(s, cursor)[n] = history[s][i]
                 /\ cursor = 0 \/ Older(s, cursor)[n].id < cursor
           /\ \A i \in DOMAIN history[s] : cursor = 0 \/ history[s][i].id < cursor =>
                 \E n \in DOMAIN Older(s, cursor) : Older(s, cursor)[n] = history[s][i]
<1>1. PICK h \in Seq(Record) : h = history[s] /\ Rising(h)
    OBVIOUS
<1>2. PICK len \in Nat : len = Len(h) /\ DOMAIN h = 1..len
    OBVIOUS
<1>3. PICK back : back = Reverse(h)
    OBVIOUS
<1>4. /\ back \in Seq(Record) /\ DOMAIN back = 1..len
      /\ \A n \in 1..len : back[n] = h[len - n + 1] /\ len - n + 1 \in 1..len
    <2>1. \A n \in 1..len : len - n + 1 \in 1..len
        OBVIOUS
    <2>2. back = [n \in 1..len |-> h[len - n + 1]]
        BY <1>2, <1>3 DEF Reverse
    <2>3. back \in [1..len -> Record]
        BY <1>2, <2>1, <2>2
    <2> QED
        BY <2>1, <2>2, <2>3
<1>5. \A m, n \in 1..len : m < n => back[m].id > back[n].id
    <2> SUFFICES ASSUME NEW m \in 1..len, NEW n \in 1..len, m < n PROVE back[m].id > back[n].id
        OBVIOUS
    <2>1. PICK i \in 1..len, j \in 1..len : i = len - m + 1 /\ j = len - n + 1
        BY <1>4
    <2>2. j < i
        BY <2>1
    <2>3. h[j].id < h[i].id /\ h[i] \in Record /\ h[j] \in Record
        BY <1>1, <1>2, <2>2 DEF Rising
    <2> QED
        BY <1>4, <2>1, <2>3 DEF Record, RecordIds
<1>6. PICK places \in SUBSET DOMAIN back :
          places = {n \in DOMAIN back : cursor = 0 \/ back[n].id < cursor}
    OBVIOUS
<1>7. PICK left : left = Picked(back, places)
    OBVIOUS
<1>8. PICK at : at = [n \in DOMAIN left |-> Nth(places, n)]
    OBVIOUS
<1>9. /\ left \in Seq(Record)
      /\ \A n \in DOMAIN left : at[n] \in places /\ left[n] = back[at[n]]
      /\ \A i \in places : \E n \in DOMAIN left : at[n] = i
      /\ \A m, n \in DOMAIN left : m < n => at[m] < at[n]
    BY <1>4, <1>7, <1>8, PickedHolds
<1>10. Older(s, cursor) = left
    BY <1>1, <1>3, <1>6, <1>7 DEF Older
<1>14. \A n \in DOMAIN left : at[n] \in 1..len
    BY <1>4, <1>6, <1>9
<1>11. \A m, n \in DOMAIN left : m < n => left[m].id > left[n].id
    <2> SUFFICES ASSUME NEW m \in DOMAIN left, NEW n \in DOMAIN left, m < n
                 PROVE  left[m].id > left[n].id
        OBVIOUS
    <2>1. PICK i \in 1..len, j \in 1..len : i = at[m] /\ j = at[n] /\ i < j
        BY <1>9, <1>14
    <2>2. left[m] = back[i] /\ left[n] = back[j]
        BY <1>9, <2>1
    <2> QED
        BY <1>5, <2>1, <2>2
<1>12. \A n \in DOMAIN left : /\ \E i \in 1..len : left[n] = h[i]
                              /\ cursor = 0 \/ left[n].id < cursor
    <2> SUFFICES ASSUME NEW n \in DOMAIN left
                 PROVE  /\ \E i \in 1..len : left[n] = h[i]
                        /\ cursor = 0 \/ left[n].id < cursor
        OBVIOUS
    <2>1. PICK i \in 1..len : i = at[n]
        BY <1>14
    <2>2. left[n] = back[i] /\ i \in places
        BY <1>9, <2>1
    <2>3. left[n] = h[len - i + 1] /\ len - i + 1 \in 1..len
        BY <1>4, <2>1, <2>2
    <2>4. cursor = 0 \/ back[i].id < cursor
        BY <1>6, <2>2
    <2> QED
        BY <2>2, <2>3, <2>4
<1>13. ASSUME NEW i \in 1..len, cursor = 0 \/ h[i].id < cursor
       PROVE  \E n \in DOMAIN left : left[n] = h[i]
    <2>1. PICK j \in 1..len : j = len - i + 1 /\ i = len - j + 1
        OBVIOUS
    <2>2. back[j] = h[i] /\ j \in places
        BY <1>4, <1>6, <1>13, <2>1
    <2> QED
        BY <1>9, <2>2
<1>15. /\ \A n \in DOMAIN left : /\ \E i \in DOMAIN history[s] : left[n] = history[s][i]
                                 /\ cursor = 0 \/ left[n].id < cursor
       /\ \A i \in DOMAIN history[s] : cursor = 0 \/ history[s][i].id < cursor =>
             \E n \in DOMAIN left : left[n] = history[s][i]
    BY <1>1, <1>2, <1>12, <1>13
<1> QED
    BY <1>9, <1>10, <1>11, <1>15

(* What a page does not show is older than its next_cursor.                   *)
LEMMA HistReadKeeps == ASSUME HistInv, HistRead PROVE HistInv'
<1> USE DEF HistInv
<1>1. PICK s \in HistSessions, cursor \in Nat, got \in Seq(RecordIds) :
        /\ s = reader.of /\ cursor = reader.cursor /\ got = reader.got
    BY HistoryAssumption DEF HistReader, RecordIds
<1>2. PICK limit \in 1..MaxLimit :
        reader' = [reader EXCEPT
                     !.at = IF HistPage(s, cursor, limit).next = 0 THEN "done" ELSE "paging",
                     !.cursor = HistPage(s, cursor, limit).next,
                     !.got = got \o HistPage(s, cursor, limit).ids]
    BY <1>1 DEF HistRead
<1>3. PICK left : left = Older(s, cursor)
    OBVIOUS
<1>4. /\ left \in Seq(Record)
      /\ \A m, n \in DOMAIN left : m < n => left[m].id > left[n].id
      /\ \A n \in DOMAIN left : cursor = 0 \/ left[n].id < cursor
      /\ \A i \in DOMAIN history[s] : cursor = 0 \/ history[s][i].id < cursor =>
            \E n \in DOMAIN left : left[n] = history[s][i]
    BY <1>3, OlderHolds
<1>5. PICK len \in Nat : len = Len(left) /\ DOMAIN left = 1..len
    BY <1>4
<1>6. limit \in Nat /\ limit >= 1
    BY HistoryAssumption
<1>7. PICK k \in Nat : k = IF len <= limit THEN len ELSE limit
    BY <1>6
<1>8. k <= len /\ \A n \in 1..k : n \in 1..len
    BY <1>6, <1>7
<1>9. \A n \in 1..len : left[n] \in Record /\ left[n].id \in RecordIds /\ left[n].id \in Nat \ {0}
    <2>1. \A n \in 1..len : left[n] \in Record
        BY <1>4, <1>5
    <2>2. RecordIds \subseteq Nat \ {0}
        BY HistoryAssumption DEF RecordIds
    <2> QED
        BY <2>1, <2>2 DEF Record
<1>10. PICK ids : ids = [n \in 1..k |-> left[n].id]
    OBVIOUS
<1>11. ids \in Seq(RecordIds) /\ DOMAIN ids = 1..k /\ Len(ids) = k
    <2>1. \A n \in 1..k : left[n].id \in RecordIds
        BY <1>8, <1>9
    <2>2. ids \in [1..k -> RecordIds]
        BY <1>10, <2>1
    <2> QED
        BY <2>2
<1>12. PICK next : next = IF len > limit THEN left[limit].id ELSE 0
    OBVIOUS
<1>13. HistPage(s, cursor, limit) = [ids |-> ids, next |-> next]
    BY <1>3, <1>5, <1>7, <1>10, <1>12 DEF HistPage
<1>14. next \in {0} \cup RecordIds /\ next \in Nat
    BY <1>6, <1>9, <1>12
<1>15. PICK end \in {"paging", "done"} : end = IF next = 0 THEN "done" ELSE "paging"
    OBVIOUS
<1>16. PICK all : all = got \o ids
    OBVIOUS
<1>17. PICK new : new = [reader EXCEPT !.at = end, !.cursor = next, !.got = all]
    OBVIOUS
<1>18. reader' = new
    BY <1>2, <1>13, <1>15, <1>16, <1>17
<1>19. PICK g \in Nat : g = Len(got) /\ DOMAIN got = 1..g
    OBVIOUS
<1>20. /\ all \in Seq(RecordIds) /\ DOMAIN all = 1..g + k
       /\ \A n \in 1..g : all[n] = got[n]
       /\ \A n \in 1..k : all[g + n] = left[n].id
    <2>1. all \in Seq(RecordIds) /\ Len(all) = g + k
        <3>1. got \in Seq(RecordIds) /\ ids \in Seq(RecordIds) /\ Len(got) = g /\ Len(ids) = k
            BY <1>11, <1>19
        <3>2. got \o ids \in Seq(RecordIds)
            BY <3>1
        <3>3. Len(got \o ids) = Len(got) + Len(ids)
            BY <3>1, Joined
        <3> QED
            BY <1>16, <3>1, <3>2, <3>3
    <2>2. \A n \in 1..g : all[n] = got[n]
        BY <1>11, <1>16, <1>19
    <2>3. \A n \in 1..k : all[g + n] = ids[n] /\ ids[n] = left[n].id
        BY <1>10, <1>11, <1>16, <1>19
    <2> QED
        BY <2>1, <2>2, <2>3
<1>21. new \in HistReader /\ new.at = end /\ new.cursor = next /\ new.got = all /\ new.of = s
    BY <1>1, <1>14, <1>15, <1>17, <1>20 DEF HistReader
<1>22. reader.at = "idle" \/ reader.at = "paging"
    BY DEF HistRead, HistReader
<1>23. \A n \in 1..g : got[n] \in Nat /\ got[n] >= cursor /\ cursor # 0
    <2>1. \A n \in 1..g : got[n] \in Nat
        BY <1>19, HistoryAssumption DEF RecordIds
    <2>2. CASE reader.at = "idle"
        BY <1>1, <1>19, <2>2 DEF CursorFits
    <2>3. CASE reader.at = "paging"
        BY <1>1, <1>19, <2>1, <2>3 DEF CursorFits
    <2> QED
        BY <1>22, <2>2, <2>3
<1>24. Descends(all)
    <2> SUFFICES ASSUME NEW m \in 1..g + k, NEW n \in 1..g + k, m < n PROVE all[m] > all[n]
        BY <1>20 DEF Descends
    <2>1. CASE n <= g
        <3>1. m \in 1..g /\ n \in 1..g
            BY <2>1
        <3>2. got[m] > got[n]
            BY <1>1, <1>19, <3>1 DEF PagesComplete
        <3> QED
            BY <1>20, <3>1, <3>2
    <2>2. CASE n > g /\ m <= g
        <3>1. PICK j \in 1..k : n = g + j
            <4>1. n - g \in 1..k /\ n = g + (n - g)
                BY <2>2
            <4> QED
                BY <4>1
        <3>2. m \in 1..g
            BY <2>2
        <3>3. all[m] = got[m] /\ all[n] = left[j].id /\ j \in 1..len
            BY <1>8, <1>20, <3>1, <3>2
        <3>4. left[j].id < cursor /\ left[j].id \in Nat
            BY <1>4, <1>5, <1>9, <1>23, <3>2, <3>3
        <3> QED
            BY <1>23, <3>2, <3>3, <3>4
    <2>3. CASE m > g
        <3>1. PICK i \in 1..k, j \in 1..k : m = g + i /\ n = g + j
            <4>1. m - g \in 1..k /\ n - g \in 1..k /\ m = g + (m - g) /\ n = g + (n - g)
                BY <2>3
            <4> QED
                BY <4>1
        <3>2. i < j /\ i \in 1..len /\ j \in 1..len
            BY <1>8, <3>1
        <3> QED
            BY <1>4, <1>5, <1>20, <3>1, <3>2
    <2> QED
        BY <2>1, <2>2, <2>3
<1>25. ASSUME next # 0, NEW n \in 1..g + k PROVE all[n] >= next
    <2>1. limit < len /\ k = limit /\ limit \in 1..len /\ next = left[limit].id
        BY <1>6, <1>7, <1>12, <1>25
    <2>2. CASE n <= g
        <3>1. n \in 1..g
            BY <2>2
        <3>2. next < cursor
            BY <1>4, <1>5, <1>23, <2>1, <3>1
        <3> QED
            BY <1>14, <1>20, <1>23, <3>1, <3>2
    <2>3. CASE n > g
        <3>1. PICK j \in 1..k : n = g + j
            <4>1. n - g \in 1..k /\ n = g + (n - g)
                BY <2>3
            <4> QED
                BY <4>1
        <3>2. j \in 1..len /\ (j = limit \/ j < limit) /\ left[j].id \in Nat
            BY <1>6, <1>8, <1>9, <2>1, <3>1
        <3>3. left[j].id >= left[limit].id
            <4>1. CASE j = limit
                BY <3>2, <4>1
            <4>2. CASE j < limit
                <5>1. left[j].id > left[limit].id
                    BY <1>4, <1>5, <2>1, <3>2, <4>2
                <5>2. left[limit].id \in Nat
                    BY <1>9, <2>1
                <5> QED
                    BY <3>2, <5>1, <5>2
            <4> QED
                BY <3>2, <4>1, <4>2
        <3> QED
            BY <1>20, <2>1, <3>1, <3>3
    <2> QED
        BY <2>2, <2>3
<1>26. CursorFits'
    <2>1. CASE next = 0
        <3>1. reader'.at = "done"
            BY <1>15, <1>18, <1>21, <2>1
        <3> QED
            BY <3>1 DEF CursorFits
    <2>2. CASE next # 0
        <3>1. reader'.at = "paging" /\ reader'.cursor = next /\ reader'.got = all
            BY <1>15, <1>18, <1>21, <2>2
        <3> QED
            BY <1>20, <1>25, <2>2, <3>1 DEF CursorFits
    <2> QED
        BY <2>1, <2>2
<1>27. history' = history /\ histNext' = histNext /\ owed' = IF reader.at = "idle" THEN HistIds(s) ELSE owed
    BY <1>1 DEF HistRead
<1>28. \A i \in HistIds(s) : i \in RecordIds /\ i < histNext /\ \E j \in DOMAIN history[s] : history[s][j].id = i
    <2>1. \A j \in DOMAIN history[s] : history[s][j] \in Record /\ history[s][j].id < histNext
        OBVIOUS
    <2> QED
        BY <2>1 DEF HistIds, Record
<1>29. owed' \subseteq RecordIds /\ \A i \in owed' : i < histNext'
    BY <1>27, <1>28
<1>30. ASSUME NEW i \in owed' \cap HistIds(s)
       PROVE  i \in Range(got) \/ \E n \in 1..len : left[n].id = i
    <2>1. PICK j \in DOMAIN history[s] : history[s][j].id = i
        BY <1>28, <1>30
    <2>2. CASE cursor = 0 \/ i < cursor
        BY <1>4, <1>5, <2>1, <2>2
    <2>3. CASE cursor # 0 /\ ~(i < cursor)
        <3>1. reader.at = "paging" /\ owed' = owed
            BY <1>1, <1>22, <1>27, <2>3 DEF CursorFits
        <3>2. i >= cursor
            BY <1>28, <1>30, <2>3 DEF RecordIds
        <3> QED
            BY <1>1, <1>30, <3>1, <3>2 DEF PagesComplete
    <2> QED
        BY <2>2, <2>3
<1>31. ASSUME NEW n \in 1..len
       PROVE  left[n].id \in Range(all) \/ (next # 0 /\ left[n].id < next)
    <2>1. CASE n <= k
        <3>1. n \in 1..k /\ g + n \in DOMAIN all
            BY <1>20, <2>1
        <3> QED
            BY <1>20, <3>1 DEF Range
    <2>2. CASE n > k
        <3>1. len > limit /\ k = limit /\ limit \in 1..len /\ limit < n
            BY <1>6, <1>7, <2>2
        <3>2. next = left[limit].id /\ next # 0
            BY <1>9, <1>12, <3>1
        <3>3. left[limit].id > left[n].id
            BY <1>4, <1>5, <3>1
        <3> QED
            BY <1>9, <3>1, <3>2, <3>3
    <2> QED
        BY <2>1, <2>2
<1>32. Range(got) \subseteq Range(all)
    BY <1>19, <1>20 DEF Range
<1>33. \A i \in owed' \cap HistIds(s) : i \in Range(all) \/ (next # 0 /\ i < next)
    BY <1>30, <1>31, <1>32
<1>34. HistIds(reader.of)' = HistIds(s)
    BY <1>18, <1>21, <1>27 DEF HistIds
<1>35. PagesComplete'
    <2>1. /\ reader'.got = all /\ reader'.cursor = next
          /\ reader'.at = "paging" => next # 0
          /\ reader'.at = "done" => next = 0
        BY <1>15, <1>18, <1>21
    <2>2. \A i \in owed' \cap HistIds(reader.of)' : i \in Nat
        BY <1>28, <1>34 DEF RecordIds
    <2>3. reader'.at = "paging" =>
              \A i \in owed' \cap HistIds(reader.of)' : i >= reader'.cursor => i \in Range(reader'.got)
        BY <1>14, <1>33, <1>34, <2>1, <2>2
    <2>4. reader'.at = "done" => owed' \cap HistIds(reader.of)' \subseteq Range(reader'.got)
        BY <1>33, <1>34, <2>1
    <2> QED
        BY <1>24, <2>1, <2>3, <2>4 DEF PagesComplete, Descends
<1> QED
    BY <1>18, <1>21, <1>26, <1>27, <1>29, <1>35

LEMMA HistInvHolds == HistSpec => []HistInv
<1>1. HistInv /\ UNCHANGED histVars => HistInv'
    BY DEF histVars, HistInv, CursorFits, PagesComplete, HistIds
<1>2. ASSUME HistInv, HistNext PROVE HistInv'
    BY <1>2, HistReadKeeps, HistAppendKeeps, RetainKeeps
    DEF HistNext, HistDeleteBefore, HistDeleteAfter, HistDeleteAll
<1> QED
    BY <1>1, <1>2, HistInitEstablishes, PTL DEF HistSpec

(* A message is stored once under its idempotency key, and a plugin that      *)
(* pages through a session gets every record it is owed once and newest       *)
(* first, for any sessions, keys, times and limits and whatever is appended   *)
(* or deleted between two pages.                                              *)
THEOREM EachMessageOnce == HistSpec => []EachOnce
<1>1. HistInv => EachOnce
    BY DEF HistInv, EachOnce, AppendedOnce, OnceKeyed
<1> QED
    BY <1>1, HistInvHolds, PTL

(* Records are numbered in one row: no id is given twice, in any session.     *)
THEOREM HistoryTyped == HistSpec => []HistTypeOK
<1>1. ASSUME HistInv, NEW s \in HistSessions PROVE Len(history[s]) = Cardinality(HistIds(s))
    <2> USE <1>1 DEF HistInv
    <2>1. PICK h \in Seq(Record) : h = history[s] /\ Rising(h)
        OBVIOUS
    <2>2. PICK len \in Nat : len = Len(h) /\ DOMAIN h = 1..len
        OBVIOUS
    <2>3. \A n \in 1..len : h[n] \in Record /\ h[n].id \in Nat
        <3>1. \A n \in 1..len : h[n] \in Record
            BY <2>2
        <3>2. RecordIds \subseteq Nat
            BY HistoryAssumption DEF RecordIds
        <3> QED
            BY <3>1, <3>2 DEF Record
    <2>4. \A m, n \in 1..len : m # n => h[m].id # h[n].id
        <3> SUFFICES ASSUME NEW m \in 1..len, NEW n \in 1..len, m # n PROVE h[m].id # h[n].id
            OBVIOUS
        <3>1. CASE m < n
            BY <2>1, <2>2, <2>3, <3>1 DEF Rising
        <3>2. CASE n < m
            BY <2>1, <2>2, <2>3, <3>2 DEF Rising
        <3> QED
            BY <3>1, <3>2
    <2>5. PICK f : f = [n \in 1..len |-> h[n].id]
        OBVIOUS
    <2>6. f \in Bijection(1..len, HistIds(s))
        <3>1. HistIds(s) = {h[n].id : n \in 1..len}
            BY <2>1, <2>2 DEF HistIds
        <3>2. f \in [1..len -> HistIds(s)]
            BY <2>5, <3>1
        <3>3. \A m, n \in 1..len : f[m] = f[n] => m = n
            BY <2>4, <2>5
        <3>4. \A i \in HistIds(s) : \E n \in 1..len : f[n] = i
            BY <2>5, <3>1
        <3> QED
            BY <3>2, <3>3, <3>4 DEF Bijection, Injection, Surjection, IsInjective
    <2>7. IsFiniteSet(1..len) /\ Cardinality(1..len) = len
        <3>1. 1 \in Int /\ len \in Int
            OBVIOUS
        <3>2. IsFiniteSet(1..len) /\ Cardinality(1..len) = IF 1 > len THEN 0 ELSE len - 1 + 1
            BY <3>1, FS_Interval
        <3> QED
            BY <3>2
    <2>8. Cardinality(HistIds(s)) = Cardinality(1..len)
        BY <2>6, <2>7, FS_Bijection DEF ExistsBijection
    <2> QED
        BY <2>1, <2>2, <2>7, <2>8
<1>2. HistInv => HistTypeOK
    BY <1>1 DEF HistInv, HistTypeOK, HistReader
<1> QED
    BY <1>2, HistInvHolds, PTL
-----------------------------------------------------------------------------
(* Watches.  The last write of a key is what the store holds under it.        *)
IsLastWrite(changes, k, n) ==
    /\ n \in DOMAIN changes /\ changes[n].key = k
    /\ \A m \in DOMAIN changes : m > n => changes[m].key # k

LEMMA AppliedIs ==
    ASSUME NEW held, NEW changes \in Seq(Changes), NEW k \in DbKeys
    PROVE  /\ (\A n \in DOMAIN changes : changes[n].key # k) => Apply(held, changes)[k] = held[k]
           /\ \A n : IsLastWrite(changes, k, n) => Apply(held, changes)[k] = changes[n].value
           /\ (\E n \in DOMAIN changes : changes[n].key = k) => \E n : IsLastWrite(changes, k, n)
<1>1. PICK len \in Nat : len = Len(changes) /\ DOMAIN changes = 1..len
    OBVIOUS
<1>2. PICK writes \in SUBSET (1..len) : writes = {n \in 1..len : changes[n].key = k}
    OBVIOUS
<1>3. Apply(held, changes)[k] = IF writes = {} THEN held[k]
                                ELSE changes[CHOOSE n \in writes : \A m \in writes : m <= n].value
    BY <1>1, <1>2 DEF Apply
<1>4. ASSUME NEW n, IsLastWrite(changes, k, n)
      PROVE  Apply(held, changes)[k] = changes[n].value
    <2>1. n \in writes /\ \A m \in writes : m <= n
        BY <1>1, <1>2, <1>4 DEF IsLastWrite
    <2>2. \A i \in writes : (\A m \in writes : m <= i) => i = n
        BY <2>1
    <2>3. n = CHOOSE i \in writes : \A m \in writes : m <= i
        BY <2>1, <2>2
    <2> QED
        BY <1>3, <2>1, <2>3
<1>5. ASSUME writes # {}
      PROVE  \E n : IsLastWrite(changes, k, n)
    <2>1. IsFiniteSet(1..len)
        BY FS_Interval
    <2>6. IsFiniteSet(writes)
        BY <2>1, FS_Subset
    <2>2. IsFiniteSet(writes) /\ writes \in SUBSET Nat
        BY <2>6
    <2>3. PICK c \in Nat : c = Cardinality(writes) /\ c >= 1
        BY <1>5, <2>2, FS_CardinalityType, FS_EmptySet
    <2>7. c \in 1..c
        BY <2>3
    <2>8. Nth(writes, c) \in writes
        BY <2>2, <2>3, <2>7, Ranked
    <2>4. PICK n \in writes : n = Nth(writes, c)
        BY <2>8
    <2>5. ASSUME NEW m \in writes PROVE m <= n
        <3>1. PICK j \in 1..c : Nth(writes, j) = m
            BY <2>2, <2>3, Ranked
        <3>2. j = c \/ j < c
            OBVIOUS
        <3>3. CASE j = c
            BY <2>4, <3>1, <3>3
        <3>4. CASE j < c
            <4>1. c \in 1..c
                BY <2>3
            <4>2. Nth(writes, j) < Nth(writes, c)
                BY <2>2, <2>3, <3>4, <4>1, Ranked
            <4> QED
                BY <2>4, <3>1, <4>2
        <3> QED
            BY <3>2, <3>3, <3>4
    <2>9. n \in 1..len /\ changes[n].key = k /\ \A m \in 1..len : m > n => changes[m].key # k
        BY <1>2, <2>5
    <2> QED
        BY <1>1, <2>9 DEF IsLastWrite
<1>6. (\A n \in 1..len : changes[n].key # k) => Apply(held, changes)[k] = held[k]
    BY <1>2, <1>3
<1>7. (\E n \in 1..len : changes[n].key = k) => writes # {}
    BY <1>2
<1> QED
    BY <1>1, <1>4, <1>5, <1>6, <1>7

LEMMA ApplyTyped ==
    ASSUME NEW held \in Contents, NEW changes \in Seq(Changes)
    PROVE  Apply(held, changes) \in Contents
<1>1. \A n \in DOMAIN changes : changes[n].value \in DbValues \cup {NoValue}
    <2>1. \A n \in DOMAIN changes : changes[n] \in Changes
        OBVIOUS
    <2> QED
        BY <2>1 DEF Changes
<1>2. \A k \in DbKeys : Apply(held, changes)[k] \in DbValues \cup {NoValue}
    <2> SUFFICES ASSUME NEW k \in DbKeys PROVE Apply(held, changes)[k] \in DbValues \cup {NoValue}
        OBVIOUS
    <2>1. CASE \A n \in DOMAIN changes : changes[n].key # k
        <3>1. Apply(held, changes)[k] = held[k]
            BY <2>1, AppliedIs
        <3> QED
            BY <3>1 DEF Contents
    <2>2. CASE \E n \in DOMAIN changes : changes[n].key = k
        <3>1. PICK n : IsLastWrite(changes, k, n)
            BY <2>2, AppliedIs
        <3>2. Apply(held, changes)[k] = changes[n].value
            BY <3>1, AppliedIs
        <3> QED
            BY <1>1, <3>1, <3>2 DEF IsLastWrite
    <2> QED
        BY <2>1, <2>2
<1>3. PICK after : after = Apply(held, changes)
    OBVIOUS
<1>4. after = [k \in DbKeys |-> after[k]]
    BY <1>3 DEF Apply
<1> QED
    BY <1>2, <1>3, <1>4 DEF Contents

(* A reader that has taken the first event knows what it would have known.    *)
LEMMA ApplyFirst ==
    ASSUME NEW held, NEW changes \in Seq(Changes), changes # <<>>, NEW k \in DbKeys
    PROVE  Apply(Apply(held, <<Head(changes)>>), Tail(changes))[k] = Apply(held, changes)[k]
<1>1. PICK len \in Nat : len = Len(changes) /\ DOMAIN changes = 1..len /\ len >= 1
    OBVIOUS
<1>2. PICK head, rest : head = <<Head(changes)>> /\ rest = Tail(changes)
    OBVIOUS
<1>3. PICK between : between = Apply(held, head)
    OBVIOUS
<1>4. /\ head \in Seq(Changes) /\ DOMAIN head = 1..1 /\ head[1] = changes[1]
      /\ rest \in Seq(Changes) /\ DOMAIN rest = 1..len - 1
      /\ \A n \in 1..len - 1 : rest[n] = changes[n + 1]
    <2>1. Head(changes) \in Changes /\ Head(changes) = changes[1]
        BY <1>1
    <2> QED
        BY <1>1, <1>2, <2>1
<1>5. CASE \E n \in 1..len - 1 : rest[n].key = k
    <2>6. PICK n : IsLastWrite(rest, k, n)
        BY <1>4, <1>5, AppliedIs
    <2>1. n \in 1..len - 1 /\ rest[n].key = k /\ \A m \in 1..len - 1 : m > n => rest[m].key # k
        BY <1>4, <2>6 DEF IsLastWrite
    <2>2. Apply(between, rest)[k] = rest[n].value
        BY <1>4, <2>6, AppliedIs
    <2>3. n + 1 \in 1..len /\ changes[n + 1] = rest[n]
        BY <1>4, <2>1
    <2>4. ASSUME NEW m \in 1..len, m > n + 1 PROVE changes[m].key # k
        <3>1. m - 1 \in 1..len - 1 /\ m - 1 > n /\ m - 1 + 1 = m
            BY <2>1, <2>4
        <3>2. rest[m - 1] = changes[m]
            BY <1>4, <3>1
        <3> QED
            BY <2>1, <3>1, <3>2
    <2>7. IsLastWrite(changes, k, n + 1)
        BY <1>1, <2>1, <2>3, <2>4 DEF IsLastWrite
    <2>5. Apply(held, changes)[k] = changes[n + 1].value
        BY <2>7, AppliedIs
    <2> QED
        BY <1>2, <1>3, <2>2, <2>3, <2>5
<1>6. CASE \A n \in 1..len - 1 : rest[n].key # k
    <2>1. Apply(between, rest)[k] = between[k]
        <3>1. \A n \in DOMAIN rest : rest[n].key # k
            BY <1>4, <1>6
        <3> QED
            BY <1>4, <3>1, AppliedIs
    <2>2. \A m \in 1..len : m > 1 => changes[m].key # k
        <3> SUFFICES ASSUME NEW m \in 1..len, m > 1 PROVE changes[m].key # k
            OBVIOUS
        <3>1. m - 1 \in 1..len - 1 /\ m - 1 + 1 = m
            OBVIOUS
        <3>2. rest[m - 1] = changes[m]
            BY <1>4, <3>1
        <3> QED
            BY <1>6, <3>1, <3>2
    <2>3. CASE changes[1].key = k
        <3>4. IsLastWrite(changes, k, 1)
            BY <1>1, <2>2, <2>3 DEF IsLastWrite
        <3>1. Apply(held, changes)[k] = changes[1].value
            BY <3>4, AppliedIs
        <3>2. IsLastWrite(head, k, 1)
            BY <1>4, <2>3 DEF IsLastWrite
        <3>3. Apply(held, head)[k] = changes[1].value
            BY <1>4, <3>2, AppliedIs
        <3> QED
            BY <1>2, <1>3, <2>1, <3>1, <3>3
    <2>4. CASE changes[1].key # k
        <3>1. \A m \in 1..len : changes[m].key # k
            BY <2>2, <2>4
        <3>2. Apply(held, changes)[k] = held[k]
            BY <1>1, <3>1, AppliedIs
        <3>3. \A m \in DOMAIN head : head[m].key # k
            BY <1>4, <2>4
        <3>4. Apply(held, head)[k] = held[k]
            BY <1>4, <3>3, AppliedIs
        <3> QED
            BY <1>2, <1>3, <2>1, <3>2, <3>4
    <2> QED
        BY <2>3, <2>4
<1> QED
    BY <1>5, <1>6

(* A reader that is told of every write of a key, in their order, knows what  *)
(* the store holds under it.                                                  *)
LEMMA ApplyTold ==
    ASSUME NEW held, NEW store, NEW before \in Seq(Changes), NEW changes \in Seq(Changes),
           NEW k \in DbKeys, NEW places \in SUBSET DOMAIN changes,
           \A n \in DOMAIN changes : changes[n].key = k => n \in places,
           Apply(held, before)[k] = store[k]
    PROVE  Apply(held, before \o Picked(changes, places))[k] = Apply(store, changes)[k]
<1>1. PICK heard : heard = Picked(changes, places)
    OBVIOUS
<1>2. PICK at : at = [n \in DOMAIN heard |-> Nth(places, n)]
    OBVIOUS
<1>3. /\ heard \in Seq(Changes)
      /\ \A n \in DOMAIN heard : at[n] \in places /\ heard[n] = changes[at[n]]
      /\ \A i \in places : \E n \in DOMAIN heard : at[n] = i
      /\ \A m, n \in DOMAIN heard : m < n => at[m] < at[n]
    BY <1>1, <1>2, PickedHolds
<1>4. PICK b \in Nat, t \in Nat : /\ b = Len(before) /\ DOMAIN before = 1..b
                                 /\ t = Len(heard) /\ DOMAIN heard = 1..t
    BY <1>3
<1>5. PICK all : all = before \o heard
    OBVIOUS
<1>6. /\ all \in Seq(Changes) /\ DOMAIN all = 1..b + t
      /\ \A n \in 1..b : all[n] = before[n]
      /\ \A n \in 1..t : all[b + n] = heard[n] /\ b + n \in 1..b + t
    <2>1. Len(before \o heard) = b + t
        BY <1>3, <1>4, Joined
    <2>2. all \in Seq(Changes)
        BY <1>3, <1>5
    <2>3. DOMAIN all = 1..b + t
        BY <1>5, <2>1, <2>2
    <2>4. \A n \in 1..b : all[n] = before[n]
        BY <1>3, <1>4, <1>5
    <2>5. \A n \in 1..t : all[b + n] = heard[n] /\ b + n \in 1..b + t
        BY <1>3, <1>4, <1>5
    <2> QED
        BY <2>2, <2>3, <2>4, <2>5
<1>7. CASE \E n \in DOMAIN changes : changes[n].key = k
    <2>9. PICK n : IsLastWrite(changes, k, n)
        BY <1>7, AppliedIs
    <2>1. /\ n \in DOMAIN changes /\ changes[n].key = k
          /\ \A m \in DOMAIN changes : m > n => changes[m].key # k
        BY <2>9 DEF IsLastWrite
    <2>2. Apply(store, changes)[k] = changes[n].value
        BY <2>9, AppliedIs
    <2>3. PICK j \in 1..t : at[j] = n
        BY <1>3, <1>4, <2>1
    <2>4. heard[j] = changes[n]
        BY <1>3, <1>4, <2>3
    <2>5. ASSUME NEW m \in 1..t, m > j PROVE heard[m].key # k
        <3>1. at[m] \in DOMAIN changes /\ at[m] > n /\ heard[m] = changes[at[m]]
            BY <1>3, <1>4, <2>3, <2>5
        <3> QED
            BY <2>1, <3>1
    <2>6. ASSUME NEW m \in 1..b + t, m > b + j PROVE all[m].key # k
        <3>1. m - b \in 1..t /\ m - b > j /\ b + (m - b) = m
            BY <2>6
        <3>2. all[m] = heard[m - b]
            BY <1>6, <3>1
        <3> QED
            BY <2>5, <3>1, <3>2
    <2>7. b + j \in DOMAIN all /\ all[b + j] = changes[n]
        BY <1>6, <2>4
    <2>10. IsLastWrite(all, k, b + j)
        BY <1>6, <2>1, <2>6, <2>7 DEF IsLastWrite
    <2>8. Apply(held, all)[k] = changes[n].value
        BY <1>6, <2>7, <2>10, AppliedIs
    <2> QED
        BY <1>1, <1>5, <2>2, <2>8
<1>8. CASE \A n \in DOMAIN changes : changes[n].key # k
    <2>1. Apply(store, changes)[k] = store[k]
        BY <1>8, AppliedIs
    <2>2. ASSUME NEW n \in 1..t PROVE heard[n].key # k
        <3>1. n \in DOMAIN heard
            BY <1>4
        <3>2. at[n] \in DOMAIN changes /\ heard[n] = changes[at[n]]
            BY <1>3, <3>1
        <3> QED
            BY <1>8, <3>2
    <2>3. \A n \in 1..b + t : n \in 1..b \/ \E j \in 1..t : n = b + j
        <3> SUFFICES ASSUME NEW n \in 1..b + t, n \notin 1..b PROVE \E j \in 1..t : n = b + j
            OBVIOUS
        <3>1. n - b \in 1..t /\ n = b + (n - b)
            OBVIOUS
        <3> QED
            BY <3>1
    <2>4. CASE \E n \in 1..b : before[n].key = k
        <3>6. PICK n : IsLastWrite(before, k, n)
            BY <1>4, <2>4, AppliedIs
        <3>1. n \in 1..b /\ before[n].key = k /\ \A m \in 1..b : m > n => before[m].key # k
            BY <1>4, <3>6 DEF IsLastWrite
        <3>2. Apply(held, before)[k] = before[n].value
            BY <3>6, AppliedIs
        <3>3. n \in DOMAIN all /\ all[n] = before[n]
            BY <1>6, <3>1
        <3>4. \A m \in DOMAIN all : m > n => all[m].key # k
            <4> SUFFICES ASSUME NEW m \in 1..b + t, m > n PROVE all[m].key # k
                BY <1>6
            <4>1. CASE m \in 1..b
                BY <1>6, <3>1, <4>1
            <4>2. CASE \E j \in 1..t : m = b + j
                BY <1>6, <2>2, <4>2
            <4> QED
                BY <2>3, <4>1, <4>2
        <3>7. IsLastWrite(all, k, n)
            BY <3>1, <3>3, <3>4 DEF IsLastWrite
        <3>5. Apply(held, all)[k] = before[n].value
            BY <1>6, <3>3, <3>7, AppliedIs
        <3> QED
            BY <1>1, <1>5, <2>1, <3>2, <3>5
    <2>5. CASE \A n \in 1..b : before[n].key # k
        <3>1. Apply(held, before)[k] = held[k]
            BY <1>4, <2>5, AppliedIs
        <3>2. \A m \in 1..b + t : all[m].key # k
            <4> SUFFICES ASSUME NEW m \in 1..b + t PROVE all[m].key # k
                OBVIOUS
            <4>1. CASE m \in 1..b
                BY <1>6, <2>5, <4>1
            <4>2. CASE \E j \in 1..t : m = b + j
                BY <1>6, <2>2, <4>2
            <4> QED
                BY <2>3, <4>1, <4>2
        <3>3. Apply(held, all)[k] = held[k]
            BY <1>6, <3>2, AppliedIs
        <3> QED
            BY <1>1, <1>5, <2>1, <3>1, <3>3
    <2> QED
        BY <2>4, <2>5
<1> QED
    BY <1>7, <1>8

(* What a watch that still has its place in the table knows; the place is     *)
(* kept under the request id alone.                                           *)
Own(c) == Live(c) /\ dbSubs[c[2]] = c

OwnFollows ==
    \A c \in Watchers : Own(c) =>
        \A k \in watched[c] : Apply(seen[c], events[c])[k] = db[c[1]][k]

WatchInv ==
    /\ WatchTypeOK /\ OwnFollows
    /\ \A i \in RequestIds : dbSubs[i] # NoCall => dbSubs[i][2] = i /\ wpc[dbSubs[i]] # "ended"
    /\ \A c \in Watchers : ~Live(c) => events[c] = <<>>

LEMMA AppliedNothing ==
    ASSUME NEW held, NEW k \in DbKeys
    PROVE  Apply(held, <<>>)[k] = held[k]
<1>0. <<>> \in Seq(Changes) /\ DOMAIN <<>> = {}
    OBVIOUS
<1>1. PICK none \in Seq(Changes) : none = <<>> /\ DOMAIN none = {}
    BY <1>0
<1>3. \A n \in DOMAIN none : none[n].key # k
    BY <1>1
<1>2. Apply(held, none)[k] = held[k]
    BY <1>3, AppliedIs
<1> QED
    BY <1>1, <1>2

LEMMA WatchInitEstablishes == WatchInit => WatchInv
<1> SUFFICES ASSUME WatchInit PROVE WatchInv
    OBVIOUS
<1>1. WatchTypeOK
    BY WatchAssumption DEF WatchInit, WatchTypeOK, Contents
<1>2. \A c \in Watchers : ~Live(c) /\ events[c] = <<>>
    BY DEF WatchInit, Live
<1>3. \A i \in RequestIds : dbSubs[i] = NoCall
    BY DEF WatchInit
<1> QED
    BY <1>1, <1>2, <1>3 DEF WatchInv, OwnFollows, Own

LEMMA WriteKeeps ==
    ASSUME WatchInv, NEW p \in Connections, NEW changes \in Seq(Changes), Write(p, changes)
    PROVE  WatchInv'
<1>1. WatchTypeOK /\ OwnFollows
    BY DEF WatchInv
<1>2. /\ Roomy(Len(changes)) /\ db' = [db EXCEPT ![p] = Apply(db[p], changes)] /\ Emit(p, changes)
      /\ UNCHANGED <<wpc, watched, dbSubs, seen>>
    BY DEF Write
<1>3. PICK places : places =
          [c \in Watchers |-> {n \in DOMAIN changes : c \in Tells(p, changes[n].key)}]
    OBVIOUS
<1>4. ASSUME NEW c \in Watchers, NEW here, here = places[c]
      PROVE  /\ Live(c) => events'[c] = events[c] \o Picked(changes, here)
             /\ here \in SUBSET DOMAIN changes
    BY <1>2, <1>3, <1>4 DEF Emit
<1>13. \A c \in Watchers : ~Live(c) => events'[c] = events[c]
    BY <1>2 DEF Emit
<1>5. \A c \in Watchers : Live(c)' <=> Live(c)
    BY <1>2 DEF Live
<1>6. ASSUME NEW c \in Watchers
      PROVE  events'[c] \in Seq(Changes) /\ Len(events'[c]) <= MaxUnread
    <2>1. PICK e \in Nat, l \in Nat, u \in Nat :
            /\ events[c] \in Seq(Changes) /\ e = Len(events[c]) /\ l = Len(changes)
            /\ u = MaxUnread /\ e <= u
        BY <1>1, WatchAssumption DEF WatchTypeOK
    <2>2. CASE ~Live(c)
        BY <1>13, <2>1, <2>2
    <2>3. CASE Live(c)
        <3>0. PICK here : here = places[c]
            OBVIOUS
        <3>7. here \in SUBSET DOMAIN changes /\ events'[c] = events[c] \o Picked(changes, here)
            BY <1>4, <2>3, <3>0
        <3>1. PICK heard : heard = Picked(changes, here)
            OBVIOUS
        <3>2. heard \in Seq(Changes) /\ Len(heard) \in 0..l
            BY <2>1, <3>1, <3>7, PickedHolds
        <3>3. e + l <= u
            BY <1>2, <2>1, <2>3 DEF Roomy
        <3>4. events'[c] = events[c] \o heard
            BY <3>1, <3>7
        <3>5. events[c] \o heard \in Seq(Changes)
            BY <2>1, <3>2
        <3>6. Len(events[c] \o heard) = e + Len(heard)
            BY <2>1, <3>2, Joined
        <3> QED
            BY <2>1, <3>2, <3>3, <3>4, <3>5, <3>6
    <2> QED
        BY <2>2, <2>3
<1>7. db' \in [Connections -> Contents]
    <2>1. db[p] \in Contents
        BY <1>1 DEF WatchTypeOK
    <2>2. PICK new \in Contents : new = Apply(db[p], changes)
        BY <2>1, ApplyTyped
    <2> QED
        BY <1>1, <1>2, <2>2 DEF WatchTypeOK
<1>8. events' \in [Watchers -> Seq(Changes)]
    <2>1. events' = [c \in Watchers |-> events'[c]]
        BY <1>2 DEF Emit
    <2> QED
        BY <1>6, <2>1
<1>9. WatchTypeOK'
    BY <1>1, <1>2, <1>6, <1>7, <1>8 DEF WatchTypeOK
<1>10. OwnFollows'
    <2> SUFFICES ASSUME NEW c \in Watchers, Own(c)', NEW k \in watched'[c]
                 PROVE  Apply(seen'[c], events'[c])[k] = db'[c[1]][k]
        BY DEF OwnFollows
    <2>1. Live(c) /\ dbSubs[c[2]] = c /\ k \in watched[c] /\ k \in DbKeys
        BY <1>1, <1>2, <1>5 DEF Own, WatchTypeOK
    <2>2. c[1] \in Connections /\ c[2] \in RequestIds
        BY DEF Watchers
    <2>9. PICK held : held = seen[c]
        OBVIOUS
    <2>3. PICK before \in Seq(Changes) : held = seen[c] /\ before = events[c]
        BY <1>1, <2>9 DEF WatchTypeOK
    <2>4. Apply(held, before)[k] = db[c[1]][k]
        BY <1>1, <2>1, <2>3 DEF OwnFollows, Own
    <2>10. places[c] \in SUBSET DOMAIN changes
        BY <1>3
    <2>5. PICK here \in SUBSET DOMAIN changes : here = places[c]
        BY <2>10
    <2>6. events'[c] = before \o Picked(changes, here) /\ seen'[c] = held
        BY <1>2, <1>4, <2>1, <2>3, <2>5
    <2>7. CASE c[1] = p
        <3>1. \A n \in DOMAIN changes : changes[n].key = k => n \in here
            BY <1>3, <2>1, <2>2, <2>5, <2>7 DEF Tells
        <3>2. PICK store : store = db[p]
            OBVIOUS
        <3>3. Apply(held, before \o Picked(changes, here))[k] = Apply(store, changes)[k]
            BY <2>1, <2>4, <2>7, <3>1, <3>2, ApplyTold
        <3>4. db'[p] = Apply(store, changes)
            BY <1>1, <1>2, <3>2 DEF WatchTypeOK
        <3> QED
            BY <2>6, <2>7, <3>3, <3>4
    <2>8. CASE c[1] # p
        <3>1. here = {}
            BY <1>3, <2>5, <2>8 DEF Tells
        <3>2. PICK heard : heard = Picked(changes, here)
            OBVIOUS
        <3>3. heard \in Seq(Changes) /\ Len(heard) = 0
            BY <3>1, <3>2, PickedHolds, FS_EmptySet
        <3>4. before \o heard = before
            BY <3>3
        <3>5. db'[c[1]] = db[c[1]]
            BY <1>1, <1>2, <2>2, <2>8 DEF WatchTypeOK
        <3> QED
            BY <2>4, <2>6, <3>2, <3>4, <3>5
    <2> QED
        BY <2>7, <2>8
<1>11. \A i \in RequestIds : dbSubs'[i] # NoCall => dbSubs'[i][2] = i /\ wpc'[dbSubs'[i]] # "ended"
    BY <1>2 DEF WatchInv
<1>12. \A c \in Watchers : ~Live(c)' => events'[c] = <<>>
    BY <1>5, <1>13 DEF WatchInv
<1> QED
    BY <1>9, <1>10, <1>11, <1>12 DEF WatchInv

LEMMA WritesKeep ==
    ASSUME WatchInv, NEW p \in Connections, DbSet(p) \/ DbDelete(p) \/ DbSetMany(p)
    PROVE  WatchInv'
<1>1. \A k \in DbKeys, v \in DbValues \cup {NoValue} : [key |-> k, value |-> v] \in Changes
    BY DEF Changes
<1>2. CASE DbSet(p)
    <2>1. PICK k \in DbKeys, v \in DbValues : Write(p, <<[key |-> k, value |-> v]>>)
        BY <1>2 DEF DbSet
    <2>2. <<[key |-> k, value |-> v]>> \in Seq(Changes)
        BY <1>1
    <2> QED
        BY <2>1, <2>2, WriteKeeps
<1>3. CASE DbDelete(p)
    <2>1. PICK k \in DbKeys : Write(p, <<[key |-> k, value |-> NoValue]>>)
        BY <1>3 DEF DbDelete
    <2>2. <<[key |-> k, value |-> NoValue]>> \in Seq(Changes)
        BY <1>1
    <2> QED
        BY <2>1, <2>2, WriteKeeps
<1>4. CASE DbSetMany(p)
    <2>1. PICK k1, k2 \in DbKeys, v1, v2 \in DbValues :
            Write(p, <<[key |-> k1, value |-> v1], [key |-> k2, value |-> v2]>>)
        BY <1>4 DEF DbSetMany
    <2>2. <<[key |-> k1, value |-> v1], [key |-> k2, value |-> v2]>> \in Seq(Changes)
        BY <1>1
    <2> QED
        BY <2>1, <2>2, WriteKeeps
<1> QED
    BY <1>2, <1>3, <1>4

(* A new watch begins with what the store holds and nothing to read.          *)
LEMMA OpenKeeps == ASSUME WatchInv, NEW p \in Connections, OpenWatch(p) PROVE WatchInv'
<1>1. WatchTypeOK /\ OwnFollows
    BY DEF WatchInv
<1>2. PICK i \in RequestIds, keys \in KeyGroups :
        /\ \A j \in i..MaxId : wpc[<<p, j>>] = "none"
        /\ wpc' = [wpc EXCEPT ![<<p, i>>] = "opening"]
        /\ watched' = [watched EXCEPT ![<<p, i>>] = keys]
        /\ dbSubs' = [dbSubs EXCEPT ![i] = <<p, i>>]
        /\ seen' = [seen EXCEPT ![<<p, i>>] = db[p]]
        /\ UNCHANGED <<db, events>>
    BY DEF OpenWatch
<1>0. <<p, i>> \in Watchers
    BY DEF Watchers
<1>3. PICK c \in Watchers : c = <<p, i>> /\ c[1] = p /\ c[2] = i
    BY <1>0
<1>4. wpc[c] = "none" /\ keys \in SUBSET DbKeys /\ db[p] \in Contents
    <2>1. i \in i..MaxId
        BY WatchAssumption DEF RequestIds
    <2> QED
        BY <1>1, <1>2, <1>3, <2>1, WatchAssumption DEF WatchTypeOK
<1>5. /\ wpc' = [wpc EXCEPT ![c] = "opening"] /\ watched' = [watched EXCEPT ![c] = keys]
      /\ dbSubs' = [dbSubs EXCEPT ![i] = c] /\ seen' = [seen EXCEPT ![c] = db[p]]
      /\ db' = db /\ events' = events
    BY <1>2, <1>3
<1>6. WatchTypeOK'
    BY <1>1, <1>4, <1>5 DEF WatchTypeOK
<1>7. events[c] = <<>>
    BY <1>4 DEF WatchInv, Live
<1>8. ASSUME NEW d \in Watchers, Own(d)', NEW k \in watched'[d]
      PROVE  Apply(seen'[d], events'[d])[k] = db'[d[1]][k]
    <2>1. k \in DbKeys
        BY <1>6, <1>8 DEF WatchTypeOK
    <2>2. CASE d = c
        <3>1. seen'[d] = db[p] /\ events'[d] = <<>> /\ db'[d[1]] = db[p]
            BY <1>1, <1>3, <1>5, <1>7, <2>2 DEF WatchTypeOK
        <3> QED
            BY <2>1, <3>1, AppliedNothing
    <2>3. CASE d # c
        <3>1. /\ wpc'[d] = wpc[d] /\ watched'[d] = watched[d] /\ seen'[d] = seen[d]
              /\ d[2] \in RequestIds /\ dbSubs'[d[2]] = d
            BY <1>1, <1>5, <1>8, <2>3 DEF WatchTypeOK, Watchers, Own
        <3>2. dbSubs[d[2]] = d
            BY <1>1, <1>5, <2>3, <3>1 DEF WatchTypeOK
        <3>3. Own(d)
            BY <1>8, <3>1, <3>2 DEF Own, Live
        <3> QED
            BY <1>1, <1>5, <1>8, <3>1, <3>3 DEF OwnFollows
    <2> QED
        BY <2>2, <2>3
<1>9. ASSUME NEW j \in RequestIds, dbSubs'[j] # NoCall
      PROVE  dbSubs'[j][2] = j /\ wpc'[dbSubs'[j]] # "ended"
    <2>1. CASE j = i
        <3>1. dbSubs'[j] = c /\ wpc'[c] = "opening"
            BY <1>1, <1>5, <2>1 DEF WatchTypeOK
        <3> QED
            BY <1>3, <2>1, <3>1
    <2>2. CASE j # i
        <3>1. dbSubs'[j] = dbSubs[j] /\ dbSubs[j] \in Watchers
            BY <1>1, <1>5, <1>9, <2>2 DEF WatchTypeOK
        <3>2. dbSubs[j][2] = j /\ wpc[dbSubs[j]] # "ended"
            BY <1>9, <3>1 DEF WatchInv
        <3>3. dbSubs[j] # c
            BY <1>3, <2>2, <3>2
        <3>4. wpc'[dbSubs[j]] = wpc[dbSubs[j]]
            BY <1>1, <1>5, <3>1, <3>3 DEF WatchTypeOK
        <3> QED
            BY <3>1, <3>2, <3>4
    <2> QED
        BY <2>1, <2>2
<1>10. ASSUME NEW d \in Watchers, ~Live(d)' PROVE events'[d] = <<>>
    <2>1. CASE d = c
        BY <1>5, <1>7, <2>1
    <2>2. CASE d # c
        <3>1. wpc'[d] = wpc[d]
            BY <1>1, <1>5, <2>2 DEF WatchTypeOK
        <3> QED
            BY <1>5, <1>10, <3>1 DEF WatchInv, Live
    <2> QED
        BY <2>1, <2>2
<1> QED
    BY <1>6, <1>8, <1>9, <1>10 DEF WatchInv, OwnFollows

LEMMA BeginKeeps == ASSUME WatchInv, NEW c \in Watchers, BeginIteration(c) PROVE WatchInv'
<1>1. WatchTypeOK /\ OwnFollows
    BY DEF WatchInv
<1>2. /\ wpc[c] = "opening" /\ wpc' = [wpc EXCEPT ![c] = "iterating"]
      /\ UNCHANGED <<db, watched, dbSubs, events, seen>>
    BY DEF BeginIteration
<1>3. WatchTypeOK'
    BY <1>1, <1>2 DEF WatchTypeOK
<1>4. \A d \in Watchers : (Live(d)' <=> Live(d)) /\ (wpc'[d] = "ended" => wpc[d] = "ended")
    BY <1>1, <1>2 DEF WatchTypeOK, Live
<1>5. OwnFollows'
    BY <1>1, <1>2, <1>4 DEF OwnFollows, Own
<1>6. \A i \in RequestIds : dbSubs[i] # NoCall => dbSubs[i] \in Watchers
    BY <1>1 DEF WatchTypeOK
<1>7. \A i \in RequestIds : dbSubs'[i] # NoCall => dbSubs'[i][2] = i /\ wpc'[dbSubs'[i]] # "ended"
    BY <1>2, <1>4, <1>6 DEF WatchInv
<1>8. \A d \in Watchers : ~Live(d)' => events'[d] = <<>>
    BY <1>2, <1>4 DEF WatchInv
<1> QED
    BY <1>3, <1>5, <1>7, <1>8 DEF WatchInv

LEMMA ChangeKeeps == ASSUME WatchInv, NEW c \in Watchers, NextChange(c) PROVE WatchInv'
<1>1. WatchTypeOK /\ OwnFollows
    BY DEF WatchInv
<1>2. /\ wpc[c] = "iterating" /\ events[c] # <<>>
      /\ seen' = [seen EXCEPT ![c] = Apply(seen[c], <<Head(events[c])>>)]
      /\ events' = [events EXCEPT ![c] = Tail(events[c])]
      /\ UNCHANGED <<db, wpc, watched, dbSubs>>
    BY DEF NextChange
<1>3. PICK news \in Seq(Changes) : news = events[c] /\ news # <<>>
    BY <1>1, <1>2 DEF WatchTypeOK
<1>4. PICK held \in Contents : held = seen[c]
    BY <1>1 DEF WatchTypeOK
<1>5. PICK rest : rest = Tail(news)
    OBVIOUS
<1>6. rest \in Seq(Changes) /\ Len(rest) = Len(news) - 1 /\ Len(news) \in Nat
    BY <1>3, <1>5
<1>7. PICK after : after = Apply(held, <<Head(news)>>)
    OBVIOUS
<1>8. after \in Contents
    <2>1. <<Head(news)>> \in Seq(Changes)
        BY <1>3
    <2> QED
        BY <1>7, <2>1, ApplyTyped
<1>9. seen' = [seen EXCEPT ![c] = after] /\ events' = [events EXCEPT ![c] = rest]
    BY <1>2, <1>3, <1>4, <1>5, <1>7
<1>10. WatchTypeOK'
    <2>1. seen' \in [Watchers -> Contents] /\ events' \in [Watchers -> Seq(Changes)]
        BY <1>1, <1>6, <1>8, <1>9 DEF WatchTypeOK
    <2>2. \A d \in Watchers : Len(events'[d]) <= MaxUnread
        <3> SUFFICES ASSUME NEW d \in Watchers PROVE Len(events'[d]) <= MaxUnread
            OBVIOUS
        <3>1. CASE d # c
            BY <1>1, <1>9, <3>1 DEF WatchTypeOK
        <3>2. CASE d = c
            <4>1. Len(news) <= MaxUnread /\ events'[d] = rest
                BY <1>1, <1>3, <1>9, <3>2 DEF WatchTypeOK
            <4> QED
                BY <1>6, <4>1, WatchAssumption
        <3> QED
            BY <3>1, <3>2
    <2> QED
        BY <1>1, <1>2, <2>1, <2>2 DEF WatchTypeOK
<1>11. \A d \in Watchers : Own(d)' <=> Own(d)
    BY <1>2 DEF Own, Live
<1>12. ASSUME NEW d \in Watchers, Own(d), NEW k \in watched[d]
       PROVE  Apply(seen'[d], events'[d])[k] = db[d[1]][k]
    <2>1. k \in DbKeys /\ Apply(seen[d], events[d])[k] = db[d[1]][k]
        BY <1>1, <1>12 DEF WatchTypeOK, OwnFollows
    <2>2. CASE d # c
        <3>1. seen'[d] = seen[d] /\ events'[d] = events[d]
            BY <1>1, <1>9, <2>2 DEF WatchTypeOK
        <3> QED
            BY <2>1, <3>1
    <2>3. CASE d = c
        <3>1. seen'[d] = after /\ events'[d] = rest
            BY <1>1, <1>9, <2>3 DEF WatchTypeOK
        <3>2. Apply(after, rest)[k] = Apply(held, news)[k]
            BY <1>3, <1>5, <1>7, <2>1, ApplyFirst
        <3> QED
            BY <1>3, <1>4, <2>1, <2>3, <3>1, <3>2
    <2> QED
        BY <2>2, <2>3
<1>13. OwnFollows'
    BY <1>2, <1>11, <1>12 DEF OwnFollows
<1>14. \A d \in Watchers : ~Live(d)' => events'[d] = <<>>
    <2>1. \A d \in Watchers : ~Live(d)' => d # c /\ ~Live(d)
        BY <1>2 DEF Live
    <2>2. \A d \in Watchers : d # c => events'[d] = events[d]
        BY <1>1, <1>9 DEF WatchTypeOK
    <2> QED
        BY <2>1, <2>2 DEF WatchInv
<1>15. \A i \in RequestIds : dbSubs'[i] # NoCall => dbSubs'[i][2] = i /\ wpc'[dbSubs'[i]] # "ended"
    BY <1>2 DEF WatchInv
<1> QED
    BY <1>10, <1>13, <1>14, <1>15 DEF WatchInv

(* What the plugin reads itself is newer than every event on its way, and     *)
(* their last writes are what the store holds.                                *)
LEMMA StaleEvents ==
    ASSUME NEW held, NEW store, NEW changes \in Seq(Changes), NEW k \in DbKeys,
           Apply(held, changes)[k] = store[k]
    PROVE  Apply(store, changes)[k] = store[k]
<1>1. CASE \E n \in DOMAIN changes : changes[n].key = k
    <2>1. PICK n : IsLastWrite(changes, k, n)
        BY <1>1, AppliedIs
    <2>2. Apply(held, changes)[k] = changes[n].value /\ Apply(store, changes)[k] = changes[n].value
        BY <2>1, AppliedIs
    <2> QED
        BY <2>2
<1>2. CASE \A n \in DOMAIN changes : changes[n].key # k
    BY <1>2, AppliedIs
<1> QED
    BY <1>1, <1>2

LEMMA GetKeeps == ASSUME WatchInv, NEW c \in Watchers, DbGetMany(c) PROVE WatchInv'
<1>1. WatchTypeOK /\ OwnFollows
    BY DEF WatchInv
<1>2. Live(c) /\ seen' = [seen EXCEPT ![c] = db[c[1]]] /\ UNCHANGED <<db, wpc, watched, dbSubs, events>>
    BY DEF DbGetMany
<1>3. PICK store \in Contents : store = db[c[1]]
    BY <1>1 DEF WatchTypeOK, Watchers
<1>4. WatchTypeOK'
    BY <1>1, <1>2, <1>3 DEF WatchTypeOK
<1>5. \A d \in Watchers : (Live(d)' <=> Live(d)) /\ (Own(d)' <=> Own(d))
    BY <1>2 DEF Own, Live
<1>6. ASSUME NEW d \in Watchers, Own(d), NEW k \in watched[d]
      PROVE  Apply(seen'[d], events[d])[k] = db[d[1]][k]
    <2>1. k \in DbKeys /\ Apply(seen[d], events[d])[k] = db[d[1]][k] /\ events[d] \in Seq(Changes)
        BY <1>1, <1>6 DEF WatchTypeOK, OwnFollows
    <2>2. CASE d # c
        <3>1. seen'[d] = seen[d]
            BY <1>1, <1>2, <2>2 DEF WatchTypeOK
        <3> QED
            BY <2>1, <3>1
    <2>3. CASE d = c
        <3>1. seen'[d] = store
            BY <1>1, <1>2, <1>3, <2>3 DEF WatchTypeOK
        <3>2. Apply(store, events[d])[k] = store[k]
            BY <1>3, <2>1, <2>3, StaleEvents
        <3> QED
            BY <1>3, <2>3, <3>1, <3>2
    <2> QED
        BY <2>2, <2>3
<1>7. OwnFollows'
    BY <1>2, <1>5, <1>6 DEF OwnFollows
<1> QED
    BY <1>2, <1>4, <1>5, <1>7 DEF WatchInv

LEMMA EndKeeps == ASSUME WatchInv, NEW c \in Watchers, EndWatch(c) PROVE WatchInv'
<1>1. WatchTypeOK /\ OwnFollows
    BY DEF WatchInv
<1>2. PICK end \in {"dropped", "ended"} : end = IF wpc[c] = "opening" THEN "dropped" ELSE "ended"
    OBVIOUS
<1>3. /\ Live(c) /\ wpc' = [wpc EXCEPT ![c] = end]
      /\ dbSubs' = IF wpc[c] = "iterating" THEN [dbSubs EXCEPT ![c[2]] = NoCall] ELSE dbSubs
      /\ events' = [events EXCEPT ![c] = <<>>] /\ UNCHANGED <<db, watched, seen>>
    BY <1>2 DEF EndWatch
<1>4. c[2] \in RequestIds /\ wpc[c] \in {"opening", "iterating"}
    BY <1>3 DEF Watchers, Live
<1>5. WatchTypeOK'
    <2>1. wpc' \in [Watchers -> {"none", "opening", "iterating", "ended", "dropped"}]
        BY <1>1, <1>3 DEF WatchTypeOK
    <2>2. dbSubs' \in [RequestIds -> Watchers \cup {NoCall}]
        BY <1>1, <1>3 DEF WatchTypeOK
    <2>3. events' \in [Watchers -> Seq(Changes)] /\ \A d \in Watchers : Len(events'[d]) <= MaxUnread
        <3>5. <<>> \in Seq(Changes) /\ Len(<<>>) = 0
            OBVIOUS
        <3>1. PICK none \in Seq(Changes) : none = <<>> /\ Len(none) = 0
            BY <3>5
        <3>2. events' = [events EXCEPT ![c] = none]
            BY <1>3, <3>1
        <3>3. \A d \in Watchers : events'[d] = events[d] \/ events'[d] = none
            BY <1>1, <3>2 DEF WatchTypeOK
        <3>4. \A d \in Watchers : Len(events'[d]) <= MaxUnread
            BY <1>1, <3>1, <3>3, WatchAssumption DEF WatchTypeOK
        <3> QED
            BY <1>1, <3>2, <3>4 DEF WatchTypeOK
    <2> QED
        BY <1>1, <1>3, <2>1, <2>2, <2>3 DEF WatchTypeOK
<1>6. ~Live(c)' /\ \A d \in Watchers : d # c => wpc'[d] = wpc[d] /\ events'[d] = events[d]
    BY <1>1, <1>2, <1>3 DEF WatchTypeOK, Live
<1>7. events'[c] = <<>>
    BY <1>1, <1>3 DEF WatchTypeOK
<1>8. \A i \in RequestIds : dbSubs'[i] = dbSubs[i] \/ dbSubs'[i] = NoCall
    BY <1>1, <1>3 DEF WatchTypeOK
<1>9. ASSUME NEW d \in Watchers, Own(d)', NEW k \in watched'[d]
      PROVE  Apply(seen'[d], events'[d])[k] = db'[d[1]][k]
    <2>1. d # c /\ Live(d)' /\ dbSubs'[d[2]] = d /\ d[2] \in RequestIds
        BY <1>6, <1>9 DEF Own, Watchers
    <2>2. d # NoCall
        BY WatchAssumption
    <2>3. dbSubs[d[2]] = d
        BY <1>8, <2>1, <2>2
    <2>4. Own(d)
        BY <1>6, <2>1, <2>3 DEF Own, Live
    <2> QED
        BY <1>1, <1>3, <1>6, <1>9, <2>1, <2>4 DEF OwnFollows
<1>10. ASSUME NEW i \in RequestIds, dbSubs'[i] # NoCall
       PROVE  dbSubs'[i][2] = i /\ wpc'[dbSubs'[i]] # "ended"
    <2>1. dbSubs'[i] = dbSubs[i] /\ dbSubs[i] \in Watchers
        BY <1>1, <1>8, <1>10 DEF WatchTypeOK
    <2>2. dbSubs[i][2] = i /\ wpc[dbSubs[i]] # "ended"
        BY <1>10, <2>1 DEF WatchInv
    <2>3. CASE dbSubs[i] # c
        BY <1>6, <2>1, <2>2, <2>3
    <2>4. CASE dbSubs[i] = c
        <3>1. c[2] = i
            BY <2>2, <2>4
        <3>2. wpc[c] # "iterating"
            BY <1>1, <1>3, <1>4, <1>10, <3>1 DEF WatchTypeOK
        <3>3. wpc'[c] = "dropped"
            BY <1>1, <1>2, <1>3, <1>4, <3>2 DEF WatchTypeOK
        <3> QED
            BY <2>1, <2>2, <2>4, <3>3
    <2> QED
        BY <2>3, <2>4
<1>11. ASSUME NEW d \in Watchers, ~Live(d)' PROVE events'[d] = <<>>
    BY <1>6, <1>7, <1>11 DEF WatchInv, Live
<1> QED
    BY <1>5, <1>9, <1>10, <1>11 DEF WatchInv, OwnFollows

LEMMA WatchInvHolds == WatchSpec => []WatchInv
<1>1. WatchInv /\ UNCHANGED watchVars => WatchInv'
    BY DEF watchVars, WatchInv, WatchTypeOK, OwnFollows, Own, Live
<1>2. ASSUME WatchInv, WatchNext PROVE WatchInv'
    BY <1>2, WritesKeep, OpenKeeps, BeginKeeps, ChangeKeeps, GetKeeps, EndKeeps DEF WatchNext
<1> QED
    BY <1>1, <1>2, WatchInitEstablishes, PTL DEF WatchSpec

(* A watch that has its place in the table loses no change, for any number of *)
(* connections, keys and watches; and a subscription whose iteration has      *)
(* ended is gone.  (A second connection can take the place, as ids are        *)
(* counted by each.)                                                          *)
THEOREM OwnWatchFollows == WatchSpec => [](OwnFollows /\ SubsReclaimed)
<1>1. WatchInv => OwnFollows /\ SubsReclaimed
    BY DEF WatchInv, SubsReclaimed
<1> QED
    BY <1>1, WatchInvHolds, PTL

(* With one connection no other takes the place of a watch: every watch       *)
(* follows the store while it lives and is forgotten when its iteration ends. *)
THEOREM SoleWatchKept ==
    ASSUME NEW p, Connections = {p}
    PROVE  WatchSpec => []WatchKept
<1> DEFINE AllOwn == \A c \in Watchers : Live(c) => dbSubs[c[2]] = c
<1>1. WatchInit => AllOwn
    BY DEF WatchInit, Live
<1>2. ASSUME WatchInv, AllOwn, [WatchNext]_watchVars PROVE AllOwn'
    <2> SUFFICES ASSUME NEW c \in Watchers, Live(c)' PROVE dbSubs'[c[2]] = c
        OBVIOUS
    <2>1. WatchTypeOK /\ c[1] = p /\ c[2] \in RequestIds /\ c = <<c[1], c[2]>>
        BY <1>2 DEF WatchInv, Watchers
    <2>2. CASE wpc' = wpc /\ dbSubs' = dbSubs
        BY <1>2, <2>2 DEF Live
    <2>3. CASE OpenWatch(p)
        <3>1. PICK i \in RequestIds :
                /\ wpc' = [wpc EXCEPT ![<<p, i>>] = "opening"]
                /\ dbSubs' = [dbSubs EXCEPT ![i] = <<p, i>>]
            BY <2>3 DEF OpenWatch
        <3>2. CASE c = <<p, i>>
            BY <2>1, <3>1, <3>2 DEF WatchTypeOK
        <3>3. CASE c # <<p, i>>
            <4>1. c[2] # i /\ wpc'[c] = wpc[c] /\ dbSubs'[c[2]] = dbSubs[c[2]]
                BY <2>1, <3>1, <3>3 DEF WatchTypeOK
            <4> QED
                BY <1>2, <4>1 DEF Live
        <3> QED
            BY <3>2, <3>3
    <2>4. CASE \E d \in Watchers : BeginIteration(d)
        <3>1. Live(c) /\ dbSubs' = dbSubs
            BY <2>1, <2>4 DEF BeginIteration, WatchTypeOK, Live
        <3> QED
            BY <1>2, <3>1
    <2>5. CASE \E d \in Watchers : EndWatch(d)
        <3>1. PICK d \in Watchers : EndWatch(d)
            BY <2>5
        <3>2. c # d
            BY <2>1, <3>1 DEF EndWatch, WatchTypeOK, Live
        <3>5. d = <<p, d[2]>> /\ c = <<p, c[2]>>
            BY <2>1 DEF Watchers
        <3>6. c[2] # d[2]
            BY <3>2, <3>5
        <3>3. wpc'[c] = wpc[c] /\ c[2] # d[2]
            BY <2>1, <3>1, <3>2, <3>6 DEF EndWatch, WatchTypeOK
        <3>4. dbSubs'[c[2]] = dbSubs[c[2]]
            BY <2>1, <3>1, <3>3 DEF EndWatch, WatchTypeOK
        <3> QED
            BY <1>2, <3>3, <3>4 DEF Live
    <2> QED
        BY <1>2, <2>2, <2>3, <2>4, <2>5 DEF WatchNext, DbSet, DbDelete, DbSetMany, Write,
           NextChange, DbGetMany, watchVars
<1>3. WatchInv /\ AllOwn => WatchKept
    BY DEF WatchInv, OwnFollows, Own, WatchKept, FollowsStore, SubsReclaimed
<1> QED
    BY <1>1, <1>2, <1>3, WatchInvHolds, PTL DEF WatchSpec

-----------------------------------------------------------------------------
(* The components side by side. *)

(* Whatever step is taken, it is one of each component or leaves it as it is. *)
LEMMA EachServiceSteps ==
    ASSUME [ServicesNext]_servicesVars
    PROVE  /\ [WatchNext]_watchVars /\ [ConvNext]_convVars /\ [HistNext]_histVars
           /\ [KbNext]_kbVars /\ [ProvNext]_provVars /\ [MemNext]_memoryVars
           /\ [DialogueNext]_dialogueVars /\ [LimiterNext]_limiterVars
<1>1. ASSUME OthersStay
      PROVE  /\ part = "watch" \/ UNCHANGED watchVars
             /\ part = "conversations" \/ UNCHANGED convVars
             /\ part = "history" \/ UNCHANGED histVars
             /\ part = "knowledge" \/ UNCHANGED kbVars
             /\ part = "providers" \/ UNCHANGED provVars
             /\ part = "memory" \/ UNCHANGED memoryVars
             /\ part = "dialogues" \/ UNCHANGED dialogueVars
             /\ part = "limiter" \/ UNCHANGED limiterVars
    BY <1>1, Zenon DEF OthersStay
<1>2. CASE WatchRuns
    BY <1>1, <1>2 DEF WatchRuns
<1>3. CASE ConversationsRun
    BY <1>1, <1>3 DEF ConversationsRun
<1>4. CASE HistoryRuns
    BY <1>1, <1>4 DEF HistoryRuns
<1>5. CASE KnowledgeRuns
    BY <1>1, <1>5 DEF KnowledgeRuns
<1>6. CASE ProvidersRun
    BY <1>1, <1>6 DEF ProvidersRun
<1>7. CASE MemoryRuns
    BY <1>1, <1>7 DEF MemoryRuns
<1>8. CASE DialoguesRun
    BY <1>1, <1>8 DEF DialoguesRun
<1>9. CASE LimiterRuns
    BY <1>1, <1>9 DEF LimiterRuns
<1>10. CASE UNCHANGED servicesVars
    BY <1>10, Zenon DEF servicesVars
<1> QED
    BY <1>2, <1>3, <1>4, <1>5, <1>6, <1>7, <1>8, <1>9, <1>10 DEF ServicesNext

(* What holds of a component by itself holds of it among the others.          *)
LEMMA EachServiceByItself ==
    ServicesSpec => /\ WatchSpec /\ ConvSpec /\ HistSpec /\ KbSpec
                    /\ ProvSpec /\ MemSpec /\ DialogueSpec /\ LimiterSpec
<1>1. ServicesInit => /\ WatchInit /\ ConvInit /\ HistInit /\ KbInit
                      /\ ProvInit /\ MemInit /\ DialogueInit /\ LimiterInit
    BY DEF ServicesInit
<1>2. [ServicesNext]_servicesVars =>
          /\ [WatchNext]_watchVars /\ [ConvNext]_convVars /\ [HistNext]_histVars
          /\ [KbNext]_kbVars /\ [ProvNext]_provVars /\ [MemNext]_memoryVars
          /\ [DialogueNext]_dialogueVars /\ [LimiterNext]_limiterVars
    BY EachServiceSteps
<1> QED
    BY <1>1, <1>2, PTL
    DEF ServicesSpec, WatchSpec, ConvSpec, HistSpec, KbSpec, ProvSpec, MemSpec,
        DialogueSpec, LimiterSpec

(* All that the host keeps for its plugins keeps to its types: watches,       *)
(* conversations, histories, knowledge bases, providers, memories, dialogues  *)
(* and limits, for all values of the constants of each.                       *)
THEOREM ServicesTyped == ServicesSpec => []ServicesTypeOK
<1>1. ServicesSpec => [](WatchTypeOK /\ ConvTypeOK)
    <2>1. WatchInv /\ ConvInv => WatchTypeOK /\ ConvTypeOK
        BY DEF WatchInv, ConvInv
    <2> QED
        BY <2>1, EachServiceByItself, WatchInvHolds, ConvInvHolds, PTL
<1>2. ServicesSpec => [](HistTypeOK /\ KbTypeOK)
    BY EachServiceByItself, HistoryTyped, KbTyped, PTL
<1>3. ServicesSpec => [](ProvTypeOK /\ MemTypeOK)
    <2>1. ProvInv => ProvTypeOK
        BY DEF ProvInv
    <2> QED
        BY <2>1, EachServiceByItself, ProvInvHolds, MemoryTyped, PTL
<1>4. ServicesSpec => [](DialogueTypeOK /\ LimiterTypeOK)
    <2>1. DialogueInv => DialogueTypeOK
        BY DEF DialogueInv
    <2> QED
        BY <2>1, EachServiceByItself, DialogueInvHolds, LimiterTyped, PTL
<1>5. WatchTypeOK /\ ConvTypeOK /\ HistTypeOK /\ KbTypeOK /\ ProvTypeOK /\ MemTypeOK
         /\ DialogueTypeOK /\ LimiterTypeOK => ServicesTypeOK
    BY DEF ServicesTypeOK
<1> QED
    BY <1>1, <1>2, <1>3, <1>4, <1>5, PTL
=============================================================================
