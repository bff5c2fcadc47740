---------------------------- MODULE KnowledgeBases ----------------------------
(* kb.*: knowledge bases, their documents, the contents kept by document id   *)
(* and the counts a knowledge base shows.  No handler awaits.                 *)
EXTENDS Integers, FiniteSets, FiniteSetsExt

CONSTANTS
    MaxKb, MaxDoc,   \* bounds on the knowledge bases and documents ever made
    TextLengths,     \* characters of an uploaded text
    ChunkSizes,      \* chunk_size of a knowledge base or a document
    DefaultSize      \* 512, when neither has one

ASSUME KbAssumption ==
    /\ MaxKb \in Nat /\ MaxDoc \in Nat
    /\ TextLengths \subseteq Nat /\ ChunkSizes \subseteq Int
    /\ DefaultSize \in Nat \ {0}

KbIds  == 1..MaxKb
DocIds == 1..MaxDoc
Sizes  == ChunkSizes \cup {0}   \* 0: None or no number
NoKb   == 0

VARIABLES
    kbs,        \* _kb_store: chunk_size, doc_count and chunk_count of a kb
    docTables,     \* keys of _kb_document_store
    documents,  \* its documents: the kb and the chunk_count
    contents,   \* _kb_document_content_store: the length of each text
    madeKbs, madeDocs

kbVars == <<kbs, docTables, documents, contents, madeKbs, madeDocs>>

KbTypeOK ==
    /\ DOMAIN kbs \subseteq 1..madeKbs /\ docTables \subseteq KbIds
    /\ \A k \in DOMAIN kbs : /\ kbs[k].size \in Sizes
                             /\ kbs[k].docs \in 0..MaxDoc /\ kbs[k].chunks \in Nat
    /\ DOMAIN documents \subseteq 1..madeDocs
    /\ \A d \in DOMAIN documents : documents[d].kb \in docTables /\ documents[d].chunks \in Nat
    /\ \A d \in DOMAIN contents : contents[d] \in TextLengths
    /\ madeKbs \in 0..MaxKb /\ madeDocs \in 0..MaxDoc

KbInit ==
    /\ kbs = <<>> /\ docTables = {} /\ documents = <<>> /\ contents = <<>>
    /\ madeKbs = 0 /\ madeDocs = 0

-----------------------------------------------------------------------------
Put(f, x, v)     == [y \in DOMAIN f \cup {x} |-> IF y = x THEN v ELSE f[y]]
Without(f, gone) == [y \in DOMAIN f \ gone |-> f[y]]

DocsOf(docs, k) == {d \in DOMAIN docs : docs[d].kb = k}

(* chunk_count of a text: a started chunk counts; an empty text is one, and   *)
(* so is any text cut by a size below zero.                                   *)
Chunks(length, size) ==
    LET chars == IF length = 0 THEN 1 ELSE length
        by    == IF size = 0 THEN DefaultSize ELSE size
    IN IF by < 0 THEN 1 ELSE (chars + by - 1) \div by

ChunksOf(docs, k) == [d \in DocsOf(docs, k) |-> docs[d].chunks]
Total(counts)     == MapThenSumSet(LAMBDA d : counts[d], DOMAIN counts)

\* Mutant: the counts are those of before the change.
RefreshedLate(k, docs) ==
    IF k \notin DOMAIN kbs THEN kbs
    ELSE [kbs EXCEPT ![k].docs = Cardinality(DocsOf(documents, k)),
                     ![k].chunks = Total(ChunksOf(documents, k))]

(* _refresh_mock_kb_stats, after the documents have become docs.              *)
Refreshed(k, docs) ==
    IF k \notin DOMAIN kbs THEN kbs
    ELSE [kbs EXCEPT ![k].docs = Cardinality(DocsOf(docs, k)),
                     ![k].chunks = Total(ChunksOf(docs, k))]

KbCreate ==
    \E size \in Sizes :
        /\ madeKbs < MaxKb
        /\ madeKbs' = madeKbs + 1
        /\ kbs' = Put(kbs, madeKbs', [size |-> size, docs |-> 0, chunks |-> 0])
        /\ docTables' = docTables \cup {madeKbs'}
        /\ UNCHANGED <<documents, contents, madeDocs>>

(* kb.update: documents keep the chunks they have.                            *)
KbUpdate ==
    \E k \in DOMAIN kbs, size \in Sizes :
        /\ kbs' = [kbs EXCEPT ![k].size = size]
        /\ UNCHANGED <<docTables, documents, contents, madeKbs, madeDocs>>

\* Mutant: the documents of a deleted knowledge base stay.
KbDeleteKeeps ==
    \E k \in KbIds :
        /\ kbs' = Without(kbs, {k})
        /\ docTables' = docTables \ {k}
        /\ UNCHANGED <<documents, contents, madeKbs, madeDocs>>

KbDelete ==
    \E k \in KbIds :
        /\ kbs' = Without(kbs, {k})
        /\ docTables' = docTables \ {k}
        /\ documents' = Without(documents, DocsOf(documents, k))
        /\ contents' = Without(contents, DocsOf(documents, k))
        /\ UNCHANGED <<madeKbs, madeDocs>>

(* kb.document.upload refuses a knowledge base that is gone.  A size of the   *)
(* document's own comes before that of the knowledge base.                    *)
DocUpload ==
    \E k \in DOMAIN kbs, length \in TextLengths, own \in Sizes :
        /\ madeDocs < MaxDoc
        /\ madeDocs' = madeDocs + 1
        /\ LET size == IF own <= 0 THEN kbs[k].size ELSE own IN
           documents' = Put(documents, madeDocs', [kb |-> k, chunks |-> Chunks(length, size)])
        /\ contents' = Put(contents, madeDocs', length)
        /\ kbs' = Refreshed(k, documents')
        /\ docTables' = docTables \cup {k}
        /\ UNCHANGED madeKbs

(* kb.document.list and get make a table for a kb that never was or is gone.  *)
DocLook ==
    \E k \in KbIds :
        /\ docTables' = docTables \cup {k}
        /\ UNCHANGED <<kbs, documents, contents, madeKbs, madeDocs>>

(* kb.document.delete of a document the knowledge base has.                   *)
DocDelete ==
    \E k \in KbIds : \E d \in DocsOf(documents, k) :
        /\ documents' = Without(documents, {d})
        /\ contents' = Without(contents, {d})
        /\ kbs' = Refreshed(k, documents')
        /\ UNCHANGED <<docTables, madeKbs, madeDocs>>

(* kb.document.refresh cuts the text anew by the size the kb has now.         *)
DocRefresh ==
    \E k \in KbIds : \E d \in DocsOf(documents, k) :
        /\ LET length == IF d \in DOMAIN contents THEN contents[d] ELSE 0
               size   == IF k \in DOMAIN kbs THEN kbs[k].size ELSE 0
           IN documents' = [documents EXCEPT ![d].chunks = Chunks(length, size)]
        /\ kbs' = Refreshed(k, documents')
        /\ UNCHANGED <<docTables, contents, madeKbs, madeDocs>>

KbNext ==
    \/ KbCreate \/ KbUpdate \/ KbDelete
    \/ DocUpload \/ DocLook \/ DocDelete \/ DocRefresh

KbSpec == KbInit /\ [][KbNext]_kbVars

-----------------------------------------------------------------------------
(* The counts a knowledge base shows are those of its documents, and no       *)
(* document belongs to one that is gone: also after documents and sizes have  *)
(* changed in any order.  A text is kept as long as its document.             *)
StatsAgree ==
    /\ \A k \in DOMAIN kbs :
          /\ kbs[k].docs = Cardinality(DocsOf(documents, k))
          /\ kbs[k].chunks = Total(ChunksOf(documents, k))
    /\ \A d \in DOMAIN documents : documents[d].kb \in DOMAIN kbs
    /\ DOMAIN contents = DOMAIN documents
=============================================================================
