------------------------------- MODULE Retrieval -------------------------------
(***************************************************************************)
(* Datasets and what /generate retrieves from them: the import of a file   *)
(* (services/dataset_import.py, api/routers/datasets.py), the cache of     *)
(* corpus indexes that the requests of one process share                   *)
(* (retrieval/corpus_cache.py), and the documents a request is given       *)
(* (services/generation.py, retrieval/retriever.py).                       *)
(*                                                                         *)
(* A request awaits the count of the records, the records and their        *)
(* embeddings one after the other; other requests run in between.          *)
(***************************************************************************)
EXTENDS Integers, Sequences, SequencesExt

CONSTANTS
    Datasets,       \* (name, version)
    Files,          \* what clients upload
    MaxRecords,     \* bound on the records of a dataset
    Questions,
    Match,          \* per question: how well the i-th record of a dataset fits
    TopK,           \* the numbers of documents a request may ask for
    Capacity,       \* CAPACITY
    Requests        \* requests in flight at a time

\* A record has a context or an expected answer to retrieve, or is bare.  A line
\* of a file is one of the two, or is blank, or has no question.
Records == {"text", "bare"}
Lines == Records \cup {"blank", "malformed"}

\* Of the constants; assumed by the module that instantiates this one.
RetrievalAssumption ==
    /\ Files \subseteq [format : {"jsonl", "csv", "other"}, header : BOOLEAN, lines : Seq(Lines)]
    /\ MaxRecords \in Nat
    /\ Match \in [Questions -> [1..MaxRecords -> Nat]]
    /\ TopK \subseteq Nat \ {0}
    /\ Capacity \in Nat \ {0}

VARIABLES
    rows,       \* per dataset that there is: its records
    indexes,    \* _indexes, the least recently used first
    lookups     \* per request: where it is in _retrieve_and_rerank

vars == << rows, indexes, lookups >>

Idle == [step |-> "idle"]

TypeOK ==
    /\ DOMAIN rows \subseteq Datasets
    /\ \A d \in DOMAIN rows : rows[d] \in Seq(Records) /\ Len(rows[d]) <= MaxRecords
    /\ Len(indexes) <= Capacity
    /\ \A r \in Requests :
         lookups[r].step \in {"idle", "counted", "missed", "embedding", "indexed", "done"}

Init ==
    /\ rows = [d \in {} |-> << >>]
    /\ indexes = << >>
    /\ lookups = [r \in Requests |-> Idle]

-----------------------------------------------------------------------------
(* Datasets *)

\* parse_jsonl, parse_csv: one bad line is a bad file, blank ones are skipped.
WellFormed(file) == "malformed" \notin ToSet(file.lines)
HasColumns(file) == file.format = "csv" => file.header
Parsed(file) ==
    LET full == { i \in DOMAIN file.lines : file.lines[i] # "blank" }
        Nth(n) == CHOOSE i \in full : Cardinality({ j \in full : j <= i }) = n
    IN  [n \in 1..Cardinality(full) |-> file.lines[Nth(n)]]

\* parse_dataset_file
Importable(file) ==
    /\ file.format # "other"
    /\ HasColumns(file)
    /\ WellFormed(file)
    /\ Parsed(file) # << >>

\* Committed as a whole; a second dataset of that name and version is refused.
NewDataset(d, records) ==
    /\ d \notin DOMAIN rows
    /\ Len(records) <= MaxRecords
    /\ rows' = [e \in DOMAIN rows \cup {d} |-> IF e = d THEN records ELSE rows[e]]
    /\ UNCHANGED << indexes, lookups >>

\* POST /datasets, with records or without.
Create(d, records) == NewDataset(d, records)

\* POST /datasets/import
Import(d, file) == Importable(file) /\ NewDataset(d, Parsed(file))

\* A record that is added past the API.
Grow(d, record) ==
    /\ d \in DOMAIN rows
    /\ Len(rows[d]) < MaxRecords
    /\ rows' = [rows EXCEPT ![d] = Append(@, record)]
    /\ UNCHANGED << indexes, lookups >>

-----------------------------------------------------------------------------
(* corpus_cache *)

\* The documents of a dataset: its records that have text.
Documents(d) ==
    IF d \in DOMAIN rows THEN { << d, i >> : i \in { j \in DOMAIN rows[d] : rows[d][j] = "text" } }
    ELSE {}

\* Mutant: an index is kept under its dataset alone.
KeyMutant(d, count) == << d, 0 >>

Key(d, count) == << d, count >>

Held(key) == { index \in ToSet(indexes) : index.key = key }

\* The dictionary without its entry for a key.
Others(key) ==
    IF Held(key) = {} THEN indexes
    ELSE RemoveAt(indexes, CHOOSE i \in DOMAIN indexes : indexes[i].key = key)

\* get: a hit moves to the end.
Used(index) == Append(Others(index.key), index)

\* put: the least recently used ones make room.
Kept(index) ==
    LET all == Append(Others(index.key), index)
    IN  SubSeq(all, 1 + Len(all) - (IF Len(all) < Capacity THEN Len(all) ELSE Capacity), Len(all))

-----------------------------------------------------------------------------
(* _corpus_index, _retrieve_and_rerank *)

At(r, step) == lookups[r].step = step
Become(r, lookup) == lookups' = [lookups EXCEPT ![r] = lookup]

\* A request for the k best documents, up to the count of the records.  found: the
\* documents there were (a history field).
Count(r, d, question, k) ==
    /\ At(r, "idle")
    /\ Become(r, [step |-> "counted", of |-> d, question |-> question, k |-> k,
                  count |-> IF d \in DOMAIN rows THEN Len(rows[d]) ELSE 0,
                  found |-> Documents(d), documents |-> {}, best |-> {}])
    /\ UNCHANGED << rows, indexes >>

Lookup(r) ==
    LET held == Held(Key(lookups[r].of, lookups[r].count))
    IN  /\ At(r, "counted")
        /\ \/ /\ held = {}
              /\ Become(r, [lookups[r] EXCEPT !.step = "missed"])
              /\ UNCHANGED indexes
           \/ \E index \in held :
                /\ indexes' = Used(index)
                /\ Become(r, [lookups[r] EXCEPT !.step = "indexed",
                                                !.documents = index.documents])
        /\ UNCHANGED rows

Read(r) ==
    /\ At(r, "missed")
    /\ Become(r, [lookups[r] EXCEPT !.step = "embedding",
                                    !.documents = Documents(lookups[r].of)])
    /\ UNCHANGED << rows, indexes >>

\* The documents are embedded.
Put(r) ==
    LET lookup == lookups[r]
    IN  /\ At(r, "embedding")
        /\ indexes' = Kept([key |-> Key(lookup.of, lookup.count), documents |-> lookup.documents])
        /\ Become(r, [lookup EXCEPT !.step = "indexed"])
        /\ UNCHANGED rows

\* EmbeddingRetriever: no document that is left out fits better than one that is
\* not.  The reranker puts them in another order.
Best(question, k, documents) ==
    { best \in SUBSET documents :
        /\ Cardinality(best) = IF Cardinality(documents) < k THEN Cardinality(documents) ELSE k
        /\ \A x \in best, y \in documents \ best : Match[question][x[2]] >= Match[question][y[2]] }

Retrieve(r) ==
    LET lookup == lookups[r]
    IN  /\ At(r, "indexed")
        /\ \E best \in Best(lookup.question, lookup.k, lookup.documents) :
             Become(r, [lookup EXCEPT !.step = "done", !.best = best])
        /\ UNCHANGED << rows, indexes >>

\* The request goes on with what it has; or it failed, for want of an embedding.
End(r) ==
    /\ ~At(r, "idle")
    /\ Become(r, Idle)
    /\ UNCHANGED << rows, indexes >>

-----------------------------------------------------------------------------
Next ==
    \/ \E d \in Datasets :
         \/ \E records \in UNION { [1..n -> Records] : n \in 0..1 } : Create(d, records)
         \/ \E record \in Records : Grow(d, record)
         \/ \E file \in Files : Import(d, file)
    \/ \E r \in Requests :
         \/ \E d \in Datasets, question \in Questions, k \in TopK : Count(r, d, question, k)
         \/ Lookup(r) \/ Read(r) \/ Put(r) \/ Retrieve(r) \/ End(r)

Spec == Init /\ [][Next]_vars

-----------------------------------------------------------------------------
(* Properties *)

\* A request is given documents of its own dataset that have something to say, as
\* many as it asked for, and none that was there when it asked is kept from it by
\* a worse one: whoever builds, uses and evicts indexes meanwhile, and although a
\* dataset gains records between their count and their reading.  So no index that
\* is still reached by the count of its dataset is out of date
\* (retrieval/corpus_cache.py:9-11, services/generation.py:84-86).
RetrievalIsFresh ==
    /\ Len(indexes) <= Capacity
    /\ \A index \in ToSet(indexes), d \in DOMAIN rows :
         index.key = Key(d, Len(rows[d])) => index.documents = Documents(d)
    /\ \A r \in Requests : At(r, "done") =>
         LET lookup == lookups[r]
         IN  /\ lookup.best \subseteq Documents(lookup.of)
             /\ Cardinality(lookup.best) <= lookup.k
             /\ \A y \in lookup.found \ lookup.best :
                  /\ Cardinality(lookup.best) = lookup.k
                  /\ \A x \in lookup.best :
                       Match[lookup.question][x[2]] >= Match[lookup.question][y[2]]

=============================================================================
