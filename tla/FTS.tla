-------------------------------- MODULE FTS --------------------------------
(***************************************************************************)
(* The full-text index of internal/kdb/index/fts: an active segment in     *)
(* memory, immutable segments that commits freeze and merges combine, and  *)
(* the tombstones of deleted documents.  index.go:17-19 asks for one       *)
(* writer and allows any number of readers beside it; a reader takes the   *)
(* segments under the lock and everything else without.                    *)
(*                                                                         *)
(* A segment is a function from the documents it holds to their terms;     *)
(* frequencies, positions and the floating-point score are left out: a     *)
(* posting is its document.                                                *)
(***************************************************************************)
EXTENDS Integers, Sequences, FiniteSets

CONSTANTS Terms, MaxDocs, Readers,
          MaxSearches,       \* bound: searches by each reader
          MergeWhileActive   \* whether Merge may run with documents not yet committed

ASSUME FTSAssumption == MaxDocs \in Nat /\ MaxSearches \in Nat

VARIABLES segments, active, tombstones, nextDocID,
          writer,      \* "idle", or "frozen" between the two halves of Commit
          committed,   \* the documents of every commit so far: history
          text,        \* document -> its terms: history
          removed,     \* the documents that DeleteDocument was called for: history
          reader       \* what each search has found so far

ftsVars == <<segments, active, tombstones, nextDocID, writer, committed, text, removed, reader>>
indexVars == <<segments, active, tombstones, nextDocID, writer, committed, text, removed>>

EmptySegment == <<>>
Docs(seg) == DOMAIN seg
Added == 1..(nextDocID - 1)
IdleReader(n) == [at |-> "idle", left |-> n]

-----------------------------------------------------------------------------
(* Segments *)

\* Segment.Search: the postings of a term, by document.
SegmentSearch(seg, term) == {d \in Docs(seg) : term \in seg[d]}

\* Each hit is a document and the place it was found in: a document that is in two
\* places has two postings.
HitsIn(segs, term) == UNION {{<<d, i>> : d \in SegmentSearch(segs[i], term)} : i \in DOMAIN segs}
ActiveHits(term) == {<<d, 0>> : d \in SegmentSearch(active, term)}

FilterPostings(hits, deleted) == {h \in hits : h[1] \notin deleted}

\* mergeSegments: one posting for each document of any segment that is not deleted,
\* the last one when there are several.
\* Seeded fault: the documents of the first segment win, and lose the later ones.
mergeSegmentsFirst(segs, deleted) ==
    [d \in Docs(segs[1]) \ deleted |-> segs[1][d]]
mergeSegments(segs, deleted) ==
    LET docs == (UNION {Docs(segs[i]) : i \in DOMAIN segs}) \ deleted
        last(d) == CHOOSE i \in DOMAIN segs :
                      d \in Docs(segs[i]) /\ \A j \in (i + 1)..Len(segs) : d \notin Docs(segs[j])
    IN [d \in docs |-> segs[last(d)][d]]

-----------------------------------------------------------------------------
(* The writer *)

\* A text without tokens takes an identifier and leaves no posting.
AddDocument ==
    /\ writer = "idle" /\ nextDocID <= MaxDocs
    /\ \E terms \in SUBSET Terms :
          /\ text' = Append(text, terms)
          /\ active' = IF terms = {} THEN active
                       ELSE [d \in Docs(active) \cup {nextDocID} |->
                                IF d = nextDocID THEN terms ELSE active[d]]
    /\ nextDocID' = nextDocID + 1
    /\ UNCHANGED <<segments, tombstones, writer, committed, removed, reader>>

DeleteDocument(d) ==
    /\ writer = "idle" /\ d \in Added
    /\ tombstones' = tombstones \cup {d}
    /\ removed' = removed \cup {d}
    /\ UNCHANGED <<segments, active, nextDocID, writer, committed, text, reader>>

\* Commit: freeze, publish under the lock, and then a new active segment without it.
CommitPublish ==
    /\ writer = "idle" /\ active # EmptySegment
    /\ segments' = Append(segments, active)
    /\ writer' = "frozen" /\ committed' = committed \cup Docs(active)
    /\ UNCHANGED <<active, tombstones, nextDocID, text, removed, reader>>

CommitRenew ==
    /\ writer = "frozen"
    /\ active' = EmptySegment
    /\ writer' = "idle"
    /\ UNCHANGED <<segments, tombstones, nextDocID, committed, text, removed, reader>>

\* Merge holds the lock; it is called at a checkpoint.
Merge ==
    /\ writer = "idle" /\ Len(segments) > 1
    /\ active = EmptySegment \/ MergeWhileActive
    /\ segments' = <<mergeSegments(segments, tombstones)>>
    /\ tombstones' = {}
    /\ UNCHANGED <<active, nextDocID, writer, committed, text, removed, reader>>

-----------------------------------------------------------------------------
(* Searches *)

Relevant(term) == {d \in Added \ removed : term \in text[d]}

\* The three reads of Search, and what is known of the term's documents meanwhile:
\* due are those committed before it and not deleted, gone the documents deleted before it.
SearchSegments(r, term) ==
    /\ reader[r].at = "idle" /\ reader[r].left > 0
    /\ LET hits == HitsIn(segments, term)
       IN reader' = [reader EXCEPT ![r] = [at |-> "segments", term |-> term, hits |-> hits,
                                           due |-> Relevant(term) \cap committed,
                                           gone |-> removed, left |-> @.left - 1]]
    /\ UNCHANGED indexVars

SearchActive(r) ==
    /\ reader[r].at = "segments"
    /\ reader' = [reader EXCEPT ![r].at = "active", ![r].hits = @ \cup ActiveHits(reader[r].term)]
    /\ UNCHANGED indexVars

SearchFilter(r) ==
    /\ reader[r].at = "active"
    /\ reader' = [reader EXCEPT ![r].at = "answered", ![r].hits = FilterPostings(@, tombstones)]
    /\ UNCHANGED indexVars

SearchReturn(r) ==
    /\ reader[r].at = "answered"
    /\ reader' = [reader EXCEPT ![r] = IdleReader(reader[r].left)]
    /\ UNCHANGED indexVars

FTSInit ==
    /\ segments = <<>> /\ active = EmptySegment /\ tombstones = {} /\ nextDocID = 1
    /\ writer = "idle" /\ committed = {} /\ text = <<>> /\ removed = {}
    /\ reader = [r \in Readers |-> IdleReader(MaxSearches)]

FTSNext ==
    \/ AddDocument \/ CommitPublish \/ CommitRenew \/ Merge
    \/ \E d \in 1..MaxDocs : DeleteDocument(d)
    \/ \E r \in Readers : \/ \E t \in Terms : SearchSegments(r, t)
                          \/ SearchActive(r) \/ SearchFilter(r) \/ SearchReturn(r)

FTSSpec == FTSInit /\ [][FTSNext]_ftsVars

-----------------------------------------------------------------------------
(* Properties *)

\* Search by the writer itself.
AllHits(term) == FilterPostings(HitsIn(segments, term) \cup ActiveHits(term), tombstones)

(***************************************************************************)
(* Between two writes the index answers exactly: one posting for every     *)
(* document that has the term and was not deleted, through any sequence of *)
(* commits, deletes and merges.                                            *)
(***************************************************************************)
SearchFindsExactly ==
    writer = "idle" =>
        \A t \in Terms : /\ {h[1] : h \in AllHits(t)} = Relevant(t)
                         /\ Cardinality(AllHits(t)) = Cardinality(Relevant(t))

(***************************************************************************)
(* A search that runs beside the writer misses no committed document that  *)
(* stays, and returns only documents that have the term.                   *)
(***************************************************************************)
SearchesBesideWriter ==
    \A r \in Readers : reader[r].at = "answered" =>
        LET found == {h[1] : h \in reader[r].hits}
        IN reader[r].due \ removed \subseteq found /\ (\A d \in found : reader[r].term \in text[d])

\* A search finds exactly the committed documents, beside a writer too.
SearchesAreExact == SearchFindsExactly /\ SearchesBesideWriter

(***************************************************************************)
(* index.go:17 promises reads that are safe beside one writer.  These two  *)
(* fail: a commit shows a document twice until it renews the active        *)
(* segment, and a merge between the first and the last read of a search    *)
(* clears the tombstones that the search still needs.                      *)
(***************************************************************************)
SearchesReturnOnce ==
    \A r \in Readers : reader[r].at = "answered" =>
        \A g, h \in reader[r].hits : g[1] = h[1] => g = h

SearchesReturnNoDeleted ==
    \A r \in Readers : reader[r].at = "answered" =>
        {h[1] : h \in reader[r].hits} \cap reader[r].gone = {}

\* TotalDocs; index.go:110-111 says that deleted documents are not counted.
TotalDocs == Cardinality(UNION {{<<d, i>> : d \in Docs(segments[i])} : i \in DOMAIN segments})
TotalDocsAreLive ==
    TotalDocs = Cardinality((UNION {Docs(segments[i]) : i \in DOMAIN segments}) \ removed)

(***************************************************************************)
(* recall (cmd/pcke/commands.go:850-879) adds the nodes of a view to a new *)
(* index, keeps the n-th of them in docs[n - 1] and prints docs[DocID] for *)
(* every hit below len(docs).  What it prints should be what was found     *)
(* ("docID -> raw JSON", commands.go:852); documents are numbered from 1.  *)
(***************************************************************************)
Recalled(term) == {d + 1 : d \in {h[1] : h \in HitsIn(segments, term)}} \cap Added
RecallPrintsHits ==
    (removed = {} /\ active = EmptySegment /\ Len(segments) = 1) =>
        \A t \in Terms : Recalled(t) = Relevant(t)
=============================================================================
