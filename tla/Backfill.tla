------------------------------ MODULE Backfill ------------------------------
(***************************************************************************)
(* The alter command's backfill of a new field (internal/kdb/migrate       *)
(* backfill.go, impact.go) and of its secondary index (internal/kdb/index) *)
(* over the records of one collection.  Each chunk is read in a View and   *)
(* written afterwards, so that transactions of other goroutines fall       *)
(* between the two; those keep the index with their record, in one         *)
(* transaction, as index.go:51-54 asks.                                    *)
(***************************************************************************)
EXTENDS Integers, Sequences, FiniteSets

CONSTANTS Keys,         \* 1..n in key order, all with the collection's prefix
          Values,       \* of the new field
          Default,      \* op.Default, or the zero value of its type
          BatchSize,
          MaxWrites     \* bound on the concurrent transactions

\* A default is a value.
ASSUME BackfillAssumption ==
  /\ Keys \subseteq Nat \ {0} /\ IsFiniteSet(Keys)
  /\ BatchSize \in Nat \ {0} /\ MaxWrites \in Nat
  /\ Default # "no such field" /\ "no such field" \notin Values

VARIABLES records,   \* key -> Absent, NotJSON or the record's field and body
          index,     \* the composite keys <<value, key>> of the index's tree
          job,       \* what runs: its phase, resume cursor, collected batch and count
          report,    \* AffectedRecords of the last dry run, or -1
          last,      \* key -> what the last concurrent transaction left there: history
          writes

backfillVars == <<records, index, job, report, last, writes>>

Absent == [form |-> "absent"]
NotJSON == [form |-> "not JSON"]
Missing == "no such field"
Untouched == [form |-> "untouched"]
Record(field, body) == [field |-> field, body |-> body]
IsRecord(r) == r \notin {Absent, NotJSON}
HasField(r) == IsRecord(r) /\ r.field # Missing

Present == {k \in Keys : records[k] # Absent}

-----------------------------------------------------------------------------
(* internal/kdb/index: composite keys in a tree of their own *)

EntriesOf(k, r) == IF HasField(r) THEN {<<r.field, k>>} ELSE {}
IndexUpdate(k, old, new) == (index \ EntriesOf(k, old)) \cup EntriesOf(k, new)
IndexScan(value) == {k \in Keys : <<value, k>> \in index}

-----------------------------------------------------------------------------
(* The job *)

Start(phase) == [at |-> "collect", phase |-> phase, cursor |-> 0, held |-> <<>>, updated |-> 0]
Done == [at |-> "done", phase |-> "index", cursor |-> 0, held |-> <<>>, updated |-> 0]

\* seekPastCursor: the first key after the cursor, also when the cursor's key is gone.
\* Seeded fault: step on once, whatever key the seek found.
seekPastCursorStep(cursor) ==
    LET from == {k \in Present : k >= cursor}
    IN IF cursor = 0 THEN Present
       ELSE {k \in from : \E found \in from : found < k /\ (\A u \in from : found <= u)}
seekPastCursor(cursor) == {k \in Present : k > cursor}

\* The n lowest keys of a set, in order.
FirstKeys(S, n) ==
    LET upTo(k) == {u \in S : u <= k}
        size == IF Cardinality(S) < n THEN Cardinality(S) ELSE n
    IN [i \in 1..size |-> CHOOSE k \in S : Cardinality(upTo(k)) = i]

\* collectKeys, collectKVs: one View.
Collect ==
    /\ job.at = "collect"
    /\ LET keys == FirstKeys(seekPastCursor(job.cursor), BatchSize)
           batch == [i \in DOMAIN keys |-> [key |-> keys[i], value |-> records[keys[i]]]]
       IN job' = IF batch = <<>> THEN [job EXCEPT !.at = "finished"]
                 ELSE [job EXCEPT !.at = "write", !.held = batch]
    /\ UNCHANGED <<records, index, report, last, writes>>

\* The record that backfillBatch works on: read again inside the transaction.
Current(item) == records[item.key]

Lacking(items) == {i \in DOMAIN items : LET r == Current(items[i]) IN IsRecord(r) /\ ~HasField(r)}

AfterChunk(n) ==
    [job EXCEPT !.at = IF Len(job.held) < BatchSize THEN "finished" ELSE "collect",
                !.cursor = job.held[Len(job.held)].key,
                !.held = <<>>,
                !.updated = @ + n]

\* backfillBatch: one transaction over the keys of the chunk.  A record that was deleted
\* since, is not JSON or has the field already is skipped.
backfillBatch ==
    /\ job.at = "write" /\ job.phase = "field"
    /\ LET todo == Lacking(job.held)
           key(i) == job.held[i].key
       IN /\ records' = [k \in Keys |->
                            IF \E i \in todo : key(i) = k
                            THEN LET i == CHOOSE j \in todo : key(j) = k
                                 IN Record(Default, Current(job.held[i]).body)
                            ELSE records[k]]
          /\ job' = AfterChunk(Cardinality(todo))
    /\ UNCHANGED <<index, report, last, writes>>

\* indexBatch: an entry for the value that the View saw, outside any transaction.
Usable(items) == {i \in DOMAIN items : HasField(items[i].value)}
indexBatch ==
    /\ job.at = "write" /\ job.phase = "index"
    /\ index' = index \cup {<<job.held[i].value.field, job.held[i].key>> : i \in Usable(job.held)}
    /\ job' = AfterChunk(Cardinality(Usable(job.held)))
    /\ UNCHANGED <<records, report, last, writes>>

\* The backfill of the field is done; its index is next (or the field had none).
Finish ==
    /\ job.at = "finished"
    /\ job' = IF job.phase = "field" THEN Start("index") ELSE Done
    /\ UNCHANGED <<records, index, report, last, writes>>

\* A run that is cancelled between two chunks, or cut by a crash, starts again.
Restart ==
    /\ job.at \in {"collect", "write"} /\ writes < MaxWrites
    /\ writes' = writes + 1
    /\ job' = Start(job.phase)
    /\ UNCHANGED <<records, index, report, last>>

\* AnalyzeImpact: countRecords counts every key with the prefix.
AnalyzeImpact ==
    /\ report = -1 /\ job = Start("field")
    /\ report' = Cardinality(Present)
    /\ UNCHANGED <<records, index, job, last, writes>>

\* A transaction of another goroutine: record and index together.
\* Writers that know the new field write it, the others write records without.
Write(k, r) ==
    /\ writes < MaxWrites /\ job.at # "done"
    /\ writes' = writes + 1
    /\ records' = [records EXCEPT ![k] = r]
    /\ index' = IndexUpdate(k, records[k], r)
    /\ last' = [last EXCEPT ![k] = r]
    /\ UNCHANGED <<job, report>>

WrittenRecords == {Absent} \cup {Record(f, "new") : f \in Values \cup {Missing}}

BackfillInit ==
    /\ records \in [Keys -> {Absent, NotJSON, Record(Missing, "old")}]
    /\ index = {} /\ job = Start("field") /\ report = -1
    /\ last = [k \in Keys |-> Untouched] /\ writes = 0

BackfillNext ==
    \/ Collect \/ backfillBatch \/ indexBatch \/ Finish \/ Restart \/ AnalyzeImpact
    \/ \E k \in Keys, r \in WrittenRecords : Write(k, r)

BackfillSpec == BackfillInit /\ [][BackfillNext]_backfillVars

-----------------------------------------------------------------------------
(* Properties *)

(***************************************************************************)
(* When the backfill of the field has ended, every record that was there   *)
(* when it began has the field, however the keys around the resume cursor  *)
(* came and went meanwhile.                                                *)
(***************************************************************************)
OldRecordsHaveField ==
    (job.phase = "index" /\ job.at # "done") =>
        \A k \in Keys : last[k] = Untouched /\ IsRecord(records[k]) => HasField(records[k])

(***************************************************************************)
(* The backfill takes no concurrent write back: what a transaction put     *)
(* stays, but for the field it did not have, and what it deleted is gone.  *)
(***************************************************************************)
WritesAreKept ==
    \A k \in Keys : last[k] # Untouched =>
        IF IsRecord(last[k]) /\ ~HasField(last[k])
        THEN IsRecord(records[k]) /\ records[k].body = last[k].body
        ELSE records[k] = last[k]

(***************************************************************************)
(* When its backfill has ended, the index finds every record by its value, *)
(* with the transactions of others falling between the read of a chunk and *)
(* its entries.                                                            *)
(***************************************************************************)
IndexFindsRecords ==
    job.at = "done" => \A k \in Keys : HasField(records[k]) => k \in IndexScan(records[k].field)

\* After a backfill every old record has the field and can be found by it, and
\* no concurrent write is lost.
BackfillIsComplete == OldRecordsHaveField /\ WritesAreKept /\ IndexFindsRecords

(***************************************************************************)
(* And it finds no other: this fails, since the entry of a value that a    *)
(* transaction replaced after the View is put back (backfill.go:162).      *)
(***************************************************************************)
IndexFindsOnlyRecords ==
    \A entry \in index : HasField(records[entry[2]]) /\ records[entry[2]].field = entry[1]

(***************************************************************************)
(* No more records are rewritten than the dry run announced, while nobody  *)
(* else writes.                                                            *)
(***************************************************************************)
DryRunCountsAll ==
    (report >= 0 /\ writes = 0 /\ job.phase = "field") => job.updated <= report
=============================================================================
