---------------------------- MODULE Program_proofs ---------------------------
(***************************************************************************)
(* Proofs about what the program does above the key-value store and beside *)
(* the event log: the online backfill of a secondary index, the full-text  *)
(* index, the schema migrations, the scans of a repository and the keys of *)
(* the records.                                                            *)
(***************************************************************************)
EXTENDS Backfill, FTS, Migrate, EventStore_proofs, Scanner, EventKeys

-----------------------------------------------------------------------------
(***************************************************************************)
(* The backfill of an index.  For any keys, values, sizes of a chunk,      *)
(* restarts and concurrent transactions: an index that is built agrees     *)
(* with the records.                                                       *)
(***************************************************************************)

(* The lowest keys of a set                                                *)

UpTo(S, k) == {u \in S : u <= k}

\* The number of keys up to a key is its place in the order, and every place is taken.
LEMMA PlacesAreTaken ==
  ASSUME NEW S \in SUBSET Nat, IsFiniteSet(S)
  PROVE  /\ Cardinality(S) \in Nat
         /\ \A k \in S : Cardinality(UpTo(S, k)) \in 1..Cardinality(S)
         /\ \A k, l \in S : k < l => Cardinality(UpTo(S, k)) < Cardinality(UpTo(S, l))
         /\ \A i \in 1..Cardinality(S) : \E k \in S : Cardinality(UpTo(S, k)) = i
<1> DEFINE n == Cardinality(S)
           place == [k \in S |-> Cardinality(UpTo(S, k))]
<1>1. n \in Nat
  BY FS_CardinalityType
<1>2. ASSUME NEW k \in S
      PROVE  /\ IsFiniteSet(UpTo(S, k)) /\ Cardinality(UpTo(S, k)) \in Nat
             /\ Cardinality(UpTo(S, k)) <= n /\ Cardinality(UpTo(S, k)) # 0
  <2>1. UpTo(S, k) \in SUBSET S /\ k \in UpTo(S, k)
    BY DEF UpTo
  <2>2. IsFiniteSet(UpTo(S, k)) /\ Cardinality(UpTo(S, k)) <= n
    BY <2>1, FS_Subset
  <2>3. Cardinality(UpTo(S, k)) \in Nat
    BY <2>2, FS_CardinalityType
  <2>4. Cardinality(UpTo(S, k)) # 0
    BY <2>1, <2>2, FS_EmptySet
  <2> QED
    BY <2>2, <2>3, <2>4
<1>3. ASSUME NEW k \in S, NEW l \in S, k < l
      PROVE  Cardinality(UpTo(S, k)) < Cardinality(UpTo(S, l))
  <2>1. UpTo(S, k) \in SUBSET UpTo(S, l) /\ l \in UpTo(S, l) /\ l \notin UpTo(S, k)
    <3>1. k \in Nat /\ l \in Nat /\ \A u \in S : u \in Nat
      OBVIOUS
    <3>2. \A u \in UpTo(S, k) : u \in S /\ u <= l
      BY <1>3, <3>1 DEF UpTo
    <3>3. l <= l /\ ~(l <= k)
      BY <1>3, <3>1
    <3> QED
      BY <3>2, <3>3 DEF UpTo
  <2>2. UpTo(S, k) # UpTo(S, l)
    BY <2>1
  <2>3. IsFiniteSet(UpTo(S, l))
    BY <1>2
  <2>4. /\ Cardinality(UpTo(S, k)) <= Cardinality(UpTo(S, l))
        /\ Cardinality(UpTo(S, l)) # Cardinality(UpTo(S, k))
    BY <2>1, <2>2, <2>3, FS_Subset
  <2>5. Cardinality(UpTo(S, k)) \in Nat /\ Cardinality(UpTo(S, l)) \in Nat
    BY <1>2
  <2> QED
    BY <2>4, <2>5
<1>4. place \in Injection(S, 1..n)
  <2>1. \A k \in S : place[k] \in 1..n
    BY <1>1, <1>2
  <2>2. \A k, l \in S : place[k] = place[l] => k = l
    <3> TAKE k \in S, l \in S
    <3>1. k \in Nat /\ l \in Nat /\ place[k] \in Nat /\ place[l] \in Nat
      BY <1>2
    <3>2. k < l => place[k] < place[l]
      BY <1>3
    <3>3. l < k => place[l] < place[k]
      BY <1>3
    <3> HIDE DEF place
    <3> QED
      BY <3>1, <3>2, <3>3
  <2>3. place \in [S -> 1..n] /\ DOMAIN place = S
    BY <2>1
  <2> HIDE DEF place, n
  <2> QED
    BY <2>2, <2>3 DEF Injection, IsInjective
<1>5. IsFiniteSet(1..n) /\ Cardinality(1..n) = n
  BY <1>1, FS_Interval
<1>6. place \in Surjection(S, 1..n)
  <2> HIDE DEF place, n
  <2> QED
    BY <1>4, <1>5, FS_Injection DEF n
<1>7. \A i \in 1..n : \E k \in S : place[k] = i
  BY <1>6 DEF Surjection
<1> QED
  BY <1>1, <1>2, <1>3, <1>7

\* A chunk holds keys of the set and no key twice; it leaves out none below its
\* last one, and none at all when it is short.
LEMMA FirstKeysAreLowest ==
  ASSUME NEW S \in SUBSET Nat, IsFiniteSet(S), NEW n \in Nat \ {0}
  PROVE  LET f == FirstKeys(S, n) IN
         /\ f \in Seq(S) /\ Len(f) <= n /\ (S # {} => f # << >>)
         /\ \A i, j \in DOMAIN f : f[i] = f[j] => i = j
         /\ \A k \in S : Len(f) < n \/ k <= f[Len(f)] => \E i \in DOMAIN f : f[i] = k
<1> DEFINE m == Cardinality(S)
           size == IF m < n THEN m ELSE n
           f == FirstKeys(S, n)
           place(k) == Cardinality(UpTo(S, k))
<1>1. /\ m \in Nat
      /\ \A k \in S : place(k) \in 1..m
      /\ \A k, l \in S : k < l => place(k) < place(l)
      /\ \A i \in 1..m : \E k \in S : place(k) = i
  BY PlacesAreTaken
<1>2. size \in Nat /\ size <= m /\ size <= n /\ (size < n => size = m) /\ (m # 0 => size # 0)
  BY <1>1
<1>3. f = [i \in 1..size |-> CHOOSE k \in S : place(k) = i]
  BY DEF FirstKeys, UpTo
<1>4. m = 0 => S = {}
  BY FS_EmptySet
<1> HIDE DEF m, size, f, place
<1>5. \A i \in 1..size : f[i] \in S /\ place(f[i]) = i
  <2> TAKE i \in 1..size
  <2>1. i \in 1..m
    BY <1>1, <1>2
  <2>2. f[i] = CHOOSE k \in S : place(k) = i
    BY <1>3
  <2>3. PICK k \in S : place(k) = i
    BY <1>1, <2>1
  <2> QED
    BY <2>2, <2>3
<1>6. f \in Seq(S) /\ Len(f) = size /\ DOMAIN f = 1..size
  BY <1>2, <1>3, <1>5
<1>7. \A k, l \in S : place(k) = place(l) => k = l
  <2> TAKE k \in S, l \in S
  <2>1. k \in Nat /\ l \in Nat /\ place(k) \in Nat /\ place(l) \in Nat
    BY <1>1
  <2>2. (k < l => place(k) < place(l)) /\ (l < k => place(l) < place(k))
    BY <1>1
  <2> QED
    BY <2>1, <2>2
<1>8. ASSUME NEW k \in S, Len(f) < n \/ k <= f[Len(f)]
      PROVE  \E i \in DOMAIN f : f[i] = k
  <2>1. place(k) \in 1..size
    <3>1. CASE Len(f) < n
      BY <1>1, <1>2, <1>6, <3>1
    <3>2. CASE k <= f[Len(f)]
      <4>1. m # 0
        BY <1>1
      <4>2. size \in 1..size /\ f[size] \in S /\ place(f[size]) = size
        BY <1>2, <1>5, <4>1
      <4>3. k <= f[size] /\ k \in Nat /\ f[size] \in Nat /\ place(k) \in Nat /\ place(k) >= 1
        <5>1. place(k) \in 1..m
          BY <1>1
        <5>2. k \in Nat /\ f[size] \in Nat
          BY <4>2
        <5> QED
          BY <1>1, <1>6, <3>2, <5>1, <5>2
      <4>4. k = f[size] \/ place(k) < place(f[size])
        BY <1>1, <4>2, <4>3
      <4> QED
        BY <1>2, <4>2, <4>3, <4>4
    <3> QED
      BY <1>8, <3>1, <3>2
  <2>2. f[place(k)] \in S /\ place(f[place(k)]) = place(k)
    BY <1>5, <2>1
  <2>3. f[place(k)] = k
    BY <1>7, <2>2
  <2> QED
    BY <1>6, <2>1, <2>3
<1>9. \A i, j \in DOMAIN f : f[i] = f[j] => i = j
  BY <1>5, <1>6
<1>10. S # {} => f # << >>
  BY <1>2, <1>4, <1>6
<1> QED
  BY <1>2, <1>6, <1>8, <1>9, <1>10 DEF f
-----------------------------------------------------------------------------
(* Records                                                                 *)

Fields == Values \cup {Default, Missing}
Bodies == {"old", "new"}
Recs == {Absent, NotJSON} \cup {Record(f, b) : f \in Fields, b \in Bodies}

\* A record is its field and its body, and not one of the other two.
LEMMA FormsDiffer ==
  /\ Absent # NotJSON /\ Absent # Untouched /\ NotJSON # Untouched
  /\ \A f, b : /\ Record(f, b).field = f /\ Record(f, b).body = b
               /\ Record(f, b) \notin {Absent, NotJSON, Untouched}
<1>1. Absent.form = "absent" /\ NotJSON.form = "not JSON" /\ Untouched.form = "untouched"
  BY DEF Absent, NotJSON, Untouched
<1>2. DOMAIN Absent = {"form"} /\ DOMAIN NotJSON = {"form"} /\ DOMAIN Untouched = {"form"}
  BY DEF Absent, NotJSON, Untouched
<1>3. ASSUME NEW f, NEW b
      PROVE  /\ Record(f, b).field = f /\ Record(f, b).body = b
             /\ Record(f, b) \notin {Absent, NotJSON, Untouched}
  <2>1. DOMAIN Record(f, b) = {"field", "body"} /\ Record(f, b).field = f /\ Record(f, b).body = b
    BY DEF Record
  <2> QED
    BY <1>2, <2>1
<1> QED
  BY <1>1, <1>3

LEMMA RecordForms ==
  ASSUME NEW r \in Recs
  PROVE  /\ r # Untouched
         /\ IsRecord(r) => /\ r = Record(r.field, r.body) /\ r.field \in Fields /\ r.body \in Bodies
BY FormsDiffer DEF Recs, IsRecord

-----------------------------------------------------------------------------
(* The inductive invariant                                                 *)

Items == [key : Keys, value : Recs]
Jobs == [at : {"collect", "write", "finished", "done"}, phase : {"field", "index"},
         cursor : Nat, held : Seq(Items), updated : Nat]
JobOK ==
  /\ job \in Jobs
  /\ (job.at = "write" <=> job.held # << >>) /\ (job.at = "done" => job.phase = "index")
BackfillTypes ==
  /\ records \in [Keys -> Recs] /\ last \in [Keys -> Recs \cup {Untouched}]
  /\ JobOK

\* The keys of the chunk in hand, and those the job has come to.
InHand == {job.held[i].key : i \in DOMAIN job.held}
Reached ==
  {k \in Keys : \/ job.at = "collect" /\ k <= job.cursor
                \/ job.at = "write" /\ (Len(job.held) < BatchSize \/ k <= job.held[Len(job.held)].key)
                \/ job.at \in {"finished", "done"}}
Passed == Reached \ InHand

\* What the job has passed it has dealt with, or a transaction has since.
FieldsDone ==
  \A k \in Keys : (job.phase = "index" \/ k \in Passed) /\ last[k] = Untouched /\ IsRecord(records[k])
                    => HasField(records[k])

\* In hand a record is indexed, or still as the View saw it.
Indexed(k) == <<records[k].field, k>> \in index
IndexDone ==
  job.phase = "index" =>
    \A k \in Keys : HasField(records[k]) =>
      /\ k \in Passed => Indexed(k)
      /\ \A i \in DOMAIN job.held : job.held[i].key = k => Indexed(k) \/ job.held[i].value = records[k]

BackfillInv == BackfillTypes /\ FieldsDone /\ IndexDone /\ WritesAreKept

\* What the invariant is for.
LEMMA InvCompletes == BackfillInv => BackfillIsComplete
<1> SUFFICES ASSUME BackfillInv PROVE BackfillIsComplete
  OBVIOUS
<1>1. OldRecordsHaveField
  BY DEF BackfillInv, FieldsDone, OldRecordsHaveField
<1>2. IndexFindsRecords
  <2> SUFFICES ASSUME job.at = "done", NEW k \in Keys, HasField(records[k])
               PROVE  k \in IndexScan(records[k].field)
    BY DEF IndexFindsRecords
  <2>1. job.held = << >> /\ job.phase = "index"
    BY DEF BackfillInv, BackfillTypes, JobOK, Jobs
  <2>2. k \in Passed
    BY <2>1 DEF Passed, Reached, InHand
  <2> QED
    BY <2>1, <2>2 DEF BackfillInv, IndexDone, Indexed, IndexScan
<1> QED
  BY <1>1, <1>2 DEF BackfillInv, BackfillIsComplete

LEMMA BackfillStarts == BackfillInit => BackfillInv
<1> SUFFICES ASSUME BackfillInit PROVE BackfillInv
  OBVIOUS
<1>1. job = [at |-> "collect", phase |-> "field", cursor |-> 0, held |-> << >>, updated |-> 0]
  BY DEF BackfillInit, Start
<1>2. JobOK
  BY <1>1 DEF JobOK, Jobs
<1>3. \A k \in Keys : records[k] \in {Absent, NotJSON, Record(Missing, "old")} /\ last[k] = Untouched
  BY DEF BackfillInit
<1>4. BackfillTypes
  BY <1>2 DEF BackfillInit, BackfillTypes, Recs, Fields, Bodies
<1>5. Passed = {}
  <2>1. \A k \in Keys : k \in Nat /\ k # 0
    BY BackfillAssumption
  <2> QED
    BY <1>1, <2>1 DEF Passed, Reached
<1> QED
  BY <1>1, <1>3, <1>4, <1>5 DEF BackfillInv, FieldsDone, IndexDone, WritesAreKept

\* A chunk is read: what it passes over is not there.
LEMMA CollectKeeps == ASSUME BackfillInv, Collect PROVE BackfillInv'
<1> DEFINE S == seekPastCursor(job.cursor)
           keys == FirstKeys(S, BatchSize)
           batch == [i \in DOMAIN keys |-> [key |-> keys[i], value |-> records[keys[i]]]]
<1>1. /\ job.at = "collect" /\ UNCHANGED <<records, index, report, last, writes>>
      /\ job' = IF batch = << >> THEN [job EXCEPT !.at = "finished"]
                ELSE [job EXCEPT !.at = "write", !.held = batch]
  BY DEF Collect
<1>2. BackfillTypes /\ job.held = << >>
  BY <1>1 DEF BackfillInv, BackfillTypes, JobOK, Jobs
<1>3. /\ S \in SUBSET Nat /\ S \subseteq Keys /\ IsFiniteSet(S)
      /\ \A k \in Keys : k \notin S => k <= job.cursor \/ records[k] = Absent
  <2>1. S \in SUBSET Keys /\ \A k \in Keys : k \notin S => ~(k > job.cursor) \/ records[k] = Absent
    BY DEF seekPastCursor, Present
  <2>2. \A k \in Keys : k \in Nat
    BY BackfillAssumption
  <2>3. job.cursor \in Nat
    BY <1>2 DEF BackfillTypes, JobOK, Jobs
  <2>4. IsFiniteSet(S)
    BY <2>1, BackfillAssumption, FS_Subset
  <2> HIDE DEF S
  <2> QED
    BY <2>1, <2>2, <2>3, <2>4
<1>4. /\ keys \in Seq(S) /\ (S # {} => keys # << >>)
      /\ \A k \in S : Len(keys) < BatchSize \/ k <= keys[Len(keys)] => \E i \in DOMAIN keys : keys[i] = k
  <2> HIDE DEF S
  <2> QED
    BY <1>3, FirstKeysAreLowest, BackfillAssumption
<1> HIDE DEF S, keys
<1>5. /\ batch \in Seq(Items) /\ Len(batch) = Len(keys) /\ DOMAIN batch = DOMAIN keys
      /\ (batch = << >> <=> keys = << >>)
      /\ \A i \in DOMAIN batch : batch[i].key = keys[i] /\ batch[i].value = records[keys[i]]
  <2>1. DOMAIN keys = 1..Len(keys) /\ Len(keys) \in Nat /\ \A i \in DOMAIN keys : keys[i] \in Keys
    <3>1. keys \in Seq(S)
      BY <1>4
    <3>2. DOMAIN keys = 1..Len(keys) /\ Len(keys) \in Nat /\ \A i \in 1..Len(keys) : keys[i] \in S
      BY <3>1
    <3> QED
      BY <1>3, <3>2
  <2>2. \A i \in DOMAIN keys : batch[i] \in Items /\ batch[i].key = keys[i] /\ batch[i].value = records[keys[i]]
    BY <1>2, <2>1 DEF BackfillTypes, Items
  <2>3. DOMAIN batch = DOMAIN keys
    OBVIOUS
  <2>4. batch \in Seq(Items) /\ Len(batch) = Len(keys)
    <3>1. \A i \in 1..Len(keys) : batch[i] \in Items
      BY <2>1, <2>2
    <3>2. batch = [i \in 1..Len(keys) |-> batch[i]]
      BY <2>1
    <3> HIDE DEF batch
    <3> QED
      BY <2>1, <3>1, <3>2
  <2>5. batch = << >> <=> keys = << >>
    <3> HIDE DEF batch
    <3> QED
      BY <1>4, <2>4
  <2> QED
    BY <2>2, <2>3, <2>4, <2>5
<1> HIDE DEF batch
<1>6. CASE batch = << >>
  <2>1. job' = [at |-> "finished", phase |-> job.phase, cursor |-> job.cursor, held |-> << >>, updated |-> job.updated]
    BY <1>1, <1>2, <1>6 DEF BackfillTypes, JobOK, Jobs
  <2>2. BackfillTypes'
    BY <1>1, <1>2, <2>1 DEF BackfillTypes, JobOK, Jobs
  <2>3. \A k \in Keys : k \in Passed \/ records[k] = Absent
    BY <1>1, <1>2, <1>3, <1>4, <1>5, <1>6 DEF Passed, Reached, InHand
  <2>4. \A k \in Keys : IsRecord(records[k]) => k \in Passed
    BY <2>3 DEF IsRecord
  <2>5. FieldsDone' /\ IndexDone'
    BY <1>1, <2>1, <2>4 DEF BackfillInv, FieldsDone, IndexDone, HasField, Indexed
  <2> QED
    BY <1>1, <2>2, <2>5 DEF BackfillInv, WritesAreKept
<1>7. CASE batch # << >>
  <2>1. job' = [at |-> "write", phase |-> job.phase, cursor |-> job.cursor, held |-> batch, updated |-> job.updated]
    BY <1>1, <1>2, <1>7 DEF BackfillTypes, JobOK, Jobs
  <2>2. BackfillTypes'
    BY <1>1, <1>2, <1>5, <1>7, <2>1 DEF BackfillTypes, JobOK, Jobs
  <2>3. ASSUME NEW k \in Keys, k \in Passed'
        PROVE  k \in Passed \/ records[k] = Absent
    <3>1. \A i \in DOMAIN keys : keys[i] # k
      BY <1>5, <2>1, <2>3 DEF Passed, InHand
    <3>2. Len(keys) < BatchSize \/ k <= keys[Len(keys)]
      <4>1. Len(batch) \in DOMAIN batch
        BY <1>5, <1>7
      <4> QED
        BY <1>5, <2>1, <2>3, <4>1 DEF Passed, Reached
    <3>3. k \notin S
      BY <1>4, <3>1, <3>2
    <3> QED
      BY <1>1, <1>2, <1>3, <3>3 DEF Passed, Reached, InHand
  <2>4. \A k \in Keys : k \in Passed' /\ IsRecord(records[k]) => k \in Passed
    BY <2>3 DEF IsRecord
  <2>5. FieldsDone'
    BY <1>1, <2>1, <2>4 DEF BackfillInv, FieldsDone
  <2>6. IndexDone'
    BY <1>1, <1>5, <2>1, <2>4 DEF BackfillInv, IndexDone, HasField, Indexed
  <2> QED
    BY <1>1, <2>2, <2>5, <2>6 DEF BackfillInv, WritesAreKept
<1> QED
  BY <1>6, <1>7

\* After its writes the job has passed the chunk.
LEMMA ChunkEnds ==
  ASSUME BackfillTypes, job.at = "write", NEW n \in Nat, job' = AfterChunk(n)
  PROVE  JobOK' /\ job'.phase = job.phase /\ job'.held = << >> /\ Passed' = Reached
<1> DEFINE c == job.held[Len(job.held)].key
           a == IF Len(job.held) < BatchSize THEN "finished" ELSE "collect"
<1>1. job \in Jobs /\ job.held \in Seq(Items) /\ job.held # << >>
  BY DEF BackfillTypes, JobOK, Jobs
<1>2. c \in Keys /\ c \in Nat
  <2>1. Len(job.held) \in 1..Len(job.held)
    BY <1>1
  <2>2. job.held[Len(job.held)] \in Items
    BY <1>1, <2>1
  <2> QED
    BY <2>2, BackfillAssumption DEF Items
<1> HIDE DEF c
<1>3. /\ job'.at = a /\ job'.phase = job.phase /\ job'.cursor = c /\ job'.held = << >>
      /\ job' \in Jobs
  <2> DEFINE u == job.updated + n
  <2>1. a \in {"collect", "write", "finished", "done"}
    OBVIOUS
  <2>2. u \in Nat /\ job.phase \in {"field", "index"}
    BY <1>1 DEF Jobs
  <2>3. << >> \in Seq(Items)
    OBVIOUS
  <2>4. job' = [at |-> a, phase |-> job.phase, cursor |-> c, held |-> << >>, updated |-> u]
    BY <1>1 DEF Jobs, AfterChunk, c
  <2> HIDE DEF a, u
  <2> QED
    BY <1>2, <2>1, <2>2, <2>3, <2>4 DEF Jobs
<1>4. JobOK'
  BY <1>3 DEF JobOK
<1>5. ASSUME NEW k \in Keys PROVE k \in Reached' <=> k \in Reached
  BY <1>3 DEF Reached, c
<1>6. Reached' = Reached
  <2>1. Reached \subseteq Keys /\ Reached' \subseteq Keys
    BY DEF Reached
  <2> QED
    BY <1>5, <2>1
<1>7. InHand' = {}
  BY <1>3 DEF InHand
<1> QED
  BY <1>3, <1>4, <1>6, <1>7 DEF Passed

\* A chunk of the field: every record in it that lacks the field gets it.
LEMMA FieldBatchKeeps == ASSUME BackfillInv, backfillBatch PROVE BackfillInv'
<1> DEFINE todo == Lacking(job.held)
           key(i) == job.held[i].key
<1>1. /\ job.at = "write" /\ job.phase = "field" /\ UNCHANGED <<index, report, last, writes>>
      /\ records' = [k \in Keys |->
                       IF \E i \in todo : key(i) = k
                       THEN LET i == CHOOSE j \in todo : key(j) = k
                            IN Record(Default, Current(job.held[i]).body)
                       ELSE records[k]]
      /\ job' = AfterChunk(Cardinality(todo))
  BY DEF backfillBatch
<1>2. BackfillTypes
  BY DEF BackfillInv
<1>3. Cardinality(todo) \in Nat
  <2>1. job.held \in Seq(Items)
    BY <1>2 DEF BackfillTypes, JobOK, Jobs
  <2>2. todo \in SUBSET (1..Len(job.held)) /\ Len(job.held) \in Nat
    BY <2>1 DEF Lacking
  <2>3. IsFiniteSet(1..Len(job.held))
    BY <2>2, FS_Interval
  <2>4. IsFiniteSet(todo)
    BY <2>2, <2>3, FS_Subset
  <2> HIDE DEF todo
  <2> QED
    BY <2>4, FS_CardinalityType
<1>4. /\ todo \subseteq DOMAIN job.held
      /\ \A i \in DOMAIN job.held : i \in todo <=> IsRecord(records[key(i)]) /\ ~HasField(records[key(i)])
  BY DEF Lacking, Current
<1>5. JobOK' /\ job'.phase = "field" /\ job'.held = << >> /\ Passed' = Reached
  BY <1>1, <1>2, <1>3, ChunkEnds
<1> HIDE DEF todo
<1>6. ASSUME NEW k \in Keys, \E i \in todo : key(i) = k
      PROVE  IsRecord(records[k]) /\ ~HasField(records[k]) /\ records'[k] = Record(Default, records[k].body)
  <2> DEFINE i == CHOOSE j \in todo : key(j) = k
  <2>1. i \in todo /\ key(i) = k
    BY <1>6
  <2>2. records'[k] = Record(Default, Current(job.held[i]).body)
    BY <1>1, <1>6
  <2> HIDE DEF i
  <2> QED
    BY <1>4, <2>1, <2>2 DEF Current
<1>7. \A k \in Keys : ~(\E i \in todo : key(i) = k) => records'[k] = records[k]
  BY <1>1
<1>8. \A b : IsRecord(Record(Default, b)) /\ HasField(Record(Default, b)) /\ Record(Default, b).body = b
  BY FormsDiffer, BackfillAssumption DEF IsRecord, HasField, Missing
<1>9. BackfillTypes'
  <2>1. \A k \in Keys : records'[k] \in Recs
    <3> TAKE k \in Keys
    <3>1. CASE \E i \in todo : key(i) = k
      <4>1. records[k].body \in Bodies
        BY <1>2, <1>6, <3>1, RecordForms DEF BackfillTypes
      <4> QED
        BY <1>6, <3>1, <4>1 DEF Recs, Fields
    <3>2. CASE ~ \E i \in todo : key(i) = k
      BY <1>2, <1>7, <3>2 DEF BackfillTypes
    <3> QED
      BY <3>1, <3>2
  <2>2. records' \in [Keys -> Recs]
    BY <1>1, <2>1
  <2> QED
    BY <1>1, <1>2, <1>5, <2>2 DEF BackfillTypes
<1>10. FieldsDone'
  <2> SUFFICES ASSUME NEW k \in Keys, k \in Passed', last[k] = Untouched, IsRecord(records'[k])
               PROVE  HasField(records'[k])
    BY <1>1, <1>5 DEF FieldsDone
  <2>1. CASE \E i \in todo : key(i) = k
    BY <1>6, <1>8, <2>1
  <2>2. CASE ~ \E i \in todo : key(i) = k
    <3>1. records'[k] = records[k]
      BY <1>7, <2>2
    <3>2. CASE k \in InHand
      BY <1>4, <2>2, <3>1, <3>2 DEF InHand
    <3>3. CASE k \notin InHand
      <4>1. k \in Passed
        BY <1>5, <3>3 DEF Passed
      <4> QED
        BY <3>1, <4>1 DEF BackfillInv, FieldsDone
    <3> QED
      BY <3>2, <3>3
  <2> QED
    BY <2>1, <2>2
<1>11. WritesAreKept'
  <2> SUFFICES ASSUME NEW k \in Keys, last[k] # Untouched
               PROVE  IF IsRecord(last[k]) /\ ~HasField(last[k])
                      THEN IsRecord(records'[k]) /\ records'[k].body = last[k].body
                      ELSE records'[k] = last[k]
    BY <1>1 DEF WritesAreKept
  <2>1. IF IsRecord(last[k]) /\ ~HasField(last[k])
        THEN IsRecord(records[k]) /\ records[k].body = last[k].body
        ELSE records[k] = last[k]
    BY DEF BackfillInv, WritesAreKept
  <2>2. CASE \E i \in todo : key(i) = k
    BY <1>6, <1>8, <2>1, <2>2
  <2>3. CASE ~ \E i \in todo : key(i) = k
    BY <1>7, <2>1, <2>3
  <2> QED
    BY <2>2, <2>3
<1> QED
  BY <1>5, <1>9, <1>10, <1>11 DEF BackfillInv, IndexDone

\* A chunk of the index: what is still as it was seen is indexed as it is.
LEMMA IndexBatchKeeps == ASSUME BackfillInv, indexBatch PROVE BackfillInv'
<1>1. /\ job.at = "write" /\ job.phase = "index" /\ UNCHANGED <<records, report, last, writes>>
      /\ index' = index \cup {<<job.held[i].value.field, job.held[i].key>> : i \in Usable(job.held)}
      /\ job' = AfterChunk(Cardinality(Usable(job.held)))
  BY DEF indexBatch
<1>2. BackfillTypes
  BY DEF BackfillInv
<1>3. Cardinality(Usable(job.held)) \in Nat
  <2>1. job.held \in Seq(Items)
    BY <1>2 DEF BackfillTypes, JobOK, Jobs
  <2>2. Usable(job.held) \in SUBSET (1..Len(job.held)) /\ Len(job.held) \in Nat
    BY <2>1 DEF Usable
  <2>3. IsFiniteSet(1..Len(job.held))
    BY <2>2, FS_Interval
  <2>4. IsFiniteSet(Usable(job.held))
    BY <2>2, <2>3, FS_Subset
  <2> QED
    BY <2>4, FS_CardinalityType
<1>4. JobOK' /\ job'.phase = "index" /\ job'.held = << >> /\ Passed' = Reached
  BY <1>1, <1>2, <1>3, ChunkEnds
<1>5. BackfillTypes'
  BY <1>1, <1>2, <1>4 DEF BackfillTypes
<1>6. FieldsDone' /\ WritesAreKept'
  BY <1>1, <1>4 DEF BackfillInv, FieldsDone, WritesAreKept
<1>7. ASSUME NEW k \in Keys, HasField(records[k]), k \in Reached
      PROVE  <<records[k].field, k>> \in index'
  <2>1. CASE k \notin InHand
    BY <1>1, <1>7, <2>1 DEF BackfillInv, IndexDone, Indexed, Passed
  <2>2. CASE k \in InHand
    <3>1. PICK i \in DOMAIN job.held : job.held[i].key = k
      BY <2>2 DEF InHand
    <3>2. Indexed(k) \/ job.held[i].value = records[k]
      BY <1>1, <1>7, <3>1 DEF BackfillInv, IndexDone
    <3> QED
      BY <1>1, <1>7, <3>1, <3>2 DEF Indexed, Usable
  <2> QED
    BY <2>1, <2>2
<1>8. IndexDone'
  BY <1>1, <1>4, <1>7 DEF IndexDone, Indexed
<1> QED
  BY <1>5, <1>6, <1>8 DEF BackfillInv

\* The next phase begins, or the same one again.
LEMMA StartKeeps == ASSUME BackfillInv, Finish \/ Restart PROVE BackfillInv'
<1>1. /\ UNCHANGED <<records, index, report, last>> /\ BackfillTypes
      /\ \/ job' = Start("index") /\ job.phase = "field" /\ job.at = "finished"
         \/ job' = Done /\ job.phase = "index" /\ job.at = "finished"
         \/ job' = Start(job.phase) /\ job.at # "done"
  BY DEF Finish, Restart, BackfillInv, BackfillTypes, JobOK, Jobs
<1>2. \A k \in Keys : ~(k <= 0)
  <2>1. \A k \in Keys : k \in Nat /\ k # 0
    BY BackfillAssumption
  <2> QED
    BY <2>1
<1>3. \A p \in {"field", "index"} : Start(p) \in Jobs
  BY DEF Start, Jobs
<1>4. Done \in Jobs
  BY DEF Done, Jobs
<1>5. JobOK' /\ job'.held = << >> /\ job'.phase \in {"field", "index"}
  <2>1. \A p \in {"field", "index"} : LET s == Start(p) IN s.at = "collect" /\ s.held = << >> /\ s.phase = p
    BY DEF Start
  <2>2. Done.at = "done" /\ Done.held = << >> /\ Done.phase = "index"
    BY DEF Done
  <2>3. job.phase \in {"field", "index"}
    BY <1>1 DEF BackfillTypes, JobOK, Jobs
  <2>4. CASE job' = Done
    BY <1>4, <2>2, <2>4 DEF JobOK
  <2>5. ASSUME NEW p \in {"field", "index"}, job' = Start(p)
        PROVE  JobOK' /\ job'.held = << >> /\ job'.phase \in {"field", "index"}
    BY <1>3, <2>1, <2>5 DEF JobOK
  <2> QED
    BY <1>1, <2>3, <2>4, <2>5
<1>6. BackfillTypes'
  BY <1>1, <1>5 DEF BackfillTypes
<1>7. CASE job.at = "finished"
  <2>1. job.held = << >> /\ Passed = Keys
    BY <1>1, <1>7 DEF BackfillTypes, JobOK, Passed, Reached, InHand
  <2>2. FieldsDone'
    BY <1>1, <2>1 DEF BackfillInv, FieldsDone
  <2>3. IndexDone'
    <3>1. CASE job' = Done
      <4>1. job.phase = "index"
        BY <1>1, <3>1 DEF Start, Done
      <4>2. \A k \in Keys : HasField(records[k]) => Indexed(k)
        BY <2>1, <4>1 DEF BackfillInv, IndexDone
      <4>3. DOMAIN job'.held = {}
        BY <1>5
      <4> QED
        BY <1>1, <4>2, <4>3 DEF IndexDone, Indexed
    <3>2. CASE job' # Done
      <4>1. job'.at = "collect" /\ job'.cursor = 0
        BY <1>1, <3>2 DEF Start
      <4>2. Passed' = {}
        BY <1>2, <4>1 DEF Passed, Reached
      <4> QED
        BY <1>5, <4>2 DEF IndexDone
    <3> QED
      BY <3>1, <3>2
  <2> QED
    BY <1>1, <1>6, <2>2, <2>3 DEF BackfillInv, WritesAreKept
<1>8. CASE job.at # "finished"
  <2>1. job'.at = "collect" /\ job'.cursor = 0 /\ job'.phase = job.phase
    BY <1>1, <1>8 DEF Start
  <2>2. Passed' = {}
    BY <1>2, <2>1 DEF Passed, Reached
  <2>3. FieldsDone' /\ IndexDone'
    BY <1>1, <1>5, <2>1, <2>2 DEF BackfillInv, FieldsDone, IndexDone
  <2> QED
    BY <1>1, <1>6, <2>3 DEF BackfillInv, WritesAreKept
<1> QED
  BY <1>7, <1>8

\* A transaction of another goroutine: it is remembered, and it keeps the index.
LEMMA WriteKeeps ==
  ASSUME BackfillInv, NEW k \in Keys, NEW r \in WrittenRecords, Write(k, r)
  PROVE  BackfillInv'
<1>1. /\ records' = [records EXCEPT ![k] = r] /\ last' = [last EXCEPT ![k] = r]
      /\ index' = (index \ EntriesOf(k, records[k])) \cup EntriesOf(k, r)
      /\ UNCHANGED <<job, report>>
  BY DEF Write, IndexUpdate
<1>2. BackfillTypes
  BY DEF BackfillInv
<1>3. r \in Recs
  BY DEF WrittenRecords, Recs, Fields, Bodies
<1>4. BackfillTypes'
  BY <1>1, <1>2, <1>3 DEF BackfillTypes, JobOK
<1>5. Passed' = Passed
  BY <1>1 DEF Passed, Reached, InHand
<1>6. /\ records'[k] = r /\ last'[k] = r /\ r # Untouched
      /\ \A j \in Keys : j # k => records'[j] = records[j] /\ last'[j] = last[j]
  BY <1>1, <1>2, <1>3, RecordForms DEF BackfillTypes
<1>7. FieldsDone'
  BY <1>1, <1>5, <1>6 DEF BackfillInv, FieldsDone
<1>8. WritesAreKept'
  BY <1>6 DEF BackfillInv, WritesAreKept
<1>9. \A j \in Keys : j # k => \A f : <<f, j>> \in index' <=> <<f, j>> \in index
  BY <1>1 DEF EntriesOf
<1>10. HasField(r) => <<r.field, k>> \in index'
  BY <1>1 DEF EntriesOf
<1>11. IndexDone'
  <2> SUFFICES ASSUME job.phase = "index", NEW j \in Keys, HasField(records'[j])
               PROVE  /\ j \in Passed => <<records'[j].field, j>> \in index'
                      /\ \A i \in DOMAIN job.held : job.held[i].key = j =>
                            <<records'[j].field, j>> \in index' \/ job.held[i].value = records'[j]
    BY <1>1, <1>5 DEF IndexDone, Indexed
  <2>1. CASE j = k
    BY <1>6, <1>10, <2>1
  <2>2. CASE j # k
    BY <1>6, <1>9, <2>2 DEF BackfillInv, IndexDone, Indexed
  <2> QED
    BY <2>1, <2>2
<1> QED
  BY <1>4, <1>7, <1>8, <1>11 DEF BackfillInv

\* Every step.
LEMMA BackfillSteps == ASSUME BackfillInv, [BackfillNext]_backfillVars PROVE BackfillInv'
<1>1. ASSUME UNCHANGED <<records, index, job, last>> PROVE BackfillInv'
  <2>1. BackfillTypes' /\ FieldsDone' /\ WritesAreKept'
    BY <1>1 DEF BackfillInv, BackfillTypes, JobOK, FieldsDone, Passed, Reached, InHand, WritesAreKept
  <2>2. IndexDone'
    BY <1>1 DEF BackfillInv, IndexDone, Indexed, Passed, Reached, InHand
  <2> QED
    BY <2>1, <2>2 DEF BackfillInv
<1>2. CASE AnalyzeImpact \/ UNCHANGED backfillVars
  BY <1>1, <1>2 DEF AnalyzeImpact, backfillVars
<1>3. CASE Collect
  BY <1>3, CollectKeeps
<1>4. CASE backfillBatch
  BY <1>4, FieldBatchKeeps
<1>5. CASE indexBatch
  BY <1>5, IndexBatchKeeps
<1>6. CASE Finish \/ Restart
  BY <1>6, StartKeeps
<1>7. ASSUME NEW k \in Keys, NEW r \in WrittenRecords, Write(k, r) PROVE BackfillInv'
  BY <1>7, WriteKeeps
<1> QED
  BY <1>2, <1>3, <1>4, <1>5, <1>6, <1>7 DEF BackfillNext

\* A backfill that has ended has given the field to every record that was there,
\* has taken no concurrent write back, and its index finds every record, however
\* transactions and restarts fall between the View of a chunk and its writes
\* (backfill.go).
THEOREM BackfillCompletes == BackfillSpec => []BackfillIsComplete
<1>1. BackfillInit => BackfillInv
  BY BackfillStarts
<1>2. BackfillInv /\ [BackfillNext]_backfillVars => BackfillInv'
  BY BackfillSteps
<1>3. BackfillInv => BackfillIsComplete
  BY InvCompletes
<1> QED
  BY <1>1, <1>2, <1>3, PTL DEF BackfillSpec

-----------------------------------------------------------------------------
(***************************************************************************)
(* The full-text index.  For any terms, documents and readers, as long as  *)
(* Merge runs with every document committed: a search answers exactly      *)
(* what it should.                                                         *)
(***************************************************************************)

Segs == UNION {[D -> SUBSET Terms] : D \in SUBSET Nat}
InSegment(d) == \E i \in DOMAIN segments : d \in Docs(segments[i])

FTSTypes ==
  /\ segments \in Seq(Segs) /\ active \in Segs
  /\ nextDocID \in Nat \ {0} /\ text \in Seq(SUBSET Terms) /\ Len(text) = nextDocID - 1
  /\ writer \in {"idle", "frozen"}
  /\ tombstones \subseteq removed /\ removed \subseteq Added /\ committed \subseteq Added

\* Every segment has the terms of its documents.
SegmentsHoldTexts ==
  /\ \A d \in Docs(active) : d \in Added /\ active[d] = text[d]
  /\ \A i \in DOMAIN segments : \A d \in Docs(segments[i]) : d \in Added /\ segments[i][d] = text[d]

\* A document is in one place, but while a commit is between its halves.
OnePlace ==
  /\ \A i, j \in DOMAIN segments : \A d : d \in Docs(segments[i]) /\ d \in Docs(segments[j]) => i = j
  /\ \A d \in Docs(active) : InSegment(d) <=> writer = "frozen"

\* No document is lost, and a deleted one that is still there has its tombstone.
AllKept ==
  /\ \A d \in Added \ removed : text[d] # {} => InSegment(d) \/ d \in Docs(active)
  /\ \A d \in committed \ removed : InSegment(d)
  /\ \A d \in removed : InSegment(d) \/ d \in Docs(active) => d \in tombstones

Searches ==
  [at : {"segments", "active", "answered"}, term : Terms, hits : SUBSET (Nat \X Nat),
   due : SUBSET Nat, gone : SUBSET Nat, left : Int]

\* A search has found what is due, and nothing without the term.
SearchIn(s, docs, texts, deleted) ==
  /\ s \in Searches
  /\ \A h \in s.hits : h[1] \in docs /\ s.term \in texts[h[1]]
  /\ \A d \in s.due \ deleted : \E h \in s.hits : h[1] = d
SearchOK(s) == SearchIn(s, Added, text, removed)
ReadersOK ==
  /\ DOMAIN reader = Readers
  /\ \A r \in Readers : reader[r] \in [at : {"idle"}, left : Int] \/ SearchOK(reader[r])

IndexOK == FTSTypes /\ SegmentsHoldTexts /\ OnePlace /\ AllKept
FTSInv == IndexOK /\ ReadersOK /\ reader = [r \in Readers |-> reader[r]]

-----------------------------------------------------------------------------
(* The writer                                                              *)

LEMMA FTSStarts == FTSInit => FTSInv
<1> SUFFICES ASSUME FTSInit PROVE FTSInv
  OBVIOUS
<1>1. /\ segments = << >> /\ active = << >> /\ tombstones = {} /\ nextDocID = 1
      /\ writer = "idle" /\ committed = {} /\ text = << >> /\ removed = {}
      /\ reader = [r \in Readers |-> [at |-> "idle", left |-> MaxSearches]]
  BY DEF FTSInit, EmptySegment, IdleReader
<1>2. << >> \in Segs
  <2>1. << >> \in [{} -> SUBSET Terms]
    OBVIOUS
  <2> QED
    BY <2>1 DEF Segs
<1>3. FTSTypes
  BY <1>1, <1>2 DEF FTSTypes
<1>4. SegmentsHoldTexts /\ OnePlace /\ AllKept
  BY <1>1 DEF SegmentsHoldTexts, OnePlace, AllKept, Docs, Added, InSegment
<1>5. ReadersOK /\ reader = [r \in Readers |-> reader[r]]
  BY <1>1, FTSAssumption DEF ReadersOK
<1> QED
  BY <1>3, <1>4, <1>5 DEF FTSInv, IndexOK

\* A writer that adds no term to an old document and removes less and less disturbs no search.
LEMMA ReadersStay ==
  ASSUME ReadersOK, FTSTypes, UNCHANGED reader, removed \subseteq removed',
         \A d \in Added : d \in Added' /\ text'[d] = text[d]
  PROVE  ReadersOK'
BY DEF ReadersOK, SearchOK, SearchIn, FTSTypes

LEMMA AddKeeps == ASSUME IndexOK, AddDocument
                  PROVE  IndexOK' /\ removed' = removed /\ \A d \in Added : d \in Added' /\ text'[d] = text[d]
<1>1. PICK terms \in SUBSET Terms :
        /\ text' = Append(text, terms)
        /\ active' = IF terms = {} THEN active
                     ELSE [d \in Docs(active) \cup {nextDocID} |->
                              IF d = nextDocID THEN terms ELSE active[d]]
  BY DEF AddDocument
<1>2. /\ nextDocID' = nextDocID + 1 /\ writer = "idle"
      /\ UNCHANGED <<segments, tombstones, writer, committed, removed>>
  BY DEF AddDocument
<1>3. FTSTypes
  BY DEF IndexOK
<1>4. /\ Added' = Added \cup {nextDocID} /\ nextDocID \notin Added
      /\ \A d \in Added : text'[d] = text[d]
      /\ text'[nextDocID] = terms
      /\ text' \in Seq(SUBSET Terms) /\ Len(text') = nextDocID' - 1
  BY <1>1, <1>2, <1>3 DEF FTSTypes, Added
<1>5. /\ Docs(active') = IF terms = {} THEN Docs(active) ELSE Docs(active) \cup {nextDocID}
      /\ \A d \in Docs(active) : d # nextDocID => active'[d] = active[d]
      /\ terms # {} => active'[nextDocID] = terms
  BY <1>1 DEF Docs
<1>6. \A d : InSegment(d)' <=> InSegment(d)
  BY <1>2 DEF InSegment, Docs
<1>7. active' \in Segs
  <2>1. PICK D \in SUBSET Nat : active \in [D -> SUBSET Terms]
    BY <1>3 DEF FTSTypes, Segs
  <2>2. terms # {} => active' \in [D \cup {nextDocID} -> SUBSET Terms]
    BY <1>1, <2>1 DEF Docs
  <2>3. D \cup {nextDocID} \in SUBSET Nat
    BY <1>3 DEF FTSTypes
  <2> QED
    BY <1>1, <2>1, <2>2, <2>3 DEF Segs
<1>8. FTSTypes'
  BY <1>2, <1>3, <1>4, <1>7 DEF FTSTypes
<1>9. SegmentsHoldTexts'
  BY <1>2, <1>4, <1>5 DEF IndexOK, SegmentsHoldTexts, Docs
<1>10. ~InSegment(nextDocID)
  BY <1>4 DEF IndexOK, SegmentsHoldTexts, InSegment
<1>11. OnePlace'
  BY <1>2, <1>5, <1>6, <1>10 DEF IndexOK, OnePlace, Docs
<1>12. AllKept'
  <2>1. removed \subseteq Added /\ committed \subseteq Added
    BY <1>3 DEF FTSTypes
  <2> QED
    BY <1>2, <1>4, <1>5, <1>6, <2>1 DEF IndexOK, AllKept
<1> QED
  BY <1>2, <1>4, <1>8, <1>9, <1>11, <1>12 DEF IndexOK

LEMMA DeleteKeeps == ASSUME IndexOK, NEW d \in 1..MaxDocs, DeleteDocument(d) PROVE IndexOK'
<1>1. /\ d \in Added /\ tombstones' = tombstones \cup {d} /\ removed' = removed \cup {d}
      /\ UNCHANGED <<segments, active, nextDocID, writer, committed, text>>
  BY DEF DeleteDocument
<1>2. Added' = Added /\ \A e : InSegment(e)' <=> InSegment(e)
  BY <1>1 DEF Added, InSegment, Docs
<1>3. FTSTypes' /\ SegmentsHoldTexts' /\ OnePlace'
  BY <1>1, <1>2 DEF IndexOK, FTSTypes, SegmentsHoldTexts, OnePlace, Docs
<1>4. AllKept'
  BY <1>1, <1>2 DEF IndexOK, AllKept, Docs
<1> QED
  BY <1>3, <1>4 DEF IndexOK

LEMMA PublishKeeps == ASSUME IndexOK, CommitPublish PROVE IndexOK'
<1>1. /\ segments' = Append(segments, active) /\ writer = "idle"
      /\ writer' = "frozen" /\ committed' = committed \cup Docs(active)
      /\ UNCHANGED <<active, tombstones, nextDocID, text, removed>>
  BY DEF CommitPublish
<1>2. FTSTypes
  BY DEF IndexOK
<1> DEFINE n == Len(segments) + 1
<1>3. /\ segments' \in Seq(Segs) /\ DOMAIN segments' = DOMAIN segments \cup {n}
      /\ n \notin DOMAIN segments /\ segments'[n] = active
      /\ \A i \in DOMAIN segments : segments'[i] = segments[i]
  BY <1>1, <1>2 DEF FTSTypes
<1> HIDE DEF n
<1>4. \A d : InSegment(d)' <=> InSegment(d) \/ d \in Docs(active)
  BY <1>1, <1>3 DEF InSegment, Docs
<1>5. Added' = Added /\ Docs(active)' = Docs(active)
  BY <1>1 DEF Added, Docs
<1>6. \A d \in Docs(active) : d \in Added
  BY DEF IndexOK, SegmentsHoldTexts
<1>7. FTSTypes'
  BY <1>1, <1>2, <1>3, <1>5, <1>6 DEF FTSTypes
<1>8. SegmentsHoldTexts'
  BY <1>1, <1>3, <1>5 DEF IndexOK, SegmentsHoldTexts, Docs
<1>9. OnePlace'
  <2>1. \A d \in Docs(active) : ~InSegment(d)
    BY <1>1 DEF IndexOK, OnePlace
  <2>2. ASSUME NEW i \in DOMAIN segments', NEW j \in DOMAIN segments', NEW d,
               d \in DOMAIN segments'[i], d \in DOMAIN segments'[j]
        PROVE  i = j
    BY <1>3, <2>1, <2>2 DEF IndexOK, OnePlace, InSegment, Docs
  <2>3. \A d \in Docs(active)' : InSegment(d)'
    BY <1>4, <1>5
  <2> QED
    BY <1>1, <2>2, <2>3 DEF OnePlace, Docs
<1>10. AllKept'
  BY <1>1, <1>4, <1>5 DEF IndexOK, AllKept
<1> QED
  BY <1>7, <1>8, <1>9, <1>10 DEF IndexOK

LEMMA RenewKeeps == ASSUME IndexOK, CommitRenew PROVE IndexOK'
<1>1. /\ writer = "frozen" /\ active' = << >> /\ writer' = "idle"
      /\ UNCHANGED <<segments, tombstones, nextDocID, committed, text, removed>>
  BY DEF CommitRenew, EmptySegment
<1>2. /\ Added' = Added /\ (\A d : InSegment(d)' <=> InSegment(d)) /\ Docs(active)' = {}
      /\ \A d \in Docs(active) : InSegment(d)
  BY <1>1 DEF Added, InSegment, Docs, IndexOK, OnePlace
<1>3. << >> \in Segs
  <2>1. << >> \in [{} -> SUBSET Terms]
    OBVIOUS
  <2> QED
    BY <2>1 DEF Segs
<1>4. FTSTypes'
  BY <1>1, <1>2, <1>3 DEF IndexOK, FTSTypes
<1>5. SegmentsHoldTexts' /\ OnePlace'
  BY <1>1, <1>2 DEF IndexOK, SegmentsHoldTexts, OnePlace, Docs
<1>6. AllKept'
  BY <1>1, <1>2 DEF IndexOK, AllKept
<1> QED
  BY <1>4, <1>5, <1>6 DEF IndexOK

\* A merge keeps every document that has no tombstone, with its terms.
LEMMA MergeKeeps == ASSUME IndexOK, Merge, ~MergeWhileActive PROVE IndexOK'
<1> DEFINE M == mergeSegments(segments, tombstones)
<1>1. /\ active = << >> /\ segments' = <<M>> /\ tombstones' = {} /\ writer = "idle"
      /\ UNCHANGED <<active, nextDocID, writer, committed, text, removed>>
  BY DEF Merge, EmptySegment
<1>2. FTSTypes
  BY DEF IndexOK
<1>3. DOMAIN M = {d \in UNION {Docs(segments[i]) : i \in DOMAIN segments} : d \notin tombstones}
  BY DEF mergeSegments
<1>4. \A d : d \in DOMAIN M <=> InSegment(d) /\ d \notin tombstones
  BY <1>3 DEF InSegment
<1>5. ASSUME NEW d, d \in DOMAIN M PROVE d \in Added /\ M[d] = text[d]
  <2>1. PICK i \in DOMAIN segments : d \in Docs(segments[i])
    BY <1>4, <1>5 DEF InSegment
  <2>2. \A j \in DOMAIN segments : d \in Docs(segments[j]) => j = i
    BY <2>1 DEF IndexOK, OnePlace
  <2>3. segments \in Seq(Segs)
    BY <1>2 DEF FTSTypes
  <2>4. \A j \in (i + 1)..Len(segments) : d \notin Docs(segments[j])
    BY <2>1, <2>2, <2>3
  <2> DEFINE l == CHOOSE k \in DOMAIN segments :
                     d \in Docs(segments[k]) /\ \A j \in (k + 1)..Len(segments) : d \notin Docs(segments[j])
  <2>5. l = i
    BY <2>1, <2>2, <2>4
  <2>6. M[d] = segments[l][d]
    BY <1>5 DEF mergeSegments
  <2> HIDE DEF l, M
  <2> QED
    BY <2>1, <2>5, <2>6 DEF IndexOK, SegmentsHoldTexts
<1>6. Added' = Added /\ Docs(active)' = {}
  BY <1>1 DEF Added, Docs
<1>7. M \in Segs
  <2>1. M = [d \in DOMAIN M |-> M[d]]
    BY DEF mergeSegments
  <2> HIDE DEF M
  <2>2. \A d \in DOMAIN M : d \in Nat /\ M[d] \in SUBSET Terms
    <3> TAKE d \in DOMAIN M
    <3>1. d \in 1..Len(text) /\ M[d] = text[d]
      BY <1>2, <1>5 DEF Added, FTSTypes
    <3> QED
      BY <1>2, <3>1 DEF FTSTypes
  <2>3. M \in [DOMAIN M -> SUBSET Terms] /\ DOMAIN M \in SUBSET Nat
    BY <2>1, <2>2
  <2> QED
    BY <2>3 DEF Segs
<1> HIDE DEF M
<1>8. segments' \in Seq(Segs) /\ DOMAIN segments' = {1} /\ segments'[1] = M
  BY <1>1, <1>7
<1>9. \A d : InSegment(d)' <=> InSegment(d) /\ d \notin tombstones
  BY <1>4, <1>8 DEF InSegment, Docs
<1>10. FTSTypes'
  BY <1>1, <1>2, <1>6, <1>8 DEF FTSTypes
<1>11. SegmentsHoldTexts'
  BY <1>1, <1>5, <1>6, <1>8 DEF SegmentsHoldTexts, Docs
<1>12. OnePlace'
  BY <1>6, <1>8 DEF OnePlace
<1>13. AllKept'
  BY <1>1, <1>2, <1>6, <1>9 DEF IndexOK, AllKept, FTSTypes, Docs
<1> QED
  BY <1>10, <1>11, <1>12, <1>13 DEF IndexOK
-----------------------------------------------------------------------------
(* Searches                                                                *)

\* The hits of a term are documents that have it, each at its place.
LEMMA HitsHaveTerm ==
  ASSUME IndexOK, NEW t
  PROVE  /\ \A h \in HitsIn(segments, t) :
              /\ h \in Nat \X Nat /\ h[1] \in Added /\ t \in text[h[1]]
              /\ h[2] \in DOMAIN segments /\ h[1] \in Docs(segments[h[2]]) /\ h = <<h[1], h[2]>>
         /\ \A d \in Added : InSegment(d) /\ t \in text[d] => \E h \in HitsIn(segments, t) : h[1] = d
         /\ \A h \in ActiveHits(t) :
              /\ h \in Nat \X Nat /\ h[1] \in Added /\ t \in text[h[1]]
              /\ h[2] = 0 /\ h[1] \in Docs(active) /\ h = <<h[1], 0>>
         /\ \A d \in Docs(active) : t \in text[d] => <<d, 0>> \in ActiveHits(t)
<1>1. /\ segments \in Seq(Segs) /\ nextDocID \in Nat
      /\ Added \subseteq Nat /\ DOMAIN segments \subseteq Nat /\ SegmentsHoldTexts
  BY DEF IndexOK, FTSTypes, Added
<1>2. ASSUME NEW h \in HitsIn(segments, t)
      PROVE  /\ h \in Nat \X Nat /\ h[1] \in Added /\ t \in text[h[1]]
             /\ h[2] \in DOMAIN segments /\ h[1] \in Docs(segments[h[2]]) /\ h = <<h[1], h[2]>>
  <2>1. PICK i \in DOMAIN segments : \E d \in SegmentSearch(segments[i], t) : h = <<d, i>>
    BY DEF HitsIn
  <2>2. PICK d \in SegmentSearch(segments[i], t) : h = <<d, i>>
    BY <2>1
  <2>3. d \in Docs(segments[i]) /\ t \in segments[i][d]
    BY DEF SegmentSearch
  <2>4. d \in Added /\ segments[i][d] = text[d]
    BY <1>1, <2>3 DEF SegmentsHoldTexts
  <2> QED
    BY <1>1, <2>2, <2>3, <2>4
<1>3. ASSUME NEW d \in Added, InSegment(d), t \in text[d]
      PROVE  \E h \in HitsIn(segments, t) : h[1] = d
  <2>1. PICK i \in DOMAIN segments : d \in Docs(segments[i])
    BY <1>3 DEF InSegment
  <2>2. d \in SegmentSearch(segments[i], t)
    BY <1>1, <1>3, <2>1 DEF SegmentsHoldTexts, SegmentSearch
  <2>3. <<d, i>> \in HitsIn(segments, t)
    BY <2>2 DEF HitsIn
  <2> QED
    BY <2>3
<1>4. ASSUME NEW h \in ActiveHits(t)
      PROVE  /\ h \in Nat \X Nat /\ h[1] \in Added /\ t \in text[h[1]]
             /\ h[2] = 0 /\ h[1] \in Docs(active) /\ h = <<h[1], 0>>
  <2>1. PICK d \in SegmentSearch(active, t) : h = <<d, 0>>
    BY DEF ActiveHits
  <2>2. d \in Docs(active) /\ t \in active[d]
    BY DEF SegmentSearch
  <2> QED
    BY <1>1, <2>1, <2>2 DEF SegmentsHoldTexts
<1>5. \A d \in Docs(active) : t \in text[d] => <<d, 0>> \in ActiveHits(t)
  BY <1>1 DEF SegmentsHoldTexts, ActiveHits, SegmentSearch
<1> QED
  BY <1>2, <1>3, <1>4, <1>5

\* One step of one search.
LEMMA ReadersKeep ==
  ASSUME FTSInv, NEW r \in Readers,
         \/ \E t \in Terms : SearchSegments(r, t)
         \/ SearchActive(r) \/ SearchFilter(r) \/ SearchReturn(r)
  PROVE  FTSInv'
<1>1. UNCHANGED indexVars
  BY DEF SearchSegments, SearchActive, SearchFilter, SearchReturn
<1>2. IndexOK'
  BY <1>1 DEF FTSInv, IndexOK, indexVars, FTSTypes, SegmentsHoldTexts, OnePlace, AllKept, Added, InSegment, Docs
<1>3. UNCHANGED <<removed, text, Added>>
  BY <1>1 DEF indexVars, Added
<1> DEFINE old == reader[r]
           new == reader'[r]
<1>4. IndexOK /\ (old \in [at : {"idle"}, left : Int] \/ SearchOK(old))
  BY DEF FTSInv, ReadersOK
<1>5. reader' = [reader EXCEPT ![r] = new] /\ DOMAIN reader = Readers
  <2>1. reader = [s \in Readers |-> reader[s]]
    BY DEF FTSInv
  <2> QED
    BY <2>1 DEF SearchSegments, SearchActive, SearchFilter, SearchReturn
<1>6. new \in [at : {"idle"}, left : Int] \/ SearchOK(new)
  <2>1. ASSUME NEW t \in Terms, SearchSegments(r, t) PROVE SearchOK(new)
    <3> DEFINE hits == HitsIn(segments, t)
               due == Relevant(t) \cap committed
               left == old.left - 1
    <3>1. /\ old.at = "idle"
          /\ new = [at |-> "segments", term |-> t, hits |-> hits, due |-> due, gone |-> removed, left |-> left]
      BY <1>5, <2>1 DEF SearchSegments
    <3>2. left \in Int
      BY <1>4, <3>1 DEF SearchOK, SearchIn, Searches
    <3>3. hits \in SUBSET (Nat \X Nat)
      BY <1>4, HitsHaveTerm
    <3>4. due \in SUBSET Nat /\ removed \in SUBSET Nat
      <4>1. Added \subseteq Nat
        BY <1>4 DEF IndexOK, FTSTypes, Added
      <4> QED
        BY <1>4, <4>1 DEF IndexOK, FTSTypes, Relevant
    <3>5. \A h \in hits : h[1] \in Added /\ t \in text[h[1]]
      BY <1>4, HitsHaveTerm
    <3>6. ASSUME NEW d \in due, d \notin removed PROVE \E h \in hits : h[1] = d
      <4>1. d \in Added /\ t \in text[d] /\ d \in committed
        BY DEF Relevant
      <4>2. InSegment(d)
        BY <1>4, <3>6, <4>1 DEF IndexOK, AllKept
      <4> QED
        BY <1>4, <4>1, <4>2, HitsHaveTerm
    <3> HIDE DEF hits, due, left
    <3>7. new \in Searches
      BY <3>1, <3>2, <3>3, <3>4 DEF Searches
    <3> HIDE DEF new
    <3> QED
      BY <1>3, <3>1, <3>5, <3>6, <3>7 DEF SearchOK, SearchIn
  <2>2. CASE SearchActive(r)
    <3> DEFINE hits == old.hits \cup ActiveHits(old.term)
    <3>1. SearchOK(old) /\ old \in Searches
      BY <1>4, <2>2 DEF SearchActive, SearchOK, SearchIn
    <3>2. new = [old EXCEPT !.at = "active", !.hits = hits]
      BY <1>5, <2>2, <3>1 DEF SearchActive, Searches
    <3>3. /\ hits \in SUBSET (Nat \X Nat)
          /\ \A h \in hits : h[1] \in Added /\ old.term \in text[h[1]]
          /\ \A h \in old.hits : h \in hits
      BY <1>4, <3>1, HitsHaveTerm DEF SearchOK, SearchIn, Searches
    <3> HIDE DEF hits
    <3>4. new \in Searches /\ new.hits = hits /\ new.term = old.term /\ new.due = old.due
      BY <3>1, <3>2, <3>3 DEF Searches
    <3> HIDE DEF new, old
    <3> QED
      BY <1>3, <3>1, <3>3, <3>4 DEF SearchOK, SearchIn
  <2>3. CASE SearchFilter(r)
    <3> DEFINE hits == FilterPostings(old.hits, tombstones)
    <3>1. SearchOK(old) /\ old \in Searches
      BY <1>4, <2>3 DEF SearchFilter, SearchOK, SearchIn
    <3>2. new = [old EXCEPT !.at = "answered", !.hits = hits]
      BY <1>5, <2>3, <3>1 DEF SearchFilter, Searches
    <3>3. /\ hits \subseteq old.hits /\ hits \in SUBSET (Nat \X Nat)
          /\ \A h \in old.hits : h[1] \notin removed => h \in hits
      BY <1>4, <3>1 DEF SearchOK, SearchIn, Searches, FilterPostings, IndexOK, FTSTypes
    <3> HIDE DEF hits
    <3>4. new \in Searches /\ new.hits = hits /\ new.term = old.term /\ new.due = old.due
      BY <3>1, <3>2, <3>3 DEF Searches
    <3> HIDE DEF new, old
    <3>5. \A h \in new.hits : h[1] \in Added /\ new.term \in text[h[1]]
      BY <3>1, <3>3, <3>4 DEF SearchOK, SearchIn
    <3>6. ASSUME NEW d \in new.due, d \notin removed PROVE \E h \in new.hits : h[1] = d
      <4>1. PICK h \in old.hits : h[1] = d
        BY <3>1, <3>4, <3>6 DEF SearchOK, SearchIn
      <4> QED
        BY <3>3, <3>4, <3>6, <4>1
    <3> QED
      BY <1>3, <3>4, <3>5, <3>6 DEF SearchOK, SearchIn
  <2>4. CASE SearchReturn(r)
    <3>1. new = [at |-> "idle", left |-> old.left]
      BY <1>5, <2>4 DEF SearchReturn, IdleReader
    <3>2. old.left \in Int
      BY <1>4 DEF SearchOK, SearchIn, Searches
    <3> QED
      BY <3>1, <3>2
  <2> QED
    BY <2>1, <2>2, <2>3, <2>4
<1>7. ASSUME NEW s \in Readers, s # r
      PROVE  reader'[s] \in [at : {"idle"}, left : Int] \/ SearchOK(reader'[s])
  <2>1. reader'[s] = reader[s] /\ (reader[s] \in [at : {"idle"}, left : Int] \/ SearchOK(reader[s]))
    BY <1>5, <1>7 DEF FTSInv, ReadersOK
  <2> QED
    BY <1>3, <2>1 DEF SearchOK, SearchIn
<1>8. ReadersOK'
  <2>1. DOMAIN reader' = Readers
    BY <1>5
  <2> HIDE DEF new
  <2>2. \A s \in Readers : reader'[s] \in [at : {"idle"}, left : Int] \/ SearchOK(reader'[s])
    BY <1>6, <1>7 DEF new
  <2>3. \A s \in Readers :
          reader'[s] \in [at : {"idle"}, left : Int] \/ SearchIn(reader'[s], Added', text', removed')
    BY <1>3, <2>2 DEF SearchOK
  <2> QED
    BY <2>1, <2>3 DEF ReadersOK, SearchOK
<1>9. reader' = [s \in Readers |-> reader'[s]]
  BY <1>5
<1> QED
  BY <1>2, <1>8, <1>9 DEF FTSInv

LEMMA FTSSteps == ASSUME FTSInv, [FTSNext]_ftsVars, ~MergeWhileActive PROVE FTSInv'
<1>1. ASSUME IndexOK', UNCHANGED reader, removed \subseteq removed',
             \A d \in Added : d \in Added' /\ text'[d] = text[d]
      PROVE  FTSInv'
  BY <1>1, ReadersStay DEF FTSInv, IndexOK
<1>2. CASE AddDocument
  BY <1>1, <1>2, AddKeeps DEF FTSInv, AddDocument
<1>3. ASSUME NEW d \in 1..MaxDocs, DeleteDocument(d) PROVE FTSInv'
  BY <1>1, <1>3, DeleteKeeps DEF FTSInv, DeleteDocument, Added
<1>4. CASE CommitPublish
  BY <1>1, <1>4, PublishKeeps DEF FTSInv, CommitPublish, Added
<1>5. CASE CommitRenew
  BY <1>1, <1>5, RenewKeeps DEF FTSInv, CommitRenew, Added
<1>6. CASE Merge
  BY <1>1, <1>6, MergeKeeps DEF FTSInv, Merge, Added
<1>7. ASSUME NEW r \in Readers,
             \/ \E t \in Terms : SearchSegments(r, t)
             \/ SearchActive(r) \/ SearchFilter(r) \/ SearchReturn(r)
      PROVE  FTSInv'
  BY <1>7, ReadersKeep
<1>8. CASE UNCHANGED ftsVars
  BY <1>8 DEF ftsVars, FTSInv, IndexOK, FTSTypes, SegmentsHoldTexts, OnePlace, AllKept, Added, InSegment, Docs,
              ReadersOK, SearchOK, SearchIn
<1> QED
  BY <1>2, <1>3, <1>4, <1>5, <1>6, <1>7, <1>8 DEF FTSNext

\* Between two writes every document has one hit at the most, so that the numbers agree too.
LEMMA SearchIsExact == ASSUME FTSInv PROVE SearchesAreExact
<1>1. IndexOK
  BY DEF FTSInv
<1>2. ASSUME writer = "idle", NEW t \in Terms
      PROVE  /\ {h[1] : h \in AllHits(t)} = Relevant(t)
             /\ Cardinality(AllHits(t)) = Cardinality(Relevant(t))
  <2> DEFINE hits == HitsIn(segments, t) \cup ActiveHits(t)
             H == AllHits(t)
             R == Relevant(t)
  <2>1. \A h : h \in H <=> h \in hits /\ h[1] \notin tombstones
    BY DEF AllHits, FilterPostings
  <2>2. ASSUME NEW h \in H PROVE h[1] \in R
    <3>1. h[1] \in Added /\ t \in text[h[1]] /\ (InSegment(h[1]) \/ h[1] \in Docs(active))
      BY <1>1, <2>1, HitsHaveTerm DEF InSegment
    <3>2. h[1] \notin removed
      BY <1>1, <2>1, <3>1 DEF IndexOK, AllKept
    <3> QED
      BY <3>1, <3>2 DEF Relevant
  <2>3. ASSUME NEW d \in R PROVE \E h \in H : h[1] = d
    <3>1. d \in Added /\ d \notin removed /\ t \in text[d]
      BY DEF Relevant
    <3>2. d \notin tombstones
      BY <1>1, <3>1 DEF IndexOK, FTSTypes
    <3>3. InSegment(d) \/ d \in Docs(active)
      BY <1>1, <3>1 DEF IndexOK, AllKept
    <3>4. \E h \in hits : h[1] = d
      <4>1. CASE InSegment(d)
        BY <1>1, <3>1, <4>1, HitsHaveTerm
      <4>2. CASE d \in Docs(active)
        <5>1. <<d, 0>> \in ActiveHits(t)
          BY <1>1, <3>1, <4>2, HitsHaveTerm
        <5> QED
          BY <5>1
      <4> QED
        BY <3>3, <4>1, <4>2
    <3> QED
      BY <2>1, <3>2, <3>4
  <2>4. ASSUME NEW g \in H, NEW h \in H, g[1] = h[1] PROVE g = h
    <3>1. g \in hits /\ h \in hits
      BY <2>1
    <3>2. /\ \A k \in HitsIn(segments, t) : k[2] \in DOMAIN segments /\ k[1] \in Docs(segments[k[2]]) /\ k = <<k[1], k[2]>>
          /\ \A k \in ActiveHits(t) : k[1] \in Docs(active) /\ k = <<k[1], 0>>
      BY <1>1, HitsHaveTerm
    <3>3. \A k \in HitsIn(segments, t) : k[1] \notin Docs(active)
      BY <1>1, <1>2, <3>2 DEF IndexOK, OnePlace, InSegment
    <3>4. CASE g \in HitsIn(segments, t) /\ h \in HitsIn(segments, t)
      <4>1. g[2] = h[2]
        BY <1>1, <2>4, <3>2, <3>4 DEF IndexOK, OnePlace
      <4> QED
        BY <2>4, <3>2, <3>4, <4>1
    <3>5. CASE g \in ActiveHits(t) /\ h \in ActiveHits(t)
      BY <2>4, <3>2, <3>5
    <3>6. ~(g \in HitsIn(segments, t) /\ h \in ActiveHits(t)) /\ ~(h \in HitsIn(segments, t) /\ g \in ActiveHits(t))
      BY <2>4, <3>2, <3>3
    <3> QED
      BY <3>1, <3>4, <3>5, <3>6
  <2> HIDE DEF H, R
  <2> DEFINE of == [d \in R |-> CHOOSE h \in H : h[1] = d]
  <2>5. \A d \in R : of[d] \in H /\ of[d][1] = d
    BY <2>3
  <2>6. of \in Bijection(R, H)
    <3>1. of \in [R -> H] /\ DOMAIN of = R
      BY <2>5
    <3>2. \A d, e \in R : of[d] = of[e] => d = e
      BY <2>5
    <3>3. \A h \in H : \E d \in R : of[d] = h
      <4> TAKE h \in H
      <4>1. h[1] \in R /\ of[h[1]] \in H /\ of[h[1]][1] = h[1]
        BY <2>2, <2>5
      <4> HIDE DEF of
      <4>2. of[h[1]] = h
        BY <2>4, <4>1
      <4> QED
        BY <4>1, <4>2
    <3> HIDE DEF of
    <3> QED
      BY <3>1, <3>2, <3>3 DEF Bijection, Injection, Surjection, IsInjective
  <2>7. IsFiniteSet(R)
    <3>1. R \in SUBSET Added
      BY DEF R, Relevant
    <3>2. IsFiniteSet(Added)
      BY <1>1, FS_Interval DEF IndexOK, FTSTypes, Added
    <3> QED
      BY <3>1, <3>2, FS_Subset
  <2>8. Cardinality(H) = Cardinality(R)
    BY <2>6, <2>7, FS_Bijection DEF ExistsBijection
  <2>9. {h[1] : h \in H} = R
    BY <2>2, <2>3
  <2> QED
    BY <2>8, <2>9 DEF H, R
<1>3. SearchFindsExactly
  BY <1>2 DEF SearchFindsExactly
<1>4. SearchesBesideWriter
  <2> SUFFICES ASSUME NEW r \in Readers, reader[r].at = "answered"
               PROVE  LET found == {h[1] : h \in reader[r].hits}
                      IN reader[r].due \ removed \subseteq found /\ (\A d \in found : reader[r].term \in text[d])
    BY DEF SearchesBesideWriter
  <2>1. SearchOK(reader[r])
    BY DEF FTSInv, ReadersOK
  <2> QED
    BY <2>1 DEF SearchOK, SearchIn
<1> QED
  BY <1>3, <1>4 DEF SearchesAreExact

\* A search between two writes returns one hit for every document that has the
\* term and is not deleted; one beside the writer misses no committed document
\* that stays.  Through any sequence of commits, deletes and of merges with every
\* document committed (index/fts/index.go).
THEOREM SearchesStayExact == ~MergeWhileActive => (FTSSpec => []SearchesAreExact)
<1> SUFFICES ASSUME ~MergeWhileActive PROVE FTSSpec => []SearchesAreExact
  OBVIOUS
<1>1. FTSInit => FTSInv
  BY FTSStarts
<1>2. FTSInv /\ [FTSNext]_ftsVars => FTSInv'
  BY FTSSteps
<1>3. FTSInv => SearchesAreExact
  BY SearchIsExact
<1> QED
  BY <1>1, <1>2, <1>3, PTL DEF FTSSpec

-----------------------------------------------------------------------------
(***************************************************************************)
(* The schema migrations.  For any legacy records, sizes of a batch,       *)
(* crashes and alterations: a version says what has been translated.       *)
(***************************************************************************)

\* A store of records that the migrations wrote.
Stamps == [createdAt : {CHOOSE t \in Times : TRUE}, lifecycle : {"Active"}, supersedes : Nat]
Logs == [chain : [Ids -> Seq(Stamps)], reverse : [Links -> Nat]]

\* No chain has two versions, and a link has both its halves unless one is known to be missing.
LogOK(s, half) ==
  /\ s \in Logs
  /\ \A id \in Ids : Len(s.chain[id]) \in {0, 1}
  /\ \A l \in Links : s.chain[l] # << >> => half \/ s.reverse[l] # NoVersion

\* A step of a transaction's work on a batch.
Works == [store : Logs, puts : Nat, ok : BOOLEAN, half : BOOLEAN]
LegacyRecs == [id : Ids, form : Forms]

\* Where a transaction is after n records.
WorkOK(w, batch, n) ==
  /\ w \in Works /\ LogOK(w.store, w.half) /\ Grows(store, w.store)
  /\ (halfWritten => w.half) /\ (w.ok => w.half = halfWritten)
  /\ w.ok => \A i \in 1..n : batch[i].form = "good" => w.store.chain[batch[i].id] # << >>

-----------------------------------------------------------------------------
(* One transaction                                                         *)

\* appendInTx on a record that has no version yet.
FirstVersion == CHOOSE u \in Times : TRUE
FirstAppend(s, id, n) == appendInTx(s, id, FirstVersion, "Active", n)
LEMMA AppendIsFirst ==
  ASSUME NEW s, NEW half \in BOOLEAN, LogOK(s, half), NEW id \in Ids, s.chain[id] = << >>,
         NEW n \in 0..PutsOf(id)
  PROVE  /\ LogOK(FirstAppend(s, id, n), half \/ n \in 1..(PutsOf(id) - 1))
         /\ Grows(s, FirstAppend(s, id, n))
         /\ n = PutsOf(id) => FirstAppend(s, id, n).chain[id] # << >>
<1> DEFINE t == FirstAppend(s, id, n)
           r == stamp(s, id, FirstVersion, "Active")
<1>1. StoreOf(s, Stamps)
  BY DEF LogOK, Logs, StoreOf
<1>2. r \in Stamps
  BY DEF stamp, latestVersion, Stamps, FirstVersion
<1>3. StoreOf(t, Stamps) /\ Appended(s, t, id, r, n)
  BY <1>1, <1>2, AppendIs DEF FirstAppend
<1> HIDE DEF r, t
<1>4. n \in {0, 1, 2} /\ PutsOf(id) \in {1, 2} /\ (id \notin Links => PutsOf(id) = 1) /\ (id \in Links => PutsOf(id) = 2)
  BY DEF PutsOf
<1>5. Append(s.chain[id], r) # << >> /\ Len(Append(s.chain[id], r)) = 1
  BY <1>2
<1>6. /\ n = 0 => t = s
      /\ n # 0 => t.chain[id] # << >> /\ Len(t.chain[id]) = 1
      /\ \A i \in Ids : i # id => t.chain[i] = s.chain[i]
      /\ n = 2 => id \in Links /\ t.reverse[id] = 1
      /\ \A l \in Links : n # 2 \/ l # id => t.reverse[l] = s.reverse[l]
  <2>1. Len(s.chain[id]) + 1 = 1
    OBVIOUS
  <2> QED
    BY <1>3, <1>5, <2>1 DEF Appended
<1>7. t \in Logs
  BY <1>3 DEF StoreOf, Logs
<1>8. /\ \A i \in Ids : Len(s.chain[i]) \in {0, 1}
      /\ \A l \in Links : s.chain[l] # << >> => half \/ s.reverse[l] # 0
  BY DEF LogOK, NoVersion
<1>9. \A i \in Ids : Len(t.chain[i]) \in {0, 1}
  <2> TAKE i \in Ids
  <2>1. CASE i = id
    BY <1>6, <2>1
  <2>2. CASE i # id
    BY <1>6, <1>8, <2>2
  <2> QED
    BY <2>1, <2>2
<1>10. Links \subseteq Ids
  BY DEF Ids
<1> DEFINE broken == n \in 1..(PutsOf(id) - 1)
<1>11. broken <=> n = 1 /\ id \in Links
  BY <1>4
<1> HIDE DEF broken
<1>12. \A l \in Links : t.chain[l] # << >> => half \/ broken \/ t.reverse[l] # 0
  <2> TAKE l \in Links
  <2>1. CASE l = id
    BY <1>4, <1>6, <1>11, <2>1
  <2>2. CASE l # id
    BY <1>6, <1>8, <1>10, <2>2
  <2> QED
    BY <2>1, <2>2
<1>13. LogOK(t, half \/ broken)
  BY <1>7, <1>9, <1>12 DEF LogOK, NoVersion
<1>14. Grows(s, t)
  BY <1>6 DEF Grows, NoVersion
<1> QED
  BY <1>4, <1>6, <1>13, <1>14 DEF t, broken

\* One record of the batch.
LEMMA TranslateKeeps ==
  ASSUME NEW batch \in Seq(LegacyRecs), NEW n \in 1..Len(batch), NEW w, WorkOK(w, batch, n - 1)
  PROVE  WorkOK(translate(w, batch[n]), batch, n)
<1> DEFINE r == batch[n]
           v == translate(w, r)
           k == IF w.puts < PutsOf(r.id) THEN w.puts ELSE PutsOf(r.id)
           t == FirstAppend(w.store, r.id, k)
<1>1. /\ w \in Works /\ LogOK(w.store, w.half) /\ Grows(store, w.store)
      /\ (halfWritten => w.half) /\ (w.ok => w.half = halfWritten)
      /\ w.ok => \A i \in 1..(n - 1) : batch[i].form = "good" => w.store.chain[batch[i].id] # << >>
  BY DEF WorkOK
<1>2. r.id \in Ids /\ r.form \in {"good", "nameless", "bad"}
  <2>1. r \in LegacyRecs
    OBVIOUS
  <2> HIDE DEF r
  <2> QED
    BY <2>1 DEF LegacyRecs, Forms
<1>3. \A i \in 1..n : i \in 1..(n - 1) \/ i = n
  OBVIOUS
<1>4. CASE ~w.ok \/ r.form = "nameless"
  <2>1. v = w
    BY <1>4 DEF translate
  <2> HIDE DEF r
  <2>2. w.ok => \A i \in 1..n : batch[i].form = "good" => w.store.chain[batch[i].id] # << >>
    BY <1>1, <1>3, <1>4 DEF r
  <2> QED
    BY <1>1, <2>1, <2>2 DEF WorkOK, r
<1>5. CASE w.ok /\ r.form = "bad"
  <2>1. v = [w EXCEPT !.ok = FALSE]
    BY <1>5 DEF translate
  <2>2. v \in Works /\ v.store = w.store /\ v.half = w.half /\ v.ok = FALSE
    BY <1>1, <2>1 DEF Works
  <2> HIDE DEF v
  <2> QED
    BY <1>1, <2>2 DEF WorkOK, v
<1>6. CASE w.ok /\ r.form = "good" /\ AlreadyTranslated(w.store, r)
  <2>1. v = w
    BY <1>6 DEF translate
  <2>2. w.store.chain[r.id] # << >>
    BY <1>6 DEF AlreadyTranslated
  <2> HIDE DEF r
  <2>3. \A i \in 1..n : batch[i].form = "good" => w.store.chain[batch[i].id] # << >>
    BY <1>1, <1>3, <1>6, <2>2 DEF r
  <2> QED
    BY <1>1, <2>1, <2>3 DEF WorkOK, r
<1>7. CASE w.ok /\ r.form = "good" /\ ~AlreadyTranslated(w.store, r)
  <2>1. v = [w EXCEPT !.store = t, !.puts = @ - k, !.ok = (k = PutsOf(r.id)),
                      !.half = (@ \/ k \in 1..(PutsOf(r.id) - 1))]
    BY <1>7 DEF translate, FirstAppend, FirstVersion
  <2>2. w.store.chain[r.id] = << >>
    <3>1. w.store.chain[r.id] \in Seq(Stamps)
      BY <1>1, <1>2 DEF Works, Logs
    <3> QED
      BY <1>7, <3>1 DEF AlreadyTranslated
  <2>3. k \in 0..PutsOf(r.id) /\ w.puts - k \in Nat /\ PutsOf(r.id) \in Nat /\ w.half \in BOOLEAN
    BY <1>1 DEF Works, PutsOf
  <2> HIDE DEF k, r
  <2>4. /\ LogOK(t, w.half \/ k \in 1..(PutsOf(r.id) - 1)) /\ Grows(w.store, t)
        /\ k = PutsOf(r.id) => t.chain[r.id] # << >>
    BY <1>1, <1>2, <2>2, <2>3, AppendIsFirst
  <2> HIDE DEF t, v
  <2> DEFINE half == (w.half \/ k \in 1..(PutsOf(r.id) - 1))
             ok == (k = PutsOf(r.id))
  <2>5. half \in BOOLEAN /\ ok \in BOOLEAN
    OBVIOUS
  <2>6. t \in Logs
    BY <2>4 DEF LogOK
  <2>7. ok => half = w.half
    BY <2>3
  <2>8. v = [w EXCEPT !.store = t, !.puts = @ - k, !.ok = ok, !.half = half] /\ (w.half => half)
    BY <1>1, <2>1 DEF Works
  <2>9. LogOK(t, half) /\ (ok => t.chain[r.id] # << >>)
    BY <2>4
  <2> HIDE DEF half, ok
  <2>10. v \in Works /\ v.store = t /\ v.ok = ok /\ v.half = half
    BY <1>1, <2>3, <2>5, <2>6, <2>8 DEF Works
  <2>11. Grows(store, t)
    BY <1>1, <2>4 DEF Grows
  <2>12. ok => \A i \in 1..n : batch[i].form = "good" => t.chain[batch[i].id] # << >>
    <3> SUFFICES ASSUME ok, NEW i \in 1..n, batch[i].form = "good" PROVE t.chain[batch[i].id] # << >>
      OBVIOUS
    <3>1. CASE i = n
      BY <2>9, <3>1 DEF r
    <3>2. CASE i # n
      <4>1. i \in 1..(n - 1) /\ batch[i].id \in Ids
        <5>1. i \in 1..(n - 1) /\ batch[i] \in LegacyRecs
          BY <3>2
        <5> QED
          BY <5>1 DEF LegacyRecs
      <4>2. w.store.chain[batch[i].id] # << >>
        BY <1>1, <1>7, <4>1
      <4> QED
        BY <2>4, <4>1, <4>2 DEF Grows
    <3> QED
      BY <3>1, <3>2
  <2>13. WorkOK(v, batch, n)
    BY <1>1, <1>7, <2>7, <2>8, <2>9, <2>10, <2>11, <2>12 DEF WorkOK
  <2> QED
    BY <2>13 DEF v, r
<1> QED
  BY <1>2, <1>4, <1>5, <1>6, <1>7
\* A transaction, wherever its Puts end.
LEMMA BatchIsWorked ==
  ASSUME halfWritten \in BOOLEAN, LogOK(store, halfWritten), NEW batch \in Seq(LegacyRecs), NEW puts \in Nat
  PROVE  WorkOK(Translated(batch, puts), batch, Len(batch))
<1> DEFINE m == Len(batch)
           start == [store |-> store, puts |-> puts, ok |-> TRUE, half |-> halfWritten]
           step == [p \in Works \X (1..m) |-> translate(p[1], batch[p[2]])]
           X == [n \in 0..m |-> {w \in Works : WorkOK(w, batch, n)}]
           Is(f) == f = [n \in 0..m |-> IF n = 0 THEN start ELSE translate(f[n - 1], batch[n])]
           after == CHOOSE f : Is(f)
<1>1. m \in Nat
  OBVIOUS
<1>2. WorkOK(start, batch, 0)
  <2>1. start \in Works
    BY DEF Works, LogOK
  <2>2. Grows(store, store)
    BY DEF Grows
  <2> QED
    BY <2>1, <2>2 DEF WorkOK
<1>3. start \in X[0]
  BY <1>1, <1>2 DEF WorkOK
<1>4. \A n \in 0..m : \A w : w \in X[n] <=> w \in Works /\ WorkOK(w, batch, n)
  OBVIOUS
<1>5. \A n \in 1..m : \A w \in Works : step[<<w, n>>] = translate(w, batch[n])
  OBVIOUS
<1> HIDE DEF start, step, X, m
<1>6. ASSUME NEW n \in 1..m, NEW w \in X[n - 1] PROVE step[<<w, n>>] \in X[n]
  <2>1. n - 1 \in 0..m /\ n \in 0..m /\ n \in 1..Len(batch)
    BY <1>1 DEF m
  <2>2. w \in Works /\ WorkOK(w, batch, n - 1)
    BY <1>4, <2>1
  <2>3. WorkOK(translate(w, batch[n]), batch, n)
    BY <2>1, <2>2, TranslateKeeps
  <2> QED
    BY <1>4, <1>5, <2>1, <2>2, <2>3 DEF WorkOK
<1>7. PICK g : Folds(g, m, start, step, X)
  BY <1>1, <1>3, <1>6, FoldExists
<1>8. Is(g)
  <2>1. ASSUME NEW n \in 0..m
        PROVE  g[n] = IF n = 0 THEN start ELSE translate(g[n - 1], batch[n])
    <3>1. g[n] = IF n = 0 THEN start ELSE step[<<g[n - 1], n>>]
      BY <1>7 DEF Folds
    <3>2. n # 0 => n \in 1..m /\ n - 1 \in 0..m
      BY <1>1
    <3>3. n # 0 => g[n - 1] \in Works
      BY <1>4, <1>7, <3>2 DEF Folds
    <3> QED
      BY <1>5, <3>1, <3>2, <3>3
  <2>2. g = [n \in 0..m |-> g[n]]
    BY <1>7 DEF Folds
  <2> QED
    BY <2>1, <2>2
<1>9. Is(after)
  BY <1>8
<1>10. Translated(batch, puts) = after[m]
  BY DEF Translated, start, m
<1> HIDE DEF after
<1>11. \A n \in 0..m : after[n] = IF n = 0 THEN start ELSE translate(after[n - 1], batch[n])
  BY <1>9
<1> DEFINE T == {n \in 0..m : WorkOK(after[n], batch, n)}
<1>12. 0 \in T
  BY <1>1, <1>2, <1>11
<1>13. ASSUME NEW n \in 1..m, n - 1 \in T PROVE n \in T
  <2>1. n \in 1..Len(batch) /\ n \in 0..m /\ n # 0
    BY <1>1 DEF m
  <2>2. WorkOK(translate(after[n - 1], batch[n]), batch, n)
    BY <1>13, <2>1, TranslateKeeps
  <2> QED
    BY <1>11, <2>1, <2>2
<1> HIDE DEF T
<1>14. m \in T
  BY <1>1, <1>12, <1>13, AllReached
<1> QED
  BY <1>10, <1>14 DEF T, m

-----------------------------------------------------------------------------
(* The inductive invariant                                                 *)

Todos == Seq([id : Ids \cup LegacyEl, form : Forms])
Source(v) == IF v = 11 THEN LegacyKn ELSE IF v = 12 THEN LegacyRel ELSE LegacyNt

MigrateTypes ==
  /\ halfWritten \in BOOLEAN /\ LogOK(store, halfWritten) /\ LogOK(disk.store, halfWritten)
  /\ disk = [store |-> disk.store, el |-> disk.el, version |-> disk.version]
  /\ el \subseteq LegacyEl /\ disk.el \subseteq LegacyEl
  /\ version \in Nat /\ disk.version \in Nat /\ alters \in Nat
  /\ engine = Off \/ engine = Idle \/ \E v, todo : engine = Running(v, todo)

\* A migration comes after all the earlier ones; what it collected is done or to do.
Collects(v, todo) ==
  /\ v = 14 => todo \in Todos /\ \A k \in el : \E i \in DOMAIN todo : todo[i].id = k
  /\ v # 14 => todo \in Seq(LegacyRecs)
  /\ v \in 11..13 => \A id \in Good(Source(v)) :
        store.chain[id] # << >> \/ \E i \in DOMAIN todo : todo[i].id = id /\ todo[i].form = "good"
EngineOK ==
  \A v, todo : engine = Running(v, todo) =>
    /\ v \in Registered /\ (\A u \in Registered : u < v => u <= version)
    /\ Collects(v, todo)

\* What a version says, in a store without half links.
Means(v, s, keys) ==
  /\ v >= 11 => \A id \in Good(LegacyKn) : s.chain[id] # << >>
  /\ v >= 12 => \A id \in Good(LegacyRel) : s.chain[id] # << >>
  /\ v >= 13 => \A id \in Good(LegacyNt) : s.chain[id] # << >>
  /\ v >= 14 => keys = {}
VersionOK ==
  alters = 0 => Means(disk.version, disk.store, disk.el) /\ (engine # Off => Means(version, store, el))

MigrateInv == MigrateTypes /\ EngineOK /\ VersionOK

\* The version in the file is never ahead of memory, nor memory of the migration that runs.
FileBehind ==
  engine # Off => disk.version <= version /\ (engine.at = "running" => version < engine.to)

\* Good ids have a place in the store.
LEMMA GoodIds ==
  /\ Good(LegacyKn) \subseteq Ids /\ Good(LegacyNt) \subseteq Ids
  /\ Good(LegacyRel) \subseteq Links /\ Links \subseteq Ids
<1>1. ASSUME NEW S, NEW seq \in Seq([id : S, form : Forms]) PROVE Good(seq) \subseteq S
  <2>1. \A j \in DOMAIN seq : seq[j] \in [id : S, form : Forms]
    <3> DEFINE R == [id : S, form : Forms]
    <3> HIDE DEF R
    <3>1. seq \in Seq(R)
      BY DEF R
    <3>2. \A j \in DOMAIN seq : seq[j] \in R
      BY <3>1
    <3> QED
      BY <3>2 DEF R
  <2>2. \A j \in DOMAIN seq : seq[j].id \in S
    BY <2>1
  <2> QED
    BY <2>2 DEF Good
<1> QED
  BY <1>1, MigrateAssumption DEF Ids

LEMMA SaysIs ==
  ASSUME NEW v, NEW s, NEW keys, LogOK(s, halfWritten), Means(v, s, keys)
  PROVE  Says(v, s, keys)
BY GoodIds DEF Says, Means, LogOK

\* It stays true as the store grows.
LEMMA MeansStays ==
  ASSUME NEW v, NEW s, NEW keys, NEW t, NEW less, Means(v, s, keys), Grows(s, t), less \subseteq keys
  PROVE  Means(v, t, less)
BY GoodIds DEF Means, Grows

\* The three states of the engine differ.
LEMMA EngineStates ==
  /\ Off # Idle /\ \A v, todo : /\ Running(v, todo) # Off /\ Running(v, todo) # Idle
                                /\ Running(v, todo).at = "running" /\ Running(v, todo).to = v
                                /\ Running(v, todo).todo = todo
                                /\ \A w, rest : Running(v, todo) = Running(w, rest) => v = w /\ todo = rest
  /\ Off.at # "running" /\ Idle.at # "running"
<1>1. Off.at = "closed" /\ Idle.at = "idle"
  BY DEF Off, Idle
<1>2. \A v, todo : Running(v, todo).at = "running" /\ Running(v, todo).to = v /\ Running(v, todo).todo = todo
  BY DEF Running
<1> QED
  BY <1>1, <1>2

LEMMA MigrateStarts == MigrateInit => MigrateInv
<1> SUFFICES ASSUME MigrateInit PROVE MigrateInv
  OBVIOUS
<1>1. /\ store = EmptyStore /\ halfWritten = FALSE /\ el = LegacyEl /\ version = 0
      /\ disk = [store |-> EmptyStore, el |-> LegacyEl, version |-> 0]
      /\ engine = Off /\ alters = 0
  BY DEF MigrateInit, Init
<1>2. LogOK(EmptyStore, FALSE)
  <2>1. EmptyStore \in Logs
    BY DEF EmptyStore, Logs, NoVersion
  <2>2. \A id \in Ids : EmptyStore.chain[id] = << >> /\ Len(EmptyStore.chain[id]) \in {0, 1}
    BY DEF EmptyStore
  <2>3. Links \subseteq Ids
    BY DEF Ids
  <2> QED
    BY <2>1, <2>2, <2>3 DEF LogOK
<1>3. MigrateTypes
  BY <1>1, <1>2 DEF MigrateTypes
<1>4. EngineOK
  BY <1>1, EngineStates DEF EngineOK
<1>5. Means(0, EmptyStore, LegacyEl)
  BY DEF Means
<1>6. VersionOK
  BY <1>1, <1>5 DEF VersionOK
<1> QED
  BY <1>3, <1>4, <1>6 DEF MigrateInv

-----------------------------------------------------------------------------
(* The engine                                                              *)

\* The first lines of a list that is not empty, and the others.
LEMMA BatchParts ==
  ASSUME NEW R, NEW todo \in Seq(R), todo # << >>, engine.todo = todo
  PROVE  /\ NextBatch \in Seq(R) /\ AfterBatch \in Seq(R)
         /\ \A i \in DOMAIN todo :
              \/ \E j \in 1..Len(NextBatch) : NextBatch[j] = todo[i]
              \/ \E j \in DOMAIN AfterBatch : AfterBatch[j] = todo[i]
<1> DEFINE k == IF Len(todo) < MigrateBatch THEN Len(todo) ELSE MigrateBatch
           n == Len(todo)
<1>1. n \in Nat /\ n # 0 /\ k \in 1..n
  BY MigrateAssumption
<1>2. NextBatch = [j \in 1..k |-> todo[j]]
  <2>1. NextBatch = SubSeq(todo, 1, k)
    BY DEF NextBatch, InBatch
  <2> HIDE DEF k
  <2> QED
    BY <1>1, <2>1
<1>3. AfterBatch = [j \in 1..(n - k) |-> todo[j + k]]
  <2>1. AfterBatch = SubSeq(todo, k + 1, n)
    BY DEF AfterBatch, InBatch
  <2> HIDE DEF k
  <2> QED
    BY <1>1, <2>1
<1> HIDE DEF k
<1>4. \A j \in 1..k : j \in DOMAIN todo /\ todo[j] \in R
  BY <1>1
<1>5. \A j \in 1..(n - k) : j + k \in DOMAIN todo /\ todo[j + k] \in R
  BY <1>1
<1>6. n - k \in Nat /\ k \in Nat
  BY <1>1
<1> HIDE DEF n
<1>7. NextBatch \in Seq(R) /\ Len(NextBatch) = k
  BY <1>2, <1>4, <1>6
<1>8. AfterBatch \in Seq(R) /\ DOMAIN AfterBatch = 1..(n - k)
  BY <1>3, <1>5, <1>6
<1>9. ASSUME NEW i \in DOMAIN todo
      PROVE  \/ \E j \in 1..Len(NextBatch) : NextBatch[j] = todo[i]
             \/ \E j \in DOMAIN AfterBatch : AfterBatch[j] = todo[i]
  <2>1. i \in 1..n
    BY DEF n
  <2>2. CASE i <= k
    <3>1. i \in 1..k
      BY <1>6, <2>1, <2>2
    <3> QED
      BY <1>2, <1>7, <3>1
  <2>3. CASE ~(i <= k)
    <3>1. i - k \in 1..(n - k) /\ (i - k) + k = i
      BY <1>1, <1>6, <2>1, <2>3
    <3> QED
      BY <1>3, <1>8, <3>1
  <2> QED
    BY <2>2, <2>3
<1> QED
  BY <1>7, <1>8, <1>9

\* A set of keys as a sequence has them all.
LEMMA SeqOfSet ==
  ASSUME NEW S, IsFiniteSet(S)
  PROVE  SetToSeq(S) \in Seq(S) /\ \A k \in S : \E i \in DOMAIN SetToSeq(S) : SetToSeq(S)[i] = k
<1> DEFINE n == Cardinality(S)
           f == SetToSeq(S)
<1>1. n \in Nat
  BY FS_CardinalityType
<1>2. \E g : g \in [1..n -> S] /\ \A i, j \in 1..n : g[i] = g[j] => i = j
  <2>1. PICK g \in Bijection(1..n, S) : TRUE
    BY FS_NatBijection, FS_CountingElements DEF ExistsBijection
  <2> QED
    BY <2>1 DEF Bijection, Injection, IsInjective
<1>3. f \in [1..n -> S] /\ \A i, j \in 1..n : f[i] = f[j] => i = j
  <2> HIDE DEF n
  <2>1. PICK g \in [1..n -> S] : \A i, j \in 1..n : g[i] = g[j] => i = j
    BY <1>2
  <2>2. \E h \in [1..n -> S] : IsInjective(h)
    BY <2>1 DEF IsInjective
  <2>3. f = CHOOSE h \in [1..n -> S] : IsInjective(h)
    BY DEF SetToSeq, n
  <2>4. f \in [1..n -> S] /\ IsInjective(f)
    <3> HIDE DEF f
    <3> QED
      BY <2>2, <2>3
  <2> HIDE DEF f
  <2> QED
    BY <2>4 DEF IsInjective
<1> HIDE DEF f, n
<1>4. f \in Injection(1..n, S)
  BY <1>3 DEF Injection, IsInjective
<1>5. IsFiniteSet(1..n) /\ Cardinality(1..n) = Cardinality(S)
  BY <1>1, FS_Interval DEF n
<1>6. f \in Surjection(1..n, S)
  BY <1>4, <1>5, FS_Injection
<1>7. f \in Seq(S) /\ DOMAIN f = 1..n
  BY <1>1, <1>3
<1> QED
  BY <1>6, <1>7 DEF Surjection, f

\* What a migration reads in its View.
LEMMA CollectedIsAll ==
  ASSUME MigrateTypes, NEW v \in Registered PROVE Collects(v, Collected(v))
<1>1. v \in {10, 11, 12, 13, 14, 15}
  BY DEF Registered, LatestVersion
<1>2. CASE v = 14
  <2> DEFINE keys == SetToSeq(el)
             todo == [i \in DOMAIN keys |-> [id |-> keys[i], form |-> "good"]]
  <2>1. IsFiniteSet(el)
    BY MigrateAssumption, FS_Subset DEF MigrateTypes
  <2>2. keys \in Seq(el) /\ \A k \in el : \E i \in DOMAIN keys : keys[i] = k
    BY <2>1, SeqOfSet
  <2>3. Collected(v) = todo
    BY <1>2 DEF Collected
  <2> HIDE DEF keys
  <2>4. el \subseteq LegacyEl
    BY DEF MigrateTypes
  <2>5. todo \in Todos
    <3>1. DOMAIN keys = 1..Len(keys) /\ Len(keys) \in Nat
      BY <2>2
    <3>2. \A i \in DOMAIN keys : [id |-> keys[i], form |-> "good"] \in [id : Ids \cup LegacyEl, form : Forms]
      BY <2>2, <2>4 DEF Forms
    <3> QED
      BY <3>1, <3>2 DEF Todos
  <2>6. \A k \in el : \E i \in DOMAIN todo : todo[i].id = k
    BY <2>2
  <2> HIDE DEF todo
  <2> QED
    BY <1>2, <2>3, <2>5, <2>6 DEF Collects
<1>3. CASE v \in {11, 12, 13}
  <2>1. Collected(v) = Source(v)
    BY <1>3 DEF Collected, Source
  <2>2. Source(v) \in Seq(LegacyRecs)
    <3>1. /\ [id : Nodes, form : Forms] \subseteq LegacyRecs
          /\ [id : Links, form : Forms] \subseteq LegacyRecs
      BY DEF LegacyRecs, Ids
    <3>2. ASSUME NEW S, S \subseteq LegacyRecs PROVE Seq(S) \subseteq Seq(LegacyRecs)
      BY <3>2
    <3> QED
      BY <3>1, <3>2, MigrateAssumption DEF Source
  <2>3. \A id \in Good(Source(v)) : \E i \in DOMAIN Source(v) : Source(v)[i].id = id /\ Source(v)[i].form = "good"
    BY DEF Good
  <2> QED
    BY <1>3, <2>1, <2>2, <2>3 DEF Collects
<1>4. CASE v \in {10, 15}
  <2>1. Collected(v) = << >>
    BY <1>4 DEF Collected
  <2> QED
    BY <1>4, <2>1 DEF Collects
<1> QED
  BY <1>1, <1>2, <1>3, <1>4

\* The next migration is the lowest that is pending.
LEMMA NextIsLowest ==
  ASSUME Pending # {}, version \in Nat
  PROVE  NextPending \in Pending /\ NextPending \in Registered /\ \A u \in Registered : u < NextPending => u <= version
<1>1. Pending \subseteq {10, 11, 12, 13, 14, 15} /\ \A u \in Registered : u \notin Pending => u <= version
  BY DEF Pending, Registered, LatestVersion
<1>2. \E v \in Pending : \A u \in Pending : v <= u
  <2>1. Pending \in SUBSET Nat
    BY <1>1
  <2> QED
    BY <2>1, LeastOf
<1>3. NextPending \in Pending /\ \A u \in Pending : NextPending <= u
  BY <1>2 DEF NextPending
<1>4. \A u \in Pending : ~(u < NextPending)
  BY <1>1, <1>3
<1> QED
  BY <1>1, <1>3, <1>4 DEF Pending
LEMMA OpenKeeps == ASSUME MigrateInv, Open PROVE MigrateInv'
<1>1. /\ store' = disk.store /\ el' = disk.el /\ version' = disk.version /\ engine' = Idle
      /\ UNCHANGED <<halfWritten, disk, alters, crashes>>
  BY DEF Open
<1>2. MigrateTypes'
  BY <1>1 DEF MigrateInv, MigrateTypes
<1>3. EngineOK'
  BY <1>1, EngineStates DEF EngineOK
<1>4. VersionOK'
  BY <1>1 DEF MigrateInv, VersionOK
<1> QED
  BY <1>2, <1>3, <1>4 DEF MigrateInv

LEMMA StartMigrationKeeps == ASSUME MigrateInv, StartMigration PROVE MigrateInv'
<1>1. /\ Pending # {} /\ engine' = Running(NextPending, Collected(NextPending)) /\ engine = Idle
      /\ UNCHANGED <<store, halfWritten, disk, el, version, alters, crashes>>
  BY DEF StartMigration, storeVars
<1>2. MigrateTypes /\ version \in Nat
  BY DEF MigrateInv, MigrateTypes
<1>3. NextPending \in Registered /\ \A u \in Registered : u < NextPending => u <= version
  BY <1>1, <1>2, NextIsLowest
<1>4. PICK v \in Registered : v = NextPending
  BY <1>3
<1>5. PICK todo : todo = Collected(NextPending)
  OBVIOUS
<1>6. Collects(v, todo) /\ \A u \in Registered : u < v => u <= version
  BY <1>2, <1>3, <1>4, <1>5, CollectedIsAll
<1>7. engine' = Running(v, todo)
  BY <1>1, <1>4, <1>5
<1>8. MigrateTypes'
  BY <1>1, <1>2, <1>7 DEF MigrateTypes
<1>9. Collects(v, todo)'
  BY <1>1, <1>6 DEF Collects
<1>10. EngineOK'
  <2> SUFFICES ASSUME NEW w, NEW rest, engine' = Running(w, rest)
               PROVE  (w \in Registered /\ Collects(w, rest) /\ \A u \in Registered : u < w => u <= version)'
    BY DEF EngineOK
  <2>1. w = v /\ rest = todo
    <3>1. Running(v, todo) = Running(w, rest)
      BY <1>7
    <3>2. \A x, y, z, u : Running(x, y) = Running(z, u) => x = z /\ y = u
      BY EngineStates, Zenon
    <3> QED
      BY <3>1, <3>2, Zenon
  <2> QED
    BY <1>1, <1>4, <1>6, <1>9, <2>1
<1>11. VersionOK'
  BY <1>1, EngineStates DEF MigrateInv, VersionOK
<1> QED
  BY <1>8, <1>10, <1>11 DEF MigrateInv

\* What a running engine is.
LEMMA EngineRuns ==
  ASSUME MigrateInv, engine.at = "running"
  PROVE  /\ engine = Running(engine.to, engine.todo) /\ engine # Off
         /\ engine.to \in Registered /\ (\A u \in Registered : u < engine.to => u <= version)
         /\ Collects(engine.to, engine.todo)
<1>1. PICK v, todo : engine = Running(v, todo)
  BY EngineStates DEF MigrateInv, MigrateTypes
<1> QED
  BY <1>1, EngineStates DEF MigrateInv, EngineOK

\* What a migration has in hand and has left.
BatchOf(v, todo, next, rest) ==
  /\ v \in Registered
  /\ engine = Running(v, todo) /\ next = NextBatch /\ rest = AfterBatch
  /\ (\A u \in Registered : u < v => u <= version) /\ Collects(v, todo)
  /\ v = 14 => next \in Todos /\ rest \in Todos
  /\ v # 14 => next \in Seq(LegacyRecs) /\ rest \in Seq(LegacyRecs)
  /\ \A i \in DOMAIN todo :
       \/ \E j \in 1..Len(next) : next[j] = todo[i]
       \/ \E j \in DOMAIN rest : rest[j] = todo[i]

LEMMA BatchRuns ==
  ASSUME MigrateInv, engine.at = "running", engine.todo # << >>
  PROVE  \E v, todo, next, rest : BatchOf(v, todo, next, rest)
<1>1. PICK v, todo : v \in Registered /\ v = engine.to /\ todo = engine.todo
  BY EngineRuns
<1>2. engine = Running(v, todo) /\ (\A u \in Registered : u < v => u <= version) /\ Collects(v, todo)
  BY <1>1, EngineRuns
<1>3. ASSUME NEW R, todo \in Seq(R)
      PROVE  /\ NextBatch \in Seq(R) /\ AfterBatch \in Seq(R)
             /\ \A i \in DOMAIN todo :
                  \/ \E j \in 1..Len(NextBatch) : NextBatch[j] = todo[i]
                  \/ \E j \in DOMAIN AfterBatch : AfterBatch[j] = todo[i]
  BY <1>1, <1>3, BatchParts
<1>4. PICK next, rest : next = NextBatch /\ rest = AfterBatch
  OBVIOUS
<1>5. CASE v = 14
  <2>1. BatchOf(v, todo, next, rest)
    BY <1>1, <1>2, <1>3, <1>4, <1>5 DEF Collects, Todos, BatchOf
  <2> QED
    BY <2>1
<1>6. CASE v # 14
  <2>1. BatchOf(v, todo, next, rest)
    BY <1>1, <1>2, <1>3, <1>4, <1>6 DEF Collects, BatchOf
  <2> QED
    BY <2>1
<1> QED
  BY <1>5, <1>6

\* One transaction, when it is committed.
LEMMA CommitKeeps == ASSUME MigrateInv, CommitBatch PROVE MigrateInv'
<1>1. /\ engine.at = "running" /\ engine.todo # << >>
      /\ IF engine.to = 14
         THEN el' = el \ {NextBatch[i].id : i \in DOMAIN NextBatch} /\ UNCHANGED <<store, halfWritten>>
         ELSE \E w : /\ w = Translated(NextBatch, 2 * MigrateBatch)
                     /\ w.ok /\ store' = w.store /\ UNCHANGED <<halfWritten, el>>
      /\ engine' = [engine EXCEPT !.todo = AfterBatch]
      /\ disk' = [store |-> store', el |-> el', version |-> version]
      /\ UNCHANGED <<version, alters, crashes>>
  BY DEF CommitBatch, storeVars
<1>2. PICK v, todo, next, rest : BatchOf(v, todo, next, rest)
  BY <1>1, BatchRuns
<1> USE DEF BatchOf
<1>3. MigrateTypes /\ engine # Off /\ engine.to = v /\ engine' = Running(v, rest)
  <2>1. engine' = Running(v, rest)
    BY <1>1, <1>2 DEF Running
  <2> QED
    BY <1>2, <2>1, EngineStates DEF MigrateInv
<1>4. \A id \in Ids : store.chain[id] \in Seq(Stamps)
  BY <1>3 DEF MigrateTypes, LogOK, Logs
<1>5. /\ LogOK(store', halfWritten') /\ halfWritten' = halfWritten /\ Grows(store, store')
      /\ el' \subseteq el /\ Collects(v, rest)'
  <2>1. CASE v = 14
    <3>1. el' = el \ {next[i].id : i \in DOMAIN next} /\ store' = store /\ halfWritten' = halfWritten
      BY <1>1, <1>2, <1>3, <2>1
    <3>2. Grows(store, store') /\ LogOK(store', halfWritten')
      BY <1>3, <3>1 DEF Grows, MigrateTypes
    <3>3. ASSUME NEW k \in el' PROVE \E i \in DOMAIN rest : rest[i].id = k
      <4>1. k \in el /\ \A i \in DOMAIN next : next[i].id # k
        BY <3>1
      <4>2. PICK i \in DOMAIN todo : todo[i].id = k
        BY <1>2, <2>1, <4>1 DEF Collects
      <4>3. 1..Len(next) = DOMAIN next
        BY <1>2, <2>1 DEF Todos
      <4> QED
        BY <1>2, <4>1, <4>2, <4>3
    <3>4. Collects(v, rest)'
      BY <1>2, <2>1, <3>3 DEF Collects
    <3> QED
      BY <3>1, <3>2, <3>4
  <2>2. CASE v # 14
    <3>1. PICK w : w = Translated(next, 2 * MigrateBatch) /\ w.ok /\ store' = w.store /\ UNCHANGED <<halfWritten, el>>
      BY <1>1, <1>2, <1>3, <2>2
    <3>2. 2 * MigrateBatch \in Nat /\ next \in Seq(LegacyRecs) /\ halfWritten \in BOOLEAN /\ LogOK(store, halfWritten)
      BY <1>2, <1>3, <2>2, MigrateAssumption DEF MigrateTypes
    <3>3. WorkOK(Translated(next, 2 * MigrateBatch), next, Len(next))
      BY <3>2, BatchIsWorked
    <3>4. /\ LogOK(w.store, w.half) /\ w.half = halfWritten /\ Grows(store, w.store)
          /\ \A i \in 1..Len(next) : next[i].form = "good" => w.store.chain[next[i].id] # << >>
      BY <3>1, <3>3 DEF WorkOK
    <3>5. ASSUME v \in 11..13, NEW id \in Good(Source(v))
          PROVE  w.store.chain[id] # << >> \/ \E i \in DOMAIN rest : rest[i].id = id /\ rest[i].form = "good"
      <4>1. id \in Ids
        BY GoodIds DEF Source
      <4>2. CASE store.chain[id] # << >>
        BY <3>4, <4>1, <4>2 DEF Grows
      <4>3. CASE ~(store.chain[id] # << >>)
        <5>1. PICK i \in DOMAIN todo : todo[i].id = id /\ todo[i].form = "good"
          BY <1>2, <3>5, <4>3 DEF Collects
        <5>2. CASE \E j \in 1..Len(next) : next[j] = todo[i]
          BY <3>4, <5>1, <5>2
        <5>3. CASE \E j \in DOMAIN rest : rest[j] = todo[i]
          BY <5>1, <5>3
        <5> QED
          BY <1>2, <5>2, <5>3
      <4> QED
        BY <4>2, <4>3
    <3>6. Collects(v, rest)'
      BY <1>2, <2>2, <3>1, <3>5 DEF Collects
    <3> QED
      BY <3>1, <3>4, <3>6
  <2> QED
    BY <2>1, <2>2
<1>6. /\ disk'.store = store' /\ disk'.el = el' /\ disk'.version = version
      /\ disk' = [store |-> disk'.store, el |-> disk'.el, version |-> disk'.version]
  BY <1>1
<1>7. MigrateTypes'
  BY <1>1, <1>3, <1>5, <1>6 DEF MigrateTypes
<1>8. EngineOK'
  <2> SUFFICES ASSUME NEW u, NEW x, engine' = Running(u, x)
               PROVE  /\ u \in Registered /\ (\A t \in Registered : t < u => t <= version')
                      /\ Collects(u, x)'
    BY DEF EngineOK
  <2>1. u = v /\ x = rest
    <3>1. Running(u, x) = Running(v, rest)
      BY <1>3
    <3>2. Running(u, x).to = u /\ Running(u, x).todo = x /\ Running(v, rest).to = v /\ Running(v, rest).todo = rest
      BY DEF Running
    <3> QED
      BY <3>1, <3>2
  <2>2. Collects(u, x)'
    BY <1>5, <2>1 DEF Collects
  <2> QED
    BY <1>1, <1>2, <2>1, <2>2
<1>9. VersionOK'
  <2>1. ASSUME alters = 0 PROVE Means(version, store', el')
    <3>1. Means(version, store, el)
      BY <1>3, <2>1 DEF MigrateInv, VersionOK
    <3> QED
      BY <1>5, <3>1, MeansStays
  <2> QED
    BY <1>1, <1>6, <2>1 DEF VersionOK
<1> QED
  BY <1>7, <1>8, <1>9 DEF MigrateInv

\* A version says more than every lower one.
LEMMA MeansLess ==
  ASSUME NEW v \in Nat, NEW u \in Nat, u <= v, NEW s, NEW keys, Means(v, s, keys)
  PROVE  Means(u, s, keys)
<1>1. \A n \in {11, 12, 13, 14} : u >= n => v >= n
  OBVIOUS
<1> QED
  BY <1>1 DEF Means

\* The records of a batch that fails: the log grows, and the keys get fewer.
LEMMA FailGrows ==
  ASSUME MigrateInv, FailBatch
  PROVE  /\ LogOK(store', halfWritten') /\ Grows(store, store') /\ halfWritten' \in BOOLEAN
         /\ el' \subseteq el
<1>1. engine.at = "running" /\ engine.todo # << >>
  BY DEF FailBatch
<1>2. PICK v, todo, next :
        v \in Registered /\ engine = Running(v, todo) /\ next = NextBatch /\ (v # 14 => next \in Seq(LegacyRecs))
  BY <1>1, BatchRuns DEF BatchOf
<1>3. MigrateTypes /\ v = engine.to
  BY <1>2, EngineStates DEF MigrateInv
<1>4. halfWritten \in BOOLEAN /\ LogOK(store, halfWritten)
  BY <1>3 DEF MigrateTypes
<1>5. CASE FailTranslation
  <2>1. PICK puts, w :
          /\ puts \in 0..(2 * MigrateBatch)
          /\ w = Translated(NextBatch, puts)
          /\ store' = w.store /\ halfWritten' = w.half
    BY <1>5 DEF FailTranslation
  <2>2. v # 14 /\ el' = el
    BY <1>3, <1>5 DEF FailTranslation
  <2>3. puts \in Nat /\ next \in Seq(LegacyRecs)
    BY <1>2, <2>1, <2>2, MigrateAssumption
  <2>4. WorkOK(Translated(next, puts), next, Len(next))
    BY <1>4, <2>3, BatchIsWorked
  <2>5. LogOK(w.store, w.half) /\ Grows(store, w.store) /\ w.half \in BOOLEAN
    BY <1>2, <2>1, <2>4 DEF WorkOK, Works
  <2> QED
    BY <2>1, <2>2, <2>5
<1>6. CASE FailDeletion
  <2>1. store' = store /\ halfWritten' = halfWritten
    BY <1>6 DEF FailDeletion, storeVars
  <2>2. el' \subseteq el
    BY <1>6 DEF FailDeletion
  <2> QED
    BY <1>4, <2>1, <2>2 DEF Grows
<1> QED
  BY <1>5, <1>6 DEF FailBatch

\* One transaction, when it fails: Close writes what it did so far, with the version of
\* the last commit.
LEMMA FailKeeps == ASSUME MigrateInv, FileBehind, FailBatch PROVE MigrateInv'
<1>1. /\ engine.at = "running" /\ engine' = Off /\ UNCHANGED <<version, alters>>
      /\ disk' = [store |-> store', el |-> el', version |-> disk.version]
  BY DEF FailBatch
<1>2. MigrateTypes /\ engine # Off
  BY <1>1, EngineStates DEF MigrateInv
<1>3. /\ LogOK(store', halfWritten') /\ Grows(store, store') /\ halfWritten' \in BOOLEAN
      /\ el' \subseteq el
  BY FailGrows
<1>4. /\ disk'.store = store' /\ disk'.el = el' /\ disk'.version = disk.version
      /\ disk' = [store |-> disk'.store, el |-> disk'.el, version |-> disk'.version]
  BY <1>1
<1>5. MigrateTypes'
  BY <1>1, <1>2, <1>3, <1>4 DEF MigrateTypes
<1>6. EngineOK'
  BY <1>1, EngineStates DEF EngineOK
<1>7. VersionOK'
  <2>1. ASSUME alters = 0 PROVE Means(disk.version, store', el')
    <3>1. Means(version, store, el)
      BY <1>2, <2>1 DEF MigrateInv, VersionOK
    <3>2. disk.version \in Nat /\ version \in Nat /\ disk.version <= version
      BY <1>2 DEF MigrateTypes, FileBehind
    <3>3. Means(disk.version, store, el)
      BY <3>1, <3>2, MeansLess
    <3> QED
      BY <1>3, <3>3, MeansStays
  <2> QED
    BY <1>1, <1>4, <2>1 DEF VersionOK
<1> QED
  BY <1>5, <1>6, <1>7 DEF MigrateInv

\* The version is set when the last batch is done.
LEMMA FinishKeeps == ASSUME MigrateInv, FinishMigration PROVE MigrateInv'
<1>1. /\ engine.at = "running" /\ engine.todo = << >> /\ version' = engine.to /\ engine' = Idle
      /\ UNCHANGED <<store, halfWritten, disk, el, alters, crashes>>
  BY DEF FinishMigration, storeVars
<1>2. PICK v \in Registered : v = engine.to
  BY <1>1, EngineRuns
<1>3. (\A u \in Registered : u < v => u <= version) /\ Collects(v, << >>) /\ engine # Off /\ MigrateTypes
  BY <1>1, <1>2, EngineRuns DEF MigrateInv
<1>4. v \in 10..15 /\ \A u \in 11..14 : u \in Registered
  BY DEF Registered, LatestVersion
<1>5. MigrateTypes'
  BY <1>1, <1>2, <1>3, <1>4 DEF MigrateTypes
<1>6. EngineOK'
  BY <1>1, EngineStates DEF EngineOK
<1>7. ASSUME alters = 0 PROVE Means(v, store, el)
  <2>1. Means(version, store, el)
    BY <1>3, <1>7 DEF MigrateInv, VersionOK
  <2>2. version \in Nat /\ v \in Nat
    BY <1>3, <1>4 DEF MigrateTypes
  <2>3. \A u \in 11..14 : v >= u => v = u \/ version >= u
    <3> TAKE u \in 11..14
    <3>1. u \in Nat /\ u \in Registered
      BY <1>4
    <3> QED
      BY <1>3, <2>2, <3>1
  <2>4. v = 11 => \A id \in Good(LegacyKn) : store.chain[id] # << >>
    BY <1>3 DEF Collects, Source
  <2>5. v = 12 => \A id \in Good(LegacyRel) : store.chain[id] # << >>
    BY <1>3 DEF Collects, Source
  <2>6. v = 13 => \A id \in Good(LegacyNt) : store.chain[id] # << >>
    BY <1>3 DEF Collects, Source
  <2>7. v = 14 => el = {}
    BY <1>3 DEF Collects
  <2> QED
    BY <2>1, <2>3, <2>4, <2>5, <2>6, <2>7 DEF Means
<1>8. VersionOK'
  BY <1>1, <1>2, <1>7 DEF MigrateInv, VersionOK
<1> QED
  BY <1>5, <1>6, <1>8 DEF MigrateInv

\* Close, a crash, an alteration of the schema.
LEMMA CloseKeeps == ASSUME MigrateInv, Close PROVE MigrateInv'
<1>1. /\ disk' = [store |-> store, el |-> el, version |-> version] /\ engine' = Off /\ engine = Idle
      /\ UNCHANGED <<store, halfWritten, el, version, alters, crashes>>
  BY DEF Close, Committed, storeVars
<1>2. MigrateTypes' /\ EngineOK' /\ VersionOK'
  BY <1>1, EngineStates DEF MigrateInv, MigrateTypes, EngineOK, VersionOK
<1> QED
  BY <1>2 DEF MigrateInv

LEMMA CrashKeeps == ASSUME MigrateInv, Crash PROVE MigrateInv'
<1>1. engine' = Off /\ UNCHANGED <<store, halfWritten, disk, el, version, alters>>
  BY DEF Crash, storeVars
<1>2. MigrateTypes' /\ EngineOK' /\ VersionOK'
  BY <1>1, EngineStates DEF MigrateInv, MigrateTypes, EngineOK, VersionOK
<1> QED
  BY <1>2 DEF MigrateInv

LEMMA AlterKeeps == ASSUME MigrateInv, Alter PROVE MigrateInv'
<1>1. /\ engine = Off /\ alters' = alters + 1 /\ disk' \in {disk, [disk EXCEPT !.version = @ + 1]}
      /\ UNCHANGED <<store, halfWritten, el, version, engine, crashes>>
  BY DEF Alter, storeVars
<1>2. MigrateTypes
  BY DEF MigrateInv
<1>3. /\ disk'.store = disk.store /\ disk'.el = disk.el /\ disk'.version \in Nat
      /\ disk' = [store |-> disk'.store, el |-> disk'.el, version |-> disk'.version]
      /\ alters' \in Nat /\ alters' # 0
  <2>1. alters' \in Nat /\ alters' # 0
    BY <1>1, <1>2 DEF MigrateTypes
  <2>2. CASE disk' = disk
    BY <1>2, <2>1, <2>2 DEF MigrateTypes
  <2>3. CASE disk' = [disk EXCEPT !.version = @ + 1]
    <3>1. disk' = [store |-> disk.store, el |-> disk.el, version |-> disk.version + 1]
      BY <1>2, <2>3 DEF MigrateTypes
    <3> QED
      BY <1>2, <2>1, <3>1 DEF MigrateTypes
  <2> QED
    BY <1>1, <2>2, <2>3
<1>4. MigrateTypes' /\ EngineOK' /\ VersionOK'
  BY <1>1, <1>2, <1>3, EngineStates DEF MigrateTypes, EngineOK, VersionOK
<1> QED
  BY <1>4 DEF MigrateInv

\* Memory is read from the file, goes ahead with every migration, and is written back.
LEMMA BehindKeeps == ASSUME MigrateInv, FileBehind, [MigrateNext]_migrateVars PROVE FileBehind'
<1>1. disk.version \in Nat /\ version \in Nat
  BY DEF MigrateInv, MigrateTypes
<1>2. CASE Open
  <2>1. engine' = Idle /\ version' = disk.version /\ disk' = disk
    BY <1>2 DEF Open
  <2> QED
    BY <1>1, <2>1, EngineStates DEF FileBehind
<1>3. CASE StartMigration
  <2>1. /\ engine = Idle /\ Pending # {} /\ engine' = Running(NextPending, Collected(NextPending))
        /\ version' = version /\ disk' = disk
    BY <1>3 DEF StartMigration
  <2>2. NextPending \in Pending
    BY <2>1, <1>1, NextIsLowest
  <2>3. engine'.to = NextPending /\ version < NextPending
    BY <1>1, <2>1, <2>2, EngineStates DEF Pending, Registered, LatestVersion
  <2> QED
    BY <2>1, <2>3, EngineStates DEF FileBehind
<1>4. CASE CommitBatch
  <2>1. /\ engine.at = "running" /\ engine' = [engine EXCEPT !.todo = AfterBatch]
        /\ version' = version /\ disk'.version = version
    BY <1>4 DEF CommitBatch
  <2>2. engine = Running(engine.to, engine.todo) /\ engine # Off
    BY <2>1, EngineRuns
  <2>3. engine'.to = engine.to
    BY <2>1, <2>2 DEF Running
  <2>4. version <= version
    BY <1>1
  <2> QED
    BY <2>1, <2>2, <2>3, <2>4 DEF FileBehind
<1>5. CASE FinishMigration
  <2>1. engine.at = "running" /\ version' = engine.to /\ engine' = Idle /\ disk' = disk
    BY <1>5 DEF FinishMigration
  <2>2. engine # Off /\ engine.to \in Registered
    BY <2>1, EngineRuns
  <2>3. disk.version <= engine.to
    BY <1>1, <2>1, <2>2 DEF FileBehind, Registered, LatestVersion
  <2> QED
    BY <2>1, <2>3, EngineStates DEF FileBehind
<1>6. CASE FailBatch \/ Close \/ Crash \/ Alter
  <2>1. engine' = Off
    BY <1>6 DEF FailBatch, Close, Crash, Alter
  <2> QED
    BY <2>1 DEF FileBehind
<1>7. CASE UNCHANGED migrateVars
  BY <1>7 DEF FileBehind, migrateVars
<1> QED
  BY <1>2, <1>3, <1>4, <1>5, <1>6, <1>7 DEF MigrateNext

\* Every step.
LEMMA MigrateSteps == ASSUME MigrateInv, FileBehind, [MigrateNext]_migrateVars PROVE MigrateInv'
<1>1. CASE Open
  BY <1>1, OpenKeeps
<1>2. CASE StartMigration
  BY <1>2, StartMigrationKeeps
<1>3. CASE CommitBatch
  BY <1>3, CommitKeeps
<1>4. CASE FailBatch
  BY <1>4, FailKeeps
<1>5. CASE FinishMigration
  BY <1>5, FinishKeeps
<1>6. CASE Close
  BY <1>6, CloseKeeps
<1>7. CASE Crash
  BY <1>7, CrashKeeps
<1>8. CASE Alter
  BY <1>8, AlterKeeps
<1>9. CASE UNCHANGED migrateVars
  BY <1>9 DEF migrateVars, storeVars, MigrateInv, MigrateTypes, EngineOK, Collects, VersionOK
<1> QED
  BY <1>1, <1>2, <1>3, <1>4, <1>5, <1>6, <1>7, <1>8, <1>9 DEF MigrateNext

\* What the invariant is for.
LEMMA InvMigrates == ASSUME MigrateInv PROVE MigrationsHold
<1>1. VersionMeansMigrated
  BY SaysIs DEF MigrateInv, MigrateTypes, VersionOK, VersionMeansMigrated
<1>2. \A id \in Ids : Len(disk.store.chain[id]) \in {0, 1} /\ Len(store.chain[id]) \in {0, 1}
  BY DEF MigrateInv, MigrateTypes, LogOK
<1>3. \A n \in {0, 1} : n <= 1
  OBVIOUS
<1>4. NothingTranslatedTwice
  BY <1>2, <1>3, Zenon DEF NothingTranslatedTwice
<1> QED
  BY <1>1, <1>4 DEF MigrationsHold

\* A schema version is kept only when every migration up to it is done, in memory
\* and in the file, and no record is translated twice, whatever crash or error
\* falls between two batches (internal/kdb/migrate).
THEOREM MigrationsAreWhole == MigrateSpec => []MigrationsHold
<1>1. MigrateInit => MigrateInv /\ FileBehind
  <2>1. MigrateInit => engine = Off
    BY DEF MigrateInit
  <2> QED
    BY <2>1, MigrateStarts DEF FileBehind
<1>2. (MigrateInv /\ FileBehind) /\ [MigrateNext]_migrateVars => (MigrateInv /\ FileBehind)'
  BY MigrateSteps, BehindKeeps
<1>3. MigrateInv => MigrationsHold
  BY InvMigrates
<1> QED
  BY <1>1, <1>2, <1>3, PTL DEF MigrateSpec

-----------------------------------------------------------------------------
(* Sequences made of sequences *)

\* A sequence, whatever it holds.
Listed(s) == s \in Seq(Range(s))

LEMMA ListedIs ==
  /\ \A s : Listed(s) => Len(s) \in Nat /\ s = [i \in 1..Len(s) |-> s[i]]
  /\ \A S : \A s \in Seq(S) : Listed(s) /\ Range(s) \subseteq S
  /\ Listed(<< >>) /\ Range(<< >>) = {}
  /\ \A x : Listed(<<x>>) /\ Range(<<x>>) = {x}
  /\ \A x, y : Listed(<<x, y>>) /\ Range(<<x, y>>) = {x, y}
<1>1. \A s : Listed(s) => Len(s) \in Nat /\ s = [i \in 1..Len(s) |-> s[i]]
  BY DEF Listed
<1>2. ASSUME NEW S, NEW s \in Seq(S) PROVE Listed(s) /\ Range(s) \subseteq S
  <2>1. Len(s) \in Nat /\ s = [i \in 1..Len(s) |-> s[i]] /\ DOMAIN s = 1..Len(s) /\ \A i \in 1..Len(s) : s[i] \in S
    OBVIOUS
  <2>2. \A i \in 1..Len(s) : s[i] \in Range(s)
    BY <2>1 DEF Range
  <2>3. s \in [1..Len(s) -> Range(s)]
    BY <2>1, <2>2
  <2>4. s \in Seq(Range(s))
    BY <2>1, <2>3
  <2> QED
    BY <2>1, <2>4 DEF Listed, Range
<1>3. Listed(<< >>) /\ Range(<< >>) = {}
  BY DEF Listed, Range
<1>4. ASSUME NEW x PROVE Listed(<<x>>) /\ Range(<<x>>) = {x}
  <2> DEFINE s == <<x>>
  <2>1. DOMAIN s = {1} /\ s[1] = x /\ s \in Seq({x})
    OBVIOUS
  <2> HIDE DEF s
  <2>2. Range(s) = {x}
    BY <2>1 DEF Range
  <2> QED
    BY <2>1, <2>2 DEF Listed, s
<1>5. ASSUME NEW x, NEW y PROVE Listed(<<x, y>>) /\ Range(<<x, y>>) = {x, y}
  <2> DEFINE s == <<x, y>>
  <2>1. DOMAIN s = {1, 2} /\ s[1] = x /\ s[2] = y /\ s \in Seq({x, y})
    OBVIOUS
  <2> HIDE DEF s
  <2>2. Range(s) = {x, y}
    BY <2>1 DEF Range
  <2> QED
    BY <2>1, <2>2 DEF Listed, s
<1> QED
  BY <1>1, <1>2, <1>3, <1>4, <1>5

LEMMA Concats ==
  ASSUME NEW s, NEW t, Listed(s), Listed(t)
  PROVE  Listed(s \o t) /\ Range(s \o t) = Range(s) \cup Range(t)
<1> DEFINE S == Range(s) \cup Range(t)
           u == s \o t
<1>1. s \in Seq(S) /\ t \in Seq(S)
  <2>1. s \in Seq(Range(s)) /\ t \in Seq(Range(t))
    BY DEF Listed
  <2>2. ASSUME NEW A, NEW B, A \subseteq B, NEW r \in Seq(A) PROVE r \in Seq(B)
    BY <2>2
  <2> QED
    BY <2>1, <2>2
<1> HIDE DEF S
<1>2. /\ u \in Seq(S) /\ Len(u) = Len(s) + Len(t) /\ Len(s) \in Nat /\ Len(t) \in Nat
      /\ DOMAIN u = 1..Len(u) /\ DOMAIN s = 1..Len(s) /\ DOMAIN t = 1..Len(t)
      /\ \A i \in 1..Len(s) : u[i] = s[i]
      /\ \A i \in Len(s) + 1 .. Len(u) : u[i] = t[i - Len(s)]
  BY <1>1
<1> HIDE DEF u
<1>3. Listed(u)
  BY <1>2, ListedIs
<1>4. ASSUME NEW x \in Range(u) PROVE x \in Range(s) \cup Range(t)
  <2>1. PICK i \in 1..Len(u) : u[i] = x
    BY <1>2, <1>4 DEF Range
  <2>2. CASE i \in 1..Len(s)
    BY <1>2, <2>1, <2>2 DEF Range
  <2>3. CASE i \notin 1..Len(s)
    <3>1. i \in Len(s) + 1 .. Len(u) /\ i - Len(s) \in 1..Len(t)
      BY <1>2, <2>3
    <3> QED
      BY <1>2, <2>1, <3>1 DEF Range
  <2> QED
    BY <2>2, <2>3
<1>5. ASSUME NEW x \in Range(s) PROVE x \in Range(u)
  <2>1. PICK i \in 1..Len(s) : s[i] = x
    BY <1>2, <1>5 DEF Range
  <2>2. i \in 1..Len(u)
    BY <1>2
  <2> QED
    BY <1>2, <2>1, <2>2 DEF Range
<1>6. ASSUME NEW x \in Range(t) PROVE x \in Range(u)
  <2>1. PICK i \in 1..Len(t) : t[i] = x
    BY <1>2, <1>6 DEF Range
  <2>2. Len(s) + i \in Len(s) + 1 .. Len(u) /\ (Len(s) + i) - Len(s) = i /\ Len(s) + i \in 1..Len(u)
    BY <1>2
  <2> QED
    BY <1>2, <2>1, <2>2 DEF Range
<1> QED
  BY <1>3, <1>4, <1>5, <1>6 DEF u

\* FlattenSeq of n sequences.
LEMMA Flat ==
  ASSUME NEW n \in Nat, NEW f, f = [i \in 1..n |-> f[i]], \A i \in 1..n : Listed(f[i])
  PROVE  /\ Listed(FlattenSeq(f))
         /\ Range(FlattenSeq(f)) = UNION {Range(f[i]) : i \in 1..n}
<1> DEFINE S == UNION {Range(f[i]) : i \in 1..n}
           Is(h) == h = [i \in 1..n |-> IF i = 1 THEN f[i] ELSE h[i - 1] \o f[i]]
           flatten == CHOOSE h : Is(h)
<1>1. \A i \in 1..n : f[i] \in Seq(S)
  <2> SUFFICES ASSUME NEW i \in 1..n PROVE f[i] \in Seq(S)
    OBVIOUS
  <2>1. f[i] \in Seq(Range(f[i])) /\ Range(f[i]) \subseteq S
    BY DEF Listed
  <2> QED
    BY <2>1
<1>2. Len(f) = n
  <2>1. f \in Seq({f[i] : i \in 1..n}) /\ DOMAIN f = 1..n
    OBVIOUS
  <2> QED
    BY <2>1
<1>3. FlattenSeq(f) = IF n = 0 THEN f ELSE flatten[n]
  BY <1>2 DEF FlattenSeq
<1>4. CASE n = 0
  <2>1. f = << >>
    BY <1>4
  <2> QED
    BY <1>3, <1>4, <2>1, ListedIs
<1>5. CASE n # 0
  <2> DEFINE step == [x \in Seq(S) \X (1..n) |-> x[1] \o f[x[2]]]
             X == [k \in 0..n |-> Seq(S)]
  <2> HIDE DEF S
  <2>1. << >> \in X[0] /\ \A k \in 1..n : \A w \in X[k - 1] : step[<<w, k>>] = w \o f[k] /\ step[<<w, k>>] \in X[k]
    <3>1. << >> \in Seq(S) /\ 0 \in 0..n
      OBVIOUS
    <3>2. ASSUME NEW k \in 1..n, NEW w \in X[k - 1] PROVE step[<<w, k>>] = w \o f[k] /\ step[<<w, k>>] \in X[k]
      <4>1. k \in 0..n /\ k - 1 \in 0..n
        OBVIOUS
      <4>2. w \in Seq(S)
        BY <4>1
      <4>3. step[<<w, k>>] = w \o f[k]
        BY <4>2
      <4>4. w \o f[k] \in Seq(S)
        BY <1>1, <4>2
      <4> QED
        BY <4>1, <4>3, <4>4
    <3> QED
      BY <3>1, <3>2
  <2> HIDE DEF step, X
  <2>2. PICK g : Folds(g, n, << >>, step, X)
    BY <2>1, FoldExists
  <2>3. \A k \in 0..n : g[k] = (IF k = 0 THEN << >> ELSE step[<<g[k - 1], k>>]) /\ g[k] \in X[k]
    BY <2>2 DEF Folds
  <2>4. \A k \in 1..n : g[k] = g[k - 1] \o f[k]
    <3> TAKE k \in 1..n
    <3>1. k \in 0..n /\ k - 1 \in 0..n /\ k # 0
      OBVIOUS
    <3> QED
      BY <2>1, <2>3, <3>1
  <2> DEFINE h == [i \in 1..n |-> g[i]]
  <2>5. Is(h)
    <3>1. ASSUME NEW i \in 1..n PROVE h[i] = IF i = 1 THEN f[i] ELSE h[i - 1] \o f[i]
      <4>1. CASE i = 1
        <5>1. g[0] = << >> /\ g[1] = g[0] \o f[1]
          <6>1. 0 \in 0..n /\ 1 \in 1..n /\ 1 - 1 = 0
            BY <4>1
          <6> QED
            BY <2>3, <2>4, <6>1
        <5>2. f[1] \in Seq(S)
          BY <1>1, <4>1
        <5>3. << >> \o f[1] = f[1]
          BY <5>2
        <5> QED
          BY <4>1, <5>1, <5>3
      <4>2. CASE i # 1
        <5>1. i - 1 \in 1..n
          BY <4>2
        <5> QED
          BY <2>4, <4>2, <5>1
      <4> QED
        BY <4>1, <4>2
    <3> QED
      BY <3>1
  <2>6. Is(flatten)
    BY <2>5
  <2> HIDE DEF flatten
  <2>7. \A i \in 1..n : flatten[i] = IF i = 1 THEN f[i] ELSE flatten[i - 1] \o f[i]
    BY <2>6
  <2> DEFINE T == {k \in 0..n : k # 0 => Listed(flatten[k]) /\ Range(flatten[k]) = UNION {Range(f[i]) : i \in 1..k}}
  <2>8. 0 \in T
    OBVIOUS
  <2>9. ASSUME NEW k \in 1..n, k - 1 \in T PROVE k \in T
    <3>1. k \in 0..n
      OBVIOUS
    <3>2. CASE k = 1
      <4>1. flatten[k] = f[1]
        BY <2>7, <3>2
      <4>2. UNION {Range(f[i]) : i \in 1..k} = Range(f[1])
        BY <3>2
      <4> QED
        BY <3>1, <3>2, <4>1, <4>2
    <3>3. CASE k # 1
      <4>1. flatten[k] = flatten[k - 1] \o f[k]
        BY <2>7, <3>3
      <4>2. Listed(flatten[k - 1]) /\ Range(flatten[k - 1]) = UNION {Range(f[i]) : i \in 1..(k - 1)}
        BY <2>9, <3>3
      <4>3. Listed(flatten[k]) /\ Range(flatten[k]) = Range(flatten[k - 1]) \cup Range(f[k])
        BY <4>1, <4>2, Concats
      <4>4. UNION {Range(f[i]) : i \in 1..k} = (UNION {Range(f[i]) : i \in 1..(k - 1)}) \cup Range(f[k])
        <5>1. \A i : i \in 1..k <=> i \in 1..(k - 1) \/ i = k
          OBVIOUS
        <5> QED
          BY <5>1
      <4> QED
        BY <3>1, <4>2, <4>3, <4>4
    <3> QED
      BY <3>2, <3>3
  <2> HIDE DEF T
  <2>10. n \in T
    BY <2>8, <2>9, AllReached
  <2> QED
    BY <1>3, <1>5, <2>10 DEF T, S
<1> QED
  BY <1>4, <1>5

\* SetToSeq lists a finite set, each element once.
LEMMA SetListed ==
  ASSUME NEW S, IsFiniteSet(S)
  PROVE  Listed(SetToSeq(S)) /\ Range(SetToSeq(S)) = S /\ IsInjective(SetToSeq(S))
<1> DEFINE n == Cardinality(S)
           s == SetToSeq(S)
<1>1. n \in Nat /\ ExistsBijection(1..n, S)
  BY FS_CardinalityType
<1>2. \E f \in [1..n -> S] : IsInjective(f)
  BY <1>1 DEF ExistsBijection, Bijection, Injection
<1>3. s \in [1..n -> S] /\ IsInjective(s)
  BY <1>2 DEF SetToSeq
<1> HIDE DEF s
<1>4. s \in Injection(1..n, S)
  BY <1>3 DEF Injection
<1>5. IsFiniteSet(1..n) /\ Cardinality(1..n) = n
  BY <1>1, FS_Interval
<1>6. s \in Surjection(1..n, S)
  BY <1>4, <1>5, FS_Injection
<1>7. Range(s) = S
  BY <1>3, <1>6 DEF Surjection, Range
<1>8. s \in Seq(S)
  BY <1>1, <1>3
<1> QED
  BY <1>3, <1>7, <1>8, ListedIs DEF s

-----------------------------------------------------------------------------
(* What is written stays *)

LogIs(l) == l = [decided |-> l.decided, anchors |-> l.anchors]
LogGrows(l, m) ==
  /\ \A did \in DOMAIN l.decided : did \in DOMAIN m.decided /\ m.decided[did] = l.decided[did]
  /\ l.anchors \subseteq m.anchors
Holds(l, w) == IF "body" \in DOMAIN w THEN w.did \in DOMAIN l.decided ELSE w \in l.anchors

LEMMA GrowsOnAndOn ==
  ASSUME NEW k, NEW l, NEW m, LogGrows(k, l), LogGrows(l, m)
  PROVE  LogGrows(k, m) /\ \A w : Holds(l, w) => Holds(m, w)
<1>1. LogGrows(k, m)
  BY DEF LogGrows
<1>2. \A w : Holds(l, w) => Holds(m, w)
  BY DEF LogGrows, Holds
<1> QED
  BY <1>1, <1>2

LEMMA RecordOneIs ==
  ASSUME NEW l, NEW w, LogIs(l)
  PROVE  LogIs(RecordOne(l, w)) /\ LogGrows(l, RecordOne(l, w)) /\ Holds(RecordOne(l, w), w)
<1> DEFINE d == writeDecision(l.decided, w)
           m == RecordOne(l, w)
<1>1. /\ DOMAIN d = DOMAIN l.decided \cup {w.did}
      /\ \A did \in DOMAIN l.decided : did \in DOMAIN d /\ d[did] = l.decided[did]
  BY DEF writeDecision
<1> HIDE DEF d
<1>2. CASE "body" \in DOMAIN w
  <2>1. m = [decided |-> d, anchors |-> l.anchors]
    BY <1>2 DEF RecordOne, LogIs, d
  <2> HIDE DEF m
  <2>2. m.decided = d /\ m.anchors = l.anchors
    BY <2>1
  <2> QED
    BY <1>1, <1>2, <2>1, <2>2 DEF LogIs, LogGrows, Holds, m
<1>3. CASE "body" \notin DOMAIN w
  <2>1. m = [decided |-> l.decided, anchors |-> l.anchors \cup {w}]
    BY <1>3 DEF RecordOne, writeDecisionLink, LogIs
  <2> HIDE DEF m
  <2>2. m.decided = l.decided /\ m.anchors = l.anchors \cup {w}
    BY <2>1
  <2> QED
    BY <1>3, <2>1, <2>2 DEF LogIs, LogGrows, Holds, m
<1> QED
  BY <1>2, <1>3

\* The writes of a transaction, one after the other.
Writes(g, l, s, k) == g = [n \in 0..k |-> IF n = 0 THEN l ELSE RecordOne(g[n - 1], s[n])]

LEMMA WriteAllIs ==
  ASSUME NEW l, NEW s, Listed(s)
  PROVE  \E g : Writes(g, l, s, Len(s)) /\ WriteAll(l, s) = g[Len(s)]
<1> DEFINE m == Len(s)
           T == {k \in 0..m : \E g : Writes(g, l, s, k)}
<1>1. m \in Nat
  BY ListedIs
<1> HIDE DEF m
<1>2. 0 \in T
  <2> DEFINE g == [n \in 0..0 |-> l]
  <2>1. Writes(g, l, s, 0)
    BY DEF Writes
  <2> QED
    BY <1>1, <2>1
<1>3. ASSUME NEW k \in 1..m, k - 1 \in T PROVE k \in T
  <2>1. PICK g : Writes(g, l, s, k - 1)
    BY <1>3
  <2>2. /\ k \in Nat \ {0} /\ k - 1 \in 0..(k - 1)
        /\ \A n \in 0..(k - 1) : g[n] = IF n = 0 THEN l ELSE RecordOne(g[n - 1], s[n])
    BY <2>1 DEF Writes
  <2> DEFINE newest == RecordOne(g[k - 1], s[k])
             h == [n \in 0..k |-> IF n = k THEN newest ELSE g[n]]
  <2> HIDE DEF newest
  <2>4. /\ h[k] = newest /\ h = [n \in 0..k |-> h[n]]
        /\ \A n \in 0..(k - 1) : h[n] = g[n]
    BY <2>2
  <2> HIDE DEF h
  <2>5. ASSUME NEW n \in 0..k PROVE h[n] = IF n = 0 THEN l ELSE RecordOne(h[n - 1], s[n])
    <3>1. CASE n = k
      BY <2>2, <2>4, <3>1 DEF newest
    <3>2. CASE n # k
      <4>1. n \in 0..(k - 1) /\ (n # 0 => n - 1 \in 0..(k - 1))
        BY <2>2, <3>2
      <4> QED
        BY <2>2, <2>4, <4>1
    <3> QED
      BY <3>1, <3>2
  <2>6. Writes(h, l, s, k)
    BY <2>4, <2>5 DEF Writes
  <2> QED
    BY <1>3, <2>6
<1> HIDE DEF T
<1>4. m \in T
  BY <1>1, <1>2, <1>3, AllReached
<1> DEFINE Is(h) == h = [n \in 0..m |-> IF n = 0 THEN l ELSE RecordOne(h[n - 1], s[n])]
           after == CHOOSE h : Is(h)
<1>5. Is(after)
  <2>1. PICK g : Is(g)
    BY <1>4 DEF T, Writes
  <2> HIDE DEF Is
  <2> QED
    BY <2>1
<1>6. WriteAll(l, s) = after[m]
  BY DEF WriteAll, m
<1> HIDE DEF after
<1>7. Writes(after, l, s, m)
  BY <1>5 DEF Writes
<1> QED
  BY <1>6, <1>7 DEF m

\* A transaction takes nothing back, and one that is whole has written everything.
LEMMA WriteAllKeeps ==
  ASSUME NEW l, NEW s, Listed(s), LogIs(l)
  PROVE  /\ LogIs(WriteAll(l, s)) /\ LogGrows(l, WriteAll(l, s))
         /\ \A w \in Range(s) : Holds(WriteAll(l, s), w)
<1> DEFINE m == Len(s)
<1>1. m \in Nat /\ s = [i \in 1..m |-> s[i]]
  BY ListedIs
<1>2. PICK g : Writes(g, l, s, m) /\ WriteAll(l, s) = g[m]
  BY WriteAllIs
<1> HIDE DEF m
<1>3. \A n \in 0..m : g[n] = IF n = 0 THEN l ELSE RecordOne(g[n - 1], s[n])
  BY <1>2 DEF Writes
<1> DEFINE OK(n) == LogIs(g[n]) /\ LogGrows(l, g[n]) /\ \A i \in 1..n : Holds(g[n], s[i])
           T == {n \in 0..m : OK(n)}
<1>4. 0 \in T
  <2>1. g[0] = l /\ 0 \in 0..m
    BY <1>1, <1>3
  <2>2. LogGrows(l, l)
    BY DEF LogGrows
  <2> QED
    BY <2>1, <2>2
<1>5. ASSUME NEW n \in 1..m, n - 1 \in T PROVE n \in T
  <2>0. OK(n - 1)
    <3> HIDE DEF OK
    <3> QED
      BY <1>5
  <2>1. n \in 0..m /\ n # 0 /\ g[n] = RecordOne(g[n - 1], s[n]) /\ OK(n - 1)
    <3>1. n \in 0..m /\ n # 0
      BY <1>1
    <3> QED
      BY <1>3, <2>0, <3>1
  <2>2. LogIs(g[n]) /\ LogGrows(g[n - 1], g[n]) /\ Holds(g[n], s[n])
    BY <2>1, RecordOneIs
  <2>3. LogGrows(l, g[n]) /\ \A w : Holds(g[n - 1], w) => Holds(g[n], w)
    BY <2>1, <2>2, GrowsOnAndOn
  <2>4. ASSUME NEW i \in 1..n PROVE Holds(g[n], s[i])
    <3>1. CASE i = n
      BY <2>2, <3>1
    <3>2. CASE i # n
      <4>1. i \in 1..(n - 1)
        BY <1>1, <3>2
      <4> QED
        BY <2>1, <2>3, <4>1
    <3> QED
      BY <3>1, <3>2
  <2> QED
    BY <2>1, <2>2, <2>3, <2>4
<1> HIDE DEF T
<1>6. m \in T
  BY <1>1, <1>4, <1>5, AllReached
<1>7. \A w \in Range(s) : \E i \in 1..m : s[i] = w
  BY <1>1 DEF Range
<1> QED
  BY <1>2, <1>6, <1>7 DEF T

\* Writes whose anchors come with their decisions.
Whole(s) ==
  /\ Listed(s)
  /\ \A w \in Range(s) : "body" \in DOMAIN w \/ \E d \in Range(s) : "body" \in DOMAIN d /\ d.did = w.did

\* A source whose transaction was whole is recorded.
LEMMA WholeIsRecorded ==
  ASSUME NEW l, NEW s, Whole(s), \A w \in Range(s) : Holds(l, w)
  PROVE  \A i \in DOMAIN s : IF "body" \in DOMAIN s[i] THEN s[i].did \in DOMAIN l.decided
                             ELSE s[i] \in l.anchors /\ s[i].did \in DOMAIN l.decided
<1> TAKE i \in DOMAIN s
<1>1. s[i] \in Range(s)
  BY DEF Range
<1> QED
  BY <1>1 DEF Whole, Holds

-----------------------------------------------------------------------------
(* The harvest of a source *)

LEMMA FlatWhole ==
  ASSUME NEW n \in Nat, NEW f, f = [i \in 1..n |-> f[i]], \A i \in 1..n : Whole(f[i])
  PROVE  Whole(FlattenSeq(f))
<1>1. Listed(FlattenSeq(f)) /\ Range(FlattenSeq(f)) = UNION {Range(f[i]) : i \in 1..n}
  BY Flat DEF Whole
<1> DEFINE R == Range(FlattenSeq(f))
<1> HIDE DEF R
<1>2. \A w : w \in R <=> \E i \in 1..n : w \in Range(f[i])
  BY <1>1 DEF R
<1>3. ASSUME NEW w \in R PROVE "body" \in DOMAIN w \/ \E d \in R : "body" \in DOMAIN d /\ d.did = w.did
  <2>1. PICK i \in 1..n : w \in Range(f[i])
    BY <1>2, <1>3
  <2>2. "body" \in DOMAIN w \/ \E d \in Range(f[i]) : "body" \in DOMAIN d /\ d.did = w.did
    BY <2>1 DEF Whole
  <2> QED
    BY <1>2, <2>2
<1> QED
  BY <1>1, <1>3 DEF Whole, R

LEMMA Parts ==
  /\ Whole(<< >>)
  /\ \A did, body : Whole(<<Decision(did, body)>>)
  /\ \A path, did, body : Whole(Anchored(path, Decision(did, body)))
<1>1. Whole(<< >>)
  BY ListedIs DEF Whole
<1>2. ASSUME NEW did, NEW body PROVE "body" \in DOMAIN Decision(did, body) /\ Decision(did, body).did = did
  BY DEF Decision
<1>3. ASSUME NEW path, NEW did PROVE Link(path, did).did = did
  BY DEF Link
<1>4. ASSUME NEW did, NEW body PROVE Whole(<<Decision(did, body)>>)
  <2> DEFINE d == Decision(did, body)
  <2> HIDE DEF d
  <2>1. Listed(<<d>>) /\ Range(<<d>>) = {d}
    BY ListedIs
  <2>2. "body" \in DOMAIN d
    BY <1>2 DEF d
  <2>3. Whole(<<d>>)
    BY <2>1, <2>2 DEF Whole
  <2> QED
    BY <2>3 DEF d
<1>5. ASSUME NEW path, NEW did, NEW body PROVE Whole(Anchored(path, Decision(did, body)))
  <2> DEFINE d == Decision(did, body)
             l == Link(path, d.did)
  <2>1. d.did = did /\ "body" \in DOMAIN d /\ l.did = did
    BY <1>2, <1>3
  <2> HIDE DEF d, l
  <2>2. Listed(<<d, l>>) /\ Range(<<d, l>>) = {d, l}
    BY ListedIs
  <2>3. Whole(<<d, l>>)
    BY <2>1, <2>2 DEF Whole
  <2> QED
    BY <2>3 DEF d, l, Anchored
<1> QED
  BY <1>1, <1>4, <1>5

\* The walk is a finite sequence of all paths.
LEMMA WalkIs ==
  /\ Len(PathOrder) \in Nat /\ DOMAIN PathOrder = 1..Len(PathOrder)
  /\ \A i \in 1..Len(PathOrder) : PathOrder[i] \in Paths
  /\ \A p \in Paths : \E i \in 1..Len(PathOrder) : PathOrder[i] = p
  /\ IsFiniteSet(Paths)
<1>1. /\ Len(PathOrder) \in Nat /\ DOMAIN PathOrder = 1..Len(PathOrder)
      /\ \A i \in 1..Len(PathOrder) : PathOrder[i] \in Paths
      /\ PathOrder \in [1..Len(PathOrder) -> Paths]
  BY DecisionsAssumption DEF DecisionsAssumption
<1>2. \A p \in Paths : \E i \in 1..Len(PathOrder) : PathOrder[i] = p
  BY <1>1, DecisionsAssumption DEF DecisionsAssumption, Range
<1>3. PathOrder \in Surjection(1..Len(PathOrder), Paths)
  BY <1>1, <1>2 DEF Surjection
<1>4. IsFiniteSet(1..Len(PathOrder))
  BY <1>1, FS_Interval
<1>5. IsFiniteSet(Paths)
  BY <1>3, <1>4, FS_Surjection
<1> QED
  BY <1>1, <1>2, <1>5

Trees == [Paths -> Contents \cup {NoFile}]

\* The text of a file that is there.
LEMMA ContentIs ==
  ASSUME NEW tree \in Trees, NEW S, NEW p \in Existing(tree, S), p \in Paths
  PROVE  Listed(Content(tree, p))
<1>1. tree[p] \in Contents
  BY DEF Trees, Existing
<1> QED
  BY <1>1, DecisionsAssumption DEF DecisionsAssumption, Content, Contents, Listed

LEMMA ADRsAreWhole == ASSUME NEW tree \in Trees PROVE Whole(ADRWrites(tree))
<1> DEFINE f == [i \in DOMAIN PathOrder |->
                   IF PathOrder[i] \in Existing(tree, ADRs)
                   THEN Anchored(PathOrder[i], Decision(<<"adr", PathOrder[i]>>, Content(tree, PathOrder[i])))
                   ELSE << >>]
           n == Len(PathOrder)
<1>1. ADRWrites(tree) = FlattenSeq(f)
  BY DEF ADRWrites, InTurn
<1>2. n \in Nat /\ f = [i \in 1..n |-> f[i]]
  BY WalkIs
<1>3. \A i \in 1..n : Whole(f[i])
  <2> TAKE i \in 1..n
  <2>1. f[i] = << >> \/ \E path, did, body : f[i] = Anchored(path, Decision(did, body))
    BY WalkIs
  <2> HIDE DEF f
  <2> QED
    BY <2>1, Parts
<1> HIDE DEF f, n
<1> QED
  BY <1>1, <1>2, <1>3, FlatWhole

LEMMA RulesAreWhole == ASSUME NEW p, NEW lines, Listed(lines) PROVE Whole(RuleWrites(p, lines))
<1> DEFINE f == [i \in DOMAIN lines |->
                   IF i \in Extract(lines) /\ lines[i].kind = "rule"
                   THEN Anchored(p, Decision(<<"rule", lines[i].name>>, p)) ELSE << >>]
           n == Len(lines)
<1>1. RuleWrites(p, lines) = FlattenSeq(f)
  BY DEF RuleWrites
<1>2. n \in Nat /\ DOMAIN lines = 1..n
  BY ListedIs
<1>3. f = [i \in 1..n |-> f[i]]
  BY <1>2
<1>4. \A i \in 1..n : Whole(f[i])
  <2> TAKE i \in 1..n
  <2>1. f[i] = << >> \/ \E path, did, body : f[i] = Anchored(path, Decision(did, body))
    BY <1>2
  <2> HIDE DEF f
  <2> QED
    BY <2>1, Parts
<1> HIDE DEF f, n
<1> QED
  BY <1>1, <1>2, <1>3, <1>4, FlatWhole

LEMMA AnnotationsAreWhole == ASSUME NEW tree \in Trees PROVE Whole(AnnotationWrites(tree))
<1> DEFINE f == [i \in DOMAIN PathOrder |->
                   IF PathOrder[i] \in Existing(tree, Annotated)
                   THEN RuleWrites(PathOrder[i], Content(tree, PathOrder[i])) ELSE << >>]
           n == Len(PathOrder)
<1>1. AnnotationWrites(tree) = FlattenSeq(f)
  BY DEF AnnotationWrites, InTurn
<1>2. n \in Nat /\ f = [i \in 1..n |-> f[i]]
  BY WalkIs
<1>3. \A i \in 1..n : Whole(f[i])
  <2> TAKE i \in 1..n
  <2> DEFINE p == PathOrder[i]
  <2>1. p \in Paths /\ f[i] = IF p \in Existing(tree, Annotated) THEN RuleWrites(p, Content(tree, p)) ELSE << >>
    BY WalkIs
  <2> HIDE DEF f, p
  <2> QED
    BY <2>1, Parts, ContentIs, RulesAreWhole
<1> HIDE DEF f, n
<1> QED
  BY <1>1, <1>2, <1>3, FlatWhole

LEMMA CommitsAreWhole == ASSUME NEW S, NEW cs \in Seq(S) PROVE Whole(CommitWrites(cs))
<1> DEFINE n == IF Len(cs) < CommitWindow THEN Len(cs) ELSE CommitWindow
           f == [i \in 1..n |-> IF cs[Len(cs) + 1 - i].marked
                                THEN <<Decision(<<"commit", Len(cs) + 1 - i>>, Len(cs) + 1 - i)>> ELSE << >>]
<1>1. CommitWrites(cs) = FlattenSeq(f)
  BY DEF CommitWrites
<1>2. n \in Nat
  BY DecisionsAssumption DEF DecisionsAssumption
<1> HIDE DEF n
<1>3. f = [i \in 1..n |-> f[i]]
  OBVIOUS
<1>4. \A i \in 1..n : Whole(f[i])
  <2> TAKE i \in 1..n
  <2>1. f[i] = << >> \/ \E did, body : f[i] = <<Decision(did, body)>>
    OBVIOUS
  <2> HIDE DEF f
  <2> QED
    BY <2>1, Parts
<1> HIDE DEF f
<1> QED
  BY <1>1, <1>2, <1>3, <1>4, FlatWhole

\* The sections of a doc are a sequence.
LEMMA SectionsAreListed == ASSUME NEW lines, Listed(lines) PROVE Listed(splitH2Sections(lines))
<1> DEFINE Texts == Range(lines)
           Names == {""} \cup {l.name : l \in Texts}
           Sections == [heading : Names, body : Seq(Texts)]
           Splits == [open : Names, buf : Seq(Texts), out : Seq(Sections)]
           flush(acc) ==
             IF acc.open = "" THEN acc
             ELSE [open |-> acc.open, buf |-> << >>,
                   out |-> Append(acc.out, [heading |-> acc.open, body |-> acc.buf])]
           Take(acc, l) ==
             CASE l.kind = "h2"   -> [open |-> l.name, buf |-> Append(flush(acc).buf, l), out |-> flush(acc).out]
               [] acc.open # ""   -> [acc EXCEPT !.buf = Append(@, l)]
               [] OTHER           -> acc
           start == [open |-> "", buf |-> << >>, out |-> << >>]
           m == Len(lines)
           Is(h) == h = [n \in 0..m |-> IF n = 0 THEN start ELSE Take(h[n - 1], lines[n])]
           after == CHOOSE h : Is(h)
           step == [x \in Splits \X (1..m) |-> Take(x[1], lines[x[2]])]
           X == [n \in 0..m |-> Splits]
<1>1. m \in Nat /\ \A n \in 1..m : lines[n] \in Texts
  BY ListedIs DEF Range
<1>2. "" \in Names /\ \A l \in Texts : l.name \in Names
  OBVIOUS
<1> HIDE DEF Texts, Names
<1>3. start \in Splits
  <2>1. << >> \in Seq(Texts) /\ << >> \in Seq(Sections)
    <3> HIDE DEF Sections
    <3> QED
      OBVIOUS
  <2> HIDE DEF Sections
  <2> QED
    BY <1>2, <2>1
<1>4. ASSUME NEW acc \in Splits PROVE flush(acc) \in Splits
  <2>1. /\ acc.open \in Names /\ acc.buf \in Seq(Texts) /\ acc.out \in Seq(Sections)
    OBVIOUS
  <2> DEFINE section == [heading |-> acc.open, body |-> acc.buf]
             o == Append(acc.out, section)
  <2>2. section \in Sections
    BY <2>1
  <2>3. o \in Seq(Sections)
    <3> HIDE DEF section, Sections
    <3> QED
      BY <2>1, <2>2
  <2>4. flush(acc) = acc \/ flush(acc) = [open |-> acc.open, buf |-> << >>, out |-> o]
    OBVIOUS
  <2> DEFINE closed == [open |-> acc.open, buf |-> << >>, out |-> o]
  <2>5. closed \in Splits
    <3>1. << >> \in Seq(Texts)
      OBVIOUS
    <3> HIDE DEF section, o, Sections
    <3> QED
      BY <2>1, <2>3, <3>1
  <2> HIDE DEF flush, closed, Splits
  <2> QED
    BY <2>4, <2>5 DEF closed
<1>5. ASSUME NEW acc \in Splits, NEW l \in Texts PROVE Take(acc, l) \in Splits
  <2> DEFINE a == flush(acc)
  <2>1. a \in Splits /\ l.name \in Names
    BY <1>2, <1>4
  <2>2. \/ Take(acc, l) = acc
        \/ Take(acc, l) = [open |-> l.name, buf |-> Append(a.buf, l), out |-> a.out]
        \/ Take(acc, l) = [acc EXCEPT !.buf = Append(acc.buf, l)]
    <3> HIDE DEF flush
    <3> QED
      OBVIOUS
  <2> HIDE DEF Take, flush, a, Sections
  <2>3. a.buf \in Seq(Texts) /\ acc.buf \in Seq(Texts) /\ a.out \in Seq(Sections)
    BY <2>1
  <2>4. Append(a.buf, l) \in Seq(Texts) /\ Append(acc.buf, l) \in Seq(Texts)
    BY <2>3
  <2> DEFINE t == Take(acc, l)
             opened == [open |-> l.name, buf |-> Append(a.buf, l), out |-> a.out]
             added == [acc EXCEPT !.buf = Append(acc.buf, l)]
  <2>5. opened \in Splits
    BY <2>1, <2>3, <2>4
  <2>6. added \in Splits
    BY <2>4
  <2> HIDE DEF opened, added, Splits
  <2> QED
    BY <2>2, <2>5, <2>6 DEF opened, added
<1>6. splitH2Sections(lines) = flush(after[m]).out
  BY DEF splitH2Sections
<1> HIDE DEF flush, Take, start, m, Splits
<1>7. start \in X[0] /\ \A n \in 1..m : \A w \in X[n - 1] : step[<<w, n>>] = Take(w, lines[n]) /\ step[<<w, n>>] \in X[n]
  <2>1. 0 \in 0..m
    BY <1>1
  <2>2. ASSUME NEW n \in 1..m, NEW w \in X[n - 1] PROVE step[<<w, n>>] = Take(w, lines[n]) /\ step[<<w, n>>] \in X[n]
    <3>1. n \in 0..m /\ n - 1 \in 0..m
      BY <1>1
    <3>2. w \in Splits
      BY <3>1
    <3> QED
      BY <1>1, <1>5, <3>1, <3>2
  <2> QED
    BY <1>3, <2>1, <2>2
<1> HIDE DEF step
<1>8. PICK g : Folds(g, m, start, step, X)
  <2> HIDE DEF X
  <2> QED
    BY <1>1, <1>7, FoldExists
<1>9. \A n \in 0..m : g[n] = (IF n = 0 THEN start ELSE step[<<g[n - 1], n>>]) /\ g[n] \in X[n]
  BY <1>8 DEF Folds
<1>10. Is(g)
  <2>1. ASSUME NEW n \in 0..m PROVE g[n] = IF n = 0 THEN start ELSE Take(g[n - 1], lines[n])
    <3>1. n # 0 => n \in 1..m /\ n - 1 \in 0..m
      BY <1>1
    <3> HIDE DEF X
    <3> QED
      BY <1>7, <1>9, <2>1, <3>1
  <2>2. g = [n \in 0..m |-> g[n]]
    BY <1>8 DEF Folds
  <2> QED
    BY <2>1, <2>2
<1>11. Is(after)
  BY <1>10
<1> HIDE DEF after
<1>12. \A n \in 0..m : after[n] = IF n = 0 THEN start ELSE Take(after[n - 1], lines[n])
  BY <1>11
<1> DEFINE T == {n \in 0..m : after[n] \in Splits}
<1>13. 0 \in T
  BY <1>1, <1>3, <1>12
<1>14. ASSUME NEW n \in 1..m, n - 1 \in T PROVE n \in T
  <2>1. n \in 0..m /\ n # 0 /\ lines[n] \in Texts
    BY <1>1
  <2> QED
    BY <1>5, <1>12, <1>14, <2>1
<1> HIDE DEF T
<1>15. m \in T
  <2>1. m \in Nat /\ m \in 0..m
    BY <1>1
  <2> QED
    BY <1>13, <1>14, <2>1, AllReached
<1>16. flush(after[m]) \in Splits
  BY <1>4, <1>15 DEF T
<1>17. flush(after[m]).out \in Seq(Sections)
  <2> HIDE DEF Sections
  <2> QED
    BY <1>16 DEF Splits
<1> QED
  BY <1>6, <1>17, ListedIs

LEMMA DocIsListed ==
  ASSUME NEW tree \in Trees, NEW p \in Paths, p \in Existing(tree, Guides)
  PROVE  /\ Listed(loadDocDecisions(tree, p))
         /\ \A d \in Range(loadDocDecisions(tree, p)) : \E did, body : d = Decision(did, body)
<1> DEFINE sections == splitH2Sections(Content(tree, p))
           n == Len(sections)
           name(i) == <<"doc", p, SlugOf[sections[i].heading]>>
           bodyOf(i) == sections[i].body
           slugless(i) == SlugOf[sections[i].heading] = ""
           part(i) == IF slugless(i) THEN << >> ELSE <<Decision(name(i), bodyOf(i))>>
           f == [i \in DOMAIN sections |-> part(i)]
<1>1. loadDocDecisions(tree, p) = FlattenSeq(f)
  BY DEF loadDocDecisions
<1>2. Listed(sections)
  BY ContentIs, SectionsAreListed
<1> HIDE DEF sections
<1>3. n \in Nat /\ DOMAIN sections = 1..n
  BY <1>2, ListedIs
<1> HIDE DEF n
<1>4. ASSUME NEW i \in 1..n PROVE part(i) = << >> \/ \E did, body : part(i) = <<Decision(did, body)>>
  <2> HIDE DEF name, bodyOf, slugless
  <2>1. part(i) = << >> \/ part(i) = <<Decision(name(i), bodyOf(i))>>
    OBVIOUS
  <2> HIDE DEF part
  <2> QED
    BY <2>1
<1> HIDE DEF part
<1>5. f = [i \in 1..n |-> f[i]] /\ \A i \in 1..n : f[i] = part(i)
  BY <1>3
<1> HIDE DEF f
<1>6. \A i \in 1..n : Listed(f[i]) /\ \A d \in Range(f[i]) : \E did, body : d = Decision(did, body)
  <2> TAKE i \in 1..n
  <2>1. CASE f[i] = << >>
    BY <2>1, ListedIs
  <2>2. CASE f[i] # << >>
    <3>1. PICK did, body : f[i] = <<Decision(did, body)>>
      BY <1>5, <1>4, <2>2
    <3>2. Listed(f[i]) /\ Range(f[i]) = {Decision(did, body)}
      BY <3>1, ListedIs
    <3> QED
      BY <3>2
  <2> QED
    BY <2>1, <2>2
<1>7. Listed(FlattenSeq(f)) /\ Range(FlattenSeq(f)) = UNION {Range(f[i]) : i \in 1..n}
  BY <1>3, <1>5, <1>6, Flat
<1> QED
  BY <1>1, <1>6, <1>7

LEMMA DocIsWhole ==
  ASSUME NEW tree \in Trees, NEW p \in Paths, p \in Existing(tree, Guides)
  PROVE  /\ Whole(DocDecisions(tree, p))
         /\ Range(loadDocDecisions(tree, p)) \subseteq Range(DocDecisions(tree, p))
<1> DEFINE own == loadDocDecisions(tree, p)
           n == Len(own)
           f == [i \in DOMAIN own |-> Anchored(p, own[i])]
<1>1. DocDecisions(tree, p) = FlattenSeq(f)
  BY DEF DocDecisions
<1>2. Listed(own) /\ \A d \in Range(own) : \E did, body : d = Decision(did, body)
  BY DocIsListed
<1> HIDE DEF own
<1>3. n \in Nat /\ DOMAIN own = 1..n /\ \A i \in 1..n : own[i] \in Range(own)
  BY <1>2, ListedIs DEF Range
<1> HIDE DEF n
<1>4. f = [i \in 1..n |-> f[i]] /\ \A i \in 1..n : f[i] = Anchored(p, own[i])
  BY <1>3
<1> HIDE DEF f
<1>5. \A i \in 1..n : Whole(f[i]) /\ own[i] \in Range(f[i])
  <2> TAKE i \in 1..n
  <2>1. PICK did, body : own[i] = Decision(did, body)
    BY <1>2, <1>3
  <2>2. Whole(f[i])
    BY <1>4, <2>1, Parts
  <2>3. f[i] = <<own[i], Link(p, own[i].did)>>
    BY <1>4 DEF Anchored
  <2> QED
    BY <2>2, <2>3, ListedIs
<1>6. Whole(FlattenSeq(f))
  BY <1>3, <1>4, <1>5, FlatWhole
<1>7. Range(FlattenSeq(f)) = UNION {Range(f[i]) : i \in 1..n}
  BY <1>3, <1>4, <1>5, Flat DEF Whole
<1>8. \A d \in Range(own) : \E i \in 1..n : own[i] = d
  BY <1>3 DEF Range
<1>9. Range(own) \subseteq Range(FlattenSeq(f))
  BY <1>5, <1>7, <1>8
<1> QED
  BY <1>1, <1>6, <1>9 DEF own

\* Writes about decisions of D.
About(s, D) == Listed(s) /\ \A w \in Range(s) : \E d \in D : "body" \in DOMAIN d /\ d.did = w.did

LEMMA FlatAbout ==
  ASSUME NEW D, NEW n \in Nat, NEW f, f = [i \in 1..n |-> f[i]], \A i \in 1..n : About(f[i], D)
  PROVE  About(FlattenSeq(f), D)
<1>1. Listed(FlattenSeq(f)) /\ Range(FlattenSeq(f)) = UNION {Range(f[i]) : i \in 1..n}
  BY Flat DEF About
<1>2. ASSUME NEW w \in Range(FlattenSeq(f)) PROVE \E d \in D : "body" \in DOMAIN d /\ d.did = w.did
  <2>1. PICK i \in 1..n : w \in Range(f[i])
    BY <1>1, <1>2
  <2> QED
    BY <2>1 DEF About
<1> QED
  BY <1>1, <1>2 DEF About

LEMMA LinksAreAbout ==
  ASSUME NEW tree \in Trees, NEW f, NEW p \in Paths, p \in Existing(tree, Guides)
  PROVE  About(ModuleLinks(tree, f, p), Range(loadDocDecisions(tree, p)))
<1> DEFINE own == loadDocDecisions(tree, p)
           n == Len(own)
           links == [i \in DOMAIN own |-> Link(f, own[i].did)]
<1>1. Listed(own) /\ \A d \in Range(own) : \E did, body : d = Decision(did, body)
  BY DocIsListed
<1>2. ModuleLinks(tree, f, p) = links \/ ModuleLinks(tree, f, p) = << >>
  BY DEF ModuleLinks
<1> HIDE DEF own
<1>3. n \in Nat /\ DOMAIN own = 1..n /\ \A i \in 1..n : own[i] \in Range(own)
  BY <1>1, ListedIs DEF Range
<1> HIDE DEF n
<1>4. links \in Seq({links[i] : i \in 1..n}) /\ DOMAIN links = 1..n
  BY <1>3
<1>5. Listed(links)
  BY <1>4, ListedIs
<1>6. ASSUME NEW w \in Range(links) PROVE \E d \in Range(own) : "body" \in DOMAIN d /\ d.did = w.did
  <2>1. PICK i \in 1..n : w = Link(f, own[i].did)
    BY <1>3, <1>6 DEF Range
  <2>2. w.did = own[i].did
    BY <2>1 DEF Link
  <2>3. own[i] \in Range(own) /\ "body" \in DOMAIN own[i]
    BY <1>1, <1>3 DEF Decision
  <2> QED
    BY <2>2, <2>3
<1> HIDE DEF links
<1>7. About(links, Range(own)) /\ About(<< >>, Range(own))
  BY <1>5, <1>6, ListedIs DEF About
<1> QED
  BY <1>2, <1>7 DEF own

LEMMA DocsAreWhole == ASSUME NEW tree \in Trees, NEW scanned PROVE Whole(DocWrites(tree, scanned))
<1> DEFINE n == Len(PathOrder)
           docs == Existing(tree, Guides)
           own == [i \in DOMAIN PathOrder |-> IF PathOrder[i] \in docs THEN DocDecisions(tree, PathOrder[i]) ELSE << >>]
           of(f) == [i \in DOMAIN PathOrder |-> IF PathOrder[i] \in docs THEN ModuleLinks(tree, f, PathOrder[i]) ELSE << >>]
           governing == [i \in DOMAIN PathOrder |-> IF PathOrder[i] \in scanned THEN FlattenSeq(of(PathOrder[i])) ELSE << >>]
           A == FlattenSeq(own)
           B == FlattenSeq(governing)
           D == Range(A)
<1>1. DocWrites(tree, scanned) = A \o B
  BY DEF DocWrites, InTurn
<1>2. n \in Nat /\ DOMAIN PathOrder = 1..n /\ \A i \in 1..n : PathOrder[i] \in Paths
  BY WalkIs
<1> HIDE DEF n, docs
<1>3. own = [i \in 1..n |-> own[i]] /\ \A i \in 1..n : Whole(own[i])
  <2>1. ASSUME NEW i \in 1..n PROVE Whole(own[i])
    <3> DEFINE p == PathOrder[i]
    <3>1. p \in Paths /\ own[i] = IF p \in docs THEN DocDecisions(tree, p) ELSE << >>
      BY <1>2
    <3> HIDE DEF own, p
    <3> QED
      BY <3>1, Parts, DocIsWhole DEF docs
  <2> QED
    BY <1>2, <2>1
<1>4. Whole(A)
  <2> HIDE DEF own
  <2> QED
    BY <1>2, <1>3, FlatWhole
<1>5. D = UNION {Range(own[i]) : i \in 1..n}
  <2> HIDE DEF own
  <2> QED
    BY <1>2, <1>3, Flat DEF Whole
<1>6. ASSUME NEW p \in Paths, p \in docs PROVE Range(loadDocDecisions(tree, p)) \subseteq D
  <2>1. PICK i \in 1..n : PathOrder[i] = p
    BY WalkIs DEF n
  <2>2. own[i] = DocDecisions(tree, p)
    BY <1>2, <1>6, <2>1
  <2>3. Range(loadDocDecisions(tree, p)) \subseteq Range(own[i])
    BY <1>6, <2>2, DocIsWhole DEF docs
  <2> HIDE DEF own, A, D
  <2> QED
    BY <1>5, <2>3
<1> HIDE DEF D
<1>7. ASSUME NEW f PROVE About(FlattenSeq(of(f)), D)
  <2> DEFINE g == of(f)
  <2>1. ASSUME NEW i \in 1..n PROVE About(g[i], D)
    <3> DEFINE p == PathOrder[i]
    <3>1. p \in Paths /\ g[i] = IF p \in docs THEN ModuleLinks(tree, f, p) ELSE << >>
      BY <1>2
    <3> HIDE DEF g, p
    <3>2. CASE p \in docs
      <4>1. About(ModuleLinks(tree, f, p), Range(loadDocDecisions(tree, p)))
        BY <3>1, <3>2, LinksAreAbout DEF docs
      <4>2. Range(loadDocDecisions(tree, p)) \subseteq D
        BY <1>6, <3>1, <3>2
      <4> QED
        BY <3>1, <3>2, <4>1, <4>2 DEF About
    <3>3. CASE p \notin docs
      BY <3>1, <3>3, ListedIs DEF About
    <3> QED
      BY <3>2, <3>3
  <2>2. g = [i \in 1..n |-> g[i]]
    BY <1>2
  <2> HIDE DEF g
  <2>3. About(FlattenSeq(g), D)
    BY <1>2, <2>1, <2>2, FlatAbout
  <2> QED
    BY <2>3 DEF g
<1> HIDE DEF of
<1>8. About(B, D)
  <2>1. ASSUME NEW i \in 1..n PROVE About(governing[i], D)
    <3>1. governing[i] = FlattenSeq(of(PathOrder[i])) \/ governing[i] = << >>
      BY <1>2
    <3>2. About(<< >>, D)
      BY ListedIs DEF About
    <3> QED
      BY <1>7, <3>1, <3>2
  <2>2. governing = [i \in 1..n |-> governing[i]]
    BY <1>2
  <2> HIDE DEF governing
  <2> QED
    BY <1>2, <2>1, <2>2, FlatAbout
<1> HIDE DEF A, B
<1>9. Listed(A) /\ Listed(B)
  BY <1>4, <1>8 DEF Whole, About
<1>10. Listed(A \o B) /\ Range(A \o B) = Range(A) \cup Range(B)
  BY <1>9, Concats
<1>11. ASSUME NEW w \in Range(A \o B) PROVE "body" \in DOMAIN w \/ \E d \in Range(A \o B) : "body" \in DOMAIN d /\ d.did = w.did
  <2>1. CASE w \in Range(A)
    BY <1>4, <1>10, <2>1 DEF Whole
  <2>2. CASE w \in Range(B)
    BY <1>8, <1>10, <2>2 DEF About, D
  <2> QED
    BY <1>10, <1>11, <2>1, <2>2
<1> QED
  BY <1>1, <1>10, <1>11 DEF Whole

-----------------------------------------------------------------------------
(* The batch of a scan *)

Statuses == {"active", "deleted"}
NodeRecs == {Unscanned} \cup [hash : Contents, status : Statuses]
ImportSets == {{}} \cup {ImportsOf[c] : c \in Contents}
FileNode == [path : Paths, hash : Contents, status : Statuses, imports : ImportSets]
EachOnce(batch) == \A i, j \in DOMAIN batch : batch[i].path = batch[j].path => i = j

LEMMA FileNodesAre ==
  \A x \in FileNode : x.path \in Paths /\ x.hash \in Contents /\ x.status \in Statuses /\ x.imports \in ImportSets
BY DEF FileNode

\* The first k writes after the first a.
LEMMA Stretch ==
  ASSUME NEW S, NEW s \in Seq(S), NEW a \in Nat, NEW k \in Nat, a + k <= Len(s)
  PROVE  /\ SubSeq(s, a + 1, a + k) \in Seq(S) /\ Len(SubSeq(s, a + 1, a + k)) = k
         /\ DOMAIN SubSeq(s, a + 1, a + k) = 1..k
         /\ \A i \in 1..k : SubSeq(s, a + 1, a + k)[i] = s[a + i]
OBVIOUS

\* A file's content recorded as a version.
Extended(s, h) == IF s # << >> /\ Last(s) = h THEN s ELSE Append(s, h)

LEMMA VersionsAre ==
  ASSUME NEW es \in [Paths -> Seq(Contents)], NEW batch \in Seq(FileNode), EachOnce(batch)
  PROVE  /\ AppendVersions(es, batch) \in [Paths -> Seq(Contents)]
         /\ \A p \in Paths : (\A i \in DOMAIN batch : batch[i].path # p) => AppendVersions(es, batch)[p] = es[p]
         /\ \A i \in DOMAIN batch : AppendVersions(es, batch)[batch[i].path] = Extended(es[batch[i].path], batch[i].hash)
<1> DEFINE m == Len(batch)
           Histories == [Paths -> Seq(Contents)]
           Is(h) == h = [n \in 0..m |-> IF n = 0 THEN es ELSE appendEntityVersion(h[n - 1], batch[n])]
           after == CHOOSE h : Is(h)
           step == [x \in Histories \X (1..m) |-> appendEntityVersion(x[1], batch[x[2]])]
           X == [n \in 0..m |-> Histories]
<1>1. m \in Nat /\ DOMAIN batch = 1..m /\ \A n \in 1..m : batch[n].path \in Paths /\ batch[n].hash \in Contents
  <2>1. m \in Nat /\ DOMAIN batch = 1..m /\ \A n \in 1..m : batch[n] \in FileNode
    OBVIOUS
  <2> QED
    BY <2>1, FileNodesAre
<1>2. AppendVersions(es, batch) = after[m]
  BY DEF AppendVersions
<1> HIDE DEF m
<1>3. ASSUME NEW e \in Histories, NEW n \in 1..m
      PROVE  /\ appendEntityVersion(e, batch[n]) \in Histories
             /\ appendEntityVersion(e, batch[n])[batch[n].path] = Extended(e[batch[n].path], batch[n].hash)
             /\ \A p \in Paths : p # batch[n].path => appendEntityVersion(e, batch[n])[p] = e[p]
  <2> DEFINE q == batch[n].path
             h == batch[n].hash
  <2>1. q \in Paths /\ h \in Contents
    BY <1>1
  <2>2. appendEntityVersion(e, batch[n]) = IF e[q] # << >> /\ Last(e[q]) = h THEN e ELSE [e EXCEPT ![q] = Append(e[q], h)]
    BY DEF appendEntityVersion
  <2> HIDE DEF q, h
  <2>3. e[q] \in Seq(Contents) /\ Append(e[q], h) \in Seq(Contents)
    BY <2>1
  <2>4. [e EXCEPT ![q] = Append(e[q], h)] \in Histories
    BY <2>1, <2>3
  <2>5. CASE e[q] # << >> /\ Last(e[q]) = h
    BY <2>2, <2>5 DEF Extended, q, h
  <2>6. CASE ~(e[q] # << >> /\ Last(e[q]) = h)
    <3>1. appendEntityVersion(e, batch[n]) = [e EXCEPT ![q] = Append(e[q], h)] /\ Extended(e[q], h) = Append(e[q], h)
      BY <2>2, <2>6 DEF Extended
    <3> QED
      BY <2>1, <2>4, <3>1 DEF q, h
  <2> QED
    BY <2>5, <2>6
<1> HIDE DEF Histories
<1>4. es \in X[0] /\ \A n \in 1..m : \A w \in X[n - 1] : step[<<w, n>>] = appendEntityVersion(w, batch[n]) /\ step[<<w, n>>] \in X[n]
  <2>1. 0 \in 0..m /\ es \in Histories
    BY <1>1 DEF Histories
  <2>2. ASSUME NEW n \in 1..m, NEW w \in X[n - 1] PROVE step[<<w, n>>] = appendEntityVersion(w, batch[n]) /\ step[<<w, n>>] \in X[n]
    <3>1. n \in 0..m /\ n - 1 \in 0..m
      BY <1>1
    <3>2. w \in Histories
      BY <3>1
    <3> QED
      BY <1>1, <1>3, <3>1, <3>2
  <2> QED
    BY <2>1, <2>2
<1> HIDE DEF step
<1>5. PICK g : Folds(g, m, es, step, X)
  <2> HIDE DEF X
  <2> QED
    BY <1>1, <1>4, FoldExists
<1>6. \A n \in 0..m : g[n] = (IF n = 0 THEN es ELSE step[<<g[n - 1], n>>]) /\ g[n] \in X[n]
  BY <1>5 DEF Folds
<1>7. Is(g)
  <2>1. ASSUME NEW n \in 0..m PROVE g[n] = IF n = 0 THEN es ELSE appendEntityVersion(g[n - 1], batch[n])
    <3>1. n # 0 => n \in 1..m /\ n - 1 \in 0..m
      BY <1>1
    <3> HIDE DEF X
    <3> QED
      BY <1>4, <1>6, <2>1, <3>1
  <2>2. g = [n \in 0..m |-> g[n]]
    BY <1>5 DEF Folds
  <2> QED
    BY <2>1, <2>2
<1>8. Is(after)
  BY <1>7
<1> HIDE DEF after
<1>9. \A n \in 0..m : after[n] = IF n = 0 THEN es ELSE appendEntityVersion(after[n - 1], batch[n])
  BY <1>8
<1> DEFINE Others(n) == \A p \in Paths : (\A i \in 1..n : batch[i].path # p) => after[n][p] = es[p]
           These(n) == \A i \in 1..n : after[n][batch[i].path] = Extended(es[batch[i].path], batch[i].hash)
           T == {n \in 0..m : after[n] \in Histories /\ Others(n) /\ These(n)}
<1>10. 0 \in T
  BY <1>1, <1>9 DEF Histories
<1>11. ASSUME NEW n \in 1..m, n - 1 \in T PROVE n \in T
  <2>1. n \in 0..m /\ n # 0 /\ n - 1 \in 0..m /\ after[n] = appendEntityVersion(after[n - 1], batch[n]) /\ after[n - 1] \in Histories
    BY <1>1, <1>9, <1>11
  <2>2. Others(n - 1) /\ These(n - 1)
    <3> HIDE DEF Others, These
    <3> QED
      BY <1>11
  <2> DEFINE q == batch[n].path
  <2>3. /\ after[n] \in Histories /\ after[n][q] = Extended(after[n - 1][q], batch[n].hash)
        /\ \A p \in Paths : p # q => after[n][p] = after[n - 1][p]
    BY <1>3, <2>1
  <2>4. \A i \in 1..(n - 1) : i \in 1..m /\ i \in 1..n /\ i # n /\ batch[i].path # q /\ batch[i].path \in Paths
    <3> TAKE i \in 1..(n - 1)
    <3>1. i \in 1..m /\ i \in 1..n /\ i # n
      BY <1>1
    <3> QED
      BY <1>1, <3>1 DEF EachOnce
  <2>5. after[n - 1][q] = es[q] /\ q \in Paths
    BY <1>1, <2>2, <2>4
  <2>6. Others(n)
    <3> SUFFICES ASSUME NEW p \in Paths, \A i \in 1..n : batch[i].path # p PROVE after[n][p] = es[p]
      OBVIOUS
    <3>1. p # q /\ \A i \in 1..(n - 1) : batch[i].path # p
      BY <2>1, <2>4
    <3> QED
      BY <2>2, <2>3, <3>1
  <2>7. These(n)
    <3> SUFFICES ASSUME NEW i \in 1..n PROVE after[n][batch[i].path] = Extended(es[batch[i].path], batch[i].hash)
      OBVIOUS
    <3>1. CASE i = n
      BY <2>3, <2>5, <3>1
    <3>2. CASE i # n
      <4>1. i \in 1..(n - 1)
        BY <1>1, <3>2
      <4> QED
        BY <2>2, <2>3, <2>4, <4>1
    <3> QED
      BY <3>1, <3>2
  <2> QED
    BY <2>1, <2>3, <2>6, <2>7
<1> HIDE DEF T
<1>12. m \in T
  <2>1. m \in Nat /\ m \in 0..m
    BY <1>1
  <2> QED
    BY <1>10, <1>11, <2>1, AllReached
<1> QED
  BY <1>1, <1>2, <1>12 DEF T, Histories

\* The node of a file is the one written last.
LEMMA NodesAre ==
  ASSUME NEW ns \in [Paths -> NodeRecs], NEW batch \in Seq(FileNode), EachOnce(batch)
  PROVE  /\ WriteNodes(ns, batch) \in [Paths -> NodeRecs]
         /\ \A p \in Paths : (\A i \in DOMAIN batch : batch[i].path # p) => WriteNodes(ns, batch)[p] = ns[p]
         /\ \A i \in DOMAIN batch : WriteNodes(ns, batch)[batch[i].path] = [hash |-> batch[i].hash, status |-> batch[i].status]
<1> DEFINE after == WriteNodes(ns, batch)
           At(p) == {i \in DOMAIN batch : batch[i].path = p}
           of(p) == batch[CHOOSE i \in At(p) : \A j \in At(p) : j <= i]
<1>1. \A i \in DOMAIN batch : i \in Nat /\ batch[i].path \in Paths /\ [hash |-> batch[i].hash, status |-> batch[i].status] \in NodeRecs
  <2> TAKE i \in DOMAIN batch
  <2>1. i \in Nat /\ batch[i] \in FileNode
    OBVIOUS
  <2>2. batch[i].path \in Paths /\ batch[i].hash \in Contents /\ batch[i].status \in Statuses
    BY <2>1 DEF FileNode
  <2>3. [hash |-> batch[i].hash, status |-> batch[i].status] \in [hash : Contents, status : Statuses]
    BY <2>2
  <2> QED
    BY <2>1, <2>2, <2>3 DEF NodeRecs
<1>2. \A p \in Paths : after[p] = IF At(p) = {} THEN ns[p] ELSE [hash |-> of(p).hash, status |-> of(p).status]
  BY DEF WriteNodes
<1>3. after = [p \in Paths |-> after[p]]
  BY DEF WriteNodes
<1>4. ASSUME NEW i \in DOMAIN batch PROVE after[batch[i].path] = [hash |-> batch[i].hash, status |-> batch[i].status]
  <2> DEFINE p == batch[i].path
             k == CHOOSE k \in At(p) : \A j \in At(p) : j <= k
  <2>1. i \in At(p) /\ \A j \in At(p) : j = i /\ j <= i
    BY <1>1 DEF EachOnce
  <2>2. k = i
    <3> HIDE DEF At, p
    <3> QED
      BY <2>1
  <2> QED
    BY <1>1, <1>2, <2>1, <2>2
<1>5. ASSUME NEW p \in Paths, \A i \in DOMAIN batch : batch[i].path # p PROVE after[p] = ns[p]
  <2>1. At(p) = {}
    BY <1>5
  <2> HIDE DEF At, of, after
  <2> QED
    BY <1>2, <2>1
<1>6. \A p \in Paths : after[p] \in NodeRecs
  <2> HIDE DEF after, NodeRecs
  <2> TAKE p \in Paths
  <2>1. CASE \A i \in DOMAIN batch : batch[i].path # p
    <3>1. after[p] = ns[p] /\ ns[p] \in NodeRecs
      BY <1>5, <2>1
    <3> QED
      BY <3>1
  <2>2. CASE ~(\A i \in DOMAIN batch : batch[i].path # p)
    <3>1. PICK i \in DOMAIN batch : batch[i].path = p
      BY <2>2
    <3>2. after[batch[i].path] = [hash |-> batch[i].hash, status |-> batch[i].status]
      BY <1>4
    <3>3. [hash |-> batch[i].hash, status |-> batch[i].status] \in NodeRecs
      BY <1>1
    <3> QED
      BY <3>1, <3>2, <3>3
  <2> QED
    BY <2>1, <2>2
<1> HIDE DEF after, NodeRecs
<1> QED
  BY <1>3, <1>4, <1>5, <1>6 DEF after

\* The links that a deep scan writes.
LEMMA RelationsAre ==
  ASSUME NEW batch \in Seq(FileNode)
  PROVE  /\ Listed(RelationsOf(batch))
         /\ Range(RelationsOf(batch)) = UNION {{batch[i].path} \X batch[i].imports : i \in DOMAIN batch}
<1> DEFINE n == Len(batch)
           links(i) == {<<batch[i].path, t>> : t \in batch[i].imports}
           f == [i \in DOMAIN batch |-> SetToSeq(links(i))]
<1>1. RelationsOf(batch) = FlattenSeq(f)
  BY DEF RelationsOf
<1>2. n \in Nat /\ DOMAIN batch = 1..n /\ \A i \in 1..n : batch[i].imports \in ImportSets
  <2>1. n \in Nat /\ DOMAIN batch = 1..n /\ \A i \in 1..n : batch[i] \in FileNode
    OBVIOUS
  <2> QED
    BY <2>1, FileNodesAre
<1>3. \A T \in ImportSets : IsFiniteSet(T)
  BY ScannerAssumption, FS_EmptySet DEF ScannerAssumption, ImportSets
<1> HIDE DEF n
<1>4. ASSUME NEW i \in 1..n PROVE links(i) = {batch[i].path} \X batch[i].imports /\ IsFiniteSet(links(i))
  <2> DEFINE p == batch[i].path
             T == batch[i].imports
             g == [t \in T |-> <<p, t>>]
  <2>1. IsFiniteSet(T)
    BY <1>2, <1>3
  <2> HIDE DEF p, T
  <2>2. {<<p, t>> : t \in T} = {p} \X T
    OBVIOUS
  <2>3. g \in Surjection(T, {<<p, t>> : t \in T})
    BY DEF Surjection
  <2>4. IsFiniteSet({<<p, t>> : t \in T})
    <3> HIDE DEF g
    <3> QED
      BY <2>1, <2>3, FS_Surjection
  <2> QED
    BY <2>2, <2>4 DEF p, T
<1> HIDE DEF links
<1>5. \A i \in 1..n : f[i] = SetToSeq(links(i))
  BY <1>2
<1>6. f = [i \in 1..n |-> f[i]]
  BY <1>2
<1> HIDE DEF f
<1>7. \A i \in 1..n : Listed(f[i]) /\ Range(f[i]) = links(i)
  BY <1>4, <1>5, SetListed
<1>8. Listed(FlattenSeq(f)) /\ Range(FlattenSeq(f)) = UNION {Range(f[i]) : i \in 1..n}
  <2>1. n \in Nat
    BY <1>2
  <2> QED
    BY <1>6, <1>7, <2>1, Flat
<1>9. UNION {Range(f[i]) : i \in 1..n} = UNION {{batch[i].path} \X batch[i].imports : i \in DOMAIN batch}
  BY <1>2, <1>4, <1>7
<1> QED
  BY <1>1, <1>8, <1>9

\* The nodes that a scan marks deleted.
LEMMA DeletedAre ==
  ASSUME NEW s, s.existing \in [Paths -> NodeRecs]
  PROVE  LET deleted == markDeleted(s)
         IN /\ deleted \in Seq(FileNode) /\ EachOnce(deleted)
            /\ \A i \in DOMAIN deleted :
                 deleted[i].path \in Paths \ s.seen /\ deleted[i].status = "deleted" /\
                 s.existing[deleted[i].path].status = "active" /\ deleted[i].hash = s.existing[deleted[i].path].hash
            /\ \A p \in Paths \ s.seen :
                 s.existing[p].status = "active" => \E i \in DOMAIN deleted : deleted[i].path = p
<1> DEFINE gone == {p \in Paths \ s.seen : s.existing[p].status = "active"}
           of == [p \in gone |-> Node(p, s.existing[p].hash, "deleted")]
           S == {of[p] : p \in gone}
           deleted == markDeleted(s)
<1>1. deleted = SetToSeq(S)
  <2>1. S = {Node(p, s.existing[p].hash, "deleted") : p \in gone}
    OBVIOUS
  <2> QED
    BY <2>1 DEF markDeleted
<1>2. \A p \in gone : /\ p \in Paths \ s.seen /\ s.existing[p].status = "active"
                      /\ of[p].path = p /\ of[p].status = "deleted" /\ of[p].hash = s.existing[p].hash
                      /\ of[p] \in FileNode
  <2> TAKE p \in gone
  <2>1. s.existing[p] \in NodeRecs /\ s.existing[p].status = "active" /\ p \in Paths \ s.seen
    OBVIOUS
  <2>2. s.existing[p].hash \in Contents
    BY <2>1 DEF NodeRecs, Unscanned
  <2>3. of[p] = [path |-> p, hash |-> s.existing[p].hash, status |-> "deleted", imports |-> {}]
    BY DEF Node
  <2> HIDE DEF of
  <2>4. of[p] \in FileNode
    BY <2>1, <2>2, <2>3 DEF FileNode, ImportSets, Statuses
  <2> QED
    BY <2>1, <2>3, <2>4
<1>3. IsFiniteSet(gone)
  <2>1. gone \subseteq Paths
    OBVIOUS
  <2> QED
    BY <2>1, WalkIs, FS_Subset
<1>4. of \in Surjection(gone, S)
  BY DEF Surjection
<1> HIDE DEF gone, of, deleted
<1>5. IsFiniteSet(S)
  BY <1>3, <1>4, FS_Surjection
<1>6. S \subseteq FileNode
  BY <1>2
<1>7. Listed(deleted) /\ Range(deleted) = S /\ IsInjective(deleted)
  <2> HIDE DEF S
  <2> QED
    BY <1>1, <1>5, SetListed
<1>8. \A i \in DOMAIN deleted : \E p \in gone : deleted[i] = of[p]
  BY <1>7 DEF Range
<1>9. \A p \in gone : \E i \in DOMAIN deleted : deleted[i] = of[p]
  <2> TAKE p \in gone
  <2>1. of[p] \in Range(deleted)
    BY <1>7
  <2> QED
    BY <2>1 DEF Range
<1>10. deleted \in Seq(FileNode)
  <2>1. deleted \in Seq(S)
    <3> HIDE DEF S
    <3> QED
      BY <1>7 DEF Listed
  <2> HIDE DEF S
  <2> QED
    BY <1>6, <2>1
<1>11. EachOnce(deleted)
  <2> SUFFICES ASSUME NEW i \in DOMAIN deleted, NEW j \in DOMAIN deleted, deleted[i].path = deleted[j].path
               PROVE  i = j
    BY DEF EachOnce
  <2>1. PICK p \in gone : deleted[i] = of[p]
    BY <1>8
  <2>2. PICK q \in gone : deleted[j] = of[q]
    BY <1>8
  <2>3. p = q
    BY <1>2, <2>1, <2>2
  <2> QED
    BY <1>7, <2>1, <2>2, <2>3 DEF IsInjective
<1>12. \A i \in DOMAIN deleted :
         deleted[i].path \in Paths \ s.seen /\ deleted[i].status = "deleted" /\
         s.existing[deleted[i].path].status = "active" /\ deleted[i].hash = s.existing[deleted[i].path].hash
  BY <1>2, <1>8
<1>13. \A p \in Paths \ s.seen : s.existing[p].status = "active" => \E i \in DOMAIN deleted : deleted[i].path = p
  <2>1. \A p \in Paths \ s.seen : s.existing[p].status = "active" => p \in gone
    BY DEF gone
  <2> QED
    BY <1>2, <1>9, <2>1
<1> QED
  BY <1>10, <1>11, <1>12, <1>13 DEF deleted

-----------------------------------------------------------------------------
(* What holds while a scan runs                                            *)

WhileReading == {"hash", "parse"}
Harvesting == {"renames", "adrs", "annotations", "docs", "commits", "done"}
Scans ==
  [pc : {"idle", "collect", "entities", "relations"} \cup WhileReading \cup Harvesting, full : BOOLEAN, deep : BOOLEAN,
   head : Nat, seen : SUBSET Paths, todo : SUBSET Paths, existing : [Paths -> NodeRecs], batch : Seq(FileNode),
   at : Nat, quiet : BOOLEAN, gone : SUBSET Paths]
CommitRecs == [renames : SUBSET (Paths \X Paths), marked : BOOLEAN]

ScanTypes ==
  /\ files \in Trees /\ commits \in Seq(CommitRecs)
  /\ nodes \in [Paths -> NodeRecs] /\ entities \in [Paths -> Seq(Contents)] /\ lastCommit \in Nat
  /\ scan \in Scans /\ incomplete \in BOOLEAN /\ LogIs(log)

PathsOf(batch) == {batch[i].path : i \in DOMAIN batch}
NewestIs(es, p, h) == es[p] # << >> /\ Last(es[p]) = h

\* What a scan that reads has found: each file once, as it was when it was read.
HasRead(s, ns) ==
  /\ s.at = 0 /\ s.todo \subseteq s.seen /\ EachOnce(s.batch)
  /\ \A i \in DOMAIN s.batch : s.batch[i].path \in s.seen \ s.todo /\ s.batch[i].status = "active"
  /\ s.existing = (IF s.full THEN NoScan.existing ELSE ns)
  /\ s.gone = (IF s.full THEN {} ELSE {p \in s.seen : ns[p].status = "deleted"})
  /\ s.pc = "parse" => s.deep /\ s.batch # << >>
ReadRight(s, ns, fs) ==
  /\ \A p \in s.seen : fs[p] # NoFile
  /\ \A i \in DOMAIN s.batch : s.batch[i].hash = fs[s.batch[i].path]
  /\ \A i \in DOMAIN s.batch : s.deep /\ (s.pc = "hash" \/ i < Len(s.batch))
                                 => s.batch[i].imports = ImportsOf[fs[s.batch[i].path]]
  /\ \A p \in s.seen \ s.todo : p \in PathsOf(s.batch) \/ (~s.full /\ ns[p].hash = fs[p])

\* What the nodes say once they are written.
NodesRight(s, ns, fs) ==
  /\ \A p \in s.seen : fs[p] # NoFile /\ ns[p].hash = fs[p] /\ (p \notin s.gone => ns[p].status = "active")
  /\ s.full \/ \A p \in Paths : ns[p].status = "active" => fs[p] # NoFile

\* The batch whose versions are being written.
WritesBatch(s, ns, es) ==
  /\ EachOnce(s.batch) /\ s.at \in 0..Len(s.batch)
  /\ \A i \in DOMAIN s.batch : ns[s.batch[i].path].hash = s.batch[i].hash
  /\ \A i \in 1..s.at : NewestIs(es, s.batch[i].path, s.batch[i].hash)
BatchRight(s, fs) ==
  /\ s.full => s.seen \subseteq PathsOf(s.batch)
  /\ s.deep => \A i \in DOMAIN s.batch : s.batch[i].path \in s.seen => s.batch[i].imports = ImportsOf[fs[s.batch[i].path]]

\* The files whose versions are behind their nodes; other versions follow.
Behind(s) == IF s.pc = "entities" THEN {s.batch[i].path : i \in s.at + 1 .. Len(s.batch)} ELSE {}
VersionsFollow(s, ns, es) ==
  \A p \in Paths \ Behind(s) : ns[p].status # "none" => NewestIs(es, p, ns[p].hash)

KeptIn(l, s) == \A i \in DOMAIN s : IF "body" \in DOMAIN s[i] THEN s[i].did \in DOMAIN l.decided
                                    ELSE s[i] \in l.anchors /\ s[i].did \in DOMAIN l.decided

\* Nothing is found yet.
AtStart(s) == s.at = 0 /\ s.batch = << >> /\ s.existing = NoScan.existing

ScanPlace ==
  /\ scan.pc = "collect" => AtStart(scan)
  /\ scan.pc \in WhileReading => HasRead(scan, nodes)
  /\ scan.pc = "entities" => WritesBatch(scan, nodes, entities)
  /\ scan.pc = "relations" => scan.deep /\ scan.at \in 0..Len(RelationsOf(scan.batch))
                              /\ \A i \in 1..scan.at : RelationsOf(scan.batch)[i] \in imports
  /\ ~incomplete => VersionsFollow(scan, nodes, entities)
ScanRight ==
  scan.quiet =>
    /\ scan.pc \in {"collect"} \cup WhileReading => scan.head = Len(commits)
    /\ scan.pc \in WhileReading => ReadRight(scan, nodes, files)
    /\ scan.pc \in {"entities", "relations"} => BatchRight(scan, files)
    /\ scan.pc \in {"entities", "relations"} \cup Harvesting =>
          lastCommit = Len(commits) /\ NodesRight(scan, nodes, files)
    /\ scan.pc \in {"relations"} \cup Harvesting /\ (scan.full \/ ~incomplete)
          => \A p \in scan.seen : NewestIs(entities, p, files[p])
    /\ scan.pc \in Harvesting /\ scan.full /\ scan.deep
          => \A p \in scan.seen : {p} \X ImportsOf[files[p]] \subseteq imports
    /\ scan.pc \in {"annotations", "docs", "commits", "done"} => KeptIn(log, ADRWrites(files))
    /\ scan.pc \in {"docs", "commits", "done"} => KeptIn(log, AnnotationWrites(files))
    /\ scan.pc \in {"commits", "done"} => KeptIn(log, DocWrites(files, scan.seen))
    /\ scan.pc = "done" => KeptIn(log, CommitWrites(commits))
ScanInv == ScanTypes /\ ScanPlace /\ ScanRight

LEMMA NoScanIs ==
  /\ NoScan \in Scans /\ NoScan.pc = "idle" /\ NoScan.at = 0 /\ NoScan.batch = << >>
  /\ NoScan.existing \in [Paths -> NodeRecs] /\ Unscanned \in NodeRecs /\ Behind(NoScan) = {}
  /\ \A r \in NodeRecs : \/ r = Unscanned
                         \/ r.hash \in Contents /\ r.status \in Statuses
  /\ Unscanned.hash = NoFile /\ Unscanned.status = "none" /\ NoFile \notin Contents
<1>1. Unscanned \in NodeRecs /\ Unscanned.hash = NoFile /\ Unscanned.status = "none"
  BY DEF NodeRecs, Unscanned
<1>2. \A r \in NodeRecs : \/ r = Unscanned
                          \/ r.hash \in Contents /\ r.status \in Statuses
  BY DEF NodeRecs
<1>3. NoFile \notin Contents
  BY DecisionsAssumption DEF DecisionsAssumption, Contents
<1>4. NoScan.existing \in [Paths -> NodeRecs]
  BY <1>1 DEF NoScan
<1>5. NoScan \in Scans
  <2>1. [p \in Paths |-> Unscanned] \in [Paths -> NodeRecs]
    BY <1>1
  <2> HIDE DEF NodeRecs, Unscanned
  <2> QED
    BY <2>1 DEF NoScan, Scans
<1>6. NoScan.pc = "idle" /\ NoScan.at = 0 /\ NoScan.batch = << >>
  BY DEF NoScan
<1>7. Behind(NoScan) = {}
  BY <1>6 DEF Behind
<1> QED
  BY <1>1, <1>2, <1>3, <1>4, <1>5, <1>6, <1>7

\* A scan that is not running claims nothing.
LEMMA NotRunning ==
  ASSUME scan.pc \in {"idle", "collect"}, scan.pc = "collect" => AtStart(scan),
         scan.quiet /\ scan.pc = "collect" => scan.head = Len(commits),
         ScanTypes, ~incomplete => VersionsFollow(NoScan, nodes, entities)
  PROVE  ScanInv
<1>1. Behind(scan) = {}
  BY DEF Behind
<1>2. ~incomplete => VersionsFollow(scan, nodes, entities)
  BY <1>1, NoScanIs DEF VersionsFollow
<1>3. ScanPlace
  BY <1>2 DEF ScanPlace, WhileReading
<1>4. ScanRight
  BY DEF ScanRight, WhileReading, Harvesting
<1> QED
  BY <1>3, <1>4 DEF ScanInv

LEMMA ScanInitHolds == ScanInit => ScanInv
<1> SUFFICES ASSUME ScanInit PROVE ScanInv
  OBVIOUS
<1>1. files \in Trees
  BY ScannerAssumption DEF ScanInit, ScannerAssumption, Trees
<1>2. commits \in Seq(CommitRecs) /\ Len(commits) = 1
  <2>1. [renames |-> {}, marked |-> FALSE] \in CommitRecs
    BY DEF CommitRecs
  <2> DEFINE c == [renames |-> {}, marked |-> FALSE]
  <2> HIDE DEF c, CommitRecs
  <2>2. commits = <<c>> /\ c \in CommitRecs
    BY <2>1 DEF ScanInit, c
  <2> QED
    BY <2>2
<1>3. scan = NoScan /\ incomplete \in BOOLEAN /\ (NeverScanned \/ Scanned)
  BY DEF ScanInit
<1>4. CASE NeverScanned
  <2>1. nodes \in [Paths -> NodeRecs] /\ \A p \in Paths : nodes[p].status = "none"
    BY <1>4, NoScanIs DEF NeverScanned
  <2>2. entities \in [Paths -> Seq(Contents)] /\ lastCommit \in Nat
    BY <1>4 DEF NeverScanned
  <2>3. LogIs(log)
    BY <1>4 DEF NeverScanned, NothingDecided, LogIs
  <2>4. ScanTypes
    BY <1>1, <1>2, <1>3, <2>1, <2>2, <2>3, NoScanIs DEF ScanTypes
  <2>5. VersionsFollow(NoScan, nodes, entities)
    BY <2>1 DEF VersionsFollow
  <2> QED
    BY <1>3, <2>4, <2>5, NotRunning, NoScanIs
<1>5. CASE Scanned
  <2> DEFINE there == {p \in Paths \ Skipped : files[p] # NoFile}
  <2>1. /\ nodes = [p \in Paths |-> IF p \in there THEN [hash |-> files[p], status |-> "active"] ELSE Unscanned]
        /\ entities = [p \in Paths |-> IF p \in there THEN <<files[p]>> ELSE << >>]
        /\ lastCommit = 1
        /\ log = WriteAll(NothingDecided, ADRWrites(files) \o AnnotationWrites(files) \o
                                          DocWrites(files, there) \o CommitWrites(commits))
    BY <1>5 DEF Scanned
  <2>2. \A p \in there : files[p] \in Contents
    BY <1>1 DEF Trees
  <2> HIDE DEF there
  <2>3. \A p \in there : [hash |-> files[p], status |-> "active"] \in NodeRecs
    BY <2>2 DEF NodeRecs, Statuses
  <2>4. nodes \in [Paths -> NodeRecs]
    BY <2>1, <2>3, NoScanIs
  <2>5. entities \in [Paths -> Seq(Contents)]
    BY <2>1, <2>2
  <2>6. \A p \in Paths : nodes[p].status # "none" => NewestIs(entities, p, nodes[p].hash)
    <3> TAKE p \in Paths
    <3>1. CASE p \in there
      <4>1. nodes[p].hash = files[p] /\ entities[p] = <<files[p]>>
        BY <2>1, <3>1
      <4>2. Last(<<files[p]>>) = files[p] /\ <<files[p]>> # << >>
        BY DEF Last
      <4> QED
        BY <4>1, <4>2 DEF NewestIs
    <3>2. CASE p \notin there
      BY <2>1, <3>2, NoScanIs
    <3> QED
      BY <3>1, <3>2
  <2>7. LogIs(log)
    <3> DEFINE A == ADRWrites(files)
               B == AnnotationWrites(files)
               C == DocWrites(files, there)
               D == CommitWrites(commits)
    <3>1. Listed(A) /\ Listed(B) /\ Listed(C) /\ Listed(D)
      BY <1>1, <1>2, ADRsAreWhole, AnnotationsAreWhole, DocsAreWhole, CommitsAreWhole DEF Whole
    <3> HIDE DEF A, B, C, D
    <3>2. Listed(A \o B)
      BY <3>1, Concats
    <3>3. Listed(A \o B \o C)
      BY <3>1, <3>2, Concats
    <3>4. Listed(A \o B \o C \o D)
      BY <3>1, <3>3, Concats
    <3>5. LogIs(NothingDecided)
      BY DEF NothingDecided, LogIs
    <3>6. log = WriteAll(NothingDecided, A \o B \o C \o D)
      BY <2>1 DEF A, B, C, D
    <3> QED
      BY <3>4, <3>5, <3>6, WriteAllKeeps
  <2>8. ScanTypes
    BY <1>1, <1>2, <1>3, <2>1, <2>4, <2>5, <2>7, NoScanIs DEF ScanTypes
  <2>9. VersionsFollow(NoScan, nodes, entities)
    BY <2>6 DEF VersionsFollow
  <2> QED
    BY <1>3, <2>8, <2>9, NotRunning, NoScanIs
<1> QED
  BY <1>3, <1>4, <1>5

-----------------------------------------------------------------------------
(* The repository changes                                                  *)

SameScan(s, t) ==
  /\ s.pc = t.pc /\ s.full = t.full /\ s.deep = t.deep /\ s.seen = t.seen /\ s.todo = t.todo
  /\ s.existing = t.existing /\ s.batch = t.batch /\ s.at = t.at /\ s.gone = t.gone

LEMMA DisturbedStays ==
  ASSUME ScanInv, Changed, files' \in Trees, commits' \in Seq(CommitRecs), UNCHANGED <<kbVars, incomplete>>
  PROVE  ScanInv'
<1>1. scan' \in Scans /\ scan'.quiet = FALSE /\ SameScan(scan', scan)
  BY DEF Changed, ScanInv, ScanTypes, Scans, SameScan
<1>2. UNCHANGED <<nodes, lastCommit, entities, imports, log, incomplete>>
  BY DEF kbVars
<1>3. ScanTypes'
  BY <1>1, <1>2 DEF ScanInv, ScanTypes
<1>4. Behind(scan') = Behind(scan)
  BY <1>1 DEF Behind, SameScan
<1>5. HasRead(scan', nodes) <=> HasRead(scan, nodes)
  BY <1>1 DEF HasRead, SameScan
<1>6. WritesBatch(scan', nodes, entities) <=> WritesBatch(scan, nodes, entities)
  BY <1>1 DEF WritesBatch, SameScan
<1>7. ScanPlace'
  BY <1>1, <1>2, <1>4, <1>5, <1>6 DEF ScanInv, ScanPlace, SameScan, VersionsFollow, AtStart
<1> QED
  BY <1>1, <1>3, <1>7 DEF ScanInv, ScanRight

LEMMA RepositoryChanges ==
  ASSUME ScanInv,
         \/ \E e \in Edits : Edit(e[1], e[2])
         \/ \E r \in Renames : CommitRename(r[1], r[2])
         \/ CommitDecision
  PROVE  ScanInv'
<1>1. files \in Trees /\ commits \in Seq(CommitRecs)
  BY DEF ScanInv, ScanTypes
<1>2. \A cs \in Seq(CommitRecs), c \in CommitRecs : Append(cs, c) \in Seq(CommitRecs)
  OBVIOUS
<1>3. CASE \E e \in Edits : Edit(e[1], e[2])
  <2>1. PICK e \in Edits : Edit(e[1], e[2])
    BY <1>3
  <2>2. e[1] \in Paths /\ e[2] \in Contents \cup {NoFile}
    BY ScannerAssumption DEF ScannerAssumption
  <2>3. files' \in Trees /\ commits' = commits /\ Changed /\ UNCHANGED <<kbVars, incomplete>>
    BY <1>1, <2>1, <2>2 DEF Edit, Trees
  <2> QED
    BY <1>1, <2>3, DisturbedStays
<1>4. CASE \E r \in Renames : CommitRename(r[1], r[2])
  <2>1. PICK r \in Renames : CommitRename(r[1], r[2])
    BY <1>4
  <2>2. r[1] \in Paths /\ r[2] \in Paths
    BY ScannerAssumption DEF ScannerAssumption
  <2>3. files' \in Trees /\ Changed /\ UNCHANGED <<kbVars, incomplete>>
    BY <1>1, <2>1, <2>2 DEF CommitRename, Trees
  <2>4. [renames |-> {<<r[1], r[2]>>}, marked |-> FALSE] \in CommitRecs
    BY <2>2 DEF CommitRecs
  <2>5. commits' \in Seq(CommitRecs)
    BY <1>1, <1>2, <2>1, <2>4 DEF CommitRename
  <2> QED
    BY <2>3, <2>5, DisturbedStays
<1>5. CASE CommitDecision
  <2>1. [renames |-> {}, marked |-> TRUE] \in CommitRecs
    BY DEF CommitRecs
  <2>2. commits' \in Seq(CommitRecs) /\ files' = files /\ Changed /\ UNCHANGED <<kbVars, incomplete>>
    BY <1>1, <1>2, <1>5, <2>1 DEF CommitDecision
  <2> QED
    BY <1>1, <2>2, DisturbedStays
<1> QED
  BY <1>3, <1>4, <1>5

-----------------------------------------------------------------------------
(* A scan reads                                                            *)

LEMMA NotRunningNext ==
  ASSUME ScanTypes', scan'.pc \in {"idle", "collect"}, scan'.pc = "collect" => AtStart(scan'),
         scan'.quiet /\ scan'.pc = "collect" => scan'.head = Len(commits'),
         ~incomplete' => VersionsFollow(NoScan, nodes', entities')
  PROVE  ScanInv'
<1>1. Behind(scan') = {}
  BY DEF Behind
<1>2. ~incomplete' => VersionsFollow(scan', nodes', entities')
  BY <1>1, NoScanIs DEF VersionsFollow
<1>3. ScanPlace'
  BY <1>2 DEF ScanPlace, WhileReading
<1>4. ScanRight'
  BY DEF ScanRight, WhileReading, Harvesting
<1> QED
  BY <1>3, <1>4 DEF ScanInv

\* A scan begins or ends where no version is behind its node.
LEMMA BeginsOrEnds ==
  ASSUME ScanInv, scan.pc # "entities", UNCHANGED <<repoVars, kbVars, incomplete>>,
         \/ scan' = NoScan
         \/ \E full, deep \in BOOLEAN : Begin(full, deep)
         \/ scan' = scan /\ scan.pc = "idle"
  PROVE  ScanInv'
<1>1. UNCHANGED <<files, commits, nodes, lastCommit, entities, imports, log, incomplete>>
  BY DEF repoVars, kbVars
<1>2. Behind(scan) = {}
  BY DEF Behind
<1>3. ~incomplete => VersionsFollow(NoScan, nodes, entities)
  BY <1>2, NoScanIs DEF ScanInv, ScanPlace, VersionsFollow
<1>4. Len(commits) \in Nat
  BY DEF ScanInv, ScanTypes
<1>5. /\ scan' \in Scans /\ scan'.pc \in {"idle", "collect"}
      /\ scan'.pc = "collect" => AtStart(scan') /\ scan'.head = Len(commits)
  <2>1. CASE scan' = NoScan
    BY <2>1, NoScanIs
  <2>2. CASE \E full, deep \in BOOLEAN : Begin(full, deep)
    <3>1. PICK full \in BOOLEAN, deep \in BOOLEAN : Begin(full, deep)
      BY <2>2
    <3>2. scan' = [NoScan EXCEPT !.pc = "collect", !.full = full, !.deep = deep, !.head = Len(commits)]
      BY <3>1, Zenon DEF Begin
    <3> QED
      BY <1>4, <3>2, NoScanIs DEF Scans, AtStart
  <2>3. CASE scan' = scan /\ scan.pc = "idle"
    BY <2>3 DEF ScanInv, ScanTypes
  <2> QED
    BY <2>1, <2>2, <2>3
<1>6. ScanTypes'
  BY <1>1, <1>5 DEF ScanInv, ScanTypes
<1> QED
  BY <1>1, <1>3, <1>5, <1>6, NotRunningNext

LEMMA ScanStarts ==
  ASSUME ScanInv,
         (\E full, deep \in BOOLEAN : StartScan(full, deep)) \/ TriggerScan \/ GiveUp \/ FinishScan
  PROVE  ScanInv'
<1>1. CASE \E full, deep \in BOOLEAN : StartScan(full, deep)
  <2>1. PICK full \in BOOLEAN, deep \in BOOLEAN : StartScan(full, deep)
    BY <1>1
  <2> QED
    BY <2>1, BeginsOrEnds DEF StartScan
<1>2. CASE TriggerScan
  <2>1. UNCHANGED <<repoVars, kbVars, incomplete>>
    BY <1>2 DEF TriggerScan
  <2>2. CASE scan.pc = "idle"
    BY <1>2, <2>1, <2>2, BeginsOrEnds DEF TriggerScan
  <2>3. CASE scan.pc # "idle"
    <3>1. scan' = scan
      BY <1>2, <2>3 DEF TriggerScan
    <3> QED
      BY <2>1, <3>1 DEF repoVars, kbVars, ScanInv, ScanTypes, ScanPlace, ScanRight
  <2> QED
    BY <2>2, <2>3
<1>3. CASE GiveUp
  BY <1>3, BeginsOrEnds DEF GiveUp
<1>4. CASE FinishScan
  BY <1>4, BeginsOrEnds DEF FinishScan
<1> QED
  BY <1>1, <1>2, <1>3, <1>4

LEMMA FilesCollected == ASSUME ScanInv, CollectFiles PROVE ScanInv'
<1> DEFINE present == {p \in Paths \ Skipped : files[p] # NoFile}
           s == scan
           t == scan'
<1>1. UNCHANGED <<files, commits, nodes, lastCommit, entities, imports, log, incomplete>>
  BY DEF CollectFiles, repoVars, kbVars
<1>2. s.pc = "collect" /\ s \in Scans /\ nodes \in [Paths -> NodeRecs]
  BY DEF CollectFiles, ScanInv, ScanTypes
<1>3. t = [s EXCEPT !.pc = "hash", !.seen = present, !.todo = present,
                    !.existing = IF s.full THEN s.existing ELSE nodes,
                    !.gone = IF s.full THEN {} ELSE {p \in present : nodes[p].status = "deleted"}]
  BY DEF CollectFiles
<1> HIDE DEF present
<1>4. present \subseteq Paths /\ \A p \in present : files[p] # NoFile
  BY DEF present
<1>5. /\ t \in Scans /\ t.pc = "hash" /\ t.full = s.full /\ t.seen = present /\ t.todo = present
      /\ t.existing = (IF s.full THEN s.existing ELSE nodes)
      /\ t.gone = (IF s.full THEN {} ELSE {p \in present : nodes[p].status = "deleted"})
      /\ t.at = s.at /\ t.batch = s.batch /\ t.quiet = s.quiet /\ t.head = s.head
  <2> DEFINE e == IF s.full THEN s.existing ELSE nodes
             g == IF s.full THEN {} ELSE {p \in present : nodes[p].status = "deleted"}
  <2>1. e \in [Paths -> NodeRecs] /\ g \in SUBSET Paths
    BY <1>2, <1>4 DEF Scans
  <2>2. t = [s EXCEPT !.pc = "hash", !.seen = present, !.todo = present, !.existing = e, !.gone = g]
    BY <1>3
  <2> HIDE DEF e, g
  <2>3. /\ t \in Scans /\ t.pc = "hash" /\ t.full = s.full /\ t.seen = present /\ t.todo = present
        /\ t.existing = e /\ t.gone = g
        /\ t.at = s.at /\ t.batch = s.batch /\ t.quiet = s.quiet /\ t.head = s.head
    BY <1>2, <1>4, <2>1, <2>2 DEF Scans, WhileReading
  <2> QED
    BY <2>3 DEF e, g
<1>6. s.at = 0 /\ s.batch = << >> /\ s.existing = NoScan.existing
  BY <1>2 DEF ScanInv, ScanPlace, AtStart
<1>7. ScanTypes'
  BY <1>1, <1>5 DEF ScanInv, ScanTypes
<1>8. HasRead(t, nodes)
  BY <1>5, <1>6 DEF HasRead, EachOnce
<1>9. ReadRight(t, nodes, files)
  BY <1>4, <1>5, <1>6 DEF ReadRight
<1>10. Behind(t) = {} /\ Behind(s) = {}
  BY <1>2, <1>5 DEF Behind
<1>11. ~incomplete => VersionsFollow(t, nodes, entities)
  BY <1>10 DEF ScanInv, ScanPlace, VersionsFollow
<1>12. ScanPlace'
  BY <1>1, <1>5, <1>8, <1>11 DEF ScanPlace, WhileReading
<1>13. s.quiet => s.head = Len(commits)
  BY <1>2 DEF ScanInv, ScanRight
<1>14. ScanRight'
  BY <1>1, <1>5, <1>9, <1>13 DEF ScanRight, WhileReading, Harvesting
<1> QED
  BY <1>7, <1>12, <1>14 DEF ScanInv

\* A scan that goes on reading.
LEMMA ReadsOn ==
  ASSUME ScanInv, scan.pc \in WhileReading, scan' \in Scans, scan'.pc \in WhileReading,
         UNCHANGED <<repoVars, kbVars, incomplete>>,
         scan'.quiet = scan.quiet, scan'.head = scan.head, HasRead(scan', nodes),
         scan.quiet => ReadRight(scan', nodes, files)
  PROVE  ScanInv'
<1>1. UNCHANGED <<files, commits, nodes, lastCommit, entities, imports, log, incomplete>>
  BY DEF repoVars, kbVars
<1>2. ScanTypes'
  BY <1>1 DEF ScanInv, ScanTypes
<1>3. Behind(scan') = {} /\ Behind(scan) = {}
  BY DEF Behind, WhileReading
<1>4. ~incomplete => VersionsFollow(scan', nodes, entities)
  BY <1>3 DEF ScanInv, ScanPlace, VersionsFollow
<1>5. ScanPlace'
  BY <1>1, <1>4 DEF ScanPlace, WhileReading
<1>6. scan.quiet => scan.head = Len(commits)
  BY DEF ScanInv, ScanRight
<1>7. ScanRight'
  BY <1>1, <1>6 DEF ScanRight, WhileReading, Harvesting
<1> QED
  BY <1>2, <1>5, <1>7 DEF ScanInv

LEMMA FileHashed == ASSUME ScanInv, NEW p \in Paths, HashFile(p) PROVE ScanInv'
<1> DEFINE s == scan
           t == scan'
           found == Node(p, files[p], "active")
<1>1. UNCHANGED <<repoVars, kbVars, incomplete>>
  BY DEF HashFile
<1>2. s.pc = "hash" /\ s \in Scans /\ nodes \in [Paths -> NodeRecs] /\ p \in s.todo /\ files[p] \in Contents \cup {NoFile}
  BY DEF HashFile, isNext, ScanInv, ScanTypes, Trees
<1>3. HasRead(s, nodes) /\ (s.quiet => ReadRight(s, nodes, files)) /\ p \in s.seen
  BY <1>2 DEF ScanInv, ScanPlace, ScanRight, WhileReading, HasRead
<1>4. s.batch \in Seq(FileNode)
  BY <1>2 DEF Scans
<1>5. CASE files[p] = NoFile \/ unchanged(p)
  <2>1. t = [s EXCEPT !.todo = @ \ {p}]
    BY <1>5 DEF HashFile
  <2>2. /\ t \in Scans /\ t.pc = "hash" /\ t.todo = s.todo \ {p} /\ t.seen = s.seen /\ t.batch = s.batch /\ t.at = s.at
        /\ t.full = s.full /\ t.deep = s.deep /\ t.existing = s.existing /\ t.gone = s.gone
        /\ t.quiet = s.quiet /\ t.head = s.head
    BY <1>2, <2>1 DEF Scans
  <2>3. HasRead(t, nodes)
    BY <1>3, <2>2 DEF HasRead
  <2>4. ASSUME s.quiet PROVE ReadRight(t, nodes, files)
    <3>1. ReadRight(s, nodes, files)
      BY <1>3, <2>4
    <3>2. ~s.full /\ nodes[p].hash = files[p]
      BY <1>3, <1>5, <3>1 DEF unchanged, HasRead, ReadRight
    <3>3. \A q \in t.seen \ t.todo : q \in PathsOf(t.batch) \/ (~t.full /\ nodes[q].hash = files[q])
      BY <2>2, <3>1, <3>2 DEF ReadRight
    <3> QED
      BY <1>2, <2>2, <3>1, <3>3 DEF ReadRight
  <2> QED
    BY <1>1, <1>2, <2>2, <2>3, <2>4, ReadsOn DEF WhileReading
<1>6. CASE ~(files[p] = NoFile \/ unchanged(p))
  <2> DEFINE pc == IF s.deep THEN "parse" ELSE "hash"
             b == Append(s.batch, found)
             n == Len(s.batch)
  <2>1. t = [s EXCEPT !.todo = @ \ {p}, !.batch = b, !.pc = pc]
    BY <1>6 DEF HashFile
  <2>2. found \in FileNode /\ found.path = p /\ found.hash = files[p] /\ found.status = "active"
    BY <1>2, <1>6 DEF Node, FileNode, ImportSets, Statuses
  <2> HIDE DEF found
  <2>3. /\ b \in Seq(FileNode) /\ n \in Nat /\ Len(b) = n + 1 /\ DOMAIN b = 1..(n + 1) /\ DOMAIN s.batch = 1..n
        /\ b[n + 1] = found /\ b # << >> /\ \A i \in 1..n : b[i] = s.batch[i]
    BY <1>4, <2>2
  <2>4. pc \in WhileReading /\ (pc = "parse" => s.deep) /\ (s.deep => pc # "hash")
    BY DEF WhileReading
  <2> HIDE DEF b, n, pc
  <2>5. /\ t \in Scans /\ t.pc = pc /\ t.todo = s.todo \ {p} /\ t.seen = s.seen /\ t.batch = b /\ t.at = s.at
        /\ t.full = s.full /\ t.deep = s.deep /\ t.existing = s.existing /\ t.gone = s.gone
        /\ t.quiet = s.quiet /\ t.head = s.head
    BY <1>2, <2>1, <2>3, <2>4 DEF Scans
  <2>6. \A i \in 1..n : b[i].path \in s.seen \ s.todo /\ b[i].status = "active" /\ b[i].path # p
    BY <1>2, <1>3, <2>3 DEF HasRead
  <2>7. \A i \in DOMAIN b : b[i].path \in t.seen \ t.todo /\ b[i].status = "active"
    BY <1>3, <2>2, <2>3, <2>5, <2>6
  <2>8. EachOnce(b)
    <3> SUFFICES ASSUME NEW i \in DOMAIN b, NEW j \in DOMAIN b, b[i].path = b[j].path PROVE i = j
      BY DEF EachOnce
    <3>1. CASE i \in 1..n /\ j \in 1..n
      BY <1>3, <2>3, <3>1 DEF HasRead, EachOnce
    <3>2. CASE i \notin 1..n
      <4>1. i = n + 1
        BY <2>3, <3>2
      <4> QED
        BY <2>2, <2>3, <2>6, <4>1
    <3>3. CASE j \notin 1..n
      <4>1. j = n + 1
        BY <2>3, <3>3
      <4> QED
        BY <2>2, <2>3, <2>6, <4>1
    <3> QED
      BY <3>1, <3>2, <3>3
  <2>9. HasRead(t, nodes)
    BY <1>3, <2>3, <2>4, <2>5, <2>7, <2>8 DEF HasRead
  <2>10. ASSUME s.quiet PROVE ReadRight(t, nodes, files)
    <3>1. ReadRight(s, nodes, files)
      BY <1>3, <2>10
    <3>2. \A i \in DOMAIN b : b[i].hash = files[b[i].path]
      BY <2>2, <2>3, <3>1 DEF ReadRight
    <3>3. ASSUME NEW i \in DOMAIN b, t.deep, t.pc = "hash" \/ i < Len(b) PROVE b[i].imports = ImportsOf[files[b[i].path]]
      <4>1. i \in 1..n
        BY <2>3, <2>4, <2>5, <3>3
      <4> QED
        BY <1>2, <2>3, <2>5, <3>1, <3>3, <4>1 DEF ReadRight
    <3>4. \A q \in s.seen \ s.todo : q \in PathsOf(b) \/ (~s.full /\ nodes[q].hash = files[q])
      <4>1. PathsOf(s.batch) \subseteq PathsOf(b)
        BY <2>3 DEF PathsOf
      <4> QED
        BY <3>1, <4>1 DEF ReadRight
    <3>5. p \in PathsOf(b)
      BY <2>2, <2>3 DEF PathsOf
    <3> QED
      BY <2>5, <3>1, <3>2, <3>3, <3>4, <3>5 DEF ReadRight
  <2> QED
    BY <1>1, <1>2, <2>4, <2>5, <2>9, <2>10, ReadsOn DEF WhileReading
<1> QED
  BY <1>5, <1>6

LEMMA FileParsed == ASSUME ScanInv, ParseFile PROVE ScanInv'
<1> DEFINE s == scan
           t == scan'
           n == Len(s.batch)
           p == Last(s.batch).path
           X == IF files[p] = NoFile THEN {} ELSE ImportsOf[files[p]]
           found == [s.batch[n] EXCEPT !.imports = X]
           b == [s.batch EXCEPT ![n] = found]
<1>1. UNCHANGED <<repoVars, kbVars, incomplete>>
  BY DEF ParseFile
<1>2. s.pc = "parse" /\ s \in Scans /\ nodes \in [Paths -> NodeRecs] /\ files \in Trees
  BY DEF ParseFile, ScanInv, ScanTypes
<1>3. HasRead(s, nodes) /\ (s.quiet => ReadRight(s, nodes, files))
  BY <1>2 DEF ScanInv, ScanPlace, ScanRight, WhileReading
<1>4. s.batch \in Seq(FileNode) /\ s.batch # << >>
  BY <1>2, <1>3 DEF Scans, HasRead
<1>5. t = [s EXCEPT !.pc = "hash", !.batch = b]
  BY DEF ParseFile
<1>6. /\ n \in Nat \ {0} /\ n \in 1..n /\ DOMAIN s.batch = 1..n /\ s.batch[n] \in FileNode /\ p = s.batch[n].path
      /\ \A i \in 1..n : s.batch[i] \in FileNode
  BY <1>4 DEF Last
<1> HIDE DEF n, p
<1>7. p \in Paths /\ files[p] \in Contents \cup {NoFile}
  BY <1>2, <1>6, FileNodesAre DEF Trees
<1>8. X \in ImportSets
  BY <1>7 DEF ImportSets
<1> HIDE DEF X
<1>9. found \in FileNode /\ found.path = p /\ found.hash = s.batch[n].hash /\ found.status = s.batch[n].status /\ found.imports = X
  BY <1>6, <1>8 DEF FileNode
<1> HIDE DEF found
<1>10. /\ b \in Seq(FileNode) /\ Len(b) = n /\ DOMAIN b = 1..n /\ b # << >> /\ b[n] = found
       /\ \A i \in 1..n : i # n => b[i] = s.batch[i]
  BY <1>4, <1>6, <1>9 DEF n
<1> HIDE DEF b
<1>11. /\ t \in Scans /\ t.pc = "hash" /\ t.todo = s.todo /\ t.seen = s.seen /\ t.batch = b /\ t.at = s.at
       /\ t.full = s.full /\ t.deep = s.deep /\ t.existing = s.existing /\ t.gone = s.gone
       /\ t.quiet = s.quiet /\ t.head = s.head
  BY <1>2, <1>5, <1>10 DEF Scans, WhileReading
<1>12. \A i \in 1..n : b[i].path = s.batch[i].path /\ b[i].hash = s.batch[i].hash /\ b[i].status = s.batch[i].status
  BY <1>6, <1>9, <1>10
<1>13. HasRead(t, nodes)
  BY <1>3, <1>6, <1>10, <1>11, <1>12 DEF HasRead, EachOnce
<1>14. ASSUME s.quiet PROVE ReadRight(t, nodes, files)
  <2>1. ReadRight(s, nodes, files)
    BY <1>3, <1>14
  <2>2. PathsOf(b) = PathsOf(s.batch)
    BY <1>6, <1>10, <1>12 DEF PathsOf
  <2>3. X = ImportsOf[files[p]]
    <3>1. p \in s.seen
      BY <1>3, <1>6 DEF HasRead
    <3>2. files[p] # NoFile
      BY <2>1, <3>1 DEF ReadRight
    <3> QED
      BY <3>2 DEF X
  <2>4. ASSUME NEW i \in 1..n, t.deep PROVE b[i].imports = ImportsOf[files[b[i].path]]
    <3>1. CASE i = n
      BY <1>9, <1>10, <2>3, <3>1
    <3>2. CASE i # n
      <4>1. i < n
        BY <1>6, <3>2
      <4> QED
        BY <1>6, <1>10, <1>11, <2>1, <2>4, <3>2, <4>1 DEF ReadRight, n
    <3> QED
      BY <3>1, <3>2
  <2> QED
    BY <1>6, <1>10, <1>11, <1>12, <2>1, <2>2, <2>4 DEF ReadRight
<1> QED
  BY <1>1, <1>2, <1>11, <1>13, <1>14, ReadsOn DEF WhileReading

-----------------------------------------------------------------------------
(* A scan writes its nodes and their versions                              *)

LEMMA EndingsAre ==
  ASSUME NEW n \in Nat, NEW end \in Endings(n)
  PROVE  end.k \in 0..n /\ end.done \in BOOLEAN /\ (end.done => end.k = n)
<1>1. CASE \E k \in 0..n : end = [k |-> k, done |-> FALSE]
  BY <1>1
<1>2. CASE end = [k |-> n, done |-> TRUE]
  BY <1>2
<1> QED
  BY <1>1, <1>2 DEF Endings

\* What a scan that has read everything finds, and the nodes it marks deleted.
LEMMA BatchIs ==
  ASSUME NEW s \in Scans, NEW ns \in [Paths -> NodeRecs], HasRead(s, ns), s.pc \in WhileReading
  PROVE  LET batch == s.batch \o markDeleted(s)
         IN /\ batch \in Seq(FileNode) /\ EachOnce(batch)
            /\ \A i \in DOMAIN batch :
                 \/ i \in DOMAIN s.batch /\ batch[i] = s.batch[i]
                 \/ batch[i].path \notin s.seen /\ batch[i].status = "deleted" /\ batch[i].hash = s.existing[batch[i].path].hash
            /\ \A i \in DOMAIN s.batch : i \in DOMAIN batch /\ batch[i] = s.batch[i]
            /\ \A p \in Paths \ s.seen : s.existing[p].status = "active" => p \in PathsOf(batch)
<1> DEFINE d == markDeleted(s)
           batch == s.batch \o d
           n == Len(s.batch)
<1>1. s.batch \in Seq(FileNode) /\ s.existing \in [Paths -> NodeRecs]
  BY DEF Scans
<1>2. /\ d \in Seq(FileNode) /\ EachOnce(d)
      /\ \A i \in DOMAIN d :
           d[i].path \in Paths \ s.seen /\ d[i].status = "deleted" /\
           s.existing[d[i].path].status = "active" /\ d[i].hash = s.existing[d[i].path].hash
      /\ \A p \in Paths \ s.seen : s.existing[p].status = "active" => \E i \in DOMAIN d : d[i].path = p
  BY <1>1, DeletedAre
<1> HIDE DEF d
<1>3. /\ batch \in Seq(FileNode) /\ n \in Nat /\ Len(d) \in Nat
      /\ DOMAIN s.batch = 1..n /\ DOMAIN d = 1..Len(d) /\ DOMAIN batch = 1..(n + Len(d))
      /\ \A i \in 1..n : batch[i] = s.batch[i]
      /\ \A i \in 1..Len(d) : batch[n + i] = d[i]
  BY <1>1, <1>2
<1>4. \A i \in 1..(n + Len(d)) : i \in 1..n \/ \E j \in 1..Len(d) : i = n + j
  <2> TAKE i \in 1..(n + Len(d))
  <2>1. CASE i \notin 1..n
    <3>1. i - n \in 1..Len(d) /\ i = n + (i - n)
      BY <1>3, <2>1
    <3> QED
      BY <3>1
  <2> QED
    BY <2>1
<1> HIDE DEF batch, n
<1>5. \A i \in DOMAIN batch :
         \/ i \in DOMAIN s.batch /\ batch[i] = s.batch[i]
         \/ batch[i].path \notin s.seen /\ batch[i].status = "deleted" /\ batch[i].hash = s.existing[batch[i].path].hash
  <2> TAKE i \in DOMAIN batch
  <2>1. CASE i \in 1..n
    BY <1>3, <2>1
  <2>2. CASE \E j \in 1..Len(d) : i = n + j
    <3>1. PICK j \in 1..Len(d) : i = n + j
      BY <2>2
    <3>2. batch[i] = d[j] /\ j \in DOMAIN d
      BY <1>3, <3>1
    <3>3. d[j].path \in Paths \ s.seen /\ d[j].status = "deleted" /\ d[j].hash = s.existing[d[j].path].hash
      BY <1>2, <3>2
    <3> QED
      BY <3>2, <3>3
  <2> QED
    BY <1>3, <1>4, <2>1, <2>2
<1>6. \A i \in DOMAIN s.batch : i \in DOMAIN batch /\ batch[i] = s.batch[i] /\ batch[i].path \in s.seen
  BY <1>3 DEF HasRead
<1>7. EachOnce(batch)
  <2> SUFFICES ASSUME NEW i \in DOMAIN batch, NEW j \in DOMAIN batch, batch[i].path = batch[j].path PROVE i = j
    BY DEF EachOnce
  <2>1. CASE i \in 1..n /\ j \in 1..n
    BY <1>3, <2>1 DEF HasRead, EachOnce
  <2>2. CASE i \in 1..n /\ j \notin 1..n
    <3>1. PICK l \in 1..Len(d) : j = n + l
      BY <1>3, <1>4, <2>2
    <3>2. batch[j] = d[l] /\ l \in DOMAIN d
      BY <1>3, <3>1
    <3>3. batch[j].path \notin s.seen
      BY <1>2, <3>2
    <3>4. batch[i].path \in s.seen
      BY <1>3, <1>6, <2>2
    <3> QED
      BY <3>3, <3>4
  <2>3. CASE i \notin 1..n /\ j \in 1..n
    <3>1. PICK l \in 1..Len(d) : i = n + l
      BY <1>3, <1>4, <2>3
    <3>2. batch[i] = d[l] /\ l \in DOMAIN d
      BY <1>3, <3>1
    <3>3. batch[i].path \notin s.seen
      BY <1>2, <3>2
    <3>4. batch[j].path \in s.seen
      BY <1>3, <1>6, <2>3
    <3> QED
      BY <3>3, <3>4
  <2>4. CASE i \notin 1..n /\ j \notin 1..n
    <3>1. PICK k \in 1..Len(d) : i = n + k
      BY <1>3, <1>4, <2>4
    <3>2. PICK l \in 1..Len(d) : j = n + l
      BY <1>3, <1>4, <2>4
    <3>3. d[k].path = d[l].path
      BY <1>3, <3>1, <3>2
    <3>4. k = l
      BY <1>2, <1>3, <3>3 DEF EachOnce
    <3> QED
      BY <3>1, <3>2, <3>4
  <2> QED
    BY <2>1, <2>2, <2>3, <2>4
<1>8. \A p \in Paths \ s.seen : s.existing[p].status = "active" => p \in PathsOf(batch)
  <2> TAKE p \in Paths \ s.seen
  <2> HAVE s.existing[p].status = "active"
  <2>1. PICK i \in 1..Len(d) : d[i].path = p
    BY <1>2, <1>3
  <2>2. n + i \in DOMAIN batch /\ batch[n + i].path = p
    BY <1>3, <2>1
  <2> QED
    BY <2>2 DEF PathsOf
<1> QED
  BY <1>3, <1>5, <1>6, <1>7, <1>8 DEF batch, d

LEMMA NodesWritten == ASSUME ScanInv, PersistAll PROVE ScanInv'
<1> DEFINE s == scan
           t == scan'
           batch == s.batch \o markDeleted(s)
           n == Len(batch)
<1>1. UNCHANGED <<files, commits, entities, imports, log>>
  BY DEF PersistAll, repoVars
<1>2. /\ s.pc = "hash" /\ s.todo = {} /\ s \in Scans /\ nodes \in [Paths -> NodeRecs] /\ files \in Trees
      /\ lastCommit \in Nat /\ s.head \in Nat /\ s.existing \in [Paths -> NodeRecs]
  BY DEF PersistAll, ScanInv, ScanTypes, Scans
<1>3. HasRead(s, nodes) /\ (s.quiet => ReadRight(s, nodes, files) /\ s.head = Len(commits))
  BY <1>2 DEF ScanInv, ScanPlace, ScanRight, WhileReading
<1>4. PICK end \in Endings(n) :
        /\ nodes' = WriteNodes(nodes, SubSeq(batch, 1, end.k))
        /\ lastCommit' = IF end.done THEN s.head ELSE lastCommit
        /\ IF end.done
           THEN /\ t = [s EXCEPT !.pc = "entities", !.batch = batch, !.existing = NoScan.existing]
                /\ UNCHANGED incomplete
           ELSE Fails
  BY DEF PersistAll
<1>5. /\ batch \in Seq(FileNode) /\ EachOnce(batch)
      /\ \A i \in DOMAIN batch :
           \/ i \in DOMAIN s.batch /\ batch[i] = s.batch[i]
           \/ batch[i].path \notin s.seen /\ batch[i].status = "deleted" /\ batch[i].hash = s.existing[batch[i].path].hash
      /\ \A i \in DOMAIN s.batch : i \in DOMAIN batch /\ batch[i] = s.batch[i]
      /\ \A p \in Paths \ s.seen : s.existing[p].status = "active" => p \in PathsOf(batch)
  BY <1>2, <1>3, BatchIs DEF WhileReading
<1> HIDE DEF batch
<1>6. n \in Nat /\ DOMAIN batch = 1..n
  BY <1>5
<1>7. end.k \in 0..n /\ end.done \in BOOLEAN /\ (end.done => end.k = n)
  BY <1>6, EndingsAre
<1> DEFINE part == SubSeq(batch, 1, end.k)
<1>8. /\ part \in Seq(FileNode) /\ DOMAIN part = 1..end.k /\ Len(part) = end.k
      /\ \A i \in 1..end.k : part[i] = batch[i]
  BY <1>5, <1>6, <1>7
<1> HIDE DEF part, n
<1>9. EachOnce(part)
  BY <1>5, <1>6, <1>7, <1>8 DEF EachOnce
<1>10. nodes' = WriteNodes(nodes, part)
  BY <1>4 DEF part
<1>11. /\ nodes' \in [Paths -> NodeRecs]
       /\ \A p \in Paths : (\A i \in DOMAIN part : part[i].path # p) => nodes'[p] = nodes[p]
       /\ \A i \in DOMAIN part : nodes'[part[i].path] = [hash |-> part[i].hash, status |-> part[i].status]
  BY <1>2, <1>8, <1>9, <1>10, NodesAre
<1>12. lastCommit' \in Nat
  BY <1>2, <1>4, <1>7
<1>13. CASE ~end.done
  <2>1. t = NoScan /\ incomplete' = TRUE
    BY <1>2, <1>4, <1>13 DEF Fails
  <2>2. ScanTypes'
    BY <1>1, <1>11, <1>12, <2>1, NoScanIs DEF ScanInv, ScanTypes
  <2> QED
    BY <2>1, <2>2, NoScanIs, NotRunningNext
<1>14. CASE end.done
  <2>1. end.k = n /\ incomplete' = incomplete /\ lastCommit' = s.head
    BY <1>4, <1>7, <1>14
  <2>2. t = [s EXCEPT !.pc = "entities", !.batch = batch, !.existing = NoScan.existing]
    BY <1>4, <1>14
  <2>3. /\ t \in Scans /\ t.pc = "entities" /\ t.seen = s.seen /\ t.batch = batch /\ t.at = s.at
        /\ t.full = s.full /\ t.deep = s.deep /\ t.gone = s.gone /\ t.quiet = s.quiet
    BY <1>2, <1>5, <2>2, NoScanIs DEF Scans
  <2>4. /\ \A p \in Paths \ PathsOf(batch) : nodes'[p] = nodes[p]
        /\ \A i \in DOMAIN batch : /\ batch[i].path \in Paths
                                   /\ nodes'[batch[i].path].hash = batch[i].hash
                                   /\ nodes'[batch[i].path].status = batch[i].status
    <3>1. ASSUME NEW p \in Paths \ PathsOf(batch) PROVE nodes'[p] = nodes[p]
      <4>1. \A i \in DOMAIN part : part[i].path # p
        BY <1>6, <1>8, <2>1 DEF PathsOf
      <4> QED
        BY <1>11, <4>1
    <3>2. ASSUME NEW i \in DOMAIN batch
          PROVE  /\ batch[i].path \in Paths /\ nodes'[batch[i].path].hash = batch[i].hash
                 /\ nodes'[batch[i].path].status = batch[i].status
      <4>1. i \in DOMAIN part /\ part[i] = batch[i] /\ batch[i] \in FileNode
        BY <1>5, <1>6, <1>8, <2>1
      <4> DEFINE q == batch[i].path
                 r == nodes'[q]
      <4>2. q \in Paths
        BY <4>1, FileNodesAre
      <4>3. r = [hash |-> batch[i].hash, status |-> batch[i].status]
        BY <1>11, <4>1
      <4> HIDE DEF q, r
      <4>4. r.hash = batch[i].hash /\ r.status = batch[i].status
        BY <4>3
      <4> QED
        BY <4>2, <4>4 DEF q, r
    <3> QED
      BY <3>1, <3>2
  <2>5. ScanTypes'
    BY <1>1, <1>11, <1>12, <2>1, <2>3 DEF ScanInv, ScanTypes
  <2>6. s.at = 0
    BY <1>3 DEF HasRead
  <2>7. WritesBatch(t, nodes', entities)
    BY <1>5, <1>6, <2>3, <2>4, <2>6 DEF WritesBatch, n
  <2>8. ~incomplete => VersionsFollow(t, nodes', entities)
    <3>1. Behind(s) = {}
      BY <1>2 DEF Behind
    <3>2. Behind(t) = PathsOf(batch)
      BY <1>6, <2>3, <2>6 DEF Behind, PathsOf, n
    <3> QED
      BY <2>4, <3>1, <3>2 DEF ScanInv, ScanPlace, VersionsFollow
  <2>9. ScanPlace'
    BY <1>1, <2>1, <2>3, <2>7, <2>8 DEF ScanPlace, WhileReading
  <2>10. ASSUME s.quiet PROVE BatchRight(t, files) /\ NodesRight(t, nodes', files)
    <3>1. ReadRight(s, nodes, files)
      BY <1>3, <2>10
    <3>2. BatchRight(t, files)
      <4>1. s.full => s.seen \subseteq PathsOf(batch)
        BY <1>2, <1>5, <3>1 DEF ReadRight, PathsOf
      <4>2. ASSUME s.deep, NEW i \in DOMAIN batch, batch[i].path \in s.seen
            PROVE  batch[i].imports = ImportsOf[files[batch[i].path]]
        BY <1>2, <1>5, <3>1, <4>2 DEF ReadRight
      <4> QED
        BY <2>3, <4>1, <4>2 DEF BatchRight
    <3>3. ASSUME NEW p \in s.seen
          PROVE  files[p] # NoFile /\ nodes'[p].hash = files[p] /\ (p \notin s.gone => nodes'[p].status = "active")
      <4>1. files[p] # NoFile /\ p \in Paths
        BY <1>2, <3>1 DEF ReadRight, Scans
      <4>2. CASE p \in PathsOf(s.batch)
        <5>1. PICK i \in DOMAIN s.batch : s.batch[i].path = p
          BY <4>2 DEF PathsOf
        <5>2. i \in DOMAIN batch /\ batch[i] = s.batch[i]
          BY <1>5, <5>1
        <5>3. s.batch[i].hash = files[p] /\ s.batch[i].status = "active"
          BY <1>3, <3>1, <5>1 DEF HasRead, ReadRight
        <5> QED
          BY <2>4, <4>1, <5>1, <5>2, <5>3
      <4>3. CASE p \notin PathsOf(s.batch)
        <5>1. ~s.full /\ nodes[p].hash = files[p]
          BY <1>2, <3>1, <4>3 DEF ReadRight
        <5>2. p \notin PathsOf(batch)
          BY <1>5, <4>3 DEF PathsOf
        <5>3. nodes'[p] = nodes[p]
          BY <2>4, <4>1, <5>2
        <5>4. nodes[p].status \in Statuses
          BY <1>2, <4>1, <5>1, NoScanIs
        <5>5. p \notin s.gone => nodes[p].status # "deleted"
          BY <1>3, <5>1 DEF HasRead
        <5> QED
          BY <4>1, <5>1, <5>3, <5>4, <5>5 DEF Statuses
      <4> QED
        BY <4>2, <4>3
    <3>4. ASSUME ~s.full, NEW p \in Paths, nodes'[p].status = "active" PROVE files[p] # NoFile
      <4>1. CASE p \in s.seen
        BY <3>3, <4>1
      <4>2. CASE p \notin s.seen
        <5>1. s.existing = nodes
          BY <1>3, <3>4 DEF HasRead
        <5>2. p \notin PathsOf(batch)
          <6> SUFFICES ASSUME NEW i \in DOMAIN batch, batch[i].path = p PROVE FALSE
            BY DEF PathsOf
          <6>1. batch[i].status = "active"
            BY <2>4, <3>4
          <6>2. i \in DOMAIN s.batch /\ batch[i] = s.batch[i]
            BY <1>5, <6>1
          <6> QED
            BY <1>3, <4>2, <6>2 DEF HasRead
        <5>3. nodes[p].status = "active"
          BY <2>4, <3>4, <5>2
        <5> QED
          BY <1>5, <4>2, <5>1, <5>2, <5>3
      <4> QED
        BY <4>1, <4>2
    <3>5. NodesRight(t, nodes', files)
      BY <2>3, <3>3, <3>4 DEF NodesRight
    <3> QED
      BY <3>2, <3>5
  <2>11. ScanRight'
    BY <1>1, <1>3, <2>1, <2>3, <2>10 DEF ScanRight, WhileReading, Harvesting
  <2> QED
    BY <2>5, <2>9, <2>11 DEF ScanInv
<1> QED
  BY <1>7, <1>13, <1>14

\* How many writes the next transaction makes.
Chunk(at, size, n) == IF at + size < n THEN size ELSE n - at

LEMMA ChunksAre ==
  ASSUME NEW n \in Nat, NEW size \in Nat \ {0}, scan.at \in 0..n
  PROVE  /\ Cardinality(BatchRange(size, n)) = Chunk(scan.at, size, n)
         /\ Chunk(scan.at, size, n) \in Nat /\ scan.at + Chunk(scan.at, size, n) <= n
<1> DEFINE a == scan.at + 1
           b == IF scan.at + size < n THEN scan.at + size ELSE n
<1>1. BatchRange(size, n) = a..b
  BY DEF BatchRange
<1>2. a \in Int /\ b \in Int /\ Chunk(scan.at, size, n) = (IF a > b THEN 0 ELSE b - a + 1) /\ Chunk(scan.at, size, n) \in Nat
      /\ scan.at + Chunk(scan.at, size, n) <= n
  BY DEF Chunk
<1> HIDE DEF a, b
<1>3. Cardinality(a..b) = IF a > b THEN 0 ELSE b - a + 1
  BY <1>2, FS_Interval
<1> QED
  BY <1>1, <1>2, <1>3

LEMMA ExtendedIs ==
  ASSUME NEW S, NEW v \in Seq(S), NEW h \in S
  PROVE  Extended(v, h) \in Seq(S) /\ Extended(v, h) # << >> /\ Last(Extended(v, h)) = h
<1>1. CASE v # << >> /\ Last(v) = h
  BY <1>1 DEF Extended
<1>2. CASE ~(v # << >> /\ Last(v) = h)
  <2> DEFINE w == Append(v, h)
  <2>1. Extended(v, h) = w
    BY <1>2 DEF Extended
  <2>2. w \in Seq(S) /\ w # << >> /\ w[Len(w)] = h
    OBVIOUS
  <2> HIDE DEF w
  <2> QED
    BY <2>1, <2>2 DEF Last
<1> QED
  BY <1>1, <1>2

\* What a transaction of versions writes, whole or not.
VersionsOf(es, after, b, a, k) ==
  /\ after \in [Paths -> Seq(Contents)]
  /\ \A p \in Paths : \/ after[p] = es[p]
                      \/ \E i \in DOMAIN b : b[i].path = p /\ after[p] = Extended(es[p], b[i].hash)
  /\ \A p \in Paths \ {b[i].path : i \in a + 1 .. a + k} : after[p] = es[p]
  /\ \A i \in 1..(a + k) : NewestIs(after, b[i].path, b[i].hash)

LEMMA VersionsWritten ==
  ASSUME NEW es \in [Paths -> Seq(Contents)], NEW b \in Seq(FileNode), EachOnce(b),
         NEW a \in Nat, NEW k \in Nat, a + k <= Len(b),
         \A i \in 1..a : NewestIs(es, b[i].path, b[i].hash)
  PROVE  VersionsOf(es, AppendVersions(es, SubSeq(b, a + 1, a + k)), b, a, k)
<1> DEFINE n == Len(b)
           part == SubSeq(b, a + 1, a + k)
           after == AppendVersions(es, part)
<1>1. n \in Nat /\ a + k <= n /\ DOMAIN b = 1..n /\ \A i \in 1..n : b[i] \in FileNode
  OBVIOUS
<1>2. /\ part \in Seq(FileNode) /\ DOMAIN part = 1..k /\ \A i \in 1..k : part[i] = b[a + i]
  OBVIOUS
<1> HIDE DEF part, n
<1>3. \A i \in 1..k : a + i \in 1..n /\ a + i \in a + 1 .. a + k
  BY <1>1
<1>4. EachOnce(part)
  <2> SUFFICES ASSUME NEW i \in 1..k, NEW j \in 1..k, part[i].path = part[j].path PROVE i = j
    BY <1>2 DEF EachOnce
  <2>1. a + i \in DOMAIN b /\ a + j \in DOMAIN b /\ b[a + i].path = b[a + j].path
    BY <1>1, <1>2, <1>3
  <2>2. a + i = a + j
    BY <2>1 DEF EachOnce
  <2> QED
    BY <2>2
<1>5. /\ after \in [Paths -> Seq(Contents)]
      /\ \A p \in Paths : (\A i \in 1..k : part[i].path # p) => after[p] = es[p]
      /\ \A i \in 1..k : after[part[i].path] = Extended(es[part[i].path], part[i].hash)
  <2>1. /\ after \in [Paths -> Seq(Contents)]
        /\ \A p \in Paths : (\A i \in DOMAIN part : part[i].path # p) => after[p] = es[p]
        /\ \A i \in DOMAIN part : after[part[i].path] = Extended(es[part[i].path], part[i].hash)
    BY <1>2, <1>4, VersionsAre
  <2> HIDE DEF after
  <2> QED
    BY <1>2, <2>1
<1> HIDE DEF after
<1>6. ASSUME NEW p \in Paths, p \notin {b[i].path : i \in a + 1 .. a + k} PROVE after[p] = es[p]
  <2>1. \A i \in 1..k : part[i].path # p
    BY <1>2, <1>3, <1>6
  <2> QED
    BY <1>5, <2>1
<1>7. ASSUME NEW p \in Paths
      PROVE  \/ after[p] = es[p]
             \/ \E i \in DOMAIN b : b[i].path = p /\ after[p] = Extended(es[p], b[i].hash)
  <2>1. CASE \E i \in 1..k : part[i].path = p
    <3>1. PICK i \in 1..k : part[i].path = p
      BY <2>1
    <3>2. a + i \in DOMAIN b /\ part[i] = b[a + i]
      BY <1>1, <1>2, <1>3
    <3> QED
      BY <1>5, <3>1, <3>2
  <2>2. CASE \A i \in 1..k : part[i].path # p
    BY <1>5, <2>2
  <2> QED
    BY <2>1, <2>2
<1>8. ASSUME NEW i \in 1..(a + k) PROVE NewestIs(after, b[i].path, b[i].hash)
  <2>1. i \in 1..n /\ b[i].path \in Paths /\ b[i].hash \in Contents
    <3>1. i \in 1..n
      BY <1>1
    <3> QED
      BY <1>1, <3>1, FileNodesAre
  <2>2. CASE i \in 1..a
    <3>1. NewestIs(es, b[i].path, b[i].hash)
      BY <2>2
    <3>2. b[i].path \notin {b[j].path : j \in a + 1 .. a + k}
      <4> SUFFICES ASSUME NEW j \in a + 1 .. a + k, b[j].path = b[i].path PROVE FALSE
        OBVIOUS
      <4>1. j \in 1..n /\ j # i
        BY <1>1, <2>2
      <4> QED
        BY <1>1, <2>1, <4>1 DEF EachOnce
    <3> QED
      BY <1>6, <2>1, <3>1, <3>2 DEF NewestIs
  <2>3. CASE i \notin 1..a
    <3>1. i - a \in 1..k /\ a + (i - a) = i
      BY <2>3
    <3>2. part[i - a] = b[i]
      BY <1>2, <3>1
    <3>3. after[b[i].path] = Extended(es[b[i].path], b[i].hash)
      BY <1>5, <3>1, <3>2
    <3> DEFINE v == es[b[i].path]
               h == b[i].hash
    <3>4. v \in Seq(Contents) /\ h \in Contents
      BY <2>1
    <3>5. Extended(v, h) # << >> /\ Last(Extended(v, h)) = h
      <4> HIDE DEF v, h
      <4> QED
        BY <3>4, ExtendedIs
    <3> QED
      BY <3>3, <3>5 DEF NewestIs
  <2> QED
    BY <2>2, <2>3
<1> QED
  BY <1>5, <1>6, <1>7, <1>8 DEF after, part, VersionsOf

\* What a scan has found out does not change while it writes.
SameFindings(t, s) ==
  t.full = s.full /\ t.deep = s.deep /\ t.seen = s.seen /\ t.gone = s.gone /\ t.quiet = s.quiet

LEMMA GoesOn ==
  ASSUME ScanInv, NEW pc \in {"relations"} \cup Harvesting, Goes(pc)
  PROVE  /\ scan' \in Scans /\ SameFindings(scan', scan) /\ scan'.pc = pc /\ scan'.at = 0
         /\ scan'.batch = (IF pc = "relations" THEN scan.batch ELSE << >>) /\ incomplete' = incomplete
         /\ \A ns, fs : NodesRight(scan', ns, fs) <=> NodesRight(scan, ns, fs)
<1> DEFINE b == IF pc = "relations" THEN scan.batch ELSE << >>
<1>1. scan \in Scans /\ scan' = [scan EXCEPT !.pc = pc, !.at = 0, !.batch = b]
  BY DEF Goes, ScanInv, ScanTypes
<1>2. b \in Seq(FileNode)
  BY <1>1 DEF Scans
<1> HIDE DEF b
<1>3. scan' \in Scans /\ SameFindings(scan', scan) /\ scan'.pc = pc /\ scan'.at = 0 /\ scan'.batch = b
  BY <1>1, <1>2 DEF Scans, SameFindings
<1> QED
  BY <1>3 DEF Goes, b, SameFindings, NodesRight

LEMMA VersionsAppended ==
  ASSUME ScanInv, PersistEntities
  PROVE  LET n == Len(scan.batch)
             c == Chunk(scan.at, EntityBatch, n)
         IN /\ n \in Nat /\ c \in Nat /\ scan.at + c <= n /\ scan.at \in 0..n /\ scan.batch \in Seq(FileNode)
            /\ \E end \in Endings(c) :
                 /\ VersionsOf(entities, entities', scan.batch, scan.at, end.k)
                 /\ Wrote(EntityBatch, n, end.done, IF scan.deep THEN "relations" ELSE "renames")
<1> DEFINE s == scan
           n == Len(s.batch)
           c == Chunk(s.at, EntityBatch, n)
<1>1. s.pc = "entities" /\ s \in Scans /\ entities \in [Paths -> Seq(Contents)] /\ WritesBatch(s, nodes, entities)
  BY DEF PersistEntities, ScanInv, ScanTypes, ScanPlace
<1>2. s.batch \in Seq(FileNode) /\ s.at \in Nat /\ n \in Nat /\ s.at \in 0..n
  <2>1. s.batch \in Seq(FileNode) /\ s.at \in 0..n
    BY <1>1 DEF Scans, WritesBatch
  <2> QED
    BY <2>1
<1>3. EntityBatch \in Nat \ {0}
  BY ScannerAssumption DEF ScannerAssumption
<1>4. Cardinality(BatchRange(EntityBatch, n)) = c /\ c \in Nat /\ s.at + c <= n
  BY <1>2, <1>3, ChunksAre
<1>5. PICK end \in Endings(c) :
        /\ entities' = AppendVersions(entities, SubSeq(s.batch, s.at + 1, s.at + end.k))
        /\ Wrote(EntityBatch, n, end.done, IF s.deep THEN "relations" ELSE "renames")
  BY <1>4 DEF PersistEntities
<1>6. end.k \in 0..c
  BY <1>4, EndingsAre
<1>7. PICK a : a = s.at
  OBVIOUS
<1>8. PICK k : k = end.k
  OBVIOUS
<1> HIDE DEF n, c
<1>9. a \in Nat /\ k \in Nat /\ a + k <= n
  BY <1>2, <1>4, <1>6, <1>7, <1>8
<1>10. VersionsOf(entities, entities', s.batch, a, k)
  <2>1. EachOnce(s.batch) /\ \A i \in 1..a : NewestIs(entities, s.batch[i].path, s.batch[i].hash)
    BY <1>1, <1>7 DEF WritesBatch
  <2>2. entities' = AppendVersions(entities, SubSeq(s.batch, a + 1, a + k)) /\ a + k <= Len(s.batch)
    BY <1>5, <1>7, <1>8, <1>9 DEF n
  <2>3. VersionsOf(entities, AppendVersions(entities, SubSeq(s.batch, a + 1, a + k)), s.batch, a, k)
    BY <1>1, <1>2, <1>9, <2>1, <2>2, VersionsWritten
  <2> QED
    BY <2>2, <2>3
<1> QED
  BY <1>2, <1>4, <1>5, <1>7, <1>8, <1>10 DEF n, c

LEMMA VersionsStep == ASSUME ScanInv, PersistEntities PROVE ScanInv'
<1> DEFINE s == scan
           t == scan'
           n == Len(s.batch)
           c == Chunk(s.at, EntityBatch, n)
           next == IF s.deep THEN "relations" ELSE "renames"
<1>1. UNCHANGED <<files, commits, nodes, lastCommit, imports, log>>
  BY DEF PersistEntities, repoVars
<1>2. /\ s.pc = "entities" /\ s \in Scans /\ nodes \in [Paths -> NodeRecs] /\ files \in Trees
      /\ WritesBatch(s, nodes, entities)
  BY DEF PersistEntities, ScanInv, ScanTypes, ScanPlace
<1>3. EntityBatch \in Nat \ {0}
  BY ScannerAssumption DEF ScannerAssumption
<1>4. n \in Nat /\ c \in Nat /\ s.at + c <= n /\ s.at \in 0..n /\ s.batch \in Seq(FileNode)
  BY VersionsAppended
<1>5. PICK end \in Endings(c) : VersionsOf(entities, entities', s.batch, s.at, end.k) /\ Wrote(EntityBatch, n, end.done, next)
  BY VersionsAppended
<1>6. s.batch \in Seq(FileNode) /\ s.at \in Nat
  BY <1>4
<1>7. n \in Nat /\ DOMAIN s.batch = 1..n /\ s.at \in 0..n /\ \A i \in 1..n : s.batch[i].path \in Paths
  <2>1. DOMAIN s.batch = 1..n /\ \A i \in 1..n : s.batch[i] \in FileNode
    BY <1>6
  <2> QED
    BY <1>4, <2>1, FileNodesAre
<1>8. end.k \in 0..c /\ end.done \in BOOLEAN /\ (end.done => end.k = c)
  BY <1>4, EndingsAre
<1>9. PICK a : a = s.at
  OBVIOUS
<1>10. PICK k : k = end.k
  OBVIOUS
<1> HIDE DEF n, c
<1>11. a \in Nat /\ k \in Nat /\ a + k <= n /\ a \in 0..n
  BY <1>6, <1>7, <1>4, <1>8, <1>9, <1>10
<1>12. VersionsOf(entities, entities', s.batch, a, k)
  BY <1>5, <1>9, <1>10
\* The versions that are written follow their nodes; the others are as before.
<1>13. \A i \in 1..(a + k) : NewestIs(entities', s.batch[i].path, nodes[s.batch[i].path].hash)
  <2> TAKE i \in 1..(a + k)
  <2>1. i \in DOMAIN s.batch
    BY <1>7, <1>11
  <2> QED
    BY <1>2, <1>12, <2>1 DEF WritesBatch, VersionsOf
<1>14. ASSUME ~incomplete, NEW p \in Paths, p \notin {s.batch[i].path : i \in a + k + 1 .. n}, nodes[p].status # "none"
       PROVE  NewestIs(entities', p, nodes[p].hash)
  <2>1. CASE \E i \in 1..(a + k) : s.batch[i].path = p
    BY <1>13, <2>1
  <2>2. CASE \A i \in 1..(a + k) : s.batch[i].path # p
    <3>1. \A i \in a + 1 .. n : s.batch[i].path # p
      <4> TAKE i \in a + 1 .. n
      <4>1. i \in 1..(a + k) \/ i \in a + k + 1 .. n
        BY <1>7, <1>11
      <4> QED
        BY <1>14, <2>2, <4>1
    <3>2. p \notin Behind(s)
      BY <1>2, <1>9, <3>1 DEF Behind, n
    <3>3. NewestIs(entities, p, nodes[p].hash)
      BY <1>14, <3>2 DEF ScanInv, ScanPlace, VersionsFollow
    <3>4. p \notin {s.batch[i].path : i \in a + 1 .. a + k}
      <4>1. \A i \in a + 1 .. a + k : i \in 1..(a + k)
        BY <1>11
      <4> QED
        BY <2>2, <4>1
    <3>5. entities'[p] = entities[p]
      BY <1>12, <3>4 DEF VersionsOf
    <3> QED
      BY <3>3, <3>5 DEF NewestIs
  <2> QED
    BY <2>1, <2>2
<1>15. s.quiet => BatchRight(s, files) /\ NodesRight(s, nodes, files) /\ lastCommit = Len(commits)
  BY <1>2 DEF ScanInv, ScanRight
<1>16. CASE ~end.done
  <2>1. t = NoScan /\ incomplete' = TRUE
    BY <1>2, <1>5, <1>16 DEF Wrote, Fails
  <2>2. ScanTypes'
    BY <1>1, <1>12, <2>1, NoScanIs DEF ScanInv, ScanTypes, VersionsOf
  <2> QED
    BY <2>1, <2>2, NoScanIs, NotRunningNext
<1>17. CASE end.done /\ s.at + EntityBatch < n
  <2>1. t = [s EXCEPT !.at = s.at + EntityBatch] /\ incomplete' = incomplete /\ k = EntityBatch
    <3>1. ~(s.at + EntityBatch >= n) /\ c = EntityBatch
      BY <1>6, <1>7, <1>3, <1>17 DEF Chunk, c
    <3> QED
      BY <1>5, <1>8, <1>10, <1>17, <3>1 DEF Wrote
  <2>2. t \in Scans /\ t.pc = "entities" /\ t.at = a + k /\ t.batch = s.batch /\ SameFindings(t, s)
    <3>1. s.at + EntityBatch \in Nat /\ a + k = s.at + EntityBatch
      BY <1>6, <1>3, <1>9, <2>1
    <3> QED
      BY <1>2, <2>1, <3>1 DEF Scans, SameFindings
  <2>3. ScanTypes'
    BY <1>1, <1>12, <2>1, <2>2 DEF ScanInv, ScanTypes, VersionsOf
  <2>4. WritesBatch(t, nodes, entities')
    <3>1. t.at \in 0..Len(t.batch)
      BY <1>7, <1>11, <2>2 DEF n
    <3> QED
      BY <1>2, <1>12, <2>2, <3>1 DEF WritesBatch, VersionsOf
  <2>5. ~incomplete => VersionsFollow(t, nodes, entities')
    BY <1>14, <2>2 DEF VersionsFollow, Behind, n
  <2>6. ScanPlace'
    BY <1>1, <2>1, <2>2, <2>4, <2>5 DEF ScanPlace, WhileReading
  <2>7. s.quiet => BatchRight(t, files) /\ NodesRight(t, nodes, files)
    BY <1>15, <2>2 DEF BatchRight, NodesRight, SameFindings
  <2>8. ScanRight'
    BY <1>1, <1>15, <2>2, <2>7 DEF ScanRight, WhileReading, Harvesting, SameFindings
  <2> QED
    BY <2>3, <2>6, <2>8 DEF ScanInv
<1>18. CASE end.done /\ ~(s.at + EntityBatch < n)
  <2>1. Goes(next) /\ a + k = n
    <3>1. s.at + EntityBatch >= n /\ s.at + c = n
      BY <1>6, <1>7, <1>3, <1>18 DEF Chunk, c
    <3> QED
      BY <1>5, <1>8, <1>9, <1>10, <1>18, <3>1 DEF Wrote
  <2>2. next \in {"relations"} \cup Harvesting /\ next \in {"relations", "renames"}
        /\ (next = "relations" <=> s.deep)
    BY DEF Harvesting
  <2> HIDE DEF next
  <2>3. /\ t \in Scans /\ SameFindings(t, s) /\ t.pc = next /\ t.at = 0 /\ incomplete' = incomplete
        /\ t.batch = (IF next = "relations" THEN s.batch ELSE << >>)
        /\ NodesRight(t, nodes, files) <=> NodesRight(s, nodes, files)
    BY <2>1, <2>2, GoesOn
  <2>4. ScanTypes'
    BY <1>1, <1>12, <2>3 DEF ScanInv, ScanTypes, VersionsOf
  <2>5. ~incomplete => \A p \in Paths : nodes[p].status # "none" => NewestIs(entities', p, nodes[p].hash)
    <3>1. {s.batch[i].path : i \in a + k + 1 .. n} = {}
      BY <1>7, <2>1
    <3> QED
      BY <1>14, <3>1
  <2>6. ~incomplete => VersionsFollow(t, nodes, entities')
    BY <2>5 DEF VersionsFollow
  <2>7. next = "relations" => t.deep /\ t.at \in 0..Len(RelationsOf(t.batch))
    <3>1. Len(RelationsOf(s.batch)) \in Nat
      BY <1>6, RelationsAre, ListedIs
    <3> QED
      BY <2>2, <2>3, <3>1 DEF SameFindings
  <2>8. \A i \in 1..t.at : FALSE
    BY <2>3
  <2>9. ScanPlace'
    BY <1>1, <2>2, <2>3, <2>6, <2>7, <2>8 DEF ScanPlace, WhileReading
  <2>10. ASSUME s.quiet, s.full \/ ~incomplete, NEW p \in s.seen PROVE NewestIs(entities', p, files[p])
    <3>1. nodes[p].hash = files[p] /\ files[p] # NoFile /\ p \in Paths
      BY <1>2, <1>15, <2>10 DEF NodesRight, Scans
    <3>2. CASE s.full
      <4>1. PICK i \in DOMAIN s.batch : s.batch[i].path = p
        BY <1>15, <2>10, <3>2 DEF BatchRight, PathsOf
      <4>2. i \in 1..(a + k)
        BY <1>7, <2>1, <4>1
      <4> QED
        BY <1>13, <3>1, <4>1, <4>2
    <3>3. CASE ~incomplete
      <4>1. nodes[p].status # "none"
        BY <1>2, <3>1, NoScanIs DEF Statuses
      <4> QED
        BY <2>5, <3>1, <3>3, <4>1
    <3> QED
      BY <2>10, <3>2, <3>3
  <2>11. ASSUME s.quiet, next = "relations" PROVE BatchRight(t, files)
    BY <1>15, <2>3, <2>11 DEF BatchRight, SameFindings
  <2>12. ScanRight'
    BY <1>1, <1>15, <2>2, <2>3, <2>10, <2>11 DEF ScanRight, WhileReading, Harvesting, SameFindings
  <2> QED
    BY <2>4, <2>9, <2>12 DEF ScanInv
<1> QED
  BY <1>8, <1>16, <1>17, <1>18

-----------------------------------------------------------------------------
(* A scan writes its links, renames and decisions                          *)

\* A scan that broke off after its versions.
LEMMA BrokeOff ==
  ASSUME ScanInv, scan.pc \notin {"hash", "entities"}, Fails,
         UNCHANGED <<files, commits, nodes, lastCommit, entities>>, LogIs(log')
  PROVE  ScanInv'
<1>1. scan' = NoScan /\ incomplete' = incomplete
  BY DEF Fails, ScanInv, ScanTypes
<1>2. ScanTypes'
  BY <1>1, NoScanIs DEF ScanInv, ScanTypes
<1>3. Behind(scan) = {}
  BY DEF Behind
<1>4. ~incomplete => VersionsFollow(NoScan, nodes, entities)
  BY <1>3, NoScanIs DEF ScanInv, ScanPlace, VersionsFollow
<1> QED
  BY <1>1, <1>2, <1>4, NoScanIs, NotRunningNext

\* A scan whose versions are written goes on to the next source.
LEMMA GoesOnHarvesting ==
  ASSUME ScanInv, scan.pc \notin {"hash", "entities"}, NEW pc \in Harvesting, Goes(pc),
         UNCHANGED <<files, commits, nodes, lastCommit, entities>>, LogIs(log')
  PROVE  ScanTypes' /\ ScanPlace'
<1>1. /\ scan' \in Scans /\ scan'.pc = pc /\ incomplete' = incomplete
  BY GoesOn
<1>2. ScanTypes'
  BY <1>1 DEF ScanInv, ScanTypes
<1>3. Behind(scan) = {} /\ Behind(scan') = {}
  BY <1>1 DEF Behind, Harvesting
<1>4. ~incomplete => VersionsFollow(scan', nodes, entities)
  BY <1>3 DEF ScanInv, ScanPlace, VersionsFollow
<1>5. ScanPlace'
  BY <1>1, <1>4 DEF ScanPlace, WhileReading, Harvesting
<1> QED
  BY <1>2, <1>5

LEMMA RelationsStep == ASSUME ScanInv, PersistRelations PROVE ScanInv'
<1> DEFINE s == scan
           t == scan'
           rels == RelationsOf(s.batch)
           n == Len(rels)
           c == Chunk(s.at, RelationBatch, n)
<1>1. UNCHANGED <<files, commits, nodes, lastCommit, entities, log>>
  BY DEF PersistRelations, repoVars
<1>2. /\ s.pc = "relations" /\ s \in Scans /\ files \in Trees /\ LogIs(log) /\ s.deep
      /\ s.at \in 0..n /\ \A i \in 1..s.at : rels[i] \in imports
  BY DEF PersistRelations, ScanInv, ScanTypes, ScanPlace
<1>3. s.batch \in Seq(FileNode) /\ s.at \in Nat
  BY <1>2 DEF Scans
<1>4. Listed(rels) /\ Range(rels) = UNION {{s.batch[i].path} \X s.batch[i].imports : i \in DOMAIN s.batch}
  BY <1>3, RelationsAre
<1>5. n \in Nat /\ DOMAIN rels = 1..n
  BY <1>4, ListedIs
<1>6. RelationBatch \in Nat \ {0}
  BY ScannerAssumption DEF ScannerAssumption
<1>7. Cardinality(BatchRange(RelationBatch, n)) = c /\ c \in Nat /\ s.at + c <= n
  BY <1>2, <1>5, <1>6, ChunksAre
<1>8. PICK end \in Endings(c) :
        imports' = imports \cup {rels[i] : i \in s.at + 1 .. s.at + end.k} /\ Wrote(RelationBatch, n, end.done, "renames")
  BY <1>7 DEF PersistRelations
<1>9. end.k \in 0..c /\ end.done \in BOOLEAN /\ (end.done => end.k = c)
  BY <1>7, EndingsAre
<1> HIDE DEF n, c, rels
<1>10. \A i \in 1..(s.at + end.k) : rels[i] \in imports'
  <2> TAKE i \in 1..(s.at + end.k)
  <2>1. CASE i \in 1..s.at
    BY <1>2, <1>8, <2>1
  <2>2. CASE i \notin 1..s.at
    <3>1. i \in s.at + 1 .. s.at + end.k
      BY <1>3, <1>7, <1>9, <2>2
    <3> QED
      BY <1>8, <3>1
  <2> QED
    BY <2>1, <2>2
<1>11. CASE ~end.done
  <2>1. Fails
    BY <1>8, <1>11 DEF Wrote
  <2> QED
    BY <1>1, <1>2, <2>1, BrokeOff
<1>12. CASE end.done /\ s.at + RelationBatch < n
  <2>1. t = [s EXCEPT !.at = s.at + RelationBatch] /\ incomplete' = incomplete /\ end.k = RelationBatch
    <3>1. ~(s.at + RelationBatch >= n) /\ c = RelationBatch
      BY <1>3, <1>5, <1>6, <1>12 DEF Chunk, c
    <3> QED
      BY <1>8, <1>9, <1>12, <3>1 DEF Wrote
  <2>2. t \in Scans /\ t.pc = "relations" /\ t.at = s.at + RelationBatch /\ t.batch = s.batch /\ SameFindings(t, s)
    <3>1. s.at + RelationBatch \in Nat
      BY <1>3, <1>6
    <3> QED
      BY <1>2, <2>1, <3>1 DEF Scans, SameFindings
  <2>3. ScanTypes'
    BY <1>1, <2>1, <2>2 DEF ScanInv, ScanTypes
  <2>4. Behind(s) = {} /\ Behind(t) = {}
    BY <1>2, <2>2 DEF Behind
  <2>5. ~incomplete => VersionsFollow(t, nodes, entities)
    BY <2>4 DEF ScanInv, ScanPlace, VersionsFollow
  <2>6. t.at \in 0..n /\ \A i \in 1..t.at : rels[i] \in imports'
    <3>1. t.at \in 0..n
      BY <1>3, <1>5, <1>6, <1>12, <2>2
    <3> QED
      BY <1>10, <2>1, <2>2, <3>1
  <2>7. ScanPlace'
    <3>1. RelationsOf(t.batch) = rels /\ Len(RelationsOf(t.batch)) = n
      BY <2>2 DEF rels, n
    <3> QED
      BY <1>1, <1>2, <2>1, <2>2, <2>5, <2>6, <3>1 DEF ScanPlace, WhileReading, SameFindings
  <2>8. s.quiet => BatchRight(t, files) /\ NodesRight(t, nodes, files)
    BY <1>2, <2>2 DEF ScanInv, ScanRight, BatchRight, NodesRight, SameFindings
  <2>9. ScanRight'
    BY <1>1, <1>2, <2>1, <2>2, <2>8 DEF ScanInv, ScanRight, WhileReading, Harvesting, SameFindings
  <2> QED
    BY <2>3, <2>7, <2>9 DEF ScanInv
<1>13. CASE end.done /\ ~(s.at + RelationBatch < n)
  <2>1. Goes("renames") /\ s.at + end.k = n
    <3>1. s.at + RelationBatch >= n /\ s.at + c = n
      BY <1>3, <1>5, <1>6, <1>13 DEF Chunk, c
    <3> QED
      BY <1>8, <1>9, <1>13, <3>1 DEF Wrote
  <2>2. "renames" \in Harvesting
    BY DEF Harvesting
  <2>3. /\ t \in Scans /\ SameFindings(t, s) /\ t.pc = "renames" /\ incomplete' = incomplete
        /\ NodesRight(t, nodes, files) <=> NodesRight(s, nodes, files)
    BY <2>1, <2>2, GoesOn
  <2>4. ScanTypes' /\ ScanPlace'
    BY <1>1, <1>2, <2>1, <2>2, GoesOnHarvesting
  <2>5. Range(rels) \subseteq imports'
    BY <1>5, <1>10, <2>1 DEF Range
  <2>6. ASSUME s.quiet, s.full, NEW p \in s.seen PROVE {p} \X ImportsOf[files[p]] \subseteq imports'
    <3>1. BatchRight(s, files)
      BY <1>2, <2>6 DEF ScanInv, ScanRight
    <3>2. PICK i \in DOMAIN s.batch : s.batch[i].path = p
      BY <2>6, <3>1 DEF BatchRight, PathsOf
    <3>3. s.batch[i].imports = ImportsOf[files[p]]
      BY <1>2, <2>6, <3>1, <3>2 DEF BatchRight
    <3>4. {p} \X ImportsOf[files[p]] \subseteq Range(rels)
      BY <1>4, <3>2, <3>3
    <3> QED
      BY <2>5, <3>4
  <2>7. s.quiet => lastCommit = Len(commits) /\ NodesRight(s, nodes, files)
    BY <1>2 DEF ScanInv, ScanRight
  <2>8. s.quiet /\ (s.full \/ ~incomplete) => \A p \in s.seen : NewestIs(entities, p, files[p])
    BY <1>2 DEF ScanInv, ScanRight
  <2>9. ScanRight'
    BY <1>1, <2>3, <2>6, <2>7, <2>8 DEF ScanRight, WhileReading, Harvesting, SameFindings
  <2> QED
    BY <2>4, <2>9 DEF ScanInv
<1> QED
  BY <1>9, <1>11, <1>12, <1>13

LEMMA RenamesStep == ASSUME ScanInv, PersistRenames PROVE ScanInv'
<1>1. UNCHANGED <<files, commits, nodes, lastCommit, entities, imports, log>> /\ scan.pc = "renames" /\ LogIs(log)
  BY DEF PersistRenames, repoVars, ScanInv, ScanTypes
<1>2. CASE Fails
  BY <1>1, <1>2, BrokeOff
<1>3. CASE Goes("adrs")
  <2>1. "adrs" \in Harvesting /\ scan.pc \in Harvesting
    BY <1>1 DEF Harvesting
  <2>2. /\ SameFindings(scan', scan) /\ scan'.pc = "adrs" /\ incomplete' = incomplete
        /\ NodesRight(scan', nodes, files) <=> NodesRight(scan, nodes, files)
    BY <1>3, <2>1, GoesOn
  <2>3. ScanTypes' /\ ScanPlace'
    BY <1>1, <1>3, <2>1, GoesOnHarvesting
  <2>4. ScanRight'
    BY <1>1, <2>1, <2>2 DEF ScanInv, ScanRight, WhileReading, Harvesting, SameFindings
  <2> QED
    BY <2>3, <2>4 DEF ScanInv
<1> QED
  BY <1>2, <1>3 DEF PersistRenames

\* What a source holds now.
LEMMA HarvestIs ==
  ASSUME ScanInv, scan.pc \in DOMAIN Sources
  PROVE  /\ Whole(Harvest) /\ Sources[scan.pc] \in Harvesting
         /\ scan.pc = "adrs"        => Harvest = ADRWrites(files) /\ Sources[scan.pc] = "annotations"
         /\ scan.pc = "annotations" => Harvest = AnnotationWrites(files) /\ Sources[scan.pc] = "docs"
         /\ scan.pc = "docs"        => Harvest = DocWrites(files, scan.seen) /\ Sources[scan.pc] = "commits"
         /\ scan.pc = "commits"     => Harvest = CommitWrites(commits) /\ Sources[scan.pc] = "done"
<1>1. scan.pc \in {"adrs", "annotations", "docs", "commits"}
  BY DEF Sources
<1>2. files \in Trees /\ commits \in Seq(CommitRecs)
  BY DEF ScanInv, ScanTypes
<1>3. CASE scan.pc = "adrs"
  <2>1. Harvest = ADRWrites(files) /\ Sources[scan.pc] = "annotations"
    BY <1>3 DEF Harvest, Sources
  <2> QED
    BY <1>2, <1>3, <2>1, ADRsAreWhole DEF Harvesting
<1>4. CASE scan.pc = "annotations"
  <2>1. Harvest = AnnotationWrites(files) /\ Sources[scan.pc] = "docs"
    BY <1>4 DEF Harvest, Sources
  <2> QED
    BY <1>2, <1>4, <2>1, AnnotationsAreWhole DEF Harvesting
<1>5. CASE scan.pc = "docs"
  <2>1. Harvest = DocWrites(files, scan.seen) /\ Sources[scan.pc] = "commits"
    BY <1>5 DEF Harvest, Sources
  <2> QED
    BY <1>2, <1>5, <2>1, DocsAreWhole DEF Harvesting
<1>6. CASE scan.pc = "commits"
  <2>1. Harvest = CommitWrites(commits) /\ Sources[scan.pc] = "done"
    BY <1>6 DEF Harvest, Sources
  <2> QED
    BY <1>2, <1>6, <2>1, CommitsAreWhole DEF Harvesting
<1> QED
  BY <1>1, <1>3, <1>4, <1>5, <1>6

\* A transaction of a source takes nothing back, and keeps all of the source when it is whole.
LEMMA SourceWritten ==
  ASSUME ScanInv, BackfillSource
  PROVE  /\ LogIs(log') /\ LogGrows(log, log')
         /\ Fails \/ (Goes(Sources[scan.pc]) /\ KeptIn(log', Harvest))
<1> DEFINE w == Harvest
           n == Len(w)
<1>1. LogIs(log) /\ scan.pc \in DOMAIN Sources
  BY DEF ScanInv, ScanTypes, BackfillSource
<1>2. Whole(w)
  BY <1>1, HarvestIs
<1>3. PICK end \in Endings(n) :
        /\ log' = WriteAll(log, SubSeq(w, 1, end.k))
        /\ IF end.done THEN Goes(Sources[scan.pc]) ELSE Fails
  BY DEF BackfillSource
<1> HIDE DEF w
<1>4. w \in Seq(Range(w)) /\ n \in Nat /\ DOMAIN w = 1..n
  <2>1. w \in Seq(Range(w))
    BY <1>2 DEF Whole, Listed
  <2> QED
    BY <2>1
<1>5. end.k \in 0..n /\ end.done \in BOOLEAN /\ (end.done => end.k = n)
  BY <1>4, EndingsAre
<1>6. PICK k : k = end.k
  OBVIOUS
<1> DEFINE part == SubSeq(w, 1, k)
<1>7. part \in Seq(Range(w)) /\ DOMAIN part = 1..k /\ \A i \in 1..k : part[i] = w[i]
  BY <1>4, <1>5, <1>6
<1> HIDE DEF part, n
<1>8. Listed(part)
  BY <1>7, ListedIs
<1>9. LogIs(log') /\ LogGrows(log, log') /\ \A x \in Range(part) : Holds(log', x)
  <2>1. log' = WriteAll(log, part)
    BY <1>3, <1>6 DEF part
  <2> QED
    BY <1>1, <1>8, <2>1, WriteAllKeeps
<1>10. CASE ~end.done
  BY <1>3, <1>9, <1>10
<1>11. CASE end.done
  <2>1. Range(w) \subseteq Range(part)
    BY <1>4, <1>5, <1>6, <1>7, <1>11 DEF Range
  <2>2. \A x \in Range(w) : Holds(log', x)
    BY <1>9, <2>1
  <2>3. KeptIn(log', w)
    BY <1>2, <2>2, WholeIsRecorded DEF KeptIn
  <2> QED
    BY <1>3, <1>9, <1>11, <2>3 DEF w
<1> QED
  BY <1>5, <1>10, <1>11

LEMMA KeptStays == ASSUME NEW l, NEW m, LogGrows(l, m), NEW s, KeptIn(l, s) PROVE KeptIn(m, s)
BY DEF LogGrows, KeptIn

LEMMA SourceStep == ASSUME ScanInv, BackfillSource PROVE ScanInv'
<1> DEFINE s == scan
           t == scan'
<1>1. UNCHANGED <<files, commits, nodes, lastCommit, entities, imports>>
  BY DEF BackfillSource, repoVars
<1>2. s.pc \in DOMAIN Sources
  BY DEF BackfillSource
<1>3. s.pc \in {"adrs", "annotations", "docs", "commits"} /\ s.pc \in Harvesting
  BY <1>2 DEF Sources, Harvesting
<1>4. LogIs(log') /\ LogGrows(log, log')
  BY SourceWritten
<1>5. CASE Fails
  BY <1>1, <1>3, <1>4, <1>5, BrokeOff
<1>6. CASE Goes(Sources[s.pc]) /\ KeptIn(log', Harvest)
  <2>1. Sources[s.pc] \in Harvesting
    BY <1>2, HarvestIs
  <2>2. /\ SameFindings(t, s) /\ t.pc = Sources[s.pc] /\ incomplete' = incomplete
        /\ NodesRight(t, nodes, files) <=> NodesRight(s, nodes, files)
    BY <1>6, <2>1, GoesOn
  <2>3. ScanTypes' /\ ScanPlace'
    BY <1>1, <1>3, <1>4, <1>6, <2>1, GoesOnHarvesting
  <2>4. ASSUME s.quiet
        PROVE  /\ lastCommit = Len(commits) /\ NodesRight(t, nodes, files)
               /\ s.full \/ ~incomplete => \A p \in s.seen : NewestIs(entities, p, files[p])
               /\ s.full /\ s.deep => \A p \in s.seen : {p} \X ImportsOf[files[p]] \subseteq imports
    BY <1>3, <2>2, <2>4 DEF ScanInv, ScanRight
  <2> DEFINE A == ADRWrites(files)
             B == AnnotationWrites(files)
             C == DocWrites(files, s.seen)
             D == CommitWrites(commits)
  <2>5. /\ s.pc = "adrs" => KeptIn(log', A) /\ t.pc = "annotations"
        /\ s.pc = "annotations" => KeptIn(log', B) /\ t.pc = "docs"
        /\ s.pc = "docs" => KeptIn(log', C) /\ t.pc = "commits"
        /\ s.pc = "commits" => KeptIn(log', D) /\ t.pc = "done"
    BY <1>2, <1>6, <2>2, HarvestIs
  <2>6. s.quiet => /\ s.pc \in {"annotations", "docs", "commits"} => KeptIn(log, A)
                   /\ s.pc \in {"docs", "commits"} => KeptIn(log, B)
                   /\ s.pc = "commits" => KeptIn(log, C)
    BY DEF ScanInv, ScanRight
  <2> HIDE DEF A, B, C, D
  <2>7. s.quiet => /\ KeptIn(log', A)
                   /\ t.pc \in {"docs", "commits", "done"} => KeptIn(log', B)
                   /\ t.pc \in {"commits", "done"} => KeptIn(log', C)
                   /\ t.pc = "done" => KeptIn(log', D)
    BY <1>3, <1>4, <2>5, <2>6, KeptStays
  <2>8. t.pc \in {"annotations", "docs", "commits", "done"}
    BY <1>3, <2>5
  <2>9. ScanRight'
    BY <1>1, <2>2, <2>4, <2>7, <2>8 DEF ScanRight, WhileReading, Harvesting, SameFindings, A, B, C, D
  <2> QED
    BY <2>3, <2>9 DEF ScanInv
<1> QED
  BY <1>5, <1>6, SourceWritten

-----------------------------------------------------------------------------
(* Every scan                                                              *)

LEMMA ScanInvStays == ASSUME ScanInv, [ScanNext]_scanVars PROVE ScanInv'
<1>1. CASE \/ \E e \in Edits : Edit(e[1], e[2])
           \/ \E r \in Renames : CommitRename(r[1], r[2])
           \/ CommitDecision
  BY <1>1, RepositoryChanges
<1>2. CASE (\E full, deep \in BOOLEAN : StartScan(full, deep)) \/ TriggerScan \/ GiveUp \/ FinishScan
  BY <1>2, ScanStarts
<1>3. CASE \E p \in Paths : HashFile(p)
  BY <1>3, FileHashed
<1>4. CASE CollectFiles
  BY <1>4, FilesCollected
<1>5. CASE ParseFile
  BY <1>5, FileParsed
<1>6. CASE PersistAll
  BY <1>6, NodesWritten
<1>7. CASE PersistEntities
  BY <1>7, VersionsStep
<1>8. CASE PersistRelations
  BY <1>8, RelationsStep
<1>9. CASE PersistRenames
  BY <1>9, RenamesStep
<1>10. CASE BackfillSource
  BY <1>10, SourceStep
<1>11. CASE UNCHANGED scanVars
  BY <1>11 DEF scanVars, repoVars, kbVars, ScanInv, ScanTypes, ScanPlace, ScanRight
<1> QED
  BY <1>1, <1>2, <1>3, <1>4, <1>5, <1>6, <1>7, <1>8, <1>9, <1>10, <1>11 DEF ScanNext

LEMMA ScanInvHolds == ScanSpec => []ScanInv
<1>1. ScanInv /\ [ScanNext]_scanVars => ScanInv'
  BY ScanInvStays
<1> QED
  BY <1>1, ScanInitHolds, PTL DEF ScanSpec

LEMMA KeptOfBoth ==
  ASSUME NEW l, NEW s, NEW t, Listed(s), Listed(t), KeptIn(l, s), KeptIn(l, t)
  PROVE  Listed(s \o t) /\ KeptIn(l, s \o t)
<1> DEFINE u == s \o t
           Kept(w) == IF "body" \in DOMAIN w THEN w.did \in DOMAIN l.decided ELSE w \in l.anchors /\ w.did \in DOMAIN l.decided
<1>1. Listed(u) /\ Range(u) = Range(s) \cup Range(t)
  BY Concats
<1> HIDE DEF u
<1>2. (\A i \in DOMAIN s : Kept(s[i])) /\ (\A i \in DOMAIN t : Kept(t[i]))
  BY DEF KeptIn
<1> HIDE DEF Kept
<1>3. \A w \in Range(s) \cup Range(t) : Kept(w)
  BY <1>2 DEF Range
<1>4. \A i \in DOMAIN u : Kept(u[i])
  BY <1>1, <1>3 DEF Range
<1>5. KeptIn(l, u)
  BY <1>4 DEF KeptIn, Kept
<1> QED
  BY <1>1, <1>5 DEF u

\* For any repository, any changes and any scans, broken off or not: a scan
\* that ran to its end while nothing changed has recorded the repository.
THEOREM ScansRecord == ScanSpec => []ScanRecordsRepository
<1>1. ASSUME ScanInv PROVE ScanRecordsRepository
  <2> SUFFICES ASSUME scan.pc = "done", scan.quiet
               PROVE  /\ lastCommit = Len(commits)
                      /\ \A p \in scan.seen : nodes[p].hash = files[p] /\ (p \notin scan.gone => nodes[p].status = "active")
                      /\ scan.full \/ \A p \in Paths : nodes[p].status = "active" => files[p] # NoFile
                      /\ scan.full \/ ~incomplete => \A p \in scan.seen : entities[p] # << >> /\ Last(entities[p]) = files[p]
                      /\ scan.full /\ scan.deep => \A p \in scan.seen : {p} \X ImportsOf[files[p]] \subseteq imports
                      /\ Recorded(ADRWrites(files) \o AnnotationWrites(files) \o DocWrites(files, scan.seen) \o CommitWrites(commits))
    BY DEF ScanRecordsRepository
  <2>1. /\ lastCommit = Len(commits) /\ NodesRight(scan, nodes, files)
        /\ scan.full \/ ~incomplete => \A p \in scan.seen : NewestIs(entities, p, files[p])
        /\ scan.full /\ scan.deep => \A p \in scan.seen : {p} \X ImportsOf[files[p]] \subseteq imports
    BY <1>1 DEF ScanInv, ScanRight, Harvesting
  <2> DEFINE A == ADRWrites(files)
             B == AnnotationWrites(files)
             C == DocWrites(files, scan.seen)
             D == CommitWrites(commits)
  <2>2. KeptIn(log, A) /\ KeptIn(log, B) /\ KeptIn(log, C) /\ KeptIn(log, D)
    BY <1>1 DEF ScanInv, ScanRight
  <2>3. files \in Trees /\ commits \in Seq(CommitRecs)
    BY <1>1 DEF ScanInv, ScanTypes
  <2>4. Listed(A) /\ Listed(B) /\ Listed(C) /\ Listed(D)
    BY <2>3, ADRsAreWhole, AnnotationsAreWhole, DocsAreWhole, CommitsAreWhole DEF Whole
  <2> HIDE DEF A, B, C, D
  <2>5. Listed(A \o B) /\ KeptIn(log, A \o B)
    BY <2>2, <2>4, KeptOfBoth
  <2>6. Listed(A \o B \o C) /\ KeptIn(log, A \o B \o C)
    BY <2>2, <2>4, <2>5, KeptOfBoth
  <2>7. KeptIn(log, A \o B \o C \o D)
    BY <2>2, <2>4, <2>6, KeptOfBoth
  <2>8. Recorded(A \o B \o C \o D)
    BY <2>7 DEF Recorded, KeptIn
  <2> QED
    BY <2>1, <2>8 DEF NodesRight, NewestIs, A, B, C, D
<1> QED
  BY <1>1, ScanInvHolds, PTL

\* What an action of the scan does to the versions and to the log.
LEMMA HistoryOfStep == ASSUME ScanInv, ScanNext PROVE HistoryGrows
<1>1. /\ entities \in [Paths -> Seq(Contents)] /\ LogIs(log)
  BY DEF ScanInv, ScanTypes
<1>2. CASE UNCHANGED <<entities, log>>
  BY <1>2 DEF HistoryGrows
<1>3. CASE PersistEntities
  <2>1. log' = log
    BY <1>3 DEF PersistEntities
  <2>2. \E a, k : VersionsOf(entities, entities', scan.batch, a, k)
    BY <1>3, VersionsAppended
  <2>3. scan.batch \in Seq(FileNode)
    BY <1>3, VersionsAppended
  <2>4. ASSUME NEW p \in Paths, entities'[p] # entities[p]
        PROVE  \E c \in Contents : entities'[p] = Append(entities[p], c) /\ (entities[p] = << >> \/ Last(entities[p]) # c)
    <3>1. PICK i \in DOMAIN scan.batch : entities'[p] = Extended(entities[p], scan.batch[i].hash)
      BY <2>2, <2>4 DEF VersionsOf
    <3>2. scan.batch[i] \in FileNode
      BY <2>3, <3>1
    <3>3. scan.batch[i].hash \in Contents
      BY <3>2, FileNodesAre
    <3> QED
      BY <2>4, <3>1, <3>3 DEF Extended
  <2> QED
    BY <2>1, <2>4 DEF HistoryGrows
<1>4. CASE BackfillSource
  <2>1. entities' = entities
    BY <1>4 DEF BackfillSource
  <2>2. LogGrows(log, log')
    BY <1>4, SourceWritten
  <2> QED
    BY <2>1, <2>2 DEF HistoryGrows, LogGrows
<1>5. PersistEntities \/ BackfillSource \/ UNCHANGED <<entities, log>>
  <2>1. CASE \E e \in Edits : Edit(e[1], e[2])
    BY <2>1 DEF Edit, kbVars
  <2>2. CASE \E r \in Renames : CommitRename(r[1], r[2])
    BY <2>2 DEF CommitRename, kbVars
  <2>3. CASE CommitDecision
    BY <2>3 DEF CommitDecision, kbVars
  <2>4. CASE \E full, deep \in BOOLEAN : StartScan(full, deep)
    BY <2>4 DEF StartScan, kbVars
  <2>5. CASE \E p \in Paths : HashFile(p)
    BY <2>5 DEF HashFile, kbVars
  <2>6. CASE TriggerScan \/ CollectFiles \/ ParseFile \/ GiveUp \/ FinishScan
    BY <2>6 DEF TriggerScan, CollectFiles, ParseFile, GiveUp, FinishScan, kbVars
  <2>7. CASE PersistAll \/ PersistRelations \/ PersistRenames
    BY <2>7 DEF PersistAll, PersistRelations, PersistRenames
  <2> QED
    BY <2>1, <2>2, <2>3, <2>4, <2>5, <2>6, <2>7 DEF ScanNext
<1> QED
  BY <1>2, <1>3, <1>4, <1>5

\* For any repository, any changes and any scans, broken off or not: versions
\* are only appended, each other than the one before, and no decision or anchor
\* that is recorded ever changes.
THEOREM HistoryStays == ScanSpec => HistoryOnlyGrows
<1>1. ScanInv /\ [ScanNext]_scanVars => [HistoryGrows]_scanVars
  BY HistoryOfStep
<1> QED
  BY <1>1, ScanInvHolds, PTL DEF ScanSpec, HistoryOnlyGrows

-----------------------------------------------------------------------------
(* Sequences, place by place *)

\* One sequence after another; the provers need not look into it.
Joined(s, t) == s \o t

\* What two sequences are side by side, and when one is a prefix.
LEMMA SideBySide ==
  ASSUME NEW s, NEW t, Listed(s), Listed(t)
  PROVE  /\ Listed(Joined(s, t))
         /\ Len(s) \in Nat /\ Len(t) \in Nat /\ Len(Joined(s, t)) = Len(s) + Len(t)
         /\ \A i \in 1..Len(s) : Joined(s, t)[i] = s[i]
         /\ \A i \in 1..Len(t) : Joined(s, t)[Len(s) + i] = t[i]
         /\ DOMAIN s = 1..Len(s) /\ DOMAIN t = 1..Len(t)
<1> DEFINE S == Range(s) \cup Range(t)
           u == s \o t
<1>1. s \in Seq(S) /\ t \in Seq(S)
  <2>1. s \in Seq(Range(s)) /\ t \in Seq(Range(t))
    BY DEF Listed
  <2>2. ASSUME NEW A, NEW B, A \subseteq B, NEW r \in Seq(A) PROVE r \in Seq(B)
    BY <2>2
  <2> QED
    BY <2>1, <2>2
<1> HIDE DEF S
<1>2. /\ Len(u) = Len(s) + Len(t) /\ Len(s) \in Nat /\ Len(t) \in Nat
      /\ DOMAIN s = 1..Len(s) /\ DOMAIN t = 1..Len(t)
      /\ \A i \in 1..Len(s) : u[i] = s[i]
      /\ \A i \in Len(s) + 1 .. Len(u) : u[i] = t[i - Len(s)]
  BY <1>1
<1> HIDE DEF u
<1>3. ASSUME NEW i \in 1..Len(t) PROVE u[Len(s) + i] = t[i]
  <2>1. Len(s) + i \in Len(s) + 1 .. Len(u) /\ (Len(s) + i) - Len(s) = i
    BY <1>2
  <2> QED
    BY <1>2, <2>1
<1>4. u = Joined(s, t) /\ Listed(u)
  BY Concats DEF u, Joined
<1> QED
  BY <1>2, <1>3, <1>4

\* Sequences with the same places are one.
LEMMA SamePlaces ==
  ASSUME NEW s, NEW t, Listed(s), Listed(t)
  PROVE  s = t <=> Len(s) = Len(t) /\ \A i \in 1..Len(s) : s[i] = t[i]
<1>1. s = [i \in 1..Len(s) |-> s[i]] /\ t = [i \in 1..Len(t) |-> t[i]]
  BY ListedIs
<1> QED
  BY <1>1

\* What a prefix is, place by place.
LEMMA PrefixIs ==
  ASSUME NEW s, NEW t, Listed(s), Listed(t)
  PROVE  IsPrefix(s, t) <=> Len(s) <= Len(t) /\ \A i \in 1..Len(s) : s[i] = t[i]
<1>1. Len(s) \in Nat /\ Len(t) \in Nat
  BY ListedIs
<1>2. ASSUME NEW u, Listed(u), Len(s) <= Len(u) PROVE SubSeq(u, 1, Len(s)) = [i \in 1..Len(s) |-> u[i]]
  <2>1. u \in Seq(Range(u)) /\ Len(u) \in Nat
    BY <1>2 DEF Listed
  <2> QED
    BY <1>1, <1>2, <2>1
<1>3. CASE Len(s) <= Len(t)
  <2>1. SubSeq(s, 1, Len(s)) = [i \in 1..Len(s) |-> s[i]] /\ SubSeq(t, 1, Len(s)) = [i \in 1..Len(s) |-> t[i]]
    BY <1>1, <1>2, <1>3
  <2>2. [i \in 1..Len(s) |-> s[i]] = [i \in 1..Len(s) |-> t[i]] <=> \A i \in 1..Len(s) : s[i] = t[i]
    OBVIOUS
  <2> QED
    BY <1>3, <2>1, <2>2 DEF IsPrefix
<1>4. CASE ~(Len(s) <= Len(t))
  BY <1>4 DEF IsPrefix
<1> QED
  BY <1>3, <1>4

\* Joining is associative.
LEMMA Associates ==
  ASSUME NEW s, NEW t, NEW u, Listed(s), Listed(t), Listed(u)
  PROVE  Joined(Joined(s, t), u) = Joined(s, Joined(t, u))
<1> DEFINE l == Joined(Joined(s, t), u)
           r == Joined(s, Joined(t, u))
           st == Joined(s, t)
           tu == Joined(t, u)
<1>1. Listed(st) /\ Listed(tu)
  BY SideBySide
<1>2. Listed(l) /\ Listed(r)
  BY <1>1, SideBySide
<1>3. /\ Len(st) = Len(s) + Len(t) /\ Len(tu) = Len(t) + Len(u)
      /\ Len(l) = Len(st) + Len(u) /\ Len(r) = Len(s) + Len(tu)
      /\ Len(s) \in Nat /\ Len(t) \in Nat /\ Len(u) \in Nat
  BY <1>1, SideBySide
<1>4. /\ \A i \in 1..Len(st) : l[i] = st[i]
      /\ \A i \in 1..Len(u) : l[Len(st) + i] = u[i]
      /\ \A i \in 1..Len(s) : r[i] = s[i]
      /\ \A i \in 1..Len(tu) : r[Len(s) + i] = tu[i]
  BY <1>1, SideBySide
<1>5. /\ \A i \in 1..Len(s) : st[i] = s[i]
      /\ \A i \in 1..Len(t) : st[Len(s) + i] = t[i]
      /\ \A i \in 1..Len(t) : tu[i] = t[i]
      /\ \A i \in 1..Len(u) : tu[Len(t) + i] = u[i]
  BY SideBySide
<1> HIDE DEF l, r, st, tu
<1>6. ASSUME NEW i \in 1..Len(l) PROVE l[i] = r[i]
  <2>1. CASE i <= Len(s)
    BY <1>3, <1>4, <1>5, <2>1
  <2>2. CASE i > Len(s) /\ i <= Len(st)
    <3>1. PICK j \in 1..Len(t) : i = Len(s) + j
      <4>1. i - Len(s) \in 1..Len(t) /\ i = Len(s) + (i - Len(s))
        BY <1>3, <2>2
      <4> QED
        BY <4>1
    <3>2. j \in 1..Len(tu) /\ i \in 1..Len(st)
      BY <1>3, <2>2
    <3>3. l[i] = t[j]
      BY <1>4, <1>5, <3>1, <3>2
    <3>4. r[i] = t[j]
      BY <1>4, <1>5, <3>1, <3>2
    <3> QED
      BY <3>3, <3>4
  <2>3. CASE i > Len(st)
    <3>1. PICK j \in 1..Len(u) : i = Len(st) + j
      <4>1. i - Len(st) \in 1..Len(u) /\ i = Len(st) + (i - Len(st))
        BY <1>3, <2>3
      <4> QED
        BY <4>1
    <3>2. Len(t) + j \in 1..Len(tu) /\ i = Len(s) + (Len(t) + j)
      BY <1>3, <3>1
    <3>3. l[i] = u[j]
      BY <1>4, <3>1
    <3>4. r[i] = tu[Len(t) + j]
      BY <1>4, <3>2
    <3>5. tu[Len(t) + j] = u[j]
      BY <1>5
    <3> QED
      BY <3>3, <3>4, <3>5
  <2> QED
    BY <1>3, <2>1, <2>2, <2>3
<1>7. Len(l) = Len(r)
  BY <1>3
<1>8. l = r
  BY <1>2, <1>6, <1>7, SamePlaces
<1> QED
  BY <1>8 DEF l, r, st, tu

-----------------------------------------------------------------------------
(* Escaped ids *)

\* What n sequences make one after the other.
RunsOf(h, n, f) ==
  /\ h[0] = << >> /\ \A k \in 1..n : h[k] = h[k - 1] \o f[k]
  /\ \A k \in 0..n : Listed(h[k])

\* FlattenSeq takes one sequence after the other.
LEMMA FlatRuns ==
  ASSUME NEW n \in Nat, NEW f, f = [i \in 1..n |-> f[i]], \A i \in 1..n : Listed(f[i])
  PROVE  \E h : RunsOf(h, n, f) /\ FlattenSeq(f) = h[n]
<1> DEFINE S == UNION {Range(f[i]) : i \in 1..n}
           Is(h) == h = [i \in 1..n |-> IF i = 1 THEN f[i] ELSE h[i - 1] \o f[i]]
           flatten == CHOOSE h : Is(h)
<1>1. \A i \in 1..n : f[i] \in Seq(S)
  <2> SUFFICES ASSUME NEW i \in 1..n PROVE f[i] \in Seq(S)
    OBVIOUS
  <2>1. f[i] \in Seq(Range(f[i])) /\ Range(f[i]) \subseteq S
    BY DEF Listed
  <2> QED
    BY <2>1
<1>2. Len(f) = n
  <2>1. f \in Seq({f[i] : i \in 1..n}) /\ DOMAIN f = 1..n
    OBVIOUS
  <2> QED
    BY <2>1
<1>3. FlattenSeq(f) = IF n = 0 THEN f ELSE flatten[n]
  BY <1>2 DEF FlattenSeq
<1>4. CASE n = 0
  <2> DEFINE h == [k \in 0..n |-> << >>]
  <2>1. f = << >> /\ h[0] = << >> /\ \A k \in 0..n : h[k] = << >>
    BY <1>4
  <2> HIDE DEF h
  <2>2. RunsOf(h, n, f)
    BY <1>4, <2>1, ListedIs DEF RunsOf
  <2> QED
    BY <1>3, <1>4, <2>1, <2>2
<1>5. CASE n # 0
  <2> DEFINE step == [x \in Seq(S) \X (1..n) |-> x[1] \o f[x[2]]]
             X == [k \in 0..n |-> Seq(S)]
  <2> HIDE DEF S
  <2>1. << >> \in X[0] /\ \A k \in 1..n : \A w \in X[k - 1] : step[<<w, k>>] = w \o f[k] /\ step[<<w, k>>] \in X[k]
    <3>1. << >> \in Seq(S) /\ 0 \in 0..n
      OBVIOUS
    <3>2. ASSUME NEW k \in 1..n, NEW w \in X[k - 1] PROVE step[<<w, k>>] = w \o f[k] /\ step[<<w, k>>] \in X[k]
      <4>1. k \in 0..n /\ k - 1 \in 0..n
        OBVIOUS
      <4>2. w \in Seq(S)
        BY <4>1
      <4>3. step[<<w, k>>] = w \o f[k]
        BY <4>2
      <4>4. w \o f[k] \in Seq(S)
        BY <1>1, <4>2
      <4> QED
        BY <4>1, <4>3, <4>4
    <3> QED
      BY <3>1, <3>2
  <2>2. \A k \in 0..n : X[k] = Seq(S)
    OBVIOUS
  <2> HIDE DEF step, X
  <2>3. PICK g : Folds(g, n, << >>, step, X)
    BY <2>1, FoldExists
  <2>4. \A k \in 0..n : g[k] = (IF k = 0 THEN << >> ELSE step[<<g[k - 1], k>>]) /\ g[k] \in X[k]
    BY <2>3 DEF Folds
  <2>5. \A k \in 1..n : g[k] = g[k - 1] \o f[k]
    <3> TAKE k \in 1..n
    <3>1. k \in 0..n /\ k - 1 \in 0..n /\ k # 0
      OBVIOUS
    <3> QED
      BY <2>1, <2>4, <3>1
  <2>6. \A k \in 0..n : Listed(g[k])
    BY <2>2, <2>4, ListedIs
  <2>7. g[0] = << >>
    <3>1. 0 \in 0..n
      OBVIOUS
    <3> QED
      BY <2>4, <3>1
  <2>8. RunsOf(g, n, f)
    BY <2>5, <2>6, <2>7 DEF RunsOf
  <2> DEFINE h == [i \in 1..n |-> g[i]]
  <2>9. Is(h)
    <3>1. ASSUME NEW i \in 1..n PROVE h[i] = IF i = 1 THEN f[i] ELSE h[i - 1] \o f[i]
      <4>1. CASE i = 1
        <5>1. g[1] = g[0] \o f[1]
          <6>1. 1 \in 1..n /\ 1 - 1 = 0
            BY <4>1
          <6> QED
            BY <2>5, <6>1
        <5>2. f[1] \in Seq(S)
          BY <1>1, <4>1
        <5>3. << >> \o f[1] = f[1]
          BY <5>2
        <5> QED
          BY <2>7, <4>1, <5>1, <5>3
      <4>2. CASE i # 1
        <5>1. i - 1 \in 1..n
          BY <4>2
        <5> QED
          BY <2>5, <4>2, <5>1
      <4> QED
        BY <4>1, <4>2
    <3> QED
      BY <3>1
  <2>10. Is(flatten)
    BY <2>9
  <2> HIDE DEF flatten
  <2>11. \A i \in 1..n : flatten[i] = IF i = 1 THEN f[i] ELSE flatten[i - 1] \o f[i]
    BY <2>10
  <2> DEFINE T == {k \in 0..n : k # 0 => flatten[k] = g[k]}
  <2>12. 0 \in T
    OBVIOUS
  <2>13. ASSUME NEW k \in 1..n, k - 1 \in T PROVE k \in T
    <3>1. k \in 0..n
      OBVIOUS
    <3>2. CASE k = 1
      <4>1. flatten[k] = f[k] /\ h[k] = f[k]
        BY <2>9, <2>11, <3>2
      <4> QED
        BY <3>1, <4>1
    <3>3. CASE k # 1
      <4>1. flatten[k] = flatten[k - 1] \o f[k]
        BY <2>11, <3>3
      <4>2. flatten[k - 1] = g[k - 1]
        <5>1. k - 1 \in T /\ k - 1 # 0
          BY <2>13, <3>3
        <5> QED
          BY <5>1
      <4> QED
        BY <2>5, <3>1, <4>1, <4>2
    <3> QED
      BY <3>2, <3>3
  <2> HIDE DEF T
  <2>14. n \in T
    BY <2>12, <2>13, AllReached
  <2>15. flatten[n] = g[n]
    BY <1>5, <2>14 DEF T
  <2> QED
    BY <1>3, <1>5, <2>8, <2>15
<1> QED
  BY <1>4, <1>5

\* One character becomes itself, or a backslash and a letter that tells which.
LEMMA EscapeCharIs ==
  \A c : /\ Listed(EscapeChar(c)) /\ Len(EscapeChar(c)) = (IF c \in {Colon, Backslash} THEN 2 ELSE 1)
         /\ EscapeChar(c)[1] = (IF c \in {Colon, Backslash} THEN Backslash ELSE c)
         /\ c = Colon => EscapeChar(c)[2] = "c"
         /\ c = Backslash => EscapeChar(c)[2] = Backslash
         /\ Colon \notin Range(EscapeChar(c))
         /\ Colon # Backslash /\ Backslash # "c" /\ Colon # "c"
<1> TAKE c
<1>1. Colon # Backslash /\ Backslash # "c" /\ Colon # "c"
  BY DEF Colon, Backslash
<1> HIDE DEF Colon, Backslash
<1>2. CASE c = Backslash
  <2>1. EscapeChar(c) = <<Backslash, Backslash>>
    BY <1>1, <1>2 DEF EscapeChar
  <2> QED
    BY <1>1, <1>2, <2>1, ListedIs
<1>3. CASE c = Colon
  <2>1. EscapeChar(c) = <<Backslash, "c">>
    BY <1>1, <1>3 DEF EscapeChar
  <2> QED
    BY <1>1, <1>3, <2>1, ListedIs
<1>4. CASE c \notin {Colon, Backslash}
  <2>1. EscapeChar(c) = <<c>>
    BY <1>4 DEF EscapeChar
  <2> QED
    BY <1>1, <1>4, <2>1, ListedIs
<1> QED
  BY <1>2, <1>3, <1>4

\* The escaped id after its first k characters.
Escaping(h, id) ==
  /\ h[0] = << >> /\ \A k \in 1..Len(id) : h[k] = Joined(h[k - 1], EscapeChar(id[k]))
  /\ \A k \in 0..Len(id) : Listed(h[k])
  /\ EscapeID(id) = h[Len(id)]

\* An escaped id has no colon.
LEMMA EscapedIs ==
  ASSUME NEW id, Listed(id)
  PROVE  /\ Listed(EscapeID(id)) /\ Colon \notin Range(EscapeID(id))
         /\ \A i \in 1..Len(EscapeID(id)) : EscapeID(id)[i] # Colon
         /\ \E h : Escaping(h, id)
<1> DEFINE n == Len(id)
           f == [i \in DOMAIN id |-> EscapeChar(id[i])]
<1>1. n \in Nat /\ DOMAIN id = 1..n
  BY DEF Listed
<1> HIDE DEF n
<1>2. f = [i \in 1..n |-> f[i]] /\ \A i \in 1..n : f[i] = EscapeChar(id[i]) /\ Listed(f[i]) /\ Colon \notin Range(f[i])
  BY <1>1, EscapeCharIs
<1>3. EscapeID(id) = FlattenSeq(f)
  BY DEF EscapeID
<1> HIDE DEF f
<1>4. Listed(FlattenSeq(f)) /\ Range(FlattenSeq(f)) = UNION {Range(f[i]) : i \in 1..n}
  BY <1>1, <1>2, Flat
<1>5. Colon \notin Range(EscapeID(id))
  BY <1>2, <1>3, <1>4
<1>6. PICK h : RunsOf(h, n, f) /\ FlattenSeq(f) = h[n]
  BY <1>1, <1>2, FlatRuns
<1>7. Escaping(h, id)
  BY <1>2, <1>3, <1>6 DEF RunsOf, Escaping, Joined, n
<1>8. DOMAIN EscapeID(id) = 1..Len(EscapeID(id))
  BY <1>3, <1>4 DEF Listed
<1> QED
  BY <1>3, <1>4, <1>5, <1>7, <1>8 DEF Range

\* What an id begins with stays where it is.
LEMMA StepsLast ==
  ASSUME NEW id, Listed(id), NEW h, Escaping(h, id)
  PROVE  \A k \in 0..Len(id) : /\ Len(h[k]) \in Nat /\ Len(h[k]) <= Len(EscapeID(id))
                               /\ \A i \in 1..Len(h[k]) : EscapeID(id)[i] = h[k][i]
<1> DEFINE n == Len(id)
           OK(k) == /\ Len(h[k]) \in Nat /\ Len(h[k]) <= Len(h[n])
                    /\ \A i \in 1..Len(h[k]) : h[n][i] = h[k][i]
           T == {m \in 0..n : OK(n - m)}
<1>1. n \in Nat /\ EscapeID(id) = h[n]
  BY ListedIs DEF Escaping
<1>2. 0 \in T
  <2>1. Len(h[n]) \in Nat
    BY <1>1, ListedIs DEF Escaping
  <2> QED
    BY <1>1, <2>1
<1>3. ASSUME NEW m \in 1..n, m - 1 \in T PROVE m \in T
  <2>1. PICK k \in 1..n : k = n - (m - 1)
    BY <1>1
  <2>2. n - m = k - 1 /\ k - 1 \in 0..n /\ k \in 0..n /\ m \in 0..n
    BY <1>1, <2>1
  <2>3. OK(k)
    BY <1>3, <2>1
  <2>4. h[k] = Joined(h[k - 1], EscapeChar(id[k])) /\ Listed(h[k - 1])
    BY <2>2 DEF Escaping
  <2>5. /\ Len(h[k - 1]) \in Nat /\ Len(h[k - 1]) <= Len(h[k])
        /\ \A i \in 1..Len(h[k - 1]) : h[k][i] = h[k - 1][i]
    <3> DEFINE x == h[k - 1]
               y == EscapeChar(id[k])
    <3>1. Listed(x) /\ Listed(y) /\ Len(y) \in Nat
      BY <2>4, EscapeCharIs, ListedIs
    <3>2. h[k] = Joined(x, y)
      BY <2>4
    <3> HIDE DEF x, y
    <3>3. /\ Len(x) \in Nat /\ Len(Joined(x, y)) = Len(x) + Len(y)
          /\ \A i \in 1..Len(x) : Joined(x, y)[i] = x[i]
      BY <3>1, SideBySide
    <3>4. Len(x) \in Nat /\ Len(x) <= Len(h[k]) /\ \A i \in 1..Len(x) : h[k][i] = x[i]
      BY <3>1, <3>2, <3>3
    <3> QED
      BY <3>4 DEF x
  <2>6. OK(k - 1)
    <3>1. Len(h[n]) \in Nat
      BY <1>1, ListedIs DEF Escaping
    <3> QED
      BY <2>3, <2>5, <3>1
  <2> QED
    BY <2>2, <2>6
<1>4. \A m \in 0..n : m \in T
  <2> HIDE DEF T
  <2> QED
    BY <1>1, <1>2, <1>3, AllReached
<1>5. ASSUME NEW k \in 0..n PROVE OK(k)
  <2>1. n - k \in 0..n /\ n - (n - k) = k
    BY <1>1
  <2>2. n - k \in T
    BY <1>4, <2>1
  <2> QED
    BY <2>1, <2>2
<1> QED
  BY <1>1, <1>5

\* No escape begins another: an escaped id begins another only if the id does.
LEMMA EscapesApart ==
  ASSUME NEW s, NEW t, Listed(s), Listed(t), IsPrefix(EscapeID(s), EscapeID(t))
  PROVE  IsPrefix(s, t)
<1>1. PICK g : Escaping(g, s)
  BY EscapedIs
<1>2. PICK h : Escaping(h, t)
  BY EscapedIs
<1> DEFINE x == EscapeID(s)
           y == EscapeID(t)
<1>3. /\ Len(s) \in Nat /\ Len(t) \in Nat /\ Len(x) \in Nat /\ Len(y) \in Nat
      /\ Len(x) <= Len(y) /\ \A i \in 1..Len(x) : x[i] = y[i]
  <2>1. Listed(x) /\ Listed(y)
    BY EscapedIs
  <2> QED
    BY <2>1, ListedIs, PrefixIs
<1>4. \A k \in 0..Len(s) : /\ Len(g[k]) \in Nat /\ Len(g[k]) <= Len(x)
                           /\ \A i \in 1..Len(g[k]) : x[i] = g[k][i]
  BY <1>1, StepsLast
<1>5. \A k \in 0..Len(t) : /\ Len(h[k]) \in Nat /\ Len(h[k]) <= Len(y)
                           /\ \A i \in 1..Len(h[k]) : y[i] = h[k][i]
  BY <1>2, StepsLast
<1>6. y = h[Len(t)]
  BY <1>2 DEF Escaping
<1> HIDE DEF x, y
<1> DEFINE T == {k \in 0..Len(s) : k <= Len(t) /\ Len(g[k]) = Len(h[k]) /\ \A i \in 1..k : s[i] = t[i]}
<1>7. 0 \in T
  BY <1>1, <1>2, <1>3 DEF Escaping
<1>8. ASSUME NEW k \in 1..Len(s), k - 1 \in T PROVE k \in T
  <2> DEFINE m == Len(g[k - 1])
             a == EscapeChar(s[k])
             b == EscapeChar(t[k])
  <2>1. k \in 0..Len(s) /\ k - 1 \in 0..Len(s) /\ k - 1 <= Len(t) /\ k - 1 \in 0..Len(t)
    BY <1>3, <1>8
  <2>2. m \in Nat /\ m = Len(h[k - 1]) /\ \A i \in 1..(k - 1) : s[i] = t[i]
    BY <1>4, <1>8, <2>1
  <2>3. Len(g[k]) = m + Len(a) /\ Len(a) \in 1..2 /\ \A i \in 1..Len(a) : g[k][m + i] = a[i]
    <3>1. g[k] = Joined(g[k - 1], a) /\ Listed(g[k - 1])
      BY <1>1, <2>1 DEF Escaping
    <3>2. Listed(a) /\ Len(a) \in 1..2
      BY EscapeCharIs
    <3> HIDE DEF a
    <3>3. /\ Len(Joined(g[k - 1], a)) = m + Len(a)
          /\ \A i \in 1..Len(a) : Joined(g[k - 1], a)[m + i] = a[i]
      BY <3>1, <3>2, SideBySide
    <3> QED
      BY <3>1, <3>2, <3>3
  <2> HIDE DEF m
  <2>4. Len(g[k]) <= Len(x) /\ \A i \in 1..Len(a) : y[m + i] = a[i]
    <3>1. Len(g[k]) <= Len(x) /\ \A i \in 1..Len(g[k]) : x[i] = g[k][i]
      BY <1>4, <2>1
    <3> HIDE DEF a
    <3>2. ASSUME NEW i \in 1..Len(a) PROVE y[m + i] = a[i]
      <4>1. m + i \in 1..Len(g[k]) /\ m + i \in 1..Len(x)
        BY <1>3, <2>2, <2>3, <3>1
      <4> QED
        BY <1>3, <2>3, <3>1, <4>1
    <3> QED
      BY <3>1, <3>2
  <2>5. k <= Len(t)
    <3>1. SUFFICES ASSUME k - 1 = Len(t) PROVE FALSE
      BY <1>3, <2>1
    <3>2. Len(y) = m
      BY <1>6, <2>2, <3>1
    <3>3. PICK l \in 1..2 : l = Len(a)
      BY <2>3
    <3>4. Len(g[k]) = m + l /\ Len(g[k]) <= Len(x) /\ Len(x) <= m /\ Len(x) \in Nat /\ m \in Nat
      BY <1>3, <2>2, <2>3, <2>4, <3>2, <3>3
    <3> QED
      BY <3>4
  <2>6. k \in 1..Len(t) /\ k \in 0..Len(t)
    BY <2>5
  <2>7. Len(h[k]) = m + Len(b) /\ Len(b) \in 1..2 /\ \A i \in 1..Len(b) : h[k][m + i] = b[i]
    <3>1. h[k] = Joined(h[k - 1], b) /\ Listed(h[k - 1])
      BY <1>2, <2>1, <2>6 DEF Escaping
    <3>2. Listed(b) /\ Len(b) \in 1..2
      BY EscapeCharIs
    <3> HIDE DEF b
    <3>3. /\ Len(Joined(h[k - 1], b)) = m + Len(b)
          /\ \A i \in 1..Len(b) : Joined(h[k - 1], b)[m + i] = b[i]
      <4> DEFINE w == h[k - 1]
      <4>1. Listed(w) /\ Listed(b) /\ m = Len(w)
        BY <2>2, <3>1, <3>2
      <4> HIDE DEF w
      <4>2. /\ Len(Joined(w, b)) = Len(w) + Len(b)
            /\ \A i \in 1..Len(b) : Joined(w, b)[Len(w) + i] = b[i]
        BY <4>1, SideBySide
      <4>3. /\ Len(Joined(w, b)) = m + Len(b)
            /\ \A i \in 1..Len(b) : Joined(w, b)[m + i] = b[i]
        BY <4>1, <4>2
      <4> QED
        BY <4>3 DEF w
    <3> QED
      BY <3>1, <3>2, <3>3
  <2>8. \A i \in 1..Len(b) : y[m + i] = b[i]
    <3>1. \A i \in 1..Len(h[k]) : y[i] = h[k][i]
      BY <1>5, <2>6
    <3> HIDE DEF b
    <3> TAKE i \in 1..Len(b)
    <3>2. m + i \in 1..Len(h[k])
      BY <2>2, <2>7
    <3> QED
      BY <2>7, <3>1, <3>2
  <2>9. s[k] = t[k]
    <3>1. 1 \in 1..Len(a) /\ 1 \in 1..Len(b)
      <4> HIDE DEF a, b
      <4>1. PICK m1 \in 1..2, m2 \in 1..2 : m1 = Len(a) /\ m2 = Len(b)
        BY <2>3, <2>7
      <4>2. 1 \in 1..m1 /\ 1 \in 1..m2
        OBVIOUS
      <4> QED
        BY <4>1, <4>2
    <3>2. a[1] = b[1]
      BY <2>4, <2>8, <3>1
    <3>3. CASE s[k] \in {Colon, Backslash}
      <4>1. Len(a) = 2 /\ a[1] = Backslash
        BY <3>3, EscapeCharIs
      <4>2. t[k] \in {Colon, Backslash} /\ Len(b) = 2
        BY <3>2, <4>1, EscapeCharIs
      <4>3. a[2] = b[2]
        <5>1. 2 \in 1..Len(a) /\ 2 \in 1..Len(b)
          BY <4>1, <4>2
        <5> QED
          BY <2>4, <2>8, <5>1
      <4> HIDE DEF Colon, Backslash
      <4> QED
        BY <3>3, <4>2, <4>3, EscapeCharIs
    <3>4. CASE s[k] \notin {Colon, Backslash}
      <4>1. a[1] = s[k]
        BY <3>4, EscapeCharIs
      <4>2. t[k] \notin {Colon, Backslash}
        BY <3>2, <3>4, <4>1, EscapeCharIs
      <4>3. b[1] = t[k]
        BY <4>2, EscapeCharIs
      <4> QED
        BY <3>2, <4>1, <4>3
    <3> QED
      BY <3>3, <3>4
  <2>10. a = b
    BY <2>9
  <2> HIDE DEF a, b
  <2>11. Len(g[k]) = Len(h[k]) /\ \A i \in 1..k : s[i] = t[i]
    BY <2>2, <2>3, <2>7, <2>9, <2>10
  <2> QED
    BY <2>1, <2>5, <2>11
<1> HIDE DEF T
<1>9. Len(s) \in T
  BY <1>3, <1>7, <1>8, AllReached
<1>10. Len(s) <= Len(t) /\ \A i \in 1..Len(s) : s[i] = t[i]
  BY <1>9 DEF T
<1> QED
  BY <1>10, PrefixIs

\* Before its first colon a text without one can be told from any other.
LEMMA UpToColon ==
  ASSUME NEW x, NEW y, NEW z, Listed(x), Listed(y), Listed(z),
         \A i \in 1..Len(x) : x[i] # Colon, \A i \in 1..Len(y) : y[i] # Colon
  PROVE  IsPrefix(Joined(x, <<Colon>>), Joined(y, Joined(<<Colon>>, z))) <=> x = y
<1> DEFINE c == <<Colon>>
           p == Joined(x, c)
           cz == Joined(c, z)
           q == Joined(y, cz)
<1>1. Listed(c) /\ Len(c) = 1 /\ c[1] = Colon
  BY ListedIs
<1> HIDE DEF c
<1>2. Listed(cz) /\ Len(cz) = 1 + Len(z) /\ cz[1] = Colon /\ Len(z) \in Nat
  <2>1. /\ Listed(cz) /\ Len(z) \in Nat /\ Len(cz) = Len(c) + Len(z)
        /\ \A i \in 1..Len(c) : cz[i] = c[i]
    <3>1. Listed(c)
      BY <1>1
    <3> QED
      BY <3>1, SideBySide
  <2>2. 1 \in 1..Len(c)
    BY <1>1
  <2> QED
    BY <1>1, <2>1, <2>2
<1> HIDE DEF cz
<1>3. /\ Listed(p) /\ Len(x) \in Nat /\ Len(p) = Len(x) + 1
      /\ \A i \in 1..Len(x) : p[i] = x[i]
      /\ p[Len(x) + 1] = Colon
  <2>1. /\ Listed(p) /\ Len(x) \in Nat /\ Len(p) = Len(x) + Len(c)
        /\ \A i \in 1..Len(x) : p[i] = x[i]
        /\ \A i \in 1..Len(c) : p[Len(x) + i] = c[i]
    <3>1. Listed(c)
      BY <1>1
    <3> QED
      BY <3>1, SideBySide
  <2>2. 1 \in 1..Len(c)
    BY <1>1
  <2> QED
    BY <1>1, <2>1, <2>2
<1>4. /\ Listed(q) /\ Len(y) \in Nat /\ Len(q) = Len(y) + 1 + Len(z)
      /\ \A i \in 1..Len(y) : q[i] = y[i]
      /\ q[Len(y) + 1] = Colon
  <2>1. /\ Listed(q) /\ Len(y) \in Nat /\ Len(q) = Len(y) + Len(cz)
        /\ \A i \in 1..Len(y) : q[i] = y[i]
        /\ \A i \in 1..Len(cz) : q[Len(y) + i] = cz[i]
    BY <1>2, SideBySide
  <2>2. 1 \in 1..Len(cz)
    BY <1>2
  <2> QED
    BY <1>2, <2>1, <2>2
<1> HIDE DEF p, q, Colon
<1>5. IsPrefix(p, q) <=> Len(p) <= Len(q) /\ \A i \in 1..Len(p) : p[i] = q[i]
  <2>1. Listed(p) /\ Listed(q)
    BY <1>3, <1>4
  <2> QED
    BY <2>1, PrefixIs
<1>6. ASSUME IsPrefix(p, q) PROVE x = y
  <2>1. \A i \in 1..(Len(x) + 1) : p[i] = q[i]
    BY <1>3, <1>5, <1>6
  <2>2. Len(y) <= Len(x)
    <3>1. SUFFICES ASSUME Len(x) < Len(y) PROVE FALSE
      BY <1>3, <1>4
    <3>2. Len(x) + 1 \in 1..Len(y) /\ Len(x) + 1 \in 1..(Len(x) + 1)
      BY <1>3, <1>4, <3>1
    <3> QED
      BY <1>3, <1>4, <2>1, <3>2
  <2>3. Len(x) <= Len(y)
    <3>1. SUFFICES ASSUME Len(y) < Len(x) PROVE FALSE
      BY <1>3, <1>4
    <3>2. Len(y) + 1 \in 1..Len(x) /\ Len(y) + 1 \in 1..(Len(x) + 1)
      BY <1>3, <1>4, <3>1
    <3> QED
      BY <1>3, <1>4, <2>1, <3>2
  <2>4. Len(x) = Len(y)
    BY <1>3, <1>4, <2>2, <2>3
  <2>5. ASSUME NEW i \in 1..Len(x) PROVE x[i] = y[i]
    <3>1. i \in 1..(Len(x) + 1) /\ i \in 1..Len(y)
      BY <1>3, <2>4
    <3> QED
      BY <1>3, <1>4, <2>1, <3>1
  <2> QED
    BY <2>4, <2>5, SamePlaces
<1>7. ASSUME x = y PROVE IsPrefix(p, q)
  <2>1. Len(p) <= Len(q)
    BY <1>2, <1>3, <1>4, <1>7
  <2>2. ASSUME NEW i \in 1..Len(p) PROVE p[i] = q[i]
    <3>1. i \in 1..Len(x) \/ i = Len(x) + 1
      BY <1>3
    <3> QED
      BY <1>3, <1>4, <1>7, <3>1
  <2> QED
    BY <1>5, <2>1, <2>2
<1> QED
  BY <1>6, <1>7 DEF p, q, c, cz

\* Equal beginnings may be left out.
LEMMA AfterBeginning ==
  ASSUME NEW x, NEW y, NEW z, Listed(x), Listed(y), Listed(z)
  PROVE  IsPrefix(Joined(x, y), Joined(x, z)) <=> IsPrefix(y, z)
<1> DEFINE p == Joined(x, y)
           q == Joined(x, z)
<1>1. /\ Listed(p) /\ Len(x) \in Nat /\ Len(y) \in Nat /\ Len(p) = Len(x) + Len(y)
      /\ \A i \in 1..Len(x) : p[i] = x[i]
      /\ \A i \in 1..Len(y) : p[Len(x) + i] = y[i]
  BY SideBySide
<1>2. /\ Listed(q) /\ Len(z) \in Nat /\ Len(q) = Len(x) + Len(z)
      /\ \A i \in 1..Len(x) : q[i] = x[i]
      /\ \A i \in 1..Len(z) : q[Len(x) + i] = z[i]
  BY SideBySide
<1> HIDE DEF p, q
<1>3. IsPrefix(p, q) <=> Len(p) <= Len(q) /\ \A i \in 1..Len(p) : p[i] = q[i]
  <2>1. Listed(p) /\ Listed(q)
    BY <1>1, <1>2
  <2> QED
    BY <2>1, PrefixIs
<1>4. IsPrefix(y, z) <=> Len(y) <= Len(z) /\ \A i \in 1..Len(y) : y[i] = z[i]
  BY PrefixIs
<1>5. Len(p) <= Len(q) <=> Len(y) <= Len(z)
  BY <1>1, <1>2
<1>6. ASSUME Len(y) <= Len(z), \A i \in 1..Len(p) : p[i] = q[i], NEW i \in 1..Len(y) PROVE y[i] = z[i]
  <2>1. Len(x) + i \in 1..Len(p) /\ i \in 1..Len(z)
    BY <1>1, <1>2, <1>6
  <2> QED
    BY <1>1, <1>2, <1>6, <2>1
<1>7. ASSUME Len(y) <= Len(z), \A i \in 1..Len(y) : y[i] = z[i], NEW i \in 1..Len(p) PROVE p[i] = q[i]
  <2>1. CASE i <= Len(x)
    BY <1>1, <1>2, <2>1
  <2>2. CASE i > Len(x)
    <3>1. PICK j \in 1..Len(y) : i = Len(x) + j
      <4>1. i - Len(x) \in 1..Len(y) /\ i = Len(x) + (i - Len(x))
        BY <1>1, <2>2
      <4> QED
        BY <4>1
    <3>2. j \in 1..Len(z)
      BY <1>1, <1>2, <1>7
    <3> QED
      BY <1>1, <1>2, <1>7, <3>1, <3>2
  <2> QED
    BY <1>1, <2>1, <2>2
<1>8. IsPrefix(p, q) <=> IsPrefix(y, z)
  BY <1>3, <1>4, <1>5, <1>6, <1>7
<1> QED
  BY <1>8 DEF p, q

\* An id is escaped character by character.
LEMMA EscapesJoin ==
  ASSUME NEW s, NEW t, Listed(s), Listed(t)
  PROVE  EscapeID(Joined(s, t)) = Joined(EscapeID(s), EscapeID(t))
<1> DEFINE u == Joined(s, t)
           m == Len(s)
           n == Len(t)
<1>1. /\ Listed(u) /\ m \in Nat /\ n \in Nat /\ Len(u) = m + n
      /\ \A i \in 1..m : u[i] = s[i]
      /\ \A i \in 1..n : u[m + i] = t[i]
  BY SideBySide
<1>2. PICK f : Escaping(f, s)
  BY EscapedIs
<1>3. PICK g : Escaping(g, t)
  BY EscapedIs
<1> HIDE DEF u
<1>4. PICK h : Escaping(h, u)
  BY <1>1, EscapedIs
<1> DEFINE T == {k \in 0..m : h[k] = f[k]}
           U == {k \in 0..n : h[m + k] = Joined(f[m], g[k])}
<1>5. m \in T
  <2>1. 0 \in T
    BY <1>1, <1>2, <1>4 DEF Escaping
  <2>2. ASSUME NEW k \in 1..m, k - 1 \in T PROVE k \in T
    <3>1. k \in 1..Len(u) /\ k \in 0..m
      BY <1>1
    <3>2. f[k] = Joined(f[k - 1], EscapeChar(s[k])) /\ h[k] = Joined(h[k - 1], EscapeChar(u[k]))
      BY <1>2, <1>4, <3>1 DEF Escaping
    <3>3. u[k] = s[k] /\ h[k - 1] = f[k - 1]
      BY <1>1, <2>2
    <3> QED
      BY <3>1, <3>2, <3>3
  <2>3. m \in Nat
    BY <1>1
  <2> HIDE DEF T, m, n
  <2>4. \A k \in 0..m : k \in T
    BY <2>1, <2>2, <2>3, AllReached
  <2> QED
    BY <2>3, <2>4
<1>6. Listed(f[m])
  <2>1. m \in 0..m
    BY <1>1
  <2> QED
    BY <1>2, <2>1 DEF Escaping
<1>7. n \in U
  <2>1. 0 \in U
    <3>1. g[0] = << >> /\ m + 0 = m /\ h[m] = f[m] /\ 0 \in 0..n
      BY <1>1, <1>3, <1>5 DEF Escaping
    <3>2. Joined(f[m], << >>) = f[m]
      <4>1. f[m] \in Seq(Range(f[m]))
        BY <1>6 DEF Listed
      <4> QED
        BY <4>1 DEF Joined
    <3> QED
      BY <3>1, <3>2
  <2>2. ASSUME NEW k \in 1..n, k - 1 \in U PROVE k \in U
    <3>1. m + k \in 1..Len(u) /\ k \in 0..n /\ k - 1 \in 0..n /\ (m + k) - 1 = m + (k - 1)
      BY <1>1
    <3>2. h[m + k] = Joined(h[m + (k - 1)], EscapeChar(u[m + k]))
      BY <1>4, <3>1 DEF Escaping
    <3>3. g[k] = Joined(g[k - 1], EscapeChar(t[k])) /\ Listed(g[k - 1])
      BY <1>3, <3>1 DEF Escaping
    <3>4. u[m + k] = t[k] /\ h[m + (k - 1)] = Joined(f[m], g[k - 1])
      BY <1>1, <2>2
    <3>5. Listed(EscapeChar(t[k]))
      BY EscapeCharIs
    <3>6. Joined(Joined(f[m], g[k - 1]), EscapeChar(t[k])) = Joined(f[m], Joined(g[k - 1], EscapeChar(t[k])))
      <4> DEFINE x == f[m]
                 y == g[k - 1]
                 z == EscapeChar(t[k])
      <4>1. Listed(x) /\ Listed(y) /\ Listed(z)
        BY <1>6, <3>3, <3>5
      <4> HIDE DEF x, y, z
      <4>2. Joined(Joined(x, y), z) = Joined(x, Joined(y, z))
        BY <4>1, Associates
      <4> QED
        BY <4>2 DEF x, y, z
    <3> QED
      BY <3>1, <3>2, <3>3, <3>4, <3>6
  <2>3. n \in Nat
    BY <1>1
  <2> HIDE DEF U, m, n
  <2>4. \A k \in 0..n : k \in U
    BY <2>1, <2>2, <2>3, AllReached
  <2> QED
    BY <2>3, <2>4
<1>8. EscapeID(s) = f[m] /\ EscapeID(t) = g[n] /\ EscapeID(u) = h[m + n]
  BY <1>1, <1>2, <1>3, <1>4 DEF Escaping
<1>9. EscapeID(u) = Joined(EscapeID(s), EscapeID(t))
  BY <1>7, <1>8
<1> QED
  BY <1>9 DEF u

\* The escape of a colon alone.
LEMMA EscapeOne == EscapeID(<<Colon>>) = <<Backslash, "c">>
<1> DEFINE s == <<Colon>>
<1>1. Listed(s) /\ Len(s) = 1 /\ s[1] = Colon
  BY ListedIs
<1> HIDE DEF s, Colon
<1>2. PICK h : Escaping(h, s)
  BY <1>1, EscapedIs
<1>3. h[0] = << >> /\ h[1] = Joined(h[0], EscapeChar(Colon)) /\ EscapeID(s) = h[1]
  <2>1. 1 \in 1..Len(s) /\ 1 - 1 = 0
    BY <1>1
  <2> QED
    BY <1>1, <1>2, <2>1 DEF Escaping
<1>4. EscapeChar(Colon) = <<Backslash, "c">>
  <2>1. Colon # Backslash
    BY EscapeCharIs
  <2> QED
    BY <2>1 DEF EscapeChar
<1>5. Joined(<< >>, <<Backslash, "c">>) = <<Backslash, "c">>
  BY DEF Joined
<1> QED
  BY <1>3, <1>4, <1>5 DEF s

\* A prefix without a colon ends before the first colon.
LEMMA BeforeColon ==
  ASSUME NEW x, NEW y, NEW z, Listed(x), Listed(y), Listed(z),
         \A i \in 1..Len(x) : x[i] # Colon
  PROVE  IsPrefix(x, Joined(y, Joined(<<Colon>>, z))) <=> IsPrefix(x, y)
<1> DEFINE c == <<Colon>>
           cz == Joined(c, z)
           q == Joined(y, cz)
<1>1. Listed(c) /\ Len(c) = 1 /\ c[1] = Colon
  BY ListedIs
<1> HIDE DEF c
<1>2. Listed(cz) /\ Len(cz) = 1 + Len(z) /\ cz[1] = Colon /\ Len(z) \in Nat
  <2>1. /\ Listed(cz) /\ Len(z) \in Nat /\ Len(cz) = Len(c) + Len(z)
        /\ \A i \in 1..Len(c) : cz[i] = c[i]
    <3>1. Listed(c)
      BY <1>1
    <3> QED
      BY <3>1, SideBySide
  <2>2. 1 \in 1..Len(c)
    BY <1>1
  <2> QED
    BY <1>1, <2>1, <2>2
<1> HIDE DEF cz
<1>3. /\ Listed(q) /\ Len(y) \in Nat /\ Len(q) = Len(y) + 1 + Len(z)
      /\ \A i \in 1..Len(y) : q[i] = y[i]
      /\ q[Len(y) + 1] = Colon
  <2>1. /\ Listed(q) /\ Len(y) \in Nat /\ Len(q) = Len(y) + Len(cz)
        /\ \A i \in 1..Len(y) : q[i] = y[i]
        /\ \A i \in 1..Len(cz) : q[Len(y) + i] = cz[i]
    BY <1>2, SideBySide
  <2>2. 1 \in 1..Len(cz)
    BY <1>2
  <2> QED
    BY <1>2, <2>1, <2>2
<1> HIDE DEF q, Colon
<1>4. IsPrefix(x, q) <=> Len(x) <= Len(q) /\ \A i \in 1..Len(x) : x[i] = q[i]
  <2>1. Listed(q)
    BY <1>3
  <2> QED
    BY <2>1, PrefixIs
<1>5. IsPrefix(x, y) <=> Len(x) <= Len(y) /\ \A i \in 1..Len(x) : x[i] = y[i]
  BY PrefixIs
<1>6. Len(x) \in Nat
  BY ListedIs
<1>7. ASSUME IsPrefix(x, q) PROVE IsPrefix(x, y)
  <2>1. Len(x) <= Len(y)
    <3>1. SUFFICES ASSUME Len(y) < Len(x) PROVE FALSE
      BY <1>3, <1>6
    <3>2. Len(y) + 1 \in 1..Len(x)
      BY <1>3, <1>6, <3>1
    <3> QED
      BY <1>3, <1>4, <1>7, <3>2
  <2>2. ASSUME NEW i \in 1..Len(x) PROVE x[i] = y[i]
    <3>1. i \in 1..Len(y)
      BY <1>3, <1>6, <2>1
    <3> QED
      BY <1>3, <1>4, <1>7, <3>1
  <2> QED
    BY <1>5, <2>1, <2>2
<1>8. ASSUME IsPrefix(x, y) PROVE IsPrefix(x, q)
  <2>1. Len(x) <= Len(q)
    BY <1>2, <1>3, <1>5, <1>6, <1>8
  <2>2. ASSUME NEW i \in 1..Len(x) PROVE x[i] = q[i]
    <3>1. i \in 1..Len(y)
      BY <1>3, <1>5, <1>6, <1>8
    <3> QED
      BY <1>3, <1>5, <1>8, <3>1
  <2> QED
    BY <1>4, <2>1, <2>2
<1>9. IsPrefix(x, q) <=> IsPrefix(x, y)
  BY <1>7, <1>8
<1> QED
  BY <1>9 DEF q, cz, c

\* What begins a text, and that nothing follows where two begin one another.
LEMMA Beginnings ==
  ASSUME NEW x, NEW y, Listed(x), Listed(y)
  PROVE  /\ IsPrefix(x, Joined(x, y))
         /\ IsPrefix(x, y) /\ IsPrefix(y, x) => x = y
         /\ \A z : Listed(z) /\ IsPrefix(Joined(x, y), z) => IsPrefix(x, z)
<1> DEFINE p == Joined(x, y)
<1>1. /\ Listed(p) /\ Len(x) \in Nat /\ Len(y) \in Nat /\ Len(p) = Len(x) + Len(y)
      /\ \A i \in 1..Len(x) : p[i] = x[i]
  BY SideBySide
<1> HIDE DEF p
<1>2. IsPrefix(x, p)
  <2>1. Listed(p) /\ Len(x) <= Len(p) /\ \A i \in 1..Len(x) : x[i] = p[i]
    BY <1>1
  <2> QED
    BY <2>1, PrefixIs
<1>3. ASSUME IsPrefix(x, y), IsPrefix(y, x) PROVE x = y
  <2>1. Len(x) <= Len(y) /\ Len(y) <= Len(x) /\ \A i \in 1..Len(x) : x[i] = y[i]
    BY <1>3, PrefixIs
  <2> QED
    BY <1>1, <2>1, SamePlaces
<1>4. ASSUME NEW z, Listed(z), IsPrefix(p, z) PROVE IsPrefix(x, z)
  <2>1. Listed(p)
    BY <1>1
  <2>2. Len(p) <= Len(z) /\ \A i \in 1..Len(p) : p[i] = z[i]
    BY <1>4, <2>1, PrefixIs
  <2>3. Len(z) \in Nat
    BY <1>4, ListedIs
  <2>4. Len(x) <= Len(z) /\ \A i \in 1..Len(x) : x[i] = z[i]
    BY <1>1, <2>2, <2>3
  <2> QED
    BY <1>4, <2>4, PrefixIs
<1> QED
  BY <1>2, <1>3, <1>4 DEF p

-----------------------------------------------------------------------------
(* Keys of versions and of links *)

\* The fixed parts of a key: letters, separators and the padded version.
LEMMA KeyPartsAre ==
  /\ \A k \in Kinds : Listed(KindPrefix(k)) /\ Len(KindPrefix(k)) = 2 /\ KindPrefix(k)[1] = KindLetter[k]
                      /\ KindPrefix(k)[2] = Colon
  /\ \A k, l \in Kinds : KindLetter[k] = KindLetter[l] => k = l
  /\ "link" \in Kinds /\ KindLetter["link"] = "l"
  /\ Listed(<<"v">>) /\ Listed(<<Colon>>) /\ VersionSeparator = Joined(<<Colon>>, <<"v">>)
  /\ Len(VersionSeparator) = 2
  /\ Listed(ReverseLinkPrefix) /\ Len(ReverseLinkPrefix) = 3 /\ ReverseLinkPrefix[2] = "r" /\ Colon # "r"
  /\ VersionDigits \in Nat
  /\ \A v : Listed(padVersion(v)) /\ Len(padVersion(v)) = VersionDigits
<1>1. ASSUME NEW k \in Kinds
      PROVE  Listed(KindPrefix(k)) /\ Len(KindPrefix(k)) = 2 /\ KindPrefix(k)[1] = KindLetter[k]
             /\ KindPrefix(k)[2] = Colon
  BY ListedIs DEF KindPrefix
<1>2. /\ \A k, l \in Kinds : KindLetter[k] = KindLetter[l] => k = l
      /\ "link" \in Kinds /\ KindLetter["link"] = "l"
  BY DEF Kinds, KindLetter
<1>3. Listed(<<"v">>) /\ Listed(<<Colon>>)
  BY ListedIs
<1>4. VersionSeparator = Joined(<<Colon>>, <<"v">>) /\ Len(VersionSeparator) = 2
  BY DEF VersionSeparator, Joined
<1>5. Listed(ReverseLinkPrefix) /\ Len(ReverseLinkPrefix) = 3 /\ ReverseLinkPrefix[2] = "r" /\ Colon # "r"
  <2>1. ReverseLinkPrefix \in Seq({"l", "r", Colon})
    BY DEF ReverseLinkPrefix
  <2>2. Listed(ReverseLinkPrefix)
    BY <2>1, ListedIs
  <2> QED
    BY <2>2 DEF ReverseLinkPrefix, Colon
<1>6. VersionDigits \in Nat
  BY EventKeysAssumption DEF EventKeysAssumption
<1>7. ASSUME NEW v PROVE Listed(padVersion(v)) /\ Len(padVersion(v)) = VersionDigits
  <2> DEFINE d(i) == Digits[((v \div (10^(VersionDigits - i))) % 10) + 1]
             f == [i \in 1..VersionDigits |-> d(i)]
  <2>1. padVersion(v) = f
    BY DEF padVersion
  <2> HIDE DEF d
  <2>2. f \in Seq({d(i) : i \in 1..VersionDigits}) /\ Len(f) = VersionDigits
    BY <1>6
  <2> HIDE DEF f
  <2>3. Listed(f)
    BY <2>2, ListedIs
  <2> QED
    BY <2>1, <2>2, <2>3
<1> QED
  BY <1>1, <1>2, <1>3, <1>4, <1>5, <1>6, <1>7

\* Ids are sequences.
LEMMA IDsAreListed == \A id \in IDs : Listed(id)
  BY EventKeysAssumption DEF EventKeysAssumption, Listed

\* Two escaped ids that are equal come from one id.
LEMMA EscapesDiffer ==
  ASSUME NEW s, NEW t, Listed(s), Listed(t) PROVE EscapeID(s) = EscapeID(t) <=> s = t
<1>1. ASSUME EscapeID(s) = EscapeID(t) PROVE s = t
  <2>1. Listed(EscapeID(s)) /\ Listed(EscapeID(t)) /\ Len(EscapeID(s)) \in Nat
    BY EscapedIs, ListedIs
  <2>2. IsPrefix(EscapeID(s), EscapeID(t)) /\ IsPrefix(EscapeID(t), EscapeID(s))
    BY <1>1, <2>1, PrefixIs
  <2>3. IsPrefix(s, t) /\ IsPrefix(t, s)
    BY <2>2, EscapesApart
  <2> QED
    BY <2>3, Beginnings
<1> QED
  BY <1>1

\* What the version's separator makes of it: a prefix up to it tells two ids apart.
LEMMA EscapedUpToColon ==
  ASSUME NEW s, NEW t, NEW y, NEW z, Listed(s), Listed(t), Listed(y), Listed(z),
         IsPrefix(Joined(EscapeID(s), Joined(<<Colon>>, y)), Joined(EscapeID(t), Joined(<<Colon>>, z)))
  PROVE  s = t
<1> DEFINE c == <<Colon>>
           es == EscapeID(s)
           et == EscapeID(t)
           cz == Joined(c, z)
           cy == Joined(c, y)
<1>1. /\ Listed(es) /\ Listed(et) /\ Listed(c)
      /\ \A i \in 1..Len(es) : es[i] # Colon
      /\ \A i \in 1..Len(et) : et[i] # Colon
  BY EscapedIs, ListedIs
<1> HIDE DEF c, es, et
<1>2. Listed(Joined(es, c)) /\ Listed(cz) /\ Listed(cy)
  BY <1>1, SideBySide
<1>3. Joined(es, cy) = Joined(Joined(es, c), y) /\ IsPrefix(Joined(es, cy), Joined(et, cz))
  BY <1>1, Associates DEF es, et, c
<1>4. Listed(Joined(et, cz))
  BY <1>1, <1>2, SideBySide
<1>5. IsPrefix(Joined(es, c), Joined(et, cz))
  BY <1>2, <1>3, <1>4, Beginnings
<1>6. es = et
  BY <1>1, <1>5, UpToColon DEF c
<1> QED
  BY <1>6, EscapesDiffer DEF es, et

\* A chain's key, from its parts.
LEMMA KeysAre ==
  ASSUME NEW k \in Kinds, NEW id, Listed(id), NEW v
  PROVE  /\ Listed(EscapeID(id)) /\ Listed(chainPrefix(k, id)) /\ Listed(BuildKey(k, id, v))
         /\ chainPrefix(k, id) = Joined(KindPrefix(k), Joined(EscapeID(id), Joined(<<Colon>>, <<"v">>)))
         /\ BuildKey(k, id, v) = Joined(chainPrefix(k, id), padVersion(v))
         /\ BuildKey(k, id, v) = Joined(KindPrefix(k), Joined(EscapeID(id), Joined(<<Colon>>, Joined(<<"v">>, padVersion(v)))))
<1> DEFINE p == KindPrefix(k)
           e == EscapeID(id)
           c == <<Colon>>
           w == <<"v">>
           cw == Joined(c, w)
           n == padVersion(v)
<1>1. Listed(p) /\ Listed(e) /\ Listed(c) /\ Listed(w) /\ Listed(n) /\ VersionSeparator = cw
  BY KeyPartsAre, EscapedIs
<1>2. chainPrefix(k, id) = Joined(Joined(p, e), VersionSeparator) /\ BuildKey(k, id, v) = Joined(chainPrefix(k, id), n)
  BY DEF chainPrefix, BuildKey, Joined
<1> HIDE DEF p, e, c, w, n
<1>3. Listed(cw) /\ Listed(Joined(w, n)) /\ Listed(Joined(p, e))
  BY <1>1, SideBySide
<1>4. chainPrefix(k, id) = Joined(p, Joined(e, cw))
  BY <1>1, <1>2, <1>3, Associates
<1>5. Listed(Joined(e, cw)) /\ Listed(chainPrefix(k, id))
  BY <1>1, <1>2, <1>3, SideBySide
<1>6. BuildKey(k, id, v) = Joined(p, Joined(Joined(e, cw), n))
  BY <1>1, <1>2, <1>4, <1>5, Associates
<1>7. Joined(Joined(e, cw), n) = Joined(e, Joined(cw, n))
  BY <1>1, <1>3, Associates
<1>8. Joined(cw, n) = Joined(c, Joined(w, n))
  BY <1>1, Associates
<1>9. BuildKey(k, id, v) = Joined(p, Joined(e, Joined(c, Joined(w, n))))
  BY <1>6, <1>7, <1>8
<1>10. Listed(BuildKey(k, id, v))
  BY <1>1, <1>2, <1>5, SideBySide
<1> QED
  BY <1>1, <1>2, <1>4, <1>5, <1>9, <1>10 DEF p, e, c, w, n

\* The prefix of the versions of an id begins no key of another id or kind.
LEMMA ChainPrefixIs ==
  ASSUME NEW k1 \in Kinds, NEW k2 \in Kinds, NEW a, NEW b, Listed(a), Listed(b), NEW v
  PROVE  IsPrefix(chainPrefix(k1, a), BuildKey(k2, b, v)) <=> k1 = k2 /\ a = b
<1>1. ASSUME k1 = k2, a = b PROVE IsPrefix(chainPrefix(k1, a), BuildKey(k2, b, v))
  <2>1. Listed(chainPrefix(k1, a)) /\ Listed(padVersion(v)) /\ BuildKey(k2, b, v) = Joined(chainPrefix(k1, a), padVersion(v))
    BY <1>1, KeysAre, KeyPartsAre
  <2> QED
    BY <2>1, Beginnings
<1>2. ASSUME IsPrefix(chainPrefix(k1, a), BuildKey(k2, b, v)) PROVE k1 = k2 /\ a = b
  <2> DEFINE cw == Joined(<<Colon>>, <<"v">>)
             wn == Joined(<<"v">>, padVersion(v))
             x == Joined(EscapeID(a), cw)
             z == Joined(EscapeID(b), Joined(<<Colon>>, wn))
  <2>1. /\ Listed(KindPrefix(k1)) /\ Len(KindPrefix(k1)) = 2 /\ KindPrefix(k1)[1] = KindLetter[k1]
        /\ Listed(KindPrefix(k2)) /\ Len(KindPrefix(k2)) = 2 /\ KindPrefix(k2)[1] = KindLetter[k2]
        /\ Listed(<<Colon>>) /\ Listed(<<"v">>) /\ Listed(padVersion(v))
    BY KeyPartsAre
  <2>2. /\ Listed(EscapeID(a)) /\ Listed(EscapeID(b))
        /\ chainPrefix(k1, a) = Joined(KindPrefix(k1), x) /\ BuildKey(k2, b, v) = Joined(KindPrefix(k2), z)
        /\ Listed(chainPrefix(k1, a)) /\ Listed(BuildKey(k2, b, v))
    BY KeysAre
  <2>3. Listed(wn) /\ Listed(cw)
    BY <2>1, SideBySide
  <2>4. Listed(Joined(<<Colon>>, wn))
    BY <2>1, <2>3, SideBySide
  <2>5. Listed(x) /\ Listed(z)
    BY <2>2, <2>3, <2>4, SideBySide
  <2> HIDE DEF x, z
  <2>6. k1 = k2
    <3>1. /\ Len(Joined(KindPrefix(k1), x)) = 2 + Len(x) /\ Len(x) \in Nat
          /\ \A i \in 1..2 : Joined(KindPrefix(k1), x)[i] = KindPrefix(k1)[i]
      <4>1. Listed(KindPrefix(k1)) /\ Listed(x)
        BY <2>1, <2>5
      <4>2. /\ Len(Joined(KindPrefix(k1), x)) = Len(KindPrefix(k1)) + Len(x) /\ Len(x) \in Nat
            /\ \A i \in 1..Len(KindPrefix(k1)) : Joined(KindPrefix(k1), x)[i] = KindPrefix(k1)[i]
        BY <4>1, SideBySide
      <4> QED
        BY <2>1, <4>2
    <3>2. \A i \in 1..2 : Joined(KindPrefix(k2), z)[i] = KindPrefix(k2)[i]
      <4>1. Listed(KindPrefix(k2)) /\ Listed(z)
        BY <2>1, <2>5
      <4>2. \A i \in 1..Len(KindPrefix(k2)) : Joined(KindPrefix(k2), z)[i] = KindPrefix(k2)[i]
        BY <4>1, SideBySide
      <4> QED
        BY <2>1, <4>2
    <3>3. \A i \in 1..Len(chainPrefix(k1, a)) : chainPrefix(k1, a)[i] = BuildKey(k2, b, v)[i]
      BY <1>2, <2>2, PrefixIs
    <3>4. 1 \in 1..2 /\ 1 \in 1..Len(chainPrefix(k1, a))
      BY <2>2, <3>1
    <3>5. KindLetter[k1] = KindLetter[k2]
      BY <2>1, <2>2, <3>1, <3>2, <3>3, <3>4
    <3> QED
      BY <3>5, KeyPartsAre
  <2>7. IsPrefix(x, z)
    BY <1>2, <2>1, <2>2, <2>5, <2>6, AfterBeginning
  <2>8. a = b
    BY <2>1, <2>3, <2>7, EscapedUpToColon DEF x, z
  <2> QED
    BY <2>6, <2>8
<1> QED
  BY <1>1, <1>2

\* For ids of any length and content: a scan over the versions of an id and a
\* kind meets no version of another.
THEOREM ChainsStayApart == KeysSpec => []ChainsDoNotMix
<1>1. KeysInit => KeysTypeOK
  BY DEF KeysInit, KeysTypeOK
<1>2. KeysTypeOK /\ [KeysNext]_pair => KeysTypeOK'
  BY DEF KeysTypeOK, KeysNext
<1>3. KeysTypeOK => ChainsDoNotMix
  <2> SUFFICES ASSUME KeysTypeOK PROVE ChainsDoNotMix
    OBVIOUS
  <2>1. Listed(pair.a) /\ Listed(pair.b)
    BY IDsAreListed DEF KeysTypeOK, IdPairs
  <2> QED
    BY <2>1, ChainPrefixIs DEF ChainsDoNotMix
<1> QED
  BY <1>1, <1>2, <1>3, PTL DEF KeysSpec

\* An escaped id, and one escaped twice, is a sequence.
LEMMA EscapesListed == \A id : Listed(id) => Listed(EscapeID(id)) /\ Listed(EscapeID(EscapeID(id)))
<1> SUFFICES ASSUME NEW id, Listed(id) PROVE Listed(EscapeID(id)) /\ Listed(EscapeID(EscapeID(id)))
  OBVIOUS
<1>1. Listed(EscapeID(id))
  BY EscapedIs
<1>2. Listed(EscapeID(EscapeID(id)))
  BY <1>1, EscapedIs
<1> QED
  BY <1>1, <1>2

\* An escaped text up to a colon begins another key part only where the ids are one.
LEMMA TextUpToColon ==
  ASSUME NEW s, NEW t, NEW z, Listed(s), Listed(t), Listed(z)
  PROVE  IsPrefix(Joined(EscapeID(s), <<Colon>>), Joined(EscapeID(t), Joined(<<Colon>>, z))) <=> s = t
<1> DEFINE es == EscapeID(s)
           et == EscapeID(t)
<1>1. /\ Listed(es) /\ Listed(et)
      /\ \A i \in 1..Len(es) : es[i] # Colon
      /\ \A i \in 1..Len(et) : et[i] # Colon
  BY EscapedIs
<1> HIDE DEF es, et
<1>2. IsPrefix(Joined(es, <<Colon>>), Joined(et, Joined(<<Colon>>, z))) <=> es = et
  BY <1>1, UpToColon
<1> QED
  BY <1>2, EscapesDiffer DEF es, et

\* A link id begins with its escaped source and a colon.
LEMMA LinkIDIs ==
  ASSUME NEW src, NEW edge, NEW dst, Listed(src), Listed(edge), Listed(dst)
  PROVE  /\ Listed(LinkID(src, edge, dst))
         /\ \E z : Listed(z) /\ LinkID(src, edge, dst) = Joined(EscapeID(src), Joined(<<Colon>>, z))
<1> DEFINE c == <<Colon>>
           x == EscapeID(src)
           y == EscapeID(edge)
           w == EscapeID(dst)
           yc == Joined(y, c)
           z == Joined(yc, w)
           xc == Joined(x, c)
<1>1. Listed(c) /\ Listed(x) /\ Listed(y) /\ Listed(w)
  BY ListedIs, EscapesListed
<1>2. LinkID(src, edge, dst) = Joined(Joined(Joined(xc, y), c), w)
  BY DEF LinkID, Joined
<1> HIDE DEF c, x, y, w
<1>3. Listed(xc) /\ Listed(yc)
  BY <1>1, SideBySide
<1>4. Listed(z) /\ Listed(Joined(c, z)) /\ Listed(Joined(xc, y)) /\ Joined(Joined(xc, y), c) = Joined(xc, yc)
  <2>1. Listed(z)
    BY <1>1, <1>3, SideBySide
  <2> HIDE DEF z
  <2>2. Listed(Joined(c, z)) /\ Listed(Joined(xc, y))
    BY <1>1, <1>3, <2>1, SideBySide
  <2>3. Joined(Joined(xc, y), c) = Joined(xc, yc)
    BY <1>1, <1>3, Associates
  <2> QED
    BY <2>1, <2>2, <2>3
<1>5. Joined(Joined(xc, yc), w) = Joined(xc, z)
  BY <1>1, <1>3, Associates
<1>6. Joined(xc, z) = Joined(x, Joined(c, z))
  <2> HIDE DEF z
  <2> QED
    BY <1>1, <1>4, Associates
<1>7. LinkID(src, edge, dst) = Joined(x, Joined(c, z))
  BY <1>2, <1>4, <1>5, <1>6
<1> HIDE DEF z
<1>8. Listed(Joined(x, Joined(c, z)))
  BY <1>1, <1>4, SideBySide
<1> QED
  BY <1>4, <1>7, <1>8 DEF x, c

\* The twice escaped prefix of a source begins the keys of its links only.
LEMMA ForwardPrefixIs ==
  ASSUME NEW start, NEW src, NEW edge, NEW dst, NEW v, Listed(start), Listed(src), Listed(edge), Listed(dst)
  PROVE  IsPrefix(forwardSrcPrefix(start), BuildKey("link", LinkID(src, edge, dst), v)) <=> start = src
<1> DEFINE p == KindPrefix("link")
           c == <<Colon>>
           u == Joined(EscapeID(start), c)
           l == LinkID(src, edge, dst)
           eu == EscapeID(u)
           ew == EscapeID(l)
           wn == Joined(<<"v">>, padVersion(v))
           cw == Joined(c, wn)
           key == BuildKey("link", l, v)
<1>1. Listed(p) /\ Listed(c) /\ Listed(EscapeID(start)) /\ Listed(EscapeID(EscapeID(start))) /\ Listed(l) /\ Listed(wn)
  <2>1. Listed(<<"v">>) /\ Listed(padVersion(v)) /\ Listed(p) /\ Listed(c)
    BY KeyPartsAre
  <2>2. Listed(wn)
    BY <2>1, SideBySide
  <2>3. Listed(l)
    BY LinkIDIs
  <2> QED
    BY <2>1, <2>2, <2>3, EscapesListed
<1>2. PICK z : Listed(z) /\ l = Joined(EscapeID(src), Joined(c, z))
  BY LinkIDIs
<1>3. key = Joined(p, Joined(ew, cw))
  BY <1>1, KeyPartsAre, KeysAre
<1>4. forwardSrcPrefix(start) = Joined(p, eu)
  <2>1. eu = Joined(EscapeID(EscapeID(start)), EscapeID(c))
    BY <1>1, EscapesJoin
  <2>2. forwardSrcPrefix(start) = Joined(Joined(p, EscapeID(EscapeID(start))), EscapeID(c))
    BY EscapeOne DEF forwardSrcPrefix, Joined
  <2>3. Listed(EscapeID(c))
    BY <1>1, EscapesListed
  <2> QED
    BY <1>1, <2>1, <2>2, <2>3, Associates
<1> HIDE DEF p, l, wn, key
<1>5. Listed(u) /\ Listed(cw)
  <2> HIDE DEF c
  <2> QED
    BY <1>1, SideBySide
<1> HIDE DEF u
<1>6. Listed(eu) /\ Listed(ew) /\ \A i \in 1..Len(eu) : eu[i] # Colon
  BY <1>1, <1>5, EscapedIs
<1> HIDE DEF eu, ew
<1>7. Listed(Joined(ew, cw))
  BY <1>5, <1>6, SideBySide
<1>8. IsPrefix(forwardSrcPrefix(start), key) <=> IsPrefix(eu, Joined(ew, cw))
  <2> HIDE DEF cw
  <2> QED
    BY <1>1, <1>3, <1>4, <1>6, <1>7, AfterBeginning
<1>9. IsPrefix(eu, Joined(ew, cw)) <=> IsPrefix(eu, ew)
  BY <1>1, <1>6, BeforeColon
<1>10. IsPrefix(eu, ew) => IsPrefix(u, l)
  BY <1>1, <1>5, EscapesApart DEF eu, ew
<1>11. IsPrefix(u, l) <=> start = src
  BY <1>2, TextUpToColon DEF u
<1>12. ASSUME start = src PROVE IsPrefix(eu, ew)
  <2>1. l = Joined(u, z)
    <3>1. Listed(EscapeID(src))
      BY EscapesListed
    <3> QED
      BY <1>1, <1>2, <1>12, <3>1, Associates DEF u
  <2>2. ew = Joined(eu, EscapeID(z))
    BY <1>2, <1>5, <2>1, EscapesJoin DEF ew, eu
  <2>3. Listed(EscapeID(z))
    BY <1>2, EscapesListed
  <2> QED
    BY <1>6, <2>2, <2>3, Beginnings
<1>13. IsPrefix(forwardSrcPrefix(start), key) <=> start = src
  BY <1>8, <1>9, <1>10, <1>11, <1>12
<1> QED
  BY <1>13 DEF key, l

\* A reverse key, from its parts.
LEMMA ReverseKeysAre ==
  ASSUME NEW dst, NEW edge, NEW src, Listed(dst), Listed(edge), Listed(src)
  PROVE  /\ reverseDstPrefix(dst) = Joined(ReverseLinkPrefix, Joined(EscapeID(dst), <<Colon>>))
         /\ reverseLinkPrefixForDst(dst, edge) =
              Joined(ReverseLinkPrefix, Joined(Joined(EscapeID(dst), <<Colon>>), Joined(EscapeID(edge), <<Colon>>)))
         /\ BuildReverseLinkKey(dst, edge, src) =
              Joined(ReverseLinkPrefix,
                     Joined(Joined(EscapeID(dst), <<Colon>>), Joined(EscapeID(edge), Joined(<<Colon>>, EscapeID(src)))))
<1> DEFINE r == ReverseLinkPrefix
           c == <<Colon>>
           x == EscapeID(dst)
           y == EscapeID(edge)
           w == EscapeID(src)
           xc == Joined(x, c)
           yc == Joined(y, c)
           rp == reverseDstPrefix(dst)
<1>1. Listed(r) /\ Listed(c) /\ Listed(x) /\ Listed(y) /\ Listed(w)
  BY KeyPartsAre, EscapesListed
<1>2. /\ rp = Joined(Joined(r, x), c)
      /\ reverseLinkPrefixForDst(dst, edge) = Joined(Joined(rp, y), c)
      /\ BuildReverseLinkKey(dst, edge, src) = Joined(reverseLinkPrefixForDst(dst, edge), w)
  BY DEF reverseDstPrefix, reverseLinkPrefixForDst, BuildReverseLinkKey, Joined
<1> HIDE DEF r, c, x, y, w, rp
<1>3. Listed(xc) /\ Listed(yc)
  BY <1>1, SideBySide
<1>4. rp = Joined(r, xc)
  BY <1>1, <1>2, Associates
<1> HIDE DEF xc
<1>5. Listed(rp)
  BY <1>1, <1>3, <1>4, SideBySide
<1>6. Joined(Joined(rp, y), c) = Joined(rp, yc)
  BY <1>1, <1>5, Associates
<1>7. Joined(rp, yc) = Joined(r, Joined(xc, yc)) /\ Listed(Joined(xc, yc))
  <2> HIDE DEF yc
  <2> QED
    BY <1>1, <1>3, <1>4, Associates, SideBySide
<1>8. Joined(Joined(r, Joined(xc, yc)), w) = Joined(r, Joined(Joined(xc, yc), w))
  <2> DEFINE xyc == Joined(xc, yc)
  <2>1. Listed(xyc)
    BY <1>7
  <2> HIDE DEF xyc
  <2>2. Joined(Joined(r, xyc), w) = Joined(r, Joined(xyc, w))
    BY <1>1, <2>1, Associates
  <2> QED
    BY <2>2 DEF xyc
<1>9. Joined(Joined(xc, yc), w) = Joined(xc, Joined(yc, w))
  <2> HIDE DEF yc
  <2> QED
    BY <1>1, <1>3, Associates
<1>10. Joined(yc, w) = Joined(y, Joined(c, w))
  BY <1>1, Associates
<1> QED
  BY <1>2, <1>4, <1>6, <1>7, <1>8, <1>9, <1>10 DEF r, c, x, y, w, xc, rp

\* The prefix of a destination, with or without an edge type, begins the reverse
\* keys of its links only.
LEMMA ReversePrefixIs ==
  ASSUME NEW start, NEW e, NEW dst, NEW edge, NEW src,
         Listed(start), Listed(e), Listed(dst), Listed(edge), Listed(src)
  PROVE  /\ IsPrefix(reverseDstPrefix(start), BuildReverseLinkKey(dst, edge, src)) <=> start = dst
         /\ IsPrefix(reverseLinkPrefixForDst(start, e), BuildReverseLinkKey(dst, edge, src)) <=> start = dst /\ e = edge
<1> DEFINE r == ReverseLinkPrefix
           c == <<Colon>>
           sc == Joined(EscapeID(start), c)
           dc == Joined(EscapeID(dst), c)
           ec == Joined(EscapeID(e), c)
           rest == Joined(EscapeID(edge), Joined(c, EscapeID(src)))
           key == BuildReverseLinkKey(dst, edge, src)
           p == reverseDstPrefix(start)
           pe == reverseLinkPrefixForDst(start, e)
<1>1. p = Joined(r, sc) /\ pe = Joined(r, Joined(sc, ec)) /\ key = Joined(r, Joined(dc, rest))
  BY ReverseKeysAre
<1>2. /\ Listed(r) /\ Listed(c) /\ Listed(EscapeID(start)) /\ Listed(EscapeID(dst)) /\ Listed(EscapeID(e))
      /\ Listed(EscapeID(edge)) /\ Listed(EscapeID(src))
  BY KeyPartsAre, EscapesListed
<1> HIDE DEF r, key, p, pe
<1>3. Listed(sc) /\ Listed(dc) /\ Listed(ec) /\ Listed(Joined(c, EscapeID(src)))
  <2> HIDE DEF c
  <2> QED
    BY <1>2, SideBySide
<1>4. Listed(rest)
  BY <1>2, <1>3, SideBySide
<1>5. dc = Joined(EscapeID(dst), c) /\ Joined(dc, rest) = Joined(EscapeID(dst), Joined(c, rest))
  <2> HIDE DEF c, rest
  <2> QED
    BY <1>2, <1>4, Associates
<1> HIDE DEF rest
<1>6. IsPrefix(sc, Joined(dc, rest)) <=> start = dst
  BY <1>4, <1>5, TextUpToColon
<1> HIDE DEF sc, dc, ec
<1>7. Listed(Joined(dc, rest)) /\ Listed(Joined(sc, ec))
  BY <1>3, <1>4, SideBySide
<1>8. IsPrefix(p, key) <=> start = dst
  <2>1. IsPrefix(p, key) <=> IsPrefix(sc, Joined(dc, rest))
    BY <1>1, <1>2, <1>3, <1>7, AfterBeginning
  <2> QED
    BY <1>6, <2>1
<1>9. IsPrefix(pe, key) <=> IsPrefix(Joined(sc, ec), Joined(dc, rest))
  BY <1>1, <1>2, <1>7, AfterBeginning
<1>10. IsPrefix(Joined(sc, ec), Joined(dc, rest)) => start = dst
  BY <1>3, <1>6, <1>7, Beginnings
<1>11. ASSUME start = dst PROVE IsPrefix(Joined(sc, ec), Joined(dc, rest)) <=> e = edge
  <2>1. sc = dc
    BY <1>11 DEF sc, dc
  <2>2. IsPrefix(Joined(sc, ec), Joined(sc, rest)) <=> IsPrefix(ec, rest)
    BY <1>3, <1>4, AfterBeginning
  <2>3. IsPrefix(ec, rest) <=> e = edge
    BY <1>2, TextUpToColon DEF ec, rest
  <2> QED
    BY <2>1, <2>2, <2>3
<1>12. IsPrefix(pe, key) <=> start = dst /\ e = edge
  BY <1>9, <1>10, <1>11
<1> QED
  BY <1>8, <1>12 DEF p, pe, key

\* No reverse key is met among the links themselves.
LEMMA ReverseIsNoLink ==
  ASSUME NEW dst, NEW edge, NEW src, Listed(dst), Listed(edge), Listed(src)
  PROVE  ~IsPrefix(KindPrefix("link"), BuildReverseLinkKey(dst, edge, src))
<1> DEFINE r == ReverseLinkPrefix
           z == Joined(Joined(EscapeID(dst), <<Colon>>), Joined(EscapeID(edge), Joined(<<Colon>>, EscapeID(src))))
           p == KindPrefix("link")
<1>1. BuildReverseLinkKey(dst, edge, src) = Joined(r, z)
  BY ReverseKeysAre
<1>2. Listed(EscapeID(dst)) /\ Listed(EscapeID(edge)) /\ Listed(EscapeID(src)) /\ Listed(<<Colon>>)
  BY KeyPartsAre, EscapesListed
<1>3. Listed(z)
  <2> DEFINE c == <<Colon>>
             x == Joined(EscapeID(dst), c)
             w == Joined(c, EscapeID(src))
             y == Joined(EscapeID(edge), w)
  <2>1. Listed(x) /\ Listed(w)
    <3> HIDE DEF c
    <3> QED
      BY <1>2, SideBySide DEF c
  <2> HIDE DEF w, x
  <2>2. Listed(y)
    BY <1>2, <2>1, SideBySide
  <2> HIDE DEF y
  <2>3. Listed(Joined(x, y))
    BY <2>1, <2>2, SideBySide
  <2> QED
    BY <2>3 DEF w, x, y
<1> HIDE DEF z
<1>4. Listed(r) /\ Len(r) = 3 /\ r[2] = "r" /\ Colon # "r" /\ Listed(p) /\ Len(p) = 2 /\ p[2] = Colon
  BY KeyPartsAre
<1> HIDE DEF r, p
<1>5. Listed(Joined(r, z)) /\ \A i \in 1..Len(r) : Joined(r, z)[i] = r[i]
  BY <1>3, <1>4, SideBySide
<1>6. Joined(r, z)[2] = "r"
  BY <1>4, <1>5
<1>7. IsPrefix(p, Joined(r, z)) => p[2] = Joined(r, z)[2]
  <2> DEFINE q == Joined(r, z)
  <2>1. Listed(p) /\ Listed(q)
    BY <1>4, <1>5
  <2> HIDE DEF q
  <2>2. IsPrefix(p, q) <=> Len(p) <= Len(q) /\ \A i \in 1..Len(p) : p[i] = q[i]
    BY <2>1, PrefixIs
  <2>3. 2 \in 1..Len(p)
    BY <1>4
  <2>4. IsPrefix(p, q) => p[2] = q[2]
    BY <2>2, <2>3
  <2> QED
    BY <2>4 DEF q
<1> QED
  BY <1>1, <1>4, <1>6, <1>7 DEF p

\* The part of a sequence before its last places, and after its first ones.
LEMMA Cut ==
  ASSUME NEW x, NEW y, NEW z, Listed(x), Listed(y), Listed(z)
  PROVE  /\ SubSeq(Joined(x, y), 1, Len(Joined(x, y)) - Len(y)) = x
         /\ SubSeq(Joined(Joined(x, y), z), Len(x) + 1, Len(Joined(Joined(x, y), z)) - Len(z)) = y
<1> DEFINE p == Joined(x, y)
           q == Joined(p, z)
<1>1. /\ Listed(p) /\ Len(x) \in Nat /\ Len(y) \in Nat /\ Len(p) = Len(x) + Len(y)
      /\ \A i \in 1..Len(x) : p[i] = x[i]
      /\ \A i \in 1..Len(y) : p[Len(x) + i] = y[i]
  BY SideBySide
<1>2. x = [i \in 1..Len(x) |-> x[i]] /\ y = [i \in 1..Len(y) |-> y[i]]
  BY ListedIs
<1> HIDE DEF p
<1>3. /\ Listed(q) /\ Len(z) \in Nat /\ Len(q) = Len(p) + Len(z)
      /\ \A i \in 1..Len(p) : q[i] = p[i]
  <2>1. Listed(p) /\ Listed(z)
    BY <1>1
  <2> QED
    BY <2>1, SideBySide, SMTT(30)
<1> HIDE DEF q
<1>4. SubSeq(p, 1, Len(p) - Len(y)) = x
  <2>1. p \in Seq(Range(p)) /\ Len(p) - Len(y) = Len(x)
    BY <1>1 DEF Listed
  <2>2. SubSeq(p, 1, Len(x)) = [i \in 1..Len(x) |-> p[i]]
    BY <1>1, <2>1
  <2>3. [i \in 1..Len(x) |-> p[i]] = [i \in 1..Len(x) |-> x[i]]
    BY <1>1
  <2> QED
    BY <1>2, <2>1, <2>2, <2>3
<1>5. SubSeq(q, Len(x) + 1, Len(q) - Len(z)) = y
  <2>1. q \in Seq(Range(q)) /\ Len(q) - Len(z) = Len(x) + Len(y)
    BY <1>1, <1>3 DEF Listed
  <2>2. SubSeq(q, Len(x) + 1, Len(x) + Len(y)) = [i \in 1..Len(y) |-> q[Len(x) + i]]
    <3>1. PICK m \in Nat, n \in Nat : m = Len(x) /\ n = Len(y)
      BY <1>1
    <3>2. SubSeq(q, m + 1, m + n) = [i \in 1..((m + n) - (m + 1) + 1) |-> q[i + (m + 1) - 1]]
      BY <2>1, <3>1
    <3>3. (m + n) - (m + 1) + 1 = n /\ \A i \in 1..n : i + (m + 1) - 1 = m + i
      BY <3>1
    <3> QED
      BY <3>1, <3>2, <3>3
  <2>3. \A i \in 1..Len(y) : q[Len(x) + i] = y[i]
    <3> TAKE i \in 1..Len(y)
    <3>1. Len(x) + i \in 1..Len(p)
      BY <1>1
    <3> QED
      BY <1>1, <1>3, <3>1
  <2>4. [i \in 1..Len(y) |-> q[Len(x) + i]] = [i \in 1..Len(y) |-> y[i]]
    BY <2>3
  <2> QED
    BY <1>2, <2>1, <2>2, <2>4
<1> QED
  BY <1>4, <1>5 DEF p, q

\* The middle of three sequences.
LEMMA CutInside ==
  ASSUME NEW x, NEW y, NEW z, Listed(x), Listed(y), Listed(z)
  PROVE  SubSeq(Joined(Joined(x, y), z), Len(x) + 1, Len(Joined(Joined(x, y), z)) - Len(z)) = y
  BY Cut

\* A link's key without its version is the link, and its chain is found again from it.
LEMMA LinkKeyIs ==
  ASSUME NEW id, Listed(id), NEW v
  PROVE  /\ chainPrefixFromForwardKey(BuildKey("link", id, v)) = chainPrefix("link", id)
         /\ splitChainTuple(BuildKey("link", id, v)) = EscapeID(id)
<1> DEFINE p == KindPrefix("link")
           e == EscapeID(id)
           vs == VersionSeparator
           n == padVersion(v)
           m == Joined(vs, n)
           pe == Joined(p, e)
           key == BuildKey("link", id, v)
<1>1. Listed(p) /\ Len(p) = 2 /\ Listed(e) /\ Listed(n) /\ Len(n) = VersionDigits
  BY KeyPartsAre, EscapedIs
<1>2. Listed(vs) /\ Len(vs) = 2
  <2>1. Listed(<<Colon>>) /\ Listed(<<"v">>) /\ vs = Joined(<<Colon>>, <<"v">>) /\ Len(vs) = 2
    BY KeyPartsAre
  <2> QED
    BY <2>1, SideBySide
<1>3. key = Joined(Joined(pe, vs), n) /\ chainPrefix("link", id) = Joined(pe, vs)
  BY DEF BuildKey, chainPrefix, Joined
<1>4. chainPrefixFromForwardKey(key) = Joined(SubSeq(key, 1, Len(key) - (Len(vs) + VersionDigits)), vs)
  BY DEF chainPrefixFromForwardKey, Joined
<1>5. splitChainTuple(key) = SubSeq(key, 3, Len(key) - (Len(vs) + VersionDigits))
  BY DEF splitChainTuple
<1> HIDE DEF p, e, vs, n, key
<1>6. Listed(pe)
  BY <1>1, SideBySide
<1>7. Listed(m) /\ Len(m) = Len(vs) + VersionDigits
  BY <1>1, <1>2, SideBySide
<1> HIDE DEF pe
<1>8. key = Joined(pe, m)
  BY <1>1, <1>2, <1>3, <1>6, Associates
<1> HIDE DEF m
<1>9. SubSeq(key, 1, Len(key) - Len(m)) = pe
  BY <1>6, <1>7, <1>8, Cut
<1>10. SubSeq(key, 3, Len(key) - Len(m)) = e
  <2>1. SubSeq(Joined(Joined(p, e), m), Len(p) + 1, Len(Joined(Joined(p, e), m)) - Len(m)) = e
    <3>1. Listed(p) /\ Listed(e) /\ Listed(m)
      BY <1>1, <1>7
    <3> QED
      BY ONLY <3>1, CutInside
  <2>2. Len(p) + 1 = 3
    BY <1>1
  <2> QED
    BY <2>1, <2>2, <1>8 DEF pe
<1>11. chainPrefixFromForwardKey(key) = Joined(pe, vs)
  BY <1>4, <1>7, <1>9
<1>12. splitChainTuple(key) = e
  BY <1>5, <1>7, <1>10
<1> QED
  BY <1>3, <1>11, <1>12 DEF key, e

\* For ids and edge types of any length and content: the scans of a graph walk
\* find the links of their node and of no other, and the chain of each.
THEOREM LinkScansHold == KeysSpec => []LinkScansAreExact
<1>1. KeysInit => KeysTypeOK
  BY DEF KeysInit, KeysTypeOK
<1>2. KeysTypeOK /\ [KeysNext]_pair => KeysTypeOK'
  BY DEF KeysTypeOK, KeysNext
<1>3. KeysTypeOK => LinkScansAreExact
  <2> SUFFICES ASSUME KeysTypeOK, NEW start \in IDs, NEW edge \in {pair.a, pair.b}
               PROVE  LET key == BuildKey("link", LinkID(pair.a, edge, pair.b), 1)
                      IN /\ IsPrefix(forwardSrcPrefix(start), key) <=> start = pair.a
                         /\ IsPrefix(reverseDstPrefix(start), BuildReverseLinkKey(pair.b, edge, pair.a)) <=> start = pair.b
                         /\ IsPrefix(reverseLinkPrefixForDst(start, pair.a), BuildReverseLinkKey(pair.b, edge, pair.a))
                               <=> (start = pair.b /\ pair.a = edge)
                         /\ chainPrefixFromForwardKey(key) = chainPrefix("link", LinkID(pair.a, edge, pair.b))
                         /\ splitChainTuple(key) = EscapeID(LinkID(pair.a, edge, pair.b))
                         /\ ~IsPrefix(KindPrefix("link"), BuildReverseLinkKey(pair.b, edge, pair.a))
    BY DEF LinkScansAreExact
  <2>1. Listed(pair.a) /\ Listed(pair.b) /\ Listed(start) /\ Listed(edge)
    BY IDsAreListed DEF KeysTypeOK, IdPairs
  <2>2. Listed(LinkID(pair.a, edge, pair.b))
    BY <2>1, LinkIDIs
  <2>3. IsPrefix(forwardSrcPrefix(start), BuildKey("link", LinkID(pair.a, edge, pair.b), 1)) <=> start = pair.a
    BY <2>1, ForwardPrefixIs
  <2>4. /\ IsPrefix(reverseDstPrefix(start), BuildReverseLinkKey(pair.b, edge, pair.a)) <=> start = pair.b
        /\ IsPrefix(reverseLinkPrefixForDst(start, pair.a), BuildReverseLinkKey(pair.b, edge, pair.a))
              <=> (start = pair.b /\ pair.a = edge)
    BY <2>1, ReversePrefixIs
  <2>5. ~IsPrefix(KindPrefix("link"), BuildReverseLinkKey(pair.b, edge, pair.a))
    BY <2>1, ReverseIsNoLink
  <2>6. /\ chainPrefixFromForwardKey(BuildKey("link", LinkID(pair.a, edge, pair.b), 1))
             = chainPrefix("link", LinkID(pair.a, edge, pair.b))
        /\ splitChainTuple(BuildKey("link", LinkID(pair.a, edge, pair.b), 1)) = EscapeID(LinkID(pair.a, edge, pair.b))
    BY <2>2, LinkKeyIs
  <2> QED
    BY <2>3, <2>4, <2>5, <2>6
<1> QED
  BY <1>1, <1>2, <1>3, PTL DEF KeysSpec
=============================================================================
