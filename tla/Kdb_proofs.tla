----------------------------- MODULE Kdb_proofs -----------------------------
(***************************************************************************)
(* For any keys, values, pages and bounds, and in every commit mode: as    *)
(* long as no fsync fails and no process goes down over a mixed tree, a    *)
(* crash loses nothing that was acknowledged, but for keys with a record   *)
(* before a torn one; and a view whose tree is not reshaped never meets    *)
(* anything older than that.  Without group commit and with I/O that does  *)
(* not fail, a crash at any other moment brings back the very tree the     *)
(* running process works on.                                               *)
(***************************************************************************)
EXTENDS Kdb, WellFoundedInduction, TLAPS

Record == [key : Keys, val : Value]

-----------------------------------------------------------------------------
(* Replay of a log                                                         *)

\* Every set of naturals that is not empty has a least element.
LEMMA LeastNat == ASSUME NEW T \in SUBSET Nat, T # {} PROVE \E n \in T : \A m \in T : n <= m
<1>1. PICK x \in T : \A y \in T : ~ (<<y, x>> \in OpToRel(<, Nat))
  BY NatLessThanWellFounded, WFMin
<1>2. \A y \in T : ~(y < x)
  BY <1>1 DEF OpToRel
<1> QED
  BY <1>2

IsLast(log, k, i) == /\ i \in 1..Len(log)
                     /\ log[i].key = k
                     /\ \A j \in i + 1..Len(log) : log[j].key # k

\* What the log says of a key: the value of its last record.
Said(log, k) == log[LastIn(log, k)].val

\* A key that has records in the log has a last one, and LastIn finds it.
LEMMA LastInIsLast ==
  ASSUME NEW log \in Seq(Record), NEW k, Has(log, k)
  PROVE  /\ IsLast(log, k, LastIn(log, k))
         /\ \A i \in 1..Len(log) : IsLast(log, k, i) => i = LastIn(log, k)
<1> DEFINE n == Len(log)
           T == {d \in Nat : d < n /\ log[n - d].key = k}
<1>1. \E i \in 1..n : IsLast(log, k, i)
  <2>1. PICK i \in 1..n : log[i].key = k
    BY DEF Has
  <2>2. n - i \in T
    BY <2>1
  <2>3. PICK d \in T : \A e \in T : d <= e
    BY <2>2, LeastNat
  <2>4. \A j \in n - d + 1..n : n - j \in Nat /\ n - j < d /\ n - (n - j) = j
    BY <2>3
  <2>5. \A j \in n - d + 1..n : log[j].key # k
    BY <2>3, <2>4
  <2>6. n - d \in 1..n
    BY <2>3
  <2> QED
    BY <2>3, <2>5, <2>6 DEF IsLast
<1>2. IsLast(log, k, LastIn(log, k))
  BY <1>1 DEF LastIn, IsLast
<1>3. ASSUME NEW i \in 1..n, IsLast(log, k, i) PROVE i = LastIn(log, k)
  <2>1. ~(LastIn(log, k) < i) /\ ~(i < LastIn(log, k)) /\ LastIn(log, k) \in 1..n
    BY <1>2, <1>3 DEF IsLast
  <2> QED
    BY <2>1
<1> QED
  BY <1>2, <1>3

\* A key has a record, and what is said of it is the value of one.
LEMMA SaidIsRecord ==
  ASSUME NEW log \in Seq(Record), NEW k, Has(log, k)
  PROVE  /\ Said(log, k) \in Value
         /\ \E i \in 1..Len(log) : log[i].key = k /\ Said(log, k) = log[i].val
<1> DEFINE i == LastIn(log, k)
<1>1. i \in 1..Len(log) /\ log[i].key = k
  BY LastInIsLast DEF IsLast
<1>2. log[i] \in Record
  BY <1>1
<1>3. log[i].val \in Value
  BY <1>2 DEF Record
<1> QED
  BY <1>1, <1>3 DEF Said

\* Of two logs, one behind the other, the later one has the last word.
LEMMA LaterLogSays ==
  ASSUME NEW a \in Seq(Record), NEW b \in Seq(Record), NEW k
  PROVE  /\ Has(a \o b, k) <=> Has(a, k) \/ Has(b, k)
         /\ Has(b, k) => Said(a \o b, k) = Said(b, k)
         /\ Has(a, k) /\ ~Has(b, k) => Said(a \o b, k) = Said(a, k)
<1> DEFINE c == a \o b
<1>1. /\ c \in Seq(Record) /\ Len(a) \in Nat /\ Len(b) \in Nat
      /\ Len(c) = Len(a) + Len(b)
      /\ \A i \in 1..Len(a) : c[i] = a[i]
      /\ \A i \in 1..Len(b) : c[Len(a) + i] = b[i]
  OBVIOUS
<1>2. \A i \in 1..Len(c) : i > Len(a) => i - Len(a) \in 1..Len(b) /\ c[i] = b[i - Len(a)]
  <2> SUFFICES ASSUME NEW i \in 1..Len(c), i > Len(a)
               PROVE  i - Len(a) \in 1..Len(b) /\ c[i] = b[i - Len(a)]
    OBVIOUS
  <2>1. i - Len(a) \in 1..Len(b) /\ Len(a) + (i - Len(a)) = i
    BY <1>1
  <2> QED
    BY <1>1, <2>1
<1> HIDE DEF c
<1>3. Has(c, k) <=> Has(a, k) \/ Has(b, k)
  <2>1. Has(a, k) => Has(c, k)
    BY <1>1 DEF Has
  <2>2. ASSUME Has(b, k) PROVE Has(c, k)
    <3>1. PICK i \in 1..Len(b) : b[i].key = k
      BY <2>2 DEF Has
    <3>2. Len(a) + i \in 1..Len(c) /\ c[Len(a) + i].key = k
      BY <1>1, <3>1
    <3> QED
      BY <3>2 DEF Has
  <2>3. ASSUME Has(c, k) PROVE Has(a, k) \/ Has(b, k)
    <3>1. PICK i \in 1..Len(c) : c[i].key = k
      BY <2>3 DEF Has
    <3>2. CASE i > Len(a)
      BY <1>2, <3>1, <3>2 DEF Has
    <3>3. CASE i \in 1..Len(a)
      BY <1>1, <3>1, <3>3 DEF Has
    <3> QED
      BY <1>1, <3>2, <3>3
  <2> QED
    BY <2>1, <2>2, <2>3
<1>4. ASSUME Has(b, k) PROVE Said(c, k) = Said(b, k)
  <2> DEFINE i == LastIn(b, k)
  <2>1. IsLast(b, k, i)
    BY <1>4, LastInIsLast
  <2> HIDE DEF i
  <2>2. Len(a) + i \in 1..Len(c) /\ c[Len(a) + i] = b[i]
    BY <1>1, <2>1 DEF IsLast
  <2>3. \A j \in Len(a) + i + 1..Len(c) : c[j].key # k
    <3> SUFFICES ASSUME NEW j \in Len(a) + i + 1..Len(c) PROVE c[j].key # k
      OBVIOUS
    <3>1. j \in 1..Len(c) /\ j > Len(a) /\ j - Len(a) \in i + 1..Len(b)
      BY <1>1, <2>1 DEF IsLast
    <3> QED
      BY <1>2, <2>1, <3>1 DEF IsLast
  <2>4. IsLast(c, k, Len(a) + i)
    BY <2>1, <2>2, <2>3 DEF IsLast
  <2>5. LastIn(c, k) = Len(a) + i
    BY <1>1, <1>3, <1>4, <2>2, <2>4, LastInIsLast
  <2> QED
    BY <2>2, <2>5 DEF Said, i
<1>5. ASSUME Has(a, k), ~Has(b, k) PROVE Said(c, k) = Said(a, k)
  <2> DEFINE i == LastIn(a, k)
  <2>1. IsLast(a, k, i)
    BY <1>5, LastInIsLast
  <2> HIDE DEF i
  <2>2. i \in 1..Len(c) /\ c[i] = a[i]
    BY <1>1, <2>1 DEF IsLast
  <2>3. \A j \in i + 1..Len(c) : c[j].key # k
    <3> SUFFICES ASSUME NEW j \in i + 1..Len(c) PROVE c[j].key # k
      OBVIOUS
    <3>1. i \in 1..Len(a) /\ j \in 1..Len(c)
      BY <1>1, <2>1 DEF IsLast
    <3>2. CASE j > Len(a)
      BY <1>2, <1>5, <3>1, <3>2 DEF Has
    <3>3. CASE j \in i + 1..Len(a)
      <4>1. j \in 1..Len(a) /\ a[j].key # k
        BY <1>1, <2>1, <3>1, <3>3 DEF IsLast
      <4> QED
        BY <1>1, <4>1
    <3> QED
      BY <1>1, <3>1, <3>2, <3>3
  <2>4. IsLast(c, k, i)
    BY <2>1, <2>2, <2>3 DEF IsLast
  <2>5. LastIn(c, k) = i
    BY <1>1, <1>3, <1>5, <2>2, <2>4, LastInIsLast
  <2> QED
    BY <2>2, <2>5 DEF Said, i
<1> QED
  BY <1>3, <1>4, <1>5 DEF c

\* The log with one more record.
Logged(log, k, v) == log \o <<Rec(k, v)>>

\* One more record has the last word on its key and changes nothing for the others.
LEMMA OneMoreRecord ==
  ASSUME NEW log \in Seq(Record), NEW k \in Keys, NEW v \in Value
  PROVE  /\ Logged(log, k, v) \in Seq(Record)
         /\ Has(Logged(log, k, v), k) /\ Said(Logged(log, k, v), k) = v
         /\ \A q \in Keys \ {k} :
               /\ Has(Logged(log, k, v), q) <=> Has(log, q)
               /\ Has(log, q) => Said(Logged(log, k, v), q) = Said(log, q)
<1> DEFINE one == <<Rec(k, v)>>
<1>1. /\ one \in Seq(Record) /\ Len(one) = 1 /\ one[1] = Rec(k, v)
      /\ Rec(k, v).key = k /\ Rec(k, v).val = v
  BY DEF Rec, Record
<1> HIDE DEF one
<1>2. Has(one, k) /\ \A q \in Keys \ {k} : ~Has(one, q)
  BY <1>1 DEF Has
<1>3. Said(one, k) = v
  BY <1>1, <1>2, SaidIsRecord
<1>4. Logged(log, k, v) = log \o one
  BY DEF Logged, one
<1> QED
  BY <1>1, <1>2, <1>3, <1>4, LaterLogSays

\* A record added to the later of two logs is added to both.
LEMMA LoggedBehind ==
  ASSUME NEW a \in Seq(Record), NEW b \in Seq(Record), NEW k \in Keys, NEW v \in Value
  PROVE  a \o b \in Seq(Record) /\ a \o Logged(b, k, v) = Logged(a \o b, k, v)
<1>1. Rec(k, v) \in Record
  BY DEF Rec, Record
<1>2. a \o (b \o <<Rec(k, v)>>) = (a \o b) \o <<Rec(k, v)>>
  BY <1>1
<1> QED
  BY <1>2 DEF Logged

\* An empty log has no records.
LEMMA EmptyLog == << >> \in Seq(Record) /\ \A k : ~Has(<< >>, k)
BY DEF Has

\* Appending nothing, or a part of nothing, changes no log.
LEMMA AppendNothing ==
  ASSUME NEW log \in Seq(Record)
  PROVE  log \o << >> = log /\ \A n \in 0..Len(<< >>) : log \o SubSeq(<< >>, 1, n) = log
<1>1. log \o << >> = log
  OBVIOUS
<1>2. SubSeq(<< >>, 1, 0) = << >>
  OBVIOUS
<1> QED
  BY <1>1, <1>2

\* Replay gives every key a value.
LEMMA ReplayedType ==
  ASSUME NEW log \in Seq(Record), NEW img \in [Keys -> Value]
  PROVE  Replayed(img, log) \in [Keys -> Value]
<1>1. \A k \in Keys : Has(log, k) => Said(log, k) \in Value
  BY SaidIsRecord
<1> QED
  BY <1>1 DEF Replayed, Said

-----------------------------------------------------------------------------
(* The inductive invariant                                                 *)

Up == pc \notin {"down", "lost"}

Types == /\ disk \in [Keys -> Value] /\ file \in [Keys -> Value] /\ mem \in [Keys -> Value]
         /\ unsynced \subseteq Pages /\ dirty \subseteq Pages
         /\ wal \in Seq(Record)
         /\ batch = << >> /\ torn = FALSE

\* The pool and the file differ on dirty pages only, file and disk on unsynced ones.
PagesAgree == /\ Up => \A k \in Keys : PageOf[k] \notin dirty => file[k] = mem[k]
              /\ \A k \in Keys : PageOf[k] \notin unsynced => disk[k] = file[k]

\* The log tells the value of every key it has a record of; the others are the
\* same in memory, in the file and on disk.
LogTellsRest ==
  \A k \in Keys : /\ Has(wal, k) => (Up => Said(wal, k) = mem[k])
                  /\ ~Has(wal, k) => disk[k] = file[k] /\ (Up => file[k] = mem[k])

\* The log is cut only when everything has been flushed and synced.
CutIsFlushed ==
  pc \in {"swap", "cklog", "ckremove", "recovered"} => dirty = {} /\ unsynced = {}

CloseIsUp == closing \in {"flushing", "flushed"} => Up

IInv == Types /\ PagesAgree /\ LogTellsRest /\ CutIsFlushed /\ CloseIsUp

\* What the invariant is for: replaying the log over the disk or the file gives
\* the tree in memory.
LEMMA IInvRecovers == IInv => CrashRecoversMemory
<1> SUFFICES ASSUME IInv, Up, NEW img \in {disk, file} PROVE Replayed(img, wal) = mem
  BY DEF CrashRecoversMemory, Sound, Up
<1>1. \A k \in Keys : Replayed(img, wal)[k] = mem[k]
  BY DEF IInv, LogTellsRest, Replayed, Said
<1> QED
  BY <1>1 DEF IInv, Types, Replayed

\* A new database satisfies the invariant.
LEMMA InitIInv == Init => IInv
<1> SUFFICES ASSUME Init PROVE IInv
  OBVIOUS
<1>1. disk \in [Keys -> Value] /\ file = disk /\ mem = disk
  BY DEF Init, Value
<1> QED
  BY <1>1, EmptyLog
     DEF Init, IInv, Types, PagesAgree, LogTellsRest, CutIsFlushed, CloseIsUp

\* Writing a dirty page of the pool to the file, by a flush or an eviction.
LEMMA WritePageIInv ==
  ASSUME IInv, Up, NEW p \in dirty,
         file' = WritePage(file, mem, p),
         dirty' = dirty \ {p}, unsynced' = unsynced \cup {p},
         UNCHANGED <<disk, mem, wal, pc, closing, batch, torn>>
  PROVE  IInv'
<1> USE KdbAssumption DEF IInv, Types, Up
<1>1. Types'
  BY DEF WritePage
<1>2. PagesAgree'
  BY DEF PagesAgree, WritePage
<1>3. LogTellsRest'
  BY DEF LogTellsRest, WritePage
<1>4. CutIsFlushed' /\ CloseIsUp'
  BY DEF CutIsFlushed, CloseIsUp
<1> QED
  BY <1>1, <1>2, <1>3, <1>4

\* Put and Delete: the log gets the record and the pool the value.
LEMMA WriteIInv ==
  ASSUME IInv, ~groupCommit, NEW k \in Keys, NEW v \in Value, Write(k, v)
  PROVE  IInv'
<1> USE KdbAssumption DEF IInv, Types, Up
<1>1. /\ pc = "body" /\ pc' = "body" /\ closing' = closing
      /\ wal' = wal \o <<Rec(k, v)>> /\ batch' = batch /\ torn' = torn
      /\ mem' = [mem EXCEPT ![k] = v]
      /\ dirty' = IF v = Absent /\ mem[k] = Absent THEN dirty ELSE dirty \cup {PageOf[k]}
      /\ disk' = disk /\ file' = file /\ unsynced' = unsynced
  BY DEF Write, Appended
<1>2. /\ wal' \in Seq(Record)
      /\ Has(wal', k) /\ Said(wal', k) = v
      /\ \A q \in Keys \ {k} : /\ Has(wal', q) <=> Has(wal, q)
                               /\ Has(wal, q) => Said(wal', q) = Said(wal, q)
  <2>1. wal \in Seq(Record) /\ wal' = Logged(wal, k, v)
    BY <1>1 DEF Logged
  <2> HIDE DEF IInv, Types
  <2> QED
    BY <2>1, OneMoreRecord
<1>3. Types'
  BY <1>1, <1>2
<1>4. PagesAgree'
  BY <1>1 DEF PagesAgree
<1>5. LogTellsRest'
  BY <1>1, <1>2 DEF LogTellsRest
<1>6. CutIsFlushed' /\ CloseIsUp'
  BY <1>1 DEF CutIsFlushed, CloseIsUp
<1> QED
  BY <1>3, <1>4, <1>5, <1>6

\* Crash and Kill: memory is gone, the log is as it was.
LEMMA DownKeepsLog ==
  ASSUME IInv, Down
  PROVE  /\ wal' = wal /\ batch' = << >> /\ dirty' = {} /\ torn' = FALSE
         /\ pc' \in {"down", "lost"} /\ closing' = "no"
<1>1. LogImages = {wal \o SubSeq(<< >>, 1, n) : n \in 0..Len(<< >>)}
  BY DEF IInv, Types, LogImages, Appended
<1>2. wal' \in LogImages
  BY DEF Down
<1>3. PICK n \in 0..Len(<< >>) : wal' = wal \o SubSeq(<< >>, 1, n)
  BY <1>1, <1>2
<1> QED
  BY <1>3, AppendNothing DEF IInv, Types, Down, GoesDown

\* Every step of a database without group commit and I/O errors preserves the
\* invariant.
LEMMA NextIInv == ASSUME ~groupCommit, ~IOMayFail PROVE IInv /\ [Next]_vars => IInv'
<1> SUFFICES ASSUME IInv, [Next]_vars PROVE IInv'
  OBVIOUS
<1> USE KdbAssumption
<1> DEFINE Same == UNCHANGED <<disk, file, unsynced, mem, dirty, wal, batch, torn>>
<1>1. ASSUME Same, closing' = closing, Up <=> Up',
             pc' \in {"swap", "cklog", "ckremove", "recovered"} => dirty = {} /\ unsynced = {}
      PROVE  IInv'
  BY <1>1 DEF IInv, Types, PagesAgree, LogTellsRest, CutIsFlushed, CloseIsUp, Up
<1>2. ASSUME Same, UNCHANGED <<pc, closing>> PROVE IInv'
  BY <1>2, <1>1 DEF IInv, CutIsFlushed, Up
<1>a. batch' = << >> => batch' = batch
  BY DEF IInv, Types
<1>3. CASE BeginUpdate
  BY <1>3, <1>1 DEF BeginUpdate, dataVars, Up
<1>4. CASE Rollback
  BY <1>4, <1>1, <1>a DEF Rollback, Finish, dataVars, Up
<1>5. CASE LogCommit
  <2>1. wal' = wal /\ batch' = batch
    BY <1>5, AppendNothing DEF LogCommit, Appended, IInv, Types
  <2> QED
    BY <1>5, <1>1, <2>1 DEF LogCommit, dataVars, Up
<1>6. ASSUME NEW k \in Keys, NEW v \in Value, Write(k, v) PROVE IInv'
  BY <1>6, WriteIInv
<1>7. ASSUME NEW k \in Keys, NEW v \in Value, WriteFails(k, v) PROVE IInv'
  BY <1>7 DEF WriteFails
<1>8. ASSUME NEW p \in Pages, Evict(p) PROVE IInv'
  BY <1>8, WritePageIInv DEF Evict, txVars, Up
<1>9. ASSUME NEW p \in Pages, FlushPage(p) PROVE IInv'
  <2>1. Up
    BY <1>9 DEF FlushPage, Flushing, IInv, CloseIsUp, Up
  <2> QED
    BY <1>9, <2>1, WritePageIInv DEF FlushPage, txVars
<1>10. CASE FlushSync
  BY <1>10 DEF FlushSync, txVars, IInv, Types, PagesAgree, LogTellsRest, CutIsFlushed, CloseIsUp, Up
<1>11. CASE FlushFails
  BY <1>11, <1>1, <1>a DEF FlushFails, Finish, dataVars, Up
<1>12. CASE CommitMeta
  BY <1>12, <1>1, <1>a DEF CommitMeta, Finish, dataVars, Up
<1>13. CASE CommitMetaFails
  BY <1>13, <1>1, <1>a DEF CommitMetaFails, Finish, dataVars, Up
<1>14. CASE BeginCheckpoint
  BY <1>14, <1>1 DEF BeginCheckpoint, dataVars, txVars, Up
<1>15. CASE CheckpointMeta
  BY <1>15, <1>1 DEF CheckpointMeta, dataVars, txVars, Up, IInv, CutIsFlushed
<1>16. CASE CheckpointRemove
  BY <1>16, EmptyLog DEF CheckpointRemove, dataVars, txVars,
                         IInv, Types, PagesAgree, LogTellsRest, CutIsFlushed, CloseIsUp, Up
<1>17. CASE CheckpointFails
  <2>1. torn' = torn
    BY <1>17 DEF CheckpointFails, IInv, Types
  <2> QED
    BY <1>17, <2>1, <1>1 DEF CheckpointFails, dataVars, txVars, Up
<1>18. ASSUME NEW r \in Readers, BeginView(r) PROVE IInv'
  BY <1>18, <1>2 DEF BeginView, dataVars, txVars
<1>19. ASSUME NEW r \in Readers, EndView(r) PROVE IInv'
  BY <1>19, <1>2 DEF EndView, dataVars, txVars
<1>20. ASSUME NEW r \in Readers, NEW p \in Pages, ViewRead(r, p) PROVE IInv'
  BY <1>20, <1>2 DEF ViewRead, dataVars, txVars
<1>21. CASE BeginClose
  BY <1>21 DEF BeginClose, dataVars, txVars, IInv, Types, PagesAgree, LogTellsRest, CutIsFlushed, CloseIsUp, Up
<1>22. CASE CloseFlushed
  BY <1>22 DEF CloseFlushed, txVars, IInv, Types, PagesAgree, LogTellsRest, CutIsFlushed, CloseIsUp, Up
<1>23. CASE EndClose
  BY <1>23 DEF EndClose, txVars, IInv, Types, PagesAgree, LogTellsRest, CutIsFlushed, CloseIsUp, Up
<1>24. CASE Exit
  BY <1>24 DEF Exit, GoesDown, dataVars, txVars, IInv, Types, PagesAgree, LogTellsRest, CutIsFlushed, CloseIsUp, Up
<1>25. CASE Crash
  <2>1. Down /\ file' = disk' /\ unsynced' = {} /\ mem' = mem
    BY <1>25 DEF Crash, Down
  <2>2. disk' \in [Keys -> Value]
    BY <1>25 DEF Crash, IInv, Types
  <2>3. \A k \in Keys : ~Has(wal, k) => disk'[k] = file'[k]
    BY <2>1
  <2> QED
    BY <2>1, <2>2, <2>3, DownKeepsLog
       DEF IInv, Types, PagesAgree, LogTellsRest, CutIsFlushed, CloseIsUp, Up
<1>26. CASE Kill
  <2>1. Down /\ UNCHANGED <<disk, file, unsynced>> /\ mem' = mem
    BY <1>26 DEF Kill, Down
  <2> QED
    BY <2>1, DownKeepsLog
       DEF IInv, Types, PagesAgree, LogTellsRest, CutIsFlushed, CloseIsUp, Up
<1>27. CASE Recover
  <2>1. /\ pc = "down" /\ pc' = "recover" /\ closing' = "no"
        /\ mem' = Replayed(file, wal)
        /\ dirty' = {PageOf[k] : k \in {j \in Keys : Has(wal, j)}}
        /\ UNCHANGED <<disk, file, unsynced, wal, batch, torn>>
    BY <1>27 DEF Recover, txVars
  <2>2. mem' \in [Keys -> Value]
    BY <2>1, ReplayedType DEF IInv, Types
  <2>3. \A k \in Keys : mem'[k] = IF Has(wal, k) THEN Said(wal, k) ELSE file[k]
    BY <2>1 DEF Replayed, Said
  <2>4. \A k \in Keys : PageOf[k] \notin dirty' => ~Has(wal, k)
    BY <2>1
  <2>5. dirty' \subseteq Pages
    BY <2>1
  <2>6. Types'
    BY <2>1, <2>2, <2>5 DEF IInv, Types
  <2>7. PagesAgree'
    BY <2>1, <2>3, <2>4 DEF IInv, PagesAgree
  <2>8. LogTellsRest'
    BY <2>1, <2>3 DEF IInv, LogTellsRest
  <2> QED
    BY <2>1, <2>6, <2>7, <2>8 DEF IInv, CutIsFlushed, CloseIsUp
<1>28. CASE RecoverTruncate
  BY <1>28, EmptyLog DEF RecoverTruncate, dataVars, txVars,
                         IInv, Types, PagesAgree, LogTellsRest, CutIsFlushed, CloseIsUp, Up
<1>29. CASE Lost \/ UNCHANGED vars
  BY <1>29, <1>2 DEF Lost, vars, dataVars, txVars
<1>30. CASE FlushOther
  BY <1>30, <1>2 DEF FlushOther, dataVars, txVars
<1>31. CASE AppendFails \/ CloseFlushFails \/ RecoverFails \/ Ends
  BY <1>31 DEF AppendFails, CloseFlushFails, RecoverFails, Ends
<1> QED
  BY <1>3, <1>4, <1>5, <1>6, <1>7, <1>8, <1>9, <1>10, <1>11, <1>12, <1>13, <1>14, <1>15,
     <1>16, <1>17, <1>18, <1>19, <1>20, <1>21, <1>22, <1>23, <1>24, <1>25, <1>26, <1>27,
     <1>28, <1>29, <1>30, <1>31 DEF Next

-----------------------------------------------------------------------------
\* The commit mode is one of those an Open may choose.
ModeAllowed == groupCommit \in GroupCommit

\* No step but Open changes the commit mode.
LEMMA ModeStaysAllowed == /\ Init => ModeAllowed
                          /\ ModeAllowed /\ [Next]_vars => ModeAllowed'
BY DEF ModeAllowed, Init, Next, vars, envVars, BeginUpdate, Rollback, LogCommit, Write, WriteFails,
       AppendFails, Evict, FlushPage, FlushOther, FlushSync, FlushFails, CommitMeta, CommitMetaFails,
       BeginCheckpoint, CheckpointMeta, CheckpointRemove, CheckpointFails, BeginView, EndView,
       ViewRead, BeginClose, CloseFlushed, CloseFlushFails, EndClose, Exit, Crash, Kill, Down,
       Recover, RecoverTruncate, RecoverFails, Ends, Lost

\* The invariant holds in every reachable state.
THEOREM KdbInvariant == ASSUME TRUE \notin GroupCommit, ~IOMayFail PROVE Spec => []IInv
<1>1. Init => IInv /\ ModeAllowed
  BY InitIInv, ModeStaysAllowed
<1>2. IInv /\ ModeAllowed /\ [Next]_vars => (IInv /\ ModeAllowed)'
  BY NextIInv, ModeStaysAllowed, KdbAssumption, Zenon DEF ModeAllowed
<1> QED
  BY <1>1, <1>2, PTL DEF Spec

\* A crash at any moment at which the file does not mix two trees, whatever was
\* rolled back, evicted, checkpointed or interrupted before, brings back exactly
\* the tree of the running process.
THEOREM CrashIsExact == ASSUME TRUE \notin GroupCommit, ~IOMayFail PROVE Spec => []CrashRecoversMemory
BY KdbInvariant, IInvRecovers, PTL

-----------------------------------------------------------------------------
(* Refinement of KVStore by the state a crash brings back                  *)

\* What Kdb gives KVStore for its variables.
Recovered == Replayed(disk, wal)
Stage == CASE pc = "body" -> "busy"
           [] pc \in {"down", "recover", "recovered", "lost"} -> "down"
           [] OTHER -> "idle"
Moving == shape = "mixed"
Gone == pc = "lost"

\* A step that keeps the disk and the log keeps what a crash brings back.
LEMMA SameDiskAndLog == ASSUME UNCHANGED <<disk, wal>> PROVE Recovered' = Recovered
BY DEF Recovered

\* In a running process that is the tree in memory, mixed file or not.
MemRecovered == IInv /\ Up => Recovered = mem

LEMMA IInvRecovered == MemRecovered
<1> SUFFICES ASSUME IInv, Up PROVE Replayed(disk, wal) = mem
  BY DEF MemRecovered, Recovered
<1>1. \A k \in Keys : Replayed(disk, wal)[k] = mem[k]
  BY DEF IInv, LogTellsRest, Replayed, Said
<1> QED
  BY <1>1 DEF IInv, Types, Replayed

\* So a step of a running process that keeps the tree in memory keeps it.
LEMMA SameMemory ==
  ASSUME IInv, IInv', Up, Up', mem' = mem
  PROVE  Recovered' = Recovered
<1>1. MemRecovered /\ MemRecovered'
  BY IInvRecovered, PTL
<1> QED
  BY <1>1 DEF MemRecovered

\* Put and Delete are the abstract Put.
LEMMA WriteIsPut ==
  ASSUME IInv, IInv', NEW k \in Keys, NEW v \in Value, Write(k, v)
  PROVE  Recovered' = [Recovered EXCEPT ![k] = v]
<1>1. pc = "body" /\ pc' = "body" /\ mem' = [mem EXCEPT ![k] = v]
  BY DEF Write
<1>2. MemRecovered /\ MemRecovered'
  BY IInvRecovered, PTL
<1>3. Recovered = mem /\ Recovered' = mem'
  BY <1>1, <1>2 DEF MemRecovered, Up
<1> QED
  BY <1>1, <1>3

\* A crash leaves on disk what the log does not tell.
LEMMA CrashKeepsRecovered == ASSUME IInv, Crash PROVE Recovered' = Recovered
<1>1. wal' = wal
  BY DownKeepsLog DEF Crash
<1>2. \A k \in Keys : ~Has(wal, k) => disk'[k] = disk[k]
  BY DEF Crash, IInv, LogTellsRest
<1> QED
  BY <1>1, <1>2 DEF Recovered, Replayed

\* Every step but a write leaves the map alone.
LEMMA OthersKeepRecovered ==
  ASSUME TRUE \notin GroupCommit, ~IOMayFail, IInv, IInv', [Next]_vars,
         ~ \E k \in Keys, v \in Value : Write(k, v)
  PROVE  Recovered' = Recovered
<1>1. SUFFICES ASSUME Recovered' # Recovered PROVE FALSE
  OBVIOUS
<1>2. ~UNCHANGED <<disk, wal>>
  BY <1>1, SameDiskAndLog
<1>3. ~(Up /\ Up' /\ mem' = mem)
  BY <1>1, SameMemory
<1>5. ASSUME NEW k \in Keys, NEW v \in Value, WriteFails(k, v) PROVE FALSE
  BY <1>5 DEF WriteFails
<1>6. CASE LogCommit
  <2>1. wal' = wal
    BY <1>6, AppendNothing DEF LogCommit, Appended, IInv, Types
  <2> QED
    BY <1>6, <2>1, <1>2 DEF LogCommit, dataVars
<1>7. CASE Crash
  BY <1>7, <1>1, CrashKeepsRecovered
<1>8. CASE Kill
  BY <1>8, <1>2, DownKeepsLog DEF Kill
<1>9. CASE FlushSync \/ CheckpointRemove \/ RecoverTruncate
  BY <1>9, <1>3 DEF FlushSync, CheckpointRemove, RecoverTruncate, dataVars, Up
<1>10. CASE CloseFlushed \/ EndClose
  BY <1>10, <1>3 DEF CloseFlushed, EndClose, IInv, CloseIsUp, Up
<1>11. CASE BeginUpdate \/ Rollback \/ CommitMeta \/ CommitMetaFails \/ FlushFails
  BY <1>11, <1>2 DEF BeginUpdate, Rollback, CommitMeta, CommitMetaFails, FlushFails, dataVars
<1>12. CASE BeginCheckpoint \/ CheckpointMeta \/ CheckpointFails \/ BeginClose \/ Exit \/ Recover
  BY <1>12, <1>2 DEF BeginCheckpoint, CheckpointMeta, CheckpointFails, BeginClose, Exit, Recover, dataVars
<1>13. ASSUME NEW p \in Pages, Evict(p) \/ FlushPage(p) PROVE FALSE
  BY <1>13, <1>2 DEF Evict, FlushPage
<1>14. ASSUME NEW r \in Readers, BeginView(r) \/ EndView(r) PROVE FALSE
  BY <1>14, <1>2 DEF BeginView, EndView, dataVars
<1>15. ASSUME NEW r \in Readers, NEW p \in Pages, ViewRead(r, p) PROVE FALSE
  BY <1>15, <1>2 DEF ViewRead, dataVars
<1>16. CASE FlushOther \/ Lost \/ UNCHANGED vars
  BY <1>16, <1>2 DEF FlushOther, Lost, vars, dataVars
<1>17. CASE AppendFails \/ CloseFlushFails \/ RecoverFails \/ Ends
  BY <1>17 DEF AppendFails, CloseFlushFails, RecoverFails, Ends
<1> QED
  BY <1>5, <1>6, <1>7, <1>8, <1>9, <1>10, <1>11, <1>12, <1>13, <1>14, <1>15, <1>16, <1>17
     DEF Next

\* The other variables of KVStore as a step that leaves the map alone sets them.
Quiet == UNCHANGED <<Stage, Moving, Gone>>
BeginStep == Stage = "idle" /\ Stage' = "busy" /\ UNCHANGED <<Moving, Gone>>
EndStep == Stage = "busy" /\ Stage' = "idle" /\ UNCHANGED <<Moving, Gone>>
MoveStep == Moving' = ~Moving /\ UNCHANGED <<Stage, Gone>>
CrashStep == Stage' = "down" /\ Moving' = FALSE /\ (IF Moving THEN Gone' = TRUE ELSE UNCHANGED Gone)
RecoverStep == Stage = "down" /\ Stage' = "idle" /\ Moving' = FALSE /\ UNCHANGED Gone

\* Every step but a write is one of them.
LEMMA OthersAreSteps ==
  ASSUME ~IOMayFail, IInv, [Next]_vars, ~ \E k \in Keys, v \in Value : Write(k, v)
  PROVE  Quiet \/ BeginStep \/ EndStep \/ MoveStep \/ CrashStep \/ RecoverStep
<1> USE DEF Stage, Moving, Gone
<1>1. CASE BeginUpdate
  BY <1>1 DEF BeginUpdate, BeginStep
<1>2. CASE Rollback \/ LogCommit
  BY <1>2 DEF Rollback, LogCommit, Finish, EndStep
<1>3. ASSUME UNCHANGED pc, shape' \in {shape, "mixed"} PROVE Quiet \/ MoveStep
  BY <1>3 DEF Quiet, MoveStep
<1>4. ASSUME NEW p \in Pages, Evict(p) \/ FlushPage(p) PROVE Quiet \/ MoveStep
  BY <1>3, <1>4 DEF Evict, FlushPage, Mixes, viewVars
<1>5. CASE FlushOther
  BY <1>3, <1>5 DEF FlushOther, Mixes, viewVars
<1>6. CASE FlushSync \/ FlushFails \/ CommitMetaFails \/ CheckpointRemove \/ CheckpointFails \/ BeginCheckpoint
  BY <1>6 DEF FlushSync, FlushFails, CommitMetaFails, CheckpointRemove, CheckpointFails, BeginCheckpoint, Finish, Quiet
<1>7. CASE CommitMeta \/ CheckpointMeta
  BY <1>7 DEF CommitMeta, CheckpointMeta, Finish, Quiet, MoveStep
<1>8. CASE BeginClose \/ CloseFlushed \/ EndClose
  BY <1>8 DEF BeginClose, CloseFlushed, EndClose, Quiet
<1>9. ASSUME NEW r \in Readers, BeginView(r) \/ EndView(r) PROVE Quiet
  BY <1>9 DEF BeginView, EndView, Quiet
<1>10. ASSUME NEW r \in Readers, NEW p \in Pages, ViewRead(r, p) PROVE Quiet
  BY <1>10 DEF ViewRead, Quiet
<1>11. ASSUME GoesDown, pc # "lost" PROVE CrashStep
  <2>1. torn = FALSE
    BY DEF IInv, Types
  <2> QED
    BY <1>11, <2>1 DEF GoesDown, CrashStep
<1>12. CASE Exit \/ Crash \/ Kill
  BY <1>11, <1>12 DEF Exit, Crash, Kill, Down
<1>13. CASE Recover
  BY <1>13 DEF Recover, Quiet, MoveStep
<1>14. CASE RecoverTruncate
  BY <1>14 DEF RecoverTruncate, RecoverStep
<1>15. CASE Lost \/ UNCHANGED vars
  BY <1>15 DEF Lost, vars, Quiet
<1>16. CASE AppendFails \/ CloseFlushFails \/ RecoverFails \/ Ends
  BY <1>16 DEF AppendFails, CloseFlushFails, RecoverFails, Ends
<1>17. ASSUME NEW k \in Keys, NEW v \in Value, WriteFails(k, v) PROVE FALSE
  BY <1>17 DEF WriteFails
<1> QED
  BY <1>1, <1>2, <1>4, <1>5, <1>6, <1>7, <1>8, <1>9, <1>10, <1>12, <1>13, <1>14, <1>15, <1>16, <1>17
     DEF Next

\* Every step of kdb is a step of KVStore or a stutter.
LEMMA StepRefines ==
  ASSUME TRUE \notin GroupCommit, ~IOMayFail, IInv, IInv', [Next]_vars
  PROVE  [Store!Next]_(Store!vars)
<1> USE DEF Store!vars, Store!Next, Recovered, Stage, Moving, Gone
<1>1. ASSUME NEW k \in Keys, NEW v \in Value, Write(k, v) PROVE Store!Next
  <2>1. Recovered' = [Recovered EXCEPT ![k] = v]
    BY <1>1, WriteIsPut
  <2>2. Stage = "busy" /\ UNCHANGED <<Stage, Moving, Gone>>
    BY <1>1 DEF Write
  <2> QED
    BY <2>1, <2>2 DEF Store!Put
<1>2. ASSUME ~ \E k \in Keys, v \in Value : Write(k, v) PROVE [Store!Next]_(Store!vars)
  <2>1. Recovered' = Recovered
    BY <1>2, OthersKeepRecovered
  <2>2. Quiet \/ BeginStep \/ EndStep \/ MoveStep \/ CrashStep \/ RecoverStep
    BY <1>2, OthersAreSteps
  <2> QED
    BY <2>1, <2>2 DEF Quiet, BeginStep, EndStep, MoveStep, CrashStep, RecoverStep,
                      Store!Begin, Store!End, Store!Move, Store!Crash, Store!Recover
<1> QED
  BY <1>1, <1>2

\* A new database recovers to the empty map.
LEMMA InitRefines == Init => Store!Init
<1> SUFFICES ASSUME Init PROVE Store!Init
  OBVIOUS
<1>1. wal = << >> /\ disk = [k \in Keys |-> Absent] /\ pc = "idle" /\ shape = "whole"
  BY DEF Init
<1>2. Replayed(disk, wal) = [k \in Keys |-> Absent]
  BY <1>1, EmptyLog DEF Replayed
<1> QED
  BY <1>1, <1>2 DEF Store!Init

\* The state a crash brings back implements KVStore: a key changes only while a
\* transaction runs, by one of its writes.  The end of the transaction, flushes,
\* checkpoints, crashes and recoveries change no key, unless the crash comes
\* while pages of a reshaped tree are on their way to the file.
THEOREM KdbImplementsKVStore == ASSUME TRUE \notin GroupCommit, ~IOMayFail PROVE Spec => CrashStateIsKVStore
<1>1. Init => Store!Init
  BY InitRefines
<1>2. IInv /\ IInv' /\ [Next]_vars => [Store!Next]_(Store!vars)
  BY StepRefines
<1>3. Spec => []IInv
  BY KdbInvariant
<1> QED
  BY <1>1, <1>2, <1>3, PTL DEF Spec, CrashStateIsKVStore, Store!Spec

-----------------------------------------------------------------------------
(* Durability and views in every commit mode, beside I/O errors            *)

\* What a key may hold: the last acknowledged value or one written since.
Good(k) == {committed[k]} \cup pend[k]

\* The log as it will be once the batch of the transaction is appended.
Told == wal \o batch

GTypes == /\ disk \in [Keys -> Value] /\ file \in [Keys -> Value] /\ mem \in [Keys -> Value]
          /\ wal \in Seq(Record) /\ batch \in Seq(Record)
          /\ wrote \subseteq Keys /\ viewing \subseteq Readers
          /\ committed \in [Keys -> Value] /\ pend \in [Keys -> SUBSET Value]
          /\ may \in [Readers -> [Keys -> SUBSET Value]]
          /\ seen \in [Readers -> [Keys -> Value \cup {Unread}]]

\* Nothing older than the last acknowledged value is on disk, in the file, in
\* memory or, unless later records lie behind a torn one, the last word of the log.
DataGood == \A k \in Keys : /\ disk[k] \in Good(k) /\ file[k] \in Good(k)
                            /\ Up => mem[k] \in Good(k)
LogGood == ~torn => \A k \in Keys : Has(wal, k) => Said(wal, k) \in Good(k)
BatchPending == \A i \in 1..Len(batch) : batch[i].val \in pend[batch[i].key]

\* The log, with the batch that is still to be appended, tells the value in
\* memory of every key the running transaction wrote: this is what makes it safe
\* to forget the older values when the transaction is acknowledged.
Written == /\ ~torn => \A k \in wrote : Has(Told, k) /\ Said(Told, k) = mem[k]
           /\ wrote # {} => pc \in {"body", "flush", "swap"}
           /\ batch # << >> => pc = "body" /\ groupCommit

\* And so do the file and the disk before the transaction is acknowledged.
SwapIsFlushed == pc = "swap" => dirty = {} /\ unsynced = {}

\* Until the log is replayed and cut there are no views, no Close is running and
\* nothing has torn the log.
NotOpen == pc \in {"down", "recover", "recovered"} =>
             /\ closing \notin {"flushing", "flushed"} /\ viewing = {} /\ ~torn
             /\ pc # "down" => closing = "no"

\* The file that views read holds nothing older than what was acknowledged when
\* they started; neither does memory, which is written to the file at any time.
ViewsGood == /\ \A r \in viewing, k \in Keys :
                  /\ file[k] \in may[r][k] /\ mem[k] \in may[r][k]
                  /\ seen[r][k] \in may[r][k] \cup {Unread}
             /\ \A r \in Readers \ viewing, k \in Keys : seen[r][k] = Unread

Contents == GTypes /\ DataGood /\ LogGood /\ BatchPending
Alive == /\ pc # "lost"
         /\ Contents /\ Written /\ PagesAgree /\ SwapIsFlushed /\ NotOpen /\ ViewsGood

\* The end of the model is the end.
Ended == pc = "lost" /\ viewing = {} /\ closing \notin {"flushing", "flushed"}

GInv == Alive \/ Ended

\* Appending leaves the log alone if it is torn, and is a plain append if not.
LEMMA AppendedIs ==
  ASSUME NEW recs
  PROVE  (torn => Appended(recs) = wal) /\ (~torn => Appended(recs) = wal \o recs)
BY DEF Appended

\* Every log a crash may leave tells good values.
LEMMA LogImagesGood ==
  ASSUME Contents, NEW log \in LogImages
  PROVE  /\ log \in Seq(Record)
         /\ torn => log = wal
         /\ ~torn => \A k \in Keys : Has(log, k) => Said(log, k) \in Good(k)
<1>1. PICK n \in 0..Len(batch) : log = Appended(SubSeq(batch, 1, n))
  BY DEF LogImages
<1> DEFINE b == SubSeq(batch, 1, n)
<1>2. /\ batch \in Seq(Record) /\ wal \in Seq(Record) /\ b \in Seq(Record) /\ Len(b) = n
      /\ \A i \in 1..n : i \in 1..Len(batch) /\ b[i] = batch[i]
  BY DEF Contents, GTypes
<1>3. log = Appended(b)
  BY <1>1
<1> HIDE DEF b
<1>4. CASE torn
  BY <1>2, <1>3, <1>4, AppendedIs
<1>5. CASE ~torn
  <2>1. ASSUME NEW k \in Keys, Has(b, k) PROVE Said(b, k) \in pend[k]
    <3>1. PICK i \in 1..Len(b) : b[i].key = k /\ Said(b, k) = b[i].val
      BY <1>2, <2>1, SaidIsRecord
    <3> QED
      BY <1>2, <3>1 DEF Contents, BatchPending
  <2>2. log = wal \o b
    BY <1>3, <1>5, AppendedIs
  <2>3. log \in Seq(Record)
    BY <1>2, <2>2
  <2>4. ASSUME NEW k \in Keys, Has(log, k) PROVE Said(log, k) \in Good(k)
    <3>1. /\ Has(wal, k) \/ Has(b, k)
          /\ Has(b, k) => Said(log, k) = Said(b, k)
          /\ Has(wal, k) /\ ~Has(b, k) => Said(log, k) = Said(wal, k)
      BY <1>2, <2>2, <2>4, LaterLogSays
    <3> QED
      BY <1>5, <2>1, <3>1 DEF Contents, LogGood, Good
  <2> QED
    BY <1>5, <2>3, <2>4
<1> QED
  BY <1>4, <1>5

\* What the invariant is for.
LEMMA GInvSurvive == GInv => AckedUpdatesSurvive /\ ViewNotStale
<1>1. ASSUME Ended PROVE AckedUpdatesSurvive /\ ViewNotStale
  BY <1>1 DEF Ended, AckedUpdatesSurvive, Sound, ViewNotStale
<1>2. ASSUME Alive PROVE AckedUpdatesSurvive /\ ViewNotStale
  <2>1. ASSUME NEW img \in {disk, file}, NEW log \in LogImages, NEW k \in Keys,
               ~(torn /\ Has(wal, k))
        PROVE  Replayed(img, log)[k] \in {committed[k]} \cup pend[k]
    <3>1. Replayed(img, log)[k] = IF Has(log, k) THEN Said(log, k) ELSE img[k]
      BY DEF Replayed, Said
    <3>2. Has(log, k) => Said(log, k) \in Good(k)
      BY <1>2, <2>1, LogImagesGood DEF Alive
    <3> QED
      BY <1>2, <3>1, <3>2 DEF Alive, Contents, DataGood, Good
  <2>2. ViewNotStale
    BY <1>2 DEF Alive, ViewsGood, ViewNotStale
  <2> QED
    BY <2>1, <2>2 DEF AckedUpdatesSurvive
<1> QED
  BY <1>1, <1>2 DEF GInv

\* A new database satisfies the invariant.
LEMMA InitAlive == Init => Alive
<1> SUFFICES ASSUME Init PROVE Alive
  OBVIOUS
<1>1. disk \in [Keys -> Value] /\ file = disk /\ mem = disk /\ committed = disk
  BY DEF Init, Value
<1>2. Contents
  BY <1>1, EmptyLog DEF Init, Contents, GTypes, DataGood, LogGood, BatchPending, Good
<1> QED
  BY <1>1, <1>2 DEF Init, Alive, Written, PagesAgree, SwapIsFlushed, NotOpen, ViewsGood

\* Readers dropped leave nothing behind.
LEMMA DropTypes ==
  ASSUME GTypes, NEW rs \in SUBSET Readers, Drop(rs)
  PROVE  /\ viewing' = viewing \ rs
         /\ may' \in [Readers -> [Keys -> SUBSET Value]]
         /\ seen' \in [Readers -> [Keys -> Value \cup {Unread}]]
         /\ \A r \in Readers \ rs : may'[r] = may[r] /\ seen'[r] = seen[r]
         /\ \A r \in rs, k \in Keys : seen'[r][k] = Unread
BY DEF GTypes, Drop

\* Dropping every reader leaves no view.
LEMMA DropAll ==
  ASSUME GTypes, Drop(Readers)
  PROVE  /\ viewing' = {}
         /\ may' \in [Readers -> [Keys -> SUBSET Value]]
         /\ seen' \in [Readers -> [Keys -> Value \cup {Unread}]]
         /\ \A r \in Readers, k \in Keys : seen'[r][k] = Unread
BY DropTypes DEF GTypes

\* Writing a page of the pool to the file, by a flush or an eviction.
LEMMA WritePageAlive ==
  ASSUME Alive, Up, NEW p \in dirty,
         file' = WritePage(file, mem, p),
         dirty' = dirty \ {p}, unsynced' = unsynced \cup {p}, Mixes,
         UNCHANGED <<disk, mem, wal, pc, closing, txVars, envVars, ghostVars, torn>>
  PROVE  Alive'
<1> USE KdbAssumption DEF txVars, envVars, ghostVars
<1>1. file' \in [Keys -> Value] /\ \A k \in Keys : file'[k] = file[k] \/ file'[k] = mem[k]
  BY DEF Alive, Contents, GTypes, WritePage
<1>2. /\ viewing' \subseteq Readers
      /\ may' \in [Readers -> [Keys -> SUBSET Value]]
      /\ seen' \in [Readers -> [Keys -> Value \cup {Unread}]]
      /\ \/ UNCHANGED <<viewing, may, seen>>
         \/ viewing' = {} /\ \A r \in Readers, k \in Keys : seen'[r][k] = Unread
  <2>1. CASE shape = "whole"
    BY <2>1 DEF Mixes, viewVars, Alive, Contents, GTypes
  <2>2. CASE shape # "whole"
    BY <2>2, DropAll DEF Mixes, Alive, Contents
  <2> QED
    BY <2>1, <2>2
<1>3. Contents'
  BY <1>1, <1>2 DEF Up, Alive, Contents, GTypes, DataGood, LogGood, BatchPending, Good
<1>4. PagesAgree'
  BY DEF Alive, Contents, GTypes, PagesAgree, WritePage, Up
<1>5. SwapIsFlushed' /\ NotOpen' /\ Written'
  BY <1>2 DEF Alive, SwapIsFlushed, NotOpen, Written, Told
<1>6. ViewsGood'
  BY <1>1, <1>2 DEF Alive, Contents, GTypes, ViewsGood
<1> QED
  BY <1>3, <1>4, <1>5, <1>6 DEF Alive

\* A log with one more record whose value may surface.
LEMMA LoggedGood ==
  ASSUME Contents, NEW k \in Keys, NEW v \in Value,
         pend' = [pend EXCEPT ![k] = @ \cup {v}], UNCHANGED <<committed, torn>>,
         wal' = Appended(<<Rec(k, v)>>) \/ wal' = wal
  PROVE  /\ wal' \in Seq(Record) /\ LogGood'
         /\ \A q \in Keys : Good(q)' = IF q = k THEN Good(q) \cup {v} ELSE Good(q)
<1>1. wal \in Seq(Record) /\ pend \in [Keys -> SUBSET Value]
  BY DEF Contents, GTypes
<1>2. \A q \in Keys : Good(q)' = IF q = k THEN Good(q) \cup {v} ELSE Good(q)
  BY <1>1 DEF Good
<1>3. CASE wal' = wal
  BY <1>1, <1>2, <1>3 DEF Contents, LogGood
<1>4. CASE ~torn /\ wal' = Logged(wal, k, v)
  <2>1. /\ wal' \in Seq(Record) /\ Said(wal', k) = v
        /\ \A q \in Keys \ {k} : /\ Has(wal', q) <=> Has(wal, q)
                                 /\ Has(wal, q) => Said(wal', q) = Said(wal, q)
    BY <1>1, <1>4, OneMoreRecord
  <2> QED
    BY <1>2, <1>4, <2>1 DEF Contents, LogGood
<1>5. wal' = wal \/ (~torn /\ wal' = Logged(wal, k, v))
  BY DEF Appended, Logged
<1> QED
  BY <1>2, <1>3, <1>4, <1>5

\* What a write may make surface is good for the views that run.
LEMMA SurfacesTypes ==
  ASSUME GTypes, NEW k \in Keys, NEW v \in Value, Surfaces(k, v)
  PROVE  /\ pend' = [pend EXCEPT ![k] = @ \cup {v}]
         /\ pend' \in [Keys -> SUBSET Value]
         /\ may' \in [Readers -> [Keys -> SUBSET Value]]
         /\ \A r \in viewing, q \in Keys : may[r][q] \subseteq may'[r][q]
         /\ \A r \in viewing : v \in may'[r][k]
BY DEF GTypes, Surfaces

\* Put and Delete in both commit modes.
LEMMA WriteAlive ==
  ASSUME Alive, NEW k \in Keys, NEW v \in Value, Write(k, v)
  PROVE  Alive'
<1> USE KdbAssumption
<1>1. /\ pc = "body" /\ pc' = "body" /\ closing' = closing
      /\ mem' = [mem EXCEPT ![k] = v]
      /\ dirty' = IF v = Absent /\ mem[k] = Absent THEN dirty ELSE dirty \cup {PageOf[k]}
      /\ UNCHANGED <<disk, file, unsynced, viewing, seen, committed, groupCommit, torn>>
      /\ wrote' = wrote \cup {k}
      /\ Surfaces(k, v)
  BY DEF Write, envVars
<1>2. \/ groupCommit /\ batch' = Logged(batch, k, v) /\ wal' = wal
      \/ ~groupCommit /\ wal' = Appended(<<Rec(k, v)>>) /\ batch' = batch
  BY DEF Write, Logged
<1>3. GTypes
  BY DEF Alive, Contents
<1>s. /\ pend' = [pend EXCEPT ![k] = @ \cup {v}]
      /\ pend' \in [Keys -> SUBSET Value]
      /\ may' \in [Readers -> [Keys -> SUBSET Value]]
      /\ \A r \in viewing, q \in Keys : may[r][q] \subseteq may'[r][q]
      /\ \A r \in viewing : v \in may'[r][k]
  BY <1>1, <1>3, SurfacesTypes
<1>4. /\ wal' \in Seq(Record) /\ LogGood'
      /\ \A q \in Keys : Good(q)' = IF q = k THEN Good(q) \cup {v} ELSE Good(q)
  BY <1>1, <1>2, <1>s, LoggedGood DEF Alive
<1>5. batch' \in Seq(Record)
  <2>1. batch \in Seq(Record)
    BY <1>3 DEF GTypes
  <2>2. Logged(batch, k, v) \in Seq(Record)
    BY <2>1, OneMoreRecord
  <2> QED
    BY <1>2, <2>1, <2>2
<1>m. mem' \in [Keys -> Value] /\ mem'[k] = v /\ \A q \in Keys \ {k} : mem'[q] = mem[q]
  BY <1>1, <1>3 DEF GTypes
<1>6. GTypes'
  BY <1>1, <1>3, <1>4, <1>5, <1>s, <1>m DEF GTypes
<1>7. DataGood'
  BY <1>1, <1>m, <1>4 DEF Alive, Contents, DataGood, Up
<1>8. BatchPending'
  <2>1. \A q \in Keys : pend[q] \subseteq pend'[q] /\ v \in pend'[k]
    BY <1>s, <1>3 DEF GTypes
  <2>2. \A i \in 1..Len(batch) : batch[i] \in Record /\ batch[i].key \in Keys
    <3>1. \A i \in 1..Len(batch) : batch[i] \in Record
      BY <1>3 DEF GTypes
    <3> QED
      BY <3>1 DEF Record
  <2>3. \A i \in 1..Len(batch') : \/ i \in 1..Len(batch) /\ batch'[i] = batch[i]
                                  \/ batch'[i] = Rec(k, v)
    BY <1>2, <1>3 DEF GTypes, Logged
  <2>4. Rec(k, v).key = k /\ Rec(k, v).val = v
    BY DEF Rec
  <2> QED
    BY <2>1, <2>2, <2>3, <2>4 DEF Alive, Contents, BatchPending
<1>9. Written'
  <2>1. ASSUME ~torn PROVE Told \in Seq(Record) /\ Told' = Logged(Told, k, v)
    <3>1. CASE groupCommit
      <4>1. wal \in Seq(Record) /\ batch \in Seq(Record)
        BY <1>3 DEF GTypes
      <4>2. wal \o batch \in Seq(Record)
            /\ wal \o Logged(batch, k, v) = Logged(wal \o batch, k, v)
        BY <4>1, LoggedBehind, SMT
      <4> QED
        BY <1>2, <3>1, <4>2, Zenon DEF Told
    <3>2. CASE ~groupCommit
      <4>1. batch = << >> /\ batch' = << >>
        BY <1>1, <1>2, <3>2 DEF Alive, Written
      <4>2. wal' = Logged(wal, k, v)
        BY <1>2, <2>1, <3>2 DEF Appended, Logged
      <4>3. Told = wal /\ Told' = wal'
        BY <1>3, <1>4, <4>1 DEF GTypes, Told
      <4> QED
        BY <1>3, <4>2, <4>3 DEF GTypes
    <3> QED
      BY <3>1, <3>2
  <2>2. ASSUME ~torn
        PROVE  /\ Has(Told', k) /\ Said(Told', k) = v
               /\ \A q \in Keys \ {k} : /\ Has(Told', q) <=> Has(Told, q)
                                        /\ Has(Told, q) => Said(Told', q) = Said(Told, q)
    BY <2>1, <2>2, OneMoreRecord
  <2>3. batch' # << >> => groupCommit
    BY <1>1, <1>2 DEF Alive, Written
  <2>4. wrote' \subseteq Keys
    BY <1>1, <1>3 DEF GTypes
  <2>5. ~torn' => \A q \in wrote' : Has(Told', q) /\ Said(Told', q) = mem'[q]
    BY <1>1, <1>m, <2>2, <2>4 DEF Alive, Written
  <2> QED
    BY <1>1, <2>3, <2>5 DEF Written
<1>10. PagesAgree'
  BY <1>1, <1>3 DEF Alive, PagesAgree, GTypes, Up
<1>11. SwapIsFlushed' /\ NotOpen'
  BY <1>1 DEF SwapIsFlushed, NotOpen
<1>12. ViewsGood'
  BY <1>1, <1>3, <1>s, <1>m DEF Alive, ViewsGood, GTypes
<1> QED
  BY <1>1, <1>4, <1>6, <1>7, <1>8, <1>9, <1>10, <1>11, <1>12 DEF Alive, Contents

\* The process is gone, by itself, by a crash or by an Open that gave up.
LEMMA GoesDownGInv ==
  ASSUME Alive, GoesDown, closing' \notin {"flushing", "flushed"},
         disk' \in [Keys -> Value], file' \in [Keys -> Value],
         \A k \in Keys : disk'[k] \in {disk[k], file[k]} /\ file'[k] \in {disk[k], file[k]},
         \A k \in Keys : PageOf[k] \notin unsynced' => disk'[k] = file'[k],
         wal' \in Seq(Record),
         ~torn => \A k \in Keys : Has(wal', k) => Said(wal', k) \in Good(k),
         batch' = << >>, wrote' = {},
         UNCHANGED <<mem, ghostVars>>
  PROVE  GInv'
<1>1. /\ viewing' = {}
      /\ may' \in [Readers -> [Keys -> SUBSET Value]]
      /\ seen' \in [Readers -> [Keys -> Value \cup {Unread}]]
      /\ \A r \in Readers, k \in Keys : seen'[r][k] = Unread
  BY DropAll DEF GoesDown, Alive, Contents
<1>2. CASE pc' = "lost"
  BY <1>1, <1>2 DEF GInv, Ended
<1>3. CASE pc' # "lost"
  <2>1. pc' = "down" /\ ~torn /\ torn' = FALSE
    BY <1>3 DEF GoesDown
  <2>2. \A k \in Keys : Good(k)' = Good(k)
    BY DEF Good, ghostVars
  <2>3. GTypes'
    BY <1>1, EmptyLog DEF Alive, Contents, GTypes, ghostVars
  <2>4. DataGood'
    BY <2>1, <2>2 DEF Alive, Contents, DataGood, Up
  <2>5. LogGood' /\ BatchPending'
    BY <2>1, <2>2 DEF LogGood, BatchPending
  <2> QED
    BY <1>1, <2>1, <2>3, <2>4, <2>5
       DEF GInv, Alive, Contents, Written, PagesAgree, SwapIsFlushed, NotOpen, ViewsGood, Up
<1> QED
  BY <1>2, <1>3

\* Crash and Kill: the disk keeps old or new pages, the log a part of the batch.
LEMMA DownGInv ==
  ASSUME Alive, Down,
         disk' \in [Keys -> Value], file' \in [Keys -> Value],
         \A k \in Keys : disk'[k] \in {disk[k], file[k]} /\ file'[k] \in {disk[k], file[k]},
         \A k \in Keys : PageOf[k] \notin unsynced' => disk'[k] = file'[k]
  PROVE  GInv'
<1>1. /\ GoesDown /\ closing' = "no" /\ batch' = << >> /\ wrote' = {}
      /\ wal' \in LogImages
      /\ UNCHANGED <<mem, ghostVars>>
  BY DEF Down
<1>2. /\ wal' \in Seq(Record)
      /\ ~torn => \A k \in Keys : Has(wal', k) => Said(wal', k) \in Good(k)
  <2>1. \A log \in LogImages : /\ log \in Seq(Record)
                               /\ ~torn => \A k \in Keys : Has(log, k) => Said(log, k) \in Good(k)
    BY LogImagesGood DEF Alive
  <2> QED
    BY <1>1, <2>1
<1> QED
  BY <1>1, <1>2, GoesDownGInv

\* The end of the process after Close, and of an Open: log and data stay.
LEMMA LeaveGInv ==
  ASSUME Alive, GoesDown, pc \notin {"body", "flush", "swap"}, closing \notin {"flushing", "flushed"},
         UNCHANGED <<dataVars, wal, closing, txVars, ghostVars>>
  PROVE  GInv'
<1>1. /\ GTypes /\ wrote' = {} /\ batch' = << >>
      /\ UNCHANGED <<disk, file, unsynced, mem, wal, closing>>
  BY DEF Alive, Contents, Written, dataVars, txVars
<1>2. \A k \in Keys : PageOf[k] \notin unsynced' => disk'[k] = file'[k]
  BY <1>1 DEF Alive, PagesAgree
<1>3. disk' \in [Keys -> Value] /\ file' \in [Keys -> Value] /\ wal' \in Seq(Record)
  BY <1>1 DEF GTypes
<1>4. ~torn => \A k \in Keys : Has(wal', k) => Said(wal', k) \in Good(k)
  BY <1>1 DEF Alive, Contents, LogGood
<1> QED
  BY <1>1, <1>2, <1>3, <1>4, GoesDownGInv

\* Open replays the log into the pool.
LEMMA RecoverAlive == ASSUME Alive, Recover PROVE Alive'
<1> USE KdbAssumption
<1>1. /\ pc = "down" /\ pc' = "recover" /\ closing' = "no"
      /\ mem' = Replayed(file, wal)
      /\ dirty' = {PageOf[k] : k \in {j \in Keys : Has(wal, j)}}
      /\ UNCHANGED <<disk, file, unsynced, wal, batch, wrote, seen, viewing, start, may,
                     committed, pend, torn>>
  BY DEF Recover, txVars, viewVars, ghostVars
<1>2. wal \in Seq(Record) /\ file \in [Keys -> Value] /\ ~torn /\ viewing = {} /\ batch = << >> /\ wrote = {}
  BY <1>1 DEF Alive, Contents, GTypes, NotOpen, Written
<1>3. mem' \in [Keys -> Value]
  BY <1>1, <1>2, ReplayedType
<1>4. \A k \in Keys : mem'[k] = IF Has(wal, k) THEN Said(wal, k) ELSE file[k]
  BY <1>1 DEF Replayed, Said
<1>5. \A k \in Keys : PageOf[k] \notin dirty' => ~Has(wal, k)
  BY <1>1
<1>6. Contents'
  BY <1>1, <1>2, <1>3, <1>4 DEF Alive, Contents, GTypes, DataGood, LogGood, BatchPending, Good
<1>7. PagesAgree'
  BY <1>1, <1>4, <1>5 DEF Alive, PagesAgree
<1> QED
  BY <1>1, <1>2, <1>6, <1>7 DEF Alive, Written, SwapIsFlushed, NotOpen, ViewsGood

\* CommitMeta: what the transaction wrote is acknowledged, the older values of
\* its keys are forgotten.
LEMMA CommitAlive == ASSUME Alive, CommitMeta PROVE Alive'
<1> USE KdbAssumption
<1>1. /\ pc = "swap" /\ pc' = "idle" /\ batch' = << >> /\ wrote' = {}
      /\ committed' = [k \in Keys |-> IF k \in wrote THEN mem[k] ELSE committed[k]]
      /\ pend' = [k \in Keys |-> IF k \in wrote THEN {} ELSE pend[k]]
      /\ UNCHANGED <<disk, file, unsynced, mem, dirty, wal, closing, seen, viewing, start, may, torn>>
  BY DEF CommitMeta, Finish, dataVars, viewVars
<1>2. batch = << >> /\ dirty = {} /\ unsynced = {} /\ GTypes
  BY <1>1 DEF Alive, Written, SwapIsFlushed, Contents
<1>3. \A k \in Keys : Good(k)' = IF k \in wrote THEN {mem[k]} ELSE Good(k)
  BY <1>1 DEF Good
<1>4. ~torn => \A k \in wrote : Has(wal, k) /\ Said(wal, k) = mem[k]
  <2>1. Told = wal
    BY <1>2 DEF Told, GTypes
  <2> QED
    BY <1>1, <2>1 DEF Alive, Written
<1>5. \A k \in Keys : disk[k] = mem[k] /\ file[k] = mem[k]
  BY <1>1, <1>2 DEF Alive, PagesAgree, Up
<1>6. GTypes'
  BY <1>1, <1>2, EmptyLog DEF GTypes
<1>7. DataGood' /\ LogGood' /\ BatchPending'
  BY <1>1, <1>2, <1>3, <1>4, <1>5 DEF Alive, Contents, DataGood, LogGood, BatchPending, Up
<1>8. PagesAgree' /\ ViewsGood'
  BY <1>1 DEF Alive, PagesAgree, ViewsGood, Up
<1> QED
  BY <1>1, <1>6, <1>7, <1>8 DEF Alive, Contents, Written, SwapIsFlushed, NotOpen

\* LogCommit: the batch is in the log, or behind a torn record.
LEMMA LogCommitAlive == ASSUME Alive, LogCommit PROVE Alive'
<1>1. /\ pc = "body" /\ pc' = "flush"
      /\ wal' = Appended(batch) /\ batch' = << >>
      /\ UNCHANGED <<disk, file, unsynced, mem, dirty, closing, wrote, seen, viewing, start, may,
                     committed, pend, torn>>
  BY DEF LogCommit, dataVars, viewVars, ghostVars
<1>2. wal \in Seq(Record) /\ batch \in Seq(Record)
  BY DEF Alive, Contents, GTypes
<1>3. wal' \in LogImages
  <2>1. batch = SubSeq(batch, 1, Len(batch)) /\ Len(batch) \in 0..Len(batch)
    BY <1>2
  <2> QED
    BY <1>1, <2>1 DEF LogImages
<1>4. /\ wal' \in Seq(Record)
      /\ ~torn => \A k \in Keys : Has(wal', k) => Said(wal', k) \in Good(k)
  <2>1. \A log \in LogImages : /\ log \in Seq(Record)
                               /\ ~torn => \A k \in Keys : Has(log, k) => Said(log, k) \in Good(k)
    BY LogImagesGood DEF Alive
  <2> QED
    BY <1>3, <2>1
<1>5. ~torn => Told' = Told
  BY <1>1, <1>2, <1>4, AppendNothing DEF Told, Appended
<1>6. \A k \in Keys : Good(k)' = Good(k)
  BY <1>1 DEF Good
<1>7. GTypes'
  BY <1>1, <1>4, EmptyLog DEF Alive, Contents, GTypes
<1>8. DataGood' /\ LogGood' /\ BatchPending'
  BY <1>1, <1>4, <1>6 DEF Alive, Contents, DataGood, LogGood, BatchPending, Up
<1>9. Written'
  BY <1>1, <1>5 DEF Alive, Written
<1> QED
  BY <1>1, <1>7, <1>8, <1>9 DEF Alive, Contents, PagesAgree, SwapIsFlushed, NotOpen, ViewsGood, Up

\* A cut append leaves a part of the batch, and perhaps a torn record.
LEMMA AppendFailsAlive == ASSUME Alive, AppendFails PROVE Alive'
<1>1. /\ pc = "body" /\ pc' = "idle" /\ batch' = << >> /\ wrote' = {}
      /\ wal' \in LogImages /\ torn' \in {torn, TRUE}
      /\ UNCHANGED <<disk, file, unsynced, mem, dirty, closing, seen, viewing, may, committed, pend>>
  BY DEF AppendFails, Finish, dataVars, viewVars, ghostVars
<1>2. /\ wal' \in Seq(Record)
      /\ ~torn => \A k \in Keys : Has(wal', k) => Said(wal', k) \in Good(k)
  <2>1. \A log \in LogImages : /\ log \in Seq(Record)
                               /\ ~torn => \A k \in Keys : Has(log, k) => Said(log, k) \in Good(k)
    BY LogImagesGood DEF Alive
  <2> QED
    BY <1>1, <2>1
<1>3. \A k \in Keys : Good(k)' = Good(k)
  BY <1>1 DEF Good
<1>4. GTypes'
  BY <1>1, <1>2, EmptyLog DEF Alive, Contents, GTypes
<1>5. ~torn' => ~torn
  BY <1>1, Zenon
<1>6. DataGood' /\ LogGood' /\ BatchPending'
  BY <1>1, <1>2, <1>3, <1>5 DEF Alive, Contents, DataGood, LogGood, BatchPending, Up
<1> QED
  BY <1>1, <1>4, <1>6 DEF Alive, Contents, Written, PagesAgree, SwapIsFlushed, NotOpen, ViewsGood, Up

\* BeginView: the values in the file are those the view may meet.
LEMMA BeginViewAlive == ASSUME Alive, NEW r \in Readers, BeginView(r) PROVE Alive'
<1>1. /\ pc \notin {"down", "recover", "recovered", "lost"} /\ closing = "no"
      /\ r \notin viewing
      /\ \/ viewing' = viewing \cup {r} /\ may' = [may EXCEPT ![r] = [k \in Keys |-> Good(k)]]
         \/ viewing' = viewing /\ may' = may
      /\ UNCHANGED <<disk, file, unsynced, mem, dirty, wal, pc, closing, batch, wrote, seen,
                     groupCommit, committed, pend, torn>>
  BY DEF BeginView, dataVars, txVars, envVars, ghostVars, Good
<1>2. GTypes
  BY DEF Alive, Contents
<1>3. \A k \in Keys : Good(k)' = Good(k)
  BY <1>1 DEF Good
<1>4. [k \in Keys |-> Good(k)] \in [Keys -> SUBSET Value]
  BY <1>2 DEF GTypes, Good
<1>5. GTypes'
  BY <1>1, <1>2, <1>4 DEF GTypes
<1>6. DataGood' /\ LogGood' /\ BatchPending'
  BY <1>1, <1>3 DEF Alive, Contents, DataGood, LogGood, BatchPending, Up
<1>7. \A k \in Keys : file[k] \in Good(k) /\ mem[k] \in Good(k)
  BY <1>1 DEF Alive, Contents, DataGood, Up
<1>8. ViewsGood'
  BY <1>1, <1>2, <1>7 DEF Alive, ViewsGood, GTypes
<1> QED
  BY <1>1, <1>5, <1>6, <1>8
     DEF Alive, Contents, Written, PagesAgree, SwapIsFlushed, NotOpen, Told, Up

\* A view reads a page of the file.
LEMMA ViewReadAlive == ASSUME Alive, NEW r \in Readers, NEW p \in Pages, ViewRead(r, p) PROVE Alive'
<1>1. /\ r \in viewing
      /\ seen' = [seen EXCEPT ![r] = WritePage(seen[r], file, p)]
      /\ UNCHANGED <<disk, file, unsynced, mem, dirty, wal, pc, closing, batch, wrote, viewing, may,
                     groupCommit, committed, pend, torn>>
  BY DEF ViewRead, dataVars, txVars, envVars, ghostVars
<1>2. GTypes
  BY DEF Alive, Contents
<1>3. WritePage(seen[r], file, p) \in [Keys -> Value \cup {Unread}]
  BY <1>2 DEF GTypes, WritePage
<1>4. GTypes'
  BY <1>1, <1>2, <1>3 DEF GTypes
<1>5. DataGood' /\ LogGood' /\ BatchPending'
  BY <1>1 DEF Alive, Contents, DataGood, LogGood, BatchPending, Good, Up
<1>6. \A k \in Keys : WritePage(seen[r], file, p)[k] \in {seen[r][k], file[k]}
  BY DEF WritePage
<1>7. ViewsGood'
  BY <1>1, <1>2, <1>6 DEF Alive, ViewsGood, GTypes
<1> QED
  BY <1>1, <1>4, <1>5, <1>7
     DEF Alive, Contents, Written, PagesAgree, SwapIsFlushed, NotOpen, Told, Up

\* The views of some readers are dropped: at their end, or by a page of a reshaped
\* tree that reaches the file.
LEMMA DropAlive ==
  ASSUME Alive, NEW rs \in SUBSET Readers, Drop(rs),
         UNCHANGED <<dataVars, wal, pc, closing, txVars, envVars, ghostVars, torn>>
  PROVE  Alive'
<1> USE DEF dataVars, txVars, envVars, ghostVars
<1>1. GTypes
  BY DEF Alive, Contents
<1>2. /\ viewing' = viewing \ rs
      /\ may' \in [Readers -> [Keys -> SUBSET Value]]
      /\ seen' \in [Readers -> [Keys -> Value \cup {Unread}]]
      /\ \A r \in Readers \ rs : may'[r] = may[r] /\ seen'[r] = seen[r]
      /\ \A r \in rs, k \in Keys : seen'[r][k] = Unread
  BY <1>1, DropTypes
<1>3. Contents'
  BY <1>2 DEF Alive, Contents, GTypes, DataGood, LogGood, BatchPending, Good, Up
<1>4. ViewsGood'
  BY <1>1, <1>2 DEF Alive, ViewsGood, GTypes
<1> QED
  BY <1>2, <1>3, <1>4 DEF Alive, Written, Told, PagesAgree, SwapIsFlushed, NotOpen, Up

\* A write that the tree refused: only the log has the record.
LEMMA WriteFailsAlive == ASSUME Alive, NEW k \in Keys, NEW v \in Value, WriteFails(k, v) PROVE Alive'
<1>1. /\ pc = "body" /\ pc' = "idle" /\ batch' = << >> /\ wrote' = {}
      /\ wal' = Appended(<<Rec(k, v)>>)
      /\ Surfaces(k, v)
      /\ UNCHANGED <<disk, file, unsynced, mem, dirty, closing, seen, viewing, committed, torn>>
  BY DEF WriteFails, Finish, dataVars
<1>2. GTypes
  BY DEF Alive, Contents
<1>s. /\ pend' = [pend EXCEPT ![k] = @ \cup {v}]
      /\ pend' \in [Keys -> SUBSET Value]
      /\ may' \in [Readers -> [Keys -> SUBSET Value]]
      /\ \A r \in viewing, q \in Keys : may[r][q] \subseteq may'[r][q]
  BY <1>1, <1>2, SurfacesTypes
<1>3. /\ wal' \in Seq(Record) /\ LogGood'
      /\ \A q \in Keys : Good(q)' = IF q = k THEN Good(q) \cup {v} ELSE Good(q)
  BY <1>1, <1>s, LoggedGood DEF Alive
<1>4. GTypes'
  BY <1>1, <1>2, <1>3, <1>s, EmptyLog DEF GTypes
<1>5. DataGood'
  BY <1>1, <1>3 DEF Alive, Contents, DataGood, Up
<1>6. BatchPending'
  BY <1>1 DEF BatchPending
<1>7. ViewsGood'
  BY <1>1, <1>2, <1>s DEF Alive, ViewsGood, GTypes
<1> QED
  BY <1>1, <1>3, <1>4, <1>5, <1>6, <1>7
     DEF Alive, Contents, Written, PagesAgree, SwapIsFlushed, NotOpen, Up

\* Steps that move the lock holder or Close on and touch nothing else, except that
\* they may tear the log.
LEMMA QuietAlive ==
  ASSUME Alive, UNCHANGED <<dataVars, wal, viewVars, ghostVars>>,
         torn' \in {torn, TRUE}, pc' # "lost", NotOpen', Up <=> Up',
         \/ UNCHANGED <<pc, batch, wrote, groupCommit>>
         \/ batch' = << >> /\ wrote' = {} /\ pc' # "swap"
  PROVE  Alive'
<1> USE DEF dataVars, viewVars, ghostVars
<1>1. GTypes'
  BY EmptyLog DEF Alive, Contents, GTypes
<1>t. ~torn' => ~torn
  BY Zenon
<1>2. DataGood' /\ LogGood' /\ BatchPending'
  BY <1>t DEF Alive, Contents, DataGood, LogGood, BatchPending, Good
<1>3. Written' /\ PagesAgree' /\ SwapIsFlushed' /\ ViewsGood'
  BY <1>t DEF Alive, Written, PagesAgree, SwapIsFlushed, ViewsGood, Told
<1> QED
  BY <1>1, <1>2, <1>3 DEF Alive, Contents

\* An fsync of the data file with nothing dirty.
LEMMA SyncAlive ==
  ASSUME Alive, disk' = file, unsynced' = {},
         UNCHANGED <<file, mem, dirty, wal, txVars, viewVars, envVars, ghostVars, torn>>,
         NotOpen', Up, Up',
         \/ pc' = pc
         \/ pc = "flush" /\ pc' = "swap" /\ dirty = {}
         \/ pc \in {"ckflush", "recover"} /\ pc' \in {"cklog", "recovered"}
  PROVE  Alive'
<1> USE DEF txVars, viewVars, envVars, ghostVars
<1>1. Contents'
  BY DEF Alive, Contents, GTypes, DataGood, LogGood, BatchPending, Good
<1>2. Written' /\ PagesAgree' /\ SwapIsFlushed' /\ ViewsGood'
  BY DEF Alive, Written, PagesAgree, SwapIsFlushed, ViewsGood, Told
<1> QED
  BY <1>1, <1>2 DEF Alive, Up

\* The log is cut: by a checkpoint or at the end of a recovery.
LEMMA CutAlive ==
  ASSUME Alive, Up, pc \notin {"body", "flush", "swap"}, pc' = "idle", wal' = << >>,
         torn' \in {torn, FALSE},
         UNCHANGED <<dataVars, closing, txVars, viewVars, envVars, ghostVars>>
  PROVE  Alive'
<1> USE DEF dataVars, txVars, viewVars, envVars, ghostVars
<1>1. Contents'
  BY EmptyLog DEF Alive, Contents, GTypes, DataGood, LogGood, BatchPending, Good
<1>2. wrote' = {} /\ batch' = << >>
  BY DEF Alive, Written
<1> QED
  BY <1>1, <1>2 DEF Alive, Written, PagesAgree, SwapIsFlushed, NotOpen, ViewsGood, Up

\* Every step of a database that has not come to its end.
LEMMA AliveStep == ASSUME Alive, [Next]_vars PROVE GInv'
<1> SUFFICES ASSUME ~Ended' PROVE Alive'
  BY DEF GInv
<1>1. CASE LogCommit \/ AppendFails \/ CommitMeta \/ Recover
  BY <1>1, LogCommitAlive, AppendFailsAlive, CommitAlive, RecoverAlive
<1>2. ASSUME NEW k \in Keys, NEW v \in Value, Write(k, v) \/ WriteFails(k, v) PROVE Alive'
  BY <1>2, WriteAlive, WriteFailsAlive
<1>3. ASSUME NEW p \in Pages, Evict(p) PROVE Alive'
  BY <1>3, WritePageAlive DEF Evict, Up
<1>4. ASSUME Flushing PROVE Up
  BY <1>4 DEF Flushing, Alive, NotOpen, Up
<1>5. ASSUME NEW p \in Pages, FlushPage(p) PROVE Alive'
  BY <1>4, <1>5, WritePageAlive DEF FlushPage
<1>6. CASE FlushOther
  BY <1>6, DropAlive DEF FlushOther, Mixes
<1>7. CASE FlushSync
  <2>1. /\ NotOpen' /\ Up /\ Up'
        /\ \/ pc = "flush" /\ pc' = "swap"
           \/ pc \in {"ckflush", "recover"} /\ pc' \in {"cklog", "recovered"}
    BY <1>7 DEF FlushSync, viewVars, Alive, NotOpen, Up
  <2> QED
    BY <1>7, <2>1, SyncAlive DEF FlushSync
<1>8. CASE Rollback \/ FlushFails \/ CommitMetaFails
  <2>1. /\ UNCHANGED <<dataVars, wal, viewVars, ghostVars, torn>>
        /\ batch' = << >> /\ wrote' = {} /\ pc' = "idle"
        /\ pc \notin {"down", "recover", "recovered"}
    BY <1>8 DEF Rollback, FlushFails, CommitMetaFails, Finish
  <2>2. NotOpen' /\ (Up <=> Up') /\ pc' # "lost" /\ pc' # "swap"
    BY <2>1 DEF NotOpen, Up, Alive
  <2> QED
    BY <2>1, <2>2, QuietAlive
<1>9. CASE BeginUpdate \/ BeginCheckpoint \/ CheckpointMeta \/ CheckpointFails
  <2>1. /\ UNCHANGED <<dataVars, wal, viewVars, ghostVars, batch, wrote>>
        /\ pc \in {"idle", "cklog", "ckremove"} /\ torn' \in {torn, TRUE}
        /\ pc' \in {"body", "idle", "ckflush", "ckremove"}
    BY <1>9 DEF BeginUpdate, BeginCheckpoint, CheckpointMeta, CheckpointFails, txVars
  <2>2. batch' = << >> /\ wrote' = {}
    BY <2>1 DEF Alive, Written
  <2>3. NotOpen' /\ (Up <=> Up') /\ pc' # "lost" /\ pc' # "swap"
    BY <2>1 DEF NotOpen, Up
  <2> QED
    BY <2>1, <2>2, <2>3, QuietAlive
<1>10. CASE CheckpointRemove \/ RecoverTruncate
  BY <1>10, CutAlive DEF CheckpointRemove, RecoverTruncate, Up
<1>11. ASSUME NEW r \in Readers, BeginView(r) PROVE Alive'
  BY <1>11, BeginViewAlive
<1>12. ASSUME NEW r \in Readers, EndView(r) PROVE Alive'
  <2>1. {r} \in SUBSET Readers
    OBVIOUS
  <2> QED
    BY <1>12, <2>1, DropAlive DEF EndView
<1>13. ASSUME NEW r \in Readers, NEW p \in Pages, ViewRead(r, p) PROVE Alive'
  BY <1>13, ViewReadAlive
<1>14. CASE BeginClose \/ CloseFlushFails
  <2>1. /\ UNCHANGED <<dataVars, wal, viewVars, ghostVars, torn, pc, batch, wrote, groupCommit>>
        /\ BeginClose => pc \notin {"down", "recover", "recovered"}
        /\ CloseFlushFails => closing = "flushing"
    BY <1>14 DEF BeginClose, CloseFlushFails, txVars, envVars
  <2>2. NotOpen' /\ (Up <=> Up') /\ pc' # "lost"
    BY <1>14, <2>1 DEF Alive, NotOpen, Up
  <2> QED
    BY <2>1, <2>2, QuietAlive
<1>15. CASE CloseFlushed \/ EndClose
  <2>1. NotOpen' /\ Up /\ Up' /\ pc' = pc
    BY <1>15 DEF CloseFlushed, EndClose, Alive, NotOpen, Up
  <2> QED
    BY <1>15, <2>1, SyncAlive DEF CloseFlushed, EndClose
<1>16. CASE Exit \/ RecoverFails
  <2>1. /\ GoesDown /\ UNCHANGED <<dataVars, wal, closing, txVars, ghostVars>>
        /\ pc \notin {"body", "flush", "swap"} /\ closing \notin {"flushing", "flushed"}
    BY <1>16 DEF Exit, RecoverFails, Alive, NotOpen
  <2> QED
    BY <2>1, LeaveGInv DEF GInv
<1>17. CASE Crash
  <2>1. PICK old \in SUBSET unsynced :
          disk' = [k \in Keys |-> IF PageOf[k] \in old THEN disk[k] ELSE file[k]]
    BY <1>17 DEF Crash
  <2>2. Down /\ file' = disk' /\ disk' \in [Keys -> Value]
    BY <1>17, <2>1 DEF Crash, Alive, Contents, GTypes
  <2> QED
    BY <2>1, <2>2, DownGInv DEF GInv
<1>18. CASE Kill
  <2>1. Down /\ UNCHANGED <<disk, file, unsynced>>
    BY <1>18 DEF Kill
  <2> QED
    BY <2>1, DownGInv DEF GInv, Alive, Contents, GTypes, PagesAgree
<1>19. CASE Ends
  <2>1. pc' = "lost" /\ closing' = "no" /\ viewing' = {}
    BY <1>19, DropAll DEF Ends, Alive, Contents
  <2> QED
    BY <2>1 DEF Ended
<1>20. CASE Lost \/ UNCHANGED vars
  <2>1. /\ UNCHANGED <<dataVars, wal, viewVars, ghostVars, torn, pc, closing, batch, wrote, groupCommit, viewing>>
    BY <1>20 DEF Lost, vars, txVars, envVars, viewVars
  <2>2. NotOpen' /\ (Up <=> Up') /\ pc' # "lost"
    BY <2>1 DEF Alive, NotOpen, Up
  <2> QED
    BY <2>1, <2>2, QuietAlive
<1> QED
  BY <1>1, <1>2, <1>3, <1>5, <1>6, <1>7, <1>8, <1>9, <1>10, <1>11, <1>12, <1>13, <1>14,
     <1>15, <1>16, <1>17, <1>18, <1>19, <1>20 DEF Next

\* After the end nothing moves.
LEMMA EndedStep == ASSUME Ended, [Next]_vars PROVE Ended'
<1> USE DEF Ended
<1>1. ~Flushing
  BY DEF Flushing
<1>2. CASE Lost \/ UNCHANGED vars
  BY <1>2 DEF Lost, vars, viewVars
<1>3. ASSUME NEW r \in Readers, EndView(r) PROVE Ended'
  BY <1>3 DEF EndView, Drop
<1> QED
  BY <1>1, <1>2, <1>3
     DEF Next, BeginUpdate, Rollback, LogCommit, Write, WriteFails, AppendFails, Evict, FlushPage,
         FlushOther, FlushSync, FlushFails, CommitMeta, CommitMetaFails, BeginCheckpoint,
         CheckpointMeta, CheckpointRemove, CheckpointFails, BeginView, ViewRead, BeginClose,
         CloseFlushed, CloseFlushFails, EndClose, Exit, Crash, Kill, Recover, RecoverTruncate,
         RecoverFails, Ends

\* The invariant holds in every reachable state, in every commit mode.
THEOREM ContentsInvariant == Spec => []GInv
<1>1. Init => GInv
  BY InitAlive DEF GInv
<1>2. GInv /\ [Next]_vars => GInv'
  BY AliveStep, EndedStep DEF GInv
<1> QED
  BY <1>1, <1>2, PTL DEF Spec

\* Durability, with and without group commit and whatever append, flush, meta swap
\* or checkpoint returns an error: when a process goes down, Open brings back for
\* every key the value of the last acknowledged Update that wrote it, or one
\* written since.  Not after a failed fsync, not while the file mixes two trees,
\* and not for a key that has a record before a torn one.
THEOREM AcknowledgedIsDurable == Spec => []AckedUpdatesSurvive
BY ContentsInvariant, GInvSurvive, PTL

\* A View under which no page of a reshaped tree reaches the file never returns a
\* value older than the last Update acknowledged before it started.
THEOREM ViewsReadTheAcknowledged == Spec => []ViewNotStale
BY ContentsInvariant, GInvSurvive, PTL
=============================================================================
