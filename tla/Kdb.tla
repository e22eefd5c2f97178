-------------------------------- MODULE Kdb --------------------------------
(***************************************************************************)
(* Transactions, views, checkpoints, Close, crashes and recovery of kdb    *)
(* (internal/kdb/db.go, internal/kdb/tx/tx.go).                            *)
(*                                                                         *)
(* The B+tree is abstracted to a map from keys to values in which key k    *)
(* lives on page PageOf[k].  A write may also reshape the tree (split or   *)
(* merge its pages, take or give back an overflow chain): what the pages   *)
(* hold then is left to the modules of the tree, and shape says from when  *)
(* on the file mixes pages of the old and the new tree.  A view that meets *)
(* such a file, and a process that goes down over one, may find anything.  *)
(*                                                                         *)
(* db.pool is the map mem with its set of dirty pages, the data file is    *)
(* file as the OS shows it and disk as a crash leaves it.  The log is the  *)
(* sequence of the Insert and Delete records that replay reads, durable    *)
(* when Append returns (module Wal): replay skips commit and checkpoint    *)
(* records, so they are not kept here.  The meta swap is atomic (module    *)
(* Meta).                                                                  *)
(***************************************************************************)
EXTENDS Integers, Sequences

CONSTANTS
  Keys, Vals,
  Absent,        \* the value of a key that is not in the tree
  Unread,        \* what a view holds for a page it has not read
  Pages,
  PageOf,        \* the leaf page each key lives on
  Readers,       \* concurrent View calls
  GroupCommit,   \* values that Options.GroupCommit may have at an Open
  IOMayFail,     \* whether log and page I/O may return an error
  MaxTx,         \* bound: Update calls
  MaxLog,        \* bound: length of the log
  MaxCrash       \* bound: crashes, kills and closes

ASSUME KdbAssumption == /\ PageOf \in [Keys -> Pages]
                        /\ Absent \notin Vals
                        /\ Unread \notin Vals \cup {Absent}
                        /\ GroupCommit \subseteq BOOLEAN
                        /\ IOMayFail \in BOOLEAN
                        /\ MaxTx \in Nat /\ MaxLog \in Nat /\ MaxCrash \in Nat

VARIABLES
  disk,       \* key -> value that survives a crash
  file,       \* key -> value that ReadPage returns
  unsynced,   \* pages written since the last fsync of the data file
  mem,        \* key -> value in db.tree through db.pool
  dirty,      \* pages dirty in db.pool
  wal,        \* the Insert and Delete records that replay reads
  torn,       \* the active log segment holds a torn record
  shape,      \* since the last meta swap the tree is "whole", was reshaped in
              \* the pool only ("moved"), or some pages of that are in the file ("mixed")
  pc,         \* what the holder of db.rwmu is doing, or "down"; or "lost": the model
              \* ends with a failed fsync, a split or merge that gave up halfway, and
              \* a process that went down over a mixed tree or a torn log
  closing,    \* DB.Close: "no"; "flushing", "flushed" (it holds db.mu); "done"
  batch,      \* tx.pending of a group-commit transaction
  wrote,      \* keys the running transaction has written
  seen,       \* reader -> key -> value in the view's own pool
  viewing,    \* readers inside View whose root and the pages in the file make one tree
  stranded,   \* the other readers inside View: they descend from an old root through
              \* new pages, or from a root not yet written, and may find anything, an
              \* older value or no key at all.  What they find is not kept.
  txs, crashes,
  groupCommit,  \* db.groupCommit
  committed,  \* ghost: key -> value after the last acknowledged Updates
  pend,       \* ghost: key -> values written since by others than those
  start, may  \* ghost: per reader, committed at its start; values it may meet

dataVars == <<disk, file, unsynced, mem, dirty>>
txVars == <<batch, wrote, txs>>
viewVars == <<seen, viewing, stranded, start, may>>
ghostVars == <<committed, pend>>
envVars == <<crashes, groupCommit>>
vars == <<dataVars, wal, shape, pc, closing, txVars, viewVars, envVars, ghostVars, torn>>

Value == Vals \cup {Absent}
Rec(k, v) == [key |-> k, val |-> v]

KeysOn(p) == {k \in Keys : PageOf[k] = p}

\* Page p of g written over page p of f.
WritePage(f, g, p) == [k \in Keys |-> IF PageOf[k] = p THEN g[k] ELSE f[k]]

\* replayWAL over the tree img: every Insert and Delete is applied in order,
\* commit records or not, so the last record of a key decides.
Has(log, k) == \E i \in 1..Len(log) : log[i].key = k

LastIn(log, k) == CHOOSE i \in 1..Len(log) :
                    log[i].key = k /\ \A j \in i + 1..Len(log) : log[j].key # k

Replayed(img, log) ==
  [k \in Keys |-> IF Has(log, k) THEN log[LastIn(log, k)].val ELSE img[k]]

\* The log with the records of an Append behind it: replay stops at a torn one.
Appended(recs) == IF torn THEN wal ELSE wal \o recs

-----------------------------------------------------------------------------
Init == /\ disk = [k \in Keys |-> Absent]
        /\ file = disk /\ mem = disk
        /\ unsynced = {} /\ dirty = {}
        /\ wal = << >> /\ shape = "whole"
        /\ pc = "idle"
        /\ closing = "no"
        /\ batch = << >> /\ wrote = {} /\ txs = 0
        /\ seen = [r \in Readers |-> [k \in Keys |-> Unread]]
        /\ viewing = {} /\ stranded = {}
        /\ crashes = 0
        /\ groupCommit \in GroupCommit
        /\ committed = disk
        /\ torn = FALSE
        /\ pend = [k \in Keys |-> {}]
        /\ start = [r \in Readers |-> disk]
        /\ may = [r \in Readers |-> [k \in Keys |-> {}]]

-----------------------------------------------------------------------------
(* Update.  db.mu is free whenever Close is not flushing.                  *)

BeginUpdate == /\ pc = "idle" /\ closing = "no"
               /\ txs < MaxTx
               /\ txs' = txs + 1
               /\ pc' = "body"
               /\ UNCHANGED <<dataVars, wal, shape, closing, batch, wrote, viewVars, envVars, ghostVars, torn>>

\* The transaction is over.
Finish == batch' = << >> /\ wrote' = {} /\ pc' = "idle"

\* What every write leaves for the ghosts: the value may now surface anywhere.
Surfaces(k, v) == /\ pend' = [pend EXCEPT ![k] = @ \cup {v}]
                  /\ may' = [r \in Readers |-> IF r \in viewing THEN [may[r] EXCEPT ![k] = @ \cup {v}] ELSE may[r]]

\* WriteTx.Put, and WriteTx.Delete with v = Absent: the record is logged (in
\* group-commit mode, buffered), then the tree is changed in the pool and may be
\* reshaped.  Delete of a missing key is logged and leaves the tree alone.
Write(k, v) == /\ pc = "body"
               /\ Len(wal) + Len(batch) < MaxLog
               /\ IF groupCommit THEN batch' = batch \o <<Rec(k, v)>> /\ wal' = wal
                  ELSE closing # "done" /\ wal' = Appended(<<Rec(k, v)>>) /\ batch' = batch
               /\ mem' = [mem EXCEPT ![k] = v]
               /\ IF v = Absent /\ mem[k] = Absent THEN UNCHANGED <<dirty, shape>>
                  ELSE /\ dirty' = dirty \cup {PageOf[k]}
                       /\ shape' \in {shape, IF shape = "whole" THEN "moved" ELSE shape}
               /\ wrote' = wrote \cup {k}
               /\ Surfaces(k, v)
               /\ UNCHANGED <<disk, file, unsynced, pc, closing, txs, seen, viewing, stranded, start, envVars, committed, torn>>

\* The record is logged and the tree refuses: no page to be had, or one that
\* cannot be read.  fn passes the error on and the transaction is rolled back.
\* (A tree that gives up halfway through a split or a merge: Ends.)
WriteFails(k, v) == /\ IOMayFail /\ ~groupCommit
                    /\ pc = "body" /\ closing # "done"
                    /\ Len(wal) < MaxLog
                    /\ wal' = Appended(<<Rec(k, v)>>)
                    /\ Surfaces(k, v)
                    /\ Finish
                    /\ UNCHANGED <<dataVars, shape, closing, txs, seen, viewing, stranded, start, envVars, committed, torn>>

\* The logs that an Append or BatchAppend of the batch may leave when it is cut.
LogImages == {Appended(SubSeq(batch, 1, n)) : n \in 0..Len(batch)}

\* Append or BatchAppend cannot write a record: what the batch had before it is
\* in the log, and of the record itself nothing or a torn part.  The tree is not
\* changed, the transaction is rolled back, and the log stays open.
AppendFails == /\ IOMayFail
               /\ pc = "body" /\ closing # "done"
               /\ wal' \in LogImages
               /\ torn' \in {torn, TRUE}
               /\ Finish
               /\ UNCHANGED <<dataVars, shape, closing, txs, viewVars, envVars, ghostVars>>

\* Nothing is kept of these readers.
Drop(rs) == /\ viewing' = viewing \ rs
            /\ seen' = [r \in Readers |-> IF r \in rs THEN [k \in Keys |-> Unread] ELSE seen[r]]
            /\ start' = [r \in Readers |-> IF r \in rs THEN [k \in Keys |-> Absent] ELSE start[r]]
            /\ may' = [r \in Readers |-> IF r \in rs THEN [k \in Keys |-> {}] ELSE may[r]]

\* A page of the tree reaches the file.  If the tree was reshaped, the file now
\* mixes the old and the new one, under the feet of the views.
Mixes == IF shape = "whole" THEN UNCHANGED <<shape, viewVars>>
         ELSE /\ shape' = "mixed"
              /\ stranded' = stranded \cup viewing
              /\ Drop(Readers)

\* A page load inside the transaction evicts a dirty page: it is written to
\* the file, not synced.
Evict(p) == /\ pc = "body" /\ closing # "done"
            /\ p \in dirty
            /\ file' = WritePage(file, mem, p)
            /\ dirty' = dirty \ {p}
            /\ unsynced' = unsynced \cup {p}
            /\ Mixes
            /\ UNCHANGED <<disk, mem, wal, pc, closing, txVars, envVars, ghostVars, torn>>

\* fn, or Append on a closed log, returns an error: Rollback only marks the
\* transaction closed.
Rollback == /\ pc = "body"
            /\ Finish
            /\ UNCHANGED <<dataVars, wal, shape, closing, txs, viewVars, envVars, ghostVars, torn>>

\* Seeded fault: the commit does not flush the pool.
LogCommitUnflushed ==
  /\ pc = "body" /\ closing # "done"
  /\ wal' = Appended(batch)
  /\ batch' = << >>
  /\ pc' = "swap"
  /\ UNCHANGED <<dataVars, shape, closing, wrote, txs, viewVars, envVars, ghostVars, torn>>

\* Commit, first half: the commit record (with the batch) is appended.
LogCommit == /\ pc = "body" /\ closing # "done"
             /\ wal' = Appended(batch)
             /\ batch' = << >>
             /\ pc' = "flush"
             /\ UNCHANGED <<dataVars, shape, closing, wrote, txs, viewVars, envVars, ghostVars, torn>>

\* Pool.FlushDirty of Commit, Checkpoint, postReplayCommit and Close: one page
\* after the other in no particular order, then an fsync.
Flushing == \/ pc \in {"flush", "ckflush"} /\ closing # "done"
            \/ pc = "recover"
            \/ closing = "flushing"

FlushPage(p) == /\ Flushing
                /\ p \in dirty
                /\ file' = WritePage(file, mem, p)
                /\ dirty' = dirty \ {p}
                /\ unsynced' = unsynced \cup {p}
                /\ Mixes
                /\ UNCHANGED <<disk, mem, wal, pc, closing, txVars, envVars, ghostVars, torn>>

\* Of the pages of a reshaped tree, one that holds none of the keys is first.
FlushOther == /\ Flushing \/ (pc = "body" /\ closing # "done")
              /\ shape = "moved"
              /\ Mixes
              /\ UNCHANGED <<dataVars, wal, pc, closing, txVars, envVars, ghostVars, torn>>

\* Seeded fault: the pages are written, the fsync is forgotten.
FlushSyncForgotten ==
  /\ pc \in {"flush", "ckflush", "recover"} /\ closing # "done"
  /\ dirty = {}
  /\ pc' = CASE pc = "flush" -> "swap" [] pc = "ckflush" -> "cklog" [] OTHER -> "recovered"
  /\ UNCHANGED <<dataVars, wal, shape, closing, txVars, viewVars, envVars, ghostVars, torn>>

FlushSync == /\ pc \in {"flush", "ckflush", "recover"} /\ closing # "done"
             /\ dirty = {}
             /\ disk' = file
             /\ unsynced' = {}
             /\ pc' = CASE pc = "flush" -> "swap" [] pc = "ckflush" -> "cklog" [] OTHER -> "recovered"
             /\ UNCHANGED <<file, mem, dirty, wal, shape, closing, txVars, viewVars, envVars, ghostVars, torn>>

\* A page write fails, or Close has closed the file: Update and Checkpoint return
\* the error.
FlushFails == /\ pc \in {"flush", "ckflush"}
              /\ (IOMayFail /\ dirty # {}) \/ closing = "done"
              /\ Finish
              /\ UNCHANGED <<dataVars, wal, shape, closing, txs, viewVars, envVars, ghostVars, torn>>

\* commitMeta and the return of Update: the transaction is acknowledged.
CommitMeta == /\ pc = "swap" /\ closing = "no"
              /\ committed' = [k \in Keys |-> IF k \in wrote THEN mem[k] ELSE committed[k]]
              /\ pend' = [k \in Keys |-> IF k \in wrote THEN {} ELSE pend[k]]
              /\ shape' = "whole"
              /\ Finish
              /\ UNCHANGED <<dataVars, wal, closing, txs, viewVars, envVars, torn>>

\* swapMeta fails before its fsync, or Close came first and db.file is nil: Update
\* returns an error for a transaction that is in the log and in the data file.
CommitMetaFails == /\ pc = "swap"
                   /\ IOMayFail \/ closing = "done"
                   /\ Finish
                   /\ UNCHANGED <<dataVars, wal, shape, closing, txs, viewVars, envVars, ghostVars, torn>>

-----------------------------------------------------------------------------
(* Checkpoint                                                              *)

\* Seeded fault: the log is cut before the pages are flushed.
BeginCheckpointUnflushed ==
  /\ pc = "idle" /\ closing = "no"
  /\ pc' = "ckremove"
  /\ UNCHANGED <<dataVars, wal, shape, closing, txVars, viewVars, envVars, ghostVars, torn>>

BeginCheckpoint == /\ pc = "idle" /\ closing = "no"
                   /\ pc' = "ckflush"
                   /\ UNCHANGED <<dataVars, wal, shape, closing, txVars, viewVars, envVars, ghostVars, torn>>

\* The checkpoint record and commitMeta.
CheckpointMeta == /\ pc = "cklog" /\ closing = "no"
                  /\ shape' = "whole"
                  /\ pc' = "ckremove"
                  /\ UNCHANGED <<dataVars, wal, closing, txVars, viewVars, envVars, ghostVars, torn>>

\* Rotate and RemoveOlderSegments: all records go, and a torn one with them.
CheckpointRemove == /\ pc = "ckremove" /\ closing # "done"
                    /\ wal' = << >>
                    /\ torn' = FALSE
                    /\ pc' = "idle"
                    /\ UNCHANGED <<dataVars, shape, closing, txVars, viewVars, envVars, ghostVars>>

\* The append of the checkpoint record may tear it.  Where Rotate leaves a torn
\* segment behind that is not removed: Ends.
CheckpointFails == /\ pc \in {"cklog", "ckremove"}
                   /\ IOMayFail \/ closing = "done"
                   /\ torn' \in IF pc = "cklog" /\ closing # "done" THEN {torn, TRUE} ELSE {torn}
                   /\ pc' = "idle"
                   /\ UNCHANGED <<dataVars, wal, shape, closing, txVars, viewVars, envVars, ghostVars>>

-----------------------------------------------------------------------------
(* View: no lock is held while fn runs; the view's pool reads the file and *)
(* keeps the pages it has read.  Its root is that of the tree in memory.   *)

BeginView(r) == /\ pc \notin {"down", "recover", "recovered", "lost"} /\ closing = "no"
                /\ r \notin viewing \cup stranded
                /\ \/ /\ shape = "whole"
                      /\ viewing' = viewing \cup {r}
                      /\ start' = [start EXCEPT ![r] = committed]
                      /\ may' = [may EXCEPT ![r] = [k \in Keys |-> {committed[k]} \cup pend[k]]]
                      /\ UNCHANGED stranded
                   \/ /\ shape # "whole"
                      /\ stranded' = stranded \cup {r}
                      /\ UNCHANGED <<viewing, start, may>>
                /\ UNCHANGED <<dataVars, wal, shape, pc, closing, txVars, seen, envVars, ghostVars, torn>>

ViewRead(r, p) == /\ r \in viewing /\ closing # "done"
                  /\ \E k \in KeysOn(p) : seen[r][k] = Unread
                  /\ seen' = [seen EXCEPT ![r] = WritePage(@, file, p)]
                  /\ UNCHANGED <<dataVars, wal, shape, pc, closing, txVars, viewing, stranded, start, may, envVars, ghostVars, torn>>

EndView(r) == /\ r \in viewing \cup stranded
              /\ stranded' = stranded \ {r}
              /\ Drop({r})
              /\ UNCHANGED <<dataVars, wal, shape, pc, closing, txVars, envVars, ghostVars, torn>>

-----------------------------------------------------------------------------
(* Close takes db.mu and not db.rwmu: an Update may be running.  It writes *)
(* no meta page.                                                           *)

BeginClose == /\ pc \notin {"down", "recover", "recovered", "lost"} /\ closing = "no"
              /\ crashes < MaxCrash
              /\ crashes' = crashes + 1
              /\ closing' = "flushing"
              /\ UNCHANGED <<dataVars, wal, shape, pc, txVars, viewVars, groupCommit, ghostVars, torn>>

CloseFlushed == /\ closing = "flushing"
                /\ dirty = {}
                /\ disk' = file
                /\ unsynced' = {}
                /\ closing' = "flushed"
                /\ UNCHANGED <<file, mem, dirty, wal, shape, pc, txVars, viewVars, envVars, ghostVars, torn>>

\* A page write fails: Close keeps the error and goes on.
CloseFlushFails == /\ IOMayFail /\ closing = "flushing"
                   /\ dirty # {}
                   /\ closing' = "flushed"
                   /\ UNCHANGED <<dataVars, wal, shape, pc, txVars, viewVars, envVars, ghostVars, torn>>

\* The log is closed, then the data file is synced and closed.
EndClose == /\ closing = "flushed"
            /\ disk' = file
            /\ unsynced' = {}
            /\ closing' = "done"
            /\ UNCHANGED <<file, mem, dirty, wal, shape, pc, txVars, viewVars, envVars, ghostVars, torn>>

\* The end of the process.  Under the old root a mixed tree may hold anything,
\* and the next Open cuts a torn log at the torn record.
GoesDown == /\ pc' = IF torn \/ shape = "mixed" THEN "lost" ELSE "down"
            /\ shape' = "whole" /\ torn' = FALSE
            /\ stranded' = {} /\ Drop(Readers)

\* The process that closed the database is gone.
Exit == /\ closing = "done" /\ pc = "idle"
        /\ GoesDown
        /\ UNCHANGED <<dataVars, wal, closing, txVars, envVars, ghostVars>>

\* Power loss, and the death of the process alone (kill, or the panic of
\* db.dynPool.Sample in an Update that Close overtakes): unsynced pages are old
\* or new, the log may hold a part of the batch being appended.
Down == /\ GoesDown
        /\ closing' = "no"
        /\ batch' = << >> /\ wrote' = {} /\ UNCHANGED txs
        /\ dirty' = {}
        /\ wal' \in LogImages
        /\ UNCHANGED <<mem, groupCommit, ghostVars>>

Crash == /\ pc \notin {"down", "lost"} /\ crashes < MaxCrash
         /\ crashes' = crashes + 1
         /\ \E old \in SUBSET unsynced :
              disk' = [k \in Keys |-> IF PageOf[k] \in old THEN disk[k] ELSE file[k]]
         /\ file' = disk'
         /\ unsynced' = {}
         /\ Down

Kill == /\ pc \notin {"down", "lost"}
        /\ \/ closing = "done" /\ pc = "swap" /\ crashes' = crashes
           \/ crashes < MaxCrash /\ crashes' = crashes + 1
        /\ UNCHANGED <<disk, file, unsynced>>
        /\ Down

\* Open: the tree of the data file, with the log replayed into it, which may
\* reshape it again.
Recover == /\ pc = "down"
           /\ mem' = Replayed(file, wal)
           /\ dirty' = {PageOf[k] : k \in {j \in Keys : Has(wal, j)}}
           /\ shape' \in IF wal = << >> THEN {"whole"} ELSE {"whole", "moved"}
           /\ closing' = "no"
           /\ pc' = "recover"
           /\ groupCommit' \in GroupCommit
           /\ UNCHANGED <<disk, file, unsynced, wal, txVars, viewVars, crashes, ghostVars, torn>>

\* postReplayCommit, after its flush: swapMeta, then the log is truncated.
RecoverTruncate == /\ pc = "recovered"
                   /\ wal' = << >>
                   /\ shape' = "whole"
                   /\ pc' = "idle"
                   /\ UNCHANGED <<dataVars, closing, txVars, viewVars, envVars, ghostVars, torn>>

\* A page write, swapMeta or Truncate fails: Open gives up.
RecoverFails == /\ IOMayFail
                /\ pc = "recovered" \/ (pc = "recover" /\ dirty # {})
                /\ GoesDown
                /\ UNCHANGED <<dataVars, wal, closing, txVars, envVars, ghostVars>>

\* The fsync fails of an append, a flush, a meta swap, a rotation, or of Close, or
\* the tree gives up halfway through a reshape.  Which of the records or pages
\* survive, no later fsync tells, and the process goes on: the model does not.
Ends == /\ IOMayFail
        /\ \/ pc = "body" /\ closing # "done"
           \/ pc \in {"flush", "ckflush", "recover"} /\ dirty = {} /\ closing # "done"
           \/ pc \in {"swap", "cklog", "ckremove", "recovered"} /\ closing # "done"
           \/ closing \in {"flushing", "flushed"}
        /\ pc' = "lost" /\ closing' = "no"
        /\ stranded' = {} /\ Drop(Readers)
        /\ UNCHANGED <<dataVars, wal, shape, txVars, envVars, ghostVars, torn>>

Lost == pc = "lost" /\ UNCHANGED vars

-----------------------------------------------------------------------------
Next == \/ BeginUpdate \/ Rollback \/ LogCommit \/ AppendFails
        \/ \E k \in Keys, v \in Value : Write(k, v) \/ WriteFails(k, v)
        \/ \E p \in Pages : Evict(p) \/ FlushPage(p)
        \/ FlushOther \/ FlushSync \/ FlushFails \/ CommitMeta \/ CommitMetaFails
        \/ BeginCheckpoint \/ CheckpointMeta \/ CheckpointRemove \/ CheckpointFails
        \/ \E r \in Readers : BeginView(r) \/ EndView(r) \/ \E p \in Pages : ViewRead(r, p)
        \/ BeginClose \/ CloseFlushed \/ CloseFlushFails \/ EndClose \/ Exit
        \/ Crash \/ Kill \/ Recover \/ RecoverTruncate
        \/ RecoverFails \/ Ends \/ Lost

Spec == Init /\ [][Next]_vars

-----------------------------------------------------------------------------
\* Every variable holds a value of its kind.
TypeOK == /\ disk \in [Keys -> Value] /\ file \in [Keys -> Value] /\ mem \in [Keys -> Value]
          /\ unsynced \subseteq Pages /\ dirty \subseteq Pages
          /\ wal \in Seq([key : Keys, val : Value]) /\ batch \in Seq([key : Keys, val : Value])
          /\ pc \in {"idle", "body", "flush", "swap", "ckflush", "cklog", "ckremove",
                     "down", "recover", "recovered", "lost"}
          /\ closing \in {"no", "flushing", "flushed", "done"}
          /\ shape \in {"whole", "moved", "mixed"}
          /\ wrote \subseteq Keys
          /\ seen \in [Readers -> [Keys -> Value \cup {Unread}]]
          /\ viewing \subseteq Readers /\ stranded \subseteq Readers \ viewing
          /\ txs \in 0..MaxTx /\ crashes \in 0..MaxCrash /\ groupCommit \in GroupCommit
          /\ committed \in [Keys -> Value] /\ pend \in [Keys -> SUBSET Value]
          /\ torn \in BOOLEAN

\* What a process finds that goes down now is a tree of one moment.
Sound == pc # "lost" /\ shape # "mixed"

\* Durability: whenever the process or the machine goes down, also halfway
\* through a flush, a checkpoint, a Close or another recovery, Open brings back
\* for every key the value of the last acknowledged Update that wrote it, or a
\* value written after that by an Update that was not acknowledged.  Appends,
\* flushes, meta swaps and checkpoints may fail.  Three things undo it: a failed
\* fsync, a reshaped tree of which some pages are in the file before the meta
\* page is, and a torn record, behind which acknowledged records are not
\* replayed: then a key that has an older record before the torn one goes back
\* to that, and the others, which every commit has flushed, are safe.
AckedUpdatesSurvive ==
  Sound => \A img \in {disk, file}, log \in LogImages, k \in Keys :
             (torn /\ Has(wal, k)) \/ Replayed(img, log)[k] \in {committed[k]} \cup pend[k]

\* Without group commit and I/O errors, a crash at any moment brings back
\* exactly the tree the running process works on, unless it comes while the file
\* mixes two trees: memory, data file and log never drift apart, whatever was
\* rolled back before.
CrashRecoversMemory ==
  pc # "down" /\ Sound => \A img \in {disk, file} : Replayed(img, wal) = mem

\* Without group commit and I/O errors, the state that a crash brings back
\* implements KVStore.
Store == INSTANCE KVStore WITH
  kv <- Replayed(disk, wal),
  tx <- CASE pc = "body" -> "busy" [] pc \in {"down", "recover", "recovered", "lost"} -> "down" [] OTHER -> "idle",
  moving <- shape = "mixed",
  lost <- pc = "lost"
CrashStateIsKVStore == Store!Spec

\* A View never returns a value older than the last Update acknowledged before
\* it started: what is acknowledged is in the file that views read.  This is said
\* of views whose tree no Update reshapes under them: one that is stranded meets
\* a leaf from which keys have moved, and misses what was acknowledged long ago.
ViewNotStale ==
  \A r \in viewing, k \in Keys : seen[r][k] = Unread \/ seen[r][k] \in may[r][k]

\* db.go, View: "Each View sees a consistent snapshot of the database as of the
\* moment it was created."  Not even where no page moves under the view.
ViewIsSnapshot ==
  \A r \in viewing, k \in Keys : seen[r][k] \in {Unread, start[r][k]}

\* docs/api-reference.md, Update: "On error, changes are rolled back."
RollbackDiscards == pc = "idle" /\ closing = "no" /\ crashes = 0 => mem = committed
=============================================================================
