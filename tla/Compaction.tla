----------------------------- MODULE Compaction -----------------------------
(***************************************************************************)
(* DB.Compact (internal/kdb/compact.go) between updates, checkpoints,      *)
(* restarts and crashes of the database it compacts.                       *)
(*                                                                         *)
(* The pairs are copied into compact.tmp, a database that is opened beside *)
(* the live one and over the same directory: it finds the live log,        *)
(* replays it into its own tree, removes it, and logs its own writes       *)
(* there.  The live database keeps its handle, whose segment then has no   *)
(* name any more.                                                          *)
(*                                                                         *)
(* A database is its tree and what its file holds.  Kdb shows what a crash *)
(* within one Update, Checkpoint or Open leaves; here each is one step.    *)
(* The rename of the data file is durable at once.                         *)
(***************************************************************************)
EXTENDS Integers, SequencesExt

CONSTANTS
  PairKeys, Vals,
  Absent,        \* the value of a key that is not in the tree
  KeyOrder,      \* the keys in the order of a cursor
  CopyBatch,     \* pairs that one transaction of the copy writes
  MaxWrites, MaxCompacts, MaxCrashes, MaxSegment   \* bounds

ASSUME CompactionAssumption ==
  /\ Absent \notin Vals
  /\ KeyOrder \in Seq(PairKeys) /\ ToSet(KeyOrder) = PairKeys
  /\ CopyBatch \in Nat \ {0}
  /\ MaxWrites \in Nat /\ MaxCompacts \in Nat /\ MaxCrashes \in Nat /\ MaxSegment \in Nat

VARIABLES
  data,       \* data.kdb: key -> value
  mem,        \* db.tree
  tmp,        \* compact.tmp: [tree, file]
  segs,       \* the log segments in the directory: id -> records
  live,       \* db.wal: [id, named], the active segment and whether it still has its name
  stage,      \* "idle"; where Compact stands; "broken", its files are closed; "down"
  pairs,      \* the pairs that are still to be copied
  writes, compacts, crashes,
  acked,      \* ghost: key -> value after the last acknowledged Update
  pend,       \* ghost: key -> values that rolled-back transactions wrote since
  overtaken   \* ghost: an Update came while the log of a failed copy was there

fileVars == <<data, tmp, segs>>
boundVars == <<writes, compacts, crashes>>
compactVars == <<fileVars, mem, live, stage, pairs, boundVars, acked, pend, overtaken>>

Nothing == [k \in PairKeys |-> Absent]
Rec(k, v) == [key |-> k, val |-> v]

\* Replay applies the segments in order and the records of each in order, so
\* the last record of a key in the newest segment that has one decides.
RecordsOf(log, k) == {i \in 1..Len(log) : log[i].key = k}
LastOf(log, k) == log[Max(RecordsOf(log, k))].val
SegmentsOf(s, k) == {i \in DOMAIN s : RecordsOf(s[i], k) # {}}
Replayed(img, s) == [k \in PairKeys |-> IF SegmentsOf(s, k) = {} THEN img[k]
                                         ELSE LastOf(s[Max(SegmentsOf(s, k))], k)]

Segment(id, records) == [i \in {id} |-> records]
Logged(s, id, r) == [s EXCEPT ![id] = Append(@, r)]

-----------------------------------------------------------------------------
(* The live database.  db.rwmu keeps Update and Checkpoint out of Compact. *)

CompactInit ==
  /\ data = Nothing /\ mem = Nothing /\ tmp = [tree |-> Nothing, file |-> Nothing]
  /\ segs = Segment(1, <<>>) /\ live = [id |-> 1, named |-> TRUE]
  /\ stage = "idle" /\ pairs = <<>>
  /\ writes = 0 /\ compacts = 0 /\ crashes = 0
  /\ acked = Nothing /\ pend = [k \in PairKeys |-> {}] /\ overtaken = FALSE

\* Put, or Delete with v = Absent, and its record.
LogWrite(k, v) ==
  /\ stage = "idle" /\ writes < MaxWrites
  /\ writes' = writes + 1
  /\ mem' = [mem EXCEPT ![k] = v]
  /\ UNCHANGED <<tmp, live, stage, pairs, compacts, crashes>>

Update(k, v) ==
  /\ LogWrite(k, v)
  /\ segs' = IF live.named THEN Logged(segs, live.id, Rec(k, v)) ELSE segs
  /\ data' = mem'
  /\ acked' = [acked EXCEPT ![k] = v]
  /\ pend' = [j \in PairKeys |-> IF j = k THEN {} ELSE pend[j]]
  /\ overtaken' = (overtaken \/ ~live.named \/ DOMAIN segs # {live.id})

\* Rolled back: the tree keeps the change; a group commit had not logged it.
UpdateFails(k, v, logged) ==
  /\ LogWrite(k, v)
  /\ segs' = IF logged /\ live.named THEN Logged(segs, live.id, Rec(k, v)) ELSE segs
  /\ pend' = [pend EXCEPT ![k] = @ \cup {v}]
  /\ UNCHANGED <<data, acked, overtaken>>

\* Rotate creates its segment exclusively, and RemoveOlderSegments goes by name.
Checkpoint ==
  /\ stage = "idle" /\ live.id < MaxSegment
  /\ data' = mem
  /\ IF live.id + 1 \in DOMAIN segs
     THEN stage' = "broken" /\ UNCHANGED <<segs, live>>
     ELSE /\ segs' = [i \in (DOMAIN segs \ {live.id}) \cup {live.id + 1} |->
                        IF i \in DOMAIN segs THEN segs[i] ELSE <<>>]
          /\ live' = [id |-> live.id + 1, named |-> TRUE]
          /\ stage' = stage
  /\ UNCHANGED <<mem, tmp, pairs, boundVars, acked, pend, overtaken>>

\* Close flushes the pool, unless the data file is closed already.
Close ==
  /\ stage \in {"idle", "broken"}
  /\ data' = IF stage = "idle" THEN mem ELSE data
  /\ stage' = "down"
  /\ UNCHANGED <<mem, tmp, segs, live, pairs, boundVars, acked, pend, overtaken>>

Crash ==
  /\ stage # "down" /\ crashes < MaxCrashes
  /\ crashes' = crashes + 1
  /\ stage' = "down"
  /\ UNCHANGED <<fileVars, mem, live, pairs, writes, compacts, acked, pend, overtaken>>

\* wireSubsystems: replay, flush and truncate the log.
Wire(img) ==
  /\ mem' = Replayed(img, segs) /\ data' = mem'
  /\ segs' = Segment(1, <<>>) /\ live' = [id |-> 1, named |-> TRUE]
  /\ stage' = "idle"

Open ==
  /\ stage = "down"
  /\ Wire(data)
  /\ UNCHANGED <<tmp, pairs, boundVars, acked, pend, overtaken>>

-----------------------------------------------------------------------------
(* Compact. *)

\* openCompactTarget: a new file, opened over the directory of the live one.
BeginCompact ==
  /\ stage = "idle" /\ compacts < MaxCompacts
  /\ compacts' = compacts + 1
  /\ tmp' = [tree |-> Nothing, file |-> Nothing]
  /\ stage' = "wiring"
  /\ UNCHANGED <<data, segs, mem, live, pairs, writes, crashes, acked, pend, overtaken>>

\* replayWAL and the first half of postReplayCommit on it.
ReplayIntoTarget ==
  /\ stage = "wiring"
  /\ LET t == Replayed(Nothing, segs) IN tmp' = [tree |-> t, file |-> t]
  /\ stage' = "replayed"
  /\ UNCHANGED <<data, segs, mem, live, pairs, boundVars, acked, pend, overtaken>>

\* The other half: Truncate removes the live log, and the copy of what is in
\* the live tree begins.
LivePairs(from) ==
  LET upTo[n \in 0..Len(KeyOrder)] ==
        IF n < from THEN << >>
        ELSE IF mem[KeyOrder[n]] = Absent THEN upTo[n - 1]
             ELSE Append(upTo[n - 1], Rec(KeyOrder[n], mem[KeyOrder[n]]))
  IN upTo[Len(KeyOrder)]

\* Seeded fault: the cursor is moved before its first pair is read.
collectPairsAfterFirst == LivePairs(2)

collectAllPairs == LivePairs(1)

TruncateSharedLog ==
  /\ stage = "replayed"
  /\ segs' = Segment(1, <<>>) /\ live' = [live EXCEPT !.named = FALSE]
  /\ pairs' = collectAllPairs
  /\ stage' = "copying"
  /\ UNCHANGED <<data, tmp, mem, boundVars, acked, pend, overtaken>>

\* One Put of writePairsInBatches; the transaction ends with its batch.
Copied == Len(collectAllPairs) - Len(pairs)
CopyPair ==
  /\ stage = "copying" /\ pairs # <<>>
  /\ LET p == Head(pairs)
         t == [tmp.tree EXCEPT ![p.key] = p.val]
         commits == (Copied + 1) % CopyBatch = 0 \/ Len(pairs) = 1
     IN /\ segs' = Logged(segs, 1, p)
        /\ tmp' = [tree |-> t, file |-> IF commits THEN t ELSE tmp.file]
  /\ pairs' = Tail(pairs)
  /\ UNCHANGED <<data, mem, live, stage, boundVars, acked, pend, overtaken>>

\* The Checkpoint of the target: flush and Rotate, then RemoveOlderSegments.
FlushTarget ==
  /\ stage = "copying" /\ pairs = <<>>
  /\ tmp' = [tmp EXCEPT !.file = tmp.tree]
  /\ segs' = [i \in {1, 2} |-> IF i = 1 THEN segs[1] ELSE <<>>]
  /\ stage' = "flushed"
  /\ UNCHANGED <<data, mem, live, pairs, boundVars, acked, pend, overtaken>>
RemoveTargetLog ==
  /\ stage = "flushed"
  /\ segs' = Segment(2, <<>>)
  /\ stage' = "copied"
  /\ UNCHANGED <<data, tmp, mem, live, pairs, boundVars, acked, pend, overtaken>>

\* A step of the copy fails, a Put for want of free pages after it was logged:
\* the target is closed and removed, and the live database goes on.
CopyFails ==
  /\ stage \in {"wiring", "replayed", "copying", "flushed", "copied"}
  /\ segs' \in {segs} \cup IF stage = "copying" /\ pairs # <<>> THEN {Logged(segs, 1, Head(pairs))} ELSE {}
  /\ pairs' = <<>>
  /\ stage' = "idle"
  /\ UNCHANGED <<data, tmp, mem, live, boundVars, acked, pend, overtaken>>

\* compactSwap: close, rename, reopen.
CloseOriginal ==
  /\ stage = "copied"
  /\ stage' = "closed"
  /\ UNCHANGED <<fileVars, mem, live, pairs, boundVars, acked, pend, overtaken>>
Rename ==
  /\ stage = "closed"
  /\ data' = tmp.file
  /\ stage' = "renamed"
  /\ UNCHANGED <<tmp, segs, mem, live, pairs, boundVars, acked, pend, overtaken>>
Rewire ==
  /\ stage = "renamed"
  /\ Wire(data)
  /\ UNCHANGED <<tmp, pairs, boundVars, acked, pend, overtaken>>
SwapFails ==
  /\ stage \in {"closed", "renamed"}
  /\ stage' = "broken"
  /\ UNCHANGED <<fileVars, mem, live, pairs, boundVars, acked, pend, overtaken>>

-----------------------------------------------------------------------------
CompactNext ==
  \/ \E k \in PairKeys, v \in Vals \cup {Absent} : Update(k, v) \/ \E logged \in BOOLEAN : UpdateFails(k, v, logged)
  \/ Checkpoint \/ Close \/ Crash \/ Open
  \/ BeginCompact \/ ReplayIntoTarget \/ TruncateSharedLog \/ CopyPair \/ FlushTarget \/ RemoveTargetLog
  \/ CopyFails \/ CloseOriginal \/ Rename \/ Rewire \/ SwapFails

CompactSpec == CompactInit /\ [][CompactNext]_compactVars

-----------------------------------------------------------------------------
(* Properties. *)

\* Every key has its acknowledged value, or one that a rolled-back write left.
Holds(img) == \A k \in PairKeys : img[k] \in {acked[k]} \cup pend[k]

\* Whenever the process stops, in the middle of a compaction, between its
\* failure and a restart, or after it, the next Open finds the acknowledged
\* pairs; and so does the running process.  An Update that comes after a failed
\* copy is excepted: Open may replay what the copy left in the log over it.
CompactKeepsPairs == ~overtaken => Holds(Replayed(data, segs)) /\ (stage # "down" => Holds(mem))

\* README.md:242: "A crash-safe embedded key-value store", also after a Compact
\* that returned an error.
AckedSurviveFailedCompact == Holds(Replayed(data, segs))
=============================================================================
