----------------------------- MODULE TreeCrash -----------------------------
(***************************************************************************)
(* The tree and its file: an Update appends to the log, changes pages in   *)
(* place and flushes them one by one before the meta page names the root;  *)
(* Open replays the log into the tree that the file holds.                 *)
(*                                                                         *)
(* Recovery is given the best freelist there could be: every page the tree *)
(* of the file does not reach.  What a wrong one does is Freelist's.       *)
(***************************************************************************)
EXTENDS BTree

VARIABLES
  disk,     \* the pages of the data file
  diskRoot, \* TreeRoot of the meta page
  log,      \* the records since the last checkpoint
  acked,    \* ghost: the map after the last Update that returned nil
  pc        \* "idle", or "commit": pages are being flushed

crashVars == <<treeVars, disk, diskRoot, log, acked, pc>>

CrashInit ==
  /\ TreeInit
  /\ disk = tree.pages /\ diskRoot = tree.root
  /\ log = <<>> /\ acked = map /\ pc = "idle"

\* Update with one Put or Delete, up to the flush of its commit.
Update ==
  /\ pc = "idle" /\ pc' = "commit"
  /\ \/ \E k \in OpKeys, v \in Values : PutKey(k, v) /\ log' = Append(log, [key |-> k, val |-> v])
     \/ \E k \in OpKeys : DeleteKey(k) /\ log' = Append(log, [key |-> k, val |-> None])
  /\ ~failed'
  /\ UNCHANGED <<disk, diskRoot, acked>>

\* FlushDirty goes through the frames in map order: any page may come next.
FlushPage ==
  /\ pc = "commit"
  /\ \E p \in 1..NumPages : disk[p] # tree.pages[p] /\ disk' = [disk EXCEPT ![p] = tree.pages[p]]
  /\ UNCHANGED <<treeVars, diskRoot, log, acked, pc>>

commitMeta ==
  /\ pc = "commit" /\ disk = tree.pages
  /\ pc' = "idle" /\ diskRoot' = tree.root /\ acked' = map
  /\ UNCHANGED <<treeVars, disk, log>>

Checkpoint ==
  /\ pc = "idle" /\ log # <<>> /\ log' = <<>>
  /\ UNCHANGED <<treeVars, disk, diskRoot, acked, pc>>

\* The tree the file holds, when all its pages have been written.
OnDisk == LET t == [root |-> diskRoot, pages |-> disk, free |-> {}]
              nodes == Reach(t, diskRoot)
              chains == UNION {IF disk[p].kind # "leaf" THEN {}
                               ELSE UNION {ToSet(Chain(t, c.over)) : c \in ToSet(disk[p].cells)} : p \in nodes}
          IN [t EXCEPT !.free = (1..NumPages) \ (nodes \cup chains)]
Complete == diskRoot = 0 \/ \A p \in Reach(OnDisk, diskRoot) : disk[p].kind \in {"leaf", "internal"}

\* replayWAL: a Put that fails ends the replay, a Delete that finds nothing
\* does not.
Recovered == FoldLeft(LAMBDA t, r : IF r.val = None THEN TreeDelete(t, r.key) ELSE TreePut(t, r.key, r.val).t,
                      OnDisk, log)

\* A crash: Open brings back what the file and the log hold and flushes it.
Crash ==
  /\ pc = "commit" /\ Complete
  /\ tree' = Recovered /\ disk' = tree'.pages /\ diskRoot' = tree'.root
  /\ map' = [k \in Keys |-> Get(Recovered, k)]
  /\ log' = <<>> /\ acked' = map' /\ pc' = "idle"
  /\ UNCHANGED <<failed, ops>>

CrashNext == Update \/ FlushPage \/ commitMeta \/ Checkpoint \/ Crash
CrashSpec == CrashInit /\ [][CrashNext]_crashVars

\* What a crash brings back holds, for every key, the value of the last Update
\* that returned nil or the one under way: replay completes the split that the
\* crash cut short.
CrashKeepsCommitted ==
  Complete /\ \A k \in Keys : Get(Recovered, k) \in {acked[k], map[k]}
=============================================================================
