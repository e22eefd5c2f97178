-------------------------------- MODULE Wal --------------------------------
(***************************************************************************)
(* The segmented write-ahead log (internal/kdb/wal/wal.go).  A segment is  *)
(* a sequence of records; a record that readOneRecord rejects (short, or   *)
(* with a bad CRC) is Torn.  w.mu makes every method atomic for the other  *)
(* goroutines, so the steps below are cut only where a crash can bite:     *)
(* between a write and its fsync, and between two file removals.           *)
(* Creating, renaming and removing a file is taken to be durable at once   *)
(* and in order (a journalling file system).                               *)
(***************************************************************************)
EXTENDS Integers, Sequences, FiniteSetsExt

CONSTANTS
  MaxRecords,   \* bound: records ever written
  MaxSegment,   \* bound: highest segment number Rotate creates
  MaxBatch,     \* bound: records of one BatchAppend
  Failures      \* which of "write", "sync" may return an error

ASSUME WalAssumption == /\ MaxRecords \in Nat
                        /\ MaxSegment \in Nat \ {0}
                        /\ MaxBatch \in Nat \ {0}
                        /\ Failures \subseteq {"write", "sync"}

VARIABLES
  files,      \* segment number -> contents of wal-<number>.log
  synced,     \* segment number -> how many of its entries survive a crash
  legacy,     \* contents of the old single file wal.log, or NoFile
  activeID,   \* w.activeID
  segments,   \* w.segments
  nextLSN,    \* w.nextLSN
  method,     \* the method that is running: open (none), sync, truncate, remove
  inflight,   \* ids of the records written and not yet acknowledged
  bump,       \* what the running append still adds to nextLSN
  written,    \* number of records ever written: a record's identity
  kept,       \* ids of the acknowledged records not yet given up
  ioFailed    \* ghost: a write or an fsync has returned an error

walVars == <<files, synced, legacy, activeID, segments, nextLSN, method, inflight, bump, written,
             kept, ioFailed>>

Torn == [lsn |-> 0, id |-> 0]
NoFile == <<Torn>>
IsTorn(r) == r.lsn = 0

Ids(s) == {s[i].id : i \in 1..Len(s)}

\* The records a scan of a file from its start returns: readOneRecord fails at
\* the first torn one and the scan stops there.
ValidPrefix(s) == LET bad == {i \in 1..Len(s) : IsTorn(s[i])}
                  IN IF bad = {} THEN s ELSE SubSeq(s, 1, Min(bad) - 1)

\* discoverSegments: the numbers of the segments found, ascending.
Sorted(ids) ==
  LET upTo[n \in 0..MaxSegment] == IF n = 0 THEN << >> ELSE IF n \in ids THEN Append(upTo[n - 1], n) ELSE upTo[n - 1]
  IN upTo[MaxSegment]

Content(f, i) == IF i \in DOMAIN f THEN ValidPrefix(f[i]) ELSE << >>

\* Seeded fault: the newest segment is replayed first.
ReplayNewestFirst(f) ==
  LET upTo[n \in 0..MaxSegment] == IF n = 0 THEN << >> ELSE Content(f, n) \o upTo[n - 1]
  IN upTo[MaxSegment]

\* WAL.Replay: all segments, oldest first.
Replay(f) ==
  LET upTo[n \in 0..MaxSegment] == IF n = 0 THEN << >> ELSE upTo[n - 1] \o Content(f, n)
  IN upTo[MaxSegment]

\* The files as they would be found if the machine went down now and no
\* unsynced byte had reached the disk.
Durable == [i \in DOMAIN files |-> SubSeq(files[i], 1, synced[i])]

With(f, id, content) == [i \in DOMAIN f \cup {id} |-> IF i = id THEN content ELSE f[i]]
Without(f, id) == [i \in DOMAIN f \ {id} |-> f[i]]

-----------------------------------------------------------------------------
\* A new directory, or one left by the version that kept a single wal.log.
WalInit == /\ legacy \in {NoFile, <<[lsn |-> 1, id |-> 1], [lsn |-> 2, id |-> 2]>>}
           /\ files = << >>
           /\ synced = << >>
           /\ activeID = 0
           /\ segments = << >>
           /\ nextLSN = 1
           /\ method = "closed"
           /\ inflight = {}
           /\ bump = 0
           /\ written = IF legacy = NoFile THEN 0 ELSE 2
           /\ kept = IF legacy = NoFile THEN {} ELSE Ids(legacy)
           /\ ioFailed = FALSE

\* migrateLegacy renames wal.log over segment 1; discoverSegments lists the rest.
Discovered == IF legacy = NoFile THEN files
              ELSE With(files, 1, legacy)

\* Seeded fault: the scan returns the highest LSN, not the next.
ScannedLSNHighest(f) == Max({1} \cup {Replay(f)[i].lsn : i \in 1..Len(Replay(f))})

\* The next LSN after the highest one that a scan of all segments finds.
ScannedLSN(f) == Max({0} \cup {Replay(f)[i].lsn : i \in 1..Len(Replay(f))}) + 1

\* Open: create segment 1, or adopt the segments found and cut the corrupt tail
\* of the active one.
OpenLog == /\ method = "closed"
           /\ LET f == IF Discovered = << >> THEN [i \in {1} |-> << >>] ELSE Discovered
                  a == Max(DOMAIN f)
                  g == [f EXCEPT ![a] = ValidPrefix(f[a])]
              IN /\ files' = g
                 /\ synced' = [i \in DOMAIN g |-> IF i \notin DOMAIN files \/ g[i] # files[i]
                                                   THEN Len(g[i]) ELSE synced[i]]
                 /\ activeID' = a
                 /\ segments' = Sorted(DOMAIN g)
                 /\ nextLSN' = ScannedLSN(f)
           /\ legacy' = NoFile
           /\ method' = "open"
           /\ UNCHANGED <<inflight, bump, written, kept, ioFailed>>

\* n records with consecutive LSNs and fresh identities.
NewRecords(n) == [i \in 1..n |-> [lsn |-> nextLSN + i - 1, id |-> written + i]]

\* Append, up to its fsync; nextLSN is bumped after it.
Append1 == /\ method = "open" /\ written < MaxRecords
           /\ files' = [files EXCEPT ![activeID] = @ \o NewRecords(1)]
           /\ inflight' = {written + 1}
           /\ written' = written + 1
           /\ bump' = 1
           /\ method' = "sync"
           /\ UNCHANGED <<synced, legacy, activeID, segments, nextLSN, kept, ioFailed>>

\* BatchAppend, up to its fsync; nextLSN is bumped with every record.
BatchAppend(n) == /\ method = "open" /\ written + n <= MaxRecords
                  /\ files' = [files EXCEPT ![activeID] = @ \o NewRecords(n)]
                  /\ inflight' = Ids(NewRecords(n))
                  /\ written' = written + n
                  /\ nextLSN' = nextLSN + n
                  /\ bump' = 0
                  /\ method' = "sync"
                  /\ UNCHANGED <<synced, legacy, activeID, segments, kept, ioFailed>>

\* Seeded fault: the append returns without its fsync.
SyncForgotten ==
  /\ method = "sync"
  /\ nextLSN' = nextLSN + bump
  /\ kept' = kept \cup inflight
  /\ inflight' = {}
  /\ bump' = 0
  /\ method' = "open"
  /\ UNCHANGED <<files, synced, legacy, activeID, segments, written, ioFailed>>

\* durableSync, and the return to the caller.
Sync == /\ method = "sync"
        /\ synced' = [synced EXCEPT ![activeID] = Len(files[activeID])]
        /\ nextLSN' = nextLSN + bump
        /\ kept' = kept \cup inflight
        /\ inflight' = {}
        /\ bump' = 0
        /\ method' = "open"
        /\ UNCHANGED <<files, legacy, activeID, segments, written, ioFailed>>

\* What a failed Write leaves: n records of a batch (none of Append) and a part
\* of the next one.
TornRecords(n) == NewRecords(n) \o <<Torn>>

\* Write returns an error; nothing takes back what is in the file.
AppendFails(n) == /\ "write" \in Failures
                  /\ method = "open" /\ written + n < MaxRecords
                  /\ files' = [files EXCEPT ![activeID] = @ \o TornRecords(n)]
                  /\ written' = written + n + 1
                  /\ nextLSN' = nextLSN + n
                  /\ ioFailed' = TRUE
                  /\ UNCHANGED <<synced, legacy, activeID, segments, method, inflight, bump, kept>>

\* durableSync returns an error: the bytes stay, nextLSN of Append is not bumped.
FsyncFails == /\ "sync" \in Failures
              /\ method = "sync"
              /\ inflight' = {}
              /\ bump' = 0
              /\ method' = "open"
              /\ ioFailed' = TRUE
              /\ UNCHANGED <<files, synced, legacy, activeID, segments, nextLSN, written, kept>>

\* Rotate: fsync the active segment and go on in a new, empty one.
Rotate == /\ method = "open" /\ activeID < MaxSegment
          /\ files' = With(files, activeID + 1, << >>)
          /\ synced' = With([synced EXCEPT ![activeID] = Len(files[activeID])], activeID + 1, 0)
          /\ activeID' = activeID + 1
          /\ segments' = Append(segments, activeID + 1)
          /\ UNCHANGED <<legacy, nextLSN, method, inflight, bump, written, kept, ioFailed>>

\* RemoveOlderSegments and Truncate are entered: the caller declares the
\* records they are about to delete safe in the data file.
RemoveOlderSegments == /\ method = "open" /\ Len(segments) > 1
                       /\ method' = "remove"
                       /\ UNCHANGED <<files, synced, legacy, activeID, segments, nextLSN, inflight, bump, written, kept, ioFailed>>

Truncate == /\ method = "open"
            /\ method' = "truncate"
            /\ UNCHANGED <<files, synced, legacy, activeID, segments, nextLSN, inflight, bump, written, kept, ioFailed>>

Elements(s) == {s[i] : i \in DOMAIN s}

\* Seeded fault: the loops start at the newest segment they delete.
NextRemovedNewest == Max(IF method = "truncate" THEN Elements(segments) ELSE Elements(segments) \ {activeID})

\* The segment their loops delete next, and when the loops are over.
NextRemoved == Head(segments)
LoopDone == segments = IF method = "remove" THEN <<activeID>> ELSE << >>

\* One os.Remove of the loop, oldest segment first.
RemoveSegment == /\ method \in {"remove", "truncate"} /\ ~LoopDone
                 /\ files' = Without(files, NextRemoved)
                 /\ synced' = Without(synced, NextRemoved)
                 /\ segments' = Sorted(Elements(segments) \ {NextRemoved})
                 /\ UNCHANGED <<legacy, activeID, nextLSN, method, inflight, bump, written, kept, ioFailed>>

StillIn(f, ids) == ids \cap Ids(Replay(f))

RemoveDone == /\ method = "remove" /\ LoopDone
              /\ kept' = StillIn(files, kept)
              /\ method' = "open"
              /\ UNCHANGED <<files, synced, legacy, activeID, segments, nextLSN, inflight, bump, written, ioFailed>>

\* Truncate ends with a fresh segment 1, and LSNs start over.
TruncateDone == /\ method = "truncate" /\ LoopDone
                /\ files' = [i \in {1} |-> << >>]
                /\ synced' = [i \in {1} |-> 0]
                /\ activeID' = 1
                /\ segments' = <<1>>
                /\ nextLSN' = 1
                /\ kept' = {}
                /\ method' = "open"
                /\ UNCHANGED <<legacy, inflight, bump, written, ioFailed>>

\* The WAL object is gone with its process.
Forget == /\ activeID' = 0 /\ segments' = << >> /\ nextLSN' = 1
          /\ inflight' = {} /\ bump' = 0
          /\ method' = "closed"
          /\ UNCHANGED <<legacy, written, ioFailed>>

\* Close: one more fsync.
CloseLog == /\ method = "open"
            /\ synced' = [synced EXCEPT ![activeID] = Len(files[activeID])]
            /\ Forget
            /\ UNCHANGED <<files, kept>>

\* What a crash may leave of a file: the synced entries, any number of the
\* unsynced ones, and perhaps a piece of the next.
LogImages(i) == UNION {IF k = Len(files[i]) THEN {files[i]}
                         ELSE {SubSeq(files[i], 1, k), SubSeq(files[i], 1, k) \o <<Torn>>} :
                           k \in synced[i]..Len(files[i])}

DirectoryImages == {f \in [DOMAIN files -> UNION {LogImages(i) : i \in DOMAIN files}] :
                      \A i \in DOMAIN files : f[i] \in LogImages(i)}

\* The machine goes down.  What the removal loops had deleted stays deleted.
CrashLog == /\ method # "closed"
            /\ \E f \in DirectoryImages :
                 /\ files' = f
                 /\ synced' = [i \in DOMAIN f |-> Len(f[i])]
            /\ kept' = IF method \in {"remove", "truncate"} THEN StillIn(Durable, kept) ELSE kept
            /\ Forget

\* The process dies and the machine does not: the OS keeps the unsynced bytes.
KillLog == /\ method # "closed"
           /\ kept' = IF method \in {"remove", "truncate"} THEN StillIn(Durable, kept) ELSE kept
           /\ Forget
           /\ UNCHANGED <<files, synced>>

WalNext == \/ OpenLog \/ Append1 \/ Sync \/ FsyncFails \/ Rotate
           \/ \E n \in 1..MaxBatch : BatchAppend(n)
           \/ \E n \in 0..MaxBatch - 1 : AppendFails(n)
           \/ RemoveOlderSegments \/ Truncate \/ RemoveSegment \/ RemoveDone \/ TruncateDone
           \/ CloseLog \/ CrashLog \/ KillLog

WalSpec == WalInit /\ [][WalNext]_walVars

-----------------------------------------------------------------------------
Record == [lsn : 0..MaxRecords + 1, id : 0..MaxRecords]

\* Every variable holds a value of its kind.
WalTypeOK == /\ DOMAIN files \subseteq 1..MaxSegment
             /\ \A i \in DOMAIN files : files[i] \in Seq(Record)
             /\ DOMAIN synced = DOMAIN files
             /\ \A i \in DOMAIN files : synced[i] \in 0..Len(files[i])
             /\ legacy \in Seq(Record)
             /\ activeID \in 0..MaxSegment
             /\ Elements(segments) \subseteq 1..MaxSegment
             /\ nextLSN \in 1..MaxRecords + 1
             /\ method \in {"closed", "open", "sync", "truncate", "remove"}
             /\ bump \in {0, 1}
             /\ written \in 0..MaxRecords
             /\ kept \subseteq 1..MaxRecords
             /\ ioFailed \in BOOLEAN

OnDisk == IF legacy = NoFile THEN Durable ELSE Discovered

Ascending(r) == \A i, j \in 1..Len(r) : i < j => r[i].id < r[j].id

\* Whatever the moment of a crash, a replay yields every record whose append
\* returned and that no checkpoint gave up, each once and in order, unless a
\* write or an fsync has failed.
AckedReplayed ==
  ~ioFailed /\ method \notin {"truncate", "remove"} =>
    kept \subseteq Ids(Replay(OnDisk)) /\ Ascending(Replay(OnDisk))

\* While RemoveOlderSegments or Truncate deletes segments, what a crash would
\* leave to replay is the newest part of the log: replaying it over a data file
\* that already holds the whole log changes nothing.
RemovalKeepsNewest ==
  ~ioFailed /\ method \in {"truncate", "remove"} =>
    /\ \A i, j \in kept : i < j /\ i \in Ids(Replay(OnDisk)) => j \in Ids(Replay(OnDisk))
    /\ Ascending(Replay(OnDisk))

\* wal.go: the LSN is "monotonically increasing": in replay order no two
\* records share one and none goes back.  A failed fsync breaks this: Append
\* leaves its record in the file and gives the next one the same LSN.
LSNsIncrease ==
  LET r == Replay(files) IN ~ioFailed => \A i, j \in 1..Len(r) : i < j => r[i].lsn < r[j].lsn

\* Whatever writes and fsyncs have failed, a replay applies records in the order
\* in which they were written, across rotations and restarts; and until something
\* fails the LSNs show that order.
LogInOrder ==
  /\ Ascending(Replay(files))
  /\ LSNsIncrease
=============================================================================
