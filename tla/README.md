# A verification of pcke

pcke answers questions about a repository. It keeps what it knows in a store of
its own, **kdb**, an embedded key-value engine written in Go
(`src/internal/kdb`), and fills and reads it with a scanner, an event log, a
graph, a query language, a retrieval engine and an observation collector
(`src/internal`). This directory holds TLA+ modules of these parts, the TLC
configurations that check them on small instances, and proofs checked by TLAPS.
The modules are translated from the code; where a comment or a document of the
repository says something else, a configuration shows the difference (see *Where
code and documents differ*).

`PROJECT.json` is the index: components, runs, the map from each definition to
the source lines it models, seeded faults, hazards, findings and theorems.

To check a run: `tlc -config <file>.cfg <module>.tla`. To check a proof:
`tlapm <module>_proofs.tla` (section 5 says which module holds which proofs).

## 1. Inventory

### The system

| Part | State | Operations | What makes it hard |
|---|---|---|---|
| meta pages `kdb/meta.go` | pages 0 and 1 of `data.kdb`, each a checksummed `Meta` with a generation | `initMeta`, `loadMeta`, `swapMeta` | power loss inside a page write, failed fsync, ties of generations |
| write-ahead log `kdb/wal` | segment files, the active one, `nextLSN` | `Open` (migrate, scan, repair), `Append`, `BatchAppend`, `Rotate`, `RemoveOlderSegments`, `Truncate`, replay | torn tails, crash between deletions, failed write or fsync |
| database `kdb/db.go`, transactions `kdb/tx` | tree, pool, log, meta, two locks (`db.rwmu`, `db.mu`) | `Open`, `Update`, `View`, `Checkpoint`, `Grow`, `Close` | recovery at any moment, views and `Close` and `Grow` beside a running `Update` |
| page pool `kdb/bufpool` | frames, the CLOCK ring and its hand, capacity | `Pin`, `Unpin`, `MarkDirty`, `FlushDirty`, `FlushPage`, `SetMaxPages`; `Sample` resizes | eviction under pins, resizing, failed write-back |
| B+tree `kdb/btree` | pages reached from the root | `Put`, `Delete`, `Get`, cursors; split, merge, redistribution, overflow chains | in-place changes of several pages, uneven cell sizes, allocation that fails half-way |
| freelist `kdb/freelist` | a B+tree of free page numbers and a reserve in memory | `Alloc`, `Free`, seeding, migration of the older format | it is stored in the pages it manages; a crash between the two trees |
| file lock `kdb/lock` | an inode, a path | `Acquire`, `Unlock` | removal of the path beside an open by another process |
| compaction `kdb/compact.go` | a temporary database | copy, rename, reopen | shares the log directory with the live database |
| migrations and backfills `kdb/migrate` | schema version, query registry | numbered translations of key prefixes, ALTER, batches | re-run after a crash; other writers between two batches |
| event store `kdb/event`, graph `kdb/graph` | version chains, links and their reverse keys | append, latest, as-of, history; neighbours, reachability | escaping of ids, transactions that fail half-way, bounded walks |
| indexes `kdb/index`, `kdb/index/fts` | composite-key trees; segments and tombstones | insert, remove, search, commit, merge | merge and commit beside search and delete |
| query `internal/query` | none | lex, parse, type check, plan, execute | agreement of plan, filters and text |
| retrieval `internal/retrieval` | a request in hand; session memory | candidates, scores, budget, anticipation | each lookup is a View of its own |
| collector `internal/observe` | a bounded queue, one writer | record, flush, close | close beside record, failed batches, restarts |
| scanner, watcher and decisions `internal/analysis` | nodes, events, decisions; a debounce timer | scan, trigger, stop | changes during a scan, a scan that breaks off |
| federation, MCP server, broker | open repositories; subscribers | fan-out; publish, subscribe | nothing shared but read-only views |
| command line, config, output, log | none | | I/O only |

### How the parts interact

`Update` takes `db.rwmu`, runs the caller's function on a `WriteTx`, and commits.
`Put` and `Delete` append a record to the log and fsync it (or, with
`GroupCommit`, buffer it), then change the tree through the pool. `Commit`
appends a commit record, flushes all dirty pages, fsyncs the data file, and
`commitMeta` swaps the meta page under `db.mu`. `Checkpoint` flushes, swaps and
deletes old segments. `Open` loads a meta page, opens the freelist, replays the
log into the tree, flushes, swaps and truncates the log. `View` holds no lock
while it runs: it reads the data file through a pool of its own. `Grow` and
`Close` take `db.mu` only, so both run beside an `Update`.

Everything above kdb goes through `Update` and `View`. Its records are versions
`<kind>:<id>:v<n>`, a link also a reverse key `lr:`; the graph walks links, the
query language and the retrieval engine read one View per step, the collector
writes from one goroutine and rebuilds sessions from what it wrote, the scanner
writes in several transactions and the migrations in batches. Because a failed
`Update` keeps the writes it made, every one of these parts may leave its first
writes behind.

### What makes each part correct

- meta: the acknowledged `Meta`, or a newer one, is loaded after any crash.
- log: acknowledged records are replayed, once and in order.
- database: recovery gives back acknowledged transactions and nothing older, and
  views are not stale - as long as the file holds one tree and the log has no torn
  record in its middle; the code promises it without these conditions.
- pool: no change is lost, no pinned frame goes away, `Pin` fails only if it must.
- sizing: within bounds, damped, and it arrives at the end of the range.
- tree: a sorted map, for `Get` and for cursors, every page in one use, balanced.
- freelist: every page has one use and lies inside the file, after a restart too.
- lock: one process per database.
- compaction: whenever it fails or dies, the acknowledged pairs are there.
- migrations: a version says what is translated, and nothing is translated twice;
  backfills miss no record and take back no write.
- event keys: no id's scan meets another id. Event store and graph: chains are
  linked, both directions of a link agree, walks are exact.
- full-text index: the committed documents and no others are found, each once.
- query: read as written, and the rows are those asked for.
- retrieval: the best package for the budget, of records current at the request.
- collector and sessions: what was noted is written whole or given up, what is
  remembered is what was served, the queue drains.
- scanner: a scan that nothing disturbed has recorded the repository, and what is
  recorded stays.

## 2. Modules

| Module | Models | State and code |
|---|---|---|
| `Meta` | `meta.go`, the creation of the file and the calls of `swapMeta` in `db.go` | `cache` is what `ReadAt` returns, `disk` what a power loss leaves, `dirty` the slots in between; `mem` is `db.meta`; `new`, `target`, `stage` are the arguments of the running `writeMetaPage` |
| `Wal` | `wal/wal.go` | `files` and `synced` are the segments and their durable length, `legacy` the single file of older versions, `activeID`, `segments`, `nextLSN` the fields of `WAL`, `method` the running method |
| `Kdb` | `db.go`, `tx/tx.go` | `mem` with `dirty` is the tree through the pool, `file` the data file as read, `disk` as a power loss leaves it, `wal` the log, `torn` whether it has a torn record; `shape` says whether a split or merge is still on its way to the file; `pc` is where the holder of `db.rwmu` stands, `closing` where `Close` stands |
| `KVStore` | what `Kdb` promises of its durable state | a map `kv` that only a write of a running transaction (`tx`) changes, one key at a time; `moving` and `lost` are its one exception |
| `BufPool` | `bufpool/bufpool.go` | `frames`, `clock`, `clockHand`, `maxPages` are the fields of `Pool` |
| `DynPool` | `bufpool/dynamic.go` | `capacity`, `consecutiveHigh` |
| `Freelist` | `freelist/btree_freelist.go`, seeding, `setupFreelist`, `Grow` | `leaf` and `reserve` in memory, `fileLeaf`, `fileOwned` in the file, `named` and `moved` what the meta page leads to and whether memory has other roots, `growing` the loop of `Grow` |
| `FileLock` | `lock/lock.go`, `lock_unix.go` | `flock` the locks the kernel holds, `path` the directory entry, `fd` each process's file |
| `BTree` | `btree/*.go` but the page layout | `tree` is the root, the pages and the free pages; `map` what puts and deletes made |
| `TreeCrash` | the flush of a commit and the replay, over `BTree` | `disk`, `diskRoot`, `log`; extends `BTree` |
| `Compaction` | `compact.go` between the operations of the live database | `data` and `mem` the live database, `tmp` the copy, `segs` the shared log directory, `live` the handle of the live log, `stage` where `Compact` stands |
| `EventKeys` | `event/key.go`, `graph/keys.go` | functions on two ids |
| `EventStore` | `event/store.go` | `store.chain` the versions of an id, `store.reverse` the `lr:` records |
| `Graph` | `graph/*.go` | walks as operators on one store; extends `EventStore` |
| `Retrieval` | `retrieval/*.go`, a request beside appends | `phase` and `position` say where `Assemble` stands; extends `Graph` |
| `Collector` | `observe/collector.go`, `retrieval/session` | `queue` the channel, `batch` and `loop` the flush goroutine, `pc` each handler, `mem` the sessions; extends `Graph` |
| `Migrate` | `migrate/migrate.go`, `v0010`–`v0015`, ALTER's version | `disk` the last commit, `engine` the migration that runs; extends `EventStore` |
| `Backfill` | `migrate/backfill.go`, `impact.go`, `index/` | `job` the phase, cursor and batch of `BackfillIndex`; `records`, `index` |
| `FTS` | `index/fts/index.go`, `memseg.go`, `segment.go`, `tombstone.go`, the recall command | `segments`, `active`, `tombstones` are the fields of `Index`, `reader` each search |
| `Text` | tokenizer, posting lists and segment format of `index/fts` | functions on one input |
| `Query` | `internal/query`: lexer, parser, types, planner, executor | functions on one input; what a walk reaches is given (`Reachable`) |
| `Decisions` | `analysis/decisions`, `analysis/annotations` | the writes of each source, as sequences |
| `Scanner` | `analysis/scanner.go`, `watcher.go`, the git history | `scan` the running scan and its place, `nodes`, `entities`, `imports`, `renames`, `log` the store; extends `Decisions` |

`MC*` modules put modules side by side for TLC, give the symmetry sets and the
values that a `.cfg` cannot write. Parts that share no state are run in one
suite: the variable `part` says which of them a behaviour runs, the others stay
at an initial state, and `Parts` selects those that are run at all. `MCOpen`
holds `Meta`, `Wal`, `FileLock`, `Freelist`; `MCPages` holds `BTree`, `BufPool`,
`Compaction`; `MCEvents` holds the event store under `Graph`, `Retrieval` and
`Collector`; `MCProgram` holds the rest. `*_proofs` modules hold the theorems.
An operator that begins with "Seeded fault" in its comment is not part of the
model: it is the mutated form of the definition after it, and `PROJECT.json`
names the property that must fail when it takes that definition's place.

The modules stand on each other by what they establish. `Meta` shows that a swap
is atomic and `Wal` that an acknowledged record is durable, so `Kdb` takes both
as single steps; `BufPool` shows that pages do not change under eviction, so
`Kdb`, `BTree` and `Freelist` only say that a dirty page may be written at any
time; `BTree` shows that the tree is a map, which is what `Kdb` and `Compaction`
take it for; `FileLock` is about who may be running at all. `EventKeys` shows
that a scan meets one id, so `EventStore` has a sequence per id; `EventStore`,
`Migrate`, `Collector` and `Scanner` take from `Kdb` that a failed transaction
leaves its first writes.

### Abstractions

- One number stands for the content of a meta page, a record or a page version;
  a name for a value, a file's content, a document or a commit.
- In `Kdb` the tree is a map in which key `k` lives on page `PageOf[k]`, and a
  data page is written atomically; torn data pages are nobody's. Any write may
  also split or merge pages. What the pages hold then is not modelled: `shape`
  records that the tree was reshaped, and from the first of its pages that is
  written until the next meta swap that the file mixes two trees. A process that
  goes down then ends the model (`pc = "lost"`); what such a file gives back is
  `TreeCrash`'s. A View is stranded when that happens under it, or when it starts
  after the reshaping and before the swap: it may find anything, and nothing it
  finds is kept.
- `Kdb` ends also with a failed fsync, and where the tree gives up halfway
  through a split or a merge (`MCBTreeFull.cfg` shows what that does).
- Commit and checkpoint records are not kept in `Kdb`'s log: replay skips them.
- File creation, renaming and removal are durable at once and in order.
- A failed fsync leaves the bytes readable and not durable; they may or may not
  survive. In `Meta` no later fsync makes up for it; in `Wal` the next successful
  fsync of the segment covers what was appended before it.
- A kill ends the process and keeps what it has written; a power loss also
  chooses, for every unsynced page or segment tail, old, new or torn content.
- In `Freelist`, the freelist's own tree is one leaf (a page holds 338 entries),
  Put into a root page that is not a leaf returns an error, and reading such a
  root finds nothing. The main tree and the indexes are one client that owns
  pages. `Close` writes no meta page: if a root has moved since the last one, the
  next `Open` finds, under the roots that page names, some of the pages in use
  and perhaps some that were given back (`kept`, `stale`). Allocations made by a
  replay are ordinary allocations after `Open`.
- `BTree` counts the room of a page in cells of one size, or of two when
  `LongKeys` is not empty, and an overflow value in pages; a `Put` is one step,
  since `db.rwmu` keeps writers apart. `TreeCrash` gives recovery the best
  freelist there could be.
- `Compaction` takes one `Update`, one `Checkpoint` and one `Open` as one step
  each: what a crash within them leaves is `Kdb`'s.
- `FileLock` is the unix version; inodes may be used again once nothing refers
  to them.
- Scores of `Retrieval` are integers in hundredths of a percent, ranks of `FTS`
  are left out, and the values, the substring tests and the walks of `Query` are given tables.
- `Text` tells characters apart by their class; numbers wrap at a small width.
- `Scanner`: what the analysers extract from a file is a function of its content,
  given by the instance; git is the list of commits.
- Legacy databases (the single-file log apart) are not modelled.

## 3. Runs that pass

| Run | Instance | Properties |
|---|---|---|
| `open` | meta: 6 swaps, generations to 6, failing writes and fsyncs. log: 5 records, 3 segments, batches of 2, failing writes and fsyncs. lock: 3 processes, 4 inodes. freelist: chunks of 5, 2 chunks, 2 owned pages, reserve target 1, 2 restarts, failing fsyncs, kills | `CrashLoadsAckedMeta`, `GenerationNamesOneMeta`, `ReadMetaNotBehind`; `AckedReplayed`, `RemovalKeepsNewest`, `LogInOrder`; `HoldersLockTheirInode`, `NoStaleLock`; `OneUsePerPage`, `FreePagesExist` |
| `kdb` | 2 keys on 2 pages, 2 values, 2 transactions, 3 records, 2 crashes | `CrashRecoversMemory`, refinement of `KVStore` |
| `kdb_io` | 2 keys, 1 value, 1 view, 2 transactions, 2 records, 1 crash, I/O errors and torn records, group commit chosen at each `Open` | `AckedUpdatesSurvive`, `ViewNotStale` |
| `pages` | tree: six initial trees of up to 17 keys and three levels, values inline and of 2 overflow pages, 3 operations, 13 pages. pool: 4 pages, capacities 1 (from 0), 2 and 3, 2 pins, I/O errors. compaction: 2 keys, 3 updates, 2 compactions, 1 crash, 3 segments | `TreeServesMap`, `TreeKeepsShape`; `RingMatchesFrames`, `NoLostUpdate`, `PinFindsRoom`, `PinnedStays`; `CompactKeepsPairs` |
| `events` | a cycle of three links of three types, 3 appends at 2 times, failing second halves; 3 requests of different workflow, budget and files beside appends; 2 handlers, 2 calls, a queue of 2, 2 failures or restarts | `ChainsAreLinked`, `ReverseFollowsForward`, `WalksAreExact`; `PackageIsBest`, `PackageIsCurrent`; `CallsAreWrittenWhole`, `SessionsMatchStore`, `QueueDrains` |
| `program` | keys: ids of one and two of five characters. text: all texts of up to 4 of six characters, lists and segments of two entries. query: all strings of up to 4 of nine characters, 280 queries (scans and walks, some refused) over tables of up to 3 rows. fts: 3 documents, 1 reader. migrate: 8 legacy records, batches of 2, 2 crashes, 2 ALTERs. backfill: 3 keys, batches of 2, 2 concurrent writes. pool size: 2 to 13. scan: 3 files, 2 changes, 2 scans | `KeysAreExact`; `TextSurvives`; `QueriesAreExact`; `SearchesAreExact`; `MigrationsHold`; `BackfillIsComplete`; `ShrinkIsDamped`, `PoolReachesItsEnd`; `ScanRecordsRepository`, `HistoryOnlyGrows` |

`TypeOK` in `open` is `Meta`'s type invariant, which is also proved.

### What holds only until something fails

Some promises of the code end with the first fault of one kind. Variables that
the code does not have remember it, so that one run can check, over the same
behaviours, what holds before the fault and what holds in spite of it:

- `syncFailed` (`Meta`): an fsync of a swap has failed. `CrashLoadsAckedMeta` and
  `GenerationNamesOneMeta` hold until then, `ReadMetaNotBehind` always.
- `torn` (`Kdb`): the log has a torn record. `AckedUpdatesSurvive` speaks then of
  the keys that have no record in front of it: the others may fall back to that
  older record at the next replay, those without are safe in the data file. A
  checkpoint cuts the log and with it the torn record.
- `shape`, `stranded` and `pc = "lost"` (`Kdb`): the file mixes a tree before and
  after a split or merge, or an fsync has failed. `CrashRecoversMemory` and
  `AckedUpdatesSurvive` do not speak of a crash while it does, nor `ViewNotStale`
  of a stranded View; both hold again after the next meta swap.
- `ioFailed` (`Wal`): a write or an fsync has failed. `AckedReplayed`,
  `RemovalKeepsNewest` and that LSNs increase hold until then; that replay follows
  the order of writing always. After a failed write the records appended behind a
  torn one (`wal.go:193`) are acknowledged and not replayed; after a failed fsync
  the next record carries the same LSN (`wal.go:199`).
- `parted` (`Freelist`): a process was killed, or `Close` left a meta page that
  leads to a page of the freelist. `OneUsePerPage` holds until then,
  `FreePagesExist` always; `OneUseAfterKill` is the condition without `parted`.
- `failed` (`BTree`): an allocation has failed. That the tree is the map, that no
  page is lost and that nodes do not underflow hold until then; that no page has
  two uses, that cells fit and leaves are equally deep, always.
- `overtaken` (`Compaction`): an `Update` came while the log of a failed copy was
  there. `CompactKeepsPairs` holds until then.
- `halfWritten` (`EventStore`, `Migrate`): the second `Put` of a link has failed.
  Until then the reverse index is exact; afterwards it only never names a version
  that is not there. Chains are linked always.
- `lost` (`Collector`): the calls given up, one by one; every other call is
  written whole.
- `incomplete` (`Scanner`): a scan broke off between nodes and their versions.
  Incremental scans are exact about versions until then, full ones always.

`VersionMeansMigrated` speaks of databases nobody has ALTERed, and
`MergeWhileActive = FALSE` says that a merge runs when all documents are
committed; what happens otherwise is below.

### Bounds

Every bound is a constant in a guard. Six swaps write each slot three times, so
that a slot is overwritten, fails and is overwritten again. Three segments are
the least in which a deletion loop can stop between two deletions and leave an
old, a middle and an active one; five records fill them unevenly. Two keys on two
pages let one page be flushed and the other lost; with three records a key is
written twice around the other one; two crashes put one into the recovery from
the other. Four pages over three frames make the hand pass pinned and referenced
frames; capacity 1 empties the ring. The range 2 to 13 holds the
capacities at which the quarter rounds to nothing. A chunk of five pages
seeds a reserve and a tree of free pages of at least one entry each, and the
second chunk is the one that `Grow` adds; two owned pages let one root be given back
and another one be in use. Four inodes are one more than the
processes, so a removed inode may be held while a new one is created.

A node of the tree holds three or four cells and underflows below two, so trees
of 4, 5, 13, 14 and 17 ascending or descending keys stand just before a split of
a leaf, of an internal node and of the root; three operations split, merge and
redistribute at two levels. Two compactions let the second find what a failed
first one left, three segments let live checkpoints pass the copy's segments.
A cycle of links of three types is the least graph in which a walk meets a node
again, on both sides and through an edge filter. Walks start at its nodes
(`Starts`) with the defaults, one step only, an edge filter, a time, and a cap
of 2 and of 1 (`Searches`): the cap is looked at when a node is found, so the
start alone is never cut, even when it counts for two sides. A queue of two
overflows with two calls of three records; two failures are a batch and a
restart. Batches of two over three records give a full and a partial batch. Ids
of two characters hold an escaped and a plain separator in either order.

### Fairness

Two parts have liveness properties. `DynPool` assumes weak fairness of its
step: `Sample` is called after every transaction (`db.go:707`) and every
checkpoint, so `PoolReachesItsEnd` is about a workload that goes on and says
nothing of an idle database. `QueueDrains` of the collector assumes weak fairness
of the flush loop alone, a goroutine that a ticker wakes
(`collector.go:270`): no handler and no `Close` need ever take another step. The
other modules promise nothing without their caller.

### Deadlock

Deadlock is checked in `open`, `kdb`, `kdb_io` and `pages`, where the system can
always go on. `events` and `program` do not check it, because their parts end:
requests and handlers are used up by their bounds, a backfill and a scan finish,
and a closed collector has nothing left to do.

## 4. Where code and documents differ

Each of these configurations checks one sentence of the repository and ends in a
counterexample. The first six are runs, and `PROJECT.json`, "findings", quotes
the sentence and the lines.

| Run | Sentence | What happens |
|---|---|---|
| `kdb_snapshot` | "Each View sees a consistent snapshot" (`db.go:579`) | a View reads each page as it is when it gets there |
| `kdb_rollback` | "On error, changes are rolled back" (`docs/api-reference.md:46`) | the changes stay in the pool and go out with the next commit |
| `freelist_crash` | "crash-safe" (`README.md:242`) | a kill leaves a page both free and in use |
| `filelock_exclusive` | "If another process already holds the lock, it returns ErrDBLocked" (`lock.go:28`) | `Unlock` removes the path after it released the inode: two processes lock two inodes |
| `tree_crash` | "crash-safe" (`README.md:242`) | a kill between the page writes of a split loses keys that were committed and checkpointed |
| `scan_renames` | "Detect renames and persist evolution logs" (`scanner.go:261`) | the last commit is overwritten before it is read, so none is found |

The others are further configurations beside the runs:

| Configuration (module) | Property | What happens |
|---|---|---|
| `MCMetaFsync.cfg` (`MCOpen`) | `SwapIsSelected` (`meta.go:236`: the new meta "will be selected on the next loadMeta call") | after a failed fsync two slots carry one generation, and the older one may be selected |
| `MCFreelistSeed.cfg` (`MCOpen`) | `GrowSucceeds` (`db.go:230`: `Grow` makes its pages "available for allocation") | a kill between the publication of the freelist's root and its first flush leaves a page of zeros, and `Grow` fails |
| `MCBTreeFull.cfg` (`MCPages`) | `FailedPutKeepsKeys` | a `Put` that fails for want of a page after a child was split, or after the old cell was deleted, loses keys in memory |
| `MCBTreeFit.cfg` (`MCPages`) | `NodesFit` | a node is split by the number of cells; with long and short keys one half overfills its page |
| `MCBTreeLong.cfg` (`MCPages`) | `ScanIsMap` | deleting a long cell may leave an empty leaf, at which a cursor stops |
| `MCCompactFailed.cfg` (`MCPages`) | `AckedSurviveFailedCompact` (`README.md:242`) | a `Compact` that fails while copying leaves its records in the shared log and the live handle on a removed segment; the next `Open` replays the copy over later acknowledged updates |
| `MCCollectorPanic.cfg` (`MCEvents`) | `SendNeverPanics` (`collector.go:216`) | a handler that passed the check of `closed` sends on the closed channel |
| `MCMigrateVersion.cfg` (`MCProgram`) | `VersionMeansMigratedAlways` (`migrate.go:131`) | every ALTER whose backfill commits a transaction adds one to the schema version of the file, so that a later migration is taken for done |

Some modules state further properties that the code does not have, without a
configuration of their own: `OpenNeverRefused` (`Meta`: a crash between the
extension of a new file and its first meta page leaves a file that every `Open`
refuses), `NoPageLost` (`Freelist`, `db.go:268`, "so the file does not balloon":
the reserve is lost at every restart), `ExcessIsEvicted` (`BufPool`, `bufpool.go:252`: each `Pin`
evicts one frame and adds one, so an excess stays), `RecallPrintsHits` (`FTS`,
`commands.go:852`: documents are numbered from 1 and looked up from 0),
`AsOfIsHighestAlways` (`EventStore`: callers choose
`CreatedAt`, and the walk stops at the first later one), `ContainsResolves`
(`Collector`: a session of a failed batch is never written again),
`RequestedFilesAreNearest` (`Retrieval`), `NeverNewerThanCode` and
`TranslatedBothWays` (`Migrate`), `IndexFindsOnlyRecords` (`Backfill`),
`SearchesReturnOnce`, `SearchesReturnNoDeleted` and `TotalDocsAreLive` (`FTS`), `EveryPartIsFound`
(`Text`). The comment above each says what happens.

### Met while modelling

Code that disagrees with a comment, or that a user would not expect, where no
property is stated:

- A View takes the root in memory and reads its pages from the file (`db.go:593`). Beside an `Update` that splits or merges a leaf in place it reads the halved leaf under the old root, or a root that is not written yet, and does not find keys that were acknowledged long before it began. In `Kdb` it is `stranded`.
- After an append that failed in the middle of a record (`wal.go:193`) the log stays open. Transactions acknowledged behind the torn record are not replayed, and a key with a record in front of it falls back to that.
- Replay applies every record, committed or not (`db.go:749`).
- `Close` writes no meta page (`db.go:148-198`). After an `Update` that collapsed the root (`merge.go:471`) and then failed, a clean restart opens the old root, which the freelist lists as free. For the same reason the version that an ALTER of an empty collection set, and that a migration reached in memory before it failed, is gone after `Close`.
- A `Put` in the log that fails at replay aborts `Open`; a `Delete` that fails is ignored (`db.go:762`).
- `Merge` forgets the tombstone of a document that is still in the active segment (`MergeWhileActive`).
- After ALTER a collection cannot be queried in another process: the registry of new fields is in memory only (`impact.go:24`). ALTER of a field that exists still bumps the version, which `alter.go:95-97` calls a no-op.
- A compaction drops the index roots and the schema version with the old meta page, and keeps soft-deleted nodes, which `compact.go:25` says it prunes.
- No plan ever seeks a secondary index (`planner.go:152`). A clause keyword may be given in quotes; duplicate arguments of `traverse` replace each other silently; comparison of a number with a text is not transitive.
- A link whose second half failed in a migration is not repaired by running it again.
- Incremental scans: a file deleted and restored as it was stays "deleted"; versions missed by a scan that broke off stay missing until a full one; imports are never removed. A full scan does not mark files that are gone. Retired decisions stay; two headings with one slug are one decision; annotations are skipped altogether if the repository's own directory is hidden or called build, dist, target or vendor; a line beyond the buffer ends a file.
- The watcher drops a change that arrives while a scan is pending (`watcher.go:106`) and does not watch new directories.
- Records refused by a closed or disabled collector are not counted as dropped (`collector.go:160-162`).
- Nothing in the program publishes to the event broker.

## 5. Proofs

| Module | Theorems | Assumptions |
|---|---|---|
| `Open_proofs` (of `Meta`) | `MetaTypeCorrect`, `NoCrashLosesMeta`, `ReadMetaFindsCurrent`, `OneMetaPerGeneration` | none; `CrashLoadsAckedMeta` and `GenerationNamesOneMeta` end with the first failed fsync |
| (of `Freelist`) | `NoPageUsedTwice`, `HandedOutPagesExist` | none; `OneUsePerPage` ends with the first kill, or with a `Close` whose meta page leads to a free page |
| (of `FileLock`) | `LockTypeCorrect`, `HolderLocksItsInode`, `LockDiesWithHolder` | none |
| `Wal_proofs` | `ReplayFollowsTheLog`, `AcknowledgedIsReplayed`, `RemovalLeavesTheNewest` | none; the last two properties end with the first failed write or fsync |
| `Kdb_proofs` | `AcknowledgedIsDurable`, `ViewsReadTheAcknowledged` | none; about a file that holds one tree, keys with no record in front of a torn one, and Views that are not stranded; until the first failed fsync |
| | `CrashIsExact`, `KdbImplementsKVStore` | no `Open` uses group commit (`TRUE \notin GroupCommit`), no I/O errors (`~IOMayFail`); until a crash over a file that mixes two trees |
| `BufPool_proofs` | `RingIsThePool`, `NoChangeIsLost`, `PinnedFramesStay`, `PinFindsVictim`; `PoolShrinksSlowly` (of `DynPool`) | none |
| `Compaction_proofs` | `CompactionKeepsPairs` | none; an `Update` after a failed copy ends it |
| `EventStore_proofs` | `ReverseIndexIsExact`, `PointersReachTheFirst`, `ReadsAtATimeAreExact` | none; `AsOfIsHighest` is about chains whose times ascend |
| `Collector_proofs` | `CallsStayWhole` | none |
| (of `Graph`) | `WalksStayExact` | none; reads at a time are exact where times do not run backwards |
| `Program_proofs` (of `Backfill`) | `BackfillCompletes` | none |
| (of `FTS`) | `SearchesStayExact` | `~MergeWhileActive`: a merge runs when every document is committed |
| (of `Migrate`) | `MigrationsAreWhole` | none; `VersionMeansMigrated` is about databases nobody has ALTERed |
| (of `Scanner`) | `ScansRecord`, `HistoryStays` | none; the first is about scans during which nothing changes |
| (of `EventKeys`) | `ChainsStayApart`, `LinkScansHold` | none |

"None" means none beyond the `ASSUME` of the module, which says what kind of
value each constant is and is evaluated by TLC on every run: the theorems hold
for any number of processes, swaps, segments, records, batches, keys, pages,
frames, readers, ids, transactions and crashes. Together they carry the chain
that section 2 describes: `Meta` and `Wal` are proved to do atomically and durably
what `Kdb` takes as one step, the pool to change no page, and `Kdb` on top of
them to lose nothing that was acknowledged wherever no split or merge is half in
the file and no torn record stands in the log. It does lose it where one is, as
`tree_crash` shows for the first.

**FileLock.** The inductive invariant says that a process that has a file open
has an inode, that a lock's holder is the process holding the database through
that inode, and that a holder is alone in its lock. It implies both
properties directly; mutual exclusion does not follow, because the path may have
moved on.

**Meta.** `CrashLoadsAckedMeta` speaks of every file a crash may leave now. To be
inductive it needs the parts the invariant is made of: a clean slot is durable
(`CleanIsDurable`); a dirty slot is the one being written (`DirtySlot`); the
acknowledged `Meta` is in a clean slot (`AckHeld`), and no valid page lies
between it and the newest (`NothingBetween`); the running process holds the
active slot's content (`MemIsActive`); a swap's target is the other slot and its
generation the next one (`Swapping`); creation writes A then B (`Creating`); and
generations and serials are bounded by their counters (`Counters`). After a
failed fsync `DirtySlot` is false, as `MCMetaFsync.cfg` shows; so the invariant
is `MetaInv`, `TypeOK /\ (~syncFailed => MetaHolds)`, and a lemma says that `syncFailed` never
goes back to FALSE. Failing writes are included.

`ReadMetaNotBehind` holds after failed fsyncs too and has an invariant of its own,
`RInv`: some readable slot is not behind `db.meta` (`Opened`), and a running swap
leaves that slot alone (`SwapKeepsOther`) - which is why a swap that fails
half-way costs nothing. `GenerationNamesOneMeta` needs both invariants and three
more parts: no two valid pages, read or durable, share a generation without
being the same (`NoTie`); no durable page is ahead of what can be read
(`DiskBehind`), so that the generation a swap takes is new (`NewAhead`); and the
two slots of a new file are given one page (`Created`).

**Wal.** The invariant `WalInv` has two halves. `WalShape` ties the fields of `WAL`
to the directory: the active segment is the newest, `segments` lists the files in
ascending order, nothing claims to be synced that is not there. `WalOrder` says
that the entries of all files, read in the order of the files, have ascending ids
not above `written`, and until something has failed ascending LSNs below the next
one. Replay is a recursive function over segment numbers, so a chain of lemmas
first shows that it has the value its equations give (below), and then what it
returns: every entry of every file that stands before the file's first torn one,
earlier files first. `LogInOrder` follows. The durability theorems need
`WalSafety`: only the newest file has entries that are not synced
(`TailUnsynced`), which is what the fsync in `Rotate` is for; and until something
fails torn entries stand at the end of the newest file of a closed log
(`TornAtTheEnd`), every acknowledged record is synced and can be read
(`KeptAreSynced`, `KeptAreHeld`, `InflightAreHeld`), and while segments are
removed those whose records are gone are older than all that are left
(`RemovedAreOldest`). The repair of a torn tail, the migration of the single file
and crashes between any two deletions are each a lemma.

**Kdb.** Without group commit and I/O errors the invariant `IInv` is that replaying
the log over the data file, as it is and as a power loss leaves it, gives the tree
in memory, together with the places where it must hold in a stronger form: a page
that is not dirty is equal in memory and file; one that is synced is equal in
file and disk; and where `pc` or `closing` are about to cut the log, nothing is
dirty or unsynced. A few lemmas say what replay does to one more record, to the
empty log and page by page. The refinement theorem maps `kv` to the replayed disk,
`tx` to what `pc` says of the transaction, `moving` to a mixed file and `lost` to
the end of the model. `Put` and `Delete` are steps of `KVStore`, taken while a
transaction runs; commits, rollbacks, checkpoints, `Close`, crashes and recoveries
leave the map as it is (`OthersKeepRecovered`, `CrashKeepsRecovered`), so a crash that
took back a key, or one that made a write of no transaction appear, would be no
step of it. What a crash over a mixed file leaves is left open.

With group commit and failing I/O memory, file, disk and log may all differ. What
is left is `GInv`, `Alive \/ Ended`. While the model goes on, each of them holds for
every key the last acknowledged value or one written since, and so does the last
word of the log about it unless the log is torn (`DataGood`, `LogGood`,
`BatchPending`). To acknowledge a transaction is to forget the older
values, so the invariant must say why none of them is left: the log, with the
batch that is still to be appended, tells the value in memory of every key the
transaction wrote, unless it is torn (`Written`), and when the meta is swapped all
of it is in file and disk (`SwapIsFlushed`, `PagesAgree`). The second is why a key
that has no record in a torn log is safe. `ViewNotStale` needs that the file and the
memory, which may be written to it at any moment, hold nothing that was already
old when a view started (`ViewsGood`), and that during recovery no view runs and
the log is not torn (`NotOpen`). `Ended` is closed under every step.

**BufPool.** `NoLostUpdate` and `RingMatchesFrames` are not inductive alone. The
invariant adds that a page that was changed and is not yet marked is pinned
(`ChangedIsPinned`), so that no eviction can meet it; that the ring has no
repetition; that the hand is 0 when the ring is empty; and the type of a frame.
The lemmas are about removing an entry of a sequence by moving the last one into
its place, as `removeClock` does, and about the eviction scan: the entry it stops
at, the least one that is unpinned with its bit clear, is in the ring
and its bits before it are cleared. `PinFindsRoom` is arithmetic: a frame that
nobody has pinned is met twice within twice the length of the ring from wherever the hand
stands, the second time with its bit cleared.

**DynPool.** The capacity stays in its bounds, and the counter of high samples is
the number of those since the last resize or low sample.

**Freelist.** The invariant says of an open database that the leaf in memory, the
reserve, the owned pages, the root and the pages `Grow` has yet to free are
disjoint and inside the file, and that the pages the meta page leads to (`named`)
do not include the freelist's root; of the file that what is in it is bounded by
its size even after a kill; and, unless the file is `parted`, that what a restart
will read is disjoint as well. A `Close` whose meta page is behind takes pages from
`owned` and `named`; the freelist's leaf holds none of the former, and if it holds
one of the latter the file is parted.

**Compaction.** What an `Open` will find is the data file with the log replayed over
it; the invariant takes the two apart. A value is good for a key if it is the
acknowledged one or one that a rolled-back transaction wrote since; the data file
holds good values, and so does memory while the process lives, and the last word
of every segment about a key is good (`GoodLog`), so that it does not matter which
segments a stopped compaction has left. The copy is followed through its
stages (`CopyIsGood`): the replay of the shared log gives it values of the live log
or none; while pairs are copied every key has a good value or its pair is still to
come, and each pair to come is what memory holds; from the flush on its
file is good, so the rename may replace the data file. Lemmas say what one more
record does to the last word of a log, that `collectAllPairs` finds the pair of
every key, and what a replay can give. Once an `Update` came
after a failed copy (`overtaken`) old segments may be replayed over it, and only the
types are left.

**EventStore.** The invariant is that every record of a chain names the version before
it and that each reverse key names a version that is there. The walks are
recursive functions: `PointersReachTheFirst` gives the result of the walk from
version `v` as a term and shows that the function satisfies its definition at
every step; `ReadsAtATimeAreExact` takes the least version after the time asked for.
The module also has what the writers above the store need: what one `Append` adds
to a store (`AppendIs`), and that a store only grows by it, so that a record that
has been placed stays placed (`AppendGrows`, `GrowsOn`).

**Collector.** A call may be in a handler, in the channel, in the batch, half of it
in the store, or given up. The invariant says that what is on the way is what was
noted and that a call is noted once (`Known`, `Sending`, `NotedOnce`), so that the
store is not asked twice for one call; and that the loop returns only when nothing
is left (`NothingLeft`). The step that matters is the flush: one transaction that
writes records, each of which writes several events, and may stop at any of them.
`PutsDone` is a fold of folds; lemmas show for both that without a stop every event has
its place afterwards, with one the batch is among the lost, and that
events placed before stay where they are, in memory and in the file.

**Graph.** A search is a recursive function over rounds, and a round one over the
neighbours of an item, so the argument is an invariant of its states. `Explored` says that
a visited pair of a node and a side is in the ball of the depth limit, that the result
holds each visited node once, and that the cap is said to be exceeded exactly when it
is. As long as nothing is cut, `Waiting` says that the items of the queue stand in
order of their depth, which is their distance from the start (`Nearest`), and
that a visited pair waits, lies at the depth limit or has all its neighbours visited
(`Served`). By induction over the distance, every node nearer than all that waits is
then visited (`ClosedIs`). That is used twice: when an item is expanded, so that a new
node is at its least distance - a node that was first met at too great a depth would be
cut off from what lies behind it - and at the end, when nothing waits and all nodes in
the ball are visited. Each round takes one item, and an item stands for one pair, so that
twice the number of nodes are rounds enough (`RunIs`). The two sides of a link agree
(`SidesOfALink`) because its reverse key names the newest version, by the invariant of
`EventStore`, and because with a time both sides look for the same version.

**Backfill.** Other writers work between the View that reads a chunk and the
transaction that writes it. The invariant divides the keys into those the job has
passed, those in hand and the rest: a key that was passed has its field, or a later
writer took it over (`FieldsDone`); in the second phase it is indexed, and one in
hand is indexed by whoever wrote it since or is still as the View saw it
(`IndexDone`). That the cursor passes no key over is a lemma about the chunk: it holds
the least keys above the cursor, in order.

**FTS.** A search reads the segments first and the active one afterwards, under a lock
of its own each time, while the writer moves documents from one to the other. The
invariant says that a document is in one place, and in two only between the halves of
a commit (`OnePlace`), that segments hold the texts that were added
(`SegmentsHoldTexts`), that none is lost and that a deleted one that is still there
has its tombstone (`AllKept`); and of each search that it has found all that were
committed when it began and not deleted since (`ReadersOK`). `OnePlace` is what fails when a
merge finds documents in the active segment: it forgets their tombstones, hence the
hypothesis.

**Migrate.** A migration collects records in one transaction and translates them in
batches, each in one of its own; a process may die anywhere and a link be half
written. The invariant says that what was collected is done or still to do
(`Collects`), that the engine has all lower versions behind it (`EngineOK`), and what each
version means for memory and for the file (`VersionOK`). A batch that fails keeps its
first writes with the version of the last commit, so the argument also needs that
the file's version is never ahead of the one in memory (`FileBehind`). A fold over the batch, again as
a function that satisfies its equations, shows that each of its records is in the store
when the batch is done, and that a record that was there is not written twice.

**Scanner.** What a finished scan has recorded was read in one step, written in another,
and depends on what earlier scans left behind. `ScanPlace` holds whatever changes
meanwhile: while a scan reads, its batch names each file once and only files it has met
(`HasRead`); while it writes versions, the files whose newest version is not yet the
content of their node are those of the batch that are still to come (`WritesBatch`,
`VersionsFollow`), unless an earlier scan broke off just there (`incomplete`).
`ScanRight` is about scans that saw no change, and has a part for each stage: a file
that was met is in the batch as it is, or its node was current (`ReadRight`); then, for
each stage that is passed, head and nodes (`NodesRight`), versions, imports, and the
decisions of each source (`KeptIn`), so that a stage need only keep those before it.
`HistoryStays` follows from the types: `appendEntityVersion` and `writeDecision` look
before they write. The lemmas say what a concatenation of sequences holds, that a batch
with a file at most once leaves each node as its entry says, that consecutive runs of
entries append one version each, and that a run of writes that is made in full leaves
every decision recorded and anchored (`WriteAll` is again a recursive function). That a
link never comes without its decision is shown for each of the four sources from its
writes: for docs it takes all sections before the links of the modules. Of what
extraction and splitting make of a file's lines the proof needs only that it is one
sequence for one content (`SectionsAreListed`).

**EventKeys.** Every scan of the store is over a byte prefix, so the theorems are about
prefixes of joined sequences. No escape of a character is the beginning of another one's
(`EscapesApart`), and an escaped id holds no colon, so a prefix that ends with one tells
ids apart (`UpToColon`, `EscapedUpToColon`). The id of a link is escaped part by part
and then once more as a whole; since the escape of a joined text is the escapes of its
parts (`EscapesJoin`), the twice escaped source up to its escaped colon tells sources
apart the same way. `FlatRuns` gives the places of a flattened sequence, by which
`EscapeID` is defined. Of the ids only that they are sequences is assumed
(`EventKeysAssumption`).

**Recursive functions and induction.** The library's induction theorems take an operator as a
parameter, which the installed provers cannot instantiate. Where the proofs need
induction over numbers (`LeastOf`, `LeastNat`, `LeastPage`, `AllReached`) they use its
set form: a set of naturals that is not empty has a least element (`WFMin`), applied
to the set of counterexamples. That a recursive function on an interval has the value its
definition gives is shown in the same way: a function that satisfies the
definition up to `n` extends to `n + 1`, and there is no least `n` without one. For
folds this is stated once, for a step given as a function (`FoldExists`).

### Only model-checked

- `BTree`, `TreeCrash` and `Query`: they use `RECURSIVE` operators, which the prover
  does not accept. `TreeServesMap` and `TreeKeepsShape` are checked on six trees.
- `Text`, and of `EventKeys` that a key is read back and that versions ascend
  (`KeysRoundTrip`, `VersionsAscend`): what a fold over a sequence or a power of ten
  computes for every input needs induction over data. The runs compare them with
  reference definitions over all small inputs.
- `PackageIsBest` and `PackageIsCurrent` (`Retrieval`): a package is made of walks,
  which are proved about, and of sorting and of folds over the candidates, which
  are not.
- `SessionsMatchStore` (`Collector`): sessions are rebuilt by folds over sets of
  records in the order of their times.
- Liveness (`PoolReachesItsEnd`, `QueueDrains`): out of the prover's reach.

## 6. What is left

Modelled: everything in the table of section 2; proved: everything in the table of
section 5. What could be proved next is that `Assemble` packs the best of its
candidates (`PackageIsBest`), on top of `WalksStayExact`.

### Not modelled

- The linked-list freelist of older databases and its conversion: no database
  this version creates has one.
- The file lock on windows: the file cannot be removed while it is open, so there
  is nothing to interleave.
- Page layout and byte codecs of kdb: `BTree` keeps their space arithmetic, `Meta`
  and `Wal` what a checksum tells apart.
- A replay that runs out of pages: it needs allocation, tree and recovery in one
  module, beyond TLC's reach with trees that split.
- The source analysers: stateless extraction by patterns and parsers.
- Federation: goroutines that share nothing but a slice with a slot for each.
- The MCP handlers and the broker: formatting around the packages above, and a
  broker nothing publishes to.
- Commands, configuration, rendering and logging: no protocol of their own.
