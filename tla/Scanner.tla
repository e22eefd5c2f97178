------------------------------ MODULE Scanner ------------------------------
(***************************************************************************)
(* Scans of a repository: internal/analysis/scanner.go, started by a       *)
(* command or by the watcher (watcher.go).  A scan reads files and git one *)
(* after the other while they change, and writes what it found in several  *)
(* transactions.  A transaction that fails, or whose process dies, leaves  *)
(* its first writes (see Kdb); the rest of the scan does not happen.  The  *)
(* content of a file stands for its hash; a commit's number for its name.  *)
(***************************************************************************)
EXTENDS Decisions

CONSTANTS Repositories,   \* what the files may be before the first scan
          Edits,          \* bound: the <<path, content>> an edit may make
          Renames,        \* bound: the <<path, path>> a commit may rename
          Skipped,        \* paths collectFiles leaves out
          Unwatched,      \* paths in directories the watcher was not given
          ImportsOf,      \* content -> what its imports name
          EntityBatch, RelationBatch,
          MaxWalk,        \* how many commits DetectRenames goes back
          MaxChanges,     \* bound: changes of the files and commits
          MaxScans        \* bound: scans

Contents == DOMAIN LinesOf

ScannerAssumption ==
  /\ Repositories \subseteq [Paths -> Contents \cup {NoFile}]
  /\ Edits \subseteq Paths \X (Contents \cup {NoFile}) /\ Renames \subseteq Paths \X Paths
  /\ \A c \in Contents : IsFiniteSet(ImportsOf[c])
  /\ EntityBatch \in Nat \ {0} /\ RelationBatch \in Nat \ {0}
ASSUME ScannerAssumption

Unscanned == [hash |-> NoFile, status |-> "none"]

VARIABLES
  files,       \* the repository: path -> content or NoFile
  commits,     \* its commits: [renames, marked]
  nodes,       \* kn: path -> [hash, status]
  lastCommit,  \* meta:last_scan_commit, 0 when there is none
  entities,    \* e: path -> hashes, oldest version first
  imports,     \* rel: and l: <<path, target>>
  renames,     \* el: <<commit, from, to>>
  log,         \* d: and its l: see Decisions
  scan,        \* the running scan
  armed,       \* the watcher's timer runs
  watching,    \* does pcke watch run; commands are locked out then
  changes, scans,
  incomplete   \* ghost: some scan recorded nodes and may have missed their versions

repoVars == <<files, commits>>
kbVars == <<nodes, lastCommit, entities, imports, renames, log>>
scanVars == <<repoVars, kbVars, scan, armed, watching, changes, scans, incomplete>>

\* Ghosts: quiet, nothing has changed since the scan began; gone, the nodes it
\* found deleted.
NoScan == [pc |-> "idle", full |-> FALSE, deep |-> FALSE, head |-> 0, seen |-> {}, todo |-> {},
           existing |-> [p \in Paths |-> Unscanned], batch |-> <<>>, at |-> 0, quiet |-> TRUE, gone |-> {}]

\* Before the first scan, or after it.
NeverScanned ==
  /\ nodes = [p \in Paths |-> Unscanned] /\ lastCommit = 0
  /\ entities = [p \in Paths |-> <<>>] /\ log = NothingDecided
Scanned ==
  LET there == {p \in Paths \ Skipped : files[p] # NoFile}
  IN /\ nodes = [p \in Paths |-> IF p \in there THEN [hash |-> files[p], status |-> "active"] ELSE Unscanned]
     /\ entities = [p \in Paths |-> IF p \in there THEN <<files[p]>> ELSE <<>>]
     /\ lastCommit = 1
     /\ log = WriteAll(NothingDecided, ADRWrites(files) \o AnnotationWrites(files) \o
                                       DocWrites(files, there) \o CommitWrites(commits))

ScanInit ==
  /\ files \in Repositories /\ commits = <<[renames |-> {}, marked |-> FALSE]>>
  /\ NeverScanned \/ Scanned
  /\ imports = {} /\ renames = {}
  /\ scan = NoScan /\ armed = FALSE /\ watching \in BOOLEAN
  /\ changes = 0 /\ scans = 0 /\ incomplete = FALSE

-----------------------------------------------------------------------------
(* The repository *)

\* What fsnotify reports restarts the timer.
Notify(changed) == armed' = (armed \/ (watching /\ changed \ Unwatched # {}))

Changed == changes < MaxChanges /\ changes' = changes + 1 /\ scan' = [scan EXCEPT !.quiet = FALSE]

Edit(p, c) ==
  /\ Changed /\ files[p] # c
  /\ files' = [files EXCEPT ![p] = c]
  /\ Notify({p})
  /\ UNCHANGED <<commits, kbVars, watching, scans, incomplete>>

\* A commit whose subject starts with decision:, adr: or rfc:.
CommitDecision ==
  /\ Changed
  /\ commits' = Append(commits, [renames |-> {}, marked |-> TRUE])
  /\ UNCHANGED <<files, kbVars, armed, watching, scans, incomplete>>

CommitRename(p, q) ==
  /\ Changed /\ files[p] # NoFile /\ files[q] = NoFile
  /\ files' = [files EXCEPT ![p] = NoFile, ![q] = files[p]]
  /\ commits' = Append(commits, [renames |-> {<<p, q>>}, marked |-> FALSE])
  /\ Notify({p, q})
  /\ UNCHANGED <<kbVars, watching, scans, incomplete>>

-----------------------------------------------------------------------------
(* Reading *)

\* Scan: HeadHash comes first.
Begin(full, deep) ==
  /\ scans < MaxScans /\ scans' = scans + 1
  /\ scan' = [NoScan EXCEPT !.pc = "collect", !.full = full, !.deep = deep, !.head = Len(commits)]

\* pcke scan.
StartScan(full, deep) ==
  /\ ~watching /\ scan.pc = "idle" /\ Begin(full, deep)
  /\ UNCHANGED <<repoVars, kbVars, armed, watching, changes, incomplete>>

\* triggerScan: the timer has fired; beside a running scan it does nothing.
TriggerScan ==
  /\ armed /\ armed' = FALSE
  /\ IF scan.pc = "idle" THEN Begin(FALSE, FALSE) ELSE UNCHANGED <<scan, scans>>
  /\ UNCHANGED <<repoVars, kbVars, watching, changes, incomplete>>

\* collectAndGrow and loadExistingNodes.
CollectFiles ==
  LET present == {p \in Paths \ Skipped : files[p] # NoFile}
  IN /\ scan.pc = "collect"
     /\ scan' = [scan EXCEPT !.pc = "hash", !.seen = present, !.todo = present,
                             !.existing = IF scan.full THEN @ ELSE nodes,
                             !.gone = IF scan.full THEN {} ELSE {p \in present : nodes[p].status = "deleted"}]
     /\ UNCHANGED <<repoVars, kbVars, armed, watching, changes, scans, incomplete>>

Node(p, hash, status) == [path |-> p, hash |-> hash, status |-> status, imports |-> {}]

\* processFiles, one file in the order of the walk: a file that cannot be read
\* or has not changed is left out.
isNext(p) ==
  /\ p \in scan.todo
  /\ \E i \in DOMAIN PathOrder : PathOrder[i] = p /\ \A j \in 1..(i - 1) : PathOrder[j] \notin scan.todo
unchanged(p) == ~scan.full /\ scan.existing[p].hash = files[p]
HashFile(p) ==
  /\ scan.pc = "hash" /\ isNext(p)
  /\ scan' = IF files[p] = NoFile \/ unchanged(p) THEN [scan EXCEPT !.todo = @ \ {p}]
             ELSE [scan EXCEPT !.todo = @ \ {p}, !.batch = Append(@, Node(p, files[p], "active")),
                               !.pc = IF scan.deep THEN "parse" ELSE "hash"]
  /\ UNCHANGED <<repoVars, kbVars, armed, watching, changes, scans, incomplete>>

\* deepAnalyse reads the file again.
ParseFile ==
  /\ scan.pc = "parse"
  /\ scan' = LET p == Last(scan.batch).path
             IN [scan EXCEPT !.pc = "hash", !.batch[Len(scan.batch)].imports =
                                IF files[p] = NoFile THEN {} ELSE ImportsOf[files[p]]]
  /\ UNCHANGED <<repoVars, kbVars, armed, watching, changes, scans, incomplete>>

\* Seeded fault: every known file that was not analysed counts as gone.
markAllUnread(s) ==
  LET gone == {p \in Paths : s.existing[p].status = "active" /\ \A i \in DOMAIN s.batch : s.batch[i].path # p}
  IN SetToSeq({Node(p, s.existing[p].hash, "deleted") : p \in gone})
\* markDeleted: the nodes of files that are gone.
markDeleted(s) ==
  LET gone == {p \in Paths \ s.seen : s.existing[p].status = "active"}
  IN SetToSeq({Node(p, s.existing[p].hash, "deleted") : p \in gone})

\* A scan that fails, or dies, before it has written anything.
GiveUp ==
  /\ scan.pc \in {"collect", "hash", "parse"} /\ scan' = NoScan
  /\ UNCHANGED <<repoVars, kbVars, armed, watching, changes, scans, incomplete>>

-----------------------------------------------------------------------------
(* Writing: each step is one transaction, of which the first k writes are   *)
(* made; it succeeds when all are.                                          *)

Fails == scan' = NoScan /\ incomplete' = (incomplete \/ scan.pc \in {"hash", "entities"})
Goes(pc) ==
  /\ scan' = [scan EXCEPT !.pc = pc, !.at = 0, !.batch = IF pc = "relations" THEN @ ELSE <<>>]
  /\ UNCHANGED incomplete
BatchRange(size, n) == scan.at + 1 .. IF scan.at + size < n THEN scan.at + size ELSE n
Wrote(size, n, done, pc) ==
  IF ~done THEN Fails
  ELSE IF scan.at + size >= n THEN Goes(pc)
  ELSE scan' = [scan EXCEPT !.at = @ + size] /\ UNCHANGED incomplete

\* How a transaction of n writes ends: done, or after the first k of them.
Endings(n) == {[k |-> k, done |-> FALSE] : k \in 0..n} \cup {[k |-> n, done |-> TRUE]}

\* Each file's node becomes the last one written for it.
WriteNodes(ns, batch) ==
  [p \in Paths |->
     LET at == {i \in DOMAIN batch : batch[i].path = p}
         n == batch[CHOOSE i \in at : \A j \in at : j <= i]
     IN IF at = {} THEN ns[p] ELSE [hash |-> n.hash, status |-> n.status]]

\* persistAll: the nodes, then the head.
PersistAll ==
  LET batch == scan.batch \o markDeleted(scan)
  IN /\ scan.pc = "hash" /\ scan.todo = {}
     /\ \E end \in Endings(Len(batch)) :
          /\ nodes' = WriteNodes(nodes, SubSeq(batch, 1, end.k))
          /\ lastCommit' = IF end.done THEN scan.head ELSE lastCommit
          /\ IF end.done
             THEN /\ scan' = [scan EXCEPT !.pc = "entities", !.batch = batch, !.existing = NoScan.existing]
                  /\ UNCHANGED incomplete
             ELSE Fails
     /\ UNCHANGED <<repoVars, entities, imports, renames, log, armed, watching, changes, scans>>

\* Seeded fault: a version for every node of the batch.
appendAnyVersion(es, n) == [es EXCEPT ![n.path] = Append(@, n.hash)]
\* appendEntityVersion: a version for a new content.
appendEntityVersion(es, n) ==
  IF es[n.path] # <<>> /\ Last(es[n.path]) = n.hash THEN es ELSE [es EXCEPT ![n.path] = Append(@, n.hash)]

AppendVersions(es, batch) ==
  LET after[n \in 0..Len(batch)] == IF n = 0 THEN es ELSE appendEntityVersion(after[n - 1], batch[n])
  IN after[Len(batch)]

\* persistEntityEvents: its next batch.
PersistEntities ==
  /\ scan.pc = "entities"
  /\ \E end \in Endings(Cardinality(BatchRange(EntityBatch, Len(scan.batch)))) :
       /\ entities' = AppendVersions(entities, SubSeq(scan.batch, scan.at + 1, scan.at + end.k))
       /\ Wrote(EntityBatch, Len(scan.batch), end.done, IF scan.deep THEN "relations" ELSE "renames")
  /\ UNCHANGED <<repoVars, nodes, lastCommit, imports, renames, log, armed, watching, changes, scans>>

\* persistRelations: its next batch; a link that is there stays as it is.
RelationsOf(batch) ==
  FlattenSeq([i \in DOMAIN batch |-> SetToSeq({<<batch[i].path, t>> : t \in batch[i].imports})])
PersistRelations ==
  LET rels == RelationsOf(scan.batch)
  IN /\ scan.pc = "relations"
     /\ \E end \in Endings(Cardinality(BatchRange(RelationBatch, Len(rels)))) :
          /\ imports' = imports \cup {rels[i] : i \in scan.at + 1 .. scan.at + end.k}
          /\ Wrote(RelationBatch, Len(rels), end.done, "renames")
     /\ UNCHANGED <<repoVars, nodes, lastCommit, entities, renames, log, armed, watching, changes, scans>>

\* DetectRenames: back from the head to the commit since, which 0 stands for none of.
DetectRenames(since) ==
  UNION {{<<i, r[1], r[2]>> : r \in commits[i].renames} :
           i \in {j \in DOMAIN commits : j > since /\ j > Len(commits) - MaxWalk}}

\* persistRenames; getLastCommit reads what persistAll has written.
PersistRenames ==
  /\ scan.pc = "renames"
  /\ \/ renames' = renames \cup DetectRenames(lastCommit) /\ Goes("adrs")
     \/ \E some \in SUBSET DetectRenames(lastCommit) : renames' = renames \cup some /\ Fails
  /\ UNCHANGED <<repoVars, nodes, lastCommit, entities, imports, log, armed, watching, changes, scans>>

\* BackfillAll: the four sources in turn; a failure ends it and not the scan.
Sources == [adrs |-> "annotations", annotations |-> "docs", docs |-> "commits", commits |-> "done"]
Harvest ==
  CASE scan.pc = "adrs"        -> ADRWrites(files)
    [] scan.pc = "annotations" -> AnnotationWrites(files)
    [] scan.pc = "docs"        -> DocWrites(files, scan.seen)
    [] scan.pc = "commits"     -> CommitWrites(commits)

BackfillSource ==
  /\ scan.pc \in DOMAIN Sources
  /\ LET writes == Harvest
     IN \E end \in Endings(Len(writes)) :
          /\ log' = WriteAll(log, SubSeq(writes, 1, end.k))
          /\ IF end.done THEN Goes(Sources[scan.pc]) ELSE Fails
  /\ UNCHANGED <<repoVars, nodes, lastCommit, entities, imports, renames, armed, watching, changes, scans>>

FinishScan ==
  /\ scan.pc = "done" /\ scan' = NoScan
  /\ UNCHANGED <<repoVars, kbVars, armed, watching, changes, scans, incomplete>>

ScanNext ==
  \/ \E e \in Edits : Edit(e[1], e[2])
  \/ \E r \in Renames : CommitRename(r[1], r[2])
  \/ CommitDecision
  \/ \E full, deep \in BOOLEAN : StartScan(full, deep)
  \/ \E p \in Paths : HashFile(p)
  \/ TriggerScan \/ CollectFiles \/ ParseFile \/ GiveUp \/ PersistAll \/ PersistEntities
  \/ PersistRelations \/ PersistRenames \/ BackfillSource \/ FinishScan

ScanSpec == ScanInit /\ [][ScanNext]_scanVars

-----------------------------------------------------------------------------
Recorded(writes) ==
  \A i \in DOMAIN writes :
     IF "body" \in DOMAIN writes[i] THEN writes[i].did \in DOMAIN log.decided
     ELSE writes[i] \in log.anchors /\ writes[i].did \in DOMAIN log.decided

\* A scan that ran to its end while nothing changed has recorded the repository.
\* Nodes carry the contents of their files and are active (a file that came back
\* as it was stays deleted until a full scan); those of files that are gone are
\* not active (a full scan does not look for them); the newest version of an
\* entity is the content (unless an earlier scan broke off and this one saw no
\* change); the imports of a full deep scan are there; every decision that the
\* tree and the last commits hold is recorded and anchored.
ScanRecordsRepository ==
  scan.pc = "done" /\ scan.quiet =>
    /\ lastCommit = Len(commits)
    /\ \A p \in scan.seen : nodes[p].hash = files[p] /\ (p \notin scan.gone => nodes[p].status = "active")
    /\ scan.full \/ \A p \in Paths : nodes[p].status = "active" => files[p] # NoFile
    /\ scan.full \/ ~incomplete => \A p \in scan.seen : entities[p] # <<>> /\ Last(entities[p]) = files[p]
    /\ scan.full /\ scan.deep => \A p \in scan.seen : {p} \X ImportsOf[files[p]] \subseteq imports
    /\ Recorded(ADRWrites(files) \o AnnotationWrites(files) \o DocWrites(files, scan.seen) \o CommitWrites(commits))

\* What is recorded stays, whichever scans break off: a file gets a new version
\* only for a content other than that of its newest, however often it is
\* scanned, and the text of a decision and its anchors never change.
HistoryGrows ==
  /\ \A p \in Paths : entities'[p] # entities[p] =>
       \E c \in Contents : /\ entities'[p] = Append(entities[p], c)
                           /\ entities[p] = <<>> \/ Last(entities[p]) # c
  /\ \A did \in DOMAIN log.decided : did \in DOMAIN log'.decided /\ log'.decided[did] = log.decided[did]
  /\ log.anchors \subseteq log'.anchors
HistoryOnlyGrows == [][HistoryGrows]_scanVars

\* A rename that was committed is in the history after the next scan
\* (docs/query-language.md: file-rename history is regenerated by the next scan).
RenamesAreRecorded ==
  scan.pc = "done" => DetectRenames(0) \subseteq renames \/ ~scan.quiet
=============================================================================
