------------------------------ MODULE Freelist ------------------------------
(***************************************************************************)
(* Page allocation of kdb: the B+tree freelist with its in-memory reserve  *)
(* (internal/kdb/freelist/btree_freelist.go), how Open seeds and reopens   *)
(* it, and Grow (internal/kdb/db.go).                                      *)
(*                                                                         *)
(* The freelist's own tree is a single leaf: it splits only beyond 338     *)
(* free pages (4062 bytes of 12-byte cells), far above MaxPages.  The main *)
(* tree and the indexes are one client, known by the pages it owns.  The   *)
(* file finds them under the roots that the meta page names, and only a    *)
(* commit or a checkpoint writes one: moved says that memory has other     *)
(* roots.  Any page may reach the file before a flush, by eviction; Kill   *)
(* ends the process and keeps the file as it is.                           *)
(***************************************************************************)
EXTENDS Integers, Sequences, FiniteSets, FiniteSetsExt

CONSTANTS
  Chunk,           \* GrowthChunk, 16 in the code
  ReserveTarget,   \* reserveTarget, 4
  ReservePages,    \* reservePageCount, 8
  MaxPages,        \* bound on the size of the file
  MayKill,         \* the process may be killed
  MaxRestarts,     \* bound on how often an existing database is opened
  MaxOwned,        \* bound on the pages the client holds
  SyncMayFail      \* the fsync of grow may return an error

ASSUME FreelistAssumption ==
  /\ ReserveTarget \in Nat \ {0} /\ ReservePages \in Nat /\ ReservePages > ReserveTarget
  /\ Chunk \in Nat /\ Chunk > ReservePages + 2
  /\ MaxPages \in Nat /\ MaxOwned \in Nat /\ MaxRestarts \in Nat
  /\ MayKill \in BOOLEAN /\ SyncMayFail \in BOOLEAN

\* seedNewDB: the first Put takes the last reserve page as the root leaf.
Root == ReservePages + 1

VARIABLES
  dbState,     \* "new", "seeded" (meta published, nothing flushed), "open", "down"
  leaf,        \* keys of the root leaf: the free pages
  leafOK,      \* the root page holds a leaf node
  reserve,     \* fl.reserve
  owned,       \* pages handed to the main tree and the indexes
  named,       \* the pages under the roots of db.meta when it was written
  moved,       \* a root in memory is not the one that db.meta names
  pageCount,   \* db.meta.PageCount
  growing,     \* next page Grow has to free, 0 when no Grow is running
  growFailed,  \* some Grow returned the error of the freelist
  filePages,   \* size of the data file in pages
  fileLeaf, fileLeafOK, fileOwned,   \* what the data file holds of them
  restarts,    \* how often an existing database was opened
  parted       \* ghost: the process was killed while the database was open, or
               \* Close left a file whose freelist has a page of a tree

memory == <<leaf, leafOK, reserve, owned, named, moved, pageCount, growing, growFailed>>
file == <<filePages, fileLeaf, fileLeafOK, fileOwned>>
freelistVars == <<dbState, memory, file, restarts, parted>>

Reserve == {reserve[i] : i \in DOMAIN reserve}

FreelistInit == /\ dbState = "new"
                /\ leaf = {} /\ leafOK = FALSE /\ reserve = <<>> /\ owned = {}
                /\ named = {} /\ moved = FALSE
                /\ pageCount = Chunk /\ growing = 0 /\ growFailed = FALSE
                /\ filePages = Chunk
                /\ fileLeaf = {} /\ fileLeafOK = FALSE /\ fileOwned = {}
                /\ restarts = 0 /\ parted = FALSE

\* Open of a new database: pages 2.. fill the reserve, the others are freed into
\* the tree, and persistMigration publishes its root in the meta page.
seedNewDB ==
  /\ dbState = "new" /\ dbState' = "seeded"
  /\ reserve' = [i \in 1..(ReservePages - 1) |-> i + 1]
  /\ leaf' = (ReservePages + 2)..(Chunk - 1)
  /\ leafOK' = TRUE
  /\ UNCHANGED <<owned, named, moved, pageCount, growing, growFailed, file, restarts, parted>>

\* postReplayCommit: FlushDirty, then a meta page with the size of the file.
postReplayCommit ==
  /\ dbState = "seeded" /\ dbState' = "open"
  /\ fileLeaf' = leaf /\ fileLeafOK' = leafOK /\ fileOwned' = owned
  /\ pageCount' = filePages
  /\ UNCHANGED <<leaf, leafOK, reserve, owned, named, moved, growing, growFailed, filePages, restarts, parted>>

\* Open of an existing database: setupFreelist with an empty reserve, then
\* postReplayCommit.
Open ==
  /\ dbState = "down" /\ dbState' = "open"
  /\ leaf' = fileLeaf /\ leafOK' = fileLeafOK /\ owned' = fileOwned
  /\ named' = fileOwned /\ moved' = FALSE /\ reserve' = <<>>
  /\ pageCount' = filePages
  /\ growing' = 0
  /\ restarts' = restarts + 1
  /\ UNCHANGED <<growFailed, file, parted>>

\* Alloc: the smallest key of the tree, else the last page of the reserve.  The page
\* may be the new root of a tree that is split or was empty.
AllocTree ==
  /\ dbState = "open" /\ leafOK /\ leaf # {} /\ Cardinality(owned) < MaxOwned
  /\ leaf' = leaf \ {Min(leaf)}
  /\ owned' = owned \cup {Min(leaf)}
  /\ moved' \in {moved, TRUE}
  /\ UNCHANGED <<dbState, leafOK, reserve, named, pageCount, growing, growFailed, file, restarts, parted>>

AllocReserve ==
  /\ dbState = "open" /\ ~(leafOK /\ leaf # {}) /\ reserve # <<>>
  /\ Cardinality(owned) < MaxOwned
  /\ owned' = owned \cup {reserve[Len(reserve)]}
  /\ moved' \in {moved, TRUE}
  /\ reserve' = SubSeq(reserve, 1, Len(reserve) - 1)
  /\ UNCHANGED <<dbState, leaf, leafOK, named, pageCount, growing, growFailed, file, restarts, parted>>

\* Seeded fault: a page given to the reserve also becomes a key.
FreePageTwice(p) ==
  /\ reserve' = IF Len(reserve) < ReserveTarget THEN Append(reserve, p) ELSE reserve
  /\ leaf' = IF leafOK THEN leaf \cup {p} ELSE leaf

\* Free: a reserve below its target takes the page, else it becomes a key.
\* Put into a root page that is not a leaf returns an error.
FreePage(p) ==
  LET low == Len(reserve) < ReserveTarget
  IN /\ reserve' = IF low THEN Append(reserve, p) ELSE reserve
     /\ leaf' = IF ~low /\ leafOK THEN leaf \cup {p} ELSE leaf

\* A merge, a dropped overflow chain or the collapse of a root gives a page back.
Free(p) ==
  /\ dbState = "open" /\ p \in owned
  /\ FreePage(p)
  /\ moved' \in {moved, TRUE}
  /\ owned' = owned \ {p}
  /\ UNCHANGED <<dbState, leafOK, named, pageCount, growing, growFailed, file, restarts, parted>>

\* Seeded fault: the new pages are counted from the new end of the file.
GrowFromNewSize ==
  /\ dbState = "open" /\ growing = 0 /\ filePages + Chunk <= MaxPages
  /\ filePages' = filePages + Chunk
  /\ growing' = filePages'
  /\ pageCount' = pageCount + Chunk
  /\ UNCHANGED <<dbState, leaf, leafOK, reserve, owned, named, moved, growFailed, fileLeaf, fileLeafOK, fileOwned, restarts, parted>>

\* Grow, under db.mu: the file is extended and synced, the count is raised and
\* the new pages are freed one by one.  Update runs meanwhile: it takes db.mu
\* only in commitMeta.
Grow ==
  /\ dbState = "open" /\ growing = 0 /\ filePages + Chunk <= MaxPages
  /\ filePages' = filePages + Chunk
  /\ growing' = pageCount
  /\ pageCount' = pageCount + Chunk
  /\ UNCHANGED <<dbState, leaf, leafOK, reserve, owned, named, moved, growFailed, fileLeaf, fileLeafOK, fileOwned, restarts, parted>>

\* The fsync fails: the file is longer, the count is not.
GrowSyncFails ==
  /\ SyncMayFail
  /\ dbState = "open" /\ growing = 0 /\ filePages + Chunk <= MaxPages
  /\ filePages' = filePages + Chunk
  /\ UNCHANGED <<dbState, memory, fileLeaf, fileLeafOK, fileOwned, restarts, parted>>

GrowFree ==
  LET error == Len(reserve) >= ReserveTarget /\ ~leafOK
  IN /\ dbState = "open" /\ growing # 0
     /\ FreePage(growing)
     /\ growing' = IF error \/ growing + 1 = pageCount THEN 0 ELSE growing + 1
     /\ growFailed' = (growFailed \/ error)
     /\ UNCHANGED <<dbState, leafOK, owned, named, moved, pageCount, file, restarts, parted>>

\* The pool writes the freelist leaf, or pages of the main tree: FlushDirty
\* visits the frames in map order, and eviction may write either at any time.
\* Only a kill shows it, and only if the database is opened again.
WriteLeaf ==
  /\ MayKill /\ restarts < MaxRestarts
  /\ dbState \in {"seeded", "open"}
  /\ fileLeaf' = leaf /\ fileLeafOK' = leafOK
  /\ UNCHANGED <<dbState, memory, filePages, fileOwned, restarts, parted>>

WriteMain ==
  /\ MayKill /\ restarts < MaxRestarts
  /\ dbState = "open"
  /\ fileOwned' = owned
  /\ UNCHANGED <<dbState, memory, filePages, fileLeaf, fileLeafOK, restarts, parted>>

\* Takes db.mu: the new meta page carries the size of the file and every root.
commitMeta ==
  /\ dbState = "open" /\ growing = 0
  /\ pageCount' = filePages /\ named' = owned /\ moved' = FALSE
  /\ UNCHANGED <<dbState, leaf, leafOK, reserve, owned, growing, growFailed, file, restarts, parted>>

LoseMemory == /\ leaf' = {} /\ leafOK' = FALSE /\ reserve' = <<>> /\ owned' = {}
              /\ named' = {} /\ moved' = FALSE /\ pageCount' = 0 /\ growing' = 0
              /\ UNCHANGED growFailed

\* Close flushes the pool and writes no meta page: the trees of the file are those
\* under its roots.  If these have moved, that is a part of the trees in memory and
\* perhaps an old root that was given back.  The reserve exists only in memory.
CloseDB ==
  /\ restarts < MaxRestarts
  /\ dbState = "open" /\ growing = 0 /\ dbState' = "down"
  /\ fileLeaf' = leaf /\ fileLeafOK' = leafOK
  /\ \E kept \in SUBSET owned, stale \in SUBSET (named \ owned) :
       /\ ~moved => kept = owned /\ stale = {}
       /\ fileOwned' = kept \cup stale
       /\ parted' = (parted \/ stale \cap leaf # {})
  /\ LoseMemory
  /\ UNCHANGED <<filePages, restarts>>

KillDB ==
  /\ MayKill /\ restarts < MaxRestarts
  /\ dbState \in {"seeded", "open"} /\ dbState' = "down"
  /\ LoseMemory
  /\ parted' = TRUE
  /\ UNCHANGED <<file, restarts>>

FreelistNext == \/ seedNewDB \/ postReplayCommit \/ Open
                \/ AllocTree \/ AllocReserve \/ \E p \in owned : Free(p)
                \/ Grow \/ GrowSyncFails \/ GrowFree
                \/ WriteLeaf \/ WriteMain \/ commitMeta \/ CloseDB \/ KillDB

FreelistSpec == FreelistInit /\ [][FreelistNext]_freelistVars

-----------------------------------------------------------------------------
PageIDs == 0..(MaxPages - 1)

\* Every variable holds a value of its kind, and pages name pages of the file.
FreelistTypeOK == /\ dbState \in {"new", "seeded", "open", "down"}
                  /\ leaf \subseteq PageIDs /\ owned \subseteq PageIDs
                  /\ named \subseteq PageIDs /\ moved \in BOOLEAN
                  /\ leafOK \in BOOLEAN /\ growFailed \in BOOLEAN
                  /\ reserve \in Seq(PageIDs)
                  /\ pageCount \in Nat /\ filePages \in Nat /\ growing \in PageIDs
                  /\ fileLeaf \subseteq PageIDs /\ fileOwned \subseteq PageIDs
                  /\ fileLeafOK \in BOOLEAN /\ restarts \in 0..MaxRestarts /\ parted \in BOOLEAN

\* No page has two uses: a page in the main tree, a free page of the tree, a
\* page of the reserve, the root of the freelist and a page Grow has yet to free
\* are all different, and the reserve holds no page twice.  Two uses of one page
\* overwrite each other.  Any number of clean restarts is included, also of a Close
\* after an Update that failed and left the meta page behind the trees.  Where that
\* Update gave back a root that the meta page names (collapseRoot), and after a
\* kill, the file may have a page both in a tree and in the freelist.
OneUsePerPage ==
  dbState = "open" /\ ~parted =>
    LET pending == IF growing = 0 THEN {} ELSE growing..(pageCount - 1)
        use == <<leaf, Reserve, owned, {Root}, pending>>
    IN /\ \A i, j \in DOMAIN use : i # j => use[i] \cap use[j] = {}
       /\ Cardinality(Reserve) = Len(reserve)

\* Every page the freelist may hand out lies inside the file and behind the two
\* meta pages, also when a kill lost the count that Grow had raised.
FreePagesExist ==
  dbState = "open" => leaf \cup Reserve \cup owned \subseteq 2..(pageCount - 1)

\* README: a crash-safe store: the same with kills.
OneUseAfterKill ==
  dbState = "open" =>
    /\ \A p \in owned : p \notin leaf \cup Reserve \cup {Root}
    /\ leaf \cap Reserve = {}

\* The freelist does not lose pages: each page of the file is free, in use or
\* about to be freed.
NoPageLost ==
  (dbState = "open" /\ growing = 0) =>
    2..(pageCount - 1) \subseteq leaf \cup Reserve \cup owned \cup {Root}

\* Grow makes its pages available: it is never refused by the freelist.
GrowSucceeds == ~growFailed
=============================================================================
