-------------------------------- MODULE Meta --------------------------------
(***************************************************************************)
(* The double meta page of data.kdb (internal/kdb/meta.go): pages 0 and 1  *)
(* each hold a checksummed Meta with a generation.  Every swap writes the  *)
(* inactive slot and fsyncs; every open takes the highest generation that  *)
(* verifies.  The file is modelled at the grain at which a crash can bite: *)
(* page writes go to the OS cache, an fsync makes them durable, a crash    *)
(* leaves an unsynced page old, new or torn.                               *)
(***************************************************************************)
EXTENDS Integers

CONSTANTS
  MaxGen,       \* bound: no swap is started at this generation
  MaxSwaps,     \* bound: number of swaps attempted
  IOFailures    \* the calls that may return an error: WriteAt, Sync

ASSUME MetaAssumption == /\ MaxGen \in Nat
                         /\ MaxSwaps \in Nat
                         /\ IOFailures \subseteq {"write", "sync"}

VARIABLES
  size,     \* 0: the data file is empty, 1: it holds its first growth chunk
  disk,     \* slot -> page that survives a crash
  cache,    \* slot -> page that ReadAt returns
  dirty,    \* slots written since the last fsync
  mem,      \* db.meta
  new,      \* the Meta being written by writeMetaPage
  target,   \* the slot it is written to
  stage,    \* which caller of writeMetaPage is running
  pc,       \* where the process is
  serial,   \* number of swaps attempted: the content (root) of each is fresh
  acked,    \* last Meta whose initMeta or swapMeta returned nil
  syncFailed  \* ghost: an fsync of the data file has returned an error

vars == <<size, disk, cache, dirty, mem, new, target, stage, pc, serial, acked, syncFailed>>

Slots == {0, 1}
metaSlotA == 0
metaSlotB == 1

\* A decoded Meta: its generation, and root standing for all other fields.
MetaPage == [gen : Nat, root : Nat]

\* A page that page.Verify rejects: zero-filled, or torn.
Garbage == [gen |-> 0, root |-> 0]

Valid(p) == p.gen # 0

Loadable(f) == \E s \in Slots : Valid(f[s])

\* The slot that loadMeta returns: the highest valid generation, A on a tie.
ActiveSlot(f) == IF f[metaSlotB].gen > f[metaSlotA].gen THEN metaSlotB ELSE metaSlotA

loadMeta(f) == f[ActiveSlot(f)]

\* Seeded fault: the next slot, without the wrap-around.
TargetSlotUnwrapped(f) == ActiveSlot(f) + 1

\* Seeded fault: the newest slot is overwritten.
TargetSlotNewest(f) == ActiveSlot(f)

\* The slot that swapMeta overwrites: an invalid one, else the older one.
TargetSlot(f) == CASE ~Valid(f[metaSlotA])                       -> metaSlotA
                   [] Valid(f[metaSlotA]) /\ ~Valid(f[metaSlotB]) -> metaSlotB
                   [] OTHER -> IF f[metaSlotB].gen <= f[metaSlotA].gen
                                 THEN metaSlotB ELSE metaSlotA

-----------------------------------------------------------------------------
Init == /\ size = 0
        /\ disk = [s \in Slots |-> Garbage]
        /\ cache = disk
        /\ dirty = {}
        /\ mem = Garbage
        /\ new = Garbage
        /\ target = metaSlotA
        /\ stage = "swap"
        /\ pc = "closed"
        /\ serial = 0
        /\ acked = Garbage
        /\ syncFailed = FALSE

\* Open of an empty file: Truncate and Sync, then initMeta starts on slot A.
initIfEmpty == /\ pc = "closed" /\ size = 0
               /\ size' = 1
               /\ new' = [gen |-> 1, root |-> 0]
               /\ target' = metaSlotA
               /\ stage' = "initA"
               /\ pc' = "write"
               /\ UNCHANGED <<disk, cache, dirty, mem, serial, acked, syncFailed>>

\* wireSubsystems: loadMeta of a non-empty file.
Load == /\ pc = "closed" /\ size = 1
        /\ Loadable(cache)
        /\ mem' = loadMeta(cache)
        /\ pc' = "ready"
        /\ UNCHANGED <<size, disk, cache, dirty, new, target, stage, serial, acked, syncFailed>>

\* Open returns "no valid meta page found".
LoadRefused == /\ pc = "closed" /\ size = 1
               /\ ~Loadable(cache)
               /\ pc' = "refused"
               /\ UNCHANGED <<size, disk, cache, dirty, mem, new, target, stage, serial, acked, syncFailed>>

\* What an fsync of the data file makes of its two first pages.
Synced == [s \in Slots |-> IF s \in dirty THEN cache[s] ELSE disk[s]]

\* Pool.FlushDirty, which Update, Checkpoint and postReplayCommit call before
\* they swap: it fsyncs the file even when no page is dirty.
FlushDirty == /\ pc = "ready" /\ mem.gen > 1
              /\ disk' = Synced
              /\ dirty' = {}
              /\ pc' = "flushed"
              /\ UNCHANGED <<size, cache, mem, new, target, stage, serial, acked, syncFailed>>

\* persistMigration, on a database fresh from initMeta, swaps without it.
MaySwap == pc = "flushed" \/ (pc = "ready" /\ mem.gen = 1)

\* Seeded fault: the generation is not bumped.
swapMetaSameGeneration ==
  /\ MaySwap
  /\ mem.gen < MaxGen /\ serial < MaxSwaps
  /\ serial' = serial + 1
  /\ new' = [gen |-> mem.gen, root |-> serial + 1]
  /\ target' = TargetSlot(cache)
  /\ stage' = "swap"
  /\ pc' = "write"
  /\ UNCHANGED <<size, disk, cache, dirty, mem, acked, syncFailed>>

\* Seeded fault: db.meta is replaced before the page is written.
swapMetaMemoryFirst ==
  /\ MaySwap
  /\ mem.gen < MaxGen /\ serial < MaxSwaps
  /\ serial' = serial + 1
  /\ new' = [gen |-> mem.gen + 1, root |-> serial + 1]
  /\ mem' = new'
  /\ target' = TargetSlot(cache)
  /\ stage' = "swap"
  /\ pc' = "write"
  /\ UNCHANGED <<size, disk, cache, dirty, acked, syncFailed>>

\* commitMeta, postReplayCommit and persistMigration: bump the generation in
\* memory and choose the slot.
swapMeta == /\ MaySwap
            /\ mem.gen < MaxGen /\ serial < MaxSwaps
            /\ serial' = serial + 1
            /\ new' = [gen |-> mem.gen + 1, root |-> serial + 1]
            /\ target' = TargetSlot(cache)
            /\ stage' = "swap"
            /\ pc' = "write"
            /\ UNCHANGED <<size, disk, cache, dirty, mem, acked, syncFailed>>

\* writeMetaPage, WriteAt.
WriteSlot == /\ pc = "write"
             /\ cache' = [cache EXCEPT ![target] = new]
             /\ dirty' = dirty \cup {target}
             /\ pc' = "sync"
             /\ UNCHANGED <<size, disk, mem, new, target, stage, serial, acked, syncFailed>>

\* writeMetaPage, Sync; then initMeta goes on to slot B, or the caller is done.
SyncSlot == /\ pc = "sync"
            /\ disk' = Synced
            /\ dirty' = {}
            /\ IF stage = "initA"
                 THEN /\ stage' = "initB" /\ target' = metaSlotB /\ pc' = "write"
                      /\ UNCHANGED <<mem, acked>>
                 ELSE /\ pc' = IF stage = "swap" THEN "ready" ELSE "closed"
                      /\ mem' = IF stage = "swap" THEN new ELSE mem
                      /\ acked' = new
                      /\ UNCHANGED <<stage, target>>
            /\ UNCHANGED <<size, cache, new, serial, syncFailed>>

\* The slots as a crash or a failed fsync may leave them.
CrashImages == {f \in [Slots -> {disk[s] : s \in Slots} \cup {cache[s] : s \in Slots} \cup {Garbage}] :
                  \A s \in Slots : f[s] \in IF s \in dirty THEN {disk[s], cache[s], Garbage}
                                                           ELSE {disk[s]}}

\* Where the error of writeMetaPage leaves the process: Open gives up, an open
\* database returns the error and goes on with the old db.meta.
AfterError == IF stage = "swap" /\ mem.gen > 1 THEN "ready" ELSE "closed"

\* WriteAt returns an error: nothing or part of the page was written.
WriteFails == /\ "write" \in IOFailures /\ pc = "write"
              /\ \E p \in {cache[target], Garbage} : cache' = [cache EXCEPT ![target] = p]
              /\ dirty' = dirty \cup {target}
              /\ pc' = AfterError
              /\ UNCHANGED <<size, disk, mem, new, target, stage, serial, acked, syncFailed>>

\* Sync returns an error (in writeMetaPage or FlushDirty): the page stays
\* readable, what is durable is unknown, and the OS does not try it again.
SyncFails == /\ "sync" \in IOFailures /\ (pc = "sync" \/ (pc = "ready" /\ mem.gen > 1))
             /\ disk' \in CrashImages
             /\ dirty' = {}
             /\ syncFailed' = TRUE
             /\ pc' = IF pc = "sync" THEN AfterError ELSE "ready"
             /\ UNCHANGED <<size, cache, mem, new, target, stage, serial, acked>>

\* DB.Close: the data file is synced once more.
Close == /\ pc = "ready" /\ mem.gen > 1
         /\ disk' = Synced
         /\ dirty' = {}
         /\ pc' = "closed"
         /\ UNCHANGED <<size, cache, mem, new, target, stage, serial, acked, syncFailed>>

\* The machine goes down: memory is lost, unsynced pages are old, new or torn.
Crash == /\ pc # "closed" \/ dirty # {}
         /\ disk' \in CrashImages
         /\ cache' = disk'
         /\ dirty' = {}
         /\ pc' = "closed"
         /\ UNCHANGED <<size, mem, new, target, stage, serial, acked, syncFailed>>

\* The process dies and the machine does not: the OS keeps the written pages.
Kill == /\ pc # "closed"
        /\ pc' = "closed"
        /\ UNCHANGED <<size, disk, cache, dirty, mem, new, target, stage, serial, acked, syncFailed>>

Next == \/ initIfEmpty \/ Load \/ LoadRefused \/ FlushDirty \/ swapMeta
        \/ WriteSlot \/ SyncSlot \/ WriteFails \/ SyncFails
        \/ Close \/ Crash \/ Kill

Spec == Init /\ [][Next]_vars

-----------------------------------------------------------------------------
\* Every variable holds a value of its kind.
TypeOK == /\ size \in {0, 1}
          /\ disk \in [Slots -> MetaPage]
          /\ cache \in [Slots -> MetaPage]
          /\ dirty \subseteq Slots
          /\ mem \in MetaPage
          /\ new \in MetaPage
          /\ target \in Slots
          /\ stage \in {"initA", "initB", "swap"}
          /\ pc \in {"closed", "ready", "flushed", "write", "sync", "refused"}
          /\ serial \in Nat
          /\ acked \in MetaPage
          /\ syncFailed \in BOOLEAN

\* Once a Meta has been acknowledged, a crash at any moment leaves a file that
\* Open accepts, and the Meta it loads is that one, or one whose swap started
\* later: no crash brings back an older commit.  Writes may have failed, but no
\* fsync: after that the OS no longer knows what is durable.
CrashLoadsAckedMeta ==
  ~syncFailed /\ Valid(acked) =>
    \A f \in CrashImages :
       /\ Loadable(f)
       /\ \/ loadMeta(f) = acked
          \/ loadMeta(f).gen > acked.gen /\ loadMeta(f).root > acked.root

\* Two valid slots of one generation hold the same Meta, so loadMeta's rule for
\* a tie never decides which commit is seen (as long as no fsync failed).
GenerationNamesOneMeta ==
  ~syncFailed /\ Valid(cache[metaSlotA]) /\ cache[metaSlotA].gen = cache[metaSlotB].gen
    => cache[metaSlotA] = cache[metaSlotB]

\* While the database is open, ReadMeta finds a valid page whose generation is
\* not behind db.meta, whatever writes and fsyncs have failed before: a failed
\* swap never costs the running process its meta.
ReadMetaNotBehind == pc = "ready" => Loadable(cache) /\ loadMeta(cache).gen >= mem.gen

\* meta.go: "After a successful swap, the newly written meta has the highest
\* generation and will be selected on the next loadMeta call."
SwapIsSelected == pc = "ready" /\ new = mem => loadMeta(cache) = mem

\* README: a crash-safe store.  A crash at any moment, the creation of the file
\* included, leaves a file that Open accepts.
OpenNeverRefused == pc # "refused"
=============================================================================
