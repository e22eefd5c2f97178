----------------------------- MODULE Open_proofs ----------------------------
(***************************************************************************)
(* Proofs about what opening a database sets up: the lock of the           *)
(* directory, the double meta page and the freelist.                       *)
(***************************************************************************)
EXTENDS FileLock, Meta, Freelist, FiniteSetTheorems, TLAPS

-----------------------------------------------------------------------------
(***************************************************************************)
(* The file lock.  For any processes and inodes: a process that has the    *)
(* database open is the only holder of the lock of its inode, and no lock  *)
(* outlives it.                                                            *)
(***************************************************************************)

\* A process past OpenFile has an inode open.
OpenHasInode == \A p \in Proc : lockPc[p] # "out" => fd[p] \in Inode

\* The inductive invariant.  NoStaleLock makes HoldersLockTheirInode inductive:
\* what another process drops is never the lock of this one.
LockInv == LockTypeOK /\ OpenHasInode /\ HoldersLockTheirInode /\ NoStaleLock

\* The initial state satisfies the invariant: nobody holds anything.
LEMMA InitLockInv == LockInit => LockInv
BY DEF LockInit, LockInv, LockTypeOK, OpenHasInode, HoldersLockTheirInode, NoStaleLock

\* Every step of Acquire and Unlock, and every death, preserves the invariant.
LEMMA NextLockInv == LockInv /\ [LockNext]_lockVars => LockInv'
<1> SUFFICES ASSUME LockInv, [LockNext]_lockVars PROVE LockInv'
  OBVIOUS
<1> USE FileLockAssumption DEF LockInv, LockTypeOK, OpenHasInode, HoldersLockTheirInode, NoStaleLock
<1>1. ASSUME NEW p \in Proc, OpenFile(p) PROVE LockInv'
  <2>1. path' \in Inode
    BY <1>1 DEF OpenFile, Unused
  <2> QED
    BY <1>1, <2>1 DEF OpenFile, Goto
<1>2. ASSUME NEW p \in Proc, TryLock(p) PROVE LockInv'
  <2>1. fd[p] \in Inode /\ flock[fd[p]] = {} /\ lockPc[p] = "opened"
    BY <1>2 DEF TryLock, Goto
  <2> QED
    BY <1>2, <2>1 DEF TryLock, Goto
<1>3. ASSUME NEW p \in Proc, TryLockFails(p) PROVE LockInv'
  BY <1>3 DEF TryLockFails, Goto
<1>4. ASSUME NEW p \in Proc, Unlock(p) PROVE LockInv'
  BY <1>4 DEF Unlock, Drop, Goto
<1>5. ASSUME NEW p \in Proc, RemoveFile(p) PROVE LockInv'
  BY <1>5 DEF RemoveFile, Goto
<1>6. ASSUME NEW p \in Proc, Die(p) PROVE LockInv'
  BY <1>6 DEF Die, Drop
<1>7. CASE UNCHANGED lockVars
  BY <1>7 DEF lockVars
<1> QED
  BY <1>1, <1>2, <1>3, <1>4, <1>5, <1>6, <1>7 DEF LockNext

\* The invariant holds in every reachable state.
THEOREM LockInvariant == LockSpec => []LockInv
BY InitLockInv, NextLockInv, PTL DEF LockSpec

\* Every variable of the lock keeps its type.
THEOREM LockTypeCorrect == LockSpec => []LockTypeOK
BY LockInvariant, PTL DEF LockInv

\* A process that has the database open is the only one to hold the lock of the
\* inode it opened, for any number of processes.
THEOREM HolderLocksItsInode == LockSpec => []HoldersLockTheirInode
BY LockInvariant, PTL DEF LockInv

\* A lock never outlives the process that took it.
THEOREM LockDiesWithHolder == LockSpec => []NoStaleLock
BY LockInvariant, PTL DEF LockInv

-----------------------------------------------------------------------------
(***************************************************************************)
(* The meta pages.  For any bounds: their types; that a failed swap or     *)
(* fsync never costs an open database its meta; and, as long as no fsync   *)
(* fails, that no crash loses an acknowledged meta page and that a         *)
(* generation names one Meta.                                              *)
(***************************************************************************)

\* A rejected page is a page too, and the active slot holds one.
LEMMA PageTypes ==
  /\ Garbage \in MetaPage
  /\ \A f \in [Slots -> MetaPage] : /\ ActiveSlot(f) \in Slots /\ TargetSlot(f) \in Slots
                                    /\ loadMeta(f) \in MetaPage
BY DEF Garbage, MetaPage, Slots, ActiveSlot, TargetSlot, loadMeta, metaSlotA, metaSlotB

\* What a crash may leave: two pages, each of them one of the pages of its slot.
LEMMA ImageOfSlot ==
  ASSUME TypeOK, NEW f \in CrashImages
  PROVE  /\ f \in [Slots -> MetaPage]
         /\ \A s \in Slots : /\ f[s] \in {disk[s], cache[s], Garbage}
                             /\ s \notin dirty => f[s] = disk[s]
<1>1. f \in [Slots -> {disk[s] : s \in Slots} \cup {cache[s] : s \in Slots} \cup {Garbage}]
  BY DEF CrashImages
<1>2. \A s \in Slots : f[s] \in IF s \in dirty THEN {disk[s], cache[s], Garbage} ELSE {disk[s]}
  BY DEF CrashImages
<1>3. \A s \in Slots : disk[s] \in MetaPage /\ cache[s] \in MetaPage
  BY DEF TypeOK
<1>4. \A s \in Slots : f[s] \in MetaPage
  BY <1>2, <1>3, PageTypes
<1> QED
  BY <1>1, <1>2, <1>4

\* An fsync leaves two pages.
LEMMA SyncedType == TypeOK => Synced \in [Slots -> MetaPage]
BY DEF TypeOK, Synced

\* The file is empty at first.
LEMMA InitTypeOK == Init => TypeOK
<1> SUFFICES ASSUME Init PROVE TypeOK
  OBVIOUS
<1>1. syncFailed \in BOOLEAN
  BY Zenon DEF Init
<1> QED
  BY <1>1, PageTypes DEF Init, TypeOK, Slots, metaSlotA

\* Every step, failures included, keeps the types.
LEMMA NextTypeOK == TypeOK /\ [Next]_vars => TypeOK'
<1> SUFFICES ASSUME TypeOK, [Next]_vars PROVE TypeOK'
  OBVIOUS
<1> USE MetaAssumption
<1>1. CASE initIfEmpty
  BY <1>1 DEF initIfEmpty, TypeOK, MetaPage, Slots, metaSlotA
<1>2. CASE Load
  BY <1>2, PageTypes DEF Load, TypeOK
<1>3. CASE LoadRefused
  BY <1>3 DEF LoadRefused, TypeOK
<1>4. CASE FlushDirty
  BY <1>4, SyncedType DEF FlushDirty, TypeOK
<1>5. CASE swapMeta
  <2>1. new' \in MetaPage /\ serial' \in Nat
    BY <1>5 DEF swapMeta, TypeOK, MetaPage
  <2> QED
    BY <1>5, <2>1, PageTypes DEF swapMeta, TypeOK
<1>6. CASE WriteSlot
  BY <1>6 DEF WriteSlot, TypeOK
<1>7. CASE SyncSlot
  BY <1>7, SyncedType DEF SyncSlot, TypeOK, Slots, metaSlotB
<1>8. CASE WriteFails
  BY <1>8, PageTypes DEF WriteFails, TypeOK, AfterError
<1>9. CASE SyncFails
  BY <1>9, ImageOfSlot DEF SyncFails, TypeOK, AfterError
<1>10. CASE Close
  BY <1>10, SyncedType DEF Close, TypeOK
<1>11. CASE Crash
  BY <1>11, ImageOfSlot DEF Crash, TypeOK
<1>12. CASE Kill
  BY <1>12 DEF Kill, TypeOK
<1>13. CASE UNCHANGED vars
  BY <1>13 DEF vars, TypeOK
<1> QED
  BY <1>1, <1>2, <1>3, <1>4, <1>5, <1>6, <1>7, <1>8, <1>9, <1>10, <1>11, <1>12, <1>13 DEF Next

\* Every variable of the meta pages keeps its type, whatever fails.
THEOREM MetaTypeCorrect == Spec => []TypeOK
BY InitTypeOK, NextTypeOK, PTL DEF Spec

-----------------------------------------------------------------------------
(* The inductive invariant of an fsync that does not fail                  *)

Other(s) == 1 - s

\* Page p is the acknowledged Meta, or one whose swap started later.
AtLeast(p) == p = acked \/ (p.gen > acked.gen /\ p.root > acked.root)

CleanIsDurable == \A s \in Slots : s \notin dirty => cache[s] = disk[s]

\* One of the slots is safe from a crash and holds the acknowledged Meta or more.
AckHeld == Valid(acked) => \E s \in Slots : s \notin dirty /\ AtLeast(disk[s])

\* No page that a crash may bring back wins over the acknowledged Meta unless it
\* is later.
NothingBetween ==
  Valid(acked) => \A s \in Slots : \A p \in {disk[s], cache[s]} : p.gen < acked.gen \/ AtLeast(p)

\* An unsynced slot is the newest one, or the one the next swap writes again.
DirtySlot ==
  Valid(acked) => \A t \in dirty : cache[t].gen > cache[Other(t)].gen \/ TargetSlot(cache) = t

MemIsActive == pc \in {"ready", "flushed"} \/ (pc = "write" /\ stage = "swap")
                 => Loadable(cache) /\ mem = loadMeta(cache)

\* A swap in progress goes to the slot that does not hold the acknowledged Meta.
Swapping ==
  pc \in {"write", "sync"} /\ stage = "swap" =>
    /\ new.gen > cache[Other(target)].gen
    /\ Valid(acked) => /\ new.gen > acked.gen /\ new.root > acked.root
                       /\ Other(target) \notin dirty /\ AtLeast(disk[Other(target)])
    /\ pc = "write" => target = TargetSlot(cache)
    /\ pc = "sync" => cache[target] = new

Creating ==
  pc \in {"write", "sync"} /\ stage \in {"initA", "initB"} =>
    /\ ~Valid(acked) /\ new = [gen |-> 1, root |-> 0]
    /\ stage = "initA" => target = metaSlotA
    /\ stage = "initB" => target = metaSlotB /\ cache[metaSlotA] = new
    /\ pc = "sync" => cache[target] = new

Counters == /\ size = 0 => ~Valid(acked) /\ pc = "closed"
            /\ acked.root <= serial /\ new.root <= serial
            /\ pc = "flushed" => dirty = {}

MetaInv == /\ TypeOK /\ CleanIsDurable /\ AckHeld /\ NothingBetween /\ DirtySlot
        /\ MemIsActive /\ Swapping /\ Creating /\ Counters

\* The slot a swap writes is never the one loadMeta returns.
LEMMA TargetIsNotActive ==
  ASSUME NEW f \in [Slots -> MetaPage], Loadable(f)
  PROVE  TargetSlot(f) = Other(ActiveSlot(f))
BY DEF TargetSlot, ActiveSlot, Other, Loadable, Valid, Slots, MetaPage, metaSlotA, metaSlotB

\* The invariant gives the property: the safe slot and NothingBetween leave
\* loadMeta no other choice.
LEMMA MetaInvLoadsAcked == MetaInv => CrashLoadsAckedMeta
<1> SUFFICES ASSUME MetaInv, Valid(acked), NEW f \in CrashImages
             PROVE  /\ Loadable(f)
                    /\ AtLeast(loadMeta(f))
  BY DEF CrashLoadsAckedMeta, AtLeast
<1>1. /\ f \in [Slots -> MetaPage]
      /\ \A s \in Slots : /\ f[s] \in {disk[s], cache[s], Garbage}
                          /\ s \notin dirty => f[s] = disk[s]
  BY ImageOfSlot DEF MetaInv
<1>2. acked \in MetaPage
  BY DEF MetaInv, TypeOK
<1>3. PICK s \in Slots : s \notin dirty /\ AtLeast(disk[s])
  BY DEF MetaInv, AckHeld
<1>4. AtLeast(f[s]) /\ f[s].gen >= acked.gen /\ acked.gen > 0
  BY <1>1, <1>2, <1>3 DEF AtLeast, Valid, MetaPage
<1>5. \A t \in Slots : f[t].gen < acked.gen \/ AtLeast(f[t])
  BY <1>1, <1>2 DEF MetaInv, NothingBetween, Garbage, Valid, MetaPage
<1>6. Loadable(f)
  BY <1>1, <1>2, <1>4 DEF Loadable, Valid, MetaPage
<1>7. loadMeta(f).gen >= f[s].gen
  BY <1>1 DEF loadMeta, ActiveSlot, Slots, MetaPage, metaSlotA, metaSlotB
<1>8. ActiveSlot(f) \in Slots /\ loadMeta(f) = f[ActiveSlot(f)] /\ loadMeta(f).gen \in Nat
  BY <1>1, PageTypes DEF loadMeta, MetaPage
<1>9. f[s].gen \in Nat /\ acked.gen \in Nat
  BY <1>1, <1>2 DEF MetaPage
<1>10. ~(loadMeta(f).gen < acked.gen)
  BY <1>4, <1>7, <1>8, <1>9
<1>11. AtLeast(loadMeta(f))
  BY <1>5, <1>8, <1>10
<1> QED
  BY <1>6, <1>11

\* An empty file: nothing has been acknowledged.
LEMMA InitMetaInv == Init => MetaInv
BY InitTypeOK DEF Init, MetaInv, CleanIsDurable, AckHeld, NothingBetween, DirtySlot, MemIsActive,
                  Swapping, Creating, Counters, Valid, Garbage

\* An fsync that succeeds makes every slot durable and keeps what is read.
LEMMA SyncedIsCache == ASSUME TypeOK, CleanIsDurable PROVE Synced = cache
BY DEF TypeOK, CleanIsDurable, Synced

\* A successful fsync outside a swap (FlushDirty, Close).
LEMMA FlushMetaInv ==
  ASSUME MetaInv, disk' = Synced, dirty' = {}, pc' \in {"flushed", "closed"}, pc = "ready",
         UNCHANGED <<size, cache, mem, new, target, stage, serial, acked, syncFailed>>
  PROVE  MetaInv'
<1>1. disk' = cache
  BY SyncedIsCache DEF MetaInv
<1>2. TypeOK'
  BY <1>1 DEF MetaInv, TypeOK
<1>3. AckHeld'
  BY <1>1 DEF MetaInv, AckHeld, CleanIsDurable, AtLeast, Valid
<1>4. NothingBetween'
  BY <1>1 DEF MetaInv, NothingBetween, AtLeast, Valid
<1>5. (CleanIsDurable /\ DirtySlot /\ MemIsActive)'
  BY <1>1 DEF MetaInv, CleanIsDurable, DirtySlot, MemIsActive
<1>6. (Swapping /\ Creating /\ Counters)'
  BY DEF MetaInv, Swapping, Creating, Counters
<1> QED
  BY <1>2, <1>3, <1>4, <1>5, <1>6 DEF MetaInv

\* The choice of the slot: with an acknowledged Meta, the other slot is the safe one.
LEMMA SwapMetaInv == ASSUME MetaInv, swapMeta PROVE MetaInv'
<1> USE MetaAssumption
<1>1. /\ pc \in {"flushed", "ready"} /\ (pc = "ready" => mem.gen = 1)
      /\ serial' = serial + 1
      /\ new' = [gen |-> mem.gen + 1, root |-> serial + 1]
      /\ target' = TargetSlot(cache)
      /\ stage' = "swap" /\ pc' = "write"
      /\ UNCHANGED <<size, disk, cache, dirty, mem, acked, syncFailed>>
  BY DEF swapMeta, MaySwap
<1>2. TypeOK'
  <2>1. swapMeta => [Next]_vars
    BY DEF Next
  <2> QED
    BY <2>1, NextTypeOK DEF MetaInv
<1>3. /\ cache \in [Slots -> MetaPage] /\ disk \in [Slots -> MetaPage]
      /\ mem \in MetaPage /\ acked \in MetaPage /\ serial \in Nat /\ dirty \subseteq Slots
  BY DEF MetaInv, TypeOK
<1>4. Loadable(cache) /\ mem = loadMeta(cache)
  BY <1>1 DEF MetaInv, MemIsActive
<1>5. target' = Other(ActiveSlot(cache))
  BY <1>1, <1>3, <1>4, TargetIsNotActive
<1>6. \A s \in Slots : mem.gen >= cache[s].gen
  BY <1>3, <1>4 DEF loadMeta, ActiveSlot, Slots, MetaPage, metaSlotA, metaSlotB
<1>7. Other(target') = ActiveSlot(cache) /\ ActiveSlot(cache) \in Slots
  BY <1>3, <1>5 DEF Other, ActiveSlot, Slots, metaSlotA, metaSlotB
<1>8. ASSUME Valid(acked)
      PROVE  /\ new'.gen > acked.gen /\ new'.root > acked.root
             /\ Other(target') \notin dirty /\ AtLeast(disk[Other(target')])
  <2>1. PICK s \in Slots : s \notin dirty /\ AtLeast(disk[s])
    BY <1>8 DEF MetaInv, AckHeld
  <2>2. cache[s] = disk[s] /\ cache[s].gen >= acked.gen /\ acked.gen > 0
    BY <1>3, <1>8, <2>1 DEF MetaInv, CleanIsDurable, AtLeast, Valid, MetaPage
  <2>3. mem.gen >= acked.gen
    BY <1>3, <1>6, <2>2 DEF MetaPage
  <2>4. new'.gen > acked.gen
    BY <1>1, <1>3, <2>3 DEF MetaPage
  <2>5. new'.root > acked.root
    BY <1>1, <1>3 DEF MetaInv, Counters, MetaPage
  <2>6. ActiveSlot(cache) \notin dirty
    <3>1. CASE pc = "flushed"
      BY <3>1 DEF MetaInv, Counters
    <3>2. CASE pc = "ready"
      <4>1. mem.gen = 1
        BY <1>1, <3>2
      <4>2. SUFFICES ASSUME ActiveSlot(cache) \in dirty PROVE FALSE
        OBVIOUS
      <4>3. s = Other(ActiveSlot(cache)) /\ s = target'
        BY <2>1, <1>5, <1>7, <4>2 DEF Other, Slots
      <4>4. cache[ActiveSlot(cache)].gen > cache[s].gen \/ TargetSlot(cache) = ActiveSlot(cache)
        BY <1>8, <4>2, <4>3 DEF MetaInv, DirtySlot
      <4>5. ActiveSlot(cache) # Other(ActiveSlot(cache))
        BY <1>7 DEF Other, Slots
      <4>6. cache[ActiveSlot(cache)].gen > cache[s].gen
        BY <1>1, <4>3, <4>4, <4>5
      <4>7. cache[ActiveSlot(cache)].gen = 1
        BY <4>1, <1>4 DEF loadMeta
      <4> QED
        BY <4>6, <4>7, <2>2, <1>3 DEF MetaPage
    <3> QED
      BY <1>1, <3>1, <3>2
  <2>7. AtLeast(disk[ActiveSlot(cache)])
    <3>1. cache[ActiveSlot(cache)].gen >= acked.gen
      BY <1>4, <2>3 DEF loadMeta
    <3>2. disk[ActiveSlot(cache)] = cache[ActiveSlot(cache)]
      BY <1>7, <2>6 DEF MetaInv, CleanIsDurable
    <3>3. disk[ActiveSlot(cache)].gen < acked.gen \/ AtLeast(disk[ActiveSlot(cache)])
      BY <1>7, <1>8 DEF MetaInv, NothingBetween
    <3> QED
      BY <3>1, <3>2, <3>3, <1>3, <1>7 DEF MetaPage
  <2> QED
    BY <2>4, <2>5, <2>6, <2>7, <1>7
<1>9. new'.gen > cache[Other(target')].gen
  BY <1>1, <1>3, <1>6, <1>7 DEF MetaPage
<1>10. Swapping'
  BY <1>1, <1>8, <1>9 DEF Swapping, AtLeast, Valid
<1>11. MemIsActive'
  BY <1>1, <1>4 DEF MemIsActive
<1>12. (CleanIsDurable /\ AckHeld /\ NothingBetween /\ DirtySlot)'
  BY <1>1 DEF MetaInv, CleanIsDurable, AckHeld, NothingBetween, DirtySlot, AtLeast, Valid
<1>13. (Creating /\ Counters)'
  BY <1>1, <1>3 DEF MetaInv, Creating, Counters, MetaPage
<1> QED
  BY <1>2, <1>10, <1>11, <1>12, <1>13 DEF MetaInv

\* The write of the page: a swap's goes beside the safe slot.
LEMMA WriteMetaInv == ASSUME MetaInv, WriteSlot PROVE MetaInv'
<1>1. TypeOK'
  <2>1. WriteSlot => [Next]_vars
    BY DEF Next
  <2> QED
    BY <2>1, NextTypeOK DEF MetaInv
<1>2. /\ pc = "write" /\ pc' = "sync"
      /\ cache' = [cache EXCEPT ![target] = new] /\ dirty' = dirty \cup {target}
      /\ UNCHANGED <<size, disk, mem, new, target, stage, serial, acked, syncFailed>>
  BY DEF WriteSlot
<1>3. /\ cache \in [Slots -> MetaPage] /\ target \in Slots /\ new \in MetaPage /\ acked \in MetaPage
      /\ dirty \subseteq Slots /\ stage \in {"initA", "initB", "swap"}
  BY DEF MetaInv, TypeOK
<1>4. \A s \in Slots : cache'[s] = IF s = target THEN new ELSE cache[s]
  BY <1>2, <1>3
<1>5. CleanIsDurable' /\ MemIsActive' /\ Counters'
  BY <1>2, <1>4 DEF MetaInv, CleanIsDurable, MemIsActive, Counters, Valid
<1>6. CASE stage = "swap"
  <2>1. /\ Other(target) \in Slots /\ Other(target) # target
        /\ \A s \in Slots : s # target => s = Other(target)
    BY <1>3 DEF Other, Slots
  <2>2. /\ new.gen > cache[Other(target)].gen
        /\ Valid(acked) => /\ AtLeast(new) /\ new.gen > acked.gen /\ new.root > acked.root
                           /\ Other(target) \notin dirty /\ AtLeast(disk[Other(target)])
    BY <1>2, <1>6 DEF MetaInv, Swapping, AtLeast
  <2>3. cache'[Other(target)] = cache[Other(target)] /\ cache'[target] = new
    BY <1>3, <1>4, <2>1
  <2>4. AckHeld'
    BY <1>2, <2>1, <2>2 DEF AckHeld, AtLeast, Valid
  <2>5. NothingBetween'
    BY <1>2, <1>4, <2>2 DEF MetaInv, NothingBetween, AtLeast, Valid
  <2>6. DirtySlot'
    <3> SUFFICES ASSUME Valid(acked), NEW t \in dirty' PROVE cache'[t].gen > cache'[Other(t)].gen
      BY <1>2 DEF DirtySlot, Valid
    <3>1. t = target
      BY <1>2, <1>3, <2>1, <2>2
    <3> QED
      BY <3>1, <2>2, <2>3
  <2>7. Swapping' /\ Creating'
    BY <1>2, <1>6, <2>1, <2>2, <2>3 DEF Swapping, Creating, AtLeast, Valid
  <2> QED
    BY <1>1, <1>5, <2>4, <2>5, <2>6, <2>7 DEF MetaInv
<1>7. CASE stage \in {"initA", "initB"}
  <2>1. /\ ~Valid(acked) /\ new = [gen |-> 1, root |-> 0]
        /\ stage = "initA" => target = metaSlotA
        /\ stage = "initB" => target = metaSlotB /\ cache[metaSlotA] = new
    BY <1>2, <1>7 DEF MetaInv, Creating
  <2>2. (AckHeld /\ NothingBetween /\ DirtySlot)'
    BY <1>2, <2>1 DEF AckHeld, NothingBetween, DirtySlot, Valid
  <2>3. Swapping' /\ Creating'
    BY <1>2, <1>3, <1>4, <1>7, <2>1 DEF Swapping, Creating, Valid, Slots, metaSlotA, metaSlotB
  <2> QED
    BY <1>1, <1>5, <2>2, <2>3 DEF MetaInv
<1> QED
  BY <1>3, <1>6, <1>7

\* The fsync of the page: the new Meta is durable, and only then acknowledged.
LEMMA SyncMetaInv == ASSUME MetaInv, SyncSlot PROVE MetaInv'
<1>1. TypeOK'
  <2>1. SyncSlot => [Next]_vars
    BY DEF Next
  <2> QED
    BY <2>1, NextTypeOK DEF MetaInv
<1>2. /\ pc = "sync" /\ disk' = cache /\ dirty' = {}
      /\ UNCHANGED <<size, cache, new, serial>>
  BY SyncedIsCache DEF SyncSlot, MetaInv
<1>3. /\ cache \in [Slots -> MetaPage] /\ target \in Slots /\ new \in MetaPage /\ acked \in MetaPage
      /\ stage \in {"initA", "initB", "swap"} /\ serial \in Nat
  BY DEF MetaInv, TypeOK
<1>4. size # 0
  BY <1>2 DEF MetaInv, Counters
<1>5. CleanIsDurable' /\ DirtySlot'
  BY <1>2 DEF CleanIsDurable, DirtySlot
<1>6. CASE stage = "swap"
  <2>1. pc' = "ready" /\ mem' = new /\ acked' = new /\ stage' = stage /\ target' = target
    BY <1>6 DEF SyncSlot
  <2>2. cache[target] = new /\ new.gen > cache[Other(target)].gen
    BY <1>2, <1>6 DEF MetaInv, Swapping
  <2>3. AckHeld'
    BY <1>2, <1>3, <2>1, <2>2 DEF AckHeld, AtLeast
  <2>4. NothingBetween'
    BY <1>2, <1>3, <2>1, <2>2 DEF NothingBetween, AtLeast, Other, Slots
  <2>5. MemIsActive'
    BY <1>2, <1>3, <2>1, <2>2
       DEF MemIsActive, Loadable, Valid, loadMeta, ActiveSlot, Other, Slots, MetaPage, metaSlotA, metaSlotB
  <2>6. (Swapping /\ Creating /\ Counters)'
    BY <1>2, <1>3, <1>4, <2>1 DEF MetaInv, Swapping, Creating, Counters, MetaPage
  <2> QED
    BY <1>1, <1>5, <2>3, <2>4, <2>5, <2>6 DEF MetaInv
<1>7. CASE stage = "initA"
  <2>1. /\ stage' = "initB" /\ target' = metaSlotB /\ pc' = "write" /\ UNCHANGED <<mem, acked>>
    BY <1>7 DEF SyncSlot
  <2>2. ~Valid(acked) /\ new = [gen |-> 1, root |-> 0] /\ target = metaSlotA /\ cache[target] = new
    BY <1>2, <1>7 DEF MetaInv, Creating
  <2>3. (AckHeld /\ NothingBetween /\ MemIsActive /\ Swapping)'
    BY <2>1, <2>2 DEF AckHeld, NothingBetween, MemIsActive, Swapping, Valid
  <2>4. (Creating /\ Counters)'
    BY <1>2, <1>4, <2>1, <2>2 DEF MetaInv, Creating, Counters, Valid
  <2> QED
    BY <1>1, <1>5, <2>3, <2>4 DEF MetaInv
<1>8. CASE stage = "initB"
  <2>1. pc' = "closed" /\ acked' = new /\ UNCHANGED <<stage, target, mem>>
    BY <1>8 DEF SyncSlot
  <2>2. \A s \in Slots : cache[s] = new
    BY <1>2, <1>8 DEF MetaInv, Creating, Slots, metaSlotA, metaSlotB
  <2>3. (AckHeld /\ NothingBetween)'
    BY <1>2, <1>3, <2>1, <2>2 DEF AckHeld, NothingBetween, AtLeast
  <2>4. (MemIsActive /\ Swapping /\ Creating /\ Counters)'
    BY <1>2, <1>3, <1>4, <2>1 DEF MetaInv, MemIsActive, Swapping, Creating, Counters, MetaPage
  <2> QED
    BY <1>1, <1>5, <2>3, <2>4 DEF MetaInv
<1> QED
  BY <1>3, <1>6, <1>7, <1>8

\* A failed write leaves the old page or none: loadMeta still returns db.meta.
LEMMA WriteFailsMetaInv == ASSUME MetaInv, WriteFails PROVE MetaInv'
<1>1. TypeOK'
  <2>1. WriteFails => [Next]_vars
    BY DEF Next
  <2> QED
    BY <2>1, NextTypeOK DEF MetaInv
<1>2. /\ pc = "write" /\ dirty' = dirty \cup {target}
      /\ pc' \in {"ready", "closed"} /\ (pc' = "ready" => stage = "swap")
      /\ UNCHANGED <<size, disk, mem, new, target, stage, serial, acked, syncFailed>>
  BY DEF WriteFails, AfterError
<1>3. /\ cache \in [Slots -> MetaPage] /\ target \in Slots /\ acked \in MetaPage
      /\ dirty \subseteq Slots /\ stage \in {"initA", "initB", "swap"}
  BY DEF MetaInv, TypeOK
<1>4. PICK p \in {cache[target], Garbage} : cache' = [cache EXCEPT ![target] = p]
  BY DEF WriteFails
<1>5. /\ cache' \in [Slots -> MetaPage]
      /\ \A s \in Slots : cache'[s] = IF s = target THEN p ELSE cache[s]
  BY <1>1, <1>3, <1>4 DEF TypeOK
<1>6. CleanIsDurable' /\ Swapping' /\ Creating' /\ Counters'
  BY <1>2, <1>5 DEF MetaInv, CleanIsDurable, Swapping, Creating, Counters, Valid
<1>7. CASE stage = "swap"
  <2>1. /\ Other(target) \in Slots /\ Other(target) # target
        /\ \A s \in Slots : s # target => s = Other(target)
    BY <1>3 DEF Other, Slots
  <2>2. /\ target = TargetSlot(cache)
        /\ Valid(acked) => Other(target) \notin dirty /\ AtLeast(disk[Other(target)])
    BY <1>2, <1>7 DEF MetaInv, Swapping
  <2>3. AckHeld'
    BY <1>2, <2>1, <2>2 DEF AckHeld, AtLeast, Valid
  <2>4. NothingBetween'
    <3>1. Valid(acked) => p.gen < acked.gen \/ p = cache[target]
      BY <1>3, <1>4 DEF Garbage, Valid, MetaPage
    <3> QED
      BY <1>2, <1>3, <1>5, <3>1 DEF MetaInv, NothingBetween, AtLeast, Valid
  <2>5. MemIsActive'
    <3>1. Loadable(cache) /\ mem = loadMeta(cache)
      BY <1>2, <1>7 DEF MetaInv, MemIsActive
    <3>2. target = Other(ActiveSlot(cache))
      BY <1>3, <2>2, <3>1, TargetIsNotActive
    <3>3. p.gen = cache[target].gen \/ p.gen = 0
      BY <1>4 DEF Garbage
    <3>4. ActiveSlot(cache') = ActiveSlot(cache)
      BY <1>3, <1>5, <3>2, <3>3
         DEF ActiveSlot, Other, Slots, MetaPage, metaSlotA, metaSlotB
    <3>5. loadMeta(cache') = loadMeta(cache)
      BY <1>3, <1>5, <3>2, <3>4, <2>1, PageTypes DEF loadMeta, Other, Slots
    <3>6. Valid(loadMeta(cache)) /\ ActiveSlot(cache) \in Slots
      BY <1>3, <3>1 DEF loadMeta, Loadable, Valid, ActiveSlot, Slots, MetaPage, metaSlotA, metaSlotB
    <3>7. Loadable(cache')
      BY <3>4, <3>5, <3>6 DEF Loadable, loadMeta
    <3> QED
      BY <1>2, <3>1, <3>5, <3>7 DEF MemIsActive
  <2>6. DirtySlot'
    <3> SUFFICES ASSUME Valid(acked), NEW t \in dirty' PROVE TargetSlot(cache') = t
      BY <1>2 DEF DirtySlot, Valid
    <3>1. t = target
      BY <1>2, <1>3, <2>1, <2>2
    <3>2. Valid(cache[Other(target)])
      BY <1>3, <2>1, <2>2 DEF MetaInv, CleanIsDurable, AtLeast, Valid, MetaPage
    <3>3. CASE p = cache[target]
      BY <1>3, <1>4, <2>2, <3>1, <3>3
    <3>4. CASE p = Garbage
      BY <1>3, <1>5, <2>1, <3>1, <3>2, <3>4
         DEF TargetSlot, Garbage, Valid, Other, Slots, metaSlotA, metaSlotB
    <3> QED
      BY <3>3, <3>4
  <2> QED
    BY <1>1, <1>6, <2>3, <2>4, <2>5, <2>6 DEF MetaInv
<1>8. CASE stage \in {"initA", "initB"}
  <2>1. ~Valid(acked)
    BY <1>2, <1>8 DEF MetaInv, Creating
  <2>2. (AckHeld /\ NothingBetween /\ DirtySlot /\ MemIsActive)'
    BY <1>2, <1>8, <2>1 DEF AckHeld, NothingBetween, DirtySlot, MemIsActive, Valid
  <2> QED
    BY <1>1, <1>6, <2>2 DEF MetaInv
<1> QED
  BY <1>3, <1>7, <1>8

\* A crash keeps the safe slot, and brings back nothing between.
LEMMA CrashMetaInv == ASSUME MetaInv, Crash PROVE MetaInv'
<1>1. TypeOK'
  <2>1. Crash => [Next]_vars
    BY DEF Next
  <2> QED
    BY <2>1, NextTypeOK DEF MetaInv
<1>2. /\ disk' \in CrashImages /\ cache' = disk' /\ dirty' = {} /\ pc' = "closed"
      /\ UNCHANGED <<size, mem, new, target, stage, serial, acked, syncFailed>>
  BY DEF Crash
<1>3. \A s \in Slots : /\ disk'[s] \in {disk[s], cache[s], Garbage}
                       /\ s \notin dirty => disk'[s] = disk[s]
  BY <1>2, ImageOfSlot DEF MetaInv
<1>4. acked \in MetaPage
  BY DEF MetaInv, TypeOK
<1>5. AckHeld'
  BY <1>2, <1>3 DEF MetaInv, AckHeld, AtLeast, Valid
<1>6. NothingBetween'
  BY <1>2, <1>3, <1>4 DEF MetaInv, NothingBetween, AtLeast, Valid, Garbage, MetaPage
<1>7. (CleanIsDurable /\ DirtySlot /\ MemIsActive /\ Swapping /\ Creating /\ Counters)'
  BY <1>2 DEF MetaInv, CleanIsDurable, DirtySlot, MemIsActive, Swapping, Creating, Counters, Valid
<1> QED
  BY <1>1, <1>5, <1>6, <1>7 DEF MetaInv

\* The steps that write no page: Open of the file, its creation, a kill.
LEMMA QuietMetaInv == ASSUME MetaInv, initIfEmpty \/ Load \/ LoadRefused \/ Kill \/ UNCHANGED vars
                   PROVE  MetaInv'
<1>1. TypeOK'
  <2>1. [Next]_vars
    BY DEF Next
  <2> QED
    BY <2>1, NextTypeOK DEF MetaInv
<1>2. UNCHANGED <<disk, cache, dirty, serial, acked, syncFailed>>
  BY DEF initIfEmpty, Load, LoadRefused, Kill, vars
<1>3. (CleanIsDurable /\ AckHeld /\ NothingBetween /\ DirtySlot)'
  BY <1>2 DEF MetaInv, CleanIsDurable, AckHeld, NothingBetween, DirtySlot, AtLeast, Valid
<1>4. serial \in Nat
  BY DEF MetaInv, TypeOK
<1>5. CASE initIfEmpty
  BY <1>1, <1>3, <1>4, <1>5
     DEF initIfEmpty, MetaInv, MemIsActive, Swapping, Creating, Counters, Valid
<1>6. CASE Load \/ LoadRefused \/ Kill
  BY <1>1, <1>3, <1>6
     DEF Load, LoadRefused, Kill, MetaInv, MemIsActive, Swapping, Creating, Counters, Valid
<1>7. CASE UNCHANGED vars
  BY <1>1, <1>3, <1>7 DEF vars, MetaInv, MemIsActive, Swapping, Creating, Counters, Valid, AtLeast
<1> QED
  BY <1>5, <1>6, <1>7

\* What holds of every reachable state: the invariant, until an fsync fails.
MetaHolds == TypeOK /\ (~syncFailed => MetaInv)

\* Every step but a failed fsync keeps the invariant.
LEMMA NextMetaInv == MetaInv /\ [Next]_vars /\ ~syncFailed' => MetaInv'
<1> SUFFICES ASSUME MetaInv, [Next]_vars, ~syncFailed' PROVE MetaInv'
  OBVIOUS
<1>1. CASE initIfEmpty \/ Load \/ LoadRefused \/ Kill \/ UNCHANGED vars
  BY <1>1, QuietMetaInv
<1>2. CASE FlushDirty
  BY <1>2, FlushMetaInv DEF FlushDirty
<1>3. CASE Close
  BY <1>3, FlushMetaInv DEF Close
<1>4. CASE swapMeta
  BY <1>4, SwapMetaInv
<1>5. CASE WriteSlot
  BY <1>5, WriteMetaInv
<1>6. CASE SyncSlot
  BY <1>6, SyncMetaInv
<1>7. CASE WriteFails
  BY <1>7, WriteFailsMetaInv
<1>8. CASE SyncFails
  BY <1>8 DEF SyncFails
<1>9. CASE Crash
  BY <1>9, CrashMetaInv
<1> QED
  BY <1>1, <1>2, <1>3, <1>4, <1>5, <1>6, <1>7, <1>8, <1>9 DEF Next

\* A failed fsync is remembered.
LEMMA SyncFailedStays == [Next]_vars /\ syncFailed => syncFailed'
BY DEF Next, vars, initIfEmpty, Load, LoadRefused, FlushDirty, swapMeta, WriteSlot, SyncSlot,
       WriteFails, SyncFails, Close, Crash, Kill

\* As long as no fsync has failed, whatever writes fail, no crash at any moment
\* loses an acknowledged Meta or brings back an older one: the next Open finds it.
THEOREM NoCrashLosesMeta == Spec => []CrashLoadsAckedMeta
<1>1. Init => MetaHolds
  BY InitMetaInv, InitTypeOK DEF MetaHolds
<1>2. MetaHolds /\ [Next]_vars => MetaHolds'
  BY NextMetaInv, NextTypeOK, SyncFailedStays, Zenon DEF MetaHolds
<1>3. MetaHolds => CrashLoadsAckedMeta
  <2>1. syncFailed => CrashLoadsAckedMeta
    BY DEF CrashLoadsAckedMeta
  <2> QED
    BY <2>1, MetaInvLoadsAcked DEF MetaHolds
<1> QED
  BY <1>1, <1>2, <1>3, PTL DEF Spec

-----------------------------------------------------------------------------
(* The meta of an open database, whatever writes and fsyncs fail           *)

\* The file that ReadMeta reads is not behind db.meta.
Opened == pc \in {"ready", "flushed"} => \E s \in Slots : Valid(cache[s]) /\ cache[s].gen >= mem.gen

\* A swap leaves the slot that is not behind alone: when it fails the old Meta is
\* still there.
SwapKeepsOther ==
  pc \in {"write", "sync"} /\ stage = "swap" =>
    /\ new.gen = mem.gen + 1
    /\ Valid(cache[Other(target)]) /\ cache[Other(target)].gen >= mem.gen
    /\ pc = "sync" => cache[target] = new

RInv == TypeOK /\ Opened /\ SwapKeepsOther

\* loadMeta finds a slot that is not behind.
LEMMA OpenedReads == RInv => ReadMetaNotBehind
<1> SUFFICES ASSUME RInv, pc = "ready" PROVE Loadable(cache) /\ loadMeta(cache).gen >= mem.gen
  BY DEF ReadMetaNotBehind
<1>1. cache \in [Slots -> MetaPage] /\ mem \in MetaPage
  BY DEF RInv, TypeOK
<1>2. PICK s \in Slots : Valid(cache[s]) /\ cache[s].gen >= mem.gen
  BY DEF RInv, Opened
<1> QED
  BY <1>1, <1>2 DEF Loadable, loadMeta, ActiveSlot, Slots, MetaPage, metaSlotA, metaSlotB

\* Every step, failed writes and fsyncs included, keeps the file not behind.
LEMMA NextRInv == RInv /\ [Next]_vars => RInv'
<1> SUFFICES ASSUME RInv, [Next]_vars PROVE RInv'
  OBVIOUS
<1>1. TypeOK'
  BY NextTypeOK DEF RInv
<1>2. /\ cache \in [Slots -> MetaPage] /\ mem \in MetaPage /\ new \in MetaPage /\ target \in Slots
      /\ stage \in {"initA", "initB", "swap"}
  BY DEF RInv, TypeOK
<1>3. /\ Other(target) \in Slots /\ Other(target) # target
  BY <1>2 DEF Other, Slots
<1>4. CASE initIfEmpty
  BY <1>1, <1>4 DEF initIfEmpty, RInv, Opened, SwapKeepsOther
<1>5. CASE Load
  <2>1. Loadable(cache) /\ mem' = loadMeta(cache) /\ cache' = cache /\ pc' = "ready"
    BY <1>5 DEF Load
  <2>2. Valid(loadMeta(cache)) /\ ActiveSlot(cache) \in Slots /\ loadMeta(cache).gen \in Nat
    BY <1>2, <2>1 DEF loadMeta, Loadable, Valid, ActiveSlot, Slots, MetaPage, metaSlotA, metaSlotB
  <2> QED
    BY <1>1, <2>1, <2>2 DEF RInv, Opened, SwapKeepsOther, loadMeta
<1>6. CASE FlushDirty \/ Close \/ LoadRefused \/ Kill \/ Crash
  <2>1. pc' \in {"flushed", "closed", "refused"} /\ mem' = mem
    BY <1>6 DEF FlushDirty, Close, LoadRefused, Kill, Crash
  <2>2. pc' = "flushed" => pc = "ready" /\ cache' = cache
    BY <1>6 DEF FlushDirty, Close, LoadRefused, Kill, Crash
  <2> QED
    BY <1>1, <2>1, <2>2 DEF RInv, Opened, SwapKeepsOther
<1>7. CASE swapMeta
  <2>1. /\ pc \in {"ready", "flushed"} /\ pc' = "write" /\ target' = TargetSlot(cache)
        /\ new' = [gen |-> mem.gen + 1, root |-> serial + 1]
        /\ cache' = cache /\ mem' = mem
    BY <1>7 DEF swapMeta, MaySwap
  <2>2. PICK s \in Slots : Valid(cache[s]) /\ cache[s].gen >= mem.gen
    BY <2>1 DEF RInv, Opened
  <2>3. Loadable(cache)
    BY <2>2 DEF Loadable
  <2>4. target' = Other(ActiveSlot(cache))
    BY <1>2, <2>1, <2>3, TargetIsNotActive
  <2>5. Other(target') = ActiveSlot(cache)
    BY <2>4 DEF Other, ActiveSlot, metaSlotA, metaSlotB
  <2>6. Valid(cache[ActiveSlot(cache)]) /\ cache[ActiveSlot(cache)].gen >= mem.gen
    BY <1>2, <2>2 DEF ActiveSlot, Valid, Slots, MetaPage, metaSlotA, metaSlotB
  <2> QED
    BY <1>1, <2>1, <2>5, <2>6 DEF RInv, Opened, SwapKeepsOther
<1>8. CASE WriteSlot
  BY <1>1, <1>2, <1>3, <1>8 DEF WriteSlot, RInv, Opened, SwapKeepsOther
<1>9. CASE SyncSlot
  <2>1. CASE stage = "swap"
    <3>1. pc = "sync" /\ pc' = "ready" /\ mem' = new /\ cache' = cache
      BY <1>9, <2>1 DEF SyncSlot
    <3>2. cache[target] = new /\ new.gen = mem.gen + 1
      BY <2>1, <3>1 DEF RInv, SwapKeepsOther
    <3>3. Valid(cache[target]) /\ cache[target].gen >= new.gen
      BY <1>2, <3>2 DEF Valid, MetaPage
    <3> QED
      BY <1>1, <1>2, <3>1, <3>3 DEF RInv, Opened, SwapKeepsOther
  <2>2. CASE stage # "swap"
    <3>1. pc' \in {"write", "closed"} /\ (pc' = "write" => stage' = "initB")
      BY <1>9, <2>2 DEF SyncSlot
    <3> QED
      BY <1>1, <3>1 DEF RInv, Opened, SwapKeepsOther
  <2> QED
    BY <2>1, <2>2
<1>10. CASE WriteFails
  <2>1. /\ pc = "write" /\ pc' \in {"ready", "closed"} /\ (pc' = "ready" => stage = "swap")
        /\ mem' = mem
    BY <1>10 DEF WriteFails, AfterError
  <2>2. cache'[Other(target)] = cache[Other(target)]
    BY <1>2, <1>3, <1>10 DEF WriteFails
  <2> QED
    BY <1>1, <1>3, <2>1, <2>2 DEF RInv, Opened, SwapKeepsOther
<1>11. CASE SyncFails
  <2>1. /\ pc \in {"sync", "ready"} /\ pc' \in {"ready", "closed"}
        /\ pc = "sync" /\ pc' = "ready" => stage = "swap"
        /\ mem' = mem /\ cache' = cache
    BY <1>11 DEF SyncFails, AfterError
  <2> QED
    BY <1>1, <1>3, <2>1 DEF RInv, Opened, SwapKeepsOther
<1>12. CASE UNCHANGED vars
  BY <1>1, <1>12 DEF vars, RInv, Opened, SwapKeepsOther
<1> QED
  BY <1>4, <1>5, <1>6, <1>7, <1>8, <1>9, <1>10, <1>11, <1>12 DEF Next

\* A failed swap, and a failed fsync, never cost an open database its meta:
\* ReadMeta finds a valid page whose generation is not behind db.meta.
THEOREM ReadMetaFindsCurrent == Spec => []ReadMetaNotBehind
<1>1. Init => RInv
  BY InitTypeOK DEF Init, RInv, Opened, SwapKeepsOther
<1> QED
  BY <1>1, NextRInv, OpenedReads, PTL DEF Spec

-----------------------------------------------------------------------------
(* One Meta per generation, as long as no fsync fails                      *)

\* Two valid pages of one generation, durable or readable, are the same page.
NoTie == \A p \in {disk[metaSlotA], cache[metaSlotA]}, q \in {disk[metaSlotB], cache[metaSlotB]} :
           Valid(p) /\ p.gen = q.gen => p = q

\* No durable page is ahead of all that can be read, so that the generation a
\* swap takes, one more than the highest that is read, is new.
DiskBehind == \A s \in Slots : \E t \in Slots : disk[s].gen <= cache[t].gen

NewAhead == pc = "write" /\ stage = "swap" =>
              \A s \in Slots : disk[s].gen < new.gen /\ cache[s].gen < new.gen

\* The file is created with the same Meta in both slots.
Created ==
  /\ size = 0 => pc = "closed" /\ \A s \in Slots : disk[s] = Garbage /\ cache[s] = Garbage
  /\ pc \in {"write", "sync"} /\ stage \in {"initA", "initB"} =>
       /\ \A s \in Slots : disk[s] \in {Garbage, new} /\ cache[s] \in {Garbage, new}
       /\ pc = "write" /\ stage = "initA" => \A s \in Slots : disk[s] = Garbage

TInv == MetaInv /\ RInv /\ NoTie /\ DiskBehind /\ NewAhead /\ Created

\* A new file has no pages.
LEMMA InitTInv == Init => TInv
<1>1. Init => RInv
  BY InitTypeOK DEF Init, RInv, Opened, SwapKeepsOther
<1> QED
  BY <1>1, InitMetaInv
     DEF Init, TInv, NoTie, DiskBehind, NewAhead, Created, Garbage, Valid, Slots, metaSlotA, metaSlotB

\* Reading the pages that are durable, or making durable those that are read,
\* brings no page back that was not one of them.
LEMMA MixedPages ==
  ASSUME TInv,
         \A s \in Slots : disk'[s] \in {disk[s], cache[s], Garbage},
         \A s \in Slots : cache'[s] \in {disk[s], cache[s], Garbage}
  PROVE  NoTie'
<1>1. /\ \A s \in Slots : disk[s] \in MetaPage /\ cache[s] \in MetaPage
      /\ metaSlotA \in Slots /\ metaSlotB \in Slots
  BY DEF TInv, MetaInv, TypeOK, Slots, metaSlotA, metaSlotB
<1>2. Garbage.gen = 0
  BY DEF Garbage
<1> QED
  BY <1>1, <1>2 DEF TInv, NoTie, Valid

\* The write of a page.
LEMMA WriteTInv == ASSUME TInv, WriteSlot, MetaInv', RInv' PROVE TInv'
<1>1. /\ pc = "write" /\ pc' = "sync"
      /\ cache' = [cache EXCEPT ![target] = new]
      /\ UNCHANGED <<size, disk, mem, new, target, stage, serial, acked, syncFailed>>
  BY DEF WriteSlot
<1>2. /\ cache \in [Slots -> MetaPage] /\ disk \in [Slots -> MetaPage] /\ target \in Slots
      /\ new \in MetaPage /\ stage \in {"initA", "initB", "swap"} /\ mem \in MetaPage
  BY DEF TInv, MetaInv, TypeOK
<1>3. \A s \in Slots : cache'[s] = IF s = target THEN new ELSE cache[s]
  BY <1>1, <1>2
<1>4. NewAhead'
  BY <1>1 DEF NewAhead
<1>5. CASE stage = "swap"
  <2>1. \A s \in Slots : disk[s].gen < new.gen /\ cache[s].gen < new.gen
    BY <1>1, <1>5 DEF TInv, NewAhead
  <2>2. \A s \in Slots : disk[s].gen \in Nat /\ cache[s].gen \in Nat /\ new.gen \in Nat
    BY <1>2 DEF MetaPage
  <2>3. NoTie'
    BY <1>1, <1>3, <2>1, <2>2 DEF TInv, NoTie, Valid, Slots, metaSlotA, metaSlotB
  <2>4. DiskBehind'
    BY <1>1, <1>2, <1>3, <2>1, <2>2 DEF DiskBehind
  <2>5. Created'
    BY <1>1, <1>5 DEF TInv, Created
  <2> QED
    BY <1>4, <2>3, <2>4, <2>5 DEF TInv
<1>6. CASE stage \in {"initA", "initB"}
  <2>1. new = [gen |-> 1, root |-> 0] /\ new.gen = 1
    BY <1>1, <1>6 DEF TInv, MetaInv, Creating
  <2>2. \A s \in Slots : disk[s] \in {Garbage, new} /\ cache[s] \in {Garbage, new}
    BY <1>1, <1>6 DEF TInv, Created
  <2>3. NoTie'
    BY <1>1, <1>3, <2>1, <2>2 DEF NoTie, Valid, Garbage, Slots, metaSlotA, metaSlotB
  <2>4. DiskBehind'
    BY <1>1, <1>2, <1>3, <2>1, <2>2 DEF DiskBehind, Garbage
  <2>5. Created'
    BY <1>1, <1>3, <2>2 DEF TInv, Created
  <2> QED
    BY <1>4, <2>3, <2>4, <2>5 DEF TInv
<1> QED
  BY <1>2, <1>5, <1>6

\* A failed write leaves the old page or none in the slot that is not active.
LEMMA WriteFailsTInv == ASSUME TInv, WriteFails, MetaInv', RInv' PROVE TInv'
<1>1. /\ pc = "write" /\ pc' \in {"ready", "closed"}
      /\ UNCHANGED <<size, disk, mem, new, target, stage, serial, acked, syncFailed>>
  BY DEF WriteFails, AfterError
<1>2. /\ cache \in [Slots -> MetaPage] /\ disk \in [Slots -> MetaPage] /\ target \in Slots
      /\ new \in MetaPage /\ stage \in {"initA", "initB", "swap"} /\ mem \in MetaPage
  BY DEF TInv, MetaInv, TypeOK
<1>3. PICK p \in {cache[target], Garbage} : cache' = [cache EXCEPT ![target] = p]
  BY DEF WriteFails
<1>4. \A s \in Slots : cache'[s] = IF s = target THEN p ELSE cache[s]
  BY <1>2, <1>3
<1>5. NoTie'
  BY <1>1, <1>3, <1>4, MixedPages
<1>6. Other(target) \in Slots /\ cache'[Other(target)] = cache[Other(target)]
  BY <1>2, <1>4 DEF Other, Slots
<1>7. DiskBehind'
  <2>1. CASE stage = "swap"
    <3>1. /\ \A s \in Slots : disk[s].gen < new.gen
          /\ new.gen = mem.gen + 1 /\ cache[Other(target)].gen >= mem.gen
      BY <1>1, <2>1 DEF TInv, NewAhead, RInv, SwapKeepsOther
    <3>2. \A s \in Slots : disk[s].gen \in Nat /\ mem.gen \in Nat /\ cache[Other(target)].gen \in Nat
      BY <1>2, <1>6 DEF MetaPage
    <3>3. \A s \in Slots : disk'[s].gen <= cache'[Other(target)].gen
      BY <1>1, <1>6, <3>1, <3>2
    <3> QED
      BY <1>6, <3>3 DEF DiskBehind
  <2>2. CASE stage = "initA"
    <3>1. \A s \in Slots : disk[s].gen = 0
      BY <1>1, <2>2 DEF TInv, Created, Garbage
    <3>2. cache'[Other(target)].gen >= 0
      BY <1>2, <1>6 DEF MetaPage
    <3> QED
      BY <1>1, <1>6, <3>1, <3>2 DEF DiskBehind
  <2>3. CASE stage = "initB"
    <3>1. /\ new.gen = 1 /\ target = metaSlotB /\ cache[metaSlotA] = new
          /\ \A s \in Slots : disk[s] \in {Garbage, new}
      BY <1>1, <2>3 DEF TInv, MetaInv, Creating, Created
    <3>2. metaSlotA \in Slots /\ cache'[metaSlotA].gen = 1
      BY <1>4, <3>1 DEF Slots, metaSlotA, metaSlotB
    <3>3. \A s \in Slots : disk'[s].gen <= 1
      BY <1>1, <3>1 DEF Garbage
    <3> QED
      BY <3>2, <3>3 DEF DiskBehind
  <2> QED
    BY <1>2, <2>1, <2>2, <2>3
<1>8. NewAhead' /\ Created'
  BY <1>1 DEF TInv, NewAhead, Created
<1> QED
  BY <1>5, <1>7, <1>8 DEF TInv

\* The choice of the generation.
LEMMA SwapTInv == ASSUME TInv, swapMeta, MetaInv', RInv' PROVE TInv'
<1>1. /\ pc \in {"ready", "flushed"} /\ pc' = "write" /\ stage' = "swap"
      /\ new' = [gen |-> mem.gen + 1, root |-> serial + 1]
      /\ UNCHANGED <<size, disk, cache, mem>>
  BY DEF swapMeta, MaySwap
<1>2. /\ cache \in [Slots -> MetaPage] /\ disk \in [Slots -> MetaPage] /\ mem \in MetaPage
  BY DEF TInv, MetaInv, TypeOK
<1>3. \A s \in Slots : mem.gen >= cache[s].gen
  BY <1>1, <1>2 DEF TInv, MetaInv, MemIsActive, loadMeta, ActiveSlot, Slots, MetaPage, metaSlotA, metaSlotB
<1>4. \A s \in Slots : disk[s].gen \in Nat /\ cache[s].gen \in Nat /\ mem.gen \in Nat
  BY <1>2 DEF MetaPage
<1>5. new'.gen = mem.gen + 1
  BY <1>1
<1>6. NewAhead'
  <2> SUFFICES ASSUME NEW s \in Slots PROVE disk[s].gen < mem.gen + 1 /\ cache[s].gen < mem.gen + 1
    BY <1>1, <1>5 DEF NewAhead
  <2>1. PICK t \in Slots : disk[s].gen <= cache[t].gen
    BY DEF TInv, DiskBehind
  <2> QED
    BY <1>3, <1>4, <2>1
<1>7. NoTie' /\ DiskBehind' /\ Created'
  BY <1>1 DEF TInv, NoTie, DiskBehind, Created, Valid
<1> QED
  BY <1>6, <1>7 DEF TInv

\* Every step but a failed fsync keeps the pages apart.
LEMMA NextTInv == ASSUME TInv, [Next]_vars, MetaInv', RInv', ~syncFailed' PROVE TInv'
<1>1. /\ cache \in [Slots -> MetaPage] /\ disk \in [Slots -> MetaPage]
      /\ \A s \in Slots : disk[s].gen \in Nat /\ cache[s].gen \in Nat
  BY DEF TInv, MetaInv, TypeOK, MetaPage
<1>2. CASE WriteSlot \/ WriteFails \/ swapMeta
  BY <1>2, WriteTInv, WriteFailsTInv, SwapTInv
<1>3. CASE initIfEmpty
  BY <1>3 DEF initIfEmpty, TInv, NoTie, DiskBehind, NewAhead, Created, Valid, Garbage
<1>4. CASE Load \/ LoadRefused \/ Kill
  <2>1. UNCHANGED <<disk, cache, size>> /\ pc' \in {"ready", "refused", "closed"} /\ (size = 0 => pc' = "closed")
    BY <1>4 DEF Load, LoadRefused, Kill, TInv, Created
  <2> QED
    BY <2>1 DEF TInv, NoTie, DiskBehind, NewAhead, Created, Valid
<1>5. CASE FlushDirty \/ Close \/ SyncSlot
  <2>1. disk' = cache /\ cache' = cache /\ size' = size /\ new' = new
    BY <1>5, SyncedIsCache DEF FlushDirty, Close, SyncSlot, TInv, MetaInv
  <2>2. NoTie'
    BY <2>1, MixedPages
  <2>3. DiskBehind'
    BY <1>1, <2>1 DEF DiskBehind
  <2>4. NewAhead' /\ Created'
    BY <1>5, <2>1 DEF FlushDirty, Close, SyncSlot, TInv, MetaInv, TypeOK, NewAhead, Created
  <2> QED
    BY <2>2, <2>3, <2>4 DEF TInv
<1>6. CASE Crash
  <2>1. disk' \in CrashImages /\ cache' = disk' /\ pc' = "closed" /\ size' = size
    BY <1>6 DEF Crash
  <2>2. \A s \in Slots : disk'[s] \in {disk[s], cache[s], Garbage}
    BY <2>1, ImageOfSlot DEF TInv, MetaInv
  <2>3. NoTie'
    BY <2>1, <2>2, MixedPages
  <2>4. disk' \in [Slots -> MetaPage]
    BY <2>1, ImageOfSlot DEF TInv, MetaInv
  <2>5. DiskBehind'
    BY <2>1, <2>4 DEF DiskBehind, MetaPage
  <2>6. NewAhead' /\ Created'
    BY <2>1, <2>2 DEF TInv, NewAhead, Created
  <2> QED
    BY <2>3, <2>5, <2>6 DEF TInv
<1>7. CASE SyncFails
  BY <1>7 DEF SyncFails
<1>8. CASE UNCHANGED vars
  BY <1>8 DEF vars, TInv, NoTie, DiskBehind, NewAhead, Created, Valid
<1> QED
  BY <1>2, <1>3, <1>4, <1>5, <1>6, <1>7, <1>8 DEF Next

\* What holds until an fsync fails, and what holds always.
ReadsFindMeta == RInv /\ (~syncFailed => TInv)

\* Two valid slots of one generation hold the same Meta: the rule by which
\* loadMeta settles a tie never decides which commit is seen.
THEOREM OneMetaPerGeneration == Spec => []GenerationNamesOneMeta
<1>1. Init => ReadsFindMeta
  BY InitTInv DEF ReadsFindMeta, TInv
<1>2. ReadsFindMeta /\ [Next]_vars => ReadsFindMeta'
  <2> SUFFICES ASSUME ReadsFindMeta, [Next]_vars PROVE ReadsFindMeta'
    OBVIOUS
  <2>1. RInv'
    BY NextRInv DEF ReadsFindMeta
  <2>2. ASSUME ~syncFailed' PROVE TInv'
    <3>1. ~syncFailed
      BY <2>2, SyncFailedStays
    <3>2. TInv
      BY <3>1 DEF ReadsFindMeta
    <3>3. MetaInv'
      BY <2>2, <3>2, NextMetaInv DEF TInv
    <3> QED
      BY <2>1, <2>2, <3>2, <3>3, NextTInv
  <2> QED
    BY <2>1, <2>2 DEF ReadsFindMeta
<1>3. ReadsFindMeta => GenerationNamesOneMeta
  BY DEF ReadsFindMeta, TInv, NoTie, GenerationNamesOneMeta, Valid
<1> QED
  BY <1>1, <1>2, <1>3, PTL DEF Spec

-----------------------------------------------------------------------------
(***************************************************************************)
(* The freelist.  For any sizes of the file, of the reserve and of a       *)
(* growth step: no page the freelist knows lies outside the file, and no   *)
(* page has two uses before a kill, or a Close that leaves a freelist with *)
(* an old root in it.                                                      *)
(***************************************************************************)

\* Every set of naturals that is not empty has a least element.
LEMMA LeastPage == ASSUME NEW T \in SUBSET Nat, T # {} PROVE Min(T) \in T
<1>1. PICK x \in T : \A y \in T : ~ (<<y, x>> \in OpToRel(<, Nat))
  BY NatLessThanWellFounded, WFMin
<1>2. \A y \in T : ~(y < x)
  BY <1>1 DEF OpToRel
<1>3. \A y \in T : x <= y
  BY <1>2
<1> QED
  BY <1>3 DEF Min

-----------------------------------------------------------------------------
(* The reserve                                                             *)

\* The pages of a reserve.
PagesOf(s) == {s[i] : i \in DOMAIN s}

Once(s) == \A i, j \in DOMAIN s : i # j => s[i] # s[j]

\* Free of a page into the reserve.
LEMMA ReserveTakes ==
  ASSUME NEW s \in Seq(Nat), NEW p \in Nat
  PROVE  /\ Append(s, p) \in Seq(Nat) /\ PagesOf(Append(s, p)) = PagesOf(s) \cup {p}
         /\ Once(s) /\ p \notin PagesOf(s) => Once(Append(s, p))
<1> DEFINE t == Append(s, p)
<1>1. /\ t \in Seq(Nat) /\ Len(s) \in Nat /\ Len(t) = Len(s) + 1
      /\ DOMAIN t = 1..Len(t) /\ DOMAIN s = 1..Len(s)
      /\ t[Len(t)] = p /\ \A i \in 1..Len(s) : t[i] = s[i]
  OBVIOUS
<1> HIDE DEF t
<1>2. \A i \in DOMAIN t : (i \in DOMAIN s /\ t[i] = s[i]) \/ (i = Len(t) /\ t[i] = p)
  BY <1>1
<1>3. PagesOf(t) = PagesOf(s) \cup {p}
  <2>1. \A x \in PagesOf(t) : x \in PagesOf(s) \cup {p}
    BY <1>2 DEF PagesOf
  <2>2. PagesOf(s) \subseteq PagesOf(t)
    BY <1>1 DEF PagesOf
  <2>3. Len(t) \in DOMAIN t /\ t[Len(t)] = p
    BY <1>1
  <2>4. p \in PagesOf(t)
    BY <2>3 DEF PagesOf
  <2> QED
    BY <2>1, <2>2, <2>4
<1>4. ASSUME Once(s), p \notin PagesOf(s) PROVE Once(t)
  BY <1>2, <1>4 DEF Once, PagesOf
<1> QED
  BY <1>1, <1>3, <1>4 DEF t

\* Alloc of the last page of the reserve.
LEMMA ReserveGives ==
  ASSUME NEW s \in Seq(Nat), s # << >>
  PROVE  LET p == s[Len(s)]
             t == SubSeq(s, 1, Len(s) - 1)
         IN  /\ t \in Seq(Nat) /\ p \in PagesOf(s) /\ PagesOf(t) \subseteq PagesOf(s)
             /\ Once(s) => Once(t) /\ p \notin PagesOf(t)
<1> DEFINE p == s[Len(s)]
           t == SubSeq(s, 1, Len(s) - 1)
<1>1. Len(s) \in Nat /\ Len(s) # 0 /\ DOMAIN s = 1..Len(s)
  OBVIOUS
<1>2. /\ t \in Seq(Nat) /\ DOMAIN t = 1..(Len(s) - 1)
      /\ \A i \in 1..(Len(s) - 1) : t[i] = s[i]
  BY <1>1
<1>3. Len(s) \in DOMAIN s /\ \A i \in DOMAIN t : i \in DOMAIN s /\ i # Len(s) /\ t[i] = s[i]
  BY <1>1, <1>2
<1> HIDE DEF t
<1>4. p \in PagesOf(s) /\ PagesOf(t) \subseteq PagesOf(s)
  BY <1>3 DEF PagesOf
<1>5. ASSUME Once(s) PROVE Once(t) /\ p \notin PagesOf(t)
  BY <1>3, <1>5 DEF Once, PagesOf
<1> QED
  BY <1>2, <1>4, <1>5 DEF t

\* A reserve that holds no page twice has as many pages as entries.
LEMMA ReserveCounts ==
  ASSUME NEW s \in Seq(Nat), Once(s)
  PROVE  Cardinality(PagesOf(s)) = Len(s)
<1>1. Len(s) \in Nat /\ DOMAIN s = 1..Len(s)
  OBVIOUS
<1>2. s \in [1..Len(s) -> PagesOf(s)]
  BY <1>1 DEF PagesOf
<1>3. s \in Injection(1..Len(s), PagesOf(s))
  BY <1>1, <1>2 DEF Once, Injection, IsInjective
<1>4. s \in Surjection(1..Len(s), PagesOf(s))
  BY <1>1, <1>2 DEF PagesOf, Surjection
<1>5. s \in Bijection(1..Len(s), PagesOf(s))
  BY <1>3, <1>4 DEF Bijection
<1>6. ExistsBijection(1..Len(s), PagesOf(s))
  BY <1>5 DEF ExistsBijection
<1> QED
  BY <1>1, <1>6, FS_CountingElements

-----------------------------------------------------------------------------
(* The inductive invariant                                                 *)

Running == dbState \in {"seeded", "open"}

\* The pages Grow has counted and not yet freed.
Pending == IF growing = 0 THEN {} ELSE growing..(pageCount - 1)

Kinds == /\ dbState \in {"new", "seeded", "open", "down"}
         /\ reserve \in Seq(Nat) /\ filePages \in Nat

\* The count of the meta page never exceeds the file, and Grow works behind the
\* pages the file was created with.
Sizes == /\ filePages >= Chunk
         /\ dbState = "new" => filePages = Chunk /\ pageCount = Chunk /\ growing = 0 /\ owned = {} /\ named = {}
         /\ Running => /\ pageCount \in Chunk..filePages
                       /\ growing = 0 \/ growing \in Chunk..(pageCount - 1)
         /\ dbState = "seeded" => pageCount = filePages /\ growing = 0

InFile == /\ Running => leaf \cup Reserve \cup owned \cup named \subseteq 2..(pageCount - 1)
          /\ fileLeaf \cup fileOwned \subseteq 2..(filePages - 1)

\* Every page has one use at most, while the file is not parted; and the meta page
\* leads to no page of the freelist's own tree.
OneUse == Running /\ ~parted =>
            /\ leaf \cap Reserve = {} /\ leaf \cap owned = {} /\ Reserve \cap owned = {}
            /\ Root \notin leaf \cup Reserve \cup owned \cup named
            /\ Pending \cap (leaf \cup Reserve \cup owned) = {}
            /\ Once(reserve)

\* Close leaves a file in which that is so; the reserve is not in it.
OneUseInFile == dbState = "down" /\ ~parted =>
                  fileLeaf \cap fileOwned = {} /\ Root \notin fileLeaf \cup fileOwned

FreeInv == Kinds /\ Sizes /\ InFile /\ OneUse /\ OneUseInFile

\* The root of the freelist is a page of the first growth chunk.
LEMMA RootIsEarly == Root \in Nat /\ Root < Chunk /\ Root >= 2 /\ Chunk \in Nat
BY FreelistAssumption DEF Root

\* What the invariant is for.
LEMMA FreeInvPages == FreeInv => FreePagesExist /\ OneUsePerPage
<1> SUFFICES ASSUME FreeInv, dbState = "open" PROVE FreePagesExist /\ OneUsePerPage
  BY DEF FreePagesExist, OneUsePerPage
<1>1. FreePagesExist
  BY DEF FreeInv, InFile, FreePagesExist, Running
<1>2. ASSUME ~parted PROVE OneUsePerPage
  <2>1. /\ leaf \cap Reserve = {} /\ leaf \cap owned = {} /\ Reserve \cap owned = {}
        /\ Root \notin leaf \cup Reserve \cup owned \cup named
        /\ Pending \cap (leaf \cup Reserve \cup owned) = {}
        /\ Once(reserve)
    BY <1>2 DEF FreeInv, OneUse, Running
  <2>2. Root \notin Pending
    BY RootIsEarly DEF FreeInv, Sizes, Running, Pending
  <2>3. Cardinality(Reserve) = Len(reserve)
    BY <2>1, ReserveCounts DEF FreeInv, Kinds, Reserve, PagesOf
  <2> DEFINE use == <<leaf, Reserve, owned, {Root}, Pending>>
  <2>4. DOMAIN use = 1..5 /\ use[1] = leaf /\ use[2] = Reserve /\ use[3] = owned
        /\ use[4] = {Root} /\ use[5] = Pending
    OBVIOUS
  <2> HIDE DEF use
  <2>5. \A i, j \in 1..5 : i # j => use[i] \cap use[j] = {}
    <3> SUFFICES ASSUME NEW i \in 1..5, NEW j \in 1..5, i # j PROVE use[i] \cap use[j] = {}
      OBVIOUS
    <3>1. CASE i = 1
      BY <2>1, <2>2, <2>4, <3>1
    <3>2. CASE i = 2
      BY <2>1, <2>2, <2>4, <3>2
    <3>3. CASE i = 3
      BY <2>1, <2>2, <2>4, <3>3
    <3>4. CASE i = 4
      BY <2>1, <2>2, <2>4, <3>4
    <3>5. CASE i = 5
      BY <2>1, <2>2, <2>4, <3>5
    <3> QED
      BY <3>1, <3>2, <3>3, <3>4, <3>5
  <2> QED
    BY <2>3, <2>4, <2>5 DEF OneUsePerPage, use, Pending
<1> QED
  BY <1>1, <1>2 DEF OneUsePerPage

\* An empty data file has no pages in use.
LEMMA InitFreeInv == FreelistInit => FreeInv
BY FreelistAssumption
   DEF FreelistInit, FreeInv, Kinds, Sizes, InFile, OneUse, OneUseInFile, Running, Pending

\* Open of a new database: the reserve takes the first pages, the root of the
\* freelist the next and its leaf the rest.
LEMMA SeedFreeInv == ASSUME FreeInv, seedNewDB PROVE FreeInv'
<1> USE FreelistAssumption
<1>1. /\ dbState = "new" /\ dbState' = "seeded"
      /\ reserve' = [i \in 1..(ReservePages - 1) |-> i + 1]
      /\ leaf' = (ReservePages + 2)..(Chunk - 1)
      /\ UNCHANGED <<owned, named, pageCount, growing, file, parted>>
  BY DEF seedNewDB
<1>2. filePages = Chunk /\ pageCount = Chunk /\ growing = 0 /\ owned = {} /\ named = {}
  BY <1>1 DEF FreeInv, Sizes
<1>3. reserve' \in Seq(Nat) /\ Once(reserve')
  BY <1>1 DEF Once
<1>4. Reserve' \subseteq 2..ReservePages
  BY <1>1 DEF Reserve
<1>5. InFile'
  BY <1>1, <1>2, <1>4 DEF FreeInv, InFile, Running, file
<1>6. OneUse'
  BY <1>1, <1>2, <1>3, <1>4 DEF OneUse, Pending, Root
<1> QED
  BY <1>1, <1>2, <1>3, <1>5, <1>6 DEF FreeInv, Kinds, Sizes, OneUseInFile, Running, file

\* Open of an existing database: the reserve starts empty.
LEMMA OpenFreeInv == ASSUME FreeInv, Open PROVE FreeInv'
<1>1. /\ dbState = "down" /\ dbState' = "open"
      /\ leaf' = fileLeaf /\ owned' = fileOwned /\ named' = fileOwned /\ reserve' = << >>
      /\ pageCount' = filePages /\ growing' = 0
      /\ UNCHANGED <<filePages, fileLeaf, fileOwned, parted>>
  BY DEF Open, file
<1>2. reserve' \in Seq(Nat) /\ Reserve' = {} /\ Once(reserve')
  BY <1>1 DEF Reserve, Once
<1>3. Sizes'
  BY <1>1, FreelistAssumption DEF FreeInv, Kinds, Sizes, Running
<1> QED
  BY <1>1, <1>2, <1>3 DEF FreeInv, Kinds, InFile, OneUse, OneUseInFile, Running, Pending

\* The first commit, and those after it, count the pages of the file.
LEMMA CommitFreeInv ==
  ASSUME FreeInv, postReplayCommit \/ commitMeta PROVE FreeInv'
<1>1. /\ Running /\ growing = 0 /\ dbState' = "open" /\ pageCount' = filePages
      /\ named' \in {named, owned}
      /\ UNCHANGED <<leaf, reserve, owned, growing, filePages, parted>>
      /\ fileLeaf' \cup fileOwned' \subseteq fileLeaf \cup fileOwned \cup leaf \cup owned
  BY DEF postReplayCommit, commitMeta, file, FreeInv, Sizes, Running
<1>2. pageCount \in Chunk..filePages /\ filePages \in Nat /\ Chunk \in Nat
  BY <1>1, FreelistAssumption DEF FreeInv, Kinds, Sizes
<1>3. Sizes'
  BY <1>1, <1>2 DEF FreeInv, Sizes, Running
<1>4. InFile'
  BY <1>1, <1>2 DEF FreeInv, InFile, Running, Reserve
<1>5. OneUse'
  BY <1>1 DEF FreeInv, OneUse, Running, Pending, Reserve
<1> QED
  BY <1>1, <1>3, <1>4, <1>5 DEF FreeInv, Kinds, OneUseInFile

\* Alloc from the tree: its smallest key.
LEMMA AllocTreeFreeInv == ASSUME FreeInv, AllocTree PROVE FreeInv'
<1>1. /\ dbState = "open" /\ dbState' = "open" /\ leaf # {}
      /\ leaf' = leaf \ {Min(leaf)} /\ owned' = owned \cup {Min(leaf)}
      /\ UNCHANGED <<reserve, named, pageCount, growing, filePages, fileLeaf, fileOwned, parted>>
  BY DEF AllocTree, file
<1>2. leaf \subseteq 2..(pageCount - 1) /\ pageCount \in Nat
  BY <1>1, FreelistAssumption DEF FreeInv, Kinds, Sizes, InFile, Running
<1>3. Min(leaf) \in leaf
  BY <1>1, <1>2, LeastPage
<1> QED
  BY <1>1, <1>3
     DEF FreeInv, Kinds, Sizes, InFile, OneUse, OneUseInFile, Running, Pending, Reserve

\* Alloc from the reserve: its last page.
LEMMA AllocReserveFreeInv == ASSUME FreeInv, AllocReserve PROVE FreeInv'
<1> DEFINE p == reserve[Len(reserve)]
<1>1. /\ dbState = "open" /\ dbState' = "open" /\ reserve # << >>
      /\ owned' = owned \cup {p} /\ reserve' = SubSeq(reserve, 1, Len(reserve) - 1)
      /\ UNCHANGED <<leaf, named, pageCount, growing, filePages, fileLeaf, fileOwned, parted>>
  BY DEF AllocReserve, file
<1>2. /\ reserve' \in Seq(Nat) /\ p \in Reserve /\ Reserve' \subseteq Reserve
      /\ Once(reserve) => Once(reserve') /\ p \notin Reserve'
  BY <1>1, ReserveGives DEF FreeInv, Kinds, Reserve, PagesOf
<1> HIDE DEF p
<1>3. Kinds' /\ Sizes'
  BY <1>1, <1>2 DEF FreeInv, Kinds, Sizes, Running
<1>4. InFile' /\ OneUse'
  BY <1>1, <1>2 DEF FreeInv, InFile, OneUse, Running, Pending
<1> QED
  BY <1>1, <1>3, <1>4 DEF FreeInv, OneUseInFile

\* The page that Free gets goes to one place, the reserve or the tree, or nowhere.
LEMMA FreePagePlaces ==
  ASSUME FreeInv, NEW p \in Nat, FreePage(p)
  PROVE  /\ reserve' \in Seq(Nat)
         /\ \/ leaf' = leaf /\ Reserve' = Reserve \cup {p}
            \/ leaf' \subseteq leaf \cup {p} /\ Reserve' = Reserve
         /\ Once(reserve) /\ p \notin Reserve => Once(reserve')
<1>1. reserve \in Seq(Nat)
  BY DEF FreeInv, Kinds
<1>2. CASE Len(reserve) < ReserveTarget
  <2>1. reserve' = Append(reserve, p) /\ leaf' = leaf
    BY <1>2 DEF FreePage
  <2>2. /\ Append(reserve, p) \in Seq(Nat) /\ PagesOf(Append(reserve, p)) = PagesOf(reserve) \cup {p}
        /\ Once(reserve) /\ p \notin PagesOf(reserve) => Once(Append(reserve, p))
    BY <1>1, ReserveTakes
  <2>3. Reserve = PagesOf(reserve) /\ Reserve' = PagesOf(Append(reserve, p))
    BY <2>1 DEF Reserve, PagesOf
  <2> HIDE DEF PagesOf, Once
  <2> QED
    BY <2>1, <2>2, <2>3
<1>3. CASE ~(Len(reserve) < ReserveTarget)
  BY <1>1, <1>3 DEF FreePage, Reserve
<1> QED
  BY <1>2, <1>3

\* Free of a page of the client.
LEMMA FreeFreeInv == ASSUME FreeInv, NEW p \in owned, Free(p) PROVE FreeInv'
<1>1. /\ dbState = "open" /\ dbState' = "open" /\ FreePage(p) /\ owned' = owned \ {p}
      /\ UNCHANGED <<named, pageCount, growing, filePages, fileLeaf, fileOwned, parted>>
  BY DEF Free, file
<1>2. p \in 2..(pageCount - 1) /\ pageCount \in Nat /\ p \in Nat
  BY <1>1, FreelistAssumption DEF FreeInv, Kinds, Sizes, InFile, Running
<1>3. /\ reserve' \in Seq(Nat)
      /\ \/ leaf' = leaf /\ Reserve' = Reserve \cup {p}
         \/ leaf' \subseteq leaf \cup {p} /\ Reserve' = Reserve
      /\ Once(reserve) /\ p \notin Reserve => Once(reserve')
  BY <1>1, <1>2, FreePagePlaces
<1>4. Kinds' /\ Sizes'
  BY <1>1, <1>3 DEF FreeInv, Kinds, Sizes, Running
<1>5. InFile'
  BY <1>1, <1>2, <1>3 DEF FreeInv, InFile, Running
<1>6. OneUse'
  BY <1>1, <1>3 DEF FreeInv, OneUse, Running, Pending
<1> QED
  BY <1>1, <1>4, <1>5, <1>6 DEF FreeInv, OneUseInFile

\* Grow counts new pages at the end: nobody has used them.
LEMMA GrowFreeInv == ASSUME FreeInv, Grow \/ GrowSyncFails PROVE FreeInv'
<1> USE FreelistAssumption
<1>1. CASE Grow
  <2>1. /\ dbState = "open" /\ dbState' = "open" /\ growing = 0
        /\ filePages' = filePages + Chunk /\ growing' = pageCount /\ pageCount' = pageCount + Chunk
        /\ UNCHANGED <<leaf, reserve, owned, named, fileLeaf, fileOwned, parted>>
    BY <1>1 DEF Grow
  <2>2. pageCount \in Chunk..filePages /\ filePages \in Nat
    BY <2>1 DEF FreeInv, Kinds, Sizes, Running
  <2>3. Kinds' /\ Sizes'
    BY <2>1, <2>2 DEF FreeInv, Kinds, Sizes
  <2>4. InFile'
    BY <2>1, <2>2 DEF FreeInv, InFile, Running, Reserve
  <2>5. leaf \cup Reserve \cup owned \subseteq 2..(pageCount - 1)
    BY <2>1 DEF FreeInv, InFile, Running
  <2>6. Pending' \cap (leaf \cup Reserve \cup owned) = {}
    BY <2>1, <2>2, <2>5 DEF Pending
  <2>7. OneUse'
    BY <2>1, <2>6 DEF FreeInv, OneUse, Running, Reserve
  <2> QED
    BY <2>1, <2>3, <2>4, <2>7 DEF FreeInv, OneUseInFile
<1>2. CASE GrowSyncFails
  <2>1. /\ dbState = "open" /\ filePages' = filePages + Chunk
        /\ UNCHANGED <<dbState, leaf, reserve, owned, named, pageCount, growing, fileLeaf, fileOwned, parted>>
    BY <1>2 DEF GrowSyncFails, memory
  <2>2. filePages \in Nat
    BY DEF FreeInv, Kinds
  <2>3. Kinds' /\ Sizes'
    BY <2>1, <2>2 DEF FreeInv, Kinds, Sizes, Running
  <2>4. InFile'
    BY <2>1, <2>2 DEF FreeInv, InFile, Running, Reserve
  <2> QED
    BY <2>1, <2>3, <2>4 DEF FreeInv, OneUse, OneUseInFile, Running, Pending, Reserve
<1> QED
  BY <1>1, <1>2

\* Grow frees its next page.
LEMMA GrowFreeFreeInv == ASSUME FreeInv, GrowFree PROVE FreeInv'
<1> USE FreelistAssumption
<1>1. /\ dbState = "open" /\ dbState' = "open" /\ growing # 0 /\ FreePage(growing)
      /\ growing' = 0 \/ (growing' = growing + 1 /\ growing + 1 # pageCount)
      /\ UNCHANGED <<owned, named, pageCount, filePages, fileLeaf, fileOwned, parted>>
  BY DEF GrowFree, file
<1>2. /\ growing \in Chunk..(pageCount - 1) /\ pageCount \in Nat /\ growing \in Nat /\ growing >= 2
  BY <1>1 DEF FreeInv, Kinds, Sizes, Running
<1>3. /\ reserve' \in Seq(Nat)
      /\ \/ leaf' = leaf /\ Reserve' = Reserve \cup {growing}
         \/ leaf' \subseteq leaf \cup {growing} /\ Reserve' = Reserve
      /\ Once(reserve) /\ growing \notin Reserve => Once(reserve')
  BY <1>1, <1>2, FreePagePlaces
<1>4. growing \in Pending /\ Pending' \subseteq Pending \ {growing} /\ growing # Root
  BY <1>1, <1>2, RootIsEarly DEF Pending
<1>5. Kinds' /\ Sizes'
  BY <1>1, <1>2, <1>3 DEF FreeInv, Kinds, Sizes, Running
<1>6. InFile'
  BY <1>1, <1>2, <1>3 DEF FreeInv, InFile, Running
<1>7. OneUse'
  <2> SUFFICES ASSUME ~parted
               PROVE  /\ (leaf \cap Reserve = {} /\ leaf \cap owned = {} /\ Reserve \cap owned = {})'
                      /\ (Root \notin leaf \cup Reserve \cup owned \cup named)'
                      /\ (Pending \cap (leaf \cup Reserve \cup owned) = {})'
                      /\ Once(reserve)'
    BY <1>1 DEF OneUse
  <2>1. /\ leaf \cap Reserve = {} /\ leaf \cap owned = {} /\ Reserve \cap owned = {}
        /\ Root \notin leaf \cup Reserve \cup owned \cup named
        /\ Pending \cap (leaf \cup Reserve \cup owned) = {}
        /\ Once(reserve)
    BY <1>1 DEF FreeInv, OneUse, Running
  <2>2. Root' = Root
    BY DEF Root
  <2> QED
    BY <1>1, <1>3, <1>4, <2>1, <2>2
<1> QED
  BY <1>1, <1>5, <1>6, <1>7 DEF FreeInv, OneUseInFile

\* Pages reach the file, and the process ends.
LEMMA FileFreeInv == ASSUME FreeInv, WriteLeaf \/ WriteMain \/ CloseDB \/ KillDB PROVE FreeInv'
<1>1. CASE WriteLeaf \/ WriteMain
  <2>1. /\ Running /\ UNCHANGED <<dbState, leaf, reserve, owned, named, pageCount, growing, filePages, parted>>
        /\ fileLeaf' \cup fileOwned' \subseteq fileLeaf \cup fileOwned \cup leaf \cup owned
    BY <1>1 DEF WriteLeaf, WriteMain, memory, Running
  <2>2. pageCount \in Chunk..filePages /\ filePages \in Nat /\ Chunk \in Nat
    BY <2>1, FreelistAssumption DEF FreeInv, Kinds, Sizes
  <2>3. InFile'
    BY <2>1, <2>2 DEF FreeInv, InFile, Running, Reserve
  <2> QED
    BY <2>1, <2>3 DEF FreeInv, Kinds, Sizes, OneUse, OneUseInFile, Running, Pending, Reserve
<1>2. CASE CloseDB
  <2>1. PICK kept \in SUBSET owned, stale \in SUBSET (named \ owned) :
          fileOwned' = kept \cup stale /\ parted' = (parted \/ stale \cap leaf # {})
    BY <1>2 DEF CloseDB
  <2>a. /\ dbState = "open" /\ dbState' = "down" /\ reserve' = << >>
        /\ fileLeaf' = leaf /\ fileOwned' \subseteq owned \cup named /\ filePages' = filePages
        /\ ~parted' => ~parted /\ leaf \cap fileOwned' \subseteq leaf \cap owned
    BY <1>2, <2>1 DEF CloseDB, LoseMemory
  <2>2. pageCount \in Chunk..filePages /\ filePages \in Nat /\ Chunk \in Nat
    BY <2>a, FreelistAssumption DEF FreeInv, Kinds, Sizes, Running
  <2>3. InFile'
    BY <2>a, <2>2 DEF FreeInv, InFile, Running
  <2> QED
    BY <2>a, <2>3 DEF FreeInv, Kinds, Sizes, OneUse, OneUseInFile, Running
<1>3. CASE KillDB
  BY <1>3 DEF KillDB, LoseMemory, file, FreeInv, Kinds, Sizes, InFile, OneUse, OneUseInFile, Running
<1> QED
  BY <1>1, <1>2, <1>3

\* Every step preserves the invariant.
LEMMA NextFreeInv == FreeInv /\ [FreelistNext]_freelistVars => FreeInv'
<1> SUFFICES ASSUME FreeInv, [FreelistNext]_freelistVars PROVE FreeInv'
  OBVIOUS
<1>1. CASE UNCHANGED freelistVars
  BY <1>1 DEF freelistVars, memory, file, FreeInv, Kinds, Sizes, InFile, OneUse, OneUseInFile, Running,
              Pending, Reserve
<1> QED
  BY <1>1, SeedFreeInv, OpenFreeInv, CommitFreeInv, AllocTreeFreeInv, AllocReserveFreeInv, FreeFreeInv, GrowFreeInv,
     GrowFreeFreeInv, FileFreeInv DEF FreelistNext

\* The invariant holds in every reachable state.
THEOREM FreelistInvariant == FreelistSpec => []FreeInv
BY InitFreeInv, NextFreeInv, PTL DEF FreelistSpec

\* No page has two uses, and the reserve holds no page twice, over any number of
\* growths and restarts, also after an Update that failed and a Close that left the
\* meta page behind the trees.  Only a kill, and a Close whose freelist has a page
\* that an old root in the meta page is or leads to, end it.
THEOREM NoPageUsedTwice == FreelistSpec => []OneUsePerPage
BY FreelistInvariant, FreeInvPages, PTL

\* Also after kills and failed growths, every page the freelist may hand out lies
\* inside the counted part of the file and behind the meta pages.
THEOREM HandedOutPagesExist == FreelistSpec => []FreePagesExist
BY FreelistInvariant, FreeInvPages, PTL
=============================================================================
