------------------------------ MODULE BufPool ------------------------------
(***************************************************************************)
(* The buffer pool (internal/kdb/bufpool/bufpool.go): pinned frames, dirty *)
(* tracking and clock-sweep eviction.  p.mu makes every method atomic.     *)
(* The contents of a page are a version number.                            *)
(***************************************************************************)
EXTENDS Integers, Sequences, FiniteSets

CONSTANTS
  Pages,
  Capacities,   \* the values SetMaxPages is called with
  MaxPins,      \* bound: simultaneous pins of one page
  MaxVersion,   \* bound: versions of one page
  IOMayFail     \* whether ReadPage and WritePage may return an error

ASSUME PoolAssumption == /\ Capacities \subseteq Nat
                         /\ MaxPins \in Nat \ {0} /\ MaxVersion \in Nat
                         /\ IOMayFail \in BOOLEAN

VARIABLES
  frames,     \* p.frames: cached page -> frame
  clock,      \* p.clock: the cached pages as a ring
  clockHand,  \* p.clockHand, from 0
  maxPages,   \* p.maxPages
  disk,       \* page -> version in the file
  unmarked,   \* pages changed in their frame and not yet marked dirty
  latest,     \* ghost: page -> last version written into a frame
  peak,       \* ghost: most frames the capacities set so far allow
  owed        \* ghost: frames over capacity less the Pins that found two to evict

poolVars == <<frames, clock, clockHand, maxPages, disk, unmarked, latest, peak, owed>>

Frame == [pin : 0..MaxPins, dirty : BOOLEAN, ref : BOOLEAN, ver : 0..MaxVersion]

Cached == DOMAIN frames
Larger(a, b) == IF a > b THEN a ELSE b

PoolInit == /\ frames = << >>
            /\ clock = << >>
            /\ clockHand = 0
            /\ maxPages \in {Larger(n, 1) : n \in Capacities}
            /\ disk = [p \in Pages |-> 0]
            /\ unmarked = {}
            /\ latest = disk
            /\ peak = maxPages
            /\ owed = 0

-----------------------------------------------------------------------------
(* evictOne.  The hand visits clock[(clockHand + j) % n] for j = 0, 1, ... *)
(* and clears the ref bit of every unpinned frame it passes, so it stops   *)
(* at the first unpinned frame whose bit was clear, or in its second round.*)

\* Seeded fault: the hand goes round once.
ScanLimitOneRound == Len(clock)

ScanLimit == 2 * Len(clock)

PageAt(j) == clock[((clockHand + j) % Len(clock)) + 1]

\* Seeded fault: the hand does not skip pinned frames.
StopsAtPinned(j) == ~frames[PageAt(j)].ref \/ j >= Len(clock)

Stops(j) == /\ frames[PageAt(j)].pin = 0
            /\ ~frames[PageAt(j)].ref \/ j >= Len(clock)

StopsAt(j) == Stops(j) /\ \A i \in 0..j - 1 : ~Stops(i)

Evictable == \E j \in 0..ScanLimit - 1 : Stops(j)

\* The frames after the hand has passed j of them.
Swept(j) == [p \in Cached |-> IF frames[p].pin = 0 /\ \E i \in 0..j - 1 : PageAt(i) = p
                                THEN [frames[p] EXCEPT !.ref = FALSE] ELSE frames[p]]

\* Seeded fault: the last entry is cut without taking the victim's place.
ClosedUnswapped(ring, i) == SubSeq(ring, 1, Len(ring) - 1)

\* removeClock: the last entry of the ring takes the place of entry i (from 0).
ClosedAt(ring, i) == SubSeq([ring EXCEPT ![i + 1] = ring[Len(ring)]], 1, Len(ring) - 1)

HandAfter(i) == IF Len(clock) = 1 THEN 0 ELSE i % (Len(clock) - 1)

-----------------------------------------------------------------------------
\* Pin, cache hit.
PinHit(p) == /\ p \in Cached /\ frames[p].pin < MaxPins
             /\ frames' = [frames EXCEPT ![p].pin = @ + 1, ![p].ref = TRUE]
             /\ UNCHANGED <<clock, clockHand, maxPages, disk, unmarked, latest, peak, owed>>

Loaded(p) == [pin |-> 1, dirty |-> FALSE, ref |-> TRUE, ver |-> disk[p]]
Load(fs, p) == [q \in DOMAIN fs \cup {p} |-> IF q = p THEN Loaded(p) ELSE fs[q]]

Full == Cardinality(Cached) >= maxPages

\* Pin, cache miss with room.
PinMiss(p) == /\ p \notin Cached /\ ~Full
              /\ frames' = Load(frames, p)
              /\ clock' = clock \o <<p>>
              /\ UNCHANGED <<clockHand, maxPages, disk, unmarked, latest, peak, owed>>

\* The victim leaves the pool, written back if dirty; then page p is read (ok)
\* or ReadPage fails.
PinEvict(p, ok) ==
  /\ p \notin Cached /\ Full
  /\ ok \/ IOMayFail
  /\ \E j \in 0..ScanLimit - 1 :
       LET victim == PageAt(j)
           i == (clockHand + j) % Len(clock)
           kept == [q \in Cached \ {victim} |-> Swept(j)[q]]
       IN /\ StopsAt(j)
          /\ disk' = IF frames[victim].dirty THEN [disk EXCEPT ![victim] = frames[victim].ver] ELSE disk
          /\ frames' = IF ok THEN Load(kept, p) ELSE kept
          /\ clock' = ClosedAt(clock, i) \o (IF ok THEN <<p>> ELSE << >>)
          /\ clockHand' = HandAfter(i)
  /\ owed' = IF owed > 0 /\ Cardinality({q \in Cached : frames[q].pin = 0}) > 1 THEN owed - 1 ELSE owed
  /\ UNCHANGED <<maxPages, unmarked, latest, peak>>

\* The write-back of a dirty victim fails: Pin returns the error, the ref bits
\* are cleared and the hand stays on the victim.
PinWriteFails(p) ==
  /\ IOMayFail
  /\ p \notin Cached /\ Full
  /\ \E j \in 0..ScanLimit - 1 :
       /\ StopsAt(j) /\ frames[PageAt(j)].dirty
       /\ frames' = Swept(j)
       /\ clockHand' = (clockHand + j) % Len(clock)
  /\ UNCHANGED <<clock, maxPages, disk, unmarked, latest, peak, owed>>

\* Unpin. Its callers mark a page they changed dirty before they let it go; the
\* one that does not (insertLeaf, on an update that ends in a split) rewrites
\* the page right after, and is left to a module of the tree.
Unpin(p) == /\ p \in Cached /\ frames[p].pin > 0
            /\ p \in unmarked => frames[p].pin > 1
            /\ frames' = [frames EXCEPT ![p].pin = @ - 1]
            /\ UNCHANGED <<clock, clockHand, maxPages, disk, unmarked, latest, peak, owed>>

\* A holder of a pin changes frame.Buf in place.
Modify(p) == /\ p \in Cached /\ frames[p].pin > 0
             /\ latest[p] < MaxVersion
             /\ latest' = [latest EXCEPT ![p] = @ + 1]
             /\ frames' = [frames EXCEPT ![p].ver = latest[p] + 1]
             /\ unmarked' = unmarked \cup {p}
             /\ UNCHANGED <<clock, clockHand, maxPages, disk, peak, owed>>

MarkDirty(p) == /\ p \in Cached /\ frames[p].pin > 0
                /\ p \in unmarked
                /\ frames' = [frames EXCEPT ![p].dirty = TRUE]
                /\ unmarked' = unmarked \ {p}
                /\ UNCHANGED <<clock, clockHand, maxPages, disk, latest, peak, owed>>

\* Seeded fault: a flush that stops early marks every frame clean.
WriteBackCleansAll(ps) ==
  /\ disk' = [p \in Pages |-> IF p \in ps THEN frames[p].ver ELSE disk[p]]
  /\ frames' = [p \in Cached |-> [frames[p] EXCEPT !.dirty = FALSE]]
  /\ UNCHANGED <<clock, clockHand, maxPages, unmarked, latest, peak, owed>>

\* The pages of ps are written to the file and marked clean.
WriteBack(ps) == /\ disk' = [p \in Pages |-> IF p \in ps THEN frames[p].ver ELSE disk[p]]
                 /\ frames' = [p \in Cached |-> IF p \in ps THEN [frames[p] EXCEPT !.dirty = FALSE]
                                                             ELSE frames[p]]
                 /\ UNCHANGED <<clock, clockHand, maxPages, unmarked, latest, peak, owed>>

DirtyPages == {p \in Cached : frames[p].dirty}

\* FlushDirty, in map order; a failing WritePage leaves the rest dirty.
FlushDirty == /\ DirtyPages # {}
              /\ \E ps \in SUBSET DirtyPages : (ps = DirtyPages \/ IOMayFail) /\ WriteBack(ps)

FlushPage(p) == p \in DirtyPages /\ WriteBack({p})

\* SetMaxPages: frames over the new capacity are left to later Pins.
SetMaxPages(n) == /\ maxPages' = Larger(n, 1)
                  /\ maxPages' # maxPages
                  /\ peak' = Larger(maxPages', Cardinality(Cached))
                  /\ owed' = Larger(Cardinality(Cached) - maxPages', 0)
                  /\ UNCHANGED <<frames, clock, clockHand, disk, unmarked, latest>>

PoolNext == \/ \E p \in Pages : \/ PinHit(p) \/ PinMiss(p) \/ PinEvict(p, TRUE) \/ PinEvict(p, FALSE)
                                \/ PinWriteFails(p) \/ Unpin(p) \/ Modify(p) \/ MarkDirty(p)
                                \/ FlushPage(p)
            \/ FlushDirty
            \/ \E n \in Capacities : SetMaxPages(n)

PoolSpec == PoolInit /\ [][PoolNext]_poolVars

-----------------------------------------------------------------------------
\* Every variable holds a value of its kind, and the hand is on the ring.
PoolTypeOK == /\ Cached \subseteq Pages /\ \A p \in Cached : frames[p] \in Frame
              /\ clock \in Seq(Pages)
              /\ clockHand \in Nat /\ (clock # << >> => clockHand < Len(clock))
              /\ maxPages \in Nat \ {0}
              /\ disk \in [Pages -> 0..MaxVersion] /\ latest \in [Pages -> 0..MaxVersion]
              /\ unmarked \subseteq Pages
              /\ peak \in Nat /\ owed \in Nat

\* The ring holds every cached page exactly once: removeClock's swap loses no
\* frame and leaves no evicted one behind for the hand to find.
RingMatchesFrames == /\ {clock[i] : i \in 1..Len(clock)} = Cached
                     /\ Len(clock) = Cardinality(Cached)

\* No change to a page is ever lost: the last version is in the frame or, once
\* the page is not cached or its frame is clean, in the file.
NoLostUpdate ==
  \A p \in Pages :
     /\ p \notin Cached => disk[p] = latest[p]
     /\ p \in Cached => frames[p].ver = latest[p]
     /\ p \in Cached /\ ~frames[p].dirty /\ p \notin unmarked => disk[p] = latest[p]

\* A frame that somebody has pinned stays in the pool until the last Unpin.
PinnedStays == [][\A p \in Cached : frames[p].pin > 0 =>
                    p \in DOMAIN frames' /\ frames'[p].pin >= frames[p].pin - 1]_poolVars

\* bufpool.go, evictOne: scanning twice the ring "guarantees termination if any
\* frame is unpinned": Pin fails for want of a victim only if all are pinned.
UnpinnedIsEvictable == (\E p \in Cached : frames[p].pin = 0) => Evictable

\* The pool holds no more frames than its capacity, or than it held when the
\* capacity was last lowered.
CapacityRespected == Cardinality(Cached) <= peak

\* A Pin finds room while any frame is unpinned, and never takes more than there is.
PinFindsRoom == UnpinnedIsEvictable /\ CapacityRespected

\* bufpool.go, SetMaxPages: "excess frames will be evicted lazily on subsequent
\* Pin calls": every Pin that evicts brings the pool closer to its capacity.
ExcessIsEvicted == Cardinality(Cached) <= maxPages + owed
=============================================================================
