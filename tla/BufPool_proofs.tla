--------------------------- MODULE BufPool_proofs ---------------------------
(***************************************************************************)
(* For any pages, capacities, versions and pins, and whatever I/O fails:   *)
(* the ring is the pool, no change to a page is lost, a pinned frame stays *)
(* and a Pin that needs a victim finds one; for any bounds and activity,   *)
(* the pool shrinks slowly.                                                *)
(***************************************************************************)
EXTENDS BufPool, DynPool, FiniteSetTheorems, SequenceTheorems, TLAPS

\* The number of entries of the ring.
N == Len(clock)

\* The ring r holds the pages of S, each once.
IsRing(r, S) == /\ {r[i] : i \in 1..Len(r)} = S
                /\ \A i, j \in 1..Len(r) : r[i] = r[j] => i = j

RingOK == IsRing(clock, Cached)

\* A page that is changed and not yet marked is pinned by who changed it.
ChangedIsPinned == \A p \in unmarked : p \in Cached /\ frames[p].pin > 0

\* The hand of an empty ring is at its start: the first page put on it is under it.
HandAtStart == clock = << >> => clockHand = 0

\* The pool holds what its capacities allow, counted on the ring.
Bounded == maxPages <= peak /\ N <= peak

\* The inductive invariant.  ChangedIsPinned keeps a victim from having a change
\* that nobody has marked; HandAtStart keeps the hand on a ring that grows from
\* nothing, of which PoolTypeOK says nothing.
IInv == PoolTypeOK /\ RingOK /\ HandAtStart /\ ChangedIsPinned /\ NoLostUpdate /\ Bounded

-----------------------------------------------------------------------------
\* The hand is always on an entry of the ring of n pages.
LEMMA HandOnRing ==
  ASSUME NEW n \in Nat \ {0}, NEW h \in Nat
  PROVE  \A j \in Nat : (h + j) % n \in 0..n - 1
OBVIOUS

\* In its second round the hand, started at h, meets every entry k.
LEMMA SecondRound ==
  ASSUME NEW n \in Nat \ {0}, NEW h \in 0..n - 1, NEW k \in 0..n - 1
  PROVE  \E j \in Nat : n <= j /\ j < n + n /\ (h + j) % n = k
<1>1. (k + n) % n = k /\ (k + 2 * n) % n = k
  OBVIOUS
<1>2. CASE h <= k
  <2>1. /\ n + k - h \in Nat /\ n <= n + k - h /\ n + k - h < n + n
        /\ (h + (n + k - h)) % n = k
    BY <1>1, <1>2
  <2> QED
    BY <2>1
<1>3. CASE k < h
  <2>1. /\ 2 * n + k - h \in Nat /\ n <= 2 * n + k - h /\ 2 * n + k - h < n + n
        /\ (h + (2 * n + k - h)) % n = k
    BY <1>1, <1>3
  <2> QED
    BY <2>1
<1> QED
  BY <1>2, <1>3

\* removeClock, closing the hole of entry i of a ring of pages of S.
LEMMA ClosedRing ==
  ASSUME NEW S, NEW ring \in Seq(S), NEW i \in 0..Len(ring)-1
  PROVE  /\ ClosedAt(ring, i) \in Seq(S)
         /\ Len(ClosedAt(ring, i)) = Len(ring) - 1
         /\ \A k \in 1..Len(ring)-1 :
              ClosedAt(ring, i)[k] = IF k = i + 1 THEN ring[Len(ring)] ELSE ring[k]
<1> DEFINE n == Len(ring)
           r == [ring EXCEPT ![i + 1] = ring[n]]
<1>1. n \in Nat /\ n > 0 /\ i + 1 \in 1..n /\ ring[n] \in S
  OBVIOUS
<1>2. r \in Seq(S) /\ Len(r) = n /\ \A k \in 1..n : r[k] = IF k = i + 1 THEN ring[n] ELSE ring[k]
  BY <1>1, ExceptSeq
<1>3. \A k \in 1..n-1 : r[k] \in S
  BY <1>1, <1>2
<1> HIDE DEF r
<1>4. /\ SubSeq(r, 1, n - 1) \in Seq(S)
      /\ Len(SubSeq(r, 1, n - 1)) = n - 1
      /\ \A k \in 1..n-1 : SubSeq(r, 1, n - 1)[k] = r[k]
  BY <1>1, <1>2
<1> QED
  BY <1>1, <1>2, <1>4 DEF ClosedAt, r

\* The hole is closed: the ring keeps every page but the one of entry i.
LEMMA RingWithout ==
  ASSUME NEW P, NEW S, NEW r \in Seq(P), IsRing(r, S), NEW i \in 0..Len(r)-1
  PROVE  IsRing(ClosedAt(r, i), S \ {r[i + 1]})
<1> DEFINE n == Len(r)
           c == ClosedAt(r, i)
<1>1. n \in Nat /\ n > 0 /\ i + 1 \in 1..n
  OBVIOUS
<1>2. Len(c) = n - 1 /\ \A k \in 1..n-1 : c[k] = IF k = i + 1 THEN r[n] ELSE r[k]
  BY ClosedRing
<1> HIDE DEF c
<1>3. \A k, l \in 1..Len(c) : c[k] = c[l] => k = l
  BY <1>1, <1>2 DEF IsRing
<1>4. \A k \in 1..Len(c) : c[k] \in S /\ c[k] # r[i + 1]
  BY <1>1, <1>2 DEF IsRing
<1>5. ASSUME NEW x \in S \ {r[i + 1]} PROVE \E k \in 1..Len(c) : c[k] = x
  <2>1. PICK k \in 1..n : r[k] = x
    BY DEF IsRing
  <2>2. k # i + 1
    BY <2>1
  <2>3. CASE k < n
    BY <1>1, <1>2, <2>1, <2>2, <2>3
  <2>4. CASE k = n
    <3>1. i + 1 \in 1..Len(c) /\ c[i + 1] = x
      BY <1>1, <1>2, <2>1, <2>2, <2>4
    <3> QED
      BY <3>1
  <2> QED
    BY <2>3, <2>4
<1> QED
  BY <1>3, <1>4, <1>5 DEF IsRing, c

\* A page that is not cached joins at the end.
LEMMA RingWith ==
  ASSUME NEW P, NEW S, NEW r \in Seq(P), IsRing(r, S), NEW p \in P, p \notin S
  PROVE  IsRing(r \o <<p>>, S \cup {p}) /\ r \o <<p>> \in Seq(P) /\ Len(r \o <<p>>) = Len(r) + 1
<1> DEFINE c == r \o <<p>>
<1>1. Len(c) = Len(r) + 1 /\ c \in Seq(P) /\ Len(r) \in Nat
  OBVIOUS
<1>2. \A k \in 1..Len(r) : c[k] = r[k]
  OBVIOUS
<1>3. c[Len(r) + 1] = p
  OBVIOUS
<1> HIDE DEF c
<1>4. \A k \in 1..Len(r) : r[k] \in S
  BY DEF IsRing
<1>5. \A k, l \in 1..Len(c) : c[k] = c[l] => k = l
  BY <1>1, <1>2, <1>3, <1>4 DEF IsRing
<1>6. \A k \in 1..Len(c) : c[k] \in S \cup {p}
  BY <1>1, <1>2, <1>3, <1>4
<1>7. ASSUME NEW x \in S \cup {p} PROVE \E k \in 1..Len(c) : c[k] = x
  <2>1. CASE x = p
    <3>1. Len(r) + 1 \in 1..Len(c)
      BY <1>1
    <3> QED
      BY <3>1, <1>3, <2>1
  <2>2. CASE x \in S
    <3>1. PICK k \in 1..Len(r) : r[k] = x
      BY <2>2 DEF IsRing
    <3> QED
      BY <3>1, <1>1, <1>2
  <2> QED
    BY <2>1, <2>2
<1> QED
  BY <1>1, <1>5, <1>6, <1>7 DEF IsRing, c

\* The ring has as many entries as the pool has frames.
LEMMA RingCounts == ASSUME PoolTypeOK, RingOK
                    PROVE  IsFiniteSet(Cached) /\ Cardinality(Cached) = N
<1>1. N \in Nat /\ clock \in [1..N -> Pages]
  BY DEF PoolTypeOK, N
<1> DEFINE f == [i \in 1..N |-> clock[i]]
<1>2. f \in Bijection(1..N, Cached)
  <2>1. f \in [1..N -> Cached] /\ \A x, y \in 1..N : f[x] = f[y] => x = y
    BY DEF RingOK, IsRing, N
  <2>2. \A c \in Cached : \E i \in 1..N : f[i] = c
    BY DEF RingOK, IsRing, N
  <2> QED
    BY <2>1, <2>2 DEF Bijection, Injection, Surjection, IsInjective
<1>3. IsFiniteSet(1..N) /\ Cardinality(1..N) = N
  BY <1>1, FS_Interval
<1> QED
  BY <1>2, <1>3, FS_Bijection DEF ExistsBijection

-----------------------------------------------------------------------------
\* The empty pool satisfies the invariant.
LEMMA InitIInv == PoolInit => IInv
<1> SUFFICES ASSUME PoolInit PROVE IInv
  OBVIOUS
<1>1. Cached = {} /\ N = 0 /\ clock \in Seq(Pages)
  BY DEF PoolInit, Cached, N
<1>2. maxPages \in Nat \ {0}
  BY PoolAssumption DEF PoolInit, Larger
<1>3. PoolTypeOK
  BY <1>1, <1>2, PoolAssumption DEF PoolInit, PoolTypeOK
<1>4. RingOK /\ HandAtStart /\ ChangedIsPinned /\ NoLostUpdate /\ Bounded
  BY <1>1, <1>2 DEF PoolInit, RingOK, HandAtStart, IsRing, N, ChangedIsPinned, NoLostUpdate, Bounded
<1> QED
  BY <1>3, <1>4 DEF IInv

\* The fields of a frame.
LEMMA FrameFields == \A f \in Frame : f.pin \in 0..MaxPins /\ f.ver \in 0..MaxVersion
BY DEF Frame

\* Another pin count, with or without the reference bit, leaves the other fields.
LEMMA PinSet ==
  ASSUME NEW f \in Frame, NEW k \in 0..MaxPins
  PROVE  /\ LET g == [f EXCEPT !.pin = k, !.ref = TRUE]
            IN  g \in Frame /\ g.pin = k /\ g.dirty = f.dirty /\ g.ver = f.ver
         /\ LET g == [f EXCEPT !.pin = k]
            IN  g \in Frame /\ g.pin = k /\ g.dirty = f.dirty /\ g.ver = f.ver
BY DEF Frame

\* So does another version of the page.
LEMMA VersionSet ==
  ASSUME NEW f \in Frame, NEW v \in 0..MaxVersion
  PROVE  LET g == [f EXCEPT !.ver = v]
         IN  g \in Frame /\ g.pin = f.pin /\ g.dirty = f.dirty /\ g.ver = v
BY DEF Frame

\* And so do the dirty flag and the reference bit.
LEMMA FlagSet ==
  ASSUME NEW f \in Frame
  PROVE  /\ LET g == [f EXCEPT !.dirty = TRUE]
            IN  g \in Frame /\ g.pin = f.pin /\ g.dirty = TRUE /\ g.ver = f.ver
         /\ LET g == [f EXCEPT !.dirty = FALSE]
            IN  g \in Frame /\ g.pin = f.pin /\ g.dirty = FALSE /\ g.ver = f.ver
         /\ LET g == [f EXCEPT !.ref = FALSE]
            IN  g \in Frame /\ g.pin = f.pin /\ g.dirty = f.dirty /\ g.ver = f.ver
BY DEF Frame

\* A step that leaves the ring, the capacity and the file alone and replaces one frame.
LEMMA OneFrame ==
  ASSUME IInv, NEW p \in Cached, NEW g \in Frame,
         frames' = [frames EXCEPT ![p] = g],
         UNCHANGED <<clock, clockHand, maxPages, disk, peak, owed>>
  PROVE  /\ \A q \in Cached : frames'[q] = IF q = p THEN g ELSE frames[q]
         /\ Cached' = Cached
         /\ Cached' \subseteq Pages /\ \A q \in Cached' : frames'[q] \in Frame
         /\ RingOK' /\ HandAtStart' /\ Bounded'
BY DEF IInv, PoolTypeOK, RingOK, HandAtStart, Bounded, Cached, N

\* Pin of a cached page: a pin more, and the ref bit.
LEMMA PinHitIInv == ASSUME IInv, NEW p \in Pages, PinHit(p) PROVE IInv'
<1> DEFINE g == [frames[p] EXCEPT !.pin = @ + 1, !.ref = TRUE]
<1>1. /\ p \in Cached /\ frames[p].pin < MaxPins /\ frames[p] \in Frame
      /\ frames' = [frames EXCEPT ![p] = g]
      /\ UNCHANGED <<clock, clockHand, maxPages, disk, unmarked, latest, peak, owed>>
  BY DEF PinHit, IInv, PoolTypeOK, Cached
<1>2. frames[p].pin + 1 \in 0..MaxPins
  BY <1>1, FrameFields, PoolAssumption
<1>3. g \in Frame /\ g.pin = frames[p].pin + 1 /\ g.dirty = frames[p].dirty /\ g.ver = frames[p].ver
  BY <1>1, <1>2, PinSet
<1> HIDE DEF g
<1>4. /\ \A q \in Cached : frames'[q] = IF q = p THEN g ELSE frames[q]
      /\ Cached' = Cached
      /\ Cached' \subseteq Pages /\ \A q \in Cached' : frames'[q] \in Frame
      /\ RingOK' /\ HandAtStart' /\ Bounded'
  BY <1>1, <1>3, OneFrame
<1>5. PoolTypeOK'
  BY <1>1, <1>4 DEF IInv, PoolTypeOK
<1>6. ChangedIsPinned' /\ NoLostUpdate'
  BY <1>1, <1>3, <1>4, FrameFields DEF IInv, ChangedIsPinned, NoLostUpdate
<1> QED
  BY <1>4, <1>5, <1>6 DEF IInv

\* Unpin: who changed the page and has not marked it keeps its pin.
LEMMA UnpinIInv == ASSUME IInv, NEW p \in Pages, Unpin(p) PROVE IInv'
<1> DEFINE g == [frames[p] EXCEPT !.pin = @ - 1]
<1>1. /\ p \in Cached /\ frames[p].pin > 0 /\ frames[p] \in Frame
      /\ p \in unmarked => frames[p].pin > 1
      /\ frames' = [frames EXCEPT ![p] = g]
      /\ UNCHANGED <<clock, clockHand, maxPages, disk, unmarked, latest, peak, owed>>
  BY DEF Unpin, IInv, PoolTypeOK, Cached
<1>2. frames[p].pin - 1 \in 0..MaxPins
  BY <1>1, FrameFields, PoolAssumption
<1>3. g \in Frame /\ g.pin = frames[p].pin - 1 /\ g.dirty = frames[p].dirty /\ g.ver = frames[p].ver
  BY <1>1, <1>2, PinSet
<1> HIDE DEF g
<1>4. /\ \A q \in Cached : frames'[q] = IF q = p THEN g ELSE frames[q]
      /\ Cached' = Cached
      /\ Cached' \subseteq Pages /\ \A q \in Cached' : frames'[q] \in Frame
      /\ RingOK' /\ HandAtStart' /\ Bounded'
  BY <1>1, <1>3, OneFrame
<1>5. PoolTypeOK'
  BY <1>1, <1>4 DEF IInv, PoolTypeOK
<1>6. ChangedIsPinned' /\ NoLostUpdate'
  BY <1>1, <1>3, <1>4, FrameFields DEF IInv, ChangedIsPinned, NoLostUpdate
<1> QED
  BY <1>4, <1>5, <1>6 DEF IInv

\* A change in place: the frame has the last version, the file no longer has.
LEMMA ModifyIInv == ASSUME IInv, NEW p \in Pages, Modify(p) PROVE IInv'
<1> DEFINE v == latest[p] + 1
           g == [frames[p] EXCEPT !.ver = v]
<1>1. /\ p \in Cached /\ frames[p].pin > 0 /\ frames[p] \in Frame
      /\ v \in 0..MaxVersion
      /\ frames' = [frames EXCEPT ![p] = g]
      /\ latest' = [latest EXCEPT ![p] = v]
      /\ unmarked' = unmarked \cup {p}
      /\ UNCHANGED <<clock, clockHand, maxPages, disk, peak, owed>>
  BY PoolAssumption DEF Modify, IInv, PoolTypeOK, Cached
<1>2. g \in Frame /\ g.pin = frames[p].pin /\ g.dirty = frames[p].dirty /\ g.ver = v
  BY <1>1, VersionSet
<1> HIDE DEF g, v
<1>3. /\ \A q \in Cached : frames'[q] = IF q = p THEN g ELSE frames[q]
      /\ Cached' = Cached
      /\ Cached' \subseteq Pages /\ \A q \in Cached' : frames'[q] \in Frame
      /\ RingOK' /\ HandAtStart' /\ Bounded'
  BY <1>1, <1>2, OneFrame
<1>4. PoolTypeOK'
  BY <1>1, <1>3 DEF IInv, PoolTypeOK
<1>5. ChangedIsPinned' /\ NoLostUpdate'
  BY <1>1, <1>2, <1>3 DEF IInv, PoolTypeOK, ChangedIsPinned, NoLostUpdate
<1> QED
  BY <1>3, <1>4, <1>5 DEF IInv

\* MarkDirty.
LEMMA MarkDirtyIInv == ASSUME IInv, NEW p \in Pages, MarkDirty(p) PROVE IInv'
<1> DEFINE g == [frames[p] EXCEPT !.dirty = TRUE]
<1>1. /\ p \in Cached /\ frames[p] \in Frame
      /\ frames' = [frames EXCEPT ![p] = g]
      /\ unmarked' = unmarked \ {p}
      /\ UNCHANGED <<clock, clockHand, maxPages, disk, latest, peak, owed>>
  BY DEF MarkDirty, IInv, PoolTypeOK, Cached
<1>2. g \in Frame /\ g.pin = frames[p].pin /\ g.dirty = TRUE /\ g.ver = frames[p].ver
  BY <1>1, FlagSet
<1> HIDE DEF g
<1>3. /\ \A q \in Cached : frames'[q] = IF q = p THEN g ELSE frames[q]
      /\ Cached' = Cached
      /\ Cached' \subseteq Pages /\ \A q \in Cached' : frames'[q] \in Frame
      /\ RingOK' /\ HandAtStart' /\ Bounded'
  BY <1>1, <1>2, OneFrame
<1>4. PoolTypeOK'
  BY <1>1, <1>3 DEF IInv, PoolTypeOK
<1>5. ChangedIsPinned' /\ NoLostUpdate'
  BY <1>1, <1>2, <1>3 DEF IInv, ChangedIsPinned, NoLostUpdate
<1> QED
  BY <1>3, <1>4, <1>5 DEF IInv

\* FlushDirty and FlushPage: a frame is clean when its page is in the file.
LEMMA WriteBackIInv == ASSUME IInv, NEW ps \in SUBSET DirtyPages, WriteBack(ps) PROVE IInv'
<1>1. /\ disk' = [p \in Pages |-> IF p \in ps THEN frames[p].ver ELSE disk[p]]
      /\ Cached' = Cached
      /\ \A q \in Cached :
            frames'[q] = IF q \in ps THEN [frames[q] EXCEPT !.dirty = FALSE] ELSE frames[q]
      /\ UNCHANGED <<clock, clockHand, maxPages, unmarked, latest, peak, owed>>
  BY DEF WriteBack, Cached
<1>2. /\ ps \subseteq Cached /\ Cached \subseteq Pages
      /\ \A q \in Cached : frames[q] \in Frame /\ frames[q].ver \in 0..MaxVersion
  BY FrameFields DEF DirtyPages, IInv, PoolTypeOK
<1>3. \A q \in Cached :
        /\ frames'[q] \in Frame /\ frames'[q].pin = frames[q].pin /\ frames'[q].ver = frames[q].ver
        /\ q \notin ps => frames'[q].dirty = frames[q].dirty
  <2> SUFFICES ASSUME NEW q \in Cached
               PROVE  /\ frames'[q] \in Frame /\ frames'[q].pin = frames[q].pin
                      /\ frames'[q].ver = frames[q].ver
                      /\ q \notin ps => frames'[q].dirty = frames[q].dirty
    OBVIOUS
  <2> DEFINE g == [frames[q] EXCEPT !.dirty = FALSE]
  <2>1. CASE q \in ps
    <3>1. frames'[q] = g
      BY <1>1, <2>1
    <3>2. g \in Frame /\ g.pin = frames[q].pin /\ g.ver = frames[q].ver
      BY <1>2, FlagSet
    <3> HIDE DEF g
    <3> QED
      BY <2>1, <3>1, <3>2
  <2>2. CASE q \notin ps
    BY <1>1, <1>2, <2>2
  <2> QED
    BY <2>1, <2>2
<1>4. PoolTypeOK'
  BY <1>1, <1>2, <1>3 DEF IInv, PoolTypeOK
<1>5. RingOK' /\ HandAtStart' /\ Bounded' /\ ChangedIsPinned'
  BY <1>1, <1>3 DEF IInv, RingOK, HandAtStart, Bounded, ChangedIsPinned, N
<1>6. NoLostUpdate'
  BY <1>1, <1>2, <1>3 DEF IInv, NoLostUpdate
<1> QED
  BY <1>4, <1>5, <1>6 DEF IInv

\* SetMaxPages: the ghost keeps what the pool held.
LEMMA SetMaxPagesIInv == ASSUME IInv, NEW n \in Capacities, SetMaxPages(n) PROVE IInv'
<1>1. /\ maxPages' = Larger(n, 1)
      /\ peak' = Larger(maxPages', Cardinality(Cached))
      /\ owed' = Larger(Cardinality(Cached) - maxPages', 0)
      /\ UNCHANGED <<frames, clock, clockHand, disk, unmarked, latest>>
  BY DEF SetMaxPages
<1>2. Cardinality(Cached) = N /\ N \in Nat /\ n \in Nat
  BY RingCounts, PoolAssumption DEF IInv, PoolTypeOK, N
<1>3. /\ maxPages' \in Nat \ {0} /\ peak' \in Nat /\ owed' \in Nat
      /\ maxPages' <= peak' /\ N <= peak'
  BY <1>1, <1>2 DEF Larger
<1>4. PoolTypeOK' /\ Bounded'
  BY <1>1, <1>3 DEF IInv, PoolTypeOK, Bounded, Cached, N
<1>5. (RingOK /\ HandAtStart /\ ChangedIsPinned /\ NoLostUpdate)'
  BY <1>1 DEF IInv, RingOK, HandAtStart, ChangedIsPinned, NoLostUpdate, Cached, N
<1> QED
  BY <1>4, <1>5 DEF IInv
\* The frames the hand has passed lose their ref bit and nothing else.
LEMMA SweptFrames ==
  ASSUME IInv, NEW j \in Nat
  PROVE  /\ DOMAIN Swept(j) = Cached
         /\ \A q \in Cached : /\ Swept(j)[q] \in Frame /\ Swept(j)[q].pin = frames[q].pin
                              /\ Swept(j)[q].dirty = frames[q].dirty
                              /\ Swept(j)[q].ver = frames[q].ver
<1>1. DOMAIN Swept(j) = Cached
  BY DEF Swept
<1>2. ASSUME NEW q \in Cached
      PROVE  /\ Swept(j)[q] \in Frame /\ Swept(j)[q].pin = frames[q].pin
             /\ Swept(j)[q].dirty = frames[q].dirty /\ Swept(j)[q].ver = frames[q].ver
  <2> DEFINE g == [frames[q] EXCEPT !.ref = FALSE]
  <2>1. frames[q] \in Frame
    BY DEF IInv, PoolTypeOK
  <2>2. Swept(j)[q] \in {g, frames[q]}
    BY DEF Swept
  <2>3. g \in Frame /\ g.pin = frames[q].pin /\ g.dirty = frames[q].dirty /\ g.ver = frames[q].ver
    BY <2>1, FlagSet
  <2> HIDE DEF g
  <2> QED
    BY <2>1, <2>2, <2>3
<1> QED
  BY <1>1, <1>2

\* Where the hand stops there is an unpinned frame; nobody has a change in it.
LEMMA StopsAtUnpinned ==
  ASSUME IInv, NEW j \in 0..ScanLimit - 1, Stops(j)
  PROVE  /\ N \in Nat \ {0} /\ (clockHand + j) % Len(clock) \in 0..N - 1
         /\ PageAt(j) = clock[((clockHand + j) % Len(clock)) + 1]
         /\ PageAt(j) \in Cached /\ frames[PageAt(j)].pin = 0 /\ PageAt(j) \notin unmarked
<1>1. N \in Nat \ {0} /\ j \in Nat /\ clockHand \in 0..N - 1
  BY DEF IInv, PoolTypeOK, ScanLimit, N
<1>2. (clockHand + j) % N \in 0..N - 1
  BY <1>1, HandOnRing
<1>3. PageAt(j) = clock[((clockHand + j) % N) + 1]
  BY DEF PageAt, N
<1>4. PageAt(j) \in Cached
  BY <1>1, <1>2, <1>3 DEF IInv, RingOK, IsRing, N
<1>5. frames[PageAt(j)].pin = 0
  BY DEF Stops
<1> QED
  BY <1>1, <1>2, <1>3, <1>4, <1>5 DEF IInv, ChangedIsPinned, N

\* Pin of a page that is not cached, with room: the frame holds what the file has.
LEMMA PinMissIInv == ASSUME IInv, NEW p \in Pages, PinMiss(p) PROVE IInv'
<1>1. /\ p \notin Cached /\ ~Full
      /\ frames' = Load(frames, p)
      /\ clock' = clock \o <<p>>
      /\ UNCHANGED <<clockHand, maxPages, disk, unmarked, latest, peak, owed>>
  BY DEF PinMiss
<1>2. Cached' = Cached \cup {p} /\ \A q \in Cached' : frames'[q] = IF q = p THEN Loaded(p) ELSE frames[q]
  BY <1>1 DEF Load, Cached
<1>3. N \in Nat /\ N < maxPages /\ maxPages \in Nat \ {0} /\ clock \in Seq(Pages)
  BY <1>1, RingCounts, SMTT(30) DEF IInv, PoolTypeOK, Full, N
<1>4. IsRing(clock', Cached') /\ clock' \in Seq(Pages) /\ Len(clock') = N + 1
  BY <1>1, <1>2, <1>3, RingWith DEF IInv, RingOK, N
<1>5. Loaded(p) \in Frame /\ Loaded(p).ver = disk[p] /\ disk[p] = latest[p]
  BY <1>1, PoolAssumption DEF Loaded, Frame, IInv, PoolTypeOK, NoLostUpdate
<1>6. PoolTypeOK'
  <2>1. clockHand' < Len(clock')
    BY <1>1, <1>3, <1>4 DEF IInv, PoolTypeOK, HandAtStart, N
  <2>2. Cached' \subseteq Pages /\ \A q \in Cached' : frames'[q] \in Frame
    BY <1>2, <1>5 DEF IInv, PoolTypeOK
  <2> QED
    BY <1>1, <1>4, <2>1, <2>2 DEF IInv, PoolTypeOK
<1>7. ChangedIsPinned'
  BY <1>1, <1>2 DEF IInv, ChangedIsPinned
<1>8. NoLostUpdate'
  BY <1>1, <1>2, <1>5 DEF IInv, NoLostUpdate
<1>9. Bounded' /\ RingOK' /\ HandAtStart'
  <2>1. clock' # << >>
    BY <1>3, <1>4
  <2>2. Bounded'
    BY <1>1, <1>3, <1>4 DEF IInv, Bounded, PoolTypeOK, N
  <2> QED
    BY <1>4, <2>1, <2>2 DEF RingOK, HandAtStart
<1> QED
  BY <1>6, <1>7, <1>8, <1>9 DEF IInv

\* The write-back of the victim failed: the pool is as before but for ref bits.
LEMMA PinWriteFailsIInv == ASSUME IInv, NEW p \in Pages, PinWriteFails(p) PROVE IInv'
<1>1. PICK j \in 0..ScanLimit - 1 :
         /\ Stops(j)
         /\ frames' = Swept(j)
         /\ clockHand' = (clockHand + j) % Len(clock)
  BY DEF PinWriteFails, StopsAt
<1>2. UNCHANGED <<clock, maxPages, disk, unmarked, latest, peak, owed>>
  BY DEF PinWriteFails
<1>3. N \in Nat \ {0} /\ clockHand' \in 0..N - 1
  BY <1>1, StopsAtUnpinned
<1>4. /\ Cached' = Cached
      /\ \A q \in Cached : /\ frames'[q] \in Frame /\ frames'[q].pin = frames[q].pin
                           /\ frames'[q].dirty = frames[q].dirty /\ frames'[q].ver = frames[q].ver
  BY <1>1, <1>3, SweptFrames DEF Cached, ScanLimit, N
<1>5. PoolTypeOK'
  BY <1>2, <1>3, <1>4 DEF IInv, PoolTypeOK, N
<1>6. RingOK' /\ HandAtStart' /\ Bounded' /\ ChangedIsPinned'
  BY <1>2, <1>3, <1>4 DEF IInv, RingOK, HandAtStart, Bounded, ChangedIsPinned, N
<1>7. NoLostUpdate'
  BY <1>2, <1>4 DEF IInv, NoLostUpdate
<1> QED
  BY <1>5, <1>6, <1>7 DEF IInv

\* The victim is not pinned, its last version is in the file when it goes, and the
\* frames that stay differ in ref bits only.
Evicted(victim, p, ok) ==
  /\ frames[victim].pin = 0 /\ victim \notin unmarked
  /\ disk' = IF frames[victim].dirty THEN [disk EXCEPT ![victim] = frames[victim].ver] ELSE disk
  /\ Cached' = (Cached \ {victim}) \cup (IF ok THEN {p} ELSE {})
  /\ \A q \in Cached \ {victim} :
       /\ frames'[q] \in Frame /\ frames'[q].pin = frames[q].pin
       /\ frames'[q].dirty = frames[q].dirty /\ frames'[q].ver = frames[q].ver
  /\ ok => frames'[p] = Loaded(p)
  /\ IsRing(clock', Cached') /\ clock' \in Seq(Pages)
  /\ Len(clock') = IF ok THEN N ELSE N - 1
  /\ clockHand' \in Nat /\ IF clock' = << >> THEN clockHand' = 0 ELSE clockHand' < Len(clock')

\* What an eviction does.
LEMMA Eviction ==
  ASSUME IInv, NEW p \in Pages, NEW ok \in BOOLEAN, PinEvict(p, ok)
  PROVE  \E victim \in Cached : Evicted(victim, p, ok)
<1>1. PICK j \in 0..ScanLimit - 1 :
       LET victim == PageAt(j)
           i == (clockHand + j) % Len(clock)
           kept == [q \in Cached \ {victim} |-> Swept(j)[q]]
       IN /\ StopsAt(j)
          /\ disk' = IF frames[victim].dirty THEN [disk EXCEPT ![victim] = frames[victim].ver] ELSE disk
          /\ frames' = IF ok THEN Load(kept, p) ELSE kept
          /\ clock' = ClosedAt(clock, i) \o (IF ok THEN <<p>> ELSE << >>)
          /\ clockHand' = HandAfter(i)
  BY DEF PinEvict
<1> DEFINE victim == PageAt(j)
           i == (clockHand + j) % Len(clock)
           kept == [q \in Cached \ {victim} |-> Swept(j)[q]]
           ring == ClosedAt(clock, i)
<1>2. /\ N \in Nat \ {0} /\ i \in 0..N - 1 /\ victim = clock[i + 1]
      /\ victim \in Cached /\ frames[victim].pin = 0 /\ victim \notin unmarked
  BY <1>1, StopsAtUnpinned DEF StopsAt
<1>3. \A q \in Cached \ {victim} :
        /\ kept[q] \in Frame /\ kept[q].pin = frames[q].pin
        /\ kept[q].dirty = frames[q].dirty /\ kept[q].ver = frames[q].ver
  BY <1>2, SweptFrames DEF ScanLimit, N
<1>4. DOMAIN kept = Cached \ {victim}
  OBVIOUS
<1>5. p \notin Cached /\ clock \in Seq(Pages)
  BY DEF PinEvict, IInv, PoolTypeOK
<1>6. /\ IsRing(ring, Cached \ {victim})
      /\ ring \in Seq(Pages) /\ Len(ring) = N - 1
  <2>1. IsRing(clock, Cached) /\ i \in 0..Len(clock) - 1
    BY <1>2 DEF IInv, RingOK, N
  <2> HIDE DEF i
  <2>2. IsRing(ring, Cached \ {clock[i + 1]})
    BY <1>5, <2>1, RingWithout
  <2>3. ring \in Seq(Pages) /\ Len(ring) = Len(clock) - 1
    BY <1>5, <2>1, ClosedRing
  <2> QED
    BY <1>2, <2>2, <2>3 DEF N
<1>7. HandAfter(i) \in Nat /\ IF N = 1 THEN HandAfter(i) = 0 ELSE HandAfter(i) < N - 1
  <2>1. CASE N = 1
    BY <2>1 DEF HandAfter, N
  <2>2. CASE N # 1
    <3> DEFINE m == N - 1
    <3>1. m \in Nat \ {0} /\ i \in Nat
      BY <1>2, <2>2
    <3> HIDE DEF m, i
    <3>2. i % m \in 0..m - 1
      BY <3>1
    <3>3. HandAfter(i) = i % m
      BY <2>2 DEF HandAfter, N, m
    <3> QED
      BY <2>2, <3>1, <3>2, <3>3 DEF m
  <2> QED
    BY <2>1, <2>2
<1> HIDE DEF victim, i, kept, ring
<1>8. /\ disk' = IF frames[victim].dirty THEN [disk EXCEPT ![victim] = frames[victim].ver] ELSE disk
      /\ frames' = IF ok THEN Load(kept, p) ELSE kept
      /\ clock' = ring \o (IF ok THEN <<p>> ELSE << >>)
      /\ clockHand' = HandAfter(i)
  BY <1>1 DEF victim, i, kept, ring
<1>9. CASE ok
  <2>1. clock' = ring \o <<p>> /\ frames' = Load(kept, p)
    BY <1>8, <1>9
  <2>2. Cached' = (Cached \ {victim}) \cup {p}
    BY <1>4, <2>1 DEF Load, Cached
  <2>3. IsRing(clock', Cached') /\ clock' \in Seq(Pages) /\ Len(clock') = N
    BY <1>2, <1>5, <1>6, <2>1, <2>2, RingWith
  <2>4. \A q \in Cached \ {victim} : frames'[q] = kept[q]
    BY <1>4, <1>5, <2>1 DEF Load
  <2>5. frames'[p] = Loaded(p)
    BY <2>1 DEF Load
  <2>6. clockHand' \in Nat /\ clockHand' < Len(clock')
    BY <1>2, <1>7, <1>8, <2>3
  <2>7. clock' # << >>
    BY <1>2, <2>3
  <2>8. \A q \in Cached \ {victim} :
          /\ frames'[q] \in Frame /\ frames'[q].pin = frames[q].pin
          /\ frames'[q].dirty = frames[q].dirty /\ frames'[q].ver = frames[q].ver
    BY <1>3, <2>4
  <2>9. Evicted(victim, p, ok)
    BY <1>2, <1>8, <1>9, <2>2, <2>3, <2>5, <2>6, <2>7, <2>8 DEF Evicted
  <2> QED
    BY <1>2, <2>9
<1>10. CASE ~ok
  <2>1. clock' = ring /\ frames' = kept
    BY <1>6, <1>8, <1>10
  <2>2. Cached' = Cached \ {victim}
    BY <1>4, <2>1 DEF Cached
  <2>3. IF clock' = << >> THEN clockHand' = 0 ELSE clockHand' < Len(clock')
    <3>1. clock' = << >> <=> N = 1
      BY <1>2, <1>6, <2>1
    <3> QED
      BY <1>2, <1>6, <1>7, <1>8, <2>1, <3>1
  <2>4. clockHand' \in Nat
    BY <1>7, <1>8
  <2>5. Evicted(victim, p, ok)
    BY <1>2, <1>3, <1>6, <1>8, <1>10, <2>1, <2>2, <2>3, <2>4 DEF Evicted
  <2> QED
    BY <1>2, <2>5
<1> QED
  BY <1>9, <1>10

\* Pin that evicts, whether the page it wants can be read or not.
LEMMA PinEvictIInv ==
  ASSUME IInv, NEW p \in Pages, NEW ok \in BOOLEAN, PinEvict(p, ok) PROVE IInv'
<1>0. PICK victim \in Cached : Evicted(victim, p, ok)
  BY Eviction
<1>1. /\ frames[victim].pin = 0 /\ victim \notin unmarked
      /\ disk' = IF frames[victim].dirty THEN [disk EXCEPT ![victim] = frames[victim].ver] ELSE disk
      /\ Cached' = (Cached \ {victim}) \cup (IF ok THEN {p} ELSE {})
      /\ \A q \in Cached \ {victim} :
           /\ frames'[q] \in Frame /\ frames'[q].pin = frames[q].pin
           /\ frames'[q].dirty = frames[q].dirty /\ frames'[q].ver = frames[q].ver
      /\ ok => frames'[p] = Loaded(p)
      /\ IsRing(clock', Cached') /\ clock' \in Seq(Pages)
      /\ Len(clock') = IF ok THEN N ELSE N - 1
      /\ clockHand' \in Nat /\ IF clock' = << >> THEN clockHand' = 0 ELSE clockHand' < Len(clock')
  BY <1>0 DEF Evicted
<1>2. p \notin Cached /\ UNCHANGED <<maxPages, unmarked, latest, peak>>
  BY DEF PinEvict
<1>3. /\ Cached \subseteq Pages /\ frames[victim].ver \in 0..MaxVersion
      /\ disk \in [Pages -> 0..MaxVersion] /\ N \in Nat /\ owed \in Nat
  BY FrameFields DEF IInv, PoolTypeOK, N
<1>4. /\ disk' \in [Pages -> 0..MaxVersion] /\ disk'[victim] = latest[victim]
      /\ \A q \in Pages \ {victim} : disk'[q] = disk[q]
  BY <1>1, <1>3 DEF IInv, NoLostUpdate
<1>5. Loaded(p) \in Frame /\ Loaded(p).ver = latest[p] /\ disk'[p] = latest[p]
  BY <1>1, <1>2, <1>3, <1>4, PoolAssumption DEF Loaded, Frame, IInv, NoLostUpdate
<1>6. owed' \in Nat
  BY <1>3 DEF PinEvict
<1>7. PoolTypeOK'
  <2>1. Cached' \subseteq Pages /\ \A q \in Cached' : frames'[q] \in Frame
    BY <1>1, <1>3, <1>5
  <2> QED
    BY <1>1, <1>2, <1>4, <1>6, <2>1 DEF IInv, PoolTypeOK
<1>8. ChangedIsPinned'
  BY <1>1, <1>2 DEF IInv, ChangedIsPinned
<1>9. NoLostUpdate'
  BY <1>1, <1>2, <1>3, <1>4, <1>5 DEF IInv, NoLostUpdate
<1>10. RingOK' /\ HandAtStart' /\ Bounded'
  BY <1>1, <1>2, <1>3 DEF IInv, RingOK, HandAtStart, Bounded, PoolTypeOK, N
<1> QED
  BY <1>7, <1>8, <1>9, <1>10 DEF IInv

\* Every step of the pool preserves the invariant.
LEMMA NextIInv == IInv /\ [PoolNext]_poolVars => IInv'
<1> SUFFICES ASSUME IInv, [PoolNext]_poolVars PROVE IInv'
  OBVIOUS
<1>1. ASSUME NEW p \in Pages, PinHit(p) \/ PinMiss(p) \/ Unpin(p) \/ Modify(p) \/ MarkDirty(p)
      PROVE  IInv'
  BY <1>1, PinHitIInv, PinMissIInv, UnpinIInv, ModifyIInv, MarkDirtyIInv
<1>2. ASSUME NEW p \in Pages, PinEvict(p, TRUE) \/ PinEvict(p, FALSE) \/ PinWriteFails(p) PROVE IInv'
  BY <1>2, PinEvictIInv, PinWriteFailsIInv
<1>3. ASSUME NEW p \in Pages, FlushPage(p) PROVE IInv'
  BY <1>3, WriteBackIInv DEF FlushPage
<1>4. CASE FlushDirty
  BY <1>4, WriteBackIInv DEF FlushDirty
<1>5. ASSUME NEW n \in Capacities, SetMaxPages(n) PROVE IInv'
  BY <1>5, SetMaxPagesIInv
<1>6. CASE UNCHANGED poolVars
  BY <1>6 DEF poolVars, IInv, PoolTypeOK, RingOK, HandAtStart, ChangedIsPinned, NoLostUpdate,
                  Bounded, Cached, N
<1> QED
  BY <1>1, <1>2, <1>3, <1>4, <1>5, <1>6 DEF PoolNext

\* The invariant holds in every reachable state.
THEOREM PoolInvariant == PoolSpec => []IInv
BY InitIInv, NextIInv, PTL DEF PoolSpec

\* The ring holds every cached page exactly once, whatever evictions, failures and
\* changes of the capacity came before.
THEOREM RingIsThePool == PoolSpec => []RingMatchesFrames
<1>1. IInv => RingMatchesFrames
  BY RingCounts DEF IInv, RingOK, IsRing, RingMatchesFrames, N
<1> QED
  BY <1>1, PoolInvariant, PTL

\* No change to a page is ever lost: an eviction writes back what was marked, and
\* what was not marked is not evicted.
THEOREM NoChangeIsLost == PoolSpec => []NoLostUpdate
BY PoolInvariant, PTL DEF IInv

\* No step takes a pinned frame from its holder: evictOne passes it, and only
\* Unpin lowers its pins, one at a time.
THEOREM PinnedFramesStay == PoolSpec => PinnedStays
<1> DEFINE Stays == \A p \in Cached : frames[p].pin > 0 =>
                      p \in DOMAIN frames' /\ frames'[p].pin >= frames[p].pin - 1
<1>1. IInv /\ [PoolNext]_poolVars => [Stays]_poolVars
  <2> SUFFICES ASSUME IInv, [PoolNext]_poolVars, NEW q \in Cached, frames[q].pin > 0
               PROVE  q \in DOMAIN frames' /\ frames'[q].pin >= frames[q].pin - 1
    OBVIOUS
  <2>1. frames[q] \in Frame /\ frames[q].pin \in Nat
    BY FrameFields DEF IInv, PoolTypeOK
  <2>2. ASSUME NEW p \in Pages, NEW ok \in BOOLEAN, PinEvict(p, ok)
        PROVE  q \in DOMAIN frames' /\ frames'[q].pin >= frames[q].pin - 1
    <3>1. PICK victim \in Cached :
             /\ frames[victim].pin = 0
             /\ Cached' = (Cached \ {victim}) \cup (IF ok THEN {p} ELSE {})
             /\ \A r \in Cached \ {victim} : frames'[r].pin = frames[r].pin
      BY <2>2, Eviction DEF Evicted
    <3>2. q # victim
      BY <3>1
    <3>3. q \in Cached' /\ frames'[q].pin = frames[q].pin
      BY <3>1, <3>2
    <3> QED
      BY <2>1, <3>3 DEF Cached
  <2>3. ASSUME NEW p \in Pages, PinHit(p) \/ Unpin(p) \/ Modify(p) \/ MarkDirty(p)
        PROVE  q \in DOMAIN frames' /\ frames'[q].pin >= frames[q].pin - 1
    <3>1. DOMAIN frames' = Cached
      BY <2>3 DEF PinHit, Unpin, Modify, MarkDirty, Cached
    <3>2. frames'[q].pin \in {frames[q].pin, frames[q].pin + 1, frames[q].pin - 1}
      BY <2>1, <2>3 DEF PinHit, Unpin, Modify, MarkDirty, Cached, Frame
    <3> QED
      BY <2>1, <3>1, <3>2
  <2>4. ASSUME NEW p \in Pages, PinMiss(p)
        PROVE  q \in DOMAIN frames' /\ frames'[q].pin >= frames[q].pin - 1
    BY <2>1, <2>4 DEF PinMiss, Load, Cached
  <2>5. ASSUME NEW p \in Pages, PinWriteFails(p)
        PROVE  q \in DOMAIN frames' /\ frames'[q].pin >= frames[q].pin - 1
    <3>1. PICK j \in 0..ScanLimit - 1 : Stops(j) /\ frames' = Swept(j)
      BY <2>5 DEF PinWriteFails, StopsAt
    <3>2. j \in Nat
      BY <3>1, StopsAtUnpinned DEF ScanLimit, N
    <3> QED
      BY <2>1, <3>1, <3>2, SweptFrames
  <2>6. ASSUME NEW ps \in SUBSET DirtyPages, WriteBack(ps)
        PROVE  q \in DOMAIN frames' /\ frames'[q].pin >= frames[q].pin - 1
    <3>1. DOMAIN frames' = Cached /\ frames'[q].pin = frames[q].pin
      BY <2>1, <2>6 DEF WriteBack, Cached, Frame
    <3> QED
      BY <2>1, <3>1
  <2>7. CASE UNCHANGED frames
    BY <2>1, <2>7 DEF Cached
  <2> QED
    BY <2>2, <2>3, <2>4, <2>5, <2>6, <2>7 DEF PoolNext, FlushDirty, FlushPage, SetMaxPages, poolVars
<1> QED
  BY <1>1, PoolInvariant, PTL DEF PoolSpec, PinnedStays

\* The hand reaches every entry in its second round, where it no longer heeds ref bits.
LEMMA SecondRoundReaches ==
  ASSUME IInv, NEW k \in 1..N
  PROVE  \E j \in Nat : N <= j /\ j < N + N /\ PageAt(j) = clock[k]
<1>1. N \in Nat \ {0} /\ clockHand \in 0..N - 1 /\ k - 1 \in 0..N - 1
  BY DEF IInv, PoolTypeOK, N
<1>2. PICK j \in Nat : N <= j /\ j < N + N /\ (clockHand + j) % N = k - 1
  BY <1>1, SecondRound
<1>3. PageAt(j) = clock[k]
  BY <1>1, <1>2 DEF PageAt, N
<1> QED
  BY <1>2, <1>3

\* evictOne's promise: a Pin that finds the pool full and one of its frames
\* unpinned always finds a victim, and the pool never outgrows its capacity (or
\* what it held when the capacity was lowered).
THEOREM PinFindsVictim == PoolSpec => []PinFindsRoom
<1>1. IInv => UnpinnedIsEvictable
  <2> SUFFICES ASSUME IInv, NEW p \in Cached, frames[p].pin = 0 PROVE Evictable
    BY DEF UnpinnedIsEvictable
  <2>1. PICK k \in 1..N : clock[k] = p
    BY DEF IInv, RingOK, IsRing, N
  <2>2. PICK j \in Nat : N <= j /\ j < N + N /\ PageAt(j) = p
    BY <2>1, SecondRoundReaches
  <2>3. N \in Nat
    BY DEF IInv, PoolTypeOK, N
  <2>4. Stops(j) /\ j \in 0..ScanLimit - 1
    BY <2>2, <2>3 DEF Stops, ScanLimit, N
  <2> QED
    BY <2>4 DEF Evictable
<1>2. IInv => CapacityRespected
  BY RingCounts DEF IInv, Bounded, CapacityRespected
<1> QED
  BY <1>1, <1>2, PoolInvariant, PTL DEF PinFindsRoom

-----------------------------------------------------------------------------
(* Adaptive sizing                                                         *)

\* The capacity is within its bounds, and the counter of high samples counts
\* those since the last resize.
SizingInv == /\ CapacityInBounds
             /\ consecutiveHigh \in 0..ShrinkConsecutive
             /\ streak = consecutiveHigh

\* Growth by a quarter, and a shrink, end between the bounds they are cut to.
LEMMA ResizeStaysInBounds ==
  ASSUME CapacityInBounds
  PROVE  /\ capacity < MaxPages => GrownCapacity(capacity) \in MinPages..MaxPages
         /\ capacity > MinPages => Shrunk(capacity) \in MinPages..MaxPages
<1>1. MinPages \in Nat /\ MaxPages \in Nat /\ capacity \in Nat /\ MinPages <= capacity /\ capacity <= MaxPages
  BY DynAssumption DEF CapacityInBounds
<1>2. (5 * capacity) \div 4 \in Nat /\ (4 * capacity) \div 5 \in Nat /\ (4 * capacity) \div 5 <= capacity
  BY <1>1
<1> QED
  BY <1>1, <1>2 DEF GrownCapacity, Shrunk, AtMost, AtLeast

\* Every sample keeps the invariant.
LEMMA SampleKeepsInv == SizingInv /\ [DynNext]_dynVars => SizingInv'
<1> SUFFICES ASSUME SizingInv, [DynNext]_dynVars
             PROVE  SizingInv'
  OBVIOUS
<1>1. ShrinkConsecutive \in Nat \ {0} /\ consecutiveHigh \in Nat
  BY DynAssumption DEF SizingInv
<1>2. CASE UNCHANGED dynVars
  BY <1>2 DEF dynVars, SizingInv, CapacityInBounds
<1>3. ASSUME NEW a \in Activity, SampleIdle(a)
      PROVE  SizingInv'
  BY <1>3 DEF SampleIdle, SizingInv, CapacityInBounds
<1>4. ASSUME NEW a \in Activity, SampleGrow(a)
      PROVE  SizingInv'
  <2>1. capacity' \in MinPages..MaxPages
    BY <1>4, ResizeStaysInBounds DEF SampleGrow, SizingInv
  <2> QED
    BY <1>1, <1>4, <2>1 DEF SampleGrow, SizingInv, CapacityInBounds
<1>5. ASSUME NEW a \in Activity, SampleSteady(a)
      PROVE  SizingInv'
  <2>1. capacity' \in MinPages..MaxPages
    BY <1>5, ResizeStaysInBounds DEF SampleSteady, SizingInv, CapacityInBounds
  <2>2. consecutiveHigh' \in 0..ShrinkConsecutive /\ streak' = consecutiveHigh'
    BY <1>1, <1>5 DEF SampleSteady, SizingInv, AtMost
  <2> QED
    BY <2>1, <2>2 DEF SizingInv, CapacityInBounds
<1> QED
  BY <1>2, <1>3, <1>4, <1>5 DEF DynNext, Sample

\* The invariant of the sizing.
THEOREM SizingInvariant == DynSpec => []SizingInv
<1>1. DynInit => SizingInv
  BY DynAssumption DEF DynInit, SizingInv, CapacityInBounds
<1> QED
  BY <1>1, SampleKeepsInv, PTL DEF DynSpec

\* The pool shrinks only after shrinkConsecutive high samples in a row, none of
\* them older than the last resize (checkResize).
THEOREM PoolShrinksSlowly == DynSpec => ShrinkIsDamped
<1>1. SizingInv /\ [DynNext]_dynVars =>
        [capacity' < capacity => streak + 1 >= ShrinkConsecutive /\ High(lastSample)']_dynVars
  <2> SUFFICES ASSUME SizingInv, [DynNext]_dynVars, capacity' < capacity
               PROVE  streak + 1 >= ShrinkConsecutive /\ High(lastSample)'
    OBVIOUS
  <2>1. ShrinkConsecutive \in Nat \ {0} /\ consecutiveHigh \in Nat /\ capacity \in Nat
    BY DynAssumption DEF SizingInv, CapacityInBounds
  <2>2. ASSUME NEW a \in Activity, SampleGrow(a)
        PROVE  FALSE
    BY <2>1, <2>2, DynAssumption DEF SampleGrow, GrownCapacity, AtMost, AtLeast, SizingInv, CapacityInBounds
  <2>3. ASSUME NEW a \in Activity, SampleSteady(a)
        PROVE  streak + 1 >= ShrinkConsecutive /\ High(lastSample)'
    <3>1. lastSample' = a
      BY <2>3 DEF SampleSteady
    <3>2. High(a) /\ consecutiveHigh + 1 >= ShrinkConsecutive
      BY <2>1, <2>3 DEF SampleSteady
    <3> QED
      BY <3>1, <3>2 DEF SizingInv, High
  <2>4. ~UNCHANGED capacity
    BY <2>1
  <2> QED
    BY <2>2, <2>3, <2>4 DEF DynNext, Sample, SampleIdle, dynVars
<1> QED
  BY <1>1, SizingInvariant, PTL DEF DynSpec, ShrinkIsDamped
=============================================================================
