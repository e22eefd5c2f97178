------------------------------ MODULE DynPool ------------------------------
(***************************************************************************)
(* Adaptive sizing of the buffer pool (internal/kdb/bufpool/dynamic.go).   *)
(* Sample is called after every Update and Checkpoint with the hits and    *)
(* misses counted since the last call; it sets the capacity of the pool.   *)
(* The window of past rates is only kept for display and is left out.      *)
(***************************************************************************)
EXTENDS Integers

CONSTANTS
  MinPages, MaxPages,   \* DynamicPoolConfig
  StartPages,           \* capacity of the wrapped pool
  ShrinkConsecutive,    \* shrinkConsecutive
  Activity              \* pairs <<hits, misses>> between two samples

ASSUME DynAssumption == /\ MinPages \in Nat \ {0} /\ MaxPages \in Nat /\ StartPages \in Nat
                        /\ MinPages <= StartPages /\ StartPages <= MaxPages
                        /\ ShrinkConsecutive \in Nat \ {0}
                        /\ Activity \subseteq Nat \X Nat

VARIABLES
  capacity,          \* pool.maxPages
  consecutiveHigh,   \* dp.consecutiveHigh
  lastSample,        \* the activity of the last sample
  streak             \* ghost: high samples in a row since the last resize

dynVars == <<capacity, consecutiveHigh, lastSample, streak>>

\* hits / (hits + misses) below 0.70, above 0.95.
Low(a) == 10 * a[1] < 7 * (a[1] + a[2])
High(a) == 20 * a[1] > 19 * (a[1] + a[2])
NoAccess(a) == a[1] + a[2] = 0

AtMost(n, max) == IF n > max THEN max ELSE n
AtLeast(n, min) == IF n < min THEN min ELSE n

\* Seeded fault: a quarter of a small capacity rounds to nothing.
GrownByQuarter(c) == AtMost((5 * c) \div 4, MaxPages)

\* int(current * 1.25), capped, and at least one page more.
GrownCapacity(c) == AtLeast(AtMost((5 * c) \div 4, MaxPages), c + 1)

\* int(current / 1.25), not below the floor.
Shrunk(c) == AtLeast((4 * c) \div 5, MinPages)

DynInit == /\ capacity = StartPages
           /\ consecutiveHigh = 0
           /\ lastSample = <<0, 0>>
           /\ streak = 0

\* Nothing was pinned since the last sample.
SampleIdle(a) == /\ NoAccess(a)
                 /\ lastSample' = a
                 /\ UNCHANGED <<capacity, consecutiveHigh, streak>>

\* Seeded fault: the count of high samples survives a growth.
SampleGrowKeepsCount(a) ==
  /\ ~NoAccess(a) /\ Low(a) /\ capacity < MaxPages
  /\ capacity' = GrownCapacity(capacity)
  /\ streak' = 0
  /\ lastSample' = a
  /\ UNCHANGED consecutiveHigh

\* checkResize, first branch: a low rate grows the pool at once.
SampleGrow(a) == /\ ~NoAccess(a) /\ Low(a) /\ capacity < MaxPages
                 /\ capacity' = GrownCapacity(capacity)
                 /\ consecutiveHigh' = 0
                 /\ streak' = 0
                 /\ lastSample' = a

\* checkResize, the rest: count high rates, shrink after enough of them.
SampleSteady(a) ==
  /\ ~NoAccess(a) /\ ~(Low(a) /\ capacity < MaxPages)
  /\ LET high == IF High(a) THEN consecutiveHigh + 1 ELSE 0
         shrink == high >= ShrinkConsecutive /\ capacity > MinPages /\ Shrunk(capacity) < capacity
     IN /\ capacity' = IF shrink THEN Shrunk(capacity) ELSE capacity
        /\ consecutiveHigh' = IF shrink THEN 0 ELSE AtMost(high, ShrinkConsecutive)
        /\ streak' = IF shrink \/ ~High(a) THEN 0 ELSE AtMost(streak + 1, ShrinkConsecutive)
  /\ lastSample' = a

Sample == \E a \in Activity : SampleIdle(a) \/ SampleGrow(a) \/ SampleSteady(a)

DynNext == Sample

\* Sample runs after every transaction: it goes on as long as there are any.
DynSpec == DynInit /\ [][DynNext]_dynVars /\ WF_dynVars(DynNext)

-----------------------------------------------------------------------------
\* The capacity stays between the configured bounds, whatever the rounding of
\* a growth or a shrink does near them.
CapacityInBounds == capacity \in MinPages..MaxPages

\* The pool shrinks only after shrinkConsecutive high samples in a row, none of
\* them older than the last resize: it cannot oscillate faster than that.
ShrinkIsDamped ==
  [][capacity' < capacity => streak + 1 >= ShrinkConsecutive /\ High(lastSample)']_dynVars

Cold == ~NoAccess(lastSample) /\ Low(lastSample)
Hot == ~NoAccess(lastSample) /\ High(lastSample)

\* A workload that stays cold drives the capacity to its ceiling: growth by a
\* quarter never gets stuck at a fixed point of the rounding.
ColdGrowsToMax == <>[]Cold => <>[](capacity = MaxPages)

\* A workload that stays hot drives it to its floor.
HotShrinksToMin == <>[]Hot => <>[](capacity = MinPages)
=============================================================================
