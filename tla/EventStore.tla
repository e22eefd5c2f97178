---------------------------- MODULE EventStore ----------------------------
(***************************************************************************)
(* The versioned event log of internal/kdb/event/store.go.  EventKeys      *)
(* shows that a cursor scan over the prefix of an id meets the versions of *)
(* that id alone, in order: here the versions of an id are a sequence, and *)
(* the lr: record of a link is the version of the forward record it names, *)
(* 0 when there is none.  A write transaction of kdb keeps the writes it   *)
(* made before an error (see Kdb), so a link whose second Put fails is in  *)
(* the forward half only.                                                  *)
(***************************************************************************)
EXTENDS Naturals, Sequences, FiniteSets

CONSTANTS Nodes,        \* ids of entities, decisions and observations
          Links,        \* records [src, edge, dst]
          Times,        \* natural numbers, what CreatedAt can be
          Written,      \* the ids that are appended to
          MaxAppends    \* bound on the number of records

ASSUME EventStoreAssumption == /\ Times \subseteq Nat
                               /\ Written \subseteq Nodes \cup Links /\ IsFiniteSet(Written)
                               /\ MaxAppends \in Nat

VARIABLES store,        \* [chain, reverse]: the contents of the database
          halfWritten   \* has a Put of a link's second half failed

storeVars == <<store, halfWritten>>

Ids == Nodes \cup Links
Lifecycles == {"Active", "Superseded"}
NoVersion == 0

Records == [createdAt : Times, lifecycle : Lifecycles, supersedes : 0..MaxAppends]
Stores == [chain : [Ids -> Seq(Records)], reverse : [Links -> 0..MaxAppends]]

EmptyStore == [chain |-> [i \in Ids |-> <<>>], reverse |-> [l \in Links |-> NoVersion]]

-----------------------------------------------------------------------------
(* Writing *)

\* latestKeyAndVersion: the last key of the chain, version 0 when there is none.
latestVersion(s, id) == Len(s.chain[id])

\* writeReverseIndex: the lr: record of a link names its newest version.
\* Seeded fault: the lr: record is written once, for the first version.
writeReverseIndexOnce(s, id, v) ==
    IF id \in Links /\ s.reverse[id] = NoVersion THEN [s EXCEPT !.reverse[id] = v] ELSE s
writeReverseIndex(s, id, v) ==
    IF id \in Links THEN [s EXCEPT !.reverse[id] = v] ELSE s

\* The header appendInTx stamps: the prior version is superseded.
\* Seeded fault: the pointer is kept from the version before.
stampOldPointer(s, id, created, life) ==
    [createdAt |-> created, lifecycle |-> life,
     supersedes |-> IF Len(s.chain[id]) > 1 THEN s.chain[id][Len(s.chain[id])].supersedes ELSE Len(s.chain[id])]
stamp(s, id, created, life) ==
    [createdAt |-> created, lifecycle |-> life, supersedes |-> latestVersion(s, id)]

\* appendInTx; puts is the number of its Puts that succeed.
appendInTx(s, id, created, life, puts) ==
    LET v       == latestVersion(s, id) + 1
        forward == [s EXCEPT !.chain[id] = Append(@, stamp(s, id, created, life))]
    IN CASE puts = 0 -> s
         [] puts = 1 -> forward
         [] puts = 2 -> writeReverseIndex(forward, id, v)

PutsOf(id) == IF id \in Links THEN 2 ELSE 1

-----------------------------------------------------------------------------
(* Reading *)

\* A record read from the store, with its version; NotFound when there is none.
NotFound == [version |-> NoVersion, createdAt |-> 0, lifecycle |-> "Active", supersedes |-> NoVersion]
Event(s, id, v) ==
    LET r == s.chain[id][v]
    IN [version |-> v, createdAt |-> r.createdAt, lifecycle |-> r.lifecycle, supersedes |-> r.supersedes]

Latest(s, id) == IF s.chain[id] = <<>> THEN NotFound ELSE Event(s, id, latestVersion(s, id))

History(s, id) == [v \in DOMAIN s.chain[id] |-> Event(s, id, v)]

\* AsOf walks the chain from the oldest version and stops at the first one after t.
AsOf(s, id, t) ==
    LET n == Len(s.chain[id])
        stop == CHOOSE v \in 1..(n + 1) :
                    /\ v = n + 1 \/ s.chain[id][v].createdAt > t
                    /\ \A w \in 1..(v - 1) : s.chain[id][w].createdAt <= t
    IN IF stop = 1 THEN NotFound ELSE Event(s, id, stop - 1)

\* ResolveSupersedes: from version v along the pointers, at most maxHops of them.
\* The result is the versions met and the error, "" when the chain ended.
ResolveSupersedes(s, id, v, maxHops) ==
    LET walk[n \in Nat] ==
            IF n = 0 THEN v
            ELSE IF walk[n - 1] \in DOMAIN s.chain[id] THEN s.chain[id][walk[n - 1]].supersedes
            ELSE NoVersion
        found == {n \in 0..maxHops : \A m \in 0..n : walk[m] \in DOMAIN s.chain[id]}
        last  == Cardinality(found) - 1
        twice == \E m, n \in found : m # n /\ walk[m] = walk[n]
    IN [versions |-> [n \in 1..(last + 1) |-> walk[n - 1]],
        error |-> CASE last < 0                         -> "NotFound"
                    [] last >= 0 /\ twice               -> "SupersedesLoop"
                    [] last >= 0 /\ ~twice /\ walk[last + 1] = NoVersion -> ""
                    [] OTHER -> IF last = maxHops THEN "SupersedesLoop" ELSE "SupersedesMissing"]

\* ReverseLinks: the forward record each lr: entry of the destination names.
ReverseLinks(s, dst, edge) ==
    {[link |-> l, version |-> s.reverse[l]] :
        l \in {k \in Links : k.dst = dst /\ k.edge = edge /\ s.reverse[k] # NoVersion}}

-----------------------------------------------------------------------------
Init ==
    /\ store = EmptyStore
    /\ halfWritten = FALSE

recordsOf(s) == Cardinality(UNION {{i} \X DOMAIN s.chain[i] : i \in Written})

\* Append: one transaction around appendInTx; CreatedAt is the caller's or the clock's.
Append_(id, created, life, puts) ==
    /\ recordsOf(store) < MaxAppends
    /\ store' = appendInTx(store, id, created, life, puts)
    /\ halfWritten' = (halfWritten \/ puts \in 1..(PutsOf(id) - 1))

Next ==
    \E id \in Written, created \in Times, life \in Lifecycles :
        \E puts \in 0..PutsOf(id) : Append_(id, created, life, puts)

Spec == Init /\ [][Next]_storeVars

-----------------------------------------------------------------------------
(* Properties *)

StoreTypeOK == store \in Stores /\ halfWritten \in BOOLEAN

(***************************************************************************)
(* The pointers of a chain lead from every version through all the older   *)
(* ones to the first, and nowhere else, even after failed Puts: following  *)
(* them with enough hops returns what History returns, reversed.           *)
(***************************************************************************)
ChainsAreLinked ==
    \A id \in Ids : \A v \in DOMAIN store.chain[id] :
        ResolveSupersedes(store, id, v, MaxAppends) =
            [versions |-> [n \in 1..v |-> v + 1 - n], error |-> ""]

(***************************************************************************)
(* The two halves of a link agree: as long as no link was left half        *)
(* written, the reverse index holds exactly the links that have a version  *)
(* and names the newest one.  After a failure it may lag behind but never  *)
(* names a version that does not exist, so no reverse walk ends in a       *)
(* dangling key.                                                           *)
(***************************************************************************)
ReverseFollowsForward ==
    \A l \in Links :
        /\ store.reverse[l] \in {NoVersion} \cup DOMAIN store.chain[l]
        /\ ~halfWritten => store.reverse[l] = latestVersion(store, l)

TimesAscend(id) ==
    \A v, w \in DOMAIN store.chain[id] :
        v < w => store.chain[id][v].createdAt <= store.chain[id][w].createdAt

HighestAt(id, t) ==
    LET old == {v \in DOMAIN store.chain[id] : store.chain[id][v].createdAt <= t}
    IN IF old = {} THEN NotFound ELSE Event(store, id, CHOOSE v \in old : \A w \in old : w <= v)

(***************************************************************************)
(* AsOf returns the highest version whose CreatedAt is not after t, in     *)
(* every chain whose times ascend.                                         *)
(***************************************************************************)
AsOfIsHighest ==
    \A id \in Ids : TimesAscend(id) => \A t \in Times : AsOf(store, id, t) = HighestAt(id, t)

(***************************************************************************)
(* The same without the condition: what the comment of AsOf says.  It does *)
(* not hold, since callers set CreatedAt (store.go:124), and the walk      *)
(* stops at the first version after t.                                     *)
(***************************************************************************)
AsOfIsHighestAlways ==
    \A id \in Ids, t \in Times : AsOf(store, id, t) = HighestAt(id, t)
=============================================================================
