------------------------- MODULE EventStore_proofs -------------------------
(***************************************************************************)
(* Proofs about the event store: the pointers of a chain, the two halves   *)
(* of a link and reads at a time, for every set of ids, links and times    *)
(* and whichever Puts fail.                                                *)
(***************************************************************************)
EXTENDS EventStore, FiniteSetTheorems, WellFoundedInduction, TLAPS

\* Every set of naturals that is not empty has a least element.
LEMMA LeastOf ==
  ASSUME NEW T \in SUBSET Nat, T # {}
  PROVE  \E x \in T : \A y \in T : x <= y
<1>1. PICK x \in T : \A y \in T : ~ (<<y, x>> \in OpToRel(<, Nat))
  BY NatLessThanWellFounded, WFMin
<1>2. \A y \in T : ~(y < x)
  BY <1>1 DEF OpToRel
<1> QED
  BY <1>2

-----------------------------------------------------------------------------
(* Folds: the recursive functions that write one record after the other *)

\* What holds first and of the next one holds of all.
LEMMA AllReached ==
  ASSUME NEW m \in Nat, NEW T, 0 \in T, \A n \in 1..m : n - 1 \in T => n \in T
  PROVE  \A n \in 0..m : n \in T
<1> DEFINE U == {n \in 0..m : n \notin T}
<1>1. U \in SUBSET Nat
  OBVIOUS
<1>2. ASSUME U # {} PROVE FALSE
  <2>1. PICK n \in U : \A k \in U : ~ (<<k, n>> \in OpToRel(<, Nat))
    <3> HIDE DEF U
    <3> QED
      BY <1>1, <1>2, NatLessThanWellFounded, WFMin
  <2>2. \A k \in U : ~(k < n)
    BY <1>1, <2>1 DEF OpToRel
  <2>3. n \in 0..m /\ n \notin T /\ n # 0
    OBVIOUS
  <2>4. n \in 1..m /\ n - 1 \in 0..m /\ n - 1 < n
    BY <2>3
  <2> QED
    BY <2>2, <2>4
<1> QED
  BY <1>2

\* g has the values of a fold over 1..k, the n-th of them in the n-th set.
Folds(g, k, start, step, X) ==
  /\ g = [n \in 0..k |-> IF n = 0 THEN start ELSE step[<<g[n - 1], n>>]]
  /\ \A n \in 0..k : g[n] \in X[n]

\* Such a fold exists when every step leads there.
LEMMA FoldExists ==
  ASSUME NEW m \in Nat, NEW X, NEW start, NEW step, start \in X[0],
         \A n \in 1..m : \A w \in X[n - 1] : step[<<w, n>>] \in X[n]
  PROVE  \E g : Folds(g, m, start, step, X)
<1> DEFINE T == {k \in 0..m : \E g : Folds(g, k, start, step, X)}
<1>1. 0 \in T
  <2> DEFINE g == [n \in 0..0 |-> start]
  <2>1. Folds(g, 0, start, step, X)
    BY DEF Folds
  <2> QED
    BY <2>1
<1>2. ASSUME NEW k \in 1..m, k - 1 \in T PROVE k \in T
  <2>1. PICK g : Folds(g, k - 1, start, step, X)
    BY <1>2
  <2>2. /\ k \in Nat \ {0} /\ k - 1 \in 0..(k - 1)
        /\ \A n \in 0..(k - 1) : g[n] = IF n = 0 THEN start ELSE step[<<g[n - 1], n>>]
        /\ \A n \in 0..(k - 1) : g[n] \in X[n]
    BY <2>1 DEF Folds
  <2> DEFINE last == step[<<g[k - 1], k>>]
             h == [n \in 0..k |-> IF n = k THEN last ELSE g[n]]
  <2>3. last \in X[k]
    BY <1>2, <2>2
  <2> HIDE DEF last
  <2>4. /\ h[k] = last /\ h = [n \in 0..k |-> h[n]]
        /\ \A n \in 0..(k - 1) : h[n] = g[n]
    BY <2>2
  <2> HIDE DEF h
  <2>5. ASSUME NEW n \in 0..k
        PROVE  h[n] \in X[n] /\ h[n] = IF n = 0 THEN start ELSE step[<<h[n - 1], n>>]
    <3>1. CASE n = k
      BY <2>2, <2>3, <2>4, <3>1 DEF last
    <3>2. CASE n # k
      <4>1. n \in 0..(k - 1) /\ (n # 0 => n - 1 \in 0..(k - 1))
        BY <2>2, <3>2
      <4> QED
        BY <2>2, <2>4, <4>1
    <3> QED
      BY <3>1, <3>2
  <2>6. h = [n \in 0..k |-> IF n = 0 THEN start ELSE step[<<h[n - 1], n>>]]
    BY <2>4, <2>5
  <2>7. Folds(h, k, start, step, X)
    BY <2>5, <2>6 DEF Folds
  <2> QED
    BY <1>2, <2>7
<1> HIDE DEF T
<1>3. m \in T
  BY <1>1, <1>2, AllReached
<1> QED
  BY <1>3 DEF T

-----------------------------------------------------------------------------
(* What one record does to a store *)

\* A store with records of any kind, and what appendInTx does to it.
StoreOf(s, R) ==
  /\ s = [chain |-> s.chain, reverse |-> s.reverse]
  /\ s.chain \in [Ids -> Seq(R)] /\ s.reverse \in [Links -> Nat]
Appended(s, t, id, r, n) ==
  /\ n = 0 => t = s
  /\ n # 0 => t.chain[id] = Append(s.chain[id], r)
  /\ \A i \in Ids : i # id => t.chain[i] = s.chain[i]
  /\ n = 2 => id \in Links /\ t.reverse[id] = Len(s.chain[id]) + 1
  /\ \A l \in Links : n # 2 \/ l # id => t.reverse[l] = s.reverse[l]

\* appendInTx adds the record, and names it in reverse when both Puts succeed;
\* nothing else changes.
LEMMA AppendIs ==
  ASSUME NEW R, NEW s, StoreOf(s, R), NEW id \in Ids, NEW created, NEW life, NEW n \in 0..PutsOf(id),
         stamp(s, id, created, life) \in R
  PROVE  /\ StoreOf(appendInTx(s, id, created, life, n), R)
         /\ Appended(s, appendInTx(s, id, created, life, n), id, stamp(s, id, created, life), n)
<1> DEFINE t == appendInTx(s, id, created, life, n)
           r == stamp(s, id, created, life)
           c == Append(s.chain[id], r)
           v == Len(s.chain[id]) + 1
           chain == [s.chain EXCEPT ![id] = c]
           reverse == [s.reverse EXCEPT ![id] = v]
<1>1. n \in {0, 1, 2} /\ (n = 2 => id \in Links)
  BY DEF PutsOf
<1>2. c \in Seq(R) /\ v \in Nat
  BY DEF StoreOf
<1>3. /\ n = 0 => t = s
      /\ n = 1 => t = [chain |-> chain, reverse |-> s.reverse]
      /\ n = 2 => t = [chain |-> chain, reverse |-> reverse]
  <2>1. [s EXCEPT !.chain[id] = Append(@, r)] = [chain |-> chain, reverse |-> s.reverse]
    <3>1. s = [chain |-> s.chain, reverse |-> s.reverse]
      BY DEF StoreOf
    <3> DEFINE a == s.chain
               b == s.reverse
    <3> HIDE DEF r
    <3>2. PICK x, y : x = s.chain /\ y = s.reverse /\ s = [chain |-> x, reverse |-> y]
      BY <3>1
    <3>3. [s EXCEPT !.chain[id] = Append(@, r)] = [s EXCEPT !.chain = [x EXCEPT ![id] = Append(x[id], r)]]
      BY <3>2
    <3> QED
      BY <3>2, <3>3
  <2>2. n = 2 => writeReverseIndex([chain |-> chain, reverse |-> s.reverse], id, v)
                   = [chain |-> chain, reverse |-> reverse]
    BY <1>1 DEF writeReverseIndex
  <2> QED
    BY <1>1, <2>1, <2>2 DEF appendInTx, latestVersion
<1>4. /\ chain \in [Ids -> Seq(R)] /\ chain[id] = c /\ \A i \in Ids : i # id => chain[i] = s.chain[i]
      /\ reverse \in [Links -> Nat] /\ (id \in Links => reverse[id] = v)
      /\ \A l \in Links : l # id => reverse[l] = s.reverse[l]
  <2> HIDE DEF c, v
  <2> QED
    BY <1>2 DEF StoreOf
<1> HIDE DEF t, c, v, chain, reverse
<1>5. StoreOf(t, R)
  <2>1. CASE n = 0
    BY <1>3, <2>1
  <2>2. CASE n = 1
    BY <1>3, <1>4, <2>2 DEF StoreOf
  <2>3. CASE n = 2
    BY <1>3, <1>4, <2>3 DEF StoreOf
  <2> QED
    BY <1>1, <2>1, <2>2, <2>3
<1>6. Appended(s, t, id, r, n)
  <2>1. CASE n = 0
    BY <1>3, <2>1 DEF Appended
  <2>2. CASE n = 1
    BY <1>3, <1>4, <2>2 DEF Appended, c
  <2>3. CASE n = 2
    BY <1>1, <1>3, <1>4, <2>3 DEF Appended, c, v
  <2> QED
    BY <1>1, <2>1, <2>2, <2>3
<1> QED
  BY <1>5, <1>6 DEF t

\* What is in a store stays there.
Grows(s, t) ==
  /\ \A id \in Ids : s.chain[id] # << >> => t.chain[id] # << >>
  /\ \A l \in Links : s.reverse[l] # NoVersion => t.reverse[l] # NoVersion

\* The id is in the store, with both halves if it is a link.
Placed(s, id) == s.chain[id] # << >> /\ (id \in Links => s.reverse[id] # NoVersion)

\* A record more only adds, and is placed when all its Puts succeed.
LEMMA AppendGrows ==
  ASSUME NEW R, NEW s, StoreOf(s, R), NEW id \in Ids, NEW r \in R, NEW n \in 0..PutsOf(id),
         NEW t, Appended(s, t, id, r, n)
  PROVE  Grows(s, t) /\ (n = PutsOf(id) => Placed(t, id))
<1>1. PutsOf(id) \in {1, 2} /\ (id \in Links <=> PutsOf(id) = 2)
  BY DEF PutsOf
<1>2. n \in {0, 1, 2} /\ (n = 2 => id \in Links)
  BY <1>1
<1>3. n # 0 => t.chain[id] # << >>
  <2>1. s.chain[id] \in Seq(R)
    BY DEF StoreOf
  <2>2. Append(s.chain[id], r) # << >>
    BY <2>1
  <2> QED
    BY <2>2 DEF Appended
<1>4. n = 2 => t.reverse[id] # NoVersion
  <2>1. s.chain[id] \in Seq(R)
    BY DEF StoreOf
  <2>2. Len(s.chain[id]) + 1 # 0
    BY <2>1
  <2> QED
    BY <2>2 DEF Appended, NoVersion
<1>5. /\ n = 0 => t = s
      /\ \A i \in Ids : i # id => t.chain[i] = s.chain[i]
      /\ \A l \in Links : n # 2 \/ l # id => t.reverse[l] = s.reverse[l]
  BY DEF Appended
<1>6. Grows(s, t)
  BY <1>2, <1>3, <1>4, <1>5 DEF Grows
<1>7. n = PutsOf(id) => Placed(t, id)
  BY <1>1, <1>3, <1>4 DEF Placed
<1> QED
  BY <1>6, <1>7

LEMMA GrowsOn ==
  ASSUME NEW s, NEW t, NEW u, Grows(s, t), Grows(t, u)
  PROVE  Grows(s, u) /\ \A id \in Ids : Placed(s, id) => Placed(t, id)
BY DEF Grows, Placed

-----------------------------------------------------------------------------
(* The inductive invariant *)

\* Every record of a chain names the version before it.
Linked(chain) == \A v \in 1..Len(chain) : chain[v].supersedes = v - 1

\* A store is a record of its two halves.
Halves(s) == s = [chain |-> s.chain, reverse |-> s.reverse]

ChainsGood == /\ store.chain \in [Ids -> Seq(Records)]
              /\ \A id \in Ids : Linked(store.chain[id]) /\ Len(store.chain[id]) <= MaxAppends

IInv == /\ ChainsGood
        /\ Halves(store)
        /\ store.reverse \in [Links -> 0..MaxAppends]
        /\ halfWritten \in BOOLEAN
        /\ ReverseFollowsForward

\* The records of one chain are as many as its length.
LEMMA ChainCounts ==
  ASSUME NEW i, NEW n \in Nat
  PROVE  IsFiniteSet({i} \X (1..n)) /\ Cardinality({i} \X (1..n)) = n
<1> DEFINE S == {i}
           T == 1..n
<1>1. IsFiniteSet(S) /\ Cardinality(S) = 1
  BY FS_Singleton
<1>2. IsFiniteSet(T) /\ Cardinality(T) = n
  BY FS_Interval
<1>3. 1 * n = n
  OBVIOUS
<1> HIDE DEF S, T
<1>4. IsFiniteSet(S \X T) /\ Cardinality(S \X T) = Cardinality(S) * Cardinality(T)
  BY <1>1, <1>2, FS_Product
<1> QED
  BY <1>1, <1>2, <1>3, <1>4 DEF S, T

\* A chain of a Written id is not longer than the store.
LEMMA ChainsFit ==
  ASSUME store.chain \in [Ids -> Seq(Records)], NEW id \in Written, recordsOf(store) < MaxAppends
  PROVE  Len(store.chain[id]) < MaxAppends
<1> DEFINE Pairs(i) == {i} \X DOMAIN store.chain[i]
           All == UNION {Pairs(i) : i \in Written}
<1>1. \A i \in Written : /\ Len(store.chain[i]) \in Nat
                         /\ DOMAIN store.chain[i] = 1..Len(store.chain[i])
  BY EventStoreAssumption DEF Ids
<1>2. \A i \in Written : IsFiniteSet(Pairs(i)) /\ Cardinality(Pairs(i)) = Len(store.chain[i])
  BY <1>1, ChainCounts
<1>3. IsFiniteSet({Pairs(i) : i \in Written})
  <2> DEFINE f == [i \in Written |-> Pairs(i)]
             R == {f[i] : i \in Written}
  <2> HIDE DEF Pairs
  <2>1. f \in [Written -> R] /\ \A r \in R : \E i \in Written : f[i] = r
    OBVIOUS
  <2>2. R = {Pairs(i) : i \in Written}
    OBVIOUS
  <2>3. f \in Surjection(Written, R)
    BY <2>1 DEF Surjection
  <2> HIDE DEF f, R
  <2> QED
    BY <2>2, <2>3, EventStoreAssumption, FS_Surjection
<1>4. IsFiniteSet(All)
  <2> HIDE DEF Pairs
  <2> QED
    BY <1>2, <1>3, FS_UNION
<1>5. Pairs(id) \in SUBSET All
  OBVIOUS
<1>6. Cardinality(Pairs(id)) <= Cardinality(All)
  <2> HIDE DEF Pairs, All
  <2> QED
    BY <1>4, <1>5, FS_Subset
<1>7. Cardinality(All) \in Nat
  <2> HIDE DEF Pairs, All
  <2> QED
    BY <1>4, FS_CardinalityType
<1>8. Cardinality(All) < MaxAppends
  BY DEF recordsOf
<1> QED
  <2> HIDE DEF Pairs, All
  <2> QED
    BY <1>1, <1>2, <1>6, <1>7, <1>8, EventStoreAssumption

-----------------------------------------------------------------------------
(* Writing *)

\* What appendInTx leaves in the chain of the id it appends to, and elsewhere.
LEMMA AppendChains ==
  ASSUME Halves(store), ChainsGood, NEW id \in Ids, Len(store.chain[id]) < MaxAppends,
         NEW created \in Times, NEW life \in Lifecycles, NEW puts \in 1..2
  PROVE  LET s == appendInTx(store, id, created, life, puts)
             c == Append(store.chain[id], stamp(store, id, created, life))
         IN /\ s.chain = [store.chain EXCEPT ![id] = c]
            /\ s.chain \in [Ids -> Seq(Records)]
            /\ Len(c) = Len(store.chain[id]) + 1 /\ Len(c) \in 1..MaxAppends
            /\ Linked(c)
<1> DEFINE old == store.chain[id]
           r == stamp(store, id, created, life)
           c == Append(old, r)
           s == appendInTx(store, id, created, life, puts)
<1>1. old \in Seq(Records) /\ Len(old) \in Nat /\ Linked(old)
  BY DEF ChainsGood
<1>2. r \in Records /\ r.supersedes = Len(old)
  <2>1. Len(old) \in 0..MaxAppends
    BY <1>1, EventStoreAssumption
  <2> QED
    BY <2>1 DEF stamp, latestVersion, Records
<1>3. s.chain = [store.chain EXCEPT ![id] = c]
  BY DEF appendInTx, writeReverseIndex, latestVersion, Halves
<1>4. c \in Seq(Records) /\ Len(c) = Len(old) + 1
  BY <1>1, <1>2
<1>5. Linked(c)
  <2> HIDE DEF r
  <2>1. \A v \in 1..Len(old) : c[v] = old[v]
    BY <1>1
  <2>2. c[Len(old) + 1] = r
    BY <1>1
  <2> QED
    BY <1>1, <1>2, <1>4, <2>1, <2>2, SMTT(30) DEF Linked
<1>6. [store.chain EXCEPT ![id] = c] \in [Ids -> Seq(Records)]
  BY <1>4 DEF ChainsGood
<1> QED
  BY <1>1, <1>3, <1>4, <1>5, <1>6, EventStoreAssumption

\* What appendInTx leaves in the reverse index.
LEMMA AppendReverse ==
  ASSUME NEW id \in Ids, NEW created, NEW life, NEW puts \in 1..2,
         Halves(store), store.reverse \in [Links -> 0..MaxAppends]
  PROVE  appendInTx(store, id, created, life, puts).reverse =
           IF puts = 2 /\ id \in Links
           THEN [store.reverse EXCEPT ![id] = Len(store.chain[id]) + 1] ELSE store.reverse
  BY DEF appendInTx, writeReverseIndex, latestVersion, Halves

\* A store stays a record of these two fields.
LEMMA AppendShape ==
  ASSUME Halves(store), NEW id \in Ids, NEW created, NEW life, NEW puts \in 1..2
  PROVE  Halves(appendInTx(store, id, created, life, puts))
<1> DEFINE forward == [store EXCEPT !.chain[id] = Append(@, stamp(store, id, created, life))]
<1>1. Halves(forward)
  BY SMTT(30) DEF Halves
<1>2. \A s, v : Halves(s) => Halves(writeReverseIndex(s, id, v))
  BY DEF Halves, writeReverseIndex
<1>3. appendInTx(store, id, created, life, puts)
        \in {forward, writeReverseIndex(forward, id, latestVersion(store, id) + 1)}
  BY DEF appendInTx
<1> HIDE DEF forward
<1> QED
  BY <1>1, <1>2, <1>3

\* Initially there are no records.
LEMMA InitIInv == Init => IInv
<1> SUFFICES ASSUME Init
             PROVE  IInv
  OBVIOUS
<1>1. store.chain = [i \in Ids |-> <<>>] /\ store.reverse = [l \in Links |-> 0]
  BY DEF Init, EmptyStore, NoVersion
<1>2. ChainsGood
  BY <1>1, EventStoreAssumption DEF ChainsGood, Linked
<1>3. Halves(store)
  BY DEF Init, EmptyStore, Halves
<1>4. ReverseFollowsForward
  BY <1>1 DEF ReverseFollowsForward, NoVersion, latestVersion, Ids
<1>5. store.reverse \in [Links -> 0..MaxAppends]
  BY <1>1, EventStoreAssumption
<1>6. halfWritten \in BOOLEAN
  BY DEF Init
<1> QED
  BY <1>2, <1>3, <1>4, <1>5, <1>6 DEF IInv

\* An append whose first Put succeeds.
LEMMA AppendKeepsIInv ==
  ASSUME IInv, NEW id \in Written, NEW created \in Times, NEW life \in Lifecycles,
         NEW puts \in 1..PutsOf(id), Append_(id, created, life, puts)
  PROVE  IInv'
<1> DEFINE c == Append(store.chain[id], stamp(store, id, created, life))
<1>1. id \in Ids /\ puts \in 1..2
  BY EventStoreAssumption DEF Ids, PutsOf
<1>2. Len(store.chain[id]) < MaxAppends
  BY ChainsFit DEF IInv, ChainsGood, Append_
<1>3. /\ store'.chain = [store.chain EXCEPT ![id] = c]
      /\ store'.chain \in [Ids -> Seq(Records)]
      /\ Len(c) = Len(store.chain[id]) + 1 /\ Len(c) \in 1..MaxAppends
      /\ Linked(c)
  BY <1>1, <1>2, AppendChains, ZenonT(60) DEF IInv, Append_
<1>4. store'.reverse = IF puts = 2 /\ id \in Links
                       THEN [store.reverse EXCEPT ![id] = Len(c)] ELSE store.reverse
  <2>1. appendInTx(store, id, created, life, puts).reverse =
           IF puts = 2 /\ id \in Links
           THEN [store.reverse EXCEPT ![id] = Len(store.chain[id]) + 1] ELSE store.reverse
    BY <1>1, AppendReverse DEF IInv
  <2>2. store' = appendInTx(store, id, created, life, puts)
    BY DEF Append_
  <2> HIDE DEF c
  <2> QED
    BY <1>3, <2>1, <2>2
<1>5. Halves(store)'
  BY <1>1, AppendShape DEF IInv, Append_
<1> HIDE DEF c
<1>6. ChainsGood'
  BY <1>1, <1>3, EventStoreAssumption DEF IInv, ChainsGood
<1>7. (store.reverse \in [Links -> 0..MaxAppends])'
  BY <1>3, <1>4, EventStoreAssumption DEF IInv
<1>8. (halfWritten \in BOOLEAN)'
  BY DEF IInv, Append_
<1>9. ReverseFollowsForward'
  <2> SUFFICES ASSUME NEW l \in Links
               PROVE  /\ store'.reverse[l] \in {NoVersion} \cup DOMAIN store'.chain[l]
                      /\ ~halfWritten' => store'.reverse[l] = Len(store'.chain[l])
    BY DEF ReverseFollowsForward, latestVersion
  <2>1. l \in Ids /\ store.chain[l] \in Seq(Records) /\ store.chain \in [Ids -> Seq(Records)]
    BY DEF Ids, IInv, ChainsGood
  <2>2. /\ store.reverse[l] \in {NoVersion} \cup DOMAIN store.chain[l]
        /\ ~halfWritten => store.reverse[l] = Len(store.chain[l])
    BY DEF IInv, ReverseFollowsForward, latestVersion
  <2>3. CASE l # id
    BY <1>1, <1>3, <1>4, <2>1, <2>2, <2>3 DEF IInv, Append_
  <2>4. CASE l = id
    <3>1. store'.chain[l] = c /\ c \in Seq(Records) /\ DOMAIN c = 1..Len(c) /\ DOMAIN store.chain[l] = 1..Len(store.chain[l])
      BY <1>1, <1>3, <2>1, <2>4
    <3>2. CASE puts = 2
      BY <1>3, <1>4, <2>4, <3>1, <3>2 DEF IInv
    <3>3. CASE puts = 1
      <4>1. PutsOf(id) = 2 /\ 1 \in 1..(2 - 1)
        BY <2>4 DEF PutsOf
      <4>2. puts \in 1..(PutsOf(id) - 1)
        BY <3>3, <4>1
      <4>3. halfWritten'
        BY <4>2, Zenon DEF Append_
      <4>4. store'.reverse[l] = store.reverse[l]
        BY <1>4, <3>3
      <4> QED
        BY <1>3, <2>2, <2>4, <3>1, <4>3, <4>4
    <3> QED
      BY <1>1, <3>2, <3>3
  <2> QED
    BY <2>3, <2>4
<1> QED
  BY <1>5, <1>6, <1>7, <1>8, <1>9 DEF IInv

\* Every step keeps the invariant.
LEMMA StepKeepsIInv == IInv /\ [Next]_storeVars => IInv'
<1> SUFFICES ASSUME IInv, [Next]_storeVars
             PROVE  IInv'
  OBVIOUS
<1>1. CASE UNCHANGED storeVars
  BY <1>1 DEF storeVars, IInv, ChainsGood, ReverseFollowsForward, latestVersion
<1>2. CASE Next
  <2>1. PICK id \in Written, created \in Times, life \in Lifecycles :
               \E puts \in 0..PutsOf(id) : Append_(id, created, life, puts)
    BY <1>2 DEF Next
  <2>2. PICK puts \in 0..PutsOf(id) : Append_(id, created, life, puts)
    BY <2>1
  <2>3. CASE puts = 0
    <3>1. store' = store /\ halfWritten' = halfWritten
      BY <2>2, <2>3 DEF Append_, appendInTx, IInv
    <3> QED
      BY <3>1 DEF IInv, ChainsGood, ReverseFollowsForward, latestVersion
  <2>4. CASE puts # 0
    <3>1. puts \in 1..PutsOf(id)
      BY <2>4 DEF PutsOf
    <3> QED
      BY <2>2, <3>1, AppendKeepsIInv
  <2> QED
    BY <2>3, <2>4
<1> QED
  BY <1>1, <1>2

\* The invariant of the store: chains are linked and not longer than the bound,
\* and the reverse index follows the forward records.
THEOREM StoreInvariant == Spec => []IInv
<1> QED
  BY InitIInv, StepKeepsIInv, PTL DEF Spec

\* No reverse walk ends in a dangling key, and as long as no link is half
\* written the lr: record of every link names its newest version (writeReverseIndex).
THEOREM ReverseIndexIsExact == Spec => []ReverseFollowsForward
<1>1. IInv => ReverseFollowsForward
  BY DEF IInv
<1> QED
  BY <1>1, StoreInvariant, PTL

-----------------------------------------------------------------------------
(* Walks along the pointers *)

\* The walk of ResolveSupersedes, and the steps of it that meet a record.
Walked(s, id, v) ==
  LET walk[n \in Nat] ==
        IF n = 0 THEN v
        ELSE IF walk[n - 1] \in DOMAIN s.chain[id] THEN s.chain[id][walk[n - 1]].supersedes
        ELSE NoVersion
  IN walk
Found(s, id, v, maxHops) == {n \in 0..maxHops : \A m \in 0..n : Walked(s, id, v)[m] \in DOMAIN s.chain[id]}

\* The walk is what its definition says: some function satisfies it.
LEMMA WalkIsDefined ==
  ASSUME NEW s, NEW id, s.chain[id] \in Seq(Records), Linked(s.chain[id]), NEW v \in 1..Len(s.chain[id])
  PROVE  Walked(s, id, v) =
           [n \in Nat |-> IF n = 0 THEN v
                          ELSE IF Walked(s, id, v)[n - 1] \in DOMAIN s.chain[id]
                               THEN s.chain[id][Walked(s, id, v)[n - 1]].supersedes
                          ELSE NoVersion]
<1> DEFINE c == s.chain[id]
           Step(w) == [n \in Nat |-> IF n = 0 THEN v
                                     ELSE IF w[n - 1] \in DOMAIN c THEN c[w[n - 1]].supersedes
                                     ELSE NoVersion]
           down == [n \in Nat |-> IF n <= v THEN v - n ELSE 0]
<1>1. Len(c) \in Nat /\ DOMAIN c = 1..Len(c) /\ v \in Nat /\ v <= Len(c)
  OBVIOUS
<1>2. \A n \in Nat : down[n] = IF n = 0 THEN v
                               ELSE IF down[n - 1] \in DOMAIN c THEN c[down[n - 1]].supersedes
                               ELSE NoVersion
  <2> HIDE DEF c
  <2> TAKE n \in Nat
  <2>1. CASE n = 0
    BY <2>1
  <2>2. CASE n # 0 /\ n <= v
    <3>1. down[n - 1] = v - n + 1 /\ down[n] = v - n
      BY <1>1, <2>2
    <3>2. v - n + 1 \in 1..Len(c)
      BY <1>1, <2>2
    <3>3. c[v - n + 1].supersedes = v - n
      BY <3>2, <1>1 DEF Linked, c
    <3> QED
      BY <1>1, <2>2, <3>1, <3>2, <3>3
  <2>3. CASE n > v
    <3>1. down[n - 1] = 0 /\ down[n] = 0
      BY <1>1, <2>3
    <3> QED
      BY <1>1, <2>3, <3>1 DEF NoVersion
  <2> QED
    BY <1>1, <2>1, <2>2, <2>3
<1>3. down = Step(down)
  BY <1>2
<1>4. \E w : w = Step(w)
  BY <1>3
<1>5. Walked(s, id, v) = CHOOSE w : w = Step(w)
  BY DEF Walked
<1> HIDE DEF Step
<1>6. Walked(s, id, v) = Step(Walked(s, id, v))
  BY <1>4, <1>5
<1> QED
  BY <1>6 DEF Step

\* From version v the pointers lead one version down each.
LEMMA WalkGoesDown ==
  ASSUME NEW s, NEW id, s.chain[id] \in Seq(Records), Linked(s.chain[id]), NEW v \in 1..Len(s.chain[id])
  PROVE  \A n \in 0..v : Walked(s, id, v)[n] = v - n
<1> DEFINE w == Walked(s, id, v)
           T == {n \in 0..v : w[n] # v - n}
<1>1. /\ w[0] = v
      /\ \A n \in Nat \ {0} : w[n] = IF w[n - 1] \in DOMAIN s.chain[id]
                                     THEN s.chain[id][w[n - 1]].supersedes ELSE NoVersion
  <2> HIDE DEF w
  <2>1. w = [n \in Nat |-> IF n = 0 THEN v
                           ELSE IF w[n - 1] \in DOMAIN s.chain[id]
                                THEN s.chain[id][w[n - 1]].supersedes
                           ELSE NoVersion]
    BY WalkIsDefined DEF w
  <2> QED
    BY <2>1
<1> SUFFICES ASSUME T # {}
             PROVE  FALSE
  OBVIOUS
<1> HIDE DEF w
<1>2. PICK n \in T : \A m \in T : n <= m
  <2>1. T \in SUBSET Nat
    OBVIOUS
  <2> HIDE DEF T
  <2> QED
    BY <2>1, LeastOf
<1>3. n # 0
  BY <1>1, <1>2
<1>4. w[n - 1] = v - (n - 1)
  BY <1>2, <1>3
<1>5. v - n + 1 \in DOMAIN s.chain[id] /\ s.chain[id][v - n + 1].supersedes = v - n
  <2>1. n \in 1..v /\ DOMAIN s.chain[id] = 1..Len(s.chain[id]) /\ Len(s.chain[id]) \in Nat
    BY <1>2, <1>3
  <2>2. v - n + 1 \in 1..Len(s.chain[id])
    BY <2>1
  <2>3. s.chain[id][v - n + 1].supersedes = (v - n + 1) - 1
    BY <2>2 DEF Linked
  <2> QED
    BY <2>1, <2>2, <2>3
<1>6. w[n] = v - n
  BY <1>1, <1>2, <1>3, <1>4, <1>5, SMTT(30)
<1> QED
  BY <1>2, <1>6

\* A walk with enough hops meets v records and ends.
LEMMA WalkIsWhole ==
  ASSUME NEW s, NEW id, s.chain[id] \in Seq(Records), Linked(s.chain[id]),
         NEW v \in 1..Len(s.chain[id]), NEW maxHops \in Nat, v <= maxHops
  PROVE  ResolveSupersedes(s, id, v, maxHops) = [versions |-> [n \in 1..v |-> v + 1 - n], error |-> ""]
<1> DEFINE w == Walked(s, id, v)
           found == Found(s, id, v, maxHops)
           last == Cardinality(found) - 1
           twice == \E m, n \in found : m # n /\ w[m] = w[n]
           error == CASE last < 0                         -> "NotFound"
                      [] last >= 0 /\ twice               -> "SupersedesLoop"
                      [] last >= 0 /\ ~twice /\ w[last + 1] = NoVersion -> ""
                      [] OTHER -> IF last = maxHops THEN "SupersedesLoop" ELSE "SupersedesMissing"
<1>1. \A n \in 0..v : w[n] = v - n
  BY WalkGoesDown
<1>2. found = 0..(v - 1)
  <2> HIDE DEF w
  <2>1. DOMAIN s.chain[id] = 1..Len(s.chain[id])
    OBVIOUS
  <2>2. \A n \in 0..(v - 1) : \A m \in 0..n : w[m] \in DOMAIN s.chain[id]
    BY <1>1, <2>1
  <2>3. w[v] \notin DOMAIN s.chain[id]
    BY <1>1, <2>1
  <2>4. found = {n \in 0..maxHops : \A m \in 0..n : w[m] \in DOMAIN s.chain[id]}
    BY DEF Found, w
  <2>5. 0..(v - 1) \subseteq 0..maxHops
    OBVIOUS
  <2>6. \A n \in 0..maxHops : n >= v => v \in 0..n
    OBVIOUS
  <2> HIDE DEF found
  <2> QED
    BY <2>2, <2>3, <2>4, <2>5, <2>6
<1>3. last = v - 1
  <2>1. Cardinality(0..(v - 1)) = v
    BY FS_Interval
  <2> HIDE DEF found
  <2> QED
    BY <1>2, <2>1
<1>4. ~twice
  <2> HIDE DEF w, found
  <2> QED
    BY <1>1, <1>2
<1>5. ResolveSupersedes(s, id, v, maxHops) =
        [versions |-> [n \in 1..(last + 1) |-> w[n - 1]], error |-> error]
  BY DEF ResolveSupersedes, Found, Walked
<1>6. w[last + 1] = NoVersion
  <2> HIDE DEF w, last
  <2> QED
    BY <1>1, <1>3 DEF NoVersion
<1>7. [n \in 1..(last + 1) |-> w[n - 1]] = [n \in 1..v |-> v + 1 - n]
  <2> HIDE DEF w, last
  <2> QED
    BY <1>1, <1>3
<1>8. error = ""
  <2> HIDE DEF w, found, last, twice
  <2>1. last \in Nat
    BY <1>3
  <2> QED
    BY <1>4, <1>6, <2>1
<1> HIDE DEF w, found, last, twice, error
<1> QED
  BY <1>5, <1>7, <1>8, Zenon

\* From every version of every chain the pointers lead through all the older
\* ones to the first and end there, whatever was appended and whichever Puts
\* failed (appendInTx, ResolveSupersedes).
THEOREM PointersReachTheFirst == Spec => []ChainsAreLinked
<1>1. IInv => ChainsAreLinked
  <2> SUFFICES ASSUME IInv, NEW id \in Ids, NEW v \in DOMAIN store.chain[id]
               PROVE  ResolveSupersedes(store, id, v, MaxAppends) =
                        [versions |-> [n \in 1..v |-> v + 1 - n], error |-> ""]
    BY DEF ChainsAreLinked
  <2>1. /\ store.chain[id] \in Seq(Records) /\ Linked(store.chain[id])
        /\ Len(store.chain[id]) <= MaxAppends
    BY DEF IInv, ChainsGood
  <2>2. v \in 1..Len(store.chain[id]) /\ v <= MaxAppends
    BY <2>1, EventStoreAssumption
  <2> QED
    BY <2>1, <2>2, WalkIsWhole, EventStoreAssumption
<1> QED
  BY <1>1, StoreInvariant, PTL

-----------------------------------------------------------------------------
(* Reads at a time *)

\* The walk of AsOf stops at the first version after t, and in a chain whose
\* times ascend everything behind it is after t too.
LEMMA AsOfStops ==
  ASSUME store.chain \in [Ids -> Seq(Records)], NEW id \in Ids, TimesAscend(id), NEW t \in Times
  PROVE  AsOf(store, id, t) = HighestAt(id, t)
<1> DEFINE c == store.chain[id]
           n == Len(c)
           Stop(v) == /\ v = n + 1 \/ c[v].createdAt > t
                      /\ \A w \in 1..(v - 1) : c[w].createdAt <= t
           After == {v \in 1..(n + 1) : v = n + 1 \/ c[v].createdAt > t}
           stop == CHOOSE v \in 1..(n + 1) : Stop(v)
           old == {v \in DOMAIN c : c[v].createdAt <= t}
<1>1. /\ n \in Nat /\ DOMAIN c = 1..n /\ t \in Nat
      /\ \A v \in 1..n : c[v].createdAt \in Nat
  <2>1. c \in Seq(Records)
    OBVIOUS
  <2>2. n \in Nat /\ DOMAIN c = 1..n
    BY <2>1
  <2>3. \A v \in 1..n : c[v] \in Records
    BY <2>1
  <2>4. t \in Nat /\ \A r \in Records : r.createdAt \in Nat
    BY EventStoreAssumption DEF Records
  <2> HIDE DEF c, n
  <2> QED
    BY <2>2, <2>3, <2>4
<1>2. \A v, w \in 1..n : v < w => c[v].createdAt <= c[w].createdAt
  BY <1>1 DEF TimesAscend
<1>3. AsOf(store, id, t) = IF stop = 1 THEN NotFound ELSE Event(store, id, stop - 1)
  BY DEF AsOf
<1>4. HighestAt(id, t) =
        IF old = {} THEN NotFound ELSE Event(store, id, CHOOSE v \in old : \A w \in old : w <= v)
  BY DEF HighestAt
<1> HIDE DEF c, n
<1>5. \E v \in 1..(n + 1) : Stop(v)
  <2>1. After \in SUBSET Nat /\ n + 1 \in After
    BY <1>1
  <2>2. PICK v \in After : \A w \in After : v <= w
    <3> HIDE DEF After
    <3> QED
      BY <2>1, LeastOf
  <2>3. \A w \in 1..(v - 1) : w \in 1..n /\ ~(v <= w)
    BY <1>1, <2>2
  <2>4. \A w \in 1..(v - 1) : c[w].createdAt <= t
    BY <1>1, <2>2, <2>3
  <2> QED
    BY <2>2, <2>4
<1>6. stop \in 1..(n + 1) /\ Stop(stop)
  <2> HIDE DEF Stop
  <2> QED
    BY <1>5
<1> HIDE DEF stop
<1>7. old = 1..(stop - 1)
  <2>1. \A v \in 1..n : v < stop => c[v].createdAt <= t
    BY <1>1, <1>6
  <2>2. ASSUME NEW v \in 1..n, v >= stop
        PROVE  ~(c[v].createdAt <= t)
    <3>1. stop \in 1..n /\ c[stop].createdAt > t
      BY <1>1, <1>6, <2>2
    <3>2. c[stop].createdAt <= c[v].createdAt
      BY <1>1, <1>2, <2>2, <3>1
    <3> QED
      BY <1>1, <3>1, <3>2
  <2>3. 1..(stop - 1) \subseteq 1..n
    BY <1>1, <1>6
  <2> QED
    BY <1>1, <1>6, <2>1, <2>2, <2>3
<1> HIDE DEF old, Stop
<1>8. CASE stop = 1
  BY <1>3, <1>4, <1>7, <1>8
<1>9. CASE stop # 1
  <2>1. stop - 1 \in 1..(stop - 1) /\ \A w \in 1..(stop - 1) : w <= stop - 1
    BY <1>1, <1>6, <1>9
  <2>2. \A v \in 1..(stop - 1) : (\A w \in 1..(stop - 1) : w <= v) => v = stop - 1
    <3> TAKE v \in 1..(stop - 1)
    <3> HAVE \A w \in 1..(stop - 1) : w <= v
    <3>1. stop - 1 <= v
      BY <2>1
    <3>2. stop \in Nat /\ v \in Nat /\ v <= stop - 1
      BY <1>1, <1>6
    <3> QED
      BY <3>1, <3>2
  <2>3. (CHOOSE v \in old : \A w \in old : w <= v) = stop - 1
    BY <1>7, <2>1, <2>2
  <2> QED
    BY <1>3, <1>4, <1>7, <1>9, <2>1, <2>3
<1> QED
  BY <1>8, <1>9

\* A read at a time t returns the highest version that is not after t, in
\* every chain whose times ascend (AsOf).
THEOREM ReadsAtATimeAreExact == Spec => []AsOfIsHighest
<1>1. IInv => AsOfIsHighest
  BY AsOfStops DEF IInv, ChainsGood, AsOfIsHighest
<1> QED
  BY <1>1, StoreInvariant, PTL
=============================================================================
