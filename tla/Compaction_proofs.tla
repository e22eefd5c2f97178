-------------------------- MODULE Compaction_proofs --------------------------
(***************************************************************************)
(* For any keys, values, sizes of a batch and numbers of updates,          *)
(* compactions and crashes: wherever a compaction stops, the acknowledged  *)
(* pairs are in the data file with the log replayed over it.               *)
(***************************************************************************)
EXTENDS Compaction, WellFoundedInduction, TLAPS

Value == Vals \cup {Absent}
Record == [key : PairKeys, val : Value]
Good(k) == {acked[k]} \cup pend[k]

\* Every set of naturals that is not empty has a least element.
LEMMA LeastOf ==
  ASSUME NEW T \in SUBSET Nat, T # {}
  PROVE  \E x \in T : \A y \in T : x <= y
<1>1. PICK x \in T : \A y \in T : ~ (<<y, x>> \in OpToRel(<, Nat))
  BY NatLessThanWellFounded, WFMin
<1>2. \A y \in T : ~(y < x)
  BY <1>1 DEF OpToRel
<1> QED
  BY <1>2

\* The highest of some numbers of 1..n.
LEMMA HighestOf ==
  ASSUME NEW n \in Nat, NEW T \in SUBSET (1..n), T # {}
  PROVE  Max(T) \in T /\ \A y \in T : y <= Max(T)
<1> DEFINE D == {d \in Nat : \E y \in T : y = n - d}
<1>1. \A y \in T : y \in Nat /\ y <= n
  OBVIOUS
<1>2. \A y \in T : n - y \in D
  BY <1>1
<1>3. D \in SUBSET Nat /\ D # {}
  BY <1>2
<1>4. PICK d \in D : \A e \in D : d <= e
  <2> HIDE DEF D
  <2> QED
    BY <1>3, LeastOf
<1>5. PICK x \in T : x = n - d
  BY <1>4
<1>6. \A y \in T : y <= x
  <2> TAKE y \in T
  <2>1. d <= n - y /\ d \in Nat
    BY <1>2, <1>4
  <2> QED
    BY <1>1, <1>5, <2>1
<1>7. \E x2 \in T : \A y \in T : x2 >= y
  BY <1>1, <1>6
<1> QED
  BY <1>1, <1>7 DEF Max

-----------------------------------------------------------------------------
(* Replay                                                                  *)

Has(log, k) == RecordsOf(log, k) # {}

\* What a log says last about a key is the value of one of its records.
LEMMA LastIsRecord ==
  ASSUME NEW log \in Seq(Record), NEW k, Has(log, k)
  PROVE  \E i \in 1..Len(log) : log[i].key = k /\ LastOf(log, k) = log[i].val
<1>1. RecordsOf(log, k) \in SUBSET (1..Len(log)) /\ Len(log) \in Nat
  BY DEF RecordsOf
<1>2. Max(RecordsOf(log, k)) \in RecordsOf(log, k)
  BY <1>1, HighestOf DEF Has
<1> QED
  BY <1>2 DEF LastOf, RecordsOf

\* One more record has the last word on its key and changes nothing for the others.
LEMMA OneMoreRecord ==
  ASSUME NEW log \in Seq(Record), NEW r \in Record
  PROVE  /\ Append(log, r) \in Seq(Record)
         /\ LastOf(Append(log, r), r.key) = r.val
         /\ \A k : k # r.key /\ Has(Append(log, r), k) =>
               Has(log, k) /\ LastOf(Append(log, r), k) = LastOf(log, k)
<1> DEFINE c == Append(log, r)
           n == Len(log) + 1
<1>1. /\ c \in Seq(Record) /\ Len(c) = n /\ Len(log) \in Nat /\ n \in Nat
      /\ c[n] = r /\ \A i \in 1..Len(log) : c[i] = log[i]
  OBVIOUS
<1> HIDE DEF c
<1>2. LastOf(c, r.key) = r.val
  <2> DEFINE S == RecordsOf(c, r.key)
  <2>1. S \in SUBSET (1..n) /\ n \in S /\ \A i \in S : i <= n
    BY <1>1 DEF RecordsOf
  <2>2. Max(S) \in S /\ n <= Max(S)
    <3> HIDE DEF S, n
    <3> QED
      BY <1>1, <2>1, HighestOf
  <2>3. Max(S) = n
    <3>1. Max(S) \in Nat /\ Max(S) <= n
      BY <2>1, <2>2
    <3> QED
      BY <1>1, <2>2, <3>1
  <2> QED
    BY <1>1, <2>3 DEF LastOf
<1>3. ASSUME NEW k, k # r.key, Has(c, k)
      PROVE  Has(log, k) /\ LastOf(c, k) = LastOf(log, k)
  <2>1. RecordsOf(c, k) = RecordsOf(log, k)
    BY <1>1, <1>3 DEF RecordsOf
  <2>2. Max(RecordsOf(log, k)) \in RecordsOf(log, k)
    <3>1. RecordsOf(log, k) \in SUBSET (1..Len(log))
      BY DEF RecordsOf
    <3> QED
      BY <1>1, <1>3, <2>1, <3>1, HighestOf DEF Has
  <2>3. Max(RecordsOf(log, k)) \in 1..Len(log)
    BY <2>2 DEF RecordsOf
  <2> QED
    BY <1>1, <1>3, <2>1, <2>3 DEF LastOf, Has
<1> QED
  BY <1>1, <1>2, <1>3 DEF c

\* Segments of a log, numbered from 1 on.
Segments(s) == /\ s = [i \in DOMAIN s |-> s[i]]
               /\ DOMAIN s \subseteq 1..(MaxSegment + 2)
               /\ \A i \in DOMAIN s : s[i] \in Seq(Record)

\* The last word of every segment is an acknowledged value or one written since.
GoodLog(s) == \A i \in DOMAIN s, k \in PairKeys : Has(s[i], k) => LastOf(s[i], k) \in Good(k)

\* A replay leaves a key as it is or gives it the last word of a segment.
LEMMA ReplayIsGood ==
  ASSUME NEW s, Segments(s), NEW img \in [PairKeys -> Value]
  PROVE  /\ Replayed(img, s) \in [PairKeys -> Value]
         /\ GoodLog(s) => \A k \in PairKeys : Replayed(img, s)[k] \in {img[k]} \cup Good(k)
<1>1. ASSUME NEW k \in PairKeys, SegmentsOf(s, k) # {}
      PROVE  \E i \in DOMAIN s : Has(s[i], k) /\ Replayed(img, s)[k] = LastOf(s[i], k)
  <2>1. SegmentsOf(s, k) \in SUBSET (1..(MaxSegment + 2)) /\ MaxSegment + 2 \in Nat
    BY CompactionAssumption DEF Segments, SegmentsOf
  <2>2. Max(SegmentsOf(s, k)) \in SegmentsOf(s, k)
    BY <1>1, <2>1, HighestOf
  <2> QED
    BY <1>1, <2>2 DEF Replayed, SegmentsOf, Has
<1>2. ASSUME NEW k \in PairKeys, SegmentsOf(s, k) = {}
      PROVE  Replayed(img, s)[k] = img[k]
  BY <1>2 DEF Replayed
<1>3. ASSUME NEW k \in PairKeys PROVE Replayed(img, s)[k] \in Value
  <2>1. CASE SegmentsOf(s, k) # {}
    <3>1. PICK i \in DOMAIN s : Has(s[i], k) /\ Replayed(img, s)[k] = LastOf(s[i], k)
      BY <1>1, <2>1
    <3>2. s[i] \in Seq(Record)
      BY DEF Segments
    <3>3. PICK j \in 1..Len(s[i]) : LastOf(s[i], k) = s[i][j].val
      BY <3>1, <3>2, LastIsRecord
    <3>4. s[i][j] \in Record
      BY <3>2
    <3> QED
      BY <3>1, <3>3, <3>4 DEF Record
  <2> QED
    BY <1>2, <2>1
<1>4. Replayed(img, s) \in [PairKeys -> Value]
  BY <1>3 DEF Replayed
<1>5. ASSUME GoodLog(s), NEW k \in PairKeys PROVE Replayed(img, s)[k] \in {img[k]} \cup Good(k)
  BY <1>1, <1>2, <1>5 DEF GoodLog
<1> QED
  BY <1>4, <1>5

-----------------------------------------------------------------------------
(* The pairs to copy                                                       *)

\* LivePairs before its last step, and what defines it.
PairsUpTo ==
  LET upTo[n \in 0..Len(KeyOrder)] ==
        IF n < 1 THEN << >>
        ELSE IF mem[KeyOrder[n]] = Absent THEN upTo[n - 1]
             ELSE Append(upTo[n - 1], Rec(KeyOrder[n], mem[KeyOrder[n]]))
  IN upTo
CollectsUpTo(g, m) ==
  g = [n \in 0..m |->
         IF n < 1 THEN << >>
         ELSE IF mem[KeyOrder[n]] = Absent THEN g[n - 1]
              ELSE Append(g[n - 1], Rec(KeyOrder[n], mem[KeyOrder[n]]))]

\* The definition can be satisfied one key further.
LEMMA CollectsFurther ==
  ASSUME NEW m \in Nat \ {0}, NEW g, CollectsUpTo(g, m - 1)
  PROVE  \E h : CollectsUpTo(h, m)
<1> DEFINE last == IF mem[KeyOrder[m]] = Absent THEN g[m - 1]
                   ELSE Append(g[m - 1], Rec(KeyOrder[m], mem[KeyOrder[m]]))
           h == [n \in 0..m |-> IF n = m THEN last ELSE g[n]]
<1>1. \A n \in 0..(m - 1) :
         g[n] = IF n < 1 THEN << >>
                ELSE IF mem[KeyOrder[n]] = Absent THEN g[n - 1]
                     ELSE Append(g[n - 1], Rec(KeyOrder[n], mem[KeyOrder[n]]))
  BY DEF CollectsUpTo
<1>2. ASSUME NEW n \in 0..m
      PROVE  h[n] = IF n < 1 THEN << >>
                    ELSE IF mem[KeyOrder[n]] = Absent THEN h[n - 1]
                         ELSE Append(h[n - 1], Rec(KeyOrder[n], mem[KeyOrder[n]]))
  <2>1. CASE n = m
    <3> HIDE DEF last
    <3>1. h[m] = last /\ h[m - 1] = g[m - 1]
      OBVIOUS
    <3> HIDE DEF h
    <3> QED
      BY <2>1, <3>1 DEF last
  <2>2. CASE n # m
    <3> HIDE DEF last
    <3>1. n \in 0..(m - 1) /\ h[n] = g[n] /\ (n # 0 => h[n - 1] = g[n - 1])
      BY <2>2
    <3> HIDE DEF h
    <3> QED
      BY <1>1, <3>1
  <2> QED
    BY <2>1, <2>2
<1>3. CollectsUpTo(h, m)
  <2> HIDE DEF last
  <2>1. \A n \in 0..m :
           h[n] = IF n < 1 THEN << >>
                  ELSE IF mem[KeyOrder[n]] = Absent THEN h[n - 1]
                       ELSE Append(h[n - 1], Rec(KeyOrder[n], mem[KeyOrder[n]]))
    BY <1>2
  <2> QED
    BY <2>1 DEF CollectsUpTo
<1> QED
  BY <1>3

\* The function is what its definition says.
LEMMA PairsAreDefined == CollectsUpTo(PairsUpTo, Len(KeyOrder))
<1> DEFINE T == {m \in 0..Len(KeyOrder) : ~ \E g : CollectsUpTo(g, m)}
<1>1. Len(KeyOrder) \in Nat
  BY CompactionAssumption
<1>2. T = {}
  <2> SUFFICES ASSUME T # {}
               PROVE  FALSE
    OBVIOUS
  <2>1. T \in SUBSET Nat
    BY <1>1
  <2>2. PICK m \in T : \A k \in T : m <= k
    <3> HIDE DEF T
    <3> QED
      BY <2>1, LeastOf
  <2>3. CASE m = 0
    <3> DEFINE g == [n \in 0..0 |-> << >>]
    <3>1. CollectsUpTo(g, 0)
      BY DEF CollectsUpTo
    <3> QED
      BY <2>2, <2>3, <3>1
  <2>4. CASE m # 0
    <3>1. m \in Nat \ {0} /\ m - 1 \in 0..Len(KeyOrder) /\ ~(m <= m - 1)
      BY <1>1, <2>2, <2>4
    <3>2. \E g : CollectsUpTo(g, m - 1)
      BY <2>2, <3>1
    <3>3. \E h : CollectsUpTo(h, m)
      BY <3>1, <3>2, CollectsFurther
    <3> QED
      BY <2>2, <3>3
  <2> QED
    BY <2>3, <2>4
<1>3. \E g : CollectsUpTo(g, Len(KeyOrder))
  BY <1>1, <1>2
<1>4. PairsUpTo = CHOOSE g : CollectsUpTo(g, Len(KeyOrder))
  BY DEF PairsUpTo, CollectsUpTo
<1> QED
  BY <1>3, <1>4

\* A list of the live pairs of the first m keys.
Lists(s, m) ==
  /\ s \in Seq(Record) /\ \A i \in 1..Len(s) : s[i].val = mem[s[i].key]
  /\ \A n \in 1..m : mem[KeyOrder[n]] # Absent => \E i \in 1..Len(s) : s[i].key = KeyOrder[n]

\* A pair more at the end of a list.
LEMMA ListTakes ==
  ASSUME mem \in [PairKeys -> Value], NEW m \in 1..Len(KeyOrder), NEW s, Lists(s, m - 1)
  PROVE  Lists(Append(s, Rec(KeyOrder[m], mem[KeyOrder[m]])), m)
<1> DEFINE r == Rec(KeyOrder[m], mem[KeyOrder[m]])
           t == Append(s, r)
<1>1. KeyOrder[m] \in PairKeys /\ Len(KeyOrder) \in Nat
  BY CompactionAssumption
<1>2. r \in Record /\ r.key = KeyOrder[m] /\ r.val = mem[r.key]
  BY <1>1 DEF Rec, Record
<1> HIDE DEF r
<1>3. /\ t \in Seq(Record) /\ Len(s) \in Nat /\ Len(t) = Len(s) + 1
      /\ t[Len(t)] = r /\ \A i \in 1..Len(s) : t[i] = s[i] /\ i \in 1..Len(t)
      /\ \A i \in 1..Len(t) : i \in 1..Len(s) \/ i = Len(t)
  BY <1>2 DEF Lists
<1> HIDE DEF t
<1>4. \A i \in 1..Len(t) : t[i].val = mem[t[i].key]
  BY <1>2, <1>3 DEF Lists
<1>5. ASSUME NEW n \in 1..m, mem[KeyOrder[n]] # Absent
      PROVE  \E i \in 1..Len(t) : t[i].key = KeyOrder[n]
  <2>1. CASE n = m
    BY <1>2, <1>3, <2>1
  <2>2. CASE n # m
    <3>1. n \in 1..m - 1
      BY <2>2
    <3>2. PICK i \in 1..Len(s) : s[i].key = KeyOrder[n]
      BY <1>5, <3>1 DEF Lists
    <3> QED
      BY <1>3, <3>2
  <2> QED
    BY <2>1, <2>2
<1> QED
  BY <1>3, <1>4, <1>5 DEF Lists, t, r

\* collectAllPairs finds the pair of every key that has a value, and no others.
LEMMA AllPairsAreFound ==
  ASSUME mem \in [PairKeys -> Value]
  PROVE  /\ collectAllPairs \in Seq(Record)
         /\ \A i \in 1..Len(collectAllPairs) : collectAllPairs[i].val = mem[collectAllPairs[i].key]
         /\ \A k \in PairKeys : mem[k] # Absent =>
               \E i \in 1..Len(collectAllPairs) : collectAllPairs[i].key = k
<1> DEFINE g == PairsUpTo
           max == Len(KeyOrder)
           T == {n \in 0..max : ~Lists(g[n], n)}
<1>1. max \in Nat
  BY CompactionAssumption
<1>2. \A n \in 0..max :
        g[n] = IF n < 1 THEN << >>
               ELSE IF mem[KeyOrder[n]] = Absent THEN g[n - 1]
                    ELSE Append(g[n - 1], Rec(KeyOrder[n], mem[KeyOrder[n]]))
  BY PairsAreDefined, ZenonT(30) DEF CollectsUpTo
<1>3. collectAllPairs = g[max]
  BY DEF collectAllPairs, LivePairs, PairsUpTo
<1> HIDE DEF g, T
<1>4. T = {}
  <2> SUFFICES ASSUME T # {}
               PROVE  FALSE
    OBVIOUS
  <2>1. T \in SUBSET Nat
    BY <1>1 DEF T
  <2>2. PICK n \in T : \A k \in T : n <= k
    BY <2>1, LeastOf
  <2>3. n \in 0..max /\ ~Lists(g[n], n)
    BY DEF T
  <2>4. CASE n = 0
    <3>1. g[0] = << >>
      BY <1>1, <1>2
    <3>2. Lists(<< >>, 0)
      BY DEF Lists
    <3> QED
      BY <2>3, <2>4, <3>1, <3>2
  <2>5. CASE n # 0
    <3>1. n \in 1..max /\ n - 1 \in 0..max /\ ~(n <= n - 1) /\ ~(n < 1)
      BY <1>1, <2>3, <2>5
    <3>2. Lists(g[n - 1], n - 1)
      BY <2>2, <3>1 DEF T
    <3>3. CASE mem[KeyOrder[n]] = Absent
      <4>1. g[n] = g[n - 1]
        BY <1>2, <2>3, <3>1, <3>3
      <4>2. \A j \in 1..n : j \in 1..n - 1 \/ j = n
        BY <3>1
      <4> QED
        BY <2>3, <3>2, <3>3, <4>1, <4>2 DEF Lists
    <3>4. CASE mem[KeyOrder[n]] # Absent
      <4>1. g[n] = Append(g[n - 1], Rec(KeyOrder[n], mem[KeyOrder[n]]))
        BY <1>2, <2>3, <3>1, <3>4
      <4> QED
        BY <2>3, <3>1, <3>2, <4>1, ListTakes
    <3> QED
      BY <3>3, <3>4
  <2> QED
    BY <2>4, <2>5
<1>5. Lists(collectAllPairs, max)
  BY <1>1, <1>3, <1>4 DEF T
<1>6. \A k \in PairKeys : \E n \in 1..max : KeyOrder[n] = k
  BY CompactionAssumption DEF ToSet
<1> HIDE DEF max
<1> QED
  BY <1>5, <1>6 DEF Lists

-----------------------------------------------------------------------------
(* The inductive invariant                                                 *)

Types == /\ data \in [PairKeys -> Value] /\ mem \in [PairKeys -> Value]
         /\ tmp = [tree |-> tmp.tree, file |-> tmp.file]
         /\ tmp.tree \in [PairKeys -> Value] /\ tmp.file \in [PairKeys -> Value]
         /\ Segments(segs) /\ (stage = "copying" => 1 \in DOMAIN segs) /\ pairs \in Seq(Record)
         /\ live = [id |-> live.id, named |-> live.named] /\ live.id \in Nat \ {0}
         /\ acked \in [PairKeys -> Value] /\ pend \in [PairKeys -> SUBSET Value]

\* What the copy holds, and what is still to come: the replay of the shared log
\* puts old values into it, each of which is overwritten by a pair or good.
CopyIsGood ==
  /\ stage = "replayed" => \A k \in PairKeys : tmp.tree[k] \in {Absent} \cup Good(k)
  /\ stage = "copying" =>
       /\ \A i \in 1..Len(pairs) : pairs[i].val = mem[pairs[i].key]
       /\ \A k \in PairKeys : tmp.tree[k] \in Good(k) \/ \E i \in 1..Len(pairs) : pairs[i].key = k
  /\ stage \in {"flushed", "copied", "closed", "renamed"} => Holds(tmp.file)

\* The data file and the log hold nothing older than what was acknowledged, each
\* by itself; so does memory while the process lives.
AllIsGood == Holds(data) /\ GoodLog(segs) /\ (stage # "down" => Holds(mem)) /\ CopyIsGood

CompactInv == Types /\ (~overtaken => AllIsGood)

\* What the invariant is for.
LEMMA InvKeepsPairs == CompactInv => CompactKeepsPairs
<1> SUFFICES ASSUME CompactInv, ~overtaken
             PROVE  Holds(Replayed(data, segs)) /\ (stage # "down" => Holds(mem))
  BY DEF CompactKeepsPairs
<1>1. \A k \in PairKeys : Replayed(data, segs)[k] \in {data[k]} \cup Good(k)
  BY ReplayIsGood DEF CompactInv, Types, AllIsGood
<1> QED
  BY <1>1 DEF CompactInv, AllIsGood, Holds, Good

\* A segment with nothing in it, and no segment but that.
LEMMA EmptySegment ==
  ASSUME NEW id \in 1..(MaxSegment + 2)
  PROVE  Segments(Segment(id, << >>)) /\ GoodLog(Segment(id, << >>))
<1>1. \A k : ~Has(<< >>, k)
  BY DEF Has, RecordsOf
<1> QED
  BY <1>1 DEF Segments, GoodLog, Segment

\* One more record in a log.
LEMMA LoggedSegments ==
  ASSUME NEW s, Segments(s), NEW id, NEW r \in Record
  PROVE  /\ Segments(Logged(s, id, r)) /\ DOMAIN Logged(s, id, r) = DOMAIN s
         /\ \A i \in DOMAIN s, k \in PairKeys :
              Has(Logged(s, id, r)[i], k) =>
                \/ i = id /\ k = r.key /\ LastOf(Logged(s, id, r)[i], k) = r.val
                \/ (i # id \/ k # r.key) /\ Has(s[i], k) /\ LastOf(Logged(s, id, r)[i], k) = LastOf(s[i], k)
<1> DEFINE t == Logged(s, id, r)
<1>1. DOMAIN t = DOMAIN s /\ t = [i \in DOMAIN s |-> t[i]]
      /\ \A i \in DOMAIN s : t[i] = IF i = id THEN Append(s[i], r) ELSE s[i]
  BY DEF Logged, Segments
<1> HIDE DEF t
<1>2. \A i \in DOMAIN s : s[i] \in Seq(Record)
  BY DEF Segments
<1>3. \A i \in DOMAIN s : t[i] \in Seq(Record)
  BY <1>1, <1>2
<1>4. Segments(t)
  BY <1>1, <1>3 DEF Segments
<1>5. ASSUME NEW i \in DOMAIN s, NEW k \in PairKeys, Has(t[i], k)
      PROVE  \/ i = id /\ k = r.key /\ LastOf(t[i], k) = r.val
             \/ (i # id \/ k # r.key) /\ Has(s[i], k) /\ LastOf(t[i], k) = LastOf(s[i], k)
  <2>1. CASE i # id
    BY <1>1, <1>5, <2>1
  <2>2. CASE i = id
    <3>1. t[i] = Append(s[i], r) /\ s[i] \in Seq(Record)
      BY <1>1, <1>2, <2>2
    <3>2. CASE k = r.key
      BY <2>2, <3>1, <3>2, OneMoreRecord
    <3>3. CASE k # r.key
      BY <1>5, <3>1, <3>3, OneMoreRecord
    <3> QED
      BY <3>2, <3>3
  <2> QED
    BY <2>1, <2>2
<1> QED
  BY <1>1, <1>4, <1>5 DEF t

\* A new database.
LEMMA InitKeeps == CompactInit => CompactInv
<1> SUFFICES ASSUME CompactInit PROVE CompactInv
  OBVIOUS
<1>1. Nothing \in [PairKeys -> Value] /\ Holds(Nothing)
  BY DEF Nothing, Value, Holds, CompactInit
<1>2. 1 \in 1..(MaxSegment + 2)
  BY CompactionAssumption
<1>3. Segments(segs) /\ GoodLog(segs)
  BY <1>2, EmptySegment DEF CompactInit
<1> QED
  BY <1>1, <1>3 DEF CompactInit, CompactInv, Types, AllIsGood, CopyIsGood

\* Update is acknowledged: its value is the last word of the one segment there is.
LEMMA UpdateKeeps ==
  ASSUME CompactInv, NEW k \in PairKeys, NEW v \in Value, Update(k, v)
  PROVE  CompactInv'
<1> DEFINE r == Rec(k, v)
<1>1. /\ stage = "idle" /\ stage' = "idle" /\ mem' = [mem EXCEPT ![k] = v] /\ data' = mem'
      /\ segs' = IF live.named THEN Logged(segs, live.id, r) ELSE segs
      /\ acked' = [acked EXCEPT ![k] = v]
      /\ pend' = [j \in PairKeys |-> IF j = k THEN {} ELSE pend[j]]
      /\ overtaken' = (overtaken \/ ~live.named \/ DOMAIN segs # {live.id})
      /\ UNCHANGED <<tmp, live, pairs>>
  BY DEF Update, LogWrite
<1>2. r \in Record /\ r.key = k /\ r.val = v
  BY DEF Rec, Record
<1> HIDE DEF r
<1>3. Types
  BY DEF CompactInv
<1>4. Segments(segs')
  BY <1>1, <1>2, <1>3, LoggedSegments DEF Types
<1>5. Types'
  BY <1>1, <1>3, <1>4 DEF Types
<1>6. ASSUME ~overtaken' PROVE AllIsGood'
  <2>1. live.named /\ DOMAIN segs = {live.id} /\ AllIsGood
    BY <1>1, <1>6 DEF CompactInv
  <2>2. Good(k)' = {v} /\ \A j \in PairKeys \ {k} : Good(j)' = Good(j)
    BY <1>1, <1>3 DEF Good, Types
  <2>3. Holds(mem)' /\ Holds(data)'
    BY <1>1, <1>3, <2>1, <2>2 DEF Holds, AllIsGood, Types, Good
  <2>4. ASSUME NEW i \in DOMAIN segs', NEW j \in PairKeys, Has(segs'[i], j)
        PROVE  LastOf(segs'[i], j) \in Good(j)'
    <3>1. segs' = Logged(segs, live.id, r) /\ Segments(segs)
      BY <1>1, <1>3, <2>1 DEF Types
    <3>2. i = live.id /\ i \in DOMAIN segs
      BY <1>2, <2>1, <3>1, LoggedSegments
    <3>3. \/ j = k /\ LastOf(segs'[i], j) = v
          \/ j # k /\ Has(segs[i], j) /\ LastOf(segs'[i], j) = LastOf(segs[i], j)
      BY <1>2, <2>4, <3>1, <3>2, LoggedSegments
    <3> QED
      BY <2>1, <2>2, <3>2, <3>3 DEF AllIsGood, GoodLog
  <2>5. GoodLog(segs)'
    BY <2>4 DEF GoodLog
  <2> QED
    BY <1>1, <2>3, <2>5 DEF AllIsGood, CopyIsGood
<1> QED
  BY <1>5, <1>6 DEF CompactInv

\* Update is rolled back: its value stays in memory, and in the log without group commit.
LEMMA UpdateFailsKeeps ==
  ASSUME CompactInv, NEW k \in PairKeys, NEW v \in Value, NEW logged \in BOOLEAN,
         UpdateFails(k, v, logged)
  PROVE  CompactInv'
<1> DEFINE r == Rec(k, v)
<1>1. /\ stage = "idle" /\ stage' = "idle" /\ mem' = [mem EXCEPT ![k] = v]
      /\ segs' = IF logged /\ live.named THEN Logged(segs, live.id, r) ELSE segs
      /\ pend' = [pend EXCEPT ![k] = @ \cup {v}]
      /\ UNCHANGED <<data, acked, overtaken, tmp, live, pairs>>
  BY DEF UpdateFails, LogWrite
<1>2. r \in Record /\ r.key = k /\ r.val = v
  BY DEF Rec, Record
<1> HIDE DEF r
<1>3. Types
  BY DEF CompactInv
<1>4. Segments(segs')
  BY <1>1, <1>2, <1>3, LoggedSegments DEF Types
<1>5. Types'
  BY <1>1, <1>3, <1>4 DEF Types
<1>6. ASSUME ~overtaken' PROVE AllIsGood'
  <2>1. AllIsGood
    BY <1>1, <1>6 DEF CompactInv
  <2>2. v \in Good(k)' /\ \A j \in PairKeys : Good(j) \subseteq Good(j)'
    BY <1>1, <1>3 DEF Good, Types
  <2>3. Holds(mem)' /\ Holds(data)'
    BY <1>1, <1>3, <2>1, <2>2 DEF Holds, AllIsGood, Types, Good
  <2>4. ASSUME NEW i \in DOMAIN segs', NEW j \in PairKeys, Has(segs'[i], j)
        PROVE  LastOf(segs'[i], j) \in Good(j)'
    <3>1. CASE segs' = segs
      BY <2>1, <2>2, <2>4, <3>1 DEF AllIsGood, GoodLog
    <3>2. CASE segs' = Logged(segs, live.id, r)
      <4>1. Segments(segs) /\ i \in DOMAIN segs
        BY <1>2, <1>3, <3>2, LoggedSegments DEF Types
      <4>2. \/ j = k /\ LastOf(segs'[i], j) = v
            \/ Has(segs[i], j) /\ LastOf(segs'[i], j) = LastOf(segs[i], j)
        BY <1>2, <2>4, <3>2, <4>1, LoggedSegments
      <4> QED
        BY <2>1, <2>2, <4>1, <4>2 DEF AllIsGood, GoodLog
    <3> QED
      BY <1>1, <3>1, <3>2
  <2>5. GoodLog(segs)'
    BY <2>4 DEF GoodLog
  <2> QED
    BY <1>1, <2>3, <2>5 DEF AllIsGood, CopyIsGood
<1> QED
  BY <1>5, <1>6 DEF CompactInv

\* A checkpoint takes a new segment, or finds its name taken.
LEMMA CheckpointKeeps == ASSUME CompactInv, Checkpoint PROVE CompactInv'
<1>1. /\ stage = "idle" /\ stage' \in {"idle", "broken"} /\ live.id < MaxSegment /\ data' = mem
      /\ UNCHANGED <<mem, tmp, pairs, acked, pend, overtaken>>
  BY DEF Checkpoint
<1>2. Types
  BY DEF CompactInv
<1>3. CASE UNCHANGED <<segs, live>>
  <2>1. Types'
    BY <1>1, <1>2, <1>3 DEF Types, Segments
  <2> QED
    BY <1>1, <1>3, <2>1 DEF CompactInv, AllIsGood, GoodLog, Good, CopyIsGood, Holds
<1>4. CASE ~UNCHANGED <<segs, live>>
  <2> DEFINE n == live.id + 1
             g == [i \in (DOMAIN segs \ {live.id}) \cup {n} |->
                     IF i \in DOMAIN segs THEN segs[i] ELSE << >>]
  <2>1. segs' = g /\ live' = [id |-> n, named |-> TRUE]
    BY <1>1, <1>4 DEF Checkpoint
  <2>2. n \in 1..(MaxSegment + 2) /\ n \in Nat \ {0}
    BY <1>1, <1>2, CompactionAssumption DEF Types
  <2> HIDE DEF n
  <2>3. \A i \in DOMAIN g : g[i] = << >> \/ (i \in DOMAIN segs /\ g[i] = segs[i])
    OBVIOUS
  <2>4. Segments(g)
    BY <1>2, <2>2 DEF Types, Segments
  <2> HIDE DEF g
  <2>5. GoodLog(segs) => GoodLog(g)
    <3>1. \A k : ~Has(<< >>, k)
      BY DEF Has, RecordsOf
    <3> QED
      BY <2>3, <3>1 DEF GoodLog
  <2>6. Types'
    BY <1>1, <1>2, <2>1, <2>2, <2>4 DEF Types
  <2> QED
    BY <1>1, <2>1, <2>5, <2>6 DEF CompactInv, AllIsGood, GoodLog, Good, CopyIsGood, Holds
<1> QED
  BY <1>3, <1>4

\* wireSubsystems, of Open and of a compaction's end.
LEMMA WireKeeps ==
  ASSUME CompactInv, Wire(data), UNCHANGED <<tmp, pairs, acked, pend, overtaken>>
  PROVE  CompactInv'
<1>1. /\ mem' = Replayed(data, segs) /\ data' = mem' /\ stage' = "idle"
      /\ segs' = Segment(1, << >>) /\ live' = [id |-> 1, named |-> TRUE]
  BY DEF Wire
<1>2. Types
  BY DEF CompactInv
<1>3. /\ mem' \in [PairKeys -> Value]
      /\ GoodLog(segs) => \A k \in PairKeys : mem'[k] \in {data[k]} \cup Good(k)
  BY <1>1, <1>2, ReplayIsGood DEF Types
<1>4. 1 \in 1..(MaxSegment + 2)
  BY CompactionAssumption
<1>5. Segments(segs') /\ GoodLog(segs')
  BY <1>1, <1>4, EmptySegment
<1>6. Types'
  BY <1>1, <1>2, <1>3, <1>5 DEF Types
<1>7. ASSUME ~overtaken' PROVE AllIsGood'
  <2>1. AllIsGood
    BY <1>7 DEF CompactInv
  <2>2. Holds(mem)' /\ Holds(data)'
    BY <1>1, <1>3, <2>1 DEF AllIsGood, Holds, Good
  <2> QED
    BY <1>1, <1>5, <2>2 DEF AllIsGood, CopyIsGood, GoodLog, Good
<1> QED
  BY <1>6, <1>7 DEF CompactInv

\* The copy is opened and replays the shared log; the log is then truncated.
LEMMA OpenTargetKeeps ==
  ASSUME CompactInv, BeginCompact \/ ReplayIntoTarget \/ TruncateSharedLog
  PROVE  CompactInv'
<1>1. UNCHANGED <<data, mem, acked, pend, overtaken>> /\ stage # "down" /\ stage' # "down" /\ Types
  BY DEF BeginCompact, ReplayIntoTarget, TruncateSharedLog, CompactInv
<1>2. Nothing \in [PairKeys -> Value]
  BY DEF Nothing, Value
<1>3. CASE BeginCompact
  <2>1. /\ tmp' = [tree |-> Nothing, file |-> Nothing] /\ stage' = "wiring"
        /\ UNCHANGED <<segs, live, pairs>>
    BY <1>3 DEF BeginCompact
  <2>2. Types'
    BY <1>1, <1>2, <2>1 DEF Types, Segments
  <2> QED
    BY <1>1, <2>1, <2>2 DEF CompactInv, AllIsGood, CopyIsGood, GoodLog, Good, Holds
<1>4. CASE ReplayIntoTarget
  <2> DEFINE t == Replayed(Nothing, segs)
  <2>1. tmp' = [tree |-> t, file |-> t] /\ stage' = "replayed" /\ UNCHANGED <<segs, live, pairs>>
    BY <1>4 DEF ReplayIntoTarget
  <2>2. /\ t \in [PairKeys -> Value]
        /\ GoodLog(segs) => \A k \in PairKeys : t[k] \in {Nothing[k]} \cup Good(k)
    BY <1>1, <1>2, ReplayIsGood DEF Types
  <2> HIDE DEF t
  <2>3. Types'
    BY <1>1, <2>1, <2>2 DEF Types, Segments
  <2>4. GoodLog(segs) => CopyIsGood'
    BY <1>1, <2>1, <2>2 DEF CopyIsGood, Nothing, Good
  <2> QED
    BY <1>1, <2>1, <2>3, <2>4 DEF CompactInv, AllIsGood, GoodLog, Good, Holds
<1>5. CASE TruncateSharedLog
  <2>1. /\ stage = "replayed" /\ stage' = "copying" /\ pairs' = collectAllPairs /\ tmp' = tmp
        /\ segs' = Segment(1, << >>) /\ live' = [live EXCEPT !.named = FALSE]
    BY <1>5 DEF TruncateSharedLog
  <2>2. /\ pairs' \in Seq(Record)
        /\ \A i \in 1..Len(pairs') : pairs'[i].val = mem[pairs'[i].key]
        /\ \A k \in PairKeys : mem[k] # Absent => \E i \in 1..Len(pairs') : pairs'[i].key = k
    BY <1>1, <2>1, AllPairsAreFound DEF Types
  <2>3. Segments(segs') /\ GoodLog(segs') /\ DOMAIN segs' = {1}
    <3>1. 1 \in 1..(MaxSegment + 2)
      BY CompactionAssumption
    <3> QED
      BY <2>1, <3>1, EmptySegment DEF Segment
  <2>4. Types'
    BY <1>1, <2>1, <2>2, <2>3 DEF Types
  <2>5. AllIsGood => CopyIsGood'
    <3> SUFFICES ASSUME AllIsGood PROVE CopyIsGood'
      OBVIOUS
    <3>1. ASSUME NEW k \in PairKeys
          PROVE  tmp.tree[k] \in Good(k) \/ \E i \in 1..Len(pairs') : pairs'[i].key = k
      <4>1. tmp.tree[k] \in {Absent} \cup Good(k) /\ mem[k] \in Good(k)
        BY <1>1, <2>1 DEF AllIsGood, CopyIsGood, Holds, Good
      <4> QED
        BY <2>2, <4>1
    <3> QED
      BY <1>1, <2>1, <2>2, <3>1 DEF CopyIsGood, Good
  <2> QED
    BY <1>1, <2>1, <2>3, <2>4, <2>5 DEF CompactInv, AllIsGood, GoodLog, Good, Holds
<1> QED
  BY <1>3, <1>4, <1>5

\* One pair is put into the copy and into the shared log.
LEMMA CopyPairKeeps == ASSUME CompactInv, CopyPair PROVE CompactInv'
<1> DEFINE p == Head(pairs)
           t == [tmp.tree EXCEPT ![p.key] = p.val]
<1>1. /\ stage = "copying" /\ stage' = "copying" /\ pairs # << >> /\ pairs' = Tail(pairs)
      /\ segs' = Logged(segs, 1, p)
      /\ tmp' = [tree |-> t, file |-> t] \/ tmp' = [tree |-> t, file |-> tmp.file]
      /\ UNCHANGED <<data, mem, live, acked, pend, overtaken>>
  BY DEF CopyPair
<1>2. Types
  BY DEF CompactInv
<1>3. /\ p \in Record /\ p = pairs[1] /\ p.key \in PairKeys /\ p.val \in Value
      /\ Tail(pairs) \in Seq(Record) /\ Len(pairs) \in Nat \ {0} /\ Len(Tail(pairs)) = Len(pairs) - 1
      /\ \A i \in 1..Len(Tail(pairs)) : i + 1 \in 1..Len(pairs) /\ Tail(pairs)[i] = pairs[i + 1]
  <2>1. pairs \in Seq(Record) /\ pairs # << >>
    BY <1>1, <1>2 DEF Types
  <2>2. /\ Len(pairs) \in Nat \ {0} /\ p = pairs[1] /\ p \in Record
        /\ Tail(pairs) \in Seq(Record) /\ Len(Tail(pairs)) = Len(pairs) - 1
    BY <2>1
  <2>3. \A i \in 1..Len(Tail(pairs)) : i + 1 \in 1..Len(pairs) /\ Tail(pairs)[i] = pairs[i + 1]
    BY <2>1
  <2>4. p.key \in PairKeys /\ p.val \in Value
    BY <2>2 DEF Record
  <2> QED
    BY <2>2, <2>3, <2>4
<1> HIDE DEF p
<1>4. t \in [PairKeys -> Value] /\ \A k \in PairKeys : t[k] = IF k = p.key THEN p.val ELSE tmp.tree[k]
  BY <1>2, <1>3 DEF Types
<1> HIDE DEF t
<1>5. /\ Segments(segs') /\ DOMAIN segs' = DOMAIN segs
      /\ \A i \in DOMAIN segs, k \in PairKeys :
           Has(segs'[i], k) => \/ k = p.key /\ LastOf(segs'[i], k) = p.val
                               \/ Has(segs[i], k) /\ LastOf(segs'[i], k) = LastOf(segs[i], k)
  BY <1>1, <1>2, <1>3, LoggedSegments DEF Types
<1>6. Types'
  BY <1>1, <1>2, <1>3, <1>4, <1>5 DEF Types
<1>7. ASSUME ~overtaken' PROVE AllIsGood'
  <2>1. AllIsGood
    BY <1>1, <1>7 DEF CompactInv
  <2>2. p.val = mem[p.key] /\ p.val \in Good(p.key)
    BY <1>1, <1>3, <2>1 DEF AllIsGood, CopyIsGood, Holds, Good
  <2>3. GoodLog(segs)'
    BY <1>1, <1>5, <2>1, <2>2 DEF AllIsGood, GoodLog, Good
  <2>4. \A i \in 1..Len(pairs') : pairs'[i].val = mem'[pairs'[i].key]
    BY <1>1, <1>3, <2>1 DEF AllIsGood, CopyIsGood
  <2>5. ASSUME NEW k \in PairKeys
        PROVE  t[k] \in Good(k) \/ \E i \in 1..Len(Tail(pairs)) : Tail(pairs)[i].key = k
    <3>1. CASE k = p.key
      BY <1>4, <2>2, <3>1
    <3>2. CASE k # p.key /\ tmp.tree[k] \in Good(k)
      BY <1>4, <3>2
    <3>3. CASE k # p.key /\ tmp.tree[k] \notin Good(k)
      <4>1. PICK i \in 1..Len(pairs) : pairs[i].key = k
        BY <1>1, <2>1, <3>3 DEF AllIsGood, CopyIsGood
      <4>2. i # 1
        BY <1>3, <3>3, <4>1
      <4>3. i - 1 \in 1..Len(Tail(pairs)) /\ (i - 1) + 1 = i
        BY <1>3, <4>2
      <4>4. Tail(pairs)[i - 1] = pairs[i]
        BY <1>3, <4>3
      <4> QED
        BY <4>1, <4>3, <4>4
    <3> QED
      BY <3>1, <3>2, <3>3
  <2>6. tmp'.tree = t
    BY <1>1
  <2>7. CopyIsGood'
    BY <1>1, <2>4, <2>5, <2>6 DEF CopyIsGood, Good
  <2> QED
    BY <1>1, <2>1, <2>3, <2>7 DEF AllIsGood, Holds
<1> QED
  BY <1>6, <1>7 DEF CompactInv

\* The end of the copy: its file is flushed, and the shared log is cut again.
LEMMA FlushTargetKeeps == ASSUME CompactInv, FlushTarget \/ RemoveTargetLog PROVE CompactInv'
<1>1. UNCHANGED <<data, mem, live, pairs, acked, pend, overtaken>> /\ stage # "down" /\ stage' # "down" /\ Types
  BY DEF FlushTarget, RemoveTargetLog, CompactInv
<1>2. 1 \in 1..(MaxSegment + 2) /\ 2 \in 1..(MaxSegment + 2)
  BY CompactionAssumption
<1>3. CASE FlushTarget
  <2> DEFINE g == [i \in {1, 2} |-> IF i = 1 THEN segs[1] ELSE << >>]
  <2>1. /\ stage = "copying" /\ stage' = "flushed" /\ pairs = << >> /\ segs' = g
        /\ tmp' = [tmp EXCEPT !.file = tmp.tree]
    BY <1>3 DEF FlushTarget
  <2>2. segs[1] \in Seq(Record) /\ 1 \in DOMAIN segs
    BY <1>1, <2>1 DEF Types, Segments
  <2>3. \A i \in {1, 2} : g[i] = << >> \/ (i \in DOMAIN segs /\ g[i] = segs[i])
    BY <2>2
  <2>4. Segments(g)
    BY <1>2, <2>2 DEF Segments
  <2>5. DOMAIN g = {1, 2}
    OBVIOUS
  <2> HIDE DEF g
  <2>6. GoodLog(segs) => GoodLog(g)
    <3>1. \A k : ~Has(<< >>, k)
      BY DEF Has, RecordsOf
    <3> QED
      BY <2>3, <2>5, <3>1 DEF GoodLog
  <2>7. tmp' = [tree |-> tmp.tree, file |-> tmp.tree]
    BY <1>1, <2>1 DEF Types
  <2>8. Types'
    BY <1>1, <2>1, <2>4, <2>7 DEF Types
  <2>9. AllIsGood => Holds(tmp.tree)
    BY <2>1 DEF AllIsGood, CopyIsGood, Holds, Good
  <2>10. AllIsGood => Holds(tmp.file)'
    BY <1>1, <2>7, <2>9 DEF Holds
  <2> QED
    BY <1>1, <2>1, <2>6, <2>8, <2>10 DEF CompactInv, AllIsGood, CopyIsGood, GoodLog, Good, Holds
<1>4. CASE RemoveTargetLog
  <2>1. stage = "flushed" /\ stage' = "copied" /\ segs' = Segment(2, << >>) /\ tmp' = tmp
    BY <1>4 DEF RemoveTargetLog
  <2>2. Segments(segs') /\ GoodLog(segs')
    BY <1>2, <2>1, EmptySegment
  <2>3. Types'
    BY <1>1, <2>1, <2>2 DEF Types
  <2> QED
    BY <1>1, <2>1, <2>2, <2>3 DEF CompactInv, AllIsGood, CopyIsGood, GoodLog, Good, Holds
<1> QED
  BY <1>3, <1>4

\* The copy fails, a Put perhaps after its record was logged: the pair is one of memory.
LEMMA CopyFailsKeeps == ASSUME CompactInv, CopyFails PROVE CompactInv'
<1> DEFINE p == Head(pairs)
<1>1. /\ stage # "down" /\ stage' = "idle" /\ pairs' = << >> /\ Types
      /\ UNCHANGED <<data, tmp, mem, live, acked, pend, overtaken>>
      /\ \/ segs' = segs
         \/ segs' = Logged(segs, 1, p) /\ stage = "copying" /\ pairs # << >>
  BY DEF CopyFails, CompactInv
<1>2. CASE segs' = segs
  <2>1. Types'
    BY <1>1, <1>2 DEF Types
  <2> QED
    BY <1>1, <1>2, <2>1 DEF CompactInv, AllIsGood, CopyIsGood, GoodLog, Good, Holds
<1>3. CASE segs' = Logged(segs, 1, p) /\ stage = "copying" /\ pairs # << >>
  <2>1. pairs \in Seq(Record)
    BY <1>1 DEF Types
  <2>2. p \in Record /\ p = pairs[1] /\ 1 \in 1..Len(pairs)
    BY <1>3, <2>1
  <2>3. p.key \in PairKeys
    BY <2>2 DEF Record
  <2> HIDE DEF p
  <2>4. /\ Segments(segs') /\ DOMAIN segs' = DOMAIN segs
        /\ \A i \in DOMAIN segs, k \in PairKeys :
             Has(segs'[i], k) => \/ k = p.key /\ LastOf(segs'[i], k) = p.val
                                 \/ Has(segs[i], k) /\ LastOf(segs'[i], k) = LastOf(segs[i], k)
    BY <1>1, <1>3, <2>2, LoggedSegments DEF Types
  <2>5. Types'
    BY <1>1, <2>4 DEF Types
  <2>6. AllIsGood => p.val \in Good(p.key)
    BY <1>1, <1>3, <2>2, <2>3 DEF AllIsGood, CopyIsGood, Holds, Good
  <2>7. AllIsGood => GoodLog(segs)'
    BY <1>1, <2>4, <2>6 DEF AllIsGood, GoodLog, Good
  <2> QED
    BY <1>1, <2>5, <2>7 DEF CompactInv, AllIsGood, CopyIsGood, Holds
<1> QED
  BY <1>1, <1>2, <1>3

\* Steps that write nothing but the data file, from memory or from the copy.
LEMMA StopAndSwapKeep ==
  ASSUME CompactInv, Close \/ Crash \/ CloseOriginal \/ Rename \/ SwapFails
  PROVE  CompactInv'
<1>1. /\ UNCHANGED <<tmp, segs, mem, live, pairs, acked, pend, overtaken>> /\ Types
      /\ \/ data' = data
         \/ data' = mem /\ stage # "down"
         \/ data' = tmp.file /\ stage = "closed"
      /\ \/ stage' \in {"down", "broken"} /\ (stage' = "broken" => stage # "down")
         \/ stage \in {"copied", "closed"} /\ stage' \in {"closed", "renamed"}
  BY DEF Close, Crash, CloseOriginal, Rename, SwapFails, CompactInv, fileVars
<1>2. Types'
  BY <1>1 DEF Types, Segments
<1>3. AllIsGood => Holds(data)' /\ (stage' # "down" => Holds(mem)')
  BY <1>1 DEF AllIsGood, CopyIsGood, Holds
<1>4. AllIsGood => GoodLog(segs)' /\ CopyIsGood'
  BY <1>1 DEF AllIsGood, GoodLog, Good, CopyIsGood, Holds
<1> QED
  BY <1>1, <1>2, <1>3, <1>4 DEF CompactInv, AllIsGood

\* Every step.
LEMMA NextKeeps == ASSUME CompactInv, [CompactNext]_compactVars PROVE CompactInv'
<1>1. ASSUME NEW k \in PairKeys, NEW v \in Vals \cup {Absent}, Update(k, v) PROVE CompactInv'
  BY <1>1, UpdateKeeps DEF Value
<1>2. ASSUME NEW k \in PairKeys, NEW v \in Vals \cup {Absent}, NEW logged \in BOOLEAN,
             UpdateFails(k, v, logged)
      PROVE  CompactInv'
  BY <1>2, UpdateFailsKeeps DEF Value
<1>3. CASE Checkpoint
  BY <1>3, CheckpointKeeps
<1>4. CASE Open \/ Rewire
  BY <1>4, WireKeeps DEF Open, Rewire
<1>5. CASE BeginCompact \/ ReplayIntoTarget \/ TruncateSharedLog
  BY <1>5, OpenTargetKeeps
<1>6. CASE CopyPair \/ CopyFails
  BY <1>6, CopyPairKeeps, CopyFailsKeeps
<1>7. CASE FlushTarget \/ RemoveTargetLog
  BY <1>7, FlushTargetKeeps
<1>8. CASE Close \/ Crash \/ CloseOriginal \/ Rename \/ SwapFails
  BY <1>8, StopAndSwapKeep
<1>9. CASE UNCHANGED compactVars
  <2>1. /\ UNCHANGED <<data, tmp, segs, mem, live, stage, pairs>>
        /\ UNCHANGED <<acked, pend, overtaken>>
    BY <1>9 DEF compactVars, fileVars
  <2>2. Types' = Types
    BY <2>1 DEF Types, Segments
  <2>3. AllIsGood' = AllIsGood
    BY <2>1 DEF AllIsGood, GoodLog, Good, CopyIsGood, Holds
  <2> QED
    BY <2>1, <2>2, <2>3 DEF CompactInv
<1> QED
  BY <1>1, <1>2, <1>3, <1>4, <1>5, <1>6, <1>7, <1>8, <1>9 DEF CompactNext

\* Wherever a compaction stops - the process dies or is closed in it, the copy
\* fails, the swap fails - the next Open finds every acknowledged pair (Compact,
\* openCompactTarget and compactSwap of compact.go); the exception is the one
\* CompactKeepsPairs states.
THEOREM CompactionKeepsPairs == CompactSpec => []CompactKeepsPairs
<1>1. CompactInit => CompactInv
  BY InitKeeps
<1>2. CompactInv /\ [CompactNext]_compactVars => CompactInv'
  BY NextKeeps
<1>3. CompactInv => CompactKeepsPairs
  BY InvKeepsPairs
<1> QED
  BY <1>1, <1>2, <1>3, PTL DEF CompactSpec
=============================================================================
