---------------------------- MODULE Wal_proofs ----------------------------
(***************************************************************************)
(* Proofs about the write-ahead log, for any number of records, segments   *)
(* and batches: records are replayed in the order in which they were       *)
(* written, whatever fails; and as long as no write and no fsync has       *)
(* failed, every acknowledged record is replayed after a crash, and what   *)
(* is left of the log while segments are removed is its newest part.       *)
(***************************************************************************)
EXTENDS Wal, WellFoundedInduction, TLAPS

\* Every set of naturals that is not empty has a least element.
LEMMA LeastOf ==
  ASSUME NEW T \in SUBSET Nat, T # {}
  PROVE  \E x \in T : \A y \in T : x <= y
<1>1. PICK x \in T : \A y \in T : ~ (<<y, x>> \in OpToRel(<, Nat))
  BY NatLessThanWellFounded, WFMin
<1>2. \A y \in T : ~(y < x)
  BY <1>1 DEF OpToRel
<1> QED
  BY <1>2

-----------------------------------------------------------------------------
(* The records of a file that a scan returns                               *)

Entry == [lsn : Nat, id : Nat]

\* The a-th entry of a file, with no torn one up to it.
Valid(s, a) == a \in 1..Len(s) /\ \A b \in 1..a : ~IsTorn(s[b])

\* A file without torn entries.
Whole(s) == \A a \in 1..Len(s) : ~IsTorn(s[a])

\* A scan returns the valid entries.
LEMMA ScanReturnsValid ==
  ASSUME NEW s \in Seq(Entry)
  PROVE  /\ ValidPrefix(s) \in Seq(Entry)
         /\ \A a \in Nat : a \in 1..Len(ValidPrefix(s)) <=> Valid(s, a)
         /\ \A a \in 1..Len(ValidPrefix(s)) : ValidPrefix(s)[a] = s[a]
<1> DEFINE bad == {i \in 1..Len(s) : IsTorn(s[i])}
<1>1. Len(s) \in Nat
  OBVIOUS
<1>2. CASE bad = {}
  <2>1. ValidPrefix(s) = s
    BY <1>2 DEF ValidPrefix
  <2>2. \A a \in 1..Len(s) : Valid(s, a)
    BY <1>1, <1>2 DEF Valid
  <2> QED
    BY <2>1, <2>2 DEF Valid
<1>3. CASE bad # {}
  <2> DEFINE m == Min(bad)
  <2>1. m \in bad /\ \A i \in bad : m <= i
    <3>1. bad \in SUBSET Nat
      OBVIOUS
    <3>2. \E x \in bad : \A y \in bad : x <= y
      <4> HIDE DEF bad
      <4> QED
        BY <1>3, <3>1, LeastOf
    <3> HIDE DEF bad
    <3> QED
      BY <3>2 DEF Min
  <2>2. ValidPrefix(s) = SubSeq(s, 1, m - 1)
    BY <1>3 DEF ValidPrefix
  <2> HIDE DEF m
  <2>3. m \in 1..Len(s) /\ IsTorn(s[m]) /\ \A i \in 1..(m - 1) : ~IsTorn(s[i])
    BY <1>1, <2>1
  <2>4. /\ SubSeq(s, 1, m - 1) \in Seq(Entry)
        /\ Len(SubSeq(s, 1, m - 1)) = m - 1
        /\ \A a \in 1..(m - 1) : SubSeq(s, 1, m - 1)[a] = s[a]
    BY <1>1, <2>3
  <2>5. \A a \in Nat : a \in 1..(m - 1) => Valid(s, a)
    BY <1>1, <2>3 DEF Valid
  <2>6. ASSUME NEW a \in Nat, Valid(s, a)
        PROVE  a \in 1..(m - 1)
    <3>1. ~(m \in 1..a)
      BY <2>3, <2>6 DEF Valid
    <3> QED
      BY <1>1, <2>3, <2>6, <3>1 DEF Valid
  <2> QED
    BY <2>2, <2>4, <2>5, <2>6
<1> QED
  BY <1>2, <1>3

\* What a crash leaves of a file: its first k entries, and perhaps a torn one.
LEMMA ValidInPrefix ==
  ASSUME NEW s \in Seq(Entry), NEW k \in 0..Len(s)
  PROVE  /\ SubSeq(s, 1, k) \in Seq(Entry) /\ Len(SubSeq(s, 1, k)) = k
         /\ SubSeq(s, 1, k) \o <<Torn>> \in Seq(Entry)
         /\ \A a \in Nat : /\ Valid(SubSeq(s, 1, k), a) <=> Valid(s, a) /\ a <= k
                           /\ Valid(SubSeq(s, 1, k) \o <<Torn>>, a) <=> Valid(s, a) /\ a <= k
                           /\ a \in 1..k => SubSeq(s, 1, k)[a] = s[a]
                           /\ a \in 1..k => (SubSeq(s, 1, k) \o <<Torn>>)[a] = s[a]
<1> DEFINE p == SubSeq(s, 1, k)
           q == p \o <<Torn>>
<1>1. Torn \in Entry /\ IsTorn(Torn)
  BY DEF Torn, Entry, IsTorn
<1>2. /\ p \in Seq(Entry) /\ Len(p) = k /\ k \in Nat /\ Len(s) \in Nat /\ k <= Len(s)
      /\ \A a \in 1..k : p[a] = s[a]
  OBVIOUS
<1> HIDE DEF p
<1>3. /\ q \in Seq(Entry) /\ Len(q) = k + 1 /\ q[k + 1] = Torn
      /\ \A a \in 1..k : q[a] = s[a]
  BY <1>1, <1>2
<1> HIDE DEF q
<1>4. \A a \in Nat : Valid(p, a) <=> Valid(s, a) /\ a <= k
  BY <1>2 DEF Valid
<1>5. \A a \in Nat : Valid(q, a) <=> Valid(s, a) /\ a <= k
  <2> TAKE a \in Nat
  <2>1. CASE a <= k
    <3>1. (a \in 1..Len(q) <=> a \in 1..Len(s)) /\ \A b \in 1..a : b \in 1..k
      BY <1>2, <1>3, <2>1
    <3>2. \A b \in 1..a : q[b] = s[b]
      BY <1>3, <3>1
    <3> QED
      BY <2>1, <3>1, <3>2 DEF Valid
  <2>2. CASE a > k
    <3>1. a \in 1..(k + 1) => k + 1 \in 1..a
      BY <1>2, <2>2
    <3>2. ~Valid(q, a)
      BY <1>1, <1>3, <3>1 DEF Valid
    <3> QED
      BY <1>2, <2>2, <3>2
  <2> QED
    BY <1>2, <2>1, <2>2
<1> QED
  BY <1>2, <1>3, <1>4, <1>5 DEF p, q

\* A file after t was written to its end.
LEMMA ValidInAppended ==
  ASSUME NEW s \in Seq(Entry), NEW t \in Seq(Entry)
  PROVE  /\ s \o t \in Seq(Entry) /\ Len(s \o t) = Len(s) + Len(t)
         /\ \A a \in 1..Len(s) : /\ (s \o t)[a] = s[a]
                                 /\ Valid(s \o t, a) <=> Valid(s, a)
         /\ \A a \in 1..(Len(s) + Len(t)) : a > Len(s) => (s \o t)[a] = t[a - Len(s)]
         /\ Whole(s) /\ Whole(t) => Whole(s \o t)
<1> DEFINE u == s \o t
<1>1. /\ u \in Seq(Entry) /\ Len(u) = Len(s) + Len(t) /\ Len(s) \in Nat /\ Len(t) \in Nat
      /\ \A a \in 1..Len(s) : u[a] = s[a]
      /\ \A a \in 1..(Len(s) + Len(t)) : a > Len(s) => u[a] = t[a - Len(s)]
  OBVIOUS
<1> HIDE DEF u
<1>2. \A a \in 1..Len(s) : Valid(u, a) <=> Valid(s, a)
  BY <1>1, SMTT(30) DEF Valid
<1>3. Whole(s) /\ Whole(t) => Whole(u)
  <2> SUFFICES ASSUME Whole(s), Whole(t), NEW a \in 1..Len(u)
               PROVE  ~IsTorn(u[a])
    BY DEF Whole
  <2>1. CASE a <= Len(s)
    BY <1>1, <2>1 DEF Whole
  <2>2. CASE a > Len(s)
    <3>1. a - Len(s) \in 1..Len(t) /\ u[a] = t[a - Len(s)]
      BY <1>1, <2>2
    <3> QED
      BY <3>1 DEF Whole
  <2> QED
    BY <1>1, <2>1, <2>2
<1> QED
  BY <1>1, <1>2, <1>3 DEF u

\* Every entry of a file without torn ones is valid.
LEMMA WholeIsValid ==
  ASSUME NEW s \in Seq(Entry)
  PROVE  /\ Whole(s) => \A a \in 1..Len(s) : Valid(s, a)
         /\ \A a, b \in Nat : Valid(s, a) /\ b \in 1..a => Valid(s, b)
<1>1. Len(s) \in Nat
  OBVIOUS
<1> QED
  BY <1>1 DEF Whole, Valid

-----------------------------------------------------------------------------
(* Replay                                                                  *)

\* Segment files.
Files(f) == /\ f = [i \in DOMAIN f |-> f[i]]
            /\ DOMAIN f \subseteq 1..MaxSegment
            /\ \A i \in DOMAIN f : f[i] \in Seq(Entry)

\* x is a valid entry of a segment up to the n-th.
Scanned(f, n, x) == \E i \in DOMAIN f : \E a \in 1..Len(f[i]) : i <= n /\ Valid(f[i], a) /\ x = f[i][a]

\* x and y are, and x comes first.
Precedes(i, a, j, b) == i < j \/ (i = j /\ a < b)
InLogOrder(f, n, x, y) ==
  \E i, j \in DOMAIN f : \E a \in 1..Len(f[i]), b \in 1..Len(f[j]) :
     /\ i <= n /\ j <= n /\ Precedes(i, a, j, b)
     /\ Valid(f[i], a) /\ Valid(f[j], b) /\ x = f[i][a] /\ y = f[j][b]

\* The function that Replay builds.
UpTo(f) ==
  LET upTo[n \in 0..MaxSegment] == IF n = 0 THEN << >> ELSE upTo[n - 1] \o Content(f, n)
  IN upTo

\* g satisfies that definition up to the m-th segment.
BuildsUpTo(g, f, m) == g = [n \in 0..m |-> IF n = 0 THEN << >> ELSE g[n - 1] \o Content(f, n)]

\* The definition can be satisfied one segment further.
LEMMA BuildsFurther ==
  ASSUME NEW f, NEW m \in Nat \ {0}, NEW g, BuildsUpTo(g, f, m - 1)
  PROVE  \E h : BuildsUpTo(h, f, m)
<1> DEFINE h == [n \in 0..m |-> IF n = m THEN g[m - 1] \o Content(f, m) ELSE g[n]]
<1>1. \A n \in 0..(m - 1) : g[n] = IF n = 0 THEN << >> ELSE g[n - 1] \o Content(f, n)
  BY DEF BuildsUpTo
<1>2. ASSUME NEW n \in 0..m
      PROVE  h[n] = IF n = 0 THEN << >> ELSE h[n - 1] \o Content(f, n)
  <2>1. CASE n = m
    <3>1. h[m] = g[m - 1] \o Content(f, m) /\ h[m - 1] = g[m - 1]
      OBVIOUS
    <3> HIDE DEF h
    <3> QED
      BY <2>1, <3>1
  <2>2. CASE n # m
    <3>1. n \in 0..(m - 1) /\ h[n] = g[n] /\ (n # 0 => h[n - 1] = g[n - 1])
      BY <2>2
    <3> HIDE DEF h
    <3> QED
      BY <1>1, <3>1
  <2> QED
    BY <2>1, <2>2
<1>3. BuildsUpTo(h, f, m)
  BY <1>2 DEF BuildsUpTo
<1> QED
  BY <1>3

\* The function is what its definition says.
LEMMA UpToIsDefined == ASSUME NEW f PROVE BuildsUpTo(UpTo(f), f, MaxSegment)
<1> DEFINE T == {m \in 0..MaxSegment : ~ \E g : BuildsUpTo(g, f, m)}
<1>1. MaxSegment \in Nat
  BY WalAssumption
<1>2. T = {}
  <2> SUFFICES ASSUME T # {}
               PROVE  FALSE
    OBVIOUS
  <2>1. T \in SUBSET Nat
    BY <1>1
  <2>2. PICK m \in T : \A k \in T : m <= k
    <3> HIDE DEF T
    <3> QED
      BY <2>1, LeastOf
  <2>3. CASE m = 0
    <3> DEFINE g == [n \in 0..0 |-> << >>]
    <3>1. BuildsUpTo(g, f, 0)
      BY DEF BuildsUpTo
    <3> QED
      BY <2>2, <2>3, <3>1
  <2>4. CASE m # 0
    <3>1. m \in Nat \ {0} /\ m - 1 \in 0..MaxSegment /\ ~(m <= m - 1)
      BY <1>1, <2>2, <2>4
    <3>2. \E g : BuildsUpTo(g, f, m - 1)
      BY <2>2, <3>1
    <3>3. \E h : BuildsUpTo(h, f, m)
      BY <3>1, <3>2, BuildsFurther
    <3> QED
      BY <2>2, <3>3
  <2> QED
    BY <2>3, <2>4
<1>3. \E g : BuildsUpTo(g, f, MaxSegment)
  BY <1>1, <1>2
<1>4. UpTo(f) = CHOOSE g : BuildsUpTo(g, f, MaxSegment)
  BY DEF UpTo, BuildsUpTo
<1> QED
  BY <1>3, <1>4

\* What the first n segments replay: their valid entries, in their order.
ReplaysUpTo(f, n) ==
  /\ UpTo(f)[n] \in Seq(Entry)
  /\ \A p \in 1..Len(UpTo(f)[n]) : Scanned(f, n, UpTo(f)[n][p])
  /\ \A i \in DOMAIN f : \A a \in 1..Len(f[i]) :
        i <= n /\ Valid(f[i], a) => \E p \in 1..Len(UpTo(f)[n]) : UpTo(f)[n][p] = f[i][a]
  /\ \A p, q \in 1..Len(UpTo(f)[n]) : p < q => InLogOrder(f, n, UpTo(f)[n][p], UpTo(f)[n][q])

\* What is scanned up to a segment is scanned up to a later one.
LEMMA ScannedFurther ==
  ASSUME NEW f, Files(f), NEW n \in Nat, NEW m \in Nat, n <= m, NEW x, NEW y
  PROVE  /\ Scanned(f, n, x) => Scanned(f, m, x)
         /\ InLogOrder(f, n, x, y) => InLogOrder(f, m, x, y)
<1>1. \A i \in DOMAIN f : i \in Nat
  BY DEF Files
<1>2. \A i \in DOMAIN f : i <= n => i <= m
  BY <1>1
<1>3. Scanned(f, n, x) => Scanned(f, m, x)
  BY <1>2 DEF Scanned
<1>4. InLogOrder(f, n, x, y) => InLogOrder(f, m, x, y)
  BY <1>2, Zenon DEF InLogOrder
<1> QED
  BY <1>3, <1>4

\* One more segment.
LEMMA ReplaysFurther ==
  ASSUME NEW f, Files(f), NEW n \in 1..MaxSegment, ReplaysUpTo(f, n - 1)
  PROVE  ReplaysUpTo(f, n)
<1> DEFINE U == UpTo(f)[n - 1]
           c == Content(f, n)
           W == UpTo(f)[n]
<1>1. W = U \o c
  <2>1. MaxSegment \in Nat
    BY WalAssumption
  <2> QED
    BY <2>1, UpToIsDefined DEF BuildsUpTo
<1>2. c \in Seq(Entry)
  BY ScanReturnsValid DEF Content, Files
<1>3. \A p \in 1..Len(c) : n \in DOMAIN f /\ Valid(f[n], p) /\ c[p] = f[n][p] /\ p \in 1..Len(f[n])
  <2>1. CASE n \in DOMAIN f
    <3>1. c = ValidPrefix(f[n]) /\ f[n] \in Seq(Entry)
      BY <2>1 DEF Content, Files
    <3> HIDE DEF c
    <3>2. \A p \in 1..Len(c) : p \in Nat
      OBVIOUS
    <3>3. \A p \in 1..Len(c) : Valid(f[n], p) /\ c[p] = f[n][p]
      BY <3>1, <3>2, ScanReturnsValid
    <3> QED
      BY <2>1, <3>3 DEF Valid
  <2>2. CASE n \notin DOMAIN f
    BY <2>2 DEF Content
  <2> QED
    BY <2>1, <2>2
<1>4. ASSUME n \in DOMAIN f, NEW a \in 1..Len(f[n]), Valid(f[n], a)
      PROVE  a \in 1..Len(c) /\ c[a] = f[n][a]
  <2>1. c = ValidPrefix(f[n]) /\ f[n] \in Seq(Entry)
    BY <1>4 DEF Content, Files
  <2>2. a \in Nat
    OBVIOUS
  <2> HIDE DEF c
  <2> QED
    BY <1>4, <2>1, <2>2, ScanReturnsValid
<1>5. U \in Seq(Entry)
  BY DEF ReplaysUpTo
<1> HIDE DEF U, c, W
<1>6. /\ W \in Seq(Entry) /\ Len(W) = Len(U) + Len(c) /\ Len(U) \in Nat /\ Len(c) \in Nat
      /\ \A p \in 1..Len(U) : W[p] = U[p]
      /\ \A p \in 1..(Len(U) + Len(c)) : p > Len(U) => W[p] = c[p - Len(U)]
  BY <1>1, <1>2, <1>5
<1>7. \A i \in DOMAIN f : i \in Nat
  BY DEF Files
<1>8. ASSUME NEW p \in 1..Len(W), p <= Len(U)
      PROVE  Scanned(f, n - 1, W[p])
  BY <1>6, <1>8 DEF ReplaysUpTo, U
<1>9. ASSUME NEW p \in 1..Len(W), p > Len(U)
      PROVE  LET a == p - Len(U)
             IN a \in 1..Len(c) /\ n \in DOMAIN f /\ a \in 1..Len(f[n]) /\ Valid(f[n], a) /\ W[p] = f[n][a]
  <2> DEFINE a == p - Len(U)
  <2>1. a \in 1..Len(c) /\ W[p] = c[a]
    BY <1>6, <1>9
  <2> HIDE DEF a
  <2> QED
    BY <1>3, <2>1 DEF a
<1>10. \A p \in 1..Len(W) : Scanned(f, n, W[p])
  <2> TAKE p \in 1..Len(W)
  <2>1. CASE p <= Len(U)
    BY <1>8, <2>1, ScannedFurther
  <2>2. CASE p > Len(U)
    BY <1>9, <2>2 DEF Scanned
  <2> QED
    BY <1>6, <2>1, <2>2
<1>11. ASSUME NEW i \in DOMAIN f, NEW a \in 1..Len(f[i]), i <= n, Valid(f[i], a)
       PROVE  \E p \in 1..Len(W) : W[p] = f[i][a]
  <2>1. CASE i <= n - 1
    <3>1. PICK p \in 1..Len(U) : U[p] = f[i][a]
      BY <1>11, <2>1 DEF ReplaysUpTo, U
    <3>2. p \in 1..Len(W)
      BY <1>6
    <3> QED
      BY <1>6, <3>1, <3>2
  <2>2. CASE i = n
    <3>1. a \in 1..Len(c) /\ c[a] = f[i][a]
      BY <1>4, <1>11, <2>2
    <3>2. Len(U) + a \in 1..Len(W) /\ W[Len(U) + a] = c[(Len(U) + a) - Len(U)]
      BY <1>6, <3>1
    <3>3. (Len(U) + a) - Len(U) = a
      BY <1>6, <3>1
    <3> QED
      BY <3>1, <3>2, <3>3
  <2> QED
    BY <1>7, <1>11, <2>1, <2>2
<1>12. ASSUME NEW p \in 1..Len(W), NEW q \in 1..Len(W), p < q
       PROVE  InLogOrder(f, n, W[p], W[q])
  <2>1. CASE q <= Len(U)
    <3>1. p \in 1..Len(U) /\ q \in 1..Len(U) /\ W[p] = U[p] /\ W[q] = U[q]
      BY <1>6, <1>12, <2>1
    <3>2. InLogOrder(f, n - 1, U[p], U[q])
      BY <1>12, <3>1 DEF ReplaysUpTo, U
    <3>3. n - 1 \in Nat /\ n \in Nat /\ n - 1 <= n
      OBVIOUS
    <3> QED
      BY <3>1, <3>2, <3>3, ScannedFurther
  <2>2. CASE p <= Len(U) /\ q > Len(U)
    <3>1. PICK i \in DOMAIN f : \E a \in 1..Len(f[i]) : i <= n - 1 /\ Valid(f[i], a) /\ W[p] = f[i][a]
      BY <1>8, <2>2 DEF Scanned
    <3>2. PICK a \in 1..Len(f[i]) : i <= n - 1 /\ Valid(f[i], a) /\ W[p] = f[i][a]
      BY <3>1
    <3>3. PICK b \in 1..Len(f[n]) : n \in DOMAIN f /\ Valid(f[n], b) /\ W[q] = f[n][b]
      BY <1>9, <2>2
    <3>4. i <= n /\ n <= n /\ Precedes(i, a, n, b)
      BY <1>7, <3>2 DEF Precedes
    <3> QED
      BY <3>2, <3>3, <3>4 DEF InLogOrder
  <2>3. CASE p > Len(U)
    <3>1. q > Len(U)
      BY <1>6, <1>12, <2>3
    <3> DEFINE a == p - Len(U)
               b == q - Len(U)
    <3>2. n \in DOMAIN f /\ a \in 1..Len(f[n]) /\ Valid(f[n], a) /\ W[p] = f[n][a]
      BY <1>9, <2>3
    <3>3. b \in 1..Len(f[n]) /\ Valid(f[n], b) /\ W[q] = f[n][b]
      BY <1>9, <3>1
    <3>4. n <= n /\ Precedes(n, a, n, b)
      BY <1>6, <1>12 DEF Precedes
    <3> HIDE DEF a, b
    <3> QED
      BY <3>2, <3>3, <3>4 DEF InLogOrder
  <2> QED
    BY <1>6, <1>12, <2>1, <2>2, <2>3
<1> QED
  BY <1>6, <1>10, <1>11, <1>12 DEF ReplaysUpTo, W

\* Replay returns the valid entries of all segments, in their order.
LEMMA ReplayReturnsValid ==
  ASSUME NEW f, Files(f)
  PROVE  /\ Replay(f) \in Seq(Entry)
         /\ \A p \in 1..Len(Replay(f)) : Scanned(f, MaxSegment, Replay(f)[p])
         /\ \A i \in DOMAIN f : \A a \in 1..Len(f[i]) :
               Valid(f[i], a) => \E p \in 1..Len(Replay(f)) : Replay(f)[p] = f[i][a]
         /\ \A p, q \in 1..Len(Replay(f)) : p < q => InLogOrder(f, MaxSegment, Replay(f)[p], Replay(f)[q])
<1> DEFINE T == {n \in 0..MaxSegment : ~ReplaysUpTo(f, n)}
<1>1. MaxSegment \in Nat
  BY WalAssumption
<1>2. T = {}
  <2> SUFFICES ASSUME T # {}
               PROVE  FALSE
    OBVIOUS
  <2>1. T \in SUBSET Nat
    BY <1>1
  <2>2. PICK n \in T : \A k \in T : n <= k
    <3> HIDE DEF T
    <3> QED
      BY <2>1, LeastOf
  <2>3. CASE n = 0
    <3>1. UpTo(f)[0] = << >>
      BY <1>1, UpToIsDefined DEF BuildsUpTo
    <3>2. \A i \in DOMAIN f : ~(i <= 0)
      BY DEF Files
    <3>3. ReplaysUpTo(f, 0)
      BY <3>1, <3>2 DEF ReplaysUpTo
    <3> QED
      BY <2>2, <2>3, <3>3
  <2>4. CASE n # 0
    <3>1. n \in 1..MaxSegment /\ n - 1 \in 0..MaxSegment /\ ~(n <= n - 1)
      BY <1>1, <2>2, <2>4
    <3>2. ReplaysUpTo(f, n - 1)
      BY <2>2, <3>1
    <3> QED
      BY <2>2, <3>1, <3>2, ReplaysFurther
  <2> QED
    BY <2>3, <2>4
<1>3. ReplaysUpTo(f, MaxSegment)
  BY <1>1, <1>2
<1>4. Replay(f) = UpTo(f)[MaxSegment]
  BY DEF Replay, UpTo
<1>5. \A i \in DOMAIN f : i <= MaxSegment
  BY <1>1 DEF Files
<1> QED
  BY <1>3, <1>4, <1>5 DEF ReplaysUpTo

-----------------------------------------------------------------------------
(* The list of segments                                                    *)

\* The list s is ascending and holds the numbers of S.
Lists(s, S) == /\ s \in Seq(Nat) /\ Elements(s) = S
               /\ \A i, j \in 1..Len(s) : i < j => s[i] < s[j]

\* The function that Sorted builds, and what it satisfies up to m.
SortedUpTo(ids) ==
  LET upTo[n \in 0..MaxSegment] ==
        IF n = 0 THEN << >> ELSE IF n \in ids THEN Append(upTo[n - 1], n) ELSE upTo[n - 1]
  IN upTo
SortsUpTo(g, ids, m) ==
  g = [n \in 0..m |-> IF n = 0 THEN << >> ELSE IF n \in ids THEN Append(g[n - 1], n) ELSE g[n - 1]]

\* The definition can be satisfied one number further.
LEMMA SortsFurther ==
  ASSUME NEW ids, NEW m \in Nat \ {0}, NEW g, SortsUpTo(g, ids, m - 1)
  PROVE  \E h : SortsUpTo(h, ids, m)
<1> DEFINE last == IF m \in ids THEN Append(g[m - 1], m) ELSE g[m - 1]
           h == [n \in 0..m |-> IF n = m THEN last ELSE g[n]]
<1>1. \A n \in 0..(m - 1) :
         g[n] = IF n = 0 THEN << >> ELSE IF n \in ids THEN Append(g[n - 1], n) ELSE g[n - 1]
  BY DEF SortsUpTo
<1>2. ASSUME NEW n \in 0..m
      PROVE  h[n] = IF n = 0 THEN << >> ELSE IF n \in ids THEN Append(h[n - 1], n) ELSE h[n - 1]
  <2>1. CASE n = m
    <3> HIDE DEF last
    <3>1. h[m] = last /\ h[m - 1] = g[m - 1]
      OBVIOUS
    <3> HIDE DEF h
    <3> QED
      BY <2>1, <3>1 DEF last
  <2>2. CASE n # m
    <3> HIDE DEF last
    <3>1. n \in 0..(m - 1) /\ h[n] = g[n] /\ (n # 0 => h[n - 1] = g[n - 1])
      BY <2>2
    <3> HIDE DEF h
    <3> QED
      BY <1>1, <3>1
  <2> QED
    BY <2>1, <2>2
<1>3. SortsUpTo(h, ids, m)
  <2> HIDE DEF last
  <2>1. \A n \in 0..m : h[n] = IF n = 0 THEN << >> ELSE IF n \in ids THEN Append(h[n - 1], n) ELSE h[n - 1]
    BY <1>2
  <2> QED
    BY <2>1 DEF SortsUpTo
<1> QED
  BY <1>3

\* The function is what its definition says.
LEMMA SortedIsDefined == ASSUME NEW ids PROVE SortsUpTo(SortedUpTo(ids), ids, MaxSegment)
<1> DEFINE T == {m \in 0..MaxSegment : ~ \E g : SortsUpTo(g, ids, m)}
<1>1. MaxSegment \in Nat
  BY WalAssumption
<1>2. T = {}
  <2> SUFFICES ASSUME T # {}
               PROVE  FALSE
    OBVIOUS
  <2>1. T \in SUBSET Nat
    BY <1>1
  <2>2. PICK m \in T : \A k \in T : m <= k
    <3> HIDE DEF T
    <3> QED
      BY <2>1, LeastOf
  <2>3. CASE m = 0
    <3> DEFINE g == [n \in 0..0 |-> << >>]
    <3>1. SortsUpTo(g, ids, 0)
      BY DEF SortsUpTo
    <3> QED
      BY <2>2, <2>3, <3>1
  <2>4. CASE m # 0
    <3>1. m \in Nat \ {0} /\ m - 1 \in 0..MaxSegment /\ ~(m <= m - 1)
      BY <1>1, <2>2, <2>4
    <3>2. \E g : SortsUpTo(g, ids, m - 1)
      BY <2>2, <3>1
    <3>3. \E h : SortsUpTo(h, ids, m)
      BY <3>1, <3>2, SortsFurther
    <3> QED
      BY <2>2, <3>3
  <2> QED
    BY <2>3, <2>4
<1>3. \E g : SortsUpTo(g, ids, MaxSegment)
  BY <1>1, <1>2
<1>4. SortedUpTo(ids) = CHOOSE g : SortsUpTo(g, ids, MaxSegment)
  BY DEF SortedUpTo, SortsUpTo
<1> QED
  BY <1>3, <1>4

\* A greater number goes to the end of a list.
LEMMA ListTakes ==
  ASSUME NEW s, NEW S, Lists(s, S), NEW n \in Nat, \A k \in S : k < n
  PROVE  Lists(Append(s, n), S \cup {n})
<1> DEFINE t == Append(s, n)
<1>1. /\ t \in Seq(Nat) /\ Len(s) \in Nat /\ Len(t) = Len(s) + 1
      /\ DOMAIN t = 1..Len(t) /\ DOMAIN s = 1..Len(s)
      /\ t[Len(t)] = n /\ \A i \in 1..Len(s) : t[i] = s[i]
  BY DEF Lists
<1> HIDE DEF t
<1>2. \A i \in 1..Len(s) : s[i] \in S
  BY <1>1 DEF Lists, Elements
<1>3. Elements(t) = S \cup {n}
  <2>1. ASSUME NEW k \in S
        PROVE  k \in Elements(t)
    <3>1. PICK i \in 1..Len(s) : s[i] = k
      BY <1>1 DEF Lists, Elements
    <3> QED
      BY <1>1, <3>1 DEF Elements
  <2>2. n \in Elements(t)
    BY <1>1 DEF Elements
  <2>3. ASSUME NEW i \in 1..Len(t)
        PROVE  t[i] \in S \cup {n}
    BY <1>1, <1>2
  <2> QED
    BY <1>1, <2>1, <2>2, <2>3 DEF Elements
<1>4. \A i, j \in 1..Len(t) : i < j => t[i] < t[j]
  <2> SUFFICES ASSUME NEW i \in 1..Len(t), NEW j \in 1..Len(t), i < j
               PROVE  t[i] < t[j]
    OBVIOUS
  <2>1. i \in 1..Len(s)
    BY <1>1
  <2>2. CASE j \in 1..Len(s)
    BY <1>1, <2>1, <2>2 DEF Lists
  <2>3. CASE j = Len(t)
    BY <1>1, <1>2, <2>1, <2>3
  <2> QED
    BY <1>1, <2>2, <2>3
<1> QED
  BY <1>1, <1>3, <1>4 DEF Lists, t

\* Sorted lists the numbers it is given.
LEMMA SortedLists == ASSUME NEW ids \in SUBSET (1..MaxSegment) PROVE Lists(Sorted(ids), ids)
<1> DEFINE g == SortedUpTo(ids)
           Below(n) == {k \in ids : k <= n}
           T == {n \in 0..MaxSegment : ~Lists(g[n], Below(n))}
<1>1. MaxSegment \in Nat /\ \A k \in ids : k \in Nat /\ 1 <= k /\ k <= MaxSegment
  BY WalAssumption
<1> HIDE DEF T
<1>2. Below(0) = {} /\ Below(MaxSegment) = ids
  <2>1. \A k \in ids : ~(k <= 0) /\ k <= MaxSegment
    BY <1>1
  <2> QED
    BY <2>1
<1>3. ASSUME NEW n \in Nat \ {0}
      PROVE  /\ n \in ids => Below(n) = Below(n - 1) \cup {n}
             /\ n \notin ids => Below(n) = Below(n - 1)
             /\ \A k \in Below(n - 1) : k < n
  <2>1. \A k \in ids : (k <= n <=> k <= n - 1 \/ k = n) /\ (k <= n - 1 => k < n)
    BY <1>1
  <2> QED
    BY <2>1
<1> HIDE DEF Below
<1>4. /\ g[0] = << >>
      /\ \A n \in 1..MaxSegment : g[n] = IF n \in ids THEN Append(g[n - 1], n) ELSE g[n - 1]
  <2>1. \A n \in 0..MaxSegment :
          g[n] = IF n = 0 THEN << >> ELSE IF n \in ids THEN Append(g[n - 1], n) ELSE g[n - 1]
    BY SortedIsDefined, ZenonT(60) DEF SortsUpTo
  <2> HIDE DEF g
  <2> QED
    BY <1>1, <2>1
<1> HIDE DEF g
<1>5. T = {}
  <2> SUFFICES ASSUME T # {}
               PROVE  FALSE
    OBVIOUS
  <2>1. T \in SUBSET Nat
    BY <1>1 DEF T
  <2>2. PICK n \in T : \A k \in T : n <= k
    BY <2>1, LeastOf
  <2>3. CASE n = 0
    <3>1. Lists(<< >>, {})
      BY DEF Lists, Elements
    <3> QED
      BY <1>4, <1>2, <2>2, <2>3, <3>1 DEF T
  <2>4. CASE n # 0
    <3>1. n \in 1..MaxSegment /\ n - 1 \in 0..MaxSegment /\ ~(n <= n - 1)
      BY <1>1, <2>2, <2>4 DEF T
    <3>2. Lists(g[n - 1], Below(n - 1))
      BY <2>2, <3>1 DEF T
    <3>3. CASE n \in ids
      <4>1. Below(n) = Below(n - 1) \cup {n} /\ \A k \in Below(n - 1) : k < n
        BY <1>3, <3>1, <3>3
      <4>2. Lists(Append(g[n - 1], n), Below(n))
        BY <3>1, <3>2, <4>1, ListTakes
      <4> QED
        BY <1>4, <2>2, <3>1, <3>3, <4>2 DEF T
    <3>4. CASE n \notin ids
      <4>1. Below(n) = Below(n - 1)
        BY <1>3, <3>1, <3>4
      <4> QED
        BY <1>4, <2>2, <3>1, <3>2, <3>4, <4>1 DEF T
    <3> QED
      BY <3>3, <3>4
  <2> QED
    BY <2>3, <2>4
<1>6. Lists(g[MaxSegment], Below(MaxSegment))
  BY <1>1, <1>5 DEF T
<1>7. Sorted(ids) = g[MaxSegment]
  BY DEF Sorted, SortedUpTo, g
<1> QED
  BY <1>6, <1>7, <1>2

-----------------------------------------------------------------------------
(* Highest numbers                                                         *)

\* The highest of some numbers of 1..n.
LEMMA HighestOf ==
  ASSUME NEW n \in Nat, NEW T \in SUBSET (1..n), T # {}
  PROVE  Max(T) \in T /\ \A y \in T : y <= Max(T)
<1> DEFINE D == {d \in Nat : \E y \in T : y = n - d}
<1>1. \A y \in T : y \in Nat /\ y <= n
  OBVIOUS
<1>2. \A y \in T : n - y \in D
  BY <1>1
<1>3. D \in SUBSET Nat /\ D # {}
  BY <1>2
<1>4. PICK d \in D : \A e \in D : d <= e
  <2> HIDE DEF D
  <2> QED
    BY <1>3, LeastOf
<1>5. PICK x \in T : x = n - d
  BY <1>4
<1>6. \A y \in T : y <= x
  <2> TAKE y \in T
  <2>1. d <= n - y /\ d \in Nat
    BY <1>2, <1>4
  <2> QED
    BY <1>1, <1>5, <2>1
<1>7. \E z \in T : \A y \in T : z >= y
  BY <1>1, <1>6
<1>8. Max(T) \in T /\ \A y \in T : Max(T) >= y
  BY <1>7 DEF Max
<1> QED
  BY <1>1, <1>8

\* The LSNs of a sequence of entries have a highest, and 0 counts.
LEMMA HighestLSN ==
  ASSUME NEW r \in Seq(Entry)
  PROVE  LET m == Max({0} \cup {r[i].lsn : i \in 1..Len(r)})
         IN m \in Nat /\ \A i \in 1..Len(r) : r[i].lsn <= m
<1> DEFINE S(n) == {0} \cup {r[i].lsn : i \in 1..n}
           Tops(n) == \E x \in S(n) : \A y \in S(n) : y <= x
           T == {n \in 0..Len(r) : ~Tops(n)}
<1>1. Len(r) \in Nat /\ \A i \in 1..Len(r) : r[i].lsn \in Nat
  <2>1. \A i \in 1..Len(r) : r[i] \in Entry
    OBVIOUS
  <2> QED
    BY <2>1 DEF Entry
<1>2. Tops(0)
  OBVIOUS
<1>3. ASSUME NEW n \in 1..Len(r), Tops(n - 1)
      PROVE  Tops(n)
  <2>1. S(n) = S(n - 1) \cup {r[n].lsn}
    <3>1. n \in Nat /\ 1..n = (1..(n - 1)) \cup {n}
      BY <1>1
    <3> QED
      BY <3>1
  <2>2. \A y \in S(n) : y \in Nat
    BY <1>1
  <2> HIDE DEF S
  <2>3. PICK x \in S(n - 1) : \A y \in S(n - 1) : y <= x
    BY <1>3
  <2>4. CASE r[n].lsn <= x
    <3>1. x \in S(n) /\ \A y \in S(n) : y <= x
      BY <2>1, <2>3, <2>4
    <3> QED
      BY <3>1
  <2>5. CASE x < r[n].lsn
    <3>1. \A y \in S(n) : y <= r[n].lsn
      <4> TAKE y \in S(n)
      <4>1. CASE y = r[n].lsn
        BY <1>1, <4>1
      <4>2. CASE y \in S(n - 1)
        BY <1>1, <2>1, <2>2, <2>3, <2>5, <4>2
      <4> QED
        BY <2>1, <4>1, <4>2
    <3>2. r[n].lsn \in S(n)
      BY <2>1
    <3> QED
      BY <3>1, <3>2
  <2> QED
    BY <1>1, <2>1, <2>2, <2>3, <2>4, <2>5
<1>4. T = {}
  <2> SUFFICES ASSUME T # {}
               PROVE  FALSE
    OBVIOUS
  <2> HIDE DEF Tops
  <2>1. T \in SUBSET Nat
    BY <1>1
  <2>2. PICK n \in T : \A k \in T : n <= k
    <3> HIDE DEF T
    <3> QED
      BY <2>1, LeastOf
  <2>3. n \in 0..Len(r) /\ ~Tops(n) /\ n # 0
    BY <1>2, <2>2
  <2>4. n \in 1..Len(r) /\ n - 1 \in 0..Len(r) /\ ~(n <= n - 1)
    BY <1>1, <2>3
  <2>5. Tops(n - 1)
    BY <2>2, <2>4
  <2> QED
    BY <1>3, <2>3, <2>4, <2>5
<1>5. Tops(Len(r))
  <2> HIDE DEF Tops
  <2> QED
    BY <1>1, <1>4
<1>6. \A y \in S(Len(r)) : y \in Nat
  BY <1>1
<1> DEFINE m == Max(S(Len(r)))
<1>7. m \in S(Len(r)) /\ \A y \in S(Len(r)) : m >= y
  <2> HIDE DEF S
  <2>1. \E x \in S(Len(r)) : \A y \in S(Len(r)) : x >= y
    BY <1>5, <1>6
  <2> QED
    BY <2>1 DEF Max
<1>8. \A i \in 1..Len(r) : r[i].lsn \in S(Len(r))
  OBVIOUS
<1>9. m \in Nat /\ \A i \in 1..Len(r) : r[i].lsn <= m
  <2> HIDE DEF S, m
  <2> QED
    BY <1>6, <1>7, <1>8
<1> QED
  BY <1>9

\* The LSN that Open goes on with is higher than those of all valid entries.
LEMMA NextLSNIsHigher ==
  ASSUME NEW f, Files(f)
  PROVE  /\ ScannedLSN(f) \in Nat \ {0}
         /\ \A i \in DOMAIN f : \A a \in 1..Len(f[i]) : Valid(f[i], a) => f[i][a].lsn < ScannedLSN(f)
<1> DEFINE r == Replay(f)
           m == Max({0} \cup {r[i].lsn : i \in 1..Len(r)})
<1>1. r \in Seq(Entry)
  BY ReplayReturnsValid
<1>2. ScannedLSN(f) = m + 1
  BY DEF ScannedLSN
<1>3. m \in Nat /\ \A i \in 1..Len(r) : r[i].lsn <= m
  <2> HIDE DEF r
  <2> QED
    BY <1>1, HighestLSN
<1>4. ASSUME NEW i \in DOMAIN f, NEW a \in 1..Len(f[i]), Valid(f[i], a)
      PROVE  f[i][a].lsn < m + 1
  <2>1. PICK p \in 1..Len(r) : r[p] = f[i][a]
    BY <1>4, ReplayReturnsValid
  <2>2. f[i][a].lsn \in Nat
    <3>1. f[i][a] \in Entry
      BY DEF Files
    <3> QED
      BY <3>1 DEF Entry
  <2> HIDE DEF r, m
  <2> QED
    BY <1>3, <2>1, <2>2
<1> HIDE DEF m, r
<1> QED
  BY <1>2, <1>3, <1>4

-----------------------------------------------------------------------------
(* The order of the entries                                                *)

\* Of two valid entries the first has the lower id; the lower LSN.
IdsOrdered(f) ==
  \A i, j \in DOMAIN f : \A a \in 1..Len(f[i]), b \in 1..Len(f[j]) :
     Valid(f[i], a) /\ Valid(f[j], b) /\ Precedes(i, a, j, b) => f[i][a].id < f[j][b].id
LSNsOrdered(f) ==
  \A i, j \in DOMAIN f : \A a \in 1..Len(f[i]), b \in 1..Len(f[j]) :
     Valid(f[i], a) /\ Valid(f[j], b) /\ Precedes(i, a, j, b) => f[i][a].lsn < f[j][b].lsn

\* The ids of valid entries are not above n; their LSNs are below n.
IdsUpTo(f, n) == \A i \in DOMAIN f : \A a \in 1..Len(f[i]) : Valid(f[i], a) => f[i][a].id \in 1..n
LSNsBelow(f, n) == \A i \in DOMAIN f : \A a \in 1..Len(f[i]) : Valid(f[i], a) => f[i][a].lsn < n

\* The valid entries of g are valid entries of f, in their places.
Shrinks(f, g) ==
  \A i \in DOMAIN g : \A a \in 1..Len(g[i]) :
     Valid(g[i], a) => i \in DOMAIN f /\ a \in 1..Len(f[i]) /\ Valid(f[i], a) /\ g[i][a] = f[i][a]

\* Then the order is kept.
LEMMA ShrinkKeepsOrder ==
  ASSUME NEW f, NEW g, Shrinks(f, g)
  PROVE  /\ IdsOrdered(f) => IdsOrdered(g)
         /\ LSNsOrdered(f) => LSNsOrdered(g)
         /\ \A n : IdsUpTo(f, n) => IdsUpTo(g, n)
         /\ \A n : LSNsBelow(f, n) => LSNsBelow(g, n)
<1>1. ASSUME NEW i \in DOMAIN g, NEW a \in 1..Len(g[i]), Valid(g[i], a)
      PROVE  i \in DOMAIN f /\ a \in 1..Len(f[i]) /\ Valid(f[i], a) /\ g[i][a] = f[i][a]
  BY <1>1 DEF Shrinks
<1>2. IdsOrdered(f) => IdsOrdered(g)
  <2> SUFFICES ASSUME IdsOrdered(f), NEW i \in DOMAIN g, NEW j \in DOMAIN g,
                      NEW a \in 1..Len(g[i]), NEW b \in 1..Len(g[j]),
                      Valid(g[i], a), Valid(g[j], b), Precedes(i, a, j, b)
               PROVE  g[i][a].id < g[j][b].id
    BY DEF IdsOrdered
  <2>1. i \in DOMAIN f /\ a \in 1..Len(f[i]) /\ Valid(f[i], a) /\ g[i][a] = f[i][a]
    BY <1>1
  <2>2. j \in DOMAIN f /\ b \in 1..Len(f[j]) /\ Valid(f[j], b) /\ g[j][b] = f[j][b]
    BY <1>1
  <2>3. f[i][a].id < f[j][b].id
    BY <2>1, <2>2 DEF IdsOrdered
  <2> QED
    BY <2>1, <2>2, <2>3
<1>3. LSNsOrdered(f) => LSNsOrdered(g)
  <2> SUFFICES ASSUME LSNsOrdered(f), NEW i \in DOMAIN g, NEW j \in DOMAIN g,
                      NEW a \in 1..Len(g[i]), NEW b \in 1..Len(g[j]),
                      Valid(g[i], a), Valid(g[j], b), Precedes(i, a, j, b)
               PROVE  g[i][a].lsn < g[j][b].lsn
    BY DEF LSNsOrdered
  <2>1. i \in DOMAIN f /\ a \in 1..Len(f[i]) /\ Valid(f[i], a) /\ g[i][a] = f[i][a]
    BY <1>1
  <2>2. j \in DOMAIN f /\ b \in 1..Len(f[j]) /\ Valid(f[j], b) /\ g[j][b] = f[j][b]
    BY <1>1
  <2>3. f[i][a].lsn < f[j][b].lsn
    BY <2>1, <2>2 DEF LSNsOrdered
  <2> QED
    BY <2>1, <2>2, <2>3
<1>4. \A n : IdsUpTo(f, n) => IdsUpTo(g, n)
  BY <1>1 DEF IdsUpTo
<1>5. \A n : LSNsBelow(f, n) => LSNsBelow(g, n)
  BY <1>1 DEF LSNsBelow
<1> QED
  BY <1>2, <1>3, <1>4, <1>5

\* Entries that are written in one call: fresh ids and consecutive LSNs, a torn one aside.
Follow(t, w, l) == \A b \in 1..Len(t) : ~IsTorn(t[b]) => t[b].id = w + b /\ t[b].lsn = l + b - 1

\* Writing them to the last file keeps the order.
LEMMA WriteKeepsOrder ==
  ASSUME NEW f, Files(f), NEW a \in DOMAIN f, \A i \in DOMAIN f : i <= a,
         NEW t \in Seq(Entry), NEW w \in Nat, NEW l \in Nat, Follow(t, w, l),
         IdsOrdered(f), IdsUpTo(f, w)
  PROVE  LET g == [f EXCEPT ![a] = @ \o t]
         IN /\ Files(g)
            /\ IdsOrdered(g) /\ IdsUpTo(g, w + Len(t))
            /\ LSNsOrdered(f) /\ LSNsBelow(f, l) => LSNsOrdered(g) /\ LSNsBelow(g, l + Len(t))
<1> DEFINE g == [f EXCEPT ![a] = @ \o t]
           n == Len(f[a])
<1>1. /\ f[a] \in Seq(Entry) /\ n \in Nat /\ Len(t) \in Nat
      /\ DOMAIN g = DOMAIN f /\ \A i \in DOMAIN f : i \in Nat
      /\ g[a] = f[a] \o t /\ \A i \in DOMAIN f : i # a => g[i] = f[i]
  <2>1. f[a] \in Seq(Entry) /\ \A i \in DOMAIN f : i \in Nat
    BY DEF Files
  <2> QED
    BY <2>1
<1>2. /\ g[a] \in Seq(Entry) /\ Len(g[a]) = n + Len(t)
      /\ \A b \in 1..n : g[a][b] = f[a][b] /\ (Valid(g[a], b) <=> Valid(f[a], b))
      /\ \A b \in 1..(n + Len(t)) : b > n => g[a][b] = t[b - n]
  BY <1>1, ValidInAppended
<1>3. Files(g)
  <2>1. \A i \in DOMAIN g : g[i] \in Seq(Entry)
    BY <1>1, <1>2 DEF Files
  <2>2. g = [i \in DOMAIN g |-> g[i]]
    OBVIOUS
  <2> HIDE DEF g
  <2> QED
    BY <1>1, <2>1, <2>2 DEF Files
<1> HIDE DEF g, n
<1>4. ASSUME NEW i \in DOMAIN g, NEW b \in 1..Len(g[i]), Valid(g[i], b), ~(i = a /\ b > n)
      PROVE  i \in DOMAIN f /\ b \in 1..Len(f[i]) /\ Valid(f[i], b) /\ g[i][b] = f[i][b]
  <2>1. CASE i # a
    BY <1>1, <1>4, <2>1
  <2>2. CASE i = a
    <3>1. b \in 1..n
      BY <1>1, <1>2, <1>4, <2>2
    <3> QED
      BY <1>1, <1>2, <1>4, <2>2, <3>1 DEF n
  <2> QED
    BY <2>1, <2>2
<1>5. ASSUME NEW b \in 1..Len(g[a]), Valid(g[a], b), b > n
      PROVE  b - n \in 1..Len(t) /\ g[a][b].id = w + (b - n) /\ g[a][b].lsn = l + (b - n) - 1
  <2>1. b - n \in 1..Len(t) /\ g[a][b] = t[b - n] /\ b \in 1..b
    BY <1>1, <1>2, <1>5
  <2>2. ~IsTorn(g[a][b])
    BY <1>5, <2>1 DEF Valid
  <2> QED
    BY <2>1, <2>2 DEF Follow
<1>6. \A i \in DOMAIN f : \A b \in 1..Len(f[i]) : Valid(f[i], b) => f[i][b].id \in Nat /\ f[i][b].id <= w
  BY DEF IdsUpTo
<1>7. \A i \in DOMAIN f : \A b \in 1..Len(f[i]) : f[i][b].lsn \in Nat
  <2>1. \A i \in DOMAIN f : \A b \in 1..Len(f[i]) : f[i][b] \in Entry
    BY DEF Files
  <2> QED
    BY <2>1 DEF Entry
<1>8. ASSUME NEW i \in DOMAIN g, NEW j \in DOMAIN g, NEW b \in 1..Len(g[i]), NEW c \in 1..Len(g[j]),
             Valid(g[i], b), Valid(g[j], c), Precedes(i, b, j, c)
      PROVE  /\ g[i][b].id < g[j][c].id
             /\ LSNsOrdered(f) /\ LSNsBelow(f, l) => g[i][b].lsn < g[j][c].lsn
  <2>1. CASE ~(i = a /\ b > n) /\ ~(j = a /\ c > n)
    <3>1. i \in DOMAIN f /\ b \in 1..Len(f[i]) /\ Valid(f[i], b) /\ g[i][b] = f[i][b]
      BY <1>4, <1>8, <2>1
    <3>2. j \in DOMAIN f /\ c \in 1..Len(f[j]) /\ Valid(f[j], c) /\ g[j][c] = f[j][c]
      BY <1>4, <1>8, <2>1
    <3>3. f[i][b].id < f[j][c].id /\ (LSNsOrdered(f) => f[i][b].lsn < f[j][c].lsn)
      BY <1>8, <3>1, <3>2 DEF IdsOrdered, LSNsOrdered
    <3> QED
      BY <3>1, <3>2, <3>3
  <2>2. CASE ~(i = a /\ b > n) /\ j = a /\ c > n
    <3>1. i \in DOMAIN f /\ b \in 1..Len(f[i]) /\ Valid(f[i], b) /\ g[i][b] = f[i][b]
      BY <1>4, <1>8, <2>2
    <3>2. c - n \in 1..Len(t) /\ g[j][c].id = w + (c - n) /\ g[j][c].lsn = l + (c - n) - 1
      BY <1>5, <1>8, <2>2
    <3>3. g[i][b].id < g[j][c].id
      BY <1>6, <3>1, <3>2, SMTT(30)
    <3>4. LSNsBelow(f, l) => f[i][b].lsn < l
      BY <3>1 DEF LSNsBelow
    <3>5. LSNsBelow(f, l) => g[i][b].lsn < g[j][c].lsn
      BY <1>7, <3>1, <3>2, <3>4
    <3> QED
      BY <3>3, <3>5
  <2>3. CASE i = a /\ b > n
    <3>1. j = a /\ c > n /\ b < c
      <4>1. j <= a /\ j \in Nat /\ a \in Nat
        BY <1>1
      <4> QED
        BY <1>1, <1>2, <1>8, <2>3, <4>1 DEF Precedes
    <3>2. b - n \in 1..Len(t) /\ g[i][b].id = w + (b - n) /\ g[i][b].lsn = l + (b - n) - 1
      BY <1>5, <1>8, <2>3
    <3>3. c - n \in 1..Len(t) /\ g[j][c].id = w + (c - n) /\ g[j][c].lsn = l + (c - n) - 1
      BY <1>5, <1>8, <3>1
    <3>4. b - n < c - n
      BY <1>1, <1>2, <3>1
    <3> QED
      BY <3>2, <3>3, <3>4
  <2> QED
    BY <2>1, <2>2, <2>3
<1>9. ASSUME NEW i \in DOMAIN g, NEW b \in 1..Len(g[i]), Valid(g[i], b)
      PROVE  /\ g[i][b].id \in 1..(w + Len(t))
             /\ LSNsBelow(f, l) => g[i][b].lsn < l + Len(t)
  <2>1. CASE ~(i = a /\ b > n)
    <3>1. i \in DOMAIN f /\ b \in 1..Len(f[i]) /\ Valid(f[i], b) /\ g[i][b] = f[i][b]
      BY <1>4, <1>9, <2>1
    <3>2. f[i][b].id \in 1..w /\ (LSNsBelow(f, l) => f[i][b].lsn < l)
      BY <3>1 DEF IdsUpTo, LSNsBelow
    <3> QED
      BY <1>1, <1>7, <3>1, <3>2, SMTT(30)
  <2>2. CASE i = a /\ b > n
    <3>1. b - n \in 1..Len(t) /\ g[i][b].id = w + (b - n) /\ g[i][b].lsn = l + (b - n) - 1
      BY <1>5, <1>9, <2>2
    <3> QED
      BY <1>1, <3>1
  <2> QED
    BY <2>1, <2>2
<1>10. IdsOrdered(g) /\ IdsUpTo(g, w + Len(t))
  BY <1>8, <1>9 DEF IdsOrdered, IdsUpTo
<1>11. LSNsOrdered(f) /\ LSNsBelow(f, l) => LSNsOrdered(g) /\ LSNsBelow(g, l + Len(t))
  BY <1>8, <1>9 DEF LSNsOrdered, LSNsBelow
<1> QED
  BY <1>3, <1>10, <1>11 DEF g

-----------------------------------------------------------------------------
(* The state of the log                                                    *)

\* A function with no arguments is the empty sequence.
LEMMA EmptyFunction ==
  ASSUME NEW f, f = [i \in DOMAIN f |-> f[i]], DOMAIN f = {}
  PROVE  f = << >>
<1>1. f = [i \in {} |-> f[i]]
  OBVIOUS
<1>2. << >> = [i \in {} |-> f[i]]
  OBVIOUS
<1> QED
  BY <1>1, <1>2

\* A file that is replaced or created.
LEMMA FileCreated ==
  ASSUME NEW f, Files(f), NEW i \in 1..MaxSegment, NEW c \in Seq(Entry)
  PROVE  /\ Files(With(f, i, c)) /\ DOMAIN With(f, i, c) = DOMAIN f \cup {i}
         /\ With(f, i, c)[i] = c /\ \A j \in DOMAIN f : j # i => With(f, i, c)[j] = f[j]
<1> DEFINE g == With(f, i, c)
<1>1. /\ g = [j \in DOMAIN g |-> g[j]] /\ DOMAIN g = DOMAIN f \cup {i} /\ g[i] = c
      /\ \A j \in DOMAIN f : j # i => g[j] = f[j]
  BY DEF With
<1> HIDE DEF g
<1>2. \A j \in DOMAIN g : g[j] \in Seq(Entry)
  BY <1>1 DEF Files
<1>3. Files(g)
  BY <1>1, <1>2 DEF Files
<1> QED
  BY <1>1, <1>3 DEF g

\* A file that is removed.
LEMMA FileRemoved ==
  ASSUME NEW f, Files(f), NEW i
  PROVE  /\ Files(Without(f, i)) /\ Shrinks(f, Without(f, i)) /\ DOMAIN Without(f, i) = DOMAIN f \ {i}
         /\ \A j \in DOMAIN f : j # i => Without(f, i)[j] = f[j]
<1> DEFINE g == Without(f, i)
<1>1. /\ g = [j \in DOMAIN g |-> g[j]] /\ DOMAIN g = DOMAIN f \ {i}
      /\ \A j \in DOMAIN f : j # i => g[j] = f[j]
  BY DEF Without
<1> HIDE DEF g
<1>2. \A j \in DOMAIN g : j \in DOMAIN f /\ g[j] = f[j]
  BY <1>1
<1>3. \A j \in DOMAIN g : g[j] \in Seq(Entry)
  BY <1>2 DEF Files
<1>4. Files(g) /\ Shrinks(f, g)
  BY <1>1, <1>2, <1>3 DEF Files, Shrinks
<1> QED
  BY <1>1, <1>4 DEF g

OldLog == <<[lsn |-> 1, id |-> 1], [lsn |-> 2, id |-> 2]>>
Closed == method = "closed"

\* The old single file is there only before the first Open.
LegacyWaits == legacy = NoFile \/ (legacy = OldLog /\ Closed /\ files = << >> /\ written = 2 /\ kept = {1, 2})

\* While the log is open its active segment is the newest, w.segments lists the files.
ActiveIsNewest ==
  ~Closed => /\ activeID \in 1..MaxSegment
             /\ \A i \in DOMAIN files : i <= activeID
             /\ method # "truncate" => activeID \in DOMAIN files
             /\ Lists(segments, DOMAIN files)

WalShape == /\ Files(files)
            /\ synced = [i \in DOMAIN files |-> synced[i]]
            /\ \A i \in DOMAIN files : synced[i] \in 0..Len(files[i])
            /\ method \in {"closed", "open", "sync", "truncate", "remove"}
            /\ nextLSN \in Nat \ {0} /\ written \in Nat
            /\ bump \in {0, 1} /\ (method # "sync" => bump = 0)
            /\ kept \in SUBSET (1..written) /\ inflight \in SUBSET (1..written)
            /\ ioFailed \in BOOLEAN
            /\ LegacyWaits
            /\ ActiveIsNewest

\* The files are in order, and the next append goes on where they end.
WalOrder == /\ IdsOrdered(files) /\ IdsUpTo(files, written)
            /\ ~ioFailed => LSNsOrdered(files)
            /\ ~ioFailed /\ ~Closed => LSNsBelow(files, nextLSN + bump)

\* The files that Open adopts or creates.
Opened == IF Discovered = << >> THEN [i \in {1} |-> << >>] ELSE Discovered

\* Files without a valid entry.
LEMMA EmptyIsOrdered ==
  ASSUME NEW f, Files(f), \A i \in DOMAIN f : f[i] = << >>, NEW n
  PROVE  IdsOrdered(f) /\ IdsUpTo(f, n) /\ LSNsOrdered(f) /\ LSNsBelow(f, n)
<1>1. \A i \in DOMAIN f : \A a \in 1..Len(f[i]) : FALSE
  OBVIOUS
<1> QED
  BY <1>1, Zenon DEF IdsOrdered, IdsUpTo, LSNsOrdered, LSNsBelow

\* One segment without any entry.
LEMMA FreshSegment ==
  LET f == [i \in {1} |-> << >>]
  IN Files(f) /\ DOMAIN f = {1} /\ \A i \in DOMAIN f : f[i] = << >>
<1>1. 1 \in 1..MaxSegment
  BY WalAssumption
<1> QED
  BY <1>1 DEF Files

\* The old file, taken over as segment 1.
LEMMA OldLogIsOrdered ==
  LET f == With(<< >>, 1, OldLog)
  IN /\ Files(f) /\ DOMAIN f = {1} /\ f[1] = OldLog /\ f # << >>
     /\ OldLog \in Seq(Entry) /\ Len(OldLog) = 2 /\ Whole(OldLog) /\ OldLog[1].id = 1 /\ OldLog[2].id = 2
     /\ IdsOrdered(f) /\ IdsUpTo(f, 2) /\ LSNsOrdered(f)
<1> DEFINE f == With(<< >>, 1, OldLog)
<1>1. /\ OldLog \in Seq(Entry) /\ Len(OldLog) = 2
      /\ OldLog[1].id = 1 /\ OldLog[2].id = 2 /\ OldLog[1].lsn = 1 /\ OldLog[2].lsn = 2
  <2>1. [lsn |-> 1, id |-> 1] \in Entry /\ [lsn |-> 2, id |-> 2] \in Entry
    BY DEF Entry
  <2> QED
    BY <2>1 DEF OldLog
<1>2. Whole(OldLog)
  BY <1>1 DEF Whole, IsTorn
<1>3. f = [i \in DOMAIN f |-> f[i]] /\ DOMAIN f = {1} /\ f[1] = OldLog
  BY DEF With
<1>4. f # << >>
  BY <1>3
<1> HIDE DEF f
<1>5. Files(f)
  <2>1. 1 \in 1..MaxSegment
    BY WalAssumption
  <2> QED
    BY <1>1, <1>3, <2>1 DEF Files
<1>6. IdsUpTo(f, 2)
  BY <1>1, <1>3 DEF IdsUpTo
<1>7. IdsOrdered(f) /\ LSNsOrdered(f)
  <2>1. \A a, b \in 1..2 : a < b => OldLog[a].id < OldLog[b].id /\ OldLog[a].lsn < OldLog[b].lsn
    BY <1>1
  <2>2. \A i, j \in DOMAIN f : i = 1 /\ j = 1 /\ Len(f[i]) = 2 /\ f[i] = OldLog /\ Len(f[j]) = 2 /\ f[j] = OldLog
    BY <1>1, <1>3
  <2>3. \A a, b \in 1..2 : Precedes(1, a, 1, b) => a < b
    BY DEF Precedes
  <2> QED
    BY <2>1, <2>2, <2>3, SMTT(30) DEF IdsOrdered, LSNsOrdered
<1> QED
  BY <1>1, <1>2, <1>3, <1>4, <1>5, <1>6, <1>7 DEF f

\* What Open finds is in order.
LEMMA OpenedIsOrdered ==
  ASSUME WalShape, WalOrder, Closed
  PROVE  /\ Files(Opened) /\ DOMAIN Opened # {}
         /\ IdsOrdered(Opened) /\ IdsUpTo(Opened, written)
         /\ ~ioFailed => LSNsOrdered(Opened)
<1>1. CASE legacy = NoFile /\ files = << >>
  <2>1. Opened = [i \in {1} |-> << >>]
    BY <1>1 DEF Opened, Discovered
  <2> QED
    BY <2>1, FreshSegment, EmptyIsOrdered
<1>2. CASE legacy = NoFile /\ files # << >>
  <2>1. Opened = files
    BY <1>2 DEF Opened, Discovered
  <2>2. DOMAIN files # {}
    BY <1>2, EmptyFunction DEF WalShape, Files
  <2> QED
    BY <2>1, <2>2 DEF WalShape, WalOrder
<1>3. CASE legacy # NoFile
  <2>1. Opened = With(<< >>, 1, OldLog) /\ written = 2
    BY <1>3, OldLogIsOrdered DEF Opened, Discovered, WalShape, LegacyWaits
  <2> QED
    BY <2>1, OldLogIsOrdered
<1> QED
  BY <1>1, <1>2, <1>3

-----------------------------------------------------------------------------
(* One lemma per action: the shape of the state and the order are kept     *)

WalInv == WalShape /\ WalOrder

LEMMA InitKeeps == ASSUME WalInit PROVE WalInv
<1>1. Files(<< >>) /\ \A i \in DOMAIN << >> : FALSE
  BY DEF Files
<1>2. files = << >> /\ synced = << >> /\ nextLSN = 1 /\ bump = 0 /\ inflight = {} /\ ioFailed = FALSE /\ Closed
  BY DEF WalInit, Closed
<1>3. /\ legacy = NoFile \/ (legacy = OldLog /\ written = 2 /\ kept = {1, 2})
      /\ written \in Nat /\ kept \in SUBSET (1..written)
  <2>1. CASE legacy = NoFile
    BY <2>1 DEF WalInit
  <2>2. CASE legacy # NoFile
    <3>1. legacy = OldLog /\ written = 2 /\ kept = Ids(OldLog)
      BY <2>2 DEF WalInit, OldLog
    <3>2. Ids(OldLog) = {1, 2}
      <4>1. Len(OldLog) = 2 /\ OldLog[1].id = 1 /\ OldLog[2].id = 2 /\ 1..2 = {1, 2}
        BY OldLogIsOrdered
      <4> QED
        BY <4>1 DEF Ids
    <3> QED
      BY <3>1, <3>2
  <2> QED
    BY <2>1, <2>2
<1>4. WalShape
  <2>1. Files(files) /\ synced = [i \in DOMAIN files |-> synced[i]]
    BY <1>1, <1>2 DEF Files
  <2>2. \A i \in DOMAIN files : synced[i] \in 0..Len(files[i])
    BY <1>1, <1>2
  <2>3. LegacyWaits /\ ActiveIsNewest
    BY <1>2, <1>3 DEF LegacyWaits, ActiveIsNewest
  <2>4. method \in {"closed", "open", "sync", "truncate", "remove"} /\ inflight \in SUBSET (1..written)
    BY <1>2 DEF Closed
  <2>5. nextLSN \in Nat \ {0} /\ bump \in {0, 1} /\ bump = 0
    BY DEF WalInit
  <2>6. ioFailed \in BOOLEAN
    BY Zenon DEF WalInit
  <2> QED
    BY <1>3, <2>1, <2>2, <2>3, <2>4, <2>5, <2>6 DEF WalShape
<1>5. WalOrder
  BY <1>1, <1>2, EmptyIsOrdered DEF WalOrder
<1> QED
  BY <1>4, <1>5 DEF WalInv

\* What Open makes of the files it finds.
OpenedFiles(g) ==
  LET a == Max(DOMAIN Opened)
  IN /\ a \in 1..MaxSegment /\ a \in DOMAIN Opened /\ \A i \in DOMAIN Opened : i <= a
     /\ g = [Opened EXCEPT ![a] = ValidPrefix(Opened[a])]
     /\ Files(g) /\ DOMAIN g = DOMAIN Opened /\ Shrinks(Opened, g)
     /\ \A i \in DOMAIN g : \A b \in 1..Len(Opened[i]) :
           Valid(Opened[i], b) => b \in 1..Len(g[i]) /\ Valid(g[i], b) /\ g[i][b] = Opened[i][b]
     /\ Whole(g[a]) /\ \A i \in DOMAIN g : i # a => g[i] = Opened[i]

LEMMA OpenCuts ==
  ASSUME WalInv, OpenLog
  PROVE  /\ Closed /\ OpenedFiles(files') /\ activeID' = Max(DOMAIN Opened)
         /\ synced' = [i \in DOMAIN files' |-> IF i \notin DOMAIN files \/ files'[i] # files[i]
                                                THEN Len(files'[i]) ELSE synced[i]]
         /\ segments' = Sorted(DOMAIN files') /\ nextLSN' = ScannedLSN(Opened)
<1> DEFINE f == Opened
           a == Max(DOMAIN f)
           g == [f EXCEPT ![a] = ValidPrefix(f[a])]
<1>1. Closed /\ files' = g /\ activeID' = a /\ segments' = Sorted(DOMAIN g) /\ nextLSN' = ScannedLSN(f)
      /\ synced' = [i \in DOMAIN g |-> IF i \notin DOMAIN files \/ g[i] # files[i] THEN Len(g[i]) ELSE synced[i]]
  BY DEF OpenLog, Opened, Closed
<1>2. Files(f) /\ DOMAIN f # {}
  BY <1>1, OpenedIsOrdered DEF WalInv
<1> HIDE DEF f
<1>3. a \in 1..MaxSegment /\ a \in DOMAIN f /\ \A i \in DOMAIN f : i <= a
  BY <1>2, HighestOf, WalAssumption DEF Files
<1> HIDE DEF a
<1>4. f[a] \in Seq(Entry)
  BY <1>2, <1>3 DEF Files
<1> DEFINE c == ValidPrefix(f[a])
<1>5. /\ c \in Seq(Entry) /\ Len(c) \in Nat
      /\ \A b \in Nat : b \in 1..Len(c) <=> Valid(f[a], b)
      /\ \A b \in 1..Len(c) : c[b] = f[a][b]
  BY <1>4, ScanReturnsValid
<1> HIDE DEF c
<1>6. Whole(c)
  <2> SUFFICES ASSUME NEW b \in 1..Len(c)
               PROVE  ~IsTorn(c[b])
    BY DEF Whole
  <2>1. b \in Nat /\ b \in 1..b
    BY <1>5
  <2>2. Valid(f[a], b) /\ c[b] = f[a][b]
    BY <1>5, <2>1
  <2> QED
    BY <2>1, <2>2 DEF Valid
<1>7. DOMAIN g = DOMAIN f /\ g[a] = c /\ \A i \in DOMAIN f : i # a => g[i] = f[i]
  BY <1>3 DEF c
<1>8. Files(g)
  <2>1. \A i \in DOMAIN g : g[i] \in Seq(Entry)
    BY <1>2, <1>5, <1>7 DEF Files
  <2>2. g = [i \in DOMAIN g |-> g[i]]
    OBVIOUS
  <2> HIDE DEF g
  <2> QED
    BY <1>2, <1>7, <2>1, <2>2 DEF Files
<1> HIDE DEF g
<1>9. \A b \in 1..Len(c) : b \in Nat /\ Valid(c, b)
  BY <1>5, <1>6, WholeIsValid
<1>10. Shrinks(f, g)
  <2> SUFFICES ASSUME NEW i \in DOMAIN g, NEW b \in 1..Len(g[i]), Valid(g[i], b)
               PROVE  i \in DOMAIN f /\ b \in 1..Len(f[i]) /\ Valid(f[i], b) /\ g[i][b] = f[i][b]
    BY DEF Shrinks
  <2>1. CASE i = a
    <3>1. b \in 1..Len(c) /\ b \in Nat
      BY <1>7, <1>9, <2>1
    <3>2. Valid(f[a], b) /\ c[b] = f[a][b]
      BY <1>5, <3>1
    <3> QED
      BY <1>3, <1>7, <2>1, <3>2 DEF Valid
  <2>2. CASE i # a
    BY <1>7, <2>2
  <2> QED
    BY <2>1, <2>2
<1>11. ASSUME NEW i \in DOMAIN g, NEW b \in 1..Len(f[i]), Valid(f[i], b)
       PROVE  b \in 1..Len(g[i]) /\ Valid(g[i], b) /\ g[i][b] = f[i][b]
  <2>1. CASE i = a
    <3>1. b \in Nat
      BY <1>4, <2>1
    <3>2. b \in 1..Len(c)
      BY <1>5, <1>11, <2>1, <3>1
    <3> QED
      BY <1>5, <1>7, <1>9, <2>1, <3>2
  <2>2. CASE i # a
    BY <1>7, <1>11, <2>2
  <2> QED
    BY <2>1, <2>2
<1>12. OpenedFiles(g)
  BY <1>3, <1>6, <1>7, <1>8, <1>10, <1>11 DEF OpenedFiles, f, a, g
<1> QED
  BY <1>1, <1>12 DEF f, a, g

LEMMA OpenKeeps ==
  ASSUME WalInv, OpenLog
  PROVE  WalInv'
<1>1. /\ Closed /\ legacy' = NoFile /\ method' = "open"
      /\ inflight' = inflight /\ bump' = bump /\ written' = written /\ kept' = kept /\ ioFailed' = ioFailed
  BY OpenCuts DEF OpenLog
<1>2. OpenedFiles(files')
  BY OpenCuts
<1>3. bump = 0
  BY <1>1 DEF WalInv, WalShape, Closed
<1>4. /\ Files(Opened) /\ IdsOrdered(Opened) /\ IdsUpTo(Opened, written)
      /\ ~ioFailed => LSNsOrdered(Opened)
  BY <1>1, OpenedIsOrdered DEF WalInv
<1>5. /\ nextLSN' \in Nat \ {0} /\ nextLSN' + 0 = nextLSN'
      /\ LSNsBelow(Opened, nextLSN')
  <2>1. nextLSN' = ScannedLSN(Opened)
    BY OpenCuts
  <2>2. nextLSN' \in Nat \ {0} /\ LSNsBelow(Opened, nextLSN')
    BY <1>4, <2>1, NextLSNIsHigher DEF LSNsBelow
  <2>3. \A l \in Nat : l + 0 = l
    OBVIOUS
  <2> QED
    BY <2>2, <2>3
<1>6. WalOrder'
  <2>1. Shrinks(Opened, files')
    BY <1>2 DEF OpenedFiles
  <2>2. IdsOrdered(files') /\ IdsUpTo(files', written) /\ (~ioFailed => LSNsOrdered(files')) /\ LSNsBelow(files', nextLSN')
    BY <1>4, <1>5, <2>1, ShrinkKeepsOrder
  <2> QED
    BY <1>1, <1>3, <1>5, <2>2 DEF WalOrder
<1>7. ActiveIsNewest'
  <2>1. /\ activeID' \in 1..MaxSegment /\ activeID' \in DOMAIN files' /\ \A i \in DOMAIN files' : i <= activeID'
        /\ DOMAIN files' \in SUBSET (1..MaxSegment)
    BY <1>2, OpenCuts DEF OpenedFiles, Files
  <2>2. Lists(segments', DOMAIN files')
    BY <2>1, OpenCuts, SortedLists
  <2> QED
    BY <2>1, <2>2 DEF ActiveIsNewest
<1>8. /\ synced' = [i \in DOMAIN files' |-> synced'[i]]
      /\ \A i \in DOMAIN files' : synced'[i] \in 0..Len(files'[i])
  <2>1. \A i \in DOMAIN files' : Len(files'[i]) \in Nat
    BY <1>2 DEF OpenedFiles, Files
  <2>2. \A i \in DOMAIN files : synced[i] \in 0..Len(files[i])
    BY DEF WalInv, WalShape
  <2>3. synced' = [i \in DOMAIN files' |-> IF i \notin DOMAIN files \/ files'[i] # files[i]
                                            THEN Len(files'[i]) ELSE synced[i]]
    BY OpenCuts
  <2> QED
    BY <2>1, <2>2, <2>3
<1>9. WalShape'
  <2>1. Files(files')
    BY <1>2 DEF OpenedFiles
  <2> QED
    BY <1>1, <1>3, <1>5, <1>7, <1>8, <2>1 DEF WalInv, WalShape, LegacyWaits
<1> QED
  BY <1>6, <1>9 DEF WalInv

\* Records with consecutive LSNs and fresh ids, and a torn one after them.
LEMMA NewRecordsFollow ==
  ASSUME NEW n \in Nat, written \in Nat, nextLSN \in Nat \ {0}
  PROVE  /\ NewRecords(n) \in Seq(Entry) /\ Len(NewRecords(n)) = n
         /\ Follow(NewRecords(n), written, nextLSN) /\ Whole(NewRecords(n))
         /\ \A i \in 1..n : NewRecords(n)[i].id = written + i
         /\ TornRecords(n) \in Seq(Entry) /\ Len(TornRecords(n)) = n + 1
         /\ Follow(TornRecords(n), written, nextLSN)
<1> DEFINE t == NewRecords(n)
           u == t \o <<Torn>>
<1>1. \A i \in 1..n : [lsn |-> nextLSN + i - 1, id |-> written + i] \in Entry
  BY DEF Entry
<1>2. /\ t \in Seq(Entry) /\ Len(t) = n
      /\ \A i \in 1..n : t[i].lsn = nextLSN + i - 1 /\ t[i].id = written + i
  BY <1>1 DEF NewRecords
<1>3. Torn \in Entry /\ IsTorn(Torn)
  BY DEF Torn, Entry, IsTorn
<1> HIDE DEF t
<1>4. u \in Seq(Entry) /\ Len(u) = n + 1 /\ u[n + 1] = Torn /\ \A i \in 1..n : u[i] = t[i]
  BY <1>2, <1>3
<1> HIDE DEF u
<1>5. Whole(t)
  BY <1>2 DEF Whole, IsTorn
<1>6. Follow(t, written, nextLSN)
  BY <1>2 DEF Follow
<1>7. Follow(u, written, nextLSN)
  BY <1>2, <1>3, <1>4 DEF Follow
<1> QED
  BY <1>2, <1>4, <1>5, <1>6, <1>7 DEF TornRecords, t, u

\* What a call writes to the active segment.
LEMMA WriteKeeps ==
  ASSUME WalInv, method = "open", NEW t \in Seq(Entry), Follow(t, written, nextLSN)
  PROVE  LET g == [files EXCEPT ![activeID] = @ \o t]
         IN /\ Files(g) /\ DOMAIN g = DOMAIN files
            /\ activeID \in DOMAIN files /\ g[activeID] = files[activeID] \o t
            /\ \A i \in DOMAIN files : i # activeID => g[i] = files[i]
            /\ \A i \in DOMAIN g : synced[i] \in 0..Len(g[i])
            /\ IdsOrdered(g) /\ IdsUpTo(g, written + Len(t))
            /\ ~ioFailed => LSNsOrdered(g) /\ LSNsBelow(g, nextLSN + Len(t))
<1> DEFINE g == [files EXCEPT ![activeID] = @ \o t]
<1>1. /\ Files(files) /\ written \in Nat /\ nextLSN \in Nat /\ nextLSN + bump = nextLSN
      /\ \A i \in DOMAIN files : synced[i] \in 0..Len(files[i])
  BY DEF WalInv, WalShape
<1>2. activeID \in DOMAIN files /\ \A i \in DOMAIN files : i <= activeID
  BY DEF WalInv, WalShape, ActiveIsNewest, Closed
<1>3. /\ IdsOrdered(files) /\ IdsUpTo(files, written)
      /\ ~ioFailed => LSNsOrdered(files) /\ LSNsBelow(files, nextLSN)
  BY <1>1 DEF WalInv, WalOrder, Closed
<1>4. /\ Files(g) /\ IdsOrdered(g) /\ IdsUpTo(g, written + Len(t))
      /\ ~ioFailed => LSNsOrdered(g) /\ LSNsBelow(g, nextLSN + Len(t))
  BY <1>1, <1>2, <1>3, WriteKeepsOrder
<1>5. /\ DOMAIN g = DOMAIN files /\ g[activeID] = files[activeID] \o t
      /\ \A i \in DOMAIN files : i # activeID => g[i] = files[i]
  BY <1>2
<1>6. \A i \in DOMAIN g : synced[i] \in 0..Len(g[i])
  <2>1. files[activeID] \in Seq(Entry)
    BY <1>1, <1>2 DEF Files
  <2>2. Len(g[activeID]) = Len(files[activeID]) + Len(t) /\ Len(files[activeID]) \in Nat /\ Len(t) \in Nat
    BY <1>5, <2>1
  <2> HIDE DEF g
  <2> QED
    BY <1>1, <1>5, <2>2
<1> QED
  BY <1>2, <1>4, <1>5, <1>6

\* An append wrote t; it was asked to write no more than that if nothing failed.
Appends(t) ==
  /\ Follow(t, written, nextLSN)
  /\ files' = [files EXCEPT ![activeID] = @ \o t]
  /\ written' = written + Len(t)
  /\ ioFailed' \in BOOLEAN
  /\ ~ioFailed' => /\ ~ioFailed /\ nextLSN' + bump' = nextLSN + Len(t) /\ Whole(t)
                   /\ \A k \in inflight' : \E b \in 1..Len(t) : t[b].id = k
  /\ nextLSN' \in Nat \ {0} /\ bump' \in {0, 1} /\ method' \in {"open", "sync"}
  /\ method' # "sync" => bump' = 0
  /\ inflight' \in SUBSET (1..written')

\* What Append and BatchAppend write, up to their fsync.
LEMMA RecordsAreAppended ==
  ASSUME WalInv, method = "open", NEW n \in Nat \ {0},
         files' = [files EXCEPT ![activeID] = @ \o NewRecords(n)],
         written' = written + n, ioFailed' = ioFailed, nextLSN' + bump' = nextLSN + n,
         nextLSN' \in Nat \ {0}, bump' \in {0, 1}, method' = "sync", inflight' = Ids(NewRecords(n))
  PROVE  Appends(NewRecords(n)) /\ NewRecords(n) \in Seq(Entry)
<1> DEFINE t == NewRecords(n)
<1>1. written \in Nat /\ nextLSN \in Nat \ {0} /\ ioFailed \in BOOLEAN
  BY DEF WalInv, WalShape
<1>2. /\ t \in Seq(Entry) /\ Len(t) = n /\ Follow(t, written, nextLSN) /\ Whole(t)
      /\ \A i \in 1..n : t[i].id = written + i
  BY <1>1, NewRecordsFollow
<1> HIDE DEF t
<1>3. \A k \in inflight' : \E b \in 1..Len(t) : t[b].id = k
  BY <1>2 DEF Ids, t
<1>4. inflight' \in SUBSET (1..written')
  BY <1>1, <1>2, <1>3, SMTT(30)
<1>5. ioFailed' \in BOOLEAN /\ (~ioFailed' => ~ioFailed)
  BY <1>1
<1> QED
  BY <1>2, <1>3, <1>4, <1>5 DEF Appends, t

LEMMA AppendWrites ==
  ASSUME WalInv, \/ Append1
                 \/ \E n \in 1..MaxBatch : BatchAppend(n)
                 \/ \E n \in 0..MaxBatch - 1 : AppendFails(n)
  PROVE  /\ method = "open" /\ UNCHANGED <<synced, legacy, activeID, segments, kept>>
         /\ \E t \in Seq(Entry) : Appends(t)
<1>1. method = "open" /\ MaxBatch \in Nat \ {0} /\ written \in Nat /\ nextLSN \in Nat \ {0} /\ bump = 0
  BY WalAssumption DEF Append1, BatchAppend, AppendFails, WalInv, WalShape
<1>2. UNCHANGED <<synced, legacy, activeID, segments, kept>>
  BY DEF Append1, BatchAppend, AppendFails
<1>3. ASSUME Append1
      PROVE  Appends(NewRecords(1)) /\ NewRecords(1) \in Seq(Entry)
  <2>1. Ids(NewRecords(1)) = {written + 1}
    <3>1. 1 \in Nat /\ 1 \in 1..1 /\ 1..1 = {1}
      OBVIOUS
    <3>2. Len(NewRecords(1)) = 1 /\ NewRecords(1)[1].id = written + 1
      BY <1>1, <3>1, NewRecordsFollow
    <3> QED
      BY <3>1, <3>2 DEF Ids
  <2>2. nextLSN' + bump' = nextLSN + 1 /\ nextLSN' \in Nat \ {0} /\ bump' \in {0, 1}
    BY <1>1, <1>3 DEF Append1
  <2>3. 1 \in Nat \ {0}
    OBVIOUS
  <2> QED
    BY <1>1, <1>3, <2>1, <2>2, <2>3, RecordsAreAppended DEF Append1
<1>4. ASSUME NEW n \in 1..MaxBatch, BatchAppend(n)
      PROVE  Appends(NewRecords(n)) /\ NewRecords(n) \in Seq(Entry)
  <2>1. n \in Nat \ {0} /\ nextLSN' + bump' = nextLSN + n /\ nextLSN' \in Nat \ {0} /\ bump' \in {0, 1}
    BY <1>1, <1>4 DEF BatchAppend
  <2> QED
    BY <1>1, <1>4, <2>1, RecordsAreAppended DEF BatchAppend
<1>5. ASSUME NEW n \in 0..MaxBatch - 1, AppendFails(n)
      PROVE  Appends(TornRecords(n)) /\ TornRecords(n) \in Seq(Entry)
  <2> DEFINE t == TornRecords(n)
  <2>1. /\ n \in Nat /\ NewRecords(n) \in Seq(Entry)
        /\ t \in Seq(Entry) /\ Len(t) = n + 1 /\ Follow(t, written, nextLSN)
    <3>1. n \in Nat
      BY <1>1
    <3> QED
      BY <1>1, <3>1, NewRecordsFollow
  <2>2. files' = [files EXCEPT ![activeID] = @ \o t]
    BY <1>5 DEF AppendFails
  <2>5. /\ written' = written + (n + 1) /\ nextLSN' = nextLSN + n /\ bump' = 0
        /\ method' = "open" /\ inflight' = inflight
    BY <1>1, <1>5, <2>1 DEF AppendFails
  <2>6. ioFailed' = TRUE
    BY <1>5 DEF AppendFails
  <2>7. inflight' \in SUBSET (1..written')
    <3>1. inflight \in SUBSET (1..written)
      BY DEF WalInv, WalShape
    <3> QED
      BY <1>1, <2>1, <2>5, <3>1
  <2>8. nextLSN' \in Nat \ {0}
    BY <1>1, <2>1, <2>5
  <2> HIDE DEF t
  <2> QED
    BY <2>1, <2>2, <2>5, <2>6, <2>7, <2>8 DEF Appends, t
<1> QED
  BY <1>1, <1>2, <1>3, <1>4, <1>5

LEMMA AppendKeeps ==
  ASSUME WalInv, \/ Append1
                 \/ \E n \in 1..MaxBatch : BatchAppend(n)
                 \/ \E n \in 0..MaxBatch - 1 : AppendFails(n)
  PROVE  WalInv'
<1>1. method = "open" /\ written \in Nat
  BY AppendWrites DEF WalInv, WalShape
<1>2. UNCHANGED <<synced, legacy, activeID, segments, kept>>
  BY AppendWrites
<1>3. \E t \in Seq(Entry) : Appends(t)
  BY AppendWrites
<1>4. PICK t \in Seq(Entry) : Appends(t)
  BY <1>3
<1>5. LET g == files'
      IN /\ Files(g) /\ DOMAIN g = DOMAIN files
         /\ \A i \in DOMAIN g : synced[i] \in 0..Len(g[i])
         /\ IdsOrdered(g) /\ IdsUpTo(g, written + Len(t))
         /\ ~ioFailed => LSNsOrdered(g) /\ LSNsBelow(g, nextLSN + Len(t))
  BY <1>1, <1>4, WriteKeeps DEF Appends
<1>6. WalOrder'
  BY <1>4, <1>5 DEF WalOrder, Appends
<1>7. /\ synced = [i \in DOMAIN files |-> synced[i]] /\ kept \in SUBSET (1..written)
      /\ LegacyWaits /\ ActiveIsNewest /\ ~Closed /\ ~Closed'
  BY <1>1, <1>4 DEF WalInv, WalShape, Closed, Appends
<1>8. LegacyWaits' /\ ActiveIsNewest'
  <2>1. method # "truncate" /\ legacy = NoFile
    BY <1>1, <1>7 DEF LegacyWaits
  <2> QED
    BY <1>2, <1>5, <1>7, <2>1 DEF LegacyWaits, ActiveIsNewest
<1>9. kept' \in SUBSET (1..written') /\ written' \in Nat
  <2>1. Len(t) \in Nat
    OBVIOUS
  <2> QED
    BY <1>1, <1>2, <1>4, <1>7, <2>1 DEF Appends
<1>10. /\ synced' = [i \in DOMAIN files' |-> synced'[i]]
       /\ \A i \in DOMAIN files' : synced'[i] \in 0..Len(files'[i])
  BY <1>2, <1>5, <1>7
<1>11. WalShape'
  BY <1>4, <1>5, <1>8, <1>9, <1>10 DEF WalShape, Appends
<1> QED
  BY <1>6, <1>11 DEF WalInv

\* The lists of segments that Open, Rotate and the removal loops keep.
LEMMA ListHead ==
  ASSUME NEW s, NEW S, Lists(s, S), s # << >>
  PROVE  Head(s) \in S /\ \A k \in S : k \in Nat /\ Head(s) <= k
<1>1. /\ s \in Seq(Nat) /\ Len(s) \in Nat /\ Len(s) # 0 /\ Head(s) = s[1]
      /\ DOMAIN s = 1..Len(s)
  BY DEF Lists
<1>2. Head(s) \in S
  BY <1>1 DEF Lists, Elements
<1>3. ASSUME NEW k \in S
      PROVE  k \in Nat /\ Head(s) <= k
  <2>1. PICK i \in 1..Len(s) : s[i] = k
    BY <1>1 DEF Lists, Elements
  <2>2. s[1] \in Nat /\ s[i] \in Nat /\ (1 < i => s[1] < s[i])
    BY <1>1 DEF Lists
  <2> QED
    BY <1>1, <2>1, <2>2
<1> QED
  BY <1>2, <1>3

\* Steps that leave the files and the list of segments alone.
LEMMA QuietKeeps ==
  ASSUME WalInv, \/ Sync \/ FsyncFails \/ RemoveOlderSegments \/ Truncate \/ RemoveDone
  PROVE  WalInv'
<1>1. /\ UNCHANGED <<files, legacy, activeID, segments, written>>
      /\ ~Closed /\ ~Closed' /\ method' \in {"open", "truncate", "remove"}
      /\ bump' = 0 /\ nextLSN' \in Nat \ {0}
      /\ inflight' \in SUBSET (1..written) /\ kept' \in SUBSET (1..written)
      /\ ioFailed' \in BOOLEAN
      /\ ~ioFailed' => ~ioFailed /\ nextLSN' + bump' = nextLSN + bump
  <2>1. CASE Sync
    BY <2>1 DEF Sync, WalInv, WalShape, Closed
  <2>2. CASE FsyncFails
    BY <2>2 DEF FsyncFails, WalInv, WalShape, Closed
  <2>3. CASE RemoveOlderSegments \/ Truncate
    BY <2>3 DEF RemoveOlderSegments, Truncate, WalInv, WalShape, Closed
  <2>4. CASE RemoveDone
    BY <2>4 DEF RemoveDone, StillIn, WalInv, WalShape, Closed
  <2> QED
    BY <2>1, <2>2, <2>3, <2>4
<1>2. /\ synced' = [i \in DOMAIN files' |-> synced'[i]]
      /\ \A i \in DOMAIN files' : synced'[i] \in 0..Len(files'[i])
  <2>1. /\ synced = [i \in DOMAIN files |-> synced[i]] /\ files' = files
        /\ \A i \in DOMAIN files : synced[i] \in 0..Len(files[i]) /\ Len(files[i]) \in Nat
    BY <1>1 DEF WalInv, WalShape, Files
  <2>2. CASE synced' = synced
    BY <2>1, <2>2
  <2>3. CASE Sync
    <3>1. synced' = [synced EXCEPT ![activeID] = Len(files[activeID])]
      BY <2>3 DEF Sync
    <3> QED
      BY <2>1, <3>1
  <2> QED
    BY <2>2, <2>3 DEF FsyncFails, RemoveOlderSegments, Truncate, RemoveDone
<1>3. method # "truncate"
  BY DEF Sync, FsyncFails, RemoveOlderSegments, Truncate, RemoveDone
<1>4. LegacyWaits' /\ ActiveIsNewest'
  BY <1>1, <1>3 DEF WalInv, WalShape, LegacyWaits, ActiveIsNewest
<1>5. WalShape'
  BY <1>1, <1>2, <1>4 DEF WalInv, WalShape
<1>6. WalOrder'
  BY <1>1 DEF WalInv, WalOrder
<1> QED
  BY <1>5, <1>6 DEF WalInv

LEMMA RotateKeeps ==
  ASSUME WalInv, Rotate
  PROVE  WalInv'
<1>1. /\ ~Closed /\ method = "open" /\ activeID \in 1..MaxSegment /\ activeID \in Nat
      /\ activeID \in DOMAIN files /\ \A i \in DOMAIN files : i \in Nat /\ i <= activeID
      /\ Lists(segments, DOMAIN files) /\ Files(files)
  BY DEF Rotate, WalInv, WalShape, ActiveIsNewest, Closed, Files
<1>2. activeID + 1 \in 1..MaxSegment /\ activeID + 1 \in Nat /\ << >> \in Seq(Entry)
  BY <1>1, WalAssumption DEF Rotate
<1> DEFINE n == activeID + 1
           g == With(files, n, << >>)
<1>3. /\ files' = g /\ activeID' = n /\ segments' = Append(segments, n)
      /\ synced' = With([synced EXCEPT ![activeID] = Len(files[activeID])], n, 0)
      /\ UNCHANGED <<legacy, nextLSN, method, inflight, bump, written, kept, ioFailed>>
  BY DEF Rotate
<1>4. n \notin DOMAIN files /\ \A i \in DOMAIN files : i < n
  BY <1>1
<1> HIDE DEF n
<1>5. /\ Files(g) /\ DOMAIN g = DOMAIN files \cup {n} /\ g[n] = << >>
      /\ \A i \in DOMAIN files : i # n => g[i] = files[i]
  <2>1. PICK c \in Seq(Entry) : c = << >>
    BY <1>2
  <2>2. /\ Files(With(files, n, c)) /\ DOMAIN With(files, n, c) = DOMAIN files \cup {n}
        /\ With(files, n, c)[n] = c /\ \A i \in DOMAIN files : i # n => With(files, n, c)[i] = files[i]
    BY <1>1, <1>2, FileCreated, ZenonT(60) DEF n
  <2> QED
    BY <2>1, <2>2
<1> HIDE DEF g
<1>6. Shrinks(files, g)
  BY <1>5 DEF Shrinks
<1>7. WalOrder'
  BY <1>3, <1>6, ShrinkKeepsOrder DEF WalInv, WalOrder, Closed
<1>8. Lists(segments', DOMAIN files')
  BY <1>1, <1>2, <1>3, <1>4, <1>5, ListTakes DEF n
<1>9. ActiveIsNewest'
  <2>1. \A i \in DOMAIN g : i <= n
    BY <1>1, <1>2, <1>4, <1>5 DEF n
  <2>2. n \in DOMAIN g /\ n \in 1..MaxSegment
    BY <1>2, <1>5 DEF n
  <2> QED
    BY <1>3, <1>8, <2>1, <2>2 DEF ActiveIsNewest
<1>10. /\ synced' = [i \in DOMAIN files' |-> synced'[i]]
       /\ \A i \in DOMAIN files' : synced'[i] \in 0..Len(files'[i])
  <2>1. /\ synced = [i \in DOMAIN files |-> synced[i]]
        /\ \A i \in DOMAIN files : synced[i] \in 0..Len(files[i]) /\ Len(files[i]) \in Nat
    BY <1>1 DEF WalInv, WalShape, Files
  <2>2. /\ synced' = [i \in DOMAIN synced' |-> synced'[i]] /\ DOMAIN synced' = DOMAIN files \cup {n}
        /\ synced'[n] = 0 /\ \A i \in DOMAIN files : i # n => synced'[i] \in 0..Len(files[i])
    BY <1>1, <1>3, <2>1 DEF With
  <2>3. DOMAIN files' = DOMAIN files \cup {n} /\ files'[n] = << >> /\ Len(<< >>) = 0
    BY <1>3, <1>5
  <2>4. \A i \in DOMAIN files : i # n => files'[i] = files[i]
    BY <1>3, <1>5
  <2> QED
    BY <1>4, <2>2, <2>3, <2>4
<1>11. LegacyWaits'
  BY <1>1, <1>3 DEF WalInv, WalShape, LegacyWaits
<1>12. WalShape'
  BY <1>3, <1>5, <1>9, <1>10, <1>11 DEF WalInv, WalShape
<1> QED
  BY <1>7, <1>12 DEF WalInv

LEMMA RemoveKeeps ==
  ASSUME WalInv, RemoveSegment
  PROVE  /\ WalInv' /\ ~Closed /\ NextRemoved \in DOMAIN files
         /\ \A i \in DOMAIN files : i \in Nat /\ NextRemoved <= i
<1> DEFINE h == Head(segments)
<1>1. /\ ~Closed /\ method \in {"remove", "truncate"} /\ activeID \in 1..MaxSegment
      /\ (method # "truncate" => activeID \in DOMAIN files) /\ \A i \in DOMAIN files : i <= activeID
      /\ Lists(segments, DOMAIN files) /\ Files(files)
  BY DEF RemoveSegment, WalInv, WalShape, ActiveIsNewest, Closed
<1>2. /\ files' = Without(files, h) /\ synced' = Without(synced, h)
      /\ segments' = Sorted(Elements(segments) \ {h})
      /\ UNCHANGED <<legacy, activeID, nextLSN, method, inflight, bump, written, kept, ioFailed>>
      /\ NextRemoved = h
  BY DEF RemoveSegment, NextRemoved
<1>3. segments # << >>
  <2>1. CASE method = "truncate"
    BY <2>1 DEF RemoveSegment, LoopDone
  <2>2. CASE method = "remove"
    <3>1. activeID \in Elements(segments)
      BY <1>1, <2>2 DEF Lists
    <3> QED
      BY <3>1 DEF Elements
  <2> QED
    BY <1>1, <2>1, <2>2
<1>4. h \in DOMAIN files /\ \A i \in DOMAIN files : i \in Nat /\ h <= i
  BY <1>1, <1>3, ListHead
<1>5. method # "truncate" => h # activeID
  <2> SUFFICES ASSUME method = "remove", h = activeID
               PROVE  FALSE
    BY <1>1
  <2>1. \A i \in DOMAIN files : i = activeID
    BY <1>1, <1>4
  <2>2. segments \in Seq(Nat) /\ \A i \in 1..Len(segments) : segments[i] = activeID
    <3>1. segments \in Seq(Nat) /\ DOMAIN segments = 1..Len(segments) /\ Elements(segments) = DOMAIN files
      BY <1>1 DEF Lists
    <3>2. \A i \in 1..Len(segments) : segments[i] \in DOMAIN files
      BY <3>1 DEF Elements
    <3> QED
      BY <2>1, <3>1, <3>2
  <2>3. Len(segments) = 1
    <3>1. Len(segments) \in Nat /\ Len(segments) # 0
      BY <1>3, <2>2
    <3>2. ASSUME Len(segments) > 1
          PROVE  FALSE
      <4>1. 1 \in 1..Len(segments) /\ 2 \in 1..Len(segments) /\ 1 < 2
        BY <3>1, <3>2
      <4>2. segments[1] < segments[2] /\ segments[1] = activeID /\ segments[2] = activeID
        BY <1>1, <2>2, <4>1 DEF Lists
      <4> QED
        BY <1>1, <4>2
    <3>3. \A n \in Nat : n = 0 \/ n = 1 \/ n > 1
      OBVIOUS
    <3> QED
      BY <3>1, <3>2, <3>3
  <2>4. segments = <<activeID>>
    BY <2>2, <2>3
  <2> QED
    BY <2>4 DEF RemoveSegment, LoopDone
<1> HIDE DEF h
<1>6. /\ Files(files') /\ Shrinks(files, files') /\ DOMAIN files' = DOMAIN files \ {h}
      /\ \A i \in DOMAIN files : i # h => files'[i] = files[i]
  BY <1>1, <1>2, FileRemoved
<1>7. WalOrder'
  BY <1>2, <1>6, ShrinkKeepsOrder DEF WalInv, WalOrder, Closed
<1>8. Lists(segments', DOMAIN files')
  <2>1. Elements(segments) \ {h} = DOMAIN files' /\ DOMAIN files' \in SUBSET (1..MaxSegment)
    BY <1>1, <1>6 DEF Lists, Files
  <2> QED
    BY <1>2, <2>1, SortedLists
<1>9. ActiveIsNewest'
  BY <1>1, <1>2, <1>5, <1>6, <1>8 DEF ActiveIsNewest
<1>10. /\ synced' = [i \in DOMAIN files' |-> synced'[i]]
       /\ \A i \in DOMAIN files' : synced'[i] \in 0..Len(files'[i])
  <2>1. /\ synced = [i \in DOMAIN files |-> synced[i]]
        /\ \A i \in DOMAIN files : synced[i] \in 0..Len(files[i])
    BY DEF WalInv, WalShape
  <2>2. synced' = [i \in DOMAIN files' |-> synced[i]]
    BY <1>2, <1>6, <2>1 DEF Without
  <2> QED
    BY <1>6, <2>1, <2>2
<1>11. LegacyWaits'
  BY <1>1, <1>2 DEF WalInv, WalShape, LegacyWaits
<1>12. WalShape'
  BY <1>2, <1>6, <1>9, <1>10, <1>11 DEF WalInv, WalShape
<1> QED
  BY <1>1, <1>2, <1>4, <1>7, <1>12 DEF WalInv

LEMMA TruncateDoneKeeps ==
  ASSUME WalInv, TruncateDone
  PROVE  WalInv'
<1>1. /\ ~Closed /\ method = "truncate" /\ files' = [i \in {1} |-> << >>] /\ synced' = [i \in {1} |-> 0]
      /\ activeID' = 1 /\ segments' = <<1>> /\ nextLSN' = 1 /\ kept' = {} /\ method' = "open"
      /\ UNCHANGED <<legacy, inflight, bump, written, ioFailed>>
  BY DEF TruncateDone, Closed
<1>2. Files(files') /\ DOMAIN files' = {1} /\ \A i \in DOMAIN files' : files'[i] = << >>
  BY <1>1, FreshSegment
<1>3. WalOrder'
  BY <1>2, EmptyIsOrdered DEF WalOrder
<1>4. Lists(<<1>>, {1})
  <2>1. <<1>> \in Seq(Nat) /\ Len(<<1>>) = 1 /\ <<1>>[1] = 1
    OBVIOUS
  <2>2. Elements(<<1>>) = {1}
    BY <2>1 DEF Elements
  <2> QED
    BY <2>1, <2>2 DEF Lists
<1>5. ActiveIsNewest'
  <2>1. 1 \in 1..MaxSegment
    BY WalAssumption
  <2> QED
    BY <1>1, <1>2, <1>4, <2>1 DEF ActiveIsNewest
<1>6. LegacyWaits'
  BY <1>1 DEF WalInv, WalShape, LegacyWaits
<1>7. /\ synced' = [i \in DOMAIN files' |-> synced'[i]]
      /\ \A i \in DOMAIN files' : synced'[i] \in 0..Len(files'[i])
  <2>1. Len(<< >>) = 0
    OBVIOUS
  <2> QED
    BY <1>1, <1>2, <2>1
<1>8. bump = 0 /\ nextLSN' \in Nat \ {0} /\ kept' \in SUBSET (1..written)
  BY <1>1 DEF WalInv, WalShape
<1>9. WalShape'
  BY <1>1, <1>2, <1>5, <1>6, <1>7, <1>8 DEF WalInv, WalShape
<1> QED
  BY <1>3, <1>9 DEF WalInv

\* What a crash may leave of the files has no entries of its own, and has all
\* that were synced.
Survives(f) ==
  /\ Files(f) /\ DOMAIN f = DOMAIN files /\ Shrinks(files, f)
  /\ \A i \in DOMAIN files : \A a \in 1..Len(files[i]) :
        Valid(files[i], a) /\ a <= synced[i] => a \in 1..Len(f[i]) /\ Valid(f[i], a) /\ f[i][a] = files[i][a]
  /\ \A i \in DOMAIN files : synced[i] = Len(files[i]) => f[i] = files[i]

\* That is so when each file is cut behind its synced entries, or not at all.
LEMMA ImagesSurvive ==
  ASSUME WalInv, NEW f, f = [i \in DOMAIN files |-> f[i]],
         \A i \in DOMAIN files :
           \/ f[i] = files[i]
           \/ \E k \in synced[i]..Len(files[i]) : /\ k # Len(files[i])
                                                  /\ \/ f[i] = SubSeq(files[i], 1, k)
                                                     \/ f[i] = SubSeq(files[i], 1, k) \o <<Torn>>
  PROVE  Survives(f)
<1>1. Files(files) /\ \A i \in DOMAIN files : files[i] \in Seq(Entry) /\ synced[i] \in 0..Len(files[i])
  BY DEF WalInv, WalShape, Files
<1>2. ASSUME NEW i \in DOMAIN files
      PROVE  /\ f[i] \in Seq(Entry)
             /\ \A a \in 1..Len(f[i]) : Valid(f[i], a) => a \in 1..Len(files[i]) /\ Valid(files[i], a) /\ f[i][a] = files[i][a]
             /\ \A a \in 1..Len(files[i]) :
                  Valid(files[i], a) /\ a <= synced[i] => a \in 1..Len(f[i]) /\ Valid(f[i], a) /\ f[i][a] = files[i][a]
             /\ synced[i] = Len(files[i]) => f[i] = files[i]
  <2> DEFINE s == files[i]
             g == f[i]
  <2>1. s \in Seq(Entry) /\ Len(s) \in Nat /\ synced[i] \in Nat /\ synced[i] <= Len(s)
    BY <1>1
  <2>2. CASE g = s
    BY <2>1, <2>2
  <2>3. ASSUME NEW k \in synced[i]..Len(s), k # Len(s),
               g = SubSeq(s, 1, k) \/ g = SubSeq(s, 1, k) \o <<Torn>>
        PROVE  <1>2!2
    <3> HIDE DEF s, g
    <3>1. k \in 0..Len(s) /\ k \in Nat
      BY <2>1
    <3>2. /\ g \in Seq(Entry)
          /\ \A a \in Nat : Valid(g, a) <=> Valid(s, a) /\ a <= k
          /\ \A a \in 1..k : g[a] = s[a]
      <4>1. CASE g = SubSeq(s, 1, k)
        BY <2>1, <3>1, <4>1, ValidInPrefix
      <4>2. CASE g = SubSeq(s, 1, k) \o <<Torn>>
        <5>1. /\ SubSeq(s, 1, k) \o <<Torn>> \in Seq(Entry)
              /\ \A a \in Nat : Valid(SubSeq(s, 1, k) \o <<Torn>>, a) <=> Valid(s, a) /\ a <= k
              /\ \A a \in Nat : a \in 1..k => (SubSeq(s, 1, k) \o <<Torn>>)[a] = s[a]
          BY <2>1, <3>1, ValidInPrefix, Zenon
        <5>2. \A a \in 1..k : a \in Nat
          OBVIOUS
        <5> QED
          BY <4>2, <5>1, <5>2, Zenon
      <4> QED
        BY <2>3, <4>1, <4>2
    <3>3. ASSUME NEW a \in 1..Len(g), Valid(g, a)
          PROVE  a \in 1..Len(s) /\ Valid(s, a) /\ g[a] = s[a]
      <4>1. a \in Nat
        BY <3>2
      <4>2. Valid(s, a) /\ a \in 1..k
        BY <3>1, <3>2, <3>3, <4>1
      <4> QED
        BY <3>2, <4>2 DEF Valid
    <3>4. ASSUME NEW a \in 1..Len(s), Valid(s, a), a <= synced[i]
          PROVE  a \in 1..Len(g) /\ Valid(g, a) /\ g[a] = s[a]
      <4>1. a \in Nat /\ a \in 1..k
        BY <2>1, <3>1, <3>4
      <4>2. Valid(g, a)
        BY <3>2, <3>4, <4>1
      <4> QED
        BY <3>2, <4>1, <4>2 DEF Valid
    <3>5. synced[i] # Len(s)
      BY <2>1, <2>3
    <3> QED
      BY <3>2, <3>3, <3>4, <3>5 DEF s, g
  <2> HIDE DEF s, g
  <2>4. \/ g = s
        \/ \E k \in synced[i]..Len(s) : k # Len(s) /\ (g = SubSeq(s, 1, k) \/ g = SubSeq(s, 1, k) \o <<Torn>>)
    BY DEF s, g
  <2> QED
    BY <2>2, <2>3, <2>4 DEF s, g
<1>3. DOMAIN f = DOMAIN files
  OBVIOUS
<1>4. Files(f)
  BY <1>1, <1>2, <1>3 DEF Files
<1>5. Shrinks(files, f)
  BY <1>2, <1>3 DEF Shrinks
<1> QED
  BY <1>2, <1>3, <1>4, <1>5 DEF Survives

LEMMA CrashesSurvive ==
  ASSUME WalInv
  PROVE  Survives(Durable) /\ \A f \in DirectoryImages : Survives(f)
<1>1. \A i \in DOMAIN files : /\ files[i] \in Seq(Entry) /\ Len(files[i]) \in Nat
                              /\ synced[i] \in 0..Len(files[i]) /\ synced[i] \in synced[i]..Len(files[i])
  BY DEF WalInv, WalShape, Files
<1>2. Survives(Durable)
  <2>1. Durable = [i \in DOMAIN files |-> Durable[i]]
    BY DEF Durable
  <2>2. ASSUME NEW i \in DOMAIN files
        PROVE  /\ Durable[i] = SubSeq(files[i], 1, synced[i])
               /\ synced[i] # Len(files[i]) \/ Durable[i] = files[i]
    <3>1. Durable[i] = SubSeq(files[i], 1, synced[i])
      BY DEF Durable
    <3>2. files[i] = SubSeq(files[i], 1, Len(files[i]))
      BY <1>1
    <3> QED
      BY <3>1, <3>2
  <2> QED
    BY <1>1, <2>1, <2>2, ImagesSurvive
<1>3. ASSUME NEW f \in DirectoryImages
      PROVE  Survives(f)
  <2>1. f = [i \in DOMAIN files |-> f[i]]
    BY DEF DirectoryImages
  <2>2. ASSUME NEW i \in DOMAIN files
        PROVE  \/ f[i] = files[i]
               \/ \E k \in synced[i]..Len(files[i]) : /\ k # Len(files[i])
                                                      /\ \/ f[i] = SubSeq(files[i], 1, k)
                                                         \/ f[i] = SubSeq(files[i], 1, k) \o <<Torn>>
    <3>1. f[i] \in LogImages(i)
      BY DEF DirectoryImages
    <3>2. PICK k \in synced[i]..Len(files[i]) :
            f[i] \in IF k = Len(files[i]) THEN {files[i]}
                     ELSE {SubSeq(files[i], 1, k), SubSeq(files[i], 1, k) \o <<Torn>>}
      BY <3>1 DEF LogImages
    <3> QED
      BY <3>2
  <2> QED
    BY <2>1, <2>2, ImagesSurvive
<1> QED
  BY <1>2, <1>3

\* The process ends: the log is closed, its machine or the process goes down.
LEMMA EndKeeps ==
  ASSUME WalInv, CloseLog \/ CrashLog \/ KillLog
  PROVE  /\ WalInv' /\ Closed' /\ legacy = NoFile /\ DOMAIN files' = DOMAIN files
         /\ UNCHANGED <<legacy, written, ioFailed>> /\ inflight' = {} /\ kept' \in SUBSET kept
         /\ Survives(files')
         /\ CrashLog => \A i \in DOMAIN files' : synced'[i] = Len(files'[i])
<1>1. /\ ~Closed /\ activeID \in 1..MaxSegment /\ Files(files)
      /\ synced = [i \in DOMAIN files |-> synced[i]]
      /\ \A i \in DOMAIN files : synced[i] \in 0..Len(files[i]) /\ Len(files[i]) \in Nat
  BY DEF CloseLog, CrashLog, KillLog, WalInv, WalShape, ActiveIsNewest, Closed, Files
<1>2. /\ nextLSN' = 1 /\ inflight' = {} /\ bump' = 0 /\ method' = "closed"
      /\ UNCHANGED <<legacy, written, ioFailed>>
  BY DEF CloseLog, CrashLog, KillLog, Forget
<1>3. kept' \in SUBSET kept
  BY DEF CloseLog, CrashLog, KillLog, StillIn
<1>4. /\ Survives(files')
      /\ synced' = [i \in DOMAIN files' |-> synced'[i]]
      /\ \A i \in DOMAIN files' : synced'[i] \in 0..Len(files'[i])
      /\ CrashLog => \A i \in DOMAIN files' : synced'[i] = Len(files'[i])
  <2>1. Shrinks(files, files)
    BY DEF Shrinks
  <2>2. Survives(files)
    BY <1>1, <2>1 DEF Survives
  <2>3. CASE KillLog /\ ~CrashLog
    BY <1>1, <2>2, <2>3 DEF KillLog
  <2>4. CASE CloseLog /\ ~CrashLog
    <3>1. files' = files /\ synced' = [synced EXCEPT ![activeID] = Len(files[activeID])]
      BY <2>4 DEF CloseLog
    <3> QED
      BY <1>1, <2>2, <2>4, <3>1
  <2>5. CASE CrashLog
    <3>1. PICK f \in DirectoryImages : files' = f /\ synced' = [i \in DOMAIN f |-> Len(f[i])]
      BY <2>5 DEF CrashLog
    <3>2. Survives(f)
      BY CrashesSurvive
    <3>3. \A i \in DOMAIN f : f[i] \in Seq(Entry) /\ Len(f[i]) \in Nat
      BY <3>2 DEF Survives, Files
    <3>4. \A i \in DOMAIN f : synced'[i] = Len(f[i])
      BY <3>1
    <3> QED
      BY <3>1, <3>2, <3>3, <3>4
  <2> QED
    BY <2>3, <2>4, <2>5
<1>5. WalOrder'
  BY <1>2, <1>4, ShrinkKeepsOrder DEF Survives, WalInv, WalOrder, Closed
<1>6. LegacyWaits' /\ ActiveIsNewest' /\ Closed' /\ legacy = NoFile
  BY <1>1, <1>2 DEF WalInv, WalShape, LegacyWaits, ActiveIsNewest, Closed
<1>7. kept' \in SUBSET (1..written)
  BY <1>3 DEF WalInv, WalShape
<1>8. WalShape'
  BY <1>2, <1>4, <1>6, <1>7 DEF WalInv, WalShape, Survives
<1> QED
  BY <1>2, <1>3, <1>4, <1>5, <1>6, <1>8 DEF WalInv, Survives

-----------------------------------------------------------------------------
(* Records are replayed in the order in which they were written            *)

LEMMA WalNextKeeps == ASSUME WalInv, [WalNext]_walVars PROVE WalInv'
<1>1. CASE OpenLog
  BY <1>1, OpenKeeps
<1>2. CASE \/ Append1
           \/ \E n \in 1..MaxBatch : BatchAppend(n)
           \/ \E n \in 0..MaxBatch - 1 : AppendFails(n)
  BY <1>2, AppendKeeps
<1>3. CASE Sync \/ FsyncFails \/ RemoveOlderSegments \/ Truncate \/ RemoveDone
  BY <1>3, QuietKeeps
<1>4. CASE Rotate
  BY <1>4, RotateKeeps
<1>5. CASE RemoveSegment
  BY <1>5, RemoveKeeps
<1>6. CASE TruncateDone
  BY <1>6, TruncateDoneKeeps
<1>7. CASE CloseLog \/ CrashLog \/ KillLog
  BY <1>7, EndKeeps
<1>8. CASE UNCHANGED walVars
  BY <1>8 DEF walVars, WalInv, WalShape, WalOrder, LegacyWaits, ActiveIsNewest, Closed
<1> QED
  BY <1>1, <1>2, <1>3, <1>4, <1>5, <1>6, <1>7, <1>8 DEF WalNext

\* The files hold their records in the order of their writing, and so does the
\* list of segments; the next record is written after them.
LEMMA WalInvariant == WalSpec => []WalInv
<1>1. WalInit => WalInv
  BY InitKeeps
<1>2. WalInv /\ [WalNext]_walVars => WalInv'
  BY WalNextKeeps
<1> QED
  BY <1>1, <1>2, PTL DEF WalSpec

\* The order of the entries is the order of the replay.
LEMMA OrderOfReplay ==
  ASSUME NEW f, Files(f), IdsOrdered(f)
  PROVE  /\ Ascending(Replay(f))
         /\ LSNsOrdered(f) => \A p, q \in 1..Len(Replay(f)) : p < q => Replay(f)[p].lsn < Replay(f)[q].lsn
<1> SUFFICES ASSUME NEW p \in 1..Len(Replay(f)), NEW q \in 1..Len(Replay(f)), p < q
             PROVE  /\ Replay(f)[p].id < Replay(f)[q].id
                    /\ LSNsOrdered(f) => Replay(f)[p].lsn < Replay(f)[q].lsn
  BY DEF Ascending
<1>1. InLogOrder(f, MaxSegment, Replay(f)[p], Replay(f)[q])
  BY ReplayReturnsValid
<1> DEFINE x == Replay(f)[p]
           y == Replay(f)[q]
<1> HIDE DEF x, y
<1>2. PICK i \in DOMAIN f, j \in DOMAIN f :
        \E a \in 1..Len(f[i]), b \in 1..Len(f[j]) :
           /\ Precedes(i, a, j, b) /\ Valid(f[i], a) /\ Valid(f[j], b) /\ x = f[i][a] /\ y = f[j][b]
  BY <1>1 DEF InLogOrder, x, y
<1>3. PICK a \in 1..Len(f[i]), b \in 1..Len(f[j]) :
        Precedes(i, a, j, b) /\ Valid(f[i], a) /\ Valid(f[j], b) /\ x = f[i][a] /\ y = f[j][b]
  BY <1>2
<1>4. f[i][a].id < f[j][b].id /\ (LSNsOrdered(f) => f[i][a].lsn < f[j][b].lsn)
  BY <1>3 DEF IdsOrdered, LSNsOrdered
<1> QED
  BY <1>3, <1>4 DEF x, y

\* Whatever writes and fsyncs have failed, a replay applies the records in the
\* order in which they were written, across rotations, removals, crashes and
\* restarts; until something fails their LSNs show that order.
THEOREM ReplayFollowsTheLog == WalSpec => []LogInOrder
<1>1. WalInv => LogInOrder
  <2> SUFFICES ASSUME WalInv
               PROVE  LogInOrder
    OBVIOUS
  <2>1. Files(files) /\ IdsOrdered(files) /\ (~ioFailed => LSNsOrdered(files))
    BY DEF WalInv, WalShape, WalOrder
  <2>2. /\ Ascending(Replay(files))
        /\ LSNsOrdered(files) =>
             \A p, q \in 1..Len(Replay(files)) : p < q => Replay(files)[p].lsn < Replay(files)[q].lsn
    BY <2>1, OrderOfReplay
  <2> QED
    BY <2>1, <2>2 DEF LogInOrder, LSNsIncrease
<1> QED
  BY <1>1, WalInvariant, PTL

-----------------------------------------------------------------------------
(* Acknowledged records are there after a crash                            *)

\* The record k can be read in the files f.
Holds(f, k) == \E i \in DOMAIN f : \E a \in 1..Len(f[i]) : Valid(f[i], a) /\ f[i][a].id = k

\* A replay returns the records that can be read.
LEMMA ReplayedAreHeld ==
  ASSUME NEW f, Files(f), NEW k
  PROVE  k \in Ids(Replay(f)) <=> Holds(f, k)
<1>1. ASSUME k \in Ids(Replay(f))
      PROVE  Holds(f, k)
  <2>1. PICK p \in 1..Len(Replay(f)) : Replay(f)[p].id = k
    BY <1>1 DEF Ids
  <2>2. Scanned(f, MaxSegment, Replay(f)[p])
    BY ReplayReturnsValid
  <2> QED
    BY <2>1, <2>2 DEF Scanned, Holds
<1>2. ASSUME Holds(f, k)
      PROVE  k \in Ids(Replay(f))
  <2>1. PICK i \in DOMAIN f : \E a \in 1..Len(f[i]) : Valid(f[i], a) /\ f[i][a].id = k
    BY <1>2 DEF Holds
  <2>2. PICK a \in 1..Len(f[i]) : Valid(f[i], a) /\ f[i][a].id = k
    BY <2>1
  <2>3. PICK p \in 1..Len(Replay(f)) : Replay(f)[p] = f[i][a]
    BY <2>2, ReplayReturnsValid
  <2> QED
    BY <2>2, <2>3 DEF Ids
<1> QED
  BY <1>1, <1>2

\* What can be read after entries were lost could be read before.
LEMMA HeldBefore ==
  ASSUME NEW f, NEW g, Shrinks(f, g), NEW k, Holds(g, k)
  PROVE  Holds(f, k)
<1>1. PICK i \in DOMAIN g : \E a \in 1..Len(g[i]) : Valid(g[i], a) /\ g[i][a].id = k
  BY DEF Holds
<1>2. PICK a \in 1..Len(g[i]) : Valid(g[i], a) /\ g[i][a].id = k
  BY <1>1
<1>3. i \in DOMAIN f /\ a \in 1..Len(f[i]) /\ Valid(f[i], a) /\ g[i][a] = f[i][a]
  BY <1>2 DEF Shrinks
<1> QED
  BY <1>2, <1>3 DEF Holds

Removing == method \in {"truncate", "remove"}

\* Only the newest file has entries that are not synced.
TailUnsynced == \A i, j \in DOMAIN files : i < j => synced[i] = Len(files[i])

\* Only the newest file may end in a torn entry, and not while the log is open.
TornAtTheEnd == /\ ~Closed => \A i \in DOMAIN files : Whole(files[i])
                /\ \A i, j \in DOMAIN files : i < j => Whole(files[i])

\* An acknowledged record in the files is synced.
KeptAreSynced == \A i \in DOMAIN files : \A a \in 1..Len(files[i]) :
                   Valid(files[i], a) /\ files[i][a].id \in kept => a <= synced[i]

\* All of them can be read, as can the records that wait for their fsync.
KeptAreHeld == legacy = NoFile /\ ~Removing => \A k \in kept : Holds(files, k)
InflightAreHeld == method = "sync" => \A k \in inflight : Holds(files, k)

\* While segments are removed, those that cannot are older than all that can.
RemovedAreOldest ==
  Removing => \A k \in kept : ~Holds(files, k) =>
                \A i \in DOMAIN files : \A a \in 1..Len(files[i]) : Valid(files[i], a) => k < files[i][a].id

WalSafety == /\ TailUnsynced
             /\ ~ioFailed => /\ TornAtTheEnd /\ KeptAreSynced /\ KeptAreHeld
                             /\ InflightAreHeld /\ RemovedAreOldest

\* What the files of a crash keep.
LEMMA SyncedAreHeld ==
  ASSUME KeptAreSynced, NEW f, Survives(f), NEW k \in kept, Holds(files, k)
  PROVE  Holds(f, k)
<1>1. PICK i \in DOMAIN files : \E a \in 1..Len(files[i]) : Valid(files[i], a) /\ files[i][a].id = k
  BY DEF Holds
<1>2. PICK a \in 1..Len(files[i]) : Valid(files[i], a) /\ files[i][a].id = k
  BY <1>1
<1>3. a <= synced[i]
  BY <1>2 DEF KeptAreSynced
<1>4. a \in 1..Len(f[i]) /\ Valid(f[i], a) /\ f[i][a] = files[i][a] /\ i \in DOMAIN f
  BY <1>2, <1>3 DEF Survives
<1> QED
  BY <1>2, <1>4 DEF Holds

LEMMA InitIsSafe == ASSUME WalInit PROVE WalSafety
<1>1. files = << >> /\ method = "closed" /\ \A i \in DOMAIN files : FALSE
  BY DEF WalInit
<1>2. legacy = NoFile => kept = {}
  BY DEF WalInit
<1>3. TailUnsynced /\ TornAtTheEnd /\ KeptAreSynced
  BY <1>1 DEF TailUnsynced, TornAtTheEnd, KeptAreSynced, Closed
<1>4. KeptAreHeld /\ InflightAreHeld /\ RemovedAreOldest
  BY <1>1, <1>2 DEF KeptAreHeld, InflightAreHeld, RemovedAreOldest, Removing
<1> QED
  BY <1>3, <1>4 DEF WalSafety

\* The records that Open finds are those it found closed; nothing of them is torn but the end.
LEMMA OpenedIsSafe ==
  ASSUME WalInv, WalSafety, Closed, ~ioFailed
  PROVE  /\ \A k \in kept : Holds(Opened, k)
         /\ \A i, j \in DOMAIN Opened : i < j => Whole(Opened[i])
         /\ \A i \in DOMAIN Opened : \A a \in 1..Len(Opened[i]) :
              Valid(Opened[i], a) /\ Opened[i][a].id \in kept /\ i \in DOMAIN files =>
                Opened[i] = files[i] /\ a <= synced[i]
<1>1. TornAtTheEnd /\ KeptAreSynced /\ KeptAreHeld /\ ~Removing
  BY DEF WalSafety, Removing, Closed
<1>2. CASE legacy = NoFile /\ files = << >>
  <2>1. Opened = [i \in {1} |-> << >>]
    BY <1>2 DEF Opened, Discovered
  <2>2. \A k : ~Holds(files, k)
    <3>1. \A i \in DOMAIN files : FALSE
      BY <1>2
    <3> QED
      BY <3>1 DEF Holds
  <2>3. kept = {}
    BY <1>1, <1>2, <2>2 DEF KeptAreHeld
  <2>4. DOMAIN Opened = {1} /\ \A i, j \in DOMAIN Opened : ~(i < j)
    BY <2>1
  <2> QED
    BY <2>3, <2>4
<1>3. CASE legacy = NoFile /\ files # << >>
  <2>1. Opened = files
    BY <1>3 DEF Opened, Discovered
  <2> QED
    BY <1>1, <1>3, <2>1 DEF TornAtTheEnd, KeptAreSynced, KeptAreHeld
<1>4. CASE legacy # NoFile
  <2>1. files = << >> /\ kept = {1, 2} /\ Opened = With(<< >>, 1, OldLog)
    BY <1>4, OldLogIsOrdered DEF Opened, Discovered, WalInv, WalShape, LegacyWaits
  <2>2. /\ DOMAIN Opened = {1} /\ Opened[1] = OldLog /\ Len(OldLog) = 2
        /\ OldLog \in Seq(Entry) /\ Whole(OldLog) /\ OldLog[1].id = 1 /\ OldLog[2].id = 2
    BY <2>1, OldLogIsOrdered
  <2>3. Valid(OldLog, 1) /\ Valid(OldLog, 2) /\ 1 \in 1..2 /\ 2 \in 1..2
    BY <2>2, WholeIsValid
  <2>4. Holds(Opened, 1) /\ Holds(Opened, 2)
    BY <2>2, <2>3 DEF Holds
  <2>5. (\A i, j \in DOMAIN Opened : ~(i < j)) /\ \A i \in DOMAIN files : FALSE
    BY <2>1, <2>2
  <2> QED
    BY <2>1, <2>4, <2>5
<1> QED
  BY <1>2, <1>3, <1>4

LEMMA OpenIsSafe ==
  ASSUME WalInv, WalSafety, OpenLog
  PROVE  WalSafety'
<1> DEFINE g == files'
           a == Max(DOMAIN Opened)
<1>1. /\ Closed /\ method' = "open" /\ legacy' = NoFile /\ kept' = kept /\ ioFailed' = ioFailed
  BY OpenCuts DEF OpenLog
<1>2. /\ OpenedFiles(g)
      /\ synced' = [i \in DOMAIN g |-> IF i \notin DOMAIN files \/ g[i] # files[i] THEN Len(g[i]) ELSE synced[i]]
  BY OpenCuts
<1>3. /\ a \in DOMAIN Opened /\ a \in Nat /\ DOMAIN g = DOMAIN Opened /\ Files(g)
      /\ \A i \in DOMAIN g : i \in Nat /\ i <= a
      /\ Whole(g[a]) /\ \A i \in DOMAIN g : i # a => g[i] = Opened[i]
  BY <1>2 DEF OpenedFiles, Files
<1>4. \A i \in DOMAIN g : \A b \in 1..Len(g[i]) :
         Valid(g[i], b) => i \in DOMAIN Opened /\ b \in 1..Len(Opened[i]) /\ Valid(Opened[i], b) /\ g[i][b] = Opened[i][b]
  BY <1>2 DEF OpenedFiles, Shrinks
<1>5. \A i \in DOMAIN g : \A b \in 1..Len(Opened[i]) :
         Valid(Opened[i], b) => b \in 1..Len(g[i]) /\ Valid(g[i], b) /\ g[i][b] = Opened[i][b]
  BY <1>2 DEF OpenedFiles
<1>6. \A i \in DOMAIN g : g[i] \in Seq(Entry) /\ Len(g[i]) \in Nat
  BY <1>3 DEF Files
<1> HIDE DEF g, a
<1>7. \A i, j \in DOMAIN g : i < j => synced'[i] = Len(g[i])
  <2> SUFFICES ASSUME NEW i \in DOMAIN g, NEW j \in DOMAIN g, i < j,
                      i \in DOMAIN files, g[i] = files[i]
               PROVE  synced[i] = Len(g[i])
    BY <1>2 DEF g
  <2>1. TailUnsynced /\ legacy = NoFile
    BY DEF WalSafety, WalInv, WalShape, LegacyWaits
  <2>2. Opened = files
    BY <2>1 DEF Opened, Discovered
  <2> QED
    BY <1>3, <2>1, <2>2 DEF TailUnsynced
<1>8. ASSUME ~ioFailed
      PROVE  /\ \A i \in DOMAIN g : Whole(g[i])
             /\ \A k \in kept : Holds(g, k)
             /\ \A i \in DOMAIN g : \A b \in 1..Len(g[i]) :
                  Valid(g[i], b) /\ g[i][b].id \in kept => b <= synced'[i]
  <2>1. \A i \in DOMAIN g : Whole(g[i])
    <3> SUFFICES ASSUME NEW i \in DOMAIN g, i # a
                 PROVE  Whole(g[i])
      BY <1>3
    <3>1. i < a /\ g[i] = Opened[i]
      BY <1>3
    <3> QED
      BY <1>1, <1>3, <1>8, <3>1, OpenedIsSafe
  <2>2. ASSUME NEW k \in kept
        PROVE  Holds(g, k)
    <3>1. Holds(Opened, k)
      BY <1>1, <1>8, OpenedIsSafe
    <3>2. PICK i \in DOMAIN Opened : \E b \in 1..Len(Opened[i]) : Valid(Opened[i], b) /\ Opened[i][b].id = k
      BY <3>1 DEF Holds
    <3>3. PICK b \in 1..Len(Opened[i]) : Valid(Opened[i], b) /\ Opened[i][b].id = k
      BY <3>2
    <3> QED
      BY <1>3, <1>5, <3>3 DEF Holds
  <2>3. ASSUME NEW i \in DOMAIN g, NEW b \in 1..Len(g[i]), Valid(g[i], b), g[i][b].id \in kept
        PROVE  b <= synced'[i]
    <3>1. i \in DOMAIN Opened /\ b \in 1..Len(Opened[i]) /\ Valid(Opened[i], b) /\ Opened[i][b].id \in kept
      BY <1>4, <2>3
    <3>2. i \in DOMAIN files => b <= synced[i]
      BY <1>1, <1>8, <3>1, OpenedIsSafe
    <3>3. b <= Len(g[i])
      BY <1>6
    <3>4. synced'[i] = IF i \notin DOMAIN files \/ g[i] # files[i] THEN Len(g[i]) ELSE synced[i]
      BY <1>2 DEF g
    <3> QED
      BY <3>2, <3>3, <3>4
  <2> QED
    BY <2>1, <2>2, <2>3
<1>9. TailUnsynced'
  BY <1>7 DEF TailUnsynced, g
<1>10. ~ioFailed => TornAtTheEnd' /\ KeptAreSynced' /\ KeptAreHeld'
  BY <1>1, <1>8 DEF TornAtTheEnd, KeptAreSynced, KeptAreHeld, g
<1>11. InflightAreHeld' /\ RemovedAreOldest'
  BY <1>1 DEF InflightAreHeld, RemovedAreOldest, Removing
<1> QED
  BY <1>1, <1>9, <1>10, <1>11 DEF WalSafety

LEMMA AppendIsSafe ==
  ASSUME WalInv, WalSafety, \/ Append1
                            \/ \E n \in 1..MaxBatch : BatchAppend(n)
                            \/ \E n \in 0..MaxBatch - 1 : AppendFails(n)
  PROVE  WalSafety'
<1>1. method = "open" /\ UNCHANGED <<synced, legacy, activeID, segments, kept>>
  BY AppendWrites
<1>2. \E t \in Seq(Entry) : Appends(t)
  BY AppendWrites
<1>3. PICK t \in Seq(Entry) : Appends(t)
  BY <1>2
<1> DEFINE g == files'
           a == activeID
           n == Len(files[a])
<1>4. /\ DOMAIN g = DOMAIN files /\ a \in DOMAIN files /\ g[a] = files[a] \o t
      /\ \A i \in DOMAIN files : i # a => g[i] = files[i]
  BY <1>1, <1>3, WriteKeeps DEF Appends
<1>5. /\ \A i \in DOMAIN files : i \in Nat /\ i <= a
      /\ files[a] \in Seq(Entry) /\ n \in Nat /\ Len(t) \in Nat /\ written \in Nat
      /\ ~Closed /\ method' \in {"open", "sync"} /\ kept \in SUBSET (1..written)
  BY <1>1, <1>3, <1>4 DEF WalInv, WalShape, ActiveIsNewest, Files, Closed, Appends
<1>6. /\ Len(g[a]) = n + Len(t)
      /\ \A b \in 1..n : g[a][b] = files[a][b] /\ (Valid(g[a], b) <=> Valid(files[a], b))
      /\ \A b \in 1..(n + Len(t)) : b > n => g[a][b] = t[b - n]
      /\ Whole(files[a]) /\ Whole(t) => Whole(g[a])
      /\ g[a] \in Seq(Entry)
  BY <1>4, <1>5, ValidInAppended
<1> HIDE DEF g, a, n
<1>7. \A i, j \in DOMAIN g : i < j => i # a
  BY <1>4, <1>5
<1>8. TailUnsynced'
  BY <1>1, <1>4, <1>7 DEF WalSafety, TailUnsynced, g
<1>9. ASSUME ~ioFailed'
      PROVE  /\ \A i \in DOMAIN g : Whole(g[i])
             /\ \A k : Holds(files, k) => Holds(g, k)
             /\ \A k \in inflight' : Holds(g, k)
             /\ \A i \in DOMAIN g : \A b \in 1..Len(g[i]) :
                  Valid(g[i], b) /\ g[i][b].id \in kept => b <= synced[i]
  <2>1. /\ ~ioFailed /\ Whole(t) /\ Follow(t, written, nextLSN)
        /\ \A k \in inflight' : \E b \in 1..Len(t) : t[b].id = k
    BY <1>3, <1>9 DEF Appends
  <2>2. \A i \in DOMAIN files : Whole(files[i])
    BY <1>5, <2>1 DEF WalSafety, TornAtTheEnd
  <2>3. \A i \in DOMAIN g : Whole(g[i])
    BY <1>4, <1>6, <2>1, <2>2
  <2>4. ASSUME NEW k, Holds(files, k)
        PROVE  Holds(g, k)
    <3>1. PICK i \in DOMAIN files : \E b \in 1..Len(files[i]) : Valid(files[i], b) /\ files[i][b].id = k
      BY <2>4 DEF Holds
    <3>2. PICK b \in 1..Len(files[i]) : Valid(files[i], b) /\ files[i][b].id = k
      BY <3>1
    <3>3. i \in DOMAIN g /\ b \in 1..Len(g[i]) /\ Valid(g[i], b) /\ g[i][b].id = k
      <4>1. CASE i = a
        <5>1. b \in 1..n /\ b \in 1..Len(g[a])
          BY <1>5, <1>6, <4>1 DEF n
        <5> QED
          BY <1>4, <1>6, <3>2, <4>1, <5>1
      <4>2. CASE i # a
        BY <1>4, <3>2, <4>2
      <4> QED
        BY <4>1, <4>2
    <3> QED
      BY <3>3 DEF Holds
  <2>5. ASSUME NEW k \in inflight'
        PROVE  Holds(g, k)
    <3>1. PICK b \in 1..Len(t) : t[b].id = k
      BY <2>1, <2>5
    <3>2. n + b \in 1..(n + Len(t)) /\ n + b > n /\ (n + b) - n = b
      BY <1>5
    <3>3. n + b \in 1..Len(g[a]) /\ g[a][n + b] = t[b]
      BY <1>6, <3>2
    <3>4. Valid(g[a], n + b)
      BY <1>4, <1>6, <2>3, <3>3, WholeIsValid
    <3> QED
      BY <1>4, <3>1, <3>3, <3>4 DEF Holds
  <2>6. ASSUME NEW i \in DOMAIN g, NEW b \in 1..Len(g[i]), Valid(g[i], b), g[i][b].id \in kept
        PROVE  b <= synced[i]
    <3>1. KeptAreSynced
      BY <2>1 DEF WalSafety
    <3>2. CASE i # a
      BY <1>4, <2>6, <3>1, <3>2 DEF KeptAreSynced
    <3>3. CASE i = a /\ b \in 1..n
      BY <1>4, <1>6, <2>6, <3>1, <3>3 DEF KeptAreSynced, n
    <3>4. CASE i = a /\ b \notin 1..n
      <4>1. b > n /\ b \in 1..(n + Len(t)) /\ b - n \in 1..Len(t)
        BY <1>5, <1>6, <3>4
      <4>2. g[a][b] = t[b - n]
        BY <1>6, <4>1
      <4>3. ~IsTorn(t[b - n])
        BY <2>1, <4>1 DEF Whole
      <4>4. t[b - n].id = written + (b - n)
        BY <2>1, <4>1, <4>3 DEF Follow
      <4> QED
        BY <1>5, <2>6, <3>4, <4>1, <4>2, <4>4
    <3> QED
      BY <3>2, <3>3, <3>4
  <2> QED
    BY <2>3, <2>4, <2>5, <2>6
<1>10. ~ioFailed' => TornAtTheEnd' /\ KeptAreSynced' /\ InflightAreHeld'
  BY <1>1, <1>9 DEF TornAtTheEnd, KeptAreSynced, InflightAreHeld, g
<1>11. ~ioFailed' => KeptAreHeld'
  <2>1. ~ioFailed' => ~ioFailed
    BY <1>3 DEF Appends
  <2>2. ~ioFailed /\ legacy = NoFile => \A k \in kept : Holds(files, k)
    BY <1>1 DEF WalSafety, KeptAreHeld, Removing
  <2> QED
    BY <1>1, <1>9, <2>1, <2>2 DEF KeptAreHeld, g
<1>12. RemovedAreOldest'
  BY <1>5 DEF RemovedAreOldest, Removing
<1> QED
  BY <1>8, <1>10, <1>11, <1>12 DEF WalSafety

\* After an fsync, or a rotation, everything is synced.
LEMMA SyncIsSafe ==
  ASSUME WalInv, WalSafety, Sync
  PROVE  WalSafety'
<1>1. /\ files' = files /\ legacy' = legacy /\ ioFailed' = ioFailed /\ method' = "open" /\ method = "sync"
      /\ kept' = kept \cup inflight /\ synced' = [synced EXCEPT ![activeID] = Len(files[activeID])]
  BY DEF Sync
<1>2. /\ \A i \in DOMAIN files : i \in Nat /\ i <= activeID /\ Len(files[i]) \in Nat
      /\ activeID \in DOMAIN files /\ DOMAIN synced = DOMAIN files /\ ~Closed
  BY <1>1 DEF WalInv, WalShape, ActiveIsNewest, Files, Closed
<1>3. \A i \in DOMAIN files : synced'[i] = Len(files[i])
  <2> SUFFICES ASSUME NEW i \in DOMAIN files, i # activeID
               PROVE  synced'[i] = Len(files[i])
    BY <1>1, <1>2
  <2>1. i < activeID /\ synced'[i] = synced[i]
    BY <1>1, <1>2
  <2> QED
    BY <1>2, <2>1 DEF WalSafety, TailUnsynced
<1>4. TailUnsynced'
  BY <1>1, <1>3 DEF TailUnsynced
<1>5. KeptAreSynced'
  BY <1>1, <1>2, <1>3 DEF KeptAreSynced
<1>6. ~ioFailed => TornAtTheEnd' /\ KeptAreHeld'
  BY <1>1, <1>2 DEF WalSafety, TornAtTheEnd, KeptAreHeld, InflightAreHeld, Removing, Closed
<1>7. InflightAreHeld' /\ RemovedAreOldest'
  BY <1>1 DEF InflightAreHeld, RemovedAreOldest, Removing
<1> QED
  BY <1>1, <1>4, <1>5, <1>6, <1>7 DEF WalSafety

LEMMA RotateIsSafe ==
  ASSUME WalInv, WalSafety, Rotate
  PROVE  WalSafety'
<1> DEFINE n == activeID + 1
           g == files'
<1>1. /\ method = "open" /\ method' = "open" /\ UNCHANGED <<legacy, kept, ioFailed>>
      /\ files' = With(files, n, << >>)
      /\ synced' = With([synced EXCEPT ![activeID] = Len(files[activeID])], n, 0)
  BY DEF Rotate
<1>2. /\ \A i \in DOMAIN files : i \in Nat /\ i <= activeID /\ Len(files[i]) \in Nat
      /\ activeID \in DOMAIN files /\ DOMAIN synced = DOMAIN files /\ ~Closed /\ activeID \in Nat
  BY <1>1 DEF WalInv, WalShape, ActiveIsNewest, Files, Closed
<1>3. n \notin DOMAIN files /\ \A i \in DOMAIN files : i < n
  BY <1>2
<1>4. /\ DOMAIN g = DOMAIN files \cup {n} /\ g[n] = << >>
      /\ \A i \in DOMAIN files : g[i] = files[i]
  BY <1>1, <1>3 DEF With
<1>5. synced'[n] = 0 /\ \A i \in DOMAIN files : synced'[i] = Len(files[i])
  <2>1. \A i \in DOMAIN files : i # activeID => synced[i] = Len(files[i])
    BY <1>2 DEF WalSafety, TailUnsynced
  <2> HIDE DEF n
  <2> QED
    BY <1>1, <1>2, <1>3, <2>1 DEF With
<1> HIDE DEF n, g
<1>6. Len(g[n]) = 0 /\ \A b \in 1..Len(g[n]) : FALSE
  BY <1>4
<1>7. TailUnsynced'
  <2>1. \A i \in DOMAIN g : synced'[i] = Len(g[i])
    BY <1>4, <1>5, <1>6
  <2> QED
    BY <2>1 DEF TailUnsynced, g
<1>8. ~ioFailed => TornAtTheEnd'
  <2>1. Whole(g[n])
    BY <1>6 DEF Whole
  <2>2. ~ioFailed => \A i \in DOMAIN g : Whole(g[i])
    BY <1>2, <1>4, <2>1 DEF WalSafety, TornAtTheEnd
  <2> QED
    BY <2>2 DEF TornAtTheEnd, g
<1>9. KeptAreSynced'
  <2>1. ASSUME NEW i \in DOMAIN g, NEW b \in 1..Len(g[i])
        PROVE  b <= synced'[i]
    BY <1>2, <1>4, <1>5, <1>6
  <2> QED
    BY <2>1 DEF KeptAreSynced, g
<1>10. ~ioFailed => KeptAreHeld'
  <2>1. ASSUME NEW k, Holds(files, k)
        PROVE  Holds(g, k)
    BY <1>4, <2>1 DEF Holds
  <2> QED
    BY <1>1, <2>1 DEF WalSafety, KeptAreHeld, Removing, g
<1>11. InflightAreHeld' /\ RemovedAreOldest'
  BY <1>1 DEF InflightAreHeld, RemovedAreOldest, Removing
<1> QED
  BY <1>1, <1>7, <1>8, <1>9, <1>10, <1>11 DEF WalSafety

\* Steps that change neither the files nor what is synced of them.
LEMMA QuietIsSafe ==
  ASSUME WalInv, WalSafety, \/ FsyncFails \/ RemoveOlderSegments \/ Truncate \/ RemoveDone
  PROVE  WalSafety'
<1>1. UNCHANGED <<files, synced, legacy>> /\ kept' \in SUBSET kept /\ ~Closed
  BY DEF FsyncFails, RemoveOlderSegments, Truncate, RemoveDone, StillIn, Closed
<1>2. TailUnsynced'
  BY <1>1 DEF WalSafety, TailUnsynced
<1>3. ~ioFailed => TornAtTheEnd' /\ KeptAreSynced'
  BY <1>1 DEF WalSafety, TornAtTheEnd, KeptAreSynced
<1>4. CASE FsyncFails
  <2>1. ioFailed' = TRUE
    BY <1>4 DEF FsyncFails
  <2> QED
    BY <1>2, <2>1 DEF WalSafety
<1>5. CASE RemoveOlderSegments \/ Truncate
  <2>1. /\ method = "open" /\ Removing' /\ method' # "sync"
        /\ kept' = kept /\ ioFailed' = ioFailed /\ ~Removing
    BY <1>5 DEF RemoveOlderSegments, Truncate, Removing
  <2>2. InflightAreHeld' /\ KeptAreHeld'
    BY <2>1 DEF InflightAreHeld, KeptAreHeld
  <2>3. ~ioFailed => RemovedAreOldest'
    <3>1. legacy = NoFile
      BY <1>1 DEF WalInv, WalShape, LegacyWaits
    <3>2. ~ioFailed => \A k \in kept : Holds(files, k)
      BY <2>1, <3>1 DEF WalSafety, KeptAreHeld
    <3> QED
      BY <1>1, <2>1, <3>2 DEF RemovedAreOldest
  <2> QED
    BY <1>2, <1>3, <2>1, <2>2, <2>3 DEF WalSafety
<1>6. CASE RemoveDone
  <2>1. method' = "open" /\ kept' = kept \cap Ids(Replay(files)) /\ ioFailed' = ioFailed
    BY <1>6 DEF RemoveDone, StillIn
  <2>2. InflightAreHeld' /\ RemovedAreOldest'
    BY <2>1 DEF InflightAreHeld, RemovedAreOldest, Removing
  <2>3. \A k \in kept' : Holds(files, k)
    BY <2>1, ReplayedAreHeld DEF WalInv, WalShape
  <2>4. KeptAreHeld'
    BY <1>1, <2>3 DEF KeptAreHeld
  <2> QED
    BY <1>2, <1>3, <2>1, <2>2, <2>4 DEF WalSafety
<1> QED
  BY <1>4, <1>5, <1>6

LEMMA RemoveIsSafe ==
  ASSUME WalInv, WalSafety, RemoveSegment
  PROVE  WalSafety'
<1> DEFINE h == NextRemoved
           g == files'
<1>1. /\ g = Without(files, h) /\ synced' = Without(synced, h) /\ method \in {"remove", "truncate"}
      /\ UNCHANGED <<legacy, method, kept, ioFailed>>
  BY DEF RemoveSegment
<1>2. h \in DOMAIN files /\ \A i \in DOMAIN files : i \in Nat /\ h <= i
  BY RemoveKeeps
<1>3. Files(files) /\ IdsOrdered(files) /\ DOMAIN synced = DOMAIN files /\ ~Closed
  BY <1>1 DEF WalInv, WalShape, WalOrder, Closed
<1>4. /\ Shrinks(files, g) /\ DOMAIN g = DOMAIN files \ {h}
      /\ \A i \in DOMAIN files : i # h => g[i] = files[i] /\ synced'[i] = synced[i]
  BY <1>1, <1>3, FileRemoved DEF Without
<1> HIDE DEF h, g
<1>5. TailUnsynced'
  BY <1>4 DEF WalSafety, TailUnsynced, g
<1>6. ~ioFailed => TornAtTheEnd' /\ KeptAreSynced'
  BY <1>1, <1>3, <1>4 DEF WalSafety, TornAtTheEnd, KeptAreSynced, g
<1>7. KeptAreHeld' /\ InflightAreHeld'
  BY <1>1 DEF KeptAreHeld, InflightAreHeld, Removing
<1>8. ASSUME ~ioFailed
      PROVE  RemovedAreOldest'
  <2> SUFFICES ASSUME NEW k \in kept, ~Holds(g, k),
                      NEW i \in DOMAIN g, NEW a \in 1..Len(g[i]), Valid(g[i], a)
               PROVE  k < g[i][a].id
    BY <1>1 DEF RemovedAreOldest, g
  <2>1. i \in DOMAIN files /\ i # h /\ g[i] = files[i] /\ a \in 1..Len(files[i]) /\ Valid(files[i], a)
    BY <1>4
  <2>2. CASE ~Holds(files, k)
    <3>1. Removing
      BY <1>1 DEF Removing
    <3> QED
      BY <1>8, <2>1, <2>2, <3>1 DEF WalSafety, RemovedAreOldest
  <2>3. CASE Holds(files, k)
    <3>1. PICK j \in DOMAIN files : \E b \in 1..Len(files[j]) : Valid(files[j], b) /\ files[j][b].id = k
      BY <2>3 DEF Holds
    <3>2. PICK b \in 1..Len(files[j]) : Valid(files[j], b) /\ files[j][b].id = k
      BY <3>1
    <3>3. j = h
      BY <1>4, <3>2 DEF Holds
    <3>4. Precedes(j, b, i, a)
      BY <1>2, <2>1, <3>3 DEF Precedes
    <3>5. files[j][b].id < files[i][a].id
      BY <1>3, <2>1, <3>2, <3>4 DEF IdsOrdered
    <3> QED
      BY <2>1, <3>2, <3>5
  <2> QED
    BY <2>2, <2>3
<1> QED
  BY <1>1, <1>5, <1>6, <1>7, <1>8 DEF WalSafety

LEMMA TruncateDoneIsSafe ==
  ASSUME WalInv, WalSafety, TruncateDone
  PROVE  WalSafety'
<1>1. /\ files' = [i \in {1} |-> << >>] /\ kept' = {} /\ method' = "open" /\ ioFailed' = ioFailed
  BY DEF TruncateDone
<1>2. DOMAIN files' = {1} /\ \A i \in DOMAIN files' : files'[i] = << >> /\ Whole(files'[i])
  <2>1. Whole(<< >>)
    BY DEF Whole
  <2> QED
    BY <1>1, <2>1
<1>3. TailUnsynced' /\ TornAtTheEnd'
  BY <1>2 DEF TailUnsynced, TornAtTheEnd
<1>4. KeptAreSynced' /\ KeptAreHeld' /\ InflightAreHeld' /\ RemovedAreOldest'
  BY <1>1 DEF KeptAreSynced, KeptAreHeld, InflightAreHeld, RemovedAreOldest, Removing
<1> QED
  BY <1>3, <1>4 DEF WalSafety

LEMMA EndIsSafe ==
  ASSUME WalInv, WalSafety, CloseLog \/ CrashLog \/ KillLog
  PROVE  WalSafety'
<1>1. /\ Closed' /\ method' = "closed" /\ legacy = NoFile /\ DOMAIN files' = DOMAIN files
      /\ ioFailed' = ioFailed /\ kept' \in SUBSET kept /\ Survives(files')
      /\ CrashLog => \A i \in DOMAIN files' : synced'[i] = Len(files'[i])
  BY EndKeeps DEF Closed
<1>2. /\ activeID \in Nat /\ Files(files) /\ DOMAIN synced = DOMAIN files /\ ~Closed
      /\ \A i \in DOMAIN files : i \in Nat /\ i <= activeID /\ Len(files[i]) \in Nat
  BY DEF CloseLog, CrashLog, KillLog, WalInv, WalShape, ActiveIsNewest, Closed, Files
<1>3. ~CrashLog => /\ files' = files
                   /\ synced' = synced \/ synced' = [synced EXCEPT ![activeID] = Len(files[activeID])]
  BY DEF CloseLog, KillLog
<1>4. \A i, j \in DOMAIN files : i < j => synced[i] = Len(files[i]) /\ files'[i] = files[i]
  BY <1>1 DEF WalSafety, TailUnsynced, Survives
<1>5. TailUnsynced'
  <2>1. CASE CrashLog
    BY <1>1, <2>1 DEF TailUnsynced
  <2>2. CASE ~CrashLog
    <3>1. \A i, j \in DOMAIN files : i < j => i # activeID
      BY <1>2
    <3> QED
      BY <1>2, <1>3, <1>4, <2>2, <3>1 DEF TailUnsynced
  <2> QED
    BY <2>1, <2>2
<1>6. ~ioFailed => TornAtTheEnd'
  BY <1>1, <1>2, <1>4 DEF WalSafety, TornAtTheEnd
<1>7. ~ioFailed => KeptAreSynced'
  <2> SUFFICES ASSUME ~ioFailed, NEW i \in DOMAIN files', NEW a \in 1..Len(files'[i]),
                      Valid(files'[i], a), files'[i][a].id \in kept'
               PROVE  a <= synced'[i]
    BY DEF KeptAreSynced
  <2>1. files'[i] \in Seq(Entry) /\ Len(files'[i]) \in Nat
    BY <1>1 DEF Survives, Files
  <2>2. CASE CrashLog
    BY <1>1, <2>1, <2>2
  <2>3. CASE ~CrashLog
    <3>1. files' = files /\ a <= synced[i]
      BY <1>1, <1>3, <2>3 DEF WalSafety, KeptAreSynced
    <3> QED
      BY <1>2, <1>3, <2>1, <2>3, <3>1
  <2> QED
    BY <2>2, <2>3
<1>8. ASSUME ~ioFailed, NEW k \in kept'
      PROVE  Holds(files', k)
  <2>1. KeptAreSynced
    BY <1>8 DEF WalSafety
  <2>2. Holds(files, k)
    <3>1. CASE Removing
      <4>1. kept' = StillIn(Durable, kept)
        BY <3>1 DEF CloseLog, CrashLog, KillLog, Removing
      <4>2. k \in Ids(Replay(Durable)) /\ Files(Durable) /\ Shrinks(files, Durable)
        BY <1>8, <4>1, CrashesSurvive DEF StillIn, Survives
      <4>3. Holds(Durable, k)
        BY <4>2, ReplayedAreHeld
      <4> QED
        BY <4>2, <4>3, HeldBefore
    <3>2. CASE ~Removing
      BY <1>1, <1>8, <3>2 DEF WalSafety, KeptAreHeld
    <3> QED
      BY <3>1, <3>2
  <2> QED
    BY <1>1, <1>8, <2>1, <2>2, SyncedAreHeld
<1>9. ~ioFailed => KeptAreHeld'
  BY <1>8 DEF KeptAreHeld
<1>10. InflightAreHeld' /\ RemovedAreOldest'
  BY <1>1 DEF InflightAreHeld, RemovedAreOldest, Removing
<1> QED
  BY <1>1, <1>5, <1>6, <1>7, <1>9, <1>10 DEF WalSafety

\* What is on the disk keeps every acknowledged record, or the newest of them.
LEMMA WalSafetyInvariant == WalSpec => []WalSafety
<1>1. WalInit => WalSafety
  BY InitIsSafe
<1>2. WalInv /\ WalSafety /\ [WalNext]_walVars => WalSafety'
  <2> SUFFICES ASSUME WalInv, WalSafety, [WalNext]_walVars
               PROVE  WalSafety'
    OBVIOUS
  <2>1. CASE OpenLog
    BY <2>1, OpenIsSafe
  <2>2. CASE \/ Append1
             \/ \E n \in 1..MaxBatch : BatchAppend(n)
             \/ \E n \in 0..MaxBatch - 1 : AppendFails(n)
    BY <2>2, AppendIsSafe
  <2>3. CASE Sync
    BY <2>3, SyncIsSafe
  <2>4. CASE FsyncFails \/ RemoveOlderSegments \/ Truncate \/ RemoveDone
    BY <2>4, QuietIsSafe
  <2>5. CASE Rotate
    BY <2>5, RotateIsSafe
  <2>6. CASE RemoveSegment
    BY <2>6, RemoveIsSafe
  <2>7. CASE TruncateDone
    BY <2>7, TruncateDoneIsSafe
  <2>8. CASE CloseLog \/ CrashLog \/ KillLog
    BY <2>8, EndIsSafe
  <2>9. CASE UNCHANGED walVars
    BY <2>9 DEF walVars, WalSafety, TailUnsynced, TornAtTheEnd, KeptAreSynced, KeptAreHeld,
                InflightAreHeld, RemovedAreOldest, Removing, Closed
  <2> QED
    BY <2>1, <2>2, <2>3, <2>4, <2>5, <2>6, <2>7, <2>8, <2>9 DEF WalNext
<1> QED
  BY <1>1, <1>2, WalInvariant, PTL DEF WalSpec

\* Whatever the moment of a crash, a replay yields every record whose append
\* returned and that no checkpoint gave up, each once and in order, unless a
\* write or an fsync has failed.
THEOREM AcknowledgedIsReplayed == WalSpec => []AckedReplayed
<1>1. WalInv /\ WalSafety => AckedReplayed
  <2> SUFFICES ASSUME WalInv, WalSafety, ~ioFailed, ~Removing
               PROVE  kept \subseteq Ids(Replay(OnDisk)) /\ Ascending(Replay(OnDisk))
    BY DEF AckedReplayed, Removing
  <2>1. CASE legacy = NoFile
    <3>1. OnDisk = Durable /\ Survives(Durable) /\ KeptAreSynced
      BY <2>1, CrashesSurvive DEF OnDisk, WalSafety
    <3>2. Files(Durable) /\ IdsOrdered(Durable)
      BY <3>1, ShrinkKeepsOrder DEF Survives, WalInv, WalOrder
    <3>3. ASSUME NEW k \in kept
          PROVE  k \in Ids(Replay(Durable))
      <4>1. Holds(files, k)
        BY <2>1 DEF WalSafety, KeptAreHeld
      <4>2. Holds(Durable, k)
        BY <3>1, <4>1, SyncedAreHeld
      <4> QED
        BY <3>2, <4>2, ReplayedAreHeld
    <3> QED
      BY <3>1, <3>2, <3>3, OrderOfReplay
  <2>2. CASE legacy # NoFile
    <3>1. /\ Closed /\ OnDisk = Discovered /\ Discovered = With(<< >>, 1, OldLog)
      BY <2>2 DEF OnDisk, Discovered, WalInv, WalShape, LegacyWaits
    <3>2. Opened = OnDisk
      BY <3>1, OldLogIsOrdered DEF Opened
    <3>3. Files(Opened) /\ IdsOrdered(Opened) /\ \A k \in kept : Holds(Opened, k)
      BY <3>1, OpenedIsOrdered, OpenedIsSafe DEF WalInv
    <3> QED
      BY <3>2, <3>3, OrderOfReplay, ReplayedAreHeld
  <2> QED
    BY <2>1, <2>2
<1> QED
  BY <1>1, WalInvariant, WalSafetyInvariant, PTL

\* While RemoveOlderSegments or Truncate deletes segments, what a crash would
\* leave to replay is the newest part of the log, in order.
THEOREM RemovalLeavesTheNewest == WalSpec => []RemovalKeepsNewest
<1>1. WalInv /\ WalSafety => RemovalKeepsNewest
  <2> SUFFICES ASSUME WalInv, WalSafety, ~ioFailed, Removing
               PROVE  /\ \A i, j \in kept : i < j /\ i \in Ids(Replay(OnDisk)) => j \in Ids(Replay(OnDisk))
                      /\ Ascending(Replay(OnDisk))
    BY DEF RemovalKeepsNewest, Removing
  <2>1. legacy = NoFile
    BY DEF WalInv, WalShape, LegacyWaits, Closed, Removing
  <2>2. OnDisk = Durable /\ Survives(Durable) /\ KeptAreSynced
    BY <2>1, CrashesSurvive DEF OnDisk, WalSafety
  <2>3. Files(Durable) /\ IdsOrdered(Durable)
    BY <2>2, ShrinkKeepsOrder DEF Survives, WalInv, WalOrder
  <2>4. ASSUME NEW i \in kept, NEW j \in kept, i < j, i \in Ids(Replay(Durable))
        PROVE  j \in Ids(Replay(Durable))
    <3>1. Holds(Durable, i)
      BY <2>3, <2>4, ReplayedAreHeld
    <3>2. Holds(files, i)
      BY <2>2, <3>1, HeldBefore DEF Survives
    <3>3. PICK n \in DOMAIN files : \E a \in 1..Len(files[n]) : Valid(files[n], a) /\ files[n][a].id = i
      BY <3>2 DEF Holds
    <3>4. PICK a \in 1..Len(files[n]) : Valid(files[n], a) /\ files[n][a].id = i
      BY <3>3
    <3>5. Holds(files, j)
      <4> SUFFICES ASSUME ~Holds(files, j)
                   PROVE  FALSE
        OBVIOUS
      <4>1. j < i
        BY <3>4 DEF WalSafety, RemovedAreOldest
      <4>2. i \in Nat /\ j \in Nat
        BY DEF WalInv, WalShape
      <4> QED
        BY <2>4, <4>1, <4>2
    <3>6. Holds(Durable, j)
      BY <2>2, <3>5, SyncedAreHeld
    <3> QED
      BY <2>3, <3>6, ReplayedAreHeld
  <2> QED
    BY <2>2, <2>3, <2>4, OrderOfReplay
<1> QED
  BY <1>1, WalInvariant, WalSafetyInvariant, PTL
=============================================================================
