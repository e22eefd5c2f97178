--------------------------- MODULE Collector_proofs --------------------------
(***************************************************************************)
(* Proofs about the observation collector and about walks over the links:  *)
(* for any handlers, sessions, calls, responses and sizes of the queue and *)
(* of a batch, no call is lost unnoticed or written in part; for any links *)
(* and options, a walk returns the nodes that are reached.                 *)
(***************************************************************************)
EXTENDS Collector, EventStore_proofs

\* The records the collector makes, and the stores it fills with them.
CallRecs == {CallRecord(c, s, refs) : c \in Calls, s \in Sessions, refs \in Responses}
Recs == {SessionRecord(s) : s \in Sessions} \cup CallRecs
Stamps == [createdAt : {At}, lifecycle : {"Active"}, supersedes : Nat]
Logs == [chain : [Ids -> Seq(Stamps)], reverse : [Links -> Nat]]

\* The states of a transaction, and those it can come to from w.
Works == [store : Logs, seen : SUBSET Sessions, half : BOOLEAN, ok : BOOLEAN, puts : Nat, stops : SUBSET Nat]
Leads(w, v) ==
  /\ v \in Works /\ v.stops = w.stops /\ Grows(w.store, v.store)
  /\ w.stops = {} /\ w.ok => v.ok

-----------------------------------------------------------------------------
(* One transaction *)

LEMMA LeadsOn ==
  ASSUME NEW u, NEW v, NEW w, Leads(u, v), Leads(v, w)
  PROVE  Leads(u, w)
BY GrowsOn DEF Leads

LEMMA LeadsAt == ASSUME NEW w \in Works PROVE Leads(w, w)
BY DEF Leads, Grows

\* One record: what is there stays, and without an error the record is placed.
LEMMA AppendLeads ==
  ASSUME NEW w \in Works, NEW id \in Ids
  PROVE  /\ Leads(w, AppendInTx(w, id))
         /\ w.stops = {} /\ w.ok => Placed(AppendInTx(w, id).store, id)
<1> DEFINE n == PutsDone(w, id)
           t == appendInTx(w.store, id, At, "Active", n)
           r == stamp(w.store, id, At, "Active")
           ok == (n = PutsOf(id))
           half == (w.half \/ n \in 1..(PutsOf(id) - 1))
           v == IF ~w.ok THEN w
                ELSE [w EXCEPT !.store = t, !.puts = @ + n, !.ok = ok, !.half = half]
<1>1. AppendInTx(w, id) = v
  <2>1. {LET k == PutsDone(u, id)
         IN IF ~u.ok THEN u
            ELSE [u EXCEPT !.store = appendInTx(@, id, At, "Active", k),
                           !.puts = @ + k,
                           !.ok = (k = PutsOf(id)),
                           !.half = (@ \/ k \in 1..(PutsOf(id) - 1))] : u \in {w}} = {v}
    OBVIOUS
  <2> HIDE DEF v
  <2> QED
    BY <2>1 DEF AppendInTx, ValueOf
<1>2. /\ w.store \in Logs /\ w.half \in BOOLEAN /\ w.ok \in BOOLEAN /\ w.puts \in Nat
      /\ w.stops \in SUBSET Nat /\ StoreOf(w.store, Stamps)
  BY DEF Works, Logs, StoreOf
<1>3. n \in 0..PutsOf(id) /\ n \in Nat /\ (w.stops = {} => ok)
  BY <1>2 DEF PutsDone, PutsOf
<1>4. r \in Stamps
  BY <1>2 DEF stamp, latestVersion, Stamps, Logs
<1>5. StoreOf(t, Stamps) /\ Appended(w.store, t, id, r, n)
  BY <1>2, <1>3, <1>4, AppendIs
<1> HIDE DEF n, t, r
<1>6. t \in Logs /\ Grows(w.store, t) /\ (ok => Placed(t, id))
  <2>1. Grows(w.store, t) /\ (n = PutsOf(id) => Placed(t, id))
    BY <1>2, <1>3, <1>4, <1>5, AppendGrows
  <2> QED
    BY <1>5, <2>1 DEF Logs, StoreOf
<1>7. ok \in BOOLEAN /\ half \in BOOLEAN /\ w.puts + n \in Nat
  BY <1>2, <1>3
<1> HIDE DEF ok, half
<1>8. CASE ~w.ok
  <2>1. v = w
    BY <1>8
  <2> QED
    BY <1>1, <1>8, <2>1, LeadsAt
<1>9. CASE w.ok
  <2>1. v = [w EXCEPT !.store = t, !.puts = @ + n, !.ok = ok, !.half = half]
    BY <1>9
  <2> HIDE DEF v
  <2>2. v \in Works /\ v.store = t /\ v.stops = w.stops /\ v.ok = ok
    BY <1>6, <1>7, <2>1 DEF Works
  <2> QED
    BY <1>1, <1>3, <1>6, <2>2 DEF Leads
<1> QED
  BY <1>8, <1>9

\* The start of a session.
LEMMA SessionLeads ==
  ASSUME NEW w \in Works, NEW s \in Sessions
  PROVE  Leads(w, writeSession(w, s))
<1> DEFINE u == [w EXCEPT !.seen = @ \cup {s}]
<1>1. s \in Ids
  BY CollectorAssumption DEF Ids
<1>2. u \in Works /\ u.store = w.store /\ u.stops = w.stops /\ u.ok = w.ok
  BY DEF Works
<1> HIDE DEF u
<1>3. Leads(u, AppendInTx(u, s))
  BY <1>1, <1>2, AppendLeads
<1>4. Leads(w, AppendInTx(u, s))
  BY <1>2, <1>3 DEF Leads
<1> QED
  BY <1>4, LeadsAt DEF writeSession, u

\* What a call appends: a call with all of it placed is whole.
LEMMA IdsAreTheCall ==
  ASSUME NEW r \in CallRecs
  PROVE  /\ IdsOf(r) \in Seq(Ids)
         /\ \A s : (\A i \in 1..Len(IdsOf(r)) : Placed(s, IdsOf(r)[i])) => Whole(s, r)
<1>1. PICK c \in Calls, s \in Sessions, refs \in Responses : r = CallRecord(c, s, refs)
  BY DEF CallRecs
<1>2. r.call = c /\ r.session = s /\ r.served = refs /\ r.kind = "call"
  BY <1>1 DEF CallRecord
<1> DEFINE a == Edge(s, "contains", c)
           b == Edge(c, "belongs_to", s)
           e == [i \in DOMAIN refs |-> Edge(c, "served", refs[i])]
           ids == <<c, a, b>> \o e
<1>3. /\ c \in Ids /\ a \in Links /\ b \in Links /\ a \in Ids /\ b \in Ids
      /\ refs \in Seq(Nodes) /\ \A i \in DOMAIN refs : Edge(c, "served", refs[i]) \in Links
  BY CollectorAssumption DEF Ids
<1>4. Len(refs) \in Nat /\ DOMAIN refs = 1..Len(refs)
  BY <1>3
<1>5. e \in Seq(Links) /\ Len(e) = Len(refs) /\ DOMAIN e = DOMAIN refs /\ \A i \in DOMAIN refs : e[i] = Edge(c, "served", refs[i])
  BY <1>3, <1>4
<1> HIDE DEF a, b, e
<1>6. e \in Seq(Ids) /\ <<c, a, b>> \in Seq(Ids)
  BY <1>3, <1>5 DEF Ids
<1>7. /\ ids \in Seq(Ids) /\ Len(ids) = 3 + Len(e)
      /\ ids[1] = c /\ ids[2] = a /\ ids[3] = b /\ \A i \in 1..Len(e) : ids[3 + i] = e[i]
  BY <1>6
<1>8. IdsOf(r) = ids
  BY <1>2 DEF IdsOf, a, b, e
<1> HIDE DEF ids
<1>9. ASSUME NEW t, \A i \in 1..Len(ids) : Placed(t, ids[i]) PROVE Whole(t, r)
  <2>1. Placed(t, c) /\ Placed(t, a) /\ Placed(t, b)
    BY <1>4, <1>5, <1>7, <1>9
  <2>2. \A i \in DOMAIN refs : Placed(t, Edge(c, "served", refs[i]))
    <3> TAKE i \in DOMAIN refs
    <3>1. i \in 1..Len(e) /\ 3 + i \in 1..Len(ids)
      BY <1>4, <1>5, <1>7
    <3> QED
      BY <1>5, <1>7, <1>9, <3>1
  <2>3. \A l \in {a, b} \cup {Edge(c, "served", refs[i]) : i \in DOMAIN refs} :
           t.chain[l] # << >> /\ t.reverse[l] # NoVersion
    BY <1>3, <2>1, <2>2 DEF Placed
  <2> QED
    BY <1>2, <2>1, <2>3 DEF Whole, Placed, a, b
<1> QED
  BY <1>7, <1>8, <1>9

\* A whole call, wherever its Puts end.
CallSoFar(w, ids, v, n) ==
  /\ Leads(w, v)
  /\ w.stops = {} /\ w.ok => \A i \in 1..n : Placed(v.store, ids[i])
LEMMA CallLeads ==
  ASSUME NEW w \in Works, NEW r \in CallRecs
  PROVE  /\ Leads(w, writeCall(w, r))
         /\ w.stops = {} /\ w.ok => Whole(writeCall(w, r).store, r)
<1> DEFINE ids == IdsOf(r)
           m == Len(ids)
           start == writeSession(w, r.session)
           step == [p \in Works \X (1..m) |-> AppendInTx(p[1], ids[p[2]])]
           X == [n \in 0..m |-> {v \in Works : CallSoFar(w, ids, v, n)}]
           Is(f) == f = [n \in 0..m |-> IF n = 0 THEN start ELSE AppendInTx(f[n - 1], ids[n])]
           after == CHOOSE f : Is(f)
<1>1. ids \in Seq(Ids) /\ m \in Nat /\ \A i \in 1..m : ids[i] \in Ids
  BY IdsAreTheCall
<1>2. r.session \in Sessions
  BY DEF CallRecs, CallRecord
<1>3. start \in Works /\ CallSoFar(w, ids, start, 0)
  BY <1>2, SessionLeads DEF CallSoFar, Leads
<1>4. \A n \in 0..m : \A v : v \in X[n] <=> v \in Works /\ CallSoFar(w, ids, v, n)
  OBVIOUS
<1>5. \A n \in 1..m : \A v \in Works : step[<<v, n>>] = AppendInTx(v, ids[n])
  OBVIOUS
<1>6. writeCall(w, r) = after[m]
  BY DEF writeCall
<1> HIDE DEF start, step, X, ids, m
<1>7. start \in X[0]
  BY <1>1, <1>3, <1>4
<1>8. ASSUME NEW n \in 1..m, NEW v \in Works, CallSoFar(w, ids, v, n - 1)
      PROVE  AppendInTx(v, ids[n]) \in Works /\ CallSoFar(w, ids, AppendInTx(v, ids[n]), n)
  <2> DEFINE u == AppendInTx(v, ids[n])
  <2>1. Leads(v, u) /\ (v.stops = {} /\ v.ok => Placed(u.store, ids[n]))
    BY <1>1, AppendLeads
  <2> HIDE DEF u
  <2>2. Leads(w, v) /\ v.stops = w.stops
    BY <1>8 DEF CallSoFar, Leads
  <2>3. Leads(w, u) /\ u \in Works
    BY <2>1, <2>2, LeadsOn DEF Leads
  <2>4. ASSUME w.stops = {}, w.ok, NEW i \in 1..n PROVE Placed(u.store, ids[i])
    <3>1. v.ok /\ v.stops = {}
      BY <2>2, <2>4 DEF Leads
    <3>2. CASE i = n
      BY <2>1, <3>1, <3>2
    <3>3. CASE i # n
      <4>1. i \in 1..(n - 1) /\ i \in 1..m
        BY <1>1, <3>3
      <4>2. Placed(v.store, ids[i]) /\ ids[i] \in Ids /\ Grows(v.store, u.store)
        BY <1>1, <1>8, <2>1, <2>4, <4>1 DEF CallSoFar, Leads
      <4> QED
        BY <4>2 DEF Grows, Placed
    <3> QED
      BY <3>2, <3>3
  <2>5. CallSoFar(w, ids, u, n)
    BY <2>3, <2>4 DEF CallSoFar
  <2> QED
    BY <2>3, <2>5 DEF u
<1>9. ASSUME NEW n \in 1..m, NEW v \in X[n - 1] PROVE step[<<v, n>>] \in X[n]
  <2>1. n - 1 \in 0..m /\ n \in 0..m
    BY <1>1
  <2>2. v \in Works /\ CallSoFar(w, ids, v, n - 1)
    BY <1>4, <2>1
  <2> QED
    BY <1>4, <1>5, <1>8, <2>1, <2>2
<1>10. PICK g : Folds(g, m, start, step, X)
  BY <1>1, <1>7, <1>9, FoldExists
<1>11. Is(g)
  <2>1. ASSUME NEW n \in 0..m
        PROVE  g[n] = IF n = 0 THEN start ELSE AppendInTx(g[n - 1], ids[n])
    <3>1. g[n] = IF n = 0 THEN start ELSE step[<<g[n - 1], n>>]
      BY <1>10 DEF Folds
    <3>2. n # 0 => n \in 1..m /\ n - 1 \in 0..m
      BY <1>1
    <3>3. n # 0 => g[n - 1] \in Works
      BY <1>4, <1>10, <3>2 DEF Folds
    <3> QED
      BY <1>5, <3>1, <3>2, <3>3
  <2>2. g = [n \in 0..m |-> g[n]]
    BY <1>10 DEF Folds
  <2> QED
    BY <2>1, <2>2
<1>12. Is(after)
  BY <1>11
<1> HIDE DEF after
<1>13. \A n \in 0..m : after[n] = IF n = 0 THEN start ELSE AppendInTx(after[n - 1], ids[n])
  BY <1>12
<1> DEFINE T == {n \in 0..m : after[n] \in Works /\ CallSoFar(w, ids, after[n], n)}
<1>14. 0 \in T
  BY <1>1, <1>3, <1>13
<1>15. ASSUME NEW n \in 1..m, n - 1 \in T PROVE n \in T
  <2>1. n \in 0..m /\ n # 0
    BY <1>1
  <2> QED
    BY <1>8, <1>13, <1>15, <2>1
<1> HIDE DEF T
<1>16. m \in T
  <2>1. m \in Nat
    BY <1>1
  <2> QED
    BY <2>1, <1>14, <1>15, AllReached
<1>17. CallSoFar(w, ids, writeCall(w, r), m)
  BY <1>6, <1>16 DEF T
<1> QED
  BY <1>17, IdsAreTheCall DEF CallSoFar, ids, m

LEMMA RecordLeads ==
  ASSUME NEW w \in Works, NEW r \in Recs
  PROVE  /\ Leads(w, writeRecord(w, r))
         /\ w.stops = {} /\ w.ok /\ r.kind = "call" => Whole(writeRecord(w, r).store, r)
<1>1. CASE r \in CallRecs
  <2>1. r.kind = "call"
    BY <1>1 DEF CallRecs, CallRecord
  <2> QED
    BY <1>1, <2>1, CallLeads DEF writeRecord
<1>2. CASE r \in {SessionRecord(s) : s \in Sessions}
  <2>1. r.kind = "session" /\ r.session \in Sessions
    BY <1>2 DEF SessionRecord
  <2> QED
    BY <2>1, SessionLeads DEF writeRecord
<1> QED
  BY <1>1, <1>2 DEF Recs

\* A call that is in a store whole stays so.
LEMMA WholeStays ==
  ASSUME NEW r \in CallRecs, NEW s, NEW t, Grows(s, t), Whole(s, r)
  PROVE  Whole(t, r)
<1>1. PICK c \in Calls, p \in Sessions, refs \in Responses : r = CallRecord(c, p, refs)
  BY DEF CallRecs
<1>2. r.call = c /\ r.session = p /\ r.served = refs
  BY <1>1 DEF CallRecord
<1>3. r.call \in Ids
  BY <1>2, CollectorAssumption DEF Ids
<1>4. \A l \in {Edge(p, "contains", c), Edge(c, "belongs_to", p)}
                 \cup {Edge(c, "served", refs[i]) : i \in DOMAIN refs} : l \in Links /\ l \in Ids
  BY CollectorAssumption DEF Ids
<1> QED
  BY <1>2, <1>3, <1>4 DEF Whole, Grows

\* A batch, wherever its Puts end: without an error all its calls are whole.
BatchSoFar(records, stops, v, n) ==
  /\ Leads(Begin(stops), v)
  /\ stops = {} => \A i \in 1..n : records[i].kind = "call" => Whole(v.store, records[i])
LEMMA BatchLeads ==
  ASSUME store \in Logs, seen \in SUBSET Sessions, halfWritten \in BOOLEAN,
         NEW records \in Seq(Recs), NEW stops \in SUBSET Nat
  PROVE  BatchSoFar(records, stops, Written_(records, stops), Len(records))
<1> DEFINE m == Len(records)
           start == Begin(stops)
           step == [p \in Works \X (1..m) |-> writeRecord(p[1], records[p[2]])]
           X == [n \in 0..m |-> {v \in Works : BatchSoFar(records, stops, v, n)}]
           Is(f) == f = [n \in 0..m |-> IF n = 0 THEN start ELSE writeRecord(f[n - 1], records[n])]
           after == CHOOSE f : Is(f)
<1>1. m \in Nat
  OBVIOUS
<1>2. start \in Works /\ start.stops = stops /\ start.ok = TRUE
  BY DEF Begin, Works
<1>3. BatchSoFar(records, stops, start, 0)
  <2>1. Leads(start, start)
    BY <1>2, LeadsAt
  <2> QED
    BY <2>1 DEF BatchSoFar
<1>4. \A n \in 0..m : \A v : v \in X[n] <=> v \in Works /\ BatchSoFar(records, stops, v, n)
  OBVIOUS
<1>5. \A n \in 1..m : \A v \in Works : step[<<v, n>>] = writeRecord(v, records[n])
  OBVIOUS
<1>6. Written_(records, stops) = after[m]
  BY DEF Written_
<1>7. \A i \in 1..m : records[i] \in Recs
  OBVIOUS
<1> HIDE DEF start, step, X, m
<1>8. start \in X[0]
  BY <1>1, <1>2, <1>3, <1>4
<1>9. ASSUME NEW n \in 1..m, NEW v \in Works, BatchSoFar(records, stops, v, n - 1)
      PROVE  writeRecord(v, records[n]) \in Works /\ BatchSoFar(records, stops, writeRecord(v, records[n]), n)
  <2> DEFINE u == writeRecord(v, records[n])
  <2>1. /\ Leads(v, u)
        /\ v.stops = {} /\ v.ok /\ records[n].kind = "call" => Whole(u.store, records[n])
    BY <1>7, RecordLeads
  <2> HIDE DEF u
  <2>2. Leads(start, v) /\ v.stops = stops /\ (stops = {} => v.ok)
    BY <1>2, <1>9 DEF BatchSoFar, Leads, start
  <2>3. Leads(start, u) /\ u \in Works
    BY <2>1, <2>2, LeadsOn DEF Leads
  <2>4. ASSUME stops = {}, NEW i \in 1..n, records[i].kind = "call" PROVE Whole(u.store, records[i])
    <3>1. CASE i = n
      BY <2>1, <2>2, <2>4, <3>1
    <3>2. CASE i # n
      <4>1. i \in 1..(n - 1) /\ i \in 1..m
        BY <1>1, <3>2
      <4>2. Whole(v.store, records[i]) /\ Grows(v.store, u.store)
        BY <1>9, <2>1, <2>4, <4>1 DEF BatchSoFar, Leads
      <4>3. records[i] \in CallRecs
        BY <1>7, <2>4, <4>1 DEF Recs, SessionRecord
      <4> QED
        BY <4>2, <4>3, WholeStays
    <3> QED
      BY <3>1, <3>2
  <2>5. BatchSoFar(records, stops, u, n)
    BY <2>3, <2>4 DEF BatchSoFar, start
  <2> QED
    BY <2>3, <2>5 DEF u
<1>10. ASSUME NEW n \in 1..m, NEW v \in X[n - 1] PROVE step[<<v, n>>] \in X[n]
  <2>1. n - 1 \in 0..m /\ n \in 0..m
    BY <1>1
  <2>2. v \in Works /\ BatchSoFar(records, stops, v, n - 1)
    BY <1>4, <2>1
  <2> QED
    BY <1>4, <1>5, <1>9, <2>1, <2>2
<1>11. PICK g : Folds(g, m, start, step, X)
  BY <1>1, <1>8, <1>10, FoldExists
<1>12. Is(g)
  <2>1. ASSUME NEW n \in 0..m
        PROVE  g[n] = IF n = 0 THEN start ELSE writeRecord(g[n - 1], records[n])
    <3>1. g[n] = IF n = 0 THEN start ELSE step[<<g[n - 1], n>>]
      BY <1>11 DEF Folds
    <3>2. n # 0 => n \in 1..m /\ n - 1 \in 0..m
      BY <1>1
    <3>3. n # 0 => g[n - 1] \in Works
      BY <1>4, <1>11, <3>2 DEF Folds
    <3> QED
      BY <1>5, <3>1, <3>2, <3>3
  <2>2. g = [n \in 0..m |-> g[n]]
    BY <1>11 DEF Folds
  <2> QED
    BY <2>1, <2>2
<1>13. Is(after)
  BY <1>12
<1> HIDE DEF after
<1>14. \A n \in 0..m : after[n] = IF n = 0 THEN start ELSE writeRecord(after[n - 1], records[n])
  BY <1>13
<1> DEFINE T == {n \in 0..m : after[n] \in Works /\ BatchSoFar(records, stops, after[n], n)}
<1>15. 0 \in T
  BY <1>1, <1>2, <1>3, <1>14
<1>16. ASSUME NEW n \in 1..m, n - 1 \in T PROVE n \in T
  <2>1. n \in 0..m /\ n # 0
    BY <1>1
  <2> QED
    BY <1>9, <1>14, <1>16, <2>1
<1> HIDE DEF T
<1>17. m \in T
  BY <1>1, <1>15, <1>16, AllReached
<1> QED
  BY <1>6, <1>17 DEF T, m

-----------------------------------------------------------------------------
(* The inductive invariant *)

CollectorTypes ==
  /\ store \in Logs /\ durable \in Logs /\ halfWritten \in BOOLEAN
  /\ seen \in SUBSET Sessions /\ noted \in SUBSET CallRecs
  /\ queue \in Seq(Recs) /\ batch \in Seq(Recs)
  /\ pc = [h \in Handlers |-> pc[h]]

\* A call is noted once, and what is on its way to the store is what was noted.
NotedOnce == \A m, n \in noted : m.call = n.call => m = n
Known(records) == \A i \in DOMAIN records : records[i].kind = "call" => records[i] \in noted
Sending == \A h \in Handlers : /\ pc[h].kind = "call" => pc[h] \in noted
                               /\ pc[h].kind = "starting" => pc[h].session \in Sessions

\* The loop returns when nothing is left.
NothingLeft == loop = "returned" => closed /\ queue = << >> /\ batch = << >>

CollectorInv ==
  /\ CollectorTypes /\ NotedOnce /\ Known(queue) /\ Known(batch) /\ Sending /\ NothingLeft
  /\ CallsAreWrittenWhole

\* Whole in memory and in the file.
Safe(n) == Whole(store, n) /\ Whole(durable, n)

LEMMA CallsInIs ==
  /\ \A records, c : c \in CallsIn(records) <=> \E i \in DOMAIN records : records[i].kind = "call" /\ records[i].call = c
  /\ CallsIn(<< >>) = {}
  /\ \A r : CallsIn(<<r>>) = IF r.kind = "call" THEN {r.call} ELSE {}
<1>1. \A records, c : c \in CallsIn(records) <=> \E i \in DOMAIN records : records[i].kind = "call" /\ records[i].call = c
  BY DEF CallsIn
<1>2. CallsIn(<< >>) = {}
  BY <1>1
<1>3. \A r : CallsIn(<<r>>) = IF r.kind = "call" THEN {r.call} ELSE {}
  <2> TAKE r
  <2> DEFINE s == <<r>>
  <2>1. DOMAIN s = {1} /\ s[1] = r
    OBVIOUS
  <2> HIDE DEF s
  <2>2. \A c : c \in CallsIn(s) <=> r.kind = "call" /\ r.call = c
    BY <1>1, <2>1
  <2>3. CallsIn(s) = IF r.kind = "call" THEN {r.call} ELSE {}
    BY <2>2
  <2> QED
    BY <2>3 DEF s
<1> QED
  BY <1>1, <1>2, <1>3

\* Records that are taken from one end of a queue or added to the other.
LEMMA CallsAreSplit ==
  /\ \A s \in Seq(Recs) : \A r : CallsIn(Append(s, r)) = CallsIn(s) \cup CallsIn(<<r>>)
  /\ \A s \in Seq(Recs) : s # << >> => CallsIn(s) = CallsIn(<<Head(s)>>) \cup CallsIn(Tail(s))
<1>1. ASSUME NEW s \in Seq(Recs), NEW r PROVE CallsIn(Append(s, r)) = CallsIn(s) \cup CallsIn(<<r>>)
  <2> DEFINE t == Append(s, r)
  <2>1. /\ Len(s) \in Nat /\ DOMAIN s = 1..Len(s) /\ DOMAIN t = 1..(Len(s) + 1)
        /\ t[Len(s) + 1] = r /\ \A i \in 1..Len(s) : t[i] = s[i]
    OBVIOUS
  <2> HIDE DEF t
  <2>2. \A i \in DOMAIN t : i \in DOMAIN s \/ i = Len(s) + 1
    BY <2>1
  <2>3. \A c : c \in CallsIn(t) <=> c \in CallsIn(s) \/ c \in CallsIn(<<r>>)
    <3> TAKE c
    <3>1. c \in CallsIn(t) <=> \E i \in DOMAIN t : t[i].kind = "call" /\ t[i].call = c
      BY CallsInIs
    <3>2. c \in CallsIn(s) <=> \E i \in DOMAIN s : s[i].kind = "call" /\ s[i].call = c
      BY CallsInIs
    <3>3. c \in CallsIn(<<r>>) <=> r.kind = "call" /\ r.call = c
      BY CallsInIs
    <3>4. Len(s) + 1 \in DOMAIN t /\ \A i \in DOMAIN s : i \in DOMAIN t /\ t[i] = s[i]
      BY <2>1
    <3> QED
      BY <2>1, <2>2, <3>1, <3>2, <3>3, <3>4
  <2> QED
    BY <2>3 DEF t
<1>2. ASSUME NEW s \in Seq(Recs), s # << >> PROVE CallsIn(s) = CallsIn(<<Head(s)>>) \cup CallsIn(Tail(s))
  <2> DEFINE t == Tail(s)
             r == Head(s)
  <2>1. /\ Len(s) \in Nat \ {0} /\ DOMAIN s = 1..Len(s) /\ DOMAIN t = 1..(Len(s) - 1)
        /\ s[1] = r /\ \A i \in 1..(Len(s) - 1) : t[i] = s[i + 1]
    BY <1>2
  <2> HIDE DEF t, r
  <2>2. /\ \A i \in DOMAIN s : i = 1 \/ (i - 1 \in DOMAIN t /\ t[i - 1] = s[i])
        /\ \A i \in DOMAIN t : i + 1 \in DOMAIN s /\ t[i] = s[i + 1]
        /\ 1 \in DOMAIN s
    BY <2>1
  <2>3. \A c : c \in CallsIn(s) <=> c \in CallsIn(t) \/ c \in CallsIn(<<r>>)
    <3> TAKE c
    <3>1. c \in CallsIn(t) <=> \E i \in DOMAIN t : t[i].kind = "call" /\ t[i].call = c
      BY CallsInIs
    <3>2. c \in CallsIn(s) <=> \E i \in DOMAIN s : s[i].kind = "call" /\ s[i].call = c
      BY CallsInIs
    <3>3. c \in CallsIn(<<r>>) <=> s[1].kind = "call" /\ s[1].call = c
      BY <2>1, CallsInIs
    <3>4. (\E i \in DOMAIN s : s[i].kind = "call" /\ s[i].call = c)
            <=> (s[1].kind = "call" /\ s[1].call = c) \/ \E i \in DOMAIN t : t[i].kind = "call" /\ t[i].call = c
      BY <2>2
    <3> QED
      BY <3>1, <3>2, <3>3, <3>4, Zenon
  <2> QED
    BY <2>3 DEF t, r
<1> QED
  BY <1>1, <1>2

\* What is on its way to the store.
OnTheWay(q, b, p) == CallsIn(q) \cup CallsIn(b) \cup UNION {CallsIn(<<p[h]>>) : h \in Handlers}
LEMMA OnTheWayIs ==
  \A q, b, p, c : c \in OnTheWay(q, b, p) <=>
      \/ c \in CallsIn(q) \/ c \in CallsIn(b)
      \/ \E h \in Handlers : p[h].kind = "call" /\ p[h].call = c
<1> TAKE q, b, p, c
<1>1. c \in OnTheWay(q, b, p) <=> c \in CallsIn(q) \/ c \in CallsIn(b) \/ \E h \in Handlers : c \in CallsIn(<<p[h]>>)
  BY DEF OnTheWay
<1>2. \A h : c \in CallsIn(<<p[h]>>) <=> p[h].kind = "call" /\ p[h].call = c
  BY CallsInIs
<1> QED
  BY <1>1, <1>2
LEMMA InFlightIs ==
  InFlight = OnTheWay(queue, batch, pc) /\ InFlight' = OnTheWay(queue', batch', pc')
BY DEF InFlight, OnTheWay

\* A step that only moves calls, loses them or writes them whole.
LEMMA StillWritten ==
  ASSUME CallsAreWrittenWhole, noted' = noted,
         \A n \in noted : Safe(n) => Safe(n)',
         \A n \in noted : n.call \in InFlight \cup lost => n.call \in (InFlight \cup lost)' \/ Safe(n)'
  PROVE  CallsAreWrittenWhole'
BY DEF CallsAreWrittenWhole, Safe

-----------------------------------------------------------------------------
(* Handlers *)

LEMMA CollectorStarts == CollectorInit => CollectorInv
<1> SUFFICES ASSUME CollectorInit PROVE CollectorInv
  OBVIOUS
<1>1. /\ store = EmptyStore /\ durable = EmptyStore /\ halfWritten = FALSE /\ seen = {} /\ noted = {}
      /\ queue = << >> /\ batch = << >> /\ loop = "running" /\ pc = [h \in Handlers |-> Idle]
  BY DEF CollectorInit, Init
<1>2. EmptyStore \in Logs
  BY DEF EmptyStore, Logs, NoVersion
<1>3. CollectorTypes
  <2>1. << >> \in Seq(Recs) /\ \A h \in Handlers : pc[h] = Idle
    BY <1>1
  <2>2. pc = [h \in Handlers |-> pc[h]]
    BY <1>1, <2>1
  <2> QED
    BY <1>1, <1>2, <2>1, <2>2 DEF CollectorTypes
<1>4. Sending
  BY <1>1 DEF Sending, Idle
<1> QED
  BY <1>1, <1>3, <1>4 DEF CollectorInv, NotedOnce, Known, NothingLeft, CallsAreWrittenWhole

\* What a step leaves to the flush loop.
LEMMA LoopStays ==
  ASSUME CollectorInv, UNCHANGED <<loopVars, closed, disabled>>, noted \in SUBSET noted'
  PROVE  /\ store' \in Logs /\ durable' \in Logs /\ halfWritten' \in BOOLEAN
         /\ seen' \in SUBSET Sessions /\ batch' \in Seq(Recs) /\ Known(batch)'
         /\ \A n : Safe(n)' <=> Safe(n)
BY DEF CollectorInv, CollectorTypes, Known, Safe, loopVars

LEMMA GetKeeps ==
  ASSUME CollectorInv, NEW h \in Handlers, NEW s \in Sessions, Get(h, s) PROVE CollectorInv'
<1>1. /\ pc[h] = Idle /\ UNCHANGED <<noted, loopVars, queue, closed, disabled, lost, failures>>
      /\ pc' = pc \/ pc' = [pc EXCEPT ![h] = Starting(s, replay(store, s))]
  BY DEF Get
<1>2. CollectorTypes /\ NotedOnce /\ Known(queue) /\ Sending /\ NothingLeft /\ CallsAreWrittenWhole
  BY DEF CollectorInv
<1> DEFINE p == Starting(s, replay(store, s))
<1>3. p.kind = "starting" /\ p.session = s /\ Idle.kind = "idle"
  BY DEF Starting, Idle
<1> HIDE DEF p
<1>4. /\ pc' = [g \in Handlers |-> pc'[g]]
      /\ \A g \in Handlers : pc'[g] = pc[g] \/ (g = h /\ pc'[g] = p)
  BY <1>1, <1>2 DEF CollectorTypes, p
<1>5. CollectorTypes' /\ Known(queue)' /\ Known(batch)' /\ \A n : Safe(n)' <=> Safe(n)
  BY <1>1, <1>2, <1>4, LoopStays DEF CollectorTypes, Known
<1>6. Sending'
  BY <1>1, <1>2, <1>3, <1>4 DEF Sending
<1>7. \A c : c \in InFlight => c \in InFlight'
  <2> TAKE c
  <2>1. \A g \in Handlers : pc[g].kind = "call" => pc'[g] = pc[g]
    BY <1>1, <1>3, <1>4
  <2>2. queue' = queue /\ batch' = batch
    BY <1>1 DEF loopVars
  <2> QED
    BY <2>1, <2>2, OnTheWayIs, InFlightIs
<1>8. CallsAreWrittenWhole'
  BY <1>1, <1>2, <1>5, <1>7, StillWritten
<1> QED
  BY <1>1, <1>2, <1>5, <1>6, <1>8 DEF CollectorInv, NotedOnce, NothingLeft, loopVars

LEMMA NoteCallKeeps ==
  ASSUME CollectorInv, NEW h \in Handlers, NEW s \in Sessions, NEW c \in Calls, NEW refs \in Responses,
         NoteCall(h, s, c, refs)
  PROVE  CollectorInv'
<1> DEFINE r == CallRecord(c, s, refs)
<1>1. /\ pc[h] = Idle /\ UNCHANGED <<loopVars, queue, closed, disabled, failures>>
      /\ c \notin {n.call : n \in noted} /\ noted' = noted \cup {r}
      /\ \/ pc' = [pc EXCEPT ![h] = r] /\ lost' = lost
         \/ pc' = pc /\ lost' = lost \cup {c}
  BY DEF NoteCall
<1>2. CollectorTypes /\ NotedOnce /\ Known(queue) /\ Sending /\ NothingLeft /\ CallsAreWrittenWhole
  BY DEF CollectorInv
<1>3. r \in CallRecs /\ r.kind = "call" /\ r.call = c /\ Idle.kind = "idle"
  BY DEF CallRecs, CallRecord, Idle
<1> HIDE DEF r
<1>4. /\ pc' = [g \in Handlers |-> pc'[g]]
      /\ \A g \in Handlers : pc'[g] = pc[g] \/ (g = h /\ pc'[g] = r)
      /\ c \in lost' \/ pc'[h] = r
      /\ \A d \in lost : d \in lost'
  BY <1>1, <1>2 DEF CollectorTypes
<1>5. CollectorTypes' /\ Known(queue)' /\ Known(batch)' /\ \A n : Safe(n)' <=> Safe(n)
  BY <1>1, <1>2, <1>3, <1>4, LoopStays DEF CollectorTypes, Known
<1>6. Sending'
  BY <1>1, <1>2, <1>3, <1>4 DEF Sending
<1>7. NotedOnce'
  BY <1>1, <1>2, <1>3 DEF NotedOnce
<1>8. c \in (InFlight \cup lost)' /\ \A d \in InFlight : d \in InFlight'
  <2>1. \A g \in Handlers : pc[g].kind = "call" => pc'[g] = pc[g]
    BY <1>1, <1>3, <1>4
  <2>2. queue' = queue /\ batch' = batch
    BY <1>1 DEF loopVars
  <2> QED
    BY <1>3, <1>4, <2>1, <2>2, OnTheWayIs, InFlightIs
<1>9. CallsAreWrittenWhole'
  <2> SUFFICES ASSUME NEW n \in noted', n.call \notin (InFlight \cup lost)' PROVE Safe(n)'
    BY DEF CallsAreWrittenWhole, Safe
  <2>1. n \in noted /\ n.call \notin InFlight \cup lost
    BY <1>1, <1>3, <1>4, <1>8
  <2> QED
    BY <1>2, <1>5, <2>1 DEF CallsAreWrittenWhole, Safe
<1> QED
  BY <1>1, <1>2, <1>5, <1>6, <1>7, <1>9 DEF CollectorInv, NothingLeft, loopVars

\* What a handler sends is in the queue, or given up.
LEMMA SendKeeps ==
  ASSUME CollectorInv, NEW h \in Handlers, NEW r \in Recs, SendRecord(h, r),
         r.kind = "call" => r \in noted, pc[h].kind = "call" => pc[h] = r
  PROVE  CollectorInv'
<1>1. /\ UNCHANGED <<noted, loopVars, closed, disabled, failures>>
      /\ pc' = [pc EXCEPT ![h] = IF closed THEN Panicked ELSE Idle]
      /\ \/ ~closed /\ queue' = Append(queue, r) /\ lost' = lost
         \/ queue' = queue /\ lost' = lost \cup CallsIn(<<r>>)
  BY DEF SendRecord
<1>2. CollectorTypes /\ NotedOnce /\ Known(queue) /\ Sending /\ NothingLeft /\ CallsAreWrittenWhole
  BY DEF CollectorInv
<1>3. Idle.kind = "idle" /\ Panicked.kind = "panicked"
  BY DEF Idle, Panicked
<1>4. /\ pc' = [g \in Handlers |-> pc'[g]]
      /\ \A g \in Handlers : pc'[g] = pc[g] \/ (g = h /\ pc'[g] \in {Idle, Panicked})
  BY <1>1, <1>2 DEF CollectorTypes
<1>5. queue' \in Seq(Recs)
  BY <1>1, <1>2 DEF CollectorTypes
<1>6. Known(queue)'
  <2>1. CASE queue' = queue
    BY <1>1, <1>2, <2>1 DEF Known
  <2>2. CASE queue' = Append(queue, r)
    <3> DEFINE t == Append(queue, r)
    <3>1. \A i \in DOMAIN t : (i \in DOMAIN queue /\ t[i] = queue[i]) \/ t[i] = r
      BY <1>2 DEF CollectorTypes
    <3> HIDE DEF t
    <3>2. Known(queue) /\ queue' = t /\ noted' = noted
      BY <1>1, <1>2, <2>2 DEF t
    <3> QED
      BY <3>1, <3>2 DEF Known
  <2> QED
    BY <1>1, <2>1, <2>2
<1>7. CollectorTypes' /\ Known(batch)' /\ \A n : Safe(n)' <=> Safe(n)
  BY <1>1, <1>2, <1>4, <1>5, LoopStays DEF CollectorTypes
<1>8. Sending'
  BY <1>1, <1>2, <1>3, <1>4 DEF Sending
<1>9. \A c \in InFlight \cup lost : c \in (InFlight \cup lost)'
  <2> TAKE c \in InFlight \cup lost
  <2>1. \/ CallsIn(queue') = CallsIn(queue) \cup CallsIn(<<r>>) /\ lost' = lost
        \/ queue' = queue /\ lost' = lost \cup CallsIn(<<r>>)
    <3>1. queue \in Seq(Recs)
      BY <1>2 DEF CollectorTypes
    <3>2. CallsIn(Append(queue, r)) = CallsIn(queue) \cup CallsIn(<<r>>)
      BY <3>1, CallsAreSplit
    <3> QED
      BY <1>1, <3>2
  <2>2. batch' = batch
    BY <1>1 DEF loopVars
  <2>3. CASE c \in lost
    BY <2>1, <2>3
  <2>4. CASE c \in CallsIn(queue) \/ c \in CallsIn(batch)
    BY <2>1, <2>2, <2>4, OnTheWayIs, InFlightIs
  <2>5. ASSUME NEW g \in Handlers, pc[g].kind = "call", pc[g].call = c PROVE c \in (InFlight \cup lost)'
    <3>1. CASE g = h
      <4>1. c \in CallsIn(<<r>>)
        BY <2>5, <3>1, CallsInIs
      <4> QED
        BY <2>1, <4>1, OnTheWayIs, InFlightIs
    <3>2. CASE g # h
      <4>1. pc'[g] = pc[g]
        BY <1>4, <3>2
      <4> QED
        BY <2>5, <4>1, OnTheWayIs, InFlightIs
    <3> QED
      BY <3>1, <3>2
  <2> QED
    BY <2>3, <2>4, <2>5, OnTheWayIs, InFlightIs
<1>10. CallsAreWrittenWhole'
  BY <1>1, <1>2, <1>7, <1>9, StillWritten
<1>11. NothingLeft'
  BY <1>1, <1>2 DEF NothingLeft, loopVars
<1> QED
  BY <1>1, <1>2, <1>6, <1>7, <1>8, <1>10, <1>11 DEF CollectorInv, NotedOnce

LEMMA SendStartKeeps ==
  ASSUME CollectorInv, NEW h \in Handlers, SendStart(h) PROVE CollectorInv'
<1>1. pc[h].kind = "starting" /\ SendRecord(h, SessionRecord(pc[h].session)) /\ pc[h].session \in Sessions
  BY DEF SendStart, CollectorInv, Sending
<1>2. PICK s \in Sessions : s = pc[h].session
  BY <1>1
<1> DEFINE r == SessionRecord(s)
<1>3. r \in Recs /\ r.kind = "session" /\ SendRecord(h, r)
  BY <1>1, <1>2 DEF Recs, SessionRecord
<1> HIDE DEF r
<1> QED
  BY <1>1, <1>3, SendKeeps

LEMMA SendCallKeeps ==
  ASSUME CollectorInv, NEW h \in Handlers, SendCall(h) PROVE CollectorInv'
<1>1. pc[h].kind = "call" /\ SendRecord(h, pc[h]) /\ pc[h] \in noted
  BY DEF SendCall, CollectorInv, Sending
<1>2. PICK r \in noted : r = pc[h]
  BY <1>1
<1>3. r \in Recs /\ SendRecord(h, r)
  BY <1>1, <1>2 DEF CollectorInv, CollectorTypes, Recs
<1> QED
  BY <1>2, <1>3, SendKeeps

\* SetEnabled and Close move no record.
LEMMA SwitchKeeps ==
  ASSUME CollectorInv, UNCHANGED <<pc, noted, loopVars, queue, lost>>, closed => closed' PROVE CollectorInv'
<1>1. /\ store' = store /\ halfWritten' = halfWritten /\ durable' = durable /\ batch' = batch
      /\ loop' = loop /\ seen' = seen /\ pc' = pc /\ noted' = noted /\ queue' = queue /\ lost' = lost
  BY DEF loopVars
<1>2. CollectorTypes' /\ NotedOnce' /\ Known(queue)' /\ Known(batch)' /\ Sending' /\ NothingLeft'
  BY <1>1 DEF CollectorInv, CollectorTypes, NotedOnce, Known, Sending, NothingLeft
<1>3. CallsAreWrittenWhole'
  BY <1>1 DEF CollectorInv, CallsAreWrittenWhole, InFlight
<1> QED
  BY <1>2, <1>3 DEF CollectorInv

-----------------------------------------------------------------------------
(* The flush loop *)

\* A batch is written whole or its calls are given up; what was whole stays so.
Settled(records) ==
  /\ store' \in Logs /\ durable' \in Logs /\ halfWritten' \in BOOLEAN /\ seen' \in SUBSET Sessions
  /\ \A c \in lost : c \in lost'
  /\ \A n \in noted : Safe(n) => Safe(n)'
  /\ \A n \in noted : n.call \in CallsIn(records) => n.call \in lost' \/ Safe(n)'
LEMMA WriteSettles ==
  ASSUME CollectorInv, UNCHANGED noted, NEW records \in Seq(Recs), Known(records), writeBatch(records)
  PROVE  Settled(records)
<1>1. CollectorTypes /\ NotedOnce /\ (\A n \in noted : n \in CallRecs)
  BY DEF CollectorInv, CollectorTypes
<1>2. ASSUME NEW n \in noted, n.call \in CallsIn(records)
      PROVE  \E i \in 1..Len(records) : records[i] = n /\ records[i].kind = "call"
  <2>1. PICK i \in DOMAIN records : records[i].kind = "call" /\ records[i].call = n.call
    BY <1>2, CallsInIs
  <2>2. records[i] \in noted /\ i \in 1..Len(records)
    BY <2>1 DEF Known
  <2> QED
    BY <1>1, <2>1, <2>2 DEF NotedOnce
\* The collector is disabled, or the transaction does not begin.
<1>3. ASSUME UNCHANGED <<store, halfWritten, durable, seen>>, lost' = lost \cup CallsIn(records)
      PROVE  Settled(records)
  BY <1>1, <1>3 DEF CollectorTypes, Safe, Settled
\* It does, and ends in w.
<1>4. ASSUME NEW stops \in SUBSET Nat, NEW w, w = Written_(records, stops)
      PROVE  /\ w \in Works /\ Grows(store, w.store)
             /\ stops = {} => \A i \in 1..Len(records) : records[i].kind = "call" => Whole(w.store, records[i])
  <2>1. BatchSoFar(records, stops, w, Len(records))
    BY <1>1, <1>4, BatchLeads DEF CollectorTypes
  <2>2. Begin(stops).store = store
    BY DEF Begin
  <2> QED
    BY <2>1, <2>2 DEF BatchSoFar, Leads
<1>5. ASSUME lost' = lost,
             \E w \in {Written_(records, {})} :
                store' = w.store /\ seen' = w.seen /\ durable' = w.store /\ halfWritten' = w.half
      PROVE  Settled(records)
  <2>1. PICK w : /\ w = Written_(records, {})
                 /\ store' = w.store /\ seen' = w.seen /\ durable' = w.store /\ halfWritten' = w.half
    BY <1>5
  <2>2. /\ w \in Works /\ Grows(store, w.store)
        /\ \A i \in 1..Len(records) : records[i].kind = "call" => Whole(w.store, records[i])
    BY <1>4, <2>1
  <2>3. store' \in Logs /\ durable' \in Logs /\ halfWritten' \in BOOLEAN /\ seen' \in SUBSET Sessions
    BY <2>1, <2>2 DEF Works
  <2>4. \A n \in noted : Safe(n) => Safe(n)'
    BY <1>1, <2>1, <2>2, WholeStays DEF Safe
  <2>5. \A n \in noted : n.call \in CallsIn(records) => Safe(n)'
    BY <1>2, <2>1, <2>2 DEF Safe
  <2> QED
    BY <1>5, <2>3, <2>4, <2>5 DEF Settled
<1>6. ASSUME lost' = lost \cup CallsIn(records), durable' = durable,
             \E w \in {Written_(records, {puts}) : puts \in 0..PutsNeeded(records)} :
                store' = w.store /\ seen' = w.seen /\ halfWritten' = w.half
      PROVE  Settled(records)
  <2>1. PICK puts \in 0..PutsNeeded(records) :
            \E w : w = Written_(records, {puts}) /\ store' = w.store /\ seen' = w.seen /\ halfWritten' = w.half
    BY <1>6
  <2> DEFINE w == Written_(records, {puts})
  <2>2. store' = w.store /\ seen' = w.seen /\ halfWritten' = w.half
    BY <2>1
  <2>3. {puts} \in SUBSET Nat
    OBVIOUS
  <2>4. w \in Works /\ Grows(store, w.store)
    BY <1>4, <2>3
  <2> HIDE DEF w
  <2>5. store' \in Logs /\ durable' \in Logs /\ halfWritten' \in BOOLEAN /\ seen' \in SUBSET Sessions
    BY <1>1, <1>6, <2>2, <2>4 DEF Works, CollectorTypes
  <2>6. \A n \in noted : Safe(n) => Safe(n)'
    BY <1>1, <1>6, <2>2, <2>4, WholeStays DEF Safe
  <2> QED
    BY <1>6, <2>5, <2>6 DEF Settled
<1> QED
  BY <1>3, <1>5, <1>6 DEF writeBatch

\* A step that settles some records and keeps the others.
LEMMA FlushKeeps ==
  ASSUME CollectorInv, UNCHANGED handlerVars, NEW records \in Seq(Recs), Settled(records),
         queue' \in Seq(Recs), batch' \in Seq(Recs), Known(queue)', Known(batch)', NothingLeft',
         \A c : c \in CallsIn(queue) \/ c \in CallsIn(batch) =>
                  c \in CallsIn(queue') \/ c \in CallsIn(batch') \/ c \in CallsIn(records)
  PROVE  CollectorInv'
<1>1. CollectorTypes /\ NotedOnce /\ Sending /\ CallsAreWrittenWhole /\ noted' = noted /\ pc' = pc
  BY DEF CollectorInv, handlerVars
<1>2. CollectorTypes' /\ NotedOnce' /\ Sending'
  BY <1>1 DEF CollectorTypes, NotedOnce, Sending, Settled
<1>3. ASSUME NEW n \in noted, n.call \in InFlight \cup lost
      PROVE  n.call \in (InFlight \cup lost)' \/ Safe(n)'
  <2>1. CASE n.call \in lost
    BY <2>1 DEF Settled
  <2>2. CASE n.call \in CallsIn(queue) \/ n.call \in CallsIn(batch)
    <3>1. CASE n.call \in CallsIn(records)
      BY <3>1 DEF Settled
    <3>2. CASE n.call \in CallsIn(queue') \/ n.call \in CallsIn(batch')
      BY <3>2, OnTheWayIs, InFlightIs
    <3> QED
      BY <2>2, <3>1, <3>2
  <2>3. CASE \E h \in Handlers : pc[h].kind = "call" /\ pc[h].call = n.call
    BY <1>1, <2>3, OnTheWayIs, InFlightIs
  <2> QED
    BY <1>3, <2>1, <2>2, <2>3, OnTheWayIs, InFlightIs
<1>4. CallsAreWrittenWhole'
  BY <1>1, <1>3, StillWritten DEF Settled
<1> QED
  BY <1>2, <1>4 DEF CollectorInv

LEMMA NothingSettled ==
  ASSUME CollectorInv, UNCHANGED <<noted, store, halfWritten, durable, seen, lost>> PROVE Settled(<< >>)
BY CallsInIs DEF Settled, CollectorInv, CollectorTypes, Safe

LEMMA ReceiveKeeps == ASSUME CollectorInv, Receive PROVE CollectorInv'
<1> DEFINE r == Head(queue)
           records == Append(batch, r)
<1>1. /\ loop = "running" /\ queue # << >> /\ queue' = Tail(queue)
      /\ UNCHANGED <<handlerVars, loop, closed, disabled>>
      /\ \/ batch' = << >> /\ writeBatch(records)
         \/ batch' = records /\ UNCHANGED <<store, halfWritten, durable, seen, lost, failures>>
  BY DEF Receive
<1>2. /\ queue \in Seq(Recs) /\ batch \in Seq(Recs) /\ Known(queue) /\ Known(batch)
      /\ noted' = noted
  BY <1>1 DEF CollectorInv, CollectorTypes, handlerVars
<1>3. /\ r \in Recs /\ records \in Seq(Recs) /\ Tail(queue) \in Seq(Recs) /\ << >> \in Seq(Recs)
      /\ \A i \in DOMAIN records : (i \in DOMAIN batch /\ records[i] = batch[i]) \/ records[i] = r
  BY <1>1, <1>2
<1>4. /\ CallsIn(queue) = CallsIn(<<r>>) \cup CallsIn(Tail(queue))
      /\ CallsIn(records) = CallsIn(batch) \cup CallsIn(<<r>>)
  BY <1>1, <1>2, CallsAreSplit
<1>5. (r.kind = "call" => r \in noted) /\ \A i \in DOMAIN Tail(queue) : \E j \in DOMAIN queue : Tail(queue)[i] = queue[j]
  <2>1. 1 \in DOMAIN queue /\ r = queue[1] /\ \A i \in DOMAIN Tail(queue) : i + 1 \in DOMAIN queue /\ Tail(queue)[i] = queue[i + 1]
    BY <1>1, <1>2
  <2> HIDE DEF r
  <2> QED
    BY <1>2, <2>1 DEF Known
<1> HIDE DEF r, records
<1>6. Known(records) /\ Known(queue)'
  BY <1>1, <1>2, <1>3, <1>5 DEF Known
<1>7. NothingLeft'
  BY <1>1 DEF NothingLeft
<1>8. CASE batch' = << >> /\ writeBatch(records)
  <2>1. Settled(records)
    BY <1>2, <1>3, <1>6, <1>8, WriteSettles
  <2>2. Known(batch)'
    BY <1>8 DEF Known
  <2> QED
    BY <1>1, <1>3, <1>4, <1>6, <1>7, <1>8, <2>1, <2>2, FlushKeeps
<1>9. CASE batch' = records /\ UNCHANGED <<store, halfWritten, durable, seen, lost, failures>>
  <2>1. Settled(<< >>)
    BY <1>2, <1>9, NothingSettled
  <2>2. Known(batch)'
    BY <1>2, <1>6, <1>9 DEF Known
  <2> QED
    BY <1>1, <1>3, <1>4, <1>6, <1>7, <1>9, <2>1, <2>2, FlushKeeps
<1> QED
  BY <1>1, <1>8, <1>9

LEMMA TickKeeps == ASSUME CollectorInv, Tick PROVE CollectorInv'
<1>1. /\ loop = "running" /\ batch' = << >> /\ writeBatch(batch)
      /\ UNCHANGED <<handlerVars, queue, loop, closed, disabled>>
  BY DEF Tick
<1>2. queue \in Seq(Recs) /\ batch \in Seq(Recs) /\ Known(queue) /\ Known(batch) /\ noted' = noted
  BY <1>1 DEF CollectorInv, CollectorTypes, handlerVars
<1>3. Settled(batch)
  BY <1>1, <1>2, WriteSettles
<1>4. Known(queue)' /\ Known(batch)' /\ NothingLeft' /\ << >> \in Seq(Recs)
  BY <1>1, <1>2 DEF Known, NothingLeft
<1>5. PICK records \in Seq(Recs) : records = batch
  BY <1>2
<1> QED
  BY <1>1, <1>2, <1>3, <1>4, <1>5, FlushKeeps

LEMMA ReturnKeeps == ASSUME CollectorInv, Return PROVE CollectorInv'
<1>1. /\ closed /\ queue = << >> /\ batch' = << >>
      /\ UNCHANGED <<handlerVars, queue, closed, disabled>>
      /\ \/ writeBatch(batch)
         \/ batch = << >> /\ UNCHANGED <<store, halfWritten, durable, seen, lost, failures>>
  BY DEF Return
<1>2. queue \in Seq(Recs) /\ batch \in Seq(Recs) /\ Known(queue) /\ Known(batch) /\ noted' = noted
  BY <1>1 DEF CollectorInv, CollectorTypes, handlerVars
<1>3. Settled(batch)
  <2>1. CASE writeBatch(batch)
    BY <1>2, <2>1, WriteSettles
  <2>2. CASE batch = << >> /\ UNCHANGED <<store, halfWritten, durable, seen, lost, failures>>
    BY <1>2, <2>2, NothingSettled
  <2> QED
    BY <1>1, <2>1, <2>2
<1>4. Known(queue)' /\ Known(batch)' /\ NothingLeft' /\ << >> \in Seq(Recs)
  BY <1>1, <1>2 DEF Known, NothingLeft
<1>5. PICK records \in Seq(Recs) : records = batch
  BY <1>2
<1> QED
  BY <1>1, <1>2, <1>3, <1>4, <1>5, FlushKeeps

-----------------------------------------------------------------------------
(* Restarts *)

\* The next process has what was in the store or in the file; what was on its way is given up.
LEMMA FreshKeeps ==
  ASSUME CollectorInv, UNCHANGED <<noted, halfWritten>>, NEW s \in {store, durable}, Fresh(s),
         \A c : c \in InFlight \cup lost => c \in lost'
  PROVE  CollectorInv'
<1>1. /\ store' = s /\ durable' = s /\ queue' = << >> /\ batch' = << >> /\ loop' = "running"
      /\ seen' = {} /\ pc' = [h \in Handlers |-> Idle]
  BY DEF Fresh
<1>2. CollectorTypes /\ NotedOnce /\ CallsAreWrittenWhole
  BY DEF CollectorInv
<1>3. pc' = [h \in Handlers |-> pc'[h]] /\ (\A h \in Handlers : pc'[h].kind = "idle") /\ << >> \in Seq(Recs)
  <2>1. \A h \in Handlers : pc'[h] = Idle
    BY <1>1
  <2>2. pc' = [h \in Handlers |-> pc'[h]]
    BY <1>1, <2>1
  <2> QED
    BY <2>1, <2>2 DEF Idle
<1>4. CollectorTypes'
  BY <1>1, <1>2, <1>3 DEF CollectorTypes
<1>5. NotedOnce' /\ Known(queue)' /\ Known(batch)' /\ Sending' /\ NothingLeft'
  BY <1>1, <1>2, <1>3 DEF NotedOnce, Known, Sending, NothingLeft
<1>6. CallsAreWrittenWhole'
  <2> SUFFICES ASSUME NEW n \in noted, n.call \notin lost' PROVE Whole(s, n)
    BY <1>1 DEF CallsAreWrittenWhole
  <2>1. Whole(store, n) /\ Whole(durable, n)
    BY <1>2 DEF CallsAreWrittenWhole
  <2> QED
    BY <2>1
<1> QED
  BY <1>4, <1>5, <1>6 DEF CollectorInv

LEMMA RestartKeeps == ASSUME CollectorInv, Restart PROVE CollectorInv'
<1>1. /\ loop = "returned" /\ lost' = lost \cup UNION {CallsIn(<<pc[h]>>) : h \in Handlers}
      /\ Fresh(store) /\ UNCHANGED <<noted, halfWritten>>
  BY DEF Restart
<1>2. queue = << >> /\ batch = << >>
  BY <1>1 DEF CollectorInv, NothingLeft
<1>3. \A c : c \in InFlight \cup lost => c \in lost'
  BY <1>1, <1>2, CallsInIs DEF InFlight
<1> QED
  BY <1>1, <1>3, FreshKeeps

LEMMA CrashKeeps == ASSUME CollectorInv, Crash PROVE CollectorInv'
<1>1. /\ lost' = lost \cup CallsIn(queue) \cup CallsIn(batch) \cup UNION {CallsIn(<<pc[h]>>) : h \in Handlers}
      /\ (\E s \in {store, durable} : Fresh(s)) /\ UNCHANGED <<noted, halfWritten>>
  BY DEF Crash
<1>2. \A c : c \in InFlight \cup lost => c \in lost'
  BY <1>1 DEF InFlight
<1> QED
  BY <1>1, <1>2, FreshKeeps

-----------------------------------------------------------------------------
LEMMA CollectorSteps == CollectorInv /\ [CollectorNext]_vars => CollectorInv'
<1> SUFFICES ASSUME CollectorInv, [CollectorNext]_vars PROVE CollectorInv'
  OBVIOUS
<1>1. ASSUME NEW e \in BOOLEAN, SetEnabled(e) PROVE CollectorInv'
  BY <1>1, SwitchKeeps DEF SetEnabled, handlerVars
<1>2. ASSUME Close PROVE CollectorInv'
  BY <1>2, SwitchKeeps DEF Close, handlerVars
<1>3. CASE UNCHANGED vars
  BY <1>3, SwitchKeeps DEF vars, storeVars, loopVars
<1> QED
  BY <1>1, <1>2, <1>3, GetKeeps, NoteCallKeeps, SendStartKeeps, SendCallKeeps, ReceiveKeeps, TickKeeps,
     ReturnKeeps, RestartKeeps, CrashKeeps DEF CollectorNext

\* Whatever the interleaving of handlers, ticker, Close, errors and crashes, a call that is
\* neither in flight nor given up is in the store and in the file with every edge in both
\* directions.
THEOREM CallsStayWhole == CollectorSpec => []CallsAreWrittenWhole
<1>1. CollectorInv => CallsAreWrittenWhole
  BY DEF CollectorInv
<1> QED
  BY <1>1, CollectorStarts, CollectorSteps, PTL DEF CollectorSpec

-----------------------------------------------------------------------------
(* Sequences that grow *)

\* A sequence and one more.
LEMMA OneMore ==
  ASSUME NEW S, NEW w \in Seq(S), NEW r \in S
  PROVE  /\ Append(w, r) \in Seq(S) /\ Len(w) \in Nat /\ Len(Append(w, r)) = Len(w) + 1
         /\ DOMAIN w = 1..Len(w) /\ DOMAIN Append(w, r) = 1..(Len(w) + 1)
         /\ \A i \in 1..Len(w) : Append(w, r)[i] = w[i]
         /\ Append(w, r)[Len(w) + 1] = r
         /\ Range(Append(w, r)) = Range(w) \cup {r}
<1> DEFINE u == Append(w, r)
<1>1. /\ u \in Seq(S) /\ Len(w) \in Nat /\ Len(u) = Len(w) + 1
      /\ DOMAIN w = 1..Len(w) /\ DOMAIN u = 1..(Len(w) + 1)
      /\ \A i \in 1..Len(w) : u[i] = w[i]
      /\ u[Len(w) + 1] = r
  OBVIOUS
<1> HIDE DEF u
<1>2. ASSUME NEW x \in Range(u) PROVE x \in Range(w) \cup {r}
  <2>1. PICK i \in 1..(Len(w) + 1) : u[i] = x
    BY <1>1, <1>2 DEF Range
  <2>2. i \in 1..Len(w) \/ i = Len(w) + 1
    BY <1>1
  <2> QED
    BY <1>1, <2>1, <2>2 DEF Range
<1>3. ASSUME NEW x \in Range(w) PROVE x \in Range(u)
  <2>1. PICK i \in 1..Len(w) : w[i] = x
    BY <1>1, <1>3 DEF Range
  <2>2. i \in 1..(Len(w) + 1)
    BY <1>1
  <2> QED
    BY <1>1, <2>1, <2>2 DEF Range
<1>4. r \in Range(u)
  <2>1. Len(w) + 1 \in 1..(Len(w) + 1)
    BY <1>1
  <2> QED
    BY <1>1, <2>1 DEF Range
<1> QED
  BY <1>1, <1>2, <1>3, <1>4 DEF u

\* A reference is added where it is new, and once.
LEMMA OnceIs ==
  ASSUME NEW S, NEW w \in Seq(S), NEW r \in S, IsInjective(w)
  PROVE  Once(w, r) \in Seq(S) /\ IsInjective(Once(w, r)) /\ Range(Once(w, r)) = Range(w) \cup {r}
<1>1. DOMAIN w = 1..Len(w) /\ Len(w) \in Nat
  OBVIOUS
<1>2. Contains(w, r) <=> r \in Range(w)
  BY <1>1 DEF Contains, Range
<1>3. CASE Contains(w, r)
  BY <1>2, <1>3 DEF Once
<1>4. CASE ~Contains(w, r)
  <2> DEFINE u == Append(w, r)
  <2>1. Once(w, r) = u
    BY <1>4 DEF Once
  <2>2. /\ u \in Seq(S) /\ DOMAIN u = 1..(Len(w) + 1)
        /\ \A i \in 1..Len(w) : u[i] = w[i]
        /\ u[Len(w) + 1] = r
        /\ Range(u) = Range(w) \cup {r}
    BY OneMore
  <2> HIDE DEF u
  <2>3. \A i \in 1..Len(w) : w[i] # r
    BY <1>4 DEF Contains
  <2>4. ASSUME NEW i \in 1..(Len(w) + 1), NEW j \in 1..(Len(w) + 1), u[i] = u[j] PROVE i = j
    <3>1. (i \in 1..Len(w) \/ i = Len(w) + 1) /\ (j \in 1..Len(w) \/ j = Len(w) + 1)
      BY <1>1
    <3>2. \A k, l \in 1..Len(w) : w[k] = w[l] => k = l
      BY <1>1 DEF IsInjective
    <3> QED
      BY <2>2, <2>3, <2>4, <3>1, <3>2
  <2>5. IsInjective(u)
    BY <2>2, <2>4 DEF IsInjective
  <2> QED
    BY <2>1, <2>2, <2>5
<1> QED
  BY <1>3, <1>4

\* All of a sequence of references.
LEMMA OnceEachIs ==
  ASSUME NEW out \in Seq(Nodes), NEW refs \in Seq(Nodes), IsInjective(out)
  PROVE  /\ OnceEach(out, refs) \in Seq(Nodes) /\ IsInjective(OnceEach(out, refs))
         /\ Range(OnceEach(out, refs)) = Range(out) \cup Range(refs)
<1> DEFINE m == Len(refs)
           step == [p \in Seq(Nodes) \X (1..m) |-> Once(p[1], refs[p[2]])]
           X == [n \in 0..m |-> {w \in Seq(Nodes) : IsInjective(w) /\ Range(w) = Range(out) \cup {refs[j] : j \in 1..n}}]
           Is(f) == f = [i \in 0..m |-> IF i = 0 THEN out ELSE Once(f[i - 1], refs[i])]
           after == CHOOSE f : Is(f)
<1>1. m \in Nat /\ DOMAIN refs = 1..m /\ \A n \in 1..m : refs[n] \in Nodes
  OBVIOUS
<1>2. \A n \in 0..m : \A w : w \in X[n] <=> w \in Seq(Nodes) /\ IsInjective(w) /\ Range(w) = Range(out) \cup {refs[j] : j \in 1..n}
  OBVIOUS
<1>3. \A n \in 1..m : \A w \in Seq(Nodes) : step[<<w, n>>] = Once(w, refs[n])
  OBVIOUS
<1>4. OnceEach(out, refs) = after[m]
  BY DEF OnceEach
<1> HIDE DEF step, X, m
<1>5. out \in X[0]
  <2>1. 0 \in 0..m /\ {refs[j] : j \in 1..0} = {}
    BY <1>1
  <2> QED
    BY <1>2, <2>1
<1>6. ASSUME NEW n \in 1..m, NEW w \in X[n - 1] PROVE Once(w, refs[n]) \in X[n] /\ w \in Seq(Nodes)
  <2>1. n - 1 \in 0..m /\ n \in 0..m
    BY <1>1
  <2>2. w \in Seq(Nodes) /\ IsInjective(w) /\ Range(w) = Range(out) \cup {refs[j] : j \in 1..(n - 1)}
    BY <1>2, <2>1
  <2>3. {refs[j] : j \in 1..n} = {refs[j] : j \in 1..(n - 1)} \cup {refs[n]}
    <3>1. 1..n = (1..(n - 1)) \cup {n}
      BY <1>1
    <3> QED
      BY <3>1
  <2>4. Once(w, refs[n]) \in Seq(Nodes) /\ IsInjective(Once(w, refs[n])) /\ Range(Once(w, refs[n])) = Range(w) \cup {refs[n]}
    <3> DEFINE r == refs[n]
    <3>1. r \in Nodes /\ w \in Seq(Nodes) /\ IsInjective(w)
      BY <1>1, <2>2
    <3> HIDE DEF r
    <3>2. Once(w, r) \in Seq(Nodes) /\ IsInjective(Once(w, r)) /\ Range(Once(w, r)) = Range(w) \cup {r}
      BY <3>1, OnceIs
    <3> QED
      BY <3>2 DEF r
  <2> QED
    BY <1>2, <2>1, <2>2, <2>3, <2>4
<1>7. \A n \in 1..m : \A w \in X[n - 1] : step[<<w, n>>] \in X[n]
  BY <1>3, <1>6
<1>8. PICK g : Folds(g, m, out, step, X)
  BY <1>1, <1>5, <1>7, FoldExists
<1>9. Is(g)
  <2>1. ASSUME NEW n \in 0..m PROVE g[n] = IF n = 0 THEN out ELSE Once(g[n - 1], refs[n])
    <3>1. g[n] = IF n = 0 THEN out ELSE step[<<g[n - 1], n>>]
      BY <1>8 DEF Folds
    <3>2. n # 0 => n \in 1..m /\ n - 1 \in 0..m
      BY <1>1
    <3>3. n # 0 => g[n - 1] \in X[n - 1]
      BY <1>8, <3>2 DEF Folds
    <3> QED
      BY <1>3, <1>6, <3>1, <3>2, <3>3
  <2>2. g = [n \in 0..m |-> g[n]]
    BY <1>8 DEF Folds
  <2> QED
    BY <2>1, <2>2
<1>10. Is(after)
  BY <1>9
<1> HIDE DEF after
<1>11. \A n \in 0..m : after[n] = IF n = 0 THEN out ELSE Once(after[n - 1], refs[n])
  BY <1>10
<1> DEFINE T == {n \in 0..m : after[n] \in X[n]}
<1>12. 0 \in T /\ \A n \in 1..m : n - 1 \in T => n \in T
  <2>1. 0 \in 0..m /\ \A n \in 1..m : n \in 0..m /\ n # 0
    BY <1>1
  <2> QED
    BY <1>5, <1>6, <1>11, <2>1
<1> HIDE DEF T
<1>13. m \in T
  <2>1. \A n \in 0..m : n \in T
    BY <1>1, <1>12, AllReached
  <2>2. m \in 0..m
    BY <1>1
  <2> QED
    BY <2>1, <2>2
<1>14. after[m] \in X[m] /\ m \in 0..m
  BY <1>1, <1>13 DEF T
<1>15. Range(refs) = {refs[j] : j \in 1..m}
  BY <1>1 DEF Range
<1> QED
  BY <1>2, <1>4, <1>14, <1>15

-----------------------------------------------------------------------------
(* One walk *)

\* A cursor emits the ends of the links that are hit.
LEMMA EmitHitsIs ==
  ASSUME NEW order \in Seq(Links), NEW hits, NEW end \in {"src", "dst"}
  PROVE  /\ emitHits(order, hits, end) \in Seq(Nodes)
         /\ Range(emitHits(order, hits, end)) = {l[end] : l \in Range(order) \cap hits}
<1> DEFINE m == Len(order)
           Add(w, i) == IF order[i] \in hits THEN Append(w, order[i][end]) ELSE w
           Met(n) == {order[j][end] : j \in {i \in 1..n : order[i] \in hits}}
           step == [p \in Seq(Nodes) \X (1..m) |-> Add(p[1], p[2])]
           X == [n \in 0..m |-> {w \in Seq(Nodes) : Range(w) = Met(n)}]
           Is(f) == f = [i \in 0..m |-> IF i = 0 THEN <<>>
                                        ELSE IF order[i] \in hits THEN Append(f[i - 1], order[i][end]) ELSE f[i - 1]]
           refs == CHOOSE f : Is(f)
<1>1. m \in Nat /\ DOMAIN order = 1..m /\ \A n \in 1..m : order[n] \in Links
  OBVIOUS
<1>2. \A n \in 1..m : order[n][end] \in Nodes
  <2>1. \A l \in Links : l.src \in Nodes /\ l.dst \in Nodes
    BY GraphAssumption DEF GraphAssumption
  <2>2. CASE end = "src"
    BY <1>1, <2>1, <2>2
  <2>3. CASE end = "dst"
    BY <1>1, <2>1, <2>3
  <2> QED
    BY <2>2, <2>3
<1>3. \A n \in 0..m : \A w : w \in X[n] <=> w \in Seq(Nodes) /\ Range(w) = Met(n)
  OBVIOUS
<1>4. \A n \in 1..m : \A w \in Seq(Nodes) : step[<<w, n>>] = Add(w, n)
  OBVIOUS
<1>5. emitHits(order, hits, end) = refs[m]
  BY DEF emitHits
<1>6. Met(0) = {}
  OBVIOUS
<1>7. ASSUME NEW n \in 1..m PROVE Met(n) = Met(n - 1) \cup (IF order[n] \in hits THEN {order[n][end]} ELSE {})
  <2>1. \A i : i \in 1..n <=> i \in 1..(n - 1) \/ i = n
    BY <1>1
  <2>2. CASE order[n] \in hits
    BY <2>1, <2>2
  <2>3. CASE order[n] \notin hits
    BY <2>1, <2>3
  <2> QED
    BY <2>2, <2>3
<1>8. Met(m) = {l[end] : l \in Range(order) \cap hits}
  BY <1>1 DEF Range
<1> HIDE DEF step, X, m, Met
<1>9. << >> \in X[0]
  <2>1. 0 \in 0..m /\ << >> \in Seq(Nodes) /\ Range(<< >>) = {}
    BY <1>1 DEF Range
  <2> QED
    BY <1>3, <1>6, <2>1
<1>10. ASSUME NEW n \in 1..m, NEW w \in X[n - 1] PROVE Add(w, n) \in X[n] /\ w \in Seq(Nodes)
  <2>1. n - 1 \in 0..m /\ n \in 0..m
    BY <1>1
  <2>2. w \in Seq(Nodes) /\ Range(w) = Met(n - 1)
    BY <1>3, <2>1
  <2>3. CASE order[n] \in hits
    <3> DEFINE r == order[n][end]
    <3>1. r \in Nodes
      BY <1>2
    <3>2. Add(w, n) = Append(w, r) /\ Met(n) = Met(n - 1) \cup {r}
      BY <1>7, <2>3
    <3> HIDE DEF r
    <3>3. Append(w, r) \in Seq(Nodes) /\ Range(Append(w, r)) = Range(w) \cup {r}
      BY <2>2, <3>1, OneMore
    <3> QED
      BY <1>3, <2>1, <2>2, <3>2, <3>3
  <2>4. CASE order[n] \notin hits
    BY <1>3, <1>7, <2>1, <2>2, <2>4
  <2> QED
    BY <2>3, <2>4
<1> HIDE DEF Add
<1>11. \A n \in 1..m : \A w \in X[n - 1] : step[<<w, n>>] \in X[n]
  BY <1>4, <1>10
<1>12. PICK g : Folds(g, m, << >>, step, X)
  BY <1>1, <1>9, <1>11, FoldExists
<1>13. Is(g)
  <2>1. ASSUME NEW n \in 0..m PROVE g[n] = IF n = 0 THEN << >> ELSE Add(g[n - 1], n)
    <3>1. g[n] = IF n = 0 THEN << >> ELSE step[<<g[n - 1], n>>]
      BY <1>12 DEF Folds
    <3>2. n # 0 => n \in 1..m /\ n - 1 \in 0..m
      BY <1>1
    <3>3. n # 0 => g[n - 1] \in X[n - 1]
      BY <1>12, <3>2 DEF Folds
    <3> QED
      BY <1>4, <1>10, <3>1, <3>2, <3>3
  <2>2. g = [n \in 0..m |-> g[n]]
    BY <1>12 DEF Folds
  <2> QED
    BY <2>1, <2>2 DEF Add
<1>14. Is(refs)
  BY <1>13
<1> HIDE DEF refs
<1>15. \A n \in 0..m : refs[n] = IF n = 0 THEN << >> ELSE Add(refs[n - 1], n)
  BY <1>14 DEF Add
<1> DEFINE T == {n \in 0..m : refs[n] \in X[n]}
<1>16. 0 \in T /\ \A n \in 1..m : n - 1 \in T => n \in T
  <2>1. 0 \in 0..m /\ \A n \in 1..m : n \in 0..m /\ n # 0
    BY <1>1
  <2> QED
    BY <1>9, <1>10, <1>15, <2>1
<1> HIDE DEF T
<1>17. m \in T
  <2>1. \A n \in 0..m : n \in T
    BY <1>1, <1>16, AllReached
  <2>2. m \in 0..m
    BY <1>1
  <2> QED
    BY <2>1, <2>2
<1>18. refs[m] \in X[m] /\ m \in 0..m
  BY <1>1, <1>17 DEF T
<1> QED
  BY <1>3, <1>5, <1>8, <1>18

Directions == {"Forward", "Reverse"}

\* The links a walk hits, and where it leads.
LEMMA WalkIs ==
  ASSUME NEW s, NEW ref, NEW opts
  PROVE  /\ \A dir \in Directions : walk(s, ref, dir, opts) \in Seq(Nodes) /\ Range(walk(s, ref, dir, opts)) \subseteq Nodes
         /\ Range(walk(s, ref, "Forward", opts)) = {l.dst : l \in forwardHits(s, ref, opts)}
         /\ Range(walk(s, ref, "Reverse", opts)) = {l.src : l \in reverseHits(s, ref, opts)}
<1> DEFINE F == forwardHits(s, ref, opts)
           R == reverseHits(s, ref, opts)
<1>1. F \subseteq Links /\ R \subseteq Links
  BY DEF forwardHits, reverseHits
<1>2. walk(s, ref, "Forward", opts) = emitHits(LinkOrder, F, "dst") /\ walk(s, ref, "Reverse", opts) = emitHits(ReverseOrder, R, "src")
  BY DEF walk, walkForward, walkReverse
<1> HIDE DEF F, R
<1>3. LinkOrder \in Seq(Links) /\ Range(LinkOrder) = Links /\ ReverseOrder \in Seq(Links) /\ Range(ReverseOrder) = Links
  BY GraphAssumption DEF GraphAssumption
<1>4. emitHits(LinkOrder, F, "dst") \in Seq(Nodes) /\ Range(emitHits(LinkOrder, F, "dst")) = {l["dst"] : l \in Links \cap F}
  BY <1>3, EmitHitsIs
<1>5. emitHits(ReverseOrder, R, "src") \in Seq(Nodes) /\ Range(emitHits(ReverseOrder, R, "src")) = {l["src"] : l \in Links \cap R}
  BY <1>3, EmitHitsIs
<1>6. \A w \in Seq(Nodes) : Range(w) \subseteq Nodes
  BY DEF Range
<1>7. Range(walk(s, ref, "Forward", opts)) = {l.dst : l \in F} /\ Range(walk(s, ref, "Reverse", opts)) = {l.src : l \in R}
  BY <1>1, <1>2, <1>4, <1>5
<1>8. walk(s, ref, "Forward", opts) \in Seq(Nodes) /\ walk(s, ref, "Reverse", opts) \in Seq(Nodes)
  BY <1>2, <1>4, <1>5
<1> QED
  BY <1>6, <1>7, <1>8 DEF F, R, Directions

-----------------------------------------------------------------------------
(* The two sides of a link *)

\* What the options of a walk come to.
LEMMA ResolvedIs ==
  ASSUME NEW options \in TraversalOptions
  PROVE  /\ resolved(options).maxDepth \in Nat \ {0} /\ resolved(options).maxVisited \in Nat \ {0}
         /\ resolved(options).direction = options.direction
         /\ resolved(options).edges = options.edges /\ resolved(options).asOf = options.asOf
  BY DEF resolved, TraversalOptions, DefaultMaxDepth, DefaultMaxVisited

\* The neighbours on one side.
LEMMA NeighborsAre ==
  ASSUME NEW s, NEW start, NEW options \in TraversalOptions, options.direction \in Directions
  PROVE  \A n : Contains(Neighbors(s, start, options), n)
                  <=> n \in Range(walk(s, start, options.direction, resolved(options)))
<1> DEFINE dir == options.direction
           w == walk(s, start, dir, resolved(options))
           once == OnceEach(<< >>, w)
<1>1. Neighbors(s, start, options) = once
  <2>1. resolved(options).direction = dir /\ dir # "Both"
    BY ResolvedIs DEF Directions
  <2> QED
    BY <2>1 DEF Neighbors
<1>2. w \in Seq(Nodes)
  BY WalkIs
<1> HIDE DEF w
<1>3. once \in Seq(Nodes) /\ Range(once) = Range(w)
  <2> DEFINE none == << >>
  <2>1. none \in Seq(Nodes) /\ IsInjective(none) /\ Range(none) = {}
    BY DEF IsInjective, Range
  <2> HIDE DEF none
  <2>2. OnceEach(none, w) \in Seq(Nodes) /\ Range(OnceEach(none, w)) = Range(none) \cup Range(w)
    BY <1>2, <2>1, OnceEachIs
  <2> QED
    BY <2>1, <2>2 DEF none
<1> HIDE DEF once
<1>4. DOMAIN once = 1..Len(once)
  BY <1>3
<1>5. \A n : Contains(once, n) <=> n \in Range(once)
  BY <1>4 DEF Contains, Range
<1> QED
  BY <1>1, <1>3, <1>5 DEF w

\* The version of a link that is current.
LEMMA VersionAtIs ==
  ASSUME NEW s, NEW l, s.chain[l] \in Seq(Records)
  PROVE  /\ versionAt(s, l, Now) = Len(s.chain[l])
         /\ \A asOf : versionAt(s, l, asOf) # NoVersion => Len(s.chain[l]) # 0
<1> DEFINE c == s.chain[l]
           n == Len(c)
<1>1. n \in Nat /\ DOMAIN c = 1..n
  OBVIOUS
<1> DEFINE old == {v \in DOMAIN s.chain[l] : Now = Now \/ s.chain[l][v].createdAt <= Now}
<1>2. old = 1..n
  BY <1>1
<1>3. versionAt(s, l, Now) = IF old = {} THEN NoVersion ELSE CHOOSE v \in old : \A w \in old : w <= v
  BY DEF versionAt
<1> HIDE DEF c, old
<1>4. versionAt(s, l, Now) = n
  <2> HIDE DEF n
  <2>1. CASE n = 0
    BY <1>2, <1>3, <2>1 DEF NoVersion
  <2>2. CASE n # 0
    <3>1. n \in old /\ \A w \in old : w <= n
      BY <1>1, <1>2, <2>2
    <3>2. \A v \in old : (\A w \in old : w <= v) => v = n
      BY <1>1, <1>2, <3>1
    <3> DEFINE u == CHOOSE v \in old : \A w \in old : w <= v
    <3>3. u \in old /\ \A w \in old : w <= u
      BY <3>1
    <3> HIDE DEF u
    <3>4. u = n
      BY <3>2, <3>3
    <3> QED
      BY <1>3, <3>1, <3>4 DEF u
  <2> QED
    BY <2>1, <2>2
<1>5. ASSUME NEW asOf, n = 0 PROVE versionAt(s, l, asOf) = NoVersion
  <2>1. DOMAIN s.chain[l] = {}
    BY <1>1, <1>5 DEF c
  <2> QED
    BY <2>1 DEF versionAt
<1> QED
  BY <1>4, <1>5 DEF c

\* A link is hit from its source exactly when it is hit from its destination.
LEMMA SidesOfALink ==
  ASSUME IInv, ~halfWritten, NEW l \in Links, NEW o, NEW p, o.edges = p.edges, o.asOf = p.asOf, NEW m, NEW n
  PROVE  l \in forwardHits(store, m, o) /\ l.dst = n <=> l \in reverseHits(store, n, p) /\ l.src = m
<1> DEFINE v == versionAt(store, l, o.asOf)
           w == reverseVersion(store, l, p)
<1>1. store.chain[l] \in Seq(Records) /\ store.reverse[l] = Len(store.chain[l])
  BY DEF IInv, ChainsGood, Ids, ReverseFollowsForward, latestVersion
<1>2. v = w /\ (v # NoVersion => store.reverse[l] # NoVersion)
  <2>1. /\ versionAt(store, l, Now) = Len(store.chain[l])
        /\ \A asOf : versionAt(store, l, asOf) # NoVersion => Len(store.chain[l]) # 0
    BY <1>1, VersionAtIs
  <2> QED
    BY <1>1, <2>1 DEF reverseVersion, NoVersion
<1>3. followed(store, l, v, o) => v # NoVersion
  BY DEF followed
<1>4. followed(store, l, v, o) <=> followed(store, l, v, p)
  BY DEF followed, edgeAllowed
<1>5. l \in forwardHits(store, m, o) <=> l.src = m /\ followed(store, l, v, o)
  BY DEF forwardHits
<1>6. l \in reverseHits(store, n, p) <=> l.dst = n /\ store.reverse[l] # NoVersion /\ followed(store, l, w, p)
  BY DEF reverseHits
<1> HIDE DEF v, w
<1> QED
  BY <1>2, <1>3, <1>4, <1>5, <1>6

\* The neighbours on the two sides agree while no link is half written.
LEMMA SidesHold == IInv => SidesAgree
<1> SUFFICES ASSUME IInv, ~halfWritten, NEW m \in Starts, NEW n \in Starts, NEW options \in Searches
             PROVE  Contains(Neighbors(store, m, [options EXCEPT !.direction = "Forward"]), n)
                      <=> Contains(Neighbors(store, n, [options EXCEPT !.direction = "Reverse"]), m)
  BY DEF SidesAgree
<1> DEFINE f == [options EXCEPT !.direction = "Forward"]
           r == [options EXCEPT !.direction = "Reverse"]
<1>1. options \in TraversalOptions
  BY GraphAssumption DEF GraphAssumption
<1>2. /\ f \in TraversalOptions /\ r \in TraversalOptions /\ f.direction = "Forward" /\ r.direction = "Reverse"
      /\ f.edges = r.edges /\ f.asOf = r.asOf
  BY <1>1 DEF TraversalOptions
<1> HIDE DEF f, r
<1>3. resolved(f).edges = resolved(r).edges /\ resolved(f).asOf = resolved(r).asOf
  BY <1>2, ResolvedIs
<1>4. Contains(Neighbors(store, m, f), n) <=> \E l \in Links : l \in forwardHits(store, m, resolved(f)) /\ l.dst = n
  <2>1. Contains(Neighbors(store, m, f), n) <=> n \in Range(walk(store, m, "Forward", resolved(f)))
    BY <1>2, NeighborsAre DEF Directions
  <2>2. Range(walk(store, m, "Forward", resolved(f))) = {l.dst : l \in forwardHits(store, m, resolved(f))}
    BY WalkIs
  <2>3. forwardHits(store, m, resolved(f)) \subseteq Links
    BY DEF forwardHits
  <2> QED
    BY <2>1, <2>2, <2>3
<1>5. Contains(Neighbors(store, n, r), m) <=> \E l \in Links : l \in reverseHits(store, n, resolved(r)) /\ l.src = m
  <2>1. Contains(Neighbors(store, n, r), m) <=> m \in Range(walk(store, n, "Reverse", resolved(r)))
    BY <1>2, NeighborsAre DEF Directions
  <2>2. Range(walk(store, n, "Reverse", resolved(r))) = {l.src : l \in reverseHits(store, n, resolved(r))}
    BY WalkIs
  <2>3. reverseHits(store, n, resolved(r)) \subseteq Links
    BY DEF reverseHits
  <2> QED
    BY <2>1, <2>2, <2>3
<1>6. \A l \in Links : l \in forwardHits(store, m, resolved(f)) /\ l.dst = n
                          <=> l \in reverseHits(store, n, resolved(r)) /\ l.src = m
  BY <1>3, SidesOfALink
<1> QED
  BY <1>4, <1>5, <1>6 DEF f, r

-----------------------------------------------------------------------------
(* The nodes near another *)

\* One step of one side from the nodes of a set, and the start.
Beyond(start, dir, opts, A) == {start} \cup UNION {Range(walk(store, m, dir, opts)) : m \in A}
Balls(start, dir, opts, depth) ==
  CHOOSE f : f = [n \in 0..depth |-> IF n = 0 THEN {start}
                                     ELSE {start} \cup UNION {Range(walk(store, m, dir, opts)) : m \in f[n - 1]}]

\* The balls of smaller depths, from which a ball is made.
LEMMA BallsAre ==
  ASSUME NEW start \in Nodes, NEW dir \in Directions, NEW opts, NEW depth \in Nat
  PROVE  /\ Ball(start, dir, opts, depth) = Balls(start, dir, opts, depth)[depth]
         /\ \A n \in 0..depth : /\ Balls(start, dir, opts, depth)[n] \subseteq Nodes
                                /\ Balls(start, dir, opts, depth)[n] =
                                     IF n = 0 THEN {start} ELSE Beyond(start, dir, opts, Balls(start, dir, opts, depth)[n - 1])
<1> DEFINE B(A) == {start} \cup UNION {Range(walk(store, m, dir, opts)) : m \in A}
           step == [p \in (SUBSET Nodes) \X (1..depth) |-> B(p[1])]
           X == [n \in 0..depth |-> SUBSET Nodes]
           Is(f) == f = [n \in 0..depth |-> IF n = 0 THEN {start}
                                     ELSE {start} \cup UNION {Range(walk(store, m, dir, opts)) : m \in f[n - 1]}]
           b == CHOOSE f : Is(f)
<1>1. Ball(start, dir, opts, depth) = b[depth] /\ b = Balls(start, dir, opts, depth)
  BY DEF Ball, Balls
<1>2. \A A : Beyond(start, dir, opts, A) = B(A)
  BY DEF Beyond
<1>3. \A A : B(A) \subseteq Nodes
  <2>1. \A m : Range(walk(store, m, dir, opts)) \subseteq Nodes
    BY WalkIs
  <2> QED
    BY <2>1
<1>4. \A n \in 1..depth : \A A \in SUBSET Nodes : step[<<A, n>>] = B(A)
  OBVIOUS
<1>5. {start} \in X[0] /\ \A n \in 0..depth : X[n] = SUBSET Nodes
  OBVIOUS
<1> HIDE DEF B, step, X
<1>6. \A n \in 1..depth : \A A \in X[n - 1] : step[<<A, n>>] \in X[n]
  <2> TAKE n \in 1..depth
  <2>1. n \in 0..depth /\ n - 1 \in 0..depth
    OBVIOUS
  <2> QED
    BY <1>3, <1>4, <1>5, <2>1
<1>7. PICK g : Folds(g, depth, {start}, step, X)
  BY <1>5, <1>6, FoldExists
<1>8. Is(g)
  <2>1. ASSUME NEW n \in 0..depth PROVE g[n] = IF n = 0 THEN {start} ELSE B(g[n - 1])
    <3>1. g[n] = IF n = 0 THEN {start} ELSE step[<<g[n - 1], n>>]
      BY <1>7 DEF Folds
    <3>2. n # 0 => n \in 1..depth /\ n - 1 \in 0..depth
      OBVIOUS
    <3>3. n # 0 => g[n - 1] \in SUBSET Nodes
      BY <1>5, <1>7, <3>2 DEF Folds
    <3> QED
      BY <1>4, <3>1, <3>2, <3>3
  <2>2. g = [n \in 0..depth |-> g[n]]
    BY <1>7 DEF Folds
  <2> QED
    BY <2>1, <2>2 DEF B
<1>9. Is(b)
  BY <1>8
<1> HIDE DEF b
<1>10. \A n \in 0..depth : b[n] = IF n = 0 THEN {start} ELSE B(b[n - 1])
  BY <1>9 DEF B
<1>11. \A n \in 0..depth : b[n] \subseteq Nodes
  BY <1>3, <1>10
<1> QED
  BY <1>1, <1>2, <1>10, <1>11

\* A ball is one step from the ball before it.
LEMMA BallIs ==
  ASSUME NEW start \in Nodes, NEW dir \in Directions, NEW opts
  PROVE  /\ Ball(start, dir, opts, 0) = {start}
         /\ \A k \in Nat : /\ Ball(start, dir, opts, k) \subseteq Nodes
                           /\ Ball(start, dir, opts, k + 1) = Beyond(start, dir, opts, Ball(start, dir, opts, k))
         /\ \A j, k \in Nat : j <= k => Ball(start, dir, opts, j) \subseteq Ball(start, dir, opts, k)
<1> DEFINE B(k) == Ball(start, dir, opts, k)
           bs(k) == Balls(start, dir, opts, k)
           N(A) == Beyond(start, dir, opts, A)
<1>1. \A k \in Nat : /\ B(k) = bs(k)[k]
                     /\ \A n \in 0..k : bs(k)[n] \subseteq Nodes /\ bs(k)[n] = IF n = 0 THEN {start} ELSE N(bs(k)[n - 1])
  BY BallsAre
<1>2. \A A, C : A \subseteq C => N(A) \subseteq N(C)
  BY DEF Beyond
<1>3. \A A : start \in N(A)
  BY DEF Beyond
<1> HIDE DEF B, bs, N
<1>4. B(0) = {start}
  <2>1. 0 \in Nat /\ 0 \in 0..0
    OBVIOUS
  <2> QED
    BY <1>1, <2>1
<1>5. ASSUME NEW k \in Nat PROVE B(k + 1) = N(B(k)) /\ B(k) \subseteq Nodes
  <2> DEFINE T == {n \in 0..k : bs(k)[n] = bs(k + 1)[n]}
  <2>1. k + 1 \in Nat /\ \A n \in 0..k : n \in 0..(k + 1)
    OBVIOUS
  <2>2. 0 \in T
    BY <1>1, <2>1
  <2>3. \A n \in 1..k : n - 1 \in T => n \in T
    <3> SUFFICES ASSUME NEW n \in 1..k, n - 1 \in T PROVE n \in T
      OBVIOUS
    <3>1. n \in 0..k /\ n \in 0..(k + 1) /\ n # 0
      OBVIOUS
    <3> QED
      BY <1>1, <2>1, <3>1
  <2> HIDE DEF T
  <2>4. \A n \in 0..k : n \in T
    BY <2>2, <2>3, AllReached
  <2>5. bs(k)[k] = bs(k + 1)[k]
    BY <2>4 DEF T
  <2>6. k + 1 \in 0..(k + 1) /\ k + 1 # 0 /\ (k + 1) - 1 = k /\ k \in 0..k
    OBVIOUS
  <2>7. B(k + 1) = bs(k + 1)[k + 1] /\ bs(k + 1)[k + 1] = N(bs(k + 1)[k])
    BY <1>1, <2>1, <2>6
  <2> QED
    BY <1>1, <2>5, <2>6, <2>7
<1>6. ASSUME NEW k \in Nat PROVE B(k) \subseteq B(k + 1)
  <2> DEFINE T == {n \in 0..k : B(n) \subseteq B(n + 1)}
  <2>1. 0 \in T
    <3>1. 0 \in 0..k /\ 0 + 1 = 1 /\ B(0 + 1) = N(B(0))
      BY <1>5
    <3> QED
      BY <1>3, <1>4, <3>1
  <2>2. \A n \in 1..k : n - 1 \in T => n \in T
    <3> SUFFICES ASSUME NEW n \in 1..k, n - 1 \in T PROVE n \in T
      OBVIOUS
    <3>1. n - 1 \in Nat /\ (n - 1) + 1 = n /\ n \in 0..k /\ n \in Nat
      OBVIOUS
    <3>2. B(n) = N(B(n - 1)) /\ B(n + 1) = N(B(n))
      BY <1>5, <3>1
    <3>3. B(n - 1) \subseteq B(n)
      BY <3>1
    <3> QED
      BY <1>2, <3>1, <3>2, <3>3
  <2> HIDE DEF T
  <2>3. \A n \in 0..k : n \in T
    BY <2>1, <2>2, AllReached
  <2>4. k \in 0..k
    OBVIOUS
  <2> QED
    BY <2>3, <2>4 DEF T
<1>7. ASSUME NEW j \in Nat, NEW k \in Nat, j <= k PROVE B(j) \subseteq B(k)
  <2> DEFINE m == k - j
             T == {n \in 0..m : B(j) \subseteq B(j + n)}
  <2>1. m \in Nat /\ j + m = k
    BY <1>7
  <2>2. 0 \in T
    BY <2>1
  <2>3. \A n \in 1..m : n - 1 \in T => n \in T
    <3> SUFFICES ASSUME NEW n \in 1..m, n - 1 \in T PROVE n \in T
      OBVIOUS
    <3>1. j + (n - 1) \in Nat /\ (j + (n - 1)) + 1 = j + n /\ n \in 0..m
      BY <2>1
    <3>2. B(j + (n - 1)) \subseteq B(j + n)
      BY <1>6, <3>1
    <3> QED
      BY <3>1, <3>2
  <2> HIDE DEF T, m
  <2>4. \A n \in 0..m : n \in T
    BY <2>1, <2>2, <2>3, AllReached
  <2>5. m \in 0..m
    BY <2>1
  <2>6. B(j) \subseteq B(j + m)
    BY <2>4, <2>5 DEF T
  <2> QED
    BY <2>1, <2>6
<1> QED
  BY <1>4, <1>5, <1>7 DEF B, N

\* The next ball alone.
LEMMA NextBall ==
  ASSUME NEW start \in Nodes, NEW dir \in Directions, NEW opts, NEW k \in Nat
  PROVE  Ball(start, dir, opts, k + 1) = Beyond(start, dir, opts, Ball(start, dir, opts, k))
BY BallIs

-----------------------------------------------------------------------------
(* The search, one neighbour at a time *)

\* What is found so far: nodes that are reached, each once, and all of them
\* until the cap is exceeded.
Reached(visited) == {p[1] : p \in visited}
Items(opts, sides) == [ref : Nodes, depth : 0..opts.maxDepth, dir : sides]
Explored(st, start, opts, sides) ==
  /\ st = [visited |-> st.visited, result |-> st.result, queue |-> st.queue, capExceeded |-> st.capExceeded]
  /\ st.visited \in SUBSET (Nodes \X sides) /\ {start} \X sides \subseteq st.visited
  /\ \A p \in st.visited : p[1] \in Ball(start, p[2], opts, opts.maxDepth)
  /\ st.queue \in Seq(Items(opts, sides)) /\ st.capExceeded \in BOOLEAN
  /\ st.result \in Seq(Nodes) /\ IsInjective(st.result)
  /\ Range(st.result) \subseteq Reached(st.visited) \ {start}
  /\ ~st.capExceeded => Reached(st.visited) \ {start} \subseteq Range(st.result)
  /\ st.capExceeded <=> Cardinality(st.visited) > opts.maxVisited /\ st.visited # {start} \X sides

\* The state after the first i of the neighbours refs of an item, from st.
Queued(x, st, item) ==
  /\ Len(st.queue) <= Len(x.queue) /\ \A j \in 1..Len(st.queue) : x.queue[j] = st.queue[j]
  /\ \A j \in 1..Len(x.queue) : Len(st.queue) < j =>
        /\ x.queue[j].depth = item.depth + 1 /\ x.queue[j].dir = item.dir
        /\ <<x.queue[j].ref, item.dir>> \in x.visited \ st.visited
EachQueued(x, st) ==
  /\ \A p \in x.visited \ st.visited : \E j \in 1..Len(x.queue) : x.queue[j].ref = p[1] /\ x.queue[j].dir = p[2]
  /\ Cardinality(x.visited) + Len(st.queue) = Cardinality(st.visited) + Len(x.queue)
Emitted(x, st, item, refs, i) ==
  /\ st.visited \subseteq x.visited
  /\ \A p \in x.visited \ st.visited : p[2] = item.dir /\ p[1] \in Range(refs)
  /\ Queued(x, st, item)
  /\ ~x.capExceeded => (\A j \in 1..i : <<refs[j], item.dir>> \in x.visited) /\ EachQueued(x, st)

\* The visited pairs are finitely many.
LEMMA VisitedAreFinite ==
  ASSUME NEW sides \in SUBSET Directions, NEW V \in SUBSET (Nodes \X sides)
  PROVE  /\ IsFiniteSet(V) /\ Cardinality(V) \in Nat
         /\ \A p : IsFiniteSet(V \cup {p}) /\ (p \notin V => Cardinality(V \cup {p}) = Cardinality(V) + 1)
<1>1. IsFiniteSet(Nodes)
  BY GraphAssumption DEF GraphAssumption
<1>2. IsFiniteSet(sides)
  <2>1. IsFiniteSet(Directions)
    <3>1. IsFiniteSet({"Forward"})
      BY FS_Singleton
    <3>2. IsFiniteSet({"Forward"} \cup {"Reverse"})
      BY <3>1, FS_AddElement
    <3>3. {"Forward"} \cup {"Reverse"} = Directions
      BY DEF Directions
    <3> QED
      BY <3>2, <3>3
  <2> QED
    BY <2>1, FS_Subset
<1>3. IsFiniteSet(Nodes \X sides)
  BY <1>1, <1>2, FS_Product
<1>4. IsFiniteSet(V)
  BY <1>3, FS_Subset
<1> QED
  BY <1>4, FS_AddElement, FS_CardinalityType

\* A neighbour that is new and within the cap.
LEMMA EmitNew ==
  ASSUME NEW start \in Nodes, NEW opts, opts.maxDepth \in Nat, opts.maxVisited \in Nat,
         NEW sides \in SUBSET Directions, NEW x, Explored(x, start, opts, sides), ~x.capExceeded,
         NEW item \in Items(opts, sides), item.depth < opts.maxDepth,
         NEW n \in Nodes, n \in Ball(start, item.dir, opts, opts.maxDepth), <<n, item.dir>> \notin x.visited,
         Cardinality(x.visited \cup {<<n, item.dir>>}) <= opts.maxVisited
  PROVE  LET new == [ref |-> n, depth |-> item.depth + 1, dir |-> item.dir]
             y == [visited |-> x.visited \cup {<<n, item.dir>>}, result |-> Once(x.result, n),
                   queue |-> Append(x.queue, new), capExceeded |-> FALSE]
         IN Explored(y, start, opts, sides) /\ new \in Items(opts, sides)
<1> DEFINE p == <<n, item.dir>>
           more == x.visited \cup {p}
           new == [ref |-> n, depth |-> item.depth + 1, dir |-> item.dir]
           r == Once(x.result, n)
           q == Append(x.queue, new)
           y == [visited |-> more, result |-> r, queue |-> q, capExceeded |-> FALSE]
<1>1. item.dir \in sides /\ item.depth \in 0..opts.maxDepth
  BY DEF Items
<1>2. new \in Items(opts, sides)
  BY <1>1 DEF Items
<1>3. q \in Seq(Items(opts, sides))
  BY <1>2 DEF Explored
<1>4. r \in Seq(Nodes) /\ IsInjective(r) /\ Range(r) = Range(x.result) \cup {n}
  BY OnceIs DEF Explored
<1>5. n # start
  BY <1>1 DEF Explored
<1>6. Reached(more) = Reached(x.visited) \cup {n}
  BY DEF Reached
<1>7. more \in SUBSET (Nodes \X sides) /\ {start} \X sides \subseteq more
  BY <1>1 DEF Explored
<1>8. \A z \in more : z[1] \in Ball(start, z[2], opts, opts.maxDepth)
  BY DEF Explored
<1>9. ~(Cardinality(more) > opts.maxVisited)
  <2>1. Cardinality(more) \in Nat
    BY <1>7, VisitedAreFinite
  <2> QED
    BY <2>1
<1>10. Range(r) = Reached(more) \ {start}
  BY <1>4, <1>5, <1>6 DEF Explored
<1> HIDE DEF more, r, q, new
<1>11. y.visited = more /\ y.result = r /\ y.queue = q /\ y.capExceeded = FALSE /\ y = [visited |-> y.visited, result |-> y.result, queue |-> y.queue, capExceeded |-> y.capExceeded]
  OBVIOUS
<1> HIDE DEF y
<1>12. Explored(y, start, opts, sides)
  BY <1>3, <1>4, <1>7, <1>8, <1>9, <1>10, <1>11 DEF Explored
<1> QED
  BY <1>2, <1>12 DEF y, more, r, q, new

\* One neighbour keeps what is found, and is then visited or cut.
LEMMA EmitKeeps ==
  ASSUME NEW start \in Nodes, NEW opts, opts.maxDepth \in Nat, opts.maxVisited \in Nat,
         NEW sides \in SUBSET Directions, NEW x, Explored(x, start, opts, sides),
         NEW item \in Items(opts, sides), item.depth < opts.maxDepth,
         NEW st, st.queue \in Seq(Items(opts, sides)), Cardinality(st.visited) \in Nat,
         NEW refs \in Seq(Nodes), NEW i \in 1..Len(refs), refs[i] \in Ball(start, item.dir, opts, opts.maxDepth),
         Emitted(x, st, item, refs, i - 1)
  PROVE  LET y == emit(x, item, refs[i], opts.maxVisited)
         IN Explored(y, start, opts, sides) /\ Emitted(y, st, item, refs, i)
<1> DEFINE n == refs[i]
           p == <<n, item.dir>>
           more == x.visited \cup {p}
           new == [ref |-> n, depth |-> item.depth + 1, dir |-> item.dir]
           y == emit(x, item, n, opts.maxVisited)
<1>1. n \in Nodes /\ n \in Range(refs) /\ n \in Ball(start, item.dir, opts, opts.maxDepth)
  BY DEF Range
<1>2. item.dir \in sides /\ item.depth \in 0..opts.maxDepth
  BY DEF Items
<1>3. \A j \in 1..i : j \in 1..(i - 1) \/ j = i
  OBVIOUS
<1>4. p[1] = n /\ p[2] = item.dir
  OBVIOUS
<1>5. Len(x.queue) \in Nat /\ Len(st.queue) \in Nat
  BY DEF Explored
<1>6. x = [visited |-> x.visited, result |-> x.result, queue |-> x.queue, capExceeded |-> x.capExceeded]
  BY DEF Explored
<1>7. p = <<refs[i], item.dir>>
  OBVIOUS
<1>8. x.visited \subseteq more /\ \A z \in more : z \in x.visited \/ z = p
  OBVIOUS
<1>9. CASE x.capExceeded \/ p \in x.visited
  <2>1. y = x
    <3>1. p \in x.visited => x.visited \cup {<<n, item.dir>>} = x.visited
      OBVIOUS
    <3> HIDE DEF n
    <3> QED
      BY <1>9, <3>1 DEF emit
  <2>2. Emitted(x, st, item, refs, i)
    BY <1>3, <1>7, <1>9 DEF Emitted
  <2> QED
    BY <2>1, <2>2
<1>10. CASE ~x.capExceeded /\ p \notin x.visited /\ Cardinality(more) > opts.maxVisited
  <2>1. y = [visited |-> more, result |-> x.result, queue |-> x.queue, capExceeded |-> TRUE]
    <3>1. more # x.visited
      BY <1>10
    <3> HIDE DEF n
    <3>2. y = [x EXCEPT !.visited = more, !.capExceeded = TRUE]
      BY <1>10, <3>1 DEF emit
    <3> HIDE DEF more, y
    <3> QED
      BY <1>6, <3>2
  <2>2. more \in SUBSET (Nodes \X sides) /\ {start} \X sides \subseteq more /\ more # {start} \X sides
    BY <1>1, <1>2, <1>10 DEF Explored
  <2>3. \A z \in more : z[1] \in Ball(start, z[2], opts, opts.maxDepth)
    BY <1>1, <1>4, <1>8 DEF Explored
  <2>4. Range(x.result) \subseteq Reached(more) \ {start}
    BY <1>8 DEF Explored, Reached
  <2>5. Cardinality(more) > opts.maxVisited
    BY <1>10
  <2>6. \A z \in more \ st.visited : z[2] = item.dir /\ z[1] \in Range(refs)
    BY <1>1, <1>4, <1>8 DEF Emitted
  <2>7. st.visited \subseteq more
    BY <1>8 DEF Emitted
  <2> HIDE DEF more, y
  <2>8. y.visited = more /\ y.result = x.result /\ y.queue = x.queue /\ y.capExceeded = TRUE
        /\ y = [visited |-> y.visited, result |-> y.result, queue |-> y.queue, capExceeded |-> y.capExceeded]
    BY <2>1
  <2>9. Explored(y, start, opts, sides)
    BY <2>2, <2>3, <2>4, <2>5, <2>8 DEF Explored
  <2>10. Queued(y, st, item)
    BY <1>8, <2>8 DEF Queued, Emitted
  <2>11. Emitted(y, st, item, refs, i)
    BY <2>6, <2>7, <2>8, <2>10 DEF Emitted
  <2> QED
    BY <2>9, <2>11 DEF y
<1>11. CASE ~x.capExceeded /\ p \notin x.visited /\ ~(Cardinality(more) > opts.maxVisited)
  <2> DEFINE q == Append(x.queue, new)
  <2>1. y = [visited |-> more, result |-> Once(x.result, n), queue |-> q, capExceeded |-> FALSE]
    <3>1. more # x.visited
      BY <1>11
    <3> HIDE DEF n
    <3>2. y = [x EXCEPT !.visited = more, !.result = Once(@, n), !.queue = Append(@, new)]
      BY <1>11, <3>1 DEF emit, Once
    <3>3. x.capExceeded = FALSE
      BY <1>11 DEF Explored
    <3> DEFINE o == Once(x.result, n)
    <3>4. y = [x EXCEPT !.visited = more, !.result = o, !.queue = q]
      BY <3>2
    <3> HIDE DEF more, y, q, o
    <3>5. y = [visited |-> more, result |-> o, queue |-> q, capExceeded |-> FALSE]
      BY <1>6, <3>3, <3>4
    <3> QED
      BY <3>5 DEF o
  <2>2. Cardinality(more) <= opts.maxVisited /\ more \in SUBSET (Nodes \X sides)
        /\ Cardinality(more) = Cardinality(x.visited) + 1 /\ Cardinality(x.visited) \in Nat
    <3>1. x.visited \in SUBSET (Nodes \X sides) /\ more \in SUBSET (Nodes \X sides)
      BY <1>1, <1>2 DEF Explored
    <3>2. Cardinality(more) \in Nat
      BY <3>1, VisitedAreFinite
    <3>3. Cardinality(x.visited) \in Nat /\ Cardinality(x.visited \cup {p}) = Cardinality(x.visited) + 1
      BY <1>11, <3>1, VisitedAreFinite
    <3> QED
      BY <1>11, <3>1, <3>2, <3>3
  <2>3. Explored(y, start, opts, sides) /\ new \in Items(opts, sides)
    <3>1. <<n, item.dir>> \notin x.visited /\ Cardinality(x.visited \cup {<<n, item.dir>>}) <= opts.maxVisited
      BY <1>11, <2>2
    <3>2. new = [ref |-> n, depth |-> item.depth + 1, dir |-> item.dir] /\ q = Append(x.queue, new) /\ more = x.visited \cup {<<n, item.dir>>}
      OBVIOUS
    <3> HIDE DEF n, new, q, more, y, p
    <3>3. /\ Explored([visited |-> x.visited \cup {<<n, item.dir>>}, result |-> Once(x.result, n),
                    queue |-> Append(x.queue, [ref |-> n, depth |-> item.depth + 1, dir |-> item.dir]), capExceeded |-> FALSE],
                   start, opts, sides)
          /\ [ref |-> n, depth |-> item.depth + 1, dir |-> item.dir] \in Items(opts, sides)
      BY <1>1, <1>11, <3>1, EmitNew
    <3> QED
      BY <2>1, <3>2, <3>3
  <2>4. new.ref = n /\ new.depth = item.depth + 1 /\ new.dir = item.dir
    OBVIOUS
  <2>5. Len(q) = Len(x.queue) + 1 /\ (\A j \in 1..Len(x.queue) : q[j] = x.queue[j]) /\ q[Len(x.queue) + 1] = new
    <3>1. x.queue \in Seq(Items(opts, sides))
      BY DEF Explored
    <3> HIDE DEF new
    <3> QED
      BY <2>3, <3>1
  <2>6. y.visited = more /\ y.queue = q /\ y.capExceeded = FALSE
    BY <2>1
  <2>7. p \notin st.visited /\ st.visited \subseteq more
    BY <1>8, <1>11 DEF Emitted
  <2>8. p \in more
    OBVIOUS
  <2> HIDE DEF y, q, new, more, p
  <2>9. Queued(y, st, item)
    <3>1. Queued(x, st, item)
      BY DEF Emitted
    <3>2. Len(st.queue) <= Len(q) /\ \A j \in 1..Len(st.queue) : q[j] = st.queue[j]
      BY <1>5, <2>5, <3>1 DEF Queued
    <3>3. ASSUME NEW j \in 1..Len(q), Len(st.queue) < j
          PROVE  q[j].depth = item.depth + 1 /\ q[j].dir = item.dir /\ <<q[j].ref, item.dir>> \in more \ st.visited
      <4>1. CASE j \in 1..Len(x.queue)
        BY <1>8, <2>5, <3>1, <3>3, <4>1 DEF Queued
      <4>2. CASE j = Len(x.queue) + 1
        BY <1>7, <2>4, <2>5, <2>7, <2>8, <4>2
      <4> QED
        BY <1>5, <2>5, <4>1, <4>2
    <3> QED
      BY <2>6, <3>2, <3>3 DEF Queued
  <2>10. EachQueued(y, st)
    <3>1. EachQueued(x, st)
      BY <1>11 DEF Emitted
    <3>2. ASSUME NEW z \in more \ st.visited PROVE \E j \in 1..Len(q) : q[j].ref = z[1] /\ q[j].dir = z[2]
      <4>1. CASE z \in x.visited
        <5>1. PICK j \in 1..Len(x.queue) : x.queue[j].ref = z[1] /\ x.queue[j].dir = z[2]
          BY <3>1, <3>2, <4>1 DEF EachQueued
        <5>2. j \in 1..Len(q)
          BY <1>5, <2>5
        <5> QED
          BY <2>5, <5>1, <5>2
      <4>2. CASE z = p
        <5>1. Len(x.queue) + 1 \in 1..Len(q)
          BY <1>5, <2>5
        <5> QED
          BY <1>4, <2>4, <2>5, <4>2, <5>1
      <4> QED
        BY <1>8, <4>1, <4>2
    <3>3. Cardinality(more) + Len(st.queue) = Cardinality(st.visited) + Len(q)
      <4> DEFINE a == Cardinality(x.visited)
                 b == Cardinality(st.visited)
                 c == Len(x.queue)
                 d == Len(st.queue)
      <4>1. a + d = b + c
        BY <3>1 DEF EachQueued
      <4>2. a \in Nat /\ b \in Nat /\ c \in Nat /\ d \in Nat
        BY <1>5, <2>2
      <4>3. Cardinality(more) = a + 1 /\ Len(q) = c + 1
        BY <2>2, <2>5
      <4> HIDE DEF a, b, c, d
      <4>4. (a + 1) + d = b + (c + 1)
        BY <4>1, <4>2
      <4> QED
        BY <4>3, <4>4 DEF b, d
    <3> QED
      BY <2>6, <3>2, <3>3 DEF EachQueued
  <2>11. \A z \in more \ st.visited : z[2] = item.dir /\ z[1] \in Range(refs)
    BY <1>1, <1>4, <1>8 DEF Emitted
  <2>12. \A j \in 1..i : <<refs[j], item.dir>> \in more
    BY <1>3, <1>7, <1>8, <1>11, <2>8 DEF Emitted
  <2>13. Emitted(y, st, item, refs, i)
    BY <2>6, <2>7, <2>9, <2>10, <2>11, <2>12 DEF Emitted
  <2> QED
    BY <2>3, <2>13 DEF y
<1> QED
  BY <1>9, <1>10, <1>11

\* The states of a search.
States(opts, sides) ==
  [visited : SUBSET (Nodes \X sides), result : Seq(Nodes), queue : Seq(Items(opts, sides)), capExceeded : BOOLEAN]
\* What is explored makes a state.
LEMMA ExploredAreStates ==
  ASSUME NEW x, NEW start, NEW opts, NEW sides, Explored(x, start, opts, sides)
  PROVE  x \in States(opts, sides)
  BY DEF Explored, States

\* All the neighbours of an item.
LEMMA EmitAllIs ==
  ASSUME NEW start \in Nodes, NEW opts, opts.maxDepth \in Nat, opts.maxVisited \in Nat,
         NEW sides \in SUBSET Directions, NEW st, Explored(st, start, opts, sides),
         NEW item \in Items(opts, sides), item.depth < opts.maxDepth,
         NEW refs \in Seq(Nodes), Range(refs) \subseteq Ball(start, item.dir, opts, opts.maxDepth)
  PROVE  LET y == emitAll(st, item, refs, opts.maxVisited)
         IN Explored(y, start, opts, sides) /\ Emitted(y, st, item, refs, Len(refs))
<1> DEFINE m == Len(refs)
           S == States(opts, sides)
           max == opts.maxVisited
           Good(x, n) == Explored(x, start, opts, sides) /\ Emitted(x, st, item, refs, n)
           step == [p \in S \X (1..m) |-> emit(p[1], item, refs[p[2]], max)]
           X == [n \in 0..m |-> {x \in S : Good(x, n)}]
           Is(f) == f = [i \in 0..m |-> IF i = 0 THEN st ELSE emit(f[i - 1], item, refs[i], max)]
           after == CHOOSE f : Is(f)
<1>1. m \in Nat /\ DOMAIN refs = 1..m
  OBVIOUS
<1>2. \A n \in 0..m : \A x : x \in X[n] <=> Good(x, n)
  BY ExploredAreStates
<1>3. \A n \in 1..m : \A x \in S : step[<<x, n>>] = emit(x, item, refs[n], max)
  OBVIOUS
<1>4. emitAll(st, item, refs, max) = after[m]
  BY DEF emitAll
<1>5. Good(st, 0)
  <2>1. st.queue \in Seq(Items(opts, sides))
    BY DEF Explored
  <2>2. Len(st.queue) \in Nat
    BY <2>1
  <2>3. Queued(st, st, item)
    BY <2>2 DEF Queued
  <2>4. EachQueued(st, st)
    BY DEF EachQueued
  <2> QED
    BY <2>3, <2>4 DEF Emitted
<1>6. ASSUME NEW n \in 1..m, NEW x, Good(x, n - 1) PROVE Good(emit(x, item, refs[n], max), n) /\ x \in S
  <2>1. refs[n] \in Ball(start, item.dir, opts, opts.maxDepth) /\ n \in 1..Len(refs)
    BY <1>1 DEF Range
  <2>2. st.queue \in Seq(Items(opts, sides)) /\ Cardinality(st.visited) \in Nat
    <3>1. st.visited \in SUBSET (Nodes \X sides) /\ st.queue \in Seq(Items(opts, sides))
      BY DEF Explored
    <3> QED
      BY <3>1, VisitedAreFinite
  <2>3. Explored(x, start, opts, sides) /\ Emitted(x, st, item, refs, n - 1)
    BY <1>6
  <2> HIDE DEF m
  <2>4. Explored(emit(x, item, refs[n], opts.maxVisited), start, opts, sides) /\ Emitted(emit(x, item, refs[n], opts.maxVisited), st, item, refs, n)
    BY <2>1, <2>2, <2>3, EmitKeeps
  <2> QED
    BY <2>3, <2>4, ExploredAreStates
<1> HIDE DEF step, X, m, Good, S, max
<1>7. st \in X[0]
  <2>1. 0 \in 0..m
    BY <1>1
  <2> QED
    BY <1>2, <1>5, <2>1
<1>8. ASSUME NEW n \in 1..m, NEW x \in X[n - 1] PROVE emit(x, item, refs[n], max) \in X[n] /\ x \in S
  <2>1. n - 1 \in 0..m /\ n \in 0..m
    BY <1>1
  <2> QED
    BY <1>2, <1>6, <2>1
<1>9. \A n \in 1..m : \A x \in X[n - 1] : step[<<x, n>>] \in X[n]
  BY <1>3, <1>8
<1>10. PICK g : Folds(g, m, st, step, X)
  BY <1>1, <1>7, <1>9, FoldExists
<1>11. Is(g)
  <2>1. ASSUME NEW n \in 0..m PROVE g[n] = IF n = 0 THEN st ELSE emit(g[n - 1], item, refs[n], max)
    <3>1. g[n] = IF n = 0 THEN st ELSE step[<<g[n - 1], n>>]
      BY <1>10 DEF Folds
    <3>2. n # 0 => n \in 1..m /\ n - 1 \in 0..m
      BY <1>1
    <3>3. n # 0 => g[n - 1] \in X[n - 1]
      BY <1>10, <3>2 DEF Folds
    <3> QED
      BY <1>3, <1>8, <3>1, <3>2, <3>3
  <2>2. g = [n \in 0..m |-> g[n]]
    BY <1>10 DEF Folds
  <2> QED
    BY <2>1, <2>2
<1>12. Is(after)
  BY <1>11
<1> HIDE DEF after
<1>13. \A n \in 0..m : after[n] = IF n = 0 THEN st ELSE emit(after[n - 1], item, refs[n], max)
  BY <1>12
<1> DEFINE T == {n \in 0..m : after[n] \in X[n]}
<1>14. 0 \in T /\ \A n \in 1..m : n - 1 \in T => n \in T
  <2>1. 0 \in 0..m /\ \A n \in 1..m : n \in 0..m /\ n # 0
    BY <1>1
  <2> QED
    BY <1>7, <1>8, <1>13, <2>1
<1> HIDE DEF T
<1>15. m \in T
  <2>1. \A n \in 0..m : n \in T
    BY <1>1, <1>14, AllReached
  <2>2. m \in 0..m
    BY <1>1
  <2> QED
    BY <2>1, <2>2
<1>16. after[m] \in X[m] /\ m \in 0..m
  BY <1>1, <1>15 DEF T
<1>17. Good(after[m], m)
  BY <1>2, <1>16
<1> QED
  BY <1>4, <1>17 DEF Good, m, max

-----------------------------------------------------------------------------
(* The search, one round at a time *)

\* The items of the queue wait at their distance from the start, in order of
\* depth; a visited node waits, or lies at the depth limit, or is expanded.
Nearest(start, item, opts) ==
  /\ item.ref \in Ball(start, item.dir, opts, item.depth)
  /\ \A k \in Nat : k < item.depth => item.ref \notin Ball(start, item.dir, opts, k)
InPlace(x, start, opts) ==
  \A j \in 1..Len(x.queue) :
    <<x.queue[j].ref, x.queue[j].dir>> \in x.visited /\ Nearest(start, x.queue[j], opts)
Ordered(q) ==
  \A i, j \in 1..Len(q) : i <= j => q[i].depth <= q[j].depth /\ q[j].depth <= q[i].depth + 1
Pending(q, p) == \E j \in 1..Len(q) : q[j].ref = p[1] /\ q[j].dir = p[2]
Expanded(p, visited, opts) == \A m \in Range(walk(store, p[1], p[2], opts)) : <<m, p[2]>> \in visited
Served(x, start, opts) ==
  \A p \in x.visited : \/ Pending(x.queue, p)
                       \/ p[1] \notin Ball(start, p[2], opts, opts.maxDepth - 1)
                       \/ Expanded(p, x.visited, opts)
Waiting(x, start, opts, n) ==
  /\ InPlace(x, start, opts) /\ Ordered(x.queue) /\ Served(x, start, opts)
  /\ Len(x.queue) = 0 \/ Cardinality(x.visited) = n + Len(x.queue)

\* The nodes less far than all that waits are visited.
LEMMA ClosedIs ==
  ASSUME NEW start \in Nodes, NEW opts, opts.maxDepth \in Nat \ {0}, NEW sides \in SUBSET Directions,
         NEW x, Explored(x, start, opts, sides), InPlace(x, start, opts), Served(x, start, opts),
         NEW d \in sides, NEW k \in 0..opts.maxDepth,
         \A j \in 1..Len(x.queue) : x.queue[j].dir = d => k <= x.queue[j].depth
  PROVE  \A v \in Ball(start, d, opts, k) : <<v, d>> \in x.visited
<1> DEFINE B(j) == Ball(start, d, opts, j)
           T == {j \in 0..k : \A v \in B(j) : <<v, d>> \in x.visited}
<1>1. k \in Nat /\ d \in Directions /\ opts.maxDepth - 1 \in Nat
  OBVIOUS
<1>2. B(0) = {start} /\ (\A j \in Nat : B(j + 1) = Beyond(start, d, opts, B(j))) /\ \A i, j \in Nat : i <= j => B(i) \subseteq B(j)
  BY <1>1, BallIs
<1>3. 0 \in T
  BY <1>1, <1>2 DEF Explored
<1>4. ASSUME NEW j \in 1..k, j - 1 \in T PROVE j \in T
  <2>1. j - 1 \in Nat /\ (j - 1) + 1 = j /\ j \in 0..k /\ j - 1 <= opts.maxDepth - 1 /\ j - 1 < k
    OBVIOUS
  <2>2. SUFFICES ASSUME NEW v \in B(j) PROVE <<v, d>> \in x.visited
    BY <2>1
  <2>3. v \in Beyond(start, d, opts, B(j - 1))
    BY <1>2, <2>1
  <2>4. CASE v = start
    BY <2>4 DEF Explored
  <2>5. CASE v # start
    <3>1. PICK m \in B(j - 1) : v \in Range(walk(store, m, d, opts))
      BY <2>3, <2>5 DEF Beyond
    <3>2. <<m, d>> \in x.visited
      BY <1>4, <3>1
    <3>3. m \in B(opts.maxDepth - 1)
      BY <1>1, <1>2, <2>1, <3>1
    <3>4. ~Pending(x.queue, <<m, d>>)
      <4> SUFFICES ASSUME NEW i \in 1..Len(x.queue), x.queue[i].ref = m, x.queue[i].dir = d PROVE FALSE
        BY DEF Pending
      <4>1. Nearest(start, x.queue[i], opts) /\ k <= x.queue[i].depth
        BY DEF InPlace
      <4>2. x.queue[i].depth \in Nat
        <5>1. x.queue \in Seq(Items(opts, sides))
          BY DEF Explored
        <5>2. x.queue[i] \in Items(opts, sides)
          BY <5>1
        <5> QED
          BY <5>2 DEF Items
      <4>3. j - 1 < x.queue[i].depth
        BY <2>1, <4>1, <4>2
      <4> QED
        BY <2>1, <3>1, <4>1, <4>3 DEF Nearest
    <3>5. Expanded(<<m, d>>, x.visited, opts)
      BY <3>2, <3>3, <3>4 DEF Served
    <3> QED
      BY <3>1, <3>5 DEF Expanded
  <2> QED
    BY <2>4, <2>5
<1> HIDE DEF T
<1>5. \A j \in 0..k : j \in T
  BY <1>1, <1>3, <1>4, AllReached
<1>6. k \in 0..k
  BY <1>1
<1> QED
  BY <1>5, <1>6 DEF T

\* The queue without its first item.
LEMMA TailIs ==
  ASSUME NEW S, NEW q \in Seq(S), q # << >>
  PROVE  /\ Head(q) \in S /\ Head(q) = q[1] /\ 1 \in 1..Len(q)
         /\ Tail(q) \in Seq(S) /\ Len(q) \in Nat \ {0} /\ Len(Tail(q)) = Len(q) - 1
         /\ \A j \in 1..Len(Tail(q)) : j + 1 \in 1..Len(q) /\ Tail(q)[j] = q[j + 1]
         /\ \A j \in 1..Len(q) : j # 1 => j - 1 \in 1..Len(Tail(q)) /\ Tail(q)[j - 1] = q[j]
  OBVIOUS

\* What is left when an item is taken from the queue.
LEMMA RestIs ==
  ASSUME NEW x, NEW start, NEW opts, NEW sides, Explored(x, start, opts, sides), x.queue # << >>
  PROVE  LET rest == [x EXCEPT !.queue = Tail(@)]
         IN /\ rest.visited = x.visited /\ rest.capExceeded = x.capExceeded /\ rest.queue = Tail(x.queue)
            /\ Explored(rest, start, opts, sides)
<1> DEFINE rest == [x EXCEPT !.queue = Tail(@)]
           q == Tail(x.queue)
<1>1. x = [visited |-> x.visited, result |-> x.result, queue |-> x.queue, capExceeded |-> x.capExceeded]
  BY DEF Explored
<1>2. q \in Seq(Items(opts, sides))
  BY TailIs DEF Explored
<1>3. rest = [x EXCEPT !.queue = q]
  OBVIOUS
<1> HIDE DEF rest, q
<1>4. rest = [visited |-> x.visited, result |-> x.result, queue |-> q, capExceeded |-> x.capExceeded]
  BY <1>1, <1>3
<1>5. rest.visited = x.visited /\ rest.result = x.result /\ rest.queue = q /\ rest.capExceeded = x.capExceeded
      /\ rest = [visited |-> rest.visited, result |-> rest.result, queue |-> rest.queue, capExceeded |-> rest.capExceeded]
  BY <1>4
<1>6. Explored(rest, start, opts, sides)
  BY <1>2, <1>5 DEF Explored
<1> QED
  BY <1>5, <1>6 DEF rest, q

\* A round that takes an item at the depth limit.
LEMMA AtLimitKeeps ==
  ASSUME NEW start \in Nodes, NEW opts, opts.maxDepth \in Nat \ {0},
         NEW sides \in SUBSET Directions, NEW x, Explored(x, start, opts, sides), x.queue # << >>,
         NEW n \in Nat, Waiting(x, start, opts, n), x.queue[1].depth >= opts.maxDepth,
         NEW rest, rest.visited = x.visited, rest.queue = Tail(x.queue)
  PROVE  Waiting(rest, start, opts, n + 1)
<1> DEFINE q == x.queue
           u == Tail(q)
           V == x.visited
<1>1. q \in Seq(Items(opts, sides))
  BY DEF Explored
<1>2. /\ q[1] \in Items(opts, sides) /\ 1 \in 1..Len(q) /\ Len(q) \in Nat \ {0} /\ Len(u) = Len(q) - 1
      /\ \A j \in 1..Len(u) : j + 1 \in 1..Len(q) /\ u[j] = q[j + 1]
      /\ \A j \in 1..Len(q) : j # 1 => j - 1 \in 1..Len(u) /\ u[j - 1] = q[j]
  BY <1>1, TailIs
<1>3. rest.visited = V /\ rest.queue = u
  OBVIOUS
<1>4. \A j \in 1..Len(q) : <<q[j].ref, q[j].dir>> \in V /\ Nearest(start, q[j], opts)
  BY DEF Waiting, InPlace
<1>5. \A i, j \in 1..Len(q) : i <= j => q[i].depth <= q[j].depth /\ q[j].depth <= q[i].depth + 1
  BY DEF Waiting, Ordered
<1>6. Len(q) = 0 \/ Cardinality(V) = n + Len(q)
  BY DEF Waiting
<1>7. q[1].depth >= opts.maxDepth /\ q[1].depth \in Nat
  BY <1>2 DEF Items
<1>8. \A p \in V : Pending(q, p) \/ p[1] \notin Ball(start, p[2], opts, opts.maxDepth - 1) \/ Expanded(p, V, opts)
  BY DEF Waiting, Served
<1> HIDE DEF q, u, V
<1>9. InPlace(rest, start, opts)
  BY <1>2, <1>3, <1>4 DEF InPlace
<1>10. Ordered(u)
  <2> SUFFICES ASSUME NEW i \in 1..Len(u), NEW j \in 1..Len(u), i <= j
               PROVE  u[i].depth <= u[j].depth /\ u[j].depth <= u[i].depth + 1
    BY DEF Ordered
  <2>1. i + 1 \in 1..Len(q) /\ j + 1 \in 1..Len(q) /\ i + 1 <= j + 1 /\ u[i] = q[i + 1] /\ u[j] = q[j + 1]
    BY <1>2
  <2> QED
    BY <1>5, <2>1
<1>11. Served(rest, start, opts)
  <2> SUFFICES ASSUME NEW p \in V, Pending(q, p)
               PROVE  Pending(u, p) \/ p[1] \notin Ball(start, p[2], opts, opts.maxDepth - 1)
    BY <1>3, <1>8 DEF Served
  <2>1. PICK j \in 1..Len(q) : q[j].ref = p[1] /\ q[j].dir = p[2]
    BY DEF Pending
  <2>2. CASE j = 1
    <3>1. opts.maxDepth - 1 \in Nat /\ opts.maxDepth - 1 < q[1].depth
      BY <1>7
    <3>2. q[1].ref \notin Ball(start, q[1].dir, opts, opts.maxDepth - 1)
      BY <1>2, <1>4, <3>1 DEF Nearest
    <3> QED
      BY <2>1, <2>2, <3>2
  <2>3. CASE j # 1
    <3>1. j - 1 \in 1..Len(u) /\ u[j - 1] = q[j]
      BY <1>2, <2>3
    <3> QED
      BY <2>1, <3>1 DEF Pending
  <2> QED
    BY <2>2, <2>3
<1>12. Len(u) = 0 \/ Cardinality(V) = (n + 1) + Len(u)
  BY <1>2, <1>6
<1> QED
  BY <1>3, <1>9, <1>10, <1>11, <1>12 DEF Waiting

\* A round that expands an item.
LEMMA ExpandKeeps ==
  ASSUME NEW start \in Nodes, NEW opts, opts.maxDepth \in Nat \ {0},
         NEW sides \in SUBSET Directions, NEW x, Explored(x, start, opts, sides), x.queue # << >>,
         NEW n \in Nat, Waiting(x, start, opts, n), x.queue[1].depth < opts.maxDepth,
         NEW rest, rest.visited = x.visited, rest.queue = Tail(x.queue),
         NEW refs, Range(refs) = Range(walk(store, x.queue[1].ref, x.queue[1].dir, opts)), DOMAIN refs = 1..Len(refs),
         NEW y, Explored(y, start, opts, sides), ~y.capExceeded, Emitted(y, rest, x.queue[1], refs, Len(refs))
  PROVE  Waiting(y, start, opts, n + 1)
<1> DEFINE q == x.queue
           u == Tail(q)
           w == y.queue
           V == x.visited
           item == q[1]
           d == item.dir
           k == item.depth
<1>1. q \in Seq(Items(opts, sides)) /\ w \in Seq(Items(opts, sides)) /\ V \in SUBSET (Nodes \X sides) /\ y.visited \in SUBSET (Nodes \X sides)
  BY DEF Explored
<1>2. /\ item \in Items(opts, sides) /\ 1 \in 1..Len(q) /\ Len(q) \in Nat \ {0} /\ Len(u) = Len(q) - 1
      /\ \A j \in 1..Len(u) : j + 1 \in 1..Len(q) /\ u[j] = q[j + 1]
      /\ \A j \in 1..Len(q) : j # 1 => j - 1 \in 1..Len(u) /\ u[j - 1] = q[j]
  BY <1>1, TailIs
<1>3. Len(w) \in Nat /\ Len(u) \in Nat
  BY <1>1, <1>2
<1>4. \A j \in 1..Len(q) : <<q[j].ref, q[j].dir>> \in V /\ Nearest(start, q[j], opts)
  BY DEF Waiting, InPlace
<1>5. \A i, j \in 1..Len(q) : i <= j => q[i].depth <= q[j].depth /\ q[j].depth <= q[i].depth + 1
  BY DEF Waiting, Ordered
<1>6. Len(q) = 0 \/ Cardinality(V) = n + Len(q)
  BY DEF Waiting
<1>7. k < opts.maxDepth /\ k \in Nat /\ d \in sides /\ d \in Directions /\ \A j \in 1..Len(q) : q[j].depth \in Nat
  <2>1. \A j \in 1..Len(q) : q[j] \in Items(opts, sides)
    BY <1>1
  <2>2. \A i \in Items(opts, sides) : i.depth \in Nat /\ i.dir \in sides
    BY DEF Items
  <2>3. \A j \in 1..Len(q) : q[j].depth \in Nat
    BY <2>1, <2>2
  <2>4. k \in Nat /\ d \in sides
    BY <1>2, <2>2
  <2> QED
    BY <2>3, <2>4
<1>8. \A p \in V : Pending(q, p) \/ p[1] \notin Ball(start, p[2], opts, opts.maxDepth - 1) \/ Expanded(p, V, opts)
  BY DEF Waiting, Served
<1>9. V \subseteq y.visited
  BY DEF Emitted
<1>10. \A p \in y.visited \ V : p[2] = d /\ p[1] \in Range(refs)
  BY DEF Emitted
<1>11. Len(u) <= Len(w) /\ \A j \in 1..Len(u) : w[j] = u[j]
  BY DEF Emitted, Queued
<1>12. \A j \in 1..Len(w) : Len(u) < j => w[j].depth = k + 1 /\ w[j].dir = d /\ <<w[j].ref, d>> \in y.visited \ V
  BY DEF Emitted, Queued
<1>13. \A p \in y.visited \ V : Pending(w, p)
  BY DEF Emitted, EachQueued, Pending
<1>14. Cardinality(y.visited) + Len(u) = Cardinality(V) + Len(w)
  BY DEF Emitted, EachQueued
<1>15. \A j \in 1..Len(refs) : <<refs[j], d>> \in y.visited
  BY DEF Emitted
<1>16. Cardinality(V) \in Nat /\ Cardinality(y.visited) \in Nat
  BY <1>1, VisitedAreFinite
<1>17. \A v \in Ball(start, d, opts, k) : <<v, d>> \in V
  <2>1. \A j \in 1..Len(x.queue) : k <= x.queue[j].depth
    BY <1>2, <1>5
  <2>2. k \in 0..opts.maxDepth
    BY <1>7
  <2>3. InPlace(x, start, opts) /\ Served(x, start, opts)
    BY DEF Waiting
  <2> HIDE DEF k, d
  <2> QED
    BY <1>7, <2>1, <2>2, <2>3, ClosedIs
<1>18. \A v \in Range(refs) : v \in Ball(start, d, opts, k + 1)
  <2>1. Ball(start, d, opts, k + 1) = Beyond(start, d, opts, Ball(start, d, opts, k))
    <3>1. k \in Nat /\ d \in Directions
      BY <1>7
    <3> HIDE DEF item, k, d, q, u, w, V
    <3> QED
      BY <3>1, NextBall
  <2>2. item.ref \in Ball(start, d, opts, k)
    BY <1>2, <1>4 DEF Nearest
  <2>3. Range(refs) = Range(walk(store, item.ref, d, opts))
    OBVIOUS
  <2> HIDE DEF item, d, k
  <2> QED
    BY <2>1, <2>2, <2>3 DEF Beyond
<1>19. \A v \in Range(walk(store, item.ref, d, opts)) : <<v, d>> \in y.visited
  BY <1>15 DEF Range
<1>20. \A i, j \in Nat : i <= j => Ball(start, d, opts, i) \subseteq Ball(start, d, opts, j)
  BY <1>7, BallIs
<1> HIDE DEF q, u, w, V, item, d, k
<1>21. item = q[1] /\ d = item.dir /\ k = item.depth /\ w = y.queue
  BY DEF item, d, k, q, w
<1>22. \A j \in 1..Len(w) : j \in 1..Len(u) \/ Len(u) < j
  BY <1>3
<1>23. InPlace(y, start, opts)
  <2> SUFFICES ASSUME NEW j \in 1..Len(w) PROVE <<w[j].ref, w[j].dir>> \in y.visited /\ Nearest(start, w[j], opts)
    BY <1>21 DEF InPlace
  <2>1. CASE j \in 1..Len(u)
    <3>1. j + 1 \in 1..Len(q) /\ w[j] = q[j + 1]
      BY <1>2, <1>11, <2>1
    <3>2. <<q[j + 1].ref, q[j + 1].dir>> \in V /\ Nearest(start, q[j + 1], opts)
      BY <1>4, <3>1
    <3> QED
      BY <1>9, <3>1, <3>2
  <2>2. CASE Len(u) < j
    <3>1. w[j].depth = k + 1 /\ w[j].dir = d /\ <<w[j].ref, d>> \in y.visited /\ <<w[j].ref, d>> \notin V
      BY <1>12, <2>2
    <3>2. w[j].ref \in Ball(start, d, opts, k + 1)
      BY <1>10, <1>18, <3>1
    <3>3. ASSUME NEW i \in Nat, i < k + 1, w[j].ref \in Ball(start, d, opts, i) PROVE FALSE
      <4>1. i <= k
        BY <1>7, <3>3
      <4>2. w[j].ref \in Ball(start, d, opts, k)
        BY <1>7, <1>20, <3>3, <4>1
      <4> QED
        BY <1>17, <3>1, <4>2
    <3> QED
      BY <3>1, <3>2, <3>3 DEF Nearest
  <2> QED
    BY <1>22, <2>1, <2>2
<1>24. Ordered(w)
  <2> SUFFICES ASSUME NEW i \in 1..Len(w), NEW j \in 1..Len(w), i <= j
               PROVE  w[i].depth <= w[j].depth /\ w[j].depth <= w[i].depth + 1
    BY DEF Ordered
  <2>1. \A l \in 1..Len(u) : l + 1 \in 1..Len(q) /\ w[l] = q[l + 1] /\ w[l].depth \in Nat /\ k <= w[l].depth /\ w[l].depth <= k + 1
    <3> TAKE l \in 1..Len(u)
    <3>1. l + 1 \in 1..Len(q) /\ w[l] = q[l + 1] /\ 1 <= l + 1
      BY <1>2, <1>11
    <3> QED
      BY <1>2, <1>5, <1>7, <1>21, <3>1
  <2>2. CASE j \in 1..Len(u)
    <3>1. i \in 1..Len(u) /\ i + 1 <= j + 1
      BY <1>3, <2>2
    <3> QED
      BY <1>5, <2>1, <2>2, <3>1
  <2>3. CASE Len(u) < j /\ i \in 1..Len(u)
    <3>1. w[j].depth = k + 1 /\ k <= w[i].depth /\ w[i].depth <= k + 1 /\ w[i].depth \in Nat
      BY <1>12, <2>1, <2>3
    <3> QED
      BY <1>7, <3>1
  <2>4. CASE Len(u) < j /\ Len(u) < i
    <3>1. w[j].depth = k + 1 /\ w[i].depth = k + 1
      BY <1>12, <2>4
    <3> QED
      BY <1>7, <3>1
  <2> QED
    BY <1>22, <2>2, <2>3, <2>4
<1>25. Served(y, start, opts)
  <2> SUFFICES ASSUME NEW p \in V
               PROVE  \/ Pending(w, p) \/ p[1] \notin Ball(start, p[2], opts, opts.maxDepth - 1) \/ Expanded(p, y.visited, opts)
    BY <1>13, <1>21 DEF Served
  <2>1. CASE Expanded(p, V, opts)
    BY <1>9, <2>1 DEF Expanded
  <2>2. CASE Pending(q, p)
    <3>1. PICK j \in 1..Len(q) : q[j].ref = p[1] /\ q[j].dir = p[2]
      BY <2>2 DEF Pending
    <3>2. CASE j = 1
      BY <1>19, <1>21, <3>1, <3>2 DEF Expanded
    <3>3. CASE j # 1
      <4>1. j - 1 \in 1..Len(u) /\ u[j - 1] = q[j]
        BY <1>2, <3>3
      <4>2. j - 1 \in 1..Len(w) /\ w[j - 1] = q[j]
        BY <1>3, <1>11, <4>1
      <4> QED
        BY <3>1, <4>2 DEF Pending
    <3> QED
      BY <3>2, <3>3
  <2> QED
    BY <1>8, <2>1, <2>2
<1>26. Cardinality(y.visited) = (n + 1) + Len(w)
  <2> DEFINE a == Cardinality(y.visited)
             b == Cardinality(V)
             c == Len(w)
             e == Len(q)
             g == Len(u)
  <2>1. b = n + e /\ g = e - 1 /\ a + g = b + c
    BY <1>2, <1>6, <1>14
  <2>2. a \in Nat /\ b \in Nat /\ c \in Nat /\ e \in Nat /\ g \in Nat
    BY <1>2, <1>3, <1>16
  <2> HIDE DEF a, b, c, e, g
  <2>3. a = (n + 1) + c
    BY <2>1, <2>2
  <2> QED
    BY <2>3 DEF a, c
<1> QED
  BY <1>21, <1>23, <1>24, <1>25, <1>26 DEF Waiting

\* What holds of a search after n rounds.
Searched(x, start, opts, sides, n) ==
  Explored(x, start, opts, sides) /\ (~x.capExceeded => Waiting(x, start, opts, n))

\* A round finds nodes that are reached, and keeps the queue waiting.
LEMMA RoundKeeps ==
  ASSUME NEW start \in Nodes, NEW opts, opts.maxDepth \in Nat \ {0}, opts.maxVisited \in Nat,
         NEW sides \in SUBSET Directions, NEW n \in Nat, NEW x, Searched(x, start, opts, sides, n)
  PROVE  Searched(round(store, opts, x), start, opts, sides, n + 1)
<1> DEFINE item == Head(x.queue)
           rest == [x EXCEPT !.queue = Tail(@)]
           refs == walk(store, item.ref, item.dir, opts)
           y == emitAll(rest, item, refs, opts.maxVisited)
<1>1. Explored(x, start, opts, sides)
  BY DEF Searched
<1>2. x.queue \in Seq(Items(opts, sides))
  BY <1>1 DEF Explored
<1>3. CASE x.queue = << >> \/ x.capExceeded
  <2>1. round(store, opts, x) = x
    BY <1>3 DEF round
  <2>2. Waiting(x, start, opts, n) /\ x.queue = << >> => Waiting(x, start, opts, n + 1)
    BY DEF Waiting
  <2> QED
    BY <1>1, <1>3, <2>1, <2>2 DEF Searched
<1>4. CASE x.queue # << >> /\ ~x.capExceeded
  <2>1. Waiting(x, start, opts, n)
    BY <1>4 DEF Searched
  <2>2. item = x.queue[1] /\ item \in Items(opts, sides) /\ 1 \in 1..Len(x.queue)
    BY <1>2, <1>4, TailIs
  <2>3. /\ rest.visited = x.visited /\ rest.capExceeded = x.capExceeded /\ rest.queue = Tail(x.queue)
        /\ Explored(rest, start, opts, sides)
    BY <1>1, <1>4, RestIs
  <2>4. round(store, opts, x) = IF atLimit(item, opts) THEN rest ELSE y
    BY <1>4 DEF round
  <2>5. item.depth \in Nat /\ item.dir \in sides /\ item.dir \in Directions
    BY <2>2 DEF Items
  <2>6. refs \in Seq(Nodes)
    BY <2>5, WalkIs
  <2> HIDE DEF item, rest, refs, y
  <2>7. CASE item.depth >= opts.maxDepth
    <3>1. Waiting(rest, start, opts, n + 1)
      BY <1>1, <1>4, <2>1, <2>2, <2>3, <2>7, AtLimitKeeps
    <3> QED
      BY <2>3, <2>4, <2>7, <3>1 DEF atLimit, Searched
  <2>8. CASE ~(item.depth >= opts.maxDepth)
    <3>1. item.depth < opts.maxDepth
      BY <2>5, <2>8
    <3>2. Range(refs) \subseteq Ball(start, item.dir, opts, opts.maxDepth)
      <4> DEFINE d == item.dir
                 k == item.depth
      <4>1. item.ref \in Ball(start, d, opts, k)
        BY <2>1, <2>2 DEF Waiting, InPlace, Nearest
      <4>2. Range(refs) = Range(walk(store, item.ref, d, opts))
        BY DEF refs
      <4>3. k \in Nat /\ k + 1 \in Nat /\ k + 1 <= opts.maxDepth /\ d \in Directions
        BY <2>5, <3>1
      <4> HIDE DEF d, k
      <4>4. Ball(start, d, opts, k + 1) = Beyond(start, d, opts, Ball(start, d, opts, k))
        BY <4>3, BallIs
      <4>5. Ball(start, d, opts, k + 1) \subseteq Ball(start, d, opts, opts.maxDepth)
        BY <4>3, BallIs
      <4>6. Range(refs) \subseteq Beyond(start, d, opts, Ball(start, d, opts, k))
        BY <4>1, <4>2 DEF Beyond
      <4> QED
        BY <4>4, <4>5, <4>6 DEF d
    <3>3. Explored(y, start, opts, sides) /\ Emitted(y, rest, item, refs, Len(refs))
      BY <2>2, <2>3, <2>6, <3>1, <3>2, EmitAllIs DEF y
    <3>4. ~y.capExceeded => Waiting(y, start, opts, n + 1)
      <4>1. Range(refs) = Range(walk(store, x.queue[1].ref, x.queue[1].dir, opts))
        BY <2>2 DEF refs
      <4>2. DOMAIN refs = 1..Len(refs)
        BY <2>6
      <4>3. Emitted(y, rest, x.queue[1], refs, Len(refs)) /\ x.queue[1].depth < opts.maxDepth
        BY <2>2, <3>1, <3>3
      <4> QED
        BY <1>1, <1>4, <2>1, <2>3, <3>3, <4>1, <4>2, <4>3, ExpandKeeps
    <3> QED
      BY <2>4, <2>8, <3>3, <3>4 DEF atLimit, Searched
  <2> QED
    BY <2>7, <2>8
<1> QED
  BY <1>3, <1>4

\* There are at most two pairs for each node.
LEMMA PairsAtMost ==
  ASSUME NEW sides \in SUBSET Directions
  PROVE  /\ IsFiniteSet(Nodes \X sides) /\ Cardinality(Nodes \X sides) \in Nat
         /\ Cardinality(Nodes \X sides) <= 2 * Cardinality(Nodes)
<1>1. IsFiniteSet(Nodes) /\ Cardinality(Nodes) \in Nat
  BY GraphAssumption, FS_CardinalityType DEF GraphAssumption
<1>2. IsFiniteSet(Directions) /\ Cardinality(Directions) = 2
  <2>1. IsFiniteSet({"Forward"}) /\ Cardinality({"Forward"}) = 1
    BY FS_Singleton
  <2>2. "Reverse" \notin {"Forward"}
    OBVIOUS
  <2>3. IsFiniteSet({"Forward"} \cup {"Reverse"}) /\ Cardinality({"Forward"} \cup {"Reverse"}) = 1 + 1
    BY <2>1, <2>2, FS_AddElement
  <2>4. {"Forward"} \cup {"Reverse"} = Directions
    BY DEF Directions
  <2> QED
    BY <2>3, <2>4
<1>3. IsFiniteSet(sides) /\ Cardinality(sides) \in Nat /\ Cardinality(sides) <= 2
  BY <1>2, FS_Subset, FS_CardinalityType
<1>4. IsFiniteSet(Nodes \X sides) /\ Cardinality(Nodes \X sides) = Cardinality(Nodes) * Cardinality(sides)
  BY <1>1, <1>3, FS_Product
<1> DEFINE a == Cardinality(Nodes)
           b == Cardinality(sides)
<1>5. a \in Nat /\ b \in {0, 1, 2} /\ Cardinality(Nodes \X sides) = a * b
  BY <1>1, <1>3, <1>4
<1> HIDE DEF a, b
<1>6. a * b \in Nat /\ a * b <= 2 * a
  <2>1. CASE b = 0
    BY <1>5, <2>1
  <2>2. CASE b = 1
    BY <1>5, <2>2
  <2>3. CASE b = 2
    BY <1>5, <2>3
  <2> QED
    BY <1>5, <2>1, <2>2, <2>3
<1> QED
  BY <1>4, <1>5, <1>6 DEF a

\* The rounds of run end with an empty queue, or are cut.
LEMMA RunIs ==
  ASSUME NEW start \in Nodes, NEW opts, opts.maxDepth \in Nat \ {0}, opts.maxVisited \in Nat,
         NEW sides \in SUBSET Directions, NEW st, Searched(st, start, opts, sides, 0)
  PROVE  LET y == run(store, opts, st)
         IN Explored(y, start, opts, sides) /\ (~y.capExceeded => Served(y, start, opts) /\ y.queue = << >>)
<1> DEFINE m == 2 * Cardinality(Nodes)
           S == States(opts, sides)
           Good(x, n) == Searched(x, start, opts, sides, n)
           step == [p \in S \X (1..m) |-> round(store, opts, p[1])]
           X == [n \in 0..m |-> {x \in S : Good(x, n)}]
           Is(f) == f = [n \in 0..m |-> IF n = 0 THEN st ELSE round(store, opts, f[n - 1])]
           after == CHOOSE f : Is(f)
           y == after[m]
<1>1. m \in Nat /\ Cardinality(Nodes) \in Nat
  <2>1. Cardinality(Nodes) \in Nat
    BY GraphAssumption, FS_CardinalityType DEF GraphAssumption
  <2> QED
    BY <2>1
<1>2. \A n \in 0..m : \A x : x \in X[n] <=> Good(x, n)
  BY ExploredAreStates DEF Searched
<1>3. \A n \in 1..m : \A x \in S : step[<<x, n>>] = round(store, opts, x)
  OBVIOUS
<1>4. run(store, opts, st) = y
  BY DEF run
<1>5. ASSUME NEW n \in 1..m, NEW x, Good(x, n - 1) PROVE Good(round(store, opts, x), n) /\ x \in S
  <2>1. n - 1 \in Nat /\ (n - 1) + 1 = n
    BY <1>1
  <2>2. x \in S
    BY <1>5, ExploredAreStates DEF Searched
  <2>3. Searched(round(store, opts, x), start, opts, sides, (n - 1) + 1)
    BY <1>5, <2>1, RoundKeeps
  <2> QED
    BY <2>1, <2>2, <2>3
<1> HIDE DEF step, X, m, S, y
<1>6. st \in X[0]
  <2>1. 0 \in 0..m
    BY <1>1
  <2> QED
    BY <1>2, <2>1
<1> HIDE DEF Good
<1>7. ASSUME NEW n \in 1..m, NEW x \in X[n - 1] PROVE round(store, opts, x) \in X[n] /\ x \in S
  <2>1. n - 1 \in 0..m /\ n \in 0..m
    BY <1>1
  <2> QED
    BY <1>2, <1>5, <2>1
<1>8. \A n \in 1..m : \A x \in X[n - 1] : step[<<x, n>>] \in X[n]
  BY <1>3, <1>7
<1>9. PICK g : Folds(g, m, st, step, X)
  BY <1>1, <1>6, <1>8, FoldExists
<1>10. Is(g)
  <2>1. ASSUME NEW n \in 0..m PROVE g[n] = IF n = 0 THEN st ELSE round(store, opts, g[n - 1])
    <3>1. g[n] = IF n = 0 THEN st ELSE step[<<g[n - 1], n>>]
      BY <1>9 DEF Folds
    <3>2. n # 0 => n \in 1..m /\ n - 1 \in 0..m
      BY <1>1
    <3>3. n # 0 => g[n - 1] \in X[n - 1]
      BY <1>9, <3>2 DEF Folds
    <3> QED
      BY <1>3, <1>7, <3>1, <3>2, <3>3
  <2>2. g = [n \in 0..m |-> g[n]]
    BY <1>9 DEF Folds
  <2> QED
    BY <2>1, <2>2
<1>11. Is(after)
  BY <1>10
<1> HIDE DEF after
<1>12. \A n \in 0..m : after[n] = IF n = 0 THEN st ELSE round(store, opts, after[n - 1])
  BY <1>11
<1> DEFINE T == {n \in 0..m : after[n] \in X[n]}
<1>13. 0 \in T /\ \A n \in 1..m : n - 1 \in T => n \in T
  <2>1. 0 \in 0..m /\ \A n \in 1..m : n \in 0..m /\ n # 0
    BY <1>1
  <2> QED
    BY <1>6, <1>7, <1>12, <2>1
<1> HIDE DEF T
<1>14. m \in T
  <2>1. \A n \in 0..m : n \in T
    BY <1>1, <1>13, AllReached
  <2>2. m \in 0..m
    BY <1>1
  <2> QED
    BY <2>1, <2>2
<1>15. Searched(y, start, opts, sides, m)
  <2>1. after[m] \in X[m] /\ m \in 0..m
    BY <1>1, <1>14 DEF T
  <2>2. Good(after[m], m)
    BY <1>2, <2>1
  <2> QED
    BY <2>2 DEF Good, y
<1>16. ASSUME ~y.capExceeded PROVE Served(y, start, opts) /\ y.queue = << >>
  <2>1. Waiting(y, start, opts, m) /\ y.queue \in Seq(Items(opts, sides)) /\ y.visited \in SUBSET (Nodes \X sides)
    BY <1>15, <1>16 DEF Searched, Explored
  <2>2. Cardinality(y.visited) \in Nat /\ Cardinality(y.visited) <= m
    <3>1. IsFiniteSet(Nodes \X sides) /\ Cardinality(Nodes \X sides) <= m /\ Cardinality(Nodes \X sides) \in Nat
      BY PairsAtMost DEF m
    <3>2. Cardinality(y.visited) <= Cardinality(Nodes \X sides) /\ Cardinality(y.visited) \in Nat
      BY <2>1, <3>1, FS_Subset, FS_CardinalityType
    <3> QED
      BY <1>1, <3>1, <3>2
  <2>3. Len(y.queue) \in Nat
    BY <2>1
  <2>4. Len(y.queue) = 0 \/ Cardinality(y.visited) = m + Len(y.queue)
    BY <2>1 DEF Waiting
  <2>5. Len(y.queue) = 0
    BY <1>1, <2>2, <2>3, <2>4
  <2>6. Served(y, start, opts)
    BY <2>1 DEF Waiting
  <2> QED
    BY <2>1, <2>5, <2>6
<1> QED
  BY <1>4, <1>15, <1>16 DEF Searched

\* The state a search starts from.
LEMMA InitialIs ==
  ASSUME NEW start \in Nodes, NEW opts, opts.maxDepth \in Nat \ {0}, opts.maxVisited \in Nat,
         opts.direction \in {"Forward", "Reverse", "Both"}
  PROVE  LET sides == Range(Sides(opts.direction))
         IN sides \in SUBSET Directions /\ Searched(newBFSState(start, opts), start, opts, sides, 0)
<1> DEFINE s == Sides(opts.direction)
           sides == Range(s)
           q == [i \in DOMAIN s |-> [ref |-> start, depth |-> 0, dir |-> s[i]]]
           V == {<<start, s[i]>> : i \in DOMAIN s}
           x == newBFSState(start, opts)
<1>1. /\ Len(s) \in {1, 2} /\ DOMAIN s = 1..Len(s) /\ \A i \in 1..Len(s) : s[i] \in Directions
      /\ \A i, j \in 1..Len(s) : s[i] = s[j] => i = j
  <2>1. CASE opts.direction = "Both"
    BY <2>1 DEF Sides, Directions
  <2>2. CASE opts.direction # "Both"
    BY <2>2 DEF Sides, Directions
  <2> QED
    BY <2>1, <2>2
<1>2. x = [visited |-> V, result |-> << >>, queue |-> q, capExceeded |-> FALSE]
  BY DEF newBFSState
<1> HIDE DEF s, x
<1>3. sides \in SUBSET Directions /\ \A i \in 1..Len(s) : s[i] \in sides
  BY <1>1 DEF Range
<1>4. V = {start} \X sides
  BY <1>1 DEF Range
<1>5. /\ q \in Seq(Items(opts, sides)) /\ Len(q) = Len(s)
      /\ \A i \in 1..Len(s) : q[i].ref = start /\ q[i].depth = 0 /\ q[i].dir = s[i]
  <2>1. \A i \in 1..Len(s) : [ref |-> start, depth |-> 0, dir |-> s[i]] \in Items(opts, sides)
    BY <1>3 DEF Items
  <2>2. q = [i \in 1..Len(s) |-> [ref |-> start, depth |-> 0, dir |-> s[i]]] /\ Len(s) \in Nat
    BY <1>1
  <2>3. q \in Seq(Items(opts, sides)) /\ Len(q) = Len(s)
    BY <2>1, <2>2
  <2> QED
    BY <2>2, <2>3
<1>6. Cardinality(V) = Len(s)
  <2>1. CASE Len(s) = 1
    <3>1. V = {<<start, s[1]>>}
      BY <1>1, <2>1
    <3> QED
      BY <2>1, <3>1, FS_Singleton
  <2>2. CASE Len(s) = 2
    <3> DEFINE a == <<start, s[1]>>
               b == <<start, s[2]>>
    <3>1. V = {a} \cup {b} /\ b \notin {a}
      <4>1. \A i : i \in 1..2 <=> i = 1 \/ i = 2
        OBVIOUS
      <4>2. s[1] # s[2]
        BY <1>1, <2>2, <4>1
      <4>3. V = {<<start, s[i]>> : i \in 1..2}
        BY <1>1, <2>2
      <4> QED
        BY <4>1, <4>2, <4>3
    <3> HIDE DEF a, b, V
    <3>2. IsFiniteSet({a}) /\ Cardinality({a}) = 1
      BY FS_Singleton
    <3>3. Cardinality({a} \cup {b}) = 1 + 1
      BY <3>1, <3>2, FS_AddElement
    <3> QED
      BY <2>2, <3>1, <3>3
  <2> QED
    BY <1>1, <2>1, <2>2
<1> HIDE DEF q, V
<1>7. x.visited = V /\ x.result = << >> /\ x.queue = q /\ x.capExceeded = FALSE
      /\ x = [visited |-> x.visited, result |-> x.result, queue |-> x.queue, capExceeded |-> x.capExceeded]
  BY <1>2
<1> HIDE DEF sides
<1>8. \A d \in sides : start \in Ball(start, d, opts, 0) /\ start \in Ball(start, d, opts, opts.maxDepth)
  <2> TAKE d \in sides
  <2>1. d \in Directions
    BY <1>3
  <2>2. Ball(start, d, opts, 0) = {start} /\ Ball(start, d, opts, 0) \subseteq Ball(start, d, opts, opts.maxDepth)
    BY <2>1, BallIs
  <2> QED
    BY <2>2
<1>9. Explored(x, start, opts, sides)
  <2>1. V \in SUBSET (Nodes \X sides) /\ \A p \in V : p[1] = start /\ p[2] \in sides
    BY <1>4
  <2>2. Reached(V) \ {start} = {}
    BY <2>1 DEF Reached
  <2> DEFINE none == << >>
  <2>3. none \in Seq(Nodes) /\ IsInjective(none) /\ Range(none) = {}
    BY DEF IsInjective, Range
  <2> HIDE DEF none
  <2>4. x.result = none
    BY <1>7 DEF none
  <2>5. /\ x.visited \in SUBSET (Nodes \X sides) /\ {start} \X sides \subseteq x.visited
        /\ \A p \in x.visited : p[1] \in Ball(start, p[2], opts, opts.maxDepth)
    BY <1>4, <1>7, <1>8, <2>1
  <2>6. x.queue \in Seq(Items(opts, sides)) /\ x.capExceeded \in BOOLEAN
    BY <1>5, <1>7
  <2>7. /\ x.result \in Seq(Nodes) /\ IsInjective(x.result)
        /\ Range(x.result) \subseteq Reached(x.visited) \ {start}
        /\ ~x.capExceeded => Reached(x.visited) \ {start} \subseteq Range(x.result)
    BY <1>7, <2>2, <2>3, <2>4
  <2>8. x.capExceeded <=> Cardinality(x.visited) > opts.maxVisited /\ x.visited # {start} \X sides
    BY <1>4, <1>7
  <2> QED
    BY <1>7, <2>5, <2>6, <2>7, <2>8 DEF Explored
<1>10. InPlace(x, start, opts)
  <2> SUFFICES ASSUME NEW i \in 1..Len(s) PROVE <<q[i].ref, q[i].dir>> \in V /\ Nearest(start, q[i], opts)
    BY <1>5, <1>7 DEF InPlace
  <2> QED
    BY <1>3, <1>4, <1>5, <1>8 DEF Nearest
<1>11. Ordered(q)
  BY <1>5 DEF Ordered
<1>12. Served(x, start, opts)
  <2> SUFFICES ASSUME NEW p \in V PROVE Pending(q, p)
    BY <1>7 DEF Served
  <2>1. PICK i \in 1..Len(s) : p = <<start, s[i]>>
    BY <1>1 DEF V
  <2>2. i \in 1..Len(q)
    BY <1>5
  <2> QED
    BY <1>5, <2>1, <2>2 DEF Pending
<1>13. Cardinality(V) = 0 + Len(q)
  BY <1>1, <1>5, <1>6
<1>14. Waiting(x, start, opts, 0)
  BY <1>7, <1>10, <1>11, <1>12, <1>13 DEF Waiting
<1> QED
  BY <1>3, <1>9, <1>14 DEF Searched, sides, s, x

\* A search returns the nodes near its start, or says that it is cut.
LEMMA ReachHolds == ReachableIsExact
<1> SUFFICES ASSUME NEW start \in Starts, NEW options \in Searches
             PROVE  LET opts  == resolved(options)
                        sides == Range(Sides(opts.direction))
                        pairs == UNION {Ball(start, d, opts, opts.maxDepth) \X {d} : d \in sides}
                        near  == {p[1] : p \in pairs} \ {start}
                        got   == Reachable(store, start, options)
                    IN /\ IsInjective(got.refs)
                       /\ Range(got.refs) \subseteq near
                       /\ got.capExceeded <=> Cardinality(pairs) > opts.maxVisited /\ pairs # {start} \X sides
                       /\ ~got.capExceeded => Range(got.refs) = near
  BY DEF ReachableIsExact
<1> DEFINE opts  == resolved(options)
           sides == Range(Sides(opts.direction))
           pairs == UNION {Ball(start, d, opts, opts.maxDepth) \X {d} : d \in sides}
           near  == {p[1] : p \in pairs} \ {start}
           got   == Reachable(store, start, options)
           y == run(store, opts, newBFSState(start, opts))
<1>1. start \in Nodes /\ options \in TraversalOptions
  BY GraphAssumption DEF GraphAssumption
<1>2. /\ opts.maxDepth \in Nat \ {0} /\ opts.maxVisited \in Nat
      /\ opts.direction \in {"Forward", "Reverse", "Both"}
  <2>1. options.direction \in {"Forward", "Reverse", "Both"}
    BY <1>1 DEF TraversalOptions
  <2> QED
    BY <1>1, <2>1, ResolvedIs
<1>3. got.refs = y.result /\ got.capExceeded = y.capExceeded
  BY DEF Reachable
<1> HIDE DEF opts, got
<1>4. sides \in SUBSET Directions /\ Searched(newBFSState(start, opts), start, opts, sides, 0)
  BY <1>1, <1>2, InitialIs
<1> HIDE DEF sides
<1>5. Explored(y, start, opts, sides) /\ (~y.capExceeded => Served(y, start, opts) /\ y.queue = << >>)
  BY <1>1, <1>2, <1>4, RunIs
<1> HIDE DEF y
<1>6. /\ y.visited \in SUBSET (Nodes \X sides) /\ {start} \X sides \subseteq y.visited
      /\ \A p \in y.visited : p[1] \in Ball(start, p[2], opts, opts.maxDepth)
      /\ IsInjective(y.result) /\ Range(y.result) \subseteq Reached(y.visited) \ {start}
      /\ ~y.capExceeded => Reached(y.visited) \ {start} \subseteq Range(y.result)
      /\ y.capExceeded <=> Cardinality(y.visited) > opts.maxVisited /\ y.visited # {start} \X sides
  BY <1>5 DEF Explored
<1>7. y.visited \subseteq pairs
  <2> SUFFICES ASSUME NEW p \in y.visited PROVE p \in pairs
    OBVIOUS
  <2>1. p = <<p[1], p[2]>> /\ p[2] \in sides /\ p[1] \in Ball(start, p[2], opts, opts.maxDepth)
    BY <1>6
  <2> QED
    BY <2>1
<1>8. pairs \in SUBSET (Nodes \X sides)
  <2>1. \A d \in sides : Ball(start, d, opts, opts.maxDepth) \subseteq Nodes
    BY <1>1, <1>2, <1>4, BallIs
  <2> QED
    BY <2>1
<1>9. ~y.capExceeded => y.visited = pairs
  <2> SUFFICES ASSUME ~y.capExceeded, NEW d \in sides, NEW v \in Ball(start, d, opts, opts.maxDepth) PROVE <<v, d>> \in y.visited
    BY <1>7
  <2>1. Served(y, start, opts) /\ InPlace(y, start, opts)
    BY <1>5 DEF InPlace
  <2>2. opts.maxDepth \in 0..opts.maxDepth
    BY <1>2
  <2>3. \A j \in 1..Len(y.queue) : y.queue[j].dir = d => opts.maxDepth <= y.queue[j].depth
    BY <1>5
  <2> QED
    BY <1>1, <1>2, <1>4, <1>5, <2>1, <2>2, <2>3, ClosedIs
<1>10. near = Reached(pairs) \ {start}
  BY DEF Reached
<1> HIDE DEF pairs, near
<1>11. Reached(y.visited) \subseteq Reached(pairs)
  BY <1>7 DEF Reached
<1>12. Cardinality(y.visited) \in Nat /\ Cardinality(pairs) \in Nat /\ Cardinality(y.visited) <= Cardinality(pairs)
  <2>1. IsFiniteSet(pairs) /\ Cardinality(pairs) \in Nat /\ Cardinality(y.visited) \in Nat
    BY <1>4, <1>6, <1>8, VisitedAreFinite
  <2> QED
    BY <1>7, <2>1, FS_Subset
<1>13. y.capExceeded => Cardinality(pairs) > opts.maxVisited /\ pairs # {start} \X sides
  BY <1>2, <1>6, <1>7, <1>12
<1>14. y.capExceeded <=> Cardinality(pairs) > opts.maxVisited /\ pairs # {start} \X sides
  BY <1>6, <1>9, <1>13
<1>15. IsInjective(y.result) /\ Range(y.result) \subseteq near /\ (~y.capExceeded => Range(y.result) = near)
  BY <1>6, <1>9, <1>10, <1>11
<1>16. /\ IsInjective(got.refs) /\ Range(got.refs) \subseteq near
       /\ got.capExceeded <=> Cardinality(pairs) > opts.maxVisited /\ pairs # {start} \X sides
       /\ ~got.capExceeded => Range(got.refs) = near
  BY <1>3, <1>14, <1>15
<1> QED
  BY <1>16 DEF opts, sides, pairs, near, got

\* Every read at a time and every search of the graph stays exact, and the two
\* sides of a link agree, whatever the links, their order and their times.
THEOREM WalksStayExact == Spec => []WalksAreExact
<1>1. IInv => WalksAreExact
  <2>1. IInv => AsOfIsHighest
    BY AsOfStops DEF IInv, ChainsGood, AsOfIsHighest
  <2> QED
    BY <2>1, ReachHolds, SidesHold DEF WalksAreExact
<1> QED
  BY <1>1, StoreInvariant, PTL

=============================================================================
