----------------------------- MODULE Collector -----------------------------
(***************************************************************************)
(* The observation collector, the sessions that feed it and the graph they *)
(* are rebuilt from: internal/observe/collector.go and                     *)
(* internal/retrieval/session.  Tool handlers note the references a        *)
(* response served; every note is remembered in the session and sent, if   *)
(* the queue has room, to one flush loop that writes batches of records to *)
(* the event store in one transaction each.  After a restart a session is  *)
(* replayed from the links in the store.                                   *)
(***************************************************************************)
EXTENDS Graph

CONSTANTS Handlers, Sessions, Calls,
          Responses,     \* the references responses serve, as sequences
          BufferSize, MaxBatch,
          MaxFailures    \* bound on failed batches and crashes

VARIABLES durable,   \* the store as the last commit left it
          queue,     \* the channel
          batch,     \* the records the flush loop holds
          loop,      \* "running" or "returned"
          closed, disabled,
          seen,      \* sessionsSeen
          mem,       \* the sessions of PersistentStore: what they served, or Absent
          pc,        \* what each handler is about to send, or Idle
          noted,     \* the calls handlers have noted: history
          lost,      \* those whose records were given up: history
          failures

vars == <<storeVars, durable, queue, batch, loop, closed, disabled, seen, mem, pc, noted, lost, failures>>
handlerVars == <<mem, pc, noted>>
loopVars == <<store, halfWritten, durable, batch, loop, seen>>

Absent == <<"absent">>
Idle == [kind |-> "idle"]
Panicked == [kind |-> "panicked"]
SessionRecord(s) == [kind |-> "session", session |-> s]
Starting(s, replayed) == [kind |-> "starting", session |-> s, replayed |-> replayed]
CallRecord(c, s, refs) == [kind |-> "call", call |-> c, session |-> s, served |-> refs]

Edge(src, edge, dst) == [src |-> src, edge |-> edge, dst |-> dst]

ASSUME CollectorAssumption ==
    /\ Sessions \cup Calls \subseteq Nodes
    /\ \A s \in Sessions, c \in Calls : {Edge(s, "contains", c), Edge(c, "belongs_to", s)} \subseteq Links
    /\ \A refs \in Responses, c \in Calls :
          refs \in Seq(Nodes) /\ \A i \in DOMAIN refs : Edge(c, "served", refs[i]) \in Links
    /\ BufferSize \in Nat /\ MaxBatch \in Nat \ {0} /\ MaxFailures \in Nat

At == CHOOSE t \in Times : TRUE       \* no property here depends on the times

NeighborsOf(s, ref, edge) ==
    Neighbors(s, ref, [edges |-> {edge}, maxDepth |-> 0, maxVisited |-> 0, direction |-> "Forward", asOf |-> Now])

-----------------------------------------------------------------------------
(* Sessions *)

\* MemorySession.Note: references already served are not repeated.
Note(served, refs) == OnceEach(served, refs)

\* replay: session -(contains)-> call -(served)-> reference.
\* Seeded fault: the calls are sought behind the edge that leads back from them.
replayInverse(s, session) ==
    LET calls == NeighborsOf(s, session, "belongs_to")
    IN Note(<<>>, FlattenSeq([i \in DOMAIN calls |-> NeighborsOf(s, calls[i], "served")]))
replay(s, session) ==
    LET calls == NeighborsOf(s, session, "contains")
    IN Note(<<>>, FlattenSeq([i \in DOMAIN calls |-> NeighborsOf(s, calls[i], "served")]))

\* BuildFocusMap: for each reference the number of calls that served it,
\* ranked by rankFocus; order stands for the order of the names.
focusCount(s, session, ref) ==
    LET calls == NeighborsOf(s, session, "contains")
    IN Cardinality({i \in DOMAIN calls : Contains(NeighborsOf(s, calls[i], "served"), ref)})
rankFocus(s, session, order) ==
    LET entries == SelectSeq(order, LAMBDA r : focusCount(s, session, r) > 0)
    IN SortSeq(entries, LAMBDA q, r : focusCount(s, session, q) > focusCount(s, session, r))

-----------------------------------------------------------------------------
(* Handlers *)

\* The check at the head of RecordSessionStart and RecordCall.
accepting == ~closed /\ ~disabled

\* PersistentStore.Get creates the session under the store's mutex: it replays,
\* sends the session start and only then makes the session visible.
Creating == \E h \in Handlers : pc[h].kind = "starting"

Get(h, s) ==
    /\ pc[h] = Idle /\ mem[s] = Absent /\ ~Creating
    /\ IF accepting
       THEN pc' = [pc EXCEPT ![h] = Starting(s, replay(store, s))] /\ UNCHANGED mem
       ELSE mem' = [mem EXCEPT ![s] = replay(store, s)] /\ UNCHANGED pc
    /\ UNCHANGED <<noted, loopVars, queue, closed, disabled, lost, failures>>

\* PersistentSession.Note: the memory first, then the check of RecordCall.
NoteCall(h, s, c, refs) ==
    /\ pc[h] = Idle /\ mem[s] # Absent
    /\ c \notin {n.call : n \in noted}
    /\ mem' = [mem EXCEPT ![s] = Note(@, refs)]
    /\ noted' = noted \cup {CallRecord(c, s, refs)}
    /\ IF accepting
       THEN pc' = [pc EXCEPT ![h] = CallRecord(c, s, refs)] /\ UNCHANGED lost
       ELSE lost' = lost \cup {c} /\ UNCHANGED pc
    /\ UNCHANGED <<loopVars, queue, closed, disabled, failures>>

CallsIn(records) == {records[i].call : i \in {j \in DOMAIN records : records[j].kind = "call"}}

\* The send on the channel: on a closed one it panics, on a full one the record is dropped.
SendRecord(h, r) ==
    /\ IF ~closed /\ Len(queue) < BufferSize
       THEN queue' = Append(queue, r) /\ lost' = lost
       ELSE queue' = queue /\ lost' = lost \cup CallsIn(<<r>>)
    /\ pc' = [pc EXCEPT ![h] = IF closed THEN Panicked ELSE Idle]
    /\ UNCHANGED <<noted, loopVars, closed, disabled, failures>>

SendStart(h) ==
    /\ pc[h].kind = "starting"
    /\ SendRecord(h, SessionRecord(pc[h].session))
    /\ mem' = IF closed THEN mem ELSE [mem EXCEPT ![pc[h].session] = pc[h].replayed]

SendCall(h) ==
    /\ pc[h].kind = "call"
    /\ SendRecord(h, pc[h])
    /\ UNCHANGED mem

SetEnabled(enabled) ==
    /\ loop = "running" /\ disabled = enabled
    /\ ~enabled => failures < MaxFailures
    /\ failures' = IF enabled THEN failures ELSE failures + 1
    /\ disabled' = ~enabled
    /\ UNCHANGED <<handlerVars, loopVars, queue, closed, lost>>

Close ==
    /\ ~closed
    /\ closed' = TRUE
    /\ UNCHANGED <<handlerVars, loopVars, queue, disabled, lost, failures>>

-----------------------------------------------------------------------------
(* The flush loop *)

\* The element of a singleton; binding w in {w0} makes TLC evaluate w0 once.
ValueOf(singleton) == CHOOSE x \in singleton : TRUE

\* A transaction in progress: puts counts its Puts, and the Put after as many as are in
\* stops fails.  Nothing is put after an error.
PutsDone(w, id) ==
    CASE w.puts \in w.stops -> 0
      [] w.puts \notin w.stops /\ w.puts + 1 \in w.stops -> 1
      [] OTHER -> PutsOf(id)
AppendInTx(w0, id) ==
    ValueOf({LET n == PutsDone(w, id)
             IN IF ~w.ok THEN w
                ELSE [w EXCEPT !.store = appendInTx(@, id, At, "Active", n),
                               !.puts = @ + n,
                               !.ok = (n = PutsOf(id)),
                               !.half = (@ \/ n \in 1..(PutsOf(id) - 1))] : w \in {w0}})

\* writeSession: the session is taken for written before it is.
writeSession(w, s) ==
    IF ~w.ok \/ s \in w.seen THEN w ELSE AppendInTx([w EXCEPT !.seen = @ \cup {s}], s)

\* What writeCall appends after the session: the call, the edges between the two, the
\* edges to the references.
IdsOf(r) == <<r.call, Edge(r.session, "contains", r.call), Edge(r.call, "belongs_to", r.session)>>
                \o [i \in DOMAIN r.served |-> Edge(r.call, "served", r.served[i])]
writeCall(w, r) ==
    LET ids == IdsOf(r)
        after[n \in 0..Len(ids)] ==
            IF n = 0 THEN writeSession(w, r.session) ELSE AppendInTx(after[n - 1], ids[n])
    IN after[Len(ids)]

writeRecord(w, r) == IF r.kind = "session" THEN writeSession(w, r.session) ELSE writeCall(w, r)

Begin(stops) == [store |-> store, seen |-> seen, half |-> halfWritten, ok |-> TRUE, puts |-> 0, stops |-> stops]
Written_(records, stops) ==
    LET after[n \in 0..Len(records)] ==
            IF n = 0 THEN Begin(stops) ELSE writeRecord(after[n - 1], records[n])
    IN after[Len(records)]
PutsNeeded(records) == Written_(records, {}).puts

\* writeBatch succeeds, is skipped because the collector is disabled, or fails: in Grow,
\* in a Put, or in the commit after the last Put.  Update does not undo what was Put.
writeBatch(records) ==
    \/ /\ disabled
       /\ lost' = lost \cup CallsIn(records)
       /\ UNCHANGED <<store, halfWritten, durable, seen, failures>>
    \/ /\ ~disabled
       /\ UNCHANGED <<lost, failures>>
       /\ \E w \in {Written_(records, {})} :
             store' = w.store /\ seen' = w.seen /\ durable' = w.store /\ halfWritten' = w.half
    \/ /\ ~disabled /\ failures < MaxFailures
       /\ lost' = lost \cup CallsIn(records)
       /\ failures' = failures + 1
       /\ UNCHANGED durable
       /\ \E w \in {Written_(records, {puts}) : puts \in 0..PutsNeeded(records)} :
             store' = w.store /\ seen' = w.seen /\ halfWritten' = w.half
    \/ /\ ~disabled /\ failures < MaxFailures           \* Grow fails
       /\ lost' = lost \cup CallsIn(records)
       /\ failures' = failures + 1
       /\ UNCHANGED <<store, halfWritten, durable, seen>>

\* A record arrives; the flush when the batch is full is part of the step.
Receive ==
    /\ loop = "running" /\ queue # <<>>
    /\ queue' = Tail(queue)
    /\ UNCHANGED <<handlerVars, loop, closed, disabled>>
    /\ LET records == Append(batch, Head(queue))
       IN IF Len(records) >= MaxBatch
          THEN batch' = <<>> /\ writeBatch(records)
          ELSE batch' = records /\ UNCHANGED <<store, halfWritten, durable, seen, lost, failures>>

\* The ticker.
\* Seeded fault: only a full batch is flushed.
TickFull ==
    /\ loop = "running" /\ Len(batch) >= MaxBatch
    /\ UNCHANGED <<handlerVars, queue, loop, closed, disabled>>
    /\ batch' = <<>> /\ writeBatch(batch)
Tick ==
    /\ loop = "running" /\ batch # <<>>
    /\ UNCHANGED <<handlerVars, queue, loop, closed, disabled>>
    /\ batch' = <<>> /\ writeBatch(batch)

\* The channel is closed and empty.
\* Seeded fault: the loop returns without the last flush.
ReturnAtOnce ==
    /\ loop = "running" /\ closed /\ queue = <<>>
    /\ loop' = "returned" /\ batch' = <<>>
    /\ UNCHANGED <<handlerVars, store, halfWritten, durable, seen, lost, failures, queue, closed, disabled>>
Return ==
    /\ loop = "running" /\ closed /\ queue = <<>>
    /\ loop' = "returned"
    /\ batch' = <<>>
    /\ UNCHANGED <<handlerVars, queue, closed, disabled>>
    /\ IF batch # <<>> THEN writeBatch(batch) ELSE UNCHANGED <<store, halfWritten, durable, seen, lost, failures>>

-----------------------------------------------------------------------------
(* Restarts *)

\* The next process: the sessions and the collector are new.
Fresh(s) ==
    /\ store' = s /\ durable' = s
    /\ queue' = <<>> /\ batch' = <<>> /\ loop' = "running"
    /\ closed' = FALSE /\ disabled' = FALSE
    /\ seen' = {}
    /\ mem' = [t \in Sessions |-> Absent]
    /\ pc' = [h \in Handlers |-> Idle]

\* After Close returned, the database is closed too, and with it all of the store is written.
Restart ==
    /\ loop = "returned" /\ failures < MaxFailures
    /\ lost' = lost \cup UNION {CallsIn(<<pc[h]>>) : h \in Handlers}
    /\ Fresh(store)
    /\ failures' = failures + 1
    /\ UNCHANGED <<noted, halfWritten>>

\* The process dies; what a failed transaction left in memory may have reached the file.
Crash ==
    /\ failures < MaxFailures
    /\ failures' = failures + 1
    /\ lost' = lost \cup CallsIn(queue) \cup CallsIn(batch) \cup UNION {CallsIn(<<pc[h]>>) : h \in Handlers}
    /\ \E s \in {store, durable} : Fresh(s)
    /\ UNCHANGED <<noted, halfWritten>>

-----------------------------------------------------------------------------
CollectorInit ==
    /\ Init
    /\ durable = EmptyStore
    /\ queue = <<>> /\ batch = <<>> /\ loop = "running"
    /\ closed = FALSE /\ disabled = FALSE
    /\ seen = {} /\ mem = [s \in Sessions |-> Absent]
    /\ pc = [h \in Handlers |-> Idle]
    /\ noted = {} /\ lost = {} /\ failures = 0

CollectorNext ==
    \/ \E h \in Handlers, s \in Sessions : Get(h, s)
    \/ \E h \in Handlers, s \in Sessions, c \in Calls, refs \in Responses :
          NoteCall(h, s, c, refs)
    \/ \E h \in Handlers : SendStart(h)
    \/ \E h \in Handlers : SendCall(h)
    \/ \E e \in BOOLEAN : SetEnabled(e)
    \/ Close
    \/ Receive
    \/ Tick
    \/ Return
    \/ Restart
    \/ Crash

\* The flush loop is a goroutine that runs as long as the process does, woken by its ticker.
FlushLoop == Receive \/ Tick \/ Return
Fairness == WF_vars(FlushLoop)

CollectorSpec == CollectorInit /\ [][CollectorNext]_vars /\ Fairness

-----------------------------------------------------------------------------
(* Properties *)

NotedOf(c) == CHOOSE n \in noted : n.call = c
InFlight == CallsIn(queue) \cup CallsIn(batch) \cup UNION {CallsIn(<<pc[h]>>) : h \in Handlers}

\* Everything writeCall writes for a call is in the store.
Whole(s, n) ==
    /\ s.chain[n.call] # <<>>
    /\ \A l \in {Edge(n.session, "contains", n.call), Edge(n.call, "belongs_to", n.session)}
                  \cup {Edge(n.call, "served", n.served[i]) : i \in DOMAIN n.served} :
          s.chain[l] # <<>> /\ s.reverse[l] # NoVersion

(***************************************************************************)
(* Every call a handler noted is in flight, or was given up (sent to a     *)
(* full, closed or disabled collector, in a failed batch, or lost with its *)
(* process), or is in the store with every edge in both directions: no     *)
(* interleaving of handlers, ticker, Close and crash loses another.        *)
(***************************************************************************)
CallsAreWrittenWhole ==
    \A n \in noted : n.call \notin InFlight \cup lost => Whole(store, n) /\ Whole(durable, n)

(***************************************************************************)
(* What a session replays from the store is what its written calls served: *)
(* every reference of a call that is in the store whole, and none that no  *)
(* call of the session served.                                             *)
(***************************************************************************)
ReplayIsServed ==
    \A s \in Sessions :
        LET calls == {n \in noted : n.session = s}
            refs(set) == UNION {Range(n.served) : n \in set}
        IN /\ refs({n \in calls : Whole(store, n)}) \subseteq Range(replay(store, s))
           /\ Range(replay(store, s)) \subseteq refs(calls)

(***************************************************************************)
(* The focus map of a session lists what it replays, in descending order   *)
(* of a count that is the number of calls that served the reference: at    *)
(* least those written whole, at most those noted.                         *)
(***************************************************************************)
FocusCountsCalls(order) ==
    \A s \in Sessions :
        LET ranked == rankFocus(store, s, order)
            serving(r) == {n \in noted : n.session = s /\ Contains(n.served, r)}
        IN /\ Range(ranked) = Range(replay(store, s))
           /\ \A i, j \in DOMAIN ranked :
                 i < j => focusCount(store, s, ranked[i]) >= focusCount(store, s, ranked[j])
           /\ \A r \in Range(order) :
                 /\ focusCount(store, s, r) <= Cardinality(serving(r))
                 /\ focusCount(store, s, r) >= Cardinality({n \in serving(r) : Whole(store, n)})

(***************************************************************************)
(* A live session never forgets: what it serves contains what its written  *)
(* calls served, those of earlier processes included, so no tool serves a  *)
(* reference twice for want of memory.                                     *)
(***************************************************************************)
MemoryCoversStore ==
    \A n \in noted :
        mem[n.session] # Absent /\ n.call \notin lost /\ Whole(store, n)
            => Range(n.served) \subseteq Range(mem[n.session])

(***************************************************************************)
(* The flush loop keeps up: again and again queue and batch are empty,     *)
(* whatever fails, and once closed it returns, so that Close does.          *)
(***************************************************************************)
QueueDrains ==
    /\ []<>(queue = <<>> /\ batch = <<>>)
    /\ closed ~> (loop = "returned" \/ ~closed)

(***************************************************************************)
(* Close ends recording silently (collector.go:216-217): no handler that   *)
(* had passed the check of closed panics on the closed channel.            *)
(***************************************************************************)
SendNeverPanics == \A h \in Handlers : pc[h] # Panicked

(***************************************************************************)
(* The contains edge of a call starts at a session observation that exists *)
(* (collector.go:357-359).                                                 *)
(***************************************************************************)
ContainsResolves ==
    \A l \in Links : l.edge = "contains" /\ store.chain[l] # <<>> => store.chain[l.src] # <<>>
=============================================================================
