------------------------------- MODULE Graph -------------------------------
(***************************************************************************)
(* Walks over the links of the event store: internal/kdb/graph.  A walk    *)
(* reads one View, so it is an operator on a store.  Links are met in the  *)
(* order of their keys: LinkOrder for the forward keys, ReverseOrder for   *)
(* the lr: keys.                                                           *)
(***************************************************************************)
EXTENDS EventStore, SequencesExt

CONSTANTS LinkOrder,      \* Links in the order of (src, edge, dst)
          ReverseOrder,   \* Links in the order of (dst, edge, src)
          Starts,         \* the nodes walks are tried from
          Searches        \* the options they are tried with

TraversalOptions == [edges : SUBSET STRING, maxDepth : Nat, maxVisited : Nat,
                     direction : {"Forward", "Reverse", "Both"}, asOf : Nat]

ASSUME GraphAssumption ==
    /\ LinkOrder \in Seq(Links) /\ Range(LinkOrder) = Links
    /\ ReverseOrder \in Seq(Links) /\ Range(ReverseOrder) = Links
    /\ IsFiniteSet(Nodes) /\ \A l \in Links : {l.src, l.dst} \subseteq Nodes
    /\ Starts \subseteq Nodes /\ Searches \subseteq TraversalOptions

Now == 0                  \* AsOf is nil; times are positive
DefaultMaxDepth == 5
DefaultMaxVisited == 10000

\* resolved: what is unset takes its default; edges = {} allows every edge type.
resolved(opts) ==
    [opts EXCEPT !.maxDepth = IF @ = 0 THEN DefaultMaxDepth ELSE @,
                 !.maxVisited = IF @ = 0 THEN DefaultMaxVisited ELSE @]

edgeAllowed(opts, l) == opts.edges = {} \/ l.edge \in opts.edges

\* The version of a link that is current at opts.asOf: here the whole chain is read.
versionAt(s, l, asOf) ==
    LET old == {v \in DOMAIN s.chain[l] : asOf = Now \/ s.chain[l][v].createdAt <= asOf}
    IN IF old = {} THEN NoVersion ELSE CHOOSE v \in old : \A w \in old : w <= v

followed(s, l, v, opts) ==
    /\ v # NoVersion
    /\ edgeAllowed(opts, l)
    /\ s.chain[l][v].lifecycle # "Superseded"

\* A cursor meets the links in order, and emits one end of each that is hit.
emitHits(order, hits, end) ==
    LET refs[i \in 0..Len(order)] ==
            IF i = 0 THEN <<>>
            ELSE IF order[i] \in hits THEN Append(refs[i - 1], order[i][end]) ELSE refs[i - 1]
    IN refs[Len(order)]

\* walkForward: the destinations of the links of start.
forwardHits(s, start, opts) ==
    {l \in Links : l.src = start /\ followed(s, l, versionAt(s, l, opts.asOf), opts)}
walkForward(s, start, opts) == emitHits(LinkOrder, forwardHits(s, start, opts), "dst")

\* emitReverseLinkLatest reads the version the lr: record names, emitReverseLinkAsOf the chain.
reverseVersion(s, l, opts) ==
    IF opts.asOf = Now THEN s.reverse[l] ELSE versionAt(s, l, opts.asOf)

\* walkReverse: the sources of the links to start, found through the lr: records.
reverseHits(s, start, opts) ==
    {l \in Links : /\ l.dst = start
                   /\ s.reverse[l] # NoVersion
                   /\ followed(s, l, reverseVersion(s, l, opts), opts)}
walkReverse(s, start, opts) == emitHits(ReverseOrder, reverseHits(s, start, opts), "src")

walk(s, ref, dir, opts) == IF dir = "Forward" THEN walkForward(s, ref, opts) ELSE walkReverse(s, ref, opts)

Sides(direction) == IF direction = "Both" THEN <<"Forward", "Reverse">> ELSE <<direction>>

\* out, and after it every one of refs that is new, once.
Once(out, n) == IF Contains(out, n) THEN out ELSE Append(out, n)
OnceEach(out, refs) ==
    LET after[i \in 0..Len(refs)] == IF i = 0 THEN out ELSE Once(after[i - 1], refs[i])
    IN after[Len(refs)]

\* Neighbors: every ref once, the forward ones first.
Neighbors(s, start, options) ==
    LET opts == resolved(options)
        side(out, dir) == OnceEach(out, walk(s, start, dir, opts))
    IN IF opts.direction = "Both" THEN side(side(<<>>, "Forward"), "Reverse") ELSE side(<<>>, opts.direction)

-----------------------------------------------------------------------------
(* Reachable *)

newBFSState(start, opts) ==
    LET sides == Sides(opts.direction)
    IN [visited |-> {<<start, sides[i]>> : i \in DOMAIN sides},
        result  |-> <<>>,
        queue   |-> [i \in DOMAIN sides |-> [ref |-> start, depth |-> 0, dir |-> sides[i]]],
        capExceeded |-> FALSE]

\* emit: one neighbour of a queued item.
emit(state, item, n, maxVisited) ==
    LET seen == state.visited \cup {<<n, item.dir>>}
    IN CASE state.capExceeded \/ seen = state.visited -> state
         [] ~state.capExceeded /\ seen # state.visited /\ Cardinality(seen) > maxVisited ->
                [state EXCEPT !.visited = seen, !.capExceeded = TRUE]
         [] OTHER ->
                [state EXCEPT !.visited = seen,
                              !.result = IF Contains(@, n) THEN @ ELSE Append(@, n),
                              !.queue = Append(@, [ref |-> n, depth |-> item.depth + 1, dir |-> item.dir])]

\* expand: the neighbours of an item, one after the other.
emitAll(state, item, refs, maxVisited) ==
    LET after[i \in 0..Len(refs)] ==
            IF i = 0 THEN state ELSE emit(after[i - 1], item, refs[i], maxVisited)
    IN after[Len(refs)]

\* Seeded fault: an item at the depth limit is still expanded.
beyondLimit(item, opts) == item.depth > opts.maxDepth
atLimit(item, opts) == item.depth >= opts.maxDepth

\* One round of run: the next item, expanded unless it is at the depth limit.
round(s, opts, state) ==
    IF state.queue = <<>> \/ state.capExceeded THEN state
    ELSE LET item == Head(state.queue)
             rest == [state EXCEPT !.queue = Tail(@)]
         IN IF atLimit(item, opts) THEN rest
            ELSE emitAll(rest, item, walk(s, item.ref, item.dir, opts), opts.maxVisited)

\* run: an item enters the queue at most once for each node and side, so that
\* after so many rounds the queue is empty or the cap is exceeded.
run(s, opts, state) ==
    LET rounds == 2 * Cardinality(Nodes)
        after[n \in 0..rounds] == IF n = 0 THEN state ELSE round(s, opts, after[n - 1])
    IN after[rounds]

Reachable(s, start, options) ==
    LET opts == resolved(options)
        end  == run(s, opts, newBFSState(start, opts))
    IN [refs |-> end.result, capExceeded |-> end.capExceeded]

ImpactRadius(s, target, maxDepth) ==
    Reachable(s, target, [edges |-> {}, maxDepth |-> maxDepth, maxVisited |-> 0,
                          direction |-> "Reverse", asOf |-> Now])

-----------------------------------------------------------------------------
(* Properties *)

\* The nodes at most n steps of one side away from start.
Ball(start, dir, opts, depth) ==
    LET ball[n \in 0..depth] ==
            IF n = 0 THEN {start}
            ELSE {start} \cup UNION {Range(walk(store, m, dir, opts)) : m \in ball[n - 1]}
    IN ball[depth]

(***************************************************************************)
(* The search returns every node that some side reaches in at most         *)
(* MaxDepth steps, each once and never the start; when the cap on visited  *)
(* nodes cuts it, it says so and returns nodes that are reached.  The cap  *)
(* is looked at when a node is found, so the start alone is never cut.     *)
(***************************************************************************)
ReachableIsExact ==
    \A start \in Starts, options \in Searches :
        LET opts  == resolved(options)
            sides == Range(Sides(opts.direction))
            pairs == UNION {Ball(start, d, opts, opts.maxDepth) \X {d} : d \in sides}
            near  == {p[1] : p \in pairs} \ {start}
            got   == Reachable(store, start, options)
        IN /\ IsInjective(got.refs)
           /\ Range(got.refs) \subseteq near
           /\ got.capExceeded <=> Cardinality(pairs) > opts.maxVisited /\ pairs # {start} \X sides
           /\ ~got.capExceeded => Range(got.refs) = near

(***************************************************************************)
(* As long as no link is half written, a node is a forward neighbour of    *)
(* another exactly when the other is a reverse neighbour of it, now and at *)
(* every earlier time, whatever the order of the times in a chain.         *)
(***************************************************************************)
SidesAgree ==
    ~halfWritten =>
        \A m, n \in Starts, options \in Searches :
            Contains(Neighbors(store, m, [options EXCEPT !.direction = "Forward"]), n)
                <=> Contains(Neighbors(store, n, [options EXCEPT !.direction = "Reverse"]), m)

\* Every read at a time and every search of the graph is exact, and the walks of
\* a link's two sides agree.
WalksAreExact == AsOfIsHighest /\ ReachableIsExact /\ SidesAgree
=============================================================================
