------------------------------ MODULE MCEvents ------------------------------
(***************************************************************************)
(* One event store under its three users: whoever appends records and      *)
(* walks the graph they make, the engine that assembles context packages   *)
(* while others append, and the sessions and the collector that write what *)
(* was served.  x and y are files, z is a decision about x.                *)
(***************************************************************************)
EXTENDS Retrieval, Collector

CONSTANTS Parts,         \* those of "append", "retrieve" and "serve" that are run
          Retrieved,     \* the ids appended to beside the engine
          x, y, z, s1, c1, c2

VARIABLE part

allVars == <<part, vars, requestVars>>
collectorVars == <<durable, queue, batch, loop, closed, disabled, seen, mem, pc, noted, lost, failures>>

Imports == Edge(x, "imports", y)
Mentions == Edge(y, "mentions", z)
Decides == Edge(z, "decision_link", x)
GraphLinks == {Imports, Mentions, Decides}      \* a cycle of three edge types

\* The links in the order of their keys, and of their lr: keys.
MCLinkOrder == <<Edge(c1, "belongs_to", s1), Edge(c1, "served", x), Edge(c1, "served", y),
                 Edge(c2, "belongs_to", s1), Edge(c2, "served", x), Edge(c2, "served", y),
                 Edge(s1, "contains", c1), Edge(s1, "contains", c2), Imports, Mentions, Decides>>
MCReverseOrder == <<Edge(s1, "contains", c1), Edge(s1, "contains", c2),
                    Edge(c1, "belongs_to", s1), Edge(c2, "belongs_to", s1),
                    Decides, Edge(c1, "served", x), Edge(c2, "served", x),
                    Imports, Edge(c1, "served", y), Edge(c2, "served", y), Mentions>>
MCLinks == Range(MCLinkOrder)
MCNodes == {x, y, z, s1, c1, c2}
MCWritten == GraphLinks \cup {x, y, z}
MCRetrieved == {Imports, x, y, z}
MCResponses == {<<x, y>>}

MCRequests == {[files |-> <<x>>, workflow |-> "refactor", served |-> {y}, budget |-> 2],
               [files |-> <<y, x>>, workflow |-> "explore", served |-> {}, budget |-> 0],
               [files |-> <<x, y>>, workflow |-> "review", served |-> {x}, budget |-> 4]}
MCPath == [n \in {x, y, z} |-> IF n = y THEN y ELSE x]
MCDir == [n \in {x, y} |-> "a"]
MCSeverity == [n \in {x, y, z} |-> IF n = z THEN "must" ELSE "unset"]
MCWords == [n \in {x, y, z} |-> CASE n = x -> 1 [] n = y -> 2 [] n = z -> 4]
MCRecency == <<50, 100>>

Option(edges, maxDepth, maxVisited, direction, asOf) ==
    [edges |-> edges, maxDepth |-> maxDepth, maxVisited |-> maxVisited, direction |-> direction, asOf |-> asOf]
MCSearches == {Option({}, 0, 0, "Both", Now), Option({}, 1, 0, "Forward", Now),
               Option({"imports", "mentions"}, 2, 0, "Reverse", Now),
               Option({}, 1, 2, "Both", 1), Option({}, 1, 1, "Both", Now)}

-----------------------------------------------------------------------------
EventsInit == RetrievalInit /\ CollectorInit /\ part \in Parts

\* The records appended in a step: of these ids and up to this time.  Only the
\* lifecycle of a link changes what a walk meets.
Only(appendable, time) ==
    \A i \in Written : store'.chain[i] # store.chain[i] =>
        LET r == store'.chain[i][Len(store'.chain[i])]
        IN i \in appendable /\ r.createdAt <= time /\ (r.lifecycle = "Active" \/ i \in Links)

AppendStep == part = "append" /\ Next /\ Only(GraphLinks \cup {x}, 2) /\ UNCHANGED <<part, requestVars, collectorVars>>
RetrieveStep == part = "retrieve" /\ RetrievalNext /\ Only(Retrieved, 1) /\ UNCHANGED <<part, collectorVars>>
ServeStep == part = "serve" /\ CollectorNext /\ UNCHANGED <<part, requestVars>>
FlushStep == part = "serve" /\ FlushLoop /\ UNCHANGED <<part, requestVars>>

EventsSpec == EventsInit /\ [][AppendStep \/ RetrieveStep \/ ServeStep]_allVars /\ WF_allVars(FlushStep)

-----------------------------------------------------------------------------
\* What a session remembers, replays and counts agrees with what is written.
SessionsMatchStore == ReplayIsServed /\ MemoryCoversStore /\ FocusCountsCalls(<<x, y>>)

\* A package holds the records current when it is assembled, and anticipates
\* only what it does not hold.
PackageIsCurrent == SectionsAreCurrent /\ AnticipatedIsNew
=============================================================================
