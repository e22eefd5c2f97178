----------------------------- MODULE Retrieval -----------------------------
(***************************************************************************)
(* Engine.Assemble of internal/retrieval: the context package of a         *)
(* request.  Every traversal and every lookup is a View of its own, so     *)
(* records are appended between them; the request is one process beside    *)
(* the event store.  Scores are in hundredths of a percent.                *)
(***************************************************************************)
EXTENDS Graph, Integers

CONSTANTS Requests,      \* records [files, workflow, served, budget]; files are ids of entities
          Path,          \* id -> the file its record names, or NoPath
          Dir,           \* file -> its directory
          Severity,      \* id -> "must", "should", "may" or "unset"
          Words,         \* id -> the words of its body
          Recency        \* time -> 2^(-age / 30 days) in percent

VARIABLES request,    \* the request in hand, or NoRequest
          phase,      \* "idle", "collect", "prioritise", "resolve", "anticipate", "done"
          position,   \* the next file or candidate of the phase
          refs,       \* candidates, in the order they were found
          priority,   \* those that get the edge boost
          sections,   \* the sections shaped so far, and at last the admitted ones
          leftOut,    \* Truncated, and the sections it speaks of: history
          anticipated,
          before      \* the store when the request came: history

requestVars == <<request, phase, position, refs, priority, sections, leftOut, anticipated, before>>

NoPath == "no path"
NoRequest == [files |-> <<>>, workflow |-> "explore", served |-> {}, budget |-> 0]
DefaultBudget == 2000
GraphDepth == 2           \* defaultMaxDepth of the engine

-----------------------------------------------------------------------------
(* Profiles *)

Weights(r, s, p, n) == [recency |-> r, severity |-> s, proximity |-> p, novelty |-> n]
workflowProfiles ==
    [bugfix   |-> [weights |-> Weights(20, 40, 30, 10), edges |-> {"decision_link", "imports"}],
     feature  |-> [weights |-> Weights(20, 25, 30, 25), edges |-> {"decision_link", "imports"}],
     review   |-> [weights |-> Weights(15, 40, 20, 25), edges |-> {"decision_link"}],
     refactor |-> [weights |-> Weights(15, 30, 40, 15), edges |-> {"imports"}],
     test     |-> [weights |-> Weights(30, 20, 35, 15), edges |-> {"imports"}],
     explore  |-> [weights |-> Weights(25, 35, 25, 15), edges |-> {}]]

EdgeBoost == 1500
ProfileFor(w) == IF w \in DOMAIN workflowProfiles THEN workflowProfiles[w] ELSE workflowProfiles["explore"]

-----------------------------------------------------------------------------
(* Scores *)

ScoreSeverity(id) ==
    CASE Severity[id] = "must" -> 100 [] Severity[id] = "should" -> 60
      [] Severity[id] = "may" -> 30 [] OTHER -> 50

\* ScoreProximity: the first of the files that is near decides.
ScoreProximity(req, id) ==
    LET same(f) == Path[id] = f
        near(f) == Dir[f] # "." /\ Dir[Path[id]] = Dir[f]
        hits == SelectSeq(req.files, LAMBDA f : same(f) \/ near(f))
    IN CASE Path[id] = NoPath -> 20
         [] Path[id] # NoPath /\ hits = <<>> -> 20
         [] OTHER -> IF same(hits[1]) THEN 100 ELSE 50

ScoreNovelty(req, id) == IF id \in req.served THEN 0 ELSE 100

Score(req, id, event) ==
    LET w == ProfileFor(req.workflow).weights
    IN w.recency * Recency[event.createdAt] + w.severity * ScoreSeverity(id)
         + w.proximity * ScoreProximity(req, id) + w.novelty * ScoreNovelty(req, id)

clampScore(s) == IF s > 10000 THEN 10000 ELSE s
boosted(id, score) == IF id \in priority THEN clampScore(score + EdgeBoost) ELSE score

\* ceil(words * 1.3)
TokensFor(words) == (words * 13 + 9) \div 10

shapeSection(id, event) ==
    [ref |-> id, version |-> event.version, score |-> boosted(id, Score(request, id, event)),
     tokens |-> TokensFor(Words[id])]

-----------------------------------------------------------------------------
(* Budget *)

EffectiveBudget(req) == IF req.budget > 0 THEN req.budget ELSE DefaultBudget
tokensOf(s) == FoldLeft(LAMBDA n, x : n + x.tokens, 0, s)

\* FitToBudget: a section that does not fit is passed over, later ones may fit.
\* Seeded fault: the sum is compared before the section is added.
FitToBudgetLate(s, limit) ==
    FoldLeft(LAMBDA out, x : IF tokensOf(out) >= limit THEN out ELSE Append(out, x), <<>>, s)
FitToBudget(s, limit) ==
    FoldLeft(LAMBDA out, x : IF tokensOf(out) + x.tokens > limit THEN out ELSE Append(out, x), <<>>, s)

\* sort.SliceStable by descending score.
ByScore(s) ==
    LET above(i) == {j \in DOMAIN s : s[j].score > s[i].score \/ (s[j].score = s[i].score /\ j <= i)}
    IN [n \in DOMAIN s |-> s[CHOOSE i \in DOMAIN s : Cardinality(above(i)) = n]]

-----------------------------------------------------------------------------
(* Assemble *)

RetrievalInit ==
    /\ Init
    /\ request = NoRequest /\ phase = "idle" /\ position = 1
    /\ refs = <<>> /\ priority = {} /\ sections = <<>> /\ leftOut = <<>> /\ anticipated = {}
    /\ before = EmptyStore

\* A request without files gets an empty package.
Request(req) ==
    /\ phase = "idle"
    /\ request' = req
    /\ phase' = IF req.files = <<>> THEN "done" ELSE "collect"
    /\ before' = store
    /\ UNCHANGED <<storeVars, position, refs, priority, sections, leftOut, anticipated>>

add(out, r) == IF Contains(out, r) THEN out ELSE Append(out, r)

GraphOptions(edges, depth, dir) ==
    [edges |-> edges, maxDepth |-> depth, maxVisited |-> 0, direction |-> dir, asOf |-> Now]

\* The phase goes over the files one View at a time and then passes to another.
NextFile(then) ==
    IF position < Len(request.files) THEN position' = position + 1 /\ phase' = phase
    ELSE position' = 1 /\ phase' = then

\* collectCandidateRefs: a search cut at the cap gives what it found.
Collect ==
    /\ phase = "collect"
    /\ LET start == request.files[position]
           reach == Reachable(store, start, GraphOptions({}, GraphDepth, "Both")).refs
       IN refs' = FoldLeft(add, add(refs, start), reach)
    /\ NextFile("prioritise")
    /\ UNCHANGED <<storeVars, request, priority, sections, leftOut, anticipated, before>>

\* priorityRefs
Prioritise ==
    /\ phase = "prioritise"
    /\ LET edges == ProfileFor(request.workflow).edges
           near  == Neighbors(store, request.files[position], GraphOptions(edges, 1, "Forward"))
       IN priority' = IF edges = {} THEN {} ELSE priority \cup Range(near)
    /\ NextFile("resolve")
    /\ UNCHANGED <<storeVars, request, refs, sections, leftOut, anticipated, before>>

\* Seeded fault: a candidate without a record ends the phase.
ResolveStops ==
    /\ phase = "resolve" /\ position <= Len(refs)
    /\ LET id == refs[position]
           event == Latest(store, id)
       IN IF event = NotFound THEN position' = Len(refs) + 1 /\ sections' = sections
          ELSE position' = position + 1 /\ sections' = Append(sections, shapeSection(id, event))
    /\ UNCHANGED <<storeVars, request, phase, refs, priority, leftOut, anticipated, before>>
\* scoreAndShape: one candidate; one without a record is skipped.
Resolve ==
    /\ phase = "resolve" /\ position <= Len(refs)
    /\ LET id == refs[position]
           event == Latest(store, id)
       IN sections' = IF event = NotFound THEN sections ELSE Append(sections, shapeSection(id, event))
    /\ position' = position + 1
    /\ UNCHANGED <<storeVars, request, phase, refs, priority, leftOut, anticipated, before>>

\* When nothing resolved, Assemble returns with a warning.
Rank ==
    /\ phase = "resolve" /\ position > Len(refs)
    /\ LET ranked == ByScore(sections)
           admitted == FitToBudget(ranked, EffectiveBudget(request))
       IN /\ sections' = admitted
          /\ leftOut' = SelectSeq(ranked, LAMBDA x : ~Contains(admitted, x))
    /\ position' = 1
    /\ phase' = IF sections = <<>> THEN "done" ELSE "anticipate"
    /\ UNCHANGED <<storeVars, request, refs, priority, anticipated, before>>

Served == {sections[i].ref : i \in DOMAIN sections} \cup Range(request.files)

\* anticipate
Anticipate ==
    /\ phase = "anticipate"
    /\ LET near == Neighbors(store, request.files[position], GraphOptions({}, 1, "Both"))
       IN anticipated' = anticipated \cup (Range(near) \ Served)
    /\ NextFile("done")
    /\ UNCHANGED <<storeVars, request, refs, priority, sections, leftOut, before>>

RetrievalNext ==
    \/ Next /\ UNCHANGED requestVars
    \/ \E req \in Requests : Request(req)
    \/ Collect \/ Prioritise \/ Resolve \/ Rank \/ Anticipate

RetrievalSpec == RetrievalInit /\ [][RetrievalNext]_<<storeVars, requestVars>>

-----------------------------------------------------------------------------
(* Properties *)

Ranked(s) == \A i, j \in DOMAIN s : i < j => s[i].score >= s[j].score

(***************************************************************************)
(* The package is the best the budget allows, in the order of the scores:  *)
(* it never costs more than the budget, no record is in it twice, and a    *)
(* section is left out only if it does not fit beside the admitted ones    *)
(* that rank above it.  Truncated (leftOut is not empty) says so.          *)
(***************************************************************************)
PackageIsBest ==
    phase \in {"anticipate", "done"} =>
        LET rank(x) == SelectSeq(sections, LAMBDA y : y.score >= x.score)
            all == sections \o leftOut
        IN /\ tokensOf(sections) <= EffectiveBudget(request)
           /\ Ranked(sections)
           /\ \A i, j \in DOMAIN all : all[i].ref = all[j].ref => i = j
           /\ \A i \in DOMAIN leftOut :
                 tokensOf(rank(leftOut[i])) + leftOut[i].tokens > EffectiveBudget(request)

(***************************************************************************)
(* What is anticipated is new to the agent, however the records of the     *)
(* store change while the package is assembled: neither a section of the   *)
(* package nor a file of the request, and one step away from one.          *)
(***************************************************************************)
AnticipatedIsNew ==
    /\ anticipated \cap Served = {}
    /\ \A r \in anticipated : \E l \in Links, i \in DOMAIN request.files :
            store.chain[l] # <<>> /\ {l.src, l.dst} = {r, request.files[i]}

(***************************************************************************)
(* Appends while a package is assembled neither lose a record nor make it  *)
(* older: while the links stay, every candidate with a record before the   *)
(* request is a section or left out for the budget, in a version no older  *)
(* than the one it had.                                                    *)
(***************************************************************************)
SectionsAreCurrent ==
    phase \in {"anticipate", "done"} /\ request.files # <<>> =>
        LET all == sections \o leftOut
            near(f) == Range(Reachable(before, f, GraphOptions({}, GraphDepth, "Both")).refs) \cup {f}
            linksStay == \A l \in Links : store.chain[l] = before.chain[l] /\ store.reverse[l] = before.reverse[l]
        IN linksStay =>
              \A f \in Range(request.files) : \A id \in near(f) : before.chain[id] # <<>> =>
                  \E i \in DOMAIN all :
                      all[i].ref = id /\ all[i].version \in Len(before.chain[id])..Len(store.chain[id])

(***************************************************************************)
(* A file of the request is as near as can be: score.go:75 gives 1.0 to an *)
(* event whose own path equals one of the request's files.  It does not    *)
(* hold, since the loop returns at an earlier file of the same directory.  *)
(***************************************************************************)
RequestedFilesAreNearest ==
    \A i \in DOMAIN request.files : ScoreProximity(request, request.files[i]) = 100
=============================================================================
