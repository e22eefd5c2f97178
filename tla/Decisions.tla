----------------------------- MODULE Decisions -----------------------------
(***************************************************************************)
(* What a scan harvests as decisions: internal/analysis/decisions and      *)
(* internal/analysis/annotations.  A file's content names a sequence of    *)
(* lines: [kind, name] with kind "rule", "lesson", "h2", "text", or "long" *)
(* for a line beyond the buffer of bufio.Scanner.  Every source yields the *)
(* writes of its one transaction, in order.                                *)
(***************************************************************************)
EXTENDS Naturals, Sequences, SequencesExt, FiniteSets

CONSTANTS Paths,        \* file ids
          PathOrder,    \* Paths in the order a walk of the tree meets them
          NoFile,       \* the content of a file that does not exist
          LinesOf,      \* content -> its lines
          ADRs,         \* the paths docs/adr/*.md
          Guides,       \* the paths docs/*.md
          Annotated,    \* the source files that the walk for annotations opens
          DocModule,    \* doc -> the module it governs, or Global
          Global,
          InModule,     \* <<path, module>>: the file lies in the module
          SlugOf,       \* heading -> slug, "" when nothing of it is left
          CommitWindow  \* how many of the last commits RecentCommits returns

DecisionsAssumption ==
    /\ PathOrder \in Seq(Paths) /\ Paths = Range(PathOrder)
    /\ NoFile \notin DOMAIN LinesOf /\ \A c \in DOMAIN LinesOf : LinesOf[c] \in Seq(Range(LinesOf[c]))
    /\ CommitWindow \in Nat
ASSUME DecisionsAssumption

Decision(did, body) == [did |-> did, body |-> body]
Link(path, did) == [path |-> path, did |-> did]

Existing(tree, S) == {p \in S : tree[p] # NoFile}
Content(tree, p) == LinesOf[tree[p]]

\* What the files of a set yield, in the order of the walk.
InTurn(S, Yield(_)) ==
    FlattenSeq([i \in DOMAIN PathOrder |-> IF PathOrder[i] \in S THEN Yield(PathOrder[i]) ELSE <<>>])

\* The writes of one decision and of its anchor in a file.
Anchored(path, d) == <<d, Link(path, d.did)>>

-----------------------------------------------------------------------------
(* Writing *)

\* writeDecision: the first text of an id stays.
writeDecision(decided, d) ==
    [did \in DOMAIN decided \cup {d.did} |-> IF did \in DOMAIN decided THEN decided[did] ELSE d.body]

\* writeDecisionLink: a link is written once.
writeDecisionLink(anchors, l) == anchors \cup {l}

RecordOne(log, w) ==
    IF "body" \in DOMAIN w THEN [log EXCEPT !.decided = writeDecision(@, w)]
                           ELSE [log EXCEPT !.anchors = writeDecisionLink(@, w)]
WriteAll(log, writes) ==
    LET after[n \in 0..Len(writes)] == IF n = 0 THEN log ELSE RecordOne(after[n - 1], writes[n])
    IN after[Len(writes)]

NothingDecided == [decided |-> <<>>, anchors |-> {}]

-----------------------------------------------------------------------------
(* Reading *)

\* Extract: the lines of the annotations with a name, up to a line that is too long.
Extract(lines) ==
    {i \in DOMAIN lines : /\ lines[i].kind \in {"rule", "lesson"} /\ lines[i].name # ""
                          /\ \A j \in 1..i : lines[j].kind # "long"}

\* splitH2Sections: a heading opens a section and closes the one before.
splitH2Sections(lines) ==
    LET flush(acc) ==
            IF acc.open = "" THEN acc
            ELSE [open |-> acc.open, buf |-> <<>>,
                  out |-> Append(acc.out, [heading |-> acc.open, body |-> acc.buf])]
        Take(acc, l) ==
            CASE l.kind = "h2"   -> [open |-> l.name, buf |-> Append(flush(acc).buf, l), out |-> flush(acc).out]
              [] acc.open # ""   -> [acc EXCEPT !.buf = Append(@, l)]
              [] OTHER           -> acc
        after[n \in 0..Len(lines)] ==
            IF n = 0 THEN [open |-> "", buf |-> <<>>, out |-> <<>>] ELSE Take(after[n - 1], lines[n])
    IN flush(after[Len(lines)]).out

-----------------------------------------------------------------------------
(* The four sources *)

\* BackfillFromADRs: a decision per file.
ADRWrites(tree) ==
    LET Yield(p) == Anchored(p, Decision(<<"adr", p>>, Content(tree, p)))
    IN InTurn(Existing(tree, ADRs), Yield)

\* WalkForAnnotations and BackfillFromAnnotations: a decision per name of a
\* rule, whose text is that of the first file; every file is anchored.
RuleWrites(p, lines) ==
    FlattenSeq([i \in DOMAIN lines |->
        IF i \in Extract(lines) /\ lines[i].kind = "rule"
        THEN Anchored(p, Decision(<<"rule", lines[i].name>>, p)) ELSE <<>>])
AnnotationWrites(tree) ==
    LET Yield(p) == RuleWrites(p, Content(tree, p)) IN InTurn(Existing(tree, Annotated), Yield)

\* loadDocDecisions: a decision per section whose heading leaves a slug.
loadDocDecisions(tree, p) ==
    LET sections == splitH2Sections(Content(tree, p))
        slug(i) == SlugOf[sections[i].heading]
    IN FlattenSeq([i \in DOMAIN sections |->
           IF slug(i) = "" THEN <<>> ELSE <<Decision(<<"doc", p, slug(i)>>, sections[i].body)>>])

\* The decisions of a doc, each anchored to it.
DocDecisions(tree, p) ==
    LET own == loadDocDecisions(tree, p) IN FlattenSeq([i \in DOMAIN own |-> Anchored(p, own[i])])

\* The links of a file to the decisions of the doc that governs its module.
ModuleLinks(tree, f, p) ==
    LET own == loadDocDecisions(tree, p)
    IN IF <<f, DocModule[p]>> \in InModule THEN [i \in DOMAIN own |-> Link(f, own[i].did)] ELSE <<>>

\* BackfillFromDocs: the sections of all docs, then the links of the modules.
\* The sort by id leaves two sections with one id as they were; what else it
\* changes shows only in which writes a failed transaction leaves.
DocWrites(tree, scanned) ==
    LET docs == Existing(tree, Guides)
        Own(p) == DocDecisions(tree, p)
        Governing(f) == LET Yield(p) == ModuleLinks(tree, f, p) IN InTurn(docs, Yield)
    IN InTurn(docs, Own) \o InTurn(scanned, Governing)

\* RecentCommits and BackfillFromCommits: newest first, a decision per commit
\* whose subject carries a marker.
CommitWrites(commits) ==
    LET back == IF Len(commits) < CommitWindow THEN Len(commits) ELSE CommitWindow
        commit(i) == Len(commits) + 1 - i
    IN FlattenSeq([i \in 1..back |->
           IF commits[commit(i)].marked THEN <<Decision(<<"commit", commit(i)>>, commit(i))>> ELSE <<>>])
=============================================================================
