----------------------------- MODULE MCProgram -----------------------------
(***************************************************************************)
(* The parts of the program that share no state with the others: record    *)
(* keys, tokenizer and encodings, the query language, the full-text index, *)
(* schema migrations, backfills, the size of the page pool and scans of a  *)
(* repository.  A behaviour runs one of them and leaves the others at one  *)
(* initial state.                                                          *)
(***************************************************************************)
EXTENDS EventKeys, Text, Query, FTS, Migrate, Backfill, DynPool, MCScan, TLC

CONSTANTS Parts,      \* those of "keys", "text", "query", "fts", "migrate", "backfill",
                      \* "pool" and "scan" that are run
          a, b, d, e1, e2, none

VARIABLE part

-----------------------------------------------------------------------------
(* Inputs *)

\* Ids with the separator, the escape and the letters of keys and versions.
KeyChars == {":", "\\", "c", "v", "0"}
MCIDs == {<<c>> : c \in KeyChars} \cup {<<c, e>> : c, e \in KeyChars}
MCVersions == {0, 2, 10}

\* Letters of both cases, a digit, a separator of identifiers and one of words.
MCWords == UNION {[1..n -> {"a", "A", "1", "_", "#", " "}] : n \in 0..4}
Posting(doc, freq, positions) == [doc |-> doc, freq |-> freq, positions |-> positions]
SomePositions == {<<>>, <<1, 3>>, <<3, 0>>}
SomePostings == {Posting(doc, 2, p) : doc \in {0, 2, 3}, p \in SomePositions}
MCLists == {<<>>} \cup {<<p>> : p \in SomePostings} \cup {<<p, q>> : p, q \in SomePostings}
Norm(doc, length) == [doc |-> doc, length |-> length]
MCSegments ==
    {[id |-> 1, docCount |-> 1, totalLen |-> 2, terms |-> t, norms |-> n] :
        t \in {<<>>, <<[term |-> 7, postings |-> <<Posting(2, 1, <<0>>), Posting(3, 1, <<>>)>>]>>},
        n \in {<<>>, <<Norm(2, 1)>>, <<Norm(2, 1), Norm(3, 4)>>}}

\* Values: a number or none, and the rank of the text that is printed for them.
Value(n, t) == [num |-> n, text |-> t]
MCSchema == (<<"n">> :> "number") @@ (<<"s">> :> "string") @@ (<<"id">> :> "string")
MCIndexed == {<<"n">>}
MCNil == Value(none, 6)
MCValueOf == ("10" :> Value(10, 2)) @@ ("2" :> Value(2, 3)) @@ ("x" :> Value(none, 8)) @@ ("true" :> Value(none, 7))
             @@ ("1.2.3" :> Value(none, 1))
MCIntegerOf == ("10" :> 10) @@ ("2" :> 2) @@ ("1.5" :> none) @@ ("0" :> 0)
MCHolds == {<<op, Value(none, 8), Value(none, 8)>> : op \in {"contains", "matches"}}
MCStrings == UNION {[1..k -> {"'", "1", ".", "=", "!", ">", "a", " ", "?"}] : k \in 0..4}
MCRows == {<<"s">> :> Value(none, 8)} \cup {(<<"n">> :> v) @@ (<<"s">> :> Value(none, 9)) : v \in {Value(10, 2), Value(2, 3)}}
MCTables == {<<>>} \cup [1..3 -> MCRows]
Cond(f, op, v) == [field |-> f, op |-> op, value |-> v]
More == Cond(<<"n">>, ">", Number("2"))
Same == Cond(<<"n">>, "=", Number("2"))
Has == Cond(<<"s">>, "contains", Quoted("x"))
Differs == Cond(<<"s">>, "!=", Quoted("x"))
Unread == Cond(<<"n">>, "=", Number("1.2.3"))
Below == Cond(<<"s">>, "<", Quoted("x"))
Nested == Cond(<<"s", "t">>, "=", Ident("true"))
Where(c, o) == [conds |-> c, ops |-> o]
Wheres == {None} \cup {Where(<<c>>, <<>>) : c \in {More, Same, Below, Nested, Unread}} \cup
          {Where(<<Same, Differs>>, <<"and">>), Where(<<More, Has>>, <<"or">>)} \cup
          {Where(<<More, Same, Has>>, <<o, p>>) : o, p \in {"and", "or"}} \cup
          {[traverse |-> Traverse("x", n, e, f)] : n \in {0, 2}, e \in {"", "g"}, f \in {"forward", "both"}}
Orders == {None, [field |-> <<"id">>, direction |-> "desc"]} \cup {[field |-> f, direction |-> w] : f \in {<<"n">>, <<"s">>}, w \in {"asc", "desc"}}
MCQueries == {Query(w, o, l, "") : w \in Wheres, o \in Orders, l \in {0, 2}} \cup
             {Query(w, o, 2, "today") : w \in Wheres, o \in {None, [field |-> <<"id">>, direction |-> "asc"]}}

\* A walk whose depth, edge type, direction and time each leave something out; one
\* meets its cap and one fails.
Ref(t) == Value(none, t)
Walk(o) ==
    LET met(r) == /\ o.maxDepth = 2 => r # Ref(15)
                  /\ o.edges # {} => r # Ref(14)
                  /\ o.direction = "Forward" => r # Ref(11)
                  /\ o.asOf # "" => r # Ref(12)
    IN [error |-> o.maxDepth = 2 /\ o.edges # {} /\ o.direction = "Both",
        capExceeded |-> o.maxDepth = 0 /\ o.edges = {} /\ o.direction = "Both",
        refs |-> SelectSeq(<<Ref(13), Ref(11), Ref(14), Ref(12), Ref(15)>>, met)]
MCReachable ==
    [o \in [start : {"x"}, edges : {{}, {"g"}}, maxDepth : {0, 2}, asOf : {"", "today"},
            direction : {"Forward", "Both"}] |-> Walk(o)]

\* Legacy records of which one has no name at first, and two opposite links.
Legacy(i, f) == [id |-> i, form |-> f]
MCKn == <<Legacy(a, "good"), Legacy(b, "nameless"), Legacy(b, "good")>>
MCRel == <<Legacy([src |-> a, edge |-> "f", dst |-> b], "good"), Legacy([src |-> b, edge |-> "f", dst |-> a], "good")>>
MCNt == <<Legacy(d, "good")>>
MCLinks == Good(MCRel)

\* Rates on both sides of the watermarks, and exactly on them.
MCActivity == {<<0, 0>>, <<6, 4>>, <<1, 9>>, <<7, 3>>, <<19, 1>>, <<39, 1>>, <<20, 0>>}

-----------------------------------------------------------------------------
One(S) == {CHOOSE s \in S : TRUE}
inputs == <<pair, datum, input>>

ProgramInit ==
    /\ part \in Parts
    /\ pair \in IF part = "keys" THEN IdPairs ELSE One(IdPairs)
    /\ IF part = "text" THEN TextInit ELSE datum = [kind |-> "text", of |-> <<>>]
    /\ IF part = "query" THEN QueryInit ELSE input = [kind |-> "chars", chars |-> <<>>]
    /\ FTSInit /\ MigrateInit /\ DynInit
    /\ IF part = "scan" THEN ScanInit ELSE ScanInit /\ NeverScanned /\ ~watching
    /\ BackfillInit /\ (part # "backfill" => \A k \in Keys : records[k] = Absent)

KeysStep == part = "keys" /\ KeysNext /\ UNCHANGED <<part, datum, input, ftsVars, migrateVars, backfillVars, dynVars, scanVars>>
TextStep == part = "text" /\ TextNext /\ UNCHANGED <<part, pair, input, ftsVars, migrateVars, backfillVars, dynVars, scanVars>>
QueryStep == part = "query" /\ QueryNext /\ UNCHANGED <<part, pair, datum, ftsVars, migrateVars, backfillVars, dynVars, scanVars>>
FTSStep == part = "fts" /\ FTSNext /\ UNCHANGED <<part, inputs, migrateVars, backfillVars, dynVars, scanVars>>
MigrateStep == part = "migrate" /\ MigrateNext /\ UNCHANGED <<part, inputs, ftsVars, backfillVars, dynVars, scanVars>>
BackfillStep == part = "backfill" /\ BackfillNext /\ UNCHANGED <<part, inputs, ftsVars, migrateVars, dynVars, scanVars>>
ScanStep == part = "scan" /\ ScanNext /\ UNCHANGED <<part, inputs, ftsVars, migrateVars, backfillVars, dynVars>>
PoolStep == part = "pool" /\ DynNext /\ UNCHANGED <<part, inputs, ftsVars, migrateVars, backfillVars, scanVars>>

allVars == <<part, inputs, ftsVars, migrateVars, backfillVars, dynVars, scanVars>>

\* The fairness is that of DynPool: there are always further transactions.
ProgramSpec ==
    /\ ProgramInit
    /\ [][\/ KeysStep \/ TextStep \/ QueryStep \/ FTSStep
          \/ MigrateStep \/ BackfillStep \/ PoolStep \/ ScanStep]_allVars
    /\ WF_allVars(PoolStep)

-----------------------------------------------------------------------------
\* Keys parse back to what they were built from, and every prefix scan meets
\* the records of one id, or the links of one node, and no other.
KeysAreExact == part = "keys" => KeysRoundTrip /\ ChainsAreExact /\ LinkScansAreExact

\* Every word of a text can be found, and the segment format loses nothing.
TextSurvives == part = "text" => TextIsFound /\ EncodingsRoundTrip

\* Cold workloads drive the pool to its ceiling and hot ones to its floor.
PoolReachesItsEnd == ColdGrowsToMax /\ HotShrinksToMin

\* A query is read as it was written and returns the rows it asks for.
QueriesAreExact == part = "query" => NoCharacterLost /\ QueriesReadBack /\ RowsAreExact
=============================================================================
