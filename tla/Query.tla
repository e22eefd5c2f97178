------------------------------- MODULE Query -------------------------------
(***************************************************************************)
(* The query language of internal/query, from characters to rows: lexer,   *)
(* parser, type check, plan, and execution, over the records of one        *)
(* collection or as a walk of the link graph.  A field is a sequence of    *)
(* identifiers; a value is a record [num, text]: the number that it is, or *)
(* NotNumber, and the rank of its text among all texts.  Nil is what a row *)
(* without the field is sorted by.  Substrings and regular expressions are *)
(* the relation Holds.                                                     *)
(***************************************************************************)
EXTENDS Integers, FiniteSets, Sequences, SequencesExt

CONSTANTS Schema,       \* field -> type, of the collection
          Indexed,      \* its fields with a secondary index
          NotNumber, Nil,
          ValueOf,      \* what the literal of a string or number token denotes
          IntegerOf,    \* the same for strconv.Atoi, or NotNumber
          Timestamps,   \* the strings that AS OF accepts
          Holds,        \* <<operator, value of the row, value of the query>>
          Reachable,    \* graph.Reachable (module Graph): options of a walk -> its end
          Strings, Queries, Tables   \* inputs

VARIABLE input          \* a string, or a query and the rows in key order

Inputs == [kind : {"chars"}, chars : Strings] \cup [kind : {"query"}, query : Queries, rows : Tables]

QueryInit == input \in Inputs
QueryNext == UNCHANGED input
QuerySpec == QueryInit /\ [][QueryNext]_input

Failed == [error |-> TRUE]
None == [none |-> TRUE]
Parsed(value, rest) == [error |-> FALSE, value |-> value, rest |-> rest]

-----------------------------------------------------------------------------
(* Lexer.  A token has a type and the characters it was read from. *)

isDigit(c) == c = "1"
isLetter(c) == c \in {"a", "_"}
Single == {"=", ">", "<", ".", "(", ")", ","}
Double == [c \in {">", "<", "!"} |-> CASE c = ">" -> ">=" [] c = "<" -> "<=" [] c = "!" -> "!="]
Token(type, chars) == [type |-> type, chars |-> chars]

\* How the open token goes on with the next character.
Continues(open, c) ==
    \/ open.type = "number" /\ (isDigit(c) \/ c = ".")
    \/ open.type = "ident" /\ (isLetter(c) \/ isDigit(c))

Opening(c) == CASE c = "'"                       -> Token("quote", <<c>>)
                [] isDigit(c)                    -> Token("number", <<c>>)
                [] isLetter(c)                   -> Token("ident", <<c>>)
                [] c \in Single \/ c \in DOMAIN Double -> Token(c, <<c>>)
                [] OTHER                         -> Failed

Grown(open, type, c) == [type |-> type, chars |-> Append(open.chars, c)]
Closed(st) == IF st.open = None THEN st.out ELSE Append(st.out, st.open)

StartToken(st, c) ==
    IF c = " " THEN [st EXCEPT !.out = Closed(st), !.open = None]
    ELSE IF Opening(c) = Failed THEN [st EXCEPT !.error = TRUE]
    ELSE [st EXCEPT !.out = Closed(st), !.open = Opening(c)]

scanToken(st, c) ==
    IF st.error \/ st.open = None THEN IF st.error THEN st ELSE StartToken(st, c)
    ELSE CASE st.open.type = "quote" ->
                 [st EXCEPT !.open = Grown(@, IF c = "'" THEN "string" ELSE "quote", c)]
           [] st.open.type \in DOMAIN Double /\ c = "=" ->
                 [st EXCEPT !.open = Grown(@, Double[st.open.type], c)]
           [] st.open.type = "!" /\ c # "=" -> [st EXCEPT !.error = TRUE]
           [] Continues(st.open, c) -> [st EXCEPT !.open = Grown(@, st.open.type, c)]
           [] OTHER -> StartToken(st, c)

Lex(chars) ==
    LET end == FoldLeft(scanToken, [out |-> <<>>, open |-> None, error |-> FALSE], chars)
        tokens == Closed(end)
    IN IF end.error \/ \E i \in DOMAIN tokens : tokens[i].type \in {"quote", "!"}
       THEN Failed ELSE [error |-> FALSE, tokens |-> tokens]

-----------------------------------------------------------------------------
(* Parser: [type, lit] tokens; each operator takes them from the left. *)

Ident(lit) == [type |-> "ident", lit |-> lit]
Quoted(lit) == [type |-> "string", lit |-> lit]
Number(lit) == [type |-> "number", lit |-> lit]
Sign(type) == [type |-> type, lit |-> type]

Peek(ts) == IF ts = <<>> THEN [type |-> "eof", lit |-> ""] ELSE Head(ts)
Skip(ts, n) == SubSeq(ts, n + 1, Len(ts))
Operators == {"=", "!=", ">", "<", ">=", "<="}

RECURSIVE parseField(_)
parseField(ts) ==
    IF Peek(ts).type # "ident" THEN Failed
    ELSE IF Peek(Tail(ts)).type # "." THEN Parsed(<<Head(ts).lit>>, Tail(ts))
    ELSE LET more == parseField(Skip(ts, 2))
         IN IF more.error THEN Failed ELSE Parsed(<<Head(ts).lit>> \o more.value, more.rest)

parseOperator(ts) ==
    IF Peek(ts).type \in Operators \/ (Peek(ts).type = "ident" /\ Peek(ts).lit \in {"contains", "matches"})
    THEN Parsed(Head(ts).lit, Tail(ts)) ELSE Failed

\* The lexer takes 1.2.3 for a number; strconv.ParseFloat does not.
ValueOK(t) ==
    \/ t.type = "string"
    \/ t.type = "number" /\ ValueOf[t.lit].num # NotNumber
    \/ t.type = "ident" /\ t.lit \in {"true", "false"}
parseValue(ts) == IF ValueOK(Peek(ts)) THEN Parsed(Head(ts), Tail(ts)) ELSE Failed

parseCondition(ts) ==
    LET field == parseField(ts)
        op == IF field.error THEN Failed ELSE parseOperator(field.rest)
        value == IF op.error THEN Failed ELSE parseValue(op.rest)
    IN IF value.error THEN Failed
       ELSE Parsed([field |-> field.value, op |-> op.value, value |-> value.value], value.rest)

RECURSIVE parseConditions(_, _, _)
parseConditions(ts, conds, ops) ==
    LET c == parseCondition(ts)
        joined == Append(conds, c.value)
    IN IF c.error THEN Failed
       ELSE IF Peek(c.rest).lit \in {"and", "or"}
       THEN parseConditions(Tail(c.rest), joined, Append(ops, Head(c.rest).lit))
       ELSE Parsed([conds |-> joined, ops |-> ops], c.rest)

\* parseTraverseNamedArg: which argument may have which value.
ArgOK(key, v) ==
    CASE key = "depth"            -> v.type = "number" /\ IntegerOf[v.lit] # NotNumber
      [] key \in {"edge", "type"} -> v.type = "string"
      [] key = "direction"        -> v.type \in {"ident", "string"} /\ v.lit \in {"forward", "reverse", "both"}
      [] OTHER                    -> FALSE
ArgOf(expr, key, v) ==
    CASE key = "depth"            -> [expr EXCEPT !.depth = IntegerOf[v.lit]]
      [] key \in {"edge", "type"} -> [expr EXCEPT !.edge = v.lit]
      [] OTHER                    -> [expr EXCEPT !.direction = v.lit]

RECURSIVE parseTraverseArgs(_, _)
parseTraverseArgs(ts, expr) ==
    IF Peek(ts).type = ")" THEN Parsed(expr, Tail(ts))
    ELSE IF Len(ts) < 4 THEN Failed
    ELSE IF ts[1].type = "," /\ ts[2].type = "ident" /\ ts[3].type = "=" /\ ArgOK(ts[2].lit, ts[4])
    THEN parseTraverseArgs(Skip(ts, 4), ArgOf(expr, ts[2].lit, ts[4]))
    ELSE Failed

Traverse(start, depth, edge, direction) ==
    [start |-> start, depth |-> depth, edge |-> edge, direction |-> direction]
parseTraverse(ts) ==
    LET args == IF Peek(ts).type = "(" /\ Peek(Tail(ts)).type = "ident"
                THEN parseTraverseArgs(Skip(ts, 2), Traverse("", 0, "", "forward")) ELSE Failed
        start == IF args.error THEN <<>> ELSE args.rest
    IN IF Len(start) >= 2 /\ start[1] = Ident("from") /\ start[2].type = "string" /\ start[2].lit # ""
       THEN Parsed([traverse |-> [args.value EXCEPT !.start = start[2].lit]], Skip(start, 2))
       ELSE Failed

parseWhere(ts) == IF Peek(ts) = Ident("traverse") THEN parseTraverse(Tail(ts)) ELSE parseConditions(ts, <<>>, <<>>)

parseOrderBy(ts) ==
    LET field == IF Peek(ts) = Ident("by") THEN parseField(Tail(ts)) ELSE Failed
    IN IF field.error THEN Failed
       ELSE IF Peek(field.rest) \in {Ident("asc"), Ident("desc")}
       THEN Parsed([field |-> field.value, direction |-> Head(field.rest).lit], Tail(field.rest))
       ELSE Parsed([field |-> field.value, direction |-> "asc"], field.rest)

parseLimit(ts) ==
    IF Peek(ts).type = "number" /\ IntegerOf[Peek(ts).lit] \notin {NotNumber, 0}
    THEN Parsed(IntegerOf[Head(ts).lit], Tail(ts)) ELSE Failed

parseAsOf(ts) ==
    IF Len(ts) >= 2 /\ ts[1] = Ident("of") /\ ts[2].type = "string" /\ ts[2].lit \in Timestamps
    THEN Parsed(ts[2].lit, Skip(ts, 2)) ELSE Failed

\* parseClause: the keyword, the part of the query it fills, and what that is before.
Query(where, orderBy, limit, asOf) == [where |-> where, orderBy |-> orderBy, limit |-> limit, asOf |-> asOf]

Store(q, part, unset, clause) ==
    IF clause.error \/ q[part] # unset THEN Failed ELSE Parsed([q EXCEPT ![part] = clause.value], clause.rest)

parseClause(ts, q) ==
    CASE Peek(ts).lit = "where" -> Store(q, "where", None, parseWhere(Tail(ts)))
      [] Peek(ts).lit = "order" -> Store(q, "orderBy", None, parseOrderBy(Tail(ts)))
      [] Peek(ts).lit = "limit" -> Store(q, "limit", 0, parseLimit(Tail(ts)))
      [] Peek(ts).lit = "as"    -> Store(q, "asOf", "", parseAsOf(Tail(ts)))
      [] OTHER                  -> Failed

RECURSIVE parseClauses(_, _)
parseClauses(ts, q) ==
    IF ts = <<>> THEN [error |-> FALSE, query |-> q]
    ELSE LET clause == parseClause(ts, q)
         IN IF clause.error THEN Failed ELSE parseClauses(clause.rest, clause.value)

\* The collection comes first; isCollection knows the five built-in ones.
Parse(ts) == IF Peek(ts) = Ident("nodes") THEN parseClauses(Tail(ts), Query(None, None, 0, "")) ELSE Failed

-----------------------------------------------------------------------------
(* Type check and plan *)

checkOperatorCompat(type, op) ==
    CASE op \in {"=", "!="}            -> TRUE
      [] op \in {">", "<", ">=", "<="} -> type \in {"number", "time"}
      [] op = "contains"               -> type \in {"string", "time", "[]string"}
      [] op = "matches"                -> type \in {"string", "time"}

Conditions(q) == IF q.where = None \/ "traverse" \in DOMAIN q.where THEN <<>> ELSE q.where.conds

TypeCheck(q) ==
    /\ \A i \in DOMAIN Conditions(q) :
          LET c == Conditions(q)[i] IN c.field \in DOMAIN Schema /\ checkOperatorCompat(Schema[c.field], c.op)
    /\ q.orderBy # None => q.orderBy.field \in DOMAIN Schema

Walks(q) == q.where # None /\ "traverse" \in DOMAIN q.where
Plan(q, filters, operators) ==
    [filters |-> filters, operators |-> operators, traverse |-> IF Walks(q) THEN q.where.traverse ELSE None,
     orderBy |-> q.orderBy, limit |-> q.limit, asOf |-> q.asOf]

\* BuildPlan keeps every condition as a filter, the one an index could answer too.
\* Seeded fault: that one is dropped, as its TODO foresees, with no index seek to replace it.
BuildPlanSeek(q) ==
    LET conds == Conditions(q)
        seek == {i \in DOMAIN conds : conds[i].op = "=" /\ conds[i].field \in Indexed}
    IN IF seek # {} /\ (\A i \in DOMAIN q.where.ops : q.where.ops[i] = "and")
       THEN Plan(q, Tail(conds), Tail(<<"and">> \o q.where.ops))
       ELSE Plan(q, conds, IF conds = <<>> THEN <<>> ELSE q.where.ops)
BuildPlan(q) ==
    LET conds == Conditions(q)
    IN Plan(q, conds, IF conds = <<>> THEN <<>> ELSE q.where.ops)

-----------------------------------------------------------------------------
(* Execution *)

compareLess(a, b) == IF NotNumber \notin {a.num, b.num} THEN a.num < b.num ELSE a.text < b.text
compareEqual(a, b) == ~compareLess(a, b) /\ ~compareLess(b, a)

\* A row without the field matches nothing, != included.
evalCondition(row, c) ==
    LET left == row[c.field]
        right == ValueOf[c.value.lit]
    IN /\ c.field \in DOMAIN row
       /\ CASE c.op = "="  -> compareEqual(left, right)
            [] c.op = "!=" -> ~compareEqual(left, right)
            [] c.op = "<"  -> compareLess(left, right)
            [] c.op = ">=" -> ~compareLess(left, right)
            [] c.op = ">"  -> compareLess(right, left)
            [] c.op = "<=" -> ~compareLess(right, left)
            [] OTHER       -> <<c.op, left, right>> \in Holds

\* AND binds tighter: the conditions fall into groups, of which one must hold.
matchesFilters(row, plan) ==
    LET join(groups, i) ==
            IF plan.operators[i] = "or" THEN Append(groups, {i + 1})
            ELSE [groups EXCEPT ![Len(groups)] = @ \cup {i + 1}]
        groups == FoldLeft(join, <<{1}>>, [i \in DOMAIN plan.operators |-> i])
    IN plan.filters = <<>> \/ \E g \in ToSet(groups) : \A i \in g : evalCondition(row, plan.filters[i])

FieldOf(row, field) == IF field \in DOMAIN row THEN row[field] ELSE Nil

\* sortRows: sort.SliceStable, which inserts one row after the other.
Less(rows, orderBy, i, j) ==
    LET left == FieldOf(rows[i], orderBy.field)
        right == FieldOf(rows[j], orderBy.field)
    IN IF orderBy.direction = "desc" THEN compareLess(right, left) ELSE compareLess(left, right)
InsertRow(rows, orderBy, sorted, i) ==
    LET behind == {k \in DOMAIN sorted : \A j \in k..Len(sorted) : Less(rows, orderBy, i, sorted[j])}
        at == Len(sorted) - Cardinality(behind)
    IN SubSeq(sorted, 1, at) \o <<i>> \o SubSeq(sorted, at + 1, Len(sorted))
sortRows(rows, orderBy, found) == FoldLeft(LAMBDA sorted, i : InsertRow(rows, orderBy, sorted, i), <<>>, found)

Limited(found, limit) == IF limit > 0 /\ Len(found) > limit THEN SubSeq(found, 1, limit) ELSE found
Numbers(rows) == [i \in DOMAIN rows |-> i]

\* What a query returns: rows, as their numbers in the order they were met, and
\* whether an error says that they are a part only.
Result(rows, plan, found, partial) ==
    LET sorted == IF plan.orderBy = None THEN found ELSE sortRows(rows, plan.orderBy, found)
    IN [error |-> FALSE, rows |-> Limited(sorted, plan.limit), partial |-> partial]

graphDirectionFromString(way) == CASE way = "reverse" -> "Reverse" [] way = "both" -> "Both" [] OTHER -> "Forward"
graphOptionsFromTraverse(t, asOf) ==
    [start |-> t.start, edges |-> IF t.edge = "" THEN {} ELSE {t.edge}, maxDepth |-> t.depth,
     direction |-> graphDirectionFromString(t.direction), asOf |-> asOf]

\* A reference becomes a row of two fields.
RefRow(ref) == [field \in {<<"id">>, <<"ref">>} |-> ref]
executeTraverse(plan) ==
    LET end == Reachable[graphOptionsFromTraverse(plan.traverse, plan.asOf)]
        rows == [i \in DOMAIN end.refs |-> RefRow(end.refs[i])]
    IN IF end.error THEN Failed ELSE Result(rows, plan, Numbers(rows), end.capExceeded)

\* scanCollection, which returns the rows in key order.
scanCollection(rows, plan) == SelectSeq(Numbers(rows), LAMBDA i : matchesFilters(rows[i], plan))

\* A walk, an error for what only a walk can do, or a scan.
Execute(rows, q) ==
    LET plan == BuildPlan(q)
    IN IF plan.traverse # None THEN executeTraverse(plan)
       ELSE IF plan.asOf # "" THEN Failed
       ELSE Result(rows, plan, scanCollection(rows, plan), FALSE)

-----------------------------------------------------------------------------
(* Properties *)

(***************************************************************************)
(* The lexer loses no character: tokens and the white space between them   *)
(* make up the text, a blank between two tokens changes nothing, and a     *)
(* number takes the points that follow it.                                 *)
(***************************************************************************)
NoCharacterLost ==
    input.kind = "chars" =>
        LET read == Lex(input.chars)
            texts == [i \in DOMAIN read.tokens |-> read.tokens[i].chars]
            spaced == FlattenSeq([i \in DOMAIN texts |-> Append(texts[i], " ")])
            count(s) == Cardinality({i \in DOMAIN s : s[i] # " "})
            touching == ~Contains(input.chars, " ")
        IN ~read.error =>
              /\ count(FlattenSeq(texts)) = count(input.chars)
              /\ Lex(spaced) = read
              /\ touching => \A i \in 1..(Len(texts) - 1) :
                    read.tokens[i].type = "number" => read.tokens[i + 1].type # "."

\* The shortest tokens of a query.
TokensOf(field) == FlattenSeq([i \in DOMAIN field |-> IF i = 1 THEN <<Ident(field[i])>> ELSE <<Sign("."), Ident(field[i])>>])
RenderCondition(c) ==
    TokensOf(c.field) \o <<IF c.op \in Operators THEN Sign(c.op) ELSE Ident(c.op)>> \o <<c.value>>
NumberLit(n) == CHOOSE lit \in DOMAIN IntegerOf : IntegerOf[lit] = n
RenderTraverse(t) ==
    <<Ident("traverse"), Sign("("), Ident("edges")>>
    \o (IF t.depth = 0 THEN <<>> ELSE <<Sign(","), Ident("depth"), Sign("="), Number(NumberLit(t.depth))>>)
    \o (IF t.edge = "" THEN <<>> ELSE <<Sign(","), Ident("edge"), Sign("="), Quoted(t.edge)>>)
    \o (IF t.direction = "forward" THEN <<>> ELSE <<Sign(","), Ident("direction"), Sign("="), Ident(t.direction)>>)
    \o <<Sign(")"), Ident("from"), Quoted(t.start)>>
RenderWhere(w) ==
    <<Ident("where")>> \o
    (IF "traverse" \in DOMAIN w THEN RenderTraverse(w.traverse)
     ELSE FlattenSeq([i \in DOMAIN w.conds |->
              (IF i = 1 THEN <<>> ELSE <<Ident(w.ops[i - 1])>>) \o RenderCondition(w.conds[i])]))
ClausesOf(q) ==
    (IF q.where = None THEN <<>> ELSE <<RenderWhere(q.where)>>)
    \o (IF q.orderBy = None THEN <<>> ELSE <<<<Ident("order"), Ident("by")>> \o TokensOf(q.orderBy.field)
                                            \o (IF q.orderBy.direction = "asc" THEN <<>> ELSE <<Ident("desc")>>)>>)
    \o (IF q.limit = 0 THEN <<>> ELSE <<<<Ident("limit"), Number(NumberLit(q.limit))>>>>)
    \o (IF q.asOf = "" THEN <<>> ELSE <<<<Ident("as"), Ident("of"), Quoted(q.asOf)>>>>)
Render(q) == <<Ident("nodes")>> \o FlattenSeq(ClausesOf(q))

\* Every number token is a number.
Readable(q) ==
    \A i \in DOMAIN Conditions(q) :
        LET v == Conditions(q)[i].value IN v.type = "number" => ValueOf[v.lit].num # NotNumber

(***************************************************************************)
(* A query is read as it was meant, with its clauses in this or in the     *)
(* reverse order, unless it compares with a number that is none; a clause  *)
(* that is given twice is refused; and no token is ignored: a text with    *)
(* one token missing is refused or means the query whose text it is.       *)
(***************************************************************************)
QueriesReadBack ==
    input.kind = "query" =>
        LET q == input.query
            clauses == ClausesOf(q)
            text == Render(q)
            read == IF Readable(q) THEN [error |-> FALSE, query |-> q] ELSE Failed
        IN /\ Parse(text) = read
           /\ Parse(<<Ident("nodes")>> \o FlattenSeq(Reverse(clauses))) = read
           /\ \A i \in DOMAIN clauses : Parse(text \o clauses[i]) = Failed
           /\ \A i \in DOMAIN text :
                 LET cut == RemoveAt(text, i)
                     left == Parse(cut)
                 IN left.error \/ Render(left.query) = cut

\* A row matches if all conditions between two neighbouring ORs hold.
Matches(row, w) ==
    LET n == Len(w.conds)
    IN \E a, b \in 1..n :
          /\ a <= b
          /\ a = 1 \/ w.ops[a - 1] = "or"
          /\ b = n \/ w.ops[b] = "or"
          /\ \A i \in a..b : evalCondition(row, w.conds[i])

\* The walk that a query asks for.
AskedWalk(q) ==
    LET t == q.where.traverse
    IN Reachable[[start |-> t.start, edges |-> {e \in {t.edge} : e # ""}, maxDepth |-> t.depth, asOf |-> q.asOf,
                  direction |-> [forward |-> "Forward", reverse |-> "Reverse", both |-> "Both"][t.direction]]]

(***************************************************************************)
(* Of a query that passes the type check the rows are those that match, or *)
(* the references that its walk reaches, each once, in the order asked for *)
(* and, within it, in the order of keys or of the walk; a limit keeps the  *)
(* first of them, after the sort and not before.  A walk that met its cap  *)
(* returns its rows with an error, and a past state of a collection is     *)
(* refused and never answered with the present one.                        *)
(***************************************************************************)
RowsAreExact ==
    (input.kind = "query" /\ Readable(input.query) /\ TypeCheck(input.query)) =>
        LET q == input.query
            end == AskedWalk(q)
            rows == IF Walks(q) THEN [i \in DOMAIN end.refs |-> [f \in {<<"id">>} |-> end.refs[i]]] ELSE input.rows
            due == {i \in DOMAIN rows : Conditions(q) = <<>> \/ Matches(rows[i], q.where)}
            before(i, j) ==
                IF q.orderBy = None THEN i < j
                ELSE Less(rows, q.orderBy, i, j) \/ (~Less(rows, q.orderBy, j, i) /\ i < j)
            got == Execute(input.rows, q)
        IN /\ got.error = IF Walks(q) THEN end.error ELSE q.asOf # ""
           /\ ~got.error =>
                 /\ got.partial = (Walks(q) /\ end.capExceeded)
                 /\ ToSet(got.rows) \subseteq due
                 /\ Len(got.rows) = IF q.limit \in 1..Cardinality(due) THEN q.limit ELSE Cardinality(due)
                 /\ \A i \in DOMAIN got.rows :
                       \A m \in due \ {got.rows[j] : j \in 1..i} : before(got.rows[i], m)
=============================================================================
