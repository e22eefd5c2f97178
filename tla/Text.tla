-------------------------------- MODULE Text --------------------------------
(***************************************************************************)
(* The pure part of the full-text index (internal/kdb/index/fts): the      *)
(* tokenizer, and the two encodings of posting lists.  Texts are sequences *)
(* of characters, of which only the class matters: a letter of each case,  *)
(* a digit, the underscore, a CJK character and a separator.  Encoded data *)
(* is a sequence of numbers, each of them one uvarint (a term, which is a  *)
(* length and its bytes, counts as one).                                   *)
(***************************************************************************)
EXTENDS Integers, FiniteSets, Sequences, SequencesExt

CONSTANTS Words,      \* the texts to tokenize
          Width,      \* documents and positions are numbers modulo this (2^64 and 2^32)
          Lists,      \* posting lists, in any order, to encode
          Segments    \* segments to encode

VARIABLE datum        \* one of these, with its kind

Data == [kind : {"text"}, of : Words] \cup [kind : {"list"}, of : Lists] \cup [kind : {"segment"}, of : Segments]

TextInit == datum \in Data
TextNext == UNCHANGED datum
TextSpec == TextInit /\ [][TextNext]_datum

-----------------------------------------------------------------------------
(* Tokenizer *)

IsUpper(c) == c = "A"
IsLower(c) == c = "a"
IsLetter(c) == c \in {"a", "A", "#"}
IsDigit(c) == c = "1"
isCJK(c) == c = "#"
IsSeparator(c) == c = " "
IsUnderscore(c) == c = "_"
ToLower(s) == [i \in DOMAIN s |-> IF IsUpper(s[i]) THEN "a" ELSE s[i]]

\* s cut before each of the positions in cuts.
Pieces(s, cuts) ==
    LET nth(k) == CHOOSE i \in cuts : Cardinality({j \in cuts : j <= i}) = k
        bound(k) == IF k = 0 THEN 1 ELSE IF k > Cardinality(cuts) THEN Len(s) + 1 ELSE nth(k)
    IN IF s = <<>> THEN <<>>
       ELSE [k \in 1..(Cardinality(cuts) + 1) |-> SubSeq(s, bound(k - 1), bound(k) - 1)]

\* Maximal runs of characters that do, and do not, pass the test.
Runs(s, Test(_)) == Pieces(s, {i \in 2..Len(s) : Test(s[i]) # Test(s[i - 1])})

splitWords(text) == SelectSeq(Runs(text, IsSeparator), LAMBDA w : ~IsSeparator(w[1]))

CamelCut(s, i) ==
    \/ IsLower(s[i - 1]) /\ IsUpper(s[i])
    \/ i < Len(s) /\ IsUpper(s[i - 1]) /\ IsUpper(s[i]) /\ IsLower(s[i + 1])
    \/ IsLetter(s[i - 1]) /\ IsDigit(s[i])
    \/ IsDigit(s[i - 1]) /\ IsLetter(s[i])
splitCamel(s) == Pieces(s, {i \in 2..Len(s) : CamelCut(s, i)})

splitCompound(word) ==
    LET snake == SelectSeq(Runs(word, IsUnderscore), LAMBDA w : ~IsUnderscore(w[1]))
    IN FlattenSeq([i \in DOMAIN snake |-> splitCamel(snake[i])])

\* A compound is emitted in parts and as a whole.
tokenizeCompound(word) ==
    LET parts == splitCompound(word)
    IN (IF Len(parts) > 1 THEN [i \in DOMAIN parts |-> ToLower(parts[i])] ELSE <<>>) \o <<ToLower(word)>>

bigrams(run) == IF Len(run) = 1 THEN <<run>> ELSE [i \in 1..(Len(run) - 1) |-> <<run[i], run[i + 1]>>]

\* A word without CJK characters is one run.
tokenizeMixed(word) ==
    LET runs == Runs(word, isCJK)
    IN FlattenSeq([i \in DOMAIN runs |-> IF isCJK(runs[i][1]) THEN bigrams(runs[i]) ELSE tokenizeCompound(runs[i])])

\* The terms of a text; the position of each is its index, less one.
Tokenize(text) ==
    LET words == splitWords(text)
    IN FlattenSeq([i \in DOMAIN words |-> tokenizeMixed(words[i])])

TermsOf(text) == ToSet(Tokenize(text))

-----------------------------------------------------------------------------
(* Encodings.  A posting is [doc, freq, positions]. *)

\* The decoder: reads are from data, and an error stays.
Corrupted == [ok |-> FALSE, value |-> 0, rest |-> <<>>]
uvarint(data) == IF data = <<>> THEN Corrupted ELSE [ok |-> TRUE, value |-> Head(data), rest |-> Tail(data)]
\* A count, and that many items.
ReadList(data, Item(_)) ==
    LET n == uvarint(data)
        start == [ok |-> n.ok, value |-> <<>>, rest |-> n.rest]
        next(st, i) == LET item == Item(st.rest)
                       IN IF ~st.ok \/ ~item.ok THEN Corrupted
                          ELSE [ok |-> TRUE, value |-> Append(st.value, item.value), rest |-> item.rest]
    IN FoldLeft(next, start, [i \in 1..n.value |-> i])

WriteList(items, Item(_)) == <<Len(items)>> \o FlattenSeq([i \in DOMAIN items |-> Item(items[i])])

\* EncodePostings: gaps instead of numbers, modulo the width of the integers.
gaps(numbers) == [i \in DOMAIN numbers |-> (numbers[i] - (IF i = 1 THEN 0 ELSE numbers[i - 1])) % Width]
\* Seeded fault: the sums are not reduced.
sumsUnbounded(deltas) == FoldLeft(LAMBDA out, d : Append(out, d + (IF out = <<>> THEN 0 ELSE Last(out))), <<>>, deltas)
sums(deltas) == FoldLeft(LAMBDA out, d : Append(out, (d + (IF out = <<>> THEN 0 ELSE Last(out))) % Width), <<>>, deltas)

EncodePosting(p) == <<p.doc, p.freq>> \o WriteList(p.positions, LAMBDA n : <<n>>)
DecodePosting(data) ==
    LET doc == uvarint(data)
        freq == uvarint(doc.rest)
        positions == ReadList(freq.rest, uvarint)
    IN IF positions.ok
       THEN [ok |-> TRUE, rest |-> positions.rest,
             value |-> [doc |-> doc.value, freq |-> freq.value, positions |-> positions.value]]
       ELSE Corrupted

EncodePostings(list) ==
    LET docs == gaps([i \in DOMAIN list |-> list[i].doc])
    IN WriteList([i \in DOMAIN list |-> [list[i] EXCEPT !.doc = docs[i], !.positions = gaps(@)]], EncodePosting)
DecodePostings(data) ==
    LET read == ReadList(data, DecodePosting)
        docs == sums([i \in DOMAIN read.value |-> read.value[i].doc])
    IN IF read.ok
       THEN [i \in DOMAIN read.value |-> [read.value[i] EXCEPT !.doc = docs[i], !.positions = sums(@)]]
       ELSE Corrupted

\* Segment.Encode, DecodeSegment: terms and norms in order, without gaps.
Header == 0
EncodeTerm(t) == <<t.term>> \o WriteList(t.postings, EncodePosting)
DecodeTerm(data) ==
    LET term == uvarint(data)
        postings == ReadList(term.rest, DecodePosting)
    IN IF postings.ok
       THEN [ok |-> TRUE, value |-> [term |-> term.value, postings |-> postings.value], rest |-> postings.rest]
       ELSE Corrupted
EncodeNorm(n) == <<n.doc, n.length>>
DecodeNorm(data) ==
    IF Len(data) < 2 THEN Corrupted
    ELSE [ok |-> TRUE, value |-> [doc |-> data[1], length |-> data[2]], rest |-> SubSeq(data, 3, Len(data))]

EncodeSegment(s) ==
    <<Header, s.id, s.docCount, s.totalLen>> \o WriteList(s.terms, EncodeTerm) \o WriteList(s.norms, EncodeNorm)
DecodeSegment(data) ==
    LET terms == ReadList(SubSeq(data, 5, Len(data)), DecodeTerm)
        norms == ReadList(terms.rest, DecodeNorm)
    IN IF Len(data) < 4 \/ data[1] # Header \/ ~terms.ok \/ ~norms.ok THEN Corrupted
       ELSE [id |-> data[2], docCount |-> data[3], totalLen |-> data[4], terms |-> terms.value, norms |-> norms.value]

-----------------------------------------------------------------------------
(* Properties *)

CutsOf(s) == {SubSeq(s, 1, n) : n \in 0..(Len(s) - 1)}

(***************************************************************************)
(* A text is found by each of its words, and a compound of several parts   *)
(* by each part searched for on its own ("queries for either match",       *)
(* tokenizer.go:26-27): cutting a part again, without the characters that  *)
(* followed it, cuts nothing.                                              *)
(***************************************************************************)
TextIsFound ==
    datum.kind = "text" =>
        LET terms == TermsOf(datum.of)
        IN /\ \A w \in ToSet(splitWords(datum.of)) : TermsOf(w) \subseteq terms
           /\ \A w \in ToSet(splitWords(datum.of)) : (\A i \in DOMAIN w : ~isCJK(w[i])) =>
                 /\ ToLower(w) \in terms
                 /\ Len(splitCompound(w)) > 1 =>
                       \A p \in ToSet(splitCompound(w)) : Tokenize(p) = <<ToLower(p)>> /\ ToLower(p) \in terms

(***************************************************************************)
(* The same of every part of every word: this fails, since a word with one *)
(* part and an underscore (_foo) is emitted as a whole only.               *)
(***************************************************************************)
EveryPartIsFound ==
    datum.kind = "text" =>
        \A w \in ToSet(splitWords(datum.of)) : \A p \in ToSet(splitCompound(w)) :
            TermsOf(p) \subseteq TermsOf(datum.of)

(***************************************************************************)
(* Both encodings give back what was encoded, whatever the order of the    *)
(* numbers and however the gaps wrap around, and data that is cut anywhere *)
(* is an error, never a shorter index (TestDecodeSegmentTruncated).        *)
(***************************************************************************)
EncodingsRoundTrip ==
    /\ datum.kind = "list" =>
          LET data == EncodePostings(datum.of)
          IN /\ DecodePostings(data) = datum.of
             /\ \A cut \in CutsOf(data) : DecodePostings(cut) = Corrupted
    /\ datum.kind = "segment" =>
          LET data == EncodeSegment(datum.of)
          IN /\ DecodeSegment(data) = datum.of
             /\ \A cut \in CutsOf(data) : DecodeSegment(cut) = Corrupted
=============================================================================
