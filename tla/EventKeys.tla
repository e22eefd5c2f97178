----------------------------- MODULE EventKeys -----------------------------
(***************************************************************************)
(* The keys of the event store: internal/kdb/event/key.go, the ids of      *)
(* links and the seek prefixes of internal/kdb/graph/keys.go.  The store   *)
(* finds the versions of an id, the links of a source and the links of a   *)
(* destination by cursor scans over byte prefixes, so a key of one id that *)
(* begins with the prefix of another would mix two entities.  A string is  *)
(* a sequence of characters; a failed conversion yields Malformed.         *)
(***************************************************************************)
EXTENDS Naturals, Sequences, SequencesExt

CONSTANTS IDs,            \* ids, edge types and typed references: non-empty strings
          VersionDigits,  \* width of a version in a key (16 in the code)
          Versions        \* the versions that are tried

EventKeysAssumption ==
    /\ \A id \in IDs : id \in Seq(Range(id))
    /\ VersionDigits \in Nat \ {0} /\ Versions \subseteq Nat
ASSUME EventKeysAssumption

VARIABLE pair            \* two ids, as they would meet in one store

Malformed == <<"?">>      \* an error; "?" occurs in no id
Backslash == "\\"
Colon == ":"

Digits == <<"0", "1", "2", "3", "4", "5", "6", "7", "8", "9">>

\* Prefix: every kind owns a letter and a colon.
KindLetter == [entity |-> "e", decision |-> "d", observation |-> "o", outcome |-> "x", link |-> "l"]
Kinds == DOMAIN KindLetter
KindPrefix(kind) == <<KindLetter[kind], Colon>>
ReverseLinkPrefix == <<"l", "r", Colon>>
VersionSeparator == <<Colon, "v">>

IdPairs == [a : IDs, b : IDs]

KeysInit == pair \in IdPairs
KeysNext == UNCHANGED pair
KeysSpec == KeysInit /\ [][KeysNext]_pair

KeysTypeOK == pair \in IdPairs

-----------------------------------------------------------------------------
(* Escaping *)

EscapeChar(c) == CASE c = Backslash -> <<Backslash, Backslash>>
                   [] c = Colon     -> <<Backslash, "c">>
                   [] OTHER         -> <<c>>
\* Seeded fault: only the colon is escaped, so an escape cannot be told from its text.
EscapeColonOnly(s) == FlattenSeq([i \in DOMAIN s |-> IF s[i] = Colon THEN <<Backslash, "c">> ELSE <<s[i]>>])
EscapeID(s) == FlattenSeq([i \in DOMAIN s |-> EscapeChar(s[i])])

\* One scan from the left; a backslash takes the next character with it.
UnescapeID(s) ==
    LET Step(acc, i) ==
            IF acc.out = Malformed THEN acc
            ELSE IF acc.escaped
                 THEN [escaped |-> FALSE,
                       out |-> CASE s[i] = Backslash -> Append(acc.out, Backslash)
                                 [] s[i] = "c"       -> Append(acc.out, Colon)
                                 [] OTHER            -> Malformed]
            ELSE IF s[i] = Backslash THEN [acc EXCEPT !.escaped = TRUE]
            ELSE [acc EXCEPT !.out = Append(@, s[i])]
        end == FoldLeft(Step, [escaped |-> FALSE, out |-> <<>>], [i \in DOMAIN s |-> i])
    IN IF end.escaped THEN Malformed ELSE end.out

-----------------------------------------------------------------------------
(* Keys of versions *)

padVersion(v) == [i \in 1..VersionDigits |-> Digits[((v \div (10^(VersionDigits - i))) % 10) + 1]]

chainPrefix(kind, id) == KindPrefix(kind) \o EscapeID(id) \o VersionSeparator
BuildKey(kind, id, v) == chainPrefix(kind, id) \o padVersion(v)

DigitValue(c) == (CHOOSE i \in 1..10 : Digits[i] = c) - 1

\* splitVersionSuffix: where the tail of fixed width starts, and its number.
splitVersionSuffix(s) ==
    LET tail  == Len(VersionSeparator) + VersionDigits
        start == Len(s) - tail
        text  == SubSeq(s, start + Len(VersionSeparator) + 1, Len(s))
    IN IF \/ Len(s) < tail + 2
          \/ SubSeq(s, start + 1, start + Len(VersionSeparator)) # VersionSeparator
          \/ \E i \in DOMAIN text : text[i] \notin Range(Digits)
       THEN [start |-> 0, version |-> 0, ok |-> FALSE]
       ELSE [start |-> start, version |-> FoldLeft(LAMBDA n, c : 10 * n + DigitValue(c), 0, text), ok |-> TRUE]

BadKey == [kind |-> "", id |-> Malformed, version |-> 0]

ParseKey(s) ==
    LET tail  == splitVersionSuffix(s)
        kinds == {k \in Kinds : IsPrefix(KindPrefix(k), s)}
        id    == UnescapeID(SubSeq(s, 3, tail.start))
    IN IF \/ IsPrefix(ReverseLinkPrefix, s) \/ kinds = {} \/ ~tail.ok
          \/ tail.start <= 2 \/ id = Malformed
       THEN BadKey
       ELSE [kind |-> CHOOSE k \in kinds : TRUE, id |-> id, version |-> tail.version]

-----------------------------------------------------------------------------
(* Links *)

\* Link.ID: each part escaped on its own, joined with colons; BuildKey escapes it again.
LinkID(src, edge, dst) == EscapeID(src) \o <<Colon>> \o EscapeID(edge) \o <<Colon>> \o EscapeID(dst)

forwardSrcPrefix(start) == KindPrefix("link") \o EscapeID(EscapeID(start)) \o <<Backslash, "c">>

reverseDstPrefix(start) == ReverseLinkPrefix \o EscapeID(start) \o <<Colon>>
reverseLinkPrefixForDst(dst, edge) == reverseDstPrefix(dst) \o EscapeID(edge) \o <<Colon>>
BuildReverseLinkKey(dst, edge, src) == reverseLinkPrefixForDst(dst, edge) \o EscapeID(src)

\* splitEscapedColons: cut at every colon that no backslash precedes.
splitEscapedColons(s) ==
    LET Step(acc, c) ==
            IF acc.escaped THEN [acc EXCEPT !.escaped = FALSE, !.part = Append(@, c)]
            ELSE IF c = Colon THEN [escaped |-> FALSE, part |-> <<>>, parts |-> Append(acc.parts, acc.part)]
            ELSE [acc EXCEPT !.escaped = (c = Backslash), !.part = Append(@, c)]
        end == FoldLeft(Step, [escaped |-> FALSE, part |-> <<>>, parts |-> <<>>], s)
    IN Append(end.parts, end.part)

ParseReverseLinkKey(s) ==
    LET parts == splitEscapedColons(SubSeq(s, Len(ReverseLinkPrefix) + 1, Len(s)))
        names == [i \in DOMAIN parts |-> UnescapeID(parts[i])]
    IN IF ~IsPrefix(ReverseLinkPrefix, s) \/ Len(parts) # 3 \/ Range(names) \cap {<<>>, Malformed} # {}
       THEN Malformed ELSE names

\* The graph recognises the versions of one link by the key without its version,
\* and finds them all again from the key of one.
splitChainTuple(key) == SubSeq(key, 3, Len(key) - (Len(VersionSeparator) + VersionDigits))
chainPrefixFromForwardKey(key) ==
    SubSeq(key, 1, Len(key) - (Len(VersionSeparator) + VersionDigits)) \o VersionSeparator

-----------------------------------------------------------------------------
(* Properties *)

\* The order of bytes, on the characters that occur.
ByteOrder == Digits \o <<Colon, Backslash>> \o <<"c", "d", "e", "l", "o", "r", "v", "x">>
Byte(c) == CHOOSE i \in DOMAIN ByteOrder : ByteOrder[i] = c
Before(s, t) ==
    \/ IsStrictPrefix(s, t)
    \/ \E i \in DOMAIN s \cap DOMAIN t :
            Byte(s[i]) < Byte(t[i]) /\ \A j \in 1..(i - 1) : s[j] = t[j]

(***************************************************************************)
(* What is written under a key is read back from it: ParseKey returns the  *)
(* kind, the id and the version BuildKey was given, and                    *)
(* ParseReverseLinkKey the three parts of a reverse key, whatever colons   *)
(* and backslashes they hold.                                              *)
(***************************************************************************)
KeysRoundTrip ==
    /\ \A kind \in Kinds, v \in Versions :
          /\ ParseKey(BuildKey(kind, pair.a, v)) = [kind |-> kind, id |-> pair.a, version |-> v]
          /\ LET id == LinkID(pair.a, pair.b, pair.a)
             IN ParseKey(BuildKey("link", id, v)).id = id
    /\ \A edge \in IDs :
          ParseReverseLinkKey(BuildReverseLinkKey(pair.a, edge, pair.b)) = <<pair.a, edge, pair.b>>

(***************************************************************************)
(* A scan over the versions of an id and a kind meets no version of        *)
(* another id or kind.                                                     *)
(***************************************************************************)
ChainsDoNotMix ==
    \A k1, k2 \in Kinds, v \in Versions :
       IsPrefix(chainPrefix(k1, pair.a), BuildKey(k2, pair.b, v)) <=> (k1 = k2 /\ pair.a = pair.b)

\* The keys of the versions of an id ascend with the version, in the order of bytes.
VersionsAscend ==
    \A v, w \in Versions :
       v < w <=> Before(BuildKey("entity", pair.a, v), BuildKey("entity", pair.a, w))

\* What latestKeyAndVersion, AsOf and History take for granted.
ChainsAreExact == ChainsDoNotMix /\ VersionsAscend

(***************************************************************************)
(* A graph walk finds the links of a node and no link of another: the      *)
(* twice escaped prefix of a source, the prefix of a destination, and the  *)
(* chain found again from one key of a link.                               *)
(***************************************************************************)
LinkScansAreExact ==
    \A start \in IDs, edge \in {pair.a, pair.b} :
        LET key == BuildKey("link", LinkID(pair.a, edge, pair.b), 1)
        IN /\ IsPrefix(forwardSrcPrefix(start), key) <=> start = pair.a
           /\ IsPrefix(reverseDstPrefix(start), BuildReverseLinkKey(pair.b, edge, pair.a)) <=> start = pair.b
           /\ IsPrefix(reverseLinkPrefixForDst(start, pair.a), BuildReverseLinkKey(pair.b, edge, pair.a))
                 <=> (start = pair.b /\ pair.a = edge)
           /\ chainPrefixFromForwardKey(key) = chainPrefix("link", LinkID(pair.a, edge, pair.b))
           /\ splitChainTuple(key) = EscapeID(LinkID(pair.a, edge, pair.b))
           /\ ~IsPrefix(KindPrefix("link"), BuildReverseLinkKey(pair.b, edge, pair.a))
=============================================================================
