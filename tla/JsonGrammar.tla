---------------------------- MODULE JsonGrammar ----------------------------
(***************************************************************************)
(* What the reader of Json.tla is measured against: the grammar of a JSON  *)
(* document (RFC 8259) as a relation between texts and the values they     *)
(* stand for, tabulated by length, and json::stringify.  The grammar is    *)
(* given twice: as the RFC has it, and with the numbers that the reader    *)
(* takes beyond it (01, 1., -.5), which the reader inherits from           *)
(* std::from_chars.                                                        *)
(***************************************************************************)
EXTENDS Json

\* Texts of length n, by part of a number.
DigitTexts(A, n) == TupleOf(Digit \cap A.outside, n)
Whole(A, strict, n) ==
    IF ~strict THEN DigitTexts(A, n)
    ELSE {ds \in DigitTexts(A, n) : n > 0 /\ (n > 1 => ds[1] # 48)}
One(A, B) == {<<c>> : c \in B \cap A.outside}
Both(S, T) == {z[1] \o z[2] : z \in S \X T}
Fraction(A, strict, n) ==
    IF n = 0 THEN {<<>>}
    ELSE Both(One(A, {Dot}), IF strict /\ n = 1 THEN {} ELSE DigitTexts(A, n - 1))
Exponent(A, n) ==
    IF n = 0 THEN {<<>>}
    ELSE Both(One(A, ExponentMark), IF n = 1 THEN {} ELSE DigitTexts(A, n - 1)) \cup
         Both(Both(One(A, ExponentMark), One(A, {Plus, Minus})),
              IF n < 3 THEN {} ELSE DigitTexts(A, n - 2))
Signs(A, n) == IF n = 0 THEN {<<>>} ELSE One(A, {Minus})

NumberTexts(A, strict, n) ==
    LET parts == {t \in (0..1) \X (0..n) \X (0..n) : t[1] + t[2] + t[3] <= n}
    IN  {x \in UNION {Both(Both(Signs(A, t[1]), Whole(A, strict, t[2])),
                           Both(Fraction(A, strict, t[3]), Exponent(A, n - t[1] - t[2] - t[3]))) :
                          t \in parts} :
             Has(UpTo(x, ExponentMark), Digit) /\ InRange(NumberIn(x))}

\* One byte or escape of a string, and the bytes it stands for.
Plain(A) == {<<<<c>>, <<c>>>> : c \in {d \in A.inside : d >= 32 /\ d \notin {Quote, Backslash}}}
Marks(A) == {<<<<Backslash, e[1]>>, <<e[2]>>>> :
                e \in {d \in Escapes : {Backslash, d[1]} \subseteq A.inside}}
Units(A) == {<<<<Backslash, 117>> \o h,
               Utf8(4096 * HexDigit(h[1]) + 256 * HexDigit(h[2])
                    + 16 * HexDigit(h[3]) + HexDigit(h[4]))>> :
                h \in IF {Backslash, 117} \subseteq A.inside
                      THEN TupleOf({c \in A.inside : HexDigit(c) # -1}, 4) ELSE {}}
\* The inside of a string: <<text, bytes>> of length n, from the shorter ones.
StringLevel(A, t, n) ==
    LET of(k) == IF k < 0 THEN {} ELSE IF k = 0 THEN {<<<<>>, <<>>>>} ELSE t[k]
        put(S, k) == {<<z[1][1] \o z[2][1], z[1][2] \o z[2][2]>> : z \in S \X of(n - k)}
    IN  UNION {put(Plain(A), 1), put(Marks(A), 2), put(Units(A), 6)}

Tabulate(Level(_, _), n) ==
    FoldLeft(LAMBDA t, k : Append(t, Level(t, k)), <<>>, [k \in 1..n |-> k])
At(t, n) == IF n \in DOMAIN t THEN t[n] ELSE {}

\* Quoted strings as <<text, bytes>>.
Quoted(A) ==
    LET inside == Tabulate(LAMBDA t, n : StringLevel(A, t, n), A.most)
        empty  == {<<<<>>, <<>>>>}
    IN  [n \in 1..A.most |->
            {<<<<Quote>> \o r[1] \o <<Quote>>, r[2]>> :
                r \in IF {Quote} \cap A.outside \cap A.inside = {} THEN {}
                      ELSE IF n = 2 THEN empty ELSE At(inside, n - 2)}]

Padding(A) == Blank \cap A.outside
Padded(A, own, shorter) ==
    UNION {own, {<<<<b>> \o r[1], r[2]>> : b \in Padding(A), r \in shorter},
                {<<Append(r[1], b), r[2]>> : b \in Padding(A), r \in shorter}}

Wrapped(A, open, close, S) ==
    {<<<<open>> \o r[1] \o <<close>>, r[2]>> : r \in IF {open, close} \subseteq A.outside THEN S ELSE {}}
\* Texts of length n with a separator: a part of Left and one of Right.
Glued(A, n, sep, Left(_), Right(_), Join(_, _)) ==
    UNION {{<<z[1][1] \o <<sep>> \o z[2][1], Join(z[1][2], z[2][2])>> :
                z \in Left(k) \X Right(n - 1 - k)} :
               k \in IF sep \in A.outside THEN 1..(n - 2) ELSE {}}

\* The values of length n, given what is two bytes shorter.
ValueLevel(A, strict, quoted, inner, n) ==
    LET blanks == IF n >= 2 THEN TupleOf(Padding(A), n - 2) ELSE {}
    IN  UNION {
        {l \in Literals : Len(l[1]) = n /\ \A i \in 1..n : l[1][i] \in A.outside},
        {<<x, NumberIn(x)>> : x \in NumberTexts(A, strict, n)},
        {<<s[1], Text(s[2])>> : s \in quoted[n]},
        Wrapped(A, LBracket, RBracket, {<<b, Array(<<>>)>> : b \in blanks} \cup
                                       {<<e[1], Array(e[2])>> : e \in inner.elements}),
        Wrapped(A, LBrace, RBrace, {<<b, Object(<<>>)>> : b \in blanks} \cup
                                   {<<m[1], Object(m[2])>> : m \in inner.members})}

\* Everything of length n: values, values and keys with blanks around them,
\* the elements of an array and the members of an object.
JsonLevel(A, strict, quoted, t, n) ==
    LET before(k) == IF k \in DOMAIN t THEN t[k]
                     ELSE [value |-> {}, padded |-> {}, key |-> {}, pair |-> {}, elements |-> {},
                           members |-> {}]
        value == ValueLevel(A, strict, quoted, before(n - 2), n)
        padded == Padded(A, value, before(n - 1).padded)
        pair == Glued(A, n, Colon, LAMBDA k : before(k).key, LAMBDA k : before(k).padded,
                      LAMBDA key, v : <<key, v>>)
    IN  [value |-> value, padded |-> padded, pair |-> pair,
         key |-> Padded(A, quoted[n], before(n - 1).key),
         elements |-> {<<e[1], <<e[2]>>>> : e \in padded} \cup
             Glued(A, n, Comma, LAMBDA k : before(k).elements, LAMBDA k : before(k).padded, Append),
         members |-> {<<q[1], Assigned(<<>>, q[2][1], q[2][2])>> : q \in pair} \cup
             Glued(A, n, Comma, LAMBDA k : before(k).members, LAMBDA k : before(k).pair,
                   LAMBDA m, q : Assigned(m, q[1], q[2]))]

Table(A, strict) ==
    LET quoted == Quoted(A)
        levels == Tabulate(LAMBDA t, n : JsonLevel(A, strict, quoted, t, n), A.most)
    IN  UNION {levels[n].padded : n \in 1..A.most}
StrictJson == [A \in Alphabets |-> Table(A, TRUE)]
LenientJson == [A \in Alphabets |-> Table(A, FALSE)]
StrictPrefixes == [A \in Alphabets |-> UNION {Prefixes(r[1]) : r \in StrictJson[A]}]

---------------------------------------------------------------------------
(* json::stringify                                                         *)
LexLess(a, b) == \/ IsStrictPrefix(a, b)
                 \/ \E i \in DOMAIN a \cap DOMAIN b :
                        a[i] < b[i] /\ \A j \in 1..(i - 1) : a[j] = b[j]

Hex(n) == IF n < 10 THEN 48 + n ELSE 87 + n
\* Mutant of EscapedByte: control characters are written as they are.
EscapedByteRaw(c) == IF c \in {Quote, Backslash} THEN <<Backslash, c>> ELSE <<c>>

EscapedByte(c) ==
    IF \E e \in Escapes : e[2] = c /\ c # 47
    THEN <<Backslash, (CHOOSE e \in Escapes : e[2] = c)[1]>>
    ELSE IF c < 32 THEN <<Backslash, 117, 48, 48, Hex(c \div 16), Hex(c % 16)>>
    ELSE <<c>>
AppendEscaped(s) ==
    <<Quote>> \o FlattenSeq([i \in DOMAIN s |-> EscapedByte(s[i])]) \o <<Quote>>

\* What a stream prints reads back as the same double; the digits it adds
\* up to the precision of a double are left out, and so is its choice
\* between zeros and an exponent.
PrintedNumber(n) ==
    LET size == IF n.power < 0 THEN -n.power ELSE n.power
    IN  (IF n.negative THEN <<Minus>> ELSE <<>>)
        \o (IF n.digits = <<>> THEN <<48>> ELSE n.digits)
        \o (IF n.power = 0 THEN <<>>
            ELSE <<101, IF n.power < 0 THEN Minus ELSE Plus,
                   48 + (size \div 10), 48 + (size % 10)>>)

Separated(texts) ==
    FlattenSeq([i \in DOMAIN texts |-> IF i = 1 THEN texts[i] ELSE <<Comma>> \o texts[i]])

\* The values that v is built from, itself included: as deep as a document
\* of this alphabet can be.
Parts(v) ==
    LET inside(w) == IF "items" \in DOMAIN w THEN ToSet(w.items)
                     ELSE IF "fields" \in DOMAIN w THEN {w.fields[key] : key \in DOMAIN w.fields}
                     ELSE {}
        deeper(S, k) == S \cup UNION {inside(w) : w \in S}
    IN  FoldLeft(deeper, {v}, [k \in 1..alphabet.most |-> k])

AppendValue(v) ==
    LET written[w \in Parts(v)] ==
          IF "digits" \in DOMAIN w THEN PrintedNumber(w)
          ELSE IF "text" \in DOMAIN w THEN AppendEscaped(w.text)
          ELSE IF "items" \in DOMAIN w
          THEN <<LBracket>> \o Separated([i \in DOMAIN w.items |-> written[w.items[i]]])
                           \o <<RBracket>>
          ELSE IF "fields" \in DOMAIN w
          THEN LET keys == SetToSortSeq(DOMAIN w.fields, LexLess)
               IN  <<LBrace>> \o Separated([i \in DOMAIN keys |->
                       AppendEscaped(keys[i]) \o <<Colon>> \o written[w.fields[keys[i]]]])
                             \o <<RBrace>>
          ELSE (CHOOSE l \in Literals : l[2] = w)[1]
    IN  written[v]
---------------------------------------------------------------------------
(* Properties of the reader                                                *)

\* The reader refuses no JSON document: when it gives up on a byte, no
\* document starts with what it has read, and when it gives up at the end,
\* what it has read is no document.  Which numbers count is bounded by the
\* range of a double.
ReadsAllJson ==
    /\ p.at = "failed" => text \notin StrictPrefixes[alphabet]
    /\ p.at = "truncated" => \A r \in StrictJson[alphabet] : r[1] # text

\* What the reader accepts is a JSON document but for the spelling of its
\* numbers, and it yields the value the document stands for: elements in
\* order, the last of several fields with one name, escapes undone.
ReadsOnlyJson == Accepted(p) => <<text, p.value>> \in LenientJson[alphabet]

\* A value that was read and is written out again reads back as the same
\* value: no string, key or number can break out of its place.
RoundTrip == Accepted(p) => /\ Accepted(Parse(AppendValue(p.value)))
                            /\ Parse(AppendValue(p.value)).value = p.value
=============================================================================
