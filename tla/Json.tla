------------------------------- MODULE Json -------------------------------
(***************************************************************************)
(* The JSON reader of src/json.cpp: json::parser, which walks a document   *)
(* by recursive descent.  Here it is a machine that reads one byte at a    *)
(* time: the calls of parse_array and parse_object in progress are the     *)
(* frames of p.stack, and p.at is the place inside the innermost function. *)
(* The bytes come from the environment (HTTP servers), one per step, so    *)
(* that every document that can still be continued is explored.            *)
(*                                                                         *)
(* A byte is its number.  A double is its decimal value: a sign, the       *)
(* significant digits and a power of ten.  The loss of digits beyond the   *)
(* precision of a double is left out; MaxExponent stands for the range of  *)
(* a double, at both ends.                                                 *)
(***************************************************************************)
EXTENDS Integers, SequencesExt

CONSTANTS Alphabets,    \* the kinds of documents offered: the bytes outside
                        \* and inside strings, and a bound on the length
          MaxExponent   \* the largest power of ten a double holds

ASSUME JsonAssumption ==
    /\ MaxExponent \in Nat
    /\ Alphabets \subseteq [outside : SUBSET (0..255), inside : SUBSET (0..255), most : Nat]

VARIABLES p,            \* the parser
          text,         \* the bytes it has read
          alphabet      \* the alphabet the document is written in

jsonVars == <<p, text, alphabet>>

Blank == {32, 10, 13, 9}
Digit == 48..57
Quote == 34  Backslash == 92  Minus == 45  Plus == 43  Dot == 46
Comma == 44  Colon == 58
LBracket == 91  RBracket == 93  LBrace == 123  RBrace == 125
ExponentMark == {101, 69}                                      \* e, E

---------------------------------------------------------------------------
\* json::value: one record shape per alternative of the variant
Null == [null |-> TRUE]
Boolean(b) == [bool |-> b]
Text(s) == [text |-> s]
Array(items) == [items |-> items]
Object(fields) == [fields |-> fields]
\* std::map::insert_or_assign
Assigned(fields, key, v) ==
    [k \in {key} \cup DOMAIN fields |-> IF k = key THEN v ELSE fields[k]]

Literals == { <<<<110, 117, 108, 108>>, Null>>,                \* null
              <<<<116, 114, 117, 101>>, Boolean(TRUE)>>,       \* true
              <<<<102, 97, 108, 115, 101>>, Boolean(FALSE)>> } \* false

---------------------------------------------------------------------------
(* Numbers: parse_number collects bytes, parse_floating_point reads them.  *)
Has(lex, B) == \E i \in DOMAIN lex : lex[i] \in B

\* Mutant of Continues: the sign of an exponent is forgotten.
ContinuesUnsigned(lex, c) ==
    \/ c \in Digit
    \/ c = Dot /\ ~Has(lex, {Dot} \cup ExponentMark)
    \/ c \in ExponentMark /\ ~Has(lex, ExponentMark)

\* Whether parse_number takes c after the bytes lex.
Continues(lex, c) ==
    \/ c \in Digit
    \/ c = Dot /\ ~Has(lex, {Dot} \cup ExponentMark)
    \/ c \in ExponentMark /\ ~Has(lex, ExponentMark)
    \/ c \in {Plus, Minus} /\ Last(lex) \in ExponentMark

DigitsOf(s) == SelectSeq(s, LAMBDA c : c \in Digit)
Decimal(ds) == FoldLeft(LAMBDA n, d : 10 * n + (d - 48), 0, ds)
UpTo(lex, B) == LET i == SelectInSeq(lex, LAMBDA c : c \in B)
                IN  IF i = 0 THEN lex ELSE SubSeq(lex, 1, i - 1)
After(lex, B) == SubSeq(lex, Len(UpTo(lex, B)) + 2, Len(lex))

\* The value of the digits ds times ten to the power e, without the zeros
\* that do not count.
Number(negative, ds, e) ==
    LET first == SelectInSeq(ds, LAMBDA d : d # 48)
        last  == SelectLastInSeq(ds, LAMBDA d : d # 48)
    IN  [negative |-> negative,
         digits |-> IF first = 0 THEN <<>> ELSE SubSeq(ds, first, last),
         power |-> IF first = 0 THEN 0 ELSE e + Len(ds) - last]

NumberIn(lex) ==
    LET mantissa == UpTo(lex, ExponentMark)
        exponent == After(lex, ExponentMark)
        power    == Decimal(DigitsOf(exponent))
    IN  Number(lex[1] = Minus, DigitsOf(mantissa),
               (IF Has(exponent, {Minus}) THEN -power ELSE power)
                   - Len(DigitsOf(After(mantissa, {Dot}))))

InRange(n) == n.power + Len(n.digits) \in -MaxExponent..MaxExponent

\* A digit somewhere in the mantissa and one in the exponent are enough.
Readable(lex) ==
    /\ Has(UpTo(lex, ExponentMark), Digit)
    /\ Has(lex, ExponentMark) => Has(After(lex, ExponentMark), Digit)
    /\ InRange(NumberIn(lex))

---------------------------------------------------------------------------
(* Strings                                                                 *)
Escapes == { <<34, 34>>, <<92, 92>>, <<47, 47>>, <<98, 8>>, <<102, 12>>,
             <<110, 10>>, <<114, 13>>, <<116, 9>> }
HexDigit(c) == CASE c \in 48..57  -> c - 48
                 [] c \in 97..102 -> c - 87
                 [] c \in 65..70  -> c - 55
                 [] OTHER         -> -1

\* A code unit of \uXXXX as bytes; the halves of a surrogate pair are
\* encoded one by one.
Utf8(c) == IF c <= 127 THEN <<c>>
           ELSE IF c <= 2047 THEN <<192 + (c \div 64), 128 + (c % 64)>>
           ELSE <<224 + (c \div 4096), 128 + ((c \div 64) % 64), 128 + (c % 64)>>

---------------------------------------------------------------------------
(* The parser.  A frame is a call of parse_array (so far: items) or of     *)
(* parse_object (so far: fields, and the key being given a value).         *)
Start == [at |-> "value", stack |-> <<>>, lex |-> <<>>, unit |-> <<>>,
          isKey |-> FALSE, value |-> Null]
Failed(q) == [q EXCEPT !.at = "failed"]
Goto(q, at) == [q EXCEPT !.at = at]
Collect(q, at, lex) == [q EXCEPT !.at = at, !.lex = lex]
Call(q, frame) == [q EXCEPT !.at = "first", !.stack = Append(q.stack, frame)]
InArray(q) == "items" \in DOMAIN Last(q.stack)
Closer(q) == IF InArray(q) THEN RBracket ELSE RBrace

\* parse_value returns v to its caller, which goes on behind it.
Give(q, v) ==
    IF q.stack = <<>> THEN [q EXCEPT !.at = "end", !.value = v]
    ELSE LET f    == Last(q.stack)
             with == IF InArray(q) THEN [items |-> Append(f.items, v)]
                     ELSE [fields |-> Assigned(f.fields, f.key, v), key |-> f.key]
         IN  [q EXCEPT !.at = "behind", !.stack = Append(Front(q.stack), with)]

\* The innermost call returns its container.
Close(q) == LET f == Last(q.stack)
            IN  Give([q EXCEPT !.stack = Front(q.stack)],
                     IF InArray(q) THEN Array(f.items) ELSE Object(f.fields))

Value(q, c) ==
    IF c = Quote THEN [Collect(q, "string", <<>>) EXCEPT !.isKey = FALSE]
    ELSE IF c = LBracket THEN Call(q, [items |-> <<>>])
    ELSE IF c = LBrace THEN Call(q, [fields |-> <<>>, key |-> <<>>])
    ELSE IF c = Minus \/ c \in Digit THEN Collect(q, "number", <<c>>)
    ELSE IF \E l \in Literals : l[1][1] = c THEN Collect(q, "literal", <<c>>)
    ELSE Failed(q)

Literal(q, c) ==
    LET lex  == Append(q.lex, c)
        ours == {l \in Literals : IsPrefix(lex, l[1])}
    IN  IF ours = {} THEN Failed(q)
        ELSE IF \E l \in ours : l[1] = lex THEN Give(q, (CHOOSE l \in ours : TRUE)[2])
        ELSE Collect(q, "literal", lex)

Key(q, c) == IF c = Quote THEN [Collect(q, "string", <<>>) EXCEPT !.isKey = TRUE]
             ELSE Failed(q)

\* The string that ends is the next key of an object, or a value.
EndString(q) ==
    IF q.isKey
    THEN [q EXCEPT !.at = "colon",
                   !.stack = Append(Front(q.stack), [Last(q.stack) EXCEPT !.key = q.lex])]
    ELSE Give(q, Text(q.lex))

String(q, c) == IF c = Quote THEN EndString(q)
                ELSE IF c < 32 THEN Failed(q)
                ELSE IF c = Backslash THEN Goto(q, "escape")
                ELSE Collect(q, "string", Append(q.lex, c))

Escape(q, c) ==
    IF c = 117 THEN [q EXCEPT !.at = "unit", !.unit = <<>>]        \* u
    ELSE IF \E e \in Escapes : e[1] = c
    THEN Collect(q, "string", Append(q.lex, (CHOOSE e \in Escapes : e[1] = c)[2]))
    ELSE Failed(q)

Unit(q, c) ==
    LET unit == Append(q.unit, HexDigit(c)) IN
    IF HexDigit(c) = -1 THEN Failed(q)
    ELSE IF Len(unit) < 4 THEN [q EXCEPT !.unit = unit]
    ELSE Collect(q, "string",
                 q.lex \o Utf8(FoldLeft(LAMBDA n, d : 16 * n + d, 0, unit)))

\* Where skip_ws runs: before a value, a key, a colon, a comma or an end.
Structure(q, c) ==
    IF c \in Blank THEN q
    ELSE IF q.at = "first"
    THEN IF c = Closer(q) THEN Close(q) ELSE IF InArray(q) THEN Value(q, c) ELSE Key(q, c)
    ELSE IF q.at = "value" THEN Value(q, c)
    ELSE IF q.at = "key" THEN Key(q, c)
    ELSE IF q.at = "colon" THEN IF c = Colon THEN Goto(q, "value") ELSE Failed(q)
    ELSE IF q.at = "end" THEN Failed(q)                  \* trailing data
    ELSE IF c = Closer(q) THEN Close(q)
    ELSE IF c = Comma THEN Goto(q, IF InArray(q) THEN "value" ELSE "key")
    ELSE Failed(q)

\* Mutant of EndNumber: whatever was collected counts as a number.
EndNumberUnchecked(q) == Give(q, NumberIn(q.lex))

EndNumber(q) == IF Readable(q.lex) THEN Give(q, NumberIn(q.lex)) ELSE Failed(q)

\* A number ends at the first byte parse_number does not take, and that
\* byte is read again by the caller.
InNumber(q, c) ==
    IF Continues(q.lex, c) THEN Collect(q, "number", Append(q.lex, c))
    ELSE IF Readable(q.lex) THEN Structure(EndNumber(q), c) ELSE Failed(q)

StepOn(q, c) ==
    CASE q.at = "literal" -> Literal(q, c)
      [] q.at = "string"  -> String(q, c)
      [] q.at = "escape"  -> Escape(q, c)
      [] q.at = "unit"    -> Unit(q, c)
      [] q.at = "number"  -> InNumber(q, c)
      [] q.at = "failed"  -> q
      [] OTHER            -> Structure(q, c)

\* run() at the end of the document: a number may still be open.
AtEnd(q) == LET r == IF q.at = "number" THEN EndNumber(q) ELSE q
            IN  Goto(r, IF r.at = "end" THEN "accepted" ELSE "truncated")

Parse(s) == AtEnd(FoldLeft(StepOn, Start, s))
Accepted(q) == q.at = "accepted"
Stopped(q) == q.at \in {"accepted", "truncated", "failed"}

---------------------------------------------------------------------------
JsonInit == p = Start /\ text = <<>> /\ alphabet \in Alphabets

Offered == IF p.at \in {"string", "escape", "unit"} THEN alphabet.inside
           ELSE alphabet.outside

ReadByte ==
    /\ ~Stopped(p) /\ Len(text) < alphabet.most
    /\ \E c \in Offered : p' = StepOn(p, c) /\ text' = Append(text, c)
    /\ UNCHANGED alphabet

EndOfText == ~Stopped(p) /\ p' = AtEnd(p) /\ UNCHANGED <<text, alphabet>>

JsonNext == ReadByte \/ EndOfText
=============================================================================
